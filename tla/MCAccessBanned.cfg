\* Somebody is excluded while an offer made to them is open.
CONSTANTS
  alice = alice
  bob = bob
  carol = carol
  nobody = nobody
  c1 = c1
  l1 = l1
  none = none
  People <- MCPeople
  NoOne <- nobody
  NoRole <- none
  Creator <- alice
  Labelled <- MCLabelled
  Customs <- MCCustoms
  Links <- MCLinks
  ExtraChoices <- MCExtras
  AdjustChoices <- MCAdjust
  RoleChoices <- MCRoleChoices
  MaxUses = 2
  MaxCalls = 3
SPECIFICATION AccessSpec
SYMMETRY Symmetry
INVARIANT ExclusionClosesEveryDoor
\* Nobody has to call the API, and a behaviour has MaxCalls calls of it.
CHECK_DEADLOCK FALSE
