\* Who may do what in a room, who enters it, who loses what: three people, one
\* custom role, one link, three calls of the API.
CONSTANTS
  alice = alice
  bob = bob
  carol = carol
  nobody = nobody
  c1 = c1
  l1 = l1
  none = none
  People <- MCPeople
  NoOne <- nobody
  NoRole <- none
  Creator <- alice
  Labelled <- MCLabelled
  Customs <- MCCustoms
  Links <- MCLinks
  ExtraChoices <- MCExtras
  AdjustChoices <- MCAdjust
  RoleChoices <- MCRoleChoices
  MaxUses = 2
  MaxCalls = 3
SPECIFICATION AccessSpec
SYMMETRY Symmetry
INVARIANTS RoomKeepsAnOwner NoAccomplice BannedNeedsAnOffer RolesInUseExist RevokedIsCut
\* Nobody has to call the API, and a behaviour has MaxCalls calls of it.
CHECK_DEADLOCK FALSE
