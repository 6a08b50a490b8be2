\* One person who decides and one who asks; three tabs are two of one person and
\* one of the other, or one closed, one opened again and a witness.
CONSTANTS
  alice = alice
  bob = bob
  nobody = nobody
  People <- MCPeople
  Priorities <- MCPriorities
  NoOne <- nobody
  Deciders <- MCDeciders
  MaxTabs = 3
  MaxTurns = 1
SPECIFICATION FairPresenceSpec
INVARIANTS HeirIsPresent TabsShowPresence
PROPERTIES WatchersKeepTheirPlace LeavesInTheEnd
\* Tabs and turns are bounded, so a behaviour may stop.
CHECK_DEADLOCK FALSE
