\* Two participants with any rights, one of which may change; a call that may be cut,
\* and one fault of any kind, with a reconnection.
CONSTANTS
  alice = alice
  bob = bob
  People <- MCPeople
  MaxAsks = 1
  MaxConns = 2
  MaxCuts = 1
  MaxFaults = 1
  MaxChanges = 1
SPECIFICATION FairApprovalsSpec
INVARIANTS AllowedByRight DeskIsTrue
PROPERTIES AskEnds
\* Calls, connections, cuts and faults are bounded, so a behaviour may stop.
CHECK_DEADLOCK FALSE
