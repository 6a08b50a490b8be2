\* Two connections, a watchdog, turns that may be cut by somebody else.
CONSTANTS
  alice = alice
  bob = bob
  nobody = nobody
  People <- MCPeople
  Priorities <- NoPriority
  NoOne <- nobody
  MaxTurns = 2
  MaxLinks = 2
  Preemptors <- MCPeople
SPECIFICATION FairTurnsSpec
INVARIANTS NeverStuckGenerating ReleasedByItsOwnEnd FloorMatchesTurn
PROPERTIES SerialisedByTheFloor InterruptHitsItsTurn AcceptedIsSent TurnEnds AnnouncedInTheEnd
\* The numbers of turns and of connections are bounded, so a behaviour may stop.
CHECK_DEADLOCK FALSE
