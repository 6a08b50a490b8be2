\* Three people, two priorities: every interleaving of requests, decisions,
\* turns and departures.  Two people suffice for each branch; the third lets a
\* decision be overridden by another and a queue have a middle.
CONSTANTS
  alice = alice
  bob = bob
  carol = carol
  nobody = nobody
  People <- MCPeople
  Priorities <- MCPriorities
  NoOne <- nobody
SPECIFICATION Spec
INVARIANTS TokenSound
PROPERTIES NoOvertaking DecisionsBind KeepsSpeakingRight
