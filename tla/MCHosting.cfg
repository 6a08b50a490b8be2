\* Two owners, one of whom may reconnect while the other hosts; an intention and its
\* opposite, or a change of role in between; one fault of any kind.
CONSTANTS
  alice = alice
  bob = bob
  Owners <- MCOwners
  MaxConns = 3
  MaxOrders = 1
  MaxCalls = 2
  MaxFaults = 1
SPECIFICATION FairHostingSpec
INVARIANTS OnlyTheHostIsConnected HostIsServed DaemonIsKnown
PROPERTIES HostsByRight HostIsThere
\* Requests, connections and faults are bounded, so a behaviour may stop.
CHECK_DEADLOCK FALSE
