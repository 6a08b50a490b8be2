\* One owner, one request: the smallest behaviour in which a room loses its host.
CONSTANTS
  alice = alice
  bob = bob
  Owners <- OneOwner
  MaxConns = 2
  MaxOrders = 2
  MaxCalls = 1
  MaxFaults = 0
SPECIFICATION HostingSpec
INVARIANTS AnnouncedIsHosted
CHECK_DEADLOCK FALSE
