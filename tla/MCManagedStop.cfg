\* A call that stops an agent is said to return: it waits for a process that nobody signals.
CONSTANTS
  k1 = k1
  k2 = k2
  k3 = k3
  Nothing = Nothing
  FirstSecret = FirstSecret
  Calls <- MCCalls
SPECIFICATION ManagedSpec
PROPERTIES StopReturns
CHECK_DEADLOCK FALSE
