\* One profile: three calls that overlap, on an agent whose process does what it likes.
CONSTANTS
  k1 = k1
  k2 = k2
  k3 = k3
  Nothing = Nothing
  FirstSecret = FirstSecret
  Calls <- MCCalls
SPECIFICATION ManagedSpec
INVARIANTS RunsWithTheDeposit TokensDieWithTheirAgent NoProcessUnattended
PROPERTIES FailureIsTold CallsReturn
\* The calls are made once: when all have returned, and the process has ended, nothing is left.
CHECK_DEADLOCK FALSE
