\* A setting that is changed and changed back, one hosting (a Hosted shares nothing
\* with the one before it) and three turns: one that plays on after a cut, one that
\* comes on the new connection, and one after a reopening.
CONSTANTS
  unset = unset
  chosen = chosen
  keep = keep
  Values <- MCValues
  Default = unset
  Keep = keep
  MaxHosts = 1
  MaxTurns = 3
  MaxChanges = 2
  MaxFrames = 2
  Failing = TRUE
SPECIFICATION SessionSpec
INVARIANTS OneMemory SettingsTake
PROPERTIES NobodysAnswerIsCut
\* Hostings, turns and changes are bounded, so a behaviour may stop.
CHECK_DEADLOCK FALSE
