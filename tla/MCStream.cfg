\* The broadcast is in memory or goes through Redis; the retention keeps more than a
\* snapshot replays, and both are shorter than the journal.
CONSTANTS
  MaxEvents = 3
  MaxDeltas = 1
  QueueMax = 2
  ReplayLimit = 1
  Retention = 2
SPECIFICATION FairStreamSpec
INVARIANTS ShowsTheJournal NoTextLost
PROPERTIES CatchesUp
