SPECIFICATION LiveSpec
CONSTANTS
  Docs = {d1}
  Attempts = {a1, a2}
  NoAttempt = NoAttempt
  Workers = {w1, w2}
  BatchSize = 1
  PollOverlap = 0
  RefreshFreq = 0
  TaskTimeout = 1
  WatchdogTimeout = 1
  MaxEvents = 1
INVARIANTS
  TypeOK
  OneWriter
  IndexCatchesUp
PROPERTIES
  RunsEnd
  DueIsServed
