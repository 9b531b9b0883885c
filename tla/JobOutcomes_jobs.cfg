\* Two jobs, one of them watched for failures only; room for one batch of one.
CONSTANTS
  a = a
  b = b
  Jobs = {a, b}
  Done = {a}
  Failing = {b}
  BatchSize = 1
  QueueSize = 1
  MaxRuns <- Restarted
SPECIFICATION Spec
INVARIANTS NoEndIsDropped NoEndIsRepeated OnlyEndsAreReported TailOfTheRun
PROPERTIES DoneIsAnnounced
