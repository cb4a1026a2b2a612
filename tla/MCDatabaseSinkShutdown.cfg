CONSTANTS
  Kind = {"StopEvent"}
  MaxBatchSize = 2
  MaxEvents = 3
  DbFaults = FALSE
  S3Faults = FALSE
  MaxSecond = 0
SPECIFICATION Spec
INVARIANT DrainedOnCancel
CHECK_DEADLOCK FALSE
