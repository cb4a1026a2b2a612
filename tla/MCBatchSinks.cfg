CONSTANTS
  Kind = {"StopEvent", "HeadwayTimeEvent", "VehiclePositionEvent"}
  MaxBatchSize = 2
  MaxEvents = 3
  DbFaults = TRUE
  S3Faults = TRUE
  MaxSecond = 2
SPECIFICATION FairSpec
INVARIANTS TypeOK WrittenOnceInOrder NothingVanishes LastFlushIsNotCancelled
PROPERTIES BufferedIsFlushed SinkStops
CHECK_DEADLOCK FALSE
