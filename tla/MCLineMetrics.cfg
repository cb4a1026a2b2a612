CONSTANTS
  Agency <- MCAgency
  Vehicle <- MCVehicle
  Line <- MCLine
  Trip <- MCTrip
  Stop <- MCStop
  StopEvents <- MCStopEvents
  MaxDeparture = 6
  MaxArrival = 4
  NoVehicle = NoVehicle
  NoStop = NoStop
  Nil = Nil
  Foreign = Foreign
  Int32Max = 2
  TTL = 1
  MaxTime = 3
  StoreFaults = {"get", "delete"}
  SharedStore = TRUE
SPECIFICATION LineSpec
INVARIANTS LineTypeOK HeadwaysTelescope HeadwayNotOverstated TravelJoinsConsecutiveCalls TravelNotOverstated StoredArrivalIsLastCall
