CONSTANTS
  Agency <- MCAgency
  Vehicle <- MCVehicle
  Line <- MCLine
  Trip <- MCTrip
  Stop <- MCStop
  StopEvents <- MCStopEvents
  NoVehicle = NoVehicle
  NoStop = NoStop
  Nil = Nil
  Foreign = Foreign
  Int32Max = 2
  TTL = 1
  MaxTime = 3
  StoreFaults = {}
  SharedStore = TRUE
SPECIFICATION DwellSpec
INVARIANTS DwellTypeOK DwellPairsOpenVisit DwellIsFresh DwellNotOverstated StoredArrivalIsOpen
