CONSTANTS
  l1 = l1
  t1 = t1
  Timestamps = {0, 1}
  Agency = {a1}
  Line <- MCLine
  Trip <- MCTrip
  Vehicle = {v1}
  Stop = {s1, s2}
  NoVehicle = NoVehicle
  NoStop = NoStop
  Nil = Nil
  Foreign = Foreign
  Int32Max = 5
  TTL = 1
  MaxTime = 2
  StoreFaults = {}
  SharedStore = FALSE
  Positions <- MCPositions
SPECIFICATION Spec
PROPERTY ArrivalUsesPreviousAttributes
