CONSTANTS
  l1 = l1
  t1 = t1
  Timestamps = {0}
  Agency = {a1}
  Line <- MCLine
  Trip <- MCTrip
  Vehicle = {v1, v2}
  Stop = {s1, s2}
  NoVehicle = NoVehicle
  NoStop = NoStop
  Nil = Nil
  Foreign = Foreign
  Int32Max = 5
  TTL = 1
  MaxTime = 2
  StoreFaults = {"get", "set"}
  SharedStore = TRUE
  Positions <- MCPositions
SPECIFICATION Spec
SYMMETRY Symmetry
INVARIANTS TypeOK Alternation EventsMatchState
