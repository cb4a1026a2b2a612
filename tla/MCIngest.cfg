CONSTANTS
  a1 = a1
  a2 = a2
  v1 = v1
  t2 = t2
  l1 = l1
  s1 = s1
  s2 = s2
  Agency = {a1, a2}
  Line <- MCLine
  Trip <- MCTrip
  Vehicle <- MCVehicle
  Stop = {s1, s2}
  NoVehicle = NoVehicle
  NoStop = NoStop
  Nil = Nil
  Foreign = Foreign
  Int32Max = 5
  TTL = 0
  MaxTime = 1
  StoreFaults = {"set"}
  SharedStore = TRUE
  Positions <- MCPositions
  Entities <- MCEntities
SPECIFICATION IngestSpec
INVARIANTS NoNilEvents EventsAreGrounded
PROPERTIES DeliversPositions
