CONSTANTS
  Client = {c1, c2}
  Key = {k1, k2}
  Message = {m1}
  Nil = Nil
  TTL = 1
  TTLArgs = {0, 2}
  MaxTime = 2
SPECIFICATION FairSpec
INVARIANTS TypeOK SweepInv
PROPERTIES ImplementsContract CallsReturn LapsedIsSwept
