CONSTANTS
  Configs <- MCIsolated
  Nil = Nil
  Slots = 1
  Yields = {1}
  MaxPolls <- MCManyPolls
SPECIFICATION Spec
INVARIANT NoBackPressure
CHECK_DEADLOCK FALSE
