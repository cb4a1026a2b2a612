CONSTANTS
  Configs <- MCSharedSink
  Nil = Nil
  Slots = 1
  Yields = {1}
  MaxPolls <- MCMaxPolls
SPECIFICATION Spec
INVARIANT ShutdownIsGraceful
CHECK_DEADLOCK FALSE
