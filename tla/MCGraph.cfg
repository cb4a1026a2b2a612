CONSTANTS
  Configs <- MCConfigs
  Nil = Nil
  Slots = 1
  Yields = {0, 1}
  MaxPolls <- MCMaxPolls
SPECIFICATION FairSpec
INVARIANTS GraphTypeOK ReferencesResolve NoPanic DrainedWhenClosed SinksKeepPace
PROPERTIES FedIsDelivered
CHECK_DEADLOCK FALSE
