SPECIFICATION Spec
CONSTANTS
  MaxFibers = 2
  MaxSlices = 2
  MaxRounds = 2
  SliceCap = 0
  HandleBase = 4
  HandleSpan = 4
  Addrs <- MCAddrs
  NullAddr = "0"
  Rets = {0, 1}
  Null = 0
  Ctxs = {c1, c2, c3}
  NoCtx = NoCtx
  Garbage = Garbage
  MaxPoint = 1
INVARIANTS
  TypeOK
  ContextsOwned
  ContextsIntact
  JoinOwnResult
  BudgetsHold
PROPERTIES
  DoneIsFinal
  ImplementsThreads
SYMMETRY Renamings
