SPECIFICATION Spec
CONSTANTS
  MaxFibers = 2
  MaxSlices = 2
  MaxRounds = 3
  SliceCap = 1
  HandleBase = 4
  HandleSpan = 4
  Addrs <- MCAddrs
  NullAddr = "0"
  Rets = {0}
  Null = 0
  Ctxs = {c1, c2, c3}
  NoCtx = NoCtx
  Garbage = Garbage
  MaxPoint = 1
PROPERTY
  ParkedFiberResumes
