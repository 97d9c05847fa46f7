SPECIFICATION LiveSpec
CONSTANTS
  MaxFibers = 2
  MaxSlices = 2
  MaxRounds = 6
  SliceCap = 1
  HandleBase = 4
  HandleSpan = 4
  Addrs = {"0"}
  NullAddr = "0"
  Rets = {0}
  Null = 0
  Ctxs = {c1, c2, c3}
  NoCtx = NoCtx
  Garbage = Garbage
  MaxPoint = 1
PROPERTIES
  RunThreadsReturns
  SleeperServed
  QuiescentReturn
