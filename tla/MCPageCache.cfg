SPECIFICATION Spec
CONSTANTS
  NumPages = 2
  TlbSize = 1
  CtlbSize = 1
  Objs = {o1, o2}
  NoPage = NoPage
  ZeroPage = ZeroPage
  Codes = {c1, c2}
  NoCode = NoCode
  Vals = {0, 1}
  Zero = 0
  NotDecoded = NotDecoded
  Prots <- MCProts
  HookRanges <- MCHookRanges
  MaxHooks = 1
  Nothing = Nothing
INVARIANTS
  TypeOK
  TlbCoherent
  DecodedNotWritable
  CodeCurrent
PROPERTIES
  ImplementsMemory
SYMMETRY Renamings
VIEW Reachable
