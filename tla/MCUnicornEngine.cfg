SPECIFICATION LiveSpec
CONSTANTS
  Callers = {d, o}
  Driver = d
  Nobody = Nobody
  None = None
  Vals = {0, 1}
  Blocks = {b1}
  MaxHooks = 2
  MaxDepth = 2
  MayFailOpen = FALSE
INVARIANTS
  TypeOK
  HooksSeen
  RegistryExact
PROPERTIES
  ImplementsCalls
  CallsReturn
CHECK_DEADLOCK FALSE
