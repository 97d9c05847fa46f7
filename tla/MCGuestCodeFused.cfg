SPECIFICATION FusedSpec
CONSTANTS
  ByteBits = 1
  PageSize = 64
  NumPages = 2
  XRegs = {0, 1, 2, 30, 31, 32, 33}
  VRegs = {0, 1, 30, 31}
  Programs <- MCPrograms
  Bases = {8, 58, 61, 120, 250}
  Prots <- MCPageProts
  Background <- MCBackground
  Images <- MCImages
  LastBase = 140
  HostNames = {"malloc"}
  moduleBase = 100
  stubBase = 40
  stubSize = 4
  PageWords = 4
  GapPages = 1
CHECK_DEADLOCK FALSE
INVARIANT FusedRoundsOnce
