SPECIFICATION Spec
CONSTANTS
  lib = lib
  log = log
  Paths <- MCPaths
  Resolver <- MCResolver
  Asset <- MCAsset
  Data <- MCData
  VfsData <- MCVfsData
  Offsets <- MCOffsets
  Synth = {}
  Counts = {1}
  Snaps = {1}
  MaxFd = 2
  MaxLen = 2
  MaxRand = 1
  Absent = Absent
VIEW MCView
CONSTRAINT Apart
CHECK_DEADLOCK FALSE
INVARIANTS TypeOK StreamAtEnd FreshFd SharedViewIsPrefix
PROPERTY RestoreRewinds
