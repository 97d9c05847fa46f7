SPECIFICATION Spec
CONSTANTS
  Segments <- MCData
  BrkBase = 1
  BrkPages = 2
  MmapBase = 3
  ArenaPages = 1
  Vals = {0, 1}
  Zero = 0
  Absent = Absent
  NoSnap = NoSnap
  Guests <- MCShrinks
PROPERTIES
  RestoreReleasesBrk
CHECK_DEADLOCK FALSE
