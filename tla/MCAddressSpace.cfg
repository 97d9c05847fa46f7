SPECIFICATION Spec
CONSTANTS
  Segments <- MCLongText
  BrkBase = 2
  BrkPages = 1
  MmapBase = 3
  ArenaPages = 2
  Vals = {0, 1}
  Zero = 0
  Absent = Absent
  NoSnap = NoSnap
  Guests <- MCGuests
INVARIANTS
  TypeOK
  TableInSync
  BrkInSync
PROPERTIES
  AllocFresh
  RestoreExact
  RestoreWhole
CHECK_DEADLOCK FALSE
