CONSTANTS
  File = {f}
  Blob = {b1, b2}
  Opaque = {}
  Proc = {p, q}
  Scanner = {s}
  ScanOf <- MCScanOf
  Vouched = {f}
  Absent = Absent
  None = None
  NoCache = NoCache
  DuringBuild = "dirty"
  RefillsMovedFiles = FALSE
SPECIFICATION OneFileSpec
INVARIANTS TypeOK CacheHonest EveryChangeScanned
PROPERTY ImplementsUncached
SYMMETRY Symmetry
CHECK_DEADLOCK FALSE
