CONSTANTS
  None = None
  Absent = Absent
  NoCache = NoCache
  File = {f}
  Blob = {b1, b2}
  Opaque = {b2}
  Proc = {p, q}
  Scanner = {s, t}
  ScanOf <- MCScanOf
  Vouched = {f}
  DuringBuild = "nothing"
  RefillsMovedFiles = FALSE
  Gone = Gone
  Flat = Flat
  Path <- MCPath
  Ext <- MCExt
  Content <- MCContent
  Defines <- MCDefines
  Calls <- MCCalls
  MaxStale = 50
  MaxSteps = 4
  Torn = Torn
  Updater = {u, v}
  MaxTag = 2
  MaxBuild = 2
  Blank = Blank
  Shards <- MCShards
  Attempt <- MCAttempt
  Codes = {0, 1}
SPECIFICATION BuildsSpec
INVARIANTS BuildsTypeOK AnswerIsTheDisks InstalledIsVouchedFor  JobIsItsShards
PROPERTIES ImplementsUncached WritesSettle
CHECK_DEADLOCK FALSE
