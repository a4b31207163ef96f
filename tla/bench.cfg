SPECIFICATION BenchSpec
CONSTANTS
  None = None
  Instances = 3
  MaxSpend = 2
  Ceiling = 3
  MaxMishaps = 2
  Truncated = Truncated
  Writers = {"w"}
  Payloads = {"before", "after"}
  Recipes <- Corpus
  Plugins <- Harness
  MaxKills = 2
  MaxStores = 3
  MaxProvisions = 3
  NPoints = 2
  Path = {"source", "test"}
  Content = {"a", "b"}
  TestPath = {"test"}
  MaxHistory = 3
  MaxPoints = 2
  Tests <- Replayed
  Given <- AskedFor
  Configs <- Digests
  Worlds <- Histories
  WallEvery = 1
  MaxDeaths = 1
  MaxRuns = 3
  Forms <- Drafts
  Samples <- Frozen
  Published <- Measures
  MaxCommits = 3
  MaxEdits = 1
  Ids <- FrozenIds
  Arms <- BothArms
  Records <- Attempts
  P2P <- KeptTests
  F2P <- FixedTests
  Verdicts <- HarnessSays
  K = 1
  MaxCuts = 1
  MaxAsks = 2
  Torn = Torn
  Rows <- Directories
  Admitted = {"a", "b"}
  Selections = {"paired"}
  Labels = {"", "v2", "b"}
  MaxMeasured = 3
  MaxCommands = 4
  MaxKilled = 1
  HalfWritten = HalfWritten
  Sources = {"s"}
  TestFiles = {"x", "y"}
  Names = {"n"}
  Params = {0, 1}
  Bases <- CollectedBefore
  ImportGraphs <- ImportedBefore
  Siblings <- Namesakes
  MaxTouches = 2
  MaxAsked = 2
  Nobody = Nobody
  Unreadable = Unreadable
  Listed <- InOrder
  Length <- IdLengths
  Budget = 6
  Unseen = Unseen
  Cycles <- Walked
  Truths <- Recordable
  ArmsRun <- OnlyArm
  Duration <- Took
  Correspondents <- Templates
  Uncovered <- Reportable
  MaxSamples = 5
  Times = {0, 3, 9}
  Scale = 6
  Unknown = Unknown
INVARIANTS BenchTypeOK CostCountsAll CeilingHolds ArmIsComplete ChargedIsRecorded
INVARIANTS   TreeIsTheVariant PicksAreRunnable 
INVARIANTS ScoresAreShares  JudgedUnderTheTag
PROPERTIES RecordsAreKept ReplayGetsThrough PageHolds 
CHECK_DEADLOCK FALSE
