SPECIFICATION Spec
CONSTANTS
  Id <- MCId
  Node <- MCNode
  File <- MCFile
  KindOf <- MCKindOf
  FileOf <- MCFileOf
  RunId <- MCRunId
  WholeFile <- MCWholeFile
  Module <- MCModule
  Repos <- AllRepos
  MaxDepth = 5
  None = {nothing}
INVARIANTS TypeOK LinkedTestsSelected SelectionIsExact
PROPERTY Terminates
