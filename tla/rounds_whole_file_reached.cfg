SPECIFICATION Spec
CONSTANTS
  Id <- MCId
  Node <- MCNode
  File <- MCFile
  KindOf <- MCKindOf
  FileOf <- MCFileOf
  RunId <- MCRunId
  WholeFile <- MCWholeFile
  Module <- MCModule
  Repos <- HelpersOnly
  MaxDepth = 5
  None = {nothing}
INVARIANT WholeFileOnlyIfUnreached
