SPECIFICATION UserFilesSpec
CONSTANTS
  FrontEnds <- MCFrontEnds
  Beside <- MCBeside
  UserLevel = {".claude/skills/rtdd/SKILL.md"}
  Worlds <- AllWorlds
  AgentFiles <- MCAgentFiles
  Shared = {"AGENTS.md"}
  Options <- MCOptions
  MaxEdits = 1
  Torn <- Owned
  None = None
  Token <- MCToken
  Wording = {"prose", "more prose"}
  Version = {"old render", "new render"}
  MaxLen = 4
  RepoPath = {p, q}
  Alike <- MCAlike
  Content = {c1, c2}
  Empty = Empty
  Unborn = Unborn
  BaseLines = 3
  MaxLines = 4
  Defs = {1, 2, 3}
  Indexed = {f, g}
  Blob = {b1, b2}
  Rtdd = Rtdd
  Scanner = {s}
  Absent = Absent
  NoCache = NoCache
INVARIANT UntrackedIsAdded
SYMMETRY Symmetry
CHECK_DEADLOCK FALSE
