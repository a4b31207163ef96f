SPECIFICATION BothSpec
CONSTANTS
  FrontEnds <- MCFrontEnds
  Beside <- MCBeside
  UserLevel = {".claude/skills/rtdd/SKILL.md"}
  Worlds <- FewWorlds
  AgentFiles <- MCAgentFiles
  Shared = {"AGENTS.md"}
  Options <- MCOptions
  MaxEdits = 1
  Torn = {}
  None = None
  Token <- MCToken
  Wording = {"prose", "more prose"}
  Version = {"old render", "new render"}
  MaxLen = 4
INVARIANT ConflictStopsBeforeWriting
