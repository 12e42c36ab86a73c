SPECIFICATION Spec

CONSTANTS
  Names = {"a"}
  Prompts <- MCPrompts
  Configs <- MCConfigs
  Patches <- MCPatches
  ToolIds = {t1}
  Sessions = {s1}
  None = None
  MaxAgents = 2
  MaxVersion = 3
  MaxPending = 2
  MaxCalls = 4

INVARIANTS
  HistoryIsFaithful
  SessionsOwnOneAgent
  DeployedAsBuilt

CHECK_DEADLOCK FALSE
