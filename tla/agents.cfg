\* Three commands, two agents, and everything the network may do.
SPECIFICATION FairSpec
CONSTANTS
  none = none
  suggest = suggest
  auto = auto
  MaxCommands = 3
  MaxInstances = 2
  None = none
  Levels = {suggest, auto}
  DefaultLevel = suggest
  MaxCrashes = 1
INVARIANTS
  NoAgentIsForgotten
  RegistryFollowsGateway
PROPERTIES
  CommandsSettle
CHECK_DEADLOCK FALSE
