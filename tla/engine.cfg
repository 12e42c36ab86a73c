\* The loop, with everything that can go wrong, and handlers that may hang.
SPECIFICATION FairSpec
CONSTANTS
  trigger = trigger
  act = act
  check = check
  end = end
  ghost = ghost
  nowhere = nowhere
  Nodes <- MCNodes
  Ids = {trigger, act, check, end, ghost}
  NoNode = nowhere
  StartId = trigger
  Edges <- LoopEdges
  OnError <- ErrorRoutes
  MaxAttempts <- LoopAttempts
  AwaitingNodes = {act}
  TimedNodes = {act}
  HasTimeout = TRUE
  ListenersThrow = TRUE
  Purges = TRUE
  MaxHistory = 5
INVARIANTS
  HistoryIsWalk
  StatusIsJustified
  AbandonedWorkIsBounded
  StoreFollowsExecution
PROPERTIES
  RefinesRun
  
CHECK_DEADLOCK FALSE
