\* Three branches or iterations, every strategy and kind of loop.
SPECIFICATION FairSpec
CONSTANTS
  fetch = fetch
  store = store
  end = end
  ghost = ghost
  nowhere = nowhere
  total = total
  report = report
  N = 3
  Nodes = {fetch, store}
  EndNodes = {end}
  Ids = {fetch, store, end, ghost}
  NoNode = nowhere
  Edges <- MCEdges
  Writes <- MCWrites
  Keys = {total, report}
  BaseKeys = {total}
  Configs <- MCConfigs
INVARIANTS
  RunsAreBounded
  PatchIsLastWriter
PROPERTIES
  NodeAndRunsEnd
CHECK_DEADLOCK FALSE
