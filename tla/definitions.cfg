\* Definitions built, parsed and shipped, validated or not, and executed.
SPECIFICATION FairDefinitionsSpec
CONSTANTS
  BuilderIds = {"t", "x", "y"}
  EntryIds = {"x"}
  NodesFor <- MCNodesFor
  Parsed <- MCParsed
  MaxIterations = 2
  MaxDepth = 4
INVARIANTS
  AcceptedNeverDangles
  UnreachableNeverRuns
  TemplatesReachTheirEnd
PROPERTIES
  RunsEnd
CHECK_DEADLOCK FALSE
