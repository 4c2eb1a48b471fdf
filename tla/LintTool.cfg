CONSTANTS
  Paths <- MCPaths
  Trees <- MCTrees
  Requests <- MCRequests
  Available <- MCAvailable
  Slow = {"slow"}
  RunAllExcluded = {}
  AutoMap <- MCAutoMap
  Upstream <- MCUpstream
  UpstreamExcluded = {"mod_tools"}
  WrapperCap = 1
  UnattributedSample = 1
  Limits <- MCLimits
  MaxFound = 2
SPECIFICATION Spec
INVARIANTS NothingHidden OkMeansChecked
CHECK_DEADLOCK FALSE
