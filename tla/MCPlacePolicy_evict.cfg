CONSTANTS
  MB = 2
  DefaultMilliCPU = 1
  DefaultMemory = 2
  ScalarNames <- MCScalarNames
  Pods = {"e", "f", "h", "y", "x", "a"}
  PodSpec <- MCPodSpec
  Nodes = {"n1", "n2", "n3"}
  NoNode = NoNode
  NodeAllocatable <- MCNodeAllocatable
  AffinityPods = {}
  AntiAffinityPods = {}
  NodeOrder <- MCNodeOrder
  PodOrder <- MCPodOrder5
  MigratablePods = {"f", "h", "y", "x", "a"}
  HyphenatedPods = {}
  Admits <- MCAdmits
  MigrateMayFail = TRUE
  DeleteLastPods = {}
  PlaceablePods = {"e"}
  Priority <- MCPriority
  InitialPending = {"e"}
  Iterations = 2
  Drivers = {"policy", "cli"}
  CliPod = "e"
SPECIFICATION Spec
INVARIANTS TypeOK EvictsOnlySmaller
