CONSTANTS
  MB = 2
  DefaultMilliCPU = 1
  DefaultMemory = 2
  ScalarNames <- MCScalarNames
  Pods = {"p", "g", "a", "b", "c", "d"}
  PodSpec <- MCPodSpec
  Nodes = {"n1", "n2"}
  NoNode = NoNode
  NodeAllocatable <- MCNodeAllocatable
  AffinityPods = {}
  AntiAffinityPods = {}
  NodeOrder <- MCNodeOrder2
  PodOrder <- MCPodOrder2
  MigratablePods = {"a", "b", "c"}
  HyphenatedPods = {}
  Admits <- MCAdmits
  MigrateMayFail = FALSE
  DeleteLastPods = {}
  PlaceablePods = {"p", "g", "a", "b", "c", "d"}
  Priority <- MCPriority
  InitialPending = {"p", "g"}
  Iterations = 2
  Drivers = {"policy"}
  CliPod = "p"
SPECIFICATION Spec
INVARIANTS PlacedTargetFits
