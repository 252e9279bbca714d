CONSTANTS
  MB = 2
  RatioSentinel = 1000
  DefaultMilliCPU = 1
  DefaultMemory = 2
  ScalarNames <- MCScalarNames
  Pods = {"c1", "m1", "d1", "y1", "y2"}
  PodSpec <- MCPodSpec
  Nodes = {"n1", "n2", "n3", "n4"}
  NoNode = NoNode
  NodeAllocatable <- MCNodeAllocatable
  AffinityPods = {}
  AntiAffinityPods = {}
  NodeOrder <- MCNodeOrder
  PodOrder <- MCPodOrder
  MigratablePods = {"c1", "m1"}
  Iterations = 1
  Driver = "cli"
  Listings <- MCTwoUnlisted
SPECIFICATION Spec
PROPERTIES SwapContract
