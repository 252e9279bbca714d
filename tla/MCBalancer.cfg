CONSTANTS
  MB = 2
  RatioSentinel = 1000
  DefaultMilliCPU = 1
  DefaultMemory = 2
  ScalarNames <- MCScalarNames
  Pods = {"c1", "c2", "m1", "g1", "d1"}
  PodSpec <- MCPodSpec
  Nodes = {"n1", "n2", "n3", "n4"}
  NoNode = NoNode
  NodeAllocatable <- MCNodeAllocatable
  AffinityPods = {}
  AntiAffinityPods = {}
  NodeOrder <- MCNodeOrder
  PodOrder <- MCPodOrder
  MigratablePods = {"c1", "c2", "m1", "g1"}
  Iterations = 2
  Driver = "cli"
  Listings = {{"n1", "n2", "n3", "n4"}, {"n1"}, {}}
SPECIFICATION Spec
INVARIANTS TypeOK
PROPERTIES SwapContract
