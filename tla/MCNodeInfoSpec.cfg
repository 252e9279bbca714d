CONSTANTS
  MB = 2
  DefaultMilliCPU = 1
  DefaultMemory = 2
  ScalarNames <- MCScalarNames
  Pods = {"p1", "p2", "p3"}
  PodSpec <- MCPodSpec
  Nodes = {"n1"}
  NoNode = NoNode
  NodeAllocatable <- MCNodeAllocatable
  AffinityPods = {"p1"}
  AntiAffinityPods = {"p3"}
  MaxPodsOnNode = 3
  Objects = {o1, o2, o3}
  MaxCalls = 8
SPECIFICATION Spec
SYMMETRY ObjectSymmetry
INVARIANTS TypeOK ResourceAccounting GenerationIdentifiesContent
CHECK_DEADLOCK FALSE
