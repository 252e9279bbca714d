CONSTANTS
  Workloads <- MCWorkloads
  Kind <- MCKind
  Nodes <- MCNodes
  NoNode = NoNode
  Gone = Gone
  Cap = 3
  MaxGen = 5
  InitReplicas <- MCInitReplicas
  InitNode <- MCInitNode
  Failing = {}
  MayCrash = FALSE
  WriteValues = {1}
  MaxVersion = 3
  Calls <- MCCalls
SPECIFICATION WriterSpec
PROPERTY ScaleProtocolSpec
