CONSTANTS
  Workloads <- MCWorkloads
  Kind <- MCKind
  Nodes <- MCNodes
  NoNode = NoNode
  Gone = Gone
  Cap = 3
  MaxGen = 5
  InitReplicas <- MCInitReplicas
  InitNode <- MCInitNode
  Failing <- MCFailing
  MayCrash = TRUE
  Calls <- MCCalls
SPECIFICATION Spec
INVARIANT TypeOK
PROPERTY ScaleSafety SurgeBeforeDelete
