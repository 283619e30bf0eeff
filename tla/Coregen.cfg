SPECIFICATION Spec
CONSTANTS
  NULL = NULL
  Programs <- MCPrograms
  Intrinsics <- MCIntrinsics
  NodesOf <- MCNodesOf
  Arena = FALSE
INVARIANTS TypeOK GraphMeansProgram FailIffUnbound FreedOnce DestroysLive GeneratesLive AllFreed
CHECK_DEADLOCK FALSE
