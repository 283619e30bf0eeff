SPECIFICATION Spec
CONSTANTS
  NULL = NULL
  Programs <- MCClaims
  Intrinsics <- MCIntrinsics
  NodesOf <- MCNodesOf
  Arena = FALSE
INVARIANT PrintReadsLive
CHECK_DEADLOCK FALSE
