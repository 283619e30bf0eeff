SPECIFICATION Spec
CONSTANTS
  NULL = NULL
  Programs <- MCClaims
  Intrinsics <- MCIntrinsics
  NodesOf <- MCNodesOf
  Arena = TRUE
INVARIANT NamesLive
CHECK_DEADLOCK FALSE
