SPECIFICATION FairSpec
CONSTANTS
  NULL = NULL
  Graphs <- MCGraphs
INVARIANTS
  SeenIsWay
  DepthBounded
  PrintsUnfolding
  PrintsProgram
PROPERTY
  Returns
CHECK_DEADLOCK FALSE
