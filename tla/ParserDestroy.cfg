SPECIFICATION Spec
CONSTANTS
  Inputs <- BraceSoups
  NULL = NULL
INVARIANT
  DestroyIsSafe
CHECK_DEADLOCK FALSE
