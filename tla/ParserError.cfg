SPECIFICATION Spec
CONSTANTS
  Inputs <- BraceSoups
  NULL = NULL
INVARIANT
  UnexpectedTokenIsError
CHECK_DEADLOCK FALSE
