SPECIFICATION Spec
CONSTANTS
  Inputs <- BodySoups
  NULL = NULL
INVARIANT
  AcceptedRootIsSet
CHECK_DEADLOCK FALSE
