SPECIFICATION Spec
CONSTANTS
  Inputs <- MCInputs
  NULL = NULL
INVARIANTS
  TypeOK
  ElementsConsume
  TreeFollowsSource
  TextsOwned
  RoundTrip
  PrintShowsProgram
  AllTextsFreed
CHECK_DEADLOCK FALSE
