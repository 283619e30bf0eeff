SPECIFICATION Spec
CONSTANTS
  a = a
  b = b
  Elems <- MCElems
  InitialCaps <- MCInitialCaps
  Garbage = Garbage
  Null = Null
  DefaultCap = 4
  MaxLen = 5
INVARIANTS
  TypeOK
  ElementsInside
  SlotIsElement
PROPERTY
  IsBuffer
CHECK_DEADLOCK FALSE
