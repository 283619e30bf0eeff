SPECIFICATION Spec
CONSTANTS
  Keys <- CollidingKeys
  Vals = {v1}
  Absent = Absent
  InitPow = 1
  MaxPow = 4
  MaxPuts = 4
  CapOf <- MCCapOf
  Home <- MCHome
  Width = 4
  Mult = 10
INVARIANT ListedKeysReadable
CHECK_DEADLOCK FALSE
