SPECIFICATION FairSpec
CONSTANTS
  Keys <- CollidingKeys
  Vals = {v1, v2}
  Absent = Absent
  InitPow = 1
  MaxPow = 4
  MaxPuts = 4
  CapOf <- MCCapOf
  Home <- MCHome
  Width = 4
  Mult = 10
INVARIANTS
  TypeOK
  ChainUnbroken
  UniqueKeys
  MissIsTrue
  StringsOwned
  LoadBelowHalf
  GrowNeverNests
  KeysComplete
PROPERTIES
  ImplementsMap
  CallsReturn
CHECK_DEADLOCK FALSE
