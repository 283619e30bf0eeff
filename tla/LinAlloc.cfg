SPECIFICATION FairSpec
CONSTANTS
  FirstSize = 5
  Header = 2
  Sizes = {1, 3, 9}
  Values = {x}
  Junk = Junk
  NULL = NULL
  MaxBlocks = 2
  MaxNext = 20
  MaxLive = 2
INVARIANTS
  TypeOK
  PiecesInBlocks
  PiecesDisjoint
  HeadersTrue
  BlocksDouble
PROPERTIES
  ImplementsHeap
  CallsReturn
CHECK_DEADLOCK FALSE
