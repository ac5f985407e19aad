SPECIFICATION FairSpec
CONSTANTS
  Size = 4
  Names = {x, y}
  MaxOpen = 5
INVARIANTS
  TypeOK
PROPERTIES
  WalkEnds
CHECK_DEADLOCK FALSE
