SPECIFICATION FairSpec
CONSTANTS
  MB = 2
  Top = 3
INVARIANTS
  TypeOK
  ProperHandler
  MemoryCounted
PROPERTIES
  EnterLeaves
CHECK_DEADLOCK FALSE
