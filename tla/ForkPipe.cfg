SPECIFICATION FairSpec
CONSTANT REP_N = 2
INVARIANTS
  TypeOK
  AllCollected
PROPERTIES
  ParentReturns
CHECK_DEADLOCK FALSE
