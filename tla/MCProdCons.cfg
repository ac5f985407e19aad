SPECIFICATION FairSpec
CONSTANTS
  p1 = p1
  p2 = p2
  c1 = c1
  c2 = c2
  Producers <- MCProducers
  Consumers <- MCConsumers
  Children <- MCChildren
  Count <- MCCount
  Base <- MCBase
  N = 4
  SizeofInt = 2
  Words = 8
INVARIANTS
  TypeOK
  MutualExclusion
  SemaphoresMatchPositions
  SlotsAreSafe
  AllConsumed
PROPERTIES
  ImplementsBoundedBuffer
  Termination
CHECK_DEADLOCK FALSE
