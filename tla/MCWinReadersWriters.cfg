SPECIFICATION FairSpec
CONSTANTS
  Writers = {w1, w2}
  Readers = {r1, r2}
  ITERATIONS = 1
  nobody = nobody
INVARIANTS
  TypeOK
  CountersExact
  ReaderGateOpen
  WriterWakeupPending
PROPERTIES
  WritersFinish
CHECK_DEADLOCK FALSE
