SPECIFICATION Spec
CONSTANTS
  w1 = w1
  w2 = w2
  r1 = r1
  r2 = r2
  Writers <- MCWriters
  Readers <- MCReaders
  Children <- MCChildren
  IntRange = 2
INVARIANTS
  WaitingWriterIsSeen
CHECK_DEADLOCK FALSE
