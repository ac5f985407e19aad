SPECIFICATION FairSpec
CONSTANTS
  w1 = w1
  w2 = w2
  r1 = r1
  r2 = r2
  Writers <- MCWriters
  Readers <- MCReaders
  Children <- MCChildren
  IntRange = 2
INVARIANTS
  TypeOK
  WriterAlone
  ReadersCounted
  BinaryWriter
  NoLostWrite
PROPERTIES
  SomeoneEnters
CHECK_DEADLOCK FALSE
