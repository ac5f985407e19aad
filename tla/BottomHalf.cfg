SPECIFICATION BHFairSpec
CONSTANT Codes = {30, 158}
INVARIANTS
  BHTypeOK
  UnloadedIsQuiet
PROPERTIES
  LastCodeShown
CHECK_DEADLOCK FALSE
