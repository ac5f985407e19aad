SPECIFICATION DaemonSpec
CONSTANTS
  Copies = {d1, d2}
  noPid = noPid
INVARIANTS
  OneCopy
CHECK_DEADLOCK FALSE
