SPECIFICATION DaemonFairSpec
CONSTANTS
  Copies = {d1, d2, d3}
  noPid = noPid
INVARIANTS
  DaemonTypeOK
  LockGuardsFile
  NotAllRefused
PROPERTIES
  SIGTERMObeyed
CHECK_DEADLOCK FALSE
