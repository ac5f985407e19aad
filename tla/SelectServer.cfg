SPECIFICATION FairSpec
CONSTANTS
  Clients = {c1, c2, c3}
  none = none
  MAX_CLIENTS_COUNT = 2
  BUF_SIZE = 2
  MaxSent = 2
INVARIANTS
  TypeOK
  RecvReady
PROPERTIES
  MessagesRead
CHECK_DEADLOCK FALSE
