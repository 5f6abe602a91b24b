SPECIFICATION FairSpec
CONSTANTS
  Senders = {"a", "b"}
  QueueRoom = 2
  Mailboxes = 1
  FifoDepth = 1
  MaxTx = 2
  MaxRx = 3
  MaxErrors = 1
INVARIANTS
  TypeOK
  RxWakeupPending
  TxWakeupPending
  TxAccounted
  RxLag
PROPERTIES
  FifoDrained
  TxDrained
CHECK_DEADLOCK FALSE
