SPECIFICATION Spec
CONSTANTS
  Senders = {"a"}
  QueueRoom = 5
  Mailboxes = 3
  FifoDepth = 3
  MaxTx = 4
  MaxRx = 0
  MaxErrors = 0
INVARIANT TxWaitsForMailbox
CHECK_DEADLOCK FALSE
