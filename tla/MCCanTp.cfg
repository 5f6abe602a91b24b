SPECIFICATION Spec
CONSTANTS
  QueueRoom = 4
  MaxTx = 6
  MaxRx = 5
INVARIANTS
  Accounted
CHECK_DEADLOCK FALSE
