SPECIFICATION FairSpec
CONSTANTS
  Senders = {"low", "high"}
  SelfTask = "self"
  NoTask = "none"
  Priority <- MCPriority
  SelfPriority = 10
  ServiceIds = {0, 1}
  SourceOf <- MCSourceOf
  Sizes = {26, 58, 253}
  StreamBytes = 256
  QueueBytes = 64
  MaxSends = 3
INVARIANTS
  TypeOK
  CountExact
  Backlog
  HandledInOrder
PROPERTIES
  LockGranted
  DrainsToBacklog
CHECK_DEADLOCK FALSE
