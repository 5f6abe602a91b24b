SPECIFICATION FairSpec
CONSTANTS
  SEQ_NUM_MIDSIZE = 4
  MessageIds = {"short", "long"}
  Length <- MCLength
  Garbage = "garbage"
  History = 2
  Capacity = 12
  FragmentHeaders = TRUE
  ClockRuns = TRUE
  MaxFaults = 2
  MaxAcks = 1
INVARIANTS
  TypeOK
  Window
  Retransmittable
  AckedIsKept
PROPERTIES
  ChannelSpec
  Progress
