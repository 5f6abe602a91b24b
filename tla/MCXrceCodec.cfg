SPECIFICATION Spec
CONSTANTS
  UXR_STRING_SIZE_MAX = 3
  UXR_SAMPLE_DATA_SIZE_MAX = 3
  UXR_BINARY_SEQUENCE_MAX = 60
  UXR_SEQUENCE_MAX = 1
  UXR_PROPERTY_SEQUENCE_MAX = 0
  Lengths = {0, 3, 4}
  Blocks <- MCBlocks
  UserTopic <- MCUserTopic
  DataLength = 5
INVARIANTS
  TypeOK
  ValuesAligned
  FitsReservation
  
  NothingBeyondCapacity
  
CHECK_DEADLOCK FALSE
