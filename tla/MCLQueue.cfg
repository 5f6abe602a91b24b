SPECIFICATION Spec
CONSTANTS
  BufferLength = 20
  Short = 2
  Messages <- MCMessages
  BufSizes <- MCBufSizes
INVARIANTS
  TypeOK
  FramesInOrder
  FramesIntact
  ReadersAgree
PROPERTY FifoSpec
