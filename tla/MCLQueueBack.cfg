SPECIFICATION Spec
CONSTANTS
  BufferLength = 20
  Short = 2
  Messages <- MCMessages
  BufSizes <- MCBufSizes
INVARIANT BackReadsLast
