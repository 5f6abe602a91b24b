SPECIFICATION Spec
CONSTANTS
  Pushers = {"a"}
  Poppers = {"tp"}
  Guarded <- Neither
  BufferLength = 5
  FrameCells = 2
  MaxMessages = 5
INVARIANT FramesCounted
