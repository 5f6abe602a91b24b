SPECIFICATION Spec
CONSTANTS
  Pushers = {"a", "b"}
  Poppers = {"tp"}
  Guarded <- Both
  BufferLength = 5
  FrameCells = 2
  MaxMessages = 5
INVARIANTS
  TypeOK
  FramesCounted
  PopsInOrder
