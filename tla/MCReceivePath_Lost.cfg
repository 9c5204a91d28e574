CONSTANTS
  Capacity = 24
  MaxChunk = 1
  MaxBody = 2
  MaxPackets = 3
  MaxLost = 1
SPECIFICATION Spec
INVARIANTS CursorAtPayload
CHECK_DEADLOCK FALSE
