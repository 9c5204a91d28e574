CONSTANTS
  Capacity = 14
  MaxChunk = 2
  MaxBody = 2
  MaxPackets = 4
  MaxLost = 1
SPECIFICATION Spec
INVARIANTS TypeOK DamageEndsWithClear
CHECK_DEADLOCK FALSE
