CONSTANTS
  MaxByte = 4
  CrcInit <- MCCrcInit
  UpdateCrc <- MCUpdateCrc
  BufferSize = 4
  Payloads <- MCLongPayloads
  Text = {0}
  MaxChunk = 3
  MaxPackets = 2
  MaxText = 0
  MaxSenderResets = 1
  MaxReceiverResets = 1
  WriteErrors = FALSE
SPECIFICATION Spec
INVARIANTS TypeOK BufferHasRoom NoFinishedPacketLost NoInvalidEscape
PROPERTIES KeepsLink
CHECK_DEADLOCK FALSE

