CONSTANTS
  MaxByte = 4
  CrcInit <- MCCrcInit
  UpdateCrc <- MCUpdateCrc
  BufferSize = 4
  Payloads <- MCPayloads
  Text = {0}
  MaxChunk = 1
  MaxPackets = 2
  MaxText = 2
  MaxSenderResets = 1
  MaxReceiverResets = 0
  WriteErrors = TRUE
SPECIFICATION FairSpec
INVARIANTS DeliveredInOrder
PROPERTIES StreamDrained
CHECK_DEADLOCK FALSE
