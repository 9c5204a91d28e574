CONSTANTS
  host = host
  device = device
  Endpoint <- MCEndpoint
  Starters <- MCHost
  Requesters <- MCHost
  Loggers <- MCDevice
  AppClears <- MCAppClears
  Version <- MCVersion
  InitialNonce <- MCResets
  LosesInput = TRUE
  MaxStarts = 3
  MaxTerminates = 1
  MaxRequests = 2
  MaxLogs = 1
SPECIFICATION Spec
INVARIANTS SessionIdValid NoHalfOpenSession NoStaleDelivery ApplicationInformed
PROPERTIES NoncesFresh
CHECK_DEADLOCK FALSE
