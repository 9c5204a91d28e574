CONSTANTS
  host = host
  device = device
  Endpoint <- MCEndpoint
  Starters <- MCBoth
  Requesters <- MCHost
  Loggers <- MCDevice
  AppClears <- MCAppClears
  Version <- MCVersion
  InitialNonce <- MCTyingResets
  LosesInput = FALSE
  MaxStarts = 3
  MaxTerminates = 1
  MaxRequests = 1
  MaxLogs = 0
SPECIFICATION FairSpec
INVARIANTS NoHalfOpenSession
PROPERTIES NotLeftWaiting
CHECK_DEADLOCK FALSE
