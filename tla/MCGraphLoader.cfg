\* Every order of the keys of each graph.  The load ends.
SPECIFICATION LoaderSpec
CONSTANTS
  Documents <- MCDocuments
  Bits <- MCBits
  Functions <- MCFunctions
  MaxNdim = 3
  MaxArgs = 4
  WordSize = 128
  Garbage = Garbage
INVARIANT ViewsFit
INVARIANT OperatorsAsWritten
PROPERTY LoadsAsWritten
CHECK_DEADLOCK FALSE
