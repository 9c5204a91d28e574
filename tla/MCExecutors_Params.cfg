CONSTANTS
  Entry <- MCEntry
  Storage = {0, 1, 2, 3}
  StorageOf <- MCStorageOf
  LinkedParam = {3}
  Inputs <- MCInputs
  Outputs = {4}
  MaxHandles = 2
  Arguments <- MCArguments
  Leftovers = {0, 2}
SPECIFICATION ExecutorsSpec
INVARIANT DataKept
CHECK_DEADLOCK FALSE
