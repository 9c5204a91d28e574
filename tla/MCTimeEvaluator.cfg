CONSTANTS
  MaxModules = 2
  Top = 4
  Module <- MCModule
  SystemLib = "lib"
  Name <- MCName
  FunctionsOf <- MCFunctionsOf
  CountOf <- MCCountOf
  Impl = {"i1", "i2"}
  Builtins <- MCBuiltins
  Builtin = "i1"
  NameLength <- MCNameLength
  NamesSpace = 7
  MaxFunctions = 3
  None = None
  Damaged = Damaged
  NoBlock = NoBlock
  Settings <- MCSettings
  Pace = {1}
  Parts = 2
  ClockTop = 8
  StartTime = {1, 7}
  MaxHandles = 1
  Block = {b1, b2, b3}
  MaxEvaluators = 2
  MaxRuns = 2
SPECIFICATION Spec
INVARIANTS HandleReachesFunction EvaluatorAsMade MeasuredIsElapsed NothingElseLost
PROPERTY EvaluationEnds
CHECK_DEADLOCK FALSE
