CONSTANTS
  Names <- MCNames
  Values <- MCValues
  None = "none"
  Functions = {"fun", "builtin"}
  Builtins = {"n"}
  BuiltinOf <- MCBuiltinOf
  Undef = "undef"
  Error = "error"
  Sites <- MCSites
  OpOf <- MCOpOf
  NameOf <- MCNameOf
  InScript = {"getS", "getM"}
  MaxSlots = 2
VIEW View
SPECIFICATION MCSpec
CONSTRAINT OneDisturbance
INVARIANTS FunctionCachesExact FaithfulUntilDisturbed
PROPERTY CachesInvisible
CHECK_DEADLOCK FALSE
