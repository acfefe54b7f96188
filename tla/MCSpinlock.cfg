SPECIFICATION Spec
CONSTANTS
  NULL = NULL
  Cpus = {c1, c2}
  Locks = {a, b}
INVARIANTS MutualExclusion HoldingIsExact FlagRestored
PROPERTY Implements
CHECK_DEADLOCK FALSE
