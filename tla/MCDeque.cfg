SPECIFICATION Spec
CONSTANTS
  NULL = NULL
  Junk = Junk
  Items = {a, b}
  Nodes = {n1, n2, n3, n4}
  Queues = {ready, waiting}
INVARIANT WellLinked
PROPERTY Implements
CHECK_DEADLOCK FALSE
