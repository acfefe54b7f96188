SPECIFICATION Spec
CONSTANTS
  NULL = NULL
  PG_SIZE = 7
  META = 1
  MinUser = 2
  Pages = {0, 1, 2}
  MaxUsed = 3
INVARIANTS Tiled CoalescedAndSorted SmallNeverFails
CHECK_DEADLOCK FALSE
