SPECIFICATION Spec
CONSTANTS
  NULL = NULL
  Byte = {b1, b2}
  buffer_size = 3
INVARIANT NoSlotRace
PROPERTY Implements
