SPECIFICATION KprintfSpec
CONSTANTS
  NULL = NULL
  MemSize = 5
  Base = 3
  Word = 2
  Wrap = 11
  Delims = {2}
  CharBits = 3
  ShortBits = 4
  IntBits = 5
  LongBits = 8
  NtoaSize = 5
  BufSize = 4
  Values = {0, 10, 16, 31, 128, 255}
  Widths <- MCWidths
  Precisions <- MCPrecisions
INVARIANTS WritesExact ResultsExact PrintsExact
CHECK_DEADLOCK FALSE
