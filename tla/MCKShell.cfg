SPECIFICATION ShellSpec
CONSTANTS
  NUM_COL = 3
  NUM_ROW = 4
  CMD_MAX_LEN = 6
  CMD_MAX_PARTS = 3
  Letters = {"x", "y"}
  Ignored = {"nul"}
  Echo <- MCEcho
INVARIANTS ScreenShowsLine SplitIsWords InBounds
CHECK_DEADLOCK FALSE
