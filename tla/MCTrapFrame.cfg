SPECIFICATION Spec
CONSTANTS
  Threads = {p, idle}
  Callers = {p}
  Scheduler = boot
  Traps = {3, 13, 32, 51}
  Pads = {0, 1}
INVARIANT FrameIsExact
 
CHECK_DEADLOCK FALSE
