SPECIFICATION FairSpec
CONSTANTS
  NULL = NULL
  c0 = c0
  i0 = i0
  s1 = s1
  s2 = s2
  w = w
  Cpus = {c0}
  Locks = {"sched", "console", "console_read"}
  Bsp = c0
  Procs = {s1, w}
  Shells = {s1}
  idle_proc <- MCIdle
  CON_FIFO_SIZE = 3
  MaxBytes = 2
PROPERTIES ReadyRuns TypedIsRead
