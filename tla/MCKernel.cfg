SPECIFICATION Spec
CONSTANTS
  NULL = NULL
  c0 = c0
  i0 = i0
  s1 = s1
  s2 = s2
  w = w
  Cpus = {c0}
  Locks = {"sched", "console", "console_read"}
  Bsp = c0
  Procs = {s1, s2, w}
  Shells = {s1, s2}
  idle_proc <- MCIdle
  CON_FIFO_SIZE = 2
  MaxBytes = 2
INVARIANTS TypeOK OneHome NoLostWakeup NoLostEdge LockDiscipline InterruptsRestored
  NoKernelPanic NothingInService StackBounded InOrder
PROPERTY SharedGuarded
