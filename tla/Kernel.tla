------------------------------- MODULE Kernel -------------------------------
(***************************************************************************)
(* The running kernel: the scheduler of module Sched composed with the     *)
(* trap handler (kernel/src/arch/x86/interrupt.c, asm/trap.s), the system  *)
(* calls (kernel/src/syscall.c, lib/libsys), the console input path        *)
(* (kernel/src/arch/x86/console.c, device/uart) and the processes that use *)
(* them: shells that read and print characters as kshell.c does, and       *)
(* workers that compute and make system calls.                             *)
(***************************************************************************)
EXTENDS Sched

CONSTANTS CON_FIFO_SIZE,  \* the ring buffer of the console
          MaxBytes        \* bound: characters typed in a behaviour

ASSUME KernelAssumption ==
  /\ CON_FIFO_SIZE \in Nat \ {0}
  /\ MaxBytes \in Nat
  /\ NULL # "uart buffer full"

VARIABLES irr,   \* interrupts the local APIC of CPU c has latched
          isr,   \* whether an interrupt of CPU c awaits its EOI
          rx,    \* characters in the receiver of the UART
          fifo,  \* console_fifo
          got,   \* every character console_getc() returned, in order
          sent   \* how many characters have been typed: the n-th one is n

devVars == <<irr, isr, rx, fifo, got, sent>>
vars == <<cpuVars, schedVars, devVars>>

Workers == Procs \ Shells

Init ==
  /\ CpuInit
  /\ SchedInit
  /\ irr = [c \in Cpus |-> {}]
  /\ isr = [c \in Cpus |-> FALSE]
  /\ rx = <<>>
  /\ fifo = <<>>
  /\ got = <<>>
  /\ sent = 0

-----------------------------------------------------------------------------
(* Devices.                                                                *)

\* The periodic timer of the local APIC fires.
TimerTick(c) ==
  /\ "timer" \notin irr[c]
  /\ irr' = [irr EXCEPT ![c] = @ \cup {"timer"}]
  /\ UNCHANGED <<cpuVars, schedVars, isr, rx, fifo, got, sent>>

\* A character arrives.  The line of the UART is high while its receiver
\* holds one, and the I/O APIC forwards rising edges only, to the boot CPU.
UartReceive ==
  /\ sent < MaxBytes
  /\ sent' = sent + 1
  /\ rx' = Append(rx, sent + 1)
  /\ irr' = [irr EXCEPT ![Bsp] = IF rx = <<>> THEN @ \cup {"com1"} ELSE @]
  /\ UNCHANGED <<cpuVars, schedVars, isr, fifo, got>>

-----------------------------------------------------------------------------
(* Traps.                                                                  *)

\* Entering the handler saves the place and IF on the stack of the thread;
\* an interrupt gate clears IF, the trap gate of int 0x80 does not.
TrapTo(c, handler, if) ==
  /\ panic[c] = NULL
  /\ spin[c] = NULL
  /\ ret' = [ret EXCEPT ![on[c]] = <<[pc |-> pc[on[c]], ints |-> ints[c]]>> \o @]
  /\ Goto(c, handler)
  /\ ints' = [ints EXCEPT ![c] = if]
  /\ UNCHANGED <<on, cproc, intena, st, chan, readyq, waitq, newp,
                 layer, int_enabled, owner, spin, panic>>

\* The local APIC delivers a latched interrupt once the last had its EOI.
Deliver(c, irq) ==
  /\ ints[c]
  /\ irq \in irr[c]
  /\ ~isr[c]
  /\ irr' = [irr EXCEPT ![c] = @ \ {irq}]
  /\ isr' = [isr EXCEPT ![c] = TRUE]
  /\ TrapTo(c, irq, FALSE)
  /\ UNCHANGED <<rx, fifo, got, sent>>

\* A spurious interrupt is delivered without being in service.
Spurious(c) ==
  /\ ints[c]
  /\ TrapTo(c, "spurious", FALSE)
  /\ UNCHANGED devVars

\* lapic_eoi()
Eoi(c) == isr' = [isr EXCEPT ![c] = FALSE]

\* handle_interrupt, IDT_ENTRY_IRQ_SPURIOUS
SpuriousHandler(c) ==
  /\ At(c, "spurious")
  /\ Eoi(c)
  /\ Goto(c, "tail")
  /\ UNCHANGED <<on, cproc, ret, intena, st, chan, readyq, waitq, newp, cpuVars,
                 irr, rx, fifo, got, sent>>

\* The state of the current process after "if RUNNING then RUNNABLE".
Preempted(c) ==
  LET p == cproc[c]
  IN  IF p # NULL /\ st[p] = "RUNNING" THEN [st EXCEPT ![p] = "RUNNABLE"] ELSE st

\* Mutant: the EOI is forgotten.
TimerHandler_NoEoi(c) ==
  /\ At(c, "timer")
  /\ st' = Preempted(c)
  /\ Goto(c, "tail")
  /\ UNCHANGED <<on, cproc, ret, intena, chan, readyq, waitq, newp, cpuVars, devVars>>

\* handle_interrupt, IDT_ENTRY_IRQ_0
TimerHandler(c) ==
  /\ At(c, "timer")
  /\ st' = Preempted(c)
  /\ Eoi(c)
  /\ Goto(c, "tail")
  /\ UNCHANGED <<on, cproc, ret, intena, chan, readyq, waitq, newp, cpuVars,
                 irr, rx, fifo, got, sent>>

\* The end of handle_interrupt: a process that is not RUNNING yields.
HandlerTail(c) ==
  /\ At(c, "tail")
  /\ Goto(c, IF cproc[c] # NULL /\ st[cproc[c]] # "RUNNING" THEN "tail_yield" ELSE "iret")
  /\ UNCHANGED <<on, cproc, ret, intena, st, chan, readyq, waitq, newp, cpuVars, devVars>>

\* return_from_isr: back to the interrupted place with the interrupted IF.
Iret(c) ==
  /\ At(c, "iret")
  /\ Goto(c, Head(ret[on[c]]).pc)
  /\ ints' = [ints EXCEPT ![c] = Head(ret[on[c]]).ints]
  /\ ret' = [ret EXCEPT ![on[c]] = Tail(@)]
  /\ UNCHANGED <<on, cproc, intena, st, chan, readyq, waitq, newp,
                 layer, int_enabled, owner, spin, panic, devVars>>

-----------------------------------------------------------------------------
(* System calls: int 0x80 goes through a trap gate, so IF stays as it is.  *)

SyscallEntries == {"sys_yield", "sys_con_read", "tail"}

\* syscall() by a worker; a number handle_syscall does not know does nothing.
Syscall(c) ==
  /\ At(c, "main")
  /\ on[c] \in Workers
  /\ \E entry \in SyscallEntries : TrapTo(c, entry, ints[c])
  /\ UNCHANGED devVars

SysConRead(c) ==
  /\ At(c, "sys_con_read")
  /\ st' = Preempted(c)
  /\ Goto(c, "tail")
  /\ UNCHANGED <<on, cproc, ret, intena, chan, readyq, waitq, newp, cpuVars, devVars>>

-----------------------------------------------------------------------------
(* The console.                                                            *)

\* Where console.c calls acquire().
ConsoleSites ==
  { <<"com1", "console_read", "com1_drain">>,
    <<"getc", "console_read", "getc_read">>,
    <<"echo", "console", "echo_out">> }

\* Mutant: one character per interrupt.
DrainUart_OneByte(c) ==
  /\ At(c, "com1_drain")
  /\ Goto(c, "wakeup")
  /\ IF rx = <<>> \/ Len(fifo) = CON_FIFO_SIZE - 1
     THEN UNCHANGED <<rx, fifo>>
     ELSE rx' = Tail(rx) /\ fifo' = Append(fifo, Head(rx))
  /\ UNCHANGED <<on, cproc, ret, intena, st, chan, readyq, waitq, newp, cpuVars,
                 irr, isr, got, sent>>

\* Mutant: what does not fit is dropped.
DrainUart_DropsWhenFull(c) ==
  /\ At(c, "com1_drain")
  /\ IF rx = <<>>
     THEN Goto(c, "wakeup") /\ UNCHANGED <<rx, fifo>>
     ELSE /\ rx' = Tail(rx)
          /\ fifo' = IF Len(fifo) = CON_FIFO_SIZE - 1 THEN fifo ELSE Append(fifo, Head(rx))
          /\ UNCHANGED pc
  /\ UNCHANGED <<on, cproc, ret, intena, st, chan, readyq, waitq, newp, cpuVars,
                 irr, isr, got, sent>>

\* Mutant: the sleepers are woken without sched.lock, or not at all.
DrainUart_Then(c, next) ==
  /\ At(c, "com1_drain")
  /\ IF rx = <<>>
     THEN Goto(c, next) /\ UNCHANGED <<rx, fifo>>
     ELSE /\ Len(fifo) < CON_FIFO_SIZE - 1
          /\ rx' = Tail(rx)
          /\ fifo' = Append(fifo, Head(rx))
          /\ UNCHANGED pc
  /\ UNCHANGED <<on, cproc, ret, intena, st, chan, readyq, waitq, newp, cpuVars,
                 irr, isr, got, sent>>
DrainUart_WakesUnlocked(c) == DrainUart_Then(c, "wakeup_scan")
DrainUart_NoWakeup(c) == DrainUart_Then(c, "com1_release")

\* console_isr_handler: move what the receiver holds into the ring buffer,
\* then go on to sched_wakeup().
DrainUart(c) ==
  /\ At(c, "com1_drain")
  /\ IF rx = <<>>
     THEN Goto(c, "wakeup") /\ UNCHANGED <<cpuVars, rx, fifo>>
     ELSE /\ rx' = Tail(rx)
          /\ IF Len(fifo) = CON_FIFO_SIZE - 1
             THEN Panic(c, "uart buffer full") /\ UNCHANGED fifo
             ELSE fifo' = Append(fifo, Head(rx)) /\ UNCHANGED cpuVars
          /\ UNCHANGED pc
  /\ UNCHANGED <<on, cproc, ret, intena, st, chan, readyq, waitq, newp, irr, isr, got, sent>>

\* The end of console_isr_handler and the EOI after it.
Com1Release(c) ==
  /\ At(c, "com1_release")
  /\ Release(c, "console_read")
  /\ Eoi(c)
  /\ Goto(c, "tail")
  /\ UNCHANGED <<on, cproc, ret, intena, st, chan, readyq, waitq, newp, irr, rx, fifo, got, sent>>

\* The shell asks for the next character.
ShellLoop(c) ==
  /\ At(c, "main")
  /\ on[c] \in Shells
  /\ Goto(c, "getc")
  /\ UNCHANGED <<on, cproc, ret, intena, st, chan, readyq, waitq, newp, cpuVars, devVars>>

\* console_getc under its lock: an empty ring buffer puts the caller to
\* sleep, else the character is returned to the shell, which may echo it.
GetcRead(c) ==
  /\ At(c, "getc_read")
  /\ IF fifo = <<>>
     THEN /\ Goto(c, "sleep")
          /\ IF cproc[c] = NULL THEN Panic(c, "sched_sleep") ELSE UNCHANGED cpuVars
          /\ UNCHANGED <<fifo, got>>
     ELSE /\ fifo' = Tail(fifo)
          /\ got' = Append(got, Head(fifo))
          /\ Release(c, "console_read")
          /\ \E next \in {"main", "echo"} : Goto(c, next)
  /\ UNCHANGED <<on, cproc, ret, intena, st, chan, readyq, waitq, newp, irr, isr, rx, sent>>

\* putchar() under console_lock.
EchoOut(c) ==
  /\ At(c, "echo_out")
  /\ Release(c, "console")
  /\ Goto(c, "main")
  /\ UNCHANGED <<on, cproc, ret, intena, st, chan, readyq, waitq, newp, devVars>>

-----------------------------------------------------------------------------

\* What the scheduler does on CPU c.
SchedStep(c) ==
  /\ \/ \E site \in SchedSites \cup ConsoleSites : Enter(c, site) \/ Take(c, site)
     \/ CreateProc(c) \/ SchedAdd(c) \/ BootDone(c) \/ SchedStart(c)
     \/ Pick(c) \/ Back(c) \/ ProcKentry(c)
     \/ Yield(c, "sys_switch", "sys_back", "sys_release", "tail")
     \/ Yield(c, "tail_switch", "tail_back", "tail_release", "iret")
     \/ SleepUnlock(c) \/ SleepSwitch(c) \/ SleepBack(c) \/ SleepRelease(c)
     \/ Wakeup(c, "console_fifo", "com1_release")
  /\ UNCHANGED devVars

\* One step of the code CPU c executes.
Step(c) ==
  \/ SchedStep(c)
  \/ SpuriousHandler(c) \/ TimerHandler(c) \/ HandlerTail(c) \/ Iret(c)
  \/ Syscall(c) \/ SysConRead(c)
  \/ DrainUart(c) \/ Com1Release(c) \/ ShellLoop(c) \/ GetcRead(c) \/ EchoOut(c)

\* panic() ends in a hlt loop.
Halted ==
  /\ \A c \in Cpus : panic[c] # NULL
  /\ UNCHANGED vars

Next ==
  \/ \E c \in Cpus :
       \/ Step(c)
       \/ TimerTick(c)
       \/ Spurious(c)
       \/ \E irq \in {"timer", "com1"} : Deliver(c, irq)
  \/ UartReceive
  \/ Halted

Spec == Init /\ [][Next]_vars

(***************************************************************************)
(* Fairness.  A CPU with interrupts off goes on executing (weak fairness). *)
(* A local APIC keeps an interrupt latched until it is delivered, so one   *)
(* that can be delivered again and again is (strong fairness), and the     *)
(* timer keeps ticking.  Its period is far longer than a handler, so code  *)
(* that runs with interrupts on makes progress between them: a step that   *)
(* is possible again and again is taken, for every thread and depth of     *)
(* traps.  Nothing is assumed of a worker between two system calls (it may *)
(* compute for ever) nor of the idle process.                              *)
(***************************************************************************)
MaskedStep(c) == ~ints[c] /\ Step(c)

OpenStep(t, depth) ==
  \E c \in Cpus : /\ on[c] = t
                  /\ Len(ret[t]) = depth
                  /\ ints[c]
                  /\ Step(c)

Fairness ==
  /\ \A c \in Cpus : /\ WF_vars(MaskedStep(c))
                     /\ WF_vars(TimerTick(c))
                     /\ SF_vars(Deliver(c, "timer"))
                     /\ SF_vars(Deliver(c, "com1"))
  /\ \A t \in Cpus \cup Shells : SF_vars(OpenStep(t, 0))
  /\ \A t \in Procs : SF_vars(OpenStep(t, 1))

FairSpec == Spec /\ Fairness

-----------------------------------------------------------------------------
(* Properties.                                                             *)

Labels ==
  {"none", "mpmain", "sched_add", "add_push", "sched_start", "loop", "pick", "back", "kentry",
   "spurious", "timer", "com1", "com1_drain", "wakeup", "wakeup_scan", "com1_release",
   "tail", "tail_yield", "tail_switch", "tail_back", "tail_release", "iret",
   "sys_yield", "sys_switch", "sys_back", "sys_release", "sys_con_read",
   "main", "getc", "getc_read", "echo", "echo_out", "sleep", "sleep_unlock",
   "sleep_switch", "sleep_back", "sleep_relock", "sleep_release"}

States == {"UNUSED", "RUNNABLE", "RUNNING", "SLEEPING"}

Messages == {"acquire", "release", "no curproc?",
             "sched_swtich_out lock", "switch_out lock count",
             "switching out running", "sched_sleep", "uart buffer full"}

\* Every variable has its type; in particular the queues hold processes of
\* the table and never the idle process, and no nesting count underflows.
TypeOK ==
  /\ ints \in [Cpus -> BOOLEAN]
  /\ layer \in [Cpus -> Nat]
  /\ int_enabled \in [Cpus -> BOOLEAN]
  /\ owner \in [Locks -> Cpus \cup {NULL}]
  /\ spin \in [Cpus -> Locks \cup {NULL}]
  /\ panic \in [Cpus -> Messages \cup {NULL}]
  /\ on \in [Cpus -> Threads]
  /\ cproc \in [Cpus -> Procs \cup Idles \cup {NULL}]
  /\ pc \in [Threads -> Labels]
  /\ ret \in [Threads -> Seq([pc : Labels, ints : BOOLEAN])]
  /\ intena \in [Threads -> BOOLEAN]
  /\ st \in [Procs \cup Idles -> States]
  /\ chan \in [Procs \cup Idles -> {NULL, "console_fifo"}]
  /\ readyq \in Seq(Procs)
  /\ waitq \in Seq(Procs)
  /\ newp \in Procs \cup {NULL}
  /\ irr \in [Cpus -> SUBSET {"timer", "com1"}]
  /\ isr \in [Cpus -> BOOLEAN]
  /\ rx \in Seq(Nat)
  /\ fifo \in Seq(Nat)
  /\ got \in Seq(Nat)
  /\ sent \in Nat

\* Where process p is: its places in the two queues, the CPUs it runs on,
\* and the hands of mpmain.
Homes(p) ==
  ({"ready"} \X {i \in DOMAIN readyq : readyq[i] = p})
  \cup ({"waiting"} \X {i \in DOMAIN waitq : waitq[i] = p})
  \cup ({"cpu"} \X {c \in Cpus : cproc[c] = p})
  \cup (IF newp = p THEN {<<"boot", 0>>} ELSE {})

\* A process that exists is in exactly one place: once in the ready queue,
\* once in the waiting queue, or current on one CPU (sched.c never loses a
\* process and never lets two queues or CPUs have it).
OneHome ==
  \A p \in Procs :
    IF st[p] = "UNUSED" THEN Homes(p) = {} ELSE Cardinality(Homes(p)) = 1

\* No lost wakeup: a process waits on the console while the ring buffer
\* holds a character only as long as the interrupt handler that stored it is
\* still on its way to sched_wakeup (console_isr_handler, console_getc).
NoLostWakeup ==
  waitq # <<>> /\ fifo # <<>> =>
    \E c \in Cpus : pc[on[c]] \in {"com1_drain", "wakeup", "wakeup_scan"}

\* No lost edge: while the receiver of the UART holds characters, the
\* interrupt is latched or its handler has not finished draining.
NoLostEdge ==
  rx # <<>> => "com1" \in irr[Bsp] \/ pc[on[Bsp]] \in {"com1", "com1_drain"}

\* A CPU that holds or awaits a lock runs with interrupts off, and
\* int_disable_layer counts exactly those locks (push/pop_int_disable).
LockDiscipline ==
  \A c \in Cpus :
    LET held == {l \in Locks : owner[l] = c}
    IN  /\ held # {} \/ spin[c] # NULL => ~ints[c]
        /\ layer[c] = Cardinality(held) + (IF spin[c] = NULL THEN 0 ELSE 1)

\* A process outside the kernel's critical sections runs with interrupts on:
\* the intena a process saved when it switched out is given back to it, not
\* what the process before it left in int_enabled (sched_switch_out).
InterruptsRestored ==
  \A c \in Cpus :
    /\ pc[on[c]] \in {"main", "getc", "echo"}
    /\ spin[c] = NULL
    => ints[c] /\ layer[c] = 0

\* cur_cpu() is called only with interrupts off (its own assertion, "cur_cpu
\* with IF"): by sched_start, by the scheduler loop, by the timer handler, on
\* both sides of the switch in sched_switch_out, and by acquire and release.
CurCpuMasked ==
  \A c \in Cpus :
    pc[on[c]] \in {"sched_start", "pick", "back", "kentry", "timer", "sys_switch", "sys_back",
                   "sys_release", "tail_switch", "tail_back", "tail_release", "sleep_unlock",
                   "sleep_switch", "sleep_back", "sleep_release", "wakeup_scan", "add_push",
                   "com1_drain", "com1_release", "getc_read", "echo_out"} \/ spin[c] # NULL
      => ~ints[c]

\* No assertion of cpu.c, spinlock.c, sched.c or proc_kentry fails; of the
\* panics in the model only the full console buffer is reached.  (Outside it are
\* kmalloc's, without memory, behind dequeue_push_back, and handle_interrupt's
\* for a vector without a case, such as the LAPIC's error interrupt.)
NoKernelPanic ==
  /\ \A c \in Cpus : panic[c] \in {NULL, "uart buffer full"}
  /\ CurCpuMasked

\* Interrupts are on only when no interrupt awaits its EOI: no process is
\* switched in with the local APIC blocked by the handler of another.
NothingInService ==
  \A c \in Cpus : ints[c] => ~isr[c]

\* No character is lost, duplicated or reordered between the UART and the
\* caller of console_getc, until the buffer overflows and the CPU panics.
InOrder ==
  (\A c \in Cpus : panic[c] = NULL) => got \o fifo \o rx = [n \in 1..sent |-> n]

\* The queues change only while sched.lock is held.
QueuesGuarded ==
  [][<<readyq, waitq>>' # <<readyq, waitq>> => owner["sched"] # NULL]_vars

FifoHeld ==
  \E c \in Cpus : owner["console_read"] = c /\ pc[on[c]] \in {"com1_drain", "getc_read"}

\* The ring buffer changes only under console_read_lock, by its holder: the
\* single-producer single-consumer FIFO never sees two writers or two readers.
FifoGuarded ==
  [][fifo' # fifo => FifoHeld]_vars

\* What two CPUs, or a process and an interrupt handler, share is changed
\* only under the lock that goes with it.
SharedGuarded == QueuesGuarded /\ FifoGuarded

\* A kernel stack is one page (proc_kern_init) and nothing guards its end.
\* Traps nest two deep on it at most, an interrupt in a system call: no
\* switch leaves interrupts on inside an interrupt handler.
StackBounded ==
  \A t \in Threads : Len(ret[t]) <= 2

Stopped == \E c \in Cpus : panic[c] # NULL

\* Round robin: a process in the ready queue gets the CPU, whatever the
\* others do, because the timer preempts them and Back queues them behind it.
ReadyRuns ==
  \A p \in Procs : (\E i \in DOMAIN readyq : readyq[i] = p) ~> ((\E c \in Cpus : on[c] = p) \/ Stopped)

\* Every character typed is returned by console_getc in the end.
TypedIsRead ==
  \A n \in 1..MaxBytes : sent >= n ~> (Len(got) >= n \/ Stopped)
=============================================================================
