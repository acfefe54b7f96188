------------------------------- MODULE Sched -------------------------------
(***************************************************************************)
(* The scheduler of kernel/src/proc/sched.c with the process states of     *)
(* kernel/src/proc/proc.c: the ready and the waiting queue, the scheduler  *)
(* loop of each CPU, switching out, yield, sleep and wakeup.               *)
(*                                                                         *)
(* A thread is a process, the idle process of a CPU, or the scheduler      *)
(* context of a CPU (the boot stack, named by the CPU itself).  pc[t] is   *)
(* where thread t stands in the kernel, ret[t] the stack of places that    *)
(* traps interrupted.  Only the thread on[c] moves on CPU c.               *)
(***************************************************************************)
EXTENDS Cpu, FiniteSets, Sequences

CONSTANTS Bsp,        \* the boot CPU
          Procs,      \* the processes of the process table
          Shells,     \* those that run the shell
          idle_proc   \* idle_proc[c]: the idle process of CPU c

ASSUME SchedAssumption ==
  /\ Bsp \in Cpus
  /\ Shells \subseteq Procs
  /\ DOMAIN idle_proc = Cpus
  /\ \A c, d \in Cpus : idle_proc[c] = idle_proc[d] => c = d
  /\ \A c \in Cpus : /\ c \notin Procs
                     /\ idle_proc[c] \notin Procs \cup Cpus
  /\ NULL \notin Procs \cup Cpus \cup {idle_proc[c] : c \in Cpus}
  /\ {"sched", "console", "console_read"} \subseteq Locks
  /\ NULL \notin Locks

Idles == {idle_proc[c] : c \in Cpus}
Threads == Procs \cup Idles \cup Cpus

VARIABLES on,       \* on[c]: the thread whose stack CPU c runs on
          cproc,    \* struct cpu: proc
          pc,       \* where a thread stands
          ret,      \* its trap frames, the last one first: the place and
                    \* the IF a trap interrupted
          intena,   \* the local of sched_switch_out
          st,       \* struct proc: state
          chan,     \* struct proc: chan
          readyq,   \* sched.ready_queue
          waitq,    \* sched.waiting_queue
          newp      \* the local p of mpmain

schedVars == <<on, cproc, pc, ret, intena, st, chan, readyq, waitq, newp>>

\* Thread on[c] stands at label l and CPU c can execute it.
At(c, l) ==
  /\ panic[c] = NULL
  /\ pc[on[c]] = l

Goto(c, l) == pc' = [pc EXCEPT ![on[c]] = l]

SchedInit ==
  /\ on = [c \in Cpus |-> c]
  /\ cproc = [c \in Cpus |-> NULL]
  /\ pc = [t \in Threads |-> IF t = Bsp THEN "mpmain"
                             ELSE IF t \in Cpus THEN "sched_start" ELSE "none"]
  /\ ret = [t \in Threads |-> <<>>]
  /\ intena = [t \in Threads |-> FALSE]
  /\ st = [p \in Procs \cup Idles |-> "UNUSED"]
  /\ chan = [p \in Procs \cup Idles |-> NULL]
  /\ readyq = <<>>
  /\ waitq = <<>>
  /\ newp = NULL

\* The trap frame a process is created with: its function, with IF set.
MainFrame == [pc |-> "main", ints |-> TRUE]

\* Where sched.c calls acquire(): the label, the lock, the label after it.
SchedSites ==
  { <<"sched_add", "sched", "add_push">>,
    <<"loop", "sched", "pick">>,
    <<"sys_yield", "sched", "sys_switch">>,
    <<"tail_yield", "sched", "tail_switch">>,
    <<"sleep", "sched", "sleep_unlock">>,
    <<"sleep_relock", "console_read", "sleep_release">>,
    <<"wakeup", "sched", "wakeup_scan">> }

\* acquire(), first half, at a call site.
Enter(c, site) ==
  /\ At(c, site[1])
  /\ AcquireEnter(c, site[2])
  /\ UNCHANGED schedVars

\* acquire(), second half: the lock is won and the caller goes on.
Take(c, site) ==
  /\ At(c, site[1])
  /\ AcquireTake(c, site[2])
  /\ Goto(c, site[3])
  /\ UNCHANGED <<on, cproc, ret, intena, st, chan, readyq, waitq, newp>>

-----------------------------------------------------------------------------
(* Boot: mpmain creates processes, then becomes the scheduler.             *)

\* proc_alloc() and sched_create_kproc(): an UNUSED slot becomes a runnable
\* process whose first switch-in enters proc_kentry, whose caller frame is
\* the return_from_isr that enters the process function.
CreateProc(c) ==
  /\ At(c, "mpmain")
  /\ \E p \in Procs :
       /\ st[p] = "UNUSED"
       /\ newp' = p
       /\ st' = [st EXCEPT ![p] = "RUNNABLE"]
       /\ pc' = [pc EXCEPT ![p] = "kentry", ![c] = "sched_add"]
       /\ ret' = [ret EXCEPT ![p] = <<MainFrame>>]
  /\ UNCHANGED <<on, cproc, intena, chan, readyq, waitq, cpuVars>>

\* The critical section of sched_add(), which has checked the state.
SchedAdd(c) ==
  /\ At(c, "add_push")
  /\ readyq' = Append(readyq, newp)
  /\ Release(c, "sched")
  /\ Goto(c, "mpmain")
  /\ newp' = NULL
  /\ UNCHANGED <<on, cproc, ret, intena, st, chan, waitq>>

\* mpmain has created its processes, the shells at least, and calls
\* sched_start().
BootDone(c) ==
  /\ At(c, "mpmain")
  /\ \A p \in Shells : st[p] # "UNUSED"
  /\ Goto(c, "sched_start")
  /\ UNCHANGED <<on, cproc, ret, intena, st, chan, readyq, waitq, newp, cpuVars>>

\* sched_start() up to its acquire: the idle process, interrupts on.
SchedStart(c) ==
  /\ At(c, "sched_start")
  /\ cproc' = [cproc EXCEPT ![c] = NULL]
  /\ st' = [st EXCEPT ![idle_proc[c]] = "RUNNABLE"]
  /\ pc' = [pc EXCEPT ![idle_proc[c]] = "kentry", ![c] = "loop"]
  /\ ret' = [ret EXCEPT ![idle_proc[c]] = <<MainFrame>>]
  /\ ints' = [ints EXCEPT ![c] = TRUE]
  /\ UNCHANGED <<on, intena, chan, readyq, waitq, newp,
                 layer, int_enabled, owner, spin, panic>>

-----------------------------------------------------------------------------
(* The scheduler loop.                                                     *)

\* Pick the head of the ready queue, or the idle process, and switch to it.
Pick(c) ==
  /\ At(c, "pick")
  /\ LET p == IF readyq # <<>> THEN Head(readyq) ELSE idle_proc[c]
     IN  /\ cproc' = [cproc EXCEPT ![c] = p]
         /\ st' = [st EXCEPT ![p] = "RUNNING"]
         /\ on' = [on EXCEPT ![c] = p]
  /\ readyq' = IF readyq # <<>> THEN Tail(readyq) ELSE readyq
  /\ Goto(c, "back")
  /\ UNCHANGED <<ret, intena, chan, waitq, newp, cpuVars>>

\* Mutant: the idle process is queued like any other.
Back_QueuesIdle(c) ==
  /\ At(c, "back")
  /\ LET p == cproc[c]
         runnable == p # NULL /\ st[p] = "RUNNABLE"
     IN  /\ readyq' = IF runnable THEN Append(readyq, p) ELSE readyq
         /\ waitq' = IF p # NULL /\ ~runnable THEN Append(waitq, p) ELSE waitq
  /\ cproc' = [cproc EXCEPT ![c] = NULL]
  /\ Goto(c, "pick")
  /\ UNCHANGED <<on, ret, intena, st, chan, newp, cpuVars>>

\* Mutant: a preempted process goes to the front of the ready queue.
Back_QueuesInFront(c) ==
  /\ At(c, "back")
  /\ LET p == cproc[c]
         queued == p # NULL /\ p # idle_proc[c]
         runnable == queued /\ st[p] = "RUNNABLE"
     IN  /\ readyq' = IF runnable THEN <<p>> \o readyq ELSE readyq
         /\ waitq' = IF queued /\ ~runnable THEN Append(waitq, p) ELSE waitq
  /\ cproc' = [cproc EXCEPT ![c] = NULL]
  /\ Goto(c, "pick")
  /\ UNCHANGED <<on, ret, intena, st, chan, newp, cpuVars>>

\* The process switched out: queue it by its state.
Back(c) ==
  /\ At(c, "back")
  /\ LET p == cproc[c]
         queued == p # NULL /\ p # idle_proc[c]
         runnable == queued /\ st[p] = "RUNNABLE"
     IN  /\ readyq' = IF runnable THEN Append(readyq, p) ELSE readyq
         /\ waitq' = IF queued /\ ~runnable THEN Append(waitq, p) ELSE waitq
  /\ cproc' = [cproc EXCEPT ![c] = NULL]
  /\ Goto(c, "pick")
  /\ UNCHANGED <<on, ret, intena, st, chan, newp, cpuVars>>

\* proc_kentry(): the first thing a fresh process does.
ProcKentry(c) ==
  /\ At(c, "kentry")
  /\ IF cproc[c] = NULL THEN Panic(c, "no curproc?")
                        ELSE Release(c, "sched")
  /\ Goto(c, "iret")
  /\ UNCHANGED <<on, cproc, ret, intena, st, chan, readyq, waitq, newp>>

-----------------------------------------------------------------------------
(* Giving up the CPU.                                                      *)

\* Why sched_switch_out() would panic, were the process in state s.
SwitchOutPanic(c, s) ==
  IF owner["sched"] # c THEN "sched_swtich_out lock"
  ELSE IF layer[c] # 1 THEN "switch_out lock count"
  ELSE IF s = "RUNNING" THEN "switching out running"
  ELSE NULL

\* sched_switch_out() up to the switch, by a process that has just set its
\* state to s; it comes back at label "to".
SwitchOut(c, s, to) ==
  LET why == SwitchOutPanic(c, s)
  IN  /\ st' = [st EXCEPT ![cproc[c]] = s]
      /\ IF why # NULL
         THEN Panic(c, why) /\ UNCHANGED <<on, pc, intena>>
         ELSE /\ intena' = [intena EXCEPT ![on[c]] = int_enabled[c]]
              /\ on' = [on EXCEPT ![c] = c]
              /\ Goto(c, to)
              /\ UNCHANGED cpuVars
      /\ UNCHANGED <<cproc, ret, readyq, waitq, newp>>

\* Mutant: int_enabled is left as the last process on this CPU had it.
SwitchedIn_KeepsIntEnabled(c, from, to) ==
  /\ At(c, from)
  /\ Goto(c, to)
  /\ UNCHANGED <<on, cproc, ret, intena, st, readyq, waitq, newp, cpuVars>>

\* Back on a CPU, perhaps another one: its int_enabled is made ours.
SwitchedIn(c, from, to) ==
  /\ At(c, from)
  /\ int_enabled' = [int_enabled EXCEPT ![c] = intena[on[c]]]
  /\ Goto(c, to)
  /\ UNCHANGED <<on, cproc, ret, intena, st, readyq, waitq, newp,
                 ints, layer, owner, spin, panic>>

\* sched_yield() inside the lock; the caller goes on at "to".
Yield(c, switch, back, release, to) ==
  \/ /\ At(c, switch)
     /\ LET s == st[cproc[c]]
        IN  SwitchOut(c, IF s = "RUNNING" THEN "RUNNABLE" ELSE s, back)
     /\ UNCHANGED chan
  \/ /\ SwitchedIn(c, back, release)
     /\ UNCHANGED chan
  \/ /\ At(c, release)
     /\ Release(c, "sched")
     /\ Goto(c, to)
     /\ UNCHANGED <<on, cproc, ret, intena, st, chan, readyq, waitq, newp>>

\* Mutant: the caller's lock is kept over the sleep.
SleepUnlock_KeepsLock(c) ==
  /\ At(c, "sleep_unlock")
  /\ Goto(c, "sleep_switch")
  /\ UNCHANGED <<on, cproc, ret, intena, st, chan, readyq, waitq, newp, cpuVars>>

\* sched_sleep(&console_fifo, &console_read_lock) once sched.lock is taken:
\* the caller's lock is dropped, ...
SleepUnlock(c) ==
  /\ At(c, "sleep_unlock")
  /\ Release(c, "console_read")
  /\ Goto(c, "sleep_switch")
  /\ UNCHANGED <<on, cproc, ret, intena, st, chan, readyq, waitq, newp>>

\* Mutant: the channel is not recorded.
SleepSwitch_NoChan(c) ==
  /\ At(c, "sleep_switch")
  /\ SwitchOut(c, "SLEEPING", "sleep_back")
  /\ UNCHANGED chan

\* ... the process sleeps on the channel, ...
SleepSwitch(c) ==
  /\ At(c, "sleep_switch")
  /\ chan' = [chan EXCEPT ![cproc[c]] = "console_fifo"]
  /\ SwitchOut(c, "SLEEPING", "sleep_back")

\* ... and is woken: the channel is cleared, the caller's lock retaken while
\* sched.lock is still held, and sched.lock released.
SleepBack(c) ==
  /\ SwitchedIn(c, "sleep_back", "sleep_relock")
  /\ chan' = [chan EXCEPT ![on[c]] = NULL]

SleepRelease(c) ==
  /\ At(c, "sleep_release")
  /\ Release(c, "sched")
  /\ Goto(c, "getc_read")
  /\ UNCHANGED <<on, cproc, ret, intena, st, chan, readyq, waitq, newp>>

\* Mutant: the woken process stays in the waiting queue.
Wakeup_KeepsWaiting(c, ch, to) ==
  /\ At(c, "wakeup_scan")
  /\ LET waiters == {i \in DOMAIN waitq : chan[waitq[i]] = ch}
     IN  IF waiters # {}
         THEN /\ \E i \in waiters : readyq' = Append(readyq, waitq[i])
              /\ UNCHANGED <<pc, cpuVars>>
         ELSE /\ Release(c, "sched")
              /\ Goto(c, to)
              /\ UNCHANGED readyq
  /\ UNCHANGED <<on, cproc, ret, intena, st, chan, waitq, newp>>

\* sched_wakeup(ch) inside the lock: the scan meets the waiters in queue
\* order, so it next moves the first one that waits on the channel.
Wakeup(c, ch, to) ==
  /\ At(c, "wakeup_scan")
  /\ LET waiters == {i \in DOMAIN waitq : chan[waitq[i]] = ch}
     IN  IF waiters # {}
         THEN LET i == CHOOSE j \in waiters : \A k \in waiters : j <= k
              IN  /\ waitq' = SubSeq(waitq, 1, i - 1) \o SubSeq(waitq, i + 1, Len(waitq))
                  /\ readyq' = Append(readyq, waitq[i])
                  /\ UNCHANGED <<pc, cpuVars>>
         ELSE /\ Release(c, "sched")
              /\ Goto(c, to)
              /\ UNCHANGED <<readyq, waitq>>
  /\ UNCHANGED <<on, cproc, ret, intena, st, chan, newp>>
=============================================================================
