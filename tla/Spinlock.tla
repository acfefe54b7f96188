------------------------------ MODULE Spinlock ------------------------------
(***************************************************************************)
(* kernel/src/spinlock.c and the push/pop_int_disable of kernel/src/cpu.c, *)
(* one memory access or flag change per step, on CPUs that take and        *)
(* release locks nested as they like and are interrupted, where IF allows, *)
(* by handlers that do the same.                                           *)
(***************************************************************************)
EXTENDS Naturals, FiniteSets, Sequences

CONSTANTS Cpus, Locks, NULL

ASSUME SpinlockAssumption ==
  /\ NULL \notin Cpus
  /\ NULL \notin Locks

VARIABLES ints,         \* the IF flag
          layer,        \* struct cpu: int_disable_layer
          int_enabled,  \* struct cpu: int_enabled
          locked,       \* spinlock_t: locked
          cpu,          \* spinlock_t: cpu
          pc,           \* the next access of the code CPU c executes
          lk,           \* the argument of the call it is in
          enabled,      \* the local of push_int_disable
          frames,       \* what the nested interrupts suspended, the last one first
          held          \* history: the locks acquire() has won, by CPU

vars == <<ints, layer, int_enabled, locked, cpu, pc, lk, enabled, frames, held>>

Init ==
  /\ ints = [c \in Cpus |-> TRUE]
  /\ layer = [c \in Cpus |-> 0]
  /\ int_enabled = [c \in Cpus |-> FALSE]
  /\ locked = [l \in Locks |-> FALSE]
  /\ cpu = [l \in Locks |-> NULL]
  /\ pc = [c \in Cpus |-> "run"]
  /\ lk = [c \in Cpus |-> NULL]
  /\ enabled = [c \in Cpus |-> FALSE]
  /\ frames = [c \in Cpus |-> <<>>]
  /\ held = [c \in Cpus |-> {}]

Goto(c, from, to) ==
  /\ pc[c] = from
  /\ pc' = [pc EXCEPT ![c] = to]

-----------------------------------------------------------------------------
(* acquire(lk)                                                             *)

CallAcquire(c, l) ==
  /\ Goto(c, "run", "flags")
  /\ lk' = [lk EXCEPT ![c] = l]
  /\ UNCHANGED <<ints, layer, int_enabled, locked, cpu, enabled, frames, held>>

\* disable_interrupt() reads the flags ...
ReadFlags(c) ==
  /\ Goto(c, "flags", "cli")
  /\ enabled' = [enabled EXCEPT ![c] = ints[c]]
  /\ UNCHANGED <<ints, layer, int_enabled, locked, cpu, lk, frames, held>>

\* ... and then clears IF.
Cli(c) ==
  /\ Goto(c, "cli", "count")
  /\ ints' = [ints EXCEPT ![c] = FALSE]
  /\ UNCHANGED <<layer, int_enabled, locked, cpu, lk, enabled, frames, held>>

\* Mutant: a nested call overwrites the saved flag.
Count_SavesAlways(c) ==
  /\ Goto(c, "count", "acquire_locked")
  /\ int_enabled' = [int_enabled EXCEPT ![c] = enabled[c]]
  /\ layer' = [layer EXCEPT ![c] = @ + 1]
  /\ UNCHANGED <<ints, locked, cpu, lk, enabled, frames, held>>

Count(c) ==
  /\ Goto(c, "count", "acquire_locked")
  /\ int_enabled' = [int_enabled EXCEPT ![c] = IF layer[c] = 0 THEN enabled[c] ELSE @]
  /\ layer' = [layer EXCEPT ![c] = @ + 1]
  /\ UNCHANGED <<ints, locked, cpu, lk, enabled, frames, held>>

\* holding(): two reads that other CPUs can come between.  Its own push and
\* pop of the interrupt state cancel out, for the layer is not 0 here.
AcquireCheck(c) ==
  /\ \/ Goto(c, "acquire_locked", IF locked[lk[c]] THEN "acquire_cpu" ELSE "xchg")
     \/ Goto(c, "acquire_cpu", IF cpu[lk[c]] = c THEN "panic" ELSE "xchg")
  /\ UNCHANGED <<ints, layer, int_enabled, locked, cpu, lk, enabled, frames, held>>

\* Mutant: what the exchange found is not looked at.
Xchg_NoTest(c) ==
  /\ Goto(c, "xchg", "set_cpu")
  /\ locked' = [locked EXCEPT ![lk[c]] = TRUE]
  /\ held' = [held EXCEPT ![c] = @ \cup {lk[c]}]
  /\ UNCHANGED <<ints, layer, int_enabled, cpu, lk, enabled, frames>>

\* The atomic exchange that finds 0; one that finds 1 changes nothing.
Xchg(c) ==
  /\ Goto(c, "xchg", "set_cpu")
  /\ ~locked[lk[c]]
  /\ locked' = [locked EXCEPT ![lk[c]] = TRUE]
  /\ held' = [held EXCEPT ![c] = @ \cup {lk[c]}]
  /\ UNCHANGED <<ints, layer, int_enabled, cpu, lk, enabled, frames>>

SetCpu(c) ==
  /\ Goto(c, "set_cpu", "run")
  /\ cpu' = [cpu EXCEPT ![lk[c]] = c]
  /\ UNCHANGED <<ints, layer, int_enabled, locked, lk, enabled, frames, held>>

-----------------------------------------------------------------------------
(* release(lk)                                                             *)

CallRelease(c, l) ==
  /\ l \in held[c]
  /\ Goto(c, "run", "release_locked")
  /\ lk' = [lk EXCEPT ![c] = l]
  /\ UNCHANGED <<ints, layer, int_enabled, locked, cpu, enabled, frames, held>>

ReleaseCheck(c) ==
  /\ \/ Goto(c, "release_locked", IF locked[lk[c]] THEN "release_cpu" ELSE "release_panic")
     \/ Goto(c, "release_cpu", IF cpu[lk[c]] = c THEN "clear" ELSE "release_panic")
  /\ UNCHANGED <<ints, layer, int_enabled, locked, cpu, lk, enabled, frames, held>>

\* Mutant: the lock is given up before its owner is forgotten.
ReleaseStores_LockFirst(c) ==
  \/ /\ Goto(c, "clear", "store")
     /\ locked' = [locked EXCEPT ![lk[c]] = FALSE]
     /\ held' = [held EXCEPT ![c] = @ \ {lk[c]}]
     /\ UNCHANGED <<ints, layer, int_enabled, cpu, lk, enabled, frames>>
  \/ /\ Goto(c, "store", "pop")
     /\ cpu' = [cpu EXCEPT ![lk[c]] = NULL]
     /\ UNCHANGED <<ints, layer, int_enabled, locked, lk, enabled, frames, held>>

\* The owner is forgotten first, then the lock is given up.
ReleaseStores(c) ==
  \/ /\ Goto(c, "clear", "store")
     /\ cpu' = [cpu EXCEPT ![lk[c]] = NULL]
     /\ UNCHANGED <<ints, layer, int_enabled, locked, lk, enabled, frames, held>>
  \/ /\ Goto(c, "store", "pop")
     /\ locked' = [locked EXCEPT ![lk[c]] = FALSE]
     /\ held' = [held EXCEPT ![c] = @ \ {lk[c]}]
     /\ UNCHANGED <<ints, layer, int_enabled, cpu, lk, enabled, frames>>

\* pop_int_disable(): count down, and sti if this was the last layer.
Pop(c) ==
  /\ Goto(c, "pop", IF layer[c] = 1 /\ int_enabled[c] THEN "sti" ELSE "run")
  /\ layer' = [layer EXCEPT ![c] = @ - 1]
  /\ UNCHANGED <<ints, int_enabled, locked, cpu, lk, enabled, frames, held>>

Sti(c) ==
  /\ Goto(c, "sti", "run")
  /\ ints' = [ints EXCEPT ![c] = TRUE]
  /\ UNCHANGED <<layer, int_enabled, locked, cpu, lk, enabled, frames, held>>

-----------------------------------------------------------------------------
(* Interrupts.                                                             *)

Interrupt(c) ==
  /\ ints[c]
  /\ frames' = [frames EXCEPT
       ![c] = <<[pc |-> pc[c], lk |-> lk[c], enabled |-> enabled[c]]>> \o @]
  /\ pc' = [pc EXCEPT ![c] = "run"]
  /\ ints' = [ints EXCEPT ![c] = FALSE]
  /\ UNCHANGED <<layer, int_enabled, locked, cpu, lk, enabled, held>>

\* A handler returns when it holds no lock; iret brings IF back.
InterruptReturn(c) ==
  /\ pc[c] = "run"
  /\ frames[c] # <<>>
  /\ held[c] = {}
  /\ LET f == Head(frames[c])
     IN  /\ pc' = [pc EXCEPT ![c] = f.pc]
         /\ lk' = [lk EXCEPT ![c] = f.lk]
         /\ enabled' = [enabled EXCEPT ![c] = f.enabled]
  /\ frames' = [frames EXCEPT ![c] = Tail(@)]
  /\ ints' = [ints EXCEPT ![c] = TRUE]
  /\ UNCHANGED <<layer, int_enabled, locked, cpu, held>>

Step(c) ==
  \/ \E l \in Locks : CallAcquire(c, l) \/ CallRelease(c, l)
  \/ ReadFlags(c) \/ Cli(c) \/ Count(c) \/ AcquireCheck(c) \/ Xchg(c) \/ SetCpu(c)
  \/ ReleaseCheck(c) \/ ReleaseStores(c) \/ Pop(c) \/ Sti(c)
  \/ Interrupt(c) \/ InterruptReturn(c)

Next == \E c \in Cpus : Step(c)

Spec == Init /\ [][Next]_vars

-----------------------------------------------------------------------------
(* Properties.                                                             *)

Labels == {"run", "flags", "cli", "count", "acquire_locked", "acquire_cpu", "xchg",
           "set_cpu", "release_locked", "release_cpu", "clear", "store", "pop",
           "sti", "panic", "release_panic"}

\* Every variable has its type.
TypeOK ==
  /\ ints \in [Cpus -> BOOLEAN]
  /\ layer \in [Cpus -> Nat]
  /\ int_enabled \in [Cpus -> BOOLEAN]
  /\ locked \in [Locks -> BOOLEAN]
  /\ cpu \in [Locks -> Cpus \cup {NULL}]
  /\ pc \in [Cpus -> Labels]
  /\ lk \in [Cpus -> Locks \cup {NULL}]
  /\ enabled \in [Cpus -> BOOLEAN]
  /\ frames \in [Cpus -> Seq([pc : {"run", "flags", "cli"},
                              lk : Locks \cup {NULL}, enabled : BOOLEAN])]
  /\ held \in [Cpus -> SUBSET Locks]

\* No two CPUs have won the same lock.
MutualExclusion ==
  \A c, d \in Cpus : c # d => held[c] \cap held[d] = {}

\* holding() answers right although it reads locked and cpu apart: a CPU
\* panics only when it really takes a lock again that it holds, never spins on
\* a lock it holds, and never panics over one it releases.
HoldingIsExact ==
  \A c \in Cpus :
    /\ pc[c] # "release_panic"
    /\ pc[c] = "panic" => lk[c] \in held[c]
    /\ pc[c] = "xchg" => lk[c] \notin held[c]

\* No interrupt can come while a CPU holds a lock.
MaskedWhileHeld ==
  \A c \in Cpus : held[c] # {} => ~ints[c]

\* A CPU that holds nothing and is in no call has IF as it was before: on in
\* ordinary code, off in a handler; and its layer count is back to 0.
FlagRestored ==
  \A c \in Cpus :
    pc[c] = "run" /\ held[c] = {} => layer[c] = 0 /\ (ints[c] <=> frames[c] = <<>>)

=============================================================================
