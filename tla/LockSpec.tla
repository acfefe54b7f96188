------------------------------ MODULE LockSpec ------------------------------
(***************************************************************************)
(* What the spin locks promise: CPUs that take and release locks, nested   *)
(* as they like, in the atomic steps of module Cpu, with interrupts        *)
(* between those steps wherever IF allows.  It is the abstract             *)
(* specification that module Spinlock implements, and it uses the very     *)
(* operators out of which module Sched builds the kernel.                  *)
(***************************************************************************)
EXTENDS Cpu

VARIABLE depth     \* depth[c]: how many interrupt handlers are nested on c

lockVars == <<cpuVars, depth>>

\* After boot: interrupts on, no lock held.
Init ==
  /\ ints = [c \in Cpus |-> TRUE]
  /\ layer = [c \in Cpus |-> 0]
  /\ int_enabled = [c \in Cpus |-> FALSE]
  /\ owner = [l \in Locks |-> NULL]
  /\ spin = [c \in Cpus |-> NULL]
  /\ panic = [c \in Cpus |-> NULL]
  /\ depth = [c \in Cpus |-> 0]

Lock(c, l) ==
  /\ panic[c] = NULL
  /\ AcquireEnter(c, l) \/ AcquireTake(c, l)
  /\ UNCHANGED depth

Unlock(c, l) ==
  /\ panic[c] = NULL
  /\ spin[c] = NULL
  /\ owner[l] = c
  /\ Release(c, l)
  /\ UNCHANGED depth

Interrupt(c) ==
  /\ ints[c]
  /\ depth' = [depth EXCEPT ![c] = @ + 1]
  /\ ints' = [ints EXCEPT ![c] = FALSE]
  /\ UNCHANGED <<layer, int_enabled, owner, spin, panic>>

InterruptReturn(c) ==
  /\ depth[c] > 0
  /\ panic[c] = NULL
  /\ spin[c] = NULL
  /\ \A l \in Locks : owner[l] # c
  /\ depth' = [depth EXCEPT ![c] = @ - 1]
  /\ ints' = [ints EXCEPT ![c] = TRUE]
  /\ UNCHANGED <<layer, int_enabled, owner, spin, panic>>

Next ==
  \E c \in Cpus : \/ \E l \in Locks : Lock(c, l) \/ Unlock(c, l)
                  \/ Interrupt(c)
                  \/ InterruptReturn(c)

Spec == Init /\ [][Next]_lockVars
=============================================================================
