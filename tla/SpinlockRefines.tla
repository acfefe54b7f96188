-------------------------- MODULE SpinlockRefines --------------------------
(***************************************************************************)
(* The atomic steps of module Cpu, out of which the kernel model is built, *)
(* are an abstraction of the code of kernel/src/spinlock.c: module         *)
(* Spinlock implements LockSpec.                                           *)
(***************************************************************************)
EXTENDS Spinlock

\* acquire() has done its cli, and has not yet won the lock.
Entered(c) == pc[c] \in {"count", "acquire_locked", "acquire_cpu", "xchg", "panic"}

\* IF, with the sti that release() still owes
Flag == [c \in Cpus |-> ints[c] \/ pc[c] = "sti"
                          \/ (pc[c] = "pop" /\ layer[c] = 1 /\ int_enabled[c])]

\* The layer and the saved flag, with the counting that is still to come
Nesting == [c \in Cpus |-> CASE pc[c] = "count" -> layer[c] + 1
                             [] pc[c] = "pop" -> layer[c] - 1
                             [] OTHER -> layer[c]]
Saved == [c \in Cpus |-> IF pc[c] = "count" /\ layer[c] = 0
                         THEN enabled[c] ELSE int_enabled[c]]

\* The CPU that has won the lock
Winner == [l \in Locks |-> IF \E c \in Cpus : l \in held[c]
                           THEN CHOOSE c \in Cpus : l \in held[c] ELSE NULL]

Wanted == [c \in Cpus |-> IF Entered(c) THEN lk[c] ELSE NULL]
Stopped == [c \in Cpus |-> IF Entered(c) /\ lk[c] \in held[c] THEN "acquire" ELSE NULL]
Handlers == [c \in Cpus |-> Len(frames[c])]

Abs == INSTANCE LockSpec WITH
  ints <- Flag, layer <- Nesting, int_enabled <- Saved, owner <- Winner,
  spin <- Wanted, panic <- Stopped, depth <- Handlers

\* Seen through the mapping, the code takes only steps of LockSpec.
Implements == Abs!Spec
=============================================================================
