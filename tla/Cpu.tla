-------------------------------- MODULE Cpu --------------------------------
(***************************************************************************)
(* The per-CPU interrupt bookkeeping of kernel/src/cpu.c and the spin      *)
(* locks of kernel/src/spinlock.c, as the rest of the kernel uses them:    *)
(* one step disables interrupts and enters the spin of acquire(), one step *)
(* wins the lock, one step releases it.  That each of the three may be     *)
(* taken as one step is what module Spinlock checks instruction by         *)
(* instruction.                                                            *)
(***************************************************************************)
EXTENDS Naturals

CONSTANTS Cpus,     \* the processors that run the kernel
          Locks,    \* the spin locks
          NULL      \* the null pointer

VARIABLES ints,         \* ints[c]: the IF flag of CPU c
          layer,        \* struct cpu: int_disable_layer
          int_enabled,  \* struct cpu: int_enabled
          owner,        \* spinlock_t.cpu of a locked lock, NULL when unlocked
          spin,         \* the lock CPU c is spinning on inside acquire()
          panic         \* the message CPU c stopped with, NULL while it runs

cpuVars == <<ints, layer, int_enabled, owner, spin, panic>>

CpuInit ==
  /\ ints = [c \in Cpus |-> FALSE]
  /\ layer = [c \in Cpus |-> 0]
  /\ int_enabled = [c \in Cpus |-> FALSE]
  /\ owner = [l \in Locks |-> NULL]
  /\ spin = [c \in Cpus |-> NULL]
  /\ panic = [c \in Cpus |-> NULL]

\* IF is saved only by the outermost of a nest of calls.
PushIntDisable(c) ==
  /\ ints' = [ints EXCEPT ![c] = FALSE]
  /\ int_enabled' = [int_enabled EXCEPT ![c] = IF layer[c] = 0 THEN ints[c] ELSE @]
  /\ layer' = [layer EXCEPT ![c] = @ + 1]

\* Mutant: interrupts come back with the innermost call.
PopIntDisable_Eager(c) ==
  /\ layer' = [layer EXCEPT ![c] = @ - 1]
  /\ ints' = [ints EXCEPT ![c] = @ \/ int_enabled[c]]
  /\ UNCHANGED int_enabled

PopIntDisable(c) ==
  /\ layer' = [layer EXCEPT ![c] = @ - 1]
  /\ ints' = [ints EXCEPT ![c] = @ \/ (layer[c] = 1 /\ int_enabled[c])]
  /\ UNCHANGED int_enabled

\* panic() stops the CPU for good with interrupts off.
Panic(c, why) ==
  /\ panic' = [panic EXCEPT ![c] = why]
  /\ ints' = [ints EXCEPT ![c] = FALSE]
  /\ UNCHANGED <<layer, int_enabled, owner, spin>>

\* The first half of acquire(): interrupts off, self-deadlock check.
AcquireEnter(c, l) ==
  /\ spin[c] = NULL
  /\ PushIntDisable(c)
  /\ spin' = [spin EXCEPT ![c] = l]
  /\ panic' = [panic EXCEPT ![c] = IF owner[l] = c THEN "acquire" ELSE @]
  /\ UNCHANGED owner

\* The exchange that finds the lock free.
AcquireTake(c, l) ==
  /\ spin[c] = l
  /\ owner[l] = NULL
  /\ owner' = [owner EXCEPT ![l] = c]
  /\ spin' = [spin EXCEPT ![c] = NULL]
  /\ UNCHANGED <<ints, layer, int_enabled, panic>>

Release(c, l) ==
  IF owner[l] = c
  THEN /\ owner' = [owner EXCEPT ![l] = NULL]
       /\ PopIntDisable(c)
       /\ UNCHANGED <<spin, panic>>
  ELSE Panic(c, "release")
=============================================================================
