--------------------------- MODULE SpinlockProofs ---------------------------
(***************************************************************************)
(* The spin locks of kernel/src/spinlock.c exclude each other, holding()   *)
(* answers right, and push/pop_int_disable of kernel/src/cpu.c give IF     *)
(* back, for every set of CPUs and of locks and every depth of interrupts. *)
(***************************************************************************)
EXTENDS SpinlockRefines, FiniteSetTheorems, SequenceTheorems, TLAPS

\* The prover of the steps that name no other.
USE ZenonT(30)

\* acquire() has counted its layer and not won the lock yet, or release()
\* has given the lock up and not counted down yet.
Pending(c) ==
  IF pc[c] \in {"acquire_locked", "acquire_cpu", "xchg", "panic", "pop"} THEN 1 ELSE 0

\* Inside a call the argument is a lock, a lock to release is held, and a CPU
\* about to exchange does not hold it.
CallInv(c) ==
  /\ pc[c] # "release_panic"
  /\ pc[c] # "run" => lk[c] \in Locks
  /\ pc[c] \in {"set_cpu", "release_locked", "release_cpu", "clear", "store", "panic"}
       => lk[c] \in held[c]
  /\ pc[c] = "xchg" => lk[c] \notin held[c]

\* Interrupts are on only outside every critical section; the layer counts
\* the locks; and the saved flag says whether a handler is running.
FlagInv(c) ==
  /\ Len(frames[c]) <= 1
  /\ IsFiniteSet(held[c])
  /\ layer[c] = Cardinality(held[c]) + Pending(c)
  /\ ints[c] => pc[c] \in {"run", "flags", "cli"}
  /\ layer[c] > 0 => ~ints[c] /\ (int_enabled[c] <=> frames[c] = <<>>)
  /\ layer[c] = 0 /\ pc[c] \in {"run", "flags", "cli"} => (ints[c] <=> frames[c] = <<>>)
  /\ pc[c] = "cli" => (enabled[c] <=> ints[c])
  /\ pc[c] = "count" /\ layer[c] = 0 => (enabled[c] <=> frames[c] = <<>>)
  /\ pc[c] = "sti" => layer[c] = 0 /\ frames[c] = <<>>

\* A suspended call stands where IF was on.
FrameInv(c) ==
  \A i \in 1..Len(frames[c]) :
    /\ frames[c][i].pc # "run" => frames[c][i].lk \in Locks
    /\ frames[c][i].pc = "cli" => frames[c][i].enabled

\* locked and cpu of a lock, against who holds it.
LockInv ==
  /\ MutualExclusion
  /\ \A l \in Locks : locked[l] <=> \E c \in Cpus : l \in held[c]
  /\ \A c \in Cpus : \A l \in Locks : cpu[l] = c => l \in held[c]
  /\ \A c \in Cpus : \A l \in held[c] :
       cpu[l] = c \/ (pc[c] \in {"set_cpu", "store"} /\ lk[c] = l)
  /\ \A c \in Cpus : pc[c] = "store" => cpu[lk[c]] = NULL

IInv ==
  /\ TypeOK
  /\ LockInv
  /\ \A c \in Cpus : CallInv(c) /\ FlagInv(c) /\ FrameInv(c)





\* The invariant holds at the start.
LEMMA InitInv == Init => IInv
BY SMT, FS_EmptySet, SpinlockAssumption
   DEF Init, IInv, TypeOK, Labels, LockInv, MutualExclusion, CallInv, FlagInv, FrameInv, Pending

\* Each step of the code preserves it.
LEMMA StepInv == IInv /\ [Next]_vars => IInv'
<1> SUFFICES ASSUME IInv, [Next]_vars PROVE IInv'
  OBVIOUS
<1>0. NULL \notin Cpus
  BY SpinlockAssumption
<1>h. ASSUME NEW c \in Cpus
      PROVE  /\ IsFiniteSet(held[c]) /\ Cardinality(held[c]) \in Nat
             /\ Cardinality(held[c]) = 0 <=> held[c] = {}
  BY <1>h, FS_CardinalityType, FS_EmptySet DEF IInv, FlagInv
<1>1. ASSUME NEW c \in Cpus, NEW l \in Locks, CallAcquire(c, l) PROVE IInv'
  <2>1. TypeOK'
    BY <1>1, <1>0 DEF IInv, TypeOK, Labels, CallAcquire, Goto
  <2>2. LockInv'
    BY SMT, <1>1, <1>0 DEF IInv, TypeOK, LockInv, MutualExclusion, CallInv, CallAcquire, Goto
  <2>3. ASSUME NEW d \in Cpus PROVE CallInv(d)'
    BY SMT, <1>1, <2>3 DEF IInv, TypeOK, LockInv, CallInv, CallAcquire, Goto
  <2>4. ASSUME NEW d \in Cpus PROVE FlagInv(d)'
    BY <1>1, <2>4 DEF IInv, TypeOK, FlagInv, Pending, CallAcquire, Goto
  <2>5. ASSUME NEW d \in Cpus PROVE FrameInv(d)'
    BY <1>1, <2>5 DEF IInv, TypeOK, FrameInv, CallAcquire, Goto
  <2>. QED BY <2>1, <2>2, <2>3, <2>4, <2>5 DEF IInv
<1>2. ASSUME NEW c \in Cpus, NEW l \in Locks, CallRelease(c, l) PROVE IInv'
  <2>1. TypeOK'
    BY <1>2, <1>0 DEF IInv, TypeOK, Labels, CallRelease, Goto
  <2>2. LockInv'
    BY SMT, <1>2, <1>0 DEF IInv, TypeOK, LockInv, MutualExclusion, CallInv, CallRelease, Goto
  <2>3. ASSUME NEW d \in Cpus PROVE CallInv(d)'
    BY SMT, <1>2, <2>3 DEF IInv, TypeOK, LockInv, CallInv, CallRelease, Goto
  <2>4. ASSUME NEW d \in Cpus PROVE FlagInv(d)'
    BY SMT, <1>2, <2>4, <1>h DEF IInv, TypeOK, FlagInv, Pending, CallRelease, Goto
  <2>5. ASSUME NEW d \in Cpus PROVE FrameInv(d)'
    BY <1>2, <2>5 DEF IInv, TypeOK, FrameInv, CallRelease, Goto
  <2>. QED BY <2>1, <2>2, <2>3, <2>4, <2>5 DEF IInv
<1>3. ASSUME NEW c \in Cpus, ReadFlags(c) PROVE IInv'
  <2>1. TypeOK'
    BY <1>3, <1>0 DEF IInv, TypeOK, Labels, ReadFlags, Goto
  <2>2. LockInv'
    BY SMT, <1>3, <1>0 DEF IInv, TypeOK, LockInv, MutualExclusion, CallInv, ReadFlags, Goto
  <2>3. ASSUME NEW d \in Cpus PROVE CallInv(d)'
    BY SMT, <1>3, <2>3 DEF IInv, TypeOK, LockInv, CallInv, ReadFlags, Goto
  <2>4. ASSUME NEW d \in Cpus PROVE FlagInv(d)'
    BY <1>3, <2>4 DEF IInv, TypeOK, FlagInv, Pending, ReadFlags, Goto
  <2>5. ASSUME NEW d \in Cpus PROVE FrameInv(d)'
    BY <1>3, <2>5 DEF IInv, TypeOK, FrameInv, ReadFlags, Goto
  <2>. QED BY <2>1, <2>2, <2>3, <2>4, <2>5 DEF IInv
<1>4. ASSUME NEW c \in Cpus, Cli(c) PROVE IInv'
  <2>1. TypeOK'
    BY <1>4, <1>0 DEF IInv, TypeOK, Labels, Cli, Goto
  <2>2. LockInv'
    BY SMT, <1>4, <1>0 DEF IInv, TypeOK, LockInv, MutualExclusion, CallInv, Cli, Goto
  <2>3. ASSUME NEW d \in Cpus PROVE CallInv(d)'
    BY SMT, <1>4, <2>3 DEF IInv, TypeOK, LockInv, CallInv, Cli, Goto
  <2>4. ASSUME NEW d \in Cpus PROVE FlagInv(d)'
    BY <1>4, <2>4 DEF IInv, TypeOK, FlagInv, Pending, Cli, Goto
  <2>5. ASSUME NEW d \in Cpus PROVE FrameInv(d)'
    BY <1>4, <2>5 DEF IInv, TypeOK, FrameInv, Cli, Goto
  <2>. QED BY <2>1, <2>2, <2>3, <2>4, <2>5 DEF IInv
<1>5. ASSUME NEW c \in Cpus, Count(c) PROVE IInv'
  <2>1. TypeOK'
    <3>1. layer' \in [Cpus -> Nat]
      BY SMT, <1>5 DEF IInv, TypeOK, Count
    <3>2. int_enabled' \in [Cpus -> BOOLEAN]
      BY <1>5 DEF IInv, TypeOK, Count
    <3>3. pc' \in [Cpus -> Labels]
      BY <1>5 DEF IInv, TypeOK, Labels, Count, Goto
    <3>. QED BY <1>5, <3>1, <3>2, <3>3 DEF IInv, TypeOK, Count
  <2>2. LockInv'
    BY SMT, <1>5, <1>0 DEF IInv, TypeOK, LockInv, MutualExclusion, CallInv, Count, Goto
  <2>3. ASSUME NEW d \in Cpus PROVE CallInv(d)'
    BY SMT, <1>5, <2>3 DEF IInv, TypeOK, LockInv, CallInv, Count, Goto
  <2>4. ASSUME NEW d \in Cpus PROVE FlagInv(d)'
    <3>1. CASE d # c
      BY <1>5, <2>4, <3>1 DEF IInv, TypeOK, FlagInv, Pending, Count, Goto
    <3>2. CASE d = c
      <4>1. /\ pc[c] = "count" /\ pc'[c] = "acquire_locked" /\ layer'[c] = layer[c] + 1
            /\ UNCHANGED <<held, frames, ints>>
        BY <1>5 DEF IInv, TypeOK, Count, Goto
      <4>2. /\ layer[c] = 0 => int_enabled'[c] = enabled[c]
            /\ layer[c] # 0 => int_enabled'[c] = int_enabled[c]
        BY <1>5 DEF IInv, TypeOK, Count
      <4>3. FlagInv(c) /\ layer[c] \in Nat
        BY DEF IInv, TypeOK
      <4>4. int_enabled'[c] <=> frames[c] = <<>>
        BY SMT, <4>1, <4>2, <4>3 DEF FlagInv
      <4>. QED BY SMT, <3>2, <4>1, <4>3, <4>4, <1>h DEF FlagInv, Pending
    <3>. QED BY <3>1, <3>2
  <2>5. ASSUME NEW d \in Cpus PROVE FrameInv(d)'
    BY <1>5, <2>5 DEF IInv, TypeOK, FrameInv, Count, Goto
  <2>. QED BY <2>1, <2>2, <2>3, <2>4, <2>5 DEF IInv
<1>6. ASSUME NEW c \in Cpus, AcquireCheck(c) PROVE IInv'
  <2>0. /\ UNCHANGED <<locked, cpu, lk, held>>
        /\ \A d \in Cpus : pc'[d] # pc[d] => {pc[d], pc'[d]} \cap {"set_cpu", "store"} = {}
    BY <1>6 DEF IInv, TypeOK, AcquireCheck, Goto
  <2>1. TypeOK'
    BY <1>6, <1>0 DEF IInv, TypeOK, Labels, AcquireCheck, Goto
  <2>2. LockInv'
    BY <2>0 DEF IInv, LockInv, MutualExclusion
  <2>3. ASSUME NEW d \in Cpus PROVE CallInv(d)'
    BY SMT, <1>6, <2>3 DEF IInv, TypeOK, LockInv, CallInv, AcquireCheck, Goto
  <2>4. ASSUME NEW d \in Cpus PROVE FlagInv(d)'
    BY SMT, <1>6, <2>4 DEF IInv, TypeOK, FlagInv, Pending, AcquireCheck, Goto
  <2>5. ASSUME NEW d \in Cpus PROVE FrameInv(d)'
    BY <1>6, <2>5 DEF IInv, TypeOK, FrameInv, AcquireCheck, Goto
  <2>. QED BY <2>1, <2>2, <2>3, <2>4, <2>5 DEF IInv
<1>7. ASSUME NEW c \in Cpus, Xchg(c) PROVE IInv'
  <2>1. TypeOK'
    <3>1. lk[c] \in Locks
      BY <1>7 DEF IInv, CallInv, Xchg, Goto
    <3>2. held' \in [Cpus -> SUBSET Locks]
      BY <1>7, <3>1 DEF IInv, TypeOK, Xchg
    <3>3. locked' \in [Locks -> BOOLEAN]
      BY <1>7, <3>1 DEF IInv, TypeOK, Xchg
    <3>. QED BY <1>7, <3>2, <3>3 DEF IInv, TypeOK, Labels, Xchg, Goto
  <2>2. LockInv'
    BY SMT, <1>7, <1>0 DEF IInv, TypeOK, LockInv, MutualExclusion, CallInv, Xchg, Goto
  <2>3. ASSUME NEW d \in Cpus PROVE CallInv(d)'
    BY SMT, <1>7, <2>3 DEF IInv, TypeOK, LockInv, CallInv, Xchg, Goto
  <2>4. ASSUME NEW d \in Cpus PROVE FlagInv(d)'
    <3>1. CASE d # c
      BY <1>7, <2>4, <3>1 DEF IInv, TypeOK, FlagInv, Pending, Xchg, Goto
    <3>2. CASE d = c
      <4>1. /\ pc[c] = "xchg" /\ pc'[c] = "set_cpu" /\ held'[c] = held[c] \cup {lk[c]}
            /\ UNCHANGED <<frames, ints, layer, int_enabled, enabled>>
            /\ lk[c] \notin held[c]
        BY <1>7 DEF IInv, TypeOK, CallInv, Xchg, Goto
      <4>2. IsFiniteSet(held'[c]) /\ Cardinality(held'[c]) = Cardinality(held[c]) + 1
        <5>1. /\ IsFiniteSet(held[c] \cup {lk[c]})
              /\ Cardinality(held[c] \cup {lk[c]}) = Cardinality(held[c]) + 1
          <6>1. IsFiniteSet(held[c])
            BY <1>h
          <6>. QED BY ONLY <6>1, <4>1, FS_AddElement, Zenon
        <5>. QED BY <4>1, <5>1
      <4>. QED BY SMT, <3>2, <4>1, <4>2, <1>h DEF IInv, TypeOK, FlagInv, Pending
    <3>. QED BY <3>1, <3>2
  <2>5. ASSUME NEW d \in Cpus PROVE FrameInv(d)'
    BY <1>7, <2>5 DEF IInv, TypeOK, FrameInv, Xchg, Goto
  <2>. QED BY <2>1, <2>2, <2>3, <2>4, <2>5 DEF IInv
<1>8. ASSUME NEW c \in Cpus, SetCpu(c) PROVE IInv'
  <2>1. TypeOK'
    BY <1>8, <1>0 DEF IInv, TypeOK, Labels, SetCpu, Goto
  <2>2. LockInv'
    BY SMT, <1>8, <1>0 DEF IInv, TypeOK, LockInv, MutualExclusion, CallInv, SetCpu, Goto
  <2>3. ASSUME NEW d \in Cpus PROVE CallInv(d)'
    BY SMT, <1>8, <2>3 DEF IInv, TypeOK, LockInv, CallInv, SetCpu, Goto
  <2>4. ASSUME NEW d \in Cpus PROVE FlagInv(d)'
    <3>1. CASE d # c
      BY <1>8, <2>4, <3>1 DEF IInv, TypeOK, FlagInv, Pending, SetCpu, Goto
    <3>2. CASE d = c
      <4>1. /\ pc[c] = "set_cpu" /\ pc'[c] = "run" /\ held[c] # {}
            /\ UNCHANGED <<frames, ints, layer, int_enabled, enabled, held>>
        BY <1>8 DEF IInv, TypeOK, CallInv, SetCpu, Goto
      <4>. QED BY SMT, <3>2, <4>1, <1>h DEF IInv, TypeOK, FlagInv, Pending
    <3>. QED BY <3>1, <3>2
  <2>5. ASSUME NEW d \in Cpus PROVE FrameInv(d)'
    BY <1>8, <2>5 DEF IInv, TypeOK, FrameInv, SetCpu, Goto
  <2>. QED BY <2>1, <2>2, <2>3, <2>4, <2>5 DEF IInv
<1>9. ASSUME NEW c \in Cpus, ReleaseCheck(c) PROVE IInv'
  <2>a. /\ pc[c] \in {"release_locked", "release_cpu"} /\ lk[c] \in held[c] /\ lk[c] \in Locks
        /\ locked[lk[c]] /\ cpu[lk[c]] = c
    BY <1>9 DEF IInv, LockInv, CallInv, ReleaseCheck, Goto
  <2>b. /\ pc' = [pc EXCEPT ![c] = pc'[c]] /\ pc'[c] \in {"release_cpu", "clear"}
        /\ UNCHANGED <<ints, layer, int_enabled, locked, cpu, lk, enabled, frames, held>>
    BY SMT, <1>9, <2>a DEF IInv, TypeOK, ReleaseCheck, Goto
  <2>0. /\ UNCHANGED <<locked, cpu, lk, held>>
        /\ \A d \in Cpus : pc'[d] # pc[d] => {pc[d], pc'[d]} \cap {"set_cpu", "store"} = {}
    BY <1>9 DEF IInv, TypeOK, ReleaseCheck, Goto
  <2>1. TypeOK'
    BY <1>9, <1>0 DEF IInv, TypeOK, Labels, ReleaseCheck, Goto
  <2>2. LockInv'
    BY <2>0 DEF IInv, LockInv, MutualExclusion
  <2>3. ASSUME NEW d \in Cpus PROVE CallInv(d)'
    BY SMT, <1>9, <2>3 DEF IInv, TypeOK, LockInv, CallInv, ReleaseCheck, Goto
  <2>4. ASSUME NEW d \in Cpus PROVE FlagInv(d)'
    BY <2>a, <2>b, <2>4 DEF IInv, TypeOK, FlagInv, Pending
  <2>5. ASSUME NEW d \in Cpus PROVE FrameInv(d)'
    BY <1>9, <2>5 DEF IInv, TypeOK, FrameInv, ReleaseCheck, Goto
  <2>. QED BY <2>1, <2>2, <2>3, <2>4, <2>5 DEF IInv
<1>10. ASSUME NEW c \in Cpus, ReleaseStores(c) PROVE IInv'
  <2>1. CASE pc[c] = "clear"
    <3>1. /\ pc' = [pc EXCEPT ![c] = "store"] /\ cpu' = [cpu EXCEPT ![lk[c]] = NULL]
          /\ UNCHANGED <<ints, layer, int_enabled, locked, lk, enabled, frames, held>>
      BY <1>10, <2>1 DEF ReleaseStores, Goto
    <3>2. lk[c] \in held[c] /\ lk[c] \in Locks
      BY <2>1 DEF IInv, CallInv
    <3>3. TypeOK'
      BY <3>1, <3>2 DEF IInv, TypeOK, Labels
    <3>4. LockInv'
      <4>1. MutualExclusion' /\ \A l \in Locks : locked'[l] <=> \E d \in Cpus : l \in held'[d]
        BY <3>1 DEF IInv, LockInv, MutualExclusion
      <4>2. ASSUME NEW d \in Cpus, NEW l \in Locks, cpu'[l] = d PROVE l \in held'[d]
        BY SMT, <4>2, <3>1, <3>2, <1>0 DEF IInv, TypeOK, LockInv
      <4>3. ASSUME NEW d \in Cpus, NEW l \in held'[d]
            PROVE cpu'[l] = d \/ (pc'[d] \in {"set_cpu", "store"} /\ lk'[d] = l)
        <5>1. l \in Locks /\ l \in held[d]
          BY <3>1, <4>3 DEF IInv, TypeOK
        <5>2. CASE d = c /\ l = lk[c]
          BY <3>1, <5>2 DEF IInv, TypeOK
        <5>3. CASE d = c /\ l # lk[c]
          BY SMTT(30), <2>1, <3>1, <3>2, <5>1, <5>3 DEF IInv, TypeOK, LockInv
        <5>4. CASE d # c
          <6>1. l # lk[c]
            BY SMT, <3>2, <5>1, <5>4 DEF IInv, LockInv, MutualExclusion
          <6>. QED BY SMTT(30), <3>1, <3>2, <5>1, <5>4, <6>1 DEF IInv, TypeOK, LockInv
        <5>. QED BY <5>2, <5>3, <5>4
      <4>4. ASSUME NEW d \in Cpus, pc'[d] = "store" PROVE cpu'[lk'[d]] = NULL
        BY <4>4, <3>1, <3>2 DEF IInv, TypeOK, LockInv, CallInv
      <4>. QED BY <4>1, <4>2, <4>3, <4>4 DEF LockInv
    <3>5. ASSUME NEW d \in Cpus PROVE CallInv(d)' /\ FrameInv(d)'
      BY <2>1, <3>1, <3>2, <3>5 DEF IInv, TypeOK, CallInv, FrameInv
    <3>6. ASSUME NEW d \in Cpus PROVE FlagInv(d)'
      BY <2>1, <3>1, <3>6 DEF IInv, TypeOK, FlagInv, Pending
    <3>. QED BY <3>3, <3>4, <3>5, <3>6 DEF IInv
  <2>2. CASE pc[c] = "store"
    <3>1. /\ pc' = [pc EXCEPT ![c] = "pop"] /\ locked' = [locked EXCEPT ![lk[c]] = FALSE]
          /\ held' = [held EXCEPT ![c] = @ \ {lk[c]}]
          /\ UNCHANGED <<ints, layer, int_enabled, cpu, lk, enabled, frames>>
      BY <1>10, <2>2 DEF ReleaseStores, Goto
    <3>2. lk[c] \in held[c] /\ lk[c] \in Locks
      BY <2>2 DEF IInv, CallInv
    <3>3. TypeOK'
      BY <3>1, <3>2 DEF IInv, TypeOK, Labels
    <3>4. LockInv'
      <4>1. \A d \in Cpus : held'[d] = IF d = c THEN held[c] \ {lk[c]} ELSE held[d]
        BY <3>1 DEF IInv, TypeOK
      <4>2. MutualExclusion'
        BY <4>1 DEF IInv, LockInv, MutualExclusion
      <4>3. ASSUME NEW l \in Locks PROVE locked'[l] <=> \E d \in Cpus : l \in held'[d]
        <5>1. CASE l = lk[c]
          <6>1. ~locked'[l]
            BY <3>1, <5>1 DEF IInv, TypeOK
          <6>2. \A d \in Cpus : l \notin held'[d]
            BY SMT, <3>2, <4>1, <5>1 DEF IInv, LockInv, MutualExclusion
          <6>. QED BY <6>1, <6>2
        <5>2. CASE l # lk[c]
          BY SMT, <3>1, <4>1, <5>2 DEF IInv, TypeOK, LockInv
        <5>. QED BY <5>1, <5>2
      <4>4. cpu[lk[c]] # c
        \* Cleared before: otherwise the holder would still be recorded.
        BY <1>0, <2>2 DEF IInv, LockInv
      <4>5. ASSUME NEW d \in Cpus, NEW l \in Locks, cpu'[l] = d PROVE l \in held'[d]
        BY SMT, <4>5, <3>1, <4>1, <4>4 DEF IInv, LockInv
      <4>6. ASSUME NEW d \in Cpus, NEW l \in held'[d]
            PROVE cpu'[l] = d \/ (pc'[d] \in {"set_cpu", "store"} /\ lk'[d] = l)
        BY <4>6, <3>1, <4>1 DEF IInv, TypeOK, LockInv
      <4>7. ASSUME NEW d \in Cpus, pc'[d] = "store" PROVE cpu'[lk'[d]] = NULL
        BY <4>7, <3>1 DEF IInv, TypeOK, LockInv
      <4>. QED BY <4>2, <4>3, <4>5, <4>6, <4>7 DEF LockInv
    <3>5. ASSUME NEW d \in Cpus PROVE CallInv(d)' /\ FrameInv(d)'
      BY <2>2, <3>1, <3>2, <3>5 DEF IInv, TypeOK, CallInv, FrameInv
    <3>6. ASSUME NEW d \in Cpus PROVE FlagInv(d)'
      <4>1. CASE d # c
        BY <2>2, <3>1, <4>1, <3>6 DEF IInv, TypeOK, FlagInv, Pending
      <4>2. CASE d = c
        <5>1. held'[c] = held[c] \ {lk[c]} /\ pc'[c] = "pop"
          BY <3>1 DEF IInv, TypeOK
        <5>2. IsFiniteSet(held'[c]) /\ Cardinality(held'[c]) = Cardinality(held[c]) - 1
          <6>1. IsFiniteSet(held[c])
            BY <1>h
          <6>2. /\ IsFiniteSet(held[c] \ {lk[c]})
                /\ Cardinality(held[c] \ {lk[c]}) = Cardinality(held[c]) - 1
            BY ONLY <6>1, <3>2, FS_RemoveElement, Zenon
          <6>. QED BY <5>1, <6>2
        <5>3. FlagInv(c) /\ Pending(c) = 0 /\ Pending(c)' = 1
          BY <2>2, <5>1 DEF IInv, Pending
        <5>4. layer'[c] = Cardinality(held'[c]) + Pending(c)' /\ layer'[c] > 0
          BY SMT, <3>1, <3>2, <5>2, <5>3, <1>h DEF FlagInv
        <5>. QED BY <2>2, <3>1, <4>2, <5>1, <5>2, <5>3, <5>4 DEF FlagInv
      <4>. QED BY <4>1, <4>2
    <3>. QED BY <3>3, <3>4, <3>5, <3>6 DEF IInv
  <2>. QED BY <1>10, <2>1, <2>2 DEF ReleaseStores, Goto
<1>11. ASSUME NEW c \in Cpus, Pop(c) PROVE IInv'
  <2>0. pc[c] = "pop" /\ Pending(c) = 1 /\ layer[c] = Cardinality(held[c]) + 1 /\ layer[c] - 1 \in Nat
    BY SMT, <1>11, <1>h DEF IInv, TypeOK, FlagInv, Pending, Pop, Goto
  <2>1. TypeOK'
    <3>1. layer' \in [Cpus -> Nat]
      BY <1>11, <2>0 DEF IInv, TypeOK, Pop
    <3>. QED BY <1>11, <3>1 DEF IInv, TypeOK, Labels, Pop, Goto
  <2>2. LockInv'
    BY SMT, <1>11, <1>0 DEF IInv, TypeOK, LockInv, MutualExclusion, CallInv, Pop, Goto
  <2>3. ASSUME NEW d \in Cpus PROVE CallInv(d)'
    BY SMT, <1>11, <2>3 DEF IInv, TypeOK, LockInv, CallInv, Pop, Goto
  <2>4. ASSUME NEW d \in Cpus PROVE FlagInv(d)'
    <3>1. CASE d # c
      BY <1>11, <2>4, <3>1 DEF IInv, TypeOK, FlagInv, Pending, Pop, Goto
    <3>2. CASE d = c
      <4>1. /\ layer'[c] = layer[c] - 1
            /\ pc'[c] = IF layer[c] = 1 /\ int_enabled[c] THEN "sti" ELSE "run"
            /\ UNCHANGED <<ints, int_enabled, held, frames, enabled>>
        BY <1>11 DEF IInv, TypeOK, Pop, Goto
      <4>2. FlagInv(c)
        BY DEF IInv
      <4>3. CASE layer[c] = 1 /\ int_enabled[c]
        <5>1. pc'[c] = "sti" /\ layer'[c] = 0 /\ Pending(c)' = 0 /\ Cardinality(held[c]) = 0
          BY SMT, <2>0, <4>1, <4>3, <1>h DEF Pending
        <5>2. frames[c] = <<>> /\ ~ints[c]
          BY SMTT(30), <2>0, <4>2, <4>3 DEF FlagInv
        <5>. QED BY SMTT(30), <3>2, <4>1, <4>2, <5>1, <5>2 DEF FlagInv
      <4>4. CASE ~(layer[c] = 1 /\ int_enabled[c])
        BY SMTT(30), <2>0, <3>2, <4>1, <4>2, <4>4, <1>h DEF FlagInv, Pending
      <4>. QED BY <4>3, <4>4
    <3>. QED BY <3>1, <3>2
  <2>5. ASSUME NEW d \in Cpus PROVE FrameInv(d)'
    BY <1>11, <2>5 DEF IInv, TypeOK, FrameInv, Pop, Goto
  <2>. QED BY <2>1, <2>2, <2>3, <2>4, <2>5 DEF IInv
<1>12. ASSUME NEW c \in Cpus, Sti(c) PROVE IInv'
  <2>1. TypeOK'
    BY <1>12, <1>0 DEF IInv, TypeOK, Labels, Sti, Goto
  <2>2. LockInv'
    BY SMT, <1>12, <1>0 DEF IInv, TypeOK, LockInv, MutualExclusion, CallInv, Sti, Goto
  <2>3. ASSUME NEW d \in Cpus PROVE CallInv(d)'
    BY SMT, <1>12, <2>3 DEF IInv, TypeOK, LockInv, CallInv, Sti, Goto
  <2>4. ASSUME NEW d \in Cpus PROVE FlagInv(d)'
    BY SMT, <1>12, <2>4 DEF IInv, TypeOK, FlagInv, Pending, Sti, Goto
  <2>5. ASSUME NEW d \in Cpus PROVE FrameInv(d)'
    BY <1>12, <2>5 DEF IInv, TypeOK, FrameInv, Sti, Goto
  <2>. QED BY <2>1, <2>2, <2>3, <2>4, <2>5 DEF IInv
<1>13. ASSUME NEW c \in Cpus, Interrupt(c) PROVE IInv'
  <2>0. ints[c] /\ pc[c] \in {"run", "flags", "cli"} /\ layer[c] = 0
    BY SMT, <1>13, <1>h DEF IInv, TypeOK, FlagInv, Interrupt
  <2>f. frames[c] = <<>> /\ frames' = [frames EXCEPT
                              ![c] = <<[pc |-> pc[c], lk |-> lk[c], enabled |-> enabled[c]]>>]
    <3>1. frames[c] = <<>>
      BY <2>0 DEF IInv, FlagInv
    <3>. QED BY SMT, <1>13, <3>1 DEF Interrupt
  <2>1. TypeOK'
    <3> DEFINE F == [pc : {"run", "flags", "cli"}, lk : Locks \cup {NULL}, enabled : BOOLEAN]
               f == [pc |-> pc[c], lk |-> lk[c], enabled |-> enabled[c]]
    <3>1. f \in F
      BY <2>0 DEF IInv, TypeOK
    <3>2. frames \in [Cpus -> Seq(F)]
      BY DEF IInv, TypeOK
    <3> HIDE DEF F, f
    <3>3. frames' \in [Cpus -> Seq(F)]
      BY SMTT(30), <2>f, <3>1, <3>2 DEF f
    <3>. QED BY <1>13, <3>3 DEF IInv, TypeOK, Labels, Interrupt, F
  <2>2. LockInv'
    BY SMT, <1>13, <2>0 DEF IInv, TypeOK, LockInv, MutualExclusion, Interrupt
  <2>3. ASSUME NEW d \in Cpus PROVE CallInv(d)'
    BY <1>13, <2>3 DEF IInv, TypeOK, LockInv, CallInv, Interrupt
  <2>4. ASSUME NEW d \in Cpus PROVE FlagInv(d)'
    <3>1. CASE d # c
      BY <1>13, <2>4, <3>1 DEF IInv, TypeOK, FlagInv, Pending, Interrupt
    <3>2. CASE d = c
      <4>1. pc'[c] = "run" /\ ~ints'[c] /\ layer'[c] = layer[c] /\ held'[c] = held[c]
        BY <1>13 DEF IInv, TypeOK, Interrupt
      <4>3. frames'[c] # <<>> /\ Len(frames'[c]) <= 1
        BY SMT, <2>f DEF IInv, TypeOK
      <4>4. Pending(c) = 0 /\ Pending(c)' = 0
        BY <2>0, <4>1 DEF Pending
      <4>5. IsFiniteSet(held'[c]) /\ layer'[c] = Cardinality(held'[c]) + Pending(c)'
        BY <4>1, <4>4 DEF IInv, FlagInv
      <4>6. pc'[c] # "cli" /\ pc'[c] # "count" /\ pc'[c] # "sti" /\ ~(layer'[c] > 0)
        BY SMT, <2>0, <4>1
      <4>. QED BY <3>2, <4>1, <4>3, <4>5, <4>6 DEF FlagInv
    <3>. QED BY <3>1, <3>2
  <2>5. ASSUME NEW d \in Cpus PROVE FrameInv(d)'
    <3>1. CASE d # c
      BY <1>13, <2>5, <3>1 DEF IInv, TypeOK, FrameInv, Interrupt
    <3>2. CASE d = c
      <4> DEFINE f == [pc |-> pc[c], lk |-> lk[c], enabled |-> enabled[c]]
      <4>1. f.pc # "run" => f.lk \in Locks
        BY DEF IInv, CallInv
      <4>2. f.pc = "cli" => f.enabled
        BY <2>0 DEF IInv, FlagInv
      <4>3. frames'[c] = <<f>>
        BY <2>f DEF IInv, TypeOK
      <4> HIDE DEF f
      <4>. QED BY SMT, <3>2, <4>1, <4>2, <4>3 DEF FrameInv
    <3>. QED BY <3>1, <3>2
  <2>. QED BY <2>1, <2>2, <2>3, <2>4, <2>5 DEF IInv
<1>14. ASSUME NEW c \in Cpus, InterruptReturn(c) PROVE IInv'
  <2> DEFINE F == [pc : {"run", "flags", "cli"}, lk : Locks \cup {NULL}, enabled : BOOLEAN]
             f == frames[c][1]
  <2>1. frames \in [Cpus -> Seq(F)] /\ Len(frames[c]) = 1 /\ f \in F
    <3>1. frames \in [Cpus -> Seq(F)] /\ frames[c] # <<>>
      BY <1>14 DEF IInv, TypeOK, InterruptReturn
    <3> HIDE DEF F
    <3>2. Len(frames[c]) \in Nat /\ Len(frames[c]) # 0
      BY <3>1, LenProperties, EmptySeq
    <3>3. Len(frames[c]) <= 1
      BY DEF IInv, FlagInv
    <3>4. Len(frames[c]) = 1
      <4>1. \A n \in Nat : n # 0 /\ n <= 1 => n = 1
        BY SMT
      <4>. QED BY <3>2, <3>3, <4>1
    <3>. QED BY SMT, <3>1, <3>4, ElementOfSeq
  <2>2. /\ frames' = [frames EXCEPT ![c] = <<>>]
        /\ pc' = [pc EXCEPT ![c] = f.pc] /\ lk' = [lk EXCEPT ![c] = f.lk]
        /\ enabled' = [enabled EXCEPT ![c] = f.enabled]
        /\ ints' = [ints EXCEPT ![c] = TRUE]
        /\ UNCHANGED <<layer, int_enabled, locked, cpu, held>>
        /\ pc[c] = "run" /\ held[c] = {}
    <3>s. frames[c] \in Seq(F) /\ frames[c] # <<>>
      BY <1>14, <2>1 DEF InterruptReturn
    <3> HIDE DEF F
    <3>t. Tail(frames[c]) \in Seq(F) /\ Len(Tail(frames[c])) = 0 /\ Head(frames[c]) = f
      BY SMT, <2>1, <3>s, HeadTailProperties
    <3>1. Tail(frames[c]) = <<>> /\ Head(frames[c]) = f
      BY <3>t, EmptySeq
    <3>. QED BY <1>14, <2>1, <3>1 DEF InterruptReturn
  <2>3. /\ f.pc \in {"run", "flags", "cli"} /\ f.lk \in Locks \cup {NULL} /\ f.enabled \in BOOLEAN
        /\ f.pc # "run" => f.lk \in Locks
        /\ f.pc = "cli" => f.enabled
    <3>1. 1 \in 1..Len(frames[c])
      BY SMT, <2>1
    <3>2. FrameInv(c)
      BY DEF IInv
    <3>3. /\ f.pc # "run" => f.lk \in Locks
          /\ f.pc = "cli" => f.enabled
      BY <3>1, <3>2 DEF FrameInv
    <3>. QED BY <2>1, <3>3
  <2> HIDE DEF f
  <2>4. TypeOK'
    <3>1. frames' \in [Cpus -> Seq(F)]
      BY <2>1, <2>2, EmptySeq
    <3>. QED BY <2>2, <2>3, <3>1 DEF IInv, TypeOK, Labels
  <2>5. LockInv'
    BY SMT, <2>2, <2>3 DEF IInv, TypeOK, LockInv, MutualExclusion
  <2>6. ASSUME NEW d \in Cpus PROVE CallInv(d)'
    BY <2>2, <2>3, <2>6 DEF IInv, TypeOK, CallInv
  <2>7. ASSUME NEW d \in Cpus PROVE FlagInv(d)'
    <3>1. CASE d # c
      BY <2>2, <2>7, <3>1 DEF IInv, TypeOK, FlagInv, Pending
    <3>2. CASE d = c
      <4>1. /\ frames'[c] = <<>> /\ Len(frames'[c]) = 0 /\ ints'[c]
            /\ pc'[c] \in {"run", "flags", "cli"}
            /\ (pc'[c] = "cli" => enabled'[c]) /\ enabled'[c] \in BOOLEAN
        BY <2>2, <2>3 DEF IInv, TypeOK
      <4>2. layer'[c] = 0 /\ IsFiniteSet(held'[c])
            /\ layer'[c] = Cardinality(held'[c]) + Pending(c)'
        <5>1. FlagInv(c) /\ Pending(c) = 0 /\ Pending(c)' = 0
          BY <2>2, <4>1 DEF IInv, Pending
        <5>2. Cardinality(held[c]) = 0 /\ IsFiniteSet(held[c])
          BY <2>2, <1>h
        <5>3. layer[c] = Cardinality(held[c]) + Pending(c)
          BY <5>1 DEF FlagInv
        <5>4. layer'[c] = layer[c] /\ held'[c] = held[c]
          BY <2>2
        <5>. QED BY SMT, <5>1, <5>2, <5>3, <5>4
      <4>3. pc'[c] # "count" /\ pc'[c] # "sti" /\ ~(layer'[c] > 0) /\ Len(frames'[c]) <= 1
        BY SMT, <4>1, <4>2
      <4>4. pc'[c] = "cli" => (enabled'[c] <=> ints'[c])
        BY <4>1
      <4>. QED BY <3>2, <4>1, <4>2, <4>3, <4>4 DEF FlagInv
    <3>. QED BY <3>1, <3>2
  <2>8. ASSUME NEW d \in Cpus PROVE FrameInv(d)'
    BY SMT, <2>2, <2>8 DEF IInv, TypeOK, FrameInv
  <2>. QED BY <2>4, <2>5, <2>6, <2>7, <2>8 DEF IInv
<1>15. CASE UNCHANGED vars
  <2>1. TypeOK' /\ LockInv'
    BY <1>15 DEF vars, IInv, TypeOK, LockInv, MutualExclusion
  <2>2. ASSUME NEW d \in Cpus PROVE CallInv(d)' /\ FrameInv(d)'
    BY <1>15 DEF vars, IInv, CallInv, FrameInv
  <2>3. ASSUME NEW d \in Cpus PROVE FlagInv(d)'
    BY <1>15 DEF vars, IInv, FlagInv, Pending
  <2>. QED BY <2>1, <2>2, <2>3 DEF IInv
<1>. QED
  BY <1>1, <1>2, <1>3, <1>4, <1>5, <1>6, <1>7, <1>8, <1>9, <1>10, <1>11, <1>12, <1>13, <1>14, <1>15 DEF Next, Step

\* The inductive invariant holds throughout.
THEOREM Invariance == Spec => []IInv
<1>1. Init => IInv
  BY InitInv
<1>2. IInv /\ [Next]_vars => IInv'
  BY StepInv
<1>. QED BY <1>1, <1>2, PTL DEF Spec

\* Type correctness; no interrupt layer underflows.
THEOREM TypeCorrect == Spec => []TypeOK
<1>1. IInv => TypeOK
  BY DEF IInv
<1>. QED BY <1>1, Invariance, PTL

\* acquire() and release() of spinlock.c give mutual exclusion.
THEOREM Exclusion == Spec => []MutualExclusion
<1>1. IInv => MutualExclusion
  BY DEF IInv, LockInv
<1>. QED BY <1>1, Invariance, PTL

\* holding() is right: no CPU panics over a lock it does not hold, none
\* spins on a lock it does.
THEOREM HoldingCorrect == Spec => []HoldingIsExact
<1>1. IInv => HoldingIsExact
  BY DEF IInv, CallInv, HoldingIsExact
<1>. QED BY <1>1, Invariance, PTL

\* A CPU that holds a lock cannot be interrupted.
THEOREM Masked == Spec => []MaskedWhileHeld
<1>1. ASSUME IInv, NEW c \in Cpus, held[c] # {} PROVE ~ints[c]
  <2>1. Cardinality(held[c]) \in Nat /\ Cardinality(held[c]) # 0
    BY <1>1, FS_CardinalityType, FS_EmptySet DEF IInv, FlagInv
  <2>2. layer[c] > 0
    BY SMT, <1>1, <2>1 DEF IInv, FlagInv, Pending
  <2>. QED BY <1>1, <2>2 DEF IInv, FlagInv
<1>2. IInv => MaskedWhileHeld
  BY <1>1 DEF MaskedWhileHeld
<1>. QED BY <1>2, Invariance, PTL

\* push_int_disable and pop_int_disable leave IF as they found it.
THEOREM FlagsRestored == Spec => []FlagRestored
<1>1. ASSUME IInv, NEW c \in Cpus, pc[c] = "run", held[c] = {}
      PROVE  layer[c] = 0 /\ (ints[c] <=> frames[c] = <<>>)
  <2>1. layer[c] = 0
    BY SMT, <1>1, FS_EmptySet DEF IInv, FlagInv, Pending
  <2>. QED BY <1>1, <2>1 DEF IInv, FlagInv
<1>2. IInv => FlagRestored
  BY <1>1 DEF FlagRestored
<1>. QED BY <1>2, Invariance, PTL

-----------------------------------------------------------------------------
(* The code implements the atomic locks of module LockSpec.                *)

\* Two functions with the same values.
LEMMA SameFunction ==
  ASSUME NEW S, NEW f, NEW g, f = [x \in S |-> f[x]], g = [x \in S |-> g[x]],
         \A x \in S : g[x] = f[x]
  PROVE  g = f
OBVIOUS

\* Two functions that differ at one place.
LEMMA ChangedFunction ==
  ASSUME NEW S, NEW f, NEW g, f = [x \in S |-> f[x]], g = [x \in S |-> g[x]],
         NEW c \in S, NEW e, g[c] = e, \A x \in S : x # c => g[x] = f[x]
  PROVE  g = [f EXCEPT ![c] = e]
BY SMT

\* The parts of the mapping are functions, before a step and after it.
LEMMA MappingParts ==
  /\ Flag = [c \in Cpus |-> Flag[c]] /\ Flag' = [c \in Cpus |-> Flag'[c]]
  /\ Nesting = [c \in Cpus |-> Nesting[c]] /\ Nesting' = [c \in Cpus |-> Nesting'[c]]
  /\ Saved = [c \in Cpus |-> Saved[c]] /\ Saved' = [c \in Cpus |-> Saved'[c]]
  /\ Winner = [l \in Locks |-> Winner[l]] /\ Winner' = [l \in Locks |-> Winner'[l]]
  /\ Wanted = [c \in Cpus |-> Wanted[c]] /\ Wanted' = [c \in Cpus |-> Wanted'[c]]
  /\ Stopped = [c \in Cpus |-> Stopped[c]] /\ Stopped' = [c \in Cpus |-> Stopped'[c]]
  /\ Handlers = [c \in Cpus |-> Handlers[c]] /\ Handlers' = [c \in Cpus |-> Handlers'[c]]
<1>1. Flag = [c \in Cpus |-> Flag[c]] /\ Flag' = [c \in Cpus |-> Flag'[c]]
  BY DEF Flag
<1>2. Nesting = [c \in Cpus |-> Nesting[c]] /\ Nesting' = [c \in Cpus |-> Nesting'[c]]
  BY DEF Nesting
<1>3. Saved = [c \in Cpus |-> Saved[c]] /\ Saved' = [c \in Cpus |-> Saved'[c]]
  BY DEF Saved
<1>4. Winner = [l \in Locks |-> Winner[l]] /\ Winner' = [l \in Locks |-> Winner'[l]]
  BY DEF Winner
<1>5. Wanted = [c \in Cpus |-> Wanted[c]] /\ Wanted' = [c \in Cpus |-> Wanted'[c]]
  BY DEF Wanted
<1>6. Stopped = [c \in Cpus |-> Stopped[c]] /\ Stopped' = [c \in Cpus |-> Stopped'[c]]
  BY DEF Stopped
<1>7. Handlers = [c \in Cpus |-> Handlers[c]] /\ Handlers' = [c \in Cpus |-> Handlers'[c]]
  BY DEF Handlers
<1>. QED BY <1>1, <1>2, <1>3, <1>4, <1>5, <1>6, <1>7

\* With mutual exclusion, the winner of a lock is the CPU that holds it.
LEMMA WinnerIs ==
  ASSUME NEW h \in [Cpus -> SUBSET Locks], \A c, d \in Cpus : c # d => h[c] \cap h[d] = {},
         NEW l, NEW o, o = IF \E c \in Cpus : l \in h[c] THEN CHOOSE c \in Cpus : l \in h[c] ELSE NULL
  PROVE  /\ \A c \in Cpus : o = c <=> l \in h[c]
         /\ o = NULL <=> \A c \in Cpus : l \notin h[c]
<1>0. NULL \notin Cpus
  BY SpinlockAssumption
<1>1. CASE \E c \in Cpus : l \in h[c]
  <2>1. o \in Cpus /\ l \in h[o]
    BY <1>1
  <2>2. \A c \in Cpus : l \in h[c] => c = o
    BY <2>1
  <2>. QED BY <1>0, <2>1, <2>2
<1>2. CASE ~ \E c \in Cpus : l \in h[c]
  BY <1>0, <1>2
<1>. QED BY <1>1, <1>2

\* The winners before a step and after it.
LEMMA Winners ==
  ASSUME IInv, IInv', NEW l \in Locks
  PROVE  /\ \A c \in Cpus : Winner[l] = c <=> l \in held[c]
         /\ Winner[l] = NULL <=> \A c \in Cpus : l \notin held[c]
         /\ \A c \in Cpus : Winner'[l] = c <=> l \in held'[c]
         /\ Winner'[l] = NULL <=> \A c \in Cpus : l \notin held'[c]
<1>1. /\ held \in [Cpus -> SUBSET Locks] /\ \A c, d \in Cpus : c # d => held[c] \cap held[d] = {}
      /\ held' \in [Cpus -> SUBSET Locks] /\ \A c, d \in Cpus : c # d => held'[c] \cap held'[d] = {}
  BY DEF IInv, TypeOK, LockInv, MutualExclusion
<1>2. /\ Winner[l] = IF \E c \in Cpus : l \in held[c] THEN CHOOSE c \in Cpus : l \in held[c] ELSE NULL
      /\ Winner'[l] = IF \E c \in Cpus : l \in held'[c] THEN CHOOSE c \in Cpus : l \in held'[c] ELSE NULL
  BY DEF Winner
<1>3. /\ \A c \in Cpus : Winner[l] = c <=> l \in held[c]
      /\ Winner[l] = NULL <=> \A c \in Cpus : l \notin held[c]
  BY <1>1, <1>2, WinnerIs
<1>4. /\ \A c \in Cpus : Winner'[l] = c <=> l \in held'[c]
      /\ Winner'[l] = NULL <=> \A c \in Cpus : l \notin held'[c]
  BY <1>1, <1>2, WinnerIs
<1>. QED BY <1>3, <1>4

\* What CPU d looks like through the mapping stays.
Same(d) ==
  /\ Flag'[d] = Flag[d] /\ Nesting'[d] = Nesting[d] /\ Saved'[d] = Saved[d]
  /\ Wanted'[d] = Wanted[d] /\ Stopped'[d] = Stopped[d] /\ Handlers'[d] = Handlers[d]

\* A step of a CPU leaves the state of the others alone.
LEMMA OtherCpus ==
  ASSUME TypeOK, NEW c \in Cpus, Step(c), NEW d \in Cpus, d # c
  PROVE  /\ ints'[d] = ints[d] /\ layer'[d] = layer[d] /\ int_enabled'[d] = int_enabled[d]
         /\ pc'[d] = pc[d] /\ lk'[d] = lk[d] /\ enabled'[d] = enabled[d]
         /\ frames'[d] = frames[d] /\ held'[d] = held[d]
<1>1. CASE \E l \in Locks : CallAcquire(c, l) \/ CallRelease(c, l)
  BY <1>1 DEF CallAcquire, CallRelease, Goto, TypeOK
<1>2. CASE ReadFlags(c) \/ Cli(c) \/ Count(c)
  BY <1>2 DEF ReadFlags, Cli, Count, Goto, TypeOK
<1>3. CASE AcquireCheck(c) \/ Xchg(c) \/ SetCpu(c)
  BY <1>3 DEF AcquireCheck, Xchg, SetCpu, Goto, TypeOK
<1>4. CASE ReleaseCheck(c) \/ ReleaseStores(c)
  BY <1>4 DEF ReleaseCheck, ReleaseStores, Goto, TypeOK
<1>5. CASE Pop(c) \/ Sti(c)
  BY <1>5 DEF Pop, Sti, Goto, TypeOK
<1>6. CASE Interrupt(c) \/ InterruptReturn(c)
  BY <1>6 DEF Interrupt, InterruptReturn, TypeOK
<1>. QED BY <1>1, <1>2, <1>3, <1>4, <1>5, <1>6 DEF Step

LEMMA OthersSame ==
  ASSUME TypeOK, NEW c \in Cpus, Step(c), NEW d \in Cpus, d # c
  PROVE  Same(d)
<1>1. /\ ints'[d] = ints[d] /\ layer'[d] = layer[d] /\ int_enabled'[d] = int_enabled[d]
      /\ pc'[d] = pc[d] /\ lk'[d] = lk[d] /\ enabled'[d] = enabled[d]
      /\ frames'[d] = frames[d] /\ held'[d] = held[d]
  BY OtherCpus
<1>2. Flag'[d] = Flag[d]
  BY <1>1 DEF Flag
<1>3. Nesting'[d] = Nesting[d]
  BY <1>1 DEF Nesting
<1>4. Saved'[d] = Saved[d]
  BY <1>1 DEF Saved
<1>5. Wanted'[d] = Wanted[d] /\ Stopped'[d] = Stopped[d]
  BY <1>1 DEF Wanted, Stopped, Entered
<1>6. Handlers'[d] = Handlers[d]
  BY <1>1 DEF Handlers
<1>. QED BY <1>2, <1>3, <1>4, <1>5, <1>6 DEF Same

\* The locks that nobody wins or gives up keep their winners.
LEMMA WinnersSame ==
  ASSUME IInv, IInv', held' = held
  PROVE  Winner' = Winner
<1>1. ASSUME NEW l \in Locks PROVE Winner'[l] = Winner[l]
  BY Winners DEF Winner
<1>. QED BY <1>1, MappingParts, SameFunction

\* A step that changes nothing of its CPU through the mapping is a stutter.
LEMMA Silent ==
  ASSUME IInv, IInv', NEW c \in Cpus, Step(c), held' = held, Same(c)
  PROVE  UNCHANGED Abs!lockVars
<1>1. \A d \in Cpus : Same(d)
  BY OthersSame DEF IInv
<1>2. Winner' = Winner
  BY WinnersSame
<1>3. Flag' = Flag
  BY <1>1, MappingParts, SameFunction DEF Same
<1>4. Nesting' = Nesting
  BY <1>1, MappingParts, SameFunction DEF Same
<1>5. Saved' = Saved
  BY <1>1, MappingParts, SameFunction DEF Same
<1>6. Wanted' = Wanted
  BY <1>1, MappingParts, SameFunction DEF Same
<1>7. Stopped' = Stopped
  BY <1>1, MappingParts, SameFunction DEF Same
<1>8. Handlers' = Handlers
  BY <1>1, MappingParts, SameFunction DEF Same
<1>. QED BY <1>2, <1>3, <1>4, <1>5, <1>6, <1>7, <1>8 DEF Abs!lockVars, Abs!cpuVars

\* The steps between the decisive ones.
LEMMA CallSilent ==
  ASSUME IInv, NEW c \in Cpus,
         (\E l \in Locks : CallAcquire(c, l) \/ CallRelease(c, l)) \/ ReadFlags(c) \/ ReleaseCheck(c)
           \/ SetCpu(c) \/ (pc[c] = "clear" /\ ReleaseStores(c))
  PROVE  held' = held /\ Same(c)
<1>1. /\ pc[c] \notin {"count", "pop", "sti"} /\ pc'[c] \notin {"count", "pop", "sti"}
      /\ ~Entered(c) /\ ~Entered(c)' /\ UNCHANGED <<ints, layer, int_enabled, frames, held>>
  BY DEF IInv, TypeOK, CallAcquire, CallRelease, ReadFlags, ReleaseCheck, SetCpu, ReleaseStores, Goto, Entered
<1>. QED BY <1>1 DEF Same, Flag, Nesting, Saved, Wanted, Stopped, Handlers

LEMMA AcquireCheckSilent ==
  ASSUME IInv, NEW c \in Cpus, AcquireCheck(c)
  PROVE  held' = held /\ Same(c)
<1>1. /\ pc[c] \notin {"count", "pop", "sti"} /\ pc'[c] \notin {"count", "pop", "sti"}
      /\ Entered(c) /\ Entered(c)' /\ UNCHANGED <<ints, layer, int_enabled, lk, frames, held>>
  BY DEF IInv, TypeOK, AcquireCheck, Goto, Entered
<1>. QED BY <1>1 DEF Same, Flag, Nesting, Saved, Wanted, Stopped, Handlers

LEMMA CountSilent ==
  ASSUME IInv, NEW c \in Cpus, Count(c)
  PROVE  held' = held /\ Same(c)
<1>1. /\ pc[c] = "count" /\ pc'[c] = "acquire_locked"
      /\ Entered(c) /\ Entered(c)' /\ UNCHANGED <<ints, lk, frames, held>>
      /\ layer'[c] = layer[c] + 1
      /\ int_enabled'[c] = IF layer[c] = 0 THEN enabled[c] ELSE int_enabled[c]
  BY DEF IInv, TypeOK, Count, Goto, Entered
<1>. QED BY <1>1 DEF Same, Flag, Nesting, Saved, Wanted, Stopped, Handlers

LEMMA PopSilent ==
  ASSUME IInv, NEW c \in Cpus, Pop(c) \/ Sti(c)
  PROVE  held' = held /\ Same(c)
<1>1. CASE Pop(c)
  <2>1. /\ pc[c] = "pop" /\ ~Entered(c) /\ ~Entered(c)'
        /\ pc'[c] = IF layer[c] = 1 /\ int_enabled[c] THEN "sti" ELSE "run"
        /\ UNCHANGED <<ints, int_enabled, frames, held>> /\ layer'[c] = layer[c] - 1
    BY <1>1 DEF IInv, TypeOK, Pop, Goto, Entered
  <2>. QED BY <2>1 DEF Same, Flag, Nesting, Saved, Wanted, Stopped, Handlers
<1>2. CASE Sti(c)
  <2>1. /\ pc[c] = "sti" /\ pc'[c] = "run" /\ ~Entered(c) /\ ~Entered(c)' /\ ints'[c] = TRUE
        /\ UNCHANGED <<layer, int_enabled, frames, held>>
    BY <1>2 DEF IInv, TypeOK, Sti, Goto, Entered
  <2>. QED BY <2>1 DEF Same, Flag, Nesting, Saved, Wanted, Stopped, Handlers
<1>. QED BY <1>1, <1>2

\* The cli of acquire() is the step that enters its spin: the flag it saves is
\* the one that was read before, for no interrupt between the two changes it.
LEMMA CliEnters ==
  ASSUME IInv, IInv', NEW c \in Cpus, Cli(c)
  PROVE  Abs!Lock(c, lk[c]) /\ lk[c] \in Locks
<1>1. /\ pc[c] = "cli" /\ pc'[c] = "count" /\ ints'[c] = FALSE /\ ~Entered(c) /\ Entered(c)'
      /\ UNCHANGED <<layer, int_enabled, lk, enabled, frames, held>>
  BY DEF IInv, TypeOK, Cli, Goto, Entered
<1>2. lk[c] \in Locks /\ enabled[c] = ints[c] /\ ints[c] \in BOOLEAN
  <2>1. lk[c] \in Locks
    BY <1>1 DEF IInv, CallInv
  <2>2. enabled[c] <=> ints[c]
    BY <1>1 DEF IInv, FlagInv
  <2>3. ints[c] \in BOOLEAN /\ enabled[c] \in BOOLEAN
    BY DEF IInv, TypeOK
  <2>. QED BY <2>1, <2>2, <2>3
<1>3. \A d \in Cpus : d # c => Same(d)
  BY OthersSame DEF IInv, Step
<1>4. Winner' = Winner
  BY <1>1, WinnersSame
<1>5. Flag[c] = ints[c] /\ Nesting[c] = layer[c] /\ Saved[c] = int_enabled[c] /\ Wanted[c] = NULL /\ Stopped[c] = NULL
  BY <1>1, <1>2 DEF Flag, Nesting, Saved, Wanted, Stopped
<1>6. /\ Flag'[c] = FALSE /\ Nesting'[c] = layer[c] + 1 /\ Wanted'[c] = lk[c]
      /\ Saved'[c] = IF layer[c] = 0 THEN ints[c] ELSE int_enabled[c]
      /\ Stopped'[c] = IF lk[c] \in held[c] THEN "acquire" ELSE NULL
      /\ Handlers'[c] = Handlers[c]
  BY <1>1, <1>2 DEF Flag, Nesting, Saved, Wanted, Stopped, Handlers
<1>7. Winner[lk[c]] = c <=> lk[c] \in held[c]
  BY <1>2, Winners
<1>8. Flag' = [Flag EXCEPT ![c] = FALSE]
  <2>1. \A d \in Cpus : d # c => Flag'[d] = Flag[d]
    BY <1>3 DEF Same
  <2>. QED BY <1>6, <2>1, MappingParts, ChangedFunction
<1>9. Nesting' = [Nesting EXCEPT ![c] = Nesting[c] + 1]
  <2>1. \A d \in Cpus : d # c => Nesting'[d] = Nesting[d]
    BY <1>3 DEF Same
  <2>. QED BY <1>5, <1>6, <2>1, MappingParts, ChangedFunction
<1>10. Saved' = [Saved EXCEPT ![c] = IF Nesting[c] = 0 THEN Flag[c] ELSE Saved[c]]
  <2>1. \A d \in Cpus : d # c => Saved'[d] = Saved[d]
    BY <1>3 DEF Same
  <2>. QED BY <1>5, <1>6, <2>1, MappingParts, ChangedFunction
<1>11. Wanted' = [Wanted EXCEPT ![c] = lk[c]]
  <2>1. \A d \in Cpus : d # c => Wanted'[d] = Wanted[d]
    BY <1>3 DEF Same
  <2>. QED BY <1>6, <2>1, MappingParts, ChangedFunction
<1>12. Stopped' = [Stopped EXCEPT ![c] = IF Winner[lk[c]] = c THEN "acquire" ELSE Stopped[c]]
  <2>1. \A d \in Cpus : d # c => Stopped'[d] = Stopped[d]
    BY <1>3 DEF Same
  <2>. QED BY <1>5, <1>6, <1>7, <2>1, MappingParts, ChangedFunction
<1>13. Handlers' = Handlers
  <2>1. \A d \in Cpus : Handlers'[d] = Handlers[d]
    BY <1>3, <1>6 DEF Same
  <2>. QED BY <2>1, MappingParts, SameFunction
<1>. QED BY <1>2, <1>4, <1>5, <1>8, <1>9, <1>10, <1>11, <1>12, <1>13
            DEF Abs!Lock, Abs!AcquireEnter, Abs!PushIntDisable

\* The exchange that finds the lock free takes it.
LEMMA XchgTakes ==
  ASSUME IInv, IInv', NEW c \in Cpus, Xchg(c)
  PROVE  Abs!Lock(c, lk[c]) /\ lk[c] \in Locks
<1>1. /\ pc[c] = "xchg" /\ pc'[c] = "set_cpu" /\ Entered(c) /\ ~Entered(c)' /\ ~locked[lk[c]]
      /\ UNCHANGED <<ints, layer, int_enabled, frames>>
      /\ held'[c] = held[c] \cup {lk[c]} /\ \A d \in Cpus : d # c => held'[d] = held[d]
  BY DEF IInv, TypeOK, Xchg, Goto, Entered
<1>2. lk[c] \in Locks /\ lk[c] \notin held[c] /\ \A d \in Cpus : lk[c] \notin held[d]
  BY <1>1 DEF IInv, CallInv, LockInv
<1>3. \A d \in Cpus : d # c => Same(d)
  BY OthersSame DEF IInv, Step
<1>4. Wanted[c] = lk[c] /\ Wanted'[c] = NULL /\ Stopped[c] = NULL /\ Stopped'[c] = NULL
  BY <1>1, <1>2 DEF Wanted, Stopped
<1>5. Flag'[c] = Flag[c] /\ Nesting'[c] = Nesting[c] /\ Saved'[c] = Saved[c] /\ Handlers'[c] = Handlers[c]
  BY <1>1 DEF Flag, Nesting, Saved, Handlers
<1>6. Winner[lk[c]] = NULL /\ Winner'[lk[c]] = c
  BY <1>1, <1>2, Winners
<1>7. ASSUME NEW l \in Locks, l # lk[c] PROVE Winner'[l] = Winner[l]
  <2>1. \A d \in Cpus : l \in held'[d] <=> l \in held[d]
    BY <1>1, <1>7
  <2>2. CASE \E d \in Cpus : l \in held[d]
    <3>1. PICK d \in Cpus : l \in held[d]
      BY <2>2
    <3>2. Winner[l] = d /\ Winner'[l] = d
      BY <2>1, <3>1, Winners
    <3>. QED BY <3>2
  <2>3. CASE ~ \E d \in Cpus : l \in held[d]
    <3>1. Winner[l] = NULL /\ Winner'[l] = NULL
      BY <2>1, <2>3, Winners
    <3>. QED BY <3>1
  <2>. QED BY <2>2, <2>3
<1>8. Winner' = [Winner EXCEPT ![lk[c]] = c]
  BY <1>2, <1>6, <1>7, MappingParts, ChangedFunction
<1>9. Wanted' = [Wanted EXCEPT ![c] = NULL]
  <2>1. \A d \in Cpus : d # c => Wanted'[d] = Wanted[d]
    BY <1>3 DEF Same
  <2>. QED BY <1>4, <2>1, MappingParts, ChangedFunction
<1>10. Flag' = Flag
  <2>1. \A d \in Cpus : Flag'[d] = Flag[d]
    BY <1>3, <1>5 DEF Same
  <2>. QED BY <2>1, MappingParts, SameFunction
<1>11. Nesting' = Nesting
  <2>1. \A d \in Cpus : Nesting'[d] = Nesting[d]
    BY <1>3, <1>5 DEF Same
  <2>. QED BY <2>1, MappingParts, SameFunction
<1>12. Saved' = Saved
  <2>1. \A d \in Cpus : Saved'[d] = Saved[d]
    BY <1>3, <1>5 DEF Same
  <2>. QED BY <2>1, MappingParts, SameFunction
<1>13. Stopped' = Stopped
  <2>1. \A d \in Cpus : Stopped'[d] = Stopped[d]
    BY <1>3, <1>4 DEF Same
  <2>. QED BY <2>1, MappingParts, SameFunction
<1>14. Handlers' = Handlers
  <2>1. \A d \in Cpus : Handlers'[d] = Handlers[d]
    BY <1>3, <1>5 DEF Same
  <2>. QED BY <2>1, MappingParts, SameFunction
<1>. QED BY <1>2, <1>4, <1>6, <1>8, <1>9, <1>10, <1>11, <1>12, <1>13, <1>14 DEF Abs!Lock, Abs!AcquireTake

\* The store that clears locked is the release: the layer it will count down and
\* the sti it may do are no longer seen by another CPU.
LEMMA StoreReleases ==
  ASSUME IInv, IInv', NEW c \in Cpus, pc[c] = "store", ReleaseStores(c)
  PROVE  Abs!Unlock(c, lk[c]) /\ lk[c] \in Locks
<1>1. /\ pc'[c] = "pop" /\ ~Entered(c) /\ ~Entered(c)'
      /\ UNCHANGED <<ints, layer, int_enabled, frames>>
      /\ held'[c] = held[c] \ {lk[c]} /\ \A d \in Cpus : d # c => held'[d] = held[d]
  BY DEF IInv, TypeOK, ReleaseStores, Goto, Entered
<1>2. lk[c] \in Locks /\ lk[c] \in held[c] /\ \A d \in Cpus : d # c => lk[c] \notin held[d]
  BY <1>1 DEF IInv, CallInv, LockInv, MutualExclusion
<1>3. \A d \in Cpus : d # c => Same(d)
  BY OthersSame DEF IInv, Step
<1>4. Wanted[c] = NULL /\ Wanted'[c] = NULL /\ Stopped[c] = NULL /\ Stopped'[c] = NULL
  BY <1>1 DEF Wanted, Stopped
<1>5. /\ Flag[c] = ints[c] /\ Nesting[c] = layer[c] /\ Saved[c] = int_enabled[c] /\ Saved'[c] = Saved[c]
      /\ Nesting'[c] = layer[c] - 1 /\ Handlers'[c] = Handlers[c]
  <2>1. ints[c] \in BOOLEAN
    BY DEF IInv, TypeOK
  <2>. QED BY <1>1, <2>1 DEF Flag, Nesting, Saved, Handlers
<1>6. Flag'[c] = (ints[c] \/ (layer[c] = 1 /\ int_enabled[c]))
  BY <1>1 DEF Flag
<1>7. Winner[lk[c]] = c /\ Winner'[lk[c]] = NULL
  BY <1>1, <1>2, Winners
<1>8. ASSUME NEW l \in Locks, l # lk[c] PROVE Winner'[l] = Winner[l]
  <2>1. \A d \in Cpus : l \in held'[d] <=> l \in held[d]
    BY <1>1, <1>8
  <2>2. CASE \E d \in Cpus : l \in held[d]
    <3>1. PICK d \in Cpus : l \in held[d]
      BY <2>2
    <3>2. Winner[l] = d /\ Winner'[l] = d
      BY <2>1, <3>1, Winners
    <3>. QED BY <3>2
  <2>3. CASE ~ \E d \in Cpus : l \in held[d]
    <3>1. Winner[l] = NULL /\ Winner'[l] = NULL
      BY <2>1, <2>3, Winners
    <3>. QED BY <3>1
  <2>. QED BY <2>2, <2>3
<1>9. Winner' = [Winner EXCEPT ![lk[c]] = NULL]
  BY <1>2, <1>7, <1>8, MappingParts, ChangedFunction
<1>10. Nesting' = [Nesting EXCEPT ![c] = Nesting[c] - 1]
  <2>1. \A d \in Cpus : d # c => Nesting'[d] = Nesting[d]
    BY <1>3 DEF Same
  <2>. QED BY <1>5, <2>1, MappingParts, ChangedFunction
<1>11. Flag' = [Flag EXCEPT ![c] = Flag[c] \/ (Nesting[c] = 1 /\ Saved[c])]
  <2>1. \A d \in Cpus : d # c => Flag'[d] = Flag[d]
    BY <1>3 DEF Same
  <2>. QED BY <1>5, <1>6, <2>1, MappingParts, ChangedFunction
<1>12. Saved' = Saved
  <2>1. \A d \in Cpus : Saved'[d] = Saved[d]
    BY <1>3, <1>5 DEF Same
  <2>. QED BY <2>1, MappingParts, SameFunction
<1>13. Wanted' = Wanted
  <2>1. \A d \in Cpus : Wanted'[d] = Wanted[d]
    BY <1>3, <1>4 DEF Same
  <2>. QED BY <2>1, MappingParts, SameFunction
<1>14. Stopped' = Stopped
  <2>1. \A d \in Cpus : Stopped'[d] = Stopped[d]
    BY <1>3, <1>4 DEF Same
  <2>. QED BY <2>1, MappingParts, SameFunction
<1>15. Handlers' = Handlers
  <2>1. \A d \in Cpus : Handlers'[d] = Handlers[d]
    BY <1>3, <1>5 DEF Same
  <2>. QED BY <2>1, MappingParts, SameFunction
<1>. QED BY <1>2, <1>4, <1>7, <1>9, <1>10, <1>11, <1>12, <1>13, <1>14, <1>15
            DEF Abs!Unlock, Abs!Release, Abs!PopIntDisable

\* An interrupt comes between two atomic steps, never inside one.
LEMMA InterruptEnters ==
  ASSUME IInv, IInv', NEW c \in Cpus, Interrupt(c)
  PROVE  Abs!Interrupt(c)
<1>1. /\ ints[c] = TRUE /\ ints'[c] = FALSE /\ pc[c] \in {"run", "flags", "cli"} /\ pc'[c] = "run"
      /\ ~Entered(c) /\ ~Entered(c)' /\ UNCHANGED <<layer, int_enabled, held>>
  BY DEF IInv, TypeOK, FlagInv, Interrupt, Entered
<1>2. Len(frames'[c]) = Len(frames[c]) + 1
  <2>1. frames[c] \in Seq([pc : {"run", "flags", "cli"}, lk : Locks \cup {NULL}, enabled : BOOLEAN])
    BY DEF IInv, TypeOK
  <2>2. frames'[c] = <<[pc |-> pc[c], lk |-> lk[c], enabled |-> enabled[c]]>> \o frames[c]
    BY DEF IInv, TypeOK, Interrupt
  <2>. QED BY SMT, <2>1, <2>2
<1>3. \A d \in Cpus : d # c => Same(d)
  BY OthersSame DEF IInv, Step
<1>4. Winner' = Winner
  BY <1>1, WinnersSame
<1>5. /\ Flag[c] = TRUE /\ Flag'[c] = FALSE /\ Nesting'[c] = Nesting[c] /\ Saved'[c] = Saved[c]
      /\ Wanted'[c] = Wanted[c] /\ Stopped'[c] = Stopped[c] /\ Handlers'[c] = Handlers[c] + 1
  BY <1>1, <1>2 DEF Flag, Nesting, Saved, Wanted, Stopped, Handlers
<1>6. Flag' = [Flag EXCEPT ![c] = FALSE]
  <2>1. \A d \in Cpus : d # c => Flag'[d] = Flag[d]
    BY <1>3 DEF Same
  <2>. QED BY <1>5, <2>1, MappingParts, ChangedFunction
<1>7. Handlers' = [Handlers EXCEPT ![c] = Handlers[c] + 1]
  <2>1. \A d \in Cpus : d # c => Handlers'[d] = Handlers[d]
    BY <1>3 DEF Same
  <2>. QED BY <1>5, <2>1, MappingParts, ChangedFunction
<1>8. Nesting' = Nesting
  <2>1. \A d \in Cpus : Nesting'[d] = Nesting[d]
    BY <1>3, <1>5 DEF Same
  <2>. QED BY <2>1, MappingParts, SameFunction
<1>9. Saved' = Saved
  <2>1. \A d \in Cpus : Saved'[d] = Saved[d]
    BY <1>3, <1>5 DEF Same
  <2>. QED BY <2>1, MappingParts, SameFunction
<1>10. Wanted' = Wanted
  <2>1. \A d \in Cpus : Wanted'[d] = Wanted[d]
    BY <1>3, <1>5 DEF Same
  <2>. QED BY <2>1, MappingParts, SameFunction
<1>11. Stopped' = Stopped
  <2>1. \A d \in Cpus : Stopped'[d] = Stopped[d]
    BY <1>3, <1>5 DEF Same
  <2>. QED BY <2>1, MappingParts, SameFunction
<1>. QED BY <1>4, <1>5, <1>6, <1>7, <1>8, <1>9, <1>10, <1>11 DEF Abs!Interrupt

\* A handler returns with no lock held, to where interrupts were on.
LEMMA InterruptLeaves ==
  ASSUME IInv, IInv', NEW c \in Cpus, InterruptReturn(c)
  PROVE  Abs!InterruptReturn(c)
<1>0. frames[c] \in Seq([pc : {"run", "flags", "cli"}, lk : Locks \cup {NULL}, enabled : BOOLEAN])
  BY DEF IInv, TypeOK
<1>1. /\ pc[c] = "run" /\ frames[c] # <<>> /\ held[c] = {} /\ UNCHANGED <<layer, int_enabled, held>>
      /\ frames'[c] = Tail(frames[c]) /\ ints'[c] = TRUE /\ pc'[c] = Head(frames[c]).pc
  BY DEF IInv, TypeOK, InterruptReturn
<1>2. Len(frames'[c]) = Len(frames[c]) - 1 /\ Len(frames[c]) > 0 /\ pc'[c] \in {"run", "flags", "cli"}
  <2>1. Len(frames[c]) > 0 /\ Len(Tail(frames[c])) = Len(frames[c]) - 1
    BY SMTT(30), <1>0, <1>1
  <2>2. Head(frames[c]) \in [pc : {"run", "flags", "cli"}, lk : Locks \cup {NULL}, enabled : BOOLEAN]
    BY <1>0, <1>1, HeadTailProperties
  <2>3. Head(frames[c]).pc \in {"run", "flags", "cli"}
    BY <2>2
  <2>. QED BY <1>1, <2>1, <2>3
<1>3. \A d \in Cpus : d # c => Same(d)
  BY OthersSame DEF IInv, Step
<1>4. Winner' = Winner /\ \A l \in Locks : Winner[l] # c
  BY <1>1, WinnersSame, Winners
<1>5. ~Entered(c) /\ ~Entered(c)'
  BY <1>1, <1>2 DEF Entered
<1>6. /\ Flag'[c] = TRUE /\ Nesting'[c] = Nesting[c] /\ Saved'[c] = Saved[c]
      /\ Wanted[c] = NULL /\ Stopped[c] = NULL /\ Wanted'[c] = Wanted[c] /\ Stopped'[c] = Stopped[c]
      /\ Handlers'[c] = Handlers[c] - 1 /\ Handlers[c] > 0
  BY <1>1, <1>2, <1>5 DEF Flag, Nesting, Saved, Wanted, Stopped, Handlers
<1>7. Flag' = [Flag EXCEPT ![c] = TRUE]
  <2>1. \A d \in Cpus : d # c => Flag'[d] = Flag[d]
    BY <1>3 DEF Same
  <2>. QED BY <1>6, <2>1, MappingParts, ChangedFunction
<1>8. Handlers' = [Handlers EXCEPT ![c] = Handlers[c] - 1]
  <2>1. \A d \in Cpus : d # c => Handlers'[d] = Handlers[d]
    BY <1>3 DEF Same
  <2>. QED BY <1>6, <2>1, MappingParts, ChangedFunction
<1>9. Nesting' = Nesting
  <2>1. \A d \in Cpus : Nesting'[d] = Nesting[d]
    BY <1>3, <1>6 DEF Same
  <2>. QED BY <2>1, MappingParts, SameFunction
<1>10. Saved' = Saved
  <2>1. \A d \in Cpus : Saved'[d] = Saved[d]
    BY <1>3, <1>6 DEF Same
  <2>. QED BY <2>1, MappingParts, SameFunction
<1>11. Wanted' = Wanted
  <2>1. \A d \in Cpus : Wanted'[d] = Wanted[d]
    BY <1>3, <1>6 DEF Same
  <2>. QED BY <2>1, MappingParts, SameFunction
<1>12. Stopped' = Stopped
  <2>1. \A d \in Cpus : Stopped'[d] = Stopped[d]
    BY <1>3, <1>6 DEF Same
  <2>. QED BY <2>1, MappingParts, SameFunction
<1>. QED BY <1>4, <1>6, <1>7, <1>8, <1>9, <1>10, <1>11, <1>12 DEF Abs!InterruptReturn

\* At the start no lock is held and interrupts are on.
LEMMA InitRefines == Init => Abs!Init
<1> SUFFICES ASSUME Init PROVE Abs!Init
  OBVIOUS
<1>1. Flag = [c \in Cpus |-> TRUE] /\ Nesting = [c \in Cpus |-> 0] /\ Saved = [c \in Cpus |-> FALSE]
  BY DEF Init, Flag, Nesting, Saved
<1>2. Wanted = [c \in Cpus |-> NULL] /\ Stopped = [c \in Cpus |-> NULL]
  BY DEF Init, Wanted, Stopped, Entered
<1>3. Winner = [l \in Locks |-> NULL]
  BY DEF Init, Winner
<1>4. Handlers = [c \in Cpus |-> 0]
  BY SMT DEF Init, Handlers
<1>. QED BY <1>1, <1>2, <1>3, <1>4 DEF Abs!Init

\* Every step is one of LockSpec or a stutter.
LEMMA StepRefines == IInv /\ IInv' /\ [Next]_vars => [Abs!Next]_(Abs!lockVars)
<1> SUFFICES ASSUME IInv, IInv', [Next]_vars PROVE Abs!Next \/ UNCHANGED Abs!lockVars
  OBVIOUS
<1>1. CASE UNCHANGED vars
  <2>1. Flag' = Flag /\ Nesting' = Nesting /\ Saved' = Saved
    BY <1>1 DEF vars, Flag, Nesting, Saved
  <2>2. Wanted' = Wanted /\ Stopped' = Stopped /\ Handlers' = Handlers
    BY <1>1 DEF vars, Wanted, Stopped, Handlers, Entered
  <2>3. Winner' = Winner
    BY <1>1, WinnersSame DEF vars
  <2>. QED BY <2>1, <2>2, <2>3 DEF Abs!lockVars, Abs!cpuVars
<1>2. ASSUME NEW c \in Cpus, Step(c) PROVE Abs!Next \/ UNCHANGED Abs!lockVars
  <2>1. CASE held' = held /\ Same(c)
    BY <1>2, <2>1, Silent
  <2>2. CASE Cli(c)
    BY <2>2, CliEnters DEF Abs!Next
  <2>3. CASE Xchg(c)
    BY <2>3, XchgTakes DEF Abs!Next
  <2>4. CASE ReleaseStores(c)
    <3>1. pc[c] \in {"clear", "store"}
      BY <2>4 DEF ReleaseStores, Goto
    <3>2. CASE pc[c] = "clear"
      BY <2>1, <2>4, <3>2, CallSilent
    <3>3. CASE pc[c] = "store"
      BY <2>4, <3>3, StoreReleases DEF Abs!Next
    <3>. QED BY <3>1, <3>2, <3>3
  <2>5. CASE Interrupt(c)
    BY <2>5, InterruptEnters DEF Abs!Next
  <2>6. CASE InterruptReturn(c)
    BY <2>6, InterruptLeaves DEF Abs!Next
  <2>7. CASE \/ \E l \in Locks : CallAcquire(c, l) \/ CallRelease(c, l)
             \/ ReadFlags(c) \/ ReleaseCheck(c) \/ SetCpu(c)
    BY <2>1, <2>7, CallSilent
  <2>8. CASE AcquireCheck(c) \/ Count(c) \/ Pop(c) \/ Sti(c)
    BY <2>1, <2>8, AcquireCheckSilent, CountSilent, PopSilent
  <2>. QED BY <1>2, <2>2, <2>3, <2>4, <2>5, <2>6, <2>7, <2>8 DEF Step
<1>. QED BY <1>1, <1>2 DEF Next

\* acquire() and release(), one memory access or flag change at a time and with
\* interrupts between, implement the atomic locks of LockSpec, for every set of
\* CPUs and locks.
THEOREM Refinement == Spec => Implements
<1>1. Init => Abs!Init
  BY InitRefines
<1>2. IInv /\ IInv' /\ [Next]_vars => [Abs!Next]_(Abs!lockVars)
  BY StepRefines
<1>. QED BY <1>1, <1>2, Invariance, PTL DEF Spec, Implements, Abs!Spec
=============================================================================
