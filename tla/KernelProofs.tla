---------------------------- MODULE KernelProofs ----------------------------
(***************************************************************************)
(* The theorems about the kernel of module Kernel, for every number of     *)
(* CPUs and processes: the invariant IInv is inductive, and the safety     *)
(* properties follow from it.                                              *)
(*                                                                         *)
(* IInv says, for each label of the code, which locks the CPU there holds  *)
(* and whether interrupts may be on; where each CPU runs; what a thread's  *)
(* trap frames may be; and that the queues, the CPUs and mpmain partition  *)
(* the processes.                                                          *)
(*                                                                         *)
(* The last part is the console's input: no wakeup is lost, no edge of the *)
(* UART is lost, and no character is lost or reordered. And the kernel     *)
(* stacks: traps nest two deep at most.                                    *)
(***************************************************************************)
EXTENDS Kernel, TLAPS

\* The prover of the steps that name no other.
USE ZenonT(30)

-----------------------------------------------------------------------------
(* Sets of up to two elements.                                             *)

\* The recursion that Cardinality(S) solves.
Counts(S, f) == f = [T \in SUBSET S |-> IF T = {} THEN 0 ELSE 1 + f[T \ {CHOOSE x : x \in T}]]

\* Cardinality(S), where its recursion has a solution.
LEMMA CardinalityCounts ==
  ASSUME NEW S, NEW g, Counts(S, g)
  PROVE  \E f : Counts(S, f) /\ Cardinality(S) = f[S]
<1> DEFINE f == CHOOSE h : Counts(S, h)
<1>1. Counts(S, f)
  OBVIOUS
<1>2. Cardinality(S) = f[S]
  BY DEF Cardinality, Counts
<1>. QED BY <1>1, <1>2

\* No element, one, two.
LEMMA SmallSets ==
  /\ Cardinality({}) = 0
  /\ \A a : Cardinality({a}) = 1
  /\ \A a, b : a # b => Cardinality({a, b}) = 2
<1>1. ASSUME NEW S, NEW T \in SUBSET S, T # {} PROVE (CHOOSE x : x \in T) \in T
  BY <1>1
<1>2. Cardinality({}) = 0
  <2> DEFINE g == [T \in SUBSET {} |-> 0]
  <2>1. Counts({}, g)
    BY DEF Counts
  <2>2. PICK f : Counts({}, f) /\ Cardinality({}) = f[{}]
    BY <2>1, CardinalityCounts
  <2>. QED BY <2>2 DEF Counts
<1>3. ASSUME NEW a PROVE Cardinality({a}) = 1
  <2> DEFINE g == [T \in SUBSET {a} |-> IF T = {} THEN 0 ELSE 1]
  <2>1. \A T \in SUBSET {a} : T # {} => T = {a} /\ T \ {CHOOSE x : x \in T} = {}
    OBVIOUS
  <2>2. g[{}] = 0 /\ 1 + 0 = 1
    BY SMT
  <2>3. Counts({a}, g)
    <3>1. ASSUME NEW T \in SUBSET {a}
          PROVE  (IF T = {} THEN 0 ELSE 1) = IF T = {} THEN 0 ELSE 1 + g[T \ {CHOOSE x : x \in T}]
      <4> HIDE DEF g
      <4>. QED BY <2>1, <2>2
    <3>. QED BY <3>1 DEF Counts
  <2>4. PICK f : Counts({a}, f) /\ Cardinality({a}) = f[{a}]
    <3> HIDE DEF g
    <3>. QED BY <2>3, CardinalityCounts
  <2>5. f[{}] = 0
    BY <2>4 DEF Counts
  <2>6. f[{a}] = 1 + f[{a} \ {CHOOSE x : x \in {a}}]
    BY <2>4 DEF Counts
  <2>7. {a} \ {CHOOSE x : x \in {a}} = {}
    OBVIOUS
  <2>8. f[{a}] = 1 + f[{}]
    BY <2>6, <2>7
  <2>. QED BY <2>2, <2>4, <2>5, <2>8
<1>4. ASSUME NEW a, NEW b, a # b PROVE Cardinality({a, b}) = 2
  <2> DEFINE S == {a, b}
             g == [T \in SUBSET S |-> IF T = {} THEN 0 ELSE IF T = S THEN 2 ELSE 1]
  <2>1. \A T \in SUBSET S : \/ T = {}
                            \/ T \in {{a}, {b}} /\ T # S /\ T \ {CHOOSE x : x \in T} = {}
                            \/ T = S /\ T \ {CHOOSE x : x \in T} \in {{a}, {b}}
    <3> SUFFICES ASSUME NEW T \in SUBSET S
        PROVE  \/ T = {}
               \/ T \in {{a}, {b}} /\ T # S /\ T \ {CHOOSE x : x \in T} = {}
               \/ T = S /\ T \ {CHOOSE x : x \in T} \in {{a}, {b}}
      OBVIOUS
    <3>1. CASE a \in T /\ b \in T
      <4>1. T = S /\ T # {}
        BY <3>1
      <4>2. (CHOOSE x : x \in T) \in S
        BY <4>1
      <4>. QED BY <1>4, <4>1, <4>2
    <3>2. CASE a \in T /\ b \notin T
      <4>1. T = {a} /\ T # S
        BY <1>4, <3>2
      <4>. QED BY <4>1
    <3>3. CASE a \notin T /\ b \in T
      <4>1. T = {b} /\ T # S
        BY <1>4, <3>3
      <4>. QED BY <4>1
    <3>4. CASE a \notin T /\ b \notin T
      BY <3>4
    <3>. QED BY <3>1, <3>2, <3>3, <3>4
  <2>2. /\ {} # S /\ {a} # S /\ {b} # S /\ {a} # {} /\ {b} # {} /\ S # {}
        /\ {{}, {a}, {b}, S} \subseteq SUBSET S
    <3>1. {} # S /\ {a} # {} /\ {b} # {} /\ S # {}
      OBVIOUS
    <3>2. {a} # S /\ {b} # S
      BY <1>4
    <3>3. {{}, {a}, {b}, S} \subseteq SUBSET S
      OBVIOUS
    <3>. QED BY <3>1, <3>2, <3>3
  <2>3. g[{}] = 0 /\ g[{a}] = 1 /\ g[{b}] = 1
    BY <2>2
  <2>4. 1 + 0 = 1 /\ 1 + 1 = 2
    BY SMT
  <2>5. Counts(S, g)
    <3>1. ASSUME NEW T \in SUBSET S
          PROVE  (IF T = {} THEN 0 ELSE IF T = S THEN 2 ELSE 1)
                 = IF T = {} THEN 0 ELSE 1 + g[T \ {CHOOSE x : x \in T}]
      <4> HIDE DEF g, S
      <4>. QED BY <2>1, <2>2, <2>3, <2>4
    <3> HIDE DEF S
    <3>. QED BY <3>1 DEF Counts
  <2>6. PICK f : Counts(S, f) /\ Cardinality(S) = f[S]
    <3> HIDE DEF g, S
    <3>. QED BY <2>5, CardinalityCounts
  <2>7. \A T \in SUBSET S : f[T] = IF T = {} THEN 0 ELSE 1 + f[T \ {CHOOSE x : x \in T}]
    <3> HIDE DEF S
    <3>. QED BY <2>6 DEF Counts
  <2> HIDE DEF S
  <2>8. f[{}] = 0
    BY <2>2, <2>7
  <2>9. {a} \ {CHOOSE x : x \in {a}} = {} /\ {b} \ {CHOOSE x : x \in {b}} = {}
    OBVIOUS
  <2>10. f[{a}] = 1 + f[{}] /\ f[{b}] = 1 + f[{}]
    <3>1. f[{a}] = 1 + f[{a} \ {CHOOSE x : x \in {a}}] /\ f[{b}] = 1 + f[{b} \ {CHOOSE x : x \in {b}}]
      BY <2>2, <2>7
    <3>. QED BY <2>9, <3>1
  <2>11. f[S] = 2
    <3>1. S \in SUBSET S /\ S # {}
      BY <2>2
    <3>2. f[S] = 1 + f[S \ {CHOOSE x : x \in S}]
      BY <2>7, <3>1
    <3>3. S \ {CHOOSE x : x \in S} \in {{a}, {b}}
      BY <2>1, <3>1
    <3>. QED BY <2>4, <2>8, <2>10, <3>2, <3>3
  <2>. QED BY <2>6, <2>11 DEF S
<1>. QED BY <1>2, <1>3, <1>4

-----------------------------------------------------------------------------
(* Sequences.                                                              *)

\* Elements and length of a sequence.
LEMMA SeqBasics ==
  ASSUME NEW S, NEW s \in Seq(S)
  PROVE  /\ Len(s) \in Nat /\ DOMAIN s = 1..Len(s) /\ \A i \in 1..Len(s) : s[i] \in S
         /\ s = <<>> <=> Len(s) = 0
BY SMT

\* Head and tail of a sequence.
LEMMA SeqHeadTail ==
  ASSUME NEW S, NEW s \in Seq(S), s # <<>>
  PROVE  /\ Head(s) = s[1] /\ Head(s) \in S /\ Tail(s) \in Seq(S) /\ Len(Tail(s)) = Len(s) - 1
         /\ \A i \in 1..Len(Tail(s)) : Tail(s)[i] = s[i + 1]
BY SMT

\* A sequence with an element added behind.
LEMMA SeqAppend ==
  ASSUME NEW S, NEW s \in Seq(S), NEW e \in S
  PROVE  /\ Append(s, e) \in Seq(S) /\ Append(s, e) # <<>> /\ Len(Append(s, e)) = Len(s) + 1
         /\ Append(s, e)[Len(s) + 1] = e
         /\ \A i \in 1..Len(s) : Append(s, e)[i] = s[i]
BY SMT

\* Concatenation is associative.
LEMMA ConcatAssoc ==
  ASSUME NEW s \in Seq(Nat), NEW t \in Seq(Nat), NEW u \in Seq(Nat)
  PROVE  (s \o t) \o u = s \o (t \o u) /\ s \o t \in Seq(Nat)
BY SMTT(30)

Cat(s, t) == s \o t
CatThree(s, t, u) == s \o t \o u

\* The same, with names the provers keep folded.
LEMMA CatLast ==
  ASSUME NEW s \in Seq(Nat), NEW t \in Seq(Nat), NEW u \in Seq(Nat)
  PROVE  CatThree(s, t, u) = Cat(s, Cat(t, u))
<1>1. (s \o t) \o u = s \o (t \o u)
  BY ConcatAssoc
<1>. QED BY <1>1 DEF Cat, CatThree

\* Appending is concatenating a sequence of one.
LEMMA AppendIsConcat ==
  ASSUME NEW s \in Seq(Nat), NEW e \in Nat
  PROVE  Append(s, e) = s \o <<e>> /\ <<e>> \in Seq(Nat)
BY SMT

\* Moving the head of one queue to the end of the one before it.
LEMMA HandOver ==
  ASSUME NEW s \in Seq(Nat), NEW t \in Seq(Nat), t # <<>>
  PROVE  /\ Append(s, Head(t)) \in Seq(Nat) /\ Tail(t) \in Seq(Nat)
         /\ Append(s, Head(t)) \o Tail(t) = s \o t
BY SMTT(30), SeqHeadTail, SeqAppend

\* How deep a thread is that is not two traps deep.
LEMMA AtMostOne ==
  ASSUME NEW n \in Nat, n <= 2, n # 2
  PROVE  n <= 1
BY SMT

\* A trap pushes one frame.
LEMMA OneMore ==
  ASSUME NEW S, NEW e \in S, NEW s \in Seq(S)
  PROVE  Len(<<e>> \o s) = Len(s) + 1
BY SMT

\* A thread at most one trap deep is not two deep.
LEMMA AtMostTwo ==
  ASSUME NEW n \in Nat, n <= 1
  PROVE  n <= 2 /\ n # 2
BY SMT

\* The depths a thread can have are different numbers.
LEMMA Depths == 1 # 2 /\ 1 <= 2 /\ 0 + 0 = 0 /\ 1 + 0 = 1 /\ 2 - 1 = 1
BY SMT

-----------------------------------------------------------------------------
(* What a label says of the CPU that stands there.                         *)

SchedHeld == {"add_push", "pick", "back", "kentry", "sys_switch", "sys_back", "sys_release",
              "tail_switch", "tail_back", "tail_release", "sleep_unlock", "sleep_switch",
              "sleep_back", "sleep_relock", "sleep_release", "wakeup_scan"}
ReadHeld == {"getc_read", "sleep", "sleep_unlock", "sleep_release", "com1_drain", "wakeup",
             "wakeup_scan", "com1_release"}
Holds(l, k) == \/ k = "sched" /\ l \in SchedHeld
               \/ k = "console_read" /\ l \in ReadHeld
               \/ k = "console" /\ l = "echo_out"
Awaits(l, k) ==
  \/ k = "sched" /\ l \in {"sched_add", "loop", "sys_yield", "tail_yield", "sleep", "wakeup"}
  \/ k = "console_read" /\ l \in {"sleep_relock", "com1", "getc"}
  \/ k = "console" /\ l = "echo"
Depth(l) == IF l \in {"sleep_unlock", "sleep_release", "wakeup_scan"} THEN 2
            ELSE IF l \in SchedHeld \cup ReadHeld \cup {"echo_out"} THEN 1 ELSE 0

SchedulerOnly == {"mpmain", "sched_add", "add_push", "sched_start", "loop", "pick", "back"}
SchedulerLabels == SchedulerOnly \cup {"spurious", "timer", "com1", "com1_drain", "wakeup",
                    "wakeup_scan", "com1_release", "tail", "iret"}
BootLabels == {"mpmain", "sched_add", "add_push", "sched_start"}
OpenLabels == {"loop", "main", "getc", "echo", "sys_yield", "sys_con_read", "tail",
               "tail_yield", "iret"}
Bottom == {"loop", "main", "getc", "echo"}
Parked == {"none", "kentry", "sys_back", "tail_back", "sleep_back"}
BaseLabels == Bottom \cup {"none", "mpmain", "sched_add", "add_push", "sched_start", "pick",
               "back", "getc_read", "echo_out", "sleep", "sleep_unlock", "sleep_switch",
               "sleep_back", "sleep_relock", "sleep_release"}
InService == {"timer", "com1", "com1_drain", "wakeup", "wakeup_scan", "com1_release"}

Here(c) == pc[on[c]]

LockInv(c) ==
  /\ \A k \in Locks : owner[k] = c <=> Holds(Here(c), k)
  /\ spin[c] # NULL => Awaits(Here(c), spin[c])
  /\ layer[c] = Depth(Here(c)) + (IF spin[c] = NULL THEN 0 ELSE 1)

FlagInv(c) ==
  /\ ints[c] => Here(c) \in OpenLabels /\ spin[c] = NULL
  /\ Here(c) \in Bottom /\ spin[c] = NULL => ints[c]
  /\ \/ Here(c) \in {"getc", "echo"} /\ spin[c] # NULL
     \/ Here(c) \in {"getc_read", "echo_out", "sleep", "sleep_unlock", "sleep_switch",
                     "sleep_relock", "sleep_release"}
     => int_enabled[c]
  /\ \/ Here(c) \in {"sched_add", "com1"} /\ spin[c] # NULL
     \/ Here(c) \in {"add_push", "com1_drain", "wakeup", "wakeup_scan", "com1_release"}
     => ~int_enabled[c]
  /\ isr[c] => Here(c) \in InService
  /\ panic[c] \in {NULL, "uart buffer full"}

PlaceInv(c) ==
  /\ on[c] \in {c, cproc[c]}
  /\ cproc[c] \in Procs \cup {idle_proc[c], NULL}
  /\ on[c] = c /\ pc[c] # "back" => cproc[c] = NULL
  /\ on[c] # c => pc[c] = "back" /\ st[cproc[c]] \in {"RUNNING", "RUNNABLE"}
  /\ cproc[c] # NULL => pc[cproc[c]] # "none"
  /\ on[c] = c /\ pc[c] = "back" /\ cproc[c] # NULL =>
       \/ st[cproc[c]] = "RUNNABLE"
       \/ pc[cproc[c]] = "sleep_back" /\ chan[cproc[c]] = "console_fifo"
  /\ pc[c] \in SchedulerLabels
  /\ pc[c] \in {"mpmain", "sched_add", "add_push"} => c = Bsp
  /\ pc[c] \in BootLabels <=> pc[idle_proc[c]] = "none"

ThreadInv(t) ==
  /\ t \notin Cpus => pc[t] \notin SchedulerOnly
  /\ (\A c \in Cpus : on[c] # t) /\ t \notin Cpus => pc[t] \in Parked
  /\ pc[t] \in BaseLabels <=> ret[t] = <<>>
  /\ \A i \in 1..Len(ret[t]) :
       /\ ret[t][i].ints
       /\ ret[t][i].pc \in OpenLabels
       /\ ret[t][i].pc \in Bottom <=> i = Len(ret[t])
       /\ t \in Cpus => ret[t][i].pc \in SchedulerLabels
       /\ t \notin Cpus => ret[t][i].pc \notin SchedulerOnly
  /\ pc[t] = "sleep_back" => intena[t]

Queued(p) == \/ \E i \in 1..Len(readyq) : readyq[i] = p
             \/ \E i \in 1..Len(waitq) : waitq[i] = p

QueueInv ==
  /\ \A i, j \in 1..Len(readyq) : readyq[i] = readyq[j] => i = j
  /\ \A i, j \in 1..Len(waitq) : waitq[i] = waitq[j] => i = j
  /\ \A i \in 1..Len(readyq), j \in 1..Len(waitq) : readyq[i] # waitq[j]
  /\ \A p \in Procs : Queued(p) => /\ p # newp
                                   /\ pc[p] \in Parked \ {"none"}
                                   /\ \A c \in Cpus : cproc[c] # p
  /\ \A i \in 1..Len(waitq) : pc[waitq[i]] = "sleep_back" /\ chan[waitq[i]] = "console_fifo"
  /\ \A c, d \in Cpus : cproc[c] = cproc[d] /\ cproc[c] # NULL => c = d
  /\ \A c \in Cpus : cproc[c] # NULL => cproc[c] # newp
  /\ newp # NULL <=> pc[Bsp] \in {"sched_add", "add_push"}
  /\ newp # NULL => pc[newp] = "kentry"
  /\ \A p \in Procs : st[p] = "UNUSED" <=> pc[p] = "none"
  /\ \A p \in Procs : st[p] # "UNUSED" => Queued(p) \/ p = newp \/ \E c \in Cpus : cproc[c] = p

IInv ==
  /\ TypeOK
  /\ \A c \in Cpus : LockInv(c) /\ FlagInv(c) /\ PlaceInv(c)
  /\ \A t \in Threads : ThreadInv(t)
  /\ QueueInv

-----------------------------------------------------------------------------
(* The call sites of acquire().                                            *)

\* What acquire() at a call site of sched.c or console.c adds to the locks.
LEMMA SiteFacts ==
  ASSUME NEW site \in SchedSites \cup ConsoleSites
  PROVE  /\ site[1] \in Labels /\ site[3] \in Labels /\ site[2] \in Locks
         /\ Awaits(site[1], site[2]) /\ ~Holds(site[1], site[2])
         /\ \A k \in Locks : Holds(site[3], k) <=> Holds(site[1], k) \/ k = site[2]
         /\ Depth(site[3]) = Depth(site[1]) + 1
         /\ \A k : Awaits(site[1], k) => k = site[2]
BY SMT, SchedAssumption DEF SchedSites, ConsoleSites, Labels, Awaits, Holds, Depth, SchedHeld, ReadHeld

\* Where the handlers of interrupts go, through the tail of handle_interrupt.
HandlerLabels ==
  {"spurious", "timer", "com1", "com1_drain", "wakeup", "wakeup_scan", "com1_release", "tail",
   "tail_yield", "tail_switch", "tail_back", "tail_release", "iret"}

\* The locks that the handlers of interrupts take.
LEMMA HandlerSites ==
  ASSUME NEW site \in SchedSites \cup ConsoleSites, site[1] \in HandlerLabels
  PROVE  /\ site[1] \in {"tail_yield", "com1", "wakeup"}
         /\ \/ site[1] = "tail_yield" /\ site[3] = "tail_switch"
            \/ site[3] \in {"com1_drain", "wakeup_scan"}
BY SMT DEF HandlerLabels, SchedSites, ConsoleSites

-----------------------------------------------------------------------------
(* Threads and CPUs.                                                       *)

\* The kinds of threads are apart.
LEMMA Kinds ==
  /\ Bsp \in Cpus /\ NULL \notin Threads
  /\ \A c \in Cpus : /\ c \in Threads /\ c \notin Procs \cup Idles
                     /\ idle_proc[c] \in Idles /\ idle_proc[c] \notin Procs \cup Cpus
  /\ \A c, d \in Cpus : idle_proc[c] = idle_proc[d] => c = d
  /\ \A p \in Procs \cup Idles : p \in Threads /\ p \notin Cpus /\ p # NULL
BY SMT, SchedAssumption DEF Threads, Idles

\* A CPU runs on its own scheduler stack or on that of its process.
LEMMA Where ==
  ASSUME IInv, NEW c \in Cpus
  PROVE  /\ on[c] \in Threads
         /\ on[c] \in Cpus => on[c] = c
         /\ on[c] \notin Cpus => on[c] = cproc[c] /\ cproc[c] # NULL
         /\ cproc[c] # NULL => /\ cproc[c] \in Procs \cup Idles
                               /\ cproc[c] \in Procs \cup {idle_proc[c]}
<1>1. on[c] \in Threads
  BY DEF IInv, TypeOK
<1>2. on[c] \in {c, cproc[c]} /\ cproc[c] \in Procs \cup {idle_proc[c], NULL}
  BY DEF IInv, PlaceInv
<1>. QED BY <1>1, <1>2, Kinds

\* Two CPUs never run on the same stack.
LEMMA OwnStack ==
  ASSUME IInv, NEW c \in Cpus, NEW d \in Cpus, c # d
  PROVE  /\ on[c] # on[d] /\ on[c] # d /\ on[d] # c
         /\ cproc[c] # NULL => cproc[c] # cproc[d]
         /\ cproc[c] # NULL => cproc[c] # on[d]
         /\ on[c] # idle_proc[d]
<1>1. cproc[c] # NULL => cproc[c] # cproc[d]
  BY DEF IInv, QueueInv
<1>. QED BY <1>1, Where, Kinds

-----------------------------------------------------------------------------
(* Steps in which CPU c moves on inside one thread.                        *)

\* The part of a CPU's own state only that CPU changes.
CpuLocal(c) ==
  /\ \A d \in Cpus : d # c =>
       /\ ints'[d] = ints[d] /\ layer'[d] = layer[d] /\ int_enabled'[d] = int_enabled[d]
       /\ spin'[d] = spin[d] /\ panic'[d] = panic[d] /\ isr'[d] = isr[d]
  /\ \A k \in Locks, d \in Cpus : d # c => (owner'[k] = d <=> owner[k] = d)

\* CPU c moves the thread it runs on to label b.
Move(c, b) ==
  /\ UNCHANGED <<on, cproc, readyq, waitq, newp, intena>>
  /\ pc' = [pc EXCEPT ![on[c]] = b]
  /\ \A t \in Threads : t # on[c] => ret'[t] = ret[t]
  /\ \A p \in Procs \cup Idles : p # on[c] => chan'[p] = chan[p]
  /\ st' = st \/ st' = Preempted(c)

\* Labels such a move may lead between.
Follows(c, b) ==
  /\ b \notin {"none", "back", "sleep_back"} /\ Here(c) # "back"
  /\ b \in BootLabels <=> Here(c) \in BootLabels
  /\ b \in {"sched_add", "add_push"} <=> Here(c) \in {"sched_add", "add_push"}
  /\ b \in {"mpmain", "sched_add", "add_push"} => Here(c) \in {"mpmain", "sched_add", "add_push"}
  /\ on[c] \in Cpus => b \in SchedulerLabels
  /\ on[c] \notin Cpus => b \notin SchedulerOnly

\* What the other CPUs rely on is left alone.
LEMMA OthersKeep ==
  ASSUME IInv, NEW c \in Cpus, NEW d \in Cpus, c # d, CpuLocal(c),
         on'[d] = on[d], pc'[on[d]] = pc[on[d]]
  PROVE  LockInv(d)' /\ FlagInv(d)'
<1>0. Here(d)' = Here(d)
  BY DEF Here
<1>1. LockInv(d)'
  BY SMT, <1>0 DEF IInv, LockInv, CpuLocal
<1>2. FlagInv(d)'
  <2>1. /\ ints'[d] = ints[d] /\ int_enabled'[d] = int_enabled[d] /\ isr'[d] = isr[d]
        /\ spin'[d] = spin[d] /\ panic'[d] = panic[d]
    BY DEF CpuLocal
  <2>2. FlagInv(d)
    BY DEF IInv
  <2>. QED BY ONLY <1>0, <2>1, <2>2, Zenon DEF FlagInv
<1>. QED BY <1>1, <1>2

\* The queues stay sound if no queued or new process moves.
LEMMA QueueKept ==
  ASSUME TypeOK, QueueInv, UNCHANGED <<readyq, waitq, newp, cproc>>,
         \A p \in Procs : Queued(p) \/ p = newp => pc'[p] = pc[p] /\ chan'[p] = chan[p],
         \A p \in Procs : st'[p] = "UNUSED" <=> pc'[p] = "none",
         \A p \in Procs : st'[p] = "UNUSED" <=> st[p] = "UNUSED",
         pc'[Bsp] \in {"sched_add", "add_push"} <=> pc[Bsp] \in {"sched_add", "add_push"}
  PROVE  QueueInv'
<1>1. /\ newp # NULL => newp \in Procs
      /\ \A i \in 1..Len(waitq) : waitq[i] \in Procs /\ Queued(waitq[i])
  <2>1. newp \in Procs \cup {NULL} /\ waitq \in Seq(Procs)
    BY DEF TypeOK
  <2>. QED BY <2>1, SeqBasics DEF Queued
<1>2. \A p \in Procs : Queued(p)' <=> Queued(p)
  BY DEF Queued
<1>3. /\ \A i, j \in 1..Len(readyq') : readyq'[i] = readyq'[j] => i = j
      /\ \A i, j \in 1..Len(waitq') : waitq'[i] = waitq'[j] => i = j
      /\ \A i \in 1..Len(readyq'), j \in 1..Len(waitq') : readyq'[i] # waitq'[j]
  <2>1. /\ \A i, j \in 1..Len(readyq) : readyq[i] = readyq[j] => i = j
        /\ \A i, j \in 1..Len(waitq) : waitq[i] = waitq[j] => i = j
        /\ \A i \in 1..Len(readyq), j \in 1..Len(waitq) : readyq[i] # waitq[j]
    BY DEF QueueInv
  <2>. QED BY <2>1
<1>4. \A p \in Procs : Queued(p)' => /\ p # newp' /\ pc'[p] \in Parked \ {"none"}
                                     /\ \A c \in Cpus : cproc'[c] # p
  <2>1. \A p \in Procs : Queued(p) => /\ p # newp /\ pc[p] \in Parked \ {"none"}
                                      /\ \A c \in Cpus : cproc[c] # p
    BY DEF QueueInv
  <2>. QED BY <1>2, <2>1
<1>5. /\ \A i \in 1..Len(waitq') : pc'[waitq'[i]] = "sleep_back" /\ chan'[waitq'[i]] = "console_fifo"
      /\ newp' # NULL => pc'[newp'] = "kentry"
  <2>1. /\ \A i \in 1..Len(waitq) : pc[waitq[i]] = "sleep_back" /\ chan[waitq[i]] = "console_fifo"
        /\ newp # NULL => pc[newp] = "kentry"
    BY DEF QueueInv
  <2>. QED BY <1>1, <2>1
<1>6. /\ \A c, d \in Cpus : cproc'[c] = cproc'[d] /\ cproc'[c] # NULL => c = d
      /\ \A c \in Cpus : cproc'[c] # NULL => cproc'[c] # newp'
      /\ newp' # NULL <=> pc'[Bsp] \in {"sched_add", "add_push"}
  <2>1. /\ \A c, d \in Cpus : cproc[c] = cproc[d] /\ cproc[c] # NULL => c = d
        /\ \A c \in Cpus : cproc[c] # NULL => cproc[c] # newp
        /\ newp # NULL <=> pc[Bsp] \in {"sched_add", "add_push"}
    BY DEF QueueInv
  <2>. QED BY <2>1
<1>7. \A p \in Procs : st'[p] # "UNUSED" => Queued(p)' \/ p = newp' \/ \E c \in Cpus : cproc'[c] = p
  <2>1. \A p \in Procs : st[p] # "UNUSED" => Queued(p) \/ p = newp \/ \E c \in Cpus : cproc[c] = p
    BY DEF QueueInv
  <2>. QED BY <1>2, <2>1
<1>. QED BY <1>3, <1>4, <1>5, <1>6, <1>7 DEF QueueInv

\* A move keeps the invariant if it does so where it happens.
LEMMA MoveInv ==
  ASSUME IInv, NEW c \in Cpus, NEW b \in Labels, Move(c, b), CpuLocal(c), Follows(c, b),
         TypeOK', LockInv(c)', FlagInv(c)', ThreadInv(on[c])'
  PROVE  IInv'
<1>1. /\ on[c] \in Threads
      /\ on[c] \in Cpus => on[c] = c
      /\ on[c] \notin Cpus => on[c] = cproc[c] /\ cproc[c] # NULL
      /\ cproc[c] # NULL => cproc[c] \in Procs \cup Idles
  BY Where
<1>2. /\ pc'[on[c]] = b
      /\ \A t \in Threads : t # on[c] => pc'[t] = pc[t]
  BY <1>1 DEF Move, IInv, TypeOK
<1>3. /\ \A p \in Procs \cup Idles : (st'[p] = "UNUSED" <=> st[p] = "UNUSED")
      /\ \A p \in Procs \cup Idles : p # cproc[c] => st'[p] = st[p]
      /\ cproc[c] # NULL => \/ st[cproc[c]] = "RUNNING" /\ st'[cproc[c]] = "RUNNABLE"
                            \/ st'[cproc[c]] = st[cproc[c]]
  <2>1. CASE st' = st
    BY <2>1
  <2>2. CASE cproc[c] # NULL /\ st[cproc[c]] = "RUNNING" /\ st' = [st EXCEPT ![cproc[c]] = "RUNNABLE"]
    <3>1. st \in [Procs \cup Idles -> States]
      BY DEF IInv, TypeOK
    <3>2. /\ st'[cproc[c]] = "RUNNABLE"
          /\ \A p \in Procs \cup Idles : p # cproc[c] => st'[p] = st[p]
      BY <1>1, <2>2, <3>1
    <3>. QED BY <2>2, <3>2
  <2>. QED BY <2>1, <2>2 DEF Move, Preempted
<1>4. ASSUME NEW d \in Cpus, d # c PROVE LockInv(d)' /\ FlagInv(d)' /\ PlaceInv(d)'
  <2>1. /\ on[c] # on[d] /\ on[c] # d /\ on[c] # idle_proc[d]
        /\ cproc[d] # NULL => cproc[d] # cproc[c] /\ cproc[d] # on[c]
    BY <1>4, OwnStack
  <2>2. on[d] \in Threads /\ d \in Threads /\ idle_proc[d] \in Threads
        /\ (cproc[d] # NULL => cproc[d] \in Threads /\ cproc[d] \in Procs \cup Idles)
    BY Where, Kinds
  <2>3. LockInv(d)' /\ FlagInv(d)'
    BY <1>2, <1>4, <2>1, <2>2, OthersKeep DEF Move
  <2>4. PlaceInv(d)'
    <3>1. /\ on'[d] = on[d] /\ cproc'[d] = cproc[d] /\ pc'[d] = pc[d]
          /\ pc'[idle_proc[d]] = pc[idle_proc[d]]
          /\ cproc[d] # NULL => /\ pc'[cproc[d]] = pc[cproc[d]] /\ st'[cproc[d]] = st[cproc[d]]
                                /\ chan'[cproc[d]] = chan[cproc[d]]
      BY <1>2, <1>3, <1>4, <2>1, <2>2 DEF Move
    <3>2. PlaceInv(d) /\ (on[d] # d => cproc[d] # NULL)
      BY Where, Kinds DEF IInv
    <3>. QED BY <3>1, <3>2 DEF PlaceInv
  <2>. QED BY <2>3, <2>4
<1>5. PlaceInv(c)'
  <2>0. PlaceInv(c) /\ c \in Threads /\ idle_proc[c] \in Threads /\ idle_proc[c] \notin Cpus /\ c \notin Procs \cup Idles
    BY Kinds DEF IInv
  <2>1. on'[c] = on[c] /\ cproc'[c] = cproc[c]
    BY DEF Move
  <2>2. CASE on[c] = c
    <3>1. pc[c] # "back" /\ b # "back" /\ pc'[c] = b /\ cproc[c] = NULL
      BY <1>2, <2>0, <2>2 DEF Follows, Here, PlaceInv
    <3>2. pc'[idle_proc[c]] = pc[idle_proc[c]]
      BY <1>2, <2>0, <2>2
    <3>. QED BY <2>0, <2>1, <2>2, <3>1, <3>2 DEF Follows, Here, PlaceInv
  <2>3. CASE on[c] # c
    <3>1. /\ on[c] = cproc[c] /\ cproc[c] \in Procs \cup Idles /\ cproc[c] # NULL
          /\ pc'[c] = pc[c] /\ pc[c] = "back" /\ pc[cproc[c]] # "none" /\ pc'[cproc[c]] # "none"
      BY <1>1, <1>2, <2>0, <2>3 DEF PlaceInv, Follows
    <3>2. pc'[idle_proc[c]] = "none" <=> pc[idle_proc[c]] = "none"
      <4>1. CASE idle_proc[c] = on[c]
        BY <3>1, <4>1
      <4>2. CASE idle_proc[c] # on[c]
        BY <1>2, <2>0, <4>2
      <4>. QED BY <4>1, <4>2
    <3>3. st'[cproc[c]] \in {"RUNNING", "RUNNABLE"}
      BY <1>3, <2>0, <2>3, <3>1 DEF PlaceInv
    <3>4. on'[c] # c
      BY <2>1, <2>3
    <3>. QED BY ONLY <2>0, <2>1, <3>1, <3>2, <3>3, <3>4 DEF PlaceInv
  <2>. QED BY <2>2, <2>3
<1>6. ASSUME NEW t \in Threads PROVE ThreadInv(t)'
  <2>1. CASE t = on[c]
    <3>1. ThreadInv(on[c])' 
      OBVIOUS
    <3>. QED BY SMT, <1>2, <2>1, <3>1 DEF ThreadInv, Move
  <2>2. CASE t # on[c]
    <3>1. pc'[t] = pc[t] /\ ret'[t] = ret[t] /\ on' = on /\ intena' = intena
      BY <1>2, <2>2 DEF Move
    <3>2. ThreadInv(t)
      BY DEF IInv
    <3>. QED BY <3>1, <3>2 DEF ThreadInv
  <2>. QED BY <2>1, <2>2
<1>7. QueueInv'
  <2>0. TypeOK /\ QueueInv
    BY DEF IInv
  <2>1. \A p \in Procs : Queued(p) \/ p = newp => p # on[c]
    <3>1. ASSUME NEW p \in Procs, p = on[c] PROVE ~Queued(p) /\ p # newp
      <4>1. cproc[c] = p /\ p # NULL
        BY <1>1, <3>1, Kinds
      <4>2. /\ Queued(p) => cproc[c] # p
            /\ cproc[c] # NULL => cproc[c] # newp
        BY <2>0 DEF QueueInv
      <4>. QED BY <4>1, <4>2
    <3>. QED BY <3>1
  <2>3. Bsp \in Cpus /\ Bsp \in Threads /\ Procs \subseteq Threads
    BY Kinds
  <2>4. pc'[Bsp] \in {"sched_add", "add_push"} <=> pc[Bsp] \in {"sched_add", "add_push"}
    <3>1. CASE on[c] = Bsp
      BY <1>2, <3>1 DEF Follows, Here
    <3>2. CASE on[c] # Bsp
      BY <1>2, <2>3, <3>2
    <3>. QED BY <3>1, <3>2
  <2>5. \A p \in Procs : st'[p] = "UNUSED" <=> pc'[p] = "none"
    <3>1. ASSUME NEW p \in Procs, p = on[c] PROVE st[p] # "UNUSED" /\ pc'[p] # "none"
      <4>1. cproc[c] = p /\ p # NULL /\ PlaceInv(c)
        BY <1>1, <3>1, Kinds DEF IInv
      <4>2. pc[p] # "none"
        BY <4>1 DEF PlaceInv
      <4>. QED BY <1>2, <2>0, <3>1, <4>2 DEF QueueInv, Follows
    <3>2. ASSUME NEW p \in Procs, p # on[c] PROVE pc'[p] = pc[p]
      BY <1>2, <2>3, <3>2
    <3>3. \A p \in Procs : st[p] = "UNUSED" <=> pc[p] = "none"
      BY <2>0 DEF QueueInv
    <3>. QED BY <1>3, <3>1, <3>2, <3>3
  <2>6. \A p \in Procs : Queued(p) \/ p = newp => pc'[p] = pc[p] /\ chan'[p] = chan[p]
    BY <1>2, <2>1, <2>3 DEF Move
  <2>. QED BY <1>3, <2>0, <2>4, <2>5, <2>6, QueueKept DEF Move
<1>. QED BY <1>4, <1>5, <1>6, <1>7 DEF IInv

-----------------------------------------------------------------------------
(* Moves by what they do to the locks.                                     *)

CpuType ==
  /\ ints \in [Cpus -> BOOLEAN] /\ layer \in [Cpus -> Nat] /\ int_enabled \in [Cpus -> BOOLEAN]
  /\ owner \in [Locks -> Cpus \cup {NULL}] /\ spin \in [Cpus -> Locks \cup {NULL}]
  /\ panic \in [Cpus -> Messages \cup {NULL}]

FrameType == ret \in [Threads -> Seq([pc : Labels, ints : BOOLEAN])]

DevType ==
  /\ chan \in [Procs \cup Idles -> {NULL, "console_fifo"}]
  /\ irr \in [Cpus -> SUBSET {"timer", "com1"}] /\ isr \in [Cpus -> BOOLEAN]
  /\ rx \in Seq(Nat) /\ fifo \in Seq(Nat) /\ got \in Seq(Nat) /\ sent \in Nat

\* The types a move does not touch.
LEMMA MoveType ==
  ASSUME IInv, NEW c \in Cpus, NEW b \in Labels, Move(c, b), CpuType', FrameType', DevType'
  PROVE  TypeOK'
<1>0. TypeOK
  BY DEF IInv
<1>1. pc' \in [Threads -> Labels]
  BY <1>0 DEF TypeOK, Move
<1>2. st' \in [Procs \cup Idles -> States]
  BY <1>0 DEF TypeOK, Move, Preempted, States
<1>3. /\ on' \in [Cpus -> Threads] /\ cproc' \in [Cpus -> Procs \cup Idles \cup {NULL}]
      /\ intena' \in [Threads -> BOOLEAN] /\ readyq' \in Seq(Procs) /\ waitq' \in Seq(Procs)
      /\ newp' \in Procs \cup {NULL}
  BY <1>0 DEF TypeOK, Move
<1>. QED BY <1>1, <1>2, <1>3 DEF TypeOK, CpuType, FrameType, DevType

\* Where a CPU can stand.
LEMMA Stand ==
  ASSUME IInv, NEW c \in Cpus
  PROVE  /\ Here(c) \in Labels /\ Here(c) # "none"
         /\ on[c] \in Cpus => Here(c) \in SchedulerLabels
         /\ on[c] \notin Cpus => Here(c) \notin SchedulerOnly
         /\ Here(c) \in BaseLabels <=> ret[on[c]] = <<>>
         /\ spin[c] # NULL => Awaits(Here(c), spin[c])
<1>1. PlaceInv(c) /\ ThreadInv(on[c]) /\ LockInv(c)
  BY Where DEF IInv
<1>2. on[c] \in Threads /\ (on[c] \in Cpus => on[c] = c)
      /\ (on[c] \notin Cpus => on[c] = cproc[c] /\ cproc[c] # NULL)
  BY Where
<1>3. Here(c) \in Labels
  BY <1>2 DEF IInv, TypeOK, Here
<1>4. Here(c) # "none"
  BY <1>1, <1>2 DEF PlaceInv, Here, SchedulerLabels, SchedulerOnly
<1>5. (on[c] \in Cpus => Here(c) \in SchedulerLabels) /\ (on[c] \notin Cpus => Here(c) \notin SchedulerOnly)
  BY <1>1, <1>2 DEF PlaceInv, ThreadInv, Here
<1>. QED BY <1>1, <1>3, <1>4, <1>5 DEF ThreadInv, LockInv, Here

\* A move that leaves the trap frames alone.
LEMMA SameFrames ==
  ASSUME IInv, NEW c \in Cpus, NEW b \in Labels, Move(c, b), Follows(c, b), ret' = ret,
         b \in BaseLabels <=> Here(c) \in BaseLabels
  PROVE  ThreadInv(on[c])'
<1>1. /\ on[c] \in Threads /\ on' = on /\ pc'[on[c]] = b
      /\ ThreadInv(on[c]) /\ (Here(c) \in BaseLabels <=> ret[on[c]] = <<>>)
  BY Where, Stand DEF IInv, TypeOK, Move
<1>. QED BY <1>1 DEF ThreadInv, Follows

\* A move that neither takes nor releases a lock.
LEMMA QuietMove ==
  ASSUME IInv, NEW c \in Cpus, NEW b \in Labels, Move(c, b), Follows(c, b),
         UNCHANGED cpuVars, ret' = ret, DevType', spin[c] = NULL,
         b \in BaseLabels <=> Here(c) \in BaseLabels,
         \A k \in Locks : Holds(b, k) <=> Holds(Here(c), k),
         Depth(b) = Depth(Here(c)),
         ints[c] => b \in OpenLabels, b \in Bottom => ints[c],
         b \in {"getc_read", "echo_out", "sleep", "sleep_unlock", "sleep_switch",
                "sleep_relock", "sleep_release"} => int_enabled[c],
         b \in {"add_push", "com1_drain", "wakeup", "wakeup_scan", "com1_release"}
           => ~int_enabled[c],
         isr'[c] => b \in InService, \A d \in Cpus : d # c => isr'[d] = isr[d]
  PROVE  IInv'
<1>1. /\ on[c] \in Threads /\ on' = on /\ pc'[on[c]] = b /\ TypeOK /\ Here(c)' = b
      /\ LockInv(c) /\ FlagInv(c)
  BY Where DEF IInv, TypeOK, Move, Here
<1>2. CpuLocal(c)
  BY DEF CpuLocal, cpuVars
<1>3. TypeOK'
  BY <1>1, MoveType DEF CpuType, FrameType, TypeOK, cpuVars
<1>4. LockInv(c)'
  BY <1>1 DEF LockInv, cpuVars
<1>5. FlagInv(c)'
  BY <1>1 DEF FlagInv, cpuVars
<1>. QED BY <1>2, <1>3, <1>4, <1>5, SameFrames, MoveInv

\* A CPU that holds lock k, releases it and gets to label b.
Releases(c, k, b) ==
  /\ Release(c, k) /\ k \in Locks /\ b \in Labels
  /\ Holds(Here(c), k) /\ spin[c] = NULL
  /\ \A l \in Locks : Holds(b, l) <=> Holds(Here(c), l) /\ l # k
  /\ Depth(Here(c)) = Depth(b) + 1 /\ Depth(b) \in Nat
  /\ Here(c) \notin OpenLabels
  /\ Depth(b) = 0 => /\ int_enabled[c] => b \in OpenLabels
                     /\ b \in Bottom => int_enabled[c]
  /\ Depth(b) # 0 => b \notin Bottom
  /\ b \in {"getc_read", "echo_out", "sleep", "sleep_unlock", "sleep_switch",
            "sleep_relock", "sleep_release"} => int_enabled[c]
  /\ b \in {"add_push", "com1_drain", "wakeup", "wakeup_scan", "com1_release"}
       => ~int_enabled[c]
  /\ isr'[c] => b \in InService
  /\ \A d \in Cpus : d # c => isr'[d] = isr[d]

\* release() does not panic and leaves the CPU as label b says.
LEMMA ReleaseLocal ==
  ASSUME IInv, NEW c \in Cpus, NEW k, NEW b, Releases(c, k, b), Here(c)' = b
  PROVE  /\ CpuLocal(c) /\ CpuType' /\ LockInv(c)' /\ FlagInv(c)'
         /\ owner[k] = c /\ owner' = [owner EXCEPT ![k] = NULL] /\ panic' = panic
<1>1. TypeOK /\ LockInv(c) /\ FlagInv(c)
  BY DEF IInv
<1>2. owner[k] = c /\ layer[c] = Depth(b) + 1 /\ ~ints[c]
  <2>1. owner[k] = c /\ layer[c] = Depth(b) + 1
    BY SMT, <1>1 DEF LockInv, Releases
  <2>2. ~ints[c]
    BY <1>1 DEF FlagInv, TypeOK, Releases
  <2>. QED BY <2>1, <2>2
<1>3. /\ owner' = [owner EXCEPT ![k] = NULL] /\ UNCHANGED <<spin, panic, int_enabled>>
      /\ layer' = [layer EXCEPT ![c] = @ - 1]
      /\ ints' = [ints EXCEPT ![c] = @ \/ (layer[c] = 1 /\ int_enabled[c])]
  BY <1>2 DEF Release, PopIntDisable, Releases
<1>4. layer'[c] = Depth(b) /\ layer' \in [Cpus -> Nat] /\ (layer[c] = 1 <=> Depth(b) = 0)
      /\ \A d \in Cpus : d # c => layer'[d] = layer[d]
  BY SMT, <1>1, <1>2, <1>3 DEF TypeOK, Releases
<1>5. ints' \in [Cpus -> BOOLEAN] /\ (ints'[c] <=> layer[c] = 1 /\ int_enabled[c])
      /\ \A d \in Cpus : d # c => ints'[d] = ints[d]
  BY <1>1, <1>2, <1>3 DEF TypeOK
<1>6. NULL # c
  BY Kinds
<1>7. CpuLocal(c)
  <2>1. \A l \in Locks, d \in Cpus : d # c => (owner'[l] = d <=> owner[l] = d)
    <3>1. ASSUME NEW d \in Cpus, d # c PROVE owner'[k] # d /\ owner[k] # d
      <4>1. owner[k] = c
        BY <1>2
      <4>2. owner'[k] = NULL /\ d # NULL
        <5>1. owner \in [Locks -> Cpus \cup {NULL}] /\ k \in Locks
          BY <1>1 DEF TypeOK, Releases
        <5>2. d \in Threads /\ NULL \notin Threads
          BY Kinds
        <5>. QED BY <1>3, <5>1, <5>2
      <4>. QED BY <3>1, <4>1, <4>2
    <3>2. ASSUME NEW l \in Locks, l # k PROVE owner'[l] = owner[l]
      BY <1>1, <1>3, <3>2 DEF TypeOK
    <3>. QED BY <3>1, <3>2
  <2>. QED BY <1>3, <1>4, <1>5, <2>1 DEF CpuLocal, Releases
<1>8. CpuType'
  <2>1. owner' \in [Locks -> Cpus \cup {NULL}]
    BY <1>1, <1>3 DEF TypeOK
  <2>. QED BY <2>1, <1>1, <1>3, <1>4, <1>5 DEF CpuType, TypeOK
<1>9. LockInv(c)'
  <2>1. \A l \in Locks : owner'[l] = c <=> Holds(b, l)
    BY <1>1, <1>2, <1>3, <1>6 DEF LockInv, TypeOK, Releases
  <2>2. spin'[c] = NULL /\ layer'[c] = Depth(b) + 0
    BY SMT, <1>3, <1>4 DEF Releases
  <2>. QED BY <1>1, <2>1, <2>2 DEF LockInv
<1>10. FlagInv(c)'
  BY <1>1, <1>3, <1>4, <1>5 DEF FlagInv, Releases
<1>. QED BY <1>2, <1>3, <1>7, <1>8, <1>9, <1>10

\* A move that releases a lock.
LEMMA ReleaseMove ==
  ASSUME IInv, NEW c \in Cpus, NEW b, NEW k, Move(c, b), Follows(c, b), Releases(c, k, b),
         ret' = ret, DevType', b \in BaseLabels <=> Here(c) \in BaseLabels
  PROVE  IInv' /\ panic' = panic
<1>1. /\ TypeOK /\ Here(c)' = b /\ b \in Labels
  BY Where DEF IInv, TypeOK, Move, Here, Releases
<1>2. FrameType'
  BY <1>1 DEF TypeOK, FrameType
<1>. QED BY <1>1, <1>2, ReleaseLocal, MoveType, SameFrames, MoveInv

-----------------------------------------------------------------------------
(* acquire().                                                              *)

\* Entering the spin of acquire(): interrupts go off, the lock is awaited.
LEMMA EnterInv ==
  ASSUME IInv, NEW c \in Cpus, NEW site \in SchedSites \cup ConsoleSites, Enter(c, site),
         UNCHANGED devVars
  PROVE  IInv' /\ UNCHANGED <<pc, panic>>
<1>1. /\ on[c] \in Threads /\ Here(c) = site[1] /\ TypeOK /\ Here(c)' = site[1]
      /\ LockInv(c) /\ FlagInv(c) /\ UNCHANGED schedVars
  BY Where DEF IInv, TypeOK, Here, Enter, At, schedVars
<1>2. /\ site[1] \in Labels /\ site[2] \in Locks /\ Awaits(site[1], site[2])
      /\ site[1] \notin {"none", "back", "sleep_back"}
      /\ owner[site[2]] # c
  BY SMT, <1>1, SiteFacts DEF LockInv, SchedSites, ConsoleSites
<1>3. /\ spin[c] = NULL /\ ints' = [ints EXCEPT ![c] = FALSE]
      /\ int_enabled' = [int_enabled EXCEPT ![c] = IF layer[c] = 0 THEN ints[c] ELSE @]
      /\ layer' = [layer EXCEPT ![c] = @ + 1] /\ spin' = [spin EXCEPT ![c] = site[2]]
      /\ owner' = owner /\ panic' = panic
  BY <1>1, <1>2 DEF Enter, AcquireEnter, PushIntDisable, TypeOK
<1>4. Move(c, site[1])
  BY <1>1 DEF Move, schedVars, Here, TypeOK
<1>5. Follows(c, site[1])
  BY <1>1, <1>2, Stand DEF Follows
<1>6. CpuLocal(c)
  BY <1>1, <1>3 DEF CpuLocal, TypeOK, devVars
<1>7. TypeOK'
  <2>1. ints' \in [Cpus -> BOOLEAN] /\ int_enabled' \in [Cpus -> BOOLEAN]
    BY <1>1, <1>3 DEF TypeOK
  <2>2. layer' \in [Cpus -> Nat] /\ spin' \in [Cpus -> Locks \cup {NULL}]
    <3>1. layer \in [Cpus -> Nat] /\ spin \in [Cpus -> Locks \cup {NULL}]
      BY <1>1 DEF TypeOK
    <3>. QED BY SMT, <1>2, <1>3, <3>1
  <2>. QED BY <1>1, <1>2, <1>3, <1>4, <2>1, <2>2, MoveType
           DEF CpuType, FrameType, DevType, TypeOK, schedVars, devVars
<1>8. layer[c] = Depth(site[1]) /\ Depth(site[1]) \in Nat
  BY SMT, <1>1, <1>3 DEF LockInv, TypeOK, Depth
<1>9. LockInv(c)'
  <2>1. spin'[c] = site[2] /\ site[2] # NULL /\ layer'[c] = Depth(site[1]) + 1
    BY <1>1, <1>2, <1>3, <1>8, SchedAssumption DEF TypeOK
  <2>. QED BY <1>1, <1>2, <1>3, <2>1 DEF LockInv
<1>10. FlagInv(c)'
  <2>1. ~ints'[c] /\ spin'[c] # NULL /\ panic'[c] = panic[c] /\ isr'[c] = isr[c]
    BY <1>1, <1>2, <1>3, SchedAssumption DEF TypeOK, devVars
  <2>2. Depth(site[1]) = 0 => (int_enabled'[c] <=> ints[c])
    BY <1>1, <1>3, <1>8 DEF TypeOK
  <2>3. Depth(site[1]) # 0 => (int_enabled'[c] <=> int_enabled[c])
    BY <1>1, <1>3, <1>8 DEF TypeOK
  <2>4. site[1] \in {"getc", "echo"} => int_enabled'[c]
    BY <1>1, <1>3, <2>2 DEF FlagInv, Depth, Bottom, SchedHeld, ReadHeld
  <2>5. site[1] \in {"sched_add", "com1"} => ~int_enabled'[c]
    BY <1>1, <1>3, <2>2 DEF FlagInv, Depth, OpenLabels, SchedHeld, ReadHeld
  <2>6. site[1] \in {"sleep", "sleep_relock"} => int_enabled'[c]
    <3>1. site[1] \in {"sleep", "sleep_relock"} => int_enabled[c]
      BY <1>1 DEF FlagInv
    <3>2. site[1] \in {"sleep", "sleep_relock"} => Depth(site[1]) # 0
      BY SMT DEF Depth, SchedHeld, ReadHeld
    <3>. QED BY <2>3, <3>1, <3>2
  <2>7. site[1] = "wakeup" => ~int_enabled'[c]
    <3>1. site[1] = "wakeup" => ~int_enabled[c]
      BY <1>1 DEF FlagInv
    <3>2. site[1] = "wakeup" => Depth(site[1]) # 0
      BY SMT DEF Depth, SchedHeld, ReadHeld
    <3>. QED BY <2>3, <3>1, <3>2
  <2>8. site[1] \in {"sched_add", "loop", "sys_yield", "tail_yield", "sleep", "sleep_relock",
                     "wakeup", "com1", "getc", "echo"}
    BY SMT DEF SchedSites, ConsoleSites
  <2>. QED BY <1>1, <2>1, <2>4, <2>5, <2>6, <2>7, <2>8 DEF FlagInv
<1>11. ThreadInv(on[c])'
  BY <1>1, <1>2, <1>4, <1>5, SameFrames DEF schedVars
<1>. QED BY <1>1, <1>2, <1>3, <1>4, <1>5, <1>6, <1>7, <1>9, <1>10, <1>11, MoveInv DEF schedVars

\* Winning the lock.
LEMMA TakeInv ==
  ASSUME IInv, NEW c \in Cpus, NEW site \in SchedSites \cup ConsoleSites, Take(c, site),
         UNCHANGED devVars
  PROVE  IInv' /\ pc' = [pc EXCEPT ![on[c]] = site[3]] /\ Here(c) = site[1] /\ UNCHANGED panic
<1>1. /\ on[c] \in Threads /\ Here(c) = site[1] /\ TypeOK /\ Here(c)' = site[3]
      /\ LockInv(c) /\ FlagInv(c)
      /\ pc' = [pc EXCEPT ![on[c]] = site[3]]
      /\ UNCHANGED <<on, cproc, ret, intena, st, chan, readyq, waitq, newp>>
  BY Where DEF IInv, TypeOK, Here, Take, At, Goto
<1>2. /\ site[1] \in Labels /\ site[3] \in Labels /\ site[2] \in Locks /\ site[2] # NULL
      /\ \A k \in Locks : Holds(site[3], k) <=> Holds(site[1], k) \/ k = site[2]
      /\ Depth(site[3]) = Depth(site[1]) + 1
  BY SiteFacts, SchedAssumption
<1>3. /\ spin[c] = site[2] /\ owner[site[2]] = NULL
      /\ owner' = [owner EXCEPT ![site[2]] = c] /\ spin' = [spin EXCEPT ![c] = NULL]
      /\ UNCHANGED <<ints, layer, int_enabled, panic>>
  BY DEF Take, AcquireTake
<1>4. Move(c, site[3])
  BY <1>1 DEF Move
<1>5. Follows(c, site[3])
  <2>1. /\ site[3] \notin {"none", "back", "sleep_back", "mpmain"} /\ site[1] # "back"
        /\ site[3] \in BootLabels <=> site[1] \in BootLabels
        /\ site[3] \in {"sched_add", "add_push"} <=> site[1] \in {"sched_add", "add_push"}
    BY SMT DEF SchedSites, ConsoleSites, BootLabels
  <2>2. /\ site[1] \in SchedulerLabels => site[3] \in SchedulerLabels
        /\ site[1] \notin SchedulerOnly => site[3] \notin SchedulerOnly
    BY SMT DEF SchedSites, ConsoleSites, SchedulerLabels, SchedulerOnly
  <2>. QED BY <1>1, <2>1, <2>2, Stand DEF Follows
<1>6. CpuLocal(c)
  <2>1. ASSUME NEW d \in Cpus, d # c PROVE d # NULL /\ spin'[d] = spin[d] /\ isr'[d] = isr[d]
    <3>1. d \in Threads /\ NULL \notin Threads
      BY Kinds
    <3>2. spin \in [Cpus -> Locks \cup {NULL}] /\ isr' = isr
      BY <1>1 DEF TypeOK, devVars
    <3>. QED BY <1>3, <2>1, <3>1, <3>2
  <2>2. ASSUME NEW k \in Locks, NEW d \in Cpus, d # c PROVE owner'[k] = d <=> owner[k] = d
    <3>1. d # NULL
      BY <2>1, <2>2
    <3>2. owner'[k] = IF k = site[2] THEN c ELSE owner[k]
      BY <1>1, <1>3 DEF TypeOK
    <3>. QED BY <1>3, <2>2, <3>1, <3>2
  <2>. QED BY <1>3, <2>1, <2>2 DEF CpuLocal
<1>7. TypeOK'
  <2>1. owner' \in [Locks -> Cpus \cup {NULL}] /\ spin' \in [Cpus -> Locks \cup {NULL}]
    BY <1>1, <1>2, <1>3 DEF TypeOK
  <2>. QED BY <1>1, <1>2, <1>3, <1>4, <2>1, MoveType
           DEF CpuType, FrameType, DevType, TypeOK, devVars
<1>8. LockInv(c)'
  <2>1. spin'[c] = NULL /\ layer'[c] = Depth(site[3]) + 0
    <3>1. layer[c] = Depth(site[1]) + 1 /\ Depth(site[1]) \in Nat
      BY <1>1, <1>2, <1>3 DEF LockInv, Depth
    <3>. QED BY SMT, <3>1, <1>1, <1>2, <1>3 DEF TypeOK
  <2>2. \A k \in Locks : owner'[k] = c <=> Holds(site[3], k)
    BY <1>1, <1>2, <1>3 DEF LockInv, TypeOK
  <2>. QED BY <1>1, <2>1, <2>2 DEF LockInv
<1>9. FlagInv(c)'
  <2>1. ~ints[c]
    BY <1>1, <1>2, <1>3 DEF FlagInv
  <2>2. site[1] \in {"sched_add", "com1", "wakeup"} => ~int_enabled[c]
    BY <1>1, <1>2, <1>3 DEF FlagInv
  <2>3. site[1] \in {"sleep", "sleep_relock", "getc", "echo"} => int_enabled[c]
    BY <1>1, <1>2, <1>3 DEF FlagInv
  <2>4. isr'[c] => site[3] \in InService
    <3>1. isr'[c] => site[1] \in InService
      BY <1>1 DEF FlagInv, devVars
    <3>2. site[1] \in InService => site[3] \in InService
      BY SMT DEF SchedSites, ConsoleSites, InService
    <3>. QED BY <3>1, <3>2
  <2>5. \/ site[1] \in {"sched_add", "com1", "wakeup"}
           /\ site[3] \in {"add_push", "com1_drain", "wakeup_scan"}
        \/ site[1] \in {"sleep", "sleep_relock", "getc", "echo"}
           /\ site[3] \in {"sleep_unlock", "sleep_release", "getc_read", "echo_out"}
        \/ site[3] \in {"pick", "sys_switch", "tail_switch"}
    BY SMT DEF SchedSites, ConsoleSites
  <2>6. ~ints'[c] /\ (int_enabled'[c] <=> int_enabled[c]) /\ panic'[c] \in {NULL, "uart buffer full"}
    BY <1>1, <1>3, <2>1 DEF FlagInv
  <2>. QED BY <1>1, <2>2, <2>3, <2>4, <2>5, <2>6 DEF FlagInv, Bottom
<1>10. ThreadInv(on[c])'
  <2>1. site[3] \in BaseLabels <=> site[1] \in BaseLabels
    BY SMT DEF SchedSites, ConsoleSites, BaseLabels, Bottom
  <2>. QED BY <1>1, <1>2, <1>4, <1>5, <2>1, SameFrames
<1>. QED BY <1>1, <1>2, <1>3, <1>4, <1>5, <1>6, <1>7, <1>8, <1>9, <1>10, MoveInv

-----------------------------------------------------------------------------
(* Moves of the scheduler.                                                 *)

\* mpmain goes on to sched_start().
LEMMA BootDoneInv ==
  ASSUME IInv, NEW c \in Cpus, BootDone(c), UNCHANGED devVars
  PROVE  IInv'
<1>1. Here(c) = "mpmain" /\ spin[c] = NULL /\ TypeOK /\ FlagInv(c)
  BY Stand DEF BootDone, At, Here, Awaits, IInv
<1>2. Move(c, "sched_start") /\ Follows(c, "sched_start")
  BY <1>1, Stand DEF BootDone, Goto, Move, Follows, BootLabels, SchedulerLabels, SchedulerOnly
<1>3. DevType' /\ "sched_start" \in Labels
  BY <1>1 DEF DevType, TypeOK, BootDone, devVars, Labels
<1>4. ~ints[c] /\ (isr'[c] => "sched_start" \in InService)
  BY <1>1 DEF FlagInv, OpenLabels, InService, devVars
<1>. QED BY <1>1, <1>2, <1>3, <1>4, QuietMove
         DEF BootDone, Holds, Depth, SchedHeld, ReadHeld, BaseLabels, Bottom, devVars

\* proc_kentry() releases the scheduler's lock.
LEMMA ProcKentryInv ==
  ASSUME IInv, NEW c \in Cpus, ProcKentry(c), UNCHANGED devVars
  PROVE  IInv'
<1>1. Here(c) = "kentry" /\ spin[c] = NULL /\ TypeOK /\ FlagInv(c)
  BY Stand DEF ProcKentry, At, Here, Awaits, IInv
<1>2. cproc[c] # NULL
  BY <1>1, Stand, Where DEF SchedulerLabels, SchedulerOnly
<1>3. Move(c, "iret") /\ Follows(c, "iret")
  BY <1>1, Stand DEF ProcKentry, Goto, Move, Follows, BootLabels, SchedulerLabels, SchedulerOnly
<1>4. DevType' /\ "iret" \in Labels /\ "sched" \in Locks
  BY <1>1, SchedAssumption DEF DevType, TypeOK, ProcKentry, devVars, Labels
<1>5. ~isr'[c]
  BY <1>1 DEF FlagInv, InService, devVars
<1>. QED BY SMT, <1>1, <1>2, <1>3, <1>4, <1>5, ReleaseMove
         DEF Releases, ProcKentry, Holds, Depth, SchedHeld, ReadHeld, BaseLabels, Bottom, OpenLabels, devVars

\* Back from the switch: the process's intena becomes the CPU's.
LEMMA SwitchedInInv ==
  ASSUME IInv, NEW c \in Cpus, NEW from, NEW to, SwitchedIn(c, from, to), UNCHANGED <<devVars>>,
         \/ from = "sys_back" /\ to = "sys_release" /\ UNCHANGED chan
         \/ from = "tail_back" /\ to = "tail_release" /\ UNCHANGED chan
         \/ from = "sleep_back" /\ to = "sleep_relock" /\ chan' = [chan EXCEPT ![on[c]] = NULL]
  PROVE  IInv'
<1>1. /\ Here(c) = from /\ spin[c] = NULL /\ TypeOK /\ FlagInv(c) /\ LockInv(c) /\ ThreadInv(on[c])
      /\ on[c] \in Threads /\ to \in Labels
  BY Stand, Where DEF SwitchedIn, At, Here, Awaits, IInv, Labels
<1>2. /\ int_enabled' = [int_enabled EXCEPT ![c] = intena[on[c]]]
      /\ pc' = [pc EXCEPT ![on[c]] = to]
      /\ UNCHANGED <<on, cproc, ret, intena, st, readyq, waitq, newp, ints, layer, owner, spin, panic>>
  BY DEF SwitchedIn, Goto
<1>3. Here(c)' = to /\ pc'[on[c]] = to
  BY <1>1, <1>2 DEF Here, TypeOK
<1>4. Move(c, to)
  BY <1>1, <1>2 DEF Move, TypeOK
<1>5. Follows(c, to)
  BY <1>1, Stand DEF Follows, BootLabels, SchedulerLabels, SchedulerOnly
<1>6. TypeOK'
  <2>1. DevType'
    BY <1>1, <1>2 DEF DevType, TypeOK, devVars
  <2>2. int_enabled' \in [Cpus -> BOOLEAN]
    BY <1>1, <1>2 DEF TypeOK
  <2>. QED BY <1>1, <1>2, <1>4, <2>1, <2>2, MoveType DEF CpuType, FrameType, TypeOK
<1>7. CpuLocal(c)
  BY <1>1, <1>2 DEF CpuLocal, TypeOK, devVars
<1>8. LockInv(c)'
  <2>1. (\A k \in Locks : Holds(to, k) <=> Holds(from, k)) /\ Depth(to) = Depth(from)
    BY DEF Holds, Depth, SchedHeld, ReadHeld
  <2>. QED BY <1>1, <1>2, <1>3, <2>1 DEF LockInv
<1>9. FlagInv(c)'
  <2>1. ~ints'[c] /\ ~isr'[c] /\ panic'[c] = panic[c]
    BY <1>1, <1>2 DEF FlagInv, OpenLabels, InService, devVars
  <2>2. from = "sleep_back" => int_enabled'[c]
    <3>1. from = "sleep_back" => intena[on[c]]
      BY <1>1 DEF ThreadInv, Here
    <3>2. int_enabled'[c] = intena[on[c]]
      BY <1>1, <1>2 DEF TypeOK
    <3>. QED BY <3>1, <3>2
  <2>3. spin'[c] = NULL /\ panic[c] \in {NULL, "uart buffer full"}
    BY <1>1, <1>2 DEF FlagInv
  <2>. QED BY <1>3, <2>1, <2>2, <2>3 DEF FlagInv, Bottom
<1>10. ThreadInv(on[c])'
  <2>1. to \in BaseLabels <=> from \in BaseLabels
    BY DEF BaseLabels, Bottom
  <2>. QED BY <1>1, <1>2, <1>4, <1>5, <2>1, SameFrames
<1>. QED BY <1>1, <1>4, <1>5, <1>6, <1>7, <1>8, <1>9, <1>10, MoveInv

\* The end of sched_yield().
LEMMA YieldReleaseInv ==
  ASSUME IInv, NEW c \in Cpus, NEW from, NEW to, At(c, from), Release(c, "sched"), Goto(c, to),
         UNCHANGED <<on, cproc, ret, intena, st, chan, readyq, waitq, newp, devVars>>,
         \/ from = "sys_release" /\ to = "tail"
         \/ from = "tail_release" /\ to = "iret"
  PROVE  IInv'
<1>1. Here(c) = from /\ spin[c] = NULL /\ TypeOK /\ FlagInv(c)
  BY Stand DEF At, Here, Awaits, IInv
<1>2. Move(c, to) /\ Follows(c, to)
  BY <1>1, Stand DEF Goto, Move, Follows, BootLabels, SchedulerLabels, SchedulerOnly
<1>3. DevType' /\ to \in Labels /\ "sched" \in Locks
  BY <1>1, SchedAssumption DEF DevType, TypeOK, devVars, Labels
<1>4. ~isr'[c]
  BY <1>1 DEF FlagInv, InService, devVars
<1>. QED BY SMT, <1>1, <1>2, <1>3, <1>4, ReleaseMove
         DEF Releases, Holds, Depth, SchedHeld, ReadHeld, BaseLabels, Bottom, OpenLabels, devVars

\* sched_sleep() drops the caller's lock under sched.lock.
LEMMA SleepUnlockInv ==
  ASSUME IInv, NEW c \in Cpus, SleepUnlock(c), UNCHANGED devVars
  PROVE  IInv'
<1>1. Here(c) = "sleep_unlock" /\ spin[c] = NULL /\ TypeOK /\ FlagInv(c)
  BY Stand DEF SleepUnlock, At, Here, Awaits, IInv
<1>2. Move(c, "sleep_switch") /\ Follows(c, "sleep_switch")
  BY <1>1, Stand DEF SleepUnlock, Goto, Move, Follows, BootLabels, SchedulerLabels, SchedulerOnly
<1>3. DevType' /\ "sleep_switch" \in Labels /\ "console_read" \in Locks
  BY <1>1, SchedAssumption DEF DevType, TypeOK, SleepUnlock, devVars, Labels
<1>4. ~isr'[c] /\ int_enabled[c]
  BY <1>1 DEF FlagInv, InService, devVars
<1>. QED BY SMT, <1>1, <1>2, <1>3, <1>4, ReleaseMove
         DEF Releases, SleepUnlock, Holds, Depth, SchedHeld, ReadHeld, BaseLabels, Bottom, OpenLabels, devVars

\* sched_sleep() returns with the caller's lock.
LEMMA SleepReleaseInv ==
  ASSUME IInv, NEW c \in Cpus, SleepRelease(c), UNCHANGED devVars
  PROVE  IInv'
<1>1. Here(c) = "sleep_release" /\ spin[c] = NULL /\ TypeOK /\ FlagInv(c)
  BY Stand DEF SleepRelease, At, Here, Awaits, IInv
<1>2. Move(c, "getc_read") /\ Follows(c, "getc_read")
  BY <1>1, Stand DEF SleepRelease, Goto, Move, Follows, BootLabels, SchedulerLabels, SchedulerOnly
<1>3. DevType' /\ "getc_read" \in Labels /\ "sched" \in Locks
  BY <1>1, SchedAssumption DEF DevType, TypeOK, SleepRelease, devVars, Labels
<1>4. ~isr'[c] /\ int_enabled[c]
  BY <1>1 DEF FlagInv, InService, devVars
<1>. QED BY SMT, <1>1, <1>2, <1>3, <1>4, ReleaseMove
         DEF Releases, SleepRelease, Holds, Depth, SchedHeld, ReadHeld, BaseLabels, Bottom, OpenLabels, devVars

-----------------------------------------------------------------------------
(* Traps.                                                                  *)

\* Labels where interrupts may be on hold no lock.
LEMMA OpenFacts ==
  ASSUME NEW b \in OpenLabels
  PROVE  /\ b \in Labels /\ Depth(b) = 0 /\ (\A k \in Locks : ~Holds(b, k))
         /\ b \notin InService /\ (b \in BaseLabels <=> b \in Bottom)
         /\ b \notin {"none", "back", "sleep_back"} /\ b \notin BootLabels
         /\ b \notin {"getc_read", "echo_out", "sleep", "sleep_unlock", "sleep_switch",
                      "sleep_relock", "sleep_release"}
         /\ b \notin {"add_push", "com1_drain", "wakeup", "wakeup_scan", "com1_release"}
BY DEF OpenLabels, Labels, Depth, Holds, SchedHeld, ReadHeld, InService, BaseLabels, Bottom, BootLabels

\* A trap pushes the place it interrupts, where IF was set.
LEMMA TrapInv ==
  ASSUME IInv, NEW c \in Cpus, NEW h, NEW if, ints[c], TrapTo(c, h, if), DevType',
         \/ if = FALSE /\ h \in {"timer", "com1", "spurious"}
         \/ if = TRUE /\ h \in SyscallEntries /\ on[c] \notin Cpus,
         isr'[c] => h \in {"timer", "com1"}, \A d \in Cpus : d # c => isr'[d] = isr[d]
  PROVE  IInv'
<1>1. /\ TypeOK /\ FlagInv(c) /\ LockInv(c) /\ ThreadInv(on[c])
      /\ on[c] \in Threads /\ h \in Labels /\ spin[c] = NULL
      /\ Here(c) \in OpenLabels /\ ints[c] = TRUE
  BY Where DEF IInv, FlagInv, TrapTo, Labels, SyscallEntries, TypeOK
<1>2. /\ ints' = [ints EXCEPT ![c] = if] /\ pc' = [pc EXCEPT ![on[c]] = h]
      /\ ret' = [ret EXCEPT ![on[c]] = <<[pc |-> Here(c), ints |-> TRUE]>> \o @]
      /\ UNCHANGED <<on, cproc, intena, st, chan, readyq, waitq, newp,
                     layer, int_enabled, owner, spin, panic>>
  BY <1>1 DEF TrapTo, Goto, Here
<1>3. /\ h \notin BaseLabels /\ Depth(h) = 0 /\ (\A k \in Locks : ~Holds(h, k))
      /\ h \notin {"none", "back", "sleep_back"} /\ h \notin BootLabels
      /\ h \in SchedulerLabels \/ h \in SyscallEntries
      /\ h \notin SchedulerOnly
  BY DEF SyscallEntries, BaseLabels, Bottom, Depth, Holds, SchedHeld, ReadHeld, BootLabels,
         SchedulerLabels, SchedulerOnly
<1>4. Move(c, h) /\ Here(c)' = h /\ pc'[on[c]] = h
  BY <1>1, <1>2 DEF Move, TypeOK, Here
<1>5. Follows(c, h)
  <2>1. on[c] \in Cpus => h \in SchedulerLabels
    BY DEF SchedulerLabels
  <2>. QED BY <1>1, <1>3, <2>1, OpenFacts DEF Follows, BootLabels
<1>6. CpuLocal(c)
  BY <1>1, <1>2 DEF CpuLocal, TypeOK
<1>7. /\ Here(c) \in Labels /\ [pc |-> Here(c), ints |-> TRUE] \in [pc : Labels, ints : BOOLEAN]
      /\ ret[on[c]] \in Seq([pc : Labels, ints : BOOLEAN])
  BY <1>1, Stand DEF TypeOK
<1>8. ret'[on[c]] = <<[pc |-> Here(c), ints |-> TRUE]>> \o ret[on[c]]
  BY <1>1, <1>2 DEF TypeOK
<1>9. TypeOK'
  <2>1. FrameType'
    <3> DEFINE F == [pc : Labels, ints : BOOLEAN]
               r == <<[pc |-> Here(c), ints |-> TRUE]>> \o ret[on[c]]
    <3>1. r \in Seq(F)
      BY SMT, <1>7
    <3>2. ret' = [ret EXCEPT ![on[c]] = r] /\ ret \in [Threads -> Seq(F)]
      BY <1>1, <1>2 DEF TypeOK
    <3> HIDE DEF r
    <3>. QED BY <3>1, <3>2 DEF FrameType
  <2>2. CpuType'
    BY <1>1, <1>2 DEF CpuType, TypeOK
  <2>. QED BY <1>1, <1>4, <2>1, <2>2, MoveType
<1>10. LockInv(c)'
  BY <1>1, <1>2, <1>3, <1>4, OpenFacts DEF LockInv
<1>11. FlagInv(c)'
  <2>1. ints'[c] = if /\ spin'[c] = NULL /\ panic'[c] \in {NULL, "uart buffer full"}
    BY <1>1, <1>2 DEF FlagInv, TypeOK
  <2>2. if = TRUE => h \in OpenLabels
    BY DEF SyscallEntries, OpenLabels
  <2>. QED BY <1>4, <2>1, <2>2 DEF FlagInv, InService, SyscallEntries, Bottom
<1>12. ThreadInv(on[c])'
  <2> DEFINE s == ret[on[c]]
             f == [pc |-> Here(c), ints |-> TRUE]
  <2>1. /\ Len(s) \in Nat /\ Len(<<f>> \o s) = Len(s) + 1 /\ (<<f>> \o s)[1] = f
        /\ \A i \in 1..Len(s) : (<<f>> \o s)[i + 1] = s[i]
        /\ <<f>> \o s # <<>> /\ (s = <<>> <=> Len(s) = 0)
    BY SMT, <1>7
  <2>2. \A i \in 1..Len(s) : /\ s[i].ints /\ s[i].pc \in OpenLabels
                             /\ s[i].pc \in Bottom <=> i = Len(s)
                             /\ on[c] \in Cpus => s[i].pc \in SchedulerLabels
                             /\ on[c] \notin Cpus => s[i].pc \notin SchedulerOnly
    BY <1>1 DEF ThreadInv
  <2>3. /\ f.ints /\ f.pc \in OpenLabels /\ (f.pc \in Bottom <=> 1 = Len(s) + 1)
        /\ on[c] \in Cpus => f.pc \in SchedulerLabels
        /\ on[c] \notin Cpus => f.pc \notin SchedulerOnly
    <3>1. f.pc \in Bottom <=> Len(s) = 0
      BY <1>1, <2>1, OpenFacts, Stand
    <3>. QED BY SMT, <1>1, <2>1, <3>1, Stand
  <2>4. \A i \in 1..(Len(s) + 1) : i = 1 \/ (i - 1 \in 1..Len(s) /\ (<<f>> \o s)[i] = s[i - 1]
                                             /\ (i = Len(s) + 1 <=> i - 1 = Len(s)))
    <3>1. \A i \in 1..(Len(s) + 1) : i = 1 \/ (i - 1 \in 1..Len(s) /\ (i - 1) + 1 = i
                                                /\ (i = Len(s) + 1 <=> i - 1 = Len(s)))
      BY SMT, <2>1
    <3>. QED BY SMT, <2>1, <3>1
  <2> HIDE DEF s, f
  <2>5. /\ ret'[on[c]] = <<f>> \o s /\ on' = on
        /\ \A i \in 1..Len(ret'[on[c]]) :
             /\ ret'[on[c]][i].ints /\ ret'[on[c]][i].pc \in OpenLabels
             /\ ret'[on[c]][i].pc \in Bottom <=> i = Len(ret'[on[c]])
             /\ on[c] \in Cpus => ret'[on[c]][i].pc \in SchedulerLabels
             /\ on[c] \notin Cpus => ret'[on[c]][i].pc \notin SchedulerOnly
    <3>1. ret'[on[c]] = <<f>> \o s /\ on' = on /\ Len(ret'[on[c]]) = Len(s) + 1
      BY <1>2, <1>8, <2>1 DEF s, f
    <3>2. ASSUME NEW i \in 1..(Len(s) + 1)
          PROVE  LET e == (<<f>> \o s)[i]
                 IN  /\ e.ints /\ e.pc \in OpenLabels
                     /\ e.pc \in Bottom <=> i = Len(s) + 1
                     /\ on[c] \in Cpus => e.pc \in SchedulerLabels
                     /\ on[c] \notin Cpus => e.pc \notin SchedulerOnly
      <4>1. CASE i = 1
        BY <2>1, <2>3, <4>1
      <4>2. CASE i # 1
        BY <2>2, <2>4, <4>2
      <4>. QED BY <4>1, <4>2
    <3>. QED BY <3>1, <3>2
  <2>6. ret'[on[c]] # <<>>
    BY <2>1, <2>5
  <2>. QED BY <1>3, <1>4, <2>5, <2>6 DEF ThreadInv
<1>. QED BY <1>1, <1>4, <1>5, <1>6, <1>9, <1>10, <1>11, <1>12, MoveInv

\* return_from_isr goes back to a place where IF was set.
LEMMA IretInv ==
  ASSUME IInv, NEW c \in Cpus, Iret(c)
  PROVE  IInv' /\ Here(c) = "iret" /\ pc' = [pc EXCEPT ![on[c]] = Head(ret[on[c]]).pc]
               /\ Head(ret[on[c]]).pc \in OpenLabels
<1> DEFINE s == ret[on[c]]
           b == Head(s).pc
<1>1. /\ TypeOK /\ FlagInv(c) /\ LockInv(c) /\ ThreadInv(on[c])
      /\ on[c] \in Threads /\ Here(c) = "iret" /\ spin[c] = NULL
      /\ s # <<>> /\ s \in Seq([pc : Labels, ints : BOOLEAN])
  BY Where, Stand DEF IInv, Iret, At, Here, Awaits, TypeOK, BaseLabels, Bottom
<1>2. /\ Len(s) \in Nat \ {0} /\ Head(s) = s[1] /\ 1 \in 1..Len(s)
      /\ Tail(s) \in Seq([pc : Labels, ints : BOOLEAN]) /\ Len(Tail(s)) = Len(s) - 1
      /\ \A i \in 1..Len(Tail(s)) : Tail(s)[i] = s[i + 1]
      /\ Tail(s) = <<>> <=> Len(s) = 1
  <2>1. /\ Len(s) \in Nat \ {0} /\ Head(s) = s[1] /\ 1 \in 1..Len(s)
        /\ Tail(s) \in Seq([pc : Labels, ints : BOOLEAN]) /\ Len(Tail(s)) = Len(s) - 1
        /\ \A i \in 1..Len(Tail(s)) : Tail(s)[i] = s[i + 1]
    BY SMT, <1>1, SeqHeadTail, SeqBasics
  <2>2. Tail(s) = <<>> <=> Len(Tail(s)) = 0
    BY <2>1, SeqBasics
  <2>. QED BY SMT, <2>1, <2>2
<1>3. \A i \in 1..Len(s) : /\ s[i].ints /\ s[i].pc \in OpenLabels
                           /\ s[i].pc \in Bottom <=> i = Len(s)
                           /\ on[c] \in Cpus => s[i].pc \in SchedulerLabels
                           /\ on[c] \notin Cpus => s[i].pc \notin SchedulerOnly
  BY <1>1 DEF ThreadInv
<1>4. /\ Head(s).ints /\ b \in OpenLabels /\ (b \in Bottom <=> Len(s) = 1)
      /\ on[c] \in Cpus => b \in SchedulerLabels
      /\ on[c] \notin Cpus => b \notin SchedulerOnly
  BY <1>2, <1>3
<1>5. Head(s).ints = TRUE
  BY <1>1, <1>2, <1>4
<1>6. /\ pc' = [pc EXCEPT ![on[c]] = b] /\ ints' = [ints EXCEPT ![c] = TRUE]
      /\ ret' = [ret EXCEPT ![on[c]] = Tail(@)]
      /\ UNCHANGED <<on, cproc, intena, st, chan, readyq, waitq, newp,
                     layer, int_enabled, owner, spin, panic, devVars>>
  BY <1>5 DEF Iret, Goto
<1> HIDE DEF b
<1>7. /\ b \in Labels /\ Depth(b) = 0 /\ (\A k \in Locks : ~Holds(b, k))
      /\ b \notin InService /\ (b \in BaseLabels <=> b \in Bottom)
      /\ b \notin {"none", "back", "sleep_back"} /\ b \notin BootLabels
      /\ b \notin {"getc_read", "echo_out", "sleep", "sleep_unlock", "sleep_switch",
                   "sleep_relock", "sleep_release"}
      /\ b \notin {"add_push", "com1_drain", "wakeup", "wakeup_scan", "com1_release"}
  BY <1>4, OpenFacts
<1>8. Move(c, b) /\ Here(c)' = b /\ pc'[on[c]] = b /\ ret'[on[c]] = Tail(s)
  BY <1>1, <1>6 DEF Move, TypeOK, Here
<1>9. Follows(c, b)
  BY <1>1, <1>4, <1>7 DEF Follows, BootLabels
<1>10. CpuLocal(c)
  BY <1>1, <1>6 DEF CpuLocal, TypeOK, devVars
<1>11. TypeOK'
  <2>1. FrameType' /\ DevType'
    BY <1>1, <1>2, <1>6 DEF FrameType, DevType, TypeOK, devVars
  <2>2. CpuType'
    BY <1>1, <1>6 DEF CpuType, TypeOK
  <2>. QED BY <1>7, <1>8, <2>1, <2>2, MoveType
<1>12. LockInv(c)'
  <2>1. Depth(Here(c)) = 0 /\ \A k \in Locks : ~Holds(Here(c), k)
    BY <1>1 DEF Depth, Holds, SchedHeld, ReadHeld
  <2>. QED BY <1>1, <1>6, <1>7, <1>8, <2>1 DEF LockInv
<1>13. FlagInv(c)'
  <2>1. ints'[c] /\ spin'[c] = NULL /\ panic'[c] \in {NULL, "uart buffer full"}
    BY <1>1, <1>6 DEF FlagInv, TypeOK
  <2>2. ~isr'[c]
    BY <1>1, <1>6 DEF FlagInv, InService, devVars
  <2>. QED BY <1>4, <1>7, <1>8, <2>1, <2>2 DEF FlagInv
<1>14. ThreadInv(on[c])'
  <2>1. \A i \in 1..Len(Tail(s)) : i + 1 \in 1..Len(s) /\ (i = Len(Tail(s)) <=> i + 1 = Len(s))
    BY SMT, <1>2
  <2>2. \A i \in 1..Len(Tail(s)) : /\ Tail(s)[i].ints /\ Tail(s)[i].pc \in OpenLabels
                                   /\ Tail(s)[i].pc \in Bottom <=> i = Len(Tail(s))
                                   /\ on[c] \in Cpus => Tail(s)[i].pc \in SchedulerLabels
                                   /\ on[c] \notin Cpus => Tail(s)[i].pc \notin SchedulerOnly
    BY <1>2, <1>3, <2>1
  <2>3. b \in BaseLabels <=> Tail(s) = <<>>
    BY <1>2, <1>4, <1>7
  <2>4. on' = on /\ ret'[on[c]] = Tail(s) /\ pc'[on[c]] = b
    BY <1>6, <1>8
  <2> HIDE DEF s
  <2>. QED BY <1>4, <1>7, <2>2, <2>3, <2>4 DEF ThreadInv
<1>. QED BY <1>1, <1>4, <1>6, <1>7, <1>8, <1>9, <1>10, <1>11, <1>12, <1>13, <1>14, MoveInv DEF b

-----------------------------------------------------------------------------
(* Interrupt handlers and the console.                                     *)

\* The spurious and the timer handler, the system calls, the end of
\* handle_interrupt and the shell between two characters touch no lock.
LEMMA HandlerInv ==
  ASSUME IInv, NEW c \in Cpus,
         \/ SpuriousHandler(c) \/ TimerHandler(c) \/ HandlerTail(c) \/ SysConRead(c) \/ ShellLoop(c)
  PROVE  IInv'
<1>0. /\ TypeOK /\ FlagInv(c) /\ PlaceInv(c) /\ (spin[c] # NULL => Awaits(Here(c), spin[c]))
      /\ on[c] \in Cpus => on[c] = c /\ Here(c) \in SchedulerLabels
      /\ on[c] \notin Cpus => Here(c) \notin SchedulerOnly
  BY Stand, Where DEF IInv
<1>1. PICK b \in {"tail", "tail_yield", "iret", "getc"} :
        /\ \/ Here(c) \in {"spurious", "timer", "sys_con_read"} /\ b = "tail"
           \/ Here(c) = "tail" /\ b = "tail_yield" /\ cproc[c] # NULL
           \/ Here(c) = "tail" /\ b = "iret"
           \/ Here(c) = "main" /\ b = "getc"
        /\ pc' = [pc EXCEPT ![on[c]] = b]
  <2>1. CASE SpuriousHandler(c) \/ TimerHandler(c) \/ SysConRead(c)
    BY <2>1 DEF SpuriousHandler, TimerHandler, SysConRead, At, Goto, Here
  <2>2. CASE HandlerTail(c)
    BY <2>2 DEF HandlerTail, At, Goto, Here
  <2>3. CASE ShellLoop(c)
    BY <2>3 DEF ShellLoop, At, Goto, Here
  <2>. QED BY <2>1, <2>2, <2>3
<1>2. /\ UNCHANGED <<cpuVars, on, cproc, ret, intena, chan, readyq, waitq, newp>>
      /\ st' = st \/ st' = Preempted(c)
      /\ isr' = isr \/ isr' = [isr EXCEPT ![c] = FALSE]
      /\ Here(c) = "timer" => isr' = [isr EXCEPT ![c] = FALSE]
      /\ UNCHANGED <<irr, rx, fifo, got, sent>>
  BY DEF SpuriousHandler, TimerHandler, HandlerTail, SysConRead, ShellLoop, Eoi, devVars, At, Here
<1>3. b \in Labels /\ spin[c] = NULL
  BY <1>0, <1>1 DEF Labels, Awaits
<1>4. Move(c, b)
  BY <1>1, <1>2 DEF Move
<1>5. Follows(c, b)
  <2>1. /\ b \notin {"none", "back", "sleep_back"} /\ Here(c) # "back"
        /\ b \notin BootLabels /\ Here(c) \notin BootLabels /\ b \notin SchedulerOnly
    BY <1>1 DEF BootLabels, SchedulerOnly
  <2>2. on[c] \in Cpus => b \in {"tail", "iret"}
    BY <1>0, <1>1 DEF PlaceInv, Here, SchedulerLabels, SchedulerOnly
  <2>. QED BY <2>1, <2>2 DEF Follows, SchedulerLabels, BootLabels
<1>6. DevType'
  BY <1>0, <1>2 DEF DevType, TypeOK
<1>7. /\ \A k \in Locks : ~Holds(b, k) /\ ~Holds(Here(c), k)
      /\ Depth(b) = 0 /\ Depth(Here(c)) = 0
      /\ b \in BaseLabels <=> Here(c) \in BaseLabels
  BY <1>1 DEF Holds, Depth, SchedHeld, ReadHeld, BaseLabels, Bottom
<1>8. b \in Bottom => ints[c]
  BY <1>0, <1>1, <1>3 DEF FlagInv, Bottom
<1>9. ~isr'[c] /\ \A d \in Cpus : d # c => isr'[d] = isr[d]
  <2>1. Here(c) # "timer" => ~isr[c]
    BY <1>0, <1>1 DEF FlagInv, InService
  <2>. QED BY SMT, <1>0, <1>2, <2>1 DEF TypeOK
<1>10. b \in OpenLabels
  BY DEF OpenLabels
<1>. QED BY <1>2, <1>3, <1>4, <1>5, <1>6, <1>7, <1>8, <1>9, <1>10, QuietMove

\* console_isr_handler gives its lock back, after which the EOI is sent.
LEMMA Com1ReleaseInv ==
  ASSUME IInv, NEW c \in Cpus, Com1Release(c)
  PROVE  IInv'
<1>1. Here(c) = "com1_release" /\ spin[c] = NULL /\ TypeOK /\ FlagInv(c)
  BY Stand DEF Com1Release, At, Here, Awaits, IInv
<1>2. Move(c, "tail") /\ Follows(c, "tail")
  BY <1>1, Stand DEF Com1Release, Goto, Move, Follows, BootLabels, SchedulerLabels, SchedulerOnly
<1>3. DevType' /\ "tail" \in Labels /\ "console_read" \in Locks
  BY <1>1, SchedAssumption DEF DevType, TypeOK, Com1Release, Eoi, Labels
<1>4. ~isr'[c] /\ \A d \in Cpus : d # c => isr'[d] = isr[d]
  BY <1>1 DEF Com1Release, Eoi, TypeOK
<1>. QED BY SMT, <1>1, <1>2, <1>3, <1>4, ReleaseMove
         DEF Releases, Com1Release, Holds, Depth, SchedHeld, ReadHeld, BaseLabels, Bottom, OpenLabels

\* putchar() gives console_lock back.
LEMMA EchoOutInv ==
  ASSUME IInv, NEW c \in Cpus, EchoOut(c)
  PROVE  IInv'
<1>1. Here(c) = "echo_out" /\ spin[c] = NULL /\ TypeOK /\ FlagInv(c)
  BY Stand DEF EchoOut, At, Here, Awaits, IInv
<1>2. Move(c, "main") /\ Follows(c, "main")
  BY <1>1, Stand DEF EchoOut, Goto, Move, Follows, BootLabels, SchedulerLabels, SchedulerOnly
<1>3. DevType' /\ "main" \in Labels /\ "console" \in Locks
  BY <1>1, SchedAssumption DEF DevType, TypeOK, EchoOut, devVars, Labels
<1>4. ~isr'[c] /\ int_enabled[c]
  BY <1>1 DEF FlagInv, InService, EchoOut, devVars
<1>. QED BY SMT, <1>1, <1>2, <1>3, <1>4, ReleaseMove
         DEF Releases, EchoOut, Holds, Depth, SchedHeld, ReadHeld, BaseLabels, Bottom, OpenLabels, devVars

\* console_getc(): a character, or on to sched_sleep().
LEMMA GetcReadInv ==
  ASSUME IInv, NEW c \in Cpus, GetcRead(c)
  PROVE  IInv'
<1>1. Here(c) = "getc_read" /\ spin[c] = NULL /\ TypeOK /\ FlagInv(c) /\ cproc[c] # NULL
  BY Stand, Where DEF GetcRead, At, Here, Awaits, IInv, SchedulerLabels, SchedulerOnly
<1>2. ~isr'[c] /\ int_enabled[c] /\ ~ints[c] /\ isr' = isr
  BY <1>1 DEF FlagInv, InService, OpenLabels, GetcRead
<1>3. CASE fifo = <<>>
  <2>1. Move(c, "sleep") /\ Follows(c, "sleep")
    BY <1>1, <1>3, Stand DEF GetcRead, Goto, Move, Follows, BootLabels, SchedulerLabels, SchedulerOnly
  <2>2. DevType' /\ "sleep" \in Labels /\ UNCHANGED <<cpuVars, ret>>
    BY <1>1, <1>3 DEF DevType, TypeOK, GetcRead, Labels
  <2>. QED BY SMT, <1>1, <1>2, <2>1, <2>2, QuietMove
           DEF Holds, Depth, SchedHeld, ReadHeld, BaseLabels, Bottom
<1>4. CASE fifo # <<>>
  <2>1. PICK b \in {"main", "echo"} : Goto(c, b)
    BY <1>4 DEF GetcRead
  <2>2. Move(c, b) /\ Follows(c, b)
    BY <1>1, <2>1, Stand DEF GetcRead, Goto, Move, Follows, BootLabels, SchedulerLabels, SchedulerOnly
  <2>3. DevType' /\ b \in Labels /\ "console_read" \in Locks
    <3>1. fifo' \in Seq(Nat) /\ got' \in Seq(Nat)
      <4>1. fifo \in Seq(Nat) /\ got \in Seq(Nat)
        BY <1>1 DEF TypeOK
      <4>2. Tail(fifo) \in Seq(Nat) /\ Append(got, Head(fifo)) \in Seq(Nat)
        BY <1>4, <4>1, SeqHeadTail, SeqAppend
      <4>. QED BY <1>4, <4>2 DEF GetcRead
    <3>. QED BY <1>1, <3>1, SchedAssumption DEF DevType, TypeOK, GetcRead, Labels
  <2>4. Release(c, "console_read") /\ ret' = ret
    BY <1>4 DEF GetcRead
  <2>5. b \in OpenLabels /\ b \in Bottom /\ b \in BaseLabels /\ Here(c) \in BaseLabels
    BY <1>1 DEF OpenLabels, BaseLabels, Bottom
  <2>. QED BY SMT, <1>1, <1>2, <2>2, <2>3, <2>4, <2>5, ReleaseMove
           DEF Releases, Holds, Depth, SchedHeld, ReadHeld, OpenLabels
<1>. QED BY <1>3, <1>4

\* console_isr_handler moves characters, or stops at a full buffer.
LEMMA DrainUartInv ==
  ASSUME IInv, NEW c \in Cpus, DrainUart(c)
  PROVE  IInv'
<1>1. /\ Here(c) = "com1_drain" /\ spin[c] = NULL /\ TypeOK /\ FlagInv(c) /\ LockInv(c)
      /\ on[c] \in Threads
  BY Stand, Where DEF DrainUart, At, Here, Awaits, IInv
<1>2. ~int_enabled[c] /\ ~ints[c] /\ isr' = isr /\ ret' = ret
  BY <1>1 DEF FlagInv, OpenLabels, DrainUart
<1>3. DevType'
  <2>1. fifo' \in Seq(Nat) /\ rx' \in Seq(Nat)
    <3>1. fifo \in Seq(Nat) /\ rx \in Seq(Nat)
      BY <1>1 DEF TypeOK
    <3>2. rx # <<>> => Tail(rx) \in Seq(Nat) /\ Append(fifo, Head(rx)) \in Seq(Nat)
      BY <3>1, SeqHeadTail, SeqAppend
    <3>. QED BY <3>1, <3>2 DEF DrainUart
  <2>. QED BY <1>1, <2>1 DEF DevType, TypeOK, DrainUart
<1>4. CASE rx = <<>>
  <2>1. Move(c, "wakeup") /\ Follows(c, "wakeup")
    BY <1>1, <1>4, Stand DEF DrainUart, Goto, Move, Follows, BootLabels, SchedulerLabels, SchedulerOnly
  <2>2. "wakeup" \in Labels /\ UNCHANGED cpuVars
    BY <1>4 DEF DrainUart, Labels
  <2>. QED BY SMTT(30), <1>1, <1>2, <1>3, <2>1, <2>2, QuietMove
           DEF Holds, Depth, SchedHeld, ReadHeld, BaseLabels, Bottom, InService
<1>5. CASE rx # <<>>
  <2>1. Move(c, "com1_drain") /\ Follows(c, "com1_drain") /\ "com1_drain" \in Labels
    <3>1. pc' = pc /\ pc = [pc EXCEPT ![on[c]] = "com1_drain"]
      BY <1>1, <1>5 DEF DrainUart, TypeOK, Here
    <3>. QED BY <1>1, <3>1, Stand DEF DrainUart, Move, Follows, BootLabels, SchedulerLabels, SchedulerOnly, Labels
  <2>2. CASE UNCHANGED cpuVars
    BY <1>1, <1>2, <1>3, <2>1, <2>2, QuietMove DEF Bottom, InService
  <2>3. CASE Panic(c, "uart buffer full")
    <3>1. /\ panic' = [panic EXCEPT ![c] = "uart buffer full"]
          /\ ints' = [ints EXCEPT ![c] = FALSE] /\ UNCHANGED <<layer, int_enabled, owner, spin>>
      BY <2>3 DEF Panic
    <3>2. TypeOK'
      BY <1>1, <1>2, <1>3, <2>1, <3>1, MoveType DEF CpuType, FrameType, TypeOK, Messages
    <3>3. CpuLocal(c)
      BY <1>1, <1>2, <3>1 DEF CpuLocal, TypeOK
    <3>4. Here(c)' = "com1_drain"
      BY <1>1, <2>1 DEF Move, Here, TypeOK
    <3>5. LockInv(c)'
      BY <1>1, <3>1, <3>4 DEF LockInv
    <3>6. FlagInv(c)'
      <4>1. ~ints'[c] /\ panic'[c] = "uart buffer full" /\ spin'[c] = NULL /\ ~int_enabled'[c]
        BY <1>1, <1>2, <3>1 DEF TypeOK
      <4>. QED BY <3>4, <4>1 DEF FlagInv, InService, Bottom
    <3>. QED BY <1>1, <1>2, <2>1, <3>2, <3>3, <3>5, <3>6, SameFrames, MoveInv
  <2>. QED BY <1>5, <2>2, <2>3 DEF DrainUart
<1>. QED BY <1>4, <1>5

\* sched_wakeup() has moved its waiters.
LEMMA WakeupDoneInv ==
  ASSUME IInv, NEW c \in Cpus, At(c, "wakeup_scan"), Release(c, "sched"), Goto(c, "com1_release"),
         UNCHANGED <<on, cproc, ret, intena, st, chan, readyq, waitq, newp, devVars>>
  PROVE  IInv'
<1>1. Here(c) = "wakeup_scan" /\ spin[c] = NULL /\ TypeOK /\ FlagInv(c)
  BY Stand DEF At, Here, Awaits, IInv
<1>2. Move(c, "com1_release") /\ Follows(c, "com1_release")
  BY <1>1, Stand DEF Goto, Move, Follows, BootLabels, SchedulerLabels, SchedulerOnly
<1>3. DevType' /\ "com1_release" \in Labels /\ "sched" \in Locks
  BY <1>1, SchedAssumption DEF DevType, TypeOK, devVars, Labels
<1>4. ~int_enabled[c]
  BY <1>1 DEF FlagInv
<1>. QED BY SMT, <1>1, <1>2, <1>3, <1>4, ReleaseMove
         DEF Releases, Holds, Depth, SchedHeld, ReadHeld, BaseLabels, Bottom, OpenLabels, InService, devVars

-----------------------------------------------------------------------------
(* Boot.                                                                   *)

\* A thread that is made to start in proc_kentry().
LEMMA FreshThread ==
  ASSUME NEW t, t \notin Cpus, pc'[t] = "kentry", ret'[t] = <<MainFrame>>
  PROVE  ThreadInv(t)'
<1>1. /\ Len(<<MainFrame>>) = 1 /\ <<MainFrame>>[1] = MainFrame /\ <<MainFrame>> # <<>>
      /\ MainFrame.ints /\ MainFrame.pc = "main"
  BY DEF MainFrame
<1>2. \A i \in 1..Len(ret'[t]) : ret'[t][i] = MainFrame /\ i = Len(ret'[t])
  BY SMT, <1>1
<1> HIDE DEF MainFrame
<1>. QED BY <1>1, <1>2 DEF ThreadInv, SchedulerOnly, Parked, BaseLabels, Bottom, OpenLabels

\* A thread left alone.
LEMMA SameThread ==
  ASSUME IInv, NEW t \in Threads, UNCHANGED <<pc[t], ret[t], intena[t]>>,
         t \notin Cpus => \A c \in Cpus : on[c] = t => on'[c] = t
  PROVE  ThreadInv(t)'
<1>1. ThreadInv(t)
  BY DEF IInv
<1>. QED BY <1>1 DEF ThreadInv

\* Only the boot CPU is in mpmain, and on its own stack.
LEMMA InMpmain ==
  ASSUME IInv, NEW c \in Cpus, Here(c) \in {"mpmain", "sched_add", "add_push"}
  PROVE  on[c] = c /\ c = Bsp /\ pc[c] = Here(c) /\ cproc[c] = NULL
<1>1. on[c] = c /\ PlaceInv(c)
  BY Stand, Where DEF SchedulerOnly, IInv
<1>. QED BY <1>1 DEF PlaceInv, Here

\* proc_alloc() and sched_create_kproc() touch a slot nobody uses.
LEMMA CreateProcInv ==
  ASSUME IInv, NEW c \in Cpus, CreateProc(c), UNCHANGED devVars
  PROVE  IInv'
<1>1. /\ TypeOK /\ QueueInv /\ Here(c) = "mpmain" /\ on[c] = c /\ c = Bsp /\ pc[c] = "mpmain"
      /\ cproc[c] = NULL /\ spin[c] = NULL /\ FlagInv(c) /\ LockInv(c) /\ PlaceInv(c)
      /\ UNCHANGED <<on, cproc, intena, chan, readyq, waitq, cpuVars>>
  BY InMpmain, Stand DEF CreateProc, At, Here, IInv, Awaits
<1>2. PICK p \in Procs :
        /\ st[p] = "UNUSED" /\ newp' = p /\ st' = [st EXCEPT ![p] = "RUNNABLE"]
        /\ pc' = [pc EXCEPT ![p] = "kentry", ![c] = "sched_add"]
        /\ ret' = [ret EXCEPT ![p] = <<MainFrame>>]
  BY DEF CreateProc
<1>3. /\ p \in Threads /\ p \notin Cpus /\ p # NULL /\ p \notin Idles /\ p # c /\ c \in Threads
  BY Kinds DEF Idles
<1>4. /\ pc[p] = "none" /\ newp = NULL /\ ~Queued(p)
      /\ \A d \in Cpus : cproc[d] # p /\ on[d] # p
  <2>1. pc[p] = "none" /\ newp = NULL /\ ~Queued(p)
    BY <1>1, <1>2 DEF QueueInv
  <2>2. \A d \in Cpus : cproc[d] # p
    BY SMT, <1>3, <2>1 DEF IInv, PlaceInv
  <2>. QED BY <1>3, <2>1, <2>2, Where
<1>5. /\ pc'[p] = "kentry" /\ pc'[c] = "sched_add"
      /\ \A t \in Threads : t # p /\ t # c => pc'[t] = pc[t]
      /\ ret'[p] = <<MainFrame>> /\ \A t \in Threads : t # p => ret'[t] = ret[t]
      /\ st'[p] = "RUNNABLE" /\ \A q \in Procs \cup Idles : q # p => st'[q] = st[q]
  BY <1>1, <1>2, <1>3 DEF TypeOK
<1>6. TypeOK'
  <2>1. pc' \in [Threads -> Labels]
    BY <1>1, <1>2, <1>3 DEF TypeOK, Labels
  <2>2. st' \in [Procs \cup Idles -> States] /\ newp' \in Procs \cup {NULL}
    BY <1>1, <1>2 DEF TypeOK, States
  <2>3. ret' \in [Threads -> Seq([pc : Labels, ints : BOOLEAN])]
    <3>1. <<MainFrame>> \in Seq([pc : Labels, ints : BOOLEAN])
      BY SMT DEF MainFrame, Labels
    <3>. QED BY <1>1, <1>2, <3>1 DEF TypeOK
  <2>. QED BY <1>1, <2>1, <2>2, <2>3 DEF TypeOK, cpuVars, devVars
<1>7. CpuLocal(c)
  BY <1>1 DEF CpuLocal, cpuVars, devVars
<1>8. ASSUME NEW d \in Cpus PROVE LockInv(d)' /\ FlagInv(d)' /\ PlaceInv(d)'
  <2>1. CASE d = c
    <3>1. Here(c)' = "sched_add"
      BY <1>1, <1>5 DEF Here
    <3>2. LockInv(c)'
      BY <1>1, <3>1 DEF LockInv, Holds, Depth, SchedHeld, ReadHeld, cpuVars
    <3>3. FlagInv(c)'
      BY <1>1, <3>1 DEF FlagInv, OpenLabels, Bottom, InService, cpuVars, devVars
    <3>4. PlaceInv(c)'
      <4>1. pc'[idle_proc[c]] = pc[idle_proc[c]]
        BY SMT, <1>3, <1>5, Kinds
      <4>. QED BY <1>1, <1>5, <4>1 DEF PlaceInv, SchedulerLabels, SchedulerOnly, BootLabels
    <3>. QED BY <2>1, <3>2, <3>3, <3>4
  <2>2. CASE d # c
    <3>1. /\ on[d] \in Threads /\ on[d] # c /\ d \in Threads /\ on'[d] = on[d] /\ d # p
          /\ idle_proc[d] \in Threads /\ idle_proc[d] # c /\ idle_proc[d] # p
          /\ cproc[d] # NULL => cproc[d] \in Threads /\ cproc[d] # c /\ cproc[d] \in Procs \cup Idles
      BY SMT, <1>1, <1>3, <2>2, Where, OwnStack, Kinds
    <3>2. LockInv(d)' /\ FlagInv(d)'
      BY <1>4, <1>5, <1>7, <2>2, <3>1, OthersKeep
    <3>3. PlaceInv(d)'
      <4>1. /\ PlaceInv(d) /\ cproc'[d] = cproc[d] /\ chan' = chan
            /\ pc'[d] = pc[d] /\ pc'[idle_proc[d]] = pc[idle_proc[d]]
            /\ cproc[d] # NULL => pc'[cproc[d]] = pc[cproc[d]] /\ st'[cproc[d]] = st[cproc[d]]
        BY <1>1, <1>4, <1>5, <2>2, <3>1 DEF IInv
      <4>2. on[d] # d => cproc[d] # NULL
        BY Where
      <4>. QED BY <3>1, <4>1, <4>2 DEF PlaceInv
    <3>. QED BY <3>2, <3>3
  <2>. QED BY <2>1, <2>2
<1>9. ASSUME NEW t \in Threads PROVE ThreadInv(t)'
  <2>1. CASE t = p
    BY <1>3, <1>5, <2>1, FreshThread
  <2>2. CASE t = c
    <3>1. ThreadInv(c)
      BY <1>3 DEF IInv
    <3>. QED BY SMT, <1>1, <1>3, <1>5, <2>2, <3>1 DEF ThreadInv, BaseLabels
  <2>3. CASE t # p /\ t # c
    BY <1>1, <1>5, <2>3, SameThread
  <2>. QED BY <2>1, <2>2, <2>3
<1>10. QueueInv'
  <2>1. \A q \in Procs : q # c /\ q \in Threads /\ (Queued(q)' <=> Queued(q))
    BY <1>1, Kinds DEF Queued
  <2>2. \A i \in 1..Len(waitq) : waitq[i] \in Procs /\ Queued(waitq[i])
    <3>1. waitq \in Seq(Procs)
      BY <1>1 DEF TypeOK
    <3>. QED BY <3>1, SeqBasics DEF Queued
  <2>3. \A q \in Procs : q # p => pc'[q] = pc[q] /\ st'[q] = st[q]
    BY <1>5, <2>1
  <2>4. /\ \A i, j \in 1..Len(readyq') : readyq'[i] = readyq'[j] => i = j
        /\ \A i, j \in 1..Len(waitq') : waitq'[i] = waitq'[j] => i = j
        /\ \A i \in 1..Len(readyq'), j \in 1..Len(waitq') : readyq'[i] # waitq'[j]
    BY SMT, <1>1 DEF QueueInv
  <2>5. \A q \in Procs : Queued(q)' => /\ q # newp' /\ pc'[q] \in Parked \ {"none"}
                                       /\ \A d \in Cpus : cproc'[d] # q
    <3>1. ASSUME NEW q \in Procs, Queued(q)
          PROVE  q # newp' /\ pc'[q] \in Parked \ {"none"} /\ \A d \in Cpus : cproc'[d] # q
      BY <1>1, <1>2, <1>4, <2>3, <3>1 DEF QueueInv
    <3>. QED BY <2>1, <3>1
  <2>6. \A i \in 1..Len(waitq') : pc'[waitq'[i]] = "sleep_back" /\ chan'[waitq'[i]] = "console_fifo"
    BY SMT, <1>1, <1>4, <2>2, <2>3 DEF QueueInv
  <2>7. /\ \A d, e \in Cpus : cproc'[d] = cproc'[e] /\ cproc'[d] # NULL => d = e
        /\ \A d \in Cpus : cproc'[d] # NULL => cproc'[d] # newp'
    BY <1>1, <1>2, <1>4 DEF QueueInv
  <2>8. newp' # NULL /\ pc'[Bsp] = "sched_add" /\ pc'[newp'] = "kentry"
    BY <1>1, <1>2, <1>3, <1>5
  <2>9. /\ \A q \in Procs : st'[q] = "UNUSED" <=> pc'[q] = "none"
        /\ \A q \in Procs : st'[q] # "UNUSED" => Queued(q)' \/ q = newp' \/ \E d \in Cpus : cproc'[d] = q
    <3>1. ASSUME NEW q \in Procs
          PROVE  /\ st'[q] = "UNUSED" <=> pc'[q] = "none"
                 /\ st'[q] # "UNUSED" => Queued(q) \/ q = newp' \/ \E d \in Cpus : cproc'[d] = q
      <4>1. CASE q = p
        BY <1>2, <1>5, <4>1
      <4>2. CASE q # p
        BY SMT, <1>1, <1>4, <2>3, <4>2, Kinds DEF QueueInv
      <4>. QED BY <4>1, <4>2
    <3>. QED BY <2>1, <3>1
  <2>. QED BY <2>4, <2>5, <2>6, <2>7, <2>8, <2>9 DEF QueueInv
<1>. QED BY <1>6, <1>8, <1>9, <1>10 DEF IInv

\* What a queue holds after queue_push_back().
LEMMA PushBack ==
  ASSUME NEW s \in Seq(Procs), NEW p \in Procs
  PROVE  /\ Append(s, p) \in Seq(Procs)
         /\ \A q : (\E i \in 1..Len(Append(s, p)) : Append(s, p)[i] = q)
                     <=> (\E i \in 1..Len(s) : s[i] = q) \/ q = p
         /\ \A i \in 1..Len(Append(s, p)) : Append(s, p)[i] = p \/ \E j \in 1..Len(s) : s[j] = Append(s, p)[i]
         /\ /\ \A i, j \in 1..Len(s) : s[i] = s[j] => i = j
            /\ \A i \in 1..Len(s) : s[i] # p
            => \A i, j \in 1..Len(Append(s, p)) : Append(s, p)[i] = Append(s, p)[j] => i = j
<1> DEFINE r == Append(s, p)
<1>1. /\ r \in Seq(Procs) /\ Len(s) \in Nat /\ Len(r) = Len(s) + 1
      /\ \A i \in 1..Len(s) : r[i] = s[i]
      /\ r[Len(s) + 1] = p
  BY SMT, SeqAppend, SeqBasics
<1>2. \A i \in 1..Len(r) : i \in 1..Len(s) \/ i = Len(s) + 1
  BY SMT, <1>1
<1>3. (\A i \in 1..Len(s) : i \in 1..Len(r)) /\ Len(s) + 1 \in 1..Len(r)
  BY SMT, <1>1
<1> HIDE DEF r
<1>4. \A q : (\E i \in 1..Len(r) : r[i] = q) <=> (\E i \in 1..Len(s) : s[i] = q) \/ q = p
  BY <1>1, <1>2, <1>3
<1>5. \A i \in 1..Len(r) : r[i] = p \/ \E j \in 1..Len(s) : s[j] = r[i]
  BY <1>1, <1>2
<1>6. /\ \A i, j \in 1..Len(s) : s[i] = s[j] => i = j
      /\ \A i \in 1..Len(s) : s[i] # p
      => \A i, j \in 1..Len(r) : r[i] = r[j] => i = j
  BY <1>1, <1>2
<1>. QED BY <1>1, <1>4, <1>5, <1>6 DEF r

Distinct(s) == \A i, j \in 1..Len(s) : s[i] = s[j] => i = j

\* The queue r holds what s holds and p.
Extended(s, r, p) ==
  /\ r \in Seq(Procs)
  /\ \A q : (\E i \in 1..Len(r) : r[i] = q) <=> (\E i \in 1..Len(s) : s[i] = q) \/ q = p
  /\ \A i \in 1..Len(r) : r[i] = p \/ \E j \in 1..Len(s) : s[j] = r[i]
  /\ Distinct(r)

\* A push to the back of a queue that does not hold p yet.
LEMMA Pushed ==
  ASSUME NEW s, NEW r, NEW p, s \in Seq(Procs), p \in Procs, r = Append(s, p),
         Distinct(s), \A i \in 1..Len(s) : s[i] # p
  PROVE  Extended(s, r, p)
<1> USE DEF Distinct, Extended
<1>1. Distinct(r)
  BY PushBack
<1>2. r \in Seq(Procs) /\ \A i \in 1..Len(r) : r[i] = p \/ \E j \in 1..Len(s) : s[j] = r[i]
  BY PushBack
<1>3. \A q : (\E i \in 1..Len(r) : r[i] = q) <=> (\E i \in 1..Len(s) : s[i] = q) \/ q = p
  BY SMT, PushBack
<1>. QED BY <1>1, <1>2, <1>3

\* sched_add() hands the new process to the ready queue.
LEMMA SchedAddInv ==
  ASSUME IInv, NEW c \in Cpus, SchedAdd(c), UNCHANGED devVars
  PROVE  IInv'
<1>1. /\ TypeOK /\ QueueInv /\ Here(c) = "add_push" /\ on[c] = c /\ c = Bsp /\ pc[c] = "add_push"
      /\ cproc[c] = NULL /\ spin[c] = NULL /\ FlagInv(c) /\ LockInv(c) /\ PlaceInv(c)
      /\ UNCHANGED <<on, cproc, ret, intena, st, chan, waitq>>
      /\ readyq' = Append(readyq, newp) /\ newp' = NULL /\ pc' = [pc EXCEPT ![c] = "mpmain"]
  BY InMpmain, Stand DEF SchedAdd, At, Here, IInv, Awaits, Goto
<1>2. /\ c \in Threads /\ \A t \in Procs \cup Idles : t \in Threads /\ t # c
  BY Kinds
<1>3. newp \in Procs /\ newp # NULL /\ pc[newp] = "kentry" /\ ~Queued(newp)
  BY <1>1 DEF QueueInv, TypeOK
<1>4. pc'[c] = "mpmain" /\ \A t \in Threads : t # c => pc'[t] = pc[t]
  BY <1>1, <1>2 DEF TypeOK
<1>5. CpuLocal(c) /\ CpuType' /\ LockInv(c)' /\ FlagInv(c)'
  <2>1. Here(c)' = "mpmain"
    BY <1>1, <1>4 DEF Here
  <2>2. ~int_enabled[c] /\ ~isr'[c]
    BY <1>1 DEF FlagInv, InService, devVars
  <2>3. Releases(c, "sched", "mpmain")
    BY SMTT(30), <1>1, <2>2, SchedAssumption
       DEF Releases, SchedAdd, Holds, Depth, SchedHeld, ReadHeld, Bottom, OpenLabels, devVars, Labels
  <2>. QED BY <2>1, <2>3, ReleaseLocal
<1>6. /\ readyq \in Seq(Procs) /\ readyq' \in Seq(Procs)
      /\ \A q : (\E i \in 1..Len(readyq') : readyq'[i] = q)
                  <=> (\E i \in 1..Len(readyq) : readyq[i] = q) \/ q = newp
      /\ \A i \in 1..Len(readyq') :
           readyq'[i] = newp \/ \E j \in 1..Len(readyq) : readyq[j] = readyq'[i]
      /\ \A i, j \in 1..Len(readyq') : readyq'[i] = readyq'[j] => i = j
  <2>1. readyq \in Seq(Procs)
    BY <1>1 DEF TypeOK
  <2>2. /\ \A i, j \in 1..Len(readyq) : readyq[i] = readyq[j] => i = j
        /\ \A i \in 1..Len(readyq) : readyq[i] # newp
    BY <1>1, <1>3 DEF QueueInv, Queued
  <2>3. newp \in Procs /\ readyq' = Append(readyq, newp)
    BY <1>1, <1>3
  <2>4. Distinct(readyq)
    BY <2>2 DEF Distinct
  <2>5. Extended(readyq, readyq', newp)
    BY <2>1, <2>2, <2>3, <2>4, Pushed
  <2>. QED BY <2>1, <2>5 DEF Extended, Distinct
<1>7. TypeOK'
  <2>1. pc' \in [Threads -> Labels]
    BY <1>1, <1>2 DEF TypeOK, Labels
  <2>. QED BY <1>1, <1>5, <1>6, <2>1 DEF TypeOK, CpuType, devVars
<1>8. ASSUME NEW d \in Cpus PROVE LockInv(d)' /\ FlagInv(d)' /\ PlaceInv(d)'
  <2>0. pc'[idle_proc[d]] = pc[idle_proc[d]]
    BY <1>2, <1>4, Kinds
  <2>1. CASE d = c
    <3>1. PlaceInv(c)'
      BY <1>1, <1>4, <2>0, <2>1 DEF PlaceInv, SchedulerLabels, SchedulerOnly, BootLabels
    <3>. QED BY <1>5, <2>1, <3>1
  <2>2. CASE d # c
    <3>1. /\ on[d] \in Threads /\ on[d] # c /\ d \in Threads /\ on'[d] = on[d]
          /\ cproc[d] # NULL => cproc[d] \in Threads /\ cproc[d] # c
      BY <1>1, <2>2, Where, OwnStack, Kinds
    <3>2. LockInv(d)' /\ FlagInv(d)'
      BY <1>4, <1>5, <2>2, <3>1, OthersKeep
    <3>3. /\ PlaceInv(d) /\ cproc'[d] = cproc[d] /\ chan' = chan /\ st' = st /\ pc'[d] = pc[d]
          /\ cproc[d] # NULL => pc'[cproc[d]] = pc[cproc[d]]
          /\ on[d] # d => cproc[d] # NULL
      BY <1>1, <1>4, <2>2, <3>1, Where DEF IInv
    <3>4. PlaceInv(d)'
      BY <2>0, <3>1, <3>3 DEF PlaceInv
    <3>. QED BY <3>2, <3>4
  <2>. QED BY <2>1, <2>2
<1>9. ASSUME NEW t \in Threads PROVE ThreadInv(t)'
  <2>1. CASE t = c
    <3>1. ThreadInv(c)
      BY <1>2 DEF IInv
    <3>. QED BY <1>1, <1>4, <2>1, <3>1 DEF ThreadInv, BaseLabels
  <2>2. CASE t # c
    BY <1>1, <1>4, <2>2, SameThread
  <2>. QED BY <2>1, <2>2
<1>10. QueueInv'
  <2>1. \A q \in Procs : q # c /\ q \in Threads /\ (Queued(q)' <=> Queued(q) \/ q = newp)
    BY <1>1, <1>2, <1>6 DEF Queued
  <2>2. \A i \in 1..Len(waitq) : waitq[i] \in Procs /\ waitq[i] # newp
    BY SMT, <1>1, <1>3 DEF TypeOK, Queued
  <2>3. \A q \in Procs : pc'[q] = pc[q]
    BY <1>4, <2>1
  <2>4. \A i, j \in 1..Len(waitq') : waitq'[i] = waitq'[j] => i = j
    <3>1. \A i, j \in 1..Len(waitq) : waitq[i] = waitq[j] => i = j
      BY <1>1 DEF QueueInv
    <3>2. waitq' = waitq
      BY <1>1
    <3>. QED BY <3>1, <3>2
  <2>5. \A i \in 1..Len(readyq'), j \in 1..Len(waitq') : readyq'[i] # waitq'[j]
    <3>1. /\ \A i \in 1..Len(readyq), j \in 1..Len(waitq) : readyq[i] # waitq[j]
          /\ waitq' = waitq
      BY <1>1 DEF QueueInv
    <3>2. ASSUME NEW i \in 1..Len(readyq'), NEW j \in 1..Len(waitq) PROVE readyq'[i] # waitq[j]
      <4>1. readyq'[i] = newp \/ \E k \in 1..Len(readyq) : readyq[k] = readyq'[i]
        BY <1>6
      <4>. QED BY <2>2, <3>1, <4>1
    <3>. QED BY <3>1, <3>2
  <2>6. \A q \in Procs : Queued(q)' => /\ q # newp' /\ pc'[q] \in Parked \ {"none"}
                                       /\ \A d \in Cpus : cproc'[d] # q
    <3>1. ASSUME NEW q \in Procs, Queued(q) \/ q = newp
          PROVE  q # newp' /\ pc'[q] \in Parked \ {"none"} /\ \A d \in Cpus : cproc'[d] # q
      <4>1. q # NULL
        BY Kinds
      <4>2. newp' = NULL /\ cproc' = cproc /\ pc'[q] = pc[q]
        BY <1>1, <2>3
      <4>3. CASE Queued(q)
        <5>1. Queued(q) => pc[q] \in Parked \ {"none"} /\ \A d \in Cpus : cproc[d] # q
          BY <1>1 DEF QueueInv
        <5>. QED BY <4>1, <4>2, <4>3, <5>1
      <4>4. CASE q = newp
        <5>1. /\ newp # NULL => pc[newp] = "kentry"
              /\ \A d \in Cpus : cproc[d] # NULL => cproc[d] # newp
          BY <1>1 DEF QueueInv
        <5>. QED BY <4>1, <4>2, <4>4, <5>1 DEF Parked
      <4>. QED BY <3>1, <4>3, <4>4
    <3>. QED BY <2>1, <3>1
  <2>7. \A i \in 1..Len(waitq') : pc'[waitq'[i]] = "sleep_back" /\ chan'[waitq'[i]] = "console_fifo"
    BY <1>1, <2>2, <2>3 DEF QueueInv
  <2>8. /\ \A d, e \in Cpus : cproc'[d] = cproc'[e] /\ cproc'[d] # NULL => d = e
        /\ newp' = NULL /\ pc'[Bsp] = "mpmain"
    BY <1>1, <1>4 DEF QueueInv
  <2>9. /\ \A q \in Procs : st'[q] = "UNUSED" <=> pc'[q] = "none"
        /\ \A q \in Procs : st'[q] # "UNUSED" => Queued(q)' \/ \E d \in Cpus : cproc'[d] = q
    <3>1. ASSUME NEW q \in Procs
          PROVE  /\ st'[q] = "UNUSED" <=> pc'[q] = "none"
                 /\ st'[q] # "UNUSED" => Queued(q) \/ q = newp \/ \E d \in Cpus : cproc'[d] = q
      BY <1>1, <2>3 DEF QueueInv
    <3>. QED BY <2>1, <3>1
  <2>. QED BY <1>6, <2>4, <2>5, <2>6, <2>7, <2>8, <2>9 DEF QueueInv
<1>. QED BY <1>7, <1>8, <1>9, <1>10 DEF IInv

\* sched_start() makes the idle process and turns interrupts on.
LEMMA SchedStartInv ==
  ASSUME IInv, NEW c \in Cpus, SchedStart(c), UNCHANGED devVars
  PROVE  IInv'
<1> DEFINE p == idle_proc[c]
<1>1. /\ TypeOK /\ QueueInv /\ Here(c) = "sched_start" /\ on[c] = c /\ pc[c] = "sched_start"
      /\ cproc[c] = NULL /\ spin[c] = NULL /\ FlagInv(c) /\ LockInv(c) /\ PlaceInv(c)
      /\ UNCHANGED <<on, cproc, intena, chan, readyq, waitq, newp,
                     layer, int_enabled, owner, spin, panic>>
  <2>1. TypeOK /\ QueueInv /\ Here(c) = "sched_start" /\ FlagInv(c) /\ LockInv(c) /\ PlaceInv(c)
    BY DEF SchedStart, At, Here, IInv
  <2>2. on[c] = c /\ pc[c] = "sched_start" /\ spin[c] = NULL
    BY <2>1, Stand, Where DEF SchedulerOnly, Awaits, Here
  <2>3. cproc[c] = NULL /\ cproc' = cproc
    BY <2>1, <2>2 DEF PlaceInv, SchedStart, TypeOK
  <2>. QED BY <2>1, <2>2, <2>3 DEF SchedStart
<1>2. /\ st' = [st EXCEPT ![p] = "RUNNABLE"]
      /\ pc' = [pc EXCEPT ![p] = "kentry", ![c] = "loop"]
      /\ ret' = [ret EXCEPT ![p] = <<MainFrame>>]
      /\ ints' = [ints EXCEPT ![c] = TRUE]
  BY DEF SchedStart
<1>3. /\ p \in Idles /\ p \in Threads /\ p \notin Cpus /\ p # NULL /\ p \notin Procs /\ p # c
      /\ c \in Threads /\ \A t \in Procs : t \in Threads /\ t # c
      /\ \A d \in Cpus : d # c => idle_proc[d] # p /\ idle_proc[d] # c /\ idle_proc[d] \in Threads
  BY Kinds
<1> HIDE DEF p
<1>4. \A d \in Cpus : cproc[d] # p /\ on[d] # p
  <2>1. \A d \in Cpus : cproc[d] # p
    BY <1>1, <1>3, Where
  <2>. QED BY <1>3, <2>1, Where
<1>5. /\ pc'[p] = "kentry" /\ pc'[c] = "loop"
      /\ \A t \in Threads : t # p /\ t # c => pc'[t] = pc[t]
      /\ ret'[p] = <<MainFrame>> /\ \A t \in Threads : t # p => ret'[t] = ret[t]
      /\ \A q \in Procs \cup Idles : q # p => st'[q] = st[q]
  BY <1>1, <1>2, <1>3 DEF TypeOK
<1>6. TypeOK'
  <2>1. pc' \in [Threads -> Labels]
    BY <1>1, <1>2, <1>3 DEF TypeOK, Labels
  <2>2. st' \in [Procs \cup Idles -> States]
    BY <1>1, <1>2 DEF TypeOK, States
  <2>3. ret' \in [Threads -> Seq([pc : Labels, ints : BOOLEAN])]
    <3>1. <<MainFrame>> \in Seq([pc : Labels, ints : BOOLEAN])
      BY SMT DEF MainFrame, Labels
    <3>. QED BY <1>1, <1>2, <3>1 DEF TypeOK
  <2>4. ints' \in [Cpus -> BOOLEAN]
    BY <1>1, <1>2 DEF TypeOK
  <2>. QED BY <1>1, <2>1, <2>2, <2>3, <2>4 DEF TypeOK, devVars
<1>7. CpuLocal(c)
  BY <1>1, <1>2 DEF CpuLocal, devVars, TypeOK
<1>8. ASSUME NEW d \in Cpus PROVE LockInv(d)' /\ FlagInv(d)' /\ PlaceInv(d)'
  <2>1. CASE d = c
    <3>1. Here(c)' = "loop"
      BY <1>1, <1>5 DEF Here
    <3>2. LockInv(c)'
      BY <1>1, <3>1 DEF LockInv, Holds, Depth, SchedHeld, ReadHeld
    <3>3. FlagInv(c)'
      <4>1. spin'[c] = NULL /\ ints'[c] /\ panic'[c] \in {NULL, "uart buffer full"} /\ ~isr'[c]
        BY <1>1, <1>2 DEF FlagInv, TypeOK, InService, devVars
      <4>. QED BY <3>1, <4>1 DEF FlagInv, OpenLabels
    <3>4. PlaceInv(c)'
      BY <1>1, <1>5 DEF PlaceInv, SchedulerLabels, SchedulerOnly, BootLabels, p
    <3>. QED BY <2>1, <3>2, <3>3, <3>4
  <2>2. CASE d # c
    <3>1. /\ on[d] \in Threads /\ on[d] # c /\ d \in Threads /\ on'[d] = on[d] /\ d # p
          /\ cproc[d] # NULL => cproc[d] \in Threads /\ cproc[d] # c /\ cproc[d] \in Procs \cup Idles
      BY <1>1, <1>3, <2>2, Where, OwnStack, Kinds
    <3>2. LockInv(d)' /\ FlagInv(d)'
      BY <1>4, <1>5, <1>7, <2>2, <3>1, OthersKeep
    <3>3. /\ PlaceInv(d) /\ cproc'[d] = cproc[d] /\ chan' = chan
          /\ pc'[d] = pc[d] /\ pc'[idle_proc[d]] = pc[idle_proc[d]]
          /\ cproc[d] # NULL => pc'[cproc[d]] = pc[cproc[d]] /\ st'[cproc[d]] = st[cproc[d]]
          /\ on[d] # d => cproc[d] # NULL
      BY <1>1, <1>3, <1>4, <1>5, <2>2, <3>1, Where DEF IInv
    <3>4. PlaceInv(d)'
      BY <3>1, <3>3 DEF PlaceInv
    <3>. QED BY <3>2, <3>4
  <2>. QED BY <2>1, <2>2
<1>9. ASSUME NEW t \in Threads PROVE ThreadInv(t)'
  <2>1. CASE t = p
    BY <1>3, <1>5, <2>1, FreshThread
  <2>2. CASE t = c
    <3>1. ThreadInv(c)
      BY <1>3 DEF IInv
    <3>2. pc[c] = "sched_start" /\ pc'[c] = "loop" /\ ret'[c] = ret[c] /\ c \in Cpus
      BY <1>1, <1>3, <1>5
    <3>. QED BY <2>2, <3>1, <3>2 DEF ThreadInv, BaseLabels, Bottom
  <2>3. CASE t # p /\ t # c
    BY <1>1, <1>5, <2>3, SameThread
  <2>. QED BY <2>1, <2>2, <2>3
<1>10. QueueInv'
  <2>1. \A q \in Procs : pc'[q] = pc[q] /\ st'[q] = st[q]
    BY <1>3, <1>5
  <2>2. pc'[Bsp] \in {"sched_add", "add_push"} <=> pc[Bsp] \in {"sched_add", "add_push"}
    <3>1. Bsp \in Threads /\ Bsp # p
      BY <1>3, Kinds
    <3>. QED BY <1>1, <1>5, <3>1
  <2>3. \A q \in Procs : st[q] = "UNUSED" <=> pc[q] = "none"
    BY <1>1 DEF QueueInv
  <2>. QED BY <1>1, <2>1, <2>2, <2>3, QueueKept
<1>. QED BY <1>6, <1>8, <1>9, <1>10 DEF IInv

-----------------------------------------------------------------------------
(* Switching stacks.                                                       *)

\* What the scheduler finds of a process it can switch to.
LEMMA ParkedFacts ==
  ASSUME NEW b \in Parked \ {"none"}
  PROVE  /\ \A k \in Locks : Holds(b, k) <=> k = "sched"
         /\ Depth(b) = 1 /\ b \notin OpenLabels /\ b \notin Bottom /\ b \notin SchedulerOnly
         /\ b \notin {"getc_read", "echo_out", "sleep", "sleep_unlock", "sleep_switch",
                      "sleep_relock", "sleep_release", "getc", "echo", "sched_add", "com1"}
         /\ b \notin {"add_push", "com1_drain", "wakeup", "wakeup_scan", "com1_release"}
BY DEF Parked, Holds, Depth, SchedHeld, ReadHeld, OpenLabels, Bottom, SchedulerOnly

\* The scheduler loop takes a process, or the idle process, and runs it.
LEMMA PickInv ==
  ASSUME IInv, NEW c \in Cpus, Pick(c), UNCHANGED devVars
  PROVE  IInv'
<1> DEFINE p == IF readyq # <<>> THEN Head(readyq) ELSE idle_proc[c]
<1>1. /\ TypeOK /\ QueueInv /\ Here(c) = "pick" /\ on[c] = c /\ pc[c] = "pick"
      /\ cproc[c] = NULL /\ spin[c] = NULL /\ FlagInv(c) /\ LockInv(c) /\ PlaceInv(c)
      /\ UNCHANGED <<ret, intena, chan, waitq, newp, cpuVars, devVars>>
  <2>1. TypeOK /\ QueueInv /\ Here(c) = "pick" /\ FlagInv(c) /\ LockInv(c) /\ PlaceInv(c)
    BY DEF Pick, At, Here, IInv
  <2>2. on[c] = c /\ pc[c] = "pick" /\ spin[c] = NULL
    BY <2>1, Stand, Where DEF SchedulerOnly, Awaits, Here
  <2>3. cproc[c] = NULL
    BY <2>1, <2>2 DEF PlaceInv
  <2>. QED BY <2>1, <2>2, <2>3 DEF Pick
<1>2. /\ cproc' = [cproc EXCEPT ![c] = p] /\ st' = [st EXCEPT ![p] = "RUNNING"]
      /\ on' = [on EXCEPT ![c] = p] /\ pc' = [pc EXCEPT ![c] = "back"]
      /\ readyq' = IF readyq # <<>> THEN Tail(readyq) ELSE readyq
  BY <1>1 DEF Pick, Goto
<1>3. readyq # <<>> => /\ Len(readyq) \in Nat /\ 1 \in 1..Len(readyq) /\ p = readyq[1] /\ p \in Procs
                       /\ Tail(readyq) \in Seq(Procs) /\ Len(Tail(readyq)) = Len(readyq) - 1
                       /\ \A i \in 1..Len(Tail(readyq)) : Tail(readyq)[i] = readyq[i + 1]
  <2>1. readyq \in Seq(Procs)
    BY <1>1 DEF TypeOK
  <2>. QED BY SMT, <2>1, SeqHeadTail, SeqBasics
<1>4. readyq = <<>> => p = idle_proc[c]
  OBVIOUS
<1> HIDE DEF p
<1>5. p \in Procs \cup {idle_proc[c]} /\ p \in Threads /\ p \notin Cpus /\ p # NULL /\ p # c /\ p \in Procs \cup Idles
      /\ c \in Threads /\ (\A q \in Procs : q \in Threads /\ q # c) /\ idle_proc[c] # c /\ idle_proc[c] \in Threads
  BY <1>3, <1>4, Kinds
<1>6. p \in Procs => readyq # <<>> /\ Queued(p) /\ p = readyq[1]
  <2>1. idle_proc[c] \notin Procs
    BY Kinds
  <2>. QED BY <1>3, <1>4, <2>1 DEF Queued
<1>7. /\ pc[p] \in Parked \ {"none"} /\ p # newp
      /\ \A d \in Cpus : cproc[d] # p /\ on[d] # p
  <2>1. \A d \in Cpus : cproc[d] # p
    <3>1. CASE p \in Procs
      BY <1>1, <1>6, <3>1 DEF QueueInv
    <3>2. CASE p \notin Procs
      <4>1. p = idle_proc[c]
        BY <1>5, <3>2
      <4>. QED BY <1>1, <1>5, <4>1, Where, Kinds
    <3>. QED BY <3>1, <3>2
  <2>2. \A d \in Cpus : on[d] # p
    BY <1>5, <2>1, Where
  <2>3. pc[p] \in Parked
    BY <1>5, <2>2 DEF IInv, ThreadInv
  <2>4. pc[p] # "none" /\ p # newp
    <3>1. CASE p \in Procs
      BY <1>1, <1>6, <3>1 DEF QueueInv
    <3>2. CASE p \notin Procs
      BY <1>1, <1>5, <3>2 DEF PlaceInv, BootLabels, TypeOK
    <3>. QED BY <3>1, <3>2
  <2>. QED BY <2>1, <2>2, <2>3, <2>4
<1>8. /\ on'[c] = p /\ cproc'[c] = p /\ pc'[c] = "back" /\ st'[p] = "RUNNING"
      /\ \A d \in Cpus : d # c => on'[d] = on[d] /\ cproc'[d] = cproc[d]
      /\ \A t \in Threads : t # c => pc'[t] = pc[t]
      /\ \A q \in Procs \cup Idles : q # p => st'[q] = st[q]
  BY <1>1, <1>2, <1>5 DEF TypeOK
<1>9. TypeOK'
  <2>1. pc' \in [Threads -> Labels] /\ on' \in [Cpus -> Threads]
    BY <1>1, <1>2, <1>5 DEF TypeOK, Labels
  <2>2. st' \in [Procs \cup Idles -> States] /\ cproc' \in [Cpus -> Procs \cup Idles \cup {NULL}]
    BY <1>1, <1>2, <1>5 DEF TypeOK, States
  <2>3. readyq' \in Seq(Procs)
    BY <1>1, <1>2, <1>3 DEF TypeOK
  <2>. QED BY <1>1, <2>1, <2>2, <2>3 DEF TypeOK, cpuVars, devVars
<1>10. CpuLocal(c)
  BY <1>1 DEF CpuLocal, cpuVars, devVars
<1>11. ASSUME NEW d \in Cpus PROVE LockInv(d)' /\ FlagInv(d)' /\ PlaceInv(d)'
  <2>1. CASE d = c
    <3>1. Here(c)' = pc[p]
      BY <1>5, <1>8 DEF Here
    <3>2. LockInv(c)'
      <4>1. \A k \in Locks : Holds("pick", k) <=> k = "sched"
        BY DEF Holds, SchedHeld, ReadHeld
      <4>2. Depth("pick") = 1
        BY DEF Depth, SchedHeld
      <4>. QED BY <1>1, <1>7, <3>1, <4>1, <4>2, ParkedFacts DEF LockInv, cpuVars
    <3>3. FlagInv(c)'
      <4>1. ~ints'[c] /\ ~isr'[c] /\ spin'[c] = NULL /\ panic'[c] \in {NULL, "uart buffer full"}
        BY <1>1 DEF FlagInv, OpenLabels, InService, cpuVars, devVars
      <4>. QED BY <1>7, <3>1, <4>1, ParkedFacts DEF FlagInv
    <3>4. PlaceInv(c)'
      <4>1. pc'[idle_proc[c]] = pc[idle_proc[c]] /\ pc'[p] # "none"
        BY <1>5, <1>7, <1>8
      <4>. QED BY <1>1, <1>5, <1>8, <4>1 DEF PlaceInv, SchedulerLabels, SchedulerOnly, BootLabels
    <3>. QED BY <2>1, <3>2, <3>3, <3>4
  <2>2. CASE d # c
    <3>1. /\ on[d] \in Threads /\ on[d] # c /\ d \in Threads /\ on'[d] = on[d]
          /\ idle_proc[d] \in Threads /\ idle_proc[d] # c
          /\ cproc[d] # NULL => cproc[d] \in Threads /\ cproc[d] # c /\ cproc[d] \in Procs \cup Idles
      <4>1. on[d] \in Threads /\ d \in Threads /\ idle_proc[d] \in Idles /\ on'[d] = on[d]
        BY <1>8, <2>2, Where, Kinds
      <4>2. idle_proc[d] \in Threads /\ idle_proc[d] # c
        BY <4>1, Kinds
      <4>3. on[d] # c
        BY <2>2, OwnStack
      <4>4. cproc[d] # NULL => cproc[d] \in Threads /\ cproc[d] # c /\ cproc[d] \in Procs \cup Idles
        BY Where, Kinds
      <4>. QED BY <4>1, <4>2, <4>3, <4>4
    <3>2. LockInv(d)' /\ FlagInv(d)'
      BY <1>8, <1>10, <2>2, <3>1, OthersKeep
    <3>3. /\ PlaceInv(d) /\ cproc'[d] = cproc[d] /\ chan' = chan
          /\ pc'[d] = pc[d] /\ pc'[idle_proc[d]] = pc[idle_proc[d]]
          /\ cproc[d] # NULL => pc'[cproc[d]] = pc[cproc[d]] /\ st'[cproc[d]] = st[cproc[d]]
          /\ on[d] # d => cproc[d] # NULL
      BY <1>1, <1>7, <1>8, <2>2, <3>1, Where DEF IInv
    <3>4. PlaceInv(d)'
      BY <3>1, <3>3 DEF PlaceInv
    <3>. QED BY <3>2, <3>4
  <2>. QED BY <2>1, <2>2
<1>12. ASSUME NEW t \in Threads PROVE ThreadInv(t)'
  <2>1. CASE t = c
    <3>1. ThreadInv(c)
      BY <1>5 DEF IInv
    <3>. QED BY <1>1, <1>5, <1>8, <2>1, <3>1 DEF ThreadInv, BaseLabels
  <2>2. CASE t # c
    BY <1>1, <1>8, <2>2, SameThread
  <2>. QED BY <2>1, <2>2
<1>13. QueueInv'
  <2>1. \A i \in 1..Len(readyq') : \E j \in 1..Len(readyq) :
          /\ readyq'[i] = readyq[j]
          /\ readyq # <<>> => j = i + 1
          /\ readyq = <<>> => j = i
    BY SMT, <1>2, <1>3
  <2>2. readyq # <<>> => \A j \in 1..Len(readyq) :
          j # 1 => j - 1 \in 1..Len(readyq') /\ readyq'[j - 1] = readyq[j]
    <3>1. readyq # <<>> => \A j \in 1..Len(readyq) : j # 1 => j - 1 \in 1..Len(Tail(readyq)) /\ (j - 1) + 1 = j
      BY SMT, <1>3
    <3>. QED BY <1>2, <1>3, <3>1
  <2>3. /\ \A i, j \in 1..Len(readyq') : readyq'[i] = readyq'[j] => i = j
        /\ \A i \in 1..Len(readyq') : readyq'[i] # p
    <3>1. \A i, j \in 1..Len(readyq) : readyq[i] = readyq[j] => i = j
      BY <1>1 DEF QueueInv
    <3>2. \A i \in 1..Len(readyq'), j \in 1..Len(readyq') : readyq'[i] = readyq'[j] => i = j
      BY SMT, <2>1, <3>1
    <3>3. ASSUME NEW i \in 1..Len(readyq') PROVE readyq'[i] # p
      <4>1. CASE readyq # <<>>
        <5>1. PICK j \in 1..Len(readyq) : readyq'[i] = readyq[j] /\ j = i + 1
          BY <2>1, <4>1
        <5>2. i + 1 # 1
          BY SMT
        <5>. QED BY <1>3, <3>1, <4>1, <5>1, <5>2
      <4>2. CASE readyq = <<>>
        BY SMT, <1>1, <1>2, <4>2 DEF TypeOK
      <4>. QED BY <4>1, <4>2
    <3>. QED BY <3>2, <3>3
  <2>4. \A q \in Procs : Queued(q)' <=> Queued(q) /\ q # p
    <3>1. ASSUME NEW q \in Procs, Queued(q)' PROVE Queued(q) /\ q # p
      <4>1. Queued(q)
        BY <1>1, <2>1, <3>1 DEF Queued
      <4>2. q # p
        <5>1. CASE \E i \in 1..Len(readyq') : readyq'[i] = q
          BY <2>3, <5>1
        <5>2. CASE \E i \in 1..Len(waitq) : waitq[i] = q
          <6>1. \A i \in 1..Len(readyq), j \in 1..Len(waitq) : readyq[i] # waitq[j]
            BY <1>1 DEF QueueInv
          <6>. QED BY SMTT(30), <1>1, <1>3, <1>6, <5>2, <6>1
        <5>. QED BY <1>1, <3>1, <5>1, <5>2 DEF Queued
      <4>. QED BY <4>1, <4>2
    <3>2. ASSUME NEW q \in Procs, Queued(q), q # p PROVE Queued(q)'
      <4>1. CASE \E i \in 1..Len(waitq) : waitq[i] = q
        BY <1>1, <4>1 DEF Queued
      <4>2. CASE \E i \in 1..Len(readyq) : readyq[i] = q
        <5>1. PICK j \in 1..Len(readyq) : readyq[j] = q
          BY <4>2
        <5>2. readyq # <<>>
          BY SMT, <1>1, <5>1 DEF TypeOK
        <5>3. j # 1
          BY <1>3, <3>2, <5>1, <5>2
        <5>. QED BY <2>2, <5>1, <5>2, <5>3 DEF Queued
      <4>. QED BY <3>2, <4>1, <4>2 DEF Queued
    <3>. QED BY <3>1, <3>2
  <2>5. \A q \in Procs : pc'[q] = pc[q]
    BY <1>5, <1>8
  <2>6. \A i \in 1..Len(waitq) : waitq[i] \in Procs
    BY SMT, <1>1 DEF TypeOK
  <2>7. newp # NULL => newp \in Procs
    BY <1>1 DEF TypeOK
  <2>8. /\ \A i, j \in 1..Len(waitq') : waitq'[i] = waitq'[j] => i = j
        /\ \A i \in 1..Len(readyq'), j \in 1..Len(waitq') : readyq'[i] # waitq'[j]
        /\ \A i \in 1..Len(waitq') : pc'[waitq'[i]] = "sleep_back" /\ chan'[waitq'[i]] = "console_fifo"
    <3>1. /\ \A i, j \in 1..Len(waitq) : waitq[i] = waitq[j] => i = j
          /\ \A i \in 1..Len(readyq), j \in 1..Len(waitq) : readyq[i] # waitq[j]
          /\ \A i \in 1..Len(waitq) : pc[waitq[i]] = "sleep_back" /\ chan[waitq[i]] = "console_fifo"
          /\ waitq' = waitq /\ chan' = chan
      BY <1>1 DEF QueueInv
    <3>. QED BY SMT, <2>1, <2>5, <2>6, <3>1
  <2>9. \A q \in Procs : Queued(q)' => /\ q # newp' /\ pc'[q] \in Parked \ {"none"}
                                       /\ \A d \in Cpus : cproc'[d] # q
    <3>1. ASSUME NEW q \in Procs, Queued(q), q # p
          PROVE  q # newp' /\ pc'[q] \in Parked \ {"none"} /\ \A d \in Cpus : cproc'[d] # q
      <4>1. newp' = newp /\ q # newp /\ pc[q] \in Parked \ {"none"} /\ \A d \in Cpus : cproc[d] # q
        BY <1>1, <3>1 DEF QueueInv
      <4>. QED BY <1>8, <2>5, <3>1, <4>1
    <3>. QED BY <2>4, <3>1
  <2>10. /\ \A d, e \in Cpus : cproc'[d] = cproc'[e] /\ cproc'[d] # NULL => d = e
         /\ \A d \in Cpus : cproc'[d] # NULL => cproc'[d] # newp'
    BY SMT, <1>1, <1>7, <1>8 DEF QueueInv
  <2>11. /\ newp' # NULL <=> pc'[Bsp] \in {"sched_add", "add_push"}
         /\ newp' # NULL => pc'[newp'] = "kentry"
    <3>1. Bsp \in Threads
      BY Kinds
    <3>. QED BY <1>1, <1>8, <2>5, <2>7, <3>1 DEF QueueInv
  <2>12. /\ \A q \in Procs : st'[q] = "UNUSED" <=> pc'[q] = "none"
         /\ \A q \in Procs : st'[q] # "UNUSED" => Queued(q)' \/ q = newp' \/ \E d \in Cpus : cproc'[d] = q
    <3>1. ASSUME NEW q \in Procs
          PROVE  /\ st'[q] = "UNUSED" <=> pc'[q] = "none"
                 /\ st'[q] # "UNUSED" => (Queued(q) /\ q # p) \/ q = newp' \/ \E d \in Cpus : cproc'[d] = q
      <4>1. CASE q = p
        BY <1>7, <1>8, <2>5, <4>1
      <4>2. CASE q # p
        <5>1. ASSUME NEW d \in Cpus, cproc[d] = q PROVE cproc'[d] = q
          <6>1. q # NULL
            BY Kinds
          <6>. QED BY <1>1, <1>8, <5>1, <6>1
        <5>2. /\ newp' = newp /\ st'[q] = st[q] /\ pc'[q] = pc[q]
              /\ st[q] = "UNUSED" <=> pc[q] = "none"
              /\ st[q] # "UNUSED" => Queued(q) \/ q = newp \/ \E d \in Cpus : cproc[d] = q
          BY <1>1, <1>8, <2>5, <4>2 DEF QueueInv
        <5>. QED BY <4>2, <5>1, <5>2
      <4>. QED BY <4>1, <4>2
    <3>. QED BY <2>4, <3>1
  <2>. QED BY <2>3, <2>8, <2>9, <2>10, <2>11, <2>12 DEF QueueInv
<1>. QED BY <1>9, <1>11, <1>12, <1>13 DEF IInv

\* The scheduler loop queues the process that was switched out.
LEMMA BackInv ==
  ASSUME IInv, NEW c \in Cpus, Back(c), UNCHANGED devVars
  PROVE  IInv'
<1> DEFINE p == cproc[c]
           queued == p # NULL /\ p # idle_proc[c]
           runnable == queued /\ st[p] = "RUNNABLE"
<1>1. /\ TypeOK /\ QueueInv /\ Here(c) = "back" /\ on[c] = c /\ pc[c] = "back"
      /\ spin[c] = NULL /\ FlagInv(c) /\ LockInv(c) /\ PlaceInv(c)
      /\ UNCHANGED <<on, ret, intena, st, chan, newp, cpuVars, devVars>>
  <2>1. TypeOK /\ QueueInv /\ Here(c) = "back" /\ FlagInv(c) /\ LockInv(c) /\ PlaceInv(c)
    BY DEF Back, At, Here, IInv
  <2>2. on[c] = c /\ pc[c] = "back" /\ spin[c] = NULL
    BY <2>1, Stand, Where DEF SchedulerOnly, Awaits, Here
  <2>. QED BY <2>1, <2>2 DEF Back
<1>2. /\ readyq' = IF runnable THEN Append(readyq, p) ELSE readyq
      /\ waitq' = IF queued /\ ~runnable THEN Append(waitq, p) ELSE waitq
      /\ cproc' = [cproc EXCEPT ![c] = NULL] /\ pc' = [pc EXCEPT ![c] = "pick"]
  BY <1>1 DEF Back, Goto
<1>3. /\ c \in Threads /\ \A t \in Procs \cup Idles : t \in Threads /\ t # c /\ t # NULL /\ t \notin Cpus
      /\ idle_proc[c] \notin Procs
  BY Kinds
<1>4. queued => /\ p \in Procs /\ pc[p] \in Parked \ {"none"} /\ p # newp /\ ~Queued(p)
                /\ \A d \in Cpus : d # c => cproc[d] # p
                /\ ~runnable => pc[p] = "sleep_back" /\ chan[p] = "console_fifo"
  <2>1. ASSUME queued PROVE p \in Procs /\ pc[p] # "none" /\ p # newp /\ ~Queued(p)
                            /\ \A d \in Cpus : d # c => cproc[d] # p
    <3>1. p \in Procs
      BY <2>1, Where
    <3>. QED BY <1>1, <2>1, <3>1 DEF QueueInv, PlaceInv
  <2>2. ASSUME queued PROVE pc[p] \in Parked
    <3>1. \A d \in Cpus : on[d] # p
      BY <1>1, <1>3, <2>1, <2>2, Where
    <3>2. ThreadInv(p) /\ p \notin Cpus
      BY <1>3, <2>1, <2>2 DEF IInv
    <3>. QED BY <3>1, <3>2 DEF ThreadInv
  <2>3. ASSUME queued, ~runnable PROVE pc[p] = "sleep_back" /\ chan[p] = "console_fifo"
    BY <1>1, <2>3 DEF PlaceInv
  <2>. QED BY <2>1, <2>2, <2>3
<1>5. /\ pc'[c] = "pick" /\ cproc'[c] = NULL
      /\ \A d \in Cpus : d # c => cproc'[d] = cproc[d]
      /\ \A t \in Threads : t # c => pc'[t] = pc[t]
  BY <1>1, <1>2, <1>3 DEF TypeOK
<1>6. /\ readyq' \in Seq(Procs) /\ waitq' \in Seq(Procs)
      /\ \A i, j \in 1..Len(readyq') : readyq'[i] = readyq'[j] => i = j
      /\ \A i, j \in 1..Len(waitq') : waitq'[i] = waitq'[j] => i = j
      /\ \A i \in 1..Len(readyq') :
           (runnable /\ readyq'[i] = p) \/ \E j \in 1..Len(readyq) : readyq[j] = readyq'[i]
      /\ \A i \in 1..Len(waitq') :
           (queued /\ ~runnable /\ waitq'[i] = p) \/ \E j \in 1..Len(waitq) : waitq[j] = waitq'[i]
      /\ \A q : (\E i \in 1..Len(readyq') : readyq'[i] = q)
                  <=> (\E i \in 1..Len(readyq) : readyq[i] = q) \/ (runnable /\ q = p)
      /\ \A q : (\E i \in 1..Len(waitq') : waitq'[i] = q)
                  <=> (\E i \in 1..Len(waitq) : waitq[i] = q) \/ (queued /\ ~runnable /\ q = p)
  <2>1. /\ readyq \in Seq(Procs) /\ waitq \in Seq(Procs)
        /\ \A i, j \in 1..Len(readyq) : readyq[i] = readyq[j] => i = j
        /\ \A i, j \in 1..Len(waitq) : waitq[i] = waitq[j] => i = j
    BY <1>1 DEF TypeOK, QueueInv
  <2>2. queued => p \in Procs /\ (\A i \in 1..Len(readyq) : readyq[i] # p)
                              /\ (\A i \in 1..Len(waitq) : waitq[i] # p)
    BY <1>4 DEF Queued
  <2> HIDE DEF p
  <2>3. CASE runnable
    <3>1. readyq' = Append(readyq, p) /\ waitq' = waitq /\ queued /\ runnable
      BY <1>2, <2>3
    <3> HIDE DEF runnable, queued
    <3>2. Distinct(readyq)
      BY <2>1 DEF Distinct
    <3>3. Extended(readyq, readyq', p)
      BY <2>1, <2>2, <3>1, <3>2, Pushed
    <3>. QED BY <2>1, <3>1, <3>3 DEF Extended, Distinct
  <2>4. CASE queued /\ ~runnable
    <3>1. readyq' = readyq /\ waitq' = Append(waitq, p) /\ queued /\ ~runnable
      BY <1>2, <2>4
    <3> HIDE DEF runnable, queued
    <3>2. Distinct(waitq)
      BY <2>1 DEF Distinct
    <3>3. Extended(waitq, waitq', p)
      BY <2>1, <2>2, <3>1, <3>2, Pushed
    <3>. QED BY <2>1, <3>1, <3>3 DEF Extended, Distinct
  <2>5. CASE ~queued
    <3>1. readyq' = readyq /\ waitq' = waitq /\ ~queued /\ ~runnable
      BY <1>2, <2>5
    <3> HIDE DEF runnable, queued
    <3>. QED BY <2>1, <3>1
  <2>. QED BY <2>3, <2>4, <2>5
<1>7. TypeOK'
  <2>1. pc' \in [Threads -> Labels]
    BY <1>1, <1>2, <1>3 DEF TypeOK, Labels
  <2>2. cproc' \in [Cpus -> Procs \cup Idles \cup {NULL}]
    BY <1>1, <1>2 DEF TypeOK
  <2>3. readyq' \in Seq(Procs) /\ waitq' \in Seq(Procs)
    BY <1>6
  <2>. QED BY <1>1, <2>1, <2>2, <2>3 DEF TypeOK, cpuVars, devVars
<1>8. CpuLocal(c)
  BY <1>1 DEF CpuLocal, cpuVars, devVars
<1>9. ASSUME NEW d \in Cpus PROVE LockInv(d)' /\ FlagInv(d)' /\ PlaceInv(d)'
  <2>0. pc'[idle_proc[d]] = pc[idle_proc[d]]
    BY <1>3, <1>5, Kinds
  <2>1. CASE d = c
    <3>1. Here(c)' = "pick"
      BY <1>1, <1>5 DEF Here
    <3>2. LockInv(c)'
      BY <1>1, <3>1 DEF LockInv, Holds, Depth, SchedHeld, ReadHeld, cpuVars
    <3>3. FlagInv(c)'
      <4>1. ~ints'[c] /\ ~isr'[c] /\ spin'[c] = NULL /\ panic'[c] \in {NULL, "uart buffer full"}
        BY <1>1 DEF FlagInv, OpenLabels, InService, cpuVars, devVars
      <4>. QED BY <3>1, <4>1 DEF FlagInv, Bottom
    <3>4. PlaceInv(c)'
      BY <1>1, <1>5, <2>0, <2>1 DEF PlaceInv, SchedulerLabels, SchedulerOnly, BootLabels
    <3>. QED BY <2>1, <3>2, <3>3, <3>4
  <2>2. CASE d # c
    <3>1. /\ on[d] \in Threads /\ on[d] # c /\ d \in Threads /\ on'[d] = on[d]
          /\ cproc[d] # NULL => cproc[d] \in Threads /\ cproc[d] # c
      BY <1>1, <2>2, Where, OwnStack, Kinds
    <3>2. LockInv(d)' /\ FlagInv(d)'
      BY <1>5, <1>8, <2>2, <3>1, OthersKeep
    <3>3. /\ PlaceInv(d) /\ cproc'[d] = cproc[d] /\ chan' = chan /\ st' = st /\ pc'[d] = pc[d]
          /\ cproc[d] # NULL => pc'[cproc[d]] = pc[cproc[d]]
          /\ on[d] # d => cproc[d] # NULL
      BY <1>1, <1>5, <2>2, <3>1, Where DEF IInv
    <3>4. PlaceInv(d)'
      BY <2>0, <3>1, <3>3 DEF PlaceInv
    <3>. QED BY <3>2, <3>4
  <2>. QED BY <2>1, <2>2
<1>10. ASSUME NEW t \in Threads PROVE ThreadInv(t)'
  <2>1. CASE t = c
    <3>1. ThreadInv(c)
      BY <1>3 DEF IInv
    <3>. QED BY <1>1, <1>5, <2>1, <3>1 DEF ThreadInv, BaseLabels
  <2>2. CASE t # c
    BY <1>1, <1>5, <2>2, SameThread
  <2>. QED BY <2>1, <2>2
<1>11. QueueInv'
  <2>1. \A q \in Procs : pc'[q] = pc[q] /\ (Queued(q)' <=> Queued(q) \/ (queued /\ q = p))
    <3>1. \A q \in Procs : Queued(q)' <=> Queued(q) \/ (queued /\ q = p)
      BY <1>6 DEF Queued
    <3>. QED BY <1>3, <1>5, <3>1
  <2> HIDE DEF p, queued, runnable
  <2>2. \A i \in 1..Len(waitq) : waitq[i] \in Procs /\ Queued(waitq[i])
    <3>1. waitq \in Seq(Procs)
      BY <1>1 DEF TypeOK
    <3>. QED BY <3>1, SeqBasics DEF Queued
  <2>3. \A i \in 1..Len(readyq) : readyq[i] \in Procs /\ Queued(readyq[i])
    <3>1. readyq \in Seq(Procs)
      BY <1>1 DEF TypeOK
    <3>. QED BY <3>1, SeqBasics DEF Queued
  <2>4. \A i \in 1..Len(readyq'), j \in 1..Len(waitq') : readyq'[i] # waitq'[j]
    <3>1. \A i \in 1..Len(readyq), j \in 1..Len(waitq) : readyq[i] # waitq[j]
      BY <1>1 DEF QueueInv
    <3>2. runnable => queued
      BY DEF runnable
    <3>3. \A i \in 1..Len(readyq') : \/ runnable /\ readyq'[i] = p
                                    \/ \E j \in 1..Len(readyq) : readyq[j] = readyq'[i]
      BY <1>6
    <3>4. \A i \in 1..Len(waitq') : \/ queued /\ ~runnable /\ waitq'[i] = p
                                   \/ \E j \in 1..Len(waitq) : waitq[j] = waitq'[i]
      BY <1>6
    <3>5. queued => ~Queued(p)
      BY <1>4
    <3>. QED BY <2>2, <2>3, <3>1, <3>2, <3>3, <3>4, <3>5
  <2>5. \A i \in 1..Len(waitq') : pc'[waitq'[i]] = "sleep_back" /\ chan'[waitq'[i]] = "console_fifo"
    <3>1. \A i \in 1..Len(waitq) : pc'[waitq[i]] = "sleep_back" /\ chan'[waitq[i]] = "console_fifo"
      <4>1. \A i \in 1..Len(waitq) : pc[waitq[i]] = "sleep_back" /\ chan[waitq[i]] = "console_fifo"
        BY <1>1 DEF QueueInv
      <4>. QED BY <1>1, <2>1, <2>2, <4>1
    <3>2. queued /\ ~runnable => pc'[p] = "sleep_back" /\ chan'[p] = "console_fifo"
      BY <1>1, <1>4, <2>1
    <3>3. \A i \in 1..Len(waitq') : \/ queued /\ ~runnable /\ waitq'[i] = p
                                   \/ \E j \in 1..Len(waitq) : waitq[j] = waitq'[i]
      BY <1>6
    <3>. QED BY <3>1, <3>2, <3>3
  <2>6. \A q \in Procs : Queued(q)' => /\ q # newp' /\ pc'[q] \in Parked \ {"none"}
                                       /\ \A d \in Cpus : cproc'[d] # q
    <3>1. ASSUME NEW q \in Procs, Queued(q) \/ (queued /\ q = p)
          PROVE  q # newp' /\ pc'[q] \in Parked \ {"none"} /\ \A d \in Cpus : cproc'[d] # q
      <4>1. CASE Queued(q)
        <5>1. q # newp /\ pc[q] \in Parked \ {"none"} /\ \A d \in Cpus : cproc[d] # q
          BY <1>1, <4>1 DEF QueueInv
        <5>. QED BY <1>1, <1>3, <1>5, <2>1, <4>1, <5>1
      <4>2. CASE queued /\ q = p
        BY <1>1, <1>3, <1>4, <1>5, <2>1, <4>2
      <4>. QED BY <3>1, <4>1, <4>2
    <3>. QED BY <2>1, <3>1
  <2>7. /\ \A d, e \in Cpus : cproc'[d] = cproc'[e] /\ cproc'[d] # NULL => d = e
        /\ \A d \in Cpus : cproc'[d] # NULL => cproc'[d] # newp'
    <3>1. QueueInv /\ newp' = newp /\ \A d \in Cpus : cproc'[d] = NULL \/ cproc'[d] = cproc[d]
      BY <1>1, <1>5
    <3>2. /\ \A d, e \in Cpus : cproc[d] = cproc[e] /\ cproc[d] # NULL => d = e
          /\ \A d \in Cpus : cproc[d] # NULL => cproc[d] # newp
      BY <3>1 DEF QueueInv
    <3>3. ASSUME NEW d \in Cpus, NEW e \in Cpus, cproc'[d] = cproc'[e], cproc'[d] # NULL PROVE d = e
      BY <3>1, <3>2, <3>3
    <3>. QED BY <3>1, <3>2, <3>3
  <2>8. /\ newp' # NULL <=> pc'[Bsp] \in {"sched_add", "add_push"}
        /\ newp' # NULL => pc'[newp'] = "kentry"
    <3>1. Bsp \in Threads /\ newp \in Procs \cup {NULL}
      BY <1>1, Kinds DEF TypeOK
    <3>. QED BY <1>1, <1>5, <2>1, <3>1 DEF QueueInv
  <2>9. /\ \A q \in Procs : st'[q] = "UNUSED" <=> pc'[q] = "none"
        /\ \A q \in Procs : st'[q] # "UNUSED" => Queued(q)' \/ q = newp' \/ \E d \in Cpus : cproc'[d] = q
    <3>1. ASSUME NEW q \in Procs
          PROVE  /\ st'[q] = "UNUSED" <=> pc'[q] = "none"
                 /\ st'[q] # "UNUSED" => Queued(q) \/ (queued /\ q = p) \/ q = newp'
                                         \/ \E d \in Cpus : cproc'[d] = q
      <4>1. cproc[c] = q => queued /\ q = p
        BY <1>3 DEF queued, p
      <4>2. \A d \in Cpus : d # c /\ cproc[d] = q => cproc'[d] = q
        BY <1>5
      <4>3. /\ st[q] = "UNUSED" <=> pc[q] = "none"
            /\ st[q] # "UNUSED" => Queued(q) \/ q = newp \/ \E d \in Cpus : cproc[d] = q
        BY <1>1 DEF QueueInv
      <4>4. st' = st /\ newp' = newp /\ pc'[q] = pc[q]
        BY <1>1, <2>1
      <4>. QED BY <4>1, <4>2, <4>3, <4>4
    <3>. QED BY <2>1, <3>1
  <2>. QED BY <1>6, <2>4, <2>5, <2>6, <2>7, <2>8, <2>9 DEF QueueInv
<1>. QED BY <1>7, <1>9, <1>10, <1>11 DEF IInv

\* sched_switch_out() does not panic; it leaves the process parked and the
\* CPU on the stack of its scheduler.
LEMMA SwitchOutInv ==
  ASSUME IInv, NEW c \in Cpus, NEW s, NEW from, NEW to, At(c, from), SwitchOut(c, s, to),
         UNCHANGED devVars,
         \/ /\ <<from, to>> \in {<<"sys_switch", "sys_back">>, <<"tail_switch", "tail_back">>}
            /\ s = IF st[cproc[c]] = "RUNNING" THEN "RUNNABLE" ELSE st[cproc[c]]
            /\ UNCHANGED chan
         \/ /\ from = "sleep_switch" /\ to = "sleep_back" /\ s = "SLEEPING"
            /\ chan' = [chan EXCEPT ![cproc[c]] = "console_fifo"]
  PROVE  IInv'
<1>1. /\ TypeOK /\ QueueInv /\ Here(c) = from /\ FlagInv(c) /\ LockInv(c) /\ PlaceInv(c)
      /\ spin[c] = NULL /\ from \in {"sys_switch", "tail_switch", "sleep_switch"}
      /\ on[c] # c /\ on[c] = cproc[c] /\ cproc[c] # NULL /\ on[c] \notin Cpus
  BY Stand, Where DEF At, Here, IInv, Awaits, SchedulerLabels, SchedulerOnly
<1> DEFINE p == cproc[c]
<1>2. /\ p \in Procs \cup Idles /\ p \in Threads /\ p \notin Cpus /\ p # c /\ c \in Threads
      /\ pc[c] = "back" /\ st[p] \in {"RUNNING", "RUNNABLE"} /\ ~Queued(p) /\ p # newp
      /\ pc[p] = from
  <2>1. p \in Procs \cup Idles /\ p \in Threads /\ p \notin Cpus /\ p # c /\ c \in Threads
    BY <1>1, Where, Kinds
  <2>2. pc[c] = "back" /\ st[p] \in {"RUNNING", "RUNNABLE"} /\ pc[p] = from
    BY <1>1 DEF PlaceInv, Here
  <2>3. p # newp /\ ~Queued(p)
    <3>1. ASSUME Queued(p) PROVE FALSE
      <4>1. p \in Procs
        <5>1. readyq \in Seq(Procs) /\ waitq \in Seq(Procs)
          BY <1>1 DEF TypeOK
        <5>. QED BY <3>1, <5>1, SeqBasics DEF Queued
      <4>. QED BY <1>1, <3>1, <4>1 DEF QueueInv
    <3>. QED BY <1>1, <3>1 DEF QueueInv
  <2>. QED BY <2>1, <2>2, <2>3
<1>3. s \in {"RUNNABLE", "SLEEPING"} /\ s # "UNUSED" /\ (from # "sleep_switch" => s = "RUNNABLE")
  BY <1>1, <1>2
<1>4. owner["sched"] = c /\ layer[c] = 1
  <2>1. Holds(from, "sched") /\ Depth(from) = 1
    BY <1>1 DEF Holds, Depth, SchedHeld, ReadHeld
  <2>. QED BY <1>1, <2>1, SchedAssumption, Depths DEF LockInv
<1>5. /\ st' = [st EXCEPT ![p] = s] /\ intena' = [intena EXCEPT ![p] = int_enabled[c]]
      /\ on' = [on EXCEPT ![c] = c] /\ pc' = [pc EXCEPT ![p] = to]
      /\ UNCHANGED <<cpuVars, cproc, ret, readyq, waitq, newp>>
  <2>1. SwitchOutPanic(c, s) = NULL
    BY <1>3, <1>4 DEF SwitchOutPanic
  <2>. QED BY <1>1, <2>1 DEF SwitchOut, Goto
<1>6. to \in Parked \ {"none"} /\ to \in Labels /\ (from = "sleep_switch" <=> to = "sleep_back")
  BY DEF Parked, Labels
<1> HIDE DEF p
<1>7. /\ on'[c] = c /\ pc'[p] = to /\ st'[p] = s /\ intena'[p] = int_enabled[c]
      /\ \A d \in Cpus : d # c => on'[d] = on[d]
      /\ \A t \in Threads : t # p => pc'[t] = pc[t] /\ intena'[t] = intena[t]
      /\ \A q \in Procs \cup Idles : q # p => st'[q] = st[q] /\ chan'[q] = chan[q]
      /\ from = "sleep_switch" => chan'[p] = "console_fifo"
  BY <1>1, <1>2, <1>5 DEF TypeOK, p
<1>8. TypeOK'
  <2>1. pc' \in [Threads -> Labels] /\ on' \in [Cpus -> Threads]
    BY <1>1, <1>2, <1>5, <1>6 DEF TypeOK
  <2>2. st' \in [Procs \cup Idles -> States] /\ intena' \in [Threads -> BOOLEAN]
    BY <1>1, <1>3, <1>5 DEF TypeOK, States
  <2>3. chan' \in [Procs \cup Idles -> {NULL, "console_fifo"}]
    BY <1>1 DEF TypeOK
  <2>. QED BY <1>1, <1>5, <2>1, <2>2, <2>3 DEF TypeOK, cpuVars, devVars
<1>9. CpuLocal(c)
  BY <1>5 DEF CpuLocal, cpuVars, devVars
<1>10. ASSUME NEW d \in Cpus PROVE LockInv(d)' /\ FlagInv(d)' /\ PlaceInv(d)'
  <2>1. CASE d = c
    <3>1. Here(c)' = "back"
      BY <1>2, <1>7 DEF Here
    <3>2. LockInv(c)'
      BY <1>1, <1>5, <3>1 DEF LockInv, Holds, Depth, SchedHeld, ReadHeld, cpuVars
    <3>3. FlagInv(c)'
      <4>1. ~ints'[c] /\ ~isr'[c] /\ spin'[c] = NULL /\ panic'[c] \in {NULL, "uart buffer full"}
        BY <1>1, <1>5 DEF FlagInv, OpenLabels, InService, cpuVars, devVars
      <4>. QED BY <3>1, <4>1 DEF FlagInv, Bottom
    <3>4. PlaceInv(c)'
      <4>1. pc'[c] = "back" /\ cproc'[c] = p /\ p # NULL /\ pc'[p] # "none"
        BY <1>1, <1>2, <1>5, <1>6, <1>7 DEF p
      <4>2. pc'[idle_proc[c]] = "none" <=> pc[idle_proc[c]] = "none"
        <5>1. idle_proc[c] \in Threads
          BY Kinds
        <5>2. from # "none"
          OBVIOUS
        <5>. QED BY <1>2, <1>6, <1>7, <5>1, <5>2
      <4>3. st'[p] = "RUNNABLE" \/ (pc'[p] = "sleep_back" /\ chan'[p] = "console_fifo")
        BY <1>1, <1>3, <1>6, <1>7
      <4>4. p \in Procs \cup {idle_proc[c], NULL}
        BY <1>1 DEF PlaceInv, p
      <4>. QED BY <1>1, <1>2, <1>7, <4>1, <4>2, <4>3, <4>4 DEF PlaceInv
    <3>. QED BY <2>1, <3>2, <3>3, <3>4
  <2>2. CASE d # c
    <3>1. /\ on[d] \in Threads /\ on[d] # p /\ d \in Threads /\ on'[d] = on[d] /\ d # p
          /\ idle_proc[d] \in Threads /\ idle_proc[d] # p
          /\ cproc[d] # NULL => cproc[d] \in Threads /\ cproc[d] # p /\ cproc[d] \in Procs \cup Idles
      <4>1. on[c] # on[d] /\ on[c] # d /\ on[c] # idle_proc[d] /\ cproc[d] # cproc[c]
        BY <1>1, <2>2, OwnStack
      <4>2. on[c] = p /\ cproc[c] = p
        BY <1>1 DEF p
      <4>. QED BY <1>7, <2>2, <4>1, <4>2, Where, Kinds
    <3>2. LockInv(d)' /\ FlagInv(d)'
      BY <1>7, <1>9, <2>2, <3>1, OthersKeep
    <3>3. /\ PlaceInv(d) /\ cproc'[d] = cproc[d]
          /\ pc'[d] = pc[d] /\ pc'[idle_proc[d]] = pc[idle_proc[d]]
          /\ cproc[d] # NULL => /\ pc'[cproc[d]] = pc[cproc[d]] /\ st'[cproc[d]] = st[cproc[d]]
                                /\ chan'[cproc[d]] = chan[cproc[d]]
          /\ on[d] # d => cproc[d] # NULL
      BY <1>5, <1>7, <2>2, <3>1, Where DEF IInv
    <3>4. PlaceInv(d)'
      BY <3>1, <3>3 DEF PlaceInv
    <3>. QED BY <3>2, <3>4
  <2>. QED BY <2>1, <2>2
<1>11. ASSUME NEW t \in Threads PROVE ThreadInv(t)'
  <2>1. CASE t = p
    <3>1. ThreadInv(p) /\ ret'[p] = ret[p] /\ pc'[p] = to /\ pc[p] = from
      BY <1>2, <1>5, <1>7 DEF IInv
    <3>2. (to \in BaseLabels <=> from \in BaseLabels) /\ to \notin SchedulerOnly /\ to \in Parked
      BY <1>6 DEF BaseLabels, Bottom, SchedulerOnly, Parked
    <3>3. to = "sleep_back" => intena'[p]
      <4>1. from = "sleep_switch" => int_enabled[c]
        BY <1>1 DEF FlagInv
      <4>. QED BY <1>6, <1>7, <4>1
    <3>. QED BY <1>2, <2>1, <3>1, <3>2, <3>3 DEF ThreadInv
  <2>2. CASE t # p
    <3>1. \A d \in Cpus : on[d] = t => on'[d] = t
      BY <1>1, <1>7, <2>2 DEF p
    <3>. QED BY <1>5, <1>7, <2>2, <3>1, SameThread
  <2>. QED BY <2>1, <2>2
<1>12. QueueInv'
  <2>0. QueueInv /\ cproc' = cproc /\ readyq' = readyq /\ waitq' = waitq /\ newp' = newp
    BY <1>1, <1>5
  <2>1. \A q \in Procs : q \in Threads /\ (Queued(q)' <=> Queued(q))
    BY <2>0, Kinds DEF Queued
  <2>2. \A i \in 1..Len(waitq) : waitq[i] \in Procs /\ waitq[i] # p
    <3>1. waitq \in Seq(Procs)
      BY <1>1 DEF TypeOK
    <3>. QED BY <1>2, <3>1, SeqBasics DEF Queued
  <2>3. \A i \in 1..Len(waitq') : pc'[waitq'[i]] = "sleep_back" /\ chan'[waitq'[i]] = "console_fifo"
    <3>1. \A i \in 1..Len(waitq) : pc[waitq[i]] = "sleep_back" /\ chan[waitq[i]] = "console_fifo"
      BY <2>0 DEF QueueInv
    <3>2. \A q \in Procs : q # p => pc'[q] = pc[q] /\ chan'[q] = chan[q]
      BY <1>7, <2>1
    <3>. QED BY <2>0, <2>2, <3>1, <3>2
  <2>4. \A q \in Procs : Queued(q)' => /\ q # newp' /\ pc'[q] \in Parked \ {"none"}
                                       /\ \A d \in Cpus : cproc'[d] # q
    <3>1. ASSUME NEW q \in Procs, Queued(q)
          PROVE  q # newp' /\ pc'[q] \in Parked \ {"none"} /\ \A d \in Cpus : cproc'[d] # q
      BY <1>1, <1>2, <1>5, <1>7, <2>1, <3>1 DEF QueueInv
    <3>. QED BY <2>1, <3>1
  <2>5. /\ newp' # NULL <=> pc'[Bsp] \in {"sched_add", "add_push"}
        /\ newp' # NULL => pc'[newp'] = "kentry"
    <3>1. Bsp \in Threads /\ Bsp # p /\ newp \in Procs \cup {NULL}
      BY <1>1, <1>2, Kinds DEF TypeOK
    <3>2. /\ newp # NULL <=> pc[Bsp] \in {"sched_add", "add_push"}
          /\ newp # NULL => pc[newp] = "kentry"
      BY <2>0 DEF QueueInv
    <3>. QED BY <1>2, <1>7, <2>0, <2>1, <3>1, <3>2
  <2>6. /\ \A q \in Procs : st'[q] = "UNUSED" <=> pc'[q] = "none"
        /\ \A q \in Procs : st'[q] # "UNUSED" => Queued(q)' \/ q = newp' \/ \E d \in Cpus : cproc'[d] = q
    <3>1. ASSUME NEW q \in Procs
          PROVE  /\ st'[q] = "UNUSED" <=> pc'[q] = "none"
                 /\ st'[q] # "UNUSED" => Queued(q) \/ q = newp' \/ \E d \in Cpus : cproc'[d] = q
      <4>1. CASE q = p
        BY <1>3, <1>5, <1>6, <1>7, <4>1 DEF p
      <4>2. CASE q # p
        <5>1. /\ st[q] = "UNUSED" <=> pc[q] = "none"
              /\ st[q] # "UNUSED" => Queued(q) \/ q = newp \/ \E d \in Cpus : cproc[d] = q
          BY <2>0 DEF QueueInv
        <5>. QED BY <1>7, <2>0, <2>1, <4>2, <5>1
      <4>. QED BY <4>1, <4>2
    <3>. QED BY <2>1, <3>1
  <2>7. /\ \A i, j \in 1..Len(readyq') : readyq'[i] = readyq'[j] => i = j
        /\ \A i, j \in 1..Len(waitq') : waitq'[i] = waitq'[j] => i = j
        /\ \A i \in 1..Len(readyq'), j \in 1..Len(waitq') : readyq'[i] # waitq'[j]
        /\ \A d, e \in Cpus : cproc'[d] = cproc'[e] /\ cproc'[d] # NULL => d = e
        /\ \A d \in Cpus : cproc'[d] # NULL => cproc'[d] # newp'
    BY SMT, <2>0 DEF QueueInv
  <2>. QED BY <2>3, <2>4, <2>5, <2>6, <2>7 DEF QueueInv
<1>. QED BY <1>8, <1>10, <1>11, <1>12 DEF IInv

-----------------------------------------------------------------------------
(* sched_wakeup().                                                         *)

\* The first waiter moves to the ready queue.
WakeOne ==
  /\ waitq # <<>>
  /\ waitq' = Tail(waitq)
  /\ readyq' = Append(readyq, waitq[1])

\* sched_wakeup() moving a waiter leaves every process in one queue.
LEMMA WakeOneInv ==
  ASSUME IInv, WakeOne,
         UNCHANGED <<cpuVars, on, cproc, pc, ret, intena, st, chan, newp, devVars>>
  PROVE  IInv'
<1> DEFINE p == waitq[1]
<1>1. TypeOK /\ QueueInv /\ waitq \in Seq(Procs) /\ readyq \in Seq(Procs) /\ p \in Procs
  <2>1. TypeOK /\ QueueInv /\ waitq \in Seq(Procs) /\ readyq \in Seq(Procs)
    BY DEF IInv, TypeOK
  <2>. QED BY <2>1, SeqHeadTail DEF WakeOne
<1> HIDE DEF p
<1>2. /\ \A j, k \in 1..Len(waitq) : waitq[j] = waitq[k] => j = k
      /\ \A j, k \in 1..Len(readyq) : readyq[j] = readyq[k] => j = k
      /\ \A j \in 1..Len(readyq), k \in 1..Len(waitq) : readyq[j] # waitq[k]
  BY <1>1 DEF QueueInv
<1>3. /\ waitq' \in Seq(Procs)
      /\ \A j, k \in 1..Len(waitq') : waitq'[j] = waitq'[k] => j = k
      /\ \A j \in 1..Len(waitq') : waitq'[j] # p /\ \E k \in 1..Len(waitq) : waitq[k] = waitq'[j]
      /\ \A k \in 1..Len(waitq) : k # 1 => \E j \in 1..Len(waitq') : waitq'[j] = waitq[k]
      /\ 1 \in 1..Len(waitq)
  <2>1. /\ waitq' \in Seq(Procs) /\ Len(waitq) \in Nat \ {0} /\ Len(waitq') = Len(waitq) - 1
        /\ \A j \in 1..Len(waitq') : waitq'[j] = waitq[j + 1]
    BY SMT, <1>1, SeqHeadTail, SeqBasics DEF WakeOne
  <2>2. \A j \in 1..Len(waitq') : j + 1 \in 1..Len(waitq) /\ j + 1 # 1
    BY SMT, <2>1
  <2>3. \A k \in 1..Len(waitq) : k # 1 => k - 1 \in 1..Len(waitq') /\ waitq'[k - 1] = waitq[k]
    BY SMT, <2>1
  <2>4. \A j, k \in 1..Len(waitq') : waitq'[j] = waitq'[k] => j = k
    <3>1. ASSUME NEW j \in 1..Len(waitq'), NEW k \in 1..Len(waitq'), waitq'[j] = waitq'[k] PROVE j = k
      <4>1. j + 1 = k + 1
        BY SMTT(30), <1>2, <2>1, <2>2, <3>1
      <4>. QED BY SMT, <2>1, <4>1
    <3>. QED BY <3>1
  <2>5. 1 \in 1..Len(waitq) /\ p = waitq[1]
    BY SMT, <2>1 DEF p
  <2>6. ASSUME NEW j \in 1..Len(waitq')
        PROVE  waitq'[j] # p /\ \E k \in 1..Len(waitq) : waitq[k] = waitq'[j]
    BY <1>2, <2>1, <2>2, <2>5
  <2>7. ASSUME NEW k \in 1..Len(waitq), k # 1 PROVE \E j \in 1..Len(waitq') : waitq'[j] = waitq[k]
    BY <2>3, <2>7
  <2>. QED BY <2>1, <2>4, <2>5, <2>6, <2>7
<1>4. /\ readyq' \in Seq(Procs)
      /\ \A j, k \in 1..Len(readyq') : readyq'[j] = readyq'[k] => j = k
      /\ \A j \in 1..Len(readyq') : readyq'[j] = p \/ \E k \in 1..Len(readyq) : readyq[k] = readyq'[j]
      /\ \A q : (\E j \in 1..Len(readyq') : readyq'[j] = q)
                  <=> (\E j \in 1..Len(readyq) : readyq[j] = q) \/ q = p
  <2>1. readyq' = Append(readyq, p) /\ \A j \in 1..Len(readyq) : readyq[j] # p
    BY SMT, <1>2 DEF p, WakeOne
  <2>2. Distinct(readyq)
    BY <1>2 DEF Distinct
  <2>3. Extended(readyq, readyq', p)
    BY <1>1, <2>1, <2>2, Pushed
  <2>. QED BY <2>3 DEF Extended, Distinct
<1>5. TypeOK'
  BY <1>1, <1>3, <1>4 DEF TypeOK, cpuVars, devVars
<1>6. \A d \in Cpus : LockInv(d)' /\ FlagInv(d)' /\ PlaceInv(d)'
  <2>1. \A d \in Cpus : LockInv(d)'
    BY DEF IInv, LockInv, Here, cpuVars
  <2>2. \A d \in Cpus : FlagInv(d)'
    <3>1. ASSUME NEW d \in Cpus PROVE FlagInv(d)'
      <4>1. FlagInv(d) /\ UNCHANGED <<on, pc, ints, spin, int_enabled, isr, panic>>
        BY DEF IInv, cpuVars, devVars
      <4>. QED BY ONLY <4>1, Zenon DEF FlagInv, Here
    <3>. QED BY <3>1
  <2>3. \A d \in Cpus : PlaceInv(d)'
    BY DEF IInv, PlaceInv
  <2>. QED BY <2>1, <2>2, <2>3
<1>7. \A t \in Threads : ThreadInv(t)'
  BY SameThread
<1>8. QueueInv'
  <2>1. \A q \in Procs : Queued(q)' <=> Queued(q)
    <3>1. ASSUME NEW q \in Procs, Queued(q)' PROVE Queued(q)
      <4>1. CASE \E j \in 1..Len(readyq') : readyq'[j] = q
        BY <1>3, <1>4, <4>1 DEF Queued, p
      <4>2. CASE \E j \in 1..Len(waitq') : waitq'[j] = q
        BY <1>3, <4>2 DEF Queued
      <4>. QED BY <3>1, <4>1, <4>2 DEF Queued
    <3>2. ASSUME NEW q \in Procs, Queued(q) PROVE Queued(q)'
      <4>1. CASE \E j \in 1..Len(readyq) : readyq[j] = q
        BY <1>4, <4>1 DEF Queued
      <4>2. CASE \E k \in 1..Len(waitq) : waitq[k] = q
        <5>1. PICK k \in 1..Len(waitq) : waitq[k] = q
          BY <4>2
        <5>2. CASE k = 1
          BY <1>4, <5>1, <5>2 DEF Queued, p
        <5>3. CASE k # 1
          BY <1>3, <5>1, <5>3 DEF Queued
        <5>. QED BY <5>2, <5>3
      <4>. QED BY <3>2, <4>1, <4>2 DEF Queued
    <3>. QED BY <3>1, <3>2
  <2>2. \A j \in 1..Len(readyq'), k \in 1..Len(waitq') : readyq'[j] # waitq'[k]
    <3>1. \A k \in 1..Len(waitq') : waitq'[k] # p
      BY <1>3
    <3>2. \A j \in 1..Len(readyq), k \in 1..Len(waitq') : readyq[j] # waitq'[k]
      BY SMT, <1>2, <1>3
    <3>. QED BY <1>4, <3>1, <3>2
  <2>3. \A j \in 1..Len(waitq') : pc'[waitq'[j]] = "sleep_back" /\ chan'[waitq'[j]] = "console_fifo"
    <3>1. \A j \in 1..Len(waitq) : pc[waitq[j]] = "sleep_back" /\ chan[waitq[j]] = "console_fifo"
      BY <1>1 DEF QueueInv
    <3>. QED BY SMT, <1>3, <3>1
  <2>4. UNCHANGED <<on, cproc, pc, st, chan, newp>>
    OBVIOUS
  <2>5. /\ \A q \in Procs : Queued(q)' => /\ q # newp' /\ pc'[q] \in Parked \ {"none"}
                                          /\ \A d \in Cpus : cproc'[d] # q
        /\ \A d, e \in Cpus : cproc'[d] = cproc'[e] /\ cproc'[d] # NULL => d = e
        /\ \A d \in Cpus : cproc'[d] # NULL => cproc'[d] # newp'
    <3>1. /\ \A q \in Procs : Queued(q) => /\ q # newp /\ pc[q] \in Parked \ {"none"}
                                           /\ \A d \in Cpus : cproc[d] # q
          /\ \A d, e \in Cpus : cproc[d] = cproc[e] /\ cproc[d] # NULL => d = e
          /\ \A d \in Cpus : cproc[d] # NULL => cproc[d] # newp
      BY <1>1 DEF QueueInv
    <3>. QED BY <2>1, <2>4, <3>1
  <2>6. /\ newp' # NULL <=> pc'[Bsp] \in {"sched_add", "add_push"}
        /\ newp' # NULL => pc'[newp'] = "kentry"
        /\ \A q \in Procs : st'[q] = "UNUSED" <=> pc'[q] = "none"
        /\ \A q \in Procs : st'[q] # "UNUSED" => Queued(q)' \/ q = newp' \/ \E d \in Cpus : cproc'[d] = q
    <3>1. /\ newp # NULL <=> pc[Bsp] \in {"sched_add", "add_push"}
          /\ newp # NULL => pc[newp] = "kentry"
          /\ \A q \in Procs : st[q] = "UNUSED" <=> pc[q] = "none"
          /\ \A q \in Procs : st[q] # "UNUSED" => Queued(q) \/ q = newp \/ \E d \in Cpus : cproc[d] = q
      BY <1>1 DEF QueueInv
    <3>. QED BY <2>1, <2>4, <3>1
  <2>. QED BY <1>3, <1>4, <2>2, <2>3, <2>5, <2>6 DEF QueueInv
<1>. QED BY <1>5, <1>6, <1>7, <1>8 DEF IInv

\* sched_wakeup() in the interrupt handler: everyone in the waiting queue
\* waits on the console, so the scan moves the first.
LEMMA WakeupInv ==
  ASSUME IInv, NEW c \in Cpus, Wakeup(c, "console_fifo", "com1_release"), UNCHANGED devVars
  PROVE  IInv'
<1> DEFINE waiters == {i \in DOMAIN waitq : chan[waitq[i]] = "console_fifo"}
           i == CHOOSE j \in waiters : \A k \in waiters : j <= k
<1>1. CASE waiters # {}
  <2>1. waitq \in Seq(Procs) /\ DOMAIN waitq = 1..Len(waitq) /\ Len(waitq) \in Nat
    BY SeqBasics DEF IInv, TypeOK
  <2>2. waiters = 1..Len(waitq)
    BY <2>1 DEF IInv, QueueInv
  <2>3. 1 \in waiters /\ \A k \in waiters : 1 <= k
    BY SMT, <1>1, <2>1, <2>2
  <2>4. i \in waiters /\ \A k \in waiters : i <= k
    BY <2>3
  <2>5. i = 1
    BY SMT, <2>1, <2>2, <2>3, <2>4
  <2>6. SubSeq(waitq, 1, 1 - 1) \o SubSeq(waitq, 1 + 1, Len(waitq)) = Tail(waitq) /\ waitq # <<>>
    BY SMT, <2>1, <2>2, <2>3
  <2>7. /\ UNCHANGED <<cpuVars, on, cproc, pc, ret, intena, st, chan, newp, devVars>>
        /\ waitq' = SubSeq(waitq, 1, i - 1) \o SubSeq(waitq, i + 1, Len(waitq))
        /\ readyq' = Append(readyq, waitq[i])
    BY <1>1 DEF Wakeup
  <2> HIDE DEF i
  <2>8. WakeOne
    BY <2>5, <2>6, <2>7 DEF WakeOne
  <2>. QED BY <2>7, <2>8, WakeOneInv
<1>2. CASE waiters = {}
  BY <1>2, WakeupDoneInv DEF Wakeup
<1>. QED BY <1>1, <1>2

-----------------------------------------------------------------------------
(* The invariant is inductive.                                             *)

\* Every CPU starts on its own stack with interrupts off and no lock held.
LEMMA InitInv ==
  Init => IInv
<1> SUFFICES ASSUME Init PROVE IInv
  OBVIOUS
<1>0. /\ Init /\ CpuInit /\ SchedInit
  BY DEF Init
<1>1. TypeOK
  <2>1. CpuType
    BY <1>0 DEF CpuInit, CpuType
  <2>2. pc \in [Threads -> Labels]
    BY <1>0 DEF SchedInit, Labels
  <2>3. on \in [Cpus -> Threads] /\ cproc \in [Cpus -> Procs \cup Idles \cup {NULL}]
    BY <1>0, Kinds DEF SchedInit
  <2>4. /\ ret \in [Threads -> Seq([pc : Labels, ints : BOOLEAN])] /\ intena \in [Threads -> BOOLEAN]
        /\ readyq \in Seq(Procs) /\ waitq \in Seq(Procs) /\ newp \in Procs \cup {NULL}
    BY SMT, <1>0 DEF SchedInit
  <2>5. st \in [Procs \cup Idles -> States] /\ chan \in [Procs \cup Idles -> {NULL, "console_fifo"}]
    BY <1>0 DEF SchedInit, States
  <2>6. DevType
    BY SMTT(30), <1>0, <2>5 DEF Init, DevType
  <2>. QED BY <2>1, <2>2, <2>3, <2>4, <2>5, <2>6 DEF TypeOK, CpuType, DevType
<1>2. ASSUME NEW c \in Cpus PROVE LockInv(c) /\ FlagInv(c) /\ PlaceInv(c)
  <2>1. /\ on[c] = c /\ pc[c] \in {"mpmain", "sched_start"} /\ Here(c) = pc[c] /\ cproc[c] = NULL
        /\ pc[c] = "mpmain" => c = Bsp
        /\ pc[idle_proc[c]] = "none"
    BY <1>0, Kinds DEF SchedInit, Here
  <2>2. /\ ~ints[c] /\ spin[c] = NULL /\ layer[c] = 0 /\ panic[c] = NULL /\ ~isr[c]
        /\ \A k \in Locks : owner[k] # c
    <3>1. ints[c] = FALSE /\ layer[c] = 0 /\ spin[c] = NULL
      BY <1>0 DEF CpuInit
    <3>2. panic[c] = NULL /\ isr[c] = FALSE
      BY <1>0 DEF Init, CpuInit
    <3>3. \A k \in Locks : owner[k] = NULL
      BY <1>0 DEF CpuInit
    <3>. QED BY <3>1, <3>2, <3>3, Kinds
  <2>3. LockInv(c)
    BY SMTT(30), <2>1, <2>2 DEF LockInv, Holds, Depth, SchedHeld, ReadHeld
  <2>4. FlagInv(c)
    BY <2>1, <2>2 DEF FlagInv, Bottom
  <2>5. PlaceInv(c)
    BY <2>1 DEF PlaceInv, SchedulerLabels, SchedulerOnly, BootLabels
  <2>. QED BY <2>3, <2>4, <2>5
<1>3. ASSUME NEW t \in Threads PROVE ThreadInv(t)
  <2>1. ret[t] = <<>> /\ (t \notin Cpus => pc[t] = "none") /\ pc[t] \in {"none", "mpmain", "sched_start"}
    BY <1>0, Kinds DEF SchedInit
  <2>2. pc[t] \in BaseLabels /\ Len(ret[t]) = 0
    BY <2>1 DEF BaseLabels
  <2>. QED BY SMTT(30), <2>1, <2>2 DEF ThreadInv, SchedulerOnly, Parked
<1>4. QueueInv
  <2>1. /\ readyq = <<>> /\ waitq = <<>> /\ newp = NULL /\ pc[Bsp] = "mpmain"
        /\ \A p \in Procs : st[p] = "UNUSED" /\ pc[p] = "none"
        /\ \A c \in Cpus : cproc[c] = NULL
    BY <1>0, Kinds DEF SchedInit
  <2>2. Len(readyq) = 0 /\ Len(waitq) = 0
    BY <2>1
  <2>. QED BY SMTT(30), <2>1, <2>2 DEF QueueInv, Queued
<1>. QED BY <1>1, <1>2, <1>3, <1>4 DEF IInv

\* A step that only changes what the devices have latched or received.
LEMMA DeviceInv ==
  ASSUME IInv, UNCHANGED <<cpuVars, schedVars, isr>>, DevType'
  PROVE  IInv'
<1>1. TypeOK'
  BY DEF IInv, TypeOK, DevType, cpuVars, schedVars
<1>2. ASSUME NEW c \in Cpus PROVE LockInv(c)' /\ FlagInv(c)' /\ PlaceInv(c)'
  <2>1. /\ LockInv(c) /\ FlagInv(c) /\ PlaceInv(c)
        /\ UNCHANGED <<ints, layer, int_enabled, owner, spin, panic, on, cproc, pc, st, chan, isr>>
    BY DEF IInv, cpuVars, schedVars
  <2>2. Here(c)' = Here(c)
    BY <2>1 DEF Here
  <2>3. LockInv(c)'
    BY ONLY <2>1, <2>2, Zenon DEF LockInv
  <2>4. FlagInv(c)'
    BY ONLY <2>1, <2>2, Zenon DEF FlagInv
  <2>5. PlaceInv(c)'
    BY ONLY <2>1 DEF PlaceInv
  <2>. QED BY <2>3, <2>4, <2>5
<1>3. \A t \in Threads : ThreadInv(t)'
  BY SameThread DEF schedVars
<1>4. QueueInv'
  <2>1. QueueInv /\ UNCHANGED <<on, cproc, pc, st, chan, readyq, waitq, newp>>
    BY DEF IInv, schedVars
  <2>2. \A p : Queued(p)' <=> Queued(p)
    BY ONLY <2>1 DEF Queued
  <2>. QED BY ONLY <2>1, <2>2 DEF QueueInv
<1>. QED BY <1>1, <1>2, <1>3, <1>4 DEF IInv

\* One step of the code a CPU executes.
LEMMA CodeInv ==
  ASSUME IInv, NEW c \in Cpus, Step(c)
  PROVE  IInv'
<1>1. CASE SchedStep(c)
  <2>0. UNCHANGED devVars
    BY <1>1 DEF SchedStep
  <2>1. CASE \E site \in SchedSites \cup ConsoleSites : Enter(c, site) \/ Take(c, site)
    BY <2>0, <2>1, EnterInv, TakeInv
  <2>2. CASE CreateProc(c) \/ SchedAdd(c) \/ BootDone(c) \/ SchedStart(c)
    BY <2>0, <2>2, CreateProcInv, SchedAddInv, BootDoneInv, SchedStartInv
  <2>3. CASE Pick(c) \/ Back(c) \/ ProcKentry(c)
    BY <2>0, <2>3, PickInv, BackInv, ProcKentryInv
  <2>4. CASE Yield(c, "sys_switch", "sys_back", "sys_release", "tail")
    BY <2>0, <2>4, SwitchOutInv, SwitchedInInv, YieldReleaseInv DEF Yield
  <2>5. CASE Yield(c, "tail_switch", "tail_back", "tail_release", "iret")
    BY <2>0, <2>5, SwitchOutInv, SwitchedInInv, YieldReleaseInv DEF Yield
  <2>6. CASE SleepUnlock(c) \/ SleepRelease(c)
    BY <2>0, <2>6, SleepUnlockInv, SleepReleaseInv
  <2>7. CASE SleepSwitch(c)
    BY <2>0, <2>7, SwitchOutInv DEF SleepSwitch
  <2>8. CASE SleepBack(c)
    BY <2>0, <2>8, SwitchedInInv DEF SleepBack
  <2>9. CASE Wakeup(c, "console_fifo", "com1_release")
    BY <2>0, <2>9, WakeupInv
  <2>. QED BY <1>1, <2>1, <2>2, <2>3, <2>4, <2>5, <2>6, <2>7, <2>8, <2>9 DEF SchedStep
<1>2. CASE SpuriousHandler(c) \/ TimerHandler(c) \/ HandlerTail(c) \/ SysConRead(c) \/ ShellLoop(c)
  BY <1>2, HandlerInv
<1>3. CASE Iret(c)
  BY <1>3, IretInv
<1>4. CASE Syscall(c)
  <2>1. PICK h \in SyscallEntries : TrapTo(c, h, ints[c])
    BY <1>4 DEF Syscall
  <2>2. on[c] \notin Cpus /\ spin[c] = NULL /\ Here(c) = "main" /\ TypeOK /\ FlagInv(c)
    BY <1>4, <2>1, Kinds DEF Syscall, At, Here, Workers, IInv, TrapTo
  <2>3. ints[c] = TRUE /\ ~isr[c] /\ isr' = isr
    BY <1>4, <2>2 DEF FlagInv, Bottom, InService, TypeOK, Syscall, devVars
  <2>4. DevType'
    BY <1>4, <2>1, <2>2 DEF DevType, TypeOK, Syscall, TrapTo, devVars
  <2>. QED BY <2>1, <2>2, <2>3, <2>4, TrapInv
<1>5. CASE DrainUart(c) \/ Com1Release(c) \/ GetcRead(c) \/ EchoOut(c)
  BY <1>5, DrainUartInv, Com1ReleaseInv, GetcReadInv, EchoOutInv
<1>. QED BY <1>1, <1>2, <1>3, <1>4, <1>5 DEF Step

\* Every step keeps the invariant.
LEMMA StepInv ==
  IInv /\ [Next]_vars => IInv'
<1> SUFFICES ASSUME IInv, [Next]_vars PROVE IInv'
  OBVIOUS
<1>0. TypeOK
  BY DEF IInv
<1>1. ASSUME NEW c \in Cpus, Step(c) PROVE IInv'
  BY <1>1, CodeInv
<1>2. ASSUME NEW c \in Cpus, TimerTick(c) PROVE IInv'
  <2>1. DevType'
    BY <1>0, <1>2 DEF TimerTick, DevType, TypeOK, schedVars
  <2>. QED BY <1>2, <2>1, DeviceInv DEF TimerTick
<1>3. ASSUME NEW c \in Cpus, Spurious(c) PROVE IInv'
  <2>1. DevType' /\ isr' = isr
    BY <1>0, <1>3 DEF Spurious, TrapTo, DevType, TypeOK, devVars
  <2>2. ~isr[c]
    BY <1>3 DEF Spurious, IInv, FlagInv, OpenLabels, InService
  <2>. QED BY <1>3, <2>1, <2>2, TrapInv DEF Spurious
<1>4. ASSUME NEW c \in Cpus, NEW irq \in {"timer", "com1"}, Deliver(c, irq) PROVE IInv'
  <2>1. DevType' /\ (\A d \in Cpus : d # c => isr'[d] = isr[d])
    BY <1>0, <1>4 DEF Deliver, TrapTo, DevType, TypeOK
  <2>. QED BY <1>4, <2>1, TrapInv DEF Deliver
<1>5. CASE UartReceive
  <2>1. DevType'
    <3>1. irr' \in [Cpus -> SUBSET {"timer", "com1"}]
      BY <1>0, <1>5 DEF UartReceive, TypeOK
    <3>2. rx' \in Seq(Nat) /\ sent' \in Nat
      BY SMTT(30), <1>0, <1>5, SeqAppend DEF UartReceive, TypeOK
    <3>. QED BY <1>0, <1>5, <3>1, <3>2 DEF UartReceive, DevType, TypeOK, schedVars
  <2>. QED BY <1>5, <2>1, DeviceInv DEF UartReceive
<1>6. CASE UNCHANGED vars
  <2>1. DevType'
    BY <1>0, <1>6 DEF DevType, TypeOK, vars, devVars, schedVars
  <2>. QED BY <1>6, <2>1, DeviceInv DEF vars, devVars
<1>7. CASE Halted
  BY <1>6, <1>7 DEF Halted
<1>. QED BY <1>1, <1>2, <1>3, <1>4, <1>5, <1>6, <1>7 DEF Next

\* The labels of the code say which locks are held, whether interrupts may be
\* on, where every CPU runs and where every process is (sched.c, spinlock.c,
\* interrupt.c, console.c), whatever the number of CPUs and processes.
THEOREM Invariance == Spec => []IInv
BY InitInv, StepInv, PTL DEF Spec

\* The queues hold processes of the table only, and int_disable_layer never
\* goes below zero.
THEOREM TypeCorrect == Spec => []TypeOK
<1>1. IInv => TypeOK
  BY DEF IInv
<1>. QED BY <1>1, Invariance, PTL

\* No assertion of cur_cpu, acquire, release, sched_switch_out, sched_sleep or
\* proc_kentry fails; of the panics in the model only the full console buffer
\* stops a CPU.
THEOREM PanicFree == Spec => []NoKernelPanic
<1>1. IInv => \A c \in Cpus : panic[c] \in {NULL, "uart buffer full"}
  BY DEF IInv, FlagInv
<1>2. IInv => CurCpuMasked
  BY DEF IInv, FlagInv, OpenLabels, CurCpuMasked, Here
<1>3. IInv => NoKernelPanic
  BY <1>1, <1>2 DEF NoKernelPanic
<1>. QED BY <1>3, Invariance, PTL

\* A process outside the kernel's critical sections has interrupts on.
THEOREM Restored == Spec => []InterruptsRestored
<1>1. ASSUME IInv, NEW c \in Cpus, Here(c) \in {"main", "getc", "echo"}, spin[c] = NULL
      PROVE  ints[c] /\ layer[c] = 0
  <2>1. FlagInv(c) /\ LockInv(c)
    BY <1>1 DEF IInv
  <2>2. ints[c]
    BY <1>1, <2>1 DEF FlagInv, Bottom
  <2>3. layer[c] = 0
    BY SMTT(30), <1>1, <2>1 DEF LockInv, Depth, SchedHeld, ReadHeld
  <2>. QED BY <2>2, <2>3
<1>2. IInv => InterruptsRestored
  BY <1>1 DEF InterruptsRestored, Here
<1>. QED BY <1>2, Invariance, PTL

\* handle_interrupt sends the EOI before interrupts come back on, on every
\* way out of it.
THEOREM Acknowledged == Spec => []NothingInService
<1>1. IInv => NothingInService
  BY DEF IInv, FlagInv, OpenLabels, InService, NothingInService
<1>. QED BY <1>1, Invariance, PTL

\* int_disable_layer is the number of locks held or awaited, and a CPU that
\* holds or awaits one has interrupts off.
THEOREM Discipline == Spec => []LockDiscipline
<1>1. ASSUME IInv, NEW c \in Cpus
      PROVE  LET held == {l \in Locks : owner[l] = c}
             IN  /\ held # {} \/ spin[c] # NULL => ~ints[c]
                 /\ layer[c] = Cardinality(held) + (IF spin[c] = NULL THEN 0 ELSE 1)
  <2> DEFINE held == {l \in Locks : owner[l] = c}
  <2>1. LockInv(c) /\ FlagInv(c)
    BY <1>1 DEF IInv
  <2>2. held = {l \in Locks : Holds(Here(c), l)}
    BY <2>1 DEF LockInv
  <2>3. {"sched", "console", "console_read"} \subseteq Locks
    BY SchedAssumption
  <2> HIDE DEF held
  <2>4. Cardinality(held) = Depth(Here(c)) /\ (held # {} => Here(c) \notin OpenLabels)
    <3>1. CASE Here(c) \in {"sleep_unlock", "sleep_release", "wakeup_scan"}
      <4>1. held = {"console_read", "sched"}
        BY <2>2, <2>3, <3>1 DEF Holds, SchedHeld, ReadHeld
      <4>2. "console_read" # "sched"
        OBVIOUS
      <4>3. Cardinality({"console_read", "sched"}) = 2
        BY <4>2, SmallSets
      <4>. QED BY <3>1, <4>1, <4>3 DEF Depth, OpenLabels
    <3>2. CASE /\ Here(c) \in SchedHeld \cup ReadHeld \cup {"echo_out"}
               /\ Here(c) \notin {"sleep_unlock", "sleep_release", "wakeup_scan"}
      <4>1. Here(c) \in SchedHeld => held = {"sched"}
        BY <2>2, <2>3, <3>2 DEF Holds, SchedHeld, ReadHeld
      <4>2. Here(c) \in ReadHeld => held = {"console_read"}
        BY <2>2, <2>3, <3>2 DEF Holds, SchedHeld, ReadHeld
      <4>3. Here(c) = "echo_out" => held = {"console"}
        BY <2>2, <2>3, <3>2 DEF Holds, SchedHeld, ReadHeld
      <4>4. Cardinality(held) = 1
        BY <3>2, <4>1, <4>2, <4>3, SmallSets
      <4>5. Depth(Here(c)) = 1
        BY <3>2 DEF Depth
      <4>6. Here(c) \notin OpenLabels
        BY <3>2 DEF OpenLabels, SchedHeld, ReadHeld
      <4>. QED BY <4>4, <4>5, <4>6
    <3>3. CASE Here(c) \notin SchedHeld \cup ReadHeld \cup {"echo_out"}
      <4>1. held = {}
        BY <2>2, <3>3 DEF Holds
      <4>2. Depth(Here(c)) = 0
        BY <3>3 DEF Depth, SchedHeld, ReadHeld
      <4>. QED BY <4>1, <4>2, SmallSets
    <3>. QED BY <3>1, <3>2, <3>3
  <2>5. held # {} \/ spin[c] # NULL => ~ints[c]
    BY <2>1, <2>4 DEF FlagInv
  <2>6. layer[c] = Cardinality(held) + (IF spin[c] = NULL THEN 0 ELSE 1)
    BY <2>1, <2>4 DEF LockInv
  <2>. QED BY <2>5, <2>6 DEF held
<1>2. IInv => LockDiscipline
  BY <1>1 DEF LockDiscipline
<1>. QED BY <1>2, Invariance, PTL

\* sched.c never loses a process and never has it in two places.
THEOREM Homed == Spec => []OneHome
<1>1. ASSUME IInv, NEW p \in Procs, st[p] = "UNUSED" PROVE Homes(p) = {}
  <2>1. QueueInv /\ pc[p] = "none" /\ p # NULL /\ TypeOK
    BY <1>1, Kinds DEF IInv, QueueInv
  <2>2. ~Queued(p) /\ newp # p
    BY <2>1 DEF QueueInv
  <2>3. \A c \in Cpus : cproc[c] # p
    BY <1>1, <2>1 DEF IInv, PlaceInv
  <2>4. DOMAIN readyq = 1..Len(readyq) /\ DOMAIN waitq = 1..Len(waitq)
    BY SMTT(30), <2>1 DEF TypeOK
  <2>5. /\ {i \in DOMAIN readyq : readyq[i] = p} = {} /\ {i \in DOMAIN waitq : waitq[i] = p} = {}
        /\ {c \in Cpus : cproc[c] = p} = {}
    BY <2>2, <2>3, <2>4 DEF Queued
  <2>. QED BY <2>2, <2>5 DEF Homes
<1>2. ASSUME IInv, NEW p \in Procs, st[p] # "UNUSED" PROVE \E h : Homes(p) = {h}
  <2>1. /\ QueueInv /\ TypeOK /\ DOMAIN readyq = 1..Len(readyq) /\ DOMAIN waitq = 1..Len(waitq)
        /\ p # NULL
    <3>1. QueueInv /\ TypeOK /\ readyq \in Seq(Procs) /\ waitq \in Seq(Procs)
      BY <1>2 DEF IInv, TypeOK
    <3>. QED BY <3>1, SeqBasics, Kinds
  <2> DEFINE R == {i \in DOMAIN readyq : readyq[i] = p}
             W == {i \in DOMAIN waitq : waitq[i] = p}
             C == {c \in Cpus : cproc[c] = p}
  <2>2. Homes(p) = ({"ready"} \X R) \cup ({"waiting"} \X W) \cup ({"cpu"} \X C)
                   \cup (IF newp = p THEN {<<"boot", 0>>} ELSE {})
    BY DEF Homes
  <2>3. CASE \E i \in 1..Len(readyq) : readyq[i] = p
    <3>1. PICK i \in 1..Len(readyq) : readyq[i] = p
      BY <2>3
    <3>2. R = {i} /\ W = {} /\ C = {} /\ newp # p
      BY SMTT(30), <2>1, <3>1 DEF QueueInv, Queued
    <3> HIDE DEF R, W, C
    <3>3. Homes(p) = {<<"ready", i>>}
      BY SMTT(30), <2>2, <3>2
    <3>. QED BY <3>3
  <2>4. CASE \E i \in 1..Len(waitq) : waitq[i] = p
    <3>1. PICK i \in 1..Len(waitq) : waitq[i] = p
      BY <2>4
    <3>2. W = {i} /\ R = {} /\ C = {} /\ newp # p
      BY SMTT(30), <2>1, <3>1 DEF QueueInv, Queued
    <3> HIDE DEF R, W, C
    <3>3. Homes(p) = {<<"waiting", i>>}
      BY SMTT(30), <2>2, <3>2
    <3>. QED BY <3>3
  <2>5. CASE ~Queued(p) /\ \E c \in Cpus : cproc[c] = p
    <3>1. PICK c \in Cpus : cproc[c] = p
      BY <2>5
    <3>2. C = {c} /\ R = {} /\ W = {} /\ newp # p
      BY SMTT(30), <2>1, <2>5, <3>1 DEF QueueInv, Queued
    <3> HIDE DEF R, W, C
    <3>3. Homes(p) = {<<"cpu", c>>}
      BY SMTT(30), <2>2, <3>2
    <3>. QED BY <3>3
  <2>6. CASE ~Queued(p) /\ newp = p
    <3>1. R = {} /\ W = {} /\ C = {}
      BY SMTT(30), <2>1, <2>6 DEF QueueInv, Queued
    <3> HIDE DEF R, W, C
    <3>2. Homes(p) = {<<"boot", 0>>}
      BY <2>2, <2>6, <3>1
    <3>. QED BY <3>2
  <2>. QED BY <1>2, <2>1, <2>3, <2>4, <2>5, <2>6 DEF QueueInv, Queued
<1>3. ASSUME IInv PROVE OneHome
  BY <1>1, <1>2, <1>3, SmallSets DEF OneHome
<1>. QED BY <1>3, Invariance, PTL

-----------------------------------------------------------------------------
(* What a step may never do.                                               *)

\* The queues change where sched.lock is held.
LEMMA QueueChange ==
  ASSUME IInv, [Next]_vars, readyq' # readyq \/ waitq' # waitq
  PROVE  \E c \in Cpus : Here(c) \in {"add_push", "pick", "back", "wakeup_scan"}
<1>1. \A c \in Cpus : ~TimerTick(c) /\ ~Spurious(c) /\ \A irq : ~Deliver(c, irq)
  BY DEF TimerTick, Spurious, Deliver, TrapTo, schedVars
<1>2. ~UartReceive /\ ~Halted /\ ~UNCHANGED vars
  BY DEF UartReceive, Halted, vars, schedVars
<1>3. PICK c \in Cpus : Step(c)
  BY <1>1, <1>2 DEF Next
<1>4. SchedStep(c)
  BY <1>3 DEF Step, SpuriousHandler, TimerHandler, HandlerTail, Iret, Syscall, TrapTo, SysConRead,
              DrainUart, Com1Release, ShellLoop, GetcRead, EchoOut
<1>5. /\ \A site : ~Enter(c, site) /\ ~Take(c, site)
      /\ ~CreateProc(c) /\ ~BootDone(c) /\ ~SchedStart(c) /\ ~ProcKentry(c)
      /\ ~SleepUnlock(c) /\ ~SleepRelease(c)
  BY DEF Enter, Take, CreateProc, BootDone, SchedStart, ProcKentry, SleepUnlock, SleepRelease, schedVars
<1>6. \A s, to : ~SwitchOut(c, s, to)
  BY DEF SwitchOut
<1>7. ~SleepSwitch(c) /\ ~SleepBack(c) /\ \A w, x, y, z : ~Yield(c, w, x, y, z)
  BY <1>6 DEF SleepSwitch, SleepBack, Yield, SwitchedIn
<1>8. SchedAdd(c) \/ Pick(c) \/ Back(c) \/ Wakeup(c, "console_fifo", "com1_release")
  BY <1>4, <1>5, <1>7 DEF SchedStep
<1>9. Here(c) \in {"add_push", "pick", "back", "wakeup_scan"}
  BY <1>8 DEF SchedAdd, Pick, Back, Wakeup, At, Here
<1>. QED BY <1>9

\* The ready and the waiting queue are changed under sched.lock only.
THEOREM GuardedQueues == Spec => QueuesGuarded
<1>1. ASSUME IInv, [Next]_vars
      PROVE  [<<readyq, waitq>>' # <<readyq, waitq>> => owner["sched"] # NULL]_vars
  <2>1. ASSUME <<readyq, waitq>>' # <<readyq, waitq>> PROVE owner["sched"] # NULL
    <3>1. PICK c \in Cpus : Here(c) \in {"add_push", "pick", "back", "wakeup_scan"}
      BY <1>1, <2>1, QueueChange
    <3>2. LockInv(c) /\ Holds(Here(c), "sched") /\ "sched" \in Locks /\ c # NULL
      BY <1>1, <3>1, Kinds, SchedAssumption DEF IInv, Holds, SchedHeld
    <3>. QED BY <3>2 DEF LockInv
  <2>. QED BY <2>1
<1>. QED BY <1>1, Invariance, PTL DEF Spec, QueuesGuarded

\* The console's ring buffer changes where console_read_lock is held.
LEMMA FifoChange ==
  ASSUME IInv, [Next]_vars, fifo' # fifo
  PROVE  \E c \in Cpus : DrainUart(c) \/ GetcRead(c)
<1>1. \A c \in Cpus : ~TimerTick(c) /\ ~Spurious(c) /\ \A irq : ~Deliver(c, irq)
  BY DEF TimerTick, Spurious, Deliver, devVars
<1>2. ~UartReceive /\ ~Halted /\ ~UNCHANGED vars
  BY DEF UartReceive, Halted, vars, devVars
<1>3. PICK c \in Cpus : Step(c)
  BY <1>1, <1>2 DEF Next
<1>4. DrainUart(c) \/ GetcRead(c)
  BY <1>3 DEF Step, SchedStep, SpuriousHandler, TimerHandler, HandlerTail, Iret, Syscall, SysConRead,
              Com1Release, ShellLoop, EchoOut, devVars
<1>. QED BY <1>4

\* The ring buffer is written and read by the holder of console_read_lock, so
\* it has one writer and one reader at a time.
THEOREM GuardedFifo == Spec => FifoGuarded
<1>1. ASSUME IInv, [Next]_vars
      PROVE  [fifo' # fifo => FifoHeld]_vars
  <2>1. ASSUME fifo' # fifo PROVE FifoHeld
    <3>1. PICK c \in Cpus : DrainUart(c) \/ GetcRead(c)
      BY <1>1, <2>1, FifoChange
    <3>2. pc[on[c]] \in {"com1_drain", "getc_read"}
      BY <3>1 DEF DrainUart, GetcRead, At
    <3>3. LockInv(c) /\ Holds(Here(c), "console_read") /\ "console_read" \in Locks
      BY <1>1, <3>2, SchedAssumption DEF IInv, Here, Holds, ReadHeld
    <3>. QED BY <3>2, <3>3 DEF LockInv, FifoHeld
  <2>. QED BY <2>1
<1>. QED BY <1>1, Invariance, PTL DEF Spec, FifoGuarded

\* What two CPUs, or a process and an interrupt handler, share is changed only
\* under the lock that goes with it.
THEOREM Guarded == Spec => SharedGuarded
BY GuardedQueues, GuardedFifo DEF SharedGuarded

-----------------------------------------------------------------------------
(* What a step of one CPU leaves alone.                                    *)

\* The place of CPU d, and the process switched out on it, stay as they are.
Stays(d) ==
  /\ Here(d)' = Here(d) /\ on'[d] = on[d] /\ cproc'[d] = cproc[d]
  /\ cproc[d] # NULL => st'[cproc[d]] = st[cproc[d]]

\* A step inside the thread of CPU c.
LEMMA MoveStays ==
  ASSUME IInv, NEW c \in Cpus, NEW d \in Cpus, d # c, NEW b,
         UNCHANGED <<on, cproc>>, pc' = [pc EXCEPT ![on[c]] = b], st' = st \/ st' = Preempted(c)
  PROVE  Stays(d)
<1>1. /\ on[c] # on[d] /\ on[d] \in Threads
      /\ cproc[d] # NULL => cproc[d] # cproc[c] /\ cproc[d] \in Procs \cup Idles
  BY OwnStack, Where
<1>2. Here(d)' = Here(d)
  BY <1>1 DEF Here, IInv, TypeOK
<1>3. cproc[d] # NULL => st'[cproc[d]] = st[cproc[d]]
  BY <1>1 DEF Preempted, IInv, TypeOK
<1>. QED BY <1>2, <1>3 DEF Stays

\* A switch of CPU c between its scheduler and a process nobody else runs.
LEMMA SwitchStays ==
  ASSUME IInv, NEW c \in Cpus, NEW d \in Cpus, d # c, NEW b,
         NEW p \in Procs \cup Idles, NEW s, NEW x, NEW y,
         \A e \in Cpus : e # c => cproc[e] # p,
         on' = [on EXCEPT ![c] = x], cproc' = [cproc EXCEPT ![c] = y],
         pc' = [pc EXCEPT ![on[c]] = b], st' = [st EXCEPT ![p] = s] \/ st' = st
  PROVE  Stays(d)
<1>1. /\ on[c] # on[d] /\ on[d] \in Threads
      /\ cproc[d] # NULL => cproc[d] # p /\ cproc[d] \in Procs \cup Idles
  BY OwnStack, Where
<1>2. on'[d] = on[d] /\ cproc'[d] = cproc[d]
  BY DEF IInv, TypeOK
<1>3. Here(d)' = Here(d)
  BY <1>1, <1>2 DEF Here, IInv, TypeOK
<1>4. cproc[d] # NULL => st'[cproc[d]] = st[cproc[d]]
  BY <1>1 DEF IInv, TypeOK
<1>. QED BY <1>2, <1>3, <1>4 DEF Stays

\* proc_alloc() and sched_start() write to a process that no other CPU runs.
LEMMA BootStays ==
  ASSUME IInv, NEW c \in Cpus, CreateProc(c) \/ SchedStart(c), NEW d \in Cpus, d # c
  PROVE  Stays(d)
<1>1. /\ TypeOK /\ on[c] # on[d] /\ on[d] # c /\ on[d] \in Threads /\ c \in Threads
      /\ cproc[d] # NULL => cproc[d] \in Procs \cup Idles /\ pc[cproc[d]] # "none"
      /\ on[d] # d => on[d] = cproc[d] /\ cproc[d] # NULL
      /\ pc[d] \in SchedulerLabels
  <2>1. TypeOK /\ on[c] # on[d] /\ on[d] # c /\ on[d] \in Threads /\ c \in Threads /\ PlaceInv(d)
    BY OwnStack, Where, Kinds DEF IInv
  <2>2. cproc[d] # NULL => cproc[d] \in Procs \cup Idles
    BY Where
  <2>. QED BY <2>1, <2>2, Where, Kinds DEF PlaceInv
<1>2. CASE CreateProc(c)
  <2>1. PICK p \in Procs : /\ st[p] = "UNUSED" /\ st' = [st EXCEPT ![p] = "RUNNABLE"]
                           /\ pc' = [pc EXCEPT ![p] = "kentry", ![c] = "sched_add"]
    BY <1>2 DEF CreateProc
  <2>2. pc[p] = "none" /\ p \notin Cpus
    BY <2>1, Kinds DEF IInv, QueueInv
  <2>3. on[d] # p /\ cproc[d] # p
    BY <1>1, <2>2, Kinds
  <2>4. pc'[on[d]] = pc[on[d]]
    BY <1>1, <2>1, <2>3 DEF TypeOK
  <2>5. cproc[d] # NULL => st'[cproc[d]] = st[cproc[d]]
    BY <1>1, <2>1, <2>3 DEF TypeOK
  <2>. QED BY <1>2, <2>4, <2>5 DEF Stays, Here, CreateProc
<1>3. CASE SchedStart(c)
  <2>1. on[d] # idle_proc[c] /\ cproc[d] # idle_proc[c]
    BY SMTT(30), OwnStack, Where, Kinds
  <2>2. pc'[on[d]] = pc[on[d]]
    BY <1>1, <1>3, <2>1 DEF TypeOK, SchedStart
  <2>3. cproc[d] # NULL => st'[cproc[d]] = st[cproc[d]]
    BY <1>1, <1>3, <2>1 DEF TypeOK, SchedStart
  <2>4. cproc'[d] = cproc[d]
    BY <1>1, <1>3 DEF TypeOK, SchedStart
  <2>. QED BY <1>3, <2>2, <2>3, <2>4 DEF Stays, Here, SchedStart
<1>. QED BY <1>2, <1>3

\* The scheduler takes a process from the ready queue, which no CPU runs.
LEMMA PickStays ==
  ASSUME IInv, IInv', NEW c \in Cpus, Pick(c)
  PROVE  /\ Here(c)' \in Parked \ {"none"} /\ on'[c] # c
         /\ \A d \in Cpus : d # c => Stays(d)
<1> DEFINE p == IF readyq # <<>> THEN Head(readyq) ELSE idle_proc[c]
<1>1. /\ on' = [on EXCEPT ![c] = p] /\ cproc' = [cproc EXCEPT ![c] = p]
      /\ st' = [st EXCEPT ![p] = "RUNNING"] /\ pc' = [pc EXCEPT ![on[c]] = "back"]
      /\ Here(c) = "pick"
  BY DEF Pick, Goto, At, Here
<1> HIDE DEF p
<1>2. /\ TypeOK /\ TypeOK' /\ QueueInv' /\ PlaceInv(c)'
  BY DEF IInv
<1>3. on'[c] = p /\ cproc'[c] = p
  BY <1>1, <1>2 DEF TypeOK
<1>4. p \in Threads /\ p \in Procs \cup Idles
  <2>1. p \in Threads /\ p \in Procs \cup Idles \cup {NULL}
    <3>1. on' \in [Cpus -> Threads] /\ cproc' \in [Cpus -> Procs \cup Idles \cup {NULL}]
      BY <1>2 DEF TypeOK
    <3>. QED BY <1>3, <3>1
  <2>. QED BY <2>1, Kinds
<1>5. p # NULL /\ p # c /\ p \notin Cpus
  BY <1>4, Kinds
<1>6. \A d \in Cpus : d # c => cproc[d] # p
  <2>1. \A d \in Cpus : d # c => cproc'[d] = cproc[d]
    BY <1>1, <1>2 DEF TypeOK
  <2>. QED BY SMTT(30), <1>2, <1>3, <1>5, <2>1 DEF QueueInv
<1>7. on[c] = c
  BY <1>1, Stand, Where DEF SchedulerOnly
<1>8. \A d \in Cpus : on[d] # p
  BY <1>5, <1>6, <1>7, Where
<1>9. pc[p] \in Parked /\ Here(c)' = pc[p]
  BY <1>1, <1>2, <1>3, <1>4, <1>5, <1>7, <1>8 DEF IInv, ThreadInv, Here, TypeOK
<1>10. Here(c)' # "none"
  BY <1>2, <1>3, <1>5 DEF PlaceInv, Here
<1>11. ASSUME NEW d \in Cpus, d # c PROVE Stays(d)
  BY <1>1, <1>4, <1>6, <1>11, SwitchStays
<1>. QED BY <1>3, <1>5, <1>9, <1>10, <1>11

\* A CPU changes neither the place of another CPU nor the process that is
\* being switched out there.
LEMMA StepStays ==
  ASSUME IInv, IInv', NEW c \in Cpus, Step(c), NEW d \in Cpus, d # c
  PROVE  Stays(d)
<1>0. TypeOK /\ on[c] \in Threads
  BY DEF IInv, TypeOK
<1>1. CASE SchedStep(c)
  <2>1. CASE \E site \in SchedSites \cup ConsoleSites : Enter(c, site) \/ Take(c, site)
    <3>1. \/ UNCHANGED schedVars
          \/ UNCHANGED <<on, cproc, st>> /\ \E b : pc' = [pc EXCEPT ![on[c]] = b]
      BY <2>1 DEF Enter, Take, Goto
    <3>2. CASE UNCHANGED schedVars
      BY <3>2 DEF Stays, Here, schedVars
    <3>. QED BY <3>1, <3>2, MoveStays
  <2>2. CASE CreateProc(c) \/ SchedStart(c)
    BY <2>2, BootStays
  <2>3. CASE SchedAdd(c) \/ BootDone(c) \/ ProcKentry(c) \/ SleepUnlock(c) \/ SleepRelease(c) \/ SleepBack(c)
    BY <2>3, MoveStays DEF SchedAdd, BootDone, ProcKentry, SleepUnlock, SleepRelease, SleepBack, SwitchedIn, Goto
  <2>4. CASE Pick(c)
    BY <2>4, PickStays
  <2>5. CASE Back(c)
    <3>1. /\ on' = [on EXCEPT ![c] = on[c]] /\ cproc' = [cproc EXCEPT ![c] = NULL]
          /\ st' = st /\ pc' = [pc EXCEPT ![on[c]] = "pick"]
      BY <1>0, <2>5 DEF Back, Goto, TypeOK
    <3>2. idle_proc[c] \in Procs \cup Idles /\ \A e \in Cpus : e # c => cproc[e] # idle_proc[c]
      BY Where, Kinds
    <3>. QED BY <3>1, <3>2, SwitchStays
  <2>6. ASSUME NEW s, NEW to, SwitchOut(c, s, to), Here(c) \in {"sys_switch", "tail_switch", "sleep_switch"}
        PROVE  Stays(d)
    <3>1. on[c] \notin Cpus
      BY <2>6, Where DEF IInv, PlaceInv, Here, SchedulerLabels, SchedulerOnly
    <3>2. cproc[c] \in Procs \cup Idles /\ cproc[c] # NULL /\ \A e \in Cpus : e # c => cproc[e] # cproc[c]
      BY <3>1, OwnStack, Where
    <3>3. \/ on' = [on EXCEPT ![c] = on[c]] /\ pc' = [pc EXCEPT ![on[c]] = pc[on[c]]]
          \/ on' = [on EXCEPT ![c] = c] /\ pc' = [pc EXCEPT ![on[c]] = to]
      BY <1>0, <2>6 DEF SwitchOut, Goto, TypeOK
    <3>4. cproc' = [cproc EXCEPT ![c] = cproc[c]] /\ st' = [st EXCEPT ![cproc[c]] = s]
      BY <1>0, <2>6 DEF SwitchOut, TypeOK
    <3>5. CASE on' = [on EXCEPT ![c] = on[c]] /\ pc' = [pc EXCEPT ![on[c]] = pc[on[c]]]
      BY <3>2, <3>4, <3>5, SwitchStays
    <3>6. CASE on' = [on EXCEPT ![c] = c] /\ pc' = [pc EXCEPT ![on[c]] = to]
      BY <3>2, <3>4, <3>6, SwitchStays
    <3>. QED BY <3>3, <3>5, <3>6
  <2>7. ASSUME NEW w, NEW x, NEW y, NEW z, Yield(c, w, x, y, z), w \in {"sys_switch", "tail_switch"}
        PROVE  Stays(d)
    <3>1. CASE \E s, to : SwitchOut(c, s, to) /\ At(c, w)
      BY <2>6, <2>7, <3>1 DEF At, Here
    <3>2. CASE SwitchedIn(c, x, y) \/ (Goto(c, z) /\ UNCHANGED <<on, cproc, st>>)
      BY <3>2, MoveStays DEF SwitchedIn, Goto
    <3>. QED BY <2>7, <3>1, <3>2 DEF Yield
  <2>8. CASE SleepSwitch(c)
    BY <2>6, <2>8 DEF SleepSwitch, At, Here
  <2>9. CASE Wakeup(c, "console_fifo", "com1_release")
    <3>1. /\ UNCHANGED <<on, cproc, st>>
          /\ pc' = pc \/ pc' = [pc EXCEPT ![on[c]] = "com1_release"]
      BY <2>9 DEF Wakeup, Goto
    <3>2. CASE pc' = pc
      BY <3>1, <3>2 DEF Stays, Here
    <3>. QED BY <3>1, <3>2, MoveStays
  <2>. QED BY <1>1, <2>1, <2>2, <2>3, <2>4, <2>5, <2>7, <2>8, <2>9 DEF SchedStep
<1>2. CASE SpuriousHandler(c) \/ TimerHandler(c) \/ HandlerTail(c) \/ Iret(c) \/ SysConRead(c) \/ ShellLoop(c)
           \/ Com1Release(c) \/ EchoOut(c)
  BY <1>2, MoveStays DEF SpuriousHandler, TimerHandler, HandlerTail, Iret, SysConRead, ShellLoop,
                         Com1Release, EchoOut, Goto
<1>3. CASE Syscall(c)
  BY <1>3, MoveStays DEF Syscall, TrapTo, Goto
<1>4. CASE DrainUart(c) \/ GetcRead(c)
  <2>1. UNCHANGED <<on, cproc, st>> /\ (pc' = pc \/ \E b : pc' = [pc EXCEPT ![on[c]] = b])
    BY <1>4 DEF DrainUart, GetcRead, Goto
  <2>2. CASE pc' = pc
    BY <2>1, <2>2 DEF Stays, Here
  <2>. QED BY <2>1, <2>2, MoveStays
<1>. QED BY <1>1, <1>2, <1>3, <1>4 DEF Step

-----------------------------------------------------------------------------
(* No wakeup is lost.                                                      *)

\* From storing a character to the end of sched_wakeup.
WakingLabels == {"com1_drain", "wakeup", "wakeup_scan"}

Waking == \E c \in Cpus : Here(c) \in WakingLabels

\* The process of CPU c has given up console_read_lock in sched_sleep and is
\* not in the waiting queue yet.
Dozing(c) ==
  \/ Here(c) = "sleep_switch"
  \/ on[c] = c /\ Here(c) = "back" /\ cproc[c] # NULL /\ st[cproc[c]] # "RUNNABLE"

\* console_getc found the ring buffer empty, and as long as sched_sleep has
\* not released console_read_lock it stays empty; from then on, sched.lock
\* keeps the scan of sched_wakeup away until the process is queued.
WakeInv ==
  /\ NoLostWakeup
  /\ \A c \in Cpus : Here(c) \in {"sleep", "sleep_unlock"} => fifo = <<>>
  /\ \A c \in Cpus : Dozing(c) => fifo = <<>> \/ Waking

\* Two CPUs never hold the same lock.
LEMMA OneHolder ==
  ASSUME IInv, NEW c \in Cpus, NEW d \in Cpus, d # c, NEW k \in Locks, Holds(Here(c), k)
  PROVE  ~Holds(Here(d), k)
<1>1. LockInv(c) /\ LockInv(d)
  BY DEF IInv
<1>. QED BY SMT, <1>1 DEF LockInv

\* A CPU that leaves the ring buffer alone and only comes to sleep, to doze or
\* to the end of a wakeup in order.
LEMMA WakeKept ==
  ASSUME WakeInv, NEW c \in Cpus, \A d \in Cpus : d # c => Stays(d), fifo' = fifo,
         Here(c) \in WakingLabels => Here(c)' \in WakingLabels,
         Here(c)' \in {"sleep", "sleep_unlock"} => fifo = <<>>,
         Dozing(c)' => Dozing(c) \/ fifo = <<>>,
         waitq' # <<>> => waitq # <<>> \/ Dozing(c)
  PROVE  WakeInv'
<1>1. \A d \in Cpus : d # c => Here(d)' = Here(d) /\ (Dozing(d)' => Dozing(d))
  BY DEF Stays, Dozing
<1>2. Waking => Waking'
  BY <1>1 DEF Waking
<1>3. waitq # <<>> /\ fifo # <<>> => Waking
  BY DEF WakeInv, NoLostWakeup, Waking, Here, WakingLabels
<1>4. ASSUME waitq' # <<>>, fifo' # <<>> PROVE Waking'
  BY <1>2, <1>3, <1>4 DEF WakeInv
<1>5. NoLostWakeup'
  BY <1>4 DEF NoLostWakeup, Waking, Here, WakingLabels
<1>6. \A d \in Cpus : Here(d)' \in {"sleep", "sleep_unlock"} => fifo' = <<>>
  BY <1>1 DEF WakeInv
<1>7. \A d \in Cpus : Dozing(d)' => fifo' = <<>> \/ Waking'
  BY <1>1, <1>2 DEF WakeInv
<1>. QED BY <1>5, <1>6, <1>7 DEF WakeInv

\* From label a to label b inside a thread.
InOrderOfSleep(a, b) ==
  /\ a \in WakingLabels => b \in WakingLabels
  /\ b \in {"sleep", "sleep_unlock"} => a \in {"sleep", "sleep_unlock"}
  /\ b = "sleep_switch" => a = "sleep_unlock"
  /\ b # "back"

LEMMA WakeMove ==
  ASSUME IInv, WakeInv, NEW c \in Cpus, \A d \in Cpus : d # c => Stays(d),
         NEW b, InOrderOfSleep(Here(c), b), Goto(c, b), UNCHANGED <<on, fifo, waitq>>
  PROVE  WakeInv'
<1>1. Here(c)' = b
  BY DEF IInv, TypeOK, Here, Goto
<1>2. Dozing(c)' => fifo = <<>>
  BY <1>1 DEF Dozing, InOrderOfSleep, WakeInv
<1>3. Here(c)' \in {"sleep", "sleep_unlock"} => fifo = <<>>
  BY <1>1 DEF InOrderOfSleep, WakeInv
<1>4. Here(c) \in WakingLabels => Here(c)' \in WakingLabels
  BY <1>1 DEF InOrderOfSleep
<1>. QED BY <1>2, <1>3, <1>4, WakeKept

\* One step of the code a CPU executes.
LEMMA CodeWake ==
  ASSUME IInv, IInv', WakeInv, NEW c \in Cpus, Step(c)
  PROVE  WakeInv'
<1>0. /\ TypeOK /\ on[c] \in Threads /\ \A d \in Cpus : d # c => Stays(d)
  BY StepStays DEF IInv, TypeOK
<1>1. CASE SchedStep(c)
  <2>0. fifo' = fifo
    BY <1>1 DEF SchedStep, devVars
  <2>1. ASSUME NEW site \in SchedSites \cup ConsoleSites, Enter(c, site) PROVE WakeInv'
    <3>1. UNCHANGED schedVars
      BY <2>1 DEF Enter
    <3>. QED BY <2>0, <3>1 DEF WakeInv, NoLostWakeup, Dozing, Waking, Here, schedVars
  <2>2. ASSUME NEW site \in SchedSites \cup ConsoleSites, Take(c, site) PROVE WakeInv'
    <3>1. Goto(c, site[3]) /\ UNCHANGED <<on, waitq>> /\ Here(c) = site[1]
      BY <2>2 DEF Take, At, Here
    <3>2. InOrderOfSleep(site[1], site[3])
      BY SMT DEF SchedSites, ConsoleSites, InOrderOfSleep, WakingLabels
    <3>. QED BY <1>0, <2>0, <3>1, <3>2, WakeMove
  <2>3. CASE CreateProc(c) \/ SchedStart(c)
    <3>1. UNCHANGED <<on, waitq>> /\ Here(c) \in {"mpmain", "sched_start"}
      BY <2>3 DEF CreateProc, SchedStart, At, Here
    <3>2. on[c] = c
      BY <3>1, Stand, Where DEF SchedulerOnly
    <3>3. pc'[c] \in {"sched_add", "loop"}
      BY <1>0, <2>3, <3>2, Kinds DEF CreateProc, SchedStart, TypeOK
    <3>4. Here(c)' \in {"sched_add", "loop"}
      BY <3>1, <3>2, <3>3 DEF Here
    <3>5. ~Dozing(c)' /\ Here(c) \notin WakingLabels /\ Here(c)' \notin {"sleep", "sleep_unlock"}
      BY <3>1, <3>4 DEF Dozing, WakingLabels
    <3>. QED BY <1>0, <2>0, <3>1, <3>5, WakeKept
  <2>4. ASSUME NEW b, Goto(c, b), UNCHANGED <<on, waitq>>,
               <<Here(c), b>> \in {<<"add_push", "mpmain">>, <<"mpmain", "sched_start">>, <<"kentry", "iret">>,
                 <<"sleep_unlock", "sleep_switch">>, <<"sleep_back", "sleep_relock">>, <<"sleep_release", "getc_read">>,
                 <<"sys_back", "sys_release">>, <<"sys_release", "tail">>, <<"tail_back", "tail_release">>,
                 <<"tail_release", "iret">>}
        PROVE  WakeInv'
    <3>1. InOrderOfSleep(Here(c), b)
      BY <2>4 DEF InOrderOfSleep, WakingLabels
    <3>. QED BY <1>0, <2>0, <2>4, <3>1, WakeMove
  <2>5. CASE SchedAdd(c) \/ BootDone(c) \/ ProcKentry(c)
    BY <2>4, <2>5 DEF SchedAdd, BootDone, ProcKentry, At, Here
  <2>6. CASE SleepUnlock(c) \/ SleepRelease(c) \/ SleepBack(c)
    BY <2>4, <2>6 DEF SleepUnlock, SleepRelease, SleepBack, SwitchedIn, At, Here
  <2>7. CASE Pick(c)
    <3>1. Here(c)' \in Parked \ {"none"} /\ waitq' = waitq /\ Here(c) = "pick"
      BY <2>7, PickStays DEF Pick, At, Here
    <3>2. ~Dozing(c)' /\ Here(c) \notin WakingLabels /\ Here(c)' \notin {"sleep", "sleep_unlock"}
      BY <3>1 DEF Dozing, WakingLabels, Parked
    <3>. QED BY <1>0, <2>0, <3>1, <3>2, WakeKept
  <2>8. CASE Back(c)
    <3>1. on' = on /\ Here(c) = "back" /\ Here(c)' = "pick"
      BY <1>0, <2>8 DEF Back, Goto, At, Here, TypeOK
    <3>2. on[c] = c
      BY <3>1, Stand, Where DEF SchedulerOnly
    <3>3. waitq' # waitq => Dozing(c)
      BY <2>8, <3>1, <3>2 DEF Back, Dozing
    <3>4. ~Dozing(c)' /\ Here(c) \notin WakingLabels /\ Here(c)' \notin {"sleep", "sleep_unlock"}
      BY <3>1 DEF Dozing, WakingLabels
    <3>. QED BY <1>0, <2>0, <3>3, <3>4, WakeKept
  <2>9. ASSUME NEW s, NEW to, SwitchOut(c, s, to), to # "sleep_switch", to # "sleep", to # "sleep_unlock",
               \/ Here(c) \in {"sys_switch", "tail_switch"} /\ s = "RUNNABLE"
               \/ Here(c) = "sleep_switch"
        PROVE  WakeInv'
    <3>1. on[c] \notin Cpus /\ on[c] # c
      BY <2>9, Where DEF IInv, PlaceInv, Here, SchedulerLabels, SchedulerOnly
    <3>2. cproc'[c] = cproc[c] /\ cproc[c] \in Procs \cup Idles /\ waitq' = waitq
      BY <2>9, <3>1, Where DEF SwitchOut
    <3>3. st'[cproc[c]] = s
      BY <1>0, <2>9, <3>2 DEF SwitchOut, TypeOK
    <3>4. Here(c)' \in {Here(c), "back"}
      <4>1. CASE UNCHANGED <<on, pc>>
        BY <4>1 DEF Here
      <4>2. CASE on' = [on EXCEPT ![c] = c] /\ Goto(c, to)
        <5>1. on'[c] = c /\ pc'[c] = pc[c]
          BY SMTT(30), <1>0, <3>1, <4>2, Kinds DEF Goto, TypeOK
        <5>2. pc[c] = "back"
          BY <3>1 DEF IInv, PlaceInv
        <5>. QED BY <5>1, <5>2 DEF Here
      <4>. QED BY <2>9, <4>1, <4>2 DEF SwitchOut
    <3>5. Dozing(c)' => Dozing(c)
      BY <2>9, <3>2, <3>3, <3>4 DEF Dozing
    <3>6. Here(c) \notin WakingLabels /\ Here(c)' \notin {"sleep", "sleep_unlock"}
      BY <2>9, <3>4 DEF WakingLabels
    <3>. QED BY <1>0, <2>0, <3>2, <3>5, <3>6, WakeKept
  <2>10. CASE SleepSwitch(c)
    BY <2>9, <2>10 DEF SleepSwitch, At, Here
  <2>11. ASSUME NEW w, NEW x, NEW y, NEW z, Yield(c, w, x, y, z),
                \/ w = "sys_switch" /\ x = "sys_back" /\ y = "sys_release" /\ z = "tail"
                \/ w = "tail_switch" /\ x = "tail_back" /\ y = "tail_release" /\ z = "iret"
         PROVE  WakeInv'
    <3>1. CASE Here(c) = w /\ SwitchOut(c, IF st[cproc[c]] = "RUNNING" THEN "RUNNABLE" ELSE st[cproc[c]], x)
      <4>1. on[c] # c
        BY <2>11, <3>1, Where DEF IInv, PlaceInv, Here, SchedulerLabels, SchedulerOnly
      <4>2. st[cproc[c]] \in {"RUNNING", "RUNNABLE"}
        BY <4>1 DEF IInv, PlaceInv
      <4>3. SwitchOut(c, "RUNNABLE", x)
        BY <3>1, <4>2
      <4>. QED BY <2>9, <2>11, <3>1, <4>3
    <3>2. CASE SwitchedIn(c, x, y)
      BY <2>4, <2>11, <3>2 DEF SwitchedIn, At, Here
    <3>3. CASE Here(c) = y /\ Goto(c, z) /\ UNCHANGED <<on, waitq>>
      BY <2>4, <2>11, <3>3
    <3>. QED BY <2>11, <3>1, <3>2, <3>3 DEF Yield, At, Here
  <2>12. CASE Wakeup(c, "console_fifo", "com1_release")
    <3> DEFINE waiters == {i \in DOMAIN waitq : chan[waitq[i]] = "console_fifo"}
    <3>1. Here(c) = "wakeup_scan" /\ on' = on /\ waitq \in Seq(Procs)
      BY <1>0, <2>12 DEF Wakeup, At, Here, TypeOK
    <3>2. CASE waiters # {}
      <4>1. Here(c)' = Here(c)
        BY <2>12, <3>1, <3>2 DEF Wakeup, Here
      <4>2. Waking'
        BY <3>1, <4>1 DEF Waking, WakingLabels
      <4>3. \A d \in Cpus : Here(d)' = Here(d)
        BY <1>0, <4>1 DEF Stays
      <4>. QED BY <2>0, <4>2, <4>3 DEF WakeInv, NoLostWakeup, Waking, WakingLabels, Here
    <3>3. CASE waiters = {}
      <4>1. waitq' = waitq /\ Goto(c, "com1_release")
        BY <2>12, <3>3 DEF Wakeup
      <4>2. DOMAIN waitq = {}
        <5>1. DOMAIN waitq = 1..Len(waitq)
          BY <3>1, SeqBasics
        <5>2. \A i \in 1..Len(waitq) : chan[waitq[i]] = "console_fifo"
          BY DEF IInv, QueueInv
        <5>. QED BY <3>3, <5>1, <5>2
      <4>3. waitq' = <<>>
        BY SMT, <3>1, <4>1, <4>2, SeqBasics
      <4>4. Here(c)' = "com1_release"
        BY <1>0, <3>1, <4>1 DEF Here, Goto, TypeOK
      <4>5. ASSUME NEW d \in Cpus PROVE ~Dozing(d)'
        <5>1. CASE d = c
          BY <4>4, <5>1 DEF Dozing
        <5>2. CASE d # c
          <6>1. "sched" \in Locks /\ Holds(Here(c), "sched")
            BY <3>1, SchedAssumption DEF Holds, SchedHeld
          <6>2. ~Holds(Here(d), "sched")
            BY <5>2, <6>1, OneHolder
          <6>3. Here(d)' = Here(d)
            BY <1>0, <5>2 DEF Stays
          <6>. QED BY <6>2, <6>3 DEF Dozing, Holds, SchedHeld
        <5>. QED BY <5>1, <5>2
      <4>6. \A d \in Cpus : Here(d)' \in {"sleep", "sleep_unlock"} => fifo' = <<>>
        BY <1>0, <2>0, <4>4 DEF Stays, WakeInv
      <4>. QED BY <4>3, <4>5, <4>6 DEF WakeInv, NoLostWakeup
    <3>. QED BY <3>2, <3>3
  <2>. QED BY <1>1, <2>1, <2>2, <2>3, <2>5, <2>6, <2>7, <2>8, <2>10, <2>11, <2>12 DEF SchedStep
<1>2. ASSUME NEW b, Goto(c, b), UNCHANGED <<on, waitq, fifo>>,
             Here(c) \in {"spurious", "timer", "tail", "iret", "main", "sys_con_read", "com1_release", "echo_out"},
             b \in OpenLabels
      PROVE  WakeInv'
  <2>1. InOrderOfSleep(Here(c), b)
    BY <1>2 DEF InOrderOfSleep, WakingLabels, OpenLabels
  <2>. QED BY <1>0, <1>2, <2>1, WakeMove
<1>3. CASE SpuriousHandler(c) \/ TimerHandler(c) \/ HandlerTail(c) \/ SysConRead(c) \/ ShellLoop(c)
  BY <1>2, <1>3 DEF SpuriousHandler, TimerHandler, HandlerTail, SysConRead, ShellLoop, At, Here, OpenLabels, devVars
<1>4. CASE Com1Release(c) \/ EchoOut(c)
  BY <1>2, <1>4 DEF Com1Release, EchoOut, At, Here, OpenLabels, devVars
<1>5. CASE Iret(c)
  BY <1>2, <1>5, IretInv DEF Iret, Goto, devVars
<1>6. CASE Syscall(c)
  BY <1>2, <1>6 DEF Syscall, SyscallEntries, TrapTo, At, Here, OpenLabels, devVars
<1>7. ASSUME Here(c) \in {"com1_drain", "getc_read"}
      PROVE  \A d \in Cpus : d # c => Here(d)' \notin {"sleep", "sleep_unlock"}
  <2>1. "console_read" \in Locks /\ Holds(Here(c), "console_read")
    BY <1>7, SchedAssumption DEF Holds, ReadHeld
  <2>2. \A d \in Cpus : d # c => ~Holds(Here(d), "console_read")
    BY <2>1, OneHolder
  <2>. QED BY <1>0, <2>2 DEF Stays, Holds, ReadHeld
<1>8. CASE DrainUart(c)
  <2>1. Here(c) = "com1_drain" /\ Here(c)' \in {"com1_drain", "wakeup"}
    BY <1>0, <1>8 DEF DrainUart, Goto, At, Here, TypeOK
  <2>2. Waking'
    BY <2>1 DEF Waking, WakingLabels
  <2>3. \A d \in Cpus : Here(d)' \notin {"sleep", "sleep_unlock"}
    BY <1>7, <2>1
  <2>. QED BY <2>2, <2>3 DEF WakeInv, NoLostWakeup, Waking, WakingLabels, Here
<1>9. CASE GetcRead(c)
  <2>1. Here(c) = "getc_read" /\ waitq' = waitq
    BY <1>9 DEF GetcRead, At, Here
  <2>2. CASE fifo = <<>>
    <3>1. Here(c)' = "sleep" /\ fifo' = fifo
      BY <1>0, <1>9, <2>2 DEF GetcRead, Goto, Here, TypeOK
    <3>2. ~Dozing(c)' /\ Here(c) \notin WakingLabels
      BY <2>1, <3>1 DEF Dozing, WakingLabels
    <3>. QED BY <1>0, <2>1, <2>2, <3>1, <3>2, WakeKept
  <2>3. CASE fifo # <<>>
    <3>1. Here(c)' \in {"main", "echo"}
      BY <1>0, <1>9, <2>3 DEF GetcRead, Goto, Here, TypeOK
    <3>2. \A d \in Cpus : Here(d)' \notin {"sleep", "sleep_unlock"}
      BY <1>7, <2>1, <3>1
    <3>3. Waking => Waking'
      BY <1>0, <2>1 DEF Stays, Waking, WakingLabels
    <3>4. \A d \in Cpus : Dozing(d)' => Dozing(d)
      BY <1>0, <3>1 DEF Stays, Dozing
    <3>5. waitq' # <<>> => Waking
      BY <2>1, <2>3 DEF WakeInv, NoLostWakeup, Waking, WakingLabels, Here
    <3>6. NoLostWakeup'
      BY <3>3, <3>5 DEF NoLostWakeup, Waking, WakingLabels, Here
    <3>. QED BY <2>3, <3>2, <3>3, <3>4, <3>6 DEF WakeInv
  <2>. QED BY <2>2, <2>3
<1>. QED BY <1>1, <1>3, <1>4, <1>5, <1>6, <1>8, <1>9 DEF Step

\* Every step keeps WakeInv; a trap comes where interrupts are on, which is
\* neither in sched_sleep nor in console_isr_handler.
LEMMA NextWake ==
  IInv /\ IInv' /\ WakeInv /\ [Next]_vars => WakeInv'
<1> SUFFICES ASSUME IInv, IInv', WakeInv, [Next]_vars PROVE WakeInv'
  OBVIOUS
<1>1. ASSUME NEW c \in Cpus, Step(c) PROVE WakeInv'
  BY <1>1, CodeWake
<1>2. ASSUME NEW c \in Cpus, NEW h \in {"spurious", "timer", "com1"}, TrapTo(c, h, FALSE), ints[c], fifo' = fifo
      PROVE  WakeInv'
  <2>1. Here(c) \in OpenLabels
    BY <1>2 DEF IInv, FlagInv
  <2>2. InOrderOfSleep(Here(c), h)
    BY <1>2, <2>1 DEF InOrderOfSleep, OpenLabels, WakingLabels
  <2>3. \A d \in Cpus : d # c => Stays(d)
    BY <1>2, MoveStays DEF TrapTo, Goto
  <2>. QED BY <1>2, <2>2, <2>3, WakeMove DEF TrapTo
<1>3. ASSUME NEW c \in Cpus, Spurious(c) \/ \E irq \in {"timer", "com1"} : Deliver(c, irq) PROVE WakeInv'
  BY <1>2, <1>3 DEF Spurious, Deliver, devVars
<1>4. CASE UNCHANGED <<schedVars, fifo>>
  BY <1>4 DEF WakeInv, NoLostWakeup, Dozing, Waking, Here, schedVars
<1>. QED BY <1>1, <1>3, <1>4 DEF Next, TimerTick, UartReceive, Halted, vars, devVars

\* A process waits while the ring buffer holds a character only as long as
\* console_isr_handler is on its way to sched_wakeup, whatever the number of
\* CPUs, readers and characters: console_getc, sched_sleep and sched_wakeup
\* leave no window in which a wakeup is lost.
THEOREM Woken == Spec => []NoLostWakeup
<1>1. Init => WakeInv
  <2> SUFFICES ASSUME Init PROVE WakeInv
    OBVIOUS
  <2>1. waitq = <<>> /\ fifo = <<>>
    BY DEF Init, SchedInit
  <2>. QED BY <2>1 DEF WakeInv, NoLostWakeup
<1>2. WakeInv => NoLostWakeup
  BY DEF WakeInv
<1>. QED BY <1>1, <1>2, NextWake, Invariance, PTL DEF Spec

-----------------------------------------------------------------------------
(* No edge of the UART is lost.                                            *)

\* The handler on its way to an empty receiver.
Draining == Here(Bsp) \in {"com1", "com1_drain"}

\* Only console_isr_handler itself leaves its loop, with the receiver empty.
LEMMA CodeEdge ==
  ASSUME IInv, IInv', NEW c \in Cpus, Step(c), Here(c) \in {"com1", "com1_drain"}
  PROVE  Here(c)' \in {"com1", "com1_drain"} \/ rx' = <<>>
<1>0. on[c] \in Threads /\ TypeOK
  BY DEF IInv, TypeOK
<1>1. CASE SchedStep(c)
  <2>1. ASSUME NEW site \in SchedSites \cup ConsoleSites, Enter(c, site) \/ Take(c, site)
        PROVE  Here(c)' \in {"com1", "com1_drain"}
    <3>1. site[1] = Here(c)
      BY <2>1 DEF Enter, Take, At, Here
    <3>2. site[3] = "com1_drain"
      BY SMT, <3>1 DEF SchedSites, ConsoleSites
    <3>3. CASE Enter(c, site)
      BY <3>3 DEF Enter, Here, schedVars
    <3>4. CASE Take(c, site)
      BY <1>0, <3>2, <3>4 DEF Take, Goto, Here, TypeOK
    <3>. QED BY <2>1, <3>3, <3>4
  <2>2. /\ ~CreateProc(c) /\ ~SchedAdd(c) /\ ~BootDone(c) /\ ~SchedStart(c) /\ ~Pick(c) /\ ~Back(c) /\ ~ProcKentry(c)
        /\ ~SleepUnlock(c) /\ ~SleepSwitch(c) /\ ~SleepBack(c) /\ ~SleepRelease(c)
        /\ ~Wakeup(c, "console_fifo", "com1_release")
    BY DEF CreateProc, SchedAdd, BootDone, SchedStart, Pick, Back, ProcKentry, SleepUnlock, SleepSwitch, SleepBack,
           SleepRelease, Wakeup, SwitchedIn, At, Here
  <2>3. /\ ~Yield(c, "sys_switch", "sys_back", "sys_release", "tail")
        /\ ~Yield(c, "tail_switch", "tail_back", "tail_release", "iret")
    BY DEF Yield, SwitchedIn, At, Here
  <2>. QED BY <1>1, <2>1, <2>2, <2>3 DEF SchedStep
<1>2. CASE DrainUart(c)
  BY <1>2 DEF DrainUart, Here
<1>3. /\ ~SpuriousHandler(c) /\ ~TimerHandler(c) /\ ~HandlerTail(c) /\ ~Iret(c) /\ ~Syscall(c) /\ ~SysConRead(c)
      /\ ~Com1Release(c) /\ ~ShellLoop(c) /\ ~GetcRead(c) /\ ~EchoOut(c)
  BY DEF SpuriousHandler, TimerHandler, HandlerTail, Iret, Syscall, SysConRead, Com1Release, ShellLoop, GetcRead,
         EchoOut, At, Here
<1>. QED BY <1>1, <1>2, <1>3 DEF Step

LEMMA NextEdge ==
  IInv /\ IInv' /\ NoLostEdge /\ [Next]_vars => NoLostEdge'
<1> SUFFICES ASSUME IInv, IInv', NoLostEdge, [Next]_vars PROVE NoLostEdge'
  OBVIOUS
<1>0. TypeOK /\ Bsp \in Cpus /\ (rx # <<>> => "com1" \in irr[Bsp] \/ Draining)
  BY Kinds DEF IInv, NoLostEdge, Draining, Here
<1>1. SUFFICES rx' # <<>> => "com1" \in irr'[Bsp] \/ Draining'
  BY DEF NoLostEdge, Draining, Here
<1>2. ASSUME NEW c \in Cpus, Step(c) PROVE rx' # <<>> => "com1" \in irr'[Bsp] \/ Draining'
  <2>1. irr' = irr
    BY <1>2 DEF Step, SchedStep, SpuriousHandler, TimerHandler, HandlerTail, Iret, Syscall, SysConRead,
                Com1Release, ShellLoop, EchoOut, DrainUart, GetcRead, devVars
  <2>2. rx' # <<>> => rx # <<>>
    BY <1>2 DEF Step, SchedStep, SpuriousHandler, TimerHandler, HandlerTail, Iret, Syscall, SysConRead,
                Com1Release, ShellLoop, EchoOut, DrainUart, GetcRead, devVars
  <2>3. CASE c = Bsp
    BY <1>0, <1>2, <2>1, <2>2, <2>3, CodeEdge DEF Draining
  <2>4. CASE c # Bsp
    <3>1. Here(Bsp)' = Here(Bsp)
      BY <1>0, <1>2, <2>4, StepStays DEF Stays
    <3>. QED BY <1>0, <2>1, <2>2, <3>1 DEF Draining
  <2>. QED BY <2>3, <2>4
<1>3. ASSUME NEW c \in Cpus, NEW h, TrapTo(c, h, FALSE), ints[c] PROVE Draining => Draining'
  <2>1. CASE c = Bsp
    BY <1>3, <2>1 DEF IInv, FlagInv, OpenLabels, Draining
  <2>2. CASE c # Bsp
    <3>1. Stays(Bsp)
      BY <1>0, <1>3, <2>2, MoveStays DEF TrapTo, Goto
    <3>. QED BY <3>1 DEF Stays, Draining
  <2>. QED BY <2>1, <2>2
<1>4. ASSUME NEW c \in Cpus, NEW irq \in {"timer", "com1"}, Deliver(c, irq)
      PROVE rx' # <<>> => "com1" \in irr'[Bsp] \/ Draining'
  <2>1. rx' = rx /\ irr' = [irr EXCEPT ![c] = @ \ {irq}] /\ (Draining => Draining')
    BY <1>3, <1>4 DEF Deliver
  <2>2. CASE c = Bsp /\ irq = "com1"
    <3>1. Here(c)' = irq
      BY <1>0, <1>4 DEF Deliver, TrapTo, Goto, Here, TypeOK
    <3>. QED BY <2>2, <3>1 DEF Draining
  <2>3. CASE ~(c = Bsp /\ irq = "com1")
    BY <1>0, <2>1, <2>3 DEF TypeOK
  <2>. QED BY <2>2, <2>3
<1>5. ASSUME NEW c \in Cpus, Spurious(c) PROVE rx' # <<>> => "com1" \in irr'[Bsp] \/ Draining'
  BY <1>0, <1>3, <1>5 DEF Spurious, devVars
<1>6. ASSUME UNCHANGED schedVars PROVE Draining' <=> Draining
  BY <1>6 DEF Draining, Here, schedVars
<1>7. ASSUME NEW c \in Cpus, TimerTick(c) PROVE rx' # <<>> => "com1" \in irr'[Bsp] \/ Draining'
  BY <1>0, <1>6, <1>7 DEF TimerTick, TypeOK
<1>8. CASE UartReceive
  BY <1>0, <1>6, <1>8 DEF UartReceive, TypeOK
<1>9. CASE Halted \/ UNCHANGED vars
  BY <1>0, <1>6, <1>9 DEF Halted, vars, devVars
<1>. QED BY <1>2, <1>4, <1>5, <1>7, <1>8, <1>9 DEF Next

\* Edge-triggered COM1 loses no interrupt: while the UART holds a character,
\* its interrupt is latched or console_isr_handler has not finished draining.
THEOREM EdgeKept == Spec => []NoLostEdge
<1>1. Init => NoLostEdge
  BY DEF Init, NoLostEdge
<1>. QED BY <1>1, NextEdge, Invariance, PTL DEF Spec

-----------------------------------------------------------------------------
(* No character is lost, duplicated or reordered.                          *)

\* The characters typed so far.
Typed(n) == [k \in 1..n |-> k]

\* Typing one more character extends what was typed.
LEMMA TypedNext ==
  ASSUME NEW n \in Nat
  PROVE  Typed(n) \in Seq(Nat) /\ Append(Typed(n), n + 1) = Typed(n + 1)
BY SMT DEF Typed

\* A CPU that has panicked stays so.
LEMMA StillStopped ==
  ASSUME IInv, [Next]_vars, NEW d \in Cpus, panic[d] # NULL
  PROVE  panic'[d] # NULL
<1>0. TypeOK
  BY DEF IInv
<1>1. ASSUME NEW c \in Cpus, Step(c) PROVE panic'[d] # NULL
  <2>1. panic[c] = NULL
    BY <1>1 DEF Step, SchedStep, SpuriousHandler, TimerHandler, HandlerTail, Iret, Syscall, SysConRead, DrainUart,
                Com1Release, ShellLoop, GetcRead, EchoOut, Enter, Take, CreateProc, SchedAdd, BootDone, SchedStart,
                Pick, Back, ProcKentry, Yield, SleepUnlock, SleepSwitch, SleepBack, SleepRelease, Wakeup,
                SwitchedIn, At
  <2>2. ASSUME NEW l PROVE Release(c, l) => panic'[d] = panic[d]
    BY <1>0, <2>1 DEF Release, Panic, TypeOK
  <2>3. ASSUME NEW w PROVE Panic(c, w) => panic'[d] = panic[d]
    BY <1>0, <2>1 DEF Panic, TypeOK
  <2>4. ASSUME NEW site, Enter(c, site) \/ Take(c, site) PROVE panic'[d] = panic[d]
    BY <1>0, <2>1, <2>4 DEF Enter, Take, AcquireEnter, AcquireTake, TypeOK
  <2>5. ASSUME NEW s, NEW to, SwitchOut(c, s, to) PROVE panic'[d] = panic[d]
    BY <2>3, <2>5 DEF SwitchOut, cpuVars
  <2>6. ASSUME NEW w, NEW x, NEW y, NEW z, Yield(c, w, x, y, z) PROVE panic'[d] = panic[d]
    BY <2>2, <2>5, <2>6 DEF Yield, SwitchedIn
  <2>7. CASE SchedStep(c)
    <3>1. CASE \E site \in SchedSites \cup ConsoleSites : Enter(c, site) \/ Take(c, site)
      BY <2>4, <3>1
    <3>2. CASE CreateProc(c) \/ SchedAdd(c) \/ BootDone(c) \/ SchedStart(c) \/ Pick(c) \/ Back(c)
      BY <2>2, <3>2 DEF CreateProc, SchedAdd, BootDone, SchedStart, Pick, Back, cpuVars
    <3>3. CASE ProcKentry(c) \/ SleepUnlock(c) \/ SleepSwitch(c) \/ SleepBack(c) \/ SleepRelease(c)
      BY <2>2, <2>3, <2>5, <3>3 DEF ProcKentry, SleepUnlock, SleepSwitch, SleepBack, SleepRelease, SwitchedIn
    <3>4. CASE Wakeup(c, "console_fifo", "com1_release")
      BY <2>2, <3>4 DEF Wakeup, cpuVars
    <3>. QED BY <2>6, <2>7, <3>1, <3>2, <3>3, <3>4 DEF SchedStep
  <2>8. CASE SpuriousHandler(c) \/ TimerHandler(c) \/ HandlerTail(c) \/ Iret(c) \/ Syscall(c) \/ SysConRead(c)
             \/ ShellLoop(c)
    BY <2>8 DEF SpuriousHandler, TimerHandler, HandlerTail, Iret, Syscall, TrapTo, SysConRead, ShellLoop, cpuVars
  <2>9. CASE DrainUart(c) \/ Com1Release(c) \/ GetcRead(c) \/ EchoOut(c)
    BY <2>2, <2>3, <2>9 DEF DrainUart, Com1Release, GetcRead, EchoOut, cpuVars
  <2>. QED BY <1>1, <2>7, <2>8, <2>9 DEF Step
<1>2. CASE panic' = panic
  BY <1>2
<1>. QED BY <1>1, <1>2 DEF Next, TimerTick, UartReceive, Spurious, Deliver, TrapTo, Halted, vars, cpuVars

\* What has been read, what is buffered and what the UART holds.
Stream == got \o fifo \o rx

LEMMA NextOrder ==
  IInv /\ InOrder /\ [Next]_vars => InOrder'
<1> SUFFICES ASSUME IInv, InOrder, [Next]_vars, \A c \in Cpus : panic'[c] = NULL PROVE Stream' = Typed(sent)'
  BY DEF InOrder, Stream, Typed
<1>0. /\ Stream = Typed(sent)
      /\ got \in Seq(Nat) /\ fifo \in Seq(Nat) /\ rx \in Seq(Nat) /\ sent \in Nat /\ panic \in [Cpus -> Messages \cup {NULL}]
  BY StillStopped DEF InOrder, Stream, Typed, IInv, TypeOK
<1>1. CASE UNCHANGED <<got, fifo, rx, sent>>
  BY <1>0, <1>1 DEF Stream
<1>2. CASE UartReceive
  <2>1. rx' = Append(rx, sent + 1) /\ sent' = sent + 1 /\ UNCHANGED <<got, fifo>>
    BY <1>2 DEF UartReceive
  <2>2. got \o fifo \in Seq(Nat)
    BY <1>0, ConcatAssoc
  <2>3. <<sent + 1>> \in Seq(Nat) /\ sent + 1 \in Nat
    BY SMTT(30), <1>0
  <2>4. Append(rx, sent + 1) = rx \o <<sent + 1>> /\ Append(Typed(sent), sent + 1) = Typed(sent) \o <<sent + 1>>
    BY <1>0, <2>3, TypedNext, AppendIsConcat
  <2>5. (got \o fifo \o rx) \o <<sent + 1>> = (got \o fifo) \o (rx \o <<sent + 1>>)
    BY <1>0, <2>2, <2>3, ConcatAssoc
  <2>6. Stream' = Stream \o <<sent + 1>>
    BY <2>1, <2>4, <2>5 DEF Stream
  <2>7. Stream' = Append(Typed(sent), sent + 1)
    BY <1>0, <2>4, <2>6
  <2>8. Stream' = Typed(sent + 1)
    BY <1>0, <2>7, TypedNext
  <2>. QED BY <2>1, <2>8 DEF Typed
<1>3. ASSUME NEW c \in Cpus, DrainUart(c) PROVE Stream' = Typed(sent)'
  <2>1. CASE rx = <<>>
    BY <1>1, <1>3, <2>1 DEF DrainUart
  <2>2. CASE rx # <<>>
    <3>1. ~Panic(c, "uart buffer full")
      BY <1>0, KernelAssumption DEF Panic
    <3>2. rx' = Tail(rx) /\ fifo' = Append(fifo, Head(rx)) /\ UNCHANGED <<got, sent>>
      BY <1>3, <2>2, <3>1 DEF DrainUart
    <3>3. /\ fifo' \in Seq(Nat) /\ rx' \in Seq(Nat) /\ Cat(fifo', rx') = Cat(fifo, rx)
      BY <1>0, <2>2, <3>2, HandOver DEF Cat
    <3>4. CatThree(got, fifo', rx') = CatThree(got, fifo, rx)
      BY SMTT(30), <1>0, <3>3, CatLast
    <3>. QED BY <1>0, <3>2, <3>4 DEF Typed, Stream, CatThree
  <2>. QED BY <2>1, <2>2
<1>4. ASSUME NEW c \in Cpus, GetcRead(c) PROVE Stream' = Typed(sent)'
  <2>1. CASE fifo = <<>>
    BY <1>1, <1>4, <2>1 DEF GetcRead
  <2>2. CASE fifo # <<>>
    <3>1. fifo' = Tail(fifo) /\ got' = Append(got, Head(fifo)) /\ UNCHANGED <<rx, sent>>
      BY <1>4, <2>2 DEF GetcRead
    <3>2. got' \o fifo' = got \o fifo
      BY <1>0, <2>2, <3>1, HandOver
    <3>. QED BY <1>0, <3>1, <3>2 DEF Stream, Typed
  <2>. QED BY <2>1, <2>2
<1>5. ASSUME NEW c \in Cpus, Step(c) PROVE Stream' = Typed(sent)'
  BY <1>1, <1>3, <1>4, <1>5 DEF Step, SchedStep, SpuriousHandler, TimerHandler, HandlerTail, Iret, Syscall, SysConRead,
     Com1Release, ShellLoop, EchoOut, devVars
<1>. QED BY <1>1, <1>2, <1>5 DEF Next, TimerTick, Spurious, Deliver, Halted, vars, devVars

\* What console_getc has returned, what the ring buffer holds and what the
\* UART holds is what has been typed, in order, until the buffer overflows.
THEOREM Ordered == Spec => []InOrder
<1>1. Init => InOrder
  <2> SUFFICES ASSUME Init PROVE got \o fifo \o rx = [n \in 1..sent |-> n]
    BY DEF InOrder
  <2>1. got = <<>> /\ fifo = <<>> /\ rx = <<>> /\ sent = 0
    BY DEF Init
  <2>2. <<>> \in Seq(Nat)
    BY SMT
  <2>3. <<>> \o <<>> \o <<>> = <<>>
    BY SMTT(30), <2>2
  <2>4. [n \in 1..0 |-> n] = <<>>
    BY SMT
  <2>. QED BY <2>1, <2>3, <2>4
<1>. QED BY <1>1, NextOrder, Invariance, PTL DEF Spec

-----------------------------------------------------------------------------
(* The kernel stacks.                                                      *)

Deep(t) == Len(ret[t]) = 2

\* A thread two traps deep is in an interrupt handler, and if it is switched
\* out there, it was with interrupts off before it took sched.lock.
DepthThread(t) ==
  /\ Len(ret[t]) <= 2
  /\ Deep(t) => pc[t] \in HandlerLabels /\ (pc[t] = "tail_back" => ~intena[t])

\* The yield of the handler's tail, from taking sched.lock to releasing it
Yielding(c) ==
  \/ Here(c) \in {"tail_switch", "tail_release"}
  \/ Here(c) = "tail_yield" /\ spin[c] # NULL

\* Two traps deep interrupts are off, and the release of sched.lock at the end
\* of a yield leaves them off.
DepthCpu(c) == Deep(on[c]) => ~ints[c] /\ (Yielding(c) => ~int_enabled[c])

DepthInv == (\A t \in Threads : DepthThread(t)) /\ (\A c \in Cpus : DepthCpu(c))

-----------------------------------------------------------------------------
(* What a step of one CPU leaves alone.                                    *)

\* No step writes to the interrupt state of another CPU.
LEMMA OtherCpus ==
  ASSUME IInv, NEW c \in Cpus, Step(c), NEW d \in Cpus, d # c
  PROVE  ints'[d] = ints[d] /\ int_enabled'[d] = int_enabled[d] /\ spin'[d] = spin[d]
<1> DEFINE P == ints'[d] = ints[d] /\ int_enabled'[d] = int_enabled[d] /\ spin'[d] = spin[d]
<1>0. /\ ints \in [Cpus -> BOOLEAN] /\ int_enabled \in [Cpus -> BOOLEAN]
      /\ spin \in [Cpus -> Locks \cup {NULL}]
  BY DEF IInv, TypeOK
<1>1. ASSUME NEW k, Release(c, k) PROVE P
  BY <1>0, <1>1 DEF Release, PopIntDisable, Panic
<1>2. ASSUME NEW w, Panic(c, w) PROVE P
  BY <1>0, <1>2 DEF Panic
<1>3. CASE SchedStep(c)
  <2>1. ASSUME NEW site, Enter(c, site) \/ Take(c, site) PROVE P
    BY <1>0, <2>1 DEF Enter, Take, AcquireEnter, AcquireTake, PushIntDisable
  <2>2. CASE \/ CreateProc(c) \/ SchedAdd(c) \/ BootDone(c) \/ SchedStart(c)
             \/ Pick(c) \/ Back(c) \/ ProcKentry(c)
    BY <1>0, <1>1, <1>2, <2>2
    DEF CreateProc, SchedAdd, BootDone, SchedStart, Pick, Back, ProcKentry, cpuVars
  <2>3. ASSUME NEW s, NEW to, SwitchOut(c, s, to) PROVE P
    BY <1>2, <2>3 DEF SwitchOut, cpuVars
  <2>4. ASSUME NEW from, NEW to, SwitchedIn(c, from, to) PROVE P
    BY <1>0, <2>4 DEF SwitchedIn
  <2>5. ASSUME NEW w, NEW x, NEW y, NEW z, Yield(c, w, x, y, z) PROVE P
    BY <1>1, <2>3, <2>4, <2>5 DEF Yield
  <2>6. CASE SleepUnlock(c) \/ SleepSwitch(c) \/ SleepBack(c) \/ SleepRelease(c)
    BY <1>1, <2>3, <2>4, <2>6 DEF SleepUnlock, SleepSwitch, SleepBack, SleepRelease
  <2>7. CASE Wakeup(c, "console_fifo", "com1_release")
    BY <1>1, <2>7 DEF Wakeup, cpuVars
  <2>. QED BY <1>3, <2>1, <2>2, <2>5, <2>6, <2>7 DEF SchedStep
<1>4. CASE SpuriousHandler(c) \/ TimerHandler(c) \/ HandlerTail(c) \/ SysConRead(c) \/ ShellLoop(c)
  BY <1>4 DEF SpuriousHandler, TimerHandler, HandlerTail, SysConRead, ShellLoop, cpuVars
<1>5. CASE Iret(c) \/ Syscall(c)
  BY <1>0, <1>5 DEF Iret, Syscall, TrapTo
<1>6. CASE DrainUart(c) \/ Com1Release(c) \/ GetcRead(c) \/ EchoOut(c)
  BY <1>1, <1>2, <1>6 DEF DrainUart, Com1Release, GetcRead, EchoOut, cpuVars
<1>. QED BY <1>3, <1>4, <1>5, <1>6 DEF Step

\* No step touches the stack of a thread that does not run, but to make one.
LEMMA OtherThreads ==
  ASSUME IInv, NEW c \in Cpus, Step(c), NEW t \in Threads, t # on[c]
  PROVE  \/ pc'[t] = pc[t] /\ ret'[t] = ret[t] /\ intena'[t] = intena[t]
         \/ pc'[t] = "kentry" /\ ret'[t] = <<MainFrame>>
<1> DEFINE P == \/ pc'[t] = pc[t] /\ ret'[t] = ret[t] /\ intena'[t] = intena[t]
                \/ pc'[t] = "kentry" /\ ret'[t] = <<MainFrame>>
<1>0. /\ pc \in [Threads -> Labels] /\ ret \in [Threads -> Seq([pc : Labels, ints : BOOLEAN])]
      /\ intena \in [Threads -> BOOLEAN] /\ on[c] \in Threads /\ c \in Threads
  BY Kinds DEF IInv, TypeOK
<1>1. ASSUME NEW b, Goto(c, b), UNCHANGED <<ret, intena>> PROVE P
  BY <1>0, <1>1 DEF Goto
<1>2. ASSUME UNCHANGED <<pc, ret, intena>> PROVE P
  BY <1>2
<1>3. ASSUME NEW s, NEW to, SwitchOut(c, s, to) PROVE P
  BY <1>0, <1>3 DEF SwitchOut, Goto
<1>4. CASE SchedStep(c)
  <2>1. ASSUME NEW site, Enter(c, site) \/ Take(c, site) PROVE P
    BY <1>1, <1>2, <2>1 DEF Enter, Take, schedVars
  <2>2. CASE CreateProc(c)
    <3>1. Here(c) = "mpmain"
      BY <2>2 DEF CreateProc, At, Here
    <3>2. on[c] = c
      BY <3>1, InMpmain
    <3>. QED BY <1>0, <2>2, <3>2 DEF CreateProc
  <2>3. CASE SchedStart(c)
    <3>1. Here(c) = "sched_start"
      BY <2>3 DEF SchedStart, At, Here
    <3>2. on[c] = c
      BY <3>1, Stand, Where DEF SchedulerOnly
    <3>. QED BY <1>0, <2>3, <3>2 DEF SchedStart
  <2>4. CASE SchedAdd(c) \/ BootDone(c) \/ Pick(c) \/ Back(c) \/ ProcKentry(c)
    BY <1>1, <2>4 DEF SchedAdd, BootDone, Pick, Back, ProcKentry
  <2>5. ASSUME NEW w, NEW x, NEW y, NEW z, Yield(c, w, x, y, z) PROVE P
    BY <1>1, <1>3, <2>5 DEF Yield, SwitchedIn
  <2>6. CASE SleepUnlock(c) \/ SleepSwitch(c) \/ SleepBack(c) \/ SleepRelease(c)
    BY <1>1, <1>3, <2>6 DEF SleepUnlock, SleepSwitch, SleepBack, SwitchedIn, SleepRelease
  <2>7. CASE Wakeup(c, "console_fifo", "com1_release")
    BY <1>1, <1>2, <2>7 DEF Wakeup
  <2>. QED BY <1>4, <2>1, <2>2, <2>3, <2>4, <2>5, <2>6, <2>7 DEF SchedStep
<1>5. CASE SpuriousHandler(c) \/ TimerHandler(c) \/ HandlerTail(c) \/ SysConRead(c) \/ ShellLoop(c)
  BY <1>1, <1>5 DEF SpuriousHandler, TimerHandler, HandlerTail, SysConRead, ShellLoop
<1>6. CASE Iret(c) \/ Syscall(c)
  BY <1>0, <1>6 DEF Iret, Syscall, TrapTo, Goto
<1>7. CASE DrainUart(c) \/ Com1Release(c) \/ GetcRead(c) \/ EchoOut(c)
  BY <1>1, <1>2, <1>7 DEF DrainUart, Com1Release, GetcRead, EchoOut
<1>. QED BY <1>4, <1>5, <1>6, <1>7 DEF Step

-----------------------------------------------------------------------------
(* The invariant.                                                          *)

\* It is enough to look at the thread that moves and at its CPU.
LEMMA DepthLocal ==
  ASSUME IInv, IInv', DepthInv, NEW c \in Cpus, Step(c),
         NEW u \in Threads, u = on[c], DepthThread(u)', DepthCpu(c)'
  PROVE  DepthInv'
<1>1. ASSUME NEW t \in Threads PROVE DepthThread(t)'
  <2>1. CASE t # on[c]
    <3>1. CASE pc'[t] = pc[t] /\ ret'[t] = ret[t] /\ intena'[t] = intena[t]
      BY <3>1 DEF DepthInv, DepthThread, Deep
    <3>2. CASE pc'[t] = "kentry" /\ ret'[t] = <<MainFrame>>
      <4>1. Len(ret'[t]) = 1
        BY SMT, <3>2
      <4>. QED BY SMT, <4>1 DEF DepthThread, Deep
    <3>. QED BY <2>1, <3>1, <3>2, OtherThreads
  <2>. QED BY <2>1
<1>2. ASSUME NEW d \in Cpus, d # c PROVE DepthCpu(d)'
  <2>1. /\ on'[d] = on[d] /\ on[d] \in Threads /\ on[d] # on[c] /\ DepthCpu(d)
        /\ ints'[d] = ints[d] /\ int_enabled'[d] = int_enabled[d] /\ spin'[d] = spin[d]
    <3>1. on[d] # on[c] /\ on[d] \in Threads /\ DepthCpu(d)
      BY <1>2, OwnStack, Where DEF DepthInv
    <3>2. on'[d] = on[d]
      BY <1>2, StepStays DEF Stays
    <3>3. ints'[d] = ints[d] /\ int_enabled'[d] = int_enabled[d] /\ spin'[d] = spin[d]
      BY <1>2, OtherCpus
    <3>. QED BY <3>1, <3>2, <3>3
  <2>2. CASE pc'[on[d]] = pc[on[d]] /\ ret'[on[d]] = ret[on[d]]
    BY <2>1, <2>2 DEF DepthCpu, Deep, Yielding, Here
  <2>3. CASE ret'[on[d]] = <<MainFrame>>
    <3>1. Len(ret'[on'[d]]) = 1
      BY SMTT(30), <2>1, <2>3
    <3>. QED BY SMTT(30), <3>1 DEF DepthCpu, Deep
  <2>. QED BY <2>1, <2>2, <2>3, OtherThreads
<1>. QED BY <1>1, <1>2 DEF DepthInv

\* A thread less than two traps deep does not get there by a step of its code:
\* a system call is made outside every trap.
LEMMA ShallowStep ==
  ASSUME IInv, NEW c \in Cpus, Step(c), NEW u \in Threads, u = on[c], Len(ret[u]) <= 1
  PROVE  Len(ret'[u]) <= 1
<1>0. /\ ret \in [Threads -> Seq([pc : Labels, ints : BOOLEAN])]
      /\ ret[u] \in Seq([pc : Labels, ints : BOOLEAN])
      /\ pc[u] \in BaseLabels <=> ret[u] = <<>>
  BY DEF IInv, TypeOK, ThreadInv
<1>1. ASSUME UNCHANGED ret PROVE Len(ret'[u]) <= 1
  BY <1>1
<1>2. ASSUME NEW t \in Threads, ret' = [ret EXCEPT ![t] = <<MainFrame>>] PROVE Len(ret'[u]) <= 1
  <2>1. CASE t = u
    BY SMTT(30), <1>0, <1>2, <2>1
  <2>2. CASE t # u
    BY <1>0, <1>2, <2>2
  <2>. QED BY <2>1, <2>2
<1>3. CASE SchedStep(c)
  <2>1. ASSUME NEW site, Enter(c, site) \/ Take(c, site) PROVE UNCHANGED ret
    BY <2>1 DEF Enter, Take, schedVars
  <2>2. CASE CreateProc(c)
    BY <1>2, <2>2, Kinds DEF CreateProc
  <2>3. CASE SchedStart(c)
    BY <1>2, <2>3, Kinds DEF SchedStart
  <2>4. CASE SchedAdd(c) \/ BootDone(c) \/ Pick(c) \/ Back(c) \/ ProcKentry(c)
    BY <1>1, <2>4 DEF SchedAdd, BootDone, Pick, Back, ProcKentry
  <2>5. ASSUME NEW w, NEW x, NEW y, NEW z, Yield(c, w, x, y, z) PROVE UNCHANGED ret
    BY <2>5 DEF Yield, SwitchOut, SwitchedIn
  <2>6. CASE SleepUnlock(c) \/ SleepSwitch(c) \/ SleepBack(c) \/ SleepRelease(c)
    BY <1>1, <2>6 DEF SleepUnlock, SleepSwitch, SwitchOut, SleepBack, SwitchedIn, SleepRelease
  <2>7. CASE Wakeup(c, "console_fifo", "com1_release")
    BY <1>1, <2>7 DEF Wakeup
  <2>. QED BY <1>1, <1>3, <2>1, <2>2, <2>3, <2>4, <2>5, <2>6, <2>7 DEF SchedStep
<1>4. CASE SpuriousHandler(c) \/ TimerHandler(c) \/ HandlerTail(c) \/ SysConRead(c) \/ ShellLoop(c)
  BY <1>1, <1>4 DEF SpuriousHandler, TimerHandler, HandlerTail, SysConRead, ShellLoop
<1>5. CASE Iret(c)
  <2>1. pc[u] = "iret" /\ ret'[u] = Tail(ret[u])
    BY <1>0, <1>5 DEF Iret, At
  <2>2. ret[u] # <<>>
    BY <1>0, <2>1 DEF BaseLabels, Bottom
  <2>. QED BY SMTT(30), <1>0, <2>1, <2>2, SeqHeadTail
<1>6. CASE Syscall(c)
  <2>1. pc[u] = "main" /\ ret'[u] = <<[pc |-> pc[u], ints |-> ints[c]]>> \o ret[u]
    BY <1>0, <1>6 DEF Syscall, TrapTo, At
  <2>2. ret[u] = <<>>
    BY <1>0, <2>1 DEF BaseLabels, Bottom
  <2>3. Len(ret'[u]) = 1
    BY SMTT(30), <2>1, <2>2
  <2>. QED BY SMT, <2>3
<1>7. CASE DrainUart(c) \/ Com1Release(c) \/ GetcRead(c) \/ EchoOut(c)
  BY <1>1, <1>7 DEF DrainUart, Com1Release, GetcRead, EchoOut
<1>. QED BY <1>3, <1>4, <1>5, <1>6, <1>7 DEF Step

\* A switch ends on the scheduler's stack, outside every trap, or with
\* interrupts off at the place where a process was switched out.
LEMMA NewStack ==
  ASSUME IInv, IInv', NEW c \in Cpus, Step(c), on'[c] # on[c]
  PROVE  DepthCpu(c)'
<1>0. /\ on \in [Cpus -> Threads] /\ pc \in [Threads -> Labels]
      /\ on[c] \in Threads /\ c \in Threads
  BY Kinds DEF IInv, TypeOK
<1>1. CASE Pick(c)
  <2>1. /\ Here(c) = "pick" /\ UNCHANGED ints
    BY <1>1 DEF Pick, At, Here, cpuVars
  <2>2. ~ints'[c]
    BY <2>1 DEF IInv, FlagInv, OpenLabels
  <2>3. PICK p \in Procs \cup Idles : on'[c] = p /\ cproc' = [cproc EXCEPT ![c] = p]
    <3>1. readyq # <<>> => Head(readyq) \in Procs
      BY SeqHeadTail DEF IInv, TypeOK
    <3>. QED BY <1>0, <1>1, <3>1, Kinds DEF Pick
  <2>4. p \in Threads /\ p \notin Cpus /\ p # NULL /\ p # on[c]
    BY <2>3, Kinds
  <2>5. \A d \in Cpus : on[d] # p
    <3>1. ASSUME NEW d \in Cpus, d # c PROVE cproc[d] # p
      <4>1. cproc'[c] = p /\ cproc'[d] = cproc[d]
        BY <2>3, <3>1 DEF IInv, TypeOK
      <4>2. cproc'[c] = cproc'[d] /\ cproc'[c] # NULL => c = d
        <5>1. QueueInv'
          BY DEF IInv
        <5>. QED BY <5>1 DEF QueueInv
      <4>. QED BY <2>4, <3>1, <4>1, <4>2
    <3>. QED BY <2>4, <3>1, Where
  <2>6. pc[p] \in Parked
    BY <2>4, <2>5 DEF IInv, ThreadInv
  <2>7. pc'[p] = pc[p]
    BY <1>0, <1>1, <2>4 DEF Pick, Goto
  <2>8. Here(c)' \in Parked
    BY <2>3, <2>6, <2>7 DEF Here
  <2>. QED BY <2>2, <2>8 DEF DepthCpu, Yielding, Parked
<1>2. ASSUME NEW s, NEW to, SwitchOut(c, s, to) PROVE DepthCpu(c)'
  <2>1. on'[c] = c /\ c # on[c] /\ UNCHANGED ret
    BY <1>0, <1>2 DEF SwitchOut
  <2>2. pc[c] = "back"
    BY <2>1 DEF IInv, PlaceInv
  <2>3. ret[c] = <<>>
    BY <1>0, <2>2 DEF IInv, ThreadInv, BaseLabels
  <2>4. Len(ret'[on'[c]]) = 0
    BY SMTT(30), <2>1, <2>3
  <2>5. ~Deep(on[c])'
    BY SMTT(30), <2>4 DEF Deep
  <2>. QED BY <2>5 DEF DepthCpu
<1>3. ASSUME UNCHANGED on PROVE FALSE
  BY <1>3
<1>4. CASE SchedStep(c)
  <2>1. ASSUME NEW site, Enter(c, site) \/ Take(c, site) PROVE UNCHANGED on
    BY <2>1 DEF Enter, Take, schedVars
  <2>2. CASE CreateProc(c) \/ SchedStart(c) \/ SchedAdd(c) \/ BootDone(c) \/ Back(c) \/ ProcKentry(c)
    BY <1>3, <2>2 DEF CreateProc, SchedStart, SchedAdd, BootDone, Back, ProcKentry
  <2>3. ASSUME NEW w, NEW x, NEW y, NEW z, Yield(c, w, x, y, z) PROVE DepthCpu(c)'
    BY <1>2, <1>3, <2>3 DEF Yield, SwitchedIn
  <2>4. CASE SleepUnlock(c) \/ SleepSwitch(c) \/ SleepBack(c) \/ SleepRelease(c)
    BY <1>2, <1>3, <2>4 DEF SleepUnlock, SleepSwitch, SleepBack, SwitchedIn, SleepRelease
  <2>5. CASE Wakeup(c, "console_fifo", "com1_release")
    BY <1>3, <2>5 DEF Wakeup
  <2>. QED BY <1>1, <1>3, <1>4, <2>1, <2>2, <2>3, <2>4, <2>5 DEF SchedStep
<1>5. CASE \/ SpuriousHandler(c) \/ TimerHandler(c) \/ HandlerTail(c) \/ SysConRead(c) \/ ShellLoop(c)
           \/ Iret(c) \/ Syscall(c) \/ DrainUart(c) \/ Com1Release(c) \/ GetcRead(c) \/ EchoOut(c)
  BY <1>3, <1>5 DEF SpuriousHandler, TimerHandler, HandlerTail, SysConRead, ShellLoop, Iret, Syscall,
                    TrapTo, DrainUart, Com1Release, GetcRead, EchoOut
<1>. QED BY <1>4, <1>5 DEF Step

\* A thread two traps deep moves on: it stays in the handler, with interrupts
\* off, and does not switch.
LEMMA DeepMove ==
  ASSUME IInv, IInv', DepthInv, NEW c \in Cpus, Step(c), NEW b, Goto(c, b),
         UNCHANGED <<on, ret>>,
         b \in HandlerLabels \ {"tail_back"}, ~ints'[c], Yielding(c)' => ~int_enabled'[c]
  PROVE  DepthInv'
<1>1. PICK u \in Threads : u = on[c]
  BY Where
<1>2. pc'[u] = b
  BY <1>1 DEF Goto, IInv, TypeOK
<1>3. DepthThread(u)'
  BY <1>1, <1>2 DEF DepthInv, DepthThread, Deep
<1>4. DepthCpu(c)'
  BY DEF DepthCpu
<1>. QED BY <1>1, <1>3, <1>4, DepthLocal

\* The handler of the second trap, up to its iret.
LEMMA DeepStep ==
  ASSUME IInv, IInv', DepthInv, NEW c \in Cpus, Step(c), Deep(on[c])
  PROVE  DepthInv'
<1>1. /\ on[c] \in Threads /\ pc \in [Threads -> Labels] /\ ints \in [Cpus -> BOOLEAN]
      /\ int_enabled \in [Cpus -> BOOLEAN] /\ spin \in [Cpus -> Locks \cup {NULL}]
      /\ intena \in [Threads -> BOOLEAN] /\ on \in [Cpus -> Threads]
      /\ ret \in [Threads -> Seq([pc : Labels, ints : BOOLEAN])]
  BY DEF IInv, TypeOK
<1>2. /\ Here(c) \in HandlerLabels /\ (Here(c) = "tail_back" => ~intena[on[c]])
      /\ ~ints[c] /\ (Yielding(c) => ~int_enabled[c])
  BY <1>1 DEF DepthInv, DepthThread, DepthCpu, Here
<1>3. /\ spin[c] # NULL => Awaits(Here(c), spin[c])
      /\ layer[c] = Depth(Here(c)) + (IF spin[c] = NULL THEN 0 ELSE 1)
      /\ Here(c) \in {"wakeup_scan", "com1_release"} => ~int_enabled[c]
  BY DEF IInv, LockInv, FlagInv
<1>4. ASSUME NEW b, Goto(c, b), UNCHANGED on PROVE Here(c)' = b
  BY <1>1, <1>4 DEF Goto, Here
<1>5. ASSUME UNCHANGED pc PROVE Goto(c, Here(c))
  BY <1>1, <1>5 DEF Goto, Here
<1>6. ASSUME NEW k, Release(c, k), ~int_enabled[c] PROVE ~ints'[c]
  BY <1>1, <1>2, <1>6 DEF Release, PopIntDisable, Panic
<1>7. CASE SchedStep(c)
  <2>1. ASSUME NEW site \in SchedSites \cup ConsoleSites, Enter(c, site) PROVE DepthInv'
    <3>1. Here(c) = site[1] /\ UNCHANGED <<on, pc, ret>>
      BY <2>1 DEF Enter, At, Here, schedVars
    <3>2. Here(c) \in {"tail_yield", "com1", "wakeup"}
      BY <1>2, <3>1, HandlerSites
    <3>3. ~ints'[c] /\ spin[c] = NULL
      BY <1>1, <2>1 DEF Enter, AcquireEnter, PushIntDisable
    <3>4. Here(c) = "tail_yield" => ~int_enabled'[c]
      <4>1. Here(c) = "tail_yield" => layer[c] = 0
        <5>1. Depth("tail_yield") = 0
          BY DEF Depth, SchedHeld, ReadHeld
        <5>. QED BY <1>3, <3>3, <5>1, Depths
      <4>. QED BY <1>1, <1>2, <2>1, <4>1 DEF Enter, AcquireEnter, PushIntDisable
    <3>5. Yielding(c)' => ~int_enabled'[c]
      BY <3>1, <3>2, <3>4 DEF Yielding, Here
    <3>6. Here(c) \in HandlerLabels \ {"tail_back"}
      BY <3>2 DEF HandlerLabels
    <3>. QED BY <1>5, <3>1, <3>3, <3>5, <3>6, DeepMove
  <2>2. ASSUME NEW site \in SchedSites \cup ConsoleSites, Take(c, site) PROVE DepthInv'
    <3>1. /\ Here(c) = site[1] /\ Goto(c, site[3]) /\ UNCHANGED <<on, ret, ints, int_enabled>>
          /\ spin[c] = site[2]
      BY <2>2 DEF Take, AcquireTake, At, Here
    <3>2. \/ Here(c) = "tail_yield" /\ site[3] = "tail_switch"
          \/ site[3] \in {"com1_drain", "wakeup_scan"}
      BY <1>2, <3>1, HandlerSites
    <3>3. spin[c] # NULL
      BY <3>1, SiteFacts, SchedAssumption
    <3>4. Yielding(c)' => ~int_enabled'[c]
      BY <1>2, <1>4, <3>1, <3>2, <3>3 DEF Yielding
    <3>5. site[3] \in HandlerLabels \ {"tail_back"}
      BY <3>2 DEF HandlerLabels
    <3>. QED BY <1>2, <3>1, <3>4, <3>5, DeepMove
  <2>3. CASE \/ CreateProc(c) \/ SchedAdd(c) \/ BootDone(c) \/ SchedStart(c)
             \/ Pick(c) \/ Back(c) \/ ProcKentry(c)
    BY <1>2, <2>3 DEF HandlerLabels, Here, CreateProc, SchedAdd, BootDone, SchedStart, Pick, Back,
                      ProcKentry, At
  <2>4. CASE Yield(c, "sys_switch", "sys_back", "sys_release", "tail")
    BY <1>2, <2>4 DEF HandlerLabels, Here, Yield, SwitchedIn, At
  <2>5. CASE SleepUnlock(c) \/ SleepSwitch(c) \/ SleepBack(c) \/ SleepRelease(c)
    BY <1>2, <2>5 DEF HandlerLabels, Here, SleepUnlock, SleepSwitch, SleepBack, SwitchedIn,
                      SleepRelease, At
  <2>6. ASSUME NEW s, Here(c) = "tail_switch", SwitchOut(c, s, "tail_back") PROVE DepthInv'
    <3>1. CASE UNCHANGED <<on, pc, ret>> /\ ~ints'[c] /\ UNCHANGED int_enabled
      <4>1. Yielding(c)' => ~int_enabled'[c]
        BY <1>2, <2>6, <3>1 DEF Yielding
      <4>2. Here(c) \in HandlerLabels \ {"tail_back"}
        BY <2>6 DEF HandlerLabels
      <4>. QED BY <1>5, <3>1, <4>1, <4>2, DeepMove
    <3>2. CASE /\ intena' = [intena EXCEPT ![on[c]] = int_enabled[c]]
               /\ on' = [on EXCEPT ![c] = c] /\ Goto(c, "tail_back") /\ UNCHANGED ret
      <4>1. PICK u \in Threads : u = on[c]
        BY <1>1
      <4>2. pc'[u] = "tail_back" /\ ~intena'[u] /\ ret'[u] = ret[u]
        BY <1>1, <1>2, <2>6, <3>2, <4>1 DEF Goto, Yielding
      <4>3. DepthThread(u)'
        BY <4>2 DEF DepthInv, DepthThread, Deep, HandlerLabels
      <4>4. on'[c] # on[c]
        <5>1. pc[c] # "tail_switch"
          BY DEF IInv, PlaceInv, SchedulerLabels, SchedulerOnly
        <5>. QED BY <1>1, <2>6, <3>2, <5>1 DEF Here
      <4>. QED BY <4>1, <4>3, <4>4, NewStack, DepthLocal
    <3>. QED BY <1>1, <2>6, <3>1, <3>2 DEF SwitchOut, Panic
  <2>7. CASE SwitchedIn(c, "tail_back", "tail_release")
    <3>1. /\ Goto(c, "tail_release") /\ UNCHANGED <<on, ret, ints>> /\ ~int_enabled'[c]
      BY <1>1, <1>2, <2>7 DEF SwitchedIn, At, Here
    <3>. QED BY <1>2, <3>1, DeepMove DEF HandlerLabels
  <2>8. CASE /\ At(c, "tail_release") /\ Release(c, "sched") /\ Goto(c, "iret")
             /\ UNCHANGED <<on, ret>>
    <3>1. ~ints'[c]
      BY <1>2, <1>6, <2>8 DEF Yielding, At, Here
    <3>2. ~Yielding(c)'
      BY <1>4, <2>8 DEF Yielding
    <3>. QED BY <2>8, <3>1, <3>2, DeepMove DEF HandlerLabels
  <2>9. CASE Yield(c, "tail_switch", "tail_back", "tail_release", "iret")
    BY <2>6, <2>7, <2>8, <2>9 DEF Yield, At, Here
  <2>10. CASE Wakeup(c, "console_fifo", "com1_release")
    <3>1. Here(c) = "wakeup_scan" /\ UNCHANGED <<on, ret>>
      BY <2>10 DEF Wakeup, At, Here
    <3>2. CASE UNCHANGED <<pc, cpuVars>>
      <4>1. ~Yielding(c)'
        BY <3>1, <3>2 DEF Yielding, Here
      <4>2. Goto(c, "wakeup_scan")
        BY <1>5, <3>1, <3>2
      <4>. QED BY <1>2, <3>1, <3>2, <4>1, <4>2, DeepMove DEF HandlerLabels, cpuVars
    <3>3. CASE Release(c, "sched") /\ Goto(c, "com1_release")
      <4>1. ~Yielding(c)' /\ ~ints'[c]
        BY <1>3, <1>4, <1>6, <3>1, <3>3 DEF Yielding
      <4>. QED BY <3>1, <3>3, <4>1, DeepMove DEF HandlerLabels
    <3>. QED BY <2>10, <3>2, <3>3 DEF Wakeup
  <2>. QED BY <1>7, <2>1, <2>2, <2>3, <2>4, <2>5, <2>9, <2>10 DEF SchedStep
<1>8. CASE SpuriousHandler(c) \/ TimerHandler(c)
  <2>1. Goto(c, "tail") /\ UNCHANGED <<on, ret, ints>>
    BY <1>8 DEF SpuriousHandler, TimerHandler, cpuVars
  <2>2. ~Yielding(c)'
    BY <1>4, <2>1 DEF Yielding
  <2>. QED BY <1>2, <2>1, <2>2, DeepMove DEF HandlerLabels
<1>9. CASE HandlerTail(c)
  <2>1. Here(c) = "tail" /\ UNCHANGED <<on, ret, ints, spin>>
    BY <1>9 DEF HandlerTail, At, Here, cpuVars
  <2>2. spin[c] = NULL
    BY <1>3, <2>1 DEF Awaits
  <2>3. ASSUME NEW b \in {"tail_yield", "iret"}, Goto(c, b) PROVE DepthInv'
    <3>1. ~Yielding(c)'
      BY <1>4, <2>1, <2>2, <2>3 DEF Yielding
    <3>. QED BY <1>2, <2>1, <2>3, <3>1, DeepMove DEF HandlerLabels
  <2>. QED BY <1>9, <2>3 DEF HandlerTail
<1>10. CASE Iret(c)
  <2>1. PICK u \in Threads : u = on[c]
    BY <1>1
  <2>2. ret'[u] = Tail(ret[u]) /\ UNCHANGED on /\ ret[u] \in Seq([pc : Labels, ints : BOOLEAN])
    BY <1>1, <1>10, <2>1 DEF Iret
  <2>3. Len(ret'[u]) = 1
    <3>1. Len(ret[u]) = 2
      BY <2>1 DEF Deep
    <3>2. ret[u] # <<>>
      <4>1. pc[u] = "iret"
        BY <1>10, <2>1 DEF Iret, At
      <4>. QED BY <4>1 DEF IInv, ThreadInv, BaseLabels, Bottom
    <3>3. Len(Tail(ret[u])) = Len(ret[u]) - 1
      BY <2>2, <3>2, SeqHeadTail
    <3>. QED BY <2>2, <3>1, <3>3, Depths
  <2>4. ~Deep(u)'
    BY <2>3, Depths DEF Deep
  <2>5. DepthThread(u)'
    BY <2>3, <2>4, Depths DEF DepthThread
  <2>6. ~Deep(on[c])'
    <3>1. on'[c] = u
      BY <2>1, <2>2
    <3>. QED BY <2>3, <3>1, Depths DEF Deep
  <2>7. DepthCpu(c)'
    BY <2>6 DEF DepthCpu
  <2>. QED BY <2>1, <2>5, <2>7, DepthLocal
<1>11. CASE Syscall(c) \/ SysConRead(c) \/ ShellLoop(c) \/ GetcRead(c) \/ EchoOut(c)
  BY <1>2, <1>11 DEF HandlerLabels, Here, Syscall, SysConRead, ShellLoop, GetcRead, EchoOut, At
<1>12. CASE DrainUart(c)
  <2>1. Here(c) = "com1_drain" /\ UNCHANGED <<on, ret>> /\ ~ints'[c]
    BY <1>1, <1>2, <1>12 DEF DrainUart, At, Here, Panic, cpuVars
  <2>2. ASSUME NEW b \in {"wakeup", "com1_drain"}, Goto(c, b) PROVE DepthInv'
    <3>1. ~Yielding(c)'
      BY <1>4, <2>1, <2>2 DEF Yielding
    <3>. QED BY <2>1, <2>2, <3>1, DeepMove DEF HandlerLabels
  <2>. QED BY <1>5, <1>12, <2>1, <2>2 DEF DrainUart
<1>13. CASE Com1Release(c)
  <2>1. /\ Here(c) = "com1_release" /\ Release(c, "console_read") /\ Goto(c, "tail")
        /\ UNCHANGED <<on, ret>>
    BY <1>13 DEF Com1Release, At, Here
  <2>2. ~Yielding(c)' /\ ~ints'[c]
    BY <1>3, <1>4, <1>6, <2>1 DEF Yielding
  <2>. QED BY <2>1, <2>2, DeepMove DEF HandlerLabels
<1>. QED BY <1>7, <1>8, <1>9, <1>10, <1>11, <1>12, <1>13 DEF Step

\* The code keeps the invariant.
LEMMA CodeDepth ==
  ASSUME IInv, IInv', DepthInv, NEW c \in Cpus, Step(c)
  PROVE  DepthInv'
<1>1. CASE ~Deep(on[c])
  <2>1. PICK u \in Threads : u = on[c]
    BY Where
  <2>2. Len(ret[u]) <= 1
    <3>1. Len(ret[u]) \in Nat
      <4>1. ret[u] \in Seq([pc : Labels, ints : BOOLEAN])
        BY DEF IInv, TypeOK
      <4>. QED BY <4>1, SeqBasics
    <3>2. Len(ret[u]) <= 2
      BY DEF DepthInv, DepthThread
    <3>3. Len(ret[u]) # 2
      BY <1>1, <2>1 DEF Deep
    <3>. QED BY <3>1, <3>2, <3>3, AtMostOne
  <2>3. Len(ret'[u]) <= 1 /\ Len(ret'[u]) # 2
    <3>1. Len(ret'[u]) \in Nat
      <4>1. ret'[u] \in Seq([pc : Labels, ints : BOOLEAN])
        BY DEF IInv, TypeOK
      <4>. QED BY <4>1, SeqBasics
    <3>2. Len(ret'[u]) <= 1
      BY <2>1, <2>2, ShallowStep
    <3>. QED BY <3>1, <3>2, AtMostTwo
  <2>4. DepthThread(u)'
    <3>1. Len(ret'[u]) <= 2
      <4>1. Len(ret'[u]) \in Nat
        <5>1. ret'[u] \in Seq([pc : Labels, ints : BOOLEAN])
          BY DEF IInv, TypeOK
        <5>. QED BY <5>1, SeqBasics
      <4>. QED BY <2>3, <4>1, AtMostTwo
    <3>. QED BY <2>3, <3>1 DEF DepthThread, Deep
  <2>5. DepthCpu(c)'
    <3>1. CASE on'[c] = on[c]
      <4>1. ~Deep(on[c])'
        BY <2>1, <2>3, <3>1 DEF Deep
      <4>. QED BY <4>1 DEF DepthCpu
    <3>. QED BY <3>1, NewStack
  <2>. QED BY <2>1, <2>4, <2>5, DepthLocal
<1>. QED BY <1>1, DeepStep

\* An interrupt comes only to a thread less than two traps deep, and turns
\* interrupts off.
LEMMA TrapDepth ==
  ASSUME IInv, IInv', DepthInv, NEW c \in Cpus, ints[c], NEW h \in {"timer", "com1", "spurious"},
         TrapTo(c, h, FALSE)
  PROVE  DepthInv'
<1>1. /\ pc \in [Threads -> Labels] /\ ints \in [Cpus -> BOOLEAN] /\ on[c] \in Threads
      /\ ret \in [Threads -> Seq([pc : Labels, ints : BOOLEAN])]
  BY DEF IInv, TypeOK
<1>2. PICK u \in Threads : u = on[c]
  BY <1>1
<1>3. ret[u] \in Seq([pc : Labels, ints : BOOLEAN]) /\ pc[u] \in Labels /\ ints[c] \in BOOLEAN
  BY <1>1
<1>4. Len(ret[u]) \in Nat /\ Len(ret[u]) <= 1
  <2>1. Len(ret[u]) \in Nat
    BY SMTT(30), <1>3
  <2>2. Len(ret[u]) <= 2
    BY DEF DepthInv, DepthThread
  <2>3. Len(ret[u]) # 2
    BY <1>2 DEF DepthInv, DepthCpu, Deep
  <2>. QED BY <2>1, <2>2, <2>3, AtMostOne
<1>5. /\ ret'[u] = <<[pc |-> pc[u], ints |-> ints[c]]>> \o ret[u] /\ pc'[u] = h
      /\ ~ints'[c] /\ UNCHANGED <<on, intena, spin, int_enabled>>
      /\ \A t \in Threads : t # u => pc'[t] = pc[t] /\ ret'[t] = ret[t]
      /\ \A d \in Cpus : d # c => ints'[d] = ints[d]
  BY <1>1, <1>2 DEF TrapTo, Goto
<1>6. Len(ret'[u]) <= 2
  <2>1. [pc |-> pc[u], ints |-> ints[c]] \in [pc : Labels, ints : BOOLEAN]
    BY <1>3
  <2>2. Len(ret'[u]) = Len(ret[u]) + 1
    <3>1. Len(<<[pc |-> pc[u], ints |-> ints[c]]>> \o ret[u]) = Len(ret[u]) + 1
      BY <1>3, <2>1, OneMore
    <3>. QED BY <1>5, <3>1
  <2>. QED BY SMTT(30), <1>4, <2>2
<1>7. ASSUME NEW t \in Threads PROVE DepthThread(t)'
  <2>1. CASE t = u
    BY <1>5, <1>6, <2>1 DEF DepthThread, HandlerLabels
  <2>2. CASE t # u
    BY <1>5, <2>2 DEF DepthInv, DepthThread, Deep
  <2>. QED BY <2>1, <2>2
<1>8. ASSUME NEW d \in Cpus PROVE DepthCpu(d)'
  <2>1. CASE d = c
    <3>1. Here(d)' = h
      BY <1>2, <1>5, <2>1 DEF Here
    <3>. QED BY <1>5, <2>1, <3>1 DEF DepthCpu, Yielding
  <2>2. CASE d # c
    <3>1. on[d] \in Threads /\ on[d] # u
      BY <1>2, <2>2, Where, OwnStack
    <3>2. pc'[on[d]] = pc[on[d]] /\ ret'[on[d]] = ret[on[d]]
      BY <1>5, <3>1
    <3>. QED BY <1>5, <2>2, <3>2 DEF DepthInv, DepthCpu, Deep, Yielding, Here
  <2>. QED BY <2>1, <2>2
<1>. QED BY <1>7, <1>8 DEF DepthInv

\* Every step keeps the invariant.
LEMMA NextDepth ==
  IInv /\ IInv' /\ DepthInv /\ [Next]_vars => DepthInv'
<1> SUFFICES ASSUME IInv, IInv', DepthInv, [Next]_vars PROVE DepthInv'
  OBVIOUS
<1>1. ASSUME UNCHANGED <<cpuVars, schedVars>> PROVE DepthInv'
  BY <1>1 DEF DepthInv, DepthThread, DepthCpu, Deep, Yielding, Here, cpuVars, schedVars
<1>2. ASSUME NEW c \in Cpus, Step(c) PROVE DepthInv'
  BY <1>2, CodeDepth
<1>3. ASSUME NEW c \in Cpus, TimerTick(c) PROVE DepthInv'
  BY <1>1, <1>3 DEF TimerTick
<1>4. ASSUME NEW c \in Cpus, Spurious(c) PROVE DepthInv'
  BY <1>4, TrapDepth DEF Spurious
<1>5. ASSUME NEW c \in Cpus, NEW irq \in {"timer", "com1"}, Deliver(c, irq) PROVE DepthInv'
  BY <1>5, TrapDepth DEF Deliver
<1>6. CASE UartReceive \/ Halted \/ UNCHANGED vars
  BY <1>1, <1>6 DEF UartReceive, Halted, vars
<1>. QED BY <1>2, <1>3, <1>4, <1>5, <1>6 DEF Next

\* Traps nest two deep at most on the kernel stack of a process, which is one
\* page (proc_kern_init): an interrupt in a system call, and no more, because
\* no lock taken or stack switched in an interrupt handler turns interrupts
\* on before its iret (handle_interrupt, sched_yield, sched_switch_out).
THEOREM StackDepth == Spec => []StackBounded
<1>1. Init => DepthInv
  <2> SUFFICES ASSUME Init PROVE DepthInv
    OBVIOUS
  <2>1. \A t \in Threads : Len(ret[t]) = 0
    BY DEF Init, SchedInit
  <2>2. \A c \in Cpus : on[c] \in Threads
    BY Kinds DEF Init, SchedInit
  <2>. QED BY SMTT(30), <2>1, <2>2 DEF DepthInv, DepthThread, DepthCpu, Deep
<1>2. DepthInv => StackBounded
  BY DEF DepthInv, DepthThread, StackBounded
<1>. QED BY <1>1, <1>2, NextDepth, Invariance, PTL DEF Spec
=============================================================================
