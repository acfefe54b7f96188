--------------------------- MODULE TrapFrameProofs --------------------------
(***************************************************************************)
(* The trap frames of module TrapFrame, for every number of processes and  *)
(* every set of vectors: handle_interrupt finds in the frame what the      *)
(* processor and the stubs pushed, and a trap returns with the registers   *)
(* and the stack as it found them.                                         *)
(***************************************************************************)
EXTENDS TrapFrame, TLAPS

\* The prover of the steps that name no other.
USE ZenonT(30)

-----------------------------------------------------------------------------
(* Words and sequences                                                     *)

\* A word tells its kind and its value.
LEMMA Word ==
  /\ \A a, b, c, d : <<a, b>> = <<c, d>> => a = c /\ b = d
  /\ \A a, b : <<a, b>>[1] = a /\ <<a, b>>[2] = b
<1>1. ASSUME NEW a, NEW b, NEW c, NEW d, <<a, b>> = <<c, d>> PROVE a = c /\ b = d
  BY SMT, <1>1
<1>2. ASSUME NEW a, NEW b PROVE <<a, b>>[1] = a /\ <<a, b>>[2] = b
  BY SMT
<1>. QED BY <1>1, <1>2

\* A place tells its label and how far behind it it is, a number its value.
LEMMA Places ==
  /\ \A l, k, m, n : Place(l, k) = Place(m, n) => l = m /\ k = n
  /\ \A l, k : Place(l, k)[1] = l /\ Place(l, k)[2] = k
  /\ \A l, m : At(l) = At(m) => l = m
  /\ \A l : At(l) = Place(l, 0) /\ At(l)[1] = l /\ At(l)[2] = 0
  /\ \A n : Num(n)[2] = n
  /\ \A m, n : Num(m) = Num(n) => m = n
BY Word DEF Place, At, Num

\* A sequence, of whatever.
IsSeq(s) == s \in Seq(Range(s))

\* What a sequence is.
LEMMA Sequence ==
  ASSUME NEW s, IsSeq(s)
  PROVE  Len(s) \in Nat /\ DOMAIN s = 1..Len(s)
BY SMT DEF IsSeq

\* A sequence has its elements in any set that has them all.
LEMMA AnySequence ==
  ASSUME NEW s, NEW A, s \in Seq(A)
  PROVE  IsSeq(s)
<1>1. \A i \in DOMAIN s : s[i] \in Range(s)
  BY DEF Range
<1> DEFINE R == Range(s)
<1> HIDE DEF R
<1>2. \A i \in DOMAIN s : s[i] \in R
  BY <1>1 DEF R
<1>3. s \in Seq(R)
  BY SMT, <1>2
<1>. QED BY <1>3 DEF IsSeq, R

\* The stack v has the words of s and on them those of u.
Joined(s, u, v) ==
  /\ IsSeq(v) /\ Len(v) = Len(s) + Len(u)
  /\ \A i \in 1..Len(s) : v[i] = s[i]
  /\ \A i \in 1..Len(u) : v[Len(s) + i] = u[i]

\* The words of u pushed on s.
LEMMA Cat ==
  ASSUME NEW s, IsSeq(s), NEW u, IsSeq(u)
  PROVE  Joined(s, u, s \o u)
<1> DEFINE A == Range(s) \cup Range(u)
<1>1. s \in Seq(Range(s)) /\ u \in Seq(Range(u))
  BY DEF IsSeq
<1> DEFINE P == Range(s)
           Q == Range(u)
<1>2. s \in Seq(P) /\ u \in Seq(Q) /\ A = P \cup Q
  BY <1>1
<1> HIDE DEF P, Q, A
<1>3. s \in Seq(A) /\ u \in Seq(A)
  BY SMT, <1>2
<1>4. s \o u \in Seq(A)
  BY SMT, <1>3
<1>5. /\ Len(s \o u) = Len(s) + Len(u)
      /\ \A i \in 1..Len(s) : (s \o u)[i] = s[i]
      /\ \A i \in 1..Len(u) : (s \o u)[Len(s) + i] = u[i]
  BY SMT, <1>3
<1>. QED BY <1>4, <1>5, AnySequence DEF Joined

\* The first n words of s.
LEMMA First ==
  ASSUME NEW s, IsSeq(s), NEW n \in 0..Len(s)
  PROVE  /\ IsSeq(SubSeq(s, 1, n)) /\ Len(SubSeq(s, 1, n)) = n
         /\ \A i \in 1..n : SubSeq(s, 1, n)[i] = s[i]
<1> DEFINE P == Range(s)
<1>1. s \in Seq(P)
  BY DEF IsSeq
<1> HIDE DEF P
<1>2. /\ SubSeq(s, 1, n) \in Seq(P) /\ Len(SubSeq(s, 1, n)) = n
      /\ \A i \in 1..n : SubSeq(s, 1, n)[i] = s[i]
  BY SMT, <1>1
<1>. QED BY <1>2, AnySequence

\* What is left of s without its last n words.
LEMMA Dropped ==
  ASSUME NEW s, IsSeq(s), NEW n \in 0..Len(s)
  PROVE  /\ IsSeq(Drop(s, n)) /\ Len(Drop(s, n)) = Len(s) - n /\ Len(s) - n \in Nat
         /\ \A i \in 1..Len(s) - n : Drop(s, n)[i] = s[i]
<1>1. Len(s) \in Nat
  BY Sequence
<1>2. Len(s) - n \in 0..Len(s)
  BY SMT, <1>1
<1>3. Len(s) - n \in Nat
  BY SMT, <1>2
<1>. QED BY <1>2, <1>3, First DEF Drop

\* A function on the first numbers is a sequence.
LEMMA Listed ==
  ASSUME NEW n \in Nat, NEW f, f = [i \in 1..n |-> f[i]]
  PROVE  IsSeq(f) /\ Len(f) = n
<1> DEFINE A == {f[i] : i \in 1..n}
<1>1. \A i \in 1..n : f[i] \in A
  OBVIOUS
<1> HIDE DEF A
<1>2. f \in [1..n -> A]
  BY <1>1
<1>3. f \in Seq(A) /\ Len(f) = n
  BY SMT, <1>2
<1>. QED BY <1>3, AnySequence

-----------------------------------------------------------------------------
(* The order of the pushes and pops                                        *)

\* return_from_isr pops the registers in the reverse of the order in which
\* trap_enter_all pushes them, each once.
LEMMA TrapOrder ==
  /\ Len(TrapPushes) = 15 /\ Len(TrapPops) = 15
  /\ \A k \in 1..15 : TrapPushes[16 - k] = TrapPops[k]
  /\ \A j, k \in 1..15 : TrapPops[j] = TrapPops[k] => j = k
<1>1. Len(TrapPushes) = 15 /\ Len(TrapPops) = 15
  BY SMT DEF TrapPushes, TrapPops
<1>2. ASSUME NEW k \in 1..15 PROVE TrapPushes[16 - k] = TrapPops[k]
  BY SMT DEF TrapPushes, TrapPops
<1>3. ASSUME NEW j \in 1..15, NEW k \in 1..15, TrapPops[j] = TrapPops[k] PROVE j = k
  BY SMT, <1>3 DEF TrapPops
<1>. QED BY <1>1, <1>2, <1>3

\* The same for sched_ctxsw.
LEMMA CtxOrder ==
  /\ Len(CtxPushes) = 6 /\ Len(CtxPops) = 6
  /\ \A k \in 1..6 : CtxPushes[7 - k] = CtxPops[k]
  /\ \A j, k \in 1..6 : CtxPops[j] = CtxPops[k] => j = k
<1>1. Len(CtxPushes) = 6 /\ Len(CtxPops) = 6
  BY SMT DEF CtxPushes, CtxPops
<1>2. ASSUME NEW k \in 1..6 PROVE CtxPushes[7 - k] = CtxPops[k]
  BY SMT DEF CtxPushes, CtxPops
<1>3. ASSUME NEW j \in 1..6, NEW k \in 1..6, CtxPops[j] = CtxPops[k] PROVE j = k
  BY SMT, <1>3 DEF CtxPops
<1>. QED BY <1>1, <1>2, <1>3

\* The registers are those that are popped.
LEMMA AllRegs ==
  /\ \A k \in 1..15 : TrapPops[k] \in Regs
  /\ \A r \in Regs : \E k \in 1..15 : TrapPops[k] = r
  /\ \A r \in Regs : r \in Range(TrapPops)
<1>1. DOMAIN TrapPushes = 1..15 /\ DOMAIN TrapPops = 1..15
  BY SMT DEF TrapPushes, TrapPops
<1>2. ASSUME NEW k \in 1..15 PROVE 16 - k \in 1..15 /\ 16 - (16 - k) = k
  BY SMT
<1>3. ASSUME NEW k \in 1..15 PROVE TrapPops[k] \in Regs
  <2>1. TrapPops[k] = TrapPushes[16 - k]
    BY TrapOrder
  <2>. QED BY <1>1, <1>2, <2>1 DEF Regs, Range
<1>4. ASSUME NEW r \in Regs PROVE \E k \in 1..15 : TrapPops[k] = r
  <2>1. PICK k \in 1..15 : TrapPushes[k] = r
    BY <1>1 DEF Regs, Range
  <2>2. TrapPops[16 - k] = TrapPushes[16 - (16 - k)]
    BY <1>2, TrapOrder
  <2>. QED BY <1>2, <2>1, <2>2
<1>. QED BY <1>1, <1>3, <1>4 DEF Range

\* The registers that sched_ctxsw keeps are those a call keeps.
LEMMA AllCalleeSaved ==
  /\ CalleeSaved \subseteq Regs /\ "rax" \in Regs /\ "rax" \notin CalleeSaved /\ "rdi" \notin CalleeSaved
  /\ \A k \in 1..6 : CtxPops[k] \in CalleeSaved
  /\ \A r \in CalleeSaved : \E k \in 1..6 : CtxPops[k] = r
  /\ Range(CtxPops) = CalleeSaved
  /\ \A k \in 1..15 : TrapPops[k] = "rax" <=> k = 1
<1>0. /\ CtxPops[1] = "rbx" /\ CtxPops[2] = "rbp" /\ CtxPops[3] = "r12"
      /\ CtxPops[4] = "r13" /\ CtxPops[5] = "r14" /\ CtxPops[6] = "r15"
  BY SMT DEF CtxPops
<1>1. DOMAIN CtxPops = 1..6
  BY SMT DEF CtxPops
<1>2. ASSUME NEW k \in 1..6 PROVE CtxPops[k] \in CalleeSaved
  BY SMT DEF CtxPops, CalleeSaved
<1>3. ASSUME NEW r \in CalleeSaved PROVE \E k \in 1..6 : CtxPops[k] = r
  <2>1. {1, 2, 3, 4, 5, 6} \subseteq 1..6
    BY SMT
  <2>. QED BY <1>0, <2>1 DEF CalleeSaved
<1>4. ASSUME NEW r \in CalleeSaved PROVE r \in Regs
  <2>1. {4, 7, 12, 13, 14, 15} \subseteq 1..15
    BY SMT
  <2>2. /\ TrapPops[4] = "rbx" /\ TrapPops[7] = "rbp" /\ TrapPops[12] = "r12"
        /\ TrapPops[13] = "r13" /\ TrapPops[14] = "r14" /\ TrapPops[15] = "r15"
    BY SMT DEF TrapPops
  <2>3. {TrapPops[k] : k \in 1..15} \subseteq Regs
    BY AllRegs
  <2>4. {"rbx", "rbp"} \subseteq Regs
    BY <2>1, <2>2, <2>3
  <2>5. {"r12", "r13"} \subseteq Regs
    BY <2>1, <2>2, <2>3
  <2>6. {"r14", "r15"} \subseteq Regs
    BY <2>1, <2>2, <2>3
  <2>. QED BY <2>4, <2>5, <2>6 DEF CalleeSaved
<1>5. TrapPops[1] = "rax" /\ 1 \in 1..15
  BY SMT DEF TrapPops
<1>6. CalleeSaved \subseteq Regs /\ "rax" \in Regs
  BY <1>4, <1>5, AllRegs
<1>7. "rax" \notin CalleeSaved /\ "rdi" \notin CalleeSaved
  BY DEF CalleeSaved
<1>8. Range(CtxPops) = CalleeSaved
  BY <1>1, <1>2, <1>3 DEF Range
<1>9. ASSUME NEW k \in 1..15 PROVE TrapPops[k] = "rax" <=> k = 1
  BY <1>5, TrapOrder
<1>. QED BY <1>2, <1>3, <1>6, <1>7, <1>8, <1>9

\* A value for each register.
IsRegs(f) == f = [r \in Regs |-> f[r]]

\* Pops leave every register with a value.
LEMMA PoppedRegs == \A s, order : IsRegs(Popped(s, order))
BY SMT DEF Popped, IsRegs

\* The pops of sched_ctxsw give the words on top of the stack.
LEMMA PoppedCtx ==
  ASSUME NEW s
  PROVE  \A k \in 1..6 : Popped(s, CtxPops)[CtxPops[k]] = s[Len(s) + 1 - k]
<1>1. ASSUME NEW k \in 1..6 PROVE Popped(s, CtxPops)[CtxPops[k]] = s[Len(s) + 1 - k]
  <2> DEFINE r == CtxPops[k]
             j == CHOOSE i \in 1..Len(CtxPops) : CtxPops[i] = r
  <2>1. j \in 1..6 /\ CtxPops[j] = r
    <3>1. \E i \in 1..Len(CtxPops) : CtxPops[i] = r
      BY CtxOrder
    <3>. QED BY <3>1, CtxOrder
  <2>2. r \in Regs /\ r \in Range(CtxPops)
    BY AllCalleeSaved
  <2>3. Popped(s, CtxPops)[r] = s[Len(s) + 1 - j]
    <3> HIDE DEF r
    <3>. QED BY <2>2 DEF Popped
  <2> HIDE DEF j
  <2>4. j = k
    BY <2>1, CtxOrder
  <2>. QED BY <2>3, <2>4
<1>. QED BY <1>1

-----------------------------------------------------------------------------
(* The inductive invariant                                                 *)

Agree(s, u, d) == \A i \in 1..d : u[i] = s[i]

\* The registers a call keeps hold what handle_interrupt, in the n-th trap of
\* thread t, has there.
HandlerRegs(t, n, f) == \A r \in CalleeSaved : f[r] = <<"reg", <<t, r, "handler", n>>>>

\* The word w will be in rax when the trap returns, or is the number of the
\* system call whose result will.
Pending(trap, w) ==
  IF trap.vector = SYSCALL
  THEN \E n \in Numbers : /\ w = <<"number", n>>
                          /\ trap.regs["rax"] = IF n = "unknown" THEN w ELSE Num(0)
  ELSE w = trap.regs["rax"]

\* The registers while a trap pushes them.
Entry(trap, f) == Pending(trap, f["rax"]) /\ \A r \in Regs \ {"rax"} : f[r] = trap.regs[r]

ErrorWord(v) == IF v \in ErrorCode THEN <<"error", v>> ELSE Num(0)

Trap(trap) ==
  /\ trap.vector \in Vectors /\ trap.if \in BOOLEAN
  /\ IsSeq(trap.stack) /\ IsRegs(trap.regs)

\* The words that the processor pushed, up to e, on the stack it found.
Base(s, trap, e) ==
  /\ e \in {Len(trap.stack) + 5, Len(trap.stack) + 6}
  /\ Agree(trap.stack, s, Len(trap.stack))
  /\ s[e] = trap.pc /\ s[e - 2] = <<"flags", trap.if>> /\ s[e - 3] = Num(Len(trap.stack))

\* The words of the stub, and the first n of those that trap_enter_all pushes.
Tagged(s, trap, e) == s[e + 1] = ErrorWord(trap.vector) /\ s[e + 2] = Num(trap.vector)
Kept(s, e, f, n) == \A j \in 1..n : s[(e + 2) + j] = f[TrapPushes[j]]

\* The field rax of the frame, by how far the handler is.
Rax(w, trap, l) ==
  /\ l \in {"handle_interrupt", "handle_syscall"} => Pending(trap, w)
  /\ l \in {"handle_syscall", "result"} => trap.vector = SYSCALL
  /\ l = "result" => trap.regs["rax"] = Num(0)
  /\ l \in {"tail", "epilogue"} => w = trap.regs["rax"]

\* A struct trapframe, and the frame of handle_interrupt on top of it.
Framed(s, trap, e, l) ==
  Tagged(s, trap, e) /\ Kept(s, e, trap.regs, 14) /\ Rax(s[e + 17], trap, l)
Body(s, trap, e, l) ==
  Framed(s, trap, e, l) /\ s[e + 18] = At("return_from_isr") /\ s[e + 20] = Num(e + 17)

InHandler == {"handle_syscall", "result", "tail", "epilogue", "panic"}

\* The places inside a trap, the n-th of thread t, with what is on the stack s
\* above the words of the processor and in the registers f.
InStub(s, trap, e, at, f) ==
  /\ at = Place("vector", trap.vector) /\ Entry(trap, f)
  /\ IF trap.vector \in ErrorCode
     THEN Len(s) = e + 1 /\ s[e + 1] = ErrorWord(trap.vector)
     ELSE Len(s) = e
InNumber(s, trap, e, at, f) ==
  /\ at = Place("vector_number", trap.vector) /\ Entry(trap, f)
  /\ Len(s) = e + 1 /\ s[e + 1] = ErrorWord(trap.vector)
Entering(s, trap, e, f, k) ==
  /\ k \in 0..15 /\ Entry(trap, f)
  /\ Len(s) = (e + 2) + k /\ Tagged(s, trap, e) /\ Kept(s, e, f, k)
InEnter(s, trap, e, at, f) ==
  \E k \in 0..15 : at = Place("trap_enter_all", k) /\ Entering(s, trap, e, f, k)
AtCall(s, trap, e, at, f) ==
  /\ at = Place("trap_enter_all", 16) /\ Len(s) = e + 17
  /\ Framed(s, trap, e, "handle_interrupt") /\ f["rdi"] = Num(e + 17)
AtHandler(s, trap, e, at, f) ==
  /\ at = At("handle_interrupt") /\ Len(s) = e + 18 /\ s[e + 18] = At("return_from_isr")
  /\ Framed(s, trap, e, "handle_interrupt") /\ f["rdi"] = Num(e + 17)
Handling(t, n, s, trap, e, l, f) ==
  /\ Len(s) = e + 20 /\ Body(s, trap, e, l)
  /\ l \in {"handle_syscall", "result", "tail"} => HandlerRegs(t, n, f)
InBody(t, n, s, trap, e, at, f) ==
  \E l \in InHandler : at = At(l) /\ Handling(t, n, s, trap, e, l, f)
Yielding(t, n, s, trap, e, l, f) ==
  /\ Len(s) = e + 22 /\ s[e + 22] = At(l) /\ Body(s, trap, e, l)
  /\ HandlerRegs(t, n, f)
  /\ n = 2 => s[e + 21] = <<"flags", FALSE>>
InYield(t, n, s, trap, e, at, f) ==
  at = At("switched in") /\ \E l \in {"result", "epilogue"} : Yielding(t, n, s, trap, e, l, f)
Returning(s, trap, e, f, k) ==
  /\ k \in 0..15 /\ Len(s) = e + 17 - k /\ Kept(s, e, trap.regs, 15 - k)
  /\ \A j \in 1..k : f[TrapPops[j]] = trap.regs[TrapPops[j]]
InReturn(s, trap, e, at, f) ==
  \E k \in 0..15 : at = Place("return_from_isr", k) /\ Returning(s, trap, e, f, k)
AtIretq(s, trap, e, at, f) ==
  at = Place("return_from_isr", 16) /\ Len(s) = e /\ f = trap.regs
AtBirth(s, trap, e, at) ==
  /\ at = At("proc_kentry") /\ Len(s) = e + 18 /\ s[e + 18] = At("return_from_isr")
  /\ Kept(s, e, trap.regs, 15)

Spot(t, n, s, trap, e, at, f) ==
  \/ InStub(s, trap, e, at, f) \/ InNumber(s, trap, e, at, f) \/ InEnter(s, trap, e, at, f)
  \/ AtCall(s, trap, e, at, f) \/ AtHandler(s, trap, e, at, f) \/ InBody(t, n, s, trap, e, at, f)
  \/ InYield(t, n, s, trap, e, at, f) \/ InReturn(s, trap, e, at, f)
  \/ AtIretq(s, trap, e, at, f) \/ AtBirth(s, trap, e, at)

Level(t, n, s, trap, at, f) ==
  Trap(trap) /\ \E e \in {Len(trap.stack) + 5, Len(trap.stack) + 6} :
                  Base(s, trap, e) /\ Spot(t, n, s, trap, e, at, f)

\* Where a thread is outside a trap, and inside only one.
Home(t) == At(IF t = Scheduler THEN "enable_interrupt" ELSE "main")
Open(at) == at # At("switched in") /\ at # At("proc_kentry")
Lone(t, s, trap, at, f) ==
  /\ Level(t, 1, s, trap, at, f)
  /\ trap.stack = <<>> /\ trap.if /\ trap.pc = Home(t)
  /\ t = Scheduler => trap.vector # SYSCALL

\* Thread t, with stack s and pending traps T, is at at with the registers f and
\* the interrupt flag i.  A trap inside a trap lies on a stack that the first
\* may have at the place where it was interrupted.
Live(t, s, T, at, f, i) ==
  \/ Len(T) = 0 /\ s = <<>> /\ at = Home(t) /\ i
  \/ Len(T) = 1 /\ Lone(t, s, T[1], at, f) /\ (i => Open(at))
  \/ /\ Len(T) = 2 /\ ~i /\ Level(t, 2, s, T[2], at, f)
     /\ T[2].vector # SYSCALL /\ T[2].if /\ Open(T[2].pc)
     /\ Lone(t, T[2].stack, T[1], T[2].pc, T[2].regs)

\* A thread that is switched out is where sched_ctxsw will return to, with the
\* registers that it will pop, whatever the others hold.
Parked(t, s, T) ==
  /\ Len(s) >= 7
  /\ \A f : IsRegs(f) /\ (\A k \in 1..6 : f[CtxPops[k]] = s[Len(s) + 1 - k])
              => Live(t, Drop(s, 7), T, s[Len(s) - 6], f, FALSE)

Stacks == Threads \cup {Scheduler}

TInv ==
  /\ cur \in Stacks /\ if \in BOOLEAN /\ IsRegs(regs)
  /\ stack = [t \in Stacks |-> stack[t]] /\ trapped = [t \in Stacks |-> trapped[t]]
  /\ \A t \in Stacks : IsSeq(stack[t]) /\ IsSeq(trapped[t])

Running ==
  /\ Live(cur, stack[cur], trapped[cur], pc, regs, if)
  /\ cur # Scheduler => /\ Len(stack[Scheduler]) = 7 /\ stack[Scheduler][1] = At("sched_start")
                        /\ Len(trapped[Scheduler]) = 0
Scheduling ==
  /\ cur = Scheduler /\ ~if
  /\ Len(stack[Scheduler]) = 0 /\ Len(trapped[Scheduler]) = 0

Inv ==
  /\ TInv
  /\ IF pc = At("sched_start") THEN Scheduling ELSE Running
  /\ \A t \in Threads : t # cur => Parked(t, stack[t], trapped[t])

-----------------------------------------------------------------------------
(* Pushes, pops and writes                                                 *)


\* The words that the processor pushes in every trap.
Five(n, f, at) == <<<<"sel", "ss">>, Num(n), <<"flags", f>>, <<"sel", "cs">>, at>>

\* The stack after them.
Pushes(s, pad, f, at) == s \o [i \in 1..pad |-> <<"pad", 0>>] \o Five(Len(s), f, at)

\* The stack u is s with them.
FiveOn(s, u, f, at) ==
  /\ IsSeq(u) /\ Agree(s, u, Len(s)) /\ Len(u) \in {Len(s) + 5, Len(s) + 6}
  /\ u[Len(u)] = at /\ u[Len(u) - 2] = <<"flags", f>> /\ u[Len(u) - 3] = Num(Len(s))

\* They lie where iretq and handle_interrupt look for them.
LEMMA FivePushed ==
  ASSUME NEW s, IsSeq(s), NEW pad \in {0, 1}, NEW f, NEW at
  PROVE  FiveOn(s, Pushes(s, pad, f, at), f, at)
<1> DEFINE u == Pushes(s, pad, f, at)
           p == [i \in 1..pad |-> <<"pad", 0>>]
           w == Five(Len(s), f, at)
<1>1. Len(s) \in Nat /\ pad \in Nat
  BY SMT, Sequence
<1>2. IsSeq(p) /\ Len(p) = pad
  <2>1. p = [i \in 1..pad |-> p[i]]
    OBVIOUS
  <2> HIDE DEF p
  <2>. QED BY <1>1, <2>1, Listed
<1>3. IsSeq(w) /\ Len(w) = 5 /\ w[2] = Num(Len(s)) /\ w[3] = <<"flags", f>> /\ w[5] = at
  <2> DEFINE a == <<"sel", "ss">>
             b == Num(Len(s))
             c == <<"flags", f>>
             d == <<"sel", "cs">>
             e == at
  <2>1. w = <<a, b, c, d, e>>
    BY DEF Five
  <2> HIDE DEF w, a, b, c, d, e
  <2>2. w \in Seq({a, b, c, d, e}) /\ Len(w) = 5 /\ w[2] = b /\ w[3] = c /\ w[5] = e
    BY SMT, <2>1
  <2>. QED BY <2>2, AnySequence DEF b, c, e
<1> DEFINE q == s \o p
<1>4. u = q \o w
  BY DEF Pushes
<1> HIDE DEF p, w, u
<1>5. IsSeq(q) /\ Len(q) = Len(s) + pad /\ \A i \in 1..Len(s) : q[i] = s[i]
  BY <1>2, Cat DEF Joined
<1> HIDE DEF q
<1>6. Joined(q, w, u)
  <2>1. IsSeq(q) /\ IsSeq(w)
    BY <1>3, <1>5
  <2>2. Joined(q, w, q \o w)
    BY <2>1, Cat
  <2>. QED BY <1>4, <2>2
<1>7. /\ 2 \in 1..5 /\ 3 \in 1..5 /\ 5 \in 1..5 /\ \A i \in 1..Len(s) : i \in 1..Len(q)
      /\ Len(q) + 5 \in {Len(s) + 5, Len(s) + 6} /\ Len(q) + 5 \in Nat
      /\ (Len(q) + 5) - 3 = Len(q) + 2 /\ (Len(q) + 5) - 2 = Len(q) + 3
  BY SMT, <1>1, <1>5
<1>8. Len(u) = Len(q) + 5 /\ u[Len(q) + 5] = at /\ u[Len(q) + 3] = <<"flags", f>> /\ u[Len(q) + 2] = Num(Len(s))
  BY <1>3, <1>6, <1>7 DEF Joined
<1>9. Agree(s, u, Len(s))
  BY <1>5, <1>6, <1>7 DEF Agree, Joined
<1>10. IsSeq(u)
  BY <1>6 DEF Joined
<1>11. FiveOn(s, u, f, at)
  BY <1>7, <1>8, <1>9, <1>10 DEF FiveOn
<1>. QED BY <1>11 DEF u

\* One word pushed.
Extended(s, u, n) == IsSeq(u) /\ Len(u) = Len(s) + n /\ Agree(s, u, Len(s))

\* push writes the word above the others and leaves them.
LEMMA PushOne ==
  ASSUME NEW s, IsSeq(s), NEW w
  PROVE  Extended(s, s \o <<w>>, 1) /\ (s \o <<w>>)[Len(s) + 1] = w
<1>1. IsSeq(<<w>>) /\ Len(<<w>>) = 1 /\ <<w>>[1] = w
  <2>1. <<w>> \in Seq({w}) /\ Len(<<w>>) = 1 /\ <<w>>[1] = w
    BY SMT
  <2>. QED BY <2>1, AnySequence
<1> DEFINE one == <<w>>
<1>2. IsSeq(one) /\ Len(one) = 1 /\ one[1] = w
  BY <1>1
<1> HIDE DEF one
<1>3. Joined(s, one, s \o one)
  BY <1>2, Cat
<1>4. 1 \in 1..1
  BY SMT
<1>5. Extended(s, s \o one, 1) /\ (s \o one)[Len(s) + 1] = w
  BY <1>2, <1>3, <1>4 DEF Joined, Extended, Agree
<1>. QED BY <1>5 DEF one

\* Two words pushed.
TwoOn(s, u, w, x) == Extended(s, u, 2) /\ u[Len(s) + 1] = w /\ u[Len(s) + 2] = x

\* Two pushes do the same.
LEMMA PushTwo ==
  ASSUME NEW s, IsSeq(s), NEW w, NEW x
  PROVE  TwoOn(s, s \o <<w, x>>, w, x)
<1> DEFINE two == <<w, x>>
<1>1. IsSeq(two) /\ Len(two) = 2 /\ two[1] = w /\ two[2] = x
  <2>1. <<w, x>> \in Seq({w, x}) /\ Len(<<w, x>>) = 2 /\ <<w, x>>[1] = w /\ <<w, x>>[2] = x
    BY SMT
  <2>. QED BY <2>1, AnySequence
<1> HIDE DEF two
<1>2. Joined(s, two, s \o two)
  BY <1>1, Cat
<1>3. 1 \in 1..2 /\ 2 \in 1..2
  BY SMT
<1>4. Extended(s, s \o two, 2) /\ (s \o two)[Len(s) + 1] = w /\ (s \o two)[Len(s) + 2] = x
  BY <1>1, <1>2, <1>3 DEF Joined, Extended, Agree
<1>. QED BY <1>4 DEF two, TwoOn

\* A trap recorded.
LEMMA Recorded ==
  ASSUME NEW T, IsSeq(T), NEW x
  PROVE  /\ IsSeq(Append(T, x)) /\ Len(Append(T, x)) = Len(T) + 1 /\ Top(Append(T, x)) = x
         /\ Append(T, x)[Len(T) + 1] = x
         /\ \A i \in 1..Len(T) : Append(T, x)[i] = T[i]
<1>1. T \in Seq(Range(T))
  BY DEF IsSeq
<1> DEFINE A == Range(T)
           B == A \cup {x}
<1>2. T \in Seq(A)
  BY <1>1
<1> HIDE DEF A
<1>3. Append(T, x) \in Seq(B)
  BY SMT, <1>2
<1>4. /\ Len(Append(T, x)) = Len(T) + 1 /\ Append(T, x)[Len(T) + 1] = x
      /\ \A i \in 1..Len(T) : Append(T, x)[i] = T[i]
  BY SMT, <1>2
<1>. QED BY <1>3, <1>4, AnySequence DEF Top

\* A word overwritten.
Wrote(s, i, w, u) ==
  IsSeq(u) /\ Len(u) = Len(s) /\ u[i] = w /\ \A j \in 1..Len(s) : j # i => u[j] = s[j]

\* A write to one word of a stack leaves the others.
LEMMA Overwritten ==
  ASSUME NEW s, IsSeq(s), NEW i \in 1..Len(s), NEW w
  PROVE  Wrote(s, i, w, [s EXCEPT ![i] = w])
<1> DEFINE u == [s EXCEPT ![i] = w]
           n == Len(s)
           A == Range(s)
<1>1. n \in Nat /\ DOMAIN s = 1..n
  BY Sequence
<1>2. s \in Seq(A)
  BY DEF IsSeq
<1>3. u[i] = w /\ (\A j \in 1..n : j # i => u[j] = s[j]) /\ u = [j \in 1..n |-> u[j]]
  <2> HIDE DEF A, n
  <2>1. s = [j \in 1..n |-> s[j]] /\ i \in 1..n
    BY SMT, <1>1, <1>2 DEF n
  <2>. QED BY <2>1
<1> HIDE DEF u, n
<1>4. IsSeq(u) /\ Len(u) = n
  BY <1>1, <1>3, Listed
<1>. QED BY <1>3, <1>4 DEF u, n, Wrote

\* Two sequences of the same words are the same.
LEMMA Equal ==
  ASSUME NEW s, NEW u, IsSeq(s), IsSeq(u), Len(u) = Len(s), Agree(s, u, Len(s))
  PROVE  u = s
<1> DEFINE A == Range(s)
           B == Range(u)
<1>1. s \in Seq(A) /\ u \in Seq(B)
  BY DEF IsSeq
<1> HIDE DEF A, B
<1>. QED BY SMT, <1>1 DEF Agree

\* The words that sched_ctxsw leaves on the stack it comes from.
Switched(s, u, at) ==
  /\ IsSeq(u) /\ Len(u) = Len(s) + 7 /\ u[Len(u) - 6] = at /\ u[Len(s) + 1] = at
  /\ \A k \in 1..6 : u[Len(u) + 1 - k] = regs[CtxPops[k]]
  /\ Drop(u, 7) = s

\* sched_ctxsw's pushes leave them.
LEMMA SwitchedOut ==
  ASSUME NEW s, IsSeq(s), NEW at
  PROVE  Switched(s, s \o <<at>> \o Pushed(CtxPushes), at)
<1> DEFINE w == Pushed(CtxPushes)
           v == s \o <<at>>
           u == v \o w
<1>1. Extended(s, v, 1) /\ v[Len(s) + 1] = at
  BY PushOne
<1>2. IsSeq(w) /\ Len(w) = 6 /\ \A k \in 1..6 : w[7 - k] = regs[CtxPops[k]]
  <2>1. w = [i \in 1..6 |-> regs[CtxPushes[i]]]
    BY CtxOrder DEF Pushed
  <2> HIDE DEF w
  <2>2. w = [i \in 1..6 |-> w[i]] /\ \A i \in 1..6 : w[i] = regs[CtxPushes[i]]
    BY <2>1
  <2>3. 6 \in Nat /\ \A k \in 1..6 : 7 - k \in 1..6
    BY SMT
  <2>4. IsSeq(w) /\ Len(w) = 6
    BY <2>2, <2>3, Listed
  <2>5. ASSUME NEW k \in 1..6 PROVE w[7 - k] = regs[CtxPops[k]]
    <3>1. CtxPushes[7 - k] = CtxPops[k]
      BY CtxOrder
    <3>2. w[7 - k] = regs[CtxPushes[7 - k]]
      BY <2>2, <2>3
    <3>. QED BY <3>1, <3>2
  <2>. QED BY <2>4, <2>5
<1> HIDE DEF w, v
<1>3. IsSeq(v) /\ Len(v) = Len(s) + 1
  BY <1>1 DEF Extended
<1>4. Joined(v, w, u)
  BY <1>2, <1>3, Cat
<1> HIDE DEF u
<1>5. Len(s) \in Nat
  BY Sequence
<1>6. IsSeq(u) /\ Len(u) = Len(v) + 6
  BY <1>2, <1>4 DEF Joined
<1>7. /\ Len(u) = Len(s) + 7 /\ Len(u) - 6 = Len(s) + 1 /\ Len(s) + 1 \in 1..Len(v)
      /\ Len(u) - 7 = Len(s) /\ 7 \in 0..Len(u)
      /\ \A k \in 1..6 : Len(u) + 1 - k = Len(v) + (7 - k) /\ 7 - k \in 1..6
      /\ \A i \in 1..Len(s) : i \in 1..Len(v) /\ i \in 1..Len(u) - 7
  BY SMT, <1>3, <1>5, <1>6
<1>8. u[Len(s) + 1] = at
  BY <1>1, <1>4, <1>7 DEF Joined
<1>9. ASSUME NEW k \in 1..6 PROVE u[Len(u) + 1 - k] = regs[CtxPops[k]]
  <2>1. 7 - k \in 1..Len(w) /\ Len(u) + 1 - k = Len(v) + (7 - k)
    BY <1>2, <1>7
  <2>2. u[Len(v) + (7 - k)] = w[7 - k]
    BY <1>4, <2>1 DEF Joined
  <2>3. w[7 - k] = regs[CtxPops[k]]
    BY <1>2
  <2>. QED BY <2>1, <2>2, <2>3
<1>10. Drop(u, 7) = s
  <2>1. IsSeq(Drop(u, 7)) /\ Len(Drop(u, 7)) = Len(u) - 7 /\ \A i \in 1..Len(u) - 7 : Drop(u, 7)[i] = u[i]
    BY <1>6, <1>7, Dropped
  <2>2. \A i \in 1..Len(s) : v[i] = s[i]
    BY <1>1 DEF Extended, Agree
  <2>3. \A i \in 1..Len(s) : u[i] = v[i]
    BY <1>4, <1>7 DEF Joined
  <2>4. Agree(s, Drop(u, 7), Len(s)) /\ Len(Drop(u, 7)) = Len(s) /\ IsSeq(Drop(u, 7))
    BY <1>7, <2>1, <2>2, <2>3 DEF Agree
  <2>. QED BY <2>4, Equal
<1>11. Switched(s, u, at)
  BY <1>6, <1>7, <1>8, <1>9, <1>10 DEF Switched
<1>. QED BY <1>11 DEF u, v, w

\* What the assignments of sched_ctxsw do to the two stacks.
LEMMA TwoStacks ==
  ASSUME Inv, NEW to \in Stacks, to # cur, NEW u, IsSeq(u), NEW w, IsSeq(w),
         stack' = [stack EXCEPT ![cur] = u, ![to] = w], trapped' = trapped
  PROVE  /\ stack' = [t \in Stacks |-> stack'[t]] /\ trapped' = [t \in Stacks |-> trapped'[t]]
         /\ \A t \in Stacks : IsSeq(stack'[t]) /\ IsSeq(trapped'[t])
         /\ stack'[cur] = u /\ stack'[to] = w
         /\ \A t \in Stacks : t # cur /\ t # to => stack'[t] = stack[t]
<1>1. /\ stack = [t \in Stacks |-> stack[t]] /\ trapped = [t \in Stacks |-> trapped[t]]
      /\ \A t \in Stacks : IsSeq(stack[t]) /\ IsSeq(trapped[t])
      /\ cur \in Stacks
  BY DEF Inv, TInv
<1>2. DOMAIN stack = Stacks
  BY <1>1
<1>3. /\ stack' = [t \in Stacks |-> stack'[t]]
      /\ stack'[cur] = u /\ stack'[to] = w
      /\ \A t \in Stacks : t # cur /\ t # to => stack'[t] = stack[t]
  <2> DEFINE s == [stack EXCEPT ![cur] = u]
  <2>1. DOMAIN s = Stacks /\ s[cur] = u /\ \A t \in Stacks : t # cur => s[t] = stack[t]
    BY <1>1, <1>2
  <2>2. stack' = [s EXCEPT ![to] = w]
    OBVIOUS
  <2> HIDE DEF s
  <2>. QED BY <1>1, <2>1, <2>2
<1>. QED BY <1>1, <1>3

-----------------------------------------------------------------------------
(* What a trap has on the stack stays there under what is pushed on it     *)

\* How far up the words of a trap reach.
LEMMA BaseNat ==
  ASSUME NEW s, NEW trap, Trap(trap), NEW e, Base(s, trap, e)
  PROVE  e \in Nat /\ e >= 5 /\ Len(trap.stack) \in Nat /\ e >= Len(trap.stack) + 5
<1>1. Len(trap.stack) \in Nat
  BY Sequence DEF Trap
<1>2. e \in {Len(trap.stack) + 5, Len(trap.stack) + 6}
  BY DEF Base
<1>. QED BY SMT, <1>1, <1>2

\* The processor's words.
LEMMA BaseKept ==
  ASSUME NEW s, NEW u, NEW trap, Trap(trap), NEW e, Base(s, trap, e),
         NEW d \in Nat, d >= e, Agree(s, u, d)
  PROVE  Base(u, trap, e)
<1> DEFINE b == Len(trap.stack)
<1>1. e \in Nat /\ e >= 5 /\ b \in Nat /\ e >= b + 5
  BY BaseNat
<1> HIDE DEF b
<1>2. e \in 1..d /\ e - 2 \in 1..d /\ e - 3 \in 1..d /\ \A i \in 1..b : i \in 1..d
  BY SMT, <1>1
<1>. QED BY <1>2 DEF Base, Agree, b

\* The stub's words, and those of trap_enter_all.
LEMMA PushesKept ==
  ASSUME NEW s, NEW u, NEW trap, NEW e \in Nat, NEW f, NEW n \in Nat,
         NEW d \in Nat, d >= (e + 2) + n, Agree(s, u, d)
  PROVE  /\ Tagged(s, trap, e) => Tagged(u, trap, e)
         /\ Kept(s, e, f, n) => Kept(u, e, f, n)
<1>1. e + 1 \in 1..d /\ e + 2 \in 1..d /\ \A j \in 1..n : (e + 2) + j \in 1..d
  BY SMT
<1>2. Tagged(s, trap, e) => Tagged(u, trap, e)
  BY <1>1 DEF Tagged, Agree
<1>3. Kept(s, e, f, n) => Kept(u, e, f, n)
  BY <1>1 DEF Kept, Agree
<1>. QED BY <1>2, <1>3

\* The trap frame.
LEMMA FramedKept ==
  ASSUME NEW s, NEW u, NEW trap, NEW e \in Nat, NEW l,
         NEW d \in Nat, d >= e + 17, Agree(s, u, d), Framed(s, trap, e, l)
  PROVE  Framed(u, trap, e, l)
<1>1. 14 \in Nat /\ d >= (e + 2) + 14 /\ e + 17 \in 1..d
  BY SMT
<1>2. Tagged(u, trap, e) /\ Kept(u, e, trap.regs, 14)
  BY <1>1, PushesKept DEF Framed
<1>3. u[e + 17] = s[e + 17]
  BY <1>1 DEF Agree
<1>. QED BY <1>2, <1>3 DEF Framed

\* The frame of handle_interrupt.
LEMMA BodyKept ==
  ASSUME NEW s, NEW u, NEW trap, NEW e \in Nat, NEW l,
         NEW d \in Nat, d >= e + 20, Agree(s, u, d), Body(s, trap, e, l)
  PROVE  Body(u, trap, e, l)
<1>1. d >= e + 17 /\ e + 18 \in 1..d /\ e + 20 \in 1..d
  BY SMT
<1>2. Framed(u, trap, e, l)
  BY <1>1, FramedKept DEF Body
<1>. QED BY <1>1, <1>2 DEF Body, Agree

-----------------------------------------------------------------------------
(* Where a thread is                                                       *)

\* The place inside a trap tells which of the cases it is.
LEMMA Spots ==
  ASSUME NEW t, NEW n, NEW s, NEW trap, NEW e, NEW at, NEW f, Spot(t, n, s, trap, e, at, f)
  PROVE  /\ at[1] = "vector" => InStub(s, trap, e, at, f)
         /\ at[1] = "vector_number" => InNumber(s, trap, e, at, f)
         /\ at[1] = "trap_enter_all" => InEnter(s, trap, e, at, f) \/ AtCall(s, trap, e, at, f)
         /\ at[1] = "handle_interrupt" => AtHandler(s, trap, e, at, f)
         /\ at[1] \in InHandler => InBody(t, n, s, trap, e, at, f)
         /\ at[1] = "switched in" => InYield(t, n, s, trap, e, at, f)
         /\ at[1] = "return_from_isr" => InReturn(s, trap, e, at, f) \/ AtIretq(s, trap, e, at, f)
         /\ at[1] = "proc_kentry" => AtBirth(s, trap, e, at)
         /\ at[1] # "main" /\ at[1] # "enable_interrupt" /\ at[1] # "sched_start"
<1> DEFINE A == InStub(s, trap, e, at, f)
           B == InNumber(s, trap, e, at, f)
           C == InEnter(s, trap, e, at, f) \/ AtCall(s, trap, e, at, f)
           D == AtHandler(s, trap, e, at, f)
           E == InBody(t, n, s, trap, e, at, f)
           F == InYield(t, n, s, trap, e, at, f)
           G == InReturn(s, trap, e, at, f) \/ AtIretq(s, trap, e, at, f)
           H == AtBirth(s, trap, e, at)
<1>1. A \/ B \/ C \/ D \/ E \/ F \/ G \/ H
  BY DEF Spot
<1>2. A => at[1] = "vector"
  BY Places DEF InStub
<1>3. B => at[1] = "vector_number"
  <2>1. B => at = Place("vector_number", trap.vector)
    BY DEF InNumber
  <2> HIDE DEF B
  <2>. QED BY SMT, <2>1 DEF Place
<1>4. C => at[1] = "trap_enter_all"
  <2>1. InEnter(s, trap, e, at, f) => at[1] = "trap_enter_all"
    <3>1. InEnter(s, trap, e, at, f) => \E k : at = Place("trap_enter_all", k)
      BY DEF InEnter
    <3>2. \A k : Place("trap_enter_all", k)[1] = "trap_enter_all"
      BY Places
    <3>. QED BY <3>1, <3>2
  <2>2. AtCall(s, trap, e, at, f) => at[1] = "trap_enter_all"
    <3>1. AtCall(s, trap, e, at, f) => \E k : at = Place("trap_enter_all", k)
      BY DEF AtCall
    <3>2. \A k : Place("trap_enter_all", k)[1] = "trap_enter_all"
      BY Places
    <3>. QED BY <3>1, <3>2
  <2>. QED BY <2>1, <2>2
<1>5. D => at[1] = "handle_interrupt"
  BY Places DEF AtHandler
<1>6. E => at[1] \in InHandler
  BY Places DEF InBody
<1>7. F => at[1] = "switched in"
  BY Places DEF InYield
<1>8. G => at[1] = "return_from_isr"
  <2>1. InReturn(s, trap, e, at, f) => at[1] = "return_from_isr"
    <3>1. InReturn(s, trap, e, at, f) => \E k : at = Place("return_from_isr", k)
      BY DEF InReturn
    <3>2. \A k : Place("return_from_isr", k)[1] = "return_from_isr"
      BY Places
    <3>. QED BY <3>1, <3>2
  <2>2. AtIretq(s, trap, e, at, f) => at[1] = "return_from_isr"
    <3>1. AtIretq(s, trap, e, at, f) => \E k : at = Place("return_from_isr", k)
      BY DEF AtIretq
    <3>2. \A k : Place("return_from_isr", k)[1] = "return_from_isr"
      BY Places
    <3>. QED BY <3>1, <3>2
  <2>. QED BY <2>1, <2>2
<1>9. H => at[1] = "proc_kentry"
  BY Places DEF AtBirth
<1> HIDE DEF A, B, C, D, E, F, G, H
<1>10. /\ (at[1] = "vector" => A) /\ (at[1] = "vector_number" => B) /\ (at[1] = "trap_enter_all" => C)
       /\ (at[1] = "handle_interrupt" => D) /\ (at[1] \in InHandler => E)
       /\ (at[1] = "switched in" => F) /\ (at[1] = "return_from_isr" => G)
       /\ (at[1] = "proc_kentry" => H)
       /\ at[1] # "main" /\ at[1] # "enable_interrupt" /\ at[1] # "sched_start"
  BY <1>1, <1>2, <1>3, <1>4, <1>5, <1>6, <1>7, <1>8, <1>9 DEF InHandler
<1>. QED BY <1>10 DEF A, B, C, D, E, F, G, H

\* In the handler the label tells how far.
LEMMA InBodyAt ==
  ASSUME NEW t, NEW n, NEW s, NEW trap, NEW e, NEW l \in InHandler, NEW f,
         Spot(t, n, s, trap, e, At(l), f)
  PROVE  Handling(t, n, s, trap, e, l, f)
<1>1. At(l)[1] \in InHandler
  BY Places
<1>2. InBody(t, n, s, trap, e, At(l), f)
  BY <1>1, Spots
<1>. QED BY <1>2, Places DEF InBody

\* A place by itself.
LEMMA PlaceOf == \A l, k : Place(l, k)[1] = l /\ Place(l, k)[2] = k
BY Places

\* Two places.
LEMMA SamePlace == \A l, k, m, n : Place(l, k) = Place(m, n) => l = m /\ k = n
BY Places

\* Where interrupts may be on.
LEMMA OpenPlace ==
  ASSUME NEW l, NEW k, l # "switched in", l # "proc_kentry"
  PROVE  Open(Place(l, k))
<1>1. At("switched in")[1] = "switched in" /\ At("proc_kentry")[1] = "proc_kentry"
  BY Places
<1>2. Place(l, k)[1] = l
  BY PlaceOf
<1>. QED BY <1>1, <1>2 DEF Open

\* At a label.
LEMMA OpenAt ==
  ASSUME NEW l, l # "switched in", l # "proc_kentry"
  PROVE  Open(At(l))
BY Places DEF Open

\* How far trap_enter_all is.
LEMMA InEnterAt ==
  ASSUME NEW t, NEW n, NEW s, NEW trap, NEW e, NEW k, NEW f,
         Spot(t, n, s, trap, e, Place("trap_enter_all", k), f)
  PROVE  /\ k # 16 => Entering(s, trap, e, f, k)
         /\ k = 16 => AtCall(s, trap, e, Place("trap_enter_all", k), f)
<1> DEFINE at == Place("trap_enter_all", k)
<1>1. at[1] = "trap_enter_all"
  BY PlaceOf
<1>2. InEnter(s, trap, e, at, f) \/ AtCall(s, trap, e, at, f)
  <2> HIDE DEF at
  <2>1. Spot(t, n, s, trap, e, at, f)
    BY DEF at
  <2>. QED BY <1>1, <2>1, Spots
<1>3. CASE AtCall(s, trap, e, at, f)
  <2> DEFINE m == 16
  <2>1. Place("trap_enter_all", k) = Place("trap_enter_all", m)
    BY <1>3 DEF AtCall
  <2> HIDE DEF m
  <2>2. k = m
    BY SMT, <2>1 DEF Place
  <2>. QED BY <1>3, <2>2 DEF m
<1>4. CASE InEnter(s, trap, e, at, f)
  <2>1. PICK j \in 0..15 : Place("trap_enter_all", k) = Place("trap_enter_all", j) /\ Entering(s, trap, e, f, j)
    BY <1>4 DEF InEnter
  <2>2. k = j
    BY SMT, <2>1 DEF Place
  <2>3. j # 16
    BY SMT
  <2>. QED BY <2>1, <2>2, <2>3
<1>. QED BY <1>2, <1>3, <1>4

\* How far return_from_isr is.
LEMMA InReturnAt ==
  ASSUME NEW t, NEW n, NEW s, NEW trap, NEW e, NEW k, NEW f,
         Spot(t, n, s, trap, e, Place("return_from_isr", k), f)
  PROVE  /\ k # 16 => Returning(s, trap, e, f, k)
         /\ k = 16 => AtIretq(s, trap, e, Place("return_from_isr", k), f)
<1> DEFINE at == Place("return_from_isr", k)
<1>1. at[1] = "return_from_isr"
  BY PlaceOf
<1>2. InReturn(s, trap, e, at, f) \/ AtIretq(s, trap, e, at, f)
  <2> HIDE DEF at
  <2>1. Spot(t, n, s, trap, e, at, f)
    BY DEF at
  <2>. QED BY <1>1, <2>1, Spots
<1>3. CASE AtIretq(s, trap, e, at, f)
  <2> DEFINE m == 16
  <2>1. Place("return_from_isr", k) = Place("return_from_isr", m)
    BY <1>3 DEF AtIretq
  <2> HIDE DEF m
  <2>2. k = m
    BY SMT, <2>1 DEF Place
  <2>. QED BY <1>3, <2>2 DEF m
<1>4. CASE InReturn(s, trap, e, at, f)
  <2>1. PICK j \in 0..15 : Place("return_from_isr", k) = Place("return_from_isr", j) /\ Returning(s, trap, e, f, j)
    BY <1>4 DEF InReturn
  <2>2. k = j
    BY SMT, <2>1 DEF Place
  <2>3. j # 16
    BY SMT
  <2>. QED BY <2>1, <2>2, <2>3
<1>. QED BY <1>2, <1>3, <1>4

\* Outside a trap.
LEMMA HomePlace == \A t : Home(t)[1] = IF t = Scheduler THEN "enable_interrupt" ELSE "main"
BY Places DEF Home

\* No thread is in sched_start.
LEMMA LivePlace ==
  ASSUME NEW t, NEW s, NEW T, NEW at, NEW f, NEW i, Live(t, s, T, at, f, i)
  PROVE  at # At("sched_start")
<1>1. ASSUME at = Home(t) PROVE at[1] # "sched_start"
  BY <1>1, HomePlace
<1>2. ASSUME NEW n, NEW trap, Level(t, n, s, trap, at, f) PROVE at[1] # "sched_start"
  <2>1. PICK e : Spot(t, n, s, trap, e, at, f)
    BY <1>2 DEF Level
  <2>. QED BY <2>1, Spots
<1>3. at[1] # "sched_start"
  BY <1>1, <1>2 DEF Live, Lone
<1>. QED BY <1>3, Places

\* A step of the running thread, which stays the running one.
LEMMA Stay ==
  ASSUME Inv, pc # At("sched_start"), cur' = cur,
         NEW u, stack' = [stack EXCEPT ![cur] = u], IsSeq(u),
         NEW T, trapped' = [trapped EXCEPT ![cur] = T], IsSeq(T),
         if' \in BOOLEAN, IsRegs(regs'), Live(cur, u, T, pc', regs', if')
  PROVE  Inv'
<1>1. cur \in Stacks
  BY DEF Inv, TInv
<1>2. /\ stack = [t \in Stacks |-> stack[t]] /\ trapped = [t \in Stacks |-> trapped[t]]
      /\ \A t \in Stacks : IsSeq(stack[t]) /\ IsSeq(trapped[t])
  BY DEF Inv, TInv
<1>3. /\ stack' = [t \in Stacks |-> stack'[t]] /\ trapped' = [t \in Stacks |-> trapped'[t]]
      /\ stack'[cur] = u /\ trapped'[cur] = T
      /\ \A t \in Stacks : t # cur => stack'[t] = stack[t] /\ trapped'[t] = trapped[t]
  <2>1. DOMAIN stack = Stacks /\ DOMAIN trapped = Stacks
    BY <1>2
  <2>. QED BY <1>1, <2>1
<1>4. TInv'
  BY <1>1, <1>2, <1>3 DEF TInv, Stacks
<1>5. Running'
  <2>1. Scheduler \in Stacks
    BY DEF Stacks
  <2>. QED BY <1>3, <2>1 DEF Running, Inv
<1>6. pc' # At("sched_start")
  BY LivePlace
<1>7. ASSUME NEW t \in Threads, t # cur PROVE Parked(t, stack'[t], trapped'[t])
  <2>1. t \in Stacks
    BY DEF Stacks
  <2>. QED BY <1>3, <1>7, <2>1 DEF Inv
<1>. QED BY <1>4, <1>5, <1>6, <1>7 DEF Inv

\* Outside a trap a thread has nothing on its stack.
LEMMA Outer ==
  ASSUME Inv, NEW l \in {"main", "enable_interrupt"}, pc = At(l)
  PROVE  /\ pc # At("sched_start") /\ Len(trapped[cur]) = 0 /\ S = <<>> /\ if /\ pc = Home(cur)
         /\ S = stack[cur] /\ IsSeq(S) /\ IsSeq(trapped[cur]) /\ IsRegs(regs)
<1>1. pc[1] = l /\ pc # At("sched_start")
  BY Places
<1>2. cur \in Stacks /\ IsSeq(stack[cur]) /\ IsSeq(trapped[cur]) /\ IsRegs(regs)
  BY DEF Inv, TInv
<1>3. ASSUME NEW n, NEW s, NEW trap, Level(cur, n, s, trap, pc, regs) PROVE FALSE
  <2>1. PICK e : Spot(cur, n, s, trap, e, pc, regs)
    BY <1>3 DEF Level
  <2>. QED BY <1>1, <2>1, Spots
<1>4. Live(cur, stack[cur], trapped[cur], pc, regs, if)
  BY <1>1 DEF Inv, Running
<1>5. Len(trapped[cur]) = 0 /\ stack[cur] = <<>> /\ pc = Home(cur) /\ if
  BY <1>3, <1>4 DEF Live, Lone
<1>. QED BY <1>1, <1>2, <1>5 DEF S

\* Inside a trap.
LEMMA Inner ==
  ASSUME Inv, pc[1] \notin {"main", "enable_interrupt", "sched_start"}
  PROVE  /\ pc # At("sched_start") /\ Len(trapped[cur]) \in {1, 2} /\ (Len(trapped[cur]) = 2 => ~if)
         /\ IsSeq(S) /\ IsSeq(trapped[cur]) /\ IsRegs(regs) /\ if \in BOOLEAN /\ Len(S) \in Nat
         /\ Trap(Top(trapped[cur]))
         /\ \E e \in Nat : /\ Base(S, Top(trapped[cur]), e)
                           /\ Spot(cur, Len(trapped[cur]), S, Top(trapped[cur]), e, pc, regs)
         /\ (Top(trapped[cur]).vector = SYSCALL => cur # Scheduler)
<1> DEFINE T == trapped[cur]
<1>1. pc # At("sched_start")
  BY SMT DEF At, Place
<1>2. S = stack[cur] /\ IsSeq(S) /\ IsSeq(T) /\ IsRegs(regs) /\ if \in BOOLEAN /\ Len(S) \in Nat
  <2>1. cur \in Stacks /\ IsSeq(stack[cur]) /\ IsSeq(T) /\ IsRegs(regs) /\ if \in BOOLEAN
    BY DEF Inv, TInv
  <2>. QED BY <2>1, Sequence DEF S
<1>3. Live(cur, S, T, pc, regs, if)
  BY <1>1, <1>2 DEF Inv, Running
<1>4. pc # Home(cur)
  BY HomePlace
<1>5. /\ Len(T) \in {1, 2} /\ (Len(T) = 2 => ~if) /\ Level(cur, Len(T), S, Top(T), pc, regs)
      /\ (Top(T).vector = SYSCALL => cur # Scheduler)
  <2>1. CASE Len(T) = 0 /\ S = <<>> /\ pc = Home(cur) /\ if
    BY <1>4, <2>1
  <2>2. CASE Len(T) = 1 /\ Lone(cur, S, T[1], pc, regs) /\ (if => Open(pc))
    <3>1. 1 # 2
      BY SMT
    <3>. QED BY <2>2, <3>1 DEF Lone, Top
  <2>3. CASE /\ Len(T) = 2 /\ ~if /\ Level(cur, 2, S, T[2], pc, regs)
             /\ T[2].vector # SYSCALL /\ T[2].if /\ Open(T[2].pc)
             /\ Lone(cur, T[2].stack, T[1], T[2].pc, T[2].regs)
    BY <2>3 DEF Top
  <2> HIDE DEF T
  <2>. QED BY <1>3, <2>1, <2>2, <2>3 DEF Live
<1> HIDE DEF T
<1>6. PICK e \in {Len(Top(T).stack) + 5, Len(Top(T).stack) + 6} :
        Base(S, Top(T), e) /\ Spot(cur, Len(T), S, Top(T), e, pc, regs)
  BY <1>5 DEF Level
<1>7. Trap(Top(T))
  BY <1>5 DEF Level
<1>8. e \in Nat
  BY <1>6, <1>7, BaseNat
<1>. QED BY <1>1, <1>2, <1>5, <1>6, <1>7, <1>8 DEF T

\* A step inside a trap.
LEMMA Inside ==
  ASSUME Inv, pc[1] \notin {"main", "enable_interrupt", "sched_start"}, cur' = cur,
         NEW u, stack' = [stack EXCEPT ![cur] = u], IsSeq(u), trapped' = trapped,
         if' \in BOOLEAN, Len(trapped[cur]) = 2 => ~if', IsRegs(regs'), if' => Open(pc'),
         NEW e, Base(u, Top(trapped[cur]), e),
         Spot(cur, Len(trapped[cur]), u, Top(trapped[cur]), e, pc', regs')
  PROVE  Inv'
<1> DEFINE T == trapped[cur]
           trap == Top(trapped[cur])
<1>1. pc # At("sched_start") /\ IsSeq(T) /\ Trap(trap)
  BY Inner
<1>2. Level(cur, Len(T), u, trap, pc', regs')
  <2>1. e \in {Len(trap.stack) + 5, Len(trap.stack) + 6}
    BY DEF Base
  <2>. QED BY <1>1, <2>1 DEF Level
<1>3. Live(cur, stack[cur], T, pc, regs, if)
  BY <1>1 DEF Inv, Running
<1>4. pc # Home(cur)
  BY HomePlace
<1>5. trapped' = [trapped EXCEPT ![cur] = T]
  <2>1. trapped = [t \in Stacks |-> trapped[t]]
    BY DEF Inv, TInv
  <2>. QED BY <2>1
<1>6. Live(cur, u, T, pc', regs', if')
  <2>1. CASE Len(T) = 0 /\ stack[cur] = <<>> /\ pc = Home(cur) /\ if
    BY <1>4, <2>1
  <2>2. CASE Len(T) = 1 /\ Lone(cur, stack[cur], T[1], pc, regs) /\ (if => Open(pc))
    <3>1. trap = T[1]
      BY <2>2 DEF Top
    <3>. QED BY <1>2, <2>2, <3>1 DEF Live, Lone
  <2>3. CASE /\ Len(T) = 2 /\ ~if /\ Level(cur, 2, stack[cur], T[2], pc, regs)
             /\ T[2].vector # SYSCALL /\ T[2].if /\ Open(T[2].pc)
             /\ Lone(cur, T[2].stack, T[1], T[2].pc, T[2].regs)
    <3>1. trap = T[2]
      BY <2>3 DEF Top
    <3>. QED BY <1>2, <2>3, <3>1 DEF Live
  <2> HIDE DEF T, trap
  <2>. QED BY <1>3, <2>1, <2>2, <2>3 DEF Live
<1> HIDE DEF T
<1>. QED BY <1>1, <1>5, <1>6, Stay

\* What a step leaves alone.
LEMMA Alone ==
  ASSUME Inv
  PROVE  stack = [stack EXCEPT ![cur] = S] /\ trapped = [trapped EXCEPT ![cur] = trapped[cur]]
<1>1. stack = [t \in Stacks |-> stack[t]] /\ trapped = [t \in Stacks |-> trapped[t]]
  BY DEF Inv, TInv
<1>. QED BY <1>1 DEF S

\* push
LEMMA Pushes1 ==
  ASSUME IsSeq(S), NEW w, Push(w)
  PROVE  \E u : /\ stack' = [stack EXCEPT ![cur] = u] /\ Extended(S, u, 1) /\ u[Len(S) + 1] = w
<1> DEFINE u == Append(S, w)
<1>1. stack' = [stack EXCEPT ![cur] = u]
  BY DEF Push, S
<1>2. Extended(S, u, 1) /\ u[Len(S) + 1] = w
  BY Recorded DEF Extended, Agree
<1> HIDE DEF u
<1>. QED BY <1>1, <1>2

\* Compiled code leaves values in the registers.
LEMMA ScratchRegs ==
  ASSUME NEW l
  PROVE  /\ IsRegs(Scratch(l))
         /\ \A r \in Regs : Scratch(l)[r] = <<"reg", <<cur, r, l, Len(trapped[cur])>>>>
<1>1. \A r \in Regs : Scratch(l)[r] = <<"reg", <<cur, r, l, Len(trapped[cur])>>>>
  BY DEF Scratch
<1>. QED BY <1>1 DEF Scratch, IsRegs

-----------------------------------------------------------------------------
(* The pushes of a trap                                                    *)

\* push 0; push v
LEMMA VectorInv == ASSUME Inv, Vector PROVE Inv'
<1> DEFINE T == trapped[cur]
           trap == Top(trapped[cur])
           n == Len(trapped[cur])
           v == trap.vector
<1>1. cur' = cur /\ regs' = regs /\ if' = if /\ trapped' = trapped
  BY DEF Vector
<1>2. pc[1] = "vector" \/ pc[1] = "vector_number"
  BY DEF Vector
<1>3. pc[1] \notin {"main", "enable_interrupt", "sched_start"}
  BY <1>2
<1>4. /\ (n = 2 => ~if) /\ IsSeq(S) /\ IsRegs(regs) /\ if \in BOOLEAN /\ Len(S) \in Nat
      /\ Trap(trap)
  BY <1>3, Inner
<1>5. PICK e \in Nat : Base(S, trap, e) /\ Spot(cur, n, S, trap, e, pc, regs)
  BY <1>3, Inner
<1>6. ErrorCode = {8, 10, 11, 12, 13, 14, 17}
  BY DEF ErrorCode
<1>7. CASE /\ pc[1] = "vector" /\ pc[2] \notin ErrorCode
           /\ Push(Num(0))
           /\ pc' = Place("vector_number", pc[2])
  <2>1. InStub(S, trap, e, pc, regs)
    BY <1>5, <1>7, Spots
  <2>2. pc[2] = v /\ Entry(trap, regs) /\ Len(S) = e /\ v \notin ErrorCode
    <3>1. pc = Place("vector", v) /\ Entry(trap, regs)
      BY <2>1 DEF InStub
    <3>2. pc[2] = v
      BY SMT, <3>1 DEF Place
    <3>. QED BY <1>7, <2>1, <3>1, <3>2 DEF InStub
  <2>3. PICK u : stack' = [stack EXCEPT ![cur] = u] /\ Extended(S, u, 1) /\ u[Len(S) + 1] = Num(0)
    BY <1>4, <1>7, Pushes1
  <2>4. IsSeq(u) /\ Len(u) = e + 1 /\ Agree(S, u, e) /\ u[e + 1] = ErrorWord(v)
    BY <2>2, <2>3 DEF Extended, ErrorWord
  <2>5. e >= e
    BY SMT
  <2>6. Base(u, trap, e)
    BY <1>4, <1>5, <2>4, <2>5, BaseKept
  <2>7. InNumber(u, trap, e, pc', regs')
    BY <1>1, <1>7, <2>2, <2>4 DEF InNumber
  <2>8. Spot(cur, n, u, trap, e, pc', regs')
    BY <2>7 DEF Spot
  <2>9. Open(pc')
    BY <1>7, OpenPlace
  <2>. QED BY <1>1, <1>3, <1>4, <2>3, <2>4, <2>6, <2>8, <2>9, Inside
<1>8. CASE /\ \/ pc[1] = "vector" /\ pc[2] \in ErrorCode
              \/ pc[1] = "vector_number"
           /\ Push(Num(pc[2]))
           /\ pc' = At("trap_enter_all")
  <2>1. pc[2] = v /\ Entry(trap, regs) /\ Len(S) = e + 1 /\ S[e + 1] = ErrorWord(v)
    <3>1. CASE pc[1] = "vector" /\ pc[2] \in ErrorCode
      <4>1. InStub(S, trap, e, pc, regs)
        BY <1>5, <3>1, Spots
      <4>2. pc = Place("vector", v) /\ Entry(trap, regs)
        BY <4>1 DEF InStub
      <4>3. pc[2] = v
        BY SMT, <4>2 DEF Place
      <4>. QED BY <3>1, <4>1, <4>2, <4>3 DEF InStub
    <3>2. CASE pc[1] = "vector_number"
      <4>1. InNumber(S, trap, e, pc, regs)
        BY <1>5, <3>2, Spots
      <4>2. pc = Place("vector_number", v)
        BY <4>1 DEF InNumber
      <4>3. pc[2] = v
        BY SMT, <4>2 DEF Place
      <4>. QED BY <4>1, <4>3 DEF InNumber
    <3>. QED BY <1>8, <3>1, <3>2
  <2>2. PICK u : stack' = [stack EXCEPT ![cur] = u] /\ Extended(S, u, 1) /\ u[Len(S) + 1] = Num(pc[2])
    BY <1>4, <1>8, Pushes1
  <2>3. /\ (e + 1) + 1 = (e + 2) + 0 /\ (e + 1) + 1 = e + 2 /\ e + 1 \in Nat /\ e + 1 >= e
        /\ e + 1 \in 1..(e + 1) /\ 0 \in 0..15 /\ \A j : j \notin 1..0
    BY SMT
  <2>4. IsSeq(u) /\ Len(u) = (e + 2) + 0 /\ Agree(S, u, e + 1) /\ u[e + 2] = Num(v)
    BY <2>1, <2>2, <2>3 DEF Extended
  <2>5. Base(u, trap, e)
    BY <1>4, <1>5, <2>3, <2>4, BaseKept
  <2>6. u[e + 1] = ErrorWord(v)
    BY <2>1, <2>3, <2>4 DEF Agree
  <2>7. Entering(u, trap, e, regs, 0)
    BY <2>1, <2>3, <2>4, <2>6 DEF Entering, Tagged, Kept
  <2>8. pc' = Place("trap_enter_all", 0)
    BY <1>8, Places
  <2>9. Spot(cur, n, u, trap, e, pc', regs')
    BY <1>1, <2>3, <2>7, <2>8 DEF Spot, InEnter
  <2>10. Open(pc')
    BY <1>8, OpenAt
  <2>. QED BY <1>1, <1>3, <1>4, <2>2, <2>4, <2>5, <2>9, <2>10, Inside
<1>. QED BY <1>6, <1>7, <1>8 DEF Vector

\* One of the pushes.
LEMMA PushInv ==
  ASSUME Inv, NEW k \in 0..14, pc = Place("trap_enter_all", k), Push(regs[TrapPushes[k + 1]]),
         pc' = Place("trap_enter_all", k + 1), regs' = regs, cur' = cur, if' = if, trapped' = trapped
  PROVE  Inv'
<1> DEFINE trap == Top(trapped[cur])
           n == Len(trapped[cur])
<1>1. pc[1] = "trap_enter_all" /\ pc[2] = k
  BY PlaceOf
<1>2. pc[1] \notin {"main", "enable_interrupt", "sched_start"}
  BY <1>1
<1>3. /\ (n = 2 => ~if) /\ IsSeq(S) /\ IsRegs(regs) /\ if \in BOOLEAN /\ Len(S) \in Nat
      /\ Trap(trap)
  BY <1>2, Inner
<1>4. PICK e \in Nat : Base(S, trap, e) /\ Spot(cur, n, S, trap, e, pc, regs)
  BY <1>2, Inner
<1>5. k # 16 /\ k + 1 \in 0..15 /\ k \in Nat
  BY SMT
<1>6. Entering(S, trap, e, regs, k)
  BY <1>4, <1>5, InEnterAt
<1>7. PICK u : /\ stack' = [stack EXCEPT ![cur] = u] /\ Extended(S, u, 1)
               /\ u[Len(S) + 1] = regs[TrapPushes[k + 1]]
  BY <1>3, Pushes1
<1>8. /\ Len(S) = (e + 2) + k /\ Entry(trap, regs) /\ Tagged(S, trap, e) /\ Kept(S, e, regs, k)
  BY <1>6 DEF Entering
<1>9. /\ Len(S) + 1 = (e + 2) + (k + 1) /\ Len(S) >= e /\ Len(S) >= (e + 2) + k
      /\ \A j \in 1..(k + 1) : j \in 1..k \/ j = k + 1
  BY SMT, <1>8
<1>10. IsSeq(u) /\ Len(u) = (e + 2) + (k + 1) /\ Agree(S, u, Len(S))
  BY <1>7, <1>9 DEF Extended
<1>11. Base(u, trap, e)
  BY <1>3, <1>4, <1>9, <1>10, BaseKept
<1>12. Tagged(u, trap, e) /\ Kept(u, e, regs, k)
  BY <1>3, <1>5, <1>8, <1>9, <1>10, PushesKept
<1>13. Kept(u, e, regs, k + 1)
  BY <1>7, <1>9, <1>12 DEF Kept
<1>14. Entering(u, trap, e, regs, k + 1)
  BY <1>5, <1>8, <1>10, <1>12, <1>13 DEF Entering
<1>15. Spot(cur, n, u, trap, e, pc', regs')
  BY <1>5, <1>14 DEF Spot, InEnter
<1>16. Open(pc')
  BY OpenPlace
<1>. QED BY <1>2, <1>3, <1>7, <1>10, <1>11, <1>15, <1>16, Inside

\* mov rdi, rsp
LEMMA MovInv ==
  ASSUME Inv, pc = Place("trap_enter_all", 15), regs' = [regs EXCEPT !["rdi"] = Num(Len(S))],
         pc' = Place("trap_enter_all", 16), stack' = stack, cur' = cur, if' = if, trapped' = trapped
  PROVE  Inv'
<1> DEFINE trap == Top(trapped[cur])
           n == Len(trapped[cur])
<1>1. pc[1] = "trap_enter_all" /\ pc[2] = 15
  BY SMT DEF Place
<1>2. pc[1] \notin {"main", "enable_interrupt", "sched_start"}
  BY <1>1
<1>3. /\ (n = 2 => ~if) /\ IsSeq(S) /\ IsRegs(regs) /\ if \in BOOLEAN /\ Len(S) \in Nat
      /\ Trap(trap)
  BY <1>2, Inner
<1>4. PICK e \in Nat : Base(S, trap, e) /\ Spot(cur, n, S, trap, e, pc, regs)
  BY <1>2, Inner
<1>5. /\ 15 # 16 /\ 15 \in 1..15 /\ (e + 2) + 15 = e + 17
      /\ \A j \in 1..14 : j \in 1..15 /\ 16 - j \in 1..15 /\ 16 - j # 1 /\ 16 - (16 - j) = j
      /\ 1 \in 1..15 /\ 16 - 1 = 15
  BY SMT
<1>6. Entering(S, trap, e, regs, 15)
  BY <1>4, <1>5, InEnterAt
<1>7. /\ Len(S) = e + 17 /\ Entry(trap, regs) /\ Tagged(S, trap, e) /\ Kept(S, e, regs, 15)
  BY <1>5, <1>6 DEF Entering
<1>8. S[e + 17] = regs["rax"]
  <2>1. TrapPushes[15] = "rax"
    BY SMT DEF TrapPushes
  <2>. QED BY <1>5, <1>7, <2>1 DEF Kept
<1>9. ASSUME NEW j \in 1..14 PROVE S[(e + 2) + j] = trap.regs[TrapPushes[j]]
  <2>1. TrapPushes[j] = TrapPops[16 - j]
    BY <1>5, TrapOrder
  <2>2. TrapPops[16 - j] \in Regs \ {"rax"}
    BY <1>5, AllRegs, AllCalleeSaved
  <2>3. S[(e + 2) + j] = regs[TrapPushes[j]]
    BY <1>5, <1>7 DEF Kept
  <2>. QED BY <1>7, <2>1, <2>2, <2>3 DEF Entry
<1>10. Framed(S, trap, e, "handle_interrupt")
  <2>1. Pending(trap, S[e + 17])
    BY <1>7, <1>8 DEF Entry
  <2>. QED BY <1>7, <1>9, <2>1 DEF Framed, Kept, Rax
<1>11. IsRegs(regs') /\ regs'["rdi"] = Num(e + 17)
  <2>1. TrapPops[6] = "rdi" /\ 6 \in 1..15
    BY SMT DEF TrapPops
  <2>2. "rdi" \in Regs
    BY <2>1, AllRegs
  <2>. QED BY <1>3, <1>7, <2>2 DEF IsRegs
<1>12. AtCall(S, trap, e, pc', regs')
  BY <1>7, <1>10, <1>11 DEF AtCall
<1>13. Spot(cur, n, S, trap, e, pc', regs')
  BY <1>12 DEF Spot
<1>14. Open(pc')
  BY OpenPlace
<1>15. stack' = [stack EXCEPT ![cur] = S]
  BY Alone
<1>. QED BY <1>2, <1>3, <1>4, <1>11, <1>13, <1>14, <1>15, Inside

\* call handle_interrupt
LEMMA CallInv ==
  ASSUME Inv, pc = Place("trap_enter_all", 16), Push(At("return_from_isr")),
         pc' = At("handle_interrupt"), regs' = regs, cur' = cur, if' = if, trapped' = trapped
  PROVE  Inv'
<1> DEFINE trap == Top(trapped[cur])
           n == Len(trapped[cur])
<1>1. pc[1] = "trap_enter_all" /\ pc[2] = 16
  BY SMT DEF Place
<1>2. pc[1] \notin {"main", "enable_interrupt", "sched_start"}
  BY <1>1
<1>3. /\ (n = 2 => ~if) /\ IsSeq(S) /\ IsRegs(regs) /\ if \in BOOLEAN /\ Len(S) \in Nat
      /\ Trap(trap)
  BY <1>2, Inner
<1>4. PICK e \in Nat : Base(S, trap, e) /\ Spot(cur, n, S, trap, e, pc, regs)
  BY <1>2, Inner
<1>5. (e + 17) + 1 = e + 18 /\ e + 17 >= e /\ e + 17 >= e + 17 /\ e + 17 \in Nat
  BY SMT
<1>6. AtCall(S, trap, e, pc, regs)
  BY <1>4, InEnterAt
<1>7. /\ Len(S) = e + 17 /\ Framed(S, trap, e, "handle_interrupt") /\ regs["rdi"] = Num(e + 17)
  BY <1>6 DEF AtCall
<1>8. PICK u : /\ stack' = [stack EXCEPT ![cur] = u] /\ Extended(S, u, 1)
               /\ u[Len(S) + 1] = At("return_from_isr")
  BY <1>3, Pushes1
<1>9. IsSeq(u) /\ Len(u) = e + 18 /\ Agree(S, u, e + 17) /\ u[e + 18] = At("return_from_isr")
  BY <1>5, <1>7, <1>8 DEF Extended
<1>10. Base(u, trap, e)
  BY <1>3, <1>4, <1>5, <1>9, BaseKept
<1>11. Framed(u, trap, e, "handle_interrupt")
  BY <1>5, <1>7, <1>9, FramedKept
<1>12. AtHandler(u, trap, e, pc', regs')
  BY <1>7, <1>9, <1>11 DEF AtHandler
<1>13. Spot(cur, n, u, trap, e, pc', regs')
  BY <1>12 DEF Spot
<1>14. Open(pc')
  BY OpenAt
<1>. QED BY <1>2, <1>3, <1>8, <1>9, <1>10, <1>13, <1>14, Inside

\* trap_enter_all
LEMMA TrapEnterAllInv == ASSUME Inv, TrapEnterAll PROVE Inv'
<1>1. pc[1] = "trap_enter_all" /\ cur' = cur /\ if' = if /\ trapped' = trapped
  BY DEF TrapEnterAll
<1>2. PICK k \in 0..16 : pc = Place("trap_enter_all", k)
  <2>1. pc[1] \notin {"main", "enable_interrupt", "sched_start"}
    BY <1>1
  <2>2. PICK e \in Nat : Spot(cur, Len(trapped[cur]), S, Top(trapped[cur]), e, pc, regs)
    BY <2>1, Inner
  <2>3. InEnter(S, Top(trapped[cur]), e, pc, regs) \/ AtCall(S, Top(trapped[cur]), e, pc, regs)
    BY <1>1, <2>2, Spots
  <2>4. 16 \in 0..16 /\ \A j \in 0..15 : j \in 0..16
    BY SMT
  <2>. QED BY <2>3, <2>4 DEF InEnter, AtCall
<1>3. pc[2] = k
  BY <1>2, PlaceOf
<1>4. CASE /\ k < 15 /\ Push(regs[TrapPushes[k + 1]])
           /\ pc' = Place("trap_enter_all", k + 1) /\ regs' = regs
  <2>1. k \in 0..14
    BY SMT, <1>4
  <2>. QED BY <1>1, <1>2, <1>4, <2>1, PushInv
<1>5. CASE /\ k = 15 /\ regs' = [regs EXCEPT !["rdi"] = Num(Len(S))]
           /\ pc' = Place("trap_enter_all", 16) /\ stack' = stack
  BY <1>1, <1>2, <1>5, MovInv
<1>6. CASE /\ k = 16 /\ Push(At("return_from_isr")) /\ pc' = At("handle_interrupt") /\ regs' = regs
  BY <1>1, <1>2, <1>6, CallInv
<1>. QED BY <1>3, <1>4, <1>5, <1>6 DEF TrapEnterAll

-----------------------------------------------------------------------------
(* The handler                                                             *)

\* A field of the frame at a number.
LEMMA FieldIs ==
  ASSUME NEW e, NEW k
  PROVE  Field(Num(e), k) = S[e - k]
BY Places DEF Field

\* handle_interrupt is called.
LEMMA HandleInterruptInv == ASSUME Inv, HandleInterrupt PROVE Inv'
<1> DEFINE trap == Top(trapped[cur])
           n == Len(trapped[cur])
           w == <<"frame", [r \in CalleeSaved |-> regs[r]]>>
           x == regs["rdi"]
           u == S \o <<w, x>>
<1>1. /\ pc = At("handle_interrupt") /\ cur' = cur /\ if' = if /\ trapped' = trapped
      /\ stack' = [stack EXCEPT ![cur] = u] /\ regs' = Scratch("handler")
  BY DEF HandleInterrupt, S
<1>2. pc[1] = "handle_interrupt"
  BY <1>1, Places
<1>3. pc[1] \notin {"main", "enable_interrupt", "sched_start"}
  BY <1>2
<1>4. /\ (n = 2 => ~if) /\ IsSeq(S) /\ if \in BOOLEAN /\ Len(S) \in Nat /\ Trap(trap)
  BY <1>3, Inner
<1>5. PICK e \in Nat : Base(S, trap, e) /\ Spot(cur, n, S, trap, e, pc, regs)
  BY <1>3, Inner
<1>6. AtHandler(S, trap, e, pc, regs)
  BY <1>2, <1>5, Spots
<1>7. /\ Len(S) = e + 18 /\ S[e + 18] = At("return_from_isr") /\ x = Num(e + 17)
      /\ Framed(S, trap, e, "handle_interrupt")
  BY <1>6 DEF AtHandler
<1>8. /\ (e + 17) - 15 = e + 2 /\ (e + 18) + 2 = e + 20 /\ e + 18 \in Nat /\ e + 18 >= e
      /\ e + 18 >= e + 17 /\ e + 18 \in 1..(e + 18)
  BY SMT
<1>9. Field(x, TRAP_NO) = Num(trap.vector)
  <2> DEFINE d == e + 17
  <2> HIDE DEF d
  <2>1. Field(Num(d), 15) = S[d - 15]
    BY FieldIs
  <2>. QED BY <1>7, <1>8, <2>1 DEF d, TRAP_NO, Framed, Tagged
<1>10. PICK l \in {"tail", "handle_syscall", "panic"} :
         /\ pc' = At(l) /\ (l = "tail" => trap.vector # SYSCALL)
         /\ (l = "handle_syscall" => trap.vector = SYSCALL)
  <2> DEFINE no == Field(x, TRAP_NO)
             A == no \in {Num(v) : v \in {IRQ_SPURIOUS, BP, IRQ_0, IRQ_COM1}}
             B == no = Num(SYSCALL)
  <2>1. pc' = At(CASE A -> "tail" [] B -> "handle_syscall" [] OTHER -> "panic")
    BY DEF HandleInterrupt
  <2>2. SYSCALL \notin {IRQ_SPURIOUS, BP, IRQ_0, IRQ_COM1}
    BY SMT DEF SYSCALL, IRQ_SPURIOUS, BP, IRQ_0, IRQ_COM1
  <2>3. A => trap.vector # SYSCALL
    <3>1. ASSUME A PROVE trap.vector # SYSCALL
      <4>1. PICK v \in {IRQ_SPURIOUS, BP, IRQ_0, IRQ_COM1} : Num(trap.vector) = Num(v)
        BY <1>9, <3>1
      <4>2. trap.vector = v
        BY <4>1, Places
      <4>. QED BY <2>2, <4>2
    <3>. QED BY <3>1
  <2>4. B => trap.vector = SYSCALL
    BY <1>9, Places
  <2> HIDE DEF A, B
  <2>5. CASE A
    <3>1. ~B
      BY <2>3, <2>4, <2>5
    <3>2. (CASE A -> "tail" [] B -> "handle_syscall" [] OTHER -> "panic") = "tail"
      BY <2>5, <3>1
    <3>. QED BY <2>1, <2>3, <2>5, <3>2
  <2>6. CASE ~A /\ B
    <3>1. (CASE A -> "tail" [] B -> "handle_syscall" [] OTHER -> "panic") = "handle_syscall"
      BY <2>6
    <3>. QED BY <2>1, <2>4, <2>6, <3>1
  <2>7. CASE ~A /\ ~B
    <3>1. (CASE A -> "tail" [] B -> "handle_syscall" [] OTHER -> "panic") = "panic"
      BY <2>7
    <3>. QED BY <2>1, <3>1
  <2>. QED BY <2>5, <2>6, <2>7
<1>11. Extended(S, u, 2) /\ u[Len(S) + 1] = w /\ u[Len(S) + 2] = x
  <2> HIDE DEF w, x
  <2>1. TwoOn(S, S \o <<w, x>>, w, x)
    BY <1>4, PushTwo
  <2>. QED BY <2>1 DEF TwoOn
<1> HIDE DEF u, w, x
<1>12. IsSeq(u) /\ Len(u) = e + 20 /\ Agree(S, u, e + 18) /\ u[e + 20] = Num(e + 17)
  BY <1>7, <1>8, <1>11 DEF Extended
<1>13. Base(u, trap, e)
  BY <1>4, <1>5, <1>8, <1>12, BaseKept
<1>14. Framed(u, trap, e, "handle_interrupt")
  BY <1>7, <1>8, <1>12, FramedKept
<1>15. Body(u, trap, e, l)
  <2>1. Pending(trap, u[e + 17])
    BY <1>14 DEF Framed, Rax
  <2>2. Rax(u[e + 17], trap, l)
    BY <1>10, <2>1 DEF Rax, Pending
  <2>3. u[e + 18] = At("return_from_isr")
    BY <1>7, <1>8, <1>12 DEF Agree
  <2>. QED BY <1>12, <1>14, <2>2, <2>3 DEF Body, Framed
<1>16. HandlerRegs(cur, n, regs') /\ IsRegs(regs')
  BY <1>1, ScratchRegs, AllCalleeSaved DEF HandlerRegs
<1>17. Spot(cur, n, u, trap, e, pc', regs')
  <2>1. Handling(cur, n, u, trap, e, l, regs')
    BY <1>12, <1>15, <1>16 DEF Handling
  <2>. QED BY <1>10, <2>1 DEF Spot, InBody, InHandler
<1>18. Open(pc')
  BY <1>10, OpenAt
<1>. QED BY <1>1, <1>3, <1>4, <1>12, <1>13, <1>16, <1>17, <1>18, Inside

\* Where the handler is, and its argument.
LEMMA HandlerAt ==
  ASSUME Inv, NEW l \in InHandler, pc = At(l)
  PROVE  /\ pc[1] \notin {"main", "enable_interrupt", "sched_start"}
         /\ \E e \in Nat :
              /\ Base(S, Top(trapped[cur]), e) /\ Top(S) = Num(e + 17) /\ Field(Top(S), RAX) = S[e + 17]
              /\ Handling(cur, Len(trapped[cur]), S, Top(trapped[cur]), e, l, regs)
<1> DEFINE trap == Top(trapped[cur])
           n == Len(trapped[cur])
<1>1. pc[1] = l
  BY Places
<1>2. pc[1] \notin {"main", "enable_interrupt", "sched_start"}
  BY <1>1 DEF InHandler
<1>3. PICK e \in Nat : Base(S, trap, e) /\ Spot(cur, n, S, trap, e, pc, regs)
  BY <1>2, Inner
<1>4. Handling(cur, n, S, trap, e, l, regs)
  BY <1>3, InBodyAt
<1>5. Len(S) = e + 20 /\ S[e + 20] = Num(e + 17)
  BY <1>4 DEF Handling, Body
<1>6. Top(S) = Num(e + 17)
  BY <1>5 DEF Top
<1>7. Field(Top(S), RAX) = S[e + 17]
  <2> DEFINE d == e + 17
  <2>1. d - 0 = d
    BY SMT
  <2> HIDE DEF d
  <2>2. Field(Num(d), 0) = S[d - 0]
    BY FieldIs
  <2>. QED BY <1>6, <2>1, <2>2 DEF d, RAX
<1>. QED BY <1>2, <1>3, <1>4, <1>6, <1>7

\* A step from a label of the handler to another that leaves the stack alone.
LEMMA Walks ==
  ASSUME Inv, NEW l \in {"handle_syscall", "result", "tail"}, pc = At(l),
         NEW m \in InHandler, pc' = At(m), stack' = stack, cur' = cur, regs' = regs, if' = if,
         trapped' = trapped, \A w : Rax(w, Top(trapped[cur]), l) /\ w = Field(Top(S), RAX)
                                      => Rax(w, Top(trapped[cur]), m)
  PROVE  Inv'
<1> DEFINE trap == Top(trapped[cur])
           n == Len(trapped[cur])
<1>1. l \in InHandler
  BY DEF InHandler
<1>2. pc[1] \notin {"main", "enable_interrupt", "sched_start"}
  BY <1>1, HandlerAt
<1>3. PICK e \in Nat : /\ Base(S, trap, e) /\ Field(Top(S), RAX) = S[e + 17]
                       /\ Handling(cur, n, S, trap, e, l, regs)
  BY <1>1, HandlerAt
<1>4. /\ (n = 2 => ~if) /\ IsSeq(S) /\ if \in BOOLEAN /\ IsRegs(regs)
  BY <1>2, Inner
<1>5. Handling(cur, n, S, trap, e, m, regs)
  <2>1. Len(S) = e + 20 /\ HandlerRegs(cur, n, regs) /\ Body(S, trap, e, l)
    BY <1>3 DEF Handling
  <2>2. Rax(S[e + 17], trap, m)
    BY <1>3, <2>1 DEF Body, Framed
  <2>. QED BY <2>1, <2>2 DEF Handling, Body, Framed
<1>6. Spot(cur, n, S, trap, e, pc', regs')
  BY <1>5 DEF Spot, InBody
<1>7. Open(pc')
  BY OpenAt DEF InHandler
<1>8. stack' = [stack EXCEPT ![cur] = S]
  BY Alone
<1>. QED BY <1>2, <1>3, <1>4, <1>6, <1>7, <1>8, Inside

\* tf->rax = ...
LEMMA ResultInv == ASSUME Inv, Result PROVE Inv'
<1> DEFINE trap == Top(trapped[cur])
           n == Len(trapped[cur])
<1>1. pc = At("result") /\ pc' = At("tail") /\ cur' = cur /\ regs' = regs /\ if' = if /\ trapped' = trapped
  BY DEF Result
<1>2. "result" \in InHandler /\ "tail" \in InHandler
  BY DEF InHandler
<1>3. pc[1] \notin {"main", "enable_interrupt", "sched_start"}
  BY <1>1, <1>2, HandlerAt
<1>4. PICK e \in Nat : /\ Base(S, trap, e) /\ Top(S) = Num(e + 17)
                       /\ Handling(cur, n, S, trap, e, "result", regs)
  BY <1>1, <1>2, HandlerAt
<1>5. /\ (n = 2 => ~if) /\ IsSeq(S) /\ if \in BOOLEAN /\ IsRegs(regs) /\ Trap(trap)
  BY <1>3, Inner
<1>6. Len(S) = e + 20 /\ HandlerRegs(cur, n, regs) /\ Body(S, trap, e, "result")
  BY <1>4 DEF Handling
<1> DEFINE d == e + 17
           u == [S EXCEPT ![e + 17] = Num(0)]
<1>7. stack' = [stack EXCEPT ![cur] = u]
  <2>1. stack' = [stack EXCEPT ![cur][Top(S)[2] - RAX] = Num(0)]
    BY DEF Result
  <2>2. Top(S)[2] - RAX = e + 17
    <3>1. d \in Nat /\ d - 0 = d
      BY SMT
    <3> HIDE DEF d
    <3>2. Num(d)[2] = d
      BY Places
    <3>. QED BY <1>4, <3>1, <3>2 DEF RAX, d
  <2>. QED BY <2>1, <2>2 DEF S
<1>8. /\ e + 17 \in 1..(e + 20) /\ \A i \in 1..(e + 16) : i \in 1..(e + 20) /\ i # e + 17
      /\ e + 16 \in Nat /\ e + 16 >= e /\ e + 16 >= (e + 2) + 14 /\ 14 \in Nat
      /\ e + 18 \in 1..(e + 20) /\ e + 18 # e + 17 /\ e + 20 \in 1..(e + 20) /\ e + 20 # e + 17
  BY SMT
<1>9. Wrote(S, e + 17, Num(0), u)
  BY <1>5, <1>6, <1>8, Overwritten
<1> HIDE DEF u
<1>10. /\ IsSeq(u) /\ Len(u) = e + 20 /\ u[e + 17] = Num(0) /\ Agree(S, u, e + 16)
       /\ u[e + 18] = S[e + 18] /\ u[e + 20] = S[e + 20]
  BY <1>6, <1>8, <1>9 DEF Wrote, Agree
<1>11. Base(u, trap, e)
  BY <1>4, <1>5, <1>8, <1>10, BaseKept
<1>12. Tagged(u, trap, e) /\ Kept(u, e, trap.regs, 14)
  <2>1. Tagged(S, trap, e) /\ Kept(S, e, trap.regs, 14)
    BY <1>6 DEF Body, Framed
  <2> DEFINE c == e + 16
  <2>2. c \in Nat /\ c >= (e + 2) + 14 /\ 14 \in Nat /\ Agree(S, u, c)
    BY <1>8, <1>10
  <2> HIDE DEF c
  <2>. QED BY <2>1, <2>2, PushesKept
<1>13. Body(u, trap, e, "tail")
  <2>1. trap.regs["rax"] = Num(0)
    BY <1>6 DEF Body, Framed, Rax
  <2>2. Rax(u[e + 17], trap, "tail")
    BY <1>10, <2>1 DEF Rax
  <2>. QED BY <1>6, <1>10, <1>12, <2>2 DEF Body, Framed
<1>14. Spot(cur, n, u, trap, e, pc', regs')
  <2>1. Handling(cur, n, u, trap, e, "tail", regs')
    BY <1>1, <1>6, <1>10, <1>13 DEF Handling
  <2>. QED BY <1>1, <1>2, <2>1 DEF Spot, InBody
<1>15. Open(pc')
  BY <1>1, OpenAt
<1>. QED BY <1>1, <1>3, <1>5, <1>7, <1>10, <1>11, <1>14, <1>15, Inside

\* handle_interrupt returns.
LEMMA EpilogueInv == ASSUME Inv, Epilogue PROVE Inv'
<1> DEFINE trap == Top(trapped[cur])
           n == Len(trapped[cur])
           u == Drop(S, 3)
<1>1. /\ pc = At("epilogue") /\ pc' = S[Len(S) - 2] /\ cur' = cur /\ if' = if /\ trapped' = trapped
      /\ regs' = [r \in Regs |-> IF r \in CalleeSaved THEN S[Len(S) - 1][2][r] ELSE regs[r]]
      /\ stack' = [stack EXCEPT ![cur] = u]
  BY DEF Epilogue, S
<1>2. "epilogue" \in InHandler
  BY DEF InHandler
<1>3. pc[1] \notin {"main", "enable_interrupt", "sched_start"}
  BY <1>1, <1>2, HandlerAt
<1>4. PICK e \in Nat : Base(S, trap, e) /\ Handling(cur, n, S, trap, e, "epilogue", regs)
  BY <1>1, <1>2, HandlerAt
<1>5. /\ (n = 2 => ~if) /\ IsSeq(S) /\ if \in BOOLEAN /\ Trap(trap)
  BY <1>3, Inner
<1>6. Len(S) = e + 20 /\ Body(S, trap, e, "epilogue")
  BY <1>4 DEF Handling
<1>7. /\ 3 \in 0..(e + 20) /\ (e + 20) - 3 = e + 17 /\ (e + 20) - 2 = e + 18 /\ e + 17 \in Nat
      /\ e + 17 >= e /\ e + 17 >= (e + 2) + 14 /\ e + 17 \in 1..(e + 17)
      /\ (e + 2) + 15 = e + 17 /\ e + 17 - 0 = e + 17 /\ 15 - 0 = 15 /\ 0 \in 0..15 /\ 14 \in Nat
      /\ (\A j \in 1..15 : j \in 1..14 \/ j = 15) /\ (\A j : j \notin 1..0)
      /\ 1 \in 1..15 /\ 16 - 1 = 15
  BY SMT
<1>8. IsSeq(u) /\ Len(u) = e + 17 /\ Agree(S, u, e + 17)
  <2>1. 3 \in 0..Len(S)
    BY <1>6, <1>7
  <2>2. IsSeq(Drop(S, 3)) /\ Len(Drop(S, 3)) = Len(S) - 3 /\ \A i \in 1..Len(S) - 3 : Drop(S, 3)[i] = S[i]
    BY <1>5, <2>1, Dropped
  <2>. QED BY <1>6, <1>7, <2>2 DEF Agree
<1> HIDE DEF u
<1>9. Base(u, trap, e)
  BY <1>4, <1>5, <1>7, <1>8, BaseKept
<1>10. Kept(u, e, trap.regs, 15)
  <2>1. Kept(u, e, trap.regs, 14)
    BY <1>6, <1>7, <1>8, PushesKept DEF Body, Framed
  <2>2. S[e + 17] = trap.regs["rax"]
    BY <1>6 DEF Body, Framed, Rax
  <2>3. u[(e + 2) + 15] = trap.regs["rax"]
    BY <1>7, <1>8, <2>2 DEF Agree
  <2>4. TrapPushes[15] = "rax"
    BY SMT DEF TrapPushes
  <2>. QED BY <1>7, <2>1, <2>3, <2>4 DEF Kept
<1>11. pc' = Place("return_from_isr", 0)
  BY <1>1, <1>6, <1>7, Places DEF Body
<1>12. Returning(u, trap, e, regs', 0)
  BY <1>7, <1>8, <1>10 DEF Returning
<1>13. Spot(cur, n, u, trap, e, pc', regs')
  BY <1>7, <1>11, <1>12 DEF Spot, InReturn
<1>14. IsRegs(regs')
  <2>1. \A r \in Regs : regs'[r] = IF r \in CalleeSaved THEN S[Len(S) - 1][2][r] ELSE regs[r]
    BY <1>1
  <2>. QED BY <1>1, <2>1 DEF IsRegs
<1>15. Open(pc')
  BY <1>11, OpenPlace
<1>. QED BY <1>1, <1>3, <1>5, <1>8, <1>9, <1>13, <1>14, <1>15, Inside

-----------------------------------------------------------------------------
(* The return from a trap                                                  *)

\* One of the pops.
LEMMA PopInv ==
  ASSUME Inv, NEW k \in 0..14, pc = Place("return_from_isr", k),
         regs' = [regs EXCEPT ![TrapPops[k + 1]] = Top(S)],
         stack' = [stack EXCEPT ![cur] = Drop(@, 1)],
         pc' = Place("return_from_isr", k + 1), cur' = cur, if' = if, trapped' = trapped
  PROVE  Inv'
<1> DEFINE trap == Top(trapped[cur])
           n == Len(trapped[cur])
           u == Drop(S, 1)
           r == TrapPops[k + 1]
<1>1. pc[1] = "return_from_isr"
  BY PlaceOf
<1>2. pc[1] \notin {"main", "enable_interrupt", "sched_start"}
  BY <1>1
<1>3. /\ (n = 2 => ~if) /\ IsSeq(S) /\ IsRegs(regs) /\ if \in BOOLEAN /\ Trap(trap)
  BY <1>2, Inner
<1>4. PICK e \in Nat : Base(S, trap, e) /\ Spot(cur, n, S, trap, e, pc, regs)
  BY <1>2, Inner
<1>5. k # 16
  BY SMT
<1>6. Returning(S, trap, e, regs, k)
  BY <1>4, <1>5, InReturnAt
<1>7. /\ Len(S) = e + 17 - k /\ Kept(S, e, trap.regs, 15 - k)
      /\ \A j \in 1..k : regs[TrapPops[j]] = trap.regs[TrapPops[j]]
  BY <1>6 DEF Returning
<1> DEFINE d == e + 17 - (k + 1)
           m == 15 - (k + 1)
<1>8. /\ 1 \in 0..(e + 17 - k) /\ (e + 17 - k) - 1 = d /\ d \in Nat /\ d >= e /\ d >= (e + 2) + m /\ m \in Nat
      /\ e + 17 - k = (e + 2) + (15 - k) /\ 15 - k \in 1..(15 - k) /\ k + 1 \in 1..15 /\ k + 1 \in 0..15
      /\ 16 - (k + 1) = 15 - k
      /\ (\A j \in 1..(k + 1) : j \in 1..k \/ j = k + 1)
      /\ (\A j \in 1..(k + 1) : j \in 1..15)
      /\ (\A j \in 1..m : j \in 1..(15 - k)) /\ (\A j \in 1..k : j # k + 1)
  BY SMT
<1>9. IsSeq(u) /\ Len(u) = d /\ Agree(S, u, d) /\ stack' = [stack EXCEPT ![cur] = u]
  <2>1. 1 \in 0..Len(S)
    BY <1>7, <1>8
  <2>2. IsSeq(Drop(S, 1)) /\ Len(Drop(S, 1)) = Len(S) - 1 /\ \A i \in 1..Len(S) - 1 : Drop(S, 1)[i] = S[i]
    BY <1>3, <2>1, Dropped
  <2>3. stack' = [stack EXCEPT ![cur] = u]
    BY DEF S
  <2> HIDE DEF d
  <2>. QED BY <1>7, <1>8, <2>2, <2>3 DEF Agree
<1> HIDE DEF u, d, m
<1>10. Base(u, trap, e)
  BY <1>3, <1>4, <1>8, <1>9, BaseKept
<1>11. Kept(u, e, trap.regs, m)
  <2>1. Kept(S, e, trap.regs, m)
    BY <1>7, <1>8 DEF Kept
  <2>. QED BY <1>8, <1>9, <2>1, PushesKept
<1>12. Top(S) = trap.regs[r]
  <2>1. TrapPushes[15 - k] = r
    BY <1>8, TrapOrder
  <2>2. S[(e + 2) + (15 - k)] = trap.regs[TrapPushes[15 - k]]
    BY <1>7, <1>8 DEF Kept
  <2>. QED BY <1>7, <1>8, <2>1, <2>2 DEF Top
<1>13. IsRegs(regs') /\ regs'[r] = trap.regs[r] /\ \A q \in Regs : q # r => regs'[q] = regs[q]
  <2>1. r \in Regs
    BY <1>8, AllRegs
  <2> HIDE DEF r
  <2>2. regs' = [regs EXCEPT ![r] = Top(S)]
    BY DEF r
  <2>. QED BY <1>3, <1>12, <2>1, <2>2 DEF IsRegs
<1>14. ASSUME NEW j \in 1..(k + 1) PROVE regs'[TrapPops[j]] = trap.regs[TrapPops[j]]
  <2>1. CASE j = k + 1
    BY <1>13, <2>1
  <2>2. CASE j \in 1..k
    <3>1. TrapPops[j] \in Regs /\ TrapPops[j] # r
      BY <1>8, <2>2, AllRegs, TrapOrder
    <3>. QED BY <1>7, <1>13, <2>2, <3>1
  <2>. QED BY <1>8, <2>1, <2>2
<1>15. Returning(u, trap, e, regs', k + 1)
  BY <1>8, <1>9, <1>11, <1>14 DEF Returning, d, m
<1>16. Spot(cur, n, u, trap, e, pc', regs')
  BY <1>8, <1>15 DEF Spot, InReturn
<1>17. Open(pc')
  BY OpenPlace
<1>. QED BY <1>2, <1>3, <1>9, <1>10, <1>13, <1>16, <1>17, Inside

\* add rsp, 16
LEMMA AddInv ==
  ASSUME Inv, pc = Place("return_from_isr", 15), stack' = [stack EXCEPT ![cur] = Drop(@, 2)],
         pc' = Place("return_from_isr", 16), regs' = regs, cur' = cur, if' = if, trapped' = trapped
  PROVE  Inv'
<1> DEFINE trap == Top(trapped[cur])
           n == Len(trapped[cur])
           u == Drop(S, 2)
<1>1. pc[1] = "return_from_isr"
  BY PlaceOf
<1>2. pc[1] \notin {"main", "enable_interrupt", "sched_start"}
  BY <1>1
<1>3. /\ (n = 2 => ~if) /\ IsSeq(S) /\ IsRegs(regs) /\ if \in BOOLEAN /\ Trap(trap)
  BY <1>2, Inner
<1>4. PICK e \in Nat : Base(S, trap, e) /\ Spot(cur, n, S, trap, e, pc, regs)
  BY <1>2, Inner
<1>5. 15 # 16 /\ e + 17 - 15 = e + 2 /\ 2 \in 0..(e + 2) /\ (e + 2) - 2 = e /\ e >= e
  BY SMT
<1>6. Returning(S, trap, e, regs, 15)
  BY <1>4, <1>5, InReturnAt
<1>7. /\ Len(S) = e + 2 /\ \A j \in 1..15 : regs[TrapPops[j]] = trap.regs[TrapPops[j]]
  BY <1>5, <1>6 DEF Returning
<1>8. regs = trap.regs
  <2>1. \A r \in Regs : regs[r] = trap.regs[r]
    BY <1>7, AllRegs
  <2>2. IsRegs(trap.regs)
    BY <1>3 DEF Trap
  <2> DEFINE f == trap.regs
  <2>3. IsRegs(f) /\ \A r \in Regs : regs[r] = f[r]
    BY <2>1, <2>2
  <2> HIDE DEF f
  <2>4. regs = f
    BY SMT, <1>3, <2>3 DEF IsRegs
  <2>. QED BY <2>4 DEF f
<1>9. IsSeq(u) /\ Len(u) = e /\ Agree(S, u, e) /\ stack' = [stack EXCEPT ![cur] = u]
  <2>1. 2 \in 0..Len(S)
    BY <1>5, <1>7
  <2>2. IsSeq(Drop(S, 2)) /\ Len(Drop(S, 2)) = Len(S) - 2 /\ \A i \in 1..Len(S) - 2 : Drop(S, 2)[i] = S[i]
    BY <1>3, <2>1, Dropped
  <2>3. stack' = [stack EXCEPT ![cur] = u]
    BY DEF S
  <2>. QED BY <1>5, <1>7, <2>2, <2>3 DEF Agree
<1> HIDE DEF u
<1>10. Base(u, trap, e)
  BY <1>3, <1>4, <1>5, <1>9, BaseKept
<1>11. AtIretq(u, trap, e, pc', regs')
  BY <1>8, <1>9 DEF AtIretq
<1>12. Spot(cur, n, u, trap, e, pc', regs')
  BY <1>11 DEF Spot
<1>13. Open(pc')
  BY OpenPlace
<1>. QED BY <1>2, <1>3, <1>9, <1>10, <1>12, <1>13, Inside

\* return_from_isr, up to its iretq
LEMMA ReturnFromIsrInv == ASSUME Inv, ReturnFromIsr PROVE Inv'
<1>1. pc[1] = "return_from_isr" /\ cur' = cur /\ if' = if /\ trapped' = trapped
  BY DEF ReturnFromIsr
<1>2. PICK k \in 0..16 : pc = Place("return_from_isr", k)
  <2>1. pc[1] \notin {"main", "enable_interrupt", "sched_start"}
    BY <1>1
  <2>2. PICK e \in Nat : Spot(cur, Len(trapped[cur]), S, Top(trapped[cur]), e, pc, regs)
    BY <2>1, Inner
  <2>3. InReturn(S, Top(trapped[cur]), e, pc, regs) \/ AtIretq(S, Top(trapped[cur]), e, pc, regs)
    BY <1>1, <2>2, Spots
  <2>4. 16 \in 0..16 /\ \A j \in 0..15 : j \in 0..16
    BY SMT
  <2>. QED BY <2>3, <2>4 DEF InReturn, AtIretq
<1>3. pc[2] = k /\ pc' = Place("return_from_isr", k + 1)
  <2>1. pc[2] = k
    BY <1>2, PlaceOf
  <2>. QED BY <2>1 DEF ReturnFromIsr
<1>4. CASE /\ k < 15 /\ regs' = [regs EXCEPT ![TrapPops[k + 1]] = Top(S)]
           /\ stack' = [stack EXCEPT ![cur] = Drop(@, 1)]
  <2>1. k \in 0..14
    BY SMT, <1>4
  <2>. QED BY <1>1, <1>2, <1>3, <1>4, <2>1, PopInv
<1>5. CASE k = 15 /\ stack' = [stack EXCEPT ![cur] = Drop(@, 2)] /\ regs' = regs
  <2>1. 15 + 1 = 16
    BY SMT
  <2>. QED BY <1>1, <1>2, <1>3, <1>5, <2>1, AddInv
<1>. QED BY <1>3, <1>4, <1>5 DEF ReturnFromIsr

\* iretq finds what the trap interrupted.
LEMMA IretqBack ==
  ASSUME Inv, Iretq
  PROVE  LET trap == Top(trapped[cur])
         IN /\ pc[1] \notin {"main", "enable_interrupt", "sched_start"}
            /\ cur' = cur /\ pc' = trap.pc /\ if' = trap.if /\ regs' = trap.regs
            /\ stack' = [stack EXCEPT ![cur] = trap.stack]
            /\ trapped' = [trapped EXCEPT ![cur] = Drop(trapped[cur], 1)]
<1> DEFINE trap == Top(trapped[cur])
           n == Len(trapped[cur])
           b == Len(trap.stack)
<1>1. /\ pc = Place("return_from_isr", 16) /\ pc' = Top(S) /\ cur' = cur /\ regs' = regs
      /\ if' = (S[Len(S) - 2] = <<"flags", TRUE>>)
      /\ stack' = [stack EXCEPT ![cur] = SubSeq(S, 1, S[Len(S) - 3][2])]
      /\ trapped' = [trapped EXCEPT ![cur] = Drop(trapped[cur], 1)]
  BY DEF Iretq, S
<1>2. pc[1] = "return_from_isr"
  BY <1>1, PlaceOf
<1>3. pc[1] \notin {"main", "enable_interrupt", "sched_start"}
  BY <1>2
<1>4. IsSeq(S) /\ Trap(trap)
  BY <1>3, Inner
<1>5. PICK e \in Nat : Base(S, trap, e) /\ Spot(cur, n, S, trap, e, pc, regs)
  BY <1>3, Inner
<1>6. Len(S) = e /\ regs = trap.regs
  <2>1. AtIretq(S, trap, e, pc, regs)
    BY <1>1, <1>5, InReturnAt
  <2>. QED BY <2>1 DEF AtIretq
<1>7. /\ S[e] = trap.pc /\ S[e - 2] = <<"flags", trap.if>> /\ S[e - 3] = Num(b)
      /\ Agree(trap.stack, S, b)
  BY <1>5 DEF Base
<1>8. pc' = trap.pc /\ regs' = trap.regs
  BY <1>1, <1>6, <1>7 DEF Top
<1>9. if' = trap.if
  <2>1. if' = (<<"flags", trap.if>> = <<"flags", TRUE>>)
    BY <1>1, <1>6, <1>7
  <2>2. trap.if \in BOOLEAN
    BY <1>4 DEF Trap
  <2>3. <<"flags", trap.if>> = <<"flags", TRUE>> <=> trap.if = TRUE
    BY Word
  <2>. QED BY <2>1, <2>2, <2>3
<1>10. SubSeq(S, 1, S[Len(S) - 3][2]) = trap.stack
  <2>1. Num(b)[2] = b
    BY Places
  <2>2. b \in Nat /\ e >= b + 5 /\ IsSeq(trap.stack)
    BY <1>4, <1>5, BaseNat DEF Trap
  <2>3. b \in 0..e
    <3> HIDE DEF b
    <3>. QED BY SMT, <2>2
  <2>4. IsSeq(SubSeq(S, 1, b)) /\ Len(SubSeq(S, 1, b)) = b /\ \A i \in 1..b : SubSeq(S, 1, b)[i] = S[i]
    <3> HIDE DEF b
    <3>. QED BY <1>4, <1>6, <2>3, First
  <2>5. Agree(trap.stack, SubSeq(S, 1, b), b)
    BY <1>7, <2>4 DEF Agree
  <2>6. SubSeq(S, 1, b) = trap.stack
    BY <2>2, <2>4, <2>5, Equal
  <2>. QED BY <1>6, <1>7, <2>1, <2>6
<1>. QED BY <1>1, <1>3, <1>8, <1>9, <1>10

\* iretq
LEMMA IretqInv == ASSUME Inv, Iretq PROVE Inv'
<1> DEFINE T == trapped[cur]
           U == Drop(trapped[cur], 1)
           trap == Top(trapped[cur])
<1>1. /\ pc[1] \notin {"main", "enable_interrupt", "sched_start"}
      /\ cur' = cur /\ pc' = trap.pc /\ if' = trap.if /\ regs' = trap.regs
      /\ stack' = [stack EXCEPT ![cur] = trap.stack]
      /\ trapped' = [trapped EXCEPT ![cur] = U]
  BY IretqBack
<1>2. pc # At("sched_start") /\ IsSeq(T) /\ Trap(trap) /\ Len(T) \in {1, 2}
  BY <1>1, Inner
<1>3. trap.if \in BOOLEAN /\ IsRegs(trap.regs) /\ IsSeq(trap.stack)
  BY <1>2 DEF Trap
<1>4. pc # Home(cur)
  BY <1>1, HomePlace
<1>5. Live(cur, stack[cur], T, pc, regs, if)
  BY <1>2 DEF Inv, Running
<1>6. /\ 1 \in 0..1 /\ 1 \in 0..2 /\ 1 - 1 = 0 /\ 2 - 1 = 1 /\ 1 \in 1..1
  BY SMT
<1>7. IsSeq(U) /\ Len(U) = Len(T) - 1 /\ \A i \in 1..Len(T) - 1 : U[i] = T[i]
  <2>1. 1 \in 0..Len(T)
    BY <1>2, <1>6
  <2> HIDE DEF T
  <2>2. IsSeq(Drop(T, 1)) /\ Len(Drop(T, 1)) = Len(T) - 1 /\ \A i \in 1..Len(T) - 1 : Drop(T, 1)[i] = T[i]
    BY <1>2, <2>1, Dropped
  <2>. QED BY <2>2 DEF T
<1> HIDE DEF U
<1>8. Live(cur, trap.stack, U, trap.pc, trap.regs, trap.if)
  <2>1. CASE Len(T) = 0 /\ stack[cur] = <<>> /\ pc = Home(cur) /\ if
    BY <1>4, <2>1
  <2>2. CASE Len(T) = 1 /\ Lone(cur, stack[cur], T[1], pc, regs) /\ (if => Open(pc))
    <3>1. trap = T[1] /\ Len(U) = 0
      BY <1>6, <1>7, <2>2 DEF Top
    <3>. QED BY <2>2, <3>1 DEF Live, Lone
  <2>3. CASE /\ Len(T) = 2 /\ ~if /\ Level(cur, 2, stack[cur], T[2], pc, regs)
             /\ T[2].vector # SYSCALL /\ T[2].if /\ Open(T[2].pc)
             /\ Lone(cur, T[2].stack, T[1], T[2].pc, T[2].regs)
    <3>1. trap = T[2] /\ Len(U) = 1 /\ U[1] = T[1]
      BY <1>6, <1>7, <2>3 DEF Top
    <3>. QED BY <2>3, <3>1 DEF Live
  <2> HIDE DEF T, trap
  <2>. QED BY <1>5, <2>1, <2>2, <2>3 DEF Live
<1> HIDE DEF trap
<1>. QED BY <1>1, <1>2, <1>3, <1>7, <1>8, Stay

\* proc_kentry
LEMMA ProcKentryInv == ASSUME Inv, ProcKentry PROVE Inv'
<1> DEFINE trap == Top(trapped[cur])
           n == Len(trapped[cur])
           u == Drop(S, 1)
<1>1. /\ pc = At("proc_kentry") /\ pc' = Top(S) /\ cur' = cur /\ regs' = regs /\ if' = if
      /\ trapped' = trapped /\ stack' = [stack EXCEPT ![cur] = u]
  BY DEF ProcKentry, S
<1>2. pc[1] = "proc_kentry"
  BY <1>1, Places
<1>3. pc[1] \notin {"main", "enable_interrupt", "sched_start"}
  BY <1>2
<1>4. /\ (n = 2 => ~if) /\ IsSeq(S) /\ IsRegs(regs) /\ if \in BOOLEAN /\ Trap(trap)
  BY <1>3, Inner
<1>5. PICK e \in Nat : Base(S, trap, e) /\ Spot(cur, n, S, trap, e, pc, regs)
  BY <1>3, Inner
<1>6. AtBirth(S, trap, e, pc)
  BY <1>2, <1>5, Spots
<1>7. Len(S) = e + 18 /\ S[e + 18] = At("return_from_isr") /\ Kept(S, e, trap.regs, 15)
  BY <1>6 DEF AtBirth
<1>8. /\ 1 \in 0..(e + 18) /\ (e + 18) - 1 = e + 17 /\ e + 17 \in Nat /\ e + 17 >= e
      /\ e + 17 >= (e + 2) + 15 /\ 15 \in Nat /\ e + 17 - 0 = e + 17 /\ 15 - 0 = 15 /\ 0 \in 0..15
      /\ \A j : j \notin 1..0
  BY SMT
<1>9. IsSeq(u) /\ Len(u) = e + 17 /\ Agree(S, u, e + 17)
  <2>1. 1 \in 0..Len(S)
    BY <1>7, <1>8
  <2>2. IsSeq(Drop(S, 1)) /\ Len(Drop(S, 1)) = Len(S) - 1 /\ \A i \in 1..Len(S) - 1 : Drop(S, 1)[i] = S[i]
    BY <1>4, <2>1, Dropped
  <2>. QED BY <1>7, <1>8, <2>2 DEF Agree
<1> HIDE DEF u
<1>10. Base(u, trap, e)
  BY <1>4, <1>5, <1>8, <1>9, BaseKept
<1>11. Kept(u, e, trap.regs, 15)
  BY <1>7, <1>8, <1>9, PushesKept
<1>12. pc' = Place("return_from_isr", 0)
  BY <1>1, <1>7, Places DEF Top
<1>13. Returning(u, trap, e, regs', 0)
  BY <1>8, <1>9, <1>11 DEF Returning
<1>14. Spot(cur, n, u, trap, e, pc', regs')
  BY <1>8, <1>12, <1>13 DEF Spot, InReturn
<1>15. Open(pc')
  BY <1>12, OpenPlace
<1>. QED BY <1>1, <1>3, <1>4, <1>9, <1>10, <1>14, <1>15, Inside

-----------------------------------------------------------------------------
(* The context switch                                                      *)

\* Back in sched_yield after a switch.
LEMMA SwitchedInInv == ASSUME Inv, SwitchedIn PROVE Inv'
<1> DEFINE trap == Top(trapped[cur])
           n == Len(trapped[cur])
           u == Drop(S, 2)
<1>1. /\ pc = At("switched in") /\ pc' = Top(S) /\ cur' = cur /\ regs' = regs /\ trapped' = trapped
      /\ if' = (S[Len(S) - 1] = <<"flags", TRUE>>) /\ stack' = [stack EXCEPT ![cur] = u]
  BY DEF SwitchedIn, S
<1>2. pc[1] = "switched in"
  BY <1>1, Places
<1>3. pc[1] \notin {"main", "enable_interrupt", "sched_start"}
  BY <1>2
<1>4. IsSeq(S) /\ IsRegs(regs) /\ Trap(trap)
  BY <1>3, Inner
<1>5. PICK e \in Nat : Base(S, trap, e) /\ Spot(cur, n, S, trap, e, pc, regs)
  BY <1>3, Inner
<1>6. PICK l \in {"result", "epilogue"} : Yielding(cur, n, S, trap, e, l, regs)
  <2>1. InYield(cur, n, S, trap, e, pc, regs)
    BY <1>2, <1>5, Spots
  <2>. QED BY <2>1 DEF InYield
<1>7. /\ Len(S) = e + 22 /\ S[e + 22] = At(l) /\ Body(S, trap, e, l) /\ HandlerRegs(cur, n, regs)
      /\ (n = 2 => S[e + 21] = <<"flags", FALSE>>)
  BY <1>6 DEF Yielding
<1>8. /\ 2 \in 0..(e + 22) /\ (e + 22) - 2 = e + 20 /\ (e + 22) - 1 = e + 21
      /\ e + 20 \in Nat /\ e + 20 >= e /\ e + 20 >= e + 20
  BY SMT
<1>9. IsSeq(u) /\ Len(u) = e + 20 /\ Agree(S, u, e + 20)
  <2>1. 2 \in 0..Len(S)
    BY <1>7, <1>8
  <2>2. IsSeq(Drop(S, 2)) /\ Len(Drop(S, 2)) = Len(S) - 2 /\ \A i \in 1..Len(S) - 2 : Drop(S, 2)[i] = S[i]
    BY <1>4, <2>1, Dropped
  <2>. QED BY <1>7, <1>8, <2>2 DEF Agree
<1> HIDE DEF u
<1>10. Base(u, trap, e)
  BY <1>4, <1>5, <1>8, <1>9, BaseKept
<1>11. Body(u, trap, e, l)
  BY <1>7, <1>8, <1>9, BodyKept
<1>12. pc' = At(l)
  BY <1>1, <1>7 DEF Top
<1>13. Spot(cur, n, u, trap, e, pc', regs')
  <2>1. Handling(cur, n, u, trap, e, l, regs')
    BY <1>1, <1>7, <1>9, <1>11 DEF Handling
  <2>. QED BY <1>12, <2>1 DEF Spot, InBody, InHandler
<1>14. n = 2 => ~if'
  <2>1. ASSUME n = 2 PROVE ~if'
    <3>1. if' = (<<"flags", FALSE>> = <<"flags", TRUE>>)
      BY <1>1, <1>7, <1>8, <2>1
    <3>2. <<"flags", FALSE>> # <<"flags", TRUE>>
      BY Word
    <3>. QED BY <3>1, <3>2
  <2>. QED BY <2>1
<1>15. if' \in BOOLEAN
  BY <1>1
<1>16. Open(pc')
  BY <1>12, OpenAt
<1>. QED BY <1>1, <1>3, <1>4, <1>9, <1>10, <1>13, <1>14, <1>15, <1>16, Inside

\* sched_yield leaves a process parked, and runs the scheduler.
LEMMA YieldInv ==
  ASSUME Inv, NEW l \in {"result", "epilogue"}, NEW m \in {"handle_syscall", "tail"}, pc = At(m),
         cur # Scheduler, SchedYield(l),
         Rax(Field(Top(S), RAX), Top(trapped[cur]), m) => Rax(Field(Top(S), RAX), Top(trapped[cur]), l)
  PROVE  Inv'
<1> DEFINE T == trapped[cur]
           trap == Top(trapped[cur])
           n == Len(trapped[cur])
           f == <<"flags", if>>
           s == S \o <<f, At(l)>>
           u == s \o <<At("switched in")>> \o Pushed(CtxPushes)
           w == Drop(stack[Scheduler], 7)
<1>1. m \in InHandler
  BY DEF InHandler
<1>2. pc[1] \notin {"main", "enable_interrupt", "sched_start"}
  BY <1>1, HandlerAt
<1>3. PICK e \in Nat : /\ Base(S, trap, e) /\ Field(Top(S), RAX) = S[e + 17]
                       /\ Handling(cur, n, S, trap, e, m, regs)
  BY <1>1, HandlerAt
<1>4. /\ pc # At("sched_start") /\ (n = 2 => ~if) /\ IsSeq(S) /\ Len(S) \in Nat /\ if \in BOOLEAN
      /\ Trap(trap) /\ IsSeq(T)
  BY <1>2, Inner
<1>5. Len(S) = e + 20 /\ HandlerRegs(cur, n, regs) /\ Body(S, trap, e, l)
  <2>1. Len(S) = e + 20 /\ HandlerRegs(cur, n, regs) /\ Body(S, trap, e, m)
    BY <1>3 DEF Handling
  <2>2. Rax(S[e + 17], trap, l)
    BY <1>3, <2>1 DEF Body, Framed
  <2>. QED BY <2>1, <2>2 DEF Body, Framed
<1>6. cur \in Threads /\ Running /\ Scheduler \in Stacks /\ IsSeq(stack[Scheduler])
  BY <1>4 DEF Inv, TInv, Stacks
<1>7. Len(CtxPops) = 6 /\ 6 + 1 = 7 /\ 7 - 6 = 1 /\ 7 - 7 = 0 /\ 7 \in 0..7
  BY SMT, CtxOrder
<1>8. /\ stack' = [stack EXCEPT ![cur] = u, ![Scheduler] = w]
      /\ regs' = Popped(stack[Scheduler], CtxPops)
      /\ pc' = stack[Scheduler][Len(stack[Scheduler]) - 6]
      /\ cur' = Scheduler /\ trapped' = trapped /\ if' = FALSE
  <2>1. /\ stack' = [stack EXCEPT ![cur] = @ \o <<f, At(l)>> \o <<At("switched in")>> \o Pushed(CtxPushes),
                                  ![Scheduler] = Drop(@, 7)]
        /\ regs' = Popped(stack[Scheduler], CtxPops)
        /\ pc' = stack[Scheduler][Len(stack[Scheduler]) - 6]
        /\ cur' = Scheduler /\ trapped' = trapped /\ if' = FALSE
    BY <1>7 DEF SchedYield, SchedCtxsw
  <2>. QED BY <2>1 DEF S
<1>9. Extended(S, s, 2) /\ s[Len(S) + 1] = f /\ s[Len(S) + 2] = At(l)
  <2> DEFINE x == At(l)
  <2> HIDE DEF f, x
  <2>1. TwoOn(S, S \o <<f, x>>, f, x)
    BY <1>4, PushTwo
  <2>. QED BY <2>1 DEF x, TwoOn
<1> HIDE DEF s
<1>10. /\ (e + 20) + 2 = e + 22 /\ (e + 20) + 1 = e + 21 /\ e + 20 \in Nat /\ e + 20 >= e
       /\ e + 20 >= e + 20
  BY SMT
<1>11. /\ IsSeq(s) /\ Len(s) = e + 22 /\ Agree(S, s, e + 20) /\ s[e + 21] = f /\ s[e + 22] = At(l)
  BY <1>5, <1>9, <1>10 DEF Extended
<1>12. Switched(s, u, At("switched in"))
  BY <1>11, SwitchedOut
<1> HIDE DEF u
<1>13. Base(s, trap, e) /\ Body(s, trap, e, l)
  BY <1>3, <1>4, <1>5, <1>10, <1>11, BaseKept, BodyKept
<1>14. n = 2 => f = <<"flags", FALSE>>
  BY <1>4
<1> HIDE DEF f
<1>15. ASSUME NEW g, IsRegs(g), \A k \in 1..6 : g[CtxPops[k]] = u[Len(u) + 1 - k]
       PROVE  Live(cur, s, T, At("switched in"), g, FALSE)
  <2>1. HandlerRegs(cur, n, g)
    <3>1. \A k \in 1..6 : u[Len(u) + 1 - k] = regs[CtxPops[k]]
      BY <1>12 DEF Switched
    <3>2. ASSUME NEW r \in CalleeSaved PROVE g[r] = regs[r]
      <4>1. PICK k \in 1..6 : CtxPops[k] = r
        BY AllCalleeSaved
      <4>2. g[CtxPops[k]] = u[Len(u) + 1 - k]
        BY <1>15
      <4>3. u[Len(u) + 1 - k] = regs[CtxPops[k]]
        BY <3>1
      <4>. QED BY <4>1, <4>2, <4>3
    <3>. QED BY <1>5, <3>2 DEF HandlerRegs
  <2>2. Yielding(cur, n, s, trap, e, l, g)
    BY <1>11, <1>13, <1>14, <2>1 DEF Yielding
  <2>3. Spot(cur, n, s, trap, e, At("switched in"), g)
    BY <2>2 DEF Spot, InYield
  <2>4. Level(cur, n, s, trap, At("switched in"), g)
    <3>1. e \in {Len(trap.stack) + 5, Len(trap.stack) + 6}
      BY <1>3 DEF Base
    <3>. QED BY <1>4, <1>13, <2>3, <3>1 DEF Level
  <2>5. Live(cur, stack[cur], T, pc, regs, if) /\ pc # Home(cur)
    BY <1>2, <1>4, HomePlace DEF Inv, Running
  <2>6. CASE Len(T) = 0 /\ stack[cur] = <<>> /\ pc = Home(cur) /\ if
    BY <2>5, <2>6
  <2>7. CASE Len(T) = 1 /\ Lone(cur, stack[cur], T[1], pc, regs) /\ (if => Open(pc))
    <3>1. trap = T[1]
      BY <2>7 DEF Top
    <3>. QED BY <2>4, <2>7, <3>1 DEF Live, Lone
  <2>8. CASE /\ Len(T) = 2 /\ ~if /\ Level(cur, 2, stack[cur], T[2], pc, regs)
             /\ T[2].vector # SYSCALL /\ T[2].if /\ Open(T[2].pc)
             /\ Lone(cur, T[2].stack, T[1], T[2].pc, T[2].regs)
    <3>1. trap = T[2]
      BY <2>8 DEF Top
    <3>. QED BY <2>4, <2>8, <3>1 DEF Live
  <2> HIDE DEF T, trap
  <2>. QED BY <2>5, <2>6, <2>7, <2>8 DEF Live
<1>16. Parked(cur, u, T)
  <2>1. Len(u) = Len(s) + 7 /\ Drop(u, 7) = s /\ u[Len(u) - 6] = At("switched in")
    BY <1>12 DEF Switched
  <2>2. Len(u) >= 7
    <3>1. Len(s) = e + 22
      BY <1>11
    <3>2. Len(u) = (e + 22) + 7
      BY <2>1, <3>1
    <3>. QED BY SMT, <3>2
  <2>. QED BY <1>15, <2>1, <2>2 DEF Parked
<1>17. IsSeq(w) /\ Len(w) = 0 /\ pc' = At("sched_start") /\ Len(trapped[Scheduler]) = 0
  <2>1. /\ Len(stack[Scheduler]) = 7 /\ stack[Scheduler][1] = At("sched_start")
        /\ Len(trapped[Scheduler]) = 0
    BY <1>6 DEF Running
  <2>2. 7 \in 0..Len(stack[Scheduler])
    BY <1>7, <2>1
  <2>3. IsSeq(w) /\ Len(w) = Len(stack[Scheduler]) - 7
    BY <1>6, <2>2, Dropped
  <2>. QED BY <1>7, <1>8, <2>1, <2>3
<1>18. IsSeq(u)
  BY <1>12 DEF Switched
<1> HIDE DEF w
<1>19. /\ stack' = [t \in Stacks |-> stack'[t]] /\ trapped' = [t \in Stacks |-> trapped'[t]]
       /\ \A t \in Stacks : IsSeq(stack'[t]) /\ IsSeq(trapped'[t])
       /\ stack'[cur] = u /\ stack'[Scheduler] = w
       /\ \A t \in Stacks : t # cur /\ t # Scheduler => stack'[t] = stack[t]
  BY <1>6, <1>8, <1>17, <1>18, TwoStacks
<1>20. TInv'
  <2>1. IsRegs(regs')
    BY <1>8, PoppedRegs
  <2>. QED BY <1>6, <1>8, <1>19, <2>1 DEF TInv, Stacks
<1>21. ASSUME NEW t \in Threads PROVE Parked(t, stack'[t], trapped'[t])
  <2>1. t \in Stacks /\ t # Scheduler
    BY TrapFrameAssumption DEF Stacks
  <2>2. CASE t = cur
    BY <1>8, <1>16, <1>19, <2>2
  <2>3. CASE t # cur
    BY <1>8, <1>19, <2>1, <2>3 DEF Inv
  <2>. QED BY <2>2, <2>3
<1>22. Scheduling'
  BY <1>8, <1>17, <1>19 DEF Scheduling
<1>. QED BY <1>17, <1>20, <1>21, <1>22 DEF Inv

\* handle_syscall
LEMMA HandleSyscallInv == ASSUME Inv, HandleSyscall PROVE Inv'
<1> DEFINE trap == Top(trapped[cur])
           n == Len(trapped[cur])
           w == Field(Top(S), RAX)
<1>1. pc = At("handle_syscall")
  BY DEF HandleSyscall
<1>2. "handle_syscall" \in InHandler /\ "result" \in InHandler /\ "tail" \in InHandler
  BY DEF InHandler
<1>3. ASSUME NEW k, w = <<"number", k>>, Rax(w, trap, "handle_syscall")
      PROVE  /\ trap.vector = SYSCALL
             /\ trap.regs["rax"] = IF k = "unknown" THEN w ELSE Num(0)
  <2>1. trap.vector = SYSCALL /\ Pending(trap, w)
    BY <1>3 DEF Rax
  <2> HIDE DEF w
  <2>2. PICK j \in Numbers : w = <<"number", j>> /\ trap.regs["rax"] = IF j = "unknown" THEN w ELSE Num(0)
    BY <2>1 DEF Pending
  <2>3. j = k
    BY <1>3, <2>2, Word
  <2>. QED BY <2>1, <2>2, <2>3
<1>4. CASE w = <<"number", "SYS_YIELD">> /\ SchedYield("result")
  <2>1. ASSUME Rax(w, trap, "handle_syscall") PROVE Rax(w, trap, "result")
    <3>1. trap.vector = SYSCALL /\ trap.regs["rax"] = Num(0)
      <4>1. trap.vector = SYSCALL /\ trap.regs["rax"] = IF "SYS_YIELD" = "unknown" THEN w ELSE Num(0)
        BY <1>3, <1>4, <2>1
      <4>2. "SYS_YIELD" # "unknown"
        OBVIOUS
      <4> HIDE DEF w, trap
      <4>. QED BY <4>1, <4>2
    <3>. QED BY <3>1 DEF Rax
  <2>2. cur # Scheduler
    <3>1. PICK e \in Nat : w = S[e + 17] /\ Handling(cur, n, S, trap, e, "handle_syscall", regs)
      BY <1>1, <1>2, HandlerAt
    <3>2. trap.vector = SYSCALL
      BY <3>1 DEF Handling, Body, Framed, Rax
    <3>3. pc[1] \notin {"main", "enable_interrupt", "sched_start"}
      BY <1>1, <1>2, HandlerAt
    <3>. QED BY <3>2, <3>3, Inner
  <2>. QED BY <1>1, <1>4, <2>1, <2>2, YieldInv
<1>5. CASE /\ w = <<"number", "SYS_CON_READ">>
           /\ pc' = At("result")
           /\ UNCHANGED <<cur, stack, regs, if, trapped>>
  <2>1. ASSUME Rax(w, trap, "handle_syscall") PROVE Rax(w, trap, "result")
    <3>1. trap.vector = SYSCALL /\ trap.regs["rax"] = Num(0)
      <4>1. trap.vector = SYSCALL /\ trap.regs["rax"] = IF "SYS_CON_READ" = "unknown" THEN w ELSE Num(0)
        BY <1>3, <1>5, <2>1
      <4>2. "SYS_CON_READ" # "unknown"
        OBVIOUS
      <4> HIDE DEF w, trap
      <4>. QED BY <4>1, <4>2
    <3>. QED BY <3>1 DEF Rax
  <2>2. cur' = cur /\ stack' = stack /\ regs' = regs /\ if' = if /\ trapped' = trapped
    BY <1>5
  <2>. QED BY <1>1, <1>2, <1>5, <2>1, <2>2, Walks
<1>6. CASE /\ w = <<"number", "unknown">>
           /\ pc' = At("tail")
           /\ UNCHANGED <<cur, stack, regs, if, trapped>>
  <2>1. ASSUME Rax(w, trap, "handle_syscall") PROVE Rax(w, trap, "tail")
    <3>1. trap.regs["rax"] = w
      BY <1>3, <1>6, <2>1
    <3>. QED BY <3>1 DEF Rax
  <2>2. cur' = cur /\ stack' = stack /\ regs' = regs /\ if' = if /\ trapped' = trapped
    BY <1>6
  <2>. QED BY <1>1, <1>2, <1>6, <2>1, <2>2, Walks
<1>. QED BY <1>4, <1>5, <1>6 DEF HandleSyscall

\* The end of handle_interrupt, where a process may yield.
LEMMA HandlerTailInv == ASSUME Inv, HandlerTail PROVE Inv'
<1> DEFINE trap == Top(trapped[cur])
<1>1. pc = At("tail")
  BY DEF HandlerTail
<1>2. ASSUME NEW w, Rax(w, trap, "tail") PROVE Rax(w, trap, "epilogue")
  BY <1>2 DEF Rax
<1>3. CASE cur # Scheduler /\ SchedYield("epilogue")
  BY <1>1, <1>2, <1>3, YieldInv
<1>4. CASE pc' = At("epilogue") /\ UNCHANGED <<cur, stack, regs, if, trapped>>
  <2>1. cur' = cur /\ stack' = stack /\ regs' = regs /\ if' = if /\ trapped' = trapped
    BY <1>4
  <2>2. "epilogue" \in InHandler
    BY DEF InHandler
  <2>. QED BY <1>1, <1>2, <1>4, <2>1, <2>2, Walks
<1>. QED BY <1>3, <1>4 DEF HandlerTail

-----------------------------------------------------------------------------
(* The scheduler                                                           *)

\* sched_start takes the lock.
LEMMA SchedAcquireInv == ASSUME Inv, SchedAcquire PROVE Inv'
<1>1. /\ pc = At("enable_interrupt") /\ pc' = At("sched_start") /\ if' = FALSE
      /\ cur' = cur /\ stack' = stack /\ regs' = regs /\ trapped' = trapped
  BY DEF SchedAcquire
<1>2. Len(trapped[cur]) = 0 /\ S = <<>> /\ S = stack[cur] /\ pc = Home(cur)
  BY <1>1, Outer
<1>3. cur = Scheduler
  <2>1. pc[1] = "enable_interrupt"
    BY <1>1, Places
  <2>. QED BY <1>2, <2>1, HomePlace
<1>4. Scheduling'
  <2>1. Len(<<>>) = 0
    BY SMT
  <2>. QED BY <1>1, <1>2, <1>3, <2>1 DEF Scheduling
<1>5. TInv'
  BY <1>1 DEF Inv, TInv, Stacks
<1>. QED BY <1>1, <1>4, <1>5 DEF Inv

\* sched_start switches to a parked process.
LEMMA SchedStartInv ==
  ASSUME Inv, NEW t \in Threads, SchedStart(t)
  PROVE  Inv'
<1> DEFINE T == trapped[t]
           s == stack[t]
           b == S \o <<>>
           u == b \o <<At("sched_start")>> \o Pushed(CtxPushes)
           w == Drop(stack[t], 7)
<1>1. Len(CtxPops) = 6 /\ 6 + 1 = 7 /\ 0 + 7 = 7 /\ 0 + 1 = 1
  BY SMT, CtxOrder
<1>2. cur = Scheduler /\ ~if /\ Len(stack[Scheduler]) = 0 /\ Len(trapped[Scheduler]) = 0
  <2>1. pc = At("sched_start")
    BY DEF SchedStart
  <2>. QED BY <2>1 DEF Inv, Scheduling
<1>3. t # cur /\ t \in Stacks /\ t # Scheduler /\ Scheduler \in Stacks
  BY <1>2, TrapFrameAssumption DEF Stacks
<1>4. /\ stack' = [stack EXCEPT ![cur] = u, ![t] = w]
      /\ regs' = Popped(stack[t], CtxPops)
      /\ pc' = stack[t][Len(stack[t]) - 6]
      /\ cur' = t /\ trapped' = trapped /\ if' = if
  <2>1. /\ stack' = [stack EXCEPT ![cur] = @ \o <<>> \o <<At("sched_start")>> \o Pushed(CtxPushes),
                                  ![t] = Drop(@, 7)]
        /\ regs' = Popped(stack[t], CtxPops)
        /\ pc' = stack[t][Len(stack[t]) - 6]
        /\ cur' = t /\ trapped' = trapped /\ if' = if
    BY <1>1 DEF SchedStart, SchedCtxsw
  <2>. QED BY <1>3, <2>1 DEF S
<1>5. IsSeq(S) /\ Len(S) = 0 /\ IsSeq(stack[t]) /\ IsSeq(T)
  BY <1>2, <1>3 DEF Inv, TInv, S
<1>6. IsSeq(b) /\ Len(b) = 0
  <2> DEFINE z == <<>>
  <2>1. z \in Seq({}) /\ Len(z) = 0 /\ 0 + 0 = 0
    BY SMT
  <2>2. IsSeq(z)
    BY <2>1, AnySequence
  <2> HIDE DEF z
  <2>3. Joined(S, z, S \o z)
    BY <1>5, <2>2, Cat
  <2>. QED BY <1>5, <2>1, <2>3 DEF Joined, z
<1> HIDE DEF b
<1>7. Switched(b, u, At("sched_start"))
  BY <1>6, SwitchedOut
<1> HIDE DEF u
<1>8. IsSeq(u) /\ Len(u) = 7 /\ u[1] = At("sched_start")
  BY <1>1, <1>6, <1>7 DEF Switched
<1>9. Parked(t, s, T)
  BY <1>3 DEF Inv
<1>10. IsSeq(w)
  <2>1. Len(s) \in Nat
    BY <1>5, Sequence
  <2>2. Len(s) >= 7
    BY <1>9 DEF Parked
  <2>3. 7 \in 0..Len(s)
    BY SMT, <2>1, <2>2
  <2>. QED BY <1>5, <2>3, Dropped
<1>11. IsRegs(regs')
  BY <1>4, PoppedRegs
<1>12. Live(t, w, T, pc', regs', FALSE)
  <2>1. \A k \in 1..6 : regs'[CtxPops[k]] = s[Len(s) + 1 - k]
    BY <1>4, PoppedCtx
  <2>2. Live(t, Drop(s, 7), T, s[Len(s) - 6], regs', FALSE)
    BY <1>9, <1>11, <2>1 DEF Parked
  <2>. QED BY <1>4, <2>2
<1> HIDE DEF w
<1>13. /\ stack' = [x \in Stacks |-> stack'[x]] /\ trapped' = [x \in Stacks |-> trapped'[x]]
       /\ \A x \in Stacks : IsSeq(stack'[x]) /\ IsSeq(trapped'[x])
       /\ stack'[cur] = u /\ stack'[t] = w
       /\ \A x \in Stacks : x # cur /\ x # t => stack'[x] = stack[x]
  BY <1>3, <1>4, <1>8, <1>10, TwoStacks
<1>14. TInv'
  <2>1. cur' \in Stacks /\ if' \in BOOLEAN /\ Stacks' = Stacks
    BY <1>3, <1>4 DEF Stacks, Inv, TInv
  <2>. QED BY <1>11, <1>13, <2>1 DEF TInv
<1>15. Running' /\ pc' # At("sched_start")
  <2>1. if' = FALSE
    BY <1>2, <1>4, <1>14 DEF TInv
  <2>2. pc' # At("sched_start")
    BY <1>12, LivePlace
  <2>3. Live(cur', stack'[cur'], trapped'[cur'], pc', regs', if')
    BY <1>4, <1>12, <1>13, <2>1
  <2>4. Len(stack'[Scheduler]) = 7 /\ stack'[Scheduler][1] = At("sched_start") /\ Len(trapped'[Scheduler]) = 0
    BY <1>2, <1>4, <1>8, <1>13
  <2>. QED BY <2>2, <2>3, <2>4 DEF Running
<1>16. ASSUME NEW x \in Threads, x # t PROVE Parked(x, stack'[x], trapped'[x])
  <2>1. x \in Stacks /\ x # cur
    BY <1>2, TrapFrameAssumption DEF Stacks
  <2>. QED BY <1>4, <1>13, <1>16, <2>1 DEF Inv
<1>. QED BY <1>3, <1>4, <1>14, <1>15, <1>16 DEF Inv

-----------------------------------------------------------------------------
(* A trap                                                                  *)

\* A program computes.
LEMMA ComputeInv == ASSUME Inv, Compute PROVE Inv'
<1>1. /\ pc = At("main") /\ pc' = pc /\ regs' = Scratch("main")
      /\ stack' = stack /\ trapped' = trapped /\ cur' = cur /\ if' = if
  BY DEF Compute
<1>2. /\ pc # At("sched_start") /\ Len(trapped[cur]) = 0 /\ S = <<>> /\ if /\ pc = Home(cur)
      /\ IsSeq(S) /\ IsSeq(trapped[cur])
  BY <1>1, Outer
<1>3. IsRegs(regs')
  BY <1>1, ScratchRegs
<1>4. Live(cur, S, trapped[cur], pc', regs', if')
  BY <1>1, <1>2 DEF Live
<1>5. stack' = [stack EXCEPT ![cur] = S] /\ trapped' = [trapped EXCEPT ![cur] = trapped[cur]]
  BY <1>1, Alone
<1>6. if' \in BOOLEAN
  BY <1>1 DEF Inv, TInv
<1>. QED BY <1>1, <1>2, <1>3, <1>4, <1>5, <1>6, Stay

\* A trap recorded.
Appended(T, U, x) ==
  IsSeq(U) /\ Len(U) = Len(T) + 1 /\ U[Len(T) + 1] = x /\ \A i \in 1..Len(T) : U[i] = T[i]

\* Append records it.
LEMMA AppendedTrap ==
  ASSUME NEW T, IsSeq(T), NEW x
  PROVE  Appended(T, Append(T, x), x)
BY Recorded DEF Appended

\* The processor's part of a trap.
LEMMA TakesTrap ==
  ASSUME Inv, cur' = cur,
         NEW trap, Trap(trap), trap.stack = S, trap.pc = pc, trap.if = if, if,
         pc[1] \notin {"main", "enable_interrupt"} => trap.regs = regs /\ trap.vector # SYSCALL /\ ~if',
         trap.vector = SYSCALL => cur # Scheduler,
         NEW u, IsSeq(u), NEW e, Base(u, trap, e),
         InStub(u, trap, e, Place("vector", trap.vector), regs'),
         stack' = [stack EXCEPT ![cur] = u],
         trapped' = [trapped EXCEPT ![cur] = Append(trapped[cur], trap)],
         pc' = Place("vector", trap.vector), if' \in BOOLEAN, IsRegs(regs')
  PROVE  Inv'
<1> DEFINE T == trapped[cur]
           U == Append(trapped[cur], trap)
<1>1. pc # At("sched_start") /\ Live(cur, S, T, pc, regs, if) /\ IsSeq(T) /\ S = stack[cur]
  BY DEF Inv, TInv, Running, Scheduling, S
<1>2. /\ IsSeq(U) /\ Len(U) = Len(T) + 1 /\ U[Len(T) + 1] = trap /\ \A i \in 1..Len(T) : U[i] = T[i]
  <2>1. IsSeq(trapped[cur])
    BY <1>1
  <2>2. Appended(trapped[cur], Append(trapped[cur], trap), trap)
    BY <2>1, AppendedTrap
  <2>. QED BY <2>2 DEF Appended
<1>3. 0 + 1 = 1 /\ 1 + 1 = 2 /\ 1 \in 1..1
  BY SMT
<1>4. ASSUME NEW n PROVE Level(cur, n, u, trap, pc', regs')
  <2>1. Spot(cur, n, u, trap, e, pc', regs')
    BY DEF Spot
  <2>2. e \in {Len(trap.stack) + 5, Len(trap.stack) + 6}
    BY DEF Base
  <2>. QED BY <2>1, <2>2 DEF Level
<1>5. Open(pc')
  BY OpenPlace
<1> HIDE DEF T, U
<1>6. Live(cur, u, U, pc', regs', if')
  <2>1. CASE Len(T) = 0 /\ S = <<>> /\ pc = Home(cur) /\ if
    <3>1. Len(U) = 1 /\ U[1] = trap
      BY <1>2, <1>3, <2>1
    <3>. QED BY <1>4, <1>5, <2>1, <3>1 DEF Live, Lone
  <2>2. CASE Len(T) = 1 /\ Lone(cur, S, T[1], pc, regs) /\ (if => Open(pc))
    <3>1. Len(U) = 2 /\ U[2] = trap /\ U[1] = T[1]
      BY <1>2, <1>3, <2>2
    <3>2. pc[1] \notin {"main", "enable_interrupt"}
      <4>1. PICK d : Spot(cur, 1, S, T[1], d, pc, regs)
        BY <2>2 DEF Lone, Level
      <4>. QED BY <4>1, Spots
    <3>. QED BY <1>4, <2>2, <3>1, <3>2 DEF Live
  <2>3. CASE Len(T) = 2 /\ ~if
    BY <2>3
  <2>. QED BY <1>1, <2>1, <2>2, <2>3 DEF Live
<1>. QED BY <1>1, <1>2, <1>6, Stay DEF U, T

\* Pushed by the processor alone.
LEMMA FiveBase ==
  ASSUME NEW s, IsSeq(s), NEW u, NEW trap, trap.stack = s, FiveOn(s, u, trap.if, trap.pc)
  PROVE  Base(u, trap, Len(u)) /\ Len(u) \in Nat /\ IsSeq(u)
<1>1. IsSeq(u)
  BY DEF FiveOn
<1>. QED BY <1>1, Sequence DEF FiveOn, Base

\* An interrupt or an exception.
LEMMA RaiseInv ==
  ASSUME Inv, NEW v \in Traps, NEW pad \in {0, 1}, Raise(v, pad)
  PROVE  Inv'
<1> DEFINE trap == [vector |-> v, pc |-> pc, if |-> if, stack |-> S, regs |-> regs]
           s == Pushes(S, pad, if, pc)
           w == IF v \in ErrorCode THEN <<<<"error", v>>>> ELSE <<>>
           u == s \o w
<1>1. /\ v # SYSCALL /\ pc' = Place("vector", v) /\ cur' = cur /\ regs' = regs /\ if' = FALSE
      /\ stack' = [stack EXCEPT ![cur] = u]
      /\ trapped' = [trapped EXCEPT ![cur] = Append(trapped[cur], trap)]
  BY DEF Raise, Trapped, Interrupted, Pushes, Five, S
<1>2. if /\ IsSeq(S) /\ IsRegs(regs) /\ if \in BOOLEAN
  <2>1. CASE pc = At("main")
    BY <2>1, Outer DEF Inv, TInv
  <2>2. CASE if
    BY <2>2 DEF Inv, TInv, S
  <2>. QED BY <2>1, <2>2 DEF Raise
<1>3. /\ trap.vector = v /\ trap.pc = pc /\ trap.if = if /\ trap.stack = S /\ trap.regs = regs
      /\ Trap(trap)
  <2>1. v \in Vectors
    BY TrapFrameAssumption
  <2>. QED BY <1>2, <2>1 DEF Trap
<1>4. FiveOn(S, s, if, pc)
  BY <1>2, FivePushed
<1> HIDE DEF trap, s
<1>5. Base(s, trap, Len(s)) /\ Len(s) \in Nat /\ IsSeq(s)
  BY <1>2, <1>3, <1>4, FiveBase
<1>6. Entry(trap, regs)
  BY <1>1, <1>3 DEF Entry, Pending
<1>7. IsSeq(u) /\ Base(u, trap, Len(s)) /\ InStub(u, trap, Len(s), Place("vector", v), regs)
  <2>1. CASE v \in ErrorCode
    <3>1. u = s \o <<<<"error", v>>>>
      BY <2>1
    <3> HIDE DEF u
    <3>2. Extended(s, u, 1) /\ u[Len(s) + 1] = <<"error", v>>
      BY <1>5, <3>1, PushOne
    <3>3. IsSeq(u) /\ Len(u) = Len(s) + 1 /\ Agree(s, u, Len(s))
      BY <3>2 DEF Extended
    <3>4. Len(s) >= Len(s)
      BY SMT, <1>5
    <3>5. Base(u, trap, Len(s))
      BY <1>3, <1>5, <3>3, <3>4, BaseKept
    <3>. QED BY <1>3, <1>6, <2>1, <3>2, <3>3, <3>5 DEF InStub, ErrorWord
  <2>2. CASE v \notin ErrorCode
    <3>1. u = s \o <<>>
      BY <2>2
    <3>2. s \o <<>> = s
      <4> DEFINE A == Range(s)
      <4>1. s \in Seq(A)
        BY <1>5 DEF IsSeq
      <4> HIDE DEF A
      <4>. QED BY SMT, <4>1
    <3>3. u = s
      BY <3>1, <3>2
    <3> HIDE DEF u
    <3>. QED BY <1>3, <1>5, <1>6, <2>2, <3>3 DEF InStub
  <2>. QED BY <2>1, <2>2
<1> HIDE DEF u
<1>. QED BY <1>1, <1>2, <1>3, <1>7, TakesTrap

\* int $0x80
LEMMA SyscallInv ==
  ASSUME Inv, NEW n \in Numbers, NEW pad \in {0, 1}, Syscall(n, pad)
  PROVE  Inv'
<1> DEFINE result == IF n = "unknown" THEN <<"number", n>> ELSE Num(0)
           trap == [vector |-> SYSCALL, pc |-> pc, if |-> if, stack |-> S,
                    regs |-> [regs EXCEPT !["rax"] = result]]
           u == Pushes(S, pad, if, pc)
<1>1. /\ pc = At("main") /\ cur \in Callers /\ pc' = Place("vector", SYSCALL) /\ cur' = cur /\ if' = if
      /\ regs' = [regs EXCEPT !["rax"] = <<"number", n>>]
      /\ stack' = [stack EXCEPT ![cur] = u]
      /\ trapped' = [trapped EXCEPT ![cur] = Append(trapped[cur], trap)]
  BY DEF Syscall, Trapped, Interrupted, Pushes, Five, S
<1>2. if /\ IsSeq(S) /\ IsRegs(regs) /\ if \in BOOLEAN
  BY <1>1, Outer DEF Inv, TInv
<1>3. "rax" \in Regs /\ SYSCALL \in Vectors /\ SYSCALL \notin ErrorCode /\ cur # Scheduler
  <2>1. SYSCALL \in Vectors
    BY SMT DEF SYSCALL, Vectors
  <2>2. SYSCALL \notin ErrorCode
    BY SMT DEF SYSCALL, ErrorCode
  <2>. QED BY <1>1, <2>1, <2>2, AllCalleeSaved, TrapFrameAssumption
<1>4. /\ trap.vector = SYSCALL /\ trap.pc = pc /\ trap.if = if /\ trap.stack = S
      /\ IsRegs(trap.regs) /\ trap.regs["rax"] = result
      /\ \A r \in Regs : r # "rax" => trap.regs[r] = regs[r]
  BY <1>2, <1>3 DEF IsRegs
<1>5. /\ IsRegs(regs') /\ regs'["rax"] = <<"number", n>>
      /\ \A r \in Regs : r # "rax" => regs'[r] = regs[r]
  BY <1>1, <1>2, <1>3 DEF IsRegs
<1>6. FiveOn(S, u, if, pc)
  BY <1>2, FivePushed
<1> HIDE DEF trap, u
<1>7. Trap(trap)
  BY <1>2, <1>3, <1>4 DEF Trap
<1>8. Base(u, trap, Len(u)) /\ IsSeq(u)
  BY <1>2, <1>4, <1>6, FiveBase
<1>9. Entry(trap, regs')
  <2>1. Pending(trap, regs'["rax"])
    BY <1>4, <1>5 DEF Pending
  <2>. QED BY <1>4, <1>5, <2>1 DEF Entry
<1>10. InStub(u, trap, Len(u), Place("vector", trap.vector), regs')
  BY <1>3, <1>4, <1>9 DEF InStub
<1>11. pc[1] = "main"
  BY <1>1, Places
<1>. QED BY <1>1, <1>2, <1>3, <1>4, <1>5, <1>7, <1>8, <1>10, <1>11, TakesTrap


-----------------------------------------------------------------------------
(* A new process                                                           *)

\* The stack that proc_kern_init and sched_create_kproc lay out.
LEMMA NewStackIs ==
  /\ IsSeq(NewStack) /\ Len(NewStack) = 30
  /\ NewStack[2] = Num(0) /\ NewStack[3] = <<"flags", TRUE>> /\ NewStack[5] = At("main")
  /\ \A i \in 6..22 : NewStack[i] = Num(0)
  /\ NewStack[23] = At("return_from_isr") /\ NewStack[24] = At("proc_kentry")
<1> DEFINE z == Num(0)
           m == At("main")
           x == At("return_from_isr")
           y == At("proc_kentry")
           p == <<"sel", "ss">>
           f == <<"flags", TRUE>>
           c == <<"sel", "cs">>
           a == <<p, z, f, c, m, z, z>>
           b == [i \in 1..15 |-> z]
           d == <<x, y>>
           e == [i \in 1..6 |-> z]
<1>1. NewStack = a \o b \o d \o e
  <2>1. Len(TrapPushes) = 15 /\ Len(CtxPushes) = 6
    BY TrapOrder, CtxOrder
  <2>. QED BY <2>1 DEF NewStack
<1> HIDE DEF z, f, m, x, y, p, f, c
<1>2. IsSeq(a) /\ Len(a) = 7 /\ a[2] = z /\ a[3] = f /\ a[5] = m /\ a[6] = z /\ a[7] = z
  <2>1. a \in Seq({p, z, f, c, m}) /\ Len(a) = 7 /\ a[2] = z /\ a[3] = f /\ a[5] = m /\ a[6] = z /\ a[7] = z
    BY SMT
  <2>. QED BY <2>1, AnySequence
<1>3. IsSeq(b) /\ Len(b) = 15 /\ \A i \in 1..15 : b[i] = z
  <2>1. 15 \in Nat /\ b = [i \in 1..15 |-> b[i]] /\ \A i \in 1..15 : b[i] = z
    OBVIOUS
  <2> HIDE DEF b
  <2>. QED BY <2>1, Listed
<1>4. IsSeq(d) /\ Len(d) = 2 /\ d[1] = x /\ d[2] = y
  <2>1. d \in Seq({x, y}) /\ Len(d) = 2 /\ d[1] = x /\ d[2] = y
    BY SMT
  <2>. QED BY <2>1, AnySequence
<1>5. IsSeq(e) /\ Len(e) = 6
  <2>1. 6 \in Nat /\ e = [i \in 1..6 |-> e[i]]
    OBVIOUS
  <2> HIDE DEF e
  <2>. QED BY <2>1, Listed
<1> HIDE DEF a, b, d, e
<1> DEFINE q == a \o b
           r == q \o d
<1>6. Joined(a, b, q)
  BY <1>2, <1>3, Cat
<1> HIDE DEF q
<1>7. Joined(q, d, r)
  <2>1. IsSeq(q)
    BY <1>6 DEF Joined
  <2>. QED BY <1>4, <2>1, Cat
<1>8. NewStack = r \o e
  BY <1>1 DEF q
<1> HIDE DEF r
<1>9. Joined(r, e, NewStack)
  <2>1. IsSeq(r)
    BY <1>7 DEF Joined
  <2>2. Joined(r, e, r \o e)
    BY <1>5, <2>1, Cat
  <2>. QED BY <1>8, <2>2
<1>10. /\ \A i \in 1..22 : i \in 1..24
       /\ \A i \in 6..22 : i \in 1..22 /\ (i = 6 \/ i = 7 \/ (i - 7 \in 1..15 /\ 7 + (i - 7) = i))
       /\ 6 \in 1..7 /\ 7 \in 1..7
  BY SMT
<1>11. Len(q) = 22 /\ Len(r) = 24 /\ IsSeq(NewStack) /\ Len(NewStack) = 30
  <2>1. Len(q) = Len(a) + Len(b) /\ Len(r) = Len(q) + Len(d)
    BY <1>6, <1>7 DEF Joined
  <2>2. Len(NewStack) = Len(r) + Len(e) /\ IsSeq(NewStack)
    BY <1>9 DEF Joined
  <2>. QED BY SMT, <1>2, <1>3, <1>4, <1>5, <2>1, <2>2
<1>12. /\ \A i \in 1..24 : NewStack[i] = r[i]
       /\ \A i \in 1..22 : r[i] = q[i]
       /\ \A i \in 1..7 : q[i] = a[i]
       /\ \A i \in 1..15 : q[7 + i] = b[i]
       /\ r[22 + 1] = x /\ r[22 + 2] = y
  <2>1. \A i \in 1..24 : NewStack[i] = r[i]
    BY <1>9, <1>11 DEF Joined
  <2>2. (\A i \in 1..22 : r[i] = q[i]) /\ \A i \in 1..2 : r[22 + i] = d[i]
    BY <1>4, <1>7, <1>11 DEF Joined
  <2>3. (\A i \in 1..7 : q[i] = a[i]) /\ \A i \in 1..15 : q[7 + i] = b[i]
    BY <1>2, <1>3, <1>6 DEF Joined
  <2>4. 1 \in 1..2 /\ 2 \in 1..2
    BY SMT
  <2>. QED BY <1>4, <2>1, <2>2, <2>3, <2>4
<1>13. NewStack[2] = z /\ NewStack[3] = f /\ NewStack[5] = m
  <2>1. ASSUME NEW i \in {2, 3, 5} PROVE NewStack[i] = a[i]
    <3>1. i \in 1..7 /\ i \in 1..22 /\ i \in 1..24
      BY SMT
    <3>. QED BY <1>12, <3>1
  <2>. QED BY <1>2, <2>1
<1>14. NewStack[23] = x /\ NewStack[24] = y
  <2>1. 22 + 1 = 23 /\ 22 + 2 = 24 /\ 23 \in 1..24 /\ 24 \in 1..24
    BY SMT
  <2>2. r[23] = x /\ r[24] = y
    BY <1>12, <2>1
  <2>. QED BY <1>12, <2>1, <2>2
<1>15. ASSUME NEW i \in 6..22 PROVE NewStack[i] = z
  <2>1. NewStack[i] = q[i]
    BY <1>10, <1>12
  <2>2. CASE i = 6
    BY <1>2, <1>10, <1>12, <2>1, <2>2
  <2>3. CASE i = 7
    BY <1>2, <1>10, <1>12, <2>1, <2>3
  <2>4. CASE i - 7 \in 1..15 /\ 7 + (i - 7) = i
    <3>1. q[7 + (i - 7)] = b[i - 7] /\ b[i - 7] = z
      BY <1>3, <1>12, <2>4
    <3>. QED BY <2>1, <2>4, <3>1
  <2>. QED BY <1>10, <2>2, <2>3, <2>4
<1>. QED BY <1>11, <1>13, <1>14, <1>15 DEF z, f, m, x, y

\* The first process to run returns through the frame it is given.
LEMMA InitInv == ASSUME Init PROVE Inv
<1> DEFINE f == [r \in Regs |-> Num(0)]
           trap == [vector |-> 0, pc |-> At("main"), if |-> TRUE, stack |-> <<>>, regs |-> f]
           T == <<trap>>
           s == NewStack
           u == Drop(NewStack, 7)
<1>1. /\ cur = Scheduler /\ pc = At("enable_interrupt") /\ if = TRUE
      /\ regs = [r \in Regs |-> <<"reg", <<Scheduler, r, "sched_start", 0>>>>]
      /\ stack = [t \in Stacks |-> IF t = Scheduler THEN <<>> ELSE s]
      /\ trapped = [t \in Stacks |-> IF t = Scheduler THEN <<>> ELSE T]
  BY DEF Init, Stacks
<1>2. trap.vector = 0 /\ trap.pc = At("main") /\ trap.if = TRUE /\ trap.stack = <<>> /\ trap.regs = f
  OBVIOUS
<1>3. (\A r \in Regs : f[r] = Num(0)) /\ IsRegs(f)
  <2>1. \A r \in Regs : f[r] = Num(0)
    OBVIOUS
  <2>. QED BY <2>1 DEF IsRegs
<1> HIDE DEF f, trap
<1>4. IsSeq(T) /\ Len(T) = 1 /\ T[1] = trap
  <2>1. T \in Seq({trap}) /\ Len(T) = 1 /\ T[1] = trap
    BY SMT
  <2>. QED BY <2>1, AnySequence
<1> HIDE DEF T
<1>5. /\ 7 \in 0..30 /\ 30 - 7 = 23 /\ 30 - 6 = 24 /\ 30 >= 7 /\ 5 + 18 = 23
      /\ 5 - 2 = 3 /\ 5 - 3 = 2 /\ 0 + 5 = 5
      /\ 2 \in 1..23 /\ 3 \in 1..23 /\ 5 \in 1..23 /\ 23 \in 1..23
      /\ \A j \in 1..15 : (5 + 2) + j \in 6..22 /\ (5 + 2) + j \in 1..23 /\ 16 - j \in 1..15 /\ 16 - (16 - j) = j
  BY SMT
<1>6. IsSeq(u) /\ Len(u) = 23 /\ \A i \in 1..23 : u[i] = s[i]
  <2>1. IsSeq(s) /\ Len(s) = 30
    BY NewStackIs
  <2> HIDE DEF s
  <2>2. 7 \in 0..Len(s)
    BY <1>5, <2>1
  <2>3. IsSeq(Drop(s, 7)) /\ Len(Drop(s, 7)) = Len(s) - 7 /\ \A i \in 1..Len(s) - 7 : Drop(s, 7)[i] = s[i]
    BY <2>1, <2>2, Dropped
  <2>4. Drop(s, 7) = u
    BY DEF s
  <2> HIDE DEF u
  <2>. QED BY <1>5, <2>1, <2>3, <2>4
<1>7. IsSeq(<<>>) /\ Len(<<>>) = 0 /\ \A i : i \notin 1..0
  <2>1. <<>> \in Seq({}) /\ Len(<<>>) = 0 /\ \A i : i \notin 1..0
    BY SMT
  <2>. QED BY <2>1, AnySequence
<1>8. Trap(trap)
  <2>1. 0 \in Vectors
    BY SMT DEF Vectors
  <2>. QED BY <1>2, <1>3, <1>7, <2>1 DEF Trap
<1>9. Base(u, trap, 5)
  <2>1. u[5] = At("main") /\ u[3] = <<"flags", TRUE>> /\ u[2] = Num(0)
    BY <1>5, <1>6, NewStackIs
  <2>2. 5 \in {Len(trap.stack) + 5, Len(trap.stack) + 6} /\ Len(trap.stack) = 0
    BY <1>2, <1>5, <1>7
  <2>. QED BY <1>2, <1>5, <1>7, <2>1, <2>2 DEF Base, Agree
<1>10. AtBirth(u, trap, 5, At("proc_kentry"))
  <2>1. ASSUME NEW j \in 1..15 PROVE u[(5 + 2) + j] = trap.regs[TrapPushes[j]]
    <3>1. u[(5 + 2) + j] = Num(0)
      <4> DEFINE i == (5 + 2) + j
      <4>1. i \in 6..22 /\ i \in 1..23
        BY SMT
      <4> HIDE DEF i
      <4>2. u[i] = s[i]
        BY <1>6, <4>1
      <4>3. NewStack[i] = Num(0)
        BY <4>1, NewStackIs
      <4>. QED BY <4>2, <4>3 DEF i
    <3>2. TrapPushes[j] \in Regs
      <4>1. TrapPushes[16 - (16 - j)] = TrapPops[16 - j]
        BY <1>5, TrapOrder
      <4>. QED BY <1>5, <4>1, AllRegs
    <3>. QED BY <1>2, <1>3, <3>1, <3>2
  <2>2. u[23] = At("return_from_isr")
    BY <1>5, <1>6, NewStackIs
  <2>. QED BY <1>5, <1>6, <2>1, <2>2 DEF AtBirth, Kept
<1>11. ASSUME NEW t, t # Scheduler, NEW g PROVE Live(t, u, T, At("proc_kentry"), g, FALSE)
  <2>1. Spot(t, 1, u, trap, 5, At("proc_kentry"), g)
    BY <1>10 DEF Spot
  <2>2. Level(t, 1, u, trap, At("proc_kentry"), g)
    <3>1. 5 \in {Len(trap.stack) + 5, Len(trap.stack) + 6}
      BY <1>9 DEF Base
    <3>. QED BY <1>8, <1>9, <2>1, <3>1 DEF Level
  <2>3. Home(t) = At("main")
    BY <1>11 DEF Home
  <2>4. Lone(t, u, trap, At("proc_kentry"), g)
    BY <1>2, <1>11, <2>2, <2>3 DEF Lone
  <2>. QED BY <1>4, <2>4 DEF Live
<1>12. ASSUME NEW t, t # Scheduler PROVE Parked(t, s, T)
  <2>1. Len(s) >= 7 /\ s[Len(s) - 6] = At("proc_kentry")
    BY <1>5, NewStackIs
  <2>. QED BY <1>11, <1>12, <2>1 DEF Parked
<1> HIDE DEF s
<1>13. IsSeq(s)
  BY NewStackIs DEF s
<1>14. Scheduler \in Stacks /\ \A t \in Threads : t \in Stacks /\ t # Scheduler
  BY TrapFrameAssumption DEF Stacks
<1>15. stack = [t \in Stacks |-> stack[t]] /\ trapped = [t \in Stacks |-> trapped[t]]
  BY <1>1
<1>16. \A t \in Stacks : IsSeq(stack[t]) /\ IsSeq(trapped[t])
  BY <1>1, <1>4, <1>7, <1>13
<1>17. IsRegs(regs)
  BY SMT, <1>1 DEF IsRegs
<1>18. TInv
  BY <1>1, <1>14, <1>15, <1>16, <1>17 DEF TInv
<1>19. Running /\ pc # At("sched_start")
  <2>1. stack[Scheduler] = <<>> /\ Len(trapped[Scheduler]) = 0
    BY <1>1, <1>7, <1>14
  <2>2. pc = Home(Scheduler)
    BY <1>1 DEF Home
  <2>3. Live(cur, stack[cur], trapped[cur], pc, regs, if)
    BY <1>1, <2>1, <2>2 DEF Live
  <2>. QED BY <1>1, <2>3, Places DEF Running
<1>20. \A t \in Threads : Parked(t, stack[t], trapped[t])
  BY <1>1, <1>12, <1>14
<1>. QED BY <1>18, <1>19, <1>20 DEF Inv

-----------------------------------------------------------------------------
(* The theorems                                                            *)

\* Every step keeps the invariant.
LEMMA NextInv == ASSUME Inv, [Next]_vars PROVE Inv'
<1>1. CASE Compute
  BY <1>1, ComputeInv
<1>2. CASE \E v \in Traps, pad \in Pads : Raise(v, pad)
  BY <1>2, RaiseInv, TrapFrameAssumption
<1>3. CASE \E n \in Numbers, pad \in Pads : Syscall(n, pad)
  BY <1>3, SyscallInv, TrapFrameAssumption
<1>4. CASE Vector
  BY <1>4, VectorInv
<1>5. CASE TrapEnterAll
  BY <1>5, TrapEnterAllInv
<1>6. CASE HandleInterrupt
  BY <1>6, HandleInterruptInv
<1>7. CASE HandleSyscall
  BY <1>7, HandleSyscallInv
<1>8. CASE Result
  BY <1>8, ResultInv
<1>9. CASE SwitchedIn
  BY <1>9, SwitchedInInv
<1>10. CASE HandlerTail
  BY <1>10, HandlerTailInv
<1>11. CASE Epilogue
  BY <1>11, EpilogueInv
<1>12. CASE ReturnFromIsr
  BY <1>12, ReturnFromIsrInv
<1>13. CASE Iretq
  BY <1>13, IretqInv
<1>14. CASE SchedAcquire
  BY <1>14, SchedAcquireInv
<1>15. CASE \E t \in Threads : SchedStart(t)
  BY <1>15, SchedStartInv
<1>16. CASE ProcKentry
  BY <1>16, ProcKentryInv
<1>17. CASE UNCHANGED vars
  BY <1>17 DEF vars, Inv, TInv, Running, Scheduling, S
<1>. QED BY <1>1, <1>2, <1>3, <1>4, <1>5, <1>6, <1>7, <1>8, <1>9, <1>10, <1>11, <1>12, <1>13, <1>14, <1>15,
            <1>16, <1>17 DEF Next

\* How much a trap puts on the stack: less where interrupts may be on.
LEMMA SpotSize ==
  ASSUME NEW t, NEW n, NEW s, NEW trap, NEW e \in Nat, NEW at, NEW f, Spot(t, n, s, trap, e, at, f)
  PROVE  Len(s) <= e + 22 /\ (Open(at) => Len(s) <= e + 20)
<1>1. \/ Len(s) = e \/ Len(s) = e + 1 \/ (\E k \in 0..15 : Len(s) = (e + 2) + k)
      \/ Len(s) = e + 17 \/ Len(s) = e + 18 \/ Len(s) = e + 20 \/ (\E k \in 0..15 : Len(s) = e + 17 - k)
      \/ (Len(s) = e + 22 /\ ~Open(at))
  <2>1. CASE InStub(s, trap, e, at, f)
    BY <2>1 DEF InStub
  <2>2. CASE InNumber(s, trap, e, at, f)
    BY <2>2 DEF InNumber
  <2>3. CASE InEnter(s, trap, e, at, f)
    BY <2>3 DEF InEnter, Entering
  <2>4. CASE AtCall(s, trap, e, at, f)
    BY <2>4 DEF AtCall
  <2>5. CASE AtHandler(s, trap, e, at, f)
    BY <2>5 DEF AtHandler
  <2>6. CASE InBody(t, n, s, trap, e, at, f)
    BY <2>6 DEF InBody, Handling
  <2>7. CASE InYield(t, n, s, trap, e, at, f)
    BY <2>7 DEF InYield, Yielding, Open
  <2>8. CASE InReturn(s, trap, e, at, f)
    BY <2>8 DEF InReturn, Returning
  <2>9. CASE AtIretq(s, trap, e, at, f)
    BY <2>9 DEF AtIretq
  <2>10. CASE AtBirth(s, trap, e, at)
    BY <2>10 DEF AtBirth
  <2>. QED BY <2>1, <2>2, <2>3, <2>4, <2>5, <2>6, <2>7, <2>8, <2>9, <2>10 DEF Spot
<1> DEFINE L == Len(s)
<1> HIDE DEF L
<1>2. \/ L = e \/ L = e + 1 \/ (\E k \in 0..15 : L = (e + 2) + k) \/ L = e + 17 \/ L = e + 18 \/ L = e + 20
      \/ (\E k \in 0..15 : L = e + 17 - k)
      => L <= e + 22 /\ L <= e + 20
  BY SMT
<1>3. L = e + 22 => L <= e + 22
  BY SMT
<1>. QED BY <1>1, <1>2, <1>3 DEF L

\* The same for the stack.
LEMMA LevelSize ==
  ASSUME NEW t, NEW n, NEW s, NEW trap, NEW at, NEW f, Level(t, n, s, trap, at, f)
  PROVE  /\ Len(trap.stack) \in Nat /\ Len(s) <= Len(trap.stack) + 28
         /\ Open(at) => Len(s) <= Len(trap.stack) + 26
<1> DEFINE b == Len(trap.stack)
<1>1. Trap(trap)
  BY DEF Level
<1>2. PICK e \in {b + 5, b + 6} : Base(s, trap, e) /\ Spot(t, n, s, trap, e, at, f)
  BY DEF Level
<1>3. e \in Nat /\ b \in Nat
  BY <1>1, <1>2, BaseNat
<1>4. Len(s) <= e + 22 /\ (Open(at) => Len(s) <= e + 20)
  BY <1>2, <1>3, SpotSize
<1>5. Len(s) <= e + 22 => Len(s) <= b + 28
  <2> HIDE DEF b
  <2>. QED BY SMT, <1>2, <1>3
<1>6. Len(s) <= e + 20 => Len(s) <= b + 26
  <2> HIDE DEF b
  <2>. QED BY SMT, <1>2, <1>3
<1>. QED BY <1>3, <1>4, <1>5, <1>6

\* A thread has at most two traps on its stack.
LEMMA LiveSize ==
  ASSUME NEW t, NEW s, IsSeq(s), NEW T, NEW at, NEW f, NEW i, Live(t, s, T, at, f, i)
  PROVE  Len(s) <= 54 /\ Len(T) <= 2
<1>0. Len(s) \in Nat /\ Len(<<>>) = 0
  BY SMT, Sequence
<1>1. CASE Len(T) = 0 /\ s = <<>>
  BY SMT, <1>0, <1>1
<1>2. CASE Len(T) = 1 /\ Lone(t, s, T[1], at, f)
  <2>1. Len(s) <= Len(T[1].stack) + 28 /\ Len(T[1].stack) = 0
    BY <1>0, <1>2, LevelSize DEF Lone
  <2>2. Len(s) <= 0 + 28 /\ Len(T) = 1
    BY <1>2, <2>1
  <2>. QED BY SMT, <1>0, <2>2
<1>3. CASE /\ Len(T) = 2 /\ Level(t, 2, s, T[2], at, f) /\ Open(T[2].pc)
           /\ Lone(t, T[2].stack, T[1], T[2].pc, T[2].regs)
  <2> DEFINE b == Len(T[2].stack)
  <2>1. b <= Len(T[1].stack) + 26 /\ Len(T[1].stack) = 0
    BY <1>0, <1>3, LevelSize DEF Lone
  <2>2. b \in Nat /\ Len(s) <= b + 28 /\ b <= 0 + 26 /\ Len(T) = 2
    BY <1>3, <2>1, LevelSize
  <2> HIDE DEF b
  <2>. QED BY SMT, <1>0, <2>2
<1>. QED BY <1>1, <1>2, <1>3 DEF Live

\* A place is one of the code.
LEMMA LiveCode ==
  ASSUME NEW t, NEW s, NEW T, NEW at, NEW f, NEW i, Live(t, s, T, at, f, i)
  PROVE  at \in (Labels \X {0}) \cup ({"vector", "vector_number"} \X Vectors)
                  \cup ({"trap_enter_all", "return_from_isr"} \X (0..16))
<1> DEFINE A == Labels \X {0}
           B == {"vector", "vector_number"} \X Vectors
           C == {"trap_enter_all", "return_from_isr"} \X (0..16)
<1>1. ASSUME NEW l \in Labels PROVE At(l) \in A
  BY DEF At, Place
<1>2. ASSUME NEW l \in {"vector", "vector_number"}, NEW v \in Vectors PROVE Place(l, v) \in B
  BY DEF Place
<1>3. ASSUME NEW l \in {"trap_enter_all", "return_from_isr"}, NEW k \in 0..16 PROVE Place(l, k) \in C
  BY DEF Place
<1>4. 16 \in 0..16 /\ \A k \in 0..15 : k \in 0..16
  BY SMT
<1> HIDE DEF A, B, C
<1>5. at = Home(t) => at \in A
  BY <1>1 DEF Home, Labels
<1>6. ASSUME NEW n, NEW trap, Level(t, n, s, trap, at, f) PROVE at \in A \/ at \in B \/ at \in C
  <2>1. trap.vector \in Vectors
    BY <1>6 DEF Level, Trap
  <2>2. PICK e : Spot(t, n, s, trap, e, at, f)
    BY <1>6 DEF Level
  <2>3. CASE InStub(s, trap, e, at, f)
    BY <1>2, <2>1, <2>3 DEF InStub
  <2>4. CASE InNumber(s, trap, e, at, f)
    BY <1>2, <2>1, <2>4 DEF InNumber
  <2>5. CASE InEnter(s, trap, e, at, f)
    BY <1>3, <1>4, <2>5 DEF InEnter
  <2>6. CASE AtCall(s, trap, e, at, f)
    BY <1>3, <1>4, <2>6 DEF AtCall
  <2>7. CASE AtHandler(s, trap, e, at, f)
    BY <1>1, <2>7 DEF AtHandler, Labels
  <2>8. CASE InBody(t, n, s, trap, e, at, f)
    BY <1>1, <2>8 DEF InBody, InHandler, Labels
  <2>9. CASE InYield(t, n, s, trap, e, at, f)
    BY <1>1, <2>9 DEF InYield, Labels
  <2>10. CASE InReturn(s, trap, e, at, f)
    BY <1>3, <1>4, <2>10 DEF InReturn
  <2>11. CASE AtIretq(s, trap, e, at, f)
    BY <1>3, <1>4, <2>11 DEF AtIretq
  <2>12. CASE AtBirth(s, trap, e, at)
    BY <1>1, <2>12 DEF AtBirth, Labels
  <2>. QED BY <2>2, <2>3, <2>4, <2>5, <2>6, <2>7, <2>8, <2>9, <2>10, <2>11, <2>12 DEF Spot
<1>7. at \in A \/ at \in B \/ at \in C
  BY <1>5, <1>6 DEF Live, Lone
<1>. QED BY <1>7 DEF A, B, C

\* The invariant bounds the stacks and the traps.
LEMMA InvTypeOK == ASSUME Inv PROVE TypeOK
<1>1. cur \in Threads \cup {Scheduler} /\ if \in BOOLEAN
  BY DEF Inv, TInv, Stacks
<1>2. pc \in (Labels \X {0}) \cup ({"vector", "vector_number"} \X Vectors)
               \cup ({"trap_enter_all", "return_from_isr"} \X (0..16))
  <2>1. CASE pc = At("sched_start")
    BY <2>1 DEF At, Place, Labels
  <2>2. CASE pc # At("sched_start")
    <3>1. Live(cur, stack[cur], trapped[cur], pc, regs, if)
      BY <2>2 DEF Inv, Running
    <3>. QED BY <3>1, LiveCode
  <2>. QED BY <2>1, <2>2
<1>3. 2 * (1 + 5 + 2 + 15 + 3) + 9 = 61
  BY SMT
<1>4. ASSUME NEW t \in Threads PROVE Len(stack[t]) <= 61 /\ Len(trapped[t]) <= 2
  <2>1. IsSeq(stack[t]) /\ t # Scheduler /\ Len(stack[t]) \in Nat
    BY TrapFrameAssumption, Sequence DEF Inv, TInv, Stacks
  <2>2. CASE t = cur
    <3>1. Live(cur, stack[cur], trapped[cur], pc, regs, if)
      BY <2>1, <2>2 DEF Inv, Running, Scheduling
    <3>2. Len(stack[t]) <= 54 /\ Len(trapped[t]) <= 2
      BY <2>1, <2>2, <3>1, LiveSize
    <3>. QED BY SMT, <2>1, <3>2
  <2>3. CASE t # cur
    <3> DEFINE s == stack[t]
               f == Popped(s, CtxPops)
    <3>1. Parked(t, s, trapped[t])
      BY <2>3 DEF Inv
    <3>2. IsRegs(f) /\ \A k \in 1..6 : f[CtxPops[k]] = s[Len(s) + 1 - k]
      BY PoppedRegs, PoppedCtx
    <3> HIDE DEF f
    <3>3. Live(t, Drop(s, 7), trapped[t], s[Len(s) - 6], f, FALSE) /\ Len(s) >= 7
      BY <3>1, <3>2 DEF Parked
    <3>4. 7 \in 0..Len(s)
      BY SMT, <2>1, <3>3
    <3>5. IsSeq(Drop(s, 7)) /\ Len(Drop(s, 7)) = Len(s) - 7
      BY <2>1, <3>4, Dropped
    <3>6. Len(s) - 7 <= 54 /\ Len(trapped[t]) <= 2
      BY <3>3, <3>5, LiveSize
    <3>. QED BY SMT, <2>1, <3>6
  <2>. QED BY <2>2, <2>3
<1>5. \A t \in Threads : Len(stack[t]) <= 2 * (1 + 5 + 2 + 15 + 3) + 9 /\ Len(trapped[t]) <= 2
  BY <1>3, <1>4
<1>. QED BY <1>1, <1>2, <1>5 DEF TypeOK

\* The invariant has what handle_interrupt and sched_ctxsw's return rely on.
LEMMA InvExact == ASSUME Inv PROVE FrameIsExact
<1> DEFINE trap == Top(trapped[cur])
           n == Len(trapped[cur])
           tf == regs["rdi"]
<1>1. ASSUME pc = At("handle_interrupt")
      PROVE  /\ Field(tf, TRAP_NO) = Num(trap.vector)
             /\ Field(tf, ERROR_CODE) =
                  IF trap.vector \in ErrorCode THEN <<"error", trap.vector>> ELSE Num(0)
             /\ Field(tf, RIP) = trap.pc
  <2>1. pc[1] = "handle_interrupt"
    BY <1>1, Places
  <2>2. pc[1] \notin {"main", "enable_interrupt", "sched_start"}
    BY <2>1
  <2>3. PICK e \in Nat : Base(S, trap, e) /\ Spot(cur, n, S, trap, e, pc, regs)
    BY <2>2, Inner
  <2>4. AtHandler(S, trap, e, pc, regs)
    BY <2>1, <2>3, Spots
  <2>5. /\ S[e] = trap.pc /\ S[e + 1] = ErrorWord(trap.vector) /\ S[e + 2] = Num(trap.vector)
        /\ tf = Num(e + 17)
    BY <2>3, <2>4 DEF AtHandler, Framed, Tagged, Base
  <2>6. (e + 17) - 15 = e + 2 /\ (e + 17) - 16 = e + 1 /\ (e + 17) - 17 = e
    BY SMT
  <2>7. \A k : Field(tf, k) = S[(e + 17) - k]
    <3> DEFINE d == e + 17
    <3> HIDE DEF d
    <3>1. \A k : Field(Num(d), k) = S[d - k]
      BY FieldIs
    <3>. QED BY <2>5, <3>1 DEF d
  <2>8. Field(tf, 15) = Num(trap.vector) /\ Field(tf, 16) = ErrorWord(trap.vector) /\ Field(tf, 17) = trap.pc
    BY <2>5, <2>6, <2>7
  <2>. QED BY <2>8 DEF TRAP_NO, ERROR_CODE, RIP, ErrorWord
<1>2. ASSUME pc = At("switched in"), NEW r \in CalleeSaved
      PROVE  regs[r] = Scratch("handler")[r]
  <2>1. pc[1] = "switched in"
    BY <1>2, Places
  <2>2. pc[1] \notin {"main", "enable_interrupt", "sched_start"}
    BY <2>1
  <2>3. PICK e \in Nat : Spot(cur, n, S, trap, e, pc, regs)
    BY <2>2, Inner
  <2>4. InYield(cur, n, S, trap, e, pc, regs)
    BY <2>1, <2>3, Spots
  <2>5. HandlerRegs(cur, n, regs)
    BY <2>4 DEF InYield, Yielding
  <2>6. r \in Regs
    BY AllCalleeSaved
  <2>. QED BY <2>5, <2>6, ScratchRegs DEF HandlerRegs
<1>. QED BY <1>1, <1>2, InvTypeOK DEF FrameIsExact

\* The trap frame that handle_interrupt reads is the one the processor, the
\* stubs of vector.s and trap_enter_all laid out, for every vector, also when
\* interrupts come between their pushes; sched_ctxsw gives a process its
\* registers back; and no stack grows past a trap inside a system call with the
\* switch that ends it.
THEOREM FrameExact == Spec => []FrameIsExact
<1>1. Init => Inv
  BY InitInv
<1>2. Inv /\ [Next]_vars => Inv'
  BY NextInv
<1>3. Inv => FrameIsExact
  BY InvExact
<1>. QED BY <1>1, <1>2, <1>3, PTL DEF Spec

\* The iretq of return_from_isr restores what the trap interrupted: it goes back
\* to the same place with the same interrupt flag, registers and stack, but for
\* the result of a system call in rax, whatever ran in between; and no other
\* step ends a trap.
THEOREM Transparent == Spec => TrapIsTransparent
<1> DEFINE A == Len(trapped'[cur]) < Len(trapped[cur]) =>
                  LET trap == Top(trapped[cur])
                  IN /\ cur' = cur /\ pc' = trap.pc /\ if' = trap.if
                     /\ regs' = trap.regs /\ stack'[cur] = trap.stack
<1>1. ASSUME Inv, Iretq PROVE A
  <2>1. cur \in DOMAIN stack
    <3>1. stack = [t \in Stacks |-> stack[t]] /\ cur \in Stacks
      BY <1>1 DEF Inv, TInv
    <3>. QED BY <3>1
  <2>. QED BY <1>1, <2>1, IretqBack
<1>2. ASSUME Inv, \/ trapped' = trapped
                  \/ \E x : trapped' = [trapped EXCEPT ![cur] = Append(trapped[cur], x)]
      PROVE  ~(Len(trapped'[cur]) < Len(trapped[cur]))
  <2> DEFINE T == trapped[cur]
  <2>1. trapped = [t \in Stacks |-> trapped[t]] /\ cur \in Stacks /\ IsSeq(T)
    BY <1>2 DEF Inv, TInv
  <2>2. Len(T) \in Nat
    BY <2>1, Sequence
  <2>3. CASE trapped' = trapped
    <3>1. trapped'[cur] = T
      BY <2>3
    <3> HIDE DEF T
    <3>2. ~(Len(T) < Len(T))
      BY SMT, <2>2
    <3>. QED BY <3>1, <3>2 DEF T
  <2>4. ASSUME NEW x, trapped' = [trapped EXCEPT ![cur] = Append(trapped[cur], x)]
        PROVE  ~(Len(trapped'[cur]) < Len(trapped[cur]))
    <3>1. trapped'[cur] = Append(T, x)
      BY <2>1, <2>4
    <3>2. Len(Append(T, x)) = Len(T) + 1
      <4> HIDE DEF T
      <4>. QED BY <2>1, Recorded
    <3>3. ~(Len(T) + 1 < Len(T))
      <4> HIDE DEF T
      <4>. QED BY SMT, <2>2
    <3>. QED BY <3>1, <3>2, <3>3
  <2>. QED BY <1>2, <2>3, <2>4
<1>3. ASSUME Next, ~Iretq
      PROVE  \/ trapped' = trapped
             \/ \E x : trapped' = [trapped EXCEPT ![cur] = Append(trapped[cur], x)]
  <2>1. ASSUME NEW v, NEW pad, Raise(v, pad)
        PROVE  \E x : trapped' = [trapped EXCEPT ![cur] = Append(trapped[cur], x)]
    BY <2>1 DEF Raise, Trapped
  <2>2. ASSUME NEW m, NEW pad, Syscall(m, pad)
        PROVE  \E x : trapped' = [trapped EXCEPT ![cur] = Append(trapped[cur], x)]
    BY <2>2 DEF Syscall, Trapped
  <2>3. Compute \/ Vector \/ TrapEnterAll \/ HandleInterrupt \/ Result => trapped' = trapped
    BY DEF Compute, Vector, TrapEnterAll, HandleInterrupt, Result
  <2>4. HandleSyscall \/ HandlerTail => trapped' = trapped
    BY DEF HandleSyscall, HandlerTail, SchedYield, SchedCtxsw
  <2>5. SwitchedIn \/ Epilogue \/ ReturnFromIsr \/ SchedAcquire \/ ProcKentry => trapped' = trapped
    BY DEF SwitchedIn, Epilogue, ReturnFromIsr, SchedAcquire, ProcKentry
  <2>6. ASSUME NEW t, SchedStart(t) PROVE trapped' = trapped
    BY <2>6 DEF SchedStart, SchedCtxsw
  <2>. QED BY <1>3, <2>1, <2>2, <2>3, <2>4, <2>5, <2>6 DEF Next
<1>4. Inv /\ [Next]_vars => [A]_vars
  BY <1>1, <1>2, <1>3
<1>5. Init => Inv
  BY InitInv
<1>6. Inv /\ [Next]_vars => Inv'
  BY NextInv
<1>. QED BY <1>4, <1>5, <1>6, PTL DEF Spec, TrapIsTransparent
=============================================================================
