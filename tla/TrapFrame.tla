------------------------------- MODULE TrapFrame -------------------------------
(***************************************************************************)
(* What the trap entries and the context switch do with the registers and  *)
(* the stacks: the 256 stubs of vector.s, trap_enter_all and               *)
(* return_from_isr of trap.s, sched_ctxsw of swtch.s, and the frames that  *)
(* proc_kern_init and sched_create_kproc lay out for a new process.        *)
(*                                                                         *)
(* A stack is a sequence of words, its top last; rsp is its length.  A     *)
(* word is a pair that tells what was pushed.  What a function keeps below *)
(* rsp is not part of it: the processor's pushes begin there.  Kernel.tla  *)
(* has the same control flow with saved program points for the frames.     *)
(*                                                                         *)
(* The assembly is modelled an instruction at a time, because int 0x80     *)
(* leaves interrupts on: they come between any two of its pushes and pops. *)
(***************************************************************************)
EXTENDS Integers, Sequences, Functions

CONSTANTS Threads,     \* the processes
          Callers,     \* those that make system calls; the idle process makes none
          Scheduler,   \* the boot stack, on which sched_start runs
          Traps,       \* the vectors that are raised
          Pads         \* the words that aligning rsp to 16 bytes may skip

Vectors == 0 .. 255
BP == 3
DOUBLE_FAULT == 8
GP == 13
PAGE_FAULT == 14
IRQ_0 == 32
IRQ_COM1 == 36
IRQ_ERROR == 51
IRQ_SPURIOUS == 63
SYSCALL == 128
Numbers == {"SYS_YIELD", "SYS_CON_READ", "unknown"}

\* What the local APIC delivers; the other vectors are exceptions.
Irqs == {IRQ_0, IRQ_COM1, IRQ_ERROR, IRQ_SPURIOUS}

ASSUME TrapFrameAssumption ==
  /\ Scheduler \notin Threads /\ Callers \subseteq Threads
  /\ Traps \subseteq Vectors /\ Pads \subseteq {0, 1}

\* The place k instructions after a label, a label, and a number.
Place(label, k) == <<label, k>>
At(label) == Place(label, 0)
Num(n) == <<"int", n>>

\* The vectors for which the processor pushes an error code.
ErrorCode == {8, 10, 11, 12, 13, 14, 17}

\* trap_enter_all's pushes and return_from_isr's pops, sched_ctxsw's pushes
\* and pops, in program order.
TrapPushes == <<"r15", "r14", "r13", "r12", "r11", "r10", "r9", "r8", "rbp", "rdi", "rsi",
                "rbx", "rdx", "rcx", "rax">>
\* Mutant: two pops are exchanged.
TrapPops_Swapped == <<"rax", "rcx", "rdx", "rbx", "rdi", "rsi", "rbp", "r8", "r9", "r10", "r11",
                      "r12", "r13", "r14", "r15">>
TrapPops == <<"rax", "rcx", "rdx", "rbx", "rsi", "rdi", "rbp", "r8", "r9", "r10", "r11",
              "r12", "r13", "r14", "r15">>
CtxPushes == <<"r15", "r14", "r13", "r12", "rbp", "rbx">>
CtxPops == <<"rbx", "rbp", "r12", "r13", "r14", "r15">>

Regs == Range(TrapPushes)
CalleeSaved == {"rbx", "rbp", "r12", "r13", "r14", "r15"}

\* The words of struct trapframe, counted from tf.
RAX == 0
TRAP_NO == 15
ERROR_CODE == 16
RIP == 17

VARIABLES cur,       \* the thread whose stack rsp is in
          stack,     \* the stack of each thread
          regs,      \* the registers
          pc,
          if,        \* the interrupt flag
          trapped    \* auxiliary: what each thread's pending traps interrupted

vars == <<cur, stack, regs, pc, if, trapped>>

S == stack[cur]

\* The word rsp points to, and what add rsp, 8 * n leaves.
Top(s) == s[Len(s)]
Drop(s, n) == SubSeq(s, 1, Len(s) - n)

Pushed(order) == [i \in 1..Len(order) |-> regs[order[i]]]
Popped(s, order) ==
  [r \in Regs |-> IF r \in Range(order)
                  THEN s[Len(s) + 1 - CHOOSE i \in 1..Len(order) : order[i] = r]
                  ELSE regs[r]]

\* What compiled code may leave in the registers it uses.
Scratch(label) == [r \in Regs |-> <<"reg", <<cur, r, label, Len(trapped[cur])>>>>]

\* proc_kern_init and sched_create_kproc
NewStack ==
  <<<<"sel", "ss">>, Num(0), <<"flags", TRUE>>, <<"sel", "cs">>, At("main"), Num(0), Num(0)>>
  \o [i \in 1..Len(TrapPushes) |-> Num(0)]
  \o <<At("return_from_isr"), At("proc_kentry")>>
  \o [i \in 1..Len(CtxPushes) |-> Num(0)]

Init ==
  /\ cur = Scheduler
  /\ stack = [t \in Threads \cup {Scheduler} |-> IF t = Scheduler THEN <<>> ELSE NewStack]
  /\ regs = [r \in Regs |-> <<"reg", <<Scheduler, r, "sched_start", 0>>>>]
  /\ pc = At("enable_interrupt")
  /\ if = TRUE
  /\ trapped = [t \in Threads \cup {Scheduler} |->
                  IF t = Scheduler THEN <<>>
                  ELSE <<[vector |-> 0, pc |-> At("main"), if |-> TRUE, stack |-> <<>>,
                          regs |-> [r \in Regs |-> Num(0)]]>>]

-----------------------------------------------------------------------------
(* Traps                                                                   *)

\* The program of a process goes on, and its registers change.
Compute ==
  /\ pc = At("main")
  /\ regs' = Scratch("main")
  /\ UNCHANGED <<cur, stack, pc, if, trapped>>

\* The processor aligns rsp (pad) and pushes its frame.
Interrupted(pad) ==
  S \o [i \in 1..pad |-> <<"pad", 0>>]
    \o <<<<"sel", "ss">>, Num(Len(S)), <<"flags", if>>, <<"sel", "cs">>, pc>>

\* What the trap has to give back.
Trapped(v, r) == trapped' = [trapped EXCEPT ![cur] =
  Append(@, [vector |-> v, pc |-> pc, if |-> if, stack |-> S, regs |-> r])]

\* Through an interrupt gate: an error code where there is one, and IF is
\* cleared.  An exception is the program's; an interrupt comes wherever IF is
\* on, between any two instructions: of a program, of sched_start before it
\* has the lock, and of the whole way of a system call into and out of the
\* kernel, but for where it holds a lock.
Raise(v, pad) ==
  /\ v # SYSCALL
  /\ IF v \in Irqs THEN if ELSE pc = At("main")
  /\ stack' = [stack EXCEPT ![cur] =
         Interrupted(pad) \o (IF v \in ErrorCode THEN <<<<"error", v>>>> ELSE <<>>)]
  /\ Trapped(v, regs)
  /\ if' = FALSE
  /\ pc' = Place("vector", v)
  /\ UNCHANGED <<cur, regs>>

\* syscall0: int $0x80 with the number in rax, through a trap gate: IF stays.
\* It comes back with the result.
Syscall(n, pad) ==
  /\ pc = At("main") /\ cur \in Callers
  /\ regs' = [regs EXCEPT !["rax"] = <<"number", n>>]
  /\ stack' = [stack EXCEPT ![cur] = Interrupted(pad)]
  /\ Trapped(SYSCALL,
       [regs EXCEPT !["rax"] = IF n = "unknown" THEN <<"number", n>> ELSE Num(0)])
  /\ pc' = Place("vector", SYSCALL)
  /\ UNCHANGED <<cur, if>>

Push(word) == stack' = [stack EXCEPT ![cur] = Append(@, word)]

\* Mutant: every stub pushes an error code.
Vector_AlwaysPushes ==
  /\ \/ pc[1] = "vector" /\ Push(Num(0)) /\ pc' = Place("vector_number", pc[2])
     \/ pc[1] = "vector_number" /\ Push(Num(pc[2])) /\ pc' = At("trap_enter_all")
  /\ UNCHANGED <<cur, regs, if, trapped>>

\* vector_<v>: push 0, in the stubs of the vectors for which the processor has
\* not pushed a code; push v
Vector ==
  /\ \/ /\ pc[1] = "vector" /\ pc[2] \notin {8, 10, 11, 12, 13, 14, 17}
        /\ Push(Num(0))
        /\ pc' = Place("vector_number", pc[2])
     \/ /\ \/ pc[1] = "vector" /\ pc[2] \in {8, 10, 11, 12, 13, 14, 17}
           \/ pc[1] = "vector_number"
        /\ Push(Num(pc[2]))
        /\ pc' = At("trap_enter_all")
  /\ UNCHANGED <<cur, regs, if, trapped>>

\* The pushes; mov rdi, rsp; call handle_interrupt
TrapEnterAll ==
  /\ pc[1] = "trap_enter_all"
  /\ \/ /\ pc[2] < 15
        /\ Push(regs[TrapPushes[pc[2] + 1]])
        /\ pc' = Place("trap_enter_all", pc[2] + 1)
        /\ UNCHANGED regs
     \/ /\ pc[2] = 15
        /\ regs' = [regs EXCEPT !["rdi"] = Num(Len(S))]
        /\ pc' = Place("trap_enter_all", 16)
        /\ UNCHANGED stack
     \/ /\ pc[2] = 16
        /\ Push(At("return_from_isr"))
        /\ pc' = At("handle_interrupt")
        /\ UNCHANGED regs
  /\ UNCHANGED <<cur, if, trapped>>

\* A field of the frame tf points to.
Field(tf, k) == S[tf[2] - k]

\* handle_interrupt: the compiled function keeps the registers it must not
\* change, and tf, in its frame; the vectors without a case of their own panic.
HandleInterrupt ==
  /\ pc = At("handle_interrupt")
  /\ pc' = At(LET no == Field(regs["rdi"], TRAP_NO) IN
              CASE no \in {Num(v) : v \in {IRQ_SPURIOUS, BP, IRQ_0, IRQ_COM1}} -> "tail"
                [] no = Num(SYSCALL) -> "handle_syscall"
                [] OTHER -> "panic")
  /\ stack' = [stack EXCEPT ![cur] =
         @ \o <<<<"frame", [r \in CalleeSaved |-> regs[r]]>>, regs["rdi"]>>]
  /\ regs' = Scratch("handler")
  /\ UNCHANGED <<cur, if, trapped>>

\* tf->rax = ...; break
Result ==
  /\ pc = At("result")
  /\ stack' = [stack EXCEPT ![cur][Top(S)[2] - RAX] = Num(0)]
  /\ pc' = At("tail")
  /\ UNCHANGED <<cur, regs, if, trapped>>

\* sched_ctxsw: the callee-saved registers and the return address go on the
\* old stack and come from the new one.
SchedCtxsw(to, frame, back) ==
  /\ stack' = [stack EXCEPT
         ![cur] = @ \o frame \o <<At(back)>> \o Pushed(CtxPushes),
         ![to] = Drop(@, Len(CtxPops) + 1)]
  /\ regs' = Popped(stack[to], CtxPops)
  /\ pc' = stack[to][Len(stack[to]) - Len(CtxPops)]
  /\ cur' = to
  /\ UNCHANGED trapped

\* sched_yield, from acquire to sched_ctxsw: the frames hold the caller to
\* return to and the interrupt flag that release restores.
SchedYield(caller) ==
  /\ SchedCtxsw(Scheduler, <<<<"flags", if>>, At(caller)>>, "switched in")
  /\ if' = FALSE

\* handle_syscall; the registers hold its own values when it calls.
HandleSyscall ==
  /\ pc = At("handle_syscall")
  /\ \/ Field(Top(S), RAX) = <<"number", "SYS_YIELD">> /\ SchedYield("result")
     \/ /\ Field(Top(S), RAX) = <<"number", "SYS_CON_READ">>
        /\ pc' = At("result")
        /\ UNCHANGED <<cur, stack, regs, if, trapped>>
     \/ /\ Field(Top(S), RAX) = <<"number", "unknown">>
        /\ pc' = At("tail")
        /\ UNCHANGED <<cur, stack, regs, if, trapped>>

\* Back in sched_switch_out: sched_yield releases the lock and returns.
SwitchedIn ==
  /\ pc = At("switched in")
  /\ pc' = Top(S)
  /\ if' = (S[Len(S) - 1] = <<"flags", TRUE>>)
  /\ stack' = [stack EXCEPT ![cur] = Drop(@, 2)]
  /\ UNCHANGED <<cur, regs, trapped>>

\* The end of handle_interrupt: a process that is not RUNNING yields; before
\* the first switch curproc() is NULL.
HandlerTail ==
  /\ pc = At("tail")
  /\ \/ cur # Scheduler /\ SchedYield("epilogue")
     \/ pc' = At("epilogue") /\ UNCHANGED <<cur, stack, regs, if, trapped>>

\* handle_interrupt returns, with its caller's registers.
Epilogue ==
  /\ pc = At("epilogue")
  /\ regs' = [r \in Regs |-> IF r \in CalleeSaved THEN S[Len(S) - 1][2][r] ELSE regs[r]]
  /\ pc' = S[Len(S) - 2]
  /\ stack' = [stack EXCEPT ![cur] = Drop(@, 3)]
  /\ UNCHANGED <<cur, if, trapped>>

\* return_from_isr: the pops; add rsp, 16
ReturnFromIsr ==
  /\ pc[1] = "return_from_isr"
  /\ \/ /\ pc[2] < 15
        /\ regs' = [regs EXCEPT ![TrapPops[pc[2] + 1]] = Top(S)]
        /\ stack' = [stack EXCEPT ![cur] = Drop(@, 1)]
     \/ /\ pc[2] = 15
        /\ stack' = [stack EXCEPT ![cur] = Drop(@, 2)]
        /\ UNCHANGED regs
  /\ pc' = Place("return_from_isr", pc[2] + 1)
  /\ UNCHANGED <<cur, if, trapped>>

\* iretq
Iretq ==
  /\ pc = Place("return_from_isr", 16)
  /\ pc' = Top(S)
  /\ if' = (S[Len(S) - 2] = <<"flags", TRUE>>)
  /\ stack' = [stack EXCEPT ![cur] = SubSeq(@, 1, S[Len(S) - 3][2])]
  /\ trapped' = [trapped EXCEPT ![cur] = Drop(@, 1)]
  /\ UNCHANGED <<cur, regs>>

-----------------------------------------------------------------------------
(* The scheduler                                                           *)

\* sched_start takes the lock; from here on the scheduler runs with IF off.
SchedAcquire ==
  /\ pc = At("enable_interrupt")
  /\ if' = FALSE
  /\ pc' = At("sched_start")
  /\ UNCHANGED <<cur, stack, regs, trapped>>

\* sched_start switches to a process, the first time or again.
SchedStart(t) ==
  /\ pc = At("sched_start")
  /\ SchedCtxsw(t, <<>>, "sched_start")
  /\ UNCHANGED if

\* proc_kentry, entered by sched_ctxsw's ret, returns to return_from_isr.
ProcKentry ==
  /\ pc = At("proc_kentry")
  /\ pc' = Top(S)
  /\ stack' = [stack EXCEPT ![cur] = Drop(@, 1)]
  /\ UNCHANGED <<cur, regs, if, trapped>>

Next ==
  \/ Compute
  \/ \E v \in Traps, pad \in Pads : Raise(v, pad)
  \/ \E n \in Numbers, pad \in Pads : Syscall(n, pad)
  \/ Vector \/ TrapEnterAll \/ HandleInterrupt \/ HandleSyscall \/ Result
  \/ SwitchedIn \/ HandlerTail \/ Epilogue \/ ReturnFromIsr \/ Iretq
  \/ SchedAcquire
  \/ \E t \in Threads : SchedStart(t)
  \/ ProcKentry

Spec == Init /\ [][Next]_vars

-----------------------------------------------------------------------------
(* Properties                                                              *)

Labels == {"main", "handle_interrupt", "handle_syscall", "result", "tail", "epilogue", "panic",
           "switched in", "enable_interrupt", "sched_start", "proc_kentry"}

\* The program counter is a place in the code, and a stack has room for a trap
\* inside a system call and the switch that may end it, and no more.
TypeOK ==
  /\ cur \in Threads \cup {Scheduler}
  /\ if \in BOOLEAN
  /\ pc \in (Labels \X {0}) \cup ({"vector", "vector_number"} \X Vectors)
           \cup ({"trap_enter_all", "return_from_isr"} \X (0..16))
  /\ \A t \in Threads : Len(stack[t]) <= 2 * (1 + 5 + 2 + 15 + 3) + 9 /\ Len(trapped[t]) <= 2

\* handle_interrupt finds in the trap frame the vector that was raised, the
\* processor's error code or the 0 that stands for it, and the place that was
\* interrupted: the stubs make the frame of every vector the same shape, also
\* when interrupts come between their pushes.  And sched_ctxsw returns to a
\* process that was switched out with the registers its caller relies on as
\* that process left them.
FrameIsExact ==
  /\ TypeOK
  /\ pc = At("handle_interrupt") =>
       LET tf == regs["rdi"]
           trap == Top(trapped[cur])
       IN /\ Field(tf, TRAP_NO) = Num(trap.vector)
          /\ Field(tf, ERROR_CODE) =
               IF trap.vector \in ErrorCode THEN <<"error", trap.vector>> ELSE Num(0)
          /\ Field(tf, RIP) = trap.pc
  /\ pc = At("switched in") =>
       \A r \in CalleeSaved : regs[r] = Scratch("handler")[r]

\* The iretq that ends a trap goes back to the place that was interrupted, with
\* the interrupt flag, every register and every word of the stack up to rsp as
\* they were, except for the result of a system call in rax; whatever ran in
\* between: other processes, and traps inside the trap, also those that came
\* half way through its pushes or its pops.
TrapIsTransparent ==
  [][ Len(trapped'[cur]) < Len(trapped[cur]) =>
        LET trap == Top(trapped[cur])
        IN /\ cur' = cur /\ pc' = trap.pc /\ if' = trap.if
           /\ regs' = trap.regs /\ stack'[cur] = trap.stack ]_vars
=============================================================================
