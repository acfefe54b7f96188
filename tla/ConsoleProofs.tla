---------------------------- MODULE ConsoleProofs ----------------------------
(***************************************************************************)
(* The two ends of the console.  The ring buffer of kernel/src/util/fifo.c *)
(* that input passes through implements a bounded FIFO queue, for every    *)
(* buffer size and every set of bytes.  The shell of kernel/src/kshell.c   *)
(* shows the line it has and splits it into its words, for every screen,   *)
(* line length, number of words and set of letters.                        *)
(***************************************************************************)
EXTENDS SpscFifo, KShell, SequenceTheorems, FiniteSetTheorems, TLAPS

\* The prover of the steps that name no other.
USE ZenonT(30)

-----------------------------------------------------------------------------
(* The ring buffer                                                         *)

\* How far index b is ahead of index a in the ring.
Dist(a, b) == IF b >= a THEN b - a ELSE b + buffer_size - a

\* What the writer knows: the read index it loaded is behind the present one
\* by what the reader took since, the write index is its own.
WriterInv ==
  /\ wpc # "idle" => byte \in Byte
  /\ wpc \in {"load_write", "check", "store"} => Dist(read, write) <= Dist(wread, write)
  /\ wpc \in {"check", "store"} => wwrite = write
  /\ wpc = "store" => Advance(wwrite) # wread /\ buffer[wwrite] = byte

\* What the reader knows: the read index is its own, the write index it
\* loaded is behind the present one by what the writer added since.
ReaderInv ==
  /\ rpc \in {"load_write", "check", "store"} => rread = read
  /\ rpc \in {"check", "store"} => Dist(read, rwrite) <= Dist(read, write)
  /\ rpc = "store" => rread # rwrite /\ val = buffer[rread]

\* The queued slots hold bytes.
QueuedInv == \A i \in 1..Count : buffer[SlotOf(i)] \in Byte

IInv == TypeOK /\ WriterInv /\ ReaderInv /\ QueuedInv

\* The modulus of fifo.c wraps an index at the end of the buffer.
LEMMA AdvanceWraps ==
  ASSUME NEW i \in Slots
  PROVE  /\ Advance(i) = IF i + 1 = buffer_size THEN 0 ELSE i + 1
         /\ Advance(i) \in Slots
<1>1. buffer_size \in Nat /\ buffer_size > 0
  BY SMT, FifoAssumption
<1>2. CASE i + 1 = buffer_size
  BY SMT, <1>1, <1>2 DEF Advance, Slots
<1>3. CASE i + 1 # buffer_size
  BY SMT, <1>1, <1>3 DEF Advance, Slots
<1>. QED BY <1>2, <1>3

\* The empty buffer has the invariant.
LEMMA InitInv == Init => IInv
BY SMT, FifoAssumption DEF Init, IInv, TypeOK, WriterInv, ReaderInv, QueuedInv, Slots, Count, Pcs

\* Every step of the writer and of the reader preserves the invariant.
LEMMA StepInv == IInv /\ [Next]_vars => IInv'
<1> SUFFICES ASSUME IInv, [Next]_vars PROVE IInv'
  OBVIOUS
<1>0. buffer_size \in Nat /\ buffer_size > 0 /\ NULL \notin Byte
  BY SMT, FifoAssumption
<1>a. /\ read \in Slots /\ write \in Slots /\ wread \in Slots /\ wwrite \in Slots
      /\ rread \in Slots /\ rwrite \in Slots
  BY DEF IInv, TypeOK
<1>b. /\ Advance(write) = IF write + 1 = buffer_size THEN 0 ELSE write + 1
      /\ Advance(write) \in Slots
  BY <1>a, AdvanceWraps
<1>c. /\ Advance(read) = IF read + 1 = buffer_size THEN 0 ELSE read + 1
      /\ Advance(read) \in Slots
  BY <1>a, AdvanceWraps
<1> USE <1>0, <1>a, <1>b, <1>c DEF IInv, Slots, Count, SlotOf, Dist, Pcs
<1>1. ASSUME NEW b \in Byte, WriteCall(b) PROVE IInv'
  BY <1>1 DEF WriteCall, TypeOK, WriterInv, ReaderInv, QueuedInv, fifoVars, readerVars
<1>2. CASE WriteLoadRead
  BY SMT, <1>2 DEF WriteLoadRead, TypeOK, WriterInv, ReaderInv, QueuedInv, fifoVars, readerVars
<1>3. CASE WriteLoadWrite
  BY <1>3 DEF WriteLoadWrite, TypeOK, WriterInv, ReaderInv, QueuedInv, fifoVars, readerVars
<1>4. CASE WriteFull
  BY <1>4 DEF WriteFull, TypeOK, WriterInv, ReaderInv, QueuedInv, fifoVars, readerVars
<1>5. CASE WriteSlot
  \* The slot written is not queued: the ring has room seen from wread.
  <2>1. /\ wwrite = write /\ Advance(write) # wread
        /\ Dist(read, write) <= Dist(wread, write)
        /\ buffer' = [buffer EXCEPT ![write] = byte] /\ byte \in Byte
        /\ UNCHANGED <<read, write, rread, rwrite, rpc, val, rret, wread, wwrite, byte, wret>>
        /\ wpc' = "store"
    BY <1>5 DEF WriteSlot, WriterInv, readerVars
  <2>2. TypeOK'
    BY <2>1 DEF TypeOK
  <2>3. \A i \in 1..Count : SlotOf(i) \in Slots /\ SlotOf(i) # write
    BY SMT, <2>1
  <2>4. QueuedInv'
    BY <2>1, <2>3 DEF QueuedInv, TypeOK
  <2>5. WriterInv'
    BY <2>1 DEF WriterInv, TypeOK
  <2>6. ASSUME rpc = "store" PROVE buffer'[rread] = buffer[rread]
    <3>1. rread = read /\ read # write
      BY SMT, <2>6 DEF ReaderInv
    <3>. QED BY <3>1, <2>1 DEF TypeOK
  <2>7. ReaderInv'
    BY <2>1, <2>6 DEF ReaderInv
  <2>. QED BY <2>2, <2>4, <2>5, <2>7
<1>6. CASE WriteStore
  <2>1. /\ wwrite = write /\ Advance(write) # wread /\ buffer[write] = byte
        /\ Dist(read, write) <= Dist(wread, write) /\ byte \in Byte
        /\ write' = Advance(write)
        /\ UNCHANGED <<buffer, read, rread, rwrite, rpc, val, rret, wread, wwrite, byte>>
        /\ wpc' = "idle" /\ wret' = "ok"
    BY <1>6 DEF WriteStore, WriterInv, readerVars
  <2>2. TypeOK'
    BY <2>1 DEF TypeOK
  <2>3. Count' = Count + 1
    BY SMT, <2>1
  <2>4. \A i \in Nat : SlotOf(i)' = SlotOf(i)
    BY <2>1
  <2>5. SlotOf(Count + 1) = write
    BY SMT, <2>1
  <2>6. QueuedInv'
    <3> SUFFICES ASSUME NEW i \in 1..Count' PROVE buffer'[SlotOf(i)'] \in Byte
      BY DEF QueuedInv
    <3>1. CASE i \in 1..Count
      BY <3>1, <2>1, <2>4 DEF QueuedInv
    <3>2. CASE i = Count + 1
      BY <3>2, <2>1, <2>4, <2>5
    <3>. QED BY SMT, <3>1, <3>2, <2>3
  <2>7. WriterInv'
    BY <2>1 DEF WriterInv
  <2>8. ReaderInv'
    BY SMT, <2>1, <2>3 DEF ReaderInv
  <2>. QED BY <2>2, <2>6, <2>7, <2>8
<1>7. CASE ReadCall
  BY <1>7 DEF ReadCall, TypeOK, WriterInv, ReaderInv, QueuedInv, fifoVars, writerVars
<1>8. CASE ReadLoadRead
  BY <1>8 DEF ReadLoadRead, TypeOK, WriterInv, ReaderInv, QueuedInv, fifoVars, writerVars
<1>9. CASE ReadLoadWrite
  BY SMT, <1>9 DEF ReadLoadWrite, TypeOK, WriterInv, ReaderInv, QueuedInv, fifoVars, writerVars
<1>10. CASE ReadEmpty
  BY <1>10 DEF ReadEmpty, TypeOK, WriterInv, ReaderInv, QueuedInv, fifoVars, writerVars
<1>11. CASE ReadSlot
  BY <1>11 DEF ReadSlot, TypeOK, WriterInv, ReaderInv, QueuedInv, fifoVars, writerVars
<1>12. CASE ReadStore
  <2>1. /\ rread = read /\ read # rwrite /\ val = buffer[read]
        /\ Dist(read, rwrite) <= Dist(read, write)
        /\ read' = Advance(read)
        /\ UNCHANGED <<buffer, write, wread, wwrite, wpc, byte, wret, rread, rwrite, val>>
        /\ rpc' = "idle" /\ rret' = val
    BY <1>12 DEF ReadStore, ReaderInv, writerVars
  <2>2. read # write
    BY SMT, <2>1
  <2>3. TypeOK'
    BY <2>1 DEF TypeOK
  <2>4. Count' = Count - 1
    BY SMT, <2>1, <2>2
  <2>5. \A i \in 1..(Count - 1) : SlotOf(i)' = SlotOf(i + 1)
    BY SMT, <2>1, <2>2
  <2>6. QueuedInv'
    <3> SUFFICES ASSUME NEW i \in 1..Count' PROVE buffer'[SlotOf(i)'] \in Byte
      BY DEF QueuedInv
    <3>1. i \in 1..(Count - 1) /\ i + 1 \in 1..Count
      BY SMT, <2>4
    <3>. QED BY <3>1, <2>1, <2>5 DEF QueuedInv
  <2>7. ReaderInv'
    BY <2>1 DEF ReaderInv
  <2>8. WriterInv'
    BY SMT, <2>1, <2>4 DEF WriterInv
  <2>. QED BY <2>3, <2>6, <2>7, <2>8
<1>13. CASE UNCHANGED vars
  BY <1>13 DEF vars, TypeOK, WriterInv, ReaderInv, QueuedInv, fifoVars, readerVars, writerVars
<1>. QED
  BY <1>1, <1>2, <1>3, <1>4, <1>5, <1>6, <1>7, <1>8, <1>9, <1>10, <1>11, <1>12, <1>13
     DEF Next, Writer, Reader

\* The inductive invariant holds throughout.
THEOREM Invariance == Spec => []IInv
<1>1. Init => IInv
  BY InitInv
<1>2. IInv /\ [Next]_vars => IInv'
  BY StepInv
<1>. QED BY <1>1, <1>2, PTL DEF Spec

\* Type correctness: the indices of fifo.c never leave the buffer.
THEOREM TypeCorrect == Spec => []TypeOK
<1>1. IInv => TypeOK
  BY DEF IInv
<1>. QED BY <1>1, Invariance, PTL

\* The writer and the reader of fifo.c never meet in a slot.
THEOREM RaceFree == Spec => []NoSlotRace
<1>1. IInv => NoSlotRace
  BY SMT, FifoAssumption
     DEF IInv, TypeOK, WriterInv, ReaderInv, NoSlotRace, Dist, Slots
<1>. QED BY <1>1, Invariance, PTL

-----------------------------------------------------------------------------

\* The ring buffer starts as the empty queue.
LEMMA InitRefines == Init => Abs!Init
BY SMT, FifoAssumption
   DEF Init, Abs!Init, Queue, Count, WriteResult, ReadResult, WillFail, WillBeEmpty

\* Seen as a queue, a step of fifo.c is a step of BoundedFifo or nothing: the
\* stores of the indices are the puts and gets, the load of the other side's
\* index decides a failing call.
LEMMA StepRefines == IInv /\ IInv' /\ [Next]_vars => [Abs!Next]_(Abs!fifoVars)
<1> SUFFICES ASSUME IInv, IInv', [Next]_vars PROVE [Abs!Next]_(Abs!fifoVars)
  OBVIOUS
<1>0. buffer_size \in Nat /\ buffer_size > 0
  BY SMT, FifoAssumption
<1>a. read \in Slots /\ write \in Slots /\ wread \in Slots /\ Count \in Nat
  <2>1. read \in Slots /\ write \in Slots /\ wread \in Slots
    BY DEF IInv, TypeOK
  <2>. QED BY SMT, <1>0, <2>1 DEF Slots, Count
<1>b. /\ Advance(write) = IF write + 1 = buffer_size THEN 0 ELSE write + 1
      /\ Advance(read) = IF read + 1 = buffer_size THEN 0 ELSE read + 1
  BY <1>a, AdvanceWraps
<1>c. Queue \in Seq(Byte) /\ Len(Queue) = Count
  <2>1. \A i \in 1..Count : buffer[SlotOf(i)] \in Byte
    BY DEF IInv, QueuedInv
  <2>2. Queue \in [1..Count -> Byte]
    BY <2>1 DEF Queue
  <2>. QED BY SMT, <1>a, <2>2
<1>d. ASSUME Queue' = Queue, WriteResult' = WriteResult, ReadResult' = ReadResult
      PROVE  [Abs!Next]_(Abs!fifoVars)
  BY <1>d DEF Abs!fifoVars
<1>e. ASSUME UNCHANGED fifoVars PROVE Queue' = Queue
  BY <1>e DEF fifoVars, Queue, Count, SlotOf
<1>f. ASSUME UNCHANGED writerVars, UNCHANGED write PROVE WriteResult' = WriteResult
  BY <1>f DEF writerVars, WriteResult, WillFail, Advance
<1>g. ASSUME UNCHANGED readerVars PROVE ReadResult' = ReadResult
  BY <1>g DEF readerVars, ReadResult, WillBeEmpty
<1>1. ASSUME NEW b \in Byte, WriteCall(b) PROVE [Abs!Next]_(Abs!fifoVars)
  <2>1. WriteResult' = WriteResult
    BY <1>1 DEF WriteCall, WriteResult, WillFail
  <2>. QED BY <1>1, <2>1, <1>d, <1>e, <1>g DEF WriteCall
<1>2. CASE WriteLoadRead
  <2>1. Queue' = Queue /\ ReadResult' = ReadResult
    BY <1>2, <1>e, <1>g DEF WriteLoadRead
  <2>2. CASE Advance(write) = read
    <3>1. WriteResult' = "full"
      BY <1>2, <2>2 DEF WriteLoadRead, fifoVars, WriteResult, WillFail, Advance
    <3>2. Len(Queue) = buffer_size - 1
      BY SMT, <1>0, <1>a, <1>b, <1>c, <2>2 DEF Slots, Count
    <3>3. Abs!PutFull
      BY <2>1, <3>1, <3>2 DEF Abs!PutFull
    <3>. QED BY <3>3 DEF Abs!Next
  <2>3. CASE Advance(write) # read
    <3>1. WriteResult' = WriteResult
      BY <1>2, <2>3 DEF WriteLoadRead, fifoVars, WriteResult, WillFail, Advance
    <3>. QED BY <2>1, <3>1, <1>d
  <2>. QED BY <2>2, <2>3
<1>3. CASE WriteLoadWrite
  <2>1. WriteResult' = WriteResult
    BY <1>3 DEF WriteLoadWrite, WriteResult, WillFail, Advance
  <2>. QED BY <1>3, <2>1, <1>d, <1>e, <1>g DEF WriteLoadWrite
<1>4. CASE WriteFull
  <2>1. WriteResult' = WriteResult
    BY <1>4 DEF WriteFull, WriteResult, WillFail
  <2>. QED BY <1>4, <2>1, <1>d, <1>e, <1>g DEF WriteFull
<1>5. CASE WriteSlot
  <2>1. /\ wwrite = write /\ Advance(write) # wread
        /\ Dist(read, write) <= Dist(wread, write)
        /\ buffer' = [buffer EXCEPT ![write] = byte]
        /\ UNCHANGED <<read, write>>
    BY <1>5 DEF WriteSlot, IInv, WriterInv
  <2>2. \A i \in 1..Count : SlotOf(i) \in Slots /\ SlotOf(i) # write
    BY SMT, <1>0, <1>a, <1>b, <2>1 DEF Slots, Count, SlotOf, Dist
  <2>3. \A i \in 1..Count : buffer'[SlotOf(i)] = buffer[SlotOf(i)]
    BY <2>1, <2>2 DEF IInv, TypeOK
  <2>4. Queue' = Queue
    BY <2>1, <2>3 DEF Queue, Count, SlotOf
  <2>5. WriteResult' = WriteResult
    BY <1>5 DEF WriteSlot, WriteResult, WillFail
  <2>. QED BY <1>5, <2>4, <2>5, <1>d, <1>g DEF WriteSlot
<1>6. CASE WriteStore
  <2>1. /\ wwrite = write /\ Advance(write) # wread /\ buffer[write] = byte
        /\ Dist(read, write) <= Dist(wread, write) /\ byte \in Byte
        /\ write' = Advance(write)
        /\ UNCHANGED <<buffer, read>>
    BY <1>6 DEF WriteStore, IInv, WriterInv
  <2>2. Count' = Count + 1 /\ Count < buffer_size - 1
    BY SMT, <1>0, <1>a, <1>b, <2>1 DEF Slots, Count, Dist
  <2>3. /\ \A i \in Nat : SlotOf(i)' = SlotOf(i)
        /\ SlotOf(Count + 1) = write
    BY SMT, <1>0, <1>a, <1>b, <2>1 DEF Slots, Count, SlotOf, Dist
  <2>4. Queue' = Append(Queue, byte)
    <3>1. Queue' = [i \in 1..(Count + 1) |-> buffer[SlotOf(i)]]
      BY SMT, <1>a, <2>1, <2>2, <2>3 DEF Queue
    <3>2. /\ Append(Queue, byte) \in Seq(Byte)
          /\ Len(Append(Queue, byte)) = Count + 1
          /\ \A i \in 1..(Count + 1) :
               Append(Queue, byte)[i] = IF i = Count + 1 THEN byte ELSE Queue[i]
      BY SMT, <1>a, <1>c, <2>1
    <3>3. \A i \in 1..(Count + 1) : buffer[SlotOf(i)] = IF i = Count + 1 THEN byte ELSE Queue[i]
      BY SMT, <1>a, <2>1, <2>3 DEF Queue
    <3>4. Queue' \in Seq(Byte) /\ Len(Queue') = Count + 1
      <4>1. Queue' \in [1..(Count + 1) -> Byte]
        BY SMT, <1>a, <1>c, <2>1, <3>1, <3>3
      <4>. QED BY SMT, <4>1, <1>a
    <3>. QED BY <3>1, <3>2, <3>3, <3>4, SeqEqual
  <2>5. WriteResult' = "ok"
    BY <1>6 DEF WriteStore, WriteResult, WillFail
  <2>6. ReadResult' = ReadResult
    BY <1>6, <1>g DEF WriteStore
  <2>7. Abs!Put(byte)
    BY <1>c, <2>2, <2>4, <2>5, <2>6 DEF Abs!Put
  <2>. QED BY <2>1, <2>7 DEF Abs!Next
<1>7. CASE ReadCall
  <2>1. ReadResult' = ReadResult
    BY <1>7 DEF ReadCall, ReadResult, WillBeEmpty
  <2>. QED BY <1>7, <2>1, <1>d, <1>e, <1>f DEF ReadCall, fifoVars
<1>8. CASE ReadLoadRead
  <2>1. ReadResult' = ReadResult
    BY <1>8 DEF ReadLoadRead, ReadResult, WillBeEmpty
  <2>. QED BY <1>8, <2>1, <1>d, <1>e, <1>f DEF ReadLoadRead, fifoVars
<1>9. CASE ReadLoadWrite
  <2>1. Queue' = Queue /\ WriteResult' = WriteResult
    BY <1>9, <1>e, <1>f DEF ReadLoadWrite, fifoVars
  <2>2. rread = read
    BY <1>9 DEF ReadLoadWrite, IInv, ReaderInv
  <2>3. CASE read = write
    <3>1. ReadResult' = "empty"
      BY <1>9, <2>2, <2>3 DEF ReadLoadWrite, ReadResult, WillBeEmpty
    <3>2. Queue = << >>
      BY SMT, <1>0, <1>a, <2>3 DEF Slots, Count, Queue
    <3>3. Abs!GetEmpty
      BY <2>1, <3>1, <3>2 DEF Abs!GetEmpty
    <3>. QED BY <3>3 DEF Abs!Next
  <2>4. CASE read # write
    <3>1. ReadResult' = ReadResult
      BY <1>9, <2>2, <2>4 DEF ReadLoadWrite, ReadResult, WillBeEmpty
    <3>. QED BY <2>1, <3>1, <1>d
  <2>. QED BY <2>3, <2>4
<1>10. CASE ReadEmpty
  <2>1. ReadResult' = ReadResult
    BY <1>10 DEF ReadEmpty, ReadResult, WillBeEmpty
  <2>. QED BY <1>10, <2>1, <1>d, <1>e, <1>f DEF ReadEmpty, fifoVars
<1>11. CASE ReadSlot
  <2>1. ReadResult' = ReadResult
    BY <1>11 DEF ReadSlot, ReadResult, WillBeEmpty
  <2>. QED BY <1>11, <2>1, <1>d, <1>e, <1>f DEF ReadSlot, fifoVars
<1>12. CASE ReadStore
  <2>1. /\ rread = read /\ read # rwrite /\ val = buffer[read]
        /\ Dist(read, rwrite) <= Dist(read, write) /\ rwrite \in Slots
        /\ read' = Advance(read)
        /\ UNCHANGED <<buffer, write>>
    BY <1>12 DEF ReadStore, IInv, ReaderInv, TypeOK
  <2>2. Count' = Count - 1 /\ Count > 0 /\ SlotOf(1) = read
    BY SMT, <1>0, <1>a, <1>b, <2>1 DEF Slots, Count, SlotOf, Dist
  <2>3. \A i \in 1..(Count - 1) : SlotOf(i)' = SlotOf(i + 1)
    BY SMT, <1>0, <1>a, <1>b, <2>1, <2>2 DEF Slots, Count, SlotOf
  <2>4. Queue' = Tail(Queue)
    <3>1. Queue' = [i \in 1..(Count - 1) |-> buffer[SlotOf(i + 1)]]
      BY <1>a, <2>1, <2>2, <2>3 DEF Queue
    <3>2. /\ Tail(Queue) \in Seq(Byte)
          /\ Len(Tail(Queue)) = Count - 1
          /\ \A i \in 1..(Count - 1) : Tail(Queue)[i] = Queue[i + 1]
      BY SMT, <1>a, <1>c, <2>2
    <3>3. \A i \in 1..(Count - 1) : Queue[i + 1] = buffer[SlotOf(i + 1)]
      BY SMT, <1>a DEF Queue
    <3>4. Queue' \in Seq(Byte) /\ Len(Queue') = Count - 1
      <4>1. Queue' \in [1..(Count - 1) -> Byte]
        BY SMT, <1>a, <1>c, <3>1, <3>3
      <4>. QED BY SMT, <4>1, <1>a, <2>2
    <3>. QED BY <3>1, <3>2, <3>3, <3>4, SeqEqual
  <2>5. Queue # << >> /\ Head(Queue) = val
    BY SMT, <1>a, <1>c, <2>1, <2>2 DEF Queue
  <2>6. ReadResult' = val
    BY <1>12 DEF ReadStore, ReadResult, WillBeEmpty
  <2>7. WriteResult' = WriteResult
    BY <1>12, <1>f DEF ReadStore
  <2>8. Abs!Get
    BY <2>4, <2>5, <2>6, <2>7 DEF Abs!Get
  <2>. QED BY <2>8 DEF Abs!Next
<1>13. CASE UNCHANGED vars
  BY <1>13, <1>d, <1>e, <1>f, <1>g DEF vars, fifoVars
<1>. QED
  BY <1>1, <1>2, <1>3, <1>4, <1>5, <1>6, <1>7, <1>8, <1>9, <1>10, <1>11, <1>12, <1>13
     DEF Next, Writer, Reader

\* fifo.c implements a FIFO queue of buffer_size - 1 bytes.
THEOREM Refinement == Spec => Implements
<1>1. Init => Abs!Init
  BY InitRefines
<1>2. IInv /\ IInv' /\ [Next]_vars => [Abs!Next]_(Abs!fifoVars)
  BY StepRefines
<1>. QED BY <1>1, <1>2, Invariance, PTL DEF Spec, Implements, Abs!Spec

-----------------------------------------------------------------------------
(* Numbers                                                                 *)

\* A set of numbers that is not empty has a least element, which Min finds.
LEMMA Least ==
  ASSUME NEW T \in SUBSET Nat, T # {}
  PROVE  Min(T) \in T /\ \A y \in T : Min(T) <= y
<1> DEFINE Less == {p \in Nat \X Nat : p[1] < p[2]}
<1>1. IsWellFoundedOn(Less, Nat)
  BY NatLessThanWellFounded DEF OpToRel
<1>2. \E x \in T : \A y \in T : <<y, x>> \notin Less
  <2> HIDE DEF Less
  <2>. QED BY <1>1, WFMin
<1>3. PICK x \in T : \A y \in T : <<y, x>> \notin Less
  BY <1>2
<1>4. ASSUME NEW y \in T PROVE x <= y
  <2>1. x \in Nat /\ y \in Nat /\ <<y, x>> \notin Less
    BY <1>3
  <2>2. ~(y < x)
    BY SMT, <2>1
  <2>. QED BY SMT, <2>1, <2>2
<1>. QED BY <1>4 DEF Min

\* A set with 0 in it, and with every number below n its successor, has all up
\* to n.
LEMMA Steps ==
  ASSUME NEW n \in Nat, NEW P, 0 \in P, \A i \in 0 .. n - 1 : i \in P => i + 1 \in P
  PROVE  \A i \in 0 .. n : i \in P
<1> DEFINE T == {i \in 0 .. n : i \notin P}
<1>1. SUFFICES ASSUME T # {} PROVE FALSE
  BY <1>1
<1>2. PICK x \in T : \A y \in T : x <= y
  <2>1. T \in SUBSET Nat
    BY SMT
  <2>. QED BY <1>1, <2>1, Least
<1>3. x \in 0 .. n /\ x \notin P
  BY <1>2
<1>4. x # 0
  BY <1>3
<1>5. x - 1 \in 0 .. n - 1 /\ x - 1 \in 0 .. n /\ ~(x <= x - 1) /\ (x - 1) + 1 = x
  BY SMT, <1>3, <1>4
<1>6. x - 1 \in P
  BY <1>2, <1>5
<1>. QED BY <1>3, <1>5, <1>6

\* Products grow with their factor.
LEMMA Monotone ==
  ASSUME NEW w \in Nat, NEW a \in Nat, NEW b \in Nat, a <= b
  PROVE  w * a \in Nat /\ w * b \in Nat /\ w * a <= w * b
<1>1. PICK c \in Nat : b = a + c
  <2>1. b - a \in Nat /\ b = a + (b - a)
    BY SMT
  <2>. QED BY <2>1
<1>2. w * c \in Nat /\ w * a \in Nat
  BY SMT
<1>3. w * b = w * a + w * c
  BY SMT, <1>1
<1>. QED BY SMT, <1>2, <1>3

-----------------------------------------------------------------------------
(* The screen                                                              *)

\* The first cell of the last row of text, and the first one after the text.
Low == (NUM_ROW - 2) * NUM_COL
Text == (NUM_ROW - 1) * NUM_COL

\* How the cells are laid out.
LEMMA Layout ==
  /\ NUM_COL \in Nat /\ NUM_COL > 0 /\ NUM_ROW \in Nat
  /\ Low \in Nat /\ Low > 0 /\ Text = Low + NUM_COL
  /\ Cells = 0 .. (Text + NUM_COL) - 1 /\ TextCells = 0 .. Text - 1
<1>1. NUM_COL \in Nat /\ NUM_COL > 0 /\ NUM_ROW \in Nat /\ NUM_ROW >= 3
  BY SMT, ScreenAssumption
<1>2. PICK k \in Nat : NUM_ROW = k + 3
  <2>1. NUM_ROW - 3 \in Nat /\ NUM_ROW = (NUM_ROW - 3) + 3
    BY SMT, <1>1
  <2>. QED BY <2>1
<1>3. NUM_COL * k \in Nat
  BY SMT, <1>1
<1>4. /\ (NUM_ROW - 2) * NUM_COL = NUM_COL * k + NUM_COL
      /\ (NUM_ROW - 1) * NUM_COL = NUM_COL * k + NUM_COL + NUM_COL
      /\ NUM_ROW * NUM_COL = NUM_COL * k + NUM_COL + NUM_COL + NUM_COL
  BY SMT, <1>1, <1>2
<1>5. Low \in Nat /\ Low > 0 /\ Text = Low + NUM_COL /\ NUM_ROW * NUM_COL = Text + NUM_COL
  BY SMT, <1>1, <1>3, <1>4 DEF Low, Text
<1>6. Cells = 0 .. (Text + NUM_COL) - 1
  BY <1>5 DEF Cells
<1>7. TextCells = 0 .. Text - 1
  BY DEF TextCells, Text
<1>. QED BY <1>1, <1>5, <1>6, <1>7

\* The same as products.
LEMMA Products == Text = NUM_COL * (NUM_ROW - 1) /\ Low = NUM_COL * (NUM_ROW - 2)
<1>1. NUM_COL \in Nat /\ NUM_ROW \in Nat
  BY Layout
<1>. QED BY SMT, <1>1 DEF Low, Text

\* The position a line break moves to, and when the screen scrolls.
LEMMA Rows ==
  /\ \A x \in TextCells : LET n == x + NUM_COL - (x % NUM_COL) IN n \in 0 .. Text /\ n > x
  /\ \A x \in 0 .. Text : (x \div NUM_COL >= NUM_ROW - 1) <=> x = Text
<1>1. /\ NUM_COL \in Nat /\ NUM_COL > 0 /\ NUM_ROW \in Nat
      /\ NUM_ROW - 1 \in Nat /\ NUM_ROW - 2 \in Nat
  BY SMT, ScreenAssumption
<1>2. Low \in Nat /\ Text = Low + NUM_COL /\ Text = NUM_COL * (NUM_ROW - 1) /\ Low = NUM_COL * (NUM_ROW - 2)
  BY Layout, Products
<1>3. ASSUME NEW x \in Nat
      PROVE  \E q \in Nat, r \in 0 .. NUM_COL - 1 :
               q = x \div NUM_COL /\ r = x % NUM_COL /\ x = NUM_COL * q + r
  <2>1. x = NUM_COL * (x \div NUM_COL) + (x % NUM_COL)
    BY SMTT(30), <1>1
  <2>2. x % NUM_COL \in 0 .. NUM_COL - 1
    BY SMTT(30), <1>1
  <2>3. x \div NUM_COL \in Nat
    BY SMTT(30), <1>1
  <2>. QED BY <2>1, <2>2, <2>3
<1>4. ASSUME NEW x \in TextCells
      PROVE  LET n == x + NUM_COL - (x % NUM_COL) IN n \in 0 .. Text /\ n > x
  <2>1. x \in Nat /\ x < Text
    BY SMT, <1>2, Layout
  <2>2. PICK q \in Nat, r \in 0 .. NUM_COL - 1 :
          q = x \div NUM_COL /\ r = x % NUM_COL /\ x = NUM_COL * q + r
    BY <1>3, <2>1
  <2>3. q <= NUM_ROW - 2
    <3>1. SUFFICES ASSUME ~(q <= NUM_ROW - 2) PROVE FALSE
      OBVIOUS
    <3>2. NUM_ROW - 1 <= q
      BY SMT, <1>1, <3>1
    <3>3. NUM_COL * (NUM_ROW - 1) <= NUM_COL * q /\ NUM_COL * q \in Nat
      BY <1>1, <3>2, Monotone
    <3>. QED BY SMT, <1>1, <1>2, <2>1, <2>2, <3>3
  <2>4. NUM_COL * q <= Low /\ NUM_COL * q \in Nat
    BY <1>1, <1>2, <2>3, Monotone
  <2>5. x + NUM_COL - r \in 0 .. Text /\ x + NUM_COL - r > x
    BY SMT, <1>1, <1>2, <2>2, <2>4
  <2>. QED BY <2>2, <2>5
<1>5. ASSUME NEW x \in 0 .. Text PROVE (x \div NUM_COL >= NUM_ROW - 1) <=> x = Text
  <2>1. x \in Nat /\ x <= Text
    BY SMT, <1>1, <1>2
  <2>2. PICK q \in Nat, r \in 0 .. NUM_COL - 1 :
          q = x \div NUM_COL /\ r = x % NUM_COL /\ x = NUM_COL * q + r
    BY <1>3, <2>1
  <2>3. ASSUME q >= NUM_ROW - 1 PROVE x = Text
    <3>1. NUM_ROW - 1 <= q
      BY SMT, <1>1, <2>3
    <3>2. NUM_COL * (NUM_ROW - 1) <= NUM_COL * q /\ NUM_COL * q \in Nat
      BY <1>1, <3>1, Monotone
    <3>3. PICK y \in Nat : Text <= y /\ x = y + r
      BY <1>2, <2>2, <3>2
    <3>. QED BY SMT, <1>1, <1>2, <2>1, <3>3
  <2>4. ASSUME x = Text PROVE q >= NUM_ROW - 1
    <3>1. SUFFICES ASSUME ~(q >= NUM_ROW - 1) PROVE FALSE
      OBVIOUS
    <3>2. q <= NUM_ROW - 2
      BY SMT, <1>1, <3>1
    <3>3. NUM_COL * q <= Low /\ NUM_COL * q \in Nat
      BY <1>1, <1>2, <3>2, Monotone
    <3>. QED BY SMT, <1>1, <1>2, <2>2, <2>4, <3>3
  <2>. QED BY <2>2, <2>3, <2>4
<1>. QED BY <1>4, <1>5

\* What a cell of the screen may hold.
Chars == Letters \cup Blank \cup {"$", "?"}
Keys == Chars \cup {NewLine, BACKSPACE}

\* The cursor is in the text, and the text is blank from there on.
Screen(s) ==
  /\ s.pos \in TextCells /\ s.crt \in [Cells -> Chars]
  /\ \A i \in TextCells : i >= s.pos => s.crt[i] \in Blank

\* Where c moves the cursor to, before the screen scrolls, and what it writes.
Moved(s, c) ==
  CASE c = NewLine -> s.pos + NUM_COL - (s.pos % NUM_COL)
    [] c = BACKSPACE -> IF s.pos > 0 THEN s.pos - 1 ELSE s.pos
    [] OTHER -> s.pos + 1
Written(s, c) == IF c \notin {NewLine, BACKSPACE} THEN [s.crt EXCEPT ![s.pos] = c] ELSE s.crt

\* cga_putchar, cell by cell.
LEMMA CgaIs ==
  ASSUME NEW s, Screen(s), NEW c \in Keys
  PROVE  LET n == Moved(s, c)
             w == Written(s, c)
             z == CgaPutchar(s, c)
         IN /\ n \in 0 .. Text /\ w \in [Cells -> Chars]
            /\ n # Text =>
                 z.pos = n /\ z.crt = [i \in Cells |-> IF i = n THEN Space ELSE w[i]]
            /\ n = Text =>
                 /\ z.pos = Low
                 /\ z.crt = [i \in Cells |-> IF i = Low THEN Space
                                             ELSE IF i < Low THEN w[i + NUM_COL]
                                             ELSE IF i \in TextCells THEN Cleared ELSE w[i]]
<1> DEFINE n == Moved(s, c)
           w == Written(s, c)
           z == CgaPutchar(s, c)
           scroll == n \div NUM_COL >= NUM_ROW - 1
           pos == IF scroll THEN n - NUM_COL ELSE n
           moved == IF scroll
                    THEN [i \in Cells |-> IF i < (NUM_ROW - 2) * NUM_COL THEN w[i + NUM_COL]
                                          ELSE IF i >= pos /\ i \in TextCells THEN Cleared ELSE w[i]]
                    ELSE w
<1>1. z = [pos |-> pos, crt |-> [moved EXCEPT ![pos] = Space]]
  BY DEF CgaPutchar, Moved, Written
<1>2. s.pos \in TextCells /\ s.crt \in [Cells -> Chars] /\ s.pos \in Cells
  <2>1. TextCells \subseteq Cells
    BY SMT, Layout
  <2>. QED BY <2>1 DEF Screen
<1>3. n \in 0 .. Text
  <2>1. s.pos + 1 \in 0 .. Text /\ (s.pos > 0 => s.pos - 1 \in 0 .. Text) /\ s.pos \in 0 .. Text
    BY SMT, <1>2, Layout
  <2>2. s.pos + NUM_COL - (s.pos % NUM_COL) \in 0 .. Text
    BY <1>2, Rows
  <2>. QED BY <2>1, <2>2 DEF Moved
<1>4. w \in [Cells -> Chars]
  <2>1. c \notin {NewLine, BACKSPACE} => c \in Chars
    BY DEF Keys
  <2>. QED BY <1>2, <2>1 DEF Written
<1>5. scroll <=> n = Text
  BY <1>3, Rows
<1>6. Text - NUM_COL = Low /\ Low \in Cells /\ (n # Text => n \in Cells)
  BY SMT, <1>3, Layout
<1> HIDE DEF n, w, z
<1>7. CASE n # Text
  <2>1. pos = n /\ moved = w
    BY <1>5, <1>7
  <2>2. z.pos = n /\ z.crt = [w EXCEPT ![n] = Space]
    BY <1>1, <2>1
  <2>3. [w EXCEPT ![n] = Space] = [i \in Cells |-> IF i = n THEN Space ELSE w[i]]
    BY <1>4
  <2>. QED BY <1>3, <1>4, <1>7, <2>2, <2>3 DEF n, w, z
<1>8. CASE n = Text
  <2> DEFINE up == [i \in Cells |-> IF i < Low THEN w[i + NUM_COL]
                                    ELSE IF i >= Low /\ i \in TextCells THEN Cleared ELSE w[i]]
  <2>1. pos = Low /\ moved = up
    BY <1>5, <1>6, <1>8 DEF Low
  <2>2. z.pos = Low /\ z.crt = [up EXCEPT ![Low] = Space]
    BY <1>1, <2>1
  <2>3. \A i \in Cells : i < Low \/ i >= Low
    BY SMT, Layout
  <2>4. ASSUME NEW i \in Cells, i # Low
        PROVE up[i] = IF i < Low THEN w[i + NUM_COL] ELSE IF i \in TextCells THEN Cleared ELSE w[i]
    BY <2>3
  <2>5. [up EXCEPT ![Low] = Space] = [i \in Cells |-> IF i = Low THEN Space ELSE up[i]]
    OBVIOUS
  <2> HIDE DEF up
  <2>6. z.crt = [i \in Cells |-> IF i = Low THEN Space
                                 ELSE IF i < Low THEN w[i + NUM_COL]
                                 ELSE IF i \in TextCells THEN Cleared ELSE w[i]]
    BY <2>2, <2>4, <2>5
  <2>. QED BY <1>3, <1>4, <1>8, <2>2, <2>6 DEF n, w, z
<1>. QED BY <1>7, <1>8

\* Whatever is written, the cursor stays in the text and the rest is blank.
LEMMA ScreenKept ==
  ASSUME NEW s, Screen(s), NEW c \in Keys
  PROVE  Screen(CgaPutchar(s, c))
<1> DEFINE n == Moved(s, c)
           w == Written(s, c)
           z == CgaPutchar(s, c)
<1>1. /\ n \in 0 .. Text /\ w \in [Cells -> Chars]
      /\ n # Text => z.pos = n /\ z.crt = [i \in Cells |-> IF i = n THEN Space ELSE w[i]]
      /\ n = Text => /\ z.pos = Low
                     /\ z.crt = [i \in Cells |-> IF i = Low THEN Space
                                                 ELSE IF i < Low THEN w[i + NUM_COL]
                                                 ELSE IF i \in TextCells THEN Cleared ELSE w[i]]
  BY CgaIs
<1>2. Space \in Blank /\ Cleared \in Blank /\ Blank \subseteq Chars
  BY DEF Blank, Chars
<1>3. TextCells \subseteq Cells /\ Low \in TextCells /\ (n # Text => n \in TextCells)
  BY SMT, <1>1, Layout
<1>4. s.pos \in TextCells /\ \A i \in TextCells : i >= s.pos => s.crt[i] \in Blank
  BY DEF Screen
<1>5. CASE n # Text
  <2>1. z.pos = n /\ \A i \in Cells : z.crt[i] = IF i = n THEN Space ELSE w[i]
    BY <1>1, <1>5
  <2>2. z.crt \in [Cells -> Chars]
    <3> HIDE DEF z, w, n
    <3>. QED BY <1>1, <1>2, <1>5
  <2>3. ASSUME NEW i \in TextCells, i >= n, i # n PROVE w[i] \in Blank
    <3>1. CASE c = NewLine
      <4>1. n = s.pos + NUM_COL - (s.pos % NUM_COL)
        <5>1. c # BACKSPACE
          BY <3>1 DEF NewLine, BACKSPACE
        <5>. QED BY <3>1, <5>1 DEF Moved
      <4> HIDE DEF n
      <4>2. n > s.pos
        BY <1>4, <4>1, Rows
      <4>3. i >= s.pos
        BY SMT, <1>1, <1>4, <2>3, <4>2, Layout
      <4>. QED BY <1>4, <3>1, <4>3 DEF Written
    <3>2. CASE c = BACKSPACE
      <4>1. c # NewLine
        BY <3>2 DEF NewLine, BACKSPACE
      <4>2. n = IF s.pos > 0 THEN s.pos - 1 ELSE s.pos
        BY <3>2, <4>1 DEF Moved
      <4> HIDE DEF n
      <4>3. i >= s.pos
        BY SMT, <1>4, <2>3, <4>2, Layout
      <4>. QED BY <1>4, <3>2, <4>3 DEF Written
    <3>3. CASE c \notin {NewLine, BACKSPACE}
      <4>1. n = s.pos + 1
        BY <3>3 DEF Moved
      <4> HIDE DEF n
      <4>2. i >= s.pos /\ i # s.pos
        BY SMT, <1>4, <2>3, <4>1, Layout
      <4>3. w[i] = s.crt[i]
        <5>1. s.crt \in [Cells -> Chars]
          BY DEF Screen
        <5>. QED BY <1>3, <3>3, <4>2, <5>1 DEF Written
      <4>. QED BY <1>4, <4>2, <4>3
    <3>. QED BY <3>1, <3>2, <3>3
  <2>4. ASSUME NEW i \in TextCells, i >= n PROVE z.crt[i] \in Blank
    <3>1. i \in Cells
      BY <1>3
    <3> HIDE DEF z, w, n
    <3>. QED BY <1>2, <2>1, <2>3, <2>4, <3>1
  <2>. QED BY <1>3, <1>5, <2>1, <2>2, <2>4 DEF Screen
<1>6. CASE n = Text
  <2>1. z.pos = Low /\ z.crt = [i \in Cells |-> IF i = Low THEN Space
                                                ELSE IF i < Low THEN w[i + NUM_COL]
                                                ELSE IF i \in TextCells THEN Cleared ELSE w[i]]
    BY <1>1, <1>6
  <2>2. \A i \in Cells : i < Low => i + NUM_COL \in Cells
    BY SMT, Layout
  <2> HIDE DEF z, w, n
  <2>3. z.crt \in [Cells -> Chars]
    <3>1. ASSUME NEW i \in Cells
          PROVE (IF i = Low THEN Space ELSE IF i < Low THEN w[i + NUM_COL]
                 ELSE IF i \in TextCells THEN Cleared ELSE w[i]) \in Chars
      <4>1. i < Low => w[i + NUM_COL] \in Chars
        BY <1>1, <2>2
      <4>2. w[i] \in Chars /\ Space \in Chars /\ Cleared \in Chars
        BY <1>1, <1>2
      <4>. QED BY <4>1, <4>2
    <3>. QED BY <2>1, <3>1
  <2>4. \A i \in TextCells : i >= Low => ~(i < Low)
    BY SMT, Layout
  <2>5. ASSUME NEW i \in TextCells, i >= Low PROVE z.crt[i] \in Blank
    BY <1>2, <1>3, <2>1, <2>4, <2>5
  <2>. QED BY <1>3, <2>1, <2>3, <2>5 DEF Screen, z
<1>. QED BY <1>5, <1>6

\* The text before the cursor is l, as far as it is on the screen.
Shows(s, l) ==
  \A i \in 1 .. Len(l) :
    LET at == s.pos - Len(l) + i - 1 IN at >= 0 => s.crt[at] = l[i]

\* A character that is typed appears after the text, which may scroll.
LEMMA TypedShows ==
  ASSUME NEW s, Screen(s), NEW l \in Seq(Chars), Shows(s, l), NEW c \in Chars,
         c \notin {NewLine, BACKSPACE}
  PROVE  Shows(CgaPutchar(s, c), Append(l, c))
<1> DEFINE n == Moved(s, c)
           w == Written(s, c)
           z == CgaPutchar(s, c)
           k == Len(l)
           m == Append(l, c)
<1>1. /\ n \in 0 .. Text
      /\ n # Text => z.pos = n /\ z.crt = [i \in Cells |-> IF i = n THEN Space ELSE w[i]]
      /\ n = Text => /\ z.pos = Low
                     /\ z.crt = [i \in Cells |-> IF i = Low THEN Space
                                                 ELSE IF i < Low THEN w[i + NUM_COL]
                                                 ELSE IF i \in TextCells THEN Cleared ELSE w[i]]
  <2>1. c \in Keys
    BY DEF Keys
  <2>. QED BY <2>1, CgaIs
<1>2. s.pos \in TextCells /\ s.crt \in [Cells -> Chars]
  BY DEF Screen
<1>3. n = s.pos + 1
  BY DEF Moved
<1>4. \A x \in Cells : w[x] = IF x = s.pos THEN c ELSE s.crt[x]
  BY <1>2 DEF Written
<1>0. k \in Nat
  BY SMT
<1>5. Len(m) = k + 1 /\ m[k + 1] = c /\ \A i \in 1 .. k : m[i] = l[i]
  BY SMT
<1> HIDE DEF n, w, z, k, m
\* The cells before the cursor hold the text and c.
<1>6. ASSUME NEW i \in 1 .. k + 1, s.pos - k + i - 1 >= 0
      PROVE  s.pos - k + i - 1 \in Cells /\ w[s.pos - k + i - 1] = m[i]
  <2> DEFINE x == s.pos - k + i - 1
  <2>1. /\ x \in Cells /\ (i = k + 1 => x = s.pos)
        /\ i # k + 1 => x # s.pos /\ i \in 1 .. k
    BY SMT, <1>0, <1>2, <1>6, Layout
  <2>2. i # k + 1 => s.crt[x] = l[i]
    BY <1>6, <2>1 DEF Shows, k
  <2> HIDE DEF x
  <2>. QED BY <1>4, <1>5, <2>1, <2>2 DEF x
<1>7. SUFFICES ASSUME NEW i \in 1 .. k + 1, z.pos - (k + 1) + i - 1 >= 0
               PROVE  z.crt[z.pos - (k + 1) + i - 1] = m[i]
  BY <1>5, <1>7 DEF Shows, z, m
<1>8. CASE n # Text
  <2>0. z.pos = n
    BY <1>1, <1>8
  <2>1. z.pos - (k + 1) + i - 1 = s.pos - k + i - 1 /\ s.pos - k + i - 1 # n
    BY SMT, <1>0, <1>2, <1>3, <2>0, Layout
  <2>2. s.pos - k + i - 1 \in Cells /\ w[s.pos - k + i - 1] = m[i]
    BY <1>6, <1>7, <2>1
  <2>. QED BY <1>1, <1>8, <2>1, <2>2
<1>9. CASE n = Text
  <2> DEFINE x == s.pos - k + i - 1
             y == z.pos - (k + 1) + i - 1
  <2>0. z.pos = Low
    BY <1>1, <1>9
  <2>1. x >= 0 /\ y + NUM_COL = x /\ y < Low /\ y # Low /\ y \in Cells
    <3>1. s.pos = Low + NUM_COL - 1
      BY SMT, <1>2, <1>3, <1>9, Layout
    <3>2. Low - (k + 1) + i - 1 >= 0
      BY <1>7, <2>0
    <3>3. x = (Low + NUM_COL - 1) - k + i - 1 /\ y = Low - (k + 1) + i - 1
      BY <2>0, <3>1
    <3> HIDE DEF x, y
    <3>. QED BY SMT, <1>0, <3>2, <3>3, Layout
  <2>2. w[x] = m[i]
    BY <1>6, <2>1
  <2>3. z.crt[y] = w[y + NUM_COL]
    <3> HIDE DEF x, y
    <3>. QED BY <1>1, <1>9, <2>1
  <2>. QED BY <2>1, <2>2, <2>3
<1>. QED BY <1>8, <1>9

\* A sequence without its last element.
LEMMA FrontIs ==
  ASSUME NEW S, NEW l \in Seq(S), l # <<>>
  PROVE  /\ Len(l) \in Nat /\ Len(l) > 0 /\ Front(l) \in Seq(S) /\ Len(Front(l)) = Len(l) - 1
         /\ \A i \in 1 .. Len(l) - 1 : Front(l)[i] = l[i]
<1>1. Len(l) \in Nat /\ Len(l) > 0
  BY SMT
<1>2. Front(l) = SubSeq(l, 1, Len(l) - 1)
  BY DEF Front
<1>3. ASSUME NEW n \in 0 .. Len(l)
      PROVE  /\ SubSeq(l, 1, n) \in Seq(S) /\ Len(SubSeq(l, 1, n)) = n
             /\ \A i \in 1 .. n : SubSeq(l, 1, n)[i] = l[i]
  BY SMT
<1>4. Len(l) - 1 \in 0 .. Len(l)
  BY SMT, <1>1
<1>. QED BY <1>1, <1>2, <1>3, <1>4

\* An erased character disappears.
LEMMA ErasedShows ==
  ASSUME NEW s, Screen(s), NEW l \in Seq(Chars), Shows(s, l), l # <<>>
  PROVE  Shows(CgaPutchar(s, BACKSPACE), Front(l))
<1> DEFINE c == BACKSPACE
           n == Moved(s, c)
           w == Written(s, c)
           z == CgaPutchar(s, c)
           k == Len(l)
           m == Front(l)
<1>1. /\ n \in 0 .. Text
      /\ n # Text => z.pos = n /\ z.crt = [i \in Cells |-> IF i = n THEN Space ELSE w[i]]
  <2>1. c \in Keys
    BY DEF Keys
  <2>. QED BY <2>1, CgaIs
<1>2. s.pos \in TextCells /\ s.crt \in [Cells -> Chars]
  BY DEF Screen
<1>3. n = (IF s.pos > 0 THEN s.pos - 1 ELSE s.pos) /\ w = s.crt
  BY DEF Moved, Written, NewLine, BACKSPACE
<1>0. k \in Nat /\ k > 0
  BY FrontIs
<1>4. Len(m) = k - 1 /\ \A i \in 1 .. k - 1 : m[i] = l[i]
  BY FrontIs
<1> HIDE DEF n, w, z, k, m
<1>5. n # Text
  BY SMT, <1>2, <1>3, Layout
<1>6. SUFFICES ASSUME NEW i \in 1 .. k - 1, z.pos - (k - 1) + i - 1 >= 0
               PROVE  z.crt[z.pos - (k - 1) + i - 1] = m[i]
  BY <1>4, <1>6 DEF Shows, z, m
<1> DEFINE x == s.pos - k + i - 1
<1>7. /\ s.pos > 0 /\ z.pos - (k - 1) + i - 1 = x /\ x # n
      /\ x \in Cells /\ i \in 1 .. k /\ x >= 0
  <2>1. z.pos = n
    BY <1>1, <1>5
  <2>2. n = IF s.pos > 0 THEN s.pos - 1 ELSE s.pos
    BY <1>3
  <2>. QED BY SMT, <1>0, <1>2, <1>6, <2>1, <2>2, Layout
<1>8. s.crt[x] = l[i]
  BY <1>7 DEF Shows, k
<1>9. z.crt[x] = s.crt[x]
  <2> HIDE DEF x
  <2>. QED BY <1>1, <1>3, <1>5, <1>7
<1>. QED BY <1>4, <1>7, <1>8, <1>9

-----------------------------------------------------------------------------
(* Texts                                                                   *)

\* putchar, on the screen and on the serial line.
LEMMA PutcharIs ==
  ASSUME NEW t, NEW c
  PROVE  Putchar(t, c).cga = CgaPutchar(t.cga, c) /\ Putchar(t, c).uart = UartPutc(t.uart, c)
BY DEF Putchar

\* f is the screen after each character of a text of length k.
Prints(t, s, k, f) ==
  /\ Puts(t, s) = f[k] /\ f[0] = t
  /\ \A n \in 1 .. k : f[n] = Putchar(f[n - 1], s[n])

\* There is such an f.
LEMMA PutsIs == ASSUME NEW t, NEW s, Len(s) \in Nat PROVE \E f : Prints(t, s, Len(s), f)
<1> DEFINE k == Len(s)
           Upto(m, f) == f = [n \in 0 .. m |-> IF n = 0 THEN t ELSE Putchar(f[n - 1], s[n])]
           P == {m \in Nat : \E f : Upto(m, f)}
<1>1. 0 \in P
  <2> DEFINE f == [n \in 0 .. 0 |-> t]
  <2>1. \A n \in 0 .. 0 : n = 0
    BY SMT
  <2>2. Upto(0, f)
    BY <2>1
  <2>. QED BY <2>2
<1>2. ASSUME NEW m \in 0 .. k - 1, m \in P PROVE m + 1 \in P
  <2>1. PICK f : Upto(m, f)
    BY <1>2
  <2> DEFINE top == m + 1
             g == [n \in 0 .. top |-> IF n = top THEN Putchar(f[n - 1], s[n]) ELSE f[n]]
  <2>2. /\ top \in Nat /\ top # 0
        /\ \A n \in 0 .. top : n # top => n \in 0 .. m
        /\ \A n \in 0 .. top : n # 0 => n - 1 \in 0 .. top /\ n - 1 # top
    BY SMT
  <2>3. ASSUME NEW n \in 0 .. top PROVE g[n] = IF n = 0 THEN t ELSE Putchar(g[n - 1], s[n])
    <3> HIDE DEF top
    <3>1. n # 0 => g[n - 1] = f[n - 1]
      BY <2>2
    <3>2. CASE n = top
      <4>1. g[n] = Putchar(f[n - 1], s[n]) /\ n # 0
        BY <2>2, <3>2
      <4>. QED BY <3>1, <4>1
    <3>3. CASE n # top
      <4>1. n \in 0 .. m /\ g[n] = f[n]
        BY <2>2, <3>3
      <4>2. f[n] = IF n = 0 THEN t ELSE Putchar(f[n - 1], s[n])
        BY <2>1, <4>1
      <4> HIDE DEF g
      <4>. QED BY <3>1, <4>1, <4>2
    <3>. QED BY <3>2, <3>3
  <2>4. g = [n \in 0 .. top |-> g[n]]
    OBVIOUS
  <2>5. Upto(m + 1, g)
    <3> HIDE DEF g
    <3>. QED BY <2>3, <2>4
  <2>. QED BY <2>2, <2>5
<1>3. k \in 0 .. k
  BY SMT
<1>4. k \in P
  <2> HIDE DEF P
  <2>. QED BY <1>1, <1>2, <1>3, Steps
<1>5. \E f : f = [n \in 0 .. Len(s) |-> IF n = 0 THEN t ELSE Putchar(f[n - 1], s[n])]
  BY <1>4
<1> DEFINE h == CHOOSE f : f = [n \in 0 .. Len(s) |-> IF n = 0 THEN t ELSE Putchar(f[n - 1], s[n])]
<1>6. h = [n \in 0 .. k |-> IF n = 0 THEN t ELSE Putchar(h[n - 1], s[n])]
  BY <1>5
<1>7. Puts(t, s) = h[k]
  BY DEF Puts
<1>8. 0 \in 0 .. k /\ \A n \in 1 .. k : n \in 0 .. k /\ n # 0
  BY SMT
<1> HIDE DEF h
<1>9. \A n \in 0 .. k : h[n] = IF n = 0 THEN t ELSE Putchar(h[n - 1], s[n])
  BY <1>6
<1>. QED BY <1>7, <1>8, <1>9 DEF Prints

\* kprintf keeps the screen in order.
LEMMA PutsScreen ==
  ASSUME NEW t, Screen(t.cga), NEW s \in Seq(Keys)
  PROVE  Screen(Puts(t, s).cga)
<1> DEFINE k == Len(s)
<1>1. k \in Nat /\ Len(s) = k /\ \A n \in 1 .. k : s[n] \in Keys
  BY SMT
<1> HIDE DEF k
<1>2. PICK f : Prints(t, s, k, f)
  BY <1>1, PutsIs
<1> DEFINE P == {n \in Nat : Screen(f[n].cga)}
<1>3. 0 \in P
  BY <1>2 DEF Prints
<1>4. ASSUME NEW m \in 0 .. k - 1, m \in P PROVE m + 1 \in P
  <2>1. m + 1 \in 1 .. k /\ (m + 1) - 1 = m /\ m + 1 \in Nat
    BY SMT, <1>1
  <2>2. f[m + 1] = Putchar(f[m], s[m + 1]) /\ s[m + 1] \in Keys /\ Screen(f[m].cga)
    BY <1>1, <1>2, <1>4, <2>1 DEF Prints
  <2>3. f[m + 1].cga = CgaPutchar(f[m].cga, s[m + 1])
    BY <2>2, PutcharIs
  <2>4. Screen(CgaPutchar(f[m].cga, s[m + 1]))
    BY <2>2, ScreenKept
  <2>. QED BY <2>1, <2>3, <2>4
<1>5. k \in 0 .. k
  BY SMT, <1>1
<1>6. k \in P
  <2> HIDE DEF P
  <2>. QED BY <1>1, <1>3, <1>4, <1>5, Steps
<1>. QED BY <1>2, <1>6 DEF Prints

\* A text that ends in a line break leaves an empty line on the serial terminal.
LEMMA PutsLine ==
  ASSUME NEW t, NEW s \in Seq(Keys)
  PROVE  Puts(t, Append(s, NewLine)).uart = <<>>
<1> DEFINE u == Append(s, NewLine)
           k == Len(u)
<1>1. k \in Nat /\ Len(u) = k /\ k \in 1 .. k /\ u[k] = NewLine
  BY SMT
<1> HIDE DEF k
<1>2. PICK f : Prints(t, u, k, f)
  BY <1>1, PutsIs
<1>3. Puts(t, u) = Putchar(f[k - 1], NewLine)
  BY <1>1, <1>2 DEF Prints
<1>4. UartPutc(f[k - 1].uart, NewLine) = <<>>
  BY DEF UartPutc, NewLine, BACKSPACE
<1>. QED BY <1>3, <1>4, PutcharIs

\* kprintf of one character.
LEMMA PutsOne == ASSUME NEW t, NEW c PROVE Puts(t, <<c>>) = Putchar(t, c)
<1>1. Len(<<c>>) = 1 /\ <<c>>[1] = c /\ 1 \in Nat /\ 1 \in 1 .. 1 /\ 1 - 1 = 0
  BY SMT
<1>2. PICK f : Prints(t, <<c>>, 1, f)
  BY <1>1, PutsIs
<1>. QED BY <1>1, <1>2 DEF Prints

\* f is the screen after each of the k arguments of echo.
Echoes(t, p, k, f) ==
  /\ EchoText(t, p) = Puts(f[k], <<NewLine>>) /\ f[1] = t
  /\ \A n \in 2 .. k : f[n] = Puts(f[n - 1], Append(p[n], Space))

\* There is such an f.
LEMMA EchoIs == ASSUME NEW t, NEW p, Len(p) \in Nat, Len(p) > 0 PROVE \E f : Echoes(t, p, Len(p), f)
<1> DEFINE k == Len(p)
           Upto(m, f) == f = [n \in 1 .. m + 1 |-> IF n = 1 THEN t ELSE Puts(f[n - 1], Append(p[n], Space))]
           P == {m \in Nat : \E f : Upto(m, f)}
<1>1. 0 \in P
  <2> DEFINE f == [n \in 1 .. 0 + 1 |-> t]
  <2>1. \A n \in 1 .. 0 + 1 : n = 1
    BY SMT
  <2>2. Upto(0, f)
    BY <2>1
  <2>. QED BY <2>2
<1>2. ASSUME NEW m \in 0 .. (k - 1) - 1, m \in P PROVE m + 1 \in P
  <2>1. PICK f : Upto(m, f)
    BY <1>2
  <2> DEFINE top == (m + 1) + 1
             g == [n \in 1 .. top |-> IF n = top THEN Puts(f[n - 1], Append(p[n], Space)) ELSE f[n]]
  <2>2. /\ m + 1 \in Nat /\ top # 1
        /\ \A n \in 1 .. top : n # top => n \in 1 .. m + 1
        /\ \A n \in 1 .. top : n # 1 => n - 1 \in 1 .. top /\ n - 1 # top
    BY SMT
  <2>3. ASSUME NEW n \in 1 .. top PROVE g[n] = IF n = 1 THEN t ELSE Puts(g[n - 1], Append(p[n], Space))
    <3> HIDE DEF top
    <3>1. n # 1 => g[n - 1] = f[n - 1]
      BY <2>2
    <3>2. CASE n = top
      <4>1. g[n] = Puts(f[n - 1], Append(p[n], Space)) /\ n # 1
        BY <2>2, <3>2
      <4>. QED BY <3>1, <4>1
    <3>3. CASE n # top
      <4>1. n \in 1 .. m + 1 /\ g[n] = f[n]
        BY <2>2, <3>3
      <4>2. f[n] = IF n = 1 THEN t ELSE Puts(f[n - 1], Append(p[n], Space))
        BY <2>1, <4>1
      <4> HIDE DEF g
      <4>. QED BY <3>1, <4>1, <4>2
    <3>. QED BY <3>2, <3>3
  <2>4. g = [n \in 1 .. top |-> g[n]]
    OBVIOUS
  <2>5. Upto(m + 1, g)
    <3> HIDE DEF g
    <3>. QED BY <2>3, <2>4
  <2>. QED BY <2>2, <2>5
<1>3. k - 1 \in Nat /\ k - 1 \in 0 .. k - 1 /\ (k - 1) + 1 = k
  BY SMT
<1>4. k - 1 \in P
  <2> HIDE DEF P
  <2>. QED BY <1>1, <1>2, <1>3, Steps
<1>5. \E f : f = [n \in 1 .. Len(p) |-> IF n = 1 THEN t ELSE Puts(f[n - 1], Append(p[n], Space))]
  BY <1>3, <1>4
<1> DEFINE h == CHOOSE f : f = [n \in 1 .. Len(p) |-> IF n = 1 THEN t ELSE Puts(f[n - 1], Append(p[n], Space))]
<1>6. h = [n \in 1 .. k |-> IF n = 1 THEN t ELSE Puts(h[n - 1], Append(p[n], Space))]
  BY <1>5
<1>7. EchoText(t, p) = Puts(h[k], <<NewLine>>)
  BY DEF EchoText
<1>8. 1 \in 1 .. k /\ \A n \in 2 .. k : n \in 1 .. k /\ n # 1
  BY SMT
<1> HIDE DEF h
<1>9. \A n \in 1 .. k : h[n] = IF n = 1 THEN t ELSE Puts(h[n - 1], Append(p[n], Space))
  BY <1>6
<1>. QED BY <1>7, <1>8, <1>9 DEF Echoes

\* What the words of a line are made of can be shown.
LEMMA Showable ==
  /\ Letters \subseteq Keys /\ {Space, "$", "?", NewLine} \subseteq Keys
  /\ \A p \in Seq(Letters) : p \in Seq(Keys) /\ Append(p, Space) \in Seq(Keys)
<1>1. Letters \subseteq Keys /\ {Space, "$", "?", NewLine} \subseteq Keys
  BY DEF Keys, Chars, Blank
<1>2. ASSUME NEW p \in Seq(Letters) PROVE p \in Seq(Keys) /\ Append(p, Space) \in Seq(Keys)
  <2>1. p \in Seq(Keys)
    BY SMT, <1>1
  <2>2. Space \in Keys
    BY <1>1
  <2>. QED BY SMT, <2>1, <2>2
<1>. QED BY <1>1, <1>2

\* echo keeps the screen in order and ends the line.
LEMMA EchoKeeps ==
  ASSUME NEW t, Screen(t.cga), NEW p \in Seq(Seq(Letters)), p # <<>>
  PROVE  Screen(EchoText(t, p).cga) /\ EchoText(t, p).uart = <<>>
<1> DEFINE k == Len(p)
<1>1. k \in Nat /\ Len(p) = k /\ k > 0 /\ \A n \in 1 .. k : p[n] \in Seq(Letters)
  BY SMT
<1> HIDE DEF k
<1>2. PICK f : Echoes(t, p, k, f)
  BY <1>1, EchoIs
<1> DEFINE P == {n \in Nat : Screen(f[n + 1].cga)}
<1>3. 0 \in P
  <2>1. 0 + 1 = 1
    BY SMT
  <2>. QED BY <1>2, <2>1 DEF Echoes
<1>4. ASSUME NEW m \in 0 .. (k - 1) - 1, m \in P PROVE m + 1 \in P
  <2> DEFINE n == (m + 1) + 1
  <2>1. n \in 2 .. k /\ n \in 1 .. k /\ n - 1 = m + 1 /\ m + 1 \in Nat
    BY SMT, <1>1
  <2>2. f[n] = Puts(f[m + 1], Append(p[n], Space)) /\ Screen(f[m + 1].cga)
    BY <1>2, <1>4, <2>1 DEF Echoes
  <2>3. Append(p[n], Space) \in Seq(Keys)
    BY <1>1, <2>1, Showable
  <2>4. Screen(f[n].cga)
    BY <2>2, <2>3, PutsScreen
  <2>. QED BY <2>1, <2>4
<1>5. k - 1 \in Nat /\ k - 1 \in 0 .. k - 1 /\ (k - 1) + 1 = k
  BY SMT, <1>1
<1>6. k - 1 \in P
  <2> HIDE DEF P
  <2>. QED BY <1>3, <1>4, <1>5, Steps
<1>7. Screen(f[k].cga)
  BY <1>5, <1>6
<1>8. EchoText(t, p) = Putchar(f[k], NewLine)
  BY <1>2, PutsOne DEF Echoes
<1>9. Screen(CgaPutchar(f[k].cga, NewLine))
  <2>1. NewLine \in Keys
    BY Showable
  <2>. QED BY <1>7, <2>1, ScreenKept
<1>10. UartPutc(f[k].uart, NewLine) = <<>>
  BY DEF UartPutc, NewLine, BACKSPACE
<1>. QED BY <1>8, <1>9, <1>10, PutcharIs

-----------------------------------------------------------------------------
(* Words                                                                   *)

\* The ends of a token and of the blanks after it.
LEMMA TokenEndIs ==
  ASSUME NEW s, Len(s) \in Nat, NEW i \in 1 .. Len(s) + 1
  PROVE  LET e == TokenEnd(s, i) IN
         /\ e \in i .. Len(s) + 1 /\ (e > Len(s) \/ s[e] = Space)
         /\ \A j \in i .. e - 1 : s[j] # Space
<1> DEFINE T == {j \in i .. Len(s) + 1 : j > Len(s) \/ s[j] = Space}
           e == TokenEnd(s, i)
<1>1. Len(s) + 1 \in i .. Len(s) + 1 /\ Len(s) + 1 > Len(s) /\ i .. Len(s) + 1 \subseteq Nat
  BY SMT
<1>2. T \in SUBSET Nat /\ T # {}
  BY <1>1
<1>3. e \in T /\ \A y \in T : e <= y
  <2>1. e = Min(T)
    BY DEF TokenEnd
  <2> HIDE DEF e, T
  <2>. QED BY <1>2, <2>1, Least
<1>4. ASSUME NEW j \in i .. e - 1 PROVE s[j] # Space
  <2>1. e \in i .. Len(s) + 1
    BY <1>3
  <2> HIDE DEF e
  <2>2. j \in i .. Len(s) + 1 /\ ~(e <= j)
    BY SMT, <2>1
  <2>. QED BY <1>3, <2>2
<1>. QED BY <1>3, <1>4

LEMMA SkipBlanksIs ==
  ASSUME NEW s, Len(s) \in Nat, NEW i \in 1 .. Len(s) + 1
  PROVE  LET b == SkipBlanks(s, i) IN
         /\ b \in i .. Len(s) + 1 /\ (b > Len(s) \/ s[b] # Space)
         /\ \A j \in i .. b - 1 : s[j] = Space
<1> DEFINE T == {j \in i .. Len(s) + 1 : j > Len(s) \/ s[j] # Space}
           b == SkipBlanks(s, i)
<1>1. Len(s) + 1 \in i .. Len(s) + 1 /\ Len(s) + 1 > Len(s) /\ i .. Len(s) + 1 \subseteq Nat
  BY SMT
<1>2. T \in SUBSET Nat /\ T # {}
  BY <1>1
<1>3. b \in T /\ \A y \in T : b <= y
  <2>1. b = Min(T)
    BY DEF SkipBlanks
  <2> HIDE DEF b, T
  <2>. QED BY <1>2, <2>1, Least
<1>4. ASSUME NEW j \in i .. b - 1 PROVE s[j] = Space
  <2>1. b \in i .. Len(s) + 1
    BY <1>3
  <2> HIDE DEF b
  <2>2. j \in i .. Len(s) + 1 /\ ~(b <= j)
    BY SMT, <2>1
  <2>. QED BY <1>3, <2>2
<1>. QED BY <1>3, <1>4

\* One round of ksh_split_line goes from a word to the next one.
NextWord(s, i) == SkipBlanks(s, TokenEnd(s, i))

\* It goes forward, to the start of a word or the end of the line, and passes
\* no other start.
LEMMA NextWordIs ==
  ASSUME NEW s, Len(s) \in Nat, NEW i \in 1 .. Len(s) + 1
  PROVE  LET b == NextWord(s, i) IN
         /\ b \in i .. Len(s) + 1 /\ (i <= Len(s) => b > i)
         /\ b <= Len(s) => b \in Starts(s)
         /\ \A j \in Starts(s) : j > i => j >= b
<1> DEFINE e == TokenEnd(s, i)
           b == NextWord(s, i)
<1>1. /\ e \in i .. Len(s) + 1 /\ (e > Len(s) \/ s[e] = Space)
      /\ \A j \in i .. e - 1 : s[j] # Space
  BY TokenEndIs
<1>2. e \in 1 .. Len(s) + 1
  BY SMT, <1>1
<1>3. /\ b \in e .. Len(s) + 1 /\ (b > Len(s) \/ s[b] # Space)
      /\ \A j \in e .. b - 1 : s[j] = Space
  BY <1>2, SkipBlanksIs DEF NextWord
<1> HIDE DEF e, b
<1>4. b \in i .. Len(s) + 1
  BY SMT, <1>1, <1>3
<1>5. ASSUME i <= Len(s) PROVE b > i
  <2>1. SUFFICES ASSUME ~(b > i) PROVE FALSE
    OBVIOUS
  <2>2. b = i /\ e = i /\ ~(i > Len(s))
    BY SMT, <1>1, <1>3, <1>5, <2>1
  <2>. QED BY <1>1, <1>3, <2>2
<1>6. ASSUME b <= Len(s) PROVE b \in Starts(s)
  <2>1. ~(b > Len(s)) /\ b \in 1 .. Len(s) /\ (b # e => b - 1 \in e .. b - 1)
    BY SMT, <1>2, <1>3, <1>6
  <2>2. s[b] # Space
    BY <1>3, <2>1
  <2>3. b # e
    BY <1>1, <2>1, <2>2
  <2>4. s[b - 1] = Space
    BY <1>3, <2>1, <2>3
  <2>. QED BY <2>1, <2>2, <2>4 DEF Starts
<1>7. ASSUME NEW j \in Starts(s), j > i PROVE j >= b
  <2>1. SUFFICES ASSUME ~(j >= b) PROVE FALSE
    OBVIOUS
  <2>2. j \in 1 .. Len(s) /\ (j = 1 \/ (s[j] # Space /\ s[j - 1] = Space))
    BY DEF Starts
  <2>3. j # 1 /\ (j \in e .. b - 1 \/ j - 1 \in i .. e - 1)
    BY SMT, <1>1, <1>3, <1>7, <2>1, <2>2
  <2>. QED BY <1>1, <1>3, <2>2, <2>3
<1>. QED BY <1>4, <1>5, <1>6, <1>7 DEF b

\* The positions at which the rounds start exist.
LEMMA PositionsAre ==
  ASSUME NEW s, Len(s) \in Nat
  PROVE  /\ Positions(s)[1] = 1
         /\ \A n \in 2 .. Len(s) + 1 : Positions(s)[n] = NextWord(s, Positions(s)[n - 1])
<1> DEFINE k == Len(s)
           Upto(m, f) == f = [n \in 1 .. m + 1 |-> IF n = 1 THEN 1 ELSE NextWord(s, f[n - 1])]
           P == {m \in Nat : \E f : Upto(m, f)}
<1>1. 0 \in P
  <2> DEFINE f == [n \in 1 .. 0 + 1 |-> 1]
  <2>1. \A n \in 1 .. 0 + 1 : n = 1
    BY SMT
  <2>2. Upto(0, f)
    BY <2>1
  <2>. QED BY <2>2
<1>2. ASSUME NEW m \in 0 .. k - 1, m \in P PROVE m + 1 \in P
  <2>1. PICK f : Upto(m, f)
    BY <1>2
  <2> DEFINE top == (m + 1) + 1
             g == [n \in 1 .. top |-> IF n = top THEN NextWord(s, f[n - 1]) ELSE f[n]]
  <2>2. /\ m + 1 \in Nat /\ top # 1
        /\ \A n \in 1 .. top : n # top => n \in 1 .. m + 1
        /\ \A n \in 1 .. top : n # 1 => n - 1 \in 1 .. top /\ n - 1 # top
    BY SMT
  <2>3. ASSUME NEW n \in 1 .. top PROVE g[n] = IF n = 1 THEN 1 ELSE NextWord(s, g[n - 1])
    <3> HIDE DEF top
    <3>1. n # 1 => g[n - 1] = f[n - 1]
      BY <2>2
    <3>2. CASE n = top
      <4>1. g[n] = NextWord(s, f[n - 1]) /\ n # 1
        BY <2>2, <3>2
      <4>. QED BY <3>1, <4>1
    <3>3. CASE n # top
      <4>1. n \in 1 .. m + 1 /\ g[n] = f[n]
        BY <2>2, <3>3
      <4>2. f[n] = IF n = 1 THEN 1 ELSE NextWord(s, f[n - 1])
        BY <2>1, <4>1
      <4> HIDE DEF g
      <4>. QED BY <3>1, <4>1, <4>2
    <3>. QED BY <3>2, <3>3
  <2>4. g = [n \in 1 .. top |-> g[n]]
    OBVIOUS
  <2>5. Upto(m + 1, g)
    <3> HIDE DEF g
    <3>. QED BY <2>3, <2>4
  <2>. QED BY <2>2, <2>5
<1>3. k \in 0 .. k
  BY SMT
<1>4. k \in P
  <2> HIDE DEF P
  <2>. QED BY <1>1, <1>2, <1>3, Steps
<1>5. \E f : f = [n \in 1 .. Len(s) + 1 |-> IF n = 1 THEN 1 ELSE NextWord(s, f[n - 1])]
  BY <1>4
<1>6. Positions(s) = CHOOSE f : f = [n \in 1 .. Len(s) + 1 |-> IF n = 1 THEN 1 ELSE NextWord(s, f[n - 1])]
  BY DEF Positions, NextWord
<1> DEFINE at == Positions(s)
<1>7. at = [n \in 1 .. Len(s) + 1 |-> IF n = 1 THEN 1 ELSE NextWord(s, at[n - 1])]
  <2> HIDE DEF at
  <2>. QED BY <1>5, <1>6 DEF at
<1> HIDE DEF at
<1>8. \A n \in 1 .. Len(s) + 1 : at[n] = IF n = 1 THEN 1 ELSE NextWord(s, at[n - 1])
  BY <1>7
<1>9. 1 \in 1 .. Len(s) + 1 /\ \A n \in 2 .. Len(s) + 1 : n \in 1 .. Len(s) + 1 /\ n # 1
  BY SMT
<1>. QED BY <1>8, <1>9 DEF at

\* They lie on the line or at its end, and the n-th is n or more.
LEMMA PositionsBound ==
  ASSUME NEW s, Len(s) \in Nat
  PROVE  \A n \in 1 .. Len(s) + 1 : Positions(s)[n] \in n .. Len(s) + 1
<1> DEFINE at == Positions(s)
           P == {m \in Nat : at[m + 1] \in m + 1 .. Len(s) + 1}
<1>1. 0 \in P
  <2>1. at[1] = 1 /\ 0 + 1 = 1
    BY SMT, PositionsAre
  <2>2. 1 \in 1 .. Len(s) + 1
    BY SMT
  <2>. QED BY <2>1, <2>2
<1>2. ASSUME NEW m \in 0 .. Len(s) - 1, m \in P PROVE m + 1 \in P
  <2> DEFINE i == at[m + 1]
             n == (m + 1) + 1
  <2>1. n \in 2 .. Len(s) + 1 /\ n - 1 = m + 1 /\ m + 1 \in Nat
    BY SMT
  <2>2. i \in m + 1 .. Len(s) + 1 /\ at[n] = NextWord(s, i)
    BY <1>2, <2>1, PositionsAre
  <2> HIDE DEF i
  <2>3. i \in 1 .. Len(s) + 1
    BY SMT, <2>2
  <2>4. NextWord(s, i) \in i .. Len(s) + 1 /\ (i <= Len(s) => NextWord(s, i) > i)
    BY <2>3, NextWordIs
  <2>5. NextWord(s, i) \in n .. Len(s) + 1
    BY SMT, <2>2, <2>3, <2>4
  <2>. QED BY <2>1, <2>2, <2>5
<1>3. ASSUME NEW n \in 1 .. Len(s) + 1 PROVE at[n] \in n .. Len(s) + 1
  <2>1. n - 1 \in 0 .. Len(s) /\ (n - 1) + 1 = n
    BY SMT
  <2>2. n - 1 \in P
    <3> HIDE DEF P
    <3>. QED BY <1>1, <1>2, <2>1, Steps
  <2>. QED BY <2>1, <2>2
<1>. QED BY <1>3

\* at lists, in order, the starts of the words w of s.
Lists(s, at, w) ==
  /\ at \in [1 .. Len(w) -> Starts(s)] /\ Range(at) = Starts(s)
  /\ \A m, n \in 1 .. Len(w) : m < n => at[m] < at[n]
  /\ \A n \in 1 .. Len(w) : WordAt(s, at[n], w[n])

\* ksh_split_line finds the words of a line.
LEMMA SplitFinds ==
  ASSUME NEW s \in Seq(Letters \cup {Space})
  PROVE  SplitLine(s) \in Seq(Seq(Letters)) /\ \E at : Lists(s, at, SplitLine(s))
<1> DEFINE k == Len(s)
           pos == Positions(s)
           T == {n \in 1 .. k + 1 : pos[n] > k}
           N == Min(T) - 1
           w == SplitLine(s)
<1>1. k \in Nat /\ \A i \in 1 .. k : s[i] \in Letters \cup {Space}
  BY SMT
<1>2. \A n \in 1 .. k + 1 : pos[n] \in n .. k + 1
  BY <1>1, PositionsBound
<1>3. pos[1] = 1 /\ \A n \in 2 .. k + 1 : pos[n] = NextWord(s, pos[n - 1])
  BY <1>1, PositionsAre
<1> HIDE DEF pos
<1>4. Min(T) \in T /\ \A y \in T : Min(T) <= y
  <2>1. k + 1 \in 1 .. k + 1 /\ 1 .. k + 1 \subseteq Nat /\ \A x \in k + 1 .. k + 1 : x > k
    BY SMT, <1>1
  <2>2. k + 1 \in T
    BY <1>2, <2>1
  <2>3. T \in SUBSET Nat /\ T # {}
    BY <2>1, <2>2
  <2> HIDE DEF T
  <2>. QED BY <2>3, Least
<1>5. /\ N \in 0 .. k /\ N + 1 \in 1 .. k + 1 /\ pos[N + 1] > k
      /\ \A n \in 1 .. N : n \in 1 .. k + 1 /\ ~(pos[n] > k)
  <2>1. Min(T) \in 1 .. k + 1 /\ pos[Min(T)] > k
    BY <1>4
  <2>2. ASSUME NEW n \in 1 .. N PROVE n \in 1 .. k + 1 /\ ~(pos[n] > k)
    <3>1. n \in 1 .. k + 1 /\ ~(Min(T) <= n)
      BY SMT, <1>1, <2>1
    <3>. QED BY <1>4, <3>1
  <2>3. N \in 0 .. k /\ N + 1 = Min(T)
    BY SMT, <1>1, <2>1
  <2>. QED BY <2>1, <2>2, <2>3
<1> HIDE DEF N, T
\* Each position is at a word, which is shorter than what is left of the line.
<1>6. ASSUME NEW n \in 1 .. N
      PROVE  /\ pos[n] \in 1 .. k /\ pos[n] \in Starts(s)
             /\ LET v == SubSeq(s, pos[n], TokenEnd(s, pos[n]) - 1)
                IN v \in Seq(Letters) /\ WordAt(s, pos[n], v)
  <2> DEFINE i == pos[n]
             e == TokenEnd(s, i)
             v == SubSeq(s, i, e - 1)
  <2>1. i \in 1 .. k
    <3>1. n \in 1 .. k + 1 /\ ~(i > k) /\ i \in n .. k + 1
      BY <1>2, <1>5
    <3> HIDE DEF i
    <3>. QED BY SMT, <1>1, <3>1
  <2>2. i \in Starts(s)
    <3>1. CASE n = 1
      BY <1>3, <2>1, <3>1 DEF Starts
    <3>2. CASE n # 1
      <4>1. n \in 2 .. k + 1 /\ n - 1 \in 1 .. N
        BY SMT, <1>1, <1>5, <3>2
      <4>2. pos[n - 1] \in n - 1 .. k + 1 /\ n - 1 \in 1 .. k + 1
        BY <1>2, <1>5, <4>1
      <4>3. pos[n - 1] \in 1 .. k + 1
        BY SMT, <1>1, <4>2
      <4>4. NextWord(s, pos[n - 1]) <= k => NextWord(s, pos[n - 1]) \in Starts(s)
        BY <1>1, <4>3, NextWordIs
      <4>5. i <= k
        BY SMT, <1>1, <2>1
      <4>. QED BY <1>3, <4>1, <4>4, <4>5
    <3>. QED BY <3>1, <3>2
  <2> HIDE DEF i
  <2>3. i \in 1 .. k + 1
    BY SMT, <1>1, <2>1
  <2>4. /\ e \in i .. k + 1 /\ (e > k \/ s[e] = Space)
        /\ \A j \in i .. e - 1 : s[j] # Space
    BY <1>1, <2>3, TokenEndIs
  <2> HIDE DEF e
  <2>5. Len(v) = e - i /\ \A j \in 1 .. e - i : v[j] = s[i + j - 1]
    BY SMT, <1>1, <2>3, <2>4
  <2>6. \A j \in 1 .. e - i : i + j - 1 \in i .. e - 1 /\ i + j - 1 \in 1 .. k
    BY SMT, <1>1, <2>3, <2>4
  <2>7. e - i \in Nat /\ i + (e - i) = e /\ e <= k + 1 /\ (e <= k => ~(e > k))
    BY SMT, <1>1, <2>3, <2>4
  <2>8. \A j \in 1 .. e - i : v[j] \in Letters /\ v[j] # Space
    BY <1>1, <2>4, <2>5, <2>6
  <2>9. v \in Seq(Letters)
    <3>1. v \in Seq(Letters \cup {Space})
      BY SMT, <1>1, <2>3, <2>4
    <3> HIDE DEF v
    <3>. QED BY SMT, <2>5, <2>7, <2>8, <3>1
  <2>10. WordAt(s, i, v)
    <3> HIDE DEF v
    <3>. QED BY <2>4, <2>5, <2>7, <2>8 DEF WordAt
  <2>. QED BY <2>1, <2>2, <2>9, <2>10 DEF i, e, v
<1>7. /\ w = [n \in 1 .. N |-> SubSeq(s, pos[n], TokenEnd(s, pos[n]) - 1)]
      /\ w \in Seq(Seq(Letters)) /\ Len(w) = N
  <2>1. w = [n \in 1 .. N |-> SubSeq(s, pos[n], TokenEnd(s, pos[n]) - 1)]
    BY DEF SplitLine, pos, N, T
  <2>2. N \in Nat
    BY SMT, <1>1, <1>5
  <2>3. w \in [1 .. N -> Seq(Letters)]
    <3> HIDE DEF w
    <3>. QED BY <1>6, <2>1
  <2> HIDE DEF w
  <2>. QED BY SMT, <2>1, <2>2, <2>3
\* The positions grow.
<1>8. ASSUME NEW n \in 1 .. N PROVE pos[n + 1] = NextWord(s, pos[n]) /\ pos[n + 1] > pos[n]
  <2>1. n + 1 \in 2 .. k + 1 /\ (n + 1) - 1 = n
    BY SMT, <1>1, <1>5
  <2>2. pos[n] \in 1 .. k + 1 /\ pos[n] <= k
    BY SMT, <1>1, <1>6
  <2>3. NextWord(s, pos[n]) > pos[n]
    BY <1>1, <2>2, NextWordIs
  <2>. QED BY <1>3, <2>1, <2>3
<1>9. ASSUME NEW m \in 1 .. N, NEW n \in 1 .. N, m < n PROVE pos[m] < pos[n]
  <2> DEFINE P == {j \in Nat : m + j + 1 <= N => pos[m] < pos[m + j + 1]}
  <2>1. 0 \in P
    <3>1. m + 0 + 1 = m + 1 /\ 0 \in Nat
      BY SMT
    <3>2. pos[m] \in 1 .. k /\ pos[m + 1] > pos[m]
      BY <1>6, <1>8
    <3>3. N \in Nat
      BY SMT, <1>1, <1>5
    <3>4. m + 1 <= N => pos[m] < pos[m + 1]
      <4>1. ASSUME m + 1 <= N PROVE m + 1 \in 1 .. N
        BY SMT, <3>3, <4>1
      <4>2. ASSUME m + 1 <= N PROVE pos[m + 1] \in 1 .. k
        BY <1>6, <4>1, <4>2
      <4>. QED BY SMT, <1>1, <3>2, <4>2
    <3>. QED BY <3>1, <3>4
  <2>2. ASSUME NEW j \in 0 .. N - 1, j \in P PROVE j + 1 \in P
    <3>1. j + 1 \in Nat /\ m + (j + 1) + 1 = (m + j + 1) + 1 /\ N \in Nat
      BY SMT, <1>1, <1>5
    <3>2. ASSUME m + (j + 1) + 1 <= N PROVE pos[m] < pos[m + (j + 1) + 1]
      <4> DEFINE a == m + j + 1
      <4>1. a \in 1 .. N /\ a <= N /\ a + 1 \in 1 .. N
        BY SMT, <3>1, <3>2
      <4>2. pos[m] < pos[a]
        BY <2>2, <4>1
      <4> HIDE DEF a
      <4>3. pos[m] \in 1 .. k /\ pos[a] \in 1 .. k /\ pos[a + 1] \in 1 .. k /\ pos[a + 1] > pos[a]
        BY <1>6, <1>8, <4>1
      <4>4. pos[m] < pos[a + 1]
        BY SMT, <1>1, <4>2, <4>3
      <4>. QED BY <3>1, <4>4 DEF a
    <3>. QED BY <3>1, <3>2
  <2>3. N \in Nat /\ n - m - 1 \in 0 .. N /\ m + (n - m - 1) + 1 = n /\ n <= N
    BY SMT, <1>1, <1>5, <1>9
  <2>4. n - m - 1 \in P
    <3> HIDE DEF P
    <3>. QED BY <2>1, <2>2, <2>3, Steps
  <2>. QED BY <2>3, <2>4
\* No word is left out.
<1>10. ASSUME NEW j \in Starts(s) PROVE \E n \in 1 .. N : pos[n] = j
  <2>1. j \in 1 .. k
    BY DEF Starts
  <2> DEFINE Q == {n \in 1 .. N + 1 : pos[n] > j}
  <2>2. N + 1 \in Q
    <3>1. N + 1 \in 1 .. N + 1 /\ pos[N + 1] \in N + 1 .. k + 1
      BY SMT, <1>1, <1>2, <1>5
    <3>2. pos[N + 1] > j
      BY SMT, <1>1, <1>5, <2>1, <3>1
    <3>. QED BY <3>1, <3>2
  <2> DEFINE n == Min(Q)
  <2>3. n \in Q /\ \A y \in Q : n <= y
    <3>1. 1 .. N + 1 \subseteq Nat
      BY SMT, <1>1, <1>5
    <3>2. Q \in SUBSET Nat /\ Q # {}
      BY <2>2, <3>1
    <3> HIDE DEF Q
    <3>. QED BY <3>2, Least
  <2>4. n \in 1 .. N + 1 /\ pos[n] > j
    BY <2>3
  <2> HIDE DEF n
  <2>5. n # 1
    <3>1. ~(1 > j)
      BY SMT, <1>1, <2>1
    <3>. QED BY <1>3, <2>4, <3>1
  <2>6. n - 1 \in 1 .. N /\ n - 1 \in 1 .. N + 1 /\ ~(n <= n - 1) /\ (n - 1) + 1 = n
    BY SMT, <1>1, <1>5, <2>4, <2>5
  <2>7. ~(pos[n - 1] > j)
    BY <2>3, <2>6
  <2>8. pos[n - 1] \in 1 .. k /\ pos[n] = NextWord(s, pos[n - 1])
    BY <1>6, <1>8, <2>6
  <2>9. j > pos[n - 1] => j >= pos[n]
    <3>1. pos[n - 1] \in 1 .. k + 1
      BY SMT, <1>1, <2>8
    <3>. QED BY <1>1, <2>8, <3>1, NextWordIs
  <2>10. pos[n] \in n .. k + 1
    <3>1. n \in 1 .. k + 1
      BY SMT, <1>1, <1>5, <2>4
    <3>. QED BY <1>2, <3>1
  <2>11. pos[n - 1] = j
    BY SMT, <1>1, <1>5, <2>1, <2>4, <2>7, <2>8, <2>9, <2>10
  <2>. QED BY <2>6, <2>11
<1> DEFINE at == [n \in 1 .. N |-> pos[n]]
<1>11. Lists(s, at, w)
  <2>1. at \in [1 .. Len(w) -> Starts(s)]
    BY <1>6, <1>7
  <2>2. Range(at) = Starts(s)
    BY <1>6, <1>10 DEF Range
  <2>3. \A m, n \in 1 .. Len(w) : m < n => at[m] < at[n]
    BY <1>7, <1>9
  <2>4. \A n \in 1 .. Len(w) : WordAt(s, at[n], w[n])
    <3> HIDE DEF w
    <3>. QED BY <1>6, <1>7
  <2>. QED BY <2>1, <2>2, <2>3, <2>4 DEF Lists
<1>. QED BY <1>7, <1>11

\* As many words as starts.
LEMMA CountStarts ==
  ASSUME NEW s, Len(s) \in Nat, NEW w, Len(w) \in Nat, NEW at, Lists(s, at, w)
  PROVE  Cardinality(Starts(s)) = Len(w)
<1> DEFINE D == 1 .. Len(w)
<1>1. at \in [D -> Starts(s)] /\ Range(at) = Starts(s) /\ \A m, n \in D : m < n => at[m] < at[n]
  BY DEF Lists
<1>2. \A x \in Starts(s) : x \in Nat
  <2>1. 1 .. Len(s) \subseteq Nat
    BY SMT
  <2>. QED BY <2>1 DEF Starts
<1>3. ASSUME NEW m \in D, NEW n \in D, at[m] = at[n] PROVE m = n
  <2>1. at[m] \in Nat /\ at[n] \in Nat
    BY <1>1, <1>2
  <2>2. ~(at[m] < at[n]) /\ ~(at[n] < at[m])
    BY SMT, <1>3, <2>1
  <2>3. ~(m < n) /\ ~(n < m)
    BY <1>1, <2>2
  <2>. QED BY SMT, <2>3
<1>4. at \in Bijection(D, Starts(s))
  <2>1. at \in Injection(D, Starts(s))
    BY <1>1, <1>3 DEF Injection, IsInjective
  <2>2. at \in Surjection(D, Starts(s))
    BY <1>1 DEF Surjection, Range
  <2>. QED BY <2>1, <2>2 DEF Bijection
<1>5. IsFiniteSet(D) /\ Cardinality(D) = Len(w)
  <2>1. 1 \in Int /\ Len(w) \in Int /\ (1 > Len(w) => Len(w) = 0) /\ Len(w) - 1 + 1 = Len(w)
    BY SMT
  <2>. QED BY <2>1, FS_Interval
<1>6. ExistsBijection(D, Starts(s))
  BY <1>4 DEF ExistsBijection
<1>. QED BY <1>5, <1>6, FS_Bijection

-----------------------------------------------------------------------------
(* The shell                                                               *)

\* The screen is in order; while a line is read the screen and the serial
\* terminal end with it, and otherwise a line starts; what is run was split.
ShellInv ==
  /\ Screen(term.cga)
  /\ pc \in {"prompt", "read", "split", "run"}
  /\ line \in Seq(Letters \cup {Space}) /\ Len(line) <= CMD_MAX_LEN
  /\ pc # "read" => term.uart = <<>>
  /\ pc = "read" => term.uart = Prompt \o line /\ Shows(term.cga, Prompt \o line)
  /\ parts \in Seq(Seq(Letters))
  /\ pc = "run" => parts = SplitLine(line)
  /\ overrun \in {"none", "buf", "parts"}
  /\ overrun = "buf" => pc = "split" /\ Len(line) = CMD_MAX_LEN
  /\ overrun = "parts" => pc = "run" /\ Len(parts) >= CMD_MAX_PARTS

\* The line behind the prompt.
LEMMA Prompted ==
  ASSUME NEW l \in Seq(Letters \cup {Space})
  PROVE  /\ Prompt \o l \in Seq(Chars) /\ Prompt \o l # <<>>
         /\ \A c \in Letters \cup {Space} :
              Append(Prompt \o l, c) = Prompt \o Append(l, c) /\ Append(l, c) \in Seq(Letters \cup {Space})
         /\ l # <<>> => Front(Prompt \o l) = Prompt \o Front(l) /\ Front(l) \in Seq(Letters \cup {Space})
<1>1. Letters \cup {Space} \subseteq Chars /\ "$" \in Chars
  BY DEF Chars, Blank
<1>2. l \in Seq(Chars)
  BY SMT, <1>1
<1>3. Prompt \o l \in Seq(Chars) /\ Prompt \o l # <<>>
  BY SMT, <1>1, <1>2 DEF Prompt
<1>4. ASSUME NEW c \in Letters \cup {Space}
      PROVE  Append(Prompt \o l, c) = Prompt \o Append(l, c) /\ Append(l, c) \in Seq(Letters \cup {Space})
  BY SMT, <1>4 DEF Prompt
<1>5. ASSUME l # <<>>
      PROVE  Front(Prompt \o l) = Prompt \o Front(l) /\ Front(l) \in Seq(Letters \cup {Space})
  BY SMT, <1>5 DEF Prompt, Front
<1>. QED BY <1>3, <1>4, <1>5

\* The shell starts with an empty screen and an empty line.
LEMMA ShellInitially == ShellInit => ShellInv
<1> SUFFICES ASSUME ShellInit PROVE ShellInv
  OBVIOUS
<1>1. /\ term.cga.pos \in TextCells /\ term.cga.crt = [i \in Cells |-> Space] /\ term.uart = <<>>
      /\ pc = "prompt" /\ line = <<>> /\ parts = <<>> /\ overrun = "none"
  BY DEF ShellInit
<1>2. Space \in Blank /\ Space \in Chars
  BY DEF Blank, Chars
<1>3. TextCells \subseteq Cells
  BY SMT, Layout
<1>4. Screen(term.cga)
  <2>1. term.cga.crt \in [Cells -> Chars]
    BY <1>1, <1>2
  <2>2. \A i \in TextCells : term.cga.crt[i] \in Blank
    BY <1>1, <1>2, <1>3
  <2>. QED BY <1>1, <2>1, <2>2 DEF Screen
<1>5. line \in Seq(Letters \cup {Space}) /\ Len(line) <= CMD_MAX_LEN /\ parts \in Seq(Seq(Letters))
  BY SMT, <1>1, ShellAssumption
<1>. QED BY <1>1, <1>4, <1>5 DEF ShellInv

\* A letter or a blank is written as it is.
LEMMA Visible == \A c \in Letters \cup {Space} : c \in Chars /\ c \in Keys /\ c \notin {NewLine, BACKSPACE}
<1>1. Space \notin {NewLine, BACKSPACE} /\ Letters \cap {NewLine, BACKSPACE} = {}
  BY ShellAssumption DEF Space, NewLine, BACKSPACE
<1>. QED BY <1>1 DEF Chars, Keys, Blank

\* Each step of the shell keeps the invariant.
LEMMA ShellStep == ShellInv /\ [ShellNext]_shellVars => ShellInv'
<1> SUFFICES ASSUME ShellInv, [ShellNext]_shellVars PROVE ShellInv'
  OBVIOUS
<1> DEFINE Line == Seq(Letters \cup {Space})
<1>1. Screen(term.cga) /\ line \in Line /\ Len(line) <= CMD_MAX_LEN /\ parts \in Seq(Seq(Letters))
  BY DEF ShellInv
<1>2. pc \notin {"split", "run"} => overrun = "none"
  BY DEF ShellInv
<1>3. NewLine \in Keys /\ BACKSPACE \in Keys /\ "$" \in Keys /\ "$" \in Chars /\ "$" \notin {NewLine, BACKSPACE}
  BY DEF Keys, Chars, NewLine, BACKSPACE
<1>4. CASE ShowPrompt
  <2>1. term' = Putchar(term, "$")
    BY <1>4, PutsOne DEF ShowPrompt, Prompt
  <2>2. /\ pc = "prompt" /\ pc' = "read" /\ line' = <<>> /\ parts' = <<>> /\ overrun' = "none"
        /\ term.uart = <<>>
    BY <1>2, <1>4 DEF ShowPrompt, ShellInv
  <2>3. term'.cga = CgaPutchar(term.cga, "$") /\ term'.uart = UartPutc(<<>>, "$")
    BY <2>1, <2>2, PutcharIs
  <2>4. term'.uart = Append(<<>>, "$")
    BY <1>3, <2>3 DEF UartPutc
  <2>5. <<>> \in Seq(Chars) /\ Append(<<>>, "$") = Prompt \o <<>>
    BY SMT DEF Prompt
  <2>6. Shows(term.cga, <<>>)
    <3>1. \A i \in 1 .. Len(<<>>) : FALSE
      BY SMT
    <3>. QED BY <3>1 DEF Shows
  <2>7. Shows(term'.cga, Prompt \o <<>>)
    <3>1. Shows(CgaPutchar(term.cga, "$"), Append(<<>>, "$"))
      BY <1>1, <1>3, <2>5, <2>6, TypedShows
    <3>. QED BY <2>3, <2>5, <3>1
  <2>8. Screen(term'.cga)
    BY <1>1, <1>3, <2>3, ScreenKept
  <2>9. <<>> \in Line /\ Len(<<>>) <= CMD_MAX_LEN /\ <<>> \in Seq(Seq(Letters))
    BY SMT, ShellAssumption
  <2>. QED BY <2>2, <2>4, <2>5, <2>7, <2>8, <2>9 DEF ShellInv
<1>5. CASE Erase
  <2>1. /\ pc = "read" /\ line # <<>> /\ line' = Front(line) /\ term' = Putchar(term, BACKSPACE)
        /\ pc' = "read" /\ parts' = parts /\ overrun' = "none"
    BY <1>2, <1>5 DEF Erase
  <2> DEFINE l == Prompt \o line
  <2>2. term.uart = l /\ Shows(term.cga, l)
    BY <2>1 DEF ShellInv
  <2>3. l \in Seq(Chars) /\ l # <<>> /\ Front(l) = Prompt \o Front(line) /\ Front(line) \in Line
    BY <1>1, <2>1, Prompted
  <2> HIDE DEF l
  <2>4. term'.cga = CgaPutchar(term.cga, BACKSPACE) /\ term'.uart = UartPutc(l, BACKSPACE)
    BY <2>1, <2>2, PutcharIs
  <2>5. term'.uart = Front(l)
    BY <2>3, <2>4 DEF UartPutc, NewLine, BACKSPACE
  <2>6. Shows(term'.cga, Front(l))
    BY <1>1, <2>2, <2>3, <2>4, ErasedShows
  <2>7. Screen(term'.cga)
    BY <1>1, <1>3, <2>4, ScreenKept
  <2>8. Len(Front(line)) <= CMD_MAX_LEN
    BY SMT, <1>1, <2>1, ShellAssumption DEF Front
  <2>. QED BY <1>1, <2>1, <2>3, <2>5, <2>6, <2>7, <2>8 DEF ShellInv
<1>6. ASSUME NEW c \in Letters \cup {Space}, Type(c) PROVE ShellInv'
  <2>1. /\ pc = "read" /\ Len(line) < CMD_MAX_LEN /\ line' = Append(line, c) /\ term' = Putchar(term, c)
        /\ pc' = "read" /\ parts' = parts /\ overrun' = "none"
    BY <1>2, <1>6 DEF Type
  <2> DEFINE l == Prompt \o line
  <2>2. term.uart = l /\ Shows(term.cga, l)
    BY <2>1 DEF ShellInv
  <2>3. l \in Seq(Chars) /\ Append(l, c) = Prompt \o Append(line, c) /\ Append(line, c) \in Line
    BY <1>1, Prompted
  <2> HIDE DEF l
  <2>4. c \in Chars /\ c \in Keys /\ c \notin {NewLine, BACKSPACE}
    BY Visible
  <2>5. term'.cga = CgaPutchar(term.cga, c) /\ term'.uart = UartPutc(l, c)
    BY <2>1, <2>2, PutcharIs
  <2>6. term'.uart = Append(l, c)
    BY <2>4, <2>5 DEF UartPutc
  <2>7. Shows(term'.cga, Append(l, c))
    BY <1>1, <2>2, <2>3, <2>4, <2>5, TypedShows
  <2>8. Screen(term'.cga)
    BY <1>1, <2>4, <2>5, ScreenKept
  <2>9. Len(Append(line, c)) <= CMD_MAX_LEN
    BY SMT, <1>1, <2>1, ShellAssumption
  <2>. QED BY <1>1, <2>1, <2>3, <2>6, <2>7, <2>8, <2>9 DEF ShellInv
<1>7. CASE Enter
  <2>1. /\ pc = "read" /\ term' = Putchar(term, NewLine) /\ pc' = "split"
        /\ overrun' = (IF Len(line) >= CMD_MAX_LEN THEN "buf" ELSE "none")
        /\ line' = line /\ parts' = parts
    BY <1>2, <1>7 DEF Enter
  <2>2. term'.cga = CgaPutchar(term.cga, NewLine) /\ term'.uart = UartPutc(term.uart, NewLine)
    BY <2>1, PutcharIs
  <2>3. term'.uart = <<>> /\ Screen(term'.cga)
    <3>1. Screen(CgaPutchar(term.cga, NewLine))
      BY <1>1, <1>3, ScreenKept
    <3>. QED BY <2>2, <3>1 DEF UartPutc, NewLine, BACKSPACE
  <2>4. Len(line) >= CMD_MAX_LEN => Len(line) = CMD_MAX_LEN
    BY SMT, <1>1, ShellAssumption
  <2>. QED BY <1>1, <2>1, <2>3, <2>4 DEF ShellInv
<1>8. CASE Split
  <2>1. /\ pc = "split" /\ parts' = SplitLine(line) /\ pc' = "run" /\ term' = term /\ line' = line
        /\ overrun' = IF Len(SplitLine(line)) >= CMD_MAX_PARTS THEN "parts" ELSE "none"
    BY <1>8 DEF Split
  <2>2. SplitLine(line) \in Seq(Seq(Letters))
    BY <1>1, SplitFinds
  <2>3. term.uart = <<>>
    BY <2>1 DEF ShellInv
  <2>. QED BY <1>1, <2>1, <2>2, <2>3 DEF ShellInv
<1>9. CASE Run
  <2>1. /\ pc = "run" /\ overrun = "none" /\ pc' = "prompt"
        /\ line' = line /\ parts' = parts /\ overrun' = overrun
        /\ term' = CASE parts = <<>> -> Puts(term, <<NewLine>>)
                     [] parts # <<>> /\ parts[1] = Echo -> EchoText(term, parts)
                     [] OTHER -> Puts(term, NotFound \o parts[1] \o <<NewLine>>)
    BY <1>9 DEF Run
  <2>2. Screen(term'.cga) /\ term'.uart = <<>>
    <3>1. CASE parts = <<>>
      <4>1. term' = Putchar(term, NewLine)
        BY <2>1, <3>1, PutsOne
      <4>2. Screen(CgaPutchar(term.cga, NewLine))
        BY <1>1, <1>3, ScreenKept
      <4>3. UartPutc(term.uart, NewLine) = <<>>
        BY DEF UartPutc, NewLine, BACKSPACE
      <4>. QED BY <4>1, <4>2, <4>3, PutcharIs
    <3>2. CASE parts # <<>> /\ parts[1] = Echo
      <4>1. term' = EchoText(term, parts)
        BY <2>1, <3>2
      <4>. QED BY <1>1, <3>2, <4>1, EchoKeeps
    <3>3. CASE parts # <<>> /\ parts[1] # Echo
      <4> DEFINE s == NotFound \o parts[1]
      <4>1. term' = Puts(term, s \o <<NewLine>>)
        BY <2>1, <3>3
      <4>2. parts[1] \in Seq(Letters)
        BY SMT, <1>1, <3>3
      <4>3. parts[1] \in Seq(Keys) /\ "?" \in Keys
        BY <4>2, Showable
      <4>4. s \in Seq(Keys)
        BY SMT, <4>3 DEF NotFound
      <4> HIDE DEF s
      <4>5. s \o <<NewLine>> = Append(s, NewLine) /\ Append(s, NewLine) \in Seq(Keys)
        BY SMT, <1>3, <4>4
      <4>6. Screen(Puts(term, Append(s, NewLine)).cga)
        BY <1>1, <4>5, PutsScreen
      <4>7. Puts(term, Append(s, NewLine)).uart = <<>>
        BY <4>4, PutsLine
      <4>. QED BY <4>1, <4>5, <4>6, <4>7
    <3>. QED BY <3>1, <3>2, <3>3
  <2>. QED BY <1>1, <2>1, <2>2 DEF ShellInv
<1>10. CASE UNCHANGED shellVars
  BY <1>10 DEF ShellInv, shellVars
<1>11. ASSUME NEW c, Ignore(c) PROVE ShellInv'
  <2>1. UNCHANGED shellVars
    BY <1>11 DEF Ignore
  <2>. QED BY <1>10, <2>1
<1>. QED BY <1>4, <1>5, <1>6, <1>7, <1>8, <1>9, <1>10, <1>11 DEF ShellNext

\* The invariant holds in every reachable state.
LEMMA ShellInvariance == ShellSpec => []ShellInv
BY ShellInitially, ShellStep, PTL DEF ShellSpec

\* While a line is read, the screen and the serial terminal show the prompt and
\* the line up to the cursor, and nothing after it, through wraps, scrolls and
\* erasures.
THEOREM LineShown == ShellSpec => []ScreenShowsLine
<1>1. ShellInv => ScreenShowsLine
  BY DEF ShellInv, ScreenShowsLine, Screen, Shows
<1>. QED BY <1>1, ShellInvariance, PTL

\* ksh_split_line finds all words of the line, in order.
THEOREM WordsFound == ShellSpec => []SplitIsWords
<1>1. ShellInv => SplitIsWords
  <2> SUFFICES ASSUME ShellInv, pc = "run"
               PROVE \E at \in [1 .. Len(parts) -> Starts(line)] :
                       /\ Range(at) = Starts(line)
                       /\ \A m, n \in 1 .. Len(parts) : m < n => at[m] < at[n]
                       /\ \A n \in 1 .. Len(parts) : WordAt(line, at[n], parts[n])
    BY DEF SplitIsWords
  <2>1. line \in Seq(Letters \cup {Space}) /\ parts = SplitLine(line)
    BY DEF ShellInv
  <2>2. PICK at : Lists(line, at, parts)
    BY <2>1, SplitFinds
  <2>. QED BY <2>2 DEF Lists
<1>. QED BY <1>1, ShellInvariance, PTL

\* The stores of the line editor and of ksh_split_line stay within buf and
\* parts, but for the terminator of a full line and the end of a full list.
THEOREM StoresInBounds == ShellSpec => []InBounds
<1>1. ShellInv => InBounds
  <2> SUFFICES ASSUME ShellInv PROVE InBounds
    OBVIOUS
  <2>1. line \in Seq(Letters \cup {Space}) /\ parts \in Seq(Seq(Letters)) /\ Screen(term.cga)
    BY DEF ShellInv
  <2>2. ShellTypeOK
    <3>1. term.cga.pos \in Cells /\ \A i \in Cells : term.cga.crt[i] \in Letters \cup Blank \cup {"$", "?"}
      <4>1. TextCells \subseteq Cells
        BY SMT, Layout
      <4>. QED BY <2>1, <4>1 DEF Screen, Chars
    <3>2. term.uart \in Seq(Letters \cup {Space, "$", "?"})
      <4>1. <<>> \in Seq(Letters \cup {Space, "$", "?"})
        BY SMT
      <4>2. Prompt \o line \in Seq(Letters \cup {Space, "$", "?"})
        BY SMT, <2>1 DEF Prompt
      <4>. QED BY <4>1, <4>2 DEF ShellInv
    <3>. QED BY <3>1, <3>2 DEF ShellInv, ShellTypeOK
  <2>3. ASSUME overrun = "parts" PROVE Cardinality(Starts(line)) >= CMD_MAX_PARTS
    <3>1. parts = SplitLine(line) /\ Len(parts) >= CMD_MAX_PARTS
      BY <2>3 DEF ShellInv
    <3>2. PICK at : Lists(line, at, parts)
      BY <2>1, <3>1, SplitFinds
    <3>3. Len(line) \in Nat /\ Len(parts) \in Nat
      BY SMT, <2>1
    <3>4. Cardinality(Starts(line)) = Len(parts)
      BY <3>2, <3>3, CountStarts
    <3>. QED BY <3>1, <3>4
  <2>4. overrun = "buf" => Len(line) = CMD_MAX_LEN /\ pc = "split"
    BY DEF ShellInv
  <2>. QED BY <2>2, <2>3, <2>4 DEF InBounds
<1>. QED BY <1>1, ShellInvariance, PTL
=============================================================================
