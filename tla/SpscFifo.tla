------------------------------ MODULE SpscFifo ------------------------------
(***************************************************************************)
(* kernel/src/util/fifo.c, one memory access per step: a writer and a      *)
(* reader that run concurrently share a ring buffer and its two indices,   *)
(* without a lock.  The atomic loads and stores use acquire and release    *)
(* order, so the accesses are modelled in program order.                   *)
(***************************************************************************)
EXTENDS Naturals, Sequences

CONSTANTS Byte,         \* the bytes written
          buffer_size,  \* spsc_fifo_t: buffer_size
          NULL          \* an uninitialised slot or local, or no result yet

ASSUME FifoAssumption ==
  /\ buffer_size \in Nat \ {0}
  /\ NULL \notin Byte
  /\ {"ok", "full", "empty"} \cap Byte = {}

VARIABLES buffer, read, write,   \* spsc_fifo_t
          wpc, byte, wread, wwrite,  \* spsc_fifo_write: pc, argument, locals
          rpc, val, rread, rwrite,   \* spsc_fifo_read: pc, *pOut, locals
          wret, rret             \* what the last call returned

fifoVars == <<buffer, read, write>>
writerVars == <<wpc, byte, wread, wwrite, wret>>
readerVars == <<rpc, val, rread, rwrite, rret>>
vars == <<fifoVars, writerVars, readerVars>>

Slots == 0 .. buffer_size - 1

\* spsc_fifo_init; what the buffer holds is not looked at.
Init ==
  /\ buffer = [s \in Slots |-> NULL]
  /\ read = 0
  /\ write = 0
  /\ wpc = "idle" /\ byte = NULL /\ wread = 0 /\ wwrite = 0 /\ wret = NULL
  /\ rpc = "idle" /\ val = NULL /\ rread = 0 /\ rwrite = 0 /\ rret = NULL

\* The index after i.
Advance(i) == (i + 1) % buffer_size

-----------------------------------------------------------------------------
(* spsc_fifo_write(f, byte)                                                *)

WriteCall(b) ==
  /\ wpc = "idle"
  /\ wpc' = "load_read"
  /\ byte' = b
  /\ UNCHANGED <<fifoVars, readerVars, wread, wwrite, wret>>

WriteLoadRead ==
  /\ wpc = "load_read"
  /\ wpc' = "load_write"
  /\ wread' = read
  /\ UNCHANGED <<fifoVars, readerVars, byte, wwrite, wret>>

\* Mutant: the slot is published before it is written.
WriteLoadWrite_PublishesFirst ==
  /\ wpc = "load_write"
  /\ wpc' = "check"
  /\ wwrite' = write
  /\ write' = IF Advance(write) # wread THEN Advance(write) ELSE write
  /\ UNCHANGED <<buffer, read, readerVars, byte, wread, wret>>

WriteLoadWrite ==
  /\ wpc = "load_write"
  /\ wpc' = "check"
  /\ wwrite' = write
  /\ UNCHANGED <<fifoVars, readerVars, byte, wread, wret>>

\* Mutant: full one byte too early.
WriteFull_Early ==
  /\ wpc = "check"
  /\ Advance(Advance(wwrite)) = wread
  /\ wpc' = "idle"
  /\ wret' = "full"
  /\ UNCHANGED <<fifoVars, readerVars, byte, wread, wwrite>>

WriteFull ==
  /\ wpc = "check"
  /\ Advance(wwrite) = wread
  /\ wpc' = "idle"
  /\ wret' = "full"
  /\ UNCHANGED <<fifoVars, readerVars, byte, wread, wwrite>>

WriteSlot ==
  /\ wpc = "check"
  /\ Advance(wwrite) # wread
  /\ wpc' = "store"
  /\ buffer' = [buffer EXCEPT ![wwrite] = byte]
  /\ UNCHANGED <<read, write, readerVars, byte, wread, wwrite, wret>>

WriteStore ==
  /\ wpc = "store"
  /\ wpc' = "idle"
  /\ write' = Advance(wwrite)
  /\ wret' = "ok"
  /\ UNCHANGED <<buffer, read, readerVars, byte, wread, wwrite>>

-----------------------------------------------------------------------------
(* spsc_fifo_read(f, pOut)                                                 *)

ReadCall ==
  /\ rpc = "idle"
  /\ rpc' = "load_read"
  /\ UNCHANGED <<fifoVars, writerVars, val, rread, rwrite, rret>>

ReadLoadRead ==
  /\ rpc = "load_read"
  /\ rpc' = "load_write"
  /\ rread' = read
  /\ UNCHANGED <<fifoVars, writerVars, val, rwrite, rret>>

ReadLoadWrite ==
  /\ rpc = "load_write"
  /\ rpc' = "check"
  /\ rwrite' = write
  /\ UNCHANGED <<fifoVars, writerVars, val, rread, rret>>

ReadEmpty ==
  /\ rpc = "check"
  /\ rread = rwrite
  /\ rpc' = "idle"
  /\ rret' = "empty"
  /\ UNCHANGED <<fifoVars, writerVars, val, rread, rwrite>>

ReadSlot ==
  /\ rpc = "check"
  /\ rread # rwrite
  /\ rpc' = "store"
  /\ val' = buffer[rread]
  /\ UNCHANGED <<fifoVars, writerVars, rread, rwrite, rret>>

ReadStore ==
  /\ rpc = "store"
  /\ rpc' = "idle"
  /\ read' = Advance(rread)
  /\ rret' = val
  /\ UNCHANGED <<buffer, write, writerVars, val, rread, rwrite>>

Writer ==
  \/ \E b \in Byte : WriteCall(b)
  \/ WriteLoadRead \/ WriteLoadWrite \/ WriteFull \/ WriteSlot \/ WriteStore

Reader ==
  ReadCall \/ ReadLoadRead \/ ReadLoadWrite \/ ReadEmpty \/ ReadSlot \/ ReadStore

Next == Writer \/ Reader

Spec == Init /\ [][Next]_vars

-----------------------------------------------------------------------------
(* Properties.                                                             *)

Pcs == {"idle", "load_read", "load_write", "check", "store"}

\* Every variable has its type; the indices stay inside the buffer.
TypeOK ==
  /\ buffer \in [Slots -> Byte \cup {NULL}]
  /\ {read, write, wread, wwrite, rread, rwrite} \subseteq Slots
  /\ {wpc, rpc} \subseteq Pcs
  /\ {byte, val} \subseteq Byte \cup {NULL}
  /\ wret \in {NULL, "ok", "full"}
  /\ rret \in Byte \cup {NULL, "empty"}

\* The writer and the reader never touch the same slot at the same time: the
\* one plain access of each is kept apart by the two atomic indices alone.
NoSlotRace ==
  ~ (/\ wpc = "check" /\ Advance(wwrite) # wread
     /\ rpc = "check" /\ rread # rwrite
     /\ wwrite = rread)

\* How many bytes are queued, and the slot of the i-th of them.
Count == IF write >= read THEN write - read ELSE write + buffer_size - read
SlotOf(i) == IF read + i - 1 < buffer_size THEN read + i - 1 ELSE read + i - 1 - buffer_size

\* A write is bound to fail from its load of read on, a read from its load
\* of write on: that is when the queue was full or empty.
WillFail == \/ wpc = "load_write" /\ Advance(write) = wread
            \/ wpc = "check" /\ Advance(wwrite) = wread
WillBeEmpty == rpc = "check" /\ rread = rwrite

Queue == [i \in 1..Count |-> buffer[SlotOf(i)]]
WriteResult == IF WillFail THEN "full" ELSE wret
ReadResult == IF WillBeEmpty THEN "empty" ELSE rret

Abs == INSTANCE BoundedFifo WITH
  Capacity <- buffer_size - 1, q <- Queue, wres <- WriteResult, rres <- ReadResult

\* The ring buffer is a FIFO queue of buffer_size - 1 bytes: bytes come out
\* once each and in order, a write fails only if the queue was full during
\* the call, a read only if it was empty.
Implements == Abs!Spec
=============================================================================
