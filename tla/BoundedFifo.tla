---------------------------- MODULE BoundedFifo ----------------------------
(***************************************************************************)
(* What kernel/src/util/fifo.c promises to one writer and one reader: a    *)
(* first-in first-out queue of at most Capacity bytes.  A call takes       *)
(* effect, or finds the queue full or empty, at one instant.               *)
(***************************************************************************)
EXTENDS Naturals, Sequences

CONSTANTS Byte,      \* what is queued
          Capacity,  \* the most the queue holds
          NULL       \* no result yet

VARIABLES q,     \* the queue
          wres,  \* what the last decided write came to: "ok" or "full"
          rres   \* what the last decided read came to: a byte or "empty"

fifoVars == <<q, wres, rres>>

Init == q = <<>> /\ wres = NULL /\ rres = NULL

Put(b) ==
  /\ Len(q) < Capacity
  /\ q' = Append(q, b)
  /\ wres' = "ok"
  /\ UNCHANGED rres

PutFull ==
  /\ Len(q) = Capacity
  /\ wres' = "full"
  /\ UNCHANGED <<q, rres>>

Get ==
  /\ q # <<>>
  /\ q' = Tail(q)
  /\ rres' = Head(q)
  /\ UNCHANGED wres

GetEmpty ==
  /\ q = <<>>
  /\ rres' = "empty"
  /\ UNCHANGED <<q, wres>>

Next == (\E b \in Byte : Put(b)) \/ PutFull \/ Get \/ GetEmpty

Spec == Init /\ [][Next]_fifoVars
=============================================================================
