------------------------------ MODULE DequeSpec ------------------------------
(***************************************************************************)
(* What kernel/include/util/queue.h promises of a dequeue: a sequence of   *)
(* items with a cursor that a caller moves over it and deletes behind.     *)
(***************************************************************************)
EXTENDS Naturals, Sequences

CONSTANTS Items, Queues, NULL

VARIABLES items,   \* what each queue holds, front first
          cursor,  \* the iterator: its queue (or NULL), the items it has passed,
                   \* and whether the last of them may be deleted
          out,     \* the item the last call returned, or NULL
          halt     \* why the kernel stopped, or NULL

vars == <<items, cursor, out, halt>>

NoCursor == [q |-> NULL, passed |-> 0, fresh |-> FALSE]

Init ==
  /\ items = [k \in Queues |-> <<>>]
  /\ cursor = NoCursor
  /\ out = NULL
  /\ halt = NULL

\* No iterator is open on k: its queue is changed through the iterator only.
Idle(k) == cursor.q # k

PushBack(k, x) ==
  /\ halt = NULL /\ Idle(k)
  /\ items' = [items EXCEPT ![k] = Append(@, x)]
  /\ out' = NULL
  /\ UNCHANGED <<cursor, halt>>

PushFront(k, x) ==
  /\ halt = NULL /\ Idle(k) /\ items[k] # <<>>
  /\ items' = [items EXCEPT ![k] = <<x>> \o @]
  /\ out' = NULL
  /\ UNCHANGED <<cursor, halt>>

\* A call that stops the kernel instead of returning.
Stop ==
  /\ halt = NULL
  /\ halt' \in {"malloc: OOM", "recursion", "not implemented"}
  /\ UNCHANGED <<items, cursor, out>>

PeekFront(k) ==
  /\ halt = NULL /\ Idle(k)
  /\ out' = IF items[k] = <<>> THEN NULL ELSE Head(items[k])
  /\ UNCHANGED <<items, cursor, halt>>

PopFront(k) ==
  /\ halt = NULL /\ Idle(k)
  /\ IF items[k] = <<>>
     THEN out' = NULL /\ UNCHANGED items
     ELSE out' = Head(items[k]) /\ items' = [items EXCEPT ![k] = Tail(@)]
  /\ UNCHANGED <<cursor, halt>>

Iterator(k) ==
  /\ halt = NULL /\ cursor.q = NULL
  /\ cursor' = [q |-> k, passed |-> 0, fresh |-> FALSE]
  /\ out' = NULL
  /\ UNCHANGED <<items, halt>>

IteratorNext ==
  /\ halt = NULL /\ cursor.q # NULL
  /\ cursor.passed < Len(items[cursor.q])
  /\ out' = items[cursor.q][cursor.passed + 1]
  /\ cursor' = [cursor EXCEPT !.passed = @ + 1, !.fresh = TRUE]
  /\ UNCHANGED <<items, halt>>

\* Deletes the item the last IteratorNext returned.
IteratorDelete ==
  /\ halt = NULL /\ cursor.q # NULL
  /\ cursor.fresh
  /\ items' = [items EXCEPT ![cursor.q] =
                 SubSeq(@, 1, cursor.passed - 1) \o SubSeq(@, cursor.passed + 1, Len(@))]
  /\ cursor' = [cursor EXCEPT !.passed = @ - 1, !.fresh = FALSE]
  /\ out' = NULL
  /\ UNCHANGED halt

\* has_next is false exactly when every item has been passed.
IteratorDone ==
  /\ halt = NULL /\ cursor.q # NULL
  /\ cursor.passed = Len(items[cursor.q])
  /\ cursor' = NoCursor
  /\ out' = NULL
  /\ UNCHANGED <<items, halt>>

Next ==
  \/ \E k \in Queues, x \in Items : PushBack(k, x) \/ PushFront(k, x)
  \/ \E k \in Queues : PeekFront(k) \/ PopFront(k) \/ Iterator(k)
  \/ IteratorNext \/ IteratorDelete \/ IteratorDone
  \/ Stop

Spec == Init /\ [][Next]_vars
=============================================================================
