------------------------------- MODULE PageSpec -------------------------------
(***************************************************************************)
(* What kernel/include/mem/page_alloc.h promises: pages are given out in   *)
(* aligned blocks of 2^order, never twice, and a request is refused only   *)
(* when no such block is free.                                             *)
(***************************************************************************)
EXTENDS Integers

CONSTANTS MaxOrder, Orders, NULL, Void

VARIABLES free,  \* the free pages
          used,  \* the blocks given out
          feed,  \* the next page pgalloc_free_range will free
          out    \* what the last call returned: Void, a block, or NULL for a block

CONSTANT EndPage

vars == <<free, used, feed, out>>

Size[order \in 0 .. MaxOrder + 1] == IF order = 0 THEN 1 ELSE 2 * Size[order - 1]
PagesOf(b) == b.page .. b.page + Size[b.order] - 1
Aligned(page, order) == page % Size[order] = 0

\* The blocks of 2^order pages that could be given out.
Fits(order) ==
  IF order \in 0 .. MaxOrder
  THEN {p \in free : Aligned(p, order) /\ p .. p + Size[order] - 1 \subseteq free}
  ELSE {}

Init ==
  /\ free = {}
  /\ used = {}
  /\ feed \in 0 .. EndPage
  /\ out = Void

FreeRange ==
  /\ feed < EndPage
  /\ \E n \in 1 .. EndPage - feed : /\ feed' = feed + n
                                    /\ free' = free \cup feed .. feed + n - 1
  /\ UNCHANGED <<used, out>>

Allocate(order) ==
  /\ feed = EndPage
  /\ IF Fits(order) = {}
     THEN out' = [page |-> NULL, order |-> order] /\ UNCHANGED <<free, used>>
     ELSE \E p \in Fits(order) :
            /\ out' = [page |-> p, order |-> order]
            /\ used' = used \cup {out'}
            /\ free' = free \ PagesOf(out')
  /\ UNCHANGED feed

Free(b) ==
  /\ feed = EndPage
  /\ b \in used
  /\ used' = used \ {b}
  /\ free' = free \cup PagesOf(b)
  /\ out' = Void
  /\ UNCHANGED feed

Next ==
  \/ FreeRange
  \/ \E order \in Orders : Allocate(order)
  \/ \E b \in used : Free(b)

Spec == Init /\ [][Next]_vars
=============================================================================
