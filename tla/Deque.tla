-------------------------------- MODULE Deque --------------------------------
(***************************************************************************)
(* kernel/src/util/queue.c: doubly linked queues of nodes from kmalloc,    *)
(* called the way kernel/src/proc/sched.c calls them with sched.lock held. *)
(* A freed node reads as Junk, so a dangling pointer shows.                *)
(*                                                                         *)
(* order, iter.passed and iter.fresh are auxiliary: the nodes of each      *)
(* queue from front to back, the number of them the iterator has passed,   *)
(* and whether the last was not deleted yet.  No step depends on the first *)
(* two.  fresh is the protocol of sched_wakeup: one delete after a next.   *)
(***************************************************************************)
EXTENDS Naturals, Sequences

CONSTANTS Items, Nodes, Queues, NULL, Junk

ASSUME DequeAssumption ==
  /\ NULL \notin Items \cup Nodes \cup Queues
  /\ NULL \notin {"malloc: OOM", "recursion", "not implemented", "null head size > 0?"}
  /\ Junk \notin Items \cup Nodes \cup {NULL}

VARIABLES q,      \* dequeue_t: size, head, tail
          node,   \* struct dequeue_node: data, next, prev
          live,   \* the nodes kmalloc has handed out
          iter,   \* the dequeue_iterator_t; its q is NULL when none is in use
          out,    \* the item the last call returned, or NULL
          halt,   \* why the kernel stopped, or NULL
          order   \* auxiliary

vars == <<q, node, live, iter, out, halt, order>>

Node(x, n, p) == [data |-> x, next |-> n, prev |-> p]
Freed == Node(Junk, Junk, Junk)
NoIterator == [q |-> NULL, current |-> NULL, passed |-> 0, fresh |-> FALSE]

\* dequeue_construct
Init ==
  /\ q = [k \in Queues |-> [size |-> 0, head |-> NULL, tail |-> NULL]]
  /\ node = [n \in Nodes |-> Freed]
  /\ live = {}
  /\ iter = NoIterator
  /\ out = NULL
  /\ halt = NULL
  /\ order = [k \in Queues |-> <<>>]

\* sched_wakeup changes the queue it walks through the iterator only.
Idle(k) == iter.q # k

\* The calls that never return: the heap is out of pages, or the function
\* does not do its work.
Stop(why) ==
  /\ halt' = why
  /\ UNCHANGED <<q, node, live, iter, out, order>>

\* Mutant: the new node does not point back.
PushBack_NoPrev(k, x) ==
  /\ halt = NULL /\ Idle(k)
  /\ \/ /\ Nodes = live
        /\ Stop("malloc: OOM")
     \/ \E n \in Nodes \ live :
          /\ live' = live \cup {n}
          /\ IF q[k].size = 0
             THEN /\ node' = [node EXCEPT ![n] = Node(x, NULL, NULL)]
                  /\ q' = [q EXCEPT ![k] = [size |-> 1, head |-> n, tail |-> n]]
             ELSE /\ node' = [node EXCEPT ![n] = Node(x, NULL, NULL), ![q[k].tail].next = n]
                  /\ q' = [q EXCEPT ![k].tail = n, ![k].size = @ + 1]
          /\ order' = [order EXCEPT ![k] = Append(@, n)]
          /\ out' = NULL
          /\ UNCHANGED <<iter, halt>>

PushBack(k, x) ==
  /\ halt = NULL /\ Idle(k)
  /\ \/ /\ Nodes = live
        /\ Stop("malloc: OOM")
     \/ \E n \in Nodes \ live :
          /\ live' = live \cup {n}
          /\ IF q[k].size = 0
             THEN /\ node' = [node EXCEPT ![n] = Node(x, NULL, NULL)]
                  /\ q' = [q EXCEPT ![k] = [size |-> 1, head |-> n, tail |-> n]]
             ELSE /\ node' = [node EXCEPT ![n] = Node(x, NULL, q[k].tail), ![q[k].tail].next = n]
                  /\ q' = [q EXCEPT ![k].tail = n, ![k].size = @ + 1]
          /\ order' = [order EXCEPT ![k] = Append(@, n)]
          /\ out' = NULL
          /\ UNCHANGED <<iter, halt>>

\* On an empty queue it calls itself without end.
PushFront(k, x) ==
  /\ halt = NULL /\ Idle(k)
  /\ \/ /\ q[k].size = 0
        /\ Stop("recursion")
     \/ /\ q[k].size # 0 /\ Nodes = live
        /\ Stop("malloc: OOM")
     \/ \E n \in Nodes \ live :
          /\ q[k].size # 0
          /\ live' = live \cup {n}
          /\ node' = [node EXCEPT ![n] = Node(x, q[k].head, NULL), ![q[k].head].prev = n]
          /\ q' = [q EXCEPT ![k].head = n, ![k].size = @ + 1]
          /\ order' = [order EXCEPT ![k] = <<n>> \o @]
          /\ out' = NULL
          /\ UNCHANGED <<iter, halt>>

PeekFront(k) ==
  /\ halt = NULL /\ Idle(k)
  /\ out' = IF q[k].size = 0 THEN NULL ELSE node[q[k].head].data
  /\ UNCHANGED <<q, node, live, iter, halt, order>>

\* Mutant: the node is freed before its next pointer is read.
TakeFront_FreesFirst(k) ==
  LET n == q[k].head IN
  /\ q[k].size # 0
  /\ q' = [q EXCEPT ![k] = [size |-> @.size - 1, head |-> Junk,
                            tail |-> IF @.size = 1 THEN NULL ELSE @.tail]]
  /\ node' = [node EXCEPT ![n] = Freed]
  /\ live' = live \ {n}

\* Unlinking and freeing the first of k's nodes; out is left to the caller.
TakeFront(k) ==
  LET n == q[k].head
      h == node[n].next
  IN /\ q[k].size # 0
     /\ IF q[k].size = 1
        THEN /\ q' = [q EXCEPT ![k] = [size |-> 0, head |-> h, tail |-> NULL]]
             /\ node' = [node EXCEPT ![n] = Freed]
        ELSE /\ q' = [q EXCEPT ![k].size = @ - 1, ![k].head = h]
             /\ node' = [node EXCEPT ![h].prev = NULL, ![n] = Freed]
     /\ live' = live \ {n}

PopFront(k) ==
  /\ halt = NULL /\ Idle(k)
  /\ \/ /\ q[k].size = 0
        /\ out' = NULL
        /\ UNCHANGED <<q, node, live, iter, halt, order>>
     \/ /\ q[k].size > 1 /\ node[q[k].head].next = NULL
        /\ Stop("null head size > 0?")
     \/ /\ q[k].size # 0
        /\ q[k].size = 1 \/ node[q[k].head].next # NULL
        /\ TakeFront(k)
        /\ out' = node[q[k].head].data
        /\ order' = [order EXCEPT ![k] = Tail(@)]
        /\ UNCHANGED <<iter, halt>>

PopBack ==
  /\ halt = NULL
  /\ Stop("not implemented")

Iterator(k) ==
  /\ halt = NULL /\ iter.q = NULL
  /\ iter' = [q |-> k, current |-> q[k].head, passed |-> 0, fresh |-> FALSE]
  /\ out' = NULL
  /\ UNCHANGED <<q, node, live, halt, order>>

IteratorNext ==
  /\ halt = NULL /\ iter.q # NULL
  /\ iter.current # NULL
  /\ out' = node[iter.current].data
  /\ iter' = [iter EXCEPT !.current = node[@].next, !.passed = @ + 1, !.fresh = TRUE]
  /\ UNCHANGED <<q, node, live, halt, order>>

\* Unlinking node t from k; it is not freed.  t has a neighbour: size > 1.
Unlink(k, t) ==
  LET p == node[t].prev
      n == node[t].next
  IN /\ node' = [m \in Nodes |->
                   IF m = t THEN Node(node[t].data, NULL, NULL)
                   ELSE [node[m] EXCEPT !.next = IF m = p THEN n ELSE @,
                                        !.prev = IF m = n THEN p ELSE @]]
     /\ q' = [q EXCEPT ![k] = [size |-> @.size - 1,
                               head |-> IF p = NULL THEN n ELSE @.head,
                               tail |-> IF n = NULL THEN p ELSE @.tail]]
     /\ UNCHANGED live

\* Mutant: past the end the first node is taken, not the last.
Target_NoTail(k) == IF iter.current = NULL THEN q[k].head ELSE node[iter.current].prev

\* The node the iterator passed last.
Target(k) == IF iter.current = NULL THEN q[k].tail ELSE node[iter.current].prev

IteratorDelete ==
  LET k == iter.q IN
  /\ halt = NULL /\ iter.q # NULL
  /\ iter.fresh
  /\ CASE q[k].size = 1 -> TakeFront(k)
       [] q[k].size > 1 /\ Target(k) # NULL -> Unlink(k, Target(k))
       [] OTHER -> UNCHANGED <<q, node, live>>
  /\ order' = [order EXCEPT ![k] =
                 SubSeq(@, 1, iter.passed - 1) \o SubSeq(@, iter.passed + 1, Len(@))]
  /\ iter' = [iter EXCEPT !.passed = @ - 1, !.fresh = FALSE]
  /\ out' = NULL
  /\ UNCHANGED halt

\* dequeue_iterator_has_next is false.
IteratorDone ==
  /\ halt = NULL /\ iter.q # NULL
  /\ iter.current = NULL
  /\ iter' = NoIterator
  /\ out' = NULL
  /\ UNCHANGED <<q, node, live, halt, order>>

Next ==
  \/ \E k \in Queues, x \in Items : PushBack(k, x) \/ PushFront(k, x)
  \/ \E k \in Queues : PeekFront(k) \/ PopFront(k) \/ Iterator(k)
  \/ IteratorNext \/ IteratorDelete \/ IteratorDone
  \/ PopBack

Spec == Init /\ [][Next]_vars

-----------------------------------------------------------------------------
(* Properties                                                              *)

\* Pointers are NULL or nodes; a Junk pointer is only ever in a freed node.
TypeOK ==
  /\ q \in [Queues -> [size : Nat, head : Nodes \cup {NULL}, tail : Nodes \cup {NULL}]]
  /\ node \in [Nodes -> [data : Items \cup {Junk}, next : Nodes \cup {NULL, Junk},
                         prev : Nodes \cup {NULL, Junk}]]
  /\ live \subseteq Nodes
  /\ iter \in [q : Queues \cup {NULL}, current : Nodes \cup {NULL}, passed : Nat, fresh : BOOLEAN]
  /\ out \in Items \cup {NULL}
  /\ halt \in {NULL, "malloc: OOM", "recursion", "not implemented", "null head size > 0?"}
  /\ order \in [Queues -> Seq(Nodes)]

\* What the queue's record c says of its nodes s.
Ends(c, s) ==
  /\ c.size = Len(s)
  /\ c.head = IF s = <<>> THEN NULL ELSE s[1]
  /\ c.tail = IF s = <<>> THEN NULL ELSE s[Len(s)]

\* What the node c at place i of s holds.
Linked(c, s, i) ==
  /\ c.data \in Items
  /\ c.next = IF i = Len(s) THEN NULL ELSE s[i + 1]
  /\ c.prev = IF i = 1 THEN NULL ELSE s[i - 1]

\* The queue's nodes are chained both ways, from head to tail, and counted.
Chained(k) ==
  /\ Ends(q[k], order[k])
  /\ \A i \in 1..Len(order[k]) :
       order[k][i] \in live /\ Linked(node[order[k][i]], order[k], i)

\* No node is in two places.
Apart ==
  \A k, l \in Queues : \A i \in 1..Len(order[k]), j \in 1..Len(order[l]) :
    order[k][i] = order[l][j] => k = l /\ i = j

\* The iterator is where the nodes it has passed end.
Place ==
  iter.q # NULL =>
    LET s == order[iter.q] IN
    /\ iter.passed <= Len(s)
    /\ iter.current = IF iter.passed = Len(s) THEN NULL ELSE s[iter.passed + 1]
    /\ iter.fresh => iter.passed > 0

\* No sequence of pushes, pops and deletions behind an iterator breaks the
\* links of a queue, leaves a freed node in one, links a node twice, or lets
\* the iterator of sched_wakeup lose its place.
WellLinked ==
  /\ TypeOK
  /\ \A k \in Queues : Chained(k)
  /\ Apart
  /\ Place

\* What the queues hold and where the iterator is, as module DequeSpec sees it
Contents == [k \in Queues |-> [i \in 1..Len(order[k]) |-> node[order[k][i]].data]]
Cursor == [q |-> iter.q, passed |-> iter.passed, fresh |-> iter.fresh]

Abstract == INSTANCE DequeSpec WITH items <- Contents, cursor <- Cursor

\* The linked queues behave as sequences: pop_front returns what was pushed
\* first, and deleting behind the iterator deletes what next last returned.
Implements == Abstract!Spec
=============================================================================
