---------------------------- MODULE DequeProofs -----------------------------
(***************************************************************************)
(* The linked queues of kernel/src/util/queue.c are well linked and behave *)
(* as the sequences of module DequeSpec, for every set of queues, items    *)
(* and nodes.                                                              *)
(***************************************************************************)
EXTENDS Deque, SequenceTheorems, TLAPS


\* The prover of the steps that name no other.
USE ZenonT(30)

-----------------------------------------------------------------------------
(* Sequences                                                               *)

\* Elements and length of a sequence.
LEMMA SeqFacts ==
  ASSUME NEW S, NEW s \in Seq(S)
  PROVE  /\ Len(s) \in Nat /\ (s = <<>> <=> Len(s) = 0)
         /\ \A i \in 1..Len(s) : s[i] \in S
BY SMT

LEMMA TwoOrMore == \A a \in Nat : a >= 1 /\ a # 1 => a >= 2 /\ a > 1 /\ 1 \in 1..a /\ 2 \in 1..a
BY SMT

\* A sequence with an element added behind.
LEMMA Appended ==
  ASSUME NEW S, NEW s \in Seq(S), NEW e \in S, NEW t, t = Append(s, e)
  PROVE  /\ t \in Seq(S) /\ Len(t) = Len(s) + 1 /\ t # <<>> /\ t[Len(s) + 1] = e
         /\ \A i \in 1..Len(s) : t[i] = s[i]
BY SMT

\* A sequence with an element added in front.
LEMMA Prepended ==
  ASSUME NEW S, NEW s \in Seq(S), NEW e \in S, NEW t, t = <<e>> \o s
  PROVE  /\ t \in Seq(S) /\ Len(t) = Len(s) + 1 /\ t # <<>> /\ t[1] = e
         /\ \A i \in 1..Len(s) : t[i + 1] = s[i]
BY SMT

\* A sequence without its first element.
LEMMA Tailed ==
  ASSUME NEW S, NEW s \in Seq(S), s # <<>>, NEW t, t = Tail(s)
  PROVE  /\ t \in Seq(S) /\ Len(t) = Len(s) - 1 /\ Head(s) = s[1]
         /\ \A i \in 1..Len(t) : t[i] = s[i + 1]
BY SMT

\* The sequence without its n-th element
Without(s, n) == SubSeq(s, 1, n - 1) \o SubSeq(s, n + 1, Len(s))

\* A sequence without its n-th element.
LEMMA Deleted ==
  ASSUME NEW S, NEW s \in Seq(S), NEW n \in 1..Len(s)
  PROVE  /\ Without(s, n) \in Seq(S) /\ Len(Without(s, n)) = Len(s) - 1
         /\ \A i \in 1..Len(Without(s, n)) : Without(s, n)[i] = IF i < n THEN s[i] ELSE s[i + 1]
<1> DEFINE t == Without(s, n)
           a == SubSeq(s, 1, n - 1)
           b == SubSeq(s, n + 1, Len(s))
<1>1. Len(s) \in Nat /\ n \in Nat /\ n >= 1 /\ n <= Len(s)
  BY SMT
<1>2. a \in Seq(S) /\ Len(a) = n - 1 /\ \A i \in 1..(n - 1) : a[i] = s[i]
  BY SMT, <1>1
<1>3. b \in Seq(S) /\ Len(b) = Len(s) - n /\ \A i \in 1..(Len(s) - n) : b[i] = s[n + i]
  BY SMT, <1>1
<1> HIDE DEF a, b
<1>4. t = a \o b
  BY DEF Without, a, b
<1> SUFFICES /\ t \in Seq(S) /\ Len(t) = Len(s) - 1
             /\ \A i \in 1..Len(t) : t[i] = IF i < n THEN s[i] ELSE s[i + 1]
  OBVIOUS
<1> HIDE DEF t
<1>5. /\ t \in Seq(S) /\ Len(t) = Len(a) + Len(b)
      /\ \A i \in 1..(Len(a) + Len(b)) : t[i] = IF i <= Len(a) THEN a[i] ELSE b[i - Len(a)]
  <2>1. a \in Seq(S) /\ b \in Seq(S)
    BY <1>2, <1>3
  <2>2. /\ a \o b \in Seq(S) /\ Len(a \o b) = Len(a) + Len(b)
        /\ \A i \in 1..(Len(a) + Len(b)) : (a \o b)[i] = IF i <= Len(a) THEN a[i] ELSE b[i - Len(a)]
    BY <2>1, ConcatProperties
  <2>. QED BY <1>4, <2>2
<1>6. ASSUME NEW i \in 1..Len(t) PROVE t[i] = IF i < n THEN s[i] ELSE s[i + 1]
  <2>1. CASE i < n
    <3>1. Len(a) = n - 1 /\ Len(b) = Len(s) - n /\ Len(t) = Len(a) + Len(b)
      BY <1>2, <1>3, <1>5
    <3>2. i \in 1..(n - 1) /\ i <= Len(a) /\ i \in 1..(Len(a) + Len(b))
      BY SMT, <1>1, <2>1, <3>1
    <3>. QED BY <1>2, <1>5, <2>1, <3>2
  <2>2. CASE ~(i < n)
    <3>1. i - Len(a) \in 1..(Len(s) - n) /\ n + (i - Len(a)) = i + 1 /\ ~(i <= Len(a))
      BY SMT, <1>1, <1>2, <1>3, <1>5, <2>2
    <3>. QED BY <1>3, <1>5, <2>2, <3>1
  <2>. QED BY <2>1, <2>2
<1>. QED BY SMT, <1>1, <1>2, <1>3, <1>5, <1>6

-----------------------------------------------------------------------------
(* The links                                                               *)

\* Changing out or halt alone.
LEMMA OnlyResult ==
  ASSUME WellLinked, UNCHANGED <<q, node, live, iter, order>>,
         out' \in Items \cup {NULL},
         halt' \in {NULL, "malloc: OOM", "recursion", "not implemented", "null head size > 0?"}
  PROVE  WellLinked'
<1>1. q' = q /\ node' = node /\ live' = live /\ iter' = iter /\ order' = order
  OBVIOUS
<1>2. TypeOK'
  BY <1>1 DEF WellLinked, TypeOK
<1>3. ASSUME NEW k \in Queues PROVE Chained(k)'
  <2>1. Chained(k)
    BY DEF WellLinked
  <2>. QED BY <1>1, <2>1 DEF Chained
<1>4. Apart'
  <2>1. Apart
    BY DEF WellLinked
  <2>. QED BY <1>1, <2>1 DEF Apart
<1>5. Place'
  BY <1>1 DEF WellLinked, Place
<1>. QED BY <1>2, <1>3, <1>4, <1>5 DEF WellLinked

\* A call that stops the kernel leaves the queues alone.
LEMMA StopInv ==
  ASSUME WellLinked, NEW why, Stop(why),
         why \in {"malloc: OOM", "recursion", "not implemented", "null head size > 0?"}
  PROVE  WellLinked'
<1>1. out \in Items \cup {NULL}
  BY DEF WellLinked, TypeOK
<1>. QED BY <1>1, OnlyResult DEF Stop

\* A step that changes queue k alone leaves the others linked: their nodes are
\* neither touched nor freed.
LEMMA OneQueue ==
  ASSUME WellLinked, NEW k \in Queues, TypeOK', Chained(k)', Place',
         \A l \in Queues \ {k} : q'[l] = q[l] /\ order'[l] = order[l],
         \A l \in Queues \ {k} : \A i \in 1..Len(order[l]) :
           node'[order[l][i]] = node[order[l][i]] /\ order[l][i] \in live',
         \A i, j \in 1..Len(order'[k]) : order'[k][i] = order'[k][j] => i = j,
         \A l \in Queues \ {k} : \A i \in 1..Len(order'[k]), j \in 1..Len(order[l]) :
           order'[k][i] # order[l][j]
  PROVE  WellLinked'
<1>1. ASSUME NEW l \in Queues \ {k} PROVE Chained(l)'
  <2>1. Chained(l)
    BY DEF WellLinked
  <2>2. q'[l] = q[l] /\ order'[l] = order[l]
    OBVIOUS
  <2>3. \A i \in 1..Len(order[l]) : node'[order[l][i]] = node[order[l][i]] /\ order[l][i] \in live'
    OBVIOUS
  <2>4. Ends(q'[l], order'[l])
    BY <2>1, <2>2 DEF Chained
  <2>5. ASSUME NEW i \in 1..Len(order'[l])
        PROVE  order'[l][i] \in live' /\ Linked(node'[order'[l][i]], order'[l], i)
    <3>1. i \in 1..Len(order[l])
      BY <2>2
    <3>2. node'[order[l][i]] = node[order[l][i]] /\ order[l][i] \in live'
      BY <2>3, <3>1
    <3>3. Linked(node[order[l][i]], order[l], i)
      BY <2>1, <3>1 DEF Chained
    <3>. QED BY <2>2, <3>2, <3>3
  <2>. QED BY <2>4, <2>5 DEF Chained
<1>2. Apart'
  <2>1. ASSUME NEW l \in Queues, NEW m \in Queues,
               NEW i \in 1..Len(order'[l]), NEW j \in 1..Len(order'[m]),
               order'[l][i] = order'[m][j]
        PROVE  l = m /\ i = j
    <3>1. CASE l = k /\ m = k
      BY <2>1, <3>1
    <3>2. CASE l = k /\ m # k
      BY SMT, <2>1, <3>2
    <3>3. CASE l # k /\ m = k
      BY SMT, <2>1, <3>3
    <3>4. CASE l # k /\ m # k
      BY SMT, <2>1, <3>4 DEF WellLinked, Apart
    <3>. QED BY <3>1, <3>2, <3>3, <3>4
  <2>. QED BY <2>1 DEF Apart
<1>3. \A l \in Queues : Chained(l)'
  BY <1>1
<1>. QED BY <1>2, <1>3 DEF WellLinked

\* What the invariant says of the nodes of queue l.
LEMMA Members ==
  ASSUME WellLinked, NEW l \in Queues
  PROVE  /\ order[l] \in Seq(Nodes) /\ Len(order[l]) \in Nat
         /\ order[l] = <<>> <=> Len(order[l]) = 0
         /\ Ends(q[l], order[l])
         /\ \A i \in 1..Len(order[l]) :
              /\ order[l][i] \in Nodes /\ order[l][i] \in live
              /\ Linked(node[order[l][i]], order[l], i)
<1>1. order[l] \in Seq(Nodes)
  BY DEF WellLinked, TypeOK
<1>2. Chained(l)
  BY DEF WellLinked
<1>. QED BY <1>1, <1>2, SeqFacts DEF Chained

\* An iterator on a queue that does not change keeps its place.
LEMMA PlaceKept ==
  ASSUME WellLinked, iter' = iter, NEW k \in Queues, Idle(k),
         \A l \in Queues \ {k} : order'[l] = order[l]
  PROVE  Place'
<1>1. iter.q # NULL => iter.q \in Queues \ {k}
  BY DEF WellLinked, TypeOK, Idle
<1>2. iter.q # NULL => order'[iter.q] = order[iter.q]
  BY <1>1
<1>. QED BY <1>2 DEF WellLinked, Place

\* The types of a node and of a queue, and a queue's record.
Cells == [data : Items \cup {Junk}, next : Nodes \cup {NULL, Junk}, prev : Nodes \cup {NULL, Junk}]
Ptr == Nodes \cup {NULL}
Heads == [size : Nat, head : Ptr, tail : Ptr]
Queue(z, h, e) == [size |-> z, head |-> h, tail |-> e]

\* The fields of a node that malloc_node has just filled.
LEMMA NodeFields ==
  ASSUME NEW x \in Items \cup {Junk}, NEW n \in Nodes \cup {NULL, Junk}, NEW p \in Nodes \cup {NULL, Junk}
  PROVE  /\ Node(x, n, p) \in Cells
         /\ Node(x, n, p).data = x /\ Node(x, n, p).next = n /\ Node(x, n, p).prev = p
BY DEF Node, Cells

\* Filling a node leaves the other nodes alone.
LEMMA NodePut ==
  ASSUME NEW f \in [Nodes -> Cells], NEW n \in Nodes, NEW c \in Cells, NEW g,
         g = [f EXCEPT ![n] = c]
  PROVE  g \in [Nodes -> Cells] /\ g[n] = c /\ \A m \in Nodes \ {n} : g[m] = f[m]
OBVIOUS

\* A store to next keeps the other fields and the other nodes.
LEMMA NodeSetNext ==
  ASSUME NEW f \in [Nodes -> Cells], NEW p \in Nodes, NEW n \in Ptr, NEW g,
         g = [f EXCEPT ![p].next = n]
  PROVE  /\ g \in [Nodes -> Cells] /\ g[p] = Node(f[p].data, n, f[p].prev)
         /\ \A m \in Nodes \ {p} : g[m] = f[m]
BY DEF Cells, Ptr, Node

\* A store to prev keeps the other fields and the other nodes.
LEMMA NodeSetPrev ==
  ASSUME NEW f \in [Nodes -> Cells], NEW p \in Nodes, NEW n \in Ptr, NEW g,
         g = [f EXCEPT ![p].prev = n]
  PROVE  /\ g \in [Nodes -> Cells] /\ g[p] = Node(f[p].data, f[p].next, n)
         /\ \A m \in Nodes \ {p} : g[m] = f[m]
BY DEF Cells, Ptr, Node

\* A store to one dequeue_t leaves the others alone.
LEMMA QueuePut ==
  ASSUME NEW f \in [Queues -> Heads], NEW k \in Queues, NEW z \in Nat, NEW h \in Ptr, NEW e \in Ptr,
         NEW g, g = [f EXCEPT ![k] = Queue(z, h, e)]
  PROVE  /\ g \in [Queues -> Heads] /\ g[k] = Queue(z, h, e)
         /\ \A l \in Queues \ {k} : g[l] = f[l]
BY DEF Heads, Ptr, Queue

\* The fields of a dequeue_t.
LEMMA QueueFields ==
  ASSUME NEW z, NEW h, NEW e
  PROVE  Queue(z, h, e).size = z /\ Queue(z, h, e).head = h /\ Queue(z, h, e).tail = e
BY DEF Queue

\* TypeOK in those terms.
LEMMA Types ==
  ASSUME TypeOK
  PROVE  /\ q \in [Queues -> Heads] /\ node \in [Nodes -> Cells] /\ live \subseteq Nodes
         /\ order \in [Queues -> Seq(Nodes)]
BY DEF TypeOK, Heads, Cells, Ptr

\* The order of one queue changes, those of the others do not.
LEMMA OrderPut ==
  ASSUME order \in [Queues -> Seq(Nodes)], NEW k \in Queues, NEW s \in Seq(Nodes),
         order' = [order EXCEPT ![k] = s]
  PROVE  /\ order' \in [Queues -> Seq(Nodes)] /\ order'[k] = s
         /\ \A l \in Queues \ {k} : order'[l] = order[l]
OBVIOUS

\* A node whose fields are the neighbours in s is linked in s.
LEMMA LinkedNode ==
  ASSUME NEW s, NEW i, NEW x, NEW n, NEW p, x \in Items,
         i = Len(s) => n = NULL, i # Len(s) => n = s[i + 1],
         i = 1 => p = NULL, i # 1 => p = s[i - 1]
  PROVE  Linked(Node(x, n, p), s, i)
BY DEF Linked, Node

\* The nodes of queue k.
Own(k) == {order[k][i] : i \in 1..Len(order[k])}

\* The step links queue k as t: its nodes were k's or free, and no node of
\* another queue is touched.
Relinks(k, t) ==
  /\ q' \in [Queues -> Heads] /\ \A l \in Queues \ {k} : q'[l] = q[l]
  /\ node' \in [Nodes -> Cells] /\ live' \subseteq Nodes
  /\ \A m \in live \ Own(k) : node'[m] = node[m] /\ m \in live'
  /\ Ends(q'[k], t)
  /\ \A i \in 1..Len(t) : t[i] \in live' /\ Linked(node'[t[i]], t, i)
  /\ \A i \in 1..Len(t) : t[i] \in Own(k) \/ t[i] \notin live
  /\ \A i, j \in 1..Len(t) : t[i] = t[j] => i = j

\* A step that makes t the nodes of queue k and links them keeps the invariant.
LEMMA Relinked ==
  ASSUME WellLinked, NEW k \in Queues, NEW t \in Seq(Nodes),
         order' = [order EXCEPT ![k] = t], Relinks(k, t),
         out' \in Items \cup {NULL}, halt' = halt,
         iter' \in [q : Queues \cup {NULL}, current : Ptr, passed : Nat, fresh : BOOLEAN],
         Place'
  PROVE  WellLinked'
<1>1. /\ order' \in [Queues -> Seq(Nodes)] /\ order'[k] = t
      /\ \A l \in Queues \ {k} : order'[l] = order[l]
  BY OrderPut, Types DEF WellLinked
<1>2. TypeOK'
  BY <1>1 DEF Relinks, WellLinked, TypeOK, Heads, Cells, Ptr
<1>3. Chained(k)'
  BY <1>1 DEF Relinks, Chained
<1>4. ASSUME NEW l \in Queues \ {k}, NEW i \in 1..Len(order[l])
      PROVE  order[l][i] \in live /\ order[l][i] \notin Own(k)
  <2>1. order[l][i] \in live
    BY Members
  <2>2. ASSUME NEW j \in 1..Len(order[k]) PROVE order[k][j] # order[l][i]
    BY DEF WellLinked, Apart
  <2>. QED BY <2>1, <2>2 DEF Own
<1>. QED BY SMT, <1>1, <1>2, <1>3, <1>4, OneQueue DEF Relinks

\* dequeue_push_back keeps the links: on an empty queue and behind the tail.
LEMMA PushBackInv ==
  ASSUME WellLinked, NEW k \in Queues, NEW x \in Items, PushBack(k, x)
  PROVE  WellLinked'
<1>1. CASE Stop("malloc: OOM")
  BY <1>1, StopInv
<1>2. ASSUME NEW n \in Nodes \ live,
             live' = live \cup {n},
             IF q[k].size = 0
             THEN /\ node' = [node EXCEPT ![n] = Node(x, NULL, NULL)]
                  /\ q' = [q EXCEPT ![k] = [size |-> 1, head |-> n, tail |-> n]]
             ELSE /\ node' = [node EXCEPT ![n] = Node(x, NULL, q[k].tail), ![q[k].tail].next = n]
                  /\ q' = [q EXCEPT ![k].tail = n, ![k].size = @ + 1],
             order' = [order EXCEPT ![k] = Append(order[k], n)],
             out' = NULL, iter' = iter, halt' = halt, Idle(k)
      PROVE  WellLinked'
  <2> DEFINE s == order[k]
             t == Append(s, n)
  <2>1. /\ s \in Seq(Nodes) /\ Len(s) \in Nat /\ (s = <<>> <=> Len(s) = 0)
        /\ Ends(q[k], s)
        /\ \A i \in 1..Len(s) : s[i] \in Nodes /\ s[i] \in live /\ Linked(node[s[i]], s, i)
    BY Members
  <2>2. \A i, j \in 1..Len(s) : s[i] = s[j] => i = j
    BY DEF WellLinked, Apart
  <2>3. \A i \in 1..Len(s) : s[i] \in Own(k)
    BY DEF Own
  <2>4. order' = [order EXCEPT ![k] = t]
    BY <1>2
  <2>5. q \in [Queues -> Heads] /\ node \in [Nodes -> Cells] /\ live \subseteq Nodes
    BY Types DEF WellLinked
  <2>6. /\ t \in Seq(Nodes) /\ Len(t) = Len(s) + 1 /\ t # <<>> /\ t[Len(s) + 1] = n
        /\ \A i \in 1..Len(s) : t[i] = s[i]
    BY SMT, <2>1, Appended
  <2> HIDE DEF s, t
  <2>7. \A i \in 1..Len(s) : s[i] # n
    BY <2>1
  <2>8. \A i, j \in 1..Len(t) : t[i] = t[j] => i = j
    BY SMT, <2>1, <2>2, <2>6, <2>7
  <2>9. \A i \in 1..Len(t) : t[i] \in Own(k) \/ t[i] \notin live
    BY SMT, <2>1, <2>3, <2>6
  <2>10. Place'
    BY <1>2, <2>4, OrderPut, Types, <2>6, PlaceKept DEF WellLinked
  <2>11. iter' \in [q : Queues \cup {NULL}, current : Ptr, passed : Nat, fresh : BOOLEAN]
    BY <1>2 DEF WellLinked, TypeOK, Ptr
  <2>12. out' \in Items \cup {NULL} /\ halt' = halt /\ live' \subseteq Nodes
    BY <1>2, <2>5
  <2>13. SUFFICES Relinks(k, t)
    BY <2>4, <2>6, <2>10, <2>11, <2>12, Relinked
  <2>14. CASE q[k].size = 0
    <3>1. Len(s) = 0 /\ Len(t) = 1 /\ t[1] = n
      BY SMT, <2>1, <2>6, <2>14 DEF Ends
    <3>2. /\ q' \in [Queues -> Heads] /\ q'[k] = Queue(1, n, n)
          /\ \A l \in Queues \ {k} : q'[l] = q[l]
      <4>1. q' = [q EXCEPT ![k] = Queue(1, n, n)]
        BY <1>2, <2>14 DEF Queue
      <4>2. n \in Ptr /\ 1 \in Nat
        BY DEF Ptr
      <4>. QED BY <2>5, <4>1, <4>2, QueuePut
    <3>3. /\ node' \in [Nodes -> Cells] /\ node'[n] = Node(x, NULL, NULL)
          /\ \A m \in Nodes \ {n} : node'[m] = node[m]
      <4>1. node' = [node EXCEPT ![n] = Node(x, NULL, NULL)]
        BY <1>2, <2>14
      <4>2. Node(x, NULL, NULL) \in Cells
        BY NodeFields
      <4>. QED BY <2>5, <4>1, <4>2, NodePut
    <3>4. Ends(q'[k], t)
      BY SMT, <2>6, <3>1, <3>2, QueueFields DEF Ends
    <3>5. Linked(node'[n], t, 1) /\ n \in live'
      <4>1. Linked(Node(x, NULL, NULL), t, 1)
        BY <3>1, LinkedNode
      <4>. QED BY <1>2, <3>3, <4>1
    <3>6. \A i \in 1..Len(t) : t[i] \in live' /\ Linked(node'[t[i]], t, i)
      BY SMT, <3>1, <3>5
    <3>7. \A m \in live \ Own(k) : node'[m] = node[m] /\ m \in live'
      BY <1>2, <2>5, <3>3
    <3>. QED BY <2>8, <2>9, <2>12, <3>2, <3>3, <3>4, <3>6, <3>7 DEF Relinks
  <2>15. CASE q[k].size # 0
    <3>1. Len(s) >= 1 /\ q[k].tail = s[Len(s)] /\ q[k].size = Len(s) /\ q[k].head = s[1]
      BY SMT, <2>1, <2>15 DEF Ends
    <3>2. /\ q' \in [Queues -> Heads] /\ q'[k] = Queue(Len(s) + 1, s[1], n)
          /\ \A l \in Queues \ {k} : q'[l] = q[l]
      <4>1. q' = [q EXCEPT ![k] = Queue(Len(s) + 1, s[1], n)]
        BY SMT, <1>2, <2>5, <2>15, <3>1 DEF Queue, Heads
      <4>. QED BY SMT, <2>1, <2>5, <3>1, <4>1, QueuePut DEF Ptr
    <3>3. /\ node' \in [Nodes -> Cells] /\ node'[n] = Node(x, NULL, s[Len(s)])
          /\ node'[s[Len(s)]] = Node(node[s[Len(s)]].data, n, node[s[Len(s)]].prev)
          /\ \A m \in Nodes \ {n, s[Len(s)]} : node'[m] = node[m]
      <4> DEFINE f == [node EXCEPT ![n] = Node(x, NULL, s[Len(s)])]
      <4>1. s[Len(s)] \in Nodes /\ s[Len(s)] # n
        BY SMT, <2>1, <2>7, <3>1
      <4>2. f \in [Nodes -> Cells] /\ f[n] = Node(x, NULL, s[Len(s)]) /\ \A m \in Nodes \ {n} : f[m] = node[m]
        <5>1. Node(x, NULL, s[Len(s)]) \in Cells
          BY <4>1, NodeFields
        <5>. QED BY <2>5, <5>1, NodePut
      <4>3. node' = [f EXCEPT ![s[Len(s)]].next = n]
        BY <1>2, <2>15, <3>1
      <4> HIDE DEF f
      <4>. QED BY SMT, <4>1, <4>2, <4>3, NodeSetNext DEF Ptr
    <3>4. Ends(q'[k], t)
      BY SMT, <2>1, <2>6, <3>1, <3>2, QueueFields DEF Ends
    <3>5. ASSUME NEW i \in 1..Len(t)
          PROVE  t[i] \in live' /\ Linked(node'[t[i]], t, i)
      <4>1. CASE i = Len(s) + 1
        <5>1. Linked(Node(x, NULL, s[Len(s)]), t, i)
          <6>1. i = Len(t) /\ i # 1 /\ s[Len(s)] = t[i - 1]
            BY SMT, <2>1, <2>6, <3>1, <4>1
          <6>. QED BY <6>1, LinkedNode
        <5>. QED BY <1>2, <2>6, <3>3, <4>1, <5>1
      <4>2. CASE i \in 1..Len(s)
        <5>1. Linked(node[s[i]], s, i) /\ t[i] = s[i] /\ s[i] \in live' /\ s[i] \in Nodes \ {n}
          BY <1>2, <2>1, <2>6, <2>7, <4>2
        <5>2. /\ i # Len(t) /\ t[i + 1] = IF i = Len(s) THEN n ELSE s[i + 1]
              /\ i # 1 => t[i - 1] = s[i - 1]
          BY SMTT(30), <2>1, <2>6, <4>2
        <5>3. CASE i = Len(s)
          <6>1. node[s[i]].data \in Items /\ node[s[i]].prev = IF i = 1 THEN NULL ELSE t[i - 1]
            BY <5>1, <5>2 DEF Linked
          <6>2. Linked(Node(node[s[i]].data, n, node[s[i]].prev), t, i)
            BY <5>2, <5>3, <6>1, LinkedNode
          <6>. QED BY <3>3, <5>1, <5>3, <6>2
        <5>4. CASE i # Len(s)
          <6>1. s[i] # s[Len(s)]
            BY SMT, <2>1, <2>2, <3>1, <4>2, <5>4
          <6>2. node'[s[i]] = node[s[i]]
            BY <3>3, <5>1, <6>1
          <6>. QED BY <5>1, <5>2, <5>4, <6>2 DEF Linked
        <5>. QED BY <5>3, <5>4
      <4>. QED BY SMT, <2>1, <2>6, <4>1, <4>2
    <3>6. \A m \in live \ Own(k) : node'[m] = node[m] /\ m \in live'
      BY SMT, <1>2, <2>1, <2>3, <2>5, <3>1, <3>3
    <3>. QED BY <2>8, <2>9, <2>12, <3>2, <3>3, <3>4, <3>5, <3>6 DEF Relinks
  <2>. QED BY <2>14, <2>15
<1>. QED BY <1>1, <1>2 DEF PushBack

\* dequeue_push_front keeps the links; on an empty queue it never returns.
LEMMA PushFrontInv ==
  ASSUME WellLinked, NEW k \in Queues, NEW x \in Items, PushFront(k, x)
  PROVE  WellLinked'
<1>1. CASE Stop("malloc: OOM")
  BY <1>1, StopInv
<1>2. CASE Stop("recursion")
  BY <1>2, StopInv
<1>3. ASSUME NEW n \in Nodes \ live,
             q[k].size # 0, live' = live \cup {n},
             node' = [node EXCEPT ![n] = Node(x, q[k].head, NULL), ![q[k].head].prev = n],
             q' = [q EXCEPT ![k].head = n, ![k].size = @ + 1],
             order' = [order EXCEPT ![k] = <<n>> \o order[k]],
             out' = NULL, iter' = iter, halt' = halt, Idle(k)
      PROVE  WellLinked'
  <2> DEFINE s == order[k]
             t == <<n>> \o s
  <2>1. /\ s \in Seq(Nodes) /\ Len(s) \in Nat /\ (s = <<>> <=> Len(s) = 0)
        /\ Ends(q[k], s)
        /\ \A i \in 1..Len(s) : s[i] \in Nodes /\ s[i] \in live /\ Linked(node[s[i]], s, i)
    BY Members
  <2>2. \A i, j \in 1..Len(s) : s[i] = s[j] => i = j
    BY DEF WellLinked, Apart
  <2>3. \A i \in 1..Len(s) : s[i] \in Own(k)
    BY DEF Own
  <2>4. order' = [order EXCEPT ![k] = t]
    BY <1>3
  <2>5. q \in [Queues -> Heads] /\ node \in [Nodes -> Cells] /\ live \subseteq Nodes
    BY Types DEF WellLinked
  <2>6. /\ t \in Seq(Nodes) /\ Len(t) = Len(s) + 1 /\ t # <<>> /\ t[1] = n
        /\ \A i \in 1..Len(s) : t[i + 1] = s[i]
    BY SMT, <2>1, Prepended
  <2> HIDE DEF s, t
  <2>7. \A i \in 1..Len(s) : s[i] # n
    BY <2>1
  <2>8. ASSUME NEW i \in 1..Len(t) PROVE i = 1 \/ (i - 1 \in 1..Len(s) /\ t[i] = s[i - 1])
    <3>1. i # 1 => i - 1 \in 1..Len(s) /\ (i - 1) + 1 = i
      BY SMT, <2>1, <2>6
    <3>. QED BY <2>6, <3>1
  <2>9. \A i, j \in 1..Len(t) : t[i] = t[j] => i = j
    <3>1. ASSUME NEW i \in 1..Len(t), NEW j \in 1..Len(t), t[i] = t[j] PROVE i = j
      <4>1. CASE i = 1 \/ j = 1
        BY <2>6, <2>7, <2>8, <3>1, <4>1
      <4>2. CASE i # 1 /\ j # 1
        <5>1. i - 1 = j - 1
          BY <2>2, <2>8, <3>1, <4>2
        <5>. QED BY SMT, <2>1, <2>6, <5>1
      <4>. QED BY <4>1, <4>2
    <3>. QED BY <3>1
  <2>10. \A i \in 1..Len(t) : t[i] \in Own(k) \/ t[i] \notin live
    BY <2>3, <2>6, <2>8
  <2>11. Place'
    BY <1>3, <2>4, OrderPut, Types, <2>6, PlaceKept DEF WellLinked
  <2>12. iter' \in [q : Queues \cup {NULL}, current : Ptr, passed : Nat, fresh : BOOLEAN]
    BY <1>3 DEF WellLinked, TypeOK, Ptr
  <2>13. out' \in Items \cup {NULL} /\ halt' = halt /\ live' \subseteq Nodes
    BY <1>3, <2>5
  <2>14. /\ Len(s) >= 1 /\ q[k].tail = s[Len(s)] /\ q[k].size = Len(s) /\ q[k].head = s[1]
         /\ s[1] \in Nodes /\ s[1] # n /\ s[1] \in Own(k) /\ s[Len(s)] \in Nodes
    BY SMT, <1>3, <2>1, <2>3, <2>7 DEF Ends
  <2>15. /\ q' \in [Queues -> Heads] /\ q'[k] = Queue(Len(s) + 1, n, s[Len(s)])
         /\ \A l \in Queues \ {k} : q'[l] = q[l]
    <3>1. q' = [q EXCEPT ![k] = Queue(Len(s) + 1, n, s[Len(s)])]
      BY SMT, <1>3, <2>5, <2>14 DEF Queue, Heads
    <3>. QED BY SMT, <2>1, <2>5, <2>14, <3>1, QueuePut DEF Ptr
  <2>16. /\ node' \in [Nodes -> Cells] /\ node'[n] = Node(x, s[1], NULL)
         /\ node'[s[1]] = Node(node[s[1]].data, node[s[1]].next, n)
         /\ \A m \in Nodes \ {n, s[1]} : node'[m] = node[m]
    <3> DEFINE f == [node EXCEPT ![n] = Node(x, s[1], NULL)]
    <3>1. f \in [Nodes -> Cells] /\ f[n] = Node(x, s[1], NULL) /\ \A m \in Nodes \ {n} : f[m] = node[m]
      <4>1. Node(x, s[1], NULL) \in Cells
        BY <2>14, NodeFields
      <4>. QED BY <2>5, <4>1, NodePut
    <3>2. node' = [f EXCEPT ![s[1]].prev = n]
      BY <1>3, <2>14
    <3> HIDE DEF f
    <3>. QED BY SMT, <2>14, <3>1, <3>2, NodeSetPrev DEF Ptr
  <2>17. Ends(q'[k], t)
    BY SMT, <2>1, <2>6, <2>14, <2>15, QueueFields DEF Ends
  <2>18. ASSUME NEW i \in 1..Len(t)
         PROVE  t[i] \in live' /\ Linked(node'[t[i]], t, i)
    <3>1. CASE i = 1
      <4>1. i # Len(t) /\ s[1] = t[i + 1]
        BY SMT, <2>1, <2>6, <2>14, <3>1
      <4>2. Linked(Node(x, s[1], NULL), t, i)
        BY <3>1, <4>1, LinkedNode
      <4>. QED BY <1>3, <2>6, <2>16, <3>1, <4>2
    <3>2. CASE i # 1
      <4> DEFINE j == i - 1
      <4>1. j \in 1..Len(s) /\ t[i] = s[j] /\ s[j] \in live' /\ s[j] \in Nodes \ {n} /\ Linked(node[s[j]], s, j)
        BY <1>3, <2>1, <2>7, <2>8, <3>2
      <4>2. /\ i = Len(t) <=> j = Len(s)
            /\ i # Len(t) => t[i + 1] = s[j + 1]
            /\ t[i - 1] = IF j = 1 THEN n ELSE s[j - 1]
        BY SMT, <2>1, <2>6, <2>8, <3>2, <4>1
      <4> HIDE DEF j
      <4>3. /\ node[s[j]].data \in Items
            /\ i = Len(t) => node[s[j]].next = NULL
            /\ i # Len(t) => node[s[j]].next = t[i + 1]
        BY <4>1, <4>2 DEF Linked
      <4>4. CASE j = 1
        <5>1. Linked(Node(node[s[j]].data, node[s[j]].next, n), t, i)
          BY <3>2, <4>2, <4>3, <4>4, LinkedNode
        <5>. QED BY <2>16, <4>1, <4>4, <5>1
      <4>5. CASE j # 1
        <5>1. s[j] # s[1]
          BY SMT, <2>1, <2>2, <2>14, <4>1, <4>5
        <5>2. node'[s[j]] = node[s[j]]
          BY <2>16, <4>1, <5>1
        <5>. QED BY <3>2, <4>1, <4>2, <4>5, <5>2 DEF Linked
      <4>. QED BY <4>4, <4>5
    <3>. QED BY <3>1, <3>2
  <2>19. \A m \in live \ Own(k) : node'[m] = node[m] /\ m \in live'
    BY <1>3, <2>5, <2>14, <2>16
  <2>20. Relinks(k, t)
    BY <2>9, <2>10, <2>13, <2>15, <2>16, <2>17, <2>18, <2>19 DEF Relinks
  <2>. QED BY <2>4, <2>6, <2>11, <2>12, <2>13, <2>20, Relinked
<1>. QED BY <1>1, <1>2, <1>3 DEF PushFront

\* dequeue_peek_front changes no link.
LEMMA PeekFrontInv ==
  ASSUME WellLinked, NEW k \in Queues, PeekFront(k)
  PROVE  WellLinked'
<1>1. q[k].size # 0 => node[q[k].head].data \in Items
  <2>1. /\ Ends(q[k], order[k]) /\ Len(order[k]) \in Nat /\ (order[k] = <<>> <=> Len(order[k]) = 0)
        /\ \A i \in 1..Len(order[k]) : Linked(node[order[k][i]], order[k], i)
    BY Members
  <2>. QED BY SMT, <2>1 DEF Ends, Linked
<1>2. out' \in Items \cup {NULL} /\ halt' = halt /\ UNCHANGED <<q, node, live, iter, order>>
  BY <1>1 DEF PeekFront
<1>3. halt \in {NULL, "malloc: OOM", "recursion", "not implemented", "null head size > 0?"}
  BY DEF WellLinked, TypeOK
<1>. QED BY <1>2, <1>3, OnlyResult

\* t is s without its first element.
Rest(t, s) == Len(t) = Len(s) - 1 /\ \A i \in 1..Len(t) : t[i] = s[i + 1]

\* Unlinking and freeing the first node leaves the others of k, t, linked.
LEMMA TakeFrontLinks ==
  ASSUME WellLinked, NEW k \in Queues, TakeFront(k),
         NEW t \in Seq(Nodes), Rest(t, order[k])
  PROVE  Relinks(k, t)
<1> DEFINE s == order[k]
           n == q[k].head
<1>1. /\ s \in Seq(Nodes) /\ Len(s) \in Nat /\ (s = <<>> <=> Len(s) = 0)
      /\ Ends(q[k], s)
      /\ \A i \in 1..Len(s) : s[i] \in Nodes /\ s[i] \in live /\ Linked(node[s[i]], s, i)
  BY Members
<1>2. \A i, j \in 1..Len(s) : s[i] = s[j] => i = j
  BY DEF WellLinked, Apart
<1>3. \A i \in 1..Len(s) : s[i] \in Own(k)
  BY DEF Own
<1>4. q \in [Queues -> Heads] /\ node \in [Nodes -> Cells] /\ live \subseteq Nodes
  BY Types DEF WellLinked
<1>5. q[k].size # 0 /\ live' = live \ {n}
  BY DEF TakeFront
<1>6. Len(t) = Len(s) - 1 /\ Len(t) \in Nat /\ \A i \in 1..Len(t) : t[i] = s[i + 1] /\ i + 1 \in 1..Len(s)
  BY SMT, <1>1 DEF Rest
<1>7. q[k].size = 1 => /\ q' = [q EXCEPT ![k] = [size |-> 0, head |-> node[n].next, tail |-> NULL]]
                       /\ node' = [node EXCEPT ![n] = Freed]
  BY DEF TakeFront
<1>8. q[k].size # 1 => /\ q' = [q EXCEPT ![k].size = @ - 1, ![k].head = node[n].next]
                       /\ node' = [node EXCEPT ![node[n].next].prev = NULL, ![n] = Freed]
  BY DEF TakeFront
<1> HIDE DEF s, n
<1>9. /\ q[k].size = Len(s) /\ Len(s) >= 1 /\ n = s[1] /\ q[k].tail = s[Len(s)]
      /\ n \in Nodes /\ n \in Own(k) /\ Linked(node[n], s, 1) /\ s[Len(s)] \in Nodes
  <2>1. Len(s) >= 1
    BY SMT, <1>1, <1>5 DEF Ends
  <2>2. q[k].size = Len(s) /\ n = s[1] /\ q[k].tail = s[Len(s)]
    BY SMT, <1>1, <2>1 DEF Ends, n
  <2>3. 1 \in 1..Len(s) /\ Len(s) \in 1..Len(s)
    BY SMT, <1>1, <2>1
  <2>. QED BY <1>1, <1>3, <2>1, <2>2, <2>3
<1>10. \A i \in 1..Len(t) : t[i] \in Own(k) /\ t[i] # n /\ t[i] \in live' /\ t[i] \in Nodes
  <2>1. ASSUME NEW i \in 1..Len(t) PROVE t[i] \in Own(k) /\ t[i] # n /\ t[i] \in live' /\ t[i] \in Nodes
    <3>1. t[i] = s[i + 1] /\ i + 1 \in 1..Len(s) /\ i + 1 # 1 /\ 1 \in 1..Len(s)
      BY SMT, <1>1, <1>6, <1>9
    <3>. QED BY <1>1, <1>2, <1>3, <1>5, <1>9, <3>1
  <2>. QED BY <2>1
<1>11. \A i, j \in 1..Len(t) : t[i] = t[j] => i = j
  <2>1. ASSUME NEW i \in 1..Len(t), NEW j \in 1..Len(t), t[i] = t[j] PROVE i = j
    <3>1. i + 1 = j + 1
      BY <1>2, <1>6, <2>1
    <3>. QED BY SMT, <1>6, <3>1
  <2>. QED BY <2>1
<1>12. Freed \in Cells
  BY NodeFields DEF Freed
<1>13. CASE Len(s) = 1
  <2>1. node[n].next = NULL
    BY <1>9, <1>13 DEF Linked
  <2>2. q' \in [Queues -> Heads] /\ q'[k] = Queue(0, NULL, NULL) /\ \A l \in Queues \ {k} : q'[l] = q[l]
    <3>1. q' = [q EXCEPT ![k] = Queue(0, NULL, NULL)]
      BY <1>7, <1>9, <1>13, <2>1 DEF Queue
    <3>2. NULL \in Ptr /\ 0 \in Nat
      BY DEF Ptr
    <3>. QED BY <1>4, <3>1, <3>2, QueuePut
  <2>3. node' \in [Nodes -> Cells] /\ \A m \in Nodes \ {n} : node'[m] = node[m]
    <3>1. node' = [node EXCEPT ![n] = Freed]
      BY <1>7, <1>9, <1>13
    <3>. QED BY SMT, <1>4, <1>9, <1>12, <3>1, NodePut
  <2>4. Len(t) = 0 /\ t = <<>>
    BY SMT, <1>6, <1>13
  <2>5. Ends(q'[k], t)
    <3>1. q'[k].size = 0 /\ q'[k].head = NULL /\ q'[k].tail = NULL
      BY SMT, <2>2, QueueFields
    <3>. QED BY <2>4, <3>1 DEF Ends
  <2>6. \A m \in live \ Own(k) : node'[m] = node[m] /\ m \in live'
    BY <1>4, <1>5, <1>9, <2>3
  <2>7. live' \subseteq Nodes
    BY <1>4, <1>5
  <2>8. \A i \in 1..Len(t) : FALSE
    BY SMT, <2>4
  <2>. QED BY <1>10, <1>11, <2>2, <2>3, <2>5, <2>6, <2>7, <2>8 DEF Relinks
<1>14. CASE Len(s) # 1
  <2>1. /\ Len(s) >= 2 /\ node[n].next = s[2] /\ s[2] \in Nodes /\ s[2] # n /\ s[2] \in Own(k)
        /\ Linked(node[s[2]], s, 2)
    <3>1. Len(s) >= 2 /\ 1 \in 1..Len(s) /\ 2 \in 1..Len(s)
      <4>1. Len(s) \in Nat /\ Len(s) >= 1 /\ Len(s) # 1
        BY <1>1, <1>9, <1>14
      <4>. QED BY <4>1, TwoOrMore
    <3>2. node[n].next = s[2]
      BY SMT, <1>9, <1>14 DEF Linked
    <3>. QED BY SMT, <1>1, <1>2, <1>3, <1>9, <3>1, <3>2
  <2>2. /\ q' \in [Queues -> Heads] /\ q'[k] = Queue(Len(s) - 1, s[2], s[Len(s)])
        /\ \A l \in Queues \ {k} : q'[l] = q[l]
    <3>1. q' = [q EXCEPT ![k] = Queue(Len(s) - 1, s[2], s[Len(s)])]
      BY SMT, <1>4, <1>8, <1>9, <1>14, <2>1 DEF Queue, Heads
    <3>2. s[2] \in Ptr /\ s[Len(s)] \in Ptr /\ Len(s) - 1 \in Nat
      BY SMT, <1>1, <1>9, <2>1 DEF Ptr
    <3>. QED BY <1>4, <3>1, <3>2, QueuePut
  <2>3. /\ node' \in [Nodes -> Cells] /\ node'[s[2]] = Node(node[s[2]].data, node[s[2]].next, NULL)
        /\ \A m \in Nodes \ {n, s[2]} : node'[m] = node[m]
    <3> DEFINE f == [node EXCEPT ![s[2]].prev = NULL]
    <3>1. /\ f \in [Nodes -> Cells] /\ f[s[2]] = Node(node[s[2]].data, node[s[2]].next, NULL)
          /\ \A m \in Nodes \ {s[2]} : f[m] = node[m]
      BY <1>4, <2>1, NodeSetPrev DEF Ptr
    <3>2. node' = [f EXCEPT ![n] = Freed]
      BY <1>8, <1>9, <1>14, <2>1
    <3> HIDE DEF f
    <3>3. node' \in [Nodes -> Cells] /\ \A m \in Nodes \ {n} : node'[m] = f[m]
      BY <1>9, <1>12, <3>1, <3>2, NodePut
    <3>. QED BY <2>1, <3>1, <3>3
  <2>4. /\ Len(t) >= 1 /\ t # <<>> /\ t[1] = s[2] /\ t[Len(t)] = s[Len(s)]
        /\ \A i \in 1..Len(t) : i # Len(t) => t[i + 1] = s[i + 2]
    <3>1. Len(t) >= 1 /\ t # <<>>
      BY SMT, <1>1, <1>6, <2>1
    <3>2. 1 \in 1..Len(t) /\ 1 + 1 = 2 /\ Len(t) \in 1..Len(t) /\ Len(t) + 1 = Len(s)
      BY SMT, <1>1, <1>6, <3>1
    <3>3. \A i \in 1..Len(t) : i # Len(t) => i + 1 \in 1..Len(t) /\ (i + 1) + 1 = i + 2
      BY SMT, <1>6
    <3>. QED BY <1>6, <3>1, <3>2, <3>3
  <2>5. Ends(q'[k], t)
    <3>1. q'[k].size = Len(s) - 1 /\ q'[k].head = s[2] /\ q'[k].tail = s[Len(s)]
      BY SMT, <2>2, QueueFields
    <3>. QED BY <1>6, <2>4, <3>1 DEF Ends
  <2>6. \A m \in live \ Own(k) : node'[m] = node[m] /\ m \in live'
    BY <1>4, <1>5, <1>9, <2>1, <2>3
  <2>7. live' \subseteq Nodes
    BY <1>4, <1>5
  <2>8. ASSUME NEW i \in 1..Len(t) PROVE Linked(node'[t[i]], t, i)
    <3>1. t[i] = s[i + 1] /\ i + 1 \in 1..Len(s) /\ Linked(node[t[i]], s, i + 1)
      BY <1>1, <1>6
    <3>2. /\ i + 1 # 1 /\ (i + 1) + 1 = i + 2 /\ (i + 1) - 1 = i
          /\ i + 1 = Len(s) <=> i = Len(t)
      BY SMT, <1>6, <1>1
    <3>3. /\ node[t[i]].data \in Items
          /\ i = Len(t) => node[t[i]].next = NULL
          /\ i # Len(t) => node[t[i]].next = t[i + 1]
          /\ node[t[i]].prev = s[i]
      BY <2>4, <3>1, <3>2 DEF Linked
    <3>4. CASE i = 1
      <4>1. t[i] = s[2]
        BY <2>4, <3>4
      <4>2. Linked(Node(node[t[i]].data, node[t[i]].next, NULL), t, i)
        BY <3>3, <3>4, LinkedNode
      <4>. QED BY <2>3, <4>1, <4>2
    <3>5. CASE i # 1
      <4>1. i - 1 \in 1..Len(t) /\ (i - 1) + 1 = i
        BY SMT, <1>6, <3>5
      <4>2. s[i] = t[i - 1]
        BY <1>6, <4>1
      <4>3. t[i] # s[2]
        BY SMT, <1>2, <2>1, <3>1, <3>5, <1>1
      <4>4. node'[t[i]] = node[t[i]]
        BY <1>10, <2>3, <4>3
      <4>. QED BY <3>3, <3>5, <4>2, <4>4 DEF Linked
    <3>. QED BY <3>4, <3>5
  <2>. QED BY <1>10, <1>11, <2>2, <2>3, <2>5, <2>6, <2>7, <2>8 DEF Relinks
<1>. QED BY <1>13, <1>14

\* dequeue_pop_front keeps the links; on an empty queue it returns NULL.
LEMMA PopFrontInv ==
  ASSUME WellLinked, NEW k \in Queues, PopFront(k)
  PROVE  WellLinked'
<1>1. halt \in {NULL, "malloc: OOM", "recursion", "not implemented", "null head size > 0?"}
  BY DEF WellLinked, TypeOK
<1>2. CASE out' = NULL /\ UNCHANGED <<q, node, live, iter, halt, order>>
  BY <1>1, <1>2, OnlyResult
<1>3. CASE Stop("null head size > 0?")
  BY <1>3, StopInv
<1>4. ASSUME q[k].size # 0, TakeFront(k), out' = node[q[k].head].data,
             order' = [order EXCEPT ![k] = Tail(order[k])],
             iter' = iter, halt' = halt, Idle(k)
      PROVE  WellLinked'
  <2> DEFINE t == Tail(order[k])
  <2>1. /\ order[k] \in Seq(Nodes) /\ order[k] # <<>> /\ 1 \in 1..Len(order[k])
        /\ q[k].head = order[k][1] /\ Linked(node[order[k][1]], order[k], 1)
    BY SMT, <1>4, Members DEF Ends
  <2>2. t \in Seq(Nodes) /\ Rest(t, order[k])
    BY <2>1, Tailed DEF Rest
  <2>3. order' = [order EXCEPT ![k] = t]
    BY <1>4
  <2> HIDE DEF t
  <2>4. Place'
    BY <1>4, <2>2, <2>3, OrderPut, Types, PlaceKept DEF WellLinked
  <2>5. iter' \in [q : Queues \cup {NULL}, current : Ptr, passed : Nat, fresh : BOOLEAN]
    BY <1>4 DEF WellLinked, TypeOK, Ptr
  <2>6. out' \in Items \cup {NULL}
    BY <1>4, <2>1 DEF Linked
  <2>7. Relinks(k, t)
    BY <1>4, <2>2, TakeFrontLinks
  <2>. QED BY <1>4, <2>2, <2>3, <2>4, <2>5, <2>6, <2>7, Relinked
<1>. QED BY <1>2, <1>3, <1>4 DEF PopFront

\* Steps of the iterator alone.
LEMMA OnlyIterator ==
  ASSUME WellLinked, UNCHANGED <<q, node, live, halt, order>>,
         out' \in Items \cup {NULL},
         iter' \in [q : Queues \cup {NULL}, current : Ptr, passed : Nat, fresh : BOOLEAN],
         Place'
  PROVE  WellLinked'
<1>1. q' = q /\ node' = node /\ live' = live /\ halt' = halt /\ order' = order
  OBVIOUS
<1>2. TypeOK'
  BY <1>1 DEF WellLinked, TypeOK, Ptr
<1>3. ASSUME NEW k \in Queues PROVE Chained(k)'
  <2>1. Chained(k)
    BY DEF WellLinked
  <2>. QED BY <1>1, <2>1 DEF Chained
<1>4. Apart'
  <2>1. Apart
    BY DEF WellLinked
  <2>. QED BY SMT, <1>1, <2>1 DEF Apart
<1>. QED BY <1>2, <1>3, <1>4 DEF WellLinked

\* dequeue_iterator starts at the head.
LEMMA IteratorInv ==
  ASSUME WellLinked, NEW k \in Queues, Iterator(k)
  PROVE  WellLinked'
<1>1. /\ Len(order[k]) \in Nat /\ Ends(q[k], order[k]) /\ (order[k] = <<>> <=> Len(order[k]) = 0)
      /\ \A i \in 1..Len(order[k]) : order[k][i] \in Nodes
  BY Members
<1>2. /\ iter' = [q |-> k, current |-> q[k].head, passed |-> 0, fresh |-> FALSE]
      /\ out' = NULL /\ UNCHANGED <<q, node, live, halt, order>>
  BY DEF Iterator
<1>3. /\ q[k].head \in Ptr
      /\ q[k].head = IF 0 = Len(order[k]) THEN NULL ELSE order[k][0 + 1]
  BY SMT, <1>1 DEF Ends, Ptr
<1>4. iter' \in [q : Queues \cup {NULL}, current : Ptr, passed : Nat, fresh : BOOLEAN]
  BY <1>2, <1>3
<1>5. /\ iter'.q = k /\ iter'.current = q[k].head /\ iter'.passed = 0 /\ iter'.fresh = FALSE
      /\ order' = order
  BY <1>2
<1>6. Place'
  BY SMT, <1>1, <1>3, <1>5 DEF Place
<1>. QED BY <1>2, <1>4, <1>6, OnlyIterator

\* An iterator that is given up leaves the queues alone.
LEMMA IteratorDoneInv ==
  ASSUME WellLinked, IteratorDone
  PROVE  WellLinked'
<1>1. iter' = NoIterator /\ out' = NULL /\ UNCHANGED <<q, node, live, halt, order>>
  BY DEF IteratorDone
<1>2. iter' \in [q : Queues \cup {NULL}, current : Ptr, passed : Nat, fresh : BOOLEAN]
  BY <1>1 DEF NoIterator, Ptr
<1>3. Place'
  BY <1>1 DEF Place, NoIterator
<1>. QED BY <1>1, <1>2, <1>3, OnlyIterator

\* dequeue_iterator_next moves one node on, or stays at the end.
LEMMA IteratorNextInv ==
  ASSUME WellLinked, IteratorNext
  PROVE  WellLinked'
<1> DEFINE s == order[iter.q]
           j == iter.passed + 1
<1>1. /\ iter.q # NULL /\ iter.current # NULL /\ out' = node[iter.current].data
      /\ iter' = [iter EXCEPT !.current = node[iter.current].next, !.passed = iter.passed + 1, !.fresh = TRUE]
      /\ UNCHANGED <<q, node, live, halt, order>>
  BY DEF IteratorNext
<1>2. iter \in [q : Queues \cup {NULL}, current : Ptr, passed : Nat, fresh : BOOLEAN]
  BY DEF WellLinked, TypeOK, Ptr
<1>3. iter.q \in Queues /\ iter.passed \in Nat
  BY <1>1, <1>2
<1>4. /\ Len(s) \in Nat
      /\ \A i \in 1..Len(s) : s[i] \in Nodes /\ Linked(node[s[i]], s, i)
  BY <1>3, Members
<1>5. /\ iter.passed <= Len(s)
      /\ iter.current = IF iter.passed = Len(s) THEN NULL ELSE s[j]
  BY <1>1 DEF WellLinked, Place
<1>6. j \in 1..Len(s) /\ iter.current = s[j]
  BY SMT, <1>1, <1>3, <1>4, <1>5
<1> HIDE DEF s
<1>7. /\ node[s[j]].data \in Items
      /\ node[s[j]].next = IF j = Len(s) THEN NULL ELSE s[j + 1]
  BY <1>4, <1>6 DEF Linked
<1>8. node[s[j]].next \in Ptr
  BY SMT, <1>4, <1>6, <1>7 DEF Ptr
<1>9. /\ iter' \in [q : Queues \cup {NULL}, current : Ptr, passed : Nat, fresh : BOOLEAN]
      /\ iter'.q = iter.q /\ iter'.current = node[s[j]].next /\ iter'.passed = j /\ iter'.fresh = TRUE
  <2>1. iter' = [iter EXCEPT !.current = node[s[j]].next, !.passed = iter.passed + 1, !.fresh = TRUE]
    BY <1>1, <1>6
  <2>2. iter.passed + 1 \in Nat
    BY SMT, <1>3
  <2> HIDE DEF j
  <2>3. /\ iter' \in [q : Queues \cup {NULL}, current : Ptr, passed : Nat, fresh : BOOLEAN]
        /\ iter'.q = iter.q /\ iter'.current = node[s[j]].next /\ iter'.passed = iter.passed + 1
        /\ iter'.fresh = TRUE
    BY <1>2, <1>8, <2>1, <2>2
  <2>. QED BY <2>3 DEF j
<1>10. order'[iter.q] = s /\ j <= Len(s) /\ j > 0
  BY SMT, <1>1, <1>3, <1>6 DEF s
<1>11. Place'
  BY <1>7, <1>9, <1>10 DEF Place
<1>12. out' \in Items \cup {NULL}
  BY <1>1, <1>6, <1>7
<1>. QED BY <1>1, <1>9, <1>11, <1>12, OnlyIterator

\* Unlinking the node at place p leaves the others of k, t, linked.
LEMMA UnlinkLinks ==
  ASSUME WellLinked, NEW k \in Queues, NEW p \in 1..Len(order[k]), Len(order[k]) > 1,
         Unlink(k, order[k][p]), NEW t, t = Without(order[k], p)
  PROVE  Relinks(k, t)
<1> DEFINE s == order[k]
           d == s[p]
           before == node[d].prev
           after == node[d].next
<1>1. /\ s \in Seq(Nodes) /\ Len(s) \in Nat /\ (s = <<>> <=> Len(s) = 0)
      /\ Ends(q[k], s)
      /\ \A i \in 1..Len(s) : s[i] \in Nodes /\ s[i] \in live /\ Linked(node[s[i]], s, i)
  BY Members
<1>2. \A i, j \in 1..Len(s) : s[i] = s[j] => i = j
  BY DEF WellLinked, Apart
<1>3. \A i \in 1..Len(s) : s[i] \in Own(k)
  BY DEF Own
<1>4. q \in [Queues -> Heads] /\ node \in [Nodes -> Cells] /\ live \subseteq Nodes
  BY Types DEF WellLinked
<1>5. /\ node' = [m \in Nodes |->
                    IF m = d THEN Node(node[d].data, NULL, NULL)
                    ELSE [node[m] EXCEPT !.next = IF m = before THEN after ELSE @,
                                         !.prev = IF m = after THEN before ELSE @]]
      /\ q' = [q EXCEPT ![k] = [size |-> @.size - 1,
                                head |-> IF before = NULL THEN after ELSE @.head,
                                tail |-> IF after = NULL THEN before ELSE @.tail]]
      /\ live' = live
  BY DEF Unlink
<1>6. Len(s) > 1 /\ p \in 1..Len(s) /\ t = Without(s, p)
  OBVIOUS
<1> HIDE DEF s
<1>7. /\ t \in Seq(Nodes) /\ Len(t) = Len(s) - 1
      /\ \A i \in 1..Len(t) : t[i] = IF i < p THEN s[i] ELSE s[i + 1]
  <2>1. s \in Seq(Nodes)
    BY <1>1
  <2>2. /\ Without(s, p) \in Seq(Nodes) /\ Len(Without(s, p)) = Len(s) - 1
        /\ \A i \in 1..Len(Without(s, p)) : Without(s, p)[i] = IF i < p THEN s[i] ELSE s[i + 1]
    BY <1>6, <2>1, Deleted
  <2>. QED BY <1>6, <2>2
<1>8. d \in Nodes /\ d \in Own(k) /\ Linked(node[d], s, p) /\ node[d] \in Cells
  BY <1>1, <1>3, <1>4, <1>6
<1>9. /\ node[d].data \in Items
      /\ before = IF p = 1 THEN NULL ELSE s[p - 1]
      /\ after = IF p = Len(s) THEN NULL ELSE s[p + 1]
  BY <1>8 DEF Linked
<1> HIDE DEF d, before, after
<1>10. /\ p # 1 => p - 1 \in 1..Len(s) /\ before = s[p - 1] /\ before \in Nodes /\ before # NULL /\ before \in Own(k)
       /\ p # Len(s) => p + 1 \in 1..Len(s) /\ after = s[p + 1] /\ after \in Nodes /\ after # NULL /\ after \in Own(k)
       /\ p = 1 => before = NULL
       /\ p = Len(s) => after = NULL
       /\ before \in Ptr /\ after \in Ptr
  <2>1. NULL \notin Nodes
    BY DequeAssumption
  <2>2. (p # 1 => p - 1 \in 1..Len(s)) /\ (p # Len(s) => p + 1 \in 1..Len(s))
    BY SMT, <1>1, <1>6
  <2>. QED BY <1>1, <1>3, <1>9, <2>1, <2>2 DEF Ptr
<1>11. /\ node' \in [Nodes -> Cells]
       /\ \A m \in Nodes \ {d} :
            node'[m] = Node(node[m].data, IF m = before THEN after ELSE node[m].next,
                            IF m = after THEN before ELSE node[m].prev)
  BY <1>4, <1>5, <1>8, <1>10 DEF Cells, Node, Ptr
<1>12. \A m \in Nodes \ {d, before, after} : node'[m] = node[m]
  BY <1>4, <1>11 DEF Cells, Node
<1>13. ASSUME NEW i \in 1..Len(t)
       PROVE  /\ i < p => i \in 1..Len(s) /\ t[i] = s[i]
              /\ ~(i < p) => i + 1 \in 1..Len(s) /\ t[i] = s[i + 1]
              /\ t[i] \in Own(k) /\ t[i] \in live' /\ t[i] \in Nodes \ {d}
  <2>1. i \in 1..Len(s) /\ i + 1 \in 1..Len(s) /\ (i < p => i # p) /\ (~(i < p) => i + 1 # p)
    BY SMT, <1>1, <1>6, <1>7
  <2>2. t[i] = IF i < p THEN s[i] ELSE s[i + 1]
    BY <1>7
  <2>. QED BY <1>1, <1>2, <1>3, <1>5, <1>6, <2>1, <2>2 DEF d
<1>14. \A i, j \in 1..Len(t) : t[i] = t[j] => i = j
  <2>1. ASSUME NEW i \in 1..Len(t), NEW j \in 1..Len(t), t[i] = t[j] PROVE i = j
    <3>1. CASE i < p /\ j < p
      BY <1>2, <1>13, <2>1, <3>1
    <3>2. CASE i < p /\ ~(j < p)
      <4>1. i = j + 1
        BY <1>2, <1>13, <2>1, <3>2
      <4>. QED BY SMT, <1>6, <1>7, <3>2, <4>1
    <3>3. CASE ~(i < p) /\ j < p
      <4>1. i + 1 = j
        <5>1. t[i] = s[i + 1] /\ t[j] = s[j] /\ i + 1 \in 1..Len(s) /\ j \in 1..Len(s)
          BY <1>13, <3>3
        <5>. QED BY <1>2, <2>1, <5>1
      <4>. QED BY SMT, <1>6, <1>7, <3>3, <4>1
    <3>4. CASE ~(i < p) /\ ~(j < p)
      <4>1. i + 1 = j + 1
        <5>1. t[i] = s[i + 1] /\ t[j] = s[j + 1] /\ i + 1 \in 1..Len(s) /\ j + 1 \in 1..Len(s)
          BY <1>13, <3>4
        <5>. QED BY <1>2, <2>1, <5>1
      <4>. QED BY SMT, <1>7, <4>1
    <3>. QED BY <3>1, <3>2, <3>3, <3>4
  <2>. QED BY <2>1
<1>15. \A m \in live \ Own(k) : node'[m] = node[m] /\ m \in live'
  <2>1. ASSUME NEW m \in live \ Own(k) PROVE m \in Nodes \ {d} /\ m # before /\ m # after
    <3>1. m \in Nodes /\ m # NULL
      BY <1>4, DequeAssumption
    <3>. QED BY <1>8, <1>10, <3>1
  <2>. QED BY <1>5, <1>12, <2>1
<1>16. Len(t) \in Nat /\ Len(t) >= 1 /\ t # <<>>
  BY SMT, <1>1, <1>6, <1>7
<1>17. /\ q' \in [Queues -> Heads] /\ \A l \in Queues \ {k} : q'[l] = q[l]
       /\ q'[k] = Queue(Len(s) - 1, IF before = NULL THEN after ELSE s[1],
                        IF after = NULL THEN before ELSE s[Len(s)])
  <2>1. q[k].size = Len(s) /\ q[k].head = s[1] /\ q[k].tail = s[Len(s)]
    BY SMT, <1>1, <1>6 DEF Ends
  <2>2. q' = [q EXCEPT ![k] = Queue(Len(s) - 1, IF before = NULL THEN after ELSE s[1],
                                    IF after = NULL THEN before ELSE s[Len(s)])]
    BY <1>5, <2>1 DEF Queue
  <2>3. Len(s) - 1 \in Nat /\ s[1] \in Ptr /\ s[Len(s)] \in Ptr
    BY SMT, <1>1, <1>6 DEF Ptr
  <2>. QED BY SMT, <1>4, <1>10, <2>2, <2>3, QueuePut
<1>18. Ends(q'[k], t)
  <2>1. /\ q'[k].size = Len(s) - 1
        /\ q'[k].head = IF before = NULL THEN after ELSE s[1]
        /\ q'[k].tail = IF after = NULL THEN before ELSE s[Len(s)]
    BY SMT, <1>17, QueueFields
  <2>2. q'[k].head = t[1]
    <3>1. 1 \in 1..Len(t)
      BY SMT, <1>16
    <3>2. p # 1 => 1 < p
      BY SMT, <1>1, <1>6
    <3>3. p = 1 => p # Len(s) /\ ~(1 < p) /\ p + 1 = 1 + 1
      BY SMT, <1>1, <1>6
    <3>. QED BY <1>10, <1>13, <2>1, <3>1, <3>2, <3>3
  <2>3. q'[k].tail = t[Len(t)]
    <3>1. Len(t) \in 1..Len(t) /\ Len(t) + 1 = Len(s)
      BY SMT, <1>1, <1>7, <1>16
    <3>2. p = Len(s) => p # 1 /\ Len(t) < p /\ p - 1 = Len(t)
      BY SMT, <1>1, <1>6, <1>7
    <3>3. p # Len(s) => ~(Len(t) < p)
      BY SMT, <1>1, <1>6, <1>7
    <3>. QED BY <1>10, <1>13, <2>1, <3>1, <3>2, <3>3
  <2>. QED BY <1>7, <1>16, <2>1, <2>2, <2>3 DEF Ends
<1>19. ASSUME NEW i \in 1..Len(t) PROVE Linked(node'[t[i]], t, i)
  <2> DEFINE m == t[i]
             n == IF m = before THEN after ELSE node[m].next
             v == IF m = after THEN before ELSE node[m].prev
  <2>1. m \in Nodes \ {d} /\ node'[m] = Node(node[m].data, n, v)
    BY <1>11, <1>13
  <2>2. CASE i < p
    <3>1. /\ i \in 1..Len(s) /\ m = s[i] /\ i # Len(s)
          /\ i # 1 => i - 1 \in 1..Len(t) /\ i - 1 < p
          /\ i + 1 = p => p # 1 /\ p - 1 = i /\ (i = Len(t) <=> p = Len(s)) /\ (p # Len(s) => p \in 1..Len(t))
          /\ i + 1 # p => i # p - 1 /\ i # Len(t) /\ i + 1 \in 1..Len(t) /\ i + 1 < p
          /\ i # p + 1 /\ ~(p < p)
      BY SMT, <1>1, <1>6, <1>7, <1>13, <2>2
    <3>2. Linked(node[m], s, i)
      BY <1>1, <3>1
    <3>3. /\ node[m].data \in Items /\ node[m].next = s[i + 1]
          /\ i = 1 => node[m].prev = NULL
          /\ i # 1 => node[m].prev = t[i - 1]
      BY <1>13, <3>1, <3>2 DEF Linked
    <3>4. m = before <=> i + 1 = p
      <4>1. p # 1 => (m = before <=> i = p - 1)
        BY <1>2, <1>10, <3>1
      <4>2. p = 1 => m # before
        BY <1>10, <2>1, DequeAssumption
      <4>. QED BY <1>6, <3>1, <4>1, <4>2
    <3>5. m # after
      <4>1. p # Len(s) => m # after
        BY <1>2, <1>10, <3>1
      <4>2. p = Len(s) => m # after
        BY <1>10, <2>1, DequeAssumption
      <4>. QED BY <4>1, <4>2
    <3>6. (i = Len(t) => n = NULL) /\ (i # Len(t) => n = t[i + 1])
      <4>1. CASE i + 1 = p
        BY <1>10, <1>13, <3>1, <3>4, <4>1
      <4>2. CASE i + 1 # p
        BY <1>13, <3>1, <3>3, <3>4, <4>2
      <4>. QED BY <4>1, <4>2
    <3>7. Linked(Node(node[m].data, n, v), t, i)
      BY <3>3, <3>5, <3>6, LinkedNode
    <3>. QED BY <2>1, <3>7
  <2>3. CASE ~(i < p)
    <3> DEFINE j == i + 1
    <3>1. /\ j \in 1..Len(s) /\ m = s[j] /\ j # 1 /\ j - 1 = i
          /\ j = Len(s) <=> i = Len(t)
          /\ i # Len(t) => i + 1 \in 1..Len(t) /\ ~(i + 1 < p)
          /\ i = p => j = p + 1 /\ p # Len(s) /\ (i # 1 => i - 1 \in 1..Len(t) /\ i - 1 < p)
          /\ i # p => j # p + 1 /\ i # 1 /\ i - 1 \in 1..Len(t) /\ ~(i - 1 < p) /\ (i - 1) + 1 = i
          /\ j # p - 1
      <4>1. /\ Len(s) \in Nat /\ Len(t) = Len(s) - 1 /\ p \in Nat /\ p >= 1 /\ p <= Len(s)
            /\ i \in Nat /\ i >= 1 /\ i <= Len(t)
        BY SMT, <1>1, <1>6, <1>7
      <4>2. m = s[j]
        BY <1>13, <2>3
      <4> HIDE DEF m
      <4>. QED BY SMTT(30), <2>3, <4>1, <4>2
    <3> HIDE DEF j
    <3>2. Linked(node[m], s, j)
      BY <1>1, <3>1
    <3>3. /\ node[m].data \in Items /\ node[m].prev = s[i]
          /\ i = Len(t) => node[m].next = NULL
          /\ i # Len(t) => node[m].next = s[j + 1]
      BY <3>1, <3>2 DEF Linked
    <3>4. i # Len(t) => t[i + 1] = s[j + 1]
      BY <1>13, <3>1 DEF j
    <3>5. m # before
      <4>1. p # 1 => m # before
        BY <1>2, <1>10, <3>1
      <4>2. p = 1 => m # before
        BY <1>10, <2>1, DequeAssumption
      <4>. QED BY <4>1, <4>2
    <3>6. m = after <=> i = p
      <4>1. p # Len(s) => (m = after <=> j = p + 1)
        BY <1>2, <1>10, <3>1
      <4>2. p = Len(s) => m # after
        BY <1>10, <2>1, DequeAssumption
      <4>. QED BY <3>1, <4>1, <4>2
    <3>7. (i = 1 => v = NULL) /\ (i # 1 => v = t[i - 1])
      <4>1. CASE i = p
        <5>1. i # 1 => t[i - 1] = s[i - 1]
          BY <1>13, <3>1, <4>1
        <5>. QED BY <1>10, <3>6, <4>1, <5>1
      <4>2. CASE i # p
        <5>1. t[i - 1] = s[(i - 1) + 1]
          BY <1>13, <3>1, <4>2
        <5>. QED BY <3>1, <3>3, <3>6, <4>2, <5>1
      <4>. QED BY <4>1, <4>2
    <3>8. Linked(Node(node[m].data, n, v), t, i)
      BY <3>3, <3>4, <3>5, <3>7, LinkedNode
    <3>. QED BY <2>1, <3>8
  <2>. QED BY <2>2, <2>3
<1>20. live' \subseteq Nodes
  BY <1>4, <1>5
<1>. QED BY <1>11, <1>13, <1>14, <1>15, <1>17, <1>18, <1>19, <1>20 DEF Relinks

\* dequeue_iterator_delete keeps the links and the place of the iterator.
LEMMA IteratorDeleteInv ==
  ASSUME WellLinked, IteratorDelete
  PROVE  WellLinked'
<1> DEFINE k == iter.q
           s == order[k]
           p == iter.passed
           t == Without(s, p)
<1>1. /\ k # NULL /\ iter.fresh /\ out' = NULL /\ halt' = halt
      /\ CASE q[k].size = 1 -> TakeFront(k)
           [] q[k].size > 1 /\ Target(k) # NULL -> Unlink(k, Target(k))
           [] OTHER -> UNCHANGED <<q, node, live>>
      /\ order' = [order EXCEPT ![k] = t]
      /\ iter' = [iter EXCEPT !.passed = p - 1, !.fresh = FALSE]
  BY DEF IteratorDelete, Without
<1>2. iter \in [q : Queues \cup {NULL}, current : Ptr, passed : Nat, fresh : BOOLEAN]
  BY DEF WellLinked, TypeOK, Ptr
<1>3. k \in Queues /\ p \in Nat
  BY <1>1, <1>2
<1>4. /\ s \in Seq(Nodes) /\ Len(s) \in Nat /\ (s = <<>> <=> Len(s) = 0)
      /\ Ends(q[k], s)
      /\ \A i \in 1..Len(s) : s[i] \in Nodes /\ Linked(node[s[i]], s, i)
  BY <1>3, Members
<1>5. /\ p <= Len(s) /\ p > 0
      /\ iter.current = IF p = Len(s) THEN NULL ELSE s[p + 1]
  BY <1>1 DEF WellLinked, Place
<1>6. p \in 1..Len(s)
  BY SMT, <1>3, <1>4, <1>5
<1>7. /\ t \in Seq(Nodes) /\ Len(t) = Len(s) - 1
      /\ \A i \in 1..Len(t) : t[i] = IF i < p THEN s[i] ELSE s[i + 1]
  <2>1. t = Without(s, p)
    OBVIOUS
  <2> HIDE DEF s, p, t
  <2>. QED BY SMT, <1>4, <1>6, <2>1, Deleted
<1>8. order'[k] = t
  BY <1>1, <1>3, <1>7, OrderPut, Types DEF WellLinked
<1>9. /\ iter' \in [q : Queues \cup {NULL}, current : Ptr, passed : Nat, fresh : BOOLEAN]
      /\ iter'.q = k /\ iter'.current = iter.current /\ iter'.passed = p - 1 /\ iter'.fresh = FALSE
  <2>1. p - 1 \in Nat
    BY SMT, <1>3, <1>5
  <2>. QED BY <1>1, <1>2, <2>1
<1>10. Place'
  <2>1. /\ p - 1 <= Len(t) /\ (p - 1 = Len(t) <=> p = Len(s))
        /\ p # Len(s) => p \in 1..Len(t) /\ (p - 1) + 1 = p /\ ~(p < p)
    BY SMT, <1>4, <1>6, <1>7
  <2>2. p # Len(s) => t[p] = s[p + 1]
    BY <1>7, <2>1
  <2>. QED BY <1>5, <1>8, <1>9, <2>1, <2>2 DEF Place
<1>11. out' \in Items \cup {NULL}
  BY <1>1
<1>12. q[k].size = Len(s) /\ q[k].tail = s[Len(s)] /\ Len(s) >= 1
  BY SMT, <1>4, <1>6 DEF Ends
<1>13. Target(k) = s[p] /\ s[p] # NULL
  <2>1. s[p] # NULL
    BY <1>4, <1>6, DequeAssumption
  <2>2. CASE p = Len(s)
    BY <1>5, <1>12, <2>1, <2>2 DEF Target
  <2>3. CASE p # Len(s)
    <3>1. p + 1 \in 1..Len(s) /\ p + 1 # 1 /\ (p + 1) - 1 = p
      BY SMT, <1>4, <1>6, <2>3
    <3>2. iter.current = s[p + 1] /\ s[p + 1] # NULL /\ node[s[p + 1]].prev = s[p]
      BY <1>4, <1>5, <2>3, <3>1, DequeAssumption DEF Linked
    <3>. QED BY <2>1, <3>2 DEF Target
  <2>. QED BY <2>2, <2>3
<1>14. Relinks(k, t)
  <2>1. CASE Len(s) = 1
    <3>1. TakeFront(k)
      BY SMT, <1>1, <1>12, <2>1
    <3>2. Rest(t, s)
      BY SMT, <1>7, <2>1 DEF Rest
    <3> HIDE DEF t, k
    <3>. QED BY <1>3, <1>7, <3>1, <3>2, TakeFrontLinks
  <2>2. CASE Len(s) # 1
    <3>1. Len(s) > 1
      <4> HIDE DEF s
      <4>1. Len(s) \in Nat /\ Len(s) >= 1
        BY <1>4, <1>12
      <4>. QED BY <2>2, <4>1, TwoOrMore
    <3>2. Unlink(k, s[p])
      BY SMT, <1>1, <1>12, <1>13, <3>1
    <3>3. p \in 1..Len(order[k]) /\ Len(order[k]) > 1 /\ Unlink(k, order[k][p]) /\ t = Without(order[k], p)
      BY <1>6, <3>1, <3>2
    <3> HIDE DEF k, p, t
    <3>. QED BY <1>3, <3>3, UnlinkLinks
  <2>. QED BY <2>1, <2>2
<1> HIDE DEF k, t
<1>. QED BY <1>1, <1>3, <1>7, <1>9, <1>10, <1>11, <1>14, Relinked

\* The links of the queues of sched.c: every call of queue.c keeps each queue
\* chained, counted and apart from the others, and an iterator in its place.
THEOREM LinksHold == Spec => []WellLinked
<1>1. Init => WellLinked
  BY SMT DEF Init, WellLinked, TypeOK, Chained, Ends, Linked, Apart, Place, NoIterator, Freed, Node
<1>2. WellLinked /\ [Next]_vars => WellLinked'
  <2> SUFFICES ASSUME WellLinked, [Next]_vars PROVE WellLinked'
    OBVIOUS
  <2>1. CASE UNCHANGED vars
    BY <2>1, OnlyResult DEF vars, WellLinked, TypeOK
  <2>2. ASSUME NEW k \in Queues, NEW x \in Items, PushBack(k, x) \/ PushFront(k, x) PROVE WellLinked'
    BY <2>2, PushBackInv, PushFrontInv
  <2>3. ASSUME NEW k \in Queues, PeekFront(k) \/ PopFront(k) \/ Iterator(k) PROVE WellLinked'
    BY <2>3, PeekFrontInv, PopFrontInv, IteratorInv
  <2>4. CASE PopBack
    BY <2>4, StopInv DEF PopBack
  <2>. QED BY <2>1, <2>2, <2>3, <2>4, IteratorNextInv, IteratorDeleteInv, IteratorDoneInv DEF Next
<1>. QED BY <1>1, <1>2, PTL DEF Spec

-----------------------------------------------------------------------------
(* The queues as sequences                                                 *)

\* What a queue holds is a sequence of items.
LEMMA ContentsSeq ==
  ASSUME WellLinked, NEW k \in Queues
  PROVE  /\ Contents[k] \in Seq(Items) /\ Len(Contents[k]) = Len(order[k])
         /\ \A i \in 1..Len(order[k]) : Contents[k][i] = node[order[k][i]].data
<1> DEFINE s == order[k]
<1>1. /\ Len(s) \in Nat /\ \A i \in 1..Len(s) : node[s[i]].data \in Items
  BY Members DEF Linked
<1>2. Contents[k] = [i \in 1..Len(s) |-> node[s[i]].data]
  BY DEF Contents
<1> HIDE DEF s
<1>3. Contents[k] \in Seq(Items) /\ Len(Contents[k]) = Len(s)
  BY SMT, <1>1, <1>2
<1>. QED BY <1>2, <1>3 DEF s

\* No call changes the item of a node that stays allocated.
DataKept == \A m \in live \cap live' : node'[m].data = node[m].data

\* If the nodes of k become t, and the other queues keep theirs, then k holds
\* the items of t and the other queues hold what they held.
LEMMA ContentsPut ==
  ASSUME WellLinked, WellLinked', NEW k \in Queues, NEW t \in Seq(Nodes),
         order' = [order EXCEPT ![k] = t], DataKept,
         NEW r \in Seq(Items), Len(r) = Len(t), \A i \in 1..Len(t) : r[i] = node'[t[i]].data
  PROVE  Contents' = [Contents EXCEPT ![k] = r]
<1>1. order'[k] = t /\ \A l \in Queues \ {k} : order'[l] = order[l]
  BY OrderPut, Types DEF WellLinked
<1>2. [i \in 1..Len(order'[k]) |-> node'[order'[k][i]].data] = r
  BY SMT, <1>1
<1>3. ASSUME NEW l \in Queues \ {k}
      PROVE  [i \in 1..Len(order'[l]) |-> node'[order'[l][i]].data] = Contents[l]
  <2>1. ASSUME NEW i \in 1..Len(order[l]) PROVE node'[order[l][i]].data = node[order[l][i]].data
    <3>1. order[l][i] \in live
      BY Members
    <3>2. Chained(l)'
      BY DEF WellLinked
    <3>3. order[l][i] \in live'
      BY <1>1, <3>2 DEF Chained
    <3>. QED BY <3>1, <3>3 DEF DataKept
  <2>2. Contents[l] = [i \in 1..Len(order[l]) |-> node[order[l][i]].data]
    BY DEF Contents
  <2>. QED BY <1>1, <2>1, <2>2
<1>4. ASSUME NEW l \in Queues PROVE Contents'[l] = IF l = k THEN r ELSE Contents[l]
  <2>1. Contents'[l] = [i \in 1..Len(order'[l]) |-> node'[order'[l][i]].data]
    BY DEF Contents
  <2>2. l = k => Contents'[l] = r
    BY <1>2, <2>1
  <2>3. l # k => Contents'[l] = Contents[l]
    BY <1>3, <2>1
  <2>. QED BY <2>2, <2>3
<1>5. Contents' = [l \in Queues |-> Contents'[l]] /\ Contents = [l \in Queues |-> Contents[l]]
  BY SMT DEF Contents
<1>. QED BY <1>4, <1>5

\* The contents stay when neither order nor data change.
LEMMA ContentsSame ==
  ASSUME order' = order, node' = node
  PROVE  Contents' = Contents
BY DEF Contents

\* dequeue_pop_front keeps the data of the nodes that stay.
LEMMA TakeFrontKeepsData ==
  ASSUME WellLinked, NEW k \in Queues, TakeFront(k)
  PROVE  DataKept
<1>1. node \in [Nodes -> Cells] /\ live \subseteq Nodes /\ live' = live \ {q[k].head}
  BY Types DEF WellLinked, TakeFront
<1>2. ASSUME NEW m \in live \cap live' PROVE node'[m].data = node[m].data
  <2>1. m \in Nodes /\ m # q[k].head
    BY <1>1
  <2>. QED BY SMT, <1>1, <2>1 DEF TakeFront, Cells
<1>. QED BY <1>2 DEF DataKept

\* What a step of queue.c is of module DequeSpec.
LEMMA PushBackRefines ==
  ASSUME WellLinked, WellLinked', NEW k \in Queues, NEW x \in Items, PushBack(k, x)
  PROVE  Abstract!PushBack(k, x) \/ Abstract!Stop
<1>0. halt = NULL /\ Idle(k)
  BY DEF PushBack
<1>1. CASE Stop("malloc: OOM")
  BY <1>0, <1>1, ContentsSame DEF Stop, Abstract!Stop, Cursor
<1>2. ASSUME NEW n \in Nodes \ live,
             live' = live \cup {n},
             IF q[k].size = 0
             THEN node' = [node EXCEPT ![n] = Node(x, NULL, NULL)]
             ELSE node' = [node EXCEPT ![n] = Node(x, NULL, q[k].tail), ![q[k].tail].next = n],
             order' = [order EXCEPT ![k] = Append(order[k], n)],
             out' = NULL, iter' = iter, halt' = halt
      PROVE  Abstract!PushBack(k, x)
  <2> DEFINE s == order[k]
             t == Append(s, n)
             c == Contents[k]
             r == Append(c, x)
  <2>1. s \in Seq(Nodes) /\ Len(s) \in Nat /\ \A i \in 1..Len(s) : s[i] \in live
    BY Members
  <2>2. /\ t \in Seq(Nodes) /\ Len(t) = Len(s) + 1 /\ t[Len(s) + 1] = n
        /\ \A i \in 1..Len(s) : t[i] = s[i]
    BY SMT, <2>1, Appended
  <2>3. c \in Seq(Items) /\ Len(c) = Len(s) /\ \A i \in 1..Len(s) : c[i] = node[s[i]].data
    BY ContentsSeq
  <2> HIDE DEF c
  <2>4. /\ r \in Seq(Items) /\ Len(r) = Len(c) + 1 /\ r[Len(c) + 1] = x
        /\ \A i \in 1..Len(c) : r[i] = c[i]
    BY SMT, <2>3, Appended
  <2>5. order' = [order EXCEPT ![k] = t]
    BY <1>2
  <2> HIDE DEF s, t, r
  <2>6. DataKept /\ node'[n].data = x
    <3>1. node \in [Nodes -> Cells] /\ live \subseteq Nodes /\ q[k].tail \in Ptr
      BY Types DEF WellLinked, Heads
    <3>2. q[k].size # 0 => q[k].tail # n
      BY SMTT(30), <1>2, <2>1, Members DEF Ends, s
    <3>3. \A m \in live : m \in Nodes /\ m # n
      BY <1>2, <3>1
    <3>. QED BY SMT, <1>2, <3>1, <3>2, <3>3 DEF DataKept, Cells, Node
  <2>7. \A i \in 1..Len(t) : r[i] = node'[t[i]].data
    <3>1. ASSUME NEW i \in 1..Len(s) PROVE r[i] = node'[t[i]].data
      BY SMT, <1>2, <2>1, <2>2, <2>3, <2>4, <2>6 DEF DataKept
    <3>. QED BY SMTT(30), <2>1, <2>2, <2>3, <2>4, <2>6, <3>1
  <2>8. Contents' = [Contents EXCEPT ![k] = r]
    BY <2>2, <2>3, <2>4, <2>5, <2>6, <2>7, ContentsPut
  <2>. QED BY <1>0, <1>2, <2>8 DEF Abstract!PushBack, Abstract!Idle, Idle, Cursor, r, c
<1>. QED BY <1>1, <1>2 DEF PushBack

\* dequeue_push_front adds the item in front.
LEMMA PushFrontRefines ==
  ASSUME WellLinked, WellLinked', NEW k \in Queues, NEW x \in Items, PushFront(k, x)
  PROVE  Abstract!PushFront(k, x) \/ Abstract!Stop
<1>0. halt = NULL /\ Idle(k)
  BY DEF PushFront
<1>1. CASE Stop("malloc: OOM") \/ Stop("recursion")
  BY <1>0, <1>1, ContentsSame DEF Stop, Abstract!Stop, Cursor
<1>2. ASSUME NEW n \in Nodes \ live, q[k].size # 0, live' = live \cup {n},
             node' = [node EXCEPT ![n] = Node(x, q[k].head, NULL), ![q[k].head].prev = n],
             order' = [order EXCEPT ![k] = <<n>> \o order[k]],
             out' = NULL, iter' = iter, halt' = halt
      PROVE  Abstract!PushFront(k, x)
  <2> DEFINE s == order[k]
             t == <<n>> \o s
             c == Contents[k]
             r == <<x>> \o c
  <2>1. s \in Seq(Nodes) /\ Len(s) \in Nat /\ \A i \in 1..Len(s) : s[i] \in live
    BY Members
  <2>2. /\ t \in Seq(Nodes) /\ Len(t) = Len(s) + 1 /\ t[1] = n
        /\ \A i \in 1..Len(s) : t[i + 1] = s[i]
    BY SMT, <2>1, Prepended
  <2>3. c \in Seq(Items) /\ Len(c) = Len(s) /\ \A i \in 1..Len(s) : c[i] = node[s[i]].data
    BY ContentsSeq
  <2> HIDE DEF c
  <2>4. /\ r \in Seq(Items) /\ Len(r) = Len(c) + 1 /\ r[1] = x
        /\ \A i \in 1..Len(c) : r[i + 1] = c[i]
    BY SMT, <2>3, Prepended
  <2>5. order' = [order EXCEPT ![k] = t]
    BY <1>2
  <2>6. Len(s) >= 1 /\ q[k].head \in live
    <3>1. Ends(q[k], s) /\ (s = <<>> <=> Len(s) = 0)
      BY Members
    <3>2. Len(s) >= 1 /\ q[k].head = s[1]
      BY SMT, <1>2, <2>1, <3>1 DEF Ends
    <3>3. 1 \in 1..Len(s)
      BY SMT, <2>1, <3>2
    <3>. QED BY <2>1, <3>2, <3>3
  <2> HIDE DEF s, t, r
  <2>7. DataKept /\ node'[n].data = x
    <3>1. node \in [Nodes -> Cells] /\ live \subseteq Nodes
      BY Types DEF WellLinked
    <3>2. q[k].head # n /\ q[k].head \in Nodes /\ \A m \in live : m \in Nodes /\ m # n
      BY <1>2, <2>6, <3>1
    <3>. QED BY <1>2, <3>1, <3>2 DEF DataKept, Cells, Node
  <2>8. ASSUME NEW i \in 1..Len(t) PROVE r[i] = node'[t[i]].data
    <3>1. CASE i = 1
      BY <2>2, <2>4, <2>7, <3>1
    <3>2. CASE i # 1
      <4>1. i - 1 \in 1..Len(s) /\ (i - 1) + 1 = i
        BY SMT, <2>1, <2>2, <3>2
      <4>2. t[i] = s[i - 1] /\ r[i] = c[i - 1]
        BY <2>2, <2>3, <2>4, <4>1
      <4>. QED BY <1>2, <2>1, <2>3, <2>7, <4>1, <4>2 DEF DataKept
    <3>. QED BY <3>1, <3>2
  <2>9. Contents' = [Contents EXCEPT ![k] = r]
    BY <2>2, <2>3, <2>4, <2>5, <2>7, <2>8, ContentsPut
  <2>10. c # <<>>
    BY SMT, <2>3, <2>6
  <2>. QED BY <1>0, <1>2, <2>9, <2>10 DEF Abstract!PushFront, Abstract!Idle, Idle, Cursor, r, c
<1>. QED BY <1>1, <1>2 DEF PushFront

\* The first item of a queue is that of its head.
LEMMA FirstItem ==
  ASSUME WellLinked, NEW k \in Queues
  PROVE  /\ q[k].size = Len(order[k]) /\ (q[k].size = 0 <=> Contents[k] = <<>>)
         /\ q[k].size # 0 => Head(Contents[k]) = node[q[k].head].data
<1>1. /\ Contents[k] \in Seq(Items) /\ Len(Contents[k]) = Len(order[k])
      /\ \A i \in 1..Len(order[k]) : Contents[k][i] = node[order[k][i]].data
  BY ContentsSeq
<1>2. Ends(q[k], order[k]) /\ Len(order[k]) \in Nat /\ (order[k] = <<>> <=> Len(order[k]) = 0)
  BY Members
<1>3. q[k].size = Len(order[k]) /\ (q[k].size = 0 <=> Contents[k] = <<>>)
  BY SMT, <1>1, <1>2 DEF Ends
<1>4. ASSUME q[k].size # 0 PROVE Head(Contents[k]) = node[q[k].head].data
  <2>1. 1 \in 1..Len(order[k]) /\ q[k].head = order[k][1]
    BY SMT, <1>2, <1>3, <1>4 DEF Ends
  <2>2. Head(Contents[k]) = Contents[k][1]
    BY SMT, <1>1, <1>3, <1>4
  <2>. QED BY <1>1, <2>1, <2>2
<1>. QED BY <1>3, <1>4

\* dequeue_peek_front returns the first item.
LEMMA PeekFrontRefines ==
  ASSUME WellLinked, NEW k \in Queues, PeekFront(k)
  PROVE  Abstract!PeekFront(k)
<1>1. /\ halt = NULL /\ Idle(k) /\ out' = IF q[k].size = 0 THEN NULL ELSE node[q[k].head].data
      /\ order' = order /\ node' = node /\ iter' = iter /\ halt' = halt
  BY DEF PeekFront
<1>2. Contents' = Contents
  BY <1>1, ContentsSame
<1>. QED BY <1>1, <1>2, FirstItem DEF Abstract!PeekFront, Abstract!Idle, Idle, Cursor

\* dequeue_pop_front removes and returns the first item.
LEMMA PopFrontRefines ==
  ASSUME WellLinked, WellLinked', NEW k \in Queues, PopFront(k)
  PROVE  Abstract!PopFront(k)
<1>0. halt = NULL /\ Idle(k)
  BY DEF PopFront
<1>1. CASE q[k].size = 0 /\ out' = NULL /\ UNCHANGED <<q, node, live, iter, halt, order>>
  BY <1>0, <1>1, ContentsSame, FirstItem DEF Abstract!PopFront, Abstract!Idle, Idle, Cursor
<1>2. CASE q[k].size > 1 /\ node[q[k].head].next = NULL
  <2>1. /\ order[k] \in Seq(Nodes) /\ Len(order[k]) \in Nat /\ Ends(q[k], order[k])
        /\ \A i \in 1..Len(order[k]) : order[k][i] \in Nodes /\ Linked(node[order[k][i]], order[k], i)
    BY Members
  <2>2. 1 \in 1..Len(order[k]) /\ 2 \in 1..Len(order[k]) /\ q[k].head = order[k][1] /\ 1 # Len(order[k])
    BY SMT, <1>2, <2>1 DEF Ends
  <2>3. node[q[k].head].next = order[k][2]
    BY SMT, <2>1, <2>2 DEF Linked
  <2>. QED BY <1>2, <2>1, <2>2, <2>3, DequeAssumption
<1>3. ASSUME q[k].size # 0, TakeFront(k), out' = node[q[k].head].data,
             order' = [order EXCEPT ![k] = Tail(order[k])], iter' = iter, halt' = halt
      PROVE  Abstract!PopFront(k)
  <2> DEFINE s == order[k]
             t == Tail(s)
             c == Contents[k]
             r == Tail(c)
  <2>1. s \in Seq(Nodes) /\ s # <<>> /\ \A i \in 1..Len(s) : s[i] \in live
    BY <1>3, Members DEF Ends
  <2>2. t \in Seq(Nodes) /\ Len(t) = Len(s) - 1 /\ \A i \in 1..Len(t) : t[i] = s[i + 1]
    BY SMT, <2>1, Tailed
  <2>3. c \in Seq(Items) /\ Len(c) = Len(s) /\ \A i \in 1..Len(s) : c[i] = node[s[i]].data
    BY ContentsSeq
  <2>4. c # <<>> /\ Head(c) = node[q[k].head].data
    BY <1>3, FirstItem
  <2> HIDE DEF c
  <2>5. r \in Seq(Items) /\ Len(r) = Len(c) - 1 /\ \A i \in 1..Len(r) : r[i] = c[i + 1]
    BY SMT, <2>3, <2>4, Tailed
  <2>6. order' = [order EXCEPT ![k] = t]
    BY <1>3
  <2>7. \A i \in 1..Len(t) : t[i] \in live'
    <3>1. Chained(k)' /\ order'[k] = t
      BY <2>2, <2>6, OrderPut, Types DEF WellLinked
    <3>. QED BY <3>1 DEF Chained
  <2>8. DataKept
    BY <1>3, TakeFrontKeepsData
  <2> HIDE DEF s, t, r
  <2>9. ASSUME NEW i \in 1..Len(t) PROVE r[i] = node'[t[i]].data
    <3>1. i + 1 \in 1..Len(s) /\ i \in 1..Len(r)
      BY SMT, <2>1, <2>2, <2>3, <2>5
    <3>2. t[i] = s[i + 1] /\ r[i] = node[s[i + 1]].data
      BY <2>2, <2>3, <2>5, <3>1
    <3>. QED BY <2>1, <2>7, <2>8, <3>1, <3>2 DEF DataKept
  <2>10. Contents' = [Contents EXCEPT ![k] = r]
    BY <2>2, <2>3, <2>5, <2>6, <2>8, <2>9, ContentsPut
  <2>. QED BY <1>0, <1>3, <2>4, <2>10 DEF Abstract!PopFront, Abstract!Idle, Idle, Cursor, r, c
<1>. QED BY <1>1, <1>2, <1>3 DEF PopFront

\* dequeue_iterator puts the cursor in front of the first item.
LEMMA IteratorRefines ==
  ASSUME NEW k \in Queues, Iterator(k)
  PROVE  Abstract!Iterator(k)
<1>1. /\ halt = NULL /\ iter.q = NULL /\ out' = NULL
      /\ iter' = [q |-> k, current |-> q[k].head, passed |-> 0, fresh |-> FALSE]
      /\ order' = order /\ node' = node /\ halt' = halt
  BY DEF Iterator
<1>2. Contents' = Contents
  BY <1>1, ContentsSame
<1>. QED BY <1>1, <1>2 DEF Abstract!Iterator, Cursor

\* Giving the iterator up removes the cursor.
LEMMA IteratorDoneRefines ==
  ASSUME WellLinked, IteratorDone
  PROVE  Abstract!IteratorDone
<1>1. /\ halt = NULL /\ iter.q # NULL /\ iter.current = NULL /\ out' = NULL /\ iter' = NoIterator
      /\ order' = order /\ node' = node /\ halt' = halt
  BY DEF IteratorDone
<1>2. Contents' = Contents
  BY <1>1, ContentsSame
<1>3. iter.q \in Queues /\ iter.passed \in Nat
  BY <1>1 DEF WellLinked, TypeOK
<1>4. /\ Len(order[iter.q]) \in Nat /\ \A i \in 1..Len(order[iter.q]) : order[iter.q][i] \in Nodes
  BY <1>3, Members
<1>5. iter.passed = Len(order[iter.q])
  <2>1. /\ iter.passed <= Len(order[iter.q])
        /\ NULL = IF iter.passed = Len(order[iter.q]) THEN NULL ELSE order[iter.q][iter.passed + 1]
    BY <1>1 DEF WellLinked, Place
  <2>2. iter.passed # Len(order[iter.q]) => order[iter.q][iter.passed + 1] \in Nodes
    BY SMT, <1>3, <1>4, <2>1
  <2>. QED BY <2>1, <2>2, DequeAssumption
<1>6. Len(Contents[iter.q]) = Len(order[iter.q])
  BY <1>3, ContentsSeq
<1>7. Cursor.q = iter.q /\ Cursor.passed = iter.passed /\ Cursor' = Abstract!NoCursor
  BY <1>1 DEF Cursor, NoIterator, Abstract!NoCursor
<1>. QED BY <1>1, <1>2, <1>5, <1>6, <1>7 DEF Abstract!IteratorDone

\* The cursor of an iterator that has moved.
LEMMA CursorMoved ==
  ASSUME WellLinked, WellLinked', NEW d \in Nat, NEW e \in BOOLEAN,
         iter'.q = iter.q, iter'.passed = d, iter'.fresh = e
  PROVE  /\ Cursor.q = iter.q /\ Cursor.passed = iter.passed /\ Cursor.fresh = iter.fresh
         /\ Cursor' = [Cursor EXCEPT !.passed = d, !.fresh = e]
<1> DEFINE T == [q : Queues \cup {NULL}, passed : Nat, fresh : BOOLEAN]
<1>1. Cursor \in T /\ Cursor' \in T
  BY DEF WellLinked, TypeOK, Cursor
<1>2. /\ Cursor.q = iter.q /\ Cursor.passed = iter.passed /\ Cursor.fresh = iter.fresh
      /\ Cursor'.q = iter.q /\ Cursor'.passed = d /\ Cursor'.fresh = e
  BY DEF Cursor
<1>. QED BY <1>1, <1>2

\* dequeue_iterator_next returns the item behind the cursor.
LEMMA IteratorNextRefines ==
  ASSUME WellLinked, WellLinked', IteratorNext
  PROVE  Abstract!IteratorNext
<1> DEFINE s == order[iter.q]
<1>1. /\ halt = NULL /\ iter.q # NULL /\ iter.current # NULL /\ out' = node[iter.current].data
      /\ iter' = [iter EXCEPT !.current = node[iter.current].next, !.passed = iter.passed + 1, !.fresh = TRUE]
      /\ order' = order /\ node' = node /\ halt' = halt
  BY DEF IteratorNext
<1>2. Contents' = Contents
  BY <1>1, ContentsSame
<1>3. iter.q \in Queues /\ iter.passed \in Nat
  BY <1>1 DEF WellLinked, TypeOK
<1>4. Len(s) \in Nat
  BY <1>3, Members
<1>5. /\ iter.passed <= Len(s)
      /\ iter.current = IF iter.passed = Len(s) THEN NULL ELSE s[iter.passed + 1]
  BY <1>1 DEF WellLinked, Place
<1>6. iter.passed < Len(s) /\ iter.passed + 1 \in 1..Len(s) /\ iter.current = s[iter.passed + 1]
  BY SMT, <1>1, <1>3, <1>4, <1>5
<1>7. Len(Contents[iter.q]) = Len(s) /\ Contents[iter.q][iter.passed + 1] = node[iter.current].data
  BY <1>3, <1>6, ContentsSeq
<1>8. /\ Cursor.q = iter.q /\ Cursor.passed = iter.passed
      /\ Cursor' = [Cursor EXCEPT !.passed = Cursor.passed + 1, !.fresh = TRUE]
  <2>1. /\ iter \in [q : Queues \cup {NULL}, current : Nodes \cup {NULL}, passed : Nat, fresh : BOOLEAN]
    BY DEF WellLinked, TypeOK
  <2>2. iter'.q = iter.q /\ iter'.passed = iter.passed + 1 /\ iter'.fresh = TRUE
    BY <1>1, <2>1
  <2>3. iter.passed + 1 \in Nat
    BY SMT, <1>3
  <2>. QED BY <2>2, <2>3, CursorMoved
<1> HIDE DEF s
<1>. QED BY <1>1, <1>2, <1>6, <1>7, <1>8 DEF Abstract!IteratorNext

\* dequeue_iterator_delete removes the item in front of the cursor.
LEMMA IteratorDeleteRefines ==
  ASSUME WellLinked, WellLinked', IteratorDelete
  PROVE  Abstract!IteratorDelete
<1> DEFINE k == iter.q
           s == order[k]
           p == iter.passed
           t == Without(s, p)
           c == Contents[k]
           r == Without(c, p)
<1>1. /\ halt = NULL /\ k # NULL /\ iter.fresh /\ out' = NULL /\ halt' = halt
      /\ CASE q[k].size = 1 -> TakeFront(k)
           [] q[k].size > 1 /\ Target(k) # NULL -> Unlink(k, Target(k))
           [] OTHER -> UNCHANGED <<q, node, live>>
      /\ order' = [order EXCEPT ![k] = t]
      /\ iter' = [iter EXCEPT !.passed = p - 1, !.fresh = FALSE]
  BY DEF IteratorDelete, Without
<1>2. iter \in [q : Queues \cup {NULL}, current : Nodes \cup {NULL}, passed : Nat, fresh : BOOLEAN]
  BY DEF WellLinked, TypeOK
<1>3. k \in Queues /\ p \in Nat
  BY <1>1, <1>2
<1>4. /\ s \in Seq(Nodes) /\ Len(s) \in Nat
      /\ \A i \in 1..Len(s) : s[i] \in live
  BY <1>3, Members
<1>5. p \in 1..Len(s)
  <2>1. p <= Len(s) /\ p > 0
    BY <1>1 DEF WellLinked, Place
  <2>. QED BY SMT, <1>3, <1>4, <2>1
<1>6. DataKept
  <2>1. CASE TakeFront(k)
    BY <1>3, <2>1, TakeFrontKeepsData
  <2>2. CASE Unlink(k, Target(k))
    <3>1. node \in [Nodes -> Cells] /\ live \subseteq Nodes
      BY Types DEF WellLinked
    <3>. QED BY <2>2, <3>1 DEF Unlink, Node, DataKept, Cells
  <2>3. CASE UNCHANGED <<q, node, live>>
    BY <2>3 DEF DataKept
  <2>4. TakeFront(k) \/ Unlink(k, Target(k)) \/ UNCHANGED <<q, node, live>>
    <3>1. q[k].size \in Nat
      BY <1>3 DEF WellLinked, TypeOK
    <3>. QED BY <1>1, <3>1
  <2>. QED BY <2>1, <2>2, <2>3, <2>4
<1>7. c \in Seq(Items) /\ Len(c) = Len(s) /\ \A i \in 1..Len(s) : c[i] = node[s[i]].data
  BY <1>3, ContentsSeq
<1>8. t = Without(s, p) /\ r = Without(c, p)
  OBVIOUS
<1>9. r = SubSeq(Contents[Cursor.q], 1, Cursor.passed - 1)
          \o SubSeq(Contents[Cursor.q], Cursor.passed + 1, Len(Contents[Cursor.q]))
  BY DEF Without, Cursor
<1>10. /\ Cursor.q = k /\ Cursor.fresh
       /\ Cursor' = [Cursor EXCEPT !.passed = Cursor.passed - 1, !.fresh = FALSE]
  <2>1. iter'.q = iter.q /\ iter'.passed = iter.passed - 1 /\ iter'.fresh = FALSE
    BY <1>1, <1>2
  <2>2. iter.passed - 1 \in Nat
    BY SMT, <1>3, <1>5
  <2>. QED BY <1>1, <2>1, <2>2, CursorMoved
<1>11. ASSUME NEW l \in Queues, order'[l] = t PROVE \A i \in 1..Len(t) : t[i] \in live'
  <2>1. Chained(l)'
    BY DEF WellLinked
  <2>. QED BY <1>11, <2>1 DEF Chained
<1> HIDE DEF k, s, p, t, c, r
<1>12. /\ t \in Seq(Nodes) /\ Len(t) = Len(s) - 1
       /\ \A i \in 1..Len(t) : t[i] = IF i < p THEN s[i] ELSE s[i + 1]
  BY SMT, <1>4, <1>5, <1>8, Deleted
<1>13. /\ r \in Seq(Items) /\ Len(r) = Len(c) - 1
       /\ \A i \in 1..Len(r) : r[i] = IF i < p THEN c[i] ELSE c[i + 1]
  <2>1. p \in 1..Len(c)
    BY <1>5, <1>7
  <2>. QED BY SMT, <1>7, <1>8, <2>1, Deleted
<1>14. \A i \in 1..Len(t) : t[i] \in live'
  BY <1>1, <1>3, <1>11, <1>12, OrderPut, Types DEF WellLinked
<1>15. ASSUME NEW i \in 1..Len(t) PROVE r[i] = node'[t[i]].data
  <2>1. i \in 1..Len(s) /\ i + 1 \in 1..Len(s) /\ i \in 1..Len(r)
    BY SMT, <1>4, <1>7, <1>12, <1>13
  <2>2. t[i] \in live /\ r[i] = node[t[i]].data
    BY <1>4, <1>7, <1>12, <1>13, <2>1
  <2>. QED BY <1>6, <1>14, <2>2 DEF DataKept
<1>16. Contents' = [Contents EXCEPT ![k] = r]
  <2>1. Len(r) = Len(t)
    BY <1>7, <1>12, <1>13
  <2>2. /\ k \in Queues /\ t \in Seq(Nodes) /\ order' = [order EXCEPT ![k] = t] /\ r \in Seq(Items)
    BY <1>1, <1>3, <1>12, <1>13
  <2>3. \A i \in 1..Len(t) : r[i] = node'[t[i]].data
    BY <1>15
  <2>. QED BY <1>6, <2>1, <2>2, <2>3, ContentsPut
<1>. QED BY <1>1, <1>9, <1>10, <1>16 DEF Abstract!IteratorDelete

\* The queues start empty.
LEMMA InitRefines == Init => Abstract!Init
BY SMT DEF Init, NoIterator, Contents, Cursor, Abstract!Init, Abstract!NoCursor

\* Every step is one of the sequences or leaves them alone.
LEMMA StepRefines == WellLinked /\ WellLinked' /\ [Next]_vars => [Abstract!Next]_(Abstract!vars)
<1> SUFFICES ASSUME WellLinked, WellLinked', [Next]_vars PROVE [Abstract!Next]_(Abstract!vars)
  OBVIOUS
<1>1. CASE UNCHANGED vars
  BY <1>1, ContentsSame DEF vars, Abstract!vars, Cursor
<1>2. ASSUME NEW k \in Queues, NEW x \in Items, PushBack(k, x) \/ PushFront(k, x) PROVE Abstract!Next
  BY <1>2, PushBackRefines, PushFrontRefines DEF Abstract!Next
<1>3. ASSUME NEW k \in Queues, PeekFront(k) \/ PopFront(k) \/ Iterator(k) PROVE Abstract!Next
  BY <1>3, PeekFrontRefines, PopFrontRefines, IteratorRefines DEF Abstract!Next
<1>4. CASE IteratorNext \/ IteratorDelete \/ IteratorDone
  BY <1>4, IteratorNextRefines, IteratorDeleteRefines, IteratorDoneRefines DEF Abstract!Next
<1>5. CASE PopBack
  BY <1>5, ContentsSame DEF PopBack, Stop, Abstract!Stop, Abstract!Next, Cursor
<1>. QED BY <1>1, <1>2, <1>3, <1>4, <1>5 DEF Next

\* The linked queues are sequences: what queue.c pushes, pops and deletes
\* behind an iterator is what module DequeSpec says, and pop_front never meets
\* a NULL head in a queue that is not empty.
THEOREM QueuesAreSequences == Spec => Implements
<1>1. Init => Abstract!Init
  BY InitRefines
<1>2. WellLinked /\ WellLinked' /\ [Next]_vars => [Abstract!Next]_(Abstract!vars)
  BY StepRefines
<1>. QED BY <1>1, <1>2, LinksHold, PTL DEF Spec, Implements, Abstract!Spec
=============================================================================
