--------------------------- MODULE KmallocProofs ----------------------------
(***************************************************************************)
(* The kernel heap of module Kmalloc, for every page size, header size,    *)
(* least block, set of pages and number of allocations.                    *)
(***************************************************************************)
EXTENDS Kmalloc, WellFoundedInduction, TLAPS

\* The prover of the steps that name no other.
USE ZenonT(30)

-----------------------------------------------------------------------------
(* Sequences and sets of numbers                                           *)

\* Every set of numbers has a least one.
LEMMA Least == ASSUME NEW T \in SUBSET Nat, T # {} PROVE \E x \in T : \A y \in T : x <= y
<1> DEFINE R == {ss \in Nat \X Nat : ss[1] < ss[2]}
<1>1. IsWellFoundedOn(R, Nat)
  BY NatLessThanWellFounded DEF OpToRel
<1>2. \E x \in T : \A y \in T : ~(<<y, x>> \in R)
  <2> HIDE DEF R
  <2>. QED BY <1>1, WFMin
<1>3. PICK x \in T : \A y \in T : ~(<<y, x>> \in R)
  BY <1>2
<1>4. ASSUME NEW y \in T PROVE x <= y
  <2>1. x \in Nat /\ y \in Nat /\ <<y, x>> \notin R
    BY <1>3
  <2>2. ~(y < x)
    BY SMT, <2>1
  <2>. QED BY SMT, <2>1, <2>2
<1>. QED BY <1>4

\* Min of the model is the least element.
LEMMA MinIs == ASSUME NEW T \in SUBSET Nat, T # {} PROVE Min(T) \in T /\ \A y \in T : Min(T) <= y
BY Least DEF Min

\* A list without its n-th block.
LEMMA Unlinking ==
  ASSUME NEW S, NEW l \in Seq(S), NEW n \in 1..Len(l)
  PROVE  /\ RemoveAt(l, n) \in Seq(S) /\ Len(RemoveAt(l, n)) = Len(l) - 1
         /\ \A i \in 1 .. Len(l) - 1 : RemoveAt(l, n)[i] = l[IF i < n THEN i ELSE i + 1]
<1> DEFINE a == SubSeq(l, 1, n - 1)
           b == SubSeq(l, n + 1, Len(l))
<1>1. a \in Seq(S) /\ Len(a) = n - 1 /\ \A i \in 1 .. n - 1 : a[i] = l[i]
  BY SMT
<1>2. b \in Seq(S) /\ Len(b) = Len(l) - n /\ \A i \in 1 .. Len(l) - n : b[i] = l[n + i]
  BY SMT
<1> HIDE DEF a, b
<1>3. a \o b \in Seq(S) /\ Len(a \o b) = Len(l) - 1
  <2>1. a \in Seq(S) /\ b \in Seq(S) /\ Len(a) = n - 1 /\ Len(b) = Len(l) - n
    BY <1>1, <1>2
  <2>. QED BY SMT, <2>1
<1>4. ASSUME NEW i \in 1 .. Len(l) - 1 PROVE (a \o b)[i] = l[IF i < n THEN i ELSE i + 1]
  <2>1. CASE i < n
    BY SMT, <1>1, <1>2, <2>1
  <2>2. CASE ~(i < n)
    <3>1. (a \o b)[i] = b[i - (n - 1)]
      BY SMT, <1>1, <1>2, <2>2
    <3>2. i - (n - 1) \in 1 .. Len(l) - n /\ n + (i - (n - 1)) = i + 1
      BY SMT, <2>2
    <3>. QED BY <1>2, <2>2, <3>1, <3>2
  <2>. QED BY <2>1, <2>2
<1>. QED BY <1>3, <1>4 DEF RemoveAt, a, b

\* A list with a block put at place n.
LEMMA Linking ==
  ASSUME NEW S, NEW l \in Seq(S), NEW n \in 1 .. Len(l) + 1, NEW e \in S
  PROVE  /\ InsertAt(l, n, e) \in Seq(S) /\ Len(InsertAt(l, n, e)) = Len(l) + 1
         /\ \A i \in 1 .. n - 1 : InsertAt(l, n, e)[i] = l[i]
         /\ InsertAt(l, n, e)[n] = e
         /\ \A i \in n + 1 .. Len(l) + 1 : InsertAt(l, n, e)[i] = l[i - 1]
<1> DEFINE a == SubSeq(l, 1, n - 1)
           b == SubSeq(l, n, Len(l))
           c == a \o <<e>>
<1>1. a \in Seq(S) /\ Len(a) = n - 1 /\ \A i \in 1 .. n - 1 : a[i] = l[i]
  BY SMT
<1>2. b \in Seq(S) /\ Len(b) = Len(l) + 1 - n /\ \A i \in 1 .. Len(l) + 1 - n : b[i] = l[n - 1 + i]
  BY SMT
<1> HIDE DEF a, b
<1>3. c \in Seq(S) /\ Len(c) = n /\ c[n] = e /\ \A i \in 1 .. n - 1 : c[i] = a[i]
  BY SMT, <1>1
<1> HIDE DEF c
<1>4. /\ c \o b \in Seq(S) /\ Len(c \o b) = Len(l) + 1
      /\ \A i \in 1 .. n : (c \o b)[i] = c[i]
  BY SMT, <1>2, <1>3
<1>5. ASSUME NEW i \in n + 1 .. Len(l) + 1 PROVE (c \o b)[i] = l[i - 1]
  <2>1. (c \o b)[i] = b[i - n]
    BY SMT, <1>2, <1>3
  <2>2. i - n \in 1 .. Len(l) + 1 - n /\ n - 1 + (i - n) = i - 1
    BY SMT
  <2>. QED BY <1>2, <2>1, <2>2
<1>6. \A i \in 1 .. n - 1 : i \in 1 .. n
  BY SMT
<1>7. n \in 1 .. n
  BY SMT
<1>8. InsertAt(l, n, e) = c \o b
  BY DEF InsertAt, a, b, c
<1>. QED BY <1>1, <1>3, <1>4, <1>5, <1>6, <1>7, <1>8

-----------------------------------------------------------------------------
(* The free list                                                           *)

Blocks == [at : Nat, size : Nat]
Apart(b, c) == End(b) <= c.at \/ End(c) <= b.at

\* What kmalloc and kfree keep the free list like
Heap(l) ==
  /\ l \in Seq(Blocks)
  /\ \A i, j \in 1..Len(l) : i # j => Apart(l[i], l[j])
  /\ \A i, j \in 1..Len(l) : End(l[i]) # l[j].at
  /\ \A i, j \in 1..Len(l) : i < j => l[i].size <= l[j].size

\* The sizes of headers, blocks and pages.
LEMMA HeapSizes ==
  /\ META \in Nat /\ META >= 1 /\ MinUser \in Nat /\ MinUser >= 1 /\ PG_SIZE \in Nat /\ PG_SIZE >= 1
  /\ META + MinUser <= PG_SIZE /\ NULL \notin Blocks
BY SMT, HeapAssumption DEF Blocks

\* Where a block starts and ends.
LEMMA Ends ==
  ASSUME NEW b \in Blocks
  PROVE  /\ b.at \in Nat /\ b.size \in Nat
         /\ End(b) = b.at + META + b.size /\ End(b) \in Nat /\ b.at < End(b)
<1>1. b.at \in Nat /\ b.size \in Nat
  BY DEF Blocks
<1>. QED BY SMT, <1>1, HeapSizes DEF End

\* A block is not apart from itself.
LEMMA ApartDiffer ==
  ASSUME NEW b \in Blocks, NEW c \in Blocks, Apart(b, c) PROVE b # c /\ Apart(c, b)
<1>1. ~(End(b) <= b.at)
  BY SMT, Ends
<1>. QED BY <1>1 DEF Apart

\* The blocks on a list as a set: two of them are apart and do not touch.
LEMMA HeapSet ==
  ASSUME NEW l, Heap(l)
  PROVE  /\ ToSet(l) \subseteq Blocks /\ DOMAIN l = 1..Len(l)
         /\ \A i \in 1..Len(l) : l[i] \in ToSet(l) /\ l[i] \in Blocks
         /\ \A b \in ToSet(l) : \E i \in 1..Len(l) : l[i] = b
         /\ \A b, c \in ToSet(l) : (b # c => Apart(b, c)) /\ End(b) # c.at
<1>1. l \in Seq(Blocks) /\ DOMAIN l = 1..Len(l)
  BY SMT DEF Heap
<1>2. \A i \in 1..Len(l) : l[i] \in Blocks
  BY SMT, <1>1
<1>3. /\ \A i \in 1..Len(l) : l[i] \in ToSet(l)
      /\ \A b \in ToSet(l) : \E i \in 1..Len(l) : l[i] = b
  BY <1>1 DEF ToSet
<1>4. ToSet(l) \subseteq Blocks
  BY <1>2, <1>3
<1>5. ASSUME NEW b \in ToSet(l), NEW c \in ToSet(l) PROVE (b # c => Apart(b, c)) /\ End(b) # c.at
  <2>1. PICK i \in 1..Len(l) : l[i] = b
    BY <1>3
  <2>2. PICK j \in 1..Len(l) : l[j] = c
    BY <1>3
  <2>3. (i # j => Apart(l[i], l[j])) /\ End(l[i]) # l[j].at
    BY DEF Heap
  <2>. QED BY <2>1, <2>2, <2>3
<1>. QED BY <1>1, <1>2, <1>3, <1>4, <1>5

\* Unlinking a block keeps what the free list is like.
LEMMA UnlinkedHeap ==
  ASSUME NEW l, Heap(l), NEW n \in 1..Len(l)
  PROVE  Heap(RemoveAt(l, n)) /\ ToSet(RemoveAt(l, n)) = ToSet(l) \ {l[n]}
<1> DEFINE m == RemoveAt(l, n)
           was(i) == IF i < n THEN i ELSE i + 1
<1>0. l \in Seq(Blocks) /\ Len(l) \in Nat
  BY SMT DEF Heap
<1>1. /\ m \in Seq(Blocks) /\ Len(m) = Len(l) - 1
      /\ \A i \in 1 .. Len(l) - 1 : m[i] = l[was(i)]
  BY <1>0, Unlinking
<1> HIDE DEF m
<1>2. /\ DOMAIN m = 1..Len(m) /\ DOMAIN l = 1..Len(l)
      /\ \A i \in 1..Len(m) : m[i] = l[was(i)]
  <2>1. DOMAIN m = 1..Len(m) /\ DOMAIN l = 1..Len(l)
    BY SMT, <1>0, <1>1
  <2>. QED BY <1>1, <2>1
<1>3. /\ \A i \in 1..Len(m) : was(i) \in 1..Len(l) /\ was(i) # n
      /\ \A i, j \in 1..Len(m) : i # j => was(i) # was(j)
      /\ \A i, j \in 1..Len(m) : i < j => was(i) < was(j)
  BY SMT, <1>0, <1>1
<1>4. ASSUME NEW j \in 1..Len(l), j # n PROVE \E i \in 1..Len(m) : was(i) = j
  <2>1. CASE j < n
    <3>1. j \in 1..Len(m) /\ was(j) = j
      BY SMT, <1>0, <1>1, <2>1
    <3>. QED BY <3>1
  <2>2. CASE j > n
    <3>1. j - 1 \in 1..Len(m) /\ was(j - 1) = j
      BY SMT, <1>0, <1>1, <2>2
    <3>. QED BY <3>1
  <2>. QED BY SMT, <1>0, <1>4, <2>1, <2>2
<1> HIDE DEF was
<1>5. Heap(m)
  <2>1. ASSUME NEW i \in 1..Len(m), NEW j \in 1..Len(m)
        PROVE  /\ i # j => Apart(m[i], m[j])
               /\ End(m[i]) # m[j].at
               /\ i < j => m[i].size <= m[j].size
    <3>1. m[i] = l[was(i)] /\ m[j] = l[was(j)] /\ was(i) \in 1..Len(l) /\ was(j) \in 1..Len(l)
      BY <1>2, <1>3
    <3>. QED BY <1>3, <3>1 DEF Heap
  <2>. QED BY <1>1, <2>1 DEF Heap
<1>6. ToSet(m) = ToSet(l) \ {l[n]}
  <2>1. \A i \in 1..Len(m) : m[i] \in ToSet(l) /\ m[i] # l[n]
    <3>1. ASSUME NEW i \in 1..Len(m) PROVE m[i] \in ToSet(l) /\ m[i] # l[n]
      <4>1. m[i] = l[was(i)] /\ was(i) \in 1..Len(l) /\ was(i) # n
        BY <1>2, <1>3
      <4>2. Apart(l[was(i)], l[n]) /\ l[was(i)] \in Blocks /\ l[n] \in Blocks
        BY <4>1, HeapSet DEF Heap
      <4>. QED BY <4>1, <4>2, ApartDiffer, HeapSet
    <3>. QED BY <3>1
  <2>2. \A j \in 1..Len(l) : j # n => l[j] \in ToSet(m)
    BY <1>2, <1>4 DEF ToSet
  <2>. QED BY <1>2, <2>1, <2>2 DEF ToSet
<1>. QED BY <1>5, <1>6 DEF m

\* The second loop of add_block
LEMMA LinkedHeap ==
  ASSUME NEW l, Heap(l), NEW b \in Blocks,
         \A c \in ToSet(l) : Apart(c, b) /\ End(c) # b.at /\ End(b) # c.at
  PROVE  Heap(Insert(l, b)) /\ ToSet(Insert(l, b)) = ToSet(l) \cup {b}
<1>0. l \in Seq(Blocks) /\ Len(l) \in Nat /\ DOMAIN l = 1..Len(l)
  BY SMTT(30) DEF Heap
<1> DEFINE T == {k \in DOMAIN l : l[k].size >= b.size} \cup {Len(l) + 1}
           n == Min(T)
           m == Insert(l, b)
<1>1. n \in 1 .. Len(l) + 1 /\ (n # Len(l) + 1 => l[n].size >= b.size)
      /\ \A k \in 1 .. n - 1 : k \in 1..Len(l) /\ ~(l[k].size >= b.size)
  <2>1. T \in SUBSET Nat /\ T # {} /\ T \subseteq 1 .. Len(l) + 1
    BY SMTT(30), <1>0
  <2>2. n \in T /\ \A y \in T : n <= y
    <3> HIDE DEF T
    <3>. QED BY <2>1, MinIs
  <2>3. ASSUME NEW k \in 1 .. n - 1 PROVE k \in 1..Len(l) /\ ~(l[k].size >= b.size)
    <3> HIDE DEF n
    <3>1. n \in 1 .. Len(l) + 1
      BY <2>1, <2>2
    <3>2. k \in 1..Len(l) /\ ~(n <= k)
      BY SMTT(30), <1>0, <3>1
    <3>. QED BY <1>0, <2>2, <3>2
  <2> HIDE DEF n
  <2>. QED BY <1>0, <2>1, <2>2, <2>3
<1>2. /\ m \in Seq(Blocks) /\ Len(m) = Len(l) + 1
      /\ \A i \in 1 .. n - 1 : m[i] = l[i]
      /\ m[n] = b
      /\ \A i \in n + 1 .. Len(l) + 1 : m[i] = l[i - 1]
  <2>1. m = InsertAt(l, n, b)
    BY DEF Insert
  <2>2. n \in 1 .. Len(l) + 1 /\ l \in Seq(Blocks) /\ b \in Blocks
    BY <1>0, <1>1
  <2> HIDE DEF n, m
  <2>3. /\ InsertAt(l, n, b) \in Seq(Blocks) /\ Len(InsertAt(l, n, b)) = Len(l) + 1
        /\ \A i \in 1 .. n - 1 : InsertAt(l, n, b)[i] = l[i]
        /\ InsertAt(l, n, b)[n] = b
        /\ \A i \in n + 1 .. Len(l) + 1 : InsertAt(l, n, b)[i] = l[i - 1]
    BY SMTT(30), <2>2, Linking
  <2>. QED BY <2>1, <2>3
<1> HIDE DEF T, n, m
<1> DEFINE was(i) == IF i < n THEN i ELSE i - 1
<1>3. DOMAIN m = 1..Len(m) /\ n \in 1..Len(m)
  BY SMTT(30), <1>0, <1>1, <1>2
<1>4. ASSUME NEW i \in 1..Len(m), i # n PROVE m[i] = l[was(i)] /\ was(i) \in 1..Len(l)
  <2>1. i \in 1 .. n - 1 \/ i \in n + 1 .. Len(l) + 1
    BY SMTT(30), <1>0, <1>1, <1>2, <1>4
  <2>2. CASE i \in 1 .. n - 1
    <3>1. was(i) = i /\ i \in 1..Len(l)
      BY SMTT(30), <1>0, <1>1, <2>2
    <3>. QED BY <1>2, <2>2, <3>1
  <2>3. CASE i \in n + 1 .. Len(l) + 1
    <3>1. was(i) = i - 1 /\ i - 1 \in 1..Len(l)
      BY SMTT(30), <1>0, <1>1, <2>3
    <3>. QED BY <1>2, <2>3, <3>1
  <2>. QED BY <2>1, <2>2, <2>3
<1>5. /\ \A i, j \in 1..Len(m) : i # n /\ j # n /\ i # j => was(i) # was(j)
      /\ \A i, j \in 1..Len(m) : i # n /\ j # n /\ i < j => was(i) < was(j)
      /\ \A i \in 1..Len(m) : i < n => was(i) \in 1 .. n - 1
      /\ \A i \in 1..Len(m) : n < i => was(i) = n \/ n < was(i)
  BY SMTT(30), <1>0, <1>1, <1>2
<1>6. ASSUME NEW j \in 1..Len(l) PROVE \E i \in 1..Len(m) : i # n /\ was(i) = j
  <2>1. CASE j < n
    <3>1. j \in 1..Len(m) /\ was(j) = j /\ j # n
      BY SMTT(30), <1>0, <1>1, <1>2, <2>1
    <3>. QED BY <3>1
  <2>2. CASE ~(j < n)
    <3>1. j + 1 \in 1..Len(m) /\ was(j + 1) = j /\ j + 1 # n
      BY SMTT(30), <1>0, <1>1, <1>2, <2>2
    <3>. QED BY <3>1
  <2>. QED BY <2>1, <2>2
<1> HIDE DEF was
<1>7. \A i \in 1..Len(l) : l[i] \in Blocks /\ Apart(l[i], b) /\ Apart(b, l[i]) /\ End(l[i]) # b.at /\ End(b) # l[i].at
  BY HeapSet, ApartDiffer
<1>8. \A i \in 1..Len(l) : l[i].size \in Nat /\ b.size \in Nat
  BY <1>7, Ends
<1>9. \A i \in 1..Len(m) : (i < n => m[i].size <= b.size) /\ (n < i => b.size <= m[i].size)
  <2> SUFFICES ASSUME NEW i \in 1..Len(m)
               PROVE  (i < n => m[i].size <= b.size) /\ (n < i => b.size <= m[i].size)
    OBVIOUS
  <2>1. CASE i < n
    <3>1. i # n /\ ~(n < i)
      BY SMTT(30), <1>1, <2>1
    <3>2. m[i] = l[was(i)] /\ was(i) \in 1..Len(l) /\ ~(l[was(i)].size >= b.size)
      BY <1>1, <1>4, <1>5, <2>1, <3>1
    <3>3. m[i].size \in Nat /\ b.size \in Nat /\ ~(m[i].size >= b.size)
      BY <1>8, <3>2
    <3>. QED BY SMTT(30), <3>1, <3>3
  <2>2. CASE n < i
    <3>1. i # n /\ ~(i < n)
      BY SMTT(30), <1>1, <2>2
    <3>2. m[i] = l[was(i)] /\ was(i) \in 1..Len(l) /\ (was(i) = n \/ n < was(i))
      BY <1>4, <1>5, <2>2, <3>1
    <3>3. n # Len(l) + 1 /\ n \in 1..Len(l)
      BY SMTT(30), <1>0, <1>1, <3>2
    <3>4. l[n].size >= b.size /\ l[n].size <= l[was(i)].size
      <4>1. CASE was(i) = n
        <5>1. l[n].size <= l[n].size
          BY SMTT(30), <1>8, <3>3
        <5>. QED BY <1>1, <3>3, <4>1, <5>1
      <4>2. CASE n < was(i)
        BY <1>1, <3>2, <3>3, <4>2 DEF Heap
      <4>. QED BY <3>2, <4>1, <4>2
    <3>5. l[n].size \in Nat /\ b.size \in Nat /\ m[i].size \in Nat /\ m[i] = l[was(i)]
      BY <1>8, <3>2, <3>3
    <3>. QED BY SMTT(30), <3>1, <3>4, <3>5
  <2>. QED BY <2>1, <2>2
<1>10. \A i \in 1..Len(m) : m[i].size <= m[i].size
  BY SMTT(30), <1>2, Ends
<1>11. ~(End(b) = b.at)
  BY SMTT(30), Ends
<1>12. Heap(m)
  <2>1. ASSUME NEW i \in 1..Len(m), NEW j \in 1..Len(m)
        PROVE  /\ i # j => Apart(m[i], m[j])
               /\ End(m[i]) # m[j].at
               /\ i < j => m[i].size <= m[j].size
    <3>1. CASE i = n /\ j = n
      <4>1. ~(n < n)
        BY SMTT(30), <1>1
      <4>. QED BY <1>2, <1>11, <3>1, <4>1
    <3>2. CASE i = n /\ j # n
      <4>1. m[i] = b /\ m[j] = l[was(j)] /\ was(j) \in 1..Len(l)
        BY <1>2, <1>4, <3>2
      <4>2. Apart(b, l[was(j)]) /\ End(b) # l[was(j)].at
        BY <1>7, <4>1
      <4>3. ASSUME i < j PROVE b.size <= m[j].size
        <5>1. n < j
          BY <3>2, <4>3
        <5>. QED BY <1>9, <5>1
      <4>. QED BY <4>1, <4>2, <4>3
    <3>3. CASE i # n /\ j = n
      <4>1. m[j] = b /\ m[i] = l[was(i)] /\ was(i) \in 1..Len(l)
        BY <1>2, <1>4, <3>3
      <4>2. Apart(l[was(i)], b) /\ End(l[was(i)]) # b.at
        BY <1>7, <4>1
      <4>3. ASSUME i < j PROVE m[i].size <= b.size
        <5>1. i < n
          BY <3>3, <4>3
        <5>. QED BY <1>9, <5>1
      <4>. QED BY <4>1, <4>2, <4>3
    <3>4. CASE i # n /\ j # n
      <4>1. m[i] = l[was(i)] /\ m[j] = l[was(j)] /\ was(i) \in 1..Len(l) /\ was(j) \in 1..Len(l)
        BY <1>4, <3>4
      <4>. QED BY <1>5, <3>4, <4>1 DEF Heap
    <3>. QED BY <3>1, <3>2, <3>3, <3>4
  <2>. QED BY <1>2, <2>1 DEF Heap
<1>13. ToSet(m) = ToSet(l) \cup {b}
  <2>1. \A i \in 1..Len(m) : m[i] \in ToSet(l) \cup {b}
    BY <1>0, <1>2, <1>4 DEF ToSet
  <2>2. ASSUME NEW j \in 1..Len(l) PROVE l[j] \in ToSet(m)
    <3>1. PICK i \in 1..Len(m) : i # n /\ was(i) = j
      BY <1>6
    <3>2. m[i] = l[j] /\ i \in DOMAIN m
      BY <1>3, <1>4, <3>1
    <3>. QED BY <3>2 DEF ToSet
  <2>3. b \in ToSet(m)
    BY <1>2, <1>3 DEF ToSet
  <2>. QED BY <1>0, <1>3, <2>1, <2>2, <2>3 DEF ToSet
<1>. QED BY <1>12, <1>13 DEF m

-----------------------------------------------------------------------------
(* Merging                                                                 *)

Cover(S) == UNION {Bytes(b) : b \in S}

\* Two blocks that touch, as one
LEMMA Joined ==
  ASSUME NEW f \in Blocks, NEW g \in Blocks, End(f) = g.at,
         NEW m, m = Block(f.at, f.size + (g.size + META))
  PROVE  /\ m \in Blocks /\ m.at = f.at /\ End(m) = End(g) /\ m.size >= f.size /\ m.size >= g.size
         /\ Bytes(m) = Bytes(f) \cup Bytes(g)
         /\ \A c \in Blocks : Apart(c, f) /\ Apart(c, g) => Apart(c, m)
<1>1. m.at = f.at /\ m.size = f.size + (g.size + META)
  BY DEF Block
<1>2. /\ f.at \in Nat /\ f.size \in Nat /\ End(f) = f.at + META + f.size /\ End(f) \in Nat /\ f.at < End(f)
      /\ g.at \in Nat /\ g.size \in Nat /\ End(g) = g.at + META + g.size /\ End(g) \in Nat /\ g.at < End(g)
  BY Ends
<1>3. m.at \in Nat /\ m.size \in Nat /\ m.size >= f.size /\ m.size >= g.size
  BY SMTT(30), <1>1, <1>2, HeapSizes
<1>4. m \in Blocks
  BY <1>1, <1>3 DEF Block, Blocks
<1>5. End(m) = End(g)
  BY SMTT(30), <1>1, <1>2, HeapSizes DEF End
<1>6. Bytes(m) = Bytes(f) \cup Bytes(g)
  <2>1. Bytes(m) = f.at .. End(g) - 1 /\ Bytes(f) = f.at .. g.at - 1 /\ Bytes(g) = g.at .. End(g) - 1
    BY <1>1, <1>5 DEF Bytes
  <2>2. ASSUME NEW x, NEW u \in Nat, NEW v \in Nat, NEW w \in Nat, u < v, v < w
        PROVE  x \in u .. w - 1 <=> x \in u .. v - 1 \/ x \in v .. w - 1
    BY SMTT(30), <2>2
  <2>3. \A x : x \in f.at .. End(g) - 1 <=> x \in f.at .. g.at - 1 \/ x \in g.at .. End(g) - 1
    BY SMTT(30), <1>2, <2>2
  <2>. QED BY <2>1, <2>3
<1>7. ASSUME NEW c \in Blocks, Apart(c, f), Apart(c, g) PROVE Apart(c, m)
  <2>1. c.at \in Nat /\ End(c) \in Nat /\ c.at < End(c)
    BY Ends
  <2>2. /\ End(c) <= f.at \/ g.at <= c.at
        /\ End(c) <= g.at \/ End(g) <= c.at
    BY <1>7 DEF Apart
  <2>3. End(c) <= f.at \/ End(g) <= c.at
    BY SMTT(30), <1>2, <2>1, <2>2
  <2>. QED BY <1>1, <1>5, <2>3 DEF Apart
<1>. QED BY <1>1, <1>3, <1>4, <1>5, <1>6, <1>7

\* What merging does with a block b and the list l
Joins(l, b, h) ==
  /\ Heap(h.list) /\ h.block \in Blocks /\ h.block.size >= b.size
  /\ \A c \in ToSet(h.list) : c \in ToSet(l) /\ Apart(c, h.block)
  /\ \A c \in Blocks : Apart(c, b) /\ (\A d \in ToSet(l) : Apart(c, d)) => Apart(c, h.block)
  /\ Cover(ToSet(h.list) \cup {h.block}) = Cover(ToSet(l) \cup {b})

\* Joining a block that touches one of the list, and unlinking that one.
LEMMA Join ==
  ASSUME NEW l, Heap(l), NEW b \in Blocks, \A c \in ToSet(l) : Apart(c, b),
         NEW n \in 1..Len(l), NEW f, NEW g,
         (f = l[n] /\ g = b) \/ (f = b /\ g = l[n]), End(f) = g.at,
         NEW h, h = [list |-> RemoveAt(l, n), block |-> Block(f.at, f.size + (g.size + META))]
  PROVE  Joins(l, b, h) /\ h.block.at = f.at /\ End(h.block) = End(g)
<1> DEFINE m == h.block
<1>1. l[n] \in Blocks /\ l[n] \in ToSet(l) /\ f \in Blocks /\ g \in Blocks
  BY HeapSet
<1>2. /\ m \in Blocks /\ m.at = f.at /\ End(m) = End(g) /\ m.size >= b.size
      /\ Bytes(m) = Bytes(l[n]) \cup Bytes(b)
      /\ \A c \in Blocks : Apart(c, l[n]) /\ Apart(c, b) => Apart(c, m)
  <2>1. m = Block(f.at, f.size + (g.size + META))
    OBVIOUS
  <2> HIDE DEF m
  <2>2. /\ m \in Blocks /\ m.at = f.at /\ End(m) = End(g) /\ m.size >= f.size /\ m.size >= g.size
        /\ Bytes(m) = Bytes(f) \cup Bytes(g)
        /\ \A c \in Blocks : Apart(c, f) /\ Apart(c, g) => Apart(c, m)
    BY SMTT(30), <1>1, <2>1, Joined
  <2>. QED BY <2>2
<1>3. h.list = RemoveAt(l, n)
  OBVIOUS
<1> HIDE DEF m
<1>4. Heap(h.list) /\ ToSet(h.list) = ToSet(l) \ {l[n]}
  <2>1. Heap(RemoveAt(l, n)) /\ ToSet(RemoveAt(l, n)) = ToSet(l) \ {l[n]}
    BY UnlinkedHeap
  <2>. QED BY <1>3, <2>1
<1>5. \A c \in ToSet(h.list) : c \in ToSet(l) /\ Apart(c, m)
  <2>1. ASSUME NEW c \in ToSet(h.list) PROVE c \in ToSet(l) /\ Apart(c, m)
    <3>1. c \in ToSet(l) /\ c # l[n] /\ c \in Blocks
      BY <1>4, HeapSet
    <3>2. Apart(c, l[n]) /\ Apart(c, b)
      BY <1>1, <3>1, HeapSet
    <3>. QED BY <1>2, <3>1, <3>2
  <2>. QED BY <2>1
<1>6. Cover(ToSet(h.list) \cup {m}) = Cover(ToSet(l) \cup {b})
  <2>0. l[n] \in ToSet(l) /\ Bytes(m) = Bytes(l[n]) \cup Bytes(b)
    BY <1>1, <1>2
  <2>1. Cover((ToSet(l) \ {l[n]}) \cup {m}) = Cover(ToSet(l) \cup {b})
    BY <2>0 DEF Cover
  <2>. QED BY <1>4, <2>1
<1>7. m = h.block
  BY DEF m
<1>8. Joins(l, b, h)
  BY <1>1, <1>2, <1>3, <1>4, <1>5, <1>6, <1>7 DEF Joins
<1>. QED BY <1>2, <1>7, <1>8

\* merge_with_front joins the free block in front, if there is one.
LEMMA FrontJoins ==
  ASSUME NEW l, Heap(l), NEW b \in Blocks, \A c \in ToSet(l) : Apart(c, b),
         NEW g, g.list = l, g.block = b, NEW h, h = MergeWithFront(g)
  PROVE  Joins(l, b, h) /\ \A c \in ToSet(h.list) : End(c) # h.block.at
<1> DEFINE T == {n \in DOMAIN l : End(l[n]) = b.at}
<1>0. DOMAIN l = 1..Len(l) /\ T \in SUBSET Nat
  <2>1. DOMAIN l = 1..Len(l)
    BY HeapSet
  <2>2. 1..Len(l) \subseteq Nat
    BY SMTT(30) DEF Heap
  <2>. QED BY <2>1, <2>2
<1>1. CASE T = {}
  <2>1. h = g /\ h.list = l /\ h.block = b
    BY <1>1 DEF MergeWithFront
  <2>2. b.size >= b.size
    BY SMTT(30), Ends
  <2>3. \A c \in ToSet(l) : End(c) # b.at
    BY <1>1 DEF ToSet
  <2>. QED BY <2>1, <2>2, <2>3 DEF Joins
<1>2. CASE T # {}
  <2> DEFINE n == Min(T)
  <2>1. n \in 1..Len(l) /\ End(l[n]) = b.at
    <3>1. n \in T
      <4> HIDE DEF T
      <4>. QED BY <1>0, <1>2, MinIs
    <3>. QED BY <1>0, <3>1
  <2>2. h = [list |-> RemoveAt(l, n), block |-> Block(l[n].at, l[n].size + (b.size + META))]
    BY <1>2 DEF MergeWithFront
  <2> HIDE DEF n, T
  <2>3. Joins(l, b, h) /\ h.block.at = l[n].at
    BY SMTT(30), <2>1, <2>2, Join
  <2>4. ASSUME NEW c \in ToSet(h.list) PROVE End(c) # l[n].at
    <3>1. c \in ToSet(l) /\ l[n] \in ToSet(l)
      BY <2>1, <2>3, HeapSet DEF Joins
    <3>. QED BY <3>1, HeapSet
  <2>. QED BY <2>3, <2>4
<1>. QED BY <1>1, <1>2

\* merge_with_back joins the free block behind, if there is one.
LEMMA BackJoins ==
  ASSUME NEW l, Heap(l), NEW b \in Blocks, \A c \in ToSet(l) : Apart(c, b) /\ End(c) # b.at,
         NEW g, g.list = l, g.block = b, NEW h, h = MergeWithBack(g)
  PROVE  /\ Joins(l, b, h)
         /\ \A c \in ToSet(h.list) : End(c) # h.block.at /\ End(h.block) # c.at
<1> DEFINE T == {n \in DOMAIN l : l[n].at = End(b)}
<1>0. DOMAIN l = 1..Len(l) /\ T \in SUBSET Nat
  <2>1. DOMAIN l = 1..Len(l)
    BY HeapSet
  <2>2. 1..Len(l) \subseteq Nat
    BY SMTT(30) DEF Heap
  <2>. QED BY <2>1, <2>2
<1>1. CASE T = {}
  <2>1. h = g /\ h.list = l /\ h.block = b
    BY <1>1 DEF MergeWithBack
  <2>2. b.size >= b.size
    BY SMTT(30), Ends
  <2>3. \A c \in ToSet(l) : End(b) # c.at
    BY <1>1 DEF ToSet
  <2>. QED BY <2>1, <2>2, <2>3 DEF Joins
<1>2. CASE T # {}
  <2> DEFINE n == Min(T)
  <2>1. n \in 1..Len(l) /\ l[n].at = End(b)
    <3>1. n \in T
      <4> HIDE DEF T
      <4>. QED BY <1>0, <1>2, MinIs
    <3>. QED BY <1>0, <3>1
  <2>2. h = [list |-> RemoveAt(l, n), block |-> Block(b.at, b.size + (l[n].size + META))]
    BY <1>2 DEF MergeWithBack
  <2> HIDE DEF n, T
  <2>3. Joins(l, b, h) /\ h.block.at = b.at /\ End(h.block) = End(l[n])
    BY SMTT(30), <2>1, <2>2, Join
  <2>4. ASSUME NEW c \in ToSet(h.list) PROVE End(c) # b.at /\ End(l[n]) # c.at
    <3>1. c \in ToSet(l) /\ l[n] \in ToSet(l)
      BY <2>1, <2>3, HeapSet DEF Joins
    <3>. QED BY <3>1, HeapSet
  <2>. QED BY <2>3, <2>4
<1>. QED BY <1>1, <1>2

\* add_block: the list is as before with the block in it, merged.
LEMMA AddBlockHeap ==
  ASSUME NEW l, Heap(l), NEW b \in Blocks, \A c \in ToSet(l) : Apart(c, b), b.size >= MinUser
  PROVE  /\ Heap(AddBlock(l, b))
         /\ \E c \in ToSet(AddBlock(l, b)) : c.size >= b.size
         /\ Cover(ToSet(AddBlock(l, b))) = Cover(ToSet(l) \cup {b})
         /\ \A c \in Blocks : Apart(c, b) /\ (\A d \in ToSet(l) : Apart(c, d))
                            => \A d \in ToSet(AddBlock(l, b)) : Apart(c, d)
<1> DEFINE g == [list |-> l, block |-> b]
           f == MergeWithFront(g)
           h == MergeWithBack(f)
           k == AddBlock(l, b)
<1>1. ~(b.size < MinUser)
  BY SMTT(30), Ends, HeapSizes
<1>2. k = Insert(h.list, h.block)
  BY <1>1 DEF AddBlock
<1>3. g.list = l /\ g.block = b
  OBVIOUS
<1>4. Joins(l, b, f) /\ \A c \in ToSet(f.list) : End(c) # f.block.at
  <2> DEFINE ff == f
  <2>1. ff = MergeWithFront(g)
    OBVIOUS
  <2> HIDE DEF g, ff
  <2>2. Joins(l, b, ff) /\ \A c \in ToSet(ff.list) : End(c) # ff.block.at
    BY SMTT(30), <1>3, <2>1, FrontJoins
  <2>. QED BY <2>1, <2>2
<1>5. /\ Joins(f.list, f.block, h)
      /\ \A c \in ToSet(h.list) : End(c) # h.block.at /\ End(h.block) # c.at
  <2> DEFINE fl == f.list
             fb == f.block
             ff == f
             hh == h
  <2>1. Heap(fl) /\ fb \in Blocks /\ \A c \in ToSet(fl) : Apart(c, fb) /\ End(c) # fb.at
    BY <1>4 DEF Joins
  <2>2. ff.list = fl /\ ff.block = fb /\ hh = MergeWithBack(ff)
    OBVIOUS
  <2> HIDE DEF fl, fb, ff, hh
  <2>3. Joins(fl, fb, hh) /\ \A c \in ToSet(hh.list) : End(c) # hh.block.at /\ End(hh.block) # c.at
    BY SMTT(30), <2>1, <2>2, BackJoins
  <2>. QED BY <2>3 DEF fl, fb, hh
<1> HIDE DEF g, f, h, k
<1>6. /\ Heap(h.list) /\ h.block \in Blocks
      /\ \A c \in ToSet(h.list) : Apart(c, h.block) /\ End(c) # h.block.at /\ End(h.block) # c.at
      /\ \A c \in ToSet(h.list) : c \in ToSet(l)
  BY <1>4, <1>5 DEF Joins
<1>7. Heap(k) /\ ToSet(k) = ToSet(h.list) \cup {h.block}
  <2>1. Heap(Insert(h.list, h.block)) /\ ToSet(Insert(h.list, h.block)) = ToSet(h.list) \cup {h.block}
    BY <1>6, LinkedHeap
  <2>. QED BY <1>2, <2>1
<1>8. h.block.size >= b.size
  <2>1. h.block.size >= f.block.size /\ f.block.size >= b.size /\ f.block \in Blocks
    BY <1>4, <1>5 DEF Joins
  <2>2. h.block.size \in Nat /\ f.block.size \in Nat /\ b.size \in Nat
    BY <1>6, <2>1, Ends
  <2>. QED BY SMTT(30), <2>1, <2>2
<1>9. Cover(ToSet(k)) = Cover(ToSet(l) \cup {b})
  BY <1>4, <1>5, <1>7 DEF Joins
<1>10. ASSUME NEW c \in Blocks, Apart(c, b), \A d \in ToSet(l) : Apart(c, d)
       PROVE  \A d \in ToSet(k) : Apart(c, d)
  <2>1. Apart(c, f.block) /\ \A d \in ToSet(f.list) : Apart(c, d)
    BY <1>4, <1>10 DEF Joins
  <2>2. Apart(c, h.block)
    BY <1>5, <2>1 DEF Joins
  <2>. QED BY <1>6, <1>7, <1>10, <2>2
<1>. QED BY <1>7, <1>8, <1>9, <1>10 DEF k

-----------------------------------------------------------------------------
(* Taking a block                                                          *)

\* A block in two
LEMMA Split ==
  ASSUME NEW b \in Blocks, NEW size \in Nat, b.size >= size + MIN_BLOCK_SIZE,
         NEW left, left = Block(b.at, b.size - (size + META)), NEW got, got = Block(End(left), size)
  PROVE  /\ left \in Blocks /\ got \in Blocks /\ left.size >= MinUser /\ got.size = size
         /\ Apart(left, got) /\ Bytes(b) = Bytes(left) \cup Bytes(got)
         /\ \A c \in Blocks : Apart(c, b) => Apart(c, left) /\ Apart(c, got)
<1>1. left.at = b.at /\ left.size = b.size - (size + META) /\ got.at = End(left) /\ got.size = size
  BY DEF Block
<1>2. b.at \in Nat /\ b.size \in Nat /\ End(b) = b.at + META + b.size /\ End(b) \in Nat
  BY Ends
<1>3. b.size - (size + META) \in Nat /\ left.size >= MinUser
  BY SMTT(30), <1>1, <1>2, HeapSizes DEF MIN_BLOCK_SIZE
<1>4. left \in Blocks
  BY <1>2, <1>3 DEF Block, Blocks
<1>5. left.at \in Nat /\ End(left) = left.at + META + left.size /\ End(left) \in Nat /\ left.at < End(left)
  BY <1>4, Ends
<1>6. got \in Blocks
  BY <1>5 DEF Block, Blocks
<1>7. End(got) = got.at + META + got.size /\ got.at < End(got)
  BY <1>6, Ends
<1>8. End(got) = End(b)
  BY SMTT(30), <1>1, <1>2, <1>5, <1>7, HeapSizes
<1>9. Apart(left, got)
  <2>1. End(left) <= got.at
    BY SMTT(30), <1>1, <1>5
  <2>. QED BY <2>1 DEF Apart
<1>10. Bytes(b) = Bytes(left) \cup Bytes(got)
  <2>1. /\ Bytes(b) = b.at .. End(b) - 1 /\ Bytes(left) = b.at .. End(left) - 1
        /\ Bytes(got) = End(left) .. End(b) - 1
    BY <1>1, <1>8 DEF Bytes
  <2>2. ASSUME NEW x, NEW u \in Nat, NEW v \in Nat, NEW w \in Nat, u < v, v < w
        PROVE  x \in u .. w - 1 <=> x \in u .. v - 1 \/ x \in v .. w - 1
    BY SMTT(30), <2>2
  <2>3. b.at < End(left) /\ End(left) < End(b)
    BY <1>1, <1>5, <1>7, <1>8
  <2>4. \A x : x \in b.at .. End(b) - 1 <=> x \in b.at .. End(left) - 1 \/ x \in End(left) .. End(b) - 1
    BY SMTT(30), <1>2, <1>5, <2>2, <2>3
  <2>. QED BY <2>1, <2>4
<1>11. ASSUME NEW c \in Blocks, Apart(c, b) PROVE Apart(c, left) /\ Apart(c, got)
  <2>1. c.at \in Nat /\ End(c) \in Nat
    BY Ends
  <2>2. End(c) <= b.at \/ End(b) <= c.at
    BY <1>11 DEF Apart
  <2>3. b.at <= End(left) /\ End(left) <= End(b)
    BY SMTT(30), <1>1, <1>2, <1>5, <1>7, <1>8
  <2>4. (End(c) <= b.at \/ End(left) <= c.at) /\ (End(c) <= End(left) \/ End(b) <= c.at)
    BY SMTT(30), <1>2, <1>5, <2>1, <2>2, <2>3
  <2>. QED BY <1>1, <1>8, <2>4 DEF Apart
<1>. QED BY <1>1, <1>3, <1>4, <1>6, <1>9, <1>10, <1>11

\* What kmalloc gets out of the list l
Takes(l, size, r) ==
  /\ r.block \in Blocks /\ r.block.size = size /\ Heap(r.list)
  /\ Cover(ToSet(r.list) \cup {r.block}) = Cover(ToSet(l))
  /\ \A d \in ToSet(r.list) : Apart(d, r.block)
  /\ \A c \in Blocks : (\A d \in ToSet(l) : Apart(c, d)) =>
       Apart(c, r.block) /\ \A d \in ToSet(r.list) : Apart(c, d)

\* find_fit_block and remove_block
LEMMA FindFitTakes ==
  ASSUME NEW l, Heap(l), NEW size \in Nat, NEW r, r = FindFit(l, size)
  PROVE  \/ r.list = l /\ r.block = NULL /\ \A c \in ToSet(l) : ~Fits(c, size)
         \/ Takes(l, size, r)
<1> DEFINE T == {n \in DOMAIN l : Fits(l[n], size)}
           n == Min(T)
           b == l[n]
           rest == RemoveAt(l, n)
           left == Block(b.at, b.size - (size + META))
           got == Block(End(left), size)
<1>0. DOMAIN l = 1..Len(l) /\ T \in SUBSET Nat
  <2>1. DOMAIN l = 1..Len(l)
    BY HeapSet
  <2>2. 1..Len(l) \subseteq Nat
    BY SMTT(30) DEF Heap
  <2>. QED BY <2>1, <2>2
<1>1. CASE T = {}
  <2>1. r.list = l /\ r.block = NULL
    BY <1>1 DEF FindFit
  <2>. QED BY <1>1, <2>1 DEF ToSet
<1>2. CASE T # {}
  <2>1. n \in 1..Len(l) /\ Fits(b, size)
    <3>1. n \in T
      <4> HIDE DEF T
      <4>. QED BY <1>0, <1>2, MinIs
    <3>. QED BY <1>0, <3>1
  <2>2. /\ b.size = size => r.list = rest /\ r.block = b
        /\ b.size # size => r.list = AddBlock(rest, left) /\ r.block = got
    BY <1>2 DEF FindFit
  <2> HIDE DEF T, n
  <2>3. b \in Blocks /\ b \in ToSet(l)
    BY <2>1, HeapSet
  <2>4. Heap(rest) /\ ToSet(rest) = ToSet(l) \ {b}
    BY <2>1, UnlinkedHeap
  <2> HIDE DEF b, rest
  <2>5. \A d \in ToSet(rest) : Apart(d, b) /\ d \in ToSet(l)
    BY <2>3, <2>4, HeapSet
  <2>6. CASE b.size = size
    <3>1. r.list = rest /\ r.block = b
      BY <2>2, <2>6
    <3>2. ToSet(rest) \cup {b} = ToSet(l)
      BY <2>3, <2>4
    <3>. QED BY <2>3, <2>4, <2>5, <2>6, <3>1, <3>2 DEF Takes
  <2>7. CASE b.size # size
    <3>1. r.list = AddBlock(rest, left) /\ r.block = got /\ b.size >= size + MIN_BLOCK_SIZE
      BY <2>1, <2>2, <2>7 DEF Fits
    <3>2. /\ left \in Blocks /\ got \in Blocks /\ left.size >= MinUser /\ got.size = size
          /\ Apart(left, got) /\ Bytes(b) = Bytes(left) \cup Bytes(got)
          /\ \A c \in Blocks : Apart(c, b) => Apart(c, left) /\ Apart(c, got)
      <4> DEFINE ll == left
                 gg == got
      <4>1. ll = Block(b.at, b.size - (size + META)) /\ gg = Block(End(ll), size)
        OBVIOUS
      <4> HIDE DEF ll, gg
      <4>2. /\ ll \in Blocks /\ gg \in Blocks /\ ll.size >= MinUser /\ gg.size = size
            /\ Apart(ll, gg) /\ Bytes(b) = Bytes(ll) \cup Bytes(gg)
            /\ \A c \in Blocks : Apart(c, b) => Apart(c, ll) /\ Apart(c, gg)
        BY SMTT(30), <2>3, <3>1, <4>1, Split
      <4>. QED BY <4>2 DEF ll, gg
    <3> HIDE DEF left, got
    <3> DEFINE k == AddBlock(rest, left)
    <3>3. \A d \in ToSet(rest) : Apart(d, left) /\ Apart(d, got) /\ Apart(got, d) /\ d \in Blocks
      BY <2>4, <2>5, <3>2, HeapSet, ApartDiffer
    <3>4. /\ Heap(k)
          /\ Cover(ToSet(k)) = Cover(ToSet(rest) \cup {left})
          /\ \A c \in Blocks : Apart(c, left) /\ (\A d \in ToSet(rest) : Apart(c, d)) => \A d \in ToSet(k) : Apart(c, d)
      BY <2>4, <3>2, <3>3, AddBlockHeap
    <3> HIDE DEF k
    <3>5. \A d \in ToSet(k) : Apart(d, got)
      <4>1. Apart(got, left)
        BY <3>2, ApartDiffer
      <4>2. \A d \in ToSet(k) : Apart(got, d) /\ d \in Blocks
        BY <3>2, <3>3, <3>4, <4>1, HeapSet
      <4>. QED BY <3>2, <4>2, ApartDiffer
    <3>6. Cover(ToSet(k) \cup {got}) = Cover(ToSet(l))
      <4>1. Cover(ToSet(k) \cup {got}) = Cover(ToSet(rest) \cup {left}) \cup Bytes(got)
        BY <3>4 DEF Cover
      <4>2. Cover(ToSet(rest) \cup {left}) \cup Bytes(got) = Cover(ToSet(rest) \cup {b})
        BY <3>2 DEF Cover
      <4>3. ToSet(rest) \cup {b} = ToSet(l)
        BY <2>3, <2>4
      <4>. QED BY <4>1, <4>2, <4>3
    <3>7. ASSUME NEW c \in Blocks, \A d \in ToSet(l) : Apart(c, d)
          PROVE  Apart(c, got) /\ \A d \in ToSet(k) : Apart(c, d)
      BY <2>3, <2>5, <3>2, <3>4, <3>7
    <3>8. r.list = k /\ r.block = got
      BY <3>1 DEF k
    <3>. QED BY <3>2, <3>4, <3>5, <3>6, <3>7, <3>8 DEF Takes
  <2>. QED BY <2>6, <2>7
<1>. QED BY <1>1, <1>2

-----------------------------------------------------------------------------
(* The heap                                                                *)

PageBytes(p) == p * PG_SIZE .. (p + 1) * PG_SIZE - 1
Owned(pages) == UNION {PageBytes(p) : p \in pages}

HeapInv ==
  /\ Heap(size_list)
  /\ used \subseteq Blocks /\ lost \subseteq Blocks /\ used \cap lost = {}
  /\ \A b, c \in used \cup lost : b # c => Apart(b, c)
  /\ \A b \in used \cup lost : \A c \in Free : Apart(b, c)
  /\ Cover(Free \cup (used \cup lost)) = Owned(taken)
  /\ taken \subseteq Pages
  /\ pending \in used \cup {NULL}
  /\ ret \in [size : Sizes, block : Blocks \cup {NULL}]
  /\ panic \in {NULL, "OOM", "pgfault"}
  /\ SmallNeverFails

\* No byte is in two pages.
LEMMA PageNumbers ==
  ASSUME NEW g \in Nat, g >= 1, NEW p \in Nat, NEW q \in Nat, NEW x \in Nat,
         p * g <= x, x < (p + 1) * g, q * g <= x, x < (q + 1) * g
  PROVE  p = q
<1>1. ASSUME NEW a \in Nat, NEW b \in Nat, a < b PROVE (a + 1) * g <= b * g
  <2>1. \E k \in Nat : b = (a + 1) + k
    <3>1. b - (a + 1) \in Nat /\ b = (a + 1) + (b - (a + 1))
      BY SMTT(30), <1>1
    <3>. QED BY <3>1
  <2>2. PICK k \in Nat : b = (a + 1) + k
    BY <2>1
  <2>3. k * g \in Nat /\ (a + 1) * g \in Nat
    BY SMTT(30)
  <2>4. b * g = (a + 1) * g + k * g
    BY SMTT(30), <2>2
  <2>. QED BY SMTT(30), <2>3, <2>4
<1>2. /\ p * g \in Nat /\ (p + 1) * g \in Nat /\ q * g \in Nat /\ (q + 1) * g \in Nat
  BY SMTT(30)
<1>3. ~(p < q)
  <2> SUFFICES ASSUME p < q PROVE FALSE
    OBVIOUS
  <2>1. (p + 1) * g <= q * g
    BY <1>1
  <2> DEFINE u == (p + 1) * g
             v == q * g
  <2>2. u \in Nat /\ v \in Nat /\ u <= v /\ x < u /\ v <= x
    BY <1>2, <2>1
  <2> HIDE DEF u, v
  <2>. QED BY SMTT(30), <2>2
<1>4. ~(q < p)
  <2> SUFFICES ASSUME q < p PROVE FALSE
    OBVIOUS
  <2>1. (q + 1) * g <= p * g
    BY <1>1
  <2> DEFINE u == (q + 1) * g
             v == p * g
  <2>2. u \in Nat /\ v \in Nat /\ u <= v /\ x < u /\ v <= x
    BY <1>2, <2>1
  <2> HIDE DEF u, v
  <2>. QED BY SMTT(30), <2>2
<1>. QED BY SMTT(30), <1>3, <1>4

\* A page that is not taken, as a block
LEMMA NewPage ==
  ASSUME NEW p \in Pages, p \notin taken, taken \subseteq Pages,
         NEW b, b = Block(p * PG_SIZE, PG_SIZE - META)
  PROVE  /\ b \in Blocks /\ b.size = PG_SIZE - META /\ b.size >= MinUser /\ Bytes(b) = PageBytes(p)
         /\ \A c \in Blocks : Bytes(c) \subseteq Owned(taken) => Apart(c, b)
<1>1. p \in Nat /\ \A q \in taken : q \in Nat
  BY HeapAssumption
<1>2. p * PG_SIZE \in Nat /\ (p + 1) * PG_SIZE = p * PG_SIZE + PG_SIZE
  BY SMTT(30), <1>1, HeapSizes
<1>3. PG_SIZE - META \in Nat /\ PG_SIZE - META >= MinUser
  BY SMTT(30), HeapSizes
<1>4. b.at = p * PG_SIZE /\ b.size = PG_SIZE - META
  BY DEF Block
<1>5. b \in Blocks
  BY <1>2, <1>3 DEF Block, Blocks
<1>6. End(b) = b.at + META + b.size /\ End(b) \in Nat /\ b.at \in Nat
  BY <1>5, Ends
<1>7. End(b) = (p + 1) * PG_SIZE
  <2> DEFINE u == p * PG_SIZE
  <2>1. u \in Nat /\ b.at = u /\ (p + 1) * PG_SIZE = u + PG_SIZE
    BY <1>2, <1>4
  <2> HIDE DEF u
  <2>2. End(b) = u + PG_SIZE
    BY SMTT(30), <1>4, <1>6, <2>1, HeapSizes
  <2>. QED BY <2>1, <2>2
<1>8. Bytes(b) = PageBytes(p)
  BY <1>4, <1>7 DEF Bytes, PageBytes
<1>9. ASSUME NEW c \in Blocks, Bytes(c) \subseteq Owned(taken)
      PROVE  Apart(c, b)
  <2> SUFFICES ASSUME ~Apart(c, b) PROVE FALSE
    OBVIOUS
  <2>1. c.at \in Nat /\ End(c) \in Nat /\ c.at < End(c) /\ b.at < End(b)
    BY <1>5, Ends
  <2>2. ~(End(c) <= b.at) /\ ~(End(b) <= c.at)
    BY DEF Apart
  <2>3. \E x \in Nat : x \in c.at .. End(c) - 1 /\ x \in b.at .. End(b) - 1
    <3>1. CASE c.at <= b.at
      <4>1. b.at \in c.at .. End(c) - 1 /\ b.at \in b.at .. End(b) - 1
        BY SMTT(30), <1>6, <2>1, <2>2, <3>1
      <4>. QED BY <1>6, <4>1
    <3>2. CASE ~(c.at <= b.at)
      <4>1. c.at \in c.at .. End(c) - 1 /\ c.at \in b.at .. End(b) - 1
        BY SMTT(30), <1>6, <2>1, <2>2, <3>2
      <4>. QED BY <2>1, <4>1
    <3>. QED BY <3>1, <3>2
  <2>4. PICK x \in Nat : x \in Bytes(c) /\ x \in Bytes(b)
    BY <2>3 DEF Bytes
  <2>5. PICK q \in taken : x \in PageBytes(q)
    BY <1>9, <2>4 DEF Owned
  <2>6. x \in PageBytes(p) /\ q \in Nat
    BY <1>1, <1>8, <2>4, <2>5
  <2>7. ASSUME NEW z \in Nat, x \in PageBytes(z) PROVE z * PG_SIZE <= x /\ x < (z + 1) * PG_SIZE
    <3> DEFINE u == z * PG_SIZE
               v == (z + 1) * PG_SIZE
    <3>1. u \in Nat /\ v \in Nat
      BY SMTT(30), HeapSizes
    <3>2. x \in u .. v - 1
      BY <2>7 DEF PageBytes
    <3> HIDE DEF u, v
    <3>3. u <= x /\ x < v
      BY SMTT(30), <3>1, <3>2
    <3>. QED BY <3>3 DEF u, v
  <2>8. p = q
    BY <1>1, <2>5, <2>6, <2>7, HeapSizes, PageNumbers
  <2>. QED BY <2>5, <2>8
<1>. QED BY <1>3, <1>4, <1>5, <1>8, <1>9

\* The heap before the first call.
LEMMA NoCallIs == NoCall \in [size : Sizes, block : Blocks \cup {NULL}] /\ NoCall.size \notin 1 .. PG_SIZE - META - MIN_BLOCK_SIZE
<1>1. 0 \in Sizes
  BY SMTT(30), HeapSizes DEF Sizes
<1>2. 0 \notin 1 .. PG_SIZE - META - MIN_BLOCK_SIZE
  BY SMTT(30)
<1>. QED BY <1>1, <1>2 DEF NoCall

\* What kfree(b) leaves, whoever calls it
LEMMA KfreeInv ==
  ASSUME HeapInv, NEW b \in used, Kfree(b), pending' \in (used \ {b}) \cup {NULL}
  PROVE  HeapInv'
<1> DEFINE others == (used \ {b}) \cup lost
<1>1. /\ size_list' = AddBlock(size_list, b) /\ used' = used \ {b} /\ ret' = NoCall
      /\ lost' = IF b.size < MinUser THEN lost \cup {b} ELSE lost
      /\ taken' = taken /\ panic' = panic
  BY DEF Kfree
<1>2. /\ Heap(size_list) /\ used \subseteq Blocks /\ lost \subseteq Blocks /\ used \cap lost = {}
      /\ b \in Blocks /\ b \notin lost
      /\ \A c, d \in used \cup lost : c # d => Apart(c, d)
      /\ \A c \in used \cup lost : \A d \in ToSet(size_list) : Apart(c, d)
      /\ Cover(ToSet(size_list) \cup (used \cup lost)) = Owned(taken)
      /\ taken \subseteq Pages /\ panic \in {NULL, "OOM", "pgfault"}
  BY DEF HeapInv, Free
<1>3. \A d \in ToSet(size_list) : Apart(d, b)
  BY <1>2, HeapSet, ApartDiffer
<1>4. \A c \in others : c \in Blocks /\ Apart(c, b) /\ \A d \in ToSet(size_list) : Apart(c, d)
  BY <1>2
<1>5. SmallNeverFails' /\ ret' \in [size : Sizes, block : Blocks \cup {NULL}]
  BY <1>1, NoCallIs DEF SmallNeverFails
<1>6. CASE b.size < MinUser
  <2>1. size_list' = size_list /\ lost' = lost \cup {b} /\ used' \cup lost' = used \cup lost
    BY <1>1, <1>6 DEF AddBlock
  <2>2. used' \cap lost' = {} /\ used' \subseteq Blocks /\ lost' \subseteq Blocks
    BY <1>1, <1>2, <2>1
  <2>. QED BY <1>1, <1>2, <1>5, <2>1, <2>2 DEF HeapInv, Free
<1>7. CASE ~(b.size < MinUser)
  <2> DEFINE k == AddBlock(size_list, b)
  <2>0. b.size >= MinUser
    BY SMTT(30), <1>2, <1>7, Ends, HeapSizes
  <2>1. /\ Heap(k)
        /\ Cover(ToSet(k)) = Cover(ToSet(size_list) \cup {b})
        /\ \A c \in Blocks : Apart(c, b) /\ (\A d \in ToSet(size_list) : Apart(c, d))
                            => \A d \in ToSet(k) : Apart(c, d)
    BY <1>2, <1>3, <2>0, AddBlockHeap
  <2>2. size_list' = k /\ lost' = lost /\ used' \cup lost' = others
    BY <1>1, <1>7
  <2> HIDE DEF k
  <2>3. \A c \in used' \cup lost' : \A d \in ToSet(k) : Apart(c, d)
    BY <1>4, <2>1, <2>2
  <2>4. Cover(ToSet(k) \cup others) = Owned(taken)
    <3>1. Cover(ToSet(k) \cup others) = Cover(ToSet(size_list) \cup {b}) \cup Cover(others)
      BY <2>1 DEF Cover
    <3>2. Cover(ToSet(size_list) \cup {b}) \cup Cover(others) = Cover(ToSet(size_list) \cup (used \cup lost))
      BY DEF Cover
    <3>. QED BY <1>2, <3>1, <3>2
  <2>5. used' \cap lost' = {} /\ used' \subseteq Blocks /\ lost' \subseteq Blocks
    BY <1>1, <1>2, <2>2
  <2>6. \A c, d \in used' \cup lost' : c # d => Apart(c, d)
    BY <1>2, <2>2
  <2>. QED BY <1>1, <1>2, <1>5, <2>1, <2>2, <2>3, <2>4, <2>5, <2>6 DEF HeapInv, Free
<1>. QED BY <1>6, <1>7

\* What a call of kmalloc may leave
Serves(size, r) ==
  /\ Heap(r.list) /\ r.page \subseteq Pages
  /\ r.block # NULL => /\ r.block \in Blocks
                       /\ \A d \in ToSet(r.list) : Apart(r.block, d)
                       /\ \A c \in used \cup lost : Apart(c, r.block)
  /\ \A c \in used \cup lost : \A d \in ToSet(r.list) : Apart(c, d)
  /\ Cover(ToSet(r.list) \cup ({r.block} \ {NULL})) = Cover(Free) \cup Owned(r.page)
  /\ size \in 1 .. PG_SIZE - META - MIN_BLOCK_SIZE => r.block # NULL

\* A block that is found, given that every block held is apart from the list
LEMMA TakesServes ==
  ASSUME HeapInv, NEW l, Heap(l), NEW size \in Sizes, NEW t, Takes(l, size, t),
         NEW page \in SUBSET Pages, NEW r, r = Result(t.list, t.block, page),
         \A c \in used \cup lost : \A d \in ToSet(l) : Apart(c, d),
         Cover(ToSet(l)) = Cover(Free) \cup Owned(page)
  PROVE  Serves(size, r)
<1>1. r.list = t.list /\ r.block = t.block /\ r.page = page
  BY DEF Result
<1>2. /\ t.block \in Blocks /\ Heap(t.list)
      /\ Cover(ToSet(t.list) \cup {t.block}) = Cover(ToSet(l))
      /\ \A d \in ToSet(t.list) : Apart(d, t.block)
      /\ \A c \in Blocks : (\A d \in ToSet(l) : Apart(c, d)) =>
           Apart(c, t.block) /\ \A d \in ToSet(t.list) : Apart(c, d)
  BY DEF Takes
<1>3. t.block # NULL /\ {t.block} \ {NULL} = {t.block}
  BY <1>2, HeapSizes
<1>4. \A d \in ToSet(t.list) : Apart(t.block, d)
  BY <1>2, HeapSet, ApartDiffer
<1>5. \A c \in used \cup lost : Apart(c, t.block) /\ \A d \in ToSet(t.list) : Apart(c, d)
  BY <1>2 DEF HeapInv
<1>6. Cover(ToSet(r.list) \cup ({r.block} \ {NULL})) = Cover(Free) \cup Owned(r.page)
  BY <1>1, <1>2, <1>3
<1>. QED BY <1>1, <1>2, <1>3, <1>4, <1>5, <1>6 DEF Serves

\* A call that is refused leaves the blocks as they are.
LEMMA NothingServes ==
  ASSUME NEW l, Heap(l), NEW page \in SUBSET Pages, NEW size \in Sizes,
         NEW r, r = Result(l, NULL, page),
         \A c \in used \cup lost : \A d \in ToSet(l) : Apart(c, d),
         Cover(ToSet(l)) = Cover(Free) \cup Owned(page),
         size \notin 1 .. PG_SIZE - META - MIN_BLOCK_SIZE
  PROVE  Serves(size, r)
<1>1. r.list = l /\ r.block = NULL /\ r.page = page
  BY DEF Result
<1>2. ToSet(l) \cup ({NULL} \ {NULL}) = ToSet(l)
  OBVIOUS
<1>. QED BY <1>1, <1>2 DEF Serves

\* What a call of kmalloc can leave behind, with and without a new page.
LEMMA ResultsServe ==
  ASSUME HeapInv, NEW size \in Sizes, NEW r \in Results(size)
  PROVE  Serves(size, r)
<1> DEFINE first == FindFit(size_list, size)
           P(p) == Block(p * PG_SIZE, PG_SIZE - META)
           more(p) == AddBlock(size_list, P(p))
           again(p) == FindFit(more(p), size)
<1>0. /\ Heap(size_list) /\ used \cup lost \subseteq Blocks /\ taken \subseteq Pages
      /\ \A c \in used \cup lost : \A d \in ToSet(size_list) : Apart(c, d)
      /\ Cover(ToSet(size_list) \cup (used \cup lost)) = Owned(taken)
      /\ Free = ToSet(size_list) /\ size \in Nat
  <2>1. size \in Nat
    BY SMTT(30), HeapSizes DEF Sizes
  <2>. QED BY <2>1 DEF HeapInv, Free
<1>1. Cover(ToSet(size_list)) = Cover(Free) \cup Owned({})
  BY <1>0 DEF Owned
<1>2. CASE size = 0 \/ size > PG_SIZE - META
  <2>1. r = Result(size_list, NULL, {})
    BY <1>2 DEF Results
  <2>2. size \notin 1 .. PG_SIZE - META - MIN_BLOCK_SIZE
    BY SMTT(30), <1>0, <1>2, HeapSizes DEF MIN_BLOCK_SIZE
  <2>3. {} \in SUBSET Pages
    OBVIOUS
  <2>. QED BY <1>0, <1>1, <2>1, <2>2, <2>3, NothingServes
<1>3. CASE ~(size = 0 \/ size > PG_SIZE - META) /\ first.block # NULL
  <2>1. r = Result(first.list, first.block, {})
    BY <1>3 DEF Results
  <2>2. Takes(size_list, size, first)
    <3> DEFINE f == first
    <3>1. f = FindFit(size_list, size) /\ f.block # NULL
      BY <1>3
    <3> HIDE DEF f
    <3>2. Takes(size_list, size, f)
      BY SMTT(30), <1>0, <3>1, FindFitTakes
    <3>. QED BY <3>1, <3>2
  <2>3. {} \in SUBSET Pages
    OBVIOUS
  <2> HIDE DEF first
  <2>. QED BY <1>0, <1>1, <2>1, <2>2, <2>3, TakesServes
<1>4. CASE ~(size = 0 \/ size > PG_SIZE - META) /\ ~(first.block # NULL)
  <2>1. r \in {Result(again(p).list, again(p).block, {p}) : p \in Pages \ taken}
    BY <1>4 DEF Results
  <2>2. PICK p \in Pages \ taken : r = Result(again(p).list, again(p).block, {p})
    BY <2>1
  <2> DEFINE b == P(p)
             k == more(p)
             t == again(p)
  <2>3. b = Block(p * PG_SIZE, PG_SIZE - META) /\ k = AddBlock(size_list, b) /\ t = FindFit(k, size)
        /\ r = Result(t.list, t.block, {p})
    BY <2>2
  <2> HIDE DEF b, k, t
  <2>4. /\ b \in Blocks /\ b.size = PG_SIZE - META /\ b.size >= MinUser /\ Bytes(b) = PageBytes(p)
        /\ \A c \in Blocks : Bytes(c) \subseteq Owned(taken) => Apart(c, b)
    BY SMTT(30), <1>0, <2>3, NewPage
  <2>5. \A c \in ToSet(size_list) \cup (used \cup lost) : Apart(c, b)
    <3>1. ASSUME NEW c \in ToSet(size_list) \cup (used \cup lost) PROVE Apart(c, b)
      <4>1. c \in Blocks
        BY <1>0, HeapSet
      <4>2. Bytes(c) \subseteq Owned(taken)
        BY <1>0 DEF Cover
      <4>. QED BY <2>4, <4>1, <4>2
    <3>. QED BY <3>1
  <2>6. /\ Heap(k)
        /\ \E c \in ToSet(k) : c.size >= b.size
        /\ Cover(ToSet(k)) = Cover(ToSet(size_list) \cup {b})
        /\ \A c \in Blocks : Apart(c, b) /\ (\A d \in ToSet(size_list) : Apart(c, d))
                            => \A d \in ToSet(k) : Apart(c, d)
    <3>1. \A c \in ToSet(size_list) : Apart(c, b)
      BY <2>5
    <3>. QED BY <1>0, <2>3, <2>4, <3>1, AddBlockHeap
  <2>7. \A c \in used \cup lost : \A d \in ToSet(k) : Apart(c, d)
    BY <1>0, <2>5, <2>6
  <2>8. Cover(ToSet(k)) = Cover(Free) \cup Owned({p})
    <3>1. Cover(ToSet(size_list) \cup {b}) = Cover(ToSet(size_list)) \cup PageBytes(p)
      BY <2>4 DEF Cover
    <3>2. Owned({p}) = PageBytes(p)
      BY DEF Owned
    <3>. QED BY <1>0, <2>6, <3>1, <3>2
  <2>9. {p} \in SUBSET Pages
    OBVIOUS
  <2>10. \/ t.list = k /\ t.block = NULL /\ \A c \in ToSet(k) : ~Fits(c, size)
         \/ Takes(k, size, t)
    BY SMTT(30), <1>0, <2>3, <2>6, FindFitTakes
  <2>11. CASE Takes(k, size, t)
    BY <2>3, <2>6, <2>7, <2>8, <2>9, <2>11, TakesServes
  <2>12. CASE t.list = k /\ t.block = NULL /\ \A c \in ToSet(k) : ~Fits(c, size)
    <3>1. size \notin 1 .. PG_SIZE - META - MIN_BLOCK_SIZE
      <4> SUFFICES ASSUME size \in 1 .. PG_SIZE - META - MIN_BLOCK_SIZE PROVE FALSE
        OBVIOUS
      <4>1. PICK c \in ToSet(k) : c.size >= b.size
        BY <2>6
      <4>2. c.size \in Nat /\ c.size >= PG_SIZE - META
        BY <2>4, <2>6, <4>1, HeapSet, Ends
      <4>3. c.size >= size + MIN_BLOCK_SIZE
        BY SMTT(30), <1>0, <4>2, HeapSizes DEF MIN_BLOCK_SIZE
      <4>. QED BY <2>12, <4>3 DEF Fits
    <3>2. r = Result(k, NULL, {p})
      BY <2>3, <2>12
    <3>3. Heap(k)
      BY <2>6
    <3>. QED BY <2>7, <2>8, <2>9, <3>1, <3>2, <3>3, NothingServes
  <2>. QED BY <2>10, <2>11, <2>12
<1>. QED BY <1>2, <1>3, <1>4

\* The bytes of two sets of pages.
LEMMA PageUnion == ASSUME NEW S, NEW T PROVE Owned(S \cup T) = Owned(S) \cup Owned(T)
BY DEF Owned

\* What kmalloc leaves, whoever calls it
LEMMA MallocInv ==
  ASSUME HeapInv, NEW size \in Sizes, NEW onNull \in {NULL, "pgfault"}, Malloc(size, onNull),
         pending' \in used \cup {NULL}
  PROVE  HeapInv'
<1>1. CASE Results(size) = {}
  <2>1. UNCHANGED <<size_list, used, lost, taken, ret>> /\ panic' = "OOM"
    BY <1>1 DEF Malloc
  <2>. QED BY <2>1 DEF HeapInv, Free, SmallNeverFails
<1>2. CASE Results(size) # {}
  <2>1. PICK r \in Results(size) :
          /\ size_list' = r.list /\ taken' = taken \cup r.page
          /\ used' = used \cup ({r.block} \ {NULL})
          /\ ret' = [size |-> size, block |-> r.block]
          /\ panic' = IF r.block = NULL THEN onNull ELSE NULL
          /\ lost' = lost
    BY <1>2 DEF Malloc
  <2>2. /\ Heap(r.list) /\ r.page \subseteq Pages
        /\ r.block # NULL => /\ r.block \in Blocks
                             /\ \A d \in ToSet(r.list) : Apart(r.block, d)
                             /\ \A c \in used \cup lost : Apart(c, r.block)
        /\ \A c \in used \cup lost : \A d \in ToSet(r.list) : Apart(c, d)
        /\ Cover(ToSet(r.list) \cup ({r.block} \ {NULL})) = Cover(Free) \cup Owned(r.page)
        /\ size \in 1 .. PG_SIZE - META - MIN_BLOCK_SIZE => r.block # NULL
    BY ResultsServe DEF Serves
  <2>3. /\ used \subseteq Blocks /\ lost \subseteq Blocks /\ used \cap lost = {}
        /\ \A c, d \in used \cup lost : c # d => Apart(c, d)
        /\ Cover(Free \cup (used \cup lost)) = Owned(taken)
        /\ taken \subseteq Pages
    BY DEF HeapInv
  <2> DEFINE N == {r.block} \ {NULL}
  <2>4. \A b \in N : b \in Blocks /\ (\A d \in ToSet(r.list) : Apart(b, d))
                    /\ \A c \in used \cup lost : Apart(c, b) /\ Apart(b, c) /\ b # c
    BY <2>2, <2>3, ApartDiffer
  <2>5. used' \cup lost' = N \cup (used \cup lost)
    BY <2>1
  <2>6. used' \subseteq Blocks /\ lost' \subseteq Blocks /\ used' \cap lost' = {}
    BY <2>1, <2>3, <2>4
  <2>7. \A b, c \in used' \cup lost' : b # c => Apart(b, c)
    BY <2>3, <2>4, <2>5
  <2>8. \A b \in used' \cup lost' : \A c \in Free' : Apart(b, c)
    BY <2>1, <2>2, <2>4, <2>5 DEF Free
  <2>9. Cover(Free \cup (used \cup lost))' = Owned(taken')
    <3>1. Cover(ToSet(r.list) \cup (N \cup (used \cup lost)))
            = Cover(Free \cup (used \cup lost)) \cup Owned(r.page)
      <4>1. Cover(ToSet(r.list) \cup (N \cup (used \cup lost)))
              = Cover(ToSet(r.list) \cup N) \cup Cover(used \cup lost)
        BY DEF Cover
      <4>2. Cover(Free \cup (used \cup lost)) = Cover(Free) \cup Cover(used \cup lost)
        BY DEF Cover
      <4>3. Cover(ToSet(r.list) \cup N) = Cover(Free) \cup Owned(r.page)
        BY <2>2
      <4>. QED BY <4>1, <4>2, <4>3
    <3>2. Owned(taken \cup r.page) = Owned(taken) \cup Owned(r.page)
      BY PageUnion
    <3>3. Cover(Free \cup (used \cup lost))' = Cover(ToSet(r.list) \cup (N \cup (used \cup lost)))
      BY <2>1, <2>5 DEF Cover, Free, Bytes, End
    <3>4. taken' = taken \cup r.page
      BY <2>1
    <3>5. Cover(Free \cup (used \cup lost)) = Owned(taken)
      BY <2>3
    <3>. QED BY <3>1, <3>2, <3>3, <3>4, <3>5
  <2>10. ret' \in [size : Sizes, block : Blocks \cup {NULL}] /\ SmallNeverFails'
    <3>1. r.block \in Blocks \cup {NULL}
      BY <2>2
    <3>2. ret'.size = size /\ ret'.block = r.block
      BY <2>1
    <3>3. ret' \in [size : Sizes, block : Blocks \cup {NULL}]
      BY <2>1, <3>1
    <3>. QED BY <2>2, <3>2, <3>3 DEF SmallNeverFails
  <2>11. Heap(size_list)' /\ taken' \subseteq Pages /\ pending' \in used' \cup {NULL}
         /\ panic' \in {NULL, "OOM", "pgfault"}
    BY <2>1, <2>2, <2>3 DEF Heap, Apart, End
  <2>. QED BY <2>6, <2>7, <2>8, <2>9, <2>10, <2>11 DEF HeapInv
<1>. QED BY <1>1, <1>2

\* The empty heap has the invariant.
LEMMA InitHeapInv == Init => HeapInv
<1> SUFFICES ASSUME Init PROVE HeapInv
  OBVIOUS
<1>1. /\ size_list = <<>> /\ used = {} /\ lost = {} /\ taken = {} /\ pending = NULL
      /\ ret = NoCall /\ panic = NULL
  BY DEF Init
<1>2. Heap(size_list)
  BY SMTT(30), <1>1 DEF Heap
<1>3. Free = {}
  BY SMTT(30), <1>1 DEF Free, ToSet
<1>4. Cover(Free \cup (used \cup lost)) = Owned(taken)
  BY <1>1, <1>3 DEF Cover, Owned
<1>5. SmallNeverFails
  BY <1>1, NoCallIs DEF SmallNeverFails
<1>. QED BY <1>1, <1>2, <1>3, <1>4, <1>5, NoCallIs DEF HeapInv

\* Every call keeps the invariant.
LEMMA NextHeapInv == HeapInv /\ [Next]_vars => HeapInv'
<1> SUFFICES ASSUME HeapInv, [Next]_vars PROVE HeapInv'
  OBVIOUS
<1>1. CASE CallMalloc
  <2>1. PICK size \in Sizes : Malloc(size, NULL)
    BY <1>1 DEF CallMalloc
  <2>2. pending' \in used \cup {NULL}
    BY <1>1 DEF CallMalloc, HeapInv
  <2>. QED BY <2>1, <2>2, MallocInv
<1>2. CASE CallFree
  <2>1. PICK b \in used \ {pending} : Kfree(b)
    BY <1>2 DEF CallFree
  <2>2. pending' \in (used \ {b}) \cup {NULL}
    BY <1>2 DEF CallFree, HeapInv
  <2>. QED BY <2>1, <2>2, KfreeInv
<1>3. CASE CallRealloc
  <2>1. PICK b \in used, size \in Sizes \ {0} : Malloc(size, "pgfault") /\ pending' = b
    BY <1>3 DEF CallRealloc
  <2>2. size \in Sizes /\ pending' \in used \cup {NULL}
    BY <2>1
  <2>. QED BY <2>1, <2>2, MallocInv
<1>4. CASE ReallocFree
  <2>1. pending \in used /\ Kfree(pending) /\ pending' = NULL
    BY <1>4 DEF ReallocFree, HeapInv
  <2>2. pending' \in (used \ {pending}) \cup {NULL}
    BY <2>1
  <2>. QED BY <2>1, <2>2, KfreeInv
<1>5. CASE UNCHANGED vars
  <2>1. UNCHANGED <<size_list, used, lost, taken, pending, ret, panic>>
    BY <1>5 DEF vars
  <2>. QED BY <2>1 DEF HeapInv, Free, SmallNeverFails
<1>. QED BY <1>1, <1>2, <1>3, <1>4, <1>5 DEF Next

\* The invariant holds for ever.
LEMMA HeapInvariant == Spec => []HeapInv
<1>. QED BY InitHeapInv, NextHeapInv, PTL DEF Spec

\* Blocks that are apart share no byte.
LEMMA ApartBytes ==
  ASSUME NEW b \in Blocks, NEW c \in Blocks, Apart(b, c) PROVE Bytes(b) \cap Bytes(c) = {}
<1>1. b.at \in Nat /\ End(b) \in Nat /\ c.at \in Nat /\ End(c) \in Nat
  BY Ends
<1>2. End(b) <= c.at \/ End(c) <= b.at
  BY DEF Apart
<1>3. ASSUME NEW x \in b.at .. End(b) - 1, x \in c.at .. End(c) - 1 PROVE FALSE
  BY SMTT(30), <1>1, <1>2, <1>3
<1>. QED BY <1>3 DEF Bytes

\* add_block, remove_block and kfree: every byte of the pages the heap has taken
\* is in exactly one block, whatever is allocated and freed in whatever order.
THEOREM HeapTiled == Spec => []Tiled
<1>1. HeapInv => Tiled
  <2> SUFFICES ASSUME HeapInv PROVE Tiled
    OBVIOUS
  <2> DEFINE blocks == Free \cup used \cup lost
  <2>1. /\ Heap(size_list) /\ used \subseteq Blocks /\ lost \subseteq Blocks /\ used \cap lost = {}
        /\ \A b, c \in used \cup lost : b # c => Apart(b, c)
        /\ \A b \in used \cup lost : \A c \in Free : Apart(b, c)
        /\ Cover(Free \cup (used \cup lost)) = Owned(taken)
    BY DEF HeapInv
  <2>2. /\ Free \subseteq Blocks /\ DOMAIN size_list = 1..Len(size_list)
        /\ \A i \in 1..Len(size_list) : size_list[i] \in Blocks
        /\ \A b, c \in Free : b # c => Apart(b, c)
    BY <2>1, HeapSet DEF Free
  <2>3. TypeOK
    BY <2>1, <2>2 DEF HeapInv, Heap, Blocks, TypeOK
  <2>4. ASSUME NEW b \in blocks, NEW c \in blocks, b # c PROVE Bytes(b) \cap Bytes(c) = {}
    <3>1. b \in Blocks /\ c \in Blocks
      BY <2>1, <2>2
    <3>2. Apart(b, c)
      BY <2>1, <2>2, <2>4, <3>1, ApartDiffer
    <3>. QED BY <3>1, <3>2, ApartBytes
  <2>5. UNION {Bytes(b) : b \in blocks} = UNION {p * PG_SIZE .. (p + 1) * PG_SIZE - 1 : p \in taken}
    <3>1. Free \cup (used \cup lost) = blocks
      OBVIOUS
    <3>2. Cover(blocks) = Owned(taken)
      BY <2>1, <3>1
    <3>. QED BY <3>2 DEF Cover, Owned, PageBytes
  <2>6. Free \cap used = {} /\ Free \cap lost = {}
    BY <2>1, <2>2, ApartDiffer
  <2>7. \A i, j \in DOMAIN size_list : i # j => size_list[i] # size_list[j]
    BY <2>1, <2>2, ApartDiffer DEF Heap
  <2>. QED BY <2>1, <2>3, <2>4, <2>5, <2>6, <2>7 DEF Tiled
<1>. QED BY <1>1, HeapInvariant, PTL

\* merge_with_front, merge_with_back and the sorted insertion of add_block: free
\* blocks never touch, and the first fit is the best fit.
THEOREM HeapCoalesced == Spec => []CoalescedAndSorted
<1>1. HeapInv => CoalescedAndSorted
  <2> SUFFICES ASSUME HeapInv PROVE CoalescedAndSorted
    OBVIOUS
  <2>1. Heap(size_list)
    BY DEF HeapInv
  <2>2. DOMAIN size_list = 1..Len(size_list) /\ \A b, c \in Free : End(b) # c.at
    BY <2>1, HeapSet DEF Free
  <2>. QED BY <2>1, <2>2 DEF Heap, CoalescedAndSorted
<1>. QED BY <1>1, HeapInvariant, PTL

\* kmalloc: a request that leaves room for a second block in a page never fails.
THEOREM SmallServed == Spec => []SmallNeverFails
<1>1. HeapInv => SmallNeverFails
  BY DEF HeapInv
<1>. QED BY <1>1, HeapInvariant, PTL
=============================================================================
