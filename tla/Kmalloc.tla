------------------------------- MODULE Kmalloc -------------------------------
(***************************************************************************)
(* kernel/src/mem/kmalloc.c: the kernel heap, a list of free blocks sorted *)
(* by size that grows by a page at a time.  kmalloc and kfree run with     *)
(* kmalloc_lock held, so each is one step; krealloc is kmalloc, a copy and *)
(* kfree in turn.  What the blocks hold is left out, and with it kcalloc,  *)
(* which is kmalloc and a memset.                                          *)
(*                                                                         *)
(* A block is its header, META bytes at .at, and .size bytes after it.     *)
(* Pages come from pgalloc_allocate(0), in any order.                      *)
(***************************************************************************)
EXTENDS Integers, Sequences, SequencesExt, FiniteSetsExt

CONSTANTS PG_SIZE,
          META,       \* TOTAL_METADATA_SIZE
          MinUser,    \* MIN_BLOCK_SIZE - TOTAL_METADATA_SIZE: 8 bytes
          Pages,      \* the page numbers pgalloc can return
          MaxUsed,    \* bound: the number of allocations held at once
          NULL

ASSUME HeapAssumption ==
  /\ {PG_SIZE, META, MinUser, MaxUsed} \subseteq Nat \ {0}
  /\ Pages \subseteq Nat
  /\ META + MinUser <= PG_SIZE
  /\ NULL \notin [at : Nat, size : Nat]

VARIABLES size_list,  \* the free blocks, as linked
          used,       \* the blocks callers hold
          lost,       \* the freed blocks that were too small to link
          taken,      \* the pages the heap has taken
          pending,    \* krealloc between its kmalloc and its kfree: the old block
          ret,        \* the last call of kmalloc: the size and the block, or NULL
          panic       \* what the kernel stopped with, or NULL

vars == <<size_list, used, lost, taken, pending, ret, panic>>

MIN_BLOCK_SIZE == META + MinUser
Block(at, size) == [at |-> at, size |-> size]
End(b) == b.at + META + b.size

NoCall == [size |-> 0, block |-> NULL]

\* kmalloc_init
Init ==
  /\ size_list = <<>>
  /\ used = {}
  /\ lost = {}
  /\ taken = {}
  /\ pending = NULL
  /\ ret = NoCall
  /\ panic = NULL

\* The second loop of add_block: in front of the first block as large.
Insert(l, b) ==
  InsertAt(l, Min({n \in DOMAIN l : l[n].size >= b.size} \cup {Len(l) + 1}), b)

\* merge_with_front, for the free block that ends where h.block starts: it is
\* unlinked and h.block becomes part of it.  Blocks do not overlap, so that there
\* is one at most, and one at most behind h.block.
MergeWithFront(h) ==
  LET front == {n \in DOMAIN h.list : End(h.list[n]) = h.block.at}
      c == h.list[Min(front)]
  IN IF front = {} THEN h
     ELSE [list |-> RemoveAt(h.list, Min(front)), block |-> Block(c.at, c.size + (h.block.size + META))]

\* Mutant: the block behind is not merged.
MergeWithBack_Not(h) == h

\* Mutant: merging with the block behind forgets its header.
MergeWithBack_ForgetsHeader(h) ==
  LET back == {n \in DOMAIN h.list : h.list[n].at = End(h.block)}
      c == h.list[Min(back)]
  IN IF back = {} THEN h
     ELSE [list |-> RemoveAt(h.list, Min(back)), block |-> Block(h.block.at, h.block.size + c.size)]

\* merge_with_back, for the free block that starts where h.block ends
MergeWithBack(h) ==
  LET back == {n \in DOMAIN h.list : h.list[n].at = End(h.block)}
      c == h.list[Min(back)]
  IN IF back = {} THEN h
     ELSE [list |-> RemoveAt(h.list, Min(back)), block |-> Block(h.block.at, h.block.size + (c.size + META))]

\* add_block
AddBlock(l, b) ==
  LET h == MergeWithBack(MergeWithFront([list |-> l, block |-> b]))
  IN IF b.size < MinUser THEN l ELSE Insert(h.list, h.block)

\* Mutant: no block is split.
Fits_Exact(b, size) == b.size = size

Fits(b, size) == b.size = size \/ b.size >= size + MIN_BLOCK_SIZE

\* find_fit_block and remove_block: the first block that fits is given whole,
\* or its end is.  The result is the list and the block, or NULL.
FindFit(l, size) ==
  LET fit == {n \in DOMAIN l : Fits(l[n], size)}
      b == l[Min(fit)]
      rest == RemoveAt(l, Min(fit))
      left == Block(b.at, b.size - (size + META))
  IN IF fit = {} THEN [list |-> l, block |-> NULL]
     ELSE IF b.size = size THEN [list |-> rest, block |-> b]
     ELSE [list |-> AddBlock(rest, left), block |-> Block(End(left), size)]

\* What a call of kmalloc leaves behind: the list, the block it returns, and
\* the page it took.
Result(l, b, page) == [list |-> l, block |-> b, page |-> page]

\* The results a call of kmalloc can have when it does not run out of pages.
Results(size) ==
  LET first == FindFit(size_list, size)
  IN IF size = 0 \/ size > PG_SIZE - META THEN {Result(size_list, NULL, {})}
     ELSE IF first.block # NULL THEN {Result(first.list, first.block, {})}
     ELSE {LET again == FindFit(AddBlock(size_list, Block(p * PG_SIZE, PG_SIZE - META)), size)
           IN Result(again.list, again.block, {p}) : p \in Pages \ taken}

\* kmalloc; onNull is what happens to a caller that gets NULL.
Malloc(size, onNull) ==
  IF Results(size) = {}
  THEN /\ panic' = "OOM"
       /\ UNCHANGED <<size_list, used, lost, taken, ret>>
  ELSE \E r \in Results(size) :
         /\ size_list' = r.list
         /\ taken' = taken \cup r.page
         /\ used' = used \cup ({r.block} \ {NULL})
         /\ ret' = [size |-> size, block |-> r.block]
         /\ panic' = IF r.block = NULL THEN onNull ELSE NULL
         /\ UNCHANGED lost

\* kfree of a block that is held; one smaller than MinUser is dropped.
Kfree(b) ==
  /\ size_list' = AddBlock(size_list, b)
  /\ lost' = IF b.size < MinUser THEN lost \cup {b} ELSE lost
  /\ used' = used \ {b}
  /\ ret' = NoCall
  /\ UNCHANGED <<taken, panic>>

Sizes == 0 .. PG_SIZE

CallMalloc ==
  /\ panic = NULL
  /\ Cardinality(used) < MaxUsed
  /\ \E size \in Sizes : Malloc(size, NULL)
  /\ UNCHANGED pending

\* A caller other than the one inside krealloc.
CallFree ==
  /\ panic = NULL
  /\ \E b \in used \ {pending} : Kfree(b)
  /\ UNCHANGED pending

\* krealloc up to the copy; it does not look at what kmalloc returned, and
\* the copy to NULL faults.
CallRealloc ==
  /\ panic = NULL /\ pending = NULL
  /\ Cardinality(used) < MaxUsed
  /\ \E b \in used, size \in Sizes \ {0} : Malloc(size, "pgfault") /\ pending' = b

ReallocFree ==
  /\ panic = NULL /\ pending # NULL
  /\ Kfree(pending)
  /\ pending' = NULL

Next == CallMalloc \/ CallFree \/ CallRealloc \/ ReallocFree

Spec == Init /\ [][Next]_vars

-----------------------------------------------------------------------------
(* Properties                                                              *)

Free == ToSet(size_list)
Bytes(b) == b.at .. End(b) - 1

\* Blocks are made of bytes and the pages taken are pages.
TypeOK ==
  /\ size_list \in Seq([at : Nat, size : Nat])
  /\ used \cup lost \subseteq [at : Nat, size : Nat]
  /\ taken \subseteq Pages
  /\ pending \in used \cup {NULL}
  /\ ret \in [size : Sizes, block : [at : Nat, size : Nat] \cup {NULL}]
  /\ panic \in {NULL, "OOM", "pgfault"}

\* The heap is tiled: every byte of every page taken lies in exactly one
\* block, free, held, or dropped because it was too small to link.
Tiled ==
  LET blocks == Free \cup used \cup lost IN
  /\ TypeOK
  /\ \A b, c \in blocks : b # c => Bytes(b) \cap Bytes(c) = {}
  /\ UNION {Bytes(b) : b \in blocks}
       = UNION {p * PG_SIZE .. (p + 1) * PG_SIZE - 1 : p \in taken}
  /\ Free \cap used = {} /\ Free \cap lost = {} /\ used \cap lost = {}
  /\ \A i, j \in DOMAIN size_list : i # j => size_list[i] # size_list[j]

\* Free blocks never touch: whatever the order of frees, add_block has merged
\* a block with both its neighbours.  What is left is sorted by size, which
\* makes the first fit of kmalloc the best fit.
CoalescedAndSorted ==
  /\ \A b, c \in Free : End(b) # c.at
  /\ \A i, j \in DOMAIN size_list : i < j => size_list[i].size <= size_list[j].size

\* A request that leaves room for a second block in a page never fails.  (One
\* that leaves less but some, gets a fresh page and is refused.)
SmallNeverFails ==
  ret.size \in 1 .. PG_SIZE - META - MIN_BLOCK_SIZE => ret.block # NULL
=============================================================================
