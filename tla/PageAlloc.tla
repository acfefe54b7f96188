------------------------------ MODULE PageAlloc ------------------------------
(***************************************************************************)
(* kernel/src/mem/page_alloc.c: the buddy allocator.  Every operation runs *)
(* with pgalloc_lock held, so each is one step; pgalloc_free_range is one  *)
(* step per block, with the others locked out until it is done.            *)
(*                                                                         *)
(* A block is named by its first page, and the linked free lists are       *)
(* sequences, front first.  bitmap[<<order, n>>] is the bit that the two   *)
(* buddies of pair n of that order share.                                  *)
(***************************************************************************)
EXTENDS Integers, Sequences, FiniteSetsExt

CONSTANTS MaxOrder,            \* MAX_ORDER
          NumPages,            \* max_addr / PG_SIZE
          StartPage, EndPage,  \* what kmain feeds through pgalloc_free_range
          Cleared,             \* whether the memory boot_alloc returns is zero
          NULL,
          Void                 \* what a function that returns nothing returns

ASSUME PageAssumption ==
  /\ {MaxOrder, NumPages, StartPage, EndPage} \subseteq Nat
  /\ StartPage <= EndPage /\ EndPage <= NumPages
  /\ Cleared \in BOOLEAN

VARIABLES list,    \* pgalloc_bins[order].list
          bitmap,  \* pgalloc_bins[order].bitmap
          feed,    \* start_pgidx of pgalloc_free_range
          used,    \* the blocks callers hold
          out,     \* what the last call returned: Void, a block, or NULL for a block
          panic    \* what the kernel stopped with, or NULL

vars == <<list, bitmap, feed, used, out, panic>>

Orders == 0 .. MaxOrder
Requests == -1 .. MaxOrder + 1  \* the orders asked for, two of them refused
Size[order \in 0 .. MaxOrder + 1] == IF order = 0 THEN 1 ELSE 2 * Size[order - 1]
PagesOf(b) == b.page .. b.page + Size[b.order] - 1
Aligned(page, order) == page % Size[order] = 0
Base(page, order) == page - (page % Size[order])
Pair(page, order) == page \div Size[order + 1]
Buddy(page, order) ==
  IF Aligned(Base(page, order), order + 1)
  THEN Base(page, order) + Size[order]
  ELSE Base(page, order) - Size[order]

Bits == UNION {{<<i, n>> : n \in 0 .. Pair(NumPages, i)} : i \in Orders}

\* pgalloc_init does not write the bitmaps it gets from boot_alloc.
Init ==
  /\ list = [i \in Orders |-> <<>>]
  /\ bitmap \in [Bits -> IF Cleared THEN {FALSE} ELSE BOOLEAN]
  /\ feed = StartPage
  /\ used = {}
  /\ out = Void
  /\ panic = NULL

\* The list without a page that is on it.
Unlink(s, page) ==
  LET k == CHOOSE n \in DOMAIN s : s[n] = page
  IN SubSeq(s, 1, k - 1) \o SubSeq(s, k + 1, Len(s))

\* The bits of page at the given orders, flipped.
Flip(bits, page, orders) ==
  [b \in Bits |-> IF b[1] \in orders /\ b[2] = Pair(page, b[1]) THEN ~bits[b] ELSE bits[b]]

\* Mutant: a merged block is not merged again.
FreeBlock_MergesOne(s, page, order) ==
  LET top == IF order < MaxOrder /\ s.bitmap[<<order, Pair(page, order)>>] THEN order + 1 ELSE order
  IN [list |-> [i \in Orders |-> IF i \in order .. top - 1
                                 THEN Unlink(s.list[i], Buddy(page, i))
                                 ELSE IF i = top THEN <<Base(page, top)>> \o s.list[i]
                                 ELSE s.list[i]],
      bitmap |-> Flip(s.bitmap, page, order .. top),
      panic |-> s.panic]

\* Mutant: the buddies a block is merged with stay on their lists.
FreeBlock_KeepsBuddy(s, page, order) ==
  LET top == Min({i \in order .. MaxOrder : ~(i < MaxOrder /\ s.bitmap[<<i, Pair(page, i)>>])})
  IN [list |-> [s.list EXCEPT ![top] = <<Base(page, top)>> \o @],
      bitmap |-> Flip(s.bitmap, page, order .. top),
      panic |-> s.panic]

\* s_free_block: the bit of each order is flipped on the way up, as long as
\* it was set and the buddy it stands for is found on that order's list.
FreeBlock(s, page, order) ==
  LET Merges(i) == i < MaxOrder /\ s.bitmap[<<i, Pair(page, i)>>]
      Found(i) == Buddy(page, i) \in Range(s.list[i])
      top == Min({i \in order .. MaxOrder : ~(Merges(i) /\ Found(i))})
  IN IF s.panic # NULL THEN s
     ELSE IF ~Aligned(page, order) THEN [s EXCEPT !.panic = "s_free_block"]
     ELSE [list |-> [i \in Orders |-> IF i \in order .. top - 1
                                      THEN Unlink(s.list[i], Buddy(page, i))
                                      ELSE IF i = top /\ ~Merges(top)
                                      THEN <<Base(page, top)>> \o s.list[i]
                                      ELSE s.list[i]],
           bitmap |-> Flip(s.bitmap, page, order .. top),
           panic |-> IF Merges(top) THEN "has buddy but can't find it???" ELSE NULL]

Bins == [list |-> list, bitmap |-> bitmap, panic |-> panic]
SetBins(s) ==
  /\ list' = s.list
  /\ bitmap' = s.bitmap
  /\ panic' = s.panic

\* pgalloc_free_range: the largest block that starts here and fits.
RangeOrder == Max({i \in Orders : Aligned(feed, i) /\ feed + Size[i] <= EndPage})

FreeRange ==
  /\ panic = NULL /\ feed < EndPage
  /\ SetBins(FreeBlock(Bins, feed, RangeOrder))
  /\ feed' = feed + Size[RangeOrder]
  /\ UNCHANGED <<used, out>>

\* Mutant: the bit of the list the block came from is left set.
TakeFirst_KeepsBit(i) == [list |-> [list EXCEPT ![i] = Tail(@)], bitmap |-> bitmap, panic |-> panic]

\* Taking the first block of order i off its list.
TakeFirst(i) ==
  [list |-> [list EXCEPT ![i] = Tail(@)],
   bitmap |-> Flip(bitmap, Head(list[i]), {i}),
   panic |-> panic]

\* The bins on the way back down from order i: the upper half of what is left
\* of its first block is freed at each order.
Split(i) ==
  LET page == Head(list[i])
      bins[j \in 0 .. i] == IF j = i THEN TakeFirst(i) ELSE FreeBlock(bins[j + 1], page + Size[j], j)
  IN bins

\* s_alloc_block: split the first block of the smallest order that has one.
Allocate(order) ==
  LET from == {i \in Orders : i >= order /\ list[i] # <<>>}
      i == Min(from)
      page == Head(list[i])
  IN /\ panic = NULL /\ feed = EndPage
     /\ IF order \notin Orders \/ from = {}
        THEN /\ out' = [page |-> NULL, order |-> order]
             /\ UNCHANGED <<list, bitmap, used, panic>>
        ELSE /\ SetBins(Split(i)[order])
             /\ out' = [page |-> page, order |-> order]
             /\ used' = used \cup {out'}
     /\ UNCHANGED feed

\* pgalloc_free, with the order the block was allocated with
Free(b) ==
  /\ panic = NULL /\ feed = EndPage
  /\ b \in used
  /\ SetBins(FreeBlock(Bins, b.page, b.order))
  /\ used' = used \ {b}
  /\ out' = Void
  /\ UNCHANGED feed

Next ==
  \/ FreeRange
  \/ \E order \in Requests : Allocate(order)
  \/ \E b \in used : Free(b)

Spec == Init /\ [][Next]_vars

-----------------------------------------------------------------------------
(* Properties                                                              *)

FreeBlocks == UNION {{[page |-> list[i][n], order |-> i] : n \in DOMAIN list[i]} : i \in Orders}
FreePages == UNION {PagesOf(b) : b \in FreeBlocks}

\* Lists hold pages, bitmaps bits, and callers blocks.
TypeOK ==
  /\ list \in [Orders -> Seq(0 .. NumPages)]
  /\ bitmap \in [Bits -> BOOLEAN]
  /\ feed \in StartPage .. EndPage
  /\ used \subseteq [page : 0 .. NumPages, order : Orders]
  /\ out \in used \cup {Void} \cup [page : {NULL}, order : Requests]
  /\ panic \in {NULL, "s_free_block", "has buddy but can't find it???"}

\* The one bit two buddies share tells whether exactly one of them is on the
\* free list: it is all s_free_block looks at before it merges them, and so it
\* never panics over a bit that promises a buddy the list does not have.
BitmapIsParity ==
  /\ panic = NULL
  /\ \A i \in Orders : \A p \in 0 .. NumPages :
       Aligned(p, i) =>
         (bitmap[<<i, Pair(p, i)>>] <=> ~(p \in Range(list[i]) <=> Buddy(p, i) \in Range(list[i])))

\* No page is lost and none is in two places: the blocks on the lists and the
\* blocks callers hold are apart, aligned, and make up all that was fed.
PagesAccounted ==
  LET blocks == FreeBlocks \cup used IN
  /\ TypeOK
  /\ \A b, c \in blocks : b # c => PagesOf(b) \cap PagesOf(c) = {}
  /\ \A b \in blocks : Aligned(b.page, b.order)
  /\ UNION {PagesOf(b) : b \in blocks} = StartPage .. feed - 1
  /\ FreeBlocks \cap used = {}
  /\ \A i \in Orders : IsInjective(list[i])

Abstract == INSTANCE PageSpec WITH
  free <- FreePages,
  Orders <- Requests

\* Splitting and merging do not show: a request is met from the free pages
\* whenever an aligned run of them is long enough.
Implements == Abstract!Spec
=============================================================================
