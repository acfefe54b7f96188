--------------------------- MODULE PageAllocProofs ---------------------------
(***************************************************************************)
(* The theorems of module PageAlloc: the bits are the parities, no page is *)
(* lost or in two places, and the allocator implements PageSpec.           *)
(***************************************************************************)
EXTENDS PageAlloc, WellFoundedInduction, TLAPS

\* Where a step names no prover, Zenon proves it.
USE ZenonT(30)

-----------------------------------------------------------------------------
(* Numbers                                                                 *)

\* Every set of numbers has a least one.
LEMMA Least == ASSUME NEW T \in SUBSET Nat, T # {} PROVE \E x \in T : \A y \in T : x <= y
<1> DEFINE R == {ss \in Nat \X Nat : ss[1] < ss[2]}
<1>1. IsWellFoundedOn(R, Nat)
  BY NatLessThanWellFounded DEF OpToRel
<1>2. \E x \in T : \A y \in T : ~(<<y, x>> \in R)
  <2> HIDE DEF R
  <2>. QED BY <1>1, WFMin
<1>3. PICK x \in T : \A y \in T : ~(<<y, x>> \in R)
  BY <1>2
<1>4. ASSUME NEW y \in T PROVE x <= y
  <2>1. x \in Nat /\ y \in Nat /\ <<y, x>> \notin R
    BY <1>3
  <2>2. ~(y < x)
    BY SMT, <2>1
  <2>. QED BY SMT, <2>1, <2>2
<1>. QED BY <1>4

\* A set that holds 0, and with each number below n the next one, holds n.
LEMMA Climb ==
  ASSUME NEW n \in Nat, NEW P, 0 \in P, \A i \in 0 .. n - 1 : i \in P => i + 1 \in P
  PROVE  \A i \in 0 .. n : i \in P
<1> DEFINE T == {i \in 0 .. n : i \notin P}
<1>1. SUFFICES ASSUME T # {} PROVE FALSE
  BY <1>1
<1>2. PICK x \in T : \A y \in T : x <= y
  <2>1. T \in SUBSET Nat
    BY SMT
  <2>. QED BY <1>1, <2>1, Least
<1>3. x \in 0 .. n /\ x \notin P
  BY <1>2
<1>4. x # 0
  BY <1>3
<1>5. x - 1 \in 0 .. n - 1 /\ x - 1 \in 0 .. n /\ ~(x <= x - 1) /\ (x - 1) + 1 = x
  BY SMT, <1>3, <1>4
<1>6. x - 1 \in P
  BY <1>2, <1>5
<1>. QED BY <1>3, <1>5, <1>6

\* Division, as the shifts and masks of the code do it.
LEMMA Division ==
  ASSUME NEW x \in Nat, NEW s \in Nat, s > 0
  PROVE  /\ x \div s \in Nat /\ x % s \in 0 .. s - 1 /\ x = s * (x \div s) + (x % s)
         /\ x - (x % s) = s * (x \div s)
<1>1. x = s * (x \div s) + (x % s)
  BY SMTT(30)
<1>2. x % s \in 0 .. s - 1
  BY SMTT(30)
<1>3. x \div s \in Nat
  BY SMTT(30)
<1>4. PICK k \in Nat, r \in 0 .. s - 1 : k = x \div s /\ r = x % s
  BY <1>2, <1>3
<1>5. x = s * k + r
  BY <1>1, <1>4
<1>6. x - r = s * k
  BY SMT, <1>5
<1>. QED BY <1>1, <1>2, <1>3, <1>4, <1>6

\* The quotient and the remainder are the only ones.
LEMMA Quotient ==
  ASSUME NEW s \in Nat, s > 0, NEW q \in Nat, NEW r \in 0 .. s - 1
  PROVE  (s * q + r) \div s = q /\ (s * q + r) % s = r
BY SMTT(30)

\* Different multiples of s are at least s apart.
LEMMA Multiples ==
  ASSUME NEW s \in Nat, s > 0, NEW q \in Int, NEW t \in Int, s * q < s * t + s
  PROVE  q <= t
BY SMTT(30)

\* The multiple of s that is not above x and less than s below it.
LEMMA Floor ==
  ASSUME NEW x \in Nat, NEW s \in Nat, s > 0
  PROVE  /\ x - (x % s) \in Nat /\ (x - (x % s)) % s = 0 /\ x - (x % s) <= x /\ x < (x - (x % s)) + s
         /\ x % s = 0 <=> x - (x % s) = x
         /\ \A q \in Nat : q % s = 0 /\ q <= x /\ x < q + s => q = x - (x % s)
<1>1. PICK k \in Nat : k = x \div s
  BY Division
<1>2. x % s \in 0 .. s - 1 /\ x = s * k + (x % s) /\ x - (x % s) = s * k
  BY <1>1, Division
<1>3. s * k \in Nat /\ s * k <= x /\ x < s * k + s /\ (x % s = 0 <=> s * k = x)
  BY SMT, <1>2
<1>4. (s * k) % s = 0
  <2>1. 0 \in 0 .. s - 1 /\ s * k + 0 = s * k
    BY SMT
  <2>2. (s * k + 0) % s = 0
    BY <2>1, Quotient
  <2>. QED BY <2>1, <2>2
<1>5. ASSUME NEW q \in Nat, q % s = 0, q <= x, x < q + s PROVE q = s * k
  <2>1. PICK m \in Nat : m = q \div s
    BY Division
  <2>2. q = s * m
    <3>1. q = s * (q \div s) + (q % s)
      BY Division
    <3>. QED BY SMT, <1>5, <2>1, <3>1
  <2>3. s * k < s * m + s /\ s * m < s * k + s
    BY SMT, <1>3, <1>5, <2>2
  <2>4. k <= m /\ m <= k
    <3>1. k \in Int /\ m \in Int
      BY SMT
    <3>. QED BY <2>3, <3>1, Multiples
  <2>. QED BY SMT, <2>2, <2>4
<1>. QED BY <1>2, <1>3, <1>4, <1>5

\* The two halves of a block of twice the size.
LEMMA Halves ==
  ASSUME NEW x \in Nat, NEW s \in Nat, s > 0
  PROVE  /\ (x - (x % s)) % (2 * s) = 0 => x - (x % (2 * s)) = x - (x % s)
         /\ (x - (x % s)) % (2 * s) # 0 => x - (x % (2 * s)) = (x - (x % s)) - s
<1> DEFINE b == x - (x % s)  u == x - (x % (2 * s))
<1> SUFFICES /\ b % (2 * s) = 0 => u = b
             /\ b % (2 * s) # 0 => u = b - s
  OBVIOUS
<1>0. 2 * s \in Nat /\ 2 * s > 0
  BY SMT
<1>1. /\ u \in Nat /\ u % (2 * s) = 0 /\ u <= x /\ x < u + 2 * s
      /\ \A q \in Nat : q % (2 * s) = 0 /\ q <= x /\ x < q + 2 * s => q = u
  BY <1>0, Floor
<1>2. /\ b \in Nat /\ b % s = 0 /\ b <= x /\ x < b + s
      /\ \A q \in Nat : q % s = 0 /\ q <= x /\ x < q + s => q = b
  BY Floor
<1> HIDE DEF b, u
<1>3. PICK k \in Nat : u = s * (2 * k)
  <2>1. u = (2 * s) * (u \div (2 * s)) + (u % (2 * s)) /\ u \div (2 * s) \in Nat
    BY <1>0, <1>1, Division
  <2>2. PICK k \in Nat : k = u \div (2 * s)
    BY <2>1
  <2>3. u = (2 * s) * k + 0
    BY <1>1, <2>1, <2>2
  <2>4. u = s * (2 * k)
    BY SMT, <2>3
  <2>. QED BY <2>4
<1>4. ASSUME NEW m \in Nat PROVE (s * m) % s = 0
  <2>1. 0 \in 0 .. s - 1 /\ s * m + 0 = s * m
    BY SMT
  <2>2. (s * m + 0) % s = 0
    BY <2>1, Quotient
  <2>. QED BY <2>1, <2>2
<1>5. u % s = 0 /\ (u + s) % s = 0
  <2>1. 2 * k \in Nat /\ 2 * k + 1 \in Nat /\ u + s = s * (2 * k + 1)
    BY SMT, <1>3
  <2>. QED BY <1>3, <1>4, <2>1
<1>6. CASE x < u + s
  <2>1. u = b
    BY <1>1, <1>2, <1>5, <1>6
  <2>. QED BY <1>1, <2>1
<1>7. CASE ~(x < u + s)
  <2>1. u + s = b
    <3>1. u + s \in Nat /\ u + s <= x /\ x < (u + s) + s
      BY SMT, <1>1, <1>7
    <3>. QED BY <1>2, <1>5, <3>1
  <2>2. u = b - s /\ u # b /\ b <= x /\ x < b + 2 * s
    BY SMT, <1>1, <1>2, <2>1
  <2>. QED BY <1>1, <1>2, <2>2
<1>. QED BY <1>6, <1>7
\* The sizes of the blocks exist: the powers of two up to any bound.
LEMMA PowersExist ==
  ASSUME NEW n \in Nat
  PROVE  \E g : g = [i \in 0 .. n |-> IF i = 0 THEN 1 ELSE 2 * g[i - 1]]
<1> DEFINE Powers(m, g) == g = [i \in 0 .. m |-> IF i = 0 THEN 1 ELSE 2 * g[i - 1]]
           P == {m \in Nat : \E g : Powers(m, g)}
<1>1. 0 \in P
  <2> DEFINE g == [i \in 0 .. 0 |-> 1]
  <2>1. Powers(0, g)
    BY SMT
  <2>. QED BY <2>1
<1>2. ASSUME NEW m \in 0 .. n - 1, m \in P PROVE m + 1 \in P
  <2>1. PICK g : Powers(m, g)
    BY <1>2
  <2> DEFINE h == [i \in 0 .. m + 1 |-> IF i = m + 1 THEN 2 * g[m] ELSE g[i]]
  <2>2. ASSUME NEW i \in 0 .. m + 1 PROVE h[i] = IF i = 0 THEN 1 ELSE 2 * h[i - 1]
    BY SMT, <2>1
  <2>3. Powers(m + 1, h)
    BY <2>2
  <2>4. m + 1 \in Nat
    BY SMT
  <2>. QED BY <2>3, <2>4
<1>3. n \in 0 .. n
  BY SMT
<1>4. n \in P
  <2> HIDE DEF P
  <2>. QED BY <1>1, <1>2, <1>3, Climb
<1>. QED BY <1>4

\* A block of the next order is twice as large.
LEMMA SizeIs ==
  /\ Size[0] = 1
  /\ \A i \in 0 .. MaxOrder : Size[i + 1] = 2 * Size[i]
<1> DEFINE n == MaxOrder + 1
<1>0. MaxOrder \in Nat /\ n \in Nat
  BY SMT, PageAssumption
<1>1. \E g : g = [order \in 0 .. n |-> IF order = 0 THEN 1 ELSE 2 * g[order - 1]]
  BY <1>0, PowersExist
<1>2. Size = [order \in 0 .. n |-> IF order = 0 THEN 1 ELSE 2 * Size[order - 1]]
  BY <1>1 DEF Size
<1>3. \A i \in 0 .. MaxOrder : i + 1 \in 0 .. n /\ i + 1 # 0 /\ (i + 1) - 1 = i
  BY SMT, <1>0
<1>4. 0 \in 0 .. n
  BY SMT, <1>0
<1> HIDE DEF n
<1>. QED BY <1>2, <1>3, <1>4

\* Sizes are positive numbers.
LEMMA Sizes ==
  /\ MaxOrder \in Nat /\ NumPages \in Nat /\ StartPage \in Nat /\ EndPage \in Nat
  /\ \A i \in 0 .. MaxOrder + 1 : Size[i] \in Nat /\ Size[i] > 0
  /\ \A i \in Orders : i \in Nat /\ i + 1 \in 0 .. MaxOrder + 1 /\ i \in 0 .. MaxOrder + 1
                       /\ Size[i + 1] = 2 * Size[i]
<1> DEFINE P == {i \in Nat : Size[i] \in Nat /\ Size[i] > 0}
<1>0. /\ MaxOrder \in Nat /\ NumPages \in Nat /\ StartPage \in Nat /\ EndPage \in Nat
  BY PageAssumption
<1>1. 0 \in P
  BY SMT, SizeIs
<1>2. ASSUME NEW i \in 0 .. (MaxOrder + 1) - 1, i \in P PROVE i + 1 \in P
  <2>1. i \in 0 .. MaxOrder
    BY SMT, <1>0
  <2>2. Size[i + 1] = 2 * Size[i]
    BY <2>1, SizeIs
  <2>. QED BY SMT, <1>2, <2>2
<1>3. \A i \in 0 .. MaxOrder + 1 : i \in P
  <2>1. MaxOrder + 1 \in Nat
    BY SMT, <1>0
  <2> HIDE DEF P
  <2>. QED BY <1>1, <1>2, <2>1, Climb
<1>4. \A i \in 0 .. MaxOrder : i \in Nat /\ i + 1 \in 0 .. MaxOrder + 1 /\ i \in 0 .. MaxOrder + 1
  BY SMT, <1>0
<1>. QED BY <1>0, <1>3, <1>4, SizeIs DEF Orders

\* Orders are compared as numbers.
LEMMA Ordering ==
  ASSUME NEW i \in Orders, NEW j \in Orders
  PROVE  /\ i <= j => i = j \/ i < j
         /\ i < j => i <= j /\ i # j /\ ~(j <= i) /\ i + 1 \in Orders /\ i + 1 <= j
         /\ ~(i <= j) => j < i
         /\ i >= j <=> j <= i
<1>1. i \in 0 .. MaxOrder /\ j \in 0 .. MaxOrder /\ MaxOrder \in Nat
  BY Sizes DEF Orders
<1>. QED BY SMT, <1>1 DEF Orders

\* An interval, and the one that starts where it ends.
LEMMA Interval ==
  ASSUME NEW a \in Nat, NEW b \in Nat, NEW s \in Nat, a <= b
  PROVE  /\ a .. (b + s) - 1 = (a .. b - 1) \cup (b .. b + s - 1)
         /\ (a .. b - 1) \cap (b .. b + s - 1) = {}
         /\ s > 0 => b \in b .. b + s - 1
BY SMT

-----------------------------------------------------------------------------
(* Blocks                                                                  *)

\* The pages of the block of the given order that page x lies in.
Span(x, i) == Base(x, i) .. Base(x, i) + Size[i] - 1

\* Where the block of a page begins.
LEMMA BaseIs ==
  ASSUME NEW x \in Nat, NEW i \in 0 .. MaxOrder + 1
  PROVE  /\ Base(x, i) \in Nat /\ Aligned(Base(x, i), i) /\ Base(x, i) <= x /\ x < Base(x, i) + Size[i]
         /\ Aligned(x, i) <=> Base(x, i) = x
         /\ \A q \in Nat : Aligned(q, i) /\ q <= x /\ x < q + Size[i] => q = Base(x, i)
<1>1. Size[i] \in Nat /\ Size[i] > 0
  BY Sizes
<1>. QED BY <1>1, Floor DEF Base, Aligned

\* The pages of a block are those with the same base.
LEMMA SpanIs ==
  ASSUME NEW x \in Nat, NEW i \in 0 .. MaxOrder + 1
  PROVE  /\ x \in Span(x, i)
         /\ \A y \in Span(x, i) : y \in Nat /\ Base(y, i) = Base(x, i) /\ Span(y, i) = Span(x, i)
         /\ \A y \in Nat : Base(y, i) = Base(x, i) => y \in Span(x, i)
<1>1. Size[i] \in Nat /\ Size[i] > 0
  BY Sizes
<1>2. /\ Base(x, i) \in Nat /\ Aligned(Base(x, i), i) /\ Base(x, i) <= x /\ x < Base(x, i) + Size[i]
  BY BaseIs
<1>3. ASSUME NEW b \in Nat, NEW s \in Nat, NEW y \in Nat
      PROVE  y \in b .. b + s - 1 <=> b <= y /\ y < b + s
  BY SMT
<1>4. ASSUME NEW b \in Nat, NEW s \in Nat, NEW y \in b .. b + s - 1 PROVE y \in Nat
  BY SMT
<1>5. ASSUME NEW y \in Span(x, i) PROVE y \in Nat /\ Base(y, i) = Base(x, i) /\ Span(y, i) = Span(x, i)
  <2>1. y \in Nat
    BY <1>1, <1>2, <1>4 DEF Span
  <2>2. Base(x, i) <= y /\ y < Base(x, i) + Size[i]
    BY <1>1, <1>2, <1>3, <2>1 DEF Span
  <2>3. Base(y, i) = Base(x, i)
    BY <1>2, <2>1, <2>2, BaseIs
  <2>. QED BY <2>1, <2>3 DEF Span
<1>6. ASSUME NEW y \in Nat, Base(y, i) = Base(x, i) PROVE y \in Span(x, i)
  <2>1. Base(x, i) <= y /\ y < Base(x, i) + Size[i]
    BY <1>6, BaseIs
  <2>. QED BY <1>1, <1>2, <1>3, <2>1 DEF Span
<1>7. x \in Span(x, i)
  BY <1>6
<1>. QED BY <1>5, <1>6, <1>7

\* The buddy of a block is the other half of the block of the next order.
LEMMA BuddyIs ==
  ASSUME NEW x \in Nat, NEW i \in Orders
  PROVE  /\ Buddy(x, i) \in Nat /\ Aligned(Buddy(x, i), i) /\ Buddy(x, i) # Base(x, i)
         /\ \/ Base(x, i + 1) = Base(x, i) /\ Buddy(x, i) = Base(x, i) + Size[i]
            \/ Base(x, i + 1) = Base(x, i) - Size[i] /\ Buddy(x, i) = Base(x, i) - Size[i]
<1>1. /\ i \in 0 .. MaxOrder + 1 /\ i + 1 \in 0 .. MaxOrder + 1 /\ Size[i] \in Nat /\ Size[i] > 0
      /\ Size[i + 1] = 2 * Size[i]
  BY Sizes
<1>2. /\ Base(x, i) \in Nat /\ Base(x, i + 1) \in Nat
  BY <1>1, BaseIs
<1>3. /\ Aligned(Base(x, i), i + 1) => Base(x, i + 1) = Base(x, i)
      /\ ~Aligned(Base(x, i), i + 1) => Base(x, i + 1) = Base(x, i) - Size[i]
  <2>1. Base(x, i) = x - (x % Size[i]) /\ Base(x, i + 1) = x - (x % (2 * Size[i]))
    BY <1>1 DEF Base
  <2>2. /\ Base(x, i) % (2 * Size[i]) = 0 => Base(x, i + 1) = Base(x, i)
        /\ Base(x, i) % (2 * Size[i]) # 0 => Base(x, i + 1) = Base(x, i) - Size[i]
    BY <1>1, <2>1, Halves
  <2>. QED BY <1>1, <2>2 DEF Aligned
<1>4. \/ Base(x, i + 1) = Base(x, i) /\ Buddy(x, i) = Base(x, i) + Size[i]
      \/ Base(x, i + 1) = Base(x, i) - Size[i] /\ Buddy(x, i) = Base(x, i) - Size[i]
  BY <1>3 DEF Buddy
<1>5. Buddy(x, i) \in Nat /\ Buddy(x, i) # Base(x, i)
  BY SMT, <1>1, <1>2, <1>4
<1>6. ASSUME NEW b \in Nat, NEW s \in Nat, s > 0, b % s = 0
      PROVE  (b + s) % s = 0 /\ (b - s \in Nat => (b - s) % s = 0)
  <2>1. PICK k \in Nat : b = s * k
    <3>1. b - (b % s) = s * (b \div s) /\ b \div s \in Nat
      BY <1>6, Division
    <3>2. b - 0 = b
      BY SMT
    <3>. QED BY <1>6, <3>1, <3>2
  <2>2. ASSUME NEW m \in Nat PROVE (s * m) % s = 0
    <3>1. 0 \in 0 .. s - 1 /\ s * m + 0 = s * m
      BY SMT, <1>6
    <3>2. (s * m + 0) % s = 0
      BY <1>6, <3>1, Quotient
    <3>. QED BY <3>1, <3>2
  <2>3. b + s = s * (k + 1) /\ k + 1 \in Nat
    BY SMT, <2>1
  <2>4. b - s \in Nat => b - s = s * (k - 1) /\ k - 1 \in Nat
    BY SMTT(30), <1>6, <2>1
  <2>. QED BY <2>2, <2>3, <2>4
<1>7. Aligned(Buddy(x, i), i)
  <2>1. Base(x, i) % Size[i] = 0
    BY <1>1, BaseIs DEF Aligned
  <2>2. /\ (Base(x, i) + Size[i]) % Size[i] = 0
        /\ Base(x, i) - Size[i] \in Nat => (Base(x, i) - Size[i]) % Size[i] = 0
    BY <1>1, <1>2, <1>6, <2>1
  <2>. QED BY <1>4, <1>5, <2>2 DEF Aligned
<1>. QED BY <1>4, <1>5, <1>7

\* A block and its buddy make up the block of the next order.
LEMMA BuddySpan ==
  ASSUME NEW x \in Nat, NEW i \in Orders
  PROVE  /\ Span(x, i + 1) = Span(x, i) \cup Span(Buddy(x, i), i)
         /\ Span(x, i) \cap Span(Buddy(x, i), i) = {}
<1>1. /\ i \in 0 .. MaxOrder + 1 /\ i + 1 \in 0 .. MaxOrder + 1 /\ Size[i] \in Nat /\ Size[i] > 0
      /\ Size[i + 1] = 2 * Size[i]
  BY Sizes
<1>2. /\ Base(x, i) \in Nat /\ Base(x, i + 1) \in Nat
  BY <1>1, BaseIs
<1>3. Buddy(x, i) \in Nat /\ Base(Buddy(x, i), i) = Buddy(x, i)
  BY <1>1, BuddyIs, BaseIs
<1>4. ASSUME NEW b \in Nat, NEW s \in Nat, s > 0
      PROVE  /\ (b .. b + s - 1) \cup (b + s .. (b + s) + s - 1) = b .. b + 2 * s - 1
             /\ (b .. b + s - 1) \cap (b + s .. (b + s) + s - 1) = {}
  BY SMT, <1>4
<1>5. CASE Base(x, i + 1) = Base(x, i) /\ Buddy(x, i) = Base(x, i) + Size[i]
  <2> DEFINE b == Base(x, i)  s == Size[i]
  <2>1. /\ (b .. b + s - 1) \cup (b + s .. (b + s) + s - 1) = b .. b + 2 * s - 1
        /\ (b .. b + s - 1) \cap (b + s .. (b + s) + s - 1) = {}
    BY <1>1, <1>2, <1>4
  <2>. QED BY <1>1, <1>3, <1>5, <2>1 DEF Span
<1>6. CASE Base(x, i + 1) = Base(x, i) - Size[i] /\ Buddy(x, i) = Base(x, i) - Size[i]
  <2>1. Base(x, i) = Base(x, i + 1) + Size[i] /\ Buddy(x, i) = Base(x, i + 1)
    BY SMT, <1>1, <1>2, <1>6
  <2> DEFINE b == Base(x, i + 1)  s == Size[i]
  <2>2. /\ (b .. b + s - 1) \cup (b + s .. (b + s) + s - 1) = b .. b + 2 * s - 1
        /\ (b .. b + s - 1) \cap (b + s .. (b + s) + s - 1) = {}
    BY <1>1, <1>2, <1>4
  <2>. QED BY <1>1, <1>3, <2>1, <2>2 DEF Span
<1>. QED BY <1>5, <1>6, BuddyIs

\* The buddy of the buddy, and the block above both.
LEMMA BuddyBack ==
  ASSUME NEW x \in Nat, NEW i \in Orders
  PROVE  /\ Base(Buddy(x, i), i) = Buddy(x, i) /\ Base(Buddy(x, i), i + 1) = Base(x, i + 1)
         /\ Buddy(Buddy(x, i), i) = Base(x, i) /\ Base(Base(x, i), i) = Base(x, i)
         /\ Base(Base(x, i), i + 1) = Base(x, i + 1) /\ Buddy(Base(x, i), i) = Buddy(x, i)
<1>1. /\ i \in 0 .. MaxOrder + 1 /\ i + 1 \in 0 .. MaxOrder + 1 /\ Size[i] \in Nat /\ Size[i] > 0
  BY Sizes
<1>2. /\ Buddy(x, i) \in Nat /\ Base(x, i) \in Nat /\ Buddy(x, i) # Base(x, i)
      /\ Base(Buddy(x, i), i) = Buddy(x, i) /\ Base(Base(x, i), i) = Base(x, i)
  BY <1>1, BuddyIs, BaseIs
<1>3. Buddy(x, i) \in Span(x, i + 1) /\ Base(x, i) \in Span(x, i + 1)
  <2>1. Buddy(x, i) \in Span(Buddy(x, i), i) /\ Base(x, i) \in Span(x, i)
    BY <1>1, <1>2, SpanIs
  <2>2. Span(x, i + 1) = Span(x, i) \cup Span(Buddy(x, i), i)
    BY BuddySpan
  <2>. QED BY <2>1, <2>2
<1>4. Base(Buddy(x, i), i + 1) = Base(x, i + 1) /\ Base(Base(x, i), i + 1) = Base(x, i + 1)
  BY <1>1, <1>3, SpanIs
<1>5. Buddy(Base(x, i), i) = Buddy(x, i)
  BY <1>2 DEF Buddy
<1>6. Buddy(Buddy(x, i), i) = Base(x, i)
  <2> DEFINE b == Base(x, i)  c == Buddy(x, i)  s == Size[i]  u == Base(x, i + 1)  e == Buddy(c, i)
  <2>1. \/ u = b /\ c = b + s
        \/ u = b - s /\ c = b - s
    BY BuddyIs
  <2>2. \/ u = c /\ e = c + s
        \/ u = c - s /\ e = c - s
    <3>1. c \in Nat /\ Base(c, i) = c /\ Base(c, i + 1) = u
      BY <1>2, <1>4
    <3> HIDE DEF b, c, s, u
    <3>2. \/ Base(c, i + 1) = Base(c, i) /\ Buddy(c, i) = Base(c, i) + Size[i]
          \/ Base(c, i + 1) = Base(c, i) - Size[i] /\ Buddy(c, i) = Base(c, i) - Size[i]
      BY <3>1, BuddyIs
    <3>. QED BY <3>1, <3>2 DEF s
  <2>3. b \in Nat /\ c \in Nat /\ s \in Nat /\ s > 0
    BY <1>1, <1>2
  <2> HIDE DEF b, c, s, u, e
  <2>4. e = b
    BY SMT, <2>1, <2>2, <2>3
  <2>. QED BY <2>4 DEF b, c, e
<1>. QED BY <1>2, <1>4, <1>5, <1>6

\* A block lies inside the block of a larger order that holds one of its pages.
LEMMA Nested ==
  ASSUME NEW x \in Nat, NEW i \in Orders, NEW j \in Orders, i <= j
  PROVE  Span(x, i) \subseteq Span(x, j)
<1> DEFINE P == {d \in Nat : Span(x, i) \subseteq Span(x, i + d)}
<1>0. i \in 0 .. MaxOrder /\ j \in 0 .. MaxOrder /\ MaxOrder \in Nat
  BY Sizes DEF Orders
<1>1. 0 \in P
  <2>1. i + 0 = i /\ 0 \in Nat
    BY SMT, <1>0
  <2>. QED BY <2>1
<1>2. ASSUME NEW d \in 0 .. (j - i) - 1, d \in P PROVE d + 1 \in P
  <2>1. i + d \in Orders /\ (i + d) + 1 = i + (d + 1) /\ d + 1 \in Nat
    BY SMT, <1>0 DEF Orders
  <2>2. Span(x, i + d) \subseteq Span(x, i + (d + 1))
    <3>1. Span(x, (i + d) + 1) = Span(x, i + d) \cup Span(Buddy(x, i + d), i + d)
      BY <2>1, BuddySpan
    <3>. QED BY <2>1, <3>1
  <2>. QED BY <1>2, <2>1, <2>2
<1>3. j - i \in Nat /\ j - i \in 0 .. j - i /\ i + (j - i) = j
  BY SMT, <1>0
<1>4. j - i \in P
  <2> HIDE DEF P
  <2>. QED BY <1>1, <1>2, <1>3, Climb
<1>. QED BY <1>3, <1>4

\* A page that begins a block begins the smaller ones too.
LEMMA AlignedBelow ==
  ASSUME NEW x \in Nat, NEW i \in Orders, NEW j \in Orders, i <= j, Aligned(x, j)
  PROVE  Aligned(x, i) /\ Base(x, i) = x /\ Base(x, j) = x
<1>1. i \in 0 .. MaxOrder + 1 /\ j \in 0 .. MaxOrder + 1 /\ Size[i] \in Nat /\ Size[i] > 0
  BY Sizes
<1>2. Base(x, i) \in Nat /\ Base(x, i) <= x /\ Base(x, j) = x
  BY <1>1, BaseIs
<1>3. Base(x, i) \in Span(x, j)
  <2>1. Base(Base(x, i), i) = Base(x, i)
    BY <1>1, <1>2, BaseIs
  <2>2. Base(x, i) \in Span(x, i)
    BY <1>1, <1>2, <2>1, SpanIs
  <2>. QED BY <2>2, Nested
<1>4. Base(x, i) >= x
  <2>1. Size[j] \in Nat
    BY <1>1, Sizes
  <2>2. Base(x, i) \in x .. x + Size[j] - 1
    BY <1>2, <1>3 DEF Span
  <2>. QED BY SMT, <1>2, <2>1, <2>2
<1>5. Base(x, i) = x
  BY SMT, <1>2, <1>4
<1>. QED BY <1>1, <1>2, <1>5, BaseIs

\* What a block consists of: the block of a smaller order around a page, and the
\* buddies on the way up.
LEMMA Pieces ==
  ASSUME NEW x \in Nat, NEW i \in Orders, NEW j \in Orders, i <= j
  PROVE  Span(x, j) = Span(x, i) \cup UNION {Span(Buddy(x, k), k) : k \in i .. j - 1}
<1> DEFINE Below(m) == UNION {Span(Buddy(x, k), k) : k \in i .. m - 1}
           P == {d \in Nat : Span(x, i + d) = Span(x, i) \cup Below(i + d)}
<1>0. i \in 0 .. MaxOrder /\ j \in 0 .. MaxOrder /\ MaxOrder \in Nat
  BY Sizes DEF Orders
<1>1. 0 \in P
  <2>1. i + 0 = i /\ 0 \in Nat /\ i .. i - 1 = {}
    BY SMT, <1>0
  <2>. QED BY <2>1
<1>2. ASSUME NEW d \in 0 .. (j - i) - 1, d \in P PROVE d + 1 \in P
  <2>1. /\ i + d \in Orders /\ (i + d) + 1 = i + (d + 1) /\ d + 1 \in Nat
        /\ i .. (i + (d + 1)) - 1 = (i .. (i + d) - 1) \cup {i + d}
    BY SMT, <1>0 DEF Orders
  <2>2. Span(x, i + (d + 1)) = Span(x, i + d) \cup Span(Buddy(x, i + d), i + d)
    BY <2>1, BuddySpan
  <2>3. Below(i + (d + 1)) = Below(i + d) \cup Span(Buddy(x, i + d), i + d)
    BY <2>1
  <2>. QED BY <1>2, <2>1, <2>2, <2>3
<1>3. j - i \in Nat /\ j - i \in 0 .. j - i /\ i + (j - i) = j
  BY SMT, <1>0
<1>4. j - i \in P
  <2> HIDE DEF P
  <2>. QED BY <1>1, <1>2, <1>3, Climb
<1>. QED BY <1>3, <1>4

\* The pieces are apart.
LEMMA PiecesApart ==
  ASSUME NEW x \in Nat, NEW i \in Orders, NEW k \in Orders, i <= k
  PROVE  /\ Span(x, i) \cap Span(Buddy(x, k), k) = {}
         /\ i < k => Span(Buddy(x, i), i) \cap Span(Buddy(x, k), k) = {}
<1>1. Span(x, k) \cap Span(Buddy(x, k), k) = {}
  BY BuddySpan
<1>2. Span(x, i) \subseteq Span(x, k)
  BY Nested
<1>3. ASSUME i < k PROVE Span(Buddy(x, i), i) \subseteq Span(x, k)
  <2>1. i + 1 \in Orders /\ i + 1 <= k
    BY SMT, <1>3, Sizes DEF Orders
  <2>2. Span(x, i + 1) \subseteq Span(x, k)
    BY <2>1, Nested
  <2>3. Span(Buddy(x, i), i) \subseteq Span(x, i + 1)
    BY BuddySpan
  <2>. QED BY <2>2, <2>3
<1>. QED BY <1>1, <1>2, <1>3

\* Two pages share the bit of an order exactly when they are in the same block
\* of the next order, and so in the same block or in two buddies.
LEMMA PairIs ==
  ASSUME NEW x \in Nat, NEW y \in Nat, NEW i \in Orders
  PROVE  /\ Pair(x, i) \in Nat /\ (x <= y => Pair(x, i) <= Pair(y, i))
         /\ Pair(x, i) = Pair(y, i) <=> Base(x, i + 1) = Base(y, i + 1)
         /\ Pair(x, i) = Pair(y, i) <=> Base(y, i) \in {Base(x, i), Buddy(x, i)}
<1>1. /\ i \in 0 .. MaxOrder + 1 /\ i + 1 \in 0 .. MaxOrder + 1
      /\ Size[i + 1] \in Nat /\ Size[i + 1] > 0
  BY Sizes
<1>2. ASSUME NEW z \in Nat
      PROVE  Pair(z, i) \in Nat /\ Base(z, i + 1) = Size[i + 1] * Pair(z, i)
  BY <1>1, Division DEF Pair, Base
<1>3. PICK s \in Nat, p \in Nat, q \in Nat : s = Size[i + 1] /\ p = Pair(x, i) /\ q = Pair(y, i)
  BY <1>1, <1>2
<1>4. s > 0 /\ Base(x, i + 1) = s * p /\ Base(y, i + 1) = s * q
  BY <1>1, <1>2, <1>3
<1>5. p = q <=> s * p = s * q
  BY SMT, <1>4
<1>6. x <= y => p <= q
  <2>1. s * p <= x /\ y < s * q + s
    <3>1. Base(x, i + 1) <= x /\ y < Base(y, i + 1) + Size[i + 1]
      BY <1>1, BaseIs
    <3>. QED BY <1>3, <1>4, <3>1
  <2>2. x <= y => s * p < s * q + s
    BY SMT, <2>1
  <2>3. p \in Int /\ q \in Int
    BY SMT
  <2>. QED BY <1>4, <2>2, <2>3, Multiples
<1>7. Base(x, i + 1) = Base(y, i + 1) <=> Base(y, i) \in {Base(x, i), Buddy(x, i)}
  <2>1. y \in Span(x, i) => Base(y, i) = Base(x, i)
    BY SMT, <1>1, SpanIs
  <2>2. ASSUME Base(x, i + 1) = Base(y, i + 1) PROVE Base(y, i) \in {Base(x, i), Buddy(x, i)}
    <3>1. y \in Span(x, i + 1)
      BY <1>1, <2>2, SpanIs
    <3>2. Span(x, i + 1) = Span(x, i) \cup Span(Buddy(x, i), i)
      BY BuddySpan
    <3>3. Buddy(x, i) \in Nat /\ Base(Buddy(x, i), i) = Buddy(x, i)
      BY BuddyIs, BuddyBack
    <3>4. y \in Span(Buddy(x, i), i) => Base(y, i) = Buddy(x, i)
      BY <1>1, <3>3, SpanIs
    <3>. QED BY <2>1, <3>1, <3>2, <3>4
  <2>3. ASSUME Base(y, i) \in {Base(x, i), Buddy(x, i)} PROVE Base(x, i + 1) = Base(y, i + 1)
    <3>1. Base(Base(y, i), i + 1) = Base(y, i + 1)
      BY BuddyBack
    <3>2. Base(Base(x, i), i + 1) = Base(x, i + 1) /\ Base(Buddy(x, i), i + 1) = Base(x, i + 1)
      BY BuddyBack
    <3>. QED BY <2>3, <3>1, <3>2
  <2>. QED BY <2>2, <2>3
<1>. QED BY <1>2, <1>3, <1>4, <1>5, <1>6, <1>7

\* Every pair of pages that exist has its bit.
LEMMA BitsAre ==
  /\ \A i, n : <<i, n>> \in Bits => i \in Orders /\ n \in Nat
  /\ \A b \in Bits : b = <<b[1], b[2]>>
  /\ \A x \in 0 .. NumPages, i \in Orders : <<i, Pair(x, i)>> \in Bits
<1>1. ASSUME NEW x \in 0 .. NumPages, NEW i \in Orders PROVE <<i, Pair(x, i)>> \in Bits
  <2>1. x \in Nat /\ NumPages \in Nat /\ x <= NumPages
    BY SMT, Sizes
  <2>2. Pair(x, i) \in Nat /\ Pair(NumPages, i) \in Nat /\ Pair(x, i) <= Pair(NumPages, i)
    BY <2>1, PairIs
  <2>3. Pair(x, i) \in 0 .. Pair(NumPages, i)
    BY SMT, <2>2
  <2>4. <<i, Pair(x, i)>> \in {<<i, n>> : n \in 0 .. Pair(NumPages, i)}
    BY <2>3
  <2>. QED BY <2>4 DEF Bits
<1>2. ASSUME NEW i, NEW n, <<i, n>> \in Bits PROVE i \in Orders /\ n \in Nat
  <2>1. PICK j \in Orders : \E m \in 0 .. Pair(NumPages, j) : <<i, n>> = <<j, m>>
    BY <1>2 DEF Bits
  <2>2. PICK m \in 0 .. Pair(NumPages, j) : <<i, n>> = <<j, m>>
    BY <2>1
  <2>3. i = j /\ n = m
    BY <2>2
  <2>4. Pair(NumPages, j) \in Nat
    BY Sizes, PairIs
  <2>5. m \in Nat
    BY SMT, <2>4
  <2>. QED BY <2>3, <2>5
<1>3. ASSUME NEW b \in Bits PROVE b = <<b[1], b[2]>>
  <2>1. PICK j \in Orders : b \in {<<j, n>> : n \in 0 .. Pair(NumPages, j)}
    BY DEF Bits
  <2>2. PICK n \in 0 .. Pair(NumPages, j) : b = <<j, n>>
    BY <2>1
  <2>3. <<j, n>>[1] = j /\ <<j, n>>[2] = n
    OBVIOUS
  <2>. QED BY <2>2, <2>3
<1>. QED BY <1>1, <1>2, <1>3

\* A flip changes the bits of one page at the given orders.
LEMMA FlipIs ==
  ASSUME NEW bits \in [Bits -> BOOLEAN], NEW page, NEW Os
  PROVE  /\ Flip(bits, page, Os) \in [Bits -> BOOLEAN]
         /\ \A i, n : <<i, n>> \in Bits =>
              /\ i \in Os /\ n = Pair(page, i) => (Flip(bits, page, Os)[<<i, n>>] <=> ~bits[<<i, n>>])
              /\ ~(i \in Os /\ n = Pair(page, i)) => (Flip(bits, page, Os)[<<i, n>>] <=> bits[<<i, n>>])
<1>1. \A b \in Bits : bits[b] \in BOOLEAN
  OBVIOUS
<1>2. \A b \in Bits : (IF b[1] \in Os /\ b[2] = Pair(page, b[1]) THEN ~bits[b] ELSE bits[b]) \in BOOLEAN
  BY <1>1
<1>3. Flip(bits, page, Os) \in [Bits -> BOOLEAN]
  BY <1>2 DEF Flip
<1>4. ASSUME NEW i, NEW n, <<i, n>> \in Bits
      PROVE Flip(bits, page, Os)[<<i, n>>] = IF i \in Os /\ n = Pair(page, i) THEN ~bits[<<i, n>>] ELSE bits[<<i, n>>]
  <2>1. <<i, n>>[1] = i /\ <<i, n>>[2] = n
    OBVIOUS
  <2>. QED BY <1>4, <2>1 DEF Flip
<1>. QED BY <1>3, <1>4

-----------------------------------------------------------------------------
(* Lists                                                                   *)

\* The pages on a list.
LEMMA OnList ==
  ASSUME NEW S, NEW s \in Seq(S)
  PROVE  /\ DOMAIN s = 1 .. Len(s) /\ Len(s) \in Nat /\ Range(s) \subseteq S
         /\ s = <<>> <=> Range(s) = {}
<1>1. DOMAIN s = 1 .. Len(s) /\ Len(s) \in Nat /\ (\A n \in 1 .. Len(s) : s[n] \in S) /\ (s = <<>> <=> Len(s) = 0)
  BY SMT
<1>2. Range(s) \subseteq S
  BY <1>1 DEF Range
<1>3. Len(s) = 0 <=> 1 .. Len(s) = {}
  BY SMT, <1>1
<1>4. 1 .. Len(s) = {} <=> Range(s) = {}
  BY <1>1 DEF Range
<1>. QED BY <1>1, <1>2, <1>3, <1>4

\* A page in front of a list.
LEMMA Pushed ==
  ASSUME NEW S, NEW s \in Seq(S), NEW e \in S, IsInjective(s), e \notin Range(s)
  PROVE  /\ <<e>> \o s \in Seq(S) /\ IsInjective(<<e>> \o s) /\ Range(<<e>> \o s) = Range(s) \cup {e}
<1> DEFINE t == <<e>> \o s
<1>1. /\ t \in Seq(S) /\ DOMAIN t = 1 .. Len(s) + 1 /\ Len(s) \in Nat /\ DOMAIN s = 1 .. Len(s) /\ t[1] = e
      /\ \A n \in 1 .. Len(s) : t[n + 1] = s[n]
  BY SMT
<1>2. \A n \in 1 .. Len(s) + 1 : n = 1 \/ (n - 1 \in 1 .. Len(s) /\ (n - 1) + 1 = n)
  BY SMT, <1>1
<1>3. 1 \in 1 .. Len(s) + 1 /\ \A n \in 1 .. Len(s) : n + 1 \in 1 .. Len(s) + 1
  BY SMT, <1>1
<1> HIDE DEF t
<1>4. \A n \in 1 .. Len(s) + 1 : n # 1 => t[n] = s[n - 1]
  BY <1>1, <1>2
<1>5. Range(t) = Range(s) \cup {e}
  <2>1. ASSUME NEW x \in Range(t) PROVE x \in Range(s) \cup {e}
    <3>1. PICK n \in 1 .. Len(s) + 1 : x = t[n]
      BY <1>1 DEF Range
    <3>2. n # 1 => x = s[n - 1] /\ n - 1 \in DOMAIN s
      BY <1>1, <1>2, <1>4, <3>1
    <3>. QED BY <1>1, <3>1, <3>2 DEF Range
  <2>2. ASSUME NEW x \in Range(s) PROVE x \in Range(t)
    BY <1>1, <1>3 DEF Range
  <2>3. e \in Range(t)
    BY <1>1, <1>3 DEF Range
  <2>. QED BY <2>1, <2>2, <2>3
<1>6. IsInjective(t)
  <2>1. ASSUME NEW m \in 1 .. Len(s) + 1, NEW n \in 1 .. Len(s) + 1, t[m] = t[n] PROVE m = n
    <3>1. ASSUME NEW k \in 1 .. Len(s) + 1, k # 1 PROVE t[k] # e
      <4>1. t[k] = s[k - 1] /\ k - 1 \in DOMAIN s
        BY <1>1, <1>2, <1>4, <3>1
      <4>2. t[k] \in Range(s)
        BY <4>1 DEF Range
      <4>. QED BY <4>2
    <3>2. CASE m = 1 \/ n = 1
      BY <1>1, <2>1, <3>1, <3>2
    <3>3. CASE m # 1 /\ n # 1
      <4>1. s[m - 1] = s[n - 1]
        BY <1>4, <2>1, <3>3
      <4>2. m - 1 = n - 1
        BY <1>1, <1>2, <3>3, <4>1 DEF IsInjective
      <4>. QED BY <1>2, <3>3, <4>2
    <3>. QED BY <3>2, <3>3
  <2>. QED BY <1>1, <2>1 DEF IsInjective
<1>. QED BY <1>1, <1>5, <1>6 DEF t

\* List t is list s without its k-th page.
Without(s, t, k) ==
  /\ DOMAIN t = 1 .. Len(s) - 1
  /\ \A n \in 1 .. Len(s) - 1 : (n < k => t[n] = s[n]) /\ (~(n < k) => t[n] = s[n + 1])

\* An injective sequence without one of its elements has the others.
LEMMA Shortened ==
  ASSUME NEW S, NEW s \in Seq(S), NEW k \in 1 .. Len(s), IsInjective(s), NEW t, Without(s, t, k)
  PROVE  IsInjective(t) /\ Range(t) = Range(s) \ {s[k]}
<1> DEFINE f(n) == IF n < k THEN n ELSE n + 1
           g(n) == IF n < k THEN n ELSE n - 1
<1>1. DOMAIN s = 1 .. Len(s) /\ Len(s) \in Nat
  BY OnList
<1>2. /\ \A n \in 1 .. Len(s) - 1 : f(n) \in 1 .. Len(s) /\ f(n) # k
      /\ \A m, n \in 1 .. Len(s) - 1 : f(m) = f(n) => m = n
      /\ \A n \in 1 .. Len(s) : n # k => g(n) \in 1 .. Len(s) - 1 /\ f(g(n)) = n
  BY SMT, <1>1
<1>3. DOMAIN t = 1 .. Len(s) - 1 /\ \A n \in 1 .. Len(s) - 1 : t[n] = s[f(n)]
  BY DEF Without
<1> HIDE DEF f, g
<1>4. \A m, n \in 1 .. Len(s) : s[m] = s[n] => m = n
  BY <1>1 DEF IsInjective
<1>5. IsInjective(t)
  <2>1. ASSUME NEW m \in 1 .. Len(s) - 1, NEW n \in 1 .. Len(s) - 1, t[m] = t[n] PROVE m = n
    <3>1. s[f(m)] = s[f(n)] /\ f(m) \in 1 .. Len(s) /\ f(n) \in 1 .. Len(s)
      BY <1>2, <1>3, <2>1
    <3>2. f(m) = f(n)
      BY <1>4, <3>1
    <3>. QED BY <1>2, <3>2
  <2>. QED BY <1>3, <2>1 DEF IsInjective
<1>6. ASSUME NEW x \in Range(t) PROVE x \in Range(s) \ {s[k]}
  <2>1. PICK n \in 1 .. Len(s) - 1 : x = t[n]
    BY <1>3 DEF Range
  <2>2. x = s[f(n)] /\ f(n) \in 1 .. Len(s) /\ f(n) # k
    BY <1>2, <1>3, <2>1
  <2>3. x # s[k]
    BY <1>4, <2>2
  <2>. QED BY <1>1, <2>2, <2>3 DEF Range
<1>7. ASSUME NEW x \in Range(s) \ {s[k]} PROVE x \in Range(t)
  <2>1. PICK n \in 1 .. Len(s) : x = s[n] /\ n # k
    BY <1>1 DEF Range
  <2>2. g(n) \in 1 .. Len(s) - 1 /\ t[g(n)] = x
    BY <1>2, <1>3, <2>1
  <2>. QED BY <1>3, <2>2 DEF Range
<1>. QED BY <1>5, <1>6, <1>7

\* A list without its first page.
LEMMA Popped ==
  ASSUME NEW S, NEW s \in Seq(S), s # <<>>, IsInjective(s)
  PROVE  /\ Tail(s) \in Seq(S) /\ Head(s) \in Range(s) /\ IsInjective(Tail(s))
         /\ Range(Tail(s)) = Range(s) \ {Head(s)}
<1>1. /\ Tail(s) \in Seq(S) /\ DOMAIN Tail(s) = 1 .. Len(s) - 1 /\ Head(s) = s[1] /\ 1 \in 1 .. Len(s)
      /\ \A n \in 1 .. Len(s) - 1 : Tail(s)[n] = s[n + 1] /\ ~(n < 1)
  BY SMT
<1>2. Without(s, Tail(s), 1)
  BY <1>1 DEF Without
<1>3. IsInjective(Tail(s)) /\ Range(Tail(s)) = Range(s) \ {s[1]}
  BY <1>1, <1>2, Shortened
<1>4. s[1] \in Range(s)
  <2>1. 1 \in DOMAIN s
    BY <1>1, OnList
  <2>. QED BY <2>1 DEF Range
<1>. QED BY <1>1, <1>3, <1>4

\* A list without its n-th page.
RemoveAt(s, n) == SubSeq(s, 1, n - 1) \o SubSeq(s, n + 1, Len(s))

\* RemoveAt takes out the element at a position and moves up those behind it.
LEMMA Unlinking ==
  ASSUME NEW S, NEW l \in Seq(S), NEW n \in 1..Len(l)
  PROVE  /\ RemoveAt(l, n) \in Seq(S) /\ Len(RemoveAt(l, n)) = Len(l) - 1
         /\ \A i \in 1 .. Len(l) - 1 : RemoveAt(l, n)[i] = l[IF i < n THEN i ELSE i + 1]
<1> DEFINE a == SubSeq(l, 1, n - 1)
           b == SubSeq(l, n + 1, Len(l))
<1>1. a \in Seq(S) /\ Len(a) = n - 1 /\ \A i \in 1 .. n - 1 : a[i] = l[i]
  BY SMT
<1>2. b \in Seq(S) /\ Len(b) = Len(l) - n /\ \A i \in 1 .. Len(l) - n : b[i] = l[n + i]
  BY SMT
<1> HIDE DEF a, b
<1>3. a \o b \in Seq(S) /\ Len(a \o b) = Len(l) - 1
  <2>1. a \in Seq(S) /\ b \in Seq(S) /\ Len(a) = n - 1 /\ Len(b) = Len(l) - n
    BY <1>1, <1>2
  <2>. QED BY SMT, <2>1
<1>4. ASSUME NEW i \in 1 .. Len(l) - 1 PROVE (a \o b)[i] = l[IF i < n THEN i ELSE i + 1]
  <2>1. CASE i < n
    BY SMT, <1>1, <1>2, <2>1
  <2>2. CASE ~(i < n)
    <3>1. (a \o b)[i] = b[i - (n - 1)]
      BY SMT, <1>1, <1>2, <2>2
    <3>2. i - (n - 1) \in 1 .. Len(l) - n /\ n + (i - (n - 1)) = i + 1
      BY SMT, <2>2
    <3>. QED BY <1>2, <2>2, <3>1, <3>2
  <2>. QED BY <2>1, <2>2
<1>. QED BY <1>3, <1>4 DEF RemoveAt, a, b

\* A list without a page that is on it.
LEMMA Unlinked ==
  ASSUME NEW S, NEW s \in Seq(S), IsInjective(s), NEW e \in Range(s)
  PROVE  Unlink(s, e) \in Seq(S) /\ IsInjective(Unlink(s, e)) /\ Range(Unlink(s, e)) = Range(s) \ {e}
<1>1. PICK k \in DOMAIN s : s[k] = e /\ Unlink(s, e) = RemoveAt(s, k)
  <2>1. \E n \in DOMAIN s : s[n] = e
    BY DEF Range
  <2>. QED BY <2>1 DEF Unlink, RemoveAt
<1>2. k \in 1 .. Len(s)
  BY OnList
<1>3. RemoveAt(s, k) \in Seq(S) /\ Without(s, RemoveAt(s, k), k)
  <2>1. /\ RemoveAt(s, k) \in Seq(S) /\ Len(RemoveAt(s, k)) = Len(s) - 1
        /\ \A n \in 1 .. Len(s) - 1 : RemoveAt(s, k)[n] = s[IF n < k THEN n ELSE n + 1]
    BY <1>2, Unlinking
  <2>2. DOMAIN RemoveAt(s, k) = 1 .. Len(s) - 1
    BY <2>1, OnList
  <2>. QED BY <2>1, <2>2 DEF Without
<1>4. IsInjective(RemoveAt(s, k)) /\ Range(RemoveAt(s, k)) = Range(s) \ {s[k]}
  BY <1>2, <1>3, Shortened
<1>. QED BY <1>1, <1>3, <1>4

-----------------------------------------------------------------------------
(* The bins                                                                *)

\* The blocks on the lists, and their pages.
Blocks(l) == UNION {{[page |-> l[i][n], order |-> i] : n \in DOMAIN l[i]} : i \in Orders}
Covered(l) == UNION {PagesOf(b) : b \in Blocks(l)}

\* No page is in two blocks.
Apart(B) == \A b, c \in B : b # c => PagesOf(b) \cap PagesOf(c) = {}

\* The bit of a pair says whether one of the two is on its list.
Parity(l, bits) ==
  \A i \in Orders : \A p \in 0 .. NumPages :
    Aligned(p, i) => (bits[<<i, Pair(p, i)>>] <=> ~(p \in Range(l[i]) <=> Buddy(p, i) \in Range(l[i])))

\* Below the largest order, two buddies are never both on the list: they would
\* have been merged.
Merged(l) ==
  \A i \in Orders : i < MaxOrder => \A p \in Range(l[i]) : Buddy(p, i) \notin Range(l[i])

\* Lists l and bits are in order while callers hold the blocks U.
Sound(l, bits, U) ==
  /\ l \in [Orders -> Seq(0 .. NumPages)] /\ \A i \in Orders : IsInjective(l[i])
  /\ bits \in [Bits -> BOOLEAN] /\ Parity(l, bits) /\ Merged(l)
  /\ U \subseteq [page : 0 .. NumPages, order : Orders]
  /\ \A b \in Blocks(l) \cup U : Aligned(b.page, b.order)
  /\ Apart(Blocks(l) \cup U) /\ Blocks(l) \cap U = {}

\* The block with the given page on a list.
LEMMA BlocksAre ==
  ASSUME NEW l
  PROVE  /\ \A b \in Blocks(l) : b = [page |-> b.page, order |-> b.order] /\ b.order \in Orders /\ b.page \in Range(l[b.order])
         /\ \A i \in Orders : \A p : [page |-> p, order |-> i] \in Blocks(l) <=> p \in Range(l[i])
<1>1. ASSUME NEW i \in Orders, NEW p \in Range(l[i]) PROVE [page |-> p, order |-> i] \in Blocks(l)
  <2>1. PICK n \in DOMAIN l[i] : p = l[i][n]
    BY DEF Range
  <2>2. [page |-> p, order |-> i] \in {[page |-> l[i][m], order |-> i] : m \in DOMAIN l[i]}
    BY <2>1
  <2>. QED BY <2>2 DEF Blocks
<1>2. ASSUME NEW b \in Blocks(l)
      PROVE  \E i \in Orders : \E p \in Range(l[i]) : b = [page |-> p, order |-> i]
  <2>1. PICK i \in Orders : b \in {[page |-> l[i][n], order |-> i] : n \in DOMAIN l[i]}
    BY DEF Blocks
  <2>2. PICK n \in DOMAIN l[i] : b = [page |-> l[i][n], order |-> i]
    BY <2>1
  <2>3. l[i][n] \in Range(l[i])
    BY DEF Range
  <2>. QED BY <2>2, <2>3
<1>3. ASSUME NEW b \in Blocks(l)
      PROVE  b = [page |-> b.page, order |-> b.order] /\ b.order \in Orders /\ b.page \in Range(l[b.order])
  <2>1. PICK i \in Orders : \E p \in Range(l[i]) : b = [page |-> p, order |-> i]
    BY <1>2
  <2>2. PICK p \in Range(l[i]) : b = [page |-> p, order |-> i]
    BY <2>1
  <2>3. b.page = p /\ b.order = i
    BY <2>2
  <2>. QED BY <2>2, <2>3
<1>4. ASSUME NEW i \in Orders, NEW p, [page |-> p, order |-> i] \in Blocks(l) PROVE p \in Range(l[i])
  <2>1. [page |-> p, order |-> i].page = p /\ [page |-> p, order |-> i].order = i
    OBVIOUS
  <2>. QED BY <1>3, <1>4, <2>1
<1>. QED BY <1>1, <1>3, <1>4

\* The pages of an aligned block.
LEMMA PagesAre ==
  ASSUME NEW p \in Nat, NEW i \in Orders, Aligned(p, i)
  PROVE  PagesOf([page |-> p, order |-> i]) = Span(p, i) /\ Base(p, i) = p
<1>1. [page |-> p, order |-> i].page = p /\ [page |-> p, order |-> i].order = i
  OBVIOUS
<1>2. Base(p, i) = p
  <2>1. i \in 0 .. MaxOrder + 1
    BY Sizes
  <2>. QED BY <2>1, BaseIs
<1>. QED BY <1>1, <1>2 DEF PagesOf, Span

\* Flipping the bits of a page at some orders keeps the parities, when exactly
\* one of the page's block and its buddy comes or goes at each of them.
LEMMA ParityKept ==
  ASSUME NEW l, NEW m, NEW bits \in [Bits -> BOOLEAN], NEW page \in 0 .. NumPages, NEW Os,
         Parity(l, bits),
         \A i \in Orders : i \notin Os => Range(m[i]) = Range(l[i]),
         \A i \in Orders : i \in Os => \E q \in {Base(page, i), Buddy(page, i)} :
           (q \in Range(m[i]) <=> q \notin Range(l[i])) /\ \A p : p # q => (p \in Range(m[i]) <=> p \in Range(l[i]))
  PROVE  Parity(m, Flip(bits, page, Os))
<1> SUFFICES ASSUME NEW i \in Orders, NEW p \in 0 .. NumPages, Aligned(p, i)
             PROVE  Flip(bits, page, Os)[<<i, Pair(p, i)>>] <=> ~(p \in Range(m[i]) <=> Buddy(p, i) \in Range(m[i]))
  BY DEF Parity
<1>1. page \in Nat /\ p \in Nat /\ i \in 0 .. MaxOrder + 1
  BY SMT, Sizes
<1>2. bits[<<i, Pair(p, i)>>] <=> ~(p \in Range(l[i]) <=> Buddy(p, i) \in Range(l[i]))
  BY DEF Parity
<1>3. /\ i \in Os /\ Pair(p, i) = Pair(page, i) => (Flip(bits, page, Os)[<<i, Pair(p, i)>>] <=> ~bits[<<i, Pair(p, i)>>])
      /\ ~(i \in Os /\ Pair(p, i) = Pair(page, i)) => (Flip(bits, page, Os)[<<i, Pair(p, i)>>] <=> bits[<<i, Pair(p, i)>>])
  <2>1. <<i, Pair(p, i)>> \in Bits
    BY BitsAre
  <2>. QED BY <2>1, FlipIs
<1>4. /\ Pair(page, i) = Pair(p, i) <=> Base(p, i) \in {Base(page, i), Buddy(page, i)}
      /\ Base(p, i) = p /\ Buddy(Buddy(p, i), i) = Base(p, i) /\ Base(Buddy(p, i), i) = Buddy(p, i)
      /\ Buddy(Base(page, i), i) = Buddy(page, i) /\ Buddy(Buddy(page, i), i) = Base(page, i)
      /\ Buddy(page, i) # Base(page, i)
  <2>1. Pair(page, i) = Pair(p, i) <=> Base(p, i) \in {Base(page, i), Buddy(page, i)}
    BY <1>1, PairIs
  <2>2. Base(p, i) = p
    BY <1>1, BaseIs
  <2>3. Buddy(Buddy(p, i), i) = Base(p, i) /\ Base(Buddy(p, i), i) = Buddy(p, i)
    BY <1>1, BuddyBack
  <2>4. Buddy(Base(page, i), i) = Buddy(page, i) /\ Buddy(Buddy(page, i), i) = Base(page, i)
    BY <1>1, BuddyBack
  <2>5. Buddy(page, i) # Base(page, i)
    BY <1>1, BuddyIs
  <2>. QED BY <2>1, <2>2, <2>3, <2>4, <2>5
<1>5. CASE i \notin Os
  BY <1>2, <1>3, <1>5
<1>6. CASE i \in Os
  <2>1. PICK q \in {Base(page, i), Buddy(page, i)} :
           (q \in Range(m[i]) <=> q \notin Range(l[i])) /\ \A z : z # q => (z \in Range(m[i]) <=> z \in Range(l[i]))
    BY <1>6
  <2>2. CASE Pair(p, i) = Pair(page, i)
    <3>1. (p = Base(page, i) /\ Buddy(p, i) = Buddy(page, i)) \/ (p = Buddy(page, i) /\ Buddy(p, i) = Base(page, i))
      BY <1>4, <2>2
    <3>2. (p = q /\ Buddy(p, i) # q) \/ (p # q /\ Buddy(p, i) = q)
      BY <1>4, <2>1, <3>1
    <3>3. ~(p \in Range(m[i]) <=> Buddy(p, i) \in Range(m[i])) <=> (p \in Range(l[i]) <=> Buddy(p, i) \in Range(l[i]))
      BY <2>1, <3>2
    <3>. QED BY <1>2, <1>3, <1>6, <2>2, <3>3
  <2>3. CASE Pair(p, i) # Pair(page, i)
    <3>1. p # q /\ Buddy(p, i) # q
      BY <1>4, <2>1, <2>3
    <3>. QED BY <1>2, <1>3, <2>1, <2>3, <3>1
  <2>. QED BY <2>2, <2>3
<1>. QED BY <1>5, <1>6

-----------------------------------------------------------------------------
(* s_free_block                                                            *)

\* Lists m are lists l after the block of page at the given order was freed and
\* merged with its buddies up to order top.
Freed(l, m, page, order, top) ==
  /\ m \in [Orders -> Seq(0 .. NumPages)] /\ \A i \in Orders : IsInjective(m[i])
  /\ top \in Orders /\ order \in Orders /\ order <= top
  /\ \A i \in Orders : order <= i => Base(page, i) \notin Range(l[i])
  /\ \A i \in Orders : order <= i /\ i < top =>
       Buddy(page, i) \in Range(l[i]) /\ Range(m[i]) = Range(l[i]) \ {Buddy(page, i)}
  /\ Range(m[top]) = Range(l[top]) \cup {Base(page, top)}
  /\ top < MaxOrder => Buddy(page, top) \notin Range(l[top])
  /\ \A i \in Orders : ~(order <= i /\ i <= top) => Range(m[i]) = Range(l[i])

\* Min of the model is the least element.
LEMMA MinIs == ASSUME NEW T \in SUBSET Nat, T # {} PROVE Min(T) \in T /\ \A y \in T : Min(T) <= y
BY Least DEF Min

\* The block that is freed is not on a list, nor is one that holds it; so the bit
\* of each order says whether the buddy is on the list.
LEMMA BitTells ==
  ASSUME NEW l, NEW bits, NEW U, Sound(l, bits, U), NEW b \in U, NEW i \in Orders, b.order <= i
  PROVE  /\ Base(b.page, i) \notin Range(l[i])
         /\ bits[<<i, Pair(b.page, i)>>] <=> Buddy(b.page, i) \in Range(l[i])
<1>1. /\ b \in [page : 0 .. NumPages, order : Orders] /\ Aligned(b.page, b.order)
      /\ Apart(Blocks(l) \cup U) /\ Blocks(l) \cap U = {} /\ Parity(l, bits)
      /\ \A c \in Blocks(l) : Aligned(c.page, c.order)
  BY DEF Sound
<1>2. /\ b = [page |-> b.page, order |-> b.order] /\ b.page \in 0 .. NumPages /\ b.order \in Orders
  BY <1>1
<1>3. PICK x \in Nat : x = b.page
  <2>1. b.page \in Nat
    BY SMT, <1>2, Sizes
  <2>. QED BY <2>1
<1>4. i \in 0 .. MaxOrder + 1
  BY Sizes
<1>5. Base(x, i) \in Nat /\ Aligned(Base(x, i), i) /\ Base(x, i) <= x /\ Base(Base(x, i), i) = Base(x, i)
  BY <1>4, BaseIs
<1>6. ASSUME Base(x, i) \in Range(l[i]) PROVE FALSE
  <2> DEFINE c == [page |-> Base(x, i), order |-> i]
  <2>1. c \in Blocks(l) /\ c # b
    BY <1>1, <1>6, BlocksAre
  <2>2. PagesOf(c) = Span(Base(x, i), i)
    BY <1>5, PagesAre
  <2>3. x \in Span(Base(x, i), i)
    BY <1>4, <1>5, SpanIs
  <2>4. PagesOf(b) = Span(x, b.order)
    BY <1>1, <1>2, <1>3, PagesAre
  <2>5. x \in Span(x, b.order)
    <3>1. b.order \in 0 .. MaxOrder + 1
      BY <1>2, Sizes
    <3>. QED BY <3>1, SpanIs
  <2>6. x \in PagesOf(c) /\ x \in PagesOf(b)
    BY <2>2, <2>3, <2>4, <2>5
  <2> HIDE DEF c
  <2>7. PagesOf(c) \cap PagesOf(b) = {}
    BY <1>1, <2>1 DEF Apart
  <2>. QED BY <2>6, <2>7
<1>7. Pair(Base(x, i), i) = Pair(x, i) /\ Buddy(Base(x, i), i) = Buddy(x, i)
  <2>1. Pair(Base(x, i), i) = Pair(x, i) <=> Base(Base(x, i), i + 1) = Base(x, i + 1)
    BY <1>5, PairIs
  <2>. QED BY <2>1, BuddyBack
<1>8. Base(x, i) \in 0 .. NumPages
  BY SMT, <1>2, <1>3, <1>5, Sizes
<1>9. bits[<<i, Pair(Base(x, i), i)>>] <=> ~(Base(x, i) \in Range(l[i]) <=> Buddy(Base(x, i), i) \in Range(l[i]))
  BY <1>1, <1>5, <1>8 DEF Parity
<1>. QED BY <1>3, <1>6, <1>7, <1>9

\* The bins with the given lists and bits, and no panic.
BinsOf(l, bits) == [list |-> l, bitmap |-> bits, panic |-> NULL]

\* Block b is freed without a panic: it is merged up to order top, which leaves lists m.
FreesTo(l, bits, b, m, top) ==
  /\ Freed(l, m, b.page, b.order, top)
  /\ FreeBlock(BinsOf(l, bits), b.page, b.order) = BinsOf(m, Flip(bits, b.page, b.order .. top))

\* What s_free_block does: no panic, for the buddy that a bit promises is found.
LEMMA FreeBlockIs ==
  ASSUME NEW l, NEW bits, NEW U, Sound(l, bits, U), NEW b \in U
  PROVE  \E top, m : FreesTo(l, bits, b, m, top)
<1> DEFINE s == [list |-> l, bitmap |-> bits, panic |-> NULL]
           page == b.page
           order == b.order
           Merges(i) == i < MaxOrder /\ s.bitmap[<<i, Pair(page, i)>>]
           Found(i) == Buddy(page, i) \in Range(s.list[i])
           T == {i \in order .. MaxOrder : ~(Merges(i) /\ Found(i))}
           top == Min(T)
           m == [i \in Orders |-> IF i \in order .. top - 1
                                  THEN Unlink(s.list[i], Buddy(page, i))
                                  ELSE IF i = top /\ ~Merges(top)
                                  THEN <<Base(page, top)>> \o s.list[i]
                                  ELSE s.list[i]]
<1>0. s.list = l /\ s.bitmap = bits /\ s.panic = NULL
  OBVIOUS
<1>1. /\ page \in 0 .. NumPages /\ order \in Orders /\ Aligned(page, order)
      /\ l \in [Orders -> Seq(0 .. NumPages)] /\ \A i \in Orders : IsInjective(l[i])
  BY DEF Sound
<1>2. /\ MaxOrder \in Nat /\ order \in 0 .. MaxOrder /\ page \in Nat
  BY SMT, <1>1, Sizes DEF Orders
<1>3. \A i \in Orders : order <= i => /\ Base(page, i) \notin Range(l[i])
                                      /\ bits[<<i, Pair(page, i)>>] <=> Buddy(page, i) \in Range(l[i])
  BY BitTells
<1>4. T \in SUBSET Nat /\ MaxOrder \in T
  <2>1. \A i \in order .. MaxOrder : i \in Nat
    BY SMT, <1>2
  <2>2. MaxOrder \in order .. MaxOrder /\ ~(MaxOrder < MaxOrder)
    BY SMT, <1>2
  <2>. QED BY <2>1, <2>2
<1>5. top \in T /\ \A y \in T : top <= y
  <2> HIDE DEF T
  <2>1. T # {}
    BY <1>4
  <2>. QED BY <1>4, <2>1, MinIs
<1>6. top \in order .. MaxOrder /\ ~(Merges(top) /\ Found(top))
  BY <1>5
<1>7. ASSUME NEW i \in order .. MaxOrder, i < top PROVE Merges(i) /\ Found(i)
  <2>1. ~(top <= i)
    BY SMT, <1>2, <1>6, <1>7
  <2>. QED BY <1>5, <2>1
<1> HIDE DEF top
<1>8. top \in Orders /\ order <= top /\ (\A i \in Orders : order <= i => i \in order .. MaxOrder)
      /\ (\A i \in Orders : i \in order .. top - 1 <=> order <= i /\ i < top)
      /\ (\A i \in Orders : order <= i /\ i < top => i < MaxOrder)
      /\ (\A i \in Orders : order <= i /\ i <= top => i = top \/ i < top)
      /\ ~(top < top) /\ top <= top /\ \A i \in Orders : i < top => i <= top
  <2>1. top \in order .. MaxOrder
    BY <1>6
  <2>. QED BY SMT, <1>2, <2>1 DEF Orders
<1>9. ~Merges(top)
  BY <1>0, <1>3, <1>6, <1>8
<1>10. top < MaxOrder => Buddy(page, top) \notin Range(l[top])
  BY <1>0, <1>3, <1>8, <1>9
<1>11. ASSUME NEW i \in Orders
       PROVE  /\ order <= i /\ i < top => m[i] = Unlink(l[i], Buddy(page, i)) /\ Buddy(page, i) \in Range(l[i])
              /\ i = top => m[i] = <<Base(page, top)>> \o l[i]
              /\ ~(order <= i /\ i <= top) => m[i] = l[i]
  <2>1. order <= i /\ i < top => m[i] = Unlink(l[i], Buddy(page, i))
    BY <1>0, <1>8
  <2>2. order <= i /\ i < top => Buddy(page, i) \in Range(l[i])
    BY <1>0, <1>7, <1>8
  <2>3. i = top => ~(i < top)
    BY <1>8
  <2>4. i = top => m[i] = <<Base(page, top)>> \o l[i]
    BY <1>0, <1>8, <1>9, <2>3
  <2>5. ~(order <= i /\ i <= top) => i # top /\ ~(order <= i /\ i < top)
    BY <1>8
  <2>6. ~(order <= i /\ i <= top) => m[i] = l[i]
    BY <1>0, <1>8, <2>5
  <2>. QED BY <2>1, <2>2, <2>4, <2>6
<1>12. FreeBlock(s, page, order) = [list |-> m, bitmap |-> Flip(bits, page, order .. top), panic |-> NULL]
  BY <1>0, <1>1, <1>9 DEF FreeBlock, top
<1>13. DOMAIN m = Orders /\ m = [i \in Orders |-> m[i]]
  OBVIOUS
<1> HIDE DEF m, s, Merges, Found, T
<1>14. Base(page, top) \in 0 .. NumPages /\ Base(page, top) \notin Range(l[top])
  <2>1. top \in 0 .. MaxOrder + 1
    BY <1>8, Sizes
  <2>2. Base(page, top) \in Nat /\ Base(page, top) <= page
    BY <1>2, <2>1, BaseIs
  <2>3. Base(page, top) \in 0 .. NumPages
    BY SMT, <1>1, <2>2, Sizes
  <2>. QED BY <1>3, <1>8, <2>3
<1>15. ASSUME NEW i \in Orders
       PROVE  /\ m[i] \in Seq(0 .. NumPages) /\ IsInjective(m[i])
              /\ order <= i /\ i < top => Range(m[i]) = Range(l[i]) \ {Buddy(page, i)}
              /\ i = top => Range(m[i]) = Range(l[i]) \cup {Base(page, top)}
  <2>0. l[i] \in Seq(0 .. NumPages) /\ IsInjective(l[i])
    BY <1>1
  <2>1. CASE order <= i /\ i < top
    <3>1. i # top
      BY <1>8, <2>1
    <3>2. m[i] = Unlink(l[i], Buddy(page, i)) /\ Buddy(page, i) \in Range(l[i])
      BY <1>11, <2>1
    <3>3. /\ Unlink(l[i], Buddy(page, i)) \in Seq(0 .. NumPages) /\ IsInjective(Unlink(l[i], Buddy(page, i)))
          /\ Range(Unlink(l[i], Buddy(page, i))) = Range(l[i]) \ {Buddy(page, i)}
      BY <2>0, <3>2, Unlinked
    <3>. QED BY <3>1, <3>2, <3>3
  <2>2. CASE i = top
    <3>1. ~(i < top)
      BY <1>8, <2>2
    <3>2. m[i] = <<Base(page, top)>> \o l[i]
      BY <1>11, <2>2
    <3>3. /\ <<Base(page, top)>> \o l[i] \in Seq(0 .. NumPages) /\ IsInjective(<<Base(page, top)>> \o l[i])
          /\ Range(<<Base(page, top)>> \o l[i]) = Range(l[i]) \cup {Base(page, top)}
      <4>1. Base(page, top) \in 0 .. NumPages /\ Base(page, top) \notin Range(l[i])
        BY <1>14, <2>2
      <4>. QED BY <2>0, <4>1, Pushed
    <3>. QED BY <3>1, <3>2, <3>3
  <2>3. CASE ~(order <= i /\ i <= top)
    <3>1. i # top /\ ~(order <= i /\ i < top)
      BY <1>8, <2>3
    <3>. QED BY <1>11, <2>0, <2>3, <3>1
  <2>4. order <= i /\ i <= top => i = top \/ i < top
    BY <1>8
  <2>. QED BY <2>1, <2>2, <2>3, <2>4
<1>16. m \in [Orders -> Seq(0 .. NumPages)]
  BY <1>13, <1>15
<1>17. Freed(l, m, page, order, top)
  BY <1>1, <1>3, <1>8, <1>10, <1>11, <1>15, <1>16 DEF Freed
<1>18. FreesTo(l, bits, b, m, top)
  BY <1>12, <1>17 DEF FreesTo, BinsOf, s
<1>. QED BY <1>18

\* The blocks a block is merged from stay apart from the others.
LEMMA Joined ==
  ASSUME NEW B, NEW R \in SUBSET B, Apart(B), NEW new, PagesOf(new) = UNION {PagesOf(c) : c \in R}
  PROVE  /\ Apart((B \ R) \cup {new})
         /\ UNION {PagesOf(c) : c \in (B \ R) \cup {new}} = UNION {PagesOf(c) : c \in B}
<1>1. ASSUME NEW c \in B \ R PROVE PagesOf(c) \cap PagesOf(new) = {}
  <2>1. \A d \in R : PagesOf(c) \cap PagesOf(d) = {}
    BY DEF Apart
  <2>. QED BY <2>1
<1>2. Apart((B \ R) \cup {new})
  BY <1>1 DEF Apart
<1>. QED BY <1>2

\* The buddies a block is merged with on the way up to order top.
Absorbed(page, order, top) == {[page |-> Buddy(page, k), order |-> k] : k \in order .. top - 1}

\* What freeing and merging do to the blocks on the lists.
LEMMA FreedBlocks ==
  ASSUME NEW l, NEW m, NEW page \in Nat, NEW order, NEW top, Freed(l, m, page, order, top)
  PROVE  /\ Blocks(m) = (Blocks(l) \ Absorbed(page, order, top)) \cup {[page |-> Base(page, top), order |-> top]}
         /\ Absorbed(page, order, top) \subseteq Blocks(l)
<1> DEFINE R == Absorbed(page, order, top)
           new == [page |-> Base(page, top), order |-> top]
<1>1. /\ top \in Orders /\ order \in Orders /\ order <= top
      /\ \A i \in Orders : order <= i /\ i < top =>
           Buddy(page, i) \in Range(l[i]) /\ Range(m[i]) = Range(l[i]) \ {Buddy(page, i)}
      /\ Range(m[top]) = Range(l[top]) \cup {Base(page, top)}
      /\ \A i \in Orders : ~(order <= i /\ i <= top) => Range(m[i]) = Range(l[i])
  BY DEF Freed
<1>2. /\ \A k \in order .. top - 1 : k \in Orders /\ order <= k /\ k < top
      /\ \A k \in Orders : order <= k /\ k < top => k \in order .. top - 1
      /\ \A i \in Orders : order <= i /\ i <= top => i = top \/ i < top
      /\ ~(top < top)
  BY SMT, <1>1, Sizes DEF Orders
<1>3. R \subseteq Blocks(l)
  <2>1. ASSUME NEW k \in order .. top - 1 PROVE [page |-> Buddy(page, k), order |-> k] \in Blocks(l)
    BY <1>1, <1>2, BlocksAre
  <2>. QED BY <2>1 DEF Absorbed
<1>4. ASSUME NEW i \in Orders, NEW p PROVE [page |-> p, order |-> i] \in R <=> order <= i /\ i < top /\ p = Buddy(page, i)
  <2>1. ASSUME [page |-> p, order |-> i] \in R PROVE order <= i /\ i < top /\ p = Buddy(page, i)
    <3>1. PICK k \in order .. top - 1 : [page |-> p, order |-> i] = [page |-> Buddy(page, k), order |-> k]
      BY <2>1 DEF Absorbed
    <3>2. p = Buddy(page, k) /\ i = k
      BY <3>1
    <3>. QED BY <1>2, <3>2
  <2>2. ASSUME order <= i, i < top, p = Buddy(page, i) PROVE [page |-> p, order |-> i] \in R
    BY <1>2, <2>2 DEF Absorbed
  <2>. QED BY <2>1, <2>2
<1>5. ASSUME NEW i \in Orders, NEW p PROVE [page |-> p, order |-> i] = new <=> i = top /\ p = Base(page, top)
  OBVIOUS
<1>6. ASSUME NEW i \in Orders, NEW p
      PROVE  p \in Range(m[i]) <=> \/ p \in Range(l[i]) /\ ~(order <= i /\ i < top /\ p = Buddy(page, i))
                                   \/ i = top /\ p = Base(page, top)
  <2>1. CASE order <= i /\ i < top
    <3>1. i # top
      BY <1>2, <2>1
    <3>2. Range(m[i]) = Range(l[i]) \ {Buddy(page, i)}
      BY <1>1, <2>1
    <3>. QED BY <2>1, <3>1, <3>2
  <2>2. CASE i = top
    <3>1. ~(i < top)
      BY <1>2, <2>2
    <3>. QED BY <1>1, <2>2, <3>1
  <2>3. CASE ~(order <= i /\ i <= top)
    <3>1. i # top /\ ~(order <= i /\ i < top)
      BY SMT, <1>1, <2>3, Sizes DEF Orders
    <3>. QED BY <1>1, <2>3, <3>1
  <2>. QED BY <1>2, <2>1, <2>2, <2>3
<1>7. ASSUME NEW i \in Orders, NEW p
      PROVE  [page |-> p, order |-> i] \in Blocks(m) <=> [page |-> p, order |-> i] \in (Blocks(l) \ R) \cup {new}
  <2>1. [page |-> p, order |-> i] \in Blocks(m) <=> p \in Range(m[i])
    BY BlocksAre
  <2>2. [page |-> p, order |-> i] \in Blocks(l) <=> p \in Range(l[i])
    BY BlocksAre
  <2>. QED BY <1>4, <1>5, <1>6, <2>1, <2>2
<1>8. ASSUME NEW b \in Blocks(m) \cup Blocks(l) \cup {new} PROVE b.order \in Orders /\ b = [page |-> b.page, order |-> b.order]
  <2>1. CASE b \in Blocks(m)
    BY <2>1, BlocksAre
  <2>2. CASE b \in Blocks(l)
    BY <2>2, BlocksAre
  <2>3. CASE b = new
    BY <1>1, <2>3
  <2>. QED BY <2>1, <2>2, <2>3
<1>9. ASSUME NEW b PROVE b \in Blocks(m) <=> b \in (Blocks(l) \ R) \cup {new}
  <2>1. CASE b \in Blocks(m) \cup Blocks(l) \cup {new}
    <3>1. b.order \in Orders /\ b = [page |-> b.page, order |-> b.order]
      BY <1>8, <2>1
    <3>2. [page |-> b.page, order |-> b.order] \in Blocks(m) <=> [page |-> b.page, order |-> b.order] \in (Blocks(l) \ R) \cup {new}
      BY <1>7, <3>1
    <3>. QED BY <3>1, <3>2
  <2>2. CASE b \notin Blocks(m) \cup Blocks(l) \cup {new}
    BY <2>2
  <2>. QED BY <2>1, <2>2
<1>. QED BY <1>3, <1>9

\* The pages of the merged block are those of its pieces.
LEMMA FreedPages ==
  ASSUME NEW page \in Nat, NEW order \in Orders, NEW top \in Orders, order <= top, Aligned(page, order)
  PROVE  PagesOf([page |-> Base(page, top), order |-> top])
           = PagesOf([page |-> page, order |-> order]) \cup UNION {PagesOf(c) : c \in Absorbed(page, order, top)}
<1>1. top \in 0 .. MaxOrder + 1 /\ \A k \in order .. top - 1 : k \in Orders
  BY SMT, Sizes DEF Orders
<1>2. PagesOf([page |-> Base(page, top), order |-> top]) = Span(page, top)
  <2>1. Base(page, top) \in Nat /\ Aligned(Base(page, top), top)
    BY <1>1, BaseIs
  <2>2. PagesOf([page |-> Base(page, top), order |-> top]) = Span(Base(page, top), top)
    BY <2>1, PagesAre
  <2>3. Base(Base(page, top), top) = Base(page, top)
    BY BuddyBack
  <2>. QED BY <2>2, <2>3 DEF Span
<1>3. PagesOf([page |-> page, order |-> order]) = Span(page, order)
  BY PagesAre
<1>4. ASSUME NEW k \in order .. top - 1
      PROVE  PagesOf([page |-> Buddy(page, k), order |-> k]) = Span(Buddy(page, k), k)
  <2>1. Buddy(page, k) \in Nat /\ Aligned(Buddy(page, k), k)
    BY <1>1, BuddyIs
  <2>. QED BY <1>1, <2>1, PagesAre
<1>5. UNION {PagesOf(c) : c \in Absorbed(page, order, top)} = UNION {Span(Buddy(page, k), k) : k \in order .. top - 1}
  BY <1>4 DEF Absorbed
<1>6. Span(page, top) = Span(page, order) \cup UNION {Span(Buddy(page, k), k) : k \in order .. top - 1}
  BY Pieces
<1>. QED BY <1>2, <1>3, <1>5, <1>6

\* A block holds its first page.
LEMMA HoldsPage ==
  ASSUME NEW b \in [page : 0 .. NumPages, order : Orders], Aligned(b.page, b.order)
  PROVE  /\ b = [page |-> b.page, order |-> b.order] /\ b.page \in Nat /\ b.order \in Orders
         /\ PagesOf(b) = Span(b.page, b.order) /\ b.page \in PagesOf(b)
<1>1. b = [page |-> b.page, order |-> b.order] /\ b.page \in 0 .. NumPages /\ b.order \in Orders
  OBVIOUS
<1>2. b.page \in Nat
  BY SMT, <1>1, Sizes
<1>3. PagesOf(b) = Span(b.page, b.order)
  BY <1>1, <1>2, PagesAre
<1>4. b.order \in 0 .. MaxOrder + 1
  BY <1>1, Sizes
<1>5. b.page \in Span(b.page, b.order)
  BY <1>2, <1>4, SpanIs
<1>. QED BY <1>1, <1>2, <1>3, <1>5

\* The bits remain the parities when a block is freed.
LEMMA FreedParity ==
  ASSUME NEW l, NEW m, NEW bits \in [Bits -> BOOLEAN], NEW page \in 0 .. NumPages, NEW order, NEW top,
         Parity(l, bits), Freed(l, m, page, order, top)
  PROVE  Parity(m, Flip(bits, page, order .. top))
<1>1. /\ top \in Orders /\ order \in Orders /\ order <= top
      /\ \A i \in Orders : order <= i => Base(page, i) \notin Range(l[i])
      /\ \A i \in Orders : order <= i /\ i < top =>
           Buddy(page, i) \in Range(l[i]) /\ Range(m[i]) = Range(l[i]) \ {Buddy(page, i)}
      /\ Range(m[top]) = Range(l[top]) \cup {Base(page, top)}
      /\ \A i \in Orders : ~(order <= i /\ i <= top) => Range(m[i]) = Range(l[i])
  BY DEF Freed
<1>2. \A i \in Orders : (i \in order .. top <=> order <= i /\ i <= top) /\ (i <= top => i = top \/ i < top)
  BY SMT, <1>1, Sizes DEF Orders
<1>3. \A i \in Orders : i \notin order .. top => Range(m[i]) = Range(l[i])
  BY <1>1, <1>2
<1>4. ASSUME NEW i \in Orders, i \in order .. top
      PROVE  \E q \in {Base(page, i), Buddy(page, i)} :
               (q \in Range(m[i]) <=> q \notin Range(l[i])) /\ \A p : p # q => (p \in Range(m[i]) <=> p \in Range(l[i]))
  <2>1. CASE i = top
    BY <1>1, <2>1
  <2>2. CASE i < top
    <3>1. Buddy(page, i) \in Range(l[i]) /\ Range(m[i]) = Range(l[i]) \ {Buddy(page, i)}
      BY <1>1, <1>2, <1>4, <2>2
    <3>. QED BY <3>1
  <2>. QED BY <1>2, <1>4, <2>1, <2>2
<1>. QED BY <1>3, <1>4, ParityKept

\* Two buddies that are both free are merged.
LEMMA FreedMerged ==
  ASSUME NEW l, NEW m, NEW page \in Nat, NEW order, NEW top, Merged(l), Freed(l, m, page, order, top),
         \A i \in Orders : \A p \in Range(l[i]) : p \in Nat /\ Base(p, i) = p
  PROVE  Merged(m)
<1>1. /\ top \in Orders /\ order \in Orders /\ order <= top
      /\ \A i \in Orders : order <= i /\ i < top => Range(m[i]) = Range(l[i]) \ {Buddy(page, i)}
      /\ Range(m[top]) = Range(l[top]) \cup {Base(page, top)}
      /\ top < MaxOrder => Buddy(page, top) \notin Range(l[top])
      /\ \A i \in Orders : ~(order <= i /\ i <= top) => Range(m[i]) = Range(l[i])
  BY DEF Freed
<1>2. \A i \in Orders : i <= top => i = top \/ i < top
  BY <1>1, Ordering
<1> SUFFICES ASSUME NEW i \in Orders, i < MaxOrder, NEW p \in Range(m[i]), Buddy(p, i) \in Range(m[i])
             PROVE  FALSE
  BY DEF Merged
<1>3. \A q \in Range(l[i]) : Buddy(q, i) \notin Range(l[i])
  BY DEF Merged
<1>4. CASE i = top
  <2>1. /\ Buddy(Base(page, top), top) = Buddy(page, top) /\ Buddy(page, top) # Base(page, top)
        /\ Buddy(Buddy(page, top), top) = Base(page, top)
    BY <1>1, BuddyBack, BuddyIs
  <2>2. Buddy(page, top) \notin Range(m[top])
    BY <1>1, <1>4, <2>1
  <2>3. p # Base(page, top)
    BY <1>4, <2>1, <2>2
  <2>4. p \in Range(l[top])
    BY <1>1, <1>4, <2>3
  <2>5. Buddy(p, top) = Base(page, top)
    BY <1>1, <1>3, <1>4, <2>4
  <2>6. p \in Nat /\ Base(p, top) = p
    BY <1>1, <2>4
  <2>7. Buddy(Buddy(p, top), top) = p
    BY <1>1, <2>6, BuddyBack
  <2>. QED BY <1>4, <2>1, <2>2, <2>5, <2>7
<1>5. CASE order <= i /\ i < top
  <2>1. Range(m[i]) = Range(l[i]) \ {Buddy(page, i)}
    BY <1>1, <1>5
  <2>. QED BY <1>3, <2>1
<1>6. CASE ~(order <= i /\ i <= top)
  BY <1>1, <1>3, <1>6
<1>. QED BY <1>2, <1>4, <1>5, <1>6

\* Freeing block b leaves lists m and bits bs in order, and b's pages free.
Released(l, bits, U, b, m, bs) ==
  /\ FreeBlock(BinsOf(l, bits), b.page, b.order) = BinsOf(m, bs)
  /\ Sound(m, bs, U \ {b}) /\ Covered(m) = Covered(l) \cup PagesOf(b)

\* s_free_block keeps the lists and the bits in order, and the pages of the block
\* it frees are all that becomes free.
LEMMA FreedSound ==
  ASSUME NEW l, NEW bits, NEW U, Sound(l, bits, U), NEW b \in U
  PROVE  \E m, bs : Released(l, bits, U, b, m, bs)
<1>1. PICK top, m : FreesTo(l, bits, b, m, top)
  BY FreeBlockIs
<1> DEFINE page == b.page
           order == b.order
<1>2. /\ Freed(l, m, page, order, top)
      /\ FreeBlock(BinsOf(l, bits), page, order) = BinsOf(m, Flip(bits, page, order .. top))
      /\ top \in Orders
  BY <1>1 DEF FreesTo, Freed
<1> DEFINE bs == Flip(bits, page, order .. top)
           R == Absorbed(page, order, top)
           new == [page |-> Base(page, top), order |-> top]
           B == Blocks(l) \cup U
<1>3. /\ l \in [Orders -> Seq(0 .. NumPages)] /\ bits \in [Bits -> BOOLEAN] /\ Parity(l, bits) /\ Merged(l)
      /\ U \subseteq [page : 0 .. NumPages, order : Orders] /\ \A c \in B : Aligned(c.page, c.order)
      /\ Apart(B) /\ Blocks(l) \cap U = {}
  BY DEF Sound
<1>4. /\ b = [page |-> page, order |-> order] /\ page \in Nat /\ page \in 0 .. NumPages /\ order \in Orders
      /\ page \in PagesOf(b) /\ Aligned(page, order) /\ order <= top
  <2>1. b \in [page : 0 .. NumPages, order : Orders] /\ Aligned(b.page, b.order)
    BY <1>3
  <2>2. order <= top
    BY <1>2 DEF Freed
  <2>. QED BY <2>1, <2>2, HoldsPage
<1>5. Blocks(m) = (Blocks(l) \ R) \cup {new} /\ R \subseteq Blocks(l)
  BY <1>2, <1>4, FreedBlocks
<1>6. PagesOf(new) = PagesOf(b) \cup UNION {PagesOf(c) : c \in R}
  BY <1>2, <1>4, FreedPages
<1>7. Aligned(new.page, new.order)
  <2>1. top \in 0 .. MaxOrder + 1
    BY <1>2, Sizes
  <2>2. Aligned(Base(page, top), top)
    BY <1>4, <2>1, BaseIs
  <2>. QED BY <2>2
<1>8. Freed(l, m, page, order, top)
  BY <1>2
<1>9. FreeBlock(BinsOf(l, bits), page, order) = BinsOf(m, bs)
  BY <1>2
<1> HIDE DEF bs, R, new
<1>10. PagesOf(new) = UNION {PagesOf(c) : c \in R \cup {b}}
  BY <1>6
<1>11. Apart((B \ (R \cup {b})) \cup {new})
  <2>1. R \cup {b} \in SUBSET B
    BY <1>5
  <2>. QED BY <1>3, <1>10, <2>1, Joined
<1>12. new \notin U \ {b}
  <2>1. ASSUME new \in U, new # b PROVE FALSE
    <3>1. PagesOf(new) \cap PagesOf(b) = {}
      BY <1>3, <2>1 DEF Apart
    <3>. QED BY <1>4, <1>6, <3>1
  <2>. QED BY <2>1
<1>13. Blocks(m) \cup (U \ {b}) \subseteq (B \ (R \cup {b})) \cup {new}
  BY <1>3, <1>5
<1>14. Apart(Blocks(m) \cup (U \ {b}))
  BY <1>11, <1>13 DEF Apart
<1>15. Blocks(m) \cap (U \ {b}) = {}
  BY <1>3, <1>5, <1>12
<1>16. \A c \in Blocks(m) \cup (U \ {b}) : Aligned(c.page, c.order)
  BY <1>3, <1>7, <1>13
<1>17. Parity(m, bs)
  BY <1>3, <1>4, <1>8, FreedParity DEF bs
<1>18. Merged(m)
  <2>1. ASSUME NEW i \in Orders, NEW p \in Range(l[i]) PROVE p \in Nat /\ Base(p, i) = p
    <3>1. [page |-> p, order |-> i] \in Blocks(l)
      BY BlocksAre
    <3>2. Aligned([page |-> p, order |-> i].page, [page |-> p, order |-> i].order)
      BY <1>3, <3>1
    <3>3. l[i] \in Seq(0 .. NumPages)
      BY <1>3
    <3>4. p \in 0 .. NumPages
      BY <3>3, OnList
    <3>5. p \in Nat
      BY SMT, <3>4, Sizes
    <3>6. Aligned(p, i)
      BY <3>2
    <3>. QED BY <3>5, <3>6, PagesAre
  <2>. QED BY <1>3, <1>4, <1>8, <2>1, FreedMerged
<1>19. m \in [Orders -> Seq(0 .. NumPages)] /\ \A i \in Orders : IsInjective(m[i])
  BY <1>8 DEF Freed
<1>20. bs \in [Bits -> BOOLEAN]
  BY <1>3, FlipIs DEF bs
<1>21. Sound(m, bs, U \ {b})
  <2>1. U \ {b} \subseteq [page : 0 .. NumPages, order : Orders]
    BY <1>3
  <2>. QED BY <1>14, <1>15, <1>16, <1>17, <1>18, <1>19, <1>20, <2>1 DEF Sound
<1>22. Covered(m) = Covered(l) \cup PagesOf(b)
  BY <1>5, <1>6 DEF Covered
<1>23. Released(l, bits, U, b, m, bs)
  BY <1>9, <1>21, <1>22 DEF Released
<1>. QED BY <1>23

-----------------------------------------------------------------------------
(* s_alloc_block                                                           *)

\* The block at the front of the list of order i.
FirstOf(i) == [page |-> Head(list[i]), order |-> i]

\* The lists without the first block of order i.
LEMMA TakenList ==
  ASSUME list \in [Orders -> Seq(0 .. NumPages)], \A k \in Orders : IsInjective(list[k]),
         NEW i \in Orders, list[i] # <<>>, NEW m, m = [list EXCEPT ![i] = Tail(@)]
  PROVE  /\ m \in [Orders -> Seq(0 .. NumPages)] /\ \A k \in Orders : IsInjective(m[k])
         /\ Head(list[i]) \in Range(list[i]) /\ Head(list[i]) \in 0 .. NumPages
         /\ Range(m[i]) = Range(list[i]) \ {Head(list[i])}
         /\ \A k \in Orders : k # i => Range(m[k]) = Range(list[k])
         /\ Blocks(m) = Blocks(list) \ {FirstOf(i)} /\ FirstOf(i) \in Blocks(list)
<1>1. list[i] \in Seq(0 .. NumPages) /\ IsInjective(list[i])
  OBVIOUS
<1>2. /\ Tail(list[i]) \in Seq(0 .. NumPages) /\ Head(list[i]) \in Range(list[i]) /\ IsInjective(Tail(list[i]))
      /\ Range(Tail(list[i])) = Range(list[i]) \ {Head(list[i])}
  BY <1>1, Popped
<1>3. DOMAIN m = Orders /\ m[i] = Tail(list[i]) /\ \A k \in Orders : k # i => m[k] = list[k]
  OBVIOUS
<1>4. Head(list[i]) \in 0 .. NumPages
  BY <1>1, <1>2, OnList
<1>5. /\ m \in [Orders -> Seq(0 .. NumPages)] /\ \A k \in Orders : IsInjective(m[k])
  <2>1. m = [k \in Orders |-> m[k]]
    OBVIOUS
  <2>2. ASSUME NEW k \in Orders PROVE m[k] \in Seq(0 .. NumPages) /\ IsInjective(m[k])
    BY <1>2, <1>3
  <2>. QED BY <2>1, <2>2
<1>6. /\ Range(m[i]) = Range(list[i]) \ {Head(list[i])}
      /\ \A k \in Orders : k # i => Range(m[k]) = Range(list[k])
  BY <1>2, <1>3
<1>7. FirstOf(i) \in Blocks(list)
  BY <1>2, BlocksAre DEF FirstOf
<1>8. ASSUME NEW k \in Orders, NEW p
      PROVE  [page |-> p, order |-> k] \in Blocks(m) <=> [page |-> p, order |-> k] \in Blocks(list) \ {FirstOf(i)}
  <2>1. [page |-> p, order |-> k] \in Blocks(m) <=> p \in Range(m[k])
    BY BlocksAre
  <2>2. [page |-> p, order |-> k] \in Blocks(list) <=> p \in Range(list[k])
    BY BlocksAre
  <2>3. [page |-> p, order |-> k] = FirstOf(i) <=> p = Head(list[i]) /\ k = i
    BY DEF FirstOf
  <2>. QED BY <1>6, <2>1, <2>2, <2>3
<1>9. ASSUME NEW b PROVE b \in Blocks(m) <=> b \in Blocks(list) \ {FirstOf(i)}
  <2>1. CASE b \in Blocks(m) \cup Blocks(list)
    <3>1. b.order \in Orders /\ b = [page |-> b.page, order |-> b.order]
      BY <2>1, BlocksAre
    <3>2. [page |-> b.page, order |-> b.order] \in Blocks(m) <=> [page |-> b.page, order |-> b.order] \in Blocks(list) \ {FirstOf(i)}
      BY <1>8, <3>1
    <3>. QED BY <3>1, <3>2
  <2>2. CASE b \notin Blocks(m) \cup Blocks(list)
    BY <2>2
  <2>. QED BY <2>1, <2>2
<1>. QED BY <1>2, <1>4, <1>5, <1>6, <1>7, <1>9

\* Bins s are what is left when a caller is about to get the block of the given
\* page and order, and has the blocks of used.
Holding(s, page, j) ==
  LET b == [page |-> page, order |-> j] IN
  /\ b \notin used /\ PagesOf(b) \subseteq Covered(list)
  /\ \E m, bs : s = BinsOf(m, bs) /\ Sound(m, bs, used \cup {b}) /\ Covered(m) = Covered(list) \ PagesOf(b)

\* Taking the first block of an order keeps the lists and the bits in order, and
\* takes its pages and no others.
LEMMA Taken ==
  ASSUME Sound(list, bitmap, used), panic = NULL, NEW i \in Orders, list[i] # <<>>
  PROVE  Holding(TakeFirst(i), Head(list[i]), i)
<1> DEFINE m == [list EXCEPT ![i] = Tail(@)]
           page == Head(list[i])
           bs == Flip(bitmap, page, {i})
<1>1. /\ list \in [Orders -> Seq(0 .. NumPages)] /\ (\A k \in Orders : IsInjective(list[k]))
      /\ bitmap \in [Bits -> BOOLEAN] /\ Parity(list, bitmap) /\ Merged(list)
      /\ used \subseteq [page : 0 .. NumPages, order : Orders]
      /\ (\A b \in Blocks(list) \cup used : Aligned(b.page, b.order))
      /\ Apart(Blocks(list) \cup used) /\ Blocks(list) \cap used = {}
  BY DEF Sound
<1>2. /\ m \in [Orders -> Seq(0 .. NumPages)] /\ (\A k \in Orders : IsInjective(m[k]))
      /\ page \in Range(list[i]) /\ page \in 0 .. NumPages
      /\ Range(m[i]) = Range(list[i]) \ {page}
      /\ \A k \in Orders : k # i => Range(m[k]) = Range(list[k])
      /\ Blocks(m) = Blocks(list) \ {FirstOf(i)} /\ FirstOf(i) \in Blocks(list)
  BY <1>1, TakenList
<1>3. TakeFirst(i) = BinsOf(m, bs)
  BY DEF TakeFirst, BinsOf
<1> HIDE DEF m
<1>4. FirstOf(i) \in [page : 0 .. NumPages, order : Orders] /\ FirstOf(i).page = page /\ FirstOf(i).order = i
  BY <1>2 DEF FirstOf
<1>5. Aligned(page, i) /\ Base(page, i) = page
  <2>1. Aligned(page, i)
    BY <1>1, <1>2, <1>4
  <2>2. page \in Nat
    BY SMT, <1>2, Sizes
  <2>. QED BY <2>1, <2>2, PagesAre
<1>6. Parity(m, bs)
  <2>1. \A k \in Orders : k \notin {i} => Range(m[k]) = Range(list[k])
    BY <1>2
  <2>2. ASSUME NEW k \in Orders, k \in {i}
        PROVE  \E q \in {Base(page, k), Buddy(page, k)} :
                 (q \in Range(m[k]) <=> q \notin Range(list[k])) /\ \A p : p # q => (p \in Range(m[k]) <=> p \in Range(list[k]))
    BY <1>2, <1>5, <2>2
  <2>. QED BY <1>1, <1>2, <2>1, <2>2, ParityKept
<1>7. bs \in [Bits -> BOOLEAN]
  BY <1>1, FlipIs
<1> HIDE DEF bs
<1>8. Merged(m)
  <2>1. \A k \in Orders : Range(m[k]) \subseteq Range(list[k])
    BY <1>2
  <2>. QED BY <1>1, <2>1 DEF Merged
<1>9. Blocks(m) \cup (used \cup {FirstOf(i)}) = Blocks(list) \cup used /\ Blocks(m) \cap (used \cup {FirstOf(i)}) = {}
  BY <1>1, <1>2
<1>10. Sound(m, bs, used \cup {FirstOf(i)})
  <2>1. used \cup {FirstOf(i)} \subseteq [page : 0 .. NumPages, order : Orders]
    BY <1>1, <1>4
  <2>. QED BY <1>1, <1>2, <1>6, <1>7, <1>8, <1>9, <2>1 DEF Sound
<1>11. Covered(m) = Covered(list) \ PagesOf(FirstOf(i))
  <2>1. ASSUME NEW c \in Blocks(m) PROVE PagesOf(c) \cap PagesOf(FirstOf(i)) = {}
    <3>1. c \in Blocks(list) \cup used /\ FirstOf(i) \in Blocks(list) \cup used /\ c # FirstOf(i)
      BY <1>2
    <3>. QED BY <1>1, <3>1 DEF Apart
  <2>. QED BY <1>2, <2>1 DEF Covered
<1>12. FirstOf(i) \notin used /\ PagesOf(FirstOf(i)) \subseteq Covered(list)
  BY <1>1, <1>2 DEF Covered
<1>. QED BY <1>3, <1>10, <1>11, <1>12 DEF Holding, FirstOf

\* The two halves of a block.
LEMMA HalvesOf ==
  ASSUME NEW page \in Nat, NEW j \in Orders, j + 1 \in Orders, Aligned(page, j + 1)
  PROVE  /\ Aligned(page, j) /\ page + Size[j] \in Nat /\ Aligned(page + Size[j], j)
         /\ PagesOf([page |-> page, order |-> j + 1])
              = PagesOf([page |-> page, order |-> j]) \cup PagesOf([page |-> page + Size[j], order |-> j])
         /\ PagesOf([page |-> page, order |-> j]) \cap PagesOf([page |-> page + Size[j], order |-> j]) = {}
<1>1. j <= j + 1 /\ j \in 0 .. MaxOrder + 1 /\ Size[j] \in Nat /\ Size[j] > 0
  <2>1. j <= j + 1
    BY SMT, Sizes DEF Orders
  <2>. QED BY <2>1, Sizes
<1>2. Aligned(page, j) /\ Base(page, j) = page /\ Base(page, j + 1) = page
  BY <1>1, AlignedBelow
<1>3. Buddy(page, j) = page + Size[j]
  <2>1. page # page - Size[j]
    BY SMT, <1>1
  <2>. QED BY <1>2, <2>1, BuddyIs
<1>4. page + Size[j] \in Nat /\ Aligned(page + Size[j], j)
  BY <1>3, BuddyIs
<1>5. /\ Span(page, j + 1) = Span(page, j) \cup Span(page + Size[j], j)
      /\ Span(page, j) \cap Span(page + Size[j], j) = {}
  BY <1>3, BuddySpan
<1>6. /\ PagesOf([page |-> page, order |-> j + 1]) = Span(page, j + 1)
      /\ PagesOf([page |-> page, order |-> j]) = Span(page, j)
      /\ PagesOf([page |-> page + Size[j], order |-> j]) = Span(page + Size[j], j)
  BY <1>2, <1>4, PagesAre
<1>. QED BY <1>2, <1>4, <1>5, <1>6

\* A block that is held may be held as two.
LEMMA SplitHeld ==
  ASSUME NEW l, NEW bits, NEW V, NEW big, NEW lo, NEW hi, Sound(l, bits, V \cup {big}), big \notin V,
         lo \in [page : 0 .. NumPages, order : Orders], hi \in [page : 0 .. NumPages, order : Orders],
         Aligned(lo.page, lo.order), Aligned(hi.page, hi.order),
         PagesOf(big) = PagesOf(lo) \cup PagesOf(hi), PagesOf(lo) \cap PagesOf(hi) = {}
  PROVE  Sound(l, bits, V \cup {lo, hi}) /\ lo # hi /\ lo \notin V /\ hi \notin V
<1>1. /\ V \subseteq [page : 0 .. NumPages, order : Orders]
      /\ (\A b \in Blocks(l) \cup V : Aligned(b.page, b.order))
      /\ Apart(Blocks(l) \cup (V \cup {big})) /\ Blocks(l) \cap (V \cup {big}) = {}
  BY DEF Sound
<1>2. lo.page \in PagesOf(lo) /\ hi.page \in PagesOf(hi)
  BY HoldsPage
<1>3. ASSUME NEW c \in Blocks(l) \cup V PROVE PagesOf(c) \cap PagesOf(big) = {}
  <2>1. c # big
    BY <1>1
  <2>. QED BY <1>1, <2>1 DEF Apart
<1>4. ASSUME NEW c \in Blocks(l) \cup V
      PROVE c # lo /\ c # hi /\ PagesOf(c) \cap PagesOf(lo) = {} /\ PagesOf(c) \cap PagesOf(hi) = {}
  <2>1. PagesOf(c) \cap PagesOf(big) = {}
    BY <1>3
  <2>2. PagesOf(c) \cap PagesOf(lo) = {} /\ PagesOf(c) \cap PagesOf(hi) = {}
    BY <2>1
  <2>. QED BY <1>2, <2>2
<1>5. lo # hi
  BY <1>2
<1>6. Apart(Blocks(l) \cup V)
  BY <1>1 DEF Apart
<1>7. Apart(Blocks(l) \cup (V \cup {lo, hi}))
  <2> SUFFICES ASSUME NEW b \in Blocks(l) \cup (V \cup {lo, hi}), NEW c \in Blocks(l) \cup (V \cup {lo, hi}), b # c
               PROVE  PagesOf(b) \cap PagesOf(c) = {}
    BY DEF Apart
  <2>1. CASE b \in Blocks(l) \cup V /\ c \in Blocks(l) \cup V
    BY <1>6, <2>1 DEF Apart
  <2>2. CASE b \in Blocks(l) \cup V /\ c \in {lo, hi}
    BY <1>4, <2>2
  <2>3. CASE b \in {lo, hi} /\ c \in Blocks(l) \cup V
    BY <1>4, <2>3
  <2>4. CASE b \in {lo, hi} /\ c \in {lo, hi}
    <3>1. (b = lo /\ c = hi) \/ (b = hi /\ c = lo)
      BY <2>4
    <3>2. PagesOf(hi) \cap PagesOf(lo) = {}
      OBVIOUS
    <3>. QED BY <3>1, <3>2
  <2>. QED BY <2>1, <2>2, <2>3, <2>4
<1>8. \A b \in Blocks(l) \cup (V \cup {lo, hi}) : Aligned(b.page, b.order)
  BY <1>1
<1>9. Blocks(l) \cap (V \cup {lo, hi}) = {}
  BY <1>1, <1>4
<1>10. V \cup {lo, hi} \subseteq [page : 0 .. NumPages, order : Orders]
  BY <1>1
<1>11. Sound(l, bits, V \cup {lo, hi})
  BY <1>7, <1>8, <1>9, <1>10 DEF Sound
<1>. QED BY <1>4, <1>5, <1>11

\* One step of the way down: the upper half is freed, the lower half is kept.
LEMMA SplitStep ==
  ASSUME Covered(list) \subseteq 0 .. NumPages,
         NEW s, NEW page \in 0 .. NumPages, NEW j \in Orders, j + 1 \in Orders, Holding(s, page, j + 1)
  PROVE  Holding(FreeBlock(s, page + Size[j], j), page, j)
<1> DEFINE big == [page |-> page, order |-> j + 1]
           lo == [page |-> page, order |-> j]
           hi == [page |-> page + Size[j], order |-> j]
<1>1. big \notin used /\ PagesOf(big) \subseteq Covered(list)
  BY DEF Holding
<1>2. PICK l, bits : s = BinsOf(l, bits) /\ Sound(l, bits, used \cup {big}) /\ Covered(l) = Covered(list) \ PagesOf(big)
  BY DEF Holding
<1>3. page \in Nat
  BY SMT, Sizes
<1>4. Aligned(page, j + 1)
  <2>1. Aligned(big.page, big.order)
    BY <1>2 DEF Sound
  <2>. QED BY <2>1
<1>5. /\ Aligned(page, j) /\ page + Size[j] \in Nat /\ Aligned(page + Size[j], j)
      /\ PagesOf(big) = PagesOf(lo) \cup PagesOf(hi) /\ PagesOf(lo) \cap PagesOf(hi) = {}
  BY <1>3, <1>4, HalvesOf
<1>6. page + Size[j] \in 0 .. NumPages
  <2>1. PagesOf(hi) = Span(page + Size[j], j)
    BY <1>5, PagesAre
  <2>2. j \in 0 .. MaxOrder + 1
    BY Sizes
  <2>3. page + Size[j] \in Span(page + Size[j], j)
    BY <1>5, <2>2, SpanIs
  <2>. QED BY <1>1, <1>5, <2>1, <2>3
<1>7. /\ lo \in [page : 0 .. NumPages, order : Orders] /\ hi \in [page : 0 .. NumPages, order : Orders]
      /\ Aligned(lo.page, lo.order) /\ Aligned(hi.page, hi.order) /\ hi.page = page + Size[j] /\ hi.order = j
  BY <1>5, <1>6
<1> HIDE DEF big, lo, hi
<1>8. Sound(l, bits, used \cup {lo, hi}) /\ lo # hi /\ lo \notin used /\ hi \notin used
  BY <1>1, <1>2, <1>5, <1>7, SplitHeld
<1>9. PICK m, bs : Released(l, bits, used \cup {lo, hi}, hi, m, bs)
  <2>1. hi \in used \cup {lo, hi}
    OBVIOUS
  <2>. QED BY <1>8, <2>1, FreedSound
<1>10. (used \cup {lo, hi}) \ {hi} = used \cup {lo}
  BY <1>8
<1>11. Covered(m) = Covered(list) \ PagesOf(lo)
  BY <1>1, <1>2, <1>5, <1>9 DEF Released
<1>12. FreeBlock(s, page + Size[j], j) = BinsOf(m, bs) /\ Sound(m, bs, used \cup {lo})
  BY <1>2, <1>7, <1>9, <1>10 DEF Released
<1>13. PagesOf(lo) \subseteq Covered(list)
  BY <1>1, <1>5
<1>. QED BY <1>8, <1>11, <1>12, <1>13 DEF Holding, lo

\* The bins on the way down exist.
LEMMA SplitExists ==
  ASSUME NEW i \in Nat, NEW page
  PROVE  \E g : g = [j \in 0 .. i |-> IF j = i THEN TakeFirst(i) ELSE FreeBlock(g[j + 1], page + Size[j], j)]
<1> DEFINE Down(k, g) == g = [j \in i - k .. i |-> IF j = i THEN TakeFirst(i) ELSE FreeBlock(g[j + 1], page + Size[j], j)]
           P == {k \in Nat : \E g : Down(k, g)}
<1>1. 0 \in P
  <2> DEFINE g == [j \in i - 0 .. i |-> TakeFirst(i)]
  <2>1. \A j \in i - 0 .. i : j = i
    BY SMT
  <2>2. Down(0, g)
    BY <2>1
  <2>. QED BY <2>2
<1>2. ASSUME NEW k \in 0 .. i - 1, k \in P PROVE k + 1 \in P
  <2>1. PICK g : Down(k, g)
    BY <1>2
  <2> DEFINE low == i - (k + 1)
             h == [j \in low .. i |-> IF j = low THEN FreeBlock(g[j + 1], page + Size[j], j) ELSE g[j]]
  <2>2. /\ k + 1 \in Nat /\ low # i
        /\ \A j \in low .. i : j # low => j \in i - k .. i
        /\ \A j \in low .. i : j # i => j + 1 \in low .. i /\ j + 1 # low
    BY SMT
  <2>3. ASSUME NEW j \in low .. i PROVE h[j] = IF j = i THEN TakeFirst(i) ELSE FreeBlock(h[j + 1], page + Size[j], j)
    <3> HIDE DEF low
    <3>1. CASE j = low
      <4>1. h[j] = FreeBlock(g[j + 1], page + Size[j], j) /\ j # i
        BY <2>2, <3>1
      <4>2. h[j + 1] = g[j + 1]
        BY <2>2, <4>1
      <4>. QED BY <4>1, <4>2
    <3>2. CASE j # low
      <4>1. j \in i - k .. i /\ h[j] = g[j]
        BY <2>2, <3>2
      <4>2. g[j] = IF j = i THEN TakeFirst(i) ELSE FreeBlock(g[j + 1], page + Size[j], j)
        BY <2>1, <4>1
      <4>3. j # i => h[j + 1] = g[j + 1]
        BY <2>2
      <4> HIDE DEF h
      <4>. QED BY <4>1, <4>2, <4>3
    <3>. QED BY <3>1, <3>2
  <2>4. h = [j \in low .. i |-> h[j]]
    OBVIOUS
  <2>5. Down(k + 1, h)
    <3> HIDE DEF h
    <3>. QED BY <2>3, <2>4
  <2>. QED BY <2>2, <2>5
<1>3. i \in 0 .. i /\ i - i = 0
  BY SMT
<1>4. i \in P
  <2> HIDE DEF P
  <2>. QED BY <1>1, <1>2, <1>3, Climb
<1>. QED BY <1>3, <1>4

\* What is left at each order on the way down.
LEMMA SplitIs ==
  ASSUME NEW i \in Nat
  PROVE  /\ Split(i)[i] = TakeFirst(i)
         /\ \A j \in 0 .. i - 1 : Split(i)[j] = FreeBlock(Split(i)[j + 1], Head(list[i]) + Size[j], j)
<1> DEFINE page == Head(list[i])
<1>1. \E g : g = [j \in 0 .. i |-> IF j = i THEN TakeFirst(i) ELSE FreeBlock(g[j + 1], page + Size[j], j)]
  BY SplitExists
<1>2. Split(i) = [j \in 0 .. i |-> IF j = i THEN TakeFirst(i) ELSE FreeBlock(Split(i)[j + 1], page + Size[j], j)]
  BY <1>1 DEF Split
<1>3. i \in 0 .. i /\ \A j \in 0 .. i - 1 : j \in 0 .. i /\ j # i
  BY SMT
<1> HIDE DEF page
<1>4. ASSUME NEW j \in 0 .. i
      PROVE Split(i)[j] = IF j = i THEN TakeFirst(i) ELSE FreeBlock(Split(i)[j + 1], page + Size[j], j)
  BY <1>2
<1>. QED BY <1>3, <1>4 DEF page

\* The way down from the first block of order i.
LEMMA SplitHolds ==
  ASSUME Sound(list, bitmap, used), panic = NULL, Covered(list) \subseteq 0 .. NumPages,
         NEW i \in Orders, list[i] # <<>>, NEW j \in 0 .. i
  PROVE  Holding(Split(i)[j], Head(list[i]), j)
<1> DEFINE page == Head(list[i])
           P == {k \in Nat : Holding(Split(i)[i - k], page, i - k)}
<1>0. i \in Nat /\ MaxOrder \in Nat /\ i \in 0 .. MaxOrder
  BY Sizes DEF Orders
<1>1. 0 \in P
  <2>1. i - 0 = i /\ 0 \in Nat
    BY SMT, <1>0
  <2>2. Split(i)[i] = TakeFirst(i)
    BY <1>0, SplitIs
  <2>3. Holding(TakeFirst(i), page, i)
    BY Taken
  <2>. QED BY <2>1, <2>2, <2>3
<1>2. ASSUME NEW k \in 0 .. i - 1, k \in P PROVE k + 1 \in P
  <2> DEFINE q == i - (k + 1)
  <2>1. q \in 0 .. i - 1 /\ q \in Orders /\ q + 1 \in Orders /\ q + 1 = i - k /\ k + 1 \in Nat
    BY SMT, <1>0 DEF Orders
  <2> HIDE DEF q
  <2>2. page \in 0 .. NumPages
    <3>1. list[i] \in Seq(0 .. NumPages) /\ IsInjective(list[i])
      BY DEF Sound
    <3>2. Head(list[i]) \in Range(list[i])
      BY <3>1, Popped
    <3>. QED BY <3>1, <3>2, OnList
  <2>3. Holding(Split(i)[q + 1], page, q + 1)
    BY <1>2, <2>1
  <2>4. Holding(FreeBlock(Split(i)[q + 1], page + Size[q], q), page, q)
    BY <2>1, <2>2, <2>3, SplitStep
  <2>5. Split(i)[q] = FreeBlock(Split(i)[q + 1], page + Size[q], q)
    BY <1>0, <2>1, SplitIs
  <2>6. Holding(Split(i)[q], page, q)
    BY <2>4, <2>5
  <2>. QED BY <2>1, <2>6 DEF q
<1>3. i - j \in 0 .. i /\ i - (i - j) = j
  BY SMT, <1>0
<1>4. i - j \in P
  <2> HIDE DEF P
  <2>. QED BY <1>0, <1>1, <1>2, <1>3, Climb
<1>. QED BY <1>3, <1>4

\* A block on a list, as a record with an aligned page.
LEMMA OnLists ==
  ASSUME NEW l, NEW bits, NEW U, Sound(l, bits, U), NEW b \in Blocks(l)
  PROVE  /\ b = [page |-> b.page, order |-> b.order] /\ b.page \in Nat /\ b.order \in Orders
         /\ PagesOf(b) = Span(b.page, b.order) /\ Base(b.page, b.order) = b.page
         /\ b.page \in Range(l[b.order]) /\ b.page \in PagesOf(b)
<1>1. /\ l \in [Orders -> Seq(0 .. NumPages)] /\ Aligned(b.page, b.order)
  BY DEF Sound
<1>2. b = [page |-> b.page, order |-> b.order] /\ b.order \in Orders /\ b.page \in Range(l[b.order])
  BY BlocksAre
<1>3. b.page \in 0 .. NumPages
  <2>1. l[b.order] \in Seq(0 .. NumPages)
    BY <1>1, <1>2
  <2>. QED BY <1>2, <2>1, OnList
<1>4. b \in [page : 0 .. NumPages, order : Orders]
  BY <1>2, <1>3
<1>5. b.page \in Nat /\ PagesOf(b) = Span(b.page, b.order) /\ b.page \in PagesOf(b)
  BY <1>1, <1>4, HoldsPage
<1>6. Base(b.page, b.order) = b.page
  BY <1>1, <1>2, <1>5, PagesAre
<1>. QED BY <1>2, <1>5, <1>6

\* The free block that holds a page of a free run, when no free block is as
\* large as the run, lies in the run.
LEMMA InsideRun ==
  ASSUME NEW l, NEW bits, NEW U, Sound(l, bits, U), NEW o \in Orders, NEW p \in Nat,
         Span(p, o) \subseteq Covered(l), \A i \in Orders : o <= i => l[i] = <<>>,
         NEW x \in Span(p, o)
  PROVE  \E b \in Blocks(l) : x \in PagesOf(b) /\ b.order < o /\ b.page \in Span(p, o)
<1>1. PICK b \in Blocks(l) : x \in PagesOf(b)
  BY DEF Covered
<1>2. /\ b.page \in Nat /\ b.order \in Orders /\ PagesOf(b) = Span(b.page, b.order)
      /\ b.page \in Range(l[b.order]) /\ b.page \in PagesOf(b)
  BY OnLists
<1>3. b.order < o
  <2>1. ASSUME o <= b.order PROVE FALSE
    <3>1. l[b.order] = <<>>
      BY <1>2, <2>1
    <3>2. l[b.order] \in Seq(0 .. NumPages)
      BY <1>2 DEF Sound
    <3>3. Range(l[b.order]) = {}
      BY <3>1, <3>2, OnList
    <3>. QED BY <1>2, <3>3
  <2>. QED BY SMT, <1>2, <2>1, Sizes DEF Orders
<1>4. b.order \in 0 .. MaxOrder + 1 /\ o \in 0 .. MaxOrder + 1 /\ b.order <= o
  <2>1. b.order <= o
    BY SMT, <1>2, <1>3, Sizes DEF Orders
  <2>. QED BY <1>2, <2>1, Sizes
<1>5. x \in Nat /\ Span(x, o) = Span(p, o)
  BY <1>4, SpanIs
<1>6. Span(x, b.order) = Span(b.page, b.order)
  <2>0. b.page \in Nat
    BY <1>2
  <2>1. \A z \in Span(b.page, b.order) : Span(z, b.order) = Span(b.page, b.order)
    BY <1>4, <2>0, SpanIs
  <2>. QED BY <1>1, <1>2, <2>1
<1>7. Span(x, b.order) \subseteq Span(x, o)
  BY <1>2, <1>4, <1>5, Nested
<1>. QED BY <1>1, <1>2, <1>3, <1>5, <1>6, <1>7

\* An aligned run of free pages means a free block at least as large: the smaller
\* blocks it would consist of have been merged.
LEMMA RunHasBlock ==
  ASSUME NEW l, NEW bits, NEW U, Sound(l, bits, U), NEW o \in Orders, NEW p \in Nat,
         Span(p, o) \subseteq Covered(l)
  PROVE  \E i \in Orders : o <= i /\ l[i] # <<>>
<1> SUFFICES ASSUME \A i \in Orders : o <= i => l[i] = <<>> PROVE FALSE
  OBVIOUS
<1>0. o \in 0 .. MaxOrder + 1 /\ MaxOrder \in Nat
  BY Sizes
<1>1. ASSUME NEW x \in Span(p, o)
      PROVE  \E b \in Blocks(l) : x \in PagesOf(b) /\ b.order < o /\ b.page \in Span(p, o)
  BY InsideRun
<1> DEFINE In == {b \in Blocks(l) : b.order < o /\ b.page \in Span(p, o)}
           T == {b.order : b \in In}
<1>2. T \in SUBSET Nat /\ T # {}
  <2>1. p \in Span(p, o)
    BY <1>0, SpanIs
  <2>2. \E b \in Blocks(l) : p \in PagesOf(b) /\ b.order < o /\ b.page \in Span(p, o)
    BY <1>1, <2>1
  <2>3. ASSUME NEW b \in In PROVE b.order \in Nat
    <3>1. b.order \in Orders
      BY OnLists
    <3>. QED BY <3>1, Sizes
  <2>. QED BY <2>2, <2>3
<1>3. PICK k \in T : \A n \in T : k <= n
  <2> HIDE DEF T
  <2>. QED BY <1>2, Least
<1>4. PICK b \in In : b.order = k
  OBVIOUS
<1>5. b \in Blocks(l) /\ k < o /\ b.page \in Span(p, o)
  BY <1>4
<1>6. /\ b.page \in Nat /\ k \in Orders /\ PagesOf(b) = Span(b.page, k) /\ Base(b.page, k) = b.page
      /\ b.page \in Range(l[k]) /\ b.page \in PagesOf(b)
  BY <1>4, <1>5, OnLists
<1> DEFINE y == Buddy(b.page, k)
<1>7. k < MaxOrder /\ k + 1 \in Orders /\ k + 1 <= o /\ k \in 0 .. MaxOrder + 1 /\ k + 1 \in 0 .. MaxOrder + 1
  BY SMT, <1>0, <1>5, <1>6 DEF Orders
<1>8. y \in Nat /\ Base(y, k) = y /\ Base(y, k + 1) = Base(b.page, k + 1)
  BY <1>6, BuddyIs, BuddyBack
<1> HIDE DEF y
<1>9. y \in Span(b.page, k + 1)
  BY <1>6, <1>7, <1>8, SpanIs
<1>10. y \in Span(p, o)
  <2>1. Span(b.page, k + 1) \subseteq Span(b.page, o)
    BY <1>6, <1>7, Nested
  <2>2. Span(b.page, o) = Span(p, o)
    BY <1>0, <1>5, SpanIs
  <2>. QED BY <1>9, <2>1, <2>2
<1>11. PICK c \in Blocks(l) : y \in PagesOf(c) /\ c.order < o /\ c.page \in Span(p, o)
  BY <1>1, <1>10
<1>12. /\ c.page \in Nat /\ c.order \in Orders /\ PagesOf(c) = Span(c.page, c.order)
       /\ Base(c.page, c.order) = c.page /\ c.page \in Range(l[c.order])
  BY OnLists
<1>13. k <= c.order
  BY <1>3, <1>11
<1>14. c.order \in 0 .. MaxOrder + 1
  BY <1>12, Sizes
<1>15. Base(y, c.order) = c.page /\ Span(y, c.order) = PagesOf(c)
  <2>0. c.page \in Nat
    BY <1>12
  <2>1. \A z \in Span(c.page, c.order) :
          Base(z, c.order) = Base(c.page, c.order) /\ Span(z, c.order) = Span(c.page, c.order)
    BY <1>14, <2>0, SpanIs
  <2>. QED BY <1>11, <1>12, <2>1
<1>16. CASE c.order = k
  <2>1. y = c.page
    BY <1>8, <1>15, <1>16
  <2>2. y \in Range(l[k])
    BY <1>12, <1>16, <2>1
  <2>3. Merged(l)
    BY DEF Sound
  <2>. QED BY <1>6, <1>7, <2>2, <2>3 DEF Merged, y
<1>17. CASE c.order # k
  <2>1. k + 1 <= c.order
    BY <1>6, <1>12, <1>13, <1>17, Ordering
  <2>2. Span(y, k + 1) \subseteq Span(y, c.order)
    BY <1>7, <1>8, <1>12, <2>1, Nested
  <2>3. b.page \in Span(y, k + 1)
    BY <1>6, <1>7, <1>8, SpanIs
  <2>4. b.page \in PagesOf(c)
    BY <1>15, <2>2, <2>3
  <2>5. b # c /\ Apart(Blocks(l) \cup U)
    BY <1>4, <1>17 DEF Sound
  <2>6. PagesOf(b) \cap PagesOf(c) = {}
    BY <1>5, <2>5 DEF Apart
  <2>. QED BY <1>6, <2>4, <2>6
<1>. QED BY <1>16, <1>17

-----------------------------------------------------------------------------
(* pgalloc_free_range                                                      *)

\* A bounded set of numbers has a largest one.
LEMMA MaxIs ==
  ASSUME NEW n \in Nat, NEW T \in SUBSET (0 .. n), T # {}
  PROVE  Max(T) \in T
<1> DEFINE D == {n - x : x \in T}
<1>1. D \in SUBSET Nat /\ D # {}
  <2>1. \A x \in 0 .. n : n - x \in Nat
    BY SMT
  <2>. QED BY <2>1
<1>2. PICK d \in D : \A e \in D : d <= e
  <2> HIDE DEF D
  <2>. QED BY <1>1, Least
<1>3. PICK x \in T : d = n - x
  OBVIOUS
<1>4. ASSUME NEW y \in T PROVE x >= y
  <2>1. n - x <= n - y
    BY <1>2, <1>3
  <2>2. x \in 0 .. n /\ y \in 0 .. n
    OBVIOUS
  <2>. QED BY SMT, <2>1, <2>2
<1>. QED BY <1>4 DEF Max

\* The block that is fed next.
NextFed == [page |-> feed, order |-> RangeOrder]

\* free_pages_range gives back blocks that are aligned and end in the range.
LEMMA RangeOrderIs ==
  ASSUME feed \in StartPage .. EndPage, feed < EndPage
  PROVE  /\ RangeOrder \in Orders /\ Aligned(feed, RangeOrder) /\ feed + Size[RangeOrder] <= EndPage
         /\ Size[RangeOrder] \in Nat /\ Size[RangeOrder] > 0 /\ feed \in Nat /\ feed \in 0 .. NumPages
         /\ NextFed \in [page : 0 .. NumPages, order : Orders] /\ NextFed.page = feed /\ NextFed.order = RangeOrder
         /\ PagesOf(NextFed) = feed .. feed + Size[RangeOrder] - 1
<1> DEFINE T == {i \in Orders : Aligned(feed, i) /\ feed + Size[i] <= EndPage}
<1>0. /\ MaxOrder \in Nat /\ NumPages \in Nat /\ StartPage \in Nat /\ EndPage \in Nat /\ EndPage <= NumPages
  BY PageAssumption
<1>1. feed \in Nat /\ feed \in 0 .. NumPages /\ feed + 1 <= EndPage
  BY SMT, <1>0
<1>2. 0 \in T
  <2>1. feed % 1 = 0 /\ 0 \in Orders
    BY SMT, <1>0, <1>1 DEF Orders
  <2>. QED BY <1>1, <2>1, SizeIs DEF Aligned
<1>3. Max(T) \in T
  <2>1. T \in SUBSET (0 .. MaxOrder) /\ T # {}
    BY <1>2 DEF Orders
  <2> HIDE DEF T
  <2>. QED BY <1>0, <2>1, MaxIs
<1>4. RangeOrder \in T
  BY <1>3 DEF RangeOrder
<1>5. RangeOrder \in Orders /\ Aligned(feed, RangeOrder) /\ feed + Size[RangeOrder] <= EndPage
  BY <1>4
<1>6. Size[RangeOrder] \in Nat /\ Size[RangeOrder] > 0
  <2>1. RangeOrder \in 0 .. MaxOrder + 1
    BY <1>5, Sizes
  <2>. QED BY <2>1, Sizes
<1> HIDE DEF T
<1>7. /\ NextFed \in [page : 0 .. NumPages, order : Orders] /\ NextFed.page = feed /\ NextFed.order = RangeOrder
  BY <1>1, <1>5 DEF NextFed
<1>. QED BY <1>1, <1>5, <1>6, <1>7 DEF PagesOf

-----------------------------------------------------------------------------
(* The inductive invariant                                                 *)

\* The pages of the blocks of B.
Pages(B) == UNION {PagesOf(b) : b \in B}

\* The lists and the bits are in order, and the blocks on the lists and in the
\* callers' hands make up what was fed.
Inv ==
  /\ Sound(list, bitmap, used) /\ Pages(Blocks(list) \cup used) = StartPage .. feed - 1
  /\ feed \in StartPage .. EndPage
  /\ out \in used \cup {Void} \cup [page : {NULL}, order : Requests]
  /\ panic = NULL

\* The pages of two sets of blocks.
LEMMA PagesOfUnion ==
  ASSUME NEW A, NEW B
  PROVE  /\ Pages(A \cup B) = Pages(A) \cup Pages(B)
         /\ \A b : Pages({b}) = PagesOf(b)
         /\ \A l : Covered(l) = Pages(Blocks(l))
<1>1. Pages(A \cup B) = Pages(A) \cup Pages(B)
  BY DEF Pages
<1>2. \A b : Pages({b}) = PagesOf(b)
  BY DEF Pages
<1>3. \A l : Covered(l) = Pages(Blocks(l))
  BY DEF Pages, Covered
<1>. QED BY <1>1, <1>2, <1>3

\* Every free page and every page of a block in use was fed, and exists.
LEMMA Fed ==
  ASSUME Inv
  PROVE  /\ Covered(list) \subseteq StartPage .. feed - 1 /\ Covered(list) \subseteq 0 .. NumPages
         /\ Covered(list) \cup Pages(used) = StartPage .. feed - 1
<1>1. Covered(list) \cup Pages(used) = StartPage .. feed - 1
  <2>1. Pages(Blocks(list) \cup used) = Pages(Blocks(list)) \cup Pages(used)
    BY PagesOfUnion
  <2>2. Covered(list) = Pages(Blocks(list))
    BY PagesOfUnion
  <2>. QED BY <2>1, <2>2 DEF Inv
<1>2. StartPage .. feed - 1 \subseteq 0 .. NumPages
  BY SMT, PageAssumption DEF Inv
<1>. QED BY <1>1, <1>2

\* The lists are in order when the block fed next counts as one in use.
LEMMA FedSound ==
  ASSUME Inv, feed < EndPage
  PROVE  Sound(list, bitmap, used \cup {NextFed}) /\ NextFed \notin used
<1> DEFINE b == NextFed
<1>1. /\ RangeOrder \in Orders /\ Aligned(feed, RangeOrder) /\ Size[RangeOrder] \in Nat /\ Size[RangeOrder] > 0 /\ feed \in Nat
      /\ b \in [page : 0 .. NumPages, order : Orders] /\ b.page = feed /\ b.order = RangeOrder
      /\ PagesOf(b) = feed .. feed + Size[RangeOrder] - 1
  BY RangeOrderIs DEF Inv
<1>2. PagesOf(b) \cap (StartPage .. feed - 1) = {} /\ feed \in PagesOf(b)
  <2>1. StartPage \in Nat /\ StartPage <= feed
    BY SMT, PageAssumption DEF Inv
  <2>2. /\ (StartPage .. feed - 1) \cap (feed .. feed + Size[RangeOrder] - 1) = {}
        /\ feed \in feed .. feed + Size[RangeOrder] - 1
    BY <1>1, <2>1, Interval
  <2>. QED BY <1>1, <2>2
<1> HIDE DEF b
<1>3. ASSUME NEW c \in Blocks(list) \cup used PROVE PagesOf(c) \cap PagesOf(b) = {} /\ PagesOf(b) \cap PagesOf(c) = {} /\ c # b
  <2>1. PagesOf(c) \subseteq StartPage .. feed - 1
    BY DEF Inv, Pages
  <2>. QED BY <1>2, <2>1
<1>4. /\ Apart(Blocks(list) \cup used) /\ Blocks(list) \cap used = {}
      /\ used \subseteq [page : 0 .. NumPages, order : Orders]
      /\ \A c \in Blocks(list) \cup used : Aligned(c.page, c.order)
  BY DEF Inv, Sound
<1>5. Apart(Blocks(list) \cup (used \cup {b}))
  BY <1>3, <1>4 DEF Apart
<1>6. /\ Blocks(list) \cap (used \cup {b}) = {} /\ used \cup {b} \subseteq [page : 0 .. NumPages, order : Orders]
      /\ \A c \in Blocks(list) \cup (used \cup {b}) : Aligned(c.page, c.order)
  BY <1>1, <1>3, <1>4
<1>7. Sound(list, bitmap, used \cup {b})
  BY <1>5, <1>6 DEF Inv, Sound
<1>. QED BY <1>3, <1>7 DEF b

\* The bins after a step that ends without a panic.
LEMMA BinsSet ==
  ASSUME NEW m, NEW bs, NEW s, s = BinsOf(m, bs), SetBins(s)
  PROVE  list' = m /\ bitmap' = bs /\ panic' = NULL
BY DEF SetBins, BinsOf

\* The start: no block, no bit, no page.
LEMMA InitInv == ASSUME Cleared, Init PROVE Inv
<1>1. /\ list = [i \in Orders |-> <<>>] /\ bitmap \in [Bits -> {FALSE}] /\ feed = StartPage /\ used = {}
      /\ out = Void /\ panic = NULL
  BY DEF Init
<1>2. ASSUME NEW i \in Orders
      PROVE  list[i] = <<>> /\ list[i] \in Seq(0 .. NumPages) /\ Range(list[i]) = {} /\ IsInjective(list[i])
  <2>1. list[i] = <<>>
    BY <1>1
  <2>2. <<>> \in Seq(0 .. NumPages) /\ DOMAIN <<>> = {}
    BY SMT
  <2>. QED BY <2>1, <2>2 DEF Range, IsInjective
<1>3. Blocks(list) = {}
  BY <1>2, BlocksAre
<1>4. list \in [Orders -> Seq(0 .. NumPages)]
  BY <1>1, <1>2
<1>5. bitmap \in [Bits -> BOOLEAN] /\ \A b \in Bits : ~bitmap[b]
  BY <1>1
<1>6. Parity(list, bitmap)
  BY <1>2, <1>5, BitsAre DEF Parity
<1>7. Merged(list)
  BY <1>2 DEF Merged
<1>8. Sound(list, bitmap, used)
  BY <1>1, <1>2, <1>3, <1>4, <1>5, <1>6, <1>7 DEF Sound, Apart
<1>9. StartPage .. StartPage - 1 = {} /\ StartPage \in StartPage .. EndPage
  BY SMT, PageAssumption
<1>10. Pages(Blocks(list) \cup used) = StartPage .. feed - 1
  BY <1>1, <1>3, <1>9 DEF Pages
<1>. QED BY <1>1, <1>8, <1>9, <1>10 DEF Inv

\* pgalloc_free_range frees the pages it passes.
LEMMA FreeRangeStep ==
  ASSUME Inv, FreeRange
  PROVE  Inv' /\ Covered(list') = Covered(list) \cup PagesOf(NextFed)
<1>1. /\ panic = NULL /\ feed < EndPage /\ feed \in StartPage .. EndPage
      /\ SetBins(FreeBlock(Bins, feed, RangeOrder)) /\ feed' = feed + Size[RangeOrder] /\ used' = used /\ out' = out
  BY DEF Inv, FreeRange
<1>2. /\ Size[RangeOrder] \in Nat /\ feed + Size[RangeOrder] <= EndPage /\ feed \in Nat
      /\ NextFed.page = feed /\ NextFed.order = RangeOrder
      /\ PagesOf(NextFed) = feed .. feed + Size[RangeOrder] - 1
  BY <1>1, RangeOrderIs
<1>3. Sound(list, bitmap, used \cup {NextFed}) /\ NextFed \notin used
  BY <1>1, FedSound
<1>4. PICK m, bs : Released(list, bitmap, used \cup {NextFed}, NextFed, m, bs)
  <2>1. NextFed \in used \cup {NextFed}
    OBVIOUS
  <2>. QED BY <1>3, <2>1, FreedSound
<1>5. (used \cup {NextFed}) \ {NextFed} = used
  BY <1>3
<1>6. Bins = BinsOf(list, bitmap)
  BY <1>1 DEF Bins, BinsOf
<1>7. FreeBlock(Bins, feed, RangeOrder) = BinsOf(m, bs)
  BY <1>2, <1>4, <1>6 DEF Released
<1>8. list' = m /\ bitmap' = bs /\ panic' = NULL
  BY <1>1, <1>7, BinsSet
<1>9. Sound(list', bitmap', used')
  BY <1>1, <1>4, <1>5, <1>8 DEF Released
<1>10. Covered(list') = Covered(list) \cup PagesOf(NextFed)
  BY <1>4, <1>8 DEF Released
<1>11. feed' \in StartPage .. EndPage /\ StartPage .. feed' - 1 = (StartPage .. feed - 1) \cup (feed .. feed + Size[RangeOrder] - 1)
  <2>1. StartPage \in Nat /\ EndPage \in Nat /\ StartPage <= feed
    BY SMT, PageAssumption DEF Inv
  <2>2. ASSUME NEW n \in Nat, feed + n <= EndPage PROVE feed + n \in StartPage .. EndPage
    BY SMT, <1>2, <2>1, <2>2
  <2>3. StartPage .. (feed + Size[RangeOrder]) - 1 = (StartPage .. feed - 1) \cup (feed .. feed + Size[RangeOrder] - 1)
    BY <1>2, <2>1, Interval
  <2>. QED BY <1>1, <1>2, <2>2, <2>3
<1>12. Pages(Blocks(list') \cup used') = StartPage .. feed' - 1
  <2>1. Pages(Blocks(list') \cup used') = Covered(list') \cup Pages(used')
    <3>1. Pages(Blocks(list') \cup used') = Pages(Blocks(list')) \cup Pages(used')
      BY PagesOfUnion
    <3>2. Covered(list') = Pages(Blocks(list'))
      BY PagesOfUnion
    <3>. QED BY <3>1, <3>2
  <2>2. Covered(list) \cup Pages(used) = StartPage .. feed - 1
    BY Fed
  <2>3. Pages(used') = Pages(used)
    BY <1>1
  <2>. QED BY <1>2, <1>10, <1>11, <2>1, <2>2, <2>3
<1>13. Inv'
  BY <1>1, <1>8, <1>9, <1>11, <1>12 DEF Inv
<1>. QED BY <1>10, <1>13

\* pgalloc_free gives the pages of the block back.
LEMMA FreeStep ==
  ASSUME Inv, NEW b \in used, Free(b)
  PROVE  Inv' /\ Covered(list') = Covered(list) \cup PagesOf(b)
<1>1. /\ panic = NULL /\ SetBins(FreeBlock(Bins, b.page, b.order)) /\ used' = used \ {b} /\ out' = Void /\ feed' = feed
  BY DEF Free
<1>2. PICK m, bs : Released(list, bitmap, used, b, m, bs)
  <2>1. Sound(list, bitmap, used)
    BY DEF Inv
  <2>. QED BY <2>1, FreedSound
<1>3. Bins = BinsOf(list, bitmap)
  BY <1>1 DEF Bins, BinsOf
<1>4. FreeBlock(Bins, b.page, b.order) = BinsOf(m, bs)
  BY <1>2, <1>3 DEF Released
<1>5. list' = m /\ bitmap' = bs /\ panic' = NULL
  BY <1>1, <1>4, BinsSet
<1>6. Sound(list', bitmap', used') /\ Covered(list') = Covered(list) \cup PagesOf(b)
  BY <1>1, <1>2, <1>5 DEF Released
<1>7. Pages(Blocks(list') \cup used') = StartPage .. feed' - 1
  <2>1. Pages(Blocks(list') \cup used') = Pages(Blocks(list')) \cup Pages(used')
    BY PagesOfUnion
  <2>2. Covered(list') = Pages(Blocks(list'))
    BY PagesOfUnion
  <2>3. Covered(list) \cup Pages(used) = StartPage .. feed - 1
    BY Fed
  <2>4. Pages(used) = PagesOf(b) \cup Pages(used \ {b})
    BY DEF Pages
  <2>5. Pages(Blocks(list') \cup used') = (Covered(list) \cup PagesOf(b)) \cup Pages(used \ {b})
    BY <1>1, <1>6, <2>1, <2>2
  <2>6. (Covered(list) \cup PagesOf(b)) \cup Pages(used \ {b}) = Covered(list) \cup Pages(used)
    BY <2>4
  <2>. QED BY <1>1, <2>3, <2>5, <2>6
<1>8. Inv'
  BY <1>1, <1>5, <1>6, <1>7 DEF Inv
<1>. QED BY <1>6, <1>8

\* A request that s_alloc_block refuses: no list from that order up has a block.
Refused(order) == order \notin Orders \/ {i \in Orders : i >= order /\ list[i] # <<>>} = {}

\* A request that is refused changes nothing.
LEMMA RefuseStep ==
  ASSUME Inv, NEW order \in Requests, Allocate(order), Refused(order)
  PROVE  Inv' /\ UNCHANGED <<list, used, feed>> /\ out' = [page |-> NULL, order |-> order]
<1>1. out' = [page |-> NULL, order |-> order] /\ list' = list /\ bitmap' = bitmap /\ used' = used /\ panic' = panic /\ feed' = feed
  BY DEF Allocate, Refused
<1>2. out' \in [page : {NULL}, order : Requests]
  BY <1>1
<1>3. Inv'
  BY <1>1, <1>2 DEF Inv
<1>. QED BY <1>1, <1>3

\* A request that is met takes an aligned block of free pages.
LEMMA AllocateStep ==
  ASSUME Inv, NEW order \in Requests, Allocate(order), ~Refused(order)
  PROVE  /\ Inv' /\ order \in Orders /\ used' = used \cup {out'} /\ feed' = feed
         /\ \E p \in Nat : /\ out' = [page |-> p, order |-> order] /\ Aligned(p, order)
                           /\ PagesOf(out') \subseteq Covered(list) /\ Covered(list') = Covered(list) \ PagesOf(out')
<1> DEFINE from == {k \in Orders : k >= order /\ list[k] # <<>>}
           i == Min(from)
           page == Head(list[i])
           b == [page |-> page, order |-> order]
<1>1. order \in Orders /\ from # {}
  BY DEF Refused
<1>2. /\ panic = NULL /\ SetBins(Split(i)[order]) /\ out' = b /\ used' = used \cup {out'} /\ feed' = feed
  BY <1>1 DEF Allocate
<1>3. i \in Orders /\ i >= order /\ list[i] # <<>>
  <2>1. from \in SUBSET Nat
    BY Sizes
  <2>2. i \in from
    <3> HIDE DEF from
    <3>. QED BY <1>1, <2>1, MinIs
  <2>. QED BY <2>2
<1> HIDE DEF i
<1>4. order \in 0 .. i
  BY SMT, <1>1, <1>3 DEF Orders
<1>5. Holding(Split(i)[order], page, order)
  <2>1. Sound(list, bitmap, used) /\ Covered(list) \subseteq 0 .. NumPages
    BY Fed DEF Inv
  <2>. QED BY <1>2, <1>3, <1>4, <2>1, SplitHolds
<1>6. b \notin used /\ PagesOf(b) \subseteq Covered(list)
  BY <1>5 DEF Holding
<1>7. PICK m, bs : /\ Split(i)[order] = BinsOf(m, bs) /\ Sound(m, bs, used \cup {b})
                   /\ Covered(m) = Covered(list) \ PagesOf(b)
  BY <1>5 DEF Holding
<1>8. list' = m /\ bitmap' = bs /\ panic' = NULL
  BY <1>2, <1>7, BinsSet
<1>9. b.page = page /\ b.order = order
  OBVIOUS
<1> HIDE DEF b
<1>10. Sound(list', bitmap', used') /\ Covered(list') = Covered(list) \ PagesOf(b)
  BY <1>2, <1>7, <1>8
<1>11. Pages(Blocks(list') \cup used') = StartPage .. feed' - 1
  <2>1. Pages(Blocks(list') \cup used') = Pages(Blocks(list')) \cup Pages(used')
    BY PagesOfUnion
  <2>2. Covered(list') = Pages(Blocks(list'))
    BY PagesOfUnion
  <2>3. Covered(list) \cup Pages(used) = StartPage .. feed - 1
    BY Fed
  <2>4. Pages(used') = Pages(used) \cup PagesOf(b)
    <3>1. Pages(used \cup {b}) = Pages(used) \cup Pages({b})
      BY PagesOfUnion
    <3>2. Pages({b}) = PagesOf(b)
      BY PagesOfUnion
    <3>. QED BY <1>2, <3>1, <3>2
  <2>. QED BY <1>2, <1>6, <1>10, <2>1, <2>2, <2>3, <2>4
<1>12. out' \in used'
  BY <1>2
<1>13. Inv'
  BY <1>2, <1>8, <1>10, <1>11, <1>12 DEF Inv
<1>14. page \in Nat /\ Aligned(page, order)
  <2>1. b \in [page : 0 .. NumPages, order : Orders] /\ Aligned(b.page, b.order)
    BY <1>7 DEF Sound
  <2>2. b.page \in Nat
    BY <2>1, HoldsPage
  <2>. QED BY <1>9, <2>1, <2>2
<1>15. out' = [page |-> page, order |-> order]
  BY <1>2 DEF b
<1>. QED BY <1>1, <1>2, <1>6, <1>10, <1>13, <1>14, <1>15

\* The invariant is inductive.
LEMMA NextInv == ASSUME Inv, [Next]_vars PROVE Inv'
<1>1. CASE FreeRange
  BY <1>1, FreeRangeStep
<1>2. ASSUME NEW order \in Requests, Allocate(order) PROVE Inv'
  <2>1. CASE Refused(order)
    BY <1>2, <2>1, RefuseStep
  <2>2. CASE ~Refused(order)
    BY <1>2, <2>2, AllocateStep
  <2>. QED BY <2>1, <2>2
<1>3. ASSUME NEW b \in used, Free(b) PROVE Inv'
  BY <1>3, FreeStep
<1>4. CASE UNCHANGED vars
  BY <1>4 DEF Inv, vars
<1>. QED BY <1>1, <1>2, <1>3, <1>4 DEF Next

\* The allocator keeps its invariant.
LEMMA InvHolds == ASSUME Cleared PROVE Spec => []Inv
<1>1. Init => Inv
  BY InitInv
<1>2. Inv /\ [Next]_vars => Inv'
  BY NextInv
<1>. QED BY <1>1, <1>2, PTL DEF Spec

\* When boot_alloc's memory is zero, the bit that two buddies share always says
\* whether one of them is on the list, and s_free_block never panics.
THEOREM Parities == ASSUME Cleared PROVE Spec => []BitmapIsParity
<1>1. Inv => BitmapIsParity
  BY DEF Inv, Sound, Parity, BitmapIsParity
<1>. QED BY <1>1, InvHolds, PTL

\* When boot_alloc's memory is zero, every page that was fed is in exactly one
\* block, on a list or with a caller, whatever was split and merged.
THEOREM Accounted == ASSUME Cleared PROVE Spec => []PagesAccounted
<1>1. ASSUME Inv PROVE PagesAccounted
  <2>1. FreeBlocks = Blocks(list)
    BY DEF FreeBlocks, Blocks
  <2>2. TypeOK
    BY <1>1 DEF Inv, Sound, TypeOK
  <2>3. /\ \A b, c \in Blocks(list) \cup used : b # c => PagesOf(b) \cap PagesOf(c) = {}
        /\ \A b \in Blocks(list) \cup used : Aligned(b.page, b.order)
        /\ Blocks(list) \cap used = {}
        /\ \A i \in Orders : IsInjective(list[i])
    BY <1>1 DEF Inv, Sound, Apart
  <2>4. UNION {PagesOf(b) : b \in Blocks(list) \cup used} = StartPage .. feed - 1
    BY <1>1 DEF Inv, Pages
  <2>. QED BY <2>1, <2>2, <2>3, <2>4 DEF PagesAccounted
<1>. QED BY <1>1, InvHolds, PTL

-----------------------------------------------------------------------------
(* Refinement                                                              *)

\* The abstract specification counts pages as the model does.
LEMMA SamePages ==
  /\ Abstract!Size = Size
  /\ \A b : Abstract!PagesOf(b) = PagesOf(b)
  /\ \A p, i : Abstract!Aligned(p, i) <=> Aligned(p, i)
  /\ FreePages = Covered(list)
<1>1. Abstract!Size = Size
  BY DEF Abstract!Size, Size
<1>2. FreeBlocks = Blocks(list)
  BY DEF FreeBlocks, Blocks
<1>. QED BY <1>1, <1>2 DEF Abstract!PagesOf, PagesOf, Abstract!Aligned, Aligned, FreePages, Covered

\* The same after a step.
LEMMA SamePagesNext == FreePages' = Covered(list')
<1>1. FreeBlocks' = Blocks(list')
  BY DEF FreeBlocks, Blocks
<1>. QED BY <1>1 DEF FreePages, Covered

\* A step of free_pages_range adds the next pages to the free ones.
LEMMA FreeRangeImplements == ASSUME Inv, FreeRange PROVE Abstract!FreeRange
<1>1. /\ feed < EndPage /\ feed \in StartPage .. EndPage /\ feed' = feed + Size[RangeOrder] /\ used' = used /\ out' = out
  BY DEF Inv, FreeRange
<1>2. /\ Size[RangeOrder] \in Nat /\ Size[RangeOrder] > 0 /\ feed + Size[RangeOrder] <= EndPage /\ feed \in Nat
      /\ PagesOf(NextFed) = feed .. feed + Size[RangeOrder] - 1
  BY <1>1, RangeOrderIs
<1>3. Covered(list') = Covered(list) \cup PagesOf(NextFed)
  BY FreeRangeStep
<1>4. Size[RangeOrder] \in 1 .. EndPage - feed
  BY SMT, <1>2, Sizes
<1>5. FreePages' = FreePages \cup feed .. feed + Size[RangeOrder] - 1
  BY <1>2, <1>3, SamePages, SamePagesNext
<1>. QED BY <1>1, <1>4, <1>5 DEF Abstract!FreeRange

\* page_free adds the pages of the block.
LEMMA FreeImplements == ASSUME Inv, NEW b \in used, Free(b) PROVE Abstract!Free(b)
<1>1. feed = EndPage /\ used' = used \ {b} /\ out' = Void /\ feed' = feed
  BY DEF Free
<1>2. Covered(list') = Covered(list) \cup PagesOf(b)
  BY FreeStep
<1>3. FreePages' = FreePages \cup Abstract!PagesOf(b)
  BY <1>2, SamePages, SamePagesNext
<1>. QED BY <1>1, <1>3 DEF Abstract!Free

\* A request is refused only when no aligned run of free pages is long enough.
LEMMA RefusedFits == ASSUME Inv, NEW order \in Requests, Refused(order) PROVE Abstract!Fits(order) = {}
<1>1. CASE order \notin Orders
  BY <1>1 DEF Abstract!Fits, Orders
<1>2. CASE order \in Orders
  <2>1. SUFFICES ASSUME NEW p \in Abstract!Fits(order) PROVE FALSE
    BY <2>1
  <2>2. /\ p \in FreePages /\ Abstract!Aligned(p, order) /\ p .. p + Abstract!Size[order] - 1 \subseteq FreePages
    BY <1>2 DEF Abstract!Fits, Orders
  <2>3. /\ p \in Covered(list) /\ Aligned(p, order) /\ p .. p + Size[order] - 1 \subseteq Covered(list)
    BY <2>2, SamePages
  <2>4. p \in Nat
    <3>1. p \in 0 .. NumPages
      BY <2>3, Fed
    <3>. QED BY SMT, <3>1, Sizes
  <2>5. Span(p, order) \subseteq Covered(list)
    <3>1. Base(p, order) = p
      BY <1>2, <2>3, <2>4, PagesAre
    <3>. QED BY <2>3, <3>1 DEF Span
  <2>6. Sound(list, bitmap, used)
    BY DEF Inv
  <2>7. PICK i \in Orders : order <= i /\ list[i] # <<>>
    BY <1>2, <2>4, <2>5, <2>6, RunHasBlock
  <2>8. i >= order
    BY SMT, <1>2, <2>7, Sizes DEF Orders
  <2>. QED BY <1>2, <2>7, <2>8 DEF Refused
<1>. QED BY <1>1, <1>2

\* page_alloc takes free pages that fit, or finds that none do.
LEMMA AllocateImplements == ASSUME Inv, NEW order \in Requests, Allocate(order) PROVE Abstract!Allocate(order)
<1>1. feed = EndPage
  BY DEF Allocate
<1>2. CASE Refused(order)
  <2>1. Abstract!Fits(order) = {}
    BY <1>2, RefusedFits
  <2>2. list' = list /\ used' = used /\ feed' = feed /\ out' = [page |-> NULL, order |-> order]
    BY <1>2, RefuseStep
  <2>3. FreePages' = FreePages
    BY <2>2, SamePages, SamePagesNext
  <2>. QED BY <1>1, <2>1, <2>2, <2>3 DEF Abstract!Allocate
<1>3. CASE ~Refused(order)
  <2>1. order \in Orders /\ used' = used \cup {out'} /\ feed' = feed
    BY <1>3, AllocateStep
  <2>2. PICK p \in Nat : /\ out' = [page |-> p, order |-> order] /\ Aligned(p, order)
                         /\ PagesOf(out') \subseteq Covered(list) /\ Covered(list') = Covered(list) \ PagesOf(out')
    BY <1>3, AllocateStep
  <2>3. PagesOf(out') = p .. p + Size[order] - 1
    BY <2>2 DEF PagesOf
  <2>4. p \in PagesOf(out')
    <3>1. Size[order] \in Nat /\ Size[order] > 0
      <4>1. order \in 0 .. MaxOrder + 1
        BY <2>1, Sizes
      <4>. QED BY <4>1, Sizes
    <3>. QED BY SMT, <2>3, <3>1
  <2>5. p \in FreePages /\ Abstract!Aligned(p, order) /\ p .. p + Abstract!Size[order] - 1 \subseteq FreePages
    BY <2>2, <2>3, <2>4, SamePages
  <2>6. p \in Abstract!Fits(order)
    BY <2>1, <2>5 DEF Abstract!Fits, Orders
  <2>7. FreePages' = FreePages \ Abstract!PagesOf(out')
    BY <2>2, SamePages, SamePagesNext
  <2>. QED BY <1>1, <2>1, <2>2, <2>6, <2>7 DEF Abstract!Allocate
<1>. QED BY <1>2, <1>3

\* When boot_alloc's memory is zero, the allocator does what page_alloc.h
\* promises: splitting and merging do not show, no page is given out twice, and a
\* request is refused only when no aligned run of free pages is long enough.
THEOREM Refinement == ASSUME Cleared PROVE Spec => Implements
<1>1. ASSUME Init PROVE Abstract!Init
  <2>1. Inv
    BY <1>1, InitInv
  <2>2. feed = StartPage /\ used = {} /\ out = Void
    BY <1>1 DEF Init
  <2>3. StartPage .. StartPage - 1 = {} /\ StartPage \in 0 .. EndPage
    BY SMT, PageAssumption
  <2>4. FreePages = {}
    BY <2>1, <2>2, <2>3, Fed, SamePages
  <2>. QED BY <2>2, <2>3, <2>4 DEF Abstract!Init
<1>2. ASSUME Inv, [Next]_vars PROVE [Abstract!Next]_(Abstract!vars)
  <2>1. CASE FreeRange
    BY <1>2, <2>1, FreeRangeImplements DEF Abstract!Next
  <2>2. ASSUME NEW order \in Requests, Allocate(order) PROVE Abstract!Next
    <3>1. Abstract!Allocate(order)
      BY <1>2, <2>2, AllocateImplements
    <3>. QED BY <3>1 DEF Abstract!Next
  <2>3. ASSUME NEW b \in used, Free(b) PROVE Abstract!Next
    <3>1. Abstract!Free(b)
      BY <1>2, <2>3, FreeImplements
    <3>. QED BY <3>1 DEF Abstract!Next
  <2>4. CASE UNCHANGED vars
    <3>1. list' = list /\ used' = used /\ feed' = feed /\ out' = out
      BY <2>4 DEF vars
    <3>2. FreePages' = FreePages
      BY <3>1, SamePages, SamePagesNext
    <3>. QED BY <3>1, <3>2 DEF Abstract!vars
  <2>. QED BY <1>2, <2>1, <2>2, <2>3, <2>4 DEF Next
<1>. QED BY <1>1, <1>2, InvHolds, PTL DEF Spec, Implements, Abstract!Spec
=============================================================================
