------------------------------- MODULE Strings -------------------------------
(***************************************************************************)
(* kernel/src/util/string.c, one step per turn of a loop.  Memory is an    *)
(* array of characters and a pointer is an index into it, so arguments may *)
(* overlap, and the count wraps like the unsigned integer it is.  A        *)
(* behaviour is one call, or a chain of calls of strtok, on any memory.    *)
(***************************************************************************)
EXTENDS Integers, Sequences, FiniteSetsExt

CONSTANTS MemSize,  \* the cells of memory; an access outside faults
          Base,     \* 256: the values of a character
          Word,     \* 4: the bytes of a word
          Wrap,     \* 2^64: the values of a size_t
          Delims,   \* the delimiters given to strtok
          NULL

ASSUME StringsAssumption ==
  /\ {MemSize, Base, Word} \subseteq Nat \ {0}
  /\ Wrap > 2 * MemSize
  /\ Delims \subseteq 1 .. Base - 1

VARIABLES mem, pc,
          a, b, n,   \* the pointers and the count the loops move
          c,         \* the character argument
          word,      \* strtok: word_found, or NULL
          ret,       \* what the call returned
          arg,       \* auxiliary: the arguments
          before,    \* auxiliary: the memory the first call found
          toks       \* auxiliary: what the calls of strtok returned

vars == <<mem, pc, a, b, n, c, word, ret, arg, before, toks>>

Cells == 0 .. MemSize - 1
Chars == 0 .. Base - 1
NUL == 0
Signed(x) == IF 2 * x >= Base THEN x - Base ELSE x

\* Memory ends with a terminator, so every pointer is a string.
Init ==
  /\ mem \in {m \in [Cells -> Chars] : m[MemSize - 1] = NUL}
  /\ pc = "call"
  /\ a = 0 /\ b = 0 /\ n = 0 /\ c = 0 /\ word = NULL
  /\ ret = NULL /\ arg = NULL /\ before = mem /\ toks = <<>>

Call(l, p, q, k, x) ==
  /\ pc = "call"
  /\ pc' = l
  /\ a' = p /\ b' = q /\ n' = k /\ c' = x
  /\ arg' = [fn |-> l, a |-> p, b |-> q, n |-> k, c |-> x]
  /\ UNCHANGED <<mem, word, ret, before, toks>>

\* One turn of a loop, and the end of a call.
Move(l, p, q, k) ==
  /\ pc' = l /\ a' = p /\ b' = q /\ n' = k
  /\ UNCHANGED <<c, word, ret, arg, before, toks>>

Return(r) ==
  /\ pc' = "done"
  /\ ret' = r
  /\ UNCHANGED <<mem, a, b, n, c, word, arg, before, toks>>

Store(p, x) == p \in Cells /\ mem' = [mem EXCEPT ![p] = x]

-----------------------------------------------------------------------------
(* memset, memmove (and memcpy, which calls it)                            *)

\* stosl or stosb, by the alignment of the address and the length
Memset ==
  /\ pc = "memset"
  /\ LET words == a % Word = 0 /\ n % Word = 0
         end == IF words THEN a + Word * (n \div Word) ELSE a + n
     IN mem' = [x \in Cells |-> IF x \in a .. end - 1 THEN c % Base ELSE mem[x]]
  /\ Move("done", a, b, n)

\* Mutant: the copy always runs upwards.
Overlaps_Never == FALSE

\* The first pointer is in the middle of what the second one names.
Overlaps == b < a /\ b + n > a

Memmove ==
  /\ pc = "memmove"
  /\ IF Overlaps THEN Move("down", a + n, b + n, n) ELSE Move("up", a, b, n)
  /\ UNCHANGED mem

MoveDown ==
  /\ pc = "down"
  /\ IF n > 0 THEN Store(a - 1, mem[b - 1]) /\ Move("down", a - 1, b - 1, n - 1) ELSE Return(arg.a)

MoveUp ==
  /\ pc = "up"
  /\ IF n > 0 THEN Store(a, mem[b]) /\ Move("up", a + 1, b + 1, n - 1) ELSE Return(arg.a)

-----------------------------------------------------------------------------
(* strncpy and safestrcpy                                                  *)

\* The count is decremented by the test that ends the loop too.
Strncpy ==
  /\ pc = "strncpy"
  /\ IF n > 0
     THEN Store(a, mem[b]) /\ Move(IF mem[b] = NUL THEN "pad" ELSE "strncpy", a + 1, b + 1, n - 1)
     ELSE UNCHANGED mem /\ Move("pad", a, b, Wrap - 1)

Pad ==
  /\ pc = "pad"
  /\ \/ n > 0 /\ a \in Cells /\ Store(a, NUL) /\ Move("pad", a + 1, b, n - 1)
     \/ n > 0 /\ a \notin Cells /\ UNCHANGED mem /\ Move("fault", a, b, n)
     \/ n = 0 /\ Return(arg.a)

Safestrcpy ==
  /\ pc = "safestrcpy"
  /\ \/ arg.n = 0 /\ Return(arg.a)
     \/ n > 1 /\ Store(a, mem[b])
              /\ Move(IF mem[b] = NUL THEN "end" ELSE "safestrcpy", a + 1, b + 1, n - 1)
     \/ n = 1 /\ UNCHANGED mem /\ Move("end", a, b, 0)

Terminate ==
  /\ pc = "end"
  /\ IF a \in Cells THEN Store(a, NUL) /\ Move("done", a, b, n)
                    ELSE UNCHANGED mem /\ Move("fault", a, b, n)

-----------------------------------------------------------------------------
(* memcmp, strcmp and strncmp; strcmp has no count                         *)

Memcmp ==
  /\ pc = "memcmp"
  /\ \/ n = 0 /\ Return(0)
     \/ n > 0 /\ mem[a] # mem[b] /\ Return(mem[a] - mem[b])
     \/ n > 0 /\ mem[a] = mem[b] /\ UNCHANGED mem /\ Move("memcmp", a + 1, b + 1, n - 1)

Strncmp ==
  /\ pc = "strncmp"
  /\ \/ n = 0 /\ Return(0)
     \/ n > 0 /\ (mem[a] = NUL \/ mem[a] # mem[b]) /\ Return(Signed(mem[a]) - Signed(mem[b]))
     \/ /\ n > 0 /\ mem[a] # NUL /\ mem[a] = mem[b]
        /\ UNCHANGED mem /\ Move("strncmp", a + 1, b + 1, n - 1)

Strcmp ==
  /\ pc = "strcmp"
  /\ IF mem[a] # NUL /\ mem[a] = mem[b]
     THEN UNCHANGED mem /\ Move("strcmp", a + 1, b + 1, n)
     ELSE Return(mem[a] - mem[b])

-----------------------------------------------------------------------------
(* strlen, strnlen, strchr and strfind                                     *)

\* n counts up for strlen; for strnlen it is the size left.
Strlen ==
  /\ pc = "strlen"
  /\ IF mem[a] # NUL THEN UNCHANGED mem /\ Move("strlen", a + 1, b, n + 1) ELSE Return(n)

Strnlen ==
  /\ pc = "strnlen"
  /\ IF n > 0 /\ mem[a] # NUL
     THEN UNCHANGED mem /\ Move("strnlen", a + 1, b, n - 1)
     ELSE Return(arg.n - n)

Strchr ==
  /\ pc = "strchr"
  /\ \/ mem[a] = NUL /\ Return(NULL)
     \/ mem[a] # NUL /\ mem[a] = c /\ Return(a)
     \/ mem[a] \notin {NUL, c} /\ UNCHANGED mem /\ Move("strchr", a + 1, b, n)

Strfind ==
  /\ pc = "strfind"
  /\ IF mem[a] \in {NUL, c} THEN Return(a) ELSE UNCHANGED mem /\ Move("strfind", a + 1, b, n)

-----------------------------------------------------------------------------
(* strtok: a is copy, n is i, and both keep their values between calls     *)

StrtokCall ==
  \/ \E base \in Cells : Call("strtok", base, 0, 0, 0)
  \/ /\ pc = "done" /\ arg.fn = "strtok" /\ ret # NULL
     /\ pc' = "strtok" /\ word' = NULL
     /\ UNCHANGED <<mem, a, b, n, c, ret, arg, before, toks>>

StrtokReturn(r) ==
  /\ pc' = "done" /\ ret' = r /\ toks' = Append(toks, r)
  /\ UNCHANGED <<a, b, c, word, arg, before>>

\* Mutant: the delimiter is not stepped over.
Cut_Stays == mem' = mem /\ n' = n

\* The delimiter after a word becomes its terminator.
Cut == Store(a + n, NUL) /\ n' = n + 1

Strtok ==
  /\ pc = "strtok"
  /\ LET x == mem[a + n] IN
     \/ x = NUL /\ StrtokReturn(IF word = NULL THEN NULL ELSE a + word) /\ UNCHANGED <<mem, n>>
     \/ x \in Delims /\ word # NULL /\ Cut /\ StrtokReturn(a + word)
     \/ /\ x # NUL /\ (x \notin Delims \/ word = NULL)
        /\ word' = IF x \notin Delims /\ word = NULL THEN n ELSE word
        /\ n' = n + 1
        /\ UNCHANGED <<mem, pc, a, b, c, ret, arg, before, toks>>

-----------------------------------------------------------------------------

Room(p, k) == p + k <= MemSize
Len0(m, p) == Min({k \in 0 .. MemSize - 1 - p : m[p + k] = NUL})

\* The calls; the target of a string copy has room and is not the source.
Start ==
  /\ pc = "call"
  /\ \E p, q \in Cells, k \in 0 .. MemSize :
       /\ Room(p, k)
       /\ \/ q = 0 /\ \E x \in {0, Base - 1, Base} : Call("memset", p, 0, k, x)
          \/ Room(q, k) /\ (Call("memmove", p, q, k, 0) \/ Call("memcmp", p, q, k, 0)
                            \/ Call("strncmp", p, q, k, 0))
          \/ /\ p > q + Len0(mem, q) \/ p + k <= q
             /\ Call("strncpy", p, q, k, 0) \/ Call("safestrcpy", p, q, k, 0)
          \/ k = 0 /\ Call("strcmp", p, q, 0, 0)
          \/ q = 0 /\ Call("strnlen", p, 0, k, 0)
          \/ q = 0 /\ k = 0 /\ Call("strlen", p, 0, 0, 0)
          \/ q = 0 /\ k = 0 /\ \E x \in Chars : Call("strchr", p, 0, 0, x) \/ Call("strfind", p, 0, 0, x)

Next ==
  \/ Start \/ StrtokCall \/ Strtok
  \/ Memset \/ Memmove \/ MoveDown \/ MoveUp
  \/ Strncpy \/ Pad \/ Safestrcpy \/ Terminate
  \/ Memcmp \/ Strncmp \/ Strcmp
  \/ Strlen \/ Strnlen \/ Strchr \/ Strfind

Spec == Init /\ [][Next]_vars

-----------------------------------------------------------------------------
(* Properties                                                              *)

\* Pointers stay in memory, or one past its end, and counts below Wrap.
TypeOK ==
  /\ mem \in [Cells -> Chars]
  /\ {a, b} \subseteq 0 .. MemSize
  /\ n \in 0 .. Wrap - 1
  /\ word \in Cells \cup {NULL}

String(m, p) == [k \in 1 .. Len0(m, p) |-> m[p + k - 1]]
FirstOf(s, k) == SubSeq(s, 1, Min({k, Len(s)}))
Target == arg.a .. arg.a + arg.n - 1

\* The functions that write leave the target as the C library says, and all
\* other memory alone, whatever overlaps and wherever the target lies:
\* "Like strncpy but guaranteed to NUL-terminate" for safestrcpy.  Only strncpy
\* of a string that fills its target leaves the target: the count has wrapped,
\* and it clears everything above.
WritesExact ==
  /\ TypeOK
  /\ pc = "fault" => arg.fn = "strncpy" /\ Len0(before, arg.b) >= arg.n
  /\ pc = "done" =>
    /\ arg.fn \notin {"strtok"} => \A x \in Cells \ Target : mem[x] = before[x]
    /\ arg.fn = "memset" => \A x \in Target : mem[x] = arg.c % Base
    /\ arg.fn = "memmove" => \A x \in Target : mem[x] = before[arg.b + x - arg.a]
    /\ arg.fn = "strncpy" =>
         \A x \in Target : mem[x] = IF x - arg.a <= Len0(before, arg.b)
                                    THEN before[arg.b + x - arg.a] ELSE NUL
    /\ arg.fn = "safestrcpy" /\ arg.n > 0 =>
         String(mem, arg.a) = FirstOf(String(before, arg.b), arg.n - 1)

\* s comes before t in the dictionary.
Before(s, t) ==
  \E k \in 0 .. Len(s) :
    /\ k <= Len(t) /\ SubSeq(s, 1, k) = SubSeq(t, 1, k)
    /\ k < Len(t) /\ (k = Len(s) \/ s[k + 1] < t[k + 1])

Cells0(p, k) == [x \in 1 .. k |-> mem[p + x - 1]]

\* The comparisons order strings (and memory) like a dictionary; strncmp, whose
\* characters are signed, is only held to telling equal from different.
ComparesExact ==
  pc = "done" =>
    /\ arg.fn = "memcmp" =>
         /\ ret = 0 <=> Cells0(arg.a, arg.n) = Cells0(arg.b, arg.n)
         /\ ret < 0 <=> Before(Cells0(arg.a, arg.n), Cells0(arg.b, arg.n))
    /\ arg.fn = "strcmp" =>
         /\ ret = 0 <=> String(mem, arg.a) = String(mem, arg.b)
         /\ ret < 0 <=> Before(String(mem, arg.a), String(mem, arg.b))
    /\ arg.fn = "strncmp" =>
         (ret = 0 <=> FirstOf(String(mem, arg.a), arg.n) = FirstOf(String(mem, arg.b), arg.n))

\* The searches: "Return a pointer to the first occurrence of 'c' in 's', or a
\* pointer to the string-ending null character if the string has no 'c'" for
\* strfind, NULL instead for strchr.
FindsExact ==
  pc = "done" =>
    LET len == Len0(mem, arg.a)
        at == {x \in arg.a .. arg.a + len - 1 : mem[x] = arg.c}
    IN /\ arg.fn = "strlen" => ret = len
       /\ arg.fn = "strnlen" => ret = Min({len, arg.n})
       /\ arg.fn = "strchr" => ret = IF at = {} THEN NULL ELSE Min(at)
       /\ arg.fn = "strfind" => ret = IF at = {} THEN arg.a + len ELSE Min(at)

\* The words of the string at p: where one starts.
WordStarts(m, p) ==
  {x \in p .. p + Len0(m, p) - 1 : m[x] \notin Delims /\ (x = p \/ m[x - 1] \in Delims)}

\* Calling strtok until it returns NULL gives the words of the string, from
\* left to right, each ended where a delimiter was.
TokensAreWords ==
  pc = "done" /\ arg.fn = "strtok" =>
    LET words == WordStarts(before, arg.a)
        found == {toks[k] : k \in DOMAIN toks} \ {NULL}
    IN /\ found \subseteq words
       /\ ret = NULL => found = words
       /\ \A j, k \in DOMAIN toks : j < k => toks[j] # NULL /\ (toks[k] # NULL => toks[j] < toks[k])
       /\ \A x \in found : \A k \in 1 .. Len0(mem, x) : mem[x + k - 1] \notin Delims

\* The functions that return something return what their C names promise.
ResultsExact == ComparesExact /\ FindsExact /\ TokensAreWords
=============================================================================
