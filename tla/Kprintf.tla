------------------------------- MODULE Kprintf -------------------------------
(***************************************************************************)
(* kernel/src/util/kprintf.c, as it is built: without floating point.  One *)
(* more kind of call of the library Strings models, one step per turn of   *)
(* the loop of _vsnprintf.                                                 *)
(*                                                                         *)
(* A format is a sequence of plain characters and directives, each with    *)
(* the argument it takes, and is chosen as it is read.  Characters are     *)
(* ASCII codes.  The integer types are narrower than the processor's, and  *)
(* so is the buffer of _ntoa_format, in proportion.                        *)
(***************************************************************************)
EXTENDS Strings, SequencesExt

CONSTANTS CharBits, ShortBits, IntBits, LongBits,
          NtoaSize,    \* PRINTF_NTOA_BUFFER_SIZE
          BufSize,     \* the size of the caller's buffer
          Values,      \* the numbers given as arguments
          Widths,      \* a negative one is given with *
          Precisions   \* NULL: none; a negative one is given with *

ASSUME KprintfAssumption ==
  /\ CharBits < ShortBits /\ ShortBits < IntBits /\ IntBits < LongBits
  /\ {NtoaSize, BufSize} \subseteq Nat \ {0} /\ BufSize < Wrap
  /\ Values \subseteq 0 .. 2 ^ LongBits - 1
  /\ Widths \subseteq Int /\ Precisions \subseteq Int \cup {NULL}

VARIABLES dir,      \* the directive that is read
          field,    \* the arguments of _ntoa_format; buf has the last digit first
          out,      \* the output function: "null", "char" or "buffer"
          buffer, maxlen, idx,
          console,  \* what _out_char gave to putchar
          sent,     \* auxiliary: every character given to out, but the last
          format    \* auxiliary: the format so far

outVars == <<buffer, idx, console, sent>>
printVars == <<dir, field, out, maxlen, outVars, format>>
callVars == <<mem, a, b, n, c, word, ret, arg, before, toks>>

Digit0 == 48
LetterA(upper) == IF upper THEN 65 ELSE 97
LetterX(upper) == IF upper THEN 88 ELSE 120
LetterB == 98
Blank == 32
Plus == 43
Minus == 45
Fresh == 1000  \* what the caller's buffer holds

Repeat(x, k) == [i \in 1 .. k |-> x]

\* A text is given to out, a character at a time: _out_null, _out_char (and
\* _out_fct), or _out_buffer
Emit(text) ==
  /\ idx' = idx + Len(text)
  /\ sent' = sent \o text
  /\ console' = IF out = "char" THEN console \o SelectSeq(text, LAMBDA x : x # NUL) ELSE console
  /\ buffer' = IF out = "buffer"
               THEN [k \in DOMAIN buffer |-> IF k < maxlen /\ k \in idx .. idx + Len(text) - 1
                                             THEN text[k - idx + 1] ELSE buffer[k]]
               ELSE buffer

-----------------------------------------------------------------------------
(* Directives: [spec, flags, width, prec, length, val]                     *)

Plain(x) ==
  [spec |-> "plain", flags |-> {}, width |-> 0, prec |-> NULL, length |-> "", val |-> x]

Bits(d) ==
  CASE d.spec = "p" \/ d.length = "l" -> LongBits [] d.length = "hh" -> CharBits
    [] d.length = "h" -> ShortBits [] OTHER -> IntBits

Radix(spec) ==
  CASE spec \in {"x", "X", "p"} -> 16 [] spec = "o" -> 8 [] spec = "b" -> 2 [] OTHER -> 10

\* The argument, converted to the type the length names.  0 - value of the
\* smallest value overflows; the negation instruction leaves it as it is.
Number(d) ==
  LET w == 2 ^ Bits(d)
      v == d.val % w
  IN IF d.spec = "d" /\ 2 * v >= w THEN v - w ELSE v
Magnitude(d) == IF Number(d) > 0 THEN Number(d) ELSE 0 - Number(d)

\* The flags, the width and the precision as they are parsed
Parsed(d) ==
  d.flags \cup (IF d.width < 0 THEN {"-"} ELSE {}) \cup (IF d.prec # NULL THEN {"."} ELSE {})
Width(d) == IF d.width < 0 THEN 0 - d.width ELSE d.width
Precision(d) == IF d.prec = NULL \/ d.prec < 0 THEN 0 ELSE d.prec

\* The flags as the specifier of an integer adjusts them
Adjusted(d) ==
  (Parsed(d) \cup (IF d.spec = "X" THEN {"upper"} ELSE {}))
    \ ((IF Radix(d.spec) = 10 THEN {"#"} ELSE {})
       \cup (IF d.spec # "d" THEN {"+", " "} ELSE {})
       \cup (IF d.prec # NULL THEN {"0"} ELSE {}))

Padded(text, d) ==
  LET pad == Repeat(Blank, Width(d) - Len(text))
  IN IF "-" \in Parsed(d) THEN text \o pad ELSE pad \o text

Digits(value, base) ==
  LET D[v \in 0 .. value] == <<v % base>> \o IF v < base THEN <<>> ELSE D[v \div base]
  IN D[value]

Symbol(digit, upper) == IF digit < 10 THEN Digit0 + digit ELSE LetterA(upper) + digit - 10

\* _ntoa_long and _ntoa_long_long
Ntoa(value, negative, base, prec, width, flags) ==
  LET digits == IF "." \in flags /\ value = 0 THEN <<>> ELSE FirstOf(Digits(value, base), NtoaSize)
  IN field' = [buf |-> [i \in DOMAIN digits |-> Symbol(digits[i], "upper" \in flags)],
               negative |-> negative, base |-> base, prec |-> prec, width |-> width,
               flags |-> IF value = 0 THEN flags \ {"#"} ELSE flags]

\* Only %s looks at memory; the others are tried with one memory.
NoText == mem = [x \in Cells |-> NUL]

\* A turn of the loop: a plain character, or a directive
PlainChar ==
  /\ pc = "vsnprintf" /\ format = <<>> /\ out # "char"
  /\ Emit(<<LetterB>>)
  /\ format' = <<Plain(LetterB)>>
  /\ UNCHANGED <<vars, dir, field, out, maxlen>>

Read(label, next, d) ==
  /\ pc = label /\ pc' = next
  /\ dir' = d
  /\ UNCHANGED <<callVars, field, out, maxlen, outVars, format>>

\* The fields of a directive; a case of the switch on the length is a type.
\* All are tried with printf, some with snprintf.
Flags ==
  /\ \A x \in DOMAIN format : format[x].spec = "plain"
  /\ \E flags \in SUBSET {"-", "0", "+", " ", "#"} :
       /\ flags = {} \/ out = "char"
       /\ Read("vsnprintf", "width", [Plain(NUL) EXCEPT !.flags = flags])
ReadWidth == \E w \in Widths : Read("width", "precision", [dir EXCEPT !.width = w])
ReadPrecision == \E p \in Precisions : Read("precision", "length", [dir EXCEPT !.prec = p])
Length ==
  \E l \in {"hh", "h", "", "l"} :
    /\ l = "" \/ out = "char"
    /\ Read("length", "specifier", [dir EXCEPT !.length = l])

Take(spec, val) == format' = Append(format, [dir EXCEPT !.spec = spec, !.val = val])

\* %d or %i, %u, %x, %X, %o and %b
Integer ==
  /\ pc = "specifier" /\ NoText
  /\ \E spec \in {"d", "u", "x", "X", "o", "b"}, val \in Values :
       /\ Take(spec, val)
       /\ LET d == Last(format')
          IN Ntoa(Magnitude(d), Number(d) < 0, Radix(spec), Precision(d), Width(d), Adjusted(d))
  /\ pc' = "zeros"
  /\ UNCHANGED <<callVars, dir, out, maxlen, outVars>>

\* %p, which sets the width itself
Pointer ==
  /\ pc = "specifier" /\ NoText /\ dir = Plain(NUL)
  /\ \E val \in Values : Take("p", val) /\ Ntoa(val, FALSE, 16, 0, LongBits \div 4, {"0", "upper"})
  /\ pc' = "zeros"
  /\ UNCHANGED <<callVars, dir, out, maxlen, outVars>>

\* What goes to out at once; flags and lengths are tried with numbers.
Text(spec, val, text) ==
  /\ pc = "specifier" /\ dir.flags = {} /\ dir.length = ""
  /\ Take(spec, val)
  /\ Emit(text)
  /\ pc' = "vsnprintf"
  /\ UNCHANGED <<callVars, dir, field, out, maxlen>>

Character == \E x \in {NUL, LetterB} : Text("c", x, Padded(<<x>>, dir))

StringText ==
  LET s == String(mem, 0)
  IN Text("s", 0, Padded(IF dir.prec = NULL THEN s ELSE FirstOf(s, Precision(dir)), dir))

\* %% and what is no specifier
Itself == Text("%", LetterB, <<LetterB>>)

-----------------------------------------------------------------------------
(* _ntoa_format                                                            *)

Push(buf, x) == IF Len(buf) < NtoaSize THEN Append(buf, x) ELSE buf
PadZeros(buf, len) == buf \o Repeat(Digit0, Min({len, NtoaSize}) - Len(buf))

Format(label, next, buf, width) ==
  /\ pc = label /\ pc' = next
  /\ field' = [field EXCEPT !.buf = buf, !.width = width]
  /\ UNCHANGED <<callVars, dir, out, maxlen, outVars, format>>

\* Mutant: the sign is not counted in the width.
Zeros_WideSign ==
  LET f == field IN
  Format("zeros", "hash",
         IF "-" \in f.flags THEN f.buf
         ELSE PadZeros(PadZeros(f.buf, f.prec), IF "0" \in f.flags THEN f.width ELSE 0),
         f.width)

Zeros ==
  LET f == field
      sign == f.negative \/ f.flags \cap {"+", " "} # {}
      w == IF f.width > 0 /\ f.flags \cap {"-", "0"} = {"0"} /\ sign THEN f.width - 1 ELSE f.width
  IN Format("zeros", "hash",
            IF "-" \in f.flags THEN f.buf
            ELSE PadZeros(PadZeros(f.buf, f.prec), IF "0" \in f.flags THEN w ELSE 0),
            w)

\* The prefix.  Zeros that reached the width make room for it; digits that
\* happen to reach it are taken for such zeros.
Hash ==
  LET f == field
      len == Len(f.buf)
      room == "." \notin f.flags /\ len > 0 /\ len \in {f.prec, f.width}
      keep == SubSeq(f.buf, 1, len - (IF ~room THEN 0 ELSE IF f.base = 16 /\ len > 1 THEN 2 ELSE 1))
      letter == CASE f.base = 16 -> Push(keep, LetterX("upper" \in f.flags))
                  [] f.base = 2 -> Push(keep, LetterB)
                  [] OTHER -> keep
  IN Format("hash", "sign", IF "#" \in f.flags THEN Push(letter, Digit0) ELSE f.buf, f.width)

Sign ==
  LET f == field IN
  Format("sign", "out_rev",
         IF f.negative THEN Push(f.buf, Minus)
         ELSE IF "+" \in f.flags THEN Push(f.buf, Plus)
         ELSE IF " " \in f.flags THEN Push(f.buf, Blank) ELSE f.buf,
         f.width)

OutRev ==
  /\ pc = "out_rev" /\ pc' = "vsnprintf"
  /\ LET pad == Repeat(Blank, field.width - Len(field.buf))
     IN Emit((IF field.flags \cap {"-", "0"} = {} THEN pad ELSE <<>>)
               \o Reverse(field.buf)
               \o (IF "-" \in field.flags THEN pad ELSE <<>>))
  /\ field' = NULL
  /\ UNCHANGED <<callVars, dir, out, maxlen, format>>

-----------------------------------------------------------------------------

\* The terminator, which _out_char does not print; maxlen - 1 wraps at 0
Finish ==
  /\ pc = "vsnprintf"
  /\ LET end == IF idx < maxlen THEN idx ELSE (maxlen - 1) % Wrap
     IN buffer' = IF out = "buffer" /\ end < maxlen THEN [buffer EXCEPT ![end] = NUL] ELSE buffer
  /\ Return(idx)
  /\ UNCHANGED <<dir, field, out, maxlen, idx, console, sent, format>>

-----------------------------------------------------------------------------
(* The calls: printf_ and vprintf_ with _out_char, fctprintf with a function *)
(* that does the same; snprintf_ and vsnprintf_, also without a buffer       *)

Vsnprintf(fn, o, count) ==
  /\ pc = "call"
  /\ pc' = "vsnprintf"
  /\ arg' = [fn |-> fn, a |-> 0, b |-> 0, n |-> 0, c |-> 0]
  /\ out' = o /\ maxlen' = count
  /\ UNCHANGED <<mem, a, b, n, c, word, ret, before, toks, dir, field, outVars, format>>

CallPrintf == NoText /\ Vsnprintf("printf", "char", Wrap - 1)

CallSnprintf ==
  \/ NoText /\ Vsnprintf("snprintf", "null", BufSize)
  \/ \E count \in 0 .. BufSize : Vsnprintf("snprintf", "buffer", count)

KprintfInit ==
  /\ Init
  /\ dir = NULL /\ field = NULL /\ format = <<>> /\ out = "null" /\ maxlen = 0 /\ idx = 0
  /\ buffer = [k \in 0 .. BufSize - 1 |-> Fresh]
  /\ console = <<>> /\ sent = <<>>

KprintfNext ==
  \/ Next /\ UNCHANGED printVars
  \/ CallPrintf \/ CallSnprintf \/ PlainChar \/ Flags \/ ReadWidth \/ ReadPrecision \/ Length
  \/ Integer \/ Pointer \/ Character \/ StringText \/ Itself \/ Zeros \/ Hash \/ Sign \/ OutRev \/ Finish

KprintfSpec == KprintfInit /\ [][KprintfNext]_<<vars, printVars>>

-----------------------------------------------------------------------------
(* Properties                                                              *)

\* What C says of a number: its digits, what comes before them, the zeros
\* between, and the whole without the blanks.
CDigits(d) ==
  LET s == Digits(Magnitude(d), Radix(d.spec))
  IN IF d.prec = 0 /\ Number(d) = 0 THEN <<>>
     ELSE Reverse([i \in DOMAIN s |-> Symbol(s[i], d.spec \in {"X", "p"})])
CSign(d) ==
  IF d.spec # "d" THEN <<>>
  ELSE IF Number(d) < 0 THEN <<Minus>>
  ELSE IF "+" \in d.flags THEN <<Plus>>
  ELSE IF " " \in d.flags THEN <<Blank>> ELSE <<>>
CPrefix(d) ==
  IF "#" \notin d.flags \/ CDigits(d) = <<Digit0>> THEN <<>>
  ELSE CASE d.spec \in {"x", "X"} /\ Number(d) # 0 -> <<Digit0, LetterX(d.spec = "X")>>
         [] d.spec = "b" /\ Number(d) # 0 -> <<Digit0, LetterB>>
         [] d.spec = "o" -> <<Digit0>>
         [] OTHER -> <<>>
CField(d) ==
  LET front == CSign(d) \o CPrefix(d)
      upTo == CASE d.spec = "p" -> LongBits \div 4
                [] d.spec # "p" /\ d.prec # NULL ->
                     IF d.spec = "o" THEN d.prec - Len(front) ELSE d.prec
                [] OTHER -> IF Parsed(d) \cap {"0", "-"} = {"0"} THEN Width(d) - Len(front) ELSE 0
  IN front \o Repeat(Digit0, upTo - Len(CDigits(d))) \o CDigits(d)

\* What C says a directive prints
CText(d) ==
  CASE d.spec \in {"plain", "%"} -> <<d.val>>
    [] d.spec = "c" -> Padded(<<d.val>>, d)
    [] d.spec = "s" ->
         Padded(IF d.prec = NULL THEN String(mem, d.val) ELSE FirstOf(String(mem, d.val), d.prec), d)
    [] d.spec = "p" -> CField(d)
    [] OTHER -> Padded(CField(d), d)

\* The directives that are held to it.  The others are: a negative precision,
\* which should count as none; zeros by precision in a field padded on the
\* right; a number that does not fit in the buffer of _ntoa_format; and # with
\* zeros by precision or no digits in octal, zeros by width in binary, or a
\* width that leaves no room for the prefix and is not exceeded by the digits.
Ordinary(d) ==
  /\ d.prec # NULL => d.prec >= 0
  /\ d.spec \notin {"plain", "%", "c", "s"} =>
       /\ d.prec # NULL => d.prec <= Len(CDigits(d)) \/ "-" \notin Parsed(d)
       /\ Len(CField(d)) <= NtoaSize
       /\ CPrefix(d) # <<>> =>
            \/ d.prec # NULL /\ (d.spec = "o" => CDigits(d) # <<>> /\ d.prec <= Len(CDigits(d)))
            \/ d.prec = NULL /\ Width(d) < Len(CDigits(d))
            \/ /\ d.prec = NULL /\ Width(d) >= Len(CPrefix(d) \o CDigits(d))
               /\ d.spec # "b" \/ "0" \notin Parsed(d)

\* printf_ prints what C says, and snprintf_ keeps its promise (kprintf.h): it
\* returns the number of characters that "COULD have been written", stores as
\* many as fit with "a terminating null character", and touches nothing beyond,
\* for a count of 0 and without a buffer too.  On the way digits, zeros, prefix
\* and sign stay within the buffer that _ntoa_long gives to _ntoa_format.
PrintsExact ==
  /\ field # NULL => Len(field.buf) <= NtoaSize
  /\ pc = "done" /\ arg.fn \in {"printf", "snprintf"} =>
       LET end == Min({Len(sent), maxlen - 1}) IN
       /\ (\A k \in DOMAIN format : Ordinary(format[k])) =>
            sent = FlattenSeq([k \in DOMAIN format |-> CText(format[k])])
       /\ ret = Len(sent)
       /\ out = "char" => console = SelectSeq(sent, LAMBDA x : x # NUL)
       /\ \A k \in DOMAIN buffer :
            buffer[k] = IF out # "buffer" \/ k > end THEN Fresh
                        ELSE IF k = end THEN NUL ELSE sent[k + 1]
=============================================================================
