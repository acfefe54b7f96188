-------------------------------- MODULE KShell --------------------------------
(***************************************************************************)
(* kernel/src/kshell.c: the shell reads a line with echo and erase, splits *)
(* it at blanks and runs a built-in.  The line is the part of buf before   *)
(* input_len.  Input is what console_getc returns: it has turned both      *)
(* erase characters into BACKSPACE.                                        *)
(*                                                                         *)
(* A write past the end of buf or of parts is undefined: the model records *)
(* it in overrun and stops.                                                *)
(***************************************************************************)
EXTENDS Terminal, FiniteSetsExt

CONSTANTS CMD_MAX_LEN, CMD_MAX_PARTS,
          Letters,    \* the visible characters typed
          Ignored,    \* bytes the shell drops: 0 and 0xFF
          Echo        \* the name of the one built-in

ASSUME ShellAssumption ==
  /\ {CMD_MAX_LEN, CMD_MAX_PARTS} \subseteq Nat \ {0}
  /\ Letters \cap {Space, NewLine, BACKSPACE} = {}
  /\ Echo \in Seq(Letters)

VARIABLES term,     \* the screen and the serial line
          pc,       \* "prompt", "read" (ksh_read_line), "split" or "run"
          line,     \* buf[0 .. input_len - 1]
          parts,    \* the tokens
          overrun   \* the array written past its end, or "none"

shellVars == <<term, pc, line, parts, overrun>>

Prompt == <<"$">>
NotFound == <<"?">>

\* The loader leaves the cursor on a text row of a screen it cleared.
ShellInit ==
  /\ term \in [cga : [pos : TextCells, crt : {[i \in Cells |-> Space]}], uart : {<<>>}]
  /\ pc = "prompt"
  /\ line = <<>>
  /\ parts = <<>>
  /\ overrun = "none"

\* kshell_main up to the first character
ShowPrompt ==
  /\ pc = "prompt"
  /\ term' = Puts(term, Prompt)
  /\ pc' = "read"
  /\ line' = <<>>
  /\ parts' = <<>>
  /\ UNCHANGED overrun

Erase ==
  /\ pc = "read" /\ line # <<>>
  /\ line' = Front(line)
  /\ term' = Putchar(term, BACKSPACE)
  /\ UNCHANGED <<pc, parts, overrun>>

\* A character that none of the conditions accepts: an erase of nothing, a
\* character that does not fit, 0 or 0xFF.
Ignore(c) ==
  /\ pc = "read"
  /\ \/ c = BACKSPACE /\ line = <<>>
     \/ c \in Letters \cup {Space} /\ Len(line) >= CMD_MAX_LEN
     \/ c \in Ignored
  /\ UNCHANGED shellVars

\* Mutant: one character more than the buffer holds.
Type_OneMore(c) ==
  /\ pc = "read" /\ Len(line) <= CMD_MAX_LEN
  /\ line' = Append(line, c)
  /\ overrun' = IF Len(line) >= CMD_MAX_LEN THEN "buf" ELSE overrun
  /\ term' = Putchar(term, c)
  /\ UNCHANGED <<pc, parts>>

Type(c) ==
  /\ pc = "read" /\ Len(line) < CMD_MAX_LEN
  /\ line' = Append(line, c)
  /\ term' = Putchar(term, c)
  /\ UNCHANGED <<pc, parts, overrun>>

\* The end of ksh_read_line; the terminator is written after the line.
Enter ==
  /\ pc = "read"
  /\ term' = Putchar(term, NewLine)
  /\ pc' = "split"
  /\ overrun' = IF Len(line) >= CMD_MAX_LEN THEN "buf" ELSE overrun
  /\ UNCHANGED <<line, parts>>

\* The end of the token at position i, one past its last character.
TokenEnd(s, i) == Min({j \in i .. Len(s) + 1 : j > Len(s) \/ s[j] = Space})

\* Mutant: only one blank is skipped.
SkipBlanks_One(s, i) == IF i > Len(s) THEN i ELSE i + 1

\* The first position from i on that is not a blank.
SkipBlanks(s, i) == Min({j \in i .. Len(s) + 1 : j > Len(s) \/ s[j] # Space})

\* line_position at the start of each round of ksh_split_line's loop; it stays
\* at the end of the line once it is there.
Positions(s) ==
  LET at[n \in 1 .. Len(s) + 1] == IF n = 1 THEN 1 ELSE SkipBlanks(s, TokenEnd(s, at[n - 1]))
  IN at

\* ksh_split_line: a token runs to the next blank, and the blanks after it
\* are skipped.  The loop's bounds on the two positions do not bind: they are
\* those of the line, which has CMD_MAX_LEN characters at most.
SplitLine(s) ==
  LET at == Positions(s)
      rounds == Min({n \in 1 .. Len(s) + 1 : at[n] > Len(s)}) - 1
  IN [n \in 1 .. rounds |-> SubSeq(s, at[n], TokenEnd(s, at[n]) - 1)]

\* tokens[token_position] = NULL takes one entry more than there are tokens.
Split ==
  /\ pc = "split" /\ overrun = "none"
  /\ parts' = SplitLine(line)
  /\ overrun' = IF Len(SplitLine(line)) >= CMD_MAX_PARTS THEN "parts" ELSE "none"
  /\ pc' = "run"
  /\ UNCHANGED <<term, line>>

\* echo: each argument with a blank after it, and a line break
EchoText(t, p) ==
  LET shown[n \in 1 .. Len(p)] == IF n = 1 THEN t ELSE Puts(shown[n - 1], Append(p[n], Space))
  IN Puts(shown[Len(p)], <<NewLine>>)

\* The rest of kshell_main's loop.
Run ==
  /\ pc = "run" /\ overrun = "none"
  /\ term' = CASE parts = <<>> -> Puts(term, <<NewLine>>)
               [] parts # <<>> /\ parts[1] = Echo -> EchoText(term, parts)
               [] OTHER -> Puts(term, NotFound \o parts[1] \o <<NewLine>>)
  /\ pc' = "prompt"
  /\ UNCHANGED <<line, parts, overrun>>

ShellNext ==
  \/ ShowPrompt \/ Erase \/ Enter \/ Split \/ Run
  \/ \E c \in Letters \cup {Space} : Type(c)
  \/ \E c \in Letters \cup Ignored \cup {Space, BACKSPACE} : Ignore(c)

ShellSpec == ShellInit /\ [][ShellNext]_shellVars

-----------------------------------------------------------------------------
(* Properties                                                              *)

\* The cursor never leaves the screen: the check that cga_putchar has lost
\* ("pos under/overflow") could not fail.
ShellTypeOK ==
  /\ term.cga.pos \in Cells
  /\ \A i \in Cells : term.cga.crt[i] \in Letters \cup Blank \cup {"$", "?"}
  /\ term.uart \in Seq(Letters \cup {Space, "$", "?"})
  /\ pc \in {"prompt", "read", "split", "run"}
  /\ line \in Seq(Letters \cup {Space}) /\ Len(line) <= CMD_MAX_LEN
  /\ parts \in Seq(Seq(Letters))
  /\ overrun \in {"none", "buf", "parts"}

\* What the user sees is what the shell has: up to the cursor the screen ends
\* with the prompt and the line, through wraps, scrolls and erasures (as far
\* as it has not scrolled off), after it the text rows are blank, and the
\* serial terminal shows the same line.
ScreenShowsLine ==
  pc = "read" =>
    LET shown == Prompt \o line IN
    /\ \A i \in 1 .. Len(shown) :
         LET at == term.cga.pos - Len(shown) + i - 1 IN at >= 0 => term.cga.crt[at] = shown[i]
    /\ \A i \in TextCells : i >= term.cga.pos => term.cga.crt[i] \in Blank
    /\ term.uart = shown

\* Where the words of s start; a line that starts with a blank has an empty
\* word in front.
Starts(s) == {i \in 1 .. Len(s) : i = 1 \/ (s[i] # Space /\ s[i - 1] = Space)}

\* w is the word of s that starts at position i.
WordAt(s, i, w) ==
  /\ i + Len(w) <= Len(s) + 1
  /\ \A k \in 1 .. Len(w) : w[k] = s[i + k - 1] /\ w[k] # Space
  /\ i + Len(w) <= Len(s) => s[i + Len(w)] = Space

\* ksh_split_line finds the words of the line, all of them, from left to right.
SplitIsWords ==
  pc = "run" =>
    \E at \in [1 .. Len(parts) -> Starts(line)] :
      /\ Range(at) = Starts(line)
      /\ \A m, n \in 1 .. Len(parts) : m < n => at[m] < at[n]
      /\ \A n \in 1 .. Len(parts) : WordAt(line, at[n], parts[n])

\* buf and parts are written past their ends only by the terminator of a line
\* that fills buf, and by a line of CMD_MAX_PARTS words or more.
InBounds ==
  /\ ShellTypeOK
  /\ overrun = "buf" => Len(line) = CMD_MAX_LEN /\ pc = "split"
  /\ overrun = "parts" => Cardinality(Starts(line)) >= CMD_MAX_PARTS
=============================================================================
