------------------------------- MODULE Parser -------------------------------
(***************************************************************************)
(* The parser of command lines: parse turns a text into commands, each a   *)
(* sequence of words, of which the first is the command's name.            *)
(*                                                                         *)
(* A text is a sequence of characters and positions start at 1, so that    *)
(* ctx.at_end() is p > Len(text).  A result is what was read and the       *)
(* position behind it.                                                     *)
(***************************************************************************)
EXTENDS Integers, Sequences, FiniteSetsExt

Quote == "\""
Backslash == "\\"
Newline == "\n"

\* ParserCtx::is_unimportant
Unimportant(ch) == ch \in {" ", "\t", "\r", Newline}

escape(ch) ==
  CASE ch = "n" -> Newline
    [] ch = "r" -> "\r"
    [] ch = "t" -> "\t"
    [] ch = "b" -> "backspace"
    [] ch = "a" -> "bell"
    [] OTHER    -> ch

\* ParserCtx::advance_if: the first position from p on that is not in S, a set
\* of positions.
Past(text, p, S) ==
  Min(((p..Len(text)) \ S) \cup {Max({p, Len(text) + 1})})

UnimportantIn(text) == {q \in DOMAIN text : Unimportant(text[q])}

\* From behind the opening quote.  A backslash escapes only where the character
\* after the next is still in the text.  A mutant: it is a character
\* like others.
parse_quoted_plain(text, p) ==
  LET end == Past(text, p, {q \in DOMAIN text : text[q] # Quote})
  IN  [word |-> SubSeq(text, p, end - 1), next |-> end + 1]

parse_quoted(text, p) ==
  LET read[q \in p..Len(text) + 1] ==
        IF q > Len(text) \/ text[q] = Quote
        THEN [word |-> <<>>, next |-> q + 1]
        ELSE LET escaped == text[q] = Backslash /\ q + 1 < Len(text)
                 after   == read[IF escaped THEN q + 2 ELSE q + 1]
                 ch      == IF escaped THEN escape(text[q + 1]) ELSE text[q]
             IN  [after EXCEPT !.word = <<ch>> \o @]
  IN  read[p]

\* White space is skipped first, ends of lines too; at the end there is no word.
None == [word |-> "none", next |-> 0]

parse_arg(text, p) ==
  LET start == Past(text, p, UnimportantIn(text))
      end   == Past(text, start, DOMAIN text \ UnimportantIn(text))
  IN  CASE start > Len(text)    -> None
        [] start <= Len(text) /\ text[start] = Quote -> parse_quoted(text, start + 1)
        [] OTHER -> [word |-> SubSeq(text, start, end - 1), next |-> end]

\* The arguments up to the end of the line or of the text.
\* A mutant: line ends are not looked for.
parse_args_on(text, p) ==
  LET read[q \in p..Len(text) + 2] ==
        IF q > Len(text) \/ parse_arg(text, q) = None
        THEN [words |-> <<>>, next |-> Len(text) + 1]
        ELSE LET arg   == parse_arg(text, q)
                 after == read[arg.next]
             IN  [after EXCEPT !.words = <<arg.word>> \o @]
  IN  read[p]

parse_args(text, p) ==
  LET read[q \in p..Len(text) + 2] ==
        IF q > Len(text) THEN [words |-> <<>>, next |-> q]
        ELSE IF text[q] = Newline THEN [words |-> <<>>, next |-> q]
        ELSE IF parse_arg(text, q) = None
             THEN [words |-> <<>>, next |-> Len(text) + 1]
        ELSE LET arg   == parse_arg(text, q)
                 after == read[arg.next]
             IN  [after EXCEPT !.words = <<arg.word>> \o @]
  IN  read[p]

\* Where a command is expected and only white space is left, everything that
\* was read before is dropped.  No command is empty.
Dropped == <<<<>>>>

parse(text) ==
  LET read[p \in 1..Len(text) + 2] ==
        IF p > Len(text) THEN <<>>
        ELSE IF parse_arg(text, p) = None THEN Dropped
        ELSE LET name == parse_arg(text, p)
                 args == parse_args(text, name.next)
                 rest == read[args.next]
             IN  IF rest = Dropped THEN Dropped
                 ELSE <<(<<name.word>> \o args.words)>> \o rest
  IN  IF read[1] = Dropped THEN <<>> ELSE read[1]
=============================================================================
