-------------------------------- MODULE Flags --------------------------------
(***************************************************************************)
(* The command line of the server: flag::Parser and what init_opts makes   *)
(* of it.                                                                  *)
(*                                                                         *)
(* An argument is a sequence of tokens: the prefix, the separator, the id  *)
(* of a flag, a numeral, or any other text.  A value is such a sequence,   *)
(* for a flag of type Bool one of two.                                     *)
(***************************************************************************)
EXTENDS Integers, Sequences, FiniteSetsExt

CONSTANTS
  Token,     \* what the arguments are made of
  Numerals   \* those of digits: a token is all the digits that stand together

ASSUME TokenAssumption ==
  {"-", "=", "true", "false", "3000", "20", "256"} \subseteq Token
ASSUME NumeralsAssumption ==
  {"3000", "20", "256"} \subseteq Numerals /\ Numerals \subseteq Token \ {"-", "="}

Prefix == "-"
Separator == "="

True == <<"true">>
False == <<"false">>

Type ==
  [port |-> "String", verbose |-> "Bool", transport_stdout |-> "Bool",
   transport_file |-> "Bool", backlog |-> "Number", poll_size |-> "Number"]

Default ==
  [port |-> <<"3000">>, verbose |-> False, transport_stdout |-> False,
   transport_file |-> False, backlog |-> <<"20">>, poll_size |-> <<"256">>]

Aliases ==
  [p |-> "port", v |-> "verbose", tstdout |-> "transport_stdout",
   tfile |-> "transport_file", bl |-> "backlog", ps |-> "poll_size"]

LOG_FILE == "file"
LOG_STDOUT == "stdout"

-----------------------------------------------------------------------------
(* One argument.                                                           *)

\* The flag an id leads to, by its name or an alias.
IsKnown(id) == Len(id) = 1 /\ id[1] \in DOMAIN Type \cup DOMAIN Aliases
get(id) == IF id[1] \in DOMAIN Type THEN id[1] ELSE Aliases[id[1]]

is_flag(arg) == Len(arg) > 1 /\ arg[1] = Prefix

\* The position of the separator, or the one behind the argument.
parse_flag(arg) == Min({i \in 2..Len(arg) : arg[i] = Separator} \cup {Len(arg) + 1})

Id(arg) == SubSeq(arg, 2, parse_flag(arg) - 1)

\* The value in the same argument.  A mutant: with the separator.
AttachedWithSeparator(arg) == SubSeq(arg, parse_flag(arg), Len(arg))
Attached(arg) == SubSeq(arg, parse_flag(arg) + 1, Len(arg))

\* Of a number, from_chars reads as much as is one and leaves the rest.
Numeral(value) ==
  CASE value # <<>> /\ value[1] \in Numerals -> SubSeq(value, 1, 1)
    [] Len(value) > 1 /\ value[1] = "-" /\ value[2] \in Numerals -> SubSeq(value, 1, 2)
    [] OTHER -> <<>>

set_value(flag, value) == IF Type[flag] = "Number" THEN Numeral(value) ELSE value

-----------------------------------------------------------------------------
(* The command line.                                                       *)

\* What the flags are set to.
Data == [DOMAIN Type -> Seq(Token)]

Refused == [ok |-> FALSE, data |-> Default]

\* The later of two settings of a flag holds.  The name of the program, and any
\* other argument that is not a flag, is set aside.
parse_flags(args) ==
  LET read[a \in 1..Len(args) + 1] == [data \in Data |->
        LET arg    == args[a]
            flag   == get(Id(arg))
            joined == Attached(arg) # <<>>
            value  == IF joined THEN Attached(arg) ELSE args[a + 1]
            number == Type[flag] = "Number"
        IN  IF a > Len(args) THEN [ok |-> TRUE, data |-> data]
            ELSE IF ~is_flag(arg) THEN read[a + 1][data]
            ELSE IF ~IsKnown(Id(arg)) THEN Refused
            ELSE IF Type[flag] = "Bool" THEN read[a + 1][[data EXCEPT ![flag] = True]]
            ELSE IF ~joined /\ a = Len(args) THEN Refused
            ELSE IF number /\ Numeral(value) = <<>> THEN Refused
            ELSE read[IF joined THEN a + 1 ELSE a + 2]
                     [[data EXCEPT ![flag] = set_value(flag, value)]]]
  IN  read[1][Default]

\* The options of the server.  The set of transports starts as whatever was in
\* memory.
SockOpt(data, memory) ==
  <<data.port, data.verbose,
    memory \cup (IF data.transport_file = True THEN {LOG_FILE} ELSE {})
           \cup (IF data.transport_stdout = True THEN {LOG_STDOUT} ELSE {}),
    data.backlog, data.poll_size>>
=============================================================================
