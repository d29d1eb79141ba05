------------------------------ MODULE Formats ------------------------------
(***************************************************************************)
(* The readers of the repository that make something of bytes: the parser  *)
(* of commands, the reader of serialized maps and the parser of the        *)
(* server's options.  A writer gives them one text or one map after the    *)
(* other; the only thing that is left of an earlier one are the marks in a *)
(* schema.                                                                 *)
(*                                                                         *)
(* The user who types command lines is the writer of the first: a word is  *)
(* typed as it is or in quotes, words are kept apart by a blank, commands  *)
(* by the end of a line.  An option is an id and a value, in one argument  *)
(* or in two.                                                              *)
(***************************************************************************)
EXTENDS Parser, Asf, Flags

CONSTANTS
  Lines,      \* texts somebody may type
  Scripts,    \* sequences of commands, each a sequence of words
  Documents,  \* the maps to serialize
  Values,     \* the single values to serialize
  Schemas,    \* the schemas a reader may have
  Writer,     \* is the machine that writes little endian?
  Reader,     \* is the one that reads?
  Reused,     \* is a schema used again for the next map?
  Settings,   \* the options a server is started with
  Memory      \* what an uninitialised set of transports may be

ASSUME MachinesAssumption == Writer \in BOOLEAN /\ Reader \in BOOLEAN
ASSUME ReusedAssumption == Reused \in BOOLEAN
ASSUME MemoryAssumption == Memory \subseteq SUBSET {LOG_FILE, LOG_STDOUT}
ASSUME ProgramAssumption == "server" \in Token

VARIABLES
  given,   \* what the writer meant: its kind and itself
  bytes,   \* what was written
  taken,   \* what the reader made of it, and with what status
  schema   \* the reader's schema

vars == <<given, bytes, taken, schema>>

Nothing == [kind |-> "nothing", is |-> <<>>]
Unread == [status |-> "unread", value |-> <<>>]

-----------------------------------------------------------------------------
(* The user.                                                               *)

Typed(ch) ==
  CASE ch \in {Quote, Backslash} -> <<Backslash, ch>>
    [] ch = Newline              -> <<Backslash, "n">>
    [] OTHER                     -> <<ch>>

Quoted(word) ==
  <<Quote>> \o FlattenSeq([i \in DOMAIN word |-> Typed(word[i])]) \o <<Quote>>

Bare(word) ==
  word # <<>> /\ word[1] # Quote /\ \A i \in DOMAIN word : ~Unimportant(word[i])

\* Words without need of quotes may have them all the same.
Spelled(word, always) == IF Bare(word) /\ ~always THEN word ELSE Quoted(word)

Separated(parts, separator) ==
  FlattenSeq([i \in DOMAIN parts |->
    IF i = 1 THEN parts[i] ELSE <<separator>> \o parts[i]])

Spelling(script, always) ==
  Separated([i \in DOMAIN script |->
            Separated([j \in DOMAIN script[i] |-> Spelled(script[i][j], always)], " ")],
         Newline)

TypeLine(line) ==
  /\ given' = [kind |-> "line", is |-> line]
  /\ bytes' = line

TypeScript(script, always) ==
  /\ given' = [kind |-> "script", is |-> script]
  /\ bytes' = Spelling(script, always)

\* A setting has an id, a value and the way it is written.
Arguments(setting) ==
  LET flag == <<Prefix>> \o setting.id
  IN  CASE setting.as = "alone"  -> <<flag>>
        [] setting.as = "joined" -> <<flag \o <<Separator>> \o setting.value>>
        [] setting.as = "apart"  -> <<flag, setting.value>>

StartServer(settings) ==
  /\ given' = [kind |-> "options", is |-> settings]
  /\ bytes' = <<<<"server">>>> \o
              FlattenSeq([i \in DOMAIN settings |-> Arguments(settings[i])])

-----------------------------------------------------------------------------
(* Writing and reading.                                                    *)

Serialize(pairs) ==
  /\ given' = [kind |-> "map", is |-> pairs]
  /\ bytes' = serialize(pairs, Writer)

SerializeValue(v) ==
  /\ given' = [kind |-> "value", is |-> v]
  /\ bytes' = serialize_value(v, Writer)

Write ==
  /\ given = Nothing
  /\ \/ \E line \in Lines : TypeLine(line)
     \/ \E script \in Scripts, always \in BOOLEAN : TypeScript(script, always)
     \/ \E pairs \in Documents : Serialize(pairs)
     \/ \E v \in Values : SerializeValue(v)
     \/ \E settings \in Settings : StartServer(settings)
  /\ taken' = Unread
  /\ UNCHANGED schema

ToRead(kinds) == given.kind \in kinds /\ taken = Unread

Taken(result) == taken' = [status |-> result.status, value |-> result.value]

Parse ==
  /\ ToRead({"line", "script"})
  /\ taken' = [status |-> "ok", value |-> parse(bytes)]
  /\ UNCHANGED <<given, bytes, schema>>

\* init_opts; a server whose options are refused ends.
ParseOptions ==
  /\ ToRead({"options"})
  /\ LET result == parse_flags(bytes)
     IN  \E memory \in Memory :
           taken' = IF result.ok
                    THEN [status |-> "ok", value |-> SockOpt(result.data, memory)]
                    ELSE [status |-> "none", value |-> <<>>]
  /\ UNCHANGED <<given, bytes, schema>>

Deserialize ==
  /\ ToRead({"map"})
  /\ Taken(deserialize(bytes, Reader))
  /\ UNCHANGED <<given, bytes, schema>>

DeserializeValue ==
  /\ ToRead({"value"})
  /\ Taken(deserialize_value(bytes, Reader))
  /\ UNCHANGED <<given, bytes, schema>>

Fresh == \A k \in DOMAIN schema.fields : ~schema.fields[k].found

DeserializeSchema ==
  /\ ToRead({"map"})
  /\ Reused \/ Fresh
  /\ LET result == deserialize_schema(bytes, schema, Reader)
     IN  Taken(result) /\ schema' = result.schema
  /\ UNCHANGED <<given, bytes>>

\* The reader is done with what it read.
Discard ==
  /\ taken # Unread /\ taken.status # "dead"
  /\ given' = Nothing /\ bytes' = <<>> /\ taken' = Unread
  /\ schema' \in {schema} \cup Schemas

Init ==
  /\ given = Nothing /\ bytes = <<>> /\ taken = Unread
  /\ schema \in Schemas

Next ==
  \/ Write
  \/ Parse \/ ParseOptions \/ Deserialize \/ DeserializeValue \/ DeserializeSchema
  \/ Discard

Spec == Init /\ [][Next]_vars

-----------------------------------------------------------------------------
(* Properties.                                                             *)

\* The pieces of a text between the characters of S, without empty ones.
Pieces(text, S) ==
  LET from[p \in 1..Len(text) + 1] ==
        IF p > Len(text) THEN <<>>
        ELSE IF text[p] \in S THEN from[p + 1]
        ELSE IF p = Len(text) \/ text[p + 1] \in S THEN <<<<text[p]>>>> \o from[p + 1]
        ELSE [from[p + 1] EXCEPT ![1] = <<text[p]>> \o @]
  IN  from[1]

Blanks == {" ", "\t", "\r", Newline}

NoQuotes(text) == \A i \in DOMAIN text : text[i] # Quote

\* The ends of lines that are directly behind a word: every other one is read as
\* the blank it follows.
Merged(text) ==
  [i \in DOMAIN text |->
     IF text[i] = Newline /\ i > 1 /\ text[i - 1] \in Blanks THEN " " ELSE text[i]]

\* There is no word behind the last end of a line, or none at all.
Unfinished(text) ==
  \E i \in 0..Len(text) : /\ i = 0 \/ text[i] = Newline
                          /\ \A q \in i + 1..Len(text) : text[q] \in Blanks

\* What becomes of a text without quotes: every line is the command of its words,
\* but a line that ends in a blank goes on with the next one, and a text that ends
\* with the end of a line has no commands at all (parse, aci/aci.cpp:1046).  That
\* commands are "newline seperated" (aci/readme.md:7) is so of the other texts only.
LinesAreCommands ==
  given.kind = "line" /\ taken # Unread /\ NoQuotes(given.is) =>
    LET text  == Merged(given.is)
        lines == Pieces(text, {Newline})
    IN  taken.value = IF Unfinished(text) THEN <<>>
                      ELSE [i \in DOMAIN lines |-> Pieces(lines[i], Blanks)]

\* What a user puts into quotes reaches the command as it was, blanks, quotes,
\* backslashes and ends of lines included (parse_quoted, aci/aci.cpp:997).
ScriptsComeBack ==
  given.kind = "script" /\ taken # Unread => taken.value = given.is

\* A map that was serialized is deserialized to the same map, however deep its
\* values are (lib/readme.md:101).
MapsComeBack ==
  [][Deserialize => taken' = [status |-> "ok", value |-> given.is]]_vars

\* The keys of a map are those the schema has, unless it allows others, those
\* that must be there are, and the values are of the types and accepted: the
\* schema lets a map pass if and only if it is so.
Conforms(pairs, sch) ==
  LET keys == {pairs[i][1] : i \in DOMAIN pairs}
  IN  /\ sch.allow_undefined \/ keys \subseteq DOMAIN sch.fields
      /\ \A k \in DOMAIN sch.fields : sch.fields[k].optional \/ k \in keys
      /\ \A i \in DOMAIN pairs :
           pairs[i][1] \in DOMAIN sch.fields =>
             LET field == sch.fields[pairs[i][1]]
             IN  /\ field.type \in {"AnyT", pairs[i][2].type}
                 /\ pairs[i][2] \notin field.rejects

SchemaDecides ==
  [][DeserializeSchema =>
       IF Conforms(given.is, schema)
       THEN taken' = [status |-> "ok", value |-> given.is]
       ELSE taken'.status = "none"]_vars

\* The server has the options it was started with: of every flag the value it
\* was last given, under any of its ids and in either form, or its default; it
\* logs where it was told to and nowhere else.  It does not start with an id
\* that is unknown (Options::strict_flags, server/flags.hpp:81).
OptionsAsGiven ==
  given.kind = "options" /\ taken # Unread =>
    LET settings == given.is
        Of(flag) == {i \in DOMAIN settings : get(settings[i].id) = flag}
        Given(flag) == IF Of(flag) = {} THEN Default[flag]
                      ELSE settings[Max(Of(flag))].value
    IN  IF \E i \in DOMAIN settings : ~IsKnown(settings[i].id)
        THEN taken.status = "none"
        ELSE taken.value = SockOpt([flag \in DOMAIN Type |-> Given(flag)], {})
=============================================================================
