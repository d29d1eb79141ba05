----------------------------- MODULE MCFormats -----------------------------
(* Small instances of Formats for TLC: texts up to a length, scripts of one   *)
(* command or two, maps of one pair or two with values of every kind, and up  *)
(* to three options.                                                          *)
EXTENDS Formats

SeqsUpTo(S, n) == UNION {[1..m -> S] : m \in 0..n}

MCLines == SeqsUpTo({"x", " ", Newline, Quote, Backslash}, 5)

MCWords ==
  {<<>>, <<"x">>, <<" ">>, <<Quote>>, <<Backslash>>, <<"n", Backslash>>,
   <<Newline, "n">>, <<"x", Quote>>}
MCCommands == SeqsUpTo(MCWords, 2) \ {<<>>}
MCScripts == SeqsUpTo(MCCommands, 1) \cup {<<c, d>> : c \in MCCommands, d \in {<<w>> : w \in MCWords}}

Val(type, of) == [type |-> type, of |-> of]

MCLeaves ==
  {Val("U8", <<7>>), Val("I16", <<9, 8>>), Val("U64", <<1, 2, 3, 4, 5, 6, 7, 8>>),
   Val("StringT", <<>>), Val("StringT", <<9, 0>>)}
    \cup IF Doubles THEN {Val("Double", <<1, 2, 3, 4, 5, 6, 7, 8>>)} ELSE {}
MCKeys == {<<1>>, <<2, 2>>}
MCInner ==
  MCLeaves \cup {Val("ArrayT", a) : a \in SeqsUpTo(MCLeaves, 2)}
           \cup {Val("MapT", <<>>)}
           \cup {Val("MapT", <<<<k, v>>>>) : k \in MCKeys, v \in MCLeaves}
MCNested ==
  MCInner \cup {Val("ArrayT", <<v, w>>) : v \in MCInner, w \in MCLeaves}

MCDocuments ==
  {<<>>} \cup {<<<<k, v>>>> : k \in MCKeys, v \in MCNested}
         \cup {<<<<k, v>>, <<l, w>>>> :
                 k \in {<<1>>}, l \in {<<2, 2>>}, v \in MCInner, w \in MCInner}
         \cup {<<<<k, v>>, <<l, w>>>> :
                 k \in {<<2, 2>>}, l \in {<<1>>}, v \in MCLeaves, w \in MCLeaves}

Field(type, optional, rejects) ==
  [type |-> type, optional |-> optional, rejects |-> rejects, found |-> FALSE]
OneField(field) == [k \in {<<1>>} |-> field]
TwoFields(f, g) == [k \in MCKeys |-> IF k = <<1>> THEN f ELSE g]

MCFields ==
  {OneField(Field("AnyT", TRUE, {})),
   TwoFields(Field("AnyT", FALSE, {Val("U8", <<7>>)}), Field("StringT", TRUE, {})),
   TwoFields(Field("I16", FALSE, {}), Field("AnyT", FALSE, {}))}
MCStrict == {[allow_undefined |-> FALSE, fields |-> f] : f \in MCFields}
MCLenient == {[allow_undefined |-> TRUE, fields |-> f] : f \in MCFields}

MCTokens ==
  {"server", "-", "=", "true", "false", "3000", "20", "256", "1", "v", "x"}
    \cup DOMAIN Type \cup DOMAIN Aliases \cup {"bogus"}
MCNumerals == {"1", "20", "256", "3000"}

\* Values that look like a flag, a number or a setting of their own, and an id
\* there is none of.
MCValued(id, values) ==
  {[id |-> <<id>>, value |-> v, as |-> way] : v \in values, way \in {"joined", "apart"}}
MCSettings ==
  MCValued("port", {<<"1">>, <<"-", "v">>})
    \cup MCValued("p", {<<"x", "=", "1">>})
    \cup MCValued("bl", {<<"3000">>, <<"-", "20">>})
    \cup MCValued("bogus", {<<"1">>})
    \cup {[id |-> <<id>>, value |-> True, as |-> "alone"] :
            id \in {"verbose", "v", "tfile", "transport_stdout"}}
MCOptions == SeqsUpTo(MCSettings, 3)

\* The form of a number and that of a Bool that the parser takes for another.
MCTrailing == {<<[id |-> <<"bl">>, value |-> <<"20", "x">>, as |-> "joined"]>>}
MCFalse == {<<[id |-> <<"v">>, value |-> False, as |-> "joined"]>>}
MCNone == {{}}
MCAny == SUBSET {LOG_FILE, LOG_STDOUT}
=============================================================================
