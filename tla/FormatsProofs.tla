--------------------------- MODULE FormatsProofs ---------------------------
(***************************************************************************)
(* Proofs about Formats, for texts, scripts, options, maps and schemas of  *)
(* every size.  Each of the three readers is first unfolded into the steps *)
(* of its loop; then what a writer writes is laid out (where in the bytes  *)
(* each word, option, item or pair is); then the loop is followed along    *)
(* the layout by induction.  The last part states what holds of every      *)
(* behaviour of the specification.                                         *)
(***************************************************************************)
EXTENDS Formats, Recursion

-----------------------------------------------------------------------------
(* Options: what the flags are.                                            *)

\* What a flag's value can be.
Types == {"String", "Bool", "Number"}

\* Every flag has a type and a default.
LEMMA FlagTypes ==
  /\ DOMAIN Type = DOMAIN Default
  /\ \A flag \in DOMAIN Type : Type[flag] \in Types
  /\ Default \in Data
  /\ DOMAIN Type = {"port", "verbose", "transport_stdout", "transport_file",
                    "backlog", "poll_size"}
<1>1. DOMAIN Type = {"port", "verbose", "transport_stdout", "transport_file",
                    "backlog", "poll_size"}
  BY DEF Type
<1>2. DOMAIN Default = {"port", "verbose", "transport_stdout", "transport_file",
                    "backlog", "poll_size"}
  BY DEF Default
<1>3. \A flag \in DOMAIN Type : Type[flag] \in Types  BY <1>1 DEF Type, Types
<1>4. \A flag \in DOMAIN Type : Default[flag] \in Seq(Token)
  <2>1. /\ <<"3000">> \in Seq(Token) /\ <<"false">> \in Seq(Token)
        /\ <<"20">> \in Seq(Token) /\ <<"256">> \in Seq(Token)
    BY TokenAssumption, OneSeq
  <2>2. \A flag \in DOMAIN Type :
          Default[flag] \in {<<"3000">>, <<"false">>, <<"20">>, <<"256">>}
    BY <1>1 DEF Default, False
  <2>3. QED  BY <2>1, <2>2
<1>5. Default = [flag \in DOMAIN Type |-> Default[flag]]  BY <1>1, <1>2 DEF Default
<1>6. QED  BY <1>1, <1>2, <1>3, <1>4, <1>5 DEF Data

\* An id that is known leads to a flag.
LEMMA AliasTypes ==
  ASSUME NEW id \in Seq(Token), IsKnown(id)
  PROVE  get(id) \in DOMAIN Type
<1>1. \A a \in DOMAIN Aliases : Aliases[a] \in DOMAIN Type  BY DEF Aliases, Type
<1>2. QED  BY <1>1 DEF IsKnown, get

-----------------------------------------------------------------------------
(* The loop.                                                               *)

\* What the argument a makes of data, rest being what comes of it then.
FlagStep(args, a, rest, data) ==
  LET arg    == args[a]
      flag   == get(Id(arg))
      joined == Attached(arg) # <<>>
      value  == IF joined THEN Attached(arg) ELSE args[a + 1]
  IN  IF ~is_flag(arg) THEN rest[data]
      ELSE IF ~IsKnown(Id(arg)) THEN Refused
      ELSE IF Type[flag] = "Bool" THEN rest[[data EXCEPT ![flag] = True]]
      ELSE IF ~joined /\ a = Len(args) THEN Refused
      ELSE IF Type[flag] = "Number" /\ Numeral(value) = <<>> THEN Refused
      ELSE rest[[data EXCEPT ![flag] = set_value(flag, value)]]

\* Is the value of a flag in the argument behind it?
Apart(args, a) ==
  /\ is_flag(args[a]) /\ IsKnown(Id(args[a])) /\ Type[get(Id(args[a]))] # "Bool"
  /\ Attached(args[a]) = <<>> /\ a # Len(args)

\* The argument that is looked at next.
NextArg(args, a) == IF Apart(args, a) THEN a + 2 ELSE a + 1

\* The pieces of an argument are sequences of tokens.
LEMMA ArgTypes ==
  ASSUME NEW arg \in Seq(Token), is_flag(arg)
  PROVE  /\ parse_flag(arg) \in 2..Len(arg) + 1
         /\ Id(arg) \in Seq(Token) /\ Attached(arg) \in Seq(Token)
<1> DEFINE S == {i \in 2..Len(arg) : arg[i] = Separator} \cup {Len(arg) + 1}
<1>1. Len(arg) \in Nat /\ Len(arg) > 1  BY DEF is_flag
<1>2. S \subseteq Nat /\ S # {} /\ S \subseteq 2..Len(arg) + 1  BY <1>1
<1>3. parse_flag(arg) \in S
  <2> HIDE DEF S
  <2>1. Min(S) \in S  BY <1>2, MinIs
  <2>2. QED  BY <2>1 DEF parse_flag, S
<1>4. parse_flag(arg) \in 2..Len(arg) + 1  BY <1>2, <1>3
<1> DEFINE e == parse_flag(arg)
<1> HIDE DEF e, S
<1>5. e \in 2..Len(arg) + 1  BY <1>4 DEF e
<1>6. SubSeq(arg, 2, e - 1) \in Seq(Token)  BY <1>1, <1>5
<1>7. SubSeq(arg, e + 1, Len(arg)) \in Seq(Token)
  <2>1. e + 1 <= Len(arg) + 2 /\ e + 1 >= 1  BY <1>1, <1>5
  <2>2. QED  BY <1>1, <1>5, <2>1
<1>8. QED  BY <1>4, <1>6, <1>7 DEF Id, Attached, e

\* A value fits its flag.
LEMMA ValueTypes ==
  ASSUME NEW data \in Data, NEW flag \in DOMAIN Type, NEW value \in Seq(Token)
  PROVE  /\ [data EXCEPT ![flag] = True] \in Data
         /\ [data EXCEPT ![flag] = set_value(flag, value)] \in Data
<1>1. True \in Seq(Token)  BY TokenAssumption, OneSeq DEF True
<1>2. Numeral(value) \in Seq(Token)
  <2>1. <<>> \in Seq(Token)  OBVIOUS
  <2>2. value # <<>> => SubSeq(value, 1, 1) \in Seq(Token)  OBVIOUS
  <2>3. Len(value) > 1 => SubSeq(value, 1, 2) \in Seq(Token)  OBVIOUS
  <2>4. QED  BY <2>1, <2>2, <2>3 DEF Numeral
<1>3. set_value(flag, value) \in Seq(Token)  BY <1>2 DEF set_value
<1>4. QED  BY <1>1, <1>3 DEF Data

\* parse_flags is its loop (Parser::parse, server/flags.hpp:109).
LEMMA FlagsUnfold ==
  ASSUME NEW args \in Seq(Seq(Token))
  PROVE  \E read :
           /\ parse_flags(args) = read[1][Default]
           /\ \A data \in Data : read[Len(args) + 1][data] = [ok |-> TRUE, data |-> data]
           /\ \A a \in 1..Len(args), data \in Data :
                read[a][data] = FlagStep(args, a, read[NextArg(args, a)], data)
<1> DEFINE n == Len(args) + 1
           Out == [ok : BOOLEAN, data : Data]
           T == [Data -> Out]
           c == [data \in Data |-> [ok |-> TRUE, data |-> data]]
           h == [a \in 1..n |-> [t \in T |-> [data \in Data |-> FlagStep(args, a, t, data)]]]
           next == [a \in 1..n |-> NextArg(args, a)]
           Body(f) ==
             [a \in 1..n |-> [data \in Data |->
               LET arg    == args[a]
                   flag   == get(Id(arg))
                   joined == Attached(arg) # <<>>
                   value  == IF joined THEN Attached(arg) ELSE args[a + 1]
                   number == Type[flag] = "Number"
               IN  IF a > Len(args) THEN [ok |-> TRUE, data |-> data]
                   ELSE IF ~is_flag(arg) THEN f[a + 1][data]
                   ELSE IF ~IsKnown(Id(arg)) THEN Refused
                   ELSE IF Type[flag] = "Bool" THEN f[a + 1][[data EXCEPT ![flag] = True]]
                   ELSE IF ~joined /\ a = Len(args) THEN Refused
                   ELSE IF number /\ Numeral(value) = <<>> THEN Refused
                   ELSE f[IF joined THEN a + 1 ELSE a + 2]
                          [[data EXCEPT ![flag] = set_value(flag, value)]]]]
<1>0. n \in Nat /\ 1 <= n /\ 1 \in Nat /\ n = Len(args) + 1 /\ Len(args) \in Nat  OBVIOUS
<1> HIDE DEF n
<1>1. c \in T
  <2>1. \A data \in Data : [ok |-> TRUE, data |-> data] \in Out  OBVIOUS
  <2> HIDE DEF Out
  <2>2. QED  BY <2>1
<1>2. ASSUME NEW a \in 1..n - 1, NEW t \in T, NEW data \in Data
      PROVE  FlagStep(args, a, t, data) \in Out
  <2>1. Refused \in Out  BY FlagTypes DEF Refused
  <2> HIDE DEF Out
  <2>2. \A d \in Data : t[d] \in Out  OBVIOUS
  <2>3. args[a] \in Seq(Token)  BY <1>0
  <2>4. CASE ~is_flag(args[a]) \/ ~IsKnown(Id(args[a]))  BY <2>1, <2>2, <2>4 DEF FlagStep
  <2>5. CASE is_flag(args[a]) /\ IsKnown(Id(args[a]))
    <3>1. Id(args[a]) \in Seq(Token) /\ Attached(args[a]) \in Seq(Token)
      BY <2>3, <2>5, ArgTypes
    <3>2. get(Id(args[a])) \in DOMAIN Type  BY <2>5, <3>1, AliasTypes
    <3> DEFINE flag == get(Id(args[a]))
               value == IF Attached(args[a]) # <<>> THEN Attached(args[a]) ELSE args[a + 1]
    <3>3. CASE a = Len(args) /\ Attached(args[a]) = <<>>
      <4>1. [data EXCEPT ![flag] = True] \in Data
        <5>1. <<>> \in Seq(Token)  OBVIOUS
        <5>2. QED  BY <3>2, <5>1, ValueTypes
      <4>2. QED  BY <2>1, <2>2, <2>5, <3>3, <4>1 DEF FlagStep
    <3>4. CASE a # Len(args) \/ Attached(args[a]) # <<>>
      <4>1. value \in Seq(Token)
        <5>1. a # Len(args) => a + 1 \in 1..Len(args)  BY <1>0
        <5>2. a # Len(args) => args[a + 1] \in Seq(Token)  BY <5>1
        <5>3. QED  BY <3>1, <3>4, <5>2
      <4> HIDE DEF value, flag
      <4>2. [data EXCEPT ![flag] = True] \in Data
            /\ [data EXCEPT ![flag] = set_value(flag, value)] \in Data
        BY <3>2, <4>1, ValueTypes DEF flag
      <4>3. QED  BY <2>1, <2>2, <2>5, <3>4, <4>2 DEF FlagStep, flag, value
    <3>5. QED  BY <3>3, <3>4
  <2>6. QED  BY <2>4, <2>5
<1>3. \A a \in 1..n - 1, t \in T :
        a \in 1..n /\ h[a][t] = [data \in Data |-> FlagStep(args, a, t, data)]
  <2>1. \A a \in 1..n - 1 : a \in 1..n  BY <1>0
  <2> HIDE DEF T
  <2>2. QED  BY <2>1
<1>4. \A a \in 1..n - 1 : next[a] = NextArg(args, a) /\ next[a] \in a + 1..n
  <2> TAKE a \in 1..n - 1
  <2>1. a \in 1..n  BY <1>0
  <2>2. next[a] = NextArg(args, a)  BY <2>1
  <2>3. QED  BY <1>0, <2>2 DEF NextArg, Apart
<1> HIDE DEF h, next
<1>5. \A a \in 1..n - 1, t \in T : h[a][t] \in T
  <2> TAKE a \in 1..n - 1, t \in T
  <2> HIDE DEF Out
  <2>1. \A data \in Data : FlagStep(args, a, t, data) \in Out  BY <1>2
  <2>2. [data \in Data |-> FlagStep(args, a, t, data)] \in [Data -> Out]  BY <2>1
  <2>3. h[a][t] = [data \in Data |-> FlagStep(args, a, t, data)]
    <3> HIDE DEF T
    <3>1. QED  BY <1>3
  <2>4. QED  BY <2>2, <2>3
<1>6. PICK x \in [1..n -> T] : Jumps(x, c, h, next, 1, n)
  <2>1. \A a \in 1..n - 1 : next[a] \in a + 1..n  BY <1>4
  <2> HIDE DEF T, c
  <2>2. QED  BY <1>0, <1>1, <1>5, <2>1, JumpingFunction
<1>6a. \A a \in 1..n : x[a] = IF a = n THEN c ELSE h[a][x[next[a]]]
  BY <1>6 DEF Jumps
<1>7. ASSUME NEW f, NEW data \in Data
      PROVE  /\ Body(f)[n][data] = [ok |-> TRUE, data |-> data]
             /\ \A a \in 1..n - 1 :
                  Body(f)[a][data] = FlagStep(args, a, f[NextArg(args, a)], data)
  <2>1. n > Len(args) /\ n \in 1..n  BY <1>0
  <2>2. Body(f)[n][data] = [ok |-> TRUE, data |-> data]  BY <2>1
  <2>3. ASSUME NEW a \in 1..n - 1
        PROVE  Body(f)[a][data] = FlagStep(args, a, f[NextArg(args, a)], data)
    <3>1. ~(a > Len(args)) /\ a \in 1..n  BY <1>0
    <3>2. QED  BY <3>1 DEF FlagStep, NextArg, Apart
  <2> HIDE DEF Body
  <2>4. QED  BY <2>2, <2>3
<1>8. x = Body(x)
  <2>1. ASSUME NEW a \in 1..n  PROVE x[a] = Body(x)[a]
    <3>0. x[a] = [data \in Data |-> x[a][data]]  OBVIOUS
    <3>1. ASSUME NEW data \in Data  PROVE x[a][data] = Body(x)[a][data]
      <4>1. CASE a = n
        <5>1. x[a] = c  BY <1>6a, <4>1
        <5>2. x[a][data] = [ok |-> TRUE, data |-> data]  BY <5>1
        <5> HIDE DEF Body
        <5>3. QED  BY <1>7, <4>1, <5>2
      <4>2. CASE a # n
        <5>1. a \in 1..n - 1  BY <1>0, <4>2
        <5>2. next[a] = NextArg(args, a) /\ next[a] \in 1..n
          <6>1. next[a] \in a + 1..n /\ a \in Nat  BY <1>0, <1>4, <5>1
          <6>2. QED  BY <1>0, <1>4, <5>1, <6>1
        <5>3. x[next[a]] \in T  BY <1>6, <5>2
        <5>4. x[a] = h[a][x[next[a]]]  BY <1>6a, <4>2
        <5> HIDE DEF T, Body
        <5>5. x[a] = [d \in Data |-> FlagStep(args, a, x[next[a]], d)]  BY <1>3, <5>1, <5>3, <5>4
        <5>6. x[a][data] = FlagStep(args, a, x[next[a]], data)  BY <5>5
        <5>7. Body(x)[a][data] = FlagStep(args, a, x[NextArg(args, a)], data)
            BY <1>7, <5>1
        <5>8. QED  BY <5>2, <5>6, <5>7
      <4>3. QED  BY <4>1, <4>2
    <3>2. Body(x)[a] = [data \in Data |-> Body(x)[a][data]]  OBVIOUS
    <3> HIDE DEF Body
    <3>3. QED  BY <3>0, <3>1, <3>2
  <2>2. DOMAIN x = 1..n /\ x = [a \in 1..n |-> x[a]]  BY <1>6
  <2>3. DOMAIN Body(x) = 1..n /\ Body(x) = [a \in 1..n |-> Body(x)[a]]  OBVIOUS
  <2> HIDE DEF Body
  <2>4. QED  BY <2>1, <2>2, <2>3
<1> DEFINE g == CHOOSE y : y = Body(y)
<1>9. g = Body(g)
  <2> HIDE DEF Body
  <2>1. QED  BY <1>8, Zenon
<1>10. parse_flags(args) = g[1][Default]  BY Zenon DEF parse_flags, n
<1>11. \A a \in 1..n, data \in Data : g[a][data] = Body(g)[a][data]
  <2> HIDE DEF g, Body
  <2>1. QED  BY <1>9
<1> HIDE DEF g, Body
<1>12. \A data \in Data : g[n][data] = [ok |-> TRUE, data |-> data]
  <2> TAKE data \in Data
  <2>1. n \in 1..n  BY <1>0
  <2>2. g[n][data] = Body(g)[n][data]  BY <1>11, <2>1
  <2>3. QED  BY <1>7, <2>2
<1>13. \A data \in Data : g[Len(args) + 1][data] = [ok |-> TRUE, data |-> data]
  BY <1>0, <1>12
<1>14. \A a \in 1..Len(args), data \in Data :
         g[a][data] = FlagStep(args, a, g[NextArg(args, a)], data)
  <2> TAKE a \in 1..Len(args), data \in Data
  <2>1. a \in 1..n /\ a \in 1..n - 1  BY <1>0
  <2>2. g[a][data] = Body(g)[a][data]  BY <1>11, <2>1
  <2>3. QED  BY <1>7, <2>1, <2>2
<1>15. QED  BY <1>10, <1>13, <1>14

-----------------------------------------------------------------------------
(* Settings.                                                               *)

\* A setting in the form its flag takes.
ProperSetting(s) ==
  /\ s.id \in Seq(Token) /\ s.id # <<>> /\ s.value \in Seq(Token)
  /\ \A i \in 1..Len(s.id) : s.id[i] # Separator
  /\ s.as \in {"alone", "joined", "apart"}
  /\ IsKnown(s.id) =>
       IF Type[get(s.id)] = "Bool" THEN s.as = "alone" /\ s.value = True
       ELSE /\ s.as # "alone" /\ s.value # <<>>
            /\ Type[get(s.id)] = "Number" => Numeral(s.value) = s.value

\* The id is what is between the prefix and the separator or the end.
LEMMA IdRead ==
  ASSUME NEW arg \in Seq(Token), NEW id \in Seq(Token), id # <<>>,
         Len(arg) > Len(id), arg[1] = Prefix,
         \A i \in 1..Len(id) : arg[i + 1] = id[i] /\ id[i] # Separator,
         Len(arg) = Len(id) + 1 \/ arg[Len(id) + 2] = Separator
  PROVE  is_flag(arg) /\ parse_flag(arg) = Len(id) + 2 /\ Id(arg) = id
<1> DEFINE p == Len(id) + 2
           S == {i \in 2..Len(arg) : arg[i] = Separator} \cup {Len(arg) + 1}
<1>1. Len(id) \in Nat /\ Len(id) >= 1 /\ Len(arg) \in Nat  OBVIOUS
<1>2. is_flag(arg)  BY <1>1 DEF is_flag
<1>3. p \in S  BY <1>1
<1>4. S \subseteq Nat /\ S # {}  BY <1>1
<1>5. \A i \in S : i >= p
  <2> SUFFICES ASSUME NEW i \in S, i < p PROVE FALSE  BY <1>1
  <2>1. i \in 2..Len(arg) /\ arg[i] = Separator  BY <1>1
  <2>2. i - 1 \in 1..Len(id) /\ i - 1 + 1 = i  BY <1>1, <2>1
  <2>3. QED  BY <2>1, <2>2
<1>6. parse_flag(arg) = p
  <2> HIDE DEF S, p
  <2>1. Min(S) \in S /\ \A y \in S : Min(S) <= y  BY <1>4, MinIs
  <2>2. Min(S) \in Nat /\ p \in Nat  BY <1>3, <1>4, <2>1
  <2>3. Min(S) <= p /\ Min(S) >= p  BY <1>3, <1>5, <2>1
  <2>4. Min(S) = p
    <3> DEFINE x == Min(S)
    <3> HIDE DEF x
    <3>1. x \in Nat /\ x <= p /\ x >= p  BY <2>2, <2>3 DEF x
    <3>2. x = p  BY <2>2, <3>1
    <3>3. QED  BY <3>2 DEF x
  <2>5. QED  BY <2>4 DEF parse_flag, S
<1>7. SubSeq(arg, 2, p - 1) = id
  <2> DEFINE t == SubSeq(arg, 2, p - 1)
  <2>1. t \in Seq(Token) /\ Len(t) = Len(id)  BY <1>1
  <2>2. \A i \in 1..Len(id) : t[i] = arg[i + 1]  BY <1>1
  <2> HIDE DEF t
  <2>3. \A i \in 1..Len(id) : t[i] = id[i]  BY <2>2
  <2>4. t = id  BY <2>1, <2>3, SeqEqual
  <2>5. QED  BY <2>4 DEF t
<1>8. QED  BY <1>2, <1>6, <1>7 DEF Id

\* The arguments of a setting, and how they are read (Parser::parse_flag and
\* the choice of the value, server/flags.hpp:267, 147).
LEMMA ArgumentsRead ==
  ASSUME NEW s, ProperSetting(s)
  PROVE  LET own == Arguments(s)
         IN  /\ own \in Seq(Seq(Token)) /\ Len(own) >= 1
             /\ is_flag(own[1]) /\ Id(own[1]) = s.id
             /\ s.as = "alone" => Len(own) = 1 /\ Attached(own[1]) = <<>>
             /\ s.as = "joined" => Len(own) = 1 /\ Attached(own[1]) = s.value
             /\ s.as = "apart" => /\ Len(own) = 2 /\ Attached(own[1]) = <<>>
                                  /\ own[2] = s.value
<1> DEFINE id == s.id
           value == s.value
           flag == <<Prefix>> \o id
           long == flag \o (<<Separator>> \o value)
<1>1. /\ id \in Seq(Token) /\ id # <<>> /\ value \in Seq(Token)
      /\ \A i \in 1..Len(id) : id[i] # Separator
      /\ s.as \in {"alone", "joined", "apart"}
  BY DEF ProperSetting
<1>2. Prefix \in Token /\ Separator \in Token  BY TokenAssumption DEF Prefix, Separator
<1>3. /\ <<Prefix>> \in Seq(Token) /\ Len(<<Prefix>>) = 1 /\ <<Prefix>>[1] = Prefix
      /\ <<Separator>> \in Seq(Token) /\ Len(<<Separator>>) = 1
      /\ <<Separator>>[1] = Separator
  BY <1>2, OneSeq
<1> HIDE DEF id, value
<1>4. /\ flag \in Seq(Token) /\ Len(flag) = Len(id) + 1 /\ flag[1] = Prefix
      /\ \A i \in 1..Len(id) : flag[i + 1] = id[i]
  <2>1. Len(id) \in Nat  BY <1>1
  <2>2. /\ flag \in Seq(Token) /\ Len(flag) = 1 + Len(id)
        /\ \A i \in 1..1 : flag[i] = <<Prefix>>[i]
        /\ \A i \in 1..Len(id) : flag[1 + i] = id[i]
    BY <1>1, <1>3, Joined
  <2> HIDE DEF flag
  <2>3. \A i \in 1..Len(id) : flag[i + 1] = id[i]
    <3> TAKE i \in 1..Len(id)
    <3>1. i + 1 = 1 + i  BY <2>1
    <3>2. QED  BY <2>2, <3>1
  <2>4. QED  BY <1>3, <2>1, <2>2, <2>3
<1> HIDE DEF flag
<1>5. /\ <<Separator>> \o value \in Seq(Token) /\ Len(<<Separator>> \o value) = Len(value) + 1
      /\ (<<Separator>> \o value)[1] = Separator
      /\ \A i \in 1..Len(value) : (<<Separator>> \o value)[1 + i] = value[i]
  <2>1. Len(value) \in Nat  BY <1>1
  <2>2. /\ <<Separator>> \o value \in Seq(Token) /\ Len(<<Separator>> \o value) = 1 + Len(value)
        /\ \A i \in 1..1 : (<<Separator>> \o value)[i] = <<Separator>>[i]
        /\ \A i \in 1..Len(value) : (<<Separator>> \o value)[1 + i] = value[i]
    BY <1>1, <1>3, Joined
  <2>3. QED  BY <1>3, <2>1, <2>2
<1> DEFINE tail == <<Separator>> \o value
<1> HIDE DEF tail
<1>6. /\ tail \in Seq(Token) /\ Len(tail) = Len(value) + 1 /\ tail[1] = Separator
      /\ \A i \in 1..Len(value) : tail[1 + i] = value[i]
  BY <1>5 DEF tail
<1> DEFINE both == flag \o tail
<1>7. /\ both \in Seq(Token) /\ Len(both) = Len(id) + 2 + Len(value)
      /\ \A i \in 1..Len(id) + 1 : both[i] = flag[i]
      /\ \A i \in 1..Len(value) + 1 : both[Len(id) + 1 + i] = tail[i]
  <2>1. Len(id) \in Nat /\ Len(value) \in Nat  BY <1>1
  <2>2. /\ both \in Seq(Token) /\ Len(both) = Len(flag) + Len(tail)
        /\ \A i \in 1..Len(flag) : both[i] = flag[i]
        /\ \A i \in 1..Len(tail) : both[Len(flag) + i] = tail[i]
    <3>1. flag \in Seq(Token) /\ tail \in Seq(Token)  BY <1>4, <1>6
    <3>2. QED  BY <3>1, Joined
  <2> HIDE DEF both
  <2>3. QED  BY <1>4, <1>6, <2>1, <2>2
<1> HIDE DEF both
<1>8. is_flag(flag) /\ Id(flag) = id /\ Attached(flag) = <<>>
  <2>1. Len(flag) > Len(id) /\ Len(id) \in Nat  BY <1>1, <1>4
  <2>2. is_flag(flag) /\ parse_flag(flag) = Len(id) + 2 /\ Id(flag) = id
    BY <1>1, <1>4, <2>1, IdRead
  <2>3. SubSeq(flag, Len(id) + 2 + 1, Len(flag)) = <<>>  BY <1>4, <2>1
  <2>4. QED  BY <2>2, <2>3 DEF Attached
<1>9. is_flag(both) /\ Id(both) = id /\ Attached(both) = value
  <2>1. Len(id) \in Nat /\ Len(value) \in Nat /\ Len(both) > Len(id)  BY <1>1, <1>7
  <2>2. both[Len(id) + 2] = Separator
    <3>1. 1 \in 1..Len(value) + 1 /\ Len(id) + 1 + 1 = Len(id) + 2  BY <2>1
    <3>2. QED  BY <1>6, <1>7, <3>1
  <2>3. both[1] = Prefix /\ \A i \in 1..Len(id) : both[i + 1] = id[i]
    <3>1. 1 \in 1..Len(id) + 1 /\ \A i \in 1..Len(id) : i + 1 \in 1..Len(id) + 1  BY <2>1
    <3>2. QED  BY <1>4, <1>7, <3>1
  <2>4. is_flag(both) /\ parse_flag(both) = Len(id) + 2 /\ Id(both) = id
    BY <1>1, <1>7, <2>1, <2>2, <2>3, IdRead
  <2> DEFINE t == SubSeq(both, Len(id) + 2 + 1, Len(both))
  <2>5. t \in Seq(Token) /\ Len(t) = Len(value)
        /\ \A i \in 1..Len(value) : t[i] = both[Len(id) + 2 + i]
    <3>1. /\ both \in Seq(Token) /\ Len(both) = Len(id) + 2 + Len(value)  BY <1>7
    <3>2. QED  BY <2>1, <3>1
  <2>6. \A i \in 1..Len(value) : both[Len(id) + 2 + i] = value[i]
    <3> TAKE i \in 1..Len(value)
    <3>1. 1 + i \in 1..Len(value) + 1 /\ Len(id) + 1 + (1 + i) = Len(id) + 2 + i  BY <2>1
    <3>2. both[Len(id) + 1 + (1 + i)] = tail[1 + i]  BY <1>7, <3>1
    <3>3. QED  BY <1>6, <3>1, <3>2
  <2> HIDE DEF t
  <2>7. t = value  BY <1>1, <2>5, <2>6, SeqEqual
  <2>8. QED  BY <2>4, <2>7 DEF Attached, t
<1>10. Arguments(s) = CASE s.as = "alone"  -> <<flag>>
                        [] s.as = "joined" -> <<flag \o <<Separator>> \o value>>
                        [] s.as = "apart"  -> <<flag, value>>
  BY DEF Arguments, flag, id, value
<1>11. flag \o <<Separator>> \o value = both
  <2>1. flag \o <<Separator>> \o value = flag \o (<<Separator>> \o value)
    BY <1>1, <1>3, <1>4, ConcatAssociative
  <2>2. QED  BY <2>1 DEF both, tail
<1>12. CASE s.as = "alone"
  <2>1. Arguments(s) = <<flag>>  BY <1>10, <1>12
  <2>2. <<flag>> \in Seq(Seq(Token)) /\ Len(<<flag>>) = 1 /\ <<flag>>[1] = flag
    BY <1>4, OneSeq
  <2>3. QED  BY <1>8, <1>12, <2>1, <2>2 DEF id
<1>13. CASE s.as = "joined"
  <2>1. Arguments(s) = <<both>>
    <3>1. s.as # "alone"  BY <1>13
    <3>2. QED  BY <1>10, <1>11, <1>13, <3>1
  <2>2. <<both>> \in Seq(Seq(Token)) /\ Len(<<both>>) = 1 /\ <<both>>[1] = both
    BY <1>7, OneSeq
  <2>3. QED  BY <1>9, <1>13, <2>1, <2>2 DEF id, value
<1>14. CASE s.as = "apart"
  <2>1. Arguments(s) = <<flag, value>>
    <3>1. s.as # "alone" /\ s.as # "joined"  BY <1>14
    <3>2. QED  BY <1>10, <1>14, <3>1
  <2>2. /\ <<flag, value>> \in Seq(Seq(Token)) /\ Len(<<flag, value>>) = 2
        /\ <<flag, value>>[1] = flag /\ <<flag, value>>[2] = value
    BY <1>1, <1>4
  <2>3. QED  BY <1>8, <1>14, <2>1, <2>2 DEF id, value
<1>15. QED  BY <1>1, <1>12, <1>13, <1>14

\* The arguments own are on the command line from a on.
StandAt(args, a, own) ==
  /\ a + Len(own) <= Len(args) + 1
  /\ \A k \in 1..Len(own) : args[a + k - 1] = own[k]

\* At a the setting s is refused or sets its flag.
Sets(s, args, a, rest, data) ==
  IF IsKnown(s.id)
  THEN /\ FlagStep(args, a, rest, data) = rest[[data EXCEPT ![get(s.id)] = s.value]]
       /\ NextArg(args, a) = a + Len(Arguments(s))
  ELSE FlagStep(args, a, rest, data) = Refused

\* A setting among the arguments is refused or sets its flag (Parser::parse,
\* server/flags.hpp:109).
LEMMA SettingRead ==
  ASSUME NEW s, ProperSetting(s), NEW args \in Seq(Seq(Token)), NEW a \in 1..Len(args),
         StandAt(args, a, Arguments(s)),
         NEW rest, NEW data \in Data
  PROVE  Sets(s, args, a, rest, data)
<1> DEFINE own == Arguments(s)
<1>1. /\ own \in Seq(Seq(Token)) /\ Len(own) >= 1
      /\ is_flag(own[1]) /\ Id(own[1]) = s.id
      /\ s.as = "alone" => Len(own) = 1 /\ Attached(own[1]) = <<>>
      /\ s.as = "joined" => Len(own) = 1 /\ Attached(own[1]) = s.value
      /\ s.as = "apart" => Len(own) = 2 /\ Attached(own[1]) = <<>> /\ own[2] = s.value
  BY ArgumentsRead
<1>2. /\ s.as \in {"alone", "joined", "apart"} /\ s.value \in Seq(Token)
      /\ IsKnown(s.id) =>
           IF Type[get(s.id)] = "Bool" THEN s.as = "alone" /\ s.value = True
           ELSE /\ s.as # "alone" /\ s.value # <<>>
                /\ Type[get(s.id)] = "Number" => Numeral(s.value) = s.value
  BY DEF ProperSetting
<1>3. /\ a + Len(own) <= Len(args) + 1
      /\ \A k \in 1..Len(own) : args[a + k - 1] = own[k]
  BY DEF StandAt
<1> HIDE DEF own
<1>4. a \in Nat /\ Len(args) \in Nat /\ Len(own) \in Nat
  <2>1. own \in Seq(Seq(Token))  BY <1>1
  <2>2. Len(own) \in Nat  BY <2>1
  <2>3. QED  BY <2>2
<1>5. args[a] = own[1]
  <2>0. Len(own) >= 1  BY <1>1
  <2>1. 1 \in 1..Len(own) /\ a + 1 - 1 = a  BY <1>4, <2>0
  <2>2. QED  BY <1>3, <2>1
<1>6. s.as = "apart" => a # Len(args) /\ args[a + 1] = s.value
  <2> SUFFICES ASSUME s.as = "apart" PROVE a # Len(args) /\ args[a + 1] = s.value  OBVIOUS
  <2>0. Len(own) = 2  BY <1>1
  <2>1. 2 \in 1..Len(own) /\ a + 2 - 1 = a + 1 /\ a + 2 <= Len(args) + 1
    BY <1>3, <1>4, <2>0
  <2>2. args[a + 1] = own[2]
    <3>1. args[a + 2 - 1] = own[2]  BY <1>3, <2>1
    <3>2. QED  BY <2>1, <3>1
  <2>3. a # Len(args)  BY <1>4, <2>1
  <2>4. QED  BY <1>1, <2>2, <2>3
<1>7. ASSUME ~IsKnown(s.id)  PROVE FlagStep(args, a, rest, data) = Refused
  BY <1>1, <1>5, <1>7 DEF FlagStep
<1>8. ASSUME IsKnown(s.id)
      PROVE  /\ FlagStep(args, a, rest, data) = rest[[data EXCEPT ![get(s.id)] = s.value]]
             /\ NextArg(args, a) = a + Len(own)
  <2>1. CASE Type[get(s.id)] = "Bool"
    <3>1. s.value = True /\ Len(own) = 1  BY <1>1, <1>2, <1>8, <2>1
    <3>2. FlagStep(args, a, rest, data) = rest[[data EXCEPT ![get(s.id)] = True]]
      BY <1>1, <1>5, <1>8, <2>1 DEF FlagStep
    <3>3. NextArg(args, a) = a + 1  BY <1>1, <1>5, <2>1 DEF NextArg, Apart
    <3>4. QED  BY <3>1, <3>2, <3>3
  <2>2. CASE Type[get(s.id)] # "Bool"
    <3>1. /\ s.as # "alone" /\ s.value # <<>>
          /\ set_value(get(s.id), s.value) = s.value
          /\ ~(Type[get(s.id)] = "Number" /\ Numeral(s.value) = <<>>)
      BY <1>2, <1>8, <2>2 DEF set_value
    <3>2. CASE s.as = "joined"
      <4>1. Attached(args[a]) = s.value /\ Attached(args[a]) # <<>> /\ Len(own) = 1
        BY <1>1, <1>5, <3>1, <3>2
      <4>2. FlagStep(args, a, rest, data) = rest[[data EXCEPT ![get(s.id)] = s.value]]
        BY <1>1, <1>5, <1>8, <2>2, <3>1, <4>1 DEF FlagStep
      <4>3. NextArg(args, a) = a + 1  BY <4>1 DEF NextArg, Apart
      <4>4. QED  BY <4>1, <4>2, <4>3
    <3>3. CASE s.as = "apart"
      <4>1. /\ Attached(args[a]) = <<>> /\ Len(own) = 2 /\ a # Len(args)
            /\ args[a + 1] = s.value
        BY <1>1, <1>5, <1>6, <3>3
      <4>2. FlagStep(args, a, rest, data) = rest[[data EXCEPT ![get(s.id)] = s.value]]
        BY <1>1, <1>5, <1>8, <2>2, <3>1, <4>1 DEF FlagStep
      <4>3. NextArg(args, a) = a + 2
        BY <1>1, <1>5, <1>8, <2>2, <4>1 DEF NextArg, Apart
      <4>4. QED  BY <4>1, <4>2, <4>3
    <3>4. QED  BY <1>2, <3>1, <3>2, <3>3
  <2>3. QED  BY <2>1, <2>2
<1>9. QED  BY <1>7, <1>8 DEF own, Sets

-----------------------------------------------------------------------------
(* The command line.                                                       *)

\* The settings of a command line, each in the form its flag takes.
Forms == [id : Seq(Token), value : Seq(Token), as : {"alone", "joined", "apart"}]

\* All settings of a command line are in such a form.
ProperSettings(ss) == ss \in Seq(Forms) /\ \A i \in 1..Len(ss) : ProperSetting(ss[i])

\* What r says the settings behind the j-th make of data.
GivenFrom(ss, j, data, r) ==
  IF \E i \in j + 1..Len(ss) : ~IsKnown(ss[i].id) THEN r = Refused
  ELSE /\ r.ok /\ r.data \in Data
       /\ \A flag \in DOMAIN Type :
            /\ (\A i \in j + 1..Len(ss) : get(ss[i].id) # flag) => r.data[flag] = data[flag]
            /\ \A i \in j + 1..Len(ss) :
                 /\ get(ss[i].id) = flag
                 /\ \A k \in i + 1..Len(ss) : get(ss[k].id) # flag
                 => r.data[flag] = ss[i].value

\* The command line, and where the settings are on it.
LineOf(ss) == <<<<"server">>>> \o FlattenSeq([i \in DOMAIN ss |-> Arguments(ss[i])])

\* Setting i is from the argument pos[i - 1] to the one before pos[i].
OnLine(ss, args, pos) ==
  /\ args \in Seq(Seq(Token)) /\ args[1] = <<"server">> /\ Len(args) >= 1
  /\ pos \in [0..Len(ss) -> Nat] /\ pos[0] = 2
  /\ pos[Len(ss)] = Len(args) + 1
  /\ \A i \in 1..Len(ss) :
       /\ pos[i] = pos[i - 1] + Len(Arguments(ss[i]))
       /\ pos[i - 1] \in 1..Len(args)
       /\ StandAt(args, pos[i - 1], Arguments(ss[i]))

\* The settings of every command line have such places.
LEMMA CommandLine ==
  ASSUME NEW ss, ProperSettings(ss)
  PROVE  \E pos : OnLine(ss, LineOf(ss), pos)
<1> DEFINE n == Len(ss)
           parts == [i \in DOMAIN ss |-> Arguments(ss[i])]
           s == <<<<"server">>>>
           t == FlattenSeq(parts)
           args == s \o t
<1>1. ss \in Seq(Forms) /\ n \in Nat /\ DOMAIN ss = 1..n
  BY DEF ProperSettings
<1>2. \A i \in 1..n : Arguments(ss[i]) \in Seq(Seq(Token)) /\ Len(Arguments(ss[i])) >= 1
                          /\ Len(Arguments(ss[i])) \in Nat
  <2> TAKE i \in 1..n
  <2>1. ProperSetting(ss[i])  BY DEF ProperSettings
  <2>2. QED  BY <2>1, ArgumentsRead
<1> HIDE DEF n
<1>3. parts = [i \in 1..n |-> Arguments(ss[i])]  BY <1>1
<1>4. parts \in Seq(Seq(Seq(Token))) /\ Len(parts) = n
  <2>1. parts \in [1..n -> Seq(Seq(Token))]  BY <1>2, <1>3
  <2> HIDE DEF parts
  <2>2. DOMAIN parts = 1..n  BY <2>1
  <2>3. parts \in Seq(Seq(Seq(Token)))  BY <1>1, <2>1
  <2>4. QED  BY <1>1, <2>2, <2>3
<1>5. \A i \in 1..n : parts[i] = Arguments(ss[i])  BY <1>3
<1> HIDE DEF parts
<1>6. <<"server">> \in Seq(Token) /\ Len(<<"server">>) = 1
  BY ProgramAssumption, OneSeq
<1>7. s \in Seq(Seq(Token)) /\ Len(s) = 1 /\ s[1] = <<"server">>  BY <1>6, OneSeq
<1>8. t \in Seq(Seq(Token))
  <2>1. parts \in Seq(Seq(Seq(Token)))  BY <1>4
  <2>2. QED  BY <2>1, FlattenType
<1>9. PICK p : FlatAt(parts, t, p)
  <2>1. parts \in Seq(Seq(Seq(Token)))  BY <1>4
  <2>2. QED  BY <2>1, FlattenPlaces
<1> HIDE DEF s, t
<1>10. /\ args \in Seq(Seq(Token)) /\ Len(args) = Len(s) + Len(t)
       /\ \A i \in 1..Len(s) : args[i] = s[i]
       /\ \A i \in 1..Len(t) : args[Len(s) + i] = t[i]
  <2>1. s \in Seq(Seq(Token)) /\ t \in Seq(Seq(Token))  BY <1>7, <1>8
  <2>2. QED  BY <2>1, Joined
<1>11. Len(t) \in Nat  BY <1>8
<1> HIDE DEF args
<1>12. /\ args \in Seq(Seq(Token)) /\ Len(args) = 1 + Len(t) /\ args[1] = <<"server">>
       /\ \A i \in 1..Len(t) : args[1 + i] = t[i]
  BY <1>7, <1>10
<1>13. /\ p \in [0..n -> Nat] /\ p[0] = 0 /\ Len(t) = p[n]
       /\ \A i \in 1..n : p[i] = p[i - 1] + Len(Arguments(ss[i]))
       /\ \A i \in 0..n : p[i] <= Len(t)
       /\ \A i \in 1..n : \A k \in 1..Len(Arguments(ss[i])) :
            t[p[i - 1] + k] = Arguments(ss[i])[k]
  <2>1. \A i \in 1..n : p[i] = p[i - 1] + Len(parts[i])  BY <1>4, <1>9 DEF FlatAt
  <2>2. \A i \in 1..n : \A k \in 1..Len(parts[i]) : t[p[i - 1] + k] = parts[i][k]
    BY <1>4, <1>9 DEF FlatAt
  <2>3. /\ p \in [0..n -> Nat] /\ p[0] = 0 /\ Len(t) = p[n]
        /\ \A i \in 0..n : p[i] <= Len(t)
    BY <1>4, <1>9 DEF FlatAt
  <2>4. QED  BY <1>5, <2>1, <2>2, <2>3
<1> DEFINE pos == [i \in 0..n |-> p[i] + 2]
<1>14. pos \in [0..n -> Nat] /\ \A i \in 0..n : pos[i] = p[i] + 2 /\ p[i] \in Nat
  BY <1>13
<1> HIDE DEF pos
<1>15. pos[0] = 2 /\ pos[n] = Len(args) + 1
  <2>1. 0 \in 0..n /\ n \in 0..n  BY <1>1
  <2>2. QED  BY <1>11, <1>12, <1>13, <1>14, <2>1
<1>16. ASSUME NEW i \in 1..n
       PROVE  /\ pos[i] = pos[i - 1] + Len(Arguments(ss[i]))
              /\ pos[i - 1] \in 1..Len(args)
              /\ StandAt(args, pos[i - 1], Arguments(ss[i]))
  <2> DEFINE own == Arguments(ss[i])
             l == Len(own)
             q == p[i - 1]
  <2>1. i \in 0..n /\ i - 1 \in 0..n  BY <1>1
  <2>2. pos[i] = p[i] + 2 /\ pos[i - 1] = q + 2 /\ p[i] \in Nat /\ q \in Nat
    BY <1>14, <2>1
  <2>3. p[i] <= Len(t) /\ p[i] = q + l  BY <1>13, <2>1
  <2>4. l \in Nat /\ l >= 1  BY <1>2
  <2>5. \A k \in 1..l : t[q + k] = own[k]  BY <1>13
  <2> HIDE DEF l, q, own
  <2>6. q + l <= Len(t) /\ Len(args) = 1 + Len(t)  BY <1>12, <2>3
  <2>7. /\ pos[i] = pos[i - 1] + l
        /\ pos[i - 1] + l <= Len(args) + 1 /\ pos[i - 1] \in 1..Len(args)
    BY <1>11, <2>2, <2>3, <2>4, <2>6
  <2>8. ASSUME NEW k \in 1..l  PROVE args[pos[i - 1] + k - 1] = own[k]
    <3>1. q + k \in 1..Len(t) /\ pos[i - 1] + k - 1 = 1 + (q + k)
      BY <1>11, <2>2, <2>4, <2>6
    <3>2. args[1 + (q + k)] = t[q + k]  BY <1>12, <3>1
    <3>3. QED  BY <2>5, <3>1, <3>2
  <2>9. StandAt(args, pos[i - 1], own)  BY <2>7, <2>8 DEF StandAt, l
  <2>10. QED  BY <2>7, <2>9 DEF l, own
<1>17. Len(args) >= 1  BY <1>11, <1>12
<1>18. args = LineOf(ss)  BY DEF args, s, t, parts, LineOf
<1>19. OnLine(ss, args, pos)  BY <1>12, <1>14, <1>15, <1>16, <1>17 DEF OnLine, n
<1>20. QED  BY <1>18, <1>19

\* One setting more in front.
LEMMA GivenStep ==
  ASSUME NEW ss, ProperSettings(ss), NEW i \in 1..Len(ss), NEW data \in Data, NEW r,
         IsKnown(ss[i].id),
         GivenFrom(ss, i, [data EXCEPT ![get(ss[i].id)] = ss[i].value], r)
  PROVE  GivenFrom(ss, i - 1, data, r)
<1> DEFINE flag0 == get(ss[i].id)
           d == [data EXCEPT ![flag0] = ss[i].value]
           n == Len(ss)
<1>1. n \in Nat /\ i \in 1..n /\ i - 1 + 1 = i  BY DEF ProperSettings
<1>2. \A k \in i..n : k = i \/ k \in i + 1..n  BY <1>1
<1>3. \A k \in i + 1..n : k \in i..n  BY <1>1
<1>4. GivenFrom(ss, i, d, r)  OBVIOUS
<1>5. \A flag \in DOMAIN Type : d[flag] = IF flag = flag0 THEN ss[i].value ELSE data[flag]
  BY DEF Data
<1>6. i \in i..n  BY <1>1
<1> HIDE DEF d, flag0, n
<1>7. CASE \E k \in i + 1..n : ~IsKnown(ss[k].id)
  <2>1. r = Refused  BY <1>4, <1>7 DEF GivenFrom, n
  <2>2. \E k \in i..n : ~IsKnown(ss[k].id)  BY <1>3, <1>7
  <2>3. QED  BY <1>1, <2>1, <2>2 DEF GivenFrom, n
<1>8. CASE ~ \E k \in i + 1..n : ~IsKnown(ss[k].id)
  <2>1. ~ \E k \in i..n : ~IsKnown(ss[k].id)  BY <1>2, <1>8
  <2>2. /\ r.ok /\ r.data \in Data
        /\ \A flag \in DOMAIN Type :
             /\ (\A k \in i + 1..n : get(ss[k].id) # flag) => r.data[flag] = d[flag]
             /\ \A k \in i + 1..n :
                  /\ get(ss[k].id) = flag
                  /\ \A l \in k + 1..n : get(ss[l].id) # flag
                  => r.data[flag] = ss[k].value
    BY <1>4, <1>8 DEF GivenFrom, n
  <2>3. ASSUME NEW flag \in DOMAIN Type
        PROVE  /\ (\A k \in i..n : get(ss[k].id) # flag) => r.data[flag] = data[flag]
               /\ \A k \in i..n :
                    /\ get(ss[k].id) = flag
                    /\ \A l \in k + 1..n : get(ss[l].id) # flag
                    => r.data[flag] = ss[k].value
    <3>1. (\A k \in i..n : get(ss[k].id) # flag) => r.data[flag] = data[flag]
      <4> SUFFICES ASSUME \A k \in i..n : get(ss[k].id) # flag
                   PROVE  r.data[flag] = data[flag]
        OBVIOUS
      <4>1. flag # flag0  BY <1>6 DEF flag0
      <4>2. \A k \in i + 1..n : get(ss[k].id) # flag  BY <1>3
      <4>3. QED  BY <1>5, <2>2, <4>1, <4>2
    <3>2. ASSUME NEW k \in i..n, get(ss[k].id) = flag,
                 \A l \in k + 1..n : get(ss[l].id) # flag
          PROVE  r.data[flag] = ss[k].value
      <4>1. CASE k = i
        <5>1. flag = flag0 /\ \A l \in i + 1..n : get(ss[l].id) # flag
          BY <3>2, <4>1 DEF flag0
        <5>2. r.data[flag] = d[flag]  BY <2>2, <5>1
        <5>3. QED  BY <1>5, <4>1, <5>1, <5>2
      <4>2. CASE k # i
        <5>1. k \in i + 1..n  BY <1>2, <4>2
        <5>2. QED  BY <2>2, <3>2, <5>1
      <4>3. QED  BY <4>1, <4>2
    <3>3. QED  BY <3>1, <3>2
  <2>4. QED  BY <1>1, <2>1, <2>2, <2>3 DEF GivenFrom, n
<1>9. QED  BY <1>7, <1>8

\* The command line is read as its settings say.
LEMMA LineRead ==
  ASSUME NEW ss, ProperSettings(ss)
  PROVE  GivenFrom(ss, 0, Default, parse_flags(LineOf(ss)))
<1> DEFINE args == LineOf(ss)
           n == Len(ss)
<1>1. PICK pos : OnLine(ss, args, pos)  BY CommandLine
<1>2. ss \in Seq(Forms) /\ n \in Nat  BY DEF ProperSettings
<1> HIDE DEF args
<1>3. args \in Seq(Seq(Token)) /\ args[1] = <<"server">> /\ Len(args) \in Nat /\ Len(args) >= 1
  <2>1. args \in Seq(Seq(Token)) /\ args[1] = <<"server">> /\ Len(args) >= 1
    BY <1>1 DEF OnLine
  <2>2. QED  BY <2>1
<1>4. /\ pos \in [0..n -> Nat] /\ pos[0] = 2 /\ pos[n] = Len(args) + 1
      /\ \A i \in 1..n : /\ pos[i] = pos[i - 1] + Len(Arguments(ss[i]))
                         /\ pos[i - 1] \in 1..Len(args)
                         /\ StandAt(args, pos[i - 1], Arguments(ss[i]))
  BY <1>1 DEF OnLine
<1> HIDE DEF n
<1>5. PICK read :
        /\ parse_flags(args) = read[1][Default]
        /\ \A data \in Data : read[Len(args) + 1][data] = [ok |-> TRUE, data |-> data]
        /\ \A a \in 1..Len(args), data \in Data :
             read[a][data] = FlagStep(args, a, read[NextArg(args, a)], data)
  <2>1. args \in Seq(Seq(Token))  BY <1>3
  <2>2. QED  BY <2>1, FlagsUnfold
<1> DEFINE S == {m \in Nat : m <= n =>
                   \A data \in Data : GivenFrom(ss, n - m, data, read[pos[n - m]][data])}
<1>6. 0 \in S
  <2>1. ASSUME NEW data \in Data  PROVE GivenFrom(ss, n, data, read[pos[n]][data])
    <3>1. read[pos[n]][data] = [ok |-> TRUE, data |-> data]  BY <1>4, <1>5
    <3>2. ~ \E i \in n + 1..n : ~IsKnown(ss[i].id)  BY <1>2
    <3>3. \A i \in n + 1..n : FALSE  BY <1>2
    <3>4. GivenFrom(ss, n, data, [ok |-> TRUE, data |-> data])
      BY <3>2, <3>3 DEF GivenFrom, n
    <3>5. QED  BY <3>1, <3>4
  <2>2. n - 0 = n  BY <1>2
  <2>3. QED  BY <2>1, <2>2
<1>7. ASSUME NEW m \in Nat, m \in S  PROVE m + 1 \in S
  <2> SUFFICES ASSUME m + 1 <= n, NEW data \in Data
               PROVE  GivenFrom(ss, n - (m + 1), data, read[pos[n - (m + 1)]][data])
    OBVIOUS
  <2> DEFINE i == n - m
             s == ss[i]
             a == pos[i - 1]
  <2>1. i \in 1..n /\ i - 1 = n - (m + 1)  BY <1>2
  <2>2. \A d \in Data : GivenFrom(ss, i, d, read[pos[i]][d])
    <3>1. m <= n  BY <1>2
    <3>2. QED  BY <1>7, <3>1
  <2> HIDE DEF S, i
  <2>3. ProperSetting(s) /\ s.id \in Seq(Token) /\ s.value \in Seq(Token)
    BY <1>2, <2>1 DEF ProperSettings, ProperSetting, n
  <2>4. a \in 1..Len(args) /\ StandAt(args, a, Arguments(s))
        /\ pos[i] = a + Len(Arguments(s))
    BY <1>4, <2>1
  <2> HIDE DEF s, a
  <2>5. read[a][data] = FlagStep(args, a, read[NextArg(args, a)], data)
    BY <1>5, <2>4
  <2> DEFINE rest == read[NextArg(args, a)]
  <2>5a. Sets(s, args, a, rest, data)
    <3>1. args \in Seq(Seq(Token))  BY <1>3
    <3>2. ProperSetting(s) /\ a \in 1..Len(args) /\ StandAt(args, a, Arguments(s))
      BY <2>3, <2>4
    <3> HIDE DEF rest
    <3>3. QED  BY <3>1, <3>2, SettingRead
  <2>6. /\ ~IsKnown(s.id) => FlagStep(args, a, rest, data) = Refused
        /\ IsKnown(s.id) =>
             /\ FlagStep(args, a, rest, data) = rest[[data EXCEPT ![get(s.id)] = s.value]]
             /\ NextArg(args, a) = a + Len(Arguments(s))
    BY <2>5a DEF Sets
  <2>7. CASE ~IsKnown(s.id)
    <3>1. read[a][data] = Refused  BY <2>5, <2>6, <2>7
    <3>2. \E k \in i - 1 + 1..n : ~IsKnown(ss[k].id)
      <4>1. i \in i - 1 + 1..n  BY <1>2, <2>1
      <4>2. QED  BY <2>7, <4>1 DEF s
    <3>3. GivenFrom(ss, i - 1, data, Refused)  BY <3>2 DEF GivenFrom, n
    <3>4. QED  BY <2>1, <3>1, <3>3 DEF a
  <2>8. CASE IsKnown(s.id)
    <3> DEFINE d == [data EXCEPT ![get(s.id)] = s.value]
    <3>1. d \in Data
      <4>1. get(s.id) \in DOMAIN Type  BY <2>3, <2>8, AliasTypes
      <4>2. QED  BY <2>3, <4>1 DEF Data
    <3>2. read[a][data] = read[pos[i]][d]  BY <2>4, <2>5, <2>6, <2>8
    <3>3. GivenFrom(ss, i, d, read[a][data])
      <4> HIDE DEF d
      <4>1. QED  BY <2>2, <3>1, <3>2
    <3>4. GivenFrom(ss, i - 1, data, read[a][data])
      <4>1. i \in 1..Len(ss)  BY <2>1 DEF n
      <4>2. QED  BY <2>8, <3>3, <4>1, GivenStep DEF s
    <3>5. QED  BY <2>1, <3>4 DEF a
  <2>9. QED  BY <2>7, <2>8
<1>8. Nat \subseteq S
  <2> HIDE DEF S
  <2>1. QED  BY <1>6, <1>7, SetInduction
<1>9. n \in S /\ n - n = 0  BY <1>2, <1>8
<1>10. GivenFrom(ss, 0, Default, read[2][Default])  BY <1>2, <1>4, <1>9, FlagTypes
<1>11. read[1][Default] = read[2][Default]
  <2>1. ~is_flag(args[1])  BY <1>3 DEF is_flag
  <2>2. NextArg(args, 1) = 2  BY <2>1 DEF NextArg, Apart
  <2>3. 1 \in 1..Len(args)  BY <1>3
  <2>4. read[1][Default] = FlagStep(args, 1, read[2], Default)
    BY <1>5, <2>2, <2>3, FlagTypes
  <2>5. QED  BY <2>1, <2>4 DEF FlagStep
<1>12. QED  BY <1>5, <1>10, <1>11 DEF args

\* So the options are what they were given as, if no id is unknown.
LEMMA OptionsRead ==
  ASSUME NEW ss, ProperSettings(ss)
  PROVE  LET Of(flag) == {i \in DOMAIN ss : get(ss[i].id) = flag}
             Given(flag) == IF Of(flag) = {} THEN Default[flag]
                           ELSE ss[Max(Of(flag))].value
             r == parse_flags(LineOf(ss))
         IN  IF \E i \in DOMAIN ss : ~IsKnown(ss[i].id) THEN ~r.ok
             ELSE r.ok /\ r.data = [flag \in DOMAIN Type |-> Given(flag)]
<1> DEFINE Of(flag) == {i \in DOMAIN ss : get(ss[i].id) = flag}
           Given(flag) == IF Of(flag) = {} THEN Default[flag]
                         ELSE ss[Max(Of(flag))].value
           r == parse_flags(LineOf(ss))
           n == Len(ss)
<1>1. GivenFrom(ss, 0, Default, r)  BY LineRead
<1>2. n \in Nat /\ DOMAIN ss = 1..n  BY DEF ProperSettings
<1>3. 0 + 1..n = 1..n  BY <1>2
<1> HIDE DEF r, n
<1>4. CASE \E i \in 1..n : ~IsKnown(ss[i].id)
  <2>1. r = Refused  BY <1>1, <1>3, <1>4 DEF GivenFrom, n
  <2>2. ~r.ok  BY <2>1 DEF Refused
  <2>3. QED  BY <1>2, <1>4, <2>2 DEF r
<1>5. CASE ~ \E i \in 1..n : ~IsKnown(ss[i].id)
  <2>1. /\ r.ok /\ r.data \in Data
        /\ \A flag \in DOMAIN Type :
             /\ (\A i \in 1..n : get(ss[i].id) # flag) => r.data[flag] = Default[flag]
             /\ \A i \in 1..n :
                  /\ get(ss[i].id) = flag
                  /\ \A k \in i + 1..n : get(ss[k].id) # flag
                  => r.data[flag] = ss[i].value
    BY <1>1, <1>3, <1>5 DEF GivenFrom, n
  <2>2. ASSUME NEW flag \in DOMAIN Type  PROVE r.data[flag] = Given(flag)
    <3>1. CASE Of(flag) = {}
      <4>1. \A i \in 1..n : get(ss[i].id) # flag  BY <1>2, <3>1
      <4>2. QED  BY <2>1, <3>1, <4>1
    <3>2. CASE Of(flag) # {}
      <4> DEFINE T == Of(flag)
                 m == Max(T)
      <4>1. T \subseteq 0..n /\ T # {}  BY <1>2, <3>2
      <4>2. m \in T /\ \A y \in T : m >= y
        <5> HIDE DEF T
        <5>1. QED  BY <1>2, <4>1, MaxIs
      <4> HIDE DEF m
      <4>3. m \in 1..n /\ get(ss[m].id) = flag  BY <1>2, <4>2
      <4>4. \A k \in m + 1..n : get(ss[k].id) # flag
        <5> SUFFICES ASSUME NEW k \in m + 1..n, get(ss[k].id) = flag PROVE FALSE  OBVIOUS
        <5>1. k \in 1..n /\ k > m  BY <1>2, <4>3
        <5>2. k \in T  BY <1>2, <5>1
        <5>3. m >= k  BY <4>2, <5>2
        <5>4. QED  BY <4>3, <5>1, <5>3
      <4>5. r.data[flag] = ss[m].value  BY <2>1, <4>3, <4>4
      <4>6. QED  BY <3>2, <4>5 DEF m
    <3>3. QED  BY <3>1, <3>2
  <2>3. r.data = [flag \in DOMAIN Type |-> r.data[flag]]  BY <2>1 DEF Data
  <2>4. r.data = [flag \in DOMAIN Type |-> Given(flag)]
    <3> HIDE DEF Given
    <3>1. QED  BY <2>2, <2>3
  <2>5. QED  BY <1>2, <1>5, <2>1, <2>4 DEF r
<1>6. QED  BY <1>4, <1>5

\* advance_if stops at the first position that is not in S.
LEMMA PastIs ==
  ASSUME NEW Ch, NEW text \in Seq(Ch), NEW p \in 1..Len(text) + 1,
         NEW e \in p..Len(text) + 1, NEW S,
         \A q \in p..e - 1 : q \in S, e = Len(text) + 1 \/ e \notin S
  PROVE  Past(text, p, S) = e
<1> DEFINE n == Len(text) + 1
           M == {p, n}
           R == (p..Len(text)) \ S
           N == R \cup {Max(M)}
<1>1. Len(text) \in Nat /\ n \in Nat /\ p \in Nat /\ e \in Nat /\ p <= n /\ e <= n  OBVIOUS
<1>2. Max(M) = n
  <2>1. M \subseteq 0..n /\ M # {}  BY <1>1
  <2> HIDE DEF M, n
  <2>2. Max(M) \in M /\ \A y \in M : Max(M) >= y  BY <1>1, <2>1, MaxIs
  <2>3. Max(M) >= n /\ (Max(M) = p \/ Max(M) = n)  BY <2>2 DEF M
  <2>4. QED  BY <1>1, <2>3
<1>3. N \subseteq Nat /\ N # {}  BY <1>1, <1>2
<1>4. e \in N  BY <1>1, <1>2
<1>5. \A q \in N : q >= e
  <2> SUFFICES ASSUME NEW q \in N, q < e PROVE FALSE  BY <1>1, <1>2
  <2>1. q \in p..e - 1 /\ q \notin S  BY <1>1, <1>2
  <2>2. QED  BY <2>1
<1>6. Min(N) = e
  <2> HIDE DEF N
  <2>1. Min(N) \in N /\ \A y \in N : Min(N) <= y  BY <1>3, MinIs
  <2> DEFINE x == Min(N)
  <2> HIDE DEF x
  <2>2. x \in Nat /\ x <= e /\ x >= e
    <3>1. x \in N /\ x <= e  BY <1>4, <2>1 DEF x
    <3>2. QED  BY <1>3, <1>5, <3>1
  <2>3. QED  BY <1>1, <2>2 DEF x
<1>7. QED  BY <1>6 DEF Past

\* A function on 1..n is a sequence.
LEMMA FunSeq ==
  ASSUME NEW S, NEW n \in Nat, NEW f \in [1..n -> S]
  PROVE  f \in Seq(S) /\ Len(f) = n /\ DOMAIN f = 1..n
OBVIOUS

\* A part of a sequence.
LEMMA Portion ==
  ASSUME NEW E, NEW s \in Seq(E), NEW b \in Nat, NEW l \in Nat, b + l <= Len(s)
  PROVE  /\ SubSeq(s, b + 1, b + l) \in Seq(E) /\ Len(SubSeq(s, b + 1, b + l)) = l
         /\ \A k \in 1..l : SubSeq(s, b + 1, b + l)[k] = s[b + k]
<1>1. Len(s) \in Nat  OBVIOUS
<1>2. \A k \in b + 1..b + l : k \in 1..Len(s)  BY <1>1
<1>3. QED  BY <1>1, <1>2

-----------------------------------------------------------------------------
(* Words in quotes.                                                        *)

\* What the character at q adds to what is read from the next on.
Escaped(text, q) == text[q] = Backslash /\ q + 1 < Len(text)

\* The position that is looked at next.
QuotedNext(text, q) == IF Escaped(text, q) THEN q + 2 ELSE q + 1

\* What is read from q on, after being what is read from the next on.
QuotedStep(text, q, after) ==
  IF q > Len(text) \/ text[q] = Quote
  THEN [word |-> <<>>, next |-> q + 1]
  ELSE [after EXCEPT !.word =
         <<IF Escaped(text, q) THEN escape(text[q + 1]) ELSE text[q]>> \o @]

\* parse_quoted is its loop (aci/aci.cpp:997).
LEMMA QuotedUnfold ==
  ASSUME NEW Ch, NEW text \in Seq(Ch), NEW p \in 1..Len(text) + 1
  PROVE  \E read :
           /\ parse_quoted(text, p) = read[p]
           /\ \A q \in p..Len(text) + 1 :
                read[q] = QuotedStep(text, q, read[QuotedNext(text, q)])
<1> DEFINE n == Len(text) + 1
           All == Ch \cup {Newline, "\r", "\t", "backspace", "bell"}
           T == [word : Seq(All), next : Nat]
           c == [word |-> <<>>, next |-> n + 1]
           h == [q \in p..n |-> [t \in T |-> QuotedStep(text, q, t)]]
           next == [q \in p..n |-> QuotedNext(text, q)]
           Body(f) ==
             [q \in p..Len(text) + 1 |->
               IF q > Len(text) \/ text[q] = Quote
               THEN [word |-> <<>>, next |-> q + 1]
               ELSE LET escaped == text[q] = Backslash /\ q + 1 < Len(text)
                        after   == f[IF escaped THEN q + 2 ELSE q + 1]
                        ch      == IF escaped THEN escape(text[q + 1]) ELSE text[q]
                    IN  [after EXCEPT !.word = <<ch>> \o @]]
<1>0. /\ n \in Nat /\ Len(text) \in Nat /\ n = Len(text) + 1 /\ p \in Nat /\ p <= n
      /\ \A q \in 1..Len(text) : text[q] \in Ch
  OBVIOUS
<1> HIDE DEF n
<1>1. c \in T
  <2>1. n + 1 \in Nat  BY <1>0
  <2>2. QED  BY <2>1
<1>2. ASSUME NEW q \in p..n - 1, NEW t \in T  PROVE QuotedStep(text, q, t) \in T
  <2>1. q \in 1..Len(text) /\ q + 1 \in Nat  BY <1>0
  <2>2. q + 1 < Len(text) => q + 1 \in 1..Len(text)  BY <1>0
  <2>3. Escaped(text, q) => escape(text[q + 1]) \in All
    BY <1>0, <2>2 DEF Escaped, escape
  <2> DEFINE ch == IF Escaped(text, q) THEN escape(text[q + 1]) ELSE text[q]
  <2>4. ch \in All  BY <1>0, <2>1, <2>3
  <2> HIDE DEF ch, All
  <2>5. <<ch>> \o t.word \in Seq(All)
    <3>1. <<ch>> \in Seq(All) /\ t.word \in Seq(All)  BY <2>4
    <3>2. QED  BY <3>1
  <2>6. <<>> \in Seq(All)  OBVIOUS
  <2>7. [t EXCEPT !.word = <<ch>> \o @] \in T  BY <2>5
  <2>8. QED  BY <2>1, <2>6, <2>7 DEF QuotedStep, ch
<1>3. \A q \in p..n - 1, t \in T : h[q][t] = QuotedStep(text, q, t)
  <2>1. \A q \in p..n - 1 : q \in p..n  BY <1>0
  <2> HIDE DEF T
  <2>2. QED  BY <2>1
<1>4. \A q \in p..n - 1 : next[q] = QuotedNext(text, q) /\ next[q] \in q + 1..n
  <2> TAKE q \in p..n - 1
  <2>1. q \in p..n  BY <1>0
  <2>2. next[q] = QuotedNext(text, q)  BY <2>1
  <2>3. QED  BY <1>0, <2>2 DEF QuotedNext, Escaped
<1> HIDE DEF h, next, T
<1>5. PICK x \in [p..n -> T] : Jumps(x, c, h, next, p, n)
  <2>1. \A q \in p..n - 1, t \in T : h[q][t] \in T  BY <1>2, <1>3
  <2>2. \A q \in p..n - 1 : next[q] \in q + 1..n  BY <1>4
  <2> HIDE DEF c
  <2>3. QED  BY <1>0, <1>1, <2>1, <2>2, JumpingFunction
<1>6. \A q \in p..n : x[q] = IF q = n THEN c ELSE h[q][x[next[q]]]
  BY <1>5 DEF Jumps
<1>7. ASSUME NEW f, NEW q \in p..n
      PROVE  Body(f)[q] = QuotedStep(text, q, f[QuotedNext(text, q)])
  BY DEF n, QuotedStep, QuotedNext, Escaped
<1>8. x = Body(x)
  <2>1. ASSUME NEW q \in p..n  PROVE x[q] = Body(x)[q]
    <3>1. CASE q = n
      <4>1. QuotedStep(text, q, x[QuotedNext(text, q)]) = c
        BY <1>0, <3>1 DEF QuotedStep
      <4>2. x[q] = c  BY <1>6, <3>1
      <4> HIDE DEF Body, c
      <4>3. QED  BY <1>7, <4>1, <4>2
    <3>2. CASE q # n
      <4>1. q \in p..n - 1  BY <1>0, <3>2
      <4>2. next[q] \in p..n
        <5>1. next[q] \in q + 1..n  BY <1>4, <4>1
        <5>2. QED  BY <1>0, <4>1, <5>1
      <4>3. x[next[q]] \in T  BY <1>5, <4>2
      <4>4. x[q] = h[q][x[next[q]]]  BY <1>6, <3>2
      <4>5. x[q] = QuotedStep(text, q, x[next[q]])  BY <1>3, <4>1, <4>3, <4>4
      <4> HIDE DEF Body
      <4>6. Body(x)[q] = QuotedStep(text, q, x[QuotedNext(text, q)])  BY <1>7
      <4>7. next[q] = QuotedNext(text, q)  BY <1>4, <4>1
      <4>8. QED  BY <4>5, <4>6, <4>7
    <3>3. QED  BY <3>1, <3>2
  <2>2. DOMAIN x = p..n /\ x = [q \in p..n |-> x[q]]  BY <1>5
  <2>3. Body(x) = [q \in p..n |-> Body(x)[q]]  BY DEF n
  <2> HIDE DEF Body
  <2>4. QED  BY <2>1, <2>2, <2>3
<1> DEFINE g == CHOOSE y : y = Body(y)
<1>9. g = Body(g)
  <2> HIDE DEF Body
  <2>1. QED  BY <1>8, Zenon
<1>10. parse_quoted(text, p) = g[p]  BY Zenon DEF parse_quoted
<1>11. \A q \in p..n : g[q] = QuotedStep(text, q, g[QuotedNext(text, q)])
  <2> TAKE q \in p..n
  <2> HIDE DEF g, Body
  <2>1. g[q] = Body(g)[q]  BY <1>9
  <2>2. QED  BY <1>7, <2>1
<1>12. QED  BY <1>10, <1>11 DEF n

\* A set of characters with those that keep words apart and in quotes.
Characters(Ch) == {Quote, Backslash, Newline, "n", " "} \subseteq Ch

\* In text, s follows on the first b characters.
Holds(text, b, s) ==
  b + Len(s) <= Len(text) /\ \A k \in 1..Len(s) : text[b + k] = s[k]

\* A sequence of two.
LEMMA TwoSeq ==
  ASSUME NEW S, NEW x \in S, NEW y \in S
  PROVE  /\ <<x, y>> \in Seq(S) /\ Len(<<x, y>>) = 2
         /\ <<x, y>>[1] = x /\ <<x, y>>[2] = y
OBVIOUS

\* How a character is typed.
LEMMA TypedForm ==
  ASSUME NEW Ch, Characters(Ch), NEW ch \in Ch
  PROVE  /\ Typed(ch) \in Seq(Ch)
         /\ \/ /\ Len(Typed(ch)) = 2 /\ Typed(ch)[1] = Backslash
               /\ escape(Typed(ch)[2]) = ch
            \/ /\ Len(Typed(ch)) = 1 /\ Typed(ch)[1] = ch
               /\ ch # Quote /\ ch # Backslash
<1>1. {Quote, Backslash, Newline, "n", " "} \subseteq Ch  BY DEF Characters
<1>2. CASE ch \in {Quote, Backslash}
  <2>1. Typed(ch) = <<Backslash, ch>>
    <3>1. ch # Newline  BY <1>2 DEF Newline, Quote, Backslash
    <3>2. QED  BY <1>2, <3>1 DEF Typed
  <2>2. escape(ch) = ch  BY <1>2 DEF escape, Quote, Backslash
  <2>3. <<Backslash, ch>> \in Seq(Ch) /\ Len(<<Backslash, ch>>) = 2
        /\ <<Backslash, ch>>[1] = Backslash /\ <<Backslash, ch>>[2] = ch
    <3>1. Backslash \in Ch  BY <1>1
    <3>2. QED  BY <3>1, TwoSeq
  <2>4. QED  BY <2>1, <2>2, <2>3
<1>3. CASE ch = Newline
  <2>1. ch \notin {Quote, Backslash}  BY <1>3 DEF Newline, Quote, Backslash
  <2>2. Typed(ch) = <<Backslash, "n">>  BY <1>3, <2>1 DEF Typed
  <2>3. escape("n") = ch  BY <1>3 DEF escape
  <2>4. <<Backslash, "n">> \in Seq(Ch) /\ Len(<<Backslash, "n">>) = 2
        /\ <<Backslash, "n">>[1] = Backslash /\ <<Backslash, "n">>[2] = "n"
    <3>1. Backslash \in Ch /\ "n" \in Ch  BY <1>1
    <3>2. QED  BY <3>1, TwoSeq
  <2>5. QED  BY <2>2, <2>3, <2>4
<1>4. CASE ch \notin {Quote, Backslash} /\ ch # Newline
  <2>1. Typed(ch) = <<ch>>  BY <1>4 DEF Typed
  <2>2. QED  BY <1>4, <2>1
<1>5. QED  BY <1>2, <1>3, <1>4

\* How a word is quoted: what is typed for the i-th character begins behind
\* pos[i - 1] + 1 characters.
QuotedAs(word, s, pos) ==
  /\ pos \in [0..Len(word) -> Nat] /\ pos[0] = 0
  /\ Len(s) = pos[Len(word)] + 2 /\ s[1] = Quote /\ s[Len(s)] = Quote
  /\ \A i \in 1..Len(word) :
       /\ pos[i] = pos[i - 1] + Len(Typed(word[i]))
       /\ pos[i] <= pos[Len(word)]
       /\ \A k \in 1..Len(Typed(word[i])) : s[1 + pos[i - 1] + k] = Typed(word[i])[k]

\* A word in quotes has such places.
LEMMA QuotedForm ==
  ASSUME NEW Ch, Characters(Ch), NEW word \in Seq(Ch)
  PROVE  Quoted(word) \in Seq(Ch) /\ \E pos : QuotedAs(word, Quoted(word), pos)
<1> DEFINE m == Len(word)
           parts == [i \in DOMAIN word |-> Typed(word[i])]
           t == FlattenSeq(parts)
           q == <<Quote>>
           s == q \o t
           r == s \o q
<1>1. m \in Nat /\ DOMAIN word = 1..m  OBVIOUS
<1>2. \A i \in 1..m : Typed(word[i]) \in Seq(Ch)  BY TypedForm
<1>3. q \in Seq(Ch) /\ Len(q) = 1 /\ q[1] = Quote  BY OneSeq DEF Characters
<1>4. parts \in Seq(Seq(Ch)) /\ Len(parts) = m
      /\ \A i \in 1..m : parts[i] = Typed(word[i])
  <2>1. parts \in [1..m -> Seq(Ch)]  BY <1>1, <1>2
  <2>2. \A i \in 1..m : parts[i] = Typed(word[i])  BY <1>1
  <2> HIDE DEF parts, m
  <2>3. DOMAIN parts = 1..m /\ parts \in Seq(Seq(Ch))  BY <1>1, <2>1
  <2>4. QED  BY <1>1, <2>2, <2>3
<1> HIDE DEF parts, m, q
<1>5. t \in Seq(Ch)
  <2>1. parts \in Seq(Seq(Ch))  BY <1>4
  <2>2. QED  BY <2>1, FlattenType
<1>6. PICK pos : FlatAt(parts, t, pos)
  <2>1. parts \in Seq(Seq(Ch))  BY <1>4
  <2>2. QED  BY <2>1, FlattenPlaces
<1> HIDE DEF t
<1>7. /\ pos \in [0..m -> Nat] /\ pos[0] = 0 /\ Len(t) = pos[m]
      /\ \A i \in 1..m : pos[i] = pos[i - 1] + Len(Typed(word[i]))
      /\ \A i \in 0..m : pos[i] <= Len(t)
      /\ \A i \in 1..m : \A k \in 1..Len(Typed(word[i])) :
            t[pos[i - 1] + k] = Typed(word[i])[k]
  <2>1. \A i \in 1..m : pos[i] = pos[i - 1] + Len(parts[i])  BY <1>4, <1>6 DEF FlatAt
  <2>2. \A i \in 1..m : \A k \in 1..Len(parts[i]) : t[pos[i - 1] + k] = parts[i][k]
    BY <1>4, <1>6 DEF FlatAt
  <2>3. /\ pos \in [0..m -> Nat] /\ pos[0] = 0 /\ Len(t) = pos[m]
        /\ \A i \in 0..m : pos[i] <= Len(t)
    BY <1>4, <1>6 DEF FlatAt
  <2>4. QED  BY <1>4, <2>1, <2>2, <2>3
<1>8. /\ s \in Seq(Ch) /\ Len(s) = 1 + Len(t) /\ s[1] = Quote
      /\ \A k \in 1..Len(t) : s[1 + k] = t[k]
  <2>1. q \in Seq(Ch) /\ t \in Seq(Ch)  BY <1>3, <1>5
  <2>2. /\ s \in Seq(Ch) /\ Len(s) = Len(q) + Len(t)
        /\ \A k \in 1..Len(q) : s[k] = q[k]
        /\ \A k \in 1..Len(t) : s[Len(q) + k] = t[k]
    BY <2>1, Joined
  <2> HIDE DEF s
  <2>3. QED  BY <1>3, <2>2
<1> HIDE DEF s
<1>9. /\ r \in Seq(Ch) /\ Len(r) = Len(s) + 1 /\ r[Len(s) + 1] = Quote
      /\ \A k \in 1..Len(s) : r[k] = s[k]
  <2>1. q \in Seq(Ch) /\ s \in Seq(Ch)  BY <1>3, <1>8
  <2>2. /\ r \in Seq(Ch) /\ Len(r) = Len(s) + Len(q)
        /\ \A k \in 1..Len(s) : r[k] = s[k]
        /\ \A k \in 1..Len(q) : r[Len(s) + k] = q[k]
    BY <2>1, Joined
  <2> HIDE DEF r
  <2>3. QED  BY <1>3, <2>2
<1> HIDE DEF r
<1>10. Len(t) \in Nat /\ Len(s) \in Nat  BY <1>5, <1>8
<1>11. Len(r) = pos[m] + 2 /\ r[1] = Quote /\ r[Len(r)] = Quote
  <2>1. 1 \in 1..Len(s)  BY <1>8, <1>10
  <2>2. QED  BY <1>7, <1>8, <1>9, <1>10, <2>1
<1>12. ASSUME NEW i \in 1..m
       PROVE  /\ pos[i] <= pos[m]
              /\ \A k \in 1..Len(Typed(word[i])) :
                   r[1 + pos[i - 1] + k] = Typed(word[i])[k]
  <2>1. i \in 0..m /\ i - 1 \in 0..m  BY <1>1
  <2>2. pos[i] \in Nat /\ pos[i - 1] \in Nat /\ pos[i] <= Len(t) /\ Len(t) = pos[m]
    BY <1>7, <2>1
  <2> DEFINE l == Len(Typed(word[i]))
             own == Typed(word[i])
  <2>3. l \in Nat /\ pos[i] = pos[i - 1] + l /\ \A k \in 1..l : t[pos[i - 1] + k] = own[k]
    BY <1>2, <1>7
  <2> HIDE DEF l, own
  <2>4. ASSUME NEW k \in 1..l  PROVE r[1 + pos[i - 1] + k] = own[k]
    <3>0. pos[i - 1] \in Nat /\ pos[i - 1] + l <= Len(t) /\ Len(s) = 1 + Len(t)
      BY <1>8, <2>2, <2>3
    <3>1. pos[i - 1] + k \in 1..Len(t) /\ 1 + pos[i - 1] + k = 1 + (pos[i - 1] + k)
          /\ 1 + (pos[i - 1] + k) \in 1..Len(s)
      BY <1>10, <2>3, <3>0
    <3>2. r[1 + (pos[i - 1] + k)] = s[1 + (pos[i - 1] + k)]  BY <1>9, <3>1
    <3>3. s[1 + (pos[i - 1] + k)] = t[pos[i - 1] + k]  BY <1>8, <3>1
    <3>4. QED  BY <2>3, <3>1, <3>2, <3>3
  <2>5. QED  BY <2>2, <2>4 DEF l, own
<1>13. QuotedAs(word, r, pos)  BY <1>7, <1>11, <1>12 DEF QuotedAs, m
<1>14. r = Quoted(word)  BY DEF r, s, t, parts, q, Quoted
<1>15. QED  BY <1>9, <1>13, <1>14

\* A sequence with one element more in front.
LEMMA FrontOf ==
  ASSUME NEW E, NEW s \in Seq(E), NEW i \in 1..Len(s)
  PROVE  /\ SubSeq(s, i, Len(s)) = <<s[i]>> \o SubSeq(s, i + 1, Len(s))
         /\ SubSeq(s, Len(s) + 1, Len(s)) = <<>> /\ SubSeq(s, 1, Len(s)) = s
         /\ SubSeq(s, i + 1, Len(s)) \in Seq(E)
<1> DEFINE t == SubSeq(s, i + 1, Len(s))
           u == SubSeq(s, i, Len(s))
           v == <<s[i]>>
<1>1. Len(s) \in Nat /\ s[i] \in E  OBVIOUS
<1>2. t \in Seq(E) /\ Len(t) = Len(s) - i /\ \A k \in 1..Len(s) - i : t[k] = s[i + k]
  <2>1. i + 1 <= Len(s) + 1 /\ i + 1 >= 1  BY <1>1
  <2>2. QED  BY <1>1, <2>1
<1>3. u \in Seq(E) /\ Len(u) = Len(s) - i + 1
      /\ \A k \in 1..Len(s) - i + 1 : u[k] = s[i + k - 1]
  BY <1>1
<1>4. v \in Seq(E) /\ Len(v) = 1 /\ v[1] = s[i]  BY <1>1
<1> HIDE DEF t, u, v
<1>5. /\ v \o t \in Seq(E) /\ Len(v \o t) = Len(v) + Len(t)
      /\ \A k \in 1..Len(v) : (v \o t)[k] = v[k]
      /\ \A k \in 1..Len(t) : (v \o t)[Len(v) + k] = t[k]
  <2>1. v \in Seq(E) /\ t \in Seq(E)  BY <1>2, <1>4
  <2>2. QED  BY <2>1, Joined
<1> DEFINE w == v \o t
<1>6. /\ w \in Seq(E) /\ Len(w) = Len(u) /\ w[1] = s[i]
      /\ \A k \in 1..Len(s) - i : w[1 + k] = s[i + k]
  BY <1>1, <1>2, <1>3, <1>4, <1>5
<1> HIDE DEF w
<1>7. \A k \in 1..Len(u) : u[k] = w[k]
  <2> TAKE k \in 1..Len(u)
  <2>1. CASE k = 1
    <3>1. u[1] = s[i + 1 - 1] /\ i + 1 - 1 = i  BY <1>1, <1>3, <2>1
    <3>2. QED  BY <1>6, <2>1, <3>1
  <2>2. CASE k # 1
    <3>1. k - 1 \in 1..Len(s) - i /\ 1 + (k - 1) = k /\ i + (k - 1) = i + k - 1
      BY <1>1, <1>3, <2>2
    <3>2. w[k] = s[i + k - 1]  BY <1>6, <3>1
    <3>3. QED  BY <1>3, <3>2
  <2>3. QED  BY <2>1, <2>2
<1>8. u = w  BY <1>3, <1>6, <1>7, SeqEqual
<1>9. SubSeq(s, Len(s) + 1, Len(s)) = <<>> /\ SubSeq(s, 1, Len(s)) = s  BY <1>1
<1>10. QED  BY <1>2, <1>8, <1>9 DEF t, u, v, w

\* A word in quotes is read as it was (aci/aci.cpp:997).
LEMMA QuotedBack ==
  ASSUME NEW Ch, Characters(Ch), NEW text \in Seq(Ch), NEW word \in Seq(Ch),
         NEW b \in Nat, Holds(text, b, Quoted(word))
  PROVE  parse_quoted(text, b + 2) = [word |-> word, next |-> b + Len(Quoted(word)) + 1]
<1> DEFINE s == Quoted(word)
           m == Len(word)
<1>1. s \in Seq(Ch)  BY QuotedForm
<1>2. PICK pos : QuotedAs(word, s, pos)  BY QuotedForm
<1>3. b + Len(s) <= Len(text) /\ \A k \in 1..Len(s) : text[b + k] = s[k]
  BY DEF Holds
<1> HIDE DEF s
<1>4. m \in Nat /\ Len(s) \in Nat /\ Len(text) \in Nat  BY <1>1
<1>5. /\ pos \in [0..m -> Nat] /\ pos[0] = 0
      /\ Len(s) = pos[m] + 2 /\ s[1] = Quote /\ s[Len(s)] = Quote
      /\ \A i \in 1..m :
           /\ pos[i] = pos[i - 1] + Len(Typed(word[i]))
           /\ pos[i] <= pos[m]
           /\ \A k \in 1..Len(Typed(word[i])) : s[1 + pos[i - 1] + k] = Typed(word[i])[k]
  BY <1>2 DEF QuotedAs
<1>6. \A i \in 1..m : word[i] \in Ch  OBVIOUS
<1> DEFINE M == pos[m]
<1>7. pos[m] \in Nat /\ m \in 0..m  BY <1>4, <1>5
<1>8. b + pos[m] + 2 <= Len(text)  BY <1>3, <1>5
<1>9. PICK read :
        /\ parse_quoted(text, b + 2) = read[b + 2]
        /\ \A q \in b + 2..Len(text) + 1 :
             read[q] = QuotedStep(text, q, read[QuotedNext(text, q)])
  <2>1. b + 2 \in 1..Len(text) + 1  BY <1>4, <1>7, <1>8
  <2> DEFINE p == b + 2
  <2>2. p \in 1..Len(text) + 1  BY <2>1
  <2> HIDE DEF p
  <2>3. \E read :
           /\ parse_quoted(text, p) = read[p]
           /\ \A q \in p..Len(text) + 1 :
                read[q] = QuotedStep(text, q, read[QuotedNext(text, q)])
    BY <2>2, QuotedUnfold
  <2>4. QED  BY <2>3 DEF p
<1> HIDE DEF m
<1> DEFINE end == b + pos[m] + 3
           S == {j \in Nat : j <= m =>
                   read[b + 2 + pos[m - j]] = [word |-> SubSeq(word, m - j + 1, m), next |-> end]}
<1>10. 0 \in S
  <2> DEFINE q == b + 2 + pos[m]
  <2>1. q \in b + 2..Len(text) + 1 /\ ~(q > Len(text)) /\ q = b + (pos[m] + 2)
        /\ q + 1 = end
    BY <1>4, <1>7, <1>8
  <2>2. text[q] = Quote
    <3>1. Len(s) \in 1..Len(s) /\ q = b + Len(s)  BY <1>4, <1>5, <1>7, <2>1
    <3>2. QED  BY <1>3, <1>5, <3>1
  <2> HIDE DEF q, end
  <2>3. read[q] = [word |-> <<>>, next |-> q + 1]  BY <1>9, <2>1, <2>2 DEF QuotedStep
  <2>4. SubSeq(word, m + 1, m) = <<>>  BY <1>4 DEF m
  <2>5. m - 0 = m  BY <1>4
  <2>6. QED  BY <2>1, <2>3, <2>4, <2>5 DEF q
<1>11. ASSUME NEW j \in Nat, j \in S  PROVE j + 1 \in S
  <2> SUFFICES ASSUME j + 1 <= m
               PROVE  read[b + 2 + pos[m - (j + 1)]]
                        = [word |-> SubSeq(word, m - (j + 1) + 1, m), next |-> end]
    OBVIOUS
  <2> DEFINE i == m - j
             q == b + 2 + pos[i - 1]
             ch == word[i]
             own == Typed(ch)
             rest == SubSeq(word, i + 1, m)
  <2>1. /\ i \in 1..m /\ i - 1 = m - (j + 1) /\ m - (j + 1) + 1 = i
        /\ i - 1 \in 0..m /\ i \in 0..m
    BY <1>4
  <2>2. read[b + 2 + pos[i]] = [word |-> rest, next |-> end]
    <3>1. j <= m  BY <1>4
    <3>2. QED  BY <1>11, <3>1
  <2> HIDE DEF S, i
  <2>3. ch \in Ch  BY <1>6, <2>1
  <2> HIDE DEF ch
  <2>4. /\ own \in Seq(Ch)
        /\ \/ Len(own) = 2 /\ own[1] = Backslash /\ escape(own[2]) = ch
           \/ Len(own) = 1 /\ own[1] = ch /\ ch # Quote /\ ch # Backslash
    BY <2>3, TypedForm
  <2>5. /\ pos[i] = pos[i - 1] + Len(own) /\ pos[i] <= pos[m]
        /\ \A k \in 1..Len(own) : s[1 + pos[i - 1] + k] = own[k]
    BY <1>5, <2>1 DEF ch
  <2> HIDE DEF own
  <2>6. pos[i - 1] \in Nat /\ pos[i] \in Nat  BY <1>5, <2>1
  <2> DEFINE l == Len(own)
             x == pos[i - 1]
             L == Len(text)
  <2>7. (l = 1 \/ l = 2) /\ l \in Nat
    <3>1. Len(own) = 1 \/ Len(own) = 2  BY <2>4
    <3>2. QED  BY <3>1
  <2>7a. /\ pos[i] = x + l /\ x + l <= M /\ x \in Nat /\ M \in Nat /\ L \in Nat
         /\ b + M + 2 <= L /\ q = b + 2 + x
    BY <1>4, <1>7, <1>8, <2>5, <2>6
  <2> HIDE DEF l, x, L, M
  <2>7b. /\ q \in b + 2..L + 1 /\ ~(q > L) /\ q \in Nat
         /\ l = 2 => q + 1 < L
         /\ b + 2 + pos[i] = q + l
    BY <2>7, <2>7a
  <2>8. /\ q \in b + 2..Len(text) + 1 /\ ~(q > Len(text)) /\ q \in Nat
        /\ Len(own) = 2 => q + 1 < Len(text)
        /\ b + 2 + pos[i] = q + Len(own)
    BY <2>7b DEF l, L
  <2>9. \A k \in 1..Len(own) : text[q + k - 1] = own[k]
    <3> TAKE k \in 1..Len(own)
    <3>0. k \in 1..l /\ Len(s) = M + 2  BY <1>5 DEF l, M
    <3>a. 1 + x + k \in 1..M + 2 /\ b + (1 + x + k) = q + k - 1  BY <2>7, <2>7a, <3>0
    <3>1. 1 + pos[i - 1] + k \in 1..Len(s) /\ b + (1 + pos[i - 1] + k) = q + k - 1
      BY <3>0, <3>a DEF x
    <3>2. text[b + (1 + pos[i - 1] + k)] = s[1 + pos[i - 1] + k]  BY <1>3, <3>1
    <3>3. QED  BY <2>5, <3>1, <3>2
  <2> HIDE DEF q
  <2>10. read[q] = QuotedStep(text, q, read[QuotedNext(text, q)])  BY <1>9, <2>8
  <2>11. text[q] = own[1]
    <3>1. 1 \in 1..l /\ q + 1 - 1 = q  BY <2>7, <2>7b
    <3>2. QED  BY <2>9, <3>1 DEF l
  <2> HIDE DEF end, rest
  <2>12. read[q] = [word |-> <<ch>> \o rest, next |-> end]
    <3>1. CASE Len(own) = 2 /\ own[1] = Backslash /\ escape(own[2]) = ch
      <4>1. text[q + 1] = own[2]
        <5>1. l = 2  BY <3>1 DEF l
        <5>2. 2 \in 1..l /\ q + 2 - 1 = q + 1  BY <2>7b, <5>1
        <5>3. QED  BY <2>9, <5>2 DEF l
      <4>2. Escaped(text, q)  BY <2>8, <2>11, <3>1 DEF Escaped
      <4>3. read[QuotedNext(text, q)] = [word |-> rest, next |-> end]
        BY <2>2, <2>8, <3>1, <4>2 DEF QuotedNext
      <4>4. text[q] # Quote  BY <2>11, <3>1 DEF Quote, Backslash
      <4>5. read[q] = [[word |-> rest, next |-> end] EXCEPT !.word = <<ch>> \o @]
        BY <2>8, <2>10, <3>1, <4>1, <4>2, <4>3, <4>4 DEF QuotedStep
      <4>6. QED  BY <4>5
    <3>2. CASE Len(own) = 1 /\ own[1] = ch /\ ch # Quote /\ ch # Backslash
      <4>1. ~Escaped(text, q) /\ text[q] = ch  BY <2>11, <3>2 DEF Escaped
      <4>2. read[QuotedNext(text, q)] = [word |-> rest, next |-> end]
        BY <2>2, <2>8, <3>2, <4>1 DEF QuotedNext
      <4>3. read[q] = [[word |-> rest, next |-> end] EXCEPT !.word = <<ch>> \o @]
        BY <2>8, <2>10, <3>2, <4>1, <4>2 DEF QuotedStep
      <4>4. QED  BY <4>3
    <3>3. QED  BY <2>4, <3>1, <3>2
  <2>13. SubSeq(word, i, m) = <<ch>> \o rest
    BY <2>1, FrontOf DEF m, ch, rest
  <2>14. QED  BY <2>1, <2>12, <2>13 DEF q
<1>12. Nat \subseteq S
  <2> HIDE DEF S
  <2>1. QED  BY <1>10, <1>11, SetInduction
<1>13. m \in S /\ m - m = 0
  <2> HIDE DEF S
  <2>1. QED  BY <1>4, <1>12
<1>14. read[b + 2] = [word |-> SubSeq(word, 1, m), next |-> end]
  <2>1. b + 2 + pos[m - m] = b + 2 /\ m - m + 1 = 1 /\ m <= m  BY <1>4, <1>5, <1>13
  <2> HIDE DEF end
  <2>2. QED  BY <1>13, <2>1
<1>15. SubSeq(word, 1, m) = word  BY <1>4 DEF m
<1>16. end = b + Len(s) + 1  BY <1>5, <1>7
<1>17. QED  BY <1>9, <1>14, <1>15, <1>16 DEF s

-----------------------------------------------------------------------------
(* Words.                                                                  *)

\* How a word may be written.
Spells(word, s) == (Bare(word) /\ s = word) \/ s = Quoted(word)

\* White space from p to b.
Blank(text, p, b) == \A q \in p..b : Unimportant(text[q])

\* White space or the end behind b characters.
Cut(text, b) == b = Len(text) \/ Unimportant(text[b + 1])

\* GoesOn white space, in front of white space or the end, a word is read as it
\* was (aci/aci.cpp:1025).
LEMMA WordRead ==
  ASSUME NEW Ch, Characters(Ch), NEW text \in Seq(Ch), NEW word \in Seq(Ch), NEW s,
         Spells(word, s), NEW p \in 1..Len(text), NEW b \in p - 1..Len(text),
         Blank(text, p, b), Holds(text, b, s), Cut(text, b + Len(s))
  PROVE  /\ parse_arg(text, p) = [word |-> word, next |-> b + Len(s) + 1]
         /\ Len(s) \in Nat /\ Len(s) >= 1 /\ b + Len(s) <= Len(text)
<1> DEFINE U == UnimportantIn(text)
<1>1. /\ Len(text) \in Nat /\ p \in Nat /\ b \in Nat /\ DOMAIN text = 1..Len(text)
      /\ b >= p - 1 /\ p >= 1 /\ b <= Len(text)
  OBVIOUS
<1>2. b + Len(s) <= Len(text) /\ \A k \in 1..Len(s) : text[b + k] = s[k]
  BY DEF Holds
<1>3. s \in Seq(Ch)  BY QuotedForm DEF Spells
<1>4. Len(s) \in Nat /\ Len(s) >= 1 /\ (s[1] = Quote \/ Bare(word))
      /\ ~Unimportant(s[1]) /\ (Bare(word) /\ s = word => s[1] # Quote)
      /\ (s = Quoted(word) => s[1] = Quote)
  <2>1. Len(s) \in Nat  BY <1>3
  <2>2. CASE Bare(word) /\ s = word
    <3>1. word # <<>> /\ 1 \in DOMAIN word /\ Len(word) >= 1  BY <2>2 DEF Bare
    <3>2. ~Unimportant(word[1]) /\ word[1] # Quote  BY <2>2, <3>1 DEF Bare
    <3>3. s = Quoted(word) => s[1] = Quote
      <4> SUFFICES ASSUME s = Quoted(word) PROVE s[1] = Quote  OBVIOUS
      <4>1. PICK pos : QuotedAs(word, Quoted(word), pos)  BY QuotedForm
      <4>2. QED  BY <4>1 DEF QuotedAs
    <3>4. QED  BY <2>1, <2>2, <3>1, <3>2, <3>3
  <2>3. CASE s = Quoted(word)
    <3>1. PICK pos : QuotedAs(word, s, pos)  BY <2>3, QuotedForm
    <3>2. /\ s[1] = Quote /\ Len(s) = pos[Len(word)] + 2 /\ pos \in [0..Len(word) -> Nat]
      BY <3>1 DEF QuotedAs
    <3>3. Len(word) \in 0..Len(word)  OBVIOUS
    <3>4. pos[Len(word)] \in Nat  BY <3>2, <3>3
    <3>5. Len(s) >= 1  BY <3>2, <3>4
    <3>6. ~Unimportant(Quote)  BY DEF Unimportant, Quote, Newline
    <3>7. Bare(word) /\ s = word => FALSE
      <4> SUFFICES ASSUME Bare(word), s = word PROVE FALSE  OBVIOUS
      <4>1. word[1] # Quote  BY DEF Bare
      <4>2. QED  BY <3>2, <4>1
    <3>8. QED  BY <2>1, <3>2, <3>5, <3>6, <3>7
  <2>4. QED  BY <2>2, <2>3 DEF Spells
<1> DEFINE L == Len(text)
           l == Len(s)
<1>a. /\ L \in Nat /\ p \in Nat /\ b \in Nat /\ b >= p - 1 /\ p >= 1 /\ b <= L
      /\ l \in Nat /\ l >= 1 /\ b + l <= L
  BY <1>1, <1>2, <1>4
<1> HIDE DEF L, l
<1>b. /\ b + 1 \in 1..L /\ b + 1 \in p..L + 1 /\ p \in 1..L + 1 /\ b + 1 \in 1..L + 1
      /\ ~(b + 1 > L) /\ b + 1 <= L /\ b + 1 + 1 = b + 2 /\ 1 \in 1..l
      /\ b + l + 1 \in b + 1..L + 1 /\ b + l + 1 - 1 = b + l
      /\ \A q \in p..b + 1 - 1 : q \in p..b /\ q \in 1..L
      /\ \A q \in b + 1..b + l + 1 - 1 :
           q - b \in 1..l /\ b + (q - b) = q /\ q \in 1..L
  BY <1>a
<1>5. b + 1 \in 1..Len(text) /\ b + 1 \in p..Len(text) + 1  BY <1>b DEF L
<1>6. text[b + 1] = s[1]
  <2>1. 1 \in 1..Len(s)  BY <1>b DEF l
  <2>2. QED  BY <1>2, <2>1
<1>7. Past(text, p, U) = b + 1
  <2>1. \A q \in p..b + 1 - 1 : q \in U
    <3> TAKE q \in p..b + 1 - 1
    <3>1. q \in p..b /\ q \in 1..Len(text)  BY <1>b DEF L
    <3>2. QED  BY <1>1, <3>1 DEF UnimportantIn, Blank
  <2>2. b + 1 \notin U  BY <1>4, <1>6 DEF UnimportantIn
  <2> DEFINE e == b + 1
  <2>3. e \in p..Len(text) + 1 /\ p \in 1..Len(text) + 1  BY <1>b DEF L
  <2> HIDE DEF e, U
  <2>4. \A q \in p..e - 1 : q \in U  BY <2>1 DEF e
  <2>5. e \notin U  BY <2>2 DEF e
  <2>6. Past(text, p, U) = e  BY <2>3, <2>4, <2>5, PastIs
  <2>7. QED  BY <2>6 DEF e
<1> DEFINE last == Past(text, b + 1, DOMAIN text \ U)
<1>8. parse_arg(text, p) =
        IF s[1] = Quote THEN parse_quoted(text, b + 2)
        ELSE [word |-> SubSeq(text, b + 1, last - 1), next |-> last]
  <2>1. ~(b + 1 > Len(text)) /\ b + 1 <= Len(text) /\ b + 1 + 1 = b + 2  BY <1>b DEF L
  <2> HIDE DEF U
  <2>2. parse_arg(text, p) =
          CASE b + 1 > Len(text) -> None
            [] b + 1 <= Len(text) /\ text[b + 1] = Quote -> parse_quoted(text, b + 1 + 1)
            [] OTHER -> [word |-> SubSeq(text, b + 1, last - 1), next |-> last]
    BY <1>7, Zenon DEF parse_arg, U
  <2> HIDE DEF last
  <2>3. CASE s[1] = Quote
    <3>1. text[b + 1] = Quote  BY <1>6, <2>3
    <3>2. QED  BY <2>1, <2>2, <2>3, <3>1, Zenon
  <2>4. CASE s[1] # Quote
    <3>1. text[b + 1] # Quote  BY <1>6, <2>4
    <3>2. QED  BY <2>1, <2>2, <2>4, <3>1, Zenon
  <2>5. QED  BY <2>3, <2>4
<1>9. CASE s = Quoted(word)
  <2>1. parse_quoted(text, b + 2) = [word |-> word, next |-> b + Len(s) + 1]
    BY <1>1, <1>9, QuotedBack
  <2>2. QED  BY <1>2, <1>4, <1>8, <1>9, <2>1
<1>10. CASE Bare(word) /\ s = word
  <2> DEFINE e == b + Len(s) + 1
             V == DOMAIN text \ U
  <2>1. b + 1 \in 1..Len(text) + 1 /\ e \in b + 1..Len(text) + 1  BY <1>b DEF L, l
  <2>2. \A q \in b + 1..e - 1 : q \in V
    <3> TAKE q \in b + 1..e - 1
    <3>1. q - b \in 1..Len(s) /\ b + (q - b) = q /\ q \in 1..Len(text)
      BY <1>b DEF L, l
    <3>2. text[q] = s[q - b]  BY <1>2, <3>1
    <3>3. ~Unimportant(s[q - b])  BY <1>10, <3>1 DEF Bare
    <3>4. QED  BY <1>1, <3>1, <3>2, <3>3 DEF UnimportantIn
  <2>3. e = Len(text) + 1 \/ e \notin V
    <3>1. CASE b + Len(s) = Len(text)  BY <3>1
    <3>2. CASE Unimportant(text[e])  BY <3>2 DEF UnimportantIn
    <3>3. QED  BY <3>1, <3>2 DEF Cut
  <2> DEFINE c == b + 1
  <2> HIDE DEF e, V
  <2>4. c \in 1..Len(text) + 1 /\ e \in c..Len(text) + 1 /\ \A q \in c..e - 1 : q \in V
    BY <2>1, <2>2
  <2> HIDE DEF c
  <2>5. Past(text, c, V) = e  BY <2>3, <2>4, PastIs
  <2>6. last = e  BY <2>5 DEF c, V
  <2> DEFINE t == SubSeq(text, b + 1, e - 1)
  <2>7. e - 1 = b + Len(s)  BY <1>b DEF e, l
  <2>8. t \in Seq(Ch) /\ Len(t) = Len(s) /\ \A k \in 1..Len(s) : t[k] = text[b + k]
    <3>1. b + l <= Len(text)  BY <1>a DEF L
    <3>2. /\ SubSeq(text, b + 1, b + l) \in Seq(Ch) /\ Len(SubSeq(text, b + 1, b + l)) = l
          /\ \A k \in 1..l : SubSeq(text, b + 1, b + l)[k] = text[b + k]
      BY <1>a, <3>1, Portion
    <3>3. QED  BY <2>7, <3>2 DEF l
  <2> HIDE DEF t
  <2>9. t = s  BY <1>2, <1>3, <2>8, SeqEqual
  <2>10. s[1] # Quote  BY <1>4, <1>10
  <2>11. parse_arg(text, p) = [word |-> t, next |-> e]  BY <1>8, <2>6, <2>10 DEF t
  <2>12. QED  BY <1>2, <1>4, <1>10, <2>9, <2>11 DEF e
<1>11. QED  BY <1>9, <1>10 DEF Spells

-----------------------------------------------------------------------------
(* How far is read.                                                        *)

\* Past leads to a place outside of S or behind the text.
LEMMA PastRange ==
  ASSUME NEW Ch, NEW text \in Seq(Ch), NEW p \in 1..Len(text) + 1, NEW S
  PROVE  /\ Past(text, p, S) \in p..Len(text) + 1
         /\ Past(text, p, S) = Len(text) + 1 \/ Past(text, p, S) \notin S
<1> DEFINE n == Len(text) + 1
           M == {p, n}
           R == (p..Len(text)) \ S
           N == R \cup {Max(M)}
<1>1. Len(text) \in Nat /\ n \in Nat /\ p \in Nat /\ p <= n /\ p >= 1  OBVIOUS
<1>2. Max(M) = n
  <2>1. M \subseteq 0..n /\ M # {}  BY <1>1
  <2> HIDE DEF M, n
  <2>2. Max(M) \in M /\ \A y \in M : Max(M) >= y  BY <1>1, <2>1, MaxIs
  <2>3. Max(M) >= n /\ (Max(M) = p \/ Max(M) = n)  BY <2>2 DEF M
  <2>4. QED  BY <1>1, <2>3
<1>3. N \subseteq Nat /\ N # {}  BY <1>1, <1>2
<1>4. Min(N) \in N
  <2> HIDE DEF N
  <2>1. QED  BY <1>3, MinIs
<1>5. \A e \in N : e \in p..n /\ (e = n \/ e \notin S)  BY <1>1, <1>2
<1>6. Past(text, p, S) \in N
  <2> HIDE DEF N
  <2>1. QED  BY <1>4 DEF Past, N, R, M, n
<1>7. QED  BY <1>5, <1>6

\* A word in quotes ends behind its opening quote, at most one behind the text's
\* end.
LEMMA QuotedRange ==
  ASSUME NEW Ch, NEW text \in Seq(Ch), NEW p \in 1..Len(text) + 1
  PROVE  parse_quoted(text, p).next \in p + 1..Len(text) + 2
<1> DEFINE n == Len(text) + 1
<1>1. PICK read :
        /\ parse_quoted(text, p) = read[p]
        /\ \A q \in p..n : read[q] = QuotedStep(text, q, read[QuotedNext(text, q)])
  BY QuotedUnfold
<1> DEFINE S == {q \in p..n : \E w, i : i \in q + 1..n + 1 /\ read[q] = [word |-> w, next |-> i]}
<1>2. p \in Nat /\ n \in Nat /\ p <= n /\ Len(text) \in Nat  OBVIOUS
<1>3. ASSUME NEW q \in p..n, \A k \in q + 1..n : k \in S  PROVE q \in S
  <2>1. CASE q > Len(text) \/ text[q] = Quote
    <3>1. read[q] = [word |-> <<>>, next |-> q + 1]  BY <1>1, <2>1 DEF QuotedStep
    <3>2. q + 1 \in q + 1..n + 1  BY <1>2
    <3>3. QED  BY <3>1, <3>2
  <2>2. CASE ~(q > Len(text) \/ text[q] = Quote)
    <3> DEFINE k == QuotedNext(text, q)
    <3>1. k \in q + 1..n  BY <1>2, <2>2 DEF QuotedNext, Escaped
    <3>2. k \in S  BY <1>3, <3>1
    <3> HIDE DEF k
    <3>3. PICK w, i : i \in k + 1..n + 1 /\ read[k] = [word |-> w, next |-> i]  BY <3>2
    <3>4. i \in q + 1..n + 1  BY <1>2, <3>1, <3>3
    <3>5. PICK ch : read[q] = [read[k] EXCEPT !.word = <<ch>> \o @]
      BY <1>1, <2>2 DEF QuotedStep, k
    <3>6. read[q] = [word |-> <<ch>> \o w, next |-> i]
      <4>1. read[q] = [[word |-> w, next |-> i] EXCEPT !.word = <<ch>> \o @]
        BY <3>3, <3>5
      <4>2. QED  BY <4>1
    <3>7. QED  BY <3>4, <3>6
  <2>3. QED  BY <2>1, <2>2
<1>4. \A q \in p..n : q \in S
  <2> HIDE DEF S, n
  <2>1. QED  BY <1>2, <1>3, BackInduction
<1>5. p \in S
  <2>1. p \in p..n  BY <1>2
  <2> HIDE DEF S
  <2>2. QED  BY <1>4, <2>1
<1>6. PICK w, i : i \in p + 1..n + 1 /\ read[p] = [word |-> w, next |-> i]  BY <1>5
<1>7. i \in p + 1..Len(text) + 2  BY <1>2, <1>6
<1>8. QED  BY <1>1, <1>6, <1>7

\* A word is not empty: the position behind it is further on.
LEMMA ArgRange ==
  ASSUME NEW Ch, NEW text \in Seq(Ch), NEW p \in 1..Len(text), parse_arg(text, p) # None
  PROVE  parse_arg(text, p).next \in p + 1..Len(text) + 2
<1> DEFINE U == UnimportantIn(text)
           start == Past(text, p, U)
           V == DOMAIN text \ U
           end == Past(text, start, V)
           n == Len(text)
<1>1. n \in Nat /\ p \in Nat /\ p \in 1..n + 1 /\ DOMAIN text = 1..n /\ p >= 1  OBVIOUS
<1>2. start \in p..n + 1 /\ (start = n + 1 \/ start \notin U)
  <2> HIDE DEF U
  <2>1. QED  BY <1>1, PastRange
<1>3. parse_arg(text, p) =
        CASE start > Len(text) -> None
          [] start <= Len(text) /\ text[start] = Quote -> parse_quoted(text, start + 1)
          [] OTHER -> [word |-> SubSeq(text, start, end - 1), next |-> end]
  BY Zenon DEF parse_arg
<1> HIDE DEF U, start
<1>4. start \in 1..n + 1  BY <1>1, <1>2
<1>5. end \in start..n + 1 /\ (end = n + 1 \/ end \notin V)
  <2> HIDE DEF V
  <2>1. QED  BY <1>4, PastRange
<1> HIDE DEF end
<1>6. start \in Nat  BY <1>1, <1>4
<1>7. CASE start > n
  <2>1. start > Len(text) /\ ~(start <= Len(text))  BY <1>1, <1>6, <1>7
  <2>2. parse_arg(text, p) = None  BY <1>3, <2>1
  <2>3. QED  BY <2>2
<1>8. CASE start <= n /\ text[start] = Quote
  <2>1. ~(start > Len(text))  BY <1>1, <1>6, <1>8
  <2>2. parse_arg(text, p) = parse_quoted(text, start + 1)  BY <1>3, <1>8, <2>1
  <2> DEFINE s == start + 1
  <2>3. s \in 1..n + 1  BY <1>1, <1>4, <1>8
  <2> HIDE DEF s
  <2>4. parse_quoted(text, s).next \in s + 1..n + 2  BY <2>3, QuotedRange
  <2>5. \A x \in s + 1..n + 2 : x \in p + 1..n + 2  BY <1>1, <1>2, <1>6 DEF s
  <2>6. QED  BY <2>2, <2>4, <2>5 DEF s
<1>9. CASE start <= n /\ text[start] # Quote
  <2>1. ~(start > Len(text))  BY <1>1, <1>6, <1>9
  <2>2. parse_arg(text, p) = [word |-> SubSeq(text, start, end - 1), next |-> end]
    BY <1>3, <1>9, <2>1
  <2>3. start \in V  BY <1>1, <1>2, <1>6, <1>9 DEF V
  <2>4. end # start  BY <1>5, <1>6, <1>9, <2>3
  <2>5. end \in p + 1..n + 2  BY <1>1, <1>2, <1>5, <1>6, <2>4
  <2>6. QED  BY <2>2, <2>5
<1>10. QED  BY <1>1, <1>6, <1>7, <1>8, <1>9

-----------------------------------------------------------------------------
(* The arguments of a command, and the commands.                           *)

\* Where the arguments end.
ArgsEnd(text, q) == q > Len(text) \/ text[q] = Newline \/ parse_arg(text, q) = None

\* What is read from q on, after being what is read from the next argument on.
ArgsStep(text, q, after) ==
  IF q > Len(text) THEN [words |-> <<>>, next |-> q]
  ELSE IF text[q] = Newline THEN [words |-> <<>>, next |-> q]
  ELSE IF parse_arg(text, q) = None THEN [words |-> <<>>, next |-> Len(text) + 1]
  ELSE [after EXCEPT !.words = <<parse_arg(text, q).word>> \o @]

\* parse_args is its loop (aci/aci.cpp:1065).
LEMMA ArgsUnfold ==
  ASSUME NEW Ch, NEW text \in Seq(Ch), NEW p \in 1..Len(text) + 2
  PROVE  \E read :
           /\ parse_args(text, p) = read[p]
           /\ \A q \in p..Len(text) + 2 :
                read[q] = ArgsStep(text, q, read[parse_arg(text, q).next])
<1> DEFINE n == Len(text) + 2
           Words == {parse_arg(text, q).word : q \in 1..Len(text)}
           T == [words : Seq(Words), next : Nat]
           c == [words |-> <<>>, next |-> n]
           h == [q \in p..n |-> [t \in T |-> ArgsStep(text, q, t)]]
           next == [q \in p..n |-> IF ArgsEnd(text, q) THEN n ELSE parse_arg(text, q).next]
           Body(f) ==
             [q \in p..Len(text) + 2 |->
               IF q > Len(text) THEN [words |-> <<>>, next |-> q]
               ELSE IF text[q] = Newline THEN [words |-> <<>>, next |-> q]
               ELSE IF parse_arg(text, q) = None
                    THEN [words |-> <<>>, next |-> Len(text) + 1]
               ELSE LET arg   == parse_arg(text, q)
                        after == f[arg.next]
                    IN  [after EXCEPT !.words = <<arg.word>> \o @]]
<1>0. /\ n \in Nat /\ Len(text) \in Nat /\ n = Len(text) + 2 /\ p \in Nat /\ p <= n /\ p >= 1
  OBVIOUS
<1> HIDE DEF n
<1>1. c \in T  BY <1>0
<1>2. ASSUME NEW q \in p..n - 1, NEW t \in T  PROVE ArgsStep(text, q, t) \in T
  <2>1. q \in Nat /\ Len(text) + 1 \in Nat  BY <1>0
  <2>2. <<>> \in Seq(Words)  OBVIOUS
  <2>3. CASE q > Len(text) \/ text[q] = Newline \/ parse_arg(text, q) = None
    BY <2>1, <2>2, <2>3 DEF ArgsStep
  <2>4. CASE ~(q > Len(text) \/ text[q] = Newline \/ parse_arg(text, q) = None)
    <3>1. q \in 1..Len(text)  BY <1>0, <2>1, <2>4
    <3> DEFINE w == parse_arg(text, q).word
    <3>2. w \in Words  BY <3>1
    <3> HIDE DEF w, Words
    <3>3. <<w>> \o t.words \in Seq(Words)
      <4>1. <<w>> \in Seq(Words) /\ t.words \in Seq(Words)  BY <3>2
      <4>2. QED  BY <4>1
    <3>4. [t EXCEPT !.words = <<w>> \o @] \in T  BY <3>3
    <3>5. QED  BY <2>4, <3>4 DEF ArgsStep, w
  <2>5. QED  BY <2>3, <2>4
<1>3. \A q \in p..n - 1, t \in T : h[q][t] = ArgsStep(text, q, t)
  <2>1. \A q \in p..n - 1 : q \in p..n  BY <1>0
  <2> HIDE DEF T
  <2>2. QED  BY <2>1
<1>4. \A q \in p..n - 1 :
        next[q] \in q + 1..n /\ (~ArgsEnd(text, q) => next[q] = parse_arg(text, q).next)
  <2> TAKE q \in p..n - 1
  <2>1. q \in p..n /\ q \in Nat /\ q < n  BY <1>0
  <2>2. next[q] = IF ArgsEnd(text, q) THEN n ELSE parse_arg(text, q).next  BY <2>1
  <2>3. CASE ArgsEnd(text, q)  BY <1>0, <2>1, <2>2, <2>3
  <2>4. CASE ~ArgsEnd(text, q)
    <3>1. q \in 1..Len(text) /\ parse_arg(text, q) # None  BY <1>0, <2>1, <2>4 DEF ArgsEnd
    <3>2. parse_arg(text, q).next \in q + 1..Len(text) + 2  BY <3>1, ArgRange
    <3>3. QED  BY <1>0, <2>2, <2>4, <3>2
  <2>5. QED  BY <2>3, <2>4
<1> HIDE DEF h, next, T
<1>5. PICK x \in [p..n -> T] : Jumps(x, c, h, next, p, n)
  <2>1. \A q \in p..n - 1, t \in T : h[q][t] \in T  BY <1>2, <1>3
  <2>2. \A q \in p..n - 1 : next[q] \in q + 1..n  BY <1>4
  <2> HIDE DEF c
  <2>3. QED  BY <1>0, <1>1, <2>1, <2>2, JumpingFunction
<1>6. \A q \in p..n : x[q] = IF q = n THEN c ELSE h[q][x[next[q]]]
  BY <1>5 DEF Jumps
<1>7. ASSUME NEW f, NEW q \in p..n
      PROVE  Body(f)[q] = ArgsStep(text, q, f[parse_arg(text, q).next])
  BY DEF n, ArgsStep
<1>8. x = Body(x)
  <2>1. ASSUME NEW q \in p..n  PROVE x[q] = Body(x)[q]
    <3> DEFINE b == Body(x)[q]
    <3>0. b = ArgsStep(text, q, x[parse_arg(text, q).next])
      <4> HIDE DEF Body
      <4>1. QED  BY <1>7
    <3> HIDE DEF Body, b
    <3>1. CASE q = n
      <4>1. b = c  BY <1>0, <3>0, <3>1 DEF ArgsStep
      <4>2. x[q] = c  BY <1>6, <3>1
      <4> HIDE DEF c
      <4>3. QED  BY <4>1, <4>2 DEF b
    <3>2. CASE q # n
      <4>1. q \in p..n - 1  BY <1>0, <3>2
      <4>2. next[q] \in p..n
        <5>1. next[q] \in q + 1..n  BY <1>4, <4>1
        <5>2. QED  BY <1>0, <4>1, <5>1
      <4>3. x[next[q]] \in T  BY <1>5, <4>2
      <4>4. x[q] = h[q][x[next[q]]]  BY <1>6, <3>2
      <4>5. x[q] = ArgsStep(text, q, x[next[q]])  BY <1>3, <4>1, <4>3, <4>4
      <4>6. CASE ArgsEnd(text, q)  BY <3>0, <4>5, <4>6 DEF ArgsEnd, ArgsStep, b
      <4>7. CASE ~ArgsEnd(text, q)
        <5>1. next[q] = parse_arg(text, q).next  BY <1>4, <4>1, <4>7
        <5>2. QED  BY <3>0, <4>5, <5>1 DEF b
      <4>8. QED  BY <4>6, <4>7
    <3>3. QED  BY <3>1, <3>2
  <2>2. DOMAIN x = p..n /\ x = [q \in p..n |-> x[q]]  BY <1>5
  <2>3. Body(x) = [q \in p..n |-> Body(x)[q]]  BY DEF n
  <2> HIDE DEF Body
  <2>4. QED  BY <2>1, <2>2, <2>3
<1> DEFINE g == CHOOSE y : y = Body(y)
<1>9. g = Body(g)
  <2> HIDE DEF Body
  <2>1. QED  BY <1>8, Zenon
<1>10. parse_args(text, p) = g[p]  BY Zenon DEF parse_args
<1>11. \A q \in p..n : g[q] = ArgsStep(text, q, g[parse_arg(text, q).next])
  <2> TAKE q \in p..n
  <2> HIDE DEF g, Body
  <2>1. g[q] = Body(g)[q]  BY <1>9
  <2>2. QED  BY <1>7, <2>1
<1>12. QED  BY <1>10, <1>11 DEF n

\* The arguments end behind their beginning.
LEMMA ArgsRange ==
  ASSUME NEW Ch, NEW text \in Seq(Ch), NEW p \in 1..Len(text) + 2
  PROVE  parse_args(text, p).next \in p..Len(text) + 2
<1> DEFINE n == Len(text) + 2
<1>1. PICK read :
        /\ parse_args(text, p) = read[p]
        /\ \A q \in p..n : read[q] = ArgsStep(text, q, read[parse_arg(text, q).next])
  BY ArgsUnfold
<1> DEFINE S == {q \in p..n : \E w, i : i \in q..n /\ read[q] = [words |-> w, next |-> i]}
<1>2. p \in Nat /\ n \in Nat /\ p <= n /\ Len(text) \in Nat /\ p >= 1 /\ n = Len(text) + 2
  OBVIOUS
<1>3. ASSUME NEW q \in p..n, \A k \in q + 1..n : k \in S  PROVE q \in S
  <2>0. q \in Nat /\ q <= n  BY <1>2
  <2>a. read[q] = ArgsStep(text, q, read[parse_arg(text, q).next])  BY <1>1
  <2>1. CASE q > Len(text) \/ text[q] = Newline
    <3>1. read[q] = [words |-> <<>>, next |-> q]  BY <2>1, <2>a DEF ArgsStep
    <3>2. q \in q..n  BY <2>0
    <3>3. QED  BY <3>1, <3>2
  <2>2. CASE ~(q > Len(text) \/ text[q] = Newline) /\ parse_arg(text, q) = None
    <3>1. read[q] = [words |-> <<>>, next |-> Len(text) + 1]  BY <2>2, <2>a DEF ArgsStep
    <3>2. Len(text) + 1 \in q..n  BY <1>2, <2>0, <2>2
    <3>3. QED  BY <3>1, <3>2
  <2>3. CASE ~(q > Len(text) \/ text[q] = Newline) /\ parse_arg(text, q) # None
    <3> DEFINE k == parse_arg(text, q).next
    <3>0. q \in 1..Len(text)  BY <1>2, <2>0, <2>3
    <3>1. k \in q + 1..n  BY <2>3, <3>0, ArgRange
    <3>2. k \in S  BY <1>3, <3>1
    <3>3. PICK w, i : i \in k..n /\ read[k] = [words |-> w, next |-> i]  BY <3>2
    <3>4. i \in q..n  BY <1>2, <2>0, <3>1, <3>3
    <3>5. read[q] = [read[k] EXCEPT !.words = <<parse_arg(text, q).word>> \o @]
      BY <2>3, <2>a DEF ArgsStep
    <3> HIDE DEF k
    <3>6. read[q] = [words |-> <<parse_arg(text, q).word>> \o w, next |-> i]
      <4>1. read[q] = [[words |-> w, next |-> i] EXCEPT
                        !.words = <<parse_arg(text, q).word>> \o @]
        BY <3>3, <3>5
      <4>2. QED  BY <4>1
    <3>7. QED  BY <3>4, <3>6
  <2>4. QED  BY <2>1, <2>2, <2>3
<1>4. \A q \in p..n : q \in S
  <2> HIDE DEF S, n
  <2>1. QED  BY <1>2, <1>3, BackInduction
<1>5. p \in S
  <2>1. p \in p..n  BY <1>2
  <2> HIDE DEF S
  <2>2. QED  BY <1>4, <2>1
<1>6. PICK w, i : i \in p..n /\ read[p] = [words |-> w, next |-> i]  BY <1>5
<1>7. i \in p..Len(text) + 2  BY <1>2, <1>6
<1>8. QED  BY <1>1, <1>6, <1>7

\* GoesOn the command at p.
CommandNext(text, p) == parse_args(text, parse_arg(text, p).next).next

\* What is made of the command at p and of the rest.
ParseStep(text, p, rest) ==
  IF p > Len(text) THEN <<>>
  ELSE IF parse_arg(text, p) = None THEN Dropped
  ELSE IF rest = Dropped THEN Dropped
  ELSE <<(<<parse_arg(text, p).word>> \o
          parse_args(text, parse_arg(text, p).next).words)>> \o rest

\* parse is its loop (aci/aci.cpp:1046).
LEMMA ParseUnfold ==
  ASSUME NEW Ch, NEW text \in Seq(Ch)
  PROVE  \E read :
           /\ parse(text) = IF read[1] = Dropped THEN <<>> ELSE read[1]
           /\ \A p \in 1..Len(text) + 2 :
                read[p] = ParseStep(text, p, read[CommandNext(text, p)])
<1> DEFINE n == Len(text) + 2
           Com(p) == <<parse_arg(text, p).word>> \o
                     parse_args(text, parse_arg(text, p).next).words
           Coms == {Com(p) : p \in 1..Len(text)} \cup {<<>>}
           T == Seq(Coms)
           Ends(p) == p > Len(text) \/ parse_arg(text, p) = None
           h == [p \in 1..n |-> [t \in T |-> ParseStep(text, p, t)]]
           next == [p \in 1..n |-> IF Ends(p) THEN n ELSE CommandNext(text, p)]
           Body(f) ==
             [p \in 1..Len(text) + 2 |->
               IF p > Len(text) THEN <<>>
               ELSE IF parse_arg(text, p) = None THEN Dropped
               ELSE LET name == parse_arg(text, p)
                        args == parse_args(text, name.next)
                        rest == f[args.next]
                    IN  IF rest = Dropped THEN Dropped
                        ELSE <<(<<name.word>> \o args.words)>> \o rest]
<1>0. n \in Nat /\ Len(text) \in Nat /\ n = Len(text) + 2 /\ 1 <= n /\ 1 \in Nat
  OBVIOUS
<1> HIDE DEF n
<1>1. <<>> \in T  OBVIOUS
<1>2. ASSUME NEW p \in 1..n - 1, NEW t \in T  PROVE ParseStep(text, p, t) \in T
  <2>1. Dropped \in T
    <3>1. <<>> \in Coms  OBVIOUS
    <3> HIDE DEF Coms
    <3>2. <<<<>>>> \in Seq(Coms)  BY <3>1
    <3>3. QED  BY <3>2 DEF Dropped
  <2>2. CASE p > Len(text)  BY <2>2 DEF ParseStep
  <2>3. CASE ~(p > Len(text))
    <3>1. p \in 1..Len(text)  BY <1>0, <2>3
    <3>2. Com(p) \in Coms  BY <3>1
    <3> DEFINE w == Com(p)
    <3> HIDE DEF Coms, w
    <3>3. <<w>> \o t \in Seq(Coms)
      <4>1. <<w>> \in Seq(Coms) /\ t \in Seq(Coms)  BY <3>2 DEF w
      <4>2. QED  BY <4>1
    <3>4. ParseStep(text, p, t) = IF parse_arg(text, p) = None THEN Dropped
                                  ELSE IF t = Dropped THEN Dropped ELSE <<w>> \o t
      BY <2>3 DEF ParseStep, w
    <3>5. QED  BY <2>1, <3>3, <3>4
  <2>4. QED  BY <2>2, <2>3
<1>3. \A p \in 1..n - 1, t \in T : h[p][t] = ParseStep(text, p, t)
  <2>1. \A p \in 1..n - 1 : p \in 1..n  BY <1>0
  <2> HIDE DEF T
  <2>2. QED  BY <2>1
<1>4. \A p \in 1..n - 1 :
        next[p] \in p + 1..n /\ (~Ends(p) => next[p] = CommandNext(text, p))
  <2> TAKE p \in 1..n - 1
  <2>1. p \in 1..n /\ p \in Nat /\ p < n /\ p >= 1  BY <1>0
  <2>2. next[p] = IF Ends(p) THEN n ELSE CommandNext(text, p)  BY <2>1
  <2> HIDE DEF next
  <2>3. CASE Ends(p)
    <3>1. n \in p + 1..n  BY <1>0, <2>1
    <3>2. QED  BY <2>2, <2>3, <3>1
  <2>4. CASE ~Ends(p)
    <3>1. p \in 1..Len(text) /\ parse_arg(text, p) # None  BY <1>0, <2>1, <2>4
    <3> DEFINE i == parse_arg(text, p).next
               k == parse_args(text, i).next
    <3>2. i \in p + 1..Len(text) + 2  BY <3>1, ArgRange
    <3> HIDE DEF i
    <3>3. i \in 1..Len(text) + 2 /\ i \in Nat /\ i >= p + 1  BY <1>0, <2>1, <3>2
    <3>4. k \in i..Len(text) + 2  BY <3>3, ArgsRange
    <3> HIDE DEF k
    <3>5. k \in p + 1..n  BY <1>0, <2>1, <3>3, <3>4
    <3>6. QED  BY <2>2, <2>4, <3>5 DEF CommandNext, i, k
  <2>5. QED  BY <2>3, <2>4
<1> DEFINE c == <<>>
<1> HIDE DEF h, next, T
<1>5. PICK x \in [1..n -> T] : Jumps(x, c, h, next, 1, n)
  <2>1. \A p \in 1..n - 1, t \in T : h[p][t] \in T  BY <1>2, <1>3
  <2>2. \A p \in 1..n - 1 : next[p] \in p + 1..n  BY <1>4
  <2>3. c \in T  BY <1>1
  <2> HIDE DEF c
  <2>4. QED  BY <1>0, <2>1, <2>2, <2>3, JumpingFunction
<1>6. \A p \in 1..n : x[p] = IF p = n THEN c ELSE h[p][x[next[p]]]
  BY <1>5 DEF Jumps
<1>7. ASSUME NEW f, NEW p \in 1..n
      PROVE  Body(f)[p] = ParseStep(text, p, f[CommandNext(text, p)])
  BY DEF n, ParseStep, CommandNext
<1>8. x = Body(x)
  <2>1. ASSUME NEW p \in 1..n  PROVE x[p] = Body(x)[p]
    <3> DEFINE b == Body(x)[p]
    <3>0. b = ParseStep(text, p, x[CommandNext(text, p)])
      <4> HIDE DEF Body
      <4>1. QED  BY <1>7
    <3> HIDE DEF Body, b
    <3>1. CASE p = n
      <4>1. b = c  BY <1>0, <3>0, <3>1 DEF ParseStep
      <4>2. x[p] = c  BY <1>6, <3>1
      <4> HIDE DEF c
      <4>3. QED  BY <4>1, <4>2 DEF b
    <3>2. CASE p # n
      <4>1. p \in 1..n - 1  BY <1>0, <3>2
      <4>2. next[p] \in 1..n
        <5>1. next[p] \in p + 1..n  BY <1>4, <4>1
        <5>2. QED  BY <1>0, <4>1, <5>1
      <4>3. x[next[p]] \in T  BY <1>5, <4>2
      <4>4. x[p] = h[p][x[next[p]]]  BY <1>6, <3>2
      <4>5. x[p] = ParseStep(text, p, x[next[p]])  BY <1>3, <4>1, <4>3, <4>4
      <4>6. CASE Ends(p)  BY <3>0, <4>5, <4>6 DEF ParseStep, b
      <4>7. CASE ~Ends(p)
        <5>1. next[p] = CommandNext(text, p)  BY <1>4, <4>1, <4>7
        <5>2. QED  BY <3>0, <4>5, <5>1 DEF b
      <4>8. QED  BY <4>6, <4>7
    <3>3. QED  BY <3>1, <3>2
  <2>2. DOMAIN x = 1..n /\ x = [p \in 1..n |-> x[p]]  BY <1>5
  <2>3. Body(x) = [p \in 1..n |-> Body(x)[p]]  BY DEF n
  <2> HIDE DEF Body
  <2>4. QED  BY <2>1, <2>2, <2>3
<1> DEFINE g == CHOOSE y : y = Body(y)
<1>9. g = Body(g)
  <2> HIDE DEF Body
  <2>1. QED  BY <1>8, Zenon
<1>10. parse(text) = IF g[1] = Dropped THEN <<>> ELSE g[1]  BY Zenon DEF parse
<1>11. \A p \in 1..n : g[p] = ParseStep(text, p, g[CommandNext(text, p)])
  <2> TAKE p \in 1..n
  <2> HIDE DEF g, Body
  <2>1. g[p] = Body(g)[p]  BY <1>9
  <2>2. QED  BY <1>7, <2>1
<1>12. QED  BY <1>10, <1>11 DEF n

-----------------------------------------------------------------------------
(* A text laid out: where its words are.                                   *)

\* A word in the text: the word, how it is written and behind how many
\* characters.
PlacedWord(text, Ch, w) ==
  /\ w.word \in Seq(Ch) /\ Spells(w.word, w.spelled)
  /\ w.at \in Nat /\ Holds(text, w.at, w.spelled)

\* How many characters there are up to the end of a word.
Stop(w) == w.at + Len(w.spelled)

\* White space on the way from e to the word w.
Between(text, e, w) == e < w.at /\ Blank(text, e + 1, w.at)

\* Only white space from p on: there is no word.
LEMMA BlankNone ==
  ASSUME NEW Ch, NEW text \in Seq(Ch), NEW p \in 1..Len(text), Blank(text, p, Len(text))
  PROVE  parse_arg(text, p) = None
<1> DEFINE L == Len(text)
           U == UnimportantIn(text)
           e == L + 1
<1>1. L \in Nat /\ p \in 1..L /\ DOMAIN text = 1..L  OBVIOUS
<1>2. \A q \in p..L : q \in U
  <2>1. \A q \in p..L : q \in 1..L  BY <1>1
  <2>2. QED  BY <1>1, <2>1 DEF Blank, UnimportantIn
<1> HIDE DEF U
<1>3. Past(text, p, U) = e
  <2>1. e \in p..Len(text) + 1 /\ p \in 1..Len(text) + 1 /\ e = Len(text) + 1  BY <1>1
  <2>2. \A q \in p..e - 1 : q \in U  BY <1>1, <1>2
  <2> HIDE DEF e
  <2>3. QED  BY <2>1, <2>2, PastIs
<1> DEFINE start == Past(text, p, U)
<1>4. start > Len(text) /\ ~(start <= Len(text))  BY <1>1, <1>3
<1>5. parse_arg(text, p) =
        CASE start > Len(text) -> None
          [] start <= Len(text) /\ text[start] = Quote -> parse_quoted(text, start + 1)
          [] OTHER -> [word |-> SubSeq(text, start,
                                 Past(text, start, DOMAIN text \ U) - 1),
                       next |-> Past(text, start, DOMAIN text \ U)]
  BY Zenon DEF parse_arg, U
<1> HIDE DEF start
<1>6. QED  BY <1>4, <1>5

\* Where the reading goes on behind a command that stops at e: behind the end of
\* the line, or at the end of the text.
GoesOn(text, e) ==
  IF e < Len(text) /\ text[e + 1] # Newline THEN Len(text) + 1 ELSE e + 1

\* A command in the text: its words, white space between them that is no end of
\* a line, and behind them the end of the line or only white space.
PlacedCommand(text, Ch, ws) ==
  /\ Len(ws) \in Nat /\ Len(ws) >= 1
  /\ \A j \in 1..Len(ws) : PlacedWord(text, Ch, ws[j])
  /\ \A j \in 1..Len(ws) - 1 :
       /\ Between(text, Stop(ws[j]), ws[j + 1])
       /\ text[Stop(ws[j]) + 1] # Newline
  /\ \/ Blank(text, Stop(ws[Len(ws)]) + 1, Len(text))
     \/ text[Stop(ws[Len(ws)]) + 1] = Newline

\* The words without their places.
Words(ws) == [j \in 1..Len(ws) |-> ws[j].word]

\* Where a word stops, and what is behind it.
LEMMA StopRange ==
  ASSUME NEW Ch, Characters(Ch), NEW text \in Seq(Ch), NEW w, PlacedWord(text, Ch, w)
  PROVE  Stop(w) \in 1..Len(text) /\ w.at + 1 <= Stop(w)
<1> DEFINE word == w.word
           s == w.spelled
           b == w.at
           l == Len(s)
<1>1. /\ word \in Seq(Ch) /\ Spells(word, s) /\ b \in Nat /\ Holds(text, b, s)
  BY DEF PlacedWord
<1> HIDE DEF word, s, b
<1>2. s \in Seq(Ch)  BY <1>1, QuotedForm DEF Spells
<1>3. l \in Nat /\ b + l <= Len(text) /\ Len(text) \in Nat  BY <1>1, <1>2 DEF Holds
<1>4. s # <<>>
  <2>1. CASE Bare(word) /\ s = word  BY <2>1 DEF Bare
  <2>2. CASE s = Quoted(word)
    <3>1. PICK pos : QuotedAs(word, s, pos)  BY <1>1, <2>2, QuotedForm
    <3>2. Len(s) = pos[Len(word)] + 2 /\ pos \in [0..Len(word) -> Nat]
      BY <3>1 DEF QuotedAs
    <3>3. Len(word) \in 0..Len(word)  BY <1>1
    <3>4. pos[Len(word)] \in Nat  BY <3>2, <3>3
    <3>5. Len(s) # 0  BY <3>2, <3>4
    <3>6. QED  BY <3>5
  <2>3. QED  BY <1>1, <2>1, <2>2 DEF Spells
<1>5. l >= 1  BY <1>2, <1>4
<1> HIDE DEF l
<1>6. b + l \in 1..Len(text) /\ b + 1 <= b + l  BY <1>1, <1>3, <1>5
<1>7. QED  BY <1>6 DEF Stop, b, l, s

\* A placed word is read from white space in front of it.
LEMMA PlacedRead ==
  ASSUME NEW Ch, Characters(Ch), NEW text \in Seq(Ch), NEW w, PlacedWord(text, Ch, w),
         NEW p \in 1..Len(text), p - 1 <= w.at, Blank(text, p, w.at), Cut(text, Stop(w))
  PROVE  parse_arg(text, p) = [word |-> w.word, next |-> Stop(w) + 1]
<1> DEFINE word == w.word
           s == w.spelled
           b == w.at
<1>1. Stop(w) \in 1..Len(text) /\ b + 1 <= Stop(w) /\ b \in Nat
  BY StopRange DEF PlacedWord
<1>2. word \in Seq(Ch) /\ Spells(word, s) /\ Holds(text, b, s) /\ Stop(w) = b + Len(s)
  BY DEF PlacedWord, Stop
<1>3. Blank(text, p, b) /\ Cut(text, b + Len(s)) /\ p - 1 <= b  BY <1>2
<1> HIDE DEF word, s, b
<1>4. Stop(w) \in Nat /\ Len(text) \in Nat /\ Stop(w) <= Len(text) /\ p \in Nat  BY <1>1
<1>5. b \in p - 1..Len(text)
  <2> DEFINE e == Stop(w)
             L == Len(text)
  <2> HIDE DEF e, L
  <2>1. e \in Nat /\ L \in Nat /\ e <= L /\ b + 1 <= e /\ p - 1 <= b
    BY <1>1, <1>3, <1>4 DEF e, L
  <2>2. b \in p - 1..L  BY <1>1, <1>4, <2>1
  <2>3. QED  BY <2>2 DEF L
<1>6. parse_arg(text, p) = [word |-> word, next |-> b + Len(s) + 1]
  BY <1>2, <1>3, <1>5, WordRead
<1>7. QED  BY <1>2, <1>6 DEF word

\* A placed command is read from white space in front of it.
LEMMA CommandRead ==
  ASSUME NEW Ch, Characters(Ch), NEW text \in Seq(Ch), NEW ws, PlacedCommand(text, Ch, ws),
         NEW p \in 1..Len(text), p - 1 <= ws[1].at, Blank(text, p, ws[1].at)
  PROVE  /\ parse_arg(text, p) # None
         /\ CommandNext(text, p) = GoesOn(text, Stop(ws[Len(ws)]))
         /\ <<parse_arg(text, p).word>> \o parse_args(text, parse_arg(text, p).next).words
              = Words(ws)
<1> DEFINE m == Len(ws)
           W == Words(ws)
           e(j) == Stop(ws[j])
           end == GoesOn(text, e(m))
<1>1. /\ m \in Nat /\ m >= 1
      /\ \A j \in 1..m : PlacedWord(text, Ch, ws[j])
      /\ \A j \in 1..m - 1 : Between(text, e(j), ws[j + 1]) /\ text[e(j) + 1] # Newline
      /\ Blank(text, e(m) + 1, Len(text)) \/ text[e(m) + 1] = Newline
  BY DEF PlacedCommand
<1>2. Len(text) \in Nat  OBVIOUS
<1> HIDE DEF m
<1>3. \A j \in 1..m : e(j) \in 1..Len(text) /\ ws[j].at + 1 <= e(j) /\ ws[j].at \in Nat
  BY <1>1, StopRange DEF PlacedWord
<1>4. W \in Seq(Seq(Ch)) /\ Len(W) = m /\ \A j \in 1..m : W[j] = ws[j].word
  <2>1. \A j \in 1..m : ws[j].word \in Seq(Ch)  BY <1>1 DEF PlacedWord
  <2>2. W = [j \in 1..m |-> ws[j].word]  BY DEF Words, m
  <2> HIDE DEF W
  <2>3. W \in [1..m -> Seq(Ch)] /\ \A j \in 1..m : W[j] = ws[j].word  BY <2>1, <2>2
  <2>4. m \in Nat  BY <1>1
  <2>5. W \in Seq(Seq(Ch)) /\ Len(W) = m  BY <2>3, <2>4, FunSeq
  <2>6. QED  BY <2>3, <2>5
<1> HIDE DEF W, e
<1>5. \A j \in 1..m : Cut(text, e(j))
  <2> TAKE j \in 1..m
  <2>1. CASE j = m
    <3>1. e(m) \in 1..Len(text)  BY <1>3, <2>1
    <3>2. e(m) # Len(text) => e(m) + 1 \in e(m) + 1..Len(text)  BY <1>2, <3>1
    <3>3. e(m) = Len(text) \/ Unimportant(text[e(m) + 1])
      BY <1>1, <3>2 DEF Unimportant, Blank
    <3>4. QED  BY <2>1, <3>3 DEF Cut
  <2>2. CASE j # m
    <3>1. j \in 1..m - 1 /\ j + 1 \in 1..m  BY <1>1, <2>2
    <3>2. e(j) < ws[j + 1].at /\ Blank(text, e(j) + 1, ws[j + 1].at)
      BY <1>1, <3>1 DEF Between
    <3>3. e(j) \in Nat /\ ws[j + 1].at \in Nat  BY <1>3, <3>1
    <3>4. e(j) + 1 \in e(j) + 1..ws[j + 1].at  BY <3>2, <3>3
    <3>5. Unimportant(text[e(j) + 1])  BY <3>2, <3>4 DEF Blank
    <3>6. QED  BY <3>5 DEF Cut
  <2>3. QED  BY <2>1, <2>2
<1>6. 1 \in 1..m /\ m \in 1..m  BY <1>1
<1>7. parse_arg(text, p) = [word |-> W[1], next |-> e(1) + 1]
  <2> DEFINE w == ws[1]
  <2>1. /\ PlacedWord(text, Ch, w) /\ p - 1 <= w.at /\ Blank(text, p, w.at)
        /\ Cut(text, Stop(w)) /\ W[1] = w.word /\ e(1) = Stop(w)
    BY <1>1, <1>4, <1>5, <1>6 DEF e
  <2> HIDE DEF w
  <2>2. parse_arg(text, p) = [word |-> w.word, next |-> Stop(w) + 1]
    BY <2>1, PlacedRead
  <2>3. QED  BY <2>1, <2>2
<1>8. \A j \in 1..m - 1 : /\ e(j) + 1 \in 1..Len(text)
                          /\ parse_arg(text, e(j) + 1) = [word |-> W[j + 1], next |-> e(j + 1) + 1]
  <2> TAKE j \in 1..m - 1
  <2> DEFINE w == ws[j + 1]
             q == e(j) + 1
  <2>1. j + 1 \in 1..m /\ j \in 1..m  BY <1>1
  <2>2. /\ PlacedWord(text, Ch, w) /\ Between(text, e(j), w) /\ Cut(text, Stop(w))
        /\ W[j + 1] = w.word /\ e(j + 1) = Stop(w)
    BY <1>1, <1>4, <1>5, <2>1 DEF e
  <2>3. e(j) < w.at /\ Blank(text, q, w.at)  BY <2>2 DEF Between
  <2> DEFINE x == e(j)
             y == e(j + 1)
             z == w.at
             L == Len(text)
  <2>4. x \in 1..L /\ y \in 1..L /\ z \in Nat /\ x < z /\ z + 1 <= y /\ L \in Nat
    BY <1>2, <1>3, <2>1, <2>3
  <2> HIDE DEF x, y, z, L
  <2>5. x + 1 \in 1..L /\ x + 1 - 1 <= z  BY <2>4
  <2>6. q \in 1..Len(text) /\ q - 1 <= w.at
    <3>1. q = x + 1 /\ w.at = z /\ Len(text) = L  BY DEF x, z, L
    <3> HIDE DEF w, q
    <3>2. QED  BY <2>4, <2>5, <3>1
  <2> HIDE DEF w, q
  <2>7. parse_arg(text, q) = [word |-> w.word, next |-> Stop(w) + 1]
    BY <2>2, <2>3, <2>6, PlacedRead
  <2>8. QED  BY <2>2, <2>6, <2>7 DEF q
<1> DEFINE a == e(1) + 1
<1>9. e(1) \in Nat /\ e(1) <= Len(text) /\ e(1) >= 1 /\ a \in 1..Len(text) + 2 /\ a \in Nat
  <2>1. e(1) \in 1..Len(text)  BY <1>3, <1>6 DEF e
  <2>2. QED  BY <1>2, <2>1
<1> HIDE DEF a
<1>10. PICK read :
        /\ parse_args(text, a) = read[a]
        /\ \A q \in a..Len(text) + 2 : read[q] = ArgsStep(text, q, read[parse_arg(text, q).next])
  BY <1>9, ArgsUnfold
<1> DEFINE S == {j \in 1..m : e(j) + 1 \in a..Len(text) + 2 =>
                   read[e(j) + 1] = [words |-> SubSeq(W, j + 1, m), next |-> end]}
<1>11. \A j \in 1..m : e(j) + 1 \in a..Len(text) + 2
  <2> DEFINE R == {j \in Nat : j \in 1..m => e(j) >= e(1)}
  <2>1. 0 \in R  OBVIOUS
  <2>2. ASSUME NEW j \in Nat, j \in R  PROVE j + 1 \in R
    <3> SUFFICES ASSUME j + 1 \in 1..m PROVE e(j + 1) >= e(1)  OBVIOUS
    <3>1. CASE j = 0  BY <1>9, <3>1
    <3>2. CASE j # 0
      <4>1. j \in 1..m /\ j \in 1..m - 1  BY <1>1, <3>2
      <4>2. e(j) >= e(1)  BY <2>2, <4>1
      <4>3. e(j) < ws[j + 1].at /\ ws[j + 1].at + 1 <= e(j + 1)
        BY <1>1, <1>3, <4>1 DEF Between
      <4>4. e(j) \in Nat /\ e(j + 1) \in Nat /\ ws[j + 1].at \in Nat  BY <1>3, <4>1
      <4>5. QED  BY <1>9, <4>2, <4>3, <4>4
    <3>3. QED  BY <3>1, <3>2
  <2>3. Nat \subseteq R
    <3> HIDE DEF R
    <3>1. QED  BY <2>1, <2>2, SetInduction
  <2>4. ASSUME NEW j \in 1..m  PROVE e(j) + 1 \in a..Len(text) + 2
    <3>1. e(j) >= e(1) /\ e(j) \in 1..Len(text)  BY <1>3, <2>3
    <3>2. QED  BY <1>2, <1>9, <3>1 DEF a
  <2>5. QED  BY <2>4
<1>12. ASSUME NEW j \in 1..m, \A k \in j + 1..m : k \in S  PROVE j \in S
  <2> DEFINE q == e(j) + 1
  <2>1. q \in a..Len(text) + 2  BY <1>11
  <2>2. read[q] = ArgsStep(text, q, read[parse_arg(text, q).next])  BY <1>10, <2>1
  <2> HIDE DEF end
  <2>3. CASE j = m
    <3>1. e(m) \in 1..Len(text) /\ q = e(m) + 1  BY <1>3, <2>3
    <3>2. read[q] = [words |-> <<>>, next |-> end]
      <4>1. CASE q > Len(text) \/ text[q] = Newline
        <5>1. end = q  BY <1>2, <3>1, <4>1 DEF end, GoesOn
        <5>2. QED  BY <2>2, <4>1, <5>1 DEF ArgsStep
      <4>2. CASE ~(q > Len(text)) /\ text[q] # Newline
        <5>1. q \in 1..Len(text) /\ end = Len(text) + 1  BY <1>2, <3>1, <4>2 DEF end, GoesOn
        <5>2. Blank(text, q, Len(text))  BY <1>1, <3>1, <4>2
        <5> HIDE DEF q
        <5>3. parse_arg(text, q) = None  BY <5>1, <5>2, BlankNone
        <5>4. QED  BY <2>2, <4>2, <5>1, <5>3 DEF ArgsStep
      <4>3. QED  BY <4>1, <4>2
    <3>3. SubSeq(W, m + 1, m) = <<>>  BY <1>1
    <3>4. QED  BY <2>3, <3>2, <3>3
  <2>4. CASE j # m
    <3>1. j \in 1..m - 1 /\ j + 1 \in j + 1..m /\ j + 1 \in 1..m  BY <1>1, <2>4
    <3>2. q \in 1..Len(text) /\ parse_arg(text, q) = [word |-> W[j + 1], next |-> e(j + 1) + 1]
      BY <1>8, <3>1
    <3>3. read[e(j + 1) + 1] = [words |-> SubSeq(W, j + 1 + 1, m), next |-> end]
      <4>1. j + 1 \in S  BY <1>12, <3>1
      <4>2. e(j + 1) + 1 \in a..Len(text) + 2  BY <1>11, <3>1
      <4>3. QED  BY <4>1, <4>2
    <3> DEFINE rest == SubSeq(W, j + 1 + 1, m)
               r == [words |-> rest, next |-> end]
    <3> HIDE DEF rest
    <3>4. ~(q > Len(text))  BY <1>2, <3>2
    <3> HIDE DEF S
    <3>5. text[q] # Newline  BY <1>1, <3>1
    <3>6. parse_arg(text, q).next # 0
      <4>1. e(j + 1) \in Nat  BY <1>3, <3>1 DEF e
      <4>2. QED  BY <3>2, <4>1
    <3>7. parse_arg(text, q) # None  BY <3>6 DEF None
    <3>8. read[parse_arg(text, q).next] = r  BY <3>2, <3>3 DEF rest
    <3>9. read[q] = [r EXCEPT !.words = <<W[j + 1]>> \o @]
      <4> HIDE DEF q, r
      <4>1. read[q] = [read[parse_arg(text, q).next] EXCEPT
                         !.words = <<parse_arg(text, q).word>> \o @]
        BY <2>2, <3>4, <3>5, <3>7 DEF ArgsStep
      <4>2. parse_arg(text, q).word = W[j + 1]  BY <3>2 DEF q
      <4>3. QED  BY <3>8, <4>1, <4>2
    <3>10. read[q] = [words |-> <<W[j + 1]>> \o rest, next |-> end]  BY <3>9
    <3>11. SubSeq(W, j + 1, m) = <<W[j + 1]>> \o rest
      <4>1. j + 1 \in 1..Len(W)  BY <1>4, <3>1
      <4> DEFINE k == j + 1
      <4> HIDE DEF k
      <4>2. W \in Seq(Seq(Ch)) /\ k \in 1..Len(W)  BY <1>4, <4>1 DEF k
      <4>3. SubSeq(W, k, Len(W)) = <<W[k]>> \o SubSeq(W, k + 1, Len(W))
        BY <4>2, FrontOf
      <4>4. QED  BY <1>4, <4>3 DEF k, rest
    <3>12. QED  BY <3>10, <3>11 DEF S
  <2>5. QED  BY <2>3, <2>4
<1>13. \A j \in 1..m : j \in S
  <2> HIDE DEF S
  <2>1. 1 \in Nat  OBVIOUS
  <2>2. QED  BY <1>1, <1>12, <2>1, BackInduction
<1>14. parse_args(text, a) = [words |-> SubSeq(W, 2, m), next |-> end]
  <2>1. 1 \in S /\ e(1) + 1 \in a..Len(text) + 2 /\ 1 + 1 = 2
    <3> HIDE DEF S
    <3>1. QED  BY <1>6, <1>11, <1>13
  <2>2. read[e(1) + 1] = [words |-> SubSeq(W, 2, m), next |-> end]  BY <2>1
  <2>3. QED  BY <1>10, <2>2 DEF a
<1>15. <<W[1]>> \o SubSeq(W, 2, m) = W
  <2>1. 1 \in 1..Len(W) /\ 1 + 1 = 2  BY <1>4, <1>6
  <2>2. SubSeq(W, 1, Len(W)) = <<W[1]>> \o SubSeq(W, 1 + 1, Len(W)) /\ SubSeq(W, 1, Len(W)) = W
    BY <1>4, <2>1, FrontOf
  <2>3. QED  BY <1>4, <2>1, <2>2
<1>16. parse_arg(text, p) # None
  <2>1. parse_arg(text, p).next # 0  BY <1>7, <1>9
  <2>2. QED  BY <2>1 DEF None
<1>17. parse_arg(text, p).next = a /\ parse_arg(text, p).word = W[1]  BY <1>7 DEF a
<1>18. /\ parse_args(text, parse_arg(text, p).next).next = end
       /\ parse_args(text, parse_arg(text, p).next).words = SubSeq(W, 2, m)
  BY <1>14, <1>17
<1>19. CommandNext(text, p) = GoesOn(text, Stop(ws[Len(ws)]))
  BY <1>18 DEF CommandNext, e, m, end
<1>20. QED  BY <1>15, <1>16, <1>17, <1>18, <1>19 DEF W

-----------------------------------------------------------------------------
(* The commands of a text.                                                 *)

\* How many characters there are up to the end of a command.
StopOf(ws) == Stop(ws[Len(ws)])

\* A text that is commands, each but the last with the end of its line directly
\* behind it, and white space between them.
PlacedText(text, Ch, cs) ==
  /\ Len(cs) \in Nat
  /\ \A i \in 1..Len(cs) : PlacedCommand(text, Ch, cs[i])
  /\ IF Len(cs) = 0 THEN Blank(text, 1, Len(text))
     ELSE Blank(text, 1, cs[1][1].at) /\ Blank(text, StopOf(cs[Len(cs)]) + 1, Len(text))
  /\ \A i \in 1..Len(cs) - 1 : /\ Between(text, StopOf(cs[i]), cs[i + 1][1])
                               /\ text[StopOf(cs[i]) + 1] = Newline

\* Where the reading goes on behind the last command.
OnFrom(text, cs) == IF Len(cs) = 0 THEN 1 ELSE GoesOn(text, StopOf(cs[Len(cs)]))

\* The commands without their places.
Commands(cs) == [i \in 1..Len(cs) |-> Words(cs[i])]

\* A command's words are at least one.
LEMMA CommandType ==
  ASSUME NEW Ch, Characters(Ch), NEW text \in Seq(Ch), NEW ws, PlacedCommand(text, Ch, ws)
  PROVE  /\ Words(ws) \in Seq(Seq(Ch)) /\ Len(Words(ws)) >= 1
         /\ ws[1].at \in Nat /\ ws[1].at + 1 <= StopOf(ws) /\ StopOf(ws) \in 1..Len(text)
<1> DEFINE m == Len(ws)
           W == Words(ws)
           e == [j \in 1..m |-> Stop(ws[j])]
<1>1. /\ m \in Nat /\ m >= 1
      /\ \A j \in 1..m : PlacedWord(text, Ch, ws[j])
      /\ \A j \in 1..m - 1 : Between(text, Stop(ws[j]), ws[j + 1])
  BY DEF PlacedCommand
<1> HIDE DEF m
<1>2. \A j \in 1..m : ws[j].word \in Seq(Ch)  BY <1>1 DEF PlacedWord
<1>3. W = [j \in 1..m |-> ws[j].word]  BY DEF Words, m
<1>4. W \in [1..m -> Seq(Ch)]  BY <1>2, <1>3
<1> HIDE DEF W
<1>5. DOMAIN W = 1..m /\ W \in Seq(Seq(Ch))  BY <1>1, <1>4
<1>6. Len(W) = m  BY <1>1, <1>5
<1>7. \A j \in 1..m : e[j] \in 1..Len(text) /\ ws[j].at + 1 <= e[j] /\ ws[j].at \in Nat
  BY <1>1, StopRange DEF PlacedWord
<1>8. \A j \in 1..m - 1 : e[j] < ws[j + 1].at
  <2> TAKE j \in 1..m - 1
  <2>1. j \in 1..m  BY <1>1
  <2>2. QED  BY <1>1, <2>1 DEF Between
<1>9. e[m] = StopOf(ws)
  <2>1. m \in 1..m  BY <1>1
  <2>2. QED  BY <2>1 DEF StopOf, m
<1> HIDE DEF e
<1> DEFINE R == {j \in Nat : j \in 1..m => ws[1].at + 1 <= e[j]}
<1>10. 0 \in R  OBVIOUS
<1>11. ASSUME NEW j \in Nat, j \in R  PROVE j + 1 \in R
  <2> SUFFICES ASSUME j + 1 \in 1..m PROVE ws[1].at + 1 <= e[j + 1]  OBVIOUS
  <2>1. CASE j = 0  BY <1>7, <2>1
  <2>2. CASE j # 0
    <3>1. j \in 1..m /\ j \in 1..m - 1 /\ 1 \in 1..m  BY <1>1, <2>2
    <3>2. ws[1].at + 1 <= e[j]  BY <1>11, <3>1
    <3>3. e[j] < ws[j + 1].at /\ ws[j + 1].at + 1 <= e[j + 1]  BY <1>7, <1>8, <3>1
    <3>4. /\ e[j] \in 1..Len(text) /\ e[j + 1] \in 1..Len(text) /\ ws[j + 1].at \in Nat
          /\ ws[1].at \in Nat
      BY <1>7, <3>1
    <3> HIDE DEF R
    <3>5. QED  BY <3>2, <3>3, <3>4
  <2>3. QED  BY <2>1, <2>2
<1>12. Nat \subseteq R
  <2> HIDE DEF R
  <2>1. QED  BY <1>10, <1>11, SetInduction
<1>13. 1 \in 1..m /\ m \in 1..m  BY <1>1
<1>14. ws[1].at + 1 <= e[m]  BY <1>12, <1>13
<1>15. QED  BY <1>1, <1>5, <1>6, <1>7, <1>9, <1>13, <1>14 DEF W

\* The mark of a dropped reading is not a list of commands.
LEMMA DroppedIs == Dropped # <<>> /\ Dropped[1] = <<>>
<1>1. <<>> \in {<<>>} /\ Len(<<>>) = 0  OBVIOUS
<1> DEFINE e == <<>>
<1> HIDE DEF e
<1>2. e \in {e}  OBVIOUS
<1>3. Len(<<e>>) = 1 /\ <<e>>[1] = e  BY <1>2, OneSeq
<1>4. QED  BY <1>1, <1>3 DEF Dropped, e

\* A text that is laid out is read as its commands, unless a line has ended behind
\* the last (aci/aci.cpp:1046).
LEMMA TextRead ==
  ASSUME NEW Ch, Characters(Ch), NEW text \in Seq(Ch), NEW cs, PlacedText(text, Ch, cs)
  PROVE  parse(text) = IF OnFrom(text, cs) <= Len(text) THEN <<>> ELSE Commands(cs)
<1> DEFINE m == Len(cs)
           C == Commands(cs)
           on == OnFrom(text, cs)
           L == Len(text)
           E == [i \in 0..m |-> IF i = 0 THEN 0 ELSE StopOf(cs[i])]
           at == [i \in 1..m |-> cs[i][1].at]
<1>1. /\ m \in Nat
      /\ \A i \in 1..m : PlacedCommand(text, Ch, cs[i])
      /\ m = 0 => Blank(text, 1, L)
      /\ m # 0 => Blank(text, 1, cs[1][1].at) /\ Blank(text, StopOf(cs[m]) + 1, L)
      /\ \A i \in 1..m - 1 : /\ Between(text, StopOf(cs[i]), cs[i + 1][1])
                             /\ text[StopOf(cs[i]) + 1] = Newline
  BY DEF PlacedText
<1>2. L \in Nat  OBVIOUS
<1>3. \A i \in 1..m : /\ Words(cs[i]) \in Seq(Seq(Ch)) /\ Len(Words(cs[i])) >= 1
                      /\ at[i] \in Nat /\ at[i] + 1 <= E[i] /\ E[i] \in 1..L
  <2> TAKE i \in 1..m
  <2>1. PlacedCommand(text, Ch, cs[i]) /\ i \in 0..m /\ i # 0  BY <1>1
  <2>2. E[i] = StopOf(cs[i]) /\ at[i] = cs[i][1].at  BY <2>1
  <2> HIDE DEF E, at
  <2>3. QED  BY <2>1, <2>2, CommandType
<1>4. E[0] = 0
  <2>1. 0 \in 0..m  BY <1>1
  <2>2. QED  BY <2>1
<1>5. \A i \in 0..m - 1 : /\ E[i] <= at[i + 1] /\ Blank(text, E[i] + 1, at[i + 1])
                          /\ at[i + 1] = cs[i + 1][1].at
  <2> TAKE i \in 0..m - 1
  <2>1. i + 1 \in 1..m /\ i \in 0..m /\ at[i + 1] = cs[i + 1][1].at  BY <1>1
  <2>2. CASE i = 0
    <3>1. E[i] + 1 = 1 /\ i + 1 = 1 /\ m # 0 /\ E[i] = 0  BY <1>1, <1>4, <2>2
    <3> HIDE DEF E, at
    <3>2. at[1] \in Nat  BY <1>3, <2>1, <3>1
    <3>3. QED  BY <1>1, <2>1, <3>1, <3>2
  <2>3. CASE i # 0
    <3>1. i \in 1..m - 1 /\ i \in 1..m /\ E[i] = StopOf(cs[i])  BY <1>1, <2>1, <2>3
    <3>2. E[i] < at[i + 1] /\ Blank(text, E[i] + 1, at[i + 1])
      BY <1>1, <2>1, <3>1 DEF Between
    <3> HIDE DEF E, at
    <3>3. E[i] \in 1..L /\ at[i + 1] \in Nat  BY <1>3, <2>1, <3>1
    <3>4. QED  BY <2>1, <3>2, <3>3
  <2>4. QED  BY <2>2, <2>3
<1>6. \A i \in 1..m : E[i] = StopOf(cs[i])
  <2>1. \A i \in 1..m : i \in 0..m /\ i # 0  BY <1>1
  <2>2. QED  BY <2>1
<1>o. on = IF m = 0 THEN 1 ELSE GoesOn(text, StopOf(cs[m]))  BY DEF OnFrom
<1>7. C = [i \in 1..m |-> Words(cs[i])]  BY DEF Commands
<1> HIDE DEF m, C, L, E, at, on
<1>8. C \in Seq(Seq(Seq(Ch))) /\ Len(C) = m /\ \A i \in 1..m : C[i] = Words(cs[i])
  <2>1. C \in [1..m -> Seq(Seq(Ch))] /\ \A i \in 1..m : C[i] = Words(cs[i])  BY <1>3, <1>7
  <2>2. DOMAIN C = 1..m /\ C \in Seq(Seq(Seq(Ch)))  BY <1>1, <2>1
  <2>3. QED  BY <1>1, <2>1, <2>2
<1>9. \A i \in 0..m : E[i] \in 0..L
  <2> TAKE i \in 0..m
  <2>1. CASE i = 0  BY <1>2, <1>4, <2>1
  <2>2. CASE i # 0
    <3>1. i \in 1..m  BY <1>1, <2>2
    <3>2. E[i] \in 1..L  BY <1>3, <3>1
    <3>3. QED  BY <1>2, <3>2
  <2>3. QED  BY <2>1, <2>2
<1>10. PICK read :
         /\ parse(text) = IF read[1] = Dropped THEN <<>> ELSE read[1]
         /\ \A p \in 1..L + 2 : read[p] = ParseStep(text, p, read[CommandNext(text, p)])
  BY ParseUnfold DEF L
<1> DEFINE G == [i \in 0..m |-> IF i = m THEN on ELSE E[i] + 1]
           tail(i) == IF on <= L THEN Dropped ELSE SubSeq(C, i + 1, m)
           S == {i \in 0..m : read[G[i]] = tail(i)}
<1>g. /\ \A i \in 1..m : G[i] = GoesOn(text, E[i])
      /\ \A i \in 0..m - 1 : G[i] = E[i] + 1
      /\ G[m] = on /\ on \in 1..L + 1
  <2>1. m \in 0..m /\ \A i \in 0..m - 1 : i \in 0..m /\ i # m  BY <1>1
  <2>2. G[m] = on /\ \A i \in 0..m - 1 : G[i] = E[i] + 1  BY <2>1
  <2>3. \A i \in 1..m - 1 : G[i] = GoesOn(text, E[i])
    <3> TAKE i \in 1..m - 1
    <3>1. i \in 0..m - 1 /\ i \in 1..m  BY <1>1
    <3>2. text[E[i] + 1] = Newline  BY <1>1, <1>6, <3>1
    <3>3. QED  BY <2>2, <3>1, <3>2 DEF GoesOn
  <2>4. m # 0 => G[m] = GoesOn(text, E[m])
    <3> SUFFICES ASSUME m # 0 PROVE G[m] = GoesOn(text, E[m])  OBVIOUS
    <3>1. m \in 1..m  BY <1>1
    <3>2. QED  BY <1>6, <1>o, <2>2, <3>1
  <2> HIDE DEF G
  <2>5. on \in 1..L + 1
    <3>1. CASE m = 0  BY <1>2, <1>o, <3>1
    <3>2. CASE m # 0
      <4>1. m \in 1..m  BY <1>1, <3>2
      <4>2. E[m] \in 1..L /\ on = GoesOn(text, E[m])  BY <1>3, <2>2, <2>4, <3>2, <4>1
      <4>3. QED  BY <1>2, <4>2 DEF GoesOn, L
    <3>3. QED  BY <3>1, <3>2
  <2>6. \A i \in 1..m : i = m \/ i \in 1..m - 1  BY <1>1
  <2>7. QED  BY <1>1, <2>2, <2>3, <2>4, <2>5, <2>6
<1>b. on <= L => Blank(text, on, L)
  <2>1. CASE m = 0  BY <1>1, <1>o, <2>1
  <2>2. CASE m # 0
    <3>0. m \in 1..m  BY <1>1, <2>2
    <3>1. on = GoesOn(text, E[m]) /\ Blank(text, E[m] + 1, L)
      <4>1. E[m] = StopOf(cs[m]) /\ G[m] = GoesOn(text, E[m]) /\ G[m] = on
        BY <1>6, <1>g, <3>0
      <4>2. Blank(text, StopOf(cs[m]) + 1, L)  BY <1>1, <2>2
      <4>3. QED  BY <4>1, <4>2
    <3>2. on <= L => on = E[m] + 1  BY <1>2, <3>1 DEF GoesOn, L
    <3>3. QED  BY <3>1, <3>2
  <2>3. QED  BY <2>1, <2>2
<1> HIDE DEF G

\* No command is empty, so that nothing looks as if it were dropped.
<1>11. \A i \in 0..m : SubSeq(C, i + 1, m) # Dropped
  <2> SUFFICES ASSUME NEW i \in 0..m, SubSeq(C, i + 1, m) = Dropped PROVE FALSE  OBVIOUS
  <2> DEFINE r == SubSeq(C, i + 1, m)
  <2>1. CASE i = m
    <3>1. r = <<>>  BY <1>1, <1>8, <2>1
    <3>2. QED  BY <3>1, DroppedIs
  <2>2. CASE i # m
    <3>1. i + 1 \in 1..Len(C) /\ i + 1 \in 1..m  BY <1>1, <1>8, <2>2
    <3> DEFINE k == i + 1
    <3>2. k \in 1..Len(C) /\ k \in 1..m  BY <3>1
    <3> HIDE DEF k
    <3>3. SubSeq(C, k, Len(C)) = <<C[k]>> \o SubSeq(C, k + 1, Len(C))
      BY <1>8, <3>2, FrontOf
    <3>4. SubSeq(C, k + 1, Len(C)) \in Seq(Seq(Seq(Ch)))
      <4>1. C \in Seq(Seq(Seq(Ch)))  BY <1>8
      <4>2. QED  BY <3>2, <4>1, FrontOf
    <3>5. C[k] \in Seq(Seq(Ch)) /\ Len(C[k]) >= 1  BY <1>3, <1>8, <3>2
    <3>6. (<<C[k]>> \o SubSeq(C, k + 1, Len(C)))[1] = C[k]
      <4> DEFINE t == SubSeq(C, k + 1, Len(C))
                 v == <<C[k]>>
      <4>1. v \in Seq(Seq(Seq(Ch))) /\ Len(v) = 1 /\ v[1] = C[k] /\ t \in Seq(Seq(Seq(Ch)))
        BY <3>4, <3>5
      <4> HIDE DEF t, v
      <4>2. \A x \in 1..Len(v) : (v \o t)[x] = v[x]  BY <4>1, Joined
      <4>3. QED  BY <4>1, <4>2 DEF t, v
    <3>7. r[1] = C[k]  BY <1>8, <3>3, <3>6 DEF k
    <3>8. r[1] = <<>>
      <4>1. r = Dropped  OBVIOUS
      <4> HIDE DEF r
      <4>2. QED  BY <4>1, DroppedIs
    <3>9. C[k] = <<>>  BY <3>7, <3>8
    <3>10. Len(<<>>) = 0  OBVIOUS
    <3>11. QED  BY <3>5, <3>9, <3>10
  <2>3. QED  BY <2>1, <2>2
<1>12. ASSUME NEW i \in 0..m, \A k \in i + 1..m : k \in S  PROVE i \in S
  <2> DEFINE p == G[i]
  <2>1. p \in 1..L + 2 /\ E[i] \in 0..L
    <3>1. E[i] \in 0..L  BY <1>9
    <3>2. i = m \/ i \in 0..m - 1  BY <1>1
    <3>3. QED  BY <1>2, <1>g, <3>1, <3>2
  <2>2. read[p] = ParseStep(text, p, read[CommandNext(text, p)])  BY <1>10, <2>1
  <2>3. CASE i = m
    <3>1. p = on  BY <1>g, <2>3
    <3>2. CASE on <= L
      <4>1. on \in 1..Len(text) /\ Blank(text, on, Len(text)) /\ ~(p > Len(text))
        BY <1>2, <1>b, <1>g, <3>1, <3>2 DEF L
      <4>2. parse_arg(text, p) = None  BY <3>1, <4>1, BlankNone
      <4> HIDE DEF p
      <4>3. read[p] = Dropped  BY <2>2, <4>1, <4>2 DEF ParseStep
      <4>4. QED  BY <3>2, <4>3 DEF p
    <3>3. CASE ~(on <= L)
      <4>1. p > Len(text)  BY <1>2, <1>g, <3>1, <3>3 DEF L
      <4>2. read[p] = <<>>  BY <2>2, <4>1 DEF ParseStep
      <4>3. SubSeq(C, i + 1, m) = <<>>  BY <1>1, <1>8, <2>3
      <4>4. QED  BY <3>3, <4>2, <4>3
    <3>4. QED  BY <3>2, <3>3
  <2>4. CASE i # m
    <3>1. i \in 0..m - 1 /\ i + 1 \in i + 1..m /\ i + 1 \in 1..m  BY <1>1, <2>4
    <3> DEFINE ws == cs[i + 1]
               x == E[i]
               z == ws[1].at
               y == E[i + 1]
    <3>a. p = x + 1  BY <1>g, <3>1
    <3>2. /\ x <= z /\ Blank(text, p, z) /\ z \in Nat /\ z + 1 <= y /\ y \in 1..L
          /\ PlacedCommand(text, Ch, ws) /\ x \in 0..L
      <4>1. /\ E[i] <= at[i + 1] /\ Blank(text, E[i] + 1, at[i + 1])
            /\ at[i + 1] = cs[i + 1][1].at
        BY <1>5, <3>1
      <4>a. Blank(text, p, at[i + 1])  BY <3>a, <4>1
      <4>2. at[i + 1] \in Nat /\ at[i + 1] + 1 <= E[i + 1] /\ E[i + 1] \in 1..L
        BY <1>3, <3>1
      <4>3. PlacedCommand(text, Ch, cs[i + 1])  BY <1>1, <3>1
      <4>4. QED  BY <2>1, <4>1, <4>2, <4>3, <4>a
    <3>3. p \in 1..Len(text) /\ p - 1 <= z
      <4> HIDE DEF x, y, z
      <4>1. x \in Nat /\ x <= z /\ z + 1 <= y /\ y \in 1..L /\ z \in Nat  BY <1>2, <3>2
      <4>2. x + 1 \in 1..L /\ x + 1 - 1 <= z  BY <1>2, <4>1
      <4>3. p = x + 1  BY <3>a
      <4> HIDE DEF p, S
      <4>4. p - 1 = x  BY <1>2, <4>1, <4>3
      <4>5. p \in 1..L  BY <4>2, <4>3
      <4>6. p - 1 <= z  BY <4>1, <4>4
      <4>7. QED  BY <4>5, <4>6 DEF L
    <3> HIDE DEF p, x, y, ws
    <3>4. /\ parse_arg(text, p) # None
          /\ CommandNext(text, p) = GoesOn(text, Stop(ws[Len(ws)]))
          /\ <<parse_arg(text, p).word>> \o parse_args(text, parse_arg(text, p).next).words
               = Words(ws)
      BY <3>2, <3>3, CommandRead
    <3>5. CommandNext(text, p) = G[i + 1]  BY <1>6, <1>g, <3>1, <3>4 DEF StopOf, ws
    <3> DEFINE rest == SubSeq(C, i + 1 + 1, m)
    <3>6. read[G[i + 1]] = tail(i + 1)
      <4>1. i + 1 \in S  BY <1>12, <3>1
      <4>2. QED  BY <4>1
    <3>l. CASE on <= L
      <4>1. ~(p > Len(text)) /\ read[G[i + 1]] = Dropped  BY <1>2, <3>3, <3>6, <3>l DEF L
      <4>2. read[p] = Dropped  BY <2>2, <3>4, <3>5, <4>1 DEF ParseStep
      <4>3. QED  BY <3>l, <4>2 DEF p
    <3>k. CASE ~(on <= L)
      <4>7. rest # Dropped
        <5>1. i + 1 \in 0..m  BY <3>1
        <5>2. QED  BY <1>11, <5>1
      <4>s. read[G[i + 1]] = rest  BY <3>6, <3>k
      <4> HIDE DEF rest
      <4>8. ~(p > Len(text))  BY <1>2, <3>3 DEF L
      <4>9. read[p] = <<Words(ws)>> \o rest
        BY <2>2, <3>4, <3>5, <4>s, <4>7, <4>8 DEF ParseStep
      <4>10. Words(ws) = C[i + 1]  BY <1>8, <3>1 DEF ws
      <4>11. SubSeq(C, i + 1, m) = <<C[i + 1]>> \o rest
        <5> DEFINE k == i + 1
        <5>1. C \in Seq(Seq(Seq(Ch))) /\ k \in 1..Len(C)  BY <1>8, <3>1
        <5> HIDE DEF k
        <5>2. SubSeq(C, k, Len(C)) = <<C[k]>> \o SubSeq(C, k + 1, Len(C))
          BY <5>1, FrontOf
        <5>3. QED  BY <1>8, <5>2 DEF k, rest
      <4>12. QED  BY <3>k, <4>9, <4>10, <4>11 DEF p
    <3>q. QED  BY <3>l, <3>k
  <2>5. QED  BY <2>3, <2>4
<1>13. \A i \in 0..m : i \in S
  <2> HIDE DEF S
  <2>1. 0 \in Nat  OBVIOUS
  <2>2. QED  BY <1>1, <1>12, <2>1, BackInduction
<1>14. read[1] = tail(0)
  <2>1. 0 \in S /\ 0 \in 0..m
    <3> HIDE DEF S
    <3>1. 0 \in 0..m  BY <1>1
    <3>2. QED  BY <1>13, <3>1
  <2>2. read[G[0]] = tail(0)  BY <2>1
  <2>3. G[0] = 1
    <3>1. CASE m = 0  BY <1>g, <1>o, <3>1
    <3>2. CASE m # 0
      <4>1. 0 \in 0..m - 1  BY <1>1, <3>2
      <4>2. QED  BY <1>4, <1>g, <4>1
    <3>3. QED  BY <3>1, <3>2
  <2>4. QED  BY <2>2, <2>3
<1>15. SubSeq(C, 0 + 1, m) = C  BY <1>1, <1>8
<1>16. ~(on <= L) => read[1] = C /\ read[1] # Dropped
  <2>1. 0 \in 0..m  BY <1>1
  <2>2. QED  BY <1>11, <1>14, <1>15, <2>1
<1>17. on <= L => read[1] = Dropped  BY <1>14
<1>18. parse(text) = IF on <= L THEN <<>> ELSE C  BY <1>10, <1>16, <1>17
<1>19. QED  BY <1>18 DEF C, L, on

-----------------------------------------------------------------------------
(* The text of a script.                                                   *)

\* Parts kept apart by a separator: the i-th begins behind at[i] characters.
SeparatedAs(parts, separator, s, at) ==
  /\ at \in [1..Len(parts) -> Nat]
  /\ IF Len(parts) = 0 THEN s = <<>>
     ELSE at[1] = 0 /\ at[Len(parts)] + Len(parts[Len(parts)]) = Len(s)
  /\ \A i \in 1..Len(parts) : Holds(s, at[i], parts[i])
  /\ \A i \in 1..Len(parts) - 1 :
       /\ at[i + 1] = at[i] + Len(parts[i]) + 1
       /\ s[at[i] + Len(parts[i]) + 1] = separator

\* Parts that are separated have such places.
LEMMA SeparatedForm ==
  ASSUME NEW Ch, NEW sep \in Ch, NEW parts \in Seq(Seq(Ch))
  PROVE  /\ Separated(parts, sep) \in Seq(Ch)
         /\ \E at : SeparatedAs(parts, sep, Separated(parts, sep), at)
<1> DEFINE n == Len(parts)
           q == <<sep>>
           ps == [i \in DOMAIN parts |-> IF i = 1 THEN parts[i] ELSE q \o parts[i]]
           s == FlattenSeq(ps)
<1>1. n \in Nat /\ DOMAIN parts = 1..n /\ \A i \in 1..n : parts[i] \in Seq(Ch)  OBVIOUS
<1>2. q \in Seq(Ch) /\ Len(q) = 1 /\ q[1] = sep  BY OneSeq
<1> HIDE DEF q
<1>3. ASSUME NEW i \in 1..n
      PROVE  /\ q \o parts[i] \in Seq(Ch) /\ Len(q \o parts[i]) = 1 + Len(parts[i])
             /\ (q \o parts[i])[1] = sep
             /\ \A k \in 1..Len(parts[i]) : (q \o parts[i])[1 + k] = parts[i][k]
  <2> DEFINE t == parts[i]
  <2>1. q \in Seq(Ch) /\ t \in Seq(Ch)  BY <1>1, <1>2
  <2> HIDE DEF t
  <2>2. /\ q \o t \in Seq(Ch) /\ Len(q \o t) = Len(q) + Len(t)
        /\ \A k \in 1..Len(q) : (q \o t)[k] = q[k]
        /\ \A k \in 1..Len(t) : (q \o t)[Len(q) + k] = t[k]
    BY <2>1, Joined
  <2>3. QED  BY <1>2, <2>2 DEF t
<1>4. \A i \in 1..n : ps[i] = IF i = 1 THEN parts[i] ELSE q \o parts[i]  BY <1>1
<1>5. ps \in Seq(Seq(Ch)) /\ Len(ps) = n
  <2>1. ps \in [1..n -> Seq(Ch)]  BY <1>1, <1>3
  <2>2. n \in Nat  BY <1>1
  <2> HIDE DEF ps, n
  <2>3. QED  BY <2>1, <2>2, FunSeq
<1> HIDE DEF ps
<1>6. s \in Seq(Ch)  BY <1>5, FlattenType
<1>7. PICK pos : FlatAt(ps, s, pos)  BY <1>5, FlattenPlaces
<1> HIDE DEF s, n
<1>8. Len(s) \in Nat  BY <1>6
<1>9. /\ pos \in [0..n -> Nat] /\ pos[0] = 0 /\ Len(s) = pos[n]
      /\ \A i \in 1..n : pos[i] = pos[i - 1] + Len(ps[i])
      /\ \A i \in 0..n : pos[i] <= Len(s)
      /\ \A i \in 1..n : \A k \in 1..Len(ps[i]) : s[pos[i - 1] + k] = ps[i][k]
  BY <1>5, <1>7 DEF FlatAt
<1> DEFINE at == [i \in 1..n |-> IF i = 1 THEN 0 ELSE pos[i - 1] + 1]
<1>10. /\ at \in [1..n -> Nat] /\ (n # 0 => at[1] = 0)
       /\ \A i \in 1..n : at[i] = (IF i = 1 THEN 0 ELSE pos[i - 1] + 1)
  <2>1. \A i \in 1..n : i - 1 \in 0..n  BY <1>1
  <2>2. n # 0 => 1 \in 1..n  BY <1>1
  <2>3. QED  BY <1>9, <2>1, <2>2
<1> HIDE DEF at
<1>11. ASSUME NEW i \in 1..n
       PROVE  /\ Holds(s, at[i], parts[i])
              /\ at[i] + Len(parts[i]) = pos[i] /\ pos[i] \in Nat
              /\ i # 1 => s[at[i]] = sep
  <2> DEFINE x == pos[i - 1]
             l == Len(parts[i])
             own == parts[i]
             L == Len(s)
  <2>1. i - 1 \in 0..n /\ i \in 0..n  BY <1>1
  <2>2. x \in Nat /\ pos[i] = x + Len(ps[i]) /\ pos[i] <= L /\ L \in Nat /\ pos[i] \in Nat
    BY <1>8, <1>9, <2>1
  <2>3. \A k \in 1..Len(ps[i]) : s[x + k] = ps[i][k]  BY <1>9
  <2>4. l \in Nat  BY <1>1
  <2>5. CASE i = 1
    <3>1. at[i] = 0 /\ x = 0 /\ ps[i] = own  BY <1>4, <1>9, <1>10, <2>5
    <3>2. \A k \in 1..l : s[0 + k] = own[k]  BY <2>3, <3>1
    <3> HIDE DEF x
    <3>3. pos[i] = 0 + l  BY <2>2, <3>1
    <3> HIDE DEF l, own, L
    <3>4. 0 + l <= L /\ 0 + l = pos[i]  BY <2>2, <3>3
    <3>5. Holds(s, 0, own)  BY <3>2, <3>4 DEF Holds, l, own, L
    <3>6. QED  BY <2>2, <2>5, <3>1, <3>4, <3>5 DEF l, own
  <2>6. CASE i # 1
    <3>1. at[i] = x + 1 /\ ps[i] = q \o own  BY <1>4, <1>10, <2>6
    <3>2. /\ Len(ps[i]) = 1 + l /\ ps[i][1] = sep
          /\ \A k \in 1..l : ps[i][1 + k] = own[k]
      BY <1>3, <3>1
    <3> HIDE DEF l, own, L, x
    <3>3. pos[i] = x + 1 + l /\ x + 1 + l <= L  BY <2>2, <2>4, <3>2
    <3>4. s[x + 1] = sep
      <4>1. 1 \in 1..Len(ps[i])  BY <2>4, <3>2
      <4>2. QED  BY <2>3, <3>2, <4>1
    <3>5. \A k \in 1..l : s[x + 1 + k] = own[k]
      <4> TAKE k \in 1..l
      <4>1. 1 + k \in 1..1 + l /\ x + (1 + k) = x + 1 + k  BY <2>2, <2>4
      <4>2. s[x + (1 + k)] = ps[i][1 + k]  BY <2>3, <3>2, <4>1
      <4>3. QED  BY <3>2, <4>1, <4>2
    <3>6. Holds(s, x + 1, own)  BY <3>3, <3>5 DEF Holds, l, own, L
    <3>7. QED  BY <2>2, <3>1, <3>3, <3>4, <3>6 DEF l, own
  <2>7. QED  BY <2>5, <2>6
<1>12. n # 0 => at[n] + Len(parts[n]) = Len(s)
  <2> SUFFICES ASSUME n # 0 PROVE at[n] + Len(parts[n]) = Len(s)  OBVIOUS
  <2>1. n \in 1..n  BY <1>1
  <2>2. QED  BY <1>9, <1>11, <2>1
<1>13. n = 0 => s = <<>>  BY <1>6, <1>9
<1>14. ASSUME NEW i \in 1..n - 1
       PROVE  /\ at[i + 1] = at[i] + Len(parts[i]) + 1
              /\ s[at[i] + Len(parts[i]) + 1] = sep
  <2>1. i \in 1..n /\ i + 1 \in 1..n /\ i + 1 # 1 /\ i + 1 - 1 = i  BY <1>1
  <2>2. at[i] + Len(parts[i]) = pos[i] /\ pos[i] \in Nat  BY <1>11, <2>1
  <2>3. at[i + 1] = pos[i] + 1  BY <1>10, <2>1
  <2>4. s[at[i + 1]] = sep  BY <1>11, <2>1
  <2>5. QED  BY <2>2, <2>3, <2>4
<1>15. SeparatedAs(parts, sep, s, at)
  BY <1>10, <1>11, <1>12, <1>13, <1>14 DEF SeparatedAs, n
<1>16. s = Separated(parts, sep)  BY DEF s, ps, q, Separated
<1>17. QED  BY <1>6, <1>15, <1>16

\* What is in a part is in the whole.
LEMMA HoldsIn ==
  ASSUME NEW Ch, NEW text \in Seq(Ch), NEW t \in Seq(Ch), NEW s \in Seq(Ch),
         NEW a \in Nat, NEW b \in Nat, Holds(text, a, t), Holds(t, b, s)
  PROVE  Holds(text, a + b, s)
<1> DEFINE l == Len(s)
           L == Len(t)
           M == Len(text)
<1>1. l \in Nat /\ L \in Nat /\ M \in Nat  OBVIOUS
<1>2. a + L <= M /\ \A k \in 1..L : text[a + k] = t[k]  BY DEF Holds
<1>3. b + l <= L /\ \A k \in 1..l : t[b + k] = s[k]  BY DEF Holds
<1> HIDE DEF l, L, M
<1>4. a + b + l <= M  BY <1>1, <1>2, <1>3
<1>5. \A k \in 1..l : text[a + b + k] = s[k]
  <2> TAKE k \in 1..l
  <2>1. b + k \in 1..L /\ a + (b + k) = a + b + k  BY <1>1, <1>3
  <2>2. text[a + (b + k)] = t[b + k]  BY <1>2, <2>1
  <2>3. QED  BY <1>3, <2>1, <2>2
<1>6. QED  BY <1>4, <1>5 DEF Holds, l, M

\* The separator of words.
Space == " "

\* Where the words of a command are, if it begins behind a characters.
PlacesOf(command, forms, a, at) ==
  [j \in 1..Len(command) |-> [word |-> command[j], spelled |-> forms[j], at |-> a + at[j]]]

\* The forms spell the words of a command.
SpellsAll(command, forms) ==
  /\ Len(command) >= 1 /\ Len(forms) = Len(command)
  /\ \A j \in 1..Len(command) : Spells(command[j], forms[j])

\* The end of a line or of the text behind e characters.
EndsAt(text, e) == Blank(text, e + 1, Len(text)) \/ text[e + 1] = Newline

\* The text's end is one.
LEMMA EndOfText == ASSUME NEW text, Len(text) \in Nat PROVE EndsAt(text, Len(text))
<1>1. \A q \in Len(text) + 1..Len(text) : FALSE  OBVIOUS
<1>2. QED  BY <1>1 DEF EndsAt, Blank

\* A space is white space, but does not end a line.
LEMMA SpaceIs == Space # Newline /\ Unimportant(Space)
<1>1. QED  BY DEF Space, Newline, Unimportant

\* Words that are spelled with spaces between them are placed.
LEMMA CommandPlaced ==
  ASSUME NEW Ch, Characters(Ch), NEW text \in Seq(Ch), NEW command \in Seq(Seq(Ch)),
         NEW forms \in Seq(Seq(Ch)), SpellsAll(command, forms),
         NEW t \in Seq(Ch), NEW at, SeparatedAs(forms, Space, t, at),
         NEW a \in Nat, Holds(text, a, t), EndsAt(text, a + Len(t))
  PROVE  LET ws == PlacesOf(command, forms, a, at)
         IN  /\ PlacedCommand(text, Ch, ws) /\ ws[1].at = a
             /\ StopOf(ws) = a + Len(t) /\ Words(ws) = command
<1> DEFINE ws == PlacesOf(command, forms, a, at)
           m == Len(command)
           end == a + Len(t)
<1>0. m \in Nat /\ m >= 1 /\ Len(forms) = m /\ \A j \in 1..m : Spells(command[j], forms[j])
  BY DEF SpellsAll
<1>1. m \in Nat /\ m >= 1 /\ 1 \in 1..m /\ m \in 1..m
  <2> HIDE DEF m
  <2>1. QED  BY <1>0
<1>2. /\ at \in [1..m -> Nat] /\ at[1] = 0 /\ at[m] + Len(forms[m]) = Len(t)
      /\ \A j \in 1..m : Holds(t, at[j], forms[j])
      /\ \A j \in 1..m - 1 : /\ at[j + 1] = at[j] + Len(forms[j]) + 1
                             /\ t[at[j] + Len(forms[j]) + 1] = Space
  BY <1>0 DEF SeparatedAs
<1>3. /\ \A j \in 1..m : command[j] \in Seq(Ch) /\ forms[j] \in Seq(Ch) /\ Spells(command[j], forms[j])
                       /\ Len(forms[j]) \in Nat
      /\ Len(t) \in Nat /\ Len(text) \in Nat
  <2>1. \A j \in 1..m : command[j] \in Seq(Ch) /\ forms[j] \in Seq(Ch)  BY <1>0
  <2>2. \A j \in 1..m : Len(forms[j]) \in Nat  BY <2>1
  <2>3. QED  BY <1>0, <2>1, <2>2
<1>4. Blank(text, end + 1, Len(text)) \/ text[end + 1] = Newline
  BY DEF EndsAt
<1>5. Len(ws) = m /\ \A j \in 1..m : /\ ws[j].word = command[j] /\ ws[j].spelled = forms[j]
                                     /\ ws[j].at = a + at[j]
  <2>1. ws = [j \in 1..m |-> [word |-> command[j], spelled |-> forms[j], at |-> a + at[j]]]
    BY DEF PlacesOf
  <2> HIDE DEF ws, m
  <2>3. Len(ws) = m
    <3>1. ws \in [1..m -> {ws[j] : j \in 1..m}]  BY <2>1
    <3>2. m \in Nat  BY <1>1
    <3>3. QED  BY <3>1, <3>2, FunSeq
  <2>4. QED  BY <2>1, <2>3
<1>6. a + Len(t) <= Len(text) /\ \A k \in 1..Len(t) : text[a + k] = t[k]  BY DEF Holds
<1> HIDE DEF ws, m, end
<1>7. \A j \in 1..m : PlacedWord(text, Ch, ws[j])
  <2> TAKE j \in 1..m
  <2>1. at[j] \in Nat /\ Holds(t, at[j], forms[j]) /\ forms[j] \in Seq(Ch)  BY <1>2, <1>3
  <2> DEFINE b == at[j]
             s == forms[j]
  <2>2. b \in Nat /\ Holds(t, b, s) /\ s \in Seq(Ch)  BY <2>1
  <2> HIDE DEF b, s
  <2>3. Holds(text, a + b, s)  BY <2>2, HoldsIn
  <2>4. a + b \in Nat  BY <2>2
  <2>5. QED  BY <1>3, <1>5, <2>3, <2>4 DEF PlacedWord, b, s
<1>8. \A j \in 1..m : Stop(ws[j]) = a + at[j] + Len(forms[j])  BY <1>5 DEF Stop
<1>9. ASSUME NEW j \in 1..m - 1
      PROVE  Between(text, Stop(ws[j]), ws[j + 1]) /\ text[Stop(ws[j]) + 1] # Newline
  <2>1. j \in 1..m /\ j + 1 \in 1..m  BY <1>1
  <2> DEFINE b == at[j]
             l == Len(forms[j])
             c == at[j + 1]
             L == Len(t)
             e == Stop(ws[j])
  <2>2. /\ b \in Nat /\ l \in Nat /\ c \in Nat /\ L \in Nat /\ c = b + l + 1
        /\ t[b + l + 1] = Space /\ e = a + b + l /\ ws[j + 1].at = a + c
    BY <1>2, <1>3, <1>5, <1>8, <2>1
  <2>3. c <= L
    <3> DEFINE k == Len(forms[j + 1])
    <3>1. c + k <= L /\ k \in Nat  BY <1>2, <1>3, <2>1 DEF Holds
    <3> HIDE DEF k, c, L
    <3>2. QED  BY <2>2, <3>1
  <2>4. \A k \in 1..L : text[a + k] = t[k]  BY <1>6
  <2> HIDE DEF b, l, c, L, e
  <2>5. b + l + 1 \in 1..L /\ a + (b + l + 1) = e + 1 /\ a + c = e + 1 /\ e < a + c
        /\ e \in Nat
    BY <2>2, <2>3
  <2>6. text[e + 1] = Space  BY <2>2, <2>4, <2>5
  <2>7. Blank(text, e + 1, a + c)
    <3>1. \A q \in e + 1..a + c : q = e + 1  BY <2>5
    <3>2. Unimportant(text[e + 1])  BY <2>6, SpaceIs
    <3>3. QED  BY <3>1, <3>2 DEF Blank
  <2>8. text[e + 1] # Newline  BY <2>6, SpaceIs
  <2>9. QED  BY <2>2, <2>5, <2>7, <2>8 DEF Between, e
<1>10. Stop(ws[m]) = end
  <2>1. at[m] \in Nat /\ Len(forms[m]) \in Nat  BY <1>1, <1>2, <1>3
  <2> DEFINE x == at[m]
             y == Len(forms[m])
             z == Len(t)
  <2>2. x \in Nat /\ y \in Nat /\ x + y = z /\ Stop(ws[m]) = a + x + y
    BY <1>1, <1>2, <1>8, <2>1
  <2> HIDE DEF x, y, z
  <2>3. Stop(ws[m]) = a + z  BY <2>2
  <2>4. QED  BY <2>3 DEF end, z
<1>11. ws[1].at = a  BY <1>1, <1>2, <1>5
<1>12. PlacedCommand(text, Ch, ws)
  BY <1>1, <1>4, <1>5, <1>7, <1>9, <1>10 DEF PlacedCommand
<1>13. Words(ws) = command
  <2>1. Words(ws) = [j \in 1..m |-> command[j]]  BY <1>5 DEF Words
  <2>2. command = [j \in 1..m |-> command[j]]
    <3>1. DOMAIN command = 1..m  BY DEF m
    <3>2. QED  BY <3>1
  <2>3. QED  BY <2>1, <2>2
<1>14. StopOf(ws) = end  BY <1>5, <1>10 DEF StopOf
<1>15. QED  BY <1>11, <1>12, <1>13, <1>14 DEF ws, end

\* The spellings of a command's words.
FormsOf(command, always) == [j \in DOMAIN command |-> Spelled(command[j], always)]

\* They spell the command.
LEMMA FormsAre ==
  ASSUME NEW Ch, Characters(Ch), NEW command \in Seq(Seq(Ch)), Len(command) >= 1,
         NEW always
  PROVE  /\ FormsOf(command, always) \in Seq(Seq(Ch))
         /\ SpellsAll(command, FormsOf(command, always))
<1> DEFINE m == Len(command)
           forms == FormsOf(command, always)
<1>1. m \in Nat /\ m >= 1 /\ DOMAIN command = 1..m /\ \A j \in 1..m : command[j] \in Seq(Ch)
  OBVIOUS
<1>2. \A j \in 1..m : Spelled(command[j], always) \in Seq(Ch)
  <2> TAKE j \in 1..m
  <2>1. command[j] \in Seq(Ch)  BY <1>1
  <2>2. Quoted(command[j]) \in Seq(Ch)  BY <2>1, QuotedForm
  <2>3. QED  BY <2>1, <2>2 DEF Spelled
<1>3. \A j \in 1..m : Spells(command[j], Spelled(command[j], always))
  BY DEF Spells, Spelled
<1>4. forms = [j \in 1..m |-> Spelled(command[j], always)]  BY <1>1 DEF FormsOf
<1> HIDE DEF m, forms
<1>5. forms \in [1..m -> Seq(Ch)]  BY <1>2, <1>4
<1>6. forms \in Seq(Seq(Ch)) /\ Len(forms) = m
  <2>1. m \in Nat  BY <1>1
  <2>2. QED  BY <1>5, <2>1, FunSeq
<1>7. \A j \in 1..m : Spells(command[j], forms[j])  BY <1>3, <1>4
<1>8. SpellsAll(command, forms)  BY <1>1, <1>6, <1>7 DEF SpellsAll, m
<1>9. QED  BY <1>6, <1>8 DEF forms

\* Where the words of a spelled command are that begins behind a characters.
PlacesIn(command, always, a) ==
  PlacesOf(command, FormsOf(command, always), a,
           CHOOSE at : SeparatedAs(FormsOf(command, always), Space,
                                   Separated(FormsOf(command, always), Space), at))

\* A command is placed where its spelling is.
LEMMA CommandIn ==
  ASSUME NEW Ch, Characters(Ch), NEW text \in Seq(Ch), NEW command \in Seq(Seq(Ch)),
         Len(command) >= 1, NEW always, NEW a \in Nat,
         Holds(text, a, Separated(FormsOf(command, always), Space)),
         EndsAt(text, a + Len(Separated(FormsOf(command, always), Space)))
  PROVE  LET ws == PlacesIn(command, always, a)
         IN  /\ PlacedCommand(text, Ch, ws) /\ ws[1].at = a
             /\ StopOf(ws) = a + Len(Separated(FormsOf(command, always), Space))
             /\ Words(ws) = command
<1> DEFINE forms == FormsOf(command, always)
           t == Separated(forms, Space)
           at == CHOOSE f : SeparatedAs(forms, Space, t, f)
<1>1. forms \in Seq(Seq(Ch)) /\ SpellsAll(command, forms)  BY FormsAre
<1> HIDE DEF forms
<1>2. Space \in Ch  BY DEF Characters, Space
<1>3. t \in Seq(Ch) /\ \E f : SeparatedAs(forms, Space, t, f)  BY <1>1, <1>2, SeparatedForm
<1> HIDE DEF t
<1>4. SeparatedAs(forms, Space, t, at)  BY <1>3, Zenon
<1>5. PlacesIn(command, always, a) = PlacesOf(command, forms, a, at)
  BY Zenon DEF PlacesIn, forms, t
<1>6. Holds(text, a, t) /\ EndsAt(text, a + Len(t))  BY DEF t, forms
<1> HIDE DEF at
<1> DEFINE ws == PlacesOf(command, forms, a, at)
<1>7. /\ PlacedCommand(text, Ch, ws) /\ ws[1].at = a
      /\ StopOf(ws) = a + Len(t) /\ Words(ws) = command
  BY <1>1, <1>3, <1>4, <1>6, CommandPlaced
<1>8. QED  BY <1>5, <1>7 DEF t, forms

\* The spelling of a script is read as the script (Formats, the user).
LEMMA ScriptRead ==
  ASSUME NEW Ch, Characters(Ch), NEW script \in Seq(Seq(Seq(Ch))),
         \A i \in 1..Len(script) : Len(script[i]) >= 1, NEW always
  PROVE  Spelling(script, always) \in Seq(Ch) /\ parse(Spelling(script, always)) = script
<1> DEFINE n == Len(script)
           Part(c) == Separated(FormsOf(c, always), Space)
           parts == [i \in DOMAIN script |-> Part(script[i])]
           text == Separated(parts, Newline)
<1>1. n \in Nat /\ DOMAIN script = 1..n
      /\ \A i \in 1..n : script[i] \in Seq(Seq(Ch)) /\ Len(script[i]) >= 1
  OBVIOUS
<1>2. Space \in Ch /\ Newline \in Ch  BY DEF Characters, Space
<1>3. \A i \in 1..n : Part(script[i]) \in Seq(Ch)
  <2> TAKE i \in 1..n
  <2>1. script[i] \in Seq(Seq(Ch)) /\ Len(script[i]) >= 1  BY <1>1
  <2> DEFINE c == script[i]
  <2> HIDE DEF c
  <2>2. FormsOf(c, always) \in Seq(Seq(Ch))  BY <2>1, FormsAre DEF c
  <2>3. QED  BY <1>2, <2>2, SeparatedForm DEF c
<1>4. parts = [i \in 1..n |-> Part(script[i])]  BY <1>1
<1>5. Spelling(script, always) = text  BY Zenon DEF Spelling, FormsOf, Space
<1> HIDE DEF parts, n, Part
<1>6. parts \in Seq(Seq(Ch)) /\ Len(parts) = n /\ \A i \in 1..n : parts[i] = Part(script[i])
  <2>1. parts \in [1..n -> Seq(Ch)]  BY <1>3, <1>4
  <2>2. n \in Nat  BY <1>1
  <2>3. QED  BY <1>4, <2>1, <2>2, FunSeq
<1>7. text \in Seq(Ch) /\ \E at : SeparatedAs(parts, Newline, text, at)
  BY <1>2, <1>6, SeparatedForm
<1> HIDE DEF text
<1>8. PICK at : SeparatedAs(parts, Newline, text, at)  BY <1>7
<1>9. /\ at \in [1..n -> Nat]
      /\ n = 0 => text = <<>>
      /\ n # 0 => at[1] = 0 /\ at[n] + Len(parts[n]) = Len(text)
      /\ \A i \in 1..n : Holds(text, at[i], parts[i])
      /\ \A i \in 1..n - 1 : /\ at[i + 1] = at[i] + Len(parts[i]) + 1
                             /\ text[at[i] + Len(parts[i]) + 1] = Newline
  BY <1>6, <1>8 DEF SeparatedAs
<1>10. \A i \in 1..n : EndsAt(text, at[i] + Len(parts[i]))
  <2> TAKE i \in 1..n
  <2>1. CASE i = n
    <3>1. at[i] + Len(parts[i]) = Len(text) /\ Len(text) \in Nat  BY <1>1, <1>7, <1>9, <2>1
    <3>2. QED  BY <3>1, EndOfText
  <2>2. CASE i # n
    <3>1. i \in 1..n - 1  BY <1>1, <2>2
    <3>2. QED  BY <1>9, <3>1 DEF EndsAt
  <2>3. QED  BY <2>1, <2>2
<1> DEFINE cs == [i \in 1..n |-> PlacesIn(script[i], always, at[i])]
<1>11. Len(cs) = n /\ \A i \in 1..n : cs[i] = PlacesIn(script[i], always, at[i])
  <2>1. cs \in [1..n -> {cs[i] : i \in 1..n}]  OBVIOUS
  <2>2. n \in Nat  BY <1>1
  <2>3. \A i \in 1..n : cs[i] = PlacesIn(script[i], always, at[i])  OBVIOUS
  <2> HIDE DEF cs
  <2>4. QED  BY <2>1, <2>2, <2>3, FunSeq
<1> HIDE DEF cs
<1>12. ASSUME NEW i \in 1..n
       PROVE  /\ PlacedCommand(text, Ch, cs[i]) /\ cs[i][1].at = at[i]
              /\ StopOf(cs[i]) = at[i] + Len(parts[i]) /\ Words(cs[i]) = script[i]
  <2> DEFINE c == script[i]
             a == at[i]
  <2>1. /\ c \in Seq(Seq(Ch)) /\ Len(c) >= 1 /\ a \in Nat /\ parts[i] = Part(c)
        /\ Holds(text, a, parts[i]) /\ EndsAt(text, a + Len(parts[i]))
        /\ cs[i] = PlacesIn(c, always, a)
    BY <1>1, <1>6, <1>9, <1>10, <1>11
  <2> HIDE DEF c, a
  <2>2. /\ Holds(text, a, Separated(FormsOf(c, always), Space))
        /\ EndsAt(text, a + Len(Separated(FormsOf(c, always), Space)))
    BY <2>1 DEF Part
  <2> DEFINE ws == PlacesIn(c, always, a)
  <2>3. /\ PlacedCommand(text, Ch, ws) /\ ws[1].at = a
        /\ StopOf(ws) = a + Len(Separated(FormsOf(c, always), Space)) /\ Words(ws) = c
    BY <1>7, <2>1, <2>2, CommandIn
  <2>4. QED  BY <2>1, <2>3 DEF c, a, Part
<1>13. \A i \in 1..n : Len(parts[i]) \in Nat  BY <1>6
<1>14. n # 0 => /\ Blank(text, 1, cs[1][1].at) /\ StopOf(cs[n]) = Len(text)
                /\ Blank(text, StopOf(cs[n]) + 1, Len(text))
  <2> SUFFICES ASSUME n # 0
               PROVE  /\ Blank(text, 1, cs[1][1].at) /\ StopOf(cs[n]) = Len(text)
                      /\ Blank(text, StopOf(cs[n]) + 1, Len(text))
    OBVIOUS
  <2>1. 1 \in 1..n /\ n \in 1..n  BY <1>1
  <2>2. cs[1][1].at = 0 /\ StopOf(cs[n]) = Len(text)  BY <1>9, <1>12, <2>1
  <2>3. \A q \in 1..0 : FALSE  OBVIOUS
  <2>4. Len(text) \in Nat  BY <1>7
  <2>5. \A q \in Len(text) + 1..Len(text) : FALSE  BY <2>4
  <2>6. QED  BY <2>2, <2>3, <2>5 DEF Blank
<1>15. ASSUME NEW i \in 1..n - 1
       PROVE  /\ Between(text, StopOf(cs[i]), cs[i + 1][1])
              /\ text[StopOf(cs[i]) + 1] = Newline
  <2> DEFINE b == at[i]
             l == Len(parts[i])
             e == StopOf(cs[i])
             d == cs[i + 1][1].at
  <2>1. i \in 1..n /\ i + 1 \in 1..n  BY <1>1
  <2>2. /\ b \in Nat /\ l \in Nat /\ e = b + l /\ d = b + l + 1 /\ text[b + l + 1] = Newline
    BY <1>9, <1>12, <1>13, <2>1
  <2> HIDE DEF b, l, e, d
  <2>3. e + 1 = d /\ e < d /\ e \in Nat /\ text[d] = Newline  BY <2>2
  <2>4. \A q \in e + 1..d : q = d  BY <2>3
  <2>5. Unimportant(Newline)  BY DEF Unimportant
  <2>6. Blank(text, e + 1, d)  BY <2>3, <2>4, <2>5 DEF Blank
  <2>7. text[e + 1] = Newline  BY <2>2
  <2>8. QED  BY <2>3, <2>6, <2>7 DEF Between, e, d
<1>16. n = 0 => Blank(text, 1, Len(text))
  <2> SUFFICES ASSUME n = 0 PROVE Blank(text, 1, Len(text))  OBVIOUS
  <2>1. Len(text) = 0  BY <1>9
  <2>2. \A q \in 1..0 : FALSE  OBVIOUS
  <2>3. QED  BY <2>1, <2>2 DEF Blank
<1>20. PlacedText(text, Ch, cs)
  BY <1>1, <1>11, <1>12, <1>14, <1>15, <1>16 DEF PlacedText
<1>21. ~(OnFrom(text, cs) <= Len(text))
  <2>0. Len(text) \in Nat  BY <1>7
  <2>1. CASE n = 0
    <3>1. Len(text) = 0 /\ OnFrom(text, cs) = 1  BY <1>9, <1>11, <2>1 DEF OnFrom
    <3>2. QED  BY <3>1
  <2>2. CASE n # 0
    <3>1. OnFrom(text, cs) = GoesOn(text, Len(text))  BY <1>11, <1>14, <2>2 DEF OnFrom
    <3>2. QED  BY <2>0, <3>1 DEF GoesOn
  <2>3. QED  BY <2>1, <2>2
<1>17. parse(text) = Commands(cs)
  <2>1. parse(text) = IF OnFrom(text, cs) <= Len(text) THEN <<>> ELSE Commands(cs)
    BY <1>7, <1>20, TextRead
  <2>2. QED  BY <1>21, <2>1
<1>18. Commands(cs) = script
  <2>1. Commands(cs) = [i \in 1..n |-> script[i]]  BY <1>11, <1>12 DEF Commands
  <2>2. script = [i \in 1..n |-> script[i]]
    <3>1. DOMAIN script = 1..n  BY <1>1
    <3>2. QED  BY <3>1
  <2>3. QED  BY <2>1, <2>2
<1>19. QED  BY <1>5, <1>7, <1>17, <1>18

-----------------------------------------------------------------------------
(* The pieces of a text.                                                   *)

\* What the character at p does to the pieces from the next on.
PieceStep(text, S, p, after) ==
  IF p > Len(text) THEN <<>>
  ELSE IF text[p] \in S THEN after
  ELSE IF p = Len(text) \/ text[p + 1] \in S THEN <<<<text[p]>>>> \o after
  ELSE [after EXCEPT ![1] = <<text[p]>> \o @]

\* A step leads from pieces to pieces.
LEMMA PieceStepType ==
  ASSUME NEW Ch, NEW text \in Seq(Ch), NEW S, NEW p \in 1..Len(text) + 1,
         NEW after \in Seq(Seq(Ch))
  PROVE  PieceStep(text, S, p, after) \in Seq(Seq(Ch))
<1> DEFINE ch == text[p]
           one == <<ch>>
           two == <<one>>
<1>1. CASE p > Len(text)
  <2>1. <<>> \in Seq(Seq(Ch))  OBVIOUS
  <2>2. QED  BY <1>1, <2>1 DEF PieceStep
<1>2. CASE ~(p > Len(text))
  <2>1. ch \in Ch  BY <1>2
  <2> HIDE DEF ch
  <2>2. one \in Seq(Ch)  BY <2>1, OneSeq
  <2> HIDE DEF one
  <2>3. two \in Seq(Seq(Ch))  BY <2>2, OneSeq
  <2> HIDE DEF two
  <2>4. two \o after \in Seq(Seq(Ch))  BY <2>3, Joined
  <2>5. [after EXCEPT ![1] = one \o @] \in Seq(Seq(Ch))
    <3>1. CASE Len(after) = 0
      <4>1. after = <<>>  BY <3>1
      <4>2. [after EXCEPT ![1] = one \o @] = after  BY <4>1
      <4>3. QED  BY <4>2
    <3>2. CASE Len(after) # 0
      <4> DEFINE n == Len(after)
      <4>1. n \in Nat /\ 1 \in 1..n /\ after \in [1..n -> Seq(Ch)]  BY <3>2
      <4>2. one \o after[1] \in Seq(Ch)
        <5>1. after[1] \in Seq(Ch)  BY <4>1
        <5>2. QED  BY <2>2, <5>1, Joined
      <4>3. [after EXCEPT ![1] = one \o @] \in [1..n -> Seq(Ch)]
        <5> HIDE DEF n
        <5>1. QED  BY <4>1, <4>2
      <4> HIDE DEF n
      <4>4. QED  BY <4>1, <4>3, FunSeq
    <3>3. QED  BY <3>1, <3>2
  <2>6. PieceStep(text, S, p, after) =
          IF ch \in S THEN after
          ELSE IF p = Len(text) \/ text[p + 1] \in S THEN two \o after
          ELSE [after EXCEPT ![1] = one \o @]
    BY <1>2 DEF PieceStep, two, one, ch
  <2>7. QED  BY <2>4, <2>5, <2>6
<1>3. QED  BY <1>1, <1>2

\* Pieces is its loop, from the end to the beginning.
LEMMA PiecesUnfold ==
  ASSUME NEW Ch, NEW text \in Seq(Ch), NEW S
  PROVE  \E from :
           /\ Pieces(text, S) = from[1]
           /\ \A p \in 1..Len(text) + 1 :
                from[p] = PieceStep(text, S, p, from[p + 1])
<1> DEFINE n == Len(text) + 1
           T == Seq(Seq(Ch))
           c == <<>>
           h == [p \in 1..n |-> [t \in T |-> PieceStep(text, S, p, t)]]
           next == [p \in 1..n |-> p + 1]
           Body(f) ==
             [p \in 1..Len(text) + 1 |->
               IF p > Len(text) THEN <<>>
               ELSE IF text[p] \in S THEN f[p + 1]
               ELSE IF p = Len(text) \/ text[p + 1] \in S
                    THEN <<<<text[p]>>>> \o f[p + 1]
               ELSE [f[p + 1] EXCEPT ![1] = <<text[p]>> \o @]]
<1>0. n \in Nat /\ 1 \in Nat /\ 1 <= n /\ Len(text) \in Nat /\ n = Len(text) + 1  OBVIOUS
<1>1. c \in T  OBVIOUS
<1>2. ASSUME NEW p \in 1..n - 1, NEW t \in T  PROVE PieceStep(text, S, p, t) \in T
  <2>1. p \in 1..Len(text) + 1  BY <1>0
  <2>2. QED  BY <2>1, PieceStepType
<1> HIDE DEF n
<1>3. \A p \in 1..n - 1, t \in T : h[p][t] = PieceStep(text, S, p, t)
  <2>1. \A p \in 1..n - 1 : p \in 1..n  BY <1>0
  <2> HIDE DEF T
  <2>2. QED  BY <2>1
<1>4. \A p \in 1..n - 1 : next[p] = p + 1 /\ next[p] \in p + 1..n
  <2> TAKE p \in 1..n - 1
  <2>1. p \in 1..n  BY <1>0
  <2>2. next[p] = p + 1  BY <2>1
  <2>3. QED  BY <1>0, <2>2
<1> HIDE DEF h, next, T
<1>5. PICK x \in [1..n -> T] : Jumps(x, c, h, next, 1, n)
  <2>1. \A p \in 1..n - 1, t \in T : h[p][t] \in T  BY <1>2, <1>3
  <2>2. \A p \in 1..n - 1 : next[p] \in p + 1..n  BY <1>4
  <2> HIDE DEF c
  <2>3. QED  BY <1>0, <1>1, <2>1, <2>2, JumpingFunction
<1>6. \A p \in 1..n : x[p] = IF p = n THEN c ELSE h[p][x[next[p]]]
  BY <1>5 DEF Jumps
<1>7. ASSUME NEW f, NEW p \in 1..n
      PROVE  Body(f)[p] = PieceStep(text, S, p, f[p + 1])
  BY DEF n, PieceStep
<1>8. x = Body(x)
  <2>1. ASSUME NEW p \in 1..n  PROVE x[p] = Body(x)[p]
    <3>1. CASE p = n
      <4>1. PieceStep(text, S, p, x[p + 1]) = c  BY <1>0, <3>1 DEF PieceStep
      <4>2. x[p] = c  BY <1>6, <3>1
      <4> HIDE DEF Body, c
      <4>3. QED  BY <1>7, <4>1, <4>2
    <3>2. CASE p # n
      <4>1. p \in 1..n - 1  BY <1>0, <3>2
      <4>2. next[p] \in 1..n
        <5>1. next[p] \in p + 1..n  BY <1>4, <4>1
        <5>2. QED  BY <1>0, <4>1, <5>1
      <4>3. x[next[p]] \in T  BY <1>5, <4>2
      <4>4. x[p] = h[p][x[next[p]]]  BY <1>6, <3>2
      <4>5. x[p] = PieceStep(text, S, p, x[next[p]])  BY <1>3, <4>1, <4>3, <4>4
      <4> HIDE DEF Body
      <4>6. Body(x)[p] = PieceStep(text, S, p, x[p + 1])  BY <1>7
      <4>7. next[p] = p + 1  BY <1>4, <4>1
      <4>8. QED  BY <4>5, <4>6, <4>7
    <3>3. QED  BY <3>1, <3>2
  <2>2. DOMAIN x = 1..n /\ x = [p \in 1..n |-> x[p]]  BY <1>5
  <2>3. Body(x) = [p \in 1..n |-> Body(x)[p]]  BY DEF n
  <2> HIDE DEF Body
  <2>4. QED  BY <2>1, <2>2, <2>3
<1> DEFINE g == CHOOSE y : y = Body(y)
<1>9. g = Body(g)
  <2> HIDE DEF Body
  <2>1. QED  BY <1>8, Zenon
<1>10. Pieces(text, S) = g[1]  BY Zenon DEF Pieces
<1>11. \A p \in 1..n : g[p] = PieceStep(text, S, p, g[p + 1])
  <2> TAKE p \in 1..n
  <2> HIDE DEF g, Body
  <2>1. g[p] = Body(g)[p]  BY <1>9
  <2>2. QED  BY <1>7, <2>1
<1>12. QED  BY <1>10, <1>11 DEF n

\* Everything from p to e is in S.
AllIn(text, S, p, e) == \A q \in p..e : text[q] \in S

\* A piece behind the first a characters.
PieceAt(text, S, s, a) ==
  Len(s) >= 1 /\ Holds(text, a, s) /\ \A k \in 1..Len(s) : s[k] \notin S

\* What is between two pieces is in S, and there is some.
Gap(text, S, e, b) == e < b /\ AllIn(text, S, e + 1, b)

\* Where the pieces from p on are.
PiecesAt(text, S, p, ps, at) ==
  /\ at \in [1..Len(ps) -> Nat]
  /\ \A i \in 1..Len(ps) : PieceAt(text, S, ps[i], at[i])
  /\ \A i \in 1..Len(ps) - 1 : Gap(text, S, at[i] + Len(ps[i]), at[i + 1])
  /\ Len(ps) = 0 => AllIn(text, S, p, Len(text))
  /\ Len(ps) # 0 => /\ p - 1 <= at[1] /\ AllIn(text, S, p, at[1])
                    /\ AllIn(text, S, at[Len(ps)] + Len(ps[Len(ps)]) + 1, Len(text))

\* A character of S before them is before them.
LEMMA PieceSkip ==
  ASSUME NEW Ch, NEW text \in Seq(Ch), NEW S, NEW p \in 1..Len(text), text[p] \in S,
         NEW ps \in Seq(Seq(Ch)), NEW at, PiecesAt(text, S, p + 1, ps, at)
  PROVE  PiecesAt(text, S, p, ps, at)
<1> DEFINE n == Len(ps)
           L == Len(text)
<1>1. n \in Nat /\ L \in Nat /\ p \in 1..L  OBVIOUS
<1>2. AllIn(text, S, p + 1, L) => AllIn(text, S, p, L)
  <2> HIDE DEF L
  <2>1. \A q \in p..L : q = p \/ q \in p + 1..L  BY <1>1
  <2>2. QED  BY <2>1 DEF AllIn
<1>3. n # 0 => /\ at[1] \in Nat /\ p + 1 - 1 <= at[1] /\ AllIn(text, S, p + 1, at[1])
  <2> SUFFICES ASSUME n # 0
               PROVE  at[1] \in Nat /\ p + 1 - 1 <= at[1] /\ AllIn(text, S, p + 1, at[1])
    OBVIOUS
  <2>1. 1 \in 1..n  BY <1>1
  <2>2. at \in [1..n -> Nat] /\ p + 1 - 1 <= at[1] /\ AllIn(text, S, p + 1, at[1])
    BY DEF PiecesAt
  <2>3. QED  BY <2>1, <2>2
<1>4. n # 0 => p - 1 <= at[1] /\ AllIn(text, S, p, at[1])
  <2> SUFFICES ASSUME n # 0 PROVE p - 1 <= at[1] /\ AllIn(text, S, p, at[1])  OBVIOUS
  <2> DEFINE a == at[1]
  <2>1. a \in Nat /\ p <= a /\ AllIn(text, S, p + 1, a)  BY <1>1, <1>3
  <2> HIDE DEF a
  <2>2. \A q \in p..a : q = p \/ q \in p + 1..a  BY <1>1, <2>1
  <2>3. AllIn(text, S, p, a)  BY <2>1, <2>2 DEF AllIn
  <2>4. QED  BY <1>1, <2>1, <2>3 DEF a
<1>5. QED  BY <1>2, <1>4 DEF PiecesAt, n, L

\* The last character of a piece, with nothing of it read so far.
LEMMA PieceNew ==
  ASSUME NEW Ch, NEW text \in Seq(Ch), NEW S, NEW p \in 1..Len(text), text[p] \notin S,
         p = Len(text) \/ text[p + 1] \in S,
         NEW ps \in Seq(Seq(Ch)), NEW at, PiecesAt(text, S, p + 1, ps, at)
  PROVE  \E f : PiecesAt(text, S, p, <<<<text[p]>>>> \o ps, f)
<1> DEFINE n == Len(ps)
           L == Len(text)
           one == <<text[p]>>
           two == <<one>>
           all == two \o ps
           f == [i \in 1..n + 1 |-> IF i = 1 THEN p - 1 ELSE at[i - 1]]
<1>1. n \in Nat /\ L \in Nat /\ p \in 1..L /\ p - 1 \in Nat  OBVIOUS
<1>2. one \in Seq(Ch) /\ Len(one) = 1 /\ one[1] = text[p]  BY OneSeq
<1> HIDE DEF one
<1>3. two \in Seq(Seq(Ch)) /\ Len(two) = 1 /\ two[1] = one  BY <1>2, OneSeq
<1> HIDE DEF two
<1>4. /\ all \in Seq(Seq(Ch)) /\ Len(all) = 1 + n /\ all[1] = one
      /\ \A i \in 1..n : all[1 + i] = ps[i]
  <2>1. /\ all \in Seq(Seq(Ch)) /\ Len(all) = Len(two) + n
        /\ \A i \in 1..Len(two) : all[i] = two[i]
        /\ \A i \in 1..n : all[Len(two) + i] = ps[i]
    <3> DEFINE E == Seq(Ch)
    <3>1. two \in Seq(E) /\ ps \in Seq(E)  BY <1>3
    <3> HIDE DEF E
    <3>2. /\ all \in Seq(E) /\ Len(all) = Len(two) + n
          /\ \A i \in 1..Len(two) : all[i] = two[i]
          /\ \A i \in 1..n : all[Len(two) + i] = ps[i]
      BY <3>1, Joined
    <3>3. QED  BY <3>2 DEF E
  <2> HIDE DEF all
  <2>2. QED  BY <1>3, <2>1
<1>5. /\ at \in [1..n -> Nat]
      /\ \A i \in 1..n : PieceAt(text, S, ps[i], at[i])
      /\ \A i \in 1..n - 1 : Gap(text, S, at[i] + Len(ps[i]), at[i + 1])
      /\ n = 0 => AllIn(text, S, p + 1, L)
      /\ n # 0 => /\ p <= at[1] /\ AllIn(text, S, p + 1, at[1])
                  /\ AllIn(text, S, at[n] + Len(ps[n]) + 1, L)
  <2>1. p + 1 - 1 = p  BY <1>1
  <2>2. QED  BY <2>1 DEF PiecesAt
<1> HIDE DEF all, n
<1>6. f \in [1..n + 1 -> Nat] /\ f[1] = p - 1 /\ \A i \in 1..n : f[1 + i] = at[i]
  <2>1. \A i \in 1..n + 1 : i # 1 => i - 1 \in 1..n  BY <1>1
  <2>2. \A i \in 1..n : 1 + i \in 1..n + 1 /\ 1 + i # 1 /\ 1 + i - 1 = i  BY <1>1
  <2>3. 1 \in 1..n + 1  BY <1>1
  <2>4. \A i \in 1..n + 1 : f[i] = IF i = 1 THEN p - 1 ELSE at[i - 1]  OBVIOUS
  <2>5. f \in [1..n + 1 -> Nat]  BY <1>1, <1>5, <2>1
  <2> HIDE DEF f
  <2>6. QED  BY <2>2, <2>3, <2>4, <2>5
<1> HIDE DEF f, L
<1>7. PieceAt(text, S, one, p - 1)
  <2>1. p - 1 + 1 = p /\ p <= L  BY <1>1
  <2>2. \A k \in 1..1 : k = 1  OBVIOUS
  <2>3. QED  BY <1>2, <2>1, <2>2 DEF PieceAt, Holds, L
<1>8. \A i \in 1..n + 1 : i = 1 \/ \E j \in 1..n : i = 1 + j
  <2> TAKE i \in 1..n + 1
  <2>1. i # 1 => i - 1 \in 1..n /\ i = 1 + (i - 1)  BY <1>1
  <2>2. QED  BY <2>1
<1>9. \A i \in 1..n + 1 : PieceAt(text, S, all[i], f[i])
  BY <1>4, <1>5, <1>6, <1>7, <1>8
<1>10. n # 0 => Gap(text, S, p, at[1])
  <2> SUFFICES ASSUME n # 0 PROVE Gap(text, S, p, at[1])  OBVIOUS
  <2> DEFINE a == at[1]
             s == ps[1]
  <2>1. 1 \in 1..n  BY <1>1
  <2>2. a \in Nat /\ PieceAt(text, S, s, a) /\ p <= a /\ AllIn(text, S, p + 1, a)
    BY <1>5, <2>1
  <2>3. s \in Seq(Ch)  BY <2>1 DEF n
  <2> HIDE DEF a, s
  <2> DEFINE l == Len(s)
  <2>4. l \in Nat /\ l >= 1 /\ a + l <= L /\ text[a + 1] = s[1] /\ s[1] \notin S
    <3>1. l \in Nat  BY <2>3
    <3>2. l >= 1 /\ a + l <= L /\ \A k \in 1..l : text[a + k] = s[k] /\ s[k] \notin S
      BY <2>2 DEF PieceAt, Holds, L
    <3> HIDE DEF l
    <3>3. 1 \in 1..l  BY <3>1, <3>2
    <3>4. QED  BY <3>1, <3>2, <3>3
  <2> HIDE DEF l
  <2>5. p # a
    <3> SUFFICES ASSUME p = a PROVE FALSE  OBVIOUS
    <3>1. text[p + 1] \notin S  BY <2>4
    <3>2. p # L  BY <1>1, <2>2, <2>4
    <3>3. QED  BY <3>1, <3>2 DEF L
  <2>6. p < a  BY <1>1, <2>2, <2>5
  <2>7. QED  BY <2>2, <2>6 DEF Gap, a
<1>11. \A i \in 1..n : Gap(text, S, f[i] + Len(all[i]), f[i + 1])
  <2> TAKE i \in 1..n
  <2>1. CASE i = 1
    <3>1. n # 0 /\ 1 \in 1..n /\ 1 + 1 = i + 1 /\ p - 1 + 1 = p  BY <1>1, <2>1
    <3>2. f[i] + Len(all[i]) = p  BY <1>2, <1>4, <1>6, <2>1, <3>1
    <3>3. f[i + 1] = at[1]  BY <1>6, <3>1
    <3>4. QED  BY <1>10, <3>1, <3>2, <3>3
  <2>2. CASE i # 1
    <3> DEFINE j == i - 1
    <3>1. j \in 1..n - 1 /\ j \in 1..n /\ j + 1 \in 1..n /\ 1 + j = i /\ 1 + (j + 1) = i + 1
      BY <1>1, <2>2
    <3> HIDE DEF j
    <3>2. f[i] = at[j] /\ f[i + 1] = at[j + 1] /\ all[i] = ps[j]  BY <1>4, <1>6, <3>1
    <3>3. QED  BY <1>5, <3>1, <3>2
  <2>3. QED  BY <2>1, <2>2
<1>12. AllIn(text, S, p, f[1])
  <2>1. \A q \in p..p - 1 : FALSE  BY <1>1
  <2>2. QED  BY <1>6, <2>1 DEF AllIn
<1>13. AllIn(text, S, f[n + 1] + Len(all[n + 1]) + 1, L)
  <2>1. CASE n = 0
    <3>1. n + 1 = 1 /\ p - 1 + 1 + 1 = p + 1  BY <1>1, <2>1
    <3>2. f[n + 1] + Len(all[n + 1]) + 1 = p + 1  BY <1>2, <1>4, <1>6, <3>1
    <3>3. QED  BY <1>5, <2>1, <3>2
  <2>2. CASE n # 0
    <3>1. n \in 1..n /\ 1 + n = n + 1  BY <1>1, <2>2
    <3>2. f[n + 1] = at[n] /\ all[n + 1] = ps[n]  BY <1>4, <1>6, <3>1
    <3>3. QED  BY <1>5, <2>2, <3>2
  <2>3. QED  BY <2>1, <2>2
<1>14. n + 1 = Len(all) /\ n + 1 # 0 /\ n + 1 - 1 = n /\ p - 1 <= f[1]
  BY <1>1, <1>4, <1>6
<1>15. PiecesAt(text, S, p, all, f)
  <2>1. \A i \in 1..Len(all) : PieceAt(text, S, all[i], f[i])  BY <1>9, <1>14
  <2>2. \A i \in 1..Len(all) - 1 : Gap(text, S, f[i] + Len(all[i]), f[i + 1])
    <3>1. Len(all) - 1 = n  BY <1>1, <1>14
    <3>2. QED  BY <1>11, <3>1
  <2>3. f \in [1..Len(all) -> Nat]  BY <1>6, <1>14
  <2>4. AllIn(text, S, f[Len(all)] + Len(all[Len(all)]) + 1, Len(text))
    BY <1>13, <1>14 DEF L
  <2>5. QED  BY <1>12, <1>14, <2>1, <2>2, <2>3, <2>4 DEF PiecesAt
<1>16. QED  BY <1>15 DEF all, two, one

\* A character in front of a piece that is there already.
LEMMA PieceLonger ==
  ASSUME NEW Ch, NEW text \in Seq(Ch), NEW S, NEW p \in 1..Len(text), text[p] \notin S,
         p # Len(text), text[p + 1] \notin S,
         NEW ps \in Seq(Seq(Ch)), NEW at, PiecesAt(text, S, p + 1, ps, at)
  PROVE  \E f : PiecesAt(text, S, p, [ps EXCEPT ![1] = <<text[p]>> \o @], f)
<1> DEFINE n == Len(ps)
           L == Len(text)
           one == <<text[p]>>
           s == ps[1]
           new == one \o s
           all == [ps EXCEPT ![1] = new]
           f == [at EXCEPT ![1] = p - 1]
<1>1. n \in Nat /\ L \in Nat /\ p \in 1..L /\ p - 1 \in Nat /\ p + 1 \in 1..L /\ p < L
  OBVIOUS
<1>2. one \in Seq(Ch) /\ Len(one) = 1 /\ one[1] = text[p]  BY OneSeq
<1> HIDE DEF one
<1>3. /\ at \in [1..n -> Nat]
      /\ \A i \in 1..n : PieceAt(text, S, ps[i], at[i])
      /\ \A i \in 1..n - 1 : Gap(text, S, at[i] + Len(ps[i]), at[i + 1])
      /\ n = 0 => AllIn(text, S, p + 1, L)
      /\ n # 0 => /\ p <= at[1] /\ AllIn(text, S, p + 1, at[1])
                  /\ AllIn(text, S, at[n] + Len(ps[n]) + 1, L)
  <2>1. p + 1 - 1 = p  BY <1>1
  <2>2. QED  BY <2>1 DEF PiecesAt
<1>4. n # 0
  <2> SUFFICES ASSUME n = 0 PROVE FALSE  OBVIOUS
  <2>1. AllIn(text, S, p + 1, L) /\ p + 1 \in p + 1..L  BY <1>1, <1>3
  <2>2. QED  BY <2>1 DEF AllIn
<1>5. 1 \in 1..n /\ n \in 1..n  BY <1>1, <1>4
<1>6. at[1] = p
  <2> DEFINE a == at[1]
  <2>1. a \in Nat /\ p <= a /\ AllIn(text, S, p + 1, a)  BY <1>3, <1>4, <1>5
  <2> HIDE DEF a
  <2>2. p + 1 \notin p + 1..a  BY <2>1 DEF AllIn
  <2>3. a = p  BY <1>1, <2>1, <2>2
  <2>4. QED  BY <2>3 DEF a
<1>7. s \in Seq(Ch) /\ PieceAt(text, S, s, p)  BY <1>3, <1>5, <1>6
<1> HIDE DEF s
<1>8. /\ new \in Seq(Ch) /\ Len(new) = 1 + Len(s) /\ Len(s) \in Nat /\ new[1] = text[p]
      /\ \A k \in 1..Len(s) : new[1 + k] = s[k]
  <2>1. /\ new \in Seq(Ch) /\ Len(new) = Len(one) + Len(s)
        /\ \A k \in 1..Len(one) : new[k] = one[k]
        /\ \A k \in 1..Len(s) : new[Len(one) + k] = s[k]
    <3>1. one \in Seq(Ch) /\ s \in Seq(Ch)  BY <1>2, <1>7
    <3>2. QED  BY <3>1, Joined
  <2>2. Len(s) \in Nat  BY <1>7
  <2> HIDE DEF new
  <2>3. QED  BY <1>2, <2>1, <2>2
<1> HIDE DEF new
<1>9. PieceAt(text, S, new, p - 1) /\ p - 1 + Len(new) = p + Len(s)
  <2> DEFINE l == Len(s)
  <2>1. /\ l \in Nat /\ l >= 1 /\ p + l <= L
        /\ \A k \in 1..l : text[p + k] = s[k] /\ s[k] \notin S
    BY <1>7, <1>8 DEF PieceAt, Holds, L
  <2>2. Len(new) = 1 + l /\ new[1] = text[p] /\ \A k \in 1..l : new[1 + k] = s[k]
    BY <1>8
  <2> HIDE DEF l
  <2>3. /\ Len(new) >= 1 /\ p - 1 + Len(new) <= L /\ p - 1 + Len(new) = p + l
        /\ p - 1 + 1 = p
    BY <1>1, <2>1, <2>2
  <2>4. \A k \in 1..Len(new) : k = 1 \/ \E j \in 1..l : k = 1 + j /\ p - 1 + k = p + j
    <3> TAKE k \in 1..Len(new)
    <3>1. k \in 1..1 + l  BY <2>2
    <3>2. k # 1 => k - 1 \in 1..l /\ k = 1 + (k - 1) /\ p - 1 + k = p + (k - 1)
      BY <1>1, <2>1, <3>1
    <3>3. QED  BY <3>2
  <2>5. \A k \in 1..Len(new) : text[p - 1 + k] = new[k] /\ new[k] \notin S
    <3> TAKE k \in 1..Len(new)
    <3>1. CASE k = 1  BY <1>1, <2>2, <2>3, <3>1
    <3>2. CASE k # 1
      <4>1. PICK j \in 1..l : k = 1 + j /\ p - 1 + k = p + j  BY <2>4, <3>2
      <4>2. text[p + j] = s[j] /\ s[j] \notin S /\ new[1 + j] = s[j]  BY <2>1, <2>2
      <4>3. QED  BY <4>1, <4>2
    <3>3. QED  BY <3>1, <3>2
  <2>6. QED  BY <2>3, <2>5 DEF PieceAt, Holds, L, l
<1>10. /\ all \in Seq(Seq(Ch)) /\ Len(all) = n
       /\ all[1] = new /\ \A i \in 1..n : i # 1 => all[i] = ps[i]
  <2>1. ps \in [1..n -> Seq(Ch)]  OBVIOUS
  <2>2. all \in [1..n -> Seq(Ch)]
    <3> HIDE DEF n
    <3>1. QED  BY <1>8, <2>1
  <2>3. all[1] = new /\ \A i \in 1..n : i # 1 => all[i] = ps[i]
    <3> HIDE DEF n
    <3>1. QED  BY <1>5, <2>1
  <2> HIDE DEF all, n
  <2>4. QED  BY <1>1, <2>2, <2>3, FunSeq
<1>11. f \in [1..n -> Nat] /\ f[1] = p - 1 /\ \A i \in 1..n : i # 1 => f[i] = at[i]
  <2> HIDE DEF n
  <2>1. QED  BY <1>1, <1>3, <1>5
<1>12. all = [ps EXCEPT ![1] = one \o @]  BY DEF new, s
<1> HIDE DEF all, f, n, L
<1>13. \A i \in 1..n : PieceAt(text, S, all[i], f[i])
  <2> TAKE i \in 1..n
  <2>1. CASE i = 1  BY <1>9, <1>10, <1>11, <2>1
  <2>2. CASE i # 1  BY <1>3, <1>10, <1>11, <2>2
  <2>3. QED  BY <2>1, <2>2
<1>14. \A i \in 1..n : f[i] + Len(all[i]) = at[i] + Len(ps[i])
  <2> TAKE i \in 1..n
  <2>1. CASE i = 1
    <3>1. f[i] + Len(all[i]) = p + Len(s)  BY <1>9, <1>10, <1>11, <2>1
    <3>2. QED  BY <1>6, <2>1, <3>1 DEF s
  <2>2. CASE i # 1  BY <1>10, <1>11, <2>2
  <2>3. QED  BY <2>1, <2>2
<1>15. \A i \in 1..n - 1 : Gap(text, S, f[i] + Len(all[i]), f[i + 1])
  <2> TAKE i \in 1..n - 1
  <2>1. i \in 1..n /\ i + 1 \in 1..n /\ i + 1 # 1  BY <1>1
  <2>2. f[i] + Len(all[i]) = at[i] + Len(ps[i]) /\ f[i + 1] = at[i + 1]
    BY <1>11, <1>14, <2>1
  <2>3. QED  BY <1>3, <2>2
<1>16. AllIn(text, S, p, f[1])
  <2>1. \A q \in p..p - 1 : FALSE  BY <1>1
  <2>2. QED  BY <1>11, <2>1 DEF AllIn
<1>17. AllIn(text, S, f[n] + Len(all[n]) + 1, L)
  <2>1. f[n] + Len(all[n]) = at[n] + Len(ps[n])  BY <1>5, <1>14
  <2>2. QED  BY <1>3, <1>4, <2>1
<1>18. p - 1 <= f[1]  BY <1>1, <1>11
<1>19. PiecesAt(text, S, p, all, f)
  <2>1. \A i \in 1..Len(all) : PieceAt(text, S, all[i], f[i])  BY <1>10, <1>13
  <2>2. \A i \in 1..Len(all) - 1 : Gap(text, S, f[i] + Len(all[i]), f[i + 1])
    BY <1>10, <1>15
  <2>3. f \in [1..Len(all) -> Nat]  BY <1>10, <1>11
  <2>4. AllIn(text, S, f[Len(all)] + Len(all[Len(all)]) + 1, Len(text))
    BY <1>10, <1>17 DEF L
  <2>5. Len(all) # 0  BY <1>4, <1>10
  <2>6. QED  BY <1>16, <1>18, <2>1, <2>2, <2>3, <2>4, <2>5 DEF PiecesAt
<1>20. QED  BY <1>12, <1>19 DEF one

\* The pieces of a text are where they were in it.
LEMMA PiecesPlaced ==
  ASSUME NEW Ch, NEW text \in Seq(Ch), NEW S
  PROVE  /\ Pieces(text, S) \in Seq(Seq(Ch))
         /\ \E at : PiecesAt(text, S, 1, Pieces(text, S), at)
<1> DEFINE L == Len(text)
           n == L + 1
<1>1. L \in Nat /\ n \in Nat /\ 1 \in Nat /\ 1 \in 1..n  OBVIOUS
<1>2. PICK from : /\ Pieces(text, S) = from[1]
                  /\ \A p \in 1..Len(text) + 1 :
                       from[p] = PieceStep(text, S, p, from[p + 1])
  BY PiecesUnfold
<1>3. \A p \in 1..n : from[p] = PieceStep(text, S, p, from[p + 1])  BY <1>2
<1> DEFINE Good(p) == /\ from[p] \in Seq(Seq(Ch))
                      /\ \E at : PiecesAt(text, S, p, from[p], at)
           G == {p \in 1..n : Good(p)}
<1>4. ASSUME NEW p \in 1..n, \A k \in p + 1..n : k \in G  PROVE p \in G
  <2> DEFINE ps == from[p + 1]
  <2>1. from[p] = PieceStep(text, S, p, ps)  BY <1>3
  <2>2. CASE p > L
    <3>1. from[p] = <<>>  BY <2>1, <2>2 DEF PieceStep
    <3>2. Len(<<>>) = 0 /\ <<>> \in Seq(Seq(Ch))  OBVIOUS
    <3>3. [i \in {} |-> 0] \in [1..0 -> Nat]  OBVIOUS
    <3>4. AllIn(text, S, p, Len(text))
      <4>1. \A q \in p..L : FALSE  BY <1>1, <2>2
      <4>2. QED  BY <4>1 DEF AllIn
    <3>5. PiecesAt(text, S, p, <<>>, [i \in {} |-> 0])
      BY <3>2, <3>3, <3>4 DEF PiecesAt
    <3>6. Good(p)  BY <3>1, <3>2, <3>5
    <3>7. QED  BY <3>6
  <2>3. CASE ~(p > L)
    <3>1. p \in 1..Len(text) /\ p + 1 \in p + 1..n /\ p \in 1..Len(text) + 1
      BY <1>1, <2>3
    <3>2. Good(p + 1)  BY <1>4, <3>1
    <3>3. ps \in Seq(Seq(Ch))  BY <3>2
    <3>4. PICK at : PiecesAt(text, S, p + 1, ps, at)  BY <3>2
    <3> HIDE DEF ps, G
    <3>5. from[p] \in Seq(Seq(Ch))  BY <2>1, <3>1, <3>3, PieceStepType
    <3>6. CASE text[p] \in S
      <4>1. from[p] = ps  BY <2>1, <2>3, <3>6 DEF PieceStep
      <4>2. PiecesAt(text, S, p, ps, at)  BY <3>1, <3>3, <3>4, <3>6, PieceSkip
      <4>3. QED  BY <3>5, <4>1, <4>2 DEF G
    <3>7. CASE text[p] \notin S /\ (p = Len(text) \/ text[p + 1] \in S)
      <4>1. from[p] = <<<<text[p]>>>> \o ps  BY <2>1, <2>3, <3>7, Zenon DEF PieceStep, L
      <4>2. \E f : PiecesAt(text, S, p, <<<<text[p]>>>> \o ps, f)
        BY <3>1, <3>3, <3>4, <3>7, PieceNew
      <4>3. \E f : PiecesAt(text, S, p, from[p], f)  BY <4>1, <4>2
      <4>4. QED  BY <3>5, <4>3 DEF G
    <3>8. CASE text[p] \notin S /\ p # Len(text) /\ text[p + 1] \notin S
      <4>1. from[p] = [ps EXCEPT ![1] = <<text[p]>> \o @]
        BY <2>1, <2>3, <3>8, Zenon DEF PieceStep, L
      <4>2. \E f : PiecesAt(text, S, p, [ps EXCEPT ![1] = <<text[p]>> \o @], f)
        BY <3>1, <3>3, <3>4, <3>8, PieceLonger
      <4>3. \E f : PiecesAt(text, S, p, from[p], f)  BY <4>1, <4>2
      <4>4. QED  BY <3>5, <4>3 DEF G
    <3>9. QED  BY <3>6, <3>7, <3>8
  <2>4. QED  BY <2>2, <2>3
<1>5. \A p \in 1..n : p \in G
  <2> HIDE DEF G, n
  <2>1. QED  BY <1>1, <1>4, BackInduction
<1>6. Good(1)
  <2>1. 1 \in G  BY <1>1, <1>5
  <2>2. QED  BY <2>1
<1>7. QED  BY <1>2, <1>6

\* A line with a word and without a quote.
IsLine(Ch, s) ==
  /\ s \in Seq(Ch) /\ NoQuotes(s)
  /\ \A k \in 1..Len(s) : s[k] # Newline
  /\ \E k \in 1..Len(s) : s[k] \notin Blanks

\* The blanks are the white space.
LEMMA BlanksAre == \A ch : ch \in Blanks <=> Unimportant(ch)
BY Zenon DEF Blanks, Unimportant

\* What is in Blanks in a part is white space in the whole.
LEMMA BlankIn ==
  ASSUME NEW Ch, NEW text \in Seq(Ch), NEW s \in Seq(Ch), NEW a \in Nat, Holds(text, a, s),
         NEW x \in Nat, NEW y \in Nat, y <= Len(s), AllIn(s, Blanks, x + 1, y)
  PROVE  Blank(text, a + x + 1, a + y)
<1> DEFINE l == Len(s)
<1>1. l \in Nat /\ y <= l /\ \A k \in 1..l : text[a + k] = s[k]  BY DEF Holds
<1>2. \A q \in x + 1..y : s[q] \in Blanks  BY DEF AllIn
<1> HIDE DEF l
<1>3. \A q \in a + x + 1..a + y :
        q - a \in x + 1..y /\ q - a \in 1..l /\ a + (q - a) = q
  BY <1>1
<1>4. \A q \in a + x + 1..a + y : Unimportant(text[q])
  <2> TAKE q \in a + x + 1..a + y
  <2> DEFINE k == q - a
  <2>1. k \in x + 1..y /\ k \in 1..l /\ a + k = q  BY <1>3
  <2> HIDE DEF k
  <2>2. text[q] = s[k] /\ s[k] \in Blanks  BY <1>1, <1>2, <2>1
  <2>3. QED  BY <2>2, BlanksAre
<1>5. QED  BY <1>4 DEF Blank

\* A line behind the first a characters; only the last ends in a blank.
LineHere(text, s, a) ==
  /\ Holds(text, a, s) /\ EndsAt(text, a + Len(s))
  /\ s[Len(s)] \in Blanks => a + Len(s) = Len(text)

\* What is left of a line behind its last word, in a text in which the line ends
\* behind e characters: nothing, or white space up to the text's end.
Rest(text, stop, e) ==
  /\ text[stop] \notin Blanks /\ stop \in 1..e /\ Blank(text, stop + 1, e)
  /\ text[e] \notin Blanks => stop = e

\* The words of a line are placed as a command.
LEMMA LinePlaced ==
  ASSUME NEW Ch, Characters(Ch), NEW text \in Seq(Ch), NEW s, IsLine(Ch, s),
         NEW a \in Nat, LineHere(text, s, a),
         NEW ps \in Seq(Seq(Ch)), NEW at, PiecesAt(s, Blanks, 1, ps, at)
  PROVE  LET ws == PlacesOf(ps, ps, a, at)
         IN  /\ PlacedCommand(text, Ch, ws) /\ Words(ws) = ps
             /\ Rest(text, StopOf(ws), a + Len(s))
             /\ ws[1].at \in Nat /\ a <= ws[1].at /\ Blank(text, a + 1, ws[1].at)
<1> DEFINE ws == PlacesOf(ps, ps, a, at)
           m == Len(ps)
           l == Len(s)
           end == a + l
<1>1. /\ s \in Seq(Ch) /\ l \in Nat /\ l >= 1 /\ NoQuotes(s)
      /\ \A k \in 1..l : s[k] # Newline
      /\ \E k \in 1..l : s[k] \notin Blanks
      /\ s[l] \in Blanks => a + l = Len(text)
  BY DEF IsLine, LineHere
<1>2. /\ m \in Nat /\ at \in [1..m -> Nat]
      /\ \A j \in 1..m : PieceAt(s, Blanks, ps[j], at[j])
      /\ \A j \in 1..m - 1 : Gap(s, Blanks, at[j] + Len(ps[j]), at[j + 1])
      /\ m = 0 => AllIn(s, Blanks, 1, l)
      /\ m # 0 => /\ AllIn(s, Blanks, 1, at[1])
                  /\ AllIn(s, Blanks, at[m] + Len(ps[m]) + 1, l)
  BY DEF PiecesAt
<1>3. a + l <= Len(text) /\ (\A k \in 1..l : text[a + k] = s[k]) /\ Len(text) \in Nat
  BY DEF Holds, LineHere
<1>4. \A j \in 1..m : ps[j] \in Seq(Ch) /\ Len(ps[j]) \in Nat /\ at[j] \in Nat
  <2>1. \A j \in 1..m : ps[j] \in Seq(Ch)  OBVIOUS
  <2>2. \A j \in 1..m : at[j] \in Nat  BY <1>2
  <2> HIDE DEF m
  <2>3. QED  BY <2>1, <2>2
<1>e. EndsAt(text, end) /\ Holds(text, a, s)  BY DEF LineHere
<1> HIDE DEF m, l, end
<1>5. m # 0
  <2> SUFFICES ASSUME m = 0 PROVE FALSE  OBVIOUS
  <2>1. AllIn(s, Blanks, 1, l)  BY <1>2
  <2>2. QED  BY <1>1, <2>1 DEF AllIn
<1>6. 1 \in 1..m /\ m \in 1..m /\ m >= 1  BY <1>2, <1>5
<1>7. ASSUME NEW j \in 1..m
      PROVE  /\ at[j] + Len(ps[j]) <= l /\ Len(ps[j]) >= 1 /\ Holds(s, at[j], ps[j])
             /\ at[j] <= l /\ Bare(ps[j])
  <2> DEFINE w == ps[j]
             b == at[j]
             c == Len(w)
  <2>1. w \in Seq(Ch) /\ c \in Nat /\ b \in Nat /\ PieceAt(s, Blanks, w, b)  BY <1>2, <1>4
  <2>2. c >= 1 /\ Holds(s, b, w) /\ \A k \in 1..c : w[k] \notin Blanks  BY <2>1 DEF PieceAt
  <2>3. b + c <= l /\ \A k \in 1..c : s[b + k] = w[k]  BY <2>2 DEF Holds, l
  <2>4. DOMAIN w = 1..c  BY <2>1
  <2> HIDE DEF w, b
  <2>5. w # <<>>
    <3>1. Len(<<>>) = 0  OBVIOUS
    <3>2. QED  BY <2>2, <3>1
  <2> HIDE DEF c
  <2>6. \A k \in 1..c : ~Unimportant(w[k])  BY <2>2, BlanksAre
  <2>7. w[1] # Quote
    <3>1. b + 1 \in 1..l /\ 1 \in 1..c  BY <1>1, <2>1, <2>2, <2>3
    <3>2. w[1] = s[b + 1]  BY <2>3, <3>1
    <3>3. b + 1 \in DOMAIN s  BY <1>1, <3>1 DEF l
    <3>4. s[b + 1] # Quote  BY <1>1, <3>3 DEF NoQuotes
    <3>5. QED  BY <3>2, <3>4
  <2>8. Bare(w)  BY <2>4, <2>5, <2>6, <2>7 DEF Bare
  <2>9. b <= l  BY <1>1, <2>1, <2>2, <2>3
  <2>10. QED  BY <2>2, <2>3, <2>8, <2>9 DEF w, b, c
<1>8. Len(ws) = m /\ \A j \in 1..m : /\ ws[j].word = ps[j] /\ ws[j].spelled = ps[j]
                                     /\ ws[j].at = a + at[j]
  <2>1. ws = [j \in 1..m |-> [word |-> ps[j], spelled |-> ps[j], at |-> a + at[j]]]
    BY DEF PlacesOf, m
  <2> HIDE DEF ws
  <2>2. Len(ws) = m
    <3>1. ws \in [1..m -> {ws[j] : j \in 1..m}]  BY <2>1
    <3>2. m \in Nat  BY <1>2
    <3>3. QED  BY <3>1, <3>2, FunSeq
  <2>3. QED  BY <2>1, <2>2
<1> HIDE DEF ws
<1>9. \A j \in 1..m : PlacedWord(text, Ch, ws[j])
  <2> TAKE j \in 1..m
  <2> DEFINE b == at[j]
             w == ps[j]
  <2>1. b \in Nat /\ Holds(s, b, w) /\ w \in Seq(Ch) /\ s \in Seq(Ch) /\ Bare(w)
    BY <1>1, <1>4, <1>7
  <2> HIDE DEF b, w
  <2>2. Holds(text, a + b, w)  BY <1>e, <2>1, HoldsIn
  <2>3. a + b \in Nat  BY <2>1
  <2>4. Spells(w, w)  BY <2>1 DEF Spells
  <2>5. ws[j].word = w /\ ws[j].spelled = w /\ ws[j].at = a + b  BY <1>8 DEF w, b
  <2>6. QED  BY <2>1, <2>2, <2>3, <2>4, <2>5 DEF PlacedWord
<1>10. \A j \in 1..m : Stop(ws[j]) = a + at[j] + Len(ps[j])  BY <1>8 DEF Stop
<1>11. ASSUME NEW j \in 1..m - 1
       PROVE  Between(text, Stop(ws[j]), ws[j + 1]) /\ text[Stop(ws[j]) + 1] # Newline
  <2>1. j \in 1..m /\ j + 1 \in 1..m  BY <1>2
  <2> DEFINE x == at[j] + Len(ps[j])
             y == at[j + 1]
  <2>2. /\ x \in Nat /\ y \in Nat /\ y <= l /\ x < y /\ AllIn(s, Blanks, x + 1, y)
    <3>1. Gap(s, Blanks, x, y)  BY <1>2
    <3>2. at[j] \in Nat /\ Len(ps[j]) \in Nat /\ y \in Nat /\ y <= l  BY <1>4, <1>7, <2>1
    <3>3. x \in Nat  BY <3>2
    <3> HIDE DEF x, y
    <3>4. QED  BY <3>1, <3>2, <3>3 DEF Gap
  <2>3. Stop(ws[j]) = a + x /\ ws[j + 1].at = a + y
    <3> DEFINE u == at[j]
               v == Len(ps[j])
    <3>1. u \in Nat /\ v \in Nat /\ Stop(ws[j]) = a + u + v  BY <1>4, <1>10, <2>1
    <3>2. ws[j + 1].at = a + y  BY <1>8, <2>1
    <3>3. x = u + v  OBVIOUS
    <3> HIDE DEF u, v, x, y
    <3>4. QED  BY <3>1, <3>2, <3>3
  <2> HIDE DEF x, y
  <2>4. y <= Len(s) /\ s \in Seq(Ch)  BY <1>1, <2>2 DEF l
  <2>5. Blank(text, a + x + 1, a + y)  BY <1>e, <2>2, <2>4, BlankIn
  <2>6. text[a + x + 1] # Newline
    <3>1. x + 1 \in 1..l /\ a + (x + 1) = a + x + 1  BY <1>1, <2>2
    <3>2. QED  BY <1>1, <1>3, <3>1
  <2>7. a + x < a + y  BY <2>2
  <2>8. QED  BY <2>3, <2>5, <2>6, <2>7 DEF Between
<1>12. Rest(text, Stop(ws[m]), end) /\ EndsAt(text, Stop(ws[m]))
  <2> DEFINE x == at[m]
             y == Len(ps[m])
             z == x + y
  <2>1. x \in Nat /\ y \in Nat /\ y >= 1 /\ x + y <= l /\ Stop(ws[m]) = a + x + y
    BY <1>4, <1>6, <1>7, <1>10
  <2>2. AllIn(s, Blanks, z + 1, l)  BY <1>2, <1>5
  <2> HIDE DEF x, y
  <2>3. z \in Nat /\ z <= l /\ z >= 1 /\ Stop(ws[m]) = a + z  BY <2>1
  <2> HIDE DEF z
  <2>4. Blank(text, a + z + 1, end)
    <3>1. l <= Len(s)  BY <1>1 DEF l
    <3>2. Blank(text, a + z + 1, a + l)  BY <1>1, <1>e, <2>2, <2>3, <3>1, BlankIn
    <3>3. QED  BY <3>2 DEF end
  <2>5. l \in 1..l /\ end = a + l /\ text[end] = s[l]
    <3>1. l \in 1..l  BY <1>1
    <3>2. QED  BY <1>3, <3>1 DEF end
  <2>6. z # l => s[l] \in Blanks
    <3>1. z # l => l \in z + 1..l  BY <1>1, <2>3
    <3>2. QED  BY <2>2, <3>1 DEF AllIn
  <2>a. text[a + z] \notin Blanks
    <3>1. y \in 1..y /\ x + y = z /\ z \in 1..l  BY <1>1, <2>1, <2>3 DEF z
    <3>2. s[z] = ps[m][y] /\ ps[m][y] \notin Blanks
      <4>1. PieceAt(s, Blanks, ps[m], x)  BY <1>2, <1>6 DEF x
      <4>2. y = Len(ps[m])  BY DEF y
      <4>3. QED  BY <3>1, <4>1, <4>2 DEF PieceAt, Holds
    <3>3. text[a + z] = s[z]  BY <1>3, <3>1
    <3>4. QED  BY <3>2, <3>3
  <2>7. Rest(text, a + z, end)
    <3>1. a + z \in 1..end  BY <1>1, <2>3 DEF end
    <3>2. QED  BY <2>4, <2>5, <2>6, <2>a, <3>1 DEF Rest
  <2>8. EndsAt(text, a + z)
    <3>1. CASE z = l  BY <1>e, <2>5, <3>1
    <3>2. CASE z # l
      <4>1. end = Len(text)  BY <1>1, <2>5, <2>6, <3>2
      <4>2. QED  BY <2>4, <4>1 DEF EndsAt
    <3>3. QED  BY <3>1, <3>2
  <2>9. QED  BY <2>3, <2>7, <2>8
<1>13. PlacedCommand(text, Ch, ws)
  <2>1. Blank(text, Stop(ws[m]) + 1, Len(text)) \/ text[Stop(ws[m]) + 1] = Newline
    BY <1>12 DEF EndsAt
  <2>2. QED  BY <1>2, <1>6, <1>8, <1>9, <1>11, <2>1 DEF PlacedCommand
<1>14. Words(ws) = ps
  <2>1. Words(ws) = [j \in 1..m |-> ps[j]]  BY <1>8 DEF Words
  <2>2. ps = [j \in 1..m |-> ps[j]]
    <3>1. DOMAIN ps = 1..m  BY DEF m
    <3>2. QED  BY <3>1
  <2>3. QED  BY <2>1, <2>2
<1>15. Rest(text, StopOf(ws), end)  BY <1>8, <1>12 DEF StopOf
<1>16. ws[1].at \in Nat /\ a <= ws[1].at /\ Blank(text, a + 1, ws[1].at)
  <2> DEFINE y == at[1]
  <2>1. y \in Nat /\ y <= l /\ ws[1].at = a + y /\ AllIn(s, Blanks, 0 + 1, y)
    BY <1>2, <1>4, <1>5, <1>6, <1>7, <1>8
  <2> HIDE DEF y
  <2>2. y <= Len(s) /\ s \in Seq(Ch) /\ 0 \in Nat  BY <1>1, <2>1 DEF l
  <2>3. Blank(text, a + 0 + 1, a + y)  BY <1>e, <2>1, <2>2, BlankIn
  <2>4. a + 0 + 1 = a + 1 /\ a + y \in Nat /\ a <= a + y  BY <2>1
  <2>5. QED  BY <2>1, <2>3, <2>4
<1>17. /\ PlacedCommand(text, Ch, ws) /\ Words(ws) = ps
       /\ Rest(text, StopOf(ws), a + Len(s))
       /\ ws[1].at \in Nat /\ a <= ws[1].at /\ Blank(text, a + 1, ws[1].at)
  BY <1>13, <1>14, <1>15, <1>16, Zenon DEF end, l
<1>18. QED  BY <1>17, Zenon DEF ws

\* The pieces of a piece.
WordsOf(line) == Pieces(line, Blanks)

\* Where the words of a line are that begins behind a characters.
PlacesOn(line, a) ==
  PlacesOf(WordsOf(line), WordsOf(line), a,
           CHOOSE at : PiecesAt(line, Blanks, 1, WordsOf(line), at))

\* A line is placed as the command of its words.
LEMMA LineIn ==
  ASSUME NEW Ch, Characters(Ch), NEW text \in Seq(Ch), NEW s, IsLine(Ch, s),
         NEW a \in Nat, LineHere(text, s, a)
  PROVE  LET ws == PlacesOn(s, a)
         IN  /\ PlacedCommand(text, Ch, ws) /\ Words(ws) = WordsOf(s)
             /\ Rest(text, StopOf(ws), a + Len(s))
             /\ ws[1].at \in Nat /\ a <= ws[1].at /\ Blank(text, a + 1, ws[1].at)
<1> DEFINE ps == WordsOf(s)
           at == CHOOSE f : PiecesAt(s, Blanks, 1, ps, f)
<1>1. s \in Seq(Ch)  BY DEF IsLine
<1>2. ps \in Seq(Seq(Ch)) /\ \E f : PiecesAt(s, Blanks, 1, ps, f)
  BY <1>1, PiecesPlaced DEF WordsOf
<1> HIDE DEF ps
<1>3. PiecesAt(s, Blanks, 1, ps, at)  BY <1>2, Zenon
<1>4. PlacesOn(s, a) = PlacesOf(ps, ps, a, at)  BY Zenon DEF PlacesOn, ps
<1> HIDE DEF at
<1> DEFINE ws == PlacesOf(ps, ps, a, at)
<1>5. /\ PlacedCommand(text, Ch, ws) /\ Words(ws) = ps
      /\ Rest(text, StopOf(ws), a + Len(s))
      /\ ws[1].at \in Nat /\ a <= ws[1].at /\ Blank(text, a + 1, ws[1].at)
  BY <1>2, <1>3, LinePlaced
<1>6. QED  BY <1>4, <1>5 DEF ps

\* White space from p to a and on to b.
LEMMA BlankJoin ==
  ASSUME NEW text, NEW p \in Nat, NEW a \in Nat, NEW b \in Nat,
         Blank(text, p, a), Blank(text, a + 1, b)
  PROVE  Blank(text, p, b)
<1>1. \A q \in p..b : q \in p..a \/ q \in a + 1..b  OBVIOUS
<1>2. QED  BY <1>1 DEF Blank

\* No line of a text ends in a blank, save the last.
Tidy(text) == \A i \in 2..Len(text) : text[i] = Newline => text[i - 1] \notin Blanks

\* What is in S, is white space if S is.
LEMMA NewlinesBlank ==
  ASSUME NEW text, NEW p \in Nat, NEW e \in Nat, AllIn(text, {Newline}, p, e)
  PROVE  Blank(text, p, e)
<1>1. Unimportant(Newline)  BY DEF Unimportant
<1>2. QED  BY <1>1 DEF AllIn, Blank

\* The lines of a text are where their pieces are.
LinesAt(text, lines, at) == PiecesAt(text, {Newline}, 1, lines, at)

\* How many lines have a word.
Worded(lines) ==
  LET n == Len(lines)
  IN  IF n # 0 /\ AllIn(lines[n], Blanks, 1, Len(lines[n])) THEN n - 1 ELSE n

\* In a tidy text, what is at the end of a line and behind it.
LEMMA LineEnds ==
  ASSUME NEW Ch, Characters(Ch), NEW text \in Seq(Ch), Tidy(text), NoQuotes(text),
         NEW lines \in Seq(Seq(Ch)), NEW at, LinesAt(text, lines, at),
         NEW i \in 1..Len(lines)
  PROVE  LET s == lines[i]
             e == at[i] + Len(s)
         IN  /\ s \in Seq(Ch) /\ Len(s) \in Nat /\ Len(s) >= 1 /\ at[i] \in Nat
             /\ LineHere(text, s, at[i])
             /\ e \in 1..Len(text) /\ text[e] = s[Len(s)]
             /\ e = Len(text) \/ text[e + 1] = Newline
             /\ text[e] \in Blanks => i = Len(lines) /\ e = Len(text)
             /\ i \in 1..Worded(lines) => IsLine(Ch, s)
             /\ i # Len(lines) =>
                  /\ e < at[i + 1] /\ at[i + 1] \in Nat
                  /\ AllIn(text, {Newline}, e + 1, at[i + 1])
             /\ i = Len(lines) => AllIn(text, {Newline}, e + 1, Len(text))
<1> DEFINE S == {Newline}
           n == Len(lines)
           L == Len(text)
           s == lines[i]
           a == at[i]
           l == Len(s)
           e == a + l
<1>0. n \in Nat /\ L \in Nat /\ i \in 1..n  OBVIOUS
<1>p. PiecesAt(text, S, 1, lines, at)  BY DEF LinesAt
<1>1. /\ n \in Nat /\ L \in Nat /\ at \in [1..n -> Nat]
      /\ PieceAt(text, S, lines[i], at[i])
      /\ \A j \in 1..n - 1 : Gap(text, S, at[j] + Len(lines[j]), at[j + 1])
      /\ n # 0 => AllIn(text, S, at[n] + Len(lines[n]) + 1, L)
  <2> HIDE DEF S
  <2>1. QED  BY <1>0, <1>p DEF PiecesAt
<1>2. i \in 1..n /\ s \in Seq(Ch) /\ l \in Nat /\ a \in Nat /\ DOMAIN s = 1..l
  <2>1. s \in Seq(Ch)  OBVIOUS
  <2>2. a \in Nat  BY <1>1
  <2>3. QED  BY <2>1, <2>2
<1>3. /\ l >= 1 /\ e <= L /\ Holds(text, a, s) /\ \A k \in 1..l : text[a + k] = s[k]
      /\ \A k \in 1..l : s[k] \notin S
  BY <1>1 DEF PieceAt, Holds
<1>4. i # n => e < at[i + 1] /\ at[i + 1] \in Nat /\ AllIn(text, S, e + 1, at[i + 1])
  <2> SUFFICES ASSUME i # n
               PROVE  e < at[i + 1] /\ at[i + 1] \in Nat /\ AllIn(text, S, e + 1, at[i + 1])
    OBVIOUS
  <2>1. i \in 1..n - 1 /\ i + 1 \in 1..n  BY <1>1, <1>2
  <2>2. Gap(text, S, e, at[i + 1])  BY <1>1, <2>1
  <2>3. at[i + 1] \in Nat  BY <1>1, <2>1
  <2>4. QED  BY <2>2, <2>3 DEF Gap
<1>5. i = n => AllIn(text, S, e + 1, L)
  <2> SUFFICES ASSUME i = n PROVE AllIn(text, S, e + 1, L)  OBVIOUS
  <2>1. n # 0  BY <1>2
  <2>2. QED  BY <1>1, <2>1
<1>w. i \in 1..Worded(lines) /\ i = n => ~AllIn(s, Blanks, 1, l)
  BY <1>1, <1>2 DEF Worded
<1>q. DOMAIN text = 1..L /\ Tidy(text) /\ NoQuotes(text)  OBVIOUS
<1> HIDE DEF l, a, s, n, L
<1>6. e \in 1..L /\ l \in 1..l  BY <1>1, <1>2, <1>3
<1>7. text[e] = s[l] /\ s[l] # Newline  BY <1>3, <1>6 DEF S
<1>8. e = L \/ text[e + 1] = Newline
  <2>1. CASE i # n
    <3>1. e + 1 \in e + 1..at[i + 1]  BY <1>4, <1>6, <2>1
    <3>2. QED  BY <1>4, <2>1, <3>1 DEF AllIn, S
  <2>2. CASE i = n
    <3>1. e # L => e + 1 \in e + 1..L  BY <1>1, <1>6
    <3>2. QED  BY <1>5, <2>2, <3>1 DEF AllIn, S
  <2>3. QED  BY <2>1, <2>2
<1>9. e # L => text[e] \notin Blanks
  <2> SUFFICES ASSUME e # L PROVE text[e] \notin Blanks  OBVIOUS
  <2> DEFINE k == e + 1
  <2>1. k \in 2..L /\ k - 1 = e  BY <1>1, <1>6
  <2>2. text[k] = Newline  BY <1>8
  <2> HIDE DEF k
  <2>3. k \in 2..Len(text)  BY <2>1 DEF L
  <2>4. text[k - 1] \notin Blanks  BY <1>q, <2>2, <2>3, Zenon DEF Tidy
  <2>5. QED  BY <2>1, <2>4
<1>10. i # n => text[e] \notin Blanks
  <2> SUFFICES ASSUME i # n PROVE text[e] \notin Blanks  OBVIOUS
  <2>1. CASE e # L  BY <1>9, <2>1
  <2>2. CASE e = L /\ i + 1 \in 1..n
    <3> DEFINE t == lines[i + 1]
    <3>1. PieceAt(text, S, t, at[i + 1])  BY <2>2 DEF LinesAt, PiecesAt, n, S
    <3>2. Len(t) \in Nat
      <4>1. t \in Seq(Ch)  BY <2>2 DEF n
      <4>2. QED  BY <4>1
    <3>3. Len(t) >= 1 /\ at[i + 1] + Len(t) <= L  BY <3>1 DEF PieceAt, Holds, L
    <3> HIDE DEF t
    <3>4. FALSE  BY <1>1, <1>4, <1>6, <2>2, <3>2, <3>3
    <3>5. QED  BY <3>4
  <2>3. i + 1 \in 1..n  BY <1>1, <1>2
  <2>4. QED  BY <2>1, <2>2, <2>3
<1>11. EndsAt(text, e)
  <2>1. CASE e = L  BY <1>1, <2>1, EndOfText DEF L
  <2>2. QED  BY <1>8, <2>1 DEF EndsAt
<1>12. i \in 1..Worded(lines) => IsLine(Ch, s)
  <2> SUFFICES ASSUME i \in 1..Worded(lines) PROVE IsLine(Ch, s)  OBVIOUS
  <2>1. NoQuotes(s)
    <3>1. ASSUME NEW k \in 1..l  PROVE s[k] # Quote
      <4>1. a + k \in 1..L  BY <1>1, <1>2, <1>6
      <4>2. text[a + k] = s[k]  BY <1>3
      <4>3. QED  BY <1>q, <4>1, <4>2 DEF NoQuotes
    <3>2. QED  BY <1>2, <3>1 DEF NoQuotes
  <2>2. \E k \in 1..l : s[k] \notin Blanks
    <3>1. CASE i # n  BY <1>6, <1>7, <1>10, <3>1
    <3>2. CASE i = n
      <4>1. ~AllIn(s, Blanks, 1, l)  BY <1>w, <3>2
      <4>2. QED  BY <4>1 DEF AllIn
    <3>3. QED  BY <3>1, <3>2
  <2>3. QED  BY <1>2, <1>3, <2>1, <2>2 DEF IsLine, S, l
<1>a. LineHere(text, s, a)
  BY <1>3, <1>7, <1>9, <1>11 DEF LineHere, l, L
<1>13. /\ s \in Seq(Ch) /\ l \in Nat /\ l >= 1 /\ a \in Nat /\ LineHere(text, s, a)
       /\ e \in 1..L /\ text[e] = s[l]
       /\ e = L \/ text[e + 1] = Newline
       /\ text[e] \in Blanks => i = n /\ e = L
       /\ i \in 1..Worded(lines) => IsLine(Ch, s)
       /\ i # n => e < at[i + 1] /\ at[i + 1] \in Nat /\ AllIn(text, S, e + 1, at[i + 1])
       /\ i = n => AllIn(text, S, e + 1, L)
  BY <1>2, <1>3, <1>4, <1>5, <1>6, <1>7, <1>8, <1>9, <1>10, <1>12, <1>a
<1>14. QED  BY <1>13, Zenon DEF S, n, L, s, a, l

\* A tidy text is laid out: its lines with a word are its commands.
LEMMA LinesLaidOut ==
  ASSUME NEW Ch, Characters(Ch), NEW text \in Seq(Ch), Tidy(text), NoQuotes(text),
         NEW lines \in Seq(Seq(Ch)), NEW at, LinesAt(text, lines, at)
  PROVE  LET cs == [i \in 1..Worded(lines) |-> PlacesOn(lines[i], at[i])]
         IN  /\ PlacedText(text, Ch, cs) /\ Len(cs) = Worded(lines)
             /\ \A i \in 1..Worded(lines) :
                  /\ Words(cs[i]) = WordsOf(lines[i])
                  /\ Rest(text, StopOf(cs[i]), at[i] + Len(lines[i]))
<1> DEFINE S == {Newline}
           n == Len(lines)
           w == Worded(lines)
           L == Len(text)
           end == [i \in 1..n |-> at[i] + Len(lines[i])]
           cs == [i \in 1..w |-> PlacesOn(lines[i], at[i])]
<1>0. /\ n \in Nat /\ L \in Nat /\ w \in Nat /\ w <= n /\ n <= w + 1
      /\ w # n => n # 0 /\ AllIn(lines[n], Blanks, 1, Len(lines[n]))
  BY DEF Worded
<1>1. /\ n = 0 => AllIn(text, S, 1, L)
      /\ n # 0 => AllIn(text, S, 1, at[1])
  BY DEF LinesAt, PiecesAt
<1>2. ASSUME NEW i \in 1..n
      PROVE  /\ lines[i] \in Seq(Ch) /\ Len(lines[i]) \in Nat /\ Len(lines[i]) >= 1
             /\ at[i] \in Nat /\ LineHere(text, lines[i], at[i])
             /\ end[i] = at[i] + Len(lines[i]) /\ end[i] \in 1..L
             /\ end[i] = L \/ text[end[i] + 1] = Newline
             /\ text[end[i]] \in Blanks => i = n /\ end[i] = L
             /\ i \in 1..w => IsLine(Ch, lines[i])
             /\ i # n => end[i] < at[i + 1] /\ at[i + 1] \in Nat /\ AllIn(text, S, end[i] + 1, at[i + 1])
             /\ i = n => AllIn(text, S, end[i] + 1, L)
  <2> DEFINE s == lines[i]
             e == at[i] + Len(s)
  <2>1. /\ s \in Seq(Ch) /\ Len(s) \in Nat /\ Len(s) >= 1 /\ at[i] \in Nat
        /\ LineHere(text, s, at[i])
        /\ e \in 1..Len(text) /\ text[e] = s[Len(s)]
        /\ e = Len(text) \/ text[e + 1] = Newline
        /\ text[e] \in Blanks => i = Len(lines) /\ e = Len(text)
        /\ i \in 1..Worded(lines) => IsLine(Ch, s)
        /\ i # Len(lines) =>
             /\ e < at[i + 1] /\ at[i + 1] \in Nat
             /\ AllIn(text, {Newline}, e + 1, at[i + 1])
        /\ i = Len(lines) => AllIn(text, {Newline}, e + 1, Len(text))
    BY LineEnds
  <2>2. end[i] = e  OBVIOUS
  <2> HIDE DEF end
  <2>3. QED  BY <2>1, <2>2
<1>c. Len(cs) = w /\ \A i \in 1..w : cs[i] = PlacesOn(lines[i], at[i])
  <2>1. cs \in [1..w -> {cs[i] : i \in 1..w}]  OBVIOUS
  <2>2. \A i \in 1..w : cs[i] = PlacesOn(lines[i], at[i])  OBVIOUS
  <2> HIDE DEF cs, w
  <2>3. QED  BY <1>0, <2>1, <2>2, FunSeq
<1> HIDE DEF cs, end, w, n, L
<1>3. ASSUME NEW i \in 1..w
      PROVE  /\ PlacedCommand(text, Ch, cs[i]) /\ Words(cs[i]) = WordsOf(lines[i])
             /\ Rest(text, StopOf(cs[i]), end[i])
             /\ cs[i][1].at \in Nat /\ at[i] <= cs[i][1].at
             /\ Blank(text, at[i] + 1, cs[i][1].at)
  <2> DEFINE s == lines[i]
             a == at[i]
             ws == PlacesOn(s, a)
  <2>0. i \in 1..n  BY <1>0
  <2>1. /\ IsLine(Ch, s) /\ a \in Nat /\ LineHere(text, s, a)
        /\ end[i] = a + Len(s) /\ cs[i] = ws
    BY <1>2, <1>c, <2>0
  <2> HIDE DEF s, a
  <2>2. /\ PlacedCommand(text, Ch, ws) /\ Words(ws) = WordsOf(s)
        /\ Rest(text, StopOf(ws), a + Len(s))
        /\ ws[1].at \in Nat /\ a <= ws[1].at /\ Blank(text, a + 1, ws[1].at)
    BY <2>1, LineIn
  <2>3. QED  BY <2>1, <2>2 DEF s, a
<1>4. ASSUME NEW i \in 1..w, i # n
      PROVE  StopOf(cs[i]) = end[i] /\ text[end[i] + 1] = Newline /\ end[i] < L
  <2>0. i \in 1..n  BY <1>0
  <2>1. StopOf(cs[i]) = end[i]  BY <1>2, <1>3, <1>4, <2>0 DEF Rest
  <2>2. end[i] < at[i + 1] /\ AllIn(text, S, end[i] + 1, at[i + 1]) /\ at[i + 1] \in Nat
        /\ end[i] \in 1..L
    BY <1>2, <1>4, <2>0
  <2>3. end[i] + 1 \in end[i] + 1..at[i + 1]  BY <1>0, <2>2
  <2>4. text[end[i] + 1] = Newline  BY <2>2, <2>3 DEF AllIn
  <2>5. at[i + 1] < L
    <3>1. i + 1 \in 1..n  BY <1>0, <1>4, <2>0
    <3>2. /\ end[i + 1] = at[i + 1] + Len(lines[i + 1]) /\ end[i + 1] \in 1..L
          /\ Len(lines[i + 1]) \in Nat /\ Len(lines[i + 1]) >= 1
      BY <1>2, <3>1
    <3>3. QED  BY <1>0, <2>2, <3>2
  <2>6. QED  BY <1>0, <2>1, <2>2, <2>4, <2>5
<1>5. n # 0 => Blank(text, 1, at[1]) /\ Blank(text, end[n] + 1, L)
  <2> SUFFICES ASSUME n # 0 PROVE Blank(text, 1, at[1]) /\ Blank(text, end[n] + 1, L)
    OBVIOUS
  <2>1. 1 \in 1..n /\ n \in 1..n  BY <1>0
  <2>2. at[1] \in Nat /\ AllIn(text, {Newline}, 1, at[1])  BY <1>1, <1>2, <2>1
  <2>3. end[n] \in 1..L /\ AllIn(text, {Newline}, end[n] + 1, L)  BY <1>2, <2>1
  <2>4. end[n] + 1 \in Nat /\ 1 \in Nat  BY <1>0, <2>3
  <2>5. QED  BY <1>0, <2>2, <2>3, <2>4, NewlinesBlank
\* Where the last line has no word, it and what is behind it is white space.
<1>6. w # n => Blank(text, at[n] + 1, L)
  <2> SUFFICES ASSUME w # n PROVE Blank(text, at[n] + 1, L)  OBVIOUS
  <2>1. n \in 1..n /\ AllIn(lines[n], Blanks, 1, Len(lines[n]))  BY <1>0
  <2> DEFINE s == lines[n]
             a == at[n]
             l == Len(s)
  <2>2. /\ s \in Seq(Ch) /\ l \in Nat /\ a \in Nat /\ Holds(text, a, s) /\ end[n] = a + l
        /\ AllIn(s, Blanks, 0 + 1, l)
    BY <1>2, <2>1 DEF LineHere
  <2>3. Blank(text, end[n] + 1, L)  BY <1>5, <2>1
  <2> HIDE DEF s, a
  <2>4. Blank(text, a + 0 + 1, a + l)  BY <2>2, BlankIn
  <2>5. a + 0 + 1 = a + 1 /\ a + 1 \in Nat /\ a + l \in Nat  BY <2>2
  <2> HIDE DEF l
  <2>6. Blank(text, a + 1, L)  BY <1>0, <2>2, <2>3, <2>4, <2>5, BlankJoin
  <2>7. QED  BY <2>6 DEF a
<1>7. w # 0 => Blank(text, 1, cs[1][1].at) /\ Blank(text, StopOf(cs[w]) + 1, L)
  <2> SUFFICES ASSUME w # 0
               PROVE  Blank(text, 1, cs[1][1].at) /\ Blank(text, StopOf(cs[w]) + 1, L)
    OBVIOUS
  <2>1. 1 \in 1..w /\ w \in 1..w /\ 1 \in 1..n /\ w \in 1..n /\ n # 0  BY <1>0
  <2>2. Blank(text, 1, cs[1][1].at)
    <3> DEFINE a == at[1]
               b == cs[1][1].at
    <3>1. a \in Nat /\ b \in Nat /\ Blank(text, 1, a) /\ Blank(text, a + 1, b)
      BY <1>2, <1>3, <1>5, <2>1
    <3> HIDE DEF a, b
    <3>2. 1 \in Nat  OBVIOUS
    <3>3. Blank(text, 1, b)  BY <3>1, <3>2, BlankJoin
    <3>4. QED  BY <3>3 DEF b
  <2>3. CASE w = n
    <3> DEFINE a == StopOf(cs[w])
               b == end[w]
    <3>1. a \in 1..b /\ Blank(text, a + 1, b)  BY <1>3, <2>1 DEF Rest
    <3>2. b \in 1..L /\ Blank(text, b + 1, L)  BY <1>2, <1>5, <2>1, <2>3
    <3> HIDE DEF a, b
    <3>3. a + 1 \in Nat /\ b \in Nat  BY <1>0, <3>1, <3>2
    <3>4. Blank(text, a + 1, L)  BY <1>0, <3>1, <3>2, <3>3, BlankJoin
    <3>5. QED  BY <2>2, <3>4 DEF a
  <2>4. CASE w # n
    <3> DEFINE a == end[w]
               b == at[n]
    <3>0. w + 1 = n  BY <1>0, <2>4
    <3>1. StopOf(cs[w]) = a  BY <1>4, <2>1, <2>4
    <3>2. a \in 1..L /\ b \in Nat /\ AllIn(text, {Newline}, a + 1, b)
      BY <1>2, <2>1, <2>4, <3>0
    <3>3. Blank(text, b + 1, L)  BY <1>6, <2>4
    <3> HIDE DEF a, b
    <3>4. a + 1 \in Nat  BY <1>0, <3>2
    <3>5. Blank(text, a + 1, b)  BY <3>2, <3>4, NewlinesBlank
    <3>6. Blank(text, a + 1, L)  BY <1>0, <3>2, <3>3, <3>4, <3>5, BlankJoin
    <3>7. QED  BY <2>2, <3>1, <3>6
  <2>5. QED  BY <2>3, <2>4
<1>8. w = 0 => Blank(text, 1, L)
  <2> SUFFICES ASSUME w = 0 PROVE Blank(text, 1, L)  OBVIOUS
  <2>1. CASE n = 0
    <3>1. AllIn(text, {Newline}, 1, L) /\ 1 \in Nat  BY <1>1, <2>1
    <3>2. QED  BY <1>0, <3>1, NewlinesBlank
  <2>2. CASE n # 0
    <3>1. w # n /\ n = 1 /\ 1 \in 1..n  BY <1>0, <2>2
    <3>2. Blank(text, 1, at[1]) /\ Blank(text, at[1] + 1, L) /\ at[1] \in Nat
      BY <1>2, <1>5, <1>6, <3>1
    <3> DEFINE a == at[1]
    <3>3. a \in Nat /\ Blank(text, 1, a) /\ Blank(text, a + 1, L)  BY <3>2
    <3> HIDE DEF a
    <3>4. 1 \in Nat  OBVIOUS
    <3>5. QED  BY <1>0, <3>3, <3>4, BlankJoin
  <2>3. QED  BY <2>1, <2>2
<1>9. ASSUME NEW i \in 1..w - 1
      PROVE  /\ Between(text, StopOf(cs[i]), cs[i + 1][1])
             /\ text[StopOf(cs[i]) + 1] = Newline
  <2>1. i \in 1..w /\ i + 1 \in 1..w /\ i \in 1..n /\ i # n  BY <1>0
  <2> DEFINE e == end[i]
             a == at[i + 1]
             b == cs[i + 1][1].at
  <2>2. StopOf(cs[i]) = e /\ text[e + 1] = Newline  BY <1>4, <2>1
  <2>3. e \in 1..L /\ e < a /\ a \in Nat /\ AllIn(text, {Newline}, e + 1, a)  BY <1>2, <2>1
  <2>4. b \in Nat /\ a <= b /\ Blank(text, a + 1, b)  BY <1>3, <2>1
  <2> HIDE DEF e, a, b
  <2>5. e + 1 \in Nat /\ e < b  BY <1>0, <2>3, <2>4
  <2>6. Blank(text, e + 1, a)  BY <2>3, <2>5, NewlinesBlank
  <2>7. Blank(text, e + 1, b)  BY <2>3, <2>4, <2>5, <2>6, BlankJoin
  <2>8. QED  BY <2>2, <2>5, <2>7 DEF Between, b
<1>10. PlacedText(text, Ch, cs)
  BY <1>0, <1>3, <1>7, <1>8, <1>9, <1>c DEF PlacedText, L
<1>11. \A i \in 1..w : /\ Words(cs[i]) = WordsOf(lines[i])
                       /\ Rest(text, StopOf(cs[i]), at[i] + Len(lines[i]))
  <2> TAKE i \in 1..w
  <2>1. i \in 1..n  BY <1>0
  <2>2. QED  BY <1>2, <1>3, <2>1
<1>12. PlacedText(text, Ch, cs) /\ Len(cs) = w  BY <1>10, <1>c
<1>13. QED  BY <1>11, <1>12, Zenon DEF cs, w

\* What a tidy text is laid out as, is nothing if it is unfinished and otherwise
\* its lines.
LEMMA LinesMean ==
  ASSUME NEW Ch, Characters(Ch), NEW text \in Seq(Ch), Tidy(text), NoQuotes(text)
  PROVE  LET lines == Pieces(text, {Newline})
         IN  \E cs :
               /\ PlacedText(text, Ch, cs)
               /\ (IF OnFrom(text, cs) <= Len(text) THEN <<>> ELSE Commands(cs)) =
                    IF Unfinished(text) THEN <<>>
                    ELSE [i \in DOMAIN lines |-> Pieces(lines[i], Blanks)]
<1> DEFINE S == {Newline}
           lines == Pieces(text, S)
           n == Len(lines)
           w == Worded(lines)
           L == Len(text)
           told == [i \in DOMAIN lines |-> Pieces(lines[i], Blanks)]
<1>1. lines \in Seq(Seq(Ch)) /\ \E f : PiecesAt(text, S, 1, lines, f)  BY PiecesPlaced
<1> HIDE DEF lines
<1>2. PICK at : LinesAt(text, lines, at)  BY <1>1 DEF LinesAt
<1> DEFINE cs == [i \in 1..w |-> PlacesOn(lines[i], at[i])]
<1>3. /\ PlacedText(text, Ch, cs) /\ Len(cs) = w
      /\ \A i \in 1..w : /\ Words(cs[i]) = WordsOf(lines[i])
                         /\ Rest(text, StopOf(cs[i]), at[i] + Len(lines[i]))
  BY <1>1, <1>2, LinesLaidOut
<1>4. /\ n \in Nat /\ L \in Nat /\ w \in Nat /\ w <= n /\ n <= w + 1 /\ DOMAIN lines = 1..n
      /\ w # n => n # 0 /\ AllIn(lines[n], Blanks, 1, Len(lines[n]))
  BY <1>1 DEF Worded
<1>5. /\ n = 0 => AllIn(text, S, 1, L)
      /\ n # 0 => AllIn(text, S, 1, at[1])
  BY <1>2 DEF LinesAt, PiecesAt
<1>6. ASSUME NEW i \in 1..n
      PROVE  /\ lines[i] \in Seq(Ch) /\ Len(lines[i]) \in Nat /\ Len(lines[i]) >= 1
             /\ at[i] \in Nat /\ at[i] + Len(lines[i]) \in 1..L
             /\ Holds(text, at[i], lines[i])
             /\ text[at[i] + Len(lines[i])] \in Blanks => i = n
             /\ i # n => /\ at[i] + Len(lines[i]) < at[i + 1]
                         /\ AllIn(text, {Newline}, at[i] + Len(lines[i]) + 1, at[i + 1])
             /\ i = n => AllIn(text, {Newline}, at[i] + Len(lines[i]) + 1, L)
  <2> DEFINE s == lines[i]
             e == at[i] + Len(s)
  <2>1. /\ s \in Seq(Ch) /\ Len(s) \in Nat /\ Len(s) >= 1 /\ at[i] \in Nat
        /\ LineHere(text, s, at[i])
        /\ e \in 1..Len(text) /\ text[e] = s[Len(s)]
        /\ e = Len(text) \/ text[e + 1] = Newline
        /\ text[e] \in Blanks => i = Len(lines) /\ e = Len(text)
        /\ i \in 1..Worded(lines) => IsLine(Ch, s)
        /\ i # Len(lines) =>
             /\ e < at[i + 1] /\ at[i + 1] \in Nat
             /\ AllIn(text, {Newline}, e + 1, at[i + 1])
        /\ i = Len(lines) => AllIn(text, {Newline}, e + 1, Len(text))
    BY <1>1, <1>2, LineEnds
  <2>2. QED  BY <2>1 DEF LineHere
<1>t. Tidy(text)  OBVIOUS
<1> HIDE DEF cs, n, w, L
<1>7. w # 0 => /\ StopOf(cs[w]) \in 1..L /\ text[StopOf(cs[w])] \notin Blanks
               /\ Blank(text, StopOf(cs[w]) + 1, L)
               /\ OnFrom(text, cs) = GoesOn(text, StopOf(cs[w]))
  <2> SUFFICES ASSUME w # 0
               PROVE  /\ StopOf(cs[w]) \in 1..L /\ text[StopOf(cs[w])] \notin Blanks
                      /\ Blank(text, StopOf(cs[w]) + 1, L)
                      /\ OnFrom(text, cs) = GoesOn(text, StopOf(cs[w]))
    OBVIOUS
  <2>1. w \in 1..w /\ w \in 1..n  BY <1>4
  <2>2. Rest(text, StopOf(cs[w]), at[w] + Len(lines[w]))  BY <1>3, <2>1
  <2>3. at[w] + Len(lines[w]) \in 1..L  BY <1>6, <2>1
  <2> DEFINE e == at[w] + Len(lines[w])
  <2>4. StopOf(cs[w]) \in 1..e /\ text[StopOf(cs[w])] \notin Blanks  BY <2>2 DEF Rest
  <2>5. e \in 1..L  BY <2>3
  <2> HIDE DEF e
  <2>6. StopOf(cs[w]) \in 1..L  BY <1>4, <2>4, <2>5
  <2>7. Blank(text, StopOf(cs[w]) + 1, L)  BY <1>3 DEF PlacedText, L
  <2>8. OnFrom(text, cs) = GoesOn(text, StopOf(cs[w]))  BY <1>3 DEF OnFrom
  <2>9. QED  BY <2>4, <2>6, <2>7, <2>8
\* Behind the last line with a word, a line of white space has begun.
<1>8. w # n => /\ at[n] \in 0..L
               /\ at[n] = 0 \/ text[at[n]] = Newline
               /\ \A q \in at[n] + 1..L : text[q] \in Blanks
               /\ w # 0 => OnFrom(text, cs) <= L
  <2> SUFFICES ASSUME w # n
               PROVE  /\ at[n] \in 0..L
                      /\ at[n] = 0 \/ text[at[n]] = Newline
                      /\ \A q \in at[n] + 1..L : text[q] \in Blanks
                      /\ w # 0 => OnFrom(text, cs) <= L
    OBVIOUS
  <2> DEFINE s == lines[n]
             a == at[n]
             l == Len(s)
  <2>1. n \in 1..n /\ n = w + 1 /\ AllIn(s, Blanks, 1, l)  BY <1>4
  <2>2. /\ s \in Seq(Ch) /\ l \in Nat /\ l >= 1 /\ a \in Nat /\ Holds(text, a, s)
        /\ a + l \in 1..L /\ AllIn(text, S, a + l + 1, L)
    BY <1>6, <2>1
  <2>3. \A k \in 1..l : text[a + k] = s[k] /\ s[k] \in Blanks
    BY <2>1, <2>2 DEF Holds, AllIn
  <2>4. CASE w = 0
    <3>1. AllIn(text, S, 1, a)  BY <1>5, <2>1, <2>4
    <3>2. a # 0 => a \in 1..a  BY <2>2
    <3>3. a = 0 \/ text[a] = Newline  BY <3>1, <3>2 DEF AllIn
    <3> HIDE DEF a, l, s, S
    <3>4. a \in 0..L  BY <1>4, <2>2
    <3>5. \A q \in a + 1..L : text[q] \in Blanks
      <4> TAKE q \in a + 1..L
      <4>1. CASE q \in a + l + 1..L  BY <2>2, <4>1 DEF AllIn, Blanks, S
      <4>2. CASE q \notin a + l + 1..L
        <5>1. q - a \in 1..l /\ a + (q - a) = q  BY <1>4, <2>2, <4>2
        <5>2. QED  BY <2>3, <5>1
      <4>3. QED  BY <4>1, <4>2
    <3>6. QED  BY <2>4, <3>3, <3>4, <3>5 DEF a
  <2>5. CASE w # 0
    <3> DEFINE e == at[w] + Len(lines[w])
               stop == StopOf(cs[w])
    <3>1. w \in 1..w /\ w \in 1..n  BY <1>4, <2>5
    <3>2. /\ e \in 1..L /\ e < a /\ AllIn(text, S, e + 1, a) /\ text[e] \notin Blanks
      <4>1. w + 1 = n  BY <2>1
      <4>2. QED  BY <1>6, <3>1, <4>1
    <3>3. stop = e
      <4>1. Rest(text, stop, e)  BY <1>3, <3>1
      <4>2. QED  BY <3>2, <4>1 DEF Rest
    <3>4. OnFrom(text, cs) = GoesOn(text, e)  BY <1>7, <2>5, <3>3
    <3> HIDE DEF e, stop, a, l, s, S
    <3>5. e + 1 \in e + 1..a /\ a \in e + 1..a /\ a \in 0..L  BY <1>4, <2>2, <3>2
    <3>6. text[e + 1] = Newline /\ text[a] = Newline  BY <3>2, <3>5 DEF AllIn, S
    <3>7. OnFrom(text, cs) <= L
      <4>1. OnFrom(text, cs) = e + 1  BY <3>4, <3>6 DEF GoesOn
      <4>2. QED  BY <1>4, <2>2, <3>2, <4>1
    <3>8. \A q \in a + 1..L : text[q] \in Blanks
      <4> TAKE q \in a + 1..L
      <4>1. CASE q \in a + l + 1..L  BY <2>2, <4>1 DEF AllIn, Blanks, S
      <4>2. CASE q \notin a + l + 1..L
        <5>1. q - a \in 1..l /\ a + (q - a) = q  BY <1>4, <2>2, <4>2
        <5>2. QED  BY <2>3, <5>1
      <4>3. QED  BY <4>1, <4>2
    <3>9. QED  BY <3>5, <3>6, <3>7, <3>8 DEF a
  <2>6. QED  BY <2>4, <2>5
<1>9. ASSUME w # n \/ n = 0
      PROVE  Unfinished(text) /\ (OnFrom(text, cs) <= L \/ Commands(cs) = <<>>)
  <2>1. CASE w # n
    <3>1. Unfinished(text)
      <4> DEFINE i == at[n]
      <4>1. /\ i \in 0..L
            /\ i = 0 \/ text[i] = Newline
            /\ \A q \in i + 1..L : text[q] \in Blanks
        BY <1>8, <2>1
      <4> HIDE DEF i
      <4>2. QED  BY <4>1 DEF Unfinished, L
    <3>2. CASE w = 0
      <4>1. Commands(cs) = <<>>  BY <1>3, <3>2 DEF Commands
      <4>2. QED  BY <3>1, <4>1
    <3>3. CASE w # 0  BY <1>8, <2>1, <3>1, <3>3
    <3>4. QED  BY <3>2, <3>3
  <2>2. CASE w = n /\ n = 0
    <3>1. Commands(cs) = <<>>  BY <1>3, <2>2 DEF Commands
    <3>2. \A q \in 0 + 1..L : text[q] \in Blanks
      <4>1. AllIn(text, S, 1, L)  BY <1>5, <2>2
      <4>2. \A q \in 0 + 1..L : q \in 1..L  BY <1>4
      <4>3. Newline \in Blanks  BY DEF Blanks
      <4>4. QED  BY <4>1, <4>2, <4>3 DEF AllIn
    <3>3. 0 \in 0..L  BY <1>4
    <3>4. Unfinished(text)  BY <3>2, <3>3 DEF Unfinished, L
    <3>5. QED  BY <3>1, <3>4
  <2>3. QED  BY <1>9, <2>1, <2>2
<1>10. ASSUME w = n, n # 0
       PROVE  Unfinished(text) <=> OnFrom(text, cs) <= L
  <2> DEFINE e == StopOf(cs[w])
  <2>1. /\ e \in 1..L /\ text[e] \notin Blanks /\ Blank(text, e + 1, L)
        /\ OnFrom(text, cs) = GoesOn(text, e)
    BY <1>7, <1>10
  <2> HIDE DEF e
  <2>2. \A q \in e + 1..L : text[q] \in Blanks  BY <2>1, BlanksAre DEF Blank
  <2>3. ASSUME OnFrom(text, cs) <= L  PROVE Unfinished(text)
    <3>1. e < L /\ text[e + 1] = Newline  BY <1>4, <2>1, <2>3 DEF GoesOn, L
    <3> DEFINE i == e + 1
    <3>2. i \in 0..L  BY <1>4, <2>1, <3>1
    <3>3. \A q \in i + 1..L : q \in e + 1..L  BY <1>4, <2>1
    <3>4. text[i] = Newline /\ \A q \in i + 1..L : text[q] \in Blanks
      BY <2>2, <3>1, <3>3
    <3> HIDE DEF i
    <3>5. QED  BY <3>2, <3>4 DEF Unfinished, L
  <2>4. ASSUME Unfinished(text)  PROVE OnFrom(text, cs) <= L
    <3>1. PICK i \in 0..L : /\ i = 0 \/ text[i] = Newline
                            /\ \A q \in i + 1..L : text[q] \in Blanks
      BY <2>4 DEF Unfinished, L
    <3>2. e <= i
      <4>1. e \notin i + 1..L  BY <2>1, <3>1
      <4>2. QED  BY <1>4, <2>1, <4>1
    <3>3. i # 0 /\ text[i] = Newline  BY <1>4, <2>1, <3>1, <3>2
    <3>4. i # e  BY <2>1, <3>3 DEF Blanks
    <3>5. i = e + 1
      <4> SUFFICES ASSUME i # e + 1 PROVE FALSE  OBVIOUS
      <4>1. i \in 2..Len(text) /\ i - 1 \in e + 1..L  BY <1>4, <2>1, <3>2, <3>4 DEF L
      <4>2. text[i - 1] \notin Blanks  BY <1>t, <3>3, <4>1 DEF Tidy
      <4>3. QED  BY <2>2, <4>1, <4>2
    <3>6. e < L /\ text[e + 1] = Newline  BY <1>4, <2>1, <3>3, <3>5
    <3>7. OnFrom(text, cs) = e + 1  BY <2>1, <3>6 DEF GoesOn
    <3>8. QED  BY <1>4, <2>1, <3>6, <3>7
  <2>5. QED  BY <2>3, <2>4
<1>11. w = n => Commands(cs) = told
  <2> SUFFICES ASSUME w = n PROVE Commands(cs) = told  OBVIOUS
  <2>1. Commands(cs) = [i \in 1..n |-> WordsOf(lines[i])]  BY <1>3 DEF Commands
  <2>2. told = [i \in 1..n |-> WordsOf(lines[i])]  BY <1>4 DEF WordsOf
  <2>3. QED  BY <2>1, <2>2
<1> HIDE DEF told
<1>12. (IF OnFrom(text, cs) <= L THEN <<>> ELSE Commands(cs)) =
         IF Unfinished(text) THEN <<>> ELSE told
  <2>1. CASE w # n \/ n = 0  BY <1>9, <2>1
  <2>2. CASE w = n /\ n # 0  BY <1>10, <1>11, <2>2
  <2>3. QED  BY <2>1, <2>2
<1>13. \E c : /\ PlacedText(text, Ch, c)
              /\ (IF OnFrom(text, c) <= L THEN <<>> ELSE Commands(c)) =
                   IF Unfinished(text) THEN <<>> ELSE told
  BY <1>3, <1>12
<1>14. QED  BY <1>13, Zenon DEF told, lines, S, L

\* A text and what is merged of it differ in blanks.
LEMMA MergedIs ==
  ASSUME NEW Ch, Characters(Ch), NEW text \in Seq(Ch)
  PROVE  LET t == Merged(text)
         IN  /\ t \in Seq(Ch) /\ Len(t) = Len(text)
             /\ \A q \in 1..Len(text) : /\ Unimportant(t[q]) <=> Unimportant(text[q])
                                        /\ ~Unimportant(t[q]) => t[q] = text[q]
             /\ \A q \in 1..Len(text) :
                  q + 1 <= Len(text) /\ ~Unimportant(text[q]) => t[q + 1] = text[q + 1]
             /\ Tidy(t)
<1> DEFINE t == Merged(text)
           L == Len(text)
           Is(q) == IF text[q] = Newline /\ q > 1 /\ text[q - 1] \in Blanks THEN Space
                    ELSE text[q]
<1>1. L \in Nat /\ DOMAIN text = 1..L /\ \A q \in 1..L : text[q] \in Ch  OBVIOUS
<1>2. t = [q \in 1..L |-> Is(q)]  BY <1>1, Zenon DEF Merged, Space
<1>3. \A q \in 1..L : t[q] = Is(q)  BY <1>2
<1>4. Space \in Ch  BY DEF Characters, Space
<1>5. t \in Seq(Ch) /\ Len(t) = L
  <2>1. \A q \in 1..L : Is(q) \in Ch  BY <1>1, <1>4
  <2>2. t \in [1..L -> Ch]  BY <1>2, <2>1
  <2> HIDE DEF t, L
  <2>3. QED  BY <1>1, <2>2, FunSeq
<1>6. Unimportant(Space) /\ Space # Newline /\ Unimportant(Newline)
  BY SpaceIs DEF Unimportant
<1> HIDE DEF t, L
<1>7. \A q \in 1..L : /\ Unimportant(t[q]) <=> Unimportant(text[q])
                      /\ ~Unimportant(t[q]) => t[q] = text[q]
  <2> TAKE q \in 1..L
  <2>1. CASE text[q] = Newline /\ q > 1 /\ text[q - 1] \in Blanks
    <3>1. t[q] = Space  BY <1>3, <2>1
    <3>2. QED  BY <1>6, <2>1, <3>1
  <2>2. CASE ~(text[q] = Newline /\ q > 1 /\ text[q - 1] \in Blanks)
    <3>1. t[q] = text[q]  BY <1>3, <2>2
    <3>2. QED  BY <3>1
  <2>3. QED  BY <2>1, <2>2
<1>8. ASSUME NEW q \in 1..L, q + 1 <= L, ~Unimportant(text[q])  PROVE t[q + 1] = text[q + 1]
  <2> DEFINE k == q + 1
  <2>1. k \in 1..L /\ k - 1 = q /\ text[q] \notin Blanks  BY <1>1, <1>8, BlanksAre
  <2> HIDE DEF k
  <2>2. t[k] = Is(k)  BY <1>3, <2>1
  <2>3. t[k] = text[k]  BY <2>1, <2>2
  <2>4. QED  BY <2>3 DEF k
<1>9. Tidy(t)
  <2>1. ASSUME NEW q \in 2..Len(t), t[q] = Newline  PROVE t[q - 1] \notin Blanks
    <3> DEFINE k == q - 1
    <3>1. q \in 1..L /\ k \in 1..L /\ q > 1  BY <1>1, <1>5
    <3>2. t[q] = Is(q)  BY <1>3, <3>1
    <3>3. text[q] = Newline /\ text[k] \notin Blanks  BY <1>6, <2>1, <3>1, <3>2
    <3> HIDE DEF k
    <3>4. ~Unimportant(text[k])  BY <3>3, BlanksAre, Zenon
    <3>5. t[k] \notin Blanks  BY <1>7, <3>1, <3>4, BlanksAre, Zenon
    <3>6. QED  BY <3>5 DEF k
  <2>2. QED  BY <2>1 DEF Tidy
<1>10. QED  BY <1>5, <1>7, <1>8, <1>9 DEF t, L

\* A word of what is merged is one of the text, and no white space in it.
LEMMA WordKept ==
  ASSUME NEW Ch, Characters(Ch), NEW text \in Seq(Ch), NoQuotes(text),
         NEW w, PlacedWord(Merged(text), Ch, w)
  PROVE  /\ PlacedWord(text, Ch, w) /\ Stop(w) \in 1..Len(text) /\ w.at \in Nat
         /\ w.at + 1 <= Stop(w) /\ ~Unimportant(text[Stop(w)])
<1> DEFINE t == Merged(text)
           s == w.spelled
           b == w.at
           L == Len(text)
           l == Len(s)
<1>0. /\ t \in Seq(Ch) /\ Len(t) = Len(text)
      /\ \A q \in 1..Len(text) : /\ Unimportant(t[q]) <=> Unimportant(text[q])
                                 /\ ~Unimportant(t[q]) => t[q] = text[q]
      /\ \A q \in 1..Len(text) :
           q + 1 <= Len(text) /\ ~Unimportant(text[q]) => t[q + 1] = text[q + 1]
      /\ Tidy(t)
  BY MergedIs, Zenon
<1>n. Len(text) \in Nat /\ DOMAIN text = 1..Len(text)  OBVIOUS
<1>1. /\ t \in Seq(Ch) /\ Len(t) = L /\ L \in Nat /\ DOMAIN text = 1..L
      /\ \A q \in 1..L : ~Unimportant(t[q]) => t[q] = text[q]
  BY <1>0, <1>n, Zenon
<1>2. w.word \in Seq(Ch) /\ Spells(w.word, s) /\ b \in Nat /\ Holds(t, b, s)
  BY DEF PlacedWord
<1>3. Stop(w) \in 1..L /\ b + 1 <= Stop(w) /\ Stop(w) = b + l
  BY <1>1, StopRange DEF Stop
<1> HIDE DEF t
<1>4. s \in Seq(Ch)  BY <1>2, QuotedForm DEF Spells
<1>5. l \in Nat /\ b + l <= L /\ (\A k \in 1..l : t[b + k] = s[k]) /\ DOMAIN s = 1..l
  BY <1>1, <1>2, <1>4 DEF Holds
<1>6. Bare(w.word) /\ s = w.word
  <2> SUFFICES ASSUME s = Quoted(w.word) PROVE FALSE  BY <1>2 DEF Spells
  <2>1. PICK pos : QuotedAs(w.word, s, pos)  BY <1>2, QuotedForm
  <2>2. s[1] = Quote  BY <2>1 DEF QuotedAs
  <2> HIDE DEF s, b, l
  <2>3. 1 \in 1..l /\ b + 1 \in 1..L  BY <1>1, <1>2, <1>3, <1>5
  <2>4. t[b + 1] = Quote  BY <1>5, <2>2, <2>3
  <2>5. ~Unimportant(Quote)  BY DEF Unimportant, Quote, Newline
  <2>6. text[b + 1] = Quote  BY <1>1, <2>3, <2>4, <2>5
  <2>7. QED  BY <1>1, <2>3, <2>6 DEF NoQuotes
<1>7. \A k \in 1..l : ~Unimportant(s[k])  BY <1>5, <1>6 DEF Bare
<1> HIDE DEF s, b, l, L
<1>8. \A k \in 1..l : text[b + k] = s[k]
  <2> TAKE k \in 1..l
  <2>1. b + k \in 1..L  BY <1>1, <1>2, <1>5
  <2>2. t[b + k] = s[k] /\ ~Unimportant(s[k])  BY <1>5, <1>7
  <2>3. QED  BY <1>1, <2>1, <2>2
<1>9. Holds(text, b, s)  BY <1>5, <1>8 DEF Holds, l, L
<1>10. ~Unimportant(text[Stop(w)])
  <2>1. l \in 1..l  BY <1>2, <1>3, <1>5
  <2>2. QED  BY <1>3, <1>7, <1>8, <2>1
<1>11. PlacedWord(text, Ch, w)  BY <1>2, <1>9 DEF PlacedWord, s, b
<1>12. QED  BY <1>2, <1>3, <1>10, <1>11 DEF b, L

\* A command of what is merged is one of the text.
LEMMA CommandKept ==
  ASSUME NEW Ch, Characters(Ch), NEW text \in Seq(Ch), NoQuotes(text),
         NEW ws, PlacedCommand(Merged(text), Ch, ws)
  PROVE  /\ PlacedCommand(text, Ch, ws) /\ ws[1].at \in Nat /\ ws[1].at <= Len(text)
         /\ StopOf(ws) \in 1..Len(text) /\ ~Unimportant(text[StopOf(ws)])
<1> DEFINE t == Merged(text)
           m == Len(ws)
           L == Len(text)
<1>0. /\ t \in Seq(Ch) /\ Len(t) = Len(text)
      /\ \A q \in 1..Len(text) : /\ Unimportant(t[q]) <=> Unimportant(text[q])
                                 /\ ~Unimportant(t[q]) => t[q] = text[q]
      /\ \A q \in 1..Len(text) :
           q + 1 <= Len(text) /\ ~Unimportant(text[q]) => t[q + 1] = text[q + 1]
      /\ Tidy(t)
  BY MergedIs, Zenon
<1>n. Len(text) \in Nat /\ DOMAIN text = 1..Len(text)  OBVIOUS
<1>1. /\ Len(t) = L /\ L \in Nat
      /\ \A q \in 1..L : Unimportant(t[q]) <=> Unimportant(text[q])
      /\ \A q \in 1..L : q + 1 <= L /\ ~Unimportant(text[q]) => t[q + 1] = text[q + 1]
  BY <1>0, <1>n, Zenon
<1>2. /\ m \in Nat /\ m >= 1
      /\ \A j \in 1..m : PlacedWord(t, Ch, ws[j])
      /\ \A j \in 1..m - 1 : Between(t, Stop(ws[j]), ws[j + 1]) /\ t[Stop(ws[j]) + 1] # Newline
      /\ Blank(t, Stop(ws[m]) + 1, L) \/ t[Stop(ws[m]) + 1] = Newline
  BY <1>1 DEF PlacedCommand
<1>3. \A j \in 1..m : /\ PlacedWord(text, Ch, ws[j]) /\ Stop(ws[j]) \in 1..L
                      /\ ws[j].at \in Nat /\ ws[j].at + 1 <= Stop(ws[j])
                      /\ ~Unimportant(text[Stop(ws[j])])
  BY <1>2, WordKept
<1> HIDE DEF t, m, L
<1>4. ASSUME NEW p \in Nat, p >= 1, NEW b \in Nat, b <= L, Blank(t, p, b)
      PROVE  Blank(text, p, b)
  <2>1. \A q \in p..b : q \in 1..L  BY <1>1, <1>4
  <2>2. QED  BY <1>1, <1>4, <2>1 DEF Blank
<1>5. ASSUME NEW j \in 1..m - 1
      PROVE  Between(text, Stop(ws[j]), ws[j + 1]) /\ text[Stop(ws[j]) + 1] # Newline
  <2> DEFINE e == Stop(ws[j])
             b == ws[j + 1].at
  <2>1. j \in 1..m /\ j + 1 \in 1..m  BY <1>2
  <2>2. e \in 1..L /\ b \in Nat /\ b + 1 <= Stop(ws[j + 1]) /\ Stop(ws[j + 1]) \in 1..L
        /\ ~Unimportant(text[e])
    BY <1>3, <2>1
  <2>3. e < b /\ Blank(t, e + 1, b) /\ t[e + 1] # Newline  BY <1>2 DEF Between
  <2> HIDE DEF e, b
  <2>4. b <= L /\ e + 1 <= L /\ e + 1 \in Nat /\ e + 1 >= 1  BY <1>1, <2>2, <2>3
  <2>5. Blank(text, e + 1, b) /\ text[e + 1] # Newline  BY <1>1, <1>4, <2>2, <2>3, <2>4
  <2>6. QED  BY <2>3, <2>5 DEF Between, e, b
<1>6. 1 \in 1..m /\ m \in 1..m  BY <1>2
<1>7. Blank(text, Stop(ws[m]) + 1, L) \/ text[Stop(ws[m]) + 1] = Newline
  <2> DEFINE e == Stop(ws[m])
  <2>1. e \in 1..L /\ ~Unimportant(text[e])  BY <1>3, <1>6
  <2>2. Blank(t, e + 1, L) \/ t[e + 1] = Newline  BY <1>2
  <2> HIDE DEF e
  <2>3. CASE e = L
    <3>1. \A q \in e + 1..L : FALSE  BY <1>1, <2>3
    <3>2. QED  BY <3>1 DEF Blank, e
  <2>4. CASE e # L
    <3>1. e + 1 <= L /\ e + 1 \in Nat /\ e + 1 >= 1 /\ L <= L  BY <1>1, <2>1, <2>4
    <3>2. t[e + 1] = text[e + 1]  BY <1>1, <2>1, <3>1
    <3>3. Blank(t, e + 1, L) => Blank(text, e + 1, L)  BY <1>1, <1>4, <3>1
    <3>4. QED  BY <2>2, <3>2, <3>3 DEF e
  <2>5. QED  BY <2>3, <2>4
<1>8. PlacedCommand(text, Ch, ws)
  BY <1>2, <1>3, <1>5, <1>7 DEF PlacedCommand, m, L
<1>9. ws[1].at <= L /\ ws[1].at \in Nat
  <2> DEFINE b == ws[1].at
             e == Stop(ws[1])
  <2>1. b \in Nat /\ e \in 1..L /\ b + 1 <= e  BY <1>3, <1>6
  <2> HIDE DEF b, e
  <2>2. b <= L /\ b \in Nat  BY <1>1, <2>1
  <2>3. QED  BY <2>2 DEF b
<1>10. QED  BY <1>3, <1>6, <1>8, <1>9 DEF StopOf, m, L

\* What is merged is laid out as the text is.
LEMMA TextKept ==
  ASSUME NEW Ch, Characters(Ch), NEW text \in Seq(Ch), NoQuotes(text),
         NEW cs, PlacedText(Merged(text), Ch, cs)
  PROVE  PlacedText(text, Ch, cs) /\ OnFrom(text, cs) = OnFrom(Merged(text), cs)
<1> DEFINE t == Merged(text)
           n == Len(cs)
           L == Len(text)
<1>0. /\ t \in Seq(Ch) /\ Len(t) = Len(text)
      /\ \A q \in 1..Len(text) : /\ Unimportant(t[q]) <=> Unimportant(text[q])
                                 /\ ~Unimportant(t[q]) => t[q] = text[q]
      /\ \A q \in 1..Len(text) :
           q + 1 <= Len(text) /\ ~Unimportant(text[q]) => t[q + 1] = text[q + 1]
      /\ Tidy(t)
  BY MergedIs, Zenon
<1>n. Len(text) \in Nat /\ DOMAIN text = 1..Len(text)  OBVIOUS
<1>1. /\ Len(t) = L /\ L \in Nat
      /\ \A q \in 1..L : Unimportant(t[q]) <=> Unimportant(text[q])
      /\ \A q \in 1..L : q + 1 <= L /\ ~Unimportant(text[q]) => t[q + 1] = text[q + 1]
  BY <1>0, <1>n, Zenon
<1>2. /\ n \in Nat
      /\ \A i \in 1..n : PlacedCommand(t, Ch, cs[i])
      /\ n = 0 => Blank(t, 1, L)
      /\ n # 0 => Blank(t, 1, cs[1][1].at) /\ Blank(t, StopOf(cs[n]) + 1, L)
      /\ \A i \in 1..n - 1 : /\ Between(t, StopOf(cs[i]), cs[i + 1][1])
                             /\ t[StopOf(cs[i]) + 1] = Newline
  BY <1>1 DEF PlacedText
<1>3. \A i \in 1..n : /\ PlacedCommand(text, Ch, cs[i]) /\ cs[i][1].at \in Nat
                      /\ cs[i][1].at <= L /\ StopOf(cs[i]) \in 1..L
                      /\ ~Unimportant(text[StopOf(cs[i])])
  BY <1>2, CommandKept
<1> HIDE DEF t, n, L
<1>4. ASSUME NEW p \in Nat, p >= 1, NEW b \in Nat, b <= L, Blank(t, p, b)
      PROVE  Blank(text, p, b)
  <2>1. \A q \in p..b : q \in 1..L  BY <1>1, <1>4
  <2>2. QED  BY <1>1, <1>4, <2>1 DEF Blank
<1>5. n = 0 => Blank(text, 1, L)
  <2>1. 1 \in Nat /\ 1 >= 1 /\ L \in Nat /\ L <= L  BY <1>1
  <2>2. QED  BY <1>2, <1>4, <2>1
<1>6. n # 0 => /\ Blank(text, 1, cs[1][1].at) /\ Blank(text, StopOf(cs[n]) + 1, L)
               /\ GoesOn(text, StopOf(cs[n])) = GoesOn(t, StopOf(cs[n]))
  <2> SUFFICES ASSUME n # 0
               PROVE  /\ Blank(text, 1, cs[1][1].at) /\ Blank(text, StopOf(cs[n]) + 1, L)
                      /\ GoesOn(text, StopOf(cs[n])) = GoesOn(t, StopOf(cs[n]))
    OBVIOUS
  <2> DEFINE e == StopOf(cs[n])
             b == cs[1][1].at
  <2>1. 1 \in 1..n /\ n \in 1..n  BY <1>2
  <2>2. e \in 1..L /\ ~Unimportant(text[e]) /\ b \in Nat /\ b <= L
        /\ Blank(t, 1, b) /\ Blank(t, e + 1, L)
    BY <1>2, <1>3, <2>1
  <2> HIDE DEF e, b
  <2>3. Blank(text, 1, b)
    <3>1. 1 \in Nat /\ 1 >= 1  OBVIOUS
    <3>2. QED  BY <1>4, <2>2, <3>1
  <2>4. Blank(text, e + 1, L)
    <3>1. e + 1 \in Nat /\ e + 1 >= 1 /\ L <= L  BY <1>1, <2>2
    <3>2. QED  BY <1>1, <1>4, <2>2, <3>1
  <2>5. GoesOn(text, e) = GoesOn(t, e)
    <3>1. e < L => t[e + 1] = text[e + 1]  BY <1>1, <2>2
    <3>2. QED  BY <1>1, <3>1 DEF GoesOn, L
  <2>6. QED  BY <2>3, <2>4, <2>5 DEF e, b
<1>7. ASSUME NEW i \in 1..n - 1
      PROVE  /\ Between(text, StopOf(cs[i]), cs[i + 1][1])
             /\ text[StopOf(cs[i]) + 1] = Newline
  <2> DEFINE e == StopOf(cs[i])
             b == cs[i + 1][1].at
  <2>1. i \in 1..n /\ i + 1 \in 1..n  BY <1>2
  <2>2. e \in 1..L /\ ~Unimportant(text[e]) /\ b \in Nat /\ b <= L  BY <1>3, <2>1
  <2>3. e < b /\ Blank(t, e + 1, b) /\ t[e + 1] = Newline  BY <1>2 DEF Between
  <2> HIDE DEF e, b
  <2>4. e + 1 <= L /\ e + 1 \in Nat /\ e + 1 >= 1  BY <1>1, <2>2, <2>3
  <2>5. Blank(text, e + 1, b) /\ text[e + 1] = Newline  BY <1>1, <1>4, <2>2, <2>3, <2>4
  <2>6. QED  BY <2>3, <2>5 DEF Between, e, b
<1>8. PlacedText(text, Ch, cs)  BY <1>2, <1>3, <1>5, <1>6, <1>7 DEF PlacedText, n, L
<1>9. OnFrom(text, cs) = OnFrom(t, cs)  BY <1>6 DEF OnFrom, n
<1>10. QED  BY <1>8, <1>9 DEF t

\* Of a text without quotes, what the lines are read as (aci/aci.cpp:1046).
LEMMA LinesRead ==
  ASSUME NEW Ch, Characters(Ch), NEW text \in Seq(Ch), NoQuotes(text)
  PROVE  LET merged == Merged(text)
             lines == Pieces(merged, {Newline})
         IN  parse(text) = IF Unfinished(merged) THEN <<>>
                           ELSE [i \in DOMAIN lines |-> Pieces(lines[i], Blanks)]
<1> DEFINE t == Merged(text)
           lines == Pieces(t, {Newline})
           told == IF Unfinished(t) THEN <<>>
                   ELSE [i \in DOMAIN lines |-> Pieces(lines[i], Blanks)]
<1>0. /\ t \in Seq(Ch) /\ Len(t) = Len(text)
      /\ \A q \in 1..Len(text) : /\ Unimportant(t[q]) <=> Unimportant(text[q])
                                 /\ ~Unimportant(t[q]) => t[q] = text[q]
      /\ \A q \in 1..Len(text) :
           q + 1 <= Len(text) /\ ~Unimportant(text[q]) => t[q + 1] = text[q + 1]
      /\ Tidy(t)
  BY MergedIs, Zenon
<1>1. t \in Seq(Ch) /\ Len(t) = Len(text) /\ Tidy(t)  BY <1>0, Zenon
<1>2. NoQuotes(t)
  <2>1. ASSUME NEW q \in 1..Len(text)  PROVE t[q] # Quote
    <3>1. ~Unimportant(t[q]) => t[q] = text[q]  BY <1>0, Zenon
    <3>2. ~Unimportant(Quote)  BY DEF Unimportant, Quote, Newline
    <3>3. q \in DOMAIN text  OBVIOUS
    <3>4. QED  BY <3>1, <3>2, <3>3 DEF NoQuotes
  <2>2. DOMAIN t = 1..Len(text)  BY <1>1
  <2>3. QED  BY <2>1, <2>2 DEF NoQuotes
<1> HIDE DEF t
<1>3. PICK cs : /\ PlacedText(t, Ch, cs)
                /\ (IF OnFrom(t, cs) <= Len(t) THEN <<>> ELSE Commands(cs)) = told
  BY <1>1, <1>2, LinesMean
<1>4. PlacedText(text, Ch, cs) /\ OnFrom(text, cs) = OnFrom(t, cs)
  BY <1>3, TextKept DEF t
<1>5. parse(text) = IF OnFrom(text, cs) <= Len(text) THEN <<>> ELSE Commands(cs)
  BY <1>4, TextRead
<1> HIDE DEF told
<1>6. parse(text) = told  BY <1>1, <1>3, <1>4, <1>5
<1>7. QED  BY <1>6, Zenon DEF told, lines, t

-----------------------------------------------------------------------------
(* Bytes.                                                                  *)

\* What was written is read back.
LEMMA BytesAre ==
  ASSUME NEW buff \in Seq(Byte), NEW s \in Seq(Byte), NEW off \in Nat, Holds(buff, off, s)
  PROVE  Bytes(buff, off, Len(s)) = s
<1> DEFINE l == Len(s)
           t == SubSeq(buff, off + 1, off + l)
<1>1. l \in Nat /\ off + l <= Len(buff) /\ \A k \in 1..l : buff[off + k] = s[k]
  BY DEF Holds
<1>2. DOMAIN s = 1..l  OBVIOUS
<1> HIDE DEF l
<1>3. /\ t \in Seq(Byte) /\ Len(t) = l /\ \A k \in 1..l : t[k] = buff[off + k]
  BY <1>1, Portion
<1>4. Bytes(buff, off, l) = t  BY <1>1 DEF Bytes
<1> HIDE DEF t
<1>5. t = s
  <2>1. DOMAIN t = 1..l  BY <1>3
  <2>2. \A k \in 1..l : t[k] = s[k]  BY <1>1, <1>3
  <2>3. t = [k \in 1..l |-> t[k]] /\ s = [k \in 1..l |-> s[k]]  BY <1>2, <1>3, <2>1
  <2>4. QED  BY <2>2, <2>3
<1>6. QED  BY <1>4, <1>5 DEF l

\* Of what was written one after the other.
LEMMA HoldsBoth ==
  ASSUME NEW Ch, NEW buff, NEW s \in Seq(Ch), NEW t \in Seq(Ch), NEW off \in Nat,
         Len(buff) \in Nat, Holds(buff, off, s \o t)
  PROVE  Holds(buff, off, s) /\ Holds(buff, off + Len(s), t)
<1> DEFINE l == Len(s)
           m == Len(t)
           r == s \o t
           L == Len(buff)
<1>1. /\ r \in Seq(Ch) /\ Len(r) = l + m
      /\ \A k \in 1..l : r[k] = s[k]
      /\ \A k \in 1..m : r[l + k] = t[k]
  BY Joined
<1>2. l \in Nat /\ m \in Nat /\ L \in Nat  OBVIOUS
<1>3. off + Len(r) <= L /\ \A k \in 1..Len(r) : buff[off + k] = r[k]  BY DEF Holds
<1> HIDE DEF l, m, r, L
<1>4. \A k \in 1..l : buff[off + k] = s[k]
  <2>1. \A k \in 1..l : k \in 1..Len(r)  BY <1>1, <1>2
  <2>2. QED  BY <1>1, <1>3, <2>1
<1>5. \A k \in 1..m : buff[off + l + k] = t[k]
  <2> TAKE k \in 1..m
  <2>1. l + k \in 1..Len(r) /\ off + (l + k) = off + l + k  BY <1>1, <1>2
  <2>2. buff[off + (l + k)] = r[l + k]  BY <1>3, <2>1
  <2>3. QED  BY <1>1, <2>1, <2>2
<1>6. off + l <= L /\ off + l + m <= L  BY <1>1, <1>2, <1>3
<1>7. QED  BY <1>4, <1>5, <1>6 DEF Holds, l, m, L

\* The order of the bytes, there and back.
LEMMA OrderTwice ==
  ASSUME NEW s \in Seq(Byte), NEW little \in BOOLEAN
  PROVE  /\ InOrder(s, little) \in Seq(Byte) /\ Len(InOrder(s, little)) = Len(s)
         /\ InOrder(InOrder(s, little), little) = s
<1> DEFINE l == Len(s)
           r == Reverse(s)
<1>1. l \in Nat /\ DOMAIN s = 1..l /\ \A i \in 1..l : s[i] \in Byte  OBVIOUS
<1>2. r = [i \in 1..l |-> s[(l - i) + 1]]  BY DEF Reverse
<1> HIDE DEF l, r
<1>3. r \in Seq(Byte) /\ Len(r) = l
  <2>1. \A i \in 1..l : (l - i) + 1 \in 1..l  BY <1>1
  <2>2. r \in [1..l -> Byte]  BY <1>1, <1>2, <2>1
  <2>3. QED  BY <1>1, <2>2, FunSeq
<1>4. Reverse(r) = s
  <2>1. Reverse(r) = [i \in 1..l |-> r[(l - i) + 1]]  BY <1>3 DEF Reverse
  <2>2. ASSUME NEW i \in 1..l  PROVE r[(l - i) + 1] = s[i]
    <3>1. (l - i) + 1 \in 1..l /\ (l - ((l - i) + 1)) + 1 = i  BY <1>1
    <3>2. r[(l - i) + 1] = s[(l - ((l - i) + 1)) + 1]  BY <1>2, <3>1
    <3>3. QED  BY <3>1, <3>2
  <2>3. s = [i \in 1..l |-> s[i]]  BY <1>1
  <2>4. QED  BY <2>1, <2>2, <2>3
<1>5. CASE little  BY <1>5 DEF InOrder
<1>6. CASE ~little
  <2>1. InOrder(s, little) = r /\ InOrder(r, little) = Reverse(r)  BY <1>6 DEF InOrder, r
  <2>2. QED  BY <1>3, <1>4, <2>1 DEF l
<1>7. QED  BY <1>5, <1>6

\* A number's digits.
Digit(n, i) ==
  CASE i = 1 -> n % 256
    [] i = 2 -> (n \div 256) % 256
    [] i = 3 -> (n \div 65536) % 256
    [] i = 4 -> (n \div 16777216) % 256
    [] OTHER -> 0

\* The digits of a number, the lowest first.
Digits(n, width) == [i \in 1..width |-> Digit(n, i)]

\* They are bytes.
LEMMA DigitsAre ==
  ASSUME NEW n \in Nat, NEW width \in Nat
  PROVE  Digits(n, width) \in Seq(Byte) /\ Len(Digits(n, width)) = width
<1>1. \A x \in Nat : x % 256 \in Byte  BY DEF Byte
<1>2. n \div 256 \in Nat /\ n \div 65536 \in Nat /\ n \div 16777216 \in Nat  OBVIOUS
<1>3. \A i \in 1..width : Digit(n, i) \in Byte
  <2> TAKE i \in 1..width
  <2> DEFINE a == n % 256
             b == (n \div 256) % 256
             c == (n \div 65536) % 256
             d == (n \div 16777216) % 256
  <2>1. a \in Byte /\ b \in Byte /\ c \in Byte /\ d \in Byte /\ 0 \in Byte
    <3>1. 0 \in Byte  BY DEF Byte
    <3>2. QED  BY <1>1, <1>2, <3>1
  <2>2. Digit(n, i) = CASE i = 1 -> a [] i = 2 -> b [] i = 3 -> c [] i = 4 -> d [] OTHER -> 0
    BY DEF Digit
  <2> HIDE DEF a, b, c, d
  <2>3. QED  BY <2>1, <2>2
<1>4. Digits(n, width) \in [1..width -> Byte]  BY <1>3 DEF Digits
<1>5. QED  BY <1>4, FunSeq

\* Two digits, and four, are the number.
LEMMA TwoDigits ==
  ASSUME NEW n \in Nat, n <= MaxKey
  PROVE  Number(Digits(n, 2)) = n
<1> DEFINE s == Digits(n, 2)
           q == n \div 256
           x == n % 256
<1>1. q \in Nat /\ x \in Nat /\ n = 256 * q + x /\ x < 256  OBVIOUS
<1>2. q < 256  BY <1>1 DEF MaxKey
<1>3. q % 256 = q  BY <1>1, <1>2
<1>4. Len(s) = 2  BY DigitsAre
<1>5. s[1] = x /\ s[2] = q
  <2>1. s[1] = Digit(n, 1) /\ s[2] = Digit(n, 2)  BY DEF Digits
  <2>2. Digit(n, 1) = x  BY DEF Digit
  <2>3. Digit(n, 2) = q % 256  BY DEF Digit
  <2>4. QED  BY <1>3, <2>1, <2>2, <2>3
<1> HIDE DEF s, q, x
<1>6. Number(s) = x + 256 * q
  <2>1. Number(s) = s[1] + 256 * s[2] + 0
    <3>1. Len(s) > 1 /\ ~(Len(s) > 2)  BY <1>4
    <3> DEFINE a == IF Len(s) > 1 THEN 256 * s[2] ELSE 0
               b == IF Len(s) > 2 THEN 65536 * s[3] + 16777216 * s[4] ELSE 0
    <3>2. Number(s) = s[1] + a + b  BY DEF Number
    <3>3. a = 256 * s[2] /\ b = 0  BY <3>1
    <3>4. QED  BY <3>2, <3>3
  <2>2. QED  BY <1>1, <1>5, <2>1
<1>7. QED  BY <1>1, <1>6 DEF s

\* Four digits say which number up to MaxLength they are of.
LEMMA FourDigits ==
  ASSUME NEW n \in Nat, n <= MaxLength
  PROVE  Number(Digits(n, 4)) = n
<1> DEFINE s == Digits(n, 4)
           q == n \div 256
           x == n % 256
           u == q \div 256
           y == q % 256
           v == u \div 256
           z == u % 256
<1>1. q \in Nat /\ x \in Nat /\ n = 256 * q + x /\ x < 256  OBVIOUS
<1>2. u \in Nat /\ y \in Nat /\ q = 256 * u + y /\ y < 256
  <2> HIDE DEF q
  <2>1. QED  BY <1>1
<1>3. v \in Nat /\ z \in Nat /\ u = 256 * v + z /\ z < 256
  <2> HIDE DEF u
  <2>1. QED  BY <1>2
<1> HIDE DEF q, x, u, y, v, z
<1>4. v < 256
  <2>1. n = 16777216 * v + 65536 * z + 256 * y + x  BY <1>1, <1>2, <1>3
  <2>2. n <= 2147483647  BY DEF MaxLength
  <2>3. QED  BY <1>1, <1>2, <1>3, <2>1, <2>2
<1>5. n \div 65536 = u
  <2> DEFINE w == 256 * y + x
  <2>1. w \in Nat /\ w < 65536 /\ n = 65536 * u + w  BY <1>1, <1>2
  <2> HIDE DEF w
  <2>2. QED  BY <1>2, <2>1
<1>6. n \div 16777216 = v
  <2> DEFINE w == 65536 * z + 256 * y + x
  <2>1. w \in Nat /\ w < 16777216 /\ n = 16777216 * v + w  BY <1>1, <1>2, <1>3
  <2> HIDE DEF w
  <2>2. QED  BY <1>3, <2>1
<1>7. q % 256 = y /\ u % 256 = z /\ v % 256 = v
  <2>1. v % 256 = v  BY <1>3, <1>4
  <2>2. QED  BY <2>1 DEF y, z
<1>8. Len(s) = 4  BY DigitsAre
<1>9. s[1] = x /\ s[2] = y /\ s[3] = z /\ s[4] = v
  <2>1. s[1] = Digit(n, 1) /\ s[2] = Digit(n, 2) /\ s[3] = Digit(n, 3) /\ s[4] = Digit(n, 4)
    BY DEF Digits
  <2>2. Digit(n, 1) = x  BY DEF Digit, x
  <2>3. Digit(n, 2) = q % 256  BY DEF Digit, q
  <2>4. Digit(n, 3) = (n \div 65536) % 256  BY DEF Digit
  <2>5. Digit(n, 4) = (n \div 16777216) % 256  BY DEF Digit
  <2>6. QED  BY <1>5, <1>6, <1>7, <2>1, <2>2, <2>3, <2>4, <2>5
<1> HIDE DEF s
<1>10. Number(s) = x + 256 * y + (65536 * z + 16777216 * v)
  <2>1. Number(s) = s[1] + 256 * s[2] + (65536 * s[3] + 16777216 * s[4])
    <3>1. Len(s) > 1 /\ Len(s) > 2  BY <1>8
    <3> DEFINE a == IF Len(s) > 1 THEN 256 * s[2] ELSE 0
               b == IF Len(s) > 2 THEN 65536 * s[3] + 16777216 * s[4] ELSE 0
    <3>2. Number(s) = s[1] + a + b  BY DEF Number
    <3>3. a = 256 * s[2] /\ b = 65536 * s[3] + 16777216 * s[4]  BY <3>1
    <3>4. QED  BY <3>2, <3>3
  <2>2. QED  BY <1>9, <2>1
<1>11. QED  BY <1>1, <1>2, <1>3, <1>10 DEF s

\* The lengths that fit into two bytes and into four.
Sized(n, width) == (width = 2 /\ n <= MaxKey) \/ (width = 4 /\ n <= MaxLength)

\* What is written are the digits, in the order of the machine.
LEMMA Written ==
  ASSUME NEW n \in Nat, NEW width \in Nat, NEW little \in BOOLEAN
  PROVE  /\ write_to(n, width, little) \in Seq(Byte)
         /\ Len(write_to(n, width, little)) = width
         /\ InOrder(write_to(n, width, little), little) = Digits(n, width)
<1>1. write_to(n, width, little) = InOrder(Digits(n, width), little)
  BY DEF write_to, Digits, Digit
<1> DEFINE s == Digits(n, width)
<1>2. s \in Seq(Byte) /\ Len(s) = width  BY DigitsAre
<1> HIDE DEF s
<1>3. /\ InOrder(s, little) \in Seq(Byte) /\ Len(InOrder(s, little)) = Len(s)
      /\ InOrder(InOrder(s, little), little) = s
  BY <1>2, OrderTwice
<1>4. QED  BY <1>1, <1>2, <1>3 DEF s

\* write_to and read_to: a length is read as it was written (lib/asf.cpp:16).
LEMMA LengthRead ==
  ASSUME NEW buff \in Seq(Byte), NEW n \in Nat, NEW width \in Nat, Sized(n, width),
         NEW little \in BOOLEAN, NEW off \in Nat,
         Holds(buff, off, write_to(n, width, little))
  PROVE  Number(read_to(buff, off, width, FALSE, little)) = n
<1> DEFINE s == write_to(n, width, little)
<1>1. s \in Seq(Byte) /\ Len(s) = width /\ InOrder(s, little) = Digits(n, width)  BY Written
<1>2. Holds(buff, off, s)  OBVIOUS
<1> HIDE DEF s
<1>3. Bytes(buff, off, width) = s  BY <1>1, <1>2, BytesAre
<1>4. read_to(buff, off, width, FALSE, little) = Digits(n, width)
  BY <1>1, <1>3 DEF read_to
<1>5. Number(Digits(n, width)) = n  BY TwoDigits, FourDigits DEF Sized
<1>6. QED  BY <1>4, <1>5

\* The order of the one who reads is that of the one who wrote.
Same == FALSE

\* A number is read as it was written.
LEMMA NumberRead ==
  ASSUME NEW buff \in Seq(Byte), NEW s \in Seq(Byte), NEW little \in BOOLEAN,
         NEW off \in Nat, Holds(buff, off, InOrder(s, little))
  PROVE  read_to(buff, off, Len(s), Same, little) = s
<1> DEFINE t == InOrder(s, little)
<1>1. t \in Seq(Byte) /\ Len(t) = Len(s) /\ InOrder(t, little) = s  BY OrderTwice
<1>2. Holds(buff, off, t)  OBVIOUS
<1> HIDE DEF t
<1>3. Bytes(buff, off, Len(s)) = t  BY <1>1, <1>2, BytesAre
<1>4. QED  BY <1>1, <1>3 DEF read_to, Same

\* The types that have a name.
Names == {TypeNames[i] : i \in DOMAIN TypeNames}

\* A type's name is at its index.
LEMMA IndexIs ==
  ASSUME NEW t \in Names
  PROVE  index(t) \in 0..11 /\ index(t) \in Byte /\ TypeNames[index(t) + 1] = t
<1> DEFINE i == CHOOSE j \in DOMAIN TypeNames : TypeNames[j] = t
<1>1. i \in DOMAIN TypeNames /\ TypeNames[i] = t
  <2>1. \E j \in DOMAIN TypeNames : TypeNames[j] = t  BY DEF Names
  <2>2. QED  BY <2>1, Zenon
<1>2. DOMAIN TypeNames = 1..12  BY DEF TypeNames
<1>3. index(t) = i - 1  BY DEF index
<1> HIDE DEF i
<1>4. i \in 1..12 /\ index(t) + 1 = i /\ index(t) \in 0..11  BY <1>1, <1>2, <1>3
<1>5. QED  BY <1>1, <1>4 DEF Byte

-----------------------------------------------------------------------------
(* The recursive functions: what each makes of its last value.             *)

\* The values one level up from S.
ValueStep(S) ==
  Numbers \cup [type : {"StringT"}, of : UpTo(MaxLength, Byte)]
    \cup ([type : {"ArrayT"}, of : UpTo(MaxLength, S)] \cup [type : {"MapT"}, of : Maps(S)])

\* The bytes of a value in which there is no other.
Leaf(v, little) ==
  <<index(v.type)>> \o
  CASE v.type = "StringT" -> write_to(Len(v.of), 4, little) \o v.of
    [] OTHER -> write_to(Width[v.type], NumberLength(v.type), little)
                  \o InOrder(v.of, little)

\* What the reading of one more item makes of what was read before.
ItemStep(read, before) ==
  LET item == read[before.size]
  IN  IF before.status # "ok" THEN before
      ELSE IF item.status # "ok" THEN item
      ELSE Result("ok", Append(before.value, item.value), before.size + 5 + item.size)

\* What the reading of one more pair makes of it.
PairStep(buff, read, reverse, little, before) ==
  LET key   == ReadKey(buff, before.size, reverse, little)
      start == before.size + 2 + Len(key)
      item  == read[start]
  IN  IF before.status # "ok" THEN before
      ELSE IF before.size + 2 > Len(buff) THEN Failed("beyond")
      ELSE IF item.status # "ok" THEN item
      ELSE Result("ok", Emplace(before.value, key, item.value), start + 5 + item.size)

\* What the reading of one more pair with a schema makes of it.
FieldStep(buff, read, reverse, little, before) ==
  LET sch    == before.schema
      key    == ReadKey(buff, before.size, reverse, little)
      start  == before.size + 2 + Len(key)
      marked == Marked(sch, key)
      field  == sch.fields[key]
      item   == read[start]
  IN  IF before.status # "ok" THEN before
      ELSE IF before.size + 2 > Len(buff) THEN With(Failed("beyond"), sch)
      ELSE IF key \notin DOMAIN sch.fields
      THEN With(Failed(IF sch.allow_undefined THEN "dead" ELSE "none"), sch)
      ELSE IF start >= Len(buff) THEN With(Failed("beyond"), marked)
      ELSE IF field.type # "AnyT" /\ index(field.type) # buff[start + 1]
      THEN With(Failed("none"), marked)
      ELSE IF item.status # "ok" THEN With(item, marked)
      ELSE IF item.value \in field.rejects THEN With(Failed("none"), marked)
      ELSE With(Result("ok", Emplace(before.value, key, item.value),
                       start + 5 + item.size), marked)

\* The first value of the function of a kind, and the next; x are its parameters.
First(kind, x) ==
  CASE kind = "value" -> Numbers \cup [type : {"StringT"}, of : UpTo(MaxLength, Byte)]
    [] kind = "serialized" -> [v \in Value[0] |-> Leaf(v, x.little)]
    [] kind = "read" -> [off \in Nat |-> Failed("beyond")]
    [] OTHER -> x.first

\* The value at i, before being the one at i - 1.
Step(kind, x, i, before) ==
  CASE kind = "value" -> ValueStep(before)
    [] kind = "serialized" -> [v \in Value[i] |-> WriteValue(v, before, x.little)]
    [] kind = "read" ->
         [off \in Nat |-> ReadAt(x.buff, off, before, x.reverse, x.little)]
    [] kind = "items" -> ItemStep(x.read, before)
    [] kind = "pairs" -> PairStep(x.buff, x.read, x.reverse, x.little, before)
    [] OTHER -> FieldStep(x.buff, x.read, x.reverse, x.little, before)

\* f is the function of a kind up to n.
Grown(f, kind, x, n) ==
  f = [i \in 0..n |-> IF i = 0 THEN First(kind, x) ELSE Step(kind, x, i, f[i - 1])]

\* There is such a function.
LEMMA Grows ==
  ASSUME NEW kind, NEW x, NEW n \in Nat
  PROVE  \E f : Grown(f, kind, x, n)
<1> DEFINE c == First(kind, x)
           Good(f, m) == f = [i \in 0..m |-> IF i = 0 THEN c ELSE Step(kind, x, i, f[i - 1])]
           S == {m \in Nat : \E f : Good(f, m)}
<1> HIDE DEF c
<1>1. 0 \in S
  <2> DEFINE f == [i \in 0..0 |-> c]
  <2>1. Good(f, 0)
    <3>1. \A i \in 0..0 : i = 0  OBVIOUS
    <3>2. QED  BY <3>1
  <2>2. QED  BY <2>1
<1>2. ASSUME NEW m \in Nat, m \in S  PROVE m + 1 \in S
  <2>1. PICK f : Good(f, m)  BY <1>2
  <2> DEFINE z == Step(kind, x, m + 1, f[m])
             g == [i \in 0..m + 1 |-> IF i = m + 1 THEN z ELSE f[i]]
  <2>2. \A i \in 0..m : f[i] = IF i = 0 THEN c ELSE Step(kind, x, i, f[i - 1])
    BY <2>1, Zenon
  <2> HIDE DEF Good, z
  <2>3. ASSUME NEW i \in 0..m + 1
        PROVE  g[i] = IF i = 0 THEN c ELSE Step(kind, x, i, g[i - 1])
    <3>1. CASE i = m + 1
      <4>1. g[i] = z /\ i # 0 /\ i - 1 = m /\ m \in 0..m + 1 /\ m # m + 1  BY <3>1
      <4>2. g[m] = f[m]  BY <4>1
      <4> HIDE DEF g
      <4>3. QED  BY <3>1, <4>1, <4>2 DEF z
    <3>2. CASE i # m + 1
      <4>1. g[i] = f[i] /\ i \in 0..m  BY <3>2
      <4>2. i # 0 => i - 1 \in 0..m + 1 /\ i - 1 # m + 1  BY <4>1
      <4>3. i # 0 => g[i - 1] = f[i - 1]  BY <4>2
      <4> HIDE DEF g
      <4>4. QED  BY <2>2, <4>1, <4>3
    <3>3. QED  BY <3>1, <3>2
  <2>4. g = [i \in 0..m + 1 |-> g[i]]  OBVIOUS
  <2> HIDE DEF g
  <2>5. Good(g, m + 1)  BY <2>3, <2>4 DEF Good
  <2>6. QED  BY <2>5
<1>3. Nat \subseteq S
  <2> HIDE DEF S
  <2>1. QED  BY <1>1, <1>2, SetInduction
<1>4. PICK f : Good(f, n)  BY <1>3
<1>5. QED  BY <1>4 DEF Grown, c

\* And what its values are.
LEMMA GrownAt ==
  ASSUME NEW kind, NEW x, NEW n \in Nat, NEW f, Grown(f, kind, x, n)
  PROVE  (\A i \in 1..n : f[i] = Step(kind, x, i, f[i - 1])) /\ f[0] = First(kind, x)
<1> DEFINE c == First(kind, x)
           F == [i \in 0..n |-> IF i = 0 THEN c ELSE Step(kind, x, i, f[i - 1])]
<1>1. f = F  BY DEF Grown
<1> HIDE DEF c
<1>2. \A i \in 0..n : F[i] = IF i = 0 THEN c ELSE Step(kind, x, i, f[i - 1])  OBVIOUS
<1> HIDE DEF F
<1>3. \A i \in 1..n : i \in 0..n /\ i # 0  OBVIOUS
<1>4. 0 \in 0..n  OBVIOUS
<1>5. QED  BY <1>1, <1>2, <1>3, <1>4 DEF c

\* Value is what its definition says.
LEMMA ValueUnfold ==
  ASSUME NEW d \in 0..Depth
  PROVE  Value[d] = IF d = 0 THEN First("value", 0) ELSE ValueStep(Value[d - 1])
<1> DEFINE c == Numbers \cup [type : {"StringT"}, of : UpTo(MaxLength, Byte)]
           More(X) == [type : {"ArrayT"}, of : UpTo(MaxLength, X)]
                        \cup [type : {"MapT"}, of : Maps(X)]
           Body(f) == [e \in 0..Depth |-> c \cup IF e = 0 THEN {} ELSE More(f[e - 1])]
<1>0. Depth \in Nat  BY DepthAssumption
<1>1. PICK f : Grown(f, "value", 0, Depth)  BY <1>0, Grows
<1>2. /\ \A e \in 1..Depth : f[e] = Step("value", 0, e, f[e - 1])
      /\ f[0] = First("value", 0)
  BY <1>0, <1>1, GrownAt
<1>3. First("value", 0) = c  BY DEF First
<1>4. \A e, X : Step("value", 0, e, X) = c \cup More(X)  BY DEF Step, ValueStep
<1>5. \A X : ValueStep(X) = c \cup More(X)  BY DEF ValueStep
<1>6. Value = CHOOSE g : g = Body(g)  BY Zenon DEF Value
<1>7. f = [e \in 0..Depth |-> f[e]]
  <2> DEFINE F == [e \in 0..Depth |-> IF e = 0 THEN First("value", 0)
                                      ELSE Step("value", 0, e, f[e - 1])]
  <2>1. f = F  BY <1>1 DEF Grown
  <2>2. F = [e \in 0..Depth |-> F[e]]  OBVIOUS
  <2> HIDE DEF F
  <2>3. QED  BY <2>1, <2>2
<1> HIDE DEF c, More
<1>8. f = Body(f)
  <2>1. ASSUME NEW e \in 0..Depth
        PROVE  f[e] = c \cup IF e = 0 THEN {} ELSE More(f[e - 1])
    <3>1. CASE e = 0  BY <1>2, <1>3, <3>1
    <3>2. CASE e # 0
      <4>1. e \in 1..Depth  BY <1>0, <3>2
      <4>2. QED  BY <1>2, <1>4, <3>2, <4>1
    <3>3. QED  BY <3>1, <3>2
  <2>2. QED  BY <1>7, <2>1
<1>9. Value = Body(Value)
  <2> HIDE DEF Body
  <2>1. QED  BY <1>6, <1>8, Zenon
<1>10. Body(Value)[d] = c \cup IF d = 0 THEN {} ELSE More(Value[d - 1])  OBVIOUS
<1>11. Value[d] = c \cup IF d = 0 THEN {} ELSE More(Value[d - 1])
  <2> HIDE DEF Body
  <2>1. QED  BY <1>9, <1>10
<1>12. QED  BY <1>3, <1>5, <1>11

\* What the values are that are nested at most d deep.
LEMMA ValueIs ==
  ASSUME NEW d \in 0..Depth, NEW v \in Value[d]
  PROVE  \/ v \in Numbers
         \/ v \in [type : {"StringT"}, of : UpTo(MaxLength, Byte)]
         \/ d # 0 /\ v \in [type : {"ArrayT"}, of : UpTo(MaxLength, Value[d - 1])]
         \/ d # 0 /\ v \in [type : {"MapT"}, of : Maps(Value[d - 1])]
<1> DEFINE A == [type : {"StringT"}, of : UpTo(MaxLength, Byte)]
           B == [type : {"ArrayT"}, of : UpTo(MaxLength, Value[d - 1])]
           C == [type : {"MapT"}, of : Maps(Value[d - 1])]
<1>1. Value[d] = IF d = 0 THEN First("value", 0) ELSE ValueStep(Value[d - 1])
  BY ValueUnfold
<1>2. First("value", 0) = Numbers \cup A  BY DEF First
<1>3. ValueStep(Value[d - 1]) = Numbers \cup A \cup (B \cup C)  BY DEF ValueStep
<1> HIDE DEF A, B, C
<1>4. v \in Numbers \/ v \in A \/ (d # 0 /\ v \in B) \/ (d # 0 /\ v \in C)
  BY <1>1, <1>2, <1>3
<1>5. QED  BY <1>4 DEF A, B, C

\* The types of numbers.
NumberNames == {"I8", "U8", "I16", "U16", "I32", "U32", "I64", "U64", "Double"}

\* The types of numbers, and how long they are.
LEMMA WidthIs ==
  /\ DOMAIN Width = NumberNames
  /\ \A t \in NumberNames : Width[t] \in 1..8
BY DEF Width, NumberNames

\* A number has a type, and as many bytes as the type is wide.
LEMMA NumberIs ==
  ASSUME NEW v \in Numbers
  PROVE  /\ v.type \in NumberNames /\ v.of \in Seq(Byte) /\ Len(v.of) = Width[v.type]
         /\ Len(v.of) \in 1..8 /\ (v.type = "Double" => Doubles)
         /\ v = [type |-> v.type, of |-> v.of]
<1>1. /\ v \in [type : DOMAIN Width, of : UpTo(8, Byte)]
      /\ Len(v.of) = Width[v.type] /\ (v.type = "Double" => Doubles)
  BY DEF Numbers
<1>2. v.type \in DOMAIN Width /\ v.of \in UpTo(8, Byte)
      /\ v = [type |-> v.type, of |-> v.of]
  BY <1>1
<1>3. v.of \in Seq(Byte)  BY <1>2 DEF UpTo
<1>4. QED  BY <1>1, <1>2, <1>3, WidthIs

\* A value that is a number or a string has none of the other types.
LEMMA LeafWritten ==
  ASSUME NEW v, v.type \in NumberNames \cup {"StringT"}, NEW f, NEW little
  PROVE  WriteValue(v, f, little) = Leaf(v, little)
<1> DEFINE t == v.type
           A == write_to(Len(v.of), 4, little) \o v.of
           B == serialize_array(v.of, f, little)
           C == serialize_map(v.of, f, little)
           D == write_to(Width[v.type], NumberLength(v.type), little) \o InOrder(v.of, little)
<1>1. t # "ArrayT" /\ t # "MapT"  BY DEF NumberNames
<1>2. WriteValue(v, f, little) =
        <<index(t)>> \o CASE t = "StringT" -> A [] t = "ArrayT" -> B [] t = "MapT" -> C
                          [] OTHER -> D
  BY DEF WriteValue
<1>3. Leaf(v, little) = <<index(t)>> \o CASE t = "StringT" -> A [] OTHER -> D
  BY DEF Leaf
<1> HIDE DEF t, A, B, C, D
<1>4. CASE t = "StringT"
  <2>1. (CASE t = "StringT" -> A [] t = "ArrayT" -> B [] t = "MapT" -> C [] OTHER -> D) = A
    BY <1>1, <1>4
  <2>2. (CASE t = "StringT" -> A [] OTHER -> D) = A  BY <1>4
  <2>3. QED  BY <1>2, <1>3, <2>1, <2>2
<1>5. CASE t # "StringT"
  <2>1. (CASE t = "StringT" -> A [] t = "ArrayT" -> B [] t = "MapT" -> C [] OTHER -> D) = D
    BY <1>1, <1>5
  <2>2. (CASE t = "StringT" -> A [] OTHER -> D) = D  BY <1>5
  <2>3. QED  BY <1>2, <1>3, <2>1, <2>2
<1>6. QED  BY <1>4, <1>5

\* _serialize is its recursion: f[d] is for the values nested at most d deep.
SerializedAs(f, little) ==
  /\ _serialize(little) = f[Depth]
  /\ \A v \in Value[0] : f[0][v] = Leaf(v, little)
  /\ \A d \in 1..Depth : \A v \in Value[d] : f[d][v] = WriteValue(v, f[d - 1], little)

\* There is such a recursion.
LEMMA SerializeUnfold ==
  ASSUME NEW little
  PROVE  \E f : SerializedAs(f, little)
<1> DEFINE x == [little |-> little]
           Body(f) == [d \in 0..Depth |->
                        [v \in Value[d] |-> WriteValue(v, f[d - 1], little)]]
           g == CHOOSE y : y = Body(y)
<1>0. Depth \in Nat  BY DepthAssumption
<1>1. PICK f : Grown(f, "serialized", x, Depth)  BY <1>0, Grows
<1>2. /\ \A d \in 1..Depth : f[d] = Step("serialized", x, d, f[d - 1])
      /\ f[0] = First("serialized", x)
  BY <1>0, <1>1, GrownAt
<1>3. First("serialized", x) = [v \in Value[0] |-> Leaf(v, little)]  BY DEF First
<1>4. \A d, X : Step("serialized", x, d, X) = [v \in Value[d] |-> WriteValue(v, X, little)]
  BY DEF Step
<1>5. f = [d \in 0..Depth |-> f[d]]
  <2> DEFINE F == [d \in 0..Depth |-> IF d = 0 THEN First("serialized", x)
                                      ELSE Step("serialized", x, d, f[d - 1])]
  <2>1. f = F  BY <1>1 DEF Grown
  <2>2. F = [d \in 0..Depth |-> F[d]]  OBVIOUS
  <2> HIDE DEF F
  <2>3. QED  BY <2>1, <2>2
<1>6. \A v \in Value[0] : \A X : WriteValue(v, X, little) = Leaf(v, little)
  <2> TAKE v \in Value[0]
  <2> TAKE X
  <2>1. v \in Numbers \/ v \in [type : {"StringT"}, of : UpTo(MaxLength, Byte)]
    BY <1>0, ValueIs
  <2>2. v.type \in NumberNames \cup {"StringT"}
    <3>1. v \in Numbers => v.type \in NumberNames  BY NumberIs
    <3>2. QED  BY <2>1, <3>1
  <2>3. QED  BY <2>2, LeafWritten
<1>7. f = Body(f)
  <2>1. ASSUME NEW d \in 0..Depth
        PROVE  f[d] = [v \in Value[d] |-> WriteValue(v, f[d - 1], little)]
    <3>1. CASE d = 0
      <4>1. f[0] = [v \in Value[0] |-> Leaf(v, little)]  BY <1>2, <1>3
      <4>2. QED  BY <1>6, <3>1, <4>1
    <3>2. CASE d # 0
      <4>1. d \in 1..Depth  BY <1>0, <3>2
      <4>2. QED  BY <1>2, <1>4, <4>1
    <3>3. QED  BY <3>1, <3>2
  <2>2. QED  BY <1>5, <2>1
<1>8. g = Body(g)
  <2> HIDE DEF Body
  <2>1. QED  BY <1>7, Zenon
<1>9. _serialize(little) = g[Depth]  BY Zenon DEF _serialize
<1> HIDE DEF g
<1>10. \A d \in 0..Depth : \A v \in Value[d] :
         g[d][v] = WriteValue(v, g[d - 1], little)
  <2> TAKE d \in 0..Depth
  <2> TAKE v \in Value[d]
  <2>1. Body(g)[d] = [w \in Value[d] |-> WriteValue(w, g[d - 1], little)]  OBVIOUS
  <2> HIDE DEF Body
  <2>2. g[d] = [w \in Value[d] |-> WriteValue(w, g[d - 1], little)]  BY <1>8, <2>1
  <2>3. QED  BY <2>2
<1>11. \A v \in Value[0] : g[0][v] = Leaf(v, little)
  <2>1. 0 \in 0..Depth  BY <1>0
  <2>2. QED  BY <1>6, <1>10, <2>1
<1>12. \A d \in 1..Depth : d \in 0..Depth  BY <1>0
<1>13. SerializedAs(g, little)  BY <1>9, <1>10, <1>11, <1>12 DEF SerializedAs
<1>14. QED  BY <1>13

\* _deserialize is its recursion: f[k] has at most k values in each other.
ReadAs(buff, f, reverse, little) ==
  /\ _deserialize(buff, reverse, little) = f[Len(buff)]
  /\ \A k \in 1..Len(buff), off \in Nat :
       f[k][off] = ReadAt(buff, off, f[k - 1], reverse, little)

\* There is such a recursion.
LEMMA ReadUnfold ==
  ASSUME NEW buff, Len(buff) \in Nat, NEW reverse, NEW little
  PROVE  \E f : ReadAs(buff, f, reverse, little)
<1> DEFINE x == [buff |-> buff, reverse |-> reverse, little |-> little]
           n == Len(buff)
           Body(f) == [k \in 0..Len(buff) |->
                        [off \in Nat |->
                          IF k = 0 THEN Failed("beyond")
                          ELSE ReadAt(buff, off, f[k - 1], reverse, little)]]
           g == CHOOSE y : y = Body(y)
<1>1. PICK f : Grown(f, "read", x, n)  BY Grows
<1>2. (\A k \in 1..n : f[k] = Step("read", x, k, f[k - 1])) /\ f[0] = First("read", x)
  BY <1>1, GrownAt
<1>3. First("read", x) = [off \in Nat |-> Failed("beyond")]  BY DEF First
<1>4. \A k, X : Step("read", x, k, X)
                  = [off \in Nat |-> ReadAt(buff, off, X, reverse, little)]
  BY DEF Step
<1>5. f = [k \in 0..n |-> f[k]]
  <2> DEFINE F == [k \in 0..n |-> IF k = 0 THEN First("read", x)
                                  ELSE Step("read", x, k, f[k - 1])]
  <2>1. f = F  BY <1>1 DEF Grown
  <2>2. F = [k \in 0..n |-> F[k]]  OBVIOUS
  <2> HIDE DEF F
  <2>3. QED  BY <2>1, <2>2
<1>6. f = Body(f)
  <2>1. ASSUME NEW k \in 0..n
        PROVE  f[k] = [off \in Nat |-> IF k = 0 THEN Failed("beyond")
                                       ELSE ReadAt(buff, off, f[k - 1], reverse, little)]
    <3>1. CASE k = 0
      <4>1. f[0] = [off \in Nat |-> Failed("beyond")]  BY <1>2, <1>3
      <4>2. QED  BY <3>1, <4>1
    <3>2. CASE k # 0
      <4>1. k \in 1..n  BY <3>2
      <4>2. f[k] = [off \in Nat |-> ReadAt(buff, off, f[k - 1], reverse, little)]
        BY <1>2, <1>4, <4>1
      <4>3. QED  BY <3>2, <4>2
    <3>3. QED  BY <3>1, <3>2
  <2>2. QED  BY <1>5, <2>1
<1>7. g = Body(g)
  <2> HIDE DEF Body
  <2>1. QED  BY <1>6, Zenon
<1>8. _deserialize(buff, reverse, little) = g[Len(buff)]  BY Zenon DEF _deserialize
<1> HIDE DEF g
<1>9. \A k \in 1..n, off \in Nat : g[k][off] = ReadAt(buff, off, g[k - 1], reverse, little)
  <2> TAKE k \in 1..n, off \in Nat
  <2>1. k \in 0..Len(buff) /\ k # 0  OBVIOUS
  <2>2. Body(g)[k] = [o \in Nat |-> IF k = 0 THEN Failed("beyond")
                                    ELSE ReadAt(buff, o, g[k - 1], reverse, little)]
    BY <2>1
  <2> HIDE DEF Body
  <2>3. g[k] = [o \in Nat |-> IF k = 0 THEN Failed("beyond")
                              ELSE ReadAt(buff, o, g[k - 1], reverse, little)]
    BY <1>7, <2>2
  <2>4. QED  BY <2>1, <2>3
<1>10. ReadAs(buff, g, reverse, little)  BY <1>8, <1>9 DEF ReadAs
<1>11. QED  BY <1>10

\* deserialize_array is its loop (lib/asf.cpp:176).
ArrayAs(buff, off, count, f, read) ==
  /\ deserialize_array(buff, off, count, read) = f[Tries(buff, count)]
  /\ f[0] = Result("ok", <<>>, off)
  /\ \A i \in 1..Tries(buff, count) : f[i] = ItemStep(read, f[i - 1])

\* There is such a loop.
LEMMA ArrayUnfold ==
  ASSUME NEW buff, Len(buff) \in Nat, NEW off, NEW count \in Nat, NEW read
  PROVE  \E f : ArrayAs(buff, off, count, f, read)
<1> DEFINE x == [first |-> Result("ok", <<>>, off), read |-> read]
           n == Tries(buff, count)
           Body(f) == [i \in 0..Tries(buff, count) |->
                        IF i = 0 THEN Result("ok", <<>>, off)
                        ELSE LET before == f[i - 1]
                                 item   == read[before.size]
                             IN  IF before.status # "ok" THEN before
                                 ELSE IF item.status # "ok" THEN item
                                 ELSE Result("ok", Append(before.value, item.value),
                                             before.size + 5 + item.size)]
           g == CHOOSE y : y = Body(y)
<1>1. n \in Nat  BY DEF Tries
<1>2. PICK f : Grown(f, "items", x, n)  BY <1>1, Grows
<1>3. \A i, X : Step("items", x, i, X) = ItemStep(read, X)
  BY DEF Step
<1>4. First("items", x) = Result("ok", <<>>, off)  BY DEF First
<1>5. f = Body(f)
  <2>1. f = [i \in 0..n |-> IF i = 0 THEN First("items", x)
                            ELSE Step("items", x, i, f[i - 1])]
    BY <1>2 DEF Grown
  <2> HIDE DEF x, n
  <2>2. f = [i \in 0..n |-> IF i = 0 THEN Result("ok", <<>>, off)
                            ELSE ItemStep(read, f[i - 1])]
    BY <1>3, <1>4, <2>1
  <2>3. QED  BY <2>2, Zenon DEF ItemStep, n
<1>6. g = Body(g)
  <2> HIDE DEF Body
  <2>1. QED  BY <1>5, Zenon
<1>7. deserialize_array(buff, off, count, read) = g[Tries(buff, count)]
  BY Zenon DEF deserialize_array
<1> HIDE DEF g
<1>8. Grown(g, "items", x, n)
  <2>1. g = [i \in 0..n |-> IF i = 0 THEN Result("ok", <<>>, off)
                            ELSE ItemStep(read, g[i - 1])]
    <3> HIDE DEF n
    <3>1. QED  BY <1>6, Zenon DEF ItemStep, n
  <2> HIDE DEF x, n
  <2>2. g = [i \in 0..n |-> IF i = 0 THEN First("items", x)
                            ELSE Step("items", x, i, g[i - 1])]
    BY <1>3, <1>4, <2>1
  <2>3. QED  BY <2>2 DEF Grown
<1>9. (\A i \in 1..n : g[i] = Step("items", x, i, g[i - 1])) /\ g[0] = First("items", x)
  BY <1>1, <1>8, GrownAt
<1> HIDE DEF x
<1>10. \A i \in 1..n : g[i] = ItemStep(read, g[i - 1])
  BY <1>3, <1>9
<1>11. ArrayAs(buff, off, count, g, read)
  BY <1>4, <1>7, <1>9, <1>10 DEF ArrayAs
<1>12. QED  BY <1>11

\* deserialize_map is its loop (lib/asf.cpp:203).
MapAs(buff, off, count, f, read, reverse, little) ==
  /\ deserialize_map(buff, off, count, read, reverse, little) = f[Tries(buff, count)]
  /\ f[0] = Result("ok", <<>>, off)
  /\ \A i \in 1..Tries(buff, count) : f[i] = PairStep(buff, read, reverse, little, f[i - 1])

\* There is such a loop.
LEMMA MapUnfold ==
  ASSUME NEW buff, Len(buff) \in Nat, NEW off, NEW count \in Nat, NEW read, NEW reverse, NEW little
  PROVE  \E f : MapAs(buff, off, count, f, read, reverse, little)
<1> DEFINE x == [first |-> Result("ok", <<>>, off), buff |-> buff, read |-> read,
                 reverse |-> reverse, little |-> little]
           n == Tries(buff, count)
           Body(f) == [i \in 0..Tries(buff, count) |->
                        IF i = 0 THEN Result("ok", <<>>, off)
                        ELSE LET before == f[i - 1]
                                 key    == ReadKey(buff, before.size, reverse, little)
                                 start  == before.size + 2 + Len(key)
                                 item   == read[start]
                             IN  IF before.status # "ok" THEN before
                                 ELSE IF before.size + 2 > Len(buff) THEN Failed("beyond")
                                 ELSE IF item.status # "ok" THEN item
                                 ELSE Result("ok", Emplace(before.value, key, item.value),
                                             start + 5 + item.size)]
           g == CHOOSE y : y = Body(y)
<1>1. n \in Nat  BY DEF Tries
<1>2. PICK f : Grown(f, "pairs", x, n)  BY <1>1, Grows
<1>3. \A i, X : Step("pairs", x, i, X) = PairStep(buff, read, reverse, little, X)
  BY DEF Step
<1>4. First("pairs", x) = Result("ok", <<>>, off)  BY DEF First
<1>5. f = Body(f)
  <2>1. f = [i \in 0..n |-> IF i = 0 THEN First("pairs", x)
                            ELSE Step("pairs", x, i, f[i - 1])]
    BY <1>2 DEF Grown
  <2> HIDE DEF x, n
  <2>2. f = [i \in 0..n |-> IF i = 0 THEN Result("ok", <<>>, off)
                            ELSE PairStep(buff, read, reverse, little, f[i - 1])]
    BY <1>3, <1>4, <2>1
  <2>3. QED  BY <2>2, Zenon DEF PairStep, n
<1>6. g = Body(g)
  <2> HIDE DEF Body
  <2>1. QED  BY <1>5, Zenon
<1>7. deserialize_map(buff, off, count, read, reverse, little) = g[Tries(buff, count)]
  BY Zenon DEF deserialize_map
<1> HIDE DEF g
<1>8. Grown(g, "pairs", x, n)
  <2>1. g = [i \in 0..n |-> IF i = 0 THEN Result("ok", <<>>, off)
                            ELSE PairStep(buff, read, reverse, little, g[i - 1])]
    <3> HIDE DEF n
    <3>1. QED  BY <1>6, Zenon DEF PairStep, n
  <2> HIDE DEF x, n
  <2>2. g = [i \in 0..n |-> IF i = 0 THEN First("pairs", x)
                            ELSE Step("pairs", x, i, g[i - 1])]
    BY <1>3, <1>4, <2>1
  <2>3. QED  BY <2>2 DEF Grown
<1>9. (\A i \in 1..n : g[i] = Step("pairs", x, i, g[i - 1])) /\ g[0] = First("pairs", x)
  BY <1>1, <1>8, GrownAt
<1> HIDE DEF x
<1>10. \A i \in 1..n : g[i] = PairStep(buff, read, reverse, little, g[i - 1])
  BY <1>3, <1>9
<1>11. MapAs(buff, off, count, g, read, reverse, little)
  BY <1>4, <1>7, <1>9, <1>10 DEF MapAs
<1>12. QED  BY <1>11

\* What is made of it if a key is missing (deserialize_map with a schema,
\* lib/asf.cpp:377).
Ended(last) ==
  IF last.status = "ok" /\ Missing(last.schema.fields)
  THEN With(Failed("none"), last.schema) ELSE last

\* The loop of deserialize_fields; what is missing is looked for behind it.
FieldsAs(buff, off, count, f, read, first, reverse, little) ==
  /\ deserialize_fields(buff, off, count, read, first, reverse, little) = Ended(f[Tries(buff, count)])
  /\ f[0] = With(Result("ok", <<>>, off), first)
  /\ \A i \in 1..Tries(buff, count) : f[i] = FieldStep(buff, read, reverse, little, f[i - 1])

\* There is such a loop.
LEMMA FieldsUnfold ==
  ASSUME NEW buff, Len(buff) \in Nat, NEW off, NEW count \in Nat, NEW read, NEW first, NEW reverse, NEW little
  PROVE  \E f : FieldsAs(buff, off, count, f, read, first, reverse, little)
<1> DEFINE x == [first |-> With(Result("ok", <<>>, off), first), buff |-> buff, read |-> read,
                 reverse |-> reverse, little |-> little]
           n == Tries(buff, count)
           Body(f) == [i \in 0..Tries(buff, count) |->
                        IF i = 0 THEN With(Result("ok", <<>>, off), first)
                        ELSE LET before == f[i - 1]
                                 sch    == before.schema
                                 key    == ReadKey(buff, before.size, reverse, little)
                                 start  == before.size + 2 + Len(key)
                                 marked == Marked(sch, key)
                                 field  == sch.fields[key]
                                 item   == read[start]
                             IN  IF before.status # "ok" THEN before
                                 ELSE IF before.size + 2 > Len(buff)
                                 THEN With(Failed("beyond"), sch)
                                 ELSE IF key \notin DOMAIN sch.fields
                                 THEN With(Failed(IF sch.allow_undefined THEN "dead"
                                                  ELSE "none"), sch)
                                 ELSE IF start >= Len(buff) THEN With(Failed("beyond"), marked)
                                 ELSE IF field.type # "AnyT"
                                         /\ index(field.type) # buff[start + 1]
                                 THEN With(Failed("none"), marked)
                                 ELSE IF item.status # "ok" THEN With(item, marked)
                                 ELSE IF item.value \in field.rejects
                                 THEN With(Failed("none"), marked)
                                 ELSE With(Result("ok", Emplace(before.value, key, item.value),
                                                  start + 5 + item.size), marked)]
           g == CHOOSE y : y = Body(y)
<1>1. n \in Nat  BY DEF Tries
<1>2. PICK f : Grown(f, "fields", x, n)  BY <1>1, Grows
<1>3. \A i, X : Step("fields", x, i, X) = FieldStep(buff, read, reverse, little, X)
  BY DEF Step
<1>4. First("fields", x) = With(Result("ok", <<>>, off), first)  BY DEF First
<1>5. f = Body(f)
  <2>1. f = [i \in 0..n |-> IF i = 0 THEN First("fields", x)
                            ELSE Step("fields", x, i, f[i - 1])]
    BY <1>2 DEF Grown
  <2> HIDE DEF x, n
  <2>2. f = [i \in 0..n |-> IF i = 0 THEN With(Result("ok", <<>>, off), first)
                            ELSE FieldStep(buff, read, reverse, little, f[i - 1])]
    BY <1>3, <1>4, <2>1
  <2>3. QED  BY <2>2, Zenon DEF FieldStep, n
<1>6. g = Body(g)
  <2> HIDE DEF Body
  <2>1. QED  BY <1>5, Zenon
<1>7. deserialize_fields(buff, off, count, read, first, reverse, little) = Ended(g[Tries(buff, count)])
  BY Zenon DEF deserialize_fields, Ended
<1> HIDE DEF g
<1>8. Grown(g, "fields", x, n)
  <2>1. g = [i \in 0..n |-> IF i = 0 THEN With(Result("ok", <<>>, off), first)
                            ELSE FieldStep(buff, read, reverse, little, g[i - 1])]
    <3> HIDE DEF n
    <3>1. QED  BY <1>6, Zenon DEF FieldStep, n
  <2> HIDE DEF x, n
  <2>2. g = [i \in 0..n |-> IF i = 0 THEN First("fields", x)
                            ELSE Step("fields", x, i, g[i - 1])]
    BY <1>3, <1>4, <2>1
  <2>3. QED  BY <2>2 DEF Grown
<1>9. (\A i \in 1..n : g[i] = Step("fields", x, i, g[i - 1])) /\ g[0] = First("fields", x)
  BY <1>1, <1>8, GrownAt
<1> HIDE DEF x
<1>10. \A i \in 1..n : g[i] = FieldStep(buff, read, reverse, little, g[i - 1])
  BY <1>3, <1>9
<1>11. FieldsAs(buff, off, count, g, read, first, reverse, little)
  BY <1>4, <1>7, <1>9, <1>10 DEF FieldsAs
<1>12. QED  BY <1>11

-----------------------------------------------------------------------------
(* There and back.                                                         *)

\* What every serialized value has in front.
Headed(t, n, rest, little) == <<index(t)>> \o (write_to(n, 4, little) \o rest)

\* The head at an offset, as a reader takes it.
HeadRead(buff, off, t, n, little) ==
  /\ off + 5 <= Len(buff) /\ buff[off + 1] = index(t)
  /\ Number(read_to(buff, off + 1, 4, FALSE, little)) = n

\* GoesOn a head of five bytes comes the rest.
LEMMA HeadedType ==
  ASSUME NEW t \in Names, NEW n \in Nat, NEW rest \in Seq(Byte), NEW little \in BOOLEAN
  PROVE  /\ Headed(t, n, rest, little) \in Seq(Byte)
         /\ Len(Headed(t, n, rest, little)) = 5 + Len(rest)
         /\ Headed(t, n, rest, little)[1] = index(t)
<1> DEFINE i == <<index(t)>>
           w == write_to(n, 4, little)
           r == w \o rest
<1>1. i \in Seq(Byte) /\ Len(i) = 1 /\ i[1] = index(t)
  <2>1. index(t) \in Byte  BY IndexIs
  <2>2. QED  BY <2>1, OneSeq
<1>2. w \in Seq(Byte) /\ Len(w) = 4
  <2>1. 4 \in Nat  OBVIOUS
  <2>2. QED  BY <2>1, Written
<1> HIDE DEF i, w
<1>3. r \in Seq(Byte) /\ Len(r) = 4 + Len(rest)
  <2>1. r \in Seq(Byte) /\ Len(r) = Len(w) + Len(rest)  BY <1>2, Joined
  <2>2. QED  BY <1>2, <2>1
<1> HIDE DEF r
<1> DEFINE ir == i \o r
<1>4. /\ ir \in Seq(Byte) /\ Len(ir) = Len(i) + Len(r)
      /\ ir[1] = i[1]
  <2>1. /\ ir \in Seq(Byte) /\ Len(ir) = Len(i) + Len(r)
        /\ \A k \in 1..Len(i) : ir[k] = i[k]
    <3> DEFINE S == Byte
    <3>1. i \in Seq(S) /\ r \in Seq(S)  BY <1>1, <1>3
    <3> HIDE DEF S
    <3>2. QED  BY <3>1, Joined DEF S
  <2>2. 1 \in 1..Len(i)  BY <1>1
  <2> HIDE DEF ir
  <2>3. QED  BY <2>1, <2>2
<1>5. Len(rest) \in Nat  OBVIOUS
<1> HIDE DEF ir
<1>6. ir[1] = index(t) /\ Len(ir) = 5 + Len(rest)  BY <1>1, <1>3, <1>4, <1>5
<1>7. QED  BY <1>4, <1>6 DEF Headed, i, r, w, ir

\* A head is read as it was written.
LEMMA HeadIs ==
  ASSUME NEW buff \in Seq(Byte), NEW off \in Nat, NEW t \in Names, NEW n \in Nat,
         n <= MaxLength, NEW rest \in Seq(Byte), NEW little \in BOOLEAN,
         Holds(buff, off, Headed(t, n, rest, little))
  PROVE  HeadRead(buff, off, t, n, little) /\ Holds(buff, off + 5, rest)
<1> DEFINE i == <<index(t)>>
           w == write_to(n, 4, little)
           r == w \o rest
<1>1. i \in Seq(Byte) /\ Len(i) = 1 /\ i[1] = index(t)
  <2>1. index(t) \in Byte  BY IndexIs
  <2>2. QED  BY <2>1, OneSeq
<1>2. w \in Seq(Byte) /\ Len(w) = 4
  <2>1. 4 \in Nat  OBVIOUS
  <2>2. QED  BY <2>1, Written
<1>3. Holds(buff, off, i \o r)  BY DEF Headed
<1> HIDE DEF i, w
<1>4. r \in Seq(Byte)  BY <1>2, Joined
<1> HIDE DEF r
<1>5. Len(buff) \in Nat  OBVIOUS
<1>6. Holds(buff, off, i) /\ Holds(buff, off + Len(i), r)
  BY <1>1, <1>3, <1>4, <1>5, HoldsBoth
<1>7. Holds(buff, off + 1, w) /\ Holds(buff, off + 5, rest)
  <2>1. Holds(buff, off + 1, w \o rest)  BY <1>1, <1>6 DEF r
  <2>2. off + 1 \in Nat  OBVIOUS
  <2>3. Holds(buff, off + 1, w) /\ Holds(buff, off + 1 + Len(w), rest)
    BY <1>2, <1>5, <2>1, <2>2, HoldsBoth
  <2>4. off + 1 + Len(w) = off + 5  BY <1>2
  <2>5. QED  BY <2>3, <2>4
<1>8. buff[off + 1] = index(t)
  <2>1. 1 \in 1..Len(i)  BY <1>1
  <2>2. QED  BY <1>1, <1>6, <2>1 DEF Holds
<1>9. off + 5 <= Len(buff)
  <2>1. off + 1 + Len(w) <= Len(buff)  BY <1>7 DEF Holds
  <2>2. QED  BY <1>2, <1>5, <2>1
<1>10. Number(read_to(buff, off + 1, 4, FALSE, little)) = n
  <2>1. Sized(n, 4) /\ 4 \in Nat /\ off + 1 \in Nat  BY DEF Sized
  <2>2. Holds(buff, off + 1, write_to(n, 4, little))  BY <1>7 DEF w
  <2>3. QED  BY <2>1, <2>2, LengthRead
<1>11. QED  BY <1>7, <1>8, <1>9, <1>10 DEF HeadRead

\* What is read behind a head.
Inner(t, r, body) ==
  IF r.status = "ok" THEN Result("ok", [type |-> t, of |-> r.value], r.size - body) ELSE r

\* What is read behind the head of type t and length n.
Behind(buff, off, t, n, little, read) ==
  LET at == ReadAt(buff, off, read, Same, little)
  IN  /\ t = "StringT" =>
           at = Result("ok", [type |-> t, of |-> Bytes(buff, off + 5, n)], n)
      /\ t = "ArrayT" =>
           at = Inner(t, deserialize_array(buff, off + 5, n, read), off + 5)
      /\ t = "MapT" =>
           at = Inner(t, deserialize_map(buff, off + 5, n, read, Same, little), off + 5)
      /\ t \in NumberNames /\ ~(off + 5 + Width[t] > Len(buff)) =>
           at = Result("ok",
                       [type |-> t, of |-> read_to(buff, off + 5, Width[t], Same, little)],
                       Width[t])

\* What is read is what the head says.
LEMMA BehindHead ==
  ASSUME NEW buff \in Seq(Byte), NEW off \in Nat, NEW t \in Names, NEW n,
         NEW little, HeadRead(buff, off, t, n, little), NEW read
  PROVE  Behind(buff, off, t, n, little, read)
<1> DEFINE at == ReadAt(buff, off, read, Same, little)
           body == off + 5
           S == Result("ok", [type |-> t, of |-> Bytes(buff, body, n)], n)
           A == Inner(t, deserialize_array(buff, body, n, read), body)
           M == Inner(t, deserialize_map(buff, body, n, read, Same, little), body)
           N == IF body + Width[t] > Len(buff) THEN Failed("beyond")
                ELSE Result("ok",
                            [type |-> t, of |-> read_to(buff, body, Width[t], Same, little)],
                            Width[t])
<1>1. /\ ~(body > Len(buff)) /\ buff[off + 1] \in 0..11 /\ TypeNames[buff[off + 1] + 1] = t
      /\ Number(read_to(buff, off + 1, 4, FALSE, little)) = n
  <2>1. off + 5 <= Len(buff) /\ Len(buff) \in Nat  BY DEF HeadRead
  <2>2. ~(body > Len(buff))  BY <2>1
  <2>3. QED  BY <2>2, IndexIs DEF HeadRead
<1>2. at = CASE t = "StringT" -> S [] t = "ArrayT" -> A [] t = "MapT" -> M [] OTHER -> N
  BY <1>1, Zenon DEF ReadAt, Inner
<1> HIDE DEF at, S, A, M
<1>3. t = "StringT" => at = S  BY <1>2
<1>4. t = "ArrayT" => at = A  BY <1>2
<1>5. t = "MapT" => at = M  BY <1>2
<1>6. t \in NumberNames => at = N
  <2> SUFFICES ASSUME t \in NumberNames PROVE at = N  OBVIOUS
  <2>1. t # "StringT" /\ t # "ArrayT" /\ t # "MapT"  BY DEF NumberNames
  <2> HIDE DEF N
  <2>2. QED  BY <1>2, <2>1
<1>7. QED  BY <1>3, <1>4, <1>5, <1>6 DEF Behind, at, S, A, M

\* The bytes of each value in an array.
ItemBytes(items, serialized) == [i \in DOMAIN items |-> serialized[items[i]]]

\* The bytes of a pair: its key's length, its key, its value.
PairBytes(pair, serialized, little) ==
  write_to(Len(pair[1]), 2, little) \o pair[1] \o serialized[pair[2]]

\* The bytes of each pair.
PairsBytes(pairs, serialized, little) ==
  [i \in DOMAIN pairs |-> PairBytes(pairs[i], serialized, little)]

\* Every serialized value has a head.
LEMMA ValueHeaded ==
  ASSUME NEW v, NEW ser, NEW little, ~Doubles
  PROVE  /\ v \in Numbers =>
              WriteValue(v, ser, little)
                = Headed(v.type, Width[v.type], InOrder(v.of, little), little)
         /\ v.type = "StringT" =>
              WriteValue(v, ser, little) = Headed("StringT", Len(v.of), v.of, little)
         /\ v.type = "ArrayT" =>
              WriteValue(v, ser, little)
                = Headed("ArrayT", Len(v.of), FlattenSeq(ItemBytes(v.of, ser)), little)
         /\ v.type = "MapT" =>
              WriteValue(v, ser, little)
                = Headed("MapT", Len(v.of), FlattenSeq(PairsBytes(v.of, ser, little)), little)
<1> DEFINE t == v.type
           A == write_to(Len(v.of), 4, little) \o v.of
           B == serialize_array(v.of, ser, little)
           C == serialize_map(v.of, ser, little)
           D == write_to(Width[v.type], NumberLength(v.type), little) \o InOrder(v.of, little)
           all == CASE t = "StringT" -> A [] t = "ArrayT" -> B [] t = "MapT" -> C
                    [] OTHER -> D
<1>1. WriteValue(v, ser, little) = <<index(v.type)>> \o all  BY DEF WriteValue
<1>2. v \in Numbers => D = write_to(Width[v.type], 4, little) \o InOrder(v.of, little)
  <2> SUFFICES ASSUME v \in Numbers
               PROVE  D = write_to(Width[v.type], 4, little) \o InOrder(v.of, little)
    OBVIOUS
  <2>1. v.type # "Double"  BY NumberIs
  <2>2. NumberLength(v.type) = 4  BY <2>1 DEF NumberLength
  <2>3. QED  BY <2>2
<1>3. B = write_to(Len(v.of), 4, little) \o FlattenSeq(ItemBytes(v.of, ser))
  BY DEF serialize_array, ItemBytes
<1>4. C = write_to(Len(v.of), 4, little) \o FlattenSeq(PairsBytes(v.of, ser, little))
  BY DEF serialize_map, PairsBytes, PairBytes
<1>5. v \in Numbers => all = D
  <2> SUFFICES ASSUME v \in Numbers PROVE all = D  OBVIOUS
  <2>1. v.type \in NumberNames  BY NumberIs
  <2>2. t # "StringT" /\ t # "ArrayT" /\ t # "MapT"  BY <2>1 DEF NumberNames
  <2> HIDE DEF A, B, C, D, t
  <2>3. QED  BY <2>2
<1>6. /\ t = "StringT" => all = A
      /\ t = "ArrayT" => all = B
      /\ t = "MapT" => all = C
  <2> HIDE DEF A, B, C, D, t
  <2>1. QED  OBVIOUS
<1> HIDE DEF all, B, C, D
<1>7. QED  BY <1>1, <1>2, <1>3, <1>4, <1>5, <1>6 DEF Headed

\* Where there is b, v is read, if there are levels enough.
ComesBack(buff, rf, v, b) ==
  \A k \in 0..Len(buff), off \in Nat :
    Holds(buff, off, b) /\ k + off >= Len(buff) => rf[k][off] = Result("ok", v, Len(b) - 5)

\* b are the bytes of a value, with a head of its type, and v comes back from
\* them.
Faithful(buff, rf, v, b) ==
  b \in Seq(Byte) /\ Len(b) >= 5 /\ b[1] = index(v.type) /\ ComesBack(buff, rf, v, b)

\* One level down, five bytes on.
LEMMA LevelDown ==
  ASSUME NEW buff \in Seq(Byte), NEW rf, NEW little, ReadAs(buff, rf, Same, little),
         NEW k \in 0..Len(buff), NEW off \in Nat, k + off >= Len(buff),
         NEW t, NEW n, HeadRead(buff, off, t, n, little)
  PROVE  /\ rf[k][off] = ReadAt(buff, off, rf[k - 1], Same, little)
         /\ k - 1 \in 0..Len(buff) /\ k - 1 + (off + 5) >= Len(buff)
<1> DEFINE L == Len(buff)
<1>1. L \in Nat /\ off + 5 <= L  BY DEF HeadRead
<1> HIDE DEF L
<1>2. k \in 1..L /\ k - 1 \in 0..L /\ k - 1 + (off + 5) >= L  BY <1>1 DEF L
<1>3. QED  BY <1>2 DEF ReadAs, L

\* Numbers and strings come back.
LEMMA LeafBack ==
  ASSUME NEW buff \in Seq(Byte), NEW rf, NEW little \in BOOLEAN,
         ReadAs(buff, rf, Same, little), ~Doubles,
         NEW v \in Numbers \cup [type : {"StringT"}, of : UpTo(MaxLength, Byte)], NEW ser
  PROVE  Faithful(buff, rf, v, WriteValue(v, ser, little))
<1> DEFINE t == v.type
           s == v.of
           rest == IF t = "StringT" THEN s ELSE InOrder(s, little)
           n == Len(s)
           b == Headed(t, n, rest, little)
<1>1. /\ t \in Names /\ s \in Seq(Byte) /\ n \in Nat /\ n <= MaxLength
      /\ v = [type |-> t, of |-> s]
      /\ (t = "StringT" \/ (t \in NumberNames /\ t # "StringT" /\ n = Width[t]))
      /\ WriteValue(v, ser, little) = b
  <2>1. CASE v \in Numbers
    <3>1. /\ t \in NumberNames /\ s \in Seq(Byte) /\ n = Width[t] /\ n \in 1..8
          /\ v = [type |-> t, of |-> s]
      BY <2>1, NumberIs
    <3>2. t # "StringT" /\ t \in Names
      <4>1. DOMAIN TypeNames = 1..12  BY DEF TypeNames
      <4>2. t \in {TypeNames[1], TypeNames[2], TypeNames[3], TypeNames[4], TypeNames[5],
                   TypeNames[6], TypeNames[7], TypeNames[8], TypeNames[9]}
        BY <3>1 DEF NumberNames, TypeNames
      <4>3. t # "StringT"  BY <3>1 DEF NumberNames
      <4> HIDE DEF t
      <4>4. QED  BY <4>1, <4>2, <4>3 DEF Names
    <3>3. n <= MaxLength /\ n \in Nat  BY <3>1 DEF MaxLength
    <3>4. WriteValue(v, ser, little) = Headed(t, Width[t], InOrder(s, little), little)
      BY <2>1, ValueHeaded
    <3>5. rest = InOrder(s, little)  BY <3>2
    <3>6. QED  BY <3>1, <3>2, <3>3, <3>4, <3>5
  <2>2. CASE v \in [type : {"StringT"}, of : UpTo(MaxLength, Byte)]
    <3>1. t = "StringT" /\ s \in UpTo(MaxLength, Byte) /\ v = [type |-> t, of |-> s]
      BY <2>2
    <3>2. s \in Seq(Byte) /\ n <= MaxLength /\ n \in Nat  BY <3>1 DEF UpTo
    <3>3. t \in Names
      <4>1. DOMAIN TypeNames = 1..12 /\ TypeNames[10] = "StringT"  BY DEF TypeNames
      <4>2. QED  BY <3>1, <4>1 DEF Names
    <3>4. WriteValue(v, ser, little) = Headed("StringT", n, s, little)
      BY <3>1, ValueHeaded
    <3>5. rest = s  BY <3>1
    <3>6. QED  BY <3>1, <3>2, <3>3, <3>4, <3>5
  <2>3. QED  BY <2>1, <2>2
<1>2. rest \in Seq(Byte) /\ Len(rest) = n
  <2>1. InOrder(s, little) \in Seq(Byte) /\ Len(InOrder(s, little)) = n  BY <1>1, OrderTwice
  <2>2. QED  BY <1>1, <2>1
<1>3. n <= 8 \/ t = "StringT"
  BY <1>1, WidthIs
<1> HIDE DEF t, s
<1>4. b \in Seq(Byte) /\ Len(b) = 5 + n /\ b[1] = index(t)
  <2> HIDE DEF rest, n
  <2>1. b \in Seq(Byte) /\ Len(b) = 5 + Len(rest) /\ b[1] = index(t)
    BY <1>1, <1>2, HeadedType
  <2>2. QED  BY <1>2, <2>1
<1>5. ASSUME NEW k \in 0..Len(buff), NEW off \in Nat, Holds(buff, off, b),
             k + off >= Len(buff)
      PROVE  rf[k][off] = Result("ok", v, Len(b) - 5)
  <2>1. HeadRead(buff, off, t, n, little) /\ Holds(buff, off + 5, rest)
    <3> HIDE DEF rest, n
    <3>1. QED  BY <1>1, <1>2, <1>5, HeadIs
  <2>2. rf[k][off] = ReadAt(buff, off, rf[k - 1], Same, little)
    <3>1. HeadRead(buff, off, t, n, little)  BY <2>1
    <3>2. k + off >= Len(buff)  BY <1>5
    <3> HIDE DEF n, b, rest
    <3>3. QED  BY <3>1, <3>2, LevelDown
  <2>3. Len(b) - 5 = n
    <3> HIDE DEF b, n
    <3>1. QED  BY <1>1, <1>4
  <2>4. off + 5 \in Nat  OBVIOUS
  <2>5. CASE t = "StringT"
    <3>1. Holds(buff, off + 5, s)  BY <2>1, <2>5
    <3>2. Bytes(buff, off + 5, n) = s  BY <1>1, <2>4, <3>1, BytesAre
    <3> HIDE DEF n
    <3> DEFINE read == rf[k - 1]
    <3> HIDE DEF read
    <3>3. ReadAt(buff, off, read, Same, little)
            = Result("ok", [type |-> t, of |-> Bytes(buff, off + 5, n)], n)
      <4>1. HeadRead(buff, off, t, n, little) /\ t \in Names  BY <1>1, <2>1
      <4>2. Behind(buff, off, t, n, little, read)  BY <4>1, BehindHead
      <4>3. QED  BY <2>5, <4>2 DEF Behind
    <3>4. QED  BY <1>1, <2>2, <2>3, <3>2, <3>3 DEF read
  <2>6. CASE t # "StringT"
    <3>1. Holds(buff, off + 5, InOrder(s, little)) /\ n = Width[t] /\ t \in NumberNames
      BY <1>1, <2>1, <2>6
    <3>2. read_to(buff, off + 5, n, Same, little) = s  BY <1>1, <2>4, <3>1, NumberRead
    <3>3. ~(off + 5 + Width[t] > Len(buff))
      <4>1. off + 5 + Len(rest) <= Len(buff)  BY <2>1 DEF Holds
      <4> HIDE DEF rest, n
      <4>2. off + 5 + n <= Len(buff) /\ Len(buff) \in Nat  BY <1>2, <4>1
      <4>3. QED  BY <1>1, <2>4, <3>1, <4>2
    <3> HIDE DEF n, rest, b
    <3> DEFINE read == rf[k - 1]
    <3> HIDE DEF read
    <3>4. ReadAt(buff, off, read, Same, little)
            = Result("ok", [type |-> t,
                            of |-> read_to(buff, off + 5, Width[t], Same, little)],
                     Width[t])
      <4>1. HeadRead(buff, off, t, n, little) /\ t \in Names  BY <1>1, <2>1
      <4>2. t \in NumberNames  BY <3>1
      <4>3. Behind(buff, off, t, n, little, read)  BY <4>1, BehindHead
      <4>4. QED  BY <3>3, <4>2, <4>3 DEF Behind
    <3>5. QED  BY <1>1, <2>2, <2>3, <3>1, <3>2, <3>4 DEF read
  <2>7. QED  BY <2>5, <2>6
<1> HIDE DEF b
<1>6. Len(b) >= 5
  <2> HIDE DEF n
  <2>1. QED  BY <1>1, <1>4
<1>7. ComesBack(buff, rf, v, b)  BY <1>5 DEF ComesBack
<1>8. b[1] = index(v.type)  BY <1>4 DEF t
<1>9. QED  BY <1>1, <1>4, <1>6, <1>7, <1>8 DEF Faithful

\* One element more of a sequence.
LEMMA PrefixIs ==
  ASSUME NEW S, NEW s \in Seq(S)
  PROVE  /\ SubSeq(s, 1, 0) = <<>> /\ SubSeq(s, 1, Len(s)) = s
         /\ \A i \in 0..Len(s) - 1 : Append(SubSeq(s, 1, i), s[i + 1]) = SubSeq(s, 1, i + 1)
<1>1. SubSeq(s, 1, 0) = <<>> /\ SubSeq(s, 1, Len(s)) = s  OBVIOUS
<1>2. ASSUME NEW i \in 0..Len(s) - 1
      PROVE  Append(SubSeq(s, 1, i), s[i + 1]) = SubSeq(s, 1, i + 1)
  <2> DEFINE a == SubSeq(s, 1, i)
             b == SubSeq(s, 1, i + 1)
             c == Append(a, s[i + 1])
  <2>1. i \in Nat /\ i + 1 <= Len(s) /\ Len(s) \in Nat /\ i <= Len(s)  OBVIOUS
  <2>2. a \in Seq(S) /\ Len(a) = i /\ \A k \in 1..i : a[k] = s[k]
    <3>1. a = SubSeq(s, 0 + 1, 0 + i)  OBVIOUS
    <3>2. 0 + i <= Len(s) /\ 0 \in Nat  BY <2>1
    <3> DEFINE x == SubSeq(s, 0 + 1, 0 + i)
    <3>3. x \in Seq(S) /\ Len(x) = i /\ \A k \in 1..i : x[k] = s[0 + k]
      BY <2>1, <3>2, Portion
    <3>4. \A k \in 1..i : 0 + k = k  OBVIOUS
    <3> HIDE DEF a, x
    <3>5. QED  BY <3>1, <3>3, <3>4 DEF x
  <2>3. b \in Seq(S) /\ Len(b) = i + 1 /\ \A k \in 1..i + 1 : b[k] = s[k]
    <3>1. b = SubSeq(s, 0 + 1, 0 + (i + 1))  OBVIOUS
    <3> DEFINE j == i + 1
               x == SubSeq(s, 0 + 1, 0 + j)
    <3>2. 0 + j <= Len(s) /\ 0 \in Nat /\ j \in Nat  BY <2>1
    <3> HIDE DEF j
    <3>3. x \in Seq(S) /\ Len(x) = j /\ \A k \in 1..j : x[k] = s[0 + k]
      BY <3>2, Portion
    <3>4. \A k \in 1..j : 0 + k = k  OBVIOUS
    <3> HIDE DEF b, x
    <3>5. QED  BY <3>1, <3>3, <3>4 DEF x, j
  <2>4. s[i + 1] \in S  BY <2>1
  <2> HIDE DEF a, b
  <2>5. /\ c \in Seq(S) /\ Len(c) = i + 1 /\ c[i + 1] = s[i + 1]
        /\ \A k \in 1..i : c[k] = a[k]
    BY <2>2, <2>4
  <2> HIDE DEF c
  <2>6. \A k \in 1..i + 1 : c[k] = b[k]
    <3> TAKE k \in 1..i + 1
    <3>1. k \in 1..i \/ k = i + 1  BY <2>1
    <3>2. QED  BY <2>2, <2>3, <2>5, <3>1
  <2>7. c = [k \in 1..i + 1 |-> c[k]] /\ b = [k \in 1..i + 1 |-> b[k]]
    BY <2>3, <2>5
  <2>8. QED  BY <2>6, <2>7 DEF a, b, c
<1>3. QED  BY <1>1, <1>2

\* Where each part is in the buffer: part i ends behind end[i] bytes.
PartsIn(buff, off, parts, end) ==
  /\ end \in [0..Len(parts) -> Nat] /\ end[0] = off
  /\ end[Len(parts)] = off + Len(FlattenSeq(parts))
  /\ Len(parts) <= Len(FlattenSeq(parts))
  /\ \A i \in 1..Len(parts) : /\ end[i] = end[i - 1] + Len(parts[i])
                              /\ Holds(buff, end[i - 1], parts[i])
  /\ \A i \in 0..Len(parts) : off <= end[i]

\* Parts that were flattened have such places.
LEMMA PartsAreIn ==
  ASSUME NEW buff \in Seq(Byte), NEW off \in Nat, NEW parts \in Seq(Seq(Byte)),
         \A i \in 1..Len(parts) : Len(parts[i]) >= 1,
         Holds(buff, off, FlattenSeq(parts))
  PROVE  \E end : PartsIn(buff, off, parts, end)
<1> DEFINE n == Len(parts)
           all == FlattenSeq(parts)
           L == Len(buff)
<1>1. n \in Nat /\ L \in Nat /\ \A i \in 1..n : parts[i] \in Seq(Byte) /\ Len(parts[i]) \in Nat
  <2>1. \A i \in 1..n : parts[i] \in Seq(Byte)  OBVIOUS
  <2>2. QED  BY <2>1
<1>2. all \in Seq(Byte)  BY FlattenType
<1>3. PICK pos : FlatAt(parts, all, pos)  BY FlattenPlaces
<1> HIDE DEF all, n
<1>4. /\ pos \in [0..n -> Nat] /\ pos[0] = 0 /\ Len(all) = pos[n]
      /\ \A i \in 1..n : pos[i] = pos[i - 1] + Len(parts[i])
      /\ \A i \in 0..n : pos[i] <= Len(all)
      /\ \A i \in 1..n : \A k \in 1..Len(parts[i]) : all[pos[i - 1] + k] = parts[i][k]
  BY <1>3 DEF FlatAt, n
<1>5. Holds(buff, off, all) /\ Len(all) \in Nat  BY <1>2 DEF all
<1> DEFINE S == {i \in Nat : i <= n => pos[i] >= i}
<1>6. \A i \in Nat : i <= n => pos[i] >= i
  <2>1. 0 \in S  BY <1>4
  <2>2. ASSUME NEW i \in Nat, i \in S  PROVE i + 1 \in S
    <3> SUFFICES ASSUME i + 1 <= n PROVE pos[i + 1] >= i + 1  OBVIOUS
    <3> DEFINE x == pos[i]
               l == Len(parts[i + 1])
    <3>1. i \in 0..n /\ i + 1 \in 1..n /\ i <= n /\ i + 1 - 1 = i  BY <1>1
    <3>2. x >= i /\ x \in Nat /\ l \in Nat /\ l >= 1 /\ pos[i + 1] = x + l
      <4>1. x >= i  BY <2>2, <3>1
      <4>2. x \in Nat  BY <1>4, <3>1
      <4>3. l \in Nat /\ l >= 1
        <5>1. i + 1 \in 1..Len(parts)  BY <3>1 DEF n
        <5> DEFINE j == i + 1
        <5> HIDE DEF j
        <5>2. Len(parts[j]) >= 1  BY <5>1 DEF j
        <5>3. Len(parts[j]) \in Nat  BY <1>1, <3>1 DEF j
        <5>4. QED  BY <5>2, <5>3 DEF j
      <4>4. pos[i + 1] = pos[i + 1 - 1] + Len(parts[i + 1])  BY <1>4, <3>1
      <4> DEFINE j == i + 1 - 1
      <4> HIDE DEF j
      <4>5. pos[i + 1] = pos[j] + l /\ j = i  BY <3>1, <4>4 DEF j
      <4>6. QED  BY <4>1, <4>2, <4>3, <4>5
    <3> HIDE DEF x, l
    <3>3. QED  BY <3>2
  <2>3. Nat \subseteq S
    <3> HIDE DEF S
    <3>1. QED  BY <2>1, <2>2, SetInduction
  <2>4. QED  BY <2>3
<1> DEFINE end == [i \in 0..n |-> off + pos[i]]
<1>7. /\ end \in [0..n -> Nat] /\ end[0] = off /\ end[n] = off + Len(all)
      /\ \A i \in 0..n : end[i] = off + pos[i] /\ off <= end[i]
  <2>1. \A i \in 0..n : off + pos[i] \in Nat /\ off <= off + pos[i]  BY <1>4
  <2>2. 0 \in 0..n /\ n \in 0..n  BY <1>1
  <2>3. \A i \in 0..n : end[i] = off + pos[i]  OBVIOUS
  <2>4. end \in [0..n -> Nat]  BY <2>1
  <2> HIDE DEF end
  <2>5. off + 0 = off  OBVIOUS
  <2>6. QED  BY <1>4, <2>1, <2>2, <2>3, <2>4, <2>5
<1> HIDE DEF end
<1>8. ASSUME NEW i \in 1..n
      PROVE  end[i] = end[i - 1] + Len(parts[i]) /\ Holds(buff, end[i - 1], parts[i])
  <2> DEFINE x == pos[i - 1]
             l == Len(parts[i])
             part == parts[i]
  <2>1. i \in 0..n /\ i - 1 \in 0..n  BY <1>1
  <2>2. x \in Nat /\ l \in Nat /\ pos[i] = x + l /\ part \in Seq(Byte)
    BY <1>1, <1>4, <2>1
  <2>3. end[i - 1] = off + x /\ end[i] = off + pos[i]  BY <1>7, <2>1
  <2>4. Holds(all, x, part)
    <3>1. \A k \in 1..l : all[x + k] = part[k]  BY <1>4
    <3>2. x + l <= Len(all)  BY <1>4, <2>1, <2>2
    <3>3. QED  BY <3>1, <3>2 DEF Holds
  <2> HIDE DEF x, l, part
  <2>5. Holds(buff, off + x, part)  BY <1>2, <1>5, <2>2, <2>4, HoldsIn
  <2>6. off + (x + l) = off + x + l  BY <2>2
  <2>7. QED  BY <2>2, <2>3, <2>5, <2>6 DEF l, part
<1>9. n <= Len(all)  BY <1>1, <1>4, <1>6
<1>10. PartsIn(buff, off, parts, end)  BY <1>7, <1>8, <1>9 DEF PartsIn, all, n
<1>11. QED  BY <1>10

\* The bytes of the items of a sequence, each of which comes back.
EachBack(buff, rf, items, parts) ==
  /\ Len(parts) = Len(items)
  /\ \A i \in 1..Len(items) : Faithful(buff, rf, items[i], parts[i])

\* The items of an array, read from where they are (lib/asf.cpp:176).
LEMMA ArrayRead ==
  ASSUME NEW buff \in Seq(Byte), NEW rf, NEW S, NEW items \in Seq(S),
         NEW parts \in Seq(Seq(Byte)), EachBack(buff, rf, items, parts),
         NEW off \in Nat, Holds(buff, off, FlattenSeq(parts)),
         NEW k \in 0..Len(buff), k + off >= Len(buff)
  PROVE  deserialize_array(buff, off, Len(items), rf[k])
           = Result("ok", items, off + Len(FlattenSeq(parts)))
<1> DEFINE n == Len(items)
           L == Len(buff)
           read == rf[k]
<1>1. n \in Nat /\ L \in Nat /\ Len(parts) = n  BY DEF EachBack
<1>2. \A i \in 1..n : /\ parts[i] \in Seq(Byte) /\ Len(parts[i]) >= 5
                      /\ ComesBack(buff, rf, items[i], parts[i])
  BY DEF Faithful, EachBack
<1>3. PICK end : PartsIn(buff, off, parts, end)
  <2>1. \A i \in 1..Len(parts) : Len(parts[i]) >= 1
    <3> TAKE i \in 1..Len(parts)
    <3> DEFINE l == Len(parts[i])
    <3>1. l >= 5 /\ l \in Nat  BY <1>1, <1>2
    <3> HIDE DEF l
    <3>2. l >= 1  BY <3>1
    <3>3. QED  BY <3>2 DEF l
  <2>2. QED  BY <2>1, PartsAreIn
<1> DEFINE all == Len(FlattenSeq(parts))
<1>4. /\ end \in [0..n -> Nat] /\ end[0] = off /\ end[n] = off + all
      /\ n <= all
      /\ \A i \in 1..n : end[i] = end[i - 1] + Len(parts[i]) /\ Holds(buff, end[i - 1], parts[i])
      /\ \A i \in 0..n : off <= end[i]
  BY <1>1, <1>3 DEF PartsIn
<1>5. all \in Nat /\ off + all <= L
  <2>1. FlattenSeq(parts) \in Seq(Byte)  BY FlattenType
  <2>2. off + Len(FlattenSeq(parts)) <= Len(buff)  BY DEF Holds
  <2>3. QED  BY <2>1, <2>2
<1> HIDE DEF n, L, all, read
<1>6. Tries(buff, n) = n
  <2>1. n <= L  BY <1>1, <1>4, <1>5
  <2>2. QED  BY <2>1 DEF Tries, L
<1>7. PICK f : ArrayAs(buff, off, n, f, read)  BY <1>1, ArrayUnfold DEF L
<1>8. /\ deserialize_array(buff, off, n, read) = f[n]
      /\ f[0] = Result("ok", <<>>, off)
      /\ \A i \in 1..n : f[i] = ItemStep(read, f[i - 1])
  BY <1>6, <1>7 DEF ArrayAs
<1> DEFINE P(i) == Result("ok", SubSeq(items, 1, i), end[i])
           T == {i \in Nat : i <= n => f[i] = P(i)}
<1>9. 0 \in T
  <2>1. SubSeq(items, 1, 0) = <<>>  BY PrefixIs
  <2>2. QED  BY <1>4, <1>8, <2>1
<1>10. ASSUME NEW i \in Nat, i \in T  PROVE i + 1 \in T
  <2> SUFFICES ASSUME i + 1 <= n PROVE f[i + 1] = P(i + 1)  OBVIOUS
  <2> DEFINE j == i + 1
             a == SubSeq(items, 1, i)
             e == end[i]
             l == Len(parts[j])
  <2>1. j \in 1..n /\ i \in 0..n /\ i <= n /\ j - 1 = i /\ i \in 0..n - 1  BY <1>1
  <2>2. f[i] = Result("ok", a, e)  BY <1>10, <2>1
  <2>3. Append(a, items[j]) = SubSeq(items, 1, j)
    <3>1. \A h \in 0..Len(items) - 1 : Append(SubSeq(items, 1, h), items[h + 1]) = SubSeq(items, 1, h + 1)
      BY PrefixIs
    <3>2. QED  BY <2>1, <3>1 DEF n
  <2>4. e \in Nat /\ off <= e /\ l \in Nat /\ l >= 5
    <3>1. e \in Nat /\ off <= e  BY <1>4, <2>1
    <3>2. parts[j] \in Seq(Byte) /\ l >= 5
      <4> HIDE DEF j
      <4>1. QED  BY <1>2, <2>1
    <3> DEFINE p == parts[j]
    <3>3. Len(p) \in Nat
      <4> HIDE DEF p
      <4>1. p \in Seq(Byte)  BY <3>2 DEF p
      <4>2. QED  BY <4>1
    <3>4. QED  BY <3>1, <3>2, <3>3
  <2>5. end[j] = e + l /\ Holds(buff, e, parts[j])  BY <1>4, <2>1
  <2>6. read[e] = Result("ok", items[j], l - 5)
    <3>1. k + e >= Len(buff)  BY <1>1, <2>4 DEF L
    <3>2. ComesBack(buff, rf, items[j], parts[j])  BY <1>2, <2>1
    <3> HIDE DEF j, e
    <3>3. QED  BY <2>4, <2>5, <3>1, <3>2 DEF ComesBack, read
  <2>7. f[j] = ItemStep(read, f[i])
    <3> HIDE DEF j
    <3>1. QED  BY <1>8, <2>1
  <2> HIDE DEF a, e, l, j
  <2>8. ItemStep(read, Result("ok", a, e)) = Result("ok", Append(a, items[j]), e + 5 + (l - 5))
    <3> DEFINE b == Result("ok", a, e)
               r == read[e]
    <3>1. b.status = "ok" /\ b.value = a /\ b.size = e  BY DEF Result
    <3>2. r.status = "ok" /\ r.value = items[j] /\ r.size = l - 5  BY <2>6 DEF Result
    <3> HIDE DEF b
    <3>3. ItemStep(read, b) = IF b.status # "ok" THEN b
                              ELSE IF r.status # "ok" THEN r
                              ELSE Result("ok", Append(b.value, r.value), b.size + 5 + r.size)
      BY <3>1, Zenon DEF ItemStep
    <3> HIDE DEF r
    <3>4. ItemStep(read, b) = Result("ok", Append(a, items[j]), e + 5 + (l - 5))
      BY <3>1, <3>2, <3>3, Zenon
    <3>5. QED  BY <3>4 DEF b
  <2>9. e + 5 + (l - 5) = end[j]  BY <2>4, <2>5
  <2>10. f[j] = P(j)  BY <2>2, <2>3, <2>7, <2>8, <2>9
  <2>11. QED  BY <2>10 DEF j
<1>11. n \in T
  <2> HIDE DEF T
  <2>1. Nat \subseteq T  BY <1>9, <1>10, SetInduction
  <2>2. QED  BY <1>1, <2>1
<1>12. f[n] = P(n)  BY <1>1, <1>11
<1>13. SubSeq(items, 1, n) = items  BY PrefixIs DEF n
<1>14. QED  BY <1>4, <1>8, <1>12, <1>13 DEF n, all, read

\* What is read of an array or a map behind its head.
BodyOf(buff, off, t, n, read, little) ==
  IF t = "ArrayT" THEN deserialize_array(buff, off, n, read)
  ELSE deserialize_map(buff, off, n, read, Same, little)

\* The values in it come back.
BodyBack(buff, rf, t, n, rest, s, little) ==
  \A k \in 0..Len(buff), off \in Nat :
    Holds(buff, off, rest) /\ k + off >= Len(buff) =>
      BodyOf(buff, off, t, n, rf[k], little) = Result("ok", s, off + Len(rest))

\* An array or a map comes back if what is behind its head does.
LEMMA NestedBack ==
  ASSUME NEW buff \in Seq(Byte), NEW rf, NEW little \in BOOLEAN,
         ReadAs(buff, rf, Same, little), NEW t \in {"ArrayT", "MapT"}, NEW s,
         NEW n \in Nat, n <= MaxLength, NEW rest \in Seq(Byte),
         BodyBack(buff, rf, t, n, rest, s, little)
  PROVE  Faithful(buff, rf, [type |-> t, of |-> s], Headed(t, n, rest, little))
<1> DEFINE v == [type |-> t, of |-> s]
           b == Headed(t, n, rest, little)
           L == Len(buff)
           m == Len(rest)
<1>1. t \in Names
  <2>1. DOMAIN TypeNames = 1..12 /\ TypeNames[11] = "ArrayT" /\ TypeNames[12] = "MapT"
    BY DEF TypeNames
  <2>2. QED  BY <2>1 DEF Names
<1>2. b \in Seq(Byte) /\ Len(b) = 5 + m /\ b[1] = index(t)  BY <1>1, HeadedType
<1>3. m \in Nat /\ L \in Nat /\ v.type = t  OBVIOUS
<1> HIDE DEF v, m
<1>4. ASSUME NEW k \in 0..Len(buff), NEW off \in Nat, Holds(buff, off, b),
             k + off >= Len(buff)
      PROVE  rf[k][off] = Result("ok", v, Len(b) - 5)
  <2>1. HeadRead(buff, off, t, n, little) /\ Holds(buff, off + 5, rest)
    BY <1>1, <1>4, HeadIs
  <2> HIDE DEF b
  <2> DEFINE read == rf[k - 1]
             body == off + 5
             r == BodyOf(buff, body, t, n, read, little)
  <2>2. /\ rf[k][off] = ReadAt(buff, off, read, Same, little)
        /\ k - 1 \in 0..Len(buff) /\ k - 1 + body >= Len(buff)
    <3>1. HeadRead(buff, off, t, n, little) /\ k + off >= Len(buff)  BY <1>4, <2>1
    <3>2. QED  BY <3>1, LevelDown
  <2>3. r = Result("ok", s, body + m)
    <3>1. body \in Nat /\ Holds(buff, body, rest)  BY <2>1
    <3> DEFINE j == k - 1
    <3>2. j \in 0..Len(buff) /\ j + body >= Len(buff)  BY <2>2
    <3> HIDE DEF j, body
    <3>3. BodyOf(buff, body, t, n, rf[j], little) = Result("ok", s, body + Len(rest))
      BY <3>1, <3>2 DEF BodyBack
    <3>4. QED  BY <3>3 DEF j, m
  <2> HIDE DEF read
  <2>4. ReadAt(buff, off, read, Same, little) = Inner(t, r, body)
    <3>1. Behind(buff, off, t, n, little, read)  BY <1>1, <2>1, BehindHead
    <3> DEFINE at == ReadAt(buff, off, read, Same, little)
               A == deserialize_array(buff, body, n, read)
               M == deserialize_map(buff, body, n, read, Same, little)
    <3>2. (t = "ArrayT" => at = Inner(t, A, body)) /\ (t = "MapT" => at = Inner(t, M, body))
      BY <3>1 DEF Behind
    <3>3. r = IF t = "ArrayT" THEN A ELSE M  BY DEF BodyOf
    <3> HIDE DEF A, M, at, r, body
    <3>4. at = Inner(t, r, body)  BY <3>2, <3>3
    <3>5. QED  BY <3>4 DEF at
  <2> HIDE DEF r
  <2>5. r.status = "ok" /\ r.value = s /\ r.size = body + m  BY <2>3 DEF Result
  <2>6. Inner(t, r, body) = Result("ok", v, body + m - body)
    <3>1. [type |-> t, of |-> r.value] = v  BY <2>5 DEF v
    <3>2. r.size - body = body + m - body
      <4>1. body \in Nat  OBVIOUS
      <4> DEFINE z == r.size
      <4>2. z = body + m  BY <2>5
      <4> HIDE DEF z, body
      <4>3. z - body = body + m - body  BY <1>3, <4>1, <4>2
      <4>4. QED  BY <4>3 DEF z
    <3> HIDE DEF body
    <3>3. Inner(t, r, body) = Result("ok", [type |-> t, of |-> r.value], r.size - body)
      BY <2>5, Zenon DEF Inner
    <3>4. QED  BY <3>1, <3>2, <3>3
  <2>7. body + m - body = Len(b) - 5  BY <1>2, <1>3
  <2>8. QED  BY <2>2, <2>4, <2>6, <2>7
<1>5. ComesBack(buff, rf, v, b)  BY <1>4 DEF ComesBack
<1> HIDE DEF b
<1>6. Len(b) >= 5  BY <1>2, <1>3
<1>7. Faithful(buff, rf, v, b)  BY <1>2, <1>3, <1>5, <1>6 DEF Faithful
<1>8. QED  BY <1>7 DEF v, b

\* The values of S come back.
AllBack(buff, rf, S, ser) == \A u \in S : Faithful(buff, rf, u, ser[u])

\* An array of values that come back comes back.
LEMMA ArrayBack ==
  ASSUME NEW buff \in Seq(Byte), NEW rf, NEW little \in BOOLEAN,
         ReadAs(buff, rf, Same, little), ~Doubles, NEW S, NEW ser,
         AllBack(buff, rf, S, ser),
         NEW v \in [type : {"ArrayT"}, of : UpTo(MaxLength, S)]
  PROVE  Faithful(buff, rf, v, WriteValue(v, ser, little))
<1> DEFINE s == v.of
           n == Len(s)
           parts == ItemBytes(s, ser)
           rest == FlattenSeq(parts)
<1>1. v.type = "ArrayT" /\ s \in UpTo(MaxLength, S) /\ v = [type |-> "ArrayT", of |-> s]
  OBVIOUS
<1>2. s \in Seq(S) /\ n <= MaxLength /\ n \in Nat  BY <1>1 DEF UpTo
<1>3. WriteValue(v, ser, little) = Headed("ArrayT", n, rest, little)
  BY <1>1, ValueHeaded
<1> HIDE DEF s
<1>4. \A i \in 1..n : s[i] \in S  BY <1>2
<1>5. \A i \in 1..n : ser[s[i]] \in Seq(Byte) /\ Faithful(buff, rf, s[i], ser[s[i]])
  BY <1>4 DEF AllBack, Faithful
<1>6. parts = [i \in 1..n |-> ser[s[i]]]
  <2>1. DOMAIN s = 1..n  BY <1>2
  <2>2. QED  BY <2>1 DEF ItemBytes
<1> HIDE DEF parts, n
<1>7. parts \in Seq(Seq(Byte)) /\ Len(parts) = n /\ \A i \in 1..n : parts[i] = ser[s[i]]
  <2> DEFINE E == Seq(Byte)
  <2>1. \A i \in 1..n : ser[s[i]] \in E  BY <1>5
  <2> HIDE DEF E
  <2>2. parts \in [1..n -> E]  BY <1>6, <2>1
  <2>3. parts \in Seq(E) /\ Len(parts) = n  BY <1>2, <2>2, FunSeq
  <2>4. QED  BY <1>6, <2>3 DEF E
<1>8. \A i \in 1..n : Faithful(buff, rf, s[i], parts[i])  BY <1>5, <1>7
<1>9. rest \in Seq(Byte)  BY <1>7, FlattenType
<1> HIDE DEF rest
<1>10. ASSUME NEW k \in 0..Len(buff), NEW off \in Nat, Holds(buff, off, rest),
              k + off >= Len(buff)
       PROVE  BodyOf(buff, off, "ArrayT", n, rf[k], little) = Result("ok", s, off + Len(rest))
  <2>1. /\ EachBack(buff, rf, s, parts) /\ Holds(buff, off, FlattenSeq(parts))
        /\ parts \in Seq(Seq(Byte)) /\ s \in Seq(S) /\ k + off >= Len(buff)
    BY <1>2, <1>7, <1>8, <1>10 DEF n, rest, EachBack
  <2>2. deserialize_array(buff, off, Len(s), rf[k])
          = Result("ok", s, off + Len(FlattenSeq(parts)))
    BY <2>1, ArrayRead
  <2>3. QED  BY <2>2 DEF BodyOf, n, rest
<1>11. BodyBack(buff, rf, "ArrayT", n, rest, s, little)  BY <1>10 DEF BodyBack
<1>12. n \in Nat /\ n <= MaxLength  BY <1>2 DEF n
<1>13. Faithful(buff, rf, [type |-> "ArrayT", of |-> s], Headed("ArrayT", n, rest, little))
  BY <1>9, <1>11, <1>12, NestedBack
<1>14. QED  BY <1>1, <1>3, <1>13

\* A key is read as it was written (lib/asf.cpp:211).
LEMMA KeyRead ==
  ASSUME NEW buff \in Seq(Byte), NEW key \in UpTo(MaxKey, Byte), NEW little \in BOOLEAN,
         NEW off \in Nat, NEW rest \in Seq(Byte),
         Holds(buff, off, write_to(Len(key), 2, little) \o key \o rest)
  PROVE  /\ ReadKey(buff, off, Same, little) = key
         /\ Holds(buff, off + 2 + Len(key), rest)
         /\ off + 2 + Len(key) + Len(rest) <= Len(buff)
<1> DEFINE n == Len(key)
           w == write_to(n, 2, little)
           wk == w \o key
           m == Len(rest)
           L == Len(buff)
<1>1. key \in Seq(Byte) /\ n \in Nat /\ n <= MaxKey  BY DEF UpTo
<1>2. w \in Seq(Byte) /\ Len(w) = 2
  <2>1. 2 \in Nat  OBVIOUS
  <2>2. QED  BY <1>1, <2>1, Written
<1>3. Holds(buff, off, wk \o rest)  OBVIOUS
<1>4. L \in Nat /\ m \in Nat  OBVIOUS
<1> HIDE DEF n, w, m
<1>5. wk \in Seq(Byte) /\ Len(wk) = 2 + n
  <2>1. wk \in Seq(Byte) /\ Len(wk) = Len(w) + Len(key)  BY <1>1, <1>2, Joined
  <2>2. QED  BY <1>2, <2>1 DEF n
<1> HIDE DEF wk, L
<1>6. Len(buff) \in Nat  BY <1>4 DEF L
<1>7. Holds(buff, off, wk) /\ Holds(buff, off + Len(wk), rest)
  BY <1>3, <1>5, <1>6, HoldsBoth
<1>8. Holds(buff, off, w) /\ Holds(buff, off + Len(w), key)
  BY <1>1, <1>2, <1>6, <1>7, HoldsBoth DEF wk
<1>9. Number(read_to(buff, off, 2, FALSE, little)) = n
  <2>1. Sized(n, 2) /\ 2 \in Nat  BY <1>1 DEF Sized
  <2>2. Holds(buff, off, write_to(n, 2, little))  BY <1>8 DEF w
  <2>3. QED  BY <1>1, <2>1, <2>2, LengthRead
<1>10. ReadKey(buff, off, Same, little) = key
  <2>1. ReadKey(buff, off, Same, little)
          = Bytes(buff, off + 2, Number(read_to(buff, off, 2, FALSE, little)))
    BY Zenon DEF ReadKey, Same
  <2>2. Holds(buff, off + 2, key) /\ off + 2 \in Nat  BY <1>2, <1>8
  <2>3. Bytes(buff, off + 2, Len(key)) = key  BY <1>1, <2>2, BytesAre
  <2>4. QED  BY <1>9, <2>1, <2>3 DEF n
<1>11. off + Len(wk) = off + 2 + n  BY <1>1, <1>5
<1>12. off + Len(wk) + Len(rest) <= Len(buff)  BY <1>7 DEF Holds
<1>13. QED  BY <1>7, <1>10, <1>11, <1>12 DEF n

\* What is read of a pair at e, up to next.
PairHere(buff, read, little, e, pair, next) ==
  LET start == e + 2 + Len(pair[1])
  IN  /\ ReadKey(buff, e, Same, little) = pair[1]
      /\ ~(e + 2 > Len(buff)) /\ ~(start >= Len(buff))
      /\ buff[start + 1] = index(pair[2].type)
      /\ read[start].status = "ok" /\ read[start].value = pair[2]
      /\ start + 5 + read[start].size = next

\* A pair is read as it was written, if its value is.
LEMMA PairRead ==
  ASSUME NEW buff \in Seq(Byte), NEW rf, NEW little \in BOOLEAN,
         NEW pair, pair[1] \in UpTo(MaxKey, Byte), NEW ser,
         Faithful(buff, rf, pair[2], ser[pair[2]]),
         NEW e \in Nat, Holds(buff, e, PairBytes(pair, ser, little)),
         NEW k \in 0..Len(buff), k + e >= Len(buff)
  PROVE  /\ PairBytes(pair, ser, little) \in Seq(Byte)
         /\ Len(PairBytes(pair, ser, little)) >= 7
         /\ PairHere(buff, rf[k], little, e, pair, e + Len(PairBytes(pair, ser, little)))
<1> DEFINE key == pair[1]
           v == pair[2]
           b == ser[v]
           n == Len(key)
           l == Len(b)
           w == write_to(n, 2, little)
           wk == w \o key
           all == wk \o b
           start == e + 2 + n
           L == Len(buff)
<1>1. key \in UpTo(MaxKey, Byte) /\ key \in Seq(Byte) /\ n \in Nat /\ n <= MaxKey
  BY DEF UpTo
<1>2. b \in Seq(Byte) /\ l \in Nat /\ l >= 5 /\ b[1] = index(v.type) /\ ComesBack(buff, rf, v, b)
  BY DEF Faithful
<1>3. PairBytes(pair, ser, little) = all  BY DEF PairBytes
<1> HIDE DEF key, v, b, n, l
<1>4. w \in Seq(Byte) /\ Len(w) = 2
  <2>1. 2 \in Nat  OBVIOUS
  <2>2. QED  BY <1>1, <2>1, Written
<1> HIDE DEF w
<1>5. wk \in Seq(Byte) /\ Len(wk) = 2 + n
  <2>1. wk \in Seq(Byte) /\ Len(wk) = Len(w) + Len(key)  BY <1>1, <1>4, Joined
  <2>2. QED  BY <1>4, <2>1 DEF n
<1> HIDE DEF wk
<1>6. all \in Seq(Byte) /\ Len(all) = 2 + n + l
  <2>1. all \in Seq(Byte) /\ Len(all) = Len(wk) + Len(b)  BY <1>2, <1>5, Joined
  <2>2. QED  BY <1>5, <2>1 DEF l
<1>7. /\ ReadKey(buff, e, Same, little) = key
      /\ Holds(buff, start, b) /\ start + Len(b) <= Len(buff)
  <2>1. Holds(buff, e, write_to(Len(key), 2, little) \o key \o b)
    BY <1>3 DEF w, wk, n
  <2>2. QED  BY <1>1, <1>2, <2>1, KeyRead DEF n
<1> HIDE DEF all
<1>8. L \in Nat /\ start \in Nat  BY <1>1
<1>9. start + l <= L  BY <1>7 DEF l
<1>10. buff[start + 1] = b[1]
  <2>1. 1 \in 1..Len(b)  BY <1>2 DEF l
  <2> HIDE DEF start
  <2>2. QED  BY <1>7, <2>1 DEF Holds
<1>11. k + e >= L /\ k \in Nat  OBVIOUS
<1> HIDE DEF L
<1>12. k + start >= L /\ ~(e + 2 > L) /\ ~(start >= L)
  BY <1>1, <1>2, <1>8, <1>9, <1>11
<1>13. rf[k][start] = Result("ok", v, l - 5)
  <2>1. k + start >= Len(buff) /\ Holds(buff, start, b)  BY <1>7, <1>12 DEF L
  <2> HIDE DEF start
  <2>2. rf[k][start] = Result("ok", v, Len(b) - 5)  BY <1>2, <1>8, <2>1 DEF ComesBack
  <2>3. QED  BY <2>2 DEF l
<1>14. start + 5 + (l - 5) = e + Len(all)  BY <1>1, <1>2, <1>6
<1> DEFINE r == rf[k][start]
<1>15. r.status = "ok" /\ r.value = v /\ r.size = l - 5  BY <1>13 DEF Result
<1> HIDE DEF r
<1>16. start + 5 + r.size = e + Len(all)  BY <1>14, <1>15
<1>17. Len(all) >= 7  BY <1>1, <1>2, <1>6
<1>18. PairHere(buff, rf[k], little, e, pair, e + Len(all))
  <2> DEFINE read == rf[k]
  <2>1. r = read[e + 2 + Len(pair[1])] /\ start = e + 2 + Len(pair[1])
    BY DEF r, n, key
  <2> HIDE DEF start
  <2>2. /\ ReadKey(buff, e, Same, little) = pair[1]
        /\ ~(e + 2 > Len(buff)) /\ ~(start >= Len(buff))
        /\ buff[start + 1] = index(pair[2].type)
        /\ r.status = "ok" /\ r.value = pair[2] /\ start + 5 + r.size = e + Len(all)
    BY <1>2, <1>7, <1>10, <1>12, <1>15, <1>16 DEF L, key, v
  <2> HIDE DEF read
  <2> DEFINE x == e + 2 + Len(pair[1])
  <2>3. start = x /\ r = read[x]  BY <2>1
  <2> HIDE DEF x
  <2>4. /\ ReadKey(buff, e, Same, little) = pair[1]
        /\ ~(e + 2 > Len(buff)) /\ ~(x >= Len(buff))
        /\ buff[x + 1] = index(pair[2].type)
        /\ read[x].status = "ok" /\ read[x].value = pair[2]
        /\ x + 5 + read[x].size = e + Len(all)
    BY <2>2, <2>3, Zenon
  <2>5. QED  BY <2>4, Zenon DEF PairHere, x, read
<1>19. QED  BY <1>3, <1>6, <1>17, <1>18

\* The keys are short enough and the values come back.
PairsBack(buff, rf, pairs, ser) ==
  \A i \in 1..Len(pairs) : /\ pairs[i][1] \in UpTo(MaxKey, Byte)
                           /\ Faithful(buff, rf, pairs[i][2], ser[pairs[i][2]])

\* The bytes of pairs.
LEMMA PairsAre ==
  ASSUME NEW buff, NEW rf, NEW little \in BOOLEAN, NEW P, NEW pairs \in Seq(P), NEW ser,
         PairsBack(buff, rf, pairs, ser)
  PROVE  /\ PairsBytes(pairs, ser, little) \in Seq(Seq(Byte))
         /\ Len(PairsBytes(pairs, ser, little)) = Len(pairs)
         /\ \A i \in 1..Len(pairs) :
              /\ PairsBytes(pairs, ser, little)[i] = PairBytes(pairs[i], ser, little)
              /\ Len(PairsBytes(pairs, ser, little)[i]) >= 7
         /\ FlattenSeq(PairsBytes(pairs, ser, little)) \in Seq(Byte)
<1> DEFINE n == Len(pairs)
           parts == PairsBytes(pairs, ser, little)
           p(i) == PairBytes(pairs[i], ser, little)
           E == Seq(Byte)
<1>1. n \in Nat  OBVIOUS
<1>2. parts = [i \in 1..n |-> p(i)]
  <2>1. DOMAIN pairs = 1..n  OBVIOUS
  <2>2. QED  BY <2>1 DEF PairsBytes
<1>3. ASSUME NEW i \in 1..n  PROVE p(i) \in E /\ Len(p(i)) >= 7
  <2> DEFINE key == pairs[i][1]
             b == ser[pairs[i][2]]
             w == write_to(Len(key), 2, little)
             wk == w \o key
  <2>1. key \in UpTo(MaxKey, Byte) /\ Faithful(buff, rf, pairs[i][2], b)  BY DEF PairsBack
  <2>2. key \in Seq(Byte) /\ Len(key) \in Nat  BY <2>1 DEF UpTo
  <2>3. b \in Seq(Byte) /\ Len(b) >= 5  BY <2>1 DEF Faithful
  <2> HIDE DEF key, b
  <2>4. w \in Seq(Byte) /\ Len(w) = 2
    <3>1. 2 \in Nat  OBVIOUS
    <3>2. QED  BY <2>2, <3>1, Written
  <2>5. p(i) = wk \o b  BY DEF PairBytes, key, b
  <2> HIDE DEF w
  <2>6. wk \in Seq(Byte) /\ Len(wk) = Len(w) + Len(key)  BY <2>2, <2>4, Joined
  <2> HIDE DEF wk
  <2>7. wk \o b \in Seq(Byte) /\ Len(wk \o b) = Len(wk) + Len(b)  BY <2>3, <2>6, Joined
  <2>8. Len(b) \in Nat  BY <2>3
  <2>9. Len(wk) + Len(b) >= 7  BY <2>2, <2>3, <2>4, <2>6, <2>8
  <2>10. QED  BY <2>5, <2>7, <2>9
<1> HIDE DEF p, E, n, parts
<1>4. parts \in [1..n -> E]  BY <1>2, <1>3
<1>5. parts \in Seq(E) /\ Len(parts) = n  BY <1>1, <1>4, FunSeq
<1>6. \A i \in 1..n : parts[i] = p(i) /\ Len(parts[i]) >= 7  BY <1>2, <1>3
<1>7. FlattenSeq(parts) \in Seq(Byte)
  <2>1. parts \in Seq(Seq(Byte))  BY <1>5 DEF E
  <2>2. QED  BY <2>1, FlattenType
<1>8. QED  BY <1>5, <1>6, <1>7 DEF p, E, n, parts

\* Where each pair is read, and where the reader is then.
PairsAt(buff, read, little, off, pairs, size, end) ==
  /\ end \in [0..Len(pairs) -> Nat] /\ end[0] = off /\ end[Len(pairs)] = off + size
  /\ Tries(buff, Len(pairs)) = Len(pairs)
  /\ \A i \in 1..Len(pairs) : PairHere(buff, read, little, end[i - 1], pairs[i], end[i])

\* Each pair of a map is read where the one before it ended.
LEMMA PairsWalk ==
  ASSUME NEW buff \in Seq(Byte), NEW rf, NEW little \in BOOLEAN, NEW P, NEW pairs \in Seq(P),
         NEW ser, PairsBack(buff, rf, pairs, ser),
         NEW off \in Nat, Holds(buff, off, FlattenSeq(PairsBytes(pairs, ser, little))),
         NEW k \in 0..Len(buff), k + off >= Len(buff)
  PROVE  \E end : PairsAt(buff, rf[k], little, off, pairs,
                          Len(FlattenSeq(PairsBytes(pairs, ser, little))), end)
<1> DEFINE n == Len(pairs)
           parts == PairsBytes(pairs, ser, little)
           flat == FlattenSeq(parts)
           L == Len(buff)
           size == Len(flat)
<1>1. /\ parts \in Seq(Seq(Byte)) /\ Len(parts) = n /\ flat \in Seq(Byte)
      /\ \A i \in 1..n : parts[i] = PairBytes(pairs[i], ser, little) /\ Len(parts[i]) >= 7
  BY PairsAre
<1>2. n \in Nat /\ L \in Nat  OBVIOUS
<1>3. Holds(buff, off, flat)  OBVIOUS
<1> HIDE DEF parts
<1>4. PICK end : PartsIn(buff, off, parts, end)
  <2>1. \A i \in 1..Len(parts) : Len(parts[i]) >= 1
    <3> TAKE i \in 1..Len(parts)
    <3> DEFINE p == parts[i]
               l == Len(p)
    <3>1. p \in Seq(Byte) /\ l >= 7  BY <1>1
    <3> HIDE DEF p
    <3>2. l \in Nat  BY <3>1
    <3> HIDE DEF l
    <3>3. l >= 1  BY <3>1, <3>2
    <3>4. QED  BY <3>3 DEF l, p
  <2>2. QED  BY <1>1, <1>3, <2>1, PartsAreIn
<1>5. /\ end \in [0..n -> Nat] /\ end[0] = off /\ end[n] = off + size
      /\ n <= size
      /\ \A i \in 1..n : end[i] = end[i - 1] + Len(parts[i]) /\ Holds(buff, end[i - 1], parts[i])
      /\ \A i \in 0..n : off <= end[i]
  BY <1>1, <1>4 DEF PartsIn
<1>6. size \in Nat  BY <1>1
<1>7. off + size <= L  BY <1>3 DEF Holds
<1> HIDE DEF n, L, size, flat
<1>8. Tries(buff, n) = n
  <2>1. n <= L  BY <1>2, <1>5, <1>6, <1>7
  <2>2. QED  BY <2>1 DEF Tries, L
<1>9. ASSUME NEW i \in 1..n
      PROVE  PairHere(buff, rf[k], little, end[i - 1], pairs[i], end[i])
  <2> DEFINE e == end[i - 1]
             pair == pairs[i]
             b == PairBytes(pair, ser, little)
  <2>1. i - 1 \in 0..n  BY <1>2
  <2>2. e \in Nat /\ off <= e  BY <1>5, <2>1
  <2>3. Holds(buff, e, b) /\ end[i] = e + Len(b)  BY <1>1, <1>5
  <2>4. pair[1] \in UpTo(MaxKey, Byte) /\ Faithful(buff, rf, pair[2], ser[pair[2]])
    BY DEF PairsBack, n
  <2> HIDE DEF e, pair
  <2>5. k + e >= Len(buff)  BY <1>2, <2>2 DEF L
  <2>6. PairHere(buff, rf[k], little, e, pair, e + Len(b))
    BY <2>2, <2>3, <2>4, <2>5, PairRead
  <2>7. QED  BY <2>3, <2>6 DEF e, pair
<1>10. PairsAt(buff, rf[k], little, off, pairs, size, end)
  BY <1>5, <1>8, <1>9 DEF PairsAt, n
<1>11. QED  BY <1>10 DEF size, flat, parts

\* No key of pairs is there twice.
OnceEach(pairs) == \A i, j \in DOMAIN pairs : pairs[i][1] = pairs[j][1] => i = j

\* A pair more, whose key is a new one.
LEMMA OneMore ==
  ASSUME NEW P, NEW pairs \in Seq(P), OnceEach(pairs), NEW i \in 0..Len(pairs) - 1,
         pairs[i + 1] = <<pairs[i + 1][1], pairs[i + 1][2]>>
  PROVE  Emplace(SubSeq(pairs, 1, i), pairs[i + 1][1], pairs[i + 1][2]) = SubSeq(pairs, 1, i + 1)
<1> DEFINE n == Len(pairs)
           a == SubSeq(pairs, 1, i)
           j == i + 1
           pair == pairs[j]
<1>1. n \in Nat /\ i \in Nat /\ i <= n /\ j \in 1..n /\ DOMAIN pairs = 1..n  OBVIOUS
<1>2. DOMAIN a = 1..i /\ \A h \in 1..i : a[h] = pairs[h]
  <2> DEFINE x == SubSeq(pairs, 0 + 1, 0 + i)
  <2>1. 0 + i <= Len(pairs) /\ 0 \in Nat /\ i \in Nat  BY <1>1
  <2>2. x \in Seq(P) /\ Len(x) = i /\ \A h \in 1..i : x[h] = pairs[0 + h]
    BY <2>1, Portion
  <2>3. (\A h \in 1..i : 0 + h = h) /\ x = a  OBVIOUS
  <2> HIDE DEF a, x
  <2>4. DOMAIN x = 1..i  BY <2>2
  <2>5. QED  BY <2>2, <2>3, <2>4
<1>3. Append(a, pair) = SubSeq(pairs, 1, j)
  <2>1. \A h \in 0..Len(pairs) - 1 :
          Append(SubSeq(pairs, 1, h), pairs[h + 1]) = SubSeq(pairs, 1, h + 1)
    BY PrefixIs
  <2>2. QED  BY <2>1
<1>4. \A h \in 1..i : h \in 1..n /\ h # j  BY <1>1
<1>5. pair = <<pair[1], pair[2]>>  OBVIOUS
<1> HIDE DEF a, j
<1>6. ~ \E h \in DOMAIN a : a[h][1] = pair[1]
  <2> SUFFICES ASSUME NEW h \in 1..i, a[h][1] = pair[1] PROVE FALSE  BY <1>2
  <2>1. pairs[h][1] = pairs[j][1] /\ h \in DOMAIN pairs /\ j \in DOMAIN pairs
    BY <1>1, <1>2, <1>4
  <2>2. h = j  BY <2>1 DEF OnceEach
  <2>3. QED  BY <1>4, <2>2
<1> HIDE DEF pair
<1>7. Emplace(a, pair[1], pair[2]) = Append(a, <<pair[1], pair[2]>>)
  BY <1>6, Zenon DEF Emplace
<1>8. QED  BY <1>3, <1>5, <1>7 DEF a, j, pair

\* Every one of pairs is a pair.
Paired(pairs) == \A i \in DOMAIN pairs : pairs[i] = <<pairs[i][1], pairs[i][2]>>

\* One pair more is read.
LEMMA OnePair ==
  ASSUME NEW buff, NEW read, NEW little, NEW e, NEW pair, NEW next, NEW a,
         PairHere(buff, read, little, e, pair, next)
  PROVE  PairStep(buff, read, Same, little, Result("ok", a, e))
           = Result("ok", Emplace(a, pair[1], pair[2]), next)
<1> DEFINE b == Result("ok", a, e)
           key == ReadKey(buff, e, Same, little)
           x == e + 2 + Len(key)
           r == read[x]
<1>1. b.status = "ok" /\ b.value = a /\ b.size = e  BY DEF Result
<1>2. key = pair[1]  BY Zenon DEF PairHere
<1>3. r = read[e + 2 + Len(pair[1])] /\ x = e + 2 + Len(pair[1])  BY <1>2, Zenon
<1>4. /\ ~(e + 2 > Len(buff)) /\ r.status = "ok" /\ r.value = pair[2]
      /\ x + 5 + r.size = next
  BY <1>3, Zenon DEF PairHere
<1> HIDE DEF b
<1>5. PairStep(buff, read, Same, little, b)
        = IF b.status # "ok" THEN b
          ELSE IF e + 2 > Len(buff) THEN Failed("beyond")
          ELSE IF r.status # "ok" THEN r
          ELSE Result("ok", Emplace(b.value, key, r.value), x + 5 + r.size)
  BY <1>1, Zenon DEF PairStep
<1> HIDE DEF key, x, r
<1>6. PairStep(buff, read, Same, little, b)
        = Result("ok", Emplace(b.value, key, r.value), x + 5 + r.size)
  BY <1>1, <1>4, <1>5, Zenon
<1>7. Emplace(b.value, key, r.value) = Emplace(a, pair[1], pair[2])
  BY <1>1, <1>2, <1>4, Zenon
<1>8. QED  BY <1>4, <1>6, <1>7, Zenon DEF b

\* The pairs of a map, read from where they are (lib/asf.cpp:203).
LEMMA MapRead ==
  ASSUME NEW buff \in Seq(Byte), NEW read, NEW little, NEW off \in Nat, NEW P,
         NEW pairs \in Seq(P), OnceEach(pairs), Paired(pairs), NEW size, NEW end,
         PairsAt(buff, read, little, off, pairs, size, end)
  PROVE  deserialize_map(buff, off, Len(pairs), read, Same, little)
           = Result("ok", pairs, off + size)
<1> DEFINE n == Len(pairs)
<1>1. n \in Nat /\ Len(buff) \in Nat /\ DOMAIN pairs = 1..n  OBVIOUS
<1>2. /\ end[0] = off /\ end[n] = off + size /\ Tries(buff, n) = n
      /\ \A i \in 1..n : PairHere(buff, read, little, end[i - 1], pairs[i], end[i])
  BY DEF PairsAt
<1>3. PICK f : MapAs(buff, off, n, f, read, Same, little)  BY <1>1, MapUnfold
<1>4. /\ deserialize_map(buff, off, n, read, Same, little) = f[n]
      /\ f[0] = Result("ok", <<>>, off)
      /\ \A i \in 1..n : f[i] = PairStep(buff, read, Same, little, f[i - 1])
  BY <1>2, <1>3, Zenon DEF MapAs
<1> HIDE DEF n
<1> DEFINE Q(i) == Result("ok", SubSeq(pairs, 1, i), end[i])
           T == {i \in Nat : i <= n => f[i] = Q(i)}
<1>5. 0 \in T
  <2>1. SubSeq(pairs, 1, 0) = <<>>  BY PrefixIs
  <2>2. QED  BY <1>2, <1>4, <2>1
<1>6. ASSUME NEW i \in Nat, i \in T  PROVE i + 1 \in T
  <2> SUFFICES ASSUME i + 1 <= n PROVE f[i + 1] = Q(i + 1)  OBVIOUS
  <2> DEFINE j == i + 1
             a == SubSeq(pairs, 1, i)
             e == end[i]
             pair == pairs[j]
             next == end[j]
  <2>1. j \in 1..n /\ i \in 0..n /\ i <= n /\ j - 1 = i /\ i \in 0..n - 1  BY <1>1
  <2>2. f[i] = Result("ok", a, e)  BY <1>6, <2>1
  <2>3. Emplace(a, pair[1], pair[2]) = SubSeq(pairs, 1, j)
    <3>1. pairs[j] = <<pairs[j][1], pairs[j][2]>>
      <4> HIDE DEF j
      <4>1. QED  BY <1>1, <2>1 DEF Paired
    <3>2. i \in 0..Len(pairs) - 1  BY <2>1 DEF n
    <3>3. QED  BY <3>1, <3>2, OneMore
  <2>4. f[j] = PairStep(buff, read, Same, little, f[i])
    <3> HIDE DEF j
    <3>1. QED  BY <1>4, <2>1
  <2>5. PairHere(buff, read, little, e, pair, next)
    <3> HIDE DEF j
    <3>1. QED  BY <1>2, <2>1
  <2> HIDE DEF a, e, pair, j, next
  <2>6. PairStep(buff, read, Same, little, Result("ok", a, e))
          = Result("ok", Emplace(a, pair[1], pair[2]), next)
    BY <2>5, OnePair
  <2>7. f[j] = Q(j)  BY <2>2, <2>3, <2>4, <2>6, Zenon DEF next
  <2>8. QED  BY <2>7 DEF j
<1>7. n \in T
  <2> HIDE DEF T
  <2>1. Nat \subseteq T  BY <1>5, <1>6, SetInduction
  <2>2. QED  BY <1>1, <2>1
<1>8. f[n] = Q(n)  BY <1>1, <1>7
<1>9. SubSeq(pairs, 1, n) = pairs  BY PrefixIs DEF n
<1>10. f[n] = Result("ok", pairs, off + size)  BY <1>2, <1>8, <1>9, Zenon
<1>11. QED  BY <1>4, <1>10, Zenon DEF n

\* What is true of a map.
LEMMA MapIs ==
  ASSUME NEW S, NEW pairs \in Maps(S)
  PROVE  /\ pairs \in Seq(UpTo(MaxKey, Byte) \X S) /\ Len(pairs) <= MaxLength
         /\ OnceEach(pairs) /\ Paired(pairs)
         /\ \A i \in 1..Len(pairs) : pairs[i][1] \in UpTo(MaxKey, Byte) /\ pairs[i][2] \in S
<1> DEFINE K == UpTo(MaxKey, Byte)
           P == K \X S
<1>1. pairs \in UpTo(MaxLength, P) /\ OnceEach(pairs)  BY DEF Maps, OnceEach
<1>2. \A p \in P : p[1] \in K /\ p[2] \in S /\ p = <<p[1], p[2]>>
  <2> HIDE DEF K
  <2>1. QED  OBVIOUS
<1> HIDE DEF P, K
<1>3. pairs \in Seq(P) /\ Len(pairs) <= MaxLength  BY <1>1 DEF UpTo
<1>4. DOMAIN pairs = 1..Len(pairs) /\ \A i \in 1..Len(pairs) : pairs[i] \in P  BY <1>3
<1>5. Paired(pairs)  BY <1>2, <1>4 DEF Paired
<1>6. QED  BY <1>1, <1>2, <1>3, <1>4, <1>5 DEF K, P

\* So can the pairs of a map.
LEMMA MapPairs ==
  ASSUME NEW buff, NEW rf, NEW S, NEW ser, AllBack(buff, rf, S, ser), NEW pairs \in Maps(S)
  PROVE  PairsBack(buff, rf, pairs, ser)
<1>1. \A i \in 1..Len(pairs) : pairs[i][1] \in UpTo(MaxKey, Byte) /\ pairs[i][2] \in S
  BY MapIs
<1>2. QED  BY <1>1 DEF AllBack, PairsBack

\* A map of values that come back comes back.
LEMMA MapBack ==
  ASSUME NEW buff \in Seq(Byte), NEW rf, NEW little \in BOOLEAN,
         ReadAs(buff, rf, Same, little), ~Doubles, NEW S, NEW ser,
         AllBack(buff, rf, S, ser),
         NEW v \in [type : {"MapT"}, of : Maps(S)]
  PROVE  Faithful(buff, rf, v, WriteValue(v, ser, little))
<1> DEFINE s == v.of
           n == Len(s)
           P == UpTo(MaxKey, Byte) \X S
           rest == FlattenSeq(PairsBytes(s, ser, little))
<1>1. v.type = "MapT" /\ s \in Maps(S) /\ v = [type |-> "MapT", of |-> s]
  OBVIOUS
<1>2. s \in Seq(P) /\ n <= MaxLength /\ OnceEach(s) /\ Paired(s)
  <2> HIDE DEF s
  <2>1. QED  BY <1>1, MapIs
<1> HIDE DEF P
<1>3. WriteValue(v, ser, little) = Headed("MapT", n, rest, little)
  BY <1>1, ValueHeaded
<1> HIDE DEF s
<1>4. n \in Nat  BY <1>2
<1>5. PairsBack(buff, rf, s, ser)  BY <1>1, MapPairs
<1>6. rest \in Seq(Byte)  BY <1>2, <1>5, PairsAre
<1> HIDE DEF n
<1>7. ASSUME NEW k \in 0..Len(buff), NEW off \in Nat, Holds(buff, off, rest),
             k + off >= Len(buff)
      PROVE  BodyOf(buff, off, "MapT", n, rf[k], little) = Result("ok", s, off + Len(rest))
  <2>1. PICK end : PairsAt(buff, rf[k], little, off, s, Len(rest), end)
    <3>1. k + off >= Len(buff) /\ Holds(buff, off, FlattenSeq(PairsBytes(s, ser, little)))
      BY <1>7
    <3>2. QED  BY <1>2, <1>5, <3>1, PairsWalk
  <2> HIDE DEF rest
  <2>2. deserialize_map(buff, off, Len(s), rf[k], Same, little)
          = Result("ok", s, off + Len(rest))
    BY <1>2, <2>1, MapRead
  <2>3. QED  BY <2>2 DEF BodyOf, n
<1> HIDE DEF rest
<1>8. BodyBack(buff, rf, "MapT", n, rest, s, little)  BY <1>7 DEF BodyBack
<1>9. Faithful(buff, rf, [type |-> "MapT", of |-> s], Headed("MapT", n, rest, little))
  BY <1>2, <1>4, <1>6, <1>8, NestedBack DEF n
<1>10. QED  BY <1>1, <1>3, <1>9

\* Every value comes back, however deep (lib/readme.md:101).
LEMMA ValuesBack ==
  ASSUME NEW buff \in Seq(Byte), NEW rf, NEW little \in BOOLEAN,
         ReadAs(buff, rf, Same, little), ~Doubles, NEW sf, SerializedAs(sf, little)
  PROVE  AllBack(buff, rf, Value[Depth], _serialize(little))
<1> DEFINE T == {d \in Nat : d <= Depth => AllBack(buff, rf, Value[d], sf[d])}
<1>1. Depth \in Nat /\ 0 \in 0..Depth  BY DepthAssumption
<1>2. 0 \in T
  <2>1. ASSUME NEW v \in Value[0]  PROVE Faithful(buff, rf, v, sf[0][v])
    <3>1. v \in Numbers \cup [type : {"StringT"}, of : UpTo(MaxLength, Byte)]
      BY <1>1, ValueIs
    <3>2. Faithful(buff, rf, v, WriteValue(v, sf, little))  BY <3>1, LeafBack
    <3>3. v.type \in NumberNames \cup {"StringT"}
      <4>1. v \in Numbers => v.type \in NumberNames  BY NumberIs
      <4>2. QED  BY <3>1, <4>1
    <3>4. WriteValue(v, sf, little) = Leaf(v, little)  BY <3>3, LeafWritten
    <3>5. sf[0][v] = Leaf(v, little)  BY DEF SerializedAs
    <3>6. QED  BY <3>2, <3>4, <3>5
  <2>2. QED  BY <2>1 DEF AllBack
<1>3. ASSUME NEW d \in Nat, d \in T  PROVE d + 1 \in T
  <2> SUFFICES ASSUME d + 1 <= Depth PROVE AllBack(buff, rf, Value[d + 1], sf[d + 1])
    OBVIOUS
  <2> DEFINE e == d + 1
             S == Value[d]
             ser == sf[d]
  <2>1. e \in 0..Depth /\ e \in 1..Depth /\ e - 1 = d /\ d <= Depth /\ e # 0  BY <1>1
  <2>2. AllBack(buff, rf, S, ser)  BY <1>3, <2>1
  <2> HIDE DEF e
  <2>3. S = Value[e - 1] /\ ser = sf[e - 1]  BY <2>1
  <2> HIDE DEF S, ser
  <2>4. ASSUME NEW v \in Value[e]  PROVE Faithful(buff, rf, v, sf[e][v])
    <3>1. sf[e][v] = WriteValue(v, ser, little)  BY <2>1, <2>3 DEF SerializedAs
    <3>2. \/ v \in Numbers \cup [type : {"StringT"}, of : UpTo(MaxLength, Byte)]
          \/ v \in [type : {"ArrayT"}, of : UpTo(MaxLength, S)]
          \/ v \in [type : {"MapT"}, of : Maps(S)]
      BY <2>1, <2>3, ValueIs
    <3>3. CASE v \in Numbers \cup [type : {"StringT"}, of : UpTo(MaxLength, Byte)]
      BY <3>1, <3>3, LeafBack
    <3>4. CASE v \in [type : {"ArrayT"}, of : UpTo(MaxLength, S)]
      BY <2>2, <3>1, <3>4, ArrayBack
    <3>5. CASE v \in [type : {"MapT"}, of : Maps(S)]
      BY <2>2, <3>1, <3>5, MapBack
    <3>6. QED  BY <3>2, <3>3, <3>4, <3>5
  <2>5. AllBack(buff, rf, Value[e], sf[e])  BY <2>4 DEF AllBack
  <2>6. QED  BY <2>5 DEF e
<1>4. Depth \in T
  <2> HIDE DEF T
  <2>1. Nat \subseteq T  BY <1>2, <1>3, SetInduction
  <2>2. QED  BY <1>1, <2>1
<1>5. AllBack(buff, rf, Value[Depth], sf[Depth])  BY <1>1, <1>4
<1>6. QED  BY <1>5 DEF SerializedAs

\* What a reader finds in buff: the pairs of a map from the sixth byte on.
DocumentIn(buff, pairs, little, end) ==
  /\ buff \in Seq(Byte) /\ Checked(buff, 2) /\ buff[2] = Endian(little)
  /\ Count(buff, little) = Len(pairs)
  /\ \E size : PairsAt(buff, _deserialize(buff, Same, little), little, 6, pairs, size, end)

\* A serialized map is such a buffer.
LEMMA DocumentIs ==
  ASSUME NEW little \in BOOLEAN, ~Doubles, NEW pairs \in Maps(Value[Depth])
  PROVE  \E end : DocumentIn(serialize(pairs, little), pairs, little, end)
<1> DEFINE buff == serialize(pairs, little)
           ser == _serialize(little)
           P == UpTo(MaxKey, Byte) \X Value[Depth]
           flat == FlattenSeq(PairsBytes(pairs, ser, little))
           n == Len(pairs)
           w == write_to(n, 4, little)
           rest == w \o flat
           head == <<1, Endian(little)>>
           L == Len(buff)
<1>1. pairs \in Seq(P) /\ n <= MaxLength /\ n \in Nat
  <2>1. pairs \in Seq(P) /\ n <= MaxLength  BY MapIs
  <2>2. QED  BY <2>1
<1> HIDE DEF P
<1>2. PICK sf : SerializedAs(sf, little)  BY SerializeUnfold
<1>3. flat \in Seq(Byte)
  <2> DEFINE none == <<>>
  <2>1. none \in Seq(Byte) /\ Len(none) \in Nat  OBVIOUS
  <2> HIDE DEF none
  <2>2. PICK rf : ReadAs(none, rf, Same, little)  BY <2>1, ReadUnfold
  <2>3. AllBack(none, rf, Value[Depth], ser)  BY <1>2, <2>1, <2>2, ValuesBack
  <2>4. PairsBack(none, rf, pairs, ser)  BY <2>3, MapPairs
  <2>5. QED  BY <1>1, <2>4, PairsAre
<1>4. w \in Seq(Byte) /\ Len(w) = 4
  <2>1. 4 \in Nat  OBVIOUS
  <2>2. QED  BY <1>1, <2>1, Written
<1>5. head \in Seq(Byte) /\ Len(head) = 2 /\ head[1] = 1 /\ head[2] = Endian(little)
  <2>1. Endian(little) \in Byte /\ 1 \in Byte  BY DEF Endian, Byte
  <2> HIDE DEF Byte
  <2>2. QED  BY <2>1
<1>6. buff = head \o rest
  BY DEF serialize, serialize_map, PairsBytes, PairBytes
<1> HIDE DEF flat, w, n, head
<1>7. rest \in Seq(Byte) /\ Len(rest) = 4 + Len(flat)
  <2>1. rest \in Seq(Byte) /\ Len(rest) = Len(w) + Len(flat)  BY <1>3, <1>4, Joined
  <2>2. QED  BY <1>4, <2>1
<1> HIDE DEF buff, rest
<1>8. /\ buff \in Seq(Byte) /\ Len(buff) = 2 + Len(rest)
      /\ \A k \in 1..2 : buff[k] = head[k]
      /\ \A k \in 1..Len(rest) : buff[2 + k] = rest[k]
  <2> DEFINE S == Byte
             b == head \o rest
             h == Len(head)
  <2>1. head \in Seq(S) /\ rest \in Seq(S)  BY <1>5, <1>7
  <2> HIDE DEF S
  <2>2. /\ b \in Seq(S) /\ Len(b) = h + Len(rest) /\ \A k \in 1..h : b[k] = head[k]
        /\ \A k \in 1..Len(rest) : b[h + k] = rest[k]
    BY <2>1, Joined
  <2>3. b = buff /\ h = 2  BY <1>5, <1>6
  <2> HIDE DEF b, h
  <2>4. QED  BY <2>2, <2>3 DEF S
<1>9. Len(rest) \in Nat /\ Len(flat) \in Nat  BY <1>3, <1>7
<1>10. Holds(buff, 2, rest)
  <2>1. 2 + Len(rest) <= Len(buff)  BY <1>8, <1>9
  <2>2. QED  BY <1>8, <2>1 DEF Holds
<1>11. Holds(buff, 2, w) /\ Holds(buff, 6, flat)
  <2>1. Len(buff) \in Nat /\ 2 \in Nat  BY <1>8
  <2>2. Holds(buff, 2, w) /\ Holds(buff, 2 + Len(w), flat)
    BY <1>3, <1>4, <1>10, <2>1, HoldsBoth DEF rest
  <2>3. 2 + Len(w) = 6  BY <1>4
  <2>4. QED  BY <2>2, <2>3
<1>12. Count(buff, little) = n
  <2>1. Sized(n, 4) /\ 4 \in Nat /\ 2 \in Nat  BY <1>1 DEF Sized
  <2>2. Holds(buff, 2, write_to(n, 4, little))  BY <1>11 DEF w
  <2>3. Number(read_to(buff, 2, 4, FALSE, little)) = n  BY <1>1, <1>8, <2>1, <2>2, LengthRead
  <2>4. QED  BY <2>3 DEF Count
<1>13. buff[1] = 1 /\ buff[2] = Endian(little)
  <2>1. 1 \in 1..2 /\ 2 \in 1..2  OBVIOUS
  <2>2. QED  BY <1>5, <1>8, <2>1
<1>14. Checked(buff, 2)
  <2>1. Len(buff) > 2 /\ buff[1] # 2  BY <1>7, <1>8, <1>9, <1>13
  <2>2. QED  BY <2>1 DEF Checked
<1>15. PICK rf : ReadAs(buff, rf, Same, little)
  <2>1. Len(buff) \in Nat  BY <1>8
  <2>2. QED  BY <2>1, ReadUnfold
<1>16. PICK end : PairsAt(buff, rf[Len(buff)], little, 6, pairs, Len(flat), end)
  <2>1. AllBack(buff, rf, Value[Depth], ser)  BY <1>2, <1>8, <1>15, ValuesBack
  <2>2. PairsBack(buff, rf, pairs, ser)  BY <2>1, MapPairs
  <2> DEFINE k == Len(buff)
  <2>3. k \in 0..Len(buff) /\ k + 6 >= Len(buff) /\ 6 \in Nat
    <3>1. k \in Nat  BY <1>8
    <3>2. QED  BY <3>1
  <2>4. Holds(buff, 6, FlattenSeq(PairsBytes(pairs, ser, little)))  BY <1>11 DEF flat
  <2> HIDE DEF k, ser
  <2>5. \E end : PairsAt(buff, rf[k], little, 6, pairs,
                         Len(FlattenSeq(PairsBytes(pairs, ser, little))), end)
    BY <1>1, <1>8, <2>2, <2>3, <2>4, PairsWalk
  <2>6. QED  BY <2>5 DEF flat, k, ser
<1>17. _deserialize(buff, Same, little) = rf[Len(buff)]  BY <1>15 DEF ReadAs
<1>18. DocumentIn(buff, pairs, little, end)
  BY <1>8, <1>12, <1>13, <1>14, <1>16, <1>17 DEF DocumentIn, n
<1>19. QED  BY <1>18 DEF buff

\* A map that was serialized comes back (lib/readme.md:101).
LEMMA DocumentRead ==
  ASSUME NEW little \in BOOLEAN, ~Doubles, NEW pairs \in Maps(Value[Depth])
  PROVE  /\ deserialize(serialize(pairs, little), little).status = "ok"
         /\ deserialize(serialize(pairs, little), little).value = pairs
<1> DEFINE buff == serialize(pairs, little)
           reverse == buff[2] # Endian(little)
           P == UpTo(MaxKey, Byte) \X Value[Depth]
<1>1. PICK end : DocumentIn(buff, pairs, little, end)  BY DocumentIs
<1> HIDE DEF buff
<1>2. PICK size : PairsAt(buff, _deserialize(buff, Same, little), little, 6, pairs, size, end)
  BY <1>1 DEF DocumentIn
<1>3. /\ buff \in Seq(Byte) /\ Checked(buff, 2) /\ reverse = Same
      /\ Count(buff, little) = Len(pairs)
  BY <1>1 DEF DocumentIn, Same
<1>4. pairs \in Seq(P) /\ OnceEach(pairs) /\ Paired(pairs)  BY MapIs
<1> HIDE DEF P
<1> DEFINE read == _deserialize(buff, Same, little)
           r == deserialize_map(buff, 6, Count(buff, little), _deserialize(buff, reverse, little),
                                reverse, little)
<1>5. deserialize(buff, little) = IF ~Checked(buff, 2) THEN Failed("none") ELSE r
  BY Zenon DEF deserialize
<1> HIDE DEF reverse
<1>6. r = deserialize_map(buff, 6, Len(pairs), read, Same, little)
  BY <1>3
<1>7. 6 \in Nat  OBVIOUS
<1> HIDE DEF read, r
<1>8. deserialize_map(buff, 6, Len(pairs), read, Same, little) = Result("ok", pairs, 6 + size)
  BY <1>2, <1>3, <1>4, <1>7, MapRead DEF read
<1>9. deserialize(buff, little) = Result("ok", pairs, 6 + size)
  BY <1>3, <1>5, <1>6, <1>8
<1>10. QED  BY <1>9 DEF buff, Result

-----------------------------------------------------------------------------
(* Reading with a schema.                                                  *)

\* What is said of a key, whose validator rejects some of R (Schema,
\* lib/asf.hpp:130).
Field(R) == [type : Names \cup {"AnyT"}, optional : BOOLEAN, rejects : SUBSET R, found : BOOLEAN]

\* The schemas with the keys D.
Schema(D, R) == [fields : [D -> Field(R)], allow_undefined : BOOLEAN]

\* Two schemas are alike but for the marks in them.
Alike(s, t, D) ==
  /\ s.allow_undefined = t.allow_undefined
  /\ \A k \in D : /\ s.fields[k].type = t.fields[k].type
                  /\ s.fields[k].optional = t.fields[k].optional
                  /\ s.fields[k].rejects = t.fields[k].rejects

\* A mark is set and nothing else.
LEMMA MarkedIs ==
  ASSUME NEW D, NEW R, NEW s \in Schema(D, R), NEW k \in D
  PROVE  /\ Marked(s, k) \in Schema(D, R) /\ Alike(Marked(s, k), s, D)
         /\ \A j \in D : Marked(s, k).fields[j].found = (j = k \/ s.fields[j].found)
<1> DEFINE F == Field(R)
           fs == s.fields
           fk == [fs[k] EXCEPT !.found = TRUE]
           gs == [fs EXCEPT ![k] = fk]
           m == [s EXCEPT !.fields = gs]
<1>1. fs \in [D -> F] /\ s.allow_undefined \in BOOLEAN  BY DEF Schema
<1>2. Marked(s, k) = m  BY <1>1 DEF Marked, Schema
<1>3. fs[k] \in F  BY <1>1
<1>4. /\ fk \in F /\ fk.found = TRUE /\ fk.type = fs[k].type
      /\ fk.optional = fs[k].optional /\ fk.rejects = fs[k].rejects
  BY <1>3 DEF Field
<1> HIDE DEF F, fk
<1>5. gs \in [D -> F] /\ gs[k] = fk /\ \A j \in D : j # k => gs[j] = fs[j]
  BY <1>1, <1>4
<1>6. m \in Schema(D, R) /\ m.fields = gs /\ m.allow_undefined = s.allow_undefined
  <2> HIDE DEF gs
  <2>1. QED  BY <1>5 DEF Schema, F
<1> HIDE DEF m, gs
<1>7. Alike(m, s, D)
  <2>1. ASSUME NEW j \in D
        PROVE  gs[j].type = fs[j].type /\ gs[j].optional = fs[j].optional
               /\ gs[j].rejects = fs[j].rejects
    <3>1. CASE j = k  BY <1>4, <1>5, <3>1
    <3>2. CASE j # k  BY <1>5, <3>2
    <3>3. QED  BY <3>1, <3>2
  <2>2. QED  BY <1>6, <2>1 DEF Alike
<1>8. \A j \in D : m.fields[j].found = (j = k \/ s.fields[j].found)
  <2> TAKE j \in D
  <2>1. fs[j].found \in BOOLEAN  BY <1>1 DEF F, Field
  <2>2. CASE j = k  BY <1>4, <1>5, <1>6, <2>2
  <2>3. CASE j # k
    <3>1. gs[j].found = fs[j].found  BY <1>5, <2>3
    <3>2. QED  BY <1>6, <2>1, <2>3, <3>1
  <2>4. QED  BY <2>2, <2>3
<1>9. QED  BY <1>2, <1>6, <1>7, <1>8

\* A schema takes a pair.
Takes(s, pair) ==
  /\ pair[1] \in DOMAIN s.fields
  /\ s.fields[pair[1]].type \in {"AnyT", pair[2].type}
  /\ pair[2] \notin s.fields[pair[1]].rejects

\* What a reader makes of it.
TakenBy(r, s, pair, a, next) ==
  IF Takes(s, pair)
  THEN r = With(Result("ok", Emplace(a, pair[1], pair[2]), next), Marked(s, pair[1]))
  ELSE /\ r.status = "none"
       /\ r.schema = s \/ (pair[1] \in DOMAIN s.fields /\ r.schema = Marked(s, pair[1]))

\* A pair is taken if the schema takes it, and refused otherwise.
LEMMA OneField ==
  ASSUME NEW buff, NEW read, NEW little, NEW e, NEW pair, NEW next, NEW a,
         PairHere(buff, read, little, e, pair, next),
         NEW D, NEW R, NEW s \in Schema(D, R), s.allow_undefined => pair[1] \in D,
         pair[2].type \in Names
  PROVE  TakenBy(FieldStep(buff, read, Same, little, With(Result("ok", a, e), s)),
                 s, pair, a, next)
<1> DEFINE b == With(Result("ok", a, e), s)
           key == ReadKey(buff, e, Same, little)
           x == e + 2 + Len(key)
           r == read[x]
           marked == Marked(s, key)
           field == s.fields[key]
           all == FieldStep(buff, read, Same, little, b)
<1>1. b.status = "ok" /\ b.value = a /\ b.size = e /\ b.schema = s  BY DEF Result, With
<1>2. key = pair[1]  BY Zenon DEF PairHere
<1>3. r = read[e + 2 + Len(pair[1])] /\ x = e + 2 + Len(pair[1])  BY <1>2, Zenon
<1>4. /\ ~(e + 2 > Len(buff)) /\ ~(x >= Len(buff)) /\ r.status = "ok" /\ r.value = pair[2]
      /\ x + 5 + r.size = next /\ buff[x + 1] = index(pair[2].type)
  BY <1>3, Zenon DEF PairHere
<1> HIDE DEF b
<1>5. all = IF b.status # "ok" THEN b
            ELSE IF e + 2 > Len(buff) THEN With(Failed("beyond"), s)
            ELSE IF key \notin DOMAIN s.fields
            THEN With(Failed(IF s.allow_undefined THEN "dead" ELSE "none"), s)
            ELSE IF x >= Len(buff) THEN With(Failed("beyond"), marked)
            ELSE IF field.type # "AnyT" /\ index(field.type) # buff[x + 1]
            THEN With(Failed("none"), marked)
            ELSE IF r.status # "ok" THEN With(r, marked)
            ELSE IF r.value \in field.rejects THEN With(Failed("none"), marked)
            ELSE With(Result("ok", Emplace(b.value, key, r.value), x + 5 + r.size), marked)
  BY <1>1, Zenon DEF FieldStep
<1> HIDE DEF key, x, r, marked, all
<1>6. all = IF key \notin DOMAIN s.fields
            THEN With(Failed(IF s.allow_undefined THEN "dead" ELSE "none"), s)
            ELSE IF field.type # "AnyT" /\ index(field.type) # index(pair[2].type)
            THEN With(Failed("none"), marked)
            ELSE IF pair[2] \in field.rejects THEN With(Failed("none"), marked)
            ELSE With(Result("ok", Emplace(a, pair[1], pair[2]), next), marked)
  BY <1>1, <1>2, <1>4, <1>5, Zenon
<1>7. DOMAIN s.fields = D  BY DEF Schema
<1>8. key \in D => (field.type \in Names \cup {"AnyT"})  BY DEF Schema, Field
<1> DEFINE refused == With(Failed("none"), marked)
           gone == With(Failed("none"), s)
           kept == With(Result("ok", Emplace(a, pair[1], pair[2]), next), marked)
<1>9. /\ refused.status = "none" /\ refused.schema = marked
      /\ gone.status = "none" /\ gone.schema = s
  BY DEF With, Failed, Result
<1>10. marked = Marked(s, pair[1])  BY <1>2 DEF marked
<1>11. CASE key \notin D
  <2>1. ~s.allow_undefined  BY <1>2, <1>11
  <2>2. all = gone  BY <1>6, <1>7, <1>11, <2>1, Zenon
  <2>3. ~Takes(s, pair)  BY <1>2, <1>7, <1>11 DEF Takes
  <2> HIDE DEF gone
  <2>4. TakenBy(all, s, pair, a, next)  BY <1>9, <2>2, <2>3, Zenon DEF TakenBy
  <2>5. QED  BY <2>4 DEF all, b
<1>12. CASE key \in D
  <2> DEFINE wrong == field.type # "AnyT" /\ index(field.type) # index(pair[2].type)
  <2>1. wrong <=> ~(field.type \in {"AnyT", pair[2].type})
    <3> DEFINE t == field.type
               u == pair[2].type
    <3>1. t \in Names \cup {"AnyT"} /\ u \in Names  BY <1>8, <1>12
    <3> HIDE DEF t, u
    <3>2. t \in Names /\ index(t) = index(u) => t = u
      <4> SUFFICES ASSUME t \in Names, index(t) = index(u) PROVE t = u  OBVIOUS
      <4>1. TypeNames[index(t) + 1] = t /\ TypeNames[index(u) + 1] = u  BY <3>1, IndexIs
      <4>2. QED  BY <4>1
    <3>3. QED  BY <3>1, <3>2 DEF t, u
  <2> DEFINE bad == pair[2] \in field.rejects
  <2>2. Takes(s, pair) <=> ~wrong /\ ~bad
    <3> HIDE DEF wrong
    <3>1. QED  BY <1>2, <1>7, <1>12, <2>1 DEF Takes
  <2>3. all = IF wrong THEN refused ELSE IF bad THEN refused ELSE kept
    BY <1>6, <1>7, <1>12, Zenon
  <2> HIDE DEF wrong, bad, refused, kept
  <2>4. CASE wrong \/ bad
    <3>1. all = refused /\ ~Takes(s, pair)  BY <2>2, <2>3, <2>4
    <3>2. pair[1] \in DOMAIN s.fields  BY <1>2, <1>7, <1>12
    <3>3. TakenBy(all, s, pair, a, next)  BY <1>9, <1>10, <3>1, <3>2, Zenon DEF TakenBy
    <3>4. QED  BY <3>3 DEF all, b
  <2>5. CASE ~wrong /\ ~bad
    <3>1. all = kept /\ Takes(s, pair)  BY <2>2, <2>3, <2>5
    <3>2. TakenBy(all, s, pair, a, next)  BY <1>10, <3>1, Zenon DEF TakenBy, kept
    <3>3. QED  BY <3>2 DEF all, b
  <2>6. QED  BY <2>4, <2>5
<1>13. QED  BY <1>11, <1>12

\* The first i of pairs fit a schema.
Fit(s, pairs, i) == \A j \in 1..i : Takes(s, pairs[j])

\* Is k a key of the first i pairs?
Among(k, pairs, i) == \E j \in 1..i : pairs[j][1] = k

\* What a reader with schema first is after i of pairs, up to e.
FieldsRead(r, first, pairs, i, e, D, R) ==
  /\ r.schema \in Schema(D, R) /\ Alike(r.schema, first, D)
  /\ IF Fit(first, pairs, i)
     THEN /\ r = With(Result("ok", SubSeq(pairs, 1, i), e), r.schema)
          /\ \A k \in D : r.schema.fields[k].found = Among(k, pairs, i)
     ELSE r.status = "none"

\* Schemas that are alike take the same pairs.
LEMMA AlikeTake ==
  ASSUME NEW D, NEW R, NEW s \in Schema(D, R), NEW t \in Schema(D, R), Alike(s, t, D), NEW pair
  PROVE  Takes(s, pair) <=> Takes(t, pair)
<1>1. DOMAIN s.fields = D /\ DOMAIN t.fields = D  BY DEF Schema
<1>2. QED  BY <1>1 DEF Takes, Alike

\* One pair more.
LEMMA FieldsStep ==
  ASSUME NEW buff, NEW read, NEW little, NEW P, NEW pairs \in Seq(P), OnceEach(pairs),
         Paired(pairs), NEW i \in 0..Len(pairs) - 1, NEW e, NEW next,
         PairHere(buff, read, little, e, pairs[i + 1], next),
         NEW D, NEW R, NEW first \in Schema(D, R),
         first.allow_undefined => pairs[i + 1][1] \in D,
         pairs[i + 1][2].type \in Names,
         NEW r, FieldsRead(r, first, pairs, i, e, D, R)
  PROVE  FieldsRead(FieldStep(buff, read, Same, little, r), first, pairs, i + 1, next, D, R)
<1> DEFINE j == i + 1
           pair == pairs[j]
           a == SubSeq(pairs, 1, i)
           s == r.schema
           q == FieldStep(buff, read, Same, little, r)
<1>1. i \in Nat /\ j \in 1..Len(pairs) /\ 1..j = 1..i \cup {j} /\ DOMAIN pairs = 1..Len(pairs)
  OBVIOUS
<1>2. s \in Schema(D, R) /\ Alike(s, first, D)  BY DEF FieldsRead
<1>3. Emplace(a, pair[1], pair[2]) = SubSeq(pairs, 1, j)
  <2>1. pairs[j] = <<pairs[j][1], pairs[j][2]>>
    <3> HIDE DEF j
    <3>1. QED  BY <1>1 DEF Paired
  <2>2. QED  BY <2>1, OneMore
<1>4. PairHere(buff, read, little, e, pair, next)  OBVIOUS
<1>5. (first.allow_undefined => pair[1] \in D) /\ pair[2].type \in Names  OBVIOUS
<1> HIDE DEF j
<1>6. Fit(first, pairs, j) <=> Fit(first, pairs, i) /\ Takes(first, pair)
  BY <1>1 DEF Fit
<1> HIDE DEF a, s, pair
<1>7. CASE ~Fit(first, pairs, i)
  <2>1. r.status # "ok"
    <3>1. r.status = "none"  BY <1>7 DEF FieldsRead
    <3>2. QED  BY <3>1
  <2>2. q = r  BY <2>1, Zenon DEF FieldStep
  <2>3. ~Fit(first, pairs, j) /\ r.status = "none"  BY <1>6, <1>7 DEF FieldsRead
  <2> HIDE DEF q
  <2>4. FieldsRead(q, first, pairs, j, next, D, R)
    <3>1. q.schema \in Schema(D, R) /\ Alike(q.schema, first, D) /\ q.status = "none"
      BY <1>2, <2>2, <2>3 DEF s
    <3>2. QED  BY <2>3, <3>1, Zenon DEF FieldsRead
  <2>5. QED  BY <2>4 DEF q, j
<1>8. CASE Fit(first, pairs, i)
  <2>1. /\ r = With(Result("ok", a, e), s)
        /\ \A k \in D : s.fields[k].found = Among(k, pairs, i)
    BY <1>8, Zenon DEF FieldsRead, a, s
  <2>2. s.allow_undefined => pair[1] \in D  BY <1>2, <1>5 DEF Alike
  <2>3. TakenBy(q, s, pair, a, next)
    <3>1. TakenBy(FieldStep(buff, read, Same, little, With(Result("ok", a, e), s)),
                  s, pair, a, next)
      BY <1>2, <1>4, <1>5, <2>2, OneField
    <3>2. QED  BY <2>1, <3>1
  <2>4. Takes(s, pair) <=> Takes(first, pair)  BY <1>2, AlikeTake
  <2> HIDE DEF q
  <2>5. DOMAIN s.fields = D  BY <1>2 DEF Schema
  <2> DEFINE m == Marked(s, pair[1])
  <2>6. pair[1] \in D =>
          /\ m \in Schema(D, R) /\ Alike(m, first, D)
          /\ \A k \in D : m.fields[k].found = (k = pair[1] \/ s.fields[k].found)
    <3> SUFFICES ASSUME pair[1] \in D
                 PROVE  /\ m \in Schema(D, R) /\ Alike(m, first, D)
                        /\ \A k \in D : m.fields[k].found = (k = pair[1] \/ s.fields[k].found)
      OBVIOUS
    <3> DEFINE c == pair[1]
    <3>1. c \in D  OBVIOUS
    <3> HIDE DEF c
    <3>2. /\ Marked(s, c) \in Schema(D, R) /\ Alike(Marked(s, c), s, D)
          /\ \A k \in D : Marked(s, c).fields[k].found = (k = c \/ s.fields[k].found)
      BY <1>2, <3>1, MarkedIs
    <3>3. Alike(Marked(s, c), first, D)  BY <1>2, <3>2 DEF Alike
    <3>4. QED  BY <3>2, <3>3 DEF c
  <2> HIDE DEF m
  <2>7. CASE Takes(s, pair)
    <3>1. q = With(Result("ok", Emplace(a, pair[1], pair[2]), next), m)
      BY <2>3, <2>7, Zenon DEF TakenBy, m
    <3>2. q.schema = m  BY <3>1 DEF With
    <3>3. pair[1] \in D  BY <2>5, <2>7 DEF Takes
    <3>4. Fit(first, pairs, j)  BY <1>6, <1>8, <2>4, <2>7
    <3>5. \A k \in D : m.fields[k].found = Among(k, pairs, j)
      <4> TAKE k \in D
      <4>1. m.fields[k].found = (k = pair[1] \/ s.fields[k].found)  BY <2>6, <3>3
      <4>2. s.fields[k].found = Among(k, pairs, i)  BY <2>1
      <4>3. Among(k, pairs, j) <=> k = pair[1] \/ Among(k, pairs, i)  BY <1>1 DEF Among, pair
      <4>4. (k = pair[1] \/ s.fields[k].found) <=> Among(k, pairs, j)  BY <4>2, <4>3
      <4> HIDE DEF j
      <4>5. Among(k, pairs, j) \in BOOLEAN  BY DEF Among
      <4>6. QED  BY <4>1, <4>4, <4>5
    <3>6. q = With(Result("ok", SubSeq(pairs, 1, j), next), q.schema)
      BY <1>3, <3>1, <3>2, Zenon
    <3>7. FieldsRead(q, first, pairs, j, next, D, R)
      <4>1. q.schema \in Schema(D, R) /\ Alike(q.schema, first, D)  BY <2>6, <3>2, <3>3
      <4>2. \A k \in D : q.schema.fields[k].found = Among(k, pairs, j)  BY <3>2, <3>5
      <4>3. QED  BY <3>4, <3>6, <4>1, <4>2, Zenon DEF FieldsRead
    <3>8. QED  BY <3>7 DEF q, j
  <2>8. CASE ~Takes(s, pair)
    <3>1. /\ q.status = "none"
          /\ q.schema = s \/ (pair[1] \in DOMAIN s.fields /\ q.schema = m)
      BY <2>3, <2>8, Zenon DEF TakenBy, m
    <3>2. ~Fit(first, pairs, j)  BY <1>6, <2>4, <2>8
    <3>3. q.schema \in Schema(D, R) /\ Alike(q.schema, first, D)
      BY <1>2, <2>5, <2>6, <3>1
    <3>4. FieldsRead(q, first, pairs, j, next, D, R)
      BY <3>1, <3>2, <3>3, Zenon DEF FieldsRead
    <3>5. QED  BY <3>4 DEF q, j
  <2>9. QED  BY <2>7, <2>8
<1>9. QED  BY <1>7, <1>8

\* The values of a map have types.
LEMMA ValueTyped ==
  ASSUME NEW d \in 0..Depth, NEW v \in Value[d]
  PROVE  v.type \in Names
<1>1. v.type \in NumberNames \cup {"StringT", "ArrayT", "MapT"}
  <2>1. v \in Numbers => v.type \in NumberNames  BY NumberIs
  <2>2. QED  BY <2>1, ValueIs
<1>2. NumberNames \cup {"StringT", "ArrayT", "MapT"} \subseteq Names
  <2>1. DOMAIN TypeNames = 1..12  BY DEF TypeNames
  <2>2. NumberNames \cup {"StringT", "ArrayT", "MapT"}
          \subseteq {TypeNames[1], TypeNames[2], TypeNames[3], TypeNames[4], TypeNames[5],
                     TypeNames[6], TypeNames[7], TypeNames[8], TypeNames[9], TypeNames[10],
                     TypeNames[11], TypeNames[12]}
    BY DEF NumberNames, TypeNames
  <2>3. QED  BY <2>1, <2>2 DEF Names
<1>3. QED  BY <1>1, <1>2

\* A schema that allows keys of its own does not meet one.
KeysKnown(s, pairs, D) == s.allow_undefined => \A i \in 1..Len(pairs) : pairs[i][1] \in D

\* No key was found yet.
Unmarked(s, D) == \A k \in D : s.fields[k].found = FALSE

\* Every value has a type that has a name.
TypedPairs(pairs) == \A i \in 1..Len(pairs) : pairs[i][2].type \in Names

\* What deserialize_fields comes to before it looks for what is missing.
LEMMA FieldsAll ==
  ASSUME NEW buff \in Seq(Byte), NEW read, NEW little, NEW off \in Nat, NEW P,
         NEW pairs \in Seq(P), OnceEach(pairs), Paired(pairs), NEW size, NEW end,
         PairsAt(buff, read, little, off, pairs, size, end),
         NEW D, NEW R, NEW first \in Schema(D, R), KeysKnown(first, pairs, D),
         Unmarked(first, D), TypedPairs(pairs)
  PROVE  \E r : /\ deserialize_fields(buff, off, Len(pairs), read, first, Same, little) = Ended(r)
                /\ FieldsRead(r, first, pairs, Len(pairs), off + size, D, R)
<1> DEFINE n == Len(pairs)
<1>1. n \in Nat /\ Len(buff) \in Nat /\ DOMAIN pairs = 1..n  OBVIOUS
<1>2. /\ end[0] = off /\ end[n] = off + size /\ Tries(buff, n) = n
      /\ \A i \in 1..n : PairHere(buff, read, little, end[i - 1], pairs[i], end[i])
  BY DEF PairsAt
<1>3. PICK f : FieldsAs(buff, off, n, f, read, first, Same, little)
  BY <1>1, FieldsUnfold
<1>4. /\ deserialize_fields(buff, off, n, read, first, Same, little) = Ended(f[n])
      /\ f[0] = With(Result("ok", <<>>, off), first)
      /\ \A i \in 1..n : f[i] = FieldStep(buff, read, Same, little, f[i - 1])
  BY <1>2, <1>3, Zenon DEF FieldsAs
<1> DEFINE Q(i) == FieldsRead(f[i], first, pairs, i, end[i], D, R)
           T == {i \in Nat : i <= n => Q(i)}
<1>5. 0 \in T
  <2> DEFINE z == f[0]
  <2>1. SubSeq(pairs, 1, 0) = <<>>  BY PrefixIs
  <2>2. z = With(Result("ok", SubSeq(pairs, 1, 0), end[0]), first)  BY <1>2, <1>4, <2>1
  <2>3. z.schema = first  BY <2>2 DEF With
  <2>4. Fit(first, pairs, 0) /\ \A k \in D : ~Among(k, pairs, 0)  BY DEF Fit, Among
  <2>5. \A k \in D : first.fields[k].found = Among(k, pairs, 0)
    <3> TAKE k \in D
    <3>1. first.fields[k].found = FALSE /\ Among(k, pairs, 0) = FALSE
      BY <2>4 DEF Unmarked, Among
    <3>2. QED  BY <3>1
  <2>6. Alike(first, first, D)  BY DEF Alike
  <2> HIDE DEF z
  <2>7. FieldsRead(z, first, pairs, 0, end[0], D, R)
    BY <2>2, <2>3, <2>4, <2>5, <2>6, Zenon DEF FieldsRead
  <2>8. QED  BY <2>7 DEF z
<1>6. ASSUME NEW i \in Nat, i \in T  PROVE i + 1 \in T
  <2> SUFFICES ASSUME i + 1 <= n PROVE Q(i + 1)  OBVIOUS
  <2> DEFINE j == i + 1
             e == end[i]
             next == end[j]
             r == f[i]
  <2>1. j \in 1..n /\ i <= n /\ j - 1 = i /\ i \in 0..Len(pairs) - 1  BY <1>1
  <2>2. FieldsRead(r, first, pairs, i, e, D, R)  BY <1>6, <2>1
  <2>3. f[j] = FieldStep(buff, read, Same, little, r)
    <3> HIDE DEF j
    <3>1. QED  BY <1>4, <2>1
  <2>4. PairHere(buff, read, little, e, pairs[j], next)
    <3> HIDE DEF j
    <3>1. QED  BY <1>2, <2>1
  <2>5. (first.allow_undefined => pairs[j][1] \in D) /\ pairs[j][2].type \in Names
    <3> HIDE DEF j
    <3>1. QED  BY <2>1 DEF KeysKnown, TypedPairs
  <2> HIDE DEF r, e, next
  <2>6. FieldsRead(FieldStep(buff, read, Same, little, r), first, pairs, j, next, D, R)
    BY <2>1, <2>2, <2>4, <2>5, FieldsStep
  <2>7. QED  BY <2>3, <2>6 DEF next
<1>7. n \in T
  <2> HIDE DEF T
  <2>1. Nat \subseteq T  BY <1>5, <1>6, SetInduction
  <2>2. QED  BY <1>1, <2>1
<1>8. Q(n)
  <2> HIDE DEF Q
  <2>1. QED  BY <1>1, <1>7
<1>9. QED  BY <1>2, <1>4, <1>8

\* A map conforms to a schema if the schema takes its pairs and misses nothing.
LEMMA ConformsIs ==
  ASSUME NEW P, NEW pairs \in Seq(P), NEW D, NEW R, NEW s \in Schema(D, R), KeysKnown(s, pairs, D)
  PROVE  Conforms(pairs, s) <=>
           /\ Fit(s, pairs, Len(pairs))
           /\ \A k \in D : s.fields[k].optional \/ Among(k, pairs, Len(pairs))
<1> DEFINE n == Len(pairs)
           keys == {pairs[i][1] : i \in DOMAIN pairs}
           Known == s.allow_undefined \/ keys \subseteq DOMAIN s.fields
           There == \A k \in DOMAIN s.fields : s.fields[k].optional \/ k \in keys
           Right == \A i \in DOMAIN pairs :
                      pairs[i][1] \in DOMAIN s.fields =>
                        /\ s.fields[pairs[i][1]].type \in {"AnyT", pairs[i][2].type}
                        /\ pairs[i][2] \notin s.fields[pairs[i][1]].rejects
<1>1. DOMAIN s.fields = D /\ DOMAIN pairs = 1..n  BY DEF Schema
<1>2. Conforms(pairs, s) <=> Known /\ There /\ Right  BY Zenon DEF Conforms
<1>3. \A k : k \in keys <=> Among(k, pairs, n)  BY <1>1 DEF Among
<1>4. There <=> \A k \in D : s.fields[k].optional \/ Among(k, pairs, n)
  <2> HIDE DEF keys
  <2>1. QED  BY <1>1, <1>3, Zenon
<1>5. Known <=> \A i \in 1..n : pairs[i][1] \in D
  <2>1. keys \subseteq D <=> \A i \in 1..n : pairs[i][1] \in D  BY <1>1
  <2> HIDE DEF keys
  <2>2. QED  BY <1>1, <2>1 DEF KeysKnown, n
<1>6. Fit(s, pairs, n) <=> (\A i \in 1..n : pairs[i][1] \in D) /\ Right
  <2> HIDE DEF n
  <2>1. QED  BY <1>1, Zenon DEF Fit, Takes
<1> HIDE DEF Known, There, Right, n
<1>7. QED  BY <1>2, <1>4, <1>5, <1>6 DEF n

\* What a reader makes of a map with schema s.
Decided(r, pairs, s, D, R) ==
  /\ r.schema \in Schema(D, R) /\ Alike(r.schema, s, D)
  /\ IF Conforms(pairs, s) THEN r.status = "ok" /\ r.value = pairs ELSE r.status = "none"

\* The schema decides (lib/asf.cpp:377).
LEMMA SchemaRead ==
  ASSUME NEW little \in BOOLEAN, ~Doubles, NEW pairs \in Maps(Value[Depth]),
         NEW D, NEW R, NEW first \in Schema(D, R), KeysKnown(first, pairs, D),
         Unmarked(first, D)
  PROVE  Decided(deserialize_schema(serialize(pairs, little), first, little), pairs, first, D, R)
<1> DEFINE buff == serialize(pairs, little)
           reverse == buff[2] # Endian(little)
           n == Len(pairs)
           P == UpTo(MaxKey, Byte) \X Value[Depth]
<1>1. PICK end : DocumentIn(buff, pairs, little, end)  BY DocumentIs
<1> HIDE DEF buff
<1> DEFINE read == _deserialize(buff, Same, little)
<1>2. PICK size : PairsAt(buff, read, little, 6, pairs, size, end)
  BY <1>1 DEF DocumentIn
<1>3. buff \in Seq(Byte) /\ Checked(buff, 2) /\ reverse = Same /\ Count(buff, little) = n
  BY <1>1 DEF DocumentIn, Same
<1>4. /\ pairs \in Seq(P) /\ OnceEach(pairs) /\ Paired(pairs)
      /\ TypedPairs(pairs)
  <2>1. \A i \in 1..n : pairs[i][2] \in Value[Depth]  BY MapIs
  <2>2. Depth \in 0..Depth  BY DepthAssumption
  <2>3. \A i \in 1..n : pairs[i][2].type \in Names
    <3> TAKE i \in 1..n
    <3> DEFINE v == pairs[i][2]
    <3>1. v \in Value[Depth]  BY <2>1
    <3> HIDE DEF v
    <3>2. v.type \in Names  BY <2>2, <3>1, ValueTyped
    <3>3. QED  BY <3>2 DEF v
  <2>4. QED  BY <2>3, MapIs DEF TypedPairs
<1> HIDE DEF P
<1> DEFINE all == deserialize_fields(buff, 6, Count(buff, little),
                                     _deserialize(buff, reverse, little), first, reverse, little)
           result == deserialize_schema(buff, first, little)
<1>5. result = IF ~Checked(buff, 2) THEN With(Failed("none"), first) ELSE all
  BY Zenon DEF deserialize_schema
<1> HIDE DEF reverse, result
<1>6. all = deserialize_fields(buff, 6, n, read, first, Same, little)  BY <1>3
<1>7. 6 \in Nat  OBVIOUS
<1> HIDE DEF read, all
<1>8. PICK r : /\ deserialize_fields(buff, 6, n, read, first, Same, little) = Ended(r)
               /\ FieldsRead(r, first, pairs, n, 6 + size, D, R)
  BY <1>2, <1>3, <1>4, <1>7, FieldsAll
<1>9. result = Ended(r)  BY <1>3, <1>5, <1>6, <1>8
<1>10. r.schema \in Schema(D, R) /\ Alike(r.schema, first, D)  BY <1>8 DEF FieldsRead
<1>11. Conforms(pairs, first) <=>
         /\ Fit(first, pairs, n)
         /\ \A k \in D : first.fields[k].optional \/ Among(k, pairs, n)
  BY <1>4, ConformsIs
<1> DEFINE fs == r.schema.fields
           miss == Missing(fs)
           refused == With(Failed("none"), r.schema)
<1>12. DOMAIN fs = D  BY <1>10 DEF Schema
<1>13. refused.status = "none" /\ refused.schema = r.schema  BY DEF With, Failed, Result
<1> HIDE DEF n
<1>14. CASE Fit(first, pairs, n)
  <2>1. /\ r = With(Result("ok", SubSeq(pairs, 1, n), 6 + size), r.schema)
        /\ \A k \in D : fs[k].found = Among(k, pairs, n)
    BY <1>8, <1>14, Zenon DEF FieldsRead
  <2>2. r.status = "ok" /\ r.value = pairs
    <3>1. SubSeq(pairs, 1, n) = pairs  BY <1>4, PrefixIs DEF n
    <3> DEFINE sub == SubSeq(pairs, 1, n)
               x == 6 + size
               sch == r.schema
               w == With(Result("ok", sub, x), sch)
    <3> HIDE DEF sub, x, sch
    <3>2. w.status = "ok" /\ w.value = sub  BY DEF With, Result
    <3>3. r = w  BY <2>1 DEF sub, x, sch
    <3> HIDE DEF w
    <3>4. QED  BY <3>1, <3>2, <3>3 DEF sub
  <2>3. miss <=> ~ \A k \in D : first.fields[k].optional \/ Among(k, pairs, n)
    <3>1. \A k \in D : fs[k].optional = first.fields[k].optional  BY <1>10 DEF Alike
    <3>2. miss <=> \E k \in D : ~fs[k].optional /\ ~fs[k].found
      BY <1>12, Zenon DEF Missing
    <3>3. \A k \in D : (~fs[k].optional /\ ~fs[k].found)
                         <=> ~(first.fields[k].optional \/ Among(k, pairs, n))
      BY <2>1, <3>1
    <3>4. QED  BY <3>2, <3>3, Zenon
  <2> HIDE DEF miss, refused
  <2>4. Conforms(pairs, first) <=> ~miss  BY <1>11, <1>14, <2>3
  <2>5. Ended(r) = IF miss THEN refused ELSE r
    BY <2>2, Zenon DEF Ended, miss, refused
  <2>6. Decided(result, pairs, first, D, R)
    <3>1. CASE miss
      <4>1. result = refused  BY <1>9, <2>5, <3>1
      <4>2. QED  BY <1>10, <1>13, <2>4, <3>1, <4>1, Zenon DEF Decided
    <3>2. CASE ~miss
      <4>1. result = r  BY <1>9, <2>5, <3>2
      <4>2. QED  BY <1>10, <2>2, <2>4, <3>2, <4>1, Zenon DEF Decided
    <3>3. QED  BY <3>1, <3>2
  <2>7. QED  BY <2>6 DEF result, buff
<1>15. CASE ~Fit(first, pairs, n)
  <2>1. r.status = "none"  BY <1>8, <1>15, Zenon DEF FieldsRead
  <2>2. r.status # "ok"  BY <2>1
  <2>3. result = r  BY <1>9, <2>2, Zenon DEF Ended
  <2>4. ~Conforms(pairs, first)  BY <1>11, <1>15
  <2>5. Decided(result, pairs, first, D, R)
    BY <1>10, <2>1, <2>3, <2>4, Zenon DEF Decided
  <2>6. QED  BY <2>5 DEF result, buff
<1>16. QED  BY <1>14, <1>15

-----------------------------------------------------------------------------
(* What the theorems ask of the texts, scripts, options, maps and schemas. *)

\* Texts are made of characters.
TextsAre == \E Ch : Characters(Ch) /\ Lines \subseteq Seq(Ch)

\* Scripts are made of characters, and no command of a script is empty.
ScriptsAre ==
  \E Ch : /\ Characters(Ch)
          /\ \A script \in Scripts :
               /\ script \in Seq(Seq(Seq(Ch)))
               /\ \A i \in 1..Len(script) : Len(script[i]) >= 1

\* Options are in the form their flag takes, and memory is zero.
OptionsAre == (\A settings \in Settings : ProperSettings(settings)) /\ Memory \subseteq {{}}

\* Maps are written and read by machines of one kind and have no doubles.
MapsAre == Writer = Reader /\ ~Doubles /\ Documents \subseteq Maps(Value[Depth])

\* A schema is not used again, and one that allows keys it does not have meets
\* none.
SchemaFits(s) ==
  \E D, R : s \in Schema(D, R) /\ \A pairs \in Documents : KeysKnown(s, pairs, D)

\* The schemas are such, each is used once, and the maps are as above.
SchemasAre == MapsAre /\ ~Reused /\ \A s \in Schemas : SchemaFits(s)

-----------------------------------------------------------------------------
(* The invariant: what the bytes are, and what is taken from them.         *)

\* The bytes are what the writer wrote for what is given.
WrittenAs ==
  /\ given.kind = "line" => given.is \in Lines /\ bytes = given.is
  /\ given.kind = "script" =>
       given.is \in Scripts /\ \E always \in BOOLEAN : bytes = Spelling(given.is, always)
  /\ given.kind = "options" => given.is \in Settings /\ bytes = LineOf(given.is)
  /\ given.kind = "map" => given.is \in Documents /\ bytes = serialize(given.is, Writer)

\* What was taken is what the reader makes of the bytes.
TakenAs ==
  taken # Unread =>
    /\ given.kind \in {"line", "script"} => taken.value = parse(bytes)
    /\ given.kind = "options" =>
         \E memory \in Memory :
           LET result == parse_flags(bytes)
           IN  IF result.ok THEN taken.value = SockOpt(result.data, memory)
               ELSE taken.status = "none"

\* The inductive invariant.
FInv == WrittenAs /\ TakenAs

\* It holds in the beginning.
LEMMA FInvInit == Init => FInv
<1> SUFFICES ASSUME Init PROVE FInv  OBVIOUS
<1>1. given.kind = "nothing" /\ taken = Unread  BY DEF Init, Nothing
<1>2. QED  BY <1>1 DEF FInv, WrittenAs, TakenAs

\* Who writes, writes what is given.
LEMMA WriteStep == ASSUME Write PROVE WrittenAs' /\ TakenAs'
<1>1. taken' = Unread  BY DEF Write
<1>2. TakenAs'  BY <1>1 DEF TakenAs
<1>3. CASE \E line \in Lines : TypeLine(line)
  <2>1. PICK line \in Lines : TypeLine(line)  BY <1>3
  <2>2. given'.kind = "line" /\ given'.is = line /\ bytes' = line  BY <2>1 DEF TypeLine
  <2>3. QED  BY <1>2, <2>2 DEF WrittenAs
<1>4. CASE \E script \in Scripts, always \in BOOLEAN : TypeScript(script, always)
  <2>1. PICK script \in Scripts, always \in BOOLEAN : TypeScript(script, always)  BY <1>4
  <2>2. given'.kind = "script" /\ given'.is = script /\ bytes' = Spelling(script, always)
    BY <2>1 DEF TypeScript
  <2>3. QED  BY <1>2, <2>2 DEF WrittenAs
<1>5. CASE \E pairs \in Documents : Serialize(pairs)
  <2>1. PICK pairs \in Documents : Serialize(pairs)  BY <1>5
  <2>2. given'.kind = "map" /\ given'.is = pairs /\ bytes' = serialize(pairs, Writer)
    BY <2>1 DEF Serialize
  <2>3. QED  BY <1>2, <2>2 DEF WrittenAs
<1>6. CASE \E v \in Values : SerializeValue(v)
  <2>1. PICK v \in Values : SerializeValue(v)  BY <1>6
  <2>2. given'.kind = "value"  BY <2>1 DEF SerializeValue
  <2>3. QED  BY <1>2, <2>2 DEF WrittenAs
<1>7. CASE \E settings \in Settings : StartServer(settings)
  <2>1. PICK settings \in Settings : StartServer(settings)  BY <1>7
  <2>2. given'.kind = "options" /\ given'.is = settings /\ bytes' = LineOf(settings)
    BY <2>1 DEF StartServer, LineOf
  <2>3. QED  BY <1>2, <2>2 DEF WrittenAs
<1>8. QED  BY <1>3, <1>4, <1>5, <1>6, <1>7 DEF Write

\* Who reads, changes nothing of it.
LEMMA FInvStep == ASSUME FInv, [Next]_vars PROVE FInv'
<1>1. WrittenAs /\ TakenAs  BY DEF FInv
<1>2. CASE Write  BY <1>2, WriteStep DEF FInv
<1>3. CASE Parse
  <2>1. UNCHANGED <<given, bytes>> /\ taken'.value = parse(bytes)
        /\ given.kind \in {"line", "script"}
    BY <1>3 DEF Parse, ToRead
  <2>2. QED  BY <1>1, <2>1 DEF FInv, WrittenAs, TakenAs
<1>4. CASE ParseOptions
  <2> DEFINE result == parse_flags(bytes)
  <2>1. UNCHANGED <<given, bytes>> /\ given.kind = "options"
    BY <1>4 DEF ParseOptions, ToRead
  <2>2. PICK memory \in Memory :
          taken' = IF result.ok THEN [status |-> "ok", value |-> SockOpt(result.data, memory)]
                   ELSE [status |-> "none", value |-> <<>>]
    BY <1>4, Zenon DEF ParseOptions
  <2>3. IF result.ok THEN taken'.value = SockOpt(result.data, memory)
        ELSE taken'.status = "none"
    <3> HIDE DEF result
    <3>1. QED  BY <2>2
  <2>4. WrittenAs'  BY <1>1, <2>1 DEF WrittenAs
  <2>5. TakenAs'  BY <2>1, <2>3 DEF TakenAs
  <2>6. QED  BY <2>4, <2>5 DEF FInv
<1>5. CASE Deserialize \/ DeserializeValue \/ DeserializeSchema
  <2>1. UNCHANGED <<given, bytes>> /\ given.kind \in {"map", "value"}
    BY <1>5 DEF Deserialize, DeserializeValue, DeserializeSchema, ToRead
  <2>2. QED  BY <1>1, <2>1 DEF FInv, WrittenAs, TakenAs
<1>6. CASE Discard
  <2>1. given' = Nothing  BY <1>6 DEF Discard
  <2>2. given'.kind = "nothing"  BY <2>1 DEF Nothing
  <2>3. QED  BY <2>2 DEF FInv, WrittenAs, TakenAs
<1>7. CASE UNCHANGED vars
  <2>1. QED  BY <1>1, <1>7 DEF vars, FInv, WrittenAs, TakenAs
<1>8. QED  BY <1>2, <1>3, <1>4, <1>5, <1>6, <1>7 DEF Next

\* What is read is what was written, whatever is written after what.
THEOREM FormatsInvariant == Spec => []FInv
BY FInvInit, FInvStep, PTL DEF Spec

-----------------------------------------------------------------------------
(* Texts and options.                                                      *)

\* The property of lines follows from the invariant.
LEMMA LinesFollow == ASSUME TextsAre, FInv PROVE LinesAreCommands
<1> DEFINE text == given.is
           merged == Merged(text)
           lines == Pieces(merged, {Newline})
           commands == IF Unfinished(merged) THEN <<>>
                       ELSE [i \in DOMAIN lines |-> Pieces(lines[i], Blanks)]
<1> SUFFICES ASSUME given.kind = "line", taken # Unread, NoQuotes(text)
             PROVE  taken.value = commands
  BY Zenon DEF LinesAreCommands
<1>1. PICK Ch : Characters(Ch) /\ Lines \subseteq Seq(Ch)  BY DEF TextsAre
<1>2. text \in Seq(Ch) /\ bytes = text  BY <1>1 DEF FInv, WrittenAs
<1>3. taken.value = parse(text)  BY <1>2 DEF FInv, TakenAs
<1> HIDE DEF text
<1>4. parse(text) = commands  BY <1>1, <1>2, LinesRead
<1>5. QED  BY <1>3, <1>4

\* What becomes of the lines of every text without quotes: each that does not go
\* on behind a blank is the command of its words, and a text that ends with the
\* end of a line is nothing (LinesAreCommands; parse, aci/aci.cpp:1046).
THEOREM LinesCorrect == ASSUME TextsAre PROVE Spec => []LinesAreCommands
<1>1. FInv => LinesAreCommands  BY LinesFollow
<1>2. QED  BY <1>1, FormatsInvariant, PTL

\* The property of scripts follows from it.
LEMMA ScriptsFollow == ASSUME ScriptsAre, FInv PROVE ScriptsComeBack
<1> DEFINE script == given.is
<1> SUFFICES ASSUME given.kind = "script", taken # Unread PROVE taken.value = script
  BY DEF ScriptsComeBack
<1>1. PICK Ch : /\ Characters(Ch)
                /\ \A s \in Scripts : /\ s \in Seq(Seq(Seq(Ch)))
                                      /\ \A i \in 1..Len(s) : Len(s[i]) >= 1
  BY DEF ScriptsAre
<1>2. script \in Scripts  BY DEF FInv, WrittenAs
<1>3. PICK always \in BOOLEAN : bytes = Spelling(script, always)  BY DEF FInv, WrittenAs
<1>4. taken.value = parse(bytes)  BY DEF FInv, TakenAs
<1> HIDE DEF script
<1>5. script \in Seq(Seq(Seq(Ch))) /\ \A i \in 1..Len(script) : Len(script[i]) >= 1
  BY <1>1, <1>2
<1>6. parse(Spelling(script, always)) = script  BY <1>1, <1>5, ScriptRead
<1>7. QED  BY <1>3, <1>4, <1>6

\* Every script a user spells is read as it was meant (ScriptsComeBack;
\* parse, aci/aci.cpp:1046).
THEOREM ScriptsCorrect == ASSUME ScriptsAre PROVE Spec => []ScriptsComeBack
<1>1. FInv => ScriptsComeBack  BY ScriptsFollow
<1>2. QED  BY <1>1, FormatsInvariant, PTL

\* The property of options follows from it.
LEMMA OptionsFollow == ASSUME OptionsAre, FInv PROVE OptionsAsGiven
<1> DEFINE ss == given.is
           Of(flag) == {i \in DOMAIN ss : get(ss[i].id) = flag}
           Given(flag) == IF Of(flag) = {} THEN Default[flag] ELSE ss[Max(Of(flag))].value
           Unknown == \E i \in DOMAIN ss : ~IsKnown(ss[i].id)
           data == [flag \in DOMAIN Type |-> Given(flag)]
           r == parse_flags(bytes)
<1> SUFFICES ASSUME given.kind = "options", taken # Unread
             PROVE  IF Unknown THEN taken.status = "none" ELSE taken.value = SockOpt(data, {})
  BY Zenon DEF OptionsAsGiven
<1>1. ProperSettings(ss) /\ bytes = LineOf(ss)  BY DEF FInv, WrittenAs, OptionsAre
<1>2. PICK memory \in Memory : IF r.ok THEN taken.value = SockOpt(r.data, memory)
                               ELSE taken.status = "none"
  BY Zenon DEF FInv, TakenAs
<1>3. memory = {}  BY DEF OptionsAre
<1> HIDE DEF ss
<1>4. IF Unknown THEN ~r.ok ELSE r.ok /\ r.data = data
  <2> DEFINE q == parse_flags(LineOf(ss))
  <2>1. IF Unknown THEN ~q.ok ELSE q.ok /\ q.data = data  BY <1>1, OptionsRead
  <2>2. r = q  BY <1>1
  <2> HIDE DEF q, r, Unknown, data
  <2>3. QED  BY <2>1, <2>2
<1> HIDE DEF Unknown, data, r
<1>5. QED  BY <1>2, <1>3, <1>4

\* A server has the options it was started with, however many, under whatever
\* id and in either form (OptionsAsGiven; Parser::parse, server/flags.hpp:109).
THEOREM OptionsCorrect == ASSUME OptionsAre PROVE Spec => []OptionsAsGiven
<1>1. FInv => OptionsAsGiven  BY OptionsFollow
<1>2. QED  BY <1>1, FormatsInvariant, PTL

-----------------------------------------------------------------------------
(* Maps.                                                                   *)

\* One map that is read.
LEMMA MapStep ==
  ASSUME MapsAre, FInv, Deserialize
  PROVE  taken' = [status |-> "ok", value |-> given.is]
<1> DEFINE pairs == given.is
           r == deserialize(bytes, Reader)
<1>1. /\ pairs \in Maps(Value[Depth]) /\ bytes = serialize(pairs, Writer)
      /\ taken' = [status |-> r.status, value |-> r.value]
  BY DEF MapsAre, FInv, WrittenAs, Deserialize, ToRead, Taken
<1>2. Writer \in BOOLEAN /\ Writer = Reader /\ ~Doubles
  BY MachinesAssumption DEF MapsAre
<1> HIDE DEF pairs
<1>3. /\ deserialize(serialize(pairs, Writer), Writer).status = "ok"
      /\ deserialize(serialize(pairs, Writer), Writer).value = pairs
  BY <1>1, <1>2, DocumentRead
<1>4. r.status = "ok" /\ r.value = pairs  BY <1>1, <1>2, <1>3
<1> HIDE DEF r
<1>5. QED  BY <1>1, <1>4 DEF pairs

\* Every map that was serialized is deserialized to itself, however deep and
\* whatever its values are (MapsComeBack; lib/readme.md:101).
THEOREM MapsCorrect == ASSUME MapsAre PROVE Spec => MapsComeBack
<1>1. FInv /\ [Next]_vars =>
        [Deserialize => taken' = [status |-> "ok", value |-> given.is]]_vars
  BY MapStep
<1>2. QED  BY <1>1, FormatsInvariant, PTL DEF Spec, MapsComeBack

-----------------------------------------------------------------------------
(* Schemas.  The invariant goes on: what is known of the keys stays known. *)

\* What is known of the keys of the reader's schema.
SchemaInv == SchemaFits(schema)

\* One map read with a schema no map was read with.
LEMMA SchemaStep ==
  ASSUME SchemasAre, FInv, SchemaInv, DeserializeSchema
  PROVE  /\ SchemaInv'
         /\ IF Conforms(given.is, schema)
            THEN taken' = [status |-> "ok", value |-> given.is]
            ELSE taken'.status = "none"
<1> DEFINE pairs == given.is
           r == deserialize_schema(bytes, schema, Reader)
<1>1. /\ pairs \in Documents /\ bytes = serialize(pairs, Writer)
      /\ taken' = [status |-> r.status, value |-> r.value] /\ schema' = r.schema /\ Fresh
  BY DEF FInv, WrittenAs, DeserializeSchema, ToRead, Taken, SchemasAre
<1>2. Writer \in BOOLEAN /\ Writer = Reader /\ ~Doubles /\ pairs \in Maps(Value[Depth])
  BY <1>1, MachinesAssumption DEF MapsAre, SchemasAre
<1>3. PICK D, R : schema \in Schema(D, R) /\ \A p \in Documents : KeysKnown(schema, p, D)
  BY DEF SchemaInv, SchemaFits
<1> HIDE DEF pairs
<1>4. Unmarked(schema, D)
  <2>1. DOMAIN schema.fields = D /\ \A k \in D : schema.fields[k].found \in BOOLEAN
    BY <1>3 DEF Schema, Field
  <2>2. \A k \in D : ~schema.fields[k].found  BY <1>1, <2>1 DEF Fresh
  <2>3. QED  BY <2>1, <2>2 DEF Unmarked
<1>5. KeysKnown(schema, pairs, D)  BY <1>1, <1>3
<1>6. Decided(r, pairs, schema, D, R)
  <2> DEFINE q == deserialize_schema(serialize(pairs, Writer), schema, Writer)
  <2>1. Decided(q, pairs, schema, D, R)  BY <1>2, <1>3, <1>4, <1>5, SchemaRead
  <2>2. r = q  BY <1>1, <1>2
  <2> HIDE DEF q, r
  <2>3. QED  BY <2>1, <2>2
<1> HIDE DEF r
<1>7. /\ schema' \in Schema(D, R) /\ Alike(schema', schema, D)
      /\ IF Conforms(pairs, schema) THEN r.status = "ok" /\ r.value = pairs ELSE r.status = "none"
  BY <1>1, <1>6, Zenon DEF Decided
<1>8. \A p \in Documents : KeysKnown(schema', p, D)
  BY <1>3, <1>7 DEF KeysKnown, Alike
<1>9. SchemaInv'
  <2>1. \E E, Q : schema' \in Schema(E, Q) /\ \A p \in Documents : KeysKnown(schema', p, E)
    BY <1>7, <1>8
  <2>2. QED  BY <2>1, Zenon DEF SchemaInv, SchemaFits
<1>10. QED  BY <1>1, <1>7, <1>9 DEF pairs

\* Every step keeps what is known.
LEMMA SchemaInvStep ==
  ASSUME SchemasAre, FInv, SchemaInv, [Next]_vars
  PROVE  SchemaInv'
<1>1. CASE DeserializeSchema  BY <1>1, SchemaStep
<1>2. CASE Discard
  <2>1. schema' = schema \/ schema' \in Schemas  BY <1>2 DEF Discard
  <2>2. QED  BY <2>1 DEF SchemasAre, SchemaInv
<1>3. CASE Write \/ Parse \/ ParseOptions \/ Deserialize \/ DeserializeValue \/ UNCHANGED vars
  <2>1. schema' = schema
    BY <1>3 DEF Write, Parse, ParseOptions, Deserialize, DeserializeValue, vars
  <2>2. QED  BY <2>1 DEF SchemaInv
<1>4. QED  BY <1>1, <1>2, <1>3 DEF Next

\* A schema lets pass the maps that conform to it and no others, if it is used
\* for one (SchemaDecides; deserialize with a schema, lib/asf.cpp:441).
THEOREM SchemasCorrect == ASSUME SchemasAre PROVE Spec => SchemaDecides
<1>1. Init => SchemaInv  BY DEF Init, SchemasAre, SchemaInv
<1>2. FInv /\ SchemaInv /\ [Next]_vars => SchemaInv'  BY SchemaInvStep
<1>3. FInv /\ SchemaInv /\ [Next]_vars =>
        [DeserializeSchema =>
           IF Conforms(given.is, schema)
           THEN taken' = [status |-> "ok", value |-> given.is]
           ELSE taken'.status = "none"]_vars
  BY SchemaStep
<1>4. QED  BY <1>1, <1>2, <1>3, FormatsInvariant, PTL DEF Spec, SchemaDecides
=============================================================================
