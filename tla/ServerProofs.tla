---------------------------- MODULE ServerProofs ----------------------------
(***************************************************************************)
(* Proofs about Server, for any number of clients, of requests and of      *)
(* answers, any size of a batch and any room in a connection.              *)
(*                                                                         *)
(* AnswersInOrder speaks of what a client finds.  It is kept because the   *)
(* server keeps its place: SInv says of every client that is followed how  *)
(* many of its requests were received (Taken, read off the pieces that are *)
(* on their way) and that the answers done with are those before the       *)
(* request in hand and the part of it that was sent (Place, Here).  A      *)
(* client whose stream is out of step is not followed: nothing is sent to  *)
(* it any more.                                                            *)
(*                                                                         *)
(* DiesOwing speaks of the clients that have ended, whose streams may stop *)
(* anywhere.  Due is weaker and holds of all clients: whatever is to be    *)
(* executed or received is due in full, but for what has been sent.        *)
(***************************************************************************)
EXTENDS Server, Recursion, FiniteSetTheorems

-----------------------------------------------------------------------------
(* The answers to a sequence of requests.                                  *)

\* The answers to one request, to each request, to all, and to the first i.
Row(i, n) == [k \in 1..n |-> <<i, k>>]
Rows(a)   == [i \in 1..Len(a) |-> Row(i, a[i])]
All(a)    == FlattenSeq(Rows(a))
Some(a, i) == SubSeq(a, 1, i)

\* The answers the model speaks of.
LEMMA AnswersAreAll == ASSUME NEW c  PROVE AnswersTo(c) = All(asked[c])
BY DEF AnswersTo, All, Rows, Row

\* The answers to one request.
LEMMA RowType ==
  ASSUME NEW i \in Nat, NEW n \in Nat
  PROVE  Row(i, n) \in Seq(Nat \X Nat) /\ Len(Row(i, n)) = n
<1>1. Row(i, n) \in [1..n -> Nat \X Nat]  BY DEF Row
<1>2. QED  BY <1>1

\* The answers, request by request.
LEMMA RowsType ==
  ASSUME NEW a \in Seq(Nat)
  PROVE  Rows(a) \in Seq(Seq(Nat \X Nat)) /\ Len(Rows(a)) = Len(a)
<1>1. ASSUME NEW i \in 1..Len(a)  PROVE Row(i, a[i]) \in Seq(Nat \X Nat)
  <2>1. i \in Nat /\ a[i] \in Nat  OBVIOUS
  <2>2. QED  BY <2>1, RowType
<1>2. Rows(a) \in [1..Len(a) -> Seq(Nat \X Nat)]  BY <1>1 DEF Rows
<1>3. QED  BY <1>2

\* One request more is one row more.
LEMMA AllAppend ==
  ASSUME NEW a \in Seq(Nat), NEW n \in Nat
  PROVE  All(Append(a, n)) = All(a) \o Row(Len(a) + 1, n)
<1>1. Rows(Append(a, n)) = Append(Rows(a), Row(Len(a) + 1, n))
  <2> DEFINE b == Append(a, n)
             r == Row(Len(a) + 1, n)
  <2>1. /\ Len(a) \in Nat /\ Len(b) = Len(a) + 1 /\ b[Len(a) + 1] = n
        /\ \A i \in 1..Len(a) : b[i] = a[i]
    OBVIOUS
  <2>2. b \in Seq(Nat) /\ r \in Seq(Nat \X Nat)  BY RowType
  <2>3. /\ Rows(a) \in Seq(Seq(Nat \X Nat)) /\ Len(Rows(a)) = Len(a)
        /\ Rows(b) \in Seq(Seq(Nat \X Nat)) /\ Len(Rows(b)) = Len(b)
    BY <2>2, RowsType
  <2> HIDE DEF b, r
  <2>4. /\ Append(Rows(a), r) \in Seq(Seq(Nat \X Nat))
        /\ Len(Append(Rows(a), r)) = Len(a) + 1
        /\ Append(Rows(a), r)[Len(a) + 1] = r
        /\ \A i \in 1..Len(a) : Append(Rows(a), r)[i] = Rows(a)[i]
    BY <2>2, <2>3
  <2>5. \A i \in 1..Len(b) : Rows(b)[i] = Append(Rows(a), r)[i]
    BY <2>1, <2>4 DEF Rows, r
  <2>6. Rows(b) = Append(Rows(a), r)  BY <2>1, <2>3, <2>4, <2>5, SeqEqual
  <2>7. QED  BY <2>6 DEF b, r
<1>2. Row(Len(a) + 1, n) \in Seq(Nat \X Nat)  BY RowType
<1>3. QED  BY <1>1, <1>2, RowsType, FlattenAppend DEF All

\* All answers, as one sequence.
LEMMA AllType == ASSUME NEW a \in Seq(Nat)  PROVE All(a) \in Seq(Nat \X Nat)
BY RowsType, FlattenType DEF All

\* Nothing asked, nothing answered.
LEMMA AllEmpty == All(<<>>) = <<>>
<1>1. Rows(<<>>) = <<>>  BY DEF Rows
<1>2. QED  BY <1>1, FlattenEmpty DEF All

\* The number of answers before those to request i.
Off(a, i) == Len(All(Some(a, i - 1)))

\* Where the answers to each request are.
RowsOf(a) ==
  \A i \in 1..Len(a) :
    /\ Off(a, i) \in Nat
    /\ Off(a, i) + a[i] <= Len(All(a))
    /\ \A k \in 1..a[i] : All(a)[Off(a, i) + k] = <<i, k>>

\* The first requests stay the first; all of them; and one more of them.
LEMMA SomeOfAppend ==
  ASSUME NEW a \in Seq(Nat), NEW n \in Nat, NEW i \in 0..Len(a)
  PROVE  Some(Append(a, n), i) = Some(a, i)
<1>1. QED  BY DEF Some

\* The first of all requests are all.
LEMMA SomeAll == ASSUME NEW a \in Seq(Nat)  PROVE Some(a, Len(a)) = a
<1>1. QED  BY DEF Some

\* One request more.
LEMMA SomeMore ==
  ASSUME NEW a \in Seq(Nat), NEW i \in 1..Len(a)
  PROVE  /\ Some(a, i) = Append(Some(a, i - 1), a[i])
         /\ Some(a, i - 1) \in Seq(Nat) /\ Len(Some(a, i - 1)) = i - 1
<1>1. QED  BY DEF Some

\* The answers keep their places when one more request is sent.
LEMMA RowsAppended ==
  ASSUME NEW a \in Seq(Nat), NEW n \in Nat, RowsOf(a)
  PROVE  RowsOf(Append(a, n))
<1> DEFINE b == Append(a, n)
           m == Len(a)
           r == Row(m + 1, n)
<1>1. /\ m \in Nat /\ b \in Seq(Nat) /\ Len(b) = m + 1 /\ b[m + 1] = n
      /\ \A i \in 1..m : b[i] = a[i]
  OBVIOUS
<1>2. /\ All(a) \in Seq(Nat \X Nat) /\ r \in Seq(Nat \X Nat) /\ Len(r) = n
      /\ \A k \in 1..n : r[k] = <<m + 1, k>>
  BY AllType, RowType DEF Row
<1>3. All(b) = All(a) \o r  BY AllAppend
<1>4. \A i \in 1..m + 1 : Off(b, i) = Off(a, i)  BY SomeOfAppend DEF Off
<1>5. Off(a, m + 1) = Len(All(a))  BY SomeAll DEF Off
<1> HIDE DEF b, r
<1>6. /\ Len(All(b)) = Len(All(a)) + n
      /\ \A j \in 1..Len(All(a)) : All(b)[j] = All(a)[j]
      /\ \A k \in 1..n : All(b)[Len(All(a)) + k] = <<m + 1, k>>
  <2> DEFINE A == All(a)
  <2>1. A \in Seq(Nat \X Nat) /\ r \in Seq(Nat \X Nat)  BY <1>2
  <2> HIDE DEF A
  <2>2. /\ Len(A \o r) = Len(A) + Len(r)
        /\ \A i \in 1..Len(A) : (A \o r)[i] = A[i]
        /\ \A i \in 1..Len(r) : (A \o r)[Len(A) + i] = r[i]
    BY <2>1, Joined
  <2>3. QED  BY <1>2, <1>3, <2>2 DEF A
<1>7. ASSUME NEW i \in 1..Len(b)
      PROVE  /\ Off(b, i) \in Nat
             /\ Off(b, i) + b[i] <= Len(All(b))
             /\ \A k \in 1..b[i] : All(b)[Off(b, i) + k] = <<i, k>>
  <2>0. Len(All(a)) \in Nat  BY <1>2
  <2>1. CASE i = m + 1
    <3>1. b[i] = n /\ Off(b, i) = Len(All(a))  BY <1>1, <1>4, <1>5, <2>1
    <3>2. \A k \in 1..b[i] : All(b)[Off(b, i) + k] = <<i, k>>
      BY <1>6, <2>1, <3>1
    <3>3. Len(All(b)) = Off(b, i) + b[i]  BY <1>6, <3>1
    <3>4. Off(b, i) \in Nat /\ b[i] \in Nat  BY <2>0, <3>1
    <3>5. Off(b, i) + b[i] <= Len(All(b))  BY <3>3, <3>4
    <3>6. QED  BY <3>2, <3>4, <3>5
  <2>2. CASE i # m + 1
    <3>1. i \in 1..m /\ b[i] = a[i] /\ a[i] \in Nat /\ Off(b, i) = Off(a, i)
      BY <1>1, <1>4, <2>2
    <3>2. /\ Off(a, i) \in Nat /\ Off(a, i) + a[i] <= Len(All(a))
          /\ \A k \in 1..a[i] : All(a)[Off(a, i) + k] = <<i, k>>
      BY <3>1 DEF RowsOf
    <3>3. \A k \in 1..a[i] : Off(a, i) + k \in 1..Len(All(a))  BY <2>0, <3>1, <3>2
    <3>4. \A k \in 1..b[i] : All(b)[Off(b, i) + k] = <<i, k>>
      BY <1>6, <3>1, <3>2, <3>3
    <3>5. QED  BY <1>6, <2>0, <3>1, <3>2, <3>4
  <2>3. QED  BY <2>1, <2>2
<1>8. QED  BY <1>7 DEF RowsOf, b

\* By induction over the number of requests.
LEMMA RowsAreThere == ASSUME NEW a \in Seq(Nat)  PROVE RowsOf(a)
<1> DEFINE S == {n \in Nat : \A x \in Seq(Nat) : Len(x) = n => RowsOf(x)}
<1>1. 0 \in S  BY DEF RowsOf
<1>2. ASSUME NEW n \in Nat, n \in S  PROVE n + 1 \in S
  <2>1. ASSUME NEW x \in Seq(Nat), Len(x) = n + 1  PROVE RowsOf(x)
    <3>1. n + 1 \in 1..Len(x) /\ n + 1 - 1 = n  BY <2>1
    <3>2. /\ Some(x, n + 1) = Append(Some(x, n), x[n + 1])
          /\ Some(x, n) \in Seq(Nat) /\ Len(Some(x, n)) = n /\ x[n + 1] \in Nat
      <4>1. /\ Some(x, n + 1) = Append(Some(x, n + 1 - 1), x[n + 1])
            /\ Some(x, n + 1 - 1) \in Seq(Nat) /\ Len(Some(x, n + 1 - 1)) = n + 1 - 1
        BY <3>1, SomeMore
      <4>2. x[n + 1] \in Nat  BY <3>1
      <4>3. QED  BY <3>1, <4>1, <4>2
    <3>3. RowsOf(Some(x, n))  BY <1>2, <3>2
    <3>4. RowsOf(Append(Some(x, n), x[n + 1]))  BY <3>2, <3>3, RowsAppended
    <3>5. QED  BY <2>1, <3>2, <3>4, SomeAll
  <2>2. QED  BY <2>1
<1>3. Nat \subseteq S
  <2> HIDE DEF S
  <2>1. QED  BY <1>1, <1>2, SetInduction
<1>4. QED  BY <1>3

\* The answers to the next request come after those to this one.
LEMMA OffNext ==
  ASSUME NEW a \in Seq(Nat), NEW i \in 1..Len(a)
  PROVE  Off(a, i + 1) = Off(a, i) + a[i] /\ Off(a, i) \in Nat
<1>1. i + 1 - 1 = i /\ a[i] \in Nat /\ i \in Nat  OBVIOUS
<1>2. /\ Some(a, i) = Append(Some(a, i - 1), a[i])
      /\ Some(a, i - 1) \in Seq(Nat) /\ Len(Some(a, i - 1)) = i - 1
  BY SomeMore
<1>3. All(Some(a, i)) = All(Some(a, i - 1)) \o Row(i - 1 + 1, a[i])
  BY <1>1, <1>2, AllAppend
<1>4. All(Some(a, i - 1)) \in Seq(Nat \X Nat)  BY <1>2, AllType
<1>5. Row(i - 1 + 1, a[i]) \in Seq(Nat \X Nat) /\ Len(Row(i - 1 + 1, a[i])) = a[i]
  <2>1. i - 1 + 1 \in Nat  BY <1>1
  <2>2. QED  BY <1>1, <2>1, RowType
<1>6. QED  BY <1>1, <1>3, <1>4, <1>5 DEF Off

\* After the answers to the last request there are no more.
LEMMA OffLast ==
  ASSUME NEW a \in Seq(Nat)
  PROVE  Off(a, Len(a) + 1) = Len(All(a)) /\ Len(All(a)) \in Nat
BY SomeAll, AllType DEF Off

-----------------------------------------------------------------------------
(* Types.                                                                  *)

\* The pieces of requests.
Pieces == [part : {"head", "body", "tail"}, req : Nat]

\* What each variable ranges over, the elements of its sequences too.
Types ==
  /\ con \in [Clients -> {"new", "accepted", "polled", "removed"}]
  /\ in \in [Clients -> Seq(Pieces)] /\ line \in [Clients -> Seq(Pieces)]
  /\ out \in [Clients -> Seq(Nat \X Nat)] /\ read \in [Clients -> Nat]
  /\ pc \in {"wait", "recv", "body", "run", "starved", "spin", "dead"}
  /\ events \in Seq([from : Clients, hup : BOOLEAN])
  /\ msgs \in Seq([from : Clients, req : Nat])
  /\ done \in Nat /\ failed \subseteq Clients
  /\ cp \in [Clients -> {"poll", "name", "input", "get", "gone"}]
  /\ asked \in [Clients -> Seq(Nat)]
  /\ fin \in [Clients -> BOOLEAN] /\ skew \in [Clients -> BOOLEAN]
  /\ \A c \in Clients : Len(out[c]) <= OutCap
  /\ pc \in {"body", "starved", "spin"} => events # <<>>

\* What is left without the first element.
LEMMA TailOf ==
  ASSUME NEW S, NEW s \in Seq(S), s # <<>>
  PROVE  /\ Head(s) \in S /\ Head(s) = s[1] /\ Tail(s) \in Seq(S)
         /\ Len(s) \in Nat /\ Len(s) >= 1 /\ Len(Tail(s)) = Len(s) - 1
         /\ \A i \in 1..Len(s) - 1 : Tail(s)[i] = s[i + 1]
OBVIOUS

\* What epoll_wait returns: so many connections, each of them once.
LEMMA BatchIs ==
  ASSUME NEW b \in Batches
  PROVE  /\ b \in Seq(Ready) /\ Len(b) <= PollSize
         /\ \A i, j \in 1..Len(b) : b[i] = b[j] => i = j
<1> DEFINE m == Cardinality(Ready)
           n == Min({PollSize, m})
<1>1. m \in Nat
  <2>1. Ready \in SUBSET Clients  BY DEF Ready
  <2>2. IsFiniteSet(Ready)  BY <2>1, ClientsAssumption, FS_Subset
  <2>3. QED  BY <2>2, FS_CardinalityType
<1>2. n \in Nat /\ n <= PollSize
  <2> HIDE DEF m
  <2>1. PollSize \in Nat  BY SizesAssumption
  <2>2. \E x \in {PollSize, m} : \A y \in {PollSize, m} : x <= y  BY <1>1, <2>1
  <2>3. QED  BY <1>1, <2>1, <2>2 DEF Min
<1> HIDE DEF n
<1>3. b \in [1..n -> Ready] /\ \A i, j \in 1..n : b[i] = b[j] => i = j
  BY DEF Batches, n
<1>4. QED  BY <1>2, <1>3

\* Messages are pieces.
LEMMA MessageType ==
  ASSUME NEW s \in Seq(Pieces), NEW n \in Nat
  PROVE  s \o Message(n) \in Seq(Pieces) /\ s \o LongMessage(n) \in Seq(Pieces)
BY DEF Message, LongMessage, Piece, Pieces

\* Types holds at first, and every step keeps it.
LEMMA TypesInit == Init => Types
<1> SUFFICES ASSUME Init PROVE Types  OBVIOUS
<1>1. \A S : <<>> \in Seq(S)  OBVIOUS
<1>2. OutCap \in Nat /\ Len(<<>>) = 0  BY SizesAssumption
<1>3. QED  BY <1>1, <1>2 DEF Init, Types

\* A piece arrives, a line is typed.
LEMMA TypesAsk ==
  ASSUME Types, NEW c \in Clients, NEW n \in Nat, NEW l \in Seq(Pieces),
         asked' = Put(asked, c, Append(asked[c], n)), line' = Put(line, c, l)
  PROVE  asked' \in [Clients -> Seq(Nat)] /\ line' \in [Clients -> Seq(Pieces)]
<1>1. Append(asked[c], n) \in Seq(Nat)  BY DEF Types
<1>2. QED  BY <1>1 DEF Types, Put

\* A client reads the first n answers that wait for it, none or all of them.
Reads(c) ==
  /\ out' \in [Clients -> Seq(Nat \X Nat)] /\ read' \in [Clients -> Nat]
  /\ skew' \in [Clients -> BOOLEAN]
  /\ \A d \in Clients : d # c => out'[d] = out[d] /\ read'[d] = read[d]
  /\ \E n \in 0..Len(out[c]) :
       /\ read'[c] = read[c] + n
       /\ Len(out'[c]) = Len(out[c]) - n
       /\ \A i \in 1..Len(out'[c]) : out'[c][i] = out[c][n + i]

\* The first n elements are cut off.
LEMMA CutOff ==
  ASSUME NEW S, NEW s \in Seq(S), NEW n \in 0..Len(s)
  PROVE  LET t == SubSeq(s, n + 1, Len(s))
         IN  /\ t \in Seq(S) /\ Len(t) = Len(s) - n
             /\ \A i \in 1..Len(t) : t[i] = s[n + i]
<1> DEFINE t == SubSeq(s, n + 1, Len(s))
<1>1. Len(s) \in Nat /\ n \in Nat /\ n <= Len(s)  OBVIOUS
<1>2. t = [i \in 1..(Len(s) - n) |-> s[n + i]]
  <2>1. t = [i \in 1..(Len(s) - (n + 1) + 1) |-> s[i + (n + 1) - 1]]  BY <1>1
  <2>2. Len(s) - (n + 1) + 1 = Len(s) - n  BY <1>1
  <2>3. \A i \in 1..(Len(s) - n) : i + (n + 1) - 1 = n + i  BY <1>1
  <2>4. QED  BY <2>1, <2>2, <2>3
<1>3. \A i \in 1..(Len(s) - n) : n + i \in 1..Len(s) /\ s[n + i] \in S  BY <1>1
<1>4. Len(s) - n \in Nat  BY <1>1
<1> HIDE DEF t
<1>5. t \in [1..(Len(s) - n) -> S]  BY <1>2, <1>3
<1>6. QED  BY <1>2, <1>4, <1>5 DEF t

\* However much of them the client reads.
LEMMA ReadsSome ==
  ASSUME Types, NEW c \in Clients, GetName(c) \/ GetInput(c) \/ ReadOn(c)
  PROVE  Reads(c)
<1> USE DEF Types
<1>1. out[c] \in Seq(Nat \X Nat) /\ Len(out[c]) \in Nat /\ read[c] \in Nat  OBVIOUS
<1>2. ASSUME NEW n \in 0..Len(out[c]), Take(c, n), skew' \in [Clients -> BOOLEAN]
      PROVE  Reads(c)
  <2> DEFINE t == SubSeq(out[c], n + 1, Len(out[c]))
  <2>1. /\ t \in Seq(Nat \X Nat) /\ Len(t) = Len(out[c]) - n
        /\ \A i \in 1..Len(t) : t[i] = out[c][n + i]
    BY <1>1, CutOff
  <2>2. out' = Put(out, c, t) /\ read' = Put(read, c, read[c] + n)  BY <1>2 DEF Take
  <2> HIDE DEF t
  <2>3. read[c] + n \in Nat  BY <1>1
  <2>4. /\ out' \in [Clients -> Seq(Nat \X Nat)] /\ out'[c] = t
        /\ read' \in [Clients -> Nat] /\ read'[c] = read[c] + n
        /\ \A d \in Clients : d # c => out'[d] = out[d] /\ read'[d] = read[d]
    BY <2>1, <2>2, <2>3 DEF Put
  <2>5. QED  BY <1>2, <2>1, <2>4 DEF Reads
<1>3. CASE ReadOn(c)
  <2>1. Take(c, Len(out[c])) /\ skew' = skew  BY <1>3 DEF ReadOn
  <2>2. Len(out[c]) \in 0..Len(out[c])  BY <1>1
  <2>3. QED  BY <1>2, <2>1, <2>2
<1>4. CASE GetName(c) \/ GetInput(c)
  <2>1. out[c] # <<>> /\ (ReadWhole(c) \/ ReadShort(c) \/ ReadSkewed(c))
    BY <1>4 DEF GetName, GetInput, ReadAnswer
  <2>2. CASE ReadWhole(c)
    <3>1. 1 \in 0..Len(out[c])  BY <1>1, <2>1
    <3>2. QED  BY <1>2, <2>2, <3>1 DEF ReadWhole
  <2>3. CASE ReadShort(c)
    <3>1. out' = out /\ read' = read /\ skew' \in [Clients -> BOOLEAN]
      BY <2>3 DEF ReadShort, Put
    <3>2. 0 \in 0..Len(out[c]) /\ Len(out[c]) = Len(out[c]) - 0 /\ read[c] = read[c] + 0
      BY <1>1
    <3>3. \A i \in 1..Len(out[c]) : 0 + i = i  OBVIOUS
    <3>4. QED  BY <1>1, <3>1, <3>2, <3>3 DEF Reads
  <2>4. CASE ReadSkewed(c)
    <3>1. PICK n \in 0..Len(out[c]), b \in BOOLEAN : Take(c, n) /\ skew' = Put(skew, c, b)
      BY <2>4 DEF ReadSkewed
    <3>2. skew' \in [Clients -> BOOLEAN]  BY <3>1 DEF Put
    <3>3. QED  BY <1>2, <3>1, <3>2
  <2>5. QED  BY <2>1, <2>2, <2>3, <2>4
<1>5. QED  BY <1>3, <1>4

\* Every step keeps the types.
LEMMA TypesStep == Types /\ [Next]_vars => Types'
<1> SUFFICES ASSUME Types, [Next]_vars PROVE Types'  OBVIOUS
<1> USE DEF Types
<1>t. /\ events # <<>> => /\ Head(events).from \in Clients
                          /\ Tail(events) \in Seq([from : Clients, hup : BOOLEAN])
      /\ msgs # <<>> => /\ To \in Clients /\ Tail(msgs) \in Seq([from : Clients, req : Nat])
  <2>1. ASSUME events # <<>>
        PROVE  /\ Head(events).from \in Clients
               /\ Tail(events) \in Seq([from : Clients, hup : BOOLEAN])
    <3>1. /\ Head(events) \in [from : Clients, hup : BOOLEAN]
          /\ Tail(events) \in Seq([from : Clients, hup : BOOLEAN])
      BY <2>1, TailOf
    <3>2. QED  BY <3>1
  <2>2. ASSUME msgs # <<>>
        PROVE  To \in Clients /\ Tail(msgs) \in Seq([from : Clients, req : Nat])
    <3>1. /\ Head(msgs) \in [from : Clients, req : Nat]
          /\ Tail(msgs) \in Seq([from : Clients, req : Nat])
      BY <2>2, TailOf
    <3>2. QED  BY <3>1 DEF To
  <2>3. QED  BY <2>1, <2>2
<1>1. ASSUME NEW c \in Clients, Accept(c) \/ Register(c)  PROVE Types'
  BY <1>1 DEF Accept, Register, client, Put
<1>2. ASSUME NEW b \in Batches, Wait(b)  PROVE Types'
  <2>1. events' \in Seq([from : Clients, hup : BOOLEAN])
    <3>1. b \in Seq(Clients)
      <4>1. Ready \subseteq Clients  BY DEF Ready
      <4>2. QED  BY <4>1, BatchIs, SeqMonotonic
    <3>2. ASSUME NEW i \in 1..Len(b)
          PROVE  Event(b[i]) \in [from : Clients, hup : BOOLEAN]
      <4>1. b[i] \in Clients  BY <3>1, ElementOfSeq
      <4>2. fin[b[i]] \in BOOLEAN  BY <4>1
      <4>3. QED  BY <4>1, <4>2 DEF Event
    <3>3. QED  BY <1>2, <3>1, <3>2 DEF Wait
  <2>2. QED  BY <1>2, <2>1 DEF Wait, client
<1>3. CASE Hup
  <2>1. con' \in [Clients -> {"new", "accepted", "polled", "removed"}]
    BY <1>3, <1>t DEF Hup, Put
  <2>2. QED  BY <1>3, <1>t, <2>1 DEF Hup, client
<1>4. CASE RecvHead \/ RecvBody \/ Swallow
  <2> DEFINE c == Head(events).from
  <2>1. c \in Clients /\ in[c] # <<>> /\ in' = Put(in, c, Tail(in[c]))
    BY <1>4, <1>t DEF RecvHead, RecvBody, Swallow
  <2>2. in' \in [Clients -> Seq(Pieces)] /\ Head(in[c]) \in Pieces
    <3>1. Tail(in[c]) \in Seq(Pieces) /\ Head(in[c]) \in Pieces  BY <2>1, TailOf
    <3> HIDE DEF c
    <3>2. QED  BY <2>1, <3>1 DEF Put
  <2>3. CASE RecvHead \/ Swallow
    BY <2>2, <2>3 DEF RecvHead, Swallow, server, client
  <2>4. CASE RecvBody
    <3>1. [from |-> c, req |-> Head(in[c]).req] \in [from : Clients, req : Nat]
      BY <2>1, <2>2 DEF Pieces
    <3>2. msgs' \in Seq([from : Clients, req : Nat])  BY <2>4, <3>1 DEF RecvBody
    <3>3. QED  BY <1>t, <2>2, <2>4, <3>2 DEF RecvBody, client
  <2>5. QED  BY <1>4, <2>3, <2>4
<1>5. CASE RecvEnd
  BY <1>5, <1>t DEF RecvEnd, client
<1>6. CASE Received \/ Loop
  BY <1>6 DEF Received, Loop, client
<1>7. CASE Send
  <2>1. Append(out[To], NextAnswer) \in Seq(Nat \X Nat)
    <3>1. NextAnswer \in Nat \X Nat
      <4>1. Head(msgs) \in [from : Clients, req : Nat]  BY <1>7, TailOf DEF Send
      <4>2. Head(msgs).req \in Nat /\ done + 1 \in Nat  BY <4>1
      <4>3. QED  BY <4>2 DEF NextAnswer
    <3>2. out[To] \in Seq(Nat \X Nat)  BY <1>7, <1>t DEF Send
    <3>3. QED  BY <3>1, <3>2
  <2>2. out' \in [Clients -> Seq(Nat \X Nat)]
        /\ \A d \in Clients : out'[d] = IF d = To THEN Append(out[To], NextAnswer) ELSE out[d]
    BY <1>7, <1>t, <2>1 DEF Send, Put
  <2>3. Len(Append(out[To], NextAnswer)) = Len(out[To]) + 1 /\ Len(out[To]) \in Nat
    <3>1. out[To] \in Seq(Nat \X Nat)  BY <1>7, <1>t DEF Send
    <3>2. QED  BY <3>1
  <2>4. \A d \in Clients : Len(out'[d]) <= OutCap
    <3>1. OutCap \in Nat /\ Len(out[To]) < OutCap  BY <1>7, SizesAssumption DEF Send
    <3>2. Len(Append(out[To], NextAnswer)) <= OutCap  BY <2>3, <3>1
    <3>3. QED  BY <2>2, <3>2
  <2>5. done' \in Nat  BY <1>7 DEF Send
  <2>6. UNCHANGED <<con, in, line, read, pc, events, msgs, failed, cp, asked, fin, skew>>
    BY <1>7 DEF Send, client
  <2>7. out' \in [Clients -> Seq(Nat \X Nat)]  BY <2>2
  <2>8. QED  BY <2>4, <2>5, <2>6, <2>7
<1>8. CASE SendToGone
  <2>0. done' \in Nat  BY <1>8 DEF SendToGone
  <2>1. failed' \subseteq Clients
    <3>1. failed' = failed \cup {To} /\ To \in Clients /\ failed \subseteq Clients
      BY <1>8, <1>t DEF SendToGone
    <3>2. QED  BY <3>1
  <2>2. pc' = pc \/ pc' = "dead"  BY <1>8 DEF SendToGone
  <2>3. UNCHANGED <<con, in, line, out, read, events, msgs, cp, asked, fin, skew>>
    BY <1>8 DEF SendToGone, client
  <2>4. QED  BY <2>0, <2>1, <2>2, <2>3
<1>9. CASE NextMessage
  BY <1>9, <1>t DEF NextMessage, client
<1>10. ASSUME NEW c \in Clients, PollStdin(c)  PROVE Types'
  <2>1. asked' \in [Clients -> Seq(Nat)] /\ line' \in [Clients -> Seq(Pieces)]
    <3>1. line[c] \o Message(Len(asked[c]) + 1) \in Seq(Pieces)  BY MessageType
    <3>2. QED  BY <1>10, <3>1, TypesAsk DEF PollStdin
  <2>2. cp' \in [Clients -> {"poll", "name", "input", "get", "gone"}]
    BY <1>10 DEF PollStdin, Put
  <2>3. QED  BY <1>10, <2>1, <2>2 DEF PollStdin, server
<1>11. ASSUME NEW c \in Clients, Input(c)  PROVE Types'
  <2>1. asked' \in [Clients -> Seq(Nat)] /\ line' \in [Clients -> Seq(Pieces)]
    <3>1. /\ line[c] \o Message(Len(asked[c]) + 1) \in Seq(Pieces)
          /\ line[c] \o LongMessage(Len(asked[c]) + 1) \in Seq(Pieces)
      <4>1. line[c] \in Seq(Pieces) /\ Len(asked[c]) + 1 \in Nat  OBVIOUS
      <4>2. QED  BY <4>1, MessageType
    <3>2. PICK n \in AnswerCounts, l \in Seq(Pieces) :
            asked' = Put(asked, c, Append(asked[c], n)) /\ line' = Put(line, c, l)
      BY <1>11, <3>1 DEF Input
    <3>3. n \in Nat  BY AnswersAssumption
    <3>4. QED  BY <3>2, <3>3, TypesAsk
  <2>2. cp' \in [Clients -> {"poll", "name", "input", "get", "gone"}]
    BY <1>11 DEF Input, Put
  <2>3. QED  BY <1>11, <2>1, <2>2 DEF Input, server
<1>12. ASSUME NEW c \in Clients, PollSocket(c)  PROVE Types'
  BY <1>12 DEF PollSocket, server, Put
<1>13. ASSUME NEW c \in Clients, GetName(c) \/ GetInput(c) \/ ReadOn(c)  PROVE Types'
  <2>1. Reads(c)  BY <1>13, ReadsSome
  <2>2. cp' \in [Clients -> {"poll", "name", "input", "get", "gone"}]
    BY <1>13 DEF GetName, GetInput, ReadOn, Put
  <2>3. \A d \in Clients : Len(out'[d]) <= OutCap
    <3>1. Len(out[c]) \in Nat /\ Len(out[c]) <= OutCap
      <4>1. out[c] \in Seq(Nat \X Nat)  OBVIOUS
      <4>2. QED  BY <4>1
    <3>2. OutCap \in Nat  BY SizesAssumption
    <3>4. \A d \in Clients : d # c => out'[d] = out[d]  BY <2>1 DEF Reads
    <3>5. ASSUME NEW d \in Clients  PROVE Len(out'[d]) <= OutCap
      <4>1. CASE d = c
        <5>1. \E n \in 0..Len(out[c]) : Len(out'[c]) = Len(out[c]) - n  BY <2>1 DEF Reads
        <5>2. QED  BY <3>1, <3>2, <4>1, <5>1
      <4>2. CASE d # c  BY <3>4, <4>2
      <4>3. QED  BY <4>1, <4>2
    <3>6. QED  BY <3>5
  <2>4. QED  BY <1>13, <2>1, <2>2, <2>3 DEF GetName, GetInput, ReadOn, server, Reads
<1>14. ASSUME NEW c \in Clients, HangUp(c)  PROVE Types'
  <2>1. <<>> \in Seq(Pieces)  OBVIOUS
  <2>2. line' \in [Clients -> Seq(Pieces)]  BY <1>14, <2>1 DEF HangUp, Put
  <2>3. cp' \in [Clients -> {"poll", "name", "input", "get", "gone"}]
    BY <1>14 DEF HangUp, Put
  <2>4. QED  BY <1>14, <2>2, <2>3 DEF HangUp, server
<1>15. ASSUME NEW c \in Clients, Deliver(c)  PROVE Types'
  <2>1. line[c] \in Seq(Pieces) /\ line[c] # <<>> /\ in[c] \in Seq(Pieces)
    BY <1>15 DEF Deliver
  <2>2. Head(line[c]) \in Pieces /\ Tail(line[c]) \in Seq(Pieces)  BY <2>1, TailOf
  <2>3. Append(in[c], Head(line[c])) \in Seq(Pieces)  BY <2>1, <2>2
  <2>4. in' \in [Clients -> Seq(Pieces)] /\ line' \in [Clients -> Seq(Pieces)]
    BY <1>15, <2>2, <2>3 DEF Deliver, Put
  <2>5. QED  BY <1>15, <2>4 DEF Deliver, server, client
<1>16. ASSUME NEW c \in Clients, DeliverEnd(c)  PROVE Types'
  BY <1>16 DEF DeliverEnd, server, client, Put
<1>17. CASE UNCHANGED vars
  BY <1>17 DEF vars, server, client
<1>18. QED
  BY <1>1, <1>2, <1>3, <1>4, <1>5, <1>6, <1>7, <1>8, <1>9, <1>10, <1>11, <1>12, <1>13,
     <1>14, <1>15, <1>16, <1>17 DEF Next, Work, Answering

-----------------------------------------------------------------------------
(* The batch of events the thread works on.                                *)

\* Nobody is twice in s; nobody is in both s and t.
Once(s)     == \A i, j \in 1..Len(s) : s[i].from = s[j].from => i = j
Apart(s, t) == \A i \in 1..Len(s), j \in 1..Len(t) : s[i].from # t[j].from

\* What was reported of a client and is not taken up is still there to receive.
Waiting == \A i \in 1..Len(events) :
             (pc = "recv" \/ i > 1) /\ ~events[i].hup => in[events[i].from] # <<>>

\* Events and messages of one batch are of different clients.
Batch ==
  /\ Len(events) + Len(msgs) <= PollSize
  /\ Once(events) /\ Once(msgs) /\ Apart(events, msgs)
  /\ pc = "wait" => events = <<>> /\ msgs = <<>>
  /\ pc \in {"run", "dead"} => events = <<>>
  /\ pc \notin {"run", "dead"} \/ msgs = <<>> => done = 0
  /\ Waiting

\* One less is still once each.
LEMMA OnceTail ==
  ASSUME NEW S, NEW s \in Seq(S), s # <<>>, Once(s), NEW T, NEW t \in Seq(T)
  PROVE  /\ Once(Tail(s)) /\ \A i \in 1..Len(Tail(s)) : Tail(s)[i].from # Head(s).from
         /\ Apart(s, t) => Apart(Tail(s), t)
         /\ Apart(t, s) => Apart(t, Tail(s))
<1>1. /\ Head(s) = s[1] /\ Len(s) \in Nat /\ Len(s) >= 1 /\ Len(Tail(s)) = Len(s) - 1
      /\ \A i \in 1..Len(s) - 1 : Tail(s)[i] = s[i + 1]
  BY TailOf
<1>2. ASSUME NEW i \in 1..Len(Tail(s))
      PROVE  i + 1 \in 1..Len(s) /\ Tail(s)[i] = s[i + 1] /\ i + 1 # 1
  BY <1>1
<1>3. Once(Tail(s))
  <2> SUFFICES ASSUME NEW i \in 1..Len(Tail(s)), NEW j \in 1..Len(Tail(s)),
                      Tail(s)[i].from = Tail(s)[j].from
               PROVE  i = j
    BY DEF Once
  <2>1. s[i + 1].from = s[j + 1].from  BY <1>2
  <2>2. i + 1 = j + 1  BY <1>2, <2>1 DEF Once
  <2>3. QED  BY <2>2
<1>4. ASSUME NEW i \in 1..Len(Tail(s))  PROVE Tail(s)[i].from # Head(s).from
  BY <1>1, <1>2 DEF Once
<1>5. Apart(s, t) => Apart(Tail(s), t)  BY <1>2 DEF Apart
<1>6. Apart(t, s) => Apart(t, Tail(s))  BY <1>2 DEF Apart
<1>7. QED  BY <1>3, <1>4, <1>5, <1>6

\* Batch holds at first, and every step keeps it.
LEMMA BatchInit == Init => Batch
<1> SUFFICES ASSUME Init PROVE Batch  OBVIOUS
<1>1. events = <<>> /\ msgs = <<>> /\ pc = "wait" /\ done = 0  BY DEF Init
<1>2. PollSize \in Nat  BY SizesAssumption
<1>3. QED  BY <1>1, <1>2 DEF Batch, Once, Apart, Waiting

\* The first event is done with: the others wait as they did.
LEMMA BatchGoesOn ==
  ASSUME Types, Batch, events # <<>>, pc \in {"recv", "body", "starved"},
         events' = Tail(events), pc' = "recv", done' = done,
         \A d \in Clients : d # Head(events).from => in'[d] = in[d]
  PROVE  /\ Len(events') = Len(events) - 1 /\ Once(events') /\ Apart(events', msgs)
         /\ pc' # "wait" /\ done' = 0 /\ Waiting'
         /\ \A i \in 1..Len(events') : events'[i].from # Head(events).from
<1>1. /\ events \in Seq([from : Clients, hup : BOOLEAN])
      /\ msgs \in Seq([from : Clients, req : Nat])
  BY DEF Types
<1>2. /\ Len(events') = Len(events) - 1 /\ Len(events) \in Nat
      /\ events' \in Seq([from : Clients, hup : BOOLEAN])
      /\ \A i \in 1..Len(events) - 1 : events'[i] = events[i + 1]
  BY <1>1, TailOf
<1>3. /\ Once(events') /\ Apart(events', msgs)
      /\ \A i \in 1..Len(events') : events'[i].from # Head(events).from
  BY <1>1, OnceTail DEF Batch
<1>4. Waiting'
  <2> SUFFICES ASSUME NEW i \in 1..Len(events'), ~events'[i].hup
               PROVE  in'[events'[i].from] # <<>>
    BY DEF Waiting
  <2>1. i + 1 \in 1..Len(events) /\ i + 1 > 1 /\ events'[i] = events[i + 1]  BY <1>2
  <2>2. in[events[i + 1].from] # <<>>  BY <2>1 DEF Batch, Waiting
  <2>3. events'[i].from \in Clients
    <3>1. events'[i] \in [from : Clients, hup : BOOLEAN]  BY <1>2, ElementOfSeq
    <3>2. QED  BY <3>1
  <2>4. QED  BY <1>3, <2>1, <2>2, <2>3
<1>5. done = 0  BY DEF Batch
<1>6. QED  BY <1>2, <1>3, <1>4, <1>5

\* Every step keeps the batch.
LEMMA BatchStep == Types /\ Batch /\ [Next]_vars => Batch'
<1> SUFFICES ASSUME Types, Batch, [Next]_vars PROVE Batch'  OBVIOUS
<1>t. /\ events \in Seq([from : Clients, hup : BOOLEAN])
      /\ msgs \in Seq([from : Clients, req : Nat]) /\ PollSize \in Nat
      /\ Len(events) \in Nat /\ Len(msgs) \in Nat
      /\ \A i \in 1..Len(events) : events[i].from \in Clients
  <2>1. events \in Seq([from : Clients, hup : BOOLEAN])  BY DEF Types
  <2>2. ASSUME NEW i \in 1..Len(events)  PROVE events[i].from \in Clients
    <3>1. events[i] \in [from : Clients, hup : BOOLEAN]  BY <2>1, ElementOfSeq
    <3>2. QED  BY <3>1
  <2>3. QED  BY <2>1, <2>2, SizesAssumption DEF Types
<1>h. events # <<>> => Head(events) = events[1] /\ 1 \in 1..Len(events)  BY <1>t
<1>1. ASSUME UNCHANGED <<pc, events, msgs, done>>,
             \A d \in Clients : in[d] # <<>> => in'[d] # <<>>
      PROVE  Batch'
  <2>1. Waiting'  BY <1>1, <1>t DEF Batch, Waiting
  <2>2. QED  BY <1>1, <2>1 DEF Batch, Once, Apart
<1>2. ASSUME NEW b \in Batches, Wait(b)  PROVE Batch'
  <2>1. /\ events' = [i \in 1..Len(b) |-> Event(b[i])] /\ pc' = "recv" /\ pc = "wait"
        /\ UNCHANGED <<msgs, done, in>>
    BY <1>2 DEF Wait
  <2>2. /\ b \in Seq(Ready) /\ Len(b) <= PollSize
        /\ \A i, j \in 1..Len(b) : b[i] = b[j] => i = j
    BY BatchIs
  <2>3. Len(b) \in Nat /\ Len(events') = Len(b)  BY <2>1, <2>2
  <2>4. \A i \in 1..Len(b) : /\ events'[i].from = b[i] /\ events'[i].hup = fin[b[i]]
                             /\ b[i] \in Ready
    BY <2>1, <2>2 DEF Event
  <2>5. msgs' = <<>> /\ done' = 0  BY <2>1 DEF Batch
  <2>6. Waiting'  BY <2>1, <2>3, <2>4 DEF Waiting, Ready
  <2>7. Once(events')  BY <2>2, <2>3, <2>4 DEF Once
  <2>8. Len(events') + Len(msgs') <= PollSize  BY <1>t, <2>2, <2>3, <2>5
  <2>9. QED  BY <2>1, <2>5, <2>6, <2>7, <2>8 DEF Batch, Once, Apart
<1>3. CASE Hup
  <2>1. /\ events # <<>> /\ pc = "recv" /\ events' = Tail(events) /\ pc' = "recv"
        /\ UNCHANGED <<done, in, msgs>>
    BY <1>3 DEF Hup
  <2>2. /\ Len(events') = Len(events) - 1 /\ Once(events') /\ Apart(events', msgs)
        /\ pc' # "wait" /\ done' = 0 /\ Waiting'
    BY <2>1, BatchGoesOn
  <2>3. Len(events') + Len(msgs') <= PollSize  BY <1>t, <2>1, <2>2 DEF Batch
  <2>4. QED  BY <2>1, <2>2, <2>3 DEF Batch, Once
<1>4. CASE RecvHead
  <2>1. /\ events # <<>> /\ pc = "recv" /\ pc' \in {"body", "starved"}
        /\ UNCHANGED <<events, msgs, done>>
        /\ in' = Put(in, Head(events).from, Tail(in[Head(events).from]))
    BY <1>4 DEF RecvHead
  <2>2. Waiting'
    <3> SUFFICES ASSUME NEW i \in 1..Len(events), i > 1, ~events[i].hup
                 PROVE  in'[events[i].from] # <<>>
      BY <2>1 DEF Waiting
    <3>1. in[events[i].from] # <<>>  BY DEF Batch, Waiting
    <3>2. events[i].from # Head(events).from  BY <1>h, <2>1 DEF Batch, Once
    <3>3. QED  BY <1>t, <2>1, <3>1, <3>2 DEF Put, Types
  <2>3. QED  BY <2>1, <2>2 DEF Batch, Once, Apart
<1>5. CASE RecvBody
  <2> DEFINE c == Head(events).from
             m == [from |-> c, req |-> Head(in[c]).req]
  <2>1. /\ events # <<>> /\ pc = "body" /\ events' = Tail(events) /\ pc' = "recv"
        /\ UNCHANGED <<done>> /\ msgs' = Append(msgs, m)
        /\ in' = Put(in, c, Tail(in[c]))
    BY <1>5 DEF RecvBody, Types
  <2>2. \A d \in Clients : d # c => in'[d] = in[d]  BY <2>1 DEF Put, Types
  <2>3. /\ Len(events') = Len(events) - 1 /\ Once(events') /\ Apart(events', msgs)
        /\ pc' # "wait" /\ done' = 0 /\ Waiting'
        /\ \A i \in 1..Len(events') : events'[i].from # c
    BY <2>1, <2>2, BatchGoesOn
  <2>4. m.from = c  OBVIOUS
  <2> HIDE DEF m
  <2>5. /\ Len(msgs') = Len(msgs) + 1 /\ msgs'[Len(msgs) + 1] = m
        /\ \A i \in 1..Len(msgs) : msgs'[i] = msgs[i]
    BY <1>t, <2>1
  <2>6. \A j \in 1..Len(msgs) : msgs[j].from # c
    BY <1>h, <2>1 DEF Batch, Apart
  <2> HIDE DEF c
  <2>7. Once(msgs')
    <3> SUFFICES ASSUME NEW i \in 1..Len(msgs'), NEW j \in 1..Len(msgs'),
                        msgs'[i].from = msgs'[j].from
                 PROVE  i = j
      BY DEF Once
    <3>1. i \in 1..Len(msgs) \/ i = Len(msgs) + 1  BY <1>t, <2>5
    <3>2. j \in 1..Len(msgs) \/ j = Len(msgs) + 1  BY <1>t, <2>5
    <3>3. QED  BY <2>4, <2>5, <2>6, <3>1, <3>2 DEF Batch, Once
  <2>8. Apart(events', msgs')
    <3> SUFFICES ASSUME NEW i \in 1..Len(events'), NEW j \in 1..Len(msgs')
                 PROVE  events'[i].from # msgs'[j].from
      BY DEF Apart
    <3>1. j \in 1..Len(msgs) \/ j = Len(msgs) + 1  BY <1>t, <2>5
    <3>2. QED  BY <2>3, <2>4, <2>5, <3>1 DEF Apart
  <2>9. Len(events') + Len(msgs') <= PollSize  BY <1>t, <2>3, <2>5 DEF Batch
  <2>10. QED  BY <2>1, <2>3, <2>7, <2>8, <2>9 DEF Batch
<1>6. CASE RecvEnd
  <2>1. /\ pc \in {"recv", "body", "starved"} /\ events # <<>> /\ UNCHANGED <<done, in, msgs>>
        /\ \/ pc' = "recv" /\ events' = Tail(events)
           \/ pc' = "spin" /\ events' = events
    BY <1>6 DEF RecvEnd
  <2>2. CASE pc' = "recv" /\ events' = Tail(events)
    <3>1. /\ Len(events') = Len(events) - 1 /\ Once(events') /\ Apart(events', msgs)
          /\ pc' # "wait" /\ done' = 0 /\ Waiting'
      BY <2>1, <2>2, BatchGoesOn
    <3>2. Len(events') + Len(msgs') <= PollSize  BY <1>t, <2>1, <3>1 DEF Batch
    <3>3. QED  BY <2>1, <2>2, <3>1, <3>2 DEF Batch, Once
  <2>3. CASE pc' = "spin" /\ events' = events
    <3>1. Waiting'  BY <2>1, <2>3 DEF Batch, Waiting
    <3>2. QED  BY <2>1, <2>3, <3>1 DEF Batch, Once, Apart
  <2>4. QED  BY <2>1, <2>2, <2>3
<1>7. CASE Swallow
  <2>1. /\ events # <<>> /\ pc = "starved" /\ UNCHANGED <<pc, events, msgs, done>>
        /\ in' = Put(in, Head(events).from, Tail(in[Head(events).from]))
    BY <1>7 DEF Swallow, server, Types
  <2>2. Waiting'
    <3> SUFFICES ASSUME NEW i \in 1..Len(events), i > 1, ~events[i].hup
                 PROVE  in'[events[i].from] # <<>>
      BY <2>1 DEF Waiting
    <3>1. in[events[i].from] # <<>>  BY DEF Batch, Waiting
    <3>2. events[i].from # Head(events).from  BY <1>h, <2>1 DEF Batch, Once
    <3>3. QED  BY <1>t, <2>1, <3>1, <3>2 DEF Put, Types
  <2>3. QED  BY <2>1, <2>2 DEF Batch, Once, Apart
<1>8. CASE Received
  BY <1>8 DEF Received, Batch, Once, Apart, Waiting
<1>9. CASE Send \/ SendToGone
  <2>1. /\ pc = "run" /\ pc' \in {"run", "dead"} /\ UNCHANGED <<events, msgs, in>>
        /\ msgs # <<>>
    BY <1>9 DEF Send, SendToGone
  <2>2. events = <<>>  BY <2>1 DEF Batch
  <2>3. QED  BY <2>1, <2>2 DEF Batch, Once, Apart, Waiting
<1>10. CASE NextMessage
  <2>1. /\ pc = "run" /\ msgs # <<>> /\ msgs' = Tail(msgs) /\ done' = 0
        /\ UNCHANGED <<pc, events>>
    BY <1>10 DEF NextMessage
  <2>2. events = <<>>  BY <2>1 DEF Batch
  <2>3. Once(msgs') /\ Apart(events, msgs')  BY <1>t, <2>1, OnceTail DEF Batch
  <2>4. Len(events) + Len(msgs') <= PollSize
    <3>1. Len(msgs') = Len(msgs) - 1  BY <1>t, <2>1, TailOf
    <3>2. QED  BY <1>t, <3>1 DEF Batch
  <2>5. Waiting'  BY <2>1, <2>2 DEF Waiting
  <2>6. QED  BY <2>1, <2>2, <2>3, <2>4, <2>5 DEF Batch, Once
<1>11. CASE Loop
  <2>1. /\ pc = "run" /\ pc' = "wait" /\ msgs = <<>> /\ UNCHANGED <<events, msgs, done, in>>
    BY <1>11 DEF Loop
  <2>2. events = <<>> /\ done' = 0  BY <2>1 DEF Batch
  <2>3. QED  BY <1>t, <2>1, <2>2 DEF Batch, Once, Apart, Waiting
<1>12. ASSUME NEW c \in Clients, Accept(c) \/ Register(c) \/ PollStdin(c) \/ Answering(c)
                                 \/ HangUp(c) \/ DeliverEnd(c)
       PROVE  Batch'
  <2>1. UNCHANGED <<pc, events, msgs, done, in>>
    BY <1>12 DEF Accept, Register, PollStdin, Answering, PollSocket, GetName, Input, GetInput,
                 ReadOn,
                 HangUp, DeliverEnd, server
  <2>2. QED  BY <1>1, <2>1
<1>13. ASSUME NEW c \in Clients, Deliver(c)  PROVE Batch'
  <2>1. \A d \in Clients : in[d] # <<>> => in'[d] # <<>>
    <3>1. in' = Put(in, c, Append(in[c], Head(line[c])))  BY <1>13 DEF Deliver
    <3>2. in[c] \in Seq(Pieces) /\ line[c] \in Seq(Pieces) /\ line[c] # <<>>
      BY <1>13 DEF Deliver, Types
    <3>3. Append(in[c], Head(line[c])) # <<>>  BY <3>2
    <3>4. QED  BY <3>1, <3>3 DEF Put, Types
  <2>2. QED  BY <1>1, <1>13, <2>1 DEF Deliver, server
<1>14. CASE UNCHANGED vars
  BY <1>1, <1>14 DEF vars, server
<1>15. QED
  BY <1>2, <1>3, <1>4, <1>5, <1>6, <1>7, <1>8, <1>9, <1>10, <1>11, <1>12, <1>13, <1>14
     DEF Next, Work

-----------------------------------------------------------------------------
(* The pieces on their way from a client.                                  *)

\* Piece q is sent right after piece p.
Follows(p, q) ==
  CASE p.part = "head" -> q = Piece("body", p.req)
    [] p.part = "body" -> q \in {Piece("head", p.req + 1), Piece("tail", p.req)}
    [] p.part = "tail" -> q = Piece("head", p.req + 1)

\* The pieces of requests up to request n, the first possibly in part.
UpTo(s, n) ==
  /\ \A i \in 1..Len(s) - 1 : Follows(s[i], s[i + 1])
  /\ s # <<>> => s[Len(s)] \in {Piece("body", n), Piece("tail", n)}

\* The last of n requests whose body is not among the pieces.
Coming(s, n) ==
  IF s = <<>> THEN n
  ELSE IF s[1].part = "tail" THEN s[1].req ELSE s[1].req - 1

\* The fields of a piece.
LEMMA PieceIs == \A p, i : Piece(p, i).part = p /\ Piece(p, i).req = i
BY DEF Piece

\* A piece is received.
LEMMA UpToTail ==
  ASSUME NEW s \in Seq(Pieces), s # <<>>, NEW n \in Nat, UpTo(s, n)
  PROVE  /\ UpTo(Tail(s), n)
         /\ Tail(s) = <<>> => s[1] \in {Piece("body", n), Piece("tail", n)}
         /\ Tail(s) # <<>> => Follows(s[1], Tail(s)[1])
<1>1. /\ Tail(s) \in Seq(Pieces) /\ Len(s) \in Nat /\ Len(s) >= 1
      /\ Len(Tail(s)) = Len(s) - 1 /\ \A i \in 1..Len(s) - 1 : Tail(s)[i] = s[i + 1]
  BY TailOf
<1> DEFINE t == Tail(s)
<1> HIDE DEF t
<1>2. ASSUME NEW i \in 1..Len(t) - 1  PROVE Follows(t[i], t[i + 1])
  <2>1. i + 1 \in 1..Len(s) - 1 /\ t[i] = s[i + 1] /\ t[i + 1] = s[i + 1 + 1]
    BY <1>1 DEF t
  <2>2. QED  BY <2>1 DEF UpTo
<1>3. ASSUME t # <<>>
      PROVE  t[Len(t)] \in {Piece("body", n), Piece("tail", n)} /\ Follows(s[1], t[1])
  <2>1. Len(t) >= 1 /\ Len(t) \in 1..Len(s) - 1 /\ 1 \in 1..Len(s) - 1  BY <1>1, <1>3 DEF t
  <2>2. t[Len(t)] = s[Len(s)] /\ t[1] = s[1 + 1]  BY <1>1, <2>1 DEF t
  <2>3. QED  BY <2>1, <2>2 DEF UpTo
<1>4. ASSUME t = <<>>  PROVE s[1] \in {Piece("body", n), Piece("tail", n)}
  <2>1. Len(s) = 1  BY <1>1, <1>4 DEF t
  <2>2. QED  BY <2>1 DEF UpTo
<1>5. UpTo(t, n)  BY <1>2, <1>3 DEF UpTo
<1>6. QED  BY <1>3, <1>4, <1>5 DEF t

\* A head is received, its body comes next.
LEMMA TakeHead ==
  ASSUME NEW s \in Seq(Pieces), s # <<>>, NEW n \in Nat, UpTo(s, n), s[1].part = "head"
  PROVE  /\ UpTo(Tail(s), n) /\ Tail(s) # <<>> /\ Tail(s)[1].part = "body"
         /\ Coming(Tail(s), n) = Coming(s, n)
<1>1. /\ UpTo(Tail(s), n)
      /\ Tail(s) = <<>> => s[1] \in {Piece("body", n), Piece("tail", n)}
      /\ Tail(s) # <<>> => Follows(s[1], Tail(s)[1])
  BY UpToTail
<1>2. Tail(s) # <<>>  BY <1>1 DEF Piece
<1>3. Tail(s)[1] = Piece("body", s[1].req)  BY <1>1, <1>2 DEF Follows
<1>4. Tail(s)[1].part = "body" /\ Tail(s)[1].req = s[1].req
  <2> DEFINE q == Tail(s)[1]
  <2>1. q = Piece("body", s[1].req)  BY <1>3
  <2> HIDE DEF q
  <2>2. q.part = "body" /\ q.req = s[1].req  BY <2>1, PieceIs
  <2>3. QED  BY <2>2 DEF q
<1>5. QED  BY <1>1, <1>2, <1>4 DEF Coming

\* A body is received, which is that of the next request.
LEMMA TakeBody ==
  ASSUME NEW s \in Seq(Pieces), s # <<>>, NEW n \in Nat, UpTo(s, n), s[1].part = "body"
  PROVE  /\ UpTo(Tail(s), n) /\ (Tail(s) # <<>> => Tail(s)[1].part # "body")
         /\ Coming(Tail(s), n) = s[1].req /\ Coming(s, n) + 1 = s[1].req
         /\ s[1].req \in Nat
<1>1. /\ UpTo(Tail(s), n)
      /\ Tail(s) = <<>> => s[1] \in {Piece("body", n), Piece("tail", n)}
      /\ Tail(s) # <<>> => Follows(s[1], Tail(s)[1])
  BY UpToTail
<1>2. s[1].req \in Nat
  <2>1. s[1] \in Pieces  BY TailOf
  <2>2. QED  BY <2>1 DEF Pieces
<1>3. Coming(s, n) + 1 = s[1].req  BY <1>2 DEF Coming
<1>4. CASE Tail(s) = <<>>
  <2>1. s[1].req = n  BY <1>1, <1>4 DEF Piece
  <2>2. QED  BY <1>1, <1>2, <1>3, <1>4, <2>1 DEF Coming
<1>5. CASE Tail(s) # <<>>
  <2>1. Tail(s)[1] \in {Piece("head", s[1].req + 1), Piece("tail", s[1].req)}
    BY <1>1, <1>5 DEF Follows
  <2>2. /\ Tail(s)[1].part # "body"
        /\ \/ Tail(s)[1].part = "head" /\ Tail(s)[1].req = s[1].req + 1
           \/ Tail(s)[1].part = "tail" /\ Tail(s)[1].req = s[1].req
    <3> DEFINE q == Tail(s)[1]
    <3>1. q = Piece("head", s[1].req + 1) \/ q = Piece("tail", s[1].req)  BY <2>1
    <3> HIDE DEF q
    <3>2. /\ q.part # "body"
          /\ \/ q.part = "head" /\ q.req = s[1].req + 1
             \/ q.part = "tail" /\ q.req = s[1].req
      BY <3>1, PieceIs
    <3>3. QED  BY <3>2 DEF q
  <2>3. Coming(Tail(s), n) = s[1].req  BY <1>2, <1>5, <2>2 DEF Coming
  <2>4. QED  BY <1>1, <1>2, <1>3, <2>2, <2>3
<1>6. QED  BY <1>4, <1>5

\* One piece more.
LEMMA UpToAppend ==
  ASSUME NEW s \in Seq(Pieces), NEW p \in Pieces,
         \A i \in 1..Len(s) - 1 : Follows(s[i], s[i + 1]),
         s # <<>> => Follows(s[Len(s)], p)
  PROVE  LET t == Append(s, p)
         IN  /\ t \in Seq(Pieces) /\ t # <<>> /\ t[Len(t)] = p
             /\ \A i \in 1..Len(t) - 1 : Follows(t[i], t[i + 1])
             /\ t[1] = IF s = <<>> THEN p ELSE s[1]
             /\ \A i \in 1..Len(t) : t[i] = p \/ \E j \in 1..Len(s) : t[i] = s[j]
<1> DEFINE t == Append(s, p)
<1>1. /\ t \in Seq(Pieces) /\ t # <<>> /\ Len(t) = Len(s) + 1 /\ t[Len(s) + 1] = p
      /\ \A i \in 1..Len(s) : t[i] = s[i]
      /\ Len(s) \in Nat /\ (s = <<>> <=> Len(s) = 0)
  OBVIOUS
<1> HIDE DEF t
<1>2. ASSUME NEW i \in 1..Len(t) - 1  PROVE Follows(t[i], t[i + 1])
  <2>1. CASE i = Len(s)
    <3>1. t[i] = s[i] /\ t[i + 1] = p /\ s # <<>>  BY <1>1, <2>1
    <3>2. QED  BY <2>1, <3>1
  <2>2. CASE i # Len(s)
    <3>1. i \in 1..Len(s) - 1 /\ t[i] = s[i] /\ t[i + 1] = s[i + 1]  BY <1>1, <2>2
    <3>2. QED  BY <3>1
  <2>3. QED  BY <2>1, <2>2
<1>3. t[1] = IF s = <<>> THEN p ELSE s[1]  BY <1>1
<1>4. ASSUME NEW i \in 1..Len(t)  PROVE t[i] = p \/ \E j \in 1..Len(s) : t[i] = s[j]
  <2>1. i = Len(s) + 1 \/ i \in 1..Len(s)  BY <1>1
  <2>2. QED  BY <1>1, <2>1
<1>5. t[Len(t)] = p  BY <1>1
<1>6. QED  BY <1>1, <1>2, <1>3, <1>4, <1>5 DEF t

\* A request more.
LEMMA UpToAsk ==
  ASSUME NEW s \in Seq(Pieces), NEW n \in Nat, UpTo(s, n),
         NEW t \in {s \o Message(n + 1), s \o LongMessage(n + 1)}
  PROVE  /\ UpTo(t, n + 1) /\ t # <<>> /\ Coming(t, n + 1) = Coming(s, n)
         /\ t[1] = IF s = <<>> THEN Piece("head", n + 1) ELSE s[1]
<1> DEFINE h == Piece("head", n + 1)
           b == Piece("body", n + 1)
           l == Piece("tail", n + 1)
           s1 == Append(s, h)
           s2 == Append(s1, b)
           s3 == Append(s2, l)
<1>1. n + 1 \in Nat /\ h \in Pieces /\ b \in Pieces /\ l \in Pieces  BY DEF Piece, Pieces
<1>2. s \o Message(n + 1) = s2 /\ s \o LongMessage(n + 1) = s3
  BY <1>1 DEF Message, LongMessage
<1>3. Follows(h, b) /\ Follows(b, l)  BY DEF Follows, Piece
<1>4. ASSUME s # <<>>  PROVE Follows(s[Len(s)], h)
  <2>1. s[Len(s)].part \in {"body", "tail"} /\ s[Len(s)].req = n
    BY <1>4, PieceIs DEF UpTo
  <2>2. QED  BY <2>1 DEF Follows
<1> HIDE DEF h, b, l
<1>5. /\ s1 \in Seq(Pieces) /\ s1 # <<>> /\ s1[Len(s1)] = h
      /\ \A i \in 1..Len(s1) - 1 : Follows(s1[i], s1[i + 1])
      /\ s1[1] = IF s = <<>> THEN h ELSE s[1]
  BY <1>1, <1>4, UpToAppend DEF UpTo
<1> HIDE DEF s1
<1>6. /\ s2 \in Seq(Pieces) /\ s2 # <<>> /\ s2[Len(s2)] = b
      /\ \A i \in 1..Len(s2) - 1 : Follows(s2[i], s2[i + 1])
      /\ s2[1] = s1[1]
  BY <1>1, <1>3, <1>5, UpToAppend
<1> HIDE DEF s2
<1>7. /\ s3 \in Seq(Pieces) /\ s3 # <<>> /\ s3[Len(s3)] = l
      /\ \A i \in 1..Len(s3) - 1 : Follows(s3[i], s3[i + 1])
      /\ s3[1] = s2[1]
  BY <1>1, <1>3, <1>6, UpToAppend
<1> HIDE DEF s3
<1>8. UpTo(t, n + 1) /\ t # <<>> /\ t[1] = IF s = <<>> THEN h ELSE s[1]
  BY <1>2, <1>5, <1>6, <1>7 DEF UpTo, b, l
<1>9. Coming(t, n + 1) = Coming(s, n)
  <2>1. CASE s = <<>>
    <3>1. t[1].part = "head" /\ t[1].req = n + 1  BY <1>8, <2>1 DEF h, Piece
    <3>2. QED  BY <1>8, <2>1, <3>1 DEF Coming
  <2>2. CASE s # <<>>  BY <1>8, <2>2 DEF Coming
  <2>3. QED  BY <2>1, <2>2
<1>10. QED  BY <1>8, <1>9 DEF h

-----------------------------------------------------------------------------
(* What a step does to the pieces on their way.                            *)

\* What was sent and has not been received, wherever it is.
Stream(c) == in[c] \o line[c]

\* The requests the pieces belong to have been sent.
Numbered(s, n) ==
  \A i \in 1..Len(s) : s[i].req \in 1..n /\ (Ascii => s[i].part # "tail")

\* The first element of two sequences is that of the first one.
LEMMA ConcatTail ==
  ASSUME NEW S, NEW s \in Seq(S), s # <<>>, NEW t \in Seq(S)
  PROVE  /\ s \o t # <<>> /\ (s \o t)[1] = Head(s) /\ Tail(s) \o t = Tail(s \o t)
         /\ s \o t \in Seq(S)
<1> DEFINE u == s \o t
           v == Tail(s) \o t
<1>1. /\ u \in Seq(S) /\ Len(u) = Len(s) + Len(t)
      /\ \A i \in 1..Len(s) : u[i] = s[i]
      /\ \A i \in 1..Len(t) : u[Len(s) + i] = t[i]
  BY Joined
<1>2. /\ Len(s) \in Nat /\ Len(t) \in Nat /\ Len(s) >= 1 /\ Head(s) = s[1]
      /\ Tail(s) \in Seq(S) /\ Len(Tail(s)) = Len(s) - 1
      /\ \A i \in 1..Len(s) - 1 : Tail(s)[i] = s[i + 1]
  BY TailOf
<1>3. /\ v \in Seq(S) /\ Len(v) = Len(Tail(s)) + Len(t)
      /\ \A i \in 1..Len(Tail(s)) : v[i] = Tail(s)[i]
      /\ \A i \in 1..Len(t) : v[Len(Tail(s)) + i] = t[i]
  <2>1. Tail(s) \in Seq(S)  BY <1>2
  <2>2. QED  BY <2>1, Joined
<1> HIDE DEF u, v
<1>4. u # <<>>  BY <1>1, <1>2
<1>5. u[1] = Head(s)  BY <1>1, <1>2
<1>6. /\ Tail(u) \in Seq(S) /\ Len(Tail(u)) = Len(u) - 1
      /\ \A i \in 1..Len(u) - 1 : Tail(u)[i] = u[i + 1]
  BY <1>1, <1>4, TailOf
<1>7. ASSUME NEW i \in 1..Len(v)  PROVE v[i] = Tail(u)[i]
  <2>1. Tail(u)[i] = u[i + 1]  BY <1>1, <1>2, <1>3, <1>6
  <2>2. CASE i \in 1..Len(s) - 1
    <3>1. v[i] = s[i + 1] /\ i + 1 \in 1..Len(s)  BY <1>2, <1>3, <2>2
    <3>2. QED  BY <1>1, <2>1, <3>1
  <2>3. CASE i \notin 1..Len(s) - 1
    <3> DEFINE j == i - (Len(s) - 1)
    <3>1. j \in 1..Len(t) /\ i = Len(Tail(s)) + j /\ i + 1 = Len(s) + j
      BY <1>2, <1>3, <2>3
    <3> HIDE DEF j
    <3>2. v[i] = t[j] /\ u[i + 1] = t[j]  BY <1>1, <1>3, <3>1
    <3>3. QED  BY <2>1, <3>2
  <2>4. QED  BY <2>2, <2>3
<1>8. Len(v) = Len(Tail(u))  BY <1>1, <1>2, <1>3, <1>6
<1>9. v = Tail(u)  BY <1>3, <1>6, <1>7, <1>8, SeqEqual
<1>10. QED  BY <1>1, <1>4, <1>5, <1>9 DEF u, v

\* An element moves from the second sequence to the first.
LEMMA ConcatMove ==
  ASSUME NEW S, NEW s \in Seq(S), NEW t \in Seq(S), t # <<>>
  PROVE  Append(s, Head(t)) \o Tail(t) = s \o t
<1> DEFINE h == <<Head(t)>>
<1>1. h \in Seq(S) /\ Tail(t) \in Seq(S) /\ h # <<>>  BY TailOf
<1>2. Append(s, Head(t)) = s \o h  BY TailOf
<1>3. t = h \o Tail(t)  OBVIOUS
<1> HIDE DEF h
<1>4. (s \o h) \o Tail(t) = s \o (h \o Tail(t))  BY <1>1, ConcatAssociative
<1>5. QED  BY <1>2, <1>3, <1>4

\* A request more has a number of its own.
LEMMA NumberedAsk ==
  ASSUME NEW s \in Seq(Pieces), NEW n \in Nat, Numbered(s, n),
         NEW t, t = s \o Message(n + 1) \/ (~Ascii /\ t = s \o LongMessage(n + 1))
  PROVE  t \in Seq(Pieces) /\ Numbered(t, n + 1)
<1>1. PICK m \in {Message(n + 1), LongMessage(n + 1)} :
        t = s \o m /\ (Ascii => m = Message(n + 1))
  OBVIOUS
<1> DEFINE h == Piece("head", n + 1)
           b == Piece("body", n + 1)
           l == Piece("tail", n + 1)
<1>0. m \in {<<h, b>>, Append(<<h, b>>, l)} /\ (Ascii => m = <<h, b>>)
  BY <1>1 DEF Message, LongMessage
<1>p. /\ h \in Pieces /\ h.req = n + 1 /\ h.part # "tail"
      /\ b \in Pieces /\ b.req = n + 1 /\ b.part # "tail"
      /\ l \in Pieces /\ l.req = n + 1
  BY DEF Piece, Pieces
<1> HIDE DEF h, b, l
<1>2. /\ m \in Seq(Pieces)
      /\ \A i \in 1..Len(m) : m[i].req = n + 1 /\ (Ascii => m[i].part # "tail")
  <2>1. <<h, b>> \in Seq(Pieces) /\ Append(<<h, b>>, l) \in Seq(Pieces)  BY <1>p
  <2>2. CASE m = <<h, b>>
    <3>1. Len(m) = 2 /\ m[1] = h /\ m[2] = b  BY <2>2
    <3>2. QED  BY <1>p, <2>1, <2>2, <3>1
  <2>3. CASE m = Append(<<h, b>>, l) /\ ~Ascii
    <3>1. Len(m) = 3 /\ m[1] = h /\ m[2] = b /\ m[3] = l  BY <2>3
    <3>2. \A i \in 1..3 : m[i].req = n + 1  BY <1>p, <3>1
    <3>3. QED  BY <2>1, <2>3, <3>1, <3>2
  <2>4. QED  BY <1>0, <2>2, <2>3
<1>3. /\ t \in Seq(Pieces) /\ Len(t) = Len(s) + Len(m)
      /\ \A i \in 1..Len(s) : t[i] = s[i]
      /\ \A i \in 1..Len(m) : t[Len(s) + i] = m[i]
  <2>1. m \in Seq(Pieces)  BY <1>2
  <2>2. /\ s \o m \in Seq(Pieces) /\ Len(s \o m) = Len(s) + Len(m)
        /\ \A i \in 1..Len(s) : (s \o m)[i] = s[i]
        /\ \A i \in 1..Len(m) : (s \o m)[Len(s) + i] = m[i]
    BY <2>1, Joined
  <2>3. QED  BY <1>1, <2>2
<1>4. Len(s) \in Nat /\ Len(m) \in Nat  BY <1>2
<1> HIDE DEF Numbered
<1>5. ASSUME NEW i \in 1..Len(t)
      PROVE  t[i].req \in 1..n + 1 /\ (Ascii => t[i].part # "tail")
  <2>1. CASE i \in 1..Len(s)  BY <1>3, <2>1 DEF Numbered
  <2>2. CASE i \notin 1..Len(s)
    <3> DEFINE j == i - Len(s)
    <3>1. j \in 1..Len(m) /\ i = Len(s) + j  BY <1>3, <1>4, <2>2
    <3> HIDE DEF j
    <3>2. t[i] = m[j]  BY <1>3, <3>1
    <3>3. QED  BY <1>2, <3>1, <3>2
  <2>3. QED  BY <2>1, <2>2
<1>6. QED  BY <1>3, <1>5 DEF Numbered

\* The steps that receive a piece.
Takes(c) ==
  /\ RecvHead \/ RecvBody \/ Swallow
  /\ c = Head(events).from
  /\ in[c] # <<>> /\ Head(in[c]) = Stream(c)[1]
  /\ Stream(c) # <<>> /\ Stream(c)' = Tail(Stream(c)) /\ asked'[c] = asked[c]

\* The steps that send a request; that end in the middle of one; and the others.
Asks(c) ==
  /\ PollStdin(c) \/ Input(c)
  /\ \E n \in Nat : asked'[c] = Append(asked[c], n)
  /\ LET m == Len(asked[c]) + 1
     IN  \/ Stream(c)' = Stream(c) \o Message(m)
         \/ ~Ascii /\ Stream(c)' = Stream(c) \o LongMessage(m)

\* The steps that end what a client sends, or leave it.
BreaksOff(c) ==
  /\ HangUp(c) /\ HangUps = "anytime" /\ cp'[c] = "gone"
  /\ Stream(c)' = in[c] /\ asked'[c] = asked[c]

StreamKept(c) == Stream(c)' = Stream(c) /\ asked'[c] = asked[c]

\* The steps that leave the pieces alone, or move one to where it is received.
Quiet ==
  \/ \E b \in Batches : Wait(b)
  \/ Hup \/ RecvEnd \/ Received \/ Send \/ SendToGone \/ NextMessage \/ Loop
  \/ \E d \in Clients : \/ Accept(d) \/ Register(d) \/ PollSocket(d) \/ GetName(d) \/ GetInput(d)
                        \/ ReadOn(d) \/ Deliver(d) \/ DeliverEnd(d)
  \/ UNCHANGED vars

\* What each action does to the pieces of c.
LEMMA StreamSteps ==
  ASSUME Types, NEW c \in Clients
  PROVE  /\ Stream(c) \in Seq(Pieces)
         /\ Quiet => StreamKept(c)
         /\ RecvHead \/ RecvBody \/ Swallow =>
              (c = Head(events).from => Takes(c)) /\ (c # Head(events).from => StreamKept(c))
         /\ \A d \in Clients : PollStdin(d) \/ Input(d) =>
              (c = d => Asks(c)) /\ (c # d => StreamKept(c))
         /\ \A d \in Clients : HangUp(d) => StreamKept(c) \/ BreaksOff(c)
<1>t. in[c] \in Seq(Pieces) /\ line[c] \in Seq(Pieces) /\ asked[c] \in Seq(Nat)
  BY DEF Types
<1>s. Stream(c) \in Seq(Pieces)  BY <1>t DEF Stream
<1>1. ASSUME in'[c] = in[c], line'[c] = line[c]  PROVE Stream(c)' = Stream(c)
  BY <1>1 DEF Stream
<1>2. ASSUME NEW d \in Clients,
             \/ Accept(d) \/ Register(d) \/ PollSocket(d) \/ GetName(d) \/ GetInput(d)
             \/ ReadOn(d) \/ DeliverEnd(d)
      PROVE  StreamKept(c)
  <2>1. UNCHANGED <<in, line, asked>>
    BY <1>2 DEF Accept, Register, PollSocket, GetName, GetInput, ReadOn, DeliverEnd, client
  <2>2. QED  BY <1>1, <2>1 DEF StreamKept
<1>3. ASSUME NEW b \in Batches, Wait(b)
      PROVE  StreamKept(c)
  BY <1>1, <1>3 DEF Wait, client, StreamKept
<1>4. ASSUME Hup \/ RecvEnd \/ Received \/ Send \/ SendToGone \/ NextMessage \/ Loop
      PROVE  StreamKept(c)
  <2>1. UNCHANGED <<in, line, asked>>
    BY <1>4 DEF Hup, RecvEnd, Received, Send, SendToGone, NextMessage, Loop, client
  <2>2. QED  BY <1>1, <2>1 DEF StreamKept
<1>5. ASSUME RecvHead \/ RecvBody \/ Swallow
      PROVE  (c = Head(events).from => Takes(c)) /\ (c # Head(events).from => StreamKept(c))
  <2> DEFINE d == Head(events).from
  <2>1. in[d] # <<>> /\ in' = Put(in, d, Tail(in[d])) /\ UNCHANGED <<line, asked>>
    BY <1>5 DEF RecvHead, RecvBody, Swallow, server, client
  <2>2. ASSUME c = Head(events).from  PROVE Takes(c)
    <3>1. in'[c] = Tail(in[c]) /\ line'[c] = line[c] /\ asked'[c] = asked[c]
      BY <2>1, <2>2 DEF Put, Types
    <3>2. /\ in[c] \o line[c] # <<>> /\ (in[c] \o line[c])[1] = Head(in[c])
          /\ Tail(in[c]) \o line[c] = Tail(in[c] \o line[c])
      BY <1>t, <2>1, <2>2, ConcatTail
    <3>3. QED  BY <1>5, <1>s, <2>1, <2>2, <3>1, <3>2 DEF Stream, Takes
  <2>3. ASSUME c # Head(events).from  PROVE StreamKept(c)
    <3>1. in'[c] = in[c] /\ line'[c] = line[c] /\ asked'[c] = asked[c]
      BY <2>1, <2>3 DEF Put, Types
    <3>2. QED  BY <1>1, <3>1 DEF StreamKept
  <2>4. QED  BY <2>2, <2>3
<1>6. ASSUME NEW d \in Clients, PollStdin(d) \/ Input(d)
      PROVE  (c = d => Asks(c)) /\ (c # d => StreamKept(c))
  <2> DEFINE m == Len(asked[d]) + 1
  <2>1. PICK n \in Nat, l \in {line[d] \o Message(m), line[d] \o LongMessage(m)} :
          /\ asked' = Put(asked, d, Append(asked[d], n)) /\ line' = Put(line, d, l)
          /\ Ascii => l = line[d] \o Message(m)
          /\ UNCHANGED in
    BY <1>6, AnswersAssumption DEF PollStdin, Input
  <2>2. ASSUME c = d  PROVE Asks(c)
    <3>1. in'[c] = in[c] /\ line'[c] = l /\ asked'[c] = Append(asked[c], n)
      BY <2>1, <2>2 DEF Put, Types
    <3>2. m \in Nat  BY <1>t, <2>2
    <3> HIDE DEF m
    <3>3. Message(m) \in Seq(Pieces) /\ LongMessage(m) \in Seq(Pieces)
      BY <3>2 DEF Message, LongMessage, Piece, Pieces
    <3>4. /\ in[c] \o (line[c] \o Message(m)) = (in[c] \o line[c]) \o Message(m)
          /\ in[c] \o (line[c] \o LongMessage(m)) = (in[c] \o line[c]) \o LongMessage(m)
      <4> DEFINE i == in[c]
                 j == line[c]
      <4>1. i \in Seq(Pieces) /\ j \in Seq(Pieces)  BY <1>t
      <4> HIDE DEF i, j
      <4>2. ASSUME NEW k \in Seq(Pieces)  PROVE i \o (j \o k) = (i \o j) \o k
        BY <4>1, ConcatAssociative
      <4>3. QED  BY <3>3, <4>2 DEF i, j
    <3>5. \/ Stream(c)' = Stream(c) \o Message(m)
          \/ ~Ascii /\ Stream(c)' = Stream(c) \o LongMessage(m)
      BY <2>1, <2>2, <3>1, <3>4 DEF Stream
    <3>6. QED  BY <1>6, <2>2, <3>1, <3>5 DEF Asks, m
  <2>3. ASSUME c # d  PROVE StreamKept(c)
    <3>1. in'[c] = in[c] /\ line'[c] = line[c] /\ asked'[c] = asked[c]
      BY <2>1, <2>3 DEF Put, Types
    <3>2. QED  BY <1>1, <3>1 DEF StreamKept
  <2>4. QED  BY <2>2, <2>3
<1>7. ASSUME NEW d \in Clients, HangUp(d)
      PROVE  StreamKept(c) \/ BreaksOff(c)
  <2>1. /\ UNCHANGED <<in, asked>> /\ cp'[d] = "gone"
        /\ \/ UNCHANGED line
           \/ HangUps = "anytime" /\ line' = Put(line, d, <<>>)
    BY <1>7 DEF HangUp, Put, Types
  <2>2. CASE UNCHANGED line  BY <1>1, <2>1, <2>2 DEF StreamKept
  <2>3. CASE HangUps = "anytime" /\ line' = Put(line, d, <<>>)
    <3>1. CASE c = d
      <4>1. line'[c] = <<>>  BY <2>3, <3>1 DEF Put, Types
      <4>2. Stream(c)' = in[c]  BY <1>t, <2>1, <4>1 DEF Stream
      <4>3. QED  BY <1>7, <2>1, <2>3, <3>1, <4>2 DEF BreaksOff
    <3>2. CASE c # d
      <4>1. line'[c] = line[c]  BY <2>3, <3>2 DEF Put, Types
      <4>2. QED  BY <1>1, <2>1, <4>1 DEF StreamKept
    <3>3. QED  BY <3>1, <3>2
  <2>4. QED  BY <2>1, <2>2, <2>3
<1>8. ASSUME NEW d \in Clients, Deliver(d)
      PROVE  StreamKept(c)
  <2>1. /\ line[d] # <<>> /\ in' = Put(in, d, Append(in[d], Head(line[d])))
        /\ line' = Put(line, d, Tail(line[d])) /\ UNCHANGED asked
    BY <1>8 DEF Deliver, client
  <2>2. CASE c = d
    <3>1. in'[c] = Append(in[c], Head(line[c])) /\ line'[c] = Tail(line[c])
      BY <2>1, <2>2 DEF Put, Types
    <3>2. Append(in[c], Head(line[c])) \o Tail(line[c]) = in[c] \o line[c]
      BY <1>t, <2>1, <2>2, ConcatMove
    <3>3. QED  BY <2>1, <3>1, <3>2 DEF Stream, StreamKept
  <2>3. CASE c # d
    <3>1. in'[c] = in[c] /\ line'[c] = line[c]  BY <2>1, <2>3 DEF Put, Types
    <3>2. QED  BY <1>1, <2>1, <3>1 DEF StreamKept
  <2>4. QED  BY <2>2, <2>3
<1>9. ASSUME UNCHANGED vars  PROVE StreamKept(c)
  BY <1>1, <1>9 DEF vars, client, StreamKept
<1>10. Quiet => StreamKept(c)  BY <1>2, <1>3, <1>4, <1>8, <1>9 DEF Quiet
<1>11. QED  BY <1>s, <1>5, <1>6, <1>7, <1>10

\* What a step does to them.
LEMMA StreamStep ==
  ASSUME Types, [Next]_vars, NEW c \in Clients
  PROVE  /\ Stream(c) \in Seq(Pieces)
         /\ StreamKept(c) \/ Takes(c) \/ Asks(c) \/ BreaksOff(c)
<1>1. \/ Quiet \/ RecvHead \/ RecvBody \/ Swallow
      \/ \E d \in Clients : PollStdin(d) \/ Input(d) \/ HangUp(d)
  BY DEF Next, Work, Answering, Quiet
<1>2. QED  BY <1>1, StreamSteps

-----------------------------------------------------------------------------
(* Requests are known to have been sent.                                   *)

\* Pieces, messages and answers are of requests that were sent.
Known ==
  /\ \A c \in Clients : Numbered(Stream(c), Len(asked[c]))
  /\ \A i \in 1..Len(msgs) : msgs[i].req \in 1..Len(asked[msgs[i].from])
  /\ msgs # <<>> => done <= asked[To][Head(msgs).req]

\* What was asked stays asked.
AskedStays(c) ==
  /\ Len(asked[c]) <= Len(asked'[c])
  /\ \A i \in 1..Len(asked[c]) : asked'[c][i] = asked[c][i]

\* No step takes a request back.
LEMMA AskedStep ==
  ASSUME Types, [Next]_vars, NEW c \in Clients
  PROVE  AskedStays(c)
<1>1. asked[c] \in Seq(Nat)  BY DEF Types
<1>2. asked'[c] = asked[c] \/ \E n \in Nat : asked'[c] = Append(asked[c], n)
  BY StreamStep DEF StreamKept, Takes, Asks, BreaksOff
<1>3. QED  BY <1>1, <1>2 DEF AskedStays

\* The steps that change the messages to execute.
Sends == /\ Send \/ SendToGone
         /\ pc = "run" /\ msgs # <<>> /\ done < asked[To][Head(msgs).req]
         /\ done' = done + 1 /\ UNCHANGED <<msgs, asked, in, line, events>>

\* The other steps leave the messages alone.
LEMMA MsgsStep ==
  ASSUME [Next]_vars
  PROVE  UNCHANGED <<msgs, done>> \/ RecvBody \/ Sends \/ NextMessage
<1>1. \/ RecvBody \/ NextMessage \/ Send \/ SendToGone
      \/ UNCHANGED <<msgs, done>>
  <2>1. ASSUME NEW b \in Batches, Wait(b)  PROVE UNCHANGED <<msgs, done>>
    BY <2>1 DEF Wait
  <2>2. ASSUME Hup \/ RecvHead \/ RecvEnd \/ Swallow \/ Received \/ Loop \/ UNCHANGED vars
        PROVE  UNCHANGED <<msgs, done>>
    BY <2>2 DEF Hup, RecvHead, RecvEnd, Swallow, Received, Loop, server, vars
  <2>3. ASSUME NEW c \in Clients,
               \/ Accept(c) \/ Register(c) \/ PollStdin(c) \/ Answering(c) \/ HangUp(c)
               \/ Deliver(c) \/ DeliverEnd(c)
        PROVE  UNCHANGED <<msgs, done>>
    BY <2>3 DEF Accept, Register, PollStdin, Answering, PollSocket, GetName, Input, GetInput,
                ReadOn, HangUp, Deliver, DeliverEnd, server
  <2>4. QED  BY <2>1, <2>2, <2>3 DEF Next, Work
<1>2. ASSUME Send \/ SendToGone  PROVE Sends
  BY <1>2 DEF Sends, Send, SendToGone, Owes, client
<1>3. QED  BY <1>1, <1>2

\* Known holds at first, and every step keeps it.
LEMMA KnownInit == Init => Known
<1> SUFFICES ASSUME Init PROVE Known  OBVIOUS
<1>1. msgs = <<>> /\ \A c \in Clients : Stream(c) = <<>>  BY DEF Init, Stream
<1>2. QED  BY <1>1 DEF Known, Numbered

\* Every step keeps the numbers of the pieces.
LEMMA NumberedStep ==
  ASSUME Types, Known, [Next]_vars, NEW c \in Clients
  PROVE  Numbered(Stream(c)', Len(asked'[c]))
<1>1. /\ Stream(c) \in Seq(Pieces) /\ in[c] \in Seq(Pieces) /\ line[c] \in Seq(Pieces)
      /\ asked[c] \in Seq(Nat) /\ Numbered(Stream(c), Len(asked[c]))
  BY StreamStep DEF Types, Known
<1>2. CASE StreamKept(c)  BY <1>1, <1>2 DEF StreamKept
<1>3. CASE Takes(c)
  <2> DEFINE s == Stream(c)
             t == Stream(c)'
  <2>1. s \in Seq(Pieces) /\ s # <<>> /\ t = Tail(s) /\ asked'[c] = asked[c]
    BY <1>1, <1>3 DEF Takes
  <2>2. Numbered(s, Len(asked[c]))  BY <1>1
  <2> HIDE DEF s, t
  <2>3. \A i \in 1..Len(t) : i + 1 \in 1..Len(s) /\ t[i] = s[i + 1]  BY <2>1, TailOf
  <2>4. Numbered(t, Len(asked[c]))  BY <2>2, <2>3 DEF Numbered
  <2>5. QED  BY <2>1, <2>4 DEF t
<1>4. CASE Asks(c)
  <2> DEFINE n == Len(asked[c])
             s == Stream(c)
             t == Stream(c)'
  <2>1. /\ n \in Nat /\ Len(asked'[c]) = n + 1 /\ s \in Seq(Pieces) /\ Numbered(s, n)
        /\ t = s \o Message(n + 1) \/ (~Ascii /\ t = s \o LongMessage(n + 1))
    BY <1>1, <1>4 DEF Asks
  <2> HIDE DEF n, s, t
  <2>2. Numbered(t, n + 1)  BY <2>1, NumberedAsk
  <2>3. QED  BY <2>1, <2>2 DEF t
<1>5. CASE BreaksOff(c)
  <2> DEFINE s == in[c]
             u == line[c]
             t == Stream(c)'
  <2>1. t = s /\ asked'[c] = asked[c]  BY <1>5 DEF BreaksOff
  <2>2. s \in Seq(Pieces) /\ u \in Seq(Pieces) /\ Numbered(s \o u, Len(asked[c]))
    BY <1>1 DEF Stream
  <2> HIDE DEF s, t, u
  <2>3. \A i \in 1..Len(s) : i \in 1..Len(s \o u) /\ (s \o u)[i] = s[i]
    <3>1. /\ Len(s \o u) = Len(s) + Len(u) /\ \A i \in 1..Len(s) : (s \o u)[i] = s[i]
      BY <2>2, Joined
    <3>2. Len(s) \in Nat /\ Len(u) \in Nat  BY <2>2
    <3>3. QED  BY <3>1, <3>2
  <2>4. Numbered(s, Len(asked[c]))  BY <2>2, <2>3 DEF Numbered
  <2>5. QED  BY <2>1, <2>4 DEF t
<1>6. QED  BY <1>2, <1>3, <1>4, <1>5, StreamStep

\* Every step keeps what is known of the pieces.
LEMMA KnownStep == Types /\ Batch /\ Known /\ [Next]_vars => Known'
<1> SUFFICES ASSUME Types, Batch, Known, [Next]_vars PROVE Known'  OBVIOUS
<1>1. \A c \in Clients : Numbered(Stream(c), Len(asked[c]))'
  <2>1. \A c \in Clients : Numbered(Stream(c)', Len(asked'[c]))  BY NumberedStep
  <2>2. QED  BY <2>1 DEF Numbered
<1>2. msgs \in Seq([from : Clients, req : Nat]) /\ done \in Nat  BY DEF Types
<1>3. ASSUME NEW i \in 1..Len(msgs)
      PROVE  /\ msgs[i].from \in Clients /\ msgs[i].req \in 1..Len(asked[msgs[i].from])
             /\ msgs[i].req \in 1..Len(asked'[msgs[i].from])
             /\ asked'[msgs[i].from][msgs[i].req] = asked[msgs[i].from][msgs[i].req]
             /\ asked[msgs[i].from][msgs[i].req] \in Nat
  <2>1. msgs[i] \in [from : Clients, req : Nat]  BY <1>2, ElementOfSeq
  <2>2. msgs[i].from \in Clients /\ msgs[i].req \in 1..Len(asked[msgs[i].from])
    BY <2>1 DEF Known
  <2>3. asked[msgs[i].from] \in Seq(Nat)  BY <2>2 DEF Types
  <2>4. AskedStays(msgs[i].from)  BY <2>2, AskedStep
  <2>5. asked'[msgs[i].from] \in Seq(Nat)  BY <2>2, TypesStep DEF Types
  <2> DEFINE c == msgs[i].from
             r == msgs[i].req
  <2>6. c \in Clients /\ r \in 1..Len(asked[c])  BY <2>2
  <2> HIDE DEF c, r
  <2>7. asked[c] \in Seq(Nat) /\ asked'[c] \in Seq(Nat) /\ AskedStays(c)
    BY <2>3, <2>4, <2>5 DEF c
  <2>8. asked[c][r] \in Nat /\ r \in 1..Len(asked'[c]) /\ asked'[c][r] = asked[c][r]
    BY <2>6, <2>7 DEF AskedStays
  <2>9. QED  BY <2>6, <2>8 DEF c, r
<1>h. msgs # <<>> => 1 \in 1..Len(msgs) /\ Head(msgs) = msgs[1]  BY <1>2
<1>4. CASE UNCHANGED <<msgs, done>>
  <2>1. \A i \in 1..Len(msgs') : msgs'[i].req \in 1..Len(asked'[msgs'[i].from])
    BY <1>3, <1>4
  <2>2. msgs' # <<>> => done' <= asked'[To'][Head(msgs').req]
    BY <1>3, <1>4, <1>h DEF Known, To
  <2>3. QED  BY <1>1, <2>1, <2>2 DEF Known
<1>5. CASE RecvBody
  <2> DEFINE c == Head(events).from
             m == [from |-> c, req |-> Head(in[c]).req]
  <2>1. /\ msgs' = Append(msgs, m) /\ done' = done /\ done = 0 /\ UNCHANGED asked
        /\ c \in Clients /\ in[c] # <<>>
    <3>1. events # <<>> /\ events \in Seq([from : Clients, hup : BOOLEAN])
      BY <1>5 DEF RecvBody, Types
    <3>2. Head(events) \in [from : Clients, hup : BOOLEAN]  BY <3>1, TailOf
    <3>3. QED  BY <1>5, <3>2 DEF RecvBody, client, Batch
  <2>2. Head(in[c]).req \in 1..Len(asked[c])
    <3>1. in[c] \in Seq(Pieces) /\ line[c] \in Seq(Pieces)  BY <2>1 DEF Types
    <3>2. Stream(c) # <<>> /\ Stream(c)[1] = Head(in[c]) /\ Stream(c) \in Seq(Pieces)
      BY <2>1, <3>1, ConcatTail DEF Stream
    <3>3. 1 \in 1..Len(Stream(c))  BY <3>2
    <3>4. QED  BY <2>1, <3>2, <3>3 DEF Known, Numbered
  <2>3. m.from = c /\ m.req = Head(in[c]).req  OBVIOUS
  <2>t. m \in [from : Clients, req : Nat]  BY <2>1, <2>2
  <2> HIDE DEF c, m
  <2>4. /\ Len(msgs') = Len(msgs) + 1 /\ msgs'[Len(msgs) + 1] = m /\ Len(msgs) \in Nat
        /\ \A i \in 1..Len(msgs) : msgs'[i] = msgs[i]
    BY <1>2, <2>1
  <2>5. ASSUME NEW i \in 1..Len(msgs')
        PROVE  /\ msgs'[i].req \in 1..Len(asked[msgs'[i].from])
               /\ asked[msgs'[i].from][msgs'[i].req] \in Nat
    <3>1. CASE i \in 1..Len(msgs)  BY <1>3, <2>4, <3>1
    <3>2. CASE i \notin 1..Len(msgs)
      <4>1. msgs'[i] = m  BY <2>4, <3>2
      <4>2. asked[c] \in Seq(Nat)  BY <2>1 DEF Types
      <4>3. QED  BY <2>2, <2>3, <4>1, <4>2
    <3>3. QED  BY <3>1, <3>2
  <2>6. done' <= asked'[To'][Head(msgs').req]
    <3>1. 1 \in 1..Len(msgs') /\ Head(msgs') = msgs'[1]
      <4>1. msgs' \in Seq([from : Clients, req : Nat]) /\ msgs' # <<>>
        BY <1>2, <2>t, <2>1
      <4>2. QED  BY <4>1
    <3>2. asked[msgs'[1].from][msgs'[1].req] \in Nat  BY <2>5, <3>1
    <3>3. QED  BY <2>1, <3>1, <3>2 DEF To
  <2>7. QED  BY <1>1, <2>1, <2>5, <2>6 DEF Known
<1>6. CASE Sends
  <2>1. /\ UNCHANGED <<msgs, asked>> /\ msgs # <<>> /\ done' = done + 1
        /\ done < asked[To][Head(msgs).req]
    BY <1>6 DEF Sends
  <2>2. asked[To][Head(msgs).req] \in Nat  BY <1>3, <1>h, <2>1 DEF To
  <2>3. done' <= asked'[To'][Head(msgs').req]  BY <1>2, <2>1, <2>2 DEF To
  <2>4. QED  BY <1>1, <2>1, <2>3 DEF Known
<1>7. CASE NextMessage
  <2>1. msgs' = Tail(msgs) /\ msgs # <<>> /\ done' = 0 /\ UNCHANGED asked
    BY <1>7 DEF NextMessage, client
  <2>2. /\ Len(msgs') = Len(msgs) - 1 /\ msgs' \in Seq([from : Clients, req : Nat])
        /\ \A i \in 1..Len(msgs') : i + 1 \in 1..Len(msgs) /\ msgs'[i] = msgs[i + 1]
    BY <1>2, <2>1, TailOf
  <2>3. \A i \in 1..Len(msgs') : /\ msgs'[i].req \in 1..Len(asked'[msgs'[i].from])
                                 /\ asked'[msgs'[i].from][msgs'[i].req] \in Nat
    BY <1>3, <2>1, <2>2
  <2>4. msgs' # <<>> => done' <= asked'[To'][Head(msgs').req]
    <3> SUFFICES ASSUME msgs' # <<>> PROVE done' <= asked'[To'][Head(msgs').req]
      OBVIOUS
    <3>1. 1 \in 1..Len(msgs') /\ Head(msgs') = msgs'[1]  BY <2>2
    <3>2. asked'[msgs'[1].from][msgs'[1].req] \in Nat  BY <2>3, <3>1
    <3>3. QED  BY <2>1, <3>1, <3>2 DEF To
  <2>5. QED  BY <1>1, <2>3, <2>4 DEF Known
<1>8. QED  BY <1>4, <1>5, <1>6, <1>7, MsgsStep

-----------------------------------------------------------------------------
(* Where the server is with the requests of a client.                      *)

\* What the users and the clients are held to.
Reliable == Ascii /\ HangUps # "anytime"

\* The thread waits for the body of a request of c; it swallows what c sends.
AtBody(c)  == pc = "body" /\ Head(events).from = c
Starved(c) == pc = "starved" /\ Head(events).from = c

\* The clients whose requests come in whole.
Tracked(c) == (cp[c] # "gone" \/ Reliable) /\ ~Starved(c)

\* How many of the requests have been received.
Taken(c) == Coming(Stream(c), Len(asked[c]))

\* The pieces of c are whole requests, except for the one being received.
Flow(c) ==
  /\ UpTo(Stream(c), Len(asked[c]))
  /\ AtBody(c) <=> (Stream(c) # <<>> /\ Stream(c)[1].part = "body")

\* d answers have been sent to request r of c, which is to be executed; none is.
Holds(c, r, d) ==
  \E i \in 1..Len(msgs) :
    msgs[i].from = c /\ msgs[i].req = r /\ d = IF i = 1 THEN done ELSE 0

\* No request of c is to be executed.
Idle(c) == \A i \in 1..Len(msgs) : msgs[i].from # c

\* p answers are done with.
Here(c, p) ==
  /\ p >= read[c] + Len(out[c])
  /\ cp[c] # "gone" => p = read[c] + Len(out[c])

\* The answers that are done with are those before the request in hand, and
\* those of it that were sent.
Place(c) ==
  /\ \A r, d \in Nat : Holds(c, r, d) =>
       /\ r = Taken(c) /\ r \in 1..Len(asked[c])
       /\ Here(c, Off(asked[c], r) + d)
  /\ Idle(c) => Here(c, Off(asked[c], Taken(c) + 1))

\* All of this is so of the clients whose requests come in whole.
Follow(c) == Tracked(c) => Flow(c) /\ Place(c)

\* The other messages are not in the way.
HoldsKept(c) ==
  /\ \A r, d \in Nat : Holds(c, r, d)' => Holds(c, r, d)
  /\ Idle(c)' => Idle(c)

\* No message comes or goes.
LEMMA HoldsSame ==
  ASSUME UNCHANGED <<msgs, done>>, NEW c  PROVE HoldsKept(c)
BY DEF HoldsKept, Holds, Idle

\* A message is received, answered, and done with.
LEMMA HoldsReceived ==
  ASSUME Types, NEW m \in [from : Clients, req : Nat], msgs' = Append(msgs, m),
         done' = 0, done = 0, NEW c \in Clients
  PROVE  IF c = m.from
         THEN /\ \A r, d \in Nat : Holds(c, r, d)' => (r = m.req /\ d = 0) \/ Holds(c, r, d)
              /\ ~Idle(c)'
         ELSE HoldsKept(c)
<1>1. /\ Len(msgs') = Len(msgs) + 1 /\ msgs'[Len(msgs) + 1] = m /\ Len(msgs) \in Nat
      /\ \A i \in 1..Len(msgs) : msgs'[i] = msgs[i]
  <2>1. msgs \in Seq([from : Clients, req : Nat])  BY DEF Types
  <2>2. QED  BY <2>1
<1>2. ASSUME NEW r \in Nat, NEW d \in Nat, Holds(c, r, d)'
      PROVE  (c = m.from /\ r = m.req /\ d = 0) \/ Holds(c, r, d)
  <2>1. PICK i \in 1..Len(msgs') :
          msgs'[i].from = c /\ msgs'[i].req = r /\ d = IF i = 1 THEN done' ELSE 0
    BY <1>2 DEF Holds
  <2>2. CASE i \in 1..Len(msgs)
    <3>1. msgs[i].from = c /\ msgs[i].req = r /\ d = IF i = 1 THEN done ELSE 0
      BY <1>1, <2>1, <2>2
    <3>2. QED  BY <2>2, <3>1 DEF Holds
  <2>3. CASE i \notin 1..Len(msgs)
    <3>1. i = Len(msgs) + 1  BY <1>1, <2>3
    <3>2. QED  BY <1>1, <2>1, <3>1
  <2>4. QED  BY <2>2, <2>3
<1>3. c = m.from => ~Idle(c)'
  <2>1. Len(msgs) + 1 \in 1..Len(msgs')  BY <1>1
  <2>2. QED  BY <1>1, <2>1 DEF Idle
<1>4. Idle(c)' => Idle(c)
  <2>1. \A i \in 1..Len(msgs) : i \in 1..Len(msgs')  BY <1>1
  <2>2. QED  BY <1>1, <2>1 DEF Idle
<1>5. QED  BY <1>2, <1>3, <1>4 DEF HoldsKept

\* The first message is in hand.
LEMMA HoldsFirst ==
  ASSUME Types, msgs # <<>>
  PROVE  /\ Holds(To, Head(msgs).req, done) /\ Head(msgs).req \in Nat /\ To \in Clients
         /\ ~Idle(To)
<1>1. 1 \in 1..Len(msgs) /\ Head(msgs) = msgs[1] /\ Head(msgs) \in [from : Clients, req : Nat]
  <2> DEFINE S == [from : Clients, req : Nat]
  <2>1. msgs \in Seq(S)  BY DEF Types
  <2> HIDE DEF S
  <2>2. Head(msgs) \in S /\ Head(msgs) = msgs[1] /\ Len(msgs) \in Nat /\ Len(msgs) >= 1
    BY <2>1, TailOf
  <2>3. QED  BY <2>2 DEF S
<1>2. Head(msgs).req \in Nat /\ Head(msgs).from \in Clients  BY <1>1
<1>3. QED  BY <1>1, <1>2 DEF Holds, Idle, To

LEMMA HoldsSent ==
  ASSUME Types, Batch, Sends, NEW c \in Clients
  PROVE  IF c = To
         THEN /\ \A r, d \in Nat : Holds(c, r, d)' => r = Head(msgs).req /\ d = done + 1
              /\ ~Idle(c)'
         ELSE HoldsKept(c)
<1>1. /\ msgs' = msgs /\ done' = done + 1 /\ 1 \in 1..Len(msgs) /\ Head(msgs) = msgs[1]
  BY DEF Sends, Types
<1>2. ASSUME NEW r \in Nat, NEW d \in Nat, Holds(c, r, d)'
      PROVE  (c = To /\ r = Head(msgs).req /\ d = done + 1) \/ (c # To /\ Holds(c, r, d))
  <2>1. PICK i \in 1..Len(msgs) :
          msgs[i].from = c /\ msgs[i].req = r /\ d = IF i = 1 THEN done' ELSE 0
    BY <1>1, <1>2 DEF Holds
  <2>2. CASE i = 1  BY <1>1, <2>1, <2>2 DEF To
  <2>3. CASE i # 1
    <3>1. c # To  BY <1>1, <2>1, <2>3 DEF To, Batch, Once
    <3>2. d = IF i = 1 THEN done ELSE 0  BY <2>1, <2>3
    <3>3. QED  BY <2>1, <3>1, <3>2 DEF Holds
  <2>4. QED  BY <2>2, <2>3
<1>3. Idle(c)' => Idle(c)  BY <1>1 DEF Idle
<1>4. c = To => ~Idle(c)'  BY <1>1 DEF Idle, To
<1>5. QED  BY <1>2, <1>3, <1>4 DEF HoldsKept

LEMMA HoldsDone ==
  ASSUME Types, Batch, NextMessage, NEW c \in Clients
  PROVE  IF c = To THEN \A r, d \in Nat : ~Holds(c, r, d)' ELSE HoldsKept(c)
<1>1. /\ msgs # <<>> /\ msgs' = Tail(msgs) /\ done' = 0
      /\ 1 \in 1..Len(msgs) /\ Head(msgs) = msgs[1] /\ Len(msgs') = Len(msgs) - 1
      /\ \A i \in 1..Len(msgs') : i + 1 \in 1..Len(msgs) /\ msgs'[i] = msgs[i + 1] /\ i + 1 # 1
  <2>1. msgs \in Seq([from : Clients, req : Nat]) /\ msgs # <<>> /\ msgs' = Tail(msgs) /\ done' = 0
    BY DEF NextMessage, Types
  <2>2. QED  BY <2>1, TailOf
<1>2. ASSUME NEW r \in Nat, NEW d \in Nat, Holds(c, r, d)'
      PROVE  c # To /\ Holds(c, r, d)
  <2>1. PICK i \in 1..Len(msgs') :
          msgs'[i].from = c /\ msgs'[i].req = r /\ d = IF i = 1 THEN done' ELSE 0
    BY <1>2 DEF Holds
  <2>2. i + 1 \in 1..Len(msgs) /\ msgs'[i] = msgs[i + 1] /\ i + 1 # 1 /\ d = 0
    BY <1>1, <2>1
  <2>3. c # To  BY <1>1, <2>1, <2>2 DEF To, Batch, Once
  <2>4. QED  BY <2>1, <2>2, <2>3 DEF Holds
<1>3. ASSUME c # To, Idle(c)'  PROVE Idle(c)
  <2> SUFFICES ASSUME NEW i \in 1..Len(msgs) PROVE msgs[i].from # c  BY DEF Idle
  <2>1. CASE i = 1  BY <1>1, <1>3, <2>1 DEF To
  <2>2. CASE i # 1
    <3>1. msgs \in Seq([from : Clients, req : Nat])  BY DEF Types
    <3>2. i - 1 \in 1..Len(msgs') /\ i - 1 + 1 = i  BY <1>1, <2>2, <3>1
    <3>3. QED  BY <1>1, <1>3, <3>2 DEF Idle
  <2>3. QED  BY <2>1, <2>2
<1>4. QED  BY <1>2, <1>3 DEF HoldsKept

\* Nothing of c is touched, except that it may end.
LEMMA FollowKept ==
  ASSUME NEW c \in Clients, Follow(c), StreamKept(c), HoldsKept(c),
         Starved(c) => Starved(c)', AtBody(c)' <=> AtBody(c),
         cp'[c] # "gone" => cp[c] # "gone", c \in failed' => c \in failed,
         read'[c] + Len(out'[c]) = read[c] + Len(out[c])
  PROVE  Follow(c)'
<1> SUFFICES ASSUME Tracked(c)' PROVE Flow(c)' /\ Place(c)'  BY DEF Follow
<1>1. Tracked(c)  BY DEF Tracked, Reliable
<1>2. Flow(c) /\ Place(c)  BY <1>1 DEF Follow
<1>3. Stream(c)' = Stream(c) /\ asked'[c] = asked[c]  BY DEF StreamKept
<1>4. Flow(c)'
  <2>1. UpTo(Stream(c), Len(asked[c]))'  BY <1>2, <1>3 DEF Flow, UpTo, Follows, Piece
  <2>2. QED  BY <1>2, <1>3, <2>1 DEF Flow
<1>5. Taken(c)' = Taken(c)  BY <1>3 DEF Taken, Coming
<1>6. \A p : Here(c, p) => Here(c, p)'
  BY <1>3 DEF Here
<1>7. \A i : Off(asked[c], i)' = Off(asked[c], i)
  BY <1>3 DEF Off, Some, All, Rows, Row
<1>8. Place(c)'
  BY <1>2, <1>3, <1>5, <1>6, <1>7 DEF Place, HoldsKept
<1>9. QED  BY <1>4, <1>8

-----------------------------------------------------------------------------
(* The inductive invariant.                                                *)

\* Clients that have ended; and those whose user waits for an answer.
Ended ==
  \A c \in Clients : /\ fin[c] => cp[c] = "gone" /\ line[c] = <<>>
                     /\ c \in failed => cp[c] = "gone"

\* A patient user whose client reads whole answers has had all of them when the
\* prompt is due, but the one to working_db; one that asks for one thing at a time
\* waits for one at most.
Turn(c) ==
  /\ ~skew[c]
  /\ cp[c] = "name" => /\ asked[c] # <<>> /\ asked[c][Len(asked[c])] = 1
                       /\ Len(All(asked[c])) = read[c] + 1
  /\ cp[c] = "input" => Len(All(asked[c])) = read[c]
  /\ AnswerCounts \subseteq {0, 1} => Len(All(asked[c])) <= read[c] + 1

Turns == Patient /\ WholeReads => \A c \in Clients : Turn(c)

\* What the thread never comes to.
Safe == Reliable => pc \notin {"starved", "spin"}

\* The answers read and waiting are those to the requests sent, in order.
InOrder(c) ==
  /\ read[c] <= Len(All(asked[c]))
  /\ \A i \in 1..Len(out[c]) :
       read[c] + i <= Len(All(asked[c])) /\ out[c][i] = All(asked[c])[read[c] + i]

Following == \A c \in Clients : Follow(c)
Orders   == \A c \in Clients : InOrder(c)

\* The pieces of a client that has ended follow each other, wherever they end.
Links(s) == \A i \in 1..Len(s) - 1 : Follows(s[i], s[i + 1])

Cut(c) ==
  cp[c] = "gone" /\ ~Starved(c) =>
    /\ Links(Stream(c))
    /\ AtBody(c) /\ Stream(c) # <<>> => Stream(c)[1].part = "body"

\* The answers of which c has nothing any more, or may still read them: after one
\* was sent to a client that had ended, at least one more.
Spent(c) == read[c] + Len(out[c]) + (IF c \in failed THEN 1 ELSE 0)

\* The bodies come in the order of their requests.
Rising(s) ==
  \A i, j \in 1..Len(s) :
    i < j /\ s[i].part = "body" /\ s[j].part = "body" => s[i].req < s[j].req

\* All answers to the requests that are to be executed, or to be received, are
\* still due, but for those to the first that were sent.
Due(c) ==
  /\ Rising(Stream(c))
  /\ \A j \in 1..Len(Stream(c)) :
       Stream(c)[j].part = "body" => Spent(c) <= Off(asked[c], Stream(c)[j].req)
  /\ \A r, d \in Nat : Holds(c, r, d) =>
       /\ r \in 1..Len(asked[c]) /\ Spent(c) <= Off(asked[c], r) + d
       /\ \A j \in 1..Len(Stream(c)) :
            Stream(c)[j].part = "body" => r < Stream(c)[j].req

Dues == \A c \in Clients : Cut(c) /\ Due(c)

\* Whoever kills the server is owed two answers.
Owing ==
  pc = "dead" => \E c \in failed : cp[c] = "gone" /\ Len(All(asked[c])) >= read[c] + 2

\* The invariant.
SInv ==
  /\ Types /\ Batch /\ Known /\ Ended /\ Turns /\ Safe /\ Following /\ Orders
  /\ Dues /\ Owing

\* The invariant holds at first.
LEMMA SInvInit == Init => SInv
<1> SUFFICES ASSUME Init PROVE SInv  OBVIOUS
<1>1. Types /\ Batch /\ Known  BY TypesInit, BatchInit, KnownInit
<1>2. /\ msgs = <<>> /\ pc = "wait"
      /\ \A c \in Clients : /\ in[c] = <<>> /\ line[c] = <<>> /\ out[c] = <<>> /\ asked[c] = <<>>
                            /\ read[c] = 0 /\ cp[c] = "poll" /\ fin[c] = FALSE /\ c \notin failed
                            /\ skew[c] = FALSE
  BY DEF Init
<1>3. ASSUME NEW c \in Clients  PROVE Follow(c) /\ Turn(c) /\ InOrder(c)
  <2>1. Stream(c) = <<>> /\ Len(asked[c]) = 0 /\ Len(out[c]) = 0  BY <1>2 DEF Stream
  <2>2. Flow(c)  BY <1>2, <2>1 DEF Flow, UpTo, AtBody
  <2>3. Taken(c) + 1 - 1 = 0 /\ Taken(c) = 0  BY <2>1 DEF Taken, Coming
  <2>4. Some(asked[c], 0) = <<>>  BY <1>2 DEF Some
  <2>5. Off(asked[c], Taken(c) + 1) = 0  BY <2>3, <2>4, AllEmpty DEF Off
  <2>6. Place(c)  BY <1>2, <2>1, <2>5 DEF Place, Holds, Idle, Here
  <2>7. Len(All(asked[c])) = 0  BY <1>2, AllEmpty
  <2>8. Turn(c)  BY <1>2, <2>7 DEF Turn
  <2>9. QED  BY <1>2, <2>1, <2>2, <2>6, <2>7, <2>8 DEF Follow, InOrder
<1>4. Ended /\ Safe /\ Owing  BY <1>2 DEF Ended, Safe, Owing
<1>5. ASSUME NEW c \in Clients  PROVE Cut(c) /\ Due(c)
  <2>1. Stream(c) = <<>> /\ cp[c] = "poll"  BY <1>2 DEF Stream
  <2>2. Len(Stream(c)) = 0 /\ \A r, d : ~Holds(c, r, d)  BY <1>2, <2>1 DEF Holds
  <2>3. QED  BY <2>1, <2>2 DEF Cut, Due, Rising
<1>6. QED  BY <1>1, <1>3, <1>4, <1>5 DEF SInv, Turns, Following, Orders, Dues

\* Nothing comes of a client that has ended.
LEMMA EndedStep == Types /\ Ended /\ [Next]_vars => Ended'
<1> SUFFICES ASSUME Types, Ended, [Next]_vars, NEW c \in Clients
             PROVE  /\ fin'[c] => cp'[c] = "gone" /\ line'[c] = <<>>
                    /\ c \in failed' => cp'[c] = "gone"
  BY DEF Ended
<1> USE DEF Ended
<1>1. ASSUME NEW b \in Batches, Wait(b)  PROVE UNCHANGED <<fin, cp, line, failed>>
  BY <1>1 DEF Wait, client
<1>2. ASSUME Hup \/ RecvHead \/ RecvBody \/ RecvEnd \/ Swallow \/ Received \/ Send
             \/ NextMessage \/ Loop \/ UNCHANGED vars
      PROVE  UNCHANGED <<fin, cp, line, failed>>
  BY <1>2 DEF Hup, RecvHead, RecvBody, RecvEnd, Swallow, Received, Send, NextMessage, Loop, vars,
              server, client
<1>3. CASE SendToGone
  <2>1. /\ UNCHANGED <<fin, cp, line>> /\ failed' = failed \cup {To} /\ cp[To] = "gone"
    BY <1>3 DEF SendToGone, client
  <2>2. QED  BY <2>1
<1>4. ASSUME NEW d \in Clients, Accept(d) \/ Register(d)
      PROVE  UNCHANGED <<fin, cp, line, failed>>
  BY <1>4 DEF Accept, Register, client
<1>5. ASSUME NEW d \in Clients, PollStdin(d) \/ Answering(d)
      PROVE  /\ UNCHANGED <<fin, failed>> /\ cp[d] # "gone"
             /\ \A e \in Clients : e # d => cp'[e] = cp[e] /\ line'[e] = line[e]
  BY <1>5 DEF PollStdin, Answering, PollSocket, GetName, Input, GetInput, ReadOn, server, Put, Types
<1>6. ASSUME NEW d \in Clients, HangUp(d)
      PROVE  /\ UNCHANGED <<fin, failed>> /\ cp[d] # "gone"
             /\ \A e \in Clients : e # d => cp'[e] = cp[e] /\ line'[e] = line[e]
  BY <1>6 DEF HangUp, server, Put, Types
<1>7. ASSUME NEW d \in Clients, Deliver(d)
      PROVE  /\ UNCHANGED <<fin, failed, cp>> /\ line[d] # <<>>
             /\ \A e \in Clients : e # d => line'[e] = line[e]
  BY <1>7 DEF Deliver, server, client, Put, Types
<1>8. ASSUME NEW d \in Clients, DeliverEnd(d)
      PROVE  /\ UNCHANGED <<failed, cp, line>> /\ cp[d] = "gone" /\ line[d] = <<>>
             /\ \A e \in Clients : e # d => fin'[e] = fin[e]
  BY <1>8 DEF DeliverEnd, server, client, Put, Types
<1>9. CASE \E d \in Clients : PollStdin(d) \/ Answering(d) \/ HangUp(d)
  <2>1. PICK d \in Clients :
          /\ UNCHANGED <<fin, failed>> /\ cp[d] # "gone"
          /\ \A e \in Clients : e # d => cp'[e] = cp[e] /\ line'[e] = line[e]
    BY <1>5, <1>6, <1>9
  <2>2. QED  BY <2>1
<1>10. CASE \E d \in Clients : Deliver(d)
  <2>1. PICK d \in Clients :
          /\ UNCHANGED <<fin, failed, cp>> /\ line[d] # <<>>
          /\ \A e \in Clients : e # d => line'[e] = line[e]
    BY <1>7, <1>10
  <2>2. QED  BY <2>1
<1>11. CASE \E d \in Clients : DeliverEnd(d)
  <2>1. PICK d \in Clients :
          /\ UNCHANGED <<failed, cp, line>> /\ cp[d] = "gone" /\ line[d] = <<>>
          /\ \A e \in Clients : e # d => fin'[e] = fin[e]
    BY <1>8, <1>11
  <2>2. QED  BY <2>1
<1>12. QED  BY <1>1, <1>2, <1>3, <1>4, <1>9, <1>10, <1>11 DEF Next, Work

\* One answer is asked for more, or read.
LEMMA AllLonger ==
  ASSUME NEW a \in Seq(Nat), NEW n \in Nat
  PROVE  /\ Len(All(a)) \in Nat /\ Len(All(Append(a, n))) = Len(All(a)) + n
         /\ \A i \in 1..Len(All(a)) : All(Append(a, n))[i] = All(a)[i]
<1> DEFINE A == All(a)
           r == Row(Len(a) + 1, n)
<1>1. A \in Seq(Nat \X Nat) /\ r \in Seq(Nat \X Nat) /\ Len(r) = n
  <2>1. Len(a) + 1 \in Nat  OBVIOUS
  <2>2. r \in Seq(Nat \X Nat) /\ Len(r) = n  BY <2>1, RowType
  <2>3. A \in Seq(Nat \X Nat)  BY AllType
  <2>4. QED  BY <2>2, <2>3
<1>2. All(Append(a, n)) = A \o r  BY AllAppend
<1> HIDE DEF A, r
<1>3. /\ Len(A \o r) = Len(A) + Len(r) /\ \A i \in 1..Len(A) : (A \o r)[i] = A[i]
  BY <1>1, Joined
<1>4. QED  BY <1>1, <1>2, <1>3 DEF A

\* Users keep to their turns.
LEMMA TurnsStep == Types /\ Turns /\ Orders /\ [Next]_vars => Turns'
<1> SUFFICES ASSUME Types, Turns, Orders, [Next]_vars, Patient, WholeReads, NEW c \in Clients
             PROVE  Turn(c)'
  BY DEF Turns
<1>t. /\ asked[c] \in Seq(Nat) /\ read[c] \in Nat /\ Len(All(asked[c])) \in Nat /\ Turn(c)
      /\ read[c] <= Len(All(asked[c]))
  BY AllType DEF Types, Turns, Orders, InOrder
<1>e. Turn(c)' <=>
        /\ ~skew'[c]
        /\ cp'[c] = "name" => /\ asked'[c] # <<>> /\ asked'[c][Len(asked'[c])] = 1
                              /\ Len(All(asked'[c])) = read'[c] + 1
        /\ cp'[c] = "input" => Len(All(asked'[c])) = read'[c]
        /\ AnswerCounts \subseteq {0, 1} => Len(All(asked'[c])) <= read'[c] + 1
  BY DEF Turn, All, Rows, Row
<1>k. ASSUME asked'[c] = asked[c], read'[c] = read[c], skew'[c] = skew[c],
             cp'[c] = cp[c] \/ cp'[c] \in {"poll", "get", "gone"}
      PROVE  Turn(c)'
  BY <1>k, <1>e, <1>t DEF Turn
<1>1. ASSUME NEW b \in Batches, Wait(b)  PROVE UNCHANGED <<asked, read, cp, skew>>
  BY <1>1 DEF Wait, client
<1>2. ASSUME Work \/ UNCHANGED vars  PROVE UNCHANGED <<asked, read, cp, skew>>
  BY <1>2 DEF Work, Hup, RecvHead, RecvBody, RecvEnd, Swallow, Received, Send, SendToGone,
              NextMessage, Loop, vars, server, client
<1>3. ASSUME NEW d \in Clients, Accept(d) \/ Register(d) \/ Deliver(d) \/ DeliverEnd(d)
      PROVE  UNCHANGED <<asked, read, cp, skew>>
  BY <1>3 DEF Accept, Register, Deliver, DeliverEnd, client
<1>4. ASSUME NEW d \in Clients, d # c, PollStdin(d) \/ Answering(d) \/ HangUp(d)
      PROVE  /\ asked'[c] = asked[c] /\ read'[c] = read[c] /\ cp'[c] = cp[c]
             /\ skew'[c] = skew[c]
  BY <1>4 DEF PollStdin, Answering, PollSocket, GetName, Input, GetInput, ReadOn, ReadAnswer,
              ReadWhole, ReadShort, ReadSkewed, Take, HangUp, Put, Types
<1>5. CASE PollStdin(c)
  <2>1. /\ cp'[c] = "name" /\ read'[c] = read[c] /\ asked'[c] = Append(asked[c], 1)
        /\ skew'[c] = skew[c] /\ Unseen(c) <= 0
    BY <1>5 DEF PollStdin, Put, Types
  <2>2. Len(All(asked[c])) = read[c]
    <3>1. Len(All(asked[c])) - read[c] <= 0
      BY <1>t, <2>1, AnswersAreAll DEF Turn, Unseen, Owed
    <3>2. QED  BY <1>t, <3>1
  <2>3. Len(All(asked'[c])) = read'[c] + 1
    <3>1. Len(All(Append(asked[c], 1))) = Len(All(asked[c])) + 1  BY <1>t, AllLonger
    <3>2. QED  BY <2>1, <2>2, <3>1
  <2>4. asked'[c] # <<>> /\ asked'[c][Len(asked'[c])] = 1  BY <1>t, <2>1
  <2>5. ~skew'[c]  BY <1>t, <2>1 DEF Turn
  <2>6. QED  BY <1>e, <1>t, <2>1, <2>3, <2>4, <2>5
<1>6. CASE PollSocket(c)
  BY <1>6, <1>k DEF PollSocket, Put, Types
<1>r. ASSUME ReadAnswer(c)
      PROVE  read'[c] = read[c] + 1 /\ ~skew'[c]
  <2>1. ~skew[c]  BY <1>t DEF Turn
  <2>2. ReadWhole(c)  BY <1>r, <2>1 DEF ReadAnswer, ReadShort, ReadSkewed
  <2>3. QED  BY <2>1, <2>2 DEF ReadWhole, Take, Put, Types
<1>7. CASE GetName(c)
  <2>1. /\ cp[c] = "name" /\ cp'[c] = "input" /\ read'[c] = read[c] + 1 /\ asked'[c] = asked[c]
        /\ ~skew'[c]
    BY <1>7, <1>r DEF GetName, Put, Types
  <2>2. QED  BY <1>e, <1>t, <2>1 DEF Turn
<1>8. CASE Input(c)
  <2>1. PICK n \in AnswerCounts : asked'[c] = Append(asked[c], n)
    BY <1>8 DEF Input, Put, Types
  <2>2. /\ cp[c] = "input" /\ cp'[c] \in {"get", "poll"} /\ read'[c] = read[c]
        /\ skew'[c] = skew[c]
    BY <1>8 DEF Input, Put, Types
  <2>3. n \in Nat /\ (AnswerCounts \subseteq {0, 1} => n <= 1)
    <3>1. n \in Nat  BY AnswersAssumption
    <3>2. AnswerCounts \subseteq {0, 1} => n \in {0, 1}  OBVIOUS
    <3>3. QED  BY <3>1, <3>2
  <2>4. Len(All(asked'[c])) = read[c] + n
    <3>1. Len(All(Append(asked[c], n))) = Len(All(asked[c])) + n  BY <1>t, <2>3, AllLonger
    <3>2. QED  BY <1>t, <2>1, <2>2, <3>1 DEF Turn
  <2>5. ~skew'[c]  BY <1>t, <2>2 DEF Turn
  <2>6. AnswerCounts \subseteq {0, 1} => Len(All(asked'[c])) <= read'[c] + 1
    BY <1>t, <2>2, <2>3, <2>4
  <2>7. QED  BY <1>e, <2>2, <2>5, <2>6
<1>9. CASE GetInput(c)
  <2>1. /\ cp'[c] = "poll" /\ read'[c] = read[c] + 1 /\ asked'[c] = asked[c]
        /\ ~skew'[c]
    BY <1>9, <1>r DEF GetInput, Put, Types
  <2>2. QED  BY <1>e, <1>t, <2>1 DEF Turn
<1>10. CASE HangUp(c)
  BY <1>10, <1>k DEF HangUp, Put, Types
<1>11. ~ReadOn(c)  BY <1>t DEF ReadOn, Turn
<1>12. QED
  BY <1>k, <1>1, <1>2, <1>3, <1>4, <1>5, <1>6, <1>7, <1>8, <1>9, <1>10, <1>11
     DEF Next, Answering

\* What is sent is the next answer.
LEMMA SendsNext ==
  ASSUME SInv, Send
  PROVE  /\ To \in Clients /\ cp[To] # "gone"
         /\ Len(out[To]) + read[To] + 1 <= Len(All(asked[To]))
         /\ NextAnswer = All(asked[To])[read[To] + (Len(out[To]) + 1)]
<1>1. /\ pc = "run" /\ msgs # <<>> /\ cp[To] # "gone" /\ done < asked[To][Head(msgs).req]
  BY DEF Send, Owes
<1>2. /\ Holds(To, Head(msgs).req, done) /\ Head(msgs).req \in Nat /\ To \in Clients
  BY <1>1, HoldsFirst DEF SInv
<1> DEFINE r == Head(msgs).req
           a == asked[To]
<1>3. Tracked(To)  BY <1>1 DEF Tracked, Starved
<1>4. Place(To)  BY <1>2, <1>3 DEF SInv, Following, Follow
<1>5. done \in Nat /\ a \in Seq(Nat) /\ read[To] \in Nat /\ Len(out[To]) \in Nat
  BY <1>2 DEF SInv, Types
<1>6. r \in 1..Len(a) /\ Here(To, Off(a, r) + done)  BY <1>2, <1>4, <1>5 DEF Place
<1>7. Off(a, r) + done = read[To] + Len(out[To])  BY <1>1, <1>6 DEF Here
<1> HIDE DEF r, a
<1>8. /\ Off(a, r) \in Nat /\ Off(a, r) + a[r] <= Len(All(a))
      /\ \A k \in 1..a[r] : All(a)[Off(a, r) + k] = <<r, k>>
  BY <1>5, <1>6, RowsAreThere DEF RowsOf
<1>9. a[r] \in Nat /\ Len(All(a)) \in Nat  BY <1>5, <1>6, AllType
<1>10. done + 1 \in 1..a[r]  BY <1>1, <1>5, <1>9 DEF a, r
<1>11. All(a)[Off(a, r) + (done + 1)] = <<r, done + 1>>  BY <1>8, <1>10
<1>12. /\ Off(a, r) + (done + 1) = read[To] + (Len(out[To]) + 1)
       /\ Off(a, r) + (done + 1) <= Len(All(a))
  <2> DEFINE o == Off(a, r)
             e == read[To]
             l == Len(out[To])
             m == Len(All(a))
             n == a[r]
  <2>1. /\ o \in Nat /\ e \in Nat /\ l \in Nat /\ m \in Nat /\ n \in Nat /\ done \in Nat
        /\ o + done = e + l /\ o + n <= m /\ done + 1 <= n
    BY <1>5, <1>7, <1>8, <1>9, <1>10
  <2> HIDE DEF o, e, l, m, n
  <2>2. o + (done + 1) = e + (l + 1) /\ o + (done + 1) <= m  BY <2>1
  <2>3. QED  BY <2>2 DEF o, e, l, m
<1>13. NextAnswer = <<r, done + 1>>  BY DEF NextAnswer, r
<1>14. QED
  <2>1. Len(out[To]) + read[To] + 1 = read[To] + (Len(out[To]) + 1)  BY <1>5
  <2>2. QED  BY <1>1, <1>2, <1>11, <1>12, <1>13, <2>1 DEF a

\* The answers stay in order.
LEMMA OrdersStep == SInv /\ [Next]_vars => Orders'
<1> SUFFICES ASSUME SInv, [Next]_vars, NEW c \in Clients  PROVE InOrder(c)'
  BY DEF Orders
<1>t. /\ asked[c] \in Seq(Nat) /\ read[c] \in Nat /\ out[c] \in Seq(Nat \X Nat)
      /\ Len(All(asked[c])) \in Nat /\ Len(out[c]) \in Nat /\ InOrder(c)
  BY AllType DEF SInv, Types, Orders
<1>e. InOrder(c)' <=>
        /\ read'[c] <= Len(All(asked'[c]))
        /\ \A i \in 1..Len(out'[c]) :
             /\ read'[c] + i <= Len(All(asked'[c]))
             /\ out'[c][i] = All(asked'[c])[read'[c] + i]
  BY DEF InOrder, All, Rows, Row
<1>k. ASSUME asked'[c] = asked[c], read'[c] = read[c], out'[c] = out[c]  PROVE InOrder(c)'
  BY <1>e, <1>k, <1>t DEF InOrder
<1>1. ASSUME NEW b \in Batches, Wait(b)  PROVE UNCHANGED <<asked, read, out>>
  BY <1>1 DEF Wait, client
<1>2. ASSUME Hup \/ RecvHead \/ RecvBody \/ RecvEnd \/ Swallow \/ Received \/ SendToGone
             \/ NextMessage \/ Loop \/ UNCHANGED vars
      PROVE  UNCHANGED <<asked, read, out>>
  BY <1>2 DEF Hup, RecvHead, RecvBody, RecvEnd, Swallow, Received, SendToGone,
              NextMessage, Loop, vars, server, client
<1>3. ASSUME NEW d \in Clients,
             \/ Accept(d) \/ Register(d) \/ Deliver(d) \/ DeliverEnd(d) \/ HangUp(d)
             \/ PollSocket(d)
      PROVE  UNCHANGED <<asked, read, out>>
  BY <1>3 DEF Accept, Register, Deliver, DeliverEnd, HangUp, PollSocket, client
<1>4. ASSUME NEW d \in Clients, d # c,
             PollStdin(d) \/ GetName(d) \/ Input(d) \/ GetInput(d) \/ ReadOn(d)
      PROVE  asked'[c] = asked[c] /\ read'[c] = read[c] /\ out'[c] = out[c]
  <2>1. CASE PollStdin(d) \/ Input(d)
    BY <1>4, <2>1 DEF PollStdin, Input, Put, SInv, Types
  <2>2. CASE GetName(d) \/ GetInput(d) \/ ReadOn(d)
    <3>1. Reads(d) /\ asked' = asked
      BY <2>2, ReadsSome DEF SInv, GetName, GetInput, ReadOn
    <3>2. QED  BY <1>4, <3>1 DEF Reads
  <2>3. QED  BY <1>4, <2>1, <2>2
<1>5. CASE PollStdin(c) \/ Input(c)
  <2>1. PICK n \in Nat : asked'[c] = Append(asked[c], n)
    <3>1. asked \in [Clients -> Seq(Nat)]  BY DEF SInv, Types
    <3>2. QED  BY <1>5, <3>1, AnswersAssumption DEF PollStdin, Input, Put
  <2>2. read'[c] = read[c] /\ out'[c] = out[c]  BY <1>5 DEF PollStdin, Input
  <2>3. /\ Len(All(asked'[c])) = Len(All(asked[c])) + n
        /\ \A i \in 1..Len(All(asked[c])) : All(asked'[c])[i] = All(asked[c])[i]
    <3>1. /\ Len(All(Append(asked[c], n))) = Len(All(asked[c])) + n
          /\ \A i \in 1..Len(All(asked[c])) : All(Append(asked[c], n))[i] = All(asked[c])[i]
      BY <1>t, AllLonger
    <3>2. QED  BY <2>1, <3>1
  <2>4. ASSUME NEW i \in 1..Len(out[c])
        PROVE  /\ read[c] + i <= Len(All(asked'[c]))
               /\ out[c][i] = All(asked'[c])[read[c] + i]
    <3> DEFINE m == Len(All(asked[c]))
               k == read[c]
    <3>1. read[c] + i \in 1..m /\ out[c][i] = All(asked[c])[read[c] + i]
      <4>1. k + i <= m /\ out[c][i] = All(asked[c])[read[c] + i]  BY <1>t DEF InOrder
      <4>2. m \in Nat /\ k \in Nat /\ i \in Nat /\ i >= 1  BY <1>t
      <4> HIDE DEF m, k
      <4>3. k + i \in 1..m  BY <4>1, <4>2
      <4>4. QED  BY <4>1, <4>3 DEF k
    <3>2. QED  BY <1>t, <2>3, <3>1
  <2>5. read[c] <= Len(All(asked'[c]))  BY <1>t, <2>3 DEF InOrder
  <2>6. QED  BY <1>e, <2>2, <2>4, <2>5
<1>6. CASE GetName(c) \/ GetInput(c) \/ ReadOn(c)
  <2>1. Reads(c) /\ asked'[c] = asked[c]
    BY <1>6, ReadsSome DEF SInv, GetName, GetInput, ReadOn
  <2>2. PICK n \in 0..Len(out[c]) :
          /\ read'[c] = read[c] + n /\ Len(out'[c]) = Len(out[c]) - n
          /\ \A i \in 1..Len(out'[c]) : out'[c][i] = out[c][n + i]
    BY <2>1 DEF Reads
  <2>3. ASSUME NEW i \in 1..Len(out'[c])
        PROVE  /\ read'[c] + i <= Len(All(asked[c]))
               /\ out'[c][i] = All(asked[c])[read'[c] + i]
    <3>1. n + i \in 1..Len(out[c]) /\ out'[c][i] = out[c][n + i]  BY <1>t, <2>2
    <3>2. read'[c] + i = read[c] + (n + i)  BY <1>t, <2>2
    <3>3. QED  BY <1>t, <3>1, <3>2 DEF InOrder
  <2>4. read'[c] <= Len(All(asked[c]))
    <3>1. CASE n = 0  BY <1>t, <2>2, <3>1 DEF InOrder
    <3>2. CASE n # 0
      <4>1. n \in 1..Len(out[c])  BY <1>t, <3>2
      <4>2. QED  BY <1>t, <2>2, <4>1 DEF InOrder
    <3>3. QED  BY <3>1, <3>2
  <2>5. QED  BY <1>e, <2>1, <2>3, <2>4
<1>7. CASE Send
  <2>1. /\ out' = Put(out, To, Append(out[To], NextAnswer)) /\ UNCHANGED <<asked, read>>
        /\ To \in Clients
    BY <1>7, SendsNext DEF Send, client
  <2>2. CASE c # To
    <3>1. out'[c] = out[c]  BY <2>1, <2>2 DEF Put, SInv, Types
    <3>2. QED  BY <1>k, <2>1, <3>1
  <2>3. CASE c = To
    <3>1. out'[c] = Append(out[c], NextAnswer)  BY <2>1, <2>3 DEF Put, SInv, Types
    <3>2. /\ Len(out'[c]) = Len(out[c]) + 1 /\ out'[c][Len(out[c]) + 1] = NextAnswer
          /\ \A i \in 1..Len(out[c]) : out'[c][i] = out[c][i]
      BY <1>t, <3>1
    <3>3. /\ Len(out[c]) + read[c] + 1 <= Len(All(asked[c]))
          /\ NextAnswer = All(asked[c])[read[c] + (Len(out[c]) + 1)]
      BY <1>7, <2>3, SendsNext
    <3>4. ASSUME NEW i \in 1..Len(out'[c])
          PROVE  /\ read[c] + i <= Len(All(asked[c]))
                 /\ out'[c][i] = All(asked[c])[read[c] + i]
      <4>1. CASE i = Len(out[c]) + 1  BY <1>t, <3>2, <3>3, <4>1
      <4>2. CASE i # Len(out[c]) + 1
        <5>1. i \in 1..Len(out[c])  BY <1>t, <3>2, <4>2
        <5>2. QED  BY <1>t, <3>2, <5>1 DEF InOrder
      <4>3. QED  BY <4>1, <4>2
    <3>5. read[c] <= Len(All(asked[c]))  BY <1>t DEF InOrder
    <3>6. QED  BY <1>e, <2>1, <3>4, <3>5
  <2>4. QED  BY <2>2, <2>3
<1>8. QED
  BY <1>k, <1>1, <1>2, <1>3, <1>4, <1>5, <1>6, <1>7 DEF Next, Work, Answering

-----------------------------------------------------------------------------
(* Every step keeps the place of every client.                             *)

\* Here, Taken, Flow and Place of the next state, in terms of its variables.
HereNext(c, p) ==
  /\ p >= read'[c] + Len(out'[c])
  /\ cp'[c] # "gone" => p = read'[c] + Len(out'[c])

TakenNext(c) == Coming(Stream(c)', Len(asked'[c]))

FlowNext(c) ==
  /\ UpTo(Stream(c)', Len(asked'[c]))
  /\ AtBody(c)' <=> (Stream(c)' # <<>> /\ Stream(c)'[1].part = "body")

PlaceNext(c) ==
  /\ \A r, d \in Nat : Holds(c, r, d)' =>
       /\ r = TakenNext(c) /\ r \in 1..Len(asked'[c])
       /\ HereNext(c, Off(asked'[c], r) + d)
  /\ Idle(c)' => HereNext(c, Off(asked'[c], TakenNext(c) + 1))

\* They are what they are meant to be.
LEMMA FollowNext ==
  ASSUME NEW c \in Clients, FlowNext(c), PlaceNext(c)
  PROVE  Follow(c)'
<1>1. Flow(c)'
  BY DEF FlowNext, Flow, UpTo, Follows, Piece
<1>2. Taken(c)' = TakenNext(c)  BY DEF Taken, TakenNext, Coming
<1>3. \A r : Off(asked[c], r)' = Off(asked'[c], r)  BY DEF Off, Some, All, Rows, Row
<1>4. \A p : HereNext(c, p) => Here(c, p)'
  BY DEF HereNext, Here
<1>5. QED  BY <1>1, <1>2, <1>3, <1>4 DEF PlaceNext, Place, Follow

\* What is known of a client that is followed.
LEMMA FollowNow ==
  ASSUME SInv, NEW c \in Clients
  PROVE  /\ Stream(c) \in Seq(Pieces) /\ asked[c] \in Seq(Nat)
         /\ read[c] \in Nat /\ out[c] \in Seq(Nat \X Nat) /\ Len(out[c]) \in Nat
         /\ Follow(c) /\ Numbered(Stream(c), Len(asked[c]))
         /\ Taken(c) \in 0..Len(asked[c])
         /\ c \in failed => cp[c] = "gone"
<1>1. /\ in[c] \in Seq(Pieces) /\ line[c] \in Seq(Pieces) /\ asked[c] \in Seq(Nat)
      /\ read[c] \in Nat /\ out[c] \in Seq(Nat \X Nat)
  BY DEF SInv, Types
<1>2. Stream(c) \in Seq(Pieces)  BY <1>1 DEF Stream
<1>3. Numbered(Stream(c), Len(asked[c]))  BY DEF SInv, Known
<1>4. Taken(c) \in 0..Len(asked[c])
  <2> DEFINE s == Stream(c)
             n == Len(asked[c])
  <2>1. s \in Seq(Pieces) /\ n \in Nat /\ Numbered(s, n)  BY <1>1, <1>2, <1>3
  <2> HIDE DEF s, n
  <2>2. s # <<>> => s[1].req \in 1..n  BY <2>1 DEF Numbered
  <2>3. Coming(s, n) \in 0..n  BY <2>1, <2>2 DEF Coming
  <2>4. QED  BY <2>3 DEF Taken, s, n
<1>5. QED  BY <1>1, <1>2, <1>3, <1>4 DEF SInv, Following, Ended

\* The end of a stream comes in the middle of a request of no reliable client.
LEMMA EndsUnreliable ==
  ASSUME SInv, RecvEnd
  PROVE  /\ ~Reliable /\ Head(events).from \in Clients
         /\ cp[Head(events).from] = "gone"
<1> DEFINE c == Head(events).from
<1>1. /\ pc \in {"recv", "body", "starved"} /\ events # <<>> /\ ~Head(events).hup
      /\ in[c] = <<>> /\ fin[c]
  BY DEF RecvEnd
<1>2. /\ Head(events) \in [from : Clients, hup : BOOLEAN] /\ Head(events) = events[1]
      /\ 1 \in 1..Len(events)
  <2> DEFINE S == [from : Clients, hup : BOOLEAN]
  <2>1. events \in Seq(S)  BY DEF SInv, Types
  <2> HIDE DEF S
  <2>2. Head(events) \in S /\ Head(events) = events[1] /\ Len(events) \in Nat /\ Len(events) >= 1
    BY <1>1, <2>1, TailOf
  <2>3. QED  BY <2>2 DEF S
<1>3. c \in Clients  BY <1>2
<1>4. cp[c] = "gone" /\ line[c] = <<>>  BY <1>1, <1>3 DEF SInv, Ended
<1>5. pc # "recv"  BY <1>1, <1>2 DEF SInv, Batch, Waiting
<1>6. Stream(c) = <<>>  BY <1>1, <1>4 DEF Stream
<1>7. ASSUME Reliable  PROVE FALSE
  <2>1. pc = "body"  BY <1>1, <1>5, <1>7 DEF SInv, Safe
  <2>2. Tracked(c) /\ AtBody(c)  BY <1>7, <2>1 DEF Tracked, Starved, AtBody
  <2>3. QED  BY <1>3, <1>6, <2>2 DEF SInv, Following, Follow, Flow
<1>8. QED  BY <1>3, <1>4, <1>7

\* The client whose piece is received.
LEMMA FollowTaken ==
  ASSUME SInv, NEW c \in Clients, RecvHead \/ RecvBody \/ Swallow, Takes(c)
  PROVE  Follow(c)'
<1> SUFFICES ASSUME Tracked(c)' PROVE Follow(c)'  BY DEF Follow
<1> DEFINE s == Stream(c)
           n == Len(asked[c])
<1>1. /\ s \in Seq(Pieces) /\ n \in Nat /\ asked[c] \in Seq(Nat) /\ Follow(c)
      /\ Numbered(s, n)
  BY FollowNow
<1>2. /\ c = Head(events).from /\ s # <<>> /\ Stream(c)' = Tail(s) /\ Head(in[c]) = s[1]
      /\ asked'[c] = asked[c] /\ UNCHANGED <<cp, out, read, failed>>
  <2>1. UNCHANGED <<cp, out, read, failed>>  BY DEF RecvHead, RecvBody, Swallow, server, client
  <2>2. QED  BY <2>1 DEF Takes
<1>3. pc # "starved"
  <2>1. ASSUME pc = "starved"  PROVE FALSE
    <3>1. Swallow  BY <2>1 DEF RecvHead, RecvBody
    <3>2. UNCHANGED <<pc, events>>  BY <3>1 DEF Swallow, server
    <3>3. QED  BY <1>2, <2>1, <3>2 DEF Tracked, Starved
  <2>2. QED  BY <2>1
<1>4. Tracked(c)  BY <1>2, <1>3 DEF Tracked, Starved, Reliable
<1>5. Flow(c) /\ Place(c)  BY <1>1, <1>4 DEF Follow
<1>6. UpTo(s, n) /\ (AtBody(c) <=> s[1].part = "body") /\ Taken(c) = Coming(s, n)
  BY <1>2, <1>5 DEF Flow, Taken
<1>h. ASSUME NEW p, Here(c, p)  PROVE HereNext(c, p)
  BY <1>2, <1>h DEF Here, HereNext
<1>7. CASE RecvHead
  <2>1. /\ pc = "recv" /\ UNCHANGED <<events, msgs, done>>
        /\ pc' = IF s[1].part = "head" THEN "body" ELSE "starved"
    BY <1>2, <1>7 DEF RecvHead
  <2>2. pc' = "body" /\ s[1].part = "head"
    BY <1>2, <2>1 DEF Tracked, Starved
  <2> HIDE DEF s, n
  <2>3. /\ UpTo(Tail(s), n) /\ Tail(s) # <<>> /\ Tail(s)[1].part = "body"
        /\ Coming(Tail(s), n) = Coming(s, n)
    BY <1>1, <1>2, <1>6, <2>2, TakeHead
  <2>4. AtBody(c)'  BY <1>2, <2>1, <2>2 DEF AtBody
  <2>5. FlowNext(c)  BY <1>2, <2>3, <2>4 DEF FlowNext, n
  <2>6. TakenNext(c) = Taken(c)  BY <1>2, <1>6, <2>3 DEF TakenNext, n
  <2>7. HoldsKept(c)  BY <2>1, HoldsSame
  <2>8. PlaceNext(c)
    BY <1>2, <1>5, <1>h, <2>6, <2>7 DEF Place, PlaceNext, HoldsKept
  <2>9. QED  BY <2>5, <2>8, FollowNext
<1>8. CASE RecvBody
  <2> DEFINE m == [from |-> c, req |-> s[1].req]
  <2>1. pc = "body" /\ pc' = "recv" /\ msgs' = Append(msgs, m) /\ done' = done
    BY <1>2, <1>8 DEF RecvBody
  <2>2. AtBody(c) /\ s[1].part = "body"  BY <1>2, <1>6, <2>1 DEF AtBody
  <2>3. s[1].req \in 1..n
    <3>1. 1 \in 1..Len(s)  BY <1>1, <1>2
    <3>2. QED  BY <1>1, <3>1 DEF Numbered
  <2> HIDE DEF s, n
  <2>4. /\ UpTo(Tail(s), n) /\ (Tail(s) # <<>> => Tail(s)[1].part # "body")
        /\ Coming(Tail(s), n) = s[1].req /\ Coming(s, n) + 1 = s[1].req
        /\ s[1].req \in Nat
    BY <1>1, <1>2, <1>6, <2>2, TakeBody
  <2>5. ~AtBody(c)'  BY <2>1 DEF AtBody
  <2>6. FlowNext(c)  BY <1>2, <2>4, <2>5 DEF FlowNext, n
  <2>7. TakenNext(c) = s[1].req /\ Taken(c) + 1 = s[1].req
    BY <1>2, <1>6, <2>4 DEF TakenNext, n
  <2>8. Idle(c)
    <3>1. 1 \in 1..Len(events) /\ events[1].from = c
      <4> DEFINE S == [from : Clients, hup : BOOLEAN]
      <4>1. events \in Seq(S) /\ events # <<>>  BY <2>1 DEF SInv, Types
      <4> HIDE DEF S
      <4>2. Head(events) = events[1] /\ Len(events) \in Nat /\ Len(events) >= 1
        BY <4>1, TailOf
      <4>3. QED  BY <1>2, <4>2
    <3>2. QED  BY <3>1 DEF SInv, Batch, Apart, Idle
  <2>9. done = 0 /\ done' = 0  BY <2>1 DEF SInv, Batch
  <2>10. /\ \A r, d \in Nat : Holds(c, r, d)' => r = s[1].req /\ d = 0
         /\ ~Idle(c)'
    <3>1. m \in [from : Clients, req : Nat] /\ m.from = c /\ m.req = s[1].req  BY <2>4
    <3>2. Types  BY DEF SInv
    <3> HIDE DEF m
    <3>3. IF c = m.from
          THEN /\ \A r, d \in Nat : Holds(c, r, d)' => (r = m.req /\ d = 0) \/ Holds(c, r, d)
               /\ ~Idle(c)'
          ELSE HoldsKept(c)
      BY <2>1, <2>9, <3>1, <3>2, HoldsReceived
    <3>4. \A r, d : ~Holds(c, r, d)  BY <2>8 DEF Holds, Idle
    <3>5. QED  BY <3>1, <3>3, <3>4
  <2>11. HereNext(c, Off(asked'[c], s[1].req) + 0)
    <3>1. HereNext(c, Off(asked[c], s[1].req))  BY <1>5, <1>h, <2>7, <2>8 DEF Place
    <3>2. Off(asked[c], s[1].req) \in Nat  BY <1>1, <2>3, OffNext DEF n
    <3>3. QED  BY <1>2, <3>1, <3>2
  <2>12. PlaceNext(c)
    BY <1>2, <2>3, <2>7, <2>10, <2>11 DEF PlaceNext, n
  <2>13. QED  BY <2>6, <2>12, FollowNext
<1>9. QED  BY <1>3, <1>7, <1>8 DEF Swallow

\* The client an answer is sent to.
LEMMA FollowSent ==
  ASSUME SInv, Send \/ SendToGone, NEW c \in Clients, c = To
  PROVE  Follow(c)'
<1> DEFINE r == Head(msgs).req
           a == asked[c]
<1>1. /\ pc = "run" /\ msgs # <<>> /\ done < a[r] /\ done' = done + 1
      /\ UNCHANGED <<events, msgs, in, line, asked, read, cp>>
      /\ pc' \in {"run", "dead"}
  BY DEF Send, SendToGone, Owes, client
<1>2. Holds(c, r, done) /\ r \in Nat /\ c \in Clients /\ Types /\ Batch /\ done \in Nat
  BY <1>1, HoldsFirst DEF SInv, Types
<1> SUFFICES ASSUME Tracked(c)' PROVE Follow(c)'  BY DEF Follow
<1>3. Tracked(c)  BY <1>1 DEF Tracked, Starved, Reliable
<1>4. Flow(c) /\ Place(c)  BY <1>2, <1>3 DEF SInv, Following, Follow
<1>5. r = Taken(c) /\ r \in 1..Len(a) /\ Here(c, Off(a, r) + done)
  BY <1>2, <1>4 DEF Place
<1>6. Stream(c)' = Stream(c) /\ asked'[c] = asked[c] /\ TakenNext(c) = Taken(c)
  BY <1>1 DEF Stream, Taken, TakenNext
<1>7. FlowNext(c)
  BY <1>1, <1>4, <1>6 DEF Flow, FlowNext, AtBody
<1>8. /\ \A q, d \in Nat : Holds(c, q, d)' => q = r /\ d = done + 1
      /\ ~Idle(c)'
  <2>1. Sends  BY <1>1 DEF Sends
  <2>2. QED  BY <1>2, <2>1, HoldsSent
<1>9. /\ a \in Seq(Nat) /\ read[c] \in Nat /\ Len(out[c]) \in Nat /\ (c \in failed => cp[c] = "gone")
      /\ out \in [Clients -> Seq(Nat \X Nat)] /\ out[c] \in Seq(Nat \X Nat)
  BY <1>2, FollowNow DEF Types
<1>10. /\ Off(a, r) \in Nat /\ Off(a, r) + a[r] <= Len(All(a)) /\ a[r] \in Nat
       /\ Len(All(a)) \in Nat
  BY <1>5, <1>9, RowsAreThere, AllType DEF RowsOf
<1> HIDE DEF r, a
<1>11. HereNext(c, Off(a, r) + (done + 1))
  <2> DEFINE p == Off(a, r) + done
             q == Off(a, r) + (done + 1)
  <2>1. p \in Nat /\ q = p + 1 /\ q <= Len(All(a))
    BY <1>1, <1>2, <1>10
  <2> HIDE DEF p, q
  <2>2. Here(c, p)  BY <1>5 DEF p
  <2>3. CASE Send
    <3>1. out'[c] = Append(out[c], NextAnswer) /\ cp[c] # "gone"
      BY <1>2, <1>9, <2>3 DEF Send, Put
    <3>2. Len(out'[c]) = Len(out[c]) + 1  BY <1>9, <3>1
    <3>3. p = read[c] + Len(out[c])  BY <2>2, <3>1 DEF Here
    <3>4. q = read'[c] + Len(out'[c])
      <4> DEFINE k == read[c]
                 l == Len(out[c])
                 h == Len(out'[c])
      <4>1. read'[c] = k  BY <1>1
      <4>2. k \in Nat /\ l \in Nat /\ h = l + 1 /\ p = k + l /\ q = p + 1
        BY <1>9, <2>1, <3>2, <3>3
      <4> HIDE DEF k, l, h
      <4>3. q = k + h  BY <4>2
      <4>4. QED  BY <4>1, <4>3 DEF h
    <3>5. q >= q  BY <2>1
    <3>6. HereNext(c, q)  BY <3>4, <3>5 DEF HereNext
    <3>7. QED  BY <3>6 DEF q
  <2>4. CASE SendToGone
    <3>1. out' = out /\ cp'[c] = "gone"  BY <1>1, <2>4 DEF SendToGone
    <3>2. q >= read'[c] + Len(out'[c])  BY <1>1, <1>9, <2>1, <2>2, <3>1 DEF Here
    <3>3. QED  BY <3>1, <3>2 DEF HereNext, q
  <2>5. QED  BY <2>3, <2>4
<1>12. PlaceNext(c)
  BY <1>5, <1>6, <1>8, <1>11 DEF PlaceNext, a
<1>13. QED  BY <1>7, <1>12, FollowNext

\* The client that is done with.
LEMMA FollowDone ==
  ASSUME SInv, NextMessage, NEW c \in Clients, c = To
  PROVE  Follow(c)'
<1> DEFINE r == Head(msgs).req
           a == asked[c]
<1>1. /\ pc = "run" /\ msgs # <<>> /\ ~(done < a[r])
      /\ UNCHANGED <<events, in, line, asked, read, out, cp, failed, pc>>
  BY DEF NextMessage, Owes, client
<1>2. Holds(c, r, done) /\ r \in Nat /\ c \in Clients /\ Types /\ Batch /\ done \in Nat
  BY <1>1, HoldsFirst DEF SInv, Types
<1> SUFFICES ASSUME Tracked(c)' PROVE Follow(c)'  BY DEF Follow
<1>3. Tracked(c)  BY <1>1 DEF Tracked, Starved, Reliable
<1>4. Flow(c) /\ Place(c)  BY <1>2, <1>3 DEF SInv, Following, Follow
<1>5. r = Taken(c) /\ r \in 1..Len(a) /\ Here(c, Off(a, r) + done)
  BY <1>2, <1>4 DEF Place
<1>6. Stream(c)' = Stream(c) /\ asked'[c] = asked[c] /\ TakenNext(c) = Taken(c)
  BY <1>1 DEF Stream, Taken, TakenNext
<1>7. FlowNext(c)
  BY <1>1, <1>4, <1>6 DEF Flow, FlowNext, AtBody
<1>8. \A q, d \in Nat : ~Holds(c, q, d)'
  BY <1>2, HoldsDone
<1>9. a \in Seq(Nat) /\ a[r] \in Nat
  <2>1. a \in Seq(Nat)  BY <1>2 DEF Types
  <2>2. QED  BY <1>5, <2>1
<1>10. done = a[r]
  <2>1. done <= a[r]  BY <1>1 DEF SInv, Known
  <2>2. QED  BY <1>1, <1>2, <1>9, <2>1
<1> HIDE DEF r, a
<1>11. Off(a, r + 1) = Off(a, r) + a[r]  BY <1>5, <1>9, OffNext
<1>12. HereNext(c, Off(a, r + 1))
  BY <1>1, <1>5, <1>10, <1>11 DEF Here, HereNext
<1>13. PlaceNext(c)
  BY <1>5, <1>6, <1>8, <1>12 DEF PlaceNext, a
<1>14. QED  BY <1>7, <1>13, FollowNext

\* The client whose user types.
LEMMA FollowAsked ==
  ASSUME SInv, NEW c \in Clients, PollStdin(c) \/ Input(c), Asks(c)
  PROVE  Follow(c)'
<1> DEFINE s == Stream(c)
           t == Stream(c)'
           a == asked[c]
           n == Len(asked[c])
<1>1. /\ s \in Seq(Pieces) /\ n \in Nat /\ a \in Seq(Nat) /\ Follow(c)
      /\ Taken(c) \in 0..n /\ (c \in failed => cp[c] = "gone")
  BY FollowNow
<1>2. /\ cp[c] # "gone" /\ UNCHANGED <<pc, events, msgs, done, failed, out, read>>
      /\ HoldsKept(c)
  <2>1. cp[c] # "gone" /\ UNCHANGED <<pc, events, msgs, done, failed, out, read>>
    BY DEF PollStdin, Input, server
  <2>2. QED  BY <2>1, HoldsSame
<1> SUFFICES ASSUME Tracked(c)' PROVE Follow(c)'  BY DEF Follow
<1>3. Tracked(c)  BY <1>2 DEF Tracked, Starved
<1>4. Flow(c) /\ Place(c)  BY <1>1, <1>3 DEF Follow
<1>5. PICK k \in Nat : asked'[c] = Append(a, k)  BY DEF Asks
<1>6. t \in {s \o Message(n + 1), s \o LongMessage(n + 1)}  BY DEF Asks
<1>7. UpTo(s, n) /\ (AtBody(c) <=> s # <<>> /\ s[1].part = "body") /\ Taken(c) = Coming(s, n)
  BY <1>4 DEF Flow, Taken
<1>8. asked'[c] \in Seq(Nat) /\ Len(asked'[c]) = n + 1  BY <1>1, <1>5
<1> HIDE DEF s, n, a, t
<1>9. /\ UpTo(t, n + 1) /\ t # <<>> /\ Coming(t, n + 1) = Coming(s, n)
      /\ t[1] = IF s = <<>> THEN Piece("head", n + 1) ELSE s[1]
  BY <1>1, <1>6, <1>7, UpToAsk
<1>10. t[1].part = "body" <=> s # <<>> /\ s[1].part = "body"
  <2>1. CASE s = <<>>
    <3>1. t[1].part = "head"  BY <1>9, <2>1, PieceIs
    <3>2. QED  BY <2>1, <3>1
  <2>2. CASE s # <<>>  BY <1>9, <2>2
  <2>3. QED  BY <2>1, <2>2
<1>11. FlowNext(c)
  <2>1. AtBody(c)' <=> AtBody(c)  BY <1>2 DEF AtBody
  <2>2. QED  BY <1>7, <1>8, <1>9, <1>10, <2>1 DEF FlowNext, t
<1>12. TakenNext(c) = Taken(c)  BY <1>7, <1>8, <1>9 DEF TakenNext, t
<1>13. ASSUME NEW i \in 1..n + 1  PROVE Off(asked'[c], i) = Off(a, i)
  <2>1. i - 1 \in 0..Len(a)  BY <1>1 DEF a, n
  <2>2. Some(Append(a, k), i - 1) = Some(a, i - 1)  BY <1>1, <2>1, SomeOfAppend
  <2>3. QED  BY <1>5, <2>2 DEF Off
<1>14. ASSUME NEW p, Here(c, p)  PROVE HereNext(c, p)
  BY <1>1, <1>2, <1>14 DEF Here, HereNext
<1>15. PlaceNext(c)
  <2>1. ASSUME NEW r \in Nat, NEW d \in Nat, Holds(c, r, d)'
        PROVE  /\ r = TakenNext(c) /\ r \in 1..Len(asked'[c])
               /\ HereNext(c, Off(asked'[c], r) + d)
    <3>1. Holds(c, r, d)  BY <1>2, <2>1 DEF HoldsKept
    <3>2. r = Taken(c) /\ r \in 1..n /\ Here(c, Off(a, r) + d)
      BY <1>4, <3>1 DEF Place, a, n
    <3>3. r \in 1..n + 1  BY <1>1, <3>2
    <3>4. HereNext(c, Off(a, r) + d)  BY <1>14, <3>2
    <3>5. Off(asked'[c], r) = Off(a, r)  BY <1>13, <3>3
    <3>6. QED  BY <1>8, <1>12, <3>2, <3>3, <3>4, <3>5
  <2>2. ASSUME Idle(c)'  PROVE HereNext(c, Off(asked'[c], TakenNext(c) + 1))
    <3>1. Here(c, Off(a, Taken(c) + 1))  BY <1>2, <1>4, <2>2 DEF HoldsKept, Place, a
    <3>2. Taken(c) + 1 \in 1..n + 1  BY <1>1
    <3>3. HereNext(c, Off(a, Taken(c) + 1))  BY <1>14, <3>1
    <3>4. Off(asked'[c], Taken(c) + 1) = Off(a, Taken(c) + 1)  BY <1>13, <3>2
    <3>5. QED  BY <1>12, <3>3, <3>4
  <2>3. QED  BY <2>1, <2>2 DEF PlaceNext
<1>16. QED  BY <1>11, <1>15, FollowNext

\* The server keeps its place with every client it follows.
LEMMA FollowStep == SInv /\ [Next]_vars => Following'
<1> SUFFICES ASSUME SInv, [Next]_vars, NEW c \in Clients  PROVE Follow(c)'
  BY DEF Following
<1>t. /\ Follow(c) /\ Types /\ Batch /\ read[c] \in Nat /\ Len(out[c]) \in Nat
      /\ out[c] \in Seq(Nat \X Nat)
  BY FollowNow DEF SInv
<1>s. /\ Quiet => StreamKept(c)
      /\ RecvHead \/ RecvBody \/ Swallow =>
           (c = Head(events).from => Takes(c)) /\ (c # Head(events).from => StreamKept(c))
      /\ \A d \in Clients : PollStdin(d) \/ Input(d) =>
           (c = d => Asks(c)) /\ (c # d => StreamKept(c))
      /\ \A d \in Clients : HangUp(d) => StreamKept(c) \/ BreaksOff(c)
  BY <1>t, StreamSteps
\* The server is at work, for somebody else.
<1>1. ASSUME StreamKept(c), HoldsKept(c), UNCHANGED <<cp, read>>, out'[c] = out[c],
             c \in failed' => c \in failed,
             AtBody(c)' <=> AtBody(c), Starved(c) => Starved(c)'
      PROVE  Follow(c)'
  <2>1. read'[c] + Len(out'[c]) = read[c] + Len(out[c])  BY <1>1
  <2>2. QED  BY <1>1, <1>t, <2>1, FollowKept
\* A client is, and the server is not.
<1>2. ASSUME StreamKept(c), UNCHANGED <<pc, events, msgs, done, failed>>,
             cp'[c] # "gone" => cp[c] # "gone",
             read'[c] + Len(out'[c]) = read[c] + Len(out[c])
      PROVE  Follow(c)'
  <2>1. HoldsKept(c)  BY <1>2, HoldsSame
  <2>2. (AtBody(c)' <=> AtBody(c)) /\ (Starved(c) => Starved(c)')
    BY <1>2 DEF AtBody, Starved
  <2>3. c \in failed' => c \in failed  BY <1>2
  <2>4. QED  BY <1>2, <1>t, <2>1, <2>2, <2>3, FollowKept
<1>3. ASSUME NEW b \in Batches, Wait(b)  PROVE Follow(c)'
  <2>1. /\ pc = "wait" /\ pc' = "recv" /\ Quiet
        /\ UNCHANGED <<msgs, done, cp, read, out, failed>>
    BY <1>3 DEF Wait, client, Quiet
  <2>2. HoldsKept(c)  BY <2>1, HoldsSame
  <2>3. (AtBody(c)' <=> AtBody(c)) /\ (Starved(c) => Starved(c)')
    BY <2>1 DEF AtBody, Starved
  <2>4. QED  BY <1>1, <1>s, <2>1, <2>2, <2>3
<1>4. ASSUME Hup \/ Received \/ Loop  PROVE Follow(c)'
  <2>1. /\ pc \in {"recv", "run"} /\ pc' \in {"recv", "run", "wait"} /\ Quiet
        /\ UNCHANGED <<msgs, done, cp, read, out, failed>>
    BY <1>4 DEF Hup, Received, Loop, client, Quiet
  <2>2. HoldsKept(c)  BY <2>1, HoldsSame
  <2>3. (AtBody(c)' <=> AtBody(c)) /\ (Starved(c) => Starved(c)')
    BY <2>1 DEF AtBody, Starved
  <2>4. QED  BY <1>1, <1>s, <2>1, <2>2, <2>3
<1>5. ASSUME RecvHead \/ RecvBody \/ Swallow  PROVE Follow(c)'
  <2>1. CASE c = Head(events).from
    BY <1>5, <1>s, <2>1, FollowTaken
  <2>2. CASE c # Head(events).from
    <3>1. StreamKept(c) /\ UNCHANGED <<cp, read, out, failed>>
      BY <1>5, <1>s, <2>2 DEF RecvHead, RecvBody, Swallow, client, server
    <3>2. (AtBody(c)' <=> AtBody(c)) /\ (Starved(c) => Starved(c)')
      <4>1. CASE RecvHead  BY <2>2, <4>1 DEF RecvHead, AtBody, Starved
      <4>2. CASE RecvBody  BY <2>2, <4>2 DEF RecvBody, AtBody, Starved
      <4>3. CASE Swallow  BY <4>3 DEF Swallow, server, AtBody, Starved
      <4>4. QED  BY <1>5, <4>1, <4>2, <4>3
    <3>3. HoldsKept(c)
      <4>1. CASE RecvHead \/ Swallow
        <5>1. UNCHANGED <<msgs, done>>  BY <4>1 DEF RecvHead, Swallow, server
        <5>2. QED  BY <5>1, HoldsSame
      <4>2. CASE RecvBody
        <5> DEFINE d == Head(events).from
                   m == [from |-> d, req |-> Head(in[d]).req]
        <5>1. /\ msgs' = Append(msgs, m) /\ done' = done /\ done = 0 /\ in[d] # <<>>
              /\ events # <<>>
          BY <1>t, <4>2 DEF RecvBody, Batch, Types
        <5>2. d \in Clients
          <6> DEFINE S == [from : Clients, hup : BOOLEAN]
          <6>1. events \in Seq(S)  BY <1>t DEF Types
          <6> HIDE DEF S
          <6>2. Head(events) \in S  BY <5>1, <6>1, TailOf
          <6>3. QED  BY <6>2 DEF S
        <5>3. Head(in[d]).req \in Nat
          <6>1. in[d] \in Seq(Pieces)  BY <1>t, <5>2 DEF Types
          <6>2. Head(in[d]) \in Pieces  BY <5>1, <6>1, TailOf
          <6>3. QED  BY <6>2 DEF Pieces
        <5>4. m \in [from : Clients, req : Nat] /\ m.from = d  BY <5>2, <5>3
        <5>5. c # d  BY <2>2
        <5> HIDE DEF d, m
        <5>6. IF c = m.from
              THEN /\ \A r, k \in Nat : Holds(c, r, k)' => (r = m.req /\ k = 0) \/ Holds(c, r, k)
                   /\ ~Idle(c)'
              ELSE HoldsKept(c)
          BY <1>t, <5>1, <5>4, HoldsReceived
        <5>7. QED  BY <5>4, <5>5, <5>6
      <4>3. QED  BY <1>5, <4>1, <4>2
    <3>4. QED  BY <1>1, <3>1, <3>2, <3>3
  <2>3. QED  BY <2>1, <2>2
<1>6. ASSUME RecvEnd  PROVE Follow(c)'
  <2>1. /\ ~Reliable /\ cp[Head(events).from] = "gone"
    BY <1>6, EndsUnreliable
  <2>2. /\ Quiet /\ UNCHANGED <<cp, read, out, failed, msgs, done>>
        /\ pc' \in {"recv", "spin"}
    BY <1>6 DEF RecvEnd, client, Quiet
  <2>3. CASE c = Head(events).from
    <3>1. cp'[c] = "gone"  BY <2>1, <2>2, <2>3
    <3>2. ~Tracked(c)'  BY <2>1, <3>1 DEF Tracked, Reliable
    <3>3. QED  BY <3>2 DEF Follow
  <2>4. CASE c # Head(events).from
    <3>1. (AtBody(c)' <=> AtBody(c)) /\ (Starved(c) => Starved(c)')
      BY <2>2, <2>4 DEF AtBody, Starved
    <3>2. HoldsKept(c)  BY <2>2, HoldsSame
    <3>3. QED  BY <1>1, <1>s, <2>2, <3>1, <3>2
  <2>5. QED  BY <2>3, <2>4
<1>7. ASSUME Send \/ SendToGone  PROVE Follow(c)'
  <2>1. CASE c = To  BY <1>7, <2>1, FollowSent
  <2>2. CASE c # To
    <3>1. /\ pc = "run" /\ pc' \in {"run", "dead"} /\ UNCHANGED <<cp, read>> /\ Sends /\ Quiet
          /\ (c \in failed' => c \in failed)
      BY <1>7, <2>2 DEF Send, SendToGone, Sends, Owes, client, Quiet
    <3>2. out'[c] = out[c]
      BY <1>7, <2>2, <1>t DEF Send, SendToGone, Put, Types
    <3>3. (AtBody(c)' <=> AtBody(c)) /\ (Starved(c) => Starved(c)')
      BY <3>1 DEF AtBody, Starved
    <3>4. HoldsKept(c)  BY <1>t, <2>2, <3>1, HoldsSent
    <3>5. QED  BY <1>1, <1>s, <3>1, <3>2, <3>3, <3>4
  <2>3. QED  BY <2>1, <2>2
<1>8. ASSUME NextMessage  PROVE Follow(c)'
  <2>1. CASE c = To  BY <1>8, <2>1, FollowDone
  <2>2. CASE c # To
    <3>1. pc = "run" /\ UNCHANGED <<pc, events, cp, read, out, failed>> /\ Quiet
      BY <1>8 DEF NextMessage, client, Quiet
    <3>2. (AtBody(c)' <=> AtBody(c)) /\ (Starved(c) => Starved(c)')
      BY <3>1 DEF AtBody, Starved
    <3>3. HoldsKept(c)  BY <1>8, <1>t, <2>2, HoldsDone
    <3>4. QED  BY <1>1, <1>s, <3>1, <3>2, <3>3
  <2>3. QED  BY <2>1, <2>2
<1>9. ASSUME NEW d \in Clients, PollStdin(d) \/ Input(d)  PROVE Follow(c)'
  <2>1. CASE c = d  BY <1>9, <1>s, <2>1, FollowAsked
  <2>2. CASE c # d
    <3>1. UNCHANGED <<pc, events, msgs, done, failed, read, out>> /\ cp'[c] = cp[c]
      BY <1>9, <1>t, <2>2 DEF PollStdin, Input, server, Put, Types
    <3>2. StreamKept(c)  BY <1>9, <1>s, <2>2
    <3>3. QED  BY <1>2, <3>1, <3>2
  <2>3. QED  BY <2>1, <2>2
<1>10. ASSUME NEW d \in Clients, HangUp(d)  PROVE Follow(c)'
  <2>1. /\ UNCHANGED <<pc, events, msgs, done, failed, read, out>>
        /\ (cp'[c] # "gone" => cp[c] # "gone")
    BY <1>10, <1>t DEF HangUp, server, Put, Types
  <2>2. CASE StreamKept(c)  BY <1>2, <2>1, <2>2
  <2>3. CASE BreaksOff(c)
    <3>1. ~Tracked(c)'  BY <2>3 DEF BreaksOff, Tracked, Reliable
    <3>2. QED  BY <3>1 DEF Follow
  <2>4. QED  BY <1>10, <1>s, <2>2, <2>3
<1>11. ASSUME NEW d \in Clients,
              Accept(d) \/ Register(d) \/ PollSocket(d) \/ Deliver(d) \/ DeliverEnd(d)
       PROVE  Follow(c)'
  <2>1. UNCHANGED <<pc, events, msgs, done, failed, read, out>> /\ Quiet
    BY <1>11 DEF Accept, Register, PollSocket, Deliver, DeliverEnd, server, client, Quiet
  <2>2. cp'[c] # "gone" => cp[c] # "gone"
    BY <1>11, <1>t DEF Accept, Register, PollSocket, Deliver, DeliverEnd, client, Put, Types
  <2>3. QED  BY <1>2, <1>s, <2>1, <2>2
<1>12. ASSUME NEW d \in Clients, GetName(d) \/ GetInput(d) \/ ReadOn(d)  PROVE Follow(c)'
  <2>1. UNCHANGED <<pc, events, msgs, done, failed>> /\ Quiet
    BY <1>12 DEF GetName, GetInput, ReadOn, server, Quiet
  <2>2. cp'[c] # "gone" => cp[c] # "gone"
    BY <1>12, <1>t DEF GetName, GetInput, ReadOn, Put, Types
  <2>3. read'[c] + Len(out'[c]) = read[c] + Len(out[c])
    <3>1. Reads(d)  BY <1>12, <1>t, ReadsSome
    <3>2. CASE c = d
      <4>1. \E n \in 0..Len(out[c]) : /\ read'[c] = read[c] + n
                                      /\ Len(out'[c]) = Len(out[c]) - n
        BY <3>1, <3>2 DEF Reads
      <4>2. Len(out[c]) \in Nat /\ read[c] \in Nat  BY <1>t DEF Types
      <4>3. QED  BY <4>1, <4>2
    <3>3. CASE c # d
      <4>1. out'[c] = out[c] /\ read'[c] = read[c]  BY <3>1, <3>3 DEF Reads
      <4>2. QED  BY <4>1
    <3>4. QED  BY <3>2, <3>3
  <2>4. QED  BY <1>2, <1>s, <2>1, <2>2, <2>3
<1>13. ASSUME UNCHANGED vars  PROVE Follow(c)'
  <2>1. UNCHANGED <<pc, events, msgs, done, failed, read, out, cp>> /\ Quiet
    BY <1>13 DEF vars, server, client, Quiet
  <2>2. QED  BY <1>2, <1>s, <2>1
<1>14. QED
  BY <1>3, <1>4, <1>5, <1>6, <1>7, <1>8, <1>9, <1>10, <1>11, <1>12, <1>13
     DEF Next, Work, Answering

\* A reliable client starves nobody.
LEMMA SafeStep == SInv /\ [Next]_vars => Safe'
<1> SUFFICES ASSUME SInv, [Next]_vars
             PROVE  Reliable => pc' \notin {"starved", "spin"}
  BY DEF Safe, Reliable
<1> USE DEF Safe
<1>1. ASSUME NEW b \in Batches, Wait(b)  PROVE pc' = "recv"
  BY <1>1 DEF Wait
<1>2. ASSUME Hup \/ RecvBody \/ Received \/ Loop  PROVE pc' \in {"recv", "run", "wait"}
  BY <1>2 DEF Hup, RecvBody, Received, Loop
<1>3. ASSUME Swallow \/ Send \/ NextMessage \/ UNCHANGED vars  PROVE pc' = pc
  BY <1>3 DEF Swallow, Send, NextMessage, server, vars
<1>4. ASSUME NEW d \in Clients,
             \/ Accept(d) \/ Register(d) \/ PollStdin(d) \/ Answering(d) \/ HangUp(d)
             \/ Deliver(d) \/ DeliverEnd(d)
      PROVE  pc' = pc
  BY <1>4 DEF Accept, Register, PollStdin, Answering, PollSocket, GetName, Input, GetInput,
              ReadOn, HangUp, Deliver, DeliverEnd, server
<1>5. ASSUME RecvEnd  PROVE ~Reliable
  BY <1>5, EndsUnreliable
<1>6. ASSUME RecvHead  PROVE pc' # "spin" /\ (Reliable => pc' = "body")
  <2> DEFINE c == Head(events).from
             s == Stream(c)
  <2>1. /\ pc = "recv" /\ events # <<>> /\ in[c] # <<>>
        /\ pc' = IF Head(in[c]).part = "head" THEN "body" ELSE "starved"
    BY <1>6 DEF RecvHead
  <2>2. c \in Clients
    <3> DEFINE S == [from : Clients, hup : BOOLEAN]
    <3>1. events \in Seq(S)  BY DEF SInv, Types
    <3> HIDE DEF S
    <3>2. Head(events) \in S  BY <2>1, <3>1, TailOf
    <3>3. QED  BY <3>2 DEF S
  <2>3. ASSUME Reliable  PROVE Head(in[c]).part = "head"
    <3>1. Tracked(c) /\ ~AtBody(c)  BY <2>1, <2>3 DEF Tracked, Starved, AtBody
    <3>2. s \in Seq(Pieces) /\ Follow(c) /\ Numbered(s, Len(asked[c]))
      BY <2>2, FollowNow
    <3>3. s # <<>> /\ s[1] = Head(in[c])
      <4> HIDE DEF c
      <4>1. in[c] \in Seq(Pieces) /\ line[c] \in Seq(Pieces)  BY <2>2 DEF SInv, Types
      <4>2. QED  BY <2>1, <4>1, ConcatTail DEF Stream
    <3>4. s[1].part # "body"  BY <3>1, <3>2, <3>3 DEF Follow, Flow
    <3> HIDE DEF s
    <3>5. s[1].part # "tail" /\ s[1] \in Pieces
      <4>1. 1 \in 1..Len(s)  BY <3>2, <3>3
      <4>2. s[1] \in Pieces  BY <3>2, <4>1, ElementOfSeq
      <4>3. QED  BY <2>3, <3>2, <4>1, <4>2 DEF Numbered, Reliable
    <3>6. s[1].part = "head"  BY <3>4, <3>5 DEF Pieces
    <3>7. QED  BY <3>3, <3>6
  <2>4. QED  BY <2>1, <2>3
<1>7. ASSUME SendToGone  PROVE pc' \notin {"starved", "spin"}
  BY <1>7 DEF SendToGone
<1>8. QED
  BY <1>1, <1>2, <1>3, <1>4, <1>5, <1>6, <1>7 DEF Next, Work, SInv

-----------------------------------------------------------------------------
(* What is due to a client, whether it has ended or not.                   *)

\* The answers to later requests come later.
LEMMA OffRises ==
  ASSUME NEW a \in Seq(Nat), NEW i \in 1..Len(a), NEW j \in 1..Len(a), i < j
  PROVE  Off(a, i) + a[i] <= Off(a, j)
<1> DEFINE S == {n \in Nat : i + 1 + n <= Len(a) => Off(a, i + 1) <= Off(a, i + 1 + n)}
<1>0. i \in Nat /\ j \in Nat /\ Len(a) \in Nat /\ i >= 1  OBVIOUS
<1>1. Off(a, i + 1) = Off(a, i) + a[i] /\ Off(a, i) \in Nat /\ a[i] \in Nat
  BY OffNext
<1>2. 0 \in S
  <2>1. i + 1 + 0 = i + 1  BY <1>0
  <2>2. Off(a, i + 1) <= Off(a, i + 1)  BY <1>1
  <2>3. QED  BY <2>1, <2>2
<1>3. ASSUME NEW n \in Nat, n \in S  PROVE n + 1 \in S
  <2> SUFFICES ASSUME i + 1 + (n + 1) <= Len(a)
               PROVE  Off(a, i + 1) <= Off(a, i + 1 + (n + 1))
    OBVIOUS
  <2> DEFINE k == i + 1 + n
  <2>1. k \in 1..Len(a) /\ i + 1 + (n + 1) = k + 1  BY <1>0
  <2>2. Off(a, i + 1) <= Off(a, k)  BY <1>0, <1>3
  <2> HIDE DEF k
  <2>3. Off(a, k + 1) = Off(a, k) + a[k] /\ Off(a, k) \in Nat  BY <2>1, OffNext
  <2>4. a[k] \in Nat  BY <2>1
  <2>5. Off(a, i + 1) <= Off(a, k + 1)
    <3> DEFINE x == Off(a, i + 1)
               y == Off(a, k)
               z == a[k]
    <3>1. x \in Nat  BY ONLY <1>1 DEF x
    <3>2. y \in Nat  BY ONLY <2>3 DEF y
    <3>3. z \in Nat  BY ONLY <2>4 DEF z
    <3>4. x <= y  BY ONLY <2>2 DEF x, y
    <3> HIDE DEF x, y, z
    <3>5. x <= y + z  BY ONLY <3>1, <3>2, <3>3, <3>4
    <3>6. QED  BY ONLY <2>3, <3>5 DEF x, y, z
  <2>6. QED  BY <2>1, <2>5
<1>4. Nat \subseteq S
  <2> HIDE DEF S
  <2>1. QED  BY <1>2, <1>3, SetInduction
<1>5. j - (i + 1) \in Nat /\ i + 1 + (j - (i + 1)) = j  BY <1>0
<1>6. Off(a, i + 1) <= Off(a, j)
  <2>1. j - (i + 1) \in S  BY <1>4, <1>5
  <2>2. QED  BY <1>5, <2>1
<1>7. QED  BY <1>1, <1>6

\* Pieces are received from the front, and cut off at the back.
Rest(s, t, k) == \A j \in 1..Len(t) : j + k \in 1..Len(s) /\ t[j] = s[j + k]

\* The pieces that are left follow each other, their bodies in order.
LEMMA RestKeeps ==
  ASSUME NEW s \in Seq(Pieces), NEW t \in Seq(Pieces), NEW k \in {0, 1}, Rest(s, t, k)
  PROVE  (Links(s) => Links(t)) /\ (Rising(s) => Rising(t))
<1>1. Len(s) \in Nat /\ Len(t) \in Nat  OBVIOUS
<1>2. ASSUME Links(s), NEW i \in 1..Len(t) - 1  PROVE Follows(t[i], t[i + 1])
  <2>1. i \in 1..Len(t) /\ i + 1 \in 1..Len(t)  BY <1>1
  <2>2. /\ t[i] = s[i + k] /\ t[i + 1] = s[i + 1 + k]
        /\ i + k \in 1..Len(s) /\ i + 1 + k \in 1..Len(s)
    BY <2>1 DEF Rest
  <2>3. i + k \in 1..Len(s) - 1 /\ i + 1 + k = i + k + 1  BY <1>1, <2>2
  <2>4. QED  BY <1>2, <2>2, <2>3 DEF Links
<1>3. ASSUME Rising(s), NEW i \in 1..Len(t), NEW j \in 1..Len(t), i < j,
             t[i].part = "body", t[j].part = "body"
      PROVE  t[i].req < t[j].req
  <2>1. /\ t[i] = s[i + k] /\ t[j] = s[j + k]
        /\ i + k \in 1..Len(s) /\ j + k \in 1..Len(s)
    BY DEF Rest
  <2>2. i + k < j + k  BY <1>3
  <2>3. QED  BY <1>3, <2>1, <2>2 DEF Rising
<1>4. QED  BY <1>2, <1>3 DEF Links, Rising

\* What is left of them after a step in which the client sends nothing.
LEMMA StreamRest ==
  ASSUME Types, NEW c \in Clients, StreamKept(c) \/ Takes(c) \/ BreaksOff(c)
  PROVE  /\ Stream(c) \in Seq(Pieces) /\ Stream(c)' \in Seq(Pieces) /\ asked'[c] = asked[c]
         /\ ~Takes(c) => Rest(Stream(c), Stream(c)', 0)
         /\ Takes(c) => Stream(c) # <<>> /\ Rest(Stream(c), Stream(c)', 1)
<1> DEFINE s == Stream(c)
           t == Stream(c)'
<1>1. in[c] \in Seq(Pieces) /\ line[c] \in Seq(Pieces)  BY DEF Types
<1>2. s \in Seq(Pieces)  BY <1>1 DEF Stream
<1>3. CASE StreamKept(c) /\ ~Takes(c)
  <2>1. t = s  BY <1>3 DEF StreamKept
  <2>2. Rest(s, t, 0)
    <3>1. t \in Seq(Pieces)  BY <1>2, <2>1
    <3> HIDE DEF s, t
    <3>2. \A j \in 1..Len(t) : j + 0 = j  OBVIOUS
    <3>3. QED  BY <2>1, <3>2 DEF Rest
  <2>3. QED  BY <1>2, <1>3, <2>1, <2>2 DEF StreamKept
<1>4. CASE Takes(c)
  <2>1. s # <<>> /\ t = Tail(s) /\ asked'[c] = asked[c]  BY <1>4 DEF Takes
  <2>2. t \in Seq(Pieces) /\ Rest(s, t, 1)
    <3>1. s \in Seq(Pieces)  BY <1>2
    <3> HIDE DEF s, t
    <3>2. /\ t \in Seq(Pieces) /\ Len(t) = Len(s) - 1 /\ Len(s) \in Nat
          /\ \A i \in 1..Len(s) - 1 : t[i] = s[i + 1]
      BY <2>1, <3>1, TailOf
    <3>3. QED  BY <3>2 DEF Rest
  <2>3. QED  BY <1>2, <1>4, <2>1, <2>2
<1>5. CASE BreaksOff(c) /\ ~Takes(c)
  <2>1. t = in[c] /\ asked'[c] = asked[c]  BY <1>5 DEF BreaksOff
  <2>2. Rest(s, t, 0)
    <3> DEFINE u == line[c]
    <3>1. s = t \o u /\ t \in Seq(Pieces) /\ u \in Seq(Pieces)  BY <1>1, <2>1 DEF Stream
    <3> HIDE DEF s, t, u
    <3>2. /\ Len(t \o u) = Len(t) + Len(u) /\ \A i \in 1..Len(t) : (t \o u)[i] = t[i]
      BY <3>1, Joined
    <3>3. Len(t) \in Nat /\ Len(u) \in Nat  BY <3>1
    <3>4. ASSUME NEW j \in 1..Len(t)  PROVE j + 0 \in 1..Len(s) /\ t[j] = s[j + 0]
      BY <3>1, <3>2, <3>3
    <3>5. QED  BY <3>4 DEF Rest
  <2>3. QED  BY <1>1, <1>2, <1>5, <2>1, <2>2
<1>6. QED  BY <1>3, <1>4, <1>5

\* How the thread comes to wait for a body, and how it stops swallowing.
LEMMA ThreadStep ==
  ASSUME [Next]_vars, NEW c \in Clients
  PROVE  /\ AtBody(c)' => AtBody(c) \/ (RecvHead /\ c = Head(events).from)
         /\ Starved(c) => Starved(c)' \/ (RecvEnd /\ c = Head(events).from)
<1> USE DEF AtBody, Starved
<1>1. ASSUME UNCHANGED <<pc, events>>
      PROVE  (AtBody(c)' => AtBody(c)) /\ (Starved(c) => Starved(c)')
  BY <1>1
<1>2. ASSUME NEW b \in Batches, Wait(b)  PROVE pc = "wait" /\ pc' = "recv"
  BY <1>2 DEF Wait
<1>3. ASSUME Hup \/ RecvBody \/ Received  PROVE pc \in {"recv", "body"} /\ pc' \in {"recv", "run"}
  BY <1>3 DEF Hup, RecvBody, Received
<1>4. ASSUME RecvEnd  PROVE pc' \in {"recv", "spin"}
  BY <1>4 DEF RecvEnd
<1>5. ASSUME RecvHead  PROVE pc = "recv" /\ UNCHANGED events
  BY <1>5 DEF RecvHead
<1>6. ASSUME SendToGone \/ Loop  PROVE pc = "run" /\ pc' \in {"run", "dead", "wait"}
  BY <1>6 DEF SendToGone, Loop
<1>7. ASSUME Swallow \/ Send \/ NextMessage \/ UNCHANGED vars  PROVE UNCHANGED <<pc, events>>
  BY <1>7 DEF Swallow, Send, NextMessage, server, vars
<1>8. ASSUME NEW d \in Clients,
             \/ Accept(d) \/ Register(d) \/ PollStdin(d) \/ Answering(d) \/ HangUp(d)
             \/ Deliver(d) \/ DeliverEnd(d)
      PROVE  UNCHANGED <<pc, events>>
  BY <1>8 DEF Accept, Register, PollStdin, Answering, PollSocket, GetName, Input, GetInput,
              ReadOn, HangUp, Deliver, DeliverEnd, server
<1>9. QED
  BY <1>1, <1>2, <1>3, <1>4, <1>5, <1>6, <1>7, <1>8 DEF Next, Work

\* Clients end by HangUp, and for good.
LEMMA GoneStep ==
  ASSUME Types, [Next]_vars, NEW c \in Clients
  PROVE  /\ cp'[c] = "gone" => cp[c] = "gone" \/ (HangUp(c) /\ UNCHANGED <<pc, events>>)
         /\ cp[c] = "gone" => cp'[c] = "gone" /\ asked'[c] = asked[c] /\ read'[c] = read[c]
<1> USE DEF Types
<1>1. ASSUME NEW d \in Clients, d # c,
             PollStdin(d) \/ PollSocket(d) \/ Input(d) \/ HangUp(d)
      PROVE  cp'[c] = cp[c] /\ asked'[c] = asked[c] /\ read'[c] = read[c]
  BY <1>1 DEF PollStdin, PollSocket, Input, HangUp, Put
<1>2. ASSUME NEW d \in Clients, d # c, GetName(d) \/ GetInput(d) \/ ReadOn(d)
      PROVE  cp'[c] = cp[c] /\ asked'[c] = asked[c] /\ read'[c] = read[c]
  <2>1. Reads(d)  BY <1>2, ReadsSome
  <2>2. QED  BY <1>2, <2>1 DEF Reads, GetName, GetInput, ReadOn, Put
<1>3. ASSUME PollStdin(c) \/ PollSocket(c) \/ Input(c) \/ GetName(c) \/ GetInput(c) \/ ReadOn(c)
      PROVE  cp[c] # "gone" /\ cp'[c] # "gone"
  BY <1>3 DEF PollStdin, PollSocket, Input, GetName, GetInput, ReadOn, Put
<1>4. ASSUME HangUp(c)  PROVE cp[c] # "gone" /\ UNCHANGED <<pc, events>>
  BY <1>4 DEF HangUp, server
<1>5. ASSUME NEW b \in Batches, Wait(b)  PROVE UNCHANGED <<cp, asked, read>>
  BY <1>5 DEF Wait, client
<1>6. ASSUME Work \/ UNCHANGED vars  PROVE UNCHANGED <<cp, asked, read>>
  BY <1>6 DEF Work, Hup, RecvHead, RecvBody, RecvEnd, Swallow, Received, Send, SendToGone,
              NextMessage, Loop, vars, server, client
<1>7. ASSUME NEW d \in Clients, Accept(d) \/ Register(d) \/ Deliver(d) \/ DeliverEnd(d)
      PROVE  UNCHANGED <<cp, asked, read>>
  BY <1>7 DEF Accept, Register, Deliver, DeliverEnd, client
<1>8. QED
  BY <1>1, <1>2, <1>3, <1>4, <1>5, <1>6, <1>7 DEF Next, Answering

\* The server is killed by an answer, and whoever got one after he had gone did.
LEMMA DiesSending ==
  ASSUME [Next]_vars, pc' = "dead", pc # "dead"
  PROVE  SendToGone
<1>1. ASSUME NEW b \in Batches, Wait(b)  PROVE FALSE
  BY <1>1 DEF Wait
<1>2. ASSUME \/ Hup \/ RecvHead \/ RecvBody \/ RecvEnd \/ Swallow \/ Received \/ Send
             \/ NextMessage \/ Loop \/ UNCHANGED vars
      PROVE  FALSE
  BY <1>2 DEF Hup, RecvHead, RecvBody, RecvEnd, Swallow, Received, Send, NextMessage, Loop,
              vars, server
<1>3. ASSUME NEW d \in Clients,
             \/ Accept(d) \/ Register(d) \/ PollStdin(d) \/ Answering(d) \/ HangUp(d)
             \/ Deliver(d) \/ DeliverEnd(d)
      PROVE  FALSE
  BY <1>3 DEF Accept, Register, PollStdin, Answering, PollSocket, GetName, Input, GetInput,
              ReadOn, HangUp, Deliver, DeliverEnd, server
<1>4. QED  BY <1>1, <1>2, <1>3 DEF Next, Work

LEMMA FailedGrows == ASSUME [Next]_vars  PROVE failed \subseteq failed'
<1>1. ASSUME NEW b \in Batches, Wait(b)  PROVE failed' = failed
  BY <1>1 DEF Wait
<1>2. ASSUME \/ Hup \/ RecvHead \/ RecvBody \/ RecvEnd \/ Swallow \/ Received \/ Send
             \/ SendToGone \/ NextMessage \/ Loop \/ UNCHANGED vars
      PROVE  failed \subseteq failed'
  BY <1>2 DEF Hup, RecvHead, RecvBody, RecvEnd, Swallow, Received, Send, SendToGone,
              NextMessage, Loop, vars, server
<1>3. ASSUME NEW d \in Clients,
             \/ Accept(d) \/ Register(d) \/ PollStdin(d) \/ Answering(d) \/ HangUp(d)
             \/ Deliver(d) \/ DeliverEnd(d)
      PROVE  failed' = failed
  BY <1>3 DEF Accept, Register, PollStdin, Answering, PollSocket, GetName, Input, GetInput,
              ReadOn, HangUp, Deliver, DeliverEnd, server
<1>4. QED  BY <1>1, <1>2, <1>3 DEF Next, Work

\* A body comes when one is waited for.
LEMMA NextIsBody ==
  ASSUME SInv, NEW c \in Clients, AtBody(c), Stream(c) # <<>>
  PROVE  Stream(c)[1].part = "body"
<1>1. ~Starved(c)  BY DEF AtBody, Starved
<1>2. CASE cp[c] = "gone"  BY <1>1, <1>2 DEF SInv, Dues, Cut
<1>3. CASE cp[c] # "gone"
  <2>1. Tracked(c)  BY <1>1, <1>3 DEF Tracked
  <2>2. QED  BY <2>1 DEF SInv, Following, Follow, Flow
<1>4. QED  BY <1>2, <1>3

\* Every step keeps the pieces of the clients that have ended in order.
LEMMA CutStep ==
  ASSUME SInv, [Next]_vars, NEW c \in Clients
  PROVE  Cut(c)'
<1> DEFINE s == Stream(c)
           t == Stream(c)'
<1> SUFFICES ASSUME cp'[c] = "gone", ~Starved(c)'
             PROVE  Links(t) /\ (AtBody(c)' /\ t # <<>> => t[1].part = "body")
  <2>1. Links(Stream(c))' <=> Links(Stream(c)')  BY DEF Links, Follows, Piece
  <2>2. QED  BY <2>1 DEF Cut
<1>t. Types /\ s \in Seq(Pieces) /\ Follow(c)  BY FollowNow DEF SInv
<1>0. ~Asks(c)
  <2>1. Asks(c) => cp'[c] # "gone"
    BY <1>t DEF Asks, PollStdin, Input, Put, Types
  <2>2. QED  BY <2>1
<1>1. StreamKept(c) \/ Takes(c) \/ BreaksOff(c)  BY <1>0, <1>t, StreamStep
<1>2. /\ s \in Seq(Pieces) /\ t \in Seq(Pieces)
      /\ ~Takes(c) => Rest(s, t, 0)
      /\ Takes(c) => s # <<>> /\ Rest(s, t, 1)
  BY <1>t, <1>1, StreamRest
<1>3. CASE Starved(c)
  <2>1. CASE cp[c] # "gone"
    <3>1. UNCHANGED <<pc, events>>  BY <1>t, <2>1, GoneStep
    <3>2. QED  BY <1>3, <3>1 DEF Starved
  <2>2. CASE cp[c] = "gone"
    <3>1. RecvEnd /\ c = Head(events).from  BY <1>3, ThreadStep
    <3>2. in[c] = <<>> /\ fin[c] /\ UNCHANGED <<in, line>> /\ pc' \in {"recv", "spin"}
      BY <3>1 DEF RecvEnd, client
    <3>3. line[c] = <<>>  BY <3>2 DEF SInv, Ended
    <3>4. t = <<>>  BY <3>2, <3>3 DEF Stream
    <3>5. QED  BY <3>4 DEF Links
  <2>3. QED  BY <2>1, <2>2
<1>4. CASE ~Starved(c)
  <2>1. Links(s) /\ (AtBody(c) /\ s # <<>> => s[1].part = "body")
    <3>1. CASE cp[c] = "gone"  BY <1>4, <3>1 DEF SInv, Dues, Cut
    <3>2. CASE cp[c] # "gone"
      <4>1. Tracked(c)  BY <1>4, <3>2 DEF Tracked
      <4>2. QED  BY <1>t, <4>1 DEF Follow, Flow, UpTo, Links
    <3>3. QED  BY <3>1, <3>2
  <2>2. Links(t)  BY <1>2, <2>1, RestKeeps
  <2> HIDE DEF s, t
  <2>3. CASE ~Takes(c)
    <3>1. ASSUME AtBody(c)', t # <<>>  PROVE t[1].part = "body"
      <4>1. ~(RecvHead /\ c = Head(events).from)
        <5>1. RecvHead /\ c = Head(events).from => Takes(c)  BY <1>t, StreamSteps
        <5>2. QED  BY <2>3, <5>1
      <4>2. AtBody(c)  BY <3>1, <4>1, ThreadStep
      <4>3. 1 \in 1..Len(t) /\ 1 + 0 = 1  BY <1>2, <3>1
      <4>4. 1 \in 1..Len(s) /\ t[1] = s[1]  BY <1>2, <2>3, <4>3 DEF Rest
      <4>5. s # <<>>  BY <4>4
      <4>6. QED  BY <2>1, <4>2, <4>4, <4>5
    <3>2. QED  BY <2>2, <3>1
  <2>4. CASE Takes(c)
    <3>1. /\ RecvHead \/ RecvBody \/ Swallow
          /\ c = Head(events).from /\ in[c] # <<>> /\ Head(in[c]) = s[1]
      BY <2>4 DEF Takes, s
    <3>2. CASE RecvHead
      <4>1. s[1].part = "head"
        BY <1>4, <3>1, <3>2 DEF RecvHead, Starved
      <4>2. ASSUME t # <<>>  PROVE t[1].part = "body"
        <5>1. 1 \in 1..Len(t) /\ 1 + 1 = 2  BY <1>2, <4>2
        <5>2. 2 \in 1..Len(s) /\ t[1] = s[2]  BY <1>2, <2>4, <5>1 DEF Rest
        <5>3. 1 \in 1..Len(s) - 1 /\ 1 + 1 = 2  BY <1>2, <5>2
        <5>4. Follows(s[1], s[2])
          <6>1. Follows(s[1], s[1 + 1])  BY <2>1, <5>3 DEF Links
          <6>2. QED  BY <5>3, <6>1
        <5>5. s[2] = Piece("body", s[1].req)  BY <4>1, <5>4 DEF Follows
        <5>6. QED  BY <5>2, <5>5, PieceIs
      <4>3. QED  BY <2>2, <4>2
    <3>3. CASE RecvBody
      <4>1. ~AtBody(c)'  BY <3>3 DEF RecvBody, AtBody
      <4>2. QED  BY <2>2, <4>1
    <3>4. CASE Swallow
      <4>1. pc = "starved"  BY <3>4 DEF Swallow
      <4>2. QED  BY <1>4, <3>1, <4>1 DEF Starved
    <3>5. QED  BY <3>1, <3>2, <3>3, <3>4
  <2>5. QED  BY <2>3, <2>4
<1>5. QED  BY <1>3, <1>4

\* What a step adds to what is spent.
LEMMA SpentStep ==
  ASSUME Types, Ended, [Next]_vars, NEW c \in Clients
  PROVE  /\ Spent(c) \in Nat
         /\ Spent(c)' \in {Spent(c), Spent(c) + 1}
         /\ ~(Sends /\ c = To) => Spent(c)' = Spent(c)
<1> USE DEF Types
<1>t. /\ read[c] \in Nat /\ out[c] \in Seq(Nat \X Nat) /\ Len(out[c]) \in Nat
      /\ c \in failed => cp[c] = "gone"
  BY DEF Ended
<1>0. Spent(c) \in Nat  BY <1>t DEF Spent
<1>k. ASSUME read'[c] = read[c], out'[c] = out[c], c \in failed' <=> c \in failed
      PROVE  Spent(c)' = Spent(c)
  BY <1>k DEF Spent
<1>s. ASSUME Send \/ SendToGone  PROVE Sends
  BY <1>s DEF Sends, Send, SendToGone, Owes, client
<1>1. CASE Send
  <2>1. To \in Clients  BY <1>1, HoldsFirst DEF Send
  <2>2. /\ read' = read /\ failed' = failed /\ cp[To] # "gone"
        /\ out' = Put(out, To, Append(out[To], NextAnswer))
    BY <1>1 DEF Send, client
  <2>3. CASE c # To
    <3>1. out'[c] = out[c]  BY <2>1, <2>2, <2>3 DEF Put
    <3>2. QED  BY <1>0, <1>k, <2>2, <3>1
  <2>4. CASE c = To
    <3>1. out'[c] = Append(out[c], NextAnswer)  BY <2>2, <2>4 DEF Put
    <3>2. Len(out'[c]) = Len(out[c]) + 1  BY <1>t, <3>1
    <3>3. c \notin failed /\ c \notin failed'  BY <1>t, <2>2, <2>4
    <3>4. Spent(c)' = Spent(c) + 1
      <4>1. Spent(c) = read[c] + Len(out[c])  BY <1>t, <3>3 DEF Spent
      <4>2. Spent(c)' = read[c] + (Len(out[c]) + 1)
        <5>1. Spent(c)' = read'[c] + Len(out'[c]) + 0  BY <3>3 DEF Spent
        <5>2. QED  BY <1>t, <2>2, <3>2, <5>1
      <4>3. QED  BY <1>t, <4>1, <4>2
    <3>5. QED  BY <1>0, <1>1, <1>s, <2>4, <3>4
  <2>5. QED  BY <2>3, <2>4
<1>2. CASE SendToGone
  <2>1. UNCHANGED <<read, out>> /\ failed' = failed \cup {To}  BY <1>2 DEF SendToGone, client
  <2>2. CASE c # To
    <3>1. c \in failed' <=> c \in failed  BY <2>1, <2>2
    <3>2. QED  BY <1>0, <1>k, <2>1, <3>1
  <2>3. CASE c = To
    <3>1. Spent(c)' = read[c] + Len(out[c]) + 1  BY <2>1, <2>3 DEF Spent
    <3>2. Spent(c) = read[c] + Len(out[c]) + 1 \/ Spent(c) = read[c] + Len(out[c]) + 0
      BY DEF Spent
    <3>3. QED  BY <1>0, <1>2, <1>s, <1>t, <2>3, <3>1, <3>2
  <2>4. QED  BY <2>2, <2>3
<1>3. ASSUME NEW b \in Batches, Wait(b)  PROVE UNCHANGED <<read, out, failed>>
  BY <1>3 DEF Wait, client
<1>4. ASSUME Hup \/ RecvHead \/ RecvBody \/ RecvEnd \/ Swallow \/ Received
             \/ NextMessage \/ Loop \/ UNCHANGED vars
      PROVE  UNCHANGED <<read, out, failed>>
  BY <1>4 DEF Hup, RecvHead, RecvBody, RecvEnd, Swallow, Received,
              NextMessage, Loop, vars, server, client
<1>5. ASSUME NEW d \in Clients,
             \/ Accept(d) \/ Register(d) \/ Deliver(d) \/ DeliverEnd(d) \/ HangUp(d)
             \/ PollSocket(d) \/ PollStdin(d) \/ Input(d)
      PROVE  UNCHANGED <<read, out, failed>>
  BY <1>5 DEF Accept, Register, Deliver, DeliverEnd, HangUp, PollSocket, PollStdin, Input,
              server, client
<1>6. ASSUME NEW d \in Clients, GetName(d) \/ GetInput(d) \/ ReadOn(d)
      PROVE  Spent(c)' = Spent(c)
  <2>1. Reads(d) /\ failed' = failed
    BY <1>6, ReadsSome DEF GetName, GetInput, ReadOn, server
  <2>2. CASE c # d  BY <1>k, <2>1, <2>2 DEF Reads
  <2>3. CASE c = d
    <3>1. \E n \in 0..Len(out[c]) : read'[c] = read[c] + n /\ Len(out'[c]) = Len(out[c]) - n
      BY <2>1, <2>3 DEF Reads
    <3>2. read'[c] + Len(out'[c]) = read[c] + Len(out[c])  BY <1>t, <3>1
    <3>3. QED  BY <2>1, <3>2 DEF Spent
  <2>4. QED  BY <2>2, <2>3
<1>7. UNCHANGED <<read, out, failed>> => Spent(c)' = Spent(c)  BY <1>k
<1>8. QED
  BY <1>0, <1>1, <1>2, <1>3, <1>4, <1>5, <1>6, <1>7 DEF Next, Work, Answering

\* Due in the next state, in terms of its variables.
DueNext(c) ==
  /\ Rising(Stream(c)')
  /\ \A j \in 1..Len(Stream(c)') :
       Stream(c)'[j].part = "body" => Spent(c)' <= Off(asked'[c], Stream(c)'[j].req)
  /\ \A r, d \in Nat : Holds(c, r, d)' =>
       /\ r \in 1..Len(asked'[c]) /\ Spent(c)' <= Off(asked'[c], r) + d
       /\ \A j \in 1..Len(Stream(c)') :
            Stream(c)'[j].part = "body" => r < Stream(c)'[j].req

\* It is what it is meant to be.
LEMMA DueIsNext == ASSUME NEW c, DueNext(c)  PROVE Due(c)'
<1>1. Rising(Stream(c))' <=> Rising(Stream(c)')  BY DEF Rising
<1>2. \A r : Off(asked[c], r)' = Off(asked'[c], r)  BY DEF Off, Some, All, Rows, Row
<1>3. QED  BY <1>1, <1>2 DEF DueNext, Due

\* A request more is due after all others.
LEMMA DueAsked ==
  ASSUME SInv, [Next]_vars, NEW c \in Clients, Asks(c)
  PROVE  DueNext(c)
<1> DEFINE s == Stream(c)
           t == Stream(c)'
           a == asked[c]
           b == asked'[c]
           m == Len(asked[c]) + 1
<1>t. /\ s \in Seq(Pieces) /\ a \in Seq(Nat) /\ Len(a) \in Nat /\ m = Len(a) + 1
      /\ Numbered(s, Len(a)) /\ Due(c)
      /\ read[c] \in Nat /\ Len(out[c]) \in Nat /\ (c \in failed => cp[c] = "gone")
  BY FollowNow DEF SInv, Dues
<1>1. /\ PollStdin(c) \/ Input(c)
      /\ t = s \o Message(m) \/ t = s \o LongMessage(m)
  BY DEF Asks
<1>2. PICK n \in Nat : b = Append(a, n)  BY DEF Asks
<1>3. cp[c] # "gone" /\ UNCHANGED <<msgs, done>>
  BY <1>1 DEF PollStdin, Input, server
<1>4. Spent(c)' = Spent(c) /\ Spent(c) \in Nat
  <2>1. ~Sends  BY <1>3 DEF Sends, SInv, Types
  <2>2. QED  BY <2>1, SpentStep DEF SInv
<1>5. Spent(c) <= Len(All(a)) /\ Len(All(a)) \in Nat
  <2>1. InOrder(c) /\ Len(All(a)) \in Nat  BY <1>t, AllType DEF SInv, Orders
  <2>2. read[c] + Len(out[c]) <= Len(All(a))
    <3>1. CASE Len(out[c]) = 0  BY <1>t, <2>1, <3>1 DEF InOrder
    <3>2. CASE Len(out[c]) # 0
      <4>1. Len(out[c]) \in 1..Len(out[c])  BY <1>t, <3>2
      <4>2. QED  BY <2>1, <4>1 DEF InOrder
    <3>3. QED  BY <3>1, <3>2
  <2>3. Spent(c) = read[c] + Len(out[c])  BY <1>t, <1>3 DEF Spent
  <2>4. QED  BY <2>1, <2>2, <2>3
<1>6. HoldsKept(c)  BY <1>3, HoldsSame
<1> HIDE DEF s, t, a, b, m
<1>7. /\ Len(b) = Len(a) + 1
      /\ \A i \in 1..Len(a) : Off(b, i) = Off(a, i)
      /\ Off(b, m) = Len(All(a))
  <2>1. Len(b) = Len(a) + 1  BY <1>t, <1>2
  <2>2. ASSUME NEW i \in 1..Len(a) + 1  PROVE Off(b, i) = Off(a, i)
    <3>1. i - 1 \in 0..Len(a)  BY <1>t
    <3>2. QED  BY <1>t, <1>2, <3>1, SomeOfAppend DEF Off
  <2>3. m \in 1..Len(a) + 1 /\ Off(a, m) = Len(All(a))  BY <1>t, OffLast
  <2>4. QED  BY <1>t, <2>1, <2>2, <2>3
<1>8. ASSUME NEW j \in 1..Len(t)
      PROVE  /\ j \in 1..Len(s) => t[j] = s[j]
             /\ j \notin 1..Len(s) => j > Len(s) /\ t[j].req = m
                                      /\ (t[j].part = "body" => j = Len(s) + 2)
  <2> DEFINE u == IF t = s \o Message(m) THEN Message(m) ELSE LongMessage(m)
  <2>0. m \in Nat  BY <1>t
  <2>1. /\ t = s \o u /\ u \in Seq(Pieces)
        /\ \A k \in 1..Len(u) : u[k].req = m /\ (u[k].part = "body" => k = 2)
    <3>1. Message(m) \in Seq(Pieces) /\ LongMessage(m) \in Seq(Pieces)
      BY <2>0 DEF Message, LongMessage, Piece, Pieces
    <3>2. t = s \o u  BY <1>1
    <3>3. \A k \in 1..Len(Message(m)) :
            Message(m)[k].req = m /\ (Message(m)[k].part = "body" => k = 2)
      BY DEF Message, Piece
    <3>4. \A k \in 1..Len(LongMessage(m)) :
            LongMessage(m)[k].req = m /\ (LongMessage(m)[k].part = "body" => k = 2)
      BY DEF LongMessage, Message, Piece
    <3>5. QED  BY <3>1, <3>2, <3>3, <3>4
  <2> HIDE DEF u
  <2>2. /\ Len(t) = Len(s) + Len(u)
        /\ \A k \in 1..Len(s) : t[k] = s[k]
        /\ \A k \in 1..Len(u) : t[Len(s) + k] = u[k]
    BY <1>t, <2>1, Joined
  <2>3. Len(s) \in Nat /\ Len(u) \in Nat  BY <1>t, <2>1
  <2>4. ASSUME j \notin 1..Len(s)
        PROVE  j > Len(s) /\ t[j].req = m /\ (t[j].part = "body" => j = Len(s) + 2)
    <3>1. j - Len(s) \in 1..Len(u) /\ Len(s) + (j - Len(s)) = j  BY <2>2, <2>3, <2>4
    <3>2. t[j] = u[j - Len(s)]  BY <2>2, <3>1
    <3>3. QED  BY <2>1, <2>3, <3>1, <3>2
  <2>5. QED  BY <2>2, <2>4
<1>9. \A j \in 1..Len(s) : s[j].req \in 1..Len(a)  BY <1>t DEF Numbered
<1>10. Rising(t)
  <2> SUFFICES ASSUME NEW i \in 1..Len(t), NEW j \in 1..Len(t), i < j,
                      t[i].part = "body", t[j].part = "body"
               PROVE  t[i].req < t[j].req
    BY DEF Rising
  <2>0. Len(s) \in Nat  BY <1>t
  <2>1. CASE j \in 1..Len(s)
    <3>1. i \in 1..Len(s) /\ t[i] = s[i] /\ t[j] = s[j]  BY <1>8, <2>0, <2>1
    <3>2. Rising(s)  BY <1>t DEF Due, s
    <3>3. QED  BY <2>1, <3>1, <3>2 DEF Rising
  <2>2. CASE j \notin 1..Len(s)
    <3>1. t[j].req = m /\ j = Len(s) + 2  BY <1>8, <2>2
    <3>2. i \in 1..Len(s)  BY <1>8, <2>0, <3>1
    <3>3. t[i].req \in 1..Len(a)  BY <1>8, <1>9, <3>2
    <3>4. QED  BY <1>t, <3>1, <3>3
  <2>3. QED  BY <2>1, <2>2
<1>11. ASSUME NEW j \in 1..Len(t), t[j].part = "body"
       PROVE  Spent(c)' <= Off(b, t[j].req)
  <2>1. CASE j \in 1..Len(s)
    <3>1. t[j] = s[j] /\ s[j].req \in 1..Len(a)  BY <1>8, <1>9, <2>1
    <3>2. Spent(c) <= Off(a, s[j].req)  BY <1>t, <1>11, <2>1, <3>1 DEF Due, s, a
    <3>3. QED  BY <1>4, <1>7, <3>1, <3>2
  <2>2. CASE j \notin 1..Len(s)
    <3>1. t[j].req = m  BY <1>8, <2>2
    <3>2. QED  BY <1>4, <1>5, <1>7, <3>1
  <2>3. QED  BY <2>1, <2>2
<1>12. ASSUME NEW r \in Nat, NEW d \in Nat, Holds(c, r, d)'
       PROVE  /\ r \in 1..Len(b) /\ Spent(c)' <= Off(b, r) + d
              /\ \A j \in 1..Len(t) : t[j].part = "body" => r < t[j].req
  <2>1. Holds(c, r, d)  BY <1>6, <1>12 DEF HoldsKept
  <2>2. /\ r \in 1..Len(a) /\ Spent(c) <= Off(a, r) + d
        /\ \A j \in 1..Len(s) : s[j].part = "body" => r < s[j].req
    BY <1>t, <2>1 DEF Due, s, a
  <2>3. r \in 1..Len(b) /\ Off(b, r) = Off(a, r)  BY <1>t, <1>7, <2>2
  <2>4. ASSUME NEW j \in 1..Len(t), t[j].part = "body"  PROVE r < t[j].req
    <3>1. CASE j \in 1..Len(s)  BY <1>8, <2>2, <2>4, <3>1
    <3>2. CASE j \notin 1..Len(s)  BY <1>t, <1>8, <2>2, <3>2
    <3>3. QED  BY <3>1, <3>2
  <2>5. QED  BY <1>4, <2>2, <2>3, <2>4
<1>13. QED  BY <1>10, <1>11, <1>12 DEF DueNext, t, b

\* What is due is due until it is sent.
LEMMA DueKept ==
  ASSUME SInv, [Next]_vars, NEW c \in Clients, ~Asks(c)
  PROVE  DueNext(c)
<1> DEFINE s == Stream(c)
           t == Stream(c)'
           a == asked[c]
<1>t. /\ Types /\ Batch /\ Ended /\ Due(c) /\ a \in Seq(Nat) /\ Numbered(s, Len(a))
  BY FollowNow DEF SInv, Dues
<1>1. StreamKept(c) \/ Takes(c) \/ BreaksOff(c)  BY <1>t, StreamStep
<1>2. /\ s \in Seq(Pieces) /\ t \in Seq(Pieces) /\ asked'[c] = a
      /\ ~Takes(c) => Rest(s, t, 0)
      /\ Takes(c) => s # <<>> /\ Rest(s, t, 1)
  BY <1>t, <1>1, StreamRest
<1>3. PICK k \in {0, 1} : Rest(s, t, k) /\ (Takes(c) => k = 1)  BY <1>2
<1>4. /\ Spent(c) \in Nat /\ Spent(c)' \in {Spent(c), Spent(c) + 1}
      /\ ~(Sends /\ c = To) => Spent(c)' = Spent(c)
  BY <1>t, SpentStep
<1>5. /\ Rising(s)
      /\ \A j \in 1..Len(s) : s[j].part = "body" => Spent(c) <= Off(a, s[j].req)
      /\ \A r, d \in Nat : Holds(c, r, d) =>
           /\ r \in 1..Len(a) /\ Spent(c) <= Off(a, r) + d
           /\ \A j \in 1..Len(s) : s[j].part = "body" => r < s[j].req
  BY <1>t DEF Due
<1> HIDE DEF s, t, a
<1>6. Rising(t)  BY <1>2, <1>3, <1>5, RestKeeps
<1>7. ASSUME NEW j \in 1..Len(t), t[j].part = "body"
      PROVE  /\ j + k \in 1..Len(s) /\ t[j] = s[j + k] /\ Spent(c) <= Off(a, t[j].req)
             /\ t[j].req \in 1..Len(a)
             /\ \A r, d \in Nat : Holds(c, r, d) => r < t[j].req
  <2>1. j + k \in 1..Len(s) /\ t[j] = s[j + k]  BY <1>3 DEF Rest
  <2>2. t[j].req \in 1..Len(a)  BY <1>t, <2>1 DEF Numbered
  <2>3. QED  BY <1>5, <1>7, <2>1, <2>2
<1>8. ASSUME Spent(c)' = Spent(c),
             \A r, d \in Nat : Holds(c, r, d)' =>
               /\ r \in 1..Len(a) /\ Spent(c) <= Off(a, r) + d
               /\ \A j \in 1..Len(t) : t[j].part = "body" => r < t[j].req
      PROVE  DueNext(c)
  BY <1>2, <1>6, <1>7, <1>8 DEF DueNext, t
<1>9. ASSUME HoldsKept(c), Spent(c)' = Spent(c)  PROVE DueNext(c)
  <2>1. \A r, d \in Nat : Holds(c, r, d)' =>
          /\ r \in 1..Len(a) /\ Spent(c) <= Off(a, r) + d
          /\ \A j \in 1..Len(t) : t[j].part = "body" => r < t[j].req
    BY <1>5, <1>7, <1>9 DEF HoldsKept
  <2>2. QED  BY <1>8, <1>9, <2>1
<1>10. CASE UNCHANGED <<msgs, done>>
  <2>1. ~Sends  BY <1>10, <1>t DEF Sends, Types
  <2>2. QED  BY <1>4, <1>9, <1>10, <2>1, HoldsSame
<1>11. CASE RecvBody
  <2> DEFINE e == Head(events).from
             m == [from |-> e, req |-> Head(in[e]).req]
  <2>1. /\ msgs' = Append(msgs, m) /\ done' = done /\ in[e] # <<>> /\ pc = "body"
    BY <1>11 DEF RecvBody
  <2>2. done = 0 /\ e \in Clients
    <3>1. done = 0 /\ events # <<>>  BY <1>t, <2>1 DEF Batch, Types
    <3> DEFINE S == [from : Clients, hup : BOOLEAN]
    <3>2. events \in Seq(S)  BY <1>t DEF Types
    <3> HIDE DEF S
    <3>3. Head(events) \in S  BY <3>1, <3>2, TailOf
    <3>4. QED  BY <3>1, <3>3 DEF S
  <2>3. Head(in[e]).req \in Nat
    <3>1. in[e] \in Seq(Pieces)  BY <1>t, <2>2 DEF Types
    <3>2. Head(in[e]) \in Pieces  BY <2>1, <3>1, TailOf
    <3>3. QED  BY <3>2 DEF Pieces
  <2>4. m \in [from : Clients, req : Nat] /\ m.from = e /\ m.req = Head(in[e]).req
    BY <2>2, <2>3
  <2>5. ~Sends  BY <2>1 DEF Sends
  <2>6. IF c = m.from
        THEN \A r, d \in Nat : Holds(c, r, d)' => (r = m.req /\ d = 0) \/ Holds(c, r, d)
        ELSE HoldsKept(c)
    <3> HIDE DEF m
    <3>1. QED  BY <1>t, <2>1, <2>2, <2>4, HoldsReceived
  <2>7. CASE c # e  BY <1>4, <1>9, <2>4, <2>5, <2>6, <2>7
  <2>8. CASE c = e
    <3>1. Takes(c)  BY <1>11, <1>t, <2>8, StreamSteps
    <3>2. s # <<>> /\ k = 1 /\ Head(in[c]) = s[1]  BY <1>2, <1>3, <3>1 DEF Takes, s
    <3>3. 1 \in 1..Len(s) /\ m.req = s[1].req  BY <1>2, <2>4, <2>8, <3>2
    <3>4. s[1].part = "body"
      <4>1. AtBody(c)  BY <2>1, <2>8 DEF AtBody
      <4>2. QED  BY <3>2, <4>1, NextIsBody DEF s
    <3>5. m.req \in 1..Len(a) /\ Spent(c) <= Off(a, m.req) /\ Off(a, m.req) \in Nat
      <4>1. m.req \in 1..Len(a)  BY <1>t, <3>3 DEF Numbered
      <4>2. QED  BY <1>5, <1>t, <3>3, <3>4, <4>1, OffNext
    <3>6. ASSUME NEW j \in 1..Len(t), t[j].part = "body"  PROVE m.req < t[j].req
      <4>1. j + 1 \in 1..Len(s) /\ t[j] = s[j + 1] /\ 1 < j + 1  BY <1>2, <1>7, <3>2, <3>6
      <4>2. QED  BY <1>5, <3>3, <3>4, <3>6, <4>1 DEF Rising
    <3>7. ASSUME NEW r \in Nat, NEW d \in Nat, Holds(c, r, d)'
          PROVE  /\ r \in 1..Len(a) /\ Spent(c) <= Off(a, r) + d
                 /\ \A j \in 1..Len(t) : t[j].part = "body" => r < t[j].req
      <4>1. CASE Holds(c, r, d)  BY <1>5, <1>7, <4>1
      <4>2. CASE r = m.req /\ d = 0  BY <3>5, <3>6, <4>2
      <4>3. QED  BY <2>4, <2>6, <2>8, <3>7, <4>1, <4>2
    <3>8. QED  BY <1>4, <1>8, <2>5, <3>7
  <2>9. QED  BY <2>7, <2>8
<1>12. CASE NextMessage
  <2>1. ~Sends
    BY <1>12 DEF Sends, NextMessage, Owes
  <2>2. IF c = To THEN \A r, d \in Nat : ~Holds(c, r, d)' ELSE HoldsKept(c)
    BY <1>12, <1>t, HoldsDone
  <2>3. CASE c = To  BY <1>4, <1>8, <2>1, <2>2, <2>3
  <2>4. CASE c # To  BY <1>4, <1>9, <2>1, <2>2, <2>4
  <2>5. QED  BY <2>3, <2>4
<1>13. CASE Sends
  <2>1. IF c = To
        THEN \A r, d \in Nat : Holds(c, r, d)' => r = Head(msgs).req /\ d = done + 1
        ELSE HoldsKept(c)
    BY <1>13, <1>t, HoldsSent
  <2>2. CASE c # To  BY <1>4, <1>9, <2>1, <2>2
  <2>3. CASE c = To
    <3> DEFINE q == Head(msgs).req
    <3>1. msgs # <<>> /\ done < asked[To][q]  BY <1>13 DEF Sends
    <3>2. Holds(c, q, done) /\ q \in Nat /\ done \in Nat
      BY <1>t, <2>3, <3>1, HoldsFirst DEF Types
    <3>3. done < a[q]  BY <2>3, <3>1 DEF a
    <3> HIDE DEF q
    <3>4. q \in 1..Len(a) /\ Spent(c) <= Off(a, q) + done  BY <1>5, <3>2
    <3>5. Off(a, q) \in Nat /\ a[q] \in Nat  BY <1>t, <3>4, OffNext
    <3>6. Spent(c)' <= Off(a, q) + (done + 1)
      BY <1>4, <3>2, <3>4, <3>5
    <3>7. ASSUME NEW j \in 1..Len(t), t[j].part = "body"
          PROVE  q < t[j].req /\ Spent(c)' <= Off(a, t[j].req)
      <4>1. q < t[j].req /\ t[j].req \in 1..Len(a)  BY <1>7, <3>2, <3>7
      <4>2. Off(a, q) + a[q] <= Off(a, t[j].req)  BY <1>t, <3>4, <4>1, OffRises
      <4>3. Off(a, t[j].req) \in Nat  BY <1>t, <4>1, OffNext
      <4>4. Off(a, q) + (done + 1) <= Off(a, q) + a[q]  BY <3>2, <3>3, <3>5
      <4>5. Spent(c)' \in Nat  BY <1>4
      <4>6. QED  BY <3>2, <3>5, <3>6, <4>1, <4>2, <4>3, <4>4, <4>5
    <3>8. \A r, d \in Nat : Holds(c, r, d)' => r = q /\ d = done + 1
      BY <2>1, <2>3 DEF q
    <3>9. QED  BY <1>2, <1>6, <3>4, <3>6, <3>7, <3>8 DEF DueNext, t
  <2>4. QED  BY <2>2, <2>3
<1>14. QED  BY <1>10, <1>11, <1>12, <1>13, MsgsStep

\* Every step keeps what is due.
LEMMA DuesStep == SInv /\ [Next]_vars => Dues'
<1> SUFFICES ASSUME SInv, [Next]_vars, NEW c \in Clients  PROVE Cut(c)' /\ Due(c)'
  BY DEF Dues
<1>1. DueNext(c)  BY DueAsked, DueKept
<1>2. QED  BY <1>1, CutStep, DueIsNext

\* The server dies of the second of two answers that were due.
LEMMA OwingStep == SInv /\ [Next]_vars => Owing'
<1> SUFFICES ASSUME SInv, [Next]_vars, pc' = "dead"
             PROVE  \E c \in failed' : cp'[c] = "gone" /\ Len(All(asked'[c])) >= read'[c] + 2
  <2>1. \A c : Len(All(asked[c]))' = Len(All(asked'[c]))  BY DEF All, Rows, Row
  <2>2. QED  BY <2>1 DEF Owing
<1>t. Types /\ failed \subseteq Clients  BY DEF SInv, Types
<1>1. CASE pc = "dead"
  <2>1. PICK c \in failed : cp[c] = "gone" /\ Len(All(asked[c])) >= read[c] + 2
    BY <1>1 DEF SInv, Owing
  <2>2. cp'[c] = "gone" /\ asked'[c] = asked[c] /\ read'[c] = read[c]
    BY <1>t, <2>1, GoneStep
  <2>3. failed \subseteq failed'  BY FailedGrows
  <2>4. QED  BY <2>1, <2>2, <2>3
<1>2. CASE pc # "dead"
  <2>1. SendToGone  BY <1>2, DiesSending
  <2> DEFINE c == To
             r == Head(msgs).req
             a == asked[c]
  <2>2. /\ msgs # <<>> /\ done < a[r] /\ c \in failed /\ c \in failed'
        /\ cp'[c] = "gone" /\ asked'[c] = a /\ read'[c] = read[c]
    BY <1>2, <2>1 DEF SendToGone, Owes, client
  <2>3. Holds(c, r, done) /\ r \in Nat /\ c \in Clients /\ done \in Nat
    BY <1>t, <2>2, HoldsFirst DEF Types
  <2>4. r \in 1..Len(a) /\ Spent(c) <= Off(a, r) + done  BY <2>3 DEF SInv, Dues, Due
  <2>5. Spent(c) = read[c] + Len(out[c]) + 1  BY <2>2 DEF Spent
  <2>6. a \in Seq(Nat) /\ read[c] \in Nat /\ Len(out[c]) \in Nat  BY <2>3, FollowNow
  <2> HIDE DEF a, r
  <2>7. a \in Seq(Nat) /\ r \in 1..Len(a)  BY <2>4, <2>6
  <2>8. RowsOf(a) /\ a[r] \in Nat /\ Len(All(a)) \in Nat  BY <2>7, RowsAreThere, AllType
  <2>9. Off(a, r) \in Nat /\ Off(a, r) + a[r] <= Len(All(a))  BY <2>7, <2>8 DEF RowsOf
  <2>10. Len(All(a)) >= read[c] + 2
    <3> DEFINE x == Off(a, r)
               y == a[r]
               z == Len(All(a))
               k == read[c]
               l == Len(out[c])
    <3>1. /\ x \in Nat /\ y \in Nat /\ z \in Nat /\ k \in Nat /\ l \in Nat /\ done \in Nat
          /\ done < y /\ k + l + 1 <= x + done /\ x + y <= z
      BY <2>2, <2>3, <2>4, <2>5, <2>6, <2>8, <2>9
    <3> HIDE DEF x, y, z, k, l
    <3>2. z >= k + 2  BY <3>1
    <3>3. QED  BY <3>2 DEF z, k
  <2>11. QED  BY <2>2, <2>10
<1>3. QED  BY <1>1, <1>2

\* Every step keeps the invariant.
LEMMA SInvStep == SInv /\ [Next]_vars => SInv'
BY TypesStep, BatchStep, KnownStep, EndedStep, TurnsStep, SafeStep, FollowStep, OrdersStep,
   DuesStep, OwingStep DEF SInv

-----------------------------------------------------------------------------
(* What the server and its clients keep to.                                *)

\* Every state is as the invariant says, whoever the clients are and whatever
\* their users do.
THEOREM ServerInvariant == Spec => []SInv
BY SInvInit, SInvStep, PTL DEF Spec

\* Every variable keeps to its values: a batch is no longer than epoll_wait
\* was asked for, no connection holds more than it has room for, and no client
\* reads more answers than it asked for.
THEOREM ServerIsTyped == Spec => []ServerTypeOK
<1>1. SInv => ServerTypeOK
  <2> SUFFICES ASSUME SInv PROVE ServerTypeOK  OBVIOUS
  <2>1. Len(events) <= PollSize /\ Len(msgs) <= PollSize
    <3> DEFINE E == [from : Clients, hup : BOOLEAN]
               M == [from : Clients, req : Nat]
    <3>1. events \in Seq(E) /\ msgs \in Seq(M)  BY DEF SInv, Types
    <3> HIDE DEF E, M
    <3>2. Len(events) \in Nat /\ Len(msgs) \in Nat  BY <3>1
    <3>3. Len(events) + Len(msgs) <= PollSize /\ PollSize \in Nat
      BY SizesAssumption DEF SInv, Batch
    <3>4. QED  BY <3>2, <3>3
  <2>2. ASSUME NEW c \in Clients
        PROVE  /\ Len(out[c]) <= OutCap
               /\ cp[c] \in {"poll", "name", "input", "get", "gone"}
               /\ read[c] <= Len(AnswersTo(c))
    <3>1. read[c] <= Len(AnswersTo(c))
      BY AnswersAreAll DEF SInv, Orders, InOrder
    <3>2. QED  BY <3>1 DEF SInv, Types
  <2>3. QED  BY <2>1, <2>2 DEF SInv, Types, ServerTypeOK
<1>2. QED  BY <1>1, ServerInvariant, PTL

\* Clients read the answers to their own requests, in the order they sent
\* them, none lost and none twice: whatever characters they type, however many
\* requests they have on their way, and whenever the other clients end.
THEOREM AnswersComeInOrder == Spec => []AnswersInOrder
<1>1. SInv => AnswersInOrder
  <2> SUFFICES ASSUME SInv, NEW c \in Clients, NEW i \in 1..Len(out[c])
               PROVE  /\ read[c] + i <= Len(AnswersTo(c))
                      /\ out[c][i] = AnswersTo(c)[read[c] + i]
    BY DEF AnswersInOrder
  <2>1. InOrder(c) /\ AnswersTo(c) = All(asked[c])
    BY AnswersAreAll DEF SInv, Orders
  <2>2. QED  BY <2>1 DEF InOrder
<1>2. QED  BY <1>1, ServerInvariant, PTL

\* Whoever the clients are, whatever their users type and whenever they end: what
\* kills the server is a client that ended with two answers to come or unread.
THEOREM ServerDiesOwing == Spec => []DiesOwing
<1>1. SInv => DiesOwing
  <2> SUFFICES ASSUME SInv, pc = "dead"
               PROVE  \E c \in failed : cp[c] = "gone" /\ Owed(c) >= 2
    BY DEF DiesOwing
  <2>1. PICK c \in failed : cp[c] = "gone" /\ Len(All(asked[c])) >= read[c] + 2
    BY DEF SInv, Owing
  <2>2. c \in Clients  BY DEF SInv, Types
  <2>3. read[c] \in Nat /\ Len(All(asked[c])) \in Nat
    BY <2>2, AllType DEF SInv, Types
  <2>4. Owed(c) >= 2  BY <2>1, <2>3, AnswersAreAll DEF Owed
  <2>5. QED  BY <2>1, <2>4
<1>2. QED  BY <1>1, ServerInvariant, PTL

\* Hence no end of a client is the end of the server, if users type ASCII
\* characters, wait for every answer, ask for one thing at a time, their clients
\* read whole answers, and end between requests.
THEOREM ServerSurvives ==
  ASSUME Patient, WholeReads, Ascii, HangUps # "anytime", AnswerCounts \subseteq {0, 1}
  PROVE  Spec => []SurvivesClients
<1>1. ASSUME SInv  PROVE SurvivesClients
  <2>1. pc # "spin"  BY <1>1 DEF SInv, Safe, Reliable
  <2>2. ASSUME pc = "dead"  PROVE FALSE
    <3>1. PICK c \in failed : Len(All(asked[c])) >= read[c] + 2
      BY <1>1, <2>2 DEF SInv, Owing
    <3>2. c \in Clients  BY <1>1 DEF SInv, Types
    <3>3. Len(All(asked[c])) <= read[c] + 1  BY <1>1, <3>2 DEF SInv, Turns, Turn
    <3>4. read[c] \in Nat /\ Len(All(asked[c])) \in Nat
      BY <1>1, <3>2, AllType DEF SInv, Types
    <3>5. QED  BY <3>1, <3>3, <3>4
  <2>3. QED  BY <2>1, <2>2 DEF SurvivesClients
<1>2. QED  BY <1>1, ServerInvariant, PTL

\* A patient user's prompt shows the working database of the client, if every
\* recv of the client gets all the bytes it asks for.
THEOREM PromptShowsWorkingDb ==
  ASSUME Patient, WholeReads
  PROVE  Spec => PromptIsWorkingDb
<1>1. ASSUME SInv, [Next]_vars, NEW c \in Clients, GetName(c)
      PROVE  ReadsDbName(c)
  <2> DEFINE a == asked[c]
             n == Len(asked[c])
  <2>0. ~skew[c] /\ ~skew'[c]
    <3>1. ~skew[c]  BY <1>1 DEF SInv, Turns, Turn
    <3>2. ReadWhole(c)  BY <1>1, <3>1 DEF GetName, ReadAnswer, ReadShort, ReadSkewed
    <3>3. QED  BY <3>1, <3>2 DEF ReadWhole
  <2>1. cp[c] = "name" /\ out[c] # <<>>  BY <1>1 DEF GetName, ReadAnswer
  <2>2. a # <<>> /\ a[n] = 1 /\ Len(All(a)) = read[c] + 1
    BY <1>1, <2>1 DEF SInv, Turns, Turn
  <2>3. /\ a \in Seq(Nat) /\ read[c] \in Nat /\ out[c] \in Seq(Nat \X Nat) /\ InOrder(c)
    BY <1>1 DEF SInv, Types, Orders
  <2>4. n \in 1..Len(a)  BY <2>2, <2>3
  <2>5. 1 \in 1..Len(out[c]) /\ Head(out[c]) = out[c][1]  BY <2>1, <2>3
  <2>6. Head(out[c]) = All(a)[read[c] + 1]  BY <2>3, <2>5 DEF InOrder
  <2> HIDE DEF a
  <2>7. Off(a, n + 1) = Off(a, n) + a[n] /\ Off(a, n) \in Nat /\ Off(a, n + 1) = Len(All(a))
    <3>1. n = Len(a)  BY DEF a
    <3>2. QED  BY <2>3, <2>4, <3>1, OffNext, OffLast
  <2>8. All(a)[Off(a, n) + 1] = <<n, 1>>
    <3>1. 1 \in 1..a[n]  BY <2>2 DEF a
    <3>2. QED  BY <2>3, <2>4, <3>1, RowsAreThere DEF RowsOf
  <2>9. Off(a, n) + 1 = read[c] + 1  BY <2>2, <2>7
  <2>10. Head(out[c])[1] = n  BY <2>6, <2>8, <2>9
  <2>11. QED  BY <2>0, <2>10 DEF ReadsDbName
<1>2. SInv /\ [Next]_vars => [\A c \in Clients : GetName(c) => ReadsDbName(c)]_vars
  BY <1>1
<1>3. QED  BY <1>2, ServerInvariant, PTL DEF Spec, PromptIsWorkingDb
==============================================================================
