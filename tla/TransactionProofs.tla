--------------------------- MODULE TransactionProofs ---------------------------
(* Proofs about Transaction, for every set of keys, values and buffers.     *)
EXTENDS Transaction, Recursion

\* A queued command: what it does, the buffer it looks at, what was in there.
Commands == [op : {"set", "update", "erase"}, view : Buffers, queued : Pairs]

(***************************************************************************)
(* TTypeOK is not inductive: how far a commit goes is bounded by the list, *)
(* whose length is bounded while commands are queued.                      *)
(***************************************************************************)
TInv ==
  /\ buffer \in [Buffers -> Pairs]
  /\ cmds \in Seq(Commands) /\ Len(cmds) <= MaxCmds
  /\ pos \in 0..Len(cmds) + 1
  /\ DOMAIN store \subseteq Keys /\ DOMAIN before \subseteq Keys

\* A call on the database leaves keys that callers use.
LEMMA KeysOnly ==
  ASSUME DOMAIN store \subseteq Keys, NEW k \in Keys,
         (\E v : Set(k, v) \/ Update(k, v)) \/ Erase(k) \/ Get(k)
  PROVE  DOMAIN store' \subseteq Keys
BY DEF Set, Update, Erase, Get, Put

\* The invariant holds initially.
LEMMA InitTyped == TInit => TInv
<1> SUFFICES ASSUME TInit PROVE TInv  OBVIOUS
<1>1. DOMAIN store = {} /\ before = store  BY DEF TInit, Init
<1>2. cmds \in Seq(Commands) /\ Len(cmds) = 0  BY EmptySeq DEF TInit
<1>3. QED  BY <1>1, <1>2, MaxCmdsAssumption DEF TInit, TInv

\* Every step keeps it.
LEMMA StepTyped ==
  ASSUME TInv, [TNext]_tvars
  PROVE  TInv'
<1>1. Len(cmds) \in Nat  BY LenProperties DEF TInv
<1>2. ASSUME NEW b \in Buffers, NEW p \in Pairs, Fill(b, p)  PROVE TInv'
  BY <1>2 DEF Fill, TInv
<1>3. ASSUME NEW b \in Buffers, NEW op \in {"set", "update", "erase"}, Queue(op, b)
      PROVE  TInv'
  <2> DEFINE c == [op |-> op, view |-> b, queued |-> buffer[b]]
  <2>1. c \in Commands  BY DEF TInv, Commands
  <2>2. cmds' = Append(cmds, c) /\ Len(cmds) < MaxCmds /\ pos = 0
        /\ UNCHANGED <<store, buffer, pos, before>>
    BY <1>3 DEF Queue
  <2> HIDE DEF c
  <2>3. cmds' \in Seq(Commands) /\ Len(cmds') = Len(cmds) + 1
    BY <2>1, <2>2, AppendProperties DEF TInv
  <2>4. QED  BY <1>1, <2>2, <2>3, MaxCmdsAssumption DEF TInv
<1>4. CASE Direct
  <2>1. DOMAIN store' \subseteq Keys
    <3>1. PICK k \in Keys :
            (\E v : Set(k, v) \/ Update(k, v)) \/ Erase(k) \/ Get(k)
      BY <1>4 DEF Direct, Next
    <3>2. QED  BY <3>1, KeysOnly DEF TInv
  <2>2. QED  BY <1>4, <2>1 DEF Direct, TInv
<1>5. CASE Commit
  BY <1>1, <1>5 DEF Commit, TInv
<1>6. CASE Run
  <2> DEFINE p == buffer[cmds[pos].view]
  <2>1. pos \in 1..Len(cmds) /\ Command(cmds[pos].op, p)
        /\ UNCHANGED <<buffer, cmds, before>>
        /\ pos' \in {0, pos + 1}
    BY <1>6 DEF Run
  <2>2. cmds[pos] \in Commands  BY <2>1, ElementOfSeq DEF TInv
  <2>3. p \in Pairs /\ cmds[pos].op \in {"set", "update", "erase"}
    BY <2>2 DEF TInv, Commands
  <2> HIDE DEF p
  <2>4. DOMAIN store' \subseteq Keys
    <3>1. Set(p.key, p.value) \/ Update(p.key, p.value) \/ Erase(p.key)
      BY <2>1, <2>3 DEF Command
    <3>2. p.key \in Keys  BY <2>3 DEF Pairs
    <3>3. QED  BY <3>1, <3>2, KeysOnly DEF TInv
  <2>5. pos' \in 0..Len(cmds) + 1  BY <1>1, <2>1
  <2>6. QED  BY <2>1, <2>4, <2>5 DEF TInv
<1>7. CASE Done
  BY <1>1, <1>7 DEF Done, TInv
<1>8. CASE UNCHANGED tvars
  BY <1>8 DEF tvars, TInv
<1>9. QED
  BY <1>2, <1>3, <1>4, <1>5, <1>6, <1>7, <1>8 DEF TNext

\* A commit never runs past the list by more than the step in which it sees its
\* end, and what it and the caller do keeps the types.
THEOREM TransactionTyped == TSpec => []TTypeOK
<1>1. TInv => TTypeOK
  <2> SUFFICES ASSUME TInv PROVE TTypeOK  OBVIOUS
  <2>1. Len(cmds) \in Nat /\ MaxCmds \in Nat
    BY LenProperties, MaxCmdsAssumption DEF TInv
  <2>2. pos \in 0..MaxCmds + 1  BY <2>1 DEF TInv
  <2>3. QED  BY <2>2 DEF TInv, TTypeOK, Commands
<1>2. QED  BY <1>1, InitTyped, StepTyped, PTL DEF TSpec
-----------------------------------------------------------------------------
(***************************************************************************)
(* What a commit does.                                                     *)
(***************************************************************************)
Maps == UNION {[D -> Values] : D \in SUBSET Keys}

\* A map is changed in one place or loses one key.
LEMMA MapsClosed ==
  ASSUME NEW s \in Maps
  PROVE  /\ DOMAIN s \subseteq Keys
         /\ \A c \in Commands : After(s, c) \in Maps
         /\ \A k \in Keys : [x \in DOMAIN s \ {k} |-> s[x]] \in Maps
         /\ \A k \in Keys, v \in Values :
              [x \in DOMAIN s \cup {k} |-> IF x = k THEN v ELSE s[x]] \in Maps
<1>1. PICK D \in SUBSET Keys : s \in [D -> Values]  BY DEF Maps
<1>2. DOMAIN s = D  BY <1>1
<1>3. ASSUME NEW k \in Keys  PROVE [x \in D \ {k} |-> s[x]] \in Maps
  <2>1. [x \in D \ {k} |-> s[x]] \in [D \ {k} -> Values]  BY <1>1
  <2>2. D \ {k} \in SUBSET Keys  OBVIOUS
  <2>3. QED  BY <2>1, <2>2 DEF Maps
<1>4. ASSUME NEW k \in Keys, NEW v \in Values
      PROVE  [x \in D \cup {k} |-> IF x = k THEN v ELSE s[x]] \in Maps
  <2>1. [x \in D \cup {k} |-> IF x = k THEN v ELSE s[x]] \in [D \cup {k} -> Values]
    BY <1>1
  <2>2. D \cup {k} \in SUBSET Keys  OBVIOUS
  <2>3. QED  BY <2>1, <2>2 DEF Maps
<1>5. ASSUME NEW c \in Commands  PROVE After(s, c) \in Maps
  <2>1. c.queued.key \in Keys /\ c.queued.value \in Values  BY DEF Commands, Pairs
  <2>2. QED  BY <1>2, <1>3, <1>4, <2>1 DEF After
<1>6. QED  BY <1>2, <1>3, <1>4, <1>5

\* One command run on content s.
OnContent(s, c) == IF Succeeds(s, c) THEN After(s, c) ELSE s

\* The recursive function Contents is what its definition says.
LEMMA ContentsUnfold ==
  ASSUME TInv, NEW s \in Maps
  PROVE  \A n \in 0..Len(cmds) :
           /\ Contents(s)[n] \in Maps
           /\ Contents(s)[n] = IF n = 0 THEN s ELSE OnContent(Contents(s)[n - 1], cmds[n])
<1> DEFINE l == Len(cmds)
           h == [i \in Nat |->
                  [t \in Maps |-> IF i \in 1..l THEN OnContent(t, cmds[i]) ELSE t]]
           Body(f) == [n \in 0..l |->
                        IF n = 0 THEN s
                        ELSE IF Succeeds(f[n - 1], cmds[n]) THEN After(f[n - 1], cmds[n])
                        ELSE f[n - 1]]
<1>1. l \in Nat /\ \A i \in 1..l : cmds[i] \in Commands  BY DEF TInv
<1>2. \A t \in Maps : \A i \in 1..l : OnContent(t, cmds[i]) \in Maps
  BY <1>1, MapsClosed DEF OnContent
<1>3. StepsIn(h, Maps)  BY <1>2 DEF StepsIn
<1>4. PICK f \in [0..l -> Maps] : Recursive(f, s, h, 0, l)
  <2>1. 0 \in Nat /\ l >= 0  BY <1>1
  <2> HIDE DEF h, l
  <2>2. \A k \in Nat : k >= 0 => \E f \in [0..k -> Maps] : Recursive(f, s, h, 0, k)
    BY <1>3, <2>1, Recursion
  <2>3. QED  BY <1>1, <2>1, <2>2
<1>5. \A n \in 0..l : f[n] = IF n = 0 THEN s ELSE h[n][f[n - 1]]
  BY <1>4 DEF Recursive
<1>6. f = Body(f)
  <2>1. ASSUME NEW n \in 0..l  PROVE f[n] = Body(f)[n]
    <3>1. CASE n = 0  BY <1>5, <3>1
    <3>2. CASE n # 0
      <4>1. n - 1 \in 0..l /\ n \in 1..l /\ n \in Nat  BY <1>1, <3>2
      <4>2. f[n - 1] \in Maps  BY <4>1
      <4>3. h[n][f[n - 1]] = OnContent(f[n - 1], cmds[n])  BY <4>1, <4>2
      <4>4. f[n] = h[n][f[n - 1]]  BY <1>5, <3>2
      <4>5. QED  BY <3>2, <4>3, <4>4 DEF OnContent
    <3>3. QED  BY <3>1, <3>2
  <2>2. QED  BY <2>1
<1> DEFINE g == CHOOSE x : x = Body(x)
<1>7. g = Body(g)
  <2> HIDE DEF Body
  <2>1. QED  BY <1>6, Zenon
<1>8. Contents(s) = g  BY Zenon DEF Contents
<1>9. \A n \in 0..l : g[n] = Body(g)[n]
  <2> HIDE DEF g, Body
  <2>1. QED  BY <1>7
<1> HIDE DEF g
<1>10. \A n \in 0..l : g[n] = IF n = 0 THEN s ELSE OnContent(g[n - 1], cmds[n])
  BY <1>9 DEF OnContent
<1>11. \A n \in 0..l : g[n] \in Maps
  <2> DEFINE S == {n \in Nat : n \in 0..l => g[n] \in Maps}
  <2>1. 0 \in S  BY <1>1, <1>10
  <2>2. ASSUME NEW n \in Nat, n \in S  PROVE n + 1 \in S
    <3> SUFFICES ASSUME n + 1 \in 0..l PROVE g[n + 1] \in Maps  OBVIOUS
    <3>1. n \in 0..l /\ n + 1 \in 1..l /\ n + 1 - 1 = n  BY <1>1
    <3>2. g[n] \in Maps  BY <2>2, <3>1
    <3>3. g[n + 1] = OnContent(g[n], cmds[n + 1])  BY <1>10, <3>1
    <3>4. QED  BY <1>2, <3>1, <3>2, <3>3
  <2>3. Nat \subseteq S
    <3> HIDE DEF S
    <3>1. QED  BY <2>1, <2>2, SetInduction
  <2>4. QED  BY <1>1, <2>3
<1>12. QED  BY <1>8, <1>10, <1>11

\* The commands queued are still in the buffers, the commands so far have
\* succeeded, and the database is where they lead to.
Running ==
  LET C == Contents(before)
  IN  /\ store = C[pos - 1]
      /\ \A i \in 1..pos - 1 : Succeeds(C[i - 1], cmds[i])

\* The buffers hold what was queued, and a commit that runs has done it so far.
QInv ==
  /\ TInv
  /\ store \in Maps /\ before \in Maps
  /\ \A i \in 1..Len(cmds) : cmds[i].queued = buffer[cmds[i].view]
  /\ pos # 0 => Running

\* There is one first failure, or none.
LEMMA PrefixIs ==
  ASSUME TInv, NEW s, NEW n \in 0..Len(cmds),
         \A i \in 1..n : Succeeds(Contents(s)[i - 1], cmds[i]),
         n = Len(cmds) \/ ~Succeeds(Contents(s)[n], cmds[n + 1])
  PROVE  Prefix(s) = n
<1> DEFINE C == Contents(s)
           P(m) == /\ \A i \in 1..m : Succeeds(C[i - 1], cmds[i])
                   /\ m = Len(cmds) \/ ~Succeeds(C[m], cmds[m + 1])
<1>1. Len(cmds) \in Nat  BY DEF TInv
<1>2. ASSUME NEW m \in 0..Len(cmds), P(m)  PROVE m = n
  <2>1. CASE m < n
    <3>1. m + 1 \in 1..n /\ m # Len(cmds) /\ m + 1 - 1 = m  BY <1>1, <2>1
    <3>2. Succeeds(C[m + 1 - 1], cmds[m + 1])  BY <3>1
    <3>3. QED  BY <1>2, <3>1, <3>2
  <2>2. CASE n < m
    <3>1. n + 1 \in 1..m /\ n # Len(cmds) /\ n + 1 - 1 = n  BY <1>1, <2>2
    <3>2. Succeeds(C[n + 1 - 1], cmds[n + 1])  BY <1>2, <3>1
    <3>3. QED  BY <3>1, <3>2
  <2>3. QED  BY <1>1, <2>1, <2>2
<1>3. P(n)  OBVIOUS
<1>4. Prefix(s) = CHOOSE m \in 0..Len(cmds) : P(m)  BY DEF Prefix
<1> HIDE DEF P
<1>5. QED  BY <1>2, <1>3, <1>4

\* What a command does to the database is what it does to its content.
LEMMA CommandOnContent ==
  ASSUME NEW c \in Commands, Command(c.op, c.queued)
  PROVE  /\ ret'.status = "Ok" <=> Succeeds(store, c)
         /\ store' = OnContent(store, c)
         /\ ~Succeeds(store, c) =>
              ret'.status = IF c.op = "set" THEN "KeyNotInserted" ELSE "KeyNotFound"
<1>1. c.op \in {"set", "update", "erase"}  BY DEF Commands
<1>2. CASE c.op = "set"
  <2>1. Set(c.queued.key, c.queued.value)  BY <1>2 DEF Command
  <2>2. QED  BY <1>2, <2>1 DEF Set, Reply, Succeeds, OnContent, After, Put
<1>3. CASE c.op = "update"
  <2>1. Update(c.queued.key, c.queued.value)  BY <1>3 DEF Command
  <2>2. QED  BY <1>3, <2>1 DEF Update, Reply, Succeeds, OnContent, After, Put
<1>4. CASE c.op = "erase"
  <2>1. Erase(c.queued.key)  BY <1>4 DEF Command
  <2>2. QED  BY <1>4, <2>1 DEF Erase, Reply, Succeeds, OnContent, After
<1>5. QED  BY <1>1, <1>2, <1>3, <1>4

\* QInv holds initially.
LEMMA QInit == TInit => QInv
<1> SUFFICES ASSUME TInit PROVE QInv  OBVIOUS
<1>1. store = [k \in {} |-> <<>>] /\ before = store  BY DEF TInit, Init
<1>2. store \in Maps
  <2>1. [k \in {} |-> <<>>] \in [{} -> Values] /\ {} \in SUBSET Keys  OBVIOUS
  <2>2. QED  BY <1>1, <2>1 DEF Maps
<1>3. cmds = <<>> /\ pos = 0  BY DEF TInit
<1>4. QED  BY <1>1, <1>2, <1>3, InitTyped DEF QInv

\* A call on the database leaves a map.
LEMMA CallsKeepMaps ==
  ASSUME store \in Maps, NEW k \in Keys,
         (\E v \in Values : Set(k, v) \/ Update(k, v)) \/ Erase(k) \/ Get(k)
  PROVE  store' \in Maps
BY MapsClosed DEF Set, Update, Erase, Get, Put

\* While a commit runs, what its commands lead through does not change.
LEMMA RunningKept ==
  ASSUME Running, UNCHANGED <<store, cmds, before, pos>>
  PROVE  Running'
<1> DEFINE C == Contents(before)
<1>1. C' = C  BY DEF Contents, Succeeds, After
<1>2. /\ store = C[pos - 1] /\ \A i \in 1..pos - 1 : Succeeds(C[i - 1], cmds[i])
  BY DEF Running
<1> HIDE DEF C
<1>3. (store = C[pos - 1])'  BY <1>1, <1>2
<1>4. (\A i \in 1..pos - 1 : Succeeds(C[i - 1], cmds[i]))'
  BY <1>1, <1>2 DEF Succeeds
<1>5. QED  BY <1>3, <1>4 DEF C, Running

\* What a command of a running commit does.
LEMMA RunDoes ==
  ASSUME QInv, Run
  PROVE  /\ store' = OnContent(store, cmds[pos])
         /\ IF Succeeds(store, cmds[pos])
            THEN pos' = pos + 1 /\ UNCHANGED result
            ELSE /\ pos' = 0
                 /\ result' = IF cmds[pos].op = "set" THEN "KeyNotInserted"
                              ELSE "KeyNotFound"
<1>1. pos \in 1..Len(cmds) /\ Command(cmds[pos].op, buffer[cmds[pos].view])
  BY DEF Run
<1>2. cmds[pos] \in Commands  BY <1>1, ElementOfSeq DEF QInv, TInv
<1>3. Command(cmds[pos].op, cmds[pos].queued)  BY <1>1 DEF QInv
<1>4. QED  BY <1>2, <1>3, CommandOnContent DEF Run

\* A command that succeeds brings the commit one further.
LEMMA RunAdvances ==
  ASSUME QInv, Run, Succeeds(store, cmds[pos])
  PROVE  Running' /\ store' \in Maps
<1>1. /\ pos \in 1..Len(cmds) /\ pos' = pos + 1 /\ UNCHANGED <<cmds, before>>
      /\ store' = OnContent(store, cmds[pos])
  BY RunDoes DEF Run
<1>2. Len(cmds) \in Nat /\ TInv /\ before \in Maps /\ pos # 0  BY <1>1 DEF QInv, TInv
<1> DEFINE C == Contents(before)
<1>3. /\ store = C[pos - 1]
      /\ \A i \in 1..pos - 1 : Succeeds(C[i - 1], cmds[i])
  BY <1>2 DEF QInv, Running
<1>4. C[pos] = OnContent(C[pos - 1], cmds[pos]) /\ C[pos] \in Maps
  BY <1>1, <1>2, ContentsUnfold
<1>5. C' = C  BY <1>1 DEF Contents, Succeeds, After
<1>6. pos' - 1 = pos  BY <1>1, <1>2
<1>7. \A i \in 1..pos : Succeeds(C[i - 1], cmds[i])  BY <1>1, <1>2, <1>3
<1>8. store' = C'[pos' - 1] /\ store' \in Maps  BY <1>1, <1>3, <1>4, <1>5, <1>6
<1> HIDE DEF C
<1>9. \A i \in 1..pos' - 1 : Succeeds(C'[i - 1], cmds'[i])
  BY <1>1, <1>5, <1>6, <1>7
<1>10. (\A i \in 1..pos - 1 : Succeeds(C[i - 1], cmds[i]))'
  BY <1>9 DEF Succeeds
<1>11. QED  BY <1>8, <1>10 DEF C, Running

\* Every step keeps QInv, if nobody writes to a buffer that is viewed.
LEMMA QStep ==
  ASSUME ~BuffersReused, QInv, [TNext]_tvars
  PROVE  QInv'
<1>1. TInv'  BY StepTyped DEF QInv
<1>2. Len(cmds) \in Nat /\ \A i \in 1..Len(cmds) : cmds[i] \in Commands
  BY DEF QInv, TInv
<1>3. ASSUME NEW b \in Buffers, NEW p \in Pairs, Fill(b, p)  PROVE QInv'
  <2>1. ~Viewed(b) /\ pos = 0 /\ UNCHANGED <<store, before, cmds, pos>>
        /\ buffer' = [buffer EXCEPT ![b] = p]
    BY <1>3 DEF Fill
  <2>2. \A i \in 1..Len(cmds) : cmds[i].view # b  BY <2>1 DEF Viewed
  <2>3. \A i \in 1..Len(cmds') : cmds'[i].queued = buffer'[cmds'[i].view]
    BY <1>2, <2>1, <2>2 DEF QInv, TInv, Commands
  <2>4. QED  BY <1>1, <2>1, <2>3 DEF QInv
<1>4. ASSUME NEW b \in Buffers, NEW op \in {"set", "update", "erase"}, Queue(op, b)
      PROVE  QInv'
  <2> DEFINE c == [op |-> op, view |-> b, queued |-> buffer[b]]
  <2>1. pos = 0 /\ cmds' = Append(cmds, c) /\ UNCHANGED <<store, before, buffer, pos>>
    BY <1>4 DEF Queue
  <2>2. c \in Commands  BY DEF QInv, TInv, Commands
  <2>3. c.queued = buffer[c.view]  OBVIOUS
  <2> HIDE DEF c
  <2>4. /\ Len(cmds') = Len(cmds) + 1 /\ cmds'[Len(cmds) + 1] = c
        /\ \A i \in 1..Len(cmds) : cmds'[i] = cmds[i]
    BY <2>1, <2>2, AppendProperties DEF QInv, TInv
  <2>5. ASSUME NEW i \in 1..Len(cmds')  PROVE cmds'[i].queued = buffer'[cmds'[i].view]
    <3>1. CASE i = Len(cmds) + 1  BY <2>1, <2>3, <2>4, <3>1
    <3>2. CASE i # Len(cmds) + 1
      <4>1. i \in 1..Len(cmds)  BY <1>2, <2>4, <3>2
      <4>2. QED  BY <2>1, <2>4, <4>1 DEF QInv
    <3>3. QED  BY <3>1, <3>2
  <2>6. QED  BY <1>1, <2>1, <2>5 DEF QInv
<1>5. CASE Direct
  <2>1. store' \in Maps
    <3>1. PICK k \in Keys :
            (\E v \in Values : Set(k, v) \/ Update(k, v)) \/ Erase(k) \/ Get(k)
      BY <1>5 DEF Direct, Next
    <3>2. QED  BY <3>1, CallsKeepMaps DEF QInv
  <2>2. QED  BY <1>1, <1>5, <2>1 DEF Direct, QInv
<1>6. CASE Commit
  <2>1. pos' = 1 /\ before' = store /\ UNCHANGED <<store, buffer, cmds>>  BY <1>6 DEF Commit
  <2>2. 0 \in 0..Len(cmds') /\ store' \in Maps  BY <1>2, <2>1 DEF QInv
  <2>3. Contents(store)[0] = store  BY <1>2, ContentsUnfold DEF QInv
  <2>4. Contents(before)' = Contents(store)
    BY <2>1 DEF Contents, Succeeds, After
  <2>5. pos' - 1 = 0  BY <2>1
  <2>6. Running'  BY <2>1, <2>3, <2>4, <2>5 DEF Running
  <2>7. QED  BY <1>1, <2>1, <2>6 DEF QInv
<1>7. CASE Run
  <2>1. UNCHANGED <<buffer, cmds, before>>  BY <1>7 DEF Run
  <2>2. CASE Succeeds(store, cmds[pos])
    BY <1>1, <1>7, <2>1, <2>2, RunAdvances DEF QInv
  <2>3. CASE ~Succeeds(store, cmds[pos])
    <3>1. pos' = 0 /\ store' = store  BY <1>7, <2>3, RunDoes DEF OnContent
    <3>2. QED  BY <1>1, <2>1, <3>1 DEF QInv
  <2>4. QED  BY <2>2, <2>3
<1>8. CASE Done
  BY <1>1, <1>8 DEF Done, QInv
<1>9. CASE UNCHANGED tvars
  <2>1. UNCHANGED <<store, buffer, cmds, pos, before>>  BY <1>9 DEF tvars
  <2>2. pos # 0 => Running'  BY <2>1, RunningKept DEF QInv
  <2>3. QED  BY <1>1, <2>1, <2>2 DEF QInv
<1>10. QED
  BY <1>3, <1>4, <1>5, <1>6, <1>7, <1>8, <1>9 DEF TNext

\* A commit ends where the first failure or the end of the list is.
LEMMA CommitEnds ==
  ASSUME QInv, [TNext]_tvars, pos # 0, pos' = 0
  PROVE  LET n == Prefix(before)
         IN  /\ store' = Contents(before)[n]
             /\ result' = IF n = Len(cmds) THEN "Ok"
                          ELSE IF cmds[n + 1].op = "set" THEN "KeyNotInserted"
                          ELSE "KeyNotFound"
<1> DEFINE C == Contents(before)
<1>1. /\ TInv /\ Len(cmds) \in Nat /\ pos \in 1..Len(cmds) + 1
      /\ store = C[pos - 1] /\ \A i \in 1..pos - 1 : Succeeds(C[i - 1], cmds[i])
  BY DEF QInv, TInv, Running
<1>2. Run \/ Done  BY DEF TNext, Fill, Queue, Direct, Commit, tvars
<1>3. CASE Done
  <2>1. pos - 1 = Len(cmds) /\ store' = store /\ result' = "Ok"  BY <1>1, <1>3 DEF Done
  <2>2. Prefix(before) = Len(cmds)
    <3>1. Len(cmds) \in 0..Len(cmds)  BY <1>1
    <3> HIDE DEF C
    <3>2. \A i \in 1..Len(cmds) : Succeeds(C[i - 1], cmds[i])  BY <1>1, <2>1
    <3>3. QED  BY <1>1, <3>1, <3>2, PrefixIs DEF C
  <2>3. QED  BY <1>1, <2>1, <2>2
<1>4. CASE Run
  <2>1. pos \in 1..Len(cmds)  BY <1>4 DEF Run
  <2>2. pos + 1 # 0  BY <1>1
  <2>3. ~Succeeds(store, cmds[pos])  BY <1>4, <2>2, RunDoes
  <2>4. /\ store' = store
        /\ result' = IF cmds[pos].op = "set" THEN "KeyNotInserted" ELSE "KeyNotFound"
    BY <1>4, <2>3, RunDoes DEF OnContent
  <2>5. pos - 1 \in 0..Len(cmds) /\ pos - 1 + 1 = pos /\ pos - 1 # Len(cmds)
    BY <1>1, <2>1
  <2>6. Prefix(before) = pos - 1
    <3> DEFINE n == pos - 1
    <3>1. /\ n \in 0..Len(cmds) /\ \A i \in 1..n : Succeeds(C[i - 1], cmds[i])
          /\ ~Succeeds(C[n], cmds[n + 1])
      BY <1>1, <2>3, <2>5
    <3> HIDE DEF n
    <3>2. Prefix(before) = n  BY <1>1, <3>1, PrefixIs
    <3>3. QED  BY <3>2 DEF n
  <2>7. QED  BY <1>1, <2>4, <2>5, <2>6
<1>5. QED  BY <1>2, <1>3, <1>4

\* If callers leave the buffers alone that a transaction looks at, its commit
\* runs what was queued, up to the first command that fails, and says so.
THEOREM CommitDoesQueued ==
  ASSUME ~BuffersReused
  PROVE  TSpec => CommitRunsQueued
<1>1. QInv /\ [TNext]_tvars =>
        [(pos # 0 /\ pos' = 0) =>
           LET n == Prefix(before)
           IN  /\ store' = Contents(before)[n]
               /\ result' = IF n = Len(cmds) THEN "Ok"
                            ELSE IF cmds[n + 1].op = "set" THEN "KeyNotInserted"
                            ELSE "KeyNotFound"]_tvars
  BY CommitEnds
<1>2. QInv /\ [TNext]_tvars => QInv'  BY QStep
<1>3. QED  BY <1>1, <1>2, QInit, PTL DEF TSpec, CommitRunsQueued
==============================================================================
