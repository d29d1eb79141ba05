------------------------------ MODULE Recursion ------------------------------
(***************************************************************************)
(* Induction over the natural numbers, over sets instead of predicates, so *)
(* that it needs no operator as a parameter; what it gives for functions   *)
(* defined by recursion and for FlattenSeq; concatenation.                 *)
(***************************************************************************)
EXTENDS SequencesExt, WellFoundedInduction, SequenceTheorems, TLAPS

-----------------------------------------------------------------------------
(* Induction.                                                              *)

\* The order of the natural numbers, as a relation.
Below == {p \in Nat \X Nat : p[1] < p[2]}

\* There is no infinite descent in the natural numbers.
LEMMA BelowIsWellFounded == IsWellFoundedOn(Below, Nat)
<1>1. Below = OpToRel(<, Nat)  BY DEF Below, OpToRel
<1>2. QED  BY <1>1, NatLessThanWellFounded

\* A set with 0 and with the successor of each of its numbers has them all:
\* the least number it lacks would be the successor of one that it has.
LEMMA SetInduction ==
  ASSUME NEW S, 0 \in S, \A n \in Nat : n \in S => n + 1 \in S
  PROVE  Nat \subseteq S
<1> SUFFICES ASSUME Nat \ S # {} PROVE FALSE  OBVIOUS
<1>1. PICK m \in Nat \ S : \A k \in Nat \ S : <<k, m>> \notin Below
  BY BelowIsWellFounded, WFMin
<1>2. m - 1 \in Nat  BY <1>1
<1>3. m - 1 \notin S  BY <1>1, <1>2
<1>4. <<m - 1, m>> \in Below  BY <1>1, <1>2 DEF Below
<1>5. QED  BY <1>1, <1>2, <1>3, <1>4

\* The same for the numbers from m on.
LEMMA SetInductionFrom ==
  ASSUME NEW m \in Nat, NEW S, m \in S,
         \A n \in Nat : n >= m /\ n \in S => n + 1 \in S
  PROVE  \A n \in Nat : n >= m => n \in S
<1> DEFINE T == {i \in Nat : m + i \in S}
<1>1. 0 \in T  OBVIOUS
<1>2. ASSUME NEW n \in Nat, n \in T  PROVE n + 1 \in T
  <2>1. m + n \in Nat /\ m + n >= m /\ m + n \in S  BY <1>2
  <2>2. m + n + 1 \in S  BY <2>1
  <2>3. QED  BY <2>2
<1>3. Nat \subseteq T
  <2> HIDE DEF T
  <2>1. QED  BY <1>1, <1>2, SetInduction
<1>4. ASSUME NEW n \in Nat, n >= m  PROVE n \in S
  <2>1. n - m \in T  BY <1>3, <1>4
  <2>2. m + (n - m) = n  OBVIOUS
  <2>3. QED  BY <2>1, <2>2
<1>5. QED  BY <1>4

\* Induction from the greatest down.
LEMMA BackInduction ==
  ASSUME NEW m \in Nat, NEW n \in Nat, NEW S,
         \A q \in m..n : (\A k \in q + 1..n : k \in S) => q \in S
  PROVE  \A q \in m..n : q \in S
<1> DEFINE T == {j \in Nat : \A q \in m..n : q >= n - j => q \in S}
<1>1. 0 \in T
  <2>1. \A q \in m..n : q >= n - 0 => \A k \in q + 1..n : k \in S  OBVIOUS
  <2>2. QED  BY <2>1
<1>2. ASSUME NEW j \in Nat, j \in T  PROVE j + 1 \in T
  <2>1. \A q \in m..n : q >= n - j => q \in S  BY <1>2
  <2>2. ASSUME NEW q \in m..n, q >= n - (j + 1)  PROVE q \in S
    <3>1. \A k \in q + 1..n : k \in m..n /\ k >= n - j  BY <2>2
    <3>2. \A k \in q + 1..n : k \in S  BY <2>1, <3>1
    <3>3. QED  BY <3>2
  <2>3. QED  BY <2>2
<1>3. Nat \subseteq T
  <2> HIDE DEF T
  <2>1. QED  BY <1>1, <1>2, SetInduction
<1>4. n \in T  BY <1>3
<1>5. \A q \in m..n : q >= n - n  OBVIOUS
<1>6. QED  BY <1>4, <1>5

\* The least and the greatest of some numbers.
LEMMA MinIs ==
  ASSUME NEW S, S \subseteq Nat, S # {}
  PROVE  Min(S) \in S /\ \A y \in S : Min(S) <= y
<1>1. PICK m \in S : \A k \in S : <<k, m>> \notin Below
  BY BelowIsWellFounded, WFMin
<1>2. \A y \in S : m <= y
  <2> TAKE y \in S
  <2>1. y \in Nat /\ m \in Nat /\ <<y, m>> \in Nat \X Nat  OBVIOUS
  <2>2. ~(y < m)  BY <1>1, <2>1 DEF Below
  <2>3. QED  BY <2>1, <2>2
<1>3. QED  BY <1>2 DEF Min

LEMMA MaxIs ==
  ASSUME NEW n \in Nat, NEW S, S \subseteq 0..n, S # {}
  PROVE  Max(S) \in S /\ \A y \in S : Max(S) >= y
<1> DEFINE T == {n - y : y \in S}
<1>1. T \subseteq Nat /\ T # {}
  <2>1. \A y \in S : n - y \in Nat  OBVIOUS
  <2>2. QED  BY <2>1
<1>2. PICK m \in T : \A k \in T : <<k, m>> \notin Below
  <2> HIDE DEF T
  <2>1. QED  BY <1>1, BelowIsWellFounded, WFMin
<1>3. PICK x \in S : m = n - x  BY <1>2
<1>4. ASSUME NEW y \in S  PROVE x >= y
  <2>1. n - y \in T /\ n - y \in Nat /\ m \in Nat  BY <1>1
  <2>2. ~(n - y < m)
    <3> HIDE DEF T
    <3>1. <<n - y, m>> \in Nat \X Nat /\ <<n - y, m>> \notin Below  BY <1>2, <2>1
    <3>2. QED  BY <3>1 DEF Below
  <2>3. QED  BY <1>3, <2>2
<1>5. QED  BY <1>4 DEF Max

-----------------------------------------------------------------------------
(* Sequences.                                                              *)

\* A sequence of one.
LEMMA OneSeq ==
  ASSUME NEW S, NEW x \in S
  PROVE  <<x>> \in Seq(S) /\ Len(<<x>>) = 1 /\ <<x>>[1] = x
OBVIOUS

\* Two sequences one after the other.
LEMMA Joined ==
  ASSUME NEW S, NEW s \in Seq(S), NEW t \in Seq(S)
  PROVE  /\ s \o t \in Seq(S) /\ Len(s \o t) = Len(s) + Len(t)
         /\ \A i \in 1..Len(s) : (s \o t)[i] = s[i]
         /\ \A i \in 1..Len(t) : (s \o t)[Len(s) + i] = t[i]
<1>1. s \o t \in Seq(S) /\ Len(s \o t) = Len(s) + Len(t)
  BY ConcatProperties
<1>2. \A i \in 1..Len(s) + Len(t) :
        (s \o t)[i] = IF i <= Len(s) THEN s[i] ELSE t[i - Len(s)]
  BY ConcatProperties
<1>3. Len(s) \in Nat /\ Len(t) \in Nat  OBVIOUS
<1>4. ASSUME NEW i \in 1..Len(t)  PROVE (s \o t)[Len(s) + i] = t[i]
  <2>1. /\ Len(s) + i \in 1..Len(s) + Len(t) /\ ~(Len(s) + i <= Len(s))
        /\ Len(s) + i - Len(s) = i
    BY <1>3
  <2>2. QED  BY <1>2, <2>1
<1>5. \A i \in 1..Len(s) : (s \o t)[i] = s[i]  BY <1>2, <1>3
<1>6. QED  BY <1>1, <1>4, <1>5

-----------------------------------------------------------------------------
(* Recursion.                                                              *)

\* The i-th step takes T to itself.
StepsIn(h, T) == \A i \in Nat, t \in T : h[i][t] \in T

\* The function on m..n that begins with c and goes on by h.
Recursive(f, c, h, m, n) ==
  \A i \in m..n : f[i] = IF i = m THEN c ELSE h[i][f[i - 1]]

\* There is one.
LEMMA Recursion ==
  ASSUME NEW T, NEW c \in T, NEW m \in Nat, NEW h, StepsIn(h, T)
  PROVE  \A n \in Nat : n >= m => \E f \in [m..n -> T] : Recursive(f, c, h, m, n)
<1>s. \A i \in Nat, t \in T : h[i][t] \in T  BY DEF StepsIn
<1> DEFINE Good(f, n) == \A i \in m..n : f[i] = IF i = m THEN c ELSE h[i][f[i - 1]]
           S == {n \in Nat : \E f \in [m..n -> T] : Good(f, n)}
<1>1. m \in S
  <2>1. [i \in m..m |-> c] \in [m..m -> T] /\ Good([i \in m..m |-> c], m)  OBVIOUS
  <2>2. QED  BY <2>1
<1>2. ASSUME NEW n \in Nat, n >= m, n \in S  PROVE n + 1 \in S
  <2>1. PICK f \in [m..n -> T] : Good(f, n)  BY <1>2
  <2> DEFINE g == [i \in m..n + 1 |-> IF i = n + 1 THEN h[n + 1][f[n]] ELSE f[i]]
  <2>2. g \in [m..n + 1 -> T]
    <3>1. f[n] \in T  BY <1>2
    <3>2. h[n + 1][f[n]] \in T  BY <1>s, <3>1
    <3>3. QED  BY <3>2
  <2>3. Good(g, n + 1)
    <3> SUFFICES ASSUME NEW i \in m..n + 1
                 PROVE  g[i] = IF i = m THEN c ELSE h[i][g[i - 1]]
      OBVIOUS
    <3>1. CASE i = n + 1
      <4>1. g[i - 1] = f[n] /\ g[i] = h[n + 1][f[n]] /\ i # m  BY <1>2, <3>1
      <4>2. QED  BY <3>1, <4>1
    <3>2. CASE i # n + 1
      <4>1. i \in m..n /\ g[i] = f[i]  BY <3>2
      <4>2. f[i] = IF i = m THEN c ELSE h[i][f[i - 1]]  BY <2>1, <4>1
      <4>3. i # m => g[i - 1] = f[i - 1]  BY <4>1
      <4>4. QED  BY <4>1, <4>2, <4>3
    <3>3. QED  BY <3>1, <3>2
  <2>4. n + 1 \in Nat  OBVIOUS
  <2> HIDE DEF Good, g
  <2>5. QED  BY <2>2, <2>3, <2>4
<1>3. \A n \in Nat : n >= m => n \in S
  <2> HIDE DEF S
  <2>1. QED  BY <1>1, <1>2, SetInductionFrom
<1>4. QED  BY <1>3 DEF Recursive

\* The function on m..n that ends with c and goes by h to an argument further on.
Jumping(f, c, h, next, m, n) ==
  \A i \in m..n : f[i] = IF i = n THEN c ELSE h[i][f[next[i]]]

\* There is one.
LEMMA JumpingRecursion ==
  ASSUME NEW T, NEW c \in T, NEW m \in Nat, NEW n \in Nat, m <= n,
         NEW next, \A i \in m..n - 1 : next[i] \in i + 1..n,
         NEW h, \A i \in m..n - 1, t \in T : h[i][t] \in T
  PROVE  \E f \in [m..n -> T] : Jumping(f, c, h, next, m, n)
<1> DEFINE Good(f, k) == \A i \in k..n : f[i] = IF i = n THEN c ELSE h[i][f[next[i]]]
           S == {j \in Nat : n - j >= m => \E f \in [n - j..n -> T] : Good(f, n - j)}
<1>1. 0 \in S
  <2> DEFINE f == [i \in n - 0..n |-> c]
  <2>1. f \in [n - 0..n -> T] /\ Good(f, n - 0)  OBVIOUS
  <2>2. QED  BY <2>1
<1>2. ASSUME NEW j \in Nat, j \in S  PROVE j + 1 \in S
  <2> SUFFICES ASSUME n - (j + 1) >= m
               PROVE  \E g \in [n - (j + 1)..n -> T] : Good(g, n - (j + 1))
    OBVIOUS
  <2> DEFINE k == n - (j + 1)
  <2>1. k \in m..n - 1 /\ n - j = k + 1 /\ n - j >= m  OBVIOUS
  <2>2. PICK f \in [k + 1..n -> T] : Good(f, k + 1)  BY <1>2, <2>1
  <2> HIDE DEF k
  <2> DEFINE g == [i \in k..n |-> IF i = k THEN h[k][f[next[k]]] ELSE f[i]]
  <2>3. k \in Int /\ n \in Int /\ k < n  BY <2>1
  <2>4. f[next[k]] \in T /\ next[k] \in k + 1..n  BY <2>1
  <2>5. h[k][f[next[k]]] \in T  BY <2>1, <2>4
  <2>6. g \in [k..n -> T]
    <3>1. ASSUME NEW i \in k..n, i # k  PROVE f[i] \in T
      <4>1. i \in k + 1..n  BY <2>3, <3>1
      <4>2. QED  BY <4>1
    <3>2. QED  BY <2>5, <3>1
  <2>7. Good(g, k)
    <3> SUFFICES ASSUME NEW i \in k..n
                 PROVE  g[i] = IF i = n THEN c ELSE h[i][g[next[i]]]
      OBVIOUS
    <3>1. CASE i = k
      <4>1. next[k] \in k..n /\ next[k] # k  BY <2>3, <2>4
      <4>2. g[next[k]] = f[next[k]] /\ g[k] = h[k][f[next[k]]]  BY <2>3, <4>1
      <4>3. QED  BY <2>3, <3>1, <4>2
    <3>2. CASE i # k
      <4>1. i \in k + 1..n /\ g[i] = f[i]  BY <2>3, <3>2
      <4>2. f[i] = IF i = n THEN c ELSE h[i][f[next[i]]]  BY <2>2, <4>1
      <4>3. ASSUME i # n  PROVE g[next[i]] = f[next[i]]
        <5>1. i \in m..n - 1  BY <2>1, <2>3, <4>1, <4>3
        <5>2. next[i] \in i + 1..n  BY <5>1
        <5>3. next[i] \in k..n /\ next[i] # k  BY <2>3, <4>1, <5>2
        <5>4. QED  BY <5>3
      <4>4. QED  BY <4>1, <4>2, <4>3
    <3>3. QED  BY <3>1, <3>2
  <2>8. QED  BY <2>6, <2>7 DEF k
<1> HIDE DEF S
<1>3. Nat \subseteq S  BY <1>1, <1>2, SetInduction
<1>4. n - m \in S /\ n - (n - m) = m  BY <1>3
<1>5. QED  BY <1>4 DEF S, Jumping

\* The same said of the function as a whole, which is what CHOOSE looks for.
Jumps(f, c, h, next, m, n) ==
  f = [i \in m..n |-> IF i = n THEN c ELSE h[i][f[next[i]]]]

LEMMA JumpingFunction ==
  ASSUME NEW T, NEW c \in T, NEW m \in Nat, NEW n \in Nat, m <= n,
         NEW next, \A i \in m..n - 1 : next[i] \in i + 1..n,
         NEW h, \A i \in m..n - 1, t \in T : h[i][t] \in T
  PROVE  \E f \in [m..n -> T] : Jumps(f, c, h, next, m, n)
<1>1. PICK f \in [m..n -> T] : Jumping(f, c, h, next, m, n)  BY JumpingRecursion
<1>2. \A i \in m..n : f[i] = IF i = n THEN c ELSE h[i][f[next[i]]]
  BY <1>1 DEF Jumping
<1>3. f = [i \in m..n |-> f[i]]  OBVIOUS
<1>4. f = [i \in m..n |-> IF i = n THEN c ELSE h[i][f[next[i]]]]  BY <1>2, <1>3
<1>5. QED  BY <1>4 DEF Jumps

-----------------------------------------------------------------------------
(* FlattenSeq.                                                             *)

\* One sequence after the other is appended.
Flattening(ss, f) ==
  f = [i \in 1..Len(ss) |-> IF i = 1 THEN ss[i] ELSE f[i - 1] \o ss[i]]

\* What is at the i-th place.
LEMMA FlatteningAt ==
  ASSUME NEW ss, NEW f, Flattening(ss, f), NEW i \in 1..Len(ss)
  PROVE  f[i] = IF i = 1 THEN ss[i] ELSE f[i - 1] \o ss[i]
<1> DEFINE F == [j \in 1..Len(ss) |-> IF j = 1 THEN ss[j] ELSE f[j - 1] \o ss[j]]
<1>1. f = F  BY DEF Flattening
<1>2. F[i] = IF i = 1 THEN ss[i] ELSE f[i - 1] \o ss[i]  OBVIOUS
<1> HIDE DEF F
<1>3. QED  BY <1>1, <1>2

\* The function behind FlattenSeq exists.
LEMMA FlattenExists ==
  ASSUME NEW E, NEW ss \in Seq(Seq(E)), Len(ss) # 0
  PROVE  \E f : Flattening(ss, f)
<1> DEFINE n == Len(ss)
           h == [i \in Nat |->
                  [s \in Seq(E) |-> IF i \in 1..n THEN s \o ss[i] ELSE s]]
<1>1. n \in Nat /\ n >= 1 /\ \A i \in 1..n : ss[i] \in Seq(E)  OBVIOUS
<1>2. StepsIn(h, Seq(E))
  <2>1. ASSUME NEW i \in Nat, NEW t \in Seq(E)  PROVE h[i][t] \in Seq(E)
    <3>1. CASE i \in 1..n
      <4>1. ss[i] \in Seq(E)  BY <1>1, <3>1
      <4>2. t \o ss[i] \in Seq(E)  BY <4>1
      <4>3. h[i][t] = t \o ss[i]  BY <3>1
      <4>4. QED  BY <4>2, <4>3
    <3>2. CASE i \notin 1..n  BY <3>2
    <3>3. QED  BY <3>1, <3>2
  <2>2. QED  BY <2>1 DEF StepsIn
<1>3. PICK f \in [1..n -> Seq(E)] :
        Recursive(f, ss[1], h, 1, n)
  <2>1. ss[1] \in Seq(E) /\ 1 \in Nat  BY <1>1
  <2> HIDE DEF h, n
  <2>2. \A k \in Nat : k >= 1 =>
          \E f \in [1..k -> Seq(E)] : Recursive(f, ss[1], h, 1, k)
    BY <1>2, <2>1, Recursion
  <2>3. QED  BY <1>1, <2>2
<1>r. \A i \in 1..n : f[i] = IF i = 1 THEN ss[1] ELSE h[i][f[i - 1]]
  BY <1>3 DEF Recursive
<1>4. ASSUME NEW i \in 1..n
      PROVE  f[i] = IF i = 1 THEN ss[i] ELSE f[i - 1] \o ss[i]
  <2>1. CASE i = 1  BY <1>r, <2>1
  <2>2. CASE i # 1
    <3>1. i - 1 \in 1..n /\ i \in Nat  BY <1>1, <2>2
    <3>2. f[i - 1] \in Seq(E)  BY <3>1
    <3>3. h[i][f[i - 1]] = f[i - 1] \o ss[i]  BY <3>1, <3>2
    <3>4. f[i] = h[i][f[i - 1]]  BY <1>r, <2>2
    <3>5. QED  BY <2>2, <3>3, <3>4
  <2>3. QED  BY <2>1, <2>2
<1>5. f = [i \in 1..n |-> f[i]]  OBVIOUS
<1>6. f = [i \in 1..n |-> IF i = 1 THEN ss[i] ELSE f[i - 1] \o ss[i]]  BY <1>4, <1>5
<1>7. QED  BY <1>6 DEF Flattening

\* So FlattenSeq is what its definition says.
LEMMA FlattenUnfold ==
  ASSUME NEW E, NEW ss \in Seq(Seq(E)), Len(ss) # 0
  PROVE  \E f : Flattening(ss, f) /\ FlattenSeq(ss) = f[Len(ss)]
<1> DEFINE r == CHOOSE f : Flattening(ss, f)
<1>1. Flattening(ss, r)  BY FlattenExists, Zenon
<1>2. r = CHOOSE f :
            f = [i \in 1..Len(ss) |-> IF i = 1 THEN ss[i] ELSE f[i - 1] \o ss[i]]
  BY DEF Flattening
<1>3. FlattenSeq(ss) = r[Len(ss)]
  <2> HIDE DEF r
  <2>1. QED  BY <1>2, Zenon DEF FlattenSeq
<1>4. QED  BY <1>1, <1>3

\* ss is the beginning of tt.
Begins(ss, tt) == Len(ss) <= Len(tt) /\ \A i \in 1..Len(ss) : ss[i] = tt[i]

\* Its values are sequences, and depend on the sequences so far.
LEMMA FlatteningAgree ==
  ASSUME NEW E, NEW ss \in Seq(Seq(E)), NEW tt \in Seq(Seq(E)), NEW f, NEW g,
         Flattening(ss, f), Flattening(tt, g),
         Begins(ss, tt)
  PROVE  \A i \in 1..Len(ss) : f[i] \in Seq(E) /\ f[i] = g[i]
<1> DEFINE S == {i \in Nat : i \in 1..Len(ss) => f[i] \in Seq(E) /\ f[i] = g[i]}
<1>1. /\ Len(ss) \in Nat /\ Len(tt) \in Nat /\ Len(ss) <= Len(tt)
      /\ \A i \in 1..Len(ss) : ss[i] \in Seq(E) /\ ss[i] = tt[i]
  BY DEF Begins
<1>2. 0 \in S  BY <1>1
<1>3. ASSUME NEW i \in Nat, i \in S  PROVE i + 1 \in S
  <2> SUFFICES ASSUME i + 1 \in 1..Len(ss)
               PROVE  f[i + 1] \in Seq(E) /\ f[i + 1] = g[i + 1]
    OBVIOUS
  <2>1. i + 1 \in 1..Len(tt) /\ ss[i + 1] = tt[i + 1] /\ ss[i + 1] \in Seq(E)  BY <1>1
  <2>2. f[i + 1] = IF i + 1 = 1 THEN ss[i + 1] ELSE f[i + 1 - 1] \o ss[i + 1]
    BY FlatteningAt
  <2>3. g[i + 1] = IF i + 1 = 1 THEN tt[i + 1] ELSE g[i + 1 - 1] \o tt[i + 1]
    BY <2>1, FlatteningAt
  <2>4. CASE i = 0  BY <2>1, <2>2, <2>3, <2>4
  <2>5. CASE i # 0
    <3>1. i \in 1..Len(ss) /\ i + 1 - 1 = i /\ i + 1 # 1  BY <1>1, <2>5
    <3>2. f[i] \in Seq(E) /\ f[i] = g[i]  BY <1>3, <3>1
    <3>3. f[i + 1] = f[i] \o ss[i + 1] /\ g[i + 1] = g[i] \o tt[i + 1]
      BY <2>2, <2>3, <3>1
    <3>4. QED  BY <2>1, <3>2, <3>3
  <2>6. QED  BY <2>4, <2>5
<1>4. Nat \subseteq S
  <2> HIDE DEF S
  <2>1. QED  BY <1>2, <1>3, SetInduction
<1>5. QED  BY <1>1, <1>4

\* No sequences, one sequence more.
LEMMA FlattenEmpty == FlattenSeq(<<>>) = <<>>
BY DEF FlattenSeq

\* The sequence of all elements, typed.
LEMMA FlattenType ==
  ASSUME NEW E, NEW ss \in Seq(Seq(E))
  PROVE  FlattenSeq(ss) \in Seq(E)
<1>1. CASE Len(ss) = 0
  <2>1. ss = <<>>  BY <1>1
  <2>2. <<>> \in Seq(E)  OBVIOUS
  <2>3. QED  BY <2>1, <2>2, FlattenEmpty
<1>2. CASE Len(ss) # 0
  <2>1. PICK f : Flattening(ss, f) /\ FlattenSeq(ss) = f[Len(ss)]
    BY <1>2, FlattenUnfold
  <2>2. Len(ss) \in 1..Len(ss)  BY <1>2
  <2>3. Begins(ss, ss)  BY DEF Begins
  <2>4. \A i \in 1..Len(ss) : f[i] \in Seq(E)  BY <2>1, <2>3, FlatteningAgree
  <2>5. QED  BY <2>1, <2>2, <2>4
<1>3. QED  BY <1>1, <1>2

\* One sequence more is appended.
LEMMA FlattenAppend ==
  ASSUME NEW E, NEW ss \in Seq(Seq(E)), NEW s \in Seq(E)
  PROVE  FlattenSeq(Append(ss, s)) = FlattenSeq(ss) \o s
<1> DEFINE tt == Append(ss, s)
           n == Len(ss)
<1>1. /\ tt \in Seq(Seq(E)) /\ n \in Nat /\ Len(tt) = n + 1 /\ tt[n + 1] = s
      /\ \A i \in 1..n : ss[i] = tt[i]
  OBVIOUS
<1> HIDE DEF tt
<1>2. PICK g : Flattening(tt, g) /\ FlattenSeq(tt) = g[n + 1]
  <2>1. Len(tt) # 0  BY <1>1
  <2> HIDE DEF n
  <2>2. \E g : Flattening(tt, g) /\ FlattenSeq(tt) = g[Len(tt)]
    BY <1>1, <2>1, FlattenUnfold
  <2>3. QED  BY <1>1, <2>2
<1>3. g[n + 1] = IF n + 1 = 1 THEN tt[n + 1] ELSE g[n + 1 - 1] \o tt[n + 1]
  <2>1. n + 1 \in 1..Len(tt)  BY <1>1
  <2>2. QED  BY <1>2, <2>1, FlatteningAt
<1>4. CASE n = 0
  <2>1. ss = <<>>  BY <1>4
  <2>2. FlattenSeq(ss) = <<>>  BY <2>1, FlattenEmpty
  <2>3. <<>> \o s = s  OBVIOUS
  <2>4. QED  BY <1>1, <1>2, <1>3, <1>4, <2>2, <2>3 DEF tt
<1>5. CASE n # 0
  <2>1. PICK f : Flattening(ss, f) /\ FlattenSeq(ss) = f[n]  BY <1>5, FlattenUnfold
  <2>2. f[n] = g[n]
    <3>1. n \in 1..n /\ n <= Len(tt)  BY <1>1, <1>5
    <3>2. Begins(ss, tt)  BY <1>1 DEF Begins
    <3>3. Flattening(ss, f) /\ Flattening(tt, g) /\ tt \in Seq(Seq(E))
      BY <1>1, <1>2, <2>1
    <3> HIDE DEF n
    <3>4. \A i \in 1..Len(ss) : f[i] \in Seq(E) /\ f[i] = g[i]
      BY <3>2, <3>3, FlatteningAgree
    <3>5. QED  BY <3>1, <3>4 DEF n
  <2>3. g[n + 1] = g[n] \o s  BY <1>1, <1>3, <1>5
  <2>4. QED  BY <1>2, <2>1, <2>2, <2>3 DEF tt
<1>6. QED  BY <1>4, <1>5

\* Where the sequences of ss are in s: the i-th begins behind pos[i - 1] elements.
FlatAt(ss, s, pos) ==
  /\ pos \in [0..Len(ss) -> Nat] /\ pos[0] = 0 /\ Len(s) = pos[Len(ss)]
  /\ \A i \in 1..Len(ss) : pos[i] = pos[i - 1] + Len(ss[i])
  /\ \A i \in 0..Len(ss) : pos[i] <= Len(s)
  /\ \A i \in 1..Len(ss) : \A k \in 1..Len(ss[i]) : s[pos[i - 1] + k] = ss[i][k]

\* There are such places.
LEMMA FlattenPlaces ==
  ASSUME NEW E, NEW ss \in Seq(Seq(E))
  PROVE  \E pos : FlatAt(ss, FlattenSeq(ss), pos)
<1> DEFINE S == {n \in Nat : \A tt \in Seq(Seq(E)) :
                   Len(tt) = n => \E pos : FlatAt(tt, FlattenSeq(tt), pos)}
<1>1. 0 \in S
  <2> SUFFICES ASSUME NEW tt \in Seq(Seq(E)), Len(tt) = 0
               PROVE  \E pos : FlatAt(tt, FlattenSeq(tt), pos)
    OBVIOUS
  <2>1. tt = <<>> /\ FlattenSeq(tt) = <<>>  BY FlattenEmpty
  <2> DEFINE pos == [i \in 0..0 |-> 0]
  <2>2. FlatAt(tt, FlattenSeq(tt), pos)  BY <2>1 DEF FlatAt
  <2>3. QED  BY <2>2
<1>2. ASSUME NEW n \in Nat, n \in S  PROVE n + 1 \in S
  <2> SUFFICES ASSUME NEW tt \in Seq(Seq(E)), Len(tt) = n + 1
               PROVE  \E pos : FlatAt(tt, FlattenSeq(tt), pos)
    OBVIOUS
  <2> DEFINE ff == SubSeq(tt, 1, n)
             l == tt[n + 1]
  <2>1. /\ ff \in Seq(Seq(E)) /\ Len(ff) = n /\ l \in Seq(E)
        /\ \A i \in 1..n : ff[i] = tt[i]
    OBVIOUS
  <2>2. tt = Append(ff, l)  OBVIOUS
  <2>3. PICK p : FlatAt(ff, FlattenSeq(ff), p)  BY <1>2, <2>1
  <2> DEFINE s == FlattenSeq(ff)
             pos == [i \in 0..n + 1 |-> IF i = n + 1 THEN p[n] + Len(l) ELSE p[i]]
  <2> HIDE DEF ff, l
  <2>4. FlattenSeq(tt) = s \o l /\ s \in Seq(E)  BY <2>1, <2>2, FlattenAppend, FlattenType
  <2> HIDE DEF s
  <2>5. /\ Len(s \o l) = Len(s) + Len(l)
        /\ \A i \in 1..Len(s) : (s \o l)[i] = s[i]
        /\ \A i \in 1..Len(l) : (s \o l)[Len(s) + i] = l[i]
    BY <2>1, <2>4, Joined
  <2>6. /\ p \in [0..n -> Nat] /\ p[0] = 0 /\ Len(s) = p[n]
        /\ \A i \in 1..n : p[i] = p[i - 1] + Len(tt[i])
        /\ \A i \in 0..n : p[i] <= Len(s)
        /\ \A i \in 1..n : \A k \in 1..Len(tt[i]) : s[p[i - 1] + k] = tt[i][k]
    <3>1. /\ p \in [0..n -> Nat] /\ p[0] = 0 /\ Len(s) = p[n]
          /\ \A i \in 1..n : p[i] = p[i - 1] + Len(ff[i])
          /\ \A i \in 0..n : p[i] <= Len(s)
          /\ \A i \in 1..n : \A k \in 1..Len(ff[i]) : s[p[i - 1] + k] = ff[i][k]
      <4>1. FlatAt(ff, s, p) /\ Len(ff) = n  BY <2>1, <2>3 DEF s
      <4>2. QED  BY <4>1 DEF FlatAt
    <3>2. \A i \in 1..n : \A k \in 1..Len(tt[i]) : s[p[i - 1] + k] = tt[i][k]
      <4> TAKE i \in 1..n
      <4> TAKE k \in 1..Len(tt[i])
      <4>1. ff[i] = tt[i]  BY <2>1
      <4>2. k \in 1..Len(ff[i])  BY <4>1
      <4>3. s[p[i - 1] + k] = ff[i][k]  BY <3>1, <4>2
      <4>4. QED  BY <4>1, <4>3
    <3>3. \A i \in 1..n : p[i] = p[i - 1] + Len(tt[i])  BY <2>1, <3>1
    <3>4. QED  BY <3>1, <3>2, <3>3
  <2>7. Len(l) \in Nat /\ Len(s) \in Nat /\ l = tt[n + 1]  BY <2>1, <2>4 DEF l
  <2>8. /\ \A i \in 0..n : pos[i] = p[i] /\ p[i] \in Nat
        /\ pos[n + 1] = p[n] + Len(l) /\ pos \in [0..n + 1 -> Nat]
    BY <2>6, <2>7
  <2> HIDE DEF pos
  <2>9. \A i \in 1..n + 1 : pos[i] = pos[i - 1] + Len(tt[i])
    <3> TAKE i \in 1..n + 1
    <3>1. CASE i = n + 1
      <4>1. i - 1 = n /\ n \in 0..n  BY <3>1
      <4>2. QED  BY <2>7, <2>8, <3>1, <4>1
    <3>2. CASE i # n + 1
      <4>1. i \in 1..n /\ i \in 0..n /\ i - 1 \in 0..n  BY <3>2
      <4>2. QED  BY <2>6, <2>8, <4>1
    <3>3. QED  BY <3>1, <3>2
  <2>10. \A i \in 0..n + 1 : pos[i] <= Len(s) + Len(l)
    <3> TAKE i \in 0..n + 1
    <3>1. CASE i = n + 1  BY <2>6, <2>7, <2>8, <3>1
    <3>2. CASE i # n + 1
      <4>1. i \in 0..n  BY <3>2
      <4>2. QED  BY <2>6, <2>7, <2>8, <4>1
    <3>3. QED  BY <3>1, <3>2
  <2>11. \A i \in 1..n + 1 : \A k \in 1..Len(tt[i]) : (s \o l)[pos[i - 1] + k] = tt[i][k]
    <3> TAKE i \in 1..n + 1
    <3> TAKE k \in 1..Len(tt[i])
    <3>1. CASE i = n + 1
      <4>1. pos[i - 1] = Len(s) /\ tt[i] = l /\ k \in 1..Len(l)
        <5>1. i - 1 = n /\ n \in 0..n  BY <3>1
        <5>2. QED  BY <2>6, <2>7, <2>8, <3>1, <5>1
      <4>2. QED  BY <2>5, <4>1
    <3>2. CASE i # n + 1
      <4>1. i \in 1..n /\ i \in 0..n /\ i - 1 \in 0..n  BY <3>2
      <4>2. pos[i - 1] = p[i - 1] /\ p[i] = p[i - 1] + Len(tt[i]) /\ p[i] <= Len(s)
            /\ p[i - 1] \in Nat /\ s[p[i - 1] + k] = tt[i][k]
        BY <2>6, <2>8, <4>1
      <4>3. tt[i] \in Seq(E)  OBVIOUS
      <4>4. Len(tt[i]) \in Nat /\ k \in Nat /\ 1 <= k /\ k <= Len(tt[i])  BY <4>3
      <4>5. p[i - 1] + k \in 1..Len(s)  BY <2>7, <4>2, <4>4
      <4>6. QED  BY <2>5, <4>2, <4>5
    <3>3. QED  BY <3>1, <3>2
  <2>12. /\ pos \in [0..Len(tt) -> Nat] /\ pos[0] = 0 /\ Len(s \o l) = pos[Len(tt)]
    <3>1. 0 \in 0..n /\ n \in 0..n  OBVIOUS
    <3>2. QED  BY <2>5, <2>6, <2>7, <2>8, <3>1
  <2>13. FlatAt(tt, s \o l, pos)  BY <2>5, <2>9, <2>10, <2>11, <2>12 DEF FlatAt
  <2>14. QED  BY <2>4, <2>13
<1>3. Nat \subseteq S
  <2> HIDE DEF S
  <2>1. QED  BY <1>1, <1>2, SetInduction
<1>4. Len(ss) \in Nat  OBVIOUS
<1>5. QED  BY <1>3, <1>4
==============================================================================
