--------------------------- MODULE IndexFileProofs ---------------------------
(***************************************************************************)
(* Theorems about IndexFile, for bytes of any number of values, numbers of *)
(* any width, any keys whose lengths fit, and a file of any length: while  *)
(* machines are of one byte order and writes are complete, the bytes of    *)
(* .idx are a sequence of whole records, and load_index finds in them what *)
(* is in memory.                                                           *)
(*                                                                         *)
(* Nothing in the file says where a record begins.  The invariant          *)
(* therefore speaks of a set of positions, starts, of which it says only   *)
(* that there is one: each record ends where the next begins, or at the    *)
(* end of the file.  Insert adds one position to the set; Update and Erase *)
(* write inside one record and keep it.                                    *)
(*                                                                         *)
(*   Numbers   a number that fits in its bytes is read as it was written   *)
(*   Reading   the recursion of load_index, as an equation                 *)
(*   Files     load_index on a file of whole records                       *)
(*   Writing   what a write leaves as it was                               *)
(*   Calls     what each call makes of a file of whole records             *)
(***************************************************************************)
EXTENDS IndexFile, Recursion

-----------------------------------------------------------------------------
(* Numbers.                                                                *)

\* Bytes are natural numbers.
LEMMA BytesAreNumbers ==
  ASSUME NEW s \in Seq(Byte)
  PROVE  s \in Seq(Nat)
<1>1. Byte \subseteq Nat  BY WidthAssumption DEF Byte
<1>2. \A i \in 1..Len(s) : s[i] \in Nat
  <2> TAKE i \in 1..Len(s)
  <2>1. s[i] \in Byte  OBVIOUS
  <2>2. QED  BY <1>1, <2>1
<1>3. QED  BY <1>2

\* A number is its lowest digit and Base times the rest.
LEMMA Dividing ==
  ASSUME NEW n \in Nat
  PROVE  /\ n \div Base \in Nat /\ n % Base \in Byte
         /\ (n % Base) + Base * (n \div Base) = n
<1>1. Base \in Nat /\ Base > 0  BY WidthAssumption
<1>2. QED  BY <1>1, SMT DEF Byte

\* The recursive function Shifted is what its definition says.
LEMMA ShiftedIs ==
  ASSUME NEW n \in Nat, NEW w \in Nat
  PROVE  /\ \A i \in 0..w : Shifted(n, w)[i] \in Nat
         /\ Shifted(n, w)[0] = n
         /\ \A i \in 1..w : Shifted(n, w)[i] = Shifted(n, w)[i - 1] \div Base
<1> DEFINE h == [i \in Nat |-> [t \in Nat |-> t \div Base]]
           Body(f) == [i \in 0..w |-> IF i = 0 THEN n ELSE f[i - 1] \div Base]
<1>1. \A t \in Nat : t \div Base \in Nat  BY Dividing
<1>2. StepsIn(h, Nat)  BY <1>1 DEF StepsIn
<1>3. PICK f \in [0..w -> Nat] : Recursive(f, n, h, 0, w)
  <2> HIDE DEF h
  <2>1. 0 \in Nat /\ w >= 0  OBVIOUS
  <2>2. \A k \in Nat : k >= 0 => \E f \in [0..k -> Nat] : Recursive(f, n, h, 0, k)
    BY <1>2, <2>1, Recursion
  <2>3. QED  BY <2>1, <2>2
<1>4. \A i \in 0..w : f[i] = IF i = 0 THEN n ELSE h[i][f[i - 1]]
  BY <1>3 DEF Recursive
<1>5. f = Body(f)
  <2>1. ASSUME NEW i \in 0..w  PROVE f[i] = Body(f)[i]
    <3>1. i # 0 => f[i - 1] \in Nat /\ i \in Nat  OBVIOUS
    <3>2. QED  BY <1>4, <3>1
  <2>2. QED  BY <2>1
<1> DEFINE g == CHOOSE x : x = Body(x)
<1>6. g = Body(g)
  <2> HIDE DEF Body
  <2>1. QED  BY <1>5, Zenon
<1>7. Shifted(n, w) = g  BY Zenon DEF Shifted
<1>8. \A i \in 0..w : g[i] = Body(g)[i]
  <2> HIDE DEF g, Body
  <2>1. QED  BY <1>6
<1> HIDE DEF g
<1>9. \A i \in 0..w : g[i] = IF i = 0 THEN n ELSE g[i - 1] \div Base  BY <1>8
<1>10. \A i \in 0..w : g[i] \in Nat
  <2> DEFINE S == {i \in Nat : i \in 0..w => g[i] \in Nat}
  <2>1. 0 \in S  BY <1>9
  <2>2. ASSUME NEW i \in Nat, i \in S  PROVE i + 1 \in S
    <3> SUFFICES ASSUME i + 1 \in 0..w PROVE g[i + 1] \in Nat  OBVIOUS
    <3>1. i \in 0..w /\ i + 1 # 0 /\ i + 1 - 1 = i  OBVIOUS
    <3>2. g[i] \in Nat  BY <2>2, <3>1
    <3>3. g[i + 1] = g[i] \div Base  BY <1>9, <3>1
    <3>4. QED  BY <1>1, <3>2, <3>3
  <2>3. Nat \subseteq S
    <3> HIDE DEF S
    <3>1. QED  BY <2>1, <2>2, SetInduction
  <2>4. QED  BY <2>3
<1>11. 0 \in 0..w /\ \A i \in 1..w : i \in 0..w /\ i # 0  OBVIOUS
<1>12. g[0] = n /\ \A i \in 1..w : g[i] = g[i - 1] \div Base  BY <1>9, <1>11
<1>13. QED  BY <1>7, <1>10, <1>12

\* The bytes as a number, in the order they are to be read in.
Little(cells, order) == IF order = 1 THEN cells ELSE Reverse(cells)

\* What Reverse gives.
LEMMA ReverseIs ==
  ASSUME NEW T, NEW s \in Seq(T)
  PROVE  /\ Reverse(s) \in Seq(T) /\ Len(Reverse(s)) = Len(s)
         /\ \A i \in 1..Len(s) : Reverse(s)[i] = s[Len(s) - i + 1]
<1>1. \A i \in 1..Len(s) : Len(s) - i + 1 \in 1..Len(s)  OBVIOUS
<1>2. QED  BY <1>1 DEF Reverse

\* To reverse twice is to do nothing.
LEMMA ReverseTwice ==
  ASSUME NEW T, NEW s \in Seq(T)
  PROVE  Reverse(Reverse(s)) = s
<1> DEFINE r == Reverse(s)
           l == Len(s)
<1>1. r \in Seq(T) /\ Len(r) = l /\ \A i \in 1..l : r[i] = s[l - i + 1]
  BY ReverseIs
<1>2. Reverse(r) \in Seq(T) /\ Len(Reverse(r)) = l
      /\ \A i \in 1..l : Reverse(r)[i] = r[l - i + 1]
  <2> HIDE DEF r
  <2>1. QED  BY <1>1, ReverseIs
<1>3. \A i \in 1..l : Reverse(r)[i] = s[i]
  <2> TAKE i \in 1..l
  <2>1. l \in Nat /\ l - i + 1 \in 1..l /\ l - (l - i + 1) + 1 = i  OBVIOUS
  <2>2. QED  BY <1>1, <1>2, <2>1
<1> DEFINE t == Reverse(r)
<1>4. t \in Seq(T) /\ Len(t) = Len(s) /\ \A i \in 1..Len(t) : t[i] = s[i]
  BY <1>2, <1>3
<1> HIDE DEF r, t
<1>5. t = s  BY <1>4, SeqEqual
<1>6. QED  BY <1>5 DEF r, t

\* The recursive function of Number is what its definition says: over[i] is the
\* number that the bytes behind the i-th spell.
LEMMA NumberIs ==
  ASSUME NEW cells \in Seq(Nat), NEW order
  PROVE  \E over : /\ \A i \in 0..Len(cells) : over[i] \in Nat
                   /\ over[Len(cells)] = 0
                   /\ \A i \in 0..Len(cells) - 1 :
                        over[i] = Little(cells, order)[i + 1] + Base * over[i + 1]
                   /\ Number(cells, order) = over[0]
<1> DEFINE w == Len(cells)
           little == Little(cells, order)
           h == [i \in Nat |-> [t \in Nat |-> IF i \in 0..w - 1 THEN little[i + 1] + Base * t ELSE t]]
           next == [i \in Nat |-> i + 1]
           Body(f) == [i \in 0..w |-> IF i = w THEN 0 ELSE little[i + 1] + Base * f[i + 1]]
<1>0. w \in Nat /\ Base \in Nat  BY WidthAssumption
<1>1. \A i \in 0..w - 1 : little[i + 1] \in Nat
  <2>1. little \in Seq(Nat) /\ Len(little) = w  BY ReverseIs DEF Little
  <2> HIDE DEF little
  <2>2. QED  BY <1>0, <2>1
<1>2. \A i \in 0..w - 1, t \in Nat : h[i][t] = little[i + 1] + Base * t
  <2> HIDE DEF little
  <2>1. QED  BY <1>0
<1>3. \A i \in 0..w - 1, t \in Nat : h[i][t] \in Nat
  <2> HIDE DEF little, h
  <2> TAKE i \in 0..w - 1, t \in Nat
  <2>1. h[i][t] = little[i + 1] + Base * t /\ little[i + 1] \in Nat  BY <1>1, <1>2
  <2>2. \A a, b, c \in Nat : a + b * c \in Nat  OBVIOUS
  <2>3. QED  BY <1>0, <2>1, <2>2
<1>4. PICK f \in [0..w -> Nat] : Jumping(f, 0, h, next, 0, w)
  <2>1. 0 \in Nat /\ 0 <= w  BY <1>0
  <2>2. \A i \in 0..w - 1 : next[i] \in i + 1..w  BY <1>0
  <2> HIDE DEF h, w, next
  <2>3. QED  BY <1>0, <1>3, <2>1, <2>2, JumpingRecursion
<1>5. \A i \in 0..w : f[i] = IF i = w THEN 0 ELSE h[i][f[next[i]]]
  BY <1>4 DEF Jumping
<1>6. f = Body(f)
  <2> HIDE DEF h, little
  <2>1. ASSUME NEW i \in 0..w  PROVE f[i] = Body(f)[i]
    <3>1. CASE i = w  BY <1>5, <3>1
    <3>2. CASE i # w
      <4>1. i \in 0..w - 1 /\ i + 1 \in 0..w /\ next[i] = i + 1  BY <1>0, <3>2
      <4>2. f[i + 1] \in Nat  BY <4>1
      <4>3. QED  BY <1>2, <1>5, <3>2, <4>1, <4>2
    <3>3. QED  BY <3>1, <3>2
  <2>2. QED  BY <2>1
<1> DEFINE g == CHOOSE x : x = Body(x)
<1>7. g = Body(g)
  <2> HIDE DEF Body
  <2>1. QED  BY <1>6, Zenon
<1>8. Number(cells, order) = g[0]  BY Zenon DEF Number, Little
<1>9. \A i \in 0..w : g[i] = Body(g)[i]
  <2> HIDE DEF g, Body
  <2>1. QED  BY <1>7
<1> HIDE DEF g, little, h
<1>10. \A i \in 0..w : g[i] = IF i = w THEN 0 ELSE little[i + 1] + Base * g[i + 1]
  BY <1>9
<1> DEFINE S == {j \in Nat : j \in 0..w => g[w - j] \in Nat}
<1>11. 0 \in S  BY <1>0, <1>10
<1>12. ASSUME NEW j \in Nat, j \in S  PROVE j + 1 \in S
  <2> SUFFICES ASSUME j + 1 \in 0..w PROVE g[w - (j + 1)] \in Nat  OBVIOUS
  <2> DEFINE i == w - (j + 1)
  <2>1. i \in 0..w - 1 /\ i \in 0..w /\ i # w /\ i + 1 = w - j /\ j \in 0..w  BY <1>0
  <2>2. g[i + 1] \in Nat  BY <1>12, <2>1
  <2>3. g[i] = little[i + 1] + Base * g[i + 1] /\ little[i + 1] \in Nat
    BY <1>1, <1>10, <2>1
  <2> HIDE DEF i
  <2>4. g[i] \in Nat  BY <1>0, <2>2, <2>3
  <2>5. QED  BY <2>4 DEF i
<1>13. Nat \subseteq S
  <2> HIDE DEF S
  <2>1. QED  BY <1>11, <1>12, SetInduction
<1>14. \A i \in 0..w : g[i] \in Nat
  <2> TAKE i \in 0..w
  <2>1. w - i \in Nat /\ w - i \in 0..w /\ w - (w - i) = i  BY <1>0
  <2>2. w - i \in S  BY <1>13, <2>1
  <2>3. QED  BY <2>1, <2>2
<1>15. g[w] = 0 /\ \A i \in 0..w - 1 : g[i] = little[i + 1] + Base * g[i + 1]
  <2>1. w \in 0..w /\ \A i \in 0..w - 1 : i \in 0..w /\ i # w  BY <1>0
  <2>2. QED  BY <1>10, <2>1
<1>16. QED  BY <1>8, <1>14, <1>15 DEF little

\* The bytes of a number, in either order.
LEMMA DigitsIs ==
  ASSUME NEW n \in Nat, NEW w \in Nat, NEW order
  PROVE  /\ Digits(n, w, order) \in Seq(Byte) /\ Len(Digits(n, w, order)) = w
         /\ \A i \in 1..w : Little(Digits(n, w, order), order)[i] = Shifted(n, w)[i - 1] % Base
<1> DEFINE little == [i \in 1..w |-> Shifted(n, w)[i - 1] % Base]
<1>1. \A i \in 1..w : Shifted(n, w)[i - 1] % Base \in Byte
  <2> TAKE i \in 1..w
  <2>1. i - 1 \in 0..w  OBVIOUS
  <2>2. Shifted(n, w)[i - 1] \in Nat  BY <2>1, ShiftedIs
  <2>3. QED  BY <2>2, Dividing
<1>2. little \in Seq(Byte) /\ Len(little) = w
      /\ \A i \in 1..w : little[i] = Shifted(n, w)[i - 1] % Base
  BY <1>1
<1>3. Digits(n, w, order) = IF order = 1 THEN little ELSE Reverse(little)  BY DEF Digits
<1> HIDE DEF little
<1>4. Reverse(little) \in Seq(Byte) /\ Len(Reverse(little)) = w
      /\ Reverse(Reverse(little)) = little
  BY <1>2, ReverseIs, ReverseTwice
<1>5. Little(Digits(n, w, order), order) = little  BY <1>3, <1>4 DEF Little
<1>6. QED  BY <1>2, <1>3, <1>4, <1>5

\* A number that fits comes back.
LEMMA NumberComesBack ==
  ASSUME NEW n \in Nat, NEW w \in Nat, NEW order, Fits(n, w)
  PROVE  Number(Digits(n, w, order), order) = n
<1> DEFINE d == Digits(n, w, order)
           sh == Shifted(n, w)
           little == Little(d, order)
<1>1. d \in Seq(Nat) /\ Len(d) = w /\ \A i \in 1..w : little[i] = sh[i - 1] % Base
  <2>1. d \in Seq(Byte)  BY DigitsIs
  <2> HIDE DEF d
  <2>2. d \in Seq(Nat)  BY <2>1, BytesAreNumbers
  <2>3. QED  BY <2>2, DigitsIs DEF d
<1>2. (\A i \in 0..w : sh[i] \in Nat) /\ sh[0] = n
      /\ (\A i \in 1..w : sh[i] = sh[i - 1] \div Base) /\ sh[w] = 0
  BY ShiftedIs DEF Fits
<1> HIDE DEF d, sh
<1>3. PICK over : /\ \A i \in 0..w : over[i] \in Nat
                  /\ over[w] = 0
                  /\ \A i \in 0..w - 1 : over[i] = little[i + 1] + Base * over[i + 1]
                  /\ Number(d, order) = over[0]
  BY <1>1, NumberIs
<1> HIDE DEF little
<1> DEFINE S == {j \in Nat : j \in 0..w => over[w - j] = sh[w - j]}
<1>4. 0 \in S  BY <1>2, <1>3
<1>5. ASSUME NEW j \in Nat, j \in S  PROVE j + 1 \in S
  <2> SUFFICES ASSUME j + 1 \in 0..w PROVE over[w - (j + 1)] = sh[w - (j + 1)]  OBVIOUS
  <2> DEFINE i == w - (j + 1)
  <2>1. i \in 0..w - 1 /\ i \in 0..w /\ i + 1 \in 1..w /\ i + 1 - 1 = i
        /\ i + 1 = w - j /\ j \in 0..w
    OBVIOUS
  <2>2. over[i + 1] = sh[i + 1]  BY <1>5, <2>1
  <2> HIDE DEF i
  <2>3. over[i] = little[i + 1] + Base * over[i + 1]  BY <1>3, <2>1
  <2>4. little[i + 1] = sh[i] % Base /\ sh[i + 1] = sh[i] \div Base /\ sh[i] \in Nat
    BY <1>1, <1>2, <2>1
  <2>5. over[i] = (sh[i] % Base) + Base * (sh[i] \div Base)  BY <2>2, <2>3, <2>4
  <2>6. over[i] = sh[i]  BY <2>4, <2>5, Dividing
  <2>7. QED  BY <2>6 DEF i
<1>6. Nat \subseteq S
  <2> HIDE DEF S
  <2>1. QED  BY <1>4, <1>5, SetInduction
<1>7. w \in S /\ w - w = 0 /\ w \in 0..w  BY <1>6
<1>8. over[0] = sh[0]  BY <1>7
<1>9. QED  BY <1>2, <1>3, <1>8 DEF d

\* Whatever bytes are read, they spell a natural number.
LEMMA NumberTyped ==
  ASSUME NEW cells \in Seq(Nat), NEW order
  PROVE  Number(cells, order) \in Nat
<1>1. 0 \in 0..Len(cells)  OBVIOUS
<1>2. QED  BY <1>1, NumberIs

-----------------------------------------------------------------------------
(* Reading.                                                                *)

\* What read leaves in memory: the bytes of the file, and zeros behind its end.
LEMMA CellsIs ==
  ASSUME NEW f \in Seq(Byte), NEW at \in Nat, NEW w \in Nat
  PROVE  /\ Cells(f, at, w) \in Seq(Byte) /\ Len(Cells(f, at, w)) = w
         /\ \A i \in 1..w :
              Cells(f, at, w)[i] = IF at + i <= Len(f) THEN f[at + i] ELSE 0
<1>1. 0 \in Byte  BY WidthAssumption DEF Byte
<1>2. ASSUME NEW i \in 1..w, at + i <= Len(f)  PROVE f[at + i] \in Byte
  <2>1. at + i \in 1..Len(f)  BY <1>2
  <2>2. QED  BY <2>1
<1>3. \A i \in 1..w : (IF at + i <= Len(f) THEN f[at + i] ELSE 0) \in Byte
  BY <1>1, <1>2
<1>4. QED  BY <1>3 DEF Cells

\* And the number they spell.
LEMMA ReadTyped ==
  ASSUME NEW f \in Seq(Byte), NEW at \in Nat, NEW w \in Nat, NEW order
  PROVE  read_n(f, at, w, order) \in Nat
<1> DEFINE c == Cells(f, at, w)
<1>1. c \in Seq(Byte)  BY CellsIs
<1> HIDE DEF c
<1>2. c \in Seq(Nat)  BY <1>1, BytesAreNumbers
<1>3. Number(c, order) \in Nat  BY <1>2, NumberTyped
<1>4. QED  BY <1>3 DEF c, read_n

\* The end of the file or a position before it.
UpTo(f, p) == IF p < Len(f) THEN p ELSE Len(f)

\* The length of the key of the record at p.
SizeAt(f, order, p) == read_n(f, p, KeyWidth, order)

\* Where load_index looks for the place of the value.
TailAt(f, order, p) ==
  UpTo(f, UpTo(f, p + KeyWidth) + 1 + SizeAt(f, order, p))

\* Where load_index goes on.
NextAt(f, order, p) == UpTo(f, TailAt(f, order, p) + OffsetWidth + LengthWidth)

\* The offset and the length of the value.
PlaceAt(f, order, p) ==
  [off |-> read_n(f, TailAt(f, order, p), OffsetWidth, order),
   len |-> read_n(f, UpTo(f, TailAt(f, order, p) + OffsetWidth), LengthWidth, order)]

\* The key.
KeyAt(f, order, p) ==
  Cells(f, UpTo(f, UpTo(f, p + KeyWidth) + 1), SizeAt(f, order, p))

\* The index entry.
EntryAt(f, order, p) == Entry(PlaceAt(f, order, p), UpTo(f, p + KeyWidth))

\* Is the record not erased?
Live(f, memory, p) ==
  (IF UpTo(f, p + KeyWidth) < Len(f) THEN f[UpTo(f, p + KeyWidth) + 1] ELSE memory) # 0

\* What load_index makes of a record and of those behind it.
Taken(f, order, memory, p, rest) ==
  IF Live(f, memory, p)
  THEN Put(rest, KeyAt(f, order, p), EntryAt(f, order, p)) ELSE rest

\* A position that is in the file is where the descriptor is.
LEMMA UpToIs ==
  ASSUME NEW f \in Seq(Byte), NEW p \in Nat
  PROVE  /\ UpTo(f, p) \in 0..Len(f)
         /\ p <= Len(f) => UpTo(f, p) = p
BY DEF UpTo

\* What load_index reads at any position, of any bytes, has its type, and it goes
\* forward.
LEMMA PositionsTyped ==
  ASSUME NEW f \in Seq(Byte), NEW order, NEW p \in 0..Len(f) - 1
  PROVE  /\ SizeAt(f, order, p) \in Nat
         /\ KeyAt(f, order, p) \in Seq(Byte)
         /\ EntryAt(f, order, p) \in [off : Nat, len : Nat, at : Nat]
         /\ NextAt(f, order, p) \in p + 1..Len(f)
<1> DEFINE l == Len(f)
           size == SizeAt(f, order, p)
           a == UpTo(f, p + KeyWidth)
           t == TailAt(f, order, p)
<1>0. l \in Nat /\ p \in Nat /\ p < l
      /\ KeyWidth \in Nat \ {0} /\ OffsetWidth \in Nat \ {0} /\ LengthWidth \in Nat \ {0}
  BY WidthAssumption
<1>1. size \in Nat  BY <1>0, ReadTyped DEF SizeAt
<1>2. a \in 0..l /\ a > p  BY <1>0 DEF UpTo
<1>3. t = UpTo(f, a + 1 + size)  BY DEF TailAt
<1> HIDE DEF a, size
<1>4. t \in 0..l /\ t > p  BY <1>0, <1>1, <1>2, <1>3 DEF UpTo
<1> HIDE DEF t
<1>5. NextAt(f, order, p) = UpTo(f, t + OffsetWidth + LengthWidth)  BY DEF NextAt, t
<1>6. NextAt(f, order, p) \in p + 1..l  BY <1>0, <1>4, <1>5 DEF UpTo
<1>7. KeyAt(f, order, p) \in Seq(Byte)
  <2>1. UpTo(f, a + 1) \in Nat  BY <1>0, <1>2, UpToIs
  <2>2. KeyAt(f, order, p) = Cells(f, UpTo(f, a + 1), size)  BY DEF KeyAt, a, size
  <2>3. QED  BY <1>1, <2>1, <2>2, CellsIs
<1>8. EntryAt(f, order, p) \in [off : Nat, len : Nat, at : Nat]
  <2> DEFINE x == read_n(f, t, OffsetWidth, order)
             b == UpTo(f, t + OffsetWidth)
             y == read_n(f, b, LengthWidth, order)
  <2>1. x \in Nat  BY <1>0, <1>4, ReadTyped
  <2>2. b \in Nat  BY <1>0, <1>4, UpToIs
  <2> HIDE DEF b
  <2>3. y \in Nat  BY <1>0, <2>2, ReadTyped
  <2>4. EntryAt(f, order, p) = [off |-> x, len |-> y, at |-> a]
    BY DEF EntryAt, Entry, PlaceAt, a, b, t
  <2> HIDE DEF x, y
  <2>5. a \in Nat  BY <1>2
  <2>6. QED  BY <2>1, <2>3, <2>4, <2>5
<1>9. QED  BY <1>1, <1>6, <1>7, <1>8 DEF size

\* The recursion of load_index is what its definition says: load[p] is what it
\* makes of the file from p on (load_index, lib/io_manager.cpp:161).
LEMMA LoadedUnfold ==
  ASSUME NEW f \in Seq(Byte), NEW order, NEW memory
  PROVE  \E load :
           /\ Loaded(f, order, memory) = load[UpTo(f, 1)]
           /\ load[Len(f)] = NoKeys
           /\ \A p \in 0..Len(f) - 1 :
                load[p] = Taken(f, order, memory, p, load[NextAt(f, order, p)])
<1> DEFINE l == Len(f)
           E == [off : Nat, len : Nat, at : Nat]
           T == UNION {[D -> E] : D \in SUBSET Seq(Byte)}
           h == [p \in 0..l |-> [t \in T |-> Taken(f, order, memory, p, t)]]
           next == [p \in 0..l |-> NextAt(f, order, p)]
           Body(x) == [p \in 0..l |->
                        IF p = l THEN NoKeys
                        ELSE Taken(f, order, memory, p, x[NextAt(f, order, p)])]
<1>0. l \in Nat  OBVIOUS
<1>1. NoKeys \in T
  <2>1. NoKeys \in [{} -> E] /\ {} \in SUBSET Seq(Byte)  BY DEF NoKeys
  <2> HIDE DEF E
  <2>2. QED  BY <2>1
<1>2. ASSUME NEW t \in T, NEW p \in 0..l - 1  PROVE Taken(f, order, memory, p, t) \in T
  <2>1. PICK D \in SUBSET Seq(Byte) : t \in [D -> E]  OBVIOUS
  <2>2. KeyAt(f, order, p) \in Seq(Byte) /\ EntryAt(f, order, p) \in E  BY PositionsTyped
  <2> HIDE DEF E
  <2> DEFINE k == KeyAt(f, order, p)
             e == EntryAt(f, order, p)
  <2> HIDE DEF k, e
  <2>3. Put(t, k, e) \in [D \cup {k} -> E] /\ D \cup {k} \in SUBSET Seq(Byte)
    BY <2>1, <2>2 DEF Put, k, e
  <2>4. Put(t, k, e) \in T  BY <2>3
  <2> HIDE DEF T
  <2>5. QED  BY <2>4 DEF Taken, k, e
<1> HIDE DEF T
<1>3. \A p \in 0..l - 1, t \in T : p \in 0..l /\ h[p][t] = Taken(f, order, memory, p, t)
  <2>1. \A p \in 0..l - 1 : p \in 0..l  BY <1>0
  <2>2. QED  BY <2>1
<1>4. \A p \in 0..l - 1 : next[p] = NextAt(f, order, p) /\ next[p] \in p + 1..l
  <2> TAKE p \in 0..l - 1
  <2>1. p \in 0..l  BY <1>0
  <2>2. next[p] = NextAt(f, order, p)  BY <2>1
  <2>3. QED  BY <2>2, PositionsTyped
<1> HIDE DEF h, next
<1>5. \A p \in 0..l - 1, t \in T : h[p][t] \in T
  <2> TAKE p \in 0..l - 1, t \in T
  <2>1. QED  BY <1>2, <1>3
<1>6. PICK x \in [0..l -> T] : Jumping(x, NoKeys, h, next, 0, l)
  <2>1. 0 \in Nat /\ 0 <= l /\ \A p \in 0..l - 1 : next[p] \in p + 1..l
    BY <1>0, <1>4
  <2> HIDE DEF l
  <2>2. QED  BY <1>0, <1>1, <1>5, <2>1, JumpingRecursion
<1>7. \A p \in 0..l : x[p] = IF p = l THEN NoKeys ELSE h[p][x[next[p]]]
  BY <1>6 DEF Jumping
<1>8. x = Body(x)
  <2>1. ASSUME NEW p \in 0..l  PROVE x[p] = Body(x)[p]
    <3>1. CASE p = l  BY <1>7, <3>1
    <3>2. CASE p # l
      <4>1. p \in 0..l - 1  BY <1>0, <3>2
      <4>2. next[p] = NextAt(f, order, p) /\ next[p] \in 0..l
        <5>1. next[p] \in p + 1..l /\ p \in Nat  BY <1>4, <4>1
        <5>2. QED  BY <1>0, <1>4, <4>1, <5>1
      <4>3. x[next[p]] \in T  BY <1>6, <4>2
      <4>4. h[p][x[next[p]]] = Taken(f, order, memory, p, x[next[p]])  BY <1>3, <4>1, <4>3
      <4>5. x[p] = Taken(f, order, memory, p, x[NextAt(f, order, p)])
        BY <1>7, <3>2, <4>2, <4>4
      <4>6. Body(x)[p] = Taken(f, order, memory, p, x[NextAt(f, order, p)])  BY <3>2
      <4>7. QED  BY <4>5, <4>6
    <3>3. QED  BY <3>1, <3>2
  <2> HIDE DEF Body
  <2>2. DOMAIN x = 0..l /\ x = [p \in 0..l |-> x[p]]  BY <1>6
  <2>3. DOMAIN Body(x) = 0..l /\ Body(x) = [p \in 0..l |-> Body(x)[p]]  BY DEF Body
  <2>4. QED  BY <2>1, <2>2, <2>3
<1> DEFINE g == CHOOSE y : y = Body(y)
<1>9. g = Body(g)
  <2> HIDE DEF Body
  <2>1. QED  BY <1>8, Zenon
<1>10. Loaded(f, order, memory) = g[UpTo(f, 1)]
  BY Zenon DEF Loaded, Taken, Live, KeyAt, EntryAt, PlaceAt, TailAt, NextAt, UpTo, SizeAt
<1>11. \A p \in 0..l : g[p] = Body(g)[p]
  <2> HIDE DEF g, Body
  <2>1. QED  BY <1>9
<1> HIDE DEF g
<1>12. g[l] = NoKeys  BY <1>0, <1>11
<1>13. \A p \in 0..l - 1 : g[p] = Taken(f, order, memory, p, g[NextAt(f, order, p)])
  <2> TAKE p \in 0..l - 1
  <2>1. p \in 0..l /\ p # l  BY <1>0
  <2>2. QED  BY <1>11, <2>1
<1>14. QED  BY <1>10, <1>12, <1>13

-----------------------------------------------------------------------------
(* Files of whole records.                                                 *)

\* The end of a record.
EndOf(f, order, p) ==
  p + KeyWidth + 1 + SizeAt(f, order, p) + OffsetWidth + LengthWidth

\* The valid byte of a record that is there to its end.
IsLive(f, p) == f[p + KeyWidth + 1] # 0

\* Behind its header the file consists of records that begin in starts, and no
\* key has two that are not erased.
Whole(f, order, starts) ==
  /\ f \in Seq(Byte) /\ starts \subseteq 1..Len(f) - 1
  /\ Len(f) = 1 \/ 1 \in starts
  /\ \A p \in starts : EndOf(f, order, p) \in starts \cup {Len(f)}
  /\ \A p, q \in starts : p < q => EndOf(f, order, p) <= q
  /\ \A p \in starts : KeyAt(f, order, p) \in Keys
  /\ \A p, q \in starts :
       IsLive(f, p) /\ IsLive(f, q) /\ KeyAt(f, order, p) = KeyAt(f, order, q) => p = q

\* x has the keys of the records in starts that are not erased, with what the
\* records say.
Describes(f, order, starts, x) ==
  /\ x = [k \in DOMAIN x |-> x[k]]
  /\ \A p \in starts : IsLive(f, p) =>
       KeyAt(f, order, p) \in DOMAIN x /\ x[KeyAt(f, order, p)] = EntryAt(f, order, p)
  /\ \A k \in DOMAIN x : \E p \in starts : IsLive(f, p) /\ k = KeyAt(f, order, p)

\* Only one function is so described.
LEMMA DescribesOne ==
  ASSUME NEW f, NEW order, NEW starts, NEW x, NEW y,
         Describes(f, order, starts, x), Describes(f, order, starts, y)
  PROVE  x = y
<1>1. ASSUME NEW u, NEW v, Describes(f, order, starts, u), Describes(f, order, starts, v),
             NEW k \in DOMAIN u
      PROVE  k \in DOMAIN v /\ u[k] = v[k]
  <2>1. PICK p \in starts : IsLive(f, p) /\ k = KeyAt(f, order, p)  BY <1>1 DEF Describes
  <2>2. u[k] = EntryAt(f, order, p) /\ k \in DOMAIN v /\ v[k] = EntryAt(f, order, p)
    BY <1>1, <2>1 DEF Describes
  <2>3. QED  BY <2>2
<1>2. DOMAIN x = DOMAIN y /\ \A k \in DOMAIN x : x[k] = y[k]  BY <1>1
<1>3. x = [k \in DOMAIN x |-> x[k]] /\ y = [k \in DOMAIN y |-> y[k]]  BY DEF Describes
<1>4. QED  BY <1>2, <1>3

\* Where everything is in a record that is there to its end.
LEMMA RecordIs ==
  ASSUME NEW f \in Seq(Byte), NEW order, NEW p \in Nat, EndOf(f, order, p) <= Len(f)
  PROVE  /\ SizeAt(f, order, p) \in Nat
         /\ TailAt(f, order, p) = p + KeyWidth + 1 + SizeAt(f, order, p)
         /\ NextAt(f, order, p) = EndOf(f, order, p)
         /\ KeyAt(f, order, p) = Cells(f, p + KeyWidth + 1, SizeAt(f, order, p))
         /\ PlaceAt(f, order, p) =
              [off |-> read_n(f, p + KeyWidth + 1 + SizeAt(f, order, p), OffsetWidth, order),
               len |-> read_n(f, p + KeyWidth + 1 + SizeAt(f, order, p) + OffsetWidth,
                              LengthWidth, order)]
         /\ EntryAt(f, order, p) = Entry(PlaceAt(f, order, p), p + KeyWidth)
         /\ \A memory : Live(f, memory, p) = IsLive(f, p)
<1> DEFINE l == Len(f)
           size == SizeAt(f, order, p)
           tail == p + KeyWidth + 1 + size
<1>0. l \in Nat
      /\ KeyWidth \in Nat \ {0} /\ OffsetWidth \in Nat \ {0} /\ LengthWidth \in Nat \ {0}
  BY WidthAssumption
<1>1. size \in Nat  BY <1>0, ReadTyped DEF SizeAt
<1>2. EndOf(f, order, p) = tail + OffsetWidth + LengthWidth  BY DEF EndOf
<1> HIDE DEF size
<1>3. p + KeyWidth < l /\ p + KeyWidth + 1 <= l /\ tail <= l /\ tail + OffsetWidth <= l
      /\ tail + OffsetWidth + LengthWidth <= l /\ tail \in Nat
  BY <1>0, <1>1, <1>2
<1>4. UpTo(f, p + KeyWidth) = p + KeyWidth  BY <1>3 DEF UpTo
<1>5. UpTo(f, p + KeyWidth + 1) = p + KeyWidth + 1  BY <1>0, <1>3 DEF UpTo
<1>6. UpTo(f, tail) = tail  BY <1>0, <1>3 DEF UpTo
<1>7. UpTo(f, tail + OffsetWidth) = tail + OffsetWidth  BY <1>0, <1>3 DEF UpTo
<1>8. UpTo(f, tail + OffsetWidth + LengthWidth) = tail + OffsetWidth + LengthWidth
  BY <1>0, <1>3 DEF UpTo
<1>9. TailAt(f, order, p) = tail  BY <1>4, <1>6 DEF TailAt, size
<1>10. NextAt(f, order, p) = EndOf(f, order, p)  BY <1>2, <1>8, <1>9 DEF NextAt
<1>11. KeyAt(f, order, p) = Cells(f, p + KeyWidth + 1, size)
  BY <1>4, <1>5 DEF KeyAt, size
<1>12. PlaceAt(f, order, p) = [off |-> read_n(f, tail, OffsetWidth, order),
                               len |-> read_n(f, tail + OffsetWidth, LengthWidth, order)]
  BY <1>7, <1>9 DEF PlaceAt
<1>13. EntryAt(f, order, p) = Entry(PlaceAt(f, order, p), p + KeyWidth)
  BY <1>4 DEF EntryAt
<1>14. \A memory : Live(f, memory, p) = IsLive(f, p)  BY <1>3, <1>4 DEF Live, IsLive
<1>15. QED  BY <1>1, <1>9, <1>10, <1>11, <1>12, <1>13, <1>14 DEF size

\* load_index finds them, whatever is in memory.
LEMMA LoadedIs ==
  ASSUME NEW f, NEW order, NEW starts, NEW memory, Len(f) >= 1, Whole(f, order, starts)
  PROVE  Describes(f, order, starts, Loaded(f, order, memory))
<1> DEFINE l == Len(f)
           From(p) == {q \in starts : q >= p}
<1>0. f \in Seq(Byte) /\ l \in Nat /\ l >= 1 /\ Len(f) = l
      /\ \A p \in starts : p \in Nat /\ 1 <= p /\ p < l
  <2>1. f \in Seq(Byte) /\ starts \subseteq 1..Len(f) - 1  BY DEF Whole
  <2>2. Len(f) \in Nat  BY <2>1
  <2>3. QED  BY <2>1, <2>2
<1>1. PICK load : /\ Loaded(f, order, memory) = load[UpTo(f, 1)]
                  /\ load[l] = NoKeys
                  /\ \A p \in 0..l - 1 :
                       load[p] = Taken(f, order, memory, p, load[NextAt(f, order, p)])
  BY <1>0, LoadedUnfold
<1> HIDE DEF l
<1> DEFINE S == {j \in Nat : \A p \in starts \cup {l} :
                   l - p <= j => Describes(f, order, From(p), load[p])}
<1>2. 0 \in S
  <2> SUFFICES ASSUME NEW p \in starts \cup {l}, l - p <= 0
               PROVE  Describes(f, order, From(p), load[p])
    OBVIOUS
  <2>1. p = l /\ From(p) = {}  BY <1>0
  <2>2. load[p] = NoKeys  BY <1>1, <2>1
  <2>3. QED  BY <2>1, <2>2 DEF Describes, NoKeys
<1>3. ASSUME NEW j \in Nat, j \in S  PROVE j + 1 \in S
  <2>0. j + 1 \in Nat  OBVIOUS
  <2> SUFFICES ASSUME NEW p \in starts \cup {l}, l - p <= j + 1
               PROVE  Describes(f, order, From(p), load[p])
    <3> HIDE DEF From
    <3>1. QED  BY <2>0
  <2>1. CASE p = l
    <3>1. l - p <= j  BY <1>0, <2>1
    <3>2. QED  BY <1>3, <3>1
  <2>2. CASE p # l
    <3> DEFINE e == EndOf(f, order, p)
               k == KeyAt(f, order, p)
               rest == load[e]
    <3>1. p \in starts /\ p \in Nat /\ p \in 0..l - 1 /\ p < l  BY <1>0, <2>2
    <3>2. e \in starts \cup {l} /\ e <= l /\ e \in Nat
      <4>1. e \in starts \cup {l}  BY <1>0, <3>1 DEF Whole
      <4> HIDE DEF e
      <4>2. QED  BY <1>0, <4>1
    <3>3. NextAt(f, order, p) = e /\ (Live(f, memory, p) = IsLive(f, p))
      BY <1>0, <3>1, <3>2, RecordIs
    <3>4. e > p
      <4>1. NextAt(f, order, p) \in p + 1..l  BY <1>0, <3>1, PositionsTyped
      <4> HIDE DEF e
      <4>2. QED  BY <3>1, <3>2, <3>3, <4>1
    <3>5. Describes(f, order, From(e), rest)
      <4> HIDE DEF e
      <4>1. l - e <= j  BY <1>0, <3>1, <3>2, <3>4
      <4>2. QED  BY <1>3, <3>2, <4>1
    <3>6. From(p) = From(e) \cup {p}
      <4>1. \A q \in starts : p < q => e <= q  BY <3>1 DEF Whole
      <4> HIDE DEF e
      <4>2. \A q \in starts : q \in Nat /\ (q >= p <=> q >= e \/ q = p)
        <5> TAKE q \in starts
        <5>1. q \in Nat /\ (p < q => e <= q)  BY <1>0, <4>1
        <5>2. QED  BY <3>1, <3>2, <3>4, <5>1
      <4>3. QED  BY <3>1, <4>2
    <3>7. load[p] = IF IsLive(f, p) THEN Put(rest, k, EntryAt(f, order, p)) ELSE rest
      <4>1. load[p] = Taken(f, order, memory, p, load[NextAt(f, order, p)])  BY <1>1, <3>1
      <4>2. QED  BY <3>3, <4>1 DEF Taken
    <3>8. \A q \in From(e) : q \in starts /\ q # p
      <4> HIDE DEF e
      <4>1. QED  BY <1>0, <3>1, <3>2, <3>4
    <3> HIDE DEF e, rest, From, k
    <3>9. CASE ~IsLive(f, p)  BY <3>5, <3>6, <3>7, <3>9 DEF Describes
    <3>10. CASE IsLive(f, p)
      <4> DEFINE x == Put(rest, k, EntryAt(f, order, p))
      <4>1. load[p] = x  BY <3>7, <3>10
      <4>2. \A q \in From(e) : IsLive(f, q) => KeyAt(f, order, q) # k
        BY <3>1, <3>8, <3>10 DEF Whole, k
      <4>3. DOMAIN x = DOMAIN rest \cup {k} /\ x[k] = EntryAt(f, order, p)
            /\ (\A z \in DOMAIN rest : z # k => x[z] = rest[z])
            /\ x = [z \in DOMAIN x |-> x[z]]
        BY DEF Put
      <4> HIDE DEF x
      <4>4. ASSUME NEW q \in From(p), IsLive(f, q)
            PROVE  KeyAt(f, order, q) \in DOMAIN x
                   /\ x[KeyAt(f, order, q)] = EntryAt(f, order, q)
        <5>1. CASE q = p  BY <4>3, <5>1 DEF k
        <5>2. CASE q # p
          <6>1. q \in From(e)  BY <3>6, <5>2
          <6>2. KeyAt(f, order, q) \in DOMAIN rest
                /\ rest[KeyAt(f, order, q)] = EntryAt(f, order, q)
            BY <3>5, <4>4, <6>1 DEF Describes
          <6>3. QED  BY <4>2, <4>3, <4>4, <6>1, <6>2
        <5>3. QED  BY <5>1, <5>2
      <4>5. ASSUME NEW z \in DOMAIN x
            PROVE  \E q \in From(p) : IsLive(f, q) /\ z = KeyAt(f, order, q)
        <5>1. CASE z = k  BY <3>6, <3>10, <5>1 DEF k
        <5>2. CASE z # k
          <6>1. z \in DOMAIN rest  BY <4>3, <5>2
          <6>2. QED  BY <3>5, <3>6, <6>1 DEF Describes
        <5>3. QED  BY <5>1, <5>2
      <4>6. Describes(f, order, From(p), x)  BY <4>3, <4>4, <4>5 DEF Describes
      <4>7. QED  BY <4>1, <4>6
    <3>11. QED  BY <3>9, <3>10
  <2>3. QED  BY <2>1, <2>2
<1>4. Nat \subseteq S
  <2> HIDE DEF S
  <2>1. QED  BY <1>2, <1>3, SetInduction
<1>5. UpTo(f, 1) = 1  BY <1>0 DEF UpTo
<1>6. From(1) = starts /\ 1 \in starts \cup {l}  BY <1>0 DEF Whole
<1>7. l - 1 \in S /\ l - 1 <= l - 1
  <2>1. l - 1 \in Nat /\ l - 1 <= l - 1  BY <1>0
  <2> HIDE DEF S
  <2>2. QED  BY <1>4, <2>1
<1>8. Describes(f, order, From(1), load[1])
  <2> HIDE DEF From
  <2>1. QED  BY <1>6, <1>7
<1>9. QED  BY <1>1, <1>5, <1>6, <1>8

-----------------------------------------------------------------------------
(* Writing.                                                                *)

\* Bytes that are the same are read the same.
LEMMA CellsSame ==
  ASSUME NEW f \in Seq(Byte), NEW g \in Seq(Byte), NEW at \in Nat, NEW w \in Nat,
         at + w <= Len(f), at + w <= Len(g), \A i \in at + 1..at + w : g[i] = f[i]
  PROVE  Cells(g, at, w) = Cells(f, at, w)
<1>1. \A i \in 1..w : /\ at + i \in at + 1..at + w
                      /\ at + i <= Len(f) /\ at + i <= Len(g)
  OBVIOUS
<1>2. \A i \in 1..w : (IF at + i <= Len(g) THEN g[at + i] ELSE 0)
                        = (IF at + i <= Len(f) THEN f[at + i] ELSE 0)
  BY <1>1
<1>3. QED  BY <1>2 DEF Cells

\* A record whose key is untouched keeps it, and its length.
LEMMA KeyKept ==
  ASSUME NEW f \in Seq(Byte), NEW g \in Seq(Byte), NEW order, NEW p \in Nat,
         Len(g) >= Len(f), EndOf(f, order, p) <= Len(f),
         \A i \in p + 1..p + KeyWidth : g[i] = f[i],
         \A i \in p + KeyWidth + 2..p + KeyWidth + 1 + SizeAt(f, order, p) : g[i] = f[i]
  PROVE  /\ SizeAt(g, order, p) = SizeAt(f, order, p)
         /\ EndOf(g, order, p) = EndOf(f, order, p) /\ EndOf(g, order, p) <= Len(g)
         /\ KeyAt(g, order, p) = KeyAt(f, order, p)
<1> DEFINE size == SizeAt(f, order, p)
<1>0. /\ KeyWidth \in Nat /\ OffsetWidth \in Nat /\ LengthWidth \in Nat
      /\ Len(f) \in Nat /\ Len(g) \in Nat
  BY WidthAssumption
<1>1. size \in Nat /\ KeyAt(f, order, p) = Cells(f, p + KeyWidth + 1, size)  BY RecordIs
<1> HIDE DEF size
<1>2. EndOf(f, order, p) = p + KeyWidth + 1 + size + OffsetWidth + LengthWidth
  BY DEF EndOf, size
<1>3. p + KeyWidth <= Len(f) /\ p + KeyWidth <= Len(g)
      /\ p + KeyWidth + 1 + size <= Len(f) /\ p + KeyWidth + 1 + size <= Len(g)
  BY <1>0, <1>1, <1>2
<1>4. Cells(g, p, KeyWidth) = Cells(f, p, KeyWidth)  BY <1>0, <1>3, CellsSame
<1>5. SizeAt(g, order, p) = size  BY <1>4 DEF SizeAt, read_n, size
<1>6. EndOf(g, order, p) = EndOf(f, order, p)  BY <1>5 DEF EndOf, size
<1>7. EndOf(g, order, p) <= Len(g)  BY <1>0, <1>1, <1>2, <1>6
<1>8. KeyAt(g, order, p) = Cells(g, p + KeyWidth + 1, size)  BY <1>5, <1>7, RecordIs
<1>9. Cells(g, p + KeyWidth + 1, size) = Cells(f, p + KeyWidth + 1, size)
  <2> DEFINE at == p + KeyWidth + 1
  <2>1. at \in Nat /\ at + size <= Len(f) /\ at + size <= Len(g)  BY <1>0, <1>3
  <2>2. \A i \in at + 1..at + size : g[i] = f[i]
    <3> TAKE i \in at + 1..at + size
    <3>1. i \in p + KeyWidth + 2..p + KeyWidth + 1 + size  BY <1>0, <1>1
    <3>2. QED  BY <3>1 DEF size
  <2> HIDE DEF at
  <2>3. Cells(g, at, size) = Cells(f, at, size)  BY <1>1, <2>1, <2>2, CellsSame
  <2>4. QED  BY <2>3 DEF at
<1>10. QED  BY <1>1, <1>5, <1>6, <1>7, <1>8, <1>9 DEF size

\* A record that is untouched says what it said.
LEMMA RecordKept ==
  ASSUME NEW f \in Seq(Byte), NEW g \in Seq(Byte), NEW order, NEW p \in Nat,
         Len(g) >= Len(f), EndOf(f, order, p) <= Len(f),
         \A i \in p + 1..EndOf(f, order, p) : g[i] = f[i]
  PROVE  /\ EndOf(g, order, p) = EndOf(f, order, p)
         /\ KeyAt(g, order, p) = KeyAt(f, order, p)
         /\ EntryAt(g, order, p) = EntryAt(f, order, p)
         /\ IsLive(g, p) = IsLive(f, p)
<1> DEFINE size == SizeAt(f, order, p)
           tail == p + KeyWidth + 1 + size
<1>0. /\ KeyWidth \in Nat /\ OffsetWidth \in Nat /\ LengthWidth \in Nat
      /\ Len(f) \in Nat /\ Len(g) \in Nat
  BY WidthAssumption
<1>1. /\ size \in Nat
      /\ PlaceAt(f, order, p) = [off |-> read_n(f, tail, OffsetWidth, order),
                                 len |-> read_n(f, tail + OffsetWidth, LengthWidth, order)]
      /\ EntryAt(f, order, p) = Entry(PlaceAt(f, order, p), p + KeyWidth)
  BY RecordIs
<1>2. EndOf(f, order, p) = tail + OffsetWidth + LengthWidth  BY DEF EndOf
<1>3. /\ SizeAt(g, order, p) = size /\ EndOf(g, order, p) = EndOf(f, order, p)
      /\ EndOf(g, order, p) <= Len(g) /\ KeyAt(g, order, p) = KeyAt(f, order, p)
  <2> HIDE DEF size
  <2>1. \A i \in p + 1..p + KeyWidth : i \in p + 1..EndOf(f, order, p)  BY <1>0, <1>1, <1>2
  <2>2. \A i \in p + KeyWidth + 2..p + KeyWidth + 1 + size : i \in p + 1..EndOf(f, order, p)
    BY <1>0, <1>1, <1>2
  <2>3. QED  BY <2>1, <2>2, KeyKept DEF size
<1>4. /\ PlaceAt(g, order, p) = [off |-> read_n(g, tail, OffsetWidth, order),
                                 len |-> read_n(g, tail + OffsetWidth, LengthWidth, order)]
      /\ EntryAt(g, order, p) = Entry(PlaceAt(g, order, p), p + KeyWidth)
  BY <1>3, RecordIs
<1> HIDE DEF size
<1>5. tail \in Nat /\ tail >= p /\ tail + OffsetWidth + LengthWidth <= Len(f)  BY <1>0, <1>1, <1>2
<1>6. p + KeyWidth + 1 \in p + 1..EndOf(f, order, p)  BY <1>0, <1>1, <1>2
<1> HIDE DEF tail
<1>7. Cells(g, tail, OffsetWidth) = Cells(f, tail, OffsetWidth)
  <2>1. \A i \in tail + 1..tail + OffsetWidth : i \in p + 1..EndOf(f, order, p)
    BY <1>0, <1>2, <1>5
  <2>2. tail + OffsetWidth <= Len(f) /\ tail + OffsetWidth <= Len(g)  BY <1>0, <1>5
  <2>3. QED  BY <1>0, <1>5, <2>1, <2>2, CellsSame
<1>8. Cells(g, tail + OffsetWidth, LengthWidth) = Cells(f, tail + OffsetWidth, LengthWidth)
  <2> DEFINE at == tail + OffsetWidth
  <2>1. \A i \in at + 1..at + LengthWidth : i \in p + 1..EndOf(f, order, p)
    BY <1>0, <1>2, <1>5
  <2>2. at \in Nat /\ at + LengthWidth <= Len(f) /\ at + LengthWidth <= Len(g)
    BY <1>0, <1>5
  <2> HIDE DEF at
  <2>3. Cells(g, at, LengthWidth) = Cells(f, at, LengthWidth)
    BY <1>0, <2>1, <2>2, CellsSame
  <2>4. QED  BY <2>3 DEF at
<1>9. PlaceAt(g, order, p) = PlaceAt(f, order, p)  BY <1>1, <1>4, <1>7, <1>8 DEF read_n, tail
<1>10. IsLive(g, p) = IsLive(f, p)  BY <1>6 DEF IsLive
<1>11. QED  BY <1>1, <1>3, <1>4, <1>9, <1>10

\* What is in a file at a position is read from there.
LEMMA CellsAre ==
  ASSUME NEW f \in Seq(Byte), NEW at \in Nat, NEW b \in Seq(Byte), at + Len(b) <= Len(f),
         \A i \in 1..Len(b) : f[at + i] = b[i]
  PROVE  Cells(f, at, Len(b)) = b
<1> DEFINE c == Cells(f, at, Len(b))
<1>0. Len(b) \in Nat  OBVIOUS
<1>1. /\ c \in Seq(Byte) /\ Len(c) = Len(b)
      /\ \A i \in 1..Len(b) : c[i] = IF at + i <= Len(f) THEN f[at + i] ELSE 0
  BY <1>0, CellsIs
<1> HIDE DEF c
<1>2. \A i \in 1..Len(c) : at + i <= Len(f)  BY <1>1
<1>3. \A i \in 1..Len(c) : c[i] = b[i]  BY <1>1, <1>2
<1>4. c = b  BY <1>1, <1>3, SeqEqual
<1>5. QED  BY <1>4 DEF c

\* And a number that fits is read as it was written.
LEMMA NumberIsRead ==
  ASSUME NEW f \in Seq(Byte), NEW at \in Nat, NEW n \in Nat, NEW w \in Nat, NEW order,
         Fits(n, w), at + w <= Len(f),
         \A i \in 1..w : f[at + i] = Digits(n, w, order)[i]
  PROVE  read_n(f, at, w, order) = n
<1> DEFINE d == Digits(n, w, order)
<1>1. d \in Seq(Byte) /\ Len(d) = w  BY DigitsIs
<1>2. \A i \in 1..w : f[at + i] = d[i]  OBVIOUS
<1>3. Number(d, order) = n  BY NumberComesBack
<1> HIDE DEF d
<1>4. Cells(f, at, Len(d)) = d  BY <1>1, <1>2, CellsAre
<1>5. QED  BY <1>1, <1>3, <1>4 DEF read_n

\* The length of every key fits in the bytes for it.
LengthsFit == \A k \in Keys : Fits(Len(k), KeyWidth)

\* Where everything is in a record before it is written.
LEMMA RecordHas ==
  ASSUME NEW k \in Keys, NEW place \in Places, NEW order
  PROVE  LET r == Record(k, place, order)
             t == KeyWidth + 1 + Len(k)
         IN  /\ r \in Seq(Byte) /\ Len(r) = t + OffsetWidth + LengthWidth
             /\ k \in Seq(Byte) /\ Len(k) \in Nat
             /\ place.off \in Nat /\ place.len \in Nat
             /\ \A i \in 1..KeyWidth : r[i] = Digits(Len(k), KeyWidth, order)[i]
             /\ r[KeyWidth + 1] = 1
             /\ \A i \in 1..Len(k) : r[KeyWidth + 1 + i] = k[i]
             /\ \A i \in 1..OffsetWidth : r[t + i] = Digits(place.off, OffsetWidth, order)[i]
             /\ \A i \in 1..LengthWidth :
                  r[t + OffsetWidth + i] = Digits(place.len, LengthWidth, order)[i]
<1>0. KeyWidth \in Nat /\ OffsetWidth \in Nat /\ LengthWidth \in Nat  BY WidthAssumption
<1>1. k \in Seq(Byte) /\ Len(k) \in Nat
  <2>1. k \in Seq(Byte)  BY KeysAssumption DEF Byte
  <2>2. QED  BY <2>1
<1>2. place.off \in Nat /\ place.len \in Nat  BY PlacesAssumption
<1> DEFINE a == Digits(Len(k), KeyWidth, order)
           one == <<1>>
           b == Digits(place.off, OffsetWidth, order)
           c == Digits(place.len, LengthWidth, order)
           r1 == a \o one
           r2 == r1 \o k
           r3 == r2 \o b
           r4 == r3 \o c
<1>3. a \in Seq(Byte) /\ Len(a) = KeyWidth  BY <1>0, <1>1, DigitsIs
<1>4. b \in Seq(Byte) /\ Len(b) = OffsetWidth  BY <1>0, <1>2, DigitsIs
<1>5. c \in Seq(Byte) /\ Len(c) = LengthWidth  BY <1>0, <1>2, DigitsIs
<1>6. one \in Seq(Byte) /\ Len(one) = 1 /\ one[1] = 1
  <2>1. 1 \in Byte  BY WidthAssumption DEF Byte
  <2>2. QED  BY <2>1
<1>7. Record(k, place, order) = r4  BY DEF Record
<1> HIDE DEF a, b, c, one
<1>8. /\ r1 \in Seq(Byte) /\ Len(r1) = KeyWidth + 1
      /\ \A i \in 1..KeyWidth : r1[i] = a[i]
      /\ r1[KeyWidth + 1] = 1
  <2>1. /\ r1 \in Seq(Byte) /\ Len(r1) = Len(a) + Len(one)
        /\ \A i \in 1..Len(a) : r1[i] = a[i]
        /\ \A i \in 1..Len(one) : r1[Len(a) + i] = one[i]
    <3>1. a \in Seq(Byte) /\ one \in Seq(Byte)  BY <1>3, <1>6
    <3>2. QED  BY <3>1, Joined
  <2> HIDE DEF r1
  <2>2. 1 \in 1..Len(one)  BY <1>6
  <2>3. QED  BY <1>3, <1>6, <2>1, <2>2
<1> HIDE DEF r1
<1>9. /\ r2 \in Seq(Byte) /\ Len(r2) = KeyWidth + 1 + Len(k)
      /\ \A i \in 1..KeyWidth + 1 : r2[i] = r1[i]
      /\ \A i \in 1..Len(k) : r2[KeyWidth + 1 + i] = k[i]
  <2>1. /\ r2 \in Seq(Byte) /\ Len(r2) = Len(r1) + Len(k)
        /\ \A i \in 1..Len(r1) : r2[i] = r1[i]
        /\ \A i \in 1..Len(k) : r2[Len(r1) + i] = k[i]
    <3>1. r1 \in Seq(Byte) /\ k \in Seq(Byte)  BY <1>1, <1>8
    <3>2. QED  BY <3>1, Joined
  <2> HIDE DEF r2
  <2>2. QED  BY <1>0, <1>1, <1>8, <1>8, <2>1
<1> HIDE DEF r2
<1>10. /\ r3 \in Seq(Byte) /\ Len(r3) = KeyWidth + 1 + Len(k) + OffsetWidth
       /\ \A i \in 1..KeyWidth + 1 + Len(k) : r3[i] = r2[i]
       /\ \A i \in 1..OffsetWidth : r3[KeyWidth + 1 + Len(k) + i] = b[i]
  <2>1. /\ r3 \in Seq(Byte) /\ Len(r3) = Len(r2) + Len(b)
        /\ \A i \in 1..Len(r2) : r3[i] = r2[i]
        /\ \A i \in 1..Len(b) : r3[Len(r2) + i] = b[i]
    <3>1. r2 \in Seq(Byte) /\ b \in Seq(Byte)  BY <1>4, <1>9
    <3>2. QED  BY <3>1, Joined
  <2> HIDE DEF r3
  <2>2. QED  BY <1>0, <1>1, <1>4, <1>9, <2>1
<1> HIDE DEF r3
<1>11. /\ r4 \in Seq(Byte) /\ Len(r4) = KeyWidth + 1 + Len(k) + OffsetWidth + LengthWidth
       /\ \A i \in 1..KeyWidth + 1 + Len(k) + OffsetWidth : r4[i] = r3[i]
       /\ \A i \in 1..LengthWidth : r4[KeyWidth + 1 + Len(k) + OffsetWidth + i] = c[i]
  <2>1. /\ r4 \in Seq(Byte) /\ Len(r4) = Len(r3) + Len(c)
        /\ \A i \in 1..Len(r3) : r4[i] = r3[i]
        /\ \A i \in 1..Len(c) : r4[Len(r3) + i] = c[i]
    <3>1. r3 \in Seq(Byte) /\ c \in Seq(Byte)  BY <1>5, <1>10
    <3>2. QED  BY <3>1, Joined
  <2> HIDE DEF r4
  <2>2. QED  BY <1>0, <1>1, <1>5, <1>10, <2>1
<1> HIDE DEF r4
<1>12. \A i \in 1..KeyWidth + 1 + Len(k) : r4[i] = r2[i]
  <2> TAKE i \in 1..KeyWidth + 1 + Len(k)
  <2>1. i \in 1..KeyWidth + 1 + Len(k) + OffsetWidth  BY <1>0, <1>1
  <2>2. QED  BY <1>10, <1>11, <2>1
<1>13. \A i \in 1..KeyWidth + 1 : r4[i] = r1[i]
  <2> TAKE i \in 1..KeyWidth + 1
  <2>1. i \in 1..KeyWidth + 1 + Len(k)  BY <1>0, <1>1
  <2>2. QED  BY <1>9, <1>12, <2>1
<1>14. \A i \in 1..KeyWidth : r4[i] = a[i]
  <2> TAKE i \in 1..KeyWidth
  <2>1. i \in 1..KeyWidth + 1  BY <1>0
  <2>2. QED  BY <1>8, <1>13, <2>1
<1>15. r4[KeyWidth + 1] = 1
  <2>1. KeyWidth + 1 \in 1..KeyWidth + 1  BY <1>0
  <2>2. QED  BY <1>8, <1>13, <2>1
<1>16. \A i \in 1..Len(k) : r4[KeyWidth + 1 + i] = k[i]
  <2> TAKE i \in 1..Len(k)
  <2>1. KeyWidth + 1 + i \in 1..KeyWidth + 1 + Len(k)  BY <1>0, <1>1
  <2>2. QED  BY <1>9, <1>12, <2>1
<1>17. \A i \in 1..OffsetWidth : r4[KeyWidth + 1 + Len(k) + i] = b[i]
  <2> TAKE i \in 1..OffsetWidth
  <2>1. KeyWidth + 1 + Len(k) + i \in 1..KeyWidth + 1 + Len(k) + OffsetWidth  BY <1>0, <1>1
  <2>2. QED  BY <1>10, <1>11, <2>1
<1>18. QED  BY <1>1, <1>2, <1>7, <1>11, <1>14, <1>15, <1>16, <1>17 DEF a, b, c

\* A record is written behind the end of the file.
Appended(g, f, k, place, order) == g = f \o Record(k, place, order)

\* A record behind the end of the file says what it was written for.
LEMMA RecordWritten ==
  ASSUME NEW f \in Seq(Byte), NEW k \in Keys, NEW place \in Places, NEW order, LengthsFit,
         NEW g, Appended(g, f, k, place, order)
  PROVE  /\ g \in Seq(Byte) /\ \A i \in 1..Len(f) : g[i] = f[i]
         /\ Len(g) > Len(f) /\ Len(g) = Len(f) + Len(Record(k, place, order))
         /\ EndOf(g, order, Len(f)) = Len(g)
         /\ KeyAt(g, order, Len(f)) = k
         /\ EntryAt(g, order, Len(f)) = Entry(place, Len(f) + KeyWidth)
         /\ IsLive(g, Len(f))
<1> DEFINE l == Len(f)
           r == Record(k, place, order)
           t == KeyWidth + 1 + Len(k)
<1>0. KeyWidth \in Nat \ {0} /\ OffsetWidth \in Nat \ {0} /\ LengthWidth \in Nat \ {0} /\ l \in Nat
  BY WidthAssumption
<1>1. /\ r \in Seq(Byte) /\ Len(r) = t + OffsetWidth + LengthWidth
      /\ k \in Seq(Byte) /\ Len(k) \in Nat
      /\ place.off \in Nat /\ place.len \in Nat
      /\ \A i \in 1..KeyWidth : r[i] = Digits(Len(k), KeyWidth, order)[i]
      /\ r[KeyWidth + 1] = 1
      /\ \A i \in 1..Len(k) : r[KeyWidth + 1 + i] = k[i]
      /\ \A i \in 1..OffsetWidth : r[t + i] = Digits(place.off, OffsetWidth, order)[i]
      /\ \A i \in 1..LengthWidth :
           r[t + OffsetWidth + i] = Digits(place.len, LengthWidth, order)[i]
  BY RecordHas
<1> HIDE DEF r
<1>2. /\ g \in Seq(Byte) /\ Len(g) = l + Len(r)
      /\ \A i \in 1..l : g[i] = f[i]
      /\ \A i \in 1..Len(r) : g[l + i] = r[i]
  <2>1. g = f \o r  BY DEF r, Appended
  <2>2. /\ f \o r \in Seq(Byte) /\ Len(f \o r) = Len(f) + Len(r)
        /\ \A i \in 1..Len(f) : (f \o r)[i] = f[i]
        /\ \A i \in 1..Len(r) : (f \o r)[Len(f) + i] = r[i]
    <3>1. f \in Seq(Byte) /\ r \in Seq(Byte)  BY <1>1
    <3>2. QED  BY <3>1, Joined
  <2>3. QED  BY <2>1, <2>2
<1> HIDE DEF l, t
<1>t. t = KeyWidth + 1 + Len(k) /\ t \in Nat  BY <1>0, <1>1 DEF t
<1>3. SizeAt(g, order, l) = Len(k)
  <2>1. Fits(Len(k), KeyWidth)  BY DEF LengthsFit
  <2>2. /\ g \in Seq(Byte) /\ l \in Nat /\ Len(k) \in Nat /\ KeyWidth \in Nat
        /\ l + KeyWidth <= Len(g)
    BY <1>0, <1>1, <1>2, <1>t
  <2>3. \A i \in 1..KeyWidth : g[l + i] = Digits(Len(k), KeyWidth, order)[i]
    <3> TAKE i \in 1..KeyWidth
    <3>1. i \in 1..Len(r)  BY <1>0, <1>1, <1>t
    <3>2. QED  BY <1>1, <1>2, <3>1
  <2>4. QED  BY <2>1, <2>2, <2>3, NumberIsRead DEF SizeAt
<1>4. EndOf(g, order, l) = l + KeyWidth + 1 + Len(k) + OffsetWidth + LengthWidth
  BY <1>3 DEF EndOf
<1>5. EndOf(g, order, l) = Len(g) /\ Len(g) > l  BY <1>0, <1>1, <1>2, <1>4, <1>t
<1>6. /\ KeyAt(g, order, l) = Cells(g, l + KeyWidth + 1, Len(k))
      /\ PlaceAt(g, order, l) =
           [off |-> read_n(g, l + KeyWidth + 1 + Len(k), OffsetWidth, order),
            len |-> read_n(g, l + KeyWidth + 1 + Len(k) + OffsetWidth, LengthWidth, order)]
      /\ EntryAt(g, order, l) = Entry(PlaceAt(g, order, l), l + KeyWidth)
  <2>1. g \in Seq(Byte) /\ l \in Nat /\ EndOf(g, order, l) <= Len(g)
    BY <1>0, <1>1, <1>2, <1>5
  <2>2. /\ KeyAt(g, order, l) = Cells(g, l + KeyWidth + 1, SizeAt(g, order, l))
        /\ PlaceAt(g, order, l) =
             [off |-> read_n(g, l + KeyWidth + 1 + SizeAt(g, order, l), OffsetWidth, order),
              len |-> read_n(g, l + KeyWidth + 1 + SizeAt(g, order, l) + OffsetWidth,
                             LengthWidth, order)]
        /\ EntryAt(g, order, l) = Entry(PlaceAt(g, order, l), l + KeyWidth)
    BY <2>1, RecordIs
  <2>3. QED  BY <1>3, <2>2
<1>7. KeyAt(g, order, l) = k
  <2> DEFINE at == l + KeyWidth + 1
  <2>1. at \in Nat /\ at + Len(k) <= Len(g)  BY <1>0, <1>1, <1>2, <1>t
  <2>2. \A i \in 1..Len(k) : g[at + i] = k[i]
    <3> TAKE i \in 1..Len(k)
    <3>1. KeyWidth + 1 + i \in 1..Len(r) /\ at + i = l + (KeyWidth + 1 + i)
      BY <1>0, <1>1, <1>t
    <3>2. QED  BY <1>1, <1>2, <3>1
  <2> HIDE DEF at
  <2>3. Cells(g, at, Len(k)) = k  BY <1>1, <1>2, <2>1, <2>2, CellsAre
  <2>4. QED  BY <1>6, <2>3 DEF at
<1>8. read_n(g, l + KeyWidth + 1 + Len(k), OffsetWidth, order) = place.off
  <2> DEFINE pos == l + KeyWidth + 1 + Len(k)
  <2>1. /\ g \in Seq(Byte) /\ pos \in Nat /\ OffsetWidth \in Nat
        /\ pos + OffsetWidth <= Len(g)
    BY <1>0, <1>1, <1>2, <1>t
  <2>2. \A i \in 1..OffsetWidth : g[pos + i] = Digits(place.off, OffsetWidth, order)[i]
    <3> TAKE i \in 1..OffsetWidth
    <3>1. t + i \in 1..Len(r) /\ pos + i = l + (t + i)  BY <1>0, <1>1, <1>t
    <3>2. QED  BY <1>1, <1>2, <3>1
  <2>3. Fits(place.off, OffsetWidth)  BY PlacesAssumption
  <2> DEFINE num == place.off
  <2>4. num \in Nat /\ Fits(num, OffsetWidth)  BY <1>1, <2>3
  <2>5. \A i \in 1..OffsetWidth : g[pos + i] = Digits(num, OffsetWidth, order)[i]  BY <2>2
  <2> HIDE DEF pos, num
  <2>6. read_n(g, pos, OffsetWidth, order) = num  BY <2>1, <2>4, <2>5, NumberIsRead, ZenonT(30)
  <2>7. QED  BY <2>6 DEF pos, num
<1>9. read_n(g, l + KeyWidth + 1 + Len(k) + OffsetWidth, LengthWidth, order) = place.len
  <2> DEFINE pos == l + KeyWidth + 1 + Len(k) + OffsetWidth
  <2>1. /\ g \in Seq(Byte) /\ pos \in Nat /\ LengthWidth \in Nat
        /\ pos + LengthWidth <= Len(g)
    BY <1>0, <1>1, <1>2, <1>t
  <2>2. \A i \in 1..LengthWidth : g[pos + i] = Digits(place.len, LengthWidth, order)[i]
    <3> TAKE i \in 1..LengthWidth
    <3>1. t + OffsetWidth + i \in 1..Len(r) /\ pos + i = l + (t + OffsetWidth + i)
      BY <1>0, <1>1, <1>t
    <3>2. QED  BY <1>1, <1>2, <3>1
  <2>3. Fits(place.len, LengthWidth)  BY PlacesAssumption
  <2> DEFINE num == place.len
  <2>4. num \in Nat /\ Fits(num, LengthWidth)  BY <1>1, <2>3
  <2>5. \A i \in 1..LengthWidth : g[pos + i] = Digits(num, LengthWidth, order)[i]  BY <2>2
  <2> HIDE DEF pos, num
  <2>6. read_n(g, pos, LengthWidth, order) = num  BY <2>1, <2>4, <2>5, NumberIsRead, ZenonT(30)
  <2>7. QED  BY <2>6 DEF pos, num
<1>10. EntryAt(g, order, l) = Entry(place, l + KeyWidth)
  BY <1>6, <1>8, <1>9 DEF Entry
<1>11. IsLive(g, l)
  <2>1. KeyWidth + 1 \in 1..Len(r) /\ l + KeyWidth + 1 = l + (KeyWidth + 1)
    BY <1>0, <1>1, <1>t
  <2>2. g[l + KeyWidth + 1] = 1  BY <1>1, <1>2, <2>1
  <2>3. QED  BY <2>2 DEF IsLive
<1>12. QED  BY <1>2, <1>5, <1>7, <1>10, <1>11 DEF l, r

\* Bytes are written at a position.
Overwritten(g, f, at, b) == g = Overwrite(f, at, b)

\* A write inside the file changes nothing but what it writes.
LEMMA OverwriteIs ==
  ASSUME NEW f \in Seq(Byte), NEW at \in Nat, NEW b \in Seq(Byte), at + Len(b) <= Len(f),
         NEW g, Overwritten(g, f, at, b)
  PROVE  /\ g \in Seq(Byte) /\ Len(g) = Len(f)
         /\ \A i \in 1..Len(b) : g[at + i] = b[i]
         /\ \A i \in 1..Len(f) : i <= at \/ i > at + Len(b) => g[i] = f[i]
<1>0. Len(f) \in Nat /\ Len(b) \in Nat /\ DOMAIN f = 1..Len(f) /\ DOMAIN b = 1..Len(b)
  OBVIOUS
<1>1. DOMAIN f \cup 1..at + Len(b) = 1..Len(f)  BY <1>0
<1>2. \A i \in 1..Len(f) : g[i] = IF i \in at + 1..at + Len(b) THEN b[i - at]
                                  ELSE IF i \in DOMAIN f THEN f[i] ELSE 0
  BY <1>1 DEF Overwrite, Overwritten
<1>3. g = [i \in 1..Len(f) |-> g[i]]
  <2>1. DOMAIN g = 1..Len(f) /\ g = [i \in DOMAIN g |-> g[i]]  BY <1>1 DEF Overwrite, Overwritten
  <2>2. QED  BY <2>1
<1>4. ASSUME NEW i \in 1..Len(f), i <= at \/ i > at + Len(b)  PROVE g[i] = f[i]
  <2>1. i \notin at + 1..at + Len(b) /\ i \in DOMAIN f  BY <1>0, <1>4
  <2>2. QED  BY <1>2, <2>1
<1>5. ASSUME NEW i \in 1..Len(b)  PROVE g[at + i] = b[i]
  <2>1. at + i \in 1..Len(f) /\ at + i \in at + 1..at + Len(b) /\ at + i - at = i
    BY <1>0
  <2>2. QED  BY <1>2, <2>1
<1>6. ASSUME NEW i \in 1..Len(f)  PROVE g[i] \in Byte
  <2>1. CASE i <= at \/ i > at + Len(b)
    <3>1. f[i] \in Byte  OBVIOUS
    <3>2. QED  BY <1>4, <2>1, <3>1
  <2>2. CASE ~(i <= at \/ i > at + Len(b))
    <3>1. i - at \in 1..Len(b) /\ at + (i - at) = i  BY <1>0, <2>2
    <3>2. b[i - at] \in Byte  BY <3>1
    <3>3. QED  BY <1>5, <3>1, <3>2
  <2>3. QED  BY <2>1, <2>2
<1>7. g \in Seq(Byte) /\ Len(g) = Len(f)  BY <1>0, <1>3, <1>6
<1>8. QED  BY <1>4, <1>5, <1>7

-----------------------------------------------------------------------------
(* What the calls make of a file of whole records.                         *)

\* Bounds and types of a record of such a file.
LEMMA WholeIs ==
  ASSUME NEW f, NEW order, NEW starts, Whole(f, order, starts), NEW p \in starts
  PROVE  /\ f \in Seq(Byte) /\ Len(f) \in Nat
         /\ p \in Nat /\ 1 <= p /\ p < Len(f)
         /\ EndOf(f, order, p) \in Nat /\ EndOf(f, order, p) <= Len(f)
         /\ SizeAt(f, order, p) \in Nat
         /\ KeyAt(f, order, p) \in Keys /\ Len(KeyAt(f, order, p)) = SizeAt(f, order, p)
         /\ EntryAt(f, order, p).at = p + KeyWidth
<1>1. f \in Seq(Byte) /\ starts \subseteq 1..Len(f) - 1 /\ KeyAt(f, order, p) \in Keys
      /\ EndOf(f, order, p) \in starts \cup {Len(f)}
  BY DEF Whole
<1>2. Len(f) \in Nat  BY <1>1
<1> DEFINE l == Len(f)
           e == EndOf(f, order, p)
<1>3. l \in Nat /\ l = Len(f) /\ \A q \in starts : q \in Nat /\ 1 <= q /\ q < l
  BY <1>1, <1>2
<1>4. e \in starts \cup {l}  BY <1>1
<1> HIDE DEF l, e
<1>5. p \in Nat /\ 1 <= p /\ p < l /\ e \in Nat /\ e <= l  BY <1>3, <1>4
<1>6. p \in Nat /\ EndOf(f, order, p) <= Len(f)  BY <1>3, <1>5 DEF e
<1>7. /\ SizeAt(f, order, p) \in Nat
      /\ KeyAt(f, order, p) = Cells(f, p + KeyWidth + 1, SizeAt(f, order, p))
      /\ EntryAt(f, order, p) = Entry(PlaceAt(f, order, p), p + KeyWidth)
  BY <1>1, <1>6, RecordIs
<1>8. p + KeyWidth + 1 \in Nat  BY <1>6, WidthAssumption
<1>9. Len(KeyAt(f, order, p)) = SizeAt(f, order, p)  BY <1>1, <1>7, <1>8, CellsIs
<1>10. EntryAt(f, order, p).at = p + KeyWidth  BY <1>7 DEF Entry
<1>11. QED  BY <1>1, <1>3, <1>5, <1>7, <1>9, <1>10 DEF l, e

\* A write inside one record leaves the others what they are.
LEMMA OthersKept ==
  ASSUME NEW f, NEW order, NEW starts, Whole(f, order, starts), NEW p \in starts,
         NEW g \in Seq(Byte), Len(g) = Len(f),
         \A i \in 1..Len(f) : i <= p \/ i > EndOf(f, order, p) => g[i] = f[i],
         NEW q \in starts, q # p
  PROVE  /\ EndOf(g, order, q) = EndOf(f, order, q)
         /\ KeyAt(g, order, q) = KeyAt(f, order, q)
         /\ EntryAt(g, order, q) = EntryAt(f, order, q)
         /\ IsLive(g, q) = IsLive(f, q)
<1> DEFINE e == EndOf(f, order, p)
           d == EndOf(f, order, q)
           l == Len(f)
<1>1. f \in Seq(Byte) /\ l \in Nat /\ p \in Nat /\ 1 <= p /\ p < l /\ e \in Nat /\ e <= l
  BY WholeIs
<1>2. q \in Nat /\ 1 <= q /\ q < l /\ d \in Nat /\ d <= l  BY WholeIs
<1>3. (p < q => e <= q) /\ (q < p => d <= p)  BY DEF Whole
<1> HIDE DEF e, d
<1>4. \A i \in q + 1..d : i \in 1..l /\ (i <= p \/ i > e)
  <2> HIDE DEF l
  <2>1. QED  BY <1>1, <1>2, <1>3
<1>5. \A i \in q + 1..d : g[i] = f[i]  BY <1>4 DEF e
<1>6. Len(g) >= Len(f) /\ EndOf(f, order, q) <= Len(f)  BY <1>1, <1>2 DEF d
<1>7. QED  BY <1>1, <1>2, <1>5, <1>6, RecordKept DEF d

\* If it also leaves the record its key, and does not revive it, the file
\* still consists of those records.
LEMMA WholeKept ==
  ASSUME NEW f, NEW order, NEW starts, Whole(f, order, starts), NEW p \in starts,
         NEW g \in Seq(Byte), Len(g) = Len(f),
         \A i \in 1..Len(f) : i <= p \/ i > EndOf(f, order, p) => g[i] = f[i],
         EndOf(g, order, p) = EndOf(f, order, p), KeyAt(g, order, p) = KeyAt(f, order, p),
         IsLive(g, p) => IsLive(f, p)
  PROVE  Whole(g, order, starts)
<1>1. \A q \in starts : /\ EndOf(g, order, q) = EndOf(f, order, q)
                        /\ KeyAt(g, order, q) = KeyAt(f, order, q)
                        /\ IsLive(g, q) => IsLive(f, q)
  BY OthersKept
<1>2. starts \subseteq 1..Len(g) - 1 /\ (Len(g) = 1 \/ 1 \in starts)  BY DEF Whole
<1>3. \A q \in starts : EndOf(g, order, q) \in starts \cup {Len(g)}  BY <1>1 DEF Whole
<1>4. \A q, r \in starts : q < r => EndOf(g, order, q) <= r  BY <1>1 DEF Whole
<1>5. \A q \in starts : KeyAt(g, order, q) \in Keys  BY <1>1 DEF Whole
<1>6. \A q, r \in starts :
        IsLive(g, q) /\ IsLive(g, r) /\ KeyAt(g, order, q) = KeyAt(g, order, r) => q = r
  BY <1>1 DEF Whole
<1>7. QED  BY <1>2, <1>3, <1>4, <1>5, <1>6 DEF Whole

\* Insert adds a record at the old end of the file.
LEMMA InsertKeeps ==
  ASSUME NEW f, NEW order, NEW starts, NEW x, Len(f) >= 1, LengthsFit,
         Whole(f, order, starts), Describes(f, order, starts, x),
         NEW k \in Keys, k \notin DOMAIN x, NEW place \in Places,
         NEW g, Appended(g, f, k, place, order)
  PROVE  /\ Whole(g, order, starts \cup {Len(f)})
         /\ Describes(g, order, starts \cup {Len(f)},
                      Put(x, k, Entry(place, Len(f) + KeyWidth)))
<1> DEFINE l == Len(f)
           m == Len(g)
           more == starts \cup {l}
           y == Put(x, k, Entry(place, l + KeyWidth))
<1>0. f \in Seq(Byte) /\ l \in Nat /\ l >= 1
  <2>1. f \in Seq(Byte)  BY DEF Whole
  <2>2. QED  BY <2>1
<1>1. /\ g \in Seq(Byte) /\ (\A i \in 1..l : g[i] = f[i])
      /\ m > l
      /\ EndOf(g, order, l) = m /\ KeyAt(g, order, l) = k
      /\ EntryAt(g, order, l) = Entry(place, l + KeyWidth)
      /\ IsLive(g, l)
  <2>1. f \in Seq(Byte)  BY <1>0
  <2> HIDE DEF l, m
  <2>2. /\ g \in Seq(Byte) /\ \A i \in 1..Len(f) : g[i] = f[i]
        /\ Len(g) > Len(f) /\ Len(g) = Len(f) + Len(Record(k, place, order))
        /\ EndOf(g, order, Len(f)) = Len(g)
        /\ KeyAt(g, order, Len(f)) = k
        /\ EntryAt(g, order, Len(f)) = Entry(place, Len(f) + KeyWidth)
        /\ IsLive(g, Len(f))
    BY <2>1, RecordWritten
  <2>3. QED  BY <2>2 DEF l, m
<1>2. m \in Nat /\ m > l /\ m = Len(g)  BY <1>1
<1>3. ASSUME NEW p \in starts
      PROVE  /\ p \in Nat /\ 1 <= p /\ p < l
             /\ EndOf(g, order, p) = EndOf(f, order, p)
             /\ EndOf(f, order, p) \in Nat /\ EndOf(f, order, p) <= l
             /\ KeyAt(g, order, p) = KeyAt(f, order, p)
             /\ EntryAt(g, order, p) = EntryAt(f, order, p)
             /\ IsLive(g, p) = IsLive(f, p)
  <2> DEFINE e == EndOf(f, order, p)
  <2>1. p \in Nat /\ 1 <= p /\ p < l /\ e \in Nat /\ e <= l  BY WholeIs
  <2> HIDE DEF e
  <2>2. \A i \in p + 1..e : i \in 1..l
    <3> HIDE DEF l, m
    <3>1. QED  BY <1>0, <2>1
  <2>3. \A i \in p + 1..e : g[i] = f[i]  BY <1>1, <2>2
  <2>4. /\ f \in Seq(Byte) /\ g \in Seq(Byte) /\ p \in Nat
        /\ Len(g) >= Len(f) /\ EndOf(f, order, p) <= Len(f)
    BY <1>0, <1>1, <1>2, <2>1 DEF e
  <2>5. \A i \in p + 1..EndOf(f, order, p) : g[i] = f[i]  BY <2>3 DEF e
  <2>6. /\ EndOf(g, order, p) = EndOf(f, order, p)
        /\ KeyAt(g, order, p) = KeyAt(f, order, p)
        /\ EntryAt(g, order, p) = EntryAt(f, order, p)
        /\ IsLive(g, p) = IsLive(f, p)
    BY <2>4, <2>5, RecordKept
  <2>7. QED  BY <2>1, <2>6 DEF e
<1>4. l \notin starts  BY <1>3
<1>5. ASSUME NEW p \in starts, IsLive(f, p)  PROVE KeyAt(f, order, p) # k
  BY <1>5 DEF Describes
<1> HIDE DEF l, m
<1>6. Whole(g, order, more)
  <2>1. more \subseteq 1..m - 1
    <3>1. \A p \in starts : p \in 1..m - 1  BY <1>0, <1>2, <1>3
    <3>2. l \in 1..m - 1  BY <1>0, <1>2
    <3>3. QED  BY <3>1, <3>2
  <2>2. 1 \in more
    <3>1. l = 1 \/ 1 \in starts  BY DEF Whole, l
    <3>2. QED  BY <3>1
  <2>3. \A p \in more : EndOf(g, order, p) \in more \cup {m}
    <3>1. \A p \in starts : EndOf(f, order, p) \in starts \cup {l}  BY DEF Whole, l
    <3>2. QED  BY <1>1, <1>3, <3>1
  <2>4. ASSUME NEW p \in more, NEW q \in more, p < q  PROVE EndOf(g, order, p) <= q
    <3>1. p \in starts
      <4>1. ASSUME p = l  PROVE FALSE  BY <1>0, <1>3, <2>4, <4>1
      <4>2. QED  BY <4>1
    <3>2. CASE q = l  BY <1>3, <3>1, <3>2
    <3>3. CASE q # l
      <4>1. q \in starts  BY <3>3
      <4>2. EndOf(f, order, p) <= q  BY <2>4, <3>1, <4>1 DEF Whole
      <4>3. QED  BY <1>3, <3>1, <4>2
    <3>4. QED  BY <3>2, <3>3
  <2>5. \A p \in more : KeyAt(g, order, p) \in Keys
    <3>1. \A p \in starts : KeyAt(f, order, p) \in Keys  BY DEF Whole
    <3>2. QED  BY <1>1, <1>3, <3>1
  <2>6. ASSUME NEW p \in more, NEW q \in more, IsLive(g, p), IsLive(g, q),
               KeyAt(g, order, p) = KeyAt(g, order, q)
        PROVE  p = q
    <3>1. CASE p = l /\ q = l  BY <3>1
    <3>2. CASE p = l /\ q # l
      <4>1. q \in starts  BY <3>2
      <4>2. IsLive(f, q) /\ KeyAt(f, order, q) = k  BY <1>1, <1>3, <2>6, <3>2, <4>1
      <4>3. QED  BY <1>5, <4>1, <4>2
    <3>3. CASE p # l /\ q = l
      <4>1. p \in starts  BY <3>3
      <4>2. IsLive(f, p) /\ KeyAt(f, order, p) = k  BY <1>1, <1>3, <2>6, <3>3, <4>1
      <4>3. QED  BY <1>5, <4>1, <4>2
    <3>4. CASE p # l /\ q # l
      <4>1. p \in starts /\ q \in starts  BY <3>4
      <4>2. IsLive(f, p) /\ IsLive(f, q) /\ KeyAt(f, order, p) = KeyAt(f, order, q)
        BY <1>3, <2>6, <4>1
      <4>3. QED  BY <4>1, <4>2 DEF Whole
    <3>5. QED  BY <3>1, <3>2, <3>3, <3>4
  <2> HIDE DEF more
  <2>7. QED  BY <1>1, <2>1, <2>2, <2>3, <2>4, <2>5, <2>6 DEF Whole, m
<1>7. Describes(g, order, more, y)
  <2>1. DOMAIN y = DOMAIN x \cup {k} /\ y[k] = Entry(place, l + KeyWidth)
        /\ (\A z \in DOMAIN x : z # k => y[z] = x[z])
        /\ y = [z \in DOMAIN y |-> y[z]]
    BY DEF Put
  <2> HIDE DEF y
  <2>2. ASSUME NEW p \in more, IsLive(g, p)
        PROVE  KeyAt(g, order, p) \in DOMAIN y
               /\ y[KeyAt(g, order, p)] = EntryAt(g, order, p)
    <3>1. CASE p = l  BY <1>1, <2>1, <3>1
    <3>2. CASE p # l
      <4>1. p \in starts /\ IsLive(f, p)  BY <1>3, <2>2, <3>2
      <4>2. KeyAt(f, order, p) \in DOMAIN x /\ x[KeyAt(f, order, p)] = EntryAt(f, order, p)
            /\ KeyAt(f, order, p) # k
        BY <1>5, <4>1 DEF Describes
      <4>3. QED  BY <1>3, <2>1, <4>1, <4>2
    <3>3. QED  BY <3>1, <3>2
  <2>3. ASSUME NEW z \in DOMAIN y
        PROVE  \E p \in more : IsLive(g, p) /\ z = KeyAt(g, order, p)
    <3>1. CASE z = k  BY <1>1, <3>1
    <3>2. CASE z # k
      <4>1. z \in DOMAIN x  BY <2>1, <3>2
      <4>2. PICK p \in starts : IsLive(f, p) /\ z = KeyAt(f, order, p)  BY <4>1 DEF Describes
      <4>3. QED  BY <1>3, <4>2
    <3>3. QED  BY <3>1, <3>2
  <2>4. QED  BY <2>1, <2>2, <2>3 DEF Describes
<1>8. QED  BY <1>6, <1>7 DEF l

\* The record an index entry was made from.
LEMMA EntryHasRecord ==
  ASSUME NEW f, NEW order, NEW starts, NEW x,
         Whole(f, order, starts), Describes(f, order, starts, x), NEW k \in DOMAIN x
  PROVE  \E p \in starts : /\ IsLive(f, p) /\ k = KeyAt(f, order, p) /\ k \in Keys
                           /\ x[k].at = p + KeyWidth
                           /\ Len(k) = SizeAt(f, order, p)
<1>1. PICK p \in starts : IsLive(f, p) /\ k = KeyAt(f, order, p)  BY DEF Describes
<1>2. x[k] = EntryAt(f, order, p)  BY <1>1 DEF Describes
<1>3. KeyAt(f, order, p) \in Keys /\ Len(KeyAt(f, order, p)) = SizeAt(f, order, p)
      /\ EntryAt(f, order, p).at = p + KeyWidth
  BY WholeIs
<1>4. QED  BY <1>1, <1>2, <1>3

\* Update changes the place in the record of its key.
LEMMA UpdateKeeps ==
  ASSUME NEW f, NEW order, NEW starts, NEW x,
         Whole(f, order, starts), Describes(f, order, starts, x),
         NEW k \in DOMAIN x, NEW place \in Places,
         NEW g, Overwritten(g, f, x[k].at + Len(k) + 1,
                            Digits(place.off, OffsetWidth, order)
                              \o Digits(place.len, LengthWidth, order))
  PROVE  /\ Len(g) = Len(f) /\ Whole(g, order, starts)
         /\ Describes(g, order, starts, Put(x, k, Entry(place, x[k].at)))
<1>1. PICK p \in starts : /\ IsLive(f, p) /\ k = KeyAt(f, order, p) /\ k \in Keys
                          /\ x[k].at = p + KeyWidth /\ Len(k) = SizeAt(f, order, p)
  BY EntryHasRecord
<1> DEFINE l == Len(f)
           e == EndOf(f, order, p)
           size == SizeAt(f, order, p)
           at == x[k].at + Len(k) + 1
           b == Digits(place.off, OffsetWidth, order)
           c == Digits(place.len, LengthWidth, order)
           w == b \o c
           n1 == place.off
           n2 == place.len
<1>2. KeyWidth \in Nat /\ OffsetWidth \in Nat /\ LengthWidth \in Nat  BY WidthAssumption
<1>3. /\ f \in Seq(Byte) /\ l \in Nat /\ p \in Nat /\ 1 <= p /\ p < l
      /\ e \in Nat /\ e <= l /\ size \in Nat
  BY WholeIs
<1>4. at = p + KeyWidth + 1 + size
  <2> HIDE DEF size
  <2>1. x[k].at = p + KeyWidth /\ Len(k) = size  BY <1>1 DEF size
  <2>2. QED  BY <1>2, <1>3, <2>1
<1>5. e = at + OffsetWidth + LengthWidth  BY <1>4 DEF EndOf
<1>6. n1 \in Nat /\ Fits(n1, OffsetWidth) /\ n2 \in Nat /\ Fits(n2, LengthWidth)
  BY PlacesAssumption
<1>7. b \in Seq(Byte) /\ Len(b) = OffsetWidth  BY <1>2, <1>6, DigitsIs
<1>8. c \in Seq(Byte) /\ Len(c) = LengthWidth  BY <1>2, <1>6, DigitsIs
<1> HIDE DEF b, c
<1>9. /\ w \in Seq(Byte) /\ Len(w) = Len(b) + Len(c)
      /\ \A i \in 1..Len(b) : w[i] = b[i]
      /\ \A i \in 1..Len(c) : w[Len(b) + i] = c[i]
  <2>1. b \in Seq(Byte) /\ c \in Seq(Byte)  BY <1>7, <1>8
  <2>2. QED  BY <2>1, Joined
<1> HIDE DEF w
<1>10. Len(w) = OffsetWidth + LengthWidth  BY <1>7, <1>8, <1>9
<1>11. at \in Nat /\ at + Len(w) = e /\ at > p /\ at >= p + KeyWidth + 1 + size
       /\ at + OffsetWidth + LengthWidth = e
  <2> HIDE DEF size, at, e
  <2>1. QED  BY <1>2, <1>3, <1>4, <1>5, <1>10
<1>12. Overwritten(g, f, at, w)  BY DEF w, b, c
<1> HIDE DEF at, e, size, n1, n2
<1>13. /\ g \in Seq(Byte) /\ Len(g) = Len(f)
       /\ \A i \in 1..Len(w) : g[at + i] = w[i]
       /\ \A i \in 1..Len(f) : i <= at \/ i > at + Len(w) => g[i] = f[i]
  <2>1. f \in Seq(Byte) /\ w \in Seq(Byte) /\ at \in Nat /\ at + Len(w) <= Len(f)
    BY <1>3, <1>9, <1>11
  <2>2. QED  BY <1>12, <2>1, OverwriteIs
<1>14. \A i \in 1..l : i <= at \/ i > e => g[i] = f[i]  BY <1>11, <1>13
<1>15. \A i \in 1..Len(f) : i <= p \/ i > EndOf(f, order, p) => g[i] = f[i]
  <2> TAKE i \in 1..l
  <2>1. i <= p \/ i > e => i <= at \/ i > e  BY <1>3, <1>11
  <2>2. QED  BY <1>14, <2>1 DEF e
<1>16. /\ SizeAt(g, order, p) = size /\ EndOf(g, order, p) = EndOf(f, order, p)
       /\ EndOf(g, order, p) <= Len(g) /\ KeyAt(g, order, p) = KeyAt(f, order, p)
  <2>1. \A i \in p + 1..p + KeyWidth : g[i] = f[i]
    <3> TAKE i \in p + 1..p + KeyWidth
    <3>1. i \in 1..l /\ i <= at
      <4> HIDE DEF l
      <4>1. QED  BY <1>2, <1>3, <1>11
    <3>2. QED  BY <1>14, <3>1
  <2>2. \A i \in p + KeyWidth + 2..p + KeyWidth + 1 + SizeAt(f, order, p) : g[i] = f[i]
    <3> TAKE i \in p + KeyWidth + 2..p + KeyWidth + 1 + SizeAt(f, order, p)
    <3>0. i \in p + KeyWidth + 2..p + KeyWidth + 1 + size  BY DEF size
    <3>1. i \in 1..l /\ i <= at
      <4> HIDE DEF l
      <4>1. QED  BY <1>2, <1>3, <1>11, <3>0
    <3>2. QED  BY <1>14, <3>1
  <2>3. /\ f \in Seq(Byte) /\ g \in Seq(Byte) /\ p \in Nat
        /\ Len(g) >= Len(f) /\ EndOf(f, order, p) <= Len(f)
    BY <1>3, <1>13 DEF e
  <2>4. QED  BY <2>1, <2>2, <2>3, KeyKept DEF size
<1>17. IsLive(g, p)
  <2>1. p + KeyWidth + 1 \in 1..l /\ p + KeyWidth + 1 <= at
    <3> HIDE DEF l
    <3>1. QED  BY <1>2, <1>3, <1>11
  <2>2. g[p + KeyWidth + 1] = f[p + KeyWidth + 1]  BY <1>14, <2>1
  <2>3. QED  BY <1>1, <2>2 DEF IsLive
<1>18. EntryAt(g, order, p) = Entry(place, x[k].at)
  <2>1. g \in Seq(Byte) /\ p \in Nat /\ EndOf(g, order, p) <= Len(g)
    BY <1>3, <1>13, <1>16
  <2>2. /\ PlaceAt(g, order, p) =
             [off |-> read_n(g, p + KeyWidth + 1 + SizeAt(g, order, p), OffsetWidth, order),
              len |-> read_n(g, p + KeyWidth + 1 + SizeAt(g, order, p) + OffsetWidth,
                             LengthWidth, order)]
        /\ EntryAt(g, order, p) = Entry(PlaceAt(g, order, p), p + KeyWidth)
    BY <2>1, RecordIs
  <2>3. PlaceAt(g, order, p) = [off |-> read_n(g, at, OffsetWidth, order),
                                len |-> read_n(g, at + OffsetWidth, LengthWidth, order)]
    BY <1>4, <1>16, <2>2
  <2>4. read_n(g, at, OffsetWidth, order) = n1
    <3>1. \A i \in 1..OffsetWidth : g[at + i] = b[i]
      <4> TAKE i \in 1..OffsetWidth
      <4>1. i \in 1..Len(w)  BY <1>2, <1>10
      <4>2. i \in 1..Len(b)  BY <1>7
      <4>3. QED  BY <1>9, <1>13, <4>1, <4>2
    <3>2. \A i \in 1..OffsetWidth : g[at + i] = Digits(n1, OffsetWidth, order)[i]
      BY <3>1 DEF b, n1
    <3>3. at + OffsetWidth <= Len(g)  BY <1>2, <1>3, <1>11, <1>13
    <3>4. QED  BY <1>2, <1>6, <1>11, <2>1, <3>2, <3>3, NumberIsRead, ZenonT(30)
  <2>5. read_n(g, at + OffsetWidth, LengthWidth, order) = n2
    <3> DEFINE s == at + OffsetWidth
    <3>1. \A i \in 1..LengthWidth : g[s + i] = c[i]
      <4> TAKE i \in 1..LengthWidth
      <4>1. OffsetWidth + i \in 1..Len(w) /\ s + i = at + (OffsetWidth + i)
        BY <1>2, <1>10, <1>11
      <4>2. i \in 1..Len(c)  BY <1>8
      <4>3. w[OffsetWidth + i] = c[i]  BY <1>7, <1>9, <4>2
      <4>4. QED  BY <1>13, <4>1, <4>3
    <3>2. \A i \in 1..LengthWidth : g[s + i] = Digits(n2, LengthWidth, order)[i]
      BY <3>1 DEF c, n2
    <3>3. s \in Nat /\ s + LengthWidth <= Len(g)  BY <1>2, <1>3, <1>11, <1>13
    <3> HIDE DEF s
    <3>4. read_n(g, s, LengthWidth, order) = n2
      BY <1>2, <1>6, <2>1, <3>2, <3>3, NumberIsRead, ZenonT(30)
    <3>5. QED  BY <3>4 DEF s
  <2>6. Entry(PlaceAt(g, order, p), p + KeyWidth) = Entry(place, p + KeyWidth)
    BY <2>3, <2>4, <2>5 DEF Entry, n1, n2
  <2>7. QED  BY <1>1, <2>2, <2>6
<1>19. Whole(g, order, starts)
  BY <1>1, <1>13, <1>15, <1>16, WholeKept
<1>20. Describes(g, order, starts, Put(x, k, Entry(place, x[k].at)))
  <2> DEFINE y == Put(x, k, Entry(place, x[k].at))
  <2>1. DOMAIN y = DOMAIN x /\ y[k] = Entry(place, x[k].at)
        /\ (\A z \in DOMAIN x : z # k => y[z] = x[z])
        /\ y = [z \in DOMAIN y |-> y[z]]
    BY DEF Put
  <2> HIDE DEF y
  <2>2. ASSUME NEW q \in starts, q # p
        PROVE  /\ KeyAt(g, order, q) = KeyAt(f, order, q)
               /\ EntryAt(g, order, q) = EntryAt(f, order, q)
               /\ IsLive(g, q) = IsLive(f, q)
    BY <1>13, <1>15, <2>2, OthersKept
  <2>3. ASSUME NEW q \in starts, IsLive(g, q)
        PROVE  KeyAt(g, order, q) \in DOMAIN y
               /\ y[KeyAt(g, order, q)] = EntryAt(g, order, q)
    <3>1. CASE q = p  BY <1>1, <1>16, <1>18, <2>1, <3>1
    <3>2. CASE q # p
      <4>1. IsLive(f, q)  BY <2>2, <2>3, <3>2
      <4>2. KeyAt(f, order, q) # k  BY <1>1, <3>2, <4>1 DEF Whole
      <4>3. KeyAt(f, order, q) \in DOMAIN x
            /\ x[KeyAt(f, order, q)] = EntryAt(f, order, q)
        BY <4>1 DEF Describes
      <4>4. QED  BY <2>1, <2>2, <3>2, <4>2, <4>3
    <3>3. QED  BY <3>1, <3>2
  <2>4. ASSUME NEW z \in DOMAIN y
        PROVE  \E q \in starts : IsLive(g, q) /\ z = KeyAt(g, order, q)
    <3>1. PICK q \in starts : IsLive(f, q) /\ z = KeyAt(f, order, q)
      BY <2>1, <2>4 DEF Describes
    <3>2. IsLive(g, q) /\ z = KeyAt(g, order, q)  BY <1>16, <1>17, <2>2, <3>1
    <3>3. QED  BY <3>2
  <2>5. Describes(g, order, starts, y)  BY <2>1, <2>3, <2>4 DEF Describes
  <2>6. QED  BY <2>5 DEF y
<1>21. QED  BY <1>13, <1>19, <1>20

\* Erase makes the record of its key an erased one.
LEMMA EraseKeeps ==
  ASSUME NEW f, NEW order, NEW starts, NEW x,
         Whole(f, order, starts), Describes(f, order, starts, x), NEW k \in DOMAIN x,
         NEW g, Overwritten(g, f, x[k].at, << 0 >>)
  PROVE  /\ Len(g) = Len(f) /\ Whole(g, order, starts)
         /\ Describes(g, order, starts, [z \in DOMAIN x \ {k} |-> x[z]])
<1>1. PICK p \in starts : /\ IsLive(f, p) /\ k = KeyAt(f, order, p) /\ k \in Keys
                          /\ x[k].at = p + KeyWidth /\ Len(k) = SizeAt(f, order, p)
  BY EntryHasRecord
<1> DEFINE l == Len(f)
           e == EndOf(f, order, p)
           size == SizeAt(f, order, p)
           at == x[k].at
           w == <<0>>
<1>2. KeyWidth \in Nat /\ OffsetWidth \in Nat /\ LengthWidth \in Nat  BY WidthAssumption
<1>3. /\ f \in Seq(Byte) /\ l \in Nat /\ p \in Nat /\ 1 <= p /\ p < l
      /\ e \in Nat /\ e <= l /\ size \in Nat
  BY WholeIs
<1>4. at = p + KeyWidth  BY <1>1
<1>5. e = p + KeyWidth + 1 + size + OffsetWidth + LengthWidth  BY DEF EndOf
<1>6. w \in Seq(Byte) /\ Len(w) = 1 /\ w[1] = 0
  <2>1. 0 \in Byte  BY WidthAssumption DEF Byte
  <2>2. QED  BY <2>1
<1> HIDE DEF w
<1>7. at \in Nat /\ at + 1 <= e /\ at >= p /\ at + 1 = p + KeyWidth + 1
  <2> HIDE DEF size, at, e
  <2>1. QED  BY <1>2, <1>3, <1>4, <1>5
<1>8. Overwritten(g, f, at, w)  BY DEF w
<1> HIDE DEF at, e, size
<1>9. /\ g \in Seq(Byte) /\ Len(g) = Len(f)
      /\ \A i \in 1..Len(w) : g[at + i] = w[i]
      /\ \A i \in 1..Len(f) : i <= at \/ i > at + Len(w) => g[i] = f[i]
  <2>1. f \in Seq(Byte) /\ w \in Seq(Byte) /\ at \in Nat /\ at + Len(w) <= Len(f)
    BY <1>3, <1>6, <1>7
  <2>2. QED  BY <1>8, <2>1, OverwriteIs
<1>10. \A i \in 1..l : i <= at \/ i > at + 1 => g[i] = f[i]  BY <1>6, <1>9
<1>11. \A i \in 1..Len(f) : i <= p \/ i > EndOf(f, order, p) => g[i] = f[i]
  <2> TAKE i \in 1..l
  <2>1. i <= p \/ i > e => i <= at \/ i > at + 1  BY <1>3, <1>7
  <2>2. QED  BY <1>10, <2>1 DEF e
<1>12. /\ EndOf(g, order, p) = EndOf(f, order, p) /\ KeyAt(g, order, p) = KeyAt(f, order, p)
  <2>1. \A i \in p + 1..p + KeyWidth : g[i] = f[i]
    <3> TAKE i \in p + 1..p + KeyWidth
    <3>1. i \in 1..l /\ i <= at
      <4> HIDE DEF l
      <4>1. QED  BY <1>2, <1>3, <1>4, <1>7
    <3>2. QED  BY <1>10, <3>1
  <2>2. \A i \in p + KeyWidth + 2..p + KeyWidth + 1 + SizeAt(f, order, p) : g[i] = f[i]
    <3> TAKE i \in p + KeyWidth + 2..p + KeyWidth + 1 + SizeAt(f, order, p)
    <3>0. i \in p + KeyWidth + 2..p + KeyWidth + 1 + size  BY DEF size
    <3>1. i \in 1..l /\ i > at + 1
      <4> HIDE DEF l
      <4>1. QED  BY <1>2, <1>3, <1>5, <1>7, <3>0
    <3>2. QED  BY <1>10, <3>1
  <2>3. /\ f \in Seq(Byte) /\ g \in Seq(Byte) /\ p \in Nat
        /\ Len(g) >= Len(f) /\ EndOf(f, order, p) <= Len(f)
    BY <1>3, <1>9 DEF e
  <2>4. QED  BY <2>1, <2>2, <2>3, KeyKept
<1>13. ~IsLive(g, p)
  <2>1. 1 \in 1..Len(w)  BY <1>6
  <2>2. g[at + 1] = 0  BY <1>6, <1>9, <2>1
  <2>3. QED  BY <1>7, <2>2 DEF IsLive
<1>14. Whole(g, order, starts)
  BY <1>9, <1>11, <1>12, <1>13, WholeKept
<1>15. Describes(g, order, starts, [z \in DOMAIN x \ {k} |-> x[z]])
  <2> DEFINE y == [z \in DOMAIN x \ {k} |-> x[z]]
  <2>1. DOMAIN y = DOMAIN x \ {k} /\ (\A z \in DOMAIN y : y[z] = x[z])
        /\ y = [z \in DOMAIN y |-> y[z]]
    OBVIOUS
  <2> HIDE DEF y
  <2>2. ASSUME NEW q \in starts, q # p
        PROVE  /\ KeyAt(g, order, q) = KeyAt(f, order, q)
               /\ EntryAt(g, order, q) = EntryAt(f, order, q)
               /\ IsLive(g, q) = IsLive(f, q)
    BY <1>9, <1>11, <2>2, OthersKept
  <2>3. ASSUME NEW q \in starts, IsLive(g, q)
        PROVE  KeyAt(g, order, q) \in DOMAIN y
               /\ y[KeyAt(g, order, q)] = EntryAt(g, order, q)
    <3>1. q # p  BY <1>13, <2>3
    <3>2. IsLive(f, q)  BY <2>2, <2>3, <3>1
    <3>3. KeyAt(f, order, q) # k  BY <1>1, <3>1, <3>2 DEF Whole
    <3>4. KeyAt(f, order, q) \in DOMAIN x
          /\ x[KeyAt(f, order, q)] = EntryAt(f, order, q)
      BY <3>2 DEF Describes
    <3>5. QED  BY <2>1, <2>2, <3>1, <3>3, <3>4
  <2>4. ASSUME NEW z \in DOMAIN y
        PROVE  \E q \in starts : IsLive(g, q) /\ z = KeyAt(g, order, q)
    <3>1. z \in DOMAIN x /\ z # k  BY <2>1, <2>4
    <3>2. PICK q \in starts : IsLive(f, q) /\ z = KeyAt(f, order, q)
      BY <3>1 DEF Describes
    <3>3. q # p  BY <1>1, <3>1, <3>2
    <3>4. IsLive(g, q) /\ z = KeyAt(g, order, q)  BY <2>2, <3>2, <3>3
    <3>5. QED  BY <3>4
  <2>5. QED  BY <2>1, <2>3, <2>4 DEF Describes
<1>16. QED  BY <1>9, <1>14, <1>15

-----------------------------------------------------------------------------
(* The invariant.                                                          *)

\* What the theorems assume: one byte order, complete writes, lengths that fit.
Steady == ~Travels /\ ~Short /\ LengthsFit

\* The first byte is the order of the machine, the rest are whole records, and
\* they describe the index while the database is open; closed, it is empty.
FInv ==
  /\ machine \in {0, 1} /\ opened \in BOOLEAN
  /\ file \in Seq(Byte) /\ Len(file) <= MaxFile
  /\ ~opened => index = NoKeys
  /\ file = <<>> => ~opened
  /\ file # <<>> =>
       /\ file[1] = machine
       /\ \E starts : /\ Whole(file, machine, starts)
                      /\ opened => Describes(file, machine, starts, index)

\* Whoever loads the file finds the same, and what is in memory if it is open.
LEMMA FileSays ==
  ASSUME FInv, file # <<>>
  PROVE  /\ \A a, b : Loaded(file, file[1], a) = Loaded(file, file[1], b)
         /\ opened => \A a : Loaded(file, file[1], a) = index
<1>1. PICK starts : /\ Whole(file, machine, starts)
                    /\ opened => Describes(file, machine, starts, index)
  BY DEF FInv
<1>2. Len(file) >= 1 /\ file[1] = machine  BY DEF FInv
<1>3. \A a : Describes(file, machine, starts, Loaded(file, machine, a))
  BY <1>1, <1>2, LoadedIs
<1>4. \A a, b : Loaded(file, machine, a) = Loaded(file, machine, b)  BY <1>3, DescribesOne
<1>5. opened => \A a : Loaded(file, machine, a) = index  BY <1>1, <1>3, DescribesOne
<1>6. QED  BY <1>2, <1>4, <1>5

\* Opening loads what the records say.
LEMMA OpenKeeps ==
  ASSUME FInv, Open
  PROVE  FInv'
<1>1. ~opened /\ opened' = TRUE /\ machine' = machine /\ machine \in {0, 1}  BY DEF Open, FInv
<1>2. CASE file = <<>>
  <2>1. file' = <<machine>> /\ index' = NoKeys  BY <1>1, <1>2 DEF Open, FInv
  <2>2. machine \in Byte /\ MaxFile \in Nat \ {0}  BY <1>1, WidthAssumption DEF Byte
  <2>3. file' \in Seq(Byte) /\ Len(file') = 1 /\ file'[1] = machine' /\ Len(file') <= MaxFile
    BY <1>1, <2>1, <2>2
  <2>4. file' # <<>>  BY <2>3
  <2>5. Whole(file', machine', {})  BY <2>3 DEF Whole
  <2>6. Describes(file', machine', {}, index')  BY <2>1 DEF Describes, NoKeys
  <2>7. QED  BY <1>1, <2>3, <2>4, <2>5, <2>6 DEF FInv
<1>3. CASE file # <<>>
  <2>1. PICK memory \in Byte : index' = Loaded(file, file[1], memory)  BY <1>3 DEF Open
  <2>2. file \in Seq(Byte) /\ file[1] = machine /\ Len(file) >= 1  BY <1>3 DEF FInv
  <2>3. file' = file
    <3>1. file' = [file EXCEPT ![1] = machine]  BY <1>3 DEF Open
    <3>2. QED  BY <2>2, <3>1
  <2>4. PICK starts : Whole(file, machine, starts)  BY <1>3 DEF FInv
  <2>5. Describes(file, machine, starts, index')  BY <2>1, <2>2, <2>4, LoadedIs
  <2>6. QED  BY <1>1, <1>3, <2>2, <2>3, <2>4, <2>5 DEF FInv
<1>4. QED  BY <1>2, <1>3

\* Closing forgets the index and leaves the file.
LEMMA CloseKeeps ==
  ASSUME FInv, Steady, Close
  PROVE  FInv' /\ UNCHANGED <<machine, file>>
<1>1. opened' = FALSE /\ index' = NoKeys /\ machine' = machine /\ file' = file
  BY DEF Close, Steady
<1>2. QED  BY <1>1 DEF FInv

\* The calls that write keep the invariant, and are about keys of Keys.
LEMMA InsertWrites ==
  ASSUME FInv, Steady, NEW k \in Keys \cup DOMAIN index, NEW p \in Places, Insert(k, p)
  PROVE  k \in Keys /\ FInv'
<1>1. /\ opened /\ k \notin DOMAIN index /\ file # <<>> /\ file[1] = machine
      /\ machine' = machine /\ opened' = opened /\ machine \in {0, 1}
      /\ index' = Put(index, k, Entry(p, Len(file) + KeyWidth))
  BY DEF Insert, FInv
<1>2. k \in Keys  BY <1>1
<1>3. file \in Seq(Byte) /\ Len(file) \in Nat /\ Len(file) >= 1  BY <1>1 DEF FInv
<1> DEFINE r == Record(k, p, machine)
<1>4. r \in Seq(Byte)  BY <1>2, RecordHas
<1>5. file' = file \o SubSeq(r, 1, Len(r)) /\ Len(file) + Len(r) <= MaxFile
  BY DEF Insert, Steady
<1> HIDE DEF r
<1>6. SubSeq(r, 1, Len(r)) = r  BY <1>4
<1>7. Appended(file', file, k, p, machine)  BY <1>5, <1>6 DEF Appended, r
<1>8. PICK starts : Whole(file, machine, starts) /\ Describes(file, machine, starts, index)
  BY <1>1 DEF FInv
<1>9. LengthsFit  BY DEF Steady
<1>10. /\ file' \in Seq(Byte) /\ (\A i \in 1..Len(file) : file'[i] = file[i])
       /\ Len(file') = Len(file) + Len(r)
  BY <1>2, <1>3, <1>7, <1>9, RecordWritten DEF r
<1>11. /\ Whole(file', machine, starts \cup {Len(file)})
       /\ Describes(file', machine, starts \cup {Len(file)}, index')
  BY <1>1, <1>2, <1>3, <1>7, <1>8, <1>9, InsertKeeps
<1>12. Len(r) \in Nat  BY <1>4
<1>13. file' # <<>> /\ file'[1] = machine /\ Len(file') <= MaxFile
  BY <1>1, <1>3, <1>5, <1>10, <1>12
<1>14. QED  BY <1>1, <1>2, <1>10, <1>11, <1>13 DEF FInv

\* The same of an update.
LEMMA UpdateWrites ==
  ASSUME FInv, NEW k \in Keys \cup DOMAIN index, NEW p \in Places, Update(k, p)
  PROVE  k \in Keys /\ FInv'
<1>1. /\ opened /\ k \in DOMAIN index /\ file # <<>> /\ file[1] = machine
      /\ machine' = machine /\ opened' = opened /\ machine \in {0, 1}
      /\ index' = Put(index, k, Entry(p, index[k].at)) /\ Len(file') <= MaxFile
  BY DEF Update, FInv
<1>2. PICK starts : Whole(file, machine, starts) /\ Describes(file, machine, starts, index)
  BY <1>1 DEF FInv
<1> DEFINE at == index[k].at + Len(k) + 1
           w == Digits(p.off, OffsetWidth, machine) \o Digits(p.len, LengthWidth, machine)
<1>3. Overwritten(file', file, at, w)  BY DEF Update, Overwritten
<1>4. /\ Len(file') = Len(file) /\ Whole(file', machine, starts)
      /\ Describes(file', machine, starts, Put(index, k, Entry(p, index[k].at)))
  BY <1>1, <1>2, <1>3, UpdateKeeps
<1>5. PICK q \in starts : k \in Keys /\ index[k].at = q + KeyWidth
  BY <1>1, <1>2, EntryHasRecord
<1>6. file' \in Seq(Byte) /\ file'[1] = file[1]
  <2>1. q \in Nat /\ 1 <= q  BY <1>2, WholeIs
  <2>2. k \in Seq(Byte)  BY <1>5, KeysAssumption DEF Byte
  <2>3. Len(k) \in Nat  BY <2>2
  <2>4. at >= 1 /\ at \in Nat  BY <1>5, <2>1, <2>3, WidthAssumption
  <2>5. file \in Seq(Byte) /\ file' \in Seq(Byte) /\ 1 \in 1..Len(file)
    <3>1. file \in Seq(Byte) /\ file' \in Seq(Byte)  BY <1>2, <1>4 DEF Whole
    <3>2. QED  BY <1>1, <3>1
  <2> HIDE DEF at, w
  <2>6. DOMAIN file = 1..Len(file)  BY <2>5
  <2>7. file'[1] = IF 1 \in at + 1..at + Len(w) THEN w[1 - at]
                   ELSE IF 1 \in DOMAIN file THEN file[1] ELSE 0
    BY <1>3, <2>5, <2>6 DEF Overwrite, Overwritten
  <2>8. 1 \notin at + 1..at + Len(w)  BY <2>4
  <2>9. QED  BY <2>5, <2>6, <2>7, <2>8
<1>7. file' # <<>>  BY <1>1, <1>4, <1>6 DEF FInv
<1>8. QED  BY <1>1, <1>4, <1>5, <1>6, <1>7 DEF FInv

\* The same of an erase.
LEMMA EraseWrites ==
  ASSUME FInv, NEW k \in Keys \cup DOMAIN index, Erase(k)
  PROVE  k \in Keys /\ FInv'
<1>1. /\ opened /\ k \in DOMAIN index /\ file # <<>> /\ file[1] = machine
      /\ machine' = machine /\ opened' = opened /\ machine \in {0, 1}
      /\ index' = [x \in DOMAIN index \ {k} |-> index[x]] /\ Len(file') <= MaxFile
  BY DEF Erase, FInv
<1>2. PICK starts : Whole(file, machine, starts) /\ Describes(file, machine, starts, index)
  BY <1>1 DEF FInv
<1> DEFINE at == index[k].at
           w == <<0>>
<1>3. Overwritten(file', file, at, w)  BY DEF Erase, Overwritten
<1>4. /\ Len(file') = Len(file) /\ Whole(file', machine, starts)
      /\ Describes(file', machine, starts, [x \in DOMAIN index \ {k} |-> index[x]])
  BY <1>1, <1>2, <1>3, EraseKeeps
<1>5. PICK q \in starts : k \in Keys /\ index[k].at = q + KeyWidth
  BY <1>1, <1>2, EntryHasRecord
<1>6. file' \in Seq(Byte) /\ file'[1] = file[1]
  <2>1. q \in Nat /\ 1 <= q  BY <1>2, WholeIs
  <2>2. at >= 1 /\ at \in Nat  BY <1>5, <2>1, WidthAssumption
  <2>3. file \in Seq(Byte) /\ file' \in Seq(Byte) /\ 1 \in 1..Len(file)
    <3>1. file \in Seq(Byte) /\ file' \in Seq(Byte)  BY <1>2, <1>4 DEF Whole
    <3>2. QED  BY <1>1, <3>1
  <2> HIDE DEF at, w
  <2>4. DOMAIN file = 1..Len(file)  BY <2>3
  <2>5. file'[1] = IF 1 \in at + 1..at + Len(w) THEN w[1 - at]
                   ELSE IF 1 \in DOMAIN file THEN file[1] ELSE 0
    BY <1>3, <2>3, <2>4 DEF Overwrite, Overwritten
  <2>6. 1 \notin at + 1..at + Len(w)  BY <2>2
  <2>7. QED  BY <2>3, <2>4, <2>5, <2>6
<1>7. file' # <<>>  BY <1>1, <1>4, <1>6 DEF FInv
<1>8. QED  BY <1>1, <1>4, <1>5, <1>6, <1>7 DEF FInv

\* Every step keeps the invariant.
LEMMA StepKeeps ==
  ASSUME FInv, Steady, [Next]_vars
  PROVE  FInv'
<1>1. CASE Open  BY <1>1, OpenKeeps
<1>2. CASE Close  BY <1>2, CloseKeeps
<1>3. ASSUME NEW k \in Keys \cup DOMAIN index, NEW p \in Places, Insert(k, p)
      PROVE  FInv'
  BY <1>3, InsertWrites
<1>4. ASSUME NEW k \in Keys \cup DOMAIN index, NEW p \in Places, Update(k, p)
      PROVE  FInv'
  BY <1>4, UpdateWrites
<1>5. ASSUME NEW k \in Keys \cup DOMAIN index, Erase(k)
      PROVE  FInv'
  BY <1>5, EraseWrites
<1>6. CASE UNCHANGED vars  BY <1>6 DEF FInv, vars
<1>7. QED  BY <1>1, <1>2, <1>3, <1>4, <1>5, <1>6 DEF Next

\* It holds of a database that was never opened.
LEMMA InitIs == Init => FInv
<1> SUFFICES ASSUME Init PROVE FInv  OBVIOUS
<1>1. file = <<>> /\ index = NoKeys /\ opened = FALSE /\ machine \in {0, 1}  BY DEF Init
<1>2. <<>> \in Seq(Byte) /\ Len(<<>>) = 0 /\ 0 <= MaxFile  BY WidthAssumption
<1>3. QED  BY <1>1, <1>2 DEF FInv

\* On machines of one order, with complete writes and keys whose lengths fit, .idx
\* always consists of whole records that say what the open database has in
\* memory (lib/io_manager.cpp:161 to 292).
THEOREM FileInvariant ==
  ASSUME Steady
  PROVE  Spec => []FInv
<1>1. Init => FInv  BY InitIs
<1>2. FInv /\ [Next]_vars => FInv'  BY StepKeeps
<1>3. QED  BY <1>1, <1>2, PTL DEF Spec

\* Under the same assumptions the file is bytes behind the order of a machine, and
\* the positions in the index are positions in the file.
THEOREM IndexFileIsTyped ==
  ASSUME Steady
  PROVE  Spec => []ITypeOK
<1>1. ASSUME FInv  PROVE ITypeOK
  <2>1. /\ machine \in {0, 1} /\ opened \in BOOLEAN
        /\ file \in Seq(Byte) /\ Len(file) <= MaxFile
        /\ file # <<>> => file[1] \in {0, 1}
    BY <1>1 DEF FInv
  <2>2. ASSUME NEW k \in DOMAIN index  PROVE index[k].at \in 1..Len(file) - 1
    <3>1. opened /\ file # <<>>
      <4>1. index # NoKeys  BY <2>2 DEF NoKeys
      <4>2. QED  BY <1>1, <4>1 DEF FInv
    <3>2. PICK starts : Whole(file, machine, starts) /\ Describes(file, machine, starts, index)
      BY <1>1, <3>1 DEF FInv
    <3>3. PICK p \in starts : index[k].at = p + KeyWidth  BY <3>2, EntryHasRecord
    <3> DEFINE l == Len(file)
               e == EndOf(file, machine, p)
               size == SizeAt(file, machine, p)
    <3>4. l \in Nat /\ p \in Nat /\ 1 <= p /\ e \in Nat /\ e <= l /\ size \in Nat
      BY <3>2, WholeIs
    <3>5. e = p + KeyWidth + 1 + size + OffsetWidth + LengthWidth  BY DEF EndOf
    <3> HIDE DEF l, e, size
    <3>6. p + KeyWidth \in 1..l - 1  BY <3>4, <3>5, WidthAssumption
    <3>7. QED  BY <3>3, <3>6 DEF l
  <2>3. QED  BY <2>1, <2>2 DEF ITypeOK
<1>2. Spec => []FInv  BY FileInvariant
<1>3. QED  BY <1>1, <1>2, PTL

\* Under the same assumptions whoever reads the file of an open database finds the
\* index that is in memory, whatever was inserted, updated and erased before
\* (load_index, lib/io_manager.cpp:161).
THEOREM FileAlwaysSpells ==
  ASSUME Steady
  PROVE  Spec => []FileSpellsIndex
<1>1. ASSUME FInv  PROVE FileSpellsIndex
  <2> SUFFICES ASSUME opened, NEW memory \in Byte
               PROVE  Loaded(file, file[1], memory) = index
    BY DEF FileSpellsIndex
  <2>1. file # <<>>  BY <1>1 DEF FInv
  <2>2. QED  BY <1>1, <2>1, FileSays
<1>2. Spec => []FInv  BY FileInvariant
<1>3. QED  BY <1>1, <1>2, PTL

\* What the database holds, with the positions of the records.
Entries ==
  IF opened THEN index
  ELSE IF file = <<>> THEN NoKeys ELSE Loaded(file, file[1], 0)

\* The places without the positions.
PlacesOf(x) == [k \in DOMAIN x |-> [off |-> x[k].off, len |-> x[k].len]]

\* To put an entry and to put its place.
LEMMA PlacesOfPut ==
  ASSUME NEW x, NEW k, NEW p \in Places, NEW at
  PROVE  PlacesOf(Put(x, k, Entry(p, at))) = Put(PlacesOf(x), k, p)
<1> DEFINE y == Put(x, k, Entry(p, at))
<1>1. p = [off |-> p.off, len |-> p.len]  BY PlacesAssumption
<1>2. Entry(p, at).off = p.off /\ Entry(p, at).len = p.len  BY DEF Entry
<1>3. DOMAIN y = DOMAIN x \cup {k} /\ y[k] = Entry(p, at)
      /\ \A z \in DOMAIN x : z # k => y[z] = x[z]
  BY DEF Put
<1> HIDE DEF y
<1>4. \A z \in DOMAIN y : [off |-> y[z].off, len |-> y[z].len]
                            = IF z = k THEN p ELSE PlacesOf(x)[z]
  <2> TAKE z \in DOMAIN y
  <2>1. CASE z = k  BY <1>1, <1>2, <1>3, <2>1
  <2>2. CASE z # k
    <3>1. z \in DOMAIN x /\ y[z] = x[z]  BY <1>3, <2>2
    <3>2. QED  BY <2>2, <3>1 DEF PlacesOf
  <2>3. QED  BY <2>1, <2>2
<1>5. DOMAIN PlacesOf(x) \cup {k} = DOMAIN y  BY <1>3 DEF PlacesOf
<1>6. PlacesOf(y) = [z \in DOMAIN y |-> IF z = k THEN p ELSE PlacesOf(x)[z]]
  BY <1>4 DEF PlacesOf
<1>7. PlacesOf(y) = Put(PlacesOf(x), k, p)  BY <1>5, <1>6 DEF Put
<1>8. QED  BY <1>7 DEF y

\* To take away an entry and to take away its place.
LEMMA PlacesOfRest ==
  ASSUME NEW x, NEW k
  PROVE  PlacesOf([z \in DOMAIN x \ {k} |-> x[z]])
           = [z \in DOMAIN PlacesOf(x) \ {k} |-> PlacesOf(x)[z]]
BY DEF PlacesOf

\* Under the same assumptions only calls change what the database holds, each its
\* own key: nothing is lost, gained or changed by closing and opening
\* (load_index, lib/io_manager.cpp:161).
THEOREM HoldsWhatCallsSay ==
  ASSUME Steady
  PROVE  Spec => HeldByCalls
<1> DEFINE Step == \/ Held' = Held
                   \/ \E k \in Keys, p \in Places :
                        (Insert(k, p) \/ Update(k, p)) /\ Held' = Put(Held, k, p)
                   \/ \E k \in Keys :
                        Erase(k) /\ Held' = [x \in DOMAIN Held \ {k} |-> Held[x]]
<1>1. ASSUME FInv, [Next]_vars  PROVE [Step]_vars
  <2>0. Held = PlacesOf(Entries) /\ Held' = PlacesOf(Entries')
    BY DEF Held, Entries, PlacesOf
  <2>1. CASE Open
    <3>1. ~opened /\ opened' /\ Entries' = index'  BY <2>1 DEF Open, Entries
    <3>2. ASSUME file = <<>>  PROVE Entries' = Entries
      <4>1. index' = index /\ index = NoKeys  BY <1>1, <2>1, <3>1, <3>2 DEF Open, FInv
      <4>2. Entries = NoKeys  BY <3>1, <3>2 DEF Entries
      <4>3. QED  BY <3>1, <4>1, <4>2
    <3>3. ASSUME file # <<>>  PROVE Entries' = Entries
      <4>1. Entries = Loaded(file, file[1], 0)  BY <3>1, <3>3 DEF Entries
      <4>2. \E memory \in Byte : index' = Loaded(file, file[1], memory)  BY <2>1, <3>3 DEF Open
      <4>3. index' = Loaded(file, file[1], 0)  BY <1>1, <3>3, <4>2, FileSays
      <4>4. QED  BY <3>1, <4>1, <4>3
    <3>4. Entries' = Entries  BY <3>2, <3>3
    <3>5. QED  BY <2>0, <3>4
  <2>2. CASE Close
    <3>1. opened /\ ~opened' /\ file' = file  BY <2>2 DEF Close
    <3>2. file # <<>>  BY <1>1, <3>1 DEF FInv
    <3>3. Entries = index /\ Entries' = Loaded(file, file[1], 0)  BY <3>1, <3>2 DEF Entries
    <3>4. Loaded(file, file[1], 0) = index  BY <1>1, <3>1, <3>2, FileSays
    <3>5. Entries' = Entries  BY <3>3, <3>4
    <3>6. QED  BY <2>0, <3>5
  <2>3. ASSUME NEW k \in Keys \cup DOMAIN index, NEW p \in Places, Insert(k, p)
        PROVE  Step
    <3>1. k \in Keys  BY <1>1, <2>3, InsertWrites
    <3>2. Entries = index /\ Entries' = Put(index, k, Entry(p, Len(file) + KeyWidth))
      BY <2>3 DEF Insert, Entries
    <3>3. Held' = Put(Held, k, p)  BY <2>0, <3>2, PlacesOfPut
    <3>4. QED  BY <2>3, <3>1, <3>3
  <2>4. ASSUME NEW k \in Keys \cup DOMAIN index, NEW p \in Places, Update(k, p)
        PROVE  Step
    <3>1. k \in Keys  BY <1>1, <2>4, UpdateWrites
    <3>2. Entries = index /\ Entries' = Put(index, k, Entry(p, index[k].at))
      BY <2>4 DEF Update, Entries
    <3>3. Held' = Put(Held, k, p)  BY <2>0, <3>2, PlacesOfPut
    <3>4. QED  BY <2>4, <3>1, <3>3
  <2>5. ASSUME NEW k \in Keys \cup DOMAIN index, Erase(k)
        PROVE  Step
    <3>1. k \in Keys  BY <1>1, <2>5, EraseWrites
    <3>2. Entries = index /\ Entries' = [x \in DOMAIN index \ {k} |-> index[x]]
      BY <2>5 DEF Erase, Entries
    <3>3. Held' = [x \in DOMAIN Held \ {k} |-> Held[x]]
      <4>1. Held = PlacesOf(index)
            /\ Held' = PlacesOf([x \in DOMAIN index \ {k} |-> index[x]])
        BY <2>0, <3>2
      <4>2. PlacesOf([x \in DOMAIN index \ {k} |-> index[x]])
              = [x \in DOMAIN PlacesOf(index) \ {k} |-> PlacesOf(index)[x]]
        BY PlacesOfRest
      <4>3. QED  BY <4>1, <4>2
    <3>4. QED  BY <2>5, <3>1, <3>3
  <2> HIDE DEF Step
  <2>6. QED  BY <1>1, <2>1, <2>2, <2>3, <2>4, <2>5 DEF Next
<1>2. Spec => []FInv  BY FileInvariant
<1>3. QED  BY <1>1, <1>2, PTL DEF Spec, HeldByCalls
=============================================================================
