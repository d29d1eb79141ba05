------------------------------ MODULE IndexFile ------------------------------
(***************************************************************************)
(* The .idx file of a database, byte by byte: what Storage takes for a     *)
(* sequence of records.  A record has no mark where it begins; the reader  *)
(* finds it behind the one before, by the length of that one's key.        *)
(*                                                                         *)
(*   header   1 byte: the order of the machine that opened the file last   *)
(*   record   the length of the key, a byte that is 0 in an erased record, *)
(*            the key, the offset and the length of the value              *)
(*                                                                         *)
(* The file is closed, opened again, on a machine of the same or the other *)
(* byte order, and the process may die between two writes.  Positions      *)
(* count the bytes before them, as lseek does.                             *)
(***************************************************************************)
EXTENDS Integers, Sequences, SequencesExt

CONSTANTS
  Base,         \* the number of values of a byte: 256 in the code
  KeyWidth,     \* the bytes of the length of a key: 2 in the code
  OffsetWidth,  \* the bytes of an offset: 8 in the code
  LengthWidth,  \* the bytes of a length: 4 in the code
  Keys,         \* keys: sequences of bytes
  Places,       \* offsets and lengths of values
  Travels,      \* may the files move to a machine of the other order?
  Short,        \* may a write stop before its last byte?
  MaxFile       \* bound: the number of bytes in the file

ASSUME WidthAssumption ==
  /\ Base \in Nat \ {0, 1} /\ MaxFile \in Nat \ {0}
  /\ KeyWidth \in Nat \ {0} /\ OffsetWidth \in Nat \ {0} /\ LengthWidth \in Nat \ {0}
ASSUME KeysAssumption == Keys \subseteq Seq(0..Base - 1)
ASSUME FailuresAssumption == Travels \in BOOLEAN /\ Short \in BOOLEAN

VARIABLES
  file,     \* the bytes of .idx
  index,    \* of every key, its place and where its valid byte is
  machine,  \* the byte order of the machine: 1 for little endian, 0 for big
  opened    \* is the database open?

vars == <<file, index, machine, opened>>

Byte == 0..Base - 1
NoKeys == [k \in {} |-> 0]

-----------------------------------------------------------------------------
(* Numbers.                                                                *)

\* n, and what is left of it as its bytes are taken away, the lowest first.
Shifted(n, width) ==
  LET over[i \in 0..width] == IF i = 0 THEN n ELSE over[i - 1] \div Base
  IN  over

Fits(n, width) == Shifted(n, width)[width] = 0

ASSUME PlacesAssumption ==
  \A p \in Places : /\ p.off \in Nat /\ Fits(p.off, OffsetWidth)
                    /\ p.len \in Nat /\ Fits(p.len, LengthWidth)
                    /\ p = [off |-> p.off, len |-> p.len]

\* A number as the machine has it in memory, cut to its width.
\* A mutant: the lower digits are not cut off each other.
DigitsUncut(n, width, order) ==
  LET little == [i \in 1..width |-> Shifted(n, width)[i - 1]]
  IN  IF order = 1 THEN little ELSE Reverse(little)

Digits(n, width, order) ==
  LET little == [i \in 1..width |-> Shifted(n, width)[i - 1] % Base]
  IN  IF order = 1 THEN little ELSE Reverse(little)

\* read: the bytes that are there, and zeros for those that are not.
Cells(bytes, at, width) ==
  [i \in 1..width |-> IF at + i <= Len(bytes) THEN bytes[at + i] ELSE 0]

\* A file of the other order is reversed in memory, which is to read it in its
\* own order.
Number(cells, order) ==
  LET little == IF order = 1 THEN cells ELSE Reverse(cells)
      over[i \in 0..Len(cells)] ==
        IF i = Len(cells) THEN 0 ELSE little[i + 1] + Base * over[i + 1]
  IN  over[0]

read_n(bytes, at, width, order) == Number(Cells(bytes, at, width), order)

-----------------------------------------------------------------------------
(* Records.                                                                *)

Record(k, p, order) ==
  Digits(Len(k), KeyWidth, order) \o <<1>> \o k
    \o Digits(p.off, OffsetWidth, order) \o Digits(p.len, LengthWidth, order)

Entry(p, at) == [off |-> p.off, len |-> p.len, at |-> at]

Put(f, x, y) == [z \in DOMAIN f \cup {x} |-> IF z = x THEN y ELSE f[z]]

\* load_index.  No read and no seek but the last leaves a position behind the
\* end of the file; the valid byte of a record that ends before it is whatever
\* was in memory.  emplace keeps the first record of a key.
Loaded(bytes, order, memory) ==
  LET Within(p) == IF p < Len(bytes) THEN p ELSE Len(bytes)
      load[p \in 0..Len(bytes)] ==
        LET size  == read_n(bytes, p, KeyWidth, order)
            at    == Within(p + KeyWidth)
            valid == IF at < Len(bytes) THEN bytes[at + 1] ELSE memory
            tail  == Within(at + 1 + size)
            place == [off |-> read_n(bytes, tail, OffsetWidth, order),
                      len |-> read_n(bytes, Within(tail + OffsetWidth), LengthWidth, order)]
            rest  == load[Within(tail + OffsetWidth + LengthWidth)]
        IN  IF p = Len(bytes) THEN NoKeys
            ELSE IF valid = 0 THEN rest
            ELSE Put(rest, Cells(bytes, Within(at + 1), size), Entry(place, at))
  IN  load[Within(1)]

-----------------------------------------------------------------------------
(* The calls.                                                              *)

\* pwrite: behind the end of the file it is preceded by zeros.
Overwrite(bytes, at, with) ==
  [i \in DOMAIN bytes \cup 1..at + Len(with) |->
    IF i \in at + 1..at + Len(with) THEN with[i - at]
    ELSE IF i \in DOMAIN bytes THEN bytes[i] ELSE 0]

\* handle_endian writes the header of this machine over that of the last; the
\* records are read in the old order and left in it.  An empty file has no
\* header to read.
Open ==
  /\ ~opened
  /\ opened' = TRUE
  /\ \/ file = <<>> /\ file' = <<machine>> /\ UNCHANGED index
     \/ /\ file # <<>>
        /\ \E memory \in Byte : index' = Loaded(file, file[1], memory)
        /\ file' = [file EXCEPT ![1] = machine]
  /\ UNCHANGED machine

\* close, and the end of a process between two calls.
Close ==
  /\ opened
  /\ opened' = FALSE
  /\ index' = NoKeys
  /\ machine' \in IF Travels THEN {0, 1} ELSE {machine}
  /\ UNCHANGED file

\* The position it remembers is behind the length of the key.
Insert(k, p) ==
  /\ opened /\ k \notin DOMAIN index
  /\ LET rec == Record(k, p, machine)
     IN  /\ Len(file) + Len(rec) <= MaxFile
         /\ \E n \in IF Short THEN 0..Len(rec) ELSE {Len(rec)} :
              file' = file \o SubSeq(rec, 1, n)
  /\ index' = Put(index, k, Entry(p, Len(file) + KeyWidth))
  /\ UNCHANGED <<machine, opened>>

\* The place is behind the valid byte and the key.
\* A mutant: behind the key, were there no valid byte.
UpdateOneBefore(k, p) ==
  /\ opened /\ k \in DOMAIN index
  /\ file' = Overwrite(file, index[k].at + Len(k),
                 Digits(p.off, OffsetWidth, machine) \o Digits(p.len, LengthWidth, machine))
  /\ index' = Put(index, k, Entry(p, index[k].at))
  /\ UNCHANGED <<machine, opened>>

Update(k, p) ==
  /\ opened /\ k \in DOMAIN index
  /\ file' = Overwrite(file, index[k].at + Len(k) + 1,
                 Digits(p.off, OffsetWidth, machine) \o Digits(p.len, LengthWidth, machine))
  /\ Len(file') <= MaxFile
  /\ index' = Put(index, k, Entry(p, index[k].at))
  /\ UNCHANGED <<machine, opened>>

\* A mutant: the record stays valid.
EraseFromMemory(k) ==
  /\ opened /\ k \in DOMAIN index
  /\ index' = [x \in DOMAIN index \ {k} |-> index[x]]
  /\ UNCHANGED <<file, machine, opened>>

Erase(k) ==
  /\ opened /\ k \in DOMAIN index
  /\ index' = [x \in DOMAIN index \ {k} |-> index[x]]
  /\ file' = Overwrite(file, index[k].at, <<0>>)
  /\ Len(file') <= MaxFile
  /\ UNCHANGED <<machine, opened>>

Init ==
  /\ file = <<>> /\ index = NoKeys /\ opened = FALSE
  /\ machine \in {0, 1}

Next ==
  \/ Open \/ Close
  \/ \E k \in Keys \cup DOMAIN index :
       \/ \E p \in Places : Insert(k, p) \/ Update(k, p)
       \/ Erase(k)

Spec == Init /\ [][Next]_vars

-----------------------------------------------------------------------------
(* Properties.                                                             *)

\* The file is a sequence of bytes that begins with the order of a machine, and
\* the index points to positions in it.
ITypeOK ==
  /\ file \in Seq(Byte) /\ Len(file) <= MaxFile
  /\ machine \in {0, 1} /\ opened \in BOOLEAN
  /\ file # <<>> => file[1] \in {0, 1}
  /\ \A k \in DOMAIN index : index[k].at \in 1..Len(file) - 1

\* While the database is open, whoever reads the file finds the index that is
\* in memory: every key with its place and the position of its record, and
\* nothing else, whatever records were written, rewritten and erased before
\* (load_index, lib/io_manager.cpp:161).
FileSpellsIndex ==
  opened => \A memory \in Byte : Loaded(file, file[1], memory) = index

\* What the database holds: the index in memory or, while it is closed, what
\* the file says.
Held ==
  LET entries == IF opened THEN index
                 ELSE IF file = <<>> THEN NoKeys ELSE Loaded(file, file[1], 0)
  IN  [k \in DOMAIN entries |-> [off |-> entries[k].off, len |-> entries[k].len]]

\* Only calls change what the database holds, each that of its own key: it
\* comes back from the file as it was, on machines of either byte order (of one,
\* unless Travels), after a close or the end of the process (load_index,
\* lib/io_manager.cpp:161).
HeldByCalls ==
  [][\/ Held' = Held
     \/ \E k \in Keys, p \in Places :
          (Insert(k, p) \/ Update(k, p)) /\ Held' = Put(Held, k, p)
     \/ \E k \in Keys :
          Erase(k) /\ Held' = [x \in DOMAIN Held \ {k} |-> Held[x]]]_vars
=============================================================================
