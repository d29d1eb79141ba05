---------------------------- MODULE StorageProofs ----------------------------
(***************************************************************************)
(* Proofs about Storage and StorageCrash, for every set of keys, bytes and *)
(* values: first what the calls of Storage do to the files, the memory and *)
(* the map they implement; then that the files share no space at any       *)
(* moment of a set or an update, so that a process may die there.          *)
(***************************************************************************)
EXTENDS StorageCrash, SequenceTheorems, TLAPS

(***************************************************************************)
(* Type correctness.  Each lemma gives the type of what one helper returns. *)
(***************************************************************************)

\* PWrite returns a sequence of bytes.
LEMMA PWriteType ==
  ASSUME NEW f \in Seq(Byte), NEW b \in Seq(Byte), NEW o \in Nat
  PROVE  PWrite(f, b, o) \in Seq(Byte)
<1> DEFINE end == IF b = <<>> \/ o + Len(b) <= Len(f) THEN Len(f)
                  ELSE o + Len(b)
<1>1. end \in Nat  BY LenProperties
<1>2. ASSUME NEW i \in 1..end
      PROVE  (IF o < i /\ i <= o + Len(b) THEN b[i - o]
              ELSE IF i <= Len(f) THEN f[i] ELSE Zero) \in Byte
  BY <1>1, LenProperties, ElementOfSeq, ByteAssumption
<1>3. QED  BY <1>1, <1>2 DEF PWrite

\* ReadDat returns a sequence of bytes.
LEMMA ReadDatType ==
  ASSUME NEW f \in Seq(Byte), NEW o \in Nat, NEW n \in Nat
  PROVE  ReadDat(f, o, n) \in Seq(Byte)
BY ByteAssumption, LenProperties, ElementOfSeq DEF ReadDat

\* LoadDat returns a sequence of bytes.
LEMMA LoadDatType ==
  ASSUME NEW f \in Seq(Byte), NEW p \in Nat, NEW c \in Seq(Byte)
  PROVE  LoadDat(f, p, c) \in Seq(Byte)
BY ByteAssumption, LenProperties, ElementOfSeq DEF LoadDat

\* Writing to the cache leaves a sequence of bytes.
LEMMA WriteAtType ==
  ASSUME NEW c \in Seq(Byte), NEW o \in Nat, NEW b \in Seq(Byte)
  PROVE  WriteAt(c, o, b) \in Seq(Byte)
BY LenProperties, ElementOfSeq DEF WriteAt

\* LoadIndex returns an index.
LEMMA LoadIndexType ==
  ASSUME NEW f \in Seq(Records)
  PROVE  /\ DOMAIN LoadIndex(f) \subseteq Keys
         /\ LoadIndex(f) \in [DOMAIN LoadIndex(f) -> Entries]
<1>1. \A i \in FirstRecs(f) : i \in 1..Len(f) /\ f[i] \in Records
  BY ElementOfSeq DEF FirstRecs, ValidRecs
<1>2. DOMAIN LoadIndex(f) = {f[i].key : i \in FirstRecs(f)}
  BY DEF LoadIndex
<1>3. DOMAIN LoadIndex(f) \subseteq Keys
  BY <1>1, <1>2 DEF Records
<1>4. ASSUME NEW k \in DOMAIN LoadIndex(f)
      PROVE  LoadIndex(f)[k] \in Entries
  <2> DEFINE r == CHOOSE i \in FirstRecs(f) : f[i].key = k
  <2>1. r \in FirstRecs(f)  BY <1>2
  <2>2. LoadIndex(f)[k] = Entry(f[r].off, f[r].len, r)
    BY <1>2 DEF LoadIndex
  <2> HIDE DEF r
  <2>3. r \in Nat \ {0} /\ f[r].off \in Nat /\ f[r].len \in Nat
    BY <2>1, <1>1, LenProperties DEF Records
  <2>4. QED  BY <2>2, <2>3 DEF Entry, Entries
<1>5. QED  BY <1>3, <1>4 DEF LoadIndex

\* LoadFree returns free extents.
LEMMA LoadFreeType ==
  ASSUME NEW f \in Seq(Slots)
  PROVE  LoadFree(f) \in SUBSET Free
<1>1. ASSUME NEW s \in UsedSlots(f)
      PROVE  [off |-> f[s].off, len |-> f[s].len, slot |-> s] \in Free
  <2>1. s \in 1..Len(f) /\ f[s] \in Slots
    BY ElementOfSeq DEF UsedSlots
  <2>2. QED  BY <2>1, LenProperties DEF Slots, Free
<1>2. QED  BY <1>1 DEF LoadFree

\* Clearing a slot leaves a sequence of slots.
LEMMA ZeroSlotType ==
  ASSUME NEW f \in Seq(Slots), NEW s \in Nat
  PROVE  ZeroSlot(f, s) \in Seq(Slots)
<1> DEFINE end == IF s <= Len(f) THEN Len(f) ELSE s
<1>1. Slot(0, 0) \in Slots  BY DEF Slot, Slots
<1>2. end \in Nat  BY LenProperties
<1>3. ASSUME NEW i \in 1..end
      PROVE  (IF i = s \/ i > Len(f) THEN Slot(0, 0) ELSE f[i]) \in Slots
  BY <1>1, <1>2, LenProperties, ElementOfSeq
<1>4. QED  BY <1>2, <1>3 DEF ZeroSlot

\* Clearing a slot of the file changes that slot alone.
LEMMA ZeroSlotInFile ==
  ASSUME NEW f \in Seq(Slots), NEW s \in 1..Len(f)
  PROVE  /\ ZeroSlot(f, s) \in Seq(Slots) /\ Len(ZeroSlot(f, s)) = Len(f)
         /\ \A i \in 1..Len(f) :
              ZeroSlot(f, s)[i] = IF i = s THEN Slot(0, 0) ELSE f[i]
<1>1. Len(f) \in Nat /\ s \in Nat /\ s <= Len(f)  BY LenProperties
<1>2. ZeroSlot(f, s)
        = [i \in 1..Len(f) |-> IF i = s \/ i > Len(f) THEN Slot(0, 0) ELSE f[i]]
  BY <1>1 DEF ZeroSlot
<1>3. ZeroSlot(f, s) \in Seq(Slots)  BY <1>1, ZeroSlotType
<1>4. QED  BY <1>1, <1>2, <1>3

\* What an allocation returns.
Places ==
  [at : Nat \cup {NPos}, list : SUBSET Free, file : Seq(Slots)]

\* An allocation returns an offset or none, a free list and a .free file.
LEMMA AllocationsType ==
  ASSUME freeList \in SUBSET Free, freeFile \in Seq(Slots), NEW n \in Nat
  PROVE  Allocations(n) \subseteq Places
<1>1. CASE Fits(n) = {}
  BY <1>1 DEF Allocations, Places
<1>2. CASE Fits(n) # {}
  <2> SUFFICES ASSUME NEW e \in BestFits(n)
               PROVE  ManageFree(e, n) \in Places
    BY <1>2 DEF Allocations
  <2>1. e \in freeList /\ e.len > n  BY DEF BestFits, Fits
  <2>2. e.off \in Nat /\ e.len \in Nat /\ e.slot \in Nat \ {0}
    BY <2>1 DEF Free
  <2>3. Rest(e, n) \in Free
    BY <2>1, <2>2, LenProperties DEF Rest, Free
  <2>4. ZeroSlot(freeFile, e.slot) \in Seq(Slots)
    BY <2>2, ZeroSlotType
  <2>5. AppendSlot(ZeroSlot(freeFile, e.slot), Rest(e, n).off, Rest(e, n).len)
          \in Seq(Slots)
    BY <2>3, <2>4, AppendProperties DEF AppendSlot, Slot, Slots, Free
  <2>6. QED  BY <2>2, <2>3, <2>4, <2>5 DEF ManageFree, Keep, Places
<1>3. QED  BY <1>1, <1>2

\* Type correctness of the initial states.
LEMMA InitType == Init => TypeOK
<1> SUFFICES ASSUME Init PROVE TypeOK  OBVIOUS
<1>1. cached \in BOOLEAN  BY ModesAssumption DEF Init
<1>2. DOMAIN index \subseteq Keys /\ index \in [DOMAIN index -> Entries]
  BY DEF Init, NoKeys
<1>3. ret \in [status : Statuses, value : Seq(Byte)]
  BY EmptySeq DEF Init, Reply, Statuses
<1>4. QED  BY <1>1, <1>2, <1>3, EmptySeq DEF Init, TypeOK

\* Marking a record leaves a sequence of records.
LEMMA InvalidateType ==
  ASSUME NEW f \in Seq(Records), NEW r \in Nat
  PROVE  Invalidate(f, r) \in Seq(Records)
<1>1. ASSUME NEW i \in 1..Len(f)
      PROVE  [f[i] EXCEPT !.valid = @ /\ i # r] \in Records
  <2>1. f[i] \in Records  BY ElementOfSeq
  <2>2. (f[i].valid /\ i # r) \in BOOLEAN  OBVIOUS
  <2>3. QED  BY <2>1, <2>2 DEF Records
<1>2. QED  BY <1>1, LenProperties DEF Invalidate

\* Rewriting a record leaves a sequence of records.
LEMMA MoveRecordType ==
  ASSUME NEW f \in Seq(Records), NEW r \in Nat, NEW o \in Nat, NEW n \in Nat
  PROVE  MoveRecord(f, r, o, n) \in Seq(Records)
<1>1. ASSUME NEW i \in 1..Len(f)
      PROVE  f[i] \in Records /\ Moved(f[i], o, n) \in Records
  <2>1. f[i] \in Records  BY ElementOfSeq
  <2>2. QED  BY <2>1 DEF Records, Moved
<1>2. QED  BY <1>1, LenProperties DEF MoveRecord

\* Writing to .dat at the place an allocation gave keeps its type.
LEMMA WriteDatType ==
  ASSUME TypeOK, NEW v \in Seq(Byte), NEW at \in Nat \cup {NPos},
         WriteDat(v, at)
  PROVE  Place(at) \in Nat /\ datFile' \in Seq(Byte) /\ datPos' \in Nat
<1>1. Len(datFile) \in Nat  BY LenProperties DEF TypeOK
<1>2. Place(at) \in Nat  BY <1>1 DEF Place
<1>3. datPos' \in Nat  BY <1>1 DEF WriteDat, TypeOK
<1>4. datFile' \in Seq(Byte)  BY <1>2, PWriteType DEF WriteDat, TypeOK
<1>5. QED  BY <1>2, <1>3, <1>4

\* A new key keeps the types.
LEMMA SetNewType ==
  ASSUME TypeOK, NEW k \in Keys, NEW v \in Values, opened, SetNew(k, v)
  PROVE  TypeOK'
<1>1. v \in Seq(Byte) /\ Len(v) \in Nat  BY ByteAssumption, LenProperties
<1>2. PICK a \in Allocations(Len(v)) :
        /\ freeList' = a.list /\ freeFile' = a.file
        /\ cache' = IF cached THEN CacheWrite(cache, v, a.at) ELSE cache
        /\ WriteDat(v, a.at)
        /\ index' = [x \in DOMAIN index \cup {k} |->
                       IF x = k THEN Entry(Place(a.at), Len(v), Len(idxFile) + 1)
                                ELSE index[x]]
        /\ idxFile' = Append(idxFile, Record(k, Place(a.at), Len(v)))
  BY DEF SetNew
<1>3. a \in Places  BY <1>1, AllocationsType DEF TypeOK
<1>4. a.at \in Nat \cup {NPos} /\ freeList' \in SUBSET Free /\ freeFile' \in Seq(Slots)
  BY <1>2, <1>3 DEF Places
<1>5. Place(a.at) \in Nat /\ datFile' \in Seq(Byte) /\ datPos' \in Nat
  BY <1>1, <1>2, <1>4, WriteDatType
<1>6. cache' \in Seq(Byte)
  <2>1. cache \o v \in Seq(Byte)  BY <1>1, ConcatProperties DEF TypeOK
  <2>2. a.at # NPos => WriteAt(cache, a.at, v) \in Seq(Byte)
    BY <1>1, <1>4, WriteAtType DEF TypeOK
  <2>3. QED  BY <1>2, <2>1, <2>2 DEF CacheWrite, TypeOK
<1>7. DOMAIN index' \subseteq Keys /\ index' \in [DOMAIN index' -> Entries]
  <2>1. Len(idxFile) + 1 \in Nat \ {0}  BY LenProperties DEF TypeOK
  <2>2. Entry(Place(a.at), Len(v), Len(idxFile) + 1) \in Entries
    BY <1>1, <1>5, <2>1 DEF Entry, Entries
  <2>3. QED  BY <1>2, <2>2 DEF TypeOK
<1>8. idxFile' \in Seq(Records)
  <2>1. Record(k, Place(a.at), Len(v)) \in Records
    BY <1>1, <1>5 DEF Record, Records
  <2>2. QED  BY <1>2, <2>1, AppendProperties DEF TypeOK
<1>9. ret' \in [status : Statuses, value : Seq(Byte)]
  BY EmptySeq DEF SetNew, Reply, Statuses
<1>10. opened' \in BOOLEAN /\ cached' \in BOOLEAN /\ torn' \in BOOLEAN
  BY DEF SetNew, TypeOK
<1>11. QED  BY <1>4, <1>5, <1>6, <1>7, <1>8, <1>9, <1>10 DEF TypeOK

\* An update keeps the types.
LEMMA UpdateFoundType ==
  ASSUME TypeOK, NEW k \in Keys, NEW v \in Values, opened, UpdateFound(k, v)
  PROVE  TypeOK'
<1>1. v \in Seq(Byte) /\ Len(v) \in Nat  BY ByteAssumption, LenProperties
<1>2. PICK a \in NewPlaces(index[k], Len(v)) :
        /\ freeList' = a.list /\ freeFile' = a.file
        /\ WriteDat(v, a.at)
        /\ cache' = IF cached THEN WriteAt(cache, Place(a.at), v) ELSE cache
        /\ index' = [index EXCEPT ![k] = Entry(Place(a.at), Len(v), @.rec)]
        /\ idxFile' = MoveRecord(idxFile, index[k].rec, Place(a.at), Len(v))
  BY DEF UpdateFound
<1>3. index[k] \in Entries /\ k \in DOMAIN index  BY DEF UpdateFound, TypeOK
<1>4. a \in Places
  <2>1. Allocations(Len(v)) \subseteq Places  BY <1>1, AllocationsType DEF TypeOK
  <2>2. QED  BY <1>3, <2>1 DEF NewPlaces, Places, Entries, TypeOK
<1>5. a.at \in Nat \cup {NPos} /\ freeList' \in SUBSET Free /\ freeFile' \in Seq(Slots)
  BY <1>2, <1>4 DEF Places
<1>6. Place(a.at) \in Nat /\ datFile' \in Seq(Byte) /\ datPos' \in Nat
  BY <1>1, <1>2, <1>5, WriteDatType
<1>7. cache' \in Seq(Byte)
  BY <1>1, <1>2, <1>6, WriteAtType DEF TypeOK
<1>8. DOMAIN index' \subseteq Keys /\ index' \in [DOMAIN index' -> Entries]
  <2>1. Entry(Place(a.at), Len(v), index[k].rec) \in Entries
    BY <1>1, <1>3, <1>6 DEF Entry, Entries
  <2>2. QED  BY <1>2, <1>3, <2>1 DEF TypeOK
<1>9. idxFile' \in Seq(Records)
  BY <1>1, <1>2, <1>3, <1>6, MoveRecordType DEF TypeOK, Entries
<1>10. ret' \in [status : Statuses, value : Seq(Byte)]
  BY EmptySeq DEF UpdateFound, Reply, Statuses
<1>11. opened' \in BOOLEAN /\ cached' \in BOOLEAN /\ torn' \in BOOLEAN
  BY DEF UpdateFound, OwnRecord, TypeOK
<1>12. QED  BY <1>5, <1>6, <1>7, <1>8, <1>9, <1>10, <1>11 DEF TypeOK

\* An erase keeps the types.
LEMMA EraseFoundType ==
  ASSUME TypeOK, NEW k \in Keys, opened, EraseFound(k)
  PROVE  TypeOK'
<1>1. index[k] \in Entries /\ k \in DOMAIN index  BY DEF EraseFound, TypeOK
<1>2. Len(idxFile) \in Nat /\ Len(freeFile) \in Nat  BY LenProperties DEF TypeOK
<1>3. PICK r \in FreedRecord(index[k].rec) :
        /\ idxFile' = Invalidate(idxFile, r)
        /\ torn' = (torn \/ ~OwnRecord(idxFile, k, r))
  BY DEF EraseFound
<1>4. r \in Nat  BY <1>1, <1>2, <1>3 DEF FreedRecord, Entries
<1>5. idxFile' \in Seq(Records)  BY <1>3, <1>4, InvalidateType DEF TypeOK
<1>6. freeFile' \in Seq(Slots)
  <2>1. Slot(index[k].off, index[k].len) \in Slots  BY <1>1 DEF Slot, Slots, Entries
  <2>2. QED  BY <2>1, AppendProperties DEF EraseFound, AppendSlot, TypeOK
<1>7. freeList' \in SUBSET Free
  BY <1>1, <1>2 DEF EraseFound, TypeOK, Free, Entries
<1>8. DOMAIN index' \subseteq Keys /\ index' \in [DOMAIN index' -> Entries]
  BY DEF EraseFound, TypeOK
<1>9. ret' \in [status : Statuses, value : Seq(Byte)]
  BY EmptySeq DEF EraseFound, Reply, Statuses
<1>10. torn' \in BOOLEAN  BY <1>3 DEF OwnRecord, TypeOK
<1>11. QED  BY <1>5, <1>6, <1>7, <1>8, <1>9, <1>10 DEF EraseFound, TypeOK

\* A read answers a sequence of bytes.
LEMMA ReadType ==
  ASSUME TypeOK, NEW k \in Keys, Get(k) \/ GetCached(k)
  PROVE  TypeOK'
<1>1. CASE NotFound(k)
  BY <1>1, EmptySeq DEF NotFound, TypeOK, Reply, Statuses, memory, files,
                        Get, GetCached
<1>2. CASE ~NotFound(k)
  <2>1. k \in DOMAIN index /\ index[k] \in Entries
    BY <1>2 DEF Get, GetCached, TypeOK
  <2>2. index[k].off \in Nat /\ index[k].len \in Nat  BY <2>1 DEF Entries
  <2>3. ret' \in [status : Statuses, value : Seq(Byte)]
    <3>1. ReadDat(datFile, index[k].off, index[k].len) \in Seq(Byte)
      BY <2>2, ReadDatType DEF TypeOK
    <3>2. CacheSlices(index[k].off, index[k].len) \subseteq Seq(Byte)
      BY <2>2 DEF CacheSlices
    <3>3. QED  BY <1>2, <3>1, <3>2 DEF Get, GetCached, Reply, Statuses
  <2>4. UNCHANGED <<opened, memory, files, datPos>>
    BY <1>2 DEF Get, GetCached
  <2>5. QED  BY <2>3, <2>4 DEF TypeOK, memory, files
<1>3. QED  BY <1>1, <1>2

\* Opening a database keeps the types.
LEMMA OpenType ==
  ASSUME TypeOK, Open
  PROVE  TypeOK'
<1>1. PICK ix \in IndexesRead :
        index' = [k \in DOMAIN index \cup DOMAIN ix |->
                    IF k \in DOMAIN index THEN index[k] ELSE ix[k]]
  BY DEF Open
<1>2. DOMAIN index' \subseteq Keys /\ index' \in [DOMAIN index' -> Entries]
  <2>1. DOMAIN ix \subseteq Keys /\ ix \in [DOMAIN ix -> Entries]
    <3>1. CASE torn
      BY <3>1, MisreadAssumption DEF IndexesRead, Garbled, Entries
    <3>2. CASE ~torn
      BY <3>2, LoadIndexType DEF IndexesRead, TypeOK
    <3>3. QED  BY <3>1, <3>2
  <2>2. QED  BY <1>1, <2>1 DEF TypeOK
<1>3. freeList' \in SUBSET Free  BY LoadFreeType DEF Open, TypeOK
<1>4. cache' \in Seq(Byte)  BY LoadDatType DEF Open, TypeOK
<1>5. datPos' \in Nat  BY LenProperties DEF Open, TypeOK
<1>6. QED  BY <1>2, <1>3, <1>4, <1>5 DEF Open, TypeOK, files

\* Each call keeps the types.
LEMMA TypeStep ==
  ASSUME TypeOK, [Next]_vars
  PROVE  TypeOK'
<1>1. ASSUME NEW mode \in CacheModes, Construct(mode)
      PROVE  TypeOK'
  BY <1>1, ModesAssumption, EmptySeq DEF Construct, TypeOK, NoKeys, files
<1>2. CASE Open  BY <1>2, OpenType
<1>3. CASE Close
  BY <1>3, EmptySeq DEF Close, TypeOK, NoKeys, files
<1>4. CASE Destroy
  BY <1>4, EmptySeq DEF Destroy, TypeOK, memory
<1>5. ASSUME NEW on \in BOOLEAN, SwitchCache(on)
      PROVE  TypeOK'
  <2>1. cache' \in Seq(Byte)
    BY <1>5, LoadDatType, EmptySeq DEF SwitchCache, TypeOK
  <2>2. datPos' \in Nat /\ cached' \in BOOLEAN
    BY <1>5, LenProperties DEF SwitchCache, TypeOK
  <2>3. QED  BY <1>5, <2>1, <2>2 DEF SwitchCache, TypeOK, files
<1>6. ASSUME NEW k \in Keys, NEW v \in Values, Set(k, v)
      PROVE  TypeOK'
  <2>1. CASE SetTaken(k)
    BY <2>1, EmptySeq DEF SetTaken, TypeOK, Reply, Statuses, memory, files
  <2>2. CASE SetNew(k, v)  BY <1>6, <2>2, SetNewType DEF Set
  <2>3. QED  BY <1>6, <2>1, <2>2 DEF Set
<1>7. ASSUME NEW k \in Keys, NotFound(k), UNCHANGED opened
      PROVE  TypeOK'
  BY <1>7, EmptySeq DEF NotFound, TypeOK, Reply, Statuses, memory, files
<1>8. ASSUME NEW k \in Keys, NEW v \in Values, Update(k, v)
      PROVE  TypeOK'
  BY <1>7, <1>8, UpdateFoundType DEF Update, NotFound
<1>9. ASSUME NEW k \in Keys, Erase(k)
      PROVE  TypeOK'
  BY <1>7, <1>9, EraseFoundType DEF Erase, NotFound
<1>10. ASSUME NEW k \in Keys, Get(k) \/ GetCached(k)
       PROVE  TypeOK'
  BY <1>10, ReadType
<1>11. CASE UNCHANGED vars
  BY <1>11 DEF vars, TypeOK
<1>12. QED
  BY <1>1, <1>2, <1>3, <1>4, <1>5, <1>6, <1>8, <1>9, <1>10, <1>11
     DEF Next, KeyCall

\* Type correctness: in every reachable state of a database each variable of
\* memory and files has its type, whatever calls are made; an object that is
\* destroyed, opened again and then writes past the end of its files included.
THEOREM TypeCorrect == Spec => []TypeOK
<1>1. QED  BY InitType, TypeStep, PTL DEF Spec

(***************************************************************************)
(* Space.  The callers of these theorems make no update with a longer      *)
(* value and do not open a DB object again that they destroyed (a new      *)
(* object they may make and open), and erase reads the position of its own *)
(* record.                                                                 *)
(***************************************************************************)
SafeCalls == "grow" \notin Calls /\ "reuse" \notin Calls /\ FreedIntact

\* No key has two valid records in f.
OnePerKey(f) == \A i, j \in ValidRecs(f) : f[i].key = f[j].key => i = j

\* An index lists the valid records of f.
Agree(ix, f) ==
  /\ \A i \in ValidRecs(f) : f[i].key \in DOMAIN ix
  /\ \A k \in DOMAIN ix :
       /\ ix[k].rec \in ValidRecs(f) /\ f[ix[k].rec].key = k
       /\ ix[k].off = f[ix[k].rec].off /\ ix[k].len = f[ix[k].rec].len

\* The index that is loaded lists the valid records.
LEMMA LoadAgrees ==
  ASSUME NEW f \in Seq(Records), OnePerKey(f)
  PROVE  Agree(LoadIndex(f), f)
<1>1. FirstRecs(f) = ValidRecs(f)
  <2>1. \A i \in ValidRecs(f) : i \in Nat  BY LenProperties DEF ValidRecs
  <2>2. QED  BY <2>1 DEF FirstRecs, OnePerKey
<1>2. DOMAIN LoadIndex(f) = {f[i].key : i \in ValidRecs(f)}
  BY <1>1 DEF LoadIndex
<1>3. ASSUME NEW k \in DOMAIN LoadIndex(f)
      PROVE  /\ LoadIndex(f)[k].rec \in ValidRecs(f)
             /\ f[LoadIndex(f)[k].rec].key = k
             /\ LoadIndex(f)[k].off = f[LoadIndex(f)[k].rec].off
             /\ LoadIndex(f)[k].len = f[LoadIndex(f)[k].rec].len
  <2> DEFINE r == CHOOSE i \in ValidRecs(f) : f[i].key = k
  <2>1. r \in ValidRecs(f) /\ f[r].key = k  BY <1>2
  <2>2. LoadIndex(f)[k] = Entry(f[r].off, f[r].len, r)
    BY <1>1, <1>2 DEF LoadIndex
  <2> HIDE DEF r
  <2>3. QED  BY <2>1, <2>2 DEF Entry
<1>4. QED  BY <1>2, <1>3 DEF Agree

\* There is one index only that lists them.
LEMMA AgreeIsLoad ==
  ASSUME NEW f \in Seq(Records), OnePerKey(f), NEW ix,
         ix \in [DOMAIN ix -> Entries], Agree(ix, f)
  PROVE  ix = LoadIndex(f)
<1> DEFINE L == LoadIndex(f)
<1>1. Agree(L, f)  BY LoadAgrees
<1>2. L \in [DOMAIN L -> Entries]  BY LoadIndexType
<1> HIDE DEF L
<1>3. DOMAIN ix = DOMAIN L  BY <1>1 DEF Agree
<1>4. ASSUME NEW k \in DOMAIN ix  PROVE ix[k] = L[k]
  <2>1. ix[k].rec = L[k].rec  BY <1>1, <1>3 DEF Agree, OnePerKey
  <2>2. ix[k].off = L[k].off /\ ix[k].len = L[k].len
    BY <1>1, <1>3, <2>1 DEF Agree
  <2>3. \A e \in Entries : e = Entry(e.off, e.len, e.rec)
    BY DEF Entries, Entry
  <2>4. ix[k] \in Entries /\ L[k] \in Entries  BY <1>2, <1>3
  <2>5. QED  BY <2>1, <2>2, <2>3, <2>4
<1>5. QED  BY <1>2, <1>3, <1>4 DEF L

\* The length of a file after pwrite.
LEMMA PWriteLen ==
  ASSUME NEW f \in Seq(Byte), NEW b \in Seq(Byte), NEW o \in Nat
  PROVE  /\ Len(PWrite(f, b, o)) \in Nat
         /\ Len(PWrite(f, b, o)) >= Len(f)
         /\ Len(b) = 0 \/ Len(PWrite(f, b, o)) >= o + Len(b)
<1> DEFINE end == IF b = <<>> \/ o + Len(b) <= Len(f) THEN Len(f)
                  ELSE o + Len(b)
<1>1. Len(f) \in Nat /\ Len(b) \in Nat  BY LenProperties
<1>2. end \in Nat  BY <1>1
<1>3. b = <<>> => Len(b) = 0  BY EmptySeq
<1>4. Len(PWrite(f, b, o)) = end  BY <1>2 DEF PWrite
<1>5. QED  BY <1>1, <1>2, <1>3, <1>4

\* An extent within one that is apart from a is apart from a.
LEMMA ApartPart ==
  ASSUME NEW a, NEW b, NEW y,
         a.off \in Nat, a.len \in Nat, b.off \in Nat, b.len \in Nat,
         y.off \in Nat, y.len \in Nat,
         Apart(a, b) \/ Apart(b, a),
         b.off <= y.off, y.off + y.len <= b.off + b.len
  PROVE  Apart(a, y) /\ Apart(y, a)
BY DEF Apart

\* The extent a value gets.
Extent(o, n) == [off |-> o, len |-> n]

\* Allocation: what it hands out is apart from every record and from every
\* slot it leaves, the slots it leaves are apart from one another and from
\* every record, and the free list it leaves describes them.
LEMMA AllocationSafe ==
  ASSUME TypeOK, NoSharedSpace, Offered(freeList) \subseteq LoadFree(freeFile),
         NEW n \in Nat, NEW a \in Allocations(n)
  PROVE  LET x == Extent(Place(a.at), n) IN
         /\ x.off \in Nat
         /\ a.at = NPos \/ x.off + n <= Len(datFile)
         /\ \A i \in ValidRecs(idxFile) : Apart(idxFile[i], x)
         /\ \A s \in 1..Len(a.file) : Apart(x, a.file[s])
         /\ \A s, t \in 1..Len(a.file) : s # t => Apart(a.file[s], a.file[t])
         /\ \A i \in ValidRecs(idxFile), s \in 1..Len(a.file) :
              Apart(idxFile[i], a.file[s])
         /\ \A s \in 1..Len(a.file) : Within(a.file[s])
         /\ a.file \in Seq(Slots)
         /\ Offered(a.list) \subseteq LoadFree(a.file)
<1> DEFINE x == Extent(Place(a.at), n)
<1>1. /\ \A i \in ValidRecs(idxFile) :
           i \in 1..Len(idxFile) /\ idxFile[i] \in Records
      /\ \A s \in 1..Len(freeFile) : freeFile[s] \in Slots
      /\ Len(freeFile) \in Nat /\ Len(datFile) \in Nat
  BY ElementOfSeq, LenProperties DEF TypeOK, ValidRecs
<1>2. CASE Fits(n) = {}
  <2>1. a = [at |-> NPos, list |-> freeList, file |-> freeFile]
    BY <1>2 DEF Allocations
  <2>2. x = Extent(Len(datFile), n)  BY <2>1 DEF Place
  <2>3. \A i \in ValidRecs(idxFile) : Apart(idxFile[i], x)
    BY <1>1, <2>2 DEF NoSharedSpace, AllWithin, Within, Apart, Extent, Records
  <2>4. \A s \in 1..Len(freeFile) : Apart(x, freeFile[s])
    BY <1>1, <2>2 DEF NoSharedSpace, AllWithin, Within, Apart, Extent, Slots
  <2>5. QED
    BY <1>1, <2>1, <2>2, <2>3, <2>4
       DEF NoSharedSpace, SlotsApart, RecordsNotFree, AllWithin, TypeOK, Extent
<1>3. CASE Fits(n) # {}
  <2>1. PICK e \in BestFits(n) : a = ManageFree(e, n)
    BY <1>3 DEF Allocations
  <2>2. e \in freeList /\ e \in Free /\ e.len > n
    BY <2>1 DEF BestFits, Fits, TypeOK
  <2>3. e.off \in Nat /\ e.len \in Nat  BY <2>2 DEF Free
  <2>4. e.slot \in 1..Len(freeFile) /\ freeFile[e.slot].off = e.off
        /\ freeFile[e.slot].len = e.len
    <3>1. e \in Offered(freeList)  BY <2>2, <2>3 DEF Offered
    <3>2. QED  BY <3>1 DEF LoadFree, UsedSlots
  <2> DEFINE cleared == ZeroSlot(freeFile, e.slot)
             rest == Rest(e, n)
  <2>5. /\ rest.off = e.off + n /\ rest.len = e.len - n
        /\ rest.slot = Len(freeFile) + 1 /\ rest.len # 0
        /\ rest.off \in Nat /\ rest.len \in Nat
    BY <2>2, <2>3 DEF Rest
  <2>6. /\ cleared \in Seq(Slots) /\ Len(cleared) = Len(freeFile)
        /\ \A s \in 1..Len(freeFile) :
             cleared[s] = IF s = e.slot THEN Slot(0, 0) ELSE freeFile[s]
    BY <2>4, ZeroSlotInFile DEF TypeOK
  <2>7. /\ a.at = e.off /\ a.list = Keep(e) \cup {rest}
        /\ a.file = Append(cleared, Slot(rest.off, rest.len))
    BY <2>1, <2>5 DEF ManageFree, AppendSlot
  <2>8. Slot(rest.off, rest.len) \in Slots  BY <2>5 DEF Slot, Slots
  <2>9. /\ a.file \in Seq(Slots) /\ Len(a.file) = Len(freeFile) + 1
        /\ \A s \in 1..Len(freeFile) :
             a.file[s] = IF s = e.slot THEN Slot(0, 0) ELSE freeFile[s]
        /\ a.file[Len(freeFile) + 1] = Slot(rest.off, rest.len)
    BY <1>1, <2>6, <2>7, <2>8, AppendProperties
  <2>10. x = Extent(e.off, n)  BY <2>3, <2>7 DEF Place, NPos
  <2> HIDE DEF cleared, rest, x
  \* What the slots of the new file are.
  <2>11. \A s \in 1..Len(a.file) :
           \/ a.file[s].len = 0
           \/ s \in 1..Len(freeFile) /\ s # e.slot /\ a.file[s] = freeFile[s]
           \/ /\ s = Len(freeFile) + 1
              /\ a.file[s].off = e.off + n /\ a.file[s].len = e.len - n
    BY <1>1, <2>5, <2>9 DEF Slot
  \* The extent that was free is apart from all the others.
  <2>12. /\ \A i \in ValidRecs(idxFile) : Apart(idxFile[i], freeFile[e.slot])
         /\ \A s \in 1..Len(freeFile) :
              s # e.slot => Apart(freeFile[e.slot], freeFile[s])
                            /\ Apart(freeFile[s], freeFile[e.slot])
         /\ e.off + e.len <= Len(datFile)
    BY <2>2, <2>3, <2>4
       DEF NoSharedSpace, RecordsNotFree, SlotsApart, AllWithin, Within
  <2>13. x.off \in Nat /\ x.off + n <= Len(datFile)
    BY <1>1, <2>2, <2>3, <2>10, <2>12 DEF Extent
  \* Its front goes to the value, its rest to a slot.
  <2>14. x.off = e.off /\ x.len = n  BY <2>10 DEF Extent
  <2>15. \A i \in ValidRecs(idxFile) : Apart(idxFile[i], x)
    <3> SUFFICES ASSUME NEW i \in ValidRecs(idxFile)
                 PROVE  Apart(idxFile[i], x)
      OBVIOUS
    <3>1. idxFile[i].off \in Nat /\ idxFile[i].len \in Nat  BY <1>1 DEF Records
    <3>2. QED  BY <2>2, <2>3, <2>4, <2>12, <2>14, <3>1, ApartPart
  <2>16. \A s \in 1..Len(a.file) : Apart(x, a.file[s])
    <3> SUFFICES ASSUME NEW s \in 1..Len(a.file)  PROVE Apart(x, a.file[s])
      OBVIOUS
    <3>1. CASE a.file[s].len = 0  BY <3>1 DEF Apart
    <3>2. CASE s \in 1..Len(freeFile) /\ s # e.slot /\ a.file[s] = freeFile[s]
      <4>1. freeFile[s].off \in Nat /\ freeFile[s].len \in Nat
        BY <1>1, <3>2 DEF Slots
      <4>2. x.off + x.len <= freeFile[e.slot].off + freeFile[e.slot].len
            /\ freeFile[e.slot].off <= x.off
        BY <2>2, <2>3, <2>4, <2>14
      <4>3. Apart(freeFile[s], freeFile[e.slot])  BY <2>12, <3>2
      <4>4. Apart(x, freeFile[s])
        BY <2>3, <2>4, <2>14, <4>1, <4>2, <4>3, ApartPart
      <4>5. QED  BY <3>2, <4>4
    <3>3. CASE a.file[s].off = e.off + n
      BY <2>2, <2>3, <2>14, <3>3 DEF Apart
    <3>4. QED  BY <2>11, <3>1, <3>2, <3>3
  <2>17. \A s, t \in 1..Len(a.file) : s # t => Apart(a.file[s], a.file[t])
    <3> SUFFICES ASSUME NEW s \in 1..Len(a.file), NEW t \in 1..Len(a.file), s # t
                 PROVE  Apart(a.file[s], a.file[t])
      OBVIOUS
    <3>1. CASE a.file[s].len = 0 \/ a.file[t].len = 0
      BY <3>1 DEF Apart
    <3>2. CASE /\ s \in 1..Len(freeFile) /\ a.file[s] = freeFile[s]
               /\ t \in 1..Len(freeFile) /\ a.file[t] = freeFile[t]
      BY <3>2 DEF NoSharedSpace, SlotsApart
    <3>3. \A u, w \in 1..Len(a.file) :
            /\ u \in 1..Len(freeFile) /\ u # e.slot /\ a.file[u] = freeFile[u]
            /\ a.file[w].off = e.off + n /\ a.file[w].len = e.len - n
            => Apart(a.file[u], a.file[w]) /\ Apart(a.file[w], a.file[u])
      <4> SUFFICES ASSUME NEW u \in 1..Len(freeFile), NEW w \in 1..Len(a.file),
                          u # e.slot, a.file[u] = freeFile[u],
                          a.file[w].off = e.off + n, a.file[w].len = e.len - n
                   PROVE  Apart(a.file[u], a.file[w]) /\ Apart(a.file[w], a.file[u])
        OBVIOUS
      <4>1. freeFile[u].off \in Nat /\ freeFile[u].len \in Nat
        BY <1>1 DEF Slots
      <4>2. a.file[w].off \in Nat /\ a.file[w].len \in Nat
        BY <2>2, <2>3
      <4>3. /\ freeFile[e.slot].off <= a.file[w].off
            /\ a.file[w].off + a.file[w].len
                 <= freeFile[e.slot].off + freeFile[e.slot].len
        BY <2>2, <2>3, <2>4
      <4>4. Apart(freeFile[u], freeFile[e.slot])  BY <2>12
      <4>5. Apart(freeFile[u], a.file[w]) /\ Apart(a.file[w], freeFile[u])
        BY <2>3, <2>4, <4>1, <4>2, <4>3, <4>4, ApartPart
      <4>6. QED  BY <4>5
    <3>4. QED  BY <2>11, <3>1, <3>2, <3>3
  <2>18. /\ \A i \in ValidRecs(idxFile), s \in 1..Len(a.file) :
              Apart(idxFile[i], a.file[s])
         /\ \A s \in 1..Len(a.file) : Within(a.file[s])
    <3> SUFFICES ASSUME NEW s \in 1..Len(a.file)
                 PROVE  /\ \A i \in ValidRecs(idxFile) : Apart(idxFile[i], a.file[s])
                        /\ Within(a.file[s])
      OBVIOUS
    <3>1. CASE a.file[s].len = 0  BY <3>1 DEF Apart, Within
    <3>2. CASE s \in 1..Len(freeFile) /\ a.file[s] = freeFile[s]
      BY <3>2 DEF NoSharedSpace, RecordsNotFree, AllWithin
    <3>3. CASE a.file[s].off = e.off + n /\ a.file[s].len = e.len - n
      <4>1. a.file[s].off \in Nat /\ a.file[s].len \in Nat
        BY <2>2, <2>3, <3>3
      <4>2. ASSUME NEW i \in ValidRecs(idxFile)  PROVE Apart(idxFile[i], a.file[s])
        <5>1. idxFile[i].off \in Nat /\ idxFile[i].len \in Nat
          BY <1>1 DEF Records
        <5>2. /\ freeFile[e.slot].off <= a.file[s].off
              /\ a.file[s].off + a.file[s].len
                   <= freeFile[e.slot].off + freeFile[e.slot].len
          BY <2>2, <2>3, <2>4, <3>3
        <5>3. Apart(idxFile[i], freeFile[e.slot])  BY <2>12
        <5>4. QED  BY <2>3, <2>4, <4>1, <5>1, <5>2, <5>3, ApartPart
      <4>3. Within(a.file[s])
        BY <2>2, <2>3, <2>12, <3>3, <4>1 DEF Within
      <4>4. QED  BY <4>2, <4>3
    <3>4. QED  BY <2>11, <3>1, <3>2, <3>3
  <2>19. Offered(a.list) \subseteq LoadFree(a.file)
    <3>1. rest \in LoadFree(a.file)
      <4>1. Len(freeFile) + 1 \in UsedSlots(a.file)
        BY <1>1, <2>5, <2>9 DEF UsedSlots, Slot
      <4>2. rest = [off |-> rest.off, len |-> rest.len, slot |-> rest.slot]
        BY DEF rest, Rest
      <4>3. QED  BY <2>5, <2>9, <4>1, <4>2 DEF LoadFree, Slot
    <3>2. ASSUME NEW f \in Keep(e), f.len # 0  PROVE f \in LoadFree(a.file)
      <4>1. f \in LoadFree(freeFile) /\ f.len # e.len  BY <3>2 DEF Keep, Offered
      <4>2. PICK s \in UsedSlots(freeFile) :
              f = [off |-> freeFile[s].off, len |-> freeFile[s].len, slot |-> s]
        BY <4>1 DEF LoadFree
      <4>3. s # e.slot  BY <2>4, <4>1, <4>2
      <4>4. s \in 1..Len(a.file) /\ a.file[s] = freeFile[s]
        BY <1>1, <2>9, <4>3 DEF UsedSlots
      <4>5. QED  BY <4>2, <4>4 DEF LoadFree, UsedSlots
    <3>3. QED  BY <2>7, <3>1, <3>2 DEF Offered
  <2>20. QED
    BY <2>9, <2>13, <2>15, <2>16, <2>17, <2>18, <2>19 DEF x
<1>4. QED  BY <1>2, <1>3

\* A value written to the place an allocation gave, and one record r pointing
\* to it: no space is shared.
LEMMA PlacedRecord ==
  ASSUME TypeOK, TypeOK', NoSharedSpace, Offered(freeList) \subseteq LoadFree(freeFile),
         NEW v \in Seq(Byte), NEW a \in Allocations(Len(v)),
         WriteDat(v, a.at), freeFile' = a.file, freeList' = a.list,
         NEW r,
         \A i \in ValidRecs(idxFile') :
           \/ i = r /\ idxFile[i]'.off = Place(a.at) /\ idxFile[i]'.len = Len(v)
           \/ i # r /\ i \in ValidRecs(idxFile) /\ idxFile[i]' = idxFile[i]
  PROVE  NoSharedSpace' /\ Offered(freeList') \subseteq LoadFree(freeFile')
<1> DEFINE n == Len(v)
           x == Extent(Place(a.at), n)
<1>1. n \in Nat  BY LenProperties
<1>2. /\ x.off \in Nat
      /\ a.at = NPos \/ x.off + n <= Len(datFile)
      /\ \A i \in ValidRecs(idxFile) : Apart(idxFile[i], x)
      /\ \A s \in 1..Len(a.file) : Apart(x, a.file[s])
      /\ \A s, t \in 1..Len(a.file) : s # t => Apart(a.file[s], a.file[t])
      /\ \A i \in ValidRecs(idxFile), s \in 1..Len(a.file) :
           Apart(idxFile[i], a.file[s])
      /\ \A s \in 1..Len(a.file) : Within(a.file[s])
      /\ a.file \in Seq(Slots)
      /\ Offered(a.list) \subseteq LoadFree(a.file)
  BY <1>1, AllocationSafe
<1>3. x.off = Place(a.at) /\ x.len = n  BY DEF Extent
<1>4. /\ Len(datFile) \in Nat /\ Len(datFile') \in Nat
      /\ Len(datFile') >= Len(datFile)
      /\ n = 0 \/ Len(datFile') >= x.off + n
  BY <1>2, <1>3, PWriteLen, LenProperties DEF WriteDat, TypeOK
<1> HIDE DEF n, x
<1>5. ASSUME NEW i \in ValidRecs(idxFile')
      PROVE  \/ i = r /\ idxFile[i]'.off = x.off /\ idxFile[i]'.len = x.len
             \/ i # r /\ i \in ValidRecs(idxFile) /\ idxFile[i]' = idxFile[i]
  BY <1>3 DEF n
\* Apart looks at offset and length only, and either way round.
<1>6. \A b, c, d : b.off = c.off /\ b.len = c.len =>
        /\ Apart(c, d) => Apart(b, d)
        /\ Apart(d, c) => Apart(d, b)
  BY DEF Apart
<1>7. \A b, c : Apart(b, c) => Apart(c, b)  BY DEF Apart
<1>8. RecordsApart'
  <2> SUFFICES ASSUME NEW i \in ValidRecs(idxFile'), NEW j \in ValidRecs(idxFile'),
                      i # j
               PROVE  Apart(idxFile[i]', idxFile[j]')
    BY DEF RecordsApart
  <2>1. CASE i = r
    <3>1. idxFile[i]'.off = x.off /\ idxFile[i]'.len = x.len  BY <1>5, <2>1
    <3>2. j \in ValidRecs(idxFile) /\ idxFile[j]' = idxFile[j]  BY <1>5, <2>1
    <3>3. Apart(x, idxFile[j])  BY <1>2, <1>7, <3>2
    <3>4. QED  BY <1>6, <3>1, <3>2, <3>3
  <2>2. CASE j = r
    <3>1. idxFile[j]'.off = x.off /\ idxFile[j]'.len = x.len  BY <1>5, <2>2
    <3>2. i \in ValidRecs(idxFile) /\ idxFile[i]' = idxFile[i]  BY <1>5, <2>2
    <3>3. Apart(idxFile[i], x)  BY <1>2, <3>2
    <3>4. QED  BY <1>6, <3>1, <3>2, <3>3
  <2>3. CASE i # r /\ j # r
    <3>1. i \in ValidRecs(idxFile) /\ idxFile[i]' = idxFile[i]  BY <1>5, <2>3
    <3>2. j \in ValidRecs(idxFile) /\ idxFile[j]' = idxFile[j]  BY <1>5, <2>3
    <3>3. QED  BY <3>1, <3>2 DEF NoSharedSpace, RecordsApart
  <2>4. QED  BY <2>1, <2>2, <2>3
<1>9. SlotsApart'  BY <1>2 DEF SlotsApart
<1>10. RecordsNotFree'
  <2> SUFFICES ASSUME NEW i \in ValidRecs(idxFile'), NEW s \in 1..Len(a.file)
               PROVE  Apart(idxFile[i]', a.file[s])
    BY DEF RecordsNotFree
  <2>1. CASE i = r
    BY <1>2, <1>5, <1>6, <2>1
  <2>2. CASE i # r
    BY <1>2, <1>5, <2>2
  <2>3. QED  BY <2>1, <2>2
<1>11. AllWithin'
  <2>1. ASSUME NEW i \in ValidRecs(idxFile')
        PROVE  idxFile[i]'.len = 0 \/ idxFile[i]'.off + idxFile[i]'.len <= Len(datFile')
    <3>1. CASE i = r  BY <1>3, <1>4, <1>5, <3>1
    <3>2. CASE i # r
      <4>1. i \in ValidRecs(idxFile) /\ idxFile[i]' = idxFile[i]  BY <1>5, <3>2
      <4>2. idxFile[i] \in Records  BY <4>1, ElementOfSeq DEF ValidRecs, TypeOK
      <4>3. Within(idxFile[i])  BY <4>1 DEF NoSharedSpace, AllWithin
      <4>4. QED  BY <1>4, <4>1, <4>2, <4>3 DEF Within, Records
    <3>3. QED  BY <3>1, <3>2
  <2>2. ASSUME NEW s \in 1..Len(a.file)
        PROVE  a.file[s].len = 0 \/ a.file[s].off + a.file[s].len <= Len(datFile')
    <3>1. a.file[s] \in Slots  BY <1>2, ElementOfSeq
    <3>2. QED  BY <1>2, <1>4, <3>1 DEF Within, Slots
  <2>3. QED  BY <2>1, <2>2 DEF AllWithin, Within
<1>12. QED  BY <1>2, <1>8, <1>9, <1>10, <1>11 DEF NoSharedSpace

\* What ReloadAgrees says of an open database, record by record.
LEMMA OpenAgrees ==
  ASSUME IInv, opened
  PROVE  /\ OnePerKey(idxFile) /\ Agree(index, idxFile)
         /\ Offered(freeList) \subseteq LoadFree(freeFile)
<1>1. OnePerKey(idxFile)  BY DEF IInv, OneRecordPerKey, OnePerKey
<1>2. index = LoadIndex(idxFile)  BY DEF IInv, ReloadAgrees, IndexesRead
<1>3. QED  BY <1>1, <1>2, LoadAgrees DEF IInv, ReloadAgrees, TypeOK

\* And back, after a step.
LEMMA AgreesOpen ==
  ASSUME TypeOK', ~torn', OnePerKey(idxFile'), Agree(index', idxFile'),
         Offered(freeList') \subseteq LoadFree(freeFile'), opened', NoSharedSpace'
  PROVE  IInv'
<1>1. index' = LoadIndex(idxFile')  BY AgreeIsLoad DEF TypeOK
<1>2. QED
  BY <1>1 DEF IInv, ReloadAgrees, IndexesRead, OneRecordPerKey, OnePerKey

\* A new key keeps the invariant.
LEMMA SetNewInv ==
  ASSUME IInv, NEW k \in Keys, NEW v \in Values, opened, SetNew(k, v)
  PROVE  IInv'
<1>1. TypeOK /\ TypeOK'  BY SetNewType DEF IInv
<1>2. OnePerKey(idxFile) /\ Agree(index, idxFile)
      /\ Offered(freeList) \subseteq LoadFree(freeFile)
  BY OpenAgrees
<1>3. PICK a \in Allocations(Len(v)) :
        /\ freeList' = a.list /\ freeFile' = a.file
        /\ WriteDat(v, a.at)
        /\ index' = [x \in DOMAIN index \cup {k} |->
                       IF x = k THEN Entry(Place(a.at), Len(v), Len(idxFile) + 1)
                                ELSE index[x]]
        /\ idxFile' = Append(idxFile, Record(k, Place(a.at), Len(v)))
  BY DEF SetNew
<1>4. v \in Seq(Byte)  BY ByteAssumption
<1>5. Len(idxFile) \in Nat  BY <1>1, LenProperties DEF TypeOK
<1>6. PICK r \in Nat : r = Len(idxFile) + 1  BY <1>5
<1>7. /\ Len(idxFile') = r
      /\ \A i \in 1..Len(idxFile) : idxFile[i]' = idxFile[i]
      /\ idxFile[r]' = Record(k, Place(a.at), Len(v))
  <2>1. Place(a.at) \in Nat /\ Len(v) \in Nat
    <3>1. Len(v) \in Nat  BY <1>4, LenProperties
    <3>2. Extent(Place(a.at), Len(v)).off \in Nat
      BY <1>1, <1>2, <3>1, AllocationSafe DEF IInv
    <3>3. QED  BY <3>1, <3>2 DEF Extent
  <2>2. Record(k, Place(a.at), Len(v)) \in Records  BY <2>1 DEF Record, Records
  <2>3. QED  BY <1>1, <1>3, <1>5, <1>6, <2>2, AppendProperties DEF TypeOK
<1>8. /\ r \in ValidRecs(idxFile') /\ r \notin ValidRecs(idxFile)
      /\ \A i \in ValidRecs(idxFile') : i = r \/ i \in ValidRecs(idxFile)
      /\ ValidRecs(idxFile) \subseteq ValidRecs(idxFile')
      /\ \A i \in ValidRecs(idxFile) : idxFile[i]' = idxFile[i]
  <2>1. idxFile[r]'.valid  BY <1>7 DEF Record
  <2>2. QED  BY <1>5, <1>6, <1>7, <2>1 DEF ValidRecs
<1>9. /\ idxFile[r]'.key = k /\ idxFile[r]'.off = Place(a.at)
       /\ idxFile[r]'.len = Len(v)
  BY <1>7 DEF Record
<1>10. NoSharedSpace' /\ Offered(freeList') \subseteq LoadFree(freeFile')
  <2>1. \A i \in ValidRecs(idxFile') :
          \/ i = r /\ idxFile[i]'.off = Place(a.at) /\ idxFile[i]'.len = Len(v)
          \/ i # r /\ i \in ValidRecs(idxFile) /\ idxFile[i]' = idxFile[i]
    BY <1>8, <1>9
  <2>2. NoSharedSpace /\ WriteDat(v, a.at) /\ freeFile' = a.file /\ freeList' = a.list
    BY <1>3 DEF IInv
  <2>3. QED  BY <1>1, <1>2, <1>4, <2>1, <2>2, PlacedRecord
<1>11. \A i \in ValidRecs(idxFile) : idxFile[i].key # k
  BY <1>2 DEF Agree, SetNew
<1>12. OnePerKey(idxFile')
  BY <1>2, <1>8, <1>11, <1>9 DEF OnePerKey
<1>13. Agree(index', idxFile')
  <2>1. DOMAIN index' = DOMAIN index \cup {k}  BY <1>3
  <2>2. \A x \in DOMAIN index : x # k /\ index[x]' = index[x]
    BY <1>3 DEF SetNew
  <2>3. /\ index[k]'.rec = r /\ index[k]'.off = Place(a.at)
        /\ index[k]'.len = Len(v)
    BY <1>3, <1>6 DEF Entry
  <2>4. \A i \in ValidRecs(idxFile') : idxFile[i]'.key \in DOMAIN index'
    BY <1>2, <1>8, <1>9, <2>1 DEF Agree
  <2>5. ASSUME NEW x \in DOMAIN index'
        PROVE  /\ index[x]'.rec \in ValidRecs(idxFile')
               /\ idxFile[index[x].rec]'.key = x
               /\ index[x]'.off = idxFile[index[x].rec]'.off
               /\ index[x]'.len = idxFile[index[x].rec]'.len
    <3>1. CASE x = k  BY <1>8, <1>9, <2>3, <3>1
    <3>2. CASE x # k
      <4>1. x \in DOMAIN index /\ index[x]' = index[x]  BY <2>1, <2>2, <3>2
      <4>2. PICK q \in ValidRecs(idxFile) : q = index[x].rec
        BY <1>2, <4>1 DEF Agree
      <4>3. q \in ValidRecs(idxFile') /\ idxFile[q]' = idxFile[q]  BY <1>8
      <4>4. idxFile[q].key = x /\ index[x].off = idxFile[q].off
            /\ index[x].len = idxFile[q].len
        BY <1>2, <4>1, <4>2 DEF Agree
      <4>5. QED  BY <4>1, <4>2, <4>3, <4>4
    <3>3. QED  BY <3>1, <3>2
  <2>6. QED  BY <2>4, <2>5 DEF Agree
<1>14. opened' /\ ~torn'  BY DEF SetNew, IInv
<1>15. QED  BY <1>1, <1>10, <1>12, <1>13, <1>14, AgreesOpen

\* An update that does not grow its value keeps the invariant.
LEMMA UpdateFoundInv ==
  ASSUME SafeCalls, IInv, NEW k \in Keys, NEW v \in Values, opened,
         UpdateFound(k, v)
  PROVE  IInv'
<1>1. TypeOK /\ TypeOK'  BY UpdateFoundType DEF IInv
<1>2. OnePerKey(idxFile) /\ Agree(index, idxFile)
      /\ Offered(freeList) \subseteq LoadFree(freeFile)
  BY OpenAgrees
<1>3. k \in DOMAIN index /\ NewPlaces(index[k], Len(v)) = Allocations(Len(v))
  BY DEF UpdateFound, KindOfUpdate, SafeCalls, NewPlaces
<1>4. PICK a \in Allocations(Len(v)) :
        /\ freeList' = a.list /\ freeFile' = a.file
        /\ WriteDat(v, a.at)
        /\ index' = [index EXCEPT ![k] = Entry(Place(a.at), Len(v), @.rec)]
        /\ idxFile' = MoveRecord(idxFile, index[k].rec, Place(a.at), Len(v))
  BY <1>3 DEF UpdateFound
<1>5. v \in Seq(Byte)  BY ByteAssumption
<1>6. PICK r \in ValidRecs(idxFile) : r = index[k].rec /\ idxFile[r].key = k
  BY <1>2, <1>3 DEF Agree
<1>7. /\ Len(idxFile') = Len(idxFile)
      /\ \A i \in 1..Len(idxFile) :
           idxFile[i]' = IF i = r
                         THEN Moved(idxFile[i], Place(a.at), Len(v))
                         ELSE idxFile[i]
  <2>1. idxFile' = MoveRecord(idxFile, r, Place(a.at), Len(v))  BY <1>4, <1>6
  <2>2. Len(idxFile) \in Nat  BY <1>1, LenProperties DEF TypeOK
  <2>3. QED  BY <2>1, <2>2 DEF MoveRecord
<1>8. \A i \in 1..Len(idxFile) : idxFile[i] \in Records
  BY <1>1, ElementOfSeq DEF TypeOK
<1>9. \A i \in 1..Len(idxFile) :
        idxFile[i]'.key = idxFile[i].key /\ idxFile[i]'.valid = idxFile[i].valid
  <2>1. \A e, o, n : Moved(e, o, n).key = e.key /\ Moved(e, o, n).valid = e.valid
    BY DEF Moved
  <2>2. QED  BY <1>7, <2>1
<1>10. ValidRecs(idxFile') = ValidRecs(idxFile)
  BY <1>7, <1>9 DEF ValidRecs
<1>11. /\ idxFile[r]'.off = Place(a.at) /\ idxFile[r]'.len = Len(v)
       /\ \A i \in ValidRecs(idxFile) : i # r => idxFile[i]' = idxFile[i]
  <2>1. \A i \in ValidRecs(idxFile) : i \in 1..Len(idxFile)  BY DEF ValidRecs
  <2>2. idxFile[r]'.off = Place(a.at) /\ idxFile[r]'.len = Len(v)
    <3>1. idxFile[r]' = Moved(idxFile[r], Place(a.at), Len(v))  BY <1>7, <2>1
    <3>2. QED  BY <3>1 DEF Moved
  <2>3. QED  BY <1>7, <2>1, <2>2
<1>12. NoSharedSpace' /\ Offered(freeList') \subseteq LoadFree(freeFile')
  <2>1. \A i \in ValidRecs(idxFile') :
          \/ i = r /\ idxFile[i]'.off = Place(a.at) /\ idxFile[i]'.len = Len(v)
          \/ i # r /\ i \in ValidRecs(idxFile) /\ idxFile[i]' = idxFile[i]
    BY <1>10, <1>11
  <2>2. NoSharedSpace /\ WriteDat(v, a.at) /\ freeFile' = a.file /\ freeList' = a.list
    BY <1>4 DEF IInv
  <2>3. QED  BY <1>1, <1>2, <1>5, <2>1, <2>2, PlacedRecord
<1>13. OnePerKey(idxFile')
  BY <1>2, <1>9, <1>10 DEF OnePerKey, ValidRecs
<1>14. Agree(index', idxFile')
  <2>1. DOMAIN index' = DOMAIN index  BY <1>4
  <2>2. \A x \in DOMAIN index : x # k => index[x]' = index[x]  BY <1>4
  <2>3. /\ index[k]'.rec = r /\ index[k]'.off = Place(a.at)
        /\ index[k]'.len = Len(v)
    BY <1>3, <1>4, <1>6 DEF Entry
  <2>4. \A i \in ValidRecs(idxFile') : idxFile[i]'.key \in DOMAIN index'
    BY <1>2, <1>9, <1>10, <2>1 DEF Agree, ValidRecs
  <2>5. ASSUME NEW x \in DOMAIN index'
        PROVE  /\ index[x]'.rec \in ValidRecs(idxFile')
               /\ idxFile[index[x].rec]'.key = x
               /\ index[x]'.off = idxFile[index[x].rec]'.off
               /\ index[x]'.len = idxFile[index[x].rec]'.len
    <3>1. CASE x = k
      BY <1>6, <1>9, <1>10, <1>11, <2>3, <3>1 DEF ValidRecs
    <3>2. CASE x # k
      <4>1. x \in DOMAIN index /\ index[x]' = index[x]  BY <2>1, <2>2, <3>2
      <4>2. PICK q \in ValidRecs(idxFile) : q = index[x].rec
        BY <1>2, <4>1 DEF Agree
      <4>3. idxFile[q].key = x /\ index[x].off = idxFile[q].off
            /\ index[x].len = idxFile[q].len
        BY <1>2, <4>1, <4>2 DEF Agree
      <4>4. q # r  BY <1>6, <3>2, <4>3
      <4>5. q \in ValidRecs(idxFile') /\ idxFile[q]' = idxFile[q]
        BY <1>10, <1>11, <4>4
      <4>6. QED  BY <4>1, <4>2, <4>3, <4>5
    <3>3. QED  BY <3>1, <3>2
  <2>6. QED  BY <2>4, <2>5 DEF Agree
<1>15. opened'  BY DEF UpdateFound
<1>16. ~torn'
  <2>1. OwnRecord(idxFile, k, index[k].rec)  BY <1>6 DEF OwnRecord, ValidRecs
  <2>2. QED  BY <2>1 DEF UpdateFound, IInv
<1>17. QED  BY <1>1, <1>12, <1>13, <1>14, <1>15, <1>16, AgreesOpen

\* An erase keeps the invariant: the key's extent goes from its record to a
\* slot of .free.
LEMMA EraseFoundInv ==
  ASSUME SafeCalls, IInv, NEW k \in Keys, opened, EraseFound(k)
  PROVE  IInv'
<1>1. TypeOK /\ TypeOK'  BY EraseFoundType DEF IInv
<1>2. OnePerKey(idxFile) /\ Agree(index, idxFile)
      /\ Offered(freeList) \subseteq LoadFree(freeFile)
  BY OpenAgrees
<1>3. k \in DOMAIN index  BY DEF EraseFound
<1>4. PICK r \in ValidRecs(idxFile) :
        /\ r = index[k].rec /\ idxFile[r].key = k
        /\ idxFile[r].off = index[k].off /\ idxFile[r].len = index[k].len
  BY <1>2, <1>3 DEF Agree
<1>5. /\ idxFile' = Invalidate(idxFile, r)
      /\ datFile' = datFile /\ opened'
      /\ index' = [x \in DOMAIN index \ {k} |-> index[x]]
      /\ freeFile' = Append(freeFile, Slot(idxFile[r].off, idxFile[r].len))
      /\ freeList' = freeList \cup {[off |-> idxFile[r].off, len |-> idxFile[r].len,
                                     slot |-> Len(freeFile) + 1]}
      /\ torn' = (torn \/ ~OwnRecord(idxFile, k, r))
  BY <1>4 DEF EraseFound, FreedRecord, SafeCalls, AppendSlot
<1>6. \A i \in 1..Len(idxFile) : idxFile[i] \in Records
  BY <1>1, ElementOfSeq DEF TypeOK
<1>7. /\ Len(idxFile') = Len(idxFile)
      /\ \A i \in 1..Len(idxFile) :
           idxFile[i]' = [idxFile[i] EXCEPT !.valid = @ /\ i # r]
  BY <1>1, <1>5, LenProperties DEF Invalidate, TypeOK
<1>8. \A i \in 1..Len(idxFile) :
        /\ idxFile[i]'.key = idxFile[i].key
        /\ idxFile[i]'.off = idxFile[i].off /\ idxFile[i]'.len = idxFile[i].len
        /\ idxFile[i]'.valid <=> idxFile[i].valid /\ i # r
  BY <1>6, <1>7 DEF Records
<1>9. ValidRecs(idxFile') = ValidRecs(idxFile) \ {r}
  BY <1>7, <1>8 DEF ValidRecs
<1>10. \A i \in ValidRecs(idxFile) :
         /\ idxFile[i]'.key = idxFile[i].key
         /\ idxFile[i]'.off = idxFile[i].off /\ idxFile[i]'.len = idxFile[i].len
  BY <1>8 DEF ValidRecs
<1>11. OnePerKey(idxFile')  BY <1>2, <1>9, <1>10 DEF OnePerKey
<1>12. Agree(index', idxFile')
  <2>1. DOMAIN index' = DOMAIN index \ {k}
        /\ \A x \in DOMAIN index' : index[x]' = index[x]
    BY <1>5
  <2>2. ASSUME NEW i \in ValidRecs(idxFile')  PROVE idxFile[i]'.key \in DOMAIN index'
    <3>1. i \in ValidRecs(idxFile) /\ i # r  BY <1>9
    <3>2. idxFile[i].key # k /\ idxFile[i].key \in DOMAIN index
      BY <1>2, <1>4, <3>1 DEF OnePerKey, Agree
    <3>3. QED  BY <1>10, <2>1, <3>1, <3>2
  <2>3. ASSUME NEW x \in DOMAIN index'
        PROVE  /\ index[x]'.rec \in ValidRecs(idxFile')
               /\ idxFile[index[x].rec]'.key = x
               /\ index[x]'.off = idxFile[index[x].rec]'.off
               /\ index[x]'.len = idxFile[index[x].rec]'.len
    <3>1. x \in DOMAIN index /\ x # k /\ index[x]' = index[x]  BY <2>1
    <3>2. PICK q \in ValidRecs(idxFile) : q = index[x].rec
      BY <1>2, <3>1 DEF Agree
    <3>3. idxFile[q].key = x /\ index[x].off = idxFile[q].off
          /\ index[x].len = idxFile[q].len
      BY <1>2, <3>1, <3>2 DEF Agree
    <3>4. q # r  BY <1>4, <3>1, <3>3
    <3>5. QED  BY <1>9, <1>10, <3>1, <3>2, <3>3, <3>4
  <2>4. QED  BY <2>2, <2>3 DEF Agree
<1>13. r \in 1..Len(idxFile) /\ idxFile[r] \in Records
  BY <1>6 DEF ValidRecs
<1>14. /\ Len(freeFile) \in Nat /\ Len(freeFile') = Len(freeFile) + 1
       /\ \A s \in 1..Len(freeFile) : freeFile[s]' = freeFile[s]
       /\ freeFile'[Len(freeFile) + 1] = Slot(idxFile[r].off, idxFile[r].len)
  <2>1. Slot(idxFile[r].off, idxFile[r].len) \in Slots
    BY <1>13 DEF Slot, Slots, Records
  <2>2. QED  BY <1>1, <1>5, <2>1, AppendProperties, LenProperties DEF TypeOK
\* Apart looks at offset and length only, and either way round.
<1>15. \A b, c, d : b.off = c.off /\ b.len = c.len =>
         /\ Apart(c, d) => Apart(b, d)
         /\ Apart(d, c) => Apart(d, b)
  BY DEF Apart
<1>16. \A b, c : Apart(b, c) => Apart(c, b)  BY DEF Apart
\* A slot of the new .free file is one of the old or the record's extent.
<1>17. ASSUME NEW s \in 1..Len(freeFile')
       PROVE  \/ s \in 1..Len(freeFile) /\ freeFile[s]' = freeFile[s]
              \/ /\ s = Len(freeFile) + 1
                 /\ freeFile[s]'.off = idxFile[r].off
                 /\ freeFile[s]'.len = idxFile[r].len
  BY <1>14 DEF Slot
<1>18. RecordsApart'
  BY <1>9, <1>10, <1>15 DEF IInv, NoSharedSpace, RecordsApart
<1>19. SlotsApart'
  <2> SUFFICES ASSUME NEW s \in 1..Len(freeFile'), NEW t \in 1..Len(freeFile'),
                      s # t
               PROVE  Apart(freeFile[s]', freeFile[t]')
    BY DEF SlotsApart
  <2>1. CASE s \in 1..Len(freeFile) /\ t \in 1..Len(freeFile)
    BY <1>14, <2>1 DEF IInv, NoSharedSpace, SlotsApart
  <2>2. CASE s \in 1..Len(freeFile) /\ t \notin 1..Len(freeFile)
    <3>1. Apart(idxFile[r], freeFile[s])
      BY <2>2 DEF IInv, NoSharedSpace, RecordsNotFree
    <3>2. QED  BY <1>14, <1>15, <1>16, <1>17, <2>2, <3>1
  <2>3. CASE t \in 1..Len(freeFile) /\ s \notin 1..Len(freeFile)
    <3>1. Apart(idxFile[r], freeFile[t])
      BY <2>3 DEF IInv, NoSharedSpace, RecordsNotFree
    <3>2. QED  BY <1>14, <1>15, <1>17, <2>3, <3>1
  <2>4. QED  BY <1>17, <2>1, <2>2, <2>3
<1>20. RecordsNotFree'
  <2> SUFFICES ASSUME NEW i \in ValidRecs(idxFile'), NEW s \in 1..Len(freeFile')
               PROVE  Apart(idxFile[i]', freeFile[s]')
    BY DEF RecordsNotFree
  <2>1. i \in ValidRecs(idxFile) /\ i # r  BY <1>9
  <2>2. CASE s \in 1..Len(freeFile)
    <3>1. Apart(idxFile[i], freeFile[s])
      BY <2>1, <2>2 DEF IInv, NoSharedSpace, RecordsNotFree
    <3>2. QED  BY <1>10, <1>14, <1>15, <2>1, <2>2, <3>1
  <2>3. CASE s \notin 1..Len(freeFile)
    <3>1. Apart(idxFile[i], idxFile[r])
      BY <2>1 DEF IInv, NoSharedSpace, RecordsApart
    <3>2. Apart(idxFile[i]', idxFile[r])  BY <1>10, <1>15, <2>1, <3>1
    <3>3. QED  BY <1>15, <1>17, <2>3, <3>2
  <2>4. QED  BY <2>2, <2>3
<1>21. AllWithin'
  <2>1. \A i \in ValidRecs(idxFile) : Within(idxFile[i])
    BY DEF IInv, NoSharedSpace, AllWithin
  <2>2. \A s \in 1..Len(freeFile) : Within(freeFile[s])
    BY DEF IInv, NoSharedSpace, AllWithin
  <2>3. QED  BY <1>5, <1>9, <1>10, <1>17, <2>1, <2>2 DEF AllWithin, Within
<1>22. Offered(freeList') \subseteq LoadFree(freeFile')
  <2>1. ASSUME NEW f \in Offered(freeList)  PROVE f \in LoadFree(freeFile')
    <3>1. PICK s \in UsedSlots(freeFile) :
            f = [off |-> freeFile[s].off, len |-> freeFile[s].len, slot |-> s]
      BY <1>2 DEF LoadFree
    <3>2. s \in UsedSlots(freeFile') /\ freeFile[s]' = freeFile[s]
      BY <1>14, <3>1 DEF UsedSlots
    <3>3. QED  BY <3>1, <3>2 DEF LoadFree
  <2>2. ASSUME idxFile[r].len # 0
        PROVE  [off |-> idxFile[r].off, len |-> idxFile[r].len,
                slot |-> Len(freeFile) + 1] \in LoadFree(freeFile')
    <3>1. Len(freeFile) + 1 \in UsedSlots(freeFile')
      BY <1>14, <2>2 DEF UsedSlots, Slot
    <3>2. QED  BY <1>14, <3>1 DEF LoadFree, Slot
  <2>3. QED  BY <1>5, <2>1, <2>2 DEF Offered
<1>23. ~torn'  BY <1>4, <1>5 DEF OwnRecord, ValidRecs, IInv
<1>24. NoSharedSpace'  BY <1>18, <1>19, <1>20, <1>21 DEF NoSharedSpace
<1>25. QED  BY <1>1, <1>5, <1>11, <1>12, <1>22, <1>23, <1>24, AgreesOpen

\* Opening and closing keep the invariant.
LEMMA OpenCloseInv ==
  ASSUME "reuse" \notin Calls \/ opened \/ (index = NoKeys /\ freeList = {}),
         IInv, TypeOK',
         Open \/ Close \/ \E mode \in CacheModes : Construct(mode)
  PROVE  IInv'
<1>1. UNCHANGED files
  BY DEF Open, Close, Construct
<1>2. NoSharedSpace' /\ OneRecordPerKey'
  BY <1>1 DEF IInv, files, NoSharedSpace, OneRecordPerKey, RecordsApart,
              SlotsApart, RecordsNotFree, AllWithin, Within, ValidRecs
<1>3. CASE Open
  <2>1. index = NoKeys /\ freeList = {}  BY <1>3 DEF Open
  <2>2. index' = LoadIndex(idxFile)
    <3>1. IndexesRead = {LoadIndex(idxFile)}  BY DEF IndexesRead, IInv
    <3>2. index' = [k \in DOMAIN index \cup DOMAIN LoadIndex(idxFile) |->
                      IF k \in DOMAIN index THEN index[k]
                      ELSE LoadIndex(idxFile)[k]]
      BY <1>3, <3>1 DEF Open
    <3>3. QED  BY <2>1, <3>2, LoadIndexType DEF NoKeys, IInv, TypeOK
  <2>3. freeList' = LoadFree(freeFile)  BY <1>3, <2>1 DEF Open
  <2>4. opened' /\ idxFile' = idxFile /\ freeFile' = freeFile /\ torn' = torn
    BY <1>1, <1>3 DEF Open, files
  <2>5. QED
    BY <1>2, <2>2, <2>3, <2>4 DEF IInv, ReloadAgrees, IndexesRead, Offered
<1>4. CASE ~Open
  <2>1. ~opened' /\ torn' = torn
    BY <1>1, <1>4 DEF Close, Construct, files
  <2>2. QED  BY <1>2, <2>1 DEF IInv, ReloadAgrees
<1>5. QED  BY <1>3, <1>4

\* A step that leaves the files, the index and the free list alone keeps the
\* invariant.
LEMMA ReadOnlyInv ==
  ASSUME IInv, TypeOK', UNCHANGED <<opened, index, freeList, files>>
  PROVE  IInv'
BY DEF IInv, files, NoSharedSpace, OneRecordPerKey, RecordsApart, SlotsApart,
       RecordsNotFree, AllWithin, Within, ValidRecs, ReloadAgrees, IndexesRead

\* Empty files share nothing.
LEMMA EmptyInv ==
  ASSUME TypeOK, idxFile = <<>>, freeFile = <<>>, ~torn, ~opened
  PROVE  IInv
<1>1. ValidRecs(idxFile) = {} /\ 1..Len(freeFile) = {}
  BY EmptySeq DEF ValidRecs
<1>2. QED
  BY <1>1 DEF IInv, NoSharedSpace, OneRecordPerKey, RecordsApart, SlotsApart,
              RecordsNotFree, AllWithin, ReloadAgrees

\* The invariant holds in the initial states.
LEMMA InitInv == Init => IInv
<1> SUFFICES ASSUME Init PROVE IInv  OBVIOUS
<1>1. TypeOK  BY InitType
<1>2. idxFile = <<>> /\ freeFile = <<>> /\ ~torn /\ ~opened  BY DEF Init
<1>3. QED  BY <1>1, <1>2, EmptyInv

\* Destroying a database keeps it.
LEMMA DestroyInv ==
  ASSUME TypeOK', Destroy
  PROVE  IInv'
<1>1. /\ idxFile' = <<>> /\ freeFile' = <<>> /\ ~torn' /\ ~opened'
      /\ 1..Len(idxFile') = {} /\ 1..Len(freeFile') = {}
  BY EmptySeq DEF Destroy
<1>2. ValidRecs(idxFile') = {}  BY <1>1 DEF ValidRecs
<1>3. NoSharedSpace' /\ OneRecordPerKey'
  BY <1>1, <1>2 DEF NoSharedSpace, OneRecordPerKey, RecordsApart, SlotsApart,
                    RecordsNotFree, AllWithin
<1>4. QED  BY <1>1, <1>3 DEF IInv, ReloadAgrees

\* Every call keeps the invariant.
LEMMA InvStep ==
  ASSUME SafeCalls, IInv, [Next]_vars
  PROVE  IInv'
<1>1. TypeOK'  BY TypeStep DEF IInv
<1>2. CASE Open \/ Close \/ \E mode \in CacheModes : Construct(mode)
  BY <1>1, <1>2, OpenCloseInv DEF SafeCalls
<1>3. ASSUME Destroy PROVE IInv'  BY <1>1, <1>3, DestroyInv
<1>4. ASSUME NEW on \in BOOLEAN, SwitchCache(on) PROVE IInv'
  BY <1>1, <1>4, ReadOnlyInv DEF SwitchCache
<1>5. ASSUME NEW k \in Keys, NotFound(k) PROVE IInv'
  BY <1>1, <1>5, ReadOnlyInv DEF NotFound, memory
<1>6. ASSUME NEW k \in Keys, NEW v \in Values, Set(k, v) PROVE IInv'
  <2>1. CASE SetTaken(k)  BY <1>1, <2>1, ReadOnlyInv DEF SetTaken, memory
  <2>2. CASE SetNew(k, v)  BY <1>6, <2>2, SetNewInv DEF Set
  <2>3. QED  BY <1>6, <2>1, <2>2 DEF Set
<1>7. ASSUME NEW k \in Keys, NEW v \in Values, Update(k, v) PROVE IInv'
  BY <1>5, <1>7, UpdateFoundInv DEF Update
<1>8. ASSUME NEW k \in Keys, Erase(k) PROVE IInv'
  BY <1>5, <1>8, EraseFoundInv DEF Erase
<1>9. ASSUME NEW k \in Keys, Get(k) \/ GetCached(k) PROVE IInv'
  <2>1. NotFound(k) \/ UNCHANGED <<opened, memory, files, datPos>>
    BY <1>9 DEF Get, GetCached
  <2>2. CASE UNCHANGED <<opened, memory, files, datPos>>
    BY <1>1, <2>2, ReadOnlyInv DEF memory
  <2>3. QED  BY <1>5, <2>1, <2>2
<1>10. CASE UNCHANGED vars
  BY <1>1, <1>10, ReadOnlyInv DEF vars, files
<1>11. QED
  BY <1>2, <1>3, <1>4, <1>6, <1>7, <1>8, <1>9, <1>10 DEF Next, KeyCall

\* The inductive invariant holds in every reachable state.
THEOREM Invariance == ASSUME SafeCalls PROVE Spec => []IInv
<1>1. Init => IInv  BY InitInv
<1>2. IInv /\ [Next]_vars => IInv'  BY InvStep
<1>3. QED  BY <1>1, <1>2, PTL DEF Spec

\* No byte of .dat has two owners, whatever is set, updated without growing,
\* erased and reopened, and whatever the values' lengths.
THEOREM SpaceSafe == ASSUME SafeCalls PROVE Spec => []NoSharedSpace
<1>1. IInv => NoSharedSpace  BY DEF IInv
<1>2. QED  BY <1>1, Invariance, PTL

\* The index in memory is the one the files would give, and the free list
\* offers nothing that .free does not list.
THEOREM ReloadSafe == ASSUME SafeCalls PROVE Spec => []ReloadAgrees
<1>1. IInv => ReloadAgrees  BY DEF IInv
<1>2. QED  BY <1>1, Invariance, PTL

\* An erased key leaves no older record behind that a reopening would revive.
THEOREM RecordsUnique == ASSUME SafeCalls PROVE Spec => []OneRecordPerKey
<1>1. IInv => OneRecordPerKey  BY DEF IInv
<1>2. QED  BY <1>1, Invariance, PTL

-----------------------------------------------------------------------------
(* The cache of a database is its .dat file, and the files of a database   *)
(* implement the map of KVStore, for every set of keys, bytes and values.  *)

(***************************************************************************)
(* Lemmas on bytes.                                                        *)
(***************************************************************************)

\* The elements of a file after pwrite, and how many there are.
LEMMA PWriteAt ==
  ASSUME NEW f \in Seq(Byte), NEW b \in Seq(Byte), NEW o \in Nat
  PROVE  /\ Len(PWrite(f, b, o)) \in Nat
         /\ \A i \in 1..Len(PWrite(f, b, o)) :
              PWrite(f, b, o)[i] =
                IF o < i /\ i <= o + Len(b) THEN b[i - o]
                ELSE IF i <= Len(f) THEN f[i] ELSE Zero
         /\ o + Len(b) <= Len(f) => Len(PWrite(f, b, o)) = Len(f)
         /\ o = Len(f) => Len(PWrite(f, b, o)) = Len(f) + Len(b)
<1> DEFINE end == IF b = <<>> \/ o + Len(b) <= Len(f) THEN Len(f)
                  ELSE o + Len(b)
<1>1. Len(f) \in Nat /\ Len(b) \in Nat  BY LenProperties
<1>2. b = <<>> => Len(b) = 0  BY EmptySeq
<1>3. end \in Nat  BY <1>1
<1>4. PWrite(f, b, o) =
        [i \in 1..end |-> IF o < i /\ i <= o + Len(b) THEN b[i - o]
                          ELSE IF i <= Len(f) THEN f[i] ELSE Zero]
  BY DEF PWrite
<1>5. /\ o + Len(b) <= Len(f) => end = Len(f)
      /\ o = Len(f) => end = Len(f) + Len(b)
  BY <1>1, <1>2
<1> HIDE DEF end
<1>6. Len(PWrite(f, b, o)) = end  BY <1>3, <1>4
<1>7. QED  BY <1>3, <1>4, <1>5, <1>6

\* What was written is read back.
LEMMA ReadBack ==
  ASSUME NEW f \in Seq(Byte), NEW b \in Seq(Byte), NEW o \in Nat
  PROVE  ReadDat(PWrite(f, b, o), o, Len(b)) = b
<1>1. Len(b) \in Nat /\ Len(f) \in Nat  BY LenProperties
<1>2. Len(PWrite(f, b, o)) \in Nat
      /\ (Len(b) = 0 \/ Len(PWrite(f, b, o)) >= o + Len(b))
  BY PWriteLen
<1>3. ASSUME NEW i \in 1..Len(b)
      PROVE  o + i <= Len(PWrite(f, b, o)) /\ PWrite(f, b, o)[o + i] = b[i]
  <2>1. o + i \in 1..Len(PWrite(f, b, o))  BY <1>1, <1>2
  <2>2. o < o + i /\ o + i <= o + Len(b) /\ (o + i) - o = i  BY <1>1
  <2>3. QED  BY <2>1, <2>2, PWriteAt
<1>4. ReadDat(PWrite(f, b, o), o, Len(b)) = [i \in 1..Len(b) |-> b[i]]
  BY <1>3 DEF ReadDat
<1>5. QED  BY <1>4, LenProperties

\* What is apart from what was written is read as before.
LEMMA ReadOther ==
  ASSUME NEW f \in Seq(Byte), NEW b \in Seq(Byte), NEW o \in Nat,
         NEW p \in Nat, NEW n \in Nat,
         n = 0 \/ p + n <= Len(f),
         n = 0 \/ Len(b) = 0 \/ p + n <= o \/ o + Len(b) <= p
  PROVE  ReadDat(PWrite(f, b, o), p, n) = ReadDat(f, p, n)
<1>1. Len(b) \in Nat /\ Len(f) \in Nat  BY LenProperties
<1>2. Len(PWrite(f, b, o)) \in Nat /\ Len(PWrite(f, b, o)) >= Len(f)
  BY PWriteLen
<1>3. ASSUME NEW i \in 1..n
      PROVE  /\ p + i <= Len(PWrite(f, b, o)) /\ p + i <= Len(f)
             /\ PWrite(f, b, o)[p + i] = f[p + i]
  <2>1. p + i <= Len(f)  BY <1>1
  <2>2. p + i \in 1..Len(PWrite(f, b, o))  BY <1>1, <1>2, <2>1
  <2>3. ~(o < p + i /\ p + i <= o + Len(b))  BY <1>1
  <2>4. QED  BY <1>2, <2>1, <2>2, <2>3, PWriteAt
<1>4. QED  BY <1>3 DEF ReadDat

(***************************************************************************)
(* The cache.  The callers make no update of a cached database and do not  *)
(* switch its cache.                                                       *)
(***************************************************************************)
CacheCalls ==
  SafeCalls /\ "shrink_cached" \notin Calls /\ "switch_cache" \notin Calls

\* The same bytes are put into the cache and into .dat.
LEMMA CacheWriteIsPWrite ==
  ASSUME NEW f \in Seq(Byte), NEW v \in Seq(Byte), NEW at \in Nat \cup {NPos},
         at = NPos \/ at + Len(v) <= Len(f)
  PROVE  CacheWrite(f, v, at) =
           PWrite(f, v, IF at = NPos THEN Len(f) ELSE at)
<1>1. Len(v) \in Nat /\ Len(f) \in Nat  BY LenProperties
<1>2. CASE at = NPos
  <2> DEFINE w == PWrite(f, v, Len(f))
  <2>1. CacheWrite(f, v, at) = f \o v  BY <1>2 DEF CacheWrite
  <2>2. w \in Seq(Byte) /\ Len(w) = Len(f) + Len(v)
    BY <1>1, PWriteType, PWriteAt
  <2>3. \A i \in 1..Len(w) :
          w[i] = IF Len(f) < i /\ i <= Len(f) + Len(v) THEN v[i - Len(f)]
                 ELSE IF i <= Len(f) THEN f[i] ELSE Zero
    BY <1>1, PWriteAt
  <2> HIDE DEF w
  <2>4. f \o v \in Seq(Byte) /\ Len(f \o v) = Len(f) + Len(v)
        /\ \A i \in 1..Len(f) + Len(v) :
             (f \o v)[i] = IF i <= Len(f) THEN f[i] ELSE v[i - Len(f)]
    BY ConcatProperties
  <2>5. \A i \in 1..Len(w) : w[i] = (f \o v)[i]
    BY <1>1, <2>2, <2>3, <2>4
  <2>6. w = f \o v  BY <2>2, <2>4, <2>5, SeqEqual
  <2>7. QED  BY <1>2, <2>1, <2>6 DEF w
<1>3. CASE at # NPos
  <2> DEFINE w == PWrite(f, v, at)
  <2>1. at \in Nat /\ at + Len(v) <= Len(f)  BY <1>3
  <2>2. w \in Seq(Byte) /\ Len(w) = Len(f)
        /\ \A i \in 1..Len(w) :
             w[i] = IF at < i /\ i <= at + Len(v) THEN v[i - at]
                    ELSE IF i <= Len(f) THEN f[i] ELSE Zero
    BY <2>1, PWriteType, PWriteAt
  <2> HIDE DEF w
  <2>3. w = [i \in 1..Len(f) |-> w[i]]  BY <2>2, LenProperties
  <2>4. CacheWrite(f, v, at) =
          [i \in 1..Len(f) |-> IF at < i /\ i <= at + Len(v) THEN v[i - at]
                               ELSE f[i]]
    BY <1>3 DEF CacheWrite, WriteAt
  <2>5. \A i \in 1..Len(f) :
          w[i] = IF at < i /\ i <= at + Len(v) THEN v[i - at] ELSE f[i]
    BY <1>1, <2>2
  <2>6. CacheWrite(f, v, at) = w  BY <2>3, <2>4, <2>5
  <2>7. QED  BY <1>3, <2>6 DEF w
<1>4. QED  BY <1>2, <1>3

\* An allocation's offset is one of the cases CacheWriteIsPWrite has.
LEMMA AllocationAt ==
  ASSUME TypeOK, NoSharedSpace, Offered(freeList) \subseteq LoadFree(freeFile),
         NEW n \in Nat, NEW a \in Allocations(n)
  PROVE  /\ a.at \in Nat \cup {NPos} /\ Place(a.at) \in Nat
         /\ a.at = NPos \/ a.at + n <= Len(datFile)
<1>1. a.at \in Nat \cup {NPos}
  BY AllocationsType DEF TypeOK, Places
<1>2. a.at = NPos \/ Extent(Place(a.at), n).off + n <= Len(datFile)
  BY AllocationSafe
<1>3. Extent(Place(a.at), n).off \in Nat  BY AllocationSafe
<1>4. QED  BY <1>1, <1>2, <1>3 DEF Extent, Place

\* Every call keeps the cache equal to the file.
LEMMA CacheStep ==
  ASSUME CacheCalls, IInv, CacheMirrorsFile, [Next]_vars
  PROVE  CacheMirrorsFile'
<1>1. CASE Open
  <2>1. LoadDat(datFile, 0, cache) = datFile
    <3>1. datFile \in Seq(Byte)  BY DEF IInv, TypeOK
    <3>2. \A i \in 1..Len(datFile) : 0 + i <= Len(datFile) /\ 0 + i = i
      BY <3>1, LenProperties
    <3>3. LoadDat(datFile, 0, cache) = [i \in 1..Len(datFile) |-> datFile[i]]
      BY <3>2 DEF LoadDat
    <3>4. QED  BY <3>1, <3>3, LenProperties
  <2>2. QED  BY <1>1, <2>1 DEF Open, CacheMirrorsFile, files
<1>2. CASE Close \/ \E mode \in CacheModes : Construct(mode)
  BY <1>2 DEF Close, Construct, CacheMirrorsFile
<1>3. ASSUME Destroy PROVE CacheMirrorsFile'
  BY <1>3 DEF Destroy, CacheMirrorsFile
<1>4. ASSUME NEW on \in BOOLEAN, SwitchCache(on) PROVE CacheMirrorsFile'
  BY <1>4 DEF SwitchCache, CacheCalls
<1>5. ASSUME NEW k \in Keys, NotFound(k) PROVE CacheMirrorsFile'
  BY <1>5 DEF NotFound, memory, files, CacheMirrorsFile
<1>6. ASSUME NEW k \in Keys, NEW v \in Values, Set(k, v)
      PROVE  CacheMirrorsFile'
  <2>1. CASE SetTaken(k)
    BY <2>1 DEF SetTaken, memory, files, CacheMirrorsFile
  <2>2. CASE SetNew(k, v)
    <3>1. PICK a \in Allocations(Len(v)) :
            /\ cache' = IF cached THEN CacheWrite(cache, v, a.at) ELSE cache
            /\ WriteDat(v, a.at)
      BY <2>2 DEF SetNew
    <3>2. v \in Seq(Byte) /\ Len(v) \in Nat  BY ByteAssumption, LenProperties
    <3>3. Offered(freeList) \subseteq LoadFree(freeFile)
      BY <1>6 DEF Set, IInv, ReloadAgrees
    <3>4. a.at \in Nat \cup {NPos}
          /\ (a.at = NPos \/ a.at + Len(v) <= Len(datFile))
      BY <3>2, <3>3, AllocationAt DEF IInv
    <3>5. datFile \in Seq(Byte)  BY DEF IInv, TypeOK
    <3>6. CacheWrite(datFile, v, a.at) = datFile'
      BY <3>1, <3>2, <3>4, <3>5, CacheWriteIsPWrite DEF WriteDat, Place
    <3>7. opened /\ opened' = opened /\ cached' = cached
      BY <1>6, <2>2 DEF Set, SetNew
    <3>8. QED  BY <3>1, <3>6, <3>7 DEF CacheMirrorsFile
  <2>3. QED  BY <1>6, <2>1, <2>2 DEF Set
<1>7. ASSUME NEW k \in Keys, NEW v \in Values, Update(k, v)
      PROVE  CacheMirrorsFile'
  <2>1. ASSUME UpdateFound(k, v) PROVE CacheMirrorsFile'
    <3>1. ~cached
      BY <2>1 DEF UpdateFound, KindOfUpdate, CacheCalls, SafeCalls
    <3>2. QED  BY <2>1, <3>1 DEF UpdateFound, CacheMirrorsFile
  <2>2. QED  BY <1>5, <1>7, <2>1 DEF Update
<1>8. ASSUME NEW k \in Keys, Erase(k) PROVE CacheMirrorsFile'
  BY <1>5, <1>8 DEF Erase, EraseFound, CacheMirrorsFile
<1>9. ASSUME NEW k \in Keys, Get(k) \/ GetCached(k) PROVE CacheMirrorsFile'
  BY <1>5, <1>9 DEF Get, GetCached, memory, files, CacheMirrorsFile
<1>10. CASE UNCHANGED vars
  BY <1>10 DEF vars, CacheMirrorsFile
<1>11. QED
  BY <1>1, <1>2, <1>3, <1>4, <1>6, <1>7, <1>8, <1>9, <1>10 DEF Next, KeyCall

\* While no key of a cached database is updated and no cache is switched, the
\* cache of an open cached database is its .dat file, byte for byte, through
\* every set, every reuse of a free extent and every reopening, also after the
\* database was used without a cache.
THEOREM CacheSafe == ASSUME CacheCalls PROVE Spec => []CacheMirrorsFile
<1>1. Init => CacheMirrorsFile  BY DEF Init, CacheMirrorsFile
<1>2. IInv /\ CacheMirrorsFile /\ [Next]_vars => CacheMirrorsFile'
  BY CacheStep
<1>3. Spec => []IInv  BY Invariance DEF CacheCalls
<1>4. QED  BY <1>1, <1>2, <1>3, PTL DEF Spec

(***************************************************************************)
(* Refinement.  The callers read from the file, or they read from a cache  *)
(* that is the file.                                                       *)
(***************************************************************************)
ReadCalls == SafeCalls /\ ("get_cached" \in Calls => CacheCalls)

RInv == IInv /\ ("get_cached" \in Calls => CacheMirrorsFile)

\* The stored values, read through the index of an open database.
LEMMA StoredOpen ==
  ASSUME IInv, opened
  PROVE  Stored = [k \in DOMAIN index |->
                     ReadDat(datFile, index[k].off, index[k].len)]
BY DEF IInv, ReloadAgrees, IndexesRead, Stored

\* The same, after a step.
LEMMA StoredOpenNext ==
  ASSUME IInv', opened'
  PROVE  Stored' = [k \in DOMAIN index' |->
                      ReadDat(datFile', index[k]'.off, index[k]'.len)]
BY DEF IInv, ReloadAgrees, IndexesRead, Stored

\* The stored values are what the files hold.
LEMMA StoredSame ==
  ASSUME UNCHANGED files
  PROVE  Stored' = Stored
BY DEF files, Stored

\* What a key's entry says of .dat.
LEMMA EntryWithin ==
  ASSUME IInv, opened, NEW k \in DOMAIN index
  PROVE  /\ index[k].off \in Nat /\ index[k].len \in Nat
         /\ index[k].len = 0 \/ index[k].off + index[k].len <= Len(datFile)
<1>1. index[k] \in Entries  BY DEF IInv, TypeOK
<1>2. Agree(index, idxFile)  BY OpenAgrees
<1>3. PICK r \in ValidRecs(idxFile) :
        idxFile[r].off = index[k].off /\ idxFile[r].len = index[k].len
  BY <1>2 DEF Agree
<1>4. Within(idxFile[r])  BY DEF IInv, NoSharedSpace, AllWithin
<1>5. QED  BY <1>1, <1>3, <1>4 DEF Entries, Within

\* Writing to the place an allocation gave changes no other key's value.
LEMMA OthersKeep ==
  ASSUME IInv, opened, NEW v \in Seq(Byte), NEW a \in Allocations(Len(v)),
         WriteDat(v, a.at), NEW k \in DOMAIN index
  PROVE  ReadDat(datFile', index[k].off, index[k].len)
           = ReadDat(datFile, index[k].off, index[k].len)
<1>1. Len(v) \in Nat  BY LenProperties
<1>2. TypeOK /\ NoSharedSpace /\ Offered(freeList) \subseteq LoadFree(freeFile)
      /\ Agree(index, idxFile)
  BY OpenAgrees DEF IInv
<1>3. PICK r \in ValidRecs(idxFile) :
        idxFile[r].off = index[k].off /\ idxFile[r].len = index[k].len
  BY <1>2 DEF Agree
<1>4. Apart(idxFile[r], Extent(Place(a.at), Len(v)))
  BY <1>1, <1>2, AllocationSafe
<1>5. Place(a.at) \in Nat  BY <1>1, <1>2, AllocationAt
<1>6. \/ index[k].len = 0 \/ Len(v) = 0
      \/ index[k].off + index[k].len <= Place(a.at)
      \/ Place(a.at) + Len(v) <= index[k].off
  BY <1>3, <1>4 DEF Apart, Extent
<1>7. datFile \in Seq(Byte) /\ datFile' = PWrite(datFile, v, Place(a.at))
  BY <1>2 DEF TypeOK, WriteDat
<1>8. QED  BY <1>5, <1>6, <1>7, EntryWithin, ReadOther

\* What was written there is the value of the key that was set or updated.
LEMMA KeyGets ==
  ASSUME IInv, opened, NEW v \in Seq(Byte), NEW a \in Allocations(Len(v)),
         WriteDat(v, a.at)
  PROVE  ReadDat(datFile', Place(a.at), Len(v)) = v
<1>1. Len(v) \in Nat  BY LenProperties
<1>2. Place(a.at) \in Nat
  BY <1>1, OpenAgrees, AllocationAt DEF IInv
<1>3. QED  BY <1>2, ReadBack DEF WriteDat, IInv, TypeOK

\* A new key is a Set of the map.
LEMMA SetNewMaps ==
  ASSUME IInv, IInv', opened, NEW k \in Keys, NEW v \in Values, SetNew(k, v)
  PROVE  KV!Set(k, v)
<1>1. PICK a \in Allocations(Len(v)) :
        /\ WriteDat(v, a.at)
        /\ index' = [x \in DOMAIN index \cup {k} |->
                       IF x = k THEN Entry(Place(a.at), Len(v), Len(idxFile) + 1)
                                ELSE index[x]]
  BY DEF SetNew
<1>2. v \in Seq(Byte)  BY ByteAssumption
<1>3. Stored = [x \in DOMAIN index |->
                  ReadDat(datFile, index[x].off, index[x].len)]
  BY StoredOpen
<1>4. Stored' = [x \in DOMAIN index' |->
                   ReadDat(datFile', index[x]'.off, index[x]'.len)]
  BY StoredOpenNext DEF SetNew
<1>5. k \notin DOMAIN index /\ DOMAIN index' = DOMAIN index \cup {k}
  BY <1>1 DEF SetNew
<1>6. ReadDat(datFile', index[k]'.off, index[k]'.len) = v
  <2>1. index[k]'.off = Place(a.at) /\ index[k]'.len = Len(v)
    BY <1>1 DEF Entry
  <2>2. QED  BY <1>1, <1>2, <2>1, KeyGets
<1>7. ASSUME NEW x \in DOMAIN index
      PROVE  ReadDat(datFile', index[x]'.off, index[x]'.len) = Stored[x]
  <2>1. index[x]' = index[x]  BY <1>1, <1>5
  <2>2. QED  BY <1>1, <1>2, <1>3, <2>1, OthersKeep
<1>8. Stored' = KV!Put(k, v)
  BY <1>3, <1>4, <1>5, <1>6, <1>7 DEF KV!Put
<1>9. k \notin DOMAIN Stored  BY <1>3, <1>5
<1>10. ret' = KV!Reply("Ok", <<>>)  BY DEF SetNew, Reply, KV!Reply
<1>11. QED  BY <1>8, <1>9, <1>10 DEF KV!Set

\* An update is an Update of the map.
LEMMA UpdateFoundMaps ==
  ASSUME SafeCalls, IInv, IInv', opened, NEW k \in Keys, NEW v \in Values,
         UpdateFound(k, v)
  PROVE  KV!Update(k, v)
<1>1. k \in DOMAIN index /\ NewPlaces(index[k], Len(v)) = Allocations(Len(v))
  BY DEF UpdateFound, KindOfUpdate, SafeCalls, NewPlaces
<1>2. PICK a \in Allocations(Len(v)) :
        /\ WriteDat(v, a.at)
        /\ index' = [index EXCEPT ![k] = Entry(Place(a.at), Len(v), @.rec)]
  BY <1>1 DEF UpdateFound
<1>3. v \in Seq(Byte)  BY ByteAssumption
<1>4. Stored = [x \in DOMAIN index |->
                  ReadDat(datFile, index[x].off, index[x].len)]
  BY StoredOpen
<1>5. Stored' = [x \in DOMAIN index' |->
                   ReadDat(datFile', index[x]'.off, index[x]'.len)]
  BY StoredOpenNext DEF UpdateFound
<1>6. DOMAIN index' = DOMAIN index  BY <1>2
<1>7. ReadDat(datFile', index[k]'.off, index[k]'.len) = v
  <2>1. index[k]'.off = Place(a.at) /\ index[k]'.len = Len(v)
    BY <1>1, <1>2 DEF Entry
  <2>2. QED  BY <1>2, <1>3, <2>1, KeyGets
<1>8. ASSUME NEW x \in DOMAIN index, x # k
      PROVE  ReadDat(datFile', index[x]'.off, index[x]'.len) = Stored[x]
  <2>1. index[x]' = index[x]  BY <1>2, <1>8
  <2>2. QED  BY <1>2, <1>3, <1>4, <2>1, OthersKeep
<1>9. Stored' = KV!Put(k, v)
  BY <1>1, <1>4, <1>5, <1>6, <1>7, <1>8 DEF KV!Put
<1>10. k \in DOMAIN Stored  BY <1>1, <1>4
<1>11. ret' = KV!Reply("Ok", <<>>)  BY DEF UpdateFound, Reply, KV!Reply
<1>12. QED  BY <1>9, <1>10, <1>11 DEF KV!Update

\* An erase is an Erase of the map.
LEMMA EraseFoundMaps ==
  ASSUME IInv, IInv', opened, NEW k \in Keys, EraseFound(k)
  PROVE  KV!Erase(k)
<1>1. Stored = [x \in DOMAIN index |->
                  ReadDat(datFile, index[x].off, index[x].len)]
  BY StoredOpen
<1>2. Stored' = [x \in DOMAIN index' |->
                   ReadDat(datFile', index[x]'.off, index[x]'.len)]
  BY StoredOpenNext DEF EraseFound
<1>3. /\ k \in DOMAIN index /\ DOMAIN index' = DOMAIN index \ {k}
      /\ \A x \in DOMAIN index' : index[x]' = index[x]
      /\ datFile' = datFile /\ ret' = KV!Reply("Ok", <<>>)
  BY DEF EraseFound, Reply, KV!Reply
<1>4. Stored' = [x \in DOMAIN Stored \ {k} |-> Stored[x]]
  BY <1>1, <1>2, <1>3
<1>5. QED  BY <1>1, <1>3, <1>4 DEF KV!Erase

\* A read is a Get of the map, be it from the file or from the cache.
LEMMA ReadMaps ==
  ASSUME RInv, NEW k \in DOMAIN index, Get(k) \/ GetCached(k)
  PROVE  KV!Get(k)
<1> DEFINE o == index[k].off
           n == index[k].len
<1>1. IInv /\ opened  BY DEF RInv, Get, GetCached
<1>2. Stored = [x \in DOMAIN index |->
                  ReadDat(datFile, index[x].off, index[x].len)]
  BY <1>1, StoredOpen
<1>3. UNCHANGED files  BY DEF Get, GetCached, NotFound
<1>4. Stored' = Stored  BY <1>3, StoredSame
<1>5. CASE Get(k)
  <2>1. ret' = Reply("Ok", ReadDat(datFile, o, n))  BY <1>5 DEF Get, NotFound
  <2>2. QED  BY <1>2, <1>4, <2>1 DEF KV!Get, KV!Reply, Reply
<1>6. CASE GetCached(k)
  <2>1. PICK s \in CacheSlices(o, n) : ret' = Reply("Ok", s)
    BY <1>6 DEF GetCached, NotFound
  <2>2. cache = datFile
    BY <1>1, <1>6 DEF GetCached, RInv, CacheMirrorsFile
  <2>3. o \in Nat /\ n \in Nat /\ (n = 0 \/ o + n <= Len(datFile))
    BY <1>1, EntryWithin
  <2>4. Len(datFile) \in Nat  BY <1>1, LenProperties DEF IInv, TypeOK
  <2> HIDE DEF o, n
  <2>5. \A i \in 1..n : o + i <= Len(datFile)  BY <2>3, <2>4
  <2>6. s \in [1..n -> Byte] /\ \A i \in 1..n : s[i] = datFile[o + i]
    BY <2>1, <2>2, <2>5 DEF CacheSlices
  <2>7. s = ReadDat(datFile, o, n)
    <3>1. ReadDat(datFile, o, n) = [i \in 1..n |-> datFile[o + i]]
      BY <2>5 DEF ReadDat
    <3>2. QED  BY <2>6, <3>1
  <2>8. QED  BY <1>2, <1>4, <2>1, <2>7 DEF KV!Get, KV!Reply, Reply, o, n
<1>7. QED  BY <1>5, <1>6

\* The map of empty files is empty.
LEMMA DestroyMaps ==
  ASSUME Destroy
  PROVE  KV!Destroy
<1>1. idxFile' = <<>> /\ 1..Len(idxFile') = {}  BY EmptySeq DEF Destroy
<1>2. ValidRecs(idxFile') = {}  BY <1>1 DEF ValidRecs
<1>3. DOMAIN Stored' = {}  BY <1>2 DEF Stored, LoadIndex, FirstRecs
<1>4. Stored' = [k \in {} |-> <<>>]  BY <1>3 DEF Stored
<1>5. QED  BY <1>4 DEF Destroy, KV!Destroy

\* Every call is a step of the map or leaves it alone.
LEMMA NextMaps ==
  ASSUME SafeCalls, RInv, IInv', [Next]_vars
  PROVE  [KV!Next \/ (Destroy /\ KV!Destroy)]_(KV!vars)
<1>1. IInv  BY DEF RInv
<1>2. opened => DOMAIN Stored = DOMAIN index  BY <1>1, StoredOpen
<1>3. CASE Open \/ Close \/ (\E mode \in CacheModes : Construct(mode))
           \/ \E on \in BOOLEAN : SwitchCache(on)
  <2>1. UNCHANGED files /\ ret' = ret
    BY <1>3 DEF Open, Close, Construct, SwitchCache
  <2>2. QED  BY <2>1, StoredSame DEF KV!vars
<1>4. ASSUME Destroy PROVE KV!Destroy  BY <1>4, DestroyMaps
<1>5. ASSUME NEW k \in Keys, NotFound(k), opened
      PROVE  /\ k \notin DOMAIN Stored /\ Stored' = Stored
             /\ ret' = KV!Reply("KeyNotFound", <<>>)
  BY <1>2, <1>5, StoredSame DEF NotFound, Reply, KV!Reply
<1>6. ASSUME NEW k \in Keys, NEW v \in Values, Set(k, v)
      PROVE  KV!Set(k, v)
  <2>1. CASE SetTaken(k)
    BY <1>2, <1>6, <2>1, StoredSame DEF Set, SetTaken, KV!Set, Reply, KV!Reply
  <2>2. CASE SetNew(k, v)  BY <1>1, <1>6, <2>2, SetNewMaps DEF Set
  <2>3. QED  BY <1>6, <2>1, <2>2 DEF Set
<1>7. ASSUME NEW k \in Keys, NEW v \in Values, Update(k, v)
      PROVE  KV!Update(k, v)
  <2>1. CASE NotFound(k)
    BY <1>5, <1>7, <2>1 DEF Update, KV!Update
  <2>2. CASE UpdateFound(k, v)
    BY <1>1, <1>7, <2>2, UpdateFoundMaps DEF Update
  <2>3. QED  BY <1>7, <2>1, <2>2 DEF Update
<1>8. ASSUME NEW k \in Keys, Erase(k) PROVE KV!Erase(k)
  <2>1. CASE NotFound(k)
    BY <1>5, <1>8, <2>1 DEF Erase, KV!Erase
  <2>2. CASE EraseFound(k)  BY <1>1, <1>8, <2>2, EraseFoundMaps DEF Erase
  <2>3. QED  BY <1>8, <2>1, <2>2 DEF Erase
<1>9. ASSUME NEW k \in Keys, Get(k) \/ GetCached(k) PROVE KV!Get(k)
  <2>1. CASE NotFound(k)
    BY <1>5, <1>9, <2>1 DEF Get, GetCached, KV!Get
  <2>2. CASE ~NotFound(k)
    BY <1>9, <2>2, ReadMaps DEF Get, GetCached
  <2>3. QED  BY <2>1, <2>2
<1>10. CASE UNCHANGED vars
  <2>1. UNCHANGED files /\ ret' = ret  BY <1>10 DEF vars, files
  <2>2. QED  BY <2>1, StoredSame DEF KV!vars
<1>11. QED
  BY <1>3, <1>4, <1>6, <1>7, <1>8, <1>9, <1>10 DEF Next, KeyCall, KV!Next

\* The initial files hold the empty map.
LEMMA InitMaps == Init => KV!Init
<1> SUFFICES ASSUME Init PROVE KV!Init  OBVIOUS
<1>1. ValidRecs(idxFile) = {}  BY EmptySeq DEF Init, ValidRecs
<1>2. DOMAIN Stored = {}  BY <1>1 DEF Stored, LoadIndex, FirstRecs
<1>3. Stored = [k \in {} |-> <<>>]  BY <1>2 DEF Stored
<1>4. QED  BY <1>3 DEF Init, KV!Init, Reply, KV!Reply

\* The files implement the map: for every set of keys and values, a database
\* whose values are never updated to longer ones answers every set, update,
\* erase and read as the map does, through any number of reopenings; reads
\* from the cache too, if no cached database is updated or switched.
THEOREM Implementation == ASSUME ReadCalls PROVE Spec => ImplementsKV
<1>1. SafeCalls  BY DEF ReadCalls
<1>2. Spec => []IInv  BY <1>1, Invariance
<1>3. CASE "get_cached" \in Calls
  <2>1. Spec => []CacheMirrorsFile  BY <1>3, CacheSafe DEF ReadCalls
  <2>2. IInv /\ CacheMirrorsFile => RInv  BY DEF RInv
  <2>3. RInv /\ IInv' /\ [Next]_vars
          => [KV!Next \/ (Destroy /\ KV!Destroy)]_(KV!vars)
    BY <1>1, NextMaps
  <2>4. QED
    BY <1>2, <2>1, <2>2, <2>3, InitMaps, PTL DEF Spec, ImplementsKV
<1>4. CASE "get_cached" \notin Calls
  <2>1. IInv => RInv  BY <1>4 DEF RInv
  <2>2. RInv /\ IInv' /\ [Next]_vars
          => [KV!Next \/ (Destroy /\ KV!Destroy)]_(KV!vars)
    BY <1>1, NextMaps
  <2>3. QED
    BY <1>2, <2>1, <2>2, InitMaps, PTL DEF Spec, ImplementsKV
<1>5. QED  BY <1>3, <1>4

-----------------------------------------------------------------------------
(* Proofs about StorageCrash.                                              *)

(***************************************************************************)
(* The inductive invariant.  It speaks of the .idx file as the running     *)
(* call will leave it to the records that are there now: an erase that has *)
(* given the extent to .free has still to mark the record.  It speaks of   *)
(* the index without the key a set is about to write, which is in memory   *)
(* from the start of the call.                                             *)
(***************************************************************************)
Marked == IF pc = "mark" THEN Invalidate(idxFile, job.rec) ELSE idxFile

Known ==
  IF job.op = "set" THEN [k \in DOMAIN index \ {job.key} |-> index[k]] ELSE index

\* Does an extent lie in a file of m bytes?
InFile(x, m) == x.len = 0 \/ x.off + x.len <= m

\* The records of f, the slots of g and a .dat file of m bytes share no byte.
Sound(f, g, m) ==
  /\ \A i, j \in ValidRecs(f) : i # j => Apart(f[i], f[j])
  /\ \A s, t \in 1..Len(g) : s # t => Apart(g[s], g[t])
  /\ \A i \in ValidRecs(f), s \in 1..Len(g) : Apart(f[i], g[s])
  /\ \A i \in ValidRecs(f) : InFile(f[i], m)
  /\ \A s \in 1..Len(g) : InFile(g[s], m)

\* No record of f and no slot of g has a byte of x.
Unused(x, f, g) ==
  /\ \A i \in ValidRecs(f) : Apart(f[i], x)
  /\ \A s \in 1..Len(g) : Apart(g[s], x)

\* The stages of a set and of an update.
Writing == {"clear", "rest", "dat", "idx"}

WriteJobs ==
  [op : {"set", "update"}, key : Keys, value : Values,
   from : [off : Nat, len : Nat, slot : Nat], at : Nat \cup {NPos}]

\* The types, in which the entry a set begins with is one with no record.
CTyped ==
  /\ opened \in BOOLEAN /\ cached \in BOOLEAN
  /\ DOMAIN index \subseteq Keys
  /\ index \in [DOMAIN index -> [off : Nat, len : Nat, rec : Nat]]
  /\ \A k \in DOMAIN Known : Known[k] \in Entries
  /\ freeList \in SUBSET Free
  /\ cache \in Seq(Byte) /\ datFile \in Seq(Byte)
  /\ datPos \in Nat
  /\ idxFile \in Seq(Records) /\ freeFile \in Seq(Slots)
  /\ torn = FALSE
  /\ ret \in [status : Statuses, value : Seq(Byte)]
  /\ pc \in Writing \cup {"idle", "mark"}
  /\ pc = "idle" => job = NoJob
  /\ pc = "mark" => /\ job.op = "erase" /\ job.rec \in ValidRecs(idxFile)
                    /\ idxFile[job.rec].key = job.key
  /\ pc \in Writing => job \in WriteJobs /\ job.key \in DOMAIN index
  /\ pc # "idle" => opened

\* What the running call has set aside: the slot it is going to clear, the
\* extent the slot described, the part of it the value goes to.
Reserved ==
  /\ pc = "clear" =>
       /\ job.from.slot \in 1..Len(freeFile)
       /\ freeFile[job.from.slot].off = job.from.off
       /\ freeFile[job.from.slot].len = job.from.len
       /\ \A e \in freeList : e.len # job.from.len
  /\ pc = "rest" =>
       /\ Unused(Extent(job.from.off, job.from.len), idxFile, freeFile)
       /\ job.from.off + job.from.len <= Len(datFile)
  /\ pc \in {"clear", "rest"} =>
       job.at = job.from.off /\ job.from.len > Len(job.value)
  /\ pc \in {"dat", "idx"} /\ job.at # NPos =>
       /\ Unused(Extent(job.at, Len(job.value)), idxFile, freeFile)
       /\ InFile(Extent(job.at, Len(job.value)), Len(datFile))
  /\ pc = "idx" => job.at # NPos

\* A database that is not open has nothing in memory.
Emptied == ~opened => index = NoKeys /\ freeList = {}

CInv ==
  /\ CTyped
  /\ OnePerKey(Marked)
  /\ Sound(Marked, freeFile, Len(datFile))
  /\ opened => /\ Agree(Known, Marked)
               /\ Offered(freeList) \subseteq LoadFree(freeFile)
  /\ Reserved

(***************************************************************************)
(* What single writes do to sound files.                                   *)
(***************************************************************************)
\* Apart looks at offset and length only, and either way round.
LEMMA ApartAlike ==
  /\ \A a, b : Apart(a, b) => Apart(b, a)
  /\ \A a, b, c : a.off = b.off /\ a.len = b.len /\ Apart(b, c) => Apart(a, c)
BY DEF Apart

\* Soundness is what Storage calls NoSharedSpace, of the files as they are.
LEMMA SoundIsUnshared == NoSharedSpace <=> Sound(idxFile, freeFile, Len(datFile))
BY DEF NoSharedSpace, RecordsApart, SlotsApart, RecordsNotFree, AllWithin, Within,
       Sound, InFile

\* A longer .dat file is as sound.
LEMMA Longer ==
  ASSUME NEW f \in Seq(Records), NEW g \in Seq(Slots), NEW m \in Nat, NEW n \in Nat,
         m <= n, Sound(f, g, m)
  PROVE  Sound(f, g, n)
<1>1. \A i \in ValidRecs(f) : f[i].off \in Nat /\ f[i].len \in Nat
  <2>1. \A i \in ValidRecs(f) : f[i] \in Records  BY ElementOfSeq DEF ValidRecs
  <2>2. QED  BY <2>1 DEF Records
<1>2. \A s \in 1..Len(g) : g[s].off \in Nat /\ g[s].len \in Nat
  <2>1. \A s \in 1..Len(g) : g[s] \in Slots  BY ElementOfSeq
  <2>2. QED  BY <2>1 DEF Slots
<1>3. QED  BY <1>1, <1>2 DEF Sound, InFile

\* erase_freelist: the slot that is cleared leaves its extent to the caller.
LEMMA SlotCleared ==
  ASSUME NEW f \in Seq(Records), NEW g \in Seq(Slots), NEW m \in Nat,
         Sound(f, g, m), NEW q \in 1..Len(g)
  PROVE  /\ Sound(f, ZeroSlot(g, q), m)
         /\ Unused(Extent(g[q].off, g[q].len), f, ZeroSlot(g, q))
         /\ InFile(Extent(g[q].off, g[q].len), m)
<1> DEFINE h == ZeroSlot(g, q)
<1>1. /\ Len(h) = Len(g)
      /\ \A s \in 1..Len(g) : h[s] = IF s = q THEN Slot(0, 0) ELSE g[s]
  <2>1. Slot(0, 0) \in Slots  BY DEF Slot, Slots
  <2>2. QED  BY <2>1, ExceptSeq DEF ZeroSlot
<1> HIDE DEF h
<1>2. \A s \in 1..Len(h) : h[s].len = 0 \/ (s \in 1..Len(g) /\ s # q /\ h[s] = g[s])
  BY <1>1 DEF Slot
<1>3. \A s \in 1..Len(h) : \A a : h[s].len = 0 => Apart(a, h[s]) /\ Apart(h[s], a)
  BY DEF Apart
<1>4. Sound(f, h, m)
  BY <1>2, <1>3 DEF Sound, InFile
<1>5. \A i \in ValidRecs(f) : Apart(f[i], Extent(g[q].off, g[q].len))
  BY ApartAlike DEF Sound, Extent
<1>6. \A s \in 1..Len(h) : Apart(h[s], Extent(g[q].off, g[q].len))
  <2>1. \A s \in 1..Len(g) : s # q => Apart(g[q], g[s])  BY DEF Sound
  <2>2. \A s \in 1..Len(g) : s # q => Apart(Extent(g[q].off, g[q].len), g[s])
    BY <2>1, ApartAlike DEF Extent
  <2>3. \A s \in 1..Len(g) : s # q => Apart(g[s], Extent(g[q].off, g[q].len))
    BY <2>2, ApartAlike
  <2>4. QED  BY <1>2, <1>3, <2>3
<1>7. QED  BY <1>4, <1>5, <1>6 DEF Unused, Sound, InFile, Extent, h

\* update_freelist: an extent nobody has becomes a slot.
LEMMA SlotAdded ==
  ASSUME NEW f \in Seq(Records), NEW g \in Seq(Slots), NEW m \in Nat,
         Sound(f, g, m), NEW o \in Nat, NEW n \in Nat,
         Unused(Extent(o, n), f, g), InFile(Extent(o, n), m)
  PROVE  /\ Sound(f, AppendSlot(g, o, n), m)
         /\ AppendSlot(g, o, n) \in Seq(Slots)
         /\ \A x : Unused(x, f, g) /\ Apart(Extent(o, n), x)
                     => Unused(x, f, AppendSlot(g, o, n))
<1> DEFINE h == AppendSlot(g, o, n)
<1>1. /\ h \in Seq(Slots) /\ Len(h) = Len(g) + 1
      /\ \A s \in 1..Len(g) : h[s] = g[s]
      /\ h[Len(g) + 1] = Slot(o, n)
  <2>1. Slot(o, n) \in Slots  BY DEF Slot, Slots
  <2>2. QED  BY <2>1, AppendProperties DEF AppendSlot
<1>2. Len(g) \in Nat  BY LenProperties
<1> HIDE DEF h
<1>3. \A s \in 1..Len(h) :
        \/ s \in 1..Len(g) /\ h[s] = g[s]
        \/ /\ s = Len(g) + 1
           /\ h[s].off = Extent(o, n).off /\ h[s].len = Extent(o, n).len
  BY <1>1, <1>2 DEF Slot, Extent
<1> DEFINE y == Extent(o, n)
<1>4. \A i \in ValidRecs(f), s \in 1..Len(h) : Apart(f[i], h[s])
  BY <1>3, ApartAlike DEF Sound, Unused
<1>5. \A s, t \in 1..Len(h) : s # t => Apart(h[s], h[t])
  BY <1>3, ApartAlike DEF Sound, Unused
<1>6. \A s \in 1..Len(h) : InFile(h[s], m)
  BY <1>3 DEF Sound, InFile
<1>7. Sound(f, h, m)  BY <1>4, <1>5, <1>6 DEF Sound
<1>8. ASSUME NEW x, Unused(x, f, g), Apart(y, x)
      PROVE  Unused(x, f, h)
  BY <1>3, <1>8, ApartAlike DEF Unused
<1>9. QED  BY <1>1, <1>7, <1>8 DEF h

\* A record, new or rewritten, gets an extent nobody has.
LEMMA RecordPut ==
  ASSUME NEW f, NEW h, NEW g, NEW m, Sound(f, g, m),
         NEW x, Unused(x, f, g), InFile(x, m), NEW r \in ValidRecs(h),
         \A i \in ValidRecs(h) :
           \/ i = r /\ h[i].off = x.off /\ h[i].len = x.len
           \/ i # r /\ i \in ValidRecs(f) /\ h[i] = f[i]
  PROVE  Sound(h, g, m)
<1>1. \A i, j \in ValidRecs(h) : i # j => Apart(h[i], h[j])
  BY ApartAlike DEF Sound, Unused
<1>2. \A i \in ValidRecs(h), s \in 1..Len(g) : Apart(h[i], g[s])
  BY ApartAlike DEF Sound, Unused
<1>3. \A i \in ValidRecs(h) : InFile(h[i], m)  BY DEF Sound, InFile
<1>4. QED  BY <1>1, <1>2, <1>3 DEF Sound

\* What is marked as not valid, and what is not.
LEMMA Marking ==
  ASSUME NEW f \in Seq(Records), NEW r \in ValidRecs(f)
  PROVE  /\ Invalidate(f, r) \in Seq(Records)
         /\ ValidRecs(Invalidate(f, r)) = ValidRecs(f) \ {r}
         /\ \A i \in ValidRecs(f) : /\ Invalidate(f, r)[i].key = f[i].key
                                    /\ Invalidate(f, r)[i].off = f[i].off
                                    /\ Invalidate(f, r)[i].len = f[i].len
<1>1. Invalidate(f, r) \in Seq(Records)
  BY InvalidateType, LenProperties DEF ValidRecs
<1>2. /\ Len(Invalidate(f, r)) = Len(f)
      /\ \A i \in 1..Len(f) :
           Invalidate(f, r)[i] = [f[i] EXCEPT !.valid = @ /\ i # r]
  BY LenProperties DEF Invalidate
<1>3. \A i \in 1..Len(f) : f[i] \in Records  BY ElementOfSeq
<1>4. \A i \in 1..Len(f) : /\ Invalidate(f, r)[i].key = f[i].key
                           /\ Invalidate(f, r)[i].off = f[i].off
                           /\ Invalidate(f, r)[i].len = f[i].len
                           /\ Invalidate(f, r)[i].valid <=> f[i].valid /\ i # r
  BY <1>2, <1>3 DEF Records
<1>5. QED  BY <1>1, <1>2, <1>4 DEF ValidRecs

\* The index without a key agrees with the file in which its record is marked.
LEMMA AgreeTaken ==
  ASSUME NEW f \in Seq(Records), OnePerKey(f), NEW ix, Agree(ix, f),
         NEW k \in DOMAIN ix
  PROVE  LET r == ix[k].rec
             h == Invalidate(f, r)
         IN  /\ r \in ValidRecs(f) /\ OnePerKey(h)
             /\ Agree([x \in DOMAIN ix \ {k} |-> ix[x]], h)
<1> DEFINE r == ix[k].rec
           h == Invalidate(f, r)
           jx == [x \in DOMAIN ix \ {k} |-> ix[x]]
<1>1. r \in ValidRecs(f) /\ f[r].key = k  BY DEF Agree
<1>2. /\ ValidRecs(h) = ValidRecs(f) \ {r}
      /\ \A i \in ValidRecs(f) :
           h[i].key = f[i].key /\ h[i].off = f[i].off /\ h[i].len = f[i].len
  BY <1>1, Marking
<1>3. OnePerKey(h)  BY <1>2 DEF OnePerKey
<1>4. DOMAIN jx = DOMAIN ix \ {k} /\ \A x \in DOMAIN jx : jx[x] = ix[x]
  OBVIOUS
<1> HIDE DEF jx, h
<1>5. ASSUME NEW i \in ValidRecs(h)  PROVE h[i].key \in DOMAIN jx
  <2>1. i \in ValidRecs(f) /\ i # r  BY <1>2
  <2>2. f[i].key # k /\ f[i].key \in DOMAIN ix
    BY <1>1, <2>1 DEF OnePerKey, Agree
  <2>3. QED  BY <1>2, <1>4, <2>1, <2>2
<1>6. ASSUME NEW x \in DOMAIN jx
      PROVE  /\ jx[x].rec \in ValidRecs(h) /\ h[jx[x].rec].key = x
             /\ jx[x].off = h[jx[x].rec].off /\ jx[x].len = h[jx[x].rec].len
  <2>1. x \in DOMAIN ix /\ x # k /\ jx[x] = ix[x]  BY <1>4
  <2>2. PICK q \in ValidRecs(f) : q = ix[x].rec  BY <2>1 DEF Agree
  <2>3. f[q].key = x /\ ix[x].off = f[q].off /\ ix[x].len = f[q].len
    BY <2>1, <2>2 DEF Agree
  <2>4. q # r  BY <1>1, <2>1, <2>3
  <2>5. QED  BY <1>2, <2>1, <2>2, <2>3, <2>4
<1>7. Agree(jx, h)  BY <1>5, <1>6 DEF Agree
<1>8. QED  BY <1>1, <1>3, <1>7 DEF jx, h

\* A record that is no longer valid leaves its extent to nobody.
LEMMA RecordTaken ==
  ASSUME NEW f \in Seq(Records), NEW g \in Seq(Slots), NEW m \in Nat,
         Sound(f, g, m), NEW ix, Agree(ix, f), NEW k \in DOMAIN ix
  PROVE  LET h == Invalidate(f, ix[k].rec)
         IN  /\ Sound(h, g, m)
             /\ Unused(Extent(ix[k].off, ix[k].len), h, g)
             /\ InFile(Extent(ix[k].off, ix[k].len), m)
<1> DEFINE r == ix[k].rec
           h == Invalidate(f, r)
           y == Extent(ix[k].off, ix[k].len)
<1>1. r \in ValidRecs(f) /\ ix[k].off = f[r].off /\ ix[k].len = f[r].len
  BY DEF Agree
<1>2. \A i \in ValidRecs(h) : h[i].off = f[i].off /\ h[i].len = f[i].len
                              /\ i \in ValidRecs(f) /\ i # r
  BY <1>1, Marking
<1>3. y.off = f[r].off /\ y.len = f[r].len  BY <1>1 DEF Extent
<1> HIDE DEF y, h, r
<1>4. Sound(h, g, m)
  <2>1. \A i, j \in ValidRecs(h) : i # j => Apart(h[i], h[j])
    BY <1>2, ApartAlike DEF Sound
  <2>2. \A i \in ValidRecs(h), s \in 1..Len(g) : Apart(h[i], g[s])
    BY <1>2, ApartAlike DEF Sound
  <2>3. \A i \in ValidRecs(h) : InFile(h[i], m)  BY <1>2 DEF Sound, InFile
  <2>4. QED  BY <2>1, <2>2, <2>3 DEF Sound
<1>5. Unused(y, h, g)
  <2>1. \A i \in ValidRecs(h) : Apart(h[i], y)
    BY <1>1, <1>2, <1>3, ApartAlike DEF Sound
  <2>2. \A s \in 1..Len(g) : Apart(g[s], y)
    BY <1>1, <1>3, ApartAlike DEF Sound
  <2>3. QED  BY <2>1, <2>2 DEF Unused
<1>6. InFile(y, m)  BY <1>1, <1>3 DEF Sound, InFile
<1>7. QED  BY <1>4, <1>5, <1>6 DEF y, h, r

\* An index with one more key.
WithKey(jx, ix, k, e) ==
  /\ DOMAIN jx = DOMAIN ix \cup {k} /\ \A x \in DOMAIN ix : jx[x] = ix[x]
  /\ jx[k] = e

\* A set appends a record for a key the index does not have.
LEMMA RecordAppended ==
  ASSUME NEW f \in Seq(Records), NEW g \in Seq(Slots), NEW m \in Nat,
         Sound(f, g, m), OnePerKey(f), NEW ix, Agree(ix, f),
         NEW k \in Keys, k \notin DOMAIN ix, NEW o \in Nat, NEW n \in Nat,
         Unused(Extent(o, n), f, g), InFile(Extent(o, n), m),
         NEW jx, WithKey(jx, ix, k, Entry(o, n, Len(f) + 1))
  PROVE  LET h == Append(f, Record(k, o, n))
         IN  /\ h \in Seq(Records) /\ OnePerKey(h) /\ Sound(h, g, m)
             /\ Agree(jx, h)
<1> DEFINE h == Append(f, Record(k, o, n))
<1>1. /\ h \in Seq(Records) /\ Len(f) \in Nat /\ Len(h) = Len(f) + 1
      /\ \A i \in 1..Len(f) : h[i] = f[i]
      /\ h[Len(f) + 1] = Record(k, o, n)
  <2>1. Record(k, o, n) \in Records  BY DEF Record, Records
  <2>2. QED  BY <2>1, AppendProperties, LenProperties
<1> HIDE DEF h
<1>2. PICK r \in Nat : r = Len(f) + 1  BY <1>1
<1>3. h[r].key = k /\ h[r].valid /\ h[r].off = o /\ h[r].len = n
  BY <1>1, <1>2 DEF Record
<1>4. /\ r \in ValidRecs(h) /\ r \notin ValidRecs(f)
      /\ \A i \in ValidRecs(h) : i = r \/ i \in ValidRecs(f)
      /\ ValidRecs(f) \subseteq ValidRecs(h)
      /\ \A i \in ValidRecs(f) : h[i] = f[i]
  BY <1>1, <1>2, <1>3 DEF ValidRecs
<1>5. \A i \in ValidRecs(f) : f[i].key # k  BY DEF Agree
<1>6. OnePerKey(h)  BY <1>3, <1>4, <1>5 DEF OnePerKey
<1>7. Agree(jx, h)
  <2>1. jx[k].rec = r /\ jx[k].off = o /\ jx[k].len = n
    BY <1>2 DEF Entry, WithKey
  <2>2. \A i \in ValidRecs(h) : h[i].key \in DOMAIN jx
    BY <1>3, <1>4 DEF Agree, WithKey
  <2>3. ASSUME NEW x \in DOMAIN jx
        PROVE  /\ jx[x].rec \in ValidRecs(h) /\ h[jx[x].rec].key = x
               /\ jx[x].off = h[jx[x].rec].off /\ jx[x].len = h[jx[x].rec].len
    <3>1. CASE x = k  BY <1>3, <1>4, <2>1, <3>1
    <3>2. CASE x # k
      <4>1. x \in DOMAIN ix /\ jx[x] = ix[x]  BY <3>2 DEF WithKey
      <4>2. PICK q \in ValidRecs(f) : q = ix[x].rec  BY <4>1 DEF Agree
      <4>3. f[q].key = x /\ ix[x].off = f[q].off /\ ix[x].len = f[q].len
        BY <4>1, <4>2 DEF Agree
      <4>4. q \in ValidRecs(h) /\ h[q] = f[q]  BY <1>4
      <4>5. QED  BY <4>1, <4>2, <4>3, <4>4
    <3>3. QED  BY <3>1, <3>2
  <2>4. QED  BY <2>2, <2>3 DEF Agree
<1>8. Sound(h, g, m)
  <2>1. \A i \in ValidRecs(h) :
          \/ i = r /\ h[i].off = Extent(o, n).off /\ h[i].len = Extent(o, n).len
          \/ i # r /\ i \in ValidRecs(f) /\ h[i] = f[i]
    BY <1>3, <1>4 DEF Extent
  <2>2. QED  BY <1>4, <2>1, RecordPut
<1>9. QED  BY <1>1, <1>6, <1>7, <1>8 DEF h

\* An update rewrites the record the index has for its key.
LEMMA RecordMoved ==
  ASSUME NEW f \in Seq(Records), NEW g \in Seq(Slots), NEW m \in Nat,
         Sound(f, g, m), OnePerKey(f), NEW ix, Agree(ix, f),
         NEW k \in DOMAIN ix, NEW o \in Nat, NEW n \in Nat,
         Unused(Extent(o, n), f, g), InFile(Extent(o, n), m),
         NEW jx, DOMAIN jx = DOMAIN ix,
         \A x \in DOMAIN ix : x # k => jx[x] = ix[x],
         jx[k] = Entry(o, n, ix[k].rec)
  PROVE  LET h == MoveRecord(f, ix[k].rec, o, n)
         IN  /\ h \in Seq(Records) /\ OnePerKey(h) /\ Sound(h, g, m)
             /\ Agree(jx, h)
<1> DEFINE r == ix[k].rec
           h == MoveRecord(f, r, o, n)
<1>1. r \in ValidRecs(f) /\ f[r].key = k  BY DEF Agree
<1>2. r \in Nat /\ \A i \in ValidRecs(f) : i \in 1..Len(f)
  BY <1>1, LenProperties DEF ValidRecs
<1>3. h \in Seq(Records)  BY <1>2, MoveRecordType
<1>4. /\ Len(h) = Len(f)
      /\ \A i \in 1..Len(f) : h[i] = IF i = r THEN Moved(f[i], o, n) ELSE f[i]
  BY LenProperties DEF MoveRecord
<1> HIDE DEF h, r
<1>5. \A e : /\ Moved(e, o, n).key = e.key /\ Moved(e, o, n).valid = e.valid
             /\ Moved(e, o, n).off = o /\ Moved(e, o, n).len = n
  BY DEF Moved
<1>6. \A i \in 1..Len(f) : h[i].key = f[i].key /\ h[i].valid = f[i].valid
  BY <1>4, <1>5
<1>7. ValidRecs(h) = ValidRecs(f)  BY <1>4, <1>6 DEF ValidRecs
<1>8. /\ h[r].key = k /\ h[r].off = o /\ h[r].len = n
      /\ \A i \in ValidRecs(f) : i # r => h[i] = f[i]
  BY <1>1, <1>2, <1>4, <1>5
<1>9. OnePerKey(h)  BY <1>2, <1>6, <1>7 DEF OnePerKey
<1>10. Agree(jx, h)
  <2>1. jx[k].rec = r /\ jx[k].off = o /\ jx[k].len = n  BY DEF Entry, r
  <2>2. \A i \in ValidRecs(h) : h[i].key \in DOMAIN jx
    BY <1>2, <1>6, <1>7 DEF Agree
  <2>3. ASSUME NEW x \in DOMAIN jx
        PROVE  /\ jx[x].rec \in ValidRecs(h) /\ h[jx[x].rec].key = x
               /\ jx[x].off = h[jx[x].rec].off /\ jx[x].len = h[jx[x].rec].len
    <3>1. CASE x = k  BY <1>1, <1>7, <1>8, <2>1, <3>1
    <3>2. CASE x # k
      <4>1. x \in DOMAIN ix /\ jx[x] = ix[x]  BY <3>2
      <4>2. PICK q \in ValidRecs(f) : q = ix[x].rec  BY <4>1 DEF Agree
      <4>3. f[q].key = x /\ ix[x].off = f[q].off /\ ix[x].len = f[q].len
        BY <4>1, <4>2 DEF Agree
      <4>4. q # r  BY <1>1, <3>2, <4>3
      <4>5. QED  BY <1>7, <1>8, <4>1, <4>2, <4>3, <4>4
    <3>3. QED  BY <3>1, <3>2
  <2>4. QED  BY <2>2, <2>3 DEF Agree
<1>11. Sound(h, g, m)
  <2>1. \A i \in ValidRecs(h) :
          \/ i = r /\ h[i].off = Extent(o, n).off /\ h[i].len = Extent(o, n).len
          \/ i # r /\ i \in ValidRecs(f) /\ h[i] = f[i]
    BY <1>7, <1>8 DEF Extent
  <2>2. QED  BY <1>1, <1>7, <2>1, RecordPut
<1>12. QED  BY <1>3, <1>9, <1>10, <1>11 DEF h, r

\* A slot whose length no extent of the free list has may be cleared.
LEMMA OfferedWithout ==
  ASSUME NEW g \in Seq(Slots), NEW list, Offered(list) \subseteq LoadFree(g),
         NEW q \in 1..Len(g), \A e \in list : e.len # g[q].len
  PROVE  Offered(list) \subseteq LoadFree(ZeroSlot(g, q))
<1>1. /\ Len(ZeroSlot(g, q)) = Len(g)
      /\ \A s \in 1..Len(g) : s # q => ZeroSlot(g, q)[s] = g[s]
  <2>1. Slot(0, 0) \in Slots  BY DEF Slot, Slots
  <2>2. QED  BY <2>1, ExceptSeq DEF ZeroSlot
<1>2. ASSUME NEW e \in Offered(list)  PROVE e \in LoadFree(ZeroSlot(g, q))
  <2>1. PICK s \in UsedSlots(g) :
          e = [off |-> g[s].off, len |-> g[s].len, slot |-> s]
    BY DEF LoadFree
  <2>2. s # q  BY <2>1 DEF Offered
  <2>3. QED  BY <1>1, <2>1, <2>2 DEF LoadFree, UsedSlots
<1>3. QED  BY <1>2

\* An extent may be offered when it has become the last slot.
LEMMA OfferedWith ==
  ASSUME NEW g \in Seq(Slots), NEW list, Offered(list) \subseteq LoadFree(g),
         NEW o \in Nat, NEW n \in Nat
  PROVE  Offered(list \cup {[off |-> o, len |-> n, slot |-> Len(g) + 1]})
           \subseteq LoadFree(AppendSlot(g, o, n))
<1> DEFINE h == AppendSlot(g, o, n)
           new == [off |-> o, len |-> n, slot |-> Len(g) + 1]
<1>1. /\ Len(g) \in Nat /\ Len(h) = Len(g) + 1
      /\ \A s \in 1..Len(g) : h[s] = g[s]
      /\ h[Len(g) + 1] = Slot(o, n)
  <2>1. Slot(o, n) \in Slots  BY DEF Slot, Slots
  <2>2. QED  BY <2>1, AppendProperties, LenProperties DEF AppendSlot
<1> HIDE DEF h
<1>2. ASSUME NEW e \in Offered(list)  PROVE e \in LoadFree(h)
  <2>1. PICK s \in UsedSlots(g) :
          e = [off |-> g[s].off, len |-> g[s].len, slot |-> s]
    BY DEF LoadFree
  <2>2. s \in UsedSlots(h) /\ h[s] = g[s]  BY <1>1, <2>1 DEF UsedSlots
  <2>3. QED  BY <2>1, <2>2 DEF LoadFree
<1>3. ASSUME n # 0  PROVE new \in LoadFree(h)
  <2>1. Len(g) + 1 \in UsedSlots(h)  BY <1>1, <1>3 DEF UsedSlots, Slot
  <2>2. QED  BY <1>1, <2>1 DEF LoadFree, Slot
<1>4. QED  BY <1>2, <1>3 DEF Offered, h

(***************************************************************************)
(* The steps.                                                              *)
(***************************************************************************)
\* Between two calls the invariant is that of Storage.
LEMMA IdleIsStorage ==
  ASSUME CInv, pc = "idle"
  PROVE  job = NoJob /\ Known = index /\ Marked = idxFile /\ IInv
<1>1. job = NoJob /\ job.op = "none"  BY DEF CInv, CTyped, NoJob
<1>2. Known = index /\ Marked = idxFile  BY <1>1 DEF Known, Marked
<1>3. TypeOK
  <2>1. index \in [DOMAIN index -> Entries]  BY <1>2 DEF CInv, CTyped
  <2>2. QED  BY <2>1 DEF CInv, CTyped, TypeOK
<1>4. OneRecordPerKey /\ NoSharedSpace
  BY <1>2, SoundIsUnshared DEF CInv, OneRecordPerKey, OnePerKey
<1>5. opened => index = LoadIndex(idxFile)
  BY <1>2, <1>3, AgreeIsLoad DEF CInv, TypeOK
<1>6. ~torn  BY DEF CInv, CTyped
<1>7. QED
  BY <1>1, <1>2, <1>3, <1>4, <1>5, <1>6 DEF CInv, IInv, ReloadAgrees, IndexesRead

\* And back, after a step that ends between two calls.
LEMMA StorageIsIdle ==
  ASSUME IInv', pc' = "idle", job' = NoJob
  PROVE  CInv'
<1>1. job'.op = "none"  BY DEF NoJob
<1>2. Known' = index' /\ Marked' = idxFile'  BY <1>1 DEF Known, Marked
<1>3. CTyped'
  <2>1. \A k \in DOMAIN index' : index'[k] \in Entries  BY DEF IInv, TypeOK
  <2>2. index' \in [DOMAIN index' -> [off : Nat, len : Nat, rec : Nat]]
    <3>1. Entries \subseteq [off : Nat, len : Nat, rec : Nat]  BY DEF Entries
    <3>2. QED  BY <3>1 DEF IInv, TypeOK
  <2>3. QED  BY <1>2, <2>1, <2>2 DEF IInv, TypeOK, CTyped, Writing
<1>4. OnePerKey(Marked')
  BY <1>2 DEF IInv, OneRecordPerKey, OnePerKey
<1>5. Sound(Marked', freeFile', Len(datFile'))
  BY <1>2 DEF IInv, NoSharedSpace, RecordsApart, SlotsApart, RecordsNotFree,
              AllWithin, Within, Sound, InFile
<1>6. opened' => Agree(Known', Marked')
  BY <1>2, <1>4, LoadAgrees DEF IInv, TypeOK, ReloadAgrees, IndexesRead
<1>7. Reserved'  BY DEF Reserved
<1>8. QED  BY <1>3, <1>4, <1>5, <1>6, <1>7 DEF CInv, IInv, ReloadAgrees

\* find_free: what is set aside, if anything is, is a slot of .free that the
\* free list no longer offers.
LEMMA Started ==
  ASSUME CInv, pc = "idle", opened, NEW op \in {"set", "update"},
         NEW k \in Keys, NEW v \in Values, Start(op, k, v),
         UNCHANGED <<datFile, freeFile>>
  PROVE  /\ job' \in WriteJobs /\ job'.op = op /\ job'.key = k
         /\ pc' \in {"clear", "dat"}
         /\ freeList' \subseteq freeList
         /\ Reserved'
<1>1. CASE job' = Job(op, k, v, NoExtent) /\ pc' = "dat" /\ UNCHANGED freeList
  <2>1. job'.at = NPos /\ job'.op = op /\ job'.key = k /\ job' \in WriteJobs
    BY <1>1 DEF Job, NoExtent, WriteJobs
  <2>2. QED  BY <1>1, <2>1 DEF Reserved
<1>2. ASSUME NEW e \in BestFits(Len(v)),
             job' = [Job(op, k, v, e) EXCEPT !.at = e.off],
             pc' = "clear", freeList' = Keep(e)
      PROVE  /\ job' \in WriteJobs /\ job'.op = op /\ job'.key = k
             /\ pc' \in {"clear", "dat"}
             /\ freeList' \subseteq freeList
             /\ Reserved'
  <2>1. e \in freeList /\ e.len > Len(v) /\ Len(v) \in Nat
    BY ByteAssumption, LenProperties DEF BestFits, Fits
  <2>2. e \in Free  BY <2>1 DEF CInv, CTyped
  <2>3. job' \in WriteJobs /\ job'.op = op /\ job'.key = k /\ job'.value = v
        /\ job'.from = e /\ job'.at = e.off
    BY <1>2, <2>2 DEF Job, WriteJobs, Free
  <2>4. /\ e.slot \in 1..Len(freeFile) /\ freeFile[e.slot].off = e.off
        /\ freeFile[e.slot].len = e.len
    <3>1. e \in Offered(freeList)  BY <2>1, <2>2 DEF Offered, Free
    <3>2. e \in LoadFree(freeFile)  BY <3>1 DEF CInv
    <3>3. QED  BY <3>2 DEF LoadFree, UsedSlots
  <2>5. QED  BY <1>2, <2>1, <2>3, <2>4 DEF Keep, Reserved
<1>3. QED  BY <1>1, <1>2 DEF Start

\* A set begins.
LEMMA BeginSetInv ==
  ASSUME CInv, NEW k \in Keys, NEW v \in Values, BeginSet(k, v)
  PROVE  CInv'
<1>1. /\ pc = "idle" /\ opened /\ k \notin DOMAIN index /\ Start("set", k, v)
      /\ UNCHANGED <<opened, cached, cache, datPos, datFile, idxFile, freeFile,
                     torn, ret>>
  BY DEF BeginSet, files
<1>2. Known = index /\ Marked = idxFile /\ IInv  BY <1>1, IdleIsStorage
<1>3. /\ job' \in WriteJobs /\ job'.op = "set" /\ job'.key = k
      /\ pc' \in {"clear", "dat"} /\ freeList' \subseteq freeList /\ Reserved'
  BY <1>1, Started
<1>4. index' = [x \in DOMAIN index \cup {k} |->
                  IF x = k THEN Entry(0, 0, 0) ELSE index[x]]
  BY DEF BeginSet
<1>5. Known' = index
  <2>1. Known' = [x \in DOMAIN index' \ {k} |-> index'[x]]  BY <1>3 DEF Known
  <2>2. DOMAIN index' \ {k} = DOMAIN index  BY <1>1, <1>4
  <2>3. index = [x \in DOMAIN index |-> index[x]]  BY DEF CInv, CTyped
  <2>4. \A x \in DOMAIN index : index'[x] = index[x]  BY <1>1, <1>4
  <2>5. QED  BY <2>1, <2>2, <2>3, <2>4
<1>6. Marked' = idxFile  BY <1>1, <1>3 DEF Marked
<1>7. CTyped'
  <2>1. DOMAIN index' \subseteq Keys /\ k \in DOMAIN index'
    BY <1>4 DEF CInv, CTyped
  <2>2. index' \in [DOMAIN index' -> [off : Nat, len : Nat, rec : Nat]]
    <3>1. Entry(0, 0, 0) \in [off : Nat, len : Nat, rec : Nat]  BY DEF Entry
    <3>2. QED  BY <1>4, <3>1 DEF CInv, CTyped
  <2>3. \A x \in DOMAIN Known' : Known'[x] \in Entries
    BY <1>2, <1>5 DEF CInv, CTyped
  <2>4. QED  BY <1>1, <1>3, <2>1, <2>2, <2>3 DEF CInv, CTyped, Writing
<1>8. Offered(freeList') \subseteq LoadFree(freeFile')
  BY <1>1, <1>3 DEF CInv, Offered
<1>9. QED
  BY <1>1, <1>2, <1>3, <1>5, <1>6, <1>7, <1>8 DEF CInv

\* An update begins.
LEMMA BeginUpdateInv ==
  ASSUME "grow" \notin Calls, CInv, NEW k \in Keys, NEW v \in Values, BeginUpdate(k, v)
  PROVE  CInv'
<1>1. /\ pc = "idle" /\ opened /\ k \in DOMAIN index /\ Start("update", k, v)
      /\ UNCHANGED <<opened, cached, index, cache, datPos, datFile, idxFile,
                     freeFile, torn, ret>>
  BY DEF BeginUpdate, KindOfUpdate, files
<1>2. Known = index /\ Marked = idxFile /\ IInv  BY <1>1, IdleIsStorage
<1>3. /\ job' \in WriteJobs /\ job'.op = "update" /\ job'.key = k
      /\ pc' \in {"clear", "dat"} /\ freeList' \subseteq freeList /\ Reserved'
  BY <1>1, Started
<1>4. Known' = index /\ Marked' = idxFile  BY <1>1, <1>3 DEF Known, Marked
<1>5. CTyped'
  BY <1>1, <1>2, <1>3, <1>4 DEF CInv, CTyped, Writing
<1>6. Offered(freeList') \subseteq LoadFree(freeFile')
  BY <1>1, <1>3 DEF CInv, Offered
<1>7. QED
  BY <1>1, <1>2, <1>3, <1>4, <1>5, <1>6 DEF CInv

\* In the middle of a set or an update the job and what the files say of the
\* keys stay what they are.
LEMMA Carried ==
  ASSUME CInv, pc \in Writing, pc' \in Writing, job'.op = job.op,
         job'.key = job.key, UNCHANGED <<index, idxFile>>
  PROVE  /\ opened /\ job \in WriteJobs
         /\ Len(job.value) \in Nat /\ job.value \in Seq(Byte)
         /\ Known' = Known /\ Marked' = idxFile /\ Marked = idxFile
<1>1. opened /\ job \in WriteJobs  BY DEF CInv, CTyped, Writing
<1>2. job.value \in Seq(Byte) /\ Len(job.value) \in Nat
  BY <1>1, ByteAssumption, LenProperties DEF WriteJobs
<1>3. QED  BY <1>1, <1>2 DEF Known, Marked, Writing

\* The slot is cleared.
LEMMA ClearSlotInv ==
  ASSUME CInv, ClearSlot
  PROVE  CInv'
<1>1. /\ pc = "clear" /\ pc' \in {"dat", "rest"}
      /\ freeFile' = ZeroSlot(freeFile, job.from.slot)
      /\ UNCHANGED <<opened, cached, index, freeList, cache, datFile, datPos,
                     idxFile, torn, ret, job>>
  BY DEF ClearSlot, memory
<1>2. /\ opened /\ job \in WriteJobs
      /\ Len(job.value) \in Nat
      /\ Known' = Known /\ Marked' = idxFile /\ Marked = idxFile
  BY <1>1, Carried DEF Writing
<1>3. /\ job.from.slot \in 1..Len(freeFile)
      /\ freeFile[job.from.slot].off = job.from.off
      /\ freeFile[job.from.slot].len = job.from.len
      /\ \A e \in freeList : e.len # job.from.len
      /\ job.at = job.from.off /\ job.from.len > Len(job.value)
  BY <1>1 DEF CInv, Reserved
<1>4. /\ freeFile \in Seq(Slots) /\ idxFile \in Seq(Records)
      /\ Len(datFile) \in Nat /\ job.from.off \in Nat /\ job.from.len \in Nat
  BY <1>2, LenProperties DEF CInv, CTyped, WriteJobs
<1> DEFINE x == Extent(job.from.off, job.from.len)
<1>5. /\ Sound(idxFile, freeFile', Len(datFile))
      /\ Unused(x, idxFile, freeFile') /\ InFile(x, Len(datFile))
  BY <1>1, <1>2, <1>3, <1>4, SlotCleared DEF CInv
<1>6. pc' = "rest"
  BY <1>3, <1>4, <1>2 DEF ClearSlot, Rest
<1>7. Reserved'
  <2>1. job.from.off + job.from.len <= Len(datFile)
    BY <1>2, <1>3, <1>4, <1>5 DEF InFile, Extent
  <2>2. QED  BY <1>1, <1>3, <1>5, <1>6, <2>1 DEF Reserved
<1>8. freeFile' \in Seq(Slots)
  <2>1. job.from.slot \in Nat  BY <1>2 DEF WriteJobs
  <2>2. QED  BY <1>1, <1>4, <2>1, ZeroSlotType
<1>9. CTyped'
  BY <1>1, <1>2, <1>6, <1>8 DEF CInv, CTyped, Writing
<1>10. Offered(freeList') \subseteq LoadFree(freeFile')
  <2>1. Offered(freeList) \subseteq LoadFree(freeFile)  BY <1>2 DEF CInv
  <2>2. QED  BY <1>1, <1>3, <1>4, <2>1, OfferedWithout
<1>11. QED
  BY <1>1, <1>2, <1>5, <1>7, <1>9, <1>10 DEF CInv

\* The rest becomes a slot: the front of the extent goes to the value.
LEMMA AppendRestInv ==
  ASSUME CInv, AppendRest
  PROVE  CInv'
<1> DEFINE n == Len(job.value)
           rest == Rest(job.from, n)
<1>1. /\ pc = "rest" /\ pc' = "dat"
      /\ freeFile' = AppendSlot(freeFile, rest.off, rest.len)
      /\ freeList' = freeList \cup {rest}
      /\ UNCHANGED <<opened, cached, index, cache, datFile, datPos, idxFile,
                     torn, ret, job>>
  BY DEF AppendRest
<1>2. /\ opened /\ job \in WriteJobs /\ n \in Nat
      /\ Known' = Known /\ Marked' = idxFile /\ Marked = idxFile
  BY <1>1, Carried DEF Writing
<1>3. /\ Unused(Extent(job.from.off, job.from.len), idxFile, freeFile)
      /\ job.from.off + job.from.len <= Len(datFile)
      /\ job.at = job.from.off /\ job.from.len > n
  BY <1>1 DEF CInv, Reserved
<1>4. /\ freeFile \in Seq(Slots) /\ idxFile \in Seq(Records)
      /\ Len(datFile) \in Nat /\ job.from.off \in Nat /\ job.from.len \in Nat
      /\ Len(freeFile) \in Nat
  BY <1>2, LenProperties DEF CInv, CTyped, WriteJobs
<1>5. /\ rest = [off |-> rest.off, len |-> rest.len, slot |-> Len(freeFile) + 1]
      /\ rest.off = job.from.off + n /\ rest.len = job.from.len - n
      /\ rest.off \in Nat /\ rest.len \in Nat /\ rest \in Free
  BY <1>2, <1>3, <1>4 DEF Rest, Free
<1> DEFINE x == Extent(job.from.off, job.from.len)
           front == Extent(job.at, n)
           back == Extent(rest.off, rest.len)
<1>6. /\ front.off = job.at /\ front.len = n
      /\ back.off = rest.off /\ back.len = rest.len
      /\ x.off = job.from.off /\ x.len = job.from.len
  BY DEF Extent
<1> HIDE DEF n, rest, x, front, back
<1>7. /\ \A i \in ValidRecs(idxFile) :
           idxFile[i].off \in Nat /\ idxFile[i].len \in Nat
      /\ \A s \in 1..Len(freeFile) :
           freeFile[s].off \in Nat /\ freeFile[s].len \in Nat
  <2>1. \A i \in ValidRecs(idxFile) : idxFile[i] \in Records
    BY <1>4, ElementOfSeq DEF ValidRecs
  <2>2. \A s \in 1..Len(freeFile) : freeFile[s] \in Slots
    BY <1>4, ElementOfSeq
  <2>3. QED  BY <2>1, <2>2 DEF Records, Slots
\* Both parts lie in the extent.
<1>8. ASSUME NEW y, y.off \in Nat, y.len \in Nat,
             x.off <= y.off, y.off + y.len <= x.off + x.len
      PROVE  Unused(y, idxFile, freeFile)
  <2>1. \A i \in ValidRecs(idxFile) : Apart(idxFile[i], y)
    BY <1>3, <1>4, <1>6, <1>7, <1>8, ApartPart DEF Unused, x
  <2>2. \A s \in 1..Len(freeFile) : Apart(freeFile[s], y)
    BY <1>3, <1>4, <1>6, <1>7, <1>8, ApartPart DEF Unused, x
  <2>3. QED  BY <2>1, <2>2 DEF Unused
<1>9. Unused(front, idxFile, freeFile) /\ InFile(front, Len(datFile))
  <2>1. Unused(front, idxFile, freeFile)
    BY <1>2, <1>3, <1>4, <1>6, <1>8
  <2>2. QED  BY <1>2, <1>3, <1>4, <1>6, <2>1 DEF InFile
<1>10. Unused(back, idxFile, freeFile) /\ InFile(back, Len(datFile))
  <2>1. Unused(back, idxFile, freeFile)
    <3> DEFINE o == job.from.off
               l == job.from.len
               bo == back.off
               bl == back.len
    <3>1. /\ o \in Nat /\ l \in Nat /\ n \in Nat /\ l > n
          /\ bo = o + n /\ bl = l - n /\ x.off = o /\ x.len = l
      BY <1>2, <1>3, <1>4, <1>5, <1>6
    <3> HIDE DEF o, l, bo, bl
    <3>2. bo \in Nat /\ bl \in Nat /\ x.off <= bo /\ bo + bl <= x.off + x.len
      BY <3>1
    <3>3. QED  BY <1>8, <3>2 DEF bo, bl
  <2>2. QED  BY <1>2, <1>3, <1>4, <1>5, <1>6, <2>1 DEF InFile
<1>11. Apart(back, front)
  BY <1>2, <1>3, <1>4, <1>5, <1>6 DEF Apart
<1>12. /\ Sound(idxFile, freeFile', Len(datFile)) /\ freeFile' \in Seq(Slots)
       /\ Unused(front, idxFile, freeFile')
  <2>1. Sound(idxFile, freeFile, Len(datFile))  BY <1>2 DEF CInv
  <2>2. QED
    BY <1>1, <1>4, <1>5, <1>9, <1>10, <1>11, <2>1, SlotAdded DEF back
<1>13. Reserved'
  BY <1>1, <1>9, <1>12 DEF Reserved, front, n
<1>14. CTyped'
  <2>1. freeList' \in SUBSET Free  BY <1>1, <1>5 DEF CInv, CTyped
  <2>2. QED  BY <1>1, <1>2, <1>12, <2>1 DEF CInv, CTyped, Writing
<1>15. Offered(freeList') \subseteq LoadFree(freeFile')
  <2>1. Offered(freeList) \subseteq LoadFree(freeFile)  BY <1>2 DEF CInv
  <2>2. QED  BY <1>1, <1>4, <1>5, <2>1, OfferedWith
<1>16. QED
  BY <1>1, <1>2, <1>12, <1>13, <1>14, <1>15 DEF CInv

\* Where the value goes nobody has anything: it is the extent set aside, or
\* the end of .dat.
LEMMA ValuePlace ==
  ASSUME CInv, pc = "dat"
  PROVE  /\ Place(job.at) \in Nat
         /\ Unused(Extent(Place(job.at), Len(job.value)), idxFile, freeFile)
<1>1. job \in WriteJobs  BY DEF CInv, CTyped, Writing
<1>2. Marked = idxFile  BY DEF Marked
<1>3. /\ freeFile \in Seq(Slots) /\ idxFile \in Seq(Records)
      /\ Len(datFile) \in Nat
  BY LenProperties DEF CInv, CTyped
<1>4. Sound(idxFile, freeFile, Len(datFile))  BY <1>2 DEF CInv
<1>5. Len(job.value) \in Nat
  BY <1>1, ByteAssumption, LenProperties DEF WriteJobs
<1>6. Place(job.at) \in Nat  BY <1>1, <1>3 DEF Place, WriteJobs
<1> DEFINE x == Extent(Place(job.at), Len(job.value))
<1>7. x.off = Place(job.at) /\ x.len = Len(job.value)  BY DEF Extent
<1> HIDE DEF x
<1>8. CASE job.at = NPos
  <2>1. x.off = Len(datFile)  BY <1>7, <1>8 DEF Place
  <2>2. \A i \in ValidRecs(idxFile) : Apart(idxFile[i], x)
    <3>1. \A i \in ValidRecs(idxFile) : idxFile[i] \in Records
      BY <1>3, ElementOfSeq DEF ValidRecs
    <3>2. QED  BY <1>3, <1>4, <1>5, <1>7, <2>1, <3>1
               DEF Sound, InFile, Apart, Records
  <2>3. \A s \in 1..Len(freeFile) : Apart(freeFile[s], x)
    <3>1. \A s \in 1..Len(freeFile) : freeFile[s] \in Slots
      BY <1>3, ElementOfSeq
    <3>2. QED  BY <1>3, <1>4, <1>5, <1>7, <2>1, <3>1
               DEF Sound, InFile, Apart, Slots
  <2>4. QED  BY <1>6, <2>2, <2>3 DEF Unused, x
<1>9. CASE job.at # NPos
  BY <1>6, <1>9 DEF CInv, Reserved, Place, x
<1>10. QED  BY <1>8, <1>9

\* The value is written: nobody's bytes are.
LEMMA WriteValueInv ==
  ASSUME CInv, WriteValue
  PROVE  CInv'
<1>1. /\ pc = "dat" /\ pc' = "idx" /\ WriteDat(job.value, job.at)
      /\ job' = [job EXCEPT !.at = Place(job.at)]
      /\ UNCHANGED <<opened, cached, index, freeList, cache, idxFile, freeFile,
                     torn, ret>>
  BY DEF WriteValue, memory
<1>2. job \in WriteJobs  BY <1>1 DEF CInv, CTyped, Writing
<1>3. /\ datFile \in Seq(Byte) /\ freeFile \in Seq(Slots) /\ idxFile \in Seq(Records)
      /\ Len(datFile) \in Nat
  BY LenProperties DEF CInv, CTyped
<1>4. /\ Place(job.at) \in Nat
      /\ Unused(Extent(Place(job.at), Len(job.value)), idxFile, freeFile)
  BY <1>1, ValuePlace
<1>5. /\ job' \in WriteJobs /\ job'.op = job.op /\ job'.key = job.key
      /\ job'.value = job.value /\ job'.at = Place(job.at)
  BY <1>1, <1>2, <1>4 DEF WriteJobs
<1>6. /\ opened /\ Len(job.value) \in Nat /\ job.value \in Seq(Byte)
      /\ Known' = Known /\ Marked' = idxFile /\ Marked = idxFile
  BY <1>1, <1>5, Carried DEF Writing
<1>7. /\ datFile' \in Seq(Byte) /\ datPos' \in Nat
      /\ Len(datFile') \in Nat /\ Len(datFile') >= Len(datFile)
      /\ Len(job.value) = 0 \/ Len(datFile') >= Place(job.at) + Len(job.value)
  <2>1. datFile' = PWrite(datFile, job.value, Place(job.at))  BY <1>1 DEF WriteDat
  <2>2. datFile' \in Seq(Byte)  BY <1>3, <1>4, <1>6, <2>1, PWriteType
  <2>3. datPos' \in Nat  BY <1>1, <1>3 DEF WriteDat, CInv, CTyped
  <2>4. QED  BY <1>3, <1>4, <1>6, <2>1, <2>2, <2>3, PWriteLen
<1> DEFINE x == Extent(Place(job.at), Len(job.value))
<1>8. x.off = Place(job.at) /\ x.len = Len(job.value)  BY DEF Extent
<1> HIDE DEF x
<1>9. InFile(x, Len(datFile'))  BY <1>7, <1>8 DEF InFile
<1>10. Sound(idxFile, freeFile, Len(datFile'))
  BY <1>3, <1>6, <1>7, Longer DEF CInv
<1>11. Reserved'
  <2>1. job'.at # NPos  BY <1>4, <1>5 DEF NPos
  <2>2. Extent(job'.at, Len(job'.value)) = x  BY <1>5 DEF x
  <2>3. Unused(x, idxFile, freeFile)  BY <1>4 DEF x
  <2>4. QED  BY <1>1, <1>9, <2>1, <2>2, <2>3 DEF Reserved
<1>12. CTyped'
  BY <1>1, <1>5, <1>6, <1>7 DEF CInv, CTyped, Writing
<1>13. QED
  BY <1>1, <1>6, <1>10, <1>11, <1>12 DEF CInv

\* The record is written: the call is over.
LEMMA FinishInv ==
  ASSUME CInv, Finish
  PROVE  CInv'
<1> DEFINE n == Len(job.value)
           e == Entry(job.at, n, IF job.op = "set" THEN Len(idxFile) + 1
                                 ELSE index[job.key].rec)
<1>1. /\ pc = "idx" /\ pc' = "idle" /\ job' = NoJob
      /\ idxFile' = WriteRecord(idxFile)
      /\ index' = [index EXCEPT ![job.key] = e]
      /\ ret' = Reply("Ok", <<>>)
      /\ UNCHANGED <<opened, cached, freeList, cache, datFile, datPos, freeFile>>
      /\ torn' = (torn \/ (job.op = "update"
                           /\ ~OwnRecord(idxFile, job.key, index[job.key].rec)))
  BY DEF Finish
<1>2. opened /\ job \in WriteJobs /\ job.key \in DOMAIN index
  BY <1>1 DEF CInv, CTyped, Writing
<1>3. n \in Nat
  BY <1>2, ByteAssumption, LenProperties DEF WriteJobs
<1>4. Marked = idxFile  BY <1>1 DEF Marked
<1>5. /\ idxFile \in Seq(Records) /\ freeFile \in Seq(Slots)
      /\ Len(datFile) \in Nat /\ Len(idxFile) \in Nat
      /\ index \in [DOMAIN index -> [off : Nat, len : Nat, rec : Nat]]
      /\ OnePerKey(idxFile) /\ Sound(idxFile, freeFile, Len(datFile))
      /\ Agree(Known, idxFile)
  BY <1>2, <1>4, LenProperties DEF CInv, CTyped
<1>6. /\ job.at \in Nat
      /\ Unused(Extent(job.at, n), idxFile, freeFile)
      /\ InFile(Extent(job.at, n), Len(datFile))
  BY <1>1, <1>2 DEF CInv, Reserved, WriteJobs
<1>7. /\ DOMAIN index' = DOMAIN index
      /\ \A x \in DOMAIN index : x # job.key => index'[x] = index[x]
      /\ index'[job.key] = e
  BY <1>1, <1>2, <1>5
<1>8. job.key \in Keys /\ job.op \in {"set", "update"}  BY <1>2 DEF WriteJobs
<1> HIDE DEF n, e
<1>9. ASSUME job.op = "set"
      PROVE  /\ idxFile' \in Seq(Records) /\ OnePerKey(idxFile')
             /\ Sound(idxFile', freeFile, Len(datFile)) /\ Agree(index', idxFile')
             /\ \A x \in DOMAIN index' : index'[x] \in Entries
  <2>1. /\ DOMAIN Known = DOMAIN index \ {job.key}
        /\ \A x \in DOMAIN Known : Known[x] = index[x]
    BY <1>9 DEF Known
  <2>2. idxFile' = Append(idxFile, Record(job.key, job.at, n))
    BY <1>1, <1>9 DEF WriteRecord, n
  <2>3. index'[job.key] = Entry(job.at, n, Len(idxFile) + 1)
    BY <1>7, <1>9 DEF e
  <2>4. /\ DOMAIN index' = DOMAIN Known \cup {job.key} /\ job.key \notin DOMAIN Known
        /\ \A x \in DOMAIN Known : index'[x] = Known[x]
    BY <1>2, <1>7, <2>1
  <2>5. /\ idxFile' \in Seq(Records) /\ OnePerKey(idxFile')
        /\ Sound(idxFile', freeFile, Len(datFile)) /\ Agree(index', idxFile')
    <3>1. WithKey(index', Known, job.key, Entry(job.at, n, Len(idxFile) + 1))
      BY <2>3, <2>4 DEF WithKey
    <3>2. QED
      BY <1>3, <1>5, <1>6, <1>8, <2>2, <2>4, <3>1, RecordAppended
  <2>6. \A x \in DOMAIN index' : index'[x] \in Entries
    <3>1. index'[job.key] \in Entries
      BY <1>3, <1>5, <1>6, <2>3 DEF Entry, Entries
    <3>2. \A x \in DOMAIN Known : Known[x] \in Entries  BY DEF CInv, CTyped
    <3>3. QED  BY <2>4, <3>1, <3>2
  <2>7. QED  BY <2>5, <2>6
<1>10. ASSUME job.op = "update"
       PROVE  /\ idxFile' \in Seq(Records) /\ OnePerKey(idxFile')
              /\ Sound(idxFile', freeFile, Len(datFile)) /\ Agree(index', idxFile')
              /\ \A x \in DOMAIN index' : index'[x] \in Entries
  <2>1. Known = index  BY <1>10 DEF Known
  <2>2. idxFile' = MoveRecord(idxFile, index[job.key].rec, job.at, n)
    BY <1>1, <1>10 DEF WriteRecord, n
  <2>3. index'[job.key] = Entry(job.at, n, index[job.key].rec)
    BY <1>7, <1>10 DEF e
  <2>4. /\ idxFile' \in Seq(Records) /\ OnePerKey(idxFile')
        /\ Sound(idxFile', freeFile, Len(datFile)) /\ Agree(index', idxFile')
    BY <1>2, <1>3, <1>5, <1>6, <1>7, <2>1, <2>2, <2>3, RecordMoved, SMTT(60)
  <2>5. \A x \in DOMAIN index : index[x] \in Entries
    BY <2>1 DEF CInv, CTyped
  <2>6. \A x \in DOMAIN index' : index'[x] \in Entries
    <3>1. index'[job.key] \in Entries
      BY <1>2, <1>3, <1>6, <2>3, <2>5 DEF Entry, Entries
    <3>2. QED  BY <1>7, <2>5, <3>1
  <2>7. QED  BY <2>4, <2>6
<1>11. /\ idxFile' \in Seq(Records) /\ OnePerKey(idxFile')
       /\ Sound(idxFile', freeFile, Len(datFile)) /\ Agree(index', idxFile')
       /\ \A x \in DOMAIN index' : index'[x] \in Entries
  BY <1>8, <1>9, <1>10
<1>12. ~torn' /\ torn' \in BOOLEAN
  <2>1. ASSUME job.op = "update"
        PROVE  OwnRecord(idxFile, job.key, index[job.key].rec)
    <3>1. Known = index  BY <2>1 DEF Known
    <3>2. QED  BY <1>2, <1>5, <3>1 DEF Agree, OwnRecord, ValidRecs
  <2>2. QED  BY <1>1, <2>1 DEF CInv, CTyped
<1>13. TypeOK'
  <2>1. index' \in [DOMAIN index' -> Entries]  BY <1>1, <1>11
  <2>2. ret' \in [status : Statuses, value : Seq(Byte)]
    BY <1>1, EmptySeq DEF Reply, Statuses
  <2>3. QED  BY <1>1, <1>7, <1>11, <1>12, <2>1, <2>2 DEF CInv, CTyped, TypeOK
<1>14. NoSharedSpace'
  BY <1>1, <1>11 DEF NoSharedSpace, RecordsApart, SlotsApart, RecordsNotFree,
                     AllWithin, Within, Sound, InFile
<1>15. Offered(freeList') \subseteq LoadFree(freeFile')
  BY <1>1, <1>2 DEF CInv
<1>16. IInv'
  BY <1>1, <1>2, <1>11, <1>12, <1>13, <1>14, <1>15, AgreesOpen
<1>17. QED  BY <1>1, <1>16, StorageIsIdle

\* An erase gives the extent of its key to .free before it marks the record:
\* from here on the record counts as marked.
LEMMA BeginEraseInv ==
  ASSUME CInv, NEW k \in Keys, BeginErase(k)
  PROVE  CInv'
<1> DEFINE r == index[k].rec
           o == index[k].off
           n == index[k].len
           h == Invalidate(idxFile, r)
<1>1. /\ pc = "idle" /\ pc' = "mark" /\ opened /\ k \in DOMAIN index
      /\ index' = [x \in DOMAIN index \ {k} |-> index[x]]
      /\ freeFile' = AppendSlot(freeFile, o, n)
      /\ freeList' = freeList \cup {[off |-> o, len |-> n, slot |-> Len(freeFile) + 1]}
      /\ job' = [op |-> "erase", key |-> k, rec |-> r]
      /\ UNCHANGED <<opened, cached, cache, datFile, datPos, idxFile, torn, ret>>
  BY DEF BeginErase
<1>2. Known = index /\ Marked = idxFile /\ IInv  BY <1>1, IdleIsStorage
<1>3. /\ idxFile \in Seq(Records) /\ freeFile \in Seq(Slots)
      /\ Len(datFile) \in Nat /\ Len(freeFile) \in Nat
      /\ index \in [DOMAIN index -> Entries] /\ DOMAIN index \subseteq Keys
      /\ OnePerKey(idxFile) /\ Sound(idxFile, freeFile, Len(datFile))
      /\ Agree(index, idxFile)
      /\ Offered(freeList) \subseteq LoadFree(freeFile)
  BY <1>1, <1>2, LenProperties DEF CInv, IInv, TypeOK
<1>4. o \in Nat /\ n \in Nat  BY <1>1, <1>3 DEF Entries
<1>5. /\ r \in ValidRecs(idxFile) /\ idxFile[r].key = k
      /\ Sound(h, freeFile, Len(datFile)) /\ OnePerKey(h)
      /\ Unused(Extent(o, n), h, freeFile) /\ InFile(Extent(o, n), Len(datFile))
      /\ Agree(index', h)
  <2>1. idxFile[r].key = k  BY <1>1, <1>3 DEF Agree
  <2>2. QED  BY <1>1, <1>3, <2>1, AgreeTaken, RecordTaken
<1>6. h \in Seq(Records)  BY <1>3, <1>5, Marking
<1>7. job'.op = "erase" /\ job'.rec = r /\ job'.key = k  BY <1>1
<1>8. Known' = index' /\ Marked' = h  BY <1>1, <1>7 DEF Known, Marked
<1> HIDE DEF r, o, n, h
<1>9. Sound(h, freeFile', Len(datFile)) /\ freeFile' \in Seq(Slots)
  BY <1>1, <1>3, <1>4, <1>5, <1>6, SlotAdded
<1>10. Offered(freeList') \subseteq LoadFree(freeFile')
  BY <1>1, <1>3, <1>4, OfferedWith
<1>11. CTyped'
  <2>1. freeList' \in SUBSET Free
    BY <1>1, <1>3, <1>4 DEF CInv, CTyped, Free
  <2>2. /\ DOMAIN index' \subseteq Keys
        /\ \A x \in DOMAIN Known' : Known'[x] \in Entries
    BY <1>1, <1>3, <1>8
  <2>3. index' \in [DOMAIN index' -> [off : Nat, len : Nat, rec : Nat]]
    <3>1. Entries \subseteq [off : Nat, len : Nat, rec : Nat]  BY DEF Entries
    <3>2. QED  BY <1>1, <1>3, <3>1
  <2>4. QED
    BY <1>1, <1>5, <1>7, <1>9, <2>1, <2>2, <2>3 DEF CInv, CTyped, Writing
<1>12. Reserved'  BY <1>1 DEF Reserved
<1>13. QED
  BY <1>1, <1>5, <1>8, <1>9, <1>10, <1>11, <1>12 DEF CInv

\* The record is marked: the file is what the invariant took it for.
LEMMA FinishEraseInv ==
  ASSUME FreedIntact, CInv, FinishErase
  PROVE  CInv'
<1>1. /\ pc = "mark" /\ pc' = "idle" /\ job' = NoJob
      /\ ret' = Reply("Ok", <<>>)
      /\ UNCHANGED <<opened, cached, index, freeList, cache, datFile, datPos,
                     freeFile>>
  BY DEF FinishErase, memory
<1>2. idxFile' = Marked /\ torn' = (torn \/ ~OwnRecord(idxFile, job.key, job.rec))
  BY <1>1 DEF FinishErase, FreedRecord, Marked
<1>3. /\ opened /\ job.op = "erase" /\ job.rec \in ValidRecs(idxFile)
      /\ idxFile \in Seq(Records) /\ ~torn'
  BY <1>1, <1>2 DEF CInv, CTyped, Writing, OwnRecord, ValidRecs
<1>4. Known = index  BY <1>3 DEF Known
<1>5. Marked \in Seq(Records)  BY <1>1, <1>3, Marking DEF Marked
<1>6. TypeOK'
  <2>1. index' \in [DOMAIN index' -> Entries]
    BY <1>1, <1>4 DEF CInv, CTyped
  <2>2. ret' \in [status : Statuses, value : Seq(Byte)]
    BY <1>1, EmptySeq DEF Reply, Statuses
  <2>3. torn' \in BOOLEAN  BY <1>2 DEF OwnRecord, CInv, CTyped
  <2>4. QED  BY <1>1, <1>2, <1>5, <2>1, <2>2, <2>3 DEF CInv, CTyped, TypeOK
<1>7. NoSharedSpace'
  BY <1>1, <1>2 DEF CInv, NoSharedSpace, RecordsApart, SlotsApart,
                    RecordsNotFree, AllWithin, Within, Sound, InFile
<1>8. /\ OnePerKey(idxFile') /\ Agree(index', idxFile') /\ opened'
      /\ Offered(freeList') \subseteq LoadFree(freeFile')
  BY <1>1, <1>2, <1>3, <1>4 DEF CInv
<1>9. IInv'  BY <1>3, <1>6, <1>7, <1>8, AgreesOpen
<1>10. QED  BY <1>1, <1>9, StorageIsIdle

\* The calls that write nothing.
LEMMA QuickInv ==
  ASSUME CInv, Emptied, Quick
  PROVE  CInv'
<1>1. pc = "idle" /\ pc' = "idle" /\ job' = job  BY DEF Quick
<1>2. IInv /\ job' = NoJob  BY <1>1, IdleIsStorage
<1>3. CASE Open \/ Close \/ \E mode \in CacheModes : Construct(mode)
  <2>1. TypeOK'  BY <1>2, <1>3, TypeStep DEF IInv, Next
  <2>2. IInv'  BY <1>2, <1>3, <2>1, OpenCloseInv DEF Emptied
  <2>3. QED  BY <1>1, <1>2, <2>2, StorageIsIdle
<1>4. ASSUME NEW k \in Keys, Get(k) \/ (opened /\ (SetTaken(k) \/ NotFound(k)))
      PROVE  CInv'
  <2>1. UNCHANGED <<opened, index, freeList, files>>
    BY <1>4 DEF Get, SetTaken, NotFound, memory
  <2>2. TypeOK'
    <3>1. CASE Get(k)  BY <1>2, <3>1, ReadType DEF IInv
    <3>2. CASE SetTaken(k) \/ NotFound(k)
      <4>1. /\ ret' \in [status : Statuses, value : Seq(Byte)]
            /\ UNCHANGED <<opened, cached, index, freeList, cache, datFile,
                           datPos, idxFile, freeFile, torn>>
        <5>1. \E st \in Statuses : ret' = Reply(st, <<>>)
          BY <3>2 DEF SetTaken, NotFound, Statuses
        <5>2. ret' \in [status : Statuses, value : Seq(Byte)]
          BY <5>1, EmptySeq DEF Reply
        <5>3. QED  BY <3>2, <5>2 DEF SetTaken, NotFound, memory, files
      <4>2. QED  BY <1>2, <4>1 DEF IInv, TypeOK
    <3>3. QED  BY <1>4, <3>1, <3>2
  <2>3. IInv'  BY <1>2, <2>1, <2>2, ReadOnlyInv
  <2>4. QED  BY <1>1, <1>2, <2>3, StorageIsIdle
<1>5. QED  BY <1>3, <1>4 DEF Quick

\* The process dies: what it leaves in the files is what a closed database
\* has, as long as it was not in an erase.
LEMMA CrashInv ==
  ASSUME "erase" \notin CrashIn, CInv, Crash
  PROVE  CInv'
<1>1. /\ job.op \in CrashIn /\ pc' = "idle" /\ job' = NoJob
      /\ ~opened' /\ opened' \in BOOLEAN
      /\ index' = NoKeys /\ freeList' = {} /\ cache' = <<>> /\ datPos' = 0
      /\ UNCHANGED <<cached, datFile, idxFile, freeFile, torn, ret>>
  BY DEF Crash, files
<1>2. pc # "mark"  BY <1>1 DEF CInv, CTyped
<1>3. Marked = idxFile  BY <1>2 DEF Marked
<1>4. TypeOK'
  BY <1>1, EmptySeq DEF CInv, CTyped, TypeOK, NoKeys
<1>5. NoSharedSpace' /\ OneRecordPerKey'
  BY <1>1, <1>3 DEF CInv, OneRecordPerKey, OnePerKey, NoSharedSpace,
                    RecordsApart, SlotsApart, RecordsNotFree, AllWithin, Within,
                    Sound, InFile
<1>6. ~torn'  BY <1>1 DEF CInv, CTyped
<1>7. IInv'  BY <1>1, <1>4, <1>5, <1>6 DEF IInv, ReloadAgrees
<1>8. QED  BY <1>1, <1>7, StorageIsIdle

\* Nothing happens.
LEMMA StillInv ==
  ASSUME CInv, UNCHANGED cvars
  PROVE  CInv'
<1>1. UNCHANGED <<opened, cached, index, freeList, cache, datFile, datPos,
                  idxFile, freeFile, torn, ret, pc, job>>
  BY DEF cvars, vars
<1>2. Known' = Known /\ Marked' = Marked  BY <1>1 DEF Known, Marked
<1>3. CTyped'  BY <1>1, <1>2 DEF CInv, CTyped
<1>4. Reserved'  BY <1>1 DEF CInv, Reserved
<1>5. QED  BY <1>1, <1>2, <1>3, <1>4 DEF CInv

\* The invariant holds initially.
LEMMA CInitInv == CInit => CInv
<1> SUFFICES ASSUME CInit PROVE CInv  OBVIOUS
<1>1. Init /\ pc = "idle" /\ job = NoJob /\ job.op = "none"  BY DEF CInit, NoJob
<1>2. IInv  BY <1>1, InitInv
<1>3. Known = index /\ Marked = idxFile  BY <1>1 DEF Known, Marked
<1>4. CTyped
  <2>1. \A k \in DOMAIN index : index[k] \in Entries  BY <1>2 DEF IInv, TypeOK
  <2>2. index \in [DOMAIN index -> [off : Nat, len : Nat, rec : Nat]]
    <3>1. Entries \subseteq [off : Nat, len : Nat, rec : Nat]  BY DEF Entries
    <3>2. QED  BY <1>2, <3>1 DEF IInv, TypeOK
  <2>3. QED  BY <1>1, <1>2, <1>3, <2>1, <2>2 DEF IInv, TypeOK, CTyped, Writing
<1>5. OnePerKey(Marked)  BY <1>2, <1>3 DEF IInv, OneRecordPerKey, OnePerKey
<1>6. Sound(Marked, freeFile, Len(datFile))  BY <1>2, <1>3, SoundIsUnshared DEF IInv
<1>7. Reserved  BY <1>1 DEF Reserved
<1>8. QED  BY <1>1, <1>2, <1>4, <1>5, <1>6, <1>7 DEF CInv, IInv, Init

\* Each of them leaves a closed database with nothing in memory.
LEMMA EmptiedStep ==
  ASSUME CInv, Emptied, [CNext]_cvars
  PROVE  Emptied'
<1>1. pc # "idle" => opened  BY DEF CInv, CTyped
<1>2. CASE Quick
  <2>1. CASE Open  BY <2>1 DEF Open, Emptied
  <2>2. CASE Close \/ \E mode \in CacheModes : Construct(mode)
    BY <2>2 DEF Close, Construct, Emptied
  <2>3. ASSUME NEW k \in Keys, Get(k) \/ (opened /\ (SetTaken(k) \/ NotFound(k)))
        PROVE  Emptied'
    BY <2>3 DEF Get, SetTaken, NotFound, memory, Emptied
  <2>4. QED  BY <1>2, <2>1, <2>2, <2>3 DEF Quick
<1>3. CASE Crash  BY <1>3 DEF Crash, Emptied
<1>4. ASSUME NEW k \in Keys, NEW v \in Values, BeginSet(k, v) \/ BeginUpdate(k, v)
      PROVE  Emptied'
  BY <1>4 DEF BeginSet, BeginUpdate, Emptied
<1>5. ASSUME NEW k \in Keys, BeginErase(k)  PROVE Emptied'
  BY <1>5 DEF BeginErase, Emptied
<1>6. CASE ClearSlot \/ AppendRest \/ WriteValue \/ Finish \/ FinishErase
  BY <1>1, <1>6
     DEF ClearSlot, AppendRest, WriteValue, Finish, FinishErase, Emptied
<1>7. CASE UNCHANGED cvars  BY <1>7 DEF cvars, vars, Emptied
<1>8. QED
  BY <1>2, <1>3, <1>4, <1>5, <1>6, <1>7 DEF CNext

\* What the theorems ask of the callers and of the place where the process dies.
CrashCalls == "grow" \notin Calls /\ FreedIntact /\ "erase" \notin CrashIn

\* Every system call, and every death of the process outside an erase, keeps
\* the invariant.
LEMMA CStep ==
  ASSUME CrashCalls, CInv, Emptied, [CNext]_cvars
  PROVE  CInv'
<1>1. ASSUME NEW k \in Keys, NEW v \in Values, BeginSet(k, v)  PROVE CInv'
  BY <1>1, BeginSetInv
<1>2. ASSUME NEW k \in Keys, NEW v \in Values, BeginUpdate(k, v)  PROVE CInv'
  BY <1>2, BeginUpdateInv DEF CrashCalls
<1>3. ASSUME NEW k \in Keys, BeginErase(k)  PROVE CInv'
  BY <1>3, BeginEraseInv
<1>4. CASE ClearSlot  BY <1>4, ClearSlotInv
<1>5. CASE AppendRest  BY <1>5, AppendRestInv
<1>6. CASE WriteValue  BY <1>6, WriteValueInv
<1>7. CASE Finish  BY <1>7, FinishInv
<1>8. CASE FinishErase  BY <1>8, FinishEraseInv DEF CrashCalls
<1>9. CASE Quick  BY <1>9, QuickInv
<1>10. CASE Crash  BY <1>10, CrashInv DEF CrashCalls
<1>11. CASE UNCHANGED cvars  BY <1>11, StillInv
<1>12. QED
  BY <1>1, <1>2, <1>3, <1>4, <1>5, <1>6, <1>7, <1>8, <1>9, <1>10, <1>11 DEF CNext

\* At every moment, between any two system calls of a set or of an update with a
\* value that is not longer, and after a death of the process there, the files
\* share no space.
THEOREM CrashSafe ==
  ASSUME CrashCalls
  PROVE  CSpec => []CrashNoSharedSpace
<1>1. CInit => CInv /\ Emptied
  <2>1. CInit => Emptied  BY DEF CInit, Init, Emptied
  <2>2. QED  BY <2>1, CInitInv
<1>2. CInv /\ Emptied /\ [CNext]_cvars => (CInv /\ Emptied)'
  BY CStep, EmptiedStep
<1>3. CInv => CrashNoSharedSpace
  <2> SUFFICES ASSUME CInv, pc # "mark" PROVE NoSharedSpace
    BY DEF CrashNoSharedSpace
  <2>1. Marked = idxFile  BY DEF Marked
  <2>2. QED  BY <2>1, SoundIsUnshared DEF CInv
<1>4. QED  BY <1>1, <1>2, <1>3, PTL DEF CSpec

(***************************************************************************)
(* Refinement.  A set or an update happens when its record is written, and *)
(* an erase when its record is marked; until then what the files store is  *)
(* what they stored, and so it is after a death of the process.            *)
(***************************************************************************)
\* What .idx f and .dat d store.
StoredIn(f, d) ==
  [k \in DOMAIN LoadIndex(f) |->
     LET e == LoadIndex(f)[k] IN ReadDat(d, e.off, e.len)]

\* It is read through any index that agrees with the records.
LEMMA StoredThrough ==
  ASSUME NEW f \in Seq(Records), NEW d, OnePerKey(f), NEW ix,
         ix \in [DOMAIN ix -> Entries], Agree(ix, f)
  PROVE  StoredIn(f, d) = [k \in DOMAIN ix |-> ReadDat(d, ix[k].off, ix[k].len)]
BY AgreeIsLoad DEF StoredIn

\* What the steps of a call have done so far: the value is in .dat before the
\* record is written, and the record that will be marked is its key's only one.
Underway ==
  /\ pc = "idx" =>
       ReadDat(datFile, job.at, Len(job.value)) = job.value
  /\ pc = "mark" => OnePerKey(idxFile) /\ job.key \in Keys

CRInv == CInv /\ Emptied /\ Underway

\* The initial states and the steps keep it.
LEMMA UnderwayStep ==
  ASSUME CInv, Underway, [CNext]_cvars
  PROVE  Underway'
<1>1. CASE WriteValue
  <2>1. /\ pc = "dat" /\ pc' = "idx"
        /\ datFile' = PWrite(datFile, job.value, Place(job.at))
        /\ job' = [job EXCEPT !.at = Place(job.at)]
    BY <1>1 DEF WriteValue, WriteDat
  <2>2. job \in WriteJobs  BY <2>1 DEF CInv, CTyped, Writing
  <2>3. job'.at = Place(job.at) /\ job'.value = job.value
    BY <2>1, <2>2 DEF WriteJobs
  <2>4. job.value \in Seq(Byte) /\ datFile \in Seq(Byte)
    BY <2>2, ByteAssumption DEF WriteJobs, CInv, CTyped
  <2>5. Place(job.at) \in Nat  BY <2>1, ValuePlace
  <2>6. QED  BY <2>1, <2>3, <2>4, <2>5, ReadBack DEF Underway
<1>2. ASSUME NEW k \in Keys, BeginErase(k)  PROVE Underway'
  <2>1. /\ pc = "idle" /\ pc' = "mark" /\ opened /\ k \in DOMAIN index
        /\ job' = [op |-> "erase", key |-> k, rec |-> index[k].rec]
        /\ UNCHANGED idxFile
    BY <1>2 DEF BeginErase
  <2>2. Known = index /\ Marked = idxFile  BY <2>1, IdleIsStorage
  <2>3. OnePerKey(idxFile)
    BY <2>1, <2>2 DEF CInv
  <2>4. job'.key = k /\ job'.rec = index[k].rec  BY <2>1
  <2>5. QED  BY <2>1, <2>3, <2>4 DEF Underway
<1>3. CASE UNCHANGED cvars
  BY <1>3 DEF cvars, vars, Underway
<1>4. CASE Quick
  <2>1. pc = "idle" /\ pc' = "idle"  BY <1>4 DEF Quick
  <2>2. QED  BY <2>1 DEF Underway
<1>5. CASE pc' \notin {"idx", "mark"}
  BY <1>5 DEF Underway
<1>6. ASSUME NEW k \in Keys, NEW v \in Values, BeginSet(k, v) \/ BeginUpdate(k, v)
      PROVE  Underway'
  BY <1>5, <1>6 DEF BeginSet, BeginUpdate, Start
<1>7. CASE ClearSlot \/ AppendRest \/ Finish \/ FinishErase \/ Crash
  BY <1>5, <1>7 DEF ClearSlot, AppendRest, Finish, FinishErase, Crash
<1>8. QED  BY <1>1, <1>2, <1>3, <1>4, <1>6, <1>7 DEF CNext

\* Writing the value changes no stored value.
LEMMA WriteValueStutters ==
  ASSUME CInv, WriteValue
  PROVE  UNCHANGED <<Stored, ret>>
<1>1. /\ pc = "dat" /\ UNCHANGED <<idxFile, ret>>
      /\ datFile' = PWrite(datFile, job.value, Place(job.at))
  BY DEF WriteValue, WriteDat
<1>2. job \in WriteJobs /\ opened  BY <1>1 DEF CInv, CTyped, Writing
<1>3. /\ job.value \in Seq(Byte) /\ datFile \in Seq(Byte)
      /\ Len(job.value) \in Nat /\ Len(datFile) \in Nat
      /\ idxFile \in Seq(Records)
  BY <1>2, ByteAssumption, LenProperties DEF WriteJobs, CInv, CTyped
<1>4. Marked = idxFile  BY <1>1 DEF Marked
<1>5. Known \in [DOMAIN Known -> Entries]
  <2>1. index = [k \in DOMAIN index |-> index[k]]  BY DEF CInv, CTyped
  <2>2. Known = [k \in DOMAIN Known |-> Known[k]]  BY <2>1 DEF Known
  <2>3. QED  BY <2>2 DEF CInv, CTyped
<1>6. OnePerKey(idxFile) /\ Agree(Known, idxFile)
  BY <1>2, <1>4 DEF CInv
<1> DEFINE x == Extent(Place(job.at), Len(job.value))
<1>7. Place(job.at) \in Nat /\ \A i \in ValidRecs(idxFile) : Apart(idxFile[i], x)
  BY <1>1, ValuePlace DEF Unused
<1>8. x.off = Place(job.at) /\ x.len = Len(job.value)  BY DEF Extent
<1> HIDE DEF x
<1>9. ASSUME NEW k \in DOMAIN Known
      PROVE  ReadDat(datFile', Known[k].off, Known[k].len)
               = ReadDat(datFile, Known[k].off, Known[k].len)
  <2>1. PICK r \in ValidRecs(idxFile) :
          idxFile[r].off = Known[k].off /\ idxFile[r].len = Known[k].len
    BY <1>6 DEF Agree
  <2>2. Known[k].off \in Nat /\ Known[k].len \in Nat  BY <1>5 DEF Entries
  <2>3. InFile(idxFile[r], Len(datFile))  BY <1>4 DEF CInv, Sound
  <2>4. Apart(idxFile[r], x)  BY <1>7
  <2>5. Known[k].len = 0 \/ Known[k].off + Known[k].len <= Len(datFile)
    BY <2>1, <2>3 DEF InFile
  <2>6. \/ Known[k].len = 0 \/ Len(job.value) = 0
        \/ Known[k].off + Known[k].len <= Place(job.at)
        \/ Place(job.at) + Len(job.value) <= Known[k].off
    BY <1>8, <2>1, <2>4 DEF Apart
  <2>7. QED  BY <1>1, <1>3, <1>7, <2>2, <2>5, <2>6, ReadOther
<1>10. /\ StoredIn(idxFile, datFile)
            = [k \in DOMAIN Known |-> ReadDat(datFile, Known[k].off, Known[k].len)]
       /\ StoredIn(idxFile, datFile')
            = [k \in DOMAIN Known |-> ReadDat(datFile', Known[k].off, Known[k].len)]
  BY <1>3, <1>5, <1>6, StoredThrough
<1>11. StoredIn(idxFile, datFile') = StoredIn(idxFile, datFile)
  BY <1>9, <1>10
<1>12. QED  BY <1>1, <1>11 DEF Stored, StoredIn

\* Writing the record is the set or the update.
LEMMA FinishMaps ==
  ASSUME CRInv, CInv', Finish
  PROVE  KV!Set(job.key, job.value) \/ KV!Update(job.key, job.value)
<1> DEFINE n == Len(job.value)
<1>1. /\ pc = "idx" /\ pc' = "idle"
      /\ index' = [index EXCEPT ![job.key] =
                     Entry(job.at, n, IF job.op = "set" THEN Len(idxFile) + 1
                                      ELSE @.rec)]
      /\ ret' = Reply("Ok", <<>>)
      /\ UNCHANGED <<opened, datFile>>
  BY DEF Finish
<1>2. /\ opened /\ job \in WriteJobs /\ job.key \in DOMAIN index
      /\ index = [x \in DOMAIN index |-> index[x]]
      /\ idxFile \in Seq(Records)
  BY <1>1 DEF CRInv, CInv, CTyped, Writing
<1>3. Marked = idxFile  BY <1>1 DEF Marked
<1>4. ReadDat(datFile, job.at, n) = job.value
  BY <1>1 DEF CRInv, Underway
<1>5. IInv'
  <2>1. job' = NoJob  BY DEF Finish
  <2>2. Known' = index' /\ Marked' = idxFile'
    <3>1. job'.op = "none"  BY <2>1 DEF NoJob
    <3>2. QED  BY <1>1, <3>1 DEF Known, Marked
  <2>3. TypeOK' /\ ~torn'
    <3>1. index' \in [DOMAIN index' -> Entries]  BY <2>2 DEF CInv, CTyped
    <3>2. QED  BY <3>1 DEF CInv, CTyped, TypeOK
  <2>4. NoSharedSpace'
    BY <2>2 DEF CInv, NoSharedSpace, RecordsApart, SlotsApart, RecordsNotFree,
                AllWithin, Within, Sound, InFile
  <2>5. QED  BY <1>1, <1>2, <2>2, <2>3, <2>4, AgreesOpen DEF CInv
<1>6. Stored' = [x \in DOMAIN index' |->
                   ReadDat(datFile', index'[x].off, index'[x].len)]
  BY <1>1, <1>2, <1>5, StoredOpenNext
<1>7. /\ DOMAIN index' = DOMAIN index
      /\ \A x \in DOMAIN index : x # job.key => index'[x] = index[x]
      /\ index'[job.key].off = job.at /\ index'[job.key].len = n
  BY <1>1, <1>2 DEF Entry
<1>8. Stored = [x \in DOMAIN Known |->
                  ReadDat(datFile, Known[x].off, Known[x].len)]
  <2>1. Known \in [DOMAIN Known -> Entries]
    <3>1. Known = [k \in DOMAIN Known |-> Known[k]]  BY <1>2 DEF Known
    <3>2. QED  BY <3>1 DEF CRInv, CInv, CTyped
  <2>2. OnePerKey(idxFile) /\ Agree(Known, idxFile)
    BY <1>2, <1>3 DEF CRInv, CInv
  <2>3. StoredIn(idxFile, datFile)
          = [x \in DOMAIN Known |-> ReadDat(datFile, Known[x].off, Known[x].len)]
    BY <1>2, <2>1, <2>2, StoredThrough
  <2>4. QED  BY <2>3 DEF Stored, StoredIn
<1>9. /\ DOMAIN Known \cup {job.key} = DOMAIN index
      /\ \A x \in DOMAIN Known : Known[x] = index[x]
      /\ job.op = "set" => job.key \notin DOMAIN Known
      /\ job.op # "set" => job.key \in DOMAIN Known
  BY <1>2 DEF Known
<1> HIDE DEF n
<1>10. Stored' = KV!Put(job.key, job.value)
  BY <1>1, <1>2, <1>4, <1>6, <1>7, <1>8, <1>9 DEF KV!Put, n
<1>11. ret' = KV!Reply("Ok", <<>>)  BY <1>1 DEF Reply, KV!Reply
<1>12. DOMAIN Stored = DOMAIN Known  BY <1>8
<1>13. QED  BY <1>9, <1>10, <1>11, <1>12 DEF KV!Set, KV!Update

\* Marking the record is the erase.
LEMMA FinishEraseMaps ==
  ASSUME FreedIntact, CRInv, FinishErase
  PROVE  KV!Erase(job.key)
<1>1. /\ pc = "mark" /\ ret' = Reply("Ok", <<>>) /\ UNCHANGED datFile
      /\ idxFile' = Invalidate(idxFile, job.rec)
  BY DEF FinishErase, FreedRecord
<1>2. /\ job.rec \in ValidRecs(idxFile) /\ idxFile \in Seq(Records)
      /\ OnePerKey(idxFile) /\ idxFile[job.rec].key = job.key
  BY <1>1 DEF CRInv, CInv, CTyped, Underway
<1> DEFINE L == LoadIndex(idxFile)
           jx == [x \in DOMAIN L \ {job.key} |-> L[x]]
           h == Invalidate(idxFile, job.rec)
<1>3. Agree(L, idxFile) /\ L \in [DOMAIN L -> Entries]
  BY <1>2, LoadAgrees, LoadIndexType
<1> HIDE DEF L
<1>4. job.key \in DOMAIN L /\ L[job.key].rec = job.rec
  <2>1. job.key \in DOMAIN L  BY <1>2, <1>3 DEF Agree
  <2>2. L[job.key].rec \in ValidRecs(idxFile)
        /\ idxFile[L[job.key].rec].key = job.key
    BY <1>3, <2>1 DEF Agree
  <2>3. QED  BY <1>2, <2>1, <2>2 DEF OnePerKey
<1>5. Agree(jx, h) /\ OnePerKey(h)
  BY <1>2, <1>3, <1>4, AgreeTaken
<1>6. h \in Seq(Records)  BY <1>2, Marking
<1>7. jx \in [DOMAIN jx -> Entries]  BY <1>3
<1>8. DOMAIN jx = DOMAIN L \ {job.key} /\ \A x \in DOMAIN jx : jx[x] = L[x]
  OBVIOUS
<1> HIDE DEF jx, h
<1>9. /\ StoredIn(idxFile, datFile)
           = [x \in DOMAIN L |-> ReadDat(datFile, L[x].off, L[x].len)]
      /\ StoredIn(h, datFile)
           = [x \in DOMAIN jx |-> ReadDat(datFile, jx[x].off, jx[x].len)]
  BY <1>2, <1>3, <1>5, <1>6, <1>7, StoredThrough
<1>10. Stored = StoredIn(idxFile, datFile) /\ Stored' = StoredIn(h, datFile)
  BY <1>1 DEF Stored, StoredIn, h
<1>11. /\ job.key \in DOMAIN Stored
       /\ Stored' = [x \in DOMAIN Stored \ {job.key} |-> Stored[x]]
  BY <1>4, <1>8, <1>9, <1>10
<1>12. QED  BY <1>1, <1>11 DEF KV!Erase, Reply, KV!Reply

\* The calls that write nothing answer as the map does.
LEMMA QuickMaps ==
  ASSUME Values # {}, CInv, Quick
  PROVE  [KV!Next]_(KV!vars)
<1>1. pc = "idle"  BY DEF Quick
<1>2. IInv  BY <1>1, IdleIsStorage
<1>3. CASE Open \/ Close \/ \E mode \in CacheModes : Construct(mode)
  <2>1. UNCHANGED files /\ ret' = ret  BY <1>3 DEF Open, Close, Construct
  <2>2. QED  BY <2>1, StoredSame DEF KV!vars
<1>4. ASSUME NEW k \in Keys, Get(k) \/ (opened /\ (SetTaken(k) \/ NotFound(k)))
      PROVE  KV!Next
  <2>1. opened /\ UNCHANGED files
    BY <1>4 DEF Get, SetTaken, NotFound
  <2>2. Stored' = Stored  BY <2>1, StoredSame
  <2>3. Stored = [x \in DOMAIN index |->
                    ReadDat(datFile, index[x].off, index[x].len)]
    BY <1>2, <2>1, StoredOpen
  <2>4. CASE SetTaken(k)
    <3>1. \A v : KV!Set(k, v)
      BY <2>2, <2>3, <2>4 DEF SetTaken, KV!Set, Reply, KV!Reply
    <3>2. QED  BY <3>1 DEF KV!Next
  <2>5. CASE NotFound(k)
    <3>1. KV!Erase(k)
      BY <2>2, <2>3, <2>5 DEF NotFound, KV!Erase, Reply, KV!Reply
    <3>2. QED  BY <3>1 DEF KV!Next
  <2>6. CASE Get(k) /\ ~NotFound(k)
    <3>1. k \in DOMAIN index
          /\ ret' = Reply("Ok", ReadDat(datFile, index[k].off, index[k].len))
      BY <2>6 DEF Get
    <3>2. KV!Get(k)  BY <2>2, <2>3, <3>1 DEF KV!Get, Reply, KV!Reply
    <3>3. QED  BY <3>2 DEF KV!Next
  <2>7. QED  BY <1>4, <2>4, <2>5, <2>6
<1>5. QED  BY <1>3, <1>4 DEF Quick

\* Every step is a step of the map or leaves it alone.
LEMMA CNextMaps ==
  ASSUME CrashCalls, Values # {}, CRInv, CInv', [CNext]_cvars
  PROVE  [KV!Next]_(KV!vars)
<1>1. CASE UNCHANGED <<datFile, idxFile, ret>>
  <2>1. UNCHANGED <<Stored, ret>>  BY <1>1 DEF Stored
  <2>2. QED  BY <2>1 DEF KV!vars
<1>2. ASSUME NEW k \in Keys,
             (\E v \in Values : BeginSet(k, v) \/ BeginUpdate(k, v))
               \/ BeginErase(k)
      PROVE  [KV!Next]_(KV!vars)
  BY <1>1, <1>2 DEF BeginSet, BeginUpdate, BeginErase, files
<1>3. CASE ClearSlot \/ AppendRest \/ Crash
  BY <1>1, <1>3 DEF ClearSlot, AppendRest, Crash, files
<1>4. CASE WriteValue
  BY <1>4, WriteValueStutters DEF CRInv, KV!vars
<1>5. CASE Finish
  <2>1. job \in WriteJobs  BY <1>5 DEF Finish, CRInv, CInv, CTyped, Writing
  <2>2. job.key \in Keys /\ job.value \in Values  BY <2>1 DEF WriteJobs
  <2>3. QED  BY <1>5, <2>2, FinishMaps DEF KV!Next
<1>6. CASE FinishErase
  <2>1. job.key \in Keys  BY <1>6 DEF FinishErase, CRInv, Underway
  <2>2. QED  BY <1>6, <2>1, FinishEraseMaps DEF KV!Next, CrashCalls
<1>7. CASE Quick  BY <1>7, QuickMaps DEF CRInv
<1>8. CASE UNCHANGED cvars  BY <1>1, <1>8 DEF cvars, vars
<1>9. QED
  BY <1>2, <1>3, <1>4, <1>5, <1>6, <1>7, <1>8 DEF CNext

\* The files implement the map although the process may die at any system call
\* of a set or of an update with a value that is not longer: the call has happened
\* if its record was written, and has not otherwise; nothing else is gained or
\* lost.
THEOREM CrashImplements ==
  ASSUME CrashCalls, Values # {}
  PROVE  CSpec => CrashImplementsKV
<1>1. CInit => CRInv /\ KV!Init
  <2> SUFFICES ASSUME CInit PROVE CRInv /\ KV!Init  OBVIOUS
  <2>1. Underway /\ Emptied  BY DEF CInit, Init, Underway, Emptied
  <2>2. QED  BY <2>1, CInitInv, InitMaps DEF CInit, CRInv
<1>2. CRInv /\ [CNext]_cvars => CRInv'
  BY CStep, EmptiedStep, UnderwayStep DEF CRInv
<1>3. CRInv /\ CRInv' /\ [CNext]_cvars => [KV!Next]_(KV!vars)
  BY CNextMaps DEF CRInv
<1>4. QED
  BY <1>1, <1>2, <1>3, PTL DEF CSpec, CrashImplementsKV, KV!Spec
==============================================================================
