------------------------------- MODULE Storage -------------------------------
(***************************************************************************)
(* One database of the ambry library: the class DB with its RW, Cache and  *)
(* IoManager.  The state is what a DB object holds in memory (the context  *)
(* of lib/types.hpp) and the three files behind it:                        *)
(*                                                                         *)
(*   .dat   the values, one byte after another                             *)
(*   .idx   a record for every key ever set; an erased key's record stays, *)
(*          marked as not valid                                            *)
(*   .free  a slot for every extent of .dat that was given back; a slot    *)
(*          whose extent is in use again is overwritten with zeros         *)
(*                                                                         *)
(* Every action is one call of the DB class, run to its end.  (The steps a *)
(* call is made of, and what a crash between them leaves, are the subject  *)
(* of StorageCrash.)  Offsets into .dat count from 0, as in the code: the  *)
(* byte at offset o is datFile[o + 1].  The position of a record in .idx   *)
(* and of a slot in .free is its number, counted from 1: what the code     *)
(* keeps is the byte offset of that record or slot.  (Numbers and offsets  *)
(* say the same as long as a position is used on the file it was read from *)
(* or given by.  A DB object that was destroyed and opened again uses those *)
(* of the deleted files: see OwnRecord.)                                   *)
(***************************************************************************)
EXTENDS Integers, Sequences, FiniteSets

CONSTANTS
  Keys,         \* the keys callers use
  Byte,         \* the bytes values are made of
  Zero,         \* the byte 0: what a resized buffer and a file's hole hold
  Values,       \* the values callers set
  CacheModes,   \* the settings of Options.enable_cache a DB is made with
  Calls,        \* which of OptionalCalls the callers make
  FreedIntact,  \* is a node just freed read back unchanged? (see Erase)
  Misread,      \* what load_index may take for an entry in a torn .idx
  MaxDat,       \* bound: the length of .dat
  MaxRec,       \* bound: the number of records in .idx
  MaxSlot       \* bound: the number of slots in .free

\* The calls a workload may or may not make; set, get, erase, open and the
\* construction of a DB belong to every workload.  An update is a "grow" when
\* the new value is longer than the old one, a "shrink" when it is not, and a
\* "shrink_cached" when it is not and the database is cached.  "reuse" is to open
\* a DB object again that was destroyed with keys or free extents in memory.
OptionalCalls ==
  {"shrink", "shrink_cached", "grow", "get_cached", "switch_cache", "close",
   "destroy", "reuse"}

ASSUME ByteAssumption == Zero \in Byte /\ Values \subseteq Seq(Byte)
ASSUME CallsAssumption == Calls \subseteq OptionalCalls
ASSUME ModesAssumption == CacheModes \subseteq BOOLEAN
ASSUME MisreadAssumption ==
  Misread \subseteq [off : Nat, len : Nat, rec : Nat \ {0}]
ASSUME FreedAssumption == FreedIntact \in BOOLEAN
ASSUME BoundAssumption == MaxDat \in Nat /\ MaxRec \in Nat /\ MaxSlot \in Nat

VARIABLES
  opened,    \* are the three files open?
  cached,    \* m_ctx.options.enable_cache
  index,     \* m_ctx.index: key |-> where its value is, and its .idx record
  freeList,  \* m_ctx.free_list: the extents known to be free, with their slots
  cache,     \* m_ctx.data: the elements of the vector
  datFile,   \* the .dat file
  datPos,    \* the file position of the .dat descriptor (0: it is closed)
  idxFile,   \* the .idx file
  freeFile,  \* the .free file
  torn,      \* was .idx written to where no record of the key was?
  ret        \* the answer of the last call that has one

memory == <<cached, index, freeList, cache>>
files  == <<datFile, idxFile, freeFile, torn>>
vars   == <<opened, cached, index, freeList, cache,
            datFile, datPos, idxFile, freeFile, torn, ret>>

Reply(status, value) == [status |-> status, value |-> value]

NPos == -1                       \* std::string::npos

NoKeys == [k \in {} |-> 0]

-----------------------------------------------------------------------------
(* The files, as IoManager reads and writes them.                          *)

\* pwrite: a write that starts past the end leaves a hole of zeros.
PWrite(f, bytes, o) ==
  LET end == IF bytes = <<>> \/ o + Len(bytes) <= Len(f)
             THEN Len(f) ELSE o + Len(bytes)
  IN  [i \in 1..end |-> IF o < i /\ i <= o + Len(bytes) THEN bytes[i - o]
                        ELSE IF i <= Len(f) THEN f[i] ELSE Zero]

\* read_dat: a buffer of n zeros, filled as far as the file goes.
ReadDat(f, o, n) ==
  [i \in 1..n |-> IF o + i <= Len(f) THEN f[o + i] ELSE Zero]

\* load_dat reads from the position the descriptor has, into the vector
\* resized to the length of the file.
LoadDat(f, pos, old) ==
  [i \in 1..Len(f) |-> IF pos + i <= Len(f) THEN f[pos + i]
                       ELSE IF i <= Len(old) THEN old[i] ELSE Zero]

Entry(o, n, r) == [off |-> o, len |-> n, rec |-> r]

ValidRecs(f) == {i \in 1..Len(f) : f[i].valid}

\* load_index: of the valid records of a key the first one is kept, since
\* emplace inserts nothing under a key that is there.
FirstRecs(f) ==
  {i \in ValidRecs(f) : \A j \in ValidRecs(f) : f[j].key = f[i].key => i <= j}

LoadIndex(f) ==
  [k \in {f[i].key : i \in FirstRecs(f)} |->
     LET r == CHOOSE i \in FirstRecs(f) : f[i].key = k
     IN  Entry(f[r].off, f[r].len, r)]

\* Does position r hold a record of key k?  A position kept from files that are
\* deleted need not.  Past the end of .idx the write leaves a hole of zeros behind
\* the last record (pwritev in update, lseek and write in erase), and elsewhere it
\* may start in the middle of a record.
OwnRecord(f, k, r) == r \in 1..Len(f) /\ f[r].key = k

\* After such a write the records do not follow one another any more, and what
\* load_index makes of the bytes can be anything (of the keys callers use).
Garbled == UNION {[ks -> Misread] : ks \in SUBSET Keys}

IndexesRead == IF torn THEN Garbled ELSE {LoadIndex(idxFile)}

\* load_free: a slot of zeros is skipped.
UsedSlots(f) == {s \in 1..Len(f) : ~(f[s].off = 0 /\ f[s].len = 0)}

LoadFree(f) ==
  {[off |-> f[s].off, len |-> f[s].len, slot |-> s] : s \in UsedSlots(f)}

Record(k, o, n) == [key |-> k, valid |-> TRUE, off |-> o, len |-> n]

\* update writes offset and length of a record anew.
\* A mutant: it writes the offset only.
MovedKeepsLength(e, o, n) ==
  [key |-> e.key, valid |-> e.valid, off |-> o, len |-> e.len]

Moved(e, o, n) == [key |-> e.key, valid |-> e.valid, off |-> o, len |-> n]

MoveRecord(f, r, o, n) ==
  [i \in 1..Len(f) |-> IF i = r THEN Moved(f[i], o, n) ELSE f[i]]

Slot(o, n) == [off |-> o, len |-> n]

\* update_freelist appends a slot, erase_freelist overwrites one with zeros.
AppendSlot(f, o, n) == Append(f, Slot(o, n))

\* A mutant: erase_freelist is not called (the TODO of lib/rw.hpp:46).
ZeroSlotForgotten(f, s) == f

\* Past the end of .free the hole is one of slots of zeros, as they all have
\* 12 bytes.
ZeroSlot(f, s) ==
  [i \in 1..(IF s <= Len(f) THEN Len(f) ELSE s) |->
     IF i = s \/ i > Len(f) THEN Slot(0, 0) ELSE f[i]]

-----------------------------------------------------------------------------
(* Space: how RW finds an extent for a value and gives one back.           *)

\* find_free walks the multimap in the order of the lengths and takes the
\* first extent that is strictly longer than the value; extents of one
\* length stand in the order they were inserted, which is that of their slots.
Fits(n) == {e \in freeList : e.len > n}

Before(e, f) == e.len < f.len \/ (e.len = f.len /\ e.slot <= f.slot)

BestFits(n) == {e \in Fits(n) : \A f \in Fits(n) : Before(e, f)}

\* manage_free: erase(size) drops every extent of that length from memory,
\* in .free only the chosen slot is cleared; the rest of the extent is free
\* again, under a new slot.
Keep(e) == {f \in freeList : f.len # e.len}

\* A mutant: the length of the rest is negated.
RestNegated(e, n) ==
  [off |-> e.off + n, len |-> n - e.len, slot |-> Len(freeFile) + 1]

Rest(e, n) ==
  [off |-> e.off + n, len |-> e.len - n, slot |-> Len(freeFile) + 1]

ManageFree(e, n) ==
  LET cleared == ZeroSlot(freeFile, e.slot)
      rest == Rest(e, n)
  IN  IF rest.len = 0
      THEN [at |-> e.off, list |-> Keep(e), file |-> cleared]
      ELSE [at |-> e.off, list |-> Keep(e) \cup {rest},
            file |-> AppendSlot(cleared, rest.off, rest.len)]

\* Where a value of n bytes goes, with the free list and .free that leaves.
Allocations(n) ==
  IF Fits(n) = {} THEN {[at |-> NPos, list |-> freeList, file |-> freeFile]}
                  ELSE {ManageFree(e, n) : e \in BestFits(n)}

\* write_dat appends when it is given no offset.
Place(at) == IF at = NPos THEN Len(datFile) ELSE at

WriteDat(bytes, at) ==
  /\ datFile' = PWrite(datFile, bytes, Place(at))
  /\ datPos' = IF at = NPos THEN Len(datFile) ELSE datPos

-----------------------------------------------------------------------------
(* The cache.                                                              *)

\* Elements past the end of the vector are written to no element of it.
WriteAt(c, o, bytes) ==
  [i \in 1..Len(c) |-> IF o < i /\ i <= o + Len(bytes) THEN bytes[i - o]
                       ELSE c[i]]

\* A mutant: a value for a free extent is appended as well.
CacheAppend(c, bytes, at) == c \o bytes

CacheWrite(c, bytes, at) ==
  IF at = NPos THEN c \o bytes ELSE WriteAt(c, at, bytes)

\* What a slice of the vector's memory may hold: past its end, anything.
CacheSlices(o, n) ==
  {s \in [1..n -> Byte] :
     \A i \in 1..n : o + i <= Len(cache) => s[i] = cache[o + i]}

-----------------------------------------------------------------------------
(* The calls.                                                              *)

Room ==
  Len(datFile') <= MaxDat /\ Len(idxFile') <= MaxRec /\ Len(freeFile') <= MaxSlot

Init ==
  /\ opened = FALSE
  /\ cached \in CacheModes
  /\ index = NoKeys /\ freeList = {} /\ cache = <<>>
  /\ datFile = <<>> /\ datPos = 0 /\ idxFile = <<>> /\ freeFile = <<>>
  /\ torn = FALSE
  /\ ret = Reply("Ok", <<>>)

\* DB(name, options): a new object; the one before it is gone.
Construct(mode) ==
  /\ ~opened
  /\ cached' = mode
  /\ index' = NoKeys /\ freeList' = {} /\ cache' = <<>>
  /\ UNCHANGED <<opened, datPos, files, ret>>

\* open: what the context holds already is kept (after destroy it need not be
\* empty).  The vector is loaded whatever enable_cache says.
Open ==
  /\ ~opened
  /\ "reuse" \in Calls \/ (index = NoKeys /\ freeList = {})
  /\ opened' = TRUE
  /\ \E ix \in IndexesRead :
       index' = [k \in DOMAIN index \cup DOMAIN ix |->
                   IF k \in DOMAIN index THEN index[k] ELSE ix[k]]
  /\ cache' = LoadDat(datFile, 0, cache)
  /\ datPos' = Len(datFile)
  /\ freeList' = freeList \cup LoadFree(freeFile)
  /\ UNCHANGED <<cached, files, ret>>

Close ==
  /\ "close" \in Calls
  /\ opened
  /\ opened' = FALSE
  /\ index' = NoKeys /\ freeList' = {} /\ cache' = <<>>
  /\ datPos' = 0
  /\ UNCHANGED <<cached, files, ret>>

\* destroy closes and deletes the files; the context is left as it is.
Destroy ==
  /\ "destroy" \in Calls
  /\ opened
  /\ opened' = FALSE
  /\ datFile' = <<>> /\ idxFile' = <<>> /\ freeFile' = <<>>
  /\ torn' = FALSE
  /\ datPos' = 0
  /\ UNCHANGED <<memory, ret>>

SetTaken(k) ==
  /\ k \in DOMAIN index
  /\ ret' = Reply("KeyNotInserted", <<>>)
  /\ UNCHANGED <<opened, memory, files, datPos>>

\* RW::write fills the cache before it knows where .dat ends: with no free
\* extent the cache appends at its own end, write_dat at the file's.
SetNew(k, v) ==
  /\ k \notin DOMAIN index
  /\ \E a \in Allocations(Len(v)) :
       /\ freeList' = a.list /\ freeFile' = a.file
       /\ cache' = IF cached THEN CacheWrite(cache, v, a.at) ELSE cache
       /\ WriteDat(v, a.at)
       /\ index' = [x \in DOMAIN index \cup {k} |->
                      IF x = k THEN Entry(Place(a.at), Len(v), Len(idxFile) + 1)
                               ELSE index[x]]
       /\ idxFile' = Append(idxFile, Record(k, Place(a.at), Len(v)))
  /\ ret' = Reply("Ok", <<>>)
  /\ Room
  /\ UNCHANGED <<opened, cached, torn>>

Set(k, v) == opened /\ (SetTaken(k) \/ SetNew(k, v))

NotFound(k) ==
  /\ k \notin DOMAIN index
  /\ ret' = Reply("KeyNotFound", <<>>)
  /\ UNCHANGED <<opened, memory, files, datPos>>

\* RW::update: a value longer than the old one is written over the old
\* extent; any other one goes to a free extent or to the end of .dat, and
\* the old extent is given back to nobody.
NewPlaces(e, n) ==
  IF e.len < n THEN {[at |-> e.off, list |-> freeList, file |-> freeFile]}
               ELSE Allocations(n)

KindOfUpdate(k, v) ==
  IF index[k].len < Len(v) THEN "grow"
  ELSE IF cached THEN "shrink_cached" ELSE "shrink"

UpdateFound(k, v) ==
  /\ k \in DOMAIN index
  /\ KindOfUpdate(k, v) \in Calls
  /\ \E a \in NewPlaces(index[k], Len(v)) :
       /\ freeList' = a.list /\ freeFile' = a.file
       /\ WriteDat(v, a.at)
       /\ cache' = IF cached THEN WriteAt(cache, Place(a.at), v) ELSE cache
       /\ index' = [index EXCEPT ![k] = Entry(Place(a.at), Len(v), @.rec)]
       /\ idxFile' = MoveRecord(idxFile, index[k].rec, Place(a.at), Len(v))
  /\ torn' = (torn \/ ~OwnRecord(idxFile, k, index[k].rec))
  /\ ret' = Reply("Ok", <<>>)
  /\ Room
  /\ UNCHANGED <<opened, cached>>

Update(k, v) ==
  /\ opened
  /\ Calls \cap {"grow", "shrink", "shrink_cached"} # {}
  /\ NotFound(k) \/ UpdateFound(k, v)

\* erase reads the record's position from the index node after it freed that
\* node: with an allocator that leaves freed memory as it is, this is the
\* key's own record; otherwise it is any record, or none (number 0).
FreedRecord(r) == IF FreedIntact THEN {r} ELSE 0..Len(idxFile)

\* A mutant: the record is not marked.
InvalidateForgotten(f, r) == f

Invalidate(f, r) ==
  [i \in 1..Len(f) |-> [f[i] EXCEPT !.valid = @ /\ i # r]]

EraseFound(k) ==
  /\ k \in DOMAIN index
  /\ index' = [x \in DOMAIN index \ {k} |-> index[x]]
  /\ freeFile' = AppendSlot(freeFile, index[k].off, index[k].len)
  /\ freeList' = freeList \cup {[off |-> index[k].off, len |-> index[k].len,
                                 slot |-> Len(freeFile) + 1]}
  /\ \E r \in FreedRecord(index[k].rec) :
       /\ idxFile' = Invalidate(idxFile, r)
       /\ torn' = (torn \/ ~OwnRecord(idxFile, k, r))
  /\ ret' = Reply("Ok", <<>>)
  /\ UNCHANGED <<opened, cached, cache, datFile, datPos>>
  /\ Room

Erase(k) == opened /\ (NotFound(k) \/ EraseFound(k))

Get(k) ==
  /\ opened
  /\ \/ NotFound(k)
     \/ /\ k \in DOMAIN index
        /\ ret' = Reply("Ok", ReadDat(datFile, index[k].off, index[k].len))
        /\ UNCHANGED <<opened, memory, files, datPos>>

\* get_cached is for a cached database only: the code asserts it.
GetCached(k) ==
  /\ "get_cached" \in Calls
  /\ opened /\ cached
  /\ \/ NotFound(k)
     \/ /\ k \in DOMAIN index
        /\ \E s \in CacheSlices(index[k].off, index[k].len) :
             ret' = Reply("Ok", s)
        /\ UNCHANGED <<opened, memory, files, datPos>>

\* switch_cache: off empties the vector and leaves enable_cache as it is.
SwitchCache(on) ==
  /\ "switch_cache" \in Calls
  /\ opened
  /\ IF on THEN /\ cached' = TRUE
                /\ cache' = LoadDat(datFile, datPos, cache)
                /\ datPos' = Len(datFile)
           ELSE /\ cache' = <<>>
                /\ UNCHANGED <<cached, datPos>>
  /\ UNCHANGED <<opened, index, freeList, files, ret>>

KeyCall(k) ==
  \/ \E v \in Values : Set(k, v) \/ Update(k, v)
  \/ Erase(k)
  \/ Get(k)
  \/ GetCached(k)

Next ==
  \/ \E mode \in CacheModes : Construct(mode)
  \/ Open
  \/ Close
  \/ Destroy
  \/ \E on \in BOOLEAN : SwitchCache(on)
  \/ \E k \in Keys : KeyCall(k)

Spec == Init /\ [][Next]_vars

-----------------------------------------------------------------------------
(* Properties.                                                             *)

Entries  == [off : Nat, len : Nat, rec : Nat \ {0}]
Free     == [off : Nat, len : Nat, slot : Nat \ {0}]
Records  == [key : Keys, valid : BOOLEAN, off : Nat, len : Nat]
Slots    == [off : Nat, len : Nat]
Statuses == {"Ok", "KeyNotInserted", "KeyNotFound"}

\* The values each variable ranges over.
TypeOK ==
  /\ opened \in BOOLEAN /\ cached \in BOOLEAN
  /\ DOMAIN index \subseteq Keys
  /\ index \in [DOMAIN index -> Entries]
  /\ freeList \in SUBSET Free
  /\ cache \in Seq(Byte) /\ datFile \in Seq(Byte)
  /\ datPos \in Nat
  /\ idxFile \in Seq(Records) /\ freeFile \in Seq(Slots)
  /\ torn \in BOOLEAN
  /\ ret \in [status : Statuses, value : Seq(Byte)]

\* Two extents have no byte in common.
Apart(a, b) ==
  a.len = 0 \/ b.len = 0 \/ a.off + a.len <= b.off \/ b.off + b.len <= a.off

Within(a) == a.len = 0 \/ a.off + a.len <= Len(datFile)

RecordsApart ==
  \A i, j \in ValidRecs(idxFile) : i # j => Apart(idxFile[i], idxFile[j])

SlotsApart ==
  \A s, t \in 1..Len(freeFile) : s # t => Apart(freeFile[s], freeFile[t])

RecordsNotFree ==
  \A i \in ValidRecs(idxFile), s \in 1..Len(freeFile) :
    Apart(idxFile[i], freeFile[s])

AllWithin ==
  /\ \A i \in ValidRecs(idxFile) : Within(idxFile[i])
  /\ \A s \in 1..Len(freeFile) : Within(freeFile[s])

\* No byte of .dat belongs to two keys, to a key and the free list, or to two
\* free extents, and none of them reaches past the end of the file: what
\* RW::manage_free splits and RW::free gives back is never somebody else's.
NoSharedSpace == RecordsApart /\ SlotsApart /\ RecordsNotFree /\ AllWithin

\* No key has two valid records in .idx: which one load_index keeps does not
\* matter, and an erase leaves no older record to come back.
OneRecordPerKey ==
  \A i, j \in ValidRecs(idxFile) : idxFile[i].key = idxFile[j].key => i = j

\* What breaks that is only an object that was destroyed, opened again, and has
\* written to where its records are no more: growing updates, which let the values
\* of two keys run into each other, and an empty cache leave the records alone.
OneRecordUntilTorn == ~torn => OneRecordPerKey

\* While a database is open, the index in memory is the one a process that
\* opened the files now would load, so that closing loses and revives no key;
\* and every extent the free list in memory offers is one .free has as well.
\* (An extent of no bytes is offered to nobody, and load_free skips it when it
\* starts at 0.)
Offered(list) == {e \in list : e.len # 0}

ReloadAgrees ==
  opened => /\ IndexesRead = {index}
            /\ Offered(freeList) \subseteq LoadFree(freeFile)

\* The inductive invariant: space can only be shared out safely while the
\* free list in memory describes .free and the index in memory .idx, whose
\* records stand one behind the other.
IInv ==
  TypeOK /\ ~torn /\ OneRecordPerKey /\ NoSharedSpace /\ ReloadAgrees

\* The cache of an open cached database is the .dat file, byte for byte.
CacheMirrorsFile == opened /\ cached => cache = datFile

\* The content of the database as the files have it.
Stored ==
  [k \in DOMAIN LoadIndex(idxFile) |->
     LET e == LoadIndex(idxFile)[k] IN ReadDat(datFile, e.off, e.len)]

\* The files implement the map of module KVStore: set, update and erase change
\* the key they name and no other, a read (from the file or the cache) answers
\* what was last set, opening and closing change nothing, and destroy, and no
\* other call, empties the map.  (An answer does not carry the key asked for: a
\* read that answered the value of another key would pass here.)
KV == INSTANCE KVStore WITH store <- Stored

ImplementsKV == KV!Init /\ [][KV!Next \/ (Destroy /\ KV!Destroy)]_(KV!vars)

\* A call changes the stored value of one key at most: an update is an update
\* of its own key (aci/aci.cpp:776).
OneKeyChanges ==
  [][\A k, x \in DOMAIN Stored \cap DOMAIN Stored' :
       Stored[k] # Stored[k]' /\ Stored[x] # Stored[x]' => k = x]_vars
==============================================================================
