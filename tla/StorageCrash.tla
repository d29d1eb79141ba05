----------------------------- MODULE StorageCrash -----------------------------
(***************************************************************************)
(* The calls of Storage that write, taken apart into the system calls they *)
(* make, and a process that can die between any two of them.  What the     *)
(* system calls wrote stays; what the process had in memory is gone.  (A   *)
(* machine that dies, and may lose or reorder what was written, is not     *)
(* modelled: the code never asks for anything to be flushed.)              *)
(*                                                                         *)
(*   set      [clear the slot] [append the rest] write .dat, append to .idx *)
(*   update   [clear the slot] [append the rest] write .dat, rewrite .idx  *)
(*   erase    append a slot to .free, mark the record in .idx              *)
(*                                                                         *)
(* The first two steps of set and update are made when a free extent is    *)
(* used, the second one when some of it is left over.  An update with a    *)
(* value longer than the old one makes neither: it is written over the old *)
(* extent, which is the only copy of the old value until the record has    *)
(* the new length.  (Callers make such updates if "grow" is one of Calls.)  *)
(* The cache, which a crash empties like the rest of the memory, is the    *)
(* subject of Storage: the databases of this module have none.             *)
(***************************************************************************)
EXTENDS Storage

CONSTANT CrashIn   \* the calls in which the process may die

ASSUME CrashAssumption == CrashIn \subseteq {"set", "update", "erase"}

VARIABLES
  pc,     \* the system call that comes next; "idle" between two calls
  job     \* the call that is running

cvars == <<vars, pc, job>>

NoJob == [op |-> "none"]

Job(op, k, v, from) == [op |-> op, key |-> k, value |-> v, from |-> from, at |-> NPos]

NoExtent == [off |-> 0, len |-> 0, slot |-> 0]

\* find_free and the removal from the free list in memory.
Start(op, k, v) ==
  \/ /\ Fits(Len(v)) = {}
     /\ job' = Job(op, k, v, NoExtent)
     /\ pc' = "dat"
     /\ UNCHANGED freeList
  \/ \E e \in BestFits(Len(v)) :
       /\ job' = [Job(op, k, v, e) EXCEPT !.at = e.off]
       /\ pc' = "clear"
       /\ freeList' = Keep(e)

\* set enters the key into the index before anything is written.
BeginSet(k, v) ==
  /\ pc = "idle" /\ opened
  /\ k \notin DOMAIN index
  /\ Start("set", k, v)
  /\ index' = [x \in DOMAIN index \cup {k} |->
                 IF x = k THEN Entry(0, 0, 0) ELSE index[x]]
  /\ UNCHANGED <<opened, cached, cache, datPos, files, ret>>

\* RW::update looks for a free extent unless the value has grown.
BeginUpdate(k, v) ==
  /\ pc = "idle" /\ opened
  /\ k \in DOMAIN index
  /\ KindOfUpdate(k, v) \in Calls
  /\ \/ index[k].len >= Len(v) /\ Start("update", k, v)
     \/ /\ index[k].len < Len(v)
        /\ job' = [Job("update", k, v, NoExtent) EXCEPT !.at = index[k].off]
        /\ pc' = "dat"
        /\ UNCHANGED freeList
  /\ UNCHANGED <<opened, cached, index, cache, datPos, files, ret>>

\* erase_freelist
ClearSlot ==
  /\ pc = "clear"
  /\ freeFile' = ZeroSlot(freeFile, job.from.slot)
  /\ pc' = IF Rest(job.from, Len(job.value)).len = 0 THEN "dat" ELSE "rest"
  /\ UNCHANGED <<opened, memory, datFile, datPos, idxFile, torn, ret, job>>

\* update_freelist
AppendRest ==
  /\ pc = "rest"
  /\ LET rest == Rest(job.from, Len(job.value))
     IN  /\ freeFile' = AppendSlot(freeFile, rest.off, rest.len)
         /\ freeList' = freeList \cup {rest}
  /\ pc' = "dat"
  /\ UNCHANGED <<opened, cached, index, cache, datFile, datPos, idxFile, torn, ret,
                 job>>
  /\ Room

\* write_dat
WriteValue ==
  /\ pc = "dat"
  /\ WriteDat(job.value, job.at)
  /\ job' = [job EXCEPT !.at = Place(job.at)]
  /\ pc' = "idx"
  /\ UNCHANGED <<opened, memory, idxFile, freeFile, torn, ret>>
  /\ Room

\* IoManager::insert or update: the call is over.
\* A mutant of the step: update forgets to write the offset.
WriteRecordKeepOffset(f) ==
  IF job.op = "set" THEN Append(f, Record(job.key, job.at, Len(job.value)))
  ELSE MoveRecord(f, index[job.key].rec, index[job.key].off, Len(job.value))

WriteRecord(f) ==
  IF job.op = "set" THEN Append(f, Record(job.key, job.at, Len(job.value)))
  ELSE MoveRecord(f, index[job.key].rec, job.at, Len(job.value))

Finish ==
  /\ pc = "idx"
  /\ idxFile' = WriteRecord(idxFile)
  /\ torn' = (torn \/ (job.op = "update"
                       /\ ~OwnRecord(idxFile, job.key, index[job.key].rec)))
  /\ index' = [index EXCEPT ![job.key] =
                 Entry(job.at, Len(job.value),
                       IF job.op = "set" THEN Len(idxFile) + 1 ELSE @.rec)]
  /\ ret' = Reply("Ok", <<>>)
  /\ pc' = "idle" /\ job' = NoJob
  /\ UNCHANGED <<opened, cached, freeList, cache, datFile, datPos, freeFile>>
  /\ Room

\* erase: the extent is listed as free first.
BeginErase(k) ==
  /\ pc = "idle" /\ opened
  /\ k \in DOMAIN index
  /\ index' = [x \in DOMAIN index \ {k} |-> index[x]]
  /\ freeFile' = AppendSlot(freeFile, index[k].off, index[k].len)
  /\ freeList' = freeList \cup {[off |-> index[k].off, len |-> index[k].len,
                                 slot |-> Len(freeFile) + 1]}
  /\ job' = [op |-> "erase", key |-> k, rec |-> index[k].rec]
  /\ pc' = "mark"
  /\ UNCHANGED <<opened, cached, cache, datFile, datPos, idxFile, torn, ret>>
  /\ Room

FinishErase ==
  /\ pc = "mark"
  /\ \E r \in FreedRecord(job.rec) :
       /\ idxFile' = Invalidate(idxFile, r)
       /\ torn' = (torn \/ ~OwnRecord(idxFile, job.key, r))
  /\ ret' = Reply("Ok", <<>>)
  /\ pc' = "idle" /\ job' = NoJob
  /\ UNCHANGED <<opened, memory, datFile, datPos, freeFile>>

\* The calls that write nothing, and opening and closing, are single steps.
Quick ==
  /\ pc = "idle"
  /\ \/ Open
     \/ Close
     \/ \E mode \in CacheModes : ~mode /\ Construct(mode)
     \/ \E k \in Keys : Get(k) \/ (opened /\ (SetTaken(k) \/ NotFound(k)))
  /\ UNCHANGED <<pc, job>>

\* The process dies in a call and is started again: a new DB object.
Crash ==
  /\ job.op \in CrashIn
  /\ opened' = FALSE
  /\ index' = NoKeys /\ freeList' = {} /\ cache' = <<>>
  /\ datPos' = 0
  /\ pc' = "idle" /\ job' = NoJob
  /\ UNCHANGED <<cached, files, ret>>

CInit == Init /\ ~cached /\ pc = "idle" /\ job = NoJob

CNext ==
  \/ \E k \in Keys :
       \/ \E v \in Values : BeginSet(k, v) \/ BeginUpdate(k, v)
       \/ BeginErase(k)
  \/ ClearSlot
  \/ AppendRest
  \/ WriteValue
  \/ Finish
  \/ FinishErase
  \/ Quick
  \/ Crash

CSpec == CInit /\ [][CNext]_cvars

-----------------------------------------------------------------------------
(* Properties.                                                             *)

\* What is loaded from the files after a crash is sound at every moment: the
\* records and slots of the files share no byte, even in the middle of a set
\* or an update with a value that is not longer than the old one.
CrashNoSharedSpace == pc # "mark" => NoSharedSpace

\* The files implement the map of KVStore under crashes: a set, or an update
\* with a value that is not longer than the old one, that is cut short has
\* happened or has not, and no other key notices.
\* (ImplementsKV of Storage, of this module's steps.)
CrashImplementsKV == KV!Spec
==============================================================================
