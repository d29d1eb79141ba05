----------------------------- MODULE Transaction -----------------------------
(***************************************************************************)
(* Transactions on a database.  The database is the map of KVStore, which  *)
(* Storage implements.  A transaction is a list of commands; a command     *)
(* keeps views (std::string_view) of the key and the value it was given,   *)
(* so what it will do is decided by what the caller's buffers hold when    *)
(* commit runs, not when the command was queued.                           *)
(*                                                                         *)
(* commit runs the commands in their order until one of them fails.  Every *)
(* command is a step here, to relate the steps to those of KVStore; no     *)
(* other call comes between them, since commit runs on the thread of the   *)
(* caller.                                                                 *)
(***************************************************************************)
EXTENDS KVStore, Integers, Sequences

CONSTANTS
  Buffers,      \* the caller's buffers
  BuffersReused, \* does a caller write to a buffer that a command views?
  MaxCmds       \* bound: the number of commands in a transaction

ASSUME ReuseAssumption == BuffersReused \in BOOLEAN
ASSUME MaxCmdsAssumption == MaxCmds \in Nat

VARIABLES
  buffer,   \* the key and the value each buffer holds
  cmds,     \* the commands; `queued' is what the buffer held at the time
  pos,      \* the number of the command commit runs next; 0: no commit runs
  result,   \* what the last commit returned
  before    \* the content of the database when that commit began

tvars == <<store, ret, buffer, cmds, pos, result, before>>

Pairs == [key : Keys, value : Values]

Ok == Reply("Ok", <<>>)

TInit ==
  /\ Init
  /\ buffer \in [Buffers -> Pairs]
  /\ cmds = <<>> /\ pos = 0
  /\ result = "none" /\ before = store

Viewed(b) == \E i \in 1..Len(cmds) : cmds[i].view = b

\* The caller fills a buffer.
Fill(b, p) ==
  /\ pos = 0
  /\ BuffersReused \/ ~Viewed(b)
  /\ buffer' = [buffer EXCEPT ![b] = p]
  /\ UNCHANGED <<store, ret, cmds, pos, result, before>>

\* Transaction::set, update, erase.
Queue(op, b) ==
  /\ pos = 0
  /\ Len(cmds) < MaxCmds
  /\ cmds' = Append(cmds, [op |-> op, view |-> b, queued |-> buffer[b]])
  /\ UNCHANGED <<store, ret, buffer, pos, result, before>>

\* The caller uses the database between two calls of the transaction.
Direct ==
  /\ pos = 0
  /\ Next
  /\ UNCHANGED <<buffer, cmds, pos, result, before>>

Commit ==
  /\ pos = 0
  /\ pos' = 1
  /\ before' = store
  /\ result' = "none"
  /\ UNCHANGED <<store, ret, buffer, cmds>>

Command(op, p) ==
  CASE op = "set"    -> Set(p.key, p.value)
    [] op = "update" -> Update(p.key, p.value)
    [] op = "erase"  -> Erase(p.key)

\* A command that fails ends the commit, with the commands before it done and
\* every command still in the list.  A mutant: the loop goes on.
RunGoesOn ==
  /\ pos \in 1..Len(cmds)
  /\ Command(cmds[pos].op, buffer[cmds[pos].view])
  /\ pos' = pos + 1
  /\ UNCHANGED result
  /\ UNCHANGED <<buffer, cmds, before>>

Run ==
  /\ pos \in 1..Len(cmds)
  /\ Command(cmds[pos].op, buffer[cmds[pos].view])
  /\ IF ret'.status = "Ok" THEN pos' = pos + 1 /\ UNCHANGED result
                           ELSE pos' = 0 /\ result' = ret'.status
  /\ UNCHANGED <<buffer, cmds, before>>

\* A mutant: the loop does not see its end.
DoneMissed ==
  /\ pos > Len(cmds)
  /\ pos' = pos + 1
  /\ UNCHANGED <<store, ret, buffer, cmds, result, before>>

Done ==
  /\ pos > Len(cmds)
  /\ pos' = 0
  /\ result' = "Ok"
  /\ UNCHANGED <<store, ret, buffer, cmds, before>>

TNext ==
  \/ \E b \in Buffers :
       \/ \E p \in Pairs : Fill(b, p)
       \/ \E op \in {"set", "update", "erase"} : Queue(op, b)
  \/ Direct
  \/ Commit
  \/ Run
  \/ Done

TSpec == TInit /\ [][TNext]_tvars

-----------------------------------------------------------------------------
(* Properties.                                                             *)

\* Would the command succeed on content s, and what content does it leave?
Succeeds(s, c) ==
  IF c.op = "set" THEN c.queued.key \notin DOMAIN s ELSE c.queued.key \in DOMAIN s

After(s, c) ==
  LET k == c.queued.key
  IN  IF c.op = "erase" THEN [x \in DOMAIN s \ {k} |-> s[x]]
      ELSE [x \in DOMAIN s \cup {k} |-> IF x = k THEN c.queued.value ELSE s[x]]

\* The contents the first n commands, run one after the other on s, lead
\* through; a command that fails leaves things as they are.
Contents(s) ==
  LET f[n \in 0..Len(cmds)] ==
        IF n = 0 THEN s
        ELSE IF Succeeds(f[n - 1], cmds[n]) THEN After(f[n - 1], cmds[n])
        ELSE f[n - 1]
  IN  f

\* The commands that succeed when they are run on s up to the first failure.
Prefix(s) ==
  CHOOSE n \in 0..Len(cmds) :
    /\ \A i \in 1..n : Succeeds(Contents(s)[i - 1], cmds[i])
    /\ n = Len(cmds) \/ ~Succeeds(Contents(s)[n], cmds[n + 1])

\* The type invariant.
TTypeOK ==
  /\ buffer \in [Buffers -> Pairs]
  /\ cmds \in Seq([op : {"set", "update", "erase"}, view : Buffers, queued : Pairs])
  /\ pos \in 0..MaxCmds + 1
  /\ DOMAIN store \subseteq Keys /\ DOMAIN before \subseteq Keys

\* A commit executes the sequence of commands that was buffered
\* (lib/readme.md:56): when it returns, the database holds what the commands
\* queued, run in their order up to the first that fails, make of the content
\* the commit began with, and it returned the error of that first failure
\* (lib/readme.md:61).
CommitRunsQueued ==
  [][(pos # 0 /\ pos' = 0) =>
       LET n == Prefix(before)
       IN  /\ store' = Contents(before)[n]
           /\ result' = IF n = Len(cmds) THEN "Ok"
                        ELSE IF cmds[n + 1].op = "set" THEN "KeyNotInserted"
                        ELSE "KeyNotFound"]_tvars
==============================================================================
