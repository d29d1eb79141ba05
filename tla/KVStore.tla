------------------------------- MODULE KVStore -------------------------------
(***************************************************************************)
(* What the ambry library promises to its caller: a map from keys to       *)
(* values.  `store' is the content of the database, `ret' the answer of    *)
(* the last call.  A key is set once, updated or erased while it is        *)
(* present, and a read answers what was last set or updated.               *)
(*                                                                         *)
(* The module says nothing of files, free space, caches, closing or        *)
(* opening: the detailed modules map those steps to stuttering steps.      *)
(***************************************************************************)
CONSTANTS Keys,    \* the keys a caller may use
          Values   \* the values, each a sequence of bytes

VARIABLES store,   \* the keys that are present, each with its value
          ret      \* the answer of the last call

vars == <<store, ret>>

Reply(status, value) == [status |-> status, value |-> value]

Put(k, v) == [x \in DOMAIN store \cup {k} |-> IF x = k THEN v ELSE store[x]]

Init ==
  /\ store = [k \in {} |-> <<>>]
  /\ ret = Reply("Ok", <<>>)

Set(k, v) ==
  \/ /\ k \in DOMAIN store
     /\ ret' = Reply("KeyNotInserted", <<>>)
     /\ UNCHANGED store
  \/ /\ k \notin DOMAIN store
     /\ store' = Put(k, v)
     /\ ret' = Reply("Ok", <<>>)

Update(k, v) ==
  \/ /\ k \notin DOMAIN store
     /\ ret' = Reply("KeyNotFound", <<>>)
     /\ UNCHANGED store
  \/ /\ k \in DOMAIN store
     /\ store' = Put(k, v)
     /\ ret' = Reply("Ok", <<>>)

Erase(k) ==
  \/ /\ k \notin DOMAIN store
     /\ ret' = Reply("KeyNotFound", <<>>)
     /\ UNCHANGED store
  \/ /\ k \in DOMAIN store
     /\ store' = [x \in DOMAIN store \ {k} |-> store[x]]
     /\ ret' = Reply("Ok", <<>>)

Get(k) ==
  /\ UNCHANGED store
  /\ \/ k \notin DOMAIN store /\ ret' = Reply("KeyNotFound", <<>>)
     \/ k \in DOMAIN store /\ ret' = Reply("Ok", store[k])

\* The database is deleted.  (Not a step of Next: a specification that implements
\* the map says at which of its steps this may happen.)
Destroy ==
  /\ store' = [k \in {} |-> <<>>]
  /\ UNCHANGED ret

Next ==
  \E k \in Keys :
     \/ \E v \in Values : Set(k, v) \/ Update(k, v)
     \/ Erase(k)
     \/ Get(k)

Spec == Init /\ [][Next]_vars
==============================================================================
