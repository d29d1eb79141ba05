----------------------------- MODULE Workspaces -----------------------------
(***************************************************************************)
(* What the command interpreter promises to its clients: databases that    *)
(* have names, and for every client the one it works on.  A client reads   *)
(* and writes the database it chose and no other, whatever the other       *)
(* clients do; a database keeps its content when it is closed and loses it *)
(* when it is destroyed.                                                   *)
(*                                                                         *)
(* It leaves open which databases a destroy empties, because destroy_all   *)
(* may stop half way, and when a client may be left without a database to  *)
(* work on: by its own close, logout or destroy, or because it hung up.    *)
(*                                                                         *)
(* What one database is to its caller is the subject of KVStore: here its  *)
(* content is a single value, Empty before anything is written.            *)
(***************************************************************************)
CONSTANTS Clients,   \* the clients
          Names,     \* the names of databases
          Contents,  \* what a database may hold
          Empty,     \* what a new database holds
          None       \* no database

VARIABLES content,   \* of every name, what the database holds
          working,   \* of every client, the name of the database it works on
          answer     \* the last answer: to whom, to which command, and what

vars == <<content, working, answer>>

Answer(c, cmd, status, value) ==
  [to |-> c, cmd |-> cmd, status |-> status, value |-> value]

Init ==
  /\ content \in [Names -> Contents]
  /\ working = [c \in Clients |-> None]
  /\ answer = Answer(None, "none", "Ok", Empty)

Choose(c, n) ==
  /\ working' = [working EXCEPT ![c] = n]
  /\ answer'.to = c /\ answer'.cmd \in {"open", "switch"} /\ answer'.status = "Ok"
  /\ UNCHANGED content

\* A client works on no database any more: it closed it, or left.
Leave(c) ==
  /\ working' = [working EXCEPT ![c] = None]
  /\ \/ answer' = answer
     \/ answer'.to = c /\ answer'.cmd \notin {"write", "read"}
  /\ UNCHANGED content

Write(c, v) ==
  /\ working[c] # None
  /\ content' = [content EXCEPT ![working[c]] = v]
  /\ answer' = Answer(c, "write", "Ok", Empty)
  /\ UNCHANGED working

Read(c) ==
  /\ working[c] # None
  /\ answer' = Answer(c, "read", "Ok", content[working[c]])
  /\ UNCHANGED <<content, working>>

\* Databases are destroyed; the client that asks may have worked on one.
Destroy(c) ==
  /\ \E N \in SUBSET Names :
       content' = [n \in Names |-> IF n \in N THEN Empty ELSE content[n]]
  /\ working' \in {working, [working EXCEPT ![c] = None]}
  /\ \/ answer' = answer
     \/ answer'.to = c /\ answer'.cmd \in {"destroy", "destroy_all"}

\* A command that is answered and changes nothing a client can see.
Acknowledge(c) ==
  /\ answer'.to = c
  /\ answer'.status = "Ok" => answer'.cmd \notin {"write", "read"}
  /\ UNCHANGED <<content, working>>

Next ==
  \/ \E c \in Clients :
       \/ \E n \in Names : Choose(c, n)
       \/ \E v \in Contents : Write(c, v)
       \/ Read(c)
       \/ Acknowledge(c)
       \/ Leave(c)
       \/ Destroy(c)

Spec == Init /\ [][Next]_vars
==============================================================================
