------------------------------ MODULE Sessions ------------------------------
(***************************************************************************)
(* The command interpreter of the server and the clients that are logged   *)
(* in to it: the table of open databases (aci::DBTable), the login of each *)
(* connection with its working database, and the descriptors both live on. *)
(*                                                                         *)
(* The interpreter runs on one thread, a command at a time.  The listener  *)
(* thread accepts connections meanwhile and takes descriptors from the     *)
(* same table of the process: a command that gives a descriptor back more  *)
(* than once is therefore taken apart where the listener can come between. *)
(*                                                                         *)
(* A database has three files, which are opened, locked, closed and        *)
(* unlinked together: they are one file, and one descriptor, here.  What   *)
(* set, update, erase and get do inside a database is in Storage: here a   *)
(* database holds one value, and "write" stands for the commands that      *)
(* change it.  Databases have the default options: reads are cached ones.  *)
(***************************************************************************)
EXTENDS Integers, FiniteSetsExt

CONSTANTS
  Clients,        \* the clients; each connects once
  Names,          \* the names clients give to databases
  FileOf,         \* the file a name leads to: "a" and "./a" lead to one file
  Addrs,          \* where a DB object may live
  MaxFd,          \* the highest descriptor the process may have
  Contents,       \* what a database may hold
  Empty,          \* what a new database holds
  Null,           \* the null pointer, and nothing of other kinds
  Commands,       \* the commands the clients send
  Courteous,      \* do clients close only what nobody else works on?
  Garbage         \* what an array of descriptors holds before it is written

AllCommands ==
  {"open", "switch", "switch_logged_out", "close", "close_all", "destroy_open",
   "destroy_closed", "destroy_all", "write", "read", "logout", "disconnect"}

ASSUME FileOfAssumption == FileOf \in [Names -> Names]
ASSUME CommandsAssumption == Commands \subseteq AllCommands
ASSUME SwitchesAssumption == Courteous \in BOOLEAN
ASSUME ContentsAssumption == Empty \in Contents
ASSUME NullAssumption ==
  Null \notin Names /\ Null \notin Addrs /\ Null \notin Clients /\ Null \notin 0..MaxFd
ASSUME GarbageAssumption == MaxFd \in Nat /\ Garbage \subseteq Int /\ Garbage # {}

VARIABLES
  dbt,      \* the open databases: name |-> where the DB object lives
  obj,      \* the DB objects: address |-> name, descriptor, cached content
  logins,   \* the logins: descriptor of the connection |-> working database
  cons,     \* the descriptor each client's connection was accepted on
  fdt,      \* the process's descriptors: what each one refers to
  files,    \* the files in the directory: name |-> content
  rest,     \* what remains to be done of the command that is running
  state,    \* "up", "waiting" (for a lock) or "dead"
  answer    \* the last answer sent

vars == <<dbt, obj, logins, cons, fdt, files, rest, state, answer>>

Fds == 0..MaxFd

\* What a descriptor refers to: a file, one that was unlinked, a connection,
\* one whose client has hung up.
File(f) == [kind |-> "file", of |-> f]
Unlinked == [kind |-> "unlinked", of |-> Null]
Con(c)  == [kind |-> "con", of |-> c]
HungUp  == [kind |-> "hungup", of |-> Null]

Answer(c, cmd, status, value) ==
  [to |-> c, cmd |-> cmd, status |-> status, value |-> value]

Idle == [cmd |-> "none", names |-> {}, by |-> Null]

Put(f, x, y) == [z \in DOMAIN f \cup {x} |-> IF z = x THEN y ELSE f[z]]
Without(f, S) == [z \in DOMAIN f \ S |-> f[z]]

-----------------------------------------------------------------------------
(* Descriptors.                                                            *)

FreeFds(table) == Fds \ DOMAIN table

\* open and accept take the lowest number.
Lowest(table) == Min(FreeFds(table))

\* IoManager::cleanup closes the numbers it holds, whatever they refer to.
Cleanup(table, numbers) == Without(table, numbers)

\* flock: another descriptor of the file, of this process too, has the lock.
\* A mutant: files are not locked.
LockedNever(table, f) == FALSE

Locked(table, f) == \E d \in DOMAIN table : table[d] = File(f)

\* unlink: descriptors go on referring to the file, which has no name now.
Unlink(table, S) ==
  [d \in DOMAIN table |-> IF \E f \in S : table[d] = File(f) THEN Unlinked
                          ELSE table[d]]

Connected(c) ==
  cons[c] # Null /\ cons[c] \in DOMAIN fdt /\ fdt[cons[c]] = Con(c)

\* The listener thread, at any time.
Accept(c) ==
  /\ cons[c] = Null
  /\ state # "dead"
  /\ FreeFds(fdt) # {}
  /\ cons' = [cons EXCEPT ![c] = Lowest(fdt)]
  /\ fdt' = Put(fdt, Lowest(fdt), Con(c))
  /\ UNCHANGED <<dbt, obj, logins, files, rest, state, answer>>

-----------------------------------------------------------------------------
(* Commands: what interpret checks, and the callbacks.                     *)

Serving(c, cmd) ==
  cmd \in Commands /\ state = "up" /\ rest = Idle /\ Connected(c)

LoggedIn(c) == cons[c] \in DOMAIN logins

\* get_wdb
Wdb(c) == logins[cons[c]]

HasWdb(c) == LoggedIn(c) /\ Wdb(c) # Null

SetWdb(c, a) == [logins EXCEPT ![cons[c]] = a]

\* close, destroy: a client's own working database is forgotten.
\* A mutant: it is not.
ForgetNothing(c, a) == logins

Forget(c, a) == IF Wdb(c) = a THEN SetWdb(c, Null) ELSE logins

\* Nobody but c works on a database of N.
NobodyElse(c, N) ==
  \A d \in Clients \ {c} :
    Connected(d) /\ HasWdb(d) => \A n \in N : dbt[n] # Wdb(d)

Login(c) ==
  /\ state = "up" /\ rest = Idle /\ Connected(c)
  /\ ~LoggedIn(c)
  /\ logins' = Put(logins, cons[c], Null)
  /\ answer' = Answer(c, "login", "Ok", Empty)
  /\ UNCHANGED <<dbt, obj, cons, fdt, files, rest, state>>

Logout(c) ==
  /\ Serving(c, "logout")
  /\ logins' = Without(logins, {cons[c]})
  /\ answer' = Answer(c, "logout", "Ok", Empty)
  /\ UNCHANGED <<dbt, obj, cons, fdt, files, rest, state>>

\* The server hears that the client hung up.  The descriptor stays open.
Disconnect(c) ==
  /\ Serving(c, "disconnect")
  /\ logins' = Without(logins, {cons[c]})
  /\ fdt' = [fdt EXCEPT ![cons[c]] = HungUp]
  /\ UNCHANGED <<dbt, obj, cons, files, rest, state, answer>>

\* The commands that are refused: no login, no working database where one is
\* expected, no database of that name.
Refuse(c) ==
  \E cmd \in Commands \ {"logout", "disconnect", "switch_logged_out"} :
    /\ Serving(c, cmd)
    /\ \/ ~LoggedIn(c) /\ cmd # "switch"
       \/ ~HasWdb(c) /\ cmd \in {"write", "read", "close_all", "destroy_all"}
       \/ cmd \in {"switch", "close"} /\ DOMAIN dbt # Names
    /\ answer' = Answer(c, cmd, "InterpretError", Empty)
    /\ UNCHANGED <<dbt, obj, logins, cons, fdt, files, rest, state>>

\* dbt.emplace(name, DB(name)): the temporary object is destroyed, and its
\* destructor closes the descriptors nobody has ever written into it.
OpenListed(c, n) ==
  /\ n \in DOMAIN dbt
  /\ \E g \in Garbage : fdt' = Cleanup(fdt, {g})
  /\ logins' = SetWdb(c, dbt[n])
  /\ answer' = Answer(c, "open", "Ok", Empty)
  /\ UNCHANGED <<dbt, obj, cons, files, rest, state>>

\* open_files: no descriptor is left; the lock is taken and never comes; or
\* the file is opened, created if need be, and loaded.  The entry is in the
\* table already and stays there.
OpenNew(c, n) ==
  /\ n \notin DOMAIN dbt
  /\ \E a \in Addrs \ DOMAIN obj, g \in Garbage :
       LET table == Cleanup(fdt, {g})
           f     == FileOf[n]
           held  == IF f \in DOMAIN files THEN files[f] ELSE Empty
           Object(d, v) == Put(obj, a, [name |-> n, fd |-> d, held |-> v])
       IN  /\ dbt' = Put(dbt, n, a)
           /\ logins' = SetWdb(c, a)
           /\ \/ /\ FreeFds(table) = {}
                 /\ obj' = Object(g, Empty)
                 /\ fdt' = table
                 /\ answer' = Answer(c, "open", "IoFailure", Empty)
                 /\ UNCHANGED <<files, state>>
              \/ /\ FreeFds(table) # {} /\ Locked(table, f)
                 /\ obj' = Object(g, Empty)
                 /\ fdt' = Put(table, Lowest(table), File(f))
                 /\ state' = "waiting"
                 /\ UNCHANGED <<files, answer>>
              \/ /\ FreeFds(table) # {} /\ ~Locked(table, f)
                 /\ obj' = Object(Lowest(table), held)
                 /\ fdt' = Put(table, Lowest(table), File(f))
                 /\ files' = Put(files, f, held)
                 /\ answer' = Answer(c, "open", "Ok", Empty)
                 /\ UNCHANGED state
  /\ UNCHANGED <<cons, rest>>

Open(c, n) ==
  Serving(c, "open") /\ LoggedIn(c) /\ (OpenListed(c, n) \/ OpenNew(c, n))

Switch(c, n) ==
  /\ Serving(c, "switch") /\ LoggedIn(c)
  /\ n \in DOMAIN dbt
  /\ logins' = SetWdb(c, dbt[n])
  /\ answer' = Answer(c, "switch", "Ok", Empty)
  /\ UNCHANGED <<dbt, obj, cons, fdt, files, rest, state>>

\* switch asks for no permission: without a login it writes the working
\* database through a null reference.
SwitchLoggedOut(c, n) ==
  /\ Serving(c, "switch_logged_out") /\ ~LoggedIn(c)
  /\ n \in DOMAIN dbt
  /\ state' = "dead"
  /\ UNCHANGED <<dbt, obj, logins, cons, fdt, files, rest, answer>>

Numbers(N) == {obj[dbt[n]].fd : n \in N}

\* DB::close of the databases N: descriptors closed, content dropped.
CloseObjects(N) ==
  /\ fdt' = Cleanup(fdt, Numbers(N))
  /\ obj' = [a \in DOMAIN obj |->
               IF \E n \in N : dbt[n] = a THEN [obj[a] EXCEPT !.held = Empty]
                                          ELSE obj[a]]

Close(c, n) ==
  /\ Serving(c, "close") /\ LoggedIn(c)
  /\ n \in DOMAIN dbt
  /\ Courteous => NobodyElse(c, {n})
  /\ logins' = Forget(c, dbt[n])
  /\ CloseObjects({n})
  /\ rest' = [cmd |-> "close", names |-> {n}, by |-> c]
  /\ UNCHANGED <<dbt, cons, files, state, answer>>

CloseAll(c) ==
  /\ Serving(c, "close_all") /\ HasWdb(c)
  /\ Courteous => NobodyElse(c, DOMAIN dbt)
  /\ CloseObjects(DOMAIN dbt)
  /\ logins' = SetWdb(c, Null)
  /\ rest' = [cmd |-> "close_all", names |-> DOMAIN dbt, by |-> c]
  /\ UNCHANGED <<dbt, cons, files, state, answer>>

\* The rest of close, close_all and destroy_all: the entries are taken out of
\* the table, and the destructors close the same numbers once more.
\* Mutants: the entries stay in the table; the command is never over.
DropNothing ==
  /\ rest # Idle
  /\ rest' = Idle
  /\ fdt' = Cleanup(fdt, Numbers(rest.names))
  /\ answer' = Answer(rest.by, rest.cmd, "Ok", Empty)
  /\ UNCHANGED <<dbt, obj, logins, cons, files, state>>

DropAgain ==
  /\ rest # Idle
  /\ fdt' = Cleanup(fdt, Numbers(rest.names))
  /\ dbt' = Without(dbt, rest.names)
  /\ obj' = Without(obj, {dbt[n] : n \in rest.names})
  /\ answer' = Answer(rest.by, rest.cmd, "Ok", Empty)
  /\ UNCHANGED <<logins, cons, files, rest, state>>

Drop ==
  /\ rest # Idle
  /\ fdt' = Cleanup(fdt, Numbers(rest.names))
  /\ dbt' = Without(dbt, rest.names)
  /\ obj' = Without(obj, {dbt[n] : n \in rest.names})
  /\ logins' = IF rest.cmd = "destroy_all" THEN SetWdb(rest.by, Null) ELSE logins
  /\ rest' = Idle
  /\ answer' = Answer(rest.by, rest.cmd, "Ok", Empty)
  /\ UNCHANGED <<cons, files, state>>

\* Of a database in the table the files go; the entry stays.
DestroyOpen(c, n) ==
  /\ Serving(c, "destroy_open") /\ LoggedIn(c)
  /\ n \in DOMAIN dbt
  /\ Courteous => NobodyElse(c, {n})
  /\ logins' = Forget(c, dbt[n])
  /\ fdt' = Unlink(Cleanup(fdt, Numbers({n})), {FileOf[n]})
  /\ files' = Without(files, {FileOf[n]})
  /\ answer' = Answer(c, "destroy",
                      IF FileOf[n] \in DOMAIN files THEN "Ok" ELSE "IoFailure",
                      Empty)
  /\ UNCHANGED <<dbt, obj, cons, rest, state>>

\* ambry::destroy(name)
DestroyClosed(c, n) ==
  /\ Serving(c, "destroy_closed") /\ LoggedIn(c)
  /\ n \notin DOMAIN dbt
  /\ fdt' = Unlink(fdt, {FileOf[n]})
  /\ files' = Without(files, {FileOf[n]})
  /\ answer' = Answer(c, "destroy",
                      IF FileOf[n] \in DOMAIN files THEN "Ok" ELSE "IoFailure",
                      Empty)
  /\ UNCHANGED <<dbt, obj, logins, cons, rest, state>>

\* The loop of destroy_all: N were destroyed; the next one, if any, has no
\* files and ends the command.
DestroyAll(c) ==
  /\ Serving(c, "destroy_all") /\ HasWdb(c)
  /\ Courteous => NobodyElse(c, DOMAIN dbt)
  /\ \E N \in SUBSET DOMAIN dbt :
       /\ \A n \in N : FileOf[n] \in DOMAIN files
       /\ \A m, n \in N : FileOf[m] = FileOf[n] => m = n
       /\ files' = Without(files, {FileOf[n] : n \in N})
       /\ \/ /\ N = DOMAIN dbt
             /\ fdt' = Unlink(Cleanup(fdt, Numbers(N)), {FileOf[n] : n \in N})
             /\ rest' = [cmd |-> "destroy_all", names |-> N, by |-> c]
             /\ UNCHANGED answer
          \/ \E m \in DOMAIN dbt \ N :
               /\ FileOf[m] \notin DOMAIN files \ {FileOf[n] : n \in N}
               /\ fdt' = Unlink(Cleanup(fdt, Numbers(N \cup {m})),
                                {FileOf[n] : n \in N})
               /\ answer' = Answer(c, "destroy_all", "IoFailure", Empty)
               /\ UNCHANGED rest
  /\ UNCHANGED <<dbt, obj, logins, cons, state>>

\* set, update, erase: whatever the descriptor refers to by now is written,
\* and the answer does not depend on it.  A mutant: nothing is written.
StoredNowhere(o, v) == files

Stored(o, v) ==
  IF o.fd \in DOMAIN fdt /\ fdt[o.fd].kind = "file"
  THEN Put(files, fdt[o.fd].of, v) ELSE files

Write(c, v) ==
  /\ Serving(c, "write") /\ HasWdb(c)
  /\ Wdb(c) \in DOMAIN obj
  /\ obj' = [obj EXCEPT ![Wdb(c)].held = v]
  /\ files' = Stored(obj[Wdb(c)], v)
  /\ answer' = Answer(c, "write", "Ok", Empty)
  /\ UNCHANGED <<dbt, logins, cons, fdt, rest, state>>

Read(c) ==
  /\ Serving(c, "read") /\ HasWdb(c)
  /\ Wdb(c) \in DOMAIN obj
  /\ answer' = Answer(c, "read", "Ok", obj[Wdb(c)].held)
  /\ UNCHANGED <<dbt, obj, logins, cons, fdt, files, rest, state>>

\* A command on a working database whose object has been freed.
UseFreed(c) ==
  /\ Serving(c, "write") \/ Serving(c, "read")
  /\ HasWdb(c) /\ Wdb(c) \notin DOMAIN obj
  /\ state' = "dead"
  /\ UNCHANGED <<dbt, obj, logins, cons, fdt, files, rest, answer>>

-----------------------------------------------------------------------------

Init ==
  /\ dbt = [n \in {} |-> Null] /\ obj = [a \in {} |-> Null]
  /\ logins = [d \in {} |-> Null]
  /\ cons = [c \in Clients |-> Null] /\ fdt = [d \in {} |-> Null]
  /\ files = [f \in {} |-> Empty]
  /\ rest = Idle /\ state = "up"
  /\ answer = Answer(Null, "none", "Ok", Empty)

Command(c) ==
  \/ Login(c) \/ Logout(c) \/ Disconnect(c) \/ Refuse(c)
  \/ \E n \in Names :
       \/ Open(c, n) \/ Switch(c, n) \/ SwitchLoggedOut(c, n) \/ Close(c, n)
       \/ DestroyOpen(c, n) \/ DestroyClosed(c, n)
  \/ CloseAll(c) \/ DestroyAll(c)
  \/ \E v \in Contents : Write(c, v)
  \/ Read(c)
  \/ UseFreed(c)

Next ==
  \/ \E c \in Clients : Accept(c) \/ Command(c)
  \/ Drop

Spec == Init /\ [][Next]_vars

-----------------------------------------------------------------------------
(* Properties.                                                             *)

Targets ==
  {File(f) : f \in Names} \cup {Con(c) : c \in Clients} \cup {Unlinked, HungUp}

\* The values each variable ranges over.
SessionsTypeOK ==
  /\ DOMAIN dbt \subseteq Names /\ \A n \in DOMAIN dbt : dbt[n] \in DOMAIN obj
  /\ DOMAIN obj \subseteq Addrs
  /\ \A a \in DOMAIN obj : obj[a] \in [name : Names, fd : Fds \cup Garbage, held : Contents]
  /\ DOMAIN logins \subseteq Fds
  /\ \A d \in DOMAIN logins : logins[d] \in Addrs \cup {Null}
  /\ cons \in [Clients -> Fds \cup {Null}]
  /\ DOMAIN fdt \subseteq Fds /\ \A d \in DOMAIN fdt : fdt[d] \in Targets
  /\ DOMAIN files \subseteq Names /\ \A f \in DOMAIN files : files[f] \in Contents
  /\ rest.names \subseteq DOMAIN dbt
  /\ state \in {"up", "waiting", "dead"}

\* Whoever is logged in has a connection, and every database in the table has a
\* descriptor on its own file, until its close or destroy has begun: no close
\* takes the descriptor of another client or database (close, aci/aci.cpp:739).
DescriptorsOwn ==
  /\ \A d \in DOMAIN logins : \E c \in Clients : cons[c] = d /\ Connected(c)
  /\ \A n \in DOMAIN dbt \ rest.names :
       LET o == obj[dbt[n]]
       IN  FileOf[n] \in DOMAIN files =>
             o.fd \in DOMAIN fdt /\ fdt[o.fd] = File(FileOf[n])

\* A connection ends when its client hangs up, and under its client only when the
\* listener took it on a number that the command running then closes a second
\* time (cleanup in close and again in the destructor, io_manager.cpp:28).
ConnectionsKept ==
  [][\A c \in Clients :
       Connected(c) /\ ~Connected(c)' =>
         \/ Disconnect(c)
         \/ rest # Idle /\ cons[c] \in Numbers(rest.names) /\ ~LoggedIn(c)]_vars

\* A command that expects a working database gets one that is in the table of
\* open databases (aci/aci.hpp:93).
WorkingDbAlive ==
  \A d \in DOMAIN logins :
    logins[d] # Null => \E n \in DOMAIN dbt : dbt[n] = logins[d]

\* open answers Ok only when the database is open afterwards: the working
\* database has a descriptor on the file of that name (aci/aci.cpp:729).
OpenMeansOpen ==
  [][\A c \in Clients, n \in Names :
       Open(c, n) /\ answer'.status = "Ok" =>
         LET o == obj'[logins'[cons[c]]]
         IN  o.fd \in DOMAIN fdt' /\ fdt'[o.fd] = File(FileOf[n])]_vars

\* No file is open twice: flock lets one descriptor in at a time, and the one
\* that waits is the last thing the process does.
OneDescriptorPerFile ==
  state # "waiting" =>
    \A d, e \in DOMAIN fdt : fdt[d] = fdt[e] /\ fdt[d].kind = "file" => d = e

\* The process neither dies of a command nor waits for a lock of its own: after
\* every command it can take the next one.
StaysUp == state = "up"

\* The interpreter implements Workspaces: a client reads and writes the database
\* it chose, and what it was told was written is in that database's file.
WS == INSTANCE Workspaces WITH
        None    <- Null,
        content <- [n \in Names |-> IF FileOf[n] \in DOMAIN files
                                    THEN files[FileOf[n]] ELSE Empty],
        working <- [c \in Clients |->
                      IF Connected(c) /\ HasWdb(c) /\ Wdb(c) \in DOMAIN obj
                      THEN obj[Wdb(c)].name ELSE Null]

ImplementsWorkspaces == WS!Spec
==============================================================================
