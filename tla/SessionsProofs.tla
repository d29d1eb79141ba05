--------------------------- MODULE SessionsProofs ---------------------------
(***************************************************************************)
(* Theorems about Sessions, for all clients, names, files, addresses and   *)
(* numbers of descriptors.                                                 *)
(***************************************************************************)
EXTENDS Sessions, FiniteSetTheorems, WellFoundedInduction, TLAPS

(***************************************************************************)
(* Lemmas on tables.                                                       *)
(***************************************************************************)

\* Put adds one entry or replaces one.
LEMMA PutFacts ==
  ASSUME NEW f, NEW x, NEW y
  PROVE  /\ DOMAIN Put(f, x, y) = DOMAIN f \cup {x}
         /\ Put(f, x, y)[x] = y
         /\ \A z \in DOMAIN f \ {x} : Put(f, x, y)[z] = f[z]
BY DEF Put

\* Without removes entries and keeps the others.
LEMMA WithoutFacts ==
  ASSUME NEW f, NEW S
  PROVE  /\ DOMAIN Without(f, S) = DOMAIN f \ S
         /\ \A z \in DOMAIN f \ S : Without(f, S)[z] = f[z]
BY DEF Without

\* Unlink changes what some descriptors lead to and opens or closes none.
LEMMA UnlinkFacts ==
  ASSUME NEW table, NEW S
  PROVE  /\ DOMAIN Unlink(table, S) = DOMAIN table
         /\ \A d \in DOMAIN table :
              \/ Unlink(table, S)[d] = table[d] /\ \A f \in S : table[d] # File(f)
              \/ Unlink(table, S)[d] = Unlinked /\ \E f \in S : table[d] = File(f)
BY DEF Unlink

\* Every set of natural numbers has a least one.
LEMMA LeastNumber ==
  ASSUME NEW S, S \subseteq Nat, S # {}
  PROVE  \E x \in S : \A y \in S : x =< y
<1>1. IsWellFoundedOn(OpToRel(<, Nat), Nat)  BY NatLessThanWellFounded
<1>2. PICK x \in S : \A y \in S : ~(<<y, x>> \in OpToRel(<, Nat))
  <2> DEFINE R == OpToRel(<, Nat)
  <2>1. IsWellFoundedOn(R, Nat)  BY <1>1
  <2> HIDE DEF R
  <2>2. \E x \in S : \A y \in S : ~(<<y, x>> \in R)  BY <2>1, WFMin
  <2>3. QED  BY <2>2 DEF R
<1>3. \A y \in S : ~(y < x)  BY <1>2 DEF OpToRel
<1>4. QED  BY <1>3

\* The lowest free descriptor is a free descriptor.
LEMMA LowestFree ==
  ASSUME NEW table, FreeFds(table) # {}
  PROVE  Lowest(table) \in Fds /\ Lowest(table) \notin DOMAIN table
<1>1. FreeFds(table) \subseteq Nat  BY GarbageAssumption DEF FreeFds, Fds
<1>2. \E x \in FreeFds(table) : \A y \in FreeFds(table) : x =< y
  BY <1>1, LeastNumber
<1>3. Lowest(table) \in FreeFds(table)  BY <1>2 DEF Lowest, Min
<1>4. QED  BY <1>3 DEF FreeFds

(***************************************************************************)
(* Types.  A database in the table has an object of its own: closing one   *)
(* frees no other's.                                                       *)
(***************************************************************************)

\* What the tables hold: descriptors lead to files and connections, files hold
\* contents, logins lead to objects.
Targeted(table) ==
  DOMAIN table \subseteq Fds /\ \A d \in DOMAIN table : table[d] \in Targets

Filed(table) ==
  DOMAIN table \subseteq Names /\ \A f \in DOMAIN table : table[f] \in Contents

Logged(table) ==
  DOMAIN table \subseteq Fds /\ \A d \in DOMAIN table : table[d] \in Addrs \cup {Null}

\* The number in an object may be whatever was in memory.
Object == [name : Names, fd : Fds \cup Garbage, held : Contents]

ObjectsOK ==
  /\ DOMAIN dbt \subseteq Names /\ \A n \in DOMAIN dbt : dbt[n] \in DOMAIN obj
  /\ DOMAIN obj \subseteq Addrs /\ \A a \in DOMAIN obj : obj[a] \in Object
  /\ \A m, n \in DOMAIN dbt : dbt[m] = dbt[n] => m = n

\* What a running close or destroy still has to take out of the table is in it.
RestOK ==
  /\ rest.names \subseteq DOMAIN dbt
  /\ rest # Idle => /\ rest.by \in Clients
                    /\ rest.cmd \in {"close", "close_all", "destroy_all"}

TInv ==
  /\ ObjectsOK /\ RestOK /\ Targeted(fdt) /\ Filed(files) /\ Logged(logins)
  /\ cons \in [Clients -> Fds \cup {Null}]
  /\ state \in {"up", "waiting", "dead"}

\* TInv is the type invariant with its parts apart.
LEMMA TInvType == TInv => SessionsTypeOK
BY DEF TInv, ObjectsOK, RestOK, Targeted, Filed, Logged, Object, SessionsTypeOK

LEMMA TargetedPut ==
  ASSUME NEW table, Targeted(table), NEW d \in Fds, NEW t \in Targets
  PROVE  Targeted(Put(table, d, t))
BY DEF Put, Targeted

\* Closing descriptors keeps their types,
LEMMA TargetedWithout ==
  ASSUME NEW table, Targeted(table), NEW S
  PROVE  Targeted(Without(table, S))
BY DEF Without, Targeted

\* so does removing a file that is open,
LEMMA TargetedUnlink ==
  ASSUME NEW table, Targeted(table), NEW S
  PROVE  Targeted(Unlink(table, S))
<1>1. Unlinked \in Targets  BY DEF Targets
<1>2. QED  BY <1>1, UnlinkFacts DEF Targeted

\* and the files hold contents when one is written
LEMMA FiledPut ==
  ASSUME NEW table, Filed(table), NEW f \in Names, NEW v \in Contents
  PROVE  Filed(Put(table, f, v))
BY DEF Put, Filed

\* or removed.
LEMMA FiledWithout ==
  ASSUME NEW table, Filed(table), NEW S
  PROVE  Filed(Without(table, S))
BY DEF Without, Filed

\* Logins lead to objects when a working database is set or forgotten.
LEMMA LoggedSet ==
  ASSUME Logged(logins), NEW c, NEW a \in Addrs \cup {Null}
  PROVE  Logged(SetWdb(c, a)) /\ Logged(Forget(c, a))
BY DEF Logged, SetWdb, Forget

\* TInv holds of a process that has just started.
LEMMA TInit == Init => TInv
<1> SUFFICES ASSUME Init PROVE TInv  OBVIOUS
<1>1. DOMAIN dbt = {} /\ DOMAIN obj = {} /\ DOMAIN logins = {} /\ DOMAIN fdt = {}
      /\ DOMAIN files = {}
  BY DEF Init
<1>2. cons \in [Clients -> Fds \cup {Null}] /\ rest.names = {} /\ rest = Idle /\ state = "up"
  BY DEF Init, Idle
<1>3. QED  BY <1>1, <1>2 DEF TInv, ObjectsOK, RestOK, Targeted, Filed, Logged

\* Accepting a connection keeps TInv.
LEMMA TAccept ==
  ASSUME TInv, NEW c \in Clients, Accept(c)
  PROVE  TInv'
<1>1. Lowest(fdt) \in Fds  BY LowestFree DEF Accept
<1>2. Con(c) \in Targets  BY DEF Targets
<1>3. Targeted(fdt')  BY <1>1, <1>2, TargetedPut DEF Accept, TInv
<1>4. cons' \in [Clients -> Fds \cup {Null}]  BY <1>1 DEF Accept, TInv
<1>5. QED  BY <1>3, <1>4 DEF Accept, TInv, ObjectsOK, RestOK

\* The commands that only enter, leave or choose.
LEMMA TEnter ==
  ASSUME TInv, NEW c \in Clients,
         \/ Login(c) \/ Logout(c) \/ Disconnect(c) \/ Refuse(c) \/ Read(c) \/ UseFreed(c)
         \/ \E n \in Names : Switch(c, n) \/ SwitchLoggedOut(c, n)
  PROVE  TInv'
<1>1. CASE Login(c)
  <2>1. cons[c] \in Fds  BY <1>1 DEF Login, Connected, TInv, Targeted
  <2>2. Logged(logins')  BY <1>1, <2>1 DEF Put, Login, Logged, TInv
  <2>3. QED  BY <1>1, <2>2 DEF Login, TInv, ObjectsOK, RestOK
<1>2. CASE Logout(c)
  <2>1. Logged(logins')  BY <1>2 DEF Without, Logout, Logged, TInv
  <2>2. QED  BY <1>2, <2>1 DEF Logout, TInv, ObjectsOK, RestOK
<1>3. CASE Disconnect(c)
  <2>1. Logged(logins')  BY <1>3 DEF Without, Disconnect, Logged, TInv
  <2>2. HungUp \in Targets  BY DEF Targets
  <2>3. Targeted(fdt')  BY <1>3, <2>2 DEF Disconnect, Targeted, TInv
  <2>4. QED  BY <1>3, <2>1, <2>3 DEF Disconnect, TInv, ObjectsOK, RestOK
<1>4. CASE Refuse(c) \/ Read(c)
  BY <1>4 DEF Refuse, Read, TInv, ObjectsOK, RestOK
<1>5. CASE UseFreed(c) \/ \E n \in Names : SwitchLoggedOut(c, n)
  BY <1>5 DEF UseFreed, SwitchLoggedOut, TInv, ObjectsOK, RestOK
<1>6. ASSUME NEW n \in Names, Switch(c, n) PROVE TInv'
  <2>1. dbt[n] \in Addrs  BY <1>6 DEF Switch, TInv, ObjectsOK
  <2>2. Logged(logins')  BY <1>6, <2>1, LoggedSet DEF Switch, TInv
  <2>3. QED  BY <1>6, <2>2 DEF Switch, TInv, ObjectsOK, RestOK
<1>7. QED  BY <1>1, <1>2, <1>3, <1>4, <1>5, <1>6

\* open keeps TInv, whether it finds the database listed, gets a descriptor, runs
\* out of them or waits for a lock.
LEMMA TOpen ==
  ASSUME TInv, NEW c \in Clients, NEW n \in Names, Open(c, n)
  PROVE  TInv'
<1>1. CASE OpenListed(c, n)
  <2>1. dbt[n] \in Addrs  BY <1>1 DEF OpenListed, TInv, ObjectsOK
  <2>2. Logged(logins')  BY <1>1, <2>1, LoggedSet DEF OpenListed, TInv
  <2>3. Targeted(fdt')  BY <1>1, TargetedWithout DEF OpenListed, Cleanup, TInv
  <2>4. QED  BY <1>1, <2>2, <2>3 DEF OpenListed, TInv, ObjectsOK, RestOK
<1>2. CASE OpenNew(c, n)
  <2>1. PICK a \in Addrs \ DOMAIN obj, g \in Garbage, o \in Object :
          LET table == Cleanup(fdt, {g})
              f     == FileOf[n]
          IN  /\ dbt' = Put(dbt, n, a) /\ logins' = SetWdb(c, a) /\ obj' = Put(obj, a, o)
              /\ state' \in {state, "waiting"}
              /\ \/ fdt' = table
                 \/ FreeFds(table) # {} /\ fdt' = Put(table, Lowest(table), File(f))
              /\ \/ files' = files
                 \/ files' = Put(files, f, o.held)
    <3>1. PICK a \in Addrs \ DOMAIN obj, g \in Garbage :
            OpenNew(c, n)!2!(a, g)
      BY <1>2 DEF OpenNew
    <3> DEFINE table == Cleanup(fdt, {g})
               f     == FileOf[n]
               held  == IF f \in DOMAIN files THEN files[f] ELSE Empty
               Obj(d, v) == [name |-> n, fd |-> d, held |-> v]
    <3>2. f \in Names /\ held \in Contents
      BY FileOfAssumption, ContentsAssumption DEF TInv, Filed
    <3>3. FreeFds(table) # {} => Lowest(table) \in Fds  BY LowestFree
    <3>4. \A d \in Fds \cup Garbage, v \in Contents :
            Obj(d, v) \in Object /\ Obj(d, v).held = v
      BY DEF Object
    <3>5. CASE FreeFds(table) = {}
      <4>1. Obj(g, Empty) \in Object  BY <3>4, ContentsAssumption
      <4>2. QED  BY <3>1, <3>5, <4>1
    <3>6. CASE FreeFds(table) # {} /\ Locked(table, f)
      <4>1. Obj(g, Empty) \in Object  BY <3>4, ContentsAssumption
      <4>2. QED  BY <3>1, <3>6, <4>1
    <3>7. CASE FreeFds(table) # {} /\ ~Locked(table, f)
      <4>1. Obj(Lowest(table), held) \in Object /\ Obj(Lowest(table), held).held = held
        BY <3>2, <3>3, <3>4, <3>7
      <4>2. QED  BY <3>1, <3>7, <4>1
    <3>8. QED  BY <3>5, <3>6, <3>7
  <2>2. n \notin DOMAIN dbt /\ UNCHANGED <<cons, rest>>  BY <1>2 DEF OpenNew
  <2>3. Logged(logins')  BY <2>1, LoggedSet DEF TInv
  <2>4. Targeted(fdt')
    <3> DEFINE table == Cleanup(fdt, {g})
    <3>1. Targeted(table)  BY TargetedWithout DEF TInv, Cleanup
    <3>2. FileOf[n] \in Names /\ File(FileOf[n]) \in Targets
      BY FileOfAssumption DEF Targets
    <3>3. FreeFds(table) # {} => Lowest(table) \in Fds  BY LowestFree
    <3> HIDE DEF table
    <3>4. FreeFds(table) # {} => Targeted(Put(table, Lowest(table), File(FileOf[n])))
      BY <3>1, <3>2, <3>3, TargetedPut
    <3>5. QED  BY <2>1, <3>1, <3>4 DEF table
  <2>5. Filed(files')
    <3>1. FileOf[n] \in Names /\ o.held \in Contents  BY FileOfAssumption DEF Object
    <3>2. QED  BY <2>1, <3>1, FiledPut DEF TInv
  <2>6. ObjectsOK'
    <3>1. DOMAIN dbt' = DOMAIN dbt \cup {n} /\ dbt'[n] = a
          /\ \A m \in DOMAIN dbt : m # n /\ dbt'[m] = dbt[m]
      BY <2>1, <2>2 DEF Put
    <3>2. DOMAIN obj' = DOMAIN obj \cup {a} /\ obj'[a] = o
          /\ \A b \in DOMAIN obj : b # a /\ obj'[b] = obj[b]
      BY <2>1 DEF Put
    <3>3. QED  BY <3>1, <3>2 DEF TInv, ObjectsOK
  <2>7. RestOK'
    <3>1. DOMAIN dbt \subseteq DOMAIN dbt'  BY <2>1 DEF Put
    <3>2. QED  BY <2>2, <3>1 DEF TInv, RestOK
  <2>8. QED  BY <2>1, <2>2, <2>3, <2>4, <2>5, <2>6, <2>7 DEF TInv
<1>3. QED  BY <1>1, <1>2 DEF Open

\* Closing objects leaves them in the table with their types.
LEMMA TCloseObjects ==
  ASSUME TInv, NEW N \in SUBSET DOMAIN dbt, CloseObjects(N)
  PROVE  /\ Targeted(fdt') /\ DOMAIN obj' = DOMAIN obj
         /\ \A a \in DOMAIN obj' : obj'[a] \in Object
<1>1. Targeted(fdt')  BY TargetedWithout DEF CloseObjects, Cleanup, TInv
<1>2. DOMAIN obj' = DOMAIN obj  BY DEF CloseObjects
<1>3. ASSUME NEW a \in DOMAIN obj
      PROVE  obj'[a] \in Object
  <2>1. obj[a] \in Object /\ Empty \in Contents
    BY ContentsAssumption DEF TInv, ObjectsOK
  <2>2. [obj[a] EXCEPT !.held = Empty] \in Object  BY <2>1 DEF Object
  <2>3. QED  BY <2>1, <2>2 DEF CloseObjects
<1>4. QED  BY <1>1, <1>2, <1>3

\* So do close and close_all as commands.
LEMMA TClose ==
  ASSUME TInv, NEW c \in Clients,
         CloseAll(c) \/ \E n \in Names : Close(c, n)
  PROVE  TInv'
<1>1. PICK N \in SUBSET DOMAIN dbt :
        /\ CloseObjects(N) /\ UNCHANGED <<dbt, cons, files, state>>
        /\ rest'.names = N /\ rest'.by = c /\ rest'.cmd \in {"close", "close_all"}
        /\ Logged(logins')
  <2>1. CASE CloseAll(c)
    <3>1. Logged(logins')  BY <2>1, LoggedSet DEF CloseAll, TInv
    <3>2. QED  BY <2>1, <3>1 DEF CloseAll
  <2>2. ASSUME NEW n \in Names, Close(c, n)
        PROVE  \E N \in SUBSET DOMAIN dbt :
                 /\ CloseObjects(N) /\ UNCHANGED <<dbt, cons, files, state>>
                 /\ rest'.names = N /\ rest'.by = c
                 /\ rest'.cmd \in {"close", "close_all"}
                 /\ Logged(logins')
    <3>1. dbt[n] \in Addrs  BY <2>2 DEF Close, TInv, ObjectsOK
    <3>2. Logged(logins')  BY <2>2, <3>1, LoggedSet DEF Close, TInv
    <3>3. {n} \in SUBSET DOMAIN dbt /\ rest'.names = {n}  BY <2>2 DEF Close
    <3>4. QED  BY <2>2, <3>2, <3>3 DEF Close
  <2>3. QED  BY <2>1, <2>2
<1>2. /\ Targeted(fdt') /\ DOMAIN obj' = DOMAIN obj
      /\ \A a \in DOMAIN obj' : obj'[a] \in Object
  BY <1>1, TCloseObjects
<1>3. ObjectsOK'  BY <1>1, <1>2 DEF TInv, ObjectsOK
<1>4. RestOK'  BY <1>1 DEF RestOK
<1>5. QED  BY <1>1, <1>2, <1>3, <1>4 DEF TInv

\* What is left of a close, taking entries out of the tables, keeps TInv.
LEMMA TDrop ==
  ASSUME TInv, Drop
  PROVE  TInv'
<1>1. Targeted(fdt')  BY TargetedWithout DEF Drop, Cleanup, TInv
<1>2. Logged(logins')  BY LoggedSet DEF Drop, TInv
<1>3. RestOK'  BY DEF Drop, RestOK, Idle
<1>4. ObjectsOK'
  <2>1. DOMAIN dbt' = DOMAIN dbt \ rest.names
        /\ \A n \in DOMAIN dbt' : dbt'[n] = dbt[n]
    BY DEF Drop, Without
  <2>2. DOMAIN obj' = DOMAIN obj \ {dbt[n] : n \in rest.names}
        /\ \A a \in DOMAIN obj' : obj'[a] = obj[a]
    BY DEF Drop, Without
  <2>3. \A n \in DOMAIN dbt' : dbt[n] \notin {dbt[m] : m \in rest.names}
    BY <2>1 DEF TInv, ObjectsOK, RestOK
  <2>4. QED  BY <2>1, <2>2, <2>3 DEF TInv, ObjectsOK
<1>5. QED  BY <1>1, <1>2, <1>3, <1>4 DEF TInv, Drop

\* The three ways to destroy keep TInv.
LEMMA TDestroy ==
  ASSUME TInv, NEW c \in Clients,
         DestroyAll(c) \/ \E n \in Names : DestroyOpen(c, n) \/ DestroyClosed(c, n)
  PROVE  TInv'
<1>1. ASSUME NEW n \in Names, DestroyOpen(c, n) PROVE TInv'
  <2>1. dbt[n] \in Addrs  BY <1>1 DEF DestroyOpen, TInv, ObjectsOK
  <2>2. Logged(logins')  BY <1>1, <2>1, LoggedSet DEF DestroyOpen, TInv
  <2>3. Targeted(Cleanup(fdt, Numbers({n})))  BY TargetedWithout DEF Cleanup, TInv
  <2>4. Targeted(fdt')  BY <1>1, <2>3, TargetedUnlink DEF DestroyOpen
  <2>5. Filed(files')  BY <1>1, FiledWithout DEF DestroyOpen, TInv
  <2>6. QED  BY <1>1, <2>2, <2>4, <2>5 DEF DestroyOpen, TInv, ObjectsOK, RestOK
<1>2. ASSUME NEW n \in Names, DestroyClosed(c, n) PROVE TInv'
  <2>1. Targeted(fdt')  BY <1>2, TargetedUnlink DEF DestroyClosed, TInv
  <2>2. Filed(files')  BY <1>2, FiledWithout DEF DestroyClosed, TInv
  <2>3. QED  BY <1>2, <2>1, <2>2 DEF DestroyClosed, TInv, ObjectsOK, RestOK
<1>3. CASE DestroyAll(c)
  <2>1. PICK N \in SUBSET DOMAIN dbt, M \in SUBSET DOMAIN dbt :
          /\ files' = Without(files, {FileOf[n] : n \in N})
          /\ fdt' = Unlink(Cleanup(fdt, Numbers(M)), {FileOf[n] : n \in N})
          /\ \/ rest' = [cmd |-> "destroy_all", names |-> N, by |-> c]
             \/ rest' = rest
    <3>1. PICK N \in SUBSET DOMAIN dbt : DestroyAll(c)!3!(N)
      BY <1>3 DEF DestroyAll
    <3>2. CASE rest' = [cmd |-> "destroy_all", names |-> N, by |-> c]
               /\ fdt' = Unlink(Cleanup(fdt, Numbers(N)), {FileOf[n] : n \in N})
      BY <3>1, <3>2
    <3>3. ASSUME NEW m \in DOMAIN dbt, UNCHANGED rest,
                 fdt' = Unlink(Cleanup(fdt, Numbers(N \cup {m})),
                               {FileOf[n] : n \in N})
          PROVE  \E M \in SUBSET DOMAIN dbt :
                   fdt' = Unlink(Cleanup(fdt, Numbers(M)), {FileOf[n] : n \in N})
      <4>1. N \cup {m} \in SUBSET DOMAIN dbt  OBVIOUS
      <4>2. QED  BY <3>3, <4>1
    <3>4. QED  BY <3>1, <3>2, <3>3
  <2>2. Targeted(Cleanup(fdt, Numbers(M)))  BY TargetedWithout DEF Cleanup, TInv
  <2>3. Targeted(fdt')  BY <2>1, <2>2, TargetedUnlink
  <2>4. Filed(files')  BY <2>1, FiledWithout DEF TInv
  <2>5. UNCHANGED <<dbt, obj, logins, cons, state>>  BY <1>3 DEF DestroyAll
  <2>6. RestOK'
    <3>1. CASE rest' = rest  BY <2>5, <3>1 DEF TInv, RestOK
    <3>2. CASE rest' = [cmd |-> "destroy_all", names |-> N, by |-> c]
      BY <2>5, <3>2 DEF RestOK
    <3>3. QED  BY <2>1, <3>1, <3>2
  <2>7. QED  BY <2>3, <2>4, <2>5, <2>6 DEF TInv, ObjectsOK
<1>4. QED  BY <1>1, <1>2, <1>3

\* A write through any descriptor, also one that leads to no file, stores contents.
LEMMA StoredType ==
  ASSUME TInv, NEW o, NEW v \in Contents
  PROVE  Filed(Stored(o, v))
<1>1. CASE o.fd \in DOMAIN fdt /\ fdt[o.fd].kind = "file"
  <2>1. fdt[o.fd] \in Targets  BY <1>1 DEF TInv, Targeted
  <2>2. fdt[o.fd].of \in Names
    BY <1>1, <2>1 DEF Targets, File, Con, Unlinked, HungUp
  <2>3. QED  BY <1>1, <2>2, FiledPut DEF Stored, TInv
<1>2. CASE ~(o.fd \in DOMAIN fdt /\ fdt[o.fd].kind = "file")
  <2>1. Stored(o, v) = files  BY <1>2 DEF Stored
  <2>2. QED  BY <2>1 DEF TInv
<1>3. QED  BY <1>1, <1>2

\* A write keeps TInv.
LEMMA TWrite ==
  ASSUME TInv, NEW c \in Clients, NEW v \in Contents, Write(c, v)
  PROVE  TInv'
<1>1. Filed(files')  BY StoredType DEF Write
<1>2. DOMAIN obj' = DOMAIN obj /\ \A a \in DOMAIN obj' : obj'[a] \in Object
  BY DEF Write, TInv, ObjectsOK, Object
<1>3. QED  BY <1>1, <1>2 DEF Write, TInv, ObjectsOK, RestOK

\* TInv is inductive, whoever the clients are.
LEMMA TStep ==
  ASSUME TInv, [Next]_vars
  PROVE  TInv'
<1>1. ASSUME NEW c \in Clients, Accept(c) PROVE TInv'  BY <1>1, TAccept
<1>2. ASSUME NEW c \in Clients, Command(c) PROVE TInv'
  BY <1>2, TEnter, TOpen, TClose, TDestroy, TWrite DEF Command
<1>3. CASE Drop  BY <1>3, TDrop
<1>4. CASE UNCHANGED vars
  BY <1>4 DEF vars, TInv, ObjectsOK, RestOK
<1>5. QED  BY <1>1, <1>2, <1>3, <1>4 DEF Next

\* Whatever the clients do, two names or one file, descriptors running out or
\* not: an entry of the table of databases always leads to an object, and a
\* command ends with the tables it began with in order.
THEOREM SessionsTyped == Spec => []SessionsTypeOK
<1>1. TInv /\ [Next]_vars => TInv'  BY TStep
<1>2. QED  BY <1>1, TInit, TInvType, PTL DEF Spec

(***************************************************************************)
(* One descriptor per file.                                                *)
(***************************************************************************)

\* OneDescriptorPerFile says this of the table of descriptors.
Sole(table) ==
  \A d, e \in DOMAIN table : table[d] = table[e] /\ table[d].kind = "file" => d = e

\* No file is open twice after descriptors were closed,
LEMMA SoleWithout ==
  ASSUME NEW table, Sole(table), NEW S
  PROVE  Sole(Without(table, S))
BY DEF Sole, Without

\* after a file was removed,
LEMMA SoleUnlink ==
  ASSUME NEW table, Sole(table), NEW S
  PROVE  Sole(Unlink(table, S))
<1>1. Unlinked.kind # "file"  BY DEF Unlinked
<1>2. DOMAIN Unlink(table, S) = DOMAIN table
      /\ \A d \in DOMAIN table :
           Unlink(table, S)[d] = table[d] \/ Unlink(table, S)[d] = Unlinked
  BY UnlinkFacts
<1>3. QED  BY <1>1, <1>2 DEF Sole

\* and after a file was opened that was not open.
LEMMA SolePut ==
  ASSUME NEW table, Sole(table), NEW d, d \notin DOMAIN table, NEW t,
         t.kind = "file" => \A e \in DOMAIN table : table[e] # t
  PROVE  Sole(Put(table, d, t))
BY DEF Sole, Put

\* No command opens a file that is open, and none but open opens any.
LEMMA SoleStep ==
  ASSUME OneDescriptorPerFile, [Next]_vars
  PROVE  OneDescriptorPerFile'
<1> SUFFICES ASSUME state' # "waiting" PROVE Sole(fdt')
  BY DEF OneDescriptorPerFile, Sole
<1>t. state # "waiting" => Sole(fdt)  BY DEF OneDescriptorPerFile, Sole
<1>1. ASSUME NEW c \in Clients, Accept(c) PROVE Sole(fdt')
  <2>1. Lowest(fdt) \notin DOMAIN fdt  BY <1>1, LowestFree DEF Accept
  <2>2. Con(c).kind # "file"  BY DEF Con
  <2>3. QED  BY <1>1, <1>t, <2>1, <2>2, SolePut DEF Accept
<1>2. ASSUME NEW c \in Clients,
             \/ Login(c) \/ Logout(c) \/ Refuse(c) \/ Read(c) \/ UseFreed(c)
             \/ \E v \in Contents : Write(c, v)
             \/ \E n \in Names : Switch(c, n) \/ SwitchLoggedOut(c, n)
      PROVE  Sole(fdt')
  <2>1. fdt' = fdt /\ state = "up"
    BY <1>2 DEF Login, Logout, Refuse, Read, UseFreed, Write, Switch,
                SwitchLoggedOut, Serving
  <2>2. QED  BY <1>t, <2>1
<1>3. ASSUME NEW c \in Clients, Disconnect(c) PROVE Sole(fdt')
  <2>1. HungUp.kind # "file"  BY DEF HungUp
  <2>2. fdt' = [fdt EXCEPT ![cons[c]] = HungUp] /\ Sole(fdt)
    BY <1>3, <1>t DEF Disconnect, Serving
  <2>3. QED  BY <2>1, <2>2 DEF Sole
<1>4. ASSUME NEW c \in Clients, NEW n \in Names, Open(c, n) PROVE Sole(fdt')
  <2>1. Sole(fdt)  BY <1>4, <1>t DEF Open, Serving
  <2>2. CASE OpenListed(c, n)  BY <2>1, <2>2, SoleWithout DEF OpenListed, Cleanup
  <2>3. CASE OpenNew(c, n)
    <3>1. PICK a \in Addrs \ DOMAIN obj, g \in Garbage :
            OpenNew(c, n)!2!(a, g)
      BY <2>3 DEF OpenNew
    <3> DEFINE table == Cleanup(fdt, {g})
               f     == FileOf[n]
    <3>2. Sole(table)  BY <2>1, SoleWithout DEF Cleanup
    <3>3. \/ fdt' = table
          \/ /\ FreeFds(table) # {} /\ ~Locked(table, f)
             /\ fdt' = Put(table, Lowest(table), File(f))
      BY <3>1
    <3> HIDE DEF table, f
    <3>4. CASE FreeFds(table) # {} /\ ~Locked(table, f)
               /\ fdt' = Put(table, Lowest(table), File(f))
      <4>1. Lowest(table) \notin DOMAIN table  BY <3>4, LowestFree
      <4>2. \A e \in DOMAIN table : table[e] # File(f)  BY <3>4 DEF Locked
      <4>3. QED  BY <3>2, <3>4, <4>1, <4>2, SolePut
    <3>5. QED  BY <3>2, <3>3, <3>4
  <2>4. QED  BY <1>4, <2>2, <2>3 DEF Open
<1>5. ASSUME NEW c \in Clients, CloseAll(c) \/ \E n \in Names : Close(c, n)
      PROVE  Sole(fdt')
  <2>1. Sole(fdt)  BY <1>5, <1>t DEF CloseAll, Close, Serving
  <2>2. PICK M : fdt' = Cleanup(fdt, M)  BY <1>5 DEF CloseAll, Close, CloseObjects
  <2>3. QED  BY <2>1, <2>2, SoleWithout DEF Cleanup
<1>6. ASSUME NEW c \in Clients, NEW n \in Names, DestroyOpen(c, n) \/ DestroyClosed(c, n)
      PROVE  Sole(fdt')
  <2>1. Sole(fdt)  BY <1>6, <1>t DEF DestroyOpen, DestroyClosed, Serving
  <2>2. Sole(Cleanup(fdt, Numbers({n})))  BY <2>1, SoleWithout DEF Cleanup
  <2>3. QED  BY <1>6, <2>1, <2>2, SoleUnlink DEF DestroyOpen, DestroyClosed
<1>7. ASSUME NEW c \in Clients, DestroyAll(c) PROVE Sole(fdt')
  <2>1. Sole(fdt)  BY <1>7, <1>t DEF DestroyAll, Serving
  <2>2. PICK M, S : fdt' = Unlink(Cleanup(fdt, M), S)  BY <1>7 DEF DestroyAll
  <2>3. Sole(Cleanup(fdt, M))  BY <2>1, SoleWithout DEF Cleanup
  <2>4. QED  BY <2>2, <2>3, SoleUnlink
<1>8. CASE Drop
  BY <1>8, <1>t, SoleWithout DEF Drop, Cleanup
<1>9. CASE UNCHANGED vars  BY <1>9, <1>t DEF vars
<1>10. QED
  BY <1>1, <1>2, <1>3, <1>4, <1>5, <1>6, <1>7, <1>8, <1>9 DEF Next, Command

\* Whatever the clients do, no file is open twice in a process that is not
\* waiting for a lock: not under two names, not while a database is closed and
\* opened again, not after it was destroyed and created anew.
THEOREM OneDescriptor == Spec => []OneDescriptorPerFile
<1>1. Init => OneDescriptorPerFile  BY DEF Init, OneDescriptorPerFile
<1>2. OneDescriptorPerFile /\ [Next]_vars => OneDescriptorPerFile'  BY SoleStep
<1>3. QED  BY <1>1, <1>2, PTL DEF Spec

(***************************************************************************)
(* Clients that are considerate to each other, and a process that has a    *)
(* descriptor for each of them and for each database.                      *)
(***************************************************************************)

\* Considerate clients close and destroy only what nobody else works on, never
\* destroy an open database by its name or switch without a login.
Considerate == Courteous /\ Commands \cap {"destroy_open", "switch_logged_out"} = {}

\* Every name has a file of its own.
OwnFiles == \A m, n \in Names : FileOf[m] = FileOf[n] => m = n

\* The process has a descriptor for each client and each database.
Enough ==
  /\ IsFiniteSet(Clients) /\ IsFiniteSet(Names)
  /\ Cardinality(Clients) + Cardinality(Names) =< MaxFd + 1

\* What an object that was never opened holds is no descriptor's number.  The
\* code does not see to that: it depends on what was in memory.
CleanMemory == Garbage \cap Fds = {}

\* The listener may run at any time.
Settled == Considerate /\ OwnFiles /\ Enough /\ CleanMemory

\* Every descriptor is that of a connection or of an open database.  Not every
\* connection has one: the command that was running may have closed it.
Accounted ==
  \A d \in DOMAIN fdt :
    \/ \E c \in Clients : cons[c] = d /\ fdt[d] \in {Con(c), HungUp}
    \/ \E n \in DOMAIN dbt \ rest.names : obj[dbt[n]].fd = d

\* An open database holds what is in its file and has a descriptor on it.
OpenOK ==
  /\ \A n \in DOMAIN dbt : obj[dbt[n]].name = n
  /\ \A n \in DOMAIN dbt \ rest.names :
       /\ FileOf[n] \in DOMAIN files /\ obj[dbt[n]].held = files[FileOf[n]]
       /\ obj[dbt[n]].fd \in DOMAIN fdt /\ fdt[obj[dbt[n]].fd] = File(FileOf[n])

\* The number of a database that is being closed is no open one's and nobody has
\* logged in on it, so it may be closed again.
ClosingOK ==
  \A n \in rest.names :
    /\ obj[dbt[n]].fd \notin DOMAIN logins
    /\ \A m \in DOMAIN dbt \ rest.names : obj[dbt[m]].fd # obj[dbt[n]].fd

\* A login is a connected client's, and its working database is in the table;
\* only destroy_all forgets it after the database.
Attended(a, d) ==
  \E n \in DOMAIN dbt :
    /\ dbt[n] = a
    /\ n \in rest.names => rest.cmd = "destroy_all" /\ cons[rest.by] = d

LoginsOK ==
  \A d \in DOMAIN logins :
    /\ \E c \in Clients : cons[c] = d /\ Connected(c)
    /\ logins[d] # Null => Attended(logins[d], d)

\* Whose command is running is logged in.
ByOK == rest # Idle => Connected(rest.by) /\ LoggedIn(rest.by)

CInv ==
  /\ TInv /\ state = "up"
  /\ Accounted /\ OpenOK /\ ClosingOK /\ LoginsOK /\ ByOK

\* Connections, files and what is left of them are told apart.
LEMMA Kinds ==
  /\ \A f, c : File(f) # Con(c) /\ File(f) # HungUp /\ File(f) # Unlinked
  /\ \A c : Con(c) # HungUp /\ Con(c) # Unlinked
  /\ \A f, g : File(f) = File(g) => f = g
  /\ \A c, d : Con(c) = Con(d) => c = d
<1>1. \A f, c : File(f).kind = "file" /\ File(f).of = f /\ Con(c).kind = "con" /\ Con(c).of = c
  BY DEF File, Con
<1>2. HungUp.kind = "hungup" /\ Unlinked.kind = "unlinked"  BY DEF HungUp, Unlinked
<1>3. QED  BY <1>1, <1>2

\* The three invariants of the runs follow from CInv.
LEMMA CInvMeans == CInv => DescriptorsOwn /\ WorkingDbAlive /\ StaysUp
BY DEF CInv, OpenOK, LoginsOK, Attended, DescriptorsOwn, WorkingDbAlive, StaysUp

\* The garbage in a temporary object is no descriptor.
LEMMA HarmlessCleanup ==
  ASSUME TInv, CleanMemory, NEW g \in Garbage
  PROVE  /\ DOMAIN Cleanup(fdt, {g}) = DOMAIN fdt
         /\ \A d \in DOMAIN fdt : Cleanup(fdt, {g})[d] = fdt[d]
BY DEF TInv, Targeted, CleanMemory, Cleanup, Without

\* Nobody holds the file of a database that is not open.
LEMMA NotHeld ==
  ASSUME CInv, OwnFiles, NEW n \in Names \ DOMAIN dbt
  PROVE  \A d \in DOMAIN fdt : fdt[d] # File(FileOf[n])
<1> SUFFICES ASSUME NEW d \in DOMAIN fdt, fdt[d] = File(FileOf[n]) PROVE FALSE
  OBVIOUS
<1>1. ASSUME NEW c \in Clients, fdt[d] \in {Con(c), HungUp} PROVE FALSE
  BY <1>1, Kinds
<1>2. ASSUME NEW m \in DOMAIN dbt \ rest.names, obj[dbt[m]].fd = d PROVE FALSE
  <2>1. File(FileOf[m]) = File(FileOf[n])  BY <1>2 DEF CInv, OpenOK
  <2>2. m \in Names /\ m = n  BY <2>1, Kinds DEF OwnFiles, CInv, TInv, ObjectsOK
  <2>3. QED  BY <2>2
<1>3. QED  BY <1>1, <1>2 DEF CInv, Accounted

\* There is a descriptor for one more database.
LEMMA DescriptorLeft ==
  ASSUME CInv, Enough, NEW n \in Names \ DOMAIN dbt
  PROVE  FreeFds(fdt) # {}
<1> SUFFICES ASSUME Fds \subseteq DOMAIN fdt PROVE FALSE  BY DEF FreeFds
<1> DEFINE C == {cons[c] : c \in Clients}
           fd == [m \in DOMAIN dbt |-> obj[dbt[m]].fd]
           D == {fd[m] : m \in DOMAIN dbt}
           con == [c \in Clients |-> cons[c]]
<1>1. IsFiniteSet(C) /\ Cardinality(C) =< Cardinality(Clients)
  <2>1. con \in Surjection(Clients, C)  BY DEF Surjection
  <2>2. QED  BY <2>1, FS_Surjection DEF Enough
<1>2. IsFiniteSet(DOMAIN dbt) /\ Cardinality(DOMAIN dbt) < Cardinality(Names)
  <2>1. DOMAIN dbt \subseteq Names /\ DOMAIN dbt # Names
    BY DEF CInv, TInv, ObjectsOK
  <2>2. /\ IsFiniteSet(DOMAIN dbt) /\ Cardinality(DOMAIN dbt) =< Cardinality(Names)
        /\ Cardinality(DOMAIN dbt) # Cardinality(Names)
    BY <2>1, FS_Subset DEF Enough
  <2>3. Cardinality(DOMAIN dbt) \in Nat /\ Cardinality(Names) \in Nat
    BY <2>2, FS_CardinalityType DEF Enough
  <2>4. QED  BY <2>2, <2>3
<1>3. IsFiniteSet(D) /\ Cardinality(D) =< Cardinality(DOMAIN dbt)
  <2>1. fd \in Surjection(DOMAIN dbt, D)  BY DEF Surjection
  <2>2. QED  BY <1>2, <2>1, FS_Surjection
<1>4. Fds \subseteq C \cup D  BY DEF CInv, Accounted
<1>5. IsFiniteSet(C \cup D) /\ Cardinality(C \cup D) =< Cardinality(C) + Cardinality(D)
  <2>1. /\ IsFiniteSet(C \cup D) /\ IsFiniteSet(C \cap D)
        /\ Cardinality(C \cup D) = Cardinality(C) + Cardinality(D) - Cardinality(C \cap D)
    BY <1>1, <1>3, FS_Union, FS_Intersection
  <2>2. Cardinality(C \cap D) \in Nat /\ Cardinality(C) \in Nat /\ Cardinality(D) \in Nat
    BY <1>1, <1>3, <2>1, FS_CardinalityType
  <2> HIDE DEF C, D
  <2>3. QED  BY <2>1, <2>2
<1>6. Cardinality(Fds) = MaxFd + 1
  BY FS_Interval, GarbageAssumption DEF Fds
<1>7. Cardinality(Fds) =< Cardinality(C \cup D)  BY <1>4, <1>5, FS_Subset
<1>8. /\ Cardinality(C) \in Nat /\ Cardinality(D) \in Nat /\ Cardinality(Clients) \in Nat
      /\ Cardinality(DOMAIN dbt) \in Nat /\ Cardinality(Names) \in Nat
      /\ Cardinality(C \cup D) \in Nat
  BY <1>1, <1>2, <1>3, <1>5, FS_CardinalityType DEF Enough
<1>9. Cardinality(Clients) + Cardinality(Names) =< MaxFd + 1  BY DEF Enough
<1> HIDE DEF C, D
<1>10. QED
  BY <1>1, <1>2, <1>3, <1>5, <1>6, <1>7, <1>8, <1>9, GarbageAssumption

(***************************************************************************)
(* What a step does to the connections.                                    *)
(***************************************************************************)

\* Two clients do not share a connection.
LEMMA Connections ==
  ASSUME NEW c \in Clients, NEW d \in Clients, Connected(c), Connected(d),
         cons[c] = cons[d]
  PROVE  c = d
BY Kinds DEF Connected

\* No two open databases share a descriptor, and none has a connection's.
LEMMA OwnDescriptors ==
  ASSUME CInv, OwnFiles
  PROVE  /\ \A m, n \in DOMAIN dbt \ rest.names :
              obj[dbt[m]].fd = obj[dbt[n]].fd => m = n
         /\ \A c \in Clients, n \in DOMAIN dbt \ rest.names :
              Connected(c) => obj[dbt[n]].fd # cons[c]
<1>1. ASSUME NEW m \in DOMAIN dbt \ rest.names, NEW n \in DOMAIN dbt \ rest.names,
             obj[dbt[m]].fd = obj[dbt[n]].fd
      PROVE  m = n
  <2>1. File(FileOf[m]) = File(FileOf[n])  BY <1>1 DEF CInv, OpenOK
  <2>2. QED  BY <2>1, Kinds DEF OwnFiles, CInv, TInv, ObjectsOK
<1>2. ASSUME NEW c \in Clients, NEW n \in DOMAIN dbt \ rest.names,
             obj[dbt[n]].fd = cons[c], Connected(c)
      PROVE  FALSE
  <2>1. fdt[cons[c]] = File(FileOf[n])  BY <1>2 DEF CInv, OpenOK
  <2>2. QED  BY <1>2, <2>1, Kinds DEF Connected
<1>3. QED  BY <1>1, <1>2

\* What opening a database that is not in the table comes to: there is a
\* descriptor for it, and nobody has its lock.
LEMMA OpenNewDoes ==
  ASSUME CInv, Settled, NEW c \in Clients, NEW n \in Names,
         Serving(c, "open"), LoggedIn(c), OpenNew(c, n)
  PROVE  \E a \in Addrs \ DOMAIN obj, l \in Fds \ DOMAIN fdt :
           LET held == IF FileOf[n] \in DOMAIN files THEN files[FileOf[n]] ELSE Empty
           IN  /\ n \notin DOMAIN dbt
               /\ dbt' = Put(dbt, n, a)
               /\ logins' = SetWdb(c, a)
               /\ obj' = Put(obj, a, [name |-> n, fd |-> l, held |-> held])
               /\ DOMAIN fdt' = DOMAIN fdt \cup {l} /\ fdt'[l] = File(FileOf[n])
               /\ \A d \in DOMAIN fdt : fdt'[d] = fdt[d]
               /\ files' = Put(files, FileOf[n], held)
               /\ answer' = Answer(c, "open", "Ok", Empty)
               /\ UNCHANGED <<cons, rest, state>>
<1>1. PICK a \in Addrs \ DOMAIN obj, g \in Garbage : OpenNew(c, n)!2!(a, g)
  BY DEF OpenNew
<1> DEFINE table == Cleanup(fdt, {g})
           f     == FileOf[n]
           held  == IF f \in DOMAIN files THEN files[f] ELSE Empty
<1>2. n \notin DOMAIN dbt /\ UNCHANGED <<cons, rest>>  BY DEF OpenNew
<1>3. DOMAIN table = DOMAIN fdt /\ \A d \in DOMAIN fdt : table[d] = fdt[d]
  BY HarmlessCleanup DEF CInv, Settled
<1>4. FreeFds(table) # {}  BY <1>2, <1>3, DescriptorLeft DEF FreeFds, Settled
<1>5. Lowest(table) \in Fds \ DOMAIN fdt  BY <1>3, <1>4, LowestFree
<1>6. ~Locked(table, f)  BY <1>2, <1>3, NotHeld DEF Locked, Settled
<1>7. /\ dbt' = Put(dbt, n, a) /\ logins' = SetWdb(c, a)
      /\ obj' = Put(obj, a, [name |-> n, fd |-> Lowest(table), held |-> held])
      /\ fdt' = Put(table, Lowest(table), File(f))
      /\ files' = Put(files, f, held)
      /\ answer' = Answer(c, "open", "Ok", Empty)
      /\ UNCHANGED state
  BY <1>1, <1>4, <1>6
<1> HIDE DEF table, f, held
<1>8. /\ DOMAIN fdt' = DOMAIN fdt \cup {Lowest(table)} /\ fdt'[Lowest(table)] = File(f)
      /\ \A d \in DOMAIN fdt : fdt'[d] = fdt[d]
  BY <1>3, <1>5, <1>7 DEF Put
<1>9. QED  BY <1>2, <1>5, <1>7, <1>8 DEF held, f

\* The files of open databases are all there: destroy_all gets through.
LEMMA DestroyAllDoes ==
  ASSUME CInv, Settled, NEW c \in Clients, DestroyAll(c)
  PROVE  /\ NobodyElse(c, DOMAIN dbt) /\ rest = Idle
         /\ files' = Without(files, {FileOf[n] : n \in DOMAIN dbt})
         /\ fdt' = Unlink(Cleanup(fdt, Numbers(DOMAIN dbt)), {FileOf[n] : n \in DOMAIN dbt})
         /\ rest' = [cmd |-> "destroy_all", names |-> DOMAIN dbt, by |-> c]
         /\ UNCHANGED <<dbt, obj, logins, cons, state, answer>>
<1>1. PICK N \in SUBSET DOMAIN dbt : DestroyAll(c)!3!(N)  BY DEF DestroyAll
<1>2. rest = Idle /\ rest.names = {}  BY DEF DestroyAll, Serving, Idle
<1>3. ASSUME NEW m \in DOMAIN dbt \ N
      PROVE  FileOf[m] \in DOMAIN files \ {FileOf[n] : n \in N}
  <2>1. FileOf[m] \in DOMAIN files  BY <1>2 DEF CInv, OpenOK
  <2>2. \A n \in N : FileOf[n] # FileOf[m]
    BY DEF CInv, TInv, ObjectsOK, Settled, OwnFiles
  <2>3. QED  BY <2>1, <2>2
<1>4. N = DOMAIN dbt
      /\ fdt' = Unlink(Cleanup(fdt, Numbers(N)), {FileOf[n] : n \in N})
      /\ rest' = [cmd |-> "destroy_all", names |-> N, by |-> c]
      /\ UNCHANGED answer
  BY <1>1, <1>3
<1>5. QED  BY <1>1, <1>2, <1>4 DEF DestroyAll, Settled, Considerate

\* A client is connected as it was,
Stays(e) == cons'[e] = cons[e] /\ Connected(e)'

\* its descriptor was not closed,
LEMMA Undisturbed ==
  ASSUME NEW e \in Clients, Connected(e), cons'[e] = cons[e],
         cons[e] \in DOMAIN fdt', fdt'[cons[e]] = fdt[cons[e]]
  PROVE  Stays(e)
BY DEF Connected, Stays

\* not with databases that were open,
LEMMA CleanupMisses ==
  ASSUME CInv, OwnFiles, rest.names = {}, NEW e \in Clients, Connected(e),
         NEW N \in SUBSET DOMAIN dbt
  PROVE  LET table == Cleanup(fdt, Numbers(N))
         IN  cons[e] \in DOMAIN table /\ table[cons[e]] = Con(e)
<1>1. cons[e] \notin Numbers(N)  BY OwnDescriptors DEF Numbers
<1>2. QED  BY <1>1 DEF Cleanup, Without, Connected

\* and not with their files.
LEMMA UnlinkMisses ==
  ASSUME NEW table, NEW S, NEW d \in DOMAIN table, NEW e, table[d] = Con(e)
  PROVE  d \in DOMAIN Unlink(table, S) /\ Unlink(table, S)[d] = table[d]
BY UnlinkFacts, Kinds

\* A client that was connected still is, it hung up, or its descriptor is a
\* number that is closed again before anybody logged in on it.
LEMMA ConnectionStays ==
  ASSUME CInv, Settled, [Next]_vars, NEW e \in Clients, Connected(e)
  PROVE  \/ Stays(e)
         \/ Disconnect(e)
         \/ rest # Idle /\ cons[e] \in Numbers(rest.names) /\ ~LoggedIn(e)
<1>e. cons[e] # Null /\ cons[e] \in DOMAIN fdt /\ fdt[cons[e]] = Con(e)
  BY DEF Connected
<1>1. ASSUME NEW c \in Clients, Accept(c) PROVE Stays(e)
  <2>1. Lowest(fdt) \notin DOMAIN fdt  BY <1>1, LowestFree DEF Accept
  <2>2. cons'[e] = cons[e] /\ cons[e] \in DOMAIN fdt' /\ fdt'[cons[e]] = fdt[cons[e]]
    BY <1>1, <1>e, <2>1 DEF Accept, Put, CInv, TInv
  <2>3. QED  BY <2>2, Undisturbed
<1>2. ASSUME UNCHANGED <<cons, fdt>> PROVE Stays(e)
  BY <1>2, <1>e, Undisturbed
<1>3. ASSUME NEW c \in Clients, Disconnect(c) PROVE Stays(e) \/ Disconnect(e)
  <2>1. CASE c = e  BY <1>3, <2>1
  <2>2. CASE c # e
    <3>1. Connected(c)  BY <1>3 DEF Disconnect, Serving
    <3>2. cons[c] # cons[e]  BY <2>2, <3>1, Connections
    <3>3. UNCHANGED cons /\ fdt' = [fdt EXCEPT ![cons[c]] = HungUp]
      BY <1>3 DEF Disconnect
    <3>4. QED  BY <1>e, <3>2, <3>3, Undisturbed
  <2>3. QED  BY <2>1, <2>2
<1>4. ASSUME NEW c \in Clients, NEW n \in Names, Open(c, n) PROVE Stays(e)
  <2>1. UNCHANGED cons  BY <1>4 DEF Open, OpenListed, OpenNew
  <2>2. DOMAIN fdt \subseteq DOMAIN fdt' /\ \A d \in DOMAIN fdt : fdt'[d] = fdt[d]
    <3>1. CASE OpenListed(c, n)
      BY <3>1, HarmlessCleanup DEF OpenListed, CInv, Settled
    <3>2. CASE OpenNew(c, n)  BY <1>4, <3>2, OpenNewDoes DEF Open
    <3>3. QED  BY <1>4, <3>1, <3>2 DEF Open
  <2>3. QED  BY <1>e, <2>1, <2>2, Undisturbed
<1>5. ASSUME NEW c \in Clients, CloseAll(c) \/ \E n \in Names : Close(c, n)
      PROVE  Stays(e)
  <2>1. PICK N \in SUBSET DOMAIN dbt : CloseObjects(N)
    <3>1. \A n : Close(c, n) => {n} \in SUBSET DOMAIN dbt /\ CloseObjects({n})
      BY DEF Close
    <3>2. QED  BY <1>5, <3>1 DEF CloseAll
  <2>2. rest.names = {} /\ UNCHANGED cons
    <3>1. rest = Idle /\ UNCHANGED cons  BY <1>5 DEF CloseAll, Close, Serving
    <3>2. QED  BY <3>1 DEF Idle
  <2>3. QED  BY <1>e, <2>1, <2>2, CleanupMisses, Undisturbed DEF CloseObjects, Settled
<1>6. ASSUME NEW c \in Clients, NEW n \in Names, DestroyClosed(c, n) PROVE Stays(e)
  BY <1>6, <1>e, UnlinkMisses, Undisturbed DEF DestroyClosed
<1>7. ASSUME NEW c \in Clients, DestroyAll(c) PROVE Stays(e)
  <2> DEFINE table == Cleanup(fdt, Numbers(DOMAIN dbt))
             S == {FileOf[n] : n \in DOMAIN dbt}
  <2>1. rest.names = {} /\ UNCHANGED cons /\ fdt' = Unlink(table, S)
    <3>1. rest = Idle /\ UNCHANGED cons /\ fdt' = Unlink(table, S)
      BY <1>7, DestroyAllDoes
    <3>2. QED  BY <3>1 DEF Idle
  <2>2. cons[e] \in DOMAIN table /\ table[cons[e]] = Con(e)
    BY <2>1, CleanupMisses DEF Settled
  <2> HIDE DEF table, S
  <2>3. QED  BY <1>e, <2>1, <2>2, UnlinkMisses, Undisturbed
<1>8. CASE Drop
  <2>1. CASE cons[e] \in Numbers(rest.names)
    <3>1. \A d \in Numbers(rest.names) : d \notin DOMAIN logins
      BY DEF CInv, ClosingOK, Numbers
    <3>2. QED  BY <1>8, <2>1, <3>1 DEF Drop, LoggedIn
  <2>2. CASE cons[e] \notin Numbers(rest.names)
    <3>1. UNCHANGED cons /\ cons[e] \in DOMAIN fdt' /\ fdt'[cons[e]] = fdt[cons[e]]
      BY <1>8, <1>e, <2>2 DEF Drop, Cleanup, Without
    <3>2. QED  BY <3>1, Undisturbed
  <2>3. QED  BY <2>1, <2>2
<1>9. ASSUME NEW c \in Clients, NEW n \in Names, DestroyOpen(c, n) PROVE FALSE
  BY <1>9 DEF DestroyOpen, Serving, Settled, Considerate
<1>10. ASSUME NEW c \in Clients, Command(c) PROVE Stays(e) \/ Disconnect(e)
  <2>1. CASE \/ Login(c) \/ Logout(c) \/ Refuse(c) \/ Read(c) \/ UseFreed(c)
             \/ \E v \in Contents : Write(c, v)
             \/ \E n \in Names : Switch(c, n) \/ SwitchLoggedOut(c, n)
    <3>1. UNCHANGED <<cons, fdt>>
      BY <2>1 DEF Login, Logout, Refuse, Read, UseFreed, Write, Switch, SwitchLoggedOut
    <3>2. QED  BY <1>2, <3>1
  <2>2. QED  BY <1>3, <1>4, <1>5, <1>6, <1>7, <1>9, <1>10, <2>1 DEF Command
<1>11. QED  BY <1>1, <1>2, <1>8, <1>10 DEF Next, vars

\* Who is logged in and stays so has the connection it had.
LoginsStay ==
  \A e \in Clients :
    Connected(e) /\ LoggedIn(e) /\ cons[e] \in DOMAIN logins' => Stays(e)

LEMMA LoginsDoStay ==
  ASSUME CInv, Settled, [Next]_vars
  PROVE  LoginsStay
<1>1. \A e : Disconnect(e) => cons[e] \notin DOMAIN logins'
  BY DEF Disconnect, Without
<1>2. QED  BY <1>1, ConnectionStays DEF LoginsStay

\* So a login that stays has its client,
LEMMA LoginHasClient ==
  ASSUME CInv, LoginsStay, NEW d \in DOMAIN logins, d \in DOMAIN logins'
  PROVE  (\E c \in Clients : cons[c] = d /\ Connected(c))'
<1>1. PICK c \in Clients : cons[c] = d /\ Connected(c)  BY DEF CInv, LoginsOK
<1>2. Stays(c)  BY <1>1 DEF LoginsStay, LoggedIn
<1>3. QED  BY <1>1, <1>2 DEF Stays

\* and so has a command that goes on.
LEMMA ByStays ==
  ASSUME CInv, LoginsStay, UNCHANGED rest, DOMAIN logins' = DOMAIN logins
  PROVE  ByOK'
<1> SUFFICES ASSUME rest # Idle PROVE Connected(rest.by)' /\ LoggedIn(rest.by)'
  BY DEF ByOK
<1>1. rest.by \in Clients /\ Connected(rest.by) /\ LoggedIn(rest.by)
  BY DEF CInv, ByOK, TInv, RestOK
<1>2. Stays(rest.by)  BY <1>1 DEF LoginsStay, LoggedIn
<1>3. QED  BY <1>1, <1>2 DEF Stays, LoggedIn

(***************************************************************************)
(* The steps of considerate clients.                                       *)
(***************************************************************************)

\* CInv holds of a process that has just started.
LEMMA CInit == Init => CInv
<1> SUFFICES ASSUME Init PROVE CInv  OBVIOUS
<1>1. TInv  BY TInit
<1>2. DOMAIN dbt = {} /\ DOMAIN fdt = {} /\ DOMAIN logins = {} /\ rest.names = {}
      /\ state = "up" /\ \A c \in Clients : cons[c] = Null
  BY DEF Init, Idle
<1>3. QED  BY <1>1, <1>2 DEF CInv, Accounted, OpenOK, ClosingOK, LoginsOK, ByOK, Init

\* A new connection gets a number nobody has.
LEMMA CAccept ==
  ASSUME CInv, TInv', LoginsStay, NEW c \in Clients, Accept(c)
  PROVE  CInv'
<1> DEFINE l == Lowest(fdt)
<1>1. /\ cons[c] = Null /\ l \notin DOMAIN fdt
      /\ cons' = [cons EXCEPT ![c] = l]
      /\ DOMAIN fdt' = DOMAIN fdt \cup {l} /\ fdt'[l] = Con(c)
      /\ \A d \in DOMAIN fdt : fdt'[d] = fdt[d]
      /\ UNCHANGED <<dbt, obj, logins, files, rest, state>>
  BY LowestFree DEF Accept, Put
<1>2. Null \notin DOMAIN fdt /\ cons \in [Clients -> Fds \cup {Null}]
  BY NullAssumption DEF CInv, TInv, Targeted, Fds
<1> HIDE DEF l
<1>3. Accounted'
  <2>1. ASSUME NEW d \in DOMAIN fdt, NEW e \in Clients, cons[e] = d
        PROVE  cons'[e] = d
    BY <1>1, <1>2, <2>1
  <2>2. cons'[c] = l  BY <1>1, <1>2
  <2>3. QED  BY <1>1, <2>1, <2>2 DEF CInv, Accounted
<1>4. OpenOK'  BY <1>1 DEF CInv, OpenOK
<1>5. ClosingOK'  BY <1>1 DEF CInv, ClosingOK
<1>6. LoginsOK'
  <2>1. ASSUME NEW d, NEW a, Attended(a, d)
        PROVE  Attended(a, d)'
    <3>1. PICK n \in DOMAIN dbt :
            dbt[n] = a /\ (n \in rest.names => rest.cmd = "destroy_all" /\ cons[rest.by] = d)
      BY <2>1 DEF Attended
    <3>2. CASE n \notin rest.names  BY <1>1, <3>1, <3>2 DEF Attended
    <3>3. CASE n \in rest.names
      <4>1. rest # Idle  BY <3>3 DEF Idle
      <4>2. rest.by \in Clients /\ cons[rest.by] # Null
        BY <4>1 DEF CInv, ByOK, Connected, TInv, RestOK
      <4>3. cons'[rest.by] = cons[rest.by]  BY <1>1, <1>2, <4>2
      <4>4. QED  BY <1>1, <3>1, <4>3 DEF Attended
    <3>4. QED  BY <3>2, <3>3
  <2>2. QED  BY <1>1, <2>1, LoginHasClient DEF CInv, LoginsOK
<1>7. ByOK'  BY <1>1, ByStays
<1>8. QED  BY <1>1, <1>3, <1>4, <1>5, <1>6, <1>7 DEF CInv

\* A step that changes neither databases nor descriptors, and the logins only
\* where they stay in order.
LEMMA CQuiet ==
  ASSUME CInv, TInv', UNCHANGED <<dbt, obj, cons, files, rest, state>>,
         DOMAIN fdt' = DOMAIN fdt, \A d \in DOMAIN fdt : fdt'[d] = fdt[d],
         rest = Idle \/ DOMAIN logins' = DOMAIN logins,
         \A d \in DOMAIN logins' :
           /\ \E c \in Clients : cons[c] = d /\ Connected(c)
           /\ logins'[d] # Null => Attended(logins'[d], d)
  PROVE  CInv'
<1>0. \A c \in Clients : Connected(c) => Connected(c)'  BY DEF Connected
<1>1. Accounted'  BY DEF CInv, Accounted
<1>2. OpenOK'  BY DEF CInv, OpenOK
<1>3. ClosingOK'
  <2>1. CASE rest = Idle  BY <2>1 DEF ClosingOK, Idle
  <2>2. CASE DOMAIN logins' = DOMAIN logins  BY <2>2 DEF CInv, ClosingOK
  <2>3. QED  BY <2>1, <2>2
<1>4. LoginsOK'
  <2>1. \A d, a : Attended(a, d) => Attended(a, d)'  BY DEF Attended
  <2>2. QED  BY <1>0, <2>1 DEF LoginsOK
<1>5. ByOK'
  <2>1. CASE rest = Idle  BY <2>1 DEF ByOK
  <2>2. CASE DOMAIN logins' = DOMAIN logins /\ rest # Idle
    <3>1. rest.by \in Clients /\ Connected(rest.by) /\ LoggedIn(rest.by)
      BY <2>2 DEF CInv, ByOK, TInv, RestOK
    <3>2. QED  BY <1>0, <2>2, <3>1 DEF ByOK, LoggedIn
  <2>3. QED  BY <2>1, <2>2
<1>6. QED  BY <1>1, <1>2, <1>3, <1>4, <1>5 DEF CInv

\* Login, logout, switch, read and what is refused leave descriptors and objects alone.
LEMMA CEnter ==
  ASSUME CInv, TInv', NEW c \in Clients,
         \/ Login(c) \/ Logout(c) \/ Refuse(c) \/ Read(c)
         \/ \E n \in Names : Switch(c, n)
  PROVE  CInv'
<1>1. UNCHANGED <<dbt, obj, cons, fdt, files, rest, state>> /\ rest = Idle
  BY DEF Login, Logout, Refuse, Read, Switch, Serving
<1>2. CASE Login(c)
  <2>1. Connected(c)  BY <1>2 DEF Login
  <2>2. DOMAIN logins' = DOMAIN logins \cup {cons[c]} /\ logins'[cons[c]] = Null
        /\ \A d \in DOMAIN logins \ {cons[c]} : logins'[d] = logins[d]
    BY <1>2 DEF Login, Put
  <2>3. QED  BY <1>1, <2>1, <2>2, CQuiet DEF CInv, LoginsOK
<1>3. CASE Logout(c)
  <2>1. DOMAIN logins' \subseteq DOMAIN logins
        /\ \A d \in DOMAIN logins' : logins'[d] = logins[d]
    BY <1>3 DEF Logout, Without
  <2>2. QED  BY <1>1, <2>1, CQuiet DEF CInv, LoginsOK
<1>4. CASE Refuse(c) \/ Read(c)
  <2>1. UNCHANGED logins  BY <1>4 DEF Refuse, Read
  <2>2. QED  BY <1>1, <2>1, CQuiet DEF CInv, LoginsOK
<1>5. ASSUME NEW n \in Names, Switch(c, n) PROVE CInv'
  <2>1. /\ n \in DOMAIN dbt /\ rest = Idle /\ cons[c] \in DOMAIN logins
        /\ logins' = [logins EXCEPT ![cons[c]] = dbt[n]]
    BY <1>5 DEF Switch, Serving, LoggedIn, SetWdb
  <2>2. Attended(dbt[n], cons[c])  BY <2>1 DEF Attended, Idle
  <2>3. QED  BY <1>1, <2>1, <2>2, CQuiet DEF CInv, LoginsOK
<1>6. QED  BY <1>2, <1>3, <1>4, <1>5

\* A connection that ends gives up its own number.
LEMMA CDisconnect ==
  ASSUME CInv, TInv', LoginsStay, NEW c \in Clients, Disconnect(c)
  PROVE  CInv'
<1>1. /\ cons[c] # Null /\ cons[c] \in DOMAIN fdt /\ fdt[cons[c]] = Con(c)
      /\ fdt' = [fdt EXCEPT ![cons[c]] = HungUp]
      /\ DOMAIN logins' = DOMAIN logins \ {cons[c]}
      /\ \A d \in DOMAIN logins' : logins'[d] = logins[d]
      /\ rest = Idle /\ rest.names = {}
      /\ UNCHANGED <<dbt, obj, cons, files, rest, state>>
  BY DEF Disconnect, Serving, Connected, Without, Idle
<1>2. Accounted'  BY <1>1 DEF CInv, Accounted
<1>3. OpenOK'  BY <1>1, Kinds DEF CInv, OpenOK
<1>4. ClosingOK' /\ ByOK'  BY <1>1 DEF ClosingOK, ByOK
<1>5. LoginsOK'
  <2>1. \A d, a : Attended(a, d) => Attended(a, d)'  BY <1>1 DEF Attended
  <2>2. QED  BY <1>1, <2>1, LoginHasClient DEF CInv, LoginsOK
<1>6. QED  BY <1>1, <1>2, <1>3, <1>4, <1>5 DEF CInv

\* open of a listed database opens nothing.
LEMMA COpenListed ==
  ASSUME CInv, TInv', Settled, NEW c \in Clients, NEW n \in Names,
         Serving(c, "open"), LoggedIn(c), OpenListed(c, n)
  PROVE  CInv'
<1>1. /\ n \in DOMAIN dbt /\ rest = Idle /\ cons[c] \in DOMAIN logins
      /\ logins' = [logins EXCEPT ![cons[c]] = dbt[n]]
      /\ UNCHANGED <<dbt, obj, cons, files, rest, state>>
  BY DEF OpenListed, Serving, LoggedIn, SetWdb
<1>2. DOMAIN fdt' = DOMAIN fdt /\ \A d \in DOMAIN fdt : fdt'[d] = fdt[d]
  BY HarmlessCleanup DEF OpenListed, CInv, Settled
<1>3. Attended(dbt[n], cons[c])  BY <1>1 DEF Attended, Idle
<1>4. QED  BY <1>1, <1>2, <1>3, CQuiet DEF CInv, LoginsOK

\* open of another has a descriptor left, finds no lock on the file, and closes
\* nothing with its temporary object.
LEMMA COpenNew ==
  ASSUME CInv, TInv', LoginsStay, Settled, NEW c \in Clients, NEW n \in Names,
         Serving(c, "open"), LoggedIn(c), OpenNew(c, n)
  PROVE  CInv'
<1> DEFINE held == IF FileOf[n] \in DOMAIN files THEN files[FileOf[n]] ELSE Empty
<1>1. PICK a \in Addrs \ DOMAIN obj, l \in Fds \ DOMAIN fdt :
        /\ n \notin DOMAIN dbt
        /\ dbt' = Put(dbt, n, a)
        /\ logins' = SetWdb(c, a)
        /\ obj' = Put(obj, a, [name |-> n, fd |-> l, held |-> held])
        /\ DOMAIN fdt' = DOMAIN fdt \cup {l} /\ fdt'[l] = File(FileOf[n])
        /\ \A d \in DOMAIN fdt : fdt'[d] = fdt[d]
        /\ files' = Put(files, FileOf[n], held)
        /\ UNCHANGED <<cons, rest, state>>
  BY OpenNewDoes
<1> HIDE DEF held
<1>2. rest = Idle /\ rest.names = {} /\ cons[c] \in DOMAIN logins
  BY DEF Serving, LoggedIn, Idle
<1>3. /\ DOMAIN dbt' = DOMAIN dbt \cup {n} /\ dbt'[n] = a
      /\ \A m \in DOMAIN dbt : m # n /\ dbt'[m] = dbt[m]
  BY <1>1 DEF Put
<1>4. /\ obj'[a].name = n /\ obj'[a].fd = l /\ obj'[a].held = held
      /\ \A b \in DOMAIN obj : obj'[b] = obj[b]
  BY <1>1 DEF Put
<1>5. /\ DOMAIN files' = DOMAIN files \cup {FileOf[n]} /\ files'[FileOf[n]] = held
      /\ \A f \in DOMAIN files : f # FileOf[n] => files'[f] = files[f]
  BY <1>1 DEF Put
<1>6. ClosingOK' /\ ByOK'  BY <1>1, <1>2 DEF ClosingOK, ByOK
<1>7. \A m \in DOMAIN dbt : dbt[m] \in DOMAIN obj /\ FileOf[m] # FileOf[n]
  BY <1>1 DEF CInv, TInv, ObjectsOK, Settled, OwnFiles
<1>8. Accounted'
  <2>1. \A m \in DOMAIN dbt : obj'[dbt'[m]] = obj[dbt[m]]  BY <1>3, <1>4, <1>7
  <2>2. obj'[dbt'[n]].fd = l  BY <1>3, <1>4
  <2>3. ASSUME NEW d \in DOMAIN fdt'
        PROVE  \/ \E e \in Clients : cons[e] = d /\ fdt'[d] \in {Con(e), HungUp}
               \/ \E m \in DOMAIN dbt' : obj'[dbt'[m]].fd = d
    BY <1>1, <1>2, <1>3, <2>1, <2>2 DEF CInv, Accounted
  <2>4. QED  BY <1>1, <1>2, <2>3 DEF Accounted
<1>9. OpenOK'
  <2>1. ASSUME NEW m \in DOMAIN dbt
        PROVE  /\ obj'[dbt'[m]].name = m
               /\ FileOf[m] \in DOMAIN files' /\ obj'[dbt'[m]].held = files'[FileOf[m]]
               /\ obj'[dbt'[m]].fd \in DOMAIN fdt'
               /\ fdt'[obj'[dbt'[m]].fd] = File(FileOf[m])
    <3>1. obj'[dbt'[m]] = obj[dbt[m]]  BY <1>3, <1>4, <1>7
    <3>2. files'[FileOf[m]] = files[FileOf[m]]
      BY <1>2, <1>5, <1>7 DEF CInv, OpenOK
    <3>3. QED  BY <1>1, <1>2, <1>5, <3>1, <3>2 DEF CInv, OpenOK
  <2>2. /\ obj'[dbt'[n]].name = n
        /\ FileOf[n] \in DOMAIN files' /\ obj'[dbt'[n]].held = files'[FileOf[n]]
        /\ obj'[dbt'[n]].fd \in DOMAIN fdt'
        /\ fdt'[obj'[dbt'[n]].fd] = File(FileOf[n])
    BY <1>1, <1>3, <1>4, <1>5
  <2>3. QED  BY <1>1, <1>2, <1>3, <2>1, <2>2 DEF OpenOK
<1>10. LoginsOK'
  <2>2. \A d, b : Attended(b, d) => Attended(b, d)'
    BY <1>1, <1>2, <1>3 DEF Attended
  <2>3. \A d : Attended(a, d)'  BY <1>1, <1>2, <1>3 DEF Attended
  <2>4. DOMAIN logins' = DOMAIN logins
        /\ \A d \in DOMAIN logins : logins'[d] = logins[d] \/ logins'[d] = a
    BY <1>1 DEF SetWdb
  <2>5. QED  BY <1>1, <2>2, <2>3, <2>4, LoginHasClient DEF CInv, LoginsOK
<1>11. QED  BY <1>1, <1>6, <1>8, <1>9, <1>10 DEF CInv

\* Nobody else works on what c closes or destroys.
LEMMA Alone ==
  ASSUME CInv, rest = Idle, NEW c \in Clients, NEW N, NobodyElse(c, N),
         NEW d \in DOMAIN logins, d # cons[c], NEW n \in N
  PROVE  logins[d] = Null \/ logins[d] # dbt[n]
<1> SUFFICES ASSUME logins[d] # Null PROVE dbt[n] # logins[d]  OBVIOUS
<1>1. PICK e \in Clients : cons[e] = d /\ Connected(e)  BY DEF CInv, LoginsOK
<1>2. HasWdb(e) /\ Wdb(e) = logins[d] /\ e # c  BY <1>1 DEF HasWdb, LoggedIn, Wdb
<1>3. QED  BY <1>1, <1>2 DEF NobodyElse

\* Closing the databases N: their descriptors go, and nobody else's.
LEMMA CClose ==
  ASSUME CInv, TInv', LoginsStay, Settled, NEW c \in Clients,
         NEW N \in SUBSET DOMAIN dbt,
         rest = Idle, Connected(c), LoggedIn(c), NobodyElse(c, N), CloseObjects(N),
         rest'.names = N, rest'.cmd # "destroy_all", rest'.by = c,
         UNCHANGED <<dbt, cons, files, state>>,
         DOMAIN logins' = DOMAIN logins,
         \A d \in DOMAIN logins \ {cons[c]} : logins'[d] = logins[d],
         cons[c] \in DOMAIN logins =>
           \/ logins'[cons[c]] = Null
           \/ /\ logins'[cons[c]] = logins[cons[c]]
              /\ \A n \in N : dbt[n] # logins[cons[c]]
  PROVE  CInv'
<1>1. rest.names = {}  BY DEF Idle
<1>2. DOMAIN fdt' = DOMAIN fdt \ Numbers(N) /\ \A d \in DOMAIN fdt' : fdt'[d] = fdt[d]
  BY DEF CloseObjects, Cleanup, Without
<1>3. /\ DOMAIN obj' = DOMAIN obj
      /\ \A n \in DOMAIN dbt : /\ obj'[dbt[n]].name = obj[dbt[n]].name
                               /\ obj'[dbt[n]].fd = obj[dbt[n]].fd
                               /\ n \notin N => obj'[dbt[n]] = obj[dbt[n]]
  <2>1. ASSUME NEW n \in DOMAIN dbt
        PROVE  /\ obj'[dbt[n]].name = obj[dbt[n]].name
               /\ obj'[dbt[n]].fd = obj[dbt[n]].fd
               /\ n \notin N => obj'[dbt[n]] = obj[dbt[n]]
    <3>1. dbt[n] \in DOMAIN obj /\ obj[dbt[n]] \in Object  BY DEF CInv, TInv, ObjectsOK
    <3>2. obj'[dbt[n]] = IF \E m \in N : dbt[m] = dbt[n]
                         THEN [obj[dbt[n]] EXCEPT !.held = Empty] ELSE obj[dbt[n]]
      BY <3>1 DEF CloseObjects
    <3>3. (\E m \in N : dbt[m] = dbt[n]) <=> n \in N  BY DEF CInv, TInv, ObjectsOK
    <3>4. QED  BY <3>1, <3>2, <3>3 DEF Object
  <2>2. QED  BY <2>1 DEF CloseObjects
<1>4. \A d \in DOMAIN logins : d \notin Numbers(N)
  BY <1>1, OwnDescriptors DEF Numbers, CInv, LoginsOK, Settled
<1>5. \A n \in DOMAIN dbt \ N : obj[dbt[n]].fd \notin Numbers(N)
  BY <1>1, OwnDescriptors DEF Numbers, Settled
<1>6. ClosingOK'
  <2>1. \A n \in N : obj'[dbt'[n]].fd \in Numbers(N)  BY <1>3 DEF Numbers
  <2>2. QED  BY <1>3, <1>4, <1>5, <2>1 DEF ClosingOK
<1>7. Accounted'
  <2>1. ASSUME NEW d \in DOMAIN fdt'
        PROVE  \/ \E e \in Clients : cons[e] = d /\ fdt'[d] \in {Con(e), HungUp}
               \/ \E n \in DOMAIN dbt \ N : obj[dbt[n]].fd = d
    BY <1>1, <1>2 DEF CInv, Accounted, Numbers
  <2>2. QED  BY <1>3, <2>1 DEF Accounted
<1>8. OpenOK'
  <2>1. \A n \in DOMAIN dbt : obj'[dbt'[n]].name = n  BY <1>3 DEF CInv, OpenOK
  <2>2. ASSUME NEW n \in DOMAIN dbt \ N
        PROVE  /\ FileOf[n] \in DOMAIN files /\ obj'[dbt[n]].held = files[FileOf[n]]
               /\ obj'[dbt[n]].fd \in DOMAIN fdt'
               /\ fdt'[obj'[dbt[n]].fd] = File(FileOf[n])
    BY <1>1, <1>2, <1>3, <1>5 DEF CInv, OpenOK
  <2>3. QED  BY <2>1, <2>2 DEF OpenOK
<1>9. LoginsOK'
  <2>1. ASSUME NEW d \in DOMAIN logins, logins'[d] # Null
        PROVE  Attended(logins[d], d)'
    <3>1. logins'[d] = logins[d] /\ \A n \in N : dbt[n] # logins[d]
      BY <2>1, Alone
    <3>2. Attended(logins[d], d)  BY <2>1, <3>1 DEF CInv, LoginsOK
    <3>3. QED  BY <3>1, <3>2 DEF Attended
  <2>2. \A d \in DOMAIN logins : logins'[d] # Null => logins'[d] = logins[d]  BY Alone
  <2>3. QED  BY <2>1, <2>2, LoginHasClient DEF LoginsOK
<1>10. ByOK'
  <2>1. Stays(c)  BY DEF LoginsStay, LoggedIn
  <2>2. QED  BY <2>1 DEF ByOK, Stays, LoggedIn
<1>11. QED  BY <1>6, <1>7, <1>8, <1>9, <1>10 DEF CInv

\* close marks what nobody else works on as about to go.
LEMMA CCloseCommands ==
  ASSUME CInv, TInv', LoginsStay, Settled, NEW c \in Clients,
         CloseAll(c) \/ \E n \in Names : Close(c, n)
  PROVE  CInv'
<1>0. Connected(c) /\ LoggedIn(c) /\ rest'.by = c
  <2>1. Connected(c) /\ LoggedIn(c)  BY DEF CloseAll, Close, Serving, HasWdb
  <2>2. CASE CloseAll(c)  BY <2>1, <2>2 DEF CloseAll
  <2>3. ASSUME NEW n \in Names, Close(c, n) PROVE rest'.by = c
    BY <2>3 DEF Close
  <2>4. QED  BY <2>1, <2>2, <2>3
<1>1. CASE CloseAll(c)
  <2>1. /\ rest = Idle /\ NobodyElse(c, DOMAIN dbt) /\ CloseObjects(DOMAIN dbt)
        /\ rest'.names = DOMAIN dbt /\ rest'.cmd # "destroy_all"
        /\ UNCHANGED <<dbt, cons, files, state>>
        /\ logins' = [logins EXCEPT ![cons[c]] = Null]
    BY <1>1 DEF CloseAll, Serving, SetWdb, Settled, Considerate
  <2>2. /\ DOMAIN logins' = DOMAIN logins
        /\ \A d \in DOMAIN logins \ {cons[c]} : logins'[d] = logins[d]
        /\ cons[c] \in DOMAIN logins => logins'[cons[c]] = Null
    BY <2>1
  <2>3. QED  BY <1>0, <2>1, <2>2, CClose
<1>2. ASSUME NEW n \in Names, Close(c, n) PROVE CInv'
  <2>1. /\ rest = Idle /\ NobodyElse(c, {n}) /\ CloseObjects({n})
        /\ rest'.names = {n} /\ rest'.cmd # "destroy_all"
        /\ UNCHANGED <<dbt, cons, files, state>>
        /\ logins' = Forget(c, dbt[n]) /\ {n} \in SUBSET DOMAIN dbt
    BY <1>2 DEF Close, Serving, Settled, Considerate
  <2>2. /\ DOMAIN logins' = DOMAIN logins
        /\ \A d \in DOMAIN logins \ {cons[c]} : logins'[d] = logins[d]
        /\ cons[c] \in DOMAIN logins =>
             \/ logins'[cons[c]] = Null
             \/ /\ logins'[cons[c]] = logins[cons[c]]
                /\ \A m \in {n} : dbt[m] # logins[cons[c]]
    BY <2>1 DEF Forget, SetWdb, Wdb
  <2>3. QED  BY <1>0, <2>1, <2>2, CClose
<1>3. QED  BY <1>1, <1>2

\* What is dropped from the tables was closed and is nobody's.
LEMMA CDrop ==
  ASSUME CInv, TInv', LoginsStay, Drop
  PROVE  CInv'
<1>1. /\ DOMAIN fdt' = DOMAIN fdt \ Numbers(rest.names)
      /\ \A d \in DOMAIN fdt' : fdt'[d] = fdt[d]
  BY DEF Drop, Cleanup, Without
<1>2. /\ DOMAIN dbt' = DOMAIN dbt \ rest.names
      /\ \A n \in DOMAIN dbt' : dbt'[n] = dbt[n]
  BY DEF Drop, Without
<1>3. \A n \in DOMAIN dbt' : obj'[dbt[n]] = obj[dbt[n]]
  BY <1>2 DEF Drop, Without, CInv, TInv, ObjectsOK, RestOK
<1>4. UNCHANGED <<cons, files, state>> /\ rest' = Idle /\ rest'.names = {}
  BY DEF Drop, Idle
<1>5. \A n \in DOMAIN dbt' : obj[dbt[n]].fd \notin Numbers(rest.names)
  BY <1>2 DEF CInv, ClosingOK, Numbers
<1>6. Accounted'  BY <1>1, <1>2, <1>3, <1>4 DEF CInv, Accounted
<1>7. OpenOK'  BY <1>1, <1>2, <1>3, <1>4, <1>5 DEF CInv, OpenOK
<1>8. ClosingOK' /\ ByOK'  BY <1>4 DEF ClosingOK, ByOK
<1>9. LoginsOK'
  <2>1. DOMAIN logins' = DOMAIN logins
        /\ \A d \in DOMAIN logins :
             \/ logins'[d] = Null
             \/ /\ logins'[d] = logins[d]
                /\ ~(rest.cmd = "destroy_all" /\ cons[rest.by] = d)
    BY DEF Drop, SetWdb
  <2>2. ASSUME NEW d \in DOMAIN logins, logins'[d] # Null
        PROVE  Attended(logins[d], d)'
    <3>1. Attended(logins[d], d)  BY <2>1, <2>2 DEF CInv, LoginsOK
    <3>2. QED  BY <1>2, <1>4, <2>1, <2>2, <3>1 DEF Attended
  <2>3. QED  BY <2>1, <2>2, LoginHasClient DEF LoginsOK
<1>10. QED  BY <1>4, <1>6, <1>7, <1>8, <1>9 DEF CInv

\* A database that is not open is destroyed without touching the open ones.
LEMMA CDestroyClosed ==
  ASSUME CInv, TInv', LoginsStay, Settled, NEW c \in Clients, NEW n \in Names,
         DestroyClosed(c, n)
  PROVE  CInv'
<1>1. /\ n \notin DOMAIN dbt /\ rest = Idle
      /\ UNCHANGED <<dbt, obj, logins, cons, rest, state>>
      /\ DOMAIN files' = DOMAIN files \ {FileOf[n]}
      /\ \A f \in DOMAIN files' : files'[f] = files[f]
  BY DEF DestroyClosed, Serving, Without
<1>2. DOMAIN fdt' = DOMAIN fdt /\ \A d \in DOMAIN fdt : fdt'[d] = fdt[d]
  BY <1>1, NotHeld, UnlinkFacts DEF DestroyClosed, Settled
<1>3. \A m \in DOMAIN dbt : FileOf[m] # FileOf[n]
  BY <1>1 DEF CInv, TInv, ObjectsOK, Settled, OwnFiles
<1>4. Accounted'  BY <1>1, <1>2 DEF CInv, Accounted
<1>5. OpenOK'  BY <1>1, <1>2, <1>3 DEF CInv, OpenOK
<1>6. ClosingOK' /\ ByOK'  BY <1>1 DEF ClosingOK, ByOK, Idle
<1>7. LoginsOK'
  <2>1. \A d, a : Attended(a, d) => Attended(a, d)'  BY <1>1 DEF Attended
  <2>2. QED  BY <1>1, <2>1, LoginHasClient DEF CInv, LoginsOK
<1>8. QED  BY <1>1, <1>4, <1>5, <1>6, <1>7 DEF CInv

\* destroy_all takes everything from clients that agreed to it.
LEMMA CDestroyAll ==
  ASSUME CInv, TInv', LoginsStay, Settled, NEW c \in Clients, DestroyAll(c)
  PROVE  CInv'
<1> DEFINE table == Cleanup(fdt, Numbers(DOMAIN dbt))
           S == {FileOf[n] : n \in DOMAIN dbt}
<1>1. /\ NobodyElse(c, DOMAIN dbt) /\ rest = Idle /\ rest.names = {}
      /\ fdt' = Unlink(table, S)
      /\ rest'.names = DOMAIN dbt /\ rest'.cmd = "destroy_all" /\ rest'.by = c
      /\ UNCHANGED <<dbt, obj, logins, cons, state>>
  <2>1. /\ NobodyElse(c, DOMAIN dbt) /\ rest = Idle /\ fdt' = Unlink(table, S)
        /\ rest' = [cmd |-> "destroy_all", names |-> DOMAIN dbt, by |-> c]
        /\ UNCHANGED <<dbt, obj, logins, cons, state>>
    BY DestroyAllDoes
  <2> HIDE DEF table, S
  <2>2. QED  BY <2>1 DEF Idle
<1>2. DOMAIN table = DOMAIN fdt \ Numbers(DOMAIN dbt)
      /\ \A d \in DOMAIN table : table[d] = fdt[d]
  BY DEF Cleanup, Without
<1>3. \A d \in DOMAIN table :
        \E e \in Clients : cons[e] = d /\ table[d] \in {Con(e), HungUp}
  BY <1>1, <1>2 DEF CInv, Accounted, Numbers
<1>4. \A d \in DOMAIN table : \A f : table[d] # File(f)  BY <1>3, Kinds
<1> HIDE DEF table, S
<1>5. DOMAIN fdt' = DOMAIN table /\ \A d \in DOMAIN table : fdt'[d] = table[d]
  BY <1>1, <1>4, UnlinkFacts
<1>6. Accounted'  BY <1>1, <1>3, <1>5 DEF Accounted
<1>7. OpenOK'  BY <1>1 DEF CInv, OpenOK
<1>8. ClosingOK'
  <2>1. \A d \in DOMAIN logins : d \notin Numbers(DOMAIN dbt)
    BY <1>1, OwnDescriptors DEF Numbers, CInv, LoginsOK, Settled
  <2>2. QED  BY <1>1, <2>1 DEF ClosingOK, Numbers
<1>9. LoginsOK'
  <2>1. ASSUME NEW d \in DOMAIN logins, logins[d] # Null
        PROVE  Attended(logins[d], d)'
    <3>1. Attended(logins[d], d)  BY <2>1 DEF CInv, LoginsOK
    <3>2. d = cons[c]
      <4> SUFFICES ASSUME d # cons[c] PROVE FALSE  OBVIOUS
      <4>1. PICK n \in DOMAIN dbt : dbt[n] = logins[d]  BY <3>1 DEF Attended
      <4>2. QED  BY <1>1, <2>1, <4>1, Alone
    <3>3. QED  BY <1>1, <3>1, <3>2 DEF Attended
  <2>2. QED  BY <1>1, <2>1, LoginHasClient DEF LoginsOK
<1>10. ByOK'
  <2>1. Connected(c) /\ LoggedIn(c)  BY DEF DestroyAll, Serving, HasWdb
  <2>2. Stays(c)  BY <1>1, <2>1 DEF LoginsStay, LoggedIn
  <2>3. QED  BY <1>1, <2>1, <2>2 DEF ByOK, Stays, LoggedIn
<1>11. QED  BY <1>1, <1>6, <1>7, <1>8, <1>9, <1>10 DEF CInv

\* A client that works on a database works on one in the table.
LEMMA WorksOn ==
  ASSUME CInv, rest = Idle, NEW c \in Clients, HasWdb(c)
  PROVE  \E n \in DOMAIN dbt : dbt[n] = Wdb(c) /\ Wdb(c) \in DOMAIN obj
<1>1. Attended(Wdb(c), cons[c])  BY DEF CInv, LoginsOK, HasWdb, LoggedIn, Wdb
<1>2. QED  BY <1>1 DEF Attended, CInv, TInv, ObjectsOK

\* What a write comes to: it reaches the file of the working database.
LEMMA WriteDoes ==
  ASSUME CInv, NEW c \in Clients, NEW v \in Contents, Write(c, v)
  PROVE  \E n \in DOMAIN dbt :
           /\ rest = Idle /\ HasWdb(c) /\ Wdb(c) = dbt[n]
           /\ FileOf[n] \in DOMAIN files
           /\ obj' = [obj EXCEPT ![dbt[n]].held = v]
           /\ files' = Put(files, FileOf[n], v)
           /\ UNCHANGED <<dbt, logins, cons, fdt, rest, state>>
<1>1. rest = Idle /\ rest.names = {} /\ HasWdb(c)  BY DEF Write, Serving, Idle
<1>2. PICK n \in DOMAIN dbt : dbt[n] = Wdb(c)  BY <1>1, WorksOn
<1> DEFINE o == obj[dbt[n]]
<1>3. FileOf[n] \in DOMAIN files /\ o.fd \in DOMAIN fdt /\ fdt[o.fd] = File(FileOf[n])
  BY <1>1 DEF CInv, OpenOK
<1>4. File(FileOf[n]).kind = "file" /\ File(FileOf[n]).of = FileOf[n]  BY DEF File
<1>5. Stored(o, v) = Put(files, FileOf[n], v)  BY <1>3, <1>4 DEF Stored
<1>6. QED  BY <1>1, <1>2, <1>3, <1>5 DEF Write

\* A write goes to the file of the client's own working database.
LEMMA CWrite ==
  ASSUME CInv, TInv', LoginsStay, OwnFiles, NEW c \in Clients, NEW v \in Contents,
         Write(c, v)
  PROVE  CInv'
<1>1. PICK n \in DOMAIN dbt :
        /\ rest = Idle
        /\ FileOf[n] \in DOMAIN files
        /\ obj' = [obj EXCEPT ![dbt[n]].held = v]
        /\ files' = Put(files, FileOf[n], v)
        /\ UNCHANGED <<dbt, logins, cons, fdt, rest, state>>
  BY WriteDoes
<1>2. rest.names = {}  BY <1>1 DEF Idle
<1>3. /\ DOMAIN files' = DOMAIN files /\ files'[FileOf[n]] = v
      /\ \A f \in DOMAIN files : f # FileOf[n] => files'[f] = files[f]
  BY <1>1 DEF Put
<1>4. ASSUME NEW m \in DOMAIN dbt
      PROVE  /\ obj'[dbt[m]].name = obj[dbt[m]].name /\ obj'[dbt[m]].fd = obj[dbt[m]].fd
             /\ obj'[dbt[m]].held = IF m = n THEN v ELSE obj[dbt[m]].held
  <2>1. dbt[m] \in DOMAIN obj /\ obj[dbt[m]] \in Object  BY DEF CInv, TInv, ObjectsOK
  <2>2. dbt[m] = dbt[n] <=> m = n  BY DEF CInv, TInv, ObjectsOK
  <2>3. QED  BY <1>1, <2>1, <2>2 DEF Object
<1>5. ClosingOK' /\ ByOK'  BY <1>1, <1>2 DEF ClosingOK, ByOK
<1>6. Accounted'  BY <1>1, <1>4 DEF CInv, Accounted
<1>7. OpenOK'
  <2>1. \A m \in DOMAIN dbt : m # n => FileOf[m] # FileOf[n]
    BY DEF CInv, TInv, ObjectsOK, OwnFiles
  <2>2. QED  BY <1>1, <1>2, <1>3, <1>4, <2>1 DEF CInv, OpenOK
<1>8. LoginsOK'
  <2>1. \A d, a : Attended(a, d) => Attended(a, d)'  BY <1>1 DEF Attended
  <2>2. QED  BY <1>1, <2>1, LoginHasClient DEF CInv, LoginsOK
<1>9. QED  BY <1>1, <1>5, <1>6, <1>7, <1>8 DEF CInv

\* CInv is inductive for considerate clients.
LEMMA CStep ==
  ASSUME CInv, Settled, [Next]_vars
  PROVE  CInv'
<1>t. TInv' /\ LoginsStay /\ OwnFiles  BY TStep, LoginsDoStay DEF CInv, Settled
<1>1. ASSUME NEW c \in Clients, Accept(c) PROVE CInv'  BY <1>t, <1>1, CAccept
<1>2. ASSUME NEW c \in Clients, NEW n \in Names, Open(c, n) PROVE CInv'
  BY <1>t, <1>2, COpenListed, COpenNew DEF Open
<1>3. ASSUME NEW c \in Clients, NEW n \in Names, DestroyOpen(c, n) \/ SwitchLoggedOut(c, n)
      PROVE  FALSE
  BY <1>3 DEF DestroyOpen, SwitchLoggedOut, Serving, Settled, Considerate
<1>4. ASSUME NEW c \in Clients, UseFreed(c) PROVE FALSE
  <2>1. rest = Idle /\ HasWdb(c) /\ Wdb(c) \notin DOMAIN obj
    BY <1>4 DEF UseFreed, Serving
  <2>2. QED  BY <2>1, WorksOn DEF CInv
<1>5. ASSUME NEW c \in Clients, Command(c) PROVE CInv'
  BY <1>t, <1>2, <1>3, <1>4, <1>5, CEnter, CDisconnect, CCloseCommands, CDestroyClosed,
     CDestroyAll, CWrite DEF Command
<1>6. CASE Drop  BY <1>t, <1>6, CDrop
<1>7. CASE UNCHANGED vars
  <2>1. UNCHANGED <<dbt, obj, logins, cons, fdt, files, rest, state>>  BY <1>7 DEF vars
  <2>2. QED  BY <1>t, <2>1, CQuiet DEF CInv, LoginsOK
<1>8. QED  BY <1>1, <1>5, <1>6, <1>7 DEF Next

\* CInv holds of everything that can happen then.
LEMMA CInvariance == ASSUME Settled PROVE Spec => []CInv
<1>1. CInv /\ [Next]_vars => CInv'  BY CStep
<1>2. QED  BY <1>1, CInit, PTL DEF Spec

\* Of any number of considerate clients none that is logged in is cut off by
\* another's close or destroy, and no open database loses its file to one, with a
\* listener that takes descriptors at any time.
THEOREM DescriptorsKept ==
  ASSUME Considerate, OwnFiles, Enough, CleanMemory
  PROVE  Spec => []DescriptorsOwn
<1>1. CInv => DescriptorsOwn  BY CInvMeans
<1>2. Settled  BY DEF Settled
<1>3. QED  BY <1>1, <1>2, CInvariance, PTL

\* Nor is one that has yet to log in, unless it was accepted on the number of a
\* database while the command that closes the database was running.
THEOREM ConnectionsLast ==
  ASSUME Considerate, OwnFiles, Enough, CleanMemory
  PROVE  Spec => ConnectionsKept
<1> DEFINE P == \A c \in Clients :
                  Connected(c) /\ ~Connected(c)' =>
                    \/ Disconnect(c)
                    \/ rest # Idle /\ cons[c] \in Numbers(rest.names) /\ ~LoggedIn(c)
<1>s. Settled  BY DEF Settled
<1>1. CInv /\ [Next]_vars => CInv'  BY <1>s, CStep
<1>2. CInv /\ [Next]_vars => P  BY <1>s, ConnectionStays DEF Stays
<1>3. ConnectionsKept <=> [][P]_vars  BY PTL DEF ConnectionsKept
<1> HIDE DEF P
<1>4. QED  BY <1>1, <1>2, <1>3, CInit, PTL DEF Spec

\* None of them works on a database that is gone.
THEOREM WorkspacesAlive ==
  ASSUME Considerate, OwnFiles, Enough, CleanMemory
  PROVE  Spec => []WorkingDbAlive
<1>1. CInv => WorkingDbAlive  BY CInvMeans
<1>2. Settled  BY DEF Settled
<1>3. QED  BY <1>1, <1>2, CInvariance, PTL

\* The server neither dies of a command of theirs nor waits for its own lock.
THEOREM ServerStaysUp ==
  ASSUME Considerate, OwnFiles, Enough, CleanMemory
  PROVE  Spec => []StaysUp
<1>1. CInv => StaysUp  BY CInvMeans
<1>2. Settled  BY DEF Settled
<1>3. QED  BY <1>1, <1>2, CInvariance, PTL

\* After open the working database has a descriptor on the file of its name.
LEMMA OpenIsOpen ==
  ASSUME CInv, Settled, NEW c \in Clients, NEW n \in Names, Open(c, n)
  PROVE  LET o == obj'[logins'[cons[c]]]
         IN  o.fd \in DOMAIN fdt' /\ fdt'[o.fd] = File(FileOf[n])
<1>1. Serving(c, "open") /\ LoggedIn(c) /\ cons[c] \in DOMAIN logins /\ rest.names = {}
  BY DEF Open, Serving, LoggedIn, Idle
<1>2. CASE OpenListed(c, n)
  <2>1. n \in DOMAIN dbt /\ logins'[cons[c]] = dbt[n] /\ UNCHANGED obj
    BY <1>1, <1>2 DEF OpenListed, SetWdb
  <2>2. obj[dbt[n]].fd \in DOMAIN fdt /\ fdt[obj[dbt[n]].fd] = File(FileOf[n])
    BY <1>1, <2>1 DEF CInv, OpenOK
  <2>3. DOMAIN fdt' = DOMAIN fdt /\ \A d \in DOMAIN fdt : fdt'[d] = fdt[d]
    BY <1>2, HarmlessCleanup DEF OpenListed, CInv, Settled
  <2>4. QED  BY <2>1, <2>2, <2>3
<1>3. CASE OpenNew(c, n)
  <2> DEFINE held == IF FileOf[n] \in DOMAIN files THEN files[FileOf[n]] ELSE Empty
  <2>1. PICK a \in Addrs \ DOMAIN obj, l \in Fds \ DOMAIN fdt :
          /\ logins' = SetWdb(c, a)
          /\ obj' = Put(obj, a, [name |-> n, fd |-> l, held |-> held])
          /\ DOMAIN fdt' = DOMAIN fdt \cup {l} /\ fdt'[l] = File(FileOf[n])
    BY <1>1, <1>3, OpenNewDoes
  <2> HIDE DEF held
  <2>2. logins'[cons[c]] = a /\ obj'[a].fd = l  BY <1>1, <2>1 DEF SetWdb, Put
  <2>3. QED  BY <2>1, <2>2
<1>4. QED  BY <1>2, <1>3 DEF Open

\* What considerate clients open is open: the working database they are left with
\* has a descriptor on the file of the name they gave.
THEOREM OpenTellsTheTruth ==
  ASSUME Considerate, OwnFiles, Enough, CleanMemory
  PROVE  Spec => OpenMeansOpen
<1> DEFINE P == \A c \in Clients, n \in Names :
                  Open(c, n) /\ answer'.status = "Ok" =>
                    LET o == obj'[logins'[cons[c]]]
                    IN  o.fd \in DOMAIN fdt' /\ fdt'[o.fd] = File(FileOf[n])
<1>s. Settled  BY DEF Settled
<1>1. CInv /\ [Next]_vars => CInv'  BY <1>s, CStep
<1>2. CInv => P  BY <1>s, OpenIsOpen
<1>3. OpenMeansOpen <=> [][P]_vars  BY PTL DEF OpenMeansOpen
<1> HIDE DEF P
<1>4. QED  BY <1>1, <1>2, <1>3, CInit, PTL DEF Spec

-----------------------------------------------------------------------------
(* The interpreter implements Workspaces for any number of considerate     *)
(* clients and of databases.                                               *)

\* What Workspaces sees of the files and of the logins.
ContentOf(n) == IF FileOf[n] \in DOMAIN files THEN files[FileOf[n]] ELSE Empty

\* The mapping: a file that is not there is an empty database, and the working
\* database of a client is the name under which its object is listed.
WorkingOf(c) ==
  IF Connected(c) /\ HasWdb(c) /\ Wdb(c) \in DOMAIN obj THEN obj[Wdb(c)].name ELSE Null

ContentBar == [n \in Names |-> ContentOf(n)]
WorkingBar == [c \in Clients |-> WorkingOf(c)]

\* The mapping, spelled out over files and logins.
LEMMA Bars ==
  /\ ContentBar = [n \in Names |-> IF FileOf[n] \in DOMAIN files
                                   THEN files[FileOf[n]] ELSE Empty]
  /\ WorkingBar = [c \in Clients |->
                     IF Connected(c) /\ HasWdb(c) /\ Wdb(c) \in DOMAIN obj
                     THEN obj[Wdb(c)].name ELSE Null]
BY DEF ContentBar, WorkingBar, ContentOf, WorkingOf

\* The same of the next state.
LEMMA BarsPrimed ==
  /\ ContentBar' = [n \in Names |-> IF FileOf[n] \in DOMAIN files
                                    THEN files[FileOf[n]] ELSE Empty]'
  /\ WorkingBar' = [c \in Clients |->
                      IF Connected(c) /\ HasWdb(c) /\ Wdb(c) \in DOMAIN obj
                      THEN obj[Wdb(c)].name ELSE Null]'
BY DEF ContentBar, WorkingBar, ContentOf, WorkingOf

\* A client works on a database when it is connected and has one.
Works(c) == Connected(c) /\ HasWdb(c)

\* The database is in the table then.
WorkingIs ==
  \A c \in Clients :
    /\ Works(c) => \E n \in DOMAIN dbt : dbt[n] = Wdb(c) /\ WorkingOf(c) = n
    /\ ~Works(c) => WorkingOf(c) = Null

\* The object a client works on is listed under the name the mapping gives.
LEMMA Working == CInv => WorkingIs
<1> SUFFICES ASSUME CInv, NEW c \in Clients, Works(c)
             PROVE  \E n \in DOMAIN dbt : dbt[n] = Wdb(c) /\ WorkingOf(c) = n
  BY DEF WorkingIs, WorkingOf, Works
<1>1. cons[c] \in DOMAIN logins /\ logins[cons[c]] # Null /\ Wdb(c) = logins[cons[c]]
  BY DEF Works, HasWdb, LoggedIn, Wdb
<1>2. PICK n \in DOMAIN dbt : dbt[n] = Wdb(c)  BY <1>1 DEF CInv, LoginsOK, Attended
<1>3. Wdb(c) \in DOMAIN obj /\ obj[Wdb(c)].name = n
  BY <1>2 DEF CInv, OpenOK, TInv, ObjectsOK
<1>4. QED  BY <1>2, <1>3 DEF WorkingOf, Works

\* The same of the next state.
LEMMA WorkingPrimed == CInv' => WorkingIs'
BY Working, PTL

\* The rest of the mapping in terms of the logins and the table.
LEMMA SameContent ==
  ASSUME UNCHANGED files
  PROVE  UNCHANGED ContentBar
BY DEF ContentBar, ContentOf

\* Databases enter the table or leave it, and the others stay where they are.
SameTable ==
  /\ DOMAIN dbt \subseteq DOMAIN dbt' \/ DOMAIN dbt' \subseteq DOMAIN dbt
  /\ \A n \in DOMAIN dbt \cap DOMAIN dbt' : dbt'[n] = dbt[n]

\* A client whose login did not change works on what it worked on.
LEMMA SameWorking ==
  ASSUME CInv, CInv', LoginsStay, SameTable, NEW c \in Clients, cons'[c] = cons[c],
         cons[c] \in DOMAIN logins' <=> cons[c] \in DOMAIN logins,
         cons[c] \in DOMAIN logins => logins'[cons[c]] = logins[cons[c]]
  PROVE  WorkingOf(c)' = WorkingOf(c)
<1>1. HasWdb(c)' <=> HasWdb(c)  BY DEF HasWdb, LoggedIn, Wdb
<1>2. HasWdb(c) => Wdb(c)' = Wdb(c)  BY DEF HasWdb, LoggedIn, Wdb
<1>3. HasWdb(c) => (Connected(c)' <=> Connected(c))
  <2> SUFFICES ASSUME HasWdb(c) PROVE Connected(c)' <=> Connected(c)  OBVIOUS
  <2>1. cons[c] \in DOMAIN logins /\ cons[c] \in DOMAIN logins'
    BY DEF HasWdb, LoggedIn
  <2>2. PICK e \in Clients : cons[e] = cons[c] /\ Connected(e)
    BY <2>1 DEF CInv, LoginsOK
  <2>3. cons'[e] = cons[e] /\ Connected(e)'
    BY <2>1, <2>2 DEF LoginsStay, LoggedIn, Stays
  <2>4. ASSUME Connected(c) PROVE c = e  BY <2>2, <2>4, Connections
  <2>5. ASSUME Connected(c)' PROVE c = e
    <3>1. fdt'[cons'[c]] = Con(c) /\ fdt'[cons'[e]] = Con(e)
      BY <2>3, <2>5 DEF Connected
    <3>2. QED  BY <2>2, <2>3, <3>1, Kinds
  <2>6. QED  BY <2>2, <2>3, <2>4, <2>5
<1>4. Works(c)' <=> Works(c)  BY <1>1, <1>3 DEF Works
<1>5. CASE Works(c)
  <2>1. PICK n \in DOMAIN dbt : dbt[n] = Wdb(c) /\ WorkingOf(c) = n
    BY <1>5, Working DEF WorkingIs
  <2>2. PICK m \in DOMAIN dbt' : dbt'[m] = Wdb(c)' /\ WorkingOf(c)' = m
    BY <1>4, <1>5, WorkingPrimed DEF WorkingIs
  <2>3. dbt[n] = dbt'[m]  BY <1>2, <1>5, <2>1, <2>2 DEF Works
  <2>4. n = m  BY <2>3 DEF SameTable, CInv, TInv, ObjectsOK
  <2>5. QED  BY <2>1, <2>2, <2>4
<1>6. CASE ~Works(c)
  BY <1>4, <1>6, Working, WorkingPrimed DEF WorkingIs
<1>7. QED  BY <1>5, <1>6

\* All clients do, when all logins stay.
LEMMA SameWorkspaces ==
  ASSUME CInv, CInv', LoginsStay, SameTable, UNCHANGED <<cons, logins>>
  PROVE  UNCHANGED WorkingBar
<1>1. \A c \in Clients : WorkingOf(c)' = WorkingOf(c)  BY SameWorking
<1>2. QED  BY <1>1 DEF WorkingBar

\* A client that is connected is the only one its login is for: others that had
\* the number before are not connected.
LEMMA OthersIdle ==
  ASSUME CInv, CInv', NEW c \in Clients, NEW d \in Clients \ {c}, UNCHANGED cons,
         Connected(c), Connected(c)', cons[d] = cons[c]
  PROVE  WorkingOf(d) = Null /\ WorkingOf(d)' = Null
<1>1. ~Connected(d)  BY Connections
<1>2. ~Connected(d)'
  <2> SUFFICES ASSUME Connected(d)' PROVE FALSE  OBVIOUS
  <2>1. fdt'[cons'[c]] = Con(c) /\ fdt'[cons'[d]] = Con(d)  BY DEF Connected
  <2>2. QED  BY <2>1, Kinds
<1>3. QED  BY <1>1, <1>2 DEF WorkingOf

\* One client's login changes, and the others work on what they worked on.
LEMMA OthersWork ==
  ASSUME CInv, CInv', LoginsStay, SameTable, NEW c \in Clients, UNCHANGED cons,
         Connected(c), Connected(c)' \/ cons[c] \notin DOMAIN logins',
         DOMAIN logins' \ {cons[c]} = DOMAIN logins \ {cons[c]},
         \A d \in DOMAIN logins \ {cons[c]} : logins'[d] = logins[d],
         NEW d \in Clients \ {c}
  PROVE  WorkingOf(d)' = WorkingOf(d)
<1>1. CASE cons[d] # cons[c]  BY <1>1, SameWorking
<1>2. CASE cons[d] = cons[c]
  <2>1. CASE Connected(c)'  BY <1>2, <2>1, OthersIdle
  <2>2. CASE cons[c] \notin DOMAIN logins'
    <3>1. ~Connected(d)  BY <1>2, Connections
    <3>2. ~HasWdb(d)'  BY <1>2, <2>2 DEF HasWdb, LoggedIn
    <3>3. QED  BY <3>1, <3>2 DEF WorkingOf
  <2>3. QED  BY <2>1, <2>2
<1>3. QED  BY <1>1, <1>2

\* It works on n from now on,
LEMMA NowWorks ==
  ASSUME CInv, CInv', LoginsStay, UNCHANGED cons, NEW c \in Clients, Connected(c),
         NEW n \in DOMAIN dbt',
         logins' = SetWdb(c, dbt'[n]), cons[c] \in DOMAIN logins,
         \A m \in DOMAIN dbt : m \in DOMAIN dbt' /\ dbt'[m] = dbt[m]
  PROVE  WorkingBar' = [WorkingBar EXCEPT ![c] = n]
<1>0. cons[c] \in DOMAIN logins' /\ Connected(c)'
  BY DEF SetWdb, LoginsStay, LoggedIn, Stays
<1>1. WorkingOf(c)' = n
  <2>1. dbt'[n] # Null  BY NullAssumption DEF CInv, TInv, ObjectsOK
  <2>2. Works(c)' /\ Wdb(c)' = dbt'[n]
    BY <1>0, <2>1 DEF Works, HasWdb, LoggedIn, Wdb, SetWdb
  <2>3. \A k, m \in DOMAIN dbt' : dbt'[k] = dbt'[m] => k = m
    BY DEF CInv, TInv, ObjectsOK
  <2>4. QED  BY <2>2, <2>3, WorkingPrimed DEF WorkingIs
<1>2. SameTable  BY DEF SameTable
<1>3. \A d \in Clients \ {c} : WorkingOf(d)' = WorkingOf(d)
  BY <1>0, <1>2, OthersWork DEF SetWdb
<1>4. QED  BY <1>1, <1>3 DEF WorkingBar

\* or on nothing any more.
LEMMA NowIdle ==
  ASSUME CInv, CInv', LoginsStay, SameTable, UNCHANGED cons, NEW c \in Clients,
         Connected(c), Connected(c)' \/ cons[c] \notin DOMAIN logins', ~HasWdb(c)',
         DOMAIN logins' \ {cons[c]} = DOMAIN logins \ {cons[c]},
         \A d \in DOMAIN logins \ {cons[c]} : logins'[d] = logins[d]
  PROVE  WorkingBar' = [WorkingBar EXCEPT ![c] = Null]
<1>1. WorkingOf(c)' = Null  BY DEF WorkingOf
<1>2. ASSUME NEW d \in Clients \ {c} PROVE WorkingOf(d)' = WorkingOf(d)
  BY OthersWork
<1>3. QED  BY <1>1, <1>2 DEF WorkingBar

\* An interpreter that has just started is a Workspaces that has.
LEMMA InitMaps ==
  ASSUME Init
  PROVE  WS!Init
<1>1. CInv /\ \A c \in Clients : ~HasWdb(c)
  BY CInit DEF Init, HasWdb, LoggedIn
<1>2. WorkingBar = [c \in Clients |-> Null]
  BY <1>1 DEF WorkingOf, WorkingBar
<1>3. ContentBar = [n \in Names |-> Empty]  BY DEF Init, ContentBar, ContentOf
<1>4. ContentBar \in [Names -> Contents]  BY <1>3, ContentsAssumption
<1>5. answer = WS!Answer(Null, "none", "Ok", Empty)  BY DEF Init, Answer, WS!Answer
<1>6. QED  BY <1>2, <1>4, <1>5, Bars DEF WS!Init

\* Workspaces does not see a connection being accepted.
LEMMA AcceptMaps ==
  ASSUME CInv, CInv', LoginsStay, NEW c \in Clients, Accept(c)
  PROVE  UNCHANGED WS!vars
<1>1. /\ cons[c] = Null /\ cons' = [cons EXCEPT ![c] = Lowest(fdt)]
      /\ Lowest(fdt) \notin DOMAIN fdt
      /\ UNCHANGED <<dbt, logins, files, answer>>
  BY LowestFree DEF Accept
<1>2. WorkingOf(c) = Null /\ WorkingOf(c)' = Null
  <2>1. \A d \in DOMAIN logins : d \in DOMAIN fdt  BY DEF CInv, LoginsOK, Connected
  <2>2. cons'[c] = Lowest(fdt)  BY <1>1 DEF CInv, TInv
  <2>3. ~Connected(c) /\ ~HasWdb(c)'
    BY <1>1, <2>1, <2>2 DEF Connected, HasWdb, LoggedIn
  <2>4. QED  BY <2>3 DEF WorkingOf
<1>3. SameTable  BY <1>1 DEF SameTable
<1>4. ASSUME NEW d \in Clients \ {c} PROVE WorkingOf(d)' = WorkingOf(d)
  BY <1>1, <1>3, SameWorking
<1>5. UNCHANGED WorkingBar  BY <1>2, <1>4 DEF WorkingBar
<1>6. UNCHANGED ContentBar  BY <1>1, SameContent
<1>7. QED  BY <1>1, <1>5, <1>6, Bars, BarsPrimed DEF WS!vars

\* A login or a refusal changes nothing but the answer.
LEMMA LoginMaps ==
  ASSUME CInv, CInv', LoginsStay, NEW c \in Clients, Login(c) \/ Refuse(c)
  PROVE  WS!Acknowledge(c)
<1>1. UNCHANGED <<dbt, cons, fdt, files>>  BY DEF Login, Refuse
<1>2. answer'.to = c /\ (answer'.status = "Ok" => answer'.cmd = "login")
  BY DEF Login, Refuse, Answer
<1>s. SameTable  BY <1>1 DEF SameTable
<1>3. UNCHANGED WorkingBar
  <2>1. CASE Refuse(c)  BY <1>1, <1>s, <2>1, SameWorkspaces DEF Refuse
  <2>2. CASE Login(c)
    <3>1. ~HasWdb(c) /\ ~HasWdb(c)'
      BY <2>2 DEF Login, HasWdb, LoggedIn, Wdb, Put
    <3>2. WorkingOf(c)' = WorkingOf(c)  BY <3>1 DEF WorkingOf
    <3>3. Connected(c) /\ Connected(c)'  BY <1>1, <2>2 DEF Login, Connected
    <3>4. \A d \in Clients \ {c} : WorkingOf(d)' = WorkingOf(d)
      BY <1>1, <1>s, <2>2, <3>3, OthersWork DEF Login, Put
    <3>5. QED  BY <3>2, <3>4 DEF WorkingBar
  <2>3. QED  BY <2>1, <2>2
<1>4. UNCHANGED ContentBar  BY <1>1, SameContent
<1>5. QED  BY <1>2, <1>3, <1>4, Bars, BarsPrimed DEF WS!Acknowledge

\* A logout or a connection that ends takes the working database.
LEMMA LeaveMaps ==
  ASSUME CInv, CInv', LoginsStay, NEW c \in Clients, Logout(c) \/ Disconnect(c)
  PROVE  WS!Leave(c)
<1>1. /\ UNCHANGED <<dbt, cons, files>> /\ logins' = Without(logins, {cons[c]})
      /\ Connected(c)
      /\ \/ answer' = answer
         \/ answer'.to = c /\ answer'.cmd = "logout"
  BY DEF Logout, Disconnect, Answer, Serving
<1>2. cons[c] \notin DOMAIN logins' /\ ~HasWdb(c)'
  BY <1>1 DEF HasWdb, LoggedIn, Without
<1>3. /\ DOMAIN logins' \ {cons[c]} = DOMAIN logins \ {cons[c]}
      /\ \A d \in DOMAIN logins \ {cons[c]} : logins'[d] = logins[d]
  BY <1>1 DEF Without
<1>s. SameTable  BY <1>1 DEF SameTable
<1>4. WorkingBar' = [WorkingBar EXCEPT ![c] = Null]
  BY <1>1, <1>2, <1>3, <1>s, NowIdle
<1>5. UNCHANGED ContentBar  BY <1>1, SameContent
<1>6. QED  BY <1>1, <1>4, <1>5, Bars, BarsPrimed DEF WS!Leave

\* switch chooses a database,
LEMMA SwitchMaps ==
  ASSUME CInv, CInv', LoginsStay, NEW c \in Clients, NEW n \in Names, Switch(c, n)
  PROVE  WS!Choose(c, n)
<1>1. /\ n \in DOMAIN dbt /\ cons[c] \in DOMAIN logins /\ Connected(c)
      /\ UNCHANGED <<dbt, cons, files>> /\ logins' = SetWdb(c, dbt[n])
      /\ answer'.to = c /\ answer'.cmd = "switch" /\ answer'.status = "Ok"
  BY DEF Switch, Serving, LoggedIn, Answer
<1>2. WorkingBar' = [WorkingBar EXCEPT ![c] = n]  BY <1>1, NowWorks
<1>3. UNCHANGED ContentBar  BY <1>1, SameContent
<1>4. QED  BY <1>1, <1>2, <1>3, Bars, BarsPrimed DEF WS!Choose

\* and so does open, listed or not.
LEMMA OpenMaps ==
  ASSUME CInv, CInv', LoginsStay, Settled, NEW c \in Clients, NEW n \in Names,
         Open(c, n)
  PROVE  WS!Choose(c, n)
<1>1. Serving(c, "open") /\ LoggedIn(c) /\ cons[c] \in DOMAIN logins /\ Connected(c)
  BY DEF Open, LoggedIn, Serving
<1>2. CASE OpenListed(c, n)
  <2>1. /\ n \in DOMAIN dbt /\ UNCHANGED <<dbt, cons, files>>
        /\ logins' = SetWdb(c, dbt[n])
        /\ answer'.to = c /\ answer'.cmd = "open" /\ answer'.status = "Ok"
    BY <1>2 DEF OpenListed, Answer
  <2>2. WorkingBar' = [WorkingBar EXCEPT ![c] = n]  BY <1>1, <2>1, NowWorks
  <2>3. UNCHANGED ContentBar  BY <2>1, SameContent
  <2>4. QED  BY <2>1, <2>2, <2>3, Bars, BarsPrimed DEF WS!Choose
<1>3. CASE OpenNew(c, n)
  <2> DEFINE held == IF FileOf[n] \in DOMAIN files THEN files[FileOf[n]] ELSE Empty
  <2>1. PICK a \in Addrs \ DOMAIN obj, l \in Fds \ DOMAIN fdt :
          /\ n \notin DOMAIN dbt
          /\ dbt' = Put(dbt, n, a) /\ logins' = SetWdb(c, a)
          /\ files' = Put(files, FileOf[n], held)
          /\ answer' = Answer(c, "open", "Ok", Empty)
          /\ UNCHANGED cons
    BY <1>1, <1>3, OpenNewDoes
  <2>2. n \in DOMAIN dbt' /\ dbt'[n] = a
        /\ \A m \in DOMAIN dbt : m \in DOMAIN dbt' /\ dbt'[m] = dbt[m]
    BY <2>1 DEF Put
  <2>3. WorkingBar' = [WorkingBar EXCEPT ![c] = n]  BY <1>1, <2>1, <2>2, NowWorks
  <2>4. \A m \in Names : ContentOf(m)' = ContentOf(m)
    <3>1. ContentOf(n) = held  BY DEF ContentOf
    <3> HIDE DEF held
    <3>2. ASSUME NEW m \in Names, FileOf[m] = FileOf[n]
          PROVE  ContentOf(m)' = held /\ ContentOf(m) = held
      BY <2>1, <3>1, <3>2 DEF ContentOf, Put
    <3>3. ASSUME NEW m \in Names, FileOf[m] # FileOf[n]
          PROVE  ContentOf(m)' = ContentOf(m)
      BY <2>1, <3>3 DEF ContentOf, Put
    <3>4. QED  BY <3>2, <3>3
  <2>5. UNCHANGED ContentBar  BY <2>4 DEF ContentBar
  <2>6. answer'.to = c /\ answer'.cmd = "open" /\ answer'.status = "Ok"
    BY <2>1 DEF Answer
  <2>7. QED  BY <2>3, <2>5, <2>6, Bars, BarsPrimed DEF WS!Choose
<1>4. QED  BY <1>2, <1>3 DEF Open

\* A close is over for its client when it begins, or not seen by it at all.
LEMMA CloseMaps ==
  ASSUME CInv, CInv', LoginsStay, NEW c \in Clients,
         CloseAll(c) \/ \E n \in Names : Close(c, n)
  PROVE  WS!Leave(c) \/ UNCHANGED WS!vars
<1>1. /\ UNCHANGED <<dbt, cons, files, answer>> /\ cons[c] \in DOMAIN logins
      /\ Connected(c)
      /\ (logins' = logins \/ logins' = SetWdb(c, Null))
  BY DEF CloseAll, Close, Serving, HasWdb, LoggedIn, Forget
<1>2. UNCHANGED ContentBar  BY <1>1, SameContent
<1>s. SameTable  BY <1>1 DEF SameTable
<1>3. CASE logins' = logins
  BY <1>1, <1>2, <1>3, <1>s, SameWorkspaces, Bars, BarsPrimed DEF WS!vars
<1>4. CASE logins' = SetWdb(c, Null)
  <2>1. ~HasWdb(c)'  BY <1>1, <1>4 DEF HasWdb, LoggedIn, Wdb, SetWdb
  <2>2. /\ DOMAIN logins' = DOMAIN logins
        /\ \A d \in DOMAIN logins \ {cons[c]} : logins'[d] = logins[d]
    BY <1>4 DEF SetWdb
  <2>3. Connected(c)'  BY <1>1, <2>2 DEF LoginsStay, LoggedIn, Stays
  <2>4. WorkingBar' = [WorkingBar EXCEPT ![c] = Null]
    BY <1>1, <1>s, <2>1, <2>2, <2>3, NowIdle
  <2>5. QED  BY <1>1, <1>2, <2>4, Bars, BarsPrimed DEF WS!Leave
<1>5. QED  BY <1>1, <1>3, <1>4

\* The end of a close is answered and not seen by anybody else; that of
\* destroy_all takes the working database from its client.
LEMMA DropMaps ==
  ASSUME CInv, CInv', LoginsStay, Drop
  PROVE  rest.by \in Clients /\ (WS!Acknowledge(rest.by) \/ WS!Leave(rest.by))
<1>r. /\ rest.by \in Clients /\ rest.cmd \in {"close", "close_all", "destroy_all"}
      /\ Connected(rest.by) /\ LoggedIn(rest.by)
  BY DEF Drop, CInv, TInv, RestOK, ByOK
<1>1. PICK by \in Clients : by = rest.by  BY <1>r
<1>2. /\ UNCHANGED <<cons, files>>
      /\ answer' = Answer(by, rest.cmd, "Ok", Empty)
      /\ \A n \in DOMAIN dbt' : n \in DOMAIN dbt /\ dbt'[n] = dbt[n]
      /\ logins' = IF rest.cmd = "destroy_all" THEN SetWdb(by, Null) ELSE logins
  BY <1>1 DEF Drop, Without
<1>3. answer'.to = by /\ answer'.cmd = rest.cmd  BY <1>2 DEF Answer
<1>4. UNCHANGED ContentBar  BY <1>2, SameContent
<1>s. SameTable  BY <1>2 DEF SameTable
<1>5. CASE rest.cmd # "destroy_all"
  <2>1. UNCHANGED WorkingBar  BY <1>2, <1>5, <1>s, SameWorkspaces
  <2>2. WS!Acknowledge(by)
    BY <1>r, <1>3, <1>4, <1>5, <2>1, Bars, BarsPrimed DEF WS!Acknowledge
  <2>3. QED  BY <1>1, <2>2
<1>6. CASE rest.cmd = "destroy_all"
  <2>1. ~HasWdb(by)'  BY <1>2, <1>6 DEF HasWdb, LoggedIn, Wdb, SetWdb
  <2>2. /\ DOMAIN logins' = DOMAIN logins
        /\ \A d \in DOMAIN logins \ {cons[by]} : logins'[d] = logins[d]
    BY <1>2, <1>6 DEF SetWdb
  <2>3. Connected(by) /\ Connected(by)'
    BY <1>r, <1>1, <2>2 DEF LoginsStay, LoggedIn, Stays
  <2>4. WorkingBar' = [WorkingBar EXCEPT ![by] = Null]
    BY <1>2, <1>s, <2>1, <2>2, <2>3, NowIdle
  <2>5. WS!Leave(by)
    BY <1>3, <1>4, <1>6, <2>4, Bars, BarsPrimed DEF WS!Leave
  <2>6. QED  BY <1>1, <2>5
<1>7. QED  BY <1>5, <1>6

\* Destroying empties databases and takes them from their clients.
LEMMA DestroyMaps ==
  ASSUME CInv, CInv', LoginsStay, Settled, NEW c \in Clients,
         DestroyAll(c) \/ \E n \in Names : DestroyClosed(c, n)
  PROVE  WS!Destroy(c)
<1>1. PICK N \in SUBSET Names :
        /\ files' = Without(files, {FileOf[n] : n \in N})
        /\ UNCHANGED <<dbt, logins, cons>>
        /\ answer' = answer \/ (answer'.to = c /\ answer'.cmd = "destroy")
  <2>1. CASE DestroyAll(c)
    <3>1. DOMAIN dbt \in SUBSET Names  BY DEF CInv, TInv, ObjectsOK
    <3>2. /\ files' = Without(files, {FileOf[n] : n \in DOMAIN dbt})
          /\ UNCHANGED <<dbt, logins, cons, answer>>
      BY <2>1, DestroyAllDoes
    <3>3. QED  BY <3>1, <3>2
  <2>2. ASSUME NEW n \in Names, DestroyClosed(c, n)
        PROVE  \E N \in SUBSET Names :
                 /\ files' = Without(files, {FileOf[m] : m \in N})
                 /\ UNCHANGED <<dbt, logins, cons>>
                 /\ answer' = answer \/ (answer'.to = c /\ answer'.cmd = "destroy")
    <3>1. {FileOf[m] : m \in {n}} = {FileOf[n]}  OBVIOUS
    <3>2. files' = Without(files, {FileOf[m] : m \in {n}})
      BY <2>2, <3>1 DEF DestroyClosed
    <3>3. /\ UNCHANGED <<dbt, logins, cons>>
          /\ answer'.to = c /\ answer'.cmd = "destroy"
      BY <2>2 DEF DestroyClosed, Answer
    <3>4. {n} \in SUBSET Names  OBVIOUS
    <3>5. QED  BY <3>2, <3>3, <3>4
  <2>3. QED  BY <2>1, <2>2
<1>2. \A n \in Names : ContentOf(n)' = IF n \in N THEN Empty ELSE ContentOf(n)
  <2>1. \A n \in Names : FileOf[n] \in {FileOf[m] : m \in N} <=> n \in N
    BY DEF Settled, OwnFiles
  <2>2. QED  BY <1>1, <2>1 DEF ContentOf, Without
<1>3. ContentBar' = [n \in Names |-> IF n \in N THEN Empty ELSE ContentBar[n]]
  BY <1>2 DEF ContentBar
<1>4. UNCHANGED WorkingBar  BY <1>1, SameWorkspaces DEF SameTable
<1>5. QED  BY <1>1, <1>3, <1>4, Bars, BarsPrimed DEF WS!Destroy

\* A write changes the database the client chose and no other.
LEMMA WriteMaps ==
  ASSUME CInv, CInv', LoginsStay, OwnFiles, NEW c \in Clients, NEW v \in Contents,
         Write(c, v)
  PROVE  WS!Write(c, v)
<1>1. PICK n \in DOMAIN dbt :
        /\ rest = Idle /\ HasWdb(c) /\ Wdb(c) = dbt[n]
        /\ files' = Put(files, FileOf[n], v)
        /\ UNCHANGED <<dbt, logins, cons>>
  BY WriteDoes
<1>2. WorkingOf(c) = n /\ n \in Names
  <2>1. Works(c)  BY <1>1 DEF Write, Serving, Works
  <2>2. QED  BY <1>1, <2>1, Working DEF WorkingIs, CInv, TInv, ObjectsOK
<1>3. n # Null  BY <1>2, NullAssumption
<1>4. \A m \in Names : ContentOf(m)' = IF m = n THEN v ELSE ContentOf(m)
  <2>1. \A m \in Names : FileOf[m] = FileOf[n] <=> m = n  BY <1>2 DEF OwnFiles
  <2>2. QED  BY <1>1, <2>1 DEF ContentOf, Put
<1>5. WorkingBar[c] = n  BY <1>2 DEF WorkingBar
<1>6. ContentBar' = [ContentBar EXCEPT ![WorkingBar[c]] = v]
  BY <1>2, <1>4, <1>5 DEF ContentBar
<1>7. UNCHANGED WorkingBar  BY <1>1, SameWorkspaces DEF SameTable
<1>8. answer' = WS!Answer(c, "write", "Ok", Empty)  BY DEF Write, Answer, WS!Answer
<1>9. QED  BY <1>3, <1>5, <1>6, <1>7, <1>8, Bars, BarsPrimed DEF WS!Write

\* A read answers what the database the client chose holds.
LEMMA ReadMaps ==
  ASSUME CInv, CInv', LoginsStay, NEW c \in Clients, Read(c)
  PROVE  WS!Read(c)
<1>1. rest.names = {} /\ Works(c) /\ UNCHANGED <<dbt, logins, cons, files>>
  BY DEF Read, Serving, Idle, Works
<1>2. PICK n \in DOMAIN dbt : dbt[n] = Wdb(c) /\ WorkingOf(c) = n
  BY <1>1, Working DEF WorkingIs
<1>3. n \in Names /\ n # Null  BY NullAssumption DEF CInv, TInv, ObjectsOK
<1>4. obj[Wdb(c)].held = ContentOf(n)  BY <1>1, <1>2 DEF CInv, OpenOK, ContentOf
<1>5. WorkingBar[c] = n /\ ContentBar[n] = ContentOf(n)
  BY <1>2, <1>3 DEF WorkingBar, ContentBar
<1>6. answer' = WS!Answer(c, "read", "Ok", ContentBar[WorkingBar[c]])
  BY <1>4, <1>5 DEF Read, Answer, WS!Answer
<1>7. UNCHANGED WorkingBar /\ UNCHANGED ContentBar
  BY <1>1, SameWorkspaces, SameContent DEF SameTable
<1>8. QED  BY <1>3, <1>5, <1>6, <1>7, Bars, BarsPrimed DEF WS!Read

\* Every step of the interpreter is a step of Workspaces or none.
LEMMA NextMaps ==
  ASSUME CInv, Settled, [Next]_vars
  PROVE  [WS!Next]_(WS!vars)
<1>t. CInv' /\ LoginsStay /\ OwnFiles  BY CStep, LoginsDoStay DEF Settled
<1>1. ASSUME NEW c \in Clients, Accept(c) PROVE UNCHANGED WS!vars
  BY <1>t, <1>1, AcceptMaps
<1>2. ASSUME NEW c \in Clients, NEW n \in Names, Open(c, n) \/ Switch(c, n)
      PROVE  WS!Next
  BY <1>t, <1>2, OpenMaps, SwitchMaps DEF WS!Next
<1>3. ASSUME NEW c \in Clients, NEW n \in Names, DestroyOpen(c, n) \/ SwitchLoggedOut(c, n)
      PROVE  FALSE
  BY <1>3 DEF DestroyOpen, SwitchLoggedOut, Serving, Settled, Considerate
<1>4. ASSUME NEW c \in Clients, UseFreed(c) PROVE FALSE
  <2>1. rest = Idle /\ HasWdb(c) /\ Wdb(c) \notin DOMAIN obj
    BY <1>4 DEF UseFreed, Serving
  <2>2. QED  BY <2>1, WorksOn
<1>5. ASSUME NEW c \in Clients, NEW v \in Contents, Write(c, v) PROVE WS!Next
  BY <1>t, <1>5, WriteMaps DEF WS!Next
<1>6. ASSUME NEW c \in Clients,
             \/ Login(c) \/ Refuse(c) \/ Logout(c) \/ Disconnect(c) \/ Read(c)
             \/ DestroyAll(c) \/ \E n \in Names : DestroyClosed(c, n)
      PROVE  WS!Next
  <2>1. WS!Acknowledge(c) \/ WS!Leave(c) \/ WS!Read(c) \/ WS!Destroy(c)
    BY <1>t, <1>6, LoginMaps, LeaveMaps, ReadMaps, DestroyMaps
  <2>2. QED  BY <2>1 DEF WS!Next
<1>7. ASSUME NEW c \in Clients, CloseAll(c) \/ \E n \in Names : Close(c, n)
      PROVE  WS!Next \/ UNCHANGED WS!vars
  <2>1. WS!Leave(c) \/ UNCHANGED WS!vars  BY <1>t, <1>7, CloseMaps
  <2>2. QED  BY <2>1 DEF WS!Next
<1>8. ASSUME NEW c \in Clients, Command(c) PROVE WS!Next \/ UNCHANGED WS!vars
  BY <1>2, <1>3, <1>4, <1>5, <1>6, <1>7, <1>8 DEF Command
<1>9. CASE Drop
  <2>1. rest.by \in Clients /\ (WS!Acknowledge(rest.by) \/ WS!Leave(rest.by))
    BY <1>t, <1>9, DropMaps
  <2>2. QED  BY <2>1 DEF WS!Next
<1>10. CASE UNCHANGED vars
  <2>1. UNCHANGED <<dbt, logins, cons, files, answer>>  BY <1>10 DEF vars
  <2>2. UNCHANGED WorkingBar /\ UNCHANGED ContentBar
    BY <1>t, <2>1, SameWorkspaces, SameContent DEF SameTable
  <2>3. QED  BY <2>1, <2>2, Bars, BarsPrimed DEF WS!vars
<1>11. QED  BY <1>1, <1>8, <1>9, <1>10 DEF Next

\* To any number of considerate clients the interpreter, its table of databases,
\* its logins and its descriptors are what Workspaces says: each reads and writes
\* the database it chose and no other, whatever the others open, close and
\* destroy, and what a database holds outlives its being closed.
THEOREM SessionsImplement ==
  ASSUME Considerate, OwnFiles, Enough, CleanMemory
  PROVE  Spec => ImplementsWorkspaces
<1>s. Settled  BY DEF Settled
<1>1. CInv /\ [Next]_vars => CInv'  BY <1>s, CStep
<1>2. CInv /\ [Next]_vars => [WS!Next]_(WS!vars)  BY <1>s, NextMaps
<1>3. QED  BY <1>1, <1>2, CInit, InitMaps, PTL DEF Spec, ImplementsWorkspaces, WS!Spec
=============================================================================
