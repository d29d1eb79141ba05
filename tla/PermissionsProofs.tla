-------------------------- MODULE PermissionsProofs --------------------------
(***************************************************************************)
(* Theorems about Permissions, for all clients, names, passwords, roles    *)
(* and sets of permissions.                                                *)
(***************************************************************************)
EXTENDS Permissions, FiniteSetTheorems, SequenceTheorems, TLAPS

(***************************************************************************)
(* Lemmas on records.                                                      *)
(***************************************************************************)

\* The arguments of a command are a sequence of names of roles.
LEMMA ArgsType ==
  ASSUME NEW args \in RoleArgs
  PROVE  /\ args \in Seq(RoleNames) /\ args \in Seq(Texts)
         /\ Len(args) \in 0..MaxArgs
<1>1. PICK n \in 0..MaxArgs : args \in [1..n -> RoleNames]  BY DEF RoleArgs
<1>2. args \in Seq(RoleNames) /\ Len(args) = n  BY <1>1
<1>3. RoleNames \subseteq Texts  BY DEF Texts
<1>4. args \in Seq(Texts)  BY <1>2, <1>3
<1>5. QED  BY <1>2, <1>4, NamesAssumption

\* So is a prefix of them.
LEMMA PrefixOfArgs ==
  ASSUME NEW args \in RoleArgs, NEW n \in Nat, n <= Len(args)
  PROVE  SubSeq(args, 1, n) \in RoleArgs
<1>1. args \in Seq(RoleNames) /\ Len(args) \in 0..MaxArgs  BY ArgsType
<1>2. SubSeq(args, 1, n) \in [1..n -> RoleNames]
  <2>1. SubSeq(args, 1, n) = [i \in 1..n |-> args[i]]  BY <1>1
  <2>2. \A i \in 1..n : args[i] \in RoleNames  BY <1>1
  <2>3. QED  BY <2>1, <2>2
<1>3. n \in 0..MaxArgs  BY <1>1, NamesAssumption
<1> DEFINE prefix == SubSeq(args, 1, n)
<1> HIDE DEF prefix
<1>4. prefix \in [1..n -> RoleNames]  BY <1>2 DEF prefix
<1>5. prefix \in RoleArgs  BY <1>3, <1>4 DEF RoleArgs
<1>6. QED  BY <1>5 DEF prefix

\* The fields that are written are read as texts.
LEMMA FieldsType ==
  ASSUME NEW args \in RoleArgs
  PROVE  Fields(args) \in Seq(Texts)
BY ArgsType, MisreadAssumption DEF Fields

\* The first role of a record is in it or right behind it.
LEMMA RolesFromType ==
  ASSUME NEW rec \in Seq(Texts)
  PROVE  RolesFrom(rec) \in 0..Len(rec)
<1>1. Len(rec) \in Nat  OBVIOUS
<1>2. rec # <<>> => Len(rec) >= 1  OBVIOUS
<1>3. QED  BY <1>1, <1>2 DEF RolesFrom

\* The roles of a record are the texts from there on.
LEMMA RolesReadType ==
  ASSUME NEW rec \in Seq(Texts)
  PROVE  /\ RolesRead(rec) \in Seq(Texts)
         /\ Len(RolesRead(rec)) = Len(rec) - RolesFrom(rec)
         /\ \A i \in 1..Len(rec) - RolesFrom(rec) :
              RolesRead(rec)[i] = rec[RolesFrom(rec) + i]
<1>1. RolesFrom(rec) \in 0..Len(rec) /\ Len(rec) \in Nat  BY RolesFromType
<1> DEFINE m == RolesFrom(rec)
<1>2. RolesRead(rec) = SubSeq(rec, m + 1, Len(rec))  BY DEF RolesRead
<1> HIDE DEF m
<1>3. m \in 0..Len(rec)  BY <1>1 DEF m
<1>4. QED  BY <1>1, <1>2, <1>3 DEF m

\* remove_roles keeps a finite number of roles.
LEMMA KeptType ==
  ASSUME NEW rec \in Seq(Texts), NEW args
  PROVE  Cardinality(Kept(rec, args)) \in Nat
<1>1. Len(RolesRead(rec)) \in Nat  BY RolesReadType
<1>2. DOMAIN RolesRead(rec) = 1..Len(RolesRead(rec))  BY RolesReadType
<1>3. IsFiniteSet(1..Len(RolesRead(rec)))  BY <1>1, FS_Interval
<1>4. Kept(rec, args) \subseteq 1..Len(RolesRead(rec))  BY <1>2 DEF Kept
<1>5. QED  BY <1>3, <1>4, FS_Subset, FS_CardinalityType

\* What remove_roles leaves of a record is a record.
LEMMA RemovedType ==
  ASSUME NEW rec \in Seq(Texts), NEW args \in RoleArgs
  PROVE  Removed(rec, args) \subseteq Seq(Texts)
<1> DEFINE front == SubSeq(rec, 1, RolesFrom(rec))
           n == Cardinality(Kept(rec, args))
<1>1. front \in Seq(Texts)  BY RolesFromType
<1>2. n \in Nat  BY KeptType
<1>3. Removed(rec, args) =
        IF n <= Len(args) THEN {front \o Fields(SubSeq(args, 1, n))}
        ELSE {front \o Fields(args) \o past : past \in [1..n - Len(args) -> Texts]}
  BY DEF Removed
<1> HIDE DEF front, n
<1>4. CASE n <= Len(args)
  <2>1. Fields(SubSeq(args, 1, n)) \in Seq(Texts)
    BY <1>2, <1>4, PrefixOfArgs, FieldsType
  <2>2. QED  BY <1>1, <1>3, <1>4, <2>1
<1>5. CASE ~(n <= Len(args))
  <2>1. n - Len(args) \in Nat  BY <1>2, <1>5, ArgsType
  <2>2. ASSUME NEW past \in [1..n - Len(args) -> Texts]
        PROVE  past \in Seq(Texts)
    BY <2>1, SeqDef
  <2>3. Fields(args) \in Seq(Texts)  BY FieldsType
  <2>4. ASSUME NEW past \in [1..n - Len(args) -> Texts]
        PROVE  front \o Fields(args) \o past \in Seq(Texts)
    BY <1>1, <2>2, <2>3
  <2>5. QED  BY <1>3, <1>5, <2>4
<1>6. QED  BY <1>4, <1>5

(***************************************************************************)
(* Types.                                                                  *)
(***************************************************************************)

\* The types hold at the start.
LEMMA TypeInit == Init => PTypeOK
<1> SUFFICES ASSUME Init PROVE PTypeOK  OBVIOUS
<1>1. users \in [DOMAIN users -> Seq(Texts)] /\ DOMAIN users = {}  BY DEF Init
<1>2. roles \in [DOMAIN roles -> SUBSET Flags] /\ DOMAIN roles = {Admin}
  BY NamesAssumption DEF Init, ADMIN
<1>3. logins \in [Clients -> Users \cup {Nobody}] /\ gate = {}  BY DEF Init
<1>4. QED  BY <1>1, <1>2, <1>3, NamesAssumption DEF PTypeOK

\* A change of the records that leaves the rest alone.
LEMMA TypeOfRecords ==
  ASSUME PTypeOK, UNCHANGED <<roles, logins>>, gate' \subseteq Flags,
         DOMAIN users' \subseteq Users, users' \in [DOMAIN users' -> Seq(Texts)]
  PROVE  PTypeOK'
BY DEF PTypeOK

\* Every command, and a restart, keeps the types.
LEMMA TypeStep ==
  ASSUME PTypeOK, [Next]_vars
  PROVE  PTypeOK'
<1>t. /\ DOMAIN users \subseteq Users /\ users \in [DOMAIN users -> Seq(Texts)]
      /\ DOMAIN roles \subseteq RoleNames /\ roles \in [DOMAIN roles -> SUBSET Flags]
      /\ logins \in [Clients -> Users \cup {Nobody}]
      /\ gate \in SUBSET Flags
  BY DEF PTypeOK
<1>1. ASSUME NEW c \in Clients, NEW u \in Users, NEW p \in Passwords, FirstUser(c, u, p)
      PROVE  PTypeOK'
  <2>1. p \in Texts /\ Admin \in Texts  BY NamesAssumption DEF Texts
  <2>2. <<p, Admin>> \in Seq(Texts)  BY <2>1
  <2>3. users' = [x \in {u} |-> <<p, Admin>>]  BY <1>1 DEF FirstUser
  <2>4. users' \in [{u} -> Seq(Texts)]  BY <2>2, <2>3
  <2>5. QED  BY <1>1, <2>4, TypeOfRecords DEF FirstUser, ADMIN
<1>2. ASSUME NEW c \in Clients, NEW u \in Users, NEW p \in Passwords, NEW args \in RoleArgs,
             CreateUser(c, u, p, args)
      PROVE  PTypeOK'
  <2>1. CASE users' = users  BY <1>2, <2>1, <1>t, TypeOfRecords DEF CreateUser
  <2>2. CASE users' = Put(users, u, <<p>> \o args)
    <3>1. <<p>> \o args \in Seq(Texts)  BY ArgsType DEF Texts
    <3>2. users' \in [DOMAIN users \cup {u} -> Seq(Texts)]
      BY <1>t, <2>2, <3>1 DEF Put
    <3>3. QED  BY <1>t, <1>2, <3>2, TypeOfRecords DEF CreateUser
  <2>3. QED  BY <1>2, <2>1, <2>2 DEF CreateUser
<1>3. ASSUME NEW c \in Clients, NEW r \in RoleNames, NEW F \in RoleFlags,
             CreateRole(c, r, F)
      PROVE  PTypeOK'
  <2>1. roles' = roles \/ roles' = Put(roles, r, F)  BY <1>3 DEF CreateRole
  <2>2. F \subseteq Flags  BY RoleFlagsAssumption
  <2>3. DOMAIN roles' \subseteq RoleNames /\ roles' \in [DOMAIN roles' -> SUBSET Flags]
    BY <1>t, <2>1, <2>2 DEF Put
  <2>4. QED  BY <1>t, <1>3, <2>3 DEF CreateRole, PTypeOK
<1>4. ASSUME NEW c \in Clients, NEW u \in Users, NEW args \in RoleArgs,
             AddRoles(c, u, args)
      PROVE  PTypeOK'
  <2> DEFINE grown == [users EXCEPT ![u] = @ \o Fields(args)]
  <2>1. u \in DOMAIN users  BY <1>4 DEF AddRoles
  <2>2. users[u] \o Fields(args) \in Seq(Texts)  BY <1>t, <2>1, FieldsType
  <2>3. grown \in [DOMAIN users -> Seq(Texts)]  BY <1>t, <2>2
  <2>4. \/ users' = grown
        \/ \E v \in DOMAIN users \ {u}, rec \in Damaged :
             users' = [grown EXCEPT ![v] = rec]
    BY <1>4 DEF AddRoles
  <2> HIDE DEF grown
  <2>5. users' \in [DOMAIN users -> Seq(Texts)]  BY <2>3, <2>4, DamagedAssumption
  <2>6. QED  BY <1>t, <1>4, <2>5, TypeOfRecords DEF AddRoles
<1>5. ASSUME NEW c \in Clients, NEW u \in Users, NEW args \in RoleArgs,
             RemoveRoles(c, u, args)
      PROVE  PTypeOK'
  <2>1. PICK rec \in Removed(users[u], args) : users' = [users EXCEPT ![u] = rec]
    BY <1>5 DEF RemoveRoles
  <2>2. u \in DOMAIN users  BY <1>5 DEF RemoveRoles
  <2>3. rec \in Seq(Texts)  BY <1>t, <2>1, <2>2, RemovedType
  <2>4. users' \in [DOMAIN users -> Seq(Texts)]  BY <1>t, <2>1, <2>3
  <2>5. QED  BY <1>t, <1>5, <2>4, TypeOfRecords DEF RemoveRoles
<1>6. ASSUME NEW c \in Clients, NEW u \in Users, DeleteUser(c, u)
      PROVE  PTypeOK'
  <2>1. users' \in [DOMAIN users \ {u} -> Seq(Texts)]  BY <1>t, <1>6 DEF DeleteUser
  <2>2. QED  BY <1>t, <1>6, <2>1, TypeOfRecords DEF DeleteUser
<1>7. ASSUME NEW c \in Clients, NEW u \in Users, NEW p \in Texts, Login(c, u, p)
      PROVE  PTypeOK'
  BY <1>t, <1>7 DEF Login, PTypeOK
<1>8. ASSUME NEW c \in Clients, Logout(c)
      PROVE  PTypeOK'
  BY <1>t, <1>8 DEF Logout, PTypeOK
<1>9. ASSUME NEW c \in Clients,
             Refuse(c) \/ \E u \in Users : UserRoles(c, u)
      PROVE  PTypeOK'
  BY <1>t, <1>9 DEF Refuse, UserRoles, PTypeOK
<1>10. CASE Restart
  <2>1. roles' = roles \/ roles' = Put(roles, Admin, ADMIN)  BY <1>10 DEF Restart
  <2>2. DOMAIN roles' \subseteq RoleNames /\ roles' \in [DOMAIN roles' -> SUBSET Flags]
    BY <1>t, <2>1, NamesAssumption DEF Put, ADMIN
  <2>3. logins' \in [Clients -> Users \cup {Nobody}] /\ users' = users
        /\ gate' \in SUBSET Flags
    BY <1>10, FlagsAssumption DEF Restart
  <2>4. QED  BY <1>t, <2>2, <2>3 DEF PTypeOK
<1>11. CASE UNCHANGED vars  BY <1>11 DEF PTypeOK, vars
<1>12. QED
  BY <1>1, <1>2, <1>3, <1>4, <1>5, <1>6, <1>7, <1>8, <1>9, <1>10, <1>11
  DEF Next, Command

\* Whatever callers allow themselves and whatever records run into each other,
\* the variables keep their types (Permissions).
THEOREM PermissionsTyped == Spec => []PTypeOK
<1>1. PTypeOK /\ [Next]_vars => PTypeOK'  BY TypeStep
<1>2. QED  BY <1>1, TypeInit, PTL DEF Spec

(***************************************************************************)
(* Who may create an account.                                              *)
(***************************************************************************)

\* Only while there is no account does create_user ask for nothing.
GateShut == gate = {} => DOMAIN users = {}

\* At the start there is no account for which the gate would have to be shut.
LEMMA GateInit == Init => GateShut
BY DEF Init, GateShut

LEMMA GateStep ==
  ASSUME GateShut, [Next]_vars
  PROVE  GateShut'
<1>1. ASSUME NEW c \in Clients, NEW u \in Users, NEW p \in Passwords, FirstUser(c, u, p)
      PROVE  GateShut'
  BY <1>1, FlagsAssumption DEF FirstUser, GateShut, ADMIN
<1>2. ASSUME NEW c \in Clients, NEW u \in Users, NEW p \in Passwords, NEW args \in RoleArgs,
             CreateUser(c, u, p, args)
      PROVE  GateShut'
  BY <1>2 DEF CreateUser, GateShut
<1>3. ASSUME gate' = gate, DOMAIN users' \subseteq DOMAIN users
      PROVE  GateShut'
  BY <1>3 DEF GateShut
<1>4. ASSUME NEW c \in Clients, NEW u \in Users, NEW args \in RoleArgs,
             AddRoles(c, u, args)
      PROVE  GateShut'
  <2> DEFINE grown == [users EXCEPT ![u] = @ \o Fields(args)]
  <2>1. \/ users' = grown
        \/ \E v \in DOMAIN users \ {u}, rec \in Damaged :
             users' = [grown EXCEPT ![v] = rec]
    BY <1>4 DEF AddRoles
  <2>2. DOMAIN grown = DOMAIN users  OBVIOUS
  <2> HIDE DEF grown
  <2>3. DOMAIN users' = DOMAIN users  BY <2>1, <2>2
  <2>4. QED  BY <1>3, <1>4, <2>3 DEF AddRoles
<1>5. ASSUME NEW c \in Clients, NEW u \in Users, NEW args \in RoleArgs,
             RemoveRoles(c, u, args)
      PROVE  GateShut'
  BY <1>3, <1>5 DEF RemoveRoles
<1>6. ASSUME NEW c \in Clients, NEW u \in Users, DeleteUser(c, u)
      PROVE  GateShut'
  BY <1>3, <1>6 DEF DeleteUser
<1>7. ASSUME NEW c \in Clients,
             \/ \E u \in Users, p \in Texts : Login(c, u, p)
             \/ \E u \in Users : UserRoles(c, u)
             \/ \E r \in RoleNames, F \in RoleFlags : CreateRole(c, r, F)
             \/ Logout(c)
             \/ Refuse(c)
      PROVE  GateShut'
  BY <1>3, <1>7 DEF Login, UserRoles, CreateRole, Logout, Refuse
<1>8. CASE Restart  BY <1>8 DEF Restart, GateShut
<1>9. CASE UNCHANGED vars  BY <1>3, <1>9 DEF vars
<1>10. QED
  BY <1>1, <1>2, <1>4, <1>5, <1>6, <1>7, <1>8, <1>9 DEF Next, Command

\* Whatever callers allow themselves, nobody who has not logged in can create an
\* account once there is one (create_user, aci/aci.cpp:300 and 616).
THEOREM ShutAfterFirst == Spec => []OpenOnlyAtFirst
<1>1. GateShut => OpenOnlyAtFirst
  BY DEF GateShut, OpenOnlyAtFirst, calculate_perms
<1>2. GateShut /\ [Next]_vars => GateShut'  BY GateStep
<1>3. QED  BY <1>1, <1>2, GateInit, PTL DEF Spec

(***************************************************************************)
(* What a client may do.                                                   *)
(***************************************************************************)

\* No name or password is so long that its length is negative as a char.
ShortNames == \A t \in Texts : Length[t] < 128

\* Then the roles that are read are the fields behind the first.
LEMMA RolesReadAreFields ==
  ASSUME NEW rec \in Seq(Texts), ShortNames
  PROVE  Named(RolesRead(rec)) = {rec[i] : i \in 2..Len(rec)}
<1>1. Len(rec) \in Nat  OBVIOUS
<1>2. CASE rec = <<>>
  <2>1. RolesFrom(rec) = 0 /\ Len(rec) = 0  BY <1>2 DEF RolesFrom
  <2>2. DOMAIN RolesRead(rec) = {}
    <3>. Len(RolesRead(rec)) = Len(rec) - RolesFrom(rec)  BY RolesReadType
    <3>1. Len(RolesRead(rec)) = 0  BY <2>1
    <3>2. DOMAIN RolesRead(rec) = 1..0  BY <3>1, RolesReadType, LenProperties
    <3>3. QED  BY <3>2
  <2>3. QED  BY <2>1, <2>2 DEF Named
<1>3. CASE rec # <<>>
  <2>1. Len(rec) >= 1 /\ rec[1] \in Texts  BY <1>3
  <2>2. RolesFrom(rec) = 1  BY <1>3, <2>1 DEF RolesFrom, ShortNames
  <2>3. DOMAIN RolesRead(rec) = 1..Len(rec) - 1
    BY <1>1, <2>1, <2>2, RolesReadType, LenProperties
  <2>4. \A i \in 1..Len(rec) - 1 : RolesRead(rec)[i] = rec[1 + i]
    BY <2>2, RolesReadType
  <2>5. ASSUME NEW x \in Named(RolesRead(rec))
        PROVE  x \in {rec[i] : i \in 2..Len(rec)}
    <3>1. PICK i \in 1..Len(rec) - 1 : x = rec[1 + i]  BY <2>3, <2>4 DEF Named
    <3>2. 1 + i \in 2..Len(rec)  BY <1>1
    <3>3. QED  BY <3>1, <3>2
  <2>6. ASSUME NEW i \in 2..Len(rec)
        PROVE  rec[i] \in Named(RolesRead(rec))
    <3>1. i - 1 \in 1..Len(rec) - 1 /\ 1 + (i - 1) = i  BY <1>1
    <3>2. RolesRead(rec)[i - 1] = rec[i]  BY <2>4, <3>1
    <3>3. QED  BY <2>3, <3>1, <3>2 DEF Named
  <2>7. QED  BY <2>5, <2>6
<1>4. QED  BY <1>2, <1>3

\* A client has the permissions its roles grant, and no other: counting them
\* is as good as comparing.
LEMMA CountingIsComparing ==
  ASSUME NEW rec \in Seq(Texts), ShortNames, NEW needed \in SUBSET Flags
  PROVE  LET granted == UNION {roles[r] :
                          r \in {rec[i] : i \in 2..Len(rec)} \cap DOMAIN roles}
         IN  Cardinality(Satisfied(rec, needed)) >= Cardinality(needed)
               <=> needed \subseteq perm_table \cap granted
<1> DEFINE names == {rec[i] : i \in 2..Len(rec)}
           granted == UNION {roles[r] : r \in names \cap DOMAIN roles}
<1>1. Named(RolesRead(rec)) = names  BY RolesReadAreFields
<1> HIDE DEF names
<1>2. \A f : f \in granted <=> \E r \in names : r \in DOMAIN roles /\ f \in roles[r]
  OBVIOUS
<1>3. \A f : f \in granted <=>
        \E i \in DOMAIN RolesRead(rec) :
          RolesRead(rec)[i] \in DOMAIN roles /\ f \in roles[RolesRead(rec)[i]]
  BY <1>1, <1>2 DEF Named
<1> HIDE DEF granted
<1>4. Satisfied(rec, needed) = needed \cap perm_table \cap granted
  BY <1>3 DEF Satisfied
<1>5. IsFiniteSet(needed)  BY FlagsAssumption, FS_Subset
<1>6. /\ Satisfied(rec, needed) \subseteq needed
      /\ IsFiniteSet(Satisfied(rec, needed))
  BY <1>4, <1>5, FS_Subset
<1>7. /\ Cardinality(needed) \in Nat /\ Cardinality(Satisfied(rec, needed)) \in Nat
      /\ Cardinality(Satisfied(rec, needed)) <= Cardinality(needed)
      /\ Cardinality(Satisfied(rec, needed)) = Cardinality(needed)
           => Satisfied(rec, needed) = needed
  BY <1>5, <1>6, FS_Subset, FS_CardinalityType
<1>8. Cardinality(Satisfied(rec, needed)) >= Cardinality(needed)
        <=> Satisfied(rec, needed) = needed
  BY <1>7
<1>9. QED  BY <1>4, <1>8 DEF granted, names

\* With short names, what the code counts as satisfied is what is granted.
LEMMA Granted ==
  ASSUME PTypeOK, ShortNames
  PROVE  PermissionsAsGranted
<1> SUFFICES ASSUME NEW c \in Clients, NEW needed \in (SUBSET perm_table) \ {{}}
             PROVE  calculate_perms(c, needed) <=>
                      /\ logins[c] \in DOMAIN users
                      /\ needed \subseteq UNION {roles[r] :
                           r \in RolesOf(logins[c]) \cap DOMAIN roles}
  BY DEF PermissionsAsGranted
<1>1. needed \in SUBSET Flags /\ needed \subseteq perm_table /\ needed # {}
  BY DEF perm_table
<1>2. CASE logins[c] \notin DOMAIN users  BY <1>1, <1>2 DEF calculate_perms
<1>3. CASE logins[c] \in DOMAIN users
  <2>1. users[logins[c]] \in Seq(Texts)  BY <1>3 DEF PTypeOK
  <2>2. QED  BY <1>1, <1>3, <2>1, CountingIsComparing DEF calculate_perms, RolesOf
<1>4. QED  BY <1>2, <1>3

\* As long as no password or role has 128 characters, a client has exactly the
\* permissions its account's roles grant, whatever else callers do
\* (calculate_perms, aci/aci.cpp:849).
THEOREM GrantedOnly ==
  ASSUME ShortNames
  PROVE  Spec => []PermissionsAsGranted
<1>1. PTypeOK => PermissionsAsGranted  BY Granted
<1>2. Spec => []PTypeOK  BY PermissionsTyped
<1>3. QED  BY <1>1, <1>2, PTL

-----------------------------------------------------------------------------
(* The interpreter implements Accounts, for all clients, names, passwords, *)
(* roles and sets of permissions, as long as names are short, callers take *)
(* no liberties and no record runs into another.                           *)

\* Clients that take no liberties, short names, and no record that runs into
\* another.
Considerate == ShortNames /\ Liberties = {} /\ Damaged = {}

\* A record is a password and the names of roles.
RecordsOK ==
  \A u \in DOMAIN users :
    /\ users[u] # <<>> /\ users[u][1] \in Passwords
    /\ \A i \in 2..Len(users[u]) : users[u][i] \in RoleNames

\* While create_user asks for nothing nobody is logged in; what it asks for
\* later has its own permission in it.
GateOK ==
  /\ gate = {} => \A c \in Clients : logins[c] = Nobody
  /\ gate # {} => "CREATE_USER" \in gate

\* The inductive invariant the refinement needs.
AInv == PTypeOK /\ GateShut /\ GateOK /\ RecordsOK /\ Admin \in DOMAIN roles

(***************************************************************************)
(* Lemmas on records.                                                      *)
(***************************************************************************)

\* An argument below 128 characters is stored as it was written.
LEMMA FieldsPlain ==
  ASSUME NEW args \in RoleArgs, ShortNames
  PROVE  Fields(args) = args
<1>1. \A i \in DOMAIN args : args[i] \in Texts  BY ArgsType
<1>2. \A i \in DOMAIN args : Length[args[i]] < 128 /\ Length[args[i]] \in Nat
  BY <1>1, LengthAssumption DEF ShortNames
<1>3. \A i \in DOMAIN args : ~(Length[args[i]] > 255)  BY <1>2
<1>4. QED  BY <1>3 DEF Fields

\* Roles that are added come behind those that are there.
LEMMA Appended ==
  ASSUME NEW rec \in Seq(Texts), rec # <<>>, NEW args \in RoleArgs
  PROVE  /\ rec \o args # <<>> /\ (rec \o args)[1] = rec[1]
         /\ {(rec \o args)[i] : i \in 2..Len(rec \o args)} =
              {rec[i] : i \in 2..Len(rec)} \cup Named(args)
<1>1. args \in Seq(Texts)  BY ArgsType
<1>2. Len(rec) \in Nat \ {0} /\ Len(args) \in Nat  BY <1>1, EmptySeq, LenProperties
<1>3. /\ Len(rec \o args) = Len(rec) + Len(args)
      /\ \A i \in 1..Len(rec) + Len(args) :
           (rec \o args)[i] = IF i <= Len(rec) THEN rec[i] ELSE args[i - Len(rec)]
  BY <1>1
<1> DEFINE s == rec \o args
<1>4. s \in Seq(Texts)  BY <1>1
<1>5. Len(s) = Len(rec) + Len(args)  BY <1>3
<1>6. \A i \in 1..Len(rec) + Len(args) :
        s[i] = IF i <= Len(rec) THEN rec[i] ELSE args[i - Len(rec)]
  BY <1>3
<1> HIDE DEF s
<1>7. s # <<>>  BY <1>2, <1>4, <1>5
<1>8. s[1] = rec[1]  BY <1>2, <1>6
<1>9. ASSUME NEW i \in 2..Len(s)
      PROVE  s[i] \in {rec[j] : j \in 2..Len(rec)} \cup Named(args)
  <2>1. CASE i <= Len(rec)  BY <1>2, <1>5, <1>6, <2>1
  <2>2. CASE ~(i <= Len(rec))
    <3>1. i - Len(rec) \in 1..Len(args)  BY <1>2, <1>5, <2>2
    <3>2. s[i] = args[i - Len(rec)]  BY <1>2, <1>5, <1>6, <2>2
    <3>3. DOMAIN args = 1..Len(args)  BY <1>1
    <3>4. QED  BY <3>1, <3>2, <3>3 DEF Named
  <2>3. QED  BY <2>1, <2>2
<1>10. ASSUME NEW j \in 2..Len(rec)
       PROVE  rec[j] \in {s[i] : i \in 2..Len(s)}
  <2>1. j \in 2..Len(s) /\ s[j] = rec[j]  BY <1>2, <1>5, <1>6
  <2>2. QED  BY <2>1
<1>11. ASSUME NEW r \in Named(args)
       PROVE  r \in {s[i] : i \in 2..Len(s)}
  <2>1. DOMAIN args = 1..Len(args)  BY <1>1
  <2>2. PICK j \in 1..Len(args) : r = args[j]  BY <2>1 DEF Named
  <2>3. Len(rec) + j \in 2..Len(s)  BY <1>2, <1>5
  <2>4. s[Len(rec) + j] = args[j]
    <3>1. Len(rec) + j \in 1..Len(rec) + Len(args)  BY <1>2
    <3>2. ~(Len(rec) + j <= Len(rec)) /\ (Len(rec) + j) - Len(rec) = j  BY <1>2
    <3>3. QED  BY <1>6, <3>1, <3>2
  <2>5. QED  BY <2>2, <2>3, <2>4
<1>12. {s[i] : i \in 2..Len(s)} = {rec[i] : i \in 2..Len(rec)} \cup Named(args)
  BY <1>9, <1>10, <1>11
<1>13. QED  BY <1>7, <1>8, <1>12 DEF s

\* When no role is kept, the password is what is left.
LEMMA RemovedAll ==
  ASSUME NEW rec \in Seq(Texts), rec # <<>>, NEW args \in RoleArgs, ShortNames,
         Kept(rec, args) = {}
  PROVE  Removed(rec, args) = {<<rec[1]>>}
<1>1. Cardinality(Kept(rec, args)) = 0  BY FS_EmptySet
<1>2. Len(rec) \in Nat \ {0} /\ rec[1] \in Texts  BY EmptySeq
<1>3. RolesFrom(rec) = 1  BY <1>2 DEF RolesFrom, ShortNames
<1>4. 0 <= Len(args) /\ args \in Seq(Texts)  BY ArgsType, LenProperties
<1>5. SubSeq(args, 1, 0) = <<>> /\ SubSeq(rec, 1, 1) = <<rec[1]>>
  <2>1. SubSeq(args, 1, 0) = <<>>  BY <1>4, SubSeqEmpty
  <2>2. SubSeq(rec, 1, 1) \in Seq(Texts) /\ Len(SubSeq(rec, 1, 1)) = 1
    BY <1>2, SubSeqProperties
  <2>3. SubSeq(rec, 1, 1)[1] = rec[1]  BY <1>2, SubSeqProperties
  <2>4. <<rec[1]>> \in Seq(Texts)  BY <1>2
  <2> DEFINE t == SubSeq(rec, 1, 1)
             one == <<rec[1]>>
  <2>7. Len(one) = 1 /\ one[1] = rec[1]  OBVIOUS
  <2> HIDE DEF t, one
  <2>8. t \in Seq(Texts) /\ one \in Seq(Texts) /\ Len(t) = Len(one)
        /\ \A i \in 1..Len(t) : t[i] = one[i]
    BY <2>2, <2>3, <2>4, <2>7 DEF t, one
  <2>9. SubSeq(rec, 1, 1) = <<rec[1]>>  BY <2>8, SeqEqual DEF t, one
  <2>10. QED  BY <2>1, <2>9
<1>6. SubSeq(args, 1, 0) \in RoleArgs  BY <1>4, PrefixOfArgs
<1>7. Fields(SubSeq(args, 1, 0)) = <<>>  BY <1>5, <1>6, FieldsPlain
<1>8. Removed(rec, args) = {SubSeq(rec, 1, 1) \o Fields(SubSeq(args, 1, 0))}
  BY <1>1, <1>3, <1>4 DEF Removed
<1>9. <<rec[1]>> \o <<>> = <<rec[1]>>  BY <1>2
<1>10. QED  BY <1>5, <1>7, <1>8, <1>9

(***************************************************************************)
(* The invariant.                                                          *)
(***************************************************************************)

\* Before the first account every part of AInv holds.
LEMMA AInit == Init => AInv
<1>1. Init => PTypeOK /\ GateShut  BY TypeInit, GateInit
<1>2. Init => GateOK /\ RecordsOK /\ Admin \in DOMAIN roles
  BY DEF Init, GateOK, RecordsOK
<1>3. QED  BY <1>1, <1>2 DEF AInv

\* One record is written, or none, and it is a good one.
LEMMA OneRecord ==
  ASSUME RecordsOK, NEW u, NEW rec,
         rec # <<>>, rec[1] \in Passwords,
         \A i \in 2..Len(rec) : rec[i] \in RoleNames,
         \A v \in DOMAIN users' : users'[v] = rec \/ (v \in DOMAIN users /\ users'[v] = users[v])
  PROVE  RecordsOK'
<1>1. ASSUME NEW v \in DOMAIN users'
      PROVE  /\ users'[v] # <<>> /\ users'[v][1] \in Passwords
             /\ \A i \in 2..Len(users'[v]) : users'[v][i] \in RoleNames
  <2>1. CASE users'[v] = rec  BY <2>1
  <2>2. CASE v \in DOMAIN users /\ users'[v] = users[v]  BY <2>2 DEF RecordsOK
  <2>3. QED  BY <2>1, <2>2
<1>2. QED  BY <1>1 DEF RecordsOK

\* Every record stays a password and roles: create_user writes one, add_roles
\* appends to it, remove_roles keeps the password, delete_user takes it away.
LEMMA RecordsStep ==
  ASSUME AInv, Considerate, [Next]_vars
  PROVE  RecordsOK'
<1>t. /\ users \in [DOMAIN users -> Seq(Texts)] /\ RecordsOK
      /\ Liberties = {} /\ Damaged = {} /\ ShortNames
  BY DEF AInv, PTypeOK, Considerate
<1>n. \A args \in RoleArgs : Named(args) \subseteq RoleNames
  BY ArgsType DEF Named
<1>1. ASSUME NEW c \in Clients, NEW u \in Users, NEW p \in Passwords, FirstUser(c, u, p)
      PROVE  RecordsOK'
  <2> DEFINE rec == <<p, Admin>>
  <2>1. rec # <<>> /\ rec[1] = p /\ Len(rec) = 2 /\ rec[2] = Admin  OBVIOUS
  <2>2. users' = [x \in {u} |-> rec]  BY <1>1 DEF FirstUser
  <2> HIDE DEF rec
  <2>3. \A i \in 2..Len(rec) : rec[i] \in RoleNames  BY <2>1, NamesAssumption
  <2>4. QED  BY <1>t, <2>1, <2>2, <2>3, OneRecord
<1>2. ASSUME NEW c \in Clients, NEW u \in Users, NEW p \in Passwords, NEW args \in RoleArgs,
             CreateUser(c, u, p, args)
      PROVE  RecordsOK'
  <2>1. CASE users' = users  BY <1>t, <2>1 DEF RecordsOK
  <2>2. CASE users' = Put(users, u, <<p>> \o args)
    <3> DEFINE rec == <<p>> \o args
    <3>1. <<p>> \in Seq(Texts) /\ <<p>> # <<>> /\ <<p>>[1] = p /\ Len(<<p>>) = 1
      BY DEF Texts
    <3>2. {<<p>>[i] : i \in 2..Len(<<p>>)} = {}  BY <3>1
    <3>3. rec # <<>> /\ rec[1] = p /\ {rec[i] : i \in 2..Len(rec)} = Named(args)
      BY <3>1, <3>2, Appended
    <3>4. users' = Put(users, u, rec)  BY <2>2
    <3> HIDE DEF rec
    <3>5. \A i \in 2..Len(rec) : rec[i] \in RoleNames  BY <1>n, <3>3
    <3>6. \A v \in DOMAIN users' :
            users'[v] = rec \/ (v \in DOMAIN users /\ users'[v] = users[v])
      BY <3>4 DEF Put
    <3>7. QED  BY <1>t, <3>3, <3>5, <3>6, OneRecord
  <2>3. QED  BY <1>2, <2>1, <2>2 DEF CreateUser
<1>3. ASSUME NEW c \in Clients, NEW u \in Users, NEW args \in RoleArgs,
             AddRoles(c, u, args)
      PROVE  RecordsOK'
  <2> DEFINE rec == users[u] \o args
  <2>1. u \in DOMAIN users /\ users[u] \in Seq(Texts) /\ users[u] # <<>>
        /\ users[u][1] \in Passwords
        /\ {users[u][i] : i \in 2..Len(users[u])} \subseteq RoleNames
    BY <1>t, <1>3 DEF AddRoles, RecordsOK
  <2>2. users' = [users EXCEPT ![u] = rec]
    BY <1>t, <1>3, FieldsPlain DEF AddRoles
  <2>3. rec # <<>> /\ rec[1] = users[u][1]
        /\ {rec[i] : i \in 2..Len(rec)} =
             {users[u][i] : i \in 2..Len(users[u])} \cup Named(args)
    BY <2>1, Appended
  <2> HIDE DEF rec
  <2>4. \A i \in 2..Len(rec) : rec[i] \in RoleNames  BY <1>n, <2>1, <2>3
  <2>5. \A v \in DOMAIN users' :
          users'[v] = rec \/ (v \in DOMAIN users /\ users'[v] = users[v])
    BY <1>t, <2>1, <2>2
  <2>6. QED  BY <1>t, <2>1, <2>3, <2>4, <2>5, OneRecord
<1>4. ASSUME NEW c \in Clients, NEW u \in Users, NEW args \in RoleArgs,
             RemoveRoles(c, u, args)
      PROVE  RecordsOK'
  <2> DEFINE rec == <<users[u][1]>>
  <2>1. u \in DOMAIN users /\ users[u] \in Seq(Texts) /\ users[u] # <<>>
        /\ users[u][1] \in Passwords /\ Kept(users[u], args) = {}
    BY <1>t, <1>4 DEF RemoveRoles, RecordsOK
  <2>2. users' = [users EXCEPT ![u] = rec]
    BY <1>t, <1>4, <2>1, RemovedAll DEF RemoveRoles
  <2>3. rec # <<>> /\ rec[1] = users[u][1] /\ Len(rec) = 1  OBVIOUS
  <2> HIDE DEF rec
  <2>4. \A v \in DOMAIN users' :
          users'[v] = rec \/ (v \in DOMAIN users /\ users'[v] = users[v])
    BY <1>t, <2>1, <2>2
  <2>5. QED  BY <1>t, <2>1, <2>3, <2>4, OneRecord
<1>5. ASSUME NEW c \in Clients, NEW u \in Users, DeleteUser(c, u)
      PROVE  RecordsOK'
  BY <1>t, <1>5 DEF DeleteUser, RecordsOK
<1>6. ASSUME UNCHANGED users
      PROVE  RecordsOK'
  BY <1>t, <1>6 DEF RecordsOK
<1>7. ASSUME NEW c \in Clients,
             \/ \E u \in Users, p \in Texts : Login(c, u, p)
             \/ \E u \in Users : UserRoles(c, u)
             \/ \E r \in RoleNames, F \in RoleFlags : CreateRole(c, r, F)
             \/ Logout(c)
             \/ Refuse(c)
      PROVE  RecordsOK'
  BY <1>6, <1>7 DEF Login, UserRoles, CreateRole, Logout, Refuse
<1>8. CASE Restart \/ UNCHANGED vars  BY <1>6, <1>8 DEF Restart, vars
<1>9. QED
  BY <1>1, <1>2, <1>3, <1>4, <1>5, <1>7, <1>8 DEF Next, Command

\* Nobody is logged in while create_user asks for nothing, what it asks for later
\* has its own permission in it, and no command deletes the role admin.
LEMMA GateOKStep ==
  ASSUME AInv, [Next]_vars
  PROVE  GateOK' /\ Admin \in DOMAIN roles'
<1>t. /\ logins \in [Clients -> Users \cup {Nobody}]
      /\ GateShut /\ GateOK /\ Admin \in DOMAIN roles
  BY DEF AInv, PTypeOK
<1>1. ASSUME UNCHANGED <<roles, logins, gate>>
      PROVE  GateOK' /\ Admin \in DOMAIN roles'
  BY <1>t, <1>1 DEF GateOK
<1>2. ASSUME NEW c \in Clients, NEW u \in Users, NEW p \in Passwords, FirstUser(c, u, p)
      PROVE  GateOK' /\ Admin \in DOMAIN roles'
  BY <1>t, <1>2, FlagsAssumption DEF FirstUser, GateOK, ADMIN
<1>3. ASSUME NEW c \in Clients,
             \/ \E u \in Users, p \in Passwords, args \in RoleArgs : CreateUser(c, u, p, args)
             \/ \E u \in Users, args \in RoleArgs : AddRoles(c, u, args) \/ RemoveRoles(c, u, args)
             \/ \E u \in Users : DeleteUser(c, u) \/ UserRoles(c, u)
             \/ Refuse(c)
      PROVE  GateOK' /\ Admin \in DOMAIN roles'
  <2>1. UNCHANGED <<roles, logins, gate>>
    BY <1>3 DEF CreateUser, AddRoles, RemoveRoles, DeleteUser, UserRoles, Refuse
  <2>2. QED  BY <1>1, <2>1
<1>4. ASSUME NEW c \in Clients, NEW r \in RoleNames, NEW F \in RoleFlags,
             CreateRole(c, r, F)
      PROVE  GateOK' /\ Admin \in DOMAIN roles'
  BY <1>t, <1>4 DEF CreateRole, Put, GateOK
<1>5. ASSUME NEW c \in Clients, NEW u \in Users, NEW p \in Texts, Login(c, u, p)
      PROVE  GateOK' /\ Admin \in DOMAIN roles'
  BY <1>t, <1>5 DEF Login, GateOK, GateShut
<1>6. ASSUME NEW c \in Clients, Logout(c)
      PROVE  GateOK' /\ Admin \in DOMAIN roles'
  BY <1>t, <1>6 DEF Logout, GateOK
<1>7. CASE Restart  BY <1>t, <1>7 DEF Restart, GateOK, Put
<1>8. CASE UNCHANGED vars  BY <1>1, <1>8 DEF vars
<1>9. QED
  BY <1>2, <1>3, <1>4, <1>5, <1>6, <1>7, <1>8 DEF Next, Command

\* AInv is inductive for considerate clients.
LEMMA AStep ==
  ASSUME AInv, Considerate, [Next]_vars
  PROVE  AInv'
<1>1. PTypeOK'  BY TypeStep DEF AInv
<1>2. GateShut'  BY GateStep DEF AInv
<1>3. QED  BY <1>1, <1>2, GateOKStep, RecordsStep DEF AInv

(***************************************************************************)
(* Refinement.                                                             *)
(***************************************************************************)

\* The mapping of Permissions, with each account and each client by itself.
AccountOf(u) == [pass |-> Password(users[u]), roles |-> RolesOf(u)]
AccountBar == [u \in DOMAIN users |-> AccountOf(u)]
WhoOf(c) == IF logins[c] \in DOMAIN users THEN logins[c] ELSE Nobody
WhoBar == [c \in Clients |-> WhoOf(c)]

\* The mapping, spelled out over the records and the logins.
LEMMA Bars ==
  /\ AccountBar = [u \in DOMAIN users |-> [pass |-> Password(users[u]), roles |-> RolesOf(u)]]
  /\ WhoBar = [c \in Clients |-> IF logins[c] \in DOMAIN users THEN logins[c] ELSE Nobody]
BY DEF AccountBar, WhoBar, AccountOf, WhoOf

\* The same of the next state.
LEMMA BarsPrimed ==
  /\ AccountBar' = [u \in DOMAIN users |-> [pass |-> Password(users[u]), roles |-> RolesOf(u)]]'
  /\ WhoBar' = [c \in Clients |-> IF logins[c] \in DOMAIN users THEN logins[c] ELSE Nobody]'
BY DEF AccountBar, WhoBar, AccountOf, WhoOf

\* Who passes the check of a command may do what the command does.
LEMMA PermittedMay ==
  ASSUME AInv, ShortNames, NEW c \in Clients, NEW needed \in SUBSET Flags,
         NEW flag \in needed, calculate_perms(c, needed)
  PROVE  Acc!May(c, flag)
<1>1. logins[c] \in DOMAIN users
      /\ Cardinality(Satisfied(users[logins[c]], needed)) >= Cardinality(needed)
  BY DEF calculate_perms
<1>2. users[logins[c]] \in Seq(Texts)  BY <1>1 DEF AInv, PTypeOK
<1>3. needed \subseteq UNION {roles[r] : r \in RolesOf(logins[c]) \cap DOMAIN roles}
  BY <1>1, <1>2, CountingIsComparing DEF RolesOf
<1>4. PICK r \in RolesOf(logins[c]) \cap DOMAIN roles : flag \in roles[r]  BY <1>3
<1>5. WhoBar[c] = logins[c] /\ WhoBar[c] # Nobody
  BY <1>1, NamesAssumption DEF WhoBar, WhoOf, AInv, PTypeOK
<1>6. AccountBar[WhoBar[c]].roles = RolesOf(logins[c])
  BY <1>1, <1>5 DEF AccountBar, AccountOf
<1>7. WhoBar[c] # Nobody
      /\ \E q \in AccountBar[WhoBar[c]].roles \cap DOMAIN roles : flag \in roles[q]
  BY <1>4, <1>5, <1>6
<1>8. QED  BY <1>7, Bars DEF Acc!May

\* What lets a command through in the code lets it through in Accounts.
LEMMA CommandMay ==
  ASSUME AInv, ShortNames, NEW c \in Clients
  PROVE  /\ Permitted(c, "create_role") => Acc!May(c, "CREATE_ROLE")
         /\ Permitted(c, "add_roles") => Acc!May(c, "ADD_ROLES")
         /\ Permitted(c, "remove_roles") => Acc!May(c, "REMOVE_ROLES")
         /\ Permitted(c, "delete_user") => Acc!May(c, "DELETE_USER")
         /\ Permitted(c, "user_roles") => Acc!May(c, "INFO")
         /\ Permitted(c, "create_user") /\ DOMAIN users # {} => Acc!May(c, "CREATE_USER")
<1>1. ASSUME NEW flag \in Flags, calculate_perms(c, {flag})
      PROVE  Acc!May(c, flag)
  <2>1. {flag} \in SUBSET Flags /\ flag \in {flag}  OBVIOUS
  <2>2. QED  BY <1>1, <2>1, PermittedMay
<1>2. Permitted(c, "create_role") => Acc!May(c, "CREATE_ROLE")
  BY <1>1, FlagsAssumption DEF Permitted, Needs
<1>3. Permitted(c, "add_roles") => Acc!May(c, "ADD_ROLES")
  BY <1>1, FlagsAssumption DEF Permitted, Needs
<1>4. Permitted(c, "remove_roles") => Acc!May(c, "REMOVE_ROLES")
  BY <1>1, FlagsAssumption DEF Permitted, Needs
<1>5. Permitted(c, "delete_user") => Acc!May(c, "DELETE_USER")
  BY <1>1, FlagsAssumption DEF Permitted, Needs
<1>6. Permitted(c, "user_roles") => Acc!May(c, "INFO")
  BY <1>1, FlagsAssumption DEF Permitted, Needs
<1>7. Permitted(c, "create_user") /\ DOMAIN users # {} => Acc!May(c, "CREATE_USER")
  <2>1. DOMAIN users # {} => "CREATE_USER" \in gate  BY DEF AInv, GateShut, GateOK
  <2>2. gate \in SUBSET Flags  BY DEF AInv, PTypeOK
  <2>3. Permitted(c, "create_user") => calculate_perms(c, gate)  BY DEF Permitted, Needs
  <2>4. QED  BY <2>1, <2>2, <2>3, PermittedMay
<1>8. QED  BY <1>2, <1>3, <1>4, <1>5, <1>6, <1>7

\* A machine without accounts is Accounts without accounts.
LEMMA InitMaps ==
  ASSUME Init
  PROVE  Acc!Init
<1>1. AccountBar = [u \in {} |-> Nobody]  BY DEF Init, AccountBar
<1>2. WhoBar = [c \in Clients |-> Nobody]  BY DEF Init, WhoBar, WhoOf
<1>3. roles = [r \in {Admin} |-> Flags]  BY DEF Init, ADMIN
<1>4. answer = Acc!Answer(Nobody, "none", "Ok", {})  BY DEF Init, Answer, Acc!Answer
<1>5. QED  BY <1>1, <1>2, <1>3, <1>4, Bars DEF Acc!Init

\* Records that stay are accounts that stay, with those who act for them.
LEMMA SameAccounts ==
  ASSUME UNCHANGED users
  PROVE  UNCHANGED AccountBar
BY DEF AccountBar, AccountOf, Password, RolesOf

\* A step that neither logs anybody in or out nor removes an account of somebody
\* who is logged in changes nobody's identity.
LEMMA SameWho ==
  ASSUME UNCHANGED logins,
         \A c \in Clients : logins[c] \in DOMAIN users' <=> logins[c] \in DOMAIN users
  PROVE  UNCHANGED WhoBar
<1>1. \A c \in Clients : WhoOf(c)' = WhoOf(c)  BY DEF WhoOf
<1>2. QED  BY <1>1 DEF WhoBar

\* The first create_user founds the machine.
LEMMA FirstUserMaps ==
  ASSUME AInv, NEW c \in Clients, NEW u \in Users, NEW p \in Passwords, FirstUser(c, u, p)
  PROVE  Acc!Found(c, u, p)
<1>1. DOMAIN users = {} /\ users' = [x \in {u} |-> <<p, Admin>>] /\ UNCHANGED logins
  BY DEF FirstUser
<1>2. gate = {}
  BY <1>1 DEF FirstUser, Permitted, Needs, calculate_perms
<1>3. \A d \in Clients : logins[d] = Nobody  BY <1>2 DEF AInv, GateOK
<1>4. UNCHANGED WhoBar
  BY <1>1, <1>3, SameWho, NamesAssumption
<1>5. AccountOf(u)' = [pass |-> p, roles |-> {Admin}]
  <2>1. users'[u] = <<p, Admin>>  BY <1>1
  <2>2. Password(<<p, Admin>>) = p  BY DEF Password
  <2>3. {<<p, Admin>>[i] : i \in 2..Len(<<p, Admin>>)} = {Admin}
    <3>1. Len(<<p, Admin>>) = 2 /\ <<p, Admin>>[2] = Admin  OBVIOUS
    <3>2. 2..2 = {2}  OBVIOUS
    <3>3. QED  BY <3>1, <3>2
  <2>4. AccountOf(u)' = [pass |-> Password(users'[u]),
                         roles |-> {users'[u][i] : i \in 2..Len(users'[u])}]
    BY DEF AccountOf, RolesOf, Password
  <2>5. QED  BY <2>1, <2>2, <2>3, <2>4
<1>6. AccountBar' = [x \in {u} |-> [pass |-> p, roles |-> {Admin}]]
  <2>1. \A x \in {u} : AccountOf(x)' = [pass |-> p, roles |-> {Admin}]  BY <1>5
  <2>2. DOMAIN users' = {u}  BY <1>1
  <2>3. QED  BY <2>1, <2>2 DEF AccountBar
<1>7. DOMAIN AccountBar = {}  BY <1>1 DEF AccountBar
<1>8. UNCHANGED roles /\ answer' = Acc!Answer(c, "create_user", "Ok", {})
  BY DEF FirstUser, Answer, Acc!Answer
<1>9. QED  BY <1>4, <1>6, <1>7, <1>8, Bars, BarsPrimed DEF Acc!Found

\* What a record that was written is for Accounts.
LEMMA WrittenAccount ==
  ASSUME NEW u, users'[u] # <<>>
  PROVE  AccountOf(u)' = [pass  |-> users'[u][1],
                          roles |-> {users'[u][i] : i \in 2..Len(users'[u])}]
BY DEF AccountOf, RolesOf, Password

\* The other records are what they were.
LEMMA OtherAccount ==
  ASSUME NEW u, users'[u] = users[u]
  PROVE  AccountOf(u)' = AccountOf(u)
BY DEF AccountOf, RolesOf, Password

\* A command that answers an error changes nothing.
LEMMA RefuseMaps ==
  ASSUME NEW c \in Clients, UNCHANGED <<users, roles, logins>>,
         answer'.to = c, answer'.status # "Ok"
  PROVE  Acc!Refuse(c)
<1>1. UNCHANGED AccountBar  BY SameAccounts
<1>2. UNCHANGED WhoBar  BY SameWho
<1>3. QED  BY <1>1, <1>2, Bars, BarsPrimed DEF Acc!Refuse

\* A later create_user creates the account with the roles it names.
LEMMA CreateUserMaps ==
  ASSUME AInv, Considerate, NEW c \in Clients, NEW u \in Users, NEW p \in Passwords,
         NEW args \in RoleArgs, CreateUser(c, u, p, args)
  PROVE  Acc!Create(c, u, p, Named(args)) \/ Acc!Refuse(c)
<1>1. CASE u \in DOMAIN users
  <2>1. UNCHANGED <<users, roles, logins>>
        /\ answer' = Answer(c, "create_user", "KeyNotInserted", {})
    BY <1>1 DEF CreateUser
  <2>2. answer'.to = c /\ answer'.status # "Ok"  BY <2>1 DEF Answer
  <2>3. QED  BY <2>1, <2>2, RefuseMaps
<1>2. CASE u \notin DOMAIN users
  <2> DEFINE rec == <<p>> \o args
             new == [pass |-> p, roles |-> Named(args)]
  <2>1. /\ users' = Put(users, u, rec) /\ UNCHANGED <<roles, logins>>
        /\ answer' = Acc!Answer(c, "create_user", "Ok", Named(args))
        /\ \A d \in Clients : logins[d] # u
        /\ Named(args) \subseteq DOMAIN roles
    BY <1>2 DEF CreateUser, Answer, Acc!Answer, Considerate, Valid, Named
  <2>2. Acc!May(c, "CREATE_USER")
    <3>1. DOMAIN users # {} /\ Permitted(c, "create_user")  BY DEF CreateUser
    <3>2. QED  BY <3>1, CommandMay DEF Considerate
  <2>3. DOMAIN users' = DOMAIN users \cup {u}  BY <2>1 DEF Put
  <2>4. UNCHANGED WhoBar  BY <2>1, <2>3, SameWho
  <2>5. rec # <<>> /\ rec[1] = p /\ {rec[i] : i \in 2..Len(rec)} = Named(args)
    <3>1. <<p>> \in Seq(Texts) /\ <<p>> # <<>> /\ <<p>>[1] = p /\ Len(<<p>>) = 1
      BY DEF Texts
    <3>2. {<<p>>[i] : i \in 2..Len(<<p>>)} = {}  BY <3>1
    <3>3. QED  BY <3>1, <3>2, Appended
  <2>6. users'[u] = rec /\ \A v \in DOMAIN users : users'[v] = users[v]
    BY <1>2, <2>1 DEF Put
  <2> HIDE DEF rec
  <2>7. AccountOf(u)' = new
    <3>1. users'[u] # <<>> /\ users'[u][1] = p
          /\ {users'[u][i] : i \in 2..Len(users'[u])} = Named(args)
      BY <2>5, <2>6
    <3>2. QED  BY <3>1, WrittenAccount
  <2>8. \A v \in DOMAIN users : AccountOf(v)' = AccountOf(v)  BY <2>6, OtherAccount
  <2>9. AccountBar' = Acc!Put(AccountBar, u, new)
    <3>1. DOMAIN AccountBar = DOMAIN users  BY DEF AccountBar
    <3>2. \A v \in DOMAIN users' :
            AccountOf(v)' = IF v = u THEN new ELSE AccountBar[v]
      BY <2>3, <2>7, <2>8 DEF AccountBar
    <3> HIDE DEF new
    <3>3. AccountBar' = [v \in DOMAIN users' |-> AccountOf(v)']  BY DEF AccountBar
    <3>4. QED  BY <2>3, <3>1, <3>2, <3>3 DEF Acc!Put
  <2>10. u \notin DOMAIN AccountBar  BY <1>2 DEF AccountBar
  <2>11. Acc!Create(c, u, p, Named(args))
    BY <2>1, <2>2, <2>4, <2>9, <2>10, Bars, BarsPrimed DEF Acc!Create
  <2>12. QED  BY <2>11
<1>3. QED  BY <1>1, <1>2

\* create_role defines a role that was not there.
LEMMA CreateRoleMaps ==
  ASSUME AInv, Considerate, NEW c \in Clients, NEW r \in RoleNames, NEW F \in RoleFlags,
         CreateRole(c, r, F)
  PROVE  Acc!Define(c, r) \/ Acc!Refuse(c)
<1>1. CASE r \in DOMAIN roles
  <2>1. UNCHANGED <<users, roles, logins>>
        /\ answer' = Answer(c, "create_role", "KeyNotInserted", {})
    BY <1>1 DEF CreateRole
  <2>2. answer'.to = c /\ answer'.status # "Ok"  BY <2>1 DEF Answer
  <2>3. QED  BY <2>1, <2>2, RefuseMaps
<1>2. CASE r \notin DOMAIN roles
  <2>1. /\ roles' = Acc!Put(roles, r, F) /\ UNCHANGED <<users, logins>>
        /\ answer' = Acc!Answer(c, "create_role", "Ok", {})
        /\ F \in SUBSET Flags
    BY <1>2, RoleFlagsAssumption DEF CreateRole, Put, Acc!Put, Answer, Acc!Answer
  <2>2. Acc!May(c, "CREATE_ROLE")  BY CommandMay DEF CreateRole, Considerate
  <2>3. UNCHANGED AccountBar /\ UNCHANGED WhoBar  BY <2>1, SameAccounts, SameWho
  <2>4. Acc!Define(c, r)
    BY <1>2, <2>1, <2>2, <2>3, Bars, BarsPrimed DEF Acc!Define
  <2>5. QED  BY <2>4
<1>3. QED  BY <1>1, <1>2

\* One account gets other roles and keeps its password.
LEMMA RolesChange ==
  ASSUME NEW u \in DOMAIN users, NEW R, DOMAIN users' = DOMAIN users,
         users[u] # <<>>, users'[u] # <<>>, users'[u][1] = users[u][1],
         {users'[u][i] : i \in 2..Len(users'[u])} = R,
         \A v \in DOMAIN users \ {u} : users'[v] = users[v]
  PROVE  AccountBar' = [AccountBar EXCEPT ![u].roles = R]
<1>1. AccountOf(u)' = [AccountOf(u) EXCEPT !.roles = R]
  <2>1. AccountOf(u)' = [pass |-> users'[u][1], roles |-> R]  BY WrittenAccount
  <2>2. AccountOf(u) = [pass |-> users[u][1], roles |-> RolesOf(u)]
    BY DEF AccountOf, Password
  <2>3. QED  BY <2>1, <2>2
<1>2. \A v \in DOMAIN users \ {u} : AccountOf(v)' = AccountOf(v)  BY OtherAccount
<1>3. AccountBar' = [v \in DOMAIN users |-> AccountOf(v)']  BY DEF AccountBar
<1>4. DOMAIN AccountBar = DOMAIN users /\ \A v \in DOMAIN users : AccountBar[v] = AccountOf(v)
  BY DEF AccountBar
<1>5. [AccountBar EXCEPT ![u].roles = R] =
        [v \in DOMAIN users |->
           IF v = u THEN [AccountOf(u) EXCEPT !.roles = R] ELSE AccountOf(v)]
  BY <1>4
<1>6. \A v \in DOMAIN users :
        AccountOf(v)' = IF v = u THEN [AccountOf(u) EXCEPT !.roles = R] ELSE AccountOf(v)
  BY <1>1, <1>2
<1>7. AccountBar' =
        [v \in DOMAIN users |->
           IF v = u THEN [AccountOf(u) EXCEPT !.roles = R] ELSE AccountOf(v)]
  BY <1>3, <1>6, Zenon
<1>8. QED  BY <1>5, <1>7, Zenon

\* add_roles grants what it names and does not touch the password.
LEMMA AddRolesMaps ==
  ASSUME AInv, Considerate, NEW c \in Clients, NEW u \in Users, NEW args \in RoleArgs,
         AddRoles(c, u, args)
  PROVE  Acc!Grant(c, u, Named(args))
<1> DEFINE rec == users[u] \o args
           R == AccountBar[u].roles \cup Named(args)
<1>1. /\ u \in DOMAIN users /\ Valid(args) /\ UNCHANGED <<roles, logins>>
      /\ answer' = Acc!Answer(c, "add_roles", "Ok", Named(args))
      /\ users' = [users EXCEPT ![u] = rec]
  BY FieldsPlain DEF AddRoles, Considerate, Answer, Acc!Answer
<1>2. Acc!May(c, "ADD_ROLES")  BY CommandMay DEF AddRoles, Considerate
<1>3. users[u] \in Seq(Texts) /\ users[u] # <<>>
  BY <1>1 DEF AInv, PTypeOK, RecordsOK
<1>4. rec # <<>> /\ rec[1] = users[u][1]
      /\ {rec[i] : i \in 2..Len(rec)} = {users[u][i] : i \in 2..Len(users[u])} \cup Named(args)
  BY <1>3, Appended
<1>5. AccountBar[u].roles = {users[u][i] : i \in 2..Len(users[u])}
      /\ DOMAIN AccountBar = DOMAIN users
  BY <1>1 DEF AccountBar, AccountOf, RolesOf
<1>6. DOMAIN users' = DOMAIN users /\ users'[u] = rec
      /\ \A v \in DOMAIN users \ {u} : users'[v] = users[v]
  BY <1>1
<1>7. {rec[i] : i \in 2..Len(rec)} = R  BY <1>4, <1>5
<1> HIDE DEF rec, R
<1>8. AccountBar' = [AccountBar EXCEPT ![u].roles = R]
  <2>1. users'[u] # <<>> /\ users'[u][1] = users[u][1]
        /\ {users'[u][i] : i \in 2..Len(users'[u])} = R
    BY <1>4, <1>6, <1>7
  <2>2. QED  BY <1>1, <1>3, <1>6, <2>1, RolesChange
<1>9. UNCHANGED WhoBar  BY <1>1, <1>6, SameWho
<1>10. Named(args) \subseteq DOMAIN roles  BY <1>1 DEF Valid, Named
<1>11. AccountBar' = [AccountBar EXCEPT ![u].roles = @ \cup Named(args)]
  BY <1>8 DEF R
<1>12. QED
  BY <1>1, <1>2, <1>5, <1>9, <1>10, <1>11, Bars, BarsPrimed DEF Acc!Grant

\* remove_roles revokes what it names and nothing else.
LEMMA RemoveRolesMaps ==
  ASSUME AInv, Considerate, NEW c \in Clients, NEW u \in Users, NEW args \in RoleArgs,
         RemoveRoles(c, u, args)
  PROVE  Acc!Revoke(c, u, Named(args))
<1> DEFINE rec == <<users[u][1]>>
           R == AccountBar[u].roles \ Named(args)
<1>1. /\ u \in DOMAIN users /\ UNCHANGED <<roles, logins>>
      /\ answer' = Acc!Answer(c, "remove_roles", "Ok", Named(args))
      /\ Kept(users[u], args) = {}
      /\ ShortNames
  BY DEF RemoveRoles, Considerate, Answer, Acc!Answer
<1>2. Acc!May(c, "REMOVE_ROLES")  BY CommandMay DEF RemoveRoles, Considerate
<1>3. users[u] \in Seq(Texts) /\ users[u] # <<>>
  BY <1>1 DEF AInv, PTypeOK, RecordsOK
<1>4. users' = [users EXCEPT ![u] = rec]
  BY <1>1, <1>3, RemovedAll DEF RemoveRoles
<1>5. AccountBar[u].roles = RolesOf(u) /\ DOMAIN AccountBar = DOMAIN users
  BY <1>1 DEF AccountBar, AccountOf
<1>6. R = {}
  <2>1. RolesOf(u) = Named(RolesRead(users[u]))
    BY <1>1, <1>3, RolesReadAreFields DEF RolesOf
  <2>2. Named(RolesRead(users[u])) \subseteq Named(args)
    BY <1>1 DEF Kept, Named
  <2>3. QED  BY <1>5, <2>1, <2>2
<1>7. rec # <<>> /\ rec[1] = users[u][1] /\ {rec[i] : i \in 2..Len(rec)} = {}
  <2>1. Len(rec) = 1 /\ 2..1 = {}  OBVIOUS
  <2>2. QED  BY <2>1
<1>8. DOMAIN users' = DOMAIN users /\ users'[u] = rec
      /\ \A v \in DOMAIN users \ {u} : users'[v] = users[v]
  BY <1>1, <1>4
<1> HIDE DEF rec, R
<1>9. AccountBar' = [AccountBar EXCEPT ![u].roles = R]
  <2>1. users'[u] # <<>> /\ users'[u][1] = users[u][1]
        /\ {users'[u][i] : i \in 2..Len(users'[u])} = R
    BY <1>6, <1>7, <1>8
  <2>2. QED  BY <1>1, <1>3, <1>8, <2>1, RolesChange
<1>10. UNCHANGED WhoBar  BY <1>1, <1>8, SameWho
<1>11. AccountBar' = [AccountBar EXCEPT ![u].roles = @ \ Named(args)]
  BY <1>9 DEF R
<1>12. QED
  BY <1>1, <1>2, <1>5, <1>10, <1>11, Bars, BarsPrimed DEF Acc!Revoke

\* delete_user deletes the account, to which nobody is logged in.
LEMMA DeleteUserMaps ==
  ASSUME AInv, Considerate, NEW c \in Clients, NEW u \in Users, DeleteUser(c, u)
  PROVE  Acc!Delete(c, u)
<1>1. /\ u \in DOMAIN users /\ UNCHANGED <<roles, logins>>
      /\ answer' = Acc!Answer(c, "delete_user", "Ok", {})
      /\ users' = [x \in DOMAIN users \ {u} |-> users[x]]
  BY DEF DeleteUser, Answer, Acc!Answer
<1>2. Acc!May(c, "DELETE_USER")  BY CommandMay DEF DeleteUser, Considerate
<1>3. DOMAIN users' = DOMAIN users \ {u}
      /\ \A v \in DOMAIN users \ {u} : users'[v] = users[v]
  BY <1>1
<1>4. DOMAIN AccountBar = DOMAIN users
      /\ \A v \in DOMAIN users : AccountBar[v] = AccountOf(v)
  BY DEF AccountBar
<1>5. AccountBar' = [x \in DOMAIN AccountBar \ {u} |-> AccountBar[x]]
  <2>1. \A v \in DOMAIN users \ {u} : AccountOf(v)' = AccountBar[v]
    BY <1>3, <1>4, OtherAccount
  <2>2. AccountBar' = [v \in DOMAIN users' |-> AccountOf(v)']  BY DEF AccountBar
  <2>3. QED  BY <1>3, <1>4, <2>1, <2>2
<1>6. WhoBar' = [d \in Clients |-> IF WhoBar[d] = u THEN Nobody ELSE WhoBar[d]]
  <2>1. \A d \in Clients : WhoOf(d)' = IF WhoOf(d) = u THEN Nobody ELSE WhoOf(d)
    BY <1>1, <1>3, NamesAssumption DEF WhoOf
  <2>2. QED  BY <2>1 DEF WhoBar
<1>7. QED
  BY <1>1, <1>2, <1>4, <1>5, <1>6, Bars, BarsPrimed DEF Acc!Delete

\* user_roles lists the roles of the account.
LEMMA UserRolesMaps ==
  ASSUME AInv, Considerate, NEW c \in Clients, NEW u \in Users, UserRoles(c, u)
  PROVE  Acc!Show(c, u)
<1>1. /\ u \in DOMAIN users /\ UNCHANGED <<users, roles, logins>> /\ ShortNames
      /\ answer' = Acc!Answer(c, "user_roles", "Ok",
                              Named(RolesRead(users[u])) \cap DOMAIN roles)
  BY DEF UserRoles, Answer, Acc!Answer, Considerate
<1>2. Acc!May(c, "INFO")  BY CommandMay DEF UserRoles, Considerate
<1>3. users[u] \in Seq(Texts) /\ users[u] # <<>>
  BY <1>1 DEF AInv, PTypeOK, RecordsOK
<1>4. RolesOf(u) = Named(RolesRead(users[u]))
  BY <1>1, <1>3, RolesReadAreFields DEF RolesOf
<1>5. AccountBar[u].roles = RolesOf(u) /\ DOMAIN AccountBar = DOMAIN users
  BY <1>1 DEF AccountBar, AccountOf
<1>6. UNCHANGED AccountBar /\ UNCHANGED WhoBar  BY <1>1, SameAccounts, SameWho
<1>7. QED
  BY <1>1, <1>2, <1>4, <1>5, <1>6, Bars, BarsPrimed DEF Acc!Show

\* A login lets in whoever gives the password of the account.
LEMMA LoginMaps ==
  ASSUME AInv, NEW c \in Clients, NEW u \in Users, NEW p \in Texts, Login(c, u, p)
  PROVE  p \in Passwords /\ Acc!Enter(c, u, p)
<1>1. /\ logins[c] = Nobody /\ u \in DOMAIN users /\ Password(users[u]) = p
      /\ logins' = [logins EXCEPT ![c] = u] /\ UNCHANGED <<users, roles>>
      /\ answer' = Acc!Answer(c, "login", "Ok", {})
      /\ logins \in [Clients -> Users \cup {Nobody}]
  BY DEF Login, Answer, Acc!Answer, AInv, PTypeOK
<1>2. p \in Passwords  BY <1>1 DEF AInv, RecordsOK, Password
<1>3. Nobody \notin DOMAIN users  BY NamesAssumption DEF AInv, PTypeOK
<1>4. WhoBar[c] = Nobody /\ DOMAIN AccountBar = DOMAIN users /\ AccountBar[u].pass = p
  BY <1>1, <1>3 DEF WhoBar, WhoOf, AccountBar, AccountOf
<1>5. WhoBar' = [WhoBar EXCEPT ![c] = u]
  <2>1. \A d \in Clients : WhoOf(d)' = IF d = c THEN u ELSE WhoOf(d)
    BY <1>1 DEF WhoOf
  <2>2. QED  BY <2>1 DEF WhoBar
<1>6. UNCHANGED AccountBar  BY <1>1, SameAccounts
<1>7. QED
  BY <1>1, <1>2, <1>4, <1>5, <1>6, Bars, BarsPrimed DEF Acc!Enter

\* A logout ends one client's login.
LEMMA LogoutMaps ==
  ASSUME AInv, NEW c \in Clients, Logout(c)
  PROVE  Acc!Leave(c)
<1>1. /\ logins' = [logins EXCEPT ![c] = Nobody] /\ UNCHANGED <<users, roles>>
      /\ answer' = Acc!Answer(c, "logout", "Ok", {})
      /\ logins \in [Clients -> Users \cup {Nobody}]
  BY DEF Logout, Answer, Acc!Answer, AInv, PTypeOK
<1>2. Nobody \notin DOMAIN users  BY NamesAssumption DEF AInv, PTypeOK
<1>3. WhoBar' = [WhoBar EXCEPT ![c] = Nobody]
  <2>1. \A d \in Clients : WhoOf(d)' = IF d = c THEN Nobody ELSE WhoOf(d)
    BY <1>1, <1>2 DEF WhoOf
  <2>2. QED  BY <2>1 DEF WhoBar
<1>4. UNCHANGED AccountBar  BY <1>1, SameAccounts
<1>5. QED  BY <1>1, <1>3, <1>4, Bars, BarsPrimed DEF Acc!Leave

\* A restart ends every login and keeps accounts and roles.
LEMMA RestartMaps ==
  ASSUME AInv, Restart
  PROVE  Acc!Restart
<1>1. UNCHANGED <<users, roles, answer>> /\ logins' = [c \in Clients |-> Nobody]
  BY DEF Restart, AInv
<1>2. Nobody \notin DOMAIN users  BY NamesAssumption DEF AInv, PTypeOK
<1>3. WhoBar' = [c \in Clients |-> Nobody]  BY <1>1, <1>2 DEF WhoBar, WhoOf
<1>4. UNCHANGED AccountBar  BY <1>1, SameAccounts
<1>5. QED  BY <1>1, <1>3, <1>4, Bars, BarsPrimed DEF Acc!Restart

\* Every step of the interpreter is a step of Accounts or none.
LEMMA NextMaps ==
  ASSUME AInv, Considerate, [Next]_vars
  PROVE  [Acc!Next]_(Acc!vars)
<1>t. \A args \in RoleArgs : Named(args) \in SUBSET RoleNames  BY ArgsType DEF Named
<1>1. ASSUME NEW c \in Clients, NEW u \in Users, NEW p \in Passwords,
             FirstUser(c, u, p) \/ \E args \in RoleArgs : CreateUser(c, u, p, args)
      PROVE  Acc!Next
  <2>1. CASE FirstUser(c, u, p)  BY <2>1, FirstUserMaps DEF Acc!Next
  <2>2. ASSUME NEW args \in RoleArgs, CreateUser(c, u, p, args)
        PROVE  Acc!Next
    <3>1. Acc!Create(c, u, p, Named(args)) \/ Acc!Refuse(c)  BY <2>2, CreateUserMaps
    <3>2. QED  BY <1>t, <3>1 DEF Acc!Next
  <2>3. QED  BY <1>1, <2>1, <2>2
<1>2. ASSUME NEW c \in Clients, NEW u \in Users, NEW args \in RoleArgs,
             AddRoles(c, u, args) \/ RemoveRoles(c, u, args)
      PROVE  Acc!Next
  <2>1. Acc!Grant(c, u, Named(args)) \/ Acc!Revoke(c, u, Named(args))
    BY <1>2, AddRolesMaps, RemoveRolesMaps
  <2>2. QED  BY <1>t, <2>1 DEF Acc!Next
<1>3. ASSUME NEW c \in Clients, NEW u \in Users, DeleteUser(c, u) \/ UserRoles(c, u)
      PROVE  Acc!Next
  BY <1>3, DeleteUserMaps, UserRolesMaps DEF Acc!Next
<1>4. ASSUME NEW c \in Clients, NEW u \in Users, NEW p \in Texts, Login(c, u, p)
      PROVE  Acc!Next
  BY <1>4, LoginMaps DEF Acc!Next
<1>5. ASSUME NEW c \in Clients, NEW r \in RoleNames, NEW F \in RoleFlags, CreateRole(c, r, F)
      PROVE  Acc!Next
  BY <1>5, CreateRoleMaps DEF Acc!Next
<1>6. ASSUME NEW c \in Clients, Logout(c) \/ Refuse(c)
      PROVE  Acc!Next
  <2>1. CASE Logout(c)  BY <2>1, LogoutMaps DEF Acc!Next
  <2>2. CASE Refuse(c)
    <3>1. UNCHANGED <<users, roles, logins>>
          /\ answer'.to = c /\ answer'.status # "Ok"
      BY <2>2 DEF Refuse, Answer
    <3>2. QED  BY <3>1, RefuseMaps DEF Acc!Next
  <2>3. QED  BY <1>6, <2>1, <2>2
<1>7. CASE Restart  BY <1>7, RestartMaps DEF Acc!Next
<1>8. CASE UNCHANGED vars
  <2>1. UNCHANGED <<users, roles, logins, answer>>  BY <1>8 DEF vars
  <2>2. UNCHANGED AccountBar /\ UNCHANGED WhoBar  BY <2>1, SameAccounts, SameWho
  <2>3. QED  BY <2>1, <2>2, Bars, BarsPrimed DEF Acc!vars
<1>9. QED
  BY <1>1, <1>2, <1>3, <1>4, <1>5, <1>6, <1>7, <1>8 DEF Next, Command

\* For any clients, names, passwords, roles and sets of permissions the
\* interpreter does to its two databases and its logins what Accounts says: what
\* an account is and may do changes only by the commands of those who had the
\* permission, a deleted account is nobody's, and a restart loses logins and
\* nothing else.  Names and passwords have to be shorter than 128 characters,
\* remove_roles has to name every role the account has, the name of a deleted
\* account must not be given to another while somebody is still logged in with
\* it, and records must not run into each other when they grow.
THEOREM InterpreterImplements ==
  ASSUME Considerate
  PROVE  Spec => ImplementsAccounts
<1>1. AInv /\ [Next]_vars => AInv'  BY AStep
<1>2. AInv /\ [Next]_vars => [Acc!Next]_(Acc!vars)  BY NextMaps
<1>3. QED  BY <1>1, <1>2, AInit, InitMaps, PTL DEF Spec, ImplementsAccounts, Acc!Spec
=============================================================================
