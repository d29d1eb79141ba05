---------------------------- MODULE Permissions ----------------------------
(***************************************************************************)
(* Users, roles and permissions of the command interpreter: its two        *)
(* internal databases (__ACI_USERS__ and __ACI_ROLES__), the logins, and   *)
(* the permissions it asks for.  One action is one command that gets past  *)
(* the checks of interpret; Refuse is every command that does not.         *)
(*                                                                         *)
(* The record of a user is a string of fields, each a byte with a length   *)
(* and that many characters: the password first, then one for every role.  *)
(* Here it is the sequence of what the fields read as.                     *)
(***************************************************************************)
EXTENDS Integers, Sequences, FiniteSets

CONSTANTS
  Clients,     \* the clients, one descriptor each
  Users,       \* the names of accounts
  RoleNames,   \* the names of roles
  Passwords,   \* the passwords
  Length,      \* the number of characters of a name or password
  Misread,     \* how fields read that were written for names of 256 characters
  Flags,       \* the permissions: aci::FLAG
  Unlisted,    \* those that perm_table leaves out
  Nobody,      \* no account
  RoleFlags,   \* the sets of permissions create_role is asked for
  MaxArgs,     \* bound: the number of roles in a command
  MaxFields,   \* bound: the number of fields of a record
  Damaged,     \* what a record may turn into when its neighbour's grows
  Liberties    \* what callers allow themselves

Admin == "admin"
NoText == ""

\* What a field may read as, and the roles a command names.
Texts == Passwords \cup RoleNames \cup {NoText}
RoleArgs == UNION {[1..n -> RoleNames] : n \in 0..MaxArgs}

ASSUME NamesAssumption ==
  Admin \in RoleNames /\ Nobody \notin Users /\ MaxArgs \in Nat /\ MaxFields \in Nat
ASSUME LengthAssumption == Length \in [Texts -> Nat] /\ Length[NoText] = 0
ASSUME MisreadAssumption == Misread \in [RoleArgs -> Seq(Texts)]
ASSUME DamagedAssumption == Damaged \subseteq Seq(Texts)
ASSUME FlagsAssumption ==
  /\ IsFiniteSet(Flags) /\ Unlisted \subseteq Flags
  /\ {"CREATE_USER", "CREATE_ROLE", "ADD_ROLES", "REMOVE_ROLES", "DELETE_USER", "INFO"}
       \subseteq Flags
ASSUME RoleFlagsAssumption == RoleFlags \subseteq SUBSET Flags
ASSUME LibertiesAssumption == Liberties \subseteq {"remove_some", "reuse_name"}

VARIABLES
  users,    \* the records: name |-> fields
  roles,    \* the roles: name |-> set of permissions
  logins,   \* of every client, the name it logged in with
  gate,     \* the permissions create_user asks for
  answer    \* the last answer, with what it is about

vars == <<users, roles, logins, gate, answer>>

ADMIN == Flags

perm_table == Flags \ Unlisted

\* The status a command returns, and the roles it named or was told.
Answer(c, cmd, status, value) ==
  [to |-> c, cmd |-> cmd, status |-> status, value |-> value]

Named(args) == {args[i] : i \in DOMAIN args}

Put(f, x, y) == [z \in DOMAIN f \cup {x} |-> IF z = x THEN y ELSE f[z]]

-----------------------------------------------------------------------------
(* Records.                                                                *)

\* A length is written as one byte.
Fields(args) ==
  IF \E i \in DOMAIN args : Length[args[i]] > 255 THEN Misread[args] ELSE args

Password(rec) == IF rec = <<>> THEN NoText ELSE rec[1]

\* The number of fields in front of those that are read as roles.  The length
\* of the password is a signed char here: from 128 on nothing is read, and 255
\* is -1, which makes the password a role.
RolesFrom(rec) ==
  IF rec = <<>> THEN 0
  ELSE IF Length[rec[1]] < 128 THEN 1
  ELSE IF Length[rec[1]] = 255 THEN 0
  ELSE Len(rec)

RolesRead(rec) == SubSeq(rec, RolesFrom(rec) + 1, Len(rec))

\* Of the roles that are kept only the number matters: in their place the record
\* gets the arguments, one after the other, and past the last of them anything.
Kept(rec, args) == {i \in DOMAIN RolesRead(rec) : RolesRead(rec)[i] \notin Named(args)}

Removed(rec, args) ==
  LET front == SubSeq(rec, 1, RolesFrom(rec))
      n     == Cardinality(Kept(rec, args))
  IN  IF n <= Len(args) THEN {front \o Fields(SubSeq(args, 1, n))}
      ELSE {front \o Fields(args) \o past : past \in [1..n - Len(args) -> Texts]}

-----------------------------------------------------------------------------
(* What interpret asks before it calls a command.                          *)

\* The permissions a record satisfies, each counted once.
\* A mutant: once for every role that grants it.
SatisfiedByRole(rec, needed) ==
  {g \in (needed \cap perm_table) \X DOMAIN RolesRead(rec) :
     LET r == RolesRead(rec)[g[2]] IN r \in DOMAIN roles /\ g[1] \in roles[r]}

Satisfied(rec, needed) ==
  {f \in needed \cap perm_table :
     \E i \in DOMAIN RolesRead(rec) :
       RolesRead(rec)[i] \in DOMAIN roles /\ f \in roles[RolesRead(rec)[i]]}

calculate_perms(c, needed) ==
  \/ needed = {}
  \/ /\ logins[c] \in DOMAIN users
     /\ Cardinality(Satisfied(users[logins[c]], needed)) >= Cardinality(needed)

\* The permissions of a command in the command table.  delete_role is not among
\* the actions below: perm_table lacks its permission, so that nobody has it.
Needs(cmd) ==
  CASE cmd = "create_user"  -> gate
    [] cmd = "create_role"  -> {"CREATE_ROLE"}
    [] cmd = "add_roles"    -> {"ADD_ROLES"}
    [] cmd = "remove_roles" -> {"REMOVE_ROLES"}
    [] cmd = "delete_user"  -> {"DELETE_USER"}
    [] cmd = "user_roles"   -> {"INFO"}

Permitted(c, cmd) == calculate_perms(c, Needs(cmd))

-----------------------------------------------------------------------------
(* The commands.                                                           *)

\* The first account gets the role admin, whatever roles are named; from then
\* on create_user asks for every permission.  A mutant: it goes on asking for
\* none.
FirstUserOpen(c, u, p) ==
  /\ DOMAIN users = {} /\ Permitted(c, "create_user")
  /\ Length[p] <= 255
  /\ users' = [x \in {u} |-> <<p, Admin>>]
  /\ answer' = Answer(c, "create_user", "Ok", {})
  /\ UNCHANGED <<roles, logins, gate>>

FirstUser(c, u, p) ==
  /\ DOMAIN users = {} /\ Permitted(c, "create_user")
  /\ Length[p] <= 255
  /\ gate' = ADMIN
  /\ users' = [x \in {u} |-> <<p, Admin>>]
  /\ answer' = Answer(c, "create_user", "Ok", {})
  /\ UNCHANGED <<roles, logins>>

Valid(args) == \A i \in DOMAIN args : args[i] \in DOMAIN roles

CreateUser(c, u, p, args) ==
  /\ DOMAIN users # {} /\ Permitted(c, "create_user")
  /\ Length[p] <= 255 /\ \A i \in DOMAIN args : Length[args[i]] <= 255
  /\ Valid(args)
  /\ "reuse_name" \in Liberties \/ \A d \in Clients : logins[d] # u
  /\ \/ /\ u \in DOMAIN users
        /\ answer' = Answer(c, "create_user", "KeyNotInserted", {})
        /\ UNCHANGED users
     \/ /\ u \notin DOMAIN users
        /\ users' = Put(users, u, <<p>> \o args)
        /\ answer' = Answer(c, "create_user", "Ok", Named(args))
  /\ UNCHANGED <<roles, logins, gate>>

CreateRole(c, r, F) ==
  /\ Permitted(c, "create_role")
  /\ Length[r] <= 256 /\ F \subseteq perm_table
  /\ \/ /\ r \in DOMAIN roles
        /\ answer' = Answer(c, "create_role", "KeyNotInserted", {})
        /\ UNCHANGED roles
     \/ /\ r \notin DOMAIN roles
        /\ roles' = Put(roles, r, F)
        /\ answer' = Answer(c, "create_role", "Ok", {})
  /\ UNCHANGED <<users, logins, gate>>

\* The record grows: DB::update writes it in place, over its neighbour's.
\* A mutant: nobody's permissions are asked for.
AddRolesAnybody(c, u, args) ==
  /\ Len(args) > 0 /\ u \in DOMAIN users /\ Valid(args)
  /\ Len(users[u] \o Fields(args)) <= MaxFields
  /\ users' = [users EXCEPT ![u] = @ \o Fields(args)]
  /\ answer' = Answer(c, "add_roles", "Ok", Named(args))
  /\ UNCHANGED <<roles, logins, gate>>

AddRoles(c, u, args) ==
  /\ Permitted(c, "add_roles")
  /\ Len(args) > 0 /\ u \in DOMAIN users /\ Valid(args)
  /\ Len(users[u] \o Fields(args)) <= MaxFields
  /\ LET grown == [users EXCEPT ![u] = @ \o Fields(args)]
     IN  \/ users' = grown
         \/ \E v \in DOMAIN users \ {u}, rec \in Damaged :
              users' = [grown EXCEPT ![v] = rec]
  /\ answer' = Answer(c, "add_roles", "Ok", Named(args))
  /\ UNCHANGED <<roles, logins, gate>>

RemoveRoles(c, u, args) ==
  /\ Permitted(c, "remove_roles")
  /\ Len(args) > 0 /\ u \in DOMAIN users
  /\ "remove_some" \in Liberties \/ Kept(users[u], args) = {}
  /\ \E rec \in Removed(users[u], args) : users' = [users EXCEPT ![u] = rec]
  /\ answer' = Answer(c, "remove_roles", "Ok", Named(args))
  /\ UNCHANGED <<roles, logins, gate>>

\* The logins of the account stay.
DeleteUser(c, u) ==
  /\ Permitted(c, "delete_user")
  /\ u \in DOMAIN users
  /\ users' = [x \in DOMAIN users \ {u} |-> users[x]]
  /\ answer' = Answer(c, "delete_user", "Ok", {})
  /\ UNCHANGED <<roles, logins, gate>>

UserRoles(c, u) ==
  /\ Permitted(c, "user_roles")
  /\ u \in DOMAIN users
  /\ answer' = Answer(c, "user_roles", "Ok", Named(RolesRead(users[u])) \cap DOMAIN roles)
  /\ UNCHANGED <<users, roles, logins, gate>>

Login(c, u, p) ==
  /\ logins[c] = Nobody
  /\ u \in DOMAIN users /\ Password(users[u]) = p
  /\ logins' = [logins EXCEPT ![c] = u]
  /\ answer' = Answer(c, "login", "Ok", {})
  /\ UNCHANGED <<users, roles, gate>>

\* logout, and the end of a connection.  A mutant: it leaves a login without a
\* name.
LogoutEmptied(c) ==
  /\ logins' = [logins EXCEPT ![c] = NoText]
  /\ answer' = Answer(c, "logout", "Ok", {})
  /\ UNCHANGED <<users, roles, gate>>

Logout(c) ==
  /\ logins' = [logins EXCEPT ![c] = Nobody]
  /\ answer' = Answer(c, "logout", "Ok", {})
  /\ UNCHANGED <<users, roles, gate>>

\* For want of permissions, or by its own checks (of an account, a role or a
\* permission nobody has, a wrong password, a name that is too long), any command
\* but logout may be refused.
Refuse(c) ==
  /\ answer' = Answer(c, "refused", "InterpretError", {})
  /\ UNCHANGED <<users, roles, logins, gate>>

\* A new process: the constructor opens the databases and sets the role admin
\* (which is refused if it is there), init_commands fills the command table.
Restart ==
  /\ logins' = [c \in Clients |-> Nobody]
  /\ roles' = IF Admin \in DOMAIN roles THEN roles ELSE Put(roles, Admin, ADMIN)
  /\ gate' = IF DOMAIN users = {} THEN {} ELSE {"CREATE_USER"}
  /\ UNCHANGED <<users, answer>>

-----------------------------------------------------------------------------

Init ==
  /\ users = [u \in {} |-> <<>>]
  /\ roles = [r \in {Admin} |-> ADMIN]
  /\ logins = [c \in Clients |-> Nobody]
  /\ gate = {}
  /\ answer = Answer(Nobody, "none", "Ok", {})

Command(c) ==
  \/ \E u \in Users, p \in Passwords :
       \/ FirstUser(c, u, p)
       \/ \E args \in RoleArgs : CreateUser(c, u, p, args)
  \/ \E u \in Users, p \in Texts : Login(c, u, p)
  \/ \E u \in Users :
       \/ DeleteUser(c, u)
       \/ UserRoles(c, u)
       \/ \E args \in RoleArgs : AddRoles(c, u, args) \/ RemoveRoles(c, u, args)
  \/ \E r \in RoleNames, F \in RoleFlags : CreateRole(c, r, F)
  \/ Logout(c)
  \/ Refuse(c)

Next == (\E c \in Clients : Command(c)) \/ Restart

Spec == Init /\ [][Next]_vars
-----------------------------------------------------------------------------
(* Properties.                                                             *)

\* The values each variable ranges over.
PTypeOK ==
  /\ DOMAIN users \subseteq Users /\ users \in [DOMAIN users -> Seq(Texts)]
  /\ DOMAIN roles \subseteq RoleNames /\ roles \in [DOMAIN roles -> SUBSET Flags]
  /\ logins \in [Clients -> Users \cup {Nobody}]
  /\ gate \in SUBSET Flags

\* Whoever has not logged in may create an account only while there is none:
\* neither the deletion of accounts nor a restart opens the door again while
\* one is left (create_user, aci/aci.cpp:616 and 300).
OpenOnlyAtFirst ==
  \A c \in Clients :
    logins[c] \notin DOMAIN users /\ calculate_perms(c, gate) => DOMAIN users = {}

\* Of the permissions perm_table lists, a client has exactly those that are
\* granted by a role in its account's record, however many of the roles grant
\* one and whatever has become of the others (calculate_perms,
\* aci/aci.cpp:849).
RolesOf(u) == {users[u][i] : i \in 2..Len(users[u])}

PermissionsAsGranted ==
  \A c \in Clients :
    LET held    == logins[c] \in DOMAIN users
        granted == UNION {roles[r] : r \in RolesOf(logins[c]) \cap DOMAIN roles}
    IN  \A needed \in (SUBSET perm_table) \ {{}} :
          calculate_perms(c, needed) <=> held /\ needed \subseteq granted

\* The interpreter implements Accounts: passwords and roles are what the
\* commands of those who had the permission made of them, and a client acts for
\* the account it logged in to and for no other.
Acc == INSTANCE Accounts WITH
         account <- [u \in DOMAIN users |->
                       [pass |-> Password(users[u]), roles |-> RolesOf(u)]],
         role    <- roles,
         who     <- [c \in Clients |->
                       IF logins[c] \in DOMAIN users THEN logins[c] ELSE Nobody]

ImplementsAccounts == Acc!Spec
=============================================================================
