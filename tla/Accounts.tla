------------------------------ MODULE Accounts ------------------------------
(***************************************************************************)
(* What the interpreter promises about users and roles.  An account has a  *)
(* password and a set of roles, a role is a set of permissions, a client   *)
(* acts for the account it logged in to, and a command that needs a        *)
(* permission is executed only for an account one of whose roles grants    *)
(* it.  While there is no account, anybody may create the first, which     *)
(* gets the role admin.  Accounts and roles survive a restart, logins do   *)
(* not.                                                                    *)
(*                                                                         *)
(* Any command may be refused: how a caller comes to hold a permission is  *)
(* fixed here, not that holding it is enough.                              *)
(***************************************************************************)
CONSTANTS Clients,    \* the clients
          Users,      \* the names of accounts
          RoleNames,  \* the names of roles
          Passwords,  \* the passwords
          Flags,      \* the permissions
          Admin,      \* the role that has them all
          Nobody      \* no account

VARIABLES account,  \* the accounts: name |-> password and roles
          role,     \* the roles: name |-> permissions
          who,      \* of every client, the account it acts for
          answer    \* the last answer: to whom, to which command, its status,
                    \* and the roles the command named or was told

vars == <<account, role, who, answer>>

Answer(c, cmd, status, value) ==
  [to |-> c, cmd |-> cmd, status |-> status, value |-> value]

Put(f, x, y) == [z \in DOMAIN f \cup {x} |-> IF z = x THEN y ELSE f[z]]

May(c, flag) ==
  /\ who[c] # Nobody
  /\ \E r \in account[who[c]].roles \cap DOMAIN role : flag \in role[r]

Init ==
  /\ account = [u \in {} |-> Nobody]
  /\ role = [r \in {Admin} |-> Flags]
  /\ who = [c \in Clients |-> Nobody]
  /\ answer = Answer(Nobody, "none", "Ok", {})

Found(c, u, p) ==
  /\ answer' = Answer(c, "create_user", "Ok", {})
  /\ DOMAIN account = {}
  /\ account' = [x \in {u} |-> [pass |-> p, roles |-> {Admin}]]
  /\ UNCHANGED <<role, who>>

Create(c, u, p, R) ==
  /\ answer' = Answer(c, "create_user", "Ok", R)
  /\ May(c, "CREATE_USER") /\ u \notin DOMAIN account /\ R \subseteq DOMAIN role
  /\ account' = Put(account, u, [pass |-> p, roles |-> R])
  /\ UNCHANGED <<role, who>>

\* What is changed of an account is its set of roles.
Grant(c, u, R) ==
  /\ answer' = Answer(c, "add_roles", "Ok", R)
  /\ May(c, "ADD_ROLES") /\ u \in DOMAIN account /\ R \subseteq DOMAIN role
  /\ account' = [account EXCEPT ![u].roles = @ \cup R]
  /\ UNCHANGED <<role, who>>

Revoke(c, u, R) ==
  /\ answer' = Answer(c, "remove_roles", "Ok", R)
  /\ May(c, "REMOVE_ROLES") /\ u \in DOMAIN account
  /\ account' = [account EXCEPT ![u].roles = @ \ R]
  /\ UNCHANGED <<role, who>>

\* Nobody acts for an account that is gone.
Delete(c, u) ==
  /\ answer' = Answer(c, "delete_user", "Ok", {})
  /\ May(c, "DELETE_USER") /\ u \in DOMAIN account
  /\ account' = [x \in DOMAIN account \ {u} |-> account[x]]
  /\ who' = [d \in Clients |-> IF who[d] = u THEN Nobody ELSE who[d]]
  /\ UNCHANGED role

Define(c, r) ==
  /\ answer' = Answer(c, "create_role", "Ok", {})
  /\ May(c, "CREATE_ROLE") /\ r \notin DOMAIN role
  /\ \E F \in SUBSET Flags : role' = Put(role, r, F)
  /\ UNCHANGED <<account, who>>

Show(c, u) ==
  /\ May(c, "INFO") /\ u \in DOMAIN account
  /\ answer' = Answer(c, "user_roles", "Ok", account[u].roles \cap DOMAIN role)
  /\ UNCHANGED <<account, role, who>>

Enter(c, u, p) ==
  /\ answer' = Answer(c, "login", "Ok", {})
  /\ who[c] = Nobody /\ u \in DOMAIN account /\ account[u].pass = p
  /\ who' = [who EXCEPT ![c] = u]
  /\ UNCHANGED <<account, role>>

Leave(c) ==
  /\ answer' = Answer(c, "logout", "Ok", {})
  /\ who' = [who EXCEPT ![c] = Nobody]
  /\ UNCHANGED <<account, role>>

Refuse(c) ==
  /\ answer'.to = c /\ answer'.status # "Ok"
  /\ UNCHANGED <<account, role, who>>

Restart ==
  /\ who' = [c \in Clients |-> Nobody]
  /\ UNCHANGED <<account, role, answer>>

Next ==
  \/ \E c \in Clients :
       \/ \E u \in Users, p \in Passwords :
            \/ Found(c, u, p) \/ Enter(c, u, p)
            \/ \E R \in SUBSET RoleNames : Create(c, u, p, R)
       \/ \E u \in Users :
            \/ Delete(c, u) \/ Show(c, u)
            \/ \E R \in SUBSET RoleNames : Grant(c, u, R) \/ Revoke(c, u, R)
       \/ \E r \in RoleNames : Define(c, r)
       \/ Leave(c) \/ Refuse(c)
  \/ Restart

Spec == Init /\ [][Next]_vars
==============================================================================
