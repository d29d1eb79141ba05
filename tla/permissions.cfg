\* Callers who take all roles from an account or none, do not create an account
\* under a name somebody is logged in with, and use passwords below 128
\* characters; records never run into each other.
SPECIFICATION Spec
CONSTANTS
  Clients = {c1, c2}
  Users = {"ann", "bob"}
  RoleNames = {"admin", "ops", "desk"}
  Passwords = {"p"}
  Length <- MCShort
  Misread <- MCAsWritten
  Flags = {"CREATE_USER", "DELETE_USER", "CREATE_ROLE", "DELETE_ROLE",
           "ADD_ROLES", "REMOVE_ROLES", "INFO"}
  Unlisted = {"DELETE_ROLE"}
  RoleFlags <- MCRoleFlags
  Nobody = nobody
  MaxArgs = 2
  MaxFields = 3
  Damaged = {}
  Liberties = {}
INVARIANTS PTypeOK OpenOnlyAtFirst PermissionsAsGranted
PROPERTIES ImplementsAccounts
SYMMETRY MCSymmetry
