--------------------------- MODULE MCPermissions ---------------------------
(* Small instances of Permissions for TLC.                                    *)
EXTENDS Permissions, TLC

MCSymmetry == Permutations(Clients)

\* Two roles that grant different things and share one.
MCRoleFlags == {{"CREATE_USER", "ADD_ROLES"}, {"ADD_ROLES", "REMOVE_ROLES"}}

MCShort == [t \in Texts |-> IF t = NoText THEN 0 ELSE 5]

\* A password whose length a signed char does not hold.
MCLong == [t \in Texts |-> CASE t = NoText -> 0 [] t = "p" -> 200 [] OTHER -> 5]

\* A role whose name has 256 characters, which spell a field.
MCWide == [t \in Texts |-> CASE t = NoText -> 0 [] t = "ops" -> 256 [] OTHER -> 5]

MCAsWritten == [args \in RoleArgs |-> <<NoText, "admin">>]
MCNeighbour == {<<"admin">>}
=============================================================================
