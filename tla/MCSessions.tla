------------------------------ MODULE MCSessions ------------------------------
(* Small instances of Sessions for TLC: two clients, two databases.  The      *)
(* number -1 is a descriptor nobody has.                                      *)
EXTENDS Sessions

MCOwnFiles == [n \in Names |-> n]
MCOneFile  == [n \in Names |-> "a"]
MCNoDescriptor == {-1}
==============================================================================
