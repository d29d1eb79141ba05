------------------------------ MODULE MCStorage ------------------------------
(* Small instances of Storage for TLC: bytes are numbers, and the values      *)
(* have lengths that make free extents split, fit exactly, and stay over.     *)
EXTENDS Storage

MCBytes == 0..2
MCTwoLengths == {<<2>>, <<1, 2, 1>>}
MCTwoValues == {<<1>>, <<2, 2>>}
MCTwoBytes == 0..1
MCOnes == {<<1>>, <<1, 1>>}
MCMisread == {[off |-> 0, len |-> 1, rec |-> 1], [off |-> 2, len |-> 2, rec |-> 3]}
==============================================================================
