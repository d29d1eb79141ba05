---------------------------- MODULE MCIndexFile ----------------------------
(* Small instances of IndexFile for TLC: bytes of two values, lengths and     *)
(* offsets of two bytes.                                                      *)
EXTENDS IndexFile

\* The empty key, one that looks like a valid byte, and one that looks like the
\* length of a key and an invalid byte.
MCKeys == {<<>>, <<1>>, <<1, 0, 0>>}

\* A key whose length does not fit into two bytes.
MCLongKeys == {<<1>>, <<1, 0, 0, 1>>}

MCPlaces == {[off |-> 2, len |-> 1], [off |-> 1, len |-> 2]}
=============================================================================
