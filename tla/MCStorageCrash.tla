---------------------------- MODULE MCStorageCrash ----------------------------
(* Small instances of StorageCrash for TLC.                                 *)
EXTENDS StorageCrash

MCBytes == 0..2
MCTwoLengths == {<<2>>, <<1, 2, 1>>}
==============================================================================
