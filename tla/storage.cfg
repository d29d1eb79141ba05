\* Sets, erases, reads, closing and opening, with a cache and without; updates
\* with values that are not longer, of a database that is not cached.
SPECIFICATION Spec
CONSTANTS
  Keys = {k1, k2}
  Byte <- MCBytes
  Zero = 0
  Values <- MCTwoLengths
  CacheModes = {TRUE, FALSE}
  Calls = {"shrink", "get_cached", "close", "destroy"}
  FreedIntact = TRUE
  Misread = {}
  MaxDat = 6
  MaxRec = 4
  MaxSlot = 3
INVARIANTS NoSharedSpace OneRecordPerKey ReloadAgrees CacheMirrorsFile
PROPERTY ImplementsKV
CHECK_DEADLOCK FALSE
