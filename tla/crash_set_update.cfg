\* The process dies in the middle of sets and of updates with values that are
\* not longer than the old ones; erases run to the end.
SPECIFICATION CSpec
CONSTANTS
  Keys = {k1, k2}
  Byte <- MCBytes
  Zero = 0
  Values <- MCTwoLengths
  CacheModes = {FALSE}
  Calls = {"shrink", "close"}
  FreedIntact = TRUE
  CrashIn = {"set", "update"}
  Misread = {}
  MaxDat = 6
  MaxRec = 3
  MaxSlot = 3
INVARIANT CrashNoSharedSpace
PROPERTY CrashImplementsKV
CHECK_DEADLOCK FALSE
