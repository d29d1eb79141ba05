\* Every call, both cache modes.
SPECIFICATION Spec
CONSTANTS
  Keys = {k1, k2}
  Byte <- MCTwoBytes
  Zero = 0
  Values <- MCOnes
  CacheModes = {TRUE, FALSE}
  Calls <- OptionalCalls
  FreedIntact = TRUE
  Misread <- MCMisread
  MaxDat = 2
  MaxRec = 2
  MaxSlot = 2
INVARIANTS TypeOK OneRecordUntilTorn
CHECK_DEADLOCK FALSE
