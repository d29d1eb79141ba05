\* An update with a longer value overwrites its neighbour in .dat.
SPECIFICATION Spec
CONSTANTS
  Keys = {k1, k2}
  Byte <- MCBytes
  Zero = 0
  Values <- MCTwoValues
  CacheModes = {FALSE}
  Calls = {"grow"}
  FreedIntact = TRUE
  Misread = {}
  MaxDat = 6
  MaxRec = 3
  MaxSlot = 3
PROPERTY OneKeyChanges
CHECK_DEADLOCK FALSE
