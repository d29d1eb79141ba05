\* Transactions whose callers leave the buffers alone until they commit.
SPECIFICATION TSpec
CONSTANTS
  Keys = {k1, k2}
  Values <- MCValues
  Buffers = {b1, b2}
  BuffersReused = FALSE
  MaxCmds = 2
INVARIANT TTypeOK
PROPERTY CommitRunsQueued
