\* Every command, in any order, with descriptors running out and two names that
\* may lead to one file.
SPECIFICATION Spec
CONSTANTS
  Clients = {c1, c2}
  Names = {"a", "b"}
  FileOf <- MCOneFile
  Addrs = {p, q}
  MaxFd = 2
  Contents = {empty, full}
  Empty = empty
  Null = null
  Commands <- AllCommands
  Courteous = FALSE
  Garbage <- MCNoDescriptor
INVARIANTS SessionsTypeOK OneDescriptorPerFile
CHECK_DEADLOCK FALSE
