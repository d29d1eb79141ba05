\* Clients that close and destroy only what nobody else works on, and never
\* destroy an open database by its name; the listener runs at any time.
SPECIFICATION Spec
CONSTANTS
  Clients = {c1, c2}
  Names = {"a", "b"}
  FileOf <- MCOwnFiles
  Addrs = {p, q}
  MaxFd = 3
  Contents = {empty, full}
  Empty = empty
  Null = null
  Commands = {"open", "switch", "close", "close_all", "destroy_closed",
              "destroy_all", "write", "read", "logout", "disconnect"}
  Courteous = TRUE
  Garbage <- MCNoDescriptor
INVARIANTS DescriptorsOwn WorkingDbAlive StaysUp
PROPERTIES ConnectionsKept OpenMeansOpen ImplementsWorkspaces
CHECK_DEADLOCK FALSE
