SPECIFICATION FairSpec
CONSTANTS
  Clients = {c1}
  NoClient = NoClient
  Threads = {t1, t2}
  FdLimit = 8
  SocketMayFail = FALSE
  LibcLocks = TRUE
PROPERTIES
  ShutdownCompletes
  ViolationInterrupts
  QueriesAreServed
  ResumesWithDescriptors
