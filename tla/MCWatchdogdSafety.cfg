SPECIFICATION Spec
CONSTANTS
  Clients = {c1, c2}
  NoClient = NoClient
  Threads = {t1, t2}
  FdLimit = 6
  SocketMayFail = TRUE
  LibcLocks = TRUE
SYMMETRY Symmetry
INVARIANTS
  TypeOK
  ArmedBeforeSignalled
  NeverUnguarded
  SoleWatchdog
  FdsAccounted
  ServingIsReachable
  CleanExitRemovesSocket
  AnswersAreFresh
