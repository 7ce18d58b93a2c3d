SPECIFICATION FairSpec
CONSTANTS
  Clients = {c1}
  NoClient = NoClient
  Threads = {t1, t2}
  FdLimit = 5
  SocketMayFail = FALSE
  LibcLocks = FALSE
PROPERTY
  Resumes
