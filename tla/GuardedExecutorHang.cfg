SPECIFICATION FairSpec
CONSTANTS
  Enabled = {"security"}
  FailSafe = TRUE
  CrashInWrite = TRUE
PROPERTY AlwaysReturns
