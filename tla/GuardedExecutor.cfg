SPECIFICATION FairSpec
CONSTANTS
  Enabled = {"security", "sram"}
  FailSafe = TRUE
  CrashInWrite = TRUE
INVARIANTS
  TypeOK
  NoOrphan
  ResultNotLost
  ReasonIsInReading
PROPERTIES
  KillsAfterTerm
  DecidesAsPromised
  RunReturns
