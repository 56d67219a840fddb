SPECIFICATION FairSpec
CONSTANTS
  MaxProcesses = 3
  MaxExec = 3
  Recycle = FALSE
  Program = {shell, prog}
  ExitCode = {7}
  Client = {"any", "once"}
INVARIANTS
  TableSound
  JoinWaitsForExit
  OnceNotRemovedUnderJoin
  OnceNoStandstill
PROPERTIES
  OnceJoinsEnd
CHECK_DEADLOCK FALSE
