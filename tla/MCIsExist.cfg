SPECIFICATION Spec
CONSTANTS
  MaxProcesses = 2
  MaxExec = 1
  Recycle = FALSE
  Program = {shell, prog}
  ExitCode = {7}
  Client = {"once"}
INVARIANTS
  IsExistTellsTheTruth
CHECK_DEADLOCK FALSE
