SPECIFICATION Spec
CONSTANTS
  MaxProcesses = 3
  MaxExec = 3
  Recycle = FALSE
  Program = {shell, prog}
  ExitCode = {7}
  Client = {"once"}
INVARIANTS
  JoinReturnsExitStatus
CHECK_DEADLOCK FALSE
