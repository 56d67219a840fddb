SPECIFICATION Spec
CONSTANTS
  MaxProcesses = 3
  MaxExec = 2
  Recycle = TRUE
  Program = {shell, prog}
  ExitCode = {7}
  Client = {"once"}
INVARIANTS
  FindsItself
CHECK_DEADLOCK FALSE
