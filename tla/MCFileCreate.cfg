SPECIFICATION Spec
CONSTANTS
  MAX_FILE = 7
  Name = {a, b}
  Existing = {a, b}
  OpenType = {0}
  Program = {p}
  HostFd = {0, 1, 2, 3, 4, 5, 6, 7, 8, 9, 10, 11, 12, 13, 14, 15, 16, 17, 18, 19, 20}
  HostBase = 4
  Data = {0, 1}
  UserSize = 0
  MaxLen = 0
  Calls = {"Create", "Open", "Close", "Socket"}
  Garbling = FALSE
INVARIANT HeldIsOpen
CHECK_DEADLOCK FALSE
