SPECIFICATION MCSpec
CONSTANTS
  a = a
  b = b
  c = c
  p1 = p1
  p2 = p2
  p3 = p3
  MAX_SEMAPHORE = 1
  Program = {p1, p2, p3}
  Name = {a, b}
  Value = {0, 1}
  MaxSignals = 3
INVARIANTS
  DiskKeepsFiles
  CrashIsContained
  FileTableSound
  UserSemaphoresSound
CHECK_DEADLOCK FALSE
