SPECIFICATION FairSpec
CONSTANTS
  m = m
  t1 = t1
  t2 = t2
  mutex = mutex
  io = io
  Thread <- MCThread
  Main = m
  NoThread = NoThread
  Semaphore <- MCSemaphore
  Device = {io}
  InitialValue <- MCInitialValue
  MaxValue = 2
  NoSem = NoSem
INVARIANTS
  ListsMatchStatus
  DestroySafely
  NoLostWakeup
  UserContextIntact
PROPERTIES
  ThreadsProgress
  ImplementsAbs
