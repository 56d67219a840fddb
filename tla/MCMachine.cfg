SPECIFICATION MCSpec
CONSTANTS
  main = main
  th1 = th1
  th2 = th2
  th3 = th3
  ByteBits = 2
  PageSize = 8
  NumPhysPages = 3
  KernelThread = {main, th1, th2}
  Main = main
  StackSize = 12
  Value = {1}
  UserThread = {th1, th2, th3}
  NoThread = NoThread
  SpaceSize = 256
  Programs <- MCPrograms
INVARIANTS
  MemoryAccessRight
  UserStateKept
  ProgramLoaded
PROPERTIES
  IntegersExact
  PreciseFaults
  SwitchResumes
  ProgramsLoadAndEnd
CHECK_DEADLOCK FALSE
