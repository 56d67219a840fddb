SPECIFICATION FairSpec
CONSTANTS
  Thread = {t1, t2}
  UserTick = 1
  SystemTick = 3
  TimerDelays = {1, 4}
  PollDelay = 3
  IODelays = {2, 5}
INVARIANTS
  InterruptsOnTime
  ModeIsRight
PROPERTIES
  HogPreempted
