SPECIFICATION FairSpec
CONSTANTS
  MAX_NUM_PROCESSES = 4
  MaxPid = 4
  SleepTimes <- MCSleepTimes
  WaitPids <- AnyPid
  IdlePids <- Idle
  Disciplined = TRUE
INVARIANTS
  NeverStuck
PROPERTIES
  ReadyRuns
  SleepersWake
CHECK_DEADLOCK FALSE
