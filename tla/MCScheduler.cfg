SPECIFICATION Spec
CONSTANTS
  MAX_NUM_PROCESSES = 3
  MaxPid = 4
  SleepTimes <- MCSleepTimes
  WaitPids <- AnyPid
  IdlePids <- NoIdle
  Disciplined = FALSE
INVARIANTS
  TypeOK
  Placement
  StatusAgrees
  BlockedForAReason
  TimersSorted
  ChildrenAreLive
  ZombiesReapable
  OwnChildrenWake
PROPERTIES
  TurnComesNearer
  TickWakesElapsed
  ReapedByAParent
CHECK_DEADLOCK FALSE
