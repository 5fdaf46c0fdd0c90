SPECIFICATION ResSpec
CONSTANTS
  MAX_NUM_PROCESSES = 2
  MaxPid = 4
  SleepTimes = {}
  WaitPids = {0}
  IdlePids = {}
  Disciplined = FALSE
  MAX_NUM_RESOURCES = 1
  ResIds = {7, 8}
  ResTypes = {0, 1}
  ResModes <- Modes
  MaxFd = 2
INVARIANTS
  ResDescriptorsAgree
  OneExclusiveUser
PROPERTY
  OnlyZombiesLeakDescriptors
VIEW Anonymous
CHECK_DEADLOCK FALSE
