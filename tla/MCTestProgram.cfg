SPECIFICATION TestSpec
CONSTANTS
  MAX_NUM_PROCESSES = 4
  MaxPid = 4
  SleepTimes = {1}
  WaitPids = {0}
  IdlePids <- Sleeper
  Disciplined = TRUE
  MAX_NUM_SEMAPHORES = 2
  MAX_NUM_SEMDESCRIPTORS_PER_PROCESS = 32
  SemIds = {}
  SemFlags = {}
  SemCounts = {}
  MaxCount = 3
  NumChildren = 2
  Tests <- AllTests
INVARIANTS
  MutualExclusion
  NoIdleTokens
  WaitsForOneThing
  CleanShutdown
PROPERTIES
  CountsAtomically
  Terminates
CHECK_DEADLOCK FALSE
