SPECIFICATION SemSpec
CONSTANTS
  MAX_NUM_PROCESSES = 3
  MaxPid = 3
  SleepTimes = {}
  WaitPids = {0}
  IdlePids = {}
  Disciplined = TRUE
  MAX_NUM_SEMAPHORES = 1
  MAX_NUM_SEMDESCRIPTORS_PER_PROCESS = 1
  SemIds = {7}
  SemFlags <- SomeFlags
  SemCounts = {0, 1}
  MaxCount = 1
INVARIANT
  DestroyedWhenUnused
VIEW Anonymous
CHECK_DEADLOCK FALSE
