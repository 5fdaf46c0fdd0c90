SPECIFICATION SemSpec
CONSTANTS
  MAX_NUM_PROCESSES = 3
  MaxPid = 4
  SleepTimes = {}
  WaitPids = {0}
  IdlePids = {}
  Disciplined = TRUE
  MAX_NUM_SEMAPHORES = 1
  MAX_NUM_SEMDESCRIPTORS_PER_PROCESS = 1
  SemIds <- IdsFromBelow
  SemFlags <- SomeFlags
  SemCounts <- CountsFromBelow
  MaxCount = 1
INVARIANTS
  Placement
  WaitsForOneThing
  SemDescriptorsAgree
PROPERTIES
  TokensHandedOver
VIEW Anonymous
CHECK_DEADLOCK FALSE
