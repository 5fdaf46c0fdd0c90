SPECIFICATION Spec
CONSTANTS
  MAX_NUM_MQS = 2
  MAX_NUM_QUEUES = 3
  MAX_NUM_MESSAGES = 2
  MAX_NUM_MESSAGES_PER_MQ = 2
  MAX_MESSAGE_LENGTH = 1
  MAX_NUM_MQDESCRIPTORS_PER_PROCESS = 2
  MaxDescriptors = 3
  Processes <- OneProcess
  Ids <- TwoIds
  FlagSets <- AllFlags
  OpenPriorities = {0, 1}
  WritePriorities <- WithinAndBelow
  WriteSizes = {1, 2}
  ReadSizes = {1}
  MaxWrites = 3
INVARIANT
  QueuesComplete
