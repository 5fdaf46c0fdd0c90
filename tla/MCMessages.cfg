SPECIFICATION Spec
CONSTANTS
  MAX_NUM_MQS = 2
  MAX_NUM_QUEUES = 3
  MAX_NUM_MESSAGES = 3
  MAX_NUM_MESSAGES_PER_MQ = 3
  MAX_MESSAGE_LENGTH = 1
  MAX_NUM_MQDESCRIPTORS_PER_PROCESS = 1
  MaxDescriptors = 2
  Processes <- OneProcess
  Ids <- OneId
  FlagSets <- AllFlags
  OpenPriorities = {2, 3}
  WritePriorities <- WithinAndBelow
  WriteSizes <- Lengths
  ReadSizes = {1}
  MaxWrites = 4
INVARIANTS
  TypeOK
  QueuesComplete
  MessagesCounted
PROPERTY
  HighestOldestFirst
