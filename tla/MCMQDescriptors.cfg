SPECIFICATION Spec
CONSTANTS
  MAX_NUM_MQS = 2
  MAX_NUM_QUEUES = 2
  MAX_NUM_MESSAGES = 1
  MAX_NUM_MESSAGES_PER_MQ = 1
  MAX_MESSAGE_LENGTH = 1
  MAX_NUM_MQDESCRIPTORS_PER_PROCESS = 2
  MaxDescriptors = 3
  Processes = {p, r}
  Ids <- SmallIds
  FlagSets <- CreateOrNot
  OpenPriorities = {0}
  WritePriorities = {0}
  WriteSizes = {1}
  ReadSizes = {1}
  MaxWrites = 0
INVARIANTS
  DescriptorsAgree
SYMMETRY ProcessSymmetry
CHECK_DEADLOCK FALSE
