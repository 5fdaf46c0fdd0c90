SPECIFICATION Spec
CONSTANTS
  MAX_NUM_PROCESSES = 3
  DSOS_MAX_SYSCALLS = 2
  Implemented = {1}
  Numbers <- OutAndImplemented
  Arguments = {1, 2}
INVARIANTS
  
  OverrunsOnlyInterrupts
  CalledOnce
PROPERTY
  TicksDelivered
CHECK_DEADLOCK FALSE
