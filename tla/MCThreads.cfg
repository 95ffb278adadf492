SPECIFICATION Spec
CONSTANTS
  Bits = 1
  MaxPages = 2
  MaxDelta = 8
  MaxWaiters = 3
  Threads = {1, 2, 3}
  Ops <- MCOps
  Builds <- MCBuilds
  Free = Free
CHECK_DEADLOCK FALSE
PROPERTIES ImplementsAtomicMemory OperationsReturn
