SPECIFICATION Spec
CONSTANTS
  W32 = 4
  W64 = 8
  P32 = 2
  P64 = 5
  EdgeInts = {0, 1, 2, 15, 16, 17, 63, 126, 127, 128, 129, 192, 254, 255}
  PageCounts = {0, 1, 3}
  PageSize = 4
INVARIANTS EnginesCompute AccessesChecked
CHECK_DEADLOCK FALSE
