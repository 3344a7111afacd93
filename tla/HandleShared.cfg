SPECIFICATION SharedSpec
CONSTANTS
  HopLimit = 1
  STATUS_MAX_LEN = 1
  MAX_PTR_HOPS = 2
  Requests <- AllRequests
  EnvWrites <- AllEnv
  Bodies <- OwnBodies
  BufIds = {1, 2, 3, 4, 5, 6, 7, 8, 9, 10}
  NoId = 0
  Faults = FALSE
INVARIANTS
  BorrowSafe
  RelayoutVisible
PROPERTY
  CyclesReturn
