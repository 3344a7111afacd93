SPECIFICATION OwnSpec
CONSTANTS
  HopLimit = 1
  STATUS_MAX_LEN = 1
  MAX_PTR_HOPS = 1
  Requests <- OwnRequests
  EnvWrites = {}
  Bodies <- OwnBodies
  BufIds = {1, 2, 3, 4, 5, 6}
  NoId = 0
  Faults = TRUE
INVARIANTS
  TypeOK
  BorrowSafe
  ListCoherent
PROPERTIES
  CacheCoherent
  StagedWriteSettled
