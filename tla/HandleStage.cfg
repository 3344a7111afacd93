SPECIFICATION Spec
CONSTANTS
  HopLimit = 1
  STATUS_MAX_LEN = 1
  MAX_PTR_HOPS = 0
  Requests <- StageRequests
  EnvWrites <- StageEnv
  Bodies = {}
  BufIds = {1, 2, 3, 4, 5, 6, 7}
  NoId = 0
  Faults = FALSE
PROPERTY
  StageMatchesGet
