SPECIFICATION Spec
CONSTANTS
  HopLimit = 1
  STATUS_MAX_LEN = 1
  MAX_PTR_HOPS = 0
  Requests <- MismatchRequests
  EnvWrites = {}
  Bodies = {}
  BufIds = {1, 2, 3, 4, 5}
  NoId = 0
  Faults = FALSE
PROPERTY
  FreedOnlyBySuccess
