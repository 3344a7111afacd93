SPECIFICATION Spec
CONSTANTS
  Letters <- AllLetters
  HopLimit = 2
  STATUS_MAX_LEN = 1
  Keys <- TreeKeys
  Dirs <- TreeDirs
  DelLists <- TreeDelLists
  Trees <- TreeTrees
  Values <- TreeValues
  Parts = {}
  MaxKeyLen = 6
  MaxKeys = 4
INVARIANT CpTreeCopies
