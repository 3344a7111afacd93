SPECIFICATION TreeSpec
CONSTANTS
  Letters <- AllLetters
  HopLimit = 3
  STATUS_MAX_LEN = 1
  Keys <- AllKeys
  Dirs <- AllDirs
  DelLists <- AllDelLists
  Trees <- AllTrees
  Values <- AllValues
  Parts <- LinkParts
  MaxKeyLen = 6
  MaxKeys = 4
INVARIANTS
  TypeOK
  ReservedUntouched
  WriteReadBack
  LinkTargetSafe
  DelTreeExact
  CpTreeExact
  CpListShallow
  ListComplete
  ReadsAgree
