SPECIFICATION Spec
CONSTANTS
  HopLimit = 2
  STATUS_MAX_LEN = 1
  Letters <- LetterSet
  FsKeys <- KeySet
  FsDirs <- DirSet
  FsTrees <- TreeSet
  FsWrites <- WriteSet
  FsCopies <- CopySet
  FsParts <- PartSet
  MaxNodes = 4
INVARIANTS
  TypeOK
  OthersKeep
  NeverTorn
  ListShows
  ListsOnlyKeys
PROPERTY
  SameContents
