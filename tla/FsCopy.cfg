SPECIFICATION Spec
CONSTANTS
  HopLimit = 2
  STATUS_MAX_LEN = 1
  Letters <- LetterSet
  FsKeys <- CopiedKeySet
  FsDirs = {}
  FsTrees <- TreeSet
  FsWrites <- CopiedWriteSet
  FsCopies = {}
  FsParts = {}
  MaxNodes = 4
PROPERTY
  WholeSubtrees
