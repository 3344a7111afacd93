SPECIFICATION Spec
CONSTANTS
  Word = 256
  Built <- MCBuilt
  Langtypes <- MCLangtypes
  MaxBody = 2
  FillBytes = {7}
  PartBytes <- MCPartBytes
  Names <- MCNames
  MaxListed = 4
  MaxDay = 47600
INVARIANTS TypeOK ReadsAsMade ParseSafe RoundTrip Sorted ListedOnce DateAgrees
PROPERTY PartContained
CHECK_DEADLOCK FALSE
