SPECIFICATION Spec
CONSTANTS
  Images <- MCImages
  Files <- MCFiles
  MaxName = 3
INVARIANTS BytesInPlace SeekFindsFile InBounds
CHECK_DEADLOCK FALSE
