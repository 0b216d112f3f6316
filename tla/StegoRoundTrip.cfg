SPECIFICATION Spec
CONSTANTS
  Images <- MCPlainImages
  Files <- MCPlainFiles
  MaxName = 3
INVARIANT RoundTrip
CHECK_DEADLOCK FALSE
