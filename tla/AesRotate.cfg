SPECIFICATION RotateSpec
CONSTANTS
  Shapes <- MCSquares
  Rounds <- MCRounds
  Modulus <- MCModulus
INVARIANT Rotated
PROPERTY Ends
CHECK_DEADLOCK FALSE
