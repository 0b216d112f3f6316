SPECIFICATION Spec
CONSTANTS
  Dim = 4
  Width = 2
  ByteXor <- MCXor
  Keys <- MCKeys
  Counters <- MCCounters
  StartOf <- MCStartOf
  BlockOf <- MCBlockOf
  Inputs <- MCShortInputs
  MaxOps = 5
INVARIANT SavedIsInput
