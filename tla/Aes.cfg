SPECIFICATION Spec
CONSTANTS
  Dim = 4
  Width = 2
  ByteXor <- MCXor
  Keys <- MCKeys
  Counters <- MCCounters
  StartOf <- MCStartOf
  BlockOf <- MCBlockOf
  Inputs <- MCInputs
  MaxOps = 4
INVARIANTS TypeOK CipherSaved CountersFresh RoundTrip InPlace
