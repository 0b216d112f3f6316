SPECIFICATION Spec
CONSTANTS
  alice = alice
  bob = bob
  up = up
  file = file
  good = good
  other = other
  short = short
  weak = weak
  new = new
  NoName = NoName
  Empty = Empty
  Elsewhere = Elsewhere
  Users <- MCTwoUsers
  Odd <- MCNone
  Target <- MCTarget
  Passwords <- MCPasswords
  Others <- MCNone
  Length <- MCLength
  Kinds <- MCKinds
  Short <- MCShort
  Faults <- MCNoFaults
INVARIANT JsonUpdated
