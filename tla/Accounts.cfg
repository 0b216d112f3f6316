SPECIFICATION Spec
CONSTANTS
  alice = alice
  bob = bob
  up = up
  file = file
  good = good
  other = other
  short = short
  weak = weak
  new = new
  NoName = NoName
  Empty = Empty
  Elsewhere = Elsewhere
  Users <- MCAllUsers
  Odd <- MCPaths
  Target <- MCTarget
  Passwords <- MCPasswords
  Others <- MCNew
  Length <- MCLength
  Kinds <- MCKinds
  Short <- MCShort
  Faults <- MCAllFaults
SYMMETRY MCSymmetry
CONSTRAINT MCBound
INVARIANTS TypeOK AccountsKept SessionIsUsers CredentialsCleared StartsAgain WelcomeNeedsUser
PROPERTY OthersFoldersKept
