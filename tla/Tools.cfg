SPECIFICATION Spec
CONSTANTS
  Users <- MCUsers
  Tabs <- MCTabs
  MaxOps <- MCMaxOps
  Starts <- MCStarts
  NameLength <- MCNameLength
  Passwords <- MCPasswords
  PasswordOf <- MCPasswordOf
  OutNames <- MCOutNames
  Dim = 4
  ScrapLens <- MCScrapLens
  Texts <- MCTexts
  Contents <- MCContents
  Page = 4
  Behind <- MCBehind
  OddKeys <- MCOddKeys
  Q = 5
  Alpha = 2
  DigitBits = 2
  Chars = 2
  Words = 2
INVARIANTS
  EncodedAsRfc TextRoundTrip SharedAgree KeysWhole
  SeekRecovers DecryptRecovers ReportedAsSaved
PROPERTY NothingOverwritten
CHECK_DEADLOCK FALSE
