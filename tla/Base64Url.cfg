SPECIFICATION Spec
CONSTANTS
  Users <- MCUsers
  Tabs = {"b64"}
  MaxOps <- MCMaxOps
  Starts <- MCStarts
  NameLength <- MCNameLength
  Passwords <- MCPasswords
  PasswordOf <- MCPasswordOf
  OutNames <- MCOutNames
  ScrapLens <- MCScrapLens
  Dim = 4
  Texts <- MCTexts
  Contents <- MCContents
  Page = 4
  Behind <- MCBehind
  OddKeys <- MCOddKeys
  Q = 5
  Alpha = 2
  DigitBits = 2
  Chars = 2
  Words = 2
INVARIANT UrlRoundTrip
CHECK_DEADLOCK FALSE
