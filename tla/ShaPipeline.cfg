SPECIFICATION FairSpec
CONSTANTS
  Sizes <- MCSizes
  Limit = 1
INVARIANTS TypeOK NoDataRace DigestInOrder ListBounded PaddingOwned
PROPERTIES Termination ImplementsDigest
