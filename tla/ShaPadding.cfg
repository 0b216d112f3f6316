SPECIFICATION Spec
CONSTANTS
  Sizes <- MCSizes
INVARIANTS PaddedAsFips WalkEndsAtMark
