SPECIFICATION Spec
CONSTANTS
  Names = {"f", "g"}
  Objects = {"o1", "o2"}
  Chunks <- MCChunks
  Disks <- MCDisks
  Lists <- MCLists
  Faults = {"open", "lseek", "mmap", "madvise", "munmap", "close", "write"}
  MaxOps = 3
INVARIANTS TypeOK OwnedOnce NothingLost SavedWhole SavedInOrder ReloadShows
CHECK_DEADLOCK FALSE
