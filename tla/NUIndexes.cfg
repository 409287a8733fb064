SPECIFICATION Spec
CONSTANTS
  UseNames <- MCUseNames
  LOCKFILE_ORDER <- MCLockfiles
  Contents <- MCContents
  Launches <- MCQueues
  Requests <- MCSelective
  MaxRounds = 2
  MaxOdd = 1
INVARIANT IndexesApart
CHECK_DEADLOCK FALSE
