SPECIFICATION Spec
CONSTANTS
  UseNames <- MCUseNames
  LOCKFILE_ORDER <- MCLockfiles
  Contents <- MCContents
  Launches <- MCLaunches
  Requests <- MCRequests
  MaxRounds = 2
  MaxOdd = 1
INVARIANTS RolesOpen OnRecord UpToDate Reachable EnvAgrees
PROPERTY GeneratedOnce
CHECK_DEADLOCK FALSE
CONSTRAINT FewLate
