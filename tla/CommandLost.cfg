SPECIFICATION PartsSpec
CONSTANTS
  Words = {0}
  Lens = {0}
  Objects = {0}
  MaxData = 84
  MaxOffs = 2
  MaxPuts = 1
  MaxBio = 40
  None = None
  OfDumpsys <- MCDumpsys
  OfService <- MCService
  OfCache <- MCCache
  OfOta <- MCOta
  OfCommand <- MCCommand
  OfAtrace <- MCAtrace
  OfLshal <- MCLshal
  OfRelay <- MCRelay
  OfReplayer <- MCReplayer
  OfBackup <- MCBackup
CHECK_DEADLOCK FALSE
INVARIANT EndedInTimeReported
