SPECIFICATION PartsFairSpec
CONSTANTS
  Words = {0, 7}
  Lens = {0, 1, 2, 12, 20}
  Objects = {0, 3}
  MaxData = 84
  MaxOffs = 2
  MaxPuts = 4
  MaxBio = 40
  None = None
  OfDumpsys <- MCDumpsys
  OfService <- MCService
  OfCache <- MCCache
  OfOta <- MCOta
  OfCommand <- MCCommand
  OfAtrace <- MCAtrace
  OfLshal <- MCLshal
  OfRelay <- MCRelay
  OfReplayer <- MCReplayer
  OfBackup <- MCBackup
CHECK_DEADLOCK FALSE
INVARIANTS WithinBuffer GetsWhatWasPut OneReportForItsCaller DumpComplete UpdatePrepared
  RequestUnderstood SectionSound  ListingSound StartedInOrder RestoredExactly
PROPERTIES CacheTakenInTurn CacheSpared EveryPartEnds NobodyWaitsForEver
