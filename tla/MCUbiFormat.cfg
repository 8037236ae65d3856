CONSTANTS
  EbCnt = 4
  MaxImgEbs = 3
  MaxConsecutive = 2
  InitialEcs <- MCInitialEcs
  Stdins = {"user", "eof"}
SPECIFICATION FairSpec
INVARIANTS
  TypeOK
  ImageOnce
  SpareBlocksSuffice
  AllFormatted
  WearKept
  StopsAtBadRun
PROPERTIES
  UserTerminates
