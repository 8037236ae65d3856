CONSTANTS
  EbCnt = 4
  MaxImgEbs = 3
  MaxConsecutive = 2
  InitialEcs <- MCInitialEcs
  Stdins = {"user", "eof"}
SPECIFICATION Spec
INVARIANTS
  SuccessMeansFlashed
