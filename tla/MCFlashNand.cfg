CONSTANTS
  EbCnt = 3
  PagesPerEb = 2
  MaxImgPages = 4
SPECIFICATION FlashFairSpec
INVARIANTS
  QuietSuccessMeansImage
PROPERTIES
  BadBlocksUntouched
  BehindImageUntouched
  FlashTerminates
