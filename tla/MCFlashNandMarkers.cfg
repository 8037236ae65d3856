CONSTANTS
  EbCnt = 3
  PagesPerEb = 2
  MaxImgPages = 4
SPECIFICATION FlashSpec
INVARIANTS
  CleanmarkersOnlyWithJ
