CONSTANTS
  EbCnt = 3
  PagesPerEb = 3
  MaxImgPages = 10
SPECIFICATION FairSpec
INVARIANTS
  TypeOK
  PagesInOrder
  NoPageLost
  WarnedIffIncomplete
  NothingBehindImage
PROPERTIES
  ImplementsImageStore
  OnlyErasedPagesProgrammed
  MovesOn
