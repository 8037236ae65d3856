CONSTANTS
  MaxPolls = 3
  MaxRuns = 2
  Layouts <- MCLayouts
SPECIFICATION FairSpec
INVARIANTS
  TypeOK
  SuccessIsComplete
  AbortKeepsBoxAlive
  ImageTakenAlong
PROPERTIES
  RunningRootReleased
  UnpackedOnPartition
  
