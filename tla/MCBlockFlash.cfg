SPECIFICATION BlockSpec
CONSTANTS
  Loops = {l0, l1}
  Entries = {bin, usr, old}
  ImageEntries = {bin, usr}
  Images <- MCImages
  NfiFiles <- MCNfiFiles
  BufPages = 1
  MaxRuns = 2
  Names <- MCNames
  Archives <- MCArchives
  Padding = 3
  PipeSize = 2
  KernelUnits = 4
  BufUnits = 2
CHECK_DEADLOCK FALSE
INVARIANTS BlockTypeOK NothingLeftBehind QuietSuccessIsImage QuietUnpackIsImage
  DamagedNeverUnpacked NothingHalfWritten
PROPERTIES OnlyFromThisImage ForeignLoopsKept 
