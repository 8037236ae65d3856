SPECIFICATION Spec
CONSTANTS
  Boxes <- MCBoxes
  ArgsOf <- MCArgsOf
CHECK_DEADLOCK FALSE
INVARIANTS TypeOK OnlyAskedImage RunningImageStopped WrongMtdRefused FilesFit
