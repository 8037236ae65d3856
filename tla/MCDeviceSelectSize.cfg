SPECIFICATION Spec
CONSTANTS
  Boxes <- MCOneImage
  ArgsOf <- MCArgsOf
CHECK_DEADLOCK FALSE
INVARIANT RootfsFileFits
