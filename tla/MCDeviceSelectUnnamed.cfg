SPECIFICATION Spec
CONSTANTS
  Boxes <- MCUnnamedBoxes
  ArgsOf <- MCArgsOf
CHECK_DEADLOCK FALSE
INVARIANT OnlyNamedPartitions
