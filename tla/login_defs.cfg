\* Every file of two lines, rewritten at any moment of several calls.
SPECIFICATION HashSpec
CONSTANTS
  Lines <- MCLines
  NoLines = 2
INVARIANTS
  ValidButForYescrypt
  CostIsUsed
