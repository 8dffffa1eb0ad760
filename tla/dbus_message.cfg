\* Messages made, copied, set, counted and handed from thread to thread.
SPECIFICATION Spec
CONSTANTS
  t1 = t1
  t2 = t2
  m1 = m1
  m2 = m2
  b1 = b1
  b2 = b2
  NULL = NULL
  Outside = Outside
  Threads <- MCThreads
  Ids <- MCIds
  Fields = {"path"}
  Blocks <- MCBlocks
  MaxRefs = 2
CONSTRAINT Unraced
SYMMETRY Symmetry
INVARIANTS
  CountIsExact
  StringsHaveOneOwner
  SafeByTheRules
CHECK_DEADLOCK FALSE
