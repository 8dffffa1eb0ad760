\* Calls of up to three bytes over a pipe that holds two.
SPECIFICATION Spec
CONSTANTS
  MaxCount = 3
  Total = 5
  Capacity = 2
INVARIANTS
  TypeOK
  Delivered
PROPERTIES
  CallsEnd
CHECK_DEADLOCK FALSE
