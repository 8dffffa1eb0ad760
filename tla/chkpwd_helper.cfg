\* The password helper: every typed and right length up to one above the limit,
\* every state of the application's descriptor 0 and signals, any one failing.
SPECIFICATION MCSpec
CONSTANTS
  MaxResp = 2
  MaxLen = 3
INVARIANTS
  TypeOK
  SuccessIsDeserved
  ServableIsServed
  NothingLeft
PROPERTIES
  CallEnds
\* A call ends: the last state of a behaviour has no successor.
CHECK_DEADLOCK FALSE
