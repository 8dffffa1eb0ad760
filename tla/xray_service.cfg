\* The xray service through three starts, with a stop, a kill or a crash at any point.
SPECIFICATION FairSpec
CONSTANT MaxStarts = 3
INVARIANTS
  NoRoutingLoop
  CleanExit
  OneProxy
PROPERTIES
  DeathIsNoticed
\* After the last start the service may stay down.
CHECK_DEADLOCK FALSE
