\* Two callers, no read errors, two kills or power failures.
SPECIFICATION Spec
CONSTANTS
  p1 = p1
  p2 = p2
  alice = alice
  carol = carol
  h0 = h0
  h1 = h1
  NoProc = NoProc
  NoLine = NoLine
  NoRequest = NoRequest
  Procs <- MCProcs
  Users <- MCUsers
  Hashes <- MCHashes
  InitShadow <- MCShadow
  MaxTries = 1
  MaxCrashes = 2
  ReadFaults = FALSE
INVARIANTS
  TypeOK
  NoLineLost
  
PROPERTIES
  ImplementsPasswordFile
