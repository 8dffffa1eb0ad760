\* Two callers contend for the lock, reads may fail, one process may be killed or
\* power lost: does every call return, and is any change undone?
SPECIFICATION FairSpec
CONSTANTS
  p1 = p1
  p2 = p2
  alice = alice
  carol = carol
  h0 = h0
  h1 = h1
  NoProc = NoProc
  NoLine = NoLine
  NoRequest = NoRequest
  Procs <- MCProcs
  Users <- MCUsers
  Hashes <- OneHash
  InitShadow <- MCShadow
  MaxTries = 2
  MaxCrashes = 1
  ReadFaults = TRUE
INVARIANTS
  NoLineLost
PROPERTIES
  NoLostUpdate
  CallReturns
