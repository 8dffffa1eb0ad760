\* Every order of calls on one handle after another, any allocation failing,
\* cleanup callbacks that use the handle, three deep.
SPECIFICATION Spec
CONSTANTS
  A = A
  B = B
  m = m
  n = n
  o1 = o1
  o2 = o2
  o3 = o3
  Plain = Plain
  EnvNames <- MCEnvNames
  Values = {1}
  DataNames <- MCDataNames
  Objs <- MCObjs
  Settable = {"user", "xauthdata"}
  MaxEnv = 2
  MaxDepth = 3
SYMMETRY Symmetry
INVARIANTS
  TypeOK
  NothingLost
  NamesUnique
  SafeByTheRules
PROPERTIES
  FailureChangesNothing
CHECK_DEADLOCK FALSE
