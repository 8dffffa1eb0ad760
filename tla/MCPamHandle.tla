---------------------------- MODULE MCPamHandle ----------------------------
(* Two names each for entries and for data, and three objects with a         *)
(* callback, so that one is stored while another's callback runs.            *)
EXTENDS PamHandle, TLC

CONSTANTS A, B, m, n, o1, o2, o3

MCEnvNames == {A, B}
MCDataNames == {m, n}
MCObjs == {o1, o2, o3}
Symmetry == Permutations(MCObjs) \cup Permutations(MCDataNames)
=============================================================================
