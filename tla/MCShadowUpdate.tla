--------------------------- MODULE MCShadowUpdate ---------------------------
(* Two processes change passwords. alice has a line at the start, carol is   *)
(* appended by the first call that names her.                                *)
EXTENDS ShadowUpdate, TLC

CONSTANTS p1, p2, alice, carol, h0, h1

MCProcs == {p1, p2}
MCUsers == {alice, carol}
MCShadow == (alice :> h0 @@ carol :> NoLine)

MCHashes == {h0, h1}
\* For runs with more faults: what is written over a line is not looked at.
OneHash == {h0}
=============================================================================
