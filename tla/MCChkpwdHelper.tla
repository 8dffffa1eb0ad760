--------------------------- MODULE MCChkpwdHelper ---------------------------
(* A buffer of two bytes in place of 512: passwords below, at and beyond the *)
(* limit are all there. The length of the right password matters only where  *)
(* there is a hash to compare with.                                          *)
EXTENDS ChkpwdHelper

MCInit == Init /\ (world.entry # "hash" => world.secret = 0)
MCSpec == MCInit /\ [][Next]_vars /\ WF_vars(Parent) /\ WF_vars(ChildWork)
=============================================================================
