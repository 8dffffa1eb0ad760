--------------------------- MODULE MCDBusMessage ---------------------------
(* Two threads, two messages, addresses for a string of each.                *)
EXTENDS DBusMessage, TLC

CONSTANTS t1, t2, m1, m2, b1, b2

MCThreads == {t1, t2}
MCIds == {m1, m2}
MCBlocks == {b1, b2}

(* Once two threads raced nothing is claimed any more, and a lost update     *)
(* after another would count up for ever: the run stops there.               *)
Unraced == ~raced

Symmetry == Permutations(MCThreads) \cup Permutations(MCIds) \cup Permutations(MCBlocks)
=============================================================================
