---------------------------- MODULE MCPamSession ----------------------------
(* Two users, one of whom runs the application, and two passwords besides    *)
(* the empty one. long is a password of more than PAM_MAX_RESP_SIZE bytes,   *)
(* of which short are the first.                                             *)
EXTENDS PamSession

CONSTANTS alice, bob, short, long

MCUsers == {alice, bob}
MCPasswords == {short, long}
MCSent == [p \in MCPasswords \cup {NoPassword} |-> IF p = long THEN short ELSE p]
=============================================================================
