---------------------------- MODULE MCCleanTarget ----------------------------
(***************************************************************************)
(* CleanTarget with the constants TLC checks it for: INBOX, a folder, and  *)
(* one below that, with two messages.                                      *)
(***************************************************************************)
EXTENDS CleanTarget

CONSTANTS m1, m2

Folders == 1..3
Superiors == [f \in Folders |-> IF f = 3 THEN {2} ELSE {}]
Messages == {m1, m2}
=============================================================================
