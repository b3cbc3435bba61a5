----------------------------- MODULE MCVerifier -----------------------------
(***************************************************************************)
(* Verifier with the constants TLC checks it for: two folders and two      *)
(* messages, which may be complete, truncated or lost on the target.       *)
(***************************************************************************)
EXTENDS Verifier

CONSTANTS m1, m2

Folders == {1, 2}
Messages == {m1, m2}
=============================================================================
