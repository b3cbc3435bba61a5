---------------------------- MODULE MCMailboxCopy ----------------------------
(***************************************************************************)
(* MailboxCopy with the constants TLC checks it for: three folders, one of *)
(* them below another, and one message.                                    *)
(***************************************************************************)
EXTENDS MailboxCopy

CONSTANT m1

Folders == 1..3
Superiors == [f \in Folders |-> IF f = 2 THEN {1} ELSE {}]
Messages == {m1}
=============================================================================
