------------------------------ MODULE MCRunner ------------------------------
(***************************************************************************)
(* Boxcopy with the constants TLC checks it for: three mailboxes, two of   *)
(* which share a target account and two a name, two connections, and a     *)
(* file that is right, or wrong in one place, or has a password under the  *)
(* wrong key.                                                              *)
(***************************************************************************)
EXTENDS Boxcopy

CONSTANTS mb1, mb2, mb3, k1, k2, none

Mailboxes == {mb1, mb2, mb3}
Accounts == {"x", "y"}
Targets == [mb \in Mailboxes |-> IF mb = mb3 THEN "y" ELSE "x"]
Names == {"n", "m"}
NamesOf == [mb \in Mailboxes |-> IF mb = mb1 THEN "n" ELSE "m"]

Keys == {k1, k2}

Right(mbs) ==
  [parses |-> TRUE, level |-> "fine", rate |-> "fine", connections |-> "fine",
   sourceHost |-> "given", targetHost |-> "given",
   mailboxes |-> [mb \in mbs |-> [login |-> "given", source |-> k1, target |-> k1]]]

All == Right(Mailboxes)

Typings ==
  {All, Right({mb1, mb3}), Right({}),
   [All EXCEPT !.parses = FALSE],
   [All EXCEPT !.level = "missing", !.rate = "missing", !.connections = "missing"],
   [All EXCEPT !.level = "bad"],
   [All EXCEPT !.sourceHost = "missing"], [All EXCEPT !.targetHost = "empty"],
   [All EXCEPT !.rate = "low"], [All EXCEPT !.connections = "low"],
   [All EXCEPT !.mailboxes[mb2].login = "empty"],
   [All EXCEPT !.mailboxes[mb1].login = "missing"],
   [All EXCEPT !.mailboxes[mb3].source = "empty"],
   [All EXCEPT !.mailboxes[mb2].source = "text"],
   [All EXCEPT !.mailboxes[mb3].target = "text"],
   [All EXCEPT !.mailboxes[mb2].target = "missing"],
   [All EXCEPT !.mailboxes[mb3].target = k2]}
=============================================================================
