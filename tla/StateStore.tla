------------------------------ MODULE StateStore ------------------------------
(***************************************************************************)
(* What the rest of the program may expect of the sync state               *)
(* (internal/state) and its file, whoever is killed when:                  *)
(*   - a save is a single step: the file holds what was saved last, as a   *)
(*     whole, and nothing but a save changes it;                           *)
(*   - a process begins with what the file holds, or with nothing if there *)
(*     is none, and does not begin if the file cannot be read;             *)
(*   - whatever has changed since is dirty until it is saved.              *)
(* How a save is made, and the .tmp that may be left over, are nobody's    *)
(* business.  SyncState implements it (SyncState!StoreKept).               *)
(***************************************************************************)
CONSTANTS
  State, Empty,       \* the states there are, and the first
  NoFile, Foreign     \* there is no file; it cannot be read

VARIABLES
  running,            \* a process is up
  mailboxes, dirty,   \* its state
  file

vars == <<running, mailboxes, dirty, file>>

NoProcess == ~running /\ mailboxes = Empty /\ dirty = FALSE

Init == NoProcess /\ file \in {NoFile, Foreign}

Load ==
  /\ ~running /\ file # Foreign
  /\ running' = TRUE
  /\ mailboxes' = IF file = NoFile THEN Empty ELSE file
  /\ UNCHANGED <<dirty, file>>

Change ==
  /\ running
  /\ mailboxes' \in State /\ dirty' = TRUE
  /\ UNCHANGED <<running, file>>

Save ==
  /\ running
  /\ file' = mailboxes /\ dirty' = FALSE
  /\ UNCHANGED <<running, mailboxes>>

\* The end of the process, or a kill: what is not saved is lost.
End == NoProcess' /\ UNCHANGED file

Next == Load \/ Change \/ Save \/ End

Spec == Init /\ [][Next]_vars
=============================================================================
