----------------------------- MODULE MCFolderCopy -----------------------------
(***************************************************************************)
(* FolderCopy with the constants TLC checks it for.  Three messages in     *)
(* batches of two leave a partial last batch, and a channel that holds one *)
(* batch blocks the fetcher while the copier works on the first.           *)
(***************************************************************************)
EXTENDS FolderCopy

CONSTANTS m1, m2, m3

Messages3 == {m1, m2, m3}
Messages2 == {m1, m2}
=============================================================================
