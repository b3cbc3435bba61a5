----------------------------- MODULE MCSyncState -----------------------------
(***************************************************************************)
(* SyncState with one folder, two UIDs and two validities: enough for a    *)
(* reset to meet old marks, and for a greatest UID to be reset below.      *)
(***************************************************************************)
EXTENDS SyncState
=============================================================================
