------------------------------ MODULE MCClient ------------------------------
(***************************************************************************)
(* Client with two folders and two goroutines that call Close.             *)
(***************************************************************************)
EXTENDS Client

CONSTANTS c1, c2, f1, f2, none

Closers == {c1, c2}
Folders == {f1, f2}
=============================================================================
