----------------------------- MODULE MCKeepAlive -----------------------------
(***************************************************************************)
(* KeepAlive with two goroutines that call Close.                          *)
(***************************************************************************)
EXTENDS KeepAlive

CONSTANTS c1, c2

Closers == {c1, c2}
=============================================================================
