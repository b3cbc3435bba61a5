---------------------------- MODULE FolderContract ----------------------------
(***************************************************************************)
(* What Mailbox.copyFolder (internal/mailbox/copy.go) promises to its      *)
(* caller Mailbox.copy, whatever happens to the two servers meanwhile:     *)
(*   - a message it listed reaches the target at most once, and nothing    *)
(*     else does;                                                          *)
(*   - it returns nil only if the folder exists on the target and every    *)
(*     listed message is there, may be left out, or the copy was cancelled;*)
(*   - once it has returned it is over: nothing is stored afterwards and   *)
(*     no goroutine of its own still uses the source connection, on which  *)
(*     the caller selects the next folder at once.                         *)
(* FolderCopy implements this specification (FolderCopy!ContractKept).     *)
(***************************************************************************)
EXTENDS Naturals

CONSTANT Msg          \* the messages the source folder may ever hold

VARIABLES
  exists,             \* the target has a folder of this name
  phase,              \* "working", then the value returned: "ok" or "err"
  listed,             \* the messages the copy has undertaken to copy
  copies,             \* how many copies of each message the target holds
  excused,            \* messages that may be left out
  cancelled,          \* the context has been cancelled
  reading             \* a goroutine of the copy may use the source connection

vars == <<exists, phase, listed, copies, excused, cancelled, reading>>

Missing == {m \in listed : copies[m] = 0} \ excused

Init ==
  /\ exists \in BOOLEAN
  /\ phase = "working"
  /\ listed = {}
  /\ copies = [m \in Msg |-> 0]
  /\ excused \in SUBSET Msg
  /\ cancelled = FALSE
  /\ reading = FALSE

Ensure ==
  /\ phase = "working"
  /\ exists' = TRUE
  /\ UNCHANGED <<phase, listed, copies, excused, cancelled, reading>>

List ==
  /\ phase = "working" /\ listed = {} /\ ~reading
  /\ listed' \in SUBSET Msg
  /\ UNCHANGED <<exists, phase, copies, excused, cancelled, reading>>

Read ==
  /\ phase = "working"
  /\ reading' = ~reading
  /\ UNCHANGED <<exists, phase, listed, copies, excused, cancelled>>

Store(m) ==
  /\ phase = "working" /\ m \in listed /\ copies[m] = 0
  /\ copies' = [copies EXCEPT ![m] = 1]
  /\ UNCHANGED <<exists, phase, listed, excused, cancelled, reading>>

Return(result) ==
  /\ phase = "working" /\ ~reading
  /\ exists' \in {exists, TRUE}
  /\ result = "ok" => exists' /\ (cancelled \/ Missing = {})
  /\ phase' = result
  /\ UNCHANGED <<listed, copies, excused, cancelled, reading>>

Excuse ==
  /\ \E s \in SUBSET Msg : excused' = excused \cup s
  /\ UNCHANGED <<exists, phase, listed, copies, cancelled, reading>>

Cancel ==
  /\ cancelled' = TRUE
  /\ UNCHANGED <<exists, phase, listed, copies, excused, reading>>

Next ==
  \/ Ensure
  \/ List
  \/ Read
  \/ \E m \in Msg : Store(m)
  \/ \E result \in {"ok", "err"} : Return(result)
  \/ Excuse
  \/ Cancel

Spec == Init /\ [][Next]_vars
=============================================================================
