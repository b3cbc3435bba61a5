------------------------------ MODULE KeepAlive ------------------------------
(***************************************************************************)
(* Close of an imap.Client against its keepalive goroutine                 *)
(* (internal/imap/client.go).  The goroutine sends a NOOP at each tick     *)
(* until the channel c.done is closed; Close closes it under the mutex     *)
(* that NOOP and all other calls take as well, and sets c.done to nil.     *)
(* The goroutine reads c.done without the mutex.                           *)
(*                                                                         *)
(* The mutex is held across the network, with no deadline: if the server   *)
(* falls silent, a call waits until the connection breaks, if it ever does.*)
(***************************************************************************)
EXTENDS Naturals

CONSTANT Closer       \* goroutines that call Close

ASSUME KeepAliveAssumption == {"keeper", "caller", "free"} \cap Closer = {}

VARIABLES
  mutex,              \* the holder of c.mu: a closer, "keeper", "caller" or "free"
  done,               \* c.done: "chan" or "nil"
  closings,           \* how often the channel has been closed
  client,             \* c.client: "up", "broken" (connection lost) or "nil"
  silent,             \* the server answers no more, though the connection is up
  \* startKeepalive
  kpc,
  waitsOn,            \* the value of c.done that the select waits on
  synced,             \* it has held the mutex after a Close
  \* Close
  cpc                 \* of each closer

client_vars == <<mutex, done, closings, client, silent>>
keeper      == <<kpc, waitsOn, synced>>

vars == <<client_vars, keeper, cpc>>

Init ==
  /\ mutex = "free" /\ done = "chan" /\ closings = 0 /\ client = "up" /\ silent = FALSE
  /\ kpc = "look" /\ waitsOn = "chan" /\ synced = FALSE
  /\ cpc = [c \in Closer |-> "call"]

-----------------------------------------------------------------------------
(* the keepalive goroutine *)

\* Evaluate c.done for the select.  Without the mutex it may still see the
\* channel after Close has set the field to nil.
Look ==
  /\ kpc = "look"
  /\ waitsOn' \in IF synced THEN {done} ELSE {done, "chan"}
  /\ kpc' = "select"
  /\ UNCHANGED <<client_vars, synced, cpc>>

Tick ==
  /\ kpc = "select"
  /\ kpc' = "lock"
  /\ UNCHANGED <<client_vars, waitsOn, synced, cpc>>

\* A receive from a closed channel; from nil it is never ready.
SeeDone ==
  /\ kpc = "select" /\ waitsOn = "chan" /\ closings > 0
  /\ kpc' = "dead"
  /\ UNCHANGED <<client_vars, waitsOn, synced, cpc>>

\* Variant with a bug: NOOP does without the mutex.
NoopLocksNothing ==
  /\ kpc = "lock"
  /\ kpc' = "noop"
  /\ UNCHANGED <<client_vars, waitsOn, synced, cpc>>

NoopLocks ==
  /\ kpc = "lock" /\ mutex = "free"
  /\ mutex' = "keeper" /\ kpc' = "noop"
  /\ synced' = (done = "nil")
  /\ UNCHANGED <<done, closings, client, silent, waitsOn, cpc>>

\* A call comes back with an answer of the server, or when there is no connection.
Answered == client = "up" => ~silent

\* Variant with a bug: on an error the mutex is not given back.
NoopKeepsMutex ==
  /\ kpc = "noop" /\ Answered
  /\ \/ client # "broken" /\ kpc' = "look" /\ mutex' = "free"
     \/ client # "nil" /\ kpc' = "dead" /\ UNCHANGED mutex
  /\ UNCHANGED <<done, closings, client, silent, waitsOn, synced, cpc>>

\* Nothing to do for a closed client.  An error ends the goroutine.
Noop ==
  /\ kpc = "noop" /\ Answered
  /\ \/ client = "nil" /\ kpc' = "look"
     \/ client = "up" /\ kpc' \in {"look", "dead"}
     \/ client = "broken" /\ kpc' = "dead"
  /\ mutex' = "free"
  /\ UNCHANGED <<done, closings, client, silent, waitsOn, synced, cpc>>

-----------------------------------------------------------------------------
(* Close *)

CloseLocks(c) ==
  /\ cpc[c] = "call" /\ mutex = "free"
  /\ IF client = "nil"
     THEN cpc' = [cpc EXCEPT ![c] = "returned"] /\ UNCHANGED mutex
     ELSE /\ mutex' = c
          /\ cpc' = [cpc EXCEPT ![c] = IF done = "nil" THEN "logout" ELSE "signal"]
  /\ UNCHANGED <<done, closings, client, silent, keeper>>

SignalDone(c) ==
  /\ cpc[c] = "signal"
  /\ closings' = closings + 1
  /\ cpc' = [cpc EXCEPT ![c] = "forget"]
  /\ UNCHANGED <<mutex, done, client, silent, keeper>>

\* Variant with a bug: the field keeps the closed channel.
ForgetDoneNot(c) ==
  /\ cpc[c] = "forget"
  /\ cpc' = [cpc EXCEPT ![c] = "logout"]
  /\ UNCHANGED <<client_vars, keeper>>

ForgetDone(c) ==
  /\ cpc[c] = "forget"
  /\ done' = "nil"
  /\ cpc' = [cpc EXCEPT ![c] = "logout"]
  /\ UNCHANGED <<mutex, closings, client, silent, keeper>>

\* Logout, then close; if that fails the client stays, with a lost connection,
\* and Close may be called again.
Logout(c) ==
  /\ cpc[c] = "logout" /\ Answered
  /\ \/ client' = "nil" /\ cpc' = [cpc EXCEPT ![c] = "returned"]
     \/ client' = "broken" /\ cpc' = [cpc EXCEPT ![c] = "failed"]
  /\ mutex' = "free"
  /\ UNCHANGED <<done, closings, silent, keeper>>

CallAgain(c) ==
  /\ cpc[c] = "failed"
  /\ cpc' = [cpc EXCEPT ![c] = "call"]
  /\ UNCHANGED <<client_vars, keeper>>

-----------------------------------------------------------------------------
(* other calls, and the server *)

\* Any other call that finds the server silent keeps the mutex.
CallHangs ==
  /\ mutex = "free" /\ client = "up" /\ silent
  /\ mutex' = "caller"
  /\ UNCHANGED <<done, closings, client, silent, keeper, cpc>>

CallFails ==
  /\ mutex = "caller" /\ Answered
  /\ mutex' = "free"
  /\ UNCHANGED <<done, closings, client, silent, keeper, cpc>>

FallSilent ==
  /\ client = "up" /\ ~silent
  /\ silent' = TRUE
  /\ UNCHANGED <<mutex, done, closings, client, keeper, cpc>>

ConnectionLost ==
  /\ client = "up" /\ client' = "broken"
  /\ UNCHANGED <<mutex, done, closings, silent, keeper, cpc>>

Ended ==
  /\ kpc = "dead" /\ \A c \in Closer : cpc[c] \in {"failed", "returned"}
  /\ UNCHANGED vars

Keeper == Look \/ Tick \/ SeeDone \/ NoopLocks \/ Noop

Close(c) == CloseLocks(c) \/ SignalDone(c) \/ ForgetDone(c) \/ Logout(c)

Next ==
  \/ Keeper
  \/ \E c \in Closer : Close(c) \/ CallAgain(c)
  \/ CallHangs \/ CallFails
  \/ FallSilent \/ ConnectionLost
  \/ Ended

Spec == Init /\ [][Next]_vars

\* Go's scheduler runs all of them, its mutex is fair, and its select picks each ready
\* case in the long run.  NOOP, LOGOUT and the other calls return if the server answers
\* (Answered); nothing says that it does, or that a connection to a silent one breaks.
FairSpec ==
  /\ Spec
  /\ WF_vars(Keeper) /\ WF_vars(CallFails) /\ SF_vars(NoopLocks) /\ SF_vars(SeeDone)
  /\ \A c \in Closer : WF_vars(Close(c)) /\ SF_vars(CloseLocks(c))

-----------------------------------------------------------------------------
(* Properties *)

\* Every variable has its type, and who is inside NOOP or Close holds the mutex.
TypeOK ==
  /\ mutex \in Closer \cup {"keeper", "caller", "free"} /\ done \in {"chan", "nil"}
  /\ closings \in Nat /\ client \in {"up", "broken", "nil"}
  /\ kpc \in {"look", "select", "lock", "noop", "dead"} /\ waitsOn \in {"chan", "nil"}
  /\ synced \in BOOLEAN /\ silent \in BOOLEAN
  /\ cpc \in [Closer -> {"call", "signal", "forget", "logout", "failed", "returned"}]
  /\ kpc = "noop" => mutex = "keeper"
  /\ \A c \in Closer : cpc[c] \in {"signal", "forget", "logout"} => mutex = c

\* The channel is closed once at most, though Close may be called by several
\* goroutines and again after a failure: closing it twice would panic.
ClosedOnce == closings <= 1

\* Somebody has the mutex and waits for an answer that does not come.
Stuck ==
  /\ silent /\ client = "up"
  /\ \/ mutex = "keeper" /\ kpc = "noop"
     \/ mutex = "caller"
     \/ \E c \in Closer : mutex = c /\ cpc[c] = "logout"

\* Close returns, failures and the keepalive notwithstanding, with one exception, since the
\* mutex is held across the network: that in the end somebody, in NOOP, in another call or
\* in the LOGOUT of a Close, waits for ever for an answer of a silent server.
CloseReturns ==
  (<>[]Stuck) \/ \A c \in Closer : (cpc[c] = "call") ~> (cpc[c] \in {"failed", "returned"})

\* "closed by Close() to stop the keepalive goroutine" (client.go:30): once the
\* client is closed the goroutine ends.
KeepaliveStops == (client = "nil") ~> (kpc = "dead")
=============================================================================
