---------------------------- MODULE ClientProofs ----------------------------
(***************************************************************************)
(* Theorems about KeepAlive and Client, for any number of goroutines that  *)
(* call Close and any folders.                                             *)
(***************************************************************************)
EXTENDS Client, TLAPS

-----------------------------------------------------------------------------
(* KeepAlive *)

\* The channel is closed by whoever finds the field still set, which is unset before
\* the mutex is given back.
Closing ==
  /\ closings \in {0, 1}
  /\ done = "nil" => closings = 1
  /\ closings = 1 /\ done = "chan" => \E c \in Closer : cpc[c] = "forget"
  /\ \A c \in Closer :
       /\ cpc[c] = "signal" => done = "chan" /\ closings = 0
       /\ cpc[c] = "forget" => done = "chan" /\ closings = 1

KInv == TypeOK /\ Closing

\* No call of Close has begun.
LEMMA KeepAliveInit == Init => KInv
<1> SUFFICES ASSUME Init PROVE KInv
  OBVIOUS
<1>1. \A c \in Closer : cpc[c] = "call"
  BY DEF Init
<1>2. synced \in BOOLEAN
  BY DEF Init
<1>3. TypeOK
  BY <1>1, <1>2 DEF Init, TypeOK
<1> QED
  BY <1>1, <1>3 DEF Init, KInv, Closing

\* Who holds the mutex is the only one to do so.
LEMMA OneHolder ==
  ASSUME TypeOK, NEW c \in Closer, NEW d \in Closer,
         cpc[c] \in {"signal", "forget", "logout"}, cpc[d] \in {"signal", "forget", "logout"}
  PROVE  c = d /\ kpc # "noop" /\ mutex # "free"
  BY KeepAliveAssumption DEF TypeOK

\* Every step of the keep-alive and of Close keeps its invariant.
LEMMA KeepAliveNext == ASSUME KInv, [Next]_vars PROVE KInv'
<1> USE KeepAliveAssumption DEF KInv, TypeOK, Closing, client_vars, keeper
<1>1. CASE Look
  BY <1>1 DEF Look
<1>2. CASE Tick
  BY <1>2 DEF Tick
<1>3. CASE SeeDone
  BY <1>3 DEF SeeDone
<1>4. CASE NoopLocks
  BY <1>4 DEF NoopLocks
<1>5. CASE Noop
  BY <1>5 DEF Noop
<1>6. ASSUME NEW c \in Closer, CloseLocks(c) PROVE KInv'
  BY <1>6 DEF CloseLocks
<1>7. ASSUME NEW c \in Closer, SignalDone(c) PROVE KInv'
  BY <1>7, OneHolder DEF SignalDone
<1>8. ASSUME NEW c \in Closer, ForgetDone(c) PROVE KInv'
  BY <1>8, OneHolder DEF ForgetDone
<1>9. ASSUME NEW c \in Closer, Logout(c) PROVE KInv'
  BY <1>9, OneHolder DEF Logout
<1>10. ASSUME NEW c \in Closer, CallAgain(c) PROVE KInv'
  BY <1>10 DEF CallAgain
<1>11. CASE CallHangs \/ CallFails
  BY <1>11 DEF CallHangs, CallFails
<1>12. CASE FallSilent \/ ConnectionLost
  BY <1>12 DEF FallSilent, ConnectionLost
<1>13. CASE Ended \/ UNCHANGED vars
  BY <1>13 DEF Ended, vars
<1> QED
  BY <1>1, <1>2, <1>3, <1>4, <1>5, <1>6, <1>7, <1>8, <1>9, <1>10, <1>11, <1>12, <1>13
     DEF Next, Keeper, Close

-----------------------------------------------------------------------------
(* Client *)

Session ==
  /\ folders \subseteq Folder
  /\ session \in Folder \cup {NoFolder} /\ selected \in Folder \cup {NoFolder}
  /\ ensuring \in Folder \cup {NoFolder}
  /\ session # NoFolder => client = "up" /\ session = selected

CInv == KInv /\ Session

\* To KeepAlive every step of Client is one of its own or none.
LEMMA ClientKeepsKeepAlive == ASSUME KInv, [ClientNext]_client_and_session PROVE KInv'
<1>1. CASE Caller \/ OtherClient \/ UNCHANGED client_and_session
  <2>1. UNCHANGED vars
    BY <1>1 DEF Caller, OtherClient, client_and_session, Select, CreateFolder, DeleteFolder,
                EnsureFolder, RenameFolder, Unselect, EnsureCreates, Call
  <2> QED
    BY <2>1, KeepAliveNext
<1>2. CASE Next /\ Within
  BY <1>2, KeepAliveNext
<1> QED
  BY <1>1, <1>2 DEF ClientNext

\* Only a SELECT that succeeds changes what is selected, and it changes both sides.
LEMMA ClientKeepsSession == ASSUME Session, [ClientNext]_client_and_session PROVE Session'
<1> USE DEF Session, Call, vars, client_vars
<1>1. ASSUME NEW f \in Folder, Select(f) PROVE Session'
  BY <1>1 DEF Select
<1>2. ASSUME NEW f \in Folder, CreateFolder(f) PROVE Session'
  BY <1>2 DEF CreateFolder
<1>3. ASSUME NEW f \in Folder, DeleteFolder(f) PROVE Session'
  BY <1>3 DEF DeleteFolder
<1>4. ASSUME NEW f \in Folder, EnsureFolder(f) PROVE Session'
  BY <1>4 DEF EnsureFolder
<1>5. ASSUME NEW o \in Folder, NEW n \in Folder, RenameFolder(o, n) PROVE Session'
  BY <1>5 DEF RenameFolder
<1>6. CASE Unselect
  BY <1>6 DEF Unselect
<1>7. CASE EnsureCreates
  BY <1>7 DEF EnsureCreates
<1>8. CASE OtherClient
  BY <1>8 DEF OtherClient
<1>9. CASE Next /\ Within
  BY <1>9 DEF Within
<1>10. CASE UNCHANGED client_and_session
  BY <1>10 DEF client_and_session, session_vars
<1> QED
  BY <1>1, <1>2, <1>3, <1>4, <1>5, <1>6, <1>7, <1>8, <1>9, <1>10 DEF ClientNext, Caller

\* The invariant of the client, with its keep-alive, its closers, and its callers.
LEMMA ClientInvariant == ClientSpec => []CInv
<1>1. ClientInit => CInv
  BY KeepAliveInit DEF ClientInit, Init, CInv, Session
<1>2. CInv /\ [ClientNext]_client_and_session => CInv'
  BY ClientKeepsKeepAlive, ClientKeepsSession DEF CInv
<1> QED
  BY <1>1, <1>2, PTL DEF ClientSpec

\* The types hold, and whoever is inside NOOP or Close holds the mutex.
THEOREM TypeCorrect == ClientSpec => []ClientTypeOK
<1>1. CInv => ClientTypeOK
  BY DEF CInv, KInv, Session, ClientTypeOK
<1> QED
  BY <1>1, ClientInvariant, PTL

\* However many goroutines call Close, and however often, c.done is closed once.
THEOREM DoneClosedOnce == ClientSpec => []ClosedOnce
<1>1. CInv => ClosedOnce
  BY DEF CInv, KInv, Closing, ClosedOnce
<1> QED
  BY <1>1, ClientInvariant, PTL

\* The server selects nothing that the client does not know of.
THEOREM SessionIsKnown == ClientSpec => []SelectionKnown
<1>1. CInv => SelectionKnown
  BY DEF CInv, Session, SelectionKnown
<1> QED
  BY <1>1, ClientInvariant, PTL

-----------------------------------------------------------------------------
(* Nobody waits for the mutex in vain *)

\* What a holder of the mutex does next, which waits for nobody but the server; after no
\* more than three such steps the mutex is free.
HolderSteps ==
  \/ Noop \/ CallFails
  \/ \E c \in Closer : SignalDone(c) \/ ForgetDone(c) \/ Logout(c)

HolderLeft ==
  IF mutex = "free" THEN 0
  ELSE IF mutex \in {"keeper", "caller"} THEN 1
  ELSE CASE cpc[mutex] = "signal" -> 3 [] cpc[mutex] = "forget" -> 2 [] OTHER -> 1

\* Whoever has the mutex is at one of these.
Held ==
  /\ mutex = "keeper" => kpc = "noop"
  /\ \A c \in Closer : mutex = c => cpc[c] \in {"signal", "forget", "logout"}

\* NOOP and Close give it back before they are over.
LEMMA HeldHolds == ASSUME KInv, Held, [ClientNext]_client_and_session PROVE Held'
<1> USE KeepAliveAssumption DEF KInv, TypeOK, Held, client_vars, keeper
<1>1. CASE Caller \/ OtherClient \/ UNCHANGED client_and_session
  <2>1. UNCHANGED vars
    BY <1>1 DEF Caller, OtherClient, client_and_session, Select, CreateFolder, DeleteFolder,
                EnsureFolder, RenameFolder, Unselect, EnsureCreates, Call
  <2> QED
    BY <2>1 DEF vars
<1>2. CASE CallHangs \/ CallFails \/ FallSilent \/ ConnectionLost
  BY <1>2 DEF CallHangs, CallFails, FallSilent, ConnectionLost
<1>3. CASE Look \/ Tick \/ SeeDone \/ Ended
  BY <1>3 DEF Look, Tick, SeeDone, Ended, vars
<1>4. CASE NoopLocks \/ Noop
  BY <1>4 DEF NoopLocks, Noop
<1>5. ASSUME NEW c \in Closer, CloseLocks(c) PROVE Held'
  BY <1>5 DEF CloseLocks
<1>6. ASSUME NEW c \in Closer, SignalDone(c) \/ ForgetDone(c) PROVE Held'
  BY <1>6 DEF SignalDone, ForgetDone
<1>7. ASSUME NEW c \in Closer, Logout(c) \/ CallAgain(c) PROVE Held'
  BY <1>7 DEF Logout, CallAgain
<1> QED
  BY <1>1, <1>2, <1>3, <1>4, <1>5, <1>6, <1>7 DEF ClientNext, Next, Keeper, Close

\* No other step takes the mutex away or keeps the holder back.
HolderGoesOn ==
  mutex # "free" => \/ HolderSteps /\ HolderLeft' < HolderLeft
                    \/ UNCHANGED <<mutex, HolderLeft>>

\* Each kind of step in turn.
LEMMA HolderGetsOn ==
  ASSUME KInv, Held, [ClientNext]_client_and_session PROVE HolderGoesOn
<1> SUFFICES ASSUME mutex # "free"
             PROVE  \/ HolderSteps /\ HolderLeft' < HolderLeft
                    \/ UNCHANGED <<mutex, HolderLeft>>
  BY DEF HolderGoesOn
<1> USE KeepAliveAssumption DEF KInv, TypeOK, Held, client_vars, keeper
<1>1. CASE UNCHANGED <<mutex, cpc>>
  BY <1>1 DEF HolderLeft
<1>2. CASE Noop
  <2>1. mutex = "keeper" /\ mutex' = "free"
    BY <1>2 DEF Noop
  <2> QED
    BY <1>2, <2>1 DEF HolderLeft, HolderSteps
<1>3. CASE CallFails
  <2>1. mutex = "caller" /\ mutex' = "free"
    BY <1>3 DEF CallFails
  <2> QED
    BY <1>3, <2>1 DEF HolderLeft, HolderSteps
<1>4. ASSUME NEW c \in Closer, SignalDone(c) PROVE HolderSteps /\ HolderLeft' < HolderLeft
  <2>1. mutex = c /\ mutex' = c /\ cpc[c] = "signal" /\ cpc'[c] = "forget"
    BY <1>4 DEF SignalDone
  <2> QED
    BY <1>4, <2>1 DEF HolderLeft, HolderSteps
<1>5. ASSUME NEW c \in Closer, ForgetDone(c) PROVE HolderSteps /\ HolderLeft' < HolderLeft
  <2>1. mutex = c /\ mutex' = c /\ cpc[c] = "forget" /\ cpc'[c] = "logout"
    BY <1>5 DEF ForgetDone
  <2> QED
    BY <1>5, <2>1 DEF HolderLeft, HolderSteps
<1>6. ASSUME NEW c \in Closer, Logout(c) PROVE HolderSteps /\ HolderLeft' < HolderLeft
  <2>1. mutex = c /\ mutex' = "free" /\ cpc[c] = "logout"
    BY <1>6 DEF Logout
  <2> QED
    BY <1>6, <2>1 DEF HolderLeft, HolderSteps
<1>7. ASSUME NEW c \in Closer, CallAgain(c) PROVE UNCHANGED <<mutex, HolderLeft>>
  <2>1. mutex' = mutex /\ mutex # c /\ \A d \in Closer \ {c} : cpc'[d] = cpc[d]
    BY <1>7 DEF CallAgain
  <2> QED
    BY <2>1 DEF HolderLeft
<1>8. \/ UNCHANGED <<mutex, cpc>> \/ Noop \/ CallFails
      \/ \E c \in Closer : SignalDone(c) \/ ForgetDone(c) \/ Logout(c) \/ CallAgain(c)
  <2>1. CASE Caller \/ OtherClient \/ UNCHANGED client_and_session
    <3>1. UNCHANGED vars
      BY <2>1 DEF Caller, OtherClient, client_and_session, Select, CreateFolder, DeleteFolder,
                  EnsureFolder, RenameFolder, Unselect, EnsureCreates, Call
    <3> QED
      BY <3>1 DEF vars
  <2>2. CASE Next /\ Within
    BY <2>2 DEF Next, Keeper, Close, Look, Tick, SeeDone, NoopLocks, CloseLocks, CallHangs,
                FallSilent, ConnectionLost, Ended, vars
  <2> QED
    BY <2>1, <2>2 DEF ClientNext
<1> QED
  BY <1>1, <1>2, <1>3, <1>4, <1>5, <1>6, <1>7, <1>8

\* Whoever has the mutex is at a step that waits for nobody but the server, gives it back
\* after three such steps at most, and is neither robbed of it nor kept back by others
\* (client.go, Close and Noop).  It is what CloseReturns needs besides fairness: only a
\* server that never answers can make a holder keep it.
THEOREM MutexIsGivenBack ==
  ClientSpec => [](Held /\ HolderLeft \in 0..3) /\ [][HolderGoesOn]_client_and_session
<1>1. Init => Held
  BY KeepAliveAssumption DEF Init, Held
<1>2. ClientInit => Held
  BY <1>1 DEF ClientInit
<1>3. CInv /\ Held /\ [ClientNext]_client_and_session => Held' /\ HolderGoesOn
  BY HeldHolds, HolderGetsOn DEF CInv
<1>4. HolderLeft \in 0..3
  BY DEF HolderLeft
<1> QED
  BY <1>2, <1>3, <1>4, ClientInvariant, PTL DEF ClientSpec

=============================================================================
