--------------------------- MODULE FolderCopyProofs ---------------------------
(***************************************************************************)
(* Theorems about FolderCopy, for any folder size, batch size, channel     *)
(* capacity and number of steps of users and namesakes.                    *)
(***************************************************************************)
EXTENDS FolderCopy, FiniteSetTheorems, SequenceTheorems, TLAPS

-----------------------------------------------------------------------------
(* Sequences *)

\* Every listing of a set of messages is a sequence without repetition.
LEMMA Listings ==
  ASSUME NEW S \in SUBSET Msg, NEW s \in SetToSeqs(S)
  PROVE  /\ s \in Seq(Msg)
         /\ {s[i] : i \in 1..Len(s)} \subseteq S
         /\ \A i, j \in 1..Len(s) : i # j => s[i] # s[j]
<1>1. IsFiniteSet(S)
  BY FS_Subset, FolderCopyAssumption
<1>2. Cardinality(S) \in Nat
  BY <1>1, FS_CardinalityType
<1>3. s \in [1..Cardinality(S) -> S] /\ \A i, j \in 1..Cardinality(S) : i # j => s[i] # s[j]
  BY DEF SetToSeqs
<1>4. s \in Seq(Msg) /\ Len(s) = Cardinality(S)
  BY <1>2, <1>3
<1> QED BY <1>2, <1>3, <1>4

\* And it leaves none of them out.
LEMMA ListingsCover ==
  ASSUME NEW S \in SUBSET Msg, NEW s \in SetToSeqs(S), NEW x \in S
  PROVE  \E i \in 1..Len(s) : s[i] = x
<1>1. IsFiniteSet(S)
  BY FS_Subset, FolderCopyAssumption
<1> DEFINE n == Cardinality(S)
<1>2. n \in Nat
  BY <1>1, FS_CardinalityType
<1>3. s \in [1..n -> S] /\ \A i, j \in 1..n : i # j => s[i] # s[j]
  BY DEF SetToSeqs
<1>4. Len(s) = n
  BY <1>2, <1>3
<1>5. s \in Injection(1..n, S)
  BY <1>3 DEF Injection, IsInjective
<1>6. IsFiniteSet(1..n) /\ Cardinality(1..n) = n
  BY <1>2, FS_Interval
<1>7. s \in Surjection(1..n, S)
  BY <1>1, <1>5, <1>6, FS_Injection
<1> QED BY <1>4, <1>7 DEF Surjection

\* A batch is made of listed messages.
LEMMA BatchOfMessages ==
  ASSUME todo \in Seq(Msg), start \in Nat
  PROVE  BatchUIDs(start) \subseteq Msg
<1>1. BatchSize \in Nat
  BY FolderCopyAssumption
<1> QED BY <1>1 DEF BatchUIDs

-----------------------------------------------------------------------------
(* Type correctness *)

LEMMA TypeInit == Init => TypeOK
<1> SUFFICES ASSUME Init PROVE TypeOK
  OBVIOUS
<1>1. source \in [Msg -> Place] /\ copies \in [Msg -> Nat]
  BY DEF Init, Place
<1>2. held \in Batch /\ chan \in Seq(Batch) /\ todo \in Seq(Msg)
  BY DEF Init, Batch, NoBatch
<1>3. outside \in 0..MaxOutside /\ Len(chan) <= ChanCap /\ start \in Nat /\ late \in Nat
  BY FolderCopyAssumption DEF Init
<1> QED BY <1>1, <1>2, <1>3 DEF Init, TypeOK

\* Every step keeps them.
LEMMA TypeNext == TypeOK /\ [Next]_vars => TypeOK'
<1> SUFFICES ASSUME TypeOK, [Next]_vars PROVE TypeOK'
  OBVIOUS
<1> USE DEF TypeOK, servers, world, marks, copier, fetcher, pipe
<1>1. CASE UNCHANGED vars
  BY <1>1 DEF vars
<1>2. CASE OpenFolder
  <2>1. /\ pc = "open" /\ pc' \in {"done", "prepare"}
        /\ result' \in {"none", "ok", "err"} /\ exists' \in BOOLEAN
    BY <1>2 DEF OpenFolder, Return
  <2> QED BY <1>2, <2>1 DEF OpenFolder
<1>3. CASE Prepare
  BY <1>3 DEF Prepare, Return
<1>4. CASE ListMessages
  BY <1>4 DEF ListMessages, Return, Present
<1>5. CASE FilterUnsynced
  <2>1. todo' \in Seq(Msg)
    <3>1. CASE Unsynced(listed) = {}
      BY <1>5, <3>1 DEF FilterUnsynced
    <3>2. CASE Unsynced(listed) # {}
      BY <1>5, <3>2, Listings DEF FilterUnsynced, Unsynced
    <3> QED BY <3>1, <3>2
  <2> QED BY <1>5, <2>1 DEF FilterUnsynced, Return
<1>6. CASE FetcherContinues
  BY <1>6 DEF FetcherContinues
<1>7. CASE FetcherStops
  BY <1>7 DEF FetcherStops
<1>8. CASE FetchBatch
  <2>1. BatchUIDs(start) \subseteq Msg
    BY BatchOfMessages
  <2>2. /\ [NoBatch EXCEPT !.err = TRUE] \in Batch
        /\ [err |-> FALSE,
            msgs |-> {m \in BatchUIDs(start) : source[m] # "gone"},
            flagged |-> {m \in BatchUIDs(start) : source[m] = "deleted"}] \in Batch
    BY <2>1 DEF Batch, NoBatch
  <2>3. held' \in Batch
    BY <1>8, <2>2 DEF FetchBatch, FetchByUID
  <2> QED BY <1>8, <2>3 DEF FetchBatch
<1>9. CASE SendBatch
  <2>1. chan' \in Seq(Batch) /\ Len(chan') = Len(chan) + 1
    BY <1>9, AppendProperties DEF SendBatch
  <2>2. Len(chan') <= ChanCap
    BY <1>9, <2>1, FolderCopyAssumption DEF SendBatch
  <2>3. start' \in Nat
    BY <1>9, FolderCopyAssumption DEF SendBatch
  <2>4. held' \in Batch
    BY <1>9 DEF SendBatch, Batch, NoBatch
  <2> QED BY <1>9, <2>1, <2>2, <2>3, <2>4 DEF SendBatch
<1>10. CASE CloseChannel
  BY <1>10 DEF CloseChannel
<1>11. CASE ReceiveBatch
  <2>1. Head(chan) \in Batch /\ chan' \in Seq(Batch) /\ Len(chan') = Len(chan) - 1
    BY <1>11, HeadTailProperties DEF ReceiveBatch
  <2>2. Len(chan') <= ChanCap
    BY <2>1, FolderCopyAssumption
  <2>3. cur' \subseteq Msg /\ curFlagged' \subseteq Msg /\ copyErr' \in BOOLEAN
    BY <1>11, <2>1 DEF ReceiveBatch, Batch
  <2> QED BY <1>11, <2>1, <2>2, <2>3 DEF ReceiveBatch
<1>12. CASE EndOfBatches
  BY <1>12 DEF EndOfBatches
<1>13. CASE EndOfBatch
  BY <1>13 DEF EndOfBatch
<1>14. CASE Interrupted
  BY <1>14 DEF Interrupted
<1>15. ASSUME NEW m \in Msg, TakeMessage(m) PROVE TypeOK'
  BY <1>15 DEF TakeMessage
<1>16. CASE AppendSucceeds
  BY <1>16 DEF AppendSucceeds, StoreBusy
<1>17. CASE AppendFails
  BY <1>17 DEF AppendFails, StoreBusy
<1>18. CASE Finish
  BY <1>18 DEF Finish, Return
<1>19. CASE Cancel
  BY <1>19 DEF Cancel
<1>20. ASSUME NEW m \in Msg, UserChanges(m) PROVE TypeOK'
  <2>1. outside' \in 0..MaxOutside
    BY <1>20, FolderCopyAssumption DEF UserChanges, Outside
  <2> QED BY <1>20, <2>1 DEF UserChanges
<1>21. CASE NamesakePrepares
  <2>1. outside' \in 0..MaxOutside
    BY <1>21, FolderCopyAssumption DEF NamesakePrepares, Outside
  <2> QED BY <1>21, <2>1 DEF NamesakePrepares
<1>22. ASSUME NEW m \in Msg, NamesakeMarks(m) PROVE TypeOK'
  <2>1. outside' \in 0..MaxOutside
    BY <1>22, FolderCopyAssumption DEF NamesakeMarks, Outside
  <2> QED BY <1>22, <2>1 DEF NamesakeMarks
<1>23. CASE Terminated
  BY <1>23 DEF Terminated, vars
<1> QED
  BY <1>1, <1>2, <1>3, <1>4, <1>5, <1>6, <1>7, <1>8, <1>9, <1>10, <1>11, <1>12, <1>13,
     <1>14, <1>15, <1>16, <1>17, <1>18, <1>19, <1>20, <1>21, <1>22, <1>23
  DEF Next, Fetcher, Copier, Others

\* Every variable has its type; the channel never holds more than its capacity
\* (make(chan batch, 2)), and a message is in Append exactly when the copier is.
THEOREM TypeCorrect == Spec => []TypeOK
  BY TypeInit, TypeNext, PTL DEF Spec
-----------------------------------------------------------------------------
(* Who runs when: the fetcher and the channel against the copier *)

Preparing == pc \in {"open", "prepare", "list", "filter"}

\* The fetcher exists only after the preparation, the channel is closed exactly
\* when it has gone, and the copier leaves its loop only on a closed and empty
\* channel.
Control ==
  /\ Preparing => fpc = "idle"
  /\ fpc = "idle" => chan = <<>> /\ ~closed /\ (Preparing \/ pc = "done")
  /\ closed <=> fpc = "done"
  /\ pc = "finish" => closed /\ chan = <<>>
  /\ FetcherGone

\* It holds at the start.
LEMMA ControlInit == Init => Control
  BY DEF Init, Control, Preparing, FetcherGone, FetcherAlive

\* Every step keeps it.
LEMMA ControlNext == TypeOK /\ Control /\ [Next]_vars => Control'
<1> SUFFICES ASSUME TypeOK, Control, [Next]_vars PROVE Control'
  OBVIOUS
<1> USE DEF Control, Preparing, FetcherGone, FetcherAlive,
            servers, world, marks, copier, fetcher, pipe
<1>1. CASE UNCHANGED vars
  BY <1>1 DEF vars
<1>2. CASE OpenFolder \/ Prepare \/ ListMessages
  <2>1. CASE OpenFolder
    BY <2>1 DEF OpenFolder, Return
  <2>2. CASE Prepare
    BY <2>2 DEF Prepare, Return
  <2>3. CASE ListMessages
    BY <2>3 DEF ListMessages, Return
  <2> QED BY <1>2, <2>1, <2>2, <2>3
<1>3. CASE FilterUnsynced
  BY <1>3 DEF FilterUnsynced, Return
<1>4. CASE FetcherContinues \/ FetcherStops \/ FetchBatch \/ CloseChannel
  BY <1>4 DEF FetcherContinues, FetcherStops, FetchBatch, CloseChannel, TypeOK
<1>5. CASE SendBatch
  BY <1>5 DEF SendBatch, TypeOK
<1>6. CASE ReceiveBatch
  BY <1>6 DEF ReceiveBatch, TypeOK
<1>7. CASE EndOfBatches \/ EndOfBatch \/ Interrupted
  BY <1>7 DEF EndOfBatches, EndOfBatch, Interrupted
<1>8. ASSUME NEW m \in Msg, TakeMessage(m) PROVE Control'
  BY <1>8 DEF TakeMessage
<1>9. CASE AppendSucceeds \/ AppendFails
  BY <1>9 DEF AppendSucceeds, AppendFails
<1>10. CASE Finish
  BY <1>10 DEF Finish, Return
<1>11. CASE Others
  BY <1>11 DEF Others, Cancel, UserChanges, NamesakePrepares, NamesakeMarks
<1>12. CASE Terminated
  BY <1>12 DEF Terminated, vars
<1> QED
  BY <1>1, <1>2, <1>3, <1>4, <1>5, <1>6, <1>7, <1>8, <1>9, <1>10, <1>11, <1>12
  DEF Next, Fetcher, Copier

\* So it holds with the types.
LEMMA ControlHolds == Spec => [](TypeOK /\ Control)
  BY TypeInit, TypeNext, ControlInit, ControlNext, PTL DEF Spec

\* No fetcher outlives its copyFolder and nothing is left in the channel, for
\* any number of batches and whatever the copier breaks off (copy.go:156-237).
THEOREM FetcherNeverLeft == Spec => []FetcherGone
<1>1. Control => FetcherGone
  BY DEF Control
<1> QED BY <1>1, ControlHolds, PTL

-----------------------------------------------------------------------------
(* Marks and cancellation *)

\* At most one store after the cancellation, and none once the copier has left
\* Append: it looks at the context before each message.
LateInv == late = 0 \/ (late = 1 /\ cancelled /\ pc # "append")

\* The two short invariants.
LEMMA MarksAndLateHold == Spec => [](SyncedStored /\ LateInv)
<1>1. Init => SyncedStored /\ LateInv
  BY DEF Init, SyncedStored, LateInv
<1>2. TypeOK /\ SyncedStored /\ LateInv /\ [Next]_vars => (SyncedStored /\ LateInv)'
  <2> SUFFICES ASSUME TypeOK, SyncedStored, LateInv, [Next]_vars
               PROVE  SyncedStored' /\ LateInv'
    OBVIOUS
  <2> USE DEF SyncedStored, LateInv, Stored,
              servers, world, marks, copier, fetcher, pipe
  <2>1. CASE UNCHANGED vars \/ Terminated
    BY <2>1 DEF vars, Terminated
  <2>2. CASE OpenFolder \/ ListMessages \/ FilterUnsynced
    BY <2>2 DEF OpenFolder, ListMessages, FilterUnsynced, Return
  <2>3. CASE Prepare
    BY <2>3 DEF Prepare, Return
  <2>4. CASE Fetcher
    BY <2>4 DEF Fetcher, FetcherContinues, FetcherStops, FetchBatch, SendBatch, CloseChannel
  <2>5. CASE ReceiveBatch \/ EndOfBatches \/ EndOfBatch \/ Interrupted \/ Finish
    BY <2>5 DEF ReceiveBatch, EndOfBatches, EndOfBatch, Interrupted, Finish, Return
  <2>6. ASSUME NEW m \in Msg, TakeMessage(m) PROVE SyncedStored' /\ LateInv'
    BY <2>6 DEF TakeMessage
  <2>7. ASSUME StoreBusy, pc = "append"
        PROVE  /\ Stored' = Stored \cup {busy}
               /\ late' = 0 \/ (late' = 1 /\ cancelled)
    BY <2>7 DEF StoreBusy, TypeOK
  <2>8. CASE AppendSucceeds
    BY <2>7, <2>8 DEF AppendSucceeds
  <2>9. CASE AppendFails
    <3>1. CASE StoreBusy
      BY <2>7, <2>9, <3>1 DEF AppendFails
    <3>2. CASE UNCHANGED <<copies, late>>
      BY <2>9, <3>2 DEF AppendFails
    <3> QED BY <2>9, <3>1, <3>2 DEF AppendFails
  <2>10. CASE Others
    BY <2>10 DEF Others, Cancel, UserChanges, NamesakePrepares, NamesakeMarks
  <2> QED
    BY <2>1, <2>2, <2>3, <2>4, <2>5, <2>6, <2>8, <2>9, <2>10 DEF Next, Copier
<1> QED BY <1>1, <1>2, TypeCorrect, PTL DEF Spec

\* What the sync state marks is on the target, or was marked by the namesake:
\* MarkSynced follows a successful Append (appendMessage).
THEOREM MarkedIsStored == Spec => []SyncedStored
  BY MarksAndLateHold, PTL

\* A cancelled copy stores at most the one message it had in Append.
THEOREM CancelStopsStores == Spec => []OneLateStore
<1>1. LateInv => OneLateStore
  BY DEF LateInv, OneLateStore
<1> QED BY <1>1, MarksAndLateHold, PTL
-----------------------------------------------------------------------------
(* The flow of the messages: from the list through the channel to the target *)

\* Listed messages that are not on the target yet.
Fresh == {m \in listed : copies[m] = 0}

\* Messages not yet sent, and messages the copier has in hand.
Ahead == {todo[i] : i \in (start + 1)..Len(todo)}
AtHand == cur \cup (IF pc = "append" THEN {busy} ELSE {})

\* A message is in one place at a time: still ahead of the fetcher, in one of
\* the batches of the channel, or at hand; and while it is there it is fresh.
Flow ==
  /\ NoDuplicate
  /\ Preparing => todo = <<>> /\ start = 0 /\ \A m \in Msg : copies[m] = 0
  /\ pc \in {"open", "prepare", "list"} => listed = {}
  /\ pc \notin {"copy", "append"} => cur = {}
  /\ busy \notin cur
  /\ \A i, j \in 1..Len(todo) : i # j => todo[i] # todo[j]
  /\ Ahead \subseteq Fresh
  /\ AtHand \subseteq Fresh /\ AtHand \cap Ahead = {}
  /\ \A i \in 1..Len(chan) : /\ chan[i].msgs \subseteq Fresh
                             /\ chan[i].msgs \cap Ahead = {}
                             /\ chan[i].msgs \cap AtHand = {}
  /\ \A i, j \in 1..Len(chan) : i # j => chan[i].msgs \cap chan[j].msgs = {}
  /\ fpc = "send" => held.msgs \subseteq BatchUIDs(start) /\ (held.err => held.msgs = {})

\* The next batch is the head of what is ahead, and the rest comes after it.
LEMMA BatchIsAhead ==
  ASSUME todo \in Seq(Msg), start \in Nat,
         \A i, j \in 1..Len(todo) : i # j => todo[i] # todo[j]
  PROVE  LET rest == {todo[i] : i \in (start + BatchSize + 1)..Len(todo)}
         IN  Ahead = BatchUIDs(start) \cup rest /\ BatchUIDs(start) \cap rest = {}
<1>1. BatchSize \in Nat \ {0} /\ Len(todo) \in Nat
  BY FolderCopyAssumption
<1> DEFINE end == IF start + BatchSize > Len(todo) THEN Len(todo) ELSE start + BatchSize
           rest == {todo[i] : i \in (start + BatchSize + 1)..Len(todo)}
<1>2. BatchUIDs(start) = {todo[i] : i \in (start + 1)..end}
  BY DEF BatchUIDs
<1>3. \A i \in Nat : i \in (start + 1)..Len(todo)
                       <=> i \in (start + 1)..end \/ i \in (start + BatchSize + 1)..Len(todo)
  BY <1>1
<1>4. Ahead = BatchUIDs(start) \cup rest
  BY <1>1, <1>2, <1>3 DEF Ahead
<1>5. ASSUME NEW i \in (start + 1)..end, NEW j \in (start + BatchSize + 1)..Len(todo)
      PROVE  todo[i] # todo[j]
  BY <1>1
<1>6. BatchUIDs(start) \cap rest = {}
  BY <1>2, <1>5
<1> QED BY <1>4, <1>6

\* It holds at the start.
LEMMA FlowInit == Init => Flow
<1> SUFFICES ASSUME Init PROVE Flow
  OBVIOUS
<1>1. Ahead = {} /\ AtHand = {}
  BY DEF Init, Ahead, AtHand
<1>2. NoDuplicate
  BY DEF Init, NoDuplicate
<1> QED BY <1>1, <1>2, FolderCopyAssumption DEF Init, Flow, Preparing

\* Steps that move no message leave the flow as it is.
LEMMA FlowFrame ==
  ASSUME Flow, UNCHANGED <<copies, listed, cur, busy, todo, start, chan, held>>,
         UNCHANGED pc \/ (Preparing /\ pc' = "done")
           \/ (pc \in {"range", "finish"} /\ pc' \in {"finish", "done"})
           \/ (pc = "open" /\ pc' = "prepare") \/ (pc = "prepare" /\ pc' = "list")
           \/ (pc = "copy" /\ cur = {} /\ pc' = "range"),
         fpc' = "send" => fpc = "send"
  PROVE  Flow'
<1>1. UNCHANGED <<Fresh, Ahead, AtHand, BatchUIDs(start), NoDuplicate>>
  BY DEF Fresh, Ahead, AtHand, BatchUIDs, NoDuplicate, Preparing
<1>2. Preparing' => Preparing
  BY DEF Preparing
<1>3. pc' \in {"open", "prepare", "list"} => pc \in {"open", "prepare", "list"}
  BY DEF Preparing
<1>4. pc' \notin {"copy", "append"} => cur' = {}
  BY DEF Preparing, Flow
<1> QED BY <1>1, <1>2, <1>3, <1>4 DEF Flow

\* Every step keeps it.
LEMMA FlowNext == TypeOK /\ Control /\ Flow /\ [Next]_vars => Flow'
<1> SUFFICES ASSUME TypeOK, Control, Flow, [Next]_vars PROVE Flow'
  OBVIOUS
<1> USE DEF servers, world, marks, copier, fetcher, pipe
<1>0. UNCHANGED vars => Flow'
  BY FlowFrame DEF vars
<1>1. CASE OpenFolder \/ Prepare
  <2>1. CASE OpenFolder
    BY <2>1, FlowFrame DEF OpenFolder, Return, Preparing
  <2>2. CASE Prepare
    BY <2>2, FlowFrame DEF Prepare, Return, Preparing
  <2> QED BY <1>1, <2>1, <2>2
<1>2. CASE ListMessages
  <2>1. CASE UNCHANGED listed /\ pc' = "done"
    BY <1>2, <2>1, FlowFrame DEF ListMessages, Return, Preparing
  <2>2. CASE listed' = Present /\ pc' = "filter"
    <3>1. chan = <<>> /\ todo = <<>> /\ cur = {} /\ start \in Nat
      BY <1>2 DEF ListMessages, Control, Flow, Preparing, TypeOK
    <3>2. Ahead' = {} /\ AtHand' = {}
      BY <1>2, <2>2, <3>1 DEF ListMessages, Ahead, AtHand
    <3>3. NoDuplicate'
      BY <1>2 DEF ListMessages, Flow, Preparing, NoDuplicate
    <3> QED BY <1>2, <2>2, <3>1, <3>2, <3>3 DEF ListMessages, Flow, Preparing, Control
  <2> QED BY <1>2, <2>1, <2>2 DEF ListMessages, Return
<1>3. CASE FilterUnsynced
  <2>1. CASE Unsynced(listed) = {}
    BY <1>3, <2>1, FlowFrame DEF FilterUnsynced, Return, Preparing
  <2>2. CASE Unsynced(listed) # {}
    <3>1. PICK s \in SetToSeqs(Unsynced(listed)) : todo' = s
      BY <1>3, <2>2 DEF FilterUnsynced
    <3>2. Unsynced(listed) \subseteq listed /\ Unsynced(listed) \in SUBSET Msg
      BY DEF Unsynced, TypeOK
    <3>3. /\ {todo'[i] : i \in 1..Len(todo')} \subseteq listed
          /\ \A i, j \in 1..Len(todo') : i # j => todo'[i] # todo'[j]
      BY <3>1, <3>2, Listings
    <3>4. chan = <<>> /\ cur = {} /\ start \in Nat /\ pc' = "range" /\ fpc' = "check"
      BY <1>3, <2>2 DEF FilterUnsynced, Control, Flow, Preparing, TypeOK
    <3>5. Fresh' = listed /\ UNCHANGED <<copies, listed, busy, chan, cur>>
      BY <1>3, <2>2 DEF FilterUnsynced, Fresh, Flow, Preparing, TypeOK
    <3>6. Ahead' \subseteq {todo'[i] : i \in 1..Len(todo')}
      <4>1. start' = start /\ \A i \in (start + 1)..Len(todo') : i \in 1..Len(todo')
        BY <1>3, <3>4 DEF FilterUnsynced
      <4> QED BY <4>1 DEF Ahead
    <3>7. AtHand' = {}
      BY <3>4, <3>5 DEF AtHand
    <3>8. NoDuplicate'
      BY <3>5 DEF Flow, NoDuplicate
    <3> QED BY <3>3, <3>4, <3>5, <3>6, <3>7, <3>8 DEF Flow, Preparing
  <2> QED BY <2>1, <2>2
<1>4. CASE FetcherContinues \/ FetcherStops \/ CloseChannel
  BY <1>4, FlowFrame DEF FetcherContinues, FetcherStops, CloseChannel
<1>5. CASE FetchBatch
  <2>1. held'.msgs \subseteq BatchUIDs(start) /\ (held'.err => held'.msgs = {})
    BY <1>5 DEF FetchBatch, FetchByUID, NoBatch
  <2>2. UNCHANGED <<pc, copies, listed, cur, busy, todo, start, chan, Fresh, Ahead,
                    AtHand, BatchUIDs(start), NoDuplicate>>
    BY <1>5 DEF FetchBatch, Fresh, Ahead, AtHand, BatchUIDs, NoDuplicate
  <2> QED BY <2>1, <2>2 DEF Flow, Preparing
<1>6. CASE SendBatch
  <2>1. UNCHANGED <<pc, copies, listed, cur, busy, todo, Fresh, AtHand, NoDuplicate>>
    BY <1>6 DEF SendBatch, Fresh, AtHand, NoDuplicate
  <2>2. /\ Len(chan') = Len(chan) + 1 /\ Len(chan) \in Nat
        /\ \A i \in 1..Len(chan) : chan'[i] = chan[i]
        /\ chan'[Len(chan) + 1] = held
    BY <1>6, AppendProperties DEF SendBatch, TypeOK
  <2>3. held.msgs \subseteq BatchUIDs(start) /\ (held.err => held.msgs = {})
    BY <1>6 DEF SendBatch, Flow
  <2>4. Ahead' \subseteq Ahead /\ held.msgs \cap Ahead' = {} /\ held.msgs \subseteq Ahead
    <3>1. CASE held.err
      BY <1>6, <2>3, <3>1 DEF SendBatch, Ahead
    <3>2. CASE ~held.err
      <4>1. Ahead' = {todo[i] : i \in (start + BatchSize + 1)..Len(todo)}
        BY <1>6, <3>2 DEF SendBatch, Ahead
      <4>2. Ahead = BatchUIDs(start) \cup Ahead' /\ BatchUIDs(start) \cap Ahead' = {}
        BY <4>1, BatchIsAhead DEF TypeOK, Flow
      <4> QED BY <2>3, <4>2
    <3> QED BY <3>1, <3>2
  <2>5. /\ held.msgs \subseteq Fresh /\ held.msgs \cap AtHand = {}
        /\ \A i \in 1..Len(chan) : chan[i].msgs \cap held.msgs = {}
    BY <2>4 DEF Flow
  <2>6. \A i \in 1..Len(chan') : i \in 1..Len(chan) \/ (i = Len(chan) + 1 /\ chan'[i] = held)
    BY <2>2
  <2>7. \A i \in 1..Len(chan') : /\ chan'[i].msgs \subseteq Fresh
                                 /\ chan'[i].msgs \cap Ahead' = {}
                                 /\ chan'[i].msgs \cap AtHand = {}
    BY <2>2, <2>4, <2>5, <2>6 DEF Flow
  <2>8. \A i, j \in 1..Len(chan') : i # j => chan'[i].msgs \cap chan'[j].msgs = {}
    <3> SUFFICES ASSUME NEW i \in 1..Len(chan'), NEW j \in 1..Len(chan'), i # j
                 PROVE  chan'[i].msgs \cap chan'[j].msgs = {}
      OBVIOUS
    <3>1. CASE i \in 1..Len(chan) /\ j \in 1..Len(chan)
      BY <3>1, <2>2 DEF Flow
    <3>2. CASE i \in 1..Len(chan) /\ j = Len(chan) + 1
      BY <3>2, <2>2, <2>5
    <3>3. CASE i = Len(chan) + 1 /\ j \in 1..Len(chan)
      BY <3>3, <2>2, <2>5
    <3> QED BY <2>6, <3>1, <3>2, <3>3
  <2>9. fpc' # "send"
    BY <1>6 DEF SendBatch
  <2>10. Ahead' \subseteq Fresh /\ AtHand \cap Ahead' = {}
    BY <2>4 DEF Flow
  <2>11. ~Preparing'
    BY <1>6 DEF SendBatch, Control, Preparing
  <2> QED BY <2>1, <2>7, <2>8, <2>9, <2>10, <2>11 DEF Flow, Preparing
<1>7. CASE ReceiveBatch
  <2>1. UNCHANGED <<copies, listed, busy, todo, start, fpc, held, Fresh, Ahead,
                    BatchUIDs(start), NoDuplicate>>
    BY <1>7 DEF ReceiveBatch, Fresh, Ahead, BatchUIDs, NoDuplicate
  <2>2. /\ Len(chan) \in Nat \ {0} /\ Len(chan') = Len(chan) - 1
        /\ \A i \in 1..Len(chan') : chan'[i] = chan[i + 1]
        /\ Head(chan) = chan[1]
    BY <1>7, HeadTailProperties DEF ReceiveBatch, TypeOK
  <2>3. \A i \in 1..Len(chan') : i + 1 \in 1..Len(chan) /\ i + 1 # 1
    BY <2>2
  <2>4. 1 \in 1..Len(chan)
    BY <2>2
  <2>5. AtHand' \subseteq Head(chan).msgs
    BY <1>7 DEF ReceiveBatch, AtHand, Flow
  <2>6. \A i, j \in 1..Len(chan') : i # j => chan'[i].msgs \cap chan'[j].msgs = {}
    <3> SUFFICES ASSUME NEW i \in 1..Len(chan'), NEW j \in 1..Len(chan'), i # j
                 PROVE  chan'[i].msgs \cap chan'[j].msgs = {}
      OBVIOUS
    <3>1. i + 1 \in 1..Len(chan) /\ j + 1 \in 1..Len(chan) /\ i + 1 # j + 1
      BY <2>2
    <3>2. chan[i + 1].msgs \cap chan[j + 1].msgs = {}
      BY <3>1 DEF Flow
    <3> QED BY <2>2, <3>2
  <2>7. \A i \in 1..Len(chan') : /\ chan'[i].msgs \subseteq Fresh
                                 /\ chan'[i].msgs \cap Ahead = {}
                                 /\ chan'[i].msgs \cap Head(chan).msgs = {}
    <3> SUFFICES ASSUME NEW i \in 1..Len(chan')
                 PROVE  /\ chan'[i].msgs \subseteq Fresh
                        /\ chan'[i].msgs \cap Ahead = {}
                        /\ chan'[i].msgs \cap Head(chan).msgs = {}
      OBVIOUS
    <3>1. chan'[i] = chan[i + 1] /\ i + 1 \in 1..Len(chan) /\ i + 1 # 1
      BY <2>2, <2>3
    <3>2. chan[i + 1].msgs \cap chan[1].msgs = {}
      BY <2>4, <3>1 DEF Flow
    <3> QED BY <2>2, <3>1, <3>2 DEF Flow
  <2>8. AtHand' \subseteq Fresh /\ AtHand' \cap Ahead = {}
    BY <2>2, <2>4, <2>5 DEF Flow
  <2>9. busy' \notin cur' /\ (pc' \notin {"copy", "append"} => cur' = {})
    BY <1>7, <2>2, <2>4, FolderCopyAssumption DEF ReceiveBatch, Flow, TypeOK, Fresh
  <2>10. pc' \in {"range", "copy"}
    BY <1>7 DEF ReceiveBatch
  <2> QED BY <2>1, <2>5, <2>6, <2>7, <2>8, <2>9, <2>10 DEF Flow, Preparing
<1>8. CASE EndOfBatches \/ EndOfBatch \/ Finish
  BY <1>8, FlowFrame DEF EndOfBatches, EndOfBatch, Finish, Return
<1>9. CASE Interrupted
  <2>1. AtHand' = {} /\ cur' = {} /\ pc' = "range"
    BY <1>9 DEF Interrupted, AtHand
  <2>2. UNCHANGED <<copies, listed, busy, todo, start, chan, fpc, held, Fresh, Ahead,
                    BatchUIDs(start), NoDuplicate>>
    BY <1>9 DEF Interrupted, Fresh, Ahead, BatchUIDs, NoDuplicate
  <2> QED BY <2>1, <2>2 DEF Flow, Preparing
<1>10. ASSUME NEW m \in Msg, TakeMessage(m) PROVE Flow'
  <2>1. AtHand' \subseteq AtHand /\ busy' \notin cur' /\ pc' \in {"copy", "append"}
    BY <1>10 DEF TakeMessage, AtHand, Flow
  <2>2. UNCHANGED <<copies, listed, todo, start, chan, fpc, held, Fresh, Ahead,
                    BatchUIDs(start), NoDuplicate>>
    BY <1>10 DEF TakeMessage, Fresh, Ahead, BatchUIDs, NoDuplicate
  <2>3. \A i \in 1..Len(chan) : chan[i].msgs \cap AtHand' = {}
    BY <2>1 DEF Flow
  <2> QED BY <2>1, <2>2, <2>3 DEF Flow, Preparing
<1>11. CASE AppendSucceeds \/ AppendFails
  <2>1. /\ pc = "append" /\ pc' = "copy" /\ busy' = NoMsg
        /\ UNCHANGED <<listed, cur, todo, start, chan, fpc, held, Ahead, BatchUIDs(start)>>
    BY <1>11 DEF AppendSucceeds, AppendFails, Ahead, BatchUIDs
  <2>2. busy \in Msg /\ busy \in Fresh /\ copies[busy] = 0 /\ busy \in listed
    BY <2>1 DEF TypeOK, Flow, AtHand, Fresh
  <2>3. copies' = copies \/ copies' = [copies EXCEPT ![busy] = 1]
    BY <1>11, <2>2 DEF AppendSucceeds, AppendFails, StoreBusy, TypeOK
  <2>4. NoDuplicate'
    <3>1. \A m \in Msg : copies'[m] = copies[m] \/ (m = busy /\ copies'[m] = 1)
      BY <2>2, <2>3 DEF TypeOK
    <3>2. NoDuplicate
      BY DEF Flow
    <3> QED BY <2>1, <2>2, <3>1, <3>2 DEF NoDuplicate
  <2>5. Fresh \ {busy} \subseteq Fresh' /\ Fresh' \subseteq Fresh
    BY <2>1, <2>2, <2>3 DEF Fresh, TypeOK
  <2>6. AtHand = cur \cup {busy} /\ AtHand' = cur /\ busy \notin cur
    BY <2>1 DEF AtHand, Flow
  <2>7. Ahead \subseteq Fresh' /\ AtHand' \subseteq Fresh' /\ AtHand' \cap Ahead = {}
    BY <2>5, <2>6 DEF Flow
  <2>8. \A i \in 1..Len(chan) : chan[i].msgs \subseteq Fresh' /\ chan[i].msgs \cap AtHand' = {}
    BY <2>5, <2>6 DEF Flow
  <2>9. NoMsg \notin cur
    BY FolderCopyAssumption DEF TypeOK
  <2> QED BY <2>1, <2>4, <2>7, <2>8, <2>9 DEF Flow, Preparing
<1>12. CASE Others
  BY <1>12, FlowFrame DEF Others, Cancel, UserChanges, NamesakePrepares, NamesakeMarks
<1>13. CASE Terminated
  BY <1>0, <1>13 DEF Terminated
<1> QED
  BY <1>0, <1>1, <1>2, <1>3, <1>4, <1>5, <1>6, <1>7, <1>8, <1>9, <1>10, <1>11, <1>12, <1>13
  DEF Next, Fetcher, Copier

\* So it always holds.
LEMMA FlowHolds == Spec => []Flow
  BY FlowInit, FlowNext, ControlHolds, PTL DEF Spec

\* One copyFolder stores no message twice and none it has not listed, for any
\* sizes of folder, batch and channel.
THEOREM StoredAtMostOnce == Spec => []NoDuplicate
<1>1. Flow => NoDuplicate
  BY DEF Flow
<1> QED BY <1>1, FlowHolds, PTL
-----------------------------------------------------------------------------
(* The account of the messages: what nil stands for *)

InChannel == UNION {chan[i].msgs : i \in 1..Len(chan)}
ErrorSent == \E i \in 1..Len(chan) : chan[i].err

\* Messages that need no further attention.
Settled == Stored \cup EverFlagged \cup borrowed \cup failed

\* Unless the copy is cancelled, a listed message is settled or still under way,
\* and if the fetcher has stopped with messages ahead then the error that
\* stopped it has been, or will be, received.
Account ==
  /\ pc \in {"range", "copy", "append", "finish"} /\ ~cancelled =>
       listed \subseteq Settled \cup Ahead \cup AtHand \cup InChannel
  /\ fpc \in {"close", "done"} => cancelled \/ copyErr \/ ErrorSent \/ Ahead = {}
  /\ \A i \in 1..Len(chan) : /\ chan[i].flagged \subseteq EverFlagged
                             /\ chan[i].err => chan[i].msgs = {}
  /\ curFlagged \subseteq EverFlagged
  /\ fpc = "send" => /\ held.flagged \subseteq EverFlagged
                     /\ held.err \/ BatchUIDs(start) \subseteq held.msgs \cup EverFlagged
  /\ pc # "done" => result = "none"
  /\ OkMeansCopiedUnlessCancelled

\* It holds at the start.
LEMMA AccountInit == Init => Account
<1> SUFFICES ASSUME Init PROVE Account
  OBVIOUS
<1> QED BY DEF Init, Account, OkMeansCopiedUnlessCancelled

\* A message that was flagged once stays one that was flagged once.
LEMMA FlaggedForGood == TypeOK /\ [Next]_vars => EverFlagged \subseteq EverFlagged'
<1> SUFFICES ASSUME TypeOK, [Next]_vars, UNCHANGED source \/ \E m \in Msg : UserChanges(m)
             PROVE  EverFlagged \subseteq EverFlagged'
  <2> USE DEF servers
  <2>1. UNCHANGED vars \/ Terminated => UNCHANGED source
    BY DEF vars, Terminated
  <2>2. Fetcher => UNCHANGED source
    BY DEF Fetcher, FetcherContinues, FetcherStops, FetchBatch, SendBatch, CloseChannel
  <2>3. Copier => UNCHANGED source
    BY DEF Copier, OpenFolder, Prepare, ListMessages, FilterUnsynced, ReceiveBatch,
           EndOfBatches, EndOfBatch, Interrupted, TakeMessage, AppendSucceeds,
           AppendFails, Finish
  <2>4. Others => UNCHANGED source \/ \E m \in Msg : UserChanges(m)
    BY DEF Others, Cancel, NamesakePrepares, NamesakeMarks
  <2> QED BY <2>1, <2>2, <2>3, <2>4 DEF Next
<1>1. CASE UNCHANGED source
  BY <1>1 DEF EverFlagged
<1>2. ASSUME NEW m \in Msg, UserChanges(m) PROVE EverFlagged \subseteq EverFlagged'
  BY <1>2 DEF UserChanges, EverFlagged, TypeOK
<1> QED BY <1>1, <1>2

\* Steps of the others, and those that end the copy for an empty folder or
\* with an error, leave the account in order.
LEMMA AccountFrame ==
  ASSUME Account, EverFlagged \subseteq EverFlagged', borrowed \subseteq borrowed',
         cancelled => cancelled',
         UNCHANGED <<copies, listed, cur, curFlagged, busy, failed, copyErr, todo,
                     start, held, chan>>,
         UNCHANGED pc
           \/ (pc # "done" /\ pc' \in {"prepare", "list", "filter", "done"}),
         fpc' = fpc \/ fpc' = "fetch" \/ fpc' = "check"
           \/ (fpc = "close" /\ fpc' = "done")
           \/ (fpc' = "close" /\ (cancelled \/ Ahead = {})),
         UNCHANGED result \/ (pc' = "done" /\ result' = "err")
           \/ (pc' = "done" /\ result' = "ok"
                /\ (~cancelled' => listed \subseteq Stored \cup EverFlagged \cup borrowed))
  PROVE  Account'
<1>1. UNCHANGED <<Ahead, InChannel, ErrorSent, Stored, BatchUIDs(start)>>
  BY DEF Ahead, InChannel, ErrorSent, Stored, BatchUIDs
<1>2. UNCHANGED pc => UNCHANGED AtHand
  BY DEF AtHand
<1>3. Settled \subseteq Settled'
  BY <1>1 DEF Settled
<1>4. OkMeansCopiedUnlessCancelled'
  BY <1>1 DEF Account, OkMeansCopiedUnlessCancelled
<1> QED BY <1>1, <1>2, <1>3, <1>4 DEF Account

\* Every step keeps it.
LEMMA AccountNext ==
  TypeOK /\ Control /\ Flow /\ SyncedStored /\ Account /\ [Next]_vars => Account'
<1> SUFFICES ASSUME TypeOK, Control, Flow, SyncedStored, Account, [Next]_vars
             PROVE  Account'
  OBVIOUS
<1> USE DEF servers, world, marks, copier, fetcher, pipe
<1>0. EverFlagged \subseteq EverFlagged'
  BY FlaggedForGood
<1>1. CASE UNCHANGED vars \/ Terminated
  BY <1>0, <1>1, AccountFrame DEF vars, Terminated
<1>2. CASE OpenFolder \/ Prepare
  <2>1. listed = {}
    BY <1>2 DEF OpenFolder, Prepare, Flow
  <2>2. CASE OpenFolder
    BY <1>0, <2>1, <2>2, AccountFrame DEF OpenFolder, Return
  <2>3. CASE Prepare
    BY <1>0, <2>1, <2>3, AccountFrame DEF Prepare, Return
  <2> QED BY <1>2, <2>2, <2>3
<1>3. CASE ListMessages
  <2>1. listed = {} /\ pc = "list" /\ fpc = "idle"
    BY <1>3 DEF ListMessages, Flow, Control, Preparing
  <2>2. CASE pc' = "done"
    BY <1>0, <1>3, <2>1, <2>2, AccountFrame DEF ListMessages, Return
  <2>3. CASE pc' = "filter" /\ UNCHANGED result
    <3>1. result' = "none"
      BY <2>1, <2>3 DEF Account
    <3> QED BY <1>3, <2>1, <2>3, <3>1, <1>0
        DEF ListMessages, Account, OkMeansCopiedUnlessCancelled
  <2> QED BY <1>3, <2>2, <2>3 DEF ListMessages, Return
<1>4. CASE FilterUnsynced
  <2>1. pc = "filter" /\ start \in Nat /\ result = "none"
    BY <1>4 DEF FilterUnsynced, TypeOK, Account
  <2>2. CASE Unsynced(listed) = {}
    <3>1. listed \subseteq Stored \cup borrowed
      BY <2>2 DEF Unsynced, SyncedStored
    <3> QED BY <1>0, <1>4, <2>2, <3>1, AccountFrame DEF FilterUnsynced, Return
  <2>3. CASE Unsynced(listed) # {}
    <3>1. /\ UNCHANGED <<copies, borrowed, failed, listed, chan, curFlagged, held,
                         EverFlagged, Stored>>
          /\ pc' = "range" /\ fpc' = "check" /\ result' = "none"
      BY <1>4, <2>1, <2>3 DEF FilterUnsynced, EverFlagged, Stored
    <3>2. Unsynced(listed) \subseteq Ahead'
        <4>1. PICK s \in SetToSeqs(Unsynced(listed)) : todo' = s
        BY <1>4, <2>3 DEF FilterUnsynced
      <4>2. Unsynced(listed) \in SUBSET Msg
        BY DEF Unsynced, TypeOK
      <4>3. \A m \in Unsynced(listed) : \E i \in 1..Len(todo') : todo'[i] = m
        BY <4>1, <4>2, ListingsCover
      <4>4. start' = 0
        BY <1>4, <2>1 DEF FilterUnsynced, Flow, Preparing
      <4> QED BY <4>3, <4>4 DEF Ahead
    <3>3. listed \subseteq Settled' \cup Ahead'
      BY <3>1, <3>2 DEF Unsynced, SyncedStored, Settled
    <3> QED BY <3>1, <3>3 DEF Account, OkMeansCopiedUnlessCancelled
  <2> QED BY <2>2, <2>3
<1>5. CASE FetcherContinues \/ CloseChannel
  BY <1>0, <1>5, AccountFrame DEF FetcherContinues, CloseChannel
<1>6. CASE FetcherStops
  <2>1. cancelled \/ Ahead = {}
    BY <1>6 DEF FetcherStops, Ahead, TypeOK
  <2> QED BY <1>0, <1>6, <2>1, AccountFrame DEF FetcherStops
<1>7. CASE FetchBatch
  <2>1. /\ held'.flagged \subseteq EverFlagged
        /\ held'.err \/ BatchUIDs(start) \subseteq held'.msgs \cup EverFlagged
    <3>1. BatchUIDs(start) \subseteq Msg
      BY BatchOfMessages DEF TypeOK
    <3>2. CASE held' = [NoBatch EXCEPT !.err = TRUE]
      BY <3>2 DEF NoBatch
    <3>3. CASE held' = [err |-> FALSE,
                        msgs |-> {m \in BatchUIDs(start) : source[m] # "gone"},
                        flagged |-> {m \in BatchUIDs(start) : source[m] = "deleted"}]
      BY <3>1, <3>3 DEF EverFlagged
    <3> QED BY <1>7, <3>2, <3>3 DEF FetchBatch, FetchByUID
  <2>2. UNCHANGED <<pc, cancelled, copyErr, result, listed, chan, curFlagged, Ahead, AtHand,
                    InChannel, Settled, Stored, EverFlagged, borrowed, BatchUIDs(start)>>
    BY <1>7 DEF FetchBatch, Ahead, AtHand, InChannel, Settled, Stored, EverFlagged, BatchUIDs
  <2>3. fpc' = "send"
    BY <1>7 DEF FetchBatch
  <2> QED BY <2>1, <2>2, <2>3 DEF Account, OkMeansCopiedUnlessCancelled
<1>8. CASE SendBatch
  <2>1. UNCHANGED <<pc, cancelled, copyErr, result, listed, curFlagged, AtHand, Settled,
                    Stored, EverFlagged, borrowed>>
    BY <1>8 DEF SendBatch, AtHand, Settled, Stored, EverFlagged
  <2>2. /\ Len(chan') = Len(chan) + 1 /\ Len(chan) \in Nat
        /\ \A i \in 1..Len(chan) : chan'[i] = chan[i]
        /\ chan'[Len(chan) + 1] = held
    BY <1>8, AppendProperties DEF SendBatch, TypeOK
  <2>3. /\ \A i \in 1..Len(chan) : i \in 1..Len(chan') /\ chan'[i] = chan[i]
        /\ Len(chan) + 1 \in 1..Len(chan') /\ chan'[Len(chan) + 1] = held
        /\ \A i \in 1..Len(chan') : i \in 1..Len(chan) \/ chan'[i] = held
    BY <2>2
  <2>4. InChannel' = InChannel \cup held.msgs /\ (ErrorSent' <=> ErrorSent \/ held.err)
    BY <2>3 DEF InChannel, ErrorSent
  <2>5. /\ held.flagged \subseteq EverFlagged
        /\ held.err \/ BatchUIDs(start) \subseteq held.msgs \cup EverFlagged
        /\ held.err => held.msgs = {}
    BY <1>8 DEF SendBatch, Account, Flow
  <2>6. Ahead \subseteq Ahead' \cup held.msgs \cup EverFlagged
    <3>1. CASE held.err
      BY <1>8, <3>1 DEF SendBatch, Ahead
    <3>2. CASE ~held.err
      <4>1. Ahead' = {todo[i] : i \in (start + BatchSize + 1)..Len(todo)}
        BY <1>8, <3>2 DEF SendBatch, Ahead
      <4>2. Ahead = BatchUIDs(start) \cup Ahead'
        BY <4>1, BatchIsAhead DEF TypeOK, Flow
      <4> QED BY <2>5, <3>2, <4>2
    <3> QED BY <3>1, <3>2
  <2>7. \A i \in 1..Len(chan') : /\ chan'[i].flagged \subseteq EverFlagged'
                                 /\ chan'[i].err => chan'[i].msgs = {}
    BY <2>1, <2>3, <2>5 DEF Account
  <2>8. fpc' = "check" \/ (fpc' = "close" /\ held.err)
    BY <1>8 DEF SendBatch
  <2>9. EverFlagged \subseteq Settled
    BY DEF Settled
  <2>10. Settled \cup Ahead \cup AtHand \cup InChannel
           \subseteq (Settled \cup Ahead \cup AtHand \cup InChannel)'
    BY <2>1, <2>4, <2>6, <2>9
  <2>11. fpc' \in {"close", "done"} => ErrorSent'
    BY <2>4, <2>8
  <2>12. OkMeansCopiedUnlessCancelled'
    BY <2>1 DEF Account, OkMeansCopiedUnlessCancelled
  <2>13. pc' \in {"range", "copy", "append", "finish"} /\ ~cancelled' =>
           listed' \subseteq (Settled \cup Ahead \cup AtHand \cup InChannel)'
    BY <2>1, <2>10 DEF Account
  <2>14. curFlagged' \subseteq EverFlagged' /\ fpc' # "send" /\ (pc' # "done" => result' = "none")
    BY <2>1, <2>8 DEF Account
  <2> QED BY <2>7, <2>11, <2>12, <2>13, <2>14 DEF Account
<1>9. CASE ReceiveBatch
  <2>1. UNCHANGED <<cancelled, result, listed, fpc, held, Settled, Stored, EverFlagged,
                    borrowed, Ahead, BatchUIDs(start)>>
    BY <1>9 DEF ReceiveBatch, Settled, Stored, EverFlagged, Ahead, BatchUIDs
  <2>2. /\ Len(chan) \in Nat \ {0} /\ Len(chan') = Len(chan) - 1
        /\ \A i \in 1..Len(chan') : chan'[i] = chan[i + 1]
        /\ Head(chan) = chan[1]
    BY <1>9, HeadTailProperties DEF ReceiveBatch, TypeOK
  <2>3. /\ 1 \in 1..Len(chan)
        /\ \A i \in 1..Len(chan') : i + 1 \in 1..Len(chan) /\ chan'[i] = chan[i + 1]
        /\ \A i \in 1..Len(chan) :
             i = 1 \/ \E j \in 1..Len(chan') : chan'[j] = chan[i]
    <3>1. \A i \in 1..Len(chan) : i = 1 \/ (i - 1 \in 1..Len(chan') /\ i = (i - 1) + 1)
      BY <2>2
    <3>2. \A i \in 1..Len(chan) : i = 1 \/ (i - 1 \in 1..Len(chan') /\ chan'[i - 1] = chan[i])
      BY <2>2, <3>1
    <3>3. \A i \in 1..Len(chan) : i = 1 \/ \E j \in 1..Len(chan') : chan'[j] = chan[i]
      BY <3>2
    <3>4. /\ 1 \in 1..Len(chan)
          /\ \A i \in 1..Len(chan') : i + 1 \in 1..Len(chan) /\ chan'[i] = chan[i + 1]
      BY <2>2
    <3> QED BY <3>3, <3>4
  <2>4. InChannel \subseteq InChannel' \cup Head(chan).msgs
    <3> SUFFICES ASSUME NEW i \in 1..Len(chan), NEW m \in chan[i].msgs
                 PROVE  m \in InChannel' \cup Head(chan).msgs
      BY DEF InChannel
    <3>1. CASE i = 1
      BY <2>2, <3>1
    <3>2. CASE i # 1
      <4>1. PICK j \in 1..Len(chan') : chan'[j] = chan[i]
        BY <2>3, <3>2
      <4> QED BY <4>1 DEF InChannel
    <3> QED BY <3>1, <3>2
  <2>5. ErrorSent => ErrorSent' \/ Head(chan).err
    BY <2>2, <2>3 DEF ErrorSent
  <2>6. \A i \in 1..Len(chan') : /\ chan'[i].flagged \subseteq EverFlagged'
                                 /\ chan'[i].err => chan'[i].msgs = {}
    BY <2>1, <2>3 DEF Account
  <2>7. Head(chan).flagged \subseteq EverFlagged /\ (Head(chan).err => Head(chan).msgs = {})
    BY <2>2, <2>3 DEF Account
  <2>8. pc = "range" /\ AtHand = {} /\ pc' \in {"range", "copy"} /\ result = "none"
    BY <1>9 DEF ReceiveBatch, AtHand, Flow, Account
  <2>9. /\ OkMeansCopiedUnlessCancelled'
        /\ fpc' = "send" =>
             /\ held'.flagged \subseteq EverFlagged'
             /\ held'.err \/ BatchUIDs(start)' \subseteq held'.msgs \cup EverFlagged'
    BY <2>1 DEF Account, OkMeansCopiedUnlessCancelled
  <2>10. CASE Head(chan).err
    <3>1. copyErr' = TRUE /\ UNCHANGED <<pc, curFlagged, AtHand>>
      BY <1>9, <2>10 DEF ReceiveBatch, AtHand
    <3>2. (Settled \cup Ahead \cup AtHand \cup InChannel)
            \subseteq (Settled \cup Ahead \cup AtHand \cup InChannel)'
      BY <2>1, <2>4, <2>7, <2>10, <3>1
    <3>3. ~cancelled' => listed' \subseteq (Settled \cup Ahead \cup AtHand \cup InChannel)'
      BY <2>1, <2>8, <3>2 DEF Account
    <3>4. curFlagged' \subseteq EverFlagged'
      BY <2>1, <3>1 DEF Account
    <3>5. copyErr' /\ (pc' # "done" => result' = "none")
      BY <2>1, <2>8, <3>1
    <3> QED BY <2>6, <2>9, <3>3, <3>4, <3>5 DEF Account
  <2>11. CASE ~Head(chan).err
    <3>1. /\ UNCHANGED copyErr /\ curFlagged' = Head(chan).flagged
          /\ AtHand' = Head(chan).msgs
      BY <1>9, <2>11 DEF ReceiveBatch, AtHand
    <3>2. (Settled \cup Ahead \cup AtHand \cup InChannel)
            \subseteq (Settled \cup Ahead \cup AtHand \cup InChannel)'
      BY <2>1, <2>4, <2>8, <3>1
    <3>3. ErrorSent => ErrorSent'
      BY <2>5, <2>11
    <3>4. curFlagged' \subseteq EverFlagged'
      BY <2>1, <2>7, <3>1
    <3>5. ~cancelled' => listed' \subseteq (Settled \cup Ahead \cup AtHand \cup InChannel)'
      BY <2>1, <2>8, <3>2 DEF Account
    <3>6. fpc' \in {"close", "done"} => cancelled' \/ copyErr' \/ ErrorSent' \/ Ahead' = {}
      BY <2>1, <3>1, <3>3 DEF Account
    <3>7. pc' # "done" => result' = "none"
      BY <2>1, <2>8
    <3> QED BY <2>6, <2>9, <3>4, <3>5, <3>6, <3>7 DEF Account
  <2> QED BY <2>10, <2>11
<1>10. CASE EndOfBatches \/ EndOfBatch
  <2>1. UNCHANGED <<cancelled, copyErr, result, listed, fpc, held, chan, Settled, Stored,
                    EverFlagged, borrowed, Ahead, InChannel, ErrorSent, BatchUIDs(start)>>
    BY <1>10 DEF EndOfBatches, EndOfBatch, Settled, Stored, EverFlagged, Ahead,
                 InChannel, ErrorSent, BatchUIDs
  <2>2. AtHand = {} /\ pc \in {"range", "copy"} /\ pc' \in {"range", "finish"}
    BY <1>10 DEF EndOfBatches, EndOfBatch, AtHand, Flow
  <2>3. curFlagged' \subseteq EverFlagged
    BY <1>10 DEF EndOfBatches, EndOfBatch, Account
  <2> QED BY <2>1, <2>2, <2>3 DEF Account, OkMeansCopiedUnlessCancelled
<1>11. CASE Interrupted
  <2>1. UNCHANGED <<cancelled, result, listed, fpc, held, chan, EverFlagged,
                    Ahead, ErrorSent, BatchUIDs(start)>>
    BY <1>11 DEF Interrupted, EverFlagged, Ahead, ErrorSent, BatchUIDs
  <2>2. cancelled /\ pc = "copy" /\ pc' = "range" /\ curFlagged' = {} /\ copyErr'
    BY <1>11 DEF Interrupted
  <2> QED BY <2>1, <2>2 DEF Account, OkMeansCopiedUnlessCancelled
<1>12. ASSUME NEW m \in Msg, TakeMessage(m) PROVE Account'
  <2>1. UNCHANGED <<cancelled, copyErr, result, listed, curFlagged, fpc, held, chan,
                    Settled, Stored, EverFlagged, borrowed, Ahead, InChannel, ErrorSent,
                    BatchUIDs(start)>>
    BY <1>12 DEF TakeMessage, Settled, Stored, EverFlagged, Ahead, InChannel, ErrorSent,
                 BatchUIDs
  <2>2. pc = "copy" /\ pc' \in {"copy", "append"}
    BY <1>12 DEF TakeMessage
  <2>3. AtHand \subseteq AtHand' \cup Settled
    <3>1. synced \cup curFlagged \subseteq Settled
      BY DEF SyncedStored, Account, Settled
    <3> QED BY <1>12, <3>1 DEF TakeMessage, AtHand
  <2> QED BY <2>1, <2>2, <2>3 DEF Account, OkMeansCopiedUnlessCancelled
<1>13. CASE AppendSucceeds \/ AppendFails
  <2>1. /\ UNCHANGED <<cancelled, copyErr, result, listed, curFlagged, fpc, held, chan,
                       EverFlagged, borrowed, Ahead, InChannel, ErrorSent, BatchUIDs(start)>>
        /\ pc = "append" /\ pc' = "copy" /\ AtHand = AtHand' \cup {busy} /\ busy \in Msg
    BY <1>13 DEF AppendSucceeds, AppendFails, EverFlagged, Ahead, InChannel, ErrorSent,
                 BatchUIDs, AtHand, TypeOK
  <2>2. StoreBusy => Stored' = Stored \cup {busy}
    BY <2>1 DEF StoreBusy, Stored, TypeOK
  <2>3. CASE AppendSucceeds
    <3>1. Settled' = Settled \cup {busy}
      BY <2>1, <2>2, <2>3 DEF AppendSucceeds, Settled
    <3> QED BY <2>1, <3>1 DEF Account, OkMeansCopiedUnlessCancelled
  <2>4. CASE AppendFails
    <3>1. Stored \subseteq Stored'
      BY <2>2, <2>4 DEF AppendFails, Stored
    <3>2. Settled \cup {busy} \subseteq Settled'
      BY <2>1, <2>4, <3>1 DEF AppendFails, Settled
    <3> QED BY <2>1, <3>2 DEF Account, OkMeansCopiedUnlessCancelled
  <2> QED BY <1>13, <2>3, <2>4
<1>14. CASE Finish
  <2>1. chan = <<>> /\ AtHand = {} /\ fpc = "done"
    BY <1>14 DEF Finish, Control, AtHand, Flow
  <2>2. InChannel = {} /\ ~ErrorSent
    BY <2>1 DEF InChannel, ErrorSent
  <2>3. ~cancelled /\ ~copyErr /\ failed = {} => listed \subseteq Stored \cup EverFlagged \cup borrowed
    BY <1>14, <2>1, <2>2 DEF Finish, Account, Settled
  <2> QED BY <1>0, <1>14, <2>3, AccountFrame DEF Finish, Return
<1>15. CASE Others
  BY <1>0, <1>15, AccountFrame DEF Others, Cancel, UserChanges, NamesakePrepares, NamesakeMarks
<1> QED
  BY <1>1, <1>2, <1>3, <1>4, <1>5, <1>6, <1>7, <1>8, <1>9, <1>10, <1>11, <1>12, <1>13,
     <1>14, <1>15
  DEF Next, Fetcher, Copier

\* So it always holds.
LEMMA AccountHolds == Spec => []Account
  BY AccountInit, AccountNext, ControlHolds, FlowHolds, MarkedIsStored, PTL DEF Spec

\* A copyFolder that was not cancelled returns nil only if nothing it listed is
\* missing: neither a batch boundary, nor a fetch error on its way through the
\* channel, nor a failed Append loses a message silently.
THEOREM NilMeansCopied == Spec => []OkMeansCopiedUnlessCancelled
<1>1. Account => OkMeansCopiedUnlessCancelled
  BY DEF Account
<1> QED BY <1>1, AccountHolds, PTL
-----------------------------------------------------------------------------
(* copyFolder keeps its promise *)

\* The copy goes past its first step only with the folder on the target.
Ensured == pc \notin {"open", "done"} => exists

\* It always holds.
LEMMA EnsuredHolds == Spec => []Ensured
<1>1. Init => Ensured
  BY DEF Init, Ensured
<1>2. Ensured /\ [Next]_vars => Ensured'
  <2> SUFFICES ASSUME Ensured, [Next]_vars PROVE Ensured'
    OBVIOUS
  <2> USE DEF Ensured, servers, world, marks, copier, fetcher, pipe
  <2>1. CASE UNCHANGED vars \/ Terminated
    BY <2>1 DEF vars, Terminated
  <2>2. CASE Fetcher
    BY <2>2 DEF Fetcher, FetcherContinues, FetcherStops, FetchBatch, SendBatch, CloseChannel
  <2>3. CASE OpenFolder \/ Prepare \/ ListMessages \/ FilterUnsynced
    <3>1. CASE OpenFolder
      BY <3>1 DEF OpenFolder, Return
    <3>2. CASE Prepare \/ ListMessages \/ FilterUnsynced
      BY <3>2 DEF Prepare, ListMessages, FilterUnsynced
    <3> QED BY <2>3, <3>1, <3>2
  <2>4. CASE ReceiveBatch \/ EndOfBatches \/ EndOfBatch \/ Interrupted \/ Finish
    BY <2>4 DEF ReceiveBatch, EndOfBatches, EndOfBatch, Interrupted, Finish, Return
  <2>5. CASE AppendSucceeds \/ AppendFails \/ \E m \in Msg : TakeMessage(m)
    BY <2>5 DEF AppendSucceeds, AppendFails, TakeMessage
  <2>6. CASE Others
    BY <2>6 DEF Others, Cancel, UserChanges, NamesakePrepares, NamesakeMarks
  <2> QED BY <2>1, <2>2, <2>3, <2>4, <2>5, <2>6 DEF Next, Copier
<1> QED BY <1>1, <1>2, PTL DEF Spec

\* The contract's phase and excuses, as FolderCopy has them.
Phase == IF pc = "done" THEN result ELSE "working"
Excused == EverFlagged \cup borrowed

\* copyFolder starts as its contract does.
LEMMA ContractInit == Init => Contract!Init
<1> SUFFICES ASSUME Init PROVE Contract!Init
  OBVIOUS
<1>1. EverFlagged \cup borrowed \in SUBSET Msg
  BY DEF Init, EverFlagged
<1> QED BY <1>1 DEF Init, Contract!Init, FetcherAlive

\* Each way to return is a Return of the contract.
LEMMA ReturnKept ==
  ASSUME pc # "done", ~FetcherAlive, exists' \in {exists, TRUE}, NEW r \in {"ok", "err"},
         Return(r), r = "ok" => exists' /\ (cancelled \/ listed \subseteq Stored \cup Excused),
         UNCHANGED <<listed, copies, source, borrowed, cancelled, fpc>>, TypeOK
  PROVE  Contract!Next
<1>1. Phase = "working" /\ Phase' = r
  BY DEF Return, Phase
<1>2. r = "ok" => cancelled \/ {m \in listed : copies[m] = 0} \ Excused = {}
  BY DEF Stored, TypeOK
<1>3. UNCHANGED <<EverFlagged, FetcherAlive>>
  BY DEF EverFlagged, FetcherAlive
<1>4. Contract!Return(r)
  BY <1>1, <1>2, <1>3 DEF Contract!Return, Contract!Missing, Phase, Excused
<1> QED BY <1>4 DEF Contract!Next

\* Steps that neither the contract's phase nor its reading can see.
LEMMA Unseen ==
  ASSUME UNCHANGED <<exists, pc, result, listed, copies, source, borrowed, cancelled>>
           \/ (UNCHANGED <<exists, result, listed, copies, source, borrowed, cancelled>>
                /\ pc # "done" /\ pc' # "done"),
         UNCHANGED FetcherAlive
  PROVE  UNCHANGED Contract!vars
<1>1. UNCHANGED <<Phase, EverFlagged>>
  BY DEF Phase, EverFlagged
<1> QED BY <1>1 DEF Contract!vars, Phase

\* Every step of copyFolder is one of its contract, or none.
LEMMA ContractNext ==
  TypeOK /\ TypeOK' /\ Control /\ Control' /\ Flow /\ SyncedStored /\ Account /\ Account'
    /\ Ensured /\ [Next]_vars
  => [Contract!Next]_Contract!vars
<1> SUFFICES ASSUME TypeOK, TypeOK', Control, Control', Flow, SyncedStored, Account, Account',
                    Ensured, [Next]_vars
             PROVE  Contract!Next \/ UNCHANGED Contract!vars
  OBVIOUS
<1> USE DEF servers, world, marks, copier, fetcher, pipe
<1>1. CASE UNCHANGED vars \/ Terminated
  BY <1>1, Unseen DEF vars, Terminated, FetcherAlive
<1>2. CASE FetcherContinues \/ FetcherStops \/ FetchBatch \/ SendBatch
  <2>1. UNCHANGED FetcherAlive
    BY <1>2 DEF FetcherContinues, FetcherStops, FetchBatch, SendBatch, FetcherAlive
  <2> QED BY <1>2, <2>1, Unseen DEF FetcherContinues, FetcherStops, FetchBatch, SendBatch
<1>3. CASE CloseChannel
  <2>1. pc # "done" /\ FetcherAlive /\ ~FetcherAlive' /\ UNCHANGED EverFlagged
    BY <1>3 DEF CloseChannel, FetcherAlive, Control, FetcherGone, EverFlagged
  <2>2. Contract!Read
    BY <1>3, <2>1 DEF CloseChannel, Contract!Read, FetcherAlive
  <2> QED BY <2>2 DEF Contract!Next
<1>4. CASE OpenFolder
  <2>1. pc # "done" /\ ~FetcherAlive /\ listed = {} /\ UNCHANGED <<EverFlagged, FetcherAlive>>
    BY <1>4 DEF OpenFolder, FetcherAlive, Control, Preparing, Flow, EverFlagged
  <2>2. CASE Return("err")
    BY <1>4, <2>1, <2>2, ReturnKept DEF OpenFolder
  <2>3. CASE exists' = TRUE /\ Return("ok")
    BY <1>4, <2>1, <2>3, ReturnKept DEF OpenFolder
  <2>4. CASE exists' = TRUE /\ pc' = "prepare"
    <3>1. Contract!Ensure
      BY <1>4, <2>1, <2>4 DEF OpenFolder, Contract!Ensure
    <3> QED BY <3>1 DEF Contract!Next
  <2> QED BY <1>4, <2>2, <2>3, <2>4 DEF OpenFolder
<1>5. CASE Prepare
  <2>1. pc = "prepare" /\ ~FetcherAlive /\ UNCHANGED <<EverFlagged, FetcherAlive>>
    BY <1>5 DEF Prepare, FetcherAlive, Control, Preparing, EverFlagged
  <2>2. CASE Return("err") /\ UNCHANGED marks
    BY <1>5, <2>1, <2>2, ReturnKept DEF Prepare
  <2>3. CASE pc' = "list" /\ UNCHANGED <<borrowed, result>>
    BY <1>5, <2>1, <2>3, Unseen DEF Prepare
  <2> QED BY <1>5, <2>2, <2>3 DEF Prepare
<1>6. CASE ListMessages
  <2>1. /\ pc = "list" /\ exists /\ ~FetcherAlive /\ listed = {}
        /\ UNCHANGED <<EverFlagged, FetcherAlive>>
    BY <1>6 DEF ListMessages, FetcherAlive, Control, Preparing, Flow, EverFlagged, Ensured
  <2>2. CASE Return("err") /\ UNCHANGED listed
    BY <1>6, <2>1, <2>2, ReturnKept DEF ListMessages
  <2>3. CASE Return("ok") /\ UNCHANGED listed
    BY <1>6, <2>1, <2>3, ReturnKept DEF ListMessages
  <2>4. CASE listed' = Present /\ pc' = "filter"
    <3>1. Contract!List
      BY <1>6, <2>1, <2>4 DEF ListMessages, Contract!List, Present
    <3> QED BY <3>1 DEF Contract!Next
  <2> QED BY <1>6, <2>2, <2>3, <2>4 DEF ListMessages
<1>7. CASE FilterUnsynced
  <2>1. pc = "filter" /\ exists /\ ~FetcherAlive /\ UNCHANGED EverFlagged
    BY <1>7 DEF FilterUnsynced, FetcherAlive, Control, Preparing, EverFlagged, Ensured
  <2>2. CASE Unsynced(listed) = {}
    <3>1. listed \subseteq Stored \cup Excused
      BY <2>2 DEF Unsynced, SyncedStored, Excused
    <3> QED BY <1>7, <2>1, <2>2, <3>1, ReturnKept DEF FilterUnsynced
  <2>3. CASE Unsynced(listed) # {}
    <3>1. Contract!Read
      BY <1>7, <2>1, <2>3 DEF FilterUnsynced, Contract!Read, FetcherAlive
    <3> QED BY <3>1 DEF Contract!Next
  <2> QED BY <2>2, <2>3
<1>8. CASE ReceiveBatch \/ EndOfBatches \/ EndOfBatch \/ Interrupted
  BY <1>8, Unseen DEF ReceiveBatch, EndOfBatches, EndOfBatch, Interrupted, FetcherAlive
<1>9. ASSUME NEW m \in Msg, TakeMessage(m) PROVE UNCHANGED Contract!vars
  BY <1>9, Unseen DEF TakeMessage, FetcherAlive
<1>10. CASE AppendSucceeds \/ AppendFails
  <2>1. /\ pc = "append" /\ pc' = "copy"
        /\ UNCHANGED <<exists, result, listed, source, borrowed, cancelled, EverFlagged,
                       FetcherAlive>>
    BY <1>10 DEF AppendSucceeds, AppendFails, EverFlagged, FetcherAlive
  <2>2. busy \in Msg /\ busy \in listed /\ copies[busy] = 0
    BY <2>1 DEF TypeOK, Flow, AtHand, Fresh
  <2>3. CASE StoreBusy
    <3>1. copies' = [copies EXCEPT ![busy] = 1]
      BY <2>2, <2>3 DEF StoreBusy, TypeOK
    <3>2. Contract!Store(busy)
      BY <2>1, <2>2, <3>1 DEF Contract!Store
    <3> QED BY <2>2, <3>2 DEF Contract!Next
  <2>4. CASE UNCHANGED copies
    BY <2>1, <2>4, Unseen
  <2> QED BY <1>10, <2>3, <2>4 DEF AppendSucceeds, AppendFails
<1>11. CASE Finish
  <2>1. pc = "finish" /\ exists /\ fpc = "done" /\ pc' = "done"
    BY <1>11 DEF Finish, Return, Control, Ensured
  <2>2. result' = "ok" => cancelled \/ listed \subseteq Stored \cup Excused
    <3>1. UNCHANGED <<cancelled, listed, Stored, EverFlagged, borrowed>>
      BY <1>11 DEF Finish, Stored, EverFlagged
    <3> QED BY <3>1 DEF Account, OkMeansCopiedUnlessCancelled, Excused
  <2>3. result' \in {"ok", "err"} /\ Return(result')
    BY <1>11 DEF Finish, Return
  <2> QED BY <1>11, <2>1, <2>2, <2>3, ReturnKept DEF Finish, FetcherAlive
<1>12. CASE Cancel
  <2>1. UNCHANGED <<EverFlagged, FetcherAlive>>
    BY <1>12 DEF Cancel, EverFlagged, FetcherAlive
  <2>2. Contract!Cancel
    BY <1>12, <2>1 DEF Cancel, Contract!Cancel
  <2> QED BY <2>2 DEF Contract!Next
<1>13. ASSUME NEW m \in Msg, UserChanges(m) \/ NamesakeMarks(m) PROVE Contract!Next
  <2>1. EverFlagged \subseteq EverFlagged' /\ borrowed \subseteq borrowed'
    BY <1>13, FlaggedForGood DEF UserChanges, NamesakeMarks
  <2>2. EverFlagged' \cup borrowed' \in SUBSET Msg
    BY DEF EverFlagged, TypeOK
  <2>3. /\ UNCHANGED <<exists, pc, result, listed, copies, cancelled, FetcherAlive>>
    BY <1>13 DEF UserChanges, NamesakeMarks, FetcherAlive
  <2>4. EverFlagged' \cup borrowed' = (EverFlagged \cup borrowed) \cup (EverFlagged' \cup borrowed')
    BY <2>1
  <2>5. Contract!Excuse
    BY <2>2, <2>3, <2>4 DEF Contract!Excuse
  <2> QED BY <2>5 DEF Contract!Next
<1>14. CASE NamesakePrepares
  BY <1>14, Unseen DEF NamesakePrepares, FetcherAlive
<1> QED
  BY <1>1, <1>2, <1>3, <1>4, <1>5, <1>6, <1>7, <1>8, <1>9, <1>10, <1>11, <1>12, <1>13, <1>14
  DEF Next, Fetcher, Copier, Others

\* copyFolder implements FolderContract: what Mailbox.copy relies on when it
\* goes on to the next folder, for any sizes and any number of outside steps.
THEOREM CopyFolderKeepsContract == Spec => ContractKept
<1>1. Spec => Contract!Init /\ [][Contract!Next]_Contract!vars
  BY ContractInit, ContractNext, ControlHolds, FlowHolds, MarkedIsStored, AccountHolds,
     EnsuredHolds, PTL DEF Spec
<1> QED BY <1>1 DEF ContractKept, Contract!Spec

-----------------------------------------------------------------------------
(* The copy comes to an end, as far as that is a matter of safety *)

\* What is still to be sent, and what is still to be handled.
Unsent == IF start < Len(todo) THEN Len(todo) - start ELSE 0
Pending == Ahead \cup InChannel \cup cur

PreparingStage ==
  CASE pc = "open" -> 4 [] pc = "prepare" -> 3 [] pc = "list" -> 2 [] OTHER -> 1

CopierStage ==
  CASE pc = "append" -> 4 [] pc = "copy" -> 3 [] pc = "range" -> 2 [] pc = "finish" -> 1
    [] OTHER -> 0

FetcherStage ==
  CASE fpc = "check" -> 6 [] fpc = "fetch" -> 5 [] fpc = "send" -> 4 [] fpc = "close" -> 1
    [] OTHER -> 0

\* More than the steps that the caller and its fetcher still have to take.
Work ==
  IF Preparing
  THEN 7 * Cardinality(Msg) + 8 + PreparingStage
  ELSE 2 * Cardinality(Pending) + 2 * Len(chan) + 5 * Unsent + CopierStage + FetcherStage

\* The guards of the caller and of the fetcher.
CopierReady ==
  pc \notin {"range", "done"} \/ (pc = "range" /\ (chan # <<>> \/ closed))
FetcherReady ==
  fpc \in {"check", "fetch", "close"} \/ (fpc = "send" /\ Len(chan) < ChanCap)

\* Whoever waits at the channel is served: the copier waits only for a fetcher that is
\* still at work, the fetcher only for a copier that is still in its loop, and unless
\* both have ended, one of them can go on.
WaitsAreServed ==
  /\ pc # "done" /\ ~CopierReady => FetcherReady
  /\ FetcherAlive /\ ~FetcherReady => pc \in {"range", "copy", "append"} /\ CopierReady
  /\ ~(pc = "done" /\ ~FetcherAlive) => CopierReady \/ FetcherReady

\* A fetcher that fetches or sends has something to fetch.
Within == fpc \in {"fetch", "send"} => start < Len(todo)

\* It always holds.
LEMMA WithinHolds == Spec => []Within
<1>1. Init => Within
  BY DEF Init, Within
<1>2. Within /\ [Next]_vars => Within'
  <2> SUFFICES ASSUME Within, [Next]_vars PROVE Within'
    OBVIOUS
  <2> USE DEF Within, servers, world, marks, copier, fetcher, pipe
  <2>1. CASE UNCHANGED vars \/ Terminated
    BY <2>1 DEF vars, Terminated
  <2>2. CASE Fetcher
    BY <2>2 DEF Fetcher, FetcherContinues, FetcherStops, FetchBatch, SendBatch, CloseChannel
  <2>3. CASE OpenFolder \/ Prepare \/ ListMessages
    BY <2>3 DEF OpenFolder, Prepare, ListMessages
  <2>4. CASE FilterUnsynced
    BY <2>4 DEF FilterUnsynced
  <2>5. CASE ReceiveBatch \/ EndOfBatches \/ EndOfBatch \/ Interrupted \/ Finish
    BY <2>5 DEF ReceiveBatch, EndOfBatches, EndOfBatch, Interrupted, Finish
  <2>6. CASE AppendSucceeds \/ AppendFails \/ \E m \in Msg : TakeMessage(m)
    BY <2>6 DEF AppendSucceeds, AppendFails, TakeMessage
  <2>7. CASE Others
    BY <2>7 DEF Others, Cancel, UserChanges, NamesakePrepares, NamesakeMarks
  <2> QED BY <2>1, <2>2, <2>3, <2>4, <2>5, <2>6, <2>7 DEF Next, Copier
<1> QED BY <1>1, <1>2, PTL DEF Spec

\* Work is made of numbers.
Numbers ==
  /\ Pending \subseteq Msg /\ IsFiniteSet(Pending)
  /\ Cardinality(Pending) \in Nat /\ Cardinality(Pending) <= Cardinality(Msg)
  /\ Cardinality(Msg) \in Nat
  /\ Len(chan) \in Nat /\ Len(todo) \in Nat /\ start \in Nat /\ Unsent \in Nat
  /\ PreparingStage \in 1..4 /\ CopierStage \in Nat /\ FetcherStage \in Nat

\* As long as the types and the flow are right.
LEMMA NumbersHold == TypeOK /\ Flow => Numbers
<1> SUFFICES ASSUME TypeOK, Flow PROVE Numbers
  OBVIOUS
<1>1. Pending \subseteq Msg
  BY DEF Pending, InChannel, Flow, Fresh, AtHand, TypeOK
<1>2. /\ IsFiniteSet(Pending) /\ Cardinality(Pending) \in Nat /\ Cardinality(Msg) \in Nat
      /\ Cardinality(Pending) <= Cardinality(Msg)
  BY <1>1, FolderCopyAssumption, FS_Subset, FS_CardinalityType
<1>3. Len(chan) \in Nat /\ Len(todo) \in Nat /\ start \in Nat
  BY DEF TypeOK
<1>4. Unsent \in Nat
  BY <1>3 DEF Unsent
<1>5. PreparingStage \in 1..4 /\ CopierStage \in Nat /\ FetcherStage \in Nat
  BY DEF PreparingStage, CopierStage, FetcherStage
<1> QED
  BY <1>1, <1>2, <1>3, <1>4, <1>5 DEF Numbers

\* Two facts about sums of this kind.
LEMMA LessInSum ==
  ASSUME NEW a \in Nat, NEW b \in Nat, NEW c \in Nat, NEW d \in Nat, NEW e \in Nat,
         NEW f \in Nat, NEW g \in Nat, NEW h \in Nat, NEW i \in Nat, NEW j \in Nat,
         \/ f <= a /\ 2 * g + 5 * h + i + j < 2 * b + 5 * c + d + e
         \/ f <= a - 1 /\ 2 * g + 5 * h + i + j <= 2 * b + 5 * c + d + e + 1
  PROVE  2 * f + 2 * g + 5 * h + i + j < 2 * a + 2 * b + 5 * c + d + e
  OBVIOUS

\* There is less to do if no message is added and the rest has less weight.
LEMMA LessIsLess ==
  ASSUME Numbers, Numbers', ~Preparing, ~Preparing', Pending' \subseteq Pending,
         2 * Len(chan') + 5 * Unsent' + CopierStage' + FetcherStage'
           < 2 * Len(chan) + 5 * Unsent + CopierStage + FetcherStage
  PROVE  Work' < Work
<1>1. Cardinality(Pending') <= Cardinality(Pending)
  BY FS_Subset DEF Numbers
<1>2. Work = 2 * Cardinality(Pending) + 2 * Len(chan) + 5 * Unsent + CopierStage + FetcherStage
  BY DEF Work
<1>3. Work' = 2 * Cardinality(Pending') + 2 * Len(chan') + 5 * Unsent' + CopierStage' + FetcherStage'
  BY DEF Work
<1>4. /\ Cardinality(Pending) \in Nat /\ Len(chan) \in Nat /\ Unsent \in Nat
      /\ CopierStage \in Nat /\ FetcherStage \in Nat
  BY DEF Numbers
<1>5. Cardinality(Pending') \in Nat
  BY DEF Numbers
<1>6. Len(chan') \in Nat
  BY DEF Numbers
<1>7. Unsent' \in Nat
  BY DEF Numbers
<1>8. CopierStage' \in Nat
  BY DEF Numbers
<1>9. FetcherStage' \in Nat
  BY DEF Numbers
<1> QED
  BY <1>1, <1>2, <1>3, <1>4, <1>5, <1>6, <1>7, <1>8, <1>9, LessInSum

\* Or if a message is handled and the rest has hardly more.
LEMMA OneHandled ==
  ASSUME Numbers, Numbers', ~Preparing, ~Preparing',
         NEW m \in Pending, Pending' \subseteq Pending \ {m},
         2 * Len(chan') + 5 * Unsent' + CopierStage' + FetcherStage'
           <= 2 * Len(chan) + 5 * Unsent + CopierStage + FetcherStage + 1
  PROVE  Work' < Work
<1>1. /\ IsFiniteSet(Pending \ {m})
      /\ Cardinality(Pending \ {m}) = Cardinality(Pending) - 1
  BY FS_RemoveElement DEF Numbers
<1>2. Cardinality(Pending') <= Cardinality(Pending) - 1
  BY <1>1, FS_Subset
<1>3. Work = 2 * Cardinality(Pending) + 2 * Len(chan) + 5 * Unsent + CopierStage + FetcherStage
  BY DEF Work
<1>4. Work' = 2 * Cardinality(Pending') + 2 * Len(chan') + 5 * Unsent' + CopierStage' + FetcherStage'
  BY DEF Work
<1>5. /\ Cardinality(Pending) \in Nat /\ Len(chan) \in Nat /\ Unsent \in Nat
      /\ CopierStage \in Nat /\ FetcherStage \in Nat
  BY DEF Numbers
<1>6. Cardinality(Pending') \in Nat
  BY DEF Numbers
<1>7. Len(chan') \in Nat
  BY DEF Numbers
<1>8. Unsent' \in Nat
  BY DEF Numbers
<1>9. CopierStage' \in Nat
  BY DEF Numbers
<1>10. FetcherStage' \in Nat
  BY DEF Numbers
<1> QED
  BY <1>2, <1>3, <1>4, <1>5, <1>6, <1>7, <1>8, <1>9, <1>10, LessInSum

\* It is a number itself.
LEMMA WorkIsNumber == Numbers => Work \in Nat
<1> SUFFICES ASSUME Numbers PROVE Work \in Nat
  OBVIOUS
<1>1. CASE Preparing
  <2>1. Work = 7 * Cardinality(Msg) + 8 + PreparingStage
    BY <1>1 DEF Work
  <2>2. Cardinality(Msg) \in Nat /\ PreparingStage \in Nat
    BY DEF Numbers
  <2> QED
    BY <2>1, <2>2
<1>2. CASE ~Preparing
  <2>1. Work = 2 * Cardinality(Pending) + 2 * Len(chan) + 5 * Unsent + CopierStage + FetcherStage
    BY <1>2 DEF Work
  <2>2. /\ Cardinality(Pending) \in Nat /\ Len(chan) \in Nat /\ Unsent \in Nat
        /\ CopierStage \in Nat /\ FetcherStage \in Nat
    BY DEF Numbers
  <2> QED
    BY <2>1, <2>2
<1> QED
  BY <1>1, <1>2

\* The preparation goes on from stage to stage, and what it leaves to do is less than it
\* was itself.
LEMMA PreparationWorks ==
  ASSUME TypeOK, Control, Flow, Numbers, Numbers',
         OpenFolder \/ Prepare \/ ListMessages \/ FilterUnsynced
  PROVE  Work' < Work
<1> USE DEF servers, world, marks, copier, fetcher, pipe
<1>1. Preparing /\ fpc = "idle" /\ chan = <<>> /\ todo = <<>> /\ start = 0 /\ cur = {}
  BY DEF OpenFolder, Prepare, ListMessages, FilterUnsynced, Preparing, Control, Flow
<1>2. Work = 7 * Cardinality(Msg) + 8 + PreparingStage
  BY <1>1 DEF Work
<1>3. CASE pc' = "done"
  <2>1. UNCHANGED <<fpc, chan, todo, start, cur>>
    BY <1>3, <1>1
    DEF OpenFolder, Prepare, ListMessages, FilterUnsynced, Return
  <2>2. Pending' = {} /\ Unsent' = 0 /\ CopierStage' = 0 /\ FetcherStage' = 0
    BY <1>1, <1>3, <2>1 DEF Pending, Ahead, InChannel, Unsent, CopierStage, FetcherStage
  <2>3. Work' = 0
    BY <1>1, <1>3, <2>1, <2>2, FS_EmptySet DEF Work, Preparing
  <2> QED
    BY <1>2, <2>3 DEF Numbers
<1>4. CASE pc' # "done" /\ ~FilterUnsynced
  <2>1. \/ pc = "open" /\ pc' = "prepare"
        \/ pc = "prepare" /\ pc' = "list"
        \/ pc = "list" /\ pc' = "filter"
    BY <1>4 DEF OpenFolder, Prepare, ListMessages, Return
  <2>2. Preparing' /\ PreparingStage' < PreparingStage
    BY <2>1 DEF Preparing, PreparingStage
  <2> QED
    BY <1>2, <2>2 DEF Work, Numbers
<1>5. CASE pc' # "done" /\ FilterUnsynced
  <2>1. PICK s \in SetToSeqs(Unsynced(listed)) : todo' = s
    BY <1>5 DEF FilterUnsynced, Return
  <2>2. UNCHANGED <<chan, start, cur>> /\ pc' = "range" /\ fpc' = "check" /\ pc = "filter"
    BY <1>5 DEF FilterUnsynced, Return
  <2>3. Unsynced(listed) \in SUBSET Msg
    BY DEF Unsynced, TypeOK
  <2>4. Len(todo') = Cardinality(Unsynced(listed)) /\ Cardinality(Unsynced(listed)) <= Cardinality(Msg)
    <3>1. /\ Cardinality(Unsynced(listed)) \in Nat
          /\ Cardinality(Unsynced(listed)) <= Cardinality(Msg)
      BY <2>3, FS_Subset, FS_CardinalityType, FolderCopyAssumption
    <3>2. s \in [1..Cardinality(Unsynced(listed)) -> Unsynced(listed)]
      BY DEF SetToSeqs
    <3> QED
      BY <2>1, <3>1, <3>2
  <2>5. Unsent' <= Cardinality(Msg)
    BY <1>1, <2>2, <2>4 DEF Numbers, Unsent
  <2>6. CopierStage' = 2 /\ FetcherStage' = 6 /\ Len(chan') = 0 /\ ~Preparing'
    BY <1>1, <2>2 DEF CopierStage, FetcherStage, Preparing
  <2>7. Work' = 2 * Cardinality(Pending') + 5 * Unsent' + 8
    BY <2>6 DEF Work, Numbers
  <2>8. /\ Cardinality(Pending') \in Int /\ Cardinality(Pending') <= Cardinality(Msg)
        /\ Cardinality(Msg) \in Int /\ Unsent' \in Int /\ PreparingStage \in 1..4
    BY DEF Numbers
  <2> QED
    BY <1>2, <2>5, <2>7, <2>8
<1> QED
  BY <1>3, <1>4, <1>5

\* Each step of the fetcher is progress, a send included, which hands its work on.
LEMMA FetcherWorks ==
  ASSUME TypeOK, Control, Flow, Within, Numbers, Numbers', Fetcher
  PROVE  Work' < Work
<1> USE DEF servers, world, marks, copier, fetcher, pipe
<1>1. ~Preparing /\ ~Preparing' /\ UNCHANGED <<pc, cur, todo, CopierStage>>
  BY DEF Fetcher, FetcherContinues, FetcherStops, FetchBatch, SendBatch, CloseChannel,
         Control, Preparing, CopierStage
<1>2. CASE FetcherContinues \/ FetcherStops \/ FetchBatch \/ CloseChannel
  <2>1. UNCHANGED <<start, chan, Pending, Unsent>>
    BY <1>2 DEF FetcherContinues, FetcherStops, FetchBatch, CloseChannel, Pending, Ahead,
                InChannel, Unsent
  <2>2. FetcherStage' < FetcherStage
    BY <1>2 DEF FetcherContinues, FetcherStops, FetchBatch, CloseChannel, FetcherStage
  <2> QED
    BY <1>1, <2>1, <2>2, LessIsLess DEF Numbers
<1>3. CASE SendBatch
  <2>1. /\ Len(chan') = Len(chan) + 1 /\ Len(chan) \in Nat
        /\ \A i \in 1..Len(chan) : chan'[i] = chan[i]
        /\ chan'[Len(chan) + 1] = held
    BY <1>3, AppendProperties DEF SendBatch, TypeOK
  <2>2. InChannel' \subseteq InChannel \cup held.msgs
    <3>1. \A i \in 1..Len(chan') : i \in 1..Len(chan) \/ chan'[i] = held
      BY <2>1
    <3> QED
      BY <2>1, <3>1 DEF InChannel
  <2>3. held.msgs \subseteq BatchUIDs(start) /\ start < Len(todo)
    BY <1>3 DEF SendBatch, Flow, Within
  <2>4. Ahead = BatchUIDs(start) \cup {todo[i] : i \in (start + BatchSize + 1)..Len(todo)}
    BY BatchIsAhead DEF TypeOK, Flow
  <2>5. CASE held.err
    <3>1. fpc = "send" /\ fpc' = "close" /\ UNCHANGED <<start, Ahead, Unsent>>
      BY <1>1, <1>3, <2>5 DEF SendBatch, Ahead, Unsent
    <3>2. Pending' \subseteq Pending
      BY <1>1, <2>2, <2>3, <2>4, <3>1 DEF Pending
    <3>3. FetcherStage = 4 /\ FetcherStage' = 1
      BY <3>1 DEF FetcherStage
    <3>4. 2 * Len(chan') + 5 * Unsent' + CopierStage' + FetcherStage'
            < 2 * Len(chan) + 5 * Unsent + CopierStage + FetcherStage
      BY <1>1, <2>1, <3>1, <3>3 DEF Numbers
    <3> QED
      BY <1>1, <3>2, <3>4, LessIsLess
  <2>6. CASE ~held.err
    <3>1. fpc = "send" /\ fpc' = "check" /\ start' = start + BatchSize
      BY <1>3, <2>6 DEF SendBatch
    <3>2. Ahead' \subseteq Ahead
      BY <1>1, <2>4, <3>1 DEF Ahead
    <3>3. Pending' \subseteq Pending
      BY <1>1, <2>2, <2>3, <2>4, <3>2 DEF Pending
    <3>4. FetcherStage = 4 /\ FetcherStage' = 6
      BY <3>1 DEF FetcherStage
    <3>5. Unsent' <= Unsent - 1
      BY <1>1, <2>3, <3>1, FolderCopyAssumption DEF Unsent, TypeOK
    <3>6. 2 * Len(chan') + 5 * Unsent' + CopierStage' + FetcherStage'
            < 2 * Len(chan) + 5 * Unsent + CopierStage + FetcherStage
      <4>1. Unsent \in Int /\ Unsent' \in Int /\ CopierStage \in Int /\ CopierStage' = CopierStage
        BY <1>1 DEF Numbers
      <4> QED
        BY <2>1, <3>4, <3>5, <4>1
    <3> QED
      BY <1>1, <3>3, <3>6, LessIsLess
  <2> QED
    BY <2>5, <2>6
<1> QED
  BY <1>2, <1>3 DEF Fetcher

\* Each step of the copier is: it receives, handles a message, or is done with one.
LEMMA CopierWorks ==
  ASSUME TypeOK, Control, Flow, Numbers, Numbers', Copier
  PROVE  Work' < Work
<1> USE DEF servers, world, marks, copier, fetcher, pipe
<1>1. ASSUME ReceiveBatch \/ EndOfBatches \/ EndOfBatch \/ Interrupted \/ AppendSucceeds
               \/ AppendFails \/ Finish \/ \E m \in Msg : TakeMessage(m)
      PROVE  ~Preparing /\ ~Preparing' /\ UNCHANGED <<start, todo, Unsent, Ahead, FetcherStage>>
  BY <1>1 DEF ReceiveBatch, EndOfBatches, EndOfBatch, Interrupted, AppendSucceeds, AppendFails,
              Finish, TakeMessage, Return, Preparing, Unsent, Ahead, FetcherStage
<1>2. CASE ReceiveBatch
  <2>1. /\ Len(chan) \in Nat \ {0} /\ Len(chan') = Len(chan) - 1
        /\ \A i \in 1..Len(chan') : chan'[i] = chan[i + 1]
        /\ Head(chan) = chan[1]
    BY <1>2, HeadTailProperties DEF ReceiveBatch, TypeOK
  <2>2. InChannel' \cup Head(chan).msgs \subseteq InChannel
    <3>1. 1 \in 1..Len(chan) /\ \A i \in 1..Len(chan') : i + 1 \in 1..Len(chan)
      BY <2>1
    <3> QED
      BY <2>1, <3>1 DEF InChannel
  <2>3. cur' \subseteq Head(chan).msgs /\ CopierStage' <= CopierStage + 1
    BY <1>2 DEF ReceiveBatch, Flow, CopierStage
  <2>4. Pending' \subseteq Pending
    BY <1>1, <1>2, <2>2, <2>3 DEF Pending
  <2>5. 2 * Len(chan') + 5 * Unsent' + CopierStage' + FetcherStage'
          < 2 * Len(chan) + 5 * Unsent + CopierStage + FetcherStage
    <3>1. Unsent \in Nat /\ FetcherStage \in Nat /\ CopierStage \in Nat /\ CopierStage' \in Nat
      BY DEF Numbers
    <3> QED
      BY <1>1, <1>2, <2>1, <2>3, <3>1
  <2> QED
    BY <1>1, <1>2, <2>4, <2>5, LessIsLess
<1>3. CASE EndOfBatches \/ EndOfBatch \/ AppendSucceeds \/ AppendFails \/ Finish
  <2>1. UNCHANGED <<chan, cur, InChannel>> /\ CopierStage' < CopierStage
    BY <1>3 DEF EndOfBatches, EndOfBatch, AppendSucceeds, AppendFails, Finish, Return,
                InChannel, CopierStage
  <2>2. Pending' = Pending
    BY <1>1, <1>3, <2>1 DEF Pending
  <2>3. 2 * Len(chan') + 5 * Unsent' + CopierStage' + FetcherStage'
          < 2 * Len(chan) + 5 * Unsent + CopierStage + FetcherStage
    <3>1. Unsent \in Nat /\ FetcherStage \in Nat /\ CopierStage \in Nat /\ CopierStage' \in Nat
          /\ Len(chan) \in Nat
      BY DEF Numbers
    <3> QED
      BY <1>1, <1>3, <2>1, <3>1
  <2> QED
    BY <1>1, <1>3, <2>2, <2>3, LessIsLess
<1>4. CASE Interrupted
  <2>1. UNCHANGED <<chan, InChannel>> /\ cur' = {} /\ CopierStage = 3 /\ CopierStage' = 2
    BY <1>4 DEF Interrupted, InChannel, CopierStage
  <2>2. Pending' \subseteq Pending
    BY <1>1, <1>4, <2>1 DEF Pending
  <2>3. 2 * Len(chan') + 5 * Unsent' + CopierStage' + FetcherStage'
          < 2 * Len(chan) + 5 * Unsent + CopierStage + FetcherStage
    <3>1. Unsent \in Nat /\ FetcherStage \in Nat /\ Len(chan) \in Nat
      BY DEF Numbers
    <3> QED
      BY <1>1, <1>4, <2>1, <3>1
  <2> QED
    BY <1>1, <1>4, <2>2, <2>3, LessIsLess
<1>5. ASSUME NEW m \in Msg, TakeMessage(m) PROVE Work' < Work
  <2>1. UNCHANGED <<chan, InChannel>> /\ cur' = cur \ {m} /\ m \in cur /\ CopierStage' <= CopierStage + 1
    BY <1>5 DEF TakeMessage, InChannel, CopierStage
  <2>2. m \notin Ahead /\ m \notin InChannel
    BY <1>5, <2>1 DEF Flow, AtHand, InChannel
  <2>3. m \in Pending /\ Pending' \subseteq Pending \ {m}
    BY <1>1, <1>5, <2>1, <2>2 DEF Pending
  <2>4. 2 * Len(chan') + 5 * Unsent' + CopierStage' + FetcherStage'
          <= 2 * Len(chan) + 5 * Unsent + CopierStage + FetcherStage + 1
    <3>1. Unsent \in Nat /\ FetcherStage \in Nat /\ CopierStage \in Nat /\ CopierStage' \in Nat
          /\ Len(chan) \in Nat
      BY DEF Numbers
    <3> QED
      BY <1>1, <1>5, <2>1, <3>1
  <2> QED
    BY <1>1, <1>5, <2>3, <2>4, OneHandled
<1> QED
  BY <1>2, <1>3, <1>4, <1>5, PreparationWorks DEF Copier

\* Nobody else makes work for them.
LEMMA OthersAddNothing == Others => Work' = Work
<1> SUFFICES ASSUME Others PROVE Work' = Work
  OBVIOUS
<1>1. UNCHANGED <<pc, cur, fpc, todo, start, chan>>
  BY DEF Others, Cancel, UserChanges, NamesakePrepares, NamesakeMarks, copier, fetcher, pipe
<1> QED
  BY <1>1 DEF Work, Preparing, Pending, Ahead, InChannel, Unsent, PreparingStage, CopierStage,
              FetcherStage

\* A copyFolder takes no more than 7 n + 12 steps, those of its fetcher included, for
\* n messages, whatever the batches, the errors and everybody else do: each of its
\* steps leaves less to do, and no other step adds to it (copy.go:96-252).
THEOREM WorkIsBounded ==
  Spec => /\ [](Work \in 0..(7 * Cardinality(Msg) + 12))
          /\ [][/\ Fetcher \/ Copier => Work' < Work
                /\ Others => Work' = Work]_vars
<1> DEFINE IInv == TypeOK /\ Control /\ Flow /\ Within /\ Numbers /\ Work \in Nat
           Bounded == Work \in 0..(7 * Cardinality(Msg) + 12)
           Progress == (Fetcher \/ Copier => Work' < Work) /\ (Others => Work' = Work)
<1>1. Spec => []IInv
  BY NumbersHold, WorkIsNumber, ControlHolds, FlowHolds, WithinHolds, PTL
<1>2. IInv /\ IInv' /\ [Next]_vars => [Progress]_vars
  <2> SUFFICES ASSUME IInv, IInv', [Next]_vars, ~UNCHANGED vars PROVE Progress
    OBVIOUS
  <2> QED
    BY FetcherWorks, CopierWorks, OthersAddNothing
<1>3. Init => Bounded
  <2> SUFFICES ASSUME Init PROVE Bounded
    OBVIOUS
  <2>1. Work = 7 * Cardinality(Msg) + 8 + 4
    BY DEF Init, Work, Preparing, PreparingStage
  <2>2. Cardinality(Msg) \in Nat
    BY FolderCopyAssumption, FS_CardinalityType
  <2> QED
    BY <2>1, <2>2
<1>4. IInv /\ IInv' /\ [Next]_vars /\ Bounded => Bounded'
  <2> SUFFICES ASSUME IInv, IInv', [Next]_vars, Bounded PROVE Bounded'
    OBVIOUS
  <2>1. Work' \in Nat
    OBVIOUS
  <2>2. CASE UNCHANGED vars \/ Terminated
    <3>1. UNCHANGED <<pc, cur, fpc, todo, start, chan>>
      BY <2>2 DEF vars, Terminated, copier, fetcher, pipe
    <3>2. Work' = Work
      BY <3>1 DEF Work, Preparing, Pending, Ahead, InChannel, Unsent, PreparingStage,
                  CopierStage, FetcherStage
    <3> QED
      BY <3>2
  <2>3. CASE Fetcher \/ Copier \/ Others
    <3>1. Work' < Work \/ Work' = Work
      BY <2>3, FetcherWorks, CopierWorks, OthersAddNothing
    <3> HIDE DEF IInv
    <3>2. Cardinality(Msg) \in Nat
      BY FolderCopyAssumption, FS_CardinalityType
    <3> QED
      BY <2>1, <3>1, <3>2
  <2> QED
    BY <2>2, <2>3 DEF Next
<1> QED
  BY <1>1, <1>2, <1>3, <1>4, PTL DEF Spec

\* No send to the full channel and no receive from the empty one waits for somebody who
\* will not come: with WorkIsBounded that is what Termination needs besides fairness.
THEOREM NobodyIsLeftWaiting == Spec => []WaitsAreServed
<1>1. TypeOK /\ Control => WaitsAreServed
  <2> SUFFICES ASSUME TypeOK, Control PROVE WaitsAreServed
    OBVIOUS
  <2>1. chan = <<>> => Len(chan) < ChanCap
    BY FolderCopyAssumption
  <2>2. Len(chan) <= ChanCap
    BY DEF TypeOK
  <2>3. ~(Len(chan) < ChanCap) => chan # <<>>
    BY <2>1
  <2>4. pc # "done" /\ ~CopierReady => FetcherReady
    BY <2>1 DEF CopierReady, FetcherReady, Control, Preparing, TypeOK
  <2>5. FetcherAlive /\ ~FetcherReady => pc \in {"range", "copy", "append"} /\ CopierReady
    BY <2>3 DEF CopierReady, FetcherReady, FetcherAlive, Control, FetcherGone, Preparing, TypeOK
  <2> QED
    BY <2>4, <2>5 DEF WaitsAreServed, CopierReady, FetcherReady, FetcherAlive, TypeOK
<1> QED
  BY <1>1, ControlHolds, PTL

=============================================================================
