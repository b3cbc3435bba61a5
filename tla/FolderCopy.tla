------------------------------ MODULE FolderCopy ------------------------------
(***************************************************************************)
(* One call of Mailbox.copyFolder (internal/mailbox/copy.go): a goroutine  *)
(* fetches the unsynced messages of the source folder in batches and hands *)
(* them through a buffered channel to the copier, which appends them to    *)
(* the target folder and marks them in the shared sync state.  Around it:  *)
(* users change the source folder, a signal cancels the context, each IMAP *)
(* call may fail, and a second mailbox entry with the same name (nothing   *)
(* in config.Validate forbids it) writes to the same folder record.        *)
(*                                                                         *)
(* A message stands for its UID in the source folder.                      *)
(***************************************************************************)
EXTENDS Naturals, FiniteSets, SequencesExt

CONSTANTS
  Msg,                \* messages the source folder may ever hold
  NoMsg,              \* no message
  BatchSize,          \* batchSize, 50 in the code
  ChanCap,            \* capacity of batchChan, 2 in the code
  MaxOutside          \* bound on the steps of users and of the namesake

ASSUME FolderCopyAssumption ==
  /\ IsFiniteSet(Msg)
  /\ NoMsg \notin Msg
  /\ BatchSize \in Nat \ {0}
  /\ ChanCap \in Nat \ {0}
  /\ MaxOutside \in Nat

VARIABLES
  \* the two servers and the outside world
  source,             \* where each message is in the source folder
  exists,             \* the folder exists on the target
  copies,             \* copies of each message this call put on the target
  cancelled,          \* ctx is cancelled
  outside,            \* steps taken by users and the namesake so far
  \* the folder's record in the sync state
  validity,           \* "none" (0), "ours" or "theirs"
  synced,             \* SyncedUIDs
  borrowed,           \* history: UIDs the namesake has marked
  \* the calling goroutine: copyFolder and its copier loop
  pc,
  listed,             \* messages, as returned by FetchAll
  cur,                \* messages of the current batch still to copy
  curFlagged,         \* those of them that carry \Deleted
  busy,               \* the message being appended
  failed,             \* messages counted by msgFailCount
  copyErr,            \* copyErr # nil
  result,             \* the value returned
  late,               \* history: messages stored after the cancellation
  \* the fetcher goroutine and its channel
  fpc,
  todo,               \* unsyncedUIDs
  start,
  held,               \* the batch it has fetched
  chan,               \* contents of batchChan
  closed              \* batchChan is closed

servers == <<source, exists, copies>>
world   == <<cancelled, outside>>
marks   == <<validity, synced, borrowed>>
copier  == <<pc, listed, cur, curFlagged, busy, failed, copyErr, result, late>>
fetcher == <<fpc, todo, start, held>>
pipe    == <<chan, closed>>

vars == <<servers, world, marks, copier, fetcher, pipe>>

Place == {"unborn", "live", "deleted", "restored", "gone"}

Batch == [err : BOOLEAN, msgs : SUBSET Msg, flagged : SUBSET Msg]
NoBatch == [err |-> FALSE, msgs |-> {}, flagged |-> {}]

\* What a SELECT or a FETCH 1:* of the source folder shows.
Present == {m \in Msg : source[m] \in {"live", "deleted", "restored"}}

\* Messages a user has flagged as deleted at some time.
EverFlagged == {m \in Msg : source[m] \in {"deleted", "restored", "gone"}}

Stored == {m \in Msg : copies[m] > 0}

\* state.GetUnsyncedUIDs
Unsynced(msgs) == msgs \ synced

\* Variants with a bug: each batch reaches into the next one; each batch
\* leaves out its last message.
BatchUIDsOverlapping(from) ==
  {todo[i] : i \in {j \in DOMAIN todo : from < j /\ j <= from + BatchSize + 1}}
BatchUIDsShort(from) ==
  {todo[i] : i \in {j \in DOMAIN todo : from < j /\ j < from + BatchSize}}

\* unsyncedUIDs[start:end]
BatchUIDs(from) ==
  LET end == IF from + BatchSize > Len(todo) THEN Len(todo) ELSE from + BatchSize
  IN  {todo[i] : i \in (from + 1)..end}

FetcherAlive == fpc \notin {"idle", "done"}

-----------------------------------------------------------------------------
Init ==
  /\ source \in [Msg -> {"unborn", "live", "deleted"}]
  /\ exists \in BOOLEAN
  /\ copies = [m \in Msg |-> 0]
  /\ cancelled = FALSE /\ outside = 0
  /\ validity = "none" /\ synced = {} /\ borrowed = {}
  /\ pc = "open" /\ listed = {} /\ cur = {} /\ curFlagged = {} /\ busy = NoMsg
  /\ failed = {} /\ copyErr = FALSE /\ result = "none" /\ late = 0
  /\ fpc = "idle" /\ todo = <<>> /\ start = 0 /\ held = NoBatch
  /\ chan = <<>> /\ closed = FALSE

-----------------------------------------------------------------------------
(* copyFolder up to the start of the fetcher *)

Return(r) == pc' = "done" /\ result' = r

\* Select the source folder, ensure the target folder; an empty source folder
\* is a finished one.
OpenFolder ==
  /\ pc = "open"
  /\ \/ exists' \in {exists, TRUE} /\ Return("err")
     \/ exists' = TRUE /\ Present = {} /\ Return("ok")
     \/ exists' = TRUE /\ Present # {} /\ pc' = "prepare" /\ UNCHANGED result
  /\ UNCHANGED <<source, copies, world, marks, listed, cur, curFlagged, busy,
                 failed, copyErr, late, fetcher, pipe>>

\* Select the target folder, then state.SetUIDValidity.
Prepare ==
  /\ pc = "prepare"
  /\ \/ Return("err") /\ UNCHANGED marks
     \/ /\ validity' = "ours"
        /\ synced' = IF validity = "theirs" THEN {} ELSE synced
        /\ pc' = "list"
        /\ UNCHANGED <<borrowed, result>>
  /\ UNCHANGED <<servers, world, listed, cur, curFlagged, busy, failed, copyErr,
                 late, fetcher, pipe>>

ListMessages ==
  /\ pc = "list"
  /\ \/ Return("err") /\ UNCHANGED listed
     \/ Present = {} /\ Return("ok") /\ UNCHANGED listed
     \/ Present # {} /\ listed' = Present /\ pc' = "filter" /\ UNCHANGED result
  /\ UNCHANGED <<servers, world, marks, cur, curFlagged, busy, failed, copyErr,
                 late, fetcher, pipe>>

\* Everything copied already: return.  Otherwise go fetch, and range over the
\* channel.
FilterUnsynced ==
  /\ pc = "filter"
  /\ IF Unsynced(listed) = {}
     THEN Return("ok") /\ UNCHANGED <<fpc, todo>>
     ELSE /\ todo' \in SetToSeqs(Unsynced(listed))
          /\ fpc' = "check" /\ pc' = "range"
          /\ UNCHANGED result
  /\ UNCHANGED <<servers, world, marks, listed, cur, curFlagged, busy, failed,
                 copyErr, late, start, held, pipe>>

-----------------------------------------------------------------------------
(* the fetcher goroutine *)

FetcherContinues ==
  /\ fpc = "check" /\ start < Len(todo) /\ ~cancelled
  /\ fpc' = "fetch"
  /\ UNCHANGED <<servers, world, marks, copier, todo, start, held, pipe>>

\* The loop is over, or the context is: either way without a word.
FetcherStops ==
  /\ fpc = "check" /\ (start >= Len(todo) \/ cancelled)
  /\ fpc' = "close"
  /\ UNCHANGED <<servers, world, marks, copier, todo, start, held, pipe>>

\* FetchByUID returns what is left of the messages, with their flags, or an
\* error and nothing.
FetchByUID(uids) ==
  {[err |-> FALSE,
    msgs |-> {m \in uids : source[m] # "gone"},
    flagged |-> {m \in uids : source[m] = "deleted"}],
   [NoBatch EXCEPT !.err = TRUE]}

FetchBatch ==
  /\ fpc = "fetch"
  /\ held' \in FetchByUID(BatchUIDs(start))
  /\ fpc' = "send"
  /\ UNCHANGED <<servers, world, marks, copier, todo, start, pipe>>

\* Variants with a bug: an error is sent without closing the channel; the
\* channel has no bound.
SendBatchNeverCloses ==
  /\ fpc = "send" /\ Len(chan) < ChanCap
  /\ chan' = Append(chan, held)
  /\ fpc' = IF held.err THEN "done" ELSE "check"
  /\ start' = start + BatchSize
  /\ held' = NoBatch
  /\ UNCHANGED <<servers, world, marks, copier, todo, closed>>
SendBatchUnbounded ==
  /\ fpc = "send"
  /\ chan' = Append(chan, held)
  /\ fpc' = IF held.err THEN "close" ELSE "check"
  /\ start' = start + BatchSize
  /\ held' = NoBatch
  /\ UNCHANGED <<servers, world, marks, copier, todo, closed>>

SendBatch ==
  /\ fpc = "send" /\ Len(chan) < ChanCap
  /\ chan' = Append(chan, held)
  /\ IF held.err
     THEN fpc' = "close" /\ UNCHANGED start
     ELSE fpc' = "check" /\ start' = start + BatchSize
  /\ held' = NoBatch
  /\ UNCHANGED <<servers, world, marks, copier, todo, closed>>

CloseChannel ==
  /\ fpc = "close"
  /\ closed' = TRUE
  /\ fpc' = "done"
  /\ UNCHANGED <<servers, world, marks, copier, todo, start, held, chan>>

-----------------------------------------------------------------------------
(* the copier loop *)

ReceiveBatch ==
  /\ pc = "range" /\ chan # <<>>
  /\ chan' = Tail(chan)
  /\ IF Head(chan).err
     THEN copyErr' = TRUE /\ UNCHANGED <<pc, cur, curFlagged>>
     ELSE /\ cur' = Head(chan).msgs /\ curFlagged' = Head(chan).flagged
          /\ pc' = "copy"
          /\ UNCHANGED copyErr
  /\ UNCHANGED <<servers, world, marks, listed, busy, failed, result, late,
                 fetcher, closed>>

EndOfBatches ==
  /\ pc = "range" /\ chan = <<>> /\ closed
  /\ pc' = "finish"
  /\ UNCHANGED <<servers, world, marks, listed, cur, curFlagged, busy, failed,
                 copyErr, result, late, fetcher, pipe>>

EndOfBatch ==
  /\ pc = "copy" /\ cur = {}
  /\ pc' = "range" /\ curFlagged' = {}
  /\ UNCHANGED <<servers, world, marks, listed, cur, busy, failed, copyErr,
                 result, late, fetcher, pipe>>

\* Variant with a bug: the break leaves the range loop as well.
InterruptedLeavesLoop ==
  /\ pc = "copy" /\ cur # {} /\ cancelled
  /\ copyErr' = TRUE
  /\ cur' = {} /\ curFlagged' = {} /\ pc' = "finish"
  /\ UNCHANGED <<servers, world, marks, listed, busy, failed, result, late,
                 fetcher, pipe>>

\* The context is over: break out of this batch, keep ranging over the rest.
Interrupted ==
  /\ pc = "copy" /\ cur # {} /\ cancelled
  /\ copyErr' = TRUE
  /\ cur' = {} /\ curFlagged' = {} /\ pc' = "range"
  /\ UNCHANGED <<servers, world, marks, listed, busy, failed, result, late,
                 fetcher, pipe>>

\* Variant with a bug: the copier never looks at the context.
TakeMessageRegardless(m) ==
  /\ pc = "copy" /\ m \in cur
  /\ cur' = cur \ {m}
  /\ IF m \in synced \cup curFlagged
     THEN UNCHANGED <<pc, busy>>
     ELSE busy' = m /\ pc' = "append"
  /\ UNCHANGED <<servers, world, marks, listed, curFlagged, failed, copyErr,
                 result, late, fetcher, pipe>>

\* copyMessage skips what is marked already or flagged as deleted.
TakeMessage(m) ==
  /\ pc = "copy" /\ m \in cur /\ ~cancelled
  /\ cur' = cur \ {m}
  /\ IF m \in synced \cup curFlagged
     THEN UNCHANGED <<pc, busy>>
     ELSE busy' = m /\ pc' = "append"
  /\ UNCHANGED <<servers, world, marks, listed, curFlagged, failed, copyErr,
                 result, late, fetcher, pipe>>

StoreBusy ==
  /\ copies' = [copies EXCEPT ![busy] = @ + 1]
  /\ late' = IF cancelled THEN late + 1 ELSE late

\* appendMessage: Append succeeds, then MarkSynced.  (SetUIDMapping here, and
\* UpdateLastSync in Finish, write fields of the record that no step of a copy
\* reads; SyncState has them.)
AppendSucceeds ==
  /\ pc = "append"
  /\ StoreBusy
  /\ synced' = synced \cup {busy}
  /\ busy' = NoMsg /\ pc' = "copy"
  /\ UNCHANGED <<source, exists, world, validity, borrowed, listed, cur,
                 curFlagged, failed, copyErr, result, fetcher, pipe>>

\* Variant with a bug: the message is marked before the answer is looked at.
AppendFailsMarked ==
  /\ pc = "append"
  /\ StoreBusy \/ UNCHANGED <<copies, late>>
  /\ synced' = synced \cup {busy}
  /\ failed' = failed \cup {busy}
  /\ busy' = NoMsg /\ pc' = "copy"
  /\ UNCHANGED <<source, exists, world, validity, borrowed, listed, cur,
                 curFlagged, copyErr, result, fetcher, pipe>>

\* The throttle gives up (cancelled), the server rejects the message, or it
\* stores it and the answer is lost or lacks the new UID.
AppendFails ==
  /\ pc = "append"
  /\ StoreBusy \/ UNCHANGED <<copies, late>>
  /\ failed' = failed \cup {busy}
  /\ busy' = NoMsg /\ pc' = "copy"
  /\ UNCHANGED <<source, exists, world, marks, listed, cur, curFlagged, copyErr,
                 result, fetcher, pipe>>

\* Variant with a bug: failed messages are logged and forgotten.
FinishForgetful ==
  /\ pc = "finish"
  /\ Return(IF copyErr THEN "err" ELSE "ok")
  /\ UNCHANGED <<servers, world, marks, listed, cur, curFlagged, busy, failed,
                 copyErr, late, fetcher, pipe>>

Finish ==
  /\ pc = "finish"
  /\ Return(IF copyErr \/ failed # {} THEN "err" ELSE "ok")
  /\ UNCHANGED <<servers, world, marks, listed, cur, curFlagged, busy, failed,
                 copyErr, late, fetcher, pipe>>

-----------------------------------------------------------------------------
(* everybody else *)

Cancel ==
  /\ ~cancelled
  /\ cancelled' = TRUE
  /\ UNCHANGED <<servers, outside, marks, copier, fetcher, pipe>>

Outside == outside < MaxOutside /\ outside' = outside + 1

\* A message arrives, is flagged as deleted, unflagged, or expunged.
UserChanges(m) ==
  /\ Outside
  /\ \E next \in Place :
       /\ <<source[m], next>> \in
            {<<"unborn", "live">>, <<"live", "deleted">>, <<"restored", "deleted">>,
             <<"deleted", "restored">>, <<"deleted", "gone">>}
       /\ source' = [source EXCEPT ![m] = next]
  /\ UNCHANGED <<exists, copies, cancelled, marks, copier, fetcher, pipe>>

\* The other mailbox of this name copies a folder of this name: its
\* SetUIDValidity and its MarkSynced hit the same record.
NamesakePrepares ==
  /\ Outside
  /\ validity' = "theirs"
  /\ synced' = IF validity = "ours" THEN {} ELSE synced
  /\ UNCHANGED <<servers, cancelled, borrowed, copier, fetcher, pipe>>

NamesakeMarks(m) ==
  /\ Outside
  /\ validity # "none"
  /\ synced' = synced \cup {m} /\ borrowed' = borrowed \cup {m}
  /\ UNCHANGED <<servers, cancelled, validity, copier, fetcher, pipe>>

Terminated ==
  /\ pc = "done" /\ ~FetcherAlive
  /\ UNCHANGED vars

-----------------------------------------------------------------------------
Fetcher ==
  FetcherContinues \/ FetcherStops \/ FetchBatch \/ SendBatch \/ CloseChannel

Copier ==
  \/ OpenFolder \/ Prepare \/ ListMessages \/ FilterUnsynced
  \/ ReceiveBatch \/ EndOfBatches \/ EndOfBatch \/ Interrupted
  \/ \E m \in Msg : TakeMessage(m)
  \/ AppendSucceeds \/ AppendFails \/ Finish

Others ==
  \/ Cancel
  \/ \E m \in Msg : UserChanges(m)
  \/ NamesakePrepares
  \/ \E m \in Msg : NamesakeMarks(m)

Next == Fetcher \/ Copier \/ Others \/ Terminated

Spec == Init /\ [][Next]_vars

\* Both goroutines run on, given that the servers answer.
FairSpec == Spec /\ WF_vars(Fetcher) /\ WF_vars(Copier)

-----------------------------------------------------------------------------
(* Properties *)

\* Every variable has its type, batchChan never holds more than its capacity,
\* and a message is being appended exactly when the copier is in Append.
TypeOK ==
  /\ source \in [Msg -> Place] /\ exists \in BOOLEAN /\ copies \in [Msg -> Nat]
  /\ cancelled \in BOOLEAN /\ outside \in 0..MaxOutside
  /\ validity \in {"none", "ours", "theirs"}
  /\ synced \subseteq Msg /\ borrowed \subseteq Msg
  /\ pc \in {"open", "prepare", "list", "filter", "range", "copy", "append",
             "finish", "done"}
  /\ listed \subseteq Msg /\ cur \subseteq Msg /\ curFlagged \subseteq Msg
  /\ IF pc = "append" THEN busy \in Msg ELSE busy = NoMsg
  /\ failed \subseteq Msg /\ copyErr \in BOOLEAN
  /\ result \in {"none", "ok", "err"} /\ late \in Nat
  /\ fpc \in {"idle", "check", "fetch", "send", "close", "done"}
  /\ todo \in Seq(Msg) /\ start \in Nat /\ held \in Batch
  /\ chan \in Seq(Batch) /\ Len(chan) <= ChanCap /\ closed \in BOOLEAN

\* When copyFolder has returned, its fetcher is gone and the channel is empty:
\* Mailbox.copy selects the next folder on the same source connection at once,
\* and a fetcher left behind would fetch its UIDs from that folder.
FetcherGone == pc = "done" => ~FetcherAlive /\ chan = <<>>

\* One call stores each message at most once, and only listed messages, however
\* batches, failed appends and a namesake that resets the marks interleave.
NoDuplicate == \A m \in Msg : copies[m] <= 1 /\ (copies[m] = 1 => m \in listed)

\* A mark in the sync state is backed by a message on the target, or is the
\* namesake's: nothing is marked before its Append has succeeded.
SyncedStored == synced \subseteq Stored \cup borrowed

\* copyFolder returns nil without a cancellation only if every message it
\* listed is on the target, was flagged as deleted, or was marked by the
\* namesake: no batch, fetch error or failed append gets lost on the way.
OkMeansCopiedUnlessCancelled ==
  result = "ok" /\ ~cancelled => listed \subseteq Stored \cup EverFlagged \cup borrowed

\* After SIGINT at most the message already in Append still reaches the target,
\* however many fetched batches wait in the channel.
OneLateStore == late <= 1

\* The copy and its fetcher come to an end, cancelled or not: no send to a full
\* channel and no receive from an empty one waits for ever.
Termination == <>(pc = "done" /\ ~FetcherAlive)

Contract == INSTANCE FolderContract WITH
  phase <- IF pc = "done" THEN result ELSE "working",
  excused <- EverFlagged \cup borrowed,
  reading <- FetcherAlive

\* copyFolder keeps the promise its caller relies on (FolderContract).
ContractKept == Contract!Spec

\* "copyFolder copies a single folder's messages from source to target"
\* (copy.go:79): when it returns nil the listed messages are there.
OkMeansCopied ==
  result = "ok" => listed \subseteq Stored \cup EverFlagged \cup borrowed

\* "Full flag copying (read/unread, starred, deleted, etc.)" (README.md:21): a
\* message that carries \Deleted is copied like any other.
FlaggedCopiedToo ==
  result = "ok" /\ ~cancelled => listed \cap Present \subseteq Stored \cup borrowed
=============================================================================
