------------------------------- MODULE Runner -------------------------------
(***************************************************************************)
(* boxcopy copy --perform: performCopy and cleanTargets (internal/runner). *)
(* After the confirmation one pool of workers cleans the targets of all    *)
(* mailboxes; then the sync state is loaded, cleared and saved; then a     *)
(* second pool copies the mailboxes; then the state is saved again.  A     *)
(* signal may cancel the context, a wait may time out, the process may be  *)
(* killed at any point, and the next run may have other mailboxes.  Two    *)
(* mailboxes may share a target account, or a name and thus their marks.   *)
(*                                                                         *)
(* A clean-up job keeps the promise that CleanTarget checks (OldMailGone), *)
(* a copy job that of MailboxCopy (NilMeansAllCopied), a save and a load   *)
(* those of SyncState (atomic, or an error).                               *)
(***************************************************************************)
EXTENDS Naturals, FiniteSets

CONSTANTS
  Mailbox,            \* the [[mailbox]] entries there may be
  Account,            \* accounts on the target server
  TargetOf,           \* the target account of each mailbox
  Name,               \* names of mailboxes
  NameOf,             \* the name of each mailbox, under which its marks are kept
  MaxConnections      \* max_connections, the size of both pools

ASSUME RunnerAssumption ==
  /\ IsFiniteSet(Mailbox)
  /\ TargetOf \in [Mailbox -> Account]
  /\ NameOf \in [Mailbox -> Name]
  /\ MaxConnections \in Nat \ {0}

VARIABLES
  \* outside the process
  dirty,              \* accounts with messages from before this run
  delivered,          \* what this run has put on the target for each mailbox
  file,               \* the marks in the state file under each name
  \* the process
  entries,            \* cfg.Mailboxes
  pc,                 \* of performCopy and cleanTargets; "shell" if not called
  todo,               \* mailboxes still to be enqueued
  clean,              \* the job of each mailbox in the pool of cleanTargets
  copy,               \* the job of each mailbox in the pool of performCopy
  marks,              \* the marks in the sync state under each name
  cancelled,          \* ctx is cancelled
  result              \* the value returned

outside == <<dirty, delivered, file>>
jobs    == <<clean, copy>>

vars == <<outside, entries, pc, todo, jobs, marks, cancelled, result>>

Job == {"none", "queued", "running", "ok", "err"}

\* Marks of an earlier run, no marks, marks of this run.
Marks == {"stale", "none", "ours"}

NoJobs == [mb \in Mailbox |-> "none"]
Nothing == [mb \in Mailbox |-> "nothing"]
NoMarks == [n \in Name |-> "none"]
Having(pool, what) == {mb \in Mailbox : pool[mb] \in what}
Unfinished(pool) == Having(pool, {"queued", "running"})

\* Both counters of errors are raised by the failing job itself.
Errors(pool) == Cardinality(Having(pool, {"err"}))

-----------------------------------------------------------------------------
NoProcess ==
  /\ pc = "shell" /\ entries = {} /\ todo = {} /\ clean = NoJobs /\ copy = NoJobs
  /\ marks = NoMarks /\ cancelled = FALSE /\ result = "none"

Init ==
  /\ dirty = Account /\ delivered = Nothing
  /\ file \in [Name -> {"stale", "none"}]
  /\ NoProcess

\* performCopy is called with the mailboxes of the configuration.
Begin(configured) ==
  /\ pc = "shell"
  /\ pc' = "confirm" /\ entries' = configured
  /\ UNCHANGED <<outside, todo, jobs, marks, cancelled, result>>

Return(r, next) == result' = r /\ pc' = next
Go(next) == pc' = next /\ UNCHANGED result

\* Anything but YES ends the run.
Confirm ==
  /\ pc = "confirm"
  /\ \/ todo' = entries /\ Go("clean")
     \/ Return("err", "exited") /\ UNCHANGED todo
  /\ UNCHANGED <<outside, entries, jobs, marks, cancelled>>

-----------------------------------------------------------------------------
(* the two pools, of the worker library *)

Enqueue(pool, mb) == [pool EXCEPT ![mb] = "queued"]

\* Variant with a bug: one job too many.
StartJobOffByOne(pool, mb) ==
  /\ pool[mb] = "queued"
  /\ Cardinality(Having(pool, {"running"})) <= MaxConnections

StartJob(pool, mb) ==
  /\ pool[mb] = "queued"
  /\ Cardinality(Having(pool, {"running"})) < MaxConnections

\* WaitForTasks: nil when all tasks are over, an error when the time is.
AllOver(pool) == Unfinished(pool) = {}

-----------------------------------------------------------------------------
(* cleanTargets *)

\* Every return goes through the deferred worker.Stop, whose error is dropped.
EnqueueClean ==
  /\ pc = "clean" /\ todo # {}
  /\ \/ /\ \E mb \in todo : todo' = todo \ {mb} /\ clean' = Enqueue(clean, mb)
        /\ UNCHANGED <<pc, result>>
     \/ Return("err", "stopClean") /\ UNCHANGED <<todo, clean>>
  /\ UNCHANGED <<outside, entries, copy, marks, cancelled>>

StartClean(mb) ==
  /\ StartJob(clean, mb)
  /\ clean' = [clean EXCEPT ![mb] = "running"]
  /\ UNCHANGED <<outside, entries, pc, todo, copy, marks, cancelled, result>>

\* cleanTargetMailbox returns nil, or fails half-way, or at the end, in its deferred
\* Close.  Whatever copies another mailbox has put there are gone in each case.
FinishClean(mb) ==
  /\ clean[mb] = "running"
  /\ \/ clean' = [clean EXCEPT ![mb] = "ok"] /\ dirty' = dirty \ {TargetOf[mb]}
     \/ clean' = [clean EXCEPT ![mb] = "err"] /\ dirty' \in {dirty, dirty \ {TargetOf[mb]}}
  /\ delivered' = [other \in Mailbox |->
       IF TargetOf[other] = TargetOf[mb] THEN "nothing" ELSE delivered[other]]
  /\ UNCHANGED <<file, entries, pc, todo, copy, marks, cancelled, result>>

\* Variant with a bug: failed clean-ups are only logged.
CleanTargetsForgiving ==
  /\ pc = "clean" /\ todo = {} /\ AllOver(clean)
  /\ Go("load")
  /\ UNCHANGED <<outside, entries, todo, jobs, marks, cancelled>>

CleanTargets ==
  /\ pc = "clean" /\ todo = {} /\ AllOver(clean)
  /\ IF Errors(clean) = 0 THEN Go("load") ELSE Return("err", "stopClean")
  /\ UNCHANGED <<outside, entries, todo, jobs, marks, cancelled>>

\* Variant with a bug: the error of the wait is only logged.
CleanTimesOutForgiving ==
  /\ pc = "clean" /\ todo = {} /\ ~AllOver(clean)
  /\ Go("load")
  /\ UNCHANGED <<outside, entries, todo, jobs, marks, cancelled>>

CleanTimesOut ==
  /\ pc = "clean" /\ todo = {} /\ ~AllOver(clean)
  /\ Return("err", "stopClean")
  /\ UNCHANGED <<outside, entries, todo, jobs, marks, cancelled>>

StopCleaning ==
  /\ pc = "stopClean"
  /\ Go("exited")
  /\ UNCHANGED <<outside, entries, todo, jobs, marks, cancelled>>

-----------------------------------------------------------------------------
(* the sync state *)

Cleared == {NameOf[mb] : mb \in entries}

\* Variant with a bug: the marks of the last run stay.
LoadStateUncleared ==
  /\ pc = "load"
  /\ \/ marks' = file /\ Go("saveCleared")
     \/ Return("err", "exited") /\ UNCHANGED marks
  /\ UNCHANGED <<outside, entries, todo, jobs, cancelled>>

\* Load, then ClearMailbox for every mailbox of the configuration.
LoadState ==
  /\ pc = "load"
  /\ \/ /\ marks' = [n \in Name |-> IF n \in Cleared THEN "none" ELSE file[n]]
        /\ Go("saveCleared")
     \/ Return("err", "exited") /\ UNCHANGED marks
  /\ UNCHANGED <<outside, entries, todo, jobs, cancelled>>

Save == file' = marks /\ UNCHANGED <<dirty, delivered>>

\* Variant with a bug: the cleared state is not saved.
SaveClearedLater ==
  /\ pc = "saveCleared"
  /\ todo' = entries /\ Go("copy")
  /\ UNCHANGED <<outside, entries, jobs, marks, cancelled>>

\* The pool of copies is created next, which may fail too.
SaveCleared ==
  /\ pc = "saveCleared"
  /\ \/ Save /\ todo' = entries /\ Go("copy")
     \/ (Save \/ UNCHANGED outside) /\ UNCHANGED todo /\ Return("err", "exited")
  /\ UNCHANGED <<entries, jobs, marks, cancelled>>

-----------------------------------------------------------------------------
(* the copies *)

\* From here on every return goes through the deferred worker.Stop.
EnqueueCopy ==
  /\ pc = "copy" /\ todo # {}
  /\ \/ /\ \E mb \in todo : todo' = todo \ {mb} /\ copy' = Enqueue(copy, mb)
        /\ UNCHANGED <<pc, result>>
     \/ Return("err", "stop") /\ UNCHANGED <<todo, copy>>
  /\ UNCHANGED <<outside, entries, clean, marks, cancelled>>

StartCopy(mb) ==
  /\ StartJob(copy, mb)
  /\ copy' = [copy EXCEPT ![mb] = "running"]
  /\ UNCHANGED <<outside, entries, pc, todo, clean, marks, cancelled, result>>

\* A message is appended and marked.
CopyMessage(mb) ==
  /\ copy[mb] = "running" /\ delivered[mb] = "nothing" /\ marks[NameOf[mb]] # "stale"
  /\ delivered' = [delivered EXCEPT ![mb] = "some"]
  /\ marks' = [marks EXCEPT ![NameOf[mb]] = "ours"]
  /\ UNCHANGED <<dirty, file, entries, pc, todo, jobs, cancelled, result>>

\* Marks of another mailbox may stand for messages of this one.
Namesakes(mb) == {other \in entries \ {mb} : NameOf[other] = NameOf[mb]}
MarkedByAnother(mb) == \E other \in Namesakes(mb) : copy[other] \in {"running", "ok", "err"}

\* Mailbox.copy returns nil with everything there, if only because it found no
\* messages or marks for them, or cancelled; or it fails.
FinishCopy(mb) ==
  /\ copy[mb] = "running"
  /\ \/ /\ copy' = [copy EXCEPT ![mb] = "ok"]
        /\ IF marks[NameOf[mb]] = "stale"
           THEN UNCHANGED delivered
           ELSE \/ delivered' = [delivered EXCEPT ![mb] = "all"]
                \/ (cancelled \/ MarkedByAnother(mb)) /\ UNCHANGED delivered
     \/ copy' = [copy EXCEPT ![mb] = "err"] /\ UNCHANGED delivered
  /\ UNCHANGED <<dirty, file, entries, pc, todo, clean, marks, cancelled, result>>

WaitForCopies ==
  /\ pc = "copy" /\ todo = {} /\ AllOver(copy)
  /\ Go("save")
  /\ UNCHANGED <<outside, entries, todo, jobs, marks, cancelled>>

\* Variant with a bug: the wait knows no timeout.
CopyNeverTimesOut == FALSE /\ UNCHANGED vars

CopyTimesOut ==
  /\ pc = "copy" /\ todo = {} /\ ~AllOver(copy)
  /\ Return("err", "stop")
  /\ UNCHANGED <<outside, entries, todo, jobs, marks, cancelled>>

\* Variant with a bug: the errors of the mailboxes are not looked at.
VerdictBlind == "ok"

Verdict == IF Errors(copy) > 0 THEN "err" ELSE "ok"

SaveState ==
  /\ pc = "save"
  /\ \/ Save /\ Return(Verdict, "stop")
     \/ (Save \/ UNCHANGED outside) /\ Return("err", "stop")
  /\ UNCHANGED <<entries, todo, jobs, marks, cancelled>>

StopPool ==
  /\ pc = "stop"
  /\ result' \in {result, "err"} /\ pc' = "exited"
  /\ UNCHANGED <<outside, entries, todo, jobs, marks, cancelled>>

-----------------------------------------------------------------------------
(* everybody else *)

\* SIGINT or SIGTERM, caught from the confirmation to the end of the run.
Signal ==
  /\ pc \notin {"shell", "confirm", "exited"} /\ ~cancelled
  /\ cancelled' = TRUE
  /\ UNCHANGED <<outside, entries, pc, todo, jobs, marks, result>>

\* The process has exited, or is killed.  What is on the targets is old for the
\* next run, and so are the marks in the file.
ProcessGone ==
  /\ pc # "shell"
  /\ dirty' = Account /\ delivered' = Nothing
  /\ file' = [n \in Name |-> IF file[n] = "none" THEN "none" ELSE "stale"]
  /\ pc' = "shell" /\ entries' = {} /\ todo' = {} /\ clean' = NoJobs /\ copy' = NoJobs
  /\ marks' = NoMarks /\ cancelled' = FALSE /\ result' = "none"

\* performCopy, except that it waits at the prompt for as long as the user likes.
Main ==
  \/ EnqueueClean \/ CleanTargets \/ CleanTimesOut \/ StopCleaning
  \/ LoadState \/ SaveCleared
  \/ EnqueueCopy \/ WaitForCopies \/ CopyTimesOut \/ SaveState \/ StopPool

Worker(mb) ==
  StartClean(mb) \/ FinishClean(mb) \/ StartCopy(mb) \/ CopyMessage(mb) \/ FinishCopy(mb)

\* What happens between the call of performCopy and the end of the process.
Running ==
  \/ Confirm \/ Main
  \/ pc # "exited" /\ \E mb \in entries : Worker(mb)
  \/ Signal

Next ==
  \/ \E configured \in (SUBSET Mailbox) \ {{}} : Begin(configured)
  \/ Running \/ ProcessGone

Spec == Init /\ [][Next]_vars

-----------------------------------------------------------------------------
(* What a run promises, see RunContract *)

Stage ==
  CASE pc = "shell" -> "none"
    [] pc = "confirm" -> "asking"
    [] pc \in {"clean", "stopClean", "load", "saveCleared"} -> "wiping"
    [] pc \in {"copy", "save", "stop"} -> "copying"
    [] pc = "exited" -> "ended"

Contract == INSTANCE RunContract WITH
  interrupted <- cancelled,
  stage <- Stage,
  result <- IF pc = "exited" THEN result ELSE "none"

-----------------------------------------------------------------------------
(* Properties *)

\* Every variable has its type, no pool runs more than max_connections jobs, and
\* a mailbox still to be enqueued has no job.
TypeOK ==
  /\ dirty \subseteq Account
  /\ delivered \in [Mailbox -> {"nothing", "some", "all"}]
  /\ file \in [Name -> Marks] /\ marks \in [Name -> Marks]
  /\ pc \in {"shell", "confirm", "clean", "stopClean", "load", "saveCleared", "copy",
             "save", "stop", "exited"}
  /\ clean \in [Mailbox -> Job] /\ copy \in [Mailbox -> Job]
  /\ \A pool \in {clean, copy} : Cardinality(Having(pool, {"running"})) <= MaxConnections
  /\ entries \subseteq Mailbox /\ todo \subseteq entries
  /\ \A mb \in todo : copy[mb] = "none" /\ (pc = "clean" => clean[mb] = "none")
  /\ cancelled \in BOOLEAN /\ result \in {"none", "ok", "err"}

\* "If target cleanup fails for any mailbox, the entire operation is aborted --
\* no partial copies" (README.md): when a copy starts, every target is clean, the
\* target of other mailboxes included, and no clean-up is left to wipe a copy.
CopiesOnlyToClean ==
  Having(copy, Job \ {"none"}) # {} =>
    /\ \A mb \in entries : TargetOf[mb] \notin dirty
    /\ Unfinished(clean) = {}

\* No copy ever sees marks of an earlier run, in memory or in the file, whatever
\* mailboxes that run had and however it ended: they would stand for wiped messages.
NoOldMarks ==
  \A mb \in Mailbox : copy[mb] # "none" =>
    marks[NameOf[mb]] # "stale" /\ file[NameOf[mb]] # "stale"

\* The run reports success only if no signal came or everything is copied, but
\* for mailboxes that share their name, and then the file holds the sync state.
SuccessMeansCopied ==
  pc = "exited" /\ result = "ok" =>
    /\ \/ cancelled
       \/ \A mb \in entries : Namesakes(mb) = {} => delivered[mb] = "all"
    /\ file = marks

\* The run keeps RunContract: no account is touched before YES, all are wiped before
\* anything is copied and never after, and success claims only what was done.
ContractKept == Contract!Spec

\* Once confirmed, a run ends although a server may never answer: the waits time
\* out.  (This takes from the worker library that Stop gives up on a job that hangs.)
Termination == (pc = "clean") ~> (pc \in {"exited", "shell"})
=============================================================================
