---------------------------- MODULE RunnerProofs ----------------------------
(***************************************************************************)
(* Theorems about Runner, for any mailboxes, accounts and names, any size  *)
(* of the pools, and any number of runs.                                   *)
(***************************************************************************)
EXTENDS Runner, FiniteSetTheorems, TLAPS

-----------------------------------------------------------------------------
(* The invariant *)

Types ==
  /\ dirty \subseteq Account
  /\ delivered \in [Mailbox -> {"nothing", "some", "all"}]
  /\ file \in [Name -> Marks] /\ marks \in [Name -> Marks]
  /\ pc \in {"shell", "confirm", "clean", "stopClean", "load", "saveCleared", "copy",
             "save", "stop", "exited"}
  /\ clean \in [Mailbox -> Job] /\ copy \in [Mailbox -> Job]
  /\ entries \subseteq Mailbox /\ todo \subseteq entries
  /\ pc \in {"shell", "confirm"} => todo = {}
  /\ cancelled \in BOOLEAN /\ result \in {"none", "ok", "err"}

\* A copy job has been given to the pool.
Started == \E mb \in Mailbox : copy[mb] # "none"

\* Which jobs there are, and which result, at each point of performCopy.
Control ==
  /\ pc \in {"shell", "confirm"} => \A mb \in Mailbox : clean[mb] = "none"
  /\ Started => pc \in {"copy", "save", "stop", "exited"}
  /\ \A mb \in Mailbox \ entries : clean[mb] = "none" /\ copy[mb] = "none"
  /\ \A mb \in todo : copy[mb] = "none" /\ (pc = "clean" => clean[mb] = "none")
  /\ pc = "clean" => \A mb \in entries \ todo : clean[mb] # "none"
  /\ pc = "copy" => \A mb \in entries \ todo : copy[mb] # "none"
  /\ pc = "save" => \A mb \in entries : copy[mb] \in {"ok", "err"}
  /\ pc = "stopClean" => result = "err"
  /\ pc = "stop" => result # "none"
  /\ pc \notin {"stopClean", "stop", "exited"} => result = "none"

\* All clean-ups are over and have succeeded before the sync state is loaded, and
\* an account that has been cleaned stays so.
Wiped ==
  /\ \A mb \in Mailbox : clean[mb] = "ok" => TargetOf[mb] \notin dirty
  /\ pc \in {"load", "saveCleared", "copy", "save", "stop"} \/ Started =>
       \A mb \in entries : clean[mb] = "ok"

Fresh(of) == \A mb \in entries : of[NameOf[mb]] # "stale"

\* The marks are cleared in memory, then in the file, then the copies start.
Cleaned ==
  /\ pc = "saveCleared" => Fresh(marks)
  /\ pc \in {"copy", "save", "stop"} \/ Started => Fresh(marks) /\ Fresh(file)

\* What each copy job has done, and what is claimed in the end.
Claims ==
  /\ \A mb \in Mailbox : copy[mb] = "none" => delivered[mb] = "nothing"
  /\ \A mb \in entries :
       copy[mb] = "ok" => delivered[mb] = "all" \/ cancelled \/ Namesakes(mb) # {}
  /\ pc \in {"stop", "exited"} /\ result = "ok" =>
       (\A mb \in entries : copy[mb] = "ok") /\ file = marks

-----------------------------------------------------------------------------
(* Types and control *)

LEMMA InitTypes == Init => Types /\ Control /\ Wiped /\ Cleaned /\ Claims
  BY RunnerAssumption
  DEF Init, NoProcess, Types, Control, Wiped, Cleaned, Claims, Started, NoJobs, NoMarks,
      Nothing, Marks, Job

\* No errors have been counted only if no job has failed.
LEMMA NoErrors ==
  ASSUME NEW pool \in [Mailbox -> Job]
  PROVE  /\ Errors(pool) \in Nat
         /\ Errors(pool) = 0 => \A mb \in Mailbox : pool[mb] # "err"
<1>1. IsFiniteSet(Having(pool, {"err"}))
  BY FS_Subset, RunnerAssumption DEF Having
<1> QED
  BY <1>1, FS_CardinalityType, FS_EmptySet DEF Errors, Having

\* Every action keeps the types.
LEMMA NextTypes ==
  ASSUME Types, [Next]_vars
  PROVE  Types'
<1> USE DEF Types, vars, outside, jobs, Marks, Job
<1>1. ASSUME NEW c \in (SUBSET Mailbox) \ {{}}, Begin(c) PROVE Types'
  BY <1>1 DEF Begin
<1>2. ASSUME Confirm PROVE Types'
  BY <1>2 DEF Confirm, Go, Return
<1>3. ASSUME EnqueueClean PROVE Types'
  BY <1>3 DEF EnqueueClean, Enqueue, Return
<1>4. ASSUME CleanTargets PROVE Types'
  BY <1>4 DEF CleanTargets, Go, Return, AllOver, Unfinished, Having
<1>5. ASSUME CleanTimesOut PROVE Types'
  BY <1>5 DEF CleanTimesOut, Return
<1>6. ASSUME StopCleaning PROVE Types'
  BY <1>6 DEF StopCleaning, Go
<1>7. ASSUME LoadState PROVE Types'
  BY <1>7 DEF LoadState, Go, Return, Cleared
<1>8. ASSUME SaveCleared PROVE Types'
  BY <1>8 DEF SaveCleared, Save, Go, Return
<1>9. ASSUME EnqueueCopy PROVE Types'
  BY <1>9 DEF EnqueueCopy, Enqueue, Return
<1>10. ASSUME WaitForCopies PROVE Types'
  BY <1>10 DEF WaitForCopies, Go, AllOver, Unfinished, Having
<1>11. ASSUME CopyTimesOut PROVE Types'
  BY <1>11 DEF CopyTimesOut, Return
<1>12. ASSUME SaveState PROVE Types'
  BY <1>12 DEF SaveState, Save, Return, Verdict
<1>13. ASSUME StopPool PROVE Types'
  BY <1>13 DEF StopPool
<1>14. ASSUME NEW mb \in entries, pc # "exited", StartClean(mb) PROVE Types'
  BY <1>14 DEF StartClean, StartJob
<1>15. ASSUME NEW mb \in entries, pc # "exited", FinishClean(mb) PROVE Types'
  BY <1>15 DEF FinishClean
<1>16. ASSUME NEW mb \in entries, pc # "exited", StartCopy(mb) PROVE Types'
  BY <1>16 DEF StartCopy, StartJob
<1>17. ASSUME NEW mb \in entries, pc # "exited", CopyMessage(mb) PROVE Types'
  BY <1>17 DEF CopyMessage
<1>18. ASSUME NEW mb \in entries, pc # "exited", FinishCopy(mb) PROVE Types'
  BY <1>18 DEF FinishCopy, MarkedByAnother, Namesakes
<1>19. ASSUME Signal PROVE Types'
  BY <1>19 DEF Signal
<1>20. ASSUME ProcessGone PROVE Types'
  BY <1>20 DEF ProcessGone, NoJobs, NoMarks, Nothing
<1>21. CASE UNCHANGED vars
  BY <1>21
<1> QED
  BY <1>1, <1>2, <1>3, <1>4, <1>5, <1>6, <1>7, <1>8, <1>9, <1>10, <1>11, <1>12, <1>13, <1>14, <1>15, <1>16, <1>17, <1>18, <1>19, <1>20, <1>21 DEF Next, Running, Main, Worker

\* The points at which there are jobs and results.
LEMMA NextControl ==
  ASSUME Types, Control, [Next]_vars
  PROVE  Control'
<1> USE DEF Types, Control, Started, vars, outside, jobs, Job
<1>1. ASSUME NEW c \in (SUBSET Mailbox) \ {{}}, Begin(c) PROVE Control'
  BY <1>1 DEF Begin
<1>2. ASSUME Confirm PROVE Control'
  BY <1>2 DEF Confirm, Go, Return
<1>3. ASSUME EnqueueClean PROVE Control'
  BY <1>3 DEF EnqueueClean, Enqueue, Return
<1>4. ASSUME CleanTargets PROVE Control'
  BY <1>4 DEF CleanTargets, Go, Return, AllOver, Unfinished, Having
<1>5. ASSUME CleanTimesOut PROVE Control'
  BY <1>5 DEF CleanTimesOut, Return
<1>6. ASSUME StopCleaning PROVE Control'
  BY <1>6 DEF StopCleaning, Go
<1>7. ASSUME LoadState PROVE Control'
  BY <1>7 DEF LoadState, Go, Return, Cleared
<1>8. ASSUME SaveCleared PROVE Control'
  BY <1>8 DEF SaveCleared, Save, Go, Return
<1>9. ASSUME EnqueueCopy PROVE Control'
  BY <1>9 DEF EnqueueCopy, Enqueue, Return
<1>10. ASSUME WaitForCopies PROVE Control'
  BY <1>10 DEF WaitForCopies, Go, AllOver, Unfinished, Having
<1>11. ASSUME CopyTimesOut PROVE Control'
  BY <1>11 DEF CopyTimesOut, Return
<1>12. ASSUME SaveState PROVE Control'
  BY <1>12 DEF SaveState, Save, Return, Verdict
<1>13. ASSUME StopPool PROVE Control'
  BY <1>13 DEF StopPool
<1>14. ASSUME NEW mb \in entries, pc # "exited", StartClean(mb) PROVE Control'
  BY <1>14 DEF StartClean, StartJob
<1>15. ASSUME NEW mb \in entries, pc # "exited", FinishClean(mb) PROVE Control'
  BY <1>15 DEF FinishClean
<1>16. ASSUME NEW mb \in entries, pc # "exited", StartCopy(mb) PROVE Control'
  BY <1>16 DEF StartCopy, StartJob
<1>17. ASSUME NEW mb \in entries, pc # "exited", CopyMessage(mb) PROVE Control'
  BY <1>17 DEF CopyMessage
<1>18. ASSUME NEW mb \in entries, pc # "exited", FinishCopy(mb) PROVE Control'
  BY <1>18 DEF FinishCopy, MarkedByAnother, Namesakes
<1>19. ASSUME Signal PROVE Control'
  BY <1>19 DEF Signal
<1>20. ASSUME ProcessGone PROVE Control'
  BY <1>20 DEF ProcessGone, NoJobs, NoMarks, Nothing
<1>21. CASE UNCHANGED vars
  BY <1>21
<1> QED
  BY <1>1, <1>2, <1>3, <1>4, <1>5, <1>6, <1>7, <1>8, <1>9, <1>10, <1>11, <1>12, <1>13, <1>14, <1>15, <1>16, <1>17, <1>18, <1>19, <1>20, <1>21 DEF Next, Running, Main, Worker

\* After clean-ups without an error every job of that pool is "ok"; and what is clean
\* gets dirty only with the end of the process.
LEMMA NextWiped ==
  ASSUME Types, Control, Wiped, [Next]_vars
  PROVE  Wiped'
<1> USE DEF Types, Control, Wiped, Started, vars, outside, jobs, Job
<1>1. ASSUME NEW c \in (SUBSET Mailbox) \ {{}}, Begin(c) PROVE Wiped'
  BY <1>1 DEF Begin
<1>2. ASSUME Confirm PROVE Wiped'
  BY <1>2 DEF Confirm, Go, Return
<1>3. ASSUME EnqueueClean PROVE Wiped'
  BY <1>3 DEF EnqueueClean, Enqueue, Return
<1>4. ASSUME CleanTargets PROVE Wiped'
  BY <1>4, NoErrors DEF CleanTargets, Go, Return, AllOver, Unfinished, Having
<1>5. ASSUME CleanTimesOut PROVE Wiped'
  BY <1>5 DEF CleanTimesOut, Return
<1>6. ASSUME StopCleaning PROVE Wiped'
  BY <1>6 DEF StopCleaning, Go
<1>7. ASSUME LoadState PROVE Wiped'
  BY <1>7 DEF LoadState, Go, Return, Cleared
<1>8. ASSUME SaveCleared PROVE Wiped'
  BY <1>8 DEF SaveCleared, Save, Go, Return
<1>9. ASSUME EnqueueCopy PROVE Wiped'
  BY <1>9 DEF EnqueueCopy, Enqueue, Return
<1>10. ASSUME WaitForCopies PROVE Wiped'
  BY <1>10 DEF WaitForCopies, Go, AllOver, Unfinished, Having
<1>11. ASSUME CopyTimesOut PROVE Wiped'
  BY <1>11 DEF CopyTimesOut, Return
<1>12. ASSUME SaveState PROVE Wiped'
  BY <1>12 DEF SaveState, Save, Return, Verdict
<1>13. ASSUME StopPool PROVE Wiped'
  BY <1>13 DEF StopPool
<1>14. ASSUME NEW mb \in entries, pc # "exited", StartClean(mb) PROVE Wiped'
  BY <1>14 DEF StartClean, StartJob
<1>15. ASSUME NEW mb \in entries, pc # "exited", FinishClean(mb) PROVE Wiped'
  BY <1>15 DEF FinishClean
<1>16. ASSUME NEW mb \in entries, pc # "exited", StartCopy(mb) PROVE Wiped'
  BY <1>16 DEF StartCopy, StartJob
<1>17. ASSUME NEW mb \in entries, pc # "exited", CopyMessage(mb) PROVE Wiped'
  BY <1>17 DEF CopyMessage
<1>18. ASSUME NEW mb \in entries, pc # "exited", FinishCopy(mb) PROVE Wiped'
  BY <1>18 DEF FinishCopy, MarkedByAnother, Namesakes
<1>19. ASSUME Signal PROVE Wiped'
  BY <1>19 DEF Signal
<1>20. ASSUME ProcessGone PROVE Wiped'
  BY <1>20 DEF ProcessGone, NoJobs, NoMarks, Nothing
<1>21. CASE UNCHANGED vars
  BY <1>21
<1> QED
  BY <1>1, <1>2, <1>3, <1>4, <1>5, <1>6, <1>7, <1>8, <1>9, <1>10, <1>11, <1>12, <1>13, <1>14, <1>15, <1>16, <1>17, <1>18, <1>19, <1>20, <1>21 DEF Next, Running, Main, Worker

\* Nobody but LoadState and Save brings in marks of the file.
LEMMA NextCleaned ==
  ASSUME Types, Control, Cleaned, [Next]_vars
  PROVE  Cleaned'
<1> USE DEF Types, Control, Cleaned, Fresh, Started, vars, outside, jobs, Job
<1>1. ASSUME NEW c \in (SUBSET Mailbox) \ {{}}, Begin(c) PROVE Cleaned'
  BY <1>1 DEF Begin
<1>2. ASSUME Confirm PROVE Cleaned'
  BY <1>2 DEF Confirm, Go, Return
<1>3. ASSUME EnqueueClean PROVE Cleaned'
  BY <1>3 DEF EnqueueClean, Enqueue, Return
<1>4. ASSUME CleanTargets PROVE Cleaned'
  BY <1>4 DEF CleanTargets, Go, Return, AllOver, Unfinished, Having
<1>5. ASSUME CleanTimesOut PROVE Cleaned'
  BY <1>5 DEF CleanTimesOut, Return
<1>6. ASSUME StopCleaning PROVE Cleaned'
  BY <1>6 DEF StopCleaning, Go
<1>7. ASSUME LoadState PROVE Cleaned'
  BY <1>7, RunnerAssumption DEF LoadState, Go, Return, Cleared
<1>8. ASSUME SaveCleared PROVE Cleaned'
  BY <1>8 DEF SaveCleared, Save, Go, Return
<1>9. ASSUME EnqueueCopy PROVE Cleaned'
  BY <1>9 DEF EnqueueCopy, Enqueue, Return
<1>10. ASSUME WaitForCopies PROVE Cleaned'
  BY <1>10 DEF WaitForCopies, Go, AllOver, Unfinished, Having
<1>11. ASSUME CopyTimesOut PROVE Cleaned'
  BY <1>11 DEF CopyTimesOut, Return
<1>12. ASSUME SaveState PROVE Cleaned'
  BY <1>12 DEF SaveState, Save, Return, Verdict
<1>13. ASSUME StopPool PROVE Cleaned'
  BY <1>13 DEF StopPool
<1>14. ASSUME NEW mb \in entries, pc # "exited", StartClean(mb) PROVE Cleaned'
  BY <1>14 DEF StartClean, StartJob
<1>15. ASSUME NEW mb \in entries, pc # "exited", FinishClean(mb) PROVE Cleaned'
  BY <1>15 DEF FinishClean
<1>16. ASSUME NEW mb \in entries, pc # "exited", StartCopy(mb) PROVE Cleaned'
  BY <1>16 DEF StartCopy, StartJob
<1>17. ASSUME NEW mb \in entries, pc # "exited", CopyMessage(mb) PROVE Cleaned'
  BY <1>17 DEF CopyMessage
<1>18. ASSUME NEW mb \in entries, pc # "exited", FinishCopy(mb) PROVE Cleaned'
  BY <1>18 DEF FinishCopy, MarkedByAnother, Namesakes
<1>19. ASSUME Signal PROVE Cleaned'
  BY <1>19 DEF Signal
<1>20. ASSUME ProcessGone PROVE Cleaned'
  BY <1>20 DEF ProcessGone, NoJobs, NoMarks, Nothing
<1>21. CASE UNCHANGED vars
  BY <1>21
<1> QED
  BY <1>1, <1>2, <1>3, <1>4, <1>5, <1>6, <1>7, <1>8, <1>9, <1>10, <1>11, <1>12, <1>13, <1>14, <1>15, <1>16, <1>17, <1>18, <1>19, <1>20, <1>21 DEF Next, Running, Main, Worker

\* A copy that ends well has delivered all, since it found no old marks, and nothing
\* wipes it any more.
LEMMA NextClaims ==
  ASSUME Types, Control, Wiped, Cleaned, Claims, [Next]_vars
  PROVE  Claims'
<1> USE DEF Types, Control, Wiped, Cleaned, Claims, Fresh, Started, vars, outside, jobs, Job, Namesakes
<1>1. ASSUME NEW c \in (SUBSET Mailbox) \ {{}}, Begin(c) PROVE Claims'
  BY <1>1 DEF Begin
<1>2. ASSUME Confirm PROVE Claims'
  BY <1>2 DEF Confirm, Go, Return
<1>3. ASSUME EnqueueClean PROVE Claims'
  BY <1>3 DEF EnqueueClean, Enqueue, Return
<1>4. ASSUME CleanTargets PROVE Claims'
  BY <1>4 DEF CleanTargets, Go, Return, AllOver, Unfinished, Having
<1>5. ASSUME CleanTimesOut PROVE Claims'
  BY <1>5 DEF CleanTimesOut, Return
<1>6. ASSUME StopCleaning PROVE Claims'
  BY <1>6 DEF StopCleaning, Go
<1>7. ASSUME LoadState PROVE Claims'
  BY <1>7 DEF LoadState, Go, Return, Cleared
<1>8. ASSUME SaveCleared PROVE Claims'
  BY <1>8 DEF SaveCleared, Save, Go, Return
<1>9. ASSUME EnqueueCopy PROVE Claims'
  BY <1>9 DEF EnqueueCopy, Enqueue, Return
<1>10. ASSUME WaitForCopies PROVE Claims'
  BY <1>10 DEF WaitForCopies, Go, AllOver, Unfinished, Having
<1>11. ASSUME CopyTimesOut PROVE Claims'
  BY <1>11 DEF CopyTimesOut, Return
<1>12. ASSUME SaveState PROVE Claims'
  BY <1>12, NoErrors DEF SaveState, Save, Return, Verdict
<1>13. ASSUME StopPool PROVE Claims'
  BY <1>13 DEF StopPool
<1>14. ASSUME NEW mb \in entries, pc # "exited", StartClean(mb) PROVE Claims'
  BY <1>14 DEF StartClean, StartJob
<1>15. ASSUME NEW mb \in entries, pc # "exited", FinishClean(mb) PROVE Claims'
  BY <1>15 DEF FinishClean
<1>16. ASSUME NEW mb \in entries, pc # "exited", StartCopy(mb) PROVE Claims'
  BY <1>16 DEF StartCopy, StartJob
<1>17. ASSUME NEW mb \in entries, pc # "exited", CopyMessage(mb) PROVE Claims'
  BY <1>17 DEF CopyMessage
<1>18. ASSUME NEW mb \in entries, pc # "exited", FinishCopy(mb) PROVE Claims'
  BY <1>18 DEF FinishCopy, MarkedByAnother, Namesakes
<1>19. ASSUME Signal PROVE Claims'
  BY <1>19 DEF Signal
<1>20. ASSUME ProcessGone PROVE Claims'
  BY <1>20 DEF ProcessGone, NoJobs, NoMarks, Nothing
<1>21. CASE UNCHANGED vars
  BY <1>21
<1> QED
  BY <1>1, <1>2, <1>3, <1>4, <1>5, <1>6, <1>7, <1>8, <1>9, <1>10, <1>11, <1>12, <1>13, <1>14, <1>15, <1>16, <1>17, <1>18, <1>19, <1>20, <1>21 DEF Next, Running, Main, Worker

-----------------------------------------------------------------------------
(* The size of the pools *)

AtMost(pool) == Cardinality(Having(pool, {"running"})) <= MaxConnections

\* What StartJob allows is one job more, and the other actions start none.
LEMMA StartKeepsBound ==
  ASSUME NEW pool \in [Mailbox -> Job], NEW mb \in Mailbox, StartJob(pool, mb)
  PROVE  AtMost([pool EXCEPT ![mb] = "running"])
<1> DEFINE running == Having(pool, {"running"})
<1>1. IsFiniteSet(running)
  BY FS_Subset, RunnerAssumption DEF Having
<1>2. Having([pool EXCEPT ![mb] = "running"], {"running"}) = running \cup {mb}
  BY DEF Having
<1>3. Cardinality(running) < MaxConnections
  BY DEF StartJob
<1> HIDE DEF running
<1>4. Cardinality(running) \in Nat
  BY <1>1, FS_CardinalityType
<1>5. Cardinality(running \cup {mb}) \in {Cardinality(running), Cardinality(running) + 1}
  BY <1>1, FS_AddElement
<1>6. Cardinality(running \cup {mb}) <= MaxConnections
  BY <1>3, <1>4, <1>5, RunnerAssumption
<1> QED
  BY <1>2, <1>6 DEF AtMost

\* A pool that runs less keeps to its bound.
LEMMA LessKeepsBound ==
  ASSUME NEW pool \in [Mailbox -> Job], NEW less \in [Mailbox -> Job], AtMost(pool),
         \A mb \in Mailbox : less[mb] = "running" => pool[mb] = "running"
  PROVE  AtMost(less)
<1>1. Having(less, {"running"}) \subseteq Having(pool, {"running"})
  BY DEF Having
<1>2. IsFiniteSet(Having(pool, {"running"}))
  BY FS_Subset, RunnerAssumption DEF Having
<1>3. /\ Cardinality(Having(less, {"running"})) <= Cardinality(Having(pool, {"running"}))
      /\ IsFiniteSet(Having(less, {"running"}))
  BY <1>1, <1>2, FS_Subset
<1>4. Cardinality(Having(less, {"running"})) \in Nat /\ Cardinality(Having(pool, {"running"})) \in Nat
  BY <1>2, <1>3, FS_CardinalityType
<1> QED
  BY <1>3, <1>4, RunnerAssumption DEF AtMost

\* No job runs yet.
LEMMA InitBound == ASSUME Init PROVE AtMost(clean) /\ AtMost(copy)
<1>1. Having(NoJobs, {"running"}) = {}
  BY DEF Having, NoJobs
<1> QED
  BY <1>1, FS_EmptySet, RunnerAssumption DEF AtMost, Init, NoProcess

\* No step exceeds the bound of a pool.
LEMMA NextBound ==
  ASSUME Types, Types', AtMost(clean), AtMost(copy), [Next]_vars
  PROVE  AtMost(clean') /\ AtMost(copy')
<1> USE DEF Types, vars, jobs
<1>1. ASSUME NEW mb \in entries, StartClean(mb) PROVE AtMost(clean') /\ AtMost(copy')
  BY <1>1, StartKeepsBound DEF StartClean
<1>2. ASSUME NEW mb \in entries, StartCopy(mb) PROVE AtMost(clean') /\ AtMost(copy')
  BY <1>2, StartKeepsBound DEF StartCopy
<1>3. ASSUME NEW mb \in entries, FinishClean(mb) \/ CopyMessage(mb) \/ FinishCopy(mb)
      PROVE  /\ \A x \in Mailbox : clean'[x] = "running" => clean[x] = "running"
             /\ \A x \in Mailbox : copy'[x] = "running" => copy[x] = "running"
  BY <1>3 DEF FinishClean, CopyMessage, FinishCopy
<1>4. ASSUME \/ \E c \in (SUBSET Mailbox) \ {{}} : Begin(c)
             \/ Confirm \/ Main \/ Signal \/ ProcessGone \/ UNCHANGED vars
      PROVE  /\ \A x \in Mailbox : clean'[x] = "running" => clean[x] = "running"
             /\ \A x \in Mailbox : copy'[x] = "running" => copy[x] = "running"
  BY <1>4
  DEF Begin, Confirm, Main, Signal, ProcessGone, EnqueueClean, CleanTargets, CleanTimesOut,
      StopCleaning, LoadState, SaveCleared, EnqueueCopy, WaitForCopies, CopyTimesOut,
      SaveState, StopPool, Enqueue, NoJobs
<1>5. CASE /\ \A x \in Mailbox : clean'[x] = "running" => clean[x] = "running"
           /\ \A x \in Mailbox : copy'[x] = "running" => copy[x] = "running"
  BY <1>5, LessKeepsBound
<1> QED
  BY <1>1, <1>2, <1>3, <1>4, <1>5 DEF Next, Running, Worker

-----------------------------------------------------------------------------
(* The theorems *)

IInv == Types /\ Control /\ Wiped /\ Cleaned /\ Claims

\* The inductive invariant.
THEOREM Invariant == Spec => []IInv
<1>1. Init => IInv
  BY InitTypes DEF IInv
<1>2. IInv /\ [Next]_vars => IInv'
  BY NextTypes, NextControl, NextWiped, NextCleaned, NextClaims DEF IInv
<1> QED
  BY <1>1, <1>2, PTL DEF Spec

\* No pool ever runs more than max_connections jobs.
THEOREM TypeCorrect == Spec => []TypeOK
<1> DEFINE B == AtMost(clean) /\ AtMost(copy)
<1>1. Init => B
  BY InitBound
<1>2. IInv /\ IInv' /\ B /\ [Next]_vars => B'
  BY NextBound DEF IInv
<1>3. IInv /\ B => TypeOK
  BY DEF IInv, Types, Control, TypeOK, AtMost
<1> QED
  BY <1>1, <1>2, <1>3, Invariant, PTL DEF Spec

\* No copy starts before every target of the run has been wiped, and no target is
\* wiped after: the barrier between the two pools (runner.go:228-266).
THEOREM CopiesFindClean == Spec => []CopiesOnlyToClean
<1>1. IInv => CopiesOnlyToClean
  BY DEF IInv, Types, Control, Wiped, Started, CopiesOnlyToClean, Having, Unfinished, Job
<1> QED
  BY <1>1, Invariant, PTL

\* No copy of a run without resume sees marks of an earlier run, in memory or in the
\* file (runner.go:250-264).
THEOREM CopiesFindNoMarks == Spec => []NoOldMarks
<1>1. IInv => NoOldMarks
  BY DEF IInv, Types, Control, Cleaned, Fresh, Started, NoOldMarks
<1> QED
  BY <1>1, Invariant, PTL

\* A run that returns nil has copied all mail of all its mailboxes, apart from those
\* that were cancelled or share their name with another.
THEOREM SuccessIsHonest == Spec => []SuccessMeansCopied
<1>1. IInv => SuccessMeansCopied
  BY DEF IInv, Types, Claims, SuccessMeansCopied
<1> QED
  BY <1>1, Invariant, PTL
-----------------------------------------------------------------------------
(* The run implements its contract *)

\* Before the first copy job nothing is delivered.
LEMMA NothingYet == ASSUME IInv, ~Started PROVE delivered = Nothing
  BY DEF IInv, Types, Claims, Started, Nothing

\* The initial state of the process is one of the contract.
LEMMA InitKeeps == Init => Contract!NoRun
  BY DEF Init, NoProcess, Contract!NoRun, Contract!Nothing, Nothing, Stage

\* Each action is a step of the contract, or none that it sees.
LEMMA NextKeeps ==
  ASSUME IInv, IInv', [Next]_vars
  PROVE  [Contract!Next]_Contract!vars
<1> USE DEF outside, jobs, vars, Contract!vars, Stage
<1>1. ASSUME NEW c \in (SUBSET Mailbox) \ {{}}, Begin(c) PROVE Contract!Ask
  BY <1>1 DEF Begin, Contract!Ask
<1>2. ASSUME Confirm PROVE Contract!Answer
  BY <1>2 DEF Confirm, Return, Go, Contract!Answer
<1>3. ASSUME EnqueueClean \/ CleanTargets \/ CleanTimesOut \/ LoadState \/ EnqueueCopy
               \/ WaitForCopies \/ CopyTimesOut
      PROVE  UNCHANGED Contract!vars \/ Contract!End
  <2>1. CASE EnqueueClean
    BY <2>1 DEF EnqueueClean, Return
  <2>2. CASE CleanTargets
    BY <2>2 DEF CleanTargets, Return, Go
  <2>3. CASE CleanTimesOut
    BY <2>3 DEF CleanTimesOut, Return
  <2>4. CASE LoadState
    BY <2>4 DEF LoadState, Return, Go, Contract!End
  <2>5. CASE EnqueueCopy
    BY <2>5 DEF EnqueueCopy, Return
  <2>6. CASE WaitForCopies
    BY <2>6 DEF WaitForCopies, Go
  <2>7. CASE CopyTimesOut
    BY <2>7 DEF CopyTimesOut, Return
  <2> QED
    BY <1>3, <2>1, <2>2, <2>3, <2>4, <2>5, <2>6, <2>7
<1>4. ASSUME StopCleaning PROVE Contract!End
  BY <1>4 DEF StopCleaning, Go, Contract!End, IInv, Control
<1>5. ASSUME SaveCleared PROVE Contract!StartCopying \/ Contract!End
  <2>1. dirty \cap Contract!Targets = {}
    BY <1>5 DEF SaveCleared, IInv, Types, Wiped, Contract!Targets
  <2> QED
    BY <1>5, <2>1 DEF SaveCleared, Save, Go, Return, Contract!StartCopying, Contract!End
<1>6. ASSUME SaveState PROVE UNCHANGED Contract!vars
  BY <1>6 DEF SaveState, Save, Return
<1>7. ASSUME StopPool PROVE Contract!End
  <2>1. result = "ok" => Contract!Accomplished
    BY <1>7 DEF StopPool, IInv, Types, Claims, Contract!Accomplished, Contract!Unique, Namesakes
  <2>2. result \in {"ok", "err"}
    BY <1>7 DEF StopPool, IInv, Types, Control
  <2> QED
    BY <1>7, <2>1, <2>2 DEF StopPool, Contract!End
<1>8. ASSUME NEW mb \in entries, pc # "exited", FinishClean(mb)
      PROVE  UNCHANGED Contract!vars \/ Contract!Wipe
  <2>1. pc \in {"clean", "stopClean"}
    BY <1>8 DEF FinishClean, IInv, Types, Control, Wiped
  <2>2. delivered = Nothing
    BY <2>1, NothingYet DEF IInv, Control
  <2>3. delivered' = delivered
    BY <1>8, <2>2 DEF FinishClean, Nothing
  <2>4. TargetOf[mb] \in Contract!Targets
    BY DEF Contract!Targets
  <2> QED
    BY <1>8, <2>1, <2>3, <2>4 DEF FinishClean, Contract!Wipe
<1>9. ASSUME NEW mb \in entries, pc # "exited", StartClean(mb) \/ StartCopy(mb)
      PROVE  UNCHANGED Contract!vars
  BY <1>9 DEF StartClean, StartCopy
<1>10. ASSUME NEW mb \in entries, pc # "exited", CopyMessage(mb) \/ FinishCopy(mb)
       PROVE  UNCHANGED Contract!vars \/ Contract!Deliver
  <2>1. pc \in {"copy", "save", "stop"}
    BY <1>10 DEF CopyMessage, FinishCopy, IInv, Types, Control, Started
  <2>2. CASE CopyMessage(mb)
    BY <2>1, <2>2 DEF CopyMessage, Contract!Deliver
  <2>3. CASE FinishCopy(mb)
    BY <2>1, <2>3 DEF FinishCopy, Contract!Deliver
  <2> QED
    BY <1>10, <2>2, <2>3
<1>11. ASSUME Signal PROVE Contract!Interrupt
  BY <1>11 DEF Signal, IInv, Types, Contract!Interrupt
<1>12. ASSUME ProcessGone PROVE Contract!Forget
  BY <1>12 DEF ProcessGone, Contract!Forget, Contract!Nothing, Nothing
<1>13. CASE UNCHANGED vars
  BY <1>13
<1> QED
  BY <1>1, <1>2, <1>3, <1>4, <1>5, <1>6, <1>7, <1>8, <1>9, <1>10, <1>11, <1>12, <1>13
  DEF Next, Running, Main, Worker, Contract!Next

\* Nothing is touched before YES, all targets are wiped before anything is copied and
\* none after, and success claims only what was done.
THEOREM RunImplementsContract == Spec => ContractKept
<1>1. Init => Contract!NoRun
  BY InitKeeps
<1>2. IInv /\ IInv' /\ [Next]_vars => [Contract!Next]_Contract!vars
  BY NextKeeps
<1> QED
  BY <1>1, <1>2, Invariant, PTL DEF Spec, ContractKept, Contract!Spec

-----------------------------------------------------------------------------
(* A run comes to an end *)

\* More than the steps that performCopy still has to take, at a place of it with k mailboxes
\* to enqueue, n in all.
LeftAt(place, k, n) ==
  CASE place = "shell" -> 2 * n + 8
    [] place = "confirm" -> 2 * n + 7
    [] place = "clean" -> n + k + 6
    [] place = "load" -> n + 5
    [] place = "saveCleared" -> n + 4
    [] place = "copy" -> k + 3
    [] place = "save" -> 2
    [] place \in {"stop", "stopClean"} -> 1
    [] place = "exited" -> 0

Place == {"shell", "confirm", "clean", "stopClean", "load", "saveCleared", "copy", "save",
          "stop", "exited"}

\* The mailboxes for which a worker has still to take a step of each kind.
ToStart(pool) == Having(pool, {"none", "queued"})
ToFinish(pool) == Having(pool, {"none", "queued", "running"})
ToDeliver == {mb \in ToFinish(copy) : delivered[mb] = "nothing"}

\* The same, one set for each kind of step.
Ahead ==
  [kind \in 1..5 |->
     CASE kind = 1 -> ToStart(clean) [] kind = 2 -> ToFinish(clean)
       [] kind = 3 -> ToStart(copy) [] kind = 4 -> ToFinish(copy)
       [] OTHER -> ToDeliver]

Sum(sets) ==
  Cardinality(sets[1]) + Cardinality(sets[2]) + Cardinality(sets[3]) + Cardinality(sets[4])
    + Cardinality(sets[5])

MainLeft == LeftAt(pc, Cardinality(todo), Cardinality(Mailbox))
Left == MainLeft + Sum(Ahead)

\* What is left of performCopy is a number, and never more than at the start.
LEMMA LeftAtIsNumber ==
  ASSUME NEW place \in Place, NEW k \in Nat, NEW n \in Nat, k <= n
  PROVE  LeftAt(place, k, n) \in Nat /\ LeftAt(place, k, n) <= 2 * n + 8
<1>1. LeftAt(place, k, n) >= 0 /\ LeftAt(place, k, n) <= 2 * n + 8
  BY DEF LeftAt, Place
<1>2. LeftAt(place, k, n) \in Int
  BY DEF LeftAt, Place
<1> QED
  BY <1>1, <1>2

\* A step from one place to the next makes it less.
LEMMA NextPlace ==
  ASSUME NEW place \in Place, NEW next \in Place,
         NEW k \in Nat, NEW l \in Nat, NEW n \in Nat, k <= n, l <= n,
         \/ place = "shell" /\ next = "confirm"
         \/ place = "confirm" /\ next \in {"clean", "exited"}
         \/ place \in {"clean", "copy"} /\ next = place /\ l = k - 1
         \/ place = "clean" /\ next \in {"load", "stopClean"}
         \/ place = "load" /\ next \in {"saveCleared", "exited"}
         \/ place = "saveCleared" /\ next \in {"copy", "exited"}
         \/ place = "copy" /\ next \in {"save", "stop"}
         \/ place = "save" /\ next = "stop"
         \/ place \in {"stop", "stopClean"} /\ next = "exited"
  PROVE  LeftAt(next, l, n) < LeftAt(place, k, n)
  BY DEF LeftAt, Place

\* Sets of mailboxes have sizes.
LEMMA Sizes ==
  ASSUME NEW S \in SUBSET Mailbox
  PROVE  /\ Cardinality(S) \in Nat /\ Cardinality(S) <= Cardinality(Mailbox)
         /\ \A T \in SUBSET S : /\ Cardinality(T) \in Nat /\ Cardinality(T) <= Cardinality(S)
                                /\ T # S => Cardinality(T) < Cardinality(S)
         /\ \A mb \in S : Cardinality(S \ {mb}) = Cardinality(S) - 1
<1>1. IsFiniteSet(Mailbox) /\ IsFiniteSet(S)
  BY RunnerAssumption, FS_Subset
<1>2. Cardinality(S) \in Nat /\ Cardinality(S) <= Cardinality(Mailbox)
  BY <1>1, FS_Subset, FS_CardinalityType
<1>3. ASSUME NEW T \in SUBSET S
      PROVE  /\ Cardinality(T) \in Nat /\ Cardinality(T) <= Cardinality(S)
             /\ T # S => Cardinality(T) < Cardinality(S)
  <2>1. Cardinality(T) \in Nat /\ Cardinality(T) <= Cardinality(S)
    BY <1>1, FS_Subset, FS_CardinalityType
  <2>2. T # S => Cardinality(T) # Cardinality(S)
    BY <1>1, FS_Subset
  <2> QED
    BY <1>2, <2>1, <2>2
<1>4. \A mb \in S : Cardinality(S \ {mb}) = Cardinality(S) - 1
  BY <1>1, FS_RemoveElement
<1> QED
  BY <1>2, <1>3, <1>4

\* If a set gets smaller and none larger, so does the sum.
LEMMA SmallerSum ==
  ASSUME NEW S \in [1..5 -> SUBSET Mailbox], NEW T \in [1..5 -> SUBSET Mailbox],
         \A kind \in 1..5 : T[kind] \subseteq S[kind]
  PROVE  /\ Sum(S) \in Nat /\ Sum(T) \in Nat /\ Sum(T) <= Sum(S)
         /\ Sum(S) <= 5 * Cardinality(Mailbox)
         /\ (\E kind \in 1..5 : T[kind] # S[kind]) => Sum(T) < Sum(S)
<1>1. \A kind \in 1..5 : /\ Cardinality(S[kind]) \in Nat /\ Cardinality(T[kind]) \in Nat
                         /\ Cardinality(T[kind]) <= Cardinality(S[kind])
                         /\ T[kind] # S[kind] => Cardinality(T[kind]) < Cardinality(S[kind])
                         /\ Cardinality(S[kind]) <= Cardinality(Mailbox)
  BY Sizes
<1>2. Cardinality(Mailbox) \in Nat
  BY Sizes
<1> QED
  BY <1>1, <1>2 DEF Sum

\* The sets of mailboxes, one by one.
LEMMA AheadIs ==
  /\ Ahead \in [1..5 -> SUBSET Mailbox]
  /\ Ahead[1] = ToStart(clean) /\ Ahead[2] = ToFinish(clean)
  /\ Ahead[3] = ToStart(copy) /\ Ahead[4] = ToFinish(copy) /\ Ahead[5] = ToDeliver
  BY DEF Ahead, ToStart, ToFinish, ToDeliver, Having

\* Each step of performCopy brings it nearer to its end, and gives the workers nothing
\* they had not to do before.
LEMMA MainGetsOn ==
  ASSUME IInv, Types', Confirm \/ Main \/ \E c \in (SUBSET Mailbox) \ {{}} : Begin(c)
  PROVE  MainLeft' < MainLeft /\ Ahead' = Ahead
<1> DEFINE k == Cardinality(todo)
           n == Cardinality(Mailbox)
<1>1. /\ k \in Nat /\ k' \in Nat /\ n \in Nat /\ k <= n /\ k' <= n
      /\ pc \in Place /\ pc' \in Place
  <2>1. todo \in SUBSET Mailbox /\ todo' \in SUBSET Mailbox
    BY DEF IInv, Types
  <2> QED
    BY <2>1, Sizes DEF IInv, Types, Place
<1>2. \A mb \in todo : Cardinality(todo \ {mb}) = k - 1
  BY Sizes DEF IInv, Types
<1> USE DEF Go, Return
<1>3. /\ \/ pc = "shell" /\ pc' = "confirm"
         \/ pc = "confirm" /\ pc' \in {"clean", "exited"}
         \/ pc \in {"clean", "copy"} /\ pc' = pc /\ k' = k - 1
         \/ pc = "clean" /\ pc' \in {"load", "stopClean"}
         \/ pc = "load" /\ pc' \in {"saveCleared", "exited"}
         \/ pc = "saveCleared" /\ pc' \in {"copy", "exited"}
         \/ pc = "copy" /\ pc' \in {"save", "stop"}
         \/ pc = "save" /\ pc' = "stop"
         \/ pc \in {"stop", "stopClean"} /\ pc' = "exited"
  <2>1. CASE Confirm \/ \E c \in (SUBSET Mailbox) \ {{}} : Begin(c)
    BY <2>1 DEF Confirm, Begin
  <2>2. CASE EnqueueClean \/ EnqueueCopy
    BY <1>2, <2>2 DEF EnqueueClean, EnqueueCopy
  <2>3. CASE CleanTargets \/ CleanTimesOut \/ StopCleaning \/ LoadState \/ SaveCleared
    BY <2>3 DEF CleanTargets, CleanTimesOut, StopCleaning, LoadState, SaveCleared
  <2>4. CASE WaitForCopies \/ CopyTimesOut \/ SaveState \/ StopPool
    BY <2>4 DEF WaitForCopies, CopyTimesOut, SaveState, StopPool
  <2> QED
    BY <2>1, <2>2, <2>3, <2>4 DEF Main
<1>4. Ahead' = Ahead
  <2>1. CASE EnqueueClean \/ EnqueueCopy
    <3>1. /\ ToStart(clean)' = ToStart(clean) /\ ToFinish(clean)' = ToFinish(clean)
          /\ ToStart(copy)' = ToStart(copy) /\ ToFinish(copy)' = ToFinish(copy)
          /\ delivered' = delivered
      BY <2>1 DEF EnqueueClean, EnqueueCopy, Enqueue, ToStart, ToFinish, Having, outside,
                  IInv, Types, Control
    <3> QED
      BY <3>1 DEF Ahead, ToDeliver
  <2>2. CASE UNCHANGED <<clean, copy, delivered>>
    BY <2>2 DEF Ahead, ToStart, ToFinish, ToDeliver, Having
  <2>3. CASE Confirm \/ \E c \in (SUBSET Mailbox) \ {{}} : Begin(c)
    BY <2>2, <2>3 DEF Confirm, Begin, outside, jobs
  <2>4. CASE CleanTargets \/ CleanTimesOut \/ StopCleaning \/ LoadState \/ SaveCleared
    BY <2>2, <2>4 DEF CleanTargets, CleanTimesOut, StopCleaning, LoadState, SaveCleared, Save,
                      outside, jobs
  <2>5. CASE WaitForCopies \/ CopyTimesOut \/ SaveState \/ StopPool
    BY <2>2, <2>5 DEF WaitForCopies, CopyTimesOut, SaveState, Save, StopPool, outside, jobs
  <2> QED
    BY <2>1, <2>3, <2>4, <2>5 DEF Main
<1> HIDE DEF k, n
<1>5. LeftAt(pc', k', n) < LeftAt(pc, k, n)
  BY <1>1, <1>3, NextPlace
<1> QED
  BY <1>4, <1>5 DEF MainLeft, k, n

\* Each step of a worker is the last of its kind for its mailbox: no job runs twice, and
\* a clean-up takes nothing away that would have to be delivered again.
LEMMA WorkersGetOn ==
  ASSUME IInv, NEW mb \in entries, Worker(mb)
  PROVE  /\ MainLeft' = MainLeft
         /\ \A kind \in 1..5 : Ahead'[kind] \subseteq Ahead[kind]
         /\ \E kind \in 1..5 : Ahead'[kind] # Ahead[kind]
<1> DEFINE cs == ToStart(clean)
           cf == ToFinish(clean)
           ks == ToStart(copy)
           kf == ToFinish(copy)
           kd == ToDeliver
<1>1. UNCHANGED <<pc, todo>> /\ mb \in Mailbox
  BY DEF Worker, StartClean, FinishClean, StartCopy, CopyMessage, FinishCopy, IInv, Types
<1>2. /\ clean \in [Mailbox -> Job] /\ copy \in [Mailbox -> Job]
      /\ delivered \in [Mailbox -> {"nothing", "some", "all"}]
  BY DEF IInv, Types
<1>3. /\ cs' \subseteq cs /\ cf' \subseteq cf /\ ks' \subseteq ks /\ kf' \subseteq kf /\ kd' \subseteq kd
      /\ cs' # cs \/ cf' # cf \/ ks' # ks \/ kf' # kf \/ kd' # kd
  <2> USE <1>1, <1>2 DEF outside, jobs, ToStart, ToFinish, ToDeliver, Having
  <2>1. CASE StartClean(mb)
    <3>1. clean' = [clean EXCEPT ![mb] = "running"] /\ clean[mb] = "queued" /\ UNCHANGED <<copy, delivered>>
      BY <2>1 DEF StartClean, StartJob
    <3>2. mb \in cs /\ mb \notin cs' /\ cs' \subseteq cs /\ cf' \subseteq cf
      BY <3>1
    <3>3. ks' = ks /\ kf' = kf /\ kd' = kd
      BY <3>1
    <3> QED
      BY <3>2, <3>3
  <2>2. CASE FinishClean(mb)
    <3>1. clean[mb] = "running" /\ clean' \in {[clean EXCEPT ![mb] = "ok"], [clean EXCEPT ![mb] = "err"]}
          /\ UNCHANGED copy
      BY <2>2 DEF FinishClean
    <3>2. mb \in cf /\ mb \notin cf' /\ cs' \subseteq cs /\ cf' \subseteq cf
      BY <3>1
    <3>3. delivered = Nothing
      BY <3>1, NothingYet DEF IInv, Wiped
    <3>4. kd' \subseteq kd /\ ks' = ks /\ kf' = kf
      BY <3>1, <3>3 DEF Nothing
    <3> QED
      BY <3>2, <3>4
  <2>3. CASE StartCopy(mb)
    <3>1. copy' = [copy EXCEPT ![mb] = "running"] /\ copy[mb] = "queued" /\ UNCHANGED <<clean, delivered>>
      BY <2>3 DEF StartCopy, StartJob
    <3>2. mb \in ks /\ mb \notin ks' /\ ks' \subseteq ks /\ kf' \subseteq kf /\ kd' \subseteq kd
      BY <3>1
    <3>3. cs' = cs /\ cf' = cf
      BY <3>1
    <3> QED
      BY <3>2, <3>3
  <2>4. CASE CopyMessage(mb)
    <3>1. /\ copy[mb] = "running" /\ delivered[mb] = "nothing" /\ UNCHANGED <<clean, copy>>
          /\ delivered' = [delivered EXCEPT ![mb] = "some"]
      BY <2>4 DEF CopyMessage
    <3>2. mb \in kd /\ mb \notin kd' /\ kd' \subseteq kd
      BY <3>1
    <3>3. cs' = cs /\ cf' = cf /\ ks' = ks /\ kf' = kf
      BY <3>1
    <3> QED
      BY <3>2, <3>3
  <2>5. CASE FinishCopy(mb)
    <3>1. /\ copy[mb] = "running" /\ UNCHANGED clean
          /\ copy' \in {[copy EXCEPT ![mb] = "ok"], [copy EXCEPT ![mb] = "err"]}
          /\ delivered' \in {delivered, [delivered EXCEPT ![mb] = "all"]}
      BY <2>5 DEF FinishCopy
    <3>2. mb \in kf /\ mb \notin kf' /\ ks' \subseteq ks /\ kf' \subseteq kf /\ kd' \subseteq kd
      BY <3>1
    <3>3. cs' = cs /\ cf' = cf
      BY <3>1
    <3> QED
      BY <3>2, <3>3
  <2> QED
    BY <2>1, <2>2, <2>3, <2>4, <2>5 DEF Worker
<1>4. MainLeft' = MainLeft
  BY <1>1 DEF MainLeft
<1>5. /\ Ahead[1] = cs /\ Ahead[2] = cf /\ Ahead[3] = ks /\ Ahead[4] = kf /\ Ahead[5] = kd
      /\ Ahead'[1] = cs' /\ Ahead'[2] = cf' /\ Ahead'[3] = ks' /\ Ahead'[4] = kf' /\ Ahead'[5] = kd'
  BY DEF Ahead
<1> HIDE DEF cs, cf, ks, kf, kd
<1>6. \A kind \in 1..5 : Ahead'[kind] \subseteq Ahead[kind]
  BY <1>3, <1>5
<1>7. \E kind \in 1..5 : Ahead'[kind] # Ahead[kind]
  BY <1>3, <1>5
<1> QED
  BY <1>4, <1>6, <1>7

\* The steps of a run.
RunSteps ==
  \/ \E c \in (SUBSET Mailbox) \ {{}} : Begin(c)
  \/ Confirm \/ Main
  \/ pc # "exited" /\ \E mb \in entries : Worker(mb)

\* They leave less to do.
LEMMA RunGetsOn == ASSUME IInv, IInv', Left \in Nat, RunSteps PROVE Left' < Left
<1>1. MainLeft \in Nat /\ MainLeft' \in Nat
  <2>1. todo \in SUBSET Mailbox /\ todo' \in SUBSET Mailbox /\ pc \in Place /\ pc' \in Place
    BY DEF IInv, Types, Place
  <2> QED
    BY <2>1, Sizes, LeftAtIsNumber DEF MainLeft
<1>2. Ahead \in [1..5 -> SUBSET Mailbox] /\ Ahead' \in [1..5 -> SUBSET Mailbox]
  BY DEF Ahead, ToStart, ToFinish, ToDeliver, Having
<1>3. Sum(Ahead) \in Nat
  BY <1>2, SmallerSum
<1>4. Left = MainLeft + Sum(Ahead) /\ Left' = MainLeft' + Sum(Ahead')
  BY DEF Left, Sum
<1>5. CASE Confirm \/ Main \/ \E c \in (SUBSET Mailbox) \ {{}} : Begin(c)
  <2>1. MainLeft' < MainLeft /\ Sum(Ahead') = Sum(Ahead)
    BY <1>5, MainGetsOn DEF IInv
  <2> QED
    BY <1>1, <1>3, <1>4, <2>1
<1>6. ASSUME NEW mb \in entries, Worker(mb) PROVE Left' < Left
  <2>1. MainLeft' = MainLeft
    BY <1>6, WorkersGetOn
  <2>2. Sum(Ahead') < Sum(Ahead) /\ Sum(Ahead') \in Nat
    <3>1. /\ \A kind \in 1..5 : Ahead'[kind] \subseteq Ahead[kind]
          /\ \E kind \in 1..5 : Ahead'[kind] # Ahead[kind]
      BY <1>6, WorkersGetOn
    <3> QED
      BY <1>2, <3>1, SmallerSum
  <2> QED
    BY <1>1, <1>3, <1>4, <2>1, <2>2
<1> QED
  BY <1>5, <1>6 DEF RunSteps

\* A run with n mailboxes takes no more than 7 n + 8 steps, in whatever order the pools work,
\* fail, or let a wait time out (runner.go, performCopy and cleanTargets): each of its steps
\* leaves less to do, the signal leaves as much, and only the end of the process begins anew.
THEOREM RunIsBounded ==
  Spec => /\ [](Left \in 0..(7 * Cardinality(Mailbox) + 8))
          /\ [][(RunSteps => Left' < Left) /\ (Signal => Left' = Left)]_vars
<1> DEFINE GetsOn == (RunSteps => Left' < Left) /\ (Signal => Left' = Left)
<1>1. IInv => Left \in 0..(7 * Cardinality(Mailbox) + 8)
  <2> SUFFICES ASSUME IInv PROVE Left \in 0..(7 * Cardinality(Mailbox) + 8)
    OBVIOUS
  <2>1. todo \in SUBSET Mailbox /\ pc \in Place
    BY DEF IInv, Types, Place
  <2>2. MainLeft \in Nat /\ MainLeft <= 2 * Cardinality(Mailbox) + 8
    BY <2>1, Sizes, LeftAtIsNumber DEF MainLeft
  <2>3. Sum(Ahead) \in Nat /\ Sum(Ahead) <= 5 * Cardinality(Mailbox)
    BY AheadIs, SmallerSum
  <2>4. Cardinality(Mailbox) \in Nat
    BY Sizes
  <2> QED
    BY <2>2, <2>3, <2>4 DEF Left
<1>2. Left \in 0..(7 * Cardinality(Mailbox) + 8) => Left \in Nat
  OBVIOUS
<1>3. Signal \/ UNCHANGED vars => Left' = Left
  BY DEF Signal, vars, outside, jobs, Left, MainLeft, Sum, Ahead, ToStart, ToFinish, ToDeliver, Having
<1>4. IInv /\ IInv' /\ Left \in Nat => [GetsOn]_vars
  BY <1>3, RunGetsOn
<1> QED
  BY <1>1, <1>2, <1>4, Invariant, PTL DEF Spec

=============================================================================
