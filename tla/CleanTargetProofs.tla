-------------------------- MODULE CleanTargetProofs --------------------------
(***************************************************************************)
(* Theorems about CleanTarget, for any folders and hierarchies, any        *)
(* messages, and any number of steps of everybody else.                    *)
(***************************************************************************)
EXTENDS CleanTarget, FiniteSetTheorems, WellFoundedInduction, TLAPS

-----------------------------------------------------------------------------
(* The invariant *)

Types ==
  /\ kind \in [Folder -> {"absent", "container", "folder"}] /\ kind[Inbox] = "folder"
  /\ at \in [Msg -> Folder \cup {0}]
  /\ flagged \subseteq Msg /\ \A m \in flagged : at[m] # 0
  /\ outside \in 0..MaxOutside
  /\ unborn \subseteq Msg /\ \A m \in unborn : at[m] = 0 /\ m \notin old
  /\ touched \subseteq Msg /\ fresh \subseteq Folder /\ old \subseteq Msg
  /\ pc \in {"dial", "list", "loop", "fetch", "mark", "expunge", "delete", "close",
             "returned"}
  /\ selected \in listed \cup {0} /\ listed \subseteq Folder
  /\ todo \subseteq listed /\ uids \subseteq Msg
  /\ result \in {"none", "ok", "err"} /\ fault \in BOOLEAN /\ skipped \subseteq listed

\* The way of cleanTargetMailbox.
Course ==
  /\ pc \in {"dial", "list"} => selected = 0
  /\ pc \in {"fetch", "mark", "expunge"} => selected # 0
  /\ pc = "delete" => Inbox \notin todo
  /\ result = "none" <=> pc \notin {"close", "returned"}
  /\ result = "ok" => todo = {}

\* Messages are in folders.
Housed == \A m \in Msg : at[m] # 0 => kind[at[m]] = "folder"

Emptying == pc \in {"loop", "fetch", "mark", "expunge"}

\* Where old messages may still be.
OldMail ==
  /\ Emptying => \A m \in old : at[m] \in listed \cup {0}
  /\ pc = "delete" => \A m \in old : at[m] \in todo \cup {0, Inbox}
  /\ result = "ok" => \A m \in old : at[m] \in {0, Inbox}

InboxDone == \A m \in old : at[m] = Inbox => m \in touched

\* INBOX is to be emptied, or is being emptied, or is empty.
InboxMail ==
  /\ Emptying => Inbox \in todo \/ InboxDone \/ (selected = Inbox /\ pc # "loop")
  /\ pc = "mark" /\ selected = Inbox => \A m \in old : at[m] = Inbox => m \in uids
  /\ pc = "expunge" /\ selected = Inbox =>
       \A m \in old : at[m] = Inbox => m \in flagged \cup touched
  /\ pc = "delete" \/ result = "ok" => InboxDone

\* The clean-up flags no messages but those it has fetched, and these it expunges.
Flags ==
  /\ pc \in {"dial", "list", "loop", "fetch", "mark", "delete"} => flagged \subseteq old \cup touched
  /\ pc = "expunge" =>
       \A m \in flagged : m \in old \cup touched \/ (m \in uids /\ at[m] = selected)

\* Folders come from users only, and those the deletion has left hold such ones.
Folders ==
  /\ Emptying \/ pc = "delete" \/ result = "ok" => Existing \subseteq listed \cup fresh
  /\ pc = "delete" \/ result = "ok" =>
       \A f \in listed \ {Inbox} :
         f \in Existing => f \in todo \/ ({f} \cup Below(f)) \cap fresh # {}

\* As long as nobody and nothing interferes the folders are as they were listed.
Smooth ==
  outside = 0 /\ skipped = {} /\ ~fault =>
    /\ result # "err"
    /\ Emptying => Existing = listed /\ Selectable = Existing
    /\ pc = "delete" => Existing \ {Inbox} = todo /\ Selectable = Existing /\ selected = 0

CInv == Types /\ Course /\ Housed /\ OldMail /\ InboxMail /\ Flags /\ Folders /\ Smooth

-----------------------------------------------------------------------------
(* Lemmas *)

\* A set of numbers has a least one.
LEMMA LeastThereIs ==
  ASSUME NEW S \in SUBSET Nat, S # {}
  PROVE  \E x \in S : \A y \in S : x <= y
<1>1. PICK R : IsWellFoundedOn(R, Nat) /\ \A x, y \in Nat : <<y, x>> \in R <=> y < x
  <2>1. \A x, y \in Nat : <<y, x>> \in OpToRel(<, Nat) <=> y < x
    BY DEF OpToRel
  <2> QED
    BY <2>1, NatLessThanWellFounded, Zenon
<1>2. PICK x \in S : \A y \in S : ~(<<y, x>> \in R)
  BY <1>1, WFMin
<1>3. ASSUME NEW y \in S PROVE x <= y
  <2>1. x \in Nat /\ y \in Nat
    OBVIOUS
  <2>2. ~(y < x)
    BY <1>1, <1>2, <2>1, Zenon
  <2> QED
    BY <2>1, <2>2
<1> QED
  BY <1>2, <1>3

\* A finite set of numbers has a greatest one: the one with the fewest above it.
LEMMA MaxIsGreatest ==
  ASSUME NEW S \in SUBSET Nat, IsFiniteSet(S), S # {}
  PROVE  Max(S) \in S /\ \A y \in S : y <= Max(S)
<1> DEFINE Above(x) == {y \in S : x < y}
           Counts == {Cardinality(Above(x)) : x \in S}
<1>1. \A x : IsFiniteSet(Above(x)) /\ Cardinality(Above(x)) \in Nat
  <2> SUFFICES ASSUME NEW x PROVE IsFiniteSet(Above(x)) /\ Cardinality(Above(x)) \in Nat
    OBVIOUS
  <2>1. Above(x) \in SUBSET S
    OBVIOUS
  <2> HIDE DEF Above
  <2> QED
    BY <2>1, FS_Subset, FS_CardinalityType
<1>2. PICK x \in S : \A y \in S : Cardinality(Above(x)) <= Cardinality(Above(y))
  <2>1. Counts \in SUBSET Nat /\ Counts # {}
    BY <1>1
  <2>2. PICK c \in Counts : \A d \in Counts : c <= d
    <3> HIDE DEF Counts
    <3> QED
      BY <2>1, LeastThereIs
  <2> QED
    BY <2>2
<1>3. ASSUME NEW y \in S PROVE y <= x
  <2> SUFFICES ASSUME x < y PROVE FALSE
    OBVIOUS
  <2>1. x \in Nat /\ y \in Nat /\ \A z \in S : z \in Nat
    OBVIOUS
  <2>2. (\A z \in S : y < z => x < z) /\ ~(y < y)
    BY <2>1
  <2>3. Above(y) \in SUBSET Above(x) /\ y \in Above(x) /\ y \notin Above(y)
    BY <2>2, Zenon
  <2> HIDE DEF Above
  <2>4. Cardinality(Above(y)) <= Cardinality(Above(x)) /\ Above(x) # Above(y)
    BY <1>1, <2>3, FS_Subset
  <2>5. Cardinality(Above(x)) # Cardinality(Above(y))
    BY <1>1, <2>3, <2>4, FS_Subset
  <2> QED
    BY <1>1, <1>2, <2>4, <2>5
<1>4. \E z \in S : \A y \in S : z >= y
  BY <1>3
<1> QED
  BY <1>4 DEF Max

\* The deletion goes on with the last of the folders to come, never INBOX.
LEMMA NextIsListed ==
  ASSUME Types, Course, pc = "delete", todo # {}
  PROVE  NextFolder \in todo /\ NextFolder # Inbox /\ \A g \in todo : g <= NextFolder
<1>1. todo \in SUBSET Nat /\ IsFiniteSet(todo)
  BY CleanTargetAssumption, FS_Subset DEF Types
<1>2. NextFolder \in todo /\ \A g \in todo : g <= NextFolder
  BY <1>1, MaxIsGreatest DEF NextFolder
<1> QED
  BY <1>2 DEF Course

\* What becomes of mail when a folder is emptied.
LEMMA RemoveFrom ==
  ASSUME Types, NEW f \in Folder, Remove(In(f))
  PROVE  /\ at' \in [Msg -> Folder \cup {0}] /\ flagged' = {m \in flagged : at[m] # f}
         /\ \A m \in Msg : at'[m] = IF at[m] = f THEN 0 ELSE at[m]
         /\ flagged' \subseteq Msg /\ \A m \in flagged' : at'[m] # 0
         /\ \A m \in unborn : at'[m] = 0
  BY DEF Types, Remove, In

\* What the deletion of a folder does, whether the server keeps it as a container or
\* not, and whether others vanish with it.
LEMMA DeleteDoes ==
  ASSUME Types, NEW f \in Folder, Delete(f)
  PROVE  /\ kind' \in [Folder -> {"absent", "container", "folder"}]
         /\ kind'[f] # "folder"
         /\ Below(f) \cap Existing = {} => kind'[f] = "absent"
         /\ \A g \in Folder \ {f} :
              kind'[g] = kind[g] \/ (kind[g] = "container" /\ kind'[g] = "absent")
         /\ at' \in [Msg -> Folder \cup {0}] /\ flagged' = {m \in flagged : at[m] # f}
         /\ \A m \in Msg : at'[m] = IF at[m] = f THEN 0 ELSE at[m]
         /\ flagged' \subseteq Msg /\ \A m \in flagged' : at'[m] # 0
         /\ \A m \in unborn : at'[m] = 0
<1>1. CASE Below(f) \cap Existing # {}
  BY <1>1, RemoveFrom DEF Delete, Types
<1>2. CASE Below(f) \cap Existing = {}
  <2>1. PICK gone \in {{f}, {f} \cup Hollow(f)} :
             kind' = [g \in Folder |-> IF g \in gone THEN "absent" ELSE kind[g]]
    BY <1>2 DEF Delete
  <2>2. f \in gone /\ \A g \in gone \ {f} : kind[g] = "container"
    BY DEF Hollow
  <2> QED
    BY <1>2, <2>1, <2>2, RemoveFrom DEF Delete, Types
<1> QED
  BY <1>1, <1>2

\* Nothing has been listed yet.
LEMMA InitHolds == Init => CInv
<1> SUFFICES ASSUME Init PROVE CInv
  OBVIOUS
<1>1. fault \in BOOLEAN
  BY DEF Init
<1>2. Types
  BY <1>1, CleanTargetAssumption DEF Init, Types, In, Selectable
<1>3. Housed
  BY DEF Init, Housed, Selectable
<1> QED
  BY <1>2, <1>3 DEF Init, CInv, Course, OldMail, InboxMail, Flags, Folders, Smooth, Emptying

-----------------------------------------------------------------------------
(* Each action keeps the invariant *)

\* The clean-up and everybody else keep the types.
LEMMA NextTypes == ASSUME Types, Course, [Next]_vars PROVE Types'
<1> USE DEF Types, Course, mailbox, world, cleaner
<1>1. CASE Dial
  BY <1>1 DEF Dial, Go
<1>2. CASE ListFolders
  BY <1>2 DEF ListFolders, Go, Fail, Existing, Selectable
<1>3. ASSUME NEW f \in Folder, SelectFolder(f) PROVE Types'
  BY <1>3 DEF SelectFolder, Go, Fail, Refused, In
<1>4. CASE FetchAll
  BY <1>4 DEF FetchAll, Go, Fail, In
<1>5. CASE MarkDeleted
  BY <1>5 DEF MarkDeleted, Go, Fail, MarkedMessages, In
<1>6. CASE Expunge
  BY <1>6 DEF Expunge, Go, Fail, Remove, Expunged, In
<1>7. CASE FolderIsGone
  BY <1>7 DEF FolderIsGone, Refused
<1>8. CASE Unselect
  BY <1>8 DEF Unselect, Go, Fail, Refused, DeletedFolders
<1>9. CASE DeleteFolder
  <2>0. /\ todo # {} /\ NextFolder \in Folder /\ NextFolder # Inbox /\ todo' = todo \ {NextFolder}
        /\ UNCHANGED <<world, selected, listed, uids, skipped>>
        /\ pc' \in {"delete", "close"} /\ result' \in {"none", "ok", "err"} /\ fault' \in BOOLEAN
    BY <1>9, NextIsListed DEF DeleteFolder, Go, Fail, Refused
  <2>1. CASE Delete(NextFolder)
    <3>1. /\ kind' \in [Folder -> {"absent", "container", "folder"}] /\ kind'[Inbox] = "folder"
          /\ at' \in [Msg -> Folder \cup {0}]
          /\ flagged' \subseteq Msg /\ \A m \in flagged' : at'[m] # 0
          /\ \A m \in unborn : at'[m] = 0
      BY <2>0, <2>1, DeleteDoes, CleanTargetAssumption
    <3> QED
      BY <2>0, <3>1
  <2>2. CASE UNCHANGED mailbox
    BY <2>0, <2>2
  <2> QED
    BY <1>9, <2>1, <2>2 DEF DeleteFolder
<1>10. CASE Finish
  BY <1>10 DEF Finish
<1>11. CASE Close
  BY <1>11 DEF Close
<1>12. ASSUME NEW m \in Msg, NEW f \in Folder, Deliver(m, f) PROVE Types'
  BY <1>12, CleanTargetAssumption DEF Deliver, Outside
<1>13. ASSUME NEW m \in Msg, UserFlags(m) PROVE Types'
  BY <1>13, CleanTargetAssumption DEF UserFlags, Outside
<1>14. ASSUME NEW f \in Folder, UserMakes(f) PROVE Types'
  BY <1>14, CleanTargetAssumption DEF UserMakes, Outside
<1>15. ASSUME NEW f \in Folder, RivalEmpties(f) PROVE Types'
  <2>1. Remove(In(f)) /\ touched' \subseteq Msg /\ outside' \in 0..MaxOutside
    BY <1>15, CleanTargetAssumption DEF RivalEmpties, Outside, In
  <2> QED
    BY <1>15, <2>1, RemoveFrom DEF RivalEmpties
<1>16. ASSUME NEW f \in Folder, RivalDeletes(f) PROVE Types'
  <2>1. Delete(f) /\ touched' \subseteq Msg /\ outside' \in 0..MaxOutside /\ f # Inbox
    BY <1>16, CleanTargetAssumption DEF RivalDeletes, Outside, In
  <2>2. /\ kind' \in [Folder -> {"absent", "container", "folder"}] /\ kind'[Inbox] = "folder"
        /\ at' \in [Msg -> Folder \cup {0}]
        /\ flagged' \subseteq Msg /\ \A m \in flagged' : at'[m] # 0
        /\ \A m \in unborn : at'[m] = 0
    BY <2>1, DeleteDoes, CleanTargetAssumption
  <2> QED
    BY <1>16, <2>1, <2>2 DEF RivalDeletes
<1>17. CASE Returned
  BY <1>17 DEF Returned, vars
<1>18. CASE UNCHANGED vars
  BY <1>18 DEF vars
<1> QED
  BY <1>1, <1>2, <1>3, <1>4, <1>5, <1>6, <1>7, <1>8, <1>9,
     <1>10, <1>11, <1>12, <1>13, <1>14, <1>15, <1>16, <1>17, <1>18 DEF Next

\* The steps follow the course of cleanTargetMailbox.
LEMMA NextCourse == ASSUME Types, Course, [Next]_vars PROVE Course'
<1> USE DEF Course, Types, mailbox, world, cleaner
<1>1. CASE Dial
  BY <1>1 DEF Dial, Go
<1>2. CASE ListFolders
  BY <1>2 DEF ListFolders, Go, Fail, Existing, Selectable
<1>3. ASSUME NEW f \in Folder, SelectFolder(f) PROVE Course'
  BY <1>3, CleanTargetAssumption DEF SelectFolder, Go, Fail, Refused, In
<1>4. CASE FetchAll
  BY <1>4 DEF FetchAll, Go, Fail, In
<1>5. CASE MarkDeleted
  BY <1>5 DEF MarkDeleted, Go, Fail, MarkedMessages, In
<1>6. CASE Expunge
  BY <1>6 DEF Expunge, Go, Fail, Remove, Expunged, In
<1>7. CASE FolderIsGone
  BY <1>7 DEF FolderIsGone, Refused
<1>8. CASE Unselect
  BY <1>8 DEF Unselect, Go, Fail, Refused, DeletedFolders
<1>9. CASE DeleteFolder
  BY <1>9, NextIsListed, DeleteDoes DEF DeleteFolder, Go, Fail, Refused
<1>10. CASE Finish
  BY <1>10 DEF Finish
<1>11. CASE Close
  BY <1>11 DEF Close
<1>12. ASSUME NEW m \in Msg, NEW f \in Folder, Deliver(m, f) PROVE Course'
  BY <1>12 DEF Deliver, Outside
<1>13. ASSUME NEW m \in Msg, UserFlags(m) PROVE Course'
  BY <1>13 DEF UserFlags, Outside
<1>14. ASSUME NEW f \in Folder, UserMakes(f) PROVE Course'
  BY <1>14 DEF UserMakes, Outside
<1>15. ASSUME NEW f \in Folder, RivalEmpties(f) PROVE Course'
  BY <1>15, RemoveFrom DEF RivalEmpties, Outside, In
<1>16. ASSUME NEW f \in Folder, RivalDeletes(f) PROVE Course'
  BY <1>16, DeleteDoes DEF RivalDeletes, Outside, In
<1>17. CASE Returned
  BY <1>17 DEF Returned, vars
<1>18. CASE UNCHANGED vars
  BY <1>18 DEF vars
<1> QED
  BY <1>1, <1>2, <1>3, <1>4, <1>5, <1>6, <1>7, <1>8, <1>9,
     <1>10, <1>11, <1>12, <1>13, <1>14, <1>15, <1>16, <1>17, <1>18 DEF Next

\* A folder takes its messages with it.
LEMMA NextHoused == ASSUME Types, Course, Housed, [Next]_vars PROVE Housed'
<1> USE DEF Types, Course, Housed, mailbox, world, cleaner
<1>1. CASE Dial
  BY <1>1 DEF Dial, Go
<1>2. CASE ListFolders
  BY <1>2 DEF ListFolders, Go, Fail, Existing, Selectable
<1>3. ASSUME NEW f \in Folder, SelectFolder(f) PROVE Housed'
  BY <1>3 DEF SelectFolder, Go, Fail, Refused, In
<1>4. CASE FetchAll
  BY <1>4 DEF FetchAll, Go, Fail, In
<1>5. CASE MarkDeleted
  BY <1>5 DEF MarkDeleted, Go, Fail, MarkedMessages, In
<1>6. CASE Expunge
  BY <1>6 DEF Expunge, Go, Fail, Remove, Expunged, In
<1>7. CASE FolderIsGone
  BY <1>7 DEF FolderIsGone, Refused
<1>8. CASE Unselect
  BY <1>8 DEF Unselect, Go, Fail, Refused, DeletedFolders
<1>9. CASE DeleteFolder
  BY <1>9, NextIsListed, DeleteDoes DEF DeleteFolder, Go, Fail, Refused
<1>10. CASE Finish
  BY <1>10 DEF Finish
<1>11. CASE Close
  BY <1>11 DEF Close
<1>12. ASSUME NEW m \in Msg, NEW f \in Folder, Deliver(m, f) PROVE Housed'
  BY <1>12 DEF Deliver, Outside
<1>13. ASSUME NEW m \in Msg, UserFlags(m) PROVE Housed'
  BY <1>13 DEF UserFlags, Outside
<1>14. ASSUME NEW f \in Folder, UserMakes(f) PROVE Housed'
  BY <1>14 DEF UserMakes, Outside
<1>15. ASSUME NEW f \in Folder, RivalEmpties(f) PROVE Housed'
  BY <1>15, RemoveFrom DEF RivalEmpties, Outside, In
<1>16. ASSUME NEW f \in Folder, RivalDeletes(f) PROVE Housed'
  BY <1>16, DeleteDoes DEF RivalDeletes, Outside, In
<1>17. CASE Returned
  BY <1>17 DEF Returned, vars
<1>18. CASE UNCHANGED vars
  BY <1>18 DEF vars
<1> QED
  BY <1>1, <1>2, <1>3, <1>4, <1>5, <1>6, <1>7, <1>8, <1>9,
     <1>10, <1>11, <1>12, <1>13, <1>14, <1>15, <1>16, <1>17, <1>18 DEF Next

\* No old message comes back, and the folders that hold any are to come.
LEMMA NextOldMail == ASSUME Types, Course, Housed, OldMail, [Next]_vars PROVE OldMail'
<1> USE DEF OldMail, Emptying, Types, Course, mailbox, world, cleaner
<1>1. CASE Dial
  BY <1>1 DEF Dial, Go
<1>2. CASE ListFolders
  BY <1>2 DEF ListFolders, Go, Fail, Existing, Selectable, Housed
<1>3. ASSUME NEW f \in Folder, SelectFolder(f) PROVE OldMail'
  BY <1>3 DEF SelectFolder, Go, Fail, Refused, In
<1>4. CASE FetchAll
  BY <1>4 DEF FetchAll, Go, Fail, In
<1>5. CASE MarkDeleted
  BY <1>5 DEF MarkDeleted, Go, Fail, MarkedMessages, In
<1>6. CASE Expunge
  BY <1>6 DEF Expunge, Go, Fail, Remove, Expunged, In
<1>7. CASE FolderIsGone
  BY <1>7 DEF FolderIsGone, Refused
<1>8. CASE Unselect
  BY <1>8 DEF Unselect, Go, Fail, Refused, DeletedFolders
<1>9. CASE DeleteFolder
  BY <1>9, NextIsListed, DeleteDoes DEF DeleteFolder, Go, Fail, Refused
<1>10. CASE Finish
  BY <1>10 DEF Finish
<1>11. CASE Close
  BY <1>11 DEF Close
<1>12. ASSUME NEW m \in Msg, NEW f \in Folder, Deliver(m, f) PROVE OldMail'
  BY <1>12 DEF Deliver, Outside
<1>13. ASSUME NEW m \in Msg, UserFlags(m) PROVE OldMail'
  BY <1>13 DEF UserFlags, Outside
<1>14. ASSUME NEW f \in Folder, UserMakes(f) PROVE OldMail'
  BY <1>14 DEF UserMakes, Outside
<1>15. ASSUME NEW f \in Folder, RivalEmpties(f) PROVE OldMail'
  BY <1>15, RemoveFrom DEF RivalEmpties, Outside, In
<1>16. ASSUME NEW f \in Folder, RivalDeletes(f) PROVE OldMail'
  BY <1>16, DeleteDoes DEF RivalDeletes, Outside, In
<1>17. CASE Returned
  BY <1>17 DEF Returned, vars
<1>18. CASE UNCHANGED vars
  BY <1>18 DEF vars
<1> QED
  BY <1>1, <1>2, <1>3, <1>4, <1>5, <1>6, <1>7, <1>8, <1>9,
     <1>10, <1>11, <1>12, <1>13, <1>14, <1>15, <1>16, <1>17, <1>18 DEF Next

\* INBOX is emptied.
LEMMA NextInboxMail == ASSUME Types, Course, InboxMail, [Next]_vars PROVE InboxMail'
<1> USE DEF InboxMail, InboxDone, Emptying, Types, Course, mailbox, world, cleaner
<1>1. CASE Dial
  BY <1>1 DEF Dial, Go
<1>2. CASE ListFolders
  BY <1>2, CleanTargetAssumption DEF ListFolders, Go, Fail, Existing, Selectable
<1>3. ASSUME NEW f \in Folder, SelectFolder(f) PROVE InboxMail'
  BY <1>3 DEF SelectFolder, Go, Fail, Refused, In
<1>4. CASE FetchAll
  BY <1>4 DEF FetchAll, Go, Fail, In
<1>5. CASE MarkDeleted
  BY <1>5 DEF MarkDeleted, Go, Fail, MarkedMessages, In
<1>6. CASE Expunge
  <2>1. CASE Remove(Expunged) /\ Go("loop")
    <3>1. pc' = "loop" /\ selected' = selected /\ result' = "none"
      BY <1>6, <2>1 DEF Expunge, Go
    <3>2. \A m \in Msg : at'[m] = IF m \in Expunged THEN 0 ELSE at[m]
      BY <2>1 DEF Remove
    <3>3. UNCHANGED <<old, touched>> /\ 0 # Inbox
      BY <1>6, CleanTargetAssumption DEF Expunge
    <3>4. InboxDone => InboxDone'
      BY <3>2, <3>3
    <3>5. selected = Inbox => InboxDone'
      BY <1>6, <3>2, <3>3 DEF Expunge, Expunged, In
    <3> QED
      BY <1>6, <3>1, <3>4, <3>5 DEF Expunge
  <2>2. CASE Fail
    BY <1>6, <2>2 DEF Expunge, Fail
  <2> QED
    BY <1>6, <2>1, <2>2 DEF Expunge
<1>7. CASE FolderIsGone
  BY <1>7 DEF FolderIsGone, Refused
<1>8. CASE Unselect
  BY <1>8 DEF Unselect, Go, Fail, Refused, DeletedFolders
<1>9. CASE DeleteFolder
  <2>1. InboxDone'
    <3>1. \A m \in old : at'[m] = at[m] \/ at'[m] = 0
      BY <1>9, NextIsListed, DeleteDoes DEF DeleteFolder
    <3> QED
      BY <1>9, <3>1, CleanTargetAssumption DEF DeleteFolder
  <2> QED
    BY <1>9, <2>1 DEF DeleteFolder, Go, Fail, Refused
<1>10. CASE Finish
  BY <1>10 DEF Finish
<1>11. CASE Close
  BY <1>11 DEF Close
<1>12. ASSUME NEW m \in Msg, NEW f \in Folder, Deliver(m, f) PROVE InboxMail'
  BY <1>12 DEF Deliver, Outside
<1>13. ASSUME NEW m \in Msg, UserFlags(m) PROVE InboxMail'
  BY <1>13 DEF UserFlags, Outside
<1>14. ASSUME NEW f \in Folder, UserMakes(f) PROVE InboxMail'
  BY <1>14 DEF UserMakes, Outside
<1>15. ASSUME NEW f \in Folder, RivalEmpties(f) PROVE InboxMail'
  BY <1>15, RemoveFrom DEF RivalEmpties, Outside, In
<1>16. ASSUME NEW f \in Folder, RivalDeletes(f) PROVE InboxMail'
  BY <1>16, DeleteDoes DEF RivalDeletes, Outside, In
<1>17. CASE Returned
  BY <1>17 DEF Returned, vars
<1>18. CASE UNCHANGED vars
  BY <1>18 DEF vars
<1> QED
  BY <1>1, <1>2, <1>3, <1>4, <1>5, <1>6, <1>7, <1>8, <1>9,
     <1>10, <1>11, <1>12, <1>13, <1>14, <1>15, <1>16, <1>17, <1>18 DEF Next

\* The clean-up flags only what it has fetched.
LEMMA NextFlags == ASSUME Types, Course, Flags, [Next]_vars PROVE Flags'
<1> USE DEF Flags, Types, Course, mailbox, world, cleaner
<1>1. CASE Dial
  BY <1>1 DEF Dial, Go
<1>2. CASE ListFolders
  BY <1>2 DEF ListFolders, Go, Fail, Existing, Selectable
<1>3. ASSUME NEW f \in Folder, SelectFolder(f) PROVE Flags'
  BY <1>3 DEF SelectFolder, Go, Fail, Refused, In
<1>4. CASE FetchAll
  BY <1>4 DEF FetchAll, Go, Fail, In
<1>5. CASE MarkDeleted
  BY <1>5 DEF MarkDeleted, Go, Fail, MarkedMessages, In
<1>6. CASE Expunge
  BY <1>6 DEF Expunge, Go, Fail, Remove, Expunged, In
<1>7. CASE FolderIsGone
  BY <1>7 DEF FolderIsGone, Refused
<1>8. CASE Unselect
  BY <1>8 DEF Unselect, Go, Fail, Refused, DeletedFolders
<1>9. CASE DeleteFolder
  BY <1>9, NextIsListed, DeleteDoes DEF DeleteFolder, Go, Fail, Refused
<1>10. CASE Finish
  BY <1>10 DEF Finish
<1>11. CASE Close
  BY <1>11 DEF Close
<1>12. ASSUME NEW m \in Msg, NEW f \in Folder, Deliver(m, f) PROVE Flags'
  BY <1>12 DEF Deliver, Outside
<1>13. ASSUME NEW m \in Msg, UserFlags(m) PROVE Flags'
  BY <1>13 DEF UserFlags, Outside
<1>14. ASSUME NEW f \in Folder, UserMakes(f) PROVE Flags'
  BY <1>14 DEF UserMakes, Outside
<1>15. ASSUME NEW f \in Folder, RivalEmpties(f) PROVE Flags'
  BY <1>15, RemoveFrom DEF RivalEmpties, Outside, In
<1>16. ASSUME NEW f \in Folder, RivalDeletes(f) PROVE Flags'
  BY <1>16, DeleteDoes DEF RivalDeletes, Outside, In
<1>17. CASE Returned
  BY <1>17 DEF Returned, vars
<1>18. CASE UNCHANGED vars
  BY <1>18 DEF vars
<1> QED
  BY <1>1, <1>2, <1>3, <1>4, <1>5, <1>6, <1>7, <1>8, <1>9,
     <1>10, <1>11, <1>12, <1>13, <1>14, <1>15, <1>16, <1>17, <1>18 DEF Next

\* Of the folders the deletion has passed only those stay that hold others.
LEMMA NextFolders == ASSUME Types, Course, Folders, [Next]_vars PROVE Folders'
<1> USE DEF Folders, Emptying, Types, Course, mailbox, world, cleaner
<1>1. CASE Dial
  BY <1>1 DEF Dial, Go, Existing, Below
<1>2. CASE ListFolders
  BY <1>2 DEF ListFolders, Go, Fail, Existing, Selectable, Below
<1>3. ASSUME NEW f \in Folder, SelectFolder(f) PROVE Folders'
  BY <1>3 DEF SelectFolder, Go, Fail, Refused, In, Existing, Below
<1>4. CASE FetchAll
  BY <1>4 DEF FetchAll, Go, Fail, In, Existing, Below
<1>5. CASE MarkDeleted
  BY <1>5 DEF MarkDeleted, Go, Fail, MarkedMessages, In, Existing, Below
<1>6. CASE Expunge
  BY <1>6 DEF Expunge, Go, Fail, Remove, Expunged, In, Existing, Below
<1>7. CASE FolderIsGone
  BY <1>7 DEF FolderIsGone, Refused, Existing, Below
<1>8. CASE Unselect
  BY <1>8 DEF Unselect, Go, Fail, Refused, DeletedFolders, Existing, Below
<1>9. CASE DeleteFolder
  <2>1. NextFolder \in todo /\ NextFolder \in Folder /\ NextFolder # Inbox
    BY <1>9, NextIsListed DEF DeleteFolder
  <2>2. UNCHANGED <<listed, fresh>> /\ todo' = todo \ {NextFolder}
    BY <1>9 DEF DeleteFolder
  <2>3. CASE kind[NextFolder] # "absent" /\ Delete(NextFolder)
    <3>1. Existing' \subseteq Existing
      BY <2>1, <2>3, DeleteDoes DEF Existing
    <3>2. ASSUME Below(NextFolder) \cap Existing # {}
          PROVE  ({NextFolder} \cup Below(NextFolder)) \cap fresh # {}
      <4>1. PICK g \in Below(NextFolder) \cap Existing : TRUE
        BY <3>2
      <4>2. CASE g \in fresh
        BY <4>1, <4>2
      <4>3. CASE g \in listed
        <5>1. NextFolder < g /\ g # Inbox /\ Below(g) \subseteq Below(NextFolder)
          BY <2>1, <4>1, CleanTargetAssumption DEF Below
        <5>2. g \notin todo
          <6>1. g \in todo => g <= NextFolder
            BY <1>9, NextIsListed DEF DeleteFolder
          <6>2. g \in Nat /\ NextFolder \in Nat
            BY <2>1, <4>1, CleanTargetAssumption DEF Below
          <6> QED
            BY <5>1, <6>1, <6>2
        <5>3. ({g} \cup Below(g)) \cap fresh # {}
          BY <1>9, <4>1, <4>3, <5>1, <5>2 DEF DeleteFolder
        <5> QED
          BY <4>1, <5>1, <5>3
      <4> QED
        BY <1>9, <4>1, <4>2, <4>3 DEF DeleteFolder
    <3>3. NextFolder \in Existing' => ({NextFolder} \cup Below(NextFolder)) \cap fresh # {}
      BY <2>1, <2>3, <3>2, DeleteDoes DEF Existing
    <3>4. \A f \in listed \ {Inbox} :
            f \in Existing' => f \in todo' \/ ({f} \cup Below(f)) \cap fresh # {}
      BY <1>9, <2>2, <3>1, <3>3 DEF DeleteFolder
    <3> QED
      BY <1>9, <2>2, <3>1, <3>4 DEF DeleteFolder, Below
  <2>4. CASE (Refused \/ Fail) /\ UNCHANGED mailbox
    BY <1>9, <2>4 DEF DeleteFolder, Refused, Fail
  <2> QED
    BY <1>9, <2>3, <2>4 DEF DeleteFolder
<1>10. CASE Finish
  BY <1>10 DEF Finish, Existing, Below
<1>11. CASE Close
  BY <1>11 DEF Close, Existing, Below
<1>12. ASSUME NEW m \in Msg, NEW f \in Folder, Deliver(m, f) PROVE Folders'
  BY <1>12 DEF Deliver, Outside, Existing, Below
<1>13. ASSUME NEW m \in Msg, UserFlags(m) PROVE Folders'
  BY <1>13 DEF UserFlags, Outside, Existing, Below
<1>14. ASSUME NEW f \in Folder, UserMakes(f) PROVE Folders'
  BY <1>14 DEF UserMakes, Outside, Existing, Below
<1>15. ASSUME NEW f \in Folder, RivalEmpties(f) PROVE Folders'
  BY <1>15, RemoveFrom DEF RivalEmpties, Outside, In, Existing, Below
<1>16. ASSUME NEW f \in Folder, RivalDeletes(f) PROVE Folders'
  <2>1. Existing' \subseteq Existing
    BY <1>16, DeleteDoes DEF RivalDeletes, Existing
  <2> QED
    BY <1>16, <2>1 DEF RivalDeletes, Below
<1>17. CASE Returned
  BY <1>17 DEF Returned, vars, Existing, Below
<1>18. CASE UNCHANGED vars
  BY <1>18 DEF vars, Existing, Below
<1> QED
  BY <1>1, <1>2, <1>3, <1>4, <1>5, <1>6, <1>7, <1>8, <1>9,
     <1>10, <1>11, <1>12, <1>13, <1>14, <1>15, <1>16, <1>17, <1>18 DEF Next

\* Without interference and without faults nothing fails.
LEMMA NextSmooth == ASSUME Types, Course, Smooth, [Next]_vars PROVE Smooth'
<1> USE DEF Smooth, Emptying, Types, Course, mailbox, world, cleaner
<1>1. CASE Dial
  BY <1>1 DEF Dial, Go, Existing, Selectable
<1>2. CASE ListFolders
  BY <1>2 DEF ListFolders, Go, Fail, Existing, Selectable
<1>3. ASSUME NEW f \in Folder, SelectFolder(f) PROVE Smooth'
  BY <1>3 DEF SelectFolder, Go, Fail, Refused, In, Existing, Selectable
<1>4. CASE FetchAll
  BY <1>4 DEF FetchAll, Go, Fail, In, Existing, Selectable
<1>5. CASE MarkDeleted
  BY <1>5 DEF MarkDeleted, Go, Fail, MarkedMessages, In, Existing, Selectable
<1>6. CASE Expunge
  BY <1>6 DEF Expunge, Go, Fail, Remove, Expunged, In, Existing, Selectable
<1>7. CASE FolderIsGone
  BY <1>7 DEF FolderIsGone, Refused, Existing, Selectable
<1>8. CASE Unselect
  BY <1>8 DEF Unselect, Go, Fail, Refused, DeletedFolders, Existing, Selectable
<1>9. CASE DeleteFolder
  <2> SUFFICES ASSUME outside' = 0, skipped' = {}, ~fault'
               PROVE  /\ pc' = "delete" /\ result' = "none"
                      /\ Existing' \ {Inbox} = todo' /\ Selectable' = Existing' /\ selected' = 0
    OBVIOUS
  <2>1. /\ NextFolder \in todo /\ NextFolder \in Folder /\ NextFolder # Inbox
        /\ \A g \in todo : g <= NextFolder
    BY <1>9, NextIsListed DEF DeleteFolder
  <2>2. outside = 0 /\ skipped = {} /\ ~fault
    BY <1>9 DEF DeleteFolder, Go, Fail, Refused
  <2>3. Existing \ {Inbox} = todo /\ Selectable = Existing /\ selected = 0
    BY <1>9, <2>2 DEF DeleteFolder
  <2>4. Below(NextFolder) \cap Existing = {}
    <3> SUFFICES ASSUME NEW g \in Below(NextFolder) \cap Existing PROVE FALSE
      OBVIOUS
    <3>1. NextFolder < g /\ g # Inbox /\ g \in Nat /\ NextFolder \in Nat
      BY <2>1, CleanTargetAssumption DEF Below
    <3>2. g \in todo
      BY <2>3, <3>1
    <3> QED
      BY <2>1, <3>1, <3>2
  <2>5. ~Undeletable(NextFolder)
    BY <2>1, <2>3, <2>4 DEF Undeletable, Existing
  <2>6. Delete(NextFolder) /\ Go("delete")
    BY <1>9, <2>5 DEF DeleteFolder, Fail
  <2>7. kind'[NextFolder] = "absent" /\ \A g \in Folder \ {NextFolder} : kind'[g] = kind[g]
    <3>1. \A g \in Folder : kind[g] # "container"
      BY <2>3 DEF Existing, Selectable
    <3> QED
      BY <2>1, <2>4, <2>6, <3>1, DeleteDoes
  <2>8. Existing' = Existing \ {NextFolder} /\ Selectable' = Selectable \ {NextFolder}
    BY <2>7 DEF Existing, Selectable
  <2> QED
    BY <1>9, <2>1, <2>3, <2>6, <2>8 DEF DeleteFolder, Go
<1>10. CASE Finish
  BY <1>10 DEF Finish, Existing, Selectable
<1>11. CASE Close
  BY <1>11 DEF Close, Existing, Selectable
<1>12. ASSUME NEW m \in Msg, NEW f \in Folder, Deliver(m, f) PROVE Smooth'
  BY <1>12 DEF Deliver, Outside
<1>13. ASSUME NEW m \in Msg, UserFlags(m) PROVE Smooth'
  BY <1>13 DEF UserFlags, Outside
<1>14. ASSUME NEW f \in Folder, UserMakes(f) PROVE Smooth'
  BY <1>14 DEF UserMakes, Outside
<1>15. ASSUME NEW f \in Folder, RivalEmpties(f) PROVE Smooth'
  BY <1>15, RemoveFrom DEF RivalEmpties, Outside, In
<1>16. ASSUME NEW f \in Folder, RivalDeletes(f) PROVE Smooth'
  BY <1>16, DeleteDoes DEF RivalDeletes, Outside, In
<1>17. CASE Returned
  BY <1>17 DEF Returned, vars, Existing, Selectable
<1>18. CASE UNCHANGED vars
  BY <1>18 DEF vars, Existing, Selectable
<1> QED
  BY <1>1, <1>2, <1>3, <1>4, <1>5, <1>6, <1>7, <1>8, <1>9,
     <1>10, <1>11, <1>12, <1>13, <1>14, <1>15, <1>16, <1>17, <1>18 DEF Next

-----------------------------------------------------------------------------
(* Theorems *)

\* The inductive invariant.
THEOREM Invariant == Spec => []CInv
<1>1. Init => CInv
  BY InitHolds
<1>2. CInv /\ [Next]_vars => CInv'
  BY NextTypes, NextCourse, NextHoused, NextOldMail, NextInboxMail, NextFlags, NextFolders,
     NextSmooth DEF CInv
<1> QED
  BY <1>1, <1>2, PTL DEF Spec

\* Every variable of the clean-up has its type, a message that is nowhere carries no
\* flag, and both loops go through listed folders only.
THEOREM TypeCorrect == Spec => []TypeOK
<1>1. CInv => TypeOK
  BY CleanTargetAssumption DEF CInv, Types, TypeOK, In
<1> QED
  BY <1>1, Invariant, PTL

\* A clean-up that returns nil has left no old message but in INBOX, and there only
\* those whose flag others have changed meanwhile.
THEOREM NilIsClean == Spec => []OldMailGone
<1>1. CInv => OldMailGone
  BY DEF CInv, Types, OldMail, InboxMail, InboxDone, OldMailGone
<1> QED
  BY <1>1, Invariant, PTL

\* A clean-up that returns nil has left of the listed folders only INBOX, those users
\* have made meanwhile, and those above these.
THEOREM NilIsBare == Spec => []OldFoldersGone
<1>1. CInv => OldFoldersGone
  BY DEF CInv, Course, Folders, OldFoldersGone
<1> QED
  BY <1>1, Invariant, PTL

\* A clean-up fails only by a fault of the server or the connection, by the steps of
\* others, or by containers that have vanished before their turn.
THEOREM OrderIsRight == Spec => []FailsOnlyByFault
<1>1. CInv => FailsOnlyByFault
  BY DEF CInv, Types, Smooth, FailsOnlyByFault
<1> QED
  BY <1>1, Invariant, PTL

\* No step of the clean-up takes from INBOX a message that came after the UIDs of
\* INBOX were fetched.
THEOREM NewMailIsKept == Spec => NewInboxMailKept
<1>1. CInv /\ [Next]_vars =>
        [\A m \in In(Inbox) : at'[m] = 0 => m \in uids \cup touched' \cup old]_vars
  <2> SUFFICES ASSUME CInv, Next, NEW m \in In(Inbox), at'[m] = 0
               PROVE  m \in uids \cup touched' \cup old
    BY DEF vars
  <2> USE DEF mailbox, world, cleaner
  <2>1. at[m] = Inbox /\ m \in Msg /\ Inbox # 0 /\ at[m] # at'[m]
    BY CleanTargetAssumption DEF In
  <2>2. CASE Expunge
    BY <2>1, <2>2 DEF Expunge, Remove, Expunged, In, CInv, Flags
  <2>3. CASE DeleteFolder
    <3>1. pc = "delete" /\ todo # {} /\ (Delete(NextFolder) \/ at' = at)
      BY <2>3 DEF DeleteFolder
    <3>2. NextFolder \in Folder /\ NextFolder # Inbox
      BY <3>1, NextIsListed DEF CInv, Types
    <3> QED
      BY <2>1, <3>1, <3>2, DeleteDoes DEF CInv
  <2>4. ASSUME NEW n \in Msg, NEW f \in Folder, Deliver(n, f) PROVE FALSE
    BY <2>1, <2>4, CleanTargetAssumption DEF Deliver, CInv, Types
  <2>5. ASSUME NEW f \in Folder, RivalEmpties(f) PROVE m \in touched'
    BY <2>1, <2>5, RemoveFrom DEF RivalEmpties, In, CInv
  <2>6. ASSUME NEW f \in Folder, RivalDeletes(f) PROVE m \in touched'
    BY <2>1, <2>6, DeleteDoes DEF RivalDeletes, In, CInv
  <2>7. CASE Dial \/ ListFolders \/ FetchAll \/ MarkDeleted \/ FolderIsGone \/ Unselect
             \/ Finish \/ Close \/ Returned
    BY <2>1, <2>7 DEF Dial, ListFolders, FetchAll, MarkDeleted, FolderIsGone, Unselect,
                      Finish, Close, Returned, vars
  <2>8. ASSUME NEW f \in Folder, SelectFolder(f) \/ UserMakes(f) PROVE FALSE
    BY <2>1, <2>8 DEF SelectFolder, UserMakes
  <2>9. ASSUME NEW n \in Msg, UserFlags(n) PROVE FALSE
    BY <2>1, <2>9 DEF UserFlags
  <2> QED
    BY <2>2, <2>3, <2>4, <2>5, <2>6, <2>7, <2>8, <2>9 DEF Next
<1> QED
  BY <1>1, Invariant, PTL DEF Spec, NewInboxMailKept

-----------------------------------------------------------------------------
(* The clean-up comes to an end, whatever others do *)

\* The steps of the clean-up, and those of everybody else.
Own ==
  \/ Dial \/ ListFolders
  \/ \E f \in Folder : SelectFolder(f)
  \/ FetchAll \/ MarkDeleted \/ Expunge \/ FolderIsGone
  \/ Unselect \/ DeleteFolder \/ Finish \/ Close
Others ==
  \/ \E m \in Msg, f \in Folder : Deliver(m, f)
  \/ \E m \in Msg : UserFlags(m)
  \/ \E f \in Folder : UserMakes(f) \/ RivalEmpties(f) \/ RivalDeletes(f)

\* More than the steps it still has to take, at a place of it with k folders to come in the
\* current loop, n in all: four for each folder it empties, one for each it deletes.
LeftAt(place, k, n) ==
  CASE place = "dial" -> 5 * n + 5
    [] place = "list" -> 5 * n + 4
    [] place = "loop" -> 4 * k + n + 3
    [] place = "fetch" -> 4 * k + n + 6
    [] place = "mark" -> 4 * k + n + 5
    [] place = "expunge" -> 4 * k + n + 4
    [] place = "delete" -> k + 2
    [] place = "close" -> 1
    [] place = "returned" -> 0

Left == LeftAt(pc, Cardinality(todo), Cardinality(Folder))

Place == {"dial", "list", "loop", "fetch", "mark", "expunge", "delete", "close", "returned"}

\* It is a number, and never more than at the start, where a folder being emptied is
\* not to come any more.
LEMMA LeftAtIsNumber ==
  ASSUME NEW place \in Place, NEW k \in Nat, NEW n \in Nat, k <= n,
         place \in {"fetch", "mark", "expunge"} => k < n
  PROVE  LeftAt(place, k, n) \in 0..(5 * n + 5)
<1>1. LeftAt(place, k, n) >= 0 /\ LeftAt(place, k, n) <= 5 * n + 5
  BY DEF LeftAt, Place
<1>2. LeftAt(place, k, n) \in Int
  BY DEF LeftAt, Place
<1> QED
  BY <1>1, <1>2

\* A step from one place to the next makes it less.
LEMMA NextPlace ==
  ASSUME NEW place \in Place, NEW next \in Place,
         NEW k \in Nat, NEW l \in Nat, NEW n \in Nat, k <= n, l <= n,
         \/ place = "dial" /\ next \in {"list", "returned"}
         \/ place = "list" /\ next \in {"loop", "close"}
         \/ place = "loop" /\ next \in {"loop", "fetch"} /\ l = k - 1
         \/ place = "loop" /\ next \in {"delete", "close"}
         \/ place = "fetch" /\ next \in {"mark", "expunge", "close"} /\ l = k
         \/ place = "mark" /\ next \in {"expunge", "close"} /\ l = k
         \/ place = "expunge" /\ next \in {"loop", "close"} /\ l = k
         \/ place = "delete" /\ next = "delete" /\ l = k - 1
         \/ place = "delete" /\ next = "close"
         \/ place = "close" /\ next = "returned"
  PROVE  LeftAt(next, l, n) < LeftAt(place, k, n)
  BY DEF LeftAt, Place

\* Sets of folders have sizes.
LEMMA FolderSizes ==
  ASSUME NEW S \in SUBSET Folder
  PROVE  /\ Cardinality(S) \in Nat /\ Cardinality(S) <= Cardinality(Folder)
         /\ Cardinality(Folder) \in Nat
         /\ \A f \in S : Cardinality(S \ {f}) = Cardinality(S) - 1
         /\ \A f \in Folder \ S : Cardinality(S) < Cardinality(Folder)
<1>1. IsFiniteSet(Folder) /\ IsFiniteSet(S)
  BY CleanTargetAssumption, FS_Subset
<1>2. /\ Cardinality(S) \in Nat /\ Cardinality(Folder) \in Nat
      /\ Cardinality(S) <= Cardinality(Folder)
  BY <1>1, FS_Subset, FS_CardinalityType
<1>3. \A f \in S : Cardinality(S \ {f}) = Cardinality(S) - 1
  BY <1>1, FS_RemoveElement
<1>4. \A f \in Folder \ S : Cardinality(S) # Cardinality(Folder)
  BY <1>1, FS_Subset
<1> QED
  BY <1>2, <1>3, <1>4

\* A folder that is being emptied is not to come.
Current == pc \in {"fetch", "mark", "expunge"} => selected \in Folder \ todo

LEMMA CurrentHolds == ASSUME Types, Current, [Next]_vars PROVE Current'
<1> USE DEF Types, Current, mailbox, world, cleaner, Go, Fail, Refused
<1>1. CASE Dial \/ ListFolders \/ FetchAll \/ MarkDeleted \/ Expunge \/ FolderIsGone
  BY <1>1 DEF Dial, ListFolders, FetchAll, MarkDeleted, Expunge, FolderIsGone
<1>2. ASSUME NEW f \in Folder, SelectFolder(f) PROVE Current'
  BY <1>2 DEF SelectFolder
<1>3. CASE Unselect \/ DeleteFolder \/ Finish \/ Close
  BY <1>3 DEF Unselect, DeleteFolder, Finish, Close
<1>4. CASE Others \/ Returned \/ UNCHANGED vars
  <2>1. UNCHANGED <<pc, selected, todo>>
    BY <1>4 DEF Others, Deliver, UserFlags, UserMakes, RivalEmpties, RivalDeletes, Returned, vars
  <2> QED
    BY <2>1
<1> QED
  BY <1>1, <1>2, <1>3, <1>4 DEF Next, Others

\* Each step of the clean-up brings it nearer to its end: the lists it goes through are made
\* once, so folders and mail that come meanwhile do not prolong it.
LEMMA OwnGetsOn == ASSUME Types, Types', Course, Own PROVE Left' < Left
<1> DEFINE k == Cardinality(todo)
           n == Cardinality(Folder)
<1>1. /\ k \in Nat /\ k' \in Nat /\ n \in Nat /\ k <= n /\ k' <= n
      /\ pc \in Place /\ pc' \in Place
  <2>1. todo \in SUBSET Folder /\ todo' \in SUBSET Folder
    BY DEF Types
  <2> QED
    BY <2>1, FolderSizes DEF Types, Place
<1>2. \A f \in todo : Cardinality(todo \ {f}) = k - 1
  BY FolderSizes DEF Types
<1>3. \/ pc = "dial" /\ pc' \in {"list", "returned"}
      \/ pc = "list" /\ pc' \in {"loop", "close"}
      \/ pc = "loop" /\ pc' \in {"loop", "fetch"} /\ k' = k - 1
      \/ pc = "loop" /\ pc' \in {"delete", "close"}
      \/ pc = "fetch" /\ pc' \in {"mark", "expunge", "close"} /\ k' = k
      \/ pc = "mark" /\ pc' \in {"expunge", "close"} /\ k' = k
      \/ pc = "expunge" /\ pc' \in {"loop", "close"} /\ k' = k
      \/ pc = "delete" /\ pc' = "delete" /\ k' = k - 1
      \/ pc = "delete" /\ pc' = "close"
      \/ pc = "close" /\ pc' = "returned"
  <2> USE DEF Go, Fail, Refused
  <2>1. CASE Dial \/ ListFolders \/ Unselect \/ Finish \/ Close
    BY <2>1 DEF Dial, ListFolders, Unselect, Finish, Close
  <2>2. CASE FetchAll \/ MarkDeleted \/ Expunge \/ FolderIsGone
    BY <2>2 DEF FetchAll, MarkDeleted, Expunge, FolderIsGone
  <2>3. ASSUME NEW f \in Folder, SelectFolder(f)
        PROVE  pc = "loop" /\ ((pc' \in {"loop", "fetch"} /\ k' = k - 1) \/ pc' = "close")
    BY <1>2, <2>3 DEF SelectFolder
  <2>4. CASE DeleteFolder
    <3>1. pc = "delete" /\ NextFolder \in todo /\ todo' = todo \ {NextFolder} /\ pc' \in {"delete", "close"}
      BY <2>4, NextIsListed DEF DeleteFolder, Types
    <3> QED
      BY <1>2, <3>1
  <2> QED
    BY <2>1, <2>2, <2>3, <2>4 DEF Own
<1> HIDE DEF k, n
<1>4. LeftAt(pc', k', n) < LeftAt(pc, k, n)
  BY <1>1, <1>3, NextPlace
<1> QED
  BY <1>4 DEF Left, k, n

\* Nobody else changes what is left.
LEMMA OthersLeaveIt == ASSUME Others \/ Returned \/ UNCHANGED vars PROVE Left' = Left
<1>1. UNCHANGED <<pc, todo>>
  BY DEF Others, Deliver, UserFlags, UserMakes, RivalEmpties, RivalDeletes, Returned, vars, cleaner
<1> QED
  BY <1>1 DEF Left

\* A clean-up takes no more than 5 n + 5 calls for n folder names, however much mail is delivered,
\* and whatever folders are made meanwhile (runner.go, cleanTargetMailbox): each of its steps
\* leaves less to do, and nobody else adds to it.
THEOREM CallsAreBounded ==
  Spec => /\ [](Left \in 0..(5 * Cardinality(Folder) + 5))
          /\ [][(Own => Left' < Left) /\ (Others => Left' = Left)]_vars
<1> DEFINE GetsOn == (Own => Left' < Left) /\ (Others => Left' = Left)
<1>1. Types /\ Current => Left \in 0..(5 * Cardinality(Folder) + 5)
  <2> SUFFICES ASSUME Types, Current PROVE Left \in 0..(5 * Cardinality(Folder) + 5)
    OBVIOUS
  <2>1. todo \in SUBSET Folder
    BY DEF Types
  <2> QED
    BY <2>1, FolderSizes, LeftAtIsNumber DEF Types, Current, Place, Left
<1>2. Types /\ Types' /\ Course /\ [Next]_vars => [GetsOn]_vars
  BY OwnGetsOn, OthersLeaveIt
<1>3. Spec => []Types /\ []Course
  BY Invariant, PTL DEF CInv
<1>4. Init => Current
  BY DEF Init, Current
<1>5. Types /\ Current /\ [Next]_vars => Current'
  BY CurrentHolds
<1> QED
  BY <1>1, <1>2, <1>3, <1>4, <1>5, PTL DEF Spec

=============================================================================
