--------------------------- MODULE SyncStateProofs ---------------------------
(***************************************************************************)
(* Theorems about SyncState, for any number of mailboxes, folders, UIDs    *)
(* and operations.                                                         *)
(***************************************************************************)
EXTENDS SyncState, TLAPS

-----------------------------------------------------------------------------
(* The records the operations build *)

LEMMA NewFolderType == NewFolder \in FolderRec
  BY DEF NewFolder, FolderRec

\* A new mailbox is a mailbox record.
LEMMA NewMailboxType == NewMailbox \in MailboxRec
  BY DEF NewMailbox, MailboxRec

\* The empty state is a state.
LEMMA EmptyType == Empty \in State
  BY DEF Empty, State

\* getOrCreateMailbox and getOrCreateFolder return records.
LEMMA TheMailboxType ==
  ASSUME mailboxes \in State, NEW mb \in Mailbox
  PROVE  TheMailbox(mb) \in MailboxRec
  BY NewMailboxType DEF TheMailbox, HasMailbox, State

\* What is looked up is a folder record.
LEMMA TheFolderType ==
  ASSUME mailboxes \in State, NEW mb \in Mailbox, NEW f \in Folder
  PROVE  TheFolder(mb, f) \in FolderRec
<1>1. CASE HasFolder(mb, f)
  <2>1. mailboxes[mb] \in MailboxRec
    BY <1>1 DEF HasFolder, HasMailbox, State
  <2>2. mailboxes[mb].folders[f] \in FolderRec \cup {NoFolder}
    BY <2>1 DEF MailboxRec
  <2> QED BY <1>1, <2>2 DEF TheFolder, HasFolder
<1>2. CASE ~HasFolder(mb, f)
  BY <1>2, NewFolderType DEF TheFolder
<1> QED BY <1>1, <1>2

\* Writing a record back leaves a state.
LEMMA PutType ==
  ASSUME mailboxes \in State, NEW mb \in Mailbox, NEW ms \in MailboxRec, Put(mb, ms)
  PROVE  mailboxes' \in State
  BY DEF Put, State

\* What has a folder put in is a state.
LEMMA PutFolderType ==
  ASSUME mailboxes \in State, NEW mb \in Mailbox, NEW f \in Folder,
         NEW fs \in FolderRec, PutFolder(mb, f, fs)
  PROVE  mailboxes' \in State
<1>1. TheMailbox(mb) \in MailboxRec
  BY TheMailboxType
<1>2. [TheMailbox(mb) EXCEPT !.folders = [@ EXCEPT ![f] = fs]] \in MailboxRec
  BY <1>1 DEF MailboxRec
<1> QED BY <1>2, PutType DEF PutFolder

-----------------------------------------------------------------------------
(* What a write does to each folder record *)

\* PutFolder changes one folder record and no other.
LEMMA PutFolderFrame ==
  ASSUME mailboxes \in State, NEW mb \in Mailbox, NEW f \in Folder,
         NEW fs \in FolderRec, PutFolder(mb, f, fs),
         NEW x \in Mailbox, NEW g \in Folder
  PROVE  FolderOf(mailboxes', x, g) =
           IF x = mb /\ g = f THEN fs ELSE FolderOf(mailboxes, x, g)
<1> DEFINE ms == [TheMailbox(mb) EXCEPT !.folders = [@ EXCEPT ![f] = fs]]
<1>1. TheMailbox(mb) \in MailboxRec
  BY TheMailboxType
<1>2. /\ ms \in MailboxRec
      /\ ms.folders[g] = IF g = f THEN fs ELSE TheMailbox(mb).folders[g]
  BY <1>1 DEF MailboxRec
<1>3. mailboxes'[x] = IF x = mb THEN ms ELSE mailboxes[x]
  BY DEF PutFolder, Put, State
<1>4. ms # NoMailbox
  BY <1>2, SyncStateAssumption
<1>5. TheMailbox(mb).folders[g] = FolderOf(mailboxes, mb, g)
  BY DEF TheMailbox, HasMailbox, FolderOf, NewMailbox
<1> HIDE DEF ms
<1> QED BY <1>2, <1>3, <1>4, <1>5 DEF FolderOf

\* So does Put, given what it makes of each folder of the mailbox.
LEMMA PutFrame ==
  ASSUME mailboxes \in State, NEW mb \in Mailbox, NEW ms \in MailboxRec, Put(mb, ms),
         NEW x \in Mailbox, NEW g \in Folder
  PROVE  FolderOf(mailboxes', x, g) =
           IF x = mb THEN ms.folders[g] ELSE FolderOf(mailboxes, x, g)
<1>1. mailboxes'[x] = IF x = mb THEN ms ELSE mailboxes[x]
  BY DEF Put, State
<1>2. ms # NoMailbox
  BY SyncStateAssumption
<1> QED BY <1>1, <1>2 DEF FolderOf

\* The folders of a mailbox, looked up or new, are those of the state.
LEMMA TheMailboxFolders ==
  ASSUME NEW mb \in Mailbox, NEW g \in Folder
  PROVE  TheMailbox(mb).folders[g] = FolderOf(mailboxes, mb, g)
  BY DEF TheMailbox, HasMailbox, FolderOf, NewMailbox

\* A folder that is not there is looked up as a new one.
LEMMA TheFolderOf ==
  ASSUME NEW mb \in Mailbox, NEW f \in Folder
  PROVE  TheFolder(mb, f) =
           IF FolderOf(mailboxes, mb, f) = NoFolder THEN NewFolder
           ELSE FolderOf(mailboxes, mb, f)
  BY DEF TheFolder, HasFolder, HasMailbox, FolderOf

-----------------------------------------------------------------------------
(* What every operation does and leaves alone *)

Changes == /\ mailboxes' \in State
           /\ dirty' \in BOOLEAN
           /\ ~dirty' => ~dirty /\ mailboxes' = mailboxes
           /\ markedUnder' \subseteq Mailbox \X Folder \X UID \X (Validity \cup {0})
           /\ mappedUnder' \subseteq Mailbox \X Folder \X UID \X (Validity \cup {0})

\* Writing back what is there changes nothing.
LEMMA PutSame ==
  ASSUME mailboxes \in State, NEW mb \in Mailbox, HasMailbox(mb), Put(mb, TheMailbox(mb))
  PROVE  mailboxes' = mailboxes
  BY DEF Put, TheMailbox, State

\* Only the folder put in changes.
LEMMA PutFolderSame ==
  ASSUME mailboxes \in State, NEW mb \in Mailbox, NEW f \in Folder, HasFolder(mb, f),
         PutFolder(mb, f, TheFolder(mb, f))
  PROVE  mailboxes' = mailboxes
<1>1. mailboxes[mb] \in MailboxRec /\ TheMailbox(mb) = mailboxes[mb]
  BY DEF HasFolder, HasMailbox, TheMailbox, State
<1>2. [mailboxes[mb].folders EXCEPT ![f] = TheFolder(mb, f)] = mailboxes[mb].folders
  BY <1>1 DEF MailboxRec, TheFolder
<1>3. [TheMailbox(mb) EXCEPT !.folders = [@ EXCEPT ![f] = TheFolder(mb, f)]] = TheMailbox(mb)
  BY <1>1, <1>2 DEF MailboxRec
<1> QED BY <1>3, PutSame DEF PutFolder, HasFolder

\* An operation runs with the process up and no save under way, touches no
\* file, and sets dirty if it changes anything.
LEMMA OperationChanges ==
  ASSUME TypeOK, Operation
  PROVE  Edit /\ Changes
<1> USE DEF TypeOK, Changes, history
<1>1. ASSUME NEW mb \in Mailbox, GetMailbox(mb)
      PROVE  Edit /\ Changes
  <2>1. mailboxes' \in State
    BY <1>1, TheMailboxType, PutType DEF GetMailbox
  <2>2. /\ dirty' = (dirty \/ ~HasMailbox(mb))
        /\ HasMailbox(mb) => mailboxes' = mailboxes
    BY <1>1, PutSame DEF GetMailbox
  <2> QED BY <1>1, <2>1, <2>2 DEF GetMailbox
<1>2. ASSUME NEW mb \in Mailbox, UpdateMailboxLastSync(mb)
      PROVE  Edit /\ Changes
  <2>1. [TheMailbox(mb) EXCEPT !.stamped = TRUE] \in MailboxRec
    BY TheMailboxType DEF MailboxRec
  <2>2. mailboxes' \in State
    BY <1>2, <2>1, PutType DEF UpdateMailboxLastSync
  <2> QED BY <1>2, <2>2 DEF UpdateMailboxLastSync
<1>3. ASSUME NEW mb \in Mailbox, ClearMailbox(mb)
      PROVE  Edit /\ Changes
  <2>1. mailboxes' \in State
    BY <1>3, NewMailboxType, PutType DEF ClearMailbox
  <2> QED BY <1>3, <2>1 DEF ClearMailbox
<1>4. ASSUME NEW mb \in Mailbox, NEW f \in Folder, GetFolder(mb, f)
      PROVE  Edit /\ Changes
  <2>1. mailboxes' \in State
    BY <1>4, TheFolderType, PutFolderType DEF GetFolder
  <2>2. /\ dirty' = (dirty \/ ~HasFolder(mb, f))
        /\ HasFolder(mb, f) => mailboxes' = mailboxes
    BY <1>4, PutFolderSame DEF GetFolder
  <2> QED BY <1>4, <2>1, <2>2 DEF GetFolder
<1>5. ASSUME NEW mb \in Mailbox, NEW f \in Folder, ClearFolder(mb, f)
      PROVE  Edit /\ Changes
  <2>1. mailboxes' \in State
    BY <1>5, NewFolderType, PutFolderType DEF ClearFolder
  <2> QED BY <1>5, <2>1 DEF ClearFolder
<1>6. ASSUME NEW mb \in Mailbox, NEW f \in Folder, UpdateLastSync(mb, f)
      PROVE  Edit /\ Changes
  <2>1. /\ TheMailbox(mb) \in MailboxRec
        /\ [TheFolder(mb, f) EXCEPT !.stamped = TRUE] \in FolderRec
    BY TheMailboxType, TheFolderType DEF FolderRec
  <2>2. PICK ms \in MailboxRec : Put(mb, ms)
    BY <1>6, <2>1 DEF UpdateLastSync, MailboxRec
  <2>3. mailboxes' \in State
    BY <2>2, PutType
  <2> QED BY <1>6, <2>3 DEF UpdateLastSync
<1>7. ASSUME NEW mb \in Mailbox, NEW f \in Folder, NEW v \in Validity \cup {0},
             SetUIDValidity(mb, f, v)
      PROVE  Edit /\ Changes
  <2> DEFINE fs == TheFolder(mb, f)
  <2>1. fs \in FolderRec
    BY TheFolderType
  <2>2. PICK new \in FolderRec : PutFolder(mb, f, new) /\ (fs.validity = v => new = fs)
    BY <1>7, <2>1 DEF SetUIDValidity, FolderRec
  <2>3. mailboxes' \in State
    BY <2>2, PutFolderType
  <2>4. /\ dirty' = (dirty \/ ~HasFolder(mb, f) \/ fs.validity # v)
        /\ HasFolder(mb, f) /\ fs.validity = v => mailboxes' = mailboxes
    BY <1>7, <2>2, PutFolderSame DEF SetUIDValidity
  <2> QED BY <1>7, <2>3, <2>4 DEF SetUIDValidity
<1>8. ASSUME NEW mb \in Mailbox, NEW f \in Folder, NEW uids \in SUBSET UID,
             Edit, PutMarks(mb, f, uids)
      PROVE  Edit /\ Changes
  <2> DEFINE fs == TheFolder(mb, f)
  <2>1. fs \in FolderRec
    BY TheFolderType
  <2>2. PICK h \in uids \cup {fs.highest} :
          PutFolder(mb, f, [fs EXCEPT !.synced = @ \cup uids, !.highest = h])
    BY <1>8 DEF PutMarks
  <2>3. [fs EXCEPT !.synced = @ \cup uids, !.highest = h] \in FolderRec
    BY <2>1 DEF FolderRec
  <2>4. mailboxes' \in State
    BY <2>2, <2>3, PutFolderType
  <2>5. {<<mb, f, u, fs.validity>> : u \in uids}
          \subseteq Mailbox \X Folder \X UID \X (Validity \cup {0})
    BY <2>1 DEF FolderRec
  <2> QED BY <1>8, <2>4, <2>5 DEF PutMarks
<1>9. ASSUME NEW mb \in Mailbox, NEW f \in Folder, NEW u \in UID,
             SetUIDMapping(mb, f, u)
      PROVE  Edit /\ Changes
  <2>1. [TheFolder(mb, f) EXCEPT !.mapped = @ \cup {u}] \in FolderRec
    BY TheFolderType DEF FolderRec
  <2>2. mailboxes' \in State
    BY <1>9, <2>1, PutFolderType DEF SetUIDMapping
  <2>3. <<mb, f, u, TheFolder(mb, f).validity>> \in Mailbox \X Folder \X UID \X (Validity \cup {0})
    BY TheFolderType DEF FolderRec
  <2> QED BY <1>9, <2>2, <2>3 DEF SetUIDMapping
<1> HIDE DEF TypeOK, Changes, history
<1> QED
  BY <1>1, <1>2, <1>3, <1>4, <1>5, <1>6, <1>7, <1>8, <1>9
  DEF Operation, MarkSynced, MarkMultipleSynced

-----------------------------------------------------------------------------
(* Types and persistence *)

\* A save publishes what it wrote, a process that is down has nothing, and none
\* comes up over a foreign file: what TypeOK and CleanMeansPersisted rest on.
Saving ==
  /\ phase = "written" => tmp = mailboxes
  /\ phase = "down" => mailboxes = Empty /\ ~dirty
  /\ phase # "down" => file # Foreign
  /\ CleanMeansPersisted

IInv == TypeOK /\ Saving

\* It holds at the start.
LEMMA InitInv == Init => IInv
<1> SUFFICES ASSUME Init PROVE IInv
  OBVIOUS
<1>1. edits \in 0..MaxEdits
  BY SyncStateAssumption DEF Init
<1>2. TypeOK
  BY <1>1, EmptyType DEF Init, TypeOK
<1>3. Saving
  BY DEF Init, Saving, CleanMeansPersisted
<1> QED BY <1>2, <1>3 DEF IInv

\* Every step keeps it.
LEMMA NextInv == IInv /\ [Next]_vars => IInv'
<1> SUFFICES ASSUME IInv, [Next]_vars PROVE IInv'
  OBVIOUS
<1> USE DEF IInv, disk, history
<1>1. CASE UNCHANGED vars
  BY <1>1 DEF vars, TypeOK, Saving, CleanMeansPersisted
<1>2. CASE Load
  <2>1. TypeOK'
    BY <1>2, EmptyType DEF Load, Nowhere, TypeOK
  <2>2. Saving'
    BY <1>2, SyncStateAssumption
    DEF Load, Nowhere, TypeOK, Saving, CleanMeansPersisted
  <2> QED BY <2>1, <2>2
<1>3. CASE Crash
  <2>1. TypeOK'
    BY <1>3, EmptyType DEF Crash, TypeOK
  <2>2. Saving'
    BY <1>3 DEF Crash, Saving, CleanMeansPersisted
  <2> QED BY <2>1, <2>2
<1>4. CASE Operation
  <2>1. Edit /\ Changes
    BY <1>4, OperationChanges
  <2>2. edits' \in 0..MaxEdits
    BY <2>1, SyncStateAssumption DEF Edit, TypeOK
  <2>3. TypeOK'
    BY <2>1, <2>2 DEF Edit, Changes, TypeOK
  <2>4. Saving'
    BY <2>1 DEF Edit, Changes, Saving, CleanMeansPersisted
  <2> QED BY <2>3, <2>4
<1>5. CASE BeginSave
  BY <1>5 DEF BeginSave, TypeOK, Saving, CleanMeansPersisted
<1>6. CASE WriteCompletes
  BY <1>6 DEF WriteCompletes, TypeOK, Saving, CleanMeansPersisted
<1>7. CASE WriteFails
  BY <1>7 DEF WriteFails, TypeOK, Saving, CleanMeansPersisted
<1>8. CASE Rename
  <2>1. mailboxes # Foreign
    BY SyncStateAssumption DEF TypeOK, Nowhere
  <2> QED BY <1>8, <2>1 DEF Rename, TypeOK, Saving, CleanMeansPersisted
<1>9. CASE RenameFails
  BY <1>9 DEF RenameFails, TypeOK, Saving, CleanMeansPersisted
<1> QED
  BY <1>1, <1>2, <1>3, <1>4, <1>5, <1>6, <1>7, <1>8, <1>9 DEF Next, Save

\* So it always holds.
LEMMA InvHolds == Spec => []IInv
  BY InitInv, NextInv, PTL DEF Spec

\* Every variable has its type: in particular the state file is at any time
\* absent, foreign, or a whole state, never a torn one.
THEOREM TypeCorrect == Spec => []TypeOK
<1>1. IInv => TypeOK
  BY DEF IInv
<1> QED BY <1>1, InvHolds, PTL

\* A state that is not dirty is what a restart loads (state.go, store.go): the
\* flag is never cleared by anything but a completed save, and no operation
\* changes the state without setting it.
THEOREM CleanIsPersisted == Spec => []CleanMeansPersisted
<1>1. IInv => CleanMeansPersisted
  BY DEF IInv, Saving
<1> QED BY <1>1, InvHolds, PTL

\* The state file only ever changes to the state in memory as a whole: a save
\* is atomic (saveUnlocked), whatever failed or crashed before it.
THEOREM SaveIsAtomic == Spec => PublishesCurrent
<1>1. IInv /\ [Next]_vars => [file' # file => file' = mailboxes]_vars
  <2> SUFFICES ASSUME IInv, Next PROVE file' # file => file' = mailboxes
    OBVIOUS
  <2>1. CASE Operation
    BY <2>1, OperationChanges DEF IInv, Edit, disk
  <2> QED
    BY <2>1 DEF Next, Load, Crash, Save, BeginSave, WriteCompletes, WriteFails, Rename,
                RenameFails, IInv, Saving
<1> QED BY <1>1, InvHolds, PTL DEF Spec, PublishesCurrent

\* The state and its file are what StateStore describes: each step of a save but the
\* rename leaves the store as it is, and so does a Load that fails; the rename is Save
\* (store.go, saveUnlocked and Load).
THEOREM StateIsStore == Spec => StoreKept
<1>1. Init => Store!Init
  BY DEF Init, Store!Init, Store!NoProcess
<1>2. IInv /\ [Next]_vars => [Store!Next]_(Store!vars)
  <2> SUFFICES ASSUME IInv, [Next]_vars PROVE Store!Next \/ UNCHANGED Store!vars
    OBVIOUS
  <2> USE DEF IInv, Store!vars, disk
  <2>1. CASE Load
    <3>1. file \in State \cup {NoFile, Foreign} /\ Torn \notin State \cup {NoFile, Foreign}
      BY SyncStateAssumption DEF TypeOK, Nowhere
    <3>2. NoFile \notin State /\ Foreign \notin State /\ NoFile # Foreign
      BY SyncStateAssumption DEF Nowhere
    <3>3. CASE UNCHANGED <<mailboxes, phase>>
      BY <2>1, <3>3 DEF Load
    <3>4. CASE ~UNCHANGED <<mailboxes, phase>>
      <4>1. /\ phase = "down" /\ phase' = "up" /\ file \in State \cup {NoFile}
            /\ mailboxes' = IF file = NoFile THEN Empty ELSE file
        BY <2>1, <3>1, <3>2, <3>4 DEF Load, Nowhere
      <4>2. UNCHANGED <<dirty, file>>
        BY <2>1 DEF Load
      <4>3. ~(phase # "down") /\ (phase' # "down") = TRUE /\ file # Foreign
        BY <3>2, <4>1
      <4> QED
        BY <4>1, <4>2, <4>3, Zenon DEF Store!Load, Store!Next
    <3> QED
      BY <3>3, <3>4
  <2>2. CASE Crash
    <3>1. phase' = "down" /\ mailboxes' = Empty /\ file' = file
      BY <2>2 DEF Crash
    <3>2. dirty' = FALSE
      BY <2>2 DEF Crash
    <3> QED
      BY <3>1, <3>2 DEF Store!Next, Store!End, Store!NoProcess
  <2>3. CASE Operation
    <3>1. Edit /\ Changes
      BY <2>3, OperationChanges
    <3>2. CASE dirty'
      <4>1. dirty' = TRUE
        BY <3>2
      <4> QED
        BY <3>1, <4>1 DEF Edit, Changes, Store!Change, Store!Next
    <3>3. CASE ~dirty'
      <4>1. dirty' = dirty
        BY <3>1, <3>3, Zenon DEF Changes, TypeOK
      <4>2. mailboxes' = mailboxes
        BY <3>1, <3>3 DEF Changes
      <4> QED
        BY <3>1, <4>1, <4>2 DEF Edit
    <3> QED
      BY <3>2, <3>3
  <2>4. CASE BeginSave
    BY <2>4 DEF BeginSave
  <2>5. CASE WriteCompletes
    BY <2>5 DEF WriteCompletes
  <2>6. CASE WriteFails
    BY <2>6 DEF WriteFails
  <2>7. CASE Rename
    BY <2>7 DEF Rename, Saving, Store!Save, Store!Next
  <2>8. CASE RenameFails
    <3>1. phase # "down" /\ phase' # "down"
      BY <2>8 DEF RenameFails
    <3>2. UNCHANGED <<mailboxes, dirty, file>>
      BY <2>8 DEF RenameFails
    <3> QED
      BY <3>1, <3>2
  <2>9. CASE UNCHANGED vars
    BY <2>9 DEF vars
  <2> QED
    BY <2>1, <2>2, <2>3, <2>4, <2>5, <2>6, <2>7, <2>8, <2>9 DEF Next, Save
<1> QED BY <1>1, <1>2, InvHolds, PTL DEF Spec, StoreKept, Store!Spec

\* A state file of a newer version, or one that does not parse, is never
\* overwritten: Load refuses it, and nothing is saved without a Load.
THEOREM ForeignFileKept == Spec => ForeignKept
<1>1. IInv /\ [Next]_vars => [file = Foreign => file' = Foreign]_vars
  <2> SUFFICES ASSUME IInv, Next, file = Foreign PROVE file' = Foreign
    OBVIOUS
  <2>1. CASE Operation
    BY <2>1, OperationChanges DEF IInv, Edit, disk
  <2> QED
    BY <2>1 DEF Next, Load, Crash, Save, BeginSave, WriteCompletes, WriteFails, Rename,
                RenameFails, IInv, Saving
<1> QED BY <1>1, InvHolds, PTL DEF Spec, ForeignKept
-----------------------------------------------------------------------------
(* The content of the folder records: HighestIsMax and MarksHonoured *)

\* What the two say of one folder record.
Good(mb, f, fs, marks) ==
  /\ fs.highest \in fs.synced \cup {0}
  /\ \A u \in fs.synced : u <= fs.highest
  /\ \A u \in fs.synced : \E v \in {0, fs.validity} : <<mb, f, u, v>> \in marks

AllGood(st, marks) ==
  \A mb \in Mailbox, f \in Folder :
    FolderOf(st, mb, f) # NoFolder => Good(mb, f, FolderOf(st, mb, f), marks)

\* AllGood is the two properties together.
LEMMA AllGoodMeans ==
  ASSUME NEW st, NEW marks
  PROVE  AllGood(st, marks) <=> HighestOK(st) /\ MarksOK(st, marks)
  BY DEF AllGood, Good, HighestOK, MarksOK

\* Marks are only ever added to the history.
LEMMA GoodMonotone ==
  ASSUME NEW mb, NEW f, NEW fs, NEW marks, NEW more, marks \subseteq more,
         Good(mb, f, fs, marks)
  PROVE  Good(mb, f, fs, more)
  BY DEF Good

\* More marks made, no fewer good folders.
LEMMA AllGoodMonotone ==
  ASSUME NEW st, NEW marks, NEW more, marks \subseteq more, AllGood(st, marks)
  PROVE  AllGood(st, more)
  BY GoodMonotone DEF AllGood

\* A new folder has no marks.
LEMMA NewFolderGood ==
  ASSUME NEW mb, NEW f, NEW marks
  PROVE  Good(mb, f, NewFolder, marks)
  BY DEF Good, NewFolder

\* What is looked up in a good state is good.
LEMMA TheFolderGood ==
  ASSUME AllGood(mailboxes, markedUnder), NEW mb \in Mailbox, NEW f \in Folder
  PROVE  Good(mb, f, TheFolder(mb, f), markedUnder)
  BY TheFolderOf, NewFolderGood DEF AllGood

\* A good record in place of one folder's keeps all records good.
LEMMA PutFolderGood ==
  ASSUME mailboxes \in State, AllGood(mailboxes, markedUnder),
         markedUnder \subseteq markedUnder',
         NEW mb \in Mailbox, NEW f \in Folder, NEW fs \in FolderRec,
         PutFolder(mb, f, fs), Good(mb, f, fs, markedUnder')
  PROVE  AllGood(mailboxes', markedUnder')
<1> SUFFICES ASSUME NEW x \in Mailbox, NEW g \in Folder,
                    FolderOf(mailboxes', x, g) # NoFolder
             PROVE  Good(x, g, FolderOf(mailboxes', x, g), markedUnder')
  BY DEF AllGood
<1>1. FolderOf(mailboxes', x, g) =
        IF x = mb /\ g = f THEN fs ELSE FolderOf(mailboxes, x, g)
  BY PutFolderFrame
<1> QED BY <1>1, GoodMonotone DEF AllGood

\* So does a mailbox record with the folders there were, or none, or good ones.
LEMMA PutGood ==
  ASSUME mailboxes \in State, AllGood(mailboxes, markedUnder),
         UNCHANGED markedUnder,
         NEW mb \in Mailbox, NEW ms \in MailboxRec, Put(mb, ms),
         \A g \in Folder : \/ ms.folders[g] = NoFolder
                           \/ ms.folders[g] = FolderOf(mailboxes, mb, g)
                           \/ Good(mb, g, ms.folders[g], markedUnder)
  PROVE  AllGood(mailboxes', markedUnder')
<1> SUFFICES ASSUME NEW x \in Mailbox, NEW g \in Folder,
                    FolderOf(mailboxes', x, g) # NoFolder
             PROVE  Good(x, g, FolderOf(mailboxes', x, g), markedUnder)
  BY DEF AllGood
<1>1. FolderOf(mailboxes', x, g) =
        IF x = mb THEN ms.folders[g] ELSE FolderOf(mailboxes, x, g)
  BY PutFrame
<1> QED BY <1>1 DEF AllGood

\* An operation of the store keeps a good state good.
LEMMA OperationGood ==
  ASSUME TypeOK, AllGood(mailboxes, markedUnder), Operation
  PROVE  markedUnder \subseteq markedUnder' /\ AllGood(mailboxes', markedUnder')
<1> USE DEF TypeOK, history
<1> DEFINE Goal == markedUnder \subseteq markedUnder' /\ AllGood(mailboxes', markedUnder')
<1>1. ASSUME NEW mb \in Mailbox,
             GetMailbox(mb) \/ UpdateMailboxLastSync(mb) \/ ClearMailbox(mb)
      PROVE  Goal
  <2>1. UNCHANGED markedUnder
    BY <1>1 DEF GetMailbox, UpdateMailboxLastSync, ClearMailbox
  <2> DEFINE stamped == [TheMailbox(mb) EXCEPT !.stamped = TRUE]
  <2>2. /\ TheMailbox(mb) \in MailboxRec
        /\ stamped \in MailboxRec /\ stamped.folders = TheMailbox(mb).folders
        /\ NewMailbox \in MailboxRec
        /\ \A g \in Folder : NewMailbox.folders[g] = NoFolder
    BY TheMailboxType, NewMailboxType DEF MailboxRec, NewMailbox
  <2>3. PICK ms \in {TheMailbox(mb), stamped, NewMailbox} : Put(mb, ms)
    BY <1>1 DEF GetMailbox, UpdateMailboxLastSync, ClearMailbox
  <2> HIDE DEF stamped
  <2>4. \A g \in Folder : \/ ms.folders[g] = NoFolder
                          \/ ms.folders[g] = FolderOf(mailboxes, mb, g)
    BY <2>2, TheMailboxFolders
  <2>5. AllGood(mailboxes', markedUnder')
    BY <2>1, <2>2, <2>3, <2>4, PutGood
  <2> QED BY <2>1, <2>5
<1>2. ASSUME NEW mb \in Mailbox, NEW f \in Folder, GetFolder(mb, f) \/ ClearFolder(mb, f)
      PROVE  Goal
  <2>1. UNCHANGED markedUnder
    BY <1>2 DEF GetFolder, ClearFolder
  <2>2. PICK fs \in {TheFolder(mb, f), NewFolder} : PutFolder(mb, f, fs)
    BY <1>2 DEF GetFolder, ClearFolder
  <2>3. fs \in FolderRec /\ Good(mb, f, fs, markedUnder)
    BY TheFolderType, NewFolderType, TheFolderGood, NewFolderGood
  <2> QED BY <2>1, <2>2, <2>3, PutFolderGood
<1>3. ASSUME NEW mb \in Mailbox, NEW f \in Folder, UpdateLastSync(mb, f)
      PROVE  Goal
  <2> DEFINE fs == [TheFolder(mb, f) EXCEPT !.stamped = TRUE]
             ms == [folders |-> [TheMailbox(mb).folders EXCEPT ![f] = fs], stamped |-> TRUE]
  <2>1. UNCHANGED markedUnder /\ Put(mb, ms)
    BY <1>3 DEF UpdateLastSync
  <2>2. fs \in FolderRec /\ Good(mb, f, fs, markedUnder)
    <3>1. TheFolder(mb, f) \in FolderRec /\ Good(mb, f, TheFolder(mb, f), markedUnder)
      BY TheFolderType, TheFolderGood
    <3>2. fs \in FolderRec
      BY <3>1 DEF FolderRec
    <3>3. /\ fs.synced = TheFolder(mb, f).synced /\ fs.highest = TheFolder(mb, f).highest
          /\ fs.validity = TheFolder(mb, f).validity
      BY <3>1 DEF FolderRec
    <3> QED BY <3>1, <3>2, <3>3 DEF Good
  <2> HIDE DEF fs
  <2>3. ms \in MailboxRec
    BY <2>2, TheMailboxType DEF MailboxRec
  <2>4. ASSUME NEW g \in Folder
        PROVE  ms.folders[g] = IF g = f THEN fs ELSE FolderOf(mailboxes, mb, g)
    BY TheMailboxType, TheMailboxFolders DEF MailboxRec
  <2> HIDE DEF ms
  <2>5. \A g \in Folder : \/ ms.folders[g] = FolderOf(mailboxes, mb, g)
                          \/ Good(mb, g, ms.folders[g], markedUnder)
    BY <2>2, <2>4
  <2>6. AllGood(mailboxes', markedUnder')
    BY <2>1, <2>3, <2>5, PutGood
  <2> QED BY <2>1, <2>6
<1>4. ASSUME NEW mb \in Mailbox, NEW f \in Folder, NEW v \in Validity \cup {0},
             SetUIDValidity(mb, f, v)
      PROVE  Goal
  <2> DEFINE fs == TheFolder(mb, f)
  <2>1. fs \in FolderRec /\ Good(mb, f, fs, markedUnder)
    BY TheFolderType, TheFolderGood
  <2>2. UNCHANGED markedUnder
    BY <1>4 DEF SetUIDValidity
  <2>3. CASE fs.validity # 0 /\ fs.validity # v
    <3> DEFINE new == [fs EXCEPT !.validity = v, !.synced = {}, !.highest = 0,
                                 !.stamped = FALSE]
    <3>1. new \in FolderRec /\ Good(mb, f, new, markedUnder)
      BY <2>1 DEF FolderRec, Good
    <3>2. PutFolder(mb, f, new)
      BY <1>4, <2>3 DEF SetUIDValidity
    <3> QED BY <2>2, <3>1, <3>2, PutFolderGood
  <2>4. CASE ~(fs.validity # 0 /\ fs.validity # v)
    <3> DEFINE new == [fs EXCEPT !.validity = v]
    <3>1. new \in FolderRec /\ Good(mb, f, new, markedUnder)
      BY <2>1, <2>4 DEF FolderRec, Good
    <3>2. PutFolder(mb, f, new)
      BY <1>4, <2>4 DEF SetUIDValidity
    <3> QED BY <2>2, <3>1, <3>2, PutFolderGood
  <2> QED BY <2>3, <2>4
<1>5. ASSUME NEW mb \in Mailbox, NEW f \in Folder, NEW uids \in SUBSET UID,
             PutMarks(mb, f, uids)
      PROVE  Goal
  <2> DEFINE fs == TheFolder(mb, f)
  <2>1. fs \in FolderRec /\ Good(mb, f, fs, markedUnder)
    BY TheFolderType, TheFolderGood
  <2>2. markedUnder' = markedUnder \cup {<<mb, f, u, fs.validity>> : u \in uids}
    BY <1>5 DEF PutMarks
  <2>3. PICK h \in uids \cup {fs.highest} :
          /\ \A u \in uids \cup {fs.highest} : u <= h
          /\ PutFolder(mb, f, [fs EXCEPT !.synced = @ \cup uids, !.highest = h])
    BY <1>5 DEF PutMarks
  <2> DEFINE new == [fs EXCEPT !.synced = @ \cup uids, !.highest = h]
  <2>4. /\ new \in FolderRec
        /\ new.synced = fs.synced \cup uids /\ new.highest = h
        /\ new.validity = fs.validity
    BY <2>1 DEF FolderRec
  <2>5. PutFolder(mb, f, new)
    BY <2>3
  <2> HIDE DEF new
  <2>6. Good(mb, f, new, markedUnder')
    <3>1. new.highest \in new.synced \cup {0}
      BY <2>1, <2>3, <2>4 DEF Good
    <3>2. ASSUME NEW u \in new.synced PROVE u <= new.highest
      <4>1. u \in Nat /\ h \in Nat /\ fs.highest \in Nat
        BY <2>1, <2>3, <2>4, SyncStateAssumption DEF FolderRec
      <4>2. u \in fs.synced => u <= fs.highest
        BY <2>1 DEF Good
      <4>3. fs.highest <= h /\ (u \in uids => u <= h)
        BY <2>3
      <4> QED BY <2>4, <4>1, <4>2, <4>3
    <3>3. ASSUME NEW u \in new.synced
          PROVE  \E v \in {0, new.validity} : <<mb, f, u, v>> \in markedUnder'
      BY <2>1, <2>2, <2>4 DEF Good
    <3> QED BY <3>1, <3>2, <3>3 DEF Good
  <2>7. AllGood(mailboxes', markedUnder')
    BY <2>2, <2>4, <2>5, <2>6, PutFolderGood
  <2> QED BY <2>2, <2>7
<1>6. ASSUME NEW mb \in Mailbox, NEW f \in Folder, NEW u \in UID,
             SetUIDMapping(mb, f, u)
      PROVE  Goal
  <2> DEFINE new == [TheFolder(mb, f) EXCEPT !.mapped = @ \cup {u}]
  <2>1. UNCHANGED markedUnder /\ PutFolder(mb, f, new)
    BY <1>6 DEF SetUIDMapping
  <2>2. new \in FolderRec /\ Good(mb, f, new, markedUnder)
    BY TheFolderType, TheFolderGood DEF FolderRec, Good
  <2> QED BY <2>1, <2>2, PutFolderGood
<1> HIDE DEF TypeOK, history
<1> QED
  BY <1>1, <1>2, <1>3, <1>4, <1>5, <1>6
  DEF Operation, MarkSynced, MarkMultipleSynced

\* The records are good in memory and in the file a process may load.
GoodInv == AllGood(mailboxes, markedUnder) /\ (file \in State => AllGood(file, markedUnder))

\* The empty state has no marks.
LEMMA EmptyGood == ASSUME NEW marks PROVE AllGood(Empty, marks)
  BY DEF AllGood, FolderOf, Empty

\* So memory, file and temporary file stay good.
LEMMA GoodInvHolds == Spec => []GoodInv
<1>1. Init => GoodInv
  BY EmptyGood, SyncStateAssumption DEF Init, GoodInv, Nowhere
<1>2. IInv /\ GoodInv /\ [Next]_vars => GoodInv'
  <2> SUFFICES ASSUME IInv, GoodInv, [Next]_vars PROVE GoodInv'
    OBVIOUS
  <2> USE DEF GoodInv, disk, history
  <2>1. CASE UNCHANGED vars
    BY <2>1 DEF vars
  <2>2. CASE Load
    BY <2>2, EmptyGood DEF Load, Nowhere, IInv, TypeOK
  <2>3. CASE Crash
    BY <2>3, EmptyGood DEF Crash
  <2>4. CASE Operation
    <3>1. markedUnder \subseteq markedUnder' /\ AllGood(mailboxes', markedUnder')
      BY <2>4, OperationGood DEF IInv
    <3>2. file' = file
      BY <2>4, OperationChanges DEF IInv, Edit, disk
    <3> QED BY <3>1, <3>2, AllGoodMonotone
  <2>5. CASE Save
    BY <2>5 DEF Save, BeginSave, WriteCompletes, WriteFails, Rename, RenameFails, IInv,
                Saving
  <2> QED BY <2>1, <2>2, <2>3, <2>4, <2>5 DEF Next
<1> QED BY <1>1, <1>2, InvHolds, PTL DEF Spec

\* HighestUID stays the greatest marked UID, for every UID set and through
\* every reset, crash and reload (MarkSynced, SetUIDValidity, ClearFolder).
THEOREM HighestCorrect == Spec => []HighestIsMax
<1>1. GoodInv => HighestIsMax
  BY AllGoodMeans DEF GoodInv, HighestIsMax
<1> QED BY <1>1, GoodInvHolds, PTL

\* No mark made under another UID validity is ever honoured (SetUIDValidity).
THEOREM MarksCorrect == Spec => []MarksHonoured
<1>1. GoodInv => MarksHonoured
  BY AllGoodMeans DEF GoodInv, MarksHonoured
<1> QED BY <1>1, GoodInvHolds, PTL
=============================================================================
