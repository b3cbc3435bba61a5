------------------------------ MODULE SyncState ------------------------------
(***************************************************************************)
(* The sync state (internal/state): the record of what has been copied,    *)
(* kept in memory behind a lock, saved to a JSON file by way of a          *)
(* temporary file and a rename, and loaded by the next process.  Every     *)
(* operation holds the lock, a save for its whole length; the process may  *)
(* die between any two system calls.                                       *)
(*                                                                         *)
(* Times are kept as "set or not": stamped stands for LastSync, with       *)
(* SyncCount, which always changes along with it.  The target UIDs in      *)
(* UIDMap are abstracted away: mapped is its domain.  UIDs are positive,   *)
(* for the operations reject 0.  Validities are what the server says; 0 is *)
(* read as "not set", which is also what a new folder has.                 *)
(***************************************************************************)
EXTENDS Naturals

CONSTANTS
  Mailbox,            \* mailbox names in the configuration
  Folder,             \* folder names
  UID,                \* message UIDs
  Validity,           \* UIDVALIDITY values, besides 0, that the source may announce
  NoMailbox, NoFolder,\* no entry in a map
  NoFile, Torn,       \* no such file; a file cut off in the middle
  Foreign,            \* a state file this version cannot read
  MaxEdits            \* bound on the operations that change the state

Nowhere == {NoFile, Torn, Foreign}

FolderRec == [validity : Validity \cup {0}, synced : SUBSET UID,
              highest : UID \cup {0}, stamped : BOOLEAN, mapped : SUBSET UID]
MailboxRec == [folders : [Folder -> FolderRec \cup {NoFolder}], stamped : BOOLEAN]
State == [Mailbox -> MailboxRec \cup {NoMailbox}]

ASSUME SyncStateAssumption ==
  /\ UID \subseteq Nat \ {0} /\ Validity \subseteq Nat \ {0}
  /\ NoMailbox \notin MailboxRec /\ NoFolder \notin FolderRec
  /\ Nowhere \cap State = {}
  /\ NoFile # Torn /\ NoFile # Foreign /\ Torn # Foreign
  /\ MaxEdits \in Nat

VARIABLES
  mailboxes, dirty,   \* State.mailboxes, State.dirty
  phase,              \* "down", "up", or in a save: "writing", "written"
  file, tmp,          \* the state file and its .tmp
  markedUnder,        \* history: <<mailbox, folder, uid, validity>> of each mark
  mappedUnder,        \* history: the same of each mapping
  edits

disk    == <<phase, file, tmp>>
history == <<markedUnder, mappedUnder>>

vars == <<mailboxes, dirty, disk, history, edits>>

Empty == [mb \in Mailbox |-> NoMailbox]
NewMailbox == [folders |-> [f \in Folder |-> NoFolder], stamped |-> FALSE]
NewFolder == [validity |-> 0, synced |-> {}, highest |-> 0, stamped |-> FALSE,
              mapped |-> {}]

\* getOrCreateMailbox, getOrCreateFolder: the entry, or what they create.
HasMailbox(mb) == mailboxes[mb] # NoMailbox
TheMailbox(mb) == IF HasMailbox(mb) THEN mailboxes[mb] ELSE NewMailbox
HasFolder(mb, f) == HasMailbox(mb) /\ mailboxes[mb].folders[f] # NoFolder
TheFolder(mb, f) == IF HasFolder(mb, f) THEN mailboxes[mb].folders[f] ELSE NewFolder

Put(mb, ms) == mailboxes' = [mailboxes EXCEPT ![mb] = ms]
PutFolder(mb, f, fs) ==
  Put(mb, [TheMailbox(mb) EXCEPT !.folders = [@ EXCEPT ![f] = fs]])

-----------------------------------------------------------------------------
Init ==
  /\ mailboxes = Empty /\ dirty = FALSE /\ phase = "down"
  /\ file \in {NoFile, Foreign} /\ tmp \in {NoFile, Torn}
  /\ markedUnder = {} /\ mappedUnder = {} /\ edits = 0

\* An operation that changes the state, with the lock held.
Edit == phase = "up" /\ edits < MaxEdits /\ edits' = edits + 1 /\ UNCHANGED disk

-----------------------------------------------------------------------------
(* Load, and the end of a process *)

\* Variant with a bug: what cannot be read is taken for an empty state.
LoadForgiving ==
  /\ phase = "down"
  /\ tmp' \in {tmp, NoFile}
  /\ mailboxes' = IF file \in Nowhere THEN Empty ELSE file
  /\ phase' = "up"
  /\ UNCHANGED <<dirty, file, history, edits>>

\* Remove the .tmp (if that works), read the file.
Load ==
  /\ phase = "down"
  /\ tmp' \in {tmp, NoFile}
  /\ \/ file = NoFile /\ mailboxes' = Empty /\ phase' = "up"
     \/ file \notin Nowhere /\ mailboxes' = file /\ phase' = "up"
     \/ file # NoFile /\ UNCHANGED <<mailboxes, phase>>
  /\ UNCHANGED <<dirty, file, history, edits>>

\* The process ends or is killed, in a save or out of it.
Crash ==
  /\ phase # "down"
  /\ phase' = "down"
  /\ mailboxes' = Empty /\ dirty' = FALSE
  /\ UNCHANGED <<file, tmp, history, edits>>

-----------------------------------------------------------------------------
(* Operations on the state *)

GetMailbox(mb) ==
  /\ Edit
  /\ Put(mb, TheMailbox(mb))
  /\ dirty' = (dirty \/ ~HasMailbox(mb))
  /\ UNCHANGED history

GetFolder(mb, f) ==
  /\ Edit
  /\ PutFolder(mb, f, TheFolder(mb, f))
  /\ dirty' = (dirty \/ ~HasFolder(mb, f))
  /\ UNCHANGED history

\* Variant with a bug: the marks outlive a change of validity.
SetUIDValidityKeepsMarks(mb, f, v) ==
  LET fs == TheFolder(mb, f)
  IN  /\ Edit
      /\ PutFolder(mb, f, [fs EXCEPT !.validity = v])
      /\ dirty' = (dirty \/ ~HasFolder(mb, f) \/ fs.validity # v)
      /\ UNCHANGED history

\* Variant with a bug: the reset forgets HighestUID.
SetUIDValidityKeepsHighest(mb, f, v) ==
  LET fs == TheFolder(mb, f)
      changed == fs.validity # 0 /\ fs.validity # v
  IN  /\ Edit
      /\ PutFolder(mb, f, [fs EXCEPT !.validity = v,
                                     !.synced = IF changed THEN {} ELSE @])
      /\ dirty' = (dirty \/ ~HasFolder(mb, f) \/ fs.validity # v)
      /\ UNCHANGED history

\* A first validity is taken over; another one resets the folder.
SetUIDValidity(mb, f, v) ==
  LET fs == TheFolder(mb, f)
      changed == fs.validity # 0 /\ fs.validity # v
  IN  /\ Edit
      /\ PutFolder(mb, f,
           IF changed
           THEN [fs EXCEPT !.validity = v, !.synced = {}, !.highest = 0, !.stamped = FALSE]
           ELSE [fs EXCEPT !.validity = v])
      /\ dirty' = (dirty \/ ~HasFolder(mb, f) \/ fs.validity # v)
      /\ UNCHANGED history

\* Adds the UIDs one after the other, HighestUID keeps up.
PutMarks(mb, f, uids) ==
  LET fs == TheFolder(mb, f) IN
  /\ \E h \in uids \cup {fs.highest} :
       /\ \A u \in uids \cup {fs.highest} : u <= h
       /\ PutFolder(mb, f, [fs EXCEPT !.synced = @ \cup uids, !.highest = h])
  /\ dirty' = TRUE
  /\ markedUnder' = markedUnder \cup {<<mb, f, u, fs.validity>> : u \in uids}
  /\ UNCHANGED mappedUnder

MarkSynced(mb, f, u) == Edit /\ PutMarks(mb, f, {u})

\* uids = {} stands for a list of zeros, which creates the folder all the same.
MarkMultipleSynced(mb, f, uids) == Edit /\ PutMarks(mb, f, uids)

\* Whether the UID is marked makes no difference; the caller, appendMessage, has done so.
SetUIDMapping(mb, f, u) ==
  LET fs == TheFolder(mb, f)
  IN  /\ Edit
      /\ PutFolder(mb, f, [fs EXCEPT !.mapped = @ \cup {u}])
      /\ dirty' = TRUE
      /\ mappedUnder' = mappedUnder \cup {<<mb, f, u, fs.validity>>}
      /\ UNCHANGED markedUnder

\* Stamps the folder and its mailbox.
UpdateLastSync(mb, f) ==
  /\ Edit
  /\ Put(mb, [folders |-> [TheMailbox(mb).folders EXCEPT
                             ![f] = [TheFolder(mb, f) EXCEPT !.stamped = TRUE]],
              stamped |-> TRUE])
  /\ dirty' = TRUE
  /\ UNCHANGED history

UpdateMailboxLastSync(mb) ==
  /\ Edit
  /\ Put(mb, [TheMailbox(mb) EXCEPT !.stamped = TRUE])
  /\ dirty' = TRUE
  /\ UNCHANGED history

\* Variant with a bug: clearing a folder does not count as a change.
ClearFolderClean(mb, f) ==
  /\ Edit
  /\ HasFolder(mb, f)
  /\ PutFolder(mb, f, NewFolder)
  /\ UNCHANGED <<dirty, history>>

ClearFolder(mb, f) ==
  /\ Edit
  /\ HasFolder(mb, f)
  /\ PutFolder(mb, f, NewFolder)
  /\ dirty' = TRUE
  /\ UNCHANGED history

ClearMailbox(mb) ==
  /\ Edit
  /\ HasMailbox(mb)
  /\ Put(mb, NewMailbox)
  /\ dirty' = TRUE
  /\ UNCHANGED history

-----------------------------------------------------------------------------
(* Save, and SaveIfDirty when there is something to save *)

\* Variant with a bug: the state file itself is opened and truncated.
BeginSaveInPlace ==
  /\ phase = "up"
  /\ phase' = "writing" /\ file' = Torn
  /\ UNCHANGED <<mailboxes, dirty, tmp, history, edits>>

\* WriteFile has opened and truncated the .tmp.
BeginSave ==
  /\ phase = "up"
  /\ phase' = "writing" /\ tmp' = Torn
  /\ UNCHANGED <<mailboxes, dirty, file, history, edits>>

WriteCompletes ==
  /\ phase = "writing"
  /\ phase' = "written" /\ tmp' = mailboxes
  /\ UNCHANGED <<mailboxes, dirty, file, history, edits>>

WriteFails ==
  /\ phase = "writing"
  /\ phase' = "up"
  /\ UNCHANGED <<mailboxes, dirty, file, tmp, history, edits>>

\* Variant with a bug: the rename also runs when the write was cut short.
RenameRegardless ==
  /\ phase \in {"writing", "written"}
  /\ phase' = "up" /\ file' = tmp /\ tmp' = NoFile
  /\ dirty' = FALSE
  /\ UNCHANGED <<mailboxes, history, edits>>

Rename ==
  /\ phase = "written"
  /\ phase' = "up" /\ file' = tmp /\ tmp' = NoFile
  /\ dirty' = FALSE
  /\ UNCHANGED <<mailboxes, history, edits>>

\* Variant with a bug: the state counts as saved before the rename.
RenameFailsClean ==
  /\ phase = "written"
  /\ phase' = "up" /\ tmp' \in {tmp, NoFile} /\ dirty' = FALSE
  /\ UNCHANGED <<mailboxes, file, history, edits>>

\* The .tmp is removed, if that works.
RenameFails ==
  /\ phase = "written"
  /\ phase' = "up" /\ tmp' \in {tmp, NoFile}
  /\ UNCHANGED <<mailboxes, dirty, file, history, edits>>

-----------------------------------------------------------------------------
Operation ==
  \/ \E mb \in Mailbox :
       GetMailbox(mb) \/ UpdateMailboxLastSync(mb) \/ ClearMailbox(mb)
  \/ \E mb \in Mailbox, f \in Folder :
       \/ GetFolder(mb, f) \/ UpdateLastSync(mb, f) \/ ClearFolder(mb, f)
       \/ \E v \in Validity \cup {0} : SetUIDValidity(mb, f, v)
       \/ \E u \in UID : MarkSynced(mb, f, u) \/ SetUIDMapping(mb, f, u)
       \/ \E uids \in SUBSET UID : MarkMultipleSynced(mb, f, uids)

Save == BeginSave \/ WriteCompletes \/ WriteFails \/ Rename \/ RenameFails

Next == Load \/ Crash \/ Operation \/ Save

Spec == Init /\ [][Next]_vars

-----------------------------------------------------------------------------
(* Properties *)

\* Every variable has its type.  The file is always one a process can load, or
\* the foreign one it was to begin with.
TypeOK ==
  /\ mailboxes \in State /\ dirty \in BOOLEAN
  /\ phase \in {"down", "up", "writing", "written"}
  /\ file \in State \cup {NoFile, Foreign} /\ tmp \in State \cup {NoFile, Torn}
  /\ {markedUnder, mappedUnder} \subseteq
       SUBSET (Mailbox \X Folder \X UID \X (Validity \cup {0}))
  /\ edits \in 0..MaxEdits

\* The folder records of a state.
FolderOf(st, mb, f) == IF st[mb] = NoMailbox THEN NoFolder ELSE st[mb].folders[f]

HighestOK(st) ==
  \A mb \in Mailbox, f \in Folder :
    LET fs == FolderOf(st, mb, f) IN
    fs # NoFolder => /\ fs.highest \in fs.synced \cup {0}
                     /\ \A u \in fs.synced : u <= fs.highest

MarksOK(st, marks) ==
  \A mb \in Mailbox, f \in Folder :
    LET fs == FolderOf(st, mb, f) IN
    fs # NoFolder =>
      \A u \in fs.synced : \E v \in {0, fs.validity} : <<mb, f, u, v>> \in marks

\* HighestUID is the greatest of the marked UIDs, and 0 exactly when there are
\* none, through resets, clears, saves and reloads.
HighestIsMax == HighestOK(mailboxes)

\* A UID counts as copied only if it was marked while the folder had the UID
\* validity it has now, or none: after a rebuild of the source folder no
\* message is skipped for having inherited the UID of an older one, not even
\* by a process that reloads an older file.
MarksHonoured == MarksOK(mailboxes, markedUnder)

\* Not dirty means that a restart finds just this state: the flag is cleared by
\* nothing but a completed save and every change sets it again.
CleanMeansPersisted ==
  phase # "down" /\ ~dirty => file = mailboxes \/ (file = NoFile /\ mailboxes = Empty)

\* The state file changes only to the state in memory as a whole, whatever is
\* left in the .tmp by a crash or a failed write (a part of StoreKept).
PublishesCurrent == [][file' # file => file' = mailboxes]_vars

\* The state and its file are the simple store that StateStore describes: where a save
\* can be cut off by a failure or a kill it has not begun, and everything that has
\* changed since the last one is known to be unsaved.
Store == INSTANCE StateStore WITH running <- phase # "down"

StoreKept == Store!Spec

\* A file that this version cannot read is never overwritten.
ForeignKept == [][file = Foreign => file' = Foreign]_vars

\* "sync state reset to avoid UID collisions" (docs/ERRORS.md:110): after a
\* change of validity no UID mapping of the old folder is left either.
MappingsHonoured ==
  \A mb \in Mailbox, f \in Folder :
    LET fs == FolderOf(mailboxes, mb, f) IN
    fs # NoFolder /\ fs.validity # 0 =>
      \A u \in fs.mapped : \E v \in {0, fs.validity} : <<mb, f, u, v>> \in mappedUnder
=============================================================================
