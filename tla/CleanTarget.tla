----------------------------- MODULE CleanTarget -----------------------------
(***************************************************************************)
(* One call of cleanTargetMailbox (internal/runner/runner.go): empty every *)
(* selectable folder of a target mailbox, leave the last one, and delete   *)
(* all folders but INBOX.  Meanwhile mail is delivered, users flag         *)
(* messages and make folders, and the clean-up for another [[mailbox]]     *)
(* entry may be at work on the same account.                               *)
(*                                                                         *)
(* A folder stands for its name, numbered in the order of sort.            *)
(***************************************************************************)
EXTENDS Naturals, FiniteSetsExt

CONSTANTS
  Folder,             \* the folder names that may occur
  Inbox,              \* the name that is INBOX in any spelling
  Superior,           \* for each name, the names above it in the hierarchy
  Msg,                \* the messages the mailbox may ever hold
  MaxOutside          \* bound on the steps of everybody else

\* A name is longer than the names above it, so it sorts behind them; INBOX has
\* none above it.
ASSUME CleanTargetAssumption ==
  /\ Folder \subseteq Nat \ {0} /\ IsFiniteSet(Folder)
  /\ Superior \in [Folder -> SUBSET Folder]
  /\ \A f \in Folder : \A g \in Superior[f] : g < f /\ Superior[g] \subseteq Superior[f]
  /\ Inbox \in Folder /\ Superior[Inbox] = {}
  /\ MaxOutside \in Nat

VARIABLES
  \* the target mailbox
  kind,               \* what each name is: "absent", "container" or "folder"
  at,                 \* the folder that holds the message, or 0
  flagged,            \* messages that carry \Deleted
  \* the outside world
  outside,            \* steps of everybody else so far
  unborn,             \* messages not yet delivered
  touched,            \* history: messages that others have flagged or removed
  fresh,              \* history: folders made by users
  old,                \* history: messages there at the start
  \* cleanTargetMailbox and its client
  pc,
  selected,           \* the selected folder, or 0
  listed,             \* folders
  todo,               \* those of them still to come in the current loop
  uids,               \* the UIDs fetched from the selected folder
  result,             \* the value returned
  fault,              \* history: an IMAP call failed that had no reason to
  skipped             \* history: the containers listed

mailbox == <<kind, at, flagged>>
world   == <<outside, unborn, touched, fresh, old>>
cleaner == <<pc, selected, listed, todo, uids, result, fault, skipped>>

vars == <<mailbox, world, cleaner>>

In(f) == {m \in Msg : at[m] = f}
Below(f) == {g \in Folder : f \in Superior[g]}
Existing == {f \in Folder : kind[f] # "absent"}

\* IsNoSelect tells containers from folders.
Selectable == {f \in Folder : kind[f] = "folder"}

-----------------------------------------------------------------------------
Init ==
  /\ kind \in [Folder -> {"absent", "container", "folder"}]
  /\ kind[Inbox] = "folder"
  /\ at \in [Msg -> Selectable \cup {0}]
  /\ unborn = In(0) /\ old = Msg \ unborn /\ flagged \in SUBSET old
  /\ outside = 0 /\ touched = {} /\ fresh = {}
  /\ pc = "dial" /\ selected = 0 /\ listed = {} /\ todo = {} /\ uids = {}
  /\ result = "none" /\ fault = FALSE /\ skipped = {}

\* The three outcomes of a call: success, a failure of the server or of the
\* connection, and the refusal of a call that cannot be served.
Go(next) == pc' = next /\ UNCHANGED <<result, fault>>
Fail     == pc' = "close" /\ result' = "err" /\ fault' = TRUE
Refused  == pc' = "close" /\ result' = "err" /\ UNCHANGED fault

Dial ==
  /\ pc = "dial"
  /\ Go("list") \/ (pc' = "returned" /\ result' = "err" /\ fault' = TRUE)
  /\ UNCHANGED <<mailbox, world, selected, listed, todo, uids, skipped>>

ListFolders ==
  /\ pc = "list"
  /\ \/ /\ listed' = Existing /\ todo' = Selectable
        /\ skipped' = Existing \ Selectable
        /\ Go("loop")
     \/ Fail /\ UNCHANGED <<listed, todo, skipped>>
  /\ UNCHANGED <<mailbox, world, selected, uids>>

-----------------------------------------------------------------------------
(* the loop that empties the folders *)

\* An empty folder needs no more.
SelectFolder(f) ==
  /\ pc = "loop" /\ f \in todo
  /\ todo' = todo \ {f}
  /\ \/ /\ kind[f] = "folder"
        /\ selected' = f
        /\ Go(IF In(f) = {} THEN "loop" ELSE "fetch")
     \/ /\ IF kind[f] = "folder" THEN Fail ELSE Refused
        /\ UNCHANGED selected
  /\ UNCHANGED <<mailbox, world, listed, uids, skipped>>

FetchAll ==
  /\ pc = "fetch"
  /\ \/ /\ uids' = In(selected)
        /\ Go(IF In(selected) = {} THEN "expunge" ELSE "mark")
     \/ Fail /\ UNCHANGED uids
  /\ UNCHANGED <<mailbox, world, selected, listed, todo, skipped>>

\* Variant with a bug: the flag goes to UID 1:*, as the comment above it says.
MarkedMessagesAll == In(selected)

MarkedMessages == uids \cap In(selected)

MarkDeleted ==
  /\ pc = "mark"
  /\ \/ flagged' = flagged \cup MarkedMessages /\ Go("expunge")
     \/ Fail /\ flagged' \in {flagged, flagged \cup MarkedMessages}
  /\ UNCHANGED <<kind, at, world, selected, listed, todo, uids, skipped>>

\* What EXPUNGE removes: all that is flagged, by whomever.
Expunged == In(selected) \cap flagged

Remove(msgs) ==
  /\ at' = [m \in Msg |-> IF m \in msgs THEN 0 ELSE at[m]]
  /\ flagged' = flagged \ msgs

\* Variant with a bug: a failed expunge is logged and the loop goes on.
ExpungeIgnoringErrors ==
  /\ pc = "expunge"
  /\ uids' = {}
  /\ Remove(Expunged) \/ UNCHANGED <<at, flagged>>
  /\ Go("loop")
  /\ UNCHANGED <<kind, world, selected, listed, todo, skipped>>

Expunge ==
  /\ pc = "expunge"
  /\ uids' = {}
  /\ \/ Remove(Expunged) /\ Go("loop")
     \/ Fail /\ (Remove(Expunged) \/ UNCHANGED <<at, flagged>>)
  /\ UNCHANGED <<kind, world, selected, listed, todo, skipped>>

\* The selected folder has been deleted by somebody else.
FolderIsGone ==
  /\ pc \in {"fetch", "mark", "expunge"} /\ kind[selected] # "folder"
  /\ Refused
  /\ UNCHANGED <<mailbox, world, selected, listed, todo, uids, skipped>>

-----------------------------------------------------------------------------
(* the loop that deletes the folders *)

\* Variant with a bug: the folders are listed again.
DeletedFoldersListedAgain == Existing \ {Inbox}

DeletedFolders == listed \ {Inbox}

\* Variant with a bug: the folders are deleted while one is selected.
UnselectForgotten ==
  /\ pc = "loop" /\ todo = {}
  /\ todo' = DeletedFolders /\ Go("delete")
  /\ UNCHANGED <<mailbox, world, selected, listed, uids, skipped>>

Unselect ==
  /\ pc = "loop" /\ todo = {}
  /\ \/ selected' = 0 /\ todo' = DeletedFolders /\ Go("delete")
     \/ /\ selected # 0
        /\ IF kind[selected] = "folder" THEN Fail ELSE Refused
        /\ UNCHANGED <<selected, todo>>
  /\ UNCHANGED <<mailbox, world, listed, uids, skipped>>

\* Variant with a bug: parents come before their children.
NextFolderAscending == Min(todo)

NextFolder == Max(todo)

\* Containers above a folder with nothing else below them; some servers let them
\* vanish with it.
Hollow(f) ==
  LET above == {g \in Superior[f] : kind[g] = "container"}
  IN  {g \in above : Below(g) \cap Existing \subseteq above \cup {f}}

\* A folder with others below it becomes a container.  Its messages go with it.
Delete(f) ==
  /\ IF Below(f) \cap Existing # {}
     THEN kind' = [kind EXCEPT ![f] = "container"]
     ELSE \E gone \in {{f}, {f} \cup Hollow(f)} :
            kind' = [g \in Folder |-> IF g \in gone THEN "absent" ELSE kind[g]]
  /\ Remove(In(f))

\* Servers may refuse to delete a folder with others below it, or any folder while
\* one is selected.
Undeletable(f) == kind[f] = "absent" \/ Below(f) \cap Existing # {} \/ selected # 0

DeleteFolder ==
  /\ pc = "delete" /\ todo # {}
  /\ todo' = todo \ {NextFolder}
  /\ \/ kind[NextFolder] # "absent" /\ Delete(NextFolder) /\ (Go("delete") \/ Fail)
     \/ Undeletable(NextFolder) /\ Refused /\ UNCHANGED mailbox
     \/ Fail /\ UNCHANGED mailbox
  /\ UNCHANGED <<world, selected, listed, uids, skipped>>

Finish ==
  /\ pc = "delete" /\ todo = {}
  /\ pc' = "close" /\ result' = "ok"
  /\ UNCHANGED <<mailbox, world, selected, listed, todo, uids, fault, skipped>>

\* The deferred Close: its error counts if nothing else went wrong.
Close ==
  /\ pc = "close"
  /\ pc' = "returned" /\ selected' = 0
  /\ \/ UNCHANGED <<result, fault>>
     \/ result' = "err" /\ fault' = TRUE
  /\ UNCHANGED <<mailbox, world, listed, todo, uids, skipped>>

-----------------------------------------------------------------------------
(* everybody else *)

Outside == outside < MaxOutside /\ outside' = outside + 1

Deliver(m, f) ==
  /\ Outside
  /\ m \in unborn /\ kind[f] = "folder"
  /\ unborn' = unborn \ {m}
  /\ at' = [at EXCEPT ![m] = f]
  /\ UNCHANGED <<kind, flagged, touched, fresh, old, cleaner>>

UserFlags(m) ==
  /\ Outside
  /\ at[m] # 0
  /\ flagged' = IF m \in flagged THEN flagged \ {m} ELSE flagged \cup {m}
  /\ touched' = touched \cup {m}
  /\ UNCHANGED <<kind, at, unborn, fresh, old, cleaner>>

UserMakes(f) ==
  /\ Outside
  /\ kind[f] = "absent"
  /\ kind' = [kind EXCEPT ![f] = "folder"]
  /\ fresh' = fresh \cup {f}
  /\ UNCHANGED <<at, flagged, unborn, touched, old, cleaner>>

\* The clean-up for an entry with the same target account empties a folder or
\* deletes it.
RivalEmpties(f) ==
  /\ Outside
  /\ In(f) # {}
  /\ Remove(In(f)) /\ touched' = touched \cup In(f)
  /\ UNCHANGED <<kind, unborn, fresh, old, cleaner>>

RivalDeletes(f) ==
  /\ Outside
  /\ f # Inbox /\ kind[f] # "absent"
  /\ Delete(f) /\ touched' = touched \cup In(f)
  /\ UNCHANGED <<unborn, fresh, old, cleaner>>

Returned == pc = "returned" /\ UNCHANGED vars

Next ==
  \/ Dial \/ ListFolders
  \/ \E f \in Folder : SelectFolder(f)
  \/ FetchAll \/ MarkDeleted \/ Expunge \/ FolderIsGone
  \/ Unselect \/ DeleteFolder \/ Finish \/ Close
  \/ \E m \in Msg, f \in Folder : Deliver(m, f)
  \/ \E m \in Msg : UserFlags(m)
  \/ \E f \in Folder : UserMakes(f) \/ RivalEmpties(f) \/ RivalDeletes(f)
  \/ Returned

Spec == Init /\ [][Next]_vars

-----------------------------------------------------------------------------
(* Properties *)

\* Every variable has its type, a message that is nowhere carries no flag, and
\* both loops go through listed folders only.
TypeOK ==
  /\ kind \in [Folder -> {"absent", "container", "folder"}]
  /\ at \in [Msg -> Folder \cup {0}] /\ flagged \subseteq Msg \ In(0)
  /\ outside \in 0..MaxOutside /\ unborn \subseteq In(0)
  /\ touched \subseteq Msg /\ fresh \subseteq Folder /\ old \subseteq Msg
  /\ pc \in {"dial", "list", "loop", "fetch", "mark", "expunge", "delete", "close",
             "returned"}
  /\ selected \in Folder \cup {0} /\ listed \subseteq Folder
  /\ todo \subseteq listed /\ uids \subseteq Msg
  /\ result \in {"none", "ok", "err"} /\ fault \in BOOLEAN /\ skipped \subseteq listed

\* nil means clean: nothing that was in the mailbox at the start is left, apart
\* from messages in INBOX whose flag a user has changed meanwhile.
OldMailGone ==
  pc = "returned" /\ result = "ok" =>
    \A m \in old : at[m] = 0 \/ (at[m] = Inbox /\ m \in touched)

\* nil means that of the folders listed only INBOX is left, but for folders
\* that users have made meanwhile and what is above these.
OldFoldersGone ==
  pc = "returned" /\ result = "ok" =>
    \A f \in listed \ {Inbox} :
      f \in Existing => ({f} \cup Below(f)) \cap fresh # {}

\* Mail delivered to INBOX after its UIDs were fetched outlives the clean-up,
\* unless others flag or remove it: only fetched messages are marked for the
\* expunge.
NewInboxMailKept ==
  [][\A m \in In(Inbox) : at'[m] = 0 => m \in uids \cup touched' \cup old]_vars

\* The clean-up, whose failure stops the whole run, fails only if a call does that
\* had no reason to, if others are at work, or if there are containers, which may
\* vanish with their last folder before their turn comes.  So it unselects before
\* it deletes (runner.go:421-423) and takes children before their parents.
FailsOnlyByFault ==
  pc = "returned" /\ result = "err" => fault \/ outside > 0 \/ skipped # {}
=============================================================================
