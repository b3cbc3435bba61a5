------------------------------- MODULE Client -------------------------------
(***************************************************************************)
(* The session of an imap.Client (internal/imap/client.go, folder.go):     *)
(* which folder the server has selected, and c.selected, which folder the  *)
(* client takes that to be.  Every call holds the mutex for its length and *)
(* is one action, but for EnsureFolder, which takes it twice.  The         *)
(* keepalive and Close of KeepAlive go on meanwhile, and other clients     *)
(* change the folders of the account.  A call to a silent server is        *)
(* CallHangs of KeepAlive; whatever the server has made of it, the session *)
(* can be used no more.                                                    *)
(*                                                                         *)
(* What only reads changes nothing and is no action: ListFolders,          *)
(* FolderStatus, Selected, Server and User.                                *)
(***************************************************************************)
EXTENDS KeepAlive

CONSTANTS
  Folder,             \* folder names
  NoFolder            \* the empty string

ASSUME ClientAssumption == NoFolder \notin Folder

VARIABLES
  folders,            \* the folders of the account
  session,            \* the folder selected in the session, as it was called then
  selected,           \* c.selected
  ensuring            \* the folder EnsureFolder has found missing, if any

session_vars == <<folders, session, selected, ensuring>>

client_and_session == <<vars, session_vars>>

\* As Dial leaves it, with the keepalive turned on.
ClientInit ==
  /\ Init
  /\ folders \in SUBSET Folder
  /\ session = NoFolder /\ selected = NoFolder /\ ensuring = NoFolder

\* No call comes after a Close that succeeded (MailboxCopy!ClientsAreThere); on a lost
\* connection a call fails and changes nothing, and a silent server keeps it.
Call == mutex = "free" /\ client = "up" /\ ~silent /\ UNCHANGED vars

-----------------------------------------------------------------------------
\* Variant with a bug: the name is not recorded, as if EXAMINE did not select.
SelectUnrecorded(f) ==
  /\ Call
  /\ session' = IF f \in folders THEN f ELSE NoFolder
  /\ UNCHANGED <<folders, selected, ensuring>>

\* Select and SelectReadOnly.  A SELECT that the server refuses leaves nothing
\* selected, and c.selected as it was.
Select(f) ==
  /\ Call
  /\ \/ f \in folders /\ session' = f /\ selected' = f
     \/ session' = NoFolder /\ UNCHANGED selected
  /\ UNCHANGED <<folders, ensuring>>

\* Variant with a bug: the name is forgotten before the server is asked.
UnselectForgetsFirst ==
  /\ Call /\ selected # NoFolder
  /\ selected' = NoFolder
  /\ session' \in {session, NoFolder}
  /\ UNCHANGED <<folders, ensuring>>

\* The server may refuse, and does if nothing is selected.
Unselect ==
  /\ Call /\ selected # NoFolder /\ session # NoFolder
  /\ selected' = NoFolder /\ session' = NoFolder
  /\ UNCHANGED <<folders, ensuring>>

CreateFolder(f) ==
  /\ Call /\ f \notin folders
  /\ folders' = folders \cup {f}
  /\ UNCHANGED <<session, selected, ensuring>>

\* If it is selected, servers close the folder or let the session go on.
DeleteFolder(f) ==
  /\ Call /\ f \in folders
  /\ folders' = folders \ {f}
  /\ session' \in IF session = f THEN {f, NoFolder} ELSE {session}
  /\ UNCHANGED <<selected, ensuring>>

RenameFolder(oldName, newName) ==
  /\ Call /\ oldName \in folders /\ newName \notin folders
  /\ folders' = (folders \ {oldName}) \cup {newName}
  /\ UNCHANGED <<session, selected, ensuring>>

FolderExists(f) == f \in folders

\* If the folder exists EnsureFolder is over.
EnsureFolder(f) ==
  /\ Call /\ ensuring = NoFolder /\ ~FolderExists(f)
  /\ ensuring' = f
  /\ UNCHANGED <<folders, session, selected>>

\* Its call of CreateFolder, which fails if the folder has come meanwhile, or for
\* any other reason.
EnsureCreates ==
  /\ mutex = "free" /\ client # "nil" /\ Answered /\ ensuring # NoFolder /\ UNCHANGED vars
  /\ folders' \in {folders} \cup (IF client = "up" THEN {folders \cup {ensuring}} ELSE {})
  /\ ensuring' = NoFolder
  /\ UNCHANGED <<session, selected>>

-----------------------------------------------------------------------------
(* everybody else *)

OtherClient ==
  /\ folders' \in SUBSET Folder
  /\ UNCHANGED <<vars, session, selected, ensuring>>

\* A session ends with its connection.
Within ==
  /\ session' = IF client' = "up" THEN session ELSE NoFolder
  /\ UNCHANGED <<folders, selected, ensuring>>

Caller ==
  \/ \E f \in Folder :
       Select(f) \/ CreateFolder(f) \/ DeleteFolder(f) \/ EnsureFolder(f)
  \/ \E oldName, newName \in Folder : RenameFolder(oldName, newName)
  \/ Unselect \/ EnsureCreates

ClientNext == Caller \/ OtherClient \/ (Next /\ Within)

ClientSpec == ClientInit /\ [][ClientNext]_client_and_session

\* As in KeepAlive; the callers need not get anywhere.
FairClientSpec ==
  /\ ClientSpec
  /\ WF_client_and_session(Keeper /\ Within) /\ WF_client_and_session(CallFails /\ Within)
  /\ SF_client_and_session(NoopLocks /\ Within)
  /\ SF_client_and_session(SeeDone /\ Within)
  /\ \A c \in Closer :
       /\ WF_client_and_session(Close(c) /\ Within)
       /\ SF_client_and_session(CloseLocks(c) /\ Within)

-----------------------------------------------------------------------------
(* Properties *)

\* Every variable has its type, and a session is there only with a connection.
ClientTypeOK ==
  /\ TypeOK
  /\ folders \subseteq Folder
  /\ {session, selected, ensuring} \subseteq Folder \cup {NoFolder}
  /\ session # NoFolder => client = "up"

\* The server never has a folder selected that c.selected does not name, whatever
\* calls have failed: Unselect, which asks nothing if c.selected is empty, leaves
\* nothing selected when it returns nil, so that folders can be deleted, and UIDs
\* of one folder are never used on another.
SelectionKnown == session # NoFolder => session = selected
=============================================================================
