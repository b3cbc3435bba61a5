----------------------------- MODULE MailboxCopy -----------------------------
(***************************************************************************)
(* One call of Mailbox.copy (internal/mailbox/mailbox.go), which a worker  *)
(* runs for one [[mailbox]] entry: connect to both servers, create the     *)
(* missing folders on the target, copy the source folders one by one,      *)
(* replace both connections after a failed folder, and disconnect on every *)
(* way out.  Each call of copyFolder is an instance of FolderContract; the *)
(* detailed FolderCopy implements it.                                      *)
(*                                                                         *)
(* A folder stands for its name, numbered in the order in which            *)
(* copyFolders sorts the names.                                            *)
(***************************************************************************)
EXTENDS Naturals, FiniteSetsExt

CONSTANTS
  Folder,             \* the folder names that may occur
  Superior,           \* for each name, the names above it in the hierarchy
  Msg,                \* the messages a folder may hold
  MaxOutside          \* bound on the changes others make to the folders of both servers

\* A name is longer than the names above it, so it sorts behind them.
ASSUME MailboxCopyAssumption ==
  /\ Folder \subseteq Nat \ {0} /\ IsFiniteSet(Folder)
  /\ Superior \in [Folder -> SUBSET Folder]
  /\ \A f \in Folder : \A g \in Superior[f] : g < f
  /\ MaxOutside \in Nat

VARIABLES
  \* the two servers and everybody else on the two mailboxes
  here,               \* what each name is on the source server
  there,              \* the folders of the target server
  outside,            \* changes made by others so far
  foreign,            \* history: the target folders that another entry has created
  open,               \* connections that each server holds open for us
  \* the call of copyFolder in progress, see FolderContract
  exists, phase, listed, copies, excused, cancelled, reading,
  \* fields of Mailbox
  conn,               \* sourceClient, targetClient # nil
  status,
  lastError,          \* lastError # nil
  created,            \* foldersCreated
  \* the goroutine of the worker
  pc,
  todo,               \* folders of the current loop still to come
  cur,                \* the folder being copied, or 0
  names,              \* history: the folders listed for copying
  errors,             \* the folders counted by folderErrors
  stamped,            \* lastSync, syncCount and the state have been updated
  result,             \* the value returned
  whole               \* history: folders left with nothing missing

servers  == <<here, there, outside, foreign>>
copying  == <<exists, phase, listed, copies, excused, cancelled, reading>>
links    == <<open, conn>>
report   == <<status, lastError, created, stamped, result>>
progress == <<pc, todo, cur, names, errors, whole>>

vars == <<servers, copying, links, report, progress>>

Contract == INSTANCE FolderContract

Side == {"source", "target"}
Both == [s \in Side |-> TRUE]
Neither == [s \in Side |-> FALSE]

\* ListFolders on the source, without what IsNoSelect sorts out.
Selectable == {f \in Folder : here[f] = "folder"}

\* What CREATE of a name may make: servers add the superior folders or not.
Made(f) == {{f}, {f} \cup Superior[f]}

\* Variant with a bug: the folders are not sorted by name.
NextFolderUnsorted == Max(todo)

\* The next folder of copyFolders, which goes through them in order.
NextFolder == Min(todo)

-----------------------------------------------------------------------------
NoCopy ==
  /\ exists = FALSE /\ phase = "idle" /\ listed = {}
  /\ copies = [m \in Msg |-> 0] /\ excused = {}

\* A new Mailbox, or one that Connect has connected already.
Init ==
  /\ here \in [Folder -> {"absent", "container", "folder"}]
  /\ there \in SUBSET Folder /\ outside = 0 /\ foreign = {}
  /\ NoCopy /\ cancelled = FALSE /\ reading = FALSE
  /\ conn \in {Neither, Both}
  /\ open = [s \in Side |-> IF conn[s] THEN 1 ELSE 0]
  /\ status = "idle" /\ lastError = FALSE /\ created = 0
  /\ stamped = FALSE /\ result = "none"
  /\ pc = "connect" /\ todo = {} /\ cur = 0 /\ names = {} /\ errors = {}
  /\ whole = {}

-----------------------------------------------------------------------------
(* connect, called by copy at its start and after a failed folder *)

First == pc \in {"connect", "connectTarget"}

Connected ==
  IF First THEN status' = "copying" /\ pc' = "listSource"
           ELSE status' = "idle" /\ pc' = "loop"

\* Variant with a bug: the loop goes on without a connection.
ConnectFailsLoopGoesOn ==
  /\ status' = "error" /\ lastError' = TRUE
  /\ IF First THEN pc' = "returned" /\ result' = "err"
              ELSE pc' = "loop" /\ UNCHANGED result

\* At the start connect's error is the result, before disconnect is deferred;
\* later it ends the loop.
ConnectFails ==
  /\ status' = "error" /\ lastError' = TRUE
  /\ IF First THEN pc' = "returned" /\ result' = "err"
              ELSE pc' = "finish" /\ UNCHANGED result

AlreadyConnected ==
  /\ pc \in {"connect", "reconnect"} /\ conn = Both
  /\ IF First THEN status' = "copying" /\ pc' = "listSource"
              ELSE pc' = "loop" /\ UNCHANGED status
  /\ UNCHANGED <<servers, copying, links, lastError, created, stamped, result,
                 todo, cur, names, errors, whole>>

DialSource ==
  /\ pc \in {"connect", "reconnect"} /\ conn # Both
  /\ \/ /\ conn' = [conn EXCEPT !["source"] = TRUE]
        /\ open' = [open EXCEPT !["source"] = @ + 1]
        /\ status' = "connecting"
        /\ pc' = IF First THEN "connectTarget" ELSE "reconnectTarget"
        /\ UNCHANGED <<lastError, result>>
     \/ ConnectFails /\ UNCHANGED links
  /\ UNCHANGED <<servers, copying, created, stamped, todo, cur, names, errors,
                 whole>>

\* Variant with a bug: the source connection stays open.
CloseSourceForgotten ==
  conn' = [conn EXCEPT !["source"] = FALSE] /\ UNCHANGED open

CloseSource ==
  /\ conn' = [conn EXCEPT !["source"] = FALSE]
  /\ open' = [open EXCEPT !["source"] = @ - 1]

\* If it fails the source connection is closed again.
DialTarget ==
  /\ pc \in {"connectTarget", "reconnectTarget"}
  /\ \/ /\ conn' = [conn EXCEPT !["target"] = TRUE]
        /\ open' = [open EXCEPT !["target"] = @ + 1]
        /\ Connected
        /\ UNCHANGED <<lastError, result>>
     \/ CloseSource /\ ConnectFails
  /\ UNCHANGED <<servers, copying, created, stamped, todo, cur, names, errors,
                 whole>>

-----------------------------------------------------------------------------
(* copyFolders, and the listing of copy *)

Abandon ==
  /\ status' = "error" /\ lastError' = TRUE
  /\ result' = "err" /\ pc' = "close"

ListSource ==
  /\ pc = "listSource"
  /\ \/ /\ todo' = Selectable /\ pc' = "listTarget"
        /\ UNCHANGED <<status, lastError, result>>
     \/ Abandon /\ UNCHANGED todo
  /\ UNCHANGED <<servers, copying, links, created, stamped, cur, names, errors,
                 whole>>

ListTarget ==
  /\ pc = "listTarget"
  /\ \/ /\ todo' = todo \ there /\ pc' = "create"
        /\ UNCHANGED <<status, lastError, result>>
     \/ Abandon /\ UNCHANGED todo
  /\ UNCHANGED <<servers, copying, links, created, stamped, cur, names, errors,
                 whole>>

\* A failure is logged; the answer may be what failed.
CreateFolder ==
  /\ pc = "create" /\ todo # {}
  /\ todo' = todo \ {NextFolder}
  /\ \/ /\ NextFolder \notin there
        /\ \E made \in Made(NextFolder) : there' = there \cup made
        /\ created' \in {created, created + 1}
     \/ UNCHANGED <<there, created>>
  /\ UNCHANGED <<here, outside, foreign, copying, links, status, lastError, stamped,
                 result, pc, cur, names, errors, whole>>

ListFolders ==
  /\ pc = "create" /\ todo = {}
  /\ \/ /\ todo' = Selectable /\ names' = Selectable /\ pc' = "loop"
        /\ UNCHANGED <<status, lastError, result>>
     \/ Abandon /\ UNCHANGED <<todo, names>>
  /\ UNCHANGED <<servers, copying, links, created, stamped, cur, errors, whole>>

-----------------------------------------------------------------------------
(* the loop of copy *)

\* Variant with a bug: a folder is tried until it is whole.
RestRetrying(f) == {g \in todo : g # f \/ f \notin whole}

Rest(f) == todo \ {f}

\* Call copyFolder: from here to its return the contract takes the steps.
StartFolder(f) ==
  /\ pc = "loop" /\ f \in todo
  /\ todo' = Rest(f)
  /\ cur' = f /\ pc' = "folder"
  /\ exists' = (f \in there) /\ phase' = "working"
  /\ excused' \in SUBSET Msg
  /\ UNCHANGED <<servers, listed, copies, cancelled, reading, links, report,
                 names, errors, whole>>

FolderSteps ==
  /\ pc = "folder" /\ phase = "working"
  /\ Contract!Next
  /\ UNCHANGED <<servers, links, report, progress>>

ForgetCopy ==
  /\ exists' = FALSE /\ phase' = "idle" /\ listed' = {}
  /\ copies' = [m \in Msg |-> 0] /\ excused' = {}
  /\ UNCHANGED <<cancelled, reading>>

\* Variants with a bug: a failed folder is logged and not counted; the first
\* failure ends the loop.
FolderFailsForgotten == pc' = "drop" /\ UNCHANGED errors
FolderFailsForAll == pc' = "finish" /\ errors' = errors \cup {cur}

FolderFails == pc' = "drop" /\ errors' = errors \cup {cur}

\* copyFolder is back; after an error both connections are replaced.
FolderReturns ==
  /\ pc = "folder" /\ phase # "working"
  /\ IF exists THEN \E made \in Made(cur) : there' = there \cup made
               ELSE UNCHANGED there
  /\ whole' = IF phase = "ok" /\ Contract!Missing = {} THEN whole \cup {cur} ELSE whole
  /\ IF phase = "ok" THEN pc' = "loop" /\ UNCHANGED errors ELSE FolderFails
  /\ cur' = 0
  /\ ForgetCopy
  /\ UNCHANGED <<here, outside, foreign, links, report, todo, names>>

\* All folders are done, or the connection could not be replaced.
Finish ==
  /\ pc = "finish" \/ (pc = "loop" /\ todo = {})
  /\ status' = "idle" /\ stamped' = TRUE
  /\ result' = IF errors # {} THEN "err" ELSE "ok"
  /\ pc' = "close"
  /\ UNCHANGED <<servers, copying, links, lastError, created, todo, cur, names,
                 errors, whole>>

-----------------------------------------------------------------------------
(* disconnect, called by copy after a failed folder and at its end *)

\* Variant with a bug: the clients are closed and kept.
DisconnectKeepingClients(fails) ==
  /\ fails => conn # Neither
  /\ open' = [s \in Side |-> IF conn[s] THEN open[s] - 1 ELSE open[s]]
  /\ status' = IF fails THEN "error" ELSE "idle"
  /\ lastError' = (lastError \/ fails)
  /\ UNCHANGED <<servers, copying, conn, created, stamped, todo, cur, names,
                 errors, whole>>

\* Both clients are set to nil before they are closed; what Close returns makes
\* no difference to the server.
Disconnect(fails) ==
  /\ fails => conn # Neither
  /\ conn' = Neither
  /\ open' = [s \in Side |-> IF conn[s] THEN open[s] - 1 ELSE open[s]]
  /\ status' = IF fails THEN "error" ELSE "idle"
  /\ lastError' = (lastError \/ fails)
  /\ UNCHANGED <<servers, copying, created, stamped, todo, cur, names, errors,
                 whole>>

DropConnections ==
  /\ pc = "drop"
  /\ \E fails \in BOOLEAN : Disconnect(fails)
  /\ pc' = "reconnect"
  /\ UNCHANGED result

\* Variant with a bug: the error of the deferred disconnect is lost.
CloseConnectionsSilently ==
  /\ pc = "close"
  /\ \E fails \in BOOLEAN : Disconnect(fails)
  /\ pc' = "returned"
  /\ UNCHANGED result

CloseConnections ==
  /\ pc = "close"
  /\ \E fails \in BOOLEAN :
       /\ Disconnect(fails)
       /\ result' = IF fails THEN "err" ELSE result
  /\ pc' = "returned"

-----------------------------------------------------------------------------
(* everybody else *)

\* A signal while no folder is being copied; FolderSteps has the others.
Cancel ==
  /\ pc # "folder"
  /\ ~cancelled
  /\ Contract!Cancel
  /\ UNCHANGED <<servers, links, report, progress>>

\* A user creates, deletes or converts a source folder.
UserChanges(f) ==
  /\ outside < MaxOutside /\ outside' = outside + 1
  /\ \E what \in {"absent", "container", "folder"} : here' = [here EXCEPT ![f] = what]
  /\ UNCHANGED <<there, foreign, copying, links, report, progress>>

\* An entry with the same target account, which copies too, creates a folder there.
RivalCreates(f) ==
  /\ outside < MaxOutside /\ outside' = outside + 1
  /\ f \notin there
  /\ \E made \in Made(f) : /\ there' = there \cup made
                          /\ foreign' = foreign \cup (made \ there)
  /\ UNCHANGED <<here, copying, links, report, progress>>

Returned == pc = "returned" /\ UNCHANGED vars

Own ==
  \/ AlreadyConnected \/ DialSource \/ DialTarget
  \/ ListSource \/ ListTarget \/ CreateFolder \/ ListFolders
  \/ \E f \in Folder : StartFolder(f)
  \/ FolderReturns \/ Finish
  \/ DropConnections \/ CloseConnections

Next ==
  \/ Own
  \/ FolderSteps
  \/ Cancel
  \/ \E f \in Folder : UserChanges(f) \/ RivalCreates(f)
  \/ Returned

Spec == Init /\ [][Next]_vars

\* The worker runs on, given that the servers answer, and copyFolder ends, as
\* FolderCopy!Termination says.
FairSpec == Spec /\ WF_vars(Own) /\ []<>(phase # "working")

-----------------------------------------------------------------------------
(* Properties *)

\* Every variable has its type; a folder is current exactly while it is copied.
TypeOK ==
  /\ here \in [Folder -> {"absent", "container", "folder"}]
  /\ {there, foreign} \subseteq SUBSET Folder /\ outside \in 0..MaxOutside
  /\ open \in [Side -> Nat] /\ conn \in [Side -> BOOLEAN]
  /\ exists \in BOOLEAN /\ phase \in {"idle", "working", "ok", "err"}
  /\ listed \subseteq Msg /\ copies \in [Msg -> Nat] /\ excused \subseteq Msg
  /\ cancelled \in BOOLEAN /\ reading \in BOOLEAN
  /\ status \in {"idle", "connecting", "copying", "error"}
  /\ lastError \in BOOLEAN /\ created \in Nat /\ stamped \in BOOLEAN
  /\ result \in {"none", "ok", "err"}
  /\ pc \in {"connect", "connectTarget", "reconnect", "reconnectTarget",
             "listSource", "listTarget", "create", "loop", "folder", "drop",
             "finish", "close", "returned"}
  /\ todo \subseteq Folder /\ names \subseteq Folder
  /\ errors \subseteq Folder /\ whole \subseteq Folder
  /\ IF pc = "folder" THEN cur \in Folder ELSE cur = 0

\* Neither server ever holds a connection that the mailbox has lost track of,
\* however often connections are replaced, and copy returns with none open.
NoConnectionLeaks ==
  /\ \A s \in Side : open[s] = IF conn[s] THEN 1 ELSE 0
  /\ pc = "returned" => conn = Neither

\* No IMAP command goes to a client that is nil: the calling goroutine lists,
\* creates and copies with both connections only, and the fetcher of copyFolder
\* never reads while they are being replaced.
ClientsAreThere ==
  /\ pc \in {"listSource", "listTarget", "create", "loop", "folder"} => conn = Both
  /\ reading => conn = Both

\* copyFolders asks for no folder that the target had when it was listed or has got by an
\* earlier CREATE of this copy, the ones that a server added as superiors included.  Only an
\* entry with the same target account can be ahead of it.
CreatesOnlyMissing ==
  pc = "create" /\ todo # {} => NextFolder \notin there \/ NextFolder \in foreign

\* copy returns nil only if every folder it listed is on the target with all of
\* its messages, unless a signal came, and the mailbox remembers no error: neither
\* a failed folder nor a failed disconnect gets lost on the way to the caller.
NilMeansAllCopied ==
  pc = "returned" /\ result = "ok" =>
    /\ stamped /\ ~lastError /\ errors = {}
    /\ \A f \in names : f \in there /\ (f \in whole \/ cancelled)

\* A folder is left untried only if a folder failed before and the connections
\* could not be replaced (ARCHITECTURE.md, Per-Folder Copy Errors).
UntriedOnlyWithoutServer ==
  pc \in {"close", "returned"} /\ stamped /\ todo # {} =>
    errors # {} /\ lastError /\ conn = Neither

\* copy returns: no folder is tried for ever.
Termination == <>(pc = "returned")
=============================================================================
