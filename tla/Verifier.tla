------------------------------ MODULE Verifier ------------------------------
(***************************************************************************)
(* verifyMailbox (internal/verifier): list the folders of both servers     *)
(* with their message counts, then, for each folder that both have, select *)
(* it on either side and add up the sizes of its messages.  Each call may  *)
(* fail; the servers are at rest meanwhile, as ARCHITECTURE.md asks.       *)
(***************************************************************************)
EXTENDS Naturals, FiniteSetsExt

CONSTANTS
  Folder,             \* folder names, numbered in the order of sort
  Msg,                \* messages of the source
  SourceSizes,        \* the sizes of messages on the source
  MaxSize             \* the size of the largest message on the target

ASSUME VerifierAssumption ==
  /\ Folder \subseteq Nat /\ IsFiniteSet(Folder) /\ IsFiniteSet(Msg)
  /\ MaxSize \in Nat /\ SourceSizes \subseteq 1..MaxSize

VARIABLES
  kind,               \* per server, what each name is
  box,                \* per server and folder, the size of each message, or 0
  pc,
  names,              \* per server, the keys of srcMap and tgtMap
  count,              \* per server, their values
  size,               \* per server, SrcSize and TgtSize of the folders done
  todo,               \* common, those of it still to come
  err,                \* result.Err # nil
  uncounted,          \* history: a server left out a message count
  unsized             \* history: the size of a message could not be read

servers == <<kind, box>>

vars == <<servers, pc, names, count, size, todo, err, uncounted, unsized>>

Side == {"source", "target"}

\* Of a folder with messages of these sizes.
CountOf(sizes) == Cardinality({m \in Msg : sizes[m] # 0})
SizeOf(sizes) == MapThenSumSet(LAMBDA m : sizes[m], Msg)

Without(omitted, sizes) == [m \in Msg |-> IF m \in omitted THEN 0 ELSE sizes[m]]

Count(side, f) == CountOf(box[side][f])
Size(side, f) == SizeOf(box[side][f])

Selectable(side) == {f \in Folder : kind[side][f] = "folder"}

\* Variant with a bug: the maps are compared the other way round.
MissingFoldersReversed == names["target"] \ names["source"]

MissingFolders == names["source"] \ names["target"]

\* Variant with a bug: the folders are not looked up on the target.
CommonUnchecked == names["source"]

Common == names["source"] \cap names["target"]

\* Variants with a bug: one of the two numbers is not compared.
FolderOKBySize(f) == size["source"][f] = size["target"][f]
FolderOKByCount(f) == count["source"][f] = count["target"][f]

\* FolderResult.OK
FolderOK(f) ==
  count["source"][f] = count["target"][f] /\ size["source"][f] = size["target"][f]

\* MailboxResult.OK
OK == ~err /\ MissingFolders = {} /\ \A f \in Common : FolderOK(f)

Zero == [side \in Side |-> [f \in Folder |-> 0]]

-----------------------------------------------------------------------------
\* Folders of a copy that may have dropped or truncated messages.
Init ==
  /\ kind \in [Side -> [Folder -> {"container", "folder"}]]
  /\ box \in [Side -> [Folder -> [Msg -> 0..MaxSize]]]
  /\ \A f \in Folder, m \in Msg :
       /\ box["source"][f][m] \in SourceSizes \cup {0}
       /\ \A side \in Side : kind[side][f] = "container" => box[side][f][m] = 0
  /\ pc = "connect" /\ names = [side \in Side |-> {}] /\ count = Zero /\ size = Zero
  /\ todo = {} /\ err = FALSE /\ uncounted = FALSE /\ unsized = FALSE

\* Dial both servers; what is not connected is not closed either.
Connect ==
  /\ pc = "connect"
  /\ \/ pc' = "listSource" /\ UNCHANGED err
     \/ pc' = "done" /\ err' = TRUE
  /\ UNCHANGED <<servers, names, count, size, todo, uncounted, unsized>>

\* ListFolders.  A folder whose status lacks the count counts as empty.
List(side, next) ==
  \/ /\ names' = [names EXCEPT ![side] = Selectable(side)]
     /\ \E silent \in SUBSET Selectable(side) :
          /\ count' = [count EXCEPT ![side] = [f \in Folder |->
               IF f \in Selectable(side) \ silent THEN Count(side, f) ELSE 0]]
          /\ uncounted' = (uncounted \/ silent # {})
     /\ pc' = next /\ UNCHANGED err
  \/ err' = TRUE /\ pc' = "close" /\ UNCHANGED <<names, count, uncounted>>

ListSource ==
  /\ pc = "listSource"
  /\ List("source", "listTarget")
  /\ UNCHANGED <<servers, size, todo, unsized>>

ListTarget ==
  /\ pc = "listTarget"
  /\ List("target", "compare")
  /\ todo' = IF err' THEN {} ELSE Common'
  /\ UNCHANGED <<servers, size, unsized>>

\* folderTotalSize.  A message whose size the server leaves out counts for nothing, and
\* nobody is told; if the folder cannot be selected or read, the error is logged and all
\* of them count for nothing.
ReadSize(side, f, next) ==
  /\ \E silent \in SUBSET {m \in Msg : box[side][f][m] # 0} :
       /\ size' = [size EXCEPT ![side][f] = SizeOf(Without(silent, box[side][f]))]
       /\ unsized' = (unsized \/ silent # {})
  /\ pc' = next
  /\ UNCHANGED <<servers, names, count, err, uncounted>>

SourceSize ==
  /\ pc = "compare" /\ todo # {}
  /\ ReadSize("source", Min(todo), "compareTarget")
  /\ UNCHANGED todo

TargetSize ==
  /\ pc = "compareTarget"
  /\ ReadSize("target", Min(todo), "compare")
  /\ todo' = todo \ {Min(todo)}

Compared ==
  /\ pc = "compare" /\ todo = {}
  /\ pc' = "close"
  /\ UNCHANGED <<servers, names, count, size, todo, err, uncounted, unsized>>

\* The deferred Close of both connections.
Close ==
  /\ pc = "close"
  /\ pc' = "done" /\ err' \in {err, TRUE}
  /\ UNCHANGED <<servers, names, count, size, todo, uncounted, unsized>>

Done == pc = "done" /\ UNCHANGED vars

Next ==
  \/ Connect \/ ListSource \/ ListTarget \/ SourceSize \/ TargetSize \/ Compared
  \/ Close \/ Done

Spec == Init /\ [][Next]_vars

-----------------------------------------------------------------------------
(* Properties *)

SameCounts == \A f \in Selectable("source") : Count("source", f) = Count("target", f)
SameSizes  == \A f \in Selectable("source") : Size("source", f) = Size("target", f)

\* What a copy into an empty folder may have done to it: messages are lost or cut short.
OnlyLosses(f) == \A m \in Msg : box["target"][f][m] <= box["source"][f][m]

NoneDropped(f) == \A m \in Msg : box["source"][f][m] # 0 => box["target"][f][m] # 0
Intact(f) == box["target"][f] = box["source"][f]

\* Every variable has its type, and sizes are read of folders on both sides only.
TypeOK ==
  /\ kind \in [Side -> [Folder -> {"container", "folder"}]]
  /\ box \in [Side -> [Folder -> [Msg -> 0..MaxSize]]]
  /\ pc \in {"connect", "listSource", "listTarget", "compare", "compareTarget",
             "close", "done"}
  /\ names \in [Side -> SUBSET Folder]
  /\ count \in [Side -> [Folder -> Nat]] /\ size \in [Side -> [Folder -> Nat]]
  /\ \A side \in Side : todo \subseteq names[side]
  /\ err \in BOOLEAN /\ uncounted \in BOOLEAN /\ unsized \in BOOLEAN

\* A pass means an equal mailbox as far as it could be read: no folder is missing, and
\* counts and sizes agree.  So of the messages of a folder that suffered losses only,
\* none is dropped where counts were given, even if sizes could not be read, and each
\* is whole where sizes could be read, even if counts were left out.
PassMeansEqual ==
  pc = "done" /\ OK =>
    /\ Selectable("source") \subseteq Selectable("target")
    /\ uncounted \/ SameCounts
    /\ unsized \/ SameSizes
    /\ \A f \in Selectable("source") : OnlyLosses(f) =>
         (uncounted \/ NoneDropped(f)) /\ (unsized \/ Intact(f))

\* From servers that answer, a difference is reported only where there is one.
NoFalseAlarm ==
  pc = "done" /\ ~err /\ ~OK /\ ~uncounted /\ ~unsized =>
    ~(Selectable("source") \subseteq Selectable("target") /\ SameCounts /\ SameSizes)

\* "If a message was dropped or truncated during copy, either the count or the
\* size total will diverge, surfacing the discrepancy" (ARCHITECTURE.md:222).
LossSurfaces == pc = "done" /\ OK /\ ~uncounted => SameCounts /\ SameSizes
=============================================================================
