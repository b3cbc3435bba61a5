-------------------------- MODULE MailboxCopyProofs --------------------------
(***************************************************************************)
(* Theorems about MailboxCopy, for any folders and hierarchies, any        *)
(* messages, any number of changes by others, and whatever copyFolder does *)
(* within its contract.                                                    *)
(***************************************************************************)
EXTENDS MailboxCopy, WellFoundedInduction, FiniteSetTheorems, TLAPS

-----------------------------------------------------------------------------
(* The invariant *)

\* The calls that are in progress, and what is there of a folder's copy.
Types ==
  /\ here \in [Folder -> {"absent", "container", "folder"}]
  /\ there \subseteq Folder /\ foreign \subseteq Folder /\ outside \in 0..MaxOutside
  /\ exists \in BOOLEAN /\ phase \in {"idle", "working", "ok", "err"}
  /\ listed \subseteq Msg /\ copies \in [Msg -> Nat] /\ excused \subseteq Msg
  /\ cancelled \in BOOLEAN /\ reading \in BOOLEAN
  /\ status \in {"idle", "connecting", "copying", "error"}
  /\ lastError \in BOOLEAN /\ created \in Nat /\ stamped \in BOOLEAN
  /\ result \in {"none", "ok", "err"}
  /\ pc \in {"connect", "connectTarget", "reconnect", "reconnectTarget",
             "listSource", "listTarget", "create", "loop", "folder", "drop",
             "finish", "close", "returned"}
  /\ todo \subseteq Folder /\ names \subseteq Folder
  /\ errors \subseteq Folder /\ whole \subseteq Folder
  /\ IF pc = "folder" THEN cur \in Folder ELSE cur = 0

\* Which connections there are at each point of copy.
SourceOnly == [s \in Side |-> s = "source"]
Opened(clients) == [s \in Side |-> IF clients[s] THEN 1 ELSE 0]

Linked ==
  /\ conn \in {Neither, SourceOnly, Both}
  /\ open = Opened(conn)
  /\ conn = SourceOnly <=> pc \in {"connectTarget", "reconnectTarget"}
  /\ pc \in {"listSource", "listTarget", "create", "loop", "folder", "drop"} => conn = Both
  /\ pc \in {"reconnect", "finish", "returned"} => conn = Neither

\* copyFolder, and its fetcher, work only while it is called.
Within ==
  /\ phase = "idle" <=> pc # "folder"
  /\ reading => phase = "working"
  /\ phase = "ok" => exists /\ (cancelled \/ Contract!Missing = {})

\* No folder still to be created has come into being, but for those of others.
Uncreated == pc = "create" => todo \cap there \subseteq foreign

\* Errors are remembered, and a rest of the folders is left only after some.
Errors ==
  /\ lastError => errors # {} \/ result = "err"
  /\ pc \in {"drop", "reconnect", "reconnectTarget", "finish"} => errors # {}
  /\ pc = "finish" => lastError
  /\ pc \notin {"close", "returned"} => result = "none" /\ ~stamped
  /\ result = "ok" => errors = {} /\ todo = {} /\ stamped
  /\ stamped /\ todo # {} => errors # {} /\ lastError /\ conn = Neither

\* A listed folder is still to come, has failed, is being copied, or is there.
Accounted ==
  /\ pc \in {"connect", "connectTarget", "listSource", "listTarget", "create"} => names = {}
  /\ \A f \in names :
       f \in todo \/ f \in errors \/ f = cur \/ (f \in there /\ (f \in whole \/ cancelled))

IInv == Types /\ Linked /\ Within /\ Uncreated /\ Errors /\ Accounted

-----------------------------------------------------------------------------
(* It holds *)

\* Folders have a least one.
LEMMA MinIsLeast ==
  ASSUME NEW S \in SUBSET Nat, S # {}
  PROVE  Min(S) \in S /\ \A y \in S : Min(S) <= y
<1>1. PICK R : IsWellFoundedOn(R, Nat) /\ \A x, y \in Nat : <<y, x>> \in R <=> y < x
  <2>1. \A x, y \in Nat : <<y, x>> \in OpToRel(<, Nat) <=> y < x
    BY DEF OpToRel
  <2> QED
    BY <2>1, NatLessThanWellFounded, Zenon
<1>2. PICK x \in S : \A y \in S : ~(<<y, x>> \in R)
  BY <1>1, WFMin
<1>3. ASSUME NEW y \in S PROVE x <= y
  <2>1. x \in Nat /\ y \in Nat
    OBVIOUS
  <2>2. ~(y < x)
    BY <1>1, <1>2, <2>1, Zenon
  <2> QED
    BY <2>1, <2>2
<1> QED
  BY <1>2, <1>3 DEF Min

\* So the next folder of a loop is one of those to come.
LEMMA NextIsToCome ==
  ASSUME todo \subseteq Folder, todo # {}
  PROVE  /\ NextFolder \in todo
         /\ \A made \in Made(NextFolder) : /\ NextFolder \in made /\ made \subseteq Folder
                                           /\ made \cap todo = {NextFolder}
<1>1. todo \in SUBSET Nat
  BY MailboxCopyAssumption
<1>2. NextFolder \in todo /\ \A g \in todo : NextFolder <= g
  BY <1>1, MinIsLeast DEF NextFolder
<1>3. \A g \in Superior[NextFolder] : g \in Folder /\ g \in Nat /\ g < NextFolder
  BY <1>2, MailboxCopyAssumption
<1>4. Superior[NextFolder] \cap todo = {}
  BY <1>1, <1>2, <1>3
<1> QED
  BY <1>2, <1>3, <1>4 DEF Made

\* What a server makes of a name holds it.
LEMMA MadeHolds == ASSUME NEW f \in Folder, NEW made \in Made(f) PROVE f \in made /\ made \subseteq Folder
  BY MailboxCopyAssumption DEF Made

\* Nothing has been called yet.
LEMMA InitHolds == Init => IInv
<1> SUFFICES ASSUME Init PROVE IInv
  OBVIOUS
<1>1. Types
  <2>1. /\ exists \in BOOLEAN /\ cancelled \in BOOLEAN /\ reading \in BOOLEAN
        /\ lastError \in BOOLEAN /\ stamped \in BOOLEAN
    BY DEF Init, NoCopy
  <2>2. copies \in [Msg -> Nat]
    BY DEF Init, NoCopy
  <2> QED
    BY <2>1, <2>2, MailboxCopyAssumption DEF Init, NoCopy, Types
<1>2. Linked
  <2>1. Neither # SourceOnly /\ Both # SourceOnly
    BY DEF Neither, Both, SourceOnly, Side
  <2> QED
    BY <2>1 DEF Init, Linked, Opened
<1> QED
  BY <1>1, <1>2 DEF Init, NoCopy, IInv, Within, Uncreated, Errors, Accounted

\* Each action keeps the types.
LEMMA NextTypes == ASSUME Types, [Next]_vars PROVE Types'
<1> USE DEF Types, servers, copying, links, report, progress, First
<1>1. CASE AlreadyConnected
  BY <1>1 DEF AlreadyConnected
<1>2. CASE DialSource
  BY <1>2 DEF DialSource, ConnectFails
<1>3. CASE DialTarget
  BY <1>3 DEF DialTarget, Connected, CloseSource, ConnectFails
<1>4. CASE ListSource
  <2>1. CASE Abandon
    BY <1>4, <2>1 DEF ListSource, Abandon
  <2>2. CASE ~Abandon
    BY <1>4, <2>2 DEF ListSource, Selectable
  <2> QED
    BY <2>1, <2>2
<1>5. CASE ListTarget
  <2>1. CASE Abandon
    BY <1>5, <2>1 DEF ListTarget, Abandon
  <2>2. CASE ~Abandon
    BY <1>5, <2>2 DEF ListTarget
  <2> QED
    BY <2>1, <2>2
<1>6. CASE CreateFolder
  <2>1. /\ todo' \subseteq todo
        /\ UNCHANGED <<here, outside, foreign, copying, links, status, lastError, stamped, result,
                       pc, cur, names, errors, whole>>
    BY <1>6 DEF CreateFolder
  <2>2. created' \in Nat
    BY <1>6 DEF CreateFolder
  <2>3. there' \subseteq Folder
    <3>1. CASE UNCHANGED there
      BY <3>1
    <3>2. CASE \E made \in Made(NextFolder) : there' = there \cup made
      <4>1. todo # {}
        BY <1>6 DEF CreateFolder
      <4> QED
        BY <3>2, <4>1, NextIsToCome
    <3> QED
      BY <1>6, <3>1, <3>2 DEF CreateFolder
  <2> QED
    BY <2>1, <2>2, <2>3
<1>7. CASE ListFolders
  <2>1. CASE Abandon
    BY <1>7, <2>1 DEF ListFolders, Abandon
  <2>2. CASE ~Abandon
    BY <1>7, <2>2 DEF ListFolders, Selectable
  <2> QED
    BY <2>1, <2>2
<1>8. ASSUME NEW f \in Folder, StartFolder(f) PROVE Types'
  BY <1>8 DEF StartFolder, Rest
<1>9. CASE FolderReturns
  <2>1. /\ cur \in Folder /\ cur' = 0 /\ pc' \in {"loop", "drop"}
        /\ UNCHANGED <<here, outside, foreign, links, report, todo, names>>
    BY <1>9 DEF FolderReturns, FolderFails
  <2>2. there' \subseteq Folder
    BY <1>9, <2>1, MadeHolds DEF FolderReturns
  <2>3. whole' \subseteq Folder /\ errors' \subseteq Folder
    BY <1>9, <2>1 DEF FolderReturns, FolderFails
  <2>4. /\ exists' \in BOOLEAN /\ phase' = "idle" /\ listed' \subseteq Msg
        /\ copies' \in [Msg -> Nat] /\ excused' \subseteq Msg
        /\ UNCHANGED <<cancelled, reading>>
    BY <1>9 DEF FolderReturns, ForgetCopy
  <2> QED
    BY <2>1, <2>2, <2>3, <2>4
<1>10. CASE Finish
  BY <1>10 DEF Finish
<1>11. CASE DropConnections
  BY <1>11 DEF DropConnections, Disconnect
<1>12. CASE CloseConnections
  BY <1>12 DEF CloseConnections, Disconnect
<1>13. CASE FolderSteps
  <2>1. /\ pc = "folder" /\ Contract!Next
        /\ UNCHANGED <<servers, links, report, progress>>
    BY <1>13 DEF FolderSteps
  <2>2. CASE Contract!Ensure
    BY <2>1, <2>2 DEF Contract!Ensure
  <2>3. CASE Contract!List
    BY <2>1, <2>3 DEF Contract!List
  <2>4. CASE Contract!Read
    BY <2>1, <2>4 DEF Contract!Read
  <2>5. ASSUME NEW m \in Msg, Contract!Store(m) PROVE Types'
    BY <2>1, <2>5 DEF Contract!Store
  <2>6. ASSUME NEW r \in {"ok", "err"}, Contract!Return(r) PROVE Types'
    BY <2>1, <2>6 DEF Contract!Return
  <2>7. CASE Contract!Excuse
    BY <2>1, <2>7 DEF Contract!Excuse
  <2>8. CASE Contract!Cancel
    BY <2>1, <2>8 DEF Contract!Cancel
  <2> QED
    BY <2>1, <2>2, <2>3, <2>4, <2>5, <2>6, <2>7, <2>8 DEF Contract!Next
<1>14. CASE Cancel
  BY <1>14 DEF Cancel, Contract!Cancel
<1>15. ASSUME NEW f \in Folder, UserChanges(f) PROVE Types'
  BY <1>15, MailboxCopyAssumption DEF UserChanges
<1>16. ASSUME NEW f \in Folder, RivalCreates(f) PROVE Types'
  <2>1. PICK made \in Made(f) : there' = there \cup made /\ foreign' = foreign \cup (made \ there)
    BY <1>16 DEF RivalCreates
  <2>2. made \subseteq Folder
    BY MadeHolds
  <2>3. there' \subseteq Folder /\ foreign' \subseteq Folder
    BY <2>1, <2>2
  <2>4. outside' \in 0..MaxOutside
    BY <1>16, MailboxCopyAssumption DEF RivalCreates
  <2>5. UNCHANGED <<here, copying, links, report, progress>>
    BY <1>16 DEF RivalCreates
  <2> QED
    BY <2>3, <2>4, <2>5
<1>17. CASE Returned
  BY <1>17 DEF Returned, vars
<1>18. CASE UNCHANGED vars
  BY <1>18 DEF vars
<1> QED
  BY <1>1, <1>2, <1>3, <1>4, <1>5, <1>6, <1>7, <1>8, <1>9,
     <1>10, <1>11, <1>12, <1>13, <1>14, <1>15, <1>16, <1>17, <1>18 DEF Next, Own

\* How the links change when a connection is dialled or closed.
LEMMA Links ==
  /\ Neither # SourceOnly /\ Both # SourceOnly /\ Neither # Both
  /\ [Neither EXCEPT !["source"] = TRUE] = SourceOnly
  /\ [SourceOnly EXCEPT !["target"] = TRUE] = Both
  /\ [SourceOnly EXCEPT !["source"] = FALSE] = Neither
  /\ [Opened(Neither) EXCEPT !["source"] = @ + 1] = Opened(SourceOnly)
  /\ [Opened(SourceOnly) EXCEPT !["target"] = @ + 1] = Opened(Both)
  /\ [Opened(SourceOnly) EXCEPT !["source"] = @ - 1] = Opened(Neither)
  /\ \A clients \in {Neither, Both} :
       [s \in Side |-> IF clients[s] THEN Opened(clients)[s] - 1 ELSE Opened(clients)[s]]
         = Opened(Neither)
<1>1. Neither # SourceOnly /\ Both # SourceOnly /\ Neither # Both
  BY DEF Neither, SourceOnly, Both, Side
<1>2. /\ [Neither EXCEPT !["source"] = TRUE] = SourceOnly
      /\ [SourceOnly EXCEPT !["target"] = TRUE] = Both
      /\ [SourceOnly EXCEPT !["source"] = FALSE] = Neither
  BY DEF Neither, SourceOnly, Both, Side
<1> DEFINE none == [s \in Side |-> 0]
           first == [s \in Side |-> IF s = "source" THEN 1 ELSE 0]
           all == [s \in Side |-> 1]
<1>3. Opened(Neither) = none /\ Opened(SourceOnly) = first /\ Opened(Both) = all
  BY DEF Opened, Neither, SourceOnly, Both, Side
<1>4. [none EXCEPT !["source"] = @ + 1] = first
  BY DEF Side
<1>5. [first EXCEPT !["target"] = @ + 1] = all
  <2>1. first["target"] + 1 = 1
    BY DEF Side
  <2>2. [first EXCEPT !["target"] = 1] = all
    BY DEF Side
  <2> QED
    BY <2>1, <2>2, Zenon
<1>6. [first EXCEPT !["source"] = @ - 1] = none
  <2>1. first["source"] - 1 = 0
    BY DEF Side
  <2>2. [first EXCEPT !["source"] = 0] = none
    BY DEF Side
  <2> QED
    BY <2>1, <2>2, Zenon
<1>7. [s \in Side |-> IF Neither[s] THEN Opened(Neither)[s] - 1 ELSE Opened(Neither)[s]]
        = Opened(Neither)
  BY <1>3 DEF Neither
<1>8. [s \in Side |-> IF Both[s] THEN Opened(Both)[s] - 1 ELSE Opened(Both)[s]]
        = Opened(Neither)
  BY <1>3 DEF Both
<1>9. \A clients \in {Neither, Both} :
        [s \in Side |-> IF clients[s] THEN Opened(clients)[s] - 1 ELSE Opened(clients)[s]]
          = Opened(Neither)
  BY <1>7, <1>8, Zenon
<1> HIDE DEF none, first, all
<1> QED
  BY <1>1, <1>2, <1>3, <1>4, <1>5, <1>6, <1>9

\* The source is dialled first.
LEMMA SourceDialled ==
  ASSUME conn = Neither, open = Opened(Neither),
         conn' = [conn EXCEPT !["source"] = TRUE], open' = [open EXCEPT !["source"] = @ + 1]
  PROVE  conn' = SourceOnly /\ open' = Opened(SourceOnly)
  BY Links, Zenon

\* Then the target.
LEMMA TargetDialled ==
  ASSUME conn = SourceOnly, open = Opened(SourceOnly),
         conn' = [conn EXCEPT !["target"] = TRUE], open' = [open EXCEPT !["target"] = @ + 1]
  PROVE  conn' = Both /\ open' = Opened(Both)
  BY Links, Zenon

\* Disconnecting closes whatever is open.
LEMMA Disconnected ==
  ASSUME conn \in {Neither, Both}, open = Opened(conn),
         open' = [s \in Side |-> IF conn[s] THEN open[s] - 1 ELSE open[s]]
  PROVE  open' = Opened(Neither)
<1>1. open' = [s \in Side |-> IF conn[s] THEN Opened(conn)[s] - 1 ELSE Opened(conn)[s]]
  OBVIOUS
<1> QED
  BY <1>1, Links, Zenon

\* Every connection that is opened is closed.
LEMMA NextLinked == ASSUME Types, Linked, [Next]_vars PROVE Linked'
<1> USE DEF Linked, servers, copying, links, report, progress, First
<1>1. CASE AlreadyConnected
  BY <1>1, Links DEF AlreadyConnected
<1>2. CASE DialSource
  <2>1. pc \in {"connect", "reconnect"} /\ conn = Neither /\ open = Opened(Neither)
    BY <1>2 DEF DialSource
  <2>2. CASE /\ conn' = [conn EXCEPT !["source"] = TRUE]
             /\ open' = [open EXCEPT !["source"] = @ + 1]
             /\ pc' = IF First THEN "connectTarget" ELSE "reconnectTarget"
    <3>1. conn' = SourceOnly /\ open' = Opened(SourceOnly)
      BY <2>1, <2>2, SourceDialled, Zenon
    <3> QED
      BY <2>2, <3>1, Links
  <2>3. CASE ConnectFails /\ UNCHANGED links
    BY <2>1, <2>3, Links DEF ConnectFails
  <2>4. \/ /\ conn' = [conn EXCEPT !["source"] = TRUE]
           /\ open' = [open EXCEPT !["source"] = @ + 1]
           /\ pc' = IF First THEN "connectTarget" ELSE "reconnectTarget"
        \/ ConnectFails /\ UNCHANGED links
    BY <1>2 DEF DialSource
  <2> QED
    BY <2>2, <2>3, <2>4
<1>3. CASE DialTarget
  <2>1. /\ pc \in {"connectTarget", "reconnectTarget"}
        /\ conn = SourceOnly /\ open = Opened(SourceOnly)
    BY <1>3 DEF DialTarget
  <2>2. CASE /\ conn' = [conn EXCEPT !["target"] = TRUE]
             /\ open' = [open EXCEPT !["target"] = @ + 1]
             /\ Connected
    <3>1. conn' = Both /\ open' = Opened(Both)
      BY <2>1, <2>2, TargetDialled, Zenon
    <3> QED
      BY <2>1, <2>2, <3>1, Links DEF Connected
  <2>3. CASE CloseSource /\ ConnectFails
    <3>1. conn' = Neither /\ open' = Opened(Neither)
      BY <2>1, <2>3, Links DEF CloseSource
    <3> QED
      BY <2>1, <2>3, <3>1, Links DEF ConnectFails
  <2>4. \/ /\ conn' = [conn EXCEPT !["target"] = TRUE]
           /\ open' = [open EXCEPT !["target"] = @ + 1]
           /\ Connected
        \/ CloseSource /\ ConnectFails
    BY <1>3 DEF DialTarget
  <2> QED
    BY <2>2, <2>3, <2>4
<1>4. CASE ListSource
  BY <1>4 DEF ListSource, Abandon
<1>5. CASE ListTarget
  BY <1>5 DEF ListTarget, Abandon
<1>6. CASE CreateFolder
  BY <1>6 DEF CreateFolder
<1>7. CASE ListFolders
  BY <1>7 DEF ListFolders, Abandon
<1>8. ASSUME NEW f \in Folder, StartFolder(f) PROVE Linked'
  BY <1>8 DEF StartFolder
<1>9. CASE FolderReturns
  BY <1>9 DEF FolderReturns, FolderFails, ForgetCopy
<1>10. CASE Finish
  BY <1>10 DEF Finish
<1>11. CASE DropConnections
  <2>1. pc = "drop" /\ pc' = "reconnect" /\ conn' = Neither /\ conn \in {Neither, Both}
        /\ open' = [s \in Side |-> IF conn[s] THEN open[s] - 1 ELSE open[s]]
    BY <1>11 DEF DropConnections, Disconnect
  <2>2. open' = Opened(Neither)
    BY <2>1, Disconnected
  <2> QED
    BY <2>1, <2>2, Links
<1>12. CASE CloseConnections
  <2>1. pc = "close" /\ pc' = "returned" /\ conn' = Neither /\ conn \in {Neither, Both}
        /\ open' = [s \in Side |-> IF conn[s] THEN open[s] - 1 ELSE open[s]]
    BY <1>12 DEF CloseConnections, Disconnect
  <2>2. open' = Opened(Neither)
    BY <2>1, Disconnected
  <2> QED
    BY <2>1, <2>2, Links
<1>13. CASE FolderSteps
  BY <1>13 DEF FolderSteps, Contract!Next, Contract!Ensure, Contract!List, Contract!Read,
      Contract!Store, Contract!Return, Contract!Excuse, Contract!Cancel
<1>14. CASE Cancel
  BY <1>14 DEF Cancel, Contract!Cancel
<1>15. ASSUME NEW f \in Folder, UserChanges(f) PROVE Linked'
  BY <1>15 DEF UserChanges
<1>16. ASSUME NEW f \in Folder, RivalCreates(f) PROVE Linked'
  BY <1>16, MadeHolds DEF RivalCreates
<1>17. CASE Returned
  BY <1>17 DEF Returned, vars
<1>18. CASE UNCHANGED vars
  BY <1>18 DEF vars
<1> QED
  BY <1>1, <1>2, <1>3, <1>4, <1>5, <1>6, <1>7, <1>8, <1>9,
     <1>10, <1>11, <1>12, <1>13, <1>14, <1>15, <1>16, <1>17, <1>18 DEF Next, Own

\* copyFolder returns as its contract says.
LEMMA NextWithin == ASSUME Types, Within, [Next]_vars PROVE Within'
<1> USE DEF Types, Within, servers, copying, links, report, progress, First, Contract!Missing
<1>1. CASE AlreadyConnected
  BY <1>1 DEF AlreadyConnected
<1>2. CASE DialSource
  BY <1>2 DEF DialSource, ConnectFails
<1>3. CASE DialTarget
  BY <1>3 DEF DialTarget, Connected, CloseSource, ConnectFails
<1>4. CASE ListSource
  BY <1>4 DEF ListSource, Abandon
<1>5. CASE ListTarget
  BY <1>5 DEF ListTarget, Abandon
<1>6. CASE CreateFolder
  BY <1>6 DEF CreateFolder
<1>7. CASE ListFolders
  BY <1>7 DEF ListFolders, Abandon
<1>8. ASSUME NEW f \in Folder, StartFolder(f) PROVE Within'
  BY <1>8 DEF StartFolder
<1>9. CASE FolderReturns
  BY <1>9 DEF FolderReturns, FolderFails, ForgetCopy
<1>10. CASE Finish
  BY <1>10 DEF Finish
<1>11. CASE DropConnections
  BY <1>11 DEF DropConnections, Disconnect
<1>12. CASE CloseConnections
  BY <1>12 DEF CloseConnections, Disconnect
<1>13. CASE FolderSteps
  <2>1. /\ pc = "folder" /\ phase = "working" /\ Contract!Next
        /\ UNCHANGED <<servers, links, report, progress>>
    BY <1>13 DEF FolderSteps
  <2>2. CASE Contract!Ensure \/ Contract!List \/ Contract!Read \/ Contract!Excuse \/ Contract!Cancel
    BY <2>1, <2>2 DEF Contract!Ensure, Contract!List, Contract!Read, Contract!Excuse,
                      Contract!Cancel
  <2>3. ASSUME NEW m \in Msg, Contract!Store(m) PROVE Within'
    BY <2>1, <2>3 DEF Contract!Store
  <2>4. ASSUME NEW r \in {"ok", "err"}, Contract!Return(r) PROVE Within'
    BY <2>1, <2>4 DEF Contract!Return
  <2> QED
    BY <2>1, <2>2, <2>3, <2>4 DEF Contract!Next
<1>14. CASE Cancel
  BY <1>14 DEF Cancel, Contract!Cancel
<1>15. ASSUME NEW f \in Folder, UserChanges(f) PROVE Within'
  BY <1>15 DEF UserChanges
<1>16. ASSUME NEW f \in Folder, RivalCreates(f) PROVE Within'
  BY <1>16, MadeHolds DEF RivalCreates
<1>17. CASE Returned
  BY <1>17 DEF Returned, vars
<1>18. CASE UNCHANGED vars
  BY <1>18 DEF vars
<1> QED
  BY <1>1, <1>2, <1>3, <1>4, <1>5, <1>6, <1>7, <1>8, <1>9,
     <1>10, <1>11, <1>12, <1>13, <1>14, <1>15, <1>16, <1>17, <1>18 DEF Next, Own

\* A created folder is not to be created any more.
LEMMA NextUncreated == ASSUME Types, Uncreated, [Next]_vars PROVE Uncreated'
<1> USE DEF Uncreated, servers, copying, links, report, progress, First
<1>1. CASE AlreadyConnected
  BY <1>1 DEF AlreadyConnected
<1>2. CASE DialSource
  BY <1>2 DEF DialSource, ConnectFails
<1>3. CASE DialTarget
  BY <1>3 DEF DialTarget, Connected, CloseSource, ConnectFails
<1>4. CASE ListSource
  BY <1>4 DEF ListSource, Abandon
<1>5. CASE ListTarget
  BY <1>5 DEF ListTarget, Abandon
<1>6. CASE CreateFolder
  <2>1. /\ pc = "create" /\ pc' = "create" /\ todo # {} /\ todo' = todo \ {NextFolder}
        /\ \/ \E made \in Made(NextFolder) : there' = there \cup made
           \/ there' = there
        /\ foreign' = foreign
    BY <1>6 DEF CreateFolder
  <2>2. todo \subseteq Folder
    BY DEF Types
  <2>3. \A made \in Made(NextFolder) : made \cap todo' = {}
    BY <2>1, <2>2, NextIsToCome
  <2>4. todo' \cap there' \subseteq todo \cap there
    BY <2>1, <2>3
  <2> QED
    BY <2>1, <2>4
<1>7. CASE ListFolders
  BY <1>7 DEF ListFolders, Abandon
<1>8. ASSUME NEW f \in Folder, StartFolder(f) PROVE Uncreated'
  BY <1>8 DEF StartFolder
<1>9. CASE FolderReturns
  BY <1>9 DEF FolderReturns, FolderFails, ForgetCopy, Types
<1>10. CASE Finish
  BY <1>10 DEF Finish
<1>11. CASE DropConnections
  BY <1>11 DEF DropConnections, Disconnect
<1>12. CASE CloseConnections
  BY <1>12 DEF CloseConnections, Disconnect
<1>13. CASE FolderSteps
  BY <1>13 DEF FolderSteps, Contract!Next, Contract!Ensure, Contract!List, Contract!Read,
      Contract!Store, Contract!Return, Contract!Excuse, Contract!Cancel
<1>14. CASE Cancel
  BY <1>14 DEF Cancel, Contract!Cancel
<1>15. ASSUME NEW f \in Folder, UserChanges(f) PROVE Uncreated'
  BY <1>15 DEF UserChanges
<1>16. ASSUME NEW f \in Folder, RivalCreates(f) PROVE Uncreated'
  BY <1>16, MadeHolds DEF RivalCreates
<1>17. CASE Returned
  BY <1>17 DEF Returned, vars
<1>18. CASE UNCHANGED vars
  BY <1>18 DEF vars
<1> QED
  BY <1>1, <1>2, <1>3, <1>4, <1>5, <1>6, <1>7, <1>8, <1>9,
     <1>10, <1>11, <1>12, <1>13, <1>14, <1>15, <1>16, <1>17, <1>18 DEF Next, Own

\* No error is lost on the way to the result.
LEMMA NextErrors == ASSUME Types, Linked, Errors, [Next]_vars PROVE Errors'
<1> USE DEF Types, Errors, Linked, servers, copying, links, report, progress, First
<1>1. CASE AlreadyConnected
  BY <1>1 DEF AlreadyConnected
<1>2. CASE DialSource
  BY <1>2, Links DEF DialSource, ConnectFails
<1>3. CASE DialTarget
  BY <1>3, Links DEF DialTarget, Connected, CloseSource, ConnectFails
<1>4. CASE ListSource
  BY <1>4 DEF ListSource, Abandon
<1>5. CASE ListTarget
  BY <1>5 DEF ListTarget, Abandon
<1>6. CASE CreateFolder
  BY <1>6 DEF CreateFolder
<1>7. CASE ListFolders
  BY <1>7 DEF ListFolders, Abandon
<1>8. ASSUME NEW f \in Folder, StartFolder(f) PROVE Errors'
  BY <1>8 DEF StartFolder
<1>9. CASE FolderReturns
  BY <1>9 DEF FolderReturns, FolderFails, ForgetCopy
<1>10. CASE Finish
  BY <1>10 DEF Finish
<1>11. CASE DropConnections
  BY <1>11 DEF DropConnections, Disconnect
<1>12. CASE CloseConnections
  BY <1>12 DEF CloseConnections, Disconnect
<1>13. CASE FolderSteps
  BY <1>13 DEF FolderSteps, Contract!Next, Contract!Ensure, Contract!List, Contract!Read,
      Contract!Store, Contract!Return, Contract!Excuse, Contract!Cancel
<1>14. CASE Cancel
  BY <1>14 DEF Cancel, Contract!Cancel
<1>15. ASSUME NEW f \in Folder, UserChanges(f) PROVE Errors'
  BY <1>15 DEF UserChanges
<1>16. ASSUME NEW f \in Folder, RivalCreates(f) PROVE Errors'
  BY <1>16, MadeHolds DEF RivalCreates
<1>17. CASE Returned
  BY <1>17 DEF Returned, vars
<1>18. CASE UNCHANGED vars
  BY <1>18 DEF vars
<1> QED
  BY <1>1, <1>2, <1>3, <1>4, <1>5, <1>6, <1>7, <1>8, <1>9,
     <1>10, <1>11, <1>12, <1>13, <1>14, <1>15, <1>16, <1>17, <1>18 DEF Next, Own

\* No listed folder is forgotten.
LEMMA NextAccounted == ASSUME Types, Within, Accounted, [Next]_vars PROVE Accounted'
<1> USE DEF Types, Within, Accounted, servers, copying, links, report, progress, First
<1>1. CASE AlreadyConnected
  BY <1>1 DEF AlreadyConnected
<1>2. CASE DialSource
  BY <1>2 DEF DialSource, ConnectFails
<1>3. CASE DialTarget
  BY <1>3 DEF DialTarget, Connected, CloseSource, ConnectFails
<1>4. CASE ListSource
  BY <1>4 DEF ListSource, Abandon
<1>5. CASE ListTarget
  BY <1>5 DEF ListTarget, Abandon
<1>6. CASE CreateFolder
  BY <1>6 DEF CreateFolder
<1>7. CASE ListFolders
  BY <1>7 DEF ListFolders, Abandon, Selectable
<1>8. ASSUME NEW f \in Folder, StartFolder(f) PROVE Accounted'
  BY <1>8, MailboxCopyAssumption DEF StartFolder, Rest
<1>9. CASE FolderReturns
  BY <1>9, MadeHolds DEF FolderReturns, FolderFails, ForgetCopy
<1>10. CASE Finish
  BY <1>10 DEF Finish
<1>11. CASE DropConnections
  BY <1>11 DEF DropConnections, Disconnect
<1>12. CASE CloseConnections
  BY <1>12 DEF CloseConnections, Disconnect
<1>13. CASE FolderSteps
  BY <1>13 DEF FolderSteps, Contract!Next, Contract!Ensure, Contract!List, Contract!Read,
      Contract!Store, Contract!Return, Contract!Excuse, Contract!Cancel
<1>14. CASE Cancel
  BY <1>14 DEF Cancel, Contract!Cancel
<1>15. ASSUME NEW f \in Folder, UserChanges(f) PROVE Accounted'
  BY <1>15 DEF UserChanges
<1>16. ASSUME NEW f \in Folder, RivalCreates(f) PROVE Accounted'
  BY <1>16, MadeHolds DEF RivalCreates
<1>17. CASE Returned
  BY <1>17 DEF Returned, vars
<1>18. CASE UNCHANGED vars
  BY <1>18 DEF vars
<1> QED
  BY <1>1, <1>2, <1>3, <1>4, <1>5, <1>6, <1>7, <1>8, <1>9,
     <1>10, <1>11, <1>12, <1>13, <1>14, <1>15, <1>16, <1>17, <1>18 DEF Next, Own

\* The inductive invariant.
LEMMA Invariant == Spec => []IInv
<1>1. IInv /\ [Next]_vars => IInv'
  BY NextTypes, NextLinked, NextWithin, NextUncreated, NextErrors, NextAccounted DEF IInv
<1> QED
  BY <1>1, InitHolds, PTL DEF Spec

-----------------------------------------------------------------------------
(* The theorems *)

\* The types hold throughout.
THEOREM TypeCorrect == Spec => []TypeOK
<1>1. Types /\ Linked => TypeOK
  <2>1. Neither \in [Side -> BOOLEAN] /\ SourceOnly \in [Side -> BOOLEAN] /\ Both \in [Side -> BOOLEAN]
    BY DEF Neither, SourceOnly, Both
  <2>2. Linked => conn \in [Side -> BOOLEAN]
    BY <2>1 DEF Linked
  <2>3. Linked => open \in [Side -> Nat]
    BY DEF Linked, Opened
  <2> QED
    BY <2>2, <2>3 DEF Types, TypeOK
<1> QED
  BY <1>1, Invariant, PTL DEF IInv

\* However often connections are replaced, none is lost track of.
THEOREM NothingLeaks == Spec => []NoConnectionLeaks
<1>1. Linked => NoConnectionLeaks
  BY DEF Linked, Opened, NoConnectionLeaks
<1> QED
  BY <1>1, Invariant, PTL DEF IInv

\* Nobody lists, creates, copies or reads without both connections.
THEOREM NeverWithoutClient == Spec => []ClientsAreThere
<1>1. Types /\ Linked /\ Within => ClientsAreThere
  BY DEF Types, Linked, Within, ClientsAreThere
<1> QED
  BY <1>1, Invariant, PTL DEF IInv

\* A folder that a server has made as a superior of another is not asked for.
THEOREM OnlyMissingCreated == Spec => []CreatesOnlyMissing
<1>1. Types /\ Uncreated => CreatesOnlyMissing
  BY NextIsToCome DEF Types, Uncreated, CreatesOnlyMissing
<1> QED
  BY <1>1, Invariant, PTL DEF IInv

\* nil means that all of what was listed is there.
THEOREM NilIsHonest == Spec => []NilMeansAllCopied
<1>1. Types /\ Errors /\ Accounted => NilMeansAllCopied
  BY MailboxCopyAssumption DEF Types, Errors, Accounted, NilMeansAllCopied
<1> QED
  BY <1>1, Invariant, PTL DEF IInv

\* Only a lost server makes copy leave folders untried.
THEOREM UntriedIsExcused == Spec => []UntriedOnlyWithoutServer
<1>1. Errors => UntriedOnlyWithoutServer
  BY DEF Errors, UntriedOnlyWithoutServer
<1> QED
  BY <1>1, Invariant, PTL DEF IInv

-----------------------------------------------------------------------------
(* The copy comes to an end, as far as that is a matter of safety *)

\* More than the steps that copy still has to take, those of copyFolder not counted, at
\* a place of it with k folders to come, n in all.
LeftAt(place, k, n) ==
  CASE place = "connect" -> 7 * n + 8
    [] place = "connectTarget" -> 7 * n + 7
    [] place = "listSource" -> 7 * n + 6
    [] place = "listTarget" -> 7 * n + 5
    [] place = "create" -> 6 * n + k + 4
    [] place = "folder" -> 6 * k + 8
    [] place = "drop" -> 6 * k + 7
    [] place = "reconnect" -> 6 * k + 6
    [] place = "reconnectTarget" -> 6 * k + 5
    [] place = "loop" -> 6 * k + 3
    [] place = "finish" -> 6 * k + 2
    [] place = "close" -> 1
    [] place = "returned" -> 0

Left == LeftAt(pc, Cardinality(todo), Cardinality(Folder))

Place == {"connect", "connectTarget", "reconnect", "reconnectTarget", "listSource",
          "listTarget", "create", "loop", "folder", "drop", "finish", "close", "returned"}

\* It is a number, and never more than at the start.
LEMMA LeftAtIsNumber ==
  ASSUME NEW place \in Place, NEW k \in Nat, NEW n \in Nat, k <= n
  PROVE  LeftAt(place, k, n) \in 0..(7 * n + 8)
<1>1. LeftAt(place, k, n) >= 0 /\ LeftAt(place, k, n) <= 7 * n + 8
  BY DEF LeftAt, Place
<1>2. LeftAt(place, k, n) \in Int
  BY DEF LeftAt, Place
<1> QED
  BY <1>1, <1>2

\* It grows with the folders to come, and is made less by a step from one place to the next.
LEMMA NextPlace ==
  ASSUME NEW place \in Place, NEW place2 \in Place,
         NEW k \in Nat, NEW k2 \in Nat, NEW n \in Nat, k <= n, k2 <= n,
         \/ place \in {"connect", "connectTarget"} /\ place2 = "returned"
         \/ place = "connect" /\ place2 \in {"connectTarget", "listSource"}
         \/ place = "connectTarget" /\ place2 = "listSource"
         \/ place = "listSource" /\ place2 = "listTarget"
         \/ place = "listTarget" /\ place2 = "create"
         \/ place \in {"listSource", "listTarget", "create", "loop", "finish"} /\ place2 = "close"
         \/ place = "create" /\ place2 = "create" /\ k2 = k - 1
         \/ place = "create" /\ place2 = "loop"
         \/ place = "loop" /\ place2 = "folder" /\ k2 = k - 1
         \/ place = "folder" /\ place2 \in {"loop", "drop"} /\ k2 = k
         \/ place = "drop" /\ place2 = "reconnect" /\ k2 = k
         \/ place = "reconnect" /\ place2 \in {"reconnectTarget", "loop", "finish"} /\ k2 = k
         \/ place = "reconnectTarget" /\ place2 \in {"loop", "finish"} /\ k2 = k
         \/ place = "close" /\ place2 = "returned"
  PROVE  LeftAt(place2, k2, n) < LeftAt(place, k, n)
  BY DEF LeftAt, Place

\* Sets of folders have sizes.
LEMMA FolderSizes ==
  ASSUME NEW S \in SUBSET Folder
  PROVE  /\ Cardinality(S) \in Nat /\ Cardinality(S) <= Cardinality(Folder)
         /\ Cardinality(Folder) \in Nat
         /\ \A f \in S : Cardinality(S \ {f}) = Cardinality(S) - 1
<1>1. IsFiniteSet(Folder) /\ IsFiniteSet(S)
  BY MailboxCopyAssumption, FS_Subset
<1>2. /\ Cardinality(S) \in Nat /\ Cardinality(Folder) \in Nat
      /\ Cardinality(S) <= Cardinality(Folder)
  BY <1>1, FS_Subset, FS_CardinalityType
<1>3. \A f \in S : Cardinality(S \ {f}) = Cardinality(S) - 1
  BY <1>1, FS_RemoveElement
<1> QED
  BY <1>2, <1>3

\* Each step of copy brings it nearer to its end: a folder is created or copied once, and a
\* reconnection, however it ends, does not bring folders back.
LEMMA OwnGetsOn == ASSUME Types, Types', Own PROVE Left' < Left
<1> DEFINE k == Cardinality(todo)
           n == Cardinality(Folder)
<1>1. /\ k \in Nat /\ k' \in Nat /\ n \in Nat /\ k <= n /\ k' <= n
      /\ pc \in Place /\ pc' \in Place
  BY FolderSizes DEF Types, Place
<1>2. \A f \in todo : Cardinality(todo \ {f}) = k - 1
  BY FolderSizes DEF Types
<1>3. \/ pc \in {"connect", "connectTarget"} /\ pc' = "returned"
      \/ pc = "connect" /\ pc' \in {"connectTarget", "listSource"}
      \/ pc = "connectTarget" /\ pc' = "listSource"
      \/ pc = "listSource" /\ pc' = "listTarget"
      \/ pc = "listTarget" /\ pc' = "create"
      \/ pc \in {"listSource", "listTarget", "create", "loop", "finish"} /\ pc' = "close"
      \/ pc = "create" /\ pc' = "create" /\ k' = k - 1
      \/ pc = "create" /\ pc' = "loop"
      \/ pc = "loop" /\ pc' = "folder" /\ k' = k - 1
      \/ pc = "folder" /\ pc' \in {"loop", "drop"} /\ k' = k
      \/ pc = "drop" /\ pc' = "reconnect" /\ k' = k
      \/ pc = "reconnect" /\ pc' \in {"reconnectTarget", "loop", "finish"} /\ k' = k
      \/ pc = "reconnectTarget" /\ pc' \in {"loop", "finish"} /\ k' = k
      \/ pc = "close" /\ pc' = "returned"
  <2> USE DEF servers, copying, links, report, progress, First
  <2>1. CASE AlreadyConnected
    BY <2>1 DEF AlreadyConnected
  <2>2. CASE DialSource
    BY <2>2 DEF DialSource, ConnectFails
  <2>3. CASE DialTarget
    BY <2>3 DEF DialTarget, Connected, ConnectFails
  <2>4. CASE ListSource \/ ListTarget \/ ListFolders
    BY <2>4 DEF ListSource, ListTarget, ListFolders, Abandon
  <2>5. CASE CreateFolder
    <3>1. pc = "create" /\ pc' = "create" /\ NextFolder \in todo /\ todo' = todo \ {NextFolder}
      BY <2>5, NextIsToCome DEF CreateFolder, Types
    <3> QED
      BY <1>2, <3>1
  <2>6. ASSUME NEW f \in Folder, StartFolder(f) PROVE pc = "loop" /\ pc' = "folder" /\ k' = k - 1
    BY <1>2, <2>6 DEF StartFolder, Rest
  <2>7. CASE FolderReturns
    BY <2>7 DEF FolderReturns, FolderFails
  <2>8. CASE Finish
    BY <2>8 DEF Finish
  <2>9. CASE DropConnections
    BY <2>9 DEF DropConnections, Disconnect
  <2>10. CASE CloseConnections
    BY <2>10 DEF CloseConnections, Disconnect
  <2> QED
    BY <2>1, <2>2, <2>3, <2>4, <2>5, <2>6, <2>7, <2>8, <2>9, <2>10 DEF Own
<1> HIDE DEF k, n
<1>4. LeftAt(pc', k', n) < LeftAt(pc, k, n)
  BY <1>1, <1>3, NextPlace
<1> QED
  BY <1>4 DEF Left, k, n

\* copyFolder, the signal, users and another entry.
Others == FolderSteps \/ Cancel \/ (\E f \in Folder : UserChanges(f) \/ RivalCreates(f))

\* They do not change what is left.
LEMMA OthersLeaveIt ==
  ASSUME Others \/ Returned \/ UNCHANGED vars
  PROVE  Left' = Left
<1>1. UNCHANGED <<pc, todo>>
  BY DEF Others, FolderSteps, Cancel, UserChanges, RivalCreates, Returned, vars, progress
<1> QED
  BY <1>1 DEF Left

\* A copy of n folders takes no more than 7 n + 8 steps, those of copyFolder not counted,
\* however often it has to connect again and whatever others do to the folders
\* (mailbox.go, copy): each of its steps leaves less to do, and no other step adds to it.
THEOREM StepsAreBounded ==
  Spec => /\ [](Left \in 0..(7 * Cardinality(Folder) + 8))
          /\ [][/\ Own => Left' < Left
                /\ Others => Left' = Left]_vars
<1> DEFINE GetsOn == /\ Own => Left' < Left
                     /\ Others => Left' = Left
<1>1. Types => Left \in 0..(7 * Cardinality(Folder) + 8)
  BY FolderSizes, LeftAtIsNumber DEF Types, Place, Left
<1>2. Types /\ Types' /\ [Next]_vars => [GetsOn]_vars
  BY OwnGetsOn, OthersLeaveIt
<1>3. Spec => []Types
  BY Invariant, PTL DEF IInv
<1> QED
  BY <1>1, <1>2, <1>3, PTL DEF Spec

=============================================================================
