---------------------------- MODULE DocumentEditor ----------------------------
(***************************************************************************)
(* The editors: processes with tabs, each of which shows a document of the *)
(* document server and edits it.  A tab keeps two copies, the server's,    *)
(* which only messages change, and its own, which the user changes at once *)
(* and which is set back to the server's at the hot spots, the paths that  *)
(* were written since the last time, after every change that comes in.     *)
(* Translated from src/Editor/EditorContainer.cpp, DocumentEditor.h,       *)
(* DocumentEditorBase.cpp and DocumentServerThread.cpp, and composed with  *)
(* the server.                                                             *)
(*                                                                         *)
(* Changes are made inside one call of the user interface, so that a       *)
(* transaction is one step.  kChangeOk is left out: m_Unacknowledged-      *)
(* Changes, which it takes down, is never put up.                          *)
(***************************************************************************)
EXTENDS DocumentServer

CONSTANTS
    Transactions,  \* the changes a user may make at once, each a sequence
    OutsideFiles,  \* what other programs may write to the file
    MaxTabs,       \* bound: tabs ever opened
    MaxIncidents   \* bound: edits, saves, undos, redos, lost connections, writes from outside

VARIABLES
    tabs,      \* m_DocumentEditors of each process
    incidents, \* counts what MaxIncidents bounds
    base,      \* history: what the document held when it was opened
    doubled    \* history: processes that had two tabs of the document

vars == <<serverVars, pipes, tabs, incidents, base, doubled>>

Tab ==
    [state : {"kLoading", "kLoaded", "kLoadFailure"}, clientCopy : Contents, serverCopy : Contents,
     hotSpots : SUBSET Paths]

ASSUME EditorAssumption ==
    /\ Transactions \subseteq Seq(Change)
    /\ OutsideFiles \subseteq Contents \cup {Damaged}
    /\ None \notin Document /\ None \notin Tab

\* CreateEditorForFile.
NewTab == [state |-> "kLoading", clientCopy |-> EmptyFile, serverCopy |-> EmptyFile, hotSpots |-> {}]

Init ==
    /\ ServerInit
    /\ tabs = [c \in Clients |-> <<>>]
    /\ incidents = 0
    /\ base = None
    /\ doubled = {}

Incident == incidents < MaxIncidents /\ incidents' = incidents + 1

OpenTabs(c) == {id \in DOMAIN tabs[c] : tabs[c][id] # None}

SendData(c, m) == toServer' = [toServer EXCEPT ![c] = Append(@, m)]

\* OpenEditorForFile looks for a tab of the file first, newFile does not; kNew
\* of a file that is there is kOpen.
OpenTab(c) ==
    /\ c \in connected
    /\ FoldFunction(LAMBDA opened, n : n + Len(opened), 0, tabs) < MaxTabs
    /\ tabs' = [tabs EXCEPT ![c] = Append(@, NewTab)]
    /\ SendData(c, [type |-> "kOpen", id |-> Len(tabs[c]) + 1])
    /\ doubled' = IF OpenTabs(c) = {} THEN doubled ELSE doubled \cup {c}
    /\ UNCHANGED <<serverVars, connected, toClient, incidents, base>>

CloseEditor(c, id) ==
    /\ tabs' = [tabs EXCEPT ![c][id] = None]
    /\ SendData(c, [type |-> "kClose", id |-> id])
    /\ UNCHANGED <<serverVars, connected, toClient, incidents, base, doubled>>

\* QueueChange for each change and CommitQueuedChanges.
Edit(c, id, changes) ==
    /\ tabs[c][id].state = "kLoaded"
    /\ Incident
    /\ tabs' = [tabs EXCEPT ![c][id].clientCopy = ApplyChanges(@, changes),
                            ![c][id].hotSpots = @ \cup {changes[i].path : i \in DOMAIN changes}]
    /\ SendData(c, [type |-> "kChange", id |-> id, changes |-> changes])
    /\ UNCHANGED <<serverVars, connected, toClient, base, doubled>>

\* save, undo and redo.
Request(c, id, type) ==
    /\ Incident
    /\ SendData(c, [type |-> type, id |-> id])
    /\ UNCHANGED <<serverVars, connected, toClient, tabs, base, doubled>>

-----------------------------------------------------------------------------
(* Messages of the server.                                                  *)

GotDocumentStateChange(tab, m) ==
    IF m.state = "kLoaded"
    THEN [state |-> "kLoaded", clientCopy |-> m.content, serverCopy |-> m.content, hotSpots |-> {}]
    ELSE [tab EXCEPT !.state = m.state]

SyncHotSpots(tab) ==
    [tab EXCEPT !.clientCopy = [p \in Paths |-> IF p \in tab.hotSpots THEN tab.serverCopy[p] ELSE @[p]],
                !.hotSpots = {}]

\* Mutant of GotChanges: only the tab's own writes make hot spots.
GotChangesQuietly(tab, changes) ==
    SyncHotSpots([tab EXCEPT !.serverCopy = ApplyChanges(@, changes)])

\* GotDocumentChange for each change and DocumentChangeComplete.
GotChanges(tab, changes) ==
    SyncHotSpots([tab EXCEPT
        !.serverCopy = ApplyChanges(@, changes),
        !.hotSpots = @ \cup {changes[i].path : i \in DOMAIN changes}])

HandleMessage(tab, m) ==
    IF m.type = "kDocumentState" THEN GotDocumentStateChange(tab, m) ELSE GotChanges(tab, m.changes)

\* A message for a tab that is closed is ignored.
HandleDocumentServerEvent(c) ==
    /\ toClient[c] # <<>>
    /\ LET id == Head(toClient[c]).id IN
       tabs' = IF tabs[c][id] = None THEN tabs
               ELSE [tabs EXCEPT ![c][id] = HandleMessage(@, Head(toClient[c]).message)]
    /\ toClient' = [toClient EXCEPT ![c] = Tail(@)]
    /\ UNCHANGED <<serverVars, connected, toServer, incidents, base, doubled>>

\* The connection is lost with some of what is on it.  The process closes its
\* tabs when it notices and connects again; the server finds out on its own, here
\* before the process is back.
LoseConnection(c) ==
    /\ c \in connected
    /\ Incident
    /\ connected' = connected \ {c}
    /\ tabs' = [tabs EXCEPT ![c] = [id \in DOMAIN @ |-> None]]
    /\ \E n \in 0 .. Len(toServer[c]) :
          toServer' = [toServer EXCEPT ![c] = Append(SubSeq(@, 1, n), [type |-> "kDisconnected", id |-> 0])]
    /\ toClient' = [toClient EXCEPT ![c] = <<>>]
    /\ UNCHANGED <<serverVars, base, doubled>>

-----------------------------------------------------------------------------
\* What is kept of the history when the server does a step.
Remember ==
    /\ base' = IF doc' = None THEN None
               ELSE IF doc = None THEN doc'.content
               ELSE IF doc'.undo = doc.undo /\ doc'.content # doc.content THEN None
               ELSE base
    /\ UNCHANGED <<tabs, incidents, doubled>>

ServerStep ==
    /\ FileModified \/ (\E c \in Clients : ProcessMessage(c))
    /\ Remember

OutsideWrite ==
    /\ Incident
    /\ \E content \in OutsideFiles : WriteFile(content)
    /\ UNCHANGED <<tabs, base, doubled>>

EditorStep(c) ==
    \/ OpenTab(c) \/ HandleDocumentServerEvent(c) \/ LoseConnection(c)
    \/ \E id \in OpenTabs(c) :
          \/ CloseEditor(c, id)
          \/ \E changes \in Transactions : Edit(c, id, changes)
          \/ \E type \in {"kSave", "kUndo", "kRedo"} : Request(c, id, type)

Next == ServerStep \/ OutsideWrite \/ \E c \in Clients : EditorStep(c)

Spec == Init /\ [][Next]_vars

-----------------------------------------------------------------------------
(* Properties.                                                              *)

\* The server sends tab id of client c what happens to the document.
Informed(c, id) == \E i \in DOMAIN connections : connections[i] = [client |-> c, id |-> id]

\* And it does what the tab asks for.
Served(c, id) == Informed(c, id) /\ HasDocument(c, id)

\* What the tab becomes once it has read all that is on its way to it.
CaughtUp(c, id) ==
    FoldLeft(LAMBDA tab, m : IF m.id = id THEN HandleMessage(tab, m.message) ELSE tab,
             tabs[c][id], toClient[c])

\* The messages on their way to a tab lead from its copy of the server's data to
\* the data the server has now, in whatever order tabs open, edit, undo and save
\* and the file is loaded again.
MessagesLeadToServer ==
    \A c \in connected : \A id \in OpenTabs(c) :
        Informed(c, id) =>
            LET tab == CaughtUp(c, id) IN
            /\ tab.state = doc.state
            /\ doc.state = "kLoaded" => tab.serverCopy = doc.content

\* Outside its hot spots what a tab shows is the server's data, and a hot spot
\* always waits for something: the tab's own change, on its way to the server or
\* back.  A tab that nothing is on its way from or to shows the server's data.
HotSpotsAreTransient ==
    \A c \in connected : \A id \in OpenTabs(c) :
        LET tab == tabs[c][id] IN
        tab.state = "kLoaded" /\ Served(c, id) =>
            /\ \A p \in Paths \ tab.hotSpots : tab.clientCopy[p] = tab.serverCopy[p]
            /\ toServer[c] = <<>> /\ toClient[c] = <<>> => tab.clientCopy = doc.content

\* Undoing everything leads back to what the document held when it was opened,
\* through any mix of changes, undos and redos of all the editors, unless the
\* file was loaded again in between.
UndoLeadsBack == doc # None /\ base # None => Unwound(doc) = base

\* A tab whose messages are all read is served, unless its process has had two
\* tabs of the document, of which the server takes the wrong one away.
OnlyDoubledTabsAreMute ==
    \A c \in connected \ doubled : \A id \in OpenTabs(c) : toServer[c] = <<>> => Served(c, id)
=============================================================================
