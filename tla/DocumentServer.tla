---------------------------- MODULE DocumentServer ----------------------------
(***************************************************************************)
(* The document server and one of the files it serves: the document that   *)
(* is open, the connections that have it open and the lists of what each   *)
(* client has open.  Translated from src/DocumentServer/DocumentServer.cpp,*)
(* one action per message of a client and one for the watcher of the file  *)
(* system.  The server is one thread.                                      *)
(*                                                                         *)
(* After every message the server sends what is pending (SendPending-      *)
(* Changes), and without links nothing is pending longer than a message,   *)
(* so a handler here sends its changes itself.  A connection is a reliable *)
(* pipe each way; it may be lost with all that is on it.                   *)
(*                                                                         *)
(* Not modelled: links between documents, deleted files, and the generation*)
(* numbers of the data, which no client reads.                             *)
(***************************************************************************)
EXTENDS Document

CONSTANTS
    Clients,     \* editor processes
    None         \* no document

VARIABLES
    doc,           \* the entry of m_OpenDocuments: m_Document
    connections,   \* m_Connections of the entry
    documentList,  \* m_DocumentList of each entry of m_DocServerClients
    disk,          \* the file: what is in it, when it was written
    lastModified,  \* m_LastModifiedTime of the entry
    watcher,       \* m_FilesChanged: when the file was written
    connected,     \* the clients whose connection is up
    toServer,      \* messages on their way from each client
    toClient       \* and to each client

serverVars == <<doc, connections, documentList, disk, lastModified, watcher>>
pipes == <<connected, toServer, toClient>>

\* vremove_index_quick.
RemoveQuick(seq, i) == Front([seq EXCEPT ![i] = Last(seq)])

ServerInit ==
    /\ doc = None
    /\ connections = <<>>
    /\ documentList = [c \in Clients |-> <<>>]
    /\ disk = [content |-> EmptyFile, time |-> 0]
    /\ lastModified = 0
    /\ watcher = <<>>
    /\ connected = Clients
    /\ toServer = [c \in Clients |-> <<>>]
    /\ toClient = [c \in Clients |-> <<>>]

StateMessage(state, content) == [type |-> "kDocumentState", state |-> state, content |-> content]
ChangeMessage(changes) == [type |-> "kChange", changes |-> changes]

\* A message for client c, for each of its entries in conns.
For(c, conns, message, pipe) ==
    FoldLeft(LAMBDA sent, k : IF k.client = c THEN Append(sent, [id |-> k.id, message |-> message]) ELSE sent,
             pipe, conns)

\* Sends a message to the connections in conns, in their order.
Send(pipe, conns, message) ==
    [c \in Clients |-> IF c \in connected THEN For(c, conns, message, pipe[c]) ELSE pipe[c]]

\* A change is told to the clients of a loaded document only.
Told(changes) ==
    IF doc.state = "kLoaded" THEN Send(toClient, connections, ChangeMessage(changes)) ELSE toClient

Write(content) == disk' = [content |-> content, time |-> disk.time + 1]

-----------------------------------------------------------------------------
(* Messages: c is the client, id the document as the client calls it.       *)

\* The document as OpenDocumentForClient finds or loads it.
Opened == IF doc = None THEN NewDocument(disk.content) ELSE doc

\* Mutant of OpeningState: what was loaded, not what it has become.
LoadedState(d) == StateMessage(d.state, Loaded(d, disk.content).content)

\* The state a client is told when it opens the document.
OpeningState(d) == StateMessage(d.state, d.content)

OpenDocumentForClient(c, id) ==
    /\ doc' = Opened
    /\ lastModified' = IF doc = None THEN disk.time ELSE lastModified
    /\ connections' = Append(connections, [client |-> c, id |-> id])
    /\ documentList' = [documentList EXCEPT ![c] = Append(@, id)]
    /\ toClient' = Send(toClient, <<[client |-> c, id |-> id]>>, OpeningState(Opened))
    /\ UNCHANGED <<disk, watcher>>

\* GetDocumentForClient.
HasDocument(c, id) == \E i \in DOMAIN documentList[c] : documentList[c][i] = id

\* kChange also wants an entry of the client in m_Connections.
IsConnected(c) == \E i \in DOMAIN connections : connections[i].client = c

HandleChange(changes) ==
    /\ doc' = Changed(doc, changes)
    /\ toClient' = Told(changes)
    /\ UNCHANGED <<connections, documentList, disk, lastModified, watcher>>

HandleUndo ==
    /\ doc.undo # <<>>
    /\ doc' = UndoChanges(doc)
    /\ toClient' = Told(Last(doc.undo))
    /\ UNCHANGED <<connections, documentList, disk, lastModified, watcher>>

HandleRedo ==
    /\ doc.redo # <<>>
    /\ doc' = RedoChanges(doc)
    /\ toClient' = Told(Last(doc.redo))
    /\ UNCHANGED <<connections, documentList, disk, lastModified, watcher>>

HandleSave ==
    /\ doc' = Saved(doc)
    /\ Write(doc.content)
    /\ lastModified' = disk'.time
    /\ toClient' = IF doc'.state = doc.state THEN toClient
                   ELSE Send(toClient, connections, StateMessage("kLoaded", doc.content))
    /\ UNCHANGED <<connections, documentList, watcher>>

\* The last connection to go saves the document and closes it.
LeftWith(remaining) ==
    /\ connections' = remaining
    /\ IF remaining = <<>> THEN doc' = None /\ Write(doc.content) ELSE UNCHANGED <<doc, disk>>

\* Mutant of WithoutOneOf: the first connection goes, whosever it is.
WithoutFirst(c, conns) == RemoveQuick(conns, 1)

WithoutOneOf(c, conns) ==
    LET i == SelectInSeq(conns, LAMBDA k : k.client = c) IN
    IF i = 0 THEN conns ELSE RemoveQuick(conns, i)

\* The connection and the list entry that go are the first ones of the client,
\* whatever their id.
HandleClose(c) ==
    /\ LeftWith(WithoutOneOf(c, connections))
    /\ documentList' = [documentList EXCEPT ![c] = RemoveQuick(@, 1)]
    /\ UNCHANGED <<lastModified, watcher, toClient>>

\* The connection is lost: one entry goes for each document of the list.
HandleDisconnected(c) ==
    /\ documentList' = [documentList EXCEPT ![c] = <<>>]
    /\ IF documentList[c] = <<>> THEN UNCHANGED <<doc, disk, connections>>
       ELSE LeftWith(FoldLeft(LAMBDA conns, id : WithoutOneOf(c, conns), connections, documentList[c]))
    /\ UNCHANGED <<lastModified, watcher, toClient>>

-----------------------------------------------------------------------------
\* ProcessMessage; a message about a document the client does not have open, and
\* an undo with nothing to undo, change nothing.
Handles(c, m) ==
    \/ m.type = "kOpen" /\ OpenDocumentForClient(c, m.id)
    \/ m.type = "kDisconnected" /\ HandleDisconnected(c)
    \/ /\ HasDocument(c, m.id)
       /\ \/ m.type = "kChange" /\ IsConnected(c) /\ HandleChange(m.changes)
          \/ m.type = "kUndo" /\ HandleUndo
          \/ m.type = "kRedo" /\ HandleRedo
          \/ m.type = "kSave" /\ HandleSave
          \/ m.type = "kClose" /\ HandleClose(c)

Ignores(c, m) ==
    /\ m.type \notin {"kOpen", "kDisconnected"}
    /\ HasDocument(c, m.id) =>
          \/ m.type = "kChange" /\ ~IsConnected(c)
          \/ m.type = "kUndo" /\ doc.undo = <<>>
          \/ m.type = "kRedo" /\ doc.redo = <<>>
    /\ UNCHANGED <<serverVars, toClient>>

ProcessMessage(c) ==
    /\ toServer[c] # <<>>
    /\ LET m == Head(toServer[c]) IN Handles(c, m) \/ Ignores(c, m)
    /\ toServer' = [toServer EXCEPT ![c] = Tail(@)]
    /\ connected' = IF Head(toServer[c]).type = "kDisconnected" THEN connected \cup {c} ELSE connected

\* HandleDocumentModified, for a write of another program: the server's own
\* writes are never newer than m_LastModifiedTime.  The document is loaded again
\* and its clients are told, first that it is loading.
FileModified ==
    /\ watcher # <<>>
    /\ watcher' = Tail(watcher)
    /\ IF doc = None \/ lastModified >= Head(watcher) THEN UNCHANGED <<doc, toClient>>
       ELSE /\ doc' = Loaded(doc, disk.content)
            /\ toClient' = Send(Send(toClient, connections, StateMessage("kLoading", EmptyFile)),
                                connections, OpeningState(doc'))
    /\ UNCHANGED <<connections, documentList, disk, lastModified, connected, toServer>>

\* Another program writes the file.
WriteFile(content) ==
    /\ Write(content)
    /\ watcher' = Append(watcher, disk'.time)
    /\ UNCHANGED <<doc, connections, documentList, lastModified, pipes>>
=============================================================================
