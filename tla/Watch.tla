-------------------------------- MODULE Watch --------------------------------
(***************************************************************************)
(* How a running server keeps its graph in step with the files: the watch- *)
(* er (diwe/src/watcher.rs), the language server that applies its events   *)
(* one by one between the editor's messages (iwes), and the MCP server     *)
(* that applies them in batches between tool calls (iwec).  "server" says  *)
(* which of the two this behaviour is about.                               *)
(*                                                                         *)
(* Reading a file and using what was read are two steps: the disk may      *)
(* change in between.  A document is its text; the platform's notification *)
(* service is assumed to report every change of a watched file, in order.  *)
(***************************************************************************)
EXTENDS Naturals, Sequences

CONSTANTS
  Keys,
  Texts,
  Missing,      \* no such file, or no such document in the graph
  Unreadable,   \* a file that cannot be read as text (a directory, other bytes)
  Closed,       \* the editor does not have the document open
  None,         \* nothing: no job, no call, no answer yet
  Servers,      \* the servers considered, of "iwes" and "iwec"
  Aborts,       \* may the default transaction be opened and aborted?
  InitialDisks,
  MaxWrites,    \* bound on changes to files and buffers
  MaxSent       \* bound on other messages and calls

Files == Texts \cup {Missing, Unreadable}
Documents == Texts \cup {Missing}

ASSUME WatchConstants ==
  /\ Missing \notin Texts /\ Unreadable \notin Texts /\ Missing # Unreadable
  /\ Closed \notin Texts /\ None \notin Keys \cup Texts \cup {Missing, Unreadable}
  /\ None \notin [Keys -> Documents \cup {None}]
  /\ Servers \subseteq {"iwes", "iwec"}
  /\ InitialDisks \subseteq [Keys -> Files]
  /\ MaxWrites \in Nat /\ MaxSent \in Nat

VARIABLES
  server,
  disk,
  buffer,       \* what the editor shows
  loaded,       \* documents the initial load has read
  watching,     \* has the watcher been started?
  raised,       \* events of the platform, not yet dispatched
  probing,      \* a key whose file could not be read, existence still to be asked
  channel,      \* changed keys on their way to the server
  inbox,        \* the editor's messages on their way to the server
  graph,
  opened,       \* open_documents
  index,        \* what the search index was built from
  dirty,        \* search_index_dirty
  hinted,       \* the keys the editor's inlay hints were computed for
  refreshing,   \* a refresh request is on its way to the editor
  todo,         \* keys the server reloads in this turn
  got,          \* what reading one of them returned
  call,         \* the write tool that holds the graph lock, and what is left of it
  staging,      \* is the default transaction open?
  snapshot,     \* what its abort has read from disk, None where it has not
  missed,       \* keys whose last change was not seen: before the watcher, or undone
  returned,     \* what the last successful tool call wrote, if still on disk
  writes, sent

clientVars == <<buffer, inbox>>
watchVars == <<raised, probing, channel>>
lspVars == <<opened, index, dirty, hinted, refreshing>>
mcpVars == <<call, staging, snapshot, returned>>
vars == <<server, disk, loaded, watching, graph, todo, got, missed, writes, sent,
          clientVars, watchVars, lspVars, mcpVars>>

------------------------------------------------------------------------------
(***************************************************************************)
(* The file system                                                         *)
(***************************************************************************)
\* Document k's file becomes f.  The platform reports it once the tree is watched;
\* a change after its load and before that is not seen.
Put(k, f) ==
  /\ writes < MaxWrites
  /\ f # disk[k]
  /\ writes' = writes + 1
  /\ disk' = [disk EXCEPT ![k] = f]
  /\ raised' = IF watching THEN Append(raised, <<k, f = Missing>>) ELSE raised
  /\ missed' = IF watching \/ k \notin loaded THEN missed \ {k} ELSE missed \cup {k}

\* Another program writes, removes, replaces.
Outside(k, f) ==
  /\ Put(k, f)
  /\ returned' = [returned EXCEPT ![k] = None]
  /\ UNCHANGED <<server, loaded, watching, graph, todo, got, sent, clientVars, probing,
                 channel, lspVars, call, staging, snapshot>>

------------------------------------------------------------------------------
(***************************************************************************)
(* Loading and watching                                                    *)
(***************************************************************************)
Init ==
  /\ server \in Servers
  /\ disk \in InitialDisks
  /\ buffer = [k \in Keys |-> Closed]
  /\ loaded = {} /\ watching = FALSE
  /\ raised = <<>> /\ probing = None /\ channel = <<>> /\ inbox = <<>>
  /\ graph = [k \in Keys |-> Missing]
  /\ opened = {}
  /\ index = None /\ dirty = TRUE
  /\ hinted = None /\ refreshing = FALSE
  /\ todo = {} /\ got = None
  /\ call = None /\ staging = FALSE /\ snapshot = None
  /\ missed = {} /\ returned = [k \in Keys |-> None]
  /\ writes = 0 /\ sent = 0

\* Mutant of AsDocument: a file that is no text counts as one.
AsDocumentLossy(f) == f

AsDocument(f) == IF f \in Texts THEN f ELSE Missing

LoadDocument(k) ==
  /\ k \notin loaded
  /\ graph' = [graph EXCEPT ![k] = AsDocument(disk[k])]
  /\ loaded' = loaded \cup {k}
  /\ UNCHANGED <<server, disk, watching, todo, got, missed, writes, sent, clientVars,
                 watchVars, lspVars, mcpVars>>

StartWatching ==
  /\ loaded = Keys /\ ~watching
  /\ watching' = TRUE
  /\ UNCHANGED <<server, disk, loaded, graph, todo, got, missed, writes, sent, clientVars,
                 watchVars, lspVars, mcpVars>>

\* A removal is passed on as it is; for a change the file is read, and what cannot
\* be read is passed on when it turns out not to exist.
Dispatch ==
  /\ raised # <<>> /\ probing = None
  /\ LET k == Head(raised)[1]
         removed == Head(raised)[2]
     IN IF removed \/ disk[k] \in Texts
          THEN channel' = Append(channel, k) /\ UNCHANGED probing
          ELSE probing' = k /\ UNCHANGED channel
  /\ raised' = Tail(raised)
  /\ UNCHANGED <<server, disk, loaded, watching, graph, todo, got, missed, writes, sent,
                 clientVars, lspVars, mcpVars>>

Probe ==
  /\ probing # None
  /\ channel' = IF disk[probing] = Missing THEN Append(channel, probing) ELSE channel
  /\ probing' = None
  /\ UNCHANGED <<server, disk, loaded, watching, graph, todo, got, missed, writes, sent,
                 clientVars, raised, lspVars, mcpVars>>

------------------------------------------------------------------------------
(***************************************************************************)
(* Reloading, in both servers                                              *)
(***************************************************************************)
DocumentsOf(g) == {k \in Keys : g[k] # Missing}

\* Mutant of Become: the editor hears of a new document, not of one that is gone.
BecomeQuietly(k, d) ==
  /\ graph' = [graph EXCEPT ![k] = d]
  /\ refreshing' = (refreshing \/ (hinted # None /\ graph[k] = Missing))

\* store_document and drop_document, and the refresh that follows every event and
\* notification when they changed the set of documents.
Become(k, d) ==
  /\ graph' = [graph EXCEPT ![k] = d]
  /\ refreshing' = \/ refreshing
                   \/ hinted # None /\ (graph[k] = Missing) # (d = Missing)

ReloadRead(k) ==
  /\ k \in todo /\ got = None
  /\ got' = [key |-> k, file |-> disk[k]]
  /\ UNCHANGED <<server, disk, loaded, watching, graph, todo, missed, writes, sent, clientVars,
                 watchVars, lspVars, mcpVars>>

ReloadApply ==
  /\ got # None
  /\ LET k == got.key
         d == AsDocument(got.file)
     IN /\ IF graph[k] # d /\ (d # Missing \/ disk[k] = Missing)
             THEN Become(k, d) /\ dirty' = TRUE
             ELSE UNCHANGED <<graph, refreshing, dirty>>
        /\ todo' = todo \ {k}
        /\ missed' = missed \ {k}
  /\ got' = None
  /\ UNCHANGED <<server, disk, loaded, watching, writes, sent, clientVars, watchVars,
                 opened, index, hinted, mcpVars>>

------------------------------------------------------------------------------
(***************************************************************************)
(* The editor                                                              *)
(***************************************************************************)
Says(what, k, t) == inbox' = Append(inbox, [what |-> what, key |-> k, text |-> t])

EditorRests == UNCHANGED <<server, loaded, watching, graph, todo, got, probing, channel,
                           opened, index, dirty, hinted, mcpVars>>

\* The document as it is on disk, or a new one.
Open(k, t) ==
  /\ server = "iwes" /\ sent < MaxSent
  /\ buffer[k] = Closed /\ disk[k] \in {t, Missing}
  /\ buffer' = [buffer EXCEPT ![k] = t]
  /\ Says("open", k, t)
  /\ sent' = sent + 1
  /\ EditorRests /\ UNCHANGED <<disk, raised, missed, writes, refreshing>>

Change(k, t) ==
  /\ buffer[k] \notin {Closed, t} /\ writes < MaxWrites
  /\ buffer' = [buffer EXCEPT ![k] = t]
  /\ Says("change", k, t)
  /\ writes' = writes + 1
  /\ EditorRests /\ UNCHANGED <<disk, raised, missed, sent, refreshing>>

\* The notification that follows a save carries no text and changes nothing.
Save(k) ==
  /\ buffer[k] # Closed
  /\ Put(k, buffer[k])
  /\ EditorRests /\ UNCHANGED <<clientVars, sent, refreshing>>

Close(k) ==
  /\ buffer[k] # Closed
  /\ buffer' = [buffer EXCEPT ![k] = Closed]
  /\ Says("close", k, None)
  /\ EditorRests /\ UNCHANGED <<disk, raised, missed, writes, sent, refreshing>>

\* The editor's own watcher saw the file go.
Report(k) ==
  /\ server = "iwes" /\ sent < MaxSent
  /\ disk[k] = Missing
  /\ Says("gone", k, None)
  /\ sent' = sent + 1
  /\ EditorRests /\ UNCHANGED <<disk, buffer, raised, missed, writes, refreshing>>

AskForHints ==
  /\ server = "iwes" /\ sent < MaxSent
  /\ Says("hints", None, None)
  /\ sent' = sent + 1
  /\ EditorRests /\ UNCHANGED <<disk, buffer, raised, missed, writes, refreshing>>

\* The editor does what the refresh request asks for.
Refresh ==
  /\ refreshing
  /\ refreshing' = FALSE
  /\ Says("hints", None, None)
  /\ EditorRests /\ UNCHANGED <<disk, buffer, raised, missed, writes, sent>>

------------------------------------------------------------------------------
(***************************************************************************)
(* The language server's loop                                              *)
(***************************************************************************)
Ready == server = "iwes" /\ watching /\ todo = {}

LoopRests == UNCHANGED <<server, disk, buffer, loaded, watching, got, missed, writes, sent,
                         raised, probing, mcpVars>>

\* The first message of the inbox is a "what".
Handles(what) ==
  /\ Ready /\ inbox # <<>> /\ Head(inbox).what = what
  /\ inbox' = Tail(inbox)
  /\ UNCHANGED channel
  /\ LoopRests

DidOpen ==
  /\ Handles("open")
  /\ LET k == Head(inbox).key
         t == Head(inbox).text
     IN /\ opened' = opened \cup {k}
        /\ IF graph[k] = t THEN UNCHANGED <<graph, refreshing, dirty>>
                           ELSE Become(k, t) /\ dirty' = TRUE
  /\ UNCHANGED <<index, hinted, todo>>

DidChange ==
  /\ Handles("change")
  /\ Become(Head(inbox).key, Head(inbox).text)
  /\ dirty' = TRUE
  /\ UNCHANGED <<opened, index, hinted, todo>>

\* Mutant of DidClose: what the buffer held stays, the file is not read again.
DidCloseOnly ==
  /\ Handles("close")
  /\ opened' = opened \ {Head(inbox).key}
  /\ UNCHANGED <<graph, index, dirty, hinted, refreshing, todo>>

DidClose ==
  /\ Handles("close")
  /\ opened' = opened \ {Head(inbox).key}
  /\ todo' = {Head(inbox).key}
  /\ UNCHANGED <<graph, index, dirty, hinted, refreshing>>

\* Mutant of ApplyExternal: the file's event is applied to an open document too.
ApplyExternalAlways(k) == todo' = {k}

\* An event about an open document is ignored.
ApplyExternal(k) == todo' = {k} \ opened

DidChangeWatchedFiles ==
  /\ Handles("gone")
  /\ ApplyExternal(Head(inbox).key)
  /\ UNCHANGED <<graph, opened, index, dirty, hinted, refreshing>>

RefreshIndex ==
  /\ dirty' = FALSE
  /\ index' = IF dirty THEN graph ELSE index

\* Every request first brings the index up to date.
InlayHints ==
  /\ Handles("hints")
  /\ RefreshIndex
  /\ hinted' = DocumentsOf(graph)
  /\ UNCHANGED <<graph, opened, refreshing, todo>>

OnFsEvent ==
  /\ Ready /\ channel # <<>>
  /\ ApplyExternal(Head(channel))
  /\ channel' = Tail(channel)
  /\ LoopRests /\ UNCHANGED <<inbox, graph, lspVars>>

\* The timer of the index went off, possibly together with other channels.
IdleRebuild ==
  /\ Ready /\ dirty
  /\ RefreshIndex
  /\ LoopRests /\ UNCHANGED <<inbox, channel, graph, opened, hinted, refreshing, todo>>

------------------------------------------------------------------------------
(***************************************************************************)
(* The MCP server                                                          *)
(***************************************************************************)
\* Mutant of Unlocked: a batch reads the files before it takes the graph lock.
UnlockedWhileReading == server = "iwec" /\ watching /\ call = None /\ (todo = {} \/ got # None)

\* The graph lock is free: no tool and no batch holds it.
Unlocked == server = "iwec" /\ watching /\ call = None /\ todo = {}

McpRests == UNCHANGED <<server, loaded, watching, got, clientVars, probing, lspVars>>

\* All that has arrived, each key once, under one hold of the graph lock.
TakeBatch ==
  /\ Unlocked /\ channel # <<>>
  /\ todo' = {channel[i] : i \in DOMAIN channel}
  /\ channel' = <<>>
  /\ McpRests /\ UNCHANGED <<disk, graph, missed, writes, sent, raised, mcpVars>>

\* A write tool takes the lock; the documents ks will become d.
ToolStart(ks, d) ==
  /\ Unlocked /\ ~staging /\ sent < MaxSent
  /\ call' = [keys |-> ks, left |-> ks, document |-> d]
  /\ sent' = sent + 1
  /\ McpRests
  /\ UNCHANGED <<disk, graph, todo, missed, writes, raised, channel, staging, snapshot, returned>>

ToolWrite(k) ==
  /\ call # None /\ k \in call.left
  /\ IF disk[k] = call.document THEN UNCHANGED <<disk, raised, missed, writes>>
                                ELSE Put(k, call.document)
  /\ call' = [call EXCEPT !.left = @ \ {k}]
  /\ returned' = [returned EXCEPT ![k] = None]
  /\ McpRests /\ UNCHANGED <<graph, todo, sent, channel, staging, snapshot>>

\* A write fails: the error is returned and the graph stays as it was.
ToolFail ==
  /\ call # None /\ call.left # {}
  /\ call' = None
  /\ McpRests
  /\ UNCHANGED <<disk, graph, todo, missed, writes, sent, raised, channel, staging, snapshot, returned>>

ToolReturn ==
  /\ call # None /\ call.left = {}
  /\ graph' = [k \in Keys |-> IF k \in call.keys THEN call.document ELSE graph[k]]
  /\ returned' = [k \in Keys |-> IF k \notin call.keys THEN returned[k]
                                 ELSE IF disk[k] = call.document THEN disk[k] ELSE None]
  /\ missed' = missed \ call.keys
  /\ call' = None
  /\ McpRests /\ UNCHANGED <<disk, todo, writes, sent, raised, channel, staging, snapshot>>

\* The default transaction stages in the live graph.
BeginDefault ==
  /\ Aborts /\ Unlocked /\ ~staging /\ snapshot = None /\ sent < MaxSent
  /\ staging' = TRUE
  /\ sent' = sent + 1
  /\ McpRests
  /\ UNCHANGED <<disk, graph, todo, missed, writes, raised, channel, call, snapshot, returned>>

Stage(k, d) ==
  /\ Unlocked /\ staging /\ writes < MaxWrites
  /\ graph' = [graph EXCEPT ![k] = d]
  /\ returned' = [returned EXCEPT ![k] = None]
  /\ writes' = writes + 1
  /\ McpRests
  /\ UNCHANGED <<disk, todo, missed, sent, raised, channel, call, staging, snapshot>>

\* Abort takes the transaction out under the lock, reads the store from disk file by
\* file without it and then, under it, replaces the graph.
AbortTake ==
  /\ Unlocked /\ staging
  /\ staging' = FALSE
  /\ snapshot' = [k \in Keys |-> None]
  /\ McpRests
  /\ UNCHANGED <<disk, graph, todo, missed, writes, sent, raised, channel, call, returned>>

AbortRead(k) ==
  /\ snapshot # None /\ snapshot[k] = None
  /\ snapshot' = [snapshot EXCEPT ![k] = AsDocument(disk[k])]
  /\ McpRests
  /\ UNCHANGED <<disk, graph, todo, missed, writes, sent, raised, channel, call, staging,
                 returned>>

AbortReplace ==
  /\ Unlocked /\ snapshot # None /\ \A k \in Keys : snapshot[k] # None
  /\ graph' = snapshot
  /\ missed' = missed \cup {k \in Keys : snapshot[k] # AsDocument(disk[k])}
  /\ snapshot' = None
  /\ McpRests
  /\ UNCHANGED <<disk, todo, writes, sent, raised, channel, call, staging, returned>>

------------------------------------------------------------------------------
Watcher ==
  \/ \E k \in Keys : LoadDocument(k)
  \/ StartWatching
  \/ Dispatch
  \/ Probe
  \/ \E k \in Keys : ReloadRead(k)
  \/ ReloadApply

Editor ==
  \/ \E k \in Keys, t \in Texts : Open(k, t) \/ Change(k, t)
  \/ \E k \in Keys : Save(k) \/ Close(k) \/ Report(k)
  \/ AskForHints
  \/ Refresh

OnNotification == DidOpen \/ DidChange \/ DidClose \/ DidChangeWatchedFiles

Loop == OnNotification \/ InlayHints \/ OnFsEvent \/ IdleRebuild

ToolCall ==
  \/ \E ks \in SUBSET Keys \ {{}}, d \in Documents : ToolStart(ks, d)
  \/ \E k \in Keys : ToolWrite(k)
  \/ ToolFail
  \/ ToolReturn

DefaultTransaction ==
  \/ BeginDefault
  \/ \E k \in Keys, d \in Documents : Stage(k, d)
  \/ AbortTake
  \/ \E k \in Keys : AbortRead(k)
  \/ AbortReplace

Next ==
  \/ \E k \in Keys, f \in Files : Outside(k, f)
  \/ Watcher
  \/ Editor
  \/ Loop
  \/ TakeBatch
  \/ ToolCall
  \/ DefaultTransaction

Spec == Init /\ [][Next]_vars

\* Nobody has to write, open or ask.  What has begun goes on: the platform and the
\* watcher's thread, the loop (select! chooses at random among the ready channels),
\* the task that applies batches, a tool call and an abort.
FairSpec ==
  /\ Spec
  /\ WF_vars(Watcher)
  /\ WF_vars(OnNotification \/ InlayHints)
  /\ WF_vars(OnFsEvent)
  /\ WF_vars(inbox = <<>> /\ channel = <<>> /\ IdleRebuild)
  /\ WF_vars(TakeBatch)
  /\ WF_vars(ToolFail \/ ToolReturn \/ \E k \in Keys : ToolWrite(k))
  /\ WF_vars(AbortReplace \/ \E k \in Keys : AbortRead(k))

------------------------------------------------------------------------------
(***************************************************************************)
(* Properties                                                              *)
(***************************************************************************)
Message == [what : {"open", "change", "close", "gone", "hints"},
            key : Keys \cup {None}, text : Texts \cup {None}]

TypeOK ==
  /\ server \in Servers
  /\ disk \in [Keys -> Files] /\ graph \in [Keys -> Documents]
  /\ buffer \in [Keys -> Texts \cup {Closed}]
  /\ loaded \subseteq Keys /\ opened \subseteq Keys /\ missed \subseteq Keys
  /\ watching \in BOOLEAN /\ dirty \in BOOLEAN /\ refreshing \in BOOLEAN
  /\ staging \in BOOLEAN
  /\ raised \in Seq(Keys \X BOOLEAN) /\ channel \in Seq(Keys) /\ inbox \in Seq(Message)
  /\ probing \in Keys \cup {None}
  /\ index \in [Keys -> Documents] \cup {None}
  /\ snapshot \in [Keys -> Documents \cup {None}] \cup {None}
  /\ hinted \in (SUBSET Keys) \cup {None}
  /\ todo \subseteq Keys
  /\ got \in [key : todo, file : Files] \cup {None}
  /\ call \in [keys : SUBSET Keys, left : SUBSET Keys, document : Documents] \cup {None}
  /\ returned \in [Keys -> Documents \cup {None}]
  /\ writes \in 0..MaxWrites /\ sent \in Nat

Pending(k) == \E i \in DOMAIN inbox : inbox[i].key = k /\ inbox[i].what # "gone"

\* What the user sees in the editor is what the graph holds, once the messages about
\* the document have been handled: no event of the file, of whatever change and in
\* whatever order, overwrites an open document (server.rs apply_external_update).
EditorWins ==
  \A k \in Keys : (buffer[k] # Closed /\ ~Pending(k)) => graph[k] = buffer[k]

\* What is derived from the graph is never silently old.  A search index that is not
\* marked dirty was built from the graph as it is now, so that no request is answered
\* from an older one; and the editor's inlay hints were computed for the documents
\* there are now, or it has been told to ask again, or is asking.
IndexIsFresh == dirty \/ index = graph

HintsKnow ==
  \/ hinted \in {None, DocumentsOf(graph)}
  \/ refreshing
  \/ \E i \in DOMAIN inbox : inbox[i].what = "hints"

ViewsFollow == IndexIsFresh /\ HintsKnow

\* A call that starts after a write tool returned sees that write until somebody
\* else writes the file: no batch that read an older file undoes it.  The reload of
\* an aborted default transaction may (missed).
ReadYourWrites ==
  \A k \in Keys : (returned[k] # None /\ k \notin missed) => graph[k] = returned[k]

\* The same without the exception, as docs/mcp.md states it: "A call that starts
\* after an MCP write returned sees that write."
SeesTheWrite ==
  \A k \in Keys : returned[k] # None => graph[k] = returned[k]

\* The document is in the graph as the editor shows it or, when it is not open, as it
\* is on disk, unless its file cannot be read or its last change was not reported.
InSync(k) ==
  IF buffer[k] # Closed THEN graph[k] = buffer[k]
  ELSE disk[k] = Unreadable \/ k \in missed \/ graph[k] = disk[k]

\* Once everybody stops writing, the graph agrees with the editor and the disk for
\* good, and the language server's search index with the graph, in whatever order
\* writes, events, messages, batches and tool calls came.
Converges ==
  <>[](staging \/ ((\A k \in Keys : InSync(k)) /\ (server = "iwes" => index = graph)))
=============================================================================
