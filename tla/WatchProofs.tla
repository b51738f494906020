----------------------------- MODULE WatchProofs -----------------------------
(***************************************************************************)
(* Proofs about Watch, for any documents, texts and initial disks, either  *)
(* server, and any bounds.                                                 *)
(***************************************************************************)
EXTENDS Watch, Integers, TLAPS

(***************************************************************************)
(* Queues                                                                  *)
(***************************************************************************)
LEMMA Pushed ==
  ASSUME NEW S, NEW q \in Seq(S), NEW m \in S
  PROVE  /\ Append(q, m) \in Seq(S)
         /\ DOMAIN Append(q, m) = 1..Len(q) + 1
         /\ \A i \in 1..Len(q) : Append(q, m)[i] = q[i]
         /\ Append(q, m)[Len(q) + 1] = m
  OBVIOUS

LEMMA Popped ==
  ASSUME NEW S, NEW q \in Seq(S), q # <<>>
  PROVE  /\ Tail(q) \in Seq(S)
         /\ Head(q) = q[1] /\ q[1] \in S /\ 1 \in DOMAIN q
         /\ DOMAIN q = 1..Len(q)
         /\ DOMAIN Tail(q) = 1..Len(q) - 1
         /\ \A i \in 1..Len(q) - 1 : Tail(q)[i] = q[i + 1]
  OBVIOUS

LEMMA Indices ==
  ASSUME NEW S, NEW q \in Seq(S)
  PROVE  /\ Len(q) \in Nat /\ DOMAIN q = 1..Len(q)
         /\ \A i \in DOMAIN q : q[i] \in S
  OBVIOUS

------------------------------------------------------------------------------
(***************************************************************************)
(* Types                                                                   *)
(***************************************************************************)

\* A message about a document names it, and one that carries a text has one.
WellFormed(q) ==
  \A i \in DOMAIN q :
    /\ q[i].what # "hints" => q[i].key \in Keys
    /\ q[i].what \in {"open", "change"} => q[i].text \in Texts

LEMMA PushWellFormed ==
  ASSUME NEW q \in Seq(Message), WellFormed(q), NEW m \in Message,
         m.what # "hints" => m.key \in Keys,
         m.what \in {"open", "change"} => m.text \in Texts
  PROVE  Append(q, m) \in Seq(Message) /\ WellFormed(Append(q, m))
  BY Pushed, Indices DEF WellFormed

LEMMA PopWellFormed ==
  ASSUME NEW q \in Seq(Message), WellFormed(q), q # <<>>
  PROVE  /\ Tail(q) \in Seq(Message) /\ WellFormed(Tail(q))
         /\ Head(q) \in Message
         /\ Head(q).what # "hints" => Head(q).key \in Keys
         /\ Head(q).what \in {"open", "change"} => Head(q).text \in Texts
  BY Popped, Indices DEF WellFormed

TypeInv == TypeOK /\ WellFormed(inbox)

LEMMA InitTyped == Init => TypeInv
<1> SUFFICES ASSUME Init PROVE TypeInv
  OBVIOUS
<1>1. /\ disk \in [Keys -> Files] /\ graph \in [Keys -> Documents]
      /\ returned \in [Keys -> Documents \cup {None}]
  BY WatchConstants DEF Init, WatchConstants, Documents
<1>2. writes \in 0..MaxWrites /\ sent \in Nat
  BY WatchConstants DEF Init, WatchConstants
<1>3. inbox \in Seq(Message) /\ WellFormed(inbox)
  BY DEF Init, WellFormed
<1>4. raised \in Seq(Keys \X BOOLEAN) /\ channel \in Seq(Keys)
  BY DEF Init
<1>5. buffer \in [Keys -> Texts \cup {Closed}]
  BY DEF Init
<1>6. /\ server \in Servers
      /\ loaded \subseteq Keys /\ opened \subseteq Keys /\ missed \subseteq Keys
      /\ watching \in BOOLEAN /\ dirty \in BOOLEAN /\ refreshing \in BOOLEAN
      /\ staging \in BOOLEAN /\ todo \subseteq Keys
  BY DEF Init
<1>7. /\ probing = None /\ index = None /\ snapshot = None /\ hinted = None
      /\ got = None /\ call = None
  BY DEF Init
<1> QED BY <1>1, <1>2, <1>3, <1>4, <1>5, <1>6, <1>7 DEF TypeInv, TypeOK

LEMMA DocumentsOfFiles == \A f \in Files : AsDocument(f) \in Documents
  BY DEF AsDocument, Files, Documents

\* What the disk, the platform's queue and the bound are after a change of a file.
LEMMA PutTyped ==
  ASSUME TypeInv, NEW k \in Keys, NEW f \in Files, Put(k, f)
  PROVE  /\ disk' \in [Keys -> Files] /\ writes' \in 0..MaxWrites /\ missed' \subseteq Keys
         /\ raised' \in Seq(Keys \X BOOLEAN)
<1>1. Append(raised, <<k, f = Missing>>) \in Seq(Keys \X BOOLEAN)
  BY Pushed DEF TypeInv, TypeOK
<1>2. writes' \in 0..MaxWrites
  BY WatchConstants DEF Put, TypeInv, TypeOK, WatchConstants
<1> QED BY <1>1, <1>2 DEF Put, TypeInv, TypeOK

LEMMA SaysTyped ==
  ASSUME TypeInv, NEW k \in Keys \cup {None}, NEW t \in Texts \cup {None},
         NEW what \in {"open", "change", "close", "gone", "hints"}, Says(what, k, t),
         what # "hints" => k \in Keys,
         what \in {"open", "change"} => t \in Texts
  PROVE  inbox' \in Seq(Message) /\ WellFormed(inbox')
<1>1. [what |-> what, key |-> k, text |-> t] \in Message
  BY DEF Message
<1> QED BY <1>1, PushWellFormed DEF Says, TypeInv, TypeOK

LEMMA HintsTyped ==
  ASSUME TypeInv, Says("hints", None, None)
  PROVE  inbox' \in Seq(Message) /\ WellFormed(inbox')
  BY SaysTyped

LEMMA HandlesTyped ==
  ASSUME TypeInv, NEW what, Handles(what)
  PROVE  /\ inbox' \in Seq(Message) /\ WellFormed(inbox')
         /\ Head(inbox) \in Message
         /\ what # "hints" => Head(inbox).key \in Keys
         /\ what \in {"open", "change"} => Head(inbox).text \in Texts
  BY PopWellFormed DEF Handles, TypeInv, TypeOK

LEMMA StepTyped == TypeInv /\ [Next]_vars => TypeInv'
<1> SUFFICES ASSUME TypeInv, [Next]_vars PROVE TypeInv'
  OBVIOUS
<1> USE DEF TypeInv, TypeOK
<1>1. ASSUME NEW k \in Keys, NEW f \in Files, Outside(k, f) PROVE TypeInv'
  BY <1>1, PutTyped DEF Outside, clientVars, lspVars
<1>2. ASSUME NEW k \in Keys, LoadDocument(k) PROVE TypeInv'
  BY <1>2, DocumentsOfFiles DEF LoadDocument, clientVars, watchVars, lspVars, mcpVars
<1>3. CASE StartWatching
  BY <1>3 DEF StartWatching, clientVars, watchVars, lspVars, mcpVars
<1>4. CASE Dispatch
  <2>1. Head(raised) \in Keys \X BOOLEAN /\ Tail(raised) \in Seq(Keys \X BOOLEAN)
    BY <1>4, Popped DEF Dispatch
  <2>2. \A k \in Keys : Append(channel, k) \in Seq(Keys)
    BY Pushed
  <2> QED BY <1>4, <2>1, <2>2 DEF Dispatch, clientVars, lspVars, mcpVars
<1>5. CASE Probe
  BY <1>5, Pushed DEF Probe, clientVars, lspVars, mcpVars
<1>6. ASSUME NEW k \in Keys, ReloadRead(k) PROVE TypeInv'
  BY <1>6 DEF ReloadRead, clientVars, watchVars, lspVars, mcpVars
<1>7. CASE ReloadApply
  BY <1>7, DocumentsOfFiles DEF ReloadApply, Become, clientVars, watchVars, mcpVars
<1>8. ASSUME NEW k \in Keys, NEW t \in Texts, Open(k, t) PROVE TypeInv'
  BY <1>8, SaysTyped DEF Open, EditorRests, mcpVars
<1>9. ASSUME NEW k \in Keys, NEW t \in Texts, Change(k, t) PROVE TypeInv'
  BY <1>9, SaysTyped, WatchConstants DEF Change, EditorRests, mcpVars, WatchConstants
<1>10. ASSUME NEW k \in Keys, Save(k) PROVE TypeInv'
  BY <1>10, PutTyped DEF Save, EditorRests, clientVars, mcpVars, Files
<1>11. ASSUME NEW k \in Keys, Close(k) PROVE TypeInv'
  BY <1>11, SaysTyped DEF Close, EditorRests, mcpVars
<1>12. ASSUME NEW k \in Keys, Report(k) PROVE TypeInv'
  BY <1>12, SaysTyped DEF Report, EditorRests, mcpVars
<1>13. CASE AskForHints
  <2>1. inbox' \in Seq(Message) /\ WellFormed(inbox')
    BY <1>13, HintsTyped DEF AskForHints
  <2> QED BY <1>13, <2>1 DEF AskForHints, EditorRests, mcpVars
<1>14. CASE Refresh
  <2>1. inbox' \in Seq(Message) /\ WellFormed(inbox')
    BY <1>14, HintsTyped DEF Refresh
  <2> QED BY <1>14, <2>1 DEF Refresh, EditorRests, mcpVars
<1>15. CASE DidOpen
  <2>1. /\ inbox' \in Seq(Message) /\ WellFormed(inbox')
        /\ Head(inbox).key \in Keys /\ Head(inbox).text \in Texts
    BY <1>15, HandlesTyped DEF DidOpen
  <2>2. /\ graph' \in [Keys -> Documents] /\ opened' \subseteq Keys
        /\ refreshing' \in BOOLEAN /\ dirty' \in BOOLEAN
    BY <1>15, <2>1 DEF DidOpen, Become, Documents
  <2> QED BY <1>15, <2>1, <2>2 DEF DidOpen, Handles, LoopRests, mcpVars
<1>16. CASE DidChange
  <2>1. /\ inbox' \in Seq(Message) /\ WellFormed(inbox')
        /\ Head(inbox).key \in Keys /\ Head(inbox).text \in Texts
    BY <1>16, HandlesTyped DEF DidChange
  <2>2. /\ graph' \in [Keys -> Documents] /\ opened' \subseteq Keys
        /\ refreshing' \in BOOLEAN /\ dirty' \in BOOLEAN
    BY <1>16, <2>1 DEF DidChange, Become, Documents
  <2> QED BY <1>16, <2>1, <2>2 DEF DidChange, Handles, LoopRests, mcpVars
<1>17. CASE DidClose
  <2>1. inbox' \in Seq(Message) /\ WellFormed(inbox') /\ Head(inbox).key \in Keys
    BY <1>17, HandlesTyped DEF DidClose
  <2>2. todo = {} /\ todo' \subseteq Keys /\ opened' \subseteq Keys
    BY <1>17, <2>1 DEF DidClose, Handles, Ready
  <2> QED BY <1>17, <2>1, <2>2 DEF DidClose, Handles, LoopRests, mcpVars
<1>18. CASE DidChangeWatchedFiles
  <2>1. inbox' \in Seq(Message) /\ WellFormed(inbox') /\ Head(inbox).key \in Keys
    BY <1>18, HandlesTyped DEF DidChangeWatchedFiles
  <2>2. todo = {} /\ todo' \subseteq Keys /\ opened' \subseteq Keys
    BY <1>18, <2>1 DEF DidChangeWatchedFiles, Handles, Ready, ApplyExternal
  <2> QED BY <1>18, <2>1, <2>2 DEF DidChangeWatchedFiles, Handles, LoopRests, mcpVars
<1>19. CASE InlayHints
  <2>1. inbox' \in Seq(Message) /\ WellFormed(inbox')
    BY <1>19, HandlesTyped DEF InlayHints
  <2>2. /\ dirty' \in BOOLEAN /\ index' \in [Keys -> Documents] \cup {None}
        /\ hinted' \in SUBSET Keys
    BY <1>19 DEF InlayHints, RefreshIndex, DocumentsOf
  <2> QED BY <1>19, <2>1, <2>2 DEF InlayHints, Handles, LoopRests, mcpVars
<1>20. CASE OnFsEvent
  BY <1>20, Popped DEF OnFsEvent, ApplyExternal, LoopRests, lspVars, mcpVars, Ready
<1>21. CASE IdleRebuild
  BY <1>21 DEF IdleRebuild, RefreshIndex, LoopRests, mcpVars
<1>22. CASE TakeBatch
  BY <1>22, Indices DEF TakeBatch, Unlocked, McpRests, clientVars, lspVars, mcpVars
<1>23. ASSUME NEW ks \in SUBSET Keys, NEW d \in Documents, ToolStart(ks, d) PROVE TypeInv'
  BY <1>23 DEF ToolStart, McpRests, clientVars, lspVars
<1>24. ASSUME NEW k \in Keys, ToolWrite(k) PROVE TypeInv'
  <2>1. call \in [keys : SUBSET Keys, left : SUBSET Keys, document : Documents]
    BY <1>24 DEF ToolWrite
  <2>2. call.document \in Files
    BY <2>1 DEF Documents, Files
  <2> QED BY <1>24, <2>1, <2>2, PutTyped DEF ToolWrite, McpRests, clientVars, lspVars
<1>25. CASE ToolFail
  BY <1>25 DEF ToolFail, McpRests, clientVars, lspVars
<1>26. CASE ToolReturn
  BY <1>26 DEF ToolReturn, McpRests, clientVars, lspVars
<1>27. CASE BeginDefault
  BY <1>27 DEF BeginDefault, McpRests, clientVars, lspVars
<1>28. ASSUME NEW k \in Keys, NEW d \in Documents, Stage(k, d) PROVE TypeInv'
  BY <1>28, WatchConstants DEF Stage, McpRests, clientVars, lspVars, WatchConstants
<1>29. CASE AbortTake
  BY <1>29, DocumentsOfFiles DEF AbortTake, McpRests, clientVars, lspVars
<1>29a. ASSUME NEW k \in Keys, AbortRead(k) PROVE TypeInv'
  BY <1>29a, DocumentsOfFiles DEF AbortRead, McpRests, clientVars, lspVars
<1>30. CASE AbortReplace
  BY <1>30 DEF AbortReplace, McpRests, clientVars, lspVars
<1>31. CASE UNCHANGED vars
  BY <1>31 DEF vars, clientVars, watchVars, lspVars, mcpVars
<1> HIDE DEF TypeInv, TypeOK
<1> QED
  BY <1>1, <1>2, <1>3, <1>4, <1>5, <1>6, <1>7, <1>8, <1>9, <1>10, <1>11, <1>12, <1>13, <1>14,
     <1>15, <1>16, <1>17, <1>18, <1>19, <1>20, <1>21, <1>22, <1>23, <1>24, <1>25, <1>26, <1>27,
     <1>28, <1>29, <1>29a, <1>30, <1>31
  DEF Next, Watcher, Editor, Loop, OnNotification, ToolCall, DefaultTransaction

\* Every variable of the two servers, the watcher and the editor holds what it is
\* declared to hold, and a reload under way is of a document still to be reloaded.
THEOREM TypeCorrect == Spec => []TypeOK
<1>1. TypeInv => TypeOK
  BY DEF TypeInv
<1> QED BY <1>1, InitTyped, StepTyped, PTL DEF Spec

------------------------------------------------------------------------------
(***************************************************************************)
(* Who does what when                                                      *)
(***************************************************************************)

\* The language server has no tool calls, the MCP server no editor; before the
\* watcher is started neither serves anybody; a tool call and a reload exclude each
\* other (the graph lock), and what is open in the editor is not reloaded.
NoEditor == /\ \A k \in Keys : buffer[k] = Closed
            /\ inbox = <<>> /\ opened = {} /\ dirty /\ hinted = None /\ ~refreshing

NoTools == /\ call = None /\ snapshot = None /\ ~staging
           /\ \A k \in Keys : returned[k] = None

NotServing == opened = {} /\ dirty /\ hinted = None /\ todo = {} /\ NoTools

Discipline ==
  /\ server = "iwec" => NoEditor
  /\ server = "iwes" => NoTools
  /\ IF watching THEN loaded = Keys ELSE NotServing
  /\ call # None => todo = {}
  /\ opened \cap todo = {}

LEMMA InitDisciplined == Init => Discipline
  BY DEF Init, Discipline, NoEditor, NoTools, NotServing

LEMMA StepDisciplined == TypeInv /\ Discipline /\ [Next]_vars => Discipline'
<1> SUFFICES ASSUME TypeInv, Discipline, [Next]_vars PROVE Discipline'
  OBVIOUS
<1>0. /\ server \in {"iwes", "iwec"} /\ (got # None => got.key \in todo)
      /\ buffer \in [Keys -> Texts \cup {Closed}]
      /\ returned \in [Keys -> Documents \cup {None}]
  BY WatchConstants DEF TypeInv, TypeOK, WatchConstants
<1> USE DEF Discipline, NoEditor, NoTools, NotServing
<1>1. ASSUME NEW k \in Keys, NEW f \in Files, Outside(k, f) PROVE Discipline'
  BY <1>0, <1>1 DEF Outside, Put, clientVars, lspVars
<1>2. ASSUME NEW k \in Keys, LoadDocument(k) PROVE Discipline'
  BY <1>0, <1>2 DEF LoadDocument, clientVars, watchVars, lspVars, mcpVars
<1>3. CASE StartWatching
  BY <1>0, <1>3 DEF StartWatching, clientVars, watchVars, lspVars, mcpVars
<1>4. CASE Dispatch
  BY <1>0, <1>4 DEF Dispatch, clientVars, lspVars, mcpVars
<1>5. CASE Probe
  BY <1>0, <1>5 DEF Probe, clientVars, lspVars, mcpVars
<1>6. ASSUME NEW k \in Keys, ReloadRead(k) PROVE Discipline'
  BY <1>0, <1>6 DEF ReloadRead, clientVars, watchVars, lspVars, mcpVars
<1>7. CASE ReloadApply
  BY <1>0, <1>7 DEF ReloadApply, Become, clientVars, watchVars, mcpVars
<1>8. ASSUME NEW k \in Keys, NEW t \in Texts, Open(k, t) PROVE Discipline'
  BY <1>0, <1>8 DEF Open, Says, EditorRests, mcpVars
<1>9. ASSUME NEW k \in Keys, NEW t \in Texts, Change(k, t) PROVE Discipline'
  BY <1>0, <1>9 DEF Change, Says, EditorRests, mcpVars
<1>10. ASSUME NEW k \in Keys, Save(k) PROVE Discipline'
  BY <1>0, <1>10 DEF Save, Put, EditorRests, clientVars, mcpVars
<1>11. ASSUME NEW k \in Keys, Close(k) PROVE Discipline'
  BY <1>0, <1>11 DEF Close, Says, EditorRests, mcpVars
<1>12. ASSUME NEW k \in Keys, Report(k) PROVE Discipline'
  BY <1>0, <1>12 DEF Report, Says, EditorRests, mcpVars
<1>13. CASE AskForHints
  BY <1>0, <1>13 DEF AskForHints, Says, EditorRests, mcpVars
<1>14. CASE Refresh
  BY <1>0, <1>14 DEF Refresh, Says, EditorRests, mcpVars
<1>15. CASE DidOpen
  BY <1>0, <1>15 DEF DidOpen, Handles, Ready, LoopRests, Become, mcpVars
<1>16. CASE DidChange
  BY <1>0, <1>16 DEF DidChange, Handles, Ready, LoopRests, Become, mcpVars
<1>17. CASE DidClose
  BY <1>0, <1>17 DEF DidClose, Handles, Ready, LoopRests, mcpVars
<1>18. CASE DidChangeWatchedFiles
  BY <1>0, <1>18 DEF DidChangeWatchedFiles, ApplyExternal, Handles, Ready, LoopRests, mcpVars
<1>19. CASE InlayHints
  BY <1>0, <1>19 DEF InlayHints, RefreshIndex, Handles, Ready, LoopRests, mcpVars
<1>20. CASE OnFsEvent
  BY <1>0, <1>20 DEF OnFsEvent, ApplyExternal, Ready, LoopRests, lspVars, mcpVars
<1>21. CASE IdleRebuild
  BY <1>0, <1>21 DEF IdleRebuild, RefreshIndex, Ready, LoopRests, mcpVars
<1>22. CASE TakeBatch
  BY <1>0, <1>22 DEF TakeBatch, Unlocked, McpRests, clientVars, lspVars, mcpVars
<1>23. ASSUME NEW ks \in SUBSET Keys, NEW d \in Documents, ToolStart(ks, d) PROVE Discipline'
  BY <1>0, <1>23 DEF ToolStart, Unlocked, McpRests, clientVars, lspVars
<1>24. ASSUME NEW k \in Keys, ToolWrite(k) PROVE Discipline'
  BY <1>0, <1>24 DEF ToolWrite, Put, McpRests, clientVars, lspVars
<1>25. CASE ToolFail
  BY <1>0, <1>25 DEF ToolFail, McpRests, clientVars, lspVars
<1>26. CASE ToolReturn
  BY <1>0, <1>26 DEF ToolReturn, McpRests, clientVars, lspVars
<1>27. CASE BeginDefault
  BY <1>0, <1>27 DEF BeginDefault, Unlocked, McpRests, clientVars, lspVars
<1>28. ASSUME NEW k \in Keys, NEW d \in Documents, Stage(k, d) PROVE Discipline'
  BY <1>0, <1>28 DEF Stage, Unlocked, McpRests, clientVars, lspVars
<1>29. CASE AbortTake
  BY <1>0, <1>29 DEF AbortTake, Unlocked, McpRests, clientVars, lspVars
<1>29a. ASSUME NEW k \in Keys, AbortRead(k) PROVE Discipline'
  BY <1>0, <1>29a DEF AbortRead, McpRests, clientVars, lspVars
<1>30. CASE AbortReplace
  BY <1>0, <1>30 DEF AbortReplace, Unlocked, McpRests, clientVars, lspVars
<1>31. CASE UNCHANGED vars
  BY <1>0, <1>31 DEF vars, clientVars, watchVars, lspVars, mcpVars
<1> HIDE DEF Discipline, NoEditor, NoTools, NotServing
<1> QED
  BY <1>1, <1>2, <1>3, <1>4, <1>5, <1>6, <1>7, <1>8, <1>9, <1>10, <1>11, <1>12, <1>13, <1>14,
     <1>15, <1>16, <1>17, <1>18, <1>19, <1>20, <1>21, <1>22, <1>23, <1>24, <1>25, <1>26, <1>27,
     <1>28, <1>29, <1>29a, <1>30, <1>31
  DEF Next, Watcher, Editor, Loop, OnNotification, ToolCall, DefaultTransaction

------------------------------------------------------------------------------
(***************************************************************************)
(* Open documents                                                          *)
(***************************************************************************)
Edits == {"open", "change", "close"}

\* Message i of queue q opens, changes or closes k.
Edit(q, k, i) == i \in DOMAIN q /\ q[i].key = k /\ q[i].what \in Edits

NoneBefore(q, k, j) == \A i \in DOMAIN q : Edit(q, k, i) => j <= i

NoneAfter(q, k, i) == \A j \in DOMAIN q : Edit(q, k, j) => j <= i

NoneBetween(q, k, i, j) == \A m \in DOMAIN q : Edit(q, k, m) => m <= i \/ j <= m

NoEdit(q, k) == \A i \in DOMAIN q : ~Edit(q, k, i)

\* The messages of q about k take the server, which has k open or not and holds
\* "held", to what the editor shows: no change comes when the document is not open,
\* and the last message says what is shown.
Change1(q, k, open) ==
  \A j \in DOMAIN q :
    Edit(q, k, j) /\ q[j].what = "change" /\ NoneBefore(q, k, j) => open

Changes(q, k) ==
  \A i, j \in DOMAIN q :
    Edit(q, k, i) /\ Edit(q, k, j) /\ i < j /\ NoneBetween(q, k, i, j) /\ q[j].what = "change"
      => q[i].what # "close"

LastSays(q, k, shown) ==
  \A i \in DOMAIN q : Edit(q, k, i) /\ NoneAfter(q, k, i) =>
    shown = IF q[i].what = "close" THEN Closed ELSE q[i].text

Told(q, k, open, shown, held) ==
  NoEdit(q, k) => (open <=> shown # Closed) /\ (open => held = shown)

Kept(q, k, open, shown, held) ==
  /\ Change1(q, k, open) /\ Changes(q, k)
  /\ LastSays(q, k, shown) /\ Told(q, k, open, shown, held)

\* A message about another document or about no edit changes nothing.
LEMMA PushOther ==
  ASSUME NEW q \in Seq(Message), NEW m \in Message, NEW k, NEW open, NEW shown, NEW held,
         Kept(q, k, open, shown, held), m.key # k \/ m.what \notin Edits
  PROVE  Kept(Append(q, m), k, open, shown, held)
<1> DEFINE r == Append(q, m)
<1>1. /\ Len(q) \in Nat /\ DOMAIN q = 1..Len(q) /\ DOMAIN r = 1..Len(q) + 1
      /\ \A i \in DOMAIN q : r[i] = q[i]
      /\ r[Len(q) + 1] = m
  BY Pushed, Indices
<1> HIDE DEF r
<1>2. \A i : Edit(r, k, i) <=> Edit(q, k, i)
  BY <1>1 DEF Edit
<1>3. \A i : Edit(q, k, i) => i \in DOMAIN q /\ i \in DOMAIN r /\ r[i] = q[i]
  BY <1>1 DEF Edit
<1>4. \A i \in DOMAIN q : /\ NoneBefore(r, k, i) => NoneBefore(q, k, i)
                          /\ NoneAfter(r, k, i) => NoneAfter(q, k, i)
  BY <1>2, <1>3 DEF NoneBefore, NoneAfter
<1>5. \A i, j \in DOMAIN q : NoneBetween(r, k, i, j) => NoneBetween(q, k, i, j)
  BY <1>2, <1>3 DEF NoneBetween
<1>6. NoEdit(r, k) => NoEdit(q, k)
  BY <1>2, <1>3 DEF NoEdit
<1>7. Change1(r, k, open)
  BY <1>2, <1>3, <1>4 DEF Kept, Change1
<1>8. Changes(r, k)
  BY <1>2, <1>3, <1>5 DEF Kept, Changes
<1>9. LastSays(r, k, shown)
  BY <1>2, <1>3, <1>4 DEF Kept, LastSays
<1>10. Told(r, k, open, shown, held)
  BY <1>6 DEF Kept, Told
<1> QED BY <1>7, <1>8, <1>9, <1>10 DEF Kept, r

\* An edit in the editor and the message that tells of it.
LEMMA PushEdit ==
  ASSUME NEW q \in Seq(Message), NEW m \in Message, NEW k, NEW open, NEW shown, NEW held,
         Kept(q, k, open, shown, held), m.key = k, m.what \in Edits,
         m.what = "change" => shown # Closed
  PROVE  Kept(Append(q, m), k, open, IF m.what = "close" THEN Closed ELSE m.text, held)
<1> DEFINE r == Append(q, m)
           n == Len(q) + 1
<1>1. /\ Len(q) \in Nat /\ n \in Nat /\ DOMAIN q = 1..Len(q) /\ DOMAIN r = 1..n
      /\ \A i \in DOMAIN q : r[i] = q[i] /\ i \in DOMAIN r /\ i < n
      /\ r[n] = m /\ n \in DOMAIN r
      /\ \A i \in DOMAIN r : i \in DOMAIN q \/ i = n
      /\ \A i \in DOMAIN r : i \in Nat
  BY Pushed, Indices
<1> HIDE DEF r, n
<1>2. \A i : Edit(r, k, i) <=> Edit(q, k, i) \/ i = n
  BY <1>1 DEF Edit
<1>3. \A i : Edit(q, k, i) => i \in DOMAIN q /\ i \in DOMAIN r /\ r[i] = q[i] /\ i < n
  BY <1>1 DEF Edit
<1>4. \A i \in DOMAIN q : NoneBefore(r, k, i) => NoneBefore(q, k, i)
  BY <1>2, <1>3 DEF NoneBefore
<1>5. \A i, j \in DOMAIN q : NoneBetween(r, k, i, j) => NoneBetween(q, k, i, j)
  BY <1>2, <1>3 DEF NoneBetween
<1>6. ASSUME NoneBefore(r, k, n) PROVE NoEdit(q, k)
  BY <1>1, <1>2, <1>3, <1>6 DEF NoneBefore, NoEdit
<1>7. ASSUME NEW i \in DOMAIN q, NoneBetween(r, k, i, n) PROVE NoneAfter(q, k, i)
  BY <1>1, <1>2, <1>3, <1>7 DEF NoneBetween, NoneAfter
<1>8. ASSUME NEW i \in DOMAIN r, NoneAfter(r, k, i) PROVE i = n
  BY <1>1, <1>2, <1>3, <1>8 DEF NoneAfter
<1>9. Change1(r, k, open)
  <2> SUFFICES ASSUME NEW j \in DOMAIN r, Edit(r, k, j), r[j].what = "change", NoneBefore(r, k, j)
               PROVE  open
    BY DEF Change1
  <2>1. CASE j = n
    BY <1>1, <1>6, <2>1 DEF Kept, Told
  <2>2. CASE j \in DOMAIN q
    BY <1>1, <1>2, <1>4, <2>2 DEF Kept, Change1
  <2> QED BY <1>1, <2>1, <2>2
<1>10. Changes(r, k)
  <2> SUFFICES ASSUME NEW i \in DOMAIN r, NEW j \in DOMAIN r, Edit(r, k, i), Edit(r, k, j),
                      i < j, NoneBetween(r, k, i, j), r[j].what = "change"
               PROVE  r[i].what # "close"
    BY DEF Changes
  <2>0. i \in DOMAIN q /\ Edit(q, k, i) /\ r[i] = q[i]
    BY <1>1, <1>2
  <2>1. CASE j = n
    <3>1. m.what = "change" /\ NoneAfter(q, k, i)
      BY <1>1, <1>7, <2>0, <2>1
    <3> QED BY <2>0, <3>1 DEF Kept, LastSays
  <2>2. CASE j \in DOMAIN q
    BY <1>1, <1>2, <1>5, <2>0, <2>2 DEF Kept, Changes
  <2> QED BY <1>1, <2>1, <2>2
<1>11. LastSays(r, k, IF m.what = "close" THEN Closed ELSE m.text)
  BY <1>1, <1>8 DEF LastSays
<1>12. ~NoEdit(r, k)
  BY <1>1, <1>2 DEF NoEdit
<1> QED BY <1>9, <1>10, <1>11, <1>12 DEF Kept, Told, r

\* What the indices of a queue and of its tail have to do with each other.
LEMMA TailIndices ==
  ASSUME NEW q \in Seq(Message), q # <<>>, NEW k
  PROVE  /\ \A i \in DOMAIN Tail(q) : i \in Int /\ 1 <= i /\ i + 1 \in DOMAIN q /\ Tail(q)[i] = q[i + 1]
         /\ \A i \in DOMAIN q : i \in Int /\ (i # 1 => 1 < i /\ i - 1 \in DOMAIN Tail(q))
         /\ \A i : Edit(Tail(q), k, i) <=> i \in DOMAIN Tail(q) /\ Edit(q, k, i + 1)
         /\ 1 \in DOMAIN q
<1>1. /\ Len(q) \in Nat
      /\ DOMAIN q = 1..Len(q) /\ 1 \in DOMAIN q
      /\ DOMAIN Tail(q) = 1..Len(q) - 1
      /\ \A i \in 1..Len(q) - 1 : Tail(q)[i] = q[i + 1]
  BY Popped, Indices
<1>2. \A i \in DOMAIN Tail(q) : i \in Int /\ 1 <= i /\ i + 1 \in DOMAIN q /\ Tail(q)[i] = q[i + 1]
  BY <1>1
<1>3. \A i \in DOMAIN q : i \in Int /\ (i # 1 => 1 < i /\ i - 1 \in DOMAIN Tail(q))
  BY <1>1
<1>4. \A i : Edit(Tail(q), k, i) <=> i \in DOMAIN Tail(q) /\ Edit(q, k, i + 1)
  BY <1>2 DEF Edit
<1> QED BY <1>1, <1>2, <1>3, <1>4

LEMMA PopOther ==
  ASSUME NEW q \in Seq(Message), q # <<>>, NEW k, NEW open, NEW shown, NEW held,
         Kept(q, k, open, shown, held), ~Edit(q, k, 1)
  PROVE  Kept(Tail(q), k, open, shown, held)
<1> DEFINE r == Tail(q)
<1>1. /\ \A i \in DOMAIN r : i \in Int /\ 1 <= i /\ i + 1 \in DOMAIN q /\ r[i] = q[i + 1]
      /\ \A i \in DOMAIN q : i \in Int /\ (i # 1 => 1 < i /\ i - 1 \in DOMAIN r)
      /\ \A i : Edit(r, k, i) <=> i \in DOMAIN r /\ Edit(q, k, i + 1)
  BY TailIndices
<1> HIDE DEF r
<1>2. \A i \in DOMAIN q : Edit(q, k, i) => i - 1 \in DOMAIN r /\ Edit(r, k, i - 1)
  BY <1>1
<1>3. \A i \in DOMAIN r : /\ NoneBefore(r, k, i) => NoneBefore(q, k, i + 1)
                          /\ NoneAfter(r, k, i) => NoneAfter(q, k, i + 1)
  BY <1>1, <1>2 DEF NoneBefore, NoneAfter
<1>4. \A i, j \in DOMAIN r : NoneBetween(r, k, i, j) => NoneBetween(q, k, i + 1, j + 1)
  <2> SUFFICES ASSUME NEW i \in DOMAIN r, NEW j \in DOMAIN r, NoneBetween(r, k, i, j),
                      NEW m \in DOMAIN q, Edit(q, k, m)
               PROVE  m <= i + 1 \/ j + 1 <= m
    BY DEF NoneBetween
  <2>1. m - 1 <= i \/ j <= m - 1
    BY <1>2 DEF NoneBetween
  <2> QED BY <1>1, <2>1
<1>5. NoEdit(r, k) => NoEdit(q, k)
  BY <1>1, <1>2 DEF NoEdit
<1>6. Change1(r, k, open)
  BY <1>1, <1>3 DEF Kept, Change1
<1>7. Changes(r, k)
  <2> SUFFICES ASSUME NEW i \in DOMAIN r, NEW j \in DOMAIN r, Edit(r, k, i), Edit(r, k, j),
                      i < j, NoneBetween(r, k, i, j), r[j].what = "change"
               PROVE  r[i].what # "close"
    BY DEF Changes
  <2>1. /\ i + 1 \in DOMAIN q /\ Edit(q, k, i + 1) /\ r[i] = q[i + 1]
        /\ j + 1 \in DOMAIN q /\ Edit(q, k, j + 1) /\ r[j] = q[j + 1]
        /\ i + 1 < j + 1
    BY <1>1
  <2> QED BY <1>4, <2>1 DEF Kept, Changes
<1>8. LastSays(r, k, shown)
  BY <1>1, <1>3 DEF Kept, LastSays
<1>9. Told(r, k, open, shown, held)
  BY <1>5 DEF Kept, Told
<1> QED BY <1>6, <1>7, <1>8, <1>9 DEF Kept, r

\* The server handles an edit: afterwards the document is open, with the message's
\* text, unless it was closed.
LEMMA PopEdit ==
  ASSUME NEW q \in Seq(Message), q # <<>>, WellFormed(q), NEW k, NEW open, NEW shown, NEW held,
         Kept(q, k, open, shown, held), Edit(q, k, 1),
         NEW held2, q[1].what # "close" => held2 = q[1].text
  PROVE  /\ Kept(Tail(q), k, q[1].what # "close", shown, held2)
         /\ q[1].what = "change" => open
<1> DEFINE r == Tail(q)
           opens == q[1].what # "close"
<1>1. /\ \A i \in DOMAIN r : i \in Int /\ 1 <= i /\ i + 1 \in DOMAIN q /\ r[i] = q[i + 1]
      /\ \A i \in DOMAIN q : i \in Int /\ (i # 1 => 1 < i /\ i - 1 \in DOMAIN r)
      /\ \A i : Edit(r, k, i) <=> i \in DOMAIN r /\ Edit(q, k, i + 1)
      /\ 1 \in DOMAIN q
  BY TailIndices
<1>2. q[1].what \in Edits /\ (opens => q[1].text \in Texts)
  BY <1>1 DEF Edit, Edits, WellFormed
<1> HIDE DEF r
<1>3. \A i \in DOMAIN q : Edit(q, k, i) /\ i # 1 => i - 1 \in DOMAIN r /\ Edit(r, k, i - 1)
  BY <1>1
<1>4. \A i \in DOMAIN r : 1 <= i
  BY <1>1
<1>5. \A i, j \in DOMAIN r : NoneBetween(r, k, i, j) => NoneBetween(q, k, i + 1, j + 1)
  <2> SUFFICES ASSUME NEW i \in DOMAIN r, NEW j \in DOMAIN r, NoneBetween(r, k, i, j),
                      NEW m \in DOMAIN q, Edit(q, k, m)
               PROVE  m <= i + 1 \/ j + 1 <= m
    BY DEF NoneBetween
  <2>1. m # 1 => m - 1 <= i \/ j <= m - 1
    BY <1>3 DEF NoneBetween
  <2> QED BY <1>1, <2>1
<1>6. \A i \in DOMAIN r : NoneAfter(r, k, i) => NoneAfter(q, k, i + 1)
  BY <1>1, <1>3, <1>4 DEF NoneAfter
<1>7. \A j \in DOMAIN r : NoneBefore(r, k, j) => NoneBetween(q, k, 1, j + 1)
  BY <1>1, <1>3, <1>4 DEF NoneBefore, NoneBetween
<1>8. Change1(r, k, opens)
  <2> SUFFICES ASSUME NEW j \in DOMAIN r, Edit(r, k, j), r[j].what = "change", NoneBefore(r, k, j)
               PROVE  opens
    BY DEF Change1
  <2>1. Edit(q, k, j + 1) /\ j + 1 \in DOMAIN q /\ 1 < j + 1 /\ NoneBetween(q, k, 1, j + 1)
    BY <1>1, <1>4, <1>7
  <2>2. q[j + 1].what = "change"
    BY <1>1
  <2> QED BY <1>1, <2>1, <2>2 DEF Kept, Changes
<1>9. Changes(r, k)
  <2> SUFFICES ASSUME NEW i \in DOMAIN r, NEW j \in DOMAIN r, Edit(r, k, i), Edit(r, k, j),
                      i < j, NoneBetween(r, k, i, j), r[j].what = "change"
               PROVE  r[i].what # "close"
    BY DEF Changes
  <2>1. /\ i + 1 \in DOMAIN q /\ Edit(q, k, i + 1) /\ r[i] = q[i + 1]
        /\ j + 1 \in DOMAIN q /\ Edit(q, k, j + 1) /\ r[j] = q[j + 1]
        /\ i + 1 < j + 1
    BY <1>1
  <2> QED BY <1>5, <2>1 DEF Kept, Changes
<1>10. LastSays(r, k, shown)
  BY <1>1, <1>6 DEF Kept, LastSays
<1>11. Told(r, k, opens, shown, held2)
  <2> SUFFICES ASSUME NoEdit(r, k)
               PROVE  (opens <=> shown # Closed) /\ (opens => held2 = shown)
    BY DEF Told
  <2>1. NoneAfter(q, k, 1)
    BY <1>1, <1>3 DEF NoneAfter, NoEdit
  <2>2. shown = IF opens THEN q[1].text ELSE Closed
    BY <1>1, <2>1 DEF Kept, LastSays
  <2> QED BY <1>2, <2>2, WatchConstants DEF WatchConstants
<1>12. q[1].what = "change" => open
  <2>1. NoneBefore(q, k, 1)
    BY <1>1 DEF NoneBefore
  <2> QED BY <1>1, <2>1 DEF Kept, Change1
<1> QED BY <1>8, <1>9, <1>10, <1>11, <1>12 DEF Kept, r

EditorInv == \A k \in Keys : Kept(inbox, k, k \in opened, buffer[k], graph[k])

LEMMA InitEditor == Init => EditorInv
<1> SUFFICES ASSUME Init, NEW k \in Keys
             PROVE  Kept(inbox, k, k \in opened, buffer[k], graph[k])
  BY DEF EditorInv
<1>1. DOMAIN inbox = {} /\ k \notin opened /\ buffer[k] = Closed
  BY DEF Init
<1> QED BY <1>1 DEF Kept, Change1, Changes, LastSays, Told

\* The graph may change where the document is not open.
LEMMA KeptGraph ==
  ASSUME EditorInv, UNCHANGED <<inbox, opened, buffer>>,
         \A k \in Keys : graph'[k] = graph[k] \/ k \notin opened
  PROVE  EditorInv'
<1> SUFFICES ASSUME NEW k \in Keys
             PROVE  Kept(inbox', k, k \in opened', buffer'[k], graph'[k])
  BY DEF EditorInv
<1>1. Kept(inbox, k, k \in opened, buffer[k], graph[k])
  BY DEF EditorInv
<1>2. CASE graph'[k] = graph[k]
  BY <1>1, <1>2
<1>3. CASE k \notin opened
  BY <1>1, <1>3 DEF Kept, Told
<1> QED BY <1>2, <1>3

LEMMA KeptSays ==
  ASSUME TypeInv, EditorInv, NEW k \in Keys, NEW t \in Texts \cup {None},
         NEW what \in Edits, Says(what, k, t),
         what = "change" => buffer[k] # Closed,
         buffer' = [buffer EXCEPT ![k] = IF what = "close" THEN Closed ELSE t],
         UNCHANGED <<opened, graph>>
  PROVE  EditorInv'
<1> DEFINE m == [what |-> what, key |-> k, text |-> t]
<1>1. m \in Message /\ inbox \in Seq(Message) /\ buffer \in [Keys -> Texts \cup {Closed}]
  BY DEF Message, Edits, TypeInv, TypeOK
<1>2. m.what = what /\ m.key = k /\ m.text = t /\ inbox' = Append(inbox, m)
  BY DEF Says
<1> HIDE DEF m
<1> SUFFICES ASSUME NEW l \in Keys
             PROVE  Kept(inbox', l, l \in opened, buffer'[l], graph[l])
  BY DEF EditorInv
<1>3. Kept(inbox, l, l \in opened, buffer[l], graph[l])
  BY DEF EditorInv
<1>4. CASE l = k
  <2>1. Kept(Append(inbox, m), l, l \in opened, IF m.what = "close" THEN Closed ELSE m.text, graph[l])
    BY <1>1, <1>2, <1>3, <1>4, PushEdit
  <2>2. buffer'[l] = IF m.what = "close" THEN Closed ELSE m.text
    BY <1>1, <1>2, <1>4
  <2> QED BY <1>2, <2>1, <2>2
<1>5. CASE l # k
  <2>1. Kept(Append(inbox, m), l, l \in opened, buffer[l], graph[l])
    BY <1>1, <1>2, <1>3, <1>5, PushOther
  <2> QED BY <1>1, <1>2, <1>5, <2>1
<1> QED BY <1>4, <1>5

LEMMA KeptAsks ==
  ASSUME TypeInv, EditorInv, NEW k \in Keys \cup {None}, NEW t \in Texts \cup {None},
         NEW what \in {"gone", "hints"}, Says(what, k, t),
         UNCHANGED <<opened, graph, buffer>>
  PROVE  EditorInv'
<1> DEFINE m == [what |-> what, key |-> k, text |-> t]
<1>1. m \in Message /\ inbox \in Seq(Message) /\ m.what \notin Edits
  BY DEF Message, Edits, TypeInv, TypeOK
<1>2. inbox' = Append(inbox, m)
  BY DEF Says
<1> HIDE DEF m
<1> SUFFICES ASSUME NEW l \in Keys
             PROVE  Kept(inbox', l, l \in opened, buffer[l], graph[l])
  BY DEF EditorInv
<1>3. Kept(inbox, l, l \in opened, buffer[l], graph[l])
  BY DEF EditorInv
<1> QED BY <1>1, <1>2, <1>3, PushOther

\* The server handles an edit; afterwards no other document has changed.
LEMMA KeptHandles ==
  ASSUME TypeInv, EditorInv, NEW what \in Edits, Handles(what),
         opened' = IF what = "close" THEN opened \ {Head(inbox).key} ELSE opened \cup {Head(inbox).key},
         \A k \in Keys : k # Head(inbox).key => graph'[k] = graph[k],
         what # "close" => graph'[Head(inbox).key] = Head(inbox).text
  PROVE  EditorInv'
<1>1. /\ inbox \in Seq(Message) /\ inbox # <<>> /\ WellFormed(inbox)
      /\ Head(inbox) = inbox[1] /\ 1 \in DOMAIN inbox
  BY Popped DEF TypeInv, TypeOK, Handles
<1>2. inbox' = Tail(inbox) /\ buffer' = buffer /\ inbox[1].what = what
  BY <1>1 DEF Handles, LoopRests
<1> SUFFICES ASSUME NEW k \in Keys
             PROVE  Kept(inbox', k, k \in opened', buffer[k], graph'[k])
  BY <1>2 DEF EditorInv
<1>3. Kept(inbox, k, k \in opened, buffer[k], graph[k])
  BY DEF EditorInv
<1>4. CASE k = inbox[1].key
  <2>1. Edit(inbox, k, 1)
    BY <1>1, <1>2, <1>4 DEF Edit
  <2>2. inbox[1].what # "close" => graph'[k] = inbox[1].text
    BY <1>1, <1>2, <1>4
  <2>3. Kept(Tail(inbox), k, inbox[1].what # "close", buffer[k], graph'[k])
    BY <1>1, <1>3, <2>1, <2>2, PopEdit
  <2>4. (k \in opened') <=> inbox[1].what # "close"
    BY <1>1, <1>2, <1>4
  <2>5. CASE k \in opened'
    BY <1>2, <2>3, <2>4, <2>5 DEF Kept, Change1, Told
  <2>6. CASE k \notin opened'
    BY <1>2, <2>3, <2>4, <2>6 DEF Kept, Change1, Told
  <2> QED BY <2>5, <2>6
<1>5. CASE k # inbox[1].key
  <2>1. ~Edit(inbox, k, 1) /\ graph'[k] = graph[k] /\ (k \in opened' <=> k \in opened)
    BY <1>1, <1>5 DEF Edit
  <2>2. Kept(Tail(inbox), k, k \in opened, buffer[k], graph[k])
    BY <1>1, <1>3, <2>1, PopOther
  <2>3. CASE k \in opened
    BY <1>2, <2>1, <2>2, <2>3 DEF Kept, Change1, Told
  <2>4. CASE k \notin opened
    BY <1>2, <2>1, <2>2, <2>4 DEF Kept, Change1, Told
  <2> QED BY <2>3, <2>4
<1> QED BY <1>4, <1>5

LEMMA KeptAnswers ==
  ASSUME TypeInv, EditorInv, NEW what \in {"gone", "hints"}, Handles(what),
         UNCHANGED <<opened, graph>>
  PROVE  EditorInv'
<1>1. inbox \in Seq(Message) /\ inbox # <<>> /\ Head(inbox) = inbox[1]
  BY Popped DEF TypeInv, TypeOK, Handles
<1>2. inbox' = Tail(inbox) /\ buffer' = buffer /\ inbox[1].what = what
  BY <1>1 DEF Handles, LoopRests
<1> SUFFICES ASSUME NEW k \in Keys
             PROVE  Kept(inbox', k, k \in opened, buffer[k], graph[k])
  BY <1>2 DEF EditorInv
<1>3. Kept(inbox, k, k \in opened, buffer[k], graph[k])
  BY DEF EditorInv
<1>4. ~Edit(inbox, k, 1)
  BY <1>2 DEF Edit, Edits
<1> QED BY <1>1, <1>2, <1>3, <1>4, PopOther

LEMMA StepEditor == TypeInv /\ Discipline /\ EditorInv /\ [Next]_vars => EditorInv'
<1> SUFFICES ASSUME TypeInv, Discipline, EditorInv, [Next]_vars PROVE EditorInv'
  OBVIOUS
<1>0. /\ graph \in [Keys -> Documents]
      /\ server = "iwec" \/ ~watching => opened = {}
      /\ opened \cap todo = {}
      /\ got # None => got.key \in todo
  BY DEF TypeInv, TypeOK, Discipline, NoEditor, NotServing
<1>1. ASSUME NEW k \in Keys, NEW f \in Files, Outside(k, f) PROVE EditorInv'
  BY <1>1, KeptGraph DEF Outside, clientVars, lspVars
<1>2. ASSUME NEW k \in Keys, LoadDocument(k) PROVE EditorInv'
  <2>1. opened = {}
    BY <1>2, <1>0 DEF LoadDocument, Discipline
  <2> QED BY <1>2, <2>1, KeptGraph DEF LoadDocument, clientVars, lspVars
<1>3. CASE StartWatching
  BY <1>3, KeptGraph DEF StartWatching, clientVars, lspVars
<1>4. CASE Dispatch
  BY <1>4, KeptGraph DEF Dispatch, clientVars, lspVars
<1>5. CASE Probe
  BY <1>5, KeptGraph DEF Probe, clientVars, lspVars
<1>6. ASSUME NEW k \in Keys, ReloadRead(k) PROVE EditorInv'
  BY <1>6, KeptGraph DEF ReloadRead, clientVars, lspVars
<1>7. CASE ReloadApply
  <2>1. \A k \in Keys : graph'[k] = graph[k] \/ k = got.key
    BY <1>0, <1>7 DEF ReloadApply, Become
  <2>2. got.key \notin opened
    BY <1>0, <1>7 DEF ReloadApply
  <2> QED BY <1>7, <2>1, <2>2, KeptGraph DEF ReloadApply, clientVars
<1>8. ASSUME NEW k \in Keys, NEW t \in Texts, Open(k, t) PROVE EditorInv'
  BY <1>8, KeptSays DEF Open, EditorRests, Edits
<1>9. ASSUME NEW k \in Keys, NEW t \in Texts, Change(k, t) PROVE EditorInv'
  BY <1>9, KeptSays DEF Change, EditorRests, Edits
<1>10. ASSUME NEW k \in Keys, Save(k) PROVE EditorInv'
  BY <1>10, KeptGraph DEF Save, EditorRests, clientVars
<1>11. ASSUME NEW k \in Keys, Close(k) PROVE EditorInv'
  BY <1>11, KeptSays DEF Close, EditorRests, Edits
<1>12. ASSUME NEW k \in Keys, Report(k) PROVE EditorInv'
  BY <1>12, KeptAsks DEF Report, EditorRests
<1>13. CASE AskForHints
  BY <1>13, KeptAsks DEF AskForHints, EditorRests
<1>14. CASE Refresh
  BY <1>14, KeptAsks DEF Refresh, EditorRests
<1>15. CASE DidOpen
  <2>1. Handles("open") /\ Head(inbox).key \in Keys /\ opened' = opened \cup {Head(inbox).key}
    BY <1>15, HandlesTyped DEF DidOpen
  <2>2. /\ graph'[Head(inbox).key] = Head(inbox).text
        /\ \A k \in Keys : k # Head(inbox).key => graph'[k] = graph[k]
    BY <1>0, <1>15, <2>1 DEF DidOpen, Become
  <2> QED BY <2>1, <2>2, KeptHandles DEF Edits
<1>16. CASE DidChange
  <2>1. Handles("change") /\ Head(inbox) = inbox[1] /\ inbox[1].key \in Keys
    BY <1>16, HandlesTyped, Popped DEF DidChange, Handles, TypeInv, TypeOK
  <2>2. inbox[1].key \in opened
    <3>1. Edit(inbox, inbox[1].key, 1) /\ inbox[1].what = "change" /\ NoneBefore(inbox, inbox[1].key, 1)
      BY <2>1, Popped, Indices DEF Edit, Edits, NoneBefore, Handles, TypeInv, TypeOK
    <3> QED BY <2>1, <3>1 DEF EditorInv, Kept, Change1, Edit
  <2> QED BY <1>0, <1>16, <2>1, <2>2, KeptHandles DEF DidChange, Become, Edits
<1>17. CASE DidClose
  BY <1>17, KeptHandles DEF DidClose, Edits
<1>18. CASE DidChangeWatchedFiles
  BY <1>18, KeptAnswers DEF DidChangeWatchedFiles
<1>19. CASE InlayHints
  BY <1>19, KeptAnswers DEF InlayHints
<1>20. CASE OnFsEvent
  BY <1>20, KeptGraph DEF OnFsEvent, LoopRests, lspVars
<1>21. CASE IdleRebuild
  BY <1>21, KeptGraph DEF IdleRebuild, LoopRests
<1>22. CASE TakeBatch
  BY <1>22, KeptGraph DEF TakeBatch, McpRests, clientVars, lspVars
<1>23. ASSUME NEW ks \in SUBSET Keys, NEW d \in Documents, ToolStart(ks, d) PROVE EditorInv'
  BY <1>23, KeptGraph DEF ToolStart, McpRests, clientVars, lspVars
<1>24. ASSUME NEW k \in Keys, ToolWrite(k) PROVE EditorInv'
  BY <1>24, KeptGraph DEF ToolWrite, McpRests, clientVars, lspVars
<1>25. CASE ToolFail
  BY <1>25, KeptGraph DEF ToolFail, McpRests, clientVars, lspVars
<1>26. CASE ToolReturn
  <2>1. opened = {}
    BY <1>0, <1>26, WatchConstants DEF ToolReturn, Discipline, NoTools, TypeInv, TypeOK, WatchConstants
  <2> QED BY <1>26, <2>1, KeptGraph DEF ToolReturn, McpRests, clientVars, lspVars
<1>27. CASE BeginDefault
  BY <1>27, KeptGraph DEF BeginDefault, McpRests, clientVars, lspVars
<1>28. ASSUME NEW k \in Keys, NEW d \in Documents, Stage(k, d) PROVE EditorInv'
  BY <1>0, <1>28, KeptGraph DEF Stage, Unlocked, McpRests, clientVars, lspVars
<1>29. CASE AbortTake
  BY <1>29, KeptGraph DEF AbortTake, McpRests, clientVars, lspVars
<1>29a. ASSUME NEW k \in Keys, AbortRead(k) PROVE EditorInv'
  BY <1>29a, KeptGraph DEF AbortRead, McpRests, clientVars, lspVars
<1>30. CASE AbortReplace
  BY <1>0, <1>30, KeptGraph DEF AbortReplace, Unlocked, McpRests, clientVars, lspVars
<1>31. CASE UNCHANGED vars
  BY <1>31, KeptGraph DEF vars, clientVars, lspVars
<1> QED
  BY <1>1, <1>2, <1>3, <1>4, <1>5, <1>6, <1>7, <1>8, <1>9, <1>10, <1>11, <1>12, <1>13, <1>14,
     <1>15, <1>16, <1>17, <1>18, <1>19, <1>20, <1>21, <1>22, <1>23, <1>24, <1>25, <1>26, <1>27,
     <1>28, <1>29, <1>29a, <1>30, <1>31
  DEF Next, Watcher, Editor, Loop, OnNotification, ToolCall, DefaultTransaction

EditorAndGraph == TypeInv /\ Discipline /\ EditorInv

LEMMA EditorFollowed == Spec => []EditorAndGraph
<1>1. Init => EditorAndGraph
  BY InitTyped, InitDisciplined, InitEditor DEF EditorAndGraph
<1>2. EditorAndGraph /\ [Next]_vars => EditorAndGraph'
  BY StepTyped, StepDisciplined, StepEditor DEF EditorAndGraph
<1> QED BY <1>1, <1>2, PTL DEF Spec

LEMMA NotPending == \A k : ~Pending(k) => NoEdit(inbox, k)
  BY DEF Pending, NoEdit, Edit, Edits

\* No event of a file, of whatever change and in whatever order, overwrites what the
\* user sees in an open document: once the messages about the document have been
\* handled the graph holds it.  The messages on their way are the invariant.
THEOREM EditorAlwaysWins == Spec => []EditorWins
<1>1. EditorAndGraph => EditorWins
  BY NotPending DEF EditorAndGraph, EditorInv, Kept, Told, EditorWins
<1> QED BY <1>1, EditorFollowed, PTL

------------------------------------------------------------------------------
(***************************************************************************)
(* What is derived from the graph                                          *)
(***************************************************************************)
Asked == \E i \in DOMAIN inbox : inbox[i].what = "hints"

HintsFit == hinted \in {None, DocumentsOf(graph)}

LEMMA AskedSays ==
  ASSUME TypeInv, NEW k \in Keys \cup {None}, NEW t \in Texts \cup {None},
         NEW what \in {"open", "change", "close", "gone", "hints"}, Says(what, k, t)
  PROVE  /\ Asked => Asked'
         /\ what = "hints" => Asked'
<1> DEFINE m == [what |-> what, key |-> k, text |-> t]
<1>1. m \in Message /\ m.what = what /\ inbox' = Append(inbox, m) /\ inbox \in Seq(Message)
  BY DEF Message, Says, TypeInv, TypeOK
<1> HIDE DEF m
<1>2. /\ DOMAIN inbox' = 1..Len(inbox) + 1 /\ DOMAIN inbox = 1..Len(inbox) /\ Len(inbox) \in Nat
      /\ \A i \in 1..Len(inbox) : inbox'[i] = inbox[i]
      /\ inbox'[Len(inbox) + 1] = m
  BY <1>1, Pushed, Indices
<1> QED BY <1>1, <1>2 DEF Asked

LEMMA AskedHandles ==
  ASSUME TypeInv, NEW what, Handles(what), what # "hints", Asked
  PROVE  Asked'
<1>1. /\ DOMAIN inbox = 1..Len(inbox) /\ Len(inbox) \in Nat
      /\ DOMAIN inbox' = 1..Len(inbox) - 1
      /\ \A i \in 1..Len(inbox) - 1 : inbox'[i] = inbox[i + 1]
      /\ inbox[1].what = what
  BY Popped, Indices DEF Handles, TypeInv, TypeOK
<1>2. PICK i \in DOMAIN inbox : inbox[i].what = "hints"
  BY DEF Asked
<1>3. i - 1 \in 1..Len(inbox) - 1 /\ inbox'[i - 1] = inbox[i]
  BY <1>1, <1>2
<1> QED BY <1>1, <1>2, <1>3 DEF Asked

LEMMA HintsAfterBecome ==
  ASSUME TypeInv, HintsFit, NEW k \in Keys, NEW d \in Documents, Become(k, d), hinted' = hinted
  PROVE  HintsFit' \/ refreshing'
<1>1. CASE hinted # None /\ (graph[k] = Missing) # (d = Missing)
  BY <1>1 DEF Become
<1>2. CASE hinted = None
  BY <1>2 DEF HintsFit
<1>3. CASE (graph[k] = Missing) = (d = Missing)
  <2>1. DocumentsOf(graph') = DocumentsOf(graph)
    BY <1>3 DEF DocumentsOf, Become, TypeInv, TypeOK
  <2> QED BY <2>1 DEF HintsFit
<1> QED BY <1>1, <1>2, <1>3

\* A step that leaves the hints and the requests for them alone, and the graph or
\* tells of its change.
LEMMA HintsAfterChange ==
  ASSUME TypeInv, HintsKnow, hinted' = hinted, refreshing => refreshing', Asked => Asked',
         \/ graph' = graph \/ hinted = None
         \/ \E k \in Keys, d \in Documents : Become(k, d)
  PROVE  HintsKnow'
<1>1. HintsFit \/ refreshing \/ Asked
  BY DEF HintsKnow, HintsFit, Asked
<1>2. HintsFit => HintsFit' \/ refreshing'
  <2>1. CASE graph' = graph
    BY <2>1 DEF HintsFit, DocumentsOf
  <2>2. CASE hinted = None
    BY <2>2 DEF HintsFit
  <2>3. ASSUME NEW k \in Keys, NEW d \in Documents, Become(k, d), HintsFit
        PROVE  HintsFit' \/ refreshing'
    BY <2>3, HintsAfterBecome
  <2> QED BY <2>1, <2>2, <2>3
<1> QED BY <1>1, <1>2 DEF HintsKnow, HintsFit, Asked

LEMMA StepIndex == TypeInv /\ Discipline /\ IndexIsFresh /\ [Next]_vars => IndexIsFresh'
<1> SUFFICES ASSUME TypeInv, Discipline, IndexIsFresh, [Next]_vars PROVE IndexIsFresh'
  OBVIOUS
<1>0. server = "iwec" \/ ~watching => dirty
  BY DEF Discipline, NoEditor, NotServing
<1> USE DEF IndexIsFresh
<1>1. ASSUME NEW k \in Keys, NEW f \in Files, Outside(k, f) PROVE IndexIsFresh'
  BY <1>1 DEF Outside, lspVars
<1>2. ASSUME NEW k \in Keys, LoadDocument(k) PROVE IndexIsFresh'
  BY <1>0, <1>2 DEF LoadDocument, lspVars, Discipline
<1>3. CASE StartWatching
  BY <1>3 DEF StartWatching, lspVars
<1>4. CASE Dispatch
  BY <1>4 DEF Dispatch, lspVars
<1>5. CASE Probe
  BY <1>5 DEF Probe, lspVars
<1>6. ASSUME NEW k \in Keys, ReloadRead(k) PROVE IndexIsFresh'
  BY <1>6 DEF ReloadRead, lspVars
<1>7. CASE ReloadApply
  BY <1>7 DEF ReloadApply
<1>8. CASE \/ \E k \in Keys, t \in Texts : Open(k, t) \/ Change(k, t)
           \/ \E k \in Keys : Save(k) \/ Close(k) \/ Report(k)
           \/ AskForHints \/ Refresh
  BY <1>8 DEF Open, Change, Save, Close, Report, AskForHints, Refresh, EditorRests
<1>9. CASE DidOpen
  BY <1>9 DEF DidOpen
<1>10. CASE DidChange
  BY <1>10 DEF DidChange
<1>11. CASE DidClose \/ DidChangeWatchedFiles
  BY <1>11 DEF DidClose, DidChangeWatchedFiles
<1>12. CASE InlayHints
  BY <1>12 DEF InlayHints, RefreshIndex
<1>13. CASE OnFsEvent
  BY <1>13 DEF OnFsEvent, lspVars
<1>14. CASE IdleRebuild
  BY <1>14 DEF IdleRebuild, RefreshIndex
<1>15. CASE TakeBatch
  BY <1>15 DEF TakeBatch, McpRests, lspVars
<1>16. ASSUME NEW ks \in SUBSET Keys, NEW d \in Documents, ToolStart(ks, d) PROVE IndexIsFresh'
  BY <1>16 DEF ToolStart, McpRests, lspVars
<1>17. ASSUME NEW k \in Keys, ToolWrite(k) PROVE IndexIsFresh'
  BY <1>17 DEF ToolWrite, McpRests, lspVars
<1>18. CASE ToolFail
  BY <1>18 DEF ToolFail, McpRests, lspVars
<1>19. CASE ToolReturn
  <2>1. dirty
    BY <1>0, <1>19, WatchConstants DEF ToolReturn, Discipline, NoTools, TypeInv, TypeOK, WatchConstants
  <2> QED BY <1>19, <2>1 DEF ToolReturn, McpRests, lspVars
<1>20. CASE BeginDefault
  BY <1>20 DEF BeginDefault, McpRests, lspVars
<1>21. ASSUME NEW k \in Keys, NEW d \in Documents, Stage(k, d) PROVE IndexIsFresh'
  BY <1>0, <1>21 DEF Stage, Unlocked, McpRests, lspVars
<1>22. CASE AbortTake
  BY <1>22 DEF AbortTake, McpRests, lspVars
<1>22a. ASSUME NEW k \in Keys, AbortRead(k) PROVE IndexIsFresh'
  BY <1>22a DEF AbortRead, McpRests, lspVars
<1>23. CASE AbortReplace
  BY <1>0, <1>23 DEF AbortReplace, Unlocked, McpRests, lspVars
<1>24. CASE UNCHANGED vars
  BY <1>24 DEF vars, lspVars
<1> QED
  BY <1>1, <1>2, <1>3, <1>4, <1>5, <1>6, <1>7, <1>8, <1>9, <1>10, <1>11, <1>12, <1>13, <1>14,
     <1>15, <1>16, <1>17, <1>18, <1>19, <1>20, <1>21, <1>22, <1>22a, <1>23, <1>24
  DEF Next, Watcher, Editor, Loop, OnNotification, ToolCall, DefaultTransaction

LEMMA StepHints == TypeInv /\ Discipline /\ HintsKnow /\ [Next]_vars => HintsKnow'
<1> SUFFICES ASSUME TypeInv, Discipline, HintsKnow, [Next]_vars PROVE HintsKnow'
  OBVIOUS
<1>0. server = "iwec" \/ ~watching => hinted = None
  BY DEF Discipline, NoEditor, NotServing
<1>1. ASSUME UNCHANGED <<inbox, hinted, refreshing>>, graph' = graph \/ hinted = None
      PROVE  HintsKnow'
  BY <1>1, HintsAfterChange DEF Asked
<1>2. ASSUME NEW k \in Keys, NEW f \in Files, Outside(k, f) PROVE HintsKnow'
  BY <1>1, <1>2 DEF Outside, clientVars, lspVars
<1>3. ASSUME NEW k \in Keys, LoadDocument(k) PROVE HintsKnow'
  BY <1>0, <1>1, <1>3 DEF LoadDocument, clientVars, lspVars, Discipline
<1>4. CASE StartWatching
  BY <1>1, <1>4 DEF StartWatching, clientVars, lspVars
<1>5. CASE Dispatch
  BY <1>1, <1>5 DEF Dispatch, clientVars, lspVars
<1>6. CASE Probe
  BY <1>1, <1>6 DEF Probe, clientVars, lspVars
<1>7. ASSUME NEW k \in Keys, ReloadRead(k) PROVE HintsKnow'
  BY <1>1, <1>7 DEF ReloadRead, clientVars, lspVars
<1>8. CASE ReloadApply
  <2>1. got.key \in Keys /\ AsDocument(got.file) \in Documents
    BY <1>8, DocumentsOfFiles DEF ReloadApply, TypeInv, TypeOK
  <2>2. \/ Become(got.key, AsDocument(got.file))
        \/ UNCHANGED <<graph, refreshing>>
    BY <1>8 DEF ReloadApply
  <2>3. UNCHANGED <<inbox, hinted>>
    BY <1>8 DEF ReloadApply, clientVars
  <2>4. refreshing => refreshing'
    BY <2>2, Zenon DEF Become
  <2>5. Asked => Asked'
    BY <2>3 DEF Asked
  <2>6. \/ graph' = graph
        \/ \E k \in Keys, d \in Documents : Become(k, d)
    BY <2>1, <2>2
  <2> QED BY <2>3, <2>4, <2>5, <2>6, HintsAfterChange
<1>9. ASSUME NEW what \in {"open", "change", "close", "gone", "hints"},
             NEW k \in Keys \cup {None}, NEW t \in Texts \cup {None}, Says(what, k, t),
             UNCHANGED <<graph, hinted, refreshing>>
      PROVE  HintsKnow'
  BY <1>9, AskedSays, HintsAfterChange
<1>10. ASSUME NEW k \in Keys, NEW t \in Texts, Open(k, t) PROVE HintsKnow'
  BY <1>9, <1>10 DEF Open, EditorRests
<1>11. ASSUME NEW k \in Keys, NEW t \in Texts, Change(k, t) PROVE HintsKnow'
  BY <1>9, <1>11 DEF Change, EditorRests
<1>12. ASSUME NEW k \in Keys, Save(k) PROVE HintsKnow'
  BY <1>1, <1>12 DEF Save, EditorRests, clientVars
<1>13. ASSUME NEW k \in Keys, Close(k) PROVE HintsKnow'
  BY <1>9, <1>13 DEF Close, EditorRests
<1>14. ASSUME NEW k \in Keys, Report(k) PROVE HintsKnow'
  BY <1>9, <1>14 DEF Report, EditorRests
<1>15. CASE AskForHints
  BY <1>9, <1>15 DEF AskForHints, EditorRests
<1>16. CASE Refresh
  <2>1. Asked'
    BY <1>16, AskedSays DEF Refresh
  <2> QED BY <2>1 DEF HintsKnow, Asked
<1>17. ASSUME NEW what, what # "hints", Handles(what), hinted' = hinted, refreshing => refreshing',
              \/ graph' = graph
              \/ \E k \in Keys, d \in Documents : Become(k, d)
       PROVE  HintsKnow'
  BY <1>17, AskedHandles, HintsAfterChange
<1>18. CASE DidOpen
  <2>1. /\ Handles("open") /\ hinted' = hinted
        /\ Head(inbox).key \in Keys /\ Head(inbox).text \in Documents
    BY <1>18, HandlesTyped DEF DidOpen, Documents
  <2>2. \/ Become(Head(inbox).key, Head(inbox).text)
        \/ UNCHANGED <<graph, refreshing>>
    BY <1>18 DEF DidOpen
  <2>3. refreshing => refreshing'
    BY <2>2 DEF Become
  <2> QED BY <1>17, <2>1, <2>2, <2>3
<1>19. CASE DidChange
  <2>1. /\ Handles("change") /\ hinted' = hinted
        /\ Head(inbox).key \in Keys /\ Head(inbox).text \in Documents
        /\ Become(Head(inbox).key, Head(inbox).text)
    BY <1>19, HandlesTyped DEF DidChange, Documents
  <2>2. refreshing => refreshing'
    BY <2>1 DEF Become
  <2> QED BY <1>17, <2>1, <2>2
<1>20. CASE DidClose
  BY <1>17, <1>20 DEF DidClose
<1>21. CASE DidChangeWatchedFiles
  BY <1>17, <1>21 DEF DidChangeWatchedFiles
<1>22. CASE InlayHints
  BY <1>22 DEF InlayHints, HintsKnow, DocumentsOf
<1>23. CASE OnFsEvent
  BY <1>1, <1>23 DEF OnFsEvent, LoopRests, lspVars
<1>24. CASE IdleRebuild
  BY <1>1, <1>24 DEF IdleRebuild, LoopRests
<1>25. CASE TakeBatch
  BY <1>1, <1>25 DEF TakeBatch, McpRests, clientVars, lspVars
<1>26. ASSUME NEW ks \in SUBSET Keys, NEW d \in Documents, ToolStart(ks, d) PROVE HintsKnow'
  BY <1>1, <1>26 DEF ToolStart, McpRests, clientVars, lspVars
<1>27. ASSUME NEW k \in Keys, ToolWrite(k) PROVE HintsKnow'
  BY <1>1, <1>27 DEF ToolWrite, McpRests, clientVars, lspVars
<1>28. CASE ToolFail
  BY <1>1, <1>28 DEF ToolFail, McpRests, clientVars, lspVars
<1>29. CASE ToolReturn
  <2>1. hinted = None
    BY <1>0, <1>29, WatchConstants DEF ToolReturn, Discipline, NoTools, TypeInv, TypeOK, WatchConstants
  <2> QED BY <1>1, <1>29, <2>1 DEF ToolReturn, McpRests, clientVars, lspVars
<1>30. CASE BeginDefault
  BY <1>1, <1>30 DEF BeginDefault, McpRests, clientVars, lspVars
<1>31. ASSUME NEW k \in Keys, NEW d \in Documents, Stage(k, d) PROVE HintsKnow'
  BY <1>0, <1>1, <1>31 DEF Stage, Unlocked, McpRests, clientVars, lspVars
<1>32. CASE AbortTake
  BY <1>1, <1>32 DEF AbortTake, McpRests, clientVars, lspVars
<1>32a. ASSUME NEW k \in Keys, AbortRead(k) PROVE HintsKnow'
  BY <1>1, <1>32a DEF AbortRead, McpRests, clientVars, lspVars
<1>33. CASE AbortReplace
  BY <1>0, <1>1, <1>33 DEF AbortReplace, Unlocked, McpRests, clientVars, lspVars
<1>34. CASE UNCHANGED vars
  BY <1>1, <1>34 DEF vars, clientVars, lspVars
<1> HIDE DEF HintsKnow
<1> QED
  BY <1>2, <1>3, <1>4, <1>5, <1>6, <1>7, <1>8, <1>10, <1>11, <1>12, <1>13, <1>14,
     <1>15, <1>16, <1>18, <1>19, <1>20, <1>21, <1>22, <1>23, <1>24, <1>25, <1>26, <1>27,
     <1>28, <1>29, <1>30, <1>31, <1>32, <1>32a, <1>33, <1>34
  DEF Next, Watcher, Editor, Loop, OnNotification, ToolCall, DefaultTransaction

\* Nothing derived from the graph is silently old: a search index not marked dirty
\* was built from the graph as it is, and the editor's inlay hints fit the documents
\* there are, unless the request to ask again or the question itself is on its way.
THEOREM DerivedViewsFollow == Spec => []ViewsFollow
<1> DEFINE I == TypeInv /\ Discipline /\ IndexIsFresh /\ HintsKnow
<1>1. Init => I
  BY InitTyped, InitDisciplined DEF Init, IndexIsFresh, HintsKnow
<1>2. I /\ [Next]_vars => I'
  BY StepTyped, StepDisciplined, StepIndex, StepHints
<1>3. I => ViewsFollow
  BY DEF ViewsFollow
<1> HIDE DEF I
<1> QED BY <1>1, <1>2, <1>3, PTL DEF Spec

------------------------------------------------------------------------------
(***************************************************************************)
(* Finished writes                                                         *)
(***************************************************************************)

\* What a finished call wrote is on disk, what a reload has read since then is that,
\* and the graph has it too.
Seen(k) ==
  returned[k] # None =>
    /\ disk[k] = returned[k]
    /\ got # None /\ got.key = k => got.file = returned[k]
    /\ k \notin missed => graph[k] = returned[k]

SeenInv == \A k \in Keys : Seen(k)

LEMMA InitSeen == Init => SeenInv
  BY DEF Init, SeenInv, Seen

LEMMA AsWritten == \A d \in Documents : AsDocument(d) = d
  BY DEF AsDocument, Documents

\* Nothing finished is lost when nothing was finished.
LEMMA NoneSeen ==
  ASSUME \A k \in Keys : returned[k] = None, returned' = returned
  PROVE  SeenInv'
  BY DEF SeenInv, Seen

LEMMA StepSeen == TypeInv /\ Discipline /\ SeenInv /\ [Next]_vars => SeenInv'
<1> SUFFICES ASSUME TypeInv, Discipline, SeenInv, [Next]_vars PROVE SeenInv'
  OBVIOUS
<1>0. /\ server = "iwes" \/ ~watching => \A k \in Keys : returned[k] = None
      /\ disk \in [Keys -> Files] /\ graph \in [Keys -> Documents]
      /\ returned \in [Keys -> Documents \cup {None}]
      /\ got # None => got.key \in todo
  BY DEF TypeInv, TypeOK, Discipline, NoTools, NotServing
<1>1. ASSUME UNCHANGED <<disk, graph, got, missed, returned>> PROVE SeenInv'
  BY <1>1 DEF SeenInv, Seen
<1>2. ASSUME NEW k \in Keys, NEW f, Put(k, f), UNCHANGED <<graph, got>>,
             returned' = [returned EXCEPT ![k] = None]
      PROVE  SeenInv'
  BY <1>0, <1>2 DEF Put, SeenInv, Seen
<1>3. ASSUME NEW k \in Keys, NEW f \in Files, Outside(k, f) PROVE SeenInv'
  BY <1>2, <1>3 DEF Outside
<1>4. ASSUME NEW k \in Keys, LoadDocument(k) PROVE SeenInv'
  BY <1>0, <1>4, NoneSeen DEF LoadDocument, mcpVars, Discipline
<1>5. CASE StartWatching
  BY <1>1, <1>5 DEF StartWatching, mcpVars
<1>6. CASE Dispatch
  BY <1>1, <1>6 DEF Dispatch, mcpVars
<1>7. CASE Probe
  BY <1>1, <1>7 DEF Probe, mcpVars
<1>8. ASSUME NEW k \in Keys, ReloadRead(k) PROVE SeenInv'
  BY <1>8 DEF ReloadRead, mcpVars, SeenInv, Seen
<1>9. CASE ReloadApply
  <2> SUFFICES ASSUME NEW k \in Keys, returned[k] # None
               PROVE  Seen(k)'
    BY <1>9 DEF ReloadApply, mcpVars, SeenInv, Seen
  <2>1. /\ disk[k] = returned[k] /\ (got.key = k => got.file = returned[k])
        /\ k \notin missed => graph[k] = returned[k]
    BY <1>9 DEF ReloadApply, SeenInv, Seen
  <2>2. UNCHANGED <<disk, returned>> /\ got' = None
    BY <1>9 DEF ReloadApply, mcpVars
  <2>3. CASE got.key = k
    <3>1. returned[k] \in Documents /\ AsDocument(got.file) = returned[k]
      BY <1>0, <2>1, <2>3, AsWritten
    <3>2. graph'[k] = returned[k]
      BY <1>0, <1>9, <2>1, <2>3, <3>1 DEF ReloadApply, Become
    <3> QED BY <2>1, <2>2, <3>2 DEF Seen
  <2>4. CASE got.key # k
    <3>1. graph'[k] = graph[k] /\ (k \in missed' <=> k \in missed)
      BY <1>0, <1>9, <2>4 DEF ReloadApply, Become
    <3> QED BY <2>1, <2>2, <3>1 DEF Seen
  <2> QED BY <2>3, <2>4
<1>10. CASE \/ \E k \in Keys, t \in Texts : Open(k, t)
            \/ \E k \in Keys : Report(k)
            \/ AskForHints
  BY <1>0, <1>10, NoneSeen DEF Open, Report, AskForHints, EditorRests, mcpVars
<1>11. CASE \/ \E k \in Keys, t \in Texts : Change(k, t)
            \/ \E k \in Keys : Close(k)
            \/ Refresh
  BY <1>1, <1>11 DEF Change, Close, Refresh, EditorRests, mcpVars
<1>12. ASSUME NEW k \in Keys, Save(k) PROVE SeenInv'
  <2>1. server = "iwes"
    BY <1>12, WatchConstants DEF Save, TypeInv, TypeOK, WatchConstants, Discipline, NoEditor
  <2> QED BY <1>0, <1>12, <2>1, NoneSeen DEF Save, EditorRests, mcpVars
<1>13. CASE DidOpen \/ DidChange \/ DidClose \/ DidChangeWatchedFiles \/ InlayHints
  BY <1>0, <1>13, NoneSeen DEF DidOpen, DidChange, DidClose, DidChangeWatchedFiles, InlayHints,
                               Handles, Ready, LoopRests, mcpVars
<1>14. CASE OnFsEvent \/ IdleRebuild
  BY <1>0, <1>14, NoneSeen DEF OnFsEvent, IdleRebuild, Ready, LoopRests, mcpVars
<1>15. CASE TakeBatch
  BY <1>1, <1>15 DEF TakeBatch, McpRests, mcpVars
<1>16. ASSUME NEW ks \in SUBSET Keys, NEW d \in Documents, ToolStart(ks, d) PROVE SeenInv'
  BY <1>1, <1>16 DEF ToolStart, McpRests
<1>17. ASSUME NEW k \in Keys, ToolWrite(k) PROVE SeenInv'
  <2>1. CASE Put(k, call.document)
    BY <1>2, <1>17, <2>1 DEF ToolWrite, McpRests
  <2>2. CASE UNCHANGED <<disk, raised, missed, writes>>
    BY <1>0, <1>17, <2>2 DEF ToolWrite, McpRests, SeenInv, Seen
  <2> QED BY <1>17, <2>1, <2>2 DEF ToolWrite
<1>18. CASE ToolFail
  BY <1>1, <1>18 DEF ToolFail, McpRests
<1>19. CASE ToolReturn
  <2>1. got = None
    BY <1>0, <1>19 DEF ToolReturn, Discipline
  <2> SUFFICES ASSUME NEW k \in Keys PROVE Seen(k)'
    BY DEF SeenInv
  <2>2. CASE k \in call.keys
    BY <1>19, <2>1, <2>2 DEF ToolReturn, McpRests, Seen
  <2>3. CASE k \notin call.keys
    BY <1>19, <2>1, <2>3 DEF ToolReturn, McpRests, SeenInv, Seen
  <2> QED BY <2>2, <2>3
<1>20. CASE BeginDefault
  BY <1>1, <1>20 DEF BeginDefault, McpRests
<1>21. ASSUME NEW k \in Keys, NEW d \in Documents, Stage(k, d) PROVE SeenInv'
  BY <1>0, <1>21 DEF Stage, McpRests, SeenInv, Seen
<1>22. CASE AbortTake
  BY <1>1, <1>22 DEF AbortTake, McpRests
<1>22a. ASSUME NEW k \in Keys, AbortRead(k) PROVE SeenInv'
  BY <1>1, <1>22a DEF AbortRead, McpRests
<1>23. CASE AbortReplace
  <2> SUFFICES ASSUME NEW k \in Keys, returned[k] # None PROVE Seen(k)'
    BY <1>23 DEF AbortReplace, SeenInv, Seen
  <2>1. UNCHANGED <<disk, returned, got>> /\ graph' = snapshot
    BY <1>23 DEF AbortReplace, McpRests
  <2>2. disk[k] = returned[k] /\ AsDocument(disk[k]) = returned[k]
    BY <1>0, AsWritten DEF SeenInv, Seen
  <2>3. k \notin missed' => snapshot[k] = returned[k]
    BY <1>23, <2>2 DEF AbortReplace
  <2> QED BY <2>1, <2>2, <2>3 DEF SeenInv, Seen
<1>24. CASE UNCHANGED vars
  BY <1>1, <1>24 DEF vars, mcpVars
<1> QED
  BY <1>3, <1>4, <1>5, <1>6, <1>7, <1>8, <1>9, <1>10, <1>11, <1>12, <1>13, <1>14,
     <1>15, <1>16, <1>17, <1>18, <1>19, <1>20, <1>21, <1>22, <1>22a, <1>23, <1>24
  DEF Next, Watcher, Editor, Loop, OnNotification, ToolCall, DefaultTransaction

\* What a finished tool call wrote stays in the graph until somebody else writes the
\* file, whatever older file a batch had read; only the reload after an aborted
\* default transaction may undo it (missed).
THEOREM FinishedWritesAreRead == Spec => []ReadYourWrites
<1> DEFINE I == TypeInv /\ Discipline /\ SeenInv
<1>1. Init => I
  BY InitTyped, InitDisciplined, InitSeen
<1>2. I /\ [Next]_vars => I'
  BY StepTyped, StepDisciplined, StepSeen
<1>3. I => ReadYourWrites
  BY DEF SeenInv, Seen, ReadYourWrites
<1> HIDE DEF I
<1> QED BY <1>1, <1>2, <1>3, PTL DEF Spec

------------------------------------------------------------------------------
(***************************************************************************)
(* Nothing is overlooked                                                   *)
(***************************************************************************)

\* The file of k is about to be read again, or cannot be read.
UnderWay(k) ==
  \/ \E i \in DOMAIN raised : raised[i][1] = k
  \/ probing = k /\ disk[k] = Missing
  \/ \E i \in DOMAIN channel : channel[i] = k
  \/ disk[k] = Unreadable

\* What a reload has read, and what a tool call has written, is still on disk or the
\* change is under way.
ReadIsCurrent(k) == got # None /\ got.key = k => got.file = disk[k] \/ UnderWay(k)

WrittenIsCurrent(k) ==
  call # None /\ k \in call.keys \ call.left => disk[k] = call.document \/ UnderWay(k)

\* A document that differs from its file is open, or it will be reloaded, or the
\* whole graph is to be replaced.
GraphIsCurrent(k) ==
  k \in loaded /\ k \notin missed =>
    \/ graph[k] = disk[k] \/ UnderWay(k)
    \/ k \in opened \/ k \in todo
    \/ staging \/ snapshot # None

NoticedInv == \A k \in Keys : ReadIsCurrent(k) /\ WrittenIsCurrent(k) /\ GraphIsCurrent(k)

LEMMA InitNoticed == Init => NoticedInv
  BY DEF Init, NoticedInv, ReadIsCurrent, WrittenIsCurrent, GraphIsCurrent

LEMMA AsOnDisk == \A f \in Files : f = Unreadable \/ AsDocument(f) = f
  BY DEF AsDocument, Files

LEMMA PutNoticed ==
  ASSUME TypeInv, NEW k \in Keys, NEW f \in Files, Put(k, f), UNCHANGED <<probing, channel>>
  PROVE  /\ watching => UnderWay(k)'
         /\ \A l \in Keys : l # k => (UnderWay(l) => UnderWay(l)') /\ disk'[l] = disk[l]
         /\ disk'[k] = f
<1>1. /\ raised \in Seq(Keys \X BOOLEAN) /\ <<k, f = Missing>> \in Keys \X BOOLEAN
      /\ disk \in [Keys -> Files]
  BY DEF TypeInv, TypeOK
<1>2. disk'[k] = f /\ \A l \in Keys : l # k => disk'[l] = disk[l]
  BY <1>1 DEF Put
<1>3. CASE watching
  <2>1. /\ DOMAIN raised = 1..Len(raised) /\ Len(raised) \in Nat
        /\ DOMAIN raised' = 1..Len(raised) + 1
        /\ \A i \in 1..Len(raised) : raised'[i] = raised[i]
        /\ raised'[Len(raised) + 1] = <<k, f = Missing>>
    BY <1>1, <1>3, Pushed, Indices DEF Put
  <2>2. Len(raised) + 1 \in DOMAIN raised' /\ \A i \in DOMAIN raised : i \in DOMAIN raised'
    BY <2>1
  <2>3. UnderWay(k)'
    BY <2>1, <2>2 DEF UnderWay
  <2>4. ASSUME NEW l \in Keys, l # k, UnderWay(l) PROVE UnderWay(l)'
    BY <1>2, <2>1, <2>2, <2>4 DEF UnderWay
  <2> QED BY <1>2, <2>3, <2>4
<1>4. CASE ~watching
  <2>1. raised' = raised
    BY <1>4 DEF Put
  <2>2. ASSUME NEW l \in Keys, l # k, UnderWay(l) PROVE UnderWay(l)'
    BY <1>2, <2>1, <2>2 DEF UnderWay
  <2> QED BY <1>2, <1>4, <2>2
<1> QED BY <1>3, <1>4

\* A change of a file while the server rests.
LEMMA NoticedAfterPut ==
  ASSUME TypeInv, Discipline, NoticedInv, NEW k \in Keys, NEW f \in Files, Put(k, f),
         UNCHANGED <<probing, channel, loaded, graph, opened, todo, got, call, staging, snapshot>>
  PROVE  NoticedInv'
<1>1. /\ watching => UnderWay(k)'
      /\ \A l \in Keys : l # k => (UnderWay(l) => UnderWay(l)') /\ disk'[l] = disk[l]
  BY PutNoticed
<1>2. ~watching => got = None /\ call = None
  BY DEF Discipline, NotServing, NoTools, TypeInv, TypeOK
<1> SUFFICES ASSUME NEW l \in Keys
             PROVE  (ReadIsCurrent(l) /\ WrittenIsCurrent(l) /\ GraphIsCurrent(l))'
  BY DEF NoticedInv
<1>3. ReadIsCurrent(l) /\ WrittenIsCurrent(l) /\ GraphIsCurrent(l)
  BY DEF NoticedInv
<1>4. CASE l # k
  <2>1. l \in missed' <=> l \in missed
    BY <1>4 DEF Put
  <2> QED BY <1>1, <1>3, <1>4, <2>1 DEF ReadIsCurrent, WrittenIsCurrent, GraphIsCurrent
<1>5. CASE l = k /\ watching
  BY <1>1, <1>5 DEF ReadIsCurrent, WrittenIsCurrent, GraphIsCurrent
<1>6. CASE l = k /\ ~watching
  <2>1. k \in missed' \/ k \notin loaded
    BY <1>6 DEF Put
  <2> QED BY <1>2, <1>6, <2>1 DEF ReadIsCurrent, WrittenIsCurrent, GraphIsCurrent
<1> QED BY <1>4, <1>5, <1>6

LEMMA DispatchNoticed ==
  ASSUME TypeInv, Dispatch, NEW k \in Keys, UnderWay(k)
  PROVE  UnderWay(k)'
<1>1. /\ raised \in Seq(Keys \X BOOLEAN) /\ channel \in Seq(Keys) /\ raised # <<>>
      /\ Head(raised)[1] \in Keys /\ disk[Head(raised)[1]] \in Files
      /\ probing = None /\ k # None /\ disk' = disk
  BY Popped, WatchConstants DEF TypeInv, TypeOK, Dispatch, WatchConstants
<1> DEFINE h == Head(raised)[1]
<1>2. /\ DOMAIN raised = 1..Len(raised) /\ Len(raised) \in Nat
      /\ DOMAIN raised' = 1..Len(raised) - 1
      /\ \A i \in 1..Len(raised) - 1 : raised'[i] = raised[i + 1]
      /\ raised[1][1] = h
  BY <1>1, Popped, Indices DEF Dispatch
<1>3. \/ channel' = channel /\ probing' = h /\ disk[h] \in {Missing, Unreadable}
      \/ channel' = Append(channel, h)
  BY <1>1 DEF Dispatch, Files
<1>4. /\ \A i \in DOMAIN channel : i \in DOMAIN channel' /\ channel'[i] = channel[i]
      /\ channel' = Append(channel, h) => \E i \in DOMAIN channel' : channel'[i] = h
  <2>1. CASE channel' = channel
    BY <1>1, <2>1, Pushed, Indices
  <2>2. CASE channel' = Append(channel, h)
    <3>1. /\ Len(channel) \in Nat /\ DOMAIN channel = 1..Len(channel)
          /\ DOMAIN channel' = 1..Len(channel) + 1
          /\ \A i \in 1..Len(channel) : channel'[i] = channel[i]
          /\ channel'[Len(channel) + 1] = h
      BY <1>1, <2>2, Pushed, Indices
    <3>2. Len(channel) + 1 \in DOMAIN channel'
      BY <3>1
    <3> QED BY <3>1, <3>2
  <2> QED BY <1>3, <2>1, <2>2
<1>5. CASE k = h
  BY <1>1, <1>3, <1>4, <1>5 DEF UnderWay
<1>6. ASSUME NEW i \in DOMAIN raised, raised[i][1] = k, k # h
      PROVE  i - 1 \in DOMAIN raised' /\ raised'[i - 1][1] = k
  BY <1>2, <1>6
<1>7. CASE k # h
  BY <1>1, <1>4, <1>6, <1>7 DEF UnderWay
<1> QED BY <1>5, <1>7

LEMMA ProbeNoticed ==
  ASSUME TypeInv, Probe, NEW k \in Keys, UnderWay(k)
  PROVE  UnderWay(k)'
<1>1. /\ channel \in Seq(Keys) /\ probing \in Keys /\ disk' = disk /\ raised' = raised
  BY DEF TypeInv, TypeOK, Probe
<1>2. /\ \A i \in DOMAIN channel : i \in DOMAIN channel' /\ channel'[i] = channel[i]
      /\ disk[probing] = Missing => \E i \in DOMAIN channel' : channel'[i] = probing
  <2>1. CASE channel' = channel /\ disk[probing] # Missing
    BY <2>1
  <2>2. CASE channel' = Append(channel, probing)
    <3>1. /\ Len(channel) \in Nat /\ DOMAIN channel = 1..Len(channel)
          /\ DOMAIN channel' = 1..Len(channel) + 1
          /\ \A i \in 1..Len(channel) : channel'[i] = channel[i]
          /\ channel'[Len(channel) + 1] = probing
      BY <1>1, <2>2, Pushed, Indices
    <3>2. Len(channel) + 1 \in DOMAIN channel'
      BY <3>1
    <3> QED BY <3>1, <3>2
  <2> QED BY <2>1, <2>2 DEF Probe
<1> QED BY <1>1, <1>2 DEF UnderWay

\* What is under way stays so while nobody takes it from the channel.
LEMMA UnderWayStays ==
  ASSUME UNCHANGED <<disk, raised, probing, channel>>
  PROVE  \A k : UnderWay(k)' <=> UnderWay(k)
  BY DEF UnderWay

LEMMA StepNoticed == EditorAndGraph /\ NoticedInv /\ [Next]_vars => NoticedInv'
<1> SUFFICES ASSUME EditorAndGraph, NoticedInv, [Next]_vars PROVE NoticedInv'
  OBVIOUS
<1> USE DEF EditorAndGraph
<1>0. /\ server \in {"iwes", "iwec"}
      /\ disk \in [Keys -> Files] /\ graph \in [Keys -> Documents]
      /\ got # None => got.key \in todo /\ got.file \in Files
      /\ server = "iwes" \/ ~watching => call = None /\ snapshot = None /\ ~staging
      /\ ~watching => opened = {} /\ todo = {}
      /\ call # None => todo = {}
      /\ channel \in Seq(Keys)
  BY WatchConstants DEF TypeInv, TypeOK, Discipline, NoTools, NotServing, WatchConstants
<1>1. \A k \in Keys : ReadIsCurrent(k) /\ WrittenIsCurrent(k) /\ GraphIsCurrent(k)
  BY DEF NoticedInv
<1>2. ASSUME UNCHANGED <<disk, raised, probing, channel, loaded, missed, graph, opened, todo, got,
                         call, staging, snapshot>>
      PROVE  NoticedInv'
  BY <1>1, <1>2, UnderWayStays DEF NoticedInv, ReadIsCurrent, WrittenIsCurrent, GraphIsCurrent
<1>3. ASSUME UNCHANGED <<disk, loaded, missed, graph, opened, todo, got, call, staging, snapshot>>,
             \A k \in Keys : UnderWay(k) => UnderWay(k)'
      PROVE  NoticedInv'
  BY <1>1, <1>3 DEF NoticedInv, ReadIsCurrent, WrittenIsCurrent, GraphIsCurrent
<1>4. ASSUME NEW k \in Keys, NEW f \in Files, Outside(k, f) PROVE NoticedInv'
  BY <1>4, NoticedAfterPut DEF Outside, lspVars
<1>5. ASSUME NEW k \in Keys, LoadDocument(k) PROVE NoticedInv'
  <2>1. got = None /\ call = None
    BY <1>0, <1>5 DEF LoadDocument, Discipline
  <2>2. UNCHANGED <<disk, raised, probing, channel, missed, opened, todo, got, call, staging, snapshot>>
    BY <1>5 DEF LoadDocument, watchVars, lspVars, mcpVars
  <2>3. graph'[k] = disk[k] \/ disk[k] = Unreadable
    BY <1>0, <1>5, AsOnDisk DEF LoadDocument
  <2>4. \A l \in Keys : l # k => graph'[l] = graph[l] /\ (l \in loaded' <=> l \in loaded)
    BY <1>0, <1>5 DEF LoadDocument
  <2>5. \A l \in Keys : GraphIsCurrent(l)'
    BY <1>1, <2>2, <2>3, <2>4 DEF GraphIsCurrent, UnderWay
  <2> QED BY <2>1, <2>2, <2>5 DEF NoticedInv, ReadIsCurrent, WrittenIsCurrent
<1>6. CASE StartWatching
  BY <1>2, <1>6 DEF StartWatching, watchVars, lspVars, mcpVars
<1>7. CASE Dispatch
  BY <1>3, <1>7, DispatchNoticed DEF Dispatch, lspVars, mcpVars
<1>8. CASE Probe
  BY <1>3, <1>8, ProbeNoticed DEF Probe, lspVars, mcpVars
<1>9. ASSUME NEW k \in Keys, ReloadRead(k) PROVE NoticedInv'
  <2>1. UNCHANGED <<disk, raised, probing, channel, loaded, missed, graph, opened, todo, call,
                    staging, snapshot>>
    BY <1>9 DEF ReloadRead, watchVars, lspVars, mcpVars
  <2>2. got'.key = k /\ got'.file = disk[k]
    BY <1>9 DEF ReloadRead
  <2> QED BY <1>1, <2>1, <2>2, UnderWayStays
          DEF NoticedInv, ReadIsCurrent, WrittenIsCurrent, GraphIsCurrent
<1>10. CASE ReloadApply
  <2>1. UNCHANGED <<disk, raised, probing, channel, loaded, opened, call, staging, snapshot>>
    BY <1>10 DEF ReloadApply, watchVars, mcpVars
  <2>2. got # None /\ got' = None /\ got.key \in Keys /\ call = None
    BY <1>0, <1>10 DEF ReloadApply, TypeInv, TypeOK
  <2>3. \A l \in Keys : l # got.key => /\ graph'[l] = graph[l]
                                       /\ l \in todo' <=> l \in todo
                                       /\ l \in missed' <=> l \in missed
    BY <1>0, <1>10 DEF ReloadApply, Become
  <2>4. got.file = disk[got.key] => graph'[got.key] = disk[got.key] \/ disk[got.key] = Unreadable
    BY <1>0, <1>10, <2>2, AsOnDisk DEF ReloadApply, Become
  <2>5. graph'[got.key] = disk[got.key] \/ UnderWay(got.key)
    BY <1>1, <2>2, <2>4 DEF ReadIsCurrent, UnderWay
  <2>6. \A l \in Keys : GraphIsCurrent(l)'
    BY <1>1, <2>1, <2>3, <2>5, UnderWayStays DEF GraphIsCurrent
  <2> QED BY <2>1, <2>2, <2>6 DEF NoticedInv, ReadIsCurrent, WrittenIsCurrent
<1>11. CASE \/ \E k \in Keys, t \in Texts : Open(k, t) \/ Change(k, t)
            \/ \E k \in Keys : Close(k) \/ Report(k)
            \/ AskForHints \/ Refresh
  BY <1>2, <1>11 DEF Open, Change, Close, Report, AskForHints, Refresh, EditorRests, mcpVars
<1>12. ASSUME NEW k \in Keys, Save(k) PROVE NoticedInv'
  <2>1. buffer[k] \in Files
    BY <1>12 DEF Save, TypeInv, TypeOK, Files
  <2> QED BY <1>12, <2>1, NoticedAfterPut DEF Save, EditorRests, mcpVars
<1>13. ASSUME NEW what, Handles(what)
       PROVE  /\ UNCHANGED <<disk, raised, probing, channel, loaded, missed, got, call, staging, snapshot>>
              /\ got = None /\ call = None /\ todo = {}
              /\ inbox # <<>> /\ Head(inbox) = inbox[1] /\ inbox[1].what = what
  BY <1>0, <1>13, Popped DEF Handles, Ready, LoopRests, mcpVars, TypeInv, TypeOK
<1>14. ASSUME NEW what, Handles(what),
              \A k \in Keys : \/ graph'[k] = graph[k] /\ (k \in opened => k \in opened' \cup todo')
                              \/ k \in opened' \cup todo'
       PROVE  NoticedInv'
  <2>1. \A l \in Keys : GraphIsCurrent(l)'
    BY <1>1, <1>13, <1>14, UnderWayStays DEF GraphIsCurrent
  <2> QED BY <1>13, <1>14, <2>1 DEF NoticedInv, ReadIsCurrent, WrittenIsCurrent
<1>15. CASE DidOpen
  <2>1. /\ Handles("open") /\ opened' = opened \cup {Head(inbox).key}
        /\ \A k \in Keys : k # Head(inbox).key => graph'[k] = graph[k]
    BY <1>0, <1>15 DEF DidOpen, Become
  <2> QED BY <1>14, <2>1
<1>16. CASE DidChange
  <2>1. /\ Handles("change") /\ opened' = opened
        /\ \A k \in Keys : k # Head(inbox).key => graph'[k] = graph[k]
    BY <1>0, <1>16 DEF DidChange, Become
  <2>2. Head(inbox) = inbox[1] /\ inbox[1].key \in Keys /\ inbox[1].what = "change"
    BY <1>13, <2>1, HandlesTyped
  <2>3. inbox[1].key \in opened
    <3>1. Edit(inbox, inbox[1].key, 1) /\ NoneBefore(inbox, inbox[1].key, 1)
      BY <1>13, <2>1, <2>2, Popped, Indices DEF Edit, Edits, NoneBefore, TypeInv, TypeOK
    <3> QED BY <2>2, <3>1 DEF EditorInv, Kept, Change1, Edit
  <2> QED BY <1>14, <2>1, <2>2, <2>3
<1>17. CASE DidClose
  <2>1. /\ Handles("close") /\ graph' = graph
        /\ opened' = opened \ {Head(inbox).key} /\ todo' = {Head(inbox).key}
    BY <1>17 DEF DidClose
  <2> QED BY <1>14, <2>1
<1>18. CASE DidChangeWatchedFiles
  BY <1>14, <1>18 DEF DidChangeWatchedFiles
<1>19. CASE InlayHints
  BY <1>14, <1>19 DEF InlayHints
<1>20. CASE OnFsEvent
  <2>1. /\ UNCHANGED <<disk, raised, probing, loaded, missed, graph, opened, got, call, staging, snapshot>>
        /\ got = None /\ call = None /\ todo = {}
        /\ todo' = {Head(channel)} \ opened /\ channel' = Tail(channel) /\ channel # <<>>
    BY <1>0, <1>20 DEF OnFsEvent, Ready, ApplyExternal, LoopRests, lspVars, mcpVars
  <2>2. ASSUME NEW k \in Keys, UnderWay(k) PROVE UnderWay(k)' \/ k \in opened' \/ k \in todo'
    <3>1. ASSUME NEW i \in DOMAIN channel, channel[i] = k, i # 1
          PROVE  i - 1 \in DOMAIN channel' /\ channel'[i - 1] = k
      BY <1>0, <2>1, <3>1, Popped, Indices
    <3>2. Head(channel) = channel[1]
      BY <1>0, <2>1, Popped
    <3> QED BY <2>1, <2>2, <3>1, <3>2 DEF UnderWay
  <2>3. \A l \in Keys : GraphIsCurrent(l)'
    BY <1>1, <2>1, <2>2 DEF GraphIsCurrent
  <2> QED BY <2>1, <2>3 DEF NoticedInv, ReadIsCurrent, WrittenIsCurrent
<1>21. CASE IdleRebuild
  BY <1>2, <1>21 DEF IdleRebuild, LoopRests, mcpVars
<1>22. CASE TakeBatch
  <2>1. /\ UNCHANGED <<disk, raised, probing, loaded, missed, graph, opened, got, call, staging, snapshot>>
        /\ got = None /\ call = None /\ todo = {}
        /\ todo' = {channel[i] : i \in DOMAIN channel}
    BY <1>0, <1>22 DEF TakeBatch, Unlocked, McpRests, lspVars, mcpVars
  <2>2. ASSUME NEW k \in Keys, UnderWay(k) PROVE UnderWay(k)' \/ k \in todo'
    BY <2>1, <2>2 DEF UnderWay
  <2>3. \A l \in Keys : GraphIsCurrent(l)'
    BY <1>1, <2>1, <2>2 DEF GraphIsCurrent
  <2> QED BY <2>1, <2>3 DEF NoticedInv, ReadIsCurrent, WrittenIsCurrent
<1>23. ASSUME NEW ks \in SUBSET Keys, NEW d \in Documents, ToolStart(ks, d) PROVE NoticedInv'
  <2>1. UNCHANGED <<disk, raised, probing, channel, loaded, missed, graph, opened, todo, got,
                    staging, snapshot>>
    BY <1>23 DEF ToolStart, McpRests, lspVars
  <2>2. call'.keys \ call'.left = {}
    BY <1>23 DEF ToolStart
  <2> QED BY <1>1, <2>1, <2>2, UnderWayStays
          DEF NoticedInv, ReadIsCurrent, WrittenIsCurrent, GraphIsCurrent
<1>24. ASSUME NEW k \in Keys, ToolWrite(k) PROVE NoticedInv'
  <2>1. /\ call \in [keys : SUBSET Keys, left : SUBSET Keys, document : Documents]
        /\ watching /\ todo = {} /\ got = None
    BY <1>0, <1>24 DEF ToolWrite, TypeInv, TypeOK
  <2>2. /\ UNCHANGED <<probing, channel, loaded, graph, opened, todo, got, staging, snapshot>>
        /\ call'.keys = call.keys /\ call'.document = call.document
        /\ call'.left = call.left \ {k}
    BY <1>24, <2>1 DEF ToolWrite, McpRests, lspVars
  <2>3. call.document \in Files
    BY <2>1 DEF Documents, Files
  <2>4. /\ disk'[k] = call.document
        /\ \A l \in Keys : l # k => disk'[l] = disk[l] /\ (UnderWay(l) => UnderWay(l)')
        /\ disk' = disk \/ UnderWay(k)'
        /\ UnderWay(k) => UnderWay(k)'
    <3>1. CASE Put(k, call.document)
      BY <2>1, <2>2, <2>3, <3>1, PutNoticed
    <3>2. CASE disk[k] = call.document /\ UNCHANGED <<disk, raised, missed, writes>>
      BY <2>2, <3>2 DEF UnderWay
    <3> QED BY <1>24, <3>1, <3>2 DEF ToolWrite
  <2>5. \A l \in Keys : l # k => (l \in missed' <=> l \in missed)
    BY <1>24 DEF ToolWrite, Put
  <2>6. disk' = disk => missed' = missed
    BY <1>0, <1>24, <2>3 DEF ToolWrite, Put
  <2>7. \A l \in Keys : GraphIsCurrent(l)'
    <3> SUFFICES ASSUME NEW l \in Keys PROVE GraphIsCurrent(l)'
      OBVIOUS
    <3>1. CASE l # k
      BY <1>1, <2>2, <2>4, <2>5, <3>1 DEF GraphIsCurrent
    <3>2. CASE l = k /\ UnderWay(k)'
      BY <3>2 DEF GraphIsCurrent
    <3>3. CASE l = k /\ disk' = disk
      BY <1>1, <2>2, <2>4, <2>6, <3>3 DEF GraphIsCurrent
    <3> QED BY <2>4, <3>1, <3>2, <3>3
  <2>8. \A l \in Keys : WrittenIsCurrent(l)'
    BY <1>1, <1>24, <2>2, <2>4 DEF WrittenIsCurrent, ToolWrite
  <2> QED BY <2>1, <2>2, <2>7, <2>8 DEF NoticedInv, ReadIsCurrent
<1>25. CASE ToolFail
  <2>1. /\ UNCHANGED <<disk, raised, probing, channel, loaded, missed, graph, opened, todo, got,
                       staging, snapshot>>
        /\ call' = None
    BY <1>25 DEF ToolFail, McpRests, lspVars
  <2> QED BY <1>1, <2>1, UnderWayStays
          DEF NoticedInv, ReadIsCurrent, WrittenIsCurrent, GraphIsCurrent
<1>26. CASE ToolReturn
  <2>1. /\ UNCHANGED <<disk, raised, probing, channel, loaded, opened, todo, got, staging, snapshot>>
        /\ call # None /\ call.left = {} /\ call' = None
    BY <1>26 DEF ToolReturn, McpRests, lspVars
  <2>2. /\ \A l \in Keys : l \in call.keys => graph'[l] = call.document
        /\ \A l \in Keys : l \notin call.keys =>
             graph'[l] = graph[l] /\ (l \in missed' <=> l \in missed)
    BY <1>26 DEF ToolReturn
  <2>3. \A l \in Keys : l \in call.keys => disk[l] = call.document \/ UnderWay(l)
    BY <1>1, <2>1 DEF WrittenIsCurrent
  <2>4. \A l \in Keys : GraphIsCurrent(l)'
    BY <1>1, <2>1, <2>2, <2>3, UnderWayStays DEF GraphIsCurrent
  <2> QED BY <1>1, <2>1, <2>4, UnderWayStays DEF NoticedInv, ReadIsCurrent, WrittenIsCurrent
<1>27. CASE BeginDefault
  <2>1. /\ UNCHANGED <<disk, raised, probing, channel, got, call>> /\ staging'
    BY <1>27 DEF BeginDefault, McpRests
  <2> QED BY <1>1, <2>1, UnderWayStays
          DEF NoticedInv, ReadIsCurrent, WrittenIsCurrent, GraphIsCurrent
<1>28. ASSUME NEW k \in Keys, NEW d \in Documents, Stage(k, d) PROVE NoticedInv'
  <2>1. /\ UNCHANGED <<disk, raised, probing, channel, got, call>> /\ staging'
    BY <1>28 DEF Stage, McpRests
  <2> QED BY <1>1, <2>1, UnderWayStays
          DEF NoticedInv, ReadIsCurrent, WrittenIsCurrent, GraphIsCurrent
<1>29. CASE AbortTake
  <2>1. UNCHANGED <<disk, raised, probing, channel, got, call>>
    BY <1>29 DEF AbortTake, McpRests
  <2>2. snapshot' # None
    BY <1>29, <1>0, DocumentsOfFiles, WatchConstants DEF AbortTake, WatchConstants
  <2> QED BY <1>1, <2>1, <2>2, UnderWayStays
          DEF NoticedInv, ReadIsCurrent, WrittenIsCurrent, GraphIsCurrent
<1>29a. ASSUME NEW k \in Keys, AbortRead(k) PROVE NoticedInv'
  <2>1. UNCHANGED <<disk, raised, probing, channel, got, call>>
    BY <1>29a DEF AbortRead, McpRests
  <2>2. snapshot' # None
    <3>1. snapshot \in [Keys -> Documents \cup {None}] /\ AsDocument(disk[k]) \in Documents
      BY <1>29a, <1>0, DocumentsOfFiles DEF AbortRead, TypeInv, TypeOK
    <3>2. snapshot' = [snapshot EXCEPT ![k] = AsDocument(disk[k])]
      BY <1>29a DEF AbortRead
    <3>3. snapshot' \in [Keys -> Documents \cup {None}]
      BY <3>1, <3>2
    <3> QED BY <3>3, WatchConstants DEF WatchConstants
  <2> QED BY <1>1, <2>1, <2>2, UnderWayStays
          DEF NoticedInv, ReadIsCurrent, WrittenIsCurrent, GraphIsCurrent
<1>30. CASE AbortReplace
  <2>1. /\ UNCHANGED <<disk, raised, probing, channel, got, call>>
        /\ graph' = snapshot
        /\ \A l \in Keys : l \notin missed' => snapshot[l] = AsDocument(disk[l])
    BY <1>30 DEF AbortReplace, McpRests
  <2>2. \A l \in Keys : l \notin missed' => graph'[l] = disk[l] \/ disk[l] = Unreadable
    BY <1>0, <2>1, AsOnDisk
  <2>3. \A l \in Keys : GraphIsCurrent(l)'
    BY <2>1, <2>2 DEF GraphIsCurrent, UnderWay
  <2> QED BY <1>1, <2>1, <2>3, UnderWayStays DEF NoticedInv, ReadIsCurrent, WrittenIsCurrent
<1>31. CASE UNCHANGED vars
  BY <1>2, <1>31 DEF vars, watchVars, lspVars, mcpVars
<1> HIDE DEF EditorAndGraph
<1> QED
  BY <1>4, <1>5, <1>6, <1>7, <1>8, <1>9, <1>10, <1>11, <1>12,
     <1>15, <1>16, <1>17, <1>18, <1>19, <1>20, <1>21, <1>22, <1>23, <1>24, <1>25, <1>26, <1>27,
     <1>28, <1>29, <1>29a, <1>30, <1>31
  DEF Next, Watcher, Editor, Loop, OnNotification, ToolCall, DefaultTransaction

\* No event, message, reload, tool call or reload of everything is under way.
Quiet ==
  /\ watching /\ raised = <<>> /\ probing = None /\ channel = <<>> /\ inbox = <<>>
  /\ todo = {} /\ call = None /\ ~staging /\ snapshot = None

Settled == Quiet => \A k \in Keys : InSync(k)

\* What is to converge has converged as soon as nothing is under way: every document
\* is in the graph as the editor shows it or, when it is not open, as it is on disk,
\* unless its last change was never reported.  Converges adds that it comes to that.
THEOREM NothingIsOverlooked == Spec => []Settled
<1> DEFINE I == EditorAndGraph /\ NoticedInv
<1>1. Init => I
  BY InitTyped, InitDisciplined, InitEditor, InitNoticed DEF EditorAndGraph
<1>2. I /\ [Next]_vars => I'
  BY StepTyped, StepDisciplined, StepEditor, StepNoticed DEF EditorAndGraph
<1>3. ASSUME I, Quiet, NEW k \in Keys PROVE InSync(k)
  <2>1. Kept(inbox, k, k \in opened, buffer[k], graph[k]) /\ GraphIsCurrent(k)
    BY <1>3 DEF EditorAndGraph, EditorInv, NoticedInv
  <2>2. NoEdit(inbox, k)
    BY <1>3 DEF Quiet, NoEdit
  <2>3. (k \in opened <=> buffer[k] # Closed) /\ (k \in opened => graph[k] = buffer[k])
    BY <2>1, <2>2 DEF Kept, Told
  <2>4. k \in loaded /\ probing # k /\ DOMAIN raised = {} /\ DOMAIN channel = {}
    BY <1>3, WatchConstants DEF EditorAndGraph, Discipline, Quiet, WatchConstants
  <2>5. UnderWay(k) => disk[k] = Unreadable
    BY <2>4 DEF UnderWay
  <2> QED BY <1>3, <2>1, <2>3, <2>4, <2>5 DEF GraphIsCurrent, InSync, Quiet
<1>4. I => Settled
  BY <1>3 DEF Settled
<1> HIDE DEF I
<1> QED BY <1>1, <1>2, <1>4, PTL DEF Spec
=============================================================================
