------------------------------- MODULE TxServer -------------------------------
(***************************************************************************)
(* Agent transactions of the iwec MCP server over HTTP (iwec/src/lib.rs):  *)
(* iwe_tx_begin, iwe_tx_commit, iwe_tx_abort, the write tools that stage   *)
(* on an open transaction or land directly, the idle reaper, draining, and *)
(* what survives a restart (iwec/src/durable.rs).                          *)
(*                                                                         *)
(* Requests run concurrently and interleave wherever the code awaits the   *)
(* graph or releases open_txs.  A commit of the backend is one step here:  *)
(* CommitStore shows what happens inside it.  Other programs change the    *)
(* store between any two steps (Outside).  The id of a transaction is      *)
(* bookkeeping of the model: the code knows transactions by handle only.   *)
(***************************************************************************)
EXTENDS Naturals

CONSTANTS
  Handle,       \* transaction handles: one per session, and explicit ones
  Implicit,     \* handles of sessions: a write without a transaction may land
  Req,          \* requests that can be in flight at once
  Key, Doc,
  Rendered,     \* Rendered[d]: d written out again from the graph (export_key)
  Empty,        \* the document export_key makes of a key it does not have
  Absent, Unset, NoTx, NoReq, Nobody,
  Pipelined,    \* may a client send before its earlier requests are answered?
  LockMayFail,  \* may a commit be refused by the commit lock?
  SaveMayFail,  \* may writing the state file fail?
  Expiry,       \* may a tombstone get older than a day?
  InitialStores,
  MaxSent, MaxRestarts, MaxOutside   \* bounds

Content == Doc \cup {Absent}

ASSUME ServerConstants ==
  /\ Implicit \subseteq Handle
  /\ Rendered \in [Doc -> Doc] /\ Empty \in Doc
  /\ Absent \notin Doc \cup {Unset} /\ Unset \notin Doc
  /\ Nobody \notin Req
  /\ {Pipelined, LockMayFail, SaveMayFail, Expiry} \subseteq BOOLEAN
  /\ InitialStores \subseteq [Key -> Content]
  /\ MaxSent \in Nat /\ MaxRestarts \in Nat /\ MaxOutside \in Nat

VARIABLES
  up, draining,
  open,         \* open_txs: the transaction open under a handle, or NoTx
  committing,   \* id of the transaction a handle has mid-commit, or 0
  lost,         \* id of the transaction a handle's tombstone stands for, or 0
  file,         \* open-transactions.json
  private,      \* the private graph of each transaction
  graph,        \* the shared graph
  lock,         \* the request that holds the shared graph's mutex
  disk,
  req,          \* the requests in flight
  told,         \* what the last answer a client got says of its transaction
  nextId, sent, restarts, outside,   \* counters (bound the model)
  shown,        \* history: contents each key has had on disk
  landed,       \* history: transactions whose writes reached the disk
  asked, seen   \* history: what was last staged, and the disk at the first staging

guards == <<open, committing, lost, file>>
counters == <<nextId, sent, restarts, outside>>
history == <<shown, landed, asked, seen>>
serverVars == <<up, draining, guards, private, graph, lock, disk, req, told, counters, history>>

Slot == {"unnamed", "none", "create", "update", "delete"}
\* restaged: history, the keys whose staged text a retry wrote, not the agent.
Tx == [id : Nat, pending : [Key -> Content \cup {Unset}],
       baseline : [Key -> Content \cup {Unset}], effect : [Key -> Slot], idle : BOOLEAN,
       restaged : SUBSET Key]
\* create and update write one file (write_file); make and change are the creates
\* and updates of a change set (stage_changes).
Puts == {"create", "update", "make", "change"}
Writes == Puts \cup {"delete"}
Controls == {"begin", "commit", "abort"}
ReqPC == {"sent", "lock", "ready", "land", "begin", "taken", "landed", "refused", "retry"}
\* src: the graph a write resolved to, 0 for the shared one; tx: what a commit took.
Request == [pc : ReqPC, kind : Writes \cup Controls, h : Handle, k : Key, d : Content,
            src : Nat, tx : Tx \cup {NoTx}]

ASSUME NoneIsNone == NoTx \notin Tx /\ NoReq \notin Request

Untouched == [k \in Key |-> Unset]

TypeOK ==
  /\ up \in BOOLEAN /\ draining \in BOOLEAN
  /\ open \in [Handle -> Tx \cup {NoTx}]
  /\ committing \in [Handle -> Nat] /\ lost \in [Handle -> Nat]
  /\ file \in [open : [Handle -> Nat], lost : [Handle -> Nat]]
  /\ private \in [1..MaxSent -> [Key -> Content]]
  /\ graph \in [Key -> Content] /\ disk \in [Key -> Content]
  /\ lock \in Req \cup {Nobody}
  /\ req \in [Req -> Request \cup {NoReq}]
  /\ told \in [Handle -> {"none", "open", "unsure"}]
  /\ nextId \in Nat /\ sent \in Nat /\ restarts \in Nat /\ outside \in Nat
  /\ shown \in [Key -> SUBSET Content]
  /\ landed \subseteq Nat
  /\ asked \in [1..MaxSent -> [Key -> Content \cup {Unset}]]
  /\ seen \in [1..MaxSent -> [Key -> Content \cup {Unset}]]

Init ==
  /\ up = TRUE /\ draining = FALSE
  /\ open = [h \in Handle |-> NoTx]
  /\ committing = [h \in Handle |-> 0] /\ lost = [h \in Handle |-> 0]
  /\ file = [open |-> [h \in Handle |-> 0], lost |-> [h \in Handle |-> 0]]
  /\ disk \in InitialStores /\ graph = disk
  /\ private = [i \in 1..MaxSent |-> disk]
  /\ lock = Nobody
  /\ req = [r \in Req |-> NoReq]
  /\ told = [h \in Handle |-> "none"]
  /\ nextId = 1 /\ sent = 0 /\ restarts = 0 /\ outside = 0
  /\ shown = [k \in Key |-> {disk[k], Absent}]
  /\ landed = {}
  /\ asked = [i \in 1..MaxSent |-> Untouched]
  /\ seen = [i \in 1..MaxSent |-> Untouched]

-----------------------------------------------------------------------------
(* Helpers *)

InFlight(r) == req[r] # NoReq
At(r, pc) == InFlight(r) /\ req[r].pc = pc
Goes(r, pc) == req' = [req EXCEPT ![r].pc = pc]
Answer(r) == req' = [req EXCEPT ![r] = NoReq]
Tell(r, what) == told' = [told EXCEPT ![req[r].h] = what]
Unlock(r) == lock' = IF lock = r THEN Nobody ELSE lock

\* A client that got "transaction open" last and has no begin, commit or abort
\* under way takes its transaction to be open.
Believes(h) ==
  /\ told[h] = "open"
  /\ \A r \in Req : InFlight(r) /\ req[r].h = h => req[r].kind \in Writes

\* A request that resolved the transaction keeps a lease on it until it returns.
Leased(h) ==
  \E r \in Req : InFlight(r) /\ req[r].kind \in Writes /\ req[r].src = open[h].id

\* Mutant of Recorded: keys mid-commit are left out.
RecordedOpenOnly ==
  [open |-> [h \in Handle |-> IF open'[h] # NoTx THEN open'[h].id ELSE 0], lost |-> lost']

\* persist_tx_state: what the state file is rewritten with.
Recorded ==
  [open |-> [h \in Handle |-> IF open'[h] # NoTx THEN open'[h].id ELSE committing'[h]],
   lost |-> lost']

\* persist_tx_state_logged: a failure leaves the old file.
SaveLogged ==
  \/ file' = Recorded
  \/ SaveMayFail /\ UNCHANGED file

\* Mutant of Collapse: the last effect always stands.
CollapseToLast(slot, effect) == effect

\* Mutant of Collapse: a key created and deleted is marked with a word of its own.
CollapseToGone(slot, effect) ==
  IF slot = "create" /\ effect = "delete" THEN "gone" ELSE effect

\* collapse_effects, one effect at a time.
Collapse(slot, effect) ==
  CASE slot = "create" /\ effect = "update" -> "create"
    [] slot = "create" /\ effect = "delete" -> "none"
    [] slot = "delete" /\ effect = "create" -> "update"
    [] OTHER -> effect

\* Graph::export_key: the document rendered from the graph.
Export(g, k) == IF g[k] = Absent THEN Empty ELSE Rendered[g[k]]

\* What a tool asks of the graph it resolved before it writes.
Applies(q, view) ==
  CASE q.kind = "create" -> view[q.k] = Absent /\ disk[q.k] = Absent
    [] q.kind = "make"   -> view[q.k] = Absent
    [] OTHER             -> view[q.k] # Absent

\* write_file tells create from update by the file; a change set says it itself.
EffectOf(q) ==
  CASE q.kind = "delete" -> "delete"
    [] q.kind = "make"   -> "create"
    [] q.kind = "change" -> "update"
    [] OTHER             -> IF disk[q.k] = Absent THEN "create" ELSE "update"

View(q) == IF q.src = 0 THEN graph ELSE private[q.src]

\* The handler mutates the graph it resolved.
Mutate(q) ==
  IF q.src = 0
  THEN graph' = [graph EXCEPT ![q.k] = q.d] /\ UNCHANGED private
  ELSE private' = [private EXCEPT ![q.src][q.k] = q.d] /\ UNCHANGED graph

-----------------------------------------------------------------------------
(* Requests *)

Send(r, kind, h, k, d) ==
  /\ up /\ ~InFlight(r) /\ sent < MaxSent
  /\ kind \in Puts => d \in Doc
  /\ kind \notin Puts => d = Absent
  /\ Pipelined \/ \A s \in Req : (InFlight(s) /\ req[s].h = h) =>
                      kind \in Writes /\ req[s].kind \in Writes
  /\ sent' = sent + 1
  /\ req' = [req EXCEPT ![r] = [pc |-> "sent", kind |-> kind, h |-> h, k |-> k, d |-> d,
                                src |-> 0, tx |-> NoTx]]
  /\ UNCHANGED <<up, draining, guards, private, graph, lock, disk, told, nextId, restarts,
                 outside, history>>

\* tx_graph: the graph a write tool works on.
Resolve(r) ==
  LET h == req[r].h IN
  /\ At(r, "sent") /\ req[r].kind \in Writes
  /\ CASE open[h] # NoTx ->
            /\ open' = [open EXCEPT ![h].idle = FALSE]
            /\ req' = [req EXCEPT ![r].src = open[h].id, ![r].pc = "ready"]
            /\ UNCHANGED told
       [] open[h] = NoTx /\ lost[h] # 0 ->
            Answer(r) /\ Tell(r, "none") /\ UNCHANGED open
       [] open[h] = NoTx /\ lost[h] = 0 /\ h \in Implicit ->
            Goes(r, "lock") /\ UNCHANGED <<open, told>>
       [] OTHER ->
            Answer(r) /\ Tell(r, "none") /\ UNCHANGED open
  /\ UNCHANGED <<up, draining, committing, lost, file, private, graph, lock, disk, counters,
                 history>>

LockGraph(r) ==
  /\ At(r, "lock") /\ lock = Nobody
  /\ lock' = r
  /\ Goes(r, "ready")
  /\ UNCHANGED <<up, draining, guards, private, graph, disk, told, counters, history>>

\* The tool finds the document (not) there, or a schema or permission refuses.
RejectWrite(r) ==
  /\ At(r, "ready")
  /\ Answer(r) /\ Unlock(r)
  /\ UNCHANGED <<up, draining, guards, private, graph, disk, told, counters, history>>

\* Mutant of Stage: the tool mutates the shared graph.
StageInShared(r) ==
  LET q == req[r]
      t == open[q.h] IN
  /\ At(r, "ready") /\ Applies(q, View(q)) /\ t # NoTx
  /\ open' = [open EXCEPT ![q.h].pending[q.k] = q.d,
                          ![q.h].baseline[q.k] = IF @ = Unset THEN disk[q.k] ELSE @,
                          ![q.h].effect[q.k] = Collapse(@, EffectOf(q)),
                          ![q.h].restaged = @ \ {q.k},
                          ![q.h].idle = FALSE]
  /\ graph' = [graph EXCEPT ![q.k] = q.d]
  /\ asked' = [asked EXCEPT ![t.id][q.k] = q.d]
  /\ seen' = [seen EXCEPT ![t.id][q.k] = IF @ = Unset THEN disk[q.k] ELSE @]
  /\ Answer(r) /\ Unlock(r)
  /\ UNCHANGED <<up, draining, committing, lost, file, private, disk, told, counters, shown,
                 landed>>

\* write_file, stage_changes: a transaction is open under the handle by now.
Stage(r) ==
  LET q == req[r]
      t == open[q.h] IN
  /\ At(r, "ready") /\ Applies(q, View(q)) /\ t # NoTx
  /\ open' = [open EXCEPT ![q.h].pending[q.k] = q.d,
                          ![q.h].baseline[q.k] = IF @ = Unset THEN disk[q.k] ELSE @,
                          ![q.h].effect[q.k] = Collapse(@, EffectOf(q)),
                          ![q.h].restaged = @ \ {q.k},
                          ![q.h].idle = FALSE]
  /\ Mutate(q)
  /\ asked' = [asked EXCEPT ![t.id][q.k] = q.d]
  /\ seen' = [seen EXCEPT ![t.id][q.k] = IF @ = Unset THEN disk[q.k] ELSE @]
  /\ Answer(r) /\ Unlock(r)
  /\ UNCHANGED <<up, draining, committing, lost, file, disk, told, counters, shown, landed>>

\* None is: refuse, or go on to a direct write.
WriteOutside(r) ==
  LET q == req[r] IN
  /\ At(r, "ready") /\ Applies(q, View(q)) /\ open[q.h] = NoTx
  /\ IF lost[q.h] = 0 /\ q.h \in Implicit
     THEN Goes(r, "land") /\ UNCHANGED <<lock, told>>
     ELSE Answer(r) /\ Unlock(r) /\ Tell(r, "none")
  /\ UNCHANGED <<up, draining, guards, private, graph, disk, counters, history>>

\* A commit of its own, one write in it.
Land(r) ==
  LET q == req[r] IN
  /\ At(r, "land")
  /\ \/ /\ disk' = [disk EXCEPT ![q.k] = q.d]
        /\ shown' = [shown EXCEPT ![q.k] = @ \cup {q.d}]
        /\ Mutate(q)
     \/ UNCHANGED <<disk, shown, graph, private>>
  /\ Answer(r) /\ Unlock(r)
  /\ UNCHANGED <<up, draining, guards, told, counters, landed, asked, seen>>

-----------------------------------------------------------------------------
(* iwe_tx_begin *)

\* The flag is read before the graph is awaited.
BeginCheck(r) ==
  /\ At(r, "sent") /\ req[r].kind = "begin"
  /\ IF draining THEN Answer(r) ELSE Goes(r, "begin")
  /\ UNCHANGED <<up, draining, guards, private, graph, lock, disk, told, counters, history>>

AlreadyOpen(r) ==
  LET h == req[r].h IN
  /\ At(r, "begin") /\ lock = Nobody /\ open[h] # NoTx
  /\ open' = [open EXCEPT ![h].idle = FALSE]
  /\ Answer(r) /\ Tell(r, "open")
  /\ UNCHANGED <<up, draining, committing, lost, file, private, graph, lock, disk, counters,
                 history>>

\* On disk as open before the agent is told so; a failed save takes it all back.
\* There are never more ids than requests sent: their bound is not met here.
Begin(r) ==
  LET h == req[r].h IN
  /\ At(r, "begin") /\ lock = Nobody /\ open[h] = NoTx /\ nextId <= MaxSent
  /\ \/ /\ open' = [open EXCEPT ![h] = [id |-> nextId, pending |-> Untouched,
                      baseline |-> Untouched, effect |-> [k \in Key |-> "unnamed"],
                      idle |-> FALSE, restaged |-> {}]]
        /\ private' = [private EXCEPT ![nextId] = graph]
        /\ nextId' = nextId + 1
        /\ lost' = [lost EXCEPT ![h] = 0]
        /\ UNCHANGED committing
        /\ file' = Recorded
        /\ Tell(r, "open")
     \/ SaveMayFail /\ UNCHANGED <<guards, private, nextId, told>>
  /\ Answer(r)
  /\ UNCHANGED <<up, draining, graph, lock, disk, sent, restarts, outside, history>>

-----------------------------------------------------------------------------
(* iwe_tx_commit *)

\* Taken out of open_txs, with the graph locked and the key marked mid-commit.
CommitTake(r) ==
  LET h == req[r].h IN
  /\ At(r, "sent") /\ req[r].kind = "commit" /\ lock = Nobody
  /\ IF open[h] # NoTx
     THEN /\ req' = [req EXCEPT ![r].pc = "taken", ![r].tx = open[h]]
          /\ open' = [open EXCEPT ![h] = NoTx]
          /\ committing' = [committing EXCEPT ![h] = open[h].id]
          /\ lock' = r
          /\ UNCHANGED told
     ELSE Answer(r) /\ Tell(r, "none") /\ UNCHANGED <<open, committing, lock>>
  /\ UNCHANGED <<up, draining, lost, file, private, graph, disk, counters, history>>

Conflict(t) == \E k \in Key : t.baseline[k] # Unset /\ t.baseline[k] # disk[k]

\* Mutant of CommitLand: what changed on disk meanwhile is not looked at.
CommitLandAnyway(r) ==
  LET t == req[r].tx IN
  /\ At(r, "taken")
  /\ disk' = [k \in Key |-> IF t.pending[k] = Unset THEN disk[k] ELSE t.pending[k]]
  /\ shown' = [k \in Key |-> shown[k] \cup {disk'[k]}]
  /\ graph' = [k \in Key |-> CASE t.effect[k] = "delete" -> Absent
                               [] t.effect[k] \in {"create", "update"} -> Export(private[t.id], k)
                               [] OTHER -> graph[k]]
  /\ landed' = landed \cup {t.id}
  /\ Goes(r, "landed") /\ Unlock(r)
  /\ UNCHANGED <<up, draining, guards, private, told, counters, asked, seen>>

\* The backend lands it; each named key goes into the shared graph.
CommitLand(r) ==
  LET t == req[r].tx IN
  /\ At(r, "taken") /\ ~Conflict(t)
  /\ disk' = [k \in Key |-> IF t.pending[k] = Unset THEN disk[k] ELSE t.pending[k]]
  /\ shown' = [k \in Key |-> shown[k] \cup {disk'[k]}]
  /\ graph' = [k \in Key |-> CASE t.effect[k] = "delete" -> Absent
                               [] t.effect[k] \in {"create", "update"} -> Export(private[t.id], k)
                               [] OTHER -> graph[k]]
  /\ landed' = landed \cup {t.id}
  /\ Goes(r, "landed") /\ Unlock(r)
  /\ UNCHANGED <<up, draining, guards, private, told, counters, asked, seen>>

\* Mutant of CommitRefused: the graph is not unlocked.
CommitRefusedLocked(r) ==
  /\ At(r, "taken")
  /\ \/ Goes(r, "refused")
     \/ LockMayFail /\ Goes(r, "retry")
  /\ UNCHANGED <<up, draining, guards, private, graph, lock, disk, told, counters, history>>

\* A refusal discards it; only one by the commit lock keeps it for a retry.
CommitRefused(r) ==
  /\ At(r, "taken")
  /\ \/ Goes(r, "refused")
     \/ LockMayFail /\ Goes(r, "retry")
  /\ Unlock(r)
  /\ UNCHANGED <<up, draining, guards, private, graph, disk, told, counters, history>>

Finish(r) ==
  /\ At(r, "landed") \/ At(r, "refused")
  /\ committing' = [committing EXCEPT ![req[r].h] = 0]
  /\ UNCHANGED <<open, lost>>
  /\ SaveLogged
  /\ Answer(r) /\ Tell(r, "none")
  /\ UNCHANGED <<up, draining, private, graph, lock, disk, counters, history>>

\* Mutant of Restage: the backend, already aborted, is put back as it is.
RestageNothing(t) == [t EXCEPT !.pending = Untouched, !.baseline = Untouched]

\* commit_or_abort cleared the backend: every named key is staged again from the
\* transaction's graph, and gets its baseline from the disk as it is now.
Restage(t) ==
  LET again == [k \in Key |->
        CASE t.effect[k] = "delete" -> Absent
          [] t.effect[k] \in {"create", "update"} -> Export(private[t.id], k)
          [] OTHER -> Unset] IN
  [t EXCEPT !.pending = again,
            !.baseline = [k \in Key |-> IF again[k] = Unset THEN Unset ELSE disk[k]],
            !.restaged = {k \in Key : t.effect[k] \in {"create", "update"}}]

Reopen(r) ==
  LET h == req[r].h IN
  /\ At(r, "retry")
  /\ open' = [open EXCEPT ![h] = Restage(req[r].tx)]
  /\ committing' = [committing EXCEPT ![h] = 0]
  /\ UNCHANGED lost
  /\ SaveLogged
  /\ Answer(r) /\ Tell(r, "open")
  /\ UNCHANGED <<up, draining, private, graph, lock, disk, counters, history>>

-----------------------------------------------------------------------------
(* iwe_tx_abort, the reaper, restarts *)

Abort(r) ==
  LET h == req[r].h IN
  /\ At(r, "sent") /\ req[r].kind = "abort" /\ lock = Nobody
  /\ open' = [open EXCEPT ![h] = NoTx]
  /\ lost' = IF open[h] = NoTx THEN [lost EXCEPT ![h] = 0] ELSE lost
  /\ UNCHANGED committing
  /\ IF open[h] # NoTx \/ lost[h] # 0 THEN SaveLogged ELSE UNCHANGED file
  /\ Answer(r) /\ Tell(r, "none")
  /\ UNCHANGED <<up, draining, private, graph, lock, disk, counters, history>>

\* The idle timeout passes.
GrowIdle(h) ==
  /\ up /\ open[h] # NoTx /\ ~open[h].idle
  /\ open' = [open EXCEPT ![h].idle = TRUE]
  /\ UNCHANGED <<up, draining, committing, lost, file, private, graph, lock, disk, req, told,
                 counters, history>>

Idle == {h \in Handle : open[h] # NoTx /\ open[h].idle /\ ~Leased(h)}

\* Mutant of Reap: nothing is left under the handle.
ReapWithoutTombstone ==
  /\ up /\ Idle # {}
  /\ open' = [h \in Handle |-> IF h \in Idle THEN NoTx ELSE open[h]]
  /\ UNCHANGED <<lost, committing>>
  /\ SaveLogged
  /\ UNCHANGED <<up, draining, private, graph, lock, disk, req, told, counters, history>>

Reap ==
  /\ up /\ Idle # {}
  /\ open' = [h \in Handle |-> IF h \in Idle THEN NoTx ELSE open[h]]
  /\ lost' = [h \in Handle |-> IF h \in Idle THEN open[h].id ELSE lost[h]]
  /\ UNCHANGED committing
  /\ SaveLogged
  /\ UNCHANGED <<up, draining, private, graph, lock, disk, req, told, counters, history>>

\* A tombstone gets older than TOMBSTONE_MAX_AGE.
Expire(h) ==
  /\ Expiry /\ up /\ lost[h] # 0
  /\ lost' = [lost EXCEPT ![h] = 0]
  /\ file' = [file EXCEPT !.lost[h] = 0]
  /\ UNCHANGED <<up, draining, open, committing, private, graph, lock, disk, req, told,
                 counters, history>>

Drain ==
  /\ up /\ ~draining
  /\ draining' = TRUE
  /\ UNCHANGED <<up, guards, private, graph, lock, disk, req, told, counters, history>>

\* The daemon stops, at the end of a drain or in the middle of anything: memory
\* and the answers under way are gone.
Stop ==
  /\ up /\ restarts < MaxRestarts
  /\ up' = FALSE /\ draining' = FALSE
  /\ open' = [h \in Handle |-> NoTx]
  /\ committing' = [h \in Handle |-> 0] /\ lost' = [h \in Handle |-> 0]
  /\ lock' = Nobody
  /\ req' = [r \in Req |-> NoReq]
  /\ told' = [h \in Handle |->
       IF \E r \in Req : InFlight(r) /\ req[r].h = h /\ req[r].kind \in Controls
       THEN "unsure" ELSE told[h]]
  /\ UNCHANGED <<file, private, graph, disk, counters, history>>

\* enable_tx_state: what was open becomes a tombstone.
Start ==
  /\ ~up
  /\ up' = TRUE
  /\ restarts' = restarts + 1
  /\ lost' = [h \in Handle |-> IF file.open[h] # 0 THEN file.open[h] ELSE file.lost[h]]
  /\ UNCHANGED <<open, committing>>
  /\ file' = Recorded
  /\ graph' = disk
  /\ UNCHANGED <<draining, private, lock, disk, req, told, nextId, sent, outside, history>>

-----------------------------------------------------------------------------
(* Surroundings *)

\* Another program commits.
Outside(k, d) ==
  /\ outside < MaxOutside
  /\ outside' = outside + 1
  /\ disk' = [disk EXCEPT ![k] = d]
  /\ shown' = [shown EXCEPT ![k] = @ \cup {d}]
  /\ UNCHANGED <<up, draining, guards, private, graph, lock, req, told, nextId, sent,
                 restarts, landed, asked, seen>>

\* The watcher brings a file's content into the shared graph.
Watch(k) ==
  /\ up /\ lock = Nobody /\ graph[k] # disk[k]
  /\ graph' = [graph EXCEPT ![k] = disk[k]]
  /\ UNCHANGED <<up, draining, guards, private, lock, disk, req, told, counters, history>>

Serve(r) ==
  \/ Resolve(r) \/ LockGraph(r) \/ RejectWrite(r) \/ Stage(r) \/ WriteOutside(r) \/ Land(r)
  \/ BeginCheck(r) \/ AlreadyOpen(r) \/ Begin(r)
  \/ CommitTake(r) \/ CommitLand(r) \/ CommitRefused(r) \/ Finish(r) \/ Reopen(r)
  \/ Abort(r)

Daemon ==
  \/ \E h \in Handle : GrowIdle(h) \/ Expire(h)
  \/ Reap \/ Drain \/ Stop \/ Start

Environment ==
  \/ \E r \in Req, kind \in Writes \cup Controls, h \in Handle, k \in Key, d \in Content :
       Send(r, kind, h, k, d)
  \/ \E k \in Key : Watch(k) \/ \E d \in Content : Outside(k, d)

\* The bound on requests is used up and all are answered.
Finished ==
  /\ sent = MaxSent
  /\ \A r \in Req : ~InFlight(r)
  /\ UNCHANGED serverVars

Next == Finished \/ Environment \/ Daemon \/ \E r \in Req : Serve(r)

Spec == Init /\ [][Next]_serverVars

\* Every request's task is polled again and again, and the graph's mutex is fair.
FairSpec == Spec /\ \A r \in Req : WF_serverVars(Serve(r))

-----------------------------------------------------------------------------
(* Properties *)

\* No write of an agent that takes its transaction to be open lands directly,
\* whatever the reaper, a restart, a full state directory or other agents do.
NoStrayWrite ==
  [][\A r \in Req : (At(r, "land") /\ up' /\ disk' # disk /\ ~InFlight(r)') =>
       ~Believes(req[r].h)]_serverVars

\* A transaction its agent takes to be open is remembered: by the daemon, open or
\* as a tombstone, and on disk, so that a restart can refuse the agent's writes.
\* One in the middle of its commit stays on disk as open, whatever other agents
\* make the daemon record meanwhile: a crash tombstones it.
Remembered ==
  \A h \in Handle :
    /\ Believes(h) => /\ up => open[h] # NoTx \/ lost[h] # 0
                      /\ file.open[h] # 0 \/ file.lost[h] # 0
    /\ committing[h] # 0 => file.open[h] # 0

\* What is staged in a transaction shows in nobody else's graph before it landed.
Isolation ==
  \A k \in Key : graph[k] \in shown[k] \cup {Rendered[d] : d \in shown[k] \ {Absent}}

Lands(r) == At(r, "taken") /\ At(r, "landed")'

\* What a commit does to one key, in terms of what its agent asked of it last.
LandsAsked(t, k) ==
  LET w == asked[t.id][k] IN
  /\ w = Unset => disk'[k] = disk[k]
  /\ t.effect[k] \in {"create", "update"} =>
       w \in Doc /\ disk'[k] = IF k \in t.restaged THEN Rendered[w] ELSE w
  /\ t.effect[k] = "delete" => w = Absent /\ disk'[k] = Absent

\* A commit lands on each key what its agent staged there last, and nothing else,
\* over any number of attempts that the commit lock refused: word for word when no
\* attempt was refused since, and as the graph renders it, in the meaning the
\* agent gave it but not its text, when one was.
CommitLandsAsked ==
  [][\A r \in Req : Lands(r) => \A k \in Key : LandsAsked(req[r].tx, k)]_serverVars

\* Word for word also after a refused attempt: "so the backend has the same pending
\* writes to try again", the code says.  It does not hold for a text that differs
\* from its rendering (README, section 3.3).
CommitLandsStaged ==
  [][\A r \in Req : Lands(r) =>
       \A k \in Key :
         req[r].tx.effect[k] \in {"create", "update", "delete"} =>
           disk'[k] = asked[req[r].tx.id][k]]_serverVars

\* A commit replaces only content that was on disk when its agent first staged.
NoLostUpdate ==
  [][\A r \in Req : Lands(r) =>
       \A k \in Key :
         LET t == req[r].tx IN
         asked[t.id][k] # Unset => disk[k] = seen[t.id][k]]_serverVars

\* The journal's collapsed effects of a commit are its net effects on the store.
NetEffects ==
  [][\A r \in Req : Lands(r) =>
       \A k \in Key :
         LET effect == req[r].tx.effect[k] IN
         /\ effect = "create" <=> disk[k] = Absent /\ disk'[k] # Absent
         /\ effect = "delete" <=> disk[k] # Absent /\ disk'[k] = Absent
         /\ effect = "none" => disk[k] = Absent]_serverVars

\* "None of its staged writes were applied" of every standing tombstone.  It does
\* not hold after a crash between the commit and the record (README, section 3.3).
TombstoneTruth == \A h \in Handle : lost[h] # 0 => lost[h] \notin landed

\* Every request is answered, or dies with the daemon.
Answered == \A r \in Req : InFlight(r) ~> ~InFlight(r)
-----------------------------------------------------------------------------
(* The inductive strengthening *)

MidCommit(r) == InFlight(r) /\ req[r].pc \in {"taken", "landed", "refused", "retry"}
Carries(r) == InFlight(r) /\ req[r].pc \in {"taken", "retry"}
Resolved(r) == InFlight(r) /\ req[r].kind \in Writes /\ req[r].pc # "sent"

\* Each kind of request runs through its own positions.
ShapeInv ==
  \A r \in Req : InFlight(r) =>
    /\ req[r].kind \in Writes => req[r].pc \in {"sent", "lock", "ready", "land"}
    /\ req[r].kind = "begin" => req[r].pc \in {"sent", "begin"}
    /\ req[r].kind = "commit" => req[r].pc = "sent" \/ MidCommit(r)
    /\ req[r].kind = "abort" => req[r].pc = "sent"
    /\ req[r].kind \in Puts => req[r].d \in Doc
    /\ MidCommit(r) => req[r].tx \in Tx
    /\ req[r].pc \in {"sent", "lock"} => req[r].src = 0
    /\ req[r].pc = "retry" => LockMayFail

\* A client has one control request under way, or any number of writes.
ExclusiveInv ==
  Pipelined \/ \A r \in Req : \A s \in Req \ {r} :
    InFlight(r) /\ InFlight(s) /\ req[r].h = req[s].h => req[r].kind \in Writes

DownInv ==
  ~up => /\ \A h \in Handle : open[h] = NoTx /\ committing[h] = 0
         /\ \A r \in Req : ~InFlight(r)

\* A transaction is in one place: open under one handle or taken by one commit.
IdInv ==
  /\ nextId \in 1..(MaxSent + 1)
  /\ \A h \in Handle : open[h] # NoTx =>
       /\ open[h].id \in 1..(nextId - 1)
       /\ \A g \in Handle \ {h} : open[g] # NoTx => open[g].id # open[h].id
  /\ \A r \in Req : Carries(r) =>
       /\ req[r].tx.id \in 1..(nextId - 1)
       /\ \A h \in Handle : open[h] # NoTx => open[h].id # req[r].tx.id
       /\ \A s \in Req \ {r} : Carries(s) => req[s].tx.id # req[r].tx.id

\* A write that resolved its transaction finds it open, one that found none finds none.
RouteInv ==
  Pipelined \/ \A r \in Req : Resolved(r) =>
    IF req[r].src = 0
    THEN open[req[r].h] = NoTx
    ELSE open[req[r].h] # NoTx /\ open[req[r].h].id = req[r].src /\ req[r].pc = "ready"

\* What the state file has of every handle.
FileInv ==
  Pipelined \/
    /\ \A h \in Handle : open[h] # NoTx \/ committing[h] # 0 => file.open[h] # 0
    /\ \A r \in Req : MidCommit(r) => committing[req[r].h] # 0

Kept(h) ==
  /\ up => open[h] # NoTx \/ lost[h] # 0
  /\ file.open[h] # 0 \/ file.lost[h] # 0

\* What a client was told is kept, but for a commit under way.
ToldInv ==
  (Pipelined \/ Expiry) \/
    /\ \A h \in Handle :
         (told[h] = "open" /\ \A r \in Req : MidCommit(r) => req[r].h # h) => Kept(h)
    /\ \A r \in Req : Resolved(r) /\ req[r].src = 0 => told[req[r].h] # "open"

\* The private graph has what is staged, or the staged text is its rendering.
Mirrors(t) ==
  \A k \in Key : t.effect[k] \in {"create", "update"} =>
    /\ t.pending[k] \in Doc
    /\ t.pending[k] \in {private[t.id][k], Export(private[t.id], k)}

StagedInv ==
  Pipelined \/
    /\ \A h \in Handle : open[h] # NoTx => Mirrors(open[h])
    /\ \A r \in Req : Carries(r) => Mirrors(req[r].tx)

\* The backend has what the client asked for and saw, as long as nothing is restaged.
Agrees(t) ==
  /\ asked[t.id] = t.pending /\ seen[t.id] = t.baseline
  /\ \A k \in Key : t.pending[k] = Unset <=> t.baseline[k] = Unset

SeenInv ==
  LockMayFail \/
    /\ \A h \in Handle : open[h] # NoTx => Agrees(open[h])
    /\ \A r \in Req : Carries(r) => Agrees(req[r].tx)
    /\ \A i \in nextId..MaxSent : asked[i] = Untouched /\ seen[i] = Untouched

ShownInv == \A k \in Key : {disk[k], Absent} \subseteq shown[k]
=============================================================================
