# iwe: a TLA+ verification project

iwe is a knowledge-base tool over a directory of Markdown (or Djot) documents,
the *store*. Several programs write one store at the same time: the `iwe`
command line, the `iwec` MCP server that serves AI agents, the `iwes` language
server, and whatever editor or script the user runs. This project specifies in
TLA+ the parts of the code that make those concurrent writes safe, the graph
that every reading and writing tool works on, the watcher that keeps it in step
with the files, and the evaluation of an argument. It checks them with TLC on
small instances, and proves the main safety properties with TLAPS for every
value of the parameters.

Paths below are relative to `src/`.

## 1. Inventory

### 1.1 Components, state, operations

| Component | Source | State | Operations |
|---|---|---|---|
| File lock | `crates/iwe-lock` | one record on disk: generation, heartbeat timestamp; per holder a guard and a heartbeat thread | `acquire`, `touch_if_current`, `is_current`, `Drop` |
| Commit lock | `crates/liwe/src/write_lock.rs` | a `FileLock` at `.iwe/write.lock` | `acquire_commit_lock`, `check_fencing` |
| Validating transaction | `crates/diwe/src/validating_transaction.rs` | pending writes, baseline digests, keys touched | `begin`, `write`, `remove`, `commit`, `abort` |
| Plain write path | `crates/diwe/src/fs.rs`, `crates/liwe/src/transaction.rs` | none | `apply_changes_with`, `write_store_at_path_with` |
| Journal | `crates/diwe/src/journal.rs` | append-only JSON-lines file | `next_seq`, `record_commit` |
| Commit trigger | `crates/diwe/src/commit_trigger.rs` | a child process | `run_trigger` under a hold of the commit lock |
| Integrity gate | `crates/diwe/src/integrity.rs` | debt cache keyed by a digest of the state | only-new violations of the configured gates |
| Write permissions | `crates/diwe/src/permissions.rs`, `schema.rs`, `config.rs` | none | may this content replace that one (freeze, the schemas' `mutable` and `deletable`); is this key in the write scope |
| Transaction server | `crates/iwec/src/lib.rs`, `durable.rs`, `main.rs` | `open_txs`, leases, keys mid-commit, tombstones, `open-transactions.json`, shared and private graphs | `iwe_tx_begin`, `iwe_tx_commit`, `iwe_tx_abort`, the write tools, reaper, drain, restart |
| HTTP sessions | `crates/iwec/src/durable.rs`, `main.rs` | one file per session | touch, load, prune |
| File watching | `crates/diwe/src/watcher.rs`, `crates/iwec/src/watcher.rs` | event queue, channel to the server | bring changed files into a graph |
| Document graph | `crates/liwe/src/graph.rs`, `graph/` | arena of nodes, per-key roots, link index | insert, update, remove a document; who refers to a key |
| Key index | `crates/liwe/src/model/key_index.rs` | keys by last segment, remembered answers | resolve a written name, shorten a key |
| Structural operations, cascade | `crates/liwe/src/operations`, `crates/diwe/src/cascade.rs` | none | rename, delete, extract, inline: change sets from a graph |
| Argumentation | `crates/liwe/src/query/argue.rs` | none | weigh and label an argument graph, diagnose what stays undecided |
| Query engine | `crates/liwe/src/query`, `graph/walk.rs` | none | evaluate a filter over a graph or within a set of keys, walk along links; project, update |
| Readers, writers, schemas, search, statistics | `crates/liwe/src/markdown`, `djot`, `schema`, `crates/diwe/src/{schema,search,stats,retrieve}.rs` | none | text to tree and back, checks, reports |
| Language server | `crates/iwes` | one graph, open documents, search index and its dirty flag, the key set the inlay hints were made for | edits from the editor and the watcher, one after the other |
| Command line, hooks, store set-up | `crates/iwe`, `crates/liwe/src/init` | none kept | load, compute a change set, write it |

`PROJECT.json` lists the same parts one by one with what is modelled of each.

### 1.2 How they interact

    agents ──HTTP──> iwec: open_txs, tombstones, shared graph (tokio mutex)
                       │ commit / direct write              ▲ watcher
                       v                                     │
    iwe ────> ValidatingTransaction  or  plain write path ───┤
                       │ acquire, fence, release             │
                       v                                     │
               commit lock = FileLock on .iwe/write.lock     │
                       │                                     │
                       └────> documents on disk ─────────────┘
                              journal file, commit trigger

- Every writer calls `acquire_commit_lock`, which is `FileLock::acquire`, and
  asks `check_fencing` (`LockGuard::is_current`) before it writes.
- A `[transactions]` backend makes writers stage, validate and apply through
  `ValidatingTransaction`. Without it the same tools write document by document.
- After a commit the caller appends one journal record and may run the trigger.
- The MCP server keeps one transaction per session or explicit handle, each with
  its own copy of the graph; its commit calls the backend.
- Documents may also be changed by programs that know nothing of the lock.
- The watcher's thread sends changed keys over a channel. The language server
  takes one event at a time, in turn with the editor's messages; the MCP server
  takes what has arrived as a batch, under the lock that its tools hold too.
- Every structural tool computes a change set from the graph and applies it to the
  disk and to the graph; names in documents are resolved by the key index, which
  remembers its answers until a key of that last segment comes or goes.

### 1.3 What is hard, and what must hold

| Component | Hard behaviour | What makes it correct |
|---|---|---|
| File lock | crashes, a stopped holder, takeover, its own heartbeat thread, a clock that may be set | fencing, growing generations, no ghost hold, only the owner frees, a timely holder keeps the lock, acquire returns |
| Validating transaction | interleaving with other writers between staging and applying, checkers that run after the apply, a hold lost in the middle | no lost update, no write skew, a refusal leaves the store alone |
| Plain path | partial batches, stale change sets | no refused rewrite lands; a partial batch is never journaled |
| Journal | appends outside the lock, records cut short | only landed commits, each once; increasing sequence numbers |
| Transaction server | requests that overlap, the idle reaper, crashes, a state file that cannot be written | a write an agent believes to be inside its transaction never lands directly; staged content stays private; the commit lands what was staged |
| Integrity gate | a debt cache that outlives the commit that filled it, documents that link in circles, processes with different modes, outside edits between two commits | the gate decides as the definitions say, commits alone never add debt, every commit lets go of the lock |
| Watcher, both servers | a file that changes between event, reading and use; events of an open document; an index rebuilt late; a graph replaced as a whole | open documents win, a finished write is seen, nothing derived is silently old, graph and disk agree in the end |
| Graph, key index | remembered answers and incremental indexes over any sequence of operations | they are those of a graph built anew |
| Structural operations | short names that fit several keys, links in both directions, self links, links in frontmatter | a rename keeps every link's meaning, nothing that led somewhere is broken |
| Argumentation | cycles of support and attack, updates that are seen within a pass | the labelling is the grounded one whatever the order of keys; a document is as strong as its weakest ground; the root cycles explain what is undecided |
| Query engine | scopes passed through nested filters, relations answered from either end, links that lead nowhere | evaluating within a set of documents is evaluating and intersecting; both ends give the same documents |
| Sessions | files left by an earlier process | not modelled, section 6 |

Every hazard is listed with its line in `PROJECT.json` under `hazards`, with the
properties that cover it or the reason why none does.

## 2. Modules

| Module | What it is |
|---|---|
| `FencedLock` | abstract: a lock that hands out growing generations |
| `FileLock` | the crate `iwe-lock`, step by step; implements `FencedLock` |
| `FileLockProofs` | TLAPS proofs about `FileLock` |
| `CommitStore` | several committing processes over one store; EXTENDS `FencedLock` |
| `CommitStoreProofs` | TLAPS proofs about `CommitStore` |
| `Permissions` | the write-permission rules as operators; `MCCommitStore` takes its permission relation from them |
| `PermissionsProofs` | TLAPS proofs about `Permissions` |
| `Integrity` | the gate on broken links and orphans, its search and its debt cache |
| `IntegrityProofs` | TLAPS proofs about `Integrity` |
| `TxServer` | the transactions of the MCP server; a backend commit is one step |
| `TxServerProofs` | TLAPS proofs about `TxServer` |
| `DocGraph` | the document graph, the key index and the structural tools |
| `DocGraphProofs` | TLAPS proofs about `DocGraph` and `Query` |
| `Query` | the evaluation of filters and the walks over a graph of `DocGraph` |
| `Watch` | the watcher and the two servers that follow it |
| `WatchProofs` | TLAPS proofs about `Watch` |
| `Argue` | the argument of a store: strengths, labelling, root cycles |
| `ArgueProofs` | TLAPS proofs about `Argue` |
| `MC…` | the instances for TLC |

The layers meet at two places. `FileLock` is proved to implement `FencedLock`,
and `CommitStore` uses nothing but `FencedLock`'s actions for its lock. In the
same way `TxServer` takes the commit of the backend as one step that either
lands everything or refuses, which is what `CommitStore` establishes when no
live hold is taken over and no write fails half-way. `Integrity` looks inside the
validation phase of `CommitStore`, which there is one step (`Validate`): since
the phase runs under the commit lock, its commits take turns. `DocGraph` is what
happens to the graph inside one tool call, which `Watch` and `TxServer` take as
one step. `Argue` is a function of a graph, computed by loops; `Query` EXTENDS
`DocGraph` and is a function of its graph.

### 2.1 FileLock

State: `disk` is the record of `state.rs` (generation, `held` = heartbeat is not
0, and its age); `flock` is the owner of the operating system's exclusive lock
on the file; `pc` and `beat` are where each process's main and heartbeat threads
are; `gen` and `stamp` are what the guard remembers. A timestamp is modelled by
its age, since the code only ever computes `now.saturating_sub(heartbeat)`.

| Action | Code |
|---|---|
| `AcquireCall` … `Timeout` | `FileLock::acquire`: open, flock, read, decide, write and sync, or sleep until the deadline |
| `AcquireIoError` | every `?` of it; after `write_state` the record may already have changed |
| `BeatFlock`, `Touch`, `TouchIoError` | `heartbeat.rs` and `touch_if_current` |
| `IsCurrent` | `LockGuard::is_current` |
| `Drop`, `Join`, `FreeFlock`, `MarkFreeIfCurrent`, `MarkFreeIoError` | `Drop for LockGuard` |
| `Tick`, `ClockStep`, `Crash`, `Hang`, `Resume` | time, a clock that is set, death, SIGSTOP |

The granularity is one flock section per two steps (taken, done), because
everything the code does to the record happens inside one. `Tick` may come
between the two, so a process may decide on an old reading.

### 2.2 CommitStore

State: `store` is the directory, `journal` the sequence of appends to the journal
file, and per process `pc`, the staged writes `pending`, the digests `baseline`,
the contents `prior` read before the apply, the keys `todo` of the running loop,
and `judged`, the content the permission check of a staged write was made against.
A document is a value; what the code asks of it is which keys it links to
(`Links`), which keys are out of scope (`Denied`) and which rewrites the permission
rules refuse (`Refused`: key, content before, content after).

| Action | Code |
|---|---|
| `Begin`, `Abort` | `begin`, `abort` |
| `Stage`, `CheckPermission` | `put_one` / `remove_one` and `apply_changes`: baseline first, then the permission check, which aborts on a refusal |
| `CheckFirst`, `StageChecked` | the MCP server's `write_file` and `stage_changes`: the server checks first, the backend reads the baseline afterwards |
| `Acquire`, `LockRefused` | `acquire_commit_lock`: grant, takeover, or an error, which may come after the record was written (`NoHold`) |
| `CheckConflicts`, `Validate`, `Fence`, `ReadPrior`, `ApplyWrite`, `CheckersPass`, `CheckersFail`, `RestoreKey` | `commit_locked`, phase by phase, each file write a step |
| `Plan`, `NextDocument`, `WriteDocument` | the plain path, removes before puts, each document checked, fenced and written |
| `WriteError` | an I/O error in a write loop; the file may be truncated |
| `ReadSeq`, `WriteText`, `WriteNewline`, `JournalError` | `record_commit`: `writeln!` on an unbuffered `File` is two writes |
| `StartTrigger`, `SkipTrigger` | `run_trigger`: the plain path inside its own hold, the validated one in a fresh hold |
| `DropGuard` | the guard's drop on every exit |
| `Crash` | the process dies between or inside any of these |

A key may be staged again: its baseline stays what it was when it was first staged, and
of its writes, which the code applies one after the other, the last one stands for
all. Taking over a hold whose process still runs is counted in `stalls` (`Supersedes`).

`Permissions` holds the rules themselves, as operators over a document's body and
frontmatter; nothing in them keeps state. A frontmatter is a tree given node by
node, and `Below[s]` the nodes at or below the path a selector names, so that "the
value at this path differs" is a difference at one of them.

| Operator | Code |
|---|---|
| `PatternsMatch`, `WritePermitted` | the last matching pattern decides; an allowlist, if there is one, decides alone |
| `SchemasFor`, `MutabilityRules`, `DeletableRule` | the bound schemas: the first gives the property rules, all of them a say about removal |
| `IsFrozen`, `IsSolitaryUnfreeze`, `PropertyTouched`, `Immutable` | the questions asked of the content before and after |
| `CheckWithMutability`, `CheckWrite`, `CheckDelete` | freeze first, then `deletable` for a removal, `mutable` for a write; a removal hands in `""` |

A missing or malformed schema has no rules, as in the code; bindings that do not
compile bind nothing. `MCCommitStore` instantiates `Permissions` with two schemas
and a write scope and computes `Refused` and `Denied` from `CheckWrite`,
`CheckDelete` and `WritePermitted`; `CommitStoreProofs` holds for any relation.

### 2.3 TxServer

State: `open`, `committing`, `lost` are `open_txs`, the keys mid-commit and the
tombstones; `file` is `open-transactions.json`; `graph` and `private` are the
shared graph and each transaction's copy; `lock` is the owner of the shared
graph's mutex; `req` holds the requests in flight with their position; `told`
is what the last answer told the client.

| Action | Code |
|---|---|
| `Resolve`, `LockGraph` | `tx_graph`: which graph a write works on, and the lease it takes |
| `RejectWrite`, `Stage`, `WriteOutside`, `Land` | the write tools: refuse, stage (`write_file`, `stage_changes`), or write directly |
| `BeginCheck`, `AlreadyOpen`, `Begin` | `iwe_tx_begin` with its drain check, its await and its save before the answer |
| `CommitTake`, `CommitLand`, `CommitRefused`, `Finish`, `Reopen` | `iwe_tx_commit`, `finish`, `reopen_after_lock_refusal` |
| `Abort` | `iwe_tx_abort` |
| `GrowIdle`, `Reap`, `Expire` | idle timeout, reaper, tombstone age |
| `Drain`, `Stop`, `Start` | shutdown, death at any point, `enable_tx_state` |
| `Outside`, `Watch` | other programs, the watcher |

A write comes with its kind: `create` and `update` write one file, where the effect
depends on whether the file is there (`write_file`); `make` and `change` are the
creates and updates of a change set, which says itself what they are (`stage_changes`).
A request is split exactly where the handler awaits the graph or releases the
`open_txs` mutex; between those points the code is atomic to other requests.

### 2.4 Integrity

State: `store` is the directory; `options[p]` and `cache[p]` are the `[integrity]`
section and the `DEBT_CACHE` of a process; `pending`, `before`, `prior`, `seen`,
`frontier`, `afterDebt`, `beforeDebt` are the locals of the commit under way. Of a
document only the keys it links to or includes count (`Links`).

| Action | Code |
|---|---|
| `Begin` | `commit_locked` up to `check_integrity`: the state before, the state after, the search of the state after |
| `Visit` | one turn of the loop of `reachable_from`, in any order of the queue |
| `AfterSearched` | `check_commit`: the debt after; the debt before when it is needed, from the cache or by a second search |
| `BeforeSearched` | the closure of `check_integrity`, which also fills the cache |
| `Judge`, `Refuse` | the comparison by mode, and the early return |
| `Write`, `Land`, `Revert` | prior contents and apply; the landed debt enters the cache; a checker refuses |
| `Tear` | an I/O error or the end of the process in `apply_pending` or `restore` |
| `Restart`, `Edit` | a process starts again with another configuration; a program that ignores the lock |

`Reach` and `Broken` are the definitions the module comment of `integrity.rs`
gives, without an algorithm: the least set of documents that has the root and is
closed under links. What the search finds is compared with them.

### 2.5 DocGraph

State: one record `graph`: `docs` is what each document says, as the set of its
links; `edges` is the link index (`graph/index.rs`), `buckets` the keys by their
last segment, `resolved` and `shortened` the answers the key index remembers. A
key is a sequence of path segments and a segment has a lower case (`Fold`). A link
names its target by key or by a written name; inclusions, references and the
frontmatter fields declared as keys differ.

| Operator or action | Code |
|---|---|
| `Build`, `Put`, `Drop` | import, insert and update, and removal of documents with their index entries and what they forget |
| `Fitting`, `Among`, `Resolve` | `key_index.rs`: exact suffix, then any case, then the first key of the bucket |
| `Shorten` | the shortest suffix that fits no other key |
| `Consult` | the memo: what an operation asks is remembered, also while it reads |
| `EdgesTo`, `Referrers`, `FrontmatterReferrers` | who links to a key |
| `DeleteChanges`, `MergedDelete`, `RenameChanges`, `ExtractChanges`, `InlineChanges`, `AttachChanges` | the change sets of `operations/` and of `cascade.rs` |
| `Write`, `Delete`, `IweDelete`, `Rename`, `Extract`, `Inline`, `Attach` | the tools, with their refusals, as one step |
| `ReadEdges`, `Show`, `Load` | readers, which fill the memo; a fresh start |

`ReadEdges`, `Show` and `Load` do not use up the bound `MaxSteps`: any number of
reads, in any order, comes before and after an operation.

### 2.6 Watch

State: `disk` and `graph`; `raised`, `probing`, `channel` are the platform's events,
the file whose existence the dispatcher is about to ask, and the keys sent on;
`inbox` the editor's messages, `buffer` what the editor shows; `opened`, `index`,
`dirty`, `hinted`, `refreshing` the fields of the language server; `call`, `staging`,
`snapshot` what holds or waits for the MCP server's graph lock; `todo` and `got`
the keys being reloaded and what reading one returned. `server` chooses the server.

| Action | Code |
|---|---|
| `LoadDocument`, `StartWatching` | the initial load, file by file, and then the watcher |
| `Dispatch`, `Probe` | the watcher's callback: read the file, or ask whether it exists |
| `ReloadRead`, `ReloadApply` | both servers: read the file, compare, change the graph |
| `Open`, `Change`, `Save`, `Close`, `Report`, `AskForHints`, `Refresh` | the editor |
| `DidOpen`, `DidChange`, `DidClose`, `DidChangeWatchedFiles`, `InlayHints`, `OnFsEvent`, `IdleRebuild` | the turns of the language server's `select!` loop |
| `TakeBatch` | the MCP server's batch under the graph lock |
| `ToolStart`, `ToolWrite`, `ToolFail`, `ToolReturn` | a write tool: disk first, file by file, memory last |
| `BeginDefault`, `Stage` | the stdio server's default transaction, which stages in the live graph |
| `AbortTake`, `AbortRead`, `AbortReplace` | its abort: taken out under the graph lock, the store read file by file without it, the graph replaced under it |
| `Outside` | any other program |

### 2.7 Argue

State: `docs` is the parsed argument graph; `phase`, `at`, `changed` are the
positions of the two loops of `argue`, one document per step; `strength` and
`status` what they compute, updated in place as in the code.

| Operator or action | Code |
|---|---|
| `Premises`, `Attacks`, `Defeats`, `DeniesAxiom`, `Carriers` | what counts as a ground and as a live attack, siblings that assert the same |
| `Weigh`, `Weighed` | the weakest-link loop and the end of one of its passes |
| `Label`, `Labelled`, `Verdict` | the labelling loop |
| `HangsOn`, `InRoot` | `diagnose`: what keeps an undecided document open, and the cycles at the root of it |

### 2.8 Query

No state: operators over a graph of `DocGraph`, with its link index and its resolution
of names. `Form` gives what stands at each node of a filter expression; what a test
(`field`, `key`, `standing`) says of a document is data. A recursive function holds
the results of all parts, by filter and scope.

| Operator | Code |
|---|---|
| `Outbound`, `Inbound` | one step along inclusions, references, or the links in the blocks of a `via` (`ViaWalk::targets`), and one step back by the index |
| `Walk`, `Related` | the breadth-first searches of `walk.rs` and `via.rs`, and the band of distances asked for |
| `EvalAnd`, `EvalOr`, `EvalNor` | the connectives: generators first, then tests on what is left |
| `EvalExists`, `EvalCount` | a relation without and with `$size` |
| `Holds`, `Eval`, `Evaluation` | the tests, `eval`, `evaluate` and `evaluate_within` |

`$content` differs from `field` only for a key without a document, where the code
panics (section 3.3).

## 3. Runs

### 3.1 Passing runs

| Run | Instance | What it shows |
|---|---|---|
| `lock_safety` | 2 processes, 2 acquires, clock may be set, I/O errors and crashes anywhere | fencing, no ghost hold, only the owner frees, the refinement of `FencedLock` with its growing generations, every `acquire` returns |
| `lock_timely` | 2 processes, 3 acquires, one may be stopped anywhere, clock untouched | a holder that keeps touching within the margin is never superseded |
| `commit_validated` | 2 validated writers, 2 keys, 2 documents of which one links, no takeover of a live hold | no lost update, no write skew through links, a refusal restores |
| `commit_mixed` | a validated and a plain writer, both orders of checking and staging, keys staged again, a frozen document, a key out of scope, a schema that prohibits a removal, I/O errors, one crash, one stall | a refused rewrite lands through no gap but the one between its check and its baseline, only landed commits are journaled, every hold ends |
| `tx_guard` | a session and an explicit handle, reaper, one restart, failing saves, another program | no stray write, what has to be remembered is, isolation, no lost update |
| `tx_commit` | one session, 5 requests, a text that rendering gives back and one that it does not, lock refusals with retries, expiring tombstones | the commit lands what was staged last, word for word, or as the graph renders it where an attempt was refused before; effects are net changes, every request is answered |
| `integrity` | 2 processes with 3 configurations, 3 keys, 2 commits, one restart, one outside edit, one torn write | the gate is exact whatever the cache holds, debt never grows by commits, commits end on circular links |
| `documents` | keys `a`, `A`, `d/a`, `b`; stores of up to three documents with up to three links of seven; any reads, then one operation of each kind | indexes and remembered answers are those of a fresh graph, a rename keeps every link's meaning, nothing is broken; over each store 16 nested filters: a scope of documents restricts and does nothing else, a relation is the same from either end |
| `watch` | both servers, 2 documents, 2 texts, unreadable files, 2 changes, 2 further messages or calls | open documents win, derived views are never silently old, a finished write is seen, graph and disk agree in the end |
| `argue` | 4 documents in three patterns of kinds, with every arrangement of grounds and targets from small sets | the loops end, in the grounded labelling and the weakest-link strengths; the root cycles explain what is undecided |

Bounds, and why they are enough for what is asked:

- *Processes: 2.* The promises relate a writer to one other writer; a third adds
  only another choice for "the other". The proofs hold for any set.
- *`StaleAfter`, `AcquireTimeout`: 1 or 2 ticks.* They are only compared with
  ages and deadlines; one tick on each side of the comparison reaches both
  outcomes. Ages saturate just above the larger bound (`MaxAge`), which no
  comparison can tell from older ones.
- *`MaxCalls` 2 and 3.* One hold and one takeover, and after a takeover a third.
- *Keys: 2, documents: 2 in CommitStore.* Write skew needs two keys, a document
  that links and one that does not. *`MaxTx` 2* is one commit against another.
  `commit_mixed` starts with an ordinary and a frozen document; its rules are those
  of `Permissions`, with a permissive schema bound to both keys and another that
  prohibits the removal of `a`.
- *`MaxStalls`, `MaxCrashes` 1.* Every phase of one commit can be the one that is
  interrupted; a second fault would repeat it from a state the first can reach.
- *One key in TxServer.* The guards are per handle and the write sets per key;
  keys do not interact in the code. *`MaxSent` 4 or 5* is begin, two or three
  writes, commit, and a request of somebody else. *`raw`* in `tx_commit` and `tx_retry` is a
  text whose rendering is `d0`; in `tx_guard`, where no commit is retried and two
  handles and another program write, one text is enough to tell what was staged.
- *Three keys in Integrity.* A root, and two documents that link to each other: an
  island, a cycle the search can enter, a chain with a broken link. Two commits
  are one that fills a cache and one that finds it filled; in between the store
  may change by the other process or by an edit.
- *Four keys in DocGraph*, of which three share a last segment, one of them only by
  its case: a short name fits several keys, a longer name one, and a removal or a
  rename changes which is first. *`MaxSteps` 1*: the properties relate the graph
  before and after one operation, and the reads before it fill the memo; what a
  second operation may start from is another store of the instance. `IndexIsExact`
  is proved for any number of operations. *`MaxTargets` 1*: bulk deletion of two
  is in the model and breaks links (section 3.3).
- *Sixteen filters in Query*: every operator, relations of both kinds in both
  directions, with one step, with two or more and with any number, each connective
  over relations and over other connectives, and one relation whose match has a `via`, so
  that it can have anchors that are no documents. Twelve of the stores have chains and circles
  of three documents to walk. They are evaluated over each store as it is loaded;
  `IndexIsExact` makes the graph after any operation one that could have been loaded.
- *Two documents and two texts in Watch.* A document that exists and one that does
  not, a text and a newer one. *`MaxWrites` 2* is a change that meets a change;
  *`MaxSent` 2* is an open and a request, or a tool call and an abort.
- *Four documents in Argue*: an attack cycle, a support cycle and something that
  hangs on both. The patterns of kinds place objections before and after what they
  attack in the order of keys, which is the order in which the loops update.
- The history variables (`granted`, `shown`, `asked`, …) record what happened and
  no guard reads them.

`Finished` lets a bounded model stutter when its budget is used up, so that
deadlock is checked in every run: no handler waits for ever.

### 3.2 Runs that disagree with a document or a comment

| Run | What TLC finds | What the code says of itself |
|---|---|---|
| `tx_retry` | a commit refused by the lock is staged again with baselines of today; its retry overwrites a change made since the agent staged | "refuses … if a staged document changed on disk since it was staged" (`iwec/src/lib.rs:2334`) |
| `watch_abort` | the reload after an abort of the default transaction reads the store before it takes the graph lock; a tool that writes in between has its write on disk and not in the graph, and no event need follow (`iwec/src/lib.rs:3468`–`3481`, called at 2492, 2562 and 3078) | "A call that starts after an MCP write returned sees that write." (`docs/mcp.md:200`) |

### 3.3 Seen while modelling

Stated in the models and known to fail; TLC refutes each within a minute when the
property is added to the cfg named here:

- `CommitStore!JournalInOrder` (`CommitValidated.cfg`, `CommitMixed.cfg`): two
  validated commits read the same last record after they dropped the lock and
  append the same sequence number, against "held across … apply and
  journal-append" (`validating_transaction.rs:889`, `write_lock.rs:6`). On the
  plain path, which journals inside its hold, only a crash breaks it: between a
  record and its newline, or inside the record (`journal.rs:179`); the next process
  starts again at 1, against "a restart must not reset the sequence back to `1`"
  (`journal.rs:189`).
- `TxServer!TombstoneTruth` (`TxGuard.cfg`): the daemon dies after the backend's
  commit and before the record is rewritten; the tombstone then says that "none of
  its staged writes were applied" (`durable.rs:306`) of writes that are on disk.
- `TxServer!NoStrayWrite` with `Pipelined = TRUE`: during a commit the handle is in
  no table (`lib.rs:2346`); a write of the same session lands directly, then the
  commit is refused and the transaction reopens, against "Keeps an agent's writes
  from silently landing outside a transaction it believes is open" (`lib.rs:961`).
  Clients that wait for their answers are safe, which `tx_guard` shows.
- `TxServer!CommitLandsStaged` (`TxCommit.cfg`): a commit that the lock refused has cleared
  the backend, and every key is staged again from the transaction's graph "so the backend
  has the same pending writes to try again" (`iwec/src/lib.rs:2457`–`2458`). They are
  not the same: `export_key` (2465) renders the graph, so a text that differs from its
  rendering (`raw`) lands rewritten. `CommitLandsAsked` says what does land, and is
  checked and proved; that the two agree where rendering changes nothing is
  `CommitsLandExactly`.
- `DocGraph!NothingBreaks` with `MaxTargets = 2`: each target's changes come from
  the same graph and the merge keeps the last update of a document
  (`changes.rs:48`–`75`), so a document that links to both targets keeps a link to
  one of them, against "no broken references remain after" (`docs/cli-delete.md:50`).
- `Argue!EverythingHasRoot` (`Argue.cfg`): a claim that rests on an out premise
  whose sibling is undecided is undecided itself, is in no root cycle and hangs on
  none, because only undecided premises are followed (`argue.rs:1079`).
  `RootsExplain` is the same for stores where no two documents assert the same.
- `Query!ViaAgrees` (`DocGraph.cfg`): with `via`, links are followed forwards over
  inclusions too and to keys without a document (`targets_within`,
  `block_eval.rs:141`), and backwards only over inline references
  (`get_reference_edges_to`, `via.rs:57`). So `$references: {match, via}` finds no
  document that links by an inclusion, which the same with `$size: {$gte: 1}` counts,
  against "By default a relational operator holds when at least one document stands in
  the relation" (`docs/query-language.md:148`). `DirectionsAgree` is the same without
  `via`, for matches that are documents: where the match of a relation has a relation with
  `via` in it, it can be a key without a document (below), whose referrers the index
  finds and a walk from them does not.
- `Query!OnlyDocuments` (`DocGraph.cfg`): for the same reason
  `$referencedBy: {match, via}` finds keys without a document; a `$content` beside it
  then panics (`collect`, `graph.rs:953`).
- `Query!ScopedAnywhere` (`DocGraph.cfg`): `evaluate_within` says "exactly
  `evaluate(filter) ∩ scope`" (`eval.rs:29`), but a key of the scope without a document
  satisfies a negation, an `$exists: false` or an empty filter. Its only caller passes
  the targets of a document's links, broken ones included (`this_filter_set`,
  `diwe/src/schema.rs:1092`). `ScopedIsRestricted` is the same for scopes of documents.
- `CommitStore!NoRefusedRewrite` (`CommitMixed.cfg` with `MaxTx = 3` and an initial
  store where `a` is frozen): the permission check and the reading of the baseline
  are two reads of the file (`validating_transaction.rs:338`–`359`, and in the other
  order `iwec/src/lib.rs:3318`–`3345`). A document frozen between them is overwritten:
  the check saw it unfrozen, the baseline is of the frozen text, and the commit finds
  no conflict. A key staged again keeps the baseline of its first staging and is checked
  anew (`:868`–`878`), which widens the window. The rule is "a write to a document that is frozen *as it stands before
  the write* is rejected" (`permissions.rs:545`). `LandedWritesPermitted` is the same
  without this window (`SlippedBetween`), and proved.

What theorems of `PermissionsProofs` say of the rules, where a document says otherwise:

- `FrozenRemoval`: a frozen document that holds nothing but the marker may be removed,
  also where a schema says `deletable: false`. A removal hands in `""` (`fs.rs:514`,
  `validating_transaction.rs:380`), which for such a document looks like lifting the
  freeze and nothing else, and that is accepted before `deletable` is asked
  (`permissions.rs:662`–`669`). The document: freeze "rejects every write to that
  document […] unconditionally" (`docs/document-schema.md:462`).
- `ImmutableStays` holds also where there was no document: a field marked
  `mutable: false` can never be set by a write, not at creation either, while
  the documentation gives "an `id` set once at creation" as the use of the keyword
  (`docs/document-schema.md:498`).
- `RemovalByDeletable`: only `deletable` speaks about removing an unfrozen document.
  `docs/document-schema.md:540` says so too; `docs/cli-delete.md:214` says that the
  command fails when a "schema marks `$content` immutable".

Exceptions written into a property, because the code behaves so:

- `NothingBreaks` exempts an inlining that removes its target: links of other
  documents that the target's inclusion leaves (`inline.rs:75`–`97`), self links of
  the inlined body, and frontmatter fields that name the target are not rewritten
  (compare `docs/cli-inline.md:263`).
- `ReadYourWrites` and `Converges` exempt documents in `missed`: a change between
  the load of a file and the start of the watcher is not seen by anybody, and the
  reload of `watch_abort` undoes one.
- `iwe_delete` of a document that links to itself writes it again after removing
  it: its change set holds an update and a removal of one key (`lib.rs:1684`–`1707`).
  `MergedDelete` drops that update, `IweDelete` does not.

Seen in the code, not stated by a property:

- a document's title in the graph is replaced only by another title, so one that
  loses its heading keeps the old one (`ingest_document`, `graph.rs`);
- extract and create may take over a short wiki name of another document, as only
  rename guards against it; the language server's rename and delete do not follow
  frontmatter fields, the cascade is called by the other two programs only;
- after a failed write the MCP server does not read the documents again, as
  `docs/mcp.md:202` says it does; the watcher's events repair it later;
- `notify`'s rescan flag and renames of a directory raise no event per file;
  `did_change` applies only the first of several content changes.

Present in the models, where no sentence of the code promises the opposite:

- the blocking flock inside `acquire` is outside its timeout
  (`iwe-lock/src/lib.rs:139`): with `MaxHangs` above 0 `BoundedWait` fails;
- the only fence of a validated commit is before its first write
  (`validating_transaction.rs:810`), the restore is not fenced: a holder that
  stalls there writes after a takeover. Lock holders "must" be faster than
  `stale_after`, and the promises below are conditioned on that (`stalls = 0`);
- a begin that passed the drain check may open a transaction after the flag was
  set (`iwec/src/lib.rs:2238`); the next start makes it a tombstone;
- a write and a begin of one session sent together may mutate one graph and
  stage in the other (`iwec/src/lib.rs:3531`): TLC refutes `Isolation` with
  `Pipelined = TRUE`. It is checked and proved for clients that send control requests
  alone.

## 4. Fairness

- `FileLock!FairSpec`: the threads of a process that is not stopped keep running
  (weak fairness of the parts of acquire, heartbeat and drop); a thread that
  waits for the flock gets it in the end (strong fairness of the steps that take
  it, since the kernel queues waiters); time passes (weak fairness of `Tick`).
  Nothing is assumed of crashes, errors or clients.
- `CommitStore!FairSpec`: a process inside a commit keeps taking steps.
  A wait for the lock ends, in a hold or a refusal, by `BoundedWait` of
  `FileLock`. No client has to commit, and no fault has to happen.
- `Integrity!FairSpec`: a process inside a commit keeps taking steps, wherever in
  the queue of the search it is.
- `TxServer!FairSpec`: the task of each request is polled again and again
  (`WF` of `Serve(r)`). That is enough although the graph's mutex is contended,
  since tokio's mutex is fair and a bounded number of requests competes for it.
- `Argue!FairSpec`: the function is run to its end (`WF` of `Next`).
- `Watch!FairSpec`: the watcher's thread and the reload under way go on; the
  language server handles messages and events, which `select!` picks at random
  among the ready ones; its index timer fires when nothing else is ready; the MCP
  server's batch task, a tool call and an abort go on. Nobody has to write, open,
  save, close or ask, and the platform reports what it reports in order.

## 5. Proofs

All theorems are checked by TLAPS to the last leaf and assume only the named
assumptions on the constants: `LockConstants` and `SafetyMargin` (`stale_after`
is at least the real heartbeat period, the margin `lib.rs` asks of its caller),
`StoreConstants`, `IntegrityConstants`, `ServerConstants` and `NoneIsNone`,
`GraphConstants`, `ArgueConstants`, `QueryConstants`, `WatchConstants`. What a theorem
assumes beyond them is its ASSUME, and is explained below. The sets of processes, keys and documents, the link
relation, the permission relation and all bounds are arbitrary.

### 5.1 FileLockProofs

`TypeCorrect`, `Fencing`, `ReleaseIsFinal`, `GenerationsIncrease`, `OwnerFrees`,
`TimelyHolder`, `Refinement`.

The invariant is `SafetyInv`. `GuardsAreFenced` alone is not inductive: a thread
that has decided to write the record must be the only one inside the flock
(`FlockDiscipline`: program positions and the flock agree), a generation may be
handed out only if the disk has reached it (`HistoryIsBehindDisk`), and the
record of a current guard must not be free (`CurrentGuardHolds`), which is what
a heartbeat that outlives its guard would break. The clock plays no part: fencing
holds however it is set. `TimelyHolder` needs it, and a second invariant,
`TimelyInv`: the record of a timely hold is exactly as old as its stamp, hence
never free, hence nobody can have decided to take it over.

`Refinement` maps `disk` to `last` and `free` and each guard to its token. The
steps inside an acquire are invisible; the write of the record is a `Grant`, a
`Reclaim` or, when the sync fails afterwards, a `GrantWithoutGuard`.

### 5.2 CommitStoreProofs

`StoreTypeCorrect`, `NoUpdateLost`, `NoViolationIntroduced`, `RefusalIsClean`,
`RefusedRewritesStayOut`, `JournalNamesLanded`.

- `TypeOK /\ LoopInv`: the loops run over staged keys only; without `LoopInv`
  an apply could write the marker for "not staged".
- `HoldInv`: guards exist exactly at the positions that hold one, tokens are
  distinct, and while no live hold was taken over the guard is the current one.
  It follows that one process at most is between grant and release.
- `PhaseInv`: what each position of a validated commit has established about the
  store since the grant (unchanged, partly applied, applied, partly restored).
  A step of another process preserves it because by `HoldInv` nobody else is
  at a position that writes (`PhaseOfOthers`, `StoreWriter`).

No lost update, no violation introduced and the clean refusal follow from
`PhaseInv` by cases on the position. They are conditioned on `stalls = 0` and
proved for every `MaxStalls`: a history without a takeover of a live hold keeps
them, whatever else crashes or fails. Two more invariants carry the other two:

- `JudgedInv` and `PlainInv`: what is staged was permitted for the content it was
  judged against; on the plain path, what has been written so far was permitted
  for the content at the grant. With `PhaseInv` (the baseline is the content at the
  grant) a validated commit that lands a refused rewrite was judged against
  something other than its baseline, which is `SlippedBetween`.
- `JournalInv`: numbers of transactions are handed out once, and one that is about to
  be journaled has landed and is named by no record. It does not ask who holds the
  lock, so `JournalOnlyLanded` also holds after takeovers.

### 5.3 IntegrityProofs

`TypeCorrect`, `GateExact`, `NoDebtAdded`.

- `SearchInv`: the search has found only what can be reached, and everything that
  one link leads to from what it has visited. With an empty frontier that makes
  its result closed, so by `ReachClosed` and the minimality of `Reach` it is
  `Reach` (`SearchComplete`). No induction over paths is needed.
- `CacheIsTruthful`: each entry is the debt of the state and context it is kept
  under, so a hit and a search say the same.
- `DebtInv` carries both to the judgement: what was compared is what the
  definitions would have compared, also where the debt before was left out
  (`NoNeed`).
- `StoreInv`: undisturbed, the store is what the commit read, so what was judged
  is what is written and `PassedNoWorse` applies to it.

`IntegrityConstants` asks for markers that are not documents (`Unset` is not an
options value either, else an empty cache could look like a hit).

### 5.4 TxServerProofs

`TypeCorrect`, `BelievedIsRemembered`, `WritesStayInside`, `CommitsLoseNothing`,
`StagedStaysPrivate`, `CommitsLandWhatWasAsked`, `CommitsLandExactly`, `EffectsAreNet`.

- `Core`: types, the positions each kind of request runs through (`ShapeInv`), a
  client with one control request under way or any number of writes
  (`ExclusiveInv`), a transaction in one place, open under one handle or taken by one
  commit (`IdInv`), and nothing in memory while the process is down (`DownInv`).
- `RouteInv`, `FileInv`, `ToldInv` for the first two promises: a write that found its
  transaction finds it open still, and one that found none finds none; the state file
  has every open or committing handle; what a client was told is open is open, has a
  tombstone or is being committed.
- `StagedInv`: a private graph has what is staged, or the staged text is its
  rendering (`Mirrors`). With it the shared graph has nothing but what its key has
  had on disk, as it was written or as the graph renders it; `ShownInv` says that the
  record of those contents (`shown`) includes the present one.
- `SeenInv`: the backend has what the client asked for and saw (`Agrees`). A commit
  compares baselines with the disk, so it loses nothing.
- `FaithfulInv` for what a commit lands: what is staged of a key is what was last asked
  for it, or, once the transaction was reopened, its rendering; and the recorded
  effect says whether it is a text or a removal (`Keeps`). `PlainInv` carries it while
  a write is between its two halves: the graph it has changed is that of the
  transaction it will stage in. `CommitsLandWhatWasAsked` is what a retry leaves true
  (`restaged` records which keys a retry wrote); `CommitsLandExactly` is
  `CommitLandsStaged`, and needs that rendering gives every document back. Without
  that, a retry lands the rendering (3.3).
- `TracksInv` for the words of the journal: a key's baseline is the disk's content, and
  its effect is the net one of that baseline and what is staged (`Tracks`); after
  a write that was taken back there is none. `EffectsAreNet` assumes one
  handle and no other writer (`Alone`): TLC refutes `NetEffects` with a second handle or
  `MaxOutside = 1`. Of a file that another program put there after the transaction
  was opened, the change set of a write says "create", as the transaction's graph
  does not have it, while the backend's baseline, read at staging, does; the commit then
  replaces the file and the journal says it made it.

The other assumptions are the cases in which TLC refutes the property (3.2, 3.3): clients
that send control requests before an answer (`Pipelined`), tombstones that expire
(`Expiry`), a commit lock that refuses and makes the server stage again
(`LockMayFail`). Each theorem assumes away only those it needs.

### 5.5 DocGraphProofs

Of `DocGraph`: `TypeCorrect`, `IndexExact`, `RenamesFollow`, `NoneBreaks`.

`IndexExact` is inductive once every remembered answer is known to be the one a fresh
key index gives. The step is `ResolveLocal` and `ShortenLocal`: an answer depends only
on the keys with the last segment of what was asked, so forgetting that bucket when a
key comes or goes is enough. `RenamesFollow` goes link by link: a written name that
led to another document still leads there (`RemoveOther`, `FullKey`), and one that
led to the renamed document is written anew by `ShortenLeads` (`LinkFollows`).

`NoneBreaks` rests on one fact: a link leads somewhere as long as the document it led to
is there, whatever else came or went, as the bucket of its name is not empty
(`StillGoes`). So a link can break only when it led to the one document that goes, and
the index, being exact, names every document that held such a link
(`NotReferrer`); those are cleaned (`CleanedIsKept`), and the frontmatter fields, which the index
does not have, make the deletion refuse. A link that a rename leaves without a
target is one it did not rewrite. The theorem is for `MaxTargets = 1`, the
value of the run: with two targets TLC refutes the property (3.3).

Of `Query`: `EvaluationIsDefined`, `WithinIsIntersection`, `ScopedAlways`, for any graph, any
filters of any depth and any set of documents; `WalkFinds`, `DirectionsAlwaysAgree`. The one assumption beyond the constants is
that the operands of filters form no infinite chain (`IsWellFoundedOn(Operand, Filter)`),
which is so of any expression that was parsed.

An induction over filters is needed twice, and since the induction theorems of the
library take an operator, both are arguments by a minimal counterexample (`WFMin`).
First, the recursion of `eval` has a solution: the solutions over sets of filters
that are closed under operands agree (`Unique`), so together they are one
(`JoinedSolves`), and a smallest filter that none of them covers could be added
(`AllCovered`); each step needs that `eval` looks at the results of operands only
(`Local`). Second, a smallest filter that a scope does not restrict has operands
that it does, and each operator keeps that: a negation because it asks its
operands within the whole store where it has no scope (`NorWithin`), a relation
because its matches are looked for without the scope (`ExistsWithin`, `CountWithin`).

`WalkFinds` and `DirectionsAlwaysAgree` are about the searches. `Walk` is a loop whose
queue is filled in any order, and its distances are compared with a definition by paths:
`Found` has the documents that a path of at most `max` steps leads to, each with the
length of a shortest one (`Far`). A loop written as a recursive function has a
solution whether it stops or not (`LoopIsDefined`), so what `Walk` is follows step
by step (`SearchIs`). The invariant of a step is `Searched`: all that was found is in `Found`, the
queue has two distances at most, the smaller first, and all that is beside a found
document that has left the queue was found. From it, whatever is no farther than the
head of the queue has been found (`NearIsFound`, by the nearest one missed), hence what
is fresh beside the head is one farther and no nearer (`SearchGoesOn`), and an
empty queue means that all was found (`SearchEnds`). The search ends because each step
finds something, or shortens the queue (`SearchShrinks`).

The rest of `DirectionsAlwaysAgree` is that a step backwards is a step of the index
(`Turned`: the index is exact, and a link that leads to a document has it as its
target) and that paths turn around with it (`FarBack`), distances included. It assumes that the
stores loaded are finite; that is all a relation without `$size` needs, whatever
its match is made of, as long as it holds of documents.

### 5.6 ArgueProofs

`TypeCorrect`, `WeighedByWeakestLink`, `GroundedAnswer`, `RootsAlwaysExplain`.

Both loops update in place, in the order of keys. As long as a pass has changed
nothing, the invariants (`WInv`, `GInv`) say of each document it has passed that the
rule has nothing to change there; a pass without a change is therefore a fixpoint.
The other half is what each update keeps: a strength is always that of some ground,
so it never falls below the weakest one; and a label that is given is one that every
labelling that obeys the rules gives (`Forced`). Neither needs induction over the graph.

`RootsAlwaysExplain` is about the finished answer. Complete labels leave an undecided
document only where some undecided one attacks or carries it (`UndecidedHangs`), if no two
documents assert the same, so every chain of undecided documents can be continued. Of all
documents behind one of them, one with the fewest behind it has each of those behind it
reach it back: it is in a root cycle (`SomeRoot`, by `LeastNat` over
cardinalities).

### 5.7 PermissionsProofs

`FrozenStands`, `ImmutableStays`, `RemovalByDeletable`, `FrozenRemoval`,
`LastPatternDecides`. They are statements about the operators, for every document,
rule set and key: a write that passes on a frozen document changes nothing but the
marker; an immutable property has the value it had; what decides about a removal,
of a frozen document and of another; an appended pattern overrules the others.

### 5.8 WatchProofs

`TypeCorrect`, `EditorAlwaysWins`, `DerivedViewsFollow`, `FinishedWritesAreRead`,
`NothingIsOverlooked`, for any documents, texts, disks and bounds, and for either server.

- `TypeInv`: types, and the queue of messages is a sequence of messages.
- `Discipline`: the editor talks to the language server only and tools are called of
  the MCP server only; nothing is served before the load is complete.
- `EditorInv`: read in order, the messages about a document that are still in the queue
  lead from what the server holds of it to what the user sees (`Kept`). Each message
  handled shortens the queue and keeps that; a reload of an open document changes
  nothing. `EditorWins` is the case of no message left.
- `IndexIsFresh`, `HintsKnow`: every step that changes the graph marks the index
  dirty, and one that changes which documents there are asks the editor to ask again,
  or finds the question on its way.
- `SeenInv`: until somebody else writes the file, a reload that has read a document
  that a finished call wrote has read what the call wrote.
- `NoticedInv`: what the disk has and the graph has not is under way: raised,
  in the channel, in the batch, in a reload, or in the tool call that wrote it.
  `NothingIsOverlooked` is the state in which nothing is. It is the safety half of
  `Converges`; that such a state comes, under the fairness, is left to TLC.

### 5.9 Model-checked only

Liveness (`BoundedWait`, `HoldsEnd`, `CommitsEnd`, `Answered`, `Answers`, `Converges`)
is out of the prover's reach. Every safety property of the passing runs is a theorem, under
the hypotheses named above. In the other direction, the type invariants of `Argue` and `Integrity` are proved and no run
repeats them, as are `CommitsLandExactly` and `NothingIsOverlooked`.

## 6. What is not modelled, and why

The map covers the code that keeps state, writes, or decides. Most of the rest turns
text into trees and back, or prints, and has no state to reach.

- Text: readers, writers, normalising, squashing, sorting, rendering. Documents are
  values; the round trip of a document through the graph is the function `Rendered`.
- The rest of the query engine: the syntax of filters, what a test says of one
  document's frontmatter or blocks, projections, sorting and limits, and updates, which
  compute the new text of one document at a time and write it through the change sets
  modelled here.
- Schemas beyond `mutable`, `deletable` and their bindings: what a schema or another
  checker says about a state is open, `CheckersFail` may happen at any apply. Links
  are real, since write skew is about them.
- Search, statistics, retrieval, the hooks for agents, code actions of the editor:
  reports computed from a graph.
- Store set-up (`init`): files written once, before there is anybody to interfere.
- HTTP sessions: one file per session, touched and pruned, read by nobody else.
- Collisions of the 64-bit digest under which debt is cached, and the time it
  takes to read a whole store: `Begin` reads it in one step.
- Directory pruning, path checks, gitignore filters; argument parsing, wording.
- The trigger's child process beyond the hold it runs under.
- `iwe_create` with a link from another document: two documents written in turn, as
  `Watch`'s tool calls do, with text made by the writers.
- Two different `.iwe` directories over one store: the code locks per store path.

## 7. Plan

1. *Sessions and trigger*: session files across restarts; the child's timeout and kill
   inside the hold. Both are small and would share one module and run.
2. *Query engine*: block predicates and block updates (`block_eval.rs`,
   `block_update.rs`) over bounded trees of blocks, compared with set definitions.
3. *Proofs*: that the walks with `via` find what paths over the selected links reach follows
   from `WalkFinds`; what they do guarantee between their two ends is to be stated.

## 8. Running

    tlc -workers 2 -config FileLockSafety.cfg MCFileLock.tla
    tlapm FileLockProofs.tla

Each run's module and cfg are in `PROJECT.json`; every passing run ends within
five minutes. For each property of a passing run `PROJECT.json` also names a
mutant: a definition of the model changed as a plausible bug in the code would
change it, under which TLC finds the property violated.
