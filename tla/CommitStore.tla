----------------------------- MODULE CommitStore -----------------------------
(***************************************************************************)
(* Commits of several processes into one on-disk store: the validating     *)
(* transaction (diwe/validating_transaction.rs), the plain write path      *)
(* (diwe/fs.rs over NoopTransaction), the journal (diwe/journal.rs) and    *)
(* the commit trigger's hold (diwe/commit_trigger.rs).  The commit lock is *)
(* the fencing-token service of FencedLock, which FileLock implements.     *)
(*                                                                         *)
(* A document is a value; what the code asks of it is which keys it links  *)
(* to (Links) and which rewrites of it the permission rules refuse         *)
(* (Refused).  A process whose configuration has a [transactions] backend  *)
(* is in Validating; the others write plainly.                             *)
(***************************************************************************)
EXTENDS FencedLock, Sequences

CONSTANTS
  Key, Doc,
  Links,        \* Links[d]: the keys document d links to
  Refused,      \* triples <<key, before, after>> the permission check refuses
  Denied,       \* keys outside the write scope of [transactions]
  Validating,   \* processes that write through ValidatingTransaction
  InitialStores,\* stores the model starts from
  Absent,       \* no file
  Torn,         \* a file whose write was cut short
  Unset,        \* key not staged
  MaxTx,        \* bound: transactions
  MaxStalls,    \* bound: takeovers of a hold whose process still runs
  MaxCrashes,   \* bound: process deaths
  IoMayFail     \* may a write to the store, the journal or the lock fail?

Content == Doc \cup {Absent, Torn}

ASSUME StoreConstants ==
  /\ Links \in [Doc -> SUBSET Key]
  /\ Refused \subseteq Key \X Content \X Content
  /\ Denied \subseteq Key
  /\ Validating \subseteq Proc
  /\ InitialStores \subseteq [Key -> Content]
  /\ Absent \notin Doc \cup {Torn, Unset}
  /\ Unset \notin Doc \cup {Torn}
  /\ IoMayFail \in BOOLEAN
  /\ MaxTx \in Nat /\ MaxStalls \in Nat /\ MaxCrashes \in Nat

VARIABLES
  store,        \* the documents on disk
  journal,      \* what was appended to the journal file: records and newlines
  pc,
  txno,         \* number of the transaction a process runs
  pending,      \* staged writes: content, Absent for a removal, or Unset
  baseline,     \* what a staged key held on disk when it was first staged
  judged,       \* history: what it held when the permission check read it
  prior,        \* what the touched keys held just before the apply
  todo,         \* touched keys the running loop has not reached yet
  cur,          \* the document the plain loop is about to write
  seq,          \* the sequence number next_seq returned
  started, stalls, crashes,   \* counters (bound the model)
  atGrant,      \* history: the store when the process was granted the lock
  landed        \* history: transactions whose commit succeeded

locals == <<txno, pending, baseline, judged, prior, todo, cur, seq>>
counters == <<started, stalls, crashes>>
storeVars == <<lockVars, store, journal, pc, locals, counters, atGrant, landed>>

PC == {"idle", "open", "permit", "checked", "wait", "check", "validate", "fence", "prior", "apply",
       "verify", "restore", "next", "write", "landed", "refused", "failed",
       "seq", "text", "newline", "trigger", "triggered"}

\* What an append can leave in the journal file: a record, the newline that ends
\* its line, or the beginning of a record.  Sequence numbers start at 1.
Entry == [seq : Nat, tx : Nat]
Newline == [seq |-> 0, tx |-> 0]
Fragment == [seq |-> 0, tx |-> 1]
IsRecord(e) == e.seq # 0

Store == [Key -> Content]
Nothing == [k \in Key |-> Unset]
Staged == [Key -> Content \cup {Unset}]

TypeOK ==
  /\ last \in Nat /\ free \in BOOLEAN /\ token \in [Proc -> Nat]
  /\ store \in Store
  /\ journal \in Seq(Entry)
  /\ pc \in [Proc -> PC]
  /\ txno \in [Proc -> Nat]
  /\ pending \in [Proc -> Staged]
  /\ baseline \in [Proc -> Staged]
  /\ judged \in [Proc -> Staged]
  /\ prior \in [Proc -> Staged]
  /\ todo \in [Proc -> SUBSET Key]
  /\ cur \in [Proc -> Key \cup {Unset}]
  /\ seq \in [Proc -> Nat]
  /\ started \in Nat /\ stalls \in Nat /\ crashes \in Nat
  /\ atGrant \in [Proc -> Store]
  /\ landed \subseteq Nat

Init ==
  /\ LockInit
  /\ store \in InitialStores
  /\ journal = <<>>
  /\ pc = [p \in Proc |-> "idle"]
  /\ txno = [p \in Proc |-> 0]
  /\ pending = [p \in Proc |-> Nothing]
  /\ baseline = [p \in Proc |-> Nothing]
  /\ judged = [p \in Proc |-> Nothing]
  /\ prior = [p \in Proc |-> Nothing]
  /\ todo = [p \in Proc |-> {}]
  /\ cur = [p \in Proc |-> Unset]
  /\ seq = [p \in Proc |-> 0]
  /\ started = 0 /\ stalls = 0 /\ crashes = 0
  /\ atGrant = [p \in Proc |-> store]
  /\ landed = {}

-----------------------------------------------------------------------------
(* Helpers *)

Touched(p) == {k \in Key : pending[p][k] # Unset}

\* apply_to: the state a commit would produce from s.
AfterState(p, s) ==
  [k \in Key |-> IF k \in Touched(p) THEN pending[p][k] ELSE s[k]]

\* What validation and the [integrity] links gate report about a state: links
\* to keys that have no document.
Violations(s) ==
  {e \in Key \X Key : s[e[1]] \in Doc /\ e[2] \in Links[s[e[1]]] /\ s[e[2]] = Absent}

\* A removal is checked only when the file exists.
Permits(k, before, after) ==
  \/ before = Absent /\ after = Absent
  \/ <<k, before, after>> \notin Refused

\* The plain path removes before it puts.
IsNext(p, k) ==
  /\ k \in todo[p]
  /\ pending[p][k] # Absent => \A j \in todo[p] : pending[p][j] # Absent

\* The last entry of the last line that is not empty.
IsLastEntry(i) ==
  /\ journal[i] # Newline
  /\ \A j \in DOMAIN journal : j > i => journal[j] = Newline

\* next_seq: that line parses only when it is one whole record.
IsLastRecord(i) ==
  /\ IsLastEntry(i)
  /\ IsRecord(journal[i])
  /\ i = 1 \/ journal[i - 1] = Newline

NextSeq ==
  IF \E i \in DOMAIN journal : IsLastRecord(i)
  THEN journal[CHOOSE i \in DOMAIN journal : IsLastRecord(i)].seq + 1
  ELSE 1

Goes(p, from, to) ==
  /\ pc[p] = from
  /\ pc' = [pc EXCEPT ![p] = to]

\* The transaction is over: commit cleared it, or abort did.
Clear(p) ==
  /\ txno' = [txno EXCEPT ![p] = 0]
  /\ pending' = [pending EXCEPT ![p] = Nothing]
  /\ baseline' = [baseline EXCEPT ![p] = Nothing]
  /\ judged' = [judged EXCEPT ![p] = Nothing]
  /\ prior' = [prior EXCEPT ![p] = Nothing]
  /\ todo' = [todo EXCEPT ![p] = {}]
  /\ cur' = [cur EXCEPT ![p] = Unset]
  /\ seq' = [seq EXCEPT ![p] = 0]

-----------------------------------------------------------------------------
(* Staging *)

Begin(p) ==
  /\ started < MaxTx
  /\ Goes(p, "idle", "open")
  /\ started' = started + 1
  /\ txno' = [txno EXCEPT ![p] = started + 1]
  /\ UNCHANGED <<lockVars, store, journal, pending, baseline, judged, prior, todo, cur, seq,
                 stalls, crashes, atGrant, landed>>

\* The baseline of a key is what it holds when it is first staged.
SeesBaseline(p, k) == baseline' = [baseline EXCEPT ![p][k] = IF @ = Unset THEN store[k] ELSE @]

\* write(): a key staged again keeps its baseline.
Stage(p, k, d) ==
  /\ p \in Validating
  /\ Goes(p, "open", "permit")
  /\ pending' = [pending EXCEPT ![p][k] = d]
  /\ SeesBaseline(p, k)
  /\ cur' = [cur EXCEPT ![p] = k]
  /\ UNCHANGED <<lockVars, store, journal, txno, judged, prior, todo, seq, counters, atGrant,
                 landed>>

\* The permission check reads the document once more; nobody holds the lock, so
\* it may have changed.  A refusal aborts the transaction.
CheckPermission(p) ==
  /\ pc[p] = "permit"
  /\ IF Permits(cur[p], store[cur[p]], pending[p][cur[p]])
     THEN /\ pc' = [pc EXCEPT ![p] = "open"]
          /\ judged' = [judged EXCEPT ![p][cur[p]] = store[cur[p]]]
          /\ UNCHANGED <<txno, pending, baseline, prior, todo, cur, seq>>
     ELSE pc' = [pc EXCEPT ![p] = "idle"] /\ Clear(p)
  /\ UNCHANGED <<lockVars, store, journal, counters, atGrant, landed>>

\* The MCP server stages the other way round: it checks a write first (one that
\* is refused changes nothing) and the backend reads the baseline afterwards.
CheckFirst(p, k, d) ==
  /\ p \in Validating
  /\ Permits(k, store[k], d)
  /\ Goes(p, "open", "checked")
  /\ pending' = [pending EXCEPT ![p][k] = d]
  /\ judged' = [judged EXCEPT ![p][k] = store[k]]
  /\ cur' = [cur EXCEPT ![p] = k]
  /\ UNCHANGED <<lockVars, store, journal, txno, baseline, prior, todo, seq, counters, atGrant,
                 landed>>

StageChecked(p) ==
  /\ Goes(p, "checked", "open")
  /\ SeesBaseline(p, cur[p])
  /\ UNCHANGED <<lockVars, store, journal, txno, pending, judged, prior, todo, cur, seq, counters,
                 atGrant, landed>>

\* A plain writer is handed its change set; nothing is read yet.
Plan(p, k, d) ==
  /\ p \notin Validating
  /\ pc[p] = "open"
  /\ pending[p][k] = Unset
  /\ pending' = [pending EXCEPT ![p][k] = d]
  /\ UNCHANGED <<lockVars, store, journal, pc, txno, baseline, judged, prior, todo, cur, seq,
                 counters, atGrant, landed>>

\* The caller aborts, or commits a transaction with nothing staged.
Abort(p) ==
  /\ Goes(p, "open", "idle")
  /\ Clear(p)
  /\ UNCHANGED <<lockVars, store, journal, counters, atGrant, landed>>

Commit(p) ==
  /\ Touched(p) # {}
  /\ Goes(p, "open", "wait")
  /\ todo' = [todo EXCEPT ![p] = Touched(p)]
  /\ UNCHANGED <<lockVars, store, journal, txno, pending, baseline, judged, prior, cur, seq,
                 counters, atGrant, landed>>

-----------------------------------------------------------------------------
(* The commit lock *)

\* Taking the lock from a process that is merely slow is a stall.
Supersedes ==
  IF ~free /\ \E q \in Proc : IsCurrent(q)
  THEN stalls < MaxStalls /\ stalls' = stalls + 1
  ELSE UNCHANGED stalls

\* A hold is granted when the lock is free or its holder looks dead.
TakeLock(p) == (Grant(p) \/ Reclaim(p)) /\ Supersedes

\* No hold could be had.  An error may come after the record was written: the
\* generation is taken, and nobody has it.
NoHold ==
  \/ UNCHANGED <<lockVars, stalls>>
  \/ IoMayFail /\ GrantWithoutGuard /\ Supersedes

Acquire(p) ==
  /\ Goes(p, "wait", IF p \in Validating THEN "check" ELSE "next")
  /\ TakeLock(p)
  /\ atGrant' = [atGrant EXCEPT ![p] = store]
  /\ UNCHANGED <<store, journal, locals, started, crashes, landed>>

\* Timeout, I/O error or store marker: the attempt is refused and aborted.
LockRefused(p) ==
  /\ Goes(p, "wait", "idle")
  /\ NoHold
  /\ Clear(p)
  /\ UNCHANGED <<store, journal, started, crashes, atGrant, landed>>

\* Mutant of DropGuard: every outcome is journaled.
DropGuardAndJournal(p) ==
  /\ Release(p)
  /\ \E s \in {"landed", "refused"} : Goes(p, s, "seq")
  /\ UNCHANGED <<store, journal, locals, counters, atGrant, landed>>

\* Mutant of DropGuard: an early return keeps the guard of a failed commit.
DropGuardUnlessFailed(p) ==
  /\ IF pc[p] = "failed" THEN UNCHANGED lockVars ELSE Release(p)
  /\ IF pc[p] = "landed"
     THEN Goes(p, "landed", "seq") /\ UNCHANGED locals
     ELSE /\ \E s \in {"refused", "failed", "triggered"} : Goes(p, s, "idle")
          /\ Clear(p)
  /\ UNCHANGED <<store, journal, counters, atGrant, landed>>

\* drop(guard) on every exit.  The result of the release is discarded, so it may
\* be lost.
DropGuard(p) ==
  /\ \/ Release(p)
     \/ IoMayFail /\ Abandon(p)
  /\ IF pc[p] = "landed"
     THEN Goes(p, "landed", "seq") /\ UNCHANGED locals
     ELSE /\ \E s \in {"refused", "failed", "triggered"} : Goes(p, s, "idle")
          /\ Clear(p)
  /\ UNCHANGED <<store, journal, counters, atGrant, landed>>

-----------------------------------------------------------------------------
(* ValidatingTransaction::commit_locked *)

\* Mutant of CheckConflicts: conflicts are not looked for.
CheckScopeOnly(p) ==
  /\ Goes(p, "check", IF Touched(p) \cap Denied # {} THEN "refused" ELSE "validate")
  /\ UNCHANGED <<lockVars, store, journal, locals, counters, atGrant, landed>>

CheckConflicts(p) ==
  /\ Goes(p, "check",
          IF (\E k \in Touched(p) : store[k] # baseline[p][k]) \/ Touched(p) \cap Denied # {}
          THEN "refused" ELSE "validate")
  /\ UNCHANGED <<lockVars, store, journal, locals, counters, atGrant, landed>>

\* Mutant of Validate: only the touched documents' own links are looked at.
ValidateTouched(p) ==
  /\ Goes(p, "validate",
          IF \E v \in Violations(AfterState(p, store)) \ Violations(store) : v[1] \in Touched(p)
          THEN "refused" ELSE "fence")
  /\ UNCHANGED <<lockVars, store, journal, locals, counters, atGrant, landed>>

\* Only violations the commit would introduce count.
Validate(p) ==
  /\ Goes(p, "validate",
          IF Violations(AfterState(p, store)) \subseteq Violations(store)
          THEN "fence" ELSE "refused")
  /\ UNCHANGED <<lockVars, store, journal, locals, counters, atGrant, landed>>

Fence(p) ==
  /\ Goes(p, "fence", IF IsCurrent(p) THEN "prior" ELSE "refused")
  /\ UNCHANGED <<lockVars, store, journal, locals, counters, atGrant, landed>>

ReadPrior(p) ==
  /\ Goes(p, "prior", "apply")
  /\ prior' = [prior EXCEPT ![p] = [k \in Key |-> IF k \in Touched(p) THEN store[k] ELSE Unset]]
  /\ UNCHANGED <<lockVars, store, journal, txno, pending, baseline, judged, todo, cur, seq,
                 counters, atGrant, landed>>

\* In the order of staging, which the client chooses; of a key staged again, the last
\* write stands for all.
ApplyWrite(p, k) ==
  /\ k \in todo[p]
  /\ Goes(p, "apply", IF todo[p] = {k} THEN "verify" ELSE "apply")
  /\ store' = [store EXCEPT ![k] = pending[p][k]]
  /\ todo' = [todo EXCEPT ![p] = @ \ {k}]
  /\ UNCHANGED <<lockVars, journal, txno, pending, baseline, judged, prior, cur, seq, counters,
                 atGrant, landed>>

CheckersPass(p) ==
  /\ Goes(p, "verify", "landed")
  /\ landed' = landed \cup {txno[p]}
  /\ UNCHANGED <<lockVars, store, journal, locals, counters, atGrant>>

\* Mutant of CheckersFail: the applied state is left in place.
CheckersFailNoRestore(p) ==
  /\ Goes(p, "verify", "refused")
  /\ UNCHANGED <<lockVars, store, journal, locals, counters, atGrant, landed>>

\* Mutant of CheckersFail: every key is put back, also those not touched.
CheckersFailRestoreAll(p) ==
  /\ Goes(p, "verify", "restore")
  /\ todo' = [todo EXCEPT ![p] = Key]
  /\ UNCHANGED <<lockVars, store, journal, txno, pending, baseline, judged, prior, cur, seq,
                 counters, atGrant, landed>>

\* An external or built-in checker rejects the state that was applied.
CheckersFail(p) ==
  /\ Goes(p, "verify", "restore")
  /\ todo' = [todo EXCEPT ![p] = Touched(p)]
  /\ UNCHANGED <<lockVars, store, journal, txno, pending, baseline, judged, prior, cur, seq,
                 counters, atGrant, landed>>

\* The compensating writes are not fenced.
RestoreKey(p, k) ==
  /\ k \in todo[p]
  /\ Goes(p, "restore", IF todo[p] = {k} THEN "refused" ELSE "restore")
  /\ store' = [store EXCEPT ![k] = prior[p][k]]
  /\ todo' = [todo EXCEPT ![p] = @ \ {k}]
  /\ UNCHANGED <<lockVars, journal, txno, pending, baseline, judged, prior, cur, seq, counters,
                 atGrant, landed>>

-----------------------------------------------------------------------------
(* The plain path: apply_changes_with, write_store_at_path_with *)

\* One document: permission against what is on disk, then the fence.  A grant
\* in between makes the fence refuse, so the two are one step.
NextDocument(p, k) ==
  /\ IsNext(p, k)
  /\ IF store[k] = Absent /\ pending[p][k] = Absent
     THEN /\ Goes(p, "next", IF todo[p] = {k} THEN "seq" ELSE "next")
          /\ todo' = [todo EXCEPT ![p] = @ \ {k}]
          /\ landed' = IF todo[p] = {k} THEN landed \cup {txno[p]} ELSE landed
          /\ UNCHANGED cur
     ELSE /\ Goes(p, "next",
                  IF Permits(k, store[k], pending[p][k]) /\ IsCurrent(p)
                  THEN "write" ELSE "failed")
          /\ cur' = [cur EXCEPT ![p] = k]
          /\ UNCHANGED <<todo, landed>>
  /\ UNCHANGED <<lockVars, store, journal, txno, pending, baseline, judged, prior, seq, counters,
                 atGrant>>

WriteDocument(p) ==
  LET k == cur[p] IN
  /\ Goes(p, "write", IF todo[p] = {k} THEN "seq" ELSE "next")
  /\ store' = [store EXCEPT ![k] = pending[p][k]]
  /\ todo' = [todo EXCEPT ![p] = @ \ {k}]
  /\ landed' = IF todo[p] = {k} THEN landed \cup {txno[p]} ELSE landed
  /\ UNCHANGED <<lockVars, journal, txno, pending, baseline, judged, prior, cur, seq, counters,
                 atGrant>>

\* A write to the store fails, possibly after truncating the file.  Nothing is
\* undone: what was written so far stays.
WriteError(p) ==
  /\ IoMayFail
  /\ \E s \in {"apply", "write", "restore"} : Goes(p, s, "failed")
  /\ \/ UNCHANGED store
     \/ \E k \in todo[p] : store' = [store EXCEPT ![k] = Torn]
  /\ UNCHANGED <<lockVars, journal, locals, counters, atGrant, landed>>

-----------------------------------------------------------------------------
(* journal::record_commit and the commit trigger *)

ReadSeq(p) ==
  /\ Goes(p, "seq", "text")
  /\ seq' = [seq EXCEPT ![p] = NextSeq]
  /\ UNCHANGED <<lockVars, store, journal, txno, pending, baseline, judged, prior, todo, cur,
                 counters, atGrant, landed>>

\* writeln! on an unbuffered file: the record is one append, its newline another.
WriteText(p) ==
  /\ Goes(p, "text", "newline")
  /\ journal' = Append(journal, [seq |-> seq[p], tx |-> txno[p]])
  /\ UNCHANGED <<lockVars, store, locals, counters, atGrant, landed>>

WriteNewline(p) ==
  /\ Goes(p, "newline", "trigger")
  /\ journal' = Append(journal, Newline)
  /\ UNCHANGED <<lockVars, store, locals, counters, atGrant, landed>>

\* Where a process goes when it has no trigger to run: a plain writer still has
\* to drop its guard.
FinishWithoutTrigger(p) ==
  IF p \in Validating
  THEN pc' = [pc EXCEPT ![p] = "idle"] /\ Clear(p)
  ELSE pc' = [pc EXCEPT ![p] = "failed"] /\ UNCHANGED locals

\* A journal failure never costs the commit; a cut-short append stays in the file.
JournalError(p) ==
  /\ IoMayFail
  /\ pc[p] \in {"seq", "text", "newline"}
  /\ FinishWithoutTrigger(p)
  /\ journal' = IF pc[p] = "text" THEN Append(journal, Fragment) ELSE journal
  /\ UNCHANGED <<lockVars, store, counters, atGrant, landed>>

\* The plain path passes its own hold, the validated one takes a fresh one.
StartTrigger(p) ==
  /\ Goes(p, "trigger", "triggered")
  /\ IF p \in Validating THEN TakeLock(p) ELSE UNCHANGED <<lockVars, stalls>>
  /\ UNCHANGED <<store, journal, locals, started, crashes, atGrant, landed>>

\* No command is configured, or no hold could be had.
SkipTrigger(p) ==
  /\ pc[p] = "trigger"
  /\ IF p \in Validating THEN NoHold ELSE UNCHANGED <<lockVars, stalls>>
  /\ FinishWithoutTrigger(p)
  /\ UNCHANGED <<store, journal, started, crashes, atGrant, landed>>

-----------------------------------------------------------------------------
\* The process dies: its memory is gone, its hold is left to go stale, a write
\* in progress may be cut short.
Crash(p) ==
  /\ crashes < MaxCrashes
  /\ crashes' = crashes + 1
  /\ pc[p] # "idle"
  /\ pc' = [pc EXCEPT ![p] = "idle"]
  /\ Clear(p)
  /\ IF token[p] = 0 THEN UNCHANGED lockVars ELSE Abandon(p)
  /\ \/ UNCHANGED store
     \/ /\ pc[p] \in {"apply", "write", "restore"}
        /\ \E k \in todo[p] : store' = [store EXCEPT ![k] = Torn]
  /\ \/ UNCHANGED journal
     \/ pc[p] = "text" /\ journal' = Append(journal, Fragment)
  /\ UNCHANGED <<started, stalls, atGrant, landed>>

CommitStep(p) ==
  \/ Acquire(p) \/ LockRefused(p) \/ DropGuard(p)
  \/ CheckConflicts(p) \/ Validate(p) \/ Fence(p) \/ ReadPrior(p)
  \/ CheckersPass(p) \/ CheckersFail(p)
  \/ \E k \in Key : ApplyWrite(p, k) \/ RestoreKey(p, k) \/ NextDocument(p, k)
  \/ WriteDocument(p)
  \/ ReadSeq(p) \/ WriteText(p) \/ WriteNewline(p)
  \/ StartTrigger(p) \/ SkipTrigger(p)

Client(p) ==
  \/ Begin(p) \/ CheckPermission(p) \/ StageChecked(p) \/ Commit(p) \/ Abort(p)
  \/ \E k \in Key, d \in Doc \cup {Absent} : Stage(p, k, d) \/ CheckFirst(p, k, d) \/ Plan(p, k, d)

Fault(p) == WriteError(p) \/ JournalError(p) \/ Crash(p)

\* The bound on transactions is used up and everybody has finished.
Finished ==
  /\ started = MaxTx
  /\ \A p \in Proc : pc[p] = "idle"
  /\ UNCHANGED storeVars

Next == Finished \/ \E p \in Proc : Client(p) \/ CommitStep(p) \/ Fault(p)

Spec == Init /\ [][Next]_storeVars

\* A process inside a commit keeps taking steps; acquire is bounded by its
\* timeout, so waiting ends in a hold or a refusal.  No client has to commit.
FairSpec == Spec /\ \A p \in Proc : WF_storeVars(CommitStep(p))

-----------------------------------------------------------------------------
(* Properties *)

\* The process's change set is on disk and it still holds the lock.
JustLanded(p) == pc[p] = IF p \in Validating THEN "landed" ELSE "seq"

\* While no live hold is taken over, a validated commit overwrites only content
\* its client had seen: whatever a touched key holds when the loop reaches it is
\* the baseline recorded at staging.
NoLostUpdate ==
  stalls = 0 =>
    \A p \in Validating : pc[p] \in {"prior", "apply"} =>
      \A k \in todo[p] : store[k] = baseline[p][k]

\* A validated commit that lands leaves no violation that was not on disk when it
\* got the lock, although others staged and committed meanwhile (write skew).
NoNewViolations ==
  stalls = 0 =>
    \A p \in Validating : pc[p] = "landed" =>
      Violations(store) \subseteq Violations(atGrant[p])

\* A refused validated commit leaves the store as it found it, even when the
\* refusal came from a checker that ran on the applied state.
RefusalRestores ==
  stalls = 0 =>
    \A p \in Validating : pc[p] = "refused" => store = atGrant[p]

\* The document changed between the reading of its baseline and its last permission
\* check.  The two are next to each other in the code, in either order, when a key is
\* first staged; the check of a key staged again comes later.
SlippedBetween(p, k) == p \in Validating /\ judged[p][k] # baseline[p][k]

\* A commit lands a rewrite that the permission rules refuse for the content it
\* really replaces only through that window: never because of what others do after
\* staging, although the validated path checks long before it writes.
LandedWritesPermitted ==
  stalls = 0 =>
    \A p \in Proc : JustLanded(p) =>
      \A k \in Touched(p) : Permits(k, atGrant[p][k], pending[p][k]) \/ SlippedBetween(p, k)

\* The same without the window.  It does not hold (README, section 3.3).
NoRefusedRewrite ==
  stalls = 0 =>
    \A p \in Proc : JustLanded(p) =>
      \A k \in Touched(p) : Permits(k, atGrant[p][k], pending[p][k])

\* The journal names only commits that landed, each at most once.
JournalOnlyLanded ==
  \A i \in DOMAIN journal : IsRecord(journal[i]) =>
    /\ journal[i].tx \in landed
    /\ \A j \in DOMAIN journal \ {i} :
         IsRecord(journal[j]) => journal[j].tx # journal[i].tx

\* Sequence numbers grow along the journal, so no two records share one.  It does
\* not hold: validated commits append after they dropped the lock, and a record cut
\* short by a crash makes the next append start again (README, section 3.3).
JournalInOrder ==
  \A i, j \in DOMAIN journal :
    (i < j /\ IsRecord(journal[i]) /\ IsRecord(journal[j])) =>
      journal[i].seq < journal[j].seq

\* Every hold ends: the guard is dropped whatever the commit's outcome.
HoldsEnd == \A p \in Proc : token[p] # 0 ~> token[p] = 0

-----------------------------------------------------------------------------
(* The inductive strengthening *)

OnlyValidated == {"check", "validate", "fence", "prior", "apply", "verify", "restore",
                  "landed", "refused"}
OnlyPlain == {"next", "write"}
Ended == {"failed", "triggered"}
Journaling == {"seq", "text", "newline", "trigger"}

HoldsLock(p) ==
  IF p \in Validating THEN pc[p] \in OnlyValidated \cup Ended
                      ELSE pc[p] \in OnlyPlain \cup Ended \cup Journaling

\* The loops run over staged keys only, so they never write Unset.
Loop(p) ==
  /\ todo[p] \subseteq Touched(p)
  /\ pc[p] \in {"permit", "checked"} => cur[p] \in Touched(p)
  /\ pc[p] = "write" => cur[p] \in todo[p]
  /\ pc[p] \in {"apply", "verify", "restore"} =>
       \A k \in Touched(p) : prior[p][k] \in Content

LoopInv == \A p \in Proc : Loop(p)

\* Guards and program positions agree, and while no live hold was taken over
\* the guard that exists is the current one: one process is inside.
HoldInv ==
  /\ ~free => last # 0
  /\ \A p \in Proc :
       /\ p \in Validating => pc[p] \notin OnlyPlain
       /\ p \notin Validating => pc[p] \notin OnlyValidated
       /\ token[p] # 0 <=> HoldsLock(p)
       /\ token[p] <= last
       /\ (token[p] # 0 /\ token[p] = last) => ~free
       /\ \A q \in Proc \ {p} : token[p] # 0 => token[q] # token[p]
       /\ (stalls = 0 /\ token[p] # 0) => token[p] = last

\* The store while p is inside its apply or restore loop, told from what it was
\* when p got the lock: `done` keys carry the staged content, the rest do not.
Written(p, done) ==
  store = [k \in Key |-> IF k \in done THEN pending[p][k] ELSE atGrant[p][k]]

PriorRead(p) ==
  \A k \in Touched(p) : prior[p][k] = atGrant[p][k]

\* What each position of a validated commit has established.
Phase(p) ==
  /\ pc[p] \in {"wait", "check", "validate", "fence", "prior"} => todo[p] = Touched(p)
  /\ pc[p] \in {"check", "validate", "fence", "prior", "refused"} => store = atGrant[p]
  /\ pc[p] \in {"validate", "fence", "prior", "apply", "verify", "landed"} =>
       \A k \in Touched(p) : atGrant[p][k] = baseline[p][k]
  /\ pc[p] \in {"fence", "prior", "apply", "verify"} =>
       Violations(AfterState(p, atGrant[p])) \subseteq Violations(atGrant[p])
  /\ pc[p] \in {"apply", "verify", "restore"} => PriorRead(p)
  /\ pc[p] = "apply" => Written(p, Touched(p) \ todo[p])
  /\ pc[p] = "verify" => Written(p, Touched(p))
  /\ pc[p] = "landed" => /\ Written(p, Touched(p))
                         /\ Violations(store) \subseteq Violations(atGrant[p])
  /\ pc[p] = "restore" => Written(p, todo[p])

PhaseInv == stalls = 0 => \A p \in Validating : Phase(p)

\* A staged write has passed the permission check, but for the one being checked.
JudgedInv ==
  \A p \in Validating : \A k \in Touched(p) :
    Permits(k, judged[p][k], pending[p][k]) \/ (pc[p] = "permit" /\ k = cur[p])

\* The plain loop: what it has not reached is as it was when the lock was granted,
\* and what it wrote was permitted for the content of that moment.
PlainPhase(p) ==
  /\ pc[p] = "wait" => todo[p] = Touched(p)
  /\ pc[p] \in OnlyPlain => \A k \in todo[p] : store[k] = atGrant[p][k]
  /\ pc[p] \in OnlyPlain \cup {"seq"} =>
       \A k \in Touched(p) :
         \/ Permits(k, atGrant[p][k], pending[p][k])
         \/ k \in todo[p] /\ pc[p] # "seq" /\ (pc[p] = "write" => k # cur[p])

PlainInv == stalls = 0 => \A p \in Proc \ Validating : PlainPhase(p)

\* Transaction numbers are handed out once; one that is about to be journaled has
\* landed and is not in the journal yet.
JournalInv ==
  /\ \A t \in landed : t <= started
  /\ \A p \in Proc :
       /\ txno[p] <= started
       /\ pc[p] # "idle" => txno[p] # 0
       /\ \A q \in Proc \ {p} : txno[p] # 0 => txno[q] # txno[p]
       /\ pc[p] \in {"landed", "seq", "text"} =>
            /\ txno[p] \in landed
            /\ \A i \in DOMAIN journal : IsRecord(journal[i]) => journal[i].tx # txno[p]
       /\ pc[p] \in PC \ ({"landed"} \cup Journaling \cup Ended \cup {"idle"}) => txno[p] \notin landed
=============================================================================
