------------------------------ MODULE Integrity ------------------------------
(***************************************************************************)
(* The [integrity] gate of a commit (diwe/integrity.rs, and its call in    *)
(* diwe/validating_transaction.rs): broken links and orphans, the search   *)
(* for reachable documents, and the debt cache, which keeps what one       *)
(* commit found for the next one of the same process.                      *)
(*                                                                         *)
(* Of a document only the keys it links to or includes count.  Commits take*)
(* turns under the commit lock (CommitStore is about that), so the locals  *)
(* of the commit under way are the variables below; the cache and the      *)
(* options belong to a process and outlive a commit.  Programs that know   *)
(* nothing of the lock may edit a document at any time.                    *)
(*                                                                         *)
(* The 64-bit fingerprint of a state is modelled without collisions, and   *)
(* the whole store is read in one step.                                    *)
(***************************************************************************)
EXTENDS Naturals

CONSTANTS
  Proc, Key, Doc,
  Links,        \* Links[d]: the keys document d links to or includes
  Root,         \* the key every document must be reachable from
  Options,      \* [integrity] sections a process may be started with
  InitialStores,
  Batches,      \* what commits stage
  Absent,       \* no document
  Unset,        \* key not staged
  Nobody,
  MaxCommits, MaxRestarts, MaxEdits   \* bounds

Store == [Key -> Doc \cup {Absent}]
Batch == [Key -> Doc \cup {Absent, Unset}]
Mode == {"off", "no-new", "strict"}

ASSUME IntegrityConstants ==
  /\ Root \in Key
  /\ Links \in [Doc -> SUBSET Key]
  /\ Options \subseteq [links : Mode, orphans : Mode]
  /\ InitialStores \subseteq Store
  /\ Batches \subseteq Batch
  /\ Absent \notin Doc /\ Unset \notin Doc \cup {Absent} \cup Options
  /\ Nobody \notin Proc
  /\ MaxCommits \in Nat /\ MaxRestarts \in Nat /\ MaxEdits \in Nat

VARIABLES
  store,        \* the documents on disk
  options,      \* options[p]: the [integrity] section p was started with
  cache,        \* cache[p]: one state with its context, and that state's debt
  holder,       \* the process that is committing
  pc,
  pending,      \* what it staged
  before,       \* the state it read under the lock
  prior,        \* the state just before its writes
  seen, frontier,        \* reachable_from: found so far, and still to be visited
  afterDebt, beforeDebt,
  commits, restarts, edits,   \* counters (bound the model)
  origin,       \* history: the first store
  used,         \* history: options some process was running with
  torn          \* history: a commit stopped halfway through its writes

search == <<seen, frontier>>
debts == <<afterDebt, beforeDebt>>
commit == <<holder, pc, pending, before, prior, search, debts>>
counters == <<commits, restarts, edits>>
history == <<origin, used, torn>>
integrityVars == <<store, options, cache, commit, counters, history>>

-----------------------------------------------------------------------------
(* Debt: what the documents and comments call it, without an algorithm *)

Docs(g) == {k \in Key : g[k] # Absent}
Targets(g, k) == IF g[k] = Absent THEN {} ELSE Links[g[k]]

\* stats::broken_links: source and target of each link without a document.
Broken(g) == {e \in Key \X Key : e[2] \in Targets(g, e[1]) /\ g[e[2]] = Absent}

\* S is closed under following links to documents that exist.
Closed(g, S) == \A k \in S : Targets(g, k) \cap Docs(g) \subseteq S

\* What can be reached from the root: the least closed set that has it.
Reach(g) ==
  IF Root \in Docs(g)
  THEN {k \in Docs(g) : \A S \in SUBSET Docs(g) : Root \in S /\ Closed(g, S) => k \in S}
  ELSE {}

Debts == [broken : SUBSET (Key \X Key), orphans : SUBSET Key]
NoDebt == [broken |-> {}, orphans |-> {}]

\* integrity::debt, with the documents that are `reachable`: a property left off
\* is not computed.
DebtWith(o, g, reachable) ==
  [broken  |-> IF o.links = "off" THEN {} ELSE Broken(g),
   orphans |-> IF o.orphans = "off" THEN {} ELSE Docs(g) \ reachable]

\* check_commit: what the modes hold against a commit.
Introduced(o, after, standing) ==
  [broken  |-> IF o.links = "no-new" THEN after.broken \ standing.broken ELSE after.broken,
   orphans |-> IF o.orphans = "no-new" THEN after.orphans \ standing.orphans ELSE after.orphans]

Enabled(o) == o.links # "off" \/ o.orphans # "off"
Caches(o) == o.links = "no-new" \/ o.orphans = "no-new"

\* The state before is looked at only when there is something to compare.
NeedsBefore(o, after) ==
  \/ o.links = "no-new" /\ after.broken # {}
  \/ o.orphans = "no-new" /\ after.orphans # {}

-----------------------------------------------------------------------------
\* apply_to
Apply(w, g) == [k \in Key |-> IF w[k] = Unset THEN g[k] ELSE w[k]]
After == Apply(pending, before)
Mine == options[holder]

Nothing == [k \in Key |-> Unset]
Empty == [k \in Key |-> Absent]
NoEntry == [state |-> Unset, context |-> Unset, debt |-> NoDebt]
Entry == {NoEntry} \cup [state : Store, context : Options, debt : Debts]
PC == {"idle", "after", "before", "judge", "refused", "apply", "verify"}

TypeOK ==
  /\ store \in Store
  /\ options \in [Proc -> Options]
  /\ cache \in [Proc -> Entry]
  /\ holder \in Proc \cup {Nobody}
  /\ pc \in PC
  /\ pc = "idle" <=> holder = Nobody
  /\ pending \in Batch
  /\ before \in Store /\ prior \in Store
  /\ seen \in SUBSET Key /\ frontier \in SUBSET Key
  /\ afterDebt \in Debts /\ beforeDebt \in Debts
  /\ commits \in Nat /\ restarts \in Nat /\ edits \in Nat
  /\ origin \in Store
  /\ used \subseteq Options
  /\ torn \in BOOLEAN

Init ==
  /\ store \in InitialStores
  /\ options \in [Proc -> Options]
  /\ cache = [p \in Proc |-> NoEntry]
  /\ holder = Nobody /\ pc = "idle"
  /\ pending = Nothing /\ before = Empty /\ prior = Empty
  /\ seen = {} /\ frontier = {}
  /\ afterDebt = NoDebt /\ beforeDebt = NoDebt
  /\ commits = 0 /\ restarts = 0 /\ edits = 0
  /\ origin = store
  /\ used = {options[p] : p \in Proc}
  /\ torn = FALSE

-----------------------------------------------------------------------------
(* reachable_from *)

\* Nothing is searched when orphans are off, nothing found without a root.
StartSearch(o, g) ==
  /\ seen' = IF o.orphans # "off" /\ Root \in Docs(g) THEN {Root} ELSE {}
  /\ frontier' = seen'

Searched == IF pc = "after" THEN After ELSE before

\* Mutant of Visit: a key is marked when it is taken from the queue, not when it
\* is put there, and never looked up: a cycle of links is followed for ever.
VisitUnmarked(k) ==
  /\ pc \in {"after", "before"} /\ k \in frontier
  /\ seen' = seen \cup {k}
  /\ frontier' = (frontier \ {k}) \cup (Targets(Searched, k) \cap Docs(Searched))
  /\ UNCHANGED <<store, options, cache, holder, pc, pending, before, prior, debts, counters,
                 history>>

\* One turn of the loop; the order of the queue is left open.
Visit(k) ==
  LET found == (Targets(Searched, k) \cap Docs(Searched)) \ seen IN
  /\ pc \in {"after", "before"} /\ k \in frontier
  /\ seen' = seen \cup found
  /\ frontier' = (frontier \ {k}) \cup found
  /\ UNCHANGED <<store, options, cache, holder, pc, pending, before, prior, debts, counters,
                 history>>

-----------------------------------------------------------------------------
(* The commit *)

\* Conflicts and schemas were looked at; the gate starts on the state after.
Begin(p, w) ==
  /\ pc = "idle" /\ commits < MaxCommits
  /\ commits' = commits + 1
  /\ holder' = p
  /\ pending' = w
  /\ before' = store
  /\ IF Enabled(options[p])
     THEN pc' = "after" /\ StartSearch(options[p], After')
     ELSE pc' = "apply" /\ UNCHANGED search
  /\ afterDebt' = NoDebt /\ beforeDebt' = NoDebt
  /\ UNCHANGED <<store, options, cache, prior, restarts, edits, history>>

\* Mutant of Hit: what the last commit left is taken for what is there now.
HitAnyState == cache[holder].context = Mine

\* DebtCache::get under state_digest of the state and the context.
Hit == cache[holder].state = before /\ cache[holder].context = Mine

\* DebtCache::put
Put(g, debt) ==
  cache' = [cache EXCEPT ![holder] = [state |-> g, context |-> Mine, debt |-> debt]]

AfterSearched ==
  /\ pc = "after" /\ frontier = {}
  /\ afterDebt' = DebtWith(Mine, After, seen)
  /\ CASE ~NeedsBefore(Mine, afterDebt') ->
            pc' = "judge" /\ UNCHANGED <<beforeDebt, search>>
       [] NeedsBefore(Mine, afterDebt') /\ Hit ->
            pc' = "judge" /\ beforeDebt' = cache[holder].debt /\ UNCHANGED search
       [] OTHER ->
            pc' = "before" /\ StartSearch(Mine, before) /\ UNCHANGED beforeDebt
  /\ UNCHANGED <<store, options, cache, holder, pending, before, prior, counters, history>>

BeforeSearched ==
  /\ pc = "before" /\ frontier = {}
  /\ beforeDebt' = DebtWith(Mine, before, seen)
  /\ Put(before, beforeDebt')
  /\ pc' = "judge"
  /\ UNCHANGED <<store, options, holder, pending, before, prior, search, afterDebt, counters,
                 history>>

\* Mutant of Judge: one property without new debt is enough.
JudgeEither ==
  LET held == Introduced(Mine, afterDebt, beforeDebt) IN
  /\ pc = "judge"
  /\ pc' = IF held.broken = {} \/ held.orphans = {} THEN "apply" ELSE "refused"
  /\ UNCHANGED <<store, options, cache, holder, pending, before, prior, search, debts,
                 counters, history>>

Judge ==
  /\ pc = "judge"
  /\ pc' = IF Introduced(Mine, afterDebt, beforeDebt) = NoDebt THEN "apply" ELSE "refused"
  /\ UNCHANGED <<store, options, cache, holder, pending, before, prior, search, debts,
                 counters, history>>

\* The guard is dropped and the commit's locals are gone.
Release ==
  /\ pc' = "idle" /\ holder' = Nobody
  /\ pending' = Nothing /\ before' = Empty /\ prior' = Empty
  /\ seen' = {} /\ frontier' = {}
  /\ afterDebt' = NoDebt /\ beforeDebt' = NoDebt

Refuse ==
  /\ pc = "refused"
  /\ Release
  /\ UNCHANGED <<store, options, cache, counters, history>>

Write ==
  /\ pc = "apply"
  /\ pc' = "verify"
  /\ prior' = store
  /\ store' = Apply(pending, store)
  /\ UNCHANGED <<options, cache, holder, pending, before, search, debts, counters, history>>

\* Only a commit that landed leaves its debt to the next one.
Land ==
  /\ pc = "verify"
  /\ IF Caches(Mine) THEN Put(After, afterDebt) ELSE UNCHANGED cache
  /\ Release
  /\ UNCHANGED <<store, options, counters, history>>

\* A checker refuses the applied state.
Revert ==
  /\ pc = "verify"
  /\ store' = [k \in Key |-> IF pending[k] = Unset THEN store[k] ELSE prior[k]]
  /\ Release
  /\ UNCHANGED <<options, cache, counters, history>>

\* An I/O error, or the end of the process, when only the keys `done` were written
\* or put back.  Once per behaviour (bounds the model).
Tear(done) ==
  LET new == IF pc = "apply" THEN pending ELSE prior IN
  /\ pc \in {"apply", "verify"} /\ ~torn
  /\ torn' = TRUE
  /\ store' = [k \in Key |-> IF k \in done /\ pending[k] # Unset THEN new[k] ELSE store[k]]
  /\ Release
  /\ UNCHANGED <<options, cache, counters, origin, used>>

-----------------------------------------------------------------------------
(* Surroundings *)

\* The process ends, perhaps in the middle of a commit, and another one starts
\* with what the configuration says now.  The cache is memory.
Restart(p, o) ==
  /\ restarts < MaxRestarts
  /\ restarts' = restarts + 1
  /\ options' = [options EXCEPT ![p] = o]
  /\ used' = used \cup {o}
  /\ cache' = [cache EXCEPT ![p] = NoEntry]
  /\ IF holder = p THEN Release ELSE UNCHANGED commit
  /\ UNCHANGED <<store, commits, edits, origin, torn>>

\* A program that knows nothing of the lock.
Edit(k, d) ==
  /\ edits < MaxEdits
  /\ edits' = edits + 1
  /\ store' = [store EXCEPT ![k] = d]
  /\ UNCHANGED <<options, cache, commit, commits, restarts, history>>

CommitStep ==
  \/ \E k \in Key : Visit(k)
  \/ AfterSearched \/ BeforeSearched \/ Judge \/ Refuse \/ Write \/ Land \/ Revert

Environment ==
  \/ \E p \in Proc, w \in Batches : Begin(p, w)
  \/ \E p \in Proc, o \in Options : Restart(p, o)
  \/ \E done \in SUBSET Key : Tear(done)
  \/ \E k \in Key, d \in Doc \cup {Absent} : Edit(k, d)

\* The bound on commits is used up.
Finished == pc = "idle" /\ commits = MaxCommits /\ UNCHANGED integrityVars

Next == Finished \/ CommitStep \/ Environment

Spec == Init /\ [][Next]_integrityVars

\* A process inside a commit keeps running.
FairSpec == Spec /\ WF_integrityVars(CommitStep)

-----------------------------------------------------------------------------
(* Properties *)

Debt(o, g) == DebtWith(o, g, Reach(g))

\* The gate lets a commit pass, or refuses it, exactly as the definitions of broken
\* link and orphan say of the state it read and the state it would leave, whichever
\* way the search went and whether or not the debt before came from the cache.
GateIsExact ==
  LET held == Introduced(Mine, Debt(Mine, After), Debt(Mine, before)) IN
  /\ pc = "apply" => held = NoDebt
  /\ pc = "refused" => held # NoDebt

\* No worse than the first store in what everybody enforced.
NoWorse(g) ==
  /\ (\A o \in used : o.links # "off") => Broken(g) \subseteq Broken(origin)
  /\ (\A o \in used : o.orphans # "off") =>
       Docs(g) \ Reach(g) \subseteq Docs(origin) \ Reach(origin)

Undisturbed == edits = 0 /\ ~torn

\* Commits alone never add debt: as long as every process enforced a property and
\* no other program edited the store and no commit stopped halfway through its
\* writes, what is broken or orphaned now was so at the beginning, after any number
\* of commits, refusals, reverts and restarts.
DebtNeverGrows == Undisturbed => NoWorse(store)

\* The gate decides and lets go of the lock, also on documents that link in circles.
CommitsEnd == holder # Nobody ~> holder = Nobody

-----------------------------------------------------------------------------
(* The inductive strengthening *)

\* An entry of the cache holds the debt of the state it is kept under.
CacheIsTruthful ==
  \A p \in Proc : cache[p] # NoEntry =>
    cache[p].debt = Debt(cache[p].context, cache[p].state)

\* What the search has found is reachable, and complete but for the frontier.
SearchInv ==
  pc \in {"after", "before"} /\ Mine.orphans # "off" =>
    /\ frontier \subseteq seen
    /\ seen \subseteq Reach(Searched)
    /\ Root \in Docs(Searched) => Root \in seen
    /\ \A k \in seen \ frontier : Targets(Searched, k) \cap Docs(Searched) \subseteq seen

DebtInv ==
  /\ pc = "after" => beforeDebt = NoDebt
  /\ pc \in {"before", "judge"} => afterDebt = Debt(Mine, After)
  /\ pc = "judge" =>
       Introduced(Mine, afterDebt, beforeDebt)
         = Introduced(Mine, Debt(Mine, After), Debt(Mine, before))
  /\ pc \in {"apply", "verify"} =>
       /\ Introduced(Mine, Debt(Mine, After), Debt(Mine, before)) = NoDebt
       /\ Caches(Mine) => afterDebt = Debt(Mine, After)

\* Undisturbed, the store is what the commit read, then what it would leave.
StoreInv ==
  Undisturbed =>
    /\ pc \notin {"idle", "verify"} => store = before
    /\ pc = "verify" => store = After /\ prior = before
    /\ pc # "idle" => NoWorse(before)

IntegrityInv ==
  /\ TypeOK
  /\ \A p \in Proc : options[p] \in used
  /\ CacheIsTruthful
  /\ SearchInv
  /\ DebtInv
  /\ StoreInv
  /\ GateIsExact
  /\ DebtNeverGrows
=============================================================================
