--------------------------- MODULE IntegrityProofs ---------------------------
(***************************************************************************)
(* Theorems about Integrity: the search finds exactly what is reachable,   *)
(* the cache never lies, so the gate decides as the definitions say; and   *)
(* commits alone never add debt.                                           *)
(***************************************************************************)
EXTENDS Integrity, TLAPS

-----------------------------------------------------------------------------
(* Reachability *)

LEMMA ReachClosed ==
  ASSUME NEW g
  PROVE  /\ Reach(g) \subseteq Docs(g)
         /\ Closed(g, Reach(g))
         /\ Root \in Docs(g) => Root \in Reach(g)
<1>1. Closed(g, Reach(g))
  <2>1. SUFFICES ASSUME NEW k \in Reach(g), NEW t \in Targets(g, k) \cap Docs(g)
                 PROVE  t \in Reach(g)
    BY DEF Closed
  <2>2. Root \in Docs(g)
    BY <2>1 DEF Reach
  <2>3. ASSUME NEW S \in SUBSET Docs(g), Root \in S, Closed(g, S)
        PROVE  t \in S
    <3>1. k \in S
      BY <2>1, <2>2, <2>3 DEF Reach
    <3> QED BY <2>1, <2>3, <3>1 DEF Closed
  <2> QED BY <2>1, <2>2, <2>3 DEF Reach
<1> QED BY <1>1 DEF Reach

\* Where the loop of reachable_from ends, it has found all there is to reach.
LEMMA SearchComplete ==
  ASSUME SearchInv, pc \in {"after", "before"}, frontier = {}, Mine.orphans # "off"
  PROVE  seen = Reach(Searched)
<1>1. CASE Root \in Docs(Searched)
  <2>1. seen \subseteq Reach(Searched) /\ Root \in seen /\ Closed(Searched, seen)
    BY <1>1 DEF SearchInv, Closed
  <2>2. seen \in SUBSET Docs(Searched)
    BY <2>1, ReachClosed
  <2> QED BY <1>1, <2>1, <2>2 DEF Reach
<1>2. CASE Root \notin Docs(Searched)
  BY <1>2 DEF SearchInv, Reach
<1> QED BY <1>1, <1>2

-----------------------------------------------------------------------------
(* Types of what is computed *)

LEMMA ApplyType ==
  ASSUME NEW w \in Batch, NEW g \in Store
  PROVE  Apply(w, g) \in Store
BY DEF Apply, Batch, Store

LEMMA DebtType ==
  ASSUME NEW o, NEW g, NEW S
  PROVE  DebtWith(o, g, S) \in Debts
BY DEF DebtWith, Debts, Broken, Docs

LEMMA DebtsType ==
  ASSUME NEW o, NEW g
  PROVE  Debt(o, g) \in Debts
BY DebtType DEF Debt

LEMMA NoDebtType == NoDebt \in Debts
BY DEF NoDebt, Debts

LEMMA InitInv == Init => IntegrityInv
<1> SUFFICES ASSUME Init PROVE IntegrityInv
  OBVIOUS
<1> USE IntegrityConstants
<1>1. TypeOK
  <2>1. Empty \in Store /\ Nothing \in Batch
    BY DEF Empty, Store, Nothing, Batch
  <2>2. cache \in [Proc -> Entry]
    BY DEF Init, Entry
  <2>3. used \subseteq Options
    BY DEF Init
  <2> QED BY <2>1, <2>2, <2>3, NoDebtType DEF Init, TypeOK, PC
<1>2. \A p \in Proc : options[p] \in used
  BY DEF Init
<1>3. NoWorse(store)
  BY DEF Init, NoWorse
<1> QED BY <1>1, <1>2, <1>3
        DEF Init, IntegrityInv, CacheIsTruthful, SearchInv, DebtInv, StoreInv, GateIsExact,
            DebtNeverGrows

-----------------------------------------------------------------------------
(* Types are preserved *)

LEMMA SearchType ==
  ASSUME NEW o, NEW g, StartSearch(o, g)
  PROVE  seen' \in SUBSET Key /\ frontier' \in SUBSET Key
BY IntegrityConstants DEF StartSearch

LEMMA PutType ==
  ASSUME TypeOK, holder \in Proc, NEW g \in Store, NEW d \in Debts, Put(g, d)
  PROVE  cache' \in [Proc -> Entry]
<1>1. [state |-> g, context |-> Mine, debt |-> d] \in Entry
  BY DEF TypeOK, Entry, Mine
<1> QED BY <1>1 DEF Put, TypeOK

LEMMA ReleaseType ==
  ASSUME Release
  PROVE  /\ holder' \in Proc \cup {Nobody} /\ pc' \in PC
         /\ pc' = "idle" <=> holder' = Nobody
         /\ pending' \in Batch /\ before' \in Store /\ prior' \in Store
         /\ seen' \in SUBSET Key /\ frontier' \in SUBSET Key
         /\ afterDebt' \in Debts /\ beforeDebt' \in Debts
BY NoDebtType DEF Release, PC, Nothing, Empty, Batch, Store

LEMMA TypeStep == TypeOK /\ [Next]_integrityVars => TypeOK'
<1> SUFFICES ASSUME TypeOK, [Next]_integrityVars PROVE TypeOK'
  OBVIOUS
<1> USE IntegrityConstants
<1>1. After \in Store /\ (pc # "idle" => holder \in Proc)
  BY ApplyType DEF TypeOK, After
<1>2. CASE UNCHANGED integrityVars
  BY <1>2 DEF integrityVars, commit, search, debts, counters, history, TypeOK
<1>3. ASSUME NEW k \in Key, Visit(k) PROVE TypeOK'
  BY <1>3 DEF Visit, TypeOK, debts, counters, history, Docs
<1>4. ASSUME AfterSearched PROVE TypeOK'
  <2>1. afterDebt' \in Debts
    BY <1>4, DebtType DEF AfterSearched
  <2>2. /\ UNCHANGED <<store, options, cache, holder, pending, before, prior, counters, history>>
        /\ pc = "after" /\ pc' \in {"judge", "before"}
    BY <1>4 DEF AfterSearched
  <2>3. beforeDebt' \in Debts
    <3>1. beforeDebt' = beforeDebt \/ (Hit /\ beforeDebt' = cache[holder].debt)
      BY <1>4 DEF AfterSearched
    <3>2. cache[holder] \in Entry
      BY <1>1, <2>2 DEF TypeOK
    <3>3. cache[holder].debt \in Debts
      BY <3>2, NoDebtType DEF Entry, NoEntry
    <3> QED BY <3>1, <3>3 DEF TypeOK
  <2>4. seen' \in SUBSET Key /\ frontier' \in SUBSET Key
    <3>1. UNCHANGED search \/ StartSearch(Mine, before)
      BY <1>4 DEF AfterSearched
    <3> QED BY <3>1, SearchType DEF TypeOK, search
  <2> QED BY <2>1, <2>2, <2>3, <2>4 DEF TypeOK, counters, history, PC
<1>5. ASSUME BeforeSearched PROVE TypeOK'
  <2>1. beforeDebt' \in Debts
    BY <1>5, DebtType DEF BeforeSearched
  <2>2. cache' \in [Proc -> Entry]
    BY <1>1, <1>5, <2>1, PutType DEF BeforeSearched, TypeOK
  <2> QED BY <1>5, <2>1, <2>2 DEF BeforeSearched, TypeOK, counters, history, search, PC
<1>6. ASSUME Judge PROVE TypeOK'
  BY <1>6 DEF Judge, TypeOK, counters, history, search, debts, PC
<1>7. ASSUME Refuse PROVE TypeOK'
  BY <1>7, ReleaseType DEF Refuse, TypeOK, counters, history
<1>8. ASSUME Write PROVE TypeOK'
  BY <1>8, ApplyType DEF Write, TypeOK, counters, history, search, debts, PC
<1>9. ASSUME Land PROVE TypeOK'
  <2>1. cache' \in [Proc -> Entry]
    <3>1. CASE Put(After, afterDebt)
      BY <1>1, <1>9, <3>1, PutType DEF Land, TypeOK
    <3> QED BY <1>9, <3>1 DEF Land, TypeOK
  <2> QED BY <1>9, <2>1, ReleaseType DEF Land, TypeOK, counters, history
<1>10. ASSUME Revert PROVE TypeOK'
  <2>1. store' \in Store
    BY <1>10 DEF Revert, TypeOK, Store
  <2> QED BY <1>10, <2>1, ReleaseType DEF Revert, TypeOK, counters, history
<1>11. ASSUME NEW p \in Proc, NEW w \in Batches, Begin(p, w) PROVE TypeOK'
  <2>1. seen' \in SUBSET Key /\ frontier' \in SUBSET Key
    <3>1. UNCHANGED search \/ StartSearch(options[p], After')
      BY <1>11 DEF Begin
    <3> QED BY <3>1, SearchType DEF TypeOK, search
  <2> QED BY <1>11, <2>1, NoDebtType DEF Begin, TypeOK, history, PC
<1>12. ASSUME NEW p \in Proc, NEW o \in Options, Restart(p, o) PROVE TypeOK'
  <2>1. cache' \in [Proc -> Entry]
    BY <1>12 DEF Restart, TypeOK, Entry
  <2>2. CASE holder = p
    BY <1>12, <2>1, <2>2, ReleaseType DEF Restart, TypeOK
  <2>3. CASE holder # p
    BY <1>12, <2>1, <2>3 DEF Restart, TypeOK, commit, search, debts
  <2> QED BY <2>2, <2>3
<1>13. ASSUME NEW k \in Key, NEW d \in Doc \cup {Absent}, Edit(k, d) PROVE TypeOK'
  BY <1>13 DEF Edit, TypeOK, commit, search, debts, history, Store
<1>14. ASSUME NEW done \in SUBSET Key, Tear(done) PROVE TypeOK'
  <2>1. store' \in Store
    BY <1>14 DEF Tear, TypeOK, Store, Batch
  <2> QED BY <1>14, <2>1, ReleaseType DEF Tear, TypeOK, counters
<1> QED BY <1>2, <1>3, <1>4, <1>5, <1>6, <1>7, <1>8, <1>9, <1>10, <1>11, <1>12, <1>13, <1>14
        DEF Next, CommitStep, Environment, Finished

\* Every reachable state of the gate, its search and its caches is well-typed.
THEOREM TypeCorrect == Spec => []TypeOK
<1>1. Init => TypeOK
  BY InitInv DEF IntegrityInv
<1> QED BY <1>1, TypeStep, PTL DEF Spec

-----------------------------------------------------------------------------
(* What the steps do *)

\* A commit whose own variables do not change and whose process is not restarted.
Still ==
  UNCHANGED <<holder, pc, pending, before, search, debts>> /\ (pc # "idle" => Mine' = Mine)

LEMMA StillKeeps ==
  ASSUME Still
  PROVE  /\ SearchInv => SearchInv'
         /\ DebtInv => DebtInv'
         /\ GateIsExact => GateIsExact'
BY DEF Still, SearchInv, DebtInv, GateIsExact, Searched, After, search, debts

LEMMA ReleaseKeeps ==
  ASSUME Release
  PROVE  SearchInv' /\ DebtInv' /\ GateIsExact' /\ StoreInv'
BY DEF Release, SearchInv, DebtInv, GateIsExact, StoreInv

\* The debt in hand when a search ends is the debt of the definitions.
LEMMA SearchedDebt ==
  ASSUME SearchInv, pc \in {"after", "before"}, frontier = {}
  PROVE  DebtWith(Mine, Searched, seen) = Debt(Mine, Searched)
<1>1. CASE Mine.orphans = "off"
  BY <1>1 DEF Debt, DebtWith
<1>2. CASE Mine.orphans # "off"
  BY <1>2, SearchComplete DEF Debt
<1> QED BY <1>1, <1>2

\* A new search has found the root and has to visit it.
LEMMA SearchStarts ==
  ASSUME StartSearch(Mine', Searched'), Mine'.orphans # "off"
  PROVE  SearchInv'
<1>1. CASE Root \in Docs(Searched')
  <2>1. seen' = {Root} /\ frontier' = {Root}
    BY <1>1 DEF StartSearch
  <2>2. Root \in Reach(Searched')
    BY <1>1, ReachClosed
  <2> QED BY <2>1, <2>2 DEF SearchInv
<1>2. CASE Root \notin Docs(Searched')
  <2>1. seen' = {} /\ frontier' = {}
    BY <1>2 DEF StartSearch
  <2> QED BY <1>2, <2>1 DEF SearchInv
<1> QED BY <1>1, <1>2

\* What was not asked for before makes no difference.
LEMMA NoNeed ==
  ASSUME NEW o \in Options, NEW a \in Debts, NEW b \in Debts, ~NeedsBefore(o, a)
  PROVE  Introduced(o, a, NoDebt) = Introduced(o, a, b)
<1>1. o.links = "no-new" => a.broken = {}
  BY DEF NeedsBefore
<1>2. o.orphans = "no-new" => a.orphans = {}
  BY DEF NeedsBefore
<1> QED BY <1>1, <1>2 DEF Introduced, NoDebt

-----------------------------------------------------------------------------
(* The search and the gate *)

LEMMA SearchStep == IntegrityInv /\ [Next]_integrityVars => SearchInv'
<1> SUFFICES ASSUME IntegrityInv, [Next]_integrityVars PROVE SearchInv'
  OBVIOUS
<1> USE DEF IntegrityInv
<1>1. CASE UNCHANGED integrityVars
  <2>1. Still
    BY <1>1 DEF integrityVars, commit, Still, Mine, search, debts
  <2> QED BY <2>1, StillKeeps
<1>2. ASSUME NEW k \in Key, Visit(k) PROVE SearchInv'
  <2> DEFINE found == (Targets(Searched, k) \cap Docs(Searched)) \ seen
  <2>1. /\ UNCHANGED <<holder, pc, pending, before, options>>
        /\ pc \in {"after", "before"} /\ k \in frontier
        /\ seen' = seen \cup found /\ frontier' = (frontier \ {k}) \cup found
    BY <1>2 DEF Visit
  <2>2. Searched' = Searched /\ Mine' = Mine
    BY <2>1 DEF Searched, After, Mine
  <2>3. SUFFICES ASSUME Mine.orphans # "off"
                 PROVE  /\ frontier' \subseteq seen'
                        /\ seen' \subseteq Reach(Searched)
                        /\ Root \in Docs(Searched) => Root \in seen'
                        /\ \A j \in seen' \ frontier' :
                             Targets(Searched, j) \cap Docs(Searched) \subseteq seen'
    BY <2>1, <2>2 DEF SearchInv
  <2>4. /\ frontier \subseteq seen /\ seen \subseteq Reach(Searched)
        /\ Root \in Docs(Searched) => Root \in seen
        /\ \A j \in seen \ frontier : Targets(Searched, j) \cap Docs(Searched) \subseteq seen
    BY <2>1, <2>3 DEF SearchInv
  <2>5. found \subseteq Reach(Searched)
    BY <2>1, <2>4, ReachClosed DEF Closed
  <2>6. ASSUME NEW j \in seen' \ frontier'
        PROVE  Targets(Searched, j) \cap Docs(Searched) \subseteq seen'
    <3>1. j = k \/ j \in seen \ frontier
      BY <2>1, <2>6
    <3> QED BY <2>1, <2>4, <3>1
  <2> QED BY <2>1, <2>4, <2>5, <2>6
<1>3. ASSUME AfterSearched PROVE SearchInv'
  <2>1. CASE pc' = "judge"
    BY <2>1 DEF SearchInv
  <2>2. CASE pc' # "judge"
    <3>1. /\ UNCHANGED <<holder, options, before>>
          /\ pc' = "before" /\ StartSearch(Mine, before)
      BY <1>3, <2>2 DEF AfterSearched
    <3>2. Searched' = before /\ Mine' = Mine
      BY <3>1 DEF Searched, Mine
    <3>3. CASE Mine.orphans = "off"
      BY <3>2, <3>3 DEF SearchInv
    <3>4. CASE Mine.orphans # "off"
      BY <3>1, <3>2, <3>4, SearchStarts
    <3> QED BY <3>3, <3>4
  <2> QED BY <2>1, <2>2
<1>4. ASSUME NEW p \in Proc, NEW w \in Batches, Begin(p, w) PROVE SearchInv'
  <2>1. CASE pc' = "apply"
    BY <2>1 DEF SearchInv
  <2>2. CASE pc' # "apply"
    <3>1. /\ pc' = "after" /\ holder' = p /\ UNCHANGED options
          /\ StartSearch(options[p], After')
      BY <1>4, <2>2 DEF Begin
    <3>2. Searched' = After' /\ Mine' = options[p]
      BY <3>1 DEF Searched, Mine
    <3>3. CASE Mine'.orphans = "off"
      BY <3>3 DEF SearchInv
    <3>4. CASE Mine'.orphans # "off"
      BY <3>1, <3>2, <3>4, SearchStarts
    <3> QED BY <3>3, <3>4
  <2> QED BY <2>1, <2>2
<1>5. ASSUME NEW p \in Proc, NEW o \in Options, Restart(p, o) PROVE SearchInv'
  <2>1. CASE holder = p
    BY <1>5, <2>1, ReleaseKeeps DEF Restart
  <2>2. CASE holder # p
    <3>1. Still
      BY <1>5, <2>2 DEF Restart, commit, Still, Mine, search, debts, TypeOK
    <3> QED BY <3>1, StillKeeps
  <2> QED BY <2>1, <2>2
<1>6. ASSUME NEW k \in Key, NEW d \in Doc \cup {Absent}, Edit(k, d) PROVE SearchInv'
  <2>1. Still
    BY <1>6 DEF Edit, commit, Still, Mine, search, debts
  <2> QED BY <2>1, StillKeeps
<1>7. CASE \/ BeforeSearched \/ Judge \/ Refuse \/ Write \/ Land \/ Revert
           \/ \E done \in SUBSET Key : Tear(done)
  <2>1. pc' \notin {"after", "before"}
    BY <1>7 DEF BeforeSearched, Judge, Refuse, Write, Land, Revert, Tear, Release
  <2> QED BY <2>1 DEF SearchInv
<1> QED BY <1>1, <1>2, <1>3, <1>4, <1>5, <1>6, <1>7
        DEF Next, CommitStep, Environment, Finished

LEMMA CacheStep == IntegrityInv /\ [Next]_integrityVars => CacheIsTruthful'
<1> SUFFICES ASSUME IntegrityInv, [Next]_integrityVars PROVE CacheIsTruthful'
  OBVIOUS
<1> USE DEF IntegrityInv
<1>1. ASSUME NEW g, NEW d, d = Debt(Mine, g), Put(g, d) PROVE CacheIsTruthful'
  <2>1. SUFFICES ASSUME NEW p \in Proc, cache'[p] # NoEntry
                 PROVE  cache'[p].debt = Debt(cache'[p].context, cache'[p].state)
    BY DEF CacheIsTruthful
  <2>2. CASE p = holder
    BY <1>1, <2>1, <2>2 DEF Put, TypeOK
  <2>3. CASE p # holder
    <3>1. cache'[p] = cache[p]
      BY <1>1, <2>1, <2>3 DEF Put, TypeOK
    <3> QED BY <2>1, <3>1 DEF CacheIsTruthful
  <2> QED BY <2>2, <2>3
<1>2. ASSUME UNCHANGED cache PROVE CacheIsTruthful'
  BY <1>2 DEF CacheIsTruthful
<1>3. ASSUME BeforeSearched PROVE CacheIsTruthful'
  <2>1. pc = "before" /\ frontier = {} /\ Searched = before
    BY <1>3 DEF BeforeSearched, Searched
  <2>2. beforeDebt' = Debt(Mine, before)
    BY <1>3, <2>1, SearchedDebt DEF BeforeSearched
  <2> QED BY <1>1, <1>3, <2>2 DEF BeforeSearched
<1>4. ASSUME Land PROVE CacheIsTruthful'
  <2>1. CASE Caches(Mine)
    <3>1. afterDebt = Debt(Mine, After)
      BY <1>4, <2>1 DEF Land, DebtInv
    <3> QED BY <1>1, <1>4, <2>1, <3>1 DEF Land
  <2> QED BY <1>2, <1>4, <2>1 DEF Land
<1>5. ASSUME NEW p \in Proc, NEW o \in Options, Restart(p, o) PROVE CacheIsTruthful'
  BY <1>5 DEF Restart, CacheIsTruthful, TypeOK
<1>6. CASE \/ UNCHANGED integrityVars
           \/ \E k \in Key : Visit(k)
           \/ AfterSearched \/ Judge \/ Refuse \/ Write \/ Revert
           \/ \E done \in SUBSET Key : Tear(done)
           \/ \E p \in Proc, w \in Batches : Begin(p, w)
           \/ \E k \in Key, d \in Doc \cup {Absent} : Edit(k, d)
  BY <1>2, <1>6
     DEF integrityVars, Visit, AfterSearched, Judge, Refuse, Write, Revert, Tear, Begin, Edit
<1> QED BY <1>3, <1>4, <1>5, <1>6 DEF Next, CommitStep, Environment, Finished

LEMMA GateStep == IntegrityInv /\ [Next]_integrityVars => DebtInv' /\ GateIsExact'
<1> SUFFICES ASSUME IntegrityInv, [Next]_integrityVars PROVE DebtInv' /\ GateIsExact'
  OBVIOUS
<1> USE DEF IntegrityInv
<1>1. CASE UNCHANGED integrityVars \/ \E k \in Key, d \in Doc \cup {Absent} : Edit(k, d)
  <2>1. Still
    BY <1>1 DEF integrityVars, Edit, commit, Still, Mine, search, debts
  <2> QED BY <2>1, StillKeeps
<1>2. ASSUME NEW p \in Proc, NEW o \in Options, Restart(p, o) PROVE DebtInv' /\ GateIsExact'
  <2>1. CASE holder = p
    BY <1>2, <2>1, ReleaseKeeps DEF Restart
  <2>2. CASE holder # p
    <3>1. Still
      BY <1>2, <2>2 DEF Restart, commit, Still, Mine, search, debts, TypeOK
    <3> QED BY <3>1, StillKeeps
  <2> QED BY <2>1, <2>2
<1>3. CASE Refuse \/ Land \/ Revert \/ (\E done \in SUBSET Key : Tear(done))
  <2>1. Release
    BY <1>3 DEF Refuse, Land, Revert, Tear
  <2> QED BY <2>1, ReleaseKeeps
<1>4. ASSUME NEW k \in Key, Visit(k) PROVE DebtInv' /\ GateIsExact'
  BY <1>4 DEF Visit, DebtInv, GateIsExact, Mine, After, debts
<1>5. ASSUME AfterSearched PROVE DebtInv' /\ GateIsExact'
  <2>1. /\ pc = "after" /\ frontier = {} /\ Searched = After
        /\ UNCHANGED <<holder, options, pending, before>>
    BY <1>5 DEF AfterSearched, Searched
  <2>2. afterDebt' = Debt(Mine, After) /\ Mine' = Mine /\ After' = After
    BY <1>5, <2>1, SearchedDebt DEF AfterSearched, Mine, After
  <2>3. holder \in Proc /\ Mine \in Options /\ afterDebt' \in Debts
    BY <2>1, <2>2, DebtsType DEF TypeOK, Mine
  <2>4. ASSUME pc' = "judge"
        PROVE  Introduced(Mine, afterDebt', beforeDebt')
                 = Introduced(Mine, afterDebt', Debt(Mine, before))
    <3>1. CASE ~NeedsBefore(Mine, afterDebt')
      <4>1. beforeDebt' = beforeDebt
        BY <1>5, <3>1 DEF AfterSearched
      <4>2. beforeDebt = NoDebt
        BY <2>1 DEF DebtInv
      <4> QED BY <2>3, <3>1, <4>1, <4>2, NoNeed, DebtsType
    <3>2. CASE NeedsBefore(Mine, afterDebt')
      <4>1. Hit /\ beforeDebt' = cache[holder].debt
        BY <1>5, <2>4, <3>2 DEF AfterSearched
      <4>2. cache[holder] # NoEntry
        <5>1. cache[holder].context \in Options /\ NoEntry.context = Unset
          BY <2>3, <4>1 DEF Hit, NoEntry
        <5> QED BY <5>1, IntegrityConstants
      <4> QED BY <2>3, <4>1, <4>2 DEF CacheIsTruthful, Hit
    <3> QED BY <3>1, <3>2
  <2>5. pc' \in {"judge", "before"}
    BY <1>5 DEF AfterSearched
  <2> QED BY <2>1, <2>2, <2>4, <2>5 DEF DebtInv, GateIsExact
<1>6. ASSUME BeforeSearched PROVE DebtInv' /\ GateIsExact'
  <2>1. /\ pc = "before" /\ frontier = {} /\ Searched = before
        /\ pc' = "judge" /\ UNCHANGED <<holder, options, pending, before, afterDebt>>
    BY <1>6 DEF BeforeSearched, Searched
  <2>2. beforeDebt' = Debt(Mine, before)
    BY <1>6, <2>1, SearchedDebt DEF BeforeSearched
  <2> QED BY <2>1, <2>2 DEF DebtInv, GateIsExact, Mine, After
<1>7. ASSUME Judge PROVE DebtInv' /\ GateIsExact'
  BY <1>7 DEF Judge, DebtInv, GateIsExact, Mine, After, debts
<1>8. ASSUME Write PROVE DebtInv' /\ GateIsExact'
  BY <1>8 DEF Write, DebtInv, GateIsExact, Mine, After, debts
<1>9. ASSUME NEW p \in Proc, NEW w \in Batches, Begin(p, w) PROVE DebtInv' /\ GateIsExact'
  <2>1. CASE Enabled(options[p])
    <3>1. pc' = "after" /\ beforeDebt' = NoDebt
      BY <1>9, <2>1 DEF Begin
    <3> QED BY <3>1 DEF DebtInv, GateIsExact
  <2>2. CASE ~Enabled(options[p])
    <3>1. pc' = "apply" /\ Mine' = options[p]
      BY <1>9, <2>2 DEF Begin, Mine
    <3>2. Introduced(Mine', Debt(Mine', After'), Debt(Mine', before')) = NoDebt
      BY <2>2, <3>1 DEF Enabled, Introduced, Debt, DebtWith, NoDebt
    <3>3. ~Caches(Mine')
      BY <2>2, <3>1 DEF Enabled, Caches
    <3> QED BY <3>1, <3>2, <3>3 DEF DebtInv, GateIsExact
  <2> QED BY <2>1, <2>2
<1> QED BY <1>1, <1>2, <1>3, <1>4, <1>5, <1>6, <1>7, <1>8, <1>9
        DEF Next, CommitStep, Environment, Finished

-----------------------------------------------------------------------------
(* Debt never grows *)

\* What a passing gate leaves is no worse than what it compared with.
LEMMA PassedNoWorse ==
  ASSUME TypeOK, NEW o \in used, NEW g, NEW h, NoWorse(g),
         Introduced(o, Debt(o, h), Debt(o, g)) = NoDebt
  PROVE  NoWorse(h)
<1>1. ASSUME \A u \in used : u.links # "off" PROVE Broken(h) \subseteq Broken(origin)
  <2>1. Debt(o, h).broken = Broken(h) /\ Debt(o, g).broken = Broken(g)
    BY <1>1 DEF Debt, DebtWith
  <2>2. Broken(h) \subseteq Broken(g)
    <3>1. Introduced(o, Debt(o, h), Debt(o, g)).broken = {}
      BY DEF NoDebt
    <3> QED BY <2>1, <3>1 DEF Introduced
  <2> QED BY <1>1, <2>2 DEF NoWorse
<1>2. ASSUME \A u \in used : u.orphans # "off"
      PROVE  Docs(h) \ Reach(h) \subseteq Docs(origin) \ Reach(origin)
  <2>1. /\ Debt(o, h).orphans = Docs(h) \ Reach(h)
        /\ Debt(o, g).orphans = Docs(g) \ Reach(g)
    BY <1>2 DEF Debt, DebtWith
  <2>2. Docs(h) \ Reach(h) \subseteq Docs(g) \ Reach(g)
    <3>1. Introduced(o, Debt(o, h), Debt(o, g)).orphans = {}
      BY DEF NoDebt
    <3> QED BY <2>1, <3>1 DEF Introduced
  <2> QED BY <1>2, <2>2 DEF NoWorse
<1> QED BY <1>1, <1>2 DEF NoWorse

\* The steps that neither write the store nor move past the gate.
LEMMA StoreQuiet ==
  ASSUME DebtNeverGrows, StoreInv, UNCHANGED <<store, pending, before, prior, edits, history>>,
         pc \notin {"idle", "verify"}, pc' \notin {"idle", "verify"}
  PROVE  DebtNeverGrows' /\ StoreInv'
BY DEF DebtNeverGrows, StoreInv, NoWorse, Undisturbed, history

LEMMA StoreStep == IntegrityInv /\ [Next]_integrityVars => StoreInv' /\ DebtNeverGrows'
<1> SUFFICES ASSUME IntegrityInv, [Next]_integrityVars PROVE StoreInv' /\ DebtNeverGrows'
  OBVIOUS
<1> USE DEF IntegrityInv, Undisturbed
<1>1. CASE UNCHANGED integrityVars
  BY <1>1 DEF integrityVars, commit, counters, history, StoreInv, DebtNeverGrows, NoWorse, After
<1>2. CASE \/ \E k \in Key : Visit(k)
           \/ AfterSearched \/ BeforeSearched \/ Judge
  <2>1. /\ UNCHANGED <<store, pending, before, prior, edits, history>>
        /\ pc \notin {"idle", "verify"} /\ pc' \notin {"idle", "verify"}
    BY <1>2 DEF Visit, AfterSearched, BeforeSearched, Judge, counters
  <2> QED BY <2>1, StoreQuiet
<1>3. CASE Refuse \/ Land
  <2>1. Release /\ UNCHANGED <<store, edits, origin, used, torn>>
    BY <1>3 DEF Refuse, Land, counters, history
  <2> QED BY <2>1, ReleaseKeeps DEF DebtNeverGrows, NoWorse
<1>4. ASSUME Write PROVE StoreInv' /\ DebtNeverGrows'
  <2>1. /\ pc = "apply" /\ pc' = "verify" /\ prior' = store /\ store' = Apply(pending, store)
        /\ UNCHANGED <<pending, before, edits, origin, used, torn>>
    BY <1>4 DEF Write, counters, history
  <2>2. SUFFICES ASSUME Undisturbed
                 PROVE  store' = After /\ prior' = before /\ NoWorse(before) /\ NoWorse(After)
    BY <2>1 DEF StoreInv, DebtNeverGrows, NoWorse, After
  <2>3. store = before /\ NoWorse(before)
    BY <2>1, <2>2 DEF StoreInv
  <2>4. Mine \in used
    BY <2>1 DEF TypeOK, Mine
  <2>5. NoWorse(After)
    BY <2>1, <2>3, <2>4, PassedNoWorse DEF GateIsExact
  <2> QED BY <2>1, <2>3, <2>5 DEF After
<1>5. ASSUME Revert PROVE StoreInv' /\ DebtNeverGrows'
  <2>1. /\ Release /\ pc = "verify" /\ UNCHANGED <<edits, origin, used, torn>>
        /\ store' = [k \in Key |-> IF pending[k] = Unset THEN store[k] ELSE prior[k]]
    BY <1>5 DEF Revert, counters, history
  <2>2. SUFFICES ASSUME Undisturbed PROVE NoWorse(store')
    BY <2>1, ReleaseKeeps DEF DebtNeverGrows, NoWorse
  <2>3. store = After /\ prior = before /\ NoWorse(before)
    BY <2>1, <2>2 DEF StoreInv
  <2>4. store' = before
    BY <2>1, <2>3 DEF After, Apply, TypeOK, Store
  <2> QED BY <2>3, <2>4
<1>6. ASSUME NEW p \in Proc, NEW w \in Batches, Begin(p, w) PROVE StoreInv' /\ DebtNeverGrows'
  <2>1. /\ before' = store /\ pc' \in {"after", "apply"}
        /\ UNCHANGED <<store, edits, origin, used, torn>>
    BY <1>6 DEF Begin, history
  <2> QED BY <2>1 DEF StoreInv, DebtNeverGrows, NoWorse
<1>7. ASSUME NEW p \in Proc, NEW o \in Options, Restart(p, o)
      PROVE  StoreInv' /\ DebtNeverGrows'
  <2>1. UNCHANGED <<store, edits, origin, torn>> /\ used' = used \cup {o}
    BY <1>7 DEF Restart
  <2>2. DebtNeverGrows'
    BY <2>1 DEF DebtNeverGrows, NoWorse
  <2>3. CASE holder = p
    BY <1>7, <2>2, <2>3, ReleaseKeeps DEF Restart
  <2>4. CASE holder # p
    <3>1. UNCHANGED <<pc, pending, before, prior>>
      BY <1>7, <2>4 DEF Restart, commit
    <3> QED BY <2>1, <2>2, <3>1 DEF StoreInv, After, NoWorse
  <2> QED BY <2>3, <2>4
<1>8. ASSUME NEW k \in Key, NEW d \in Doc \cup {Absent}, Edit(k, d)
      PROVE  StoreInv' /\ DebtNeverGrows'
  <2>1. edits' # 0
    BY <1>8 DEF Edit, TypeOK
  <2> QED BY <2>1 DEF StoreInv, DebtNeverGrows
<1>9. ASSUME NEW done \in SUBSET Key, Tear(done) PROVE StoreInv' /\ DebtNeverGrows'
  BY <1>9 DEF Tear, StoreInv, DebtNeverGrows
<1> QED BY <1>1, <1>2, <1>3, <1>4, <1>5, <1>6, <1>7, <1>8, <1>9
        DEF Next, CommitStep, Environment, Finished

-----------------------------------------------------------------------------
(* The theorems *)

LEMMA UsedStep ==
  IntegrityInv /\ [Next]_integrityVars => \A p \in Proc : options'[p] \in used'
<1> SUFFICES ASSUME IntegrityInv, [Next]_integrityVars, NEW p \in Proc
             PROVE  options'[p] \in used'
  OBVIOUS
<1> USE DEF IntegrityInv
<1>1. ASSUME NEW q \in Proc, NEW o \in Options, Restart(q, o) PROVE options'[p] \in used'
  BY <1>1 DEF Restart, TypeOK
<1>2. CASE UNCHANGED <<options, used>>
  BY <1>2
<1> QED BY <1>1, <1>2
        DEF Next, CommitStep, Environment, Finished, integrityVars, history, Visit,
            AfterSearched, BeforeSearched, Judge, Refuse, Write, Land, Revert, Tear, Begin, Edit

LEMMA Invariance == Spec => []IntegrityInv
<1>1. IntegrityInv /\ [Next]_integrityVars => IntegrityInv'
  BY TypeStep, UsedStep, CacheStep, SearchStep, GateStep, StoreStep DEF IntegrityInv
<1> QED BY <1>1, InitInv, PTL DEF Spec

\* The gate passes and refuses as the definitions of broken link and orphan say, for
\* every store, every change set, any history of the debt cache and any set of keys.
THEOREM GateExact == Spec => []GateIsExact
<1>1. IntegrityInv => GateIsExact
  BY DEF IntegrityInv
<1> QED BY <1>1, Invariance, PTL

\* Commits alone never add what every process refuses to add, in histories of any
\* length and among any number of processes.
THEOREM NoDebtAdded == Spec => []DebtNeverGrows
<1>1. IntegrityInv => DebtNeverGrows
  BY DEF IntegrityInv
<1> QED BY <1>1, Invariance, PTL
=============================================================================
