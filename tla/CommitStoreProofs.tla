------------------------- MODULE CommitStoreProofs -------------------------
(***************************************************************************)
(* Proofs about CommitStore for any number of processes, keys, documents,  *)
(* crashes and I/O errors.  HoldInv says who is inside the commit lock;    *)
(* PhaseInv says what each position of a validated commit has established; *)
(* the safety properties follow from the two.                              *)
(***************************************************************************)
EXTENDS CommitStore, TLAPS

\* What begin, write, commit and abort keep in memory is well-typed.
LocalsOK ==
  /\ txno \in [Proc -> Nat]
  /\ pending \in [Proc -> Staged]
  /\ baseline \in [Proc -> Staged]
  /\ judged \in [Proc -> Staged]
  /\ prior \in [Proc -> Staged]
  /\ todo \in [Proc -> SUBSET Key]
  /\ cur \in [Proc -> Key \cup {Unset}]
  /\ seq \in [Proc -> Nat]

LockOK == last \in Nat /\ free \in BOOLEAN /\ token \in [Proc -> Nat]

\* Clearing a transaction keeps its memory well-typed.
LEMMA ClearType ==
  ASSUME LocalsOK, NEW p \in Proc, Clear(p)
  PROVE  LocalsOK'
  BY DEF LocalsOK, Clear, Staged, Nothing

\* Operations of the commit lock keep it well-typed.
LEMMA LockType ==
  ASSUME LockOK, NEW p \in Proc,
         \/ Grant(p) \/ Reclaim(p) \/ GrantWithoutGuard
         \/ Release(p) \/ Abandon(p) \/ UNCHANGED lockVars
  PROVE  LockOK'
<1>1. last' \in Nat
  BY DEF LockOK, Grant, Reclaim, GrantWithoutGuard, Release, Abandon, lockVars
<1>2. token' \in [Proc -> Nat]
  BY DEF LockOK, Grant, Reclaim, GrantWithoutGuard, Release, Abandon, lockVars
<1>3. free' \in BOOLEAN
  BY Zenon DEF LockOK, Grant, Reclaim, GrantWithoutGuard, Release, Abandon, lockVars
<1>4. QED
  BY <1>1, <1>2, <1>3 DEF LockOK

\* So does an attempt that got no hold.
LEMMA NoHoldType ==
  ASSUME LockOK, stalls \in Nat, NEW p \in Proc, NoHold
  PROVE  LockOK' /\ stalls' \in Nat
<1>1. GrantWithoutGuard \/ UNCHANGED lockVars
  BY DEF NoHold, lockVars
<1>2. stalls' \in Nat
  BY DEF NoHold, Supersedes
<1>3. QED
  BY <1>1, <1>2, LockType

\* Whatever an append leaves behind, the journal stays a sequence of entries.
LEMMA AppendType ==
  ASSUME journal \in Seq(Entry), NEW n \in Nat, NEW t \in Nat
  PROVE  /\ Append(journal, [seq |-> n, tx |-> t]) \in Seq(Entry)
         /\ Append(journal, Newline) \in Seq(Entry)
         /\ Append(journal, Fragment) \in Seq(Entry)
<1>1. /\ [seq |-> n, tx |-> t] \in Entry
      /\ Newline \in Entry /\ Fragment \in Entry
  BY DEF Entry, Newline, Fragment
<1>2. \A e \in Entry : Append(journal, e) \in Seq(Entry)
  OBVIOUS
<1>3. QED
  BY <1>1, <1>2

\* next_seq returns a positive number.
LEMMA NextSeqType ==
  ASSUME journal \in Seq(Entry)
  PROVE  NextSeq \in Nat \ {0}
<1>1. CASE \E i \in DOMAIN journal : IsLastRecord(i)
  <2> DEFINE i == CHOOSE i \in DOMAIN journal : IsLastRecord(i)
  <2>1. i \in DOMAIN journal
    BY <1>1
  <2>2. journal[i] \in Entry
    BY <2>1
  <2>3. NextSeq = journal[i].seq + 1
    BY <1>1 DEF NextSeq
  <2>4. QED
    BY <2>2, <2>3 DEF Entry
<1>2. CASE ~ \E i \in DOMAIN journal : IsLastRecord(i)
  BY <1>2 DEF NextSeq
<1>3. QED
  BY <1>1, <1>2

\* The initial states are well-typed, and no loop runs.
LEMMA InitType == Init => TypeOK /\ LoopInv
<1> SUFFICES ASSUME Init PROVE TypeOK /\ LoopInv
  OBVIOUS
<1>1. TypeOK
  BY StoreConstants DEF Init, LockInit, TypeOK, Store, PC, Staged, Nothing
<1>2. LoopInv
  BY DEF Init, LoopInv, Loop, Touched
<1>3. QED
  BY <1>1, <1>2

\* What a process has in its own memory, and the snapshot taken for it.
SameFor(q) ==
  /\ pc'[q] = pc[q] /\ txno'[q] = txno[q]
  /\ pending'[q] = pending[q] /\ baseline'[q] = baseline[q]
  /\ judged'[q] = judged[q] /\ prior'[q] = prior[q] /\ todo'[q] = todo[q]
  /\ cur'[q] = cur[q] /\ seq'[q] = seq[q] /\ token'[q] = token[q] /\ atGrant'[q] = atGrant[q]

\* A step of one process leaves the position, memory and snapshot of the others.
LEMMA Frame ==
  ASSUME TypeOK, NEW p \in Proc, Client(p) \/ CommitStep(p) \/ Fault(p),
         NEW q \in Proc, q # p
  PROVE  SameFor(q)
<1> USE DEF SameFor, locals, lockVars, Goes, Clear, TypeOK, Grant, Reclaim, Release, Abandon
<1>1. CASE Client(p)
  <2>1. CASE Begin(p) \/ CheckPermission(p) \/ StageChecked(p) \/ Commit(p) \/ Abort(p)
    BY <2>1 DEF Begin, CheckPermission, StageChecked, Commit, Abort, SeesBaseline
  <2>2. ASSUME NEW k \in Key, NEW d \in Doc \cup {Absent},
               Stage(p, k, d) \/ CheckFirst(p, k, d) \/ Plan(p, k, d)
        PROVE SameFor(q)
    BY <2>2 DEF Stage, CheckFirst, Plan, SeesBaseline
  <2>3. QED
    BY <1>1, <2>1, <2>2 DEF Client
<1>2. CASE Fault(p)
  <2>1. CASE WriteError(p)
    BY <2>1 DEF WriteError
  <2>2. CASE JournalError(p)
    BY <2>2 DEF JournalError, FinishWithoutTrigger
  <2>3. CASE Crash(p)
    BY <2>3 DEF Crash
  <2>4. QED
    BY <1>2, <2>1, <2>2, <2>3 DEF Fault
<1>3. CASE CommitStep(p)
  <2>1. CASE Acquire(p)
    BY <2>1 DEF Acquire, TakeLock, Supersedes
  <2>2. CASE LockRefused(p) \/ DropGuard(p)
    BY <2>2 DEF LockRefused, DropGuard, Supersedes, NoHold, GrantWithoutGuard
  <2>3. CASE CheckConflicts(p) \/ Validate(p) \/ Fence(p) \/ ReadPrior(p)
    BY <2>3 DEF CheckConflicts, Validate, Fence, ReadPrior
  <2>4. CASE CheckersPass(p) \/ CheckersFail(p) \/ WriteDocument(p)
    BY <2>4 DEF CheckersPass, CheckersFail, WriteDocument
  <2>5. CASE \E k \in Key : ApplyWrite(p, k) \/ RestoreKey(p, k)
    BY <2>5 DEF ApplyWrite, RestoreKey
  <2>6. CASE \E k \in Key : NextDocument(p, k)
    BY <2>6 DEF NextDocument
  <2>7. CASE ReadSeq(p) \/ WriteText(p) \/ WriteNewline(p)
    BY <2>7 DEF ReadSeq, WriteText, WriteNewline
  <2>8. CASE StartTrigger(p)
    BY <2>8 DEF StartTrigger, TakeLock, Supersedes
  <2>9. CASE SkipTrigger(p)
    BY <2>9 DEF SkipTrigger, FinishWithoutTrigger, Supersedes, NoHold, GrantWithoutGuard
  <2>10. QED
    BY <1>3, <2>1, <2>2, <2>3, <2>4, <2>5, <2>6, <2>7, <2>8, <2>9 DEF CommitStep
<1>4. QED
  BY <1>1, <1>2, <1>3

-----------------------------------------------------------------------------
(* Type correctness *)

\* Every step of every process keeps the state well-typed.
LEMMA TypeStep == TypeOK /\ LoopInv /\ [Next]_storeVars => TypeOK'
<1> SUFFICES ASSUME TypeOK, LoopInv, [Next]_storeVars PROVE TypeOK'
  OBVIOUS
<1> USE DEF counters, locals
<1>a. LocalsOK /\ LockOK
  BY DEF TypeOK, LocalsOK, LockOK
<1>b. Doc \cup {Absent} \subseteq Content /\ Torn \in Content
  BY DEF Content
<1>c. ASSUME LocalsOK', LockOK', store' \in Store, journal' \in Seq(Entry),
             pc' \in [Proc -> PC], started' \in Nat, stalls' \in Nat, crashes' \in Nat,
             atGrant' \in [Proc -> Store], landed' \subseteq Nat
      PROVE  TypeOK'
  BY <1>c DEF TypeOK, LocalsOK, LockOK
<1>d. \A p \in Proc : \A k \in todo[p] : k \in Key /\ pending[p][k] \in Content
  BY DEF TypeOK, Staged, LoopInv, Loop, Touched
<1>1. CASE UNCHANGED storeVars
  BY <1>1 DEF storeVars, lockVars, TypeOK
<1>2. CASE Finished
  BY <1>2 DEF Finished, storeVars, lockVars, TypeOK
<1>3. ASSUME NEW p \in Proc, Client(p) PROVE TypeOK'
  <2>1. CASE Begin(p)
    BY <2>1 DEF Begin, Goes, TypeOK, PC, lockVars
  <2>2. CASE Commit(p)
    BY <2>2 DEF Commit, Goes, Touched, TypeOK, PC, lockVars
  <2>3. CASE Abort(p)
    <3>1. LocalsOK'
      BY <1>a, <2>3, ClearType DEF Abort
    <3>2. QED
      BY <1>c, <2>3, <3>1 DEF Abort, Goes, TypeOK, PC, lockVars, LockOK
  <2>4. ASSUME NEW k \in Key, NEW d \in Doc \cup {Absent}, Stage(p, k, d) PROVE TypeOK'
    <3>1. d \in Content /\ store[k] \in Content
      BY <1>b DEF TypeOK, Store
    <3>2. pending' \in [Proc -> Staged] /\ baseline' \in [Proc -> Staged]
      BY <2>4, <3>1 DEF Stage, TypeOK, Staged, SeesBaseline
    <3>3. QED
      BY <2>4, <3>2 DEF Stage, Goes, TypeOK, PC, lockVars, SeesBaseline
  <2>5. ASSUME NEW k \in Key, NEW d \in Doc \cup {Absent}, Plan(p, k, d) PROVE TypeOK'
    <3>1. pending' \in [Proc -> Staged]
      BY <1>b, <2>5 DEF Plan, TypeOK, Staged
    <3>2. QED
      BY <2>5, <3>1 DEF Plan, TypeOK, lockVars
  <2>6. CASE CheckPermission(p)
    <3>1. cur[p] \in Key /\ store[cur[p]] \in Content
      BY <2>6 DEF CheckPermission, LoopInv, Loop, Touched, TypeOK, Store
    <3>2. CASE Permits(cur[p], store[cur[p]], pending[p][cur[p]])
      <4>1. judged' = [judged EXCEPT ![p][cur[p]] = store[cur[p]]]
        BY <2>6, <3>2 DEF CheckPermission
      <4>2. judged' \in [Proc -> Staged]
        BY <3>1, <4>1 DEF TypeOK, Staged
      <4>3. QED
        BY <2>6, <3>2, <4>2 DEF CheckPermission, TypeOK, PC, lockVars
    <3>3. CASE ~Permits(cur[p], store[cur[p]], pending[p][cur[p]])
      <4>1. LocalsOK' /\ pc' \in [Proc -> PC]
        BY <1>a, <2>6, <3>3, ClearType DEF CheckPermission, TypeOK, PC
      <4>2. QED
        BY <1>c, <2>6, <4>1 DEF CheckPermission, TypeOK, lockVars, LockOK
    <3>4. QED
      BY <3>2, <3>3
  <2>7. ASSUME NEW k \in Key, NEW d \in Doc \cup {Absent}, CheckFirst(p, k, d) PROVE TypeOK'
    <3>1. d \in Content /\ store[k] \in Content
      BY <1>b DEF TypeOK, Store
    <3>2. pending' \in [Proc -> Staged] /\ judged' \in [Proc -> Staged]
      BY <2>7, <3>1 DEF CheckFirst, TypeOK, Staged
    <3>3. QED
      BY <2>7, <3>2 DEF CheckFirst, Goes, TypeOK, PC, lockVars
  <2>8. CASE StageChecked(p)
    <3>1. cur[p] \in Key /\ store[cur[p]] \in Content
      BY <2>8 DEF StageChecked, Goes, LoopInv, Loop, Touched, TypeOK, Store, SeesBaseline
    <3>2. baseline' \in [Proc -> Staged]
      BY <2>8, <3>1 DEF StageChecked, TypeOK, Staged, SeesBaseline
    <3>3. QED
      BY <2>8, <3>2 DEF StageChecked, Goes, TypeOK, PC, lockVars, SeesBaseline
  <2>9. QED
    BY <1>3, <2>1, <2>2, <2>3, <2>4, <2>5, <2>6, <2>7, <2>8 DEF Client
<1>4. ASSUME NEW p \in Proc, CommitStep(p) PROVE TypeOK'
  <2>1. CASE Acquire(p)
    <3>1. LockOK' /\ stalls' \in Nat
      BY <1>a, <2>1, LockType DEF Acquire, TakeLock, TypeOK, Supersedes
    <3>2. QED
      BY <1>a, <1>c, <2>1, <3>1 DEF Acquire, Goes, TypeOK, PC, LocalsOK
  <2>2. CASE LockRefused(p)
    <3>1. LocalsOK'
      BY <1>a, <2>2, ClearType DEF LockRefused
    <3>2. LockOK' /\ stalls' \in Nat
      BY <1>a, <2>2, NoHoldType DEF LockRefused, TypeOK
    <3>3. QED
      BY <1>c, <2>2, <3>1, <3>2 DEF LockRefused, Goes, TypeOK, PC, LockOK
  <2>3. CASE DropGuard(p)
    <3>1. LockOK'
      BY <1>a, <2>3, LockType DEF DropGuard
    <3>2. LocalsOK'
      BY <1>a, <2>3, ClearType DEF DropGuard, LocalsOK
    <3>3. pc' \in [Proc -> PC]
      BY <2>3 DEF DropGuard, Goes, PC, TypeOK
    <3>4. QED
      BY <1>c, <2>3, <3>1, <3>2, <3>3 DEF DropGuard, TypeOK
  <2>4. CASE CheckConflicts(p) \/ Validate(p) \/ Fence(p)
    BY <2>4 DEF CheckConflicts, Validate, Fence, Goes, TypeOK, PC, lockVars
  <2>5. CASE ReadPrior(p)
    BY <2>5 DEF ReadPrior, Goes, TypeOK, PC, lockVars, Staged, Store
  <2>6. CASE CheckersPass(p)
    BY <2>6 DEF CheckersPass, Goes, TypeOK, PC, lockVars
  <2>7. CASE CheckersFail(p)
    BY <2>7 DEF CheckersFail, Goes, TypeOK, PC, lockVars, Touched
  <2>8. ASSUME NEW k \in Key, ApplyWrite(p, k) PROVE TypeOK'
    <3>1. pending[p][k] \in Content
      BY <1>d, <2>8 DEF ApplyWrite, IsNext
    <3>2. QED
      BY <2>8, <3>1 DEF ApplyWrite, Goes, TypeOK, PC, lockVars, Store
  <2>9. ASSUME NEW k \in Key, RestoreKey(p, k) PROVE TypeOK'
    <3>1. prior[p][k] \in Content
      BY <2>9 DEF RestoreKey, Goes, LoopInv, Loop
    <3>2. QED
      BY <2>9, <3>1 DEF RestoreKey, Goes, TypeOK, PC, lockVars, Store
  <2>10. ASSUME NEW k \in Key, NextDocument(p, k) PROVE TypeOK'
    <3>0. \E s \in {"next", "seq", "write", "failed"} : Goes(p, "next", s)
      BY <2>10 DEF NextDocument
    <3>1. pc' \in [Proc -> PC] /\ landed' \subseteq Nat
      <4>1. pc' \in [Proc -> PC]
        BY <3>0 DEF Goes, TypeOK, PC
      <4>2. landed' \in {landed, landed \cup {txno[p]}}
        BY <2>10 DEF NextDocument
      <4>3. QED
        BY <4>1, <4>2 DEF TypeOK
    <3>2. LocalsOK'
      BY <1>a, <2>10 DEF NextDocument, LocalsOK
    <3>3. QED
      BY <1>c, <2>10, <3>1, <3>2 DEF NextDocument, TypeOK, lockVars, LockOK
  <2>11. CASE WriteDocument(p)
    <3>1. cur[p] \in Key /\ pending[p][cur[p]] \in Content
      BY <1>d, <2>11 DEF WriteDocument, Goes, LoopInv, Loop
    <3>2. store' \in Store
      BY <2>11, <3>1 DEF WriteDocument, TypeOK, Store
    <3>3. QED
      BY <2>11, <3>2 DEF WriteDocument, Goes, TypeOK, PC, lockVars
  <2>12. CASE ReadSeq(p)
    <3>1. NextSeq \in Nat
      BY NextSeqType DEF TypeOK
    <3>2. QED
      BY <2>12, <3>1 DEF ReadSeq, Goes, TypeOK, PC, lockVars
  <2>13. CASE WriteText(p) \/ WriteNewline(p)
    <3>1. journal' \in Seq(Entry)
      <4>1. journal \in Seq(Entry) /\ seq[p] \in Nat /\ txno[p] \in Nat
        BY DEF TypeOK
      <4>2. QED
        BY <2>13, <4>1, AppendType DEF WriteText, WriteNewline
    <3>2. QED
      BY <2>13, <3>1 DEF WriteText, WriteNewline, Goes, TypeOK, PC, lockVars
  <2>14. CASE StartTrigger(p)
    <3>1. LockOK' /\ stalls' \in Nat
      BY <1>a, <2>14, LockType DEF StartTrigger, TakeLock, TypeOK, Supersedes
    <3>2. QED
      BY <1>a, <1>c, <2>14, <3>1 DEF StartTrigger, Goes, TypeOK, PC, LocalsOK
  <2>15. CASE SkipTrigger(p)
    <3>1. LocalsOK' /\ pc' \in [Proc -> PC]
      BY <1>a, <2>15, ClearType DEF SkipTrigger, FinishWithoutTrigger, TypeOK, PC, LocalsOK
    <3>2. LockOK' /\ stalls' \in Nat
      BY <1>a, <2>15, NoHoldType DEF SkipTrigger, TypeOK, lockVars, LockOK
    <3>3. QED
      BY <1>c, <2>15, <3>1, <3>2 DEF SkipTrigger, TypeOK, LockOK
  <2>16. QED
    BY <1>4, <2>1, <2>2, <2>3, <2>4, <2>5, <2>6, <2>7, <2>8, <2>9, <2>10, <2>11,
       <2>12, <2>13, <2>14, <2>15 DEF CommitStep
<1>5. ASSUME NEW p \in Proc, Fault(p) PROVE TypeOK'
  <2>1. CASE WriteError(p)
    <3>1. store' \in Store
      BY <1>b, <2>1 DEF WriteError, TypeOK, Store
    <3>2. QED
      BY <2>1, <3>1 DEF WriteError, Goes, TypeOK, PC, lockVars
  <2>2. CASE JournalError(p)
    <3>1. LocalsOK' /\ pc' \in [Proc -> PC]
      BY <1>a, <2>2, ClearType DEF JournalError, FinishWithoutTrigger, TypeOK, PC, LocalsOK
    <3>2. journal' \in Seq(Entry)
      BY <2>2, AppendType DEF JournalError, TypeOK
    <3>3. QED
      BY <1>c, <2>2, <3>1, <3>2 DEF JournalError, TypeOK, lockVars, LockOK
  <2>3. CASE Crash(p)
    <3>1. LocalsOK' /\ LockOK'
      BY <1>a, <2>3, ClearType, LockType DEF Crash
    <3>2. store' \in Store
      BY <1>b, <2>3 DEF Crash, TypeOK, Store
    <3>3. journal' \in Seq(Entry)
      BY <2>3, AppendType DEF Crash, TypeOK
    <3>4. QED
      BY <1>c, <2>3, <3>1, <3>2, <3>3 DEF Crash, TypeOK, PC
  <2>4. QED
    BY <1>5, <2>1, <2>2, <2>3 DEF Fault
<1>6. QED
  BY <1>1, <1>2, <1>3, <1>4, <1>5 DEF Next

\* Every step keeps the loops of the stepping process on staged keys.
LEMMA LoopStep == TypeOK /\ LoopInv /\ [Next]_storeVars => LoopInv'
<1> SUFFICES ASSUME TypeOK, LoopInv, [Next]_storeVars PROVE LoopInv'
  OBVIOUS
<1> USE DEF Goes, TypeOK, Staged, Store
<1>1. CASE UNCHANGED storeVars
  BY <1>1 DEF storeVars, locals, LoopInv, Loop, Touched
<1>2. CASE Finished
  BY <1>2 DEF Finished, storeVars, locals, LoopInv, Loop, Touched
<1>3. ASSUME NEW p \in Proc, Client(p) \/ CommitStep(p) \/ Fault(p) PROVE LoopInv'
  <2>1. ASSUME NEW q \in Proc, q # p PROVE Loop(q)'
    <3>1. SameFor(q)
      BY <1>3, <2>1, Frame
    <3>2. Loop(q)
      BY DEF LoopInv
    <3>3. QED
      BY <3>1, <3>2 DEF SameFor, Loop, Touched
  <2>2. Loop(p)'
    <3> USE DEF Loop, Touched, locals
    <3>1. Loop(p)
      BY DEF LoopInv
    <3>2. CASE Clear(p) /\ pc'[p] = "idle"
      BY <3>2 DEF Clear, Nothing
    <3>3. CASE UNCHANGED locals /\ pc'[p] \notin {"permit", "checked", "write", "apply", "verify", "restore"}
      BY <3>1, <3>3
    <3>4. CASE Client(p)
      <4>1. CASE Begin(p) \/ Commit(p)
        BY <3>1, <4>1 DEF Begin, Commit
      <4>2. CASE Abort(p)
        BY <3>2, <4>2 DEF Abort
      <4>3. ASSUME NEW k \in Key, NEW d \in Doc \cup {Absent}, Stage(p, k, d) PROVE Loop(p)'
        BY <3>1, <4>3, StoreConstants DEF Stage, SeesBaseline
      <4>4. ASSUME NEW k \in Key, NEW d \in Doc \cup {Absent}, Plan(p, k, d) PROVE Loop(p)'
        BY <3>1, <4>4, StoreConstants DEF Plan
      <4>5. CASE CheckPermission(p) \/ StageChecked(p)
        BY <3>1, <3>2, <4>5 DEF CheckPermission, StageChecked, SeesBaseline
      <4>6. ASSUME NEW k \in Key, NEW d \in Doc \cup {Absent}, CheckFirst(p, k, d) PROVE Loop(p)'
        BY <3>1, <4>6, StoreConstants DEF CheckFirst
      <4>7. QED
        BY <3>4, <4>1, <4>2, <4>3, <4>4, <4>5, <4>6 DEF Client
    <3>5. CASE Fault(p)
      <4>1. CASE WriteError(p)
        BY <3>3, <4>1 DEF WriteError
      <4>2. CASE JournalError(p)
        BY <3>2, <3>3, <4>2 DEF JournalError, FinishWithoutTrigger
      <4>3. CASE Crash(p)
        BY <3>2, <4>3 DEF Crash
      <4>4. QED
        BY <3>5, <4>1, <4>2, <4>3 DEF Fault
    <3>6. CASE CommitStep(p)
      <4>1. CASE Acquire(p) \/ StartTrigger(p) \/ WriteText(p) \/ WriteNewline(p)
        BY <3>3, <4>1 DEF Acquire, StartTrigger, WriteText, WriteNewline
      <4>2. CASE LockRefused(p) \/ SkipTrigger(p)
        BY <3>2, <3>3, <4>2 DEF LockRefused, SkipTrigger, FinishWithoutTrigger, Supersedes,
          NoHold, GrantWithoutGuard
      <4>3. CASE DropGuard(p)
        BY <3>2, <3>3, <4>3 DEF DropGuard
      <4>4. CASE CheckConflicts(p) \/ Validate(p) \/ Fence(p) \/ CheckersPass(p)
        BY <3>3, <4>4 DEF CheckConflicts, Validate, Fence, CheckersPass
      <4>5. CASE ReadPrior(p)
        BY <3>1, <4>5 DEF ReadPrior
      <4>6. CASE CheckersFail(p)
        BY <3>1, <4>6 DEF CheckersFail
      <4>7. ASSUME NEW k \in Key, ApplyWrite(p, k) PROVE Loop(p)'
        BY <3>1, <4>7 DEF ApplyWrite
      <4>8. ASSUME NEW k \in Key, RestoreKey(p, k) PROVE Loop(p)'
        BY <3>1, <4>8 DEF RestoreKey
      <4>9. ASSUME NEW k \in Key, NextDocument(p, k) PROVE Loop(p)'
        BY <3>1, <4>9 DEF NextDocument, IsNext
      <4>10. CASE WriteDocument(p)
        BY <3>1, <4>10 DEF WriteDocument
      <4>11. CASE ReadSeq(p)
        BY <3>1, <4>11 DEF ReadSeq
      <4>12. QED
        BY <3>6, <4>1, <4>2, <4>3, <4>4, <4>5, <4>6, <4>7, <4>8, <4>9, <4>10, <4>11
        DEF CommitStep
    <3>7. QED
      BY <1>3, <3>4, <3>5, <3>6
  <2>3. QED
    BY <2>1, <2>2 DEF LoopInv
<1>4. QED
  BY <1>1, <1>2, <1>3 DEF Next

\* Reachable states are well-typed and the loops run over staged keys.
LEMMA Typing == Spec => [](TypeOK /\ LoopInv)
<1>1. TypeOK /\ LoopInv /\ [Next]_storeVars => (TypeOK /\ LoopInv)'
  BY TypeStep, LoopStep
<1>2. QED
  BY <1>1, InitType, PTL DEF Spec

\* What is on disk and in every process's memory is always of the right kind: in
\* particular no loop ever writes a key the transaction did not stage.
THEOREM StoreTypeCorrect == Spec => []TypeOK
  BY Typing, PTL
-----------------------------------------------------------------------------
(* Who is inside the commit lock *)

\* Validated and plain commits run through their own positions.
OnPath(p) ==
  /\ p \in Validating => pc[p] \notin OnlyPlain
  /\ p \notin Validating => pc[p] \notin OnlyValidated

\* A step that leaves the lock alone and does not move into or out of it.
LEMMA HoldQuiet ==
  ASSUME TypeOK, HoldInv, NEW p \in Proc,
         \A q \in Proc \ {p} : SameFor(q),
         UNCHANGED <<lockVars, stalls>>,
         HoldsLock(p)' <=> HoldsLock(p), OnPath(p)'
  PROVE  HoldInv'
<1>1. \A q \in Proc \ {p} : (HoldsLock(q)' <=> HoldsLock(q)) /\ pc'[q] = pc[q]
  BY DEF SameFor, HoldsLock
<1>2. QED
  BY <1>1 DEF HoldInv, OnPath, lockVars

\* A process that takes the lock is the only current holder afterwards; if no
\* live hold was taken over, it is the only holder.
LEMMA HoldTake ==
  ASSUME TypeOK, HoldInv, NEW p \in Proc,
         \A q \in Proc \ {p} : SameFor(q),
         TakeLock(p), HoldsLock(p)', OnPath(p)'
  PROVE  HoldInv'
<1> USE DEF TypeOK
<1>1. \A q \in Proc \ {p} : (HoldsLock(q)' <=> HoldsLock(q)) /\ pc'[q] = pc[q]
  BY DEF SameFor, HoldsLock
<1>2. /\ last' = last + 1 /\ ~free'
      /\ token'[p] = last + 1
      /\ \A q \in Proc \ {p} : token'[q] = token[q] /\ token[q] <= last
  BY DEF TakeLock, Grant, Reclaim, HoldInv, Supersedes
<1>3. ASSUME stalls' = 0, NEW q \in Proc \ {p}, token[q] # 0 PROVE FALSE
  <2>1. CASE Grant(p) /\ UNCHANGED stalls
    BY <1>3, <2>1 DEF Grant, HoldInv
  <2>2. CASE Reclaim(p) /\ ~ \E r \in Proc : IsCurrent(r)
    BY <1>3, <2>2 DEF TakeLock, Reclaim, HoldInv, IsCurrent, Grant, Supersedes
  <2>3. CASE Reclaim(p) /\ \E r \in Proc : IsCurrent(r)
    BY <1>3, <2>3 DEF TakeLock, Reclaim, Grant, Supersedes
  <2>4. Grant(p) => UNCHANGED stalls
    BY DEF TakeLock, Supersedes, Grant
  <2>5. QED
    BY <2>1, <2>2, <2>3, <2>4 DEF TakeLock
<1>4. QED
  BY <1>1, <1>2, <1>3 DEF HoldInv, OnPath

\* A process that gets no hold has none: the generation an error used up is nobody's,
\* and it took the lock from nobody unless that counts as a stall.
LEMMA HoldNone ==
  ASSUME TypeOK, HoldInv, NEW p \in Proc,
         \A q \in Proc \ {p} : SameFor(q),
         NoHold, ~HoldsLock(p), ~HoldsLock(p)', OnPath(p)'
  PROVE  HoldInv'
<1> USE DEF TypeOK
<1>1. CASE UNCHANGED <<lockVars, stalls>>
  BY <1>1, HoldQuiet
<1>2. CASE GrantWithoutGuard /\ Supersedes
  <2>1. \A q \in Proc \ {p} : (HoldsLock(q)' <=> HoldsLock(q)) /\ pc'[q] = pc[q]
    BY DEF SameFor, HoldsLock
  <2>2. /\ last' = last + 1 /\ ~free' /\ token' = token
        /\ \A q \in Proc : token[q] <= last
    BY <1>2 DEF GrantWithoutGuard, HoldInv
  <2>3. token[p] = 0
    BY DEF HoldInv
  <2>4. ASSUME stalls' = 0, NEW q \in Proc, token[q] # 0 PROVE FALSE
    <3>1. stalls = 0
      BY <1>2, <2>4 DEF Supersedes
    <3>2. token[q] = last /\ ~free
      BY <2>4, <3>1 DEF HoldInv
    <3>3. QED
      BY <1>2, <2>4, <3>2 DEF Supersedes, IsCurrent
  <2>5. QED
    BY <2>1, <2>2, <2>3, <2>4 DEF HoldInv, OnPath
<1>3. QED
  BY <1>1, <1>2 DEF NoHold

\* A process that gives its guard up, with or without freeing the lock.
LEMMA HoldGive ==
  ASSUME TypeOK, HoldInv, NEW p \in Proc,
         \A q \in Proc \ {p} : SameFor(q),
         Release(p) \/ Abandon(p), UNCHANGED stalls, ~HoldsLock(p)', OnPath(p)'
  PROVE  HoldInv'
<1>t. last \in Nat /\ token \in [Proc -> Nat]
  BY DEF TypeOK
<1>1. \A q \in Proc \ {p} : (HoldsLock(q)' <=> HoldsLock(q)) /\ pc'[q] = pc[q]
  BY DEF SameFor, HoldsLock
<1>2. /\ last' = last /\ token'[p] = 0
      /\ \A q \in Proc \ {p} : token'[q] = token[q] /\ (token[q] # 0 => token[q] # token[p])
  BY <1>t DEF Release, Abandon, HoldInv
<1>3. free' => free \/ token[p] = last
  BY DEF Release, Abandon, IsCurrent
<1>4. ~free' => ~free
  BY DEF Release, Abandon
<1>5. QED
  BY <1>t, <1>1, <1>2, <1>3, <1>4 DEF HoldInv, OnPath

\* In the initial states nobody holds the lock.
LEMMA HoldInit == Init => HoldInv
  BY DEF Init, LockInit, HoldInv, HoldsLock, OnlyValidated, OnlyPlain, Ended, Journaling

\* Every step keeps guards and program positions together.
LEMMA HoldStep == TypeOK /\ HoldInv /\ [Next]_storeVars => HoldInv'
<1> SUFFICES ASSUME TypeOK, HoldInv, [Next]_storeVars PROVE HoldInv'
  OBVIOUS
<1> USE DEF Goes, TypeOK
<1>1. CASE UNCHANGED storeVars
  BY <1>1 DEF storeVars, lockVars, counters, HoldInv, HoldsLock
<1>2. CASE Finished
  BY <1>2 DEF Finished, storeVars, lockVars, counters, HoldInv, HoldsLock
<1>3. ASSUME NEW p \in Proc, Client(p) \/ CommitStep(p) \/ Fault(p) PROVE HoldInv'
  <2> USE DEF counters
  <2>1. \A q \in Proc \ {p} : SameFor(q)
    BY <1>3, Frame
  <2>2. OnPath(p)
    BY DEF HoldInv, OnPath
  <2>3. ASSUME UNCHANGED <<lockVars, stalls>>, HoldsLock(p)' <=> HoldsLock(p), OnPath(p)'
        PROVE  HoldInv'
    BY <2>1, <2>3, HoldQuiet
  <2>4. CASE Client(p)
    <3> USE DEF HoldsLock, OnPath, OnlyValidated, OnlyPlain, Ended, Journaling
    <3>1. CASE Begin(p) \/ CheckPermission(p) \/ StageChecked(p) \/ Commit(p) \/ Abort(p)
      BY <2>2, <2>3, <3>1 DEF Begin, CheckPermission, StageChecked, Commit, Abort, SeesBaseline
    <3>2. CASE \E k \in Key, d \in Doc \cup {Absent} :
                 Stage(p, k, d) \/ CheckFirst(p, k, d) \/ Plan(p, k, d)
      BY <2>2, <2>3, <3>2 DEF Stage, CheckFirst, Plan, SeesBaseline
    <3>3. QED
      BY <2>4, <3>1, <3>2 DEF Client
  <2>5. CASE Fault(p)
    <3> USE DEF HoldsLock, OnPath, OnlyValidated, OnlyPlain, Ended, Journaling
    <3>1. CASE WriteError(p)
      BY <2>2, <2>3, <3>1 DEF WriteError
    <3>2. CASE JournalError(p)
      BY <2>2, <2>3, <3>2 DEF JournalError, FinishWithoutTrigger
    <3>3. CASE Crash(p)
      <4>1. ~HoldsLock(p)' /\ OnPath(p)' /\ UNCHANGED stalls
        BY <3>3 DEF Crash
      <4>2. CASE token[p] = 0
        <5>1. ~HoldsLock(p)
          BY <4>2 DEF HoldInv
        <5>2. UNCHANGED lockVars
          BY <3>3, <4>2 DEF Crash
        <5>3. QED
          BY <2>3, <4>1, <5>1, <5>2
      <4>3. CASE token[p] # 0
        <5>1. Abandon(p)
          BY <3>3, <4>3 DEF Crash
        <5>2. QED
          BY <2>1, <4>1, <5>1, HoldGive
      <4>4. QED
        BY <4>2, <4>3
    <3>4. QED
      BY <2>5, <3>1, <3>2, <3>3 DEF Fault
  <2>6. CASE CommitStep(p)
    <3> USE DEF HoldsLock, OnPath, OnlyValidated, OnlyPlain, Ended, Journaling
    <3>1. CASE Acquire(p)
      <4>1. TakeLock(p) /\ HoldsLock(p)' /\ OnPath(p)'
        BY <3>1 DEF Acquire
      <4>2. QED
        BY <2>1, <4>1, HoldTake
    <3>2. CASE StartTrigger(p)
      <4>1. CASE p \in Validating
        <5>1. TakeLock(p) /\ HoldsLock(p)' /\ OnPath(p)'
          BY <3>2, <4>1 DEF StartTrigger
        <5>2. QED
          BY <2>1, <5>1, HoldTake
      <4>2. CASE p \notin Validating
        BY <2>2, <2>3, <3>2, <4>2 DEF StartTrigger
      <4>3. QED
        BY <4>1, <4>2
    <3>3. CASE DropGuard(p)
      <4>1. token[p] # 0 /\ (Release(p) \/ Abandon(p))
        BY <3>3 DEF DropGuard, Release, Abandon
      <4>2. pc[p] = "landed" => p \in Validating
        BY <2>2
      <4>3. ~HoldsLock(p)' /\ OnPath(p)' /\ UNCHANGED stalls
        BY <3>3, <4>2 DEF DropGuard
      <4>4. QED
        BY <2>1, <4>1, <4>3, HoldGive
    <3>4. CASE CheckConflicts(p) \/ Validate(p) \/ Fence(p) \/ ReadPrior(p)
      BY <2>2, <2>3, <3>4 DEF CheckConflicts, Validate, Fence, ReadPrior
    <3>5. CASE CheckersPass(p) \/ CheckersFail(p)
      BY <2>2, <2>3, <3>5 DEF CheckersPass, CheckersFail
    <3>6. CASE \E k \in Key : ApplyWrite(p, k) \/ RestoreKey(p, k)
      BY <2>2, <2>3, <3>6 DEF ApplyWrite, RestoreKey
    <3>7. CASE \E k \in Key : NextDocument(p, k)
      BY <2>2, <2>3, <3>7 DEF NextDocument
    <3>8. CASE WriteDocument(p)
      BY <2>2, <2>3, <3>8 DEF WriteDocument
    <3>9. CASE ReadSeq(p) \/ WriteText(p) \/ WriteNewline(p)
      BY <2>2, <2>3, <3>9 DEF ReadSeq, WriteText, WriteNewline
    <3>10. CASE SkipTrigger(p)
      <4>1. CASE p \in Validating
        <5>1. NoHold /\ ~HoldsLock(p) /\ ~HoldsLock(p)' /\ OnPath(p)'
          BY <3>10, <4>1 DEF SkipTrigger, FinishWithoutTrigger
        <5>2. QED
          BY <2>1, <5>1, HoldNone
      <4>2. CASE p \notin Validating
        BY <2>2, <2>3, <3>10, <4>2 DEF SkipTrigger, FinishWithoutTrigger
      <4>3. QED
        BY <4>1, <4>2
    <3>11. CASE LockRefused(p)
      <4>1. NoHold /\ ~HoldsLock(p) /\ ~HoldsLock(p)' /\ OnPath(p)'
        BY <3>11 DEF LockRefused
      <4>2. QED
        BY <2>1, <4>1, HoldNone
    <3>12. QED
      BY <2>6, <3>1, <3>2, <3>3, <3>4, <3>5, <3>6, <3>7, <3>8, <3>9, <3>10, <3>11 DEF CommitStep
  <2>7. QED
    BY <1>3, <2>4, <2>5, <2>6
<1>4. QED
  BY <1>1, <1>2, <1>3 DEF Next
-----------------------------------------------------------------------------
(* What a validated commit has established *)

\* Only a process that has the lock changes the store.
LEMMA StoreWriter ==
  ASSUME TypeOK, HoldInv, NEW p \in Proc, Client(p) \/ CommitStep(p) \/ Fault(p),
         store' # store
  PROVE  HoldsLock(p)
<1> USE DEF Goes, HoldsLock, OnlyValidated, OnlyPlain, Ended, Journaling, HoldInv
<1>1. CASE Client(p)
  BY <1>1 DEF Client, Begin, Stage, CheckPermission, CheckFirst, StageChecked, Plan, Abort,
    Commit, SeesBaseline
<1>2. CASE Fault(p)
  BY <1>2 DEF Fault, WriteError, JournalError, Crash
<1>3. CASE CommitStep(p)
  <2>1. \/ \E k \in Key : ApplyWrite(p, k) \/ RestoreKey(p, k)
        \/ WriteDocument(p)
    BY <1>3 DEF CommitStep, Acquire, LockRefused, DropGuard, CheckConflicts, Validate, Fence,
       ReadPrior, CheckersPass, CheckersFail, NextDocument, ReadSeq, WriteText, WriteNewline,
       StartTrigger, SkipTrigger, Supersedes, NoHold, GrantWithoutGuard
  <2>2. QED
    BY <2>1 DEF ApplyWrite, RestoreKey, WriteDocument
<1>4. QED
  BY <1>1, <1>2, <1>3

\* Takeovers of live holds are only ever counted up.
LEMMA StallsGrow ==
  ASSUME TypeOK, NEW p \in Proc, Client(p) \/ CommitStep(p) \/ Fault(p), stalls' = 0
  PROVE  stalls = 0
<1> USE DEF counters, TypeOK
<1>1. CASE Client(p)
  BY <1>1 DEF Client, Begin, Stage, CheckPermission, CheckFirst, StageChecked, Plan, Abort,
    Commit, SeesBaseline
<1>2. CASE Fault(p)
  BY <1>2 DEF Fault, WriteError, JournalError, Crash
<1>3. CASE CommitStep(p)
  BY <1>3 DEF CommitStep, Acquire, LockRefused, DropGuard, CheckConflicts, Validate, Fence,
     ReadPrior, CheckersPass, CheckersFail, ApplyWrite, RestoreKey, NextDocument,
     WriteDocument, ReadSeq, WriteText, WriteNewline, StartTrigger, SkipTrigger, TakeLock, Supersedes, NoHold, GrantWithoutGuard
<1>4. QED
  BY <1>1, <1>2, <1>3

\* While no live hold was taken over, what p does is invisible to the commits of
\* the others: the store does not change while they look at it.
LEMMA PhaseOfOthers ==
  ASSUME TypeOK, HoldInv, PhaseInv, stalls = 0,
         NEW p \in Proc, Client(p) \/ CommitStep(p) \/ Fault(p),
         NEW q \in Validating, q # p
  PROVE  Phase(q)'
<1>1. q \in Proc
  BY StoreConstants
<1>2. SameFor(q)
  BY <1>1, Frame
<1>3. Phase(q)
  BY DEF PhaseInv
<1>4. CASE store' = store
  BY <1>2, <1>3, <1>4 DEF SameFor, Phase, Touched, AfterState, Violations, Written, PriorRead
<1>5. CASE store' # store
  <2>1. token[p] # 0 /\ token[p] = last
    BY <1>5, StoreWriter DEF HoldInv
  <2>2. ~HoldsLock(q)
    BY <1>1, <2>1 DEF HoldInv
  <2>3. pc[q] \notin OnlyValidated
    BY <2>2 DEF HoldsLock
  <2>4. QED
    BY <1>2, <1>3, <2>3 DEF SameFor, Phase, Touched, OnlyValidated
<1>6. QED
  BY <1>4, <1>5

\* Each step of a validated commit establishes what its next position claims.
LEMMA PhaseOfSelf ==
  ASSUME TypeOK, LoopInv, HoldInv, PhaseInv, stalls = 0,
         NEW p \in Proc, Client(p) \/ CommitStep(p) \/ Fault(p), p \in Validating
  PROVE  Phase(p)'
<1> USE DEF Goes
<1>1. Phase(p)
  BY DEF PhaseInv
<1>t. /\ store \in [Key -> Content] /\ atGrant \in [Proc -> [Key -> Content]]
      /\ pending \in [Proc -> Staged] /\ prior \in [Proc -> Staged]
      /\ baseline \in [Proc -> Staged] /\ todo \in [Proc -> SUBSET Key]
      /\ pc \in [Proc -> PC]
  BY DEF TypeOK, Store
<1>l. todo[p] \subseteq Touched(p) /\ Touched(p) \subseteq Key
  BY DEF LoopInv, Loop, Touched
<1>p. pc[p] \notin OnlyPlain
  BY DEF HoldInv
<1>2. CASE pc'[p] \notin {"wait"} \cup OnlyValidated
  BY <1>2 DEF Phase, OnlyValidated
<1>3. CASE Client(p)
  <2>1. CASE Begin(p) \/ CheckPermission(p) \/ StageChecked(p) \/ Abort(p)
    BY <1>2, <1>t, <2>1 DEF Begin, CheckPermission, StageChecked, Abort, OnlyValidated,
      SeesBaseline
  <2>2. CASE Commit(p)
    BY <1>t, <2>2 DEF Commit, Phase, Touched
  <2>3. ASSUME NEW k \in Key, NEW d \in Doc \cup {Absent},
               Stage(p, k, d) \/ CheckFirst(p, k, d) \/ Plan(p, k, d)
        PROVE  Phase(p)'
    BY <1>2, <1>t, <2>3 DEF Stage, CheckFirst, Plan, OnlyValidated, SeesBaseline
  <2>4. QED
    BY <1>3, <2>1, <2>2, <2>3 DEF Client
<1>4. CASE Fault(p)
  BY <1>2, <1>4, <1>t DEF Fault, WriteError, JournalError, FinishWithoutTrigger, Crash,
    OnlyValidated
<1>5. CASE CommitStep(p)
  <2> USE DEF locals
  <2>1. CASE Acquire(p)
    BY <1>1, <1>t, <2>1 DEF Acquire, Phase, Touched
  <2>2. CASE LockRefused(p) \/ ReadSeq(p) \/ WriteText(p) \/ WriteNewline(p)
             \/ StartTrigger(p) \/ SkipTrigger(p) \/ DropGuard(p)
    BY <1>2, <1>t, <2>2 DEF LockRefused, ReadSeq, WriteText, WriteNewline, StartTrigger,
      SkipTrigger,
       FinishWithoutTrigger, DropGuard, OnlyValidated, Supersedes, NoHold, GrantWithoutGuard
  <2>3. CASE CheckConflicts(p)
    BY <1>1, <1>t, <1>l, <2>3 DEF CheckConflicts, Phase, Touched
  <2>4. CASE Validate(p)
    BY <1>1, <1>t, <1>l, <2>4 DEF Validate, Phase, Touched, AfterState, Violations
  <2>5. CASE Fence(p)
    BY <1>1, <1>t, <1>l, <2>5 DEF Fence, Phase, Touched, AfterState, Violations
  <2>6. CASE ReadPrior(p)
    BY <1>1, <1>t, <1>l, <2>6
    DEF ReadPrior, Phase, Touched, AfterState, Violations, PriorRead, Written
  <2>7. ASSUME NEW k \in Key, ApplyWrite(p, k) PROVE Phase(p)'
    <3>1. /\ pc[p] = "apply" /\ k \in todo[p]
          /\ pc'[p] = IF todo[p] = {k} THEN "verify" ELSE "apply"
          /\ store' = [store EXCEPT ![k] = pending[p][k]]
          /\ todo'[p] = todo[p] \ {k}
          /\ pending' = pending /\ baseline' = baseline /\ prior' = prior /\ atGrant' = atGrant
      BY <1>t, <2>7 DEF ApplyWrite, IsNext
    <3>2. Touched(p)' = Touched(p) /\ AfterState(p, atGrant[p])' = AfterState(p, atGrant[p])
      BY <3>1 DEF Touched, AfterState
    <3>3. store = [j \in Key |-> IF j \in Touched(p) \ todo[p] THEN pending[p][j] ELSE atGrant[p][j]]
      BY <1>1, <3>1 DEF Phase, Written
    <3>4. store' = [j \in Key |-> IF j \in Touched(p) \ todo'[p] THEN pending[p][j] ELSE atGrant[p][j]]
      BY <1>l, <3>1, <3>3
    <3>5. Written(p, Touched(p) \ todo[p])' /\ (pc'[p] = "verify" => Written(p, Touched(p))')
      <4>1. Written(p, Touched(p) \ todo[p])'
        BY <3>1, <3>2, <3>4 DEF Written
      <4>2. CASE pc'[p] = "verify"
        <5>1. todo'[p] = {}
          BY <3>1, <4>2
        <5>2. QED
          BY <3>1, <3>2, <3>4, <4>1, <5>1 DEF Written
      <4>3. QED
        BY <4>1, <4>2
    <3>6. QED
      BY <1>1, <3>1, <3>2, <3>5 DEF Phase, PriorRead, Violations
  <2>8. CASE CheckersPass(p)
    BY <1>1, <1>t, <1>l, <2>8
    DEF CheckersPass, Phase, Touched, AfterState, Violations, Written
  <2>9. CASE CheckersFail(p)
    <3>1. /\ pc[p] = "verify" /\ pc'[p] = "restore" /\ todo'[p] = Touched(p)
          /\ UNCHANGED <<store, pending, prior, atGrant>>
      BY <1>t, <2>9 DEF CheckersFail
    <3>2. Touched(p)' = Touched(p)
      BY <3>1 DEF Touched
    <3>3. Written(p, todo[p])'
      BY <1>1, <3>1 DEF Phase, Written
    <3>4. QED
      BY <1>1, <3>1, <3>2, <3>3 DEF Phase, PriorRead
  <2>10. ASSUME NEW k \in Key, RestoreKey(p, k) PROVE Phase(p)'
    <3>1. /\ pc[p] = "restore" /\ k \in todo[p]
          /\ pc'[p] = IF todo[p] = {k} THEN "refused" ELSE "restore"
          /\ store' = [store EXCEPT ![k] = prior[p][k]]
          /\ todo'[p] = todo[p] \ {k}
          /\ pending' = pending /\ prior' = prior /\ atGrant' = atGrant
      BY <1>t, <2>10 DEF RestoreKey
    <3>2. Touched(p)' = Touched(p)
      BY <3>1 DEF Touched
    <3>3. prior[p][k] = atGrant[p][k] /\ PriorRead(p)
      BY <1>1, <1>l, <3>1 DEF Phase, PriorRead
    <3>4. store = [j \in Key |-> IF j \in todo[p] THEN pending[p][j] ELSE atGrant[p][j]]
      BY <1>1, <3>1 DEF Phase, Written
    <3>5. store' = [j \in Key |-> IF j \in todo'[p] THEN pending[p][j] ELSE atGrant[p][j]]
      BY <1>l, <3>1, <3>3, <3>4
    <3>6. PriorRead(p)'
      BY <3>1, <3>2, <3>3 DEF PriorRead
    <3>7. CASE pc'[p] = "restore"
      BY <3>1, <3>5, <3>6, <3>7 DEF Phase, Written
    <3>8. CASE pc'[p] = "refused"
      <4>1. todo'[p] = {}
        BY <3>1, <3>8
      <4>2. store' = [j \in Key |-> atGrant[p][j]]
        BY <3>5, <4>1
      <4>3. store' = atGrant'[p]
        BY <1>t, <3>1, <4>2
      <4>4. QED
        BY <3>8, <4>3 DEF Phase
    <3>9. QED
      BY <3>1, <3>7, <3>8
  <2>11. CASE WriteDocument(p) \/ \E k \in Key : NextDocument(p, k)
    BY <1>p, <2>11 DEF WriteDocument, NextDocument, OnlyPlain
  <2>12. QED
    BY <1>5, <2>1, <2>2, <2>3, <2>4, <2>5, <2>6, <2>7, <2>8, <2>9, <2>10, <2>11 DEF CommitStep
<1>6. QED
  BY <1>3, <1>4, <1>5

\* Nobody is inside a commit at first.
LEMMA PhaseInit == Init => PhaseInv
  BY StoreConstants DEF Init, PhaseInv, Phase

\* What a position establishes survives every step, its own process's and the others'.
LEMMA PhaseStep ==
  TypeOK /\ LoopInv /\ HoldInv /\ PhaseInv /\ [Next]_storeVars => PhaseInv'
<1> SUFFICES ASSUME TypeOK, LoopInv, HoldInv, PhaseInv, [Next]_storeVars, stalls' = 0,
                    NEW q \in Validating
             PROVE  Phase(q)'
  BY DEF PhaseInv
<1>1. CASE UNCHANGED storeVars
  BY <1>1 DEF storeVars, locals, counters, PhaseInv, Phase, Touched, AfterState, Violations,
     Written, PriorRead
<1>2. CASE Finished
  BY <1>2 DEF Finished, storeVars, locals, counters, PhaseInv, Phase, Touched, AfterState,
     Violations, Written, PriorRead
<1>3. ASSUME NEW p \in Proc, Client(p) \/ CommitStep(p) \/ Fault(p) PROVE Phase(q)'
  <2>1. stalls = 0
    BY <1>3, StallsGrow
  <2>2. CASE q = p
    BY <1>3, <2>1, <2>2, PhaseOfSelf
  <2>3. CASE q # p
    BY <1>3, <2>1, <2>3, PhaseOfOthers
  <2>4. QED
    BY <2>2, <2>3
<1>4. QED
  BY <1>1, <1>2, <1>3 DEF Next

StoreInv == TypeOK /\ LoopInv /\ HoldInv /\ PhaseInv

\* The inductive invariant holds in every reachable state.
LEMMA StoreInvariant == Spec => []StoreInv
<1>1. Init => StoreInv
  BY InitType, HoldInit, PhaseInit DEF StoreInv
<1>2. StoreInv /\ [Next]_storeVars => StoreInv'
  BY TypeStep, LoopStep, HoldStep, PhaseStep DEF StoreInv
<1>3. QED
  BY <1>1, <1>2, PTL DEF Spec

\* A validated commit never overwrites content its client had not seen, however
\* many processes stage and commit, crash or fail around it.
THEOREM NoUpdateLost == Spec => []NoLostUpdate
<1>1. StoreInv => NoLostUpdate
  <2> SUFFICES ASSUME StoreInv, stalls = 0, NEW p \in Validating, pc[p] \in {"prior", "apply"},
                      NEW k \in todo[p]
               PROVE  store[k] = baseline[p][k]
    BY DEF NoLostUpdate
  <2>1. Phase(p) /\ k \in Touched(p) /\ k \in Key
    BY StoreConstants DEF StoreInv, PhaseInv, LoopInv, Loop, Touched
  <2>2. QED
    BY <2>1 DEF Phase, Written
<1>2. QED
  BY <1>1, StoreInvariant, PTL

\* A commit that lands introduces no violation against the store it was granted,
\* for any number of concurrent committers.
THEOREM NoViolationIntroduced == Spec => []NoNewViolations
<1>1. StoreInv => NoNewViolations
  BY DEF StoreInv, PhaseInv, Phase, NoNewViolations
<1>2. QED
  BY <1>1, StoreInvariant, PTL

\* A commit refused after its writes were applied leaves the store as it found it.
THEOREM RefusalIsClean == Spec => []RefusalRestores
<1>1. StoreInv => RefusalRestores
  BY DEF StoreInv, PhaseInv, Phase, RefusalRestores
<1>2. QED
  BY <1>1, StoreInvariant, PTL
-----------------------------------------------------------------------------
(* What the permission rules let through *)

\* A staged write stays judged: only staging and checking touch what they compare.
LEMMA JudgedStep == TypeOK /\ LoopInv /\ JudgedInv /\ [Next]_storeVars => JudgedInv'
<1> SUFFICES ASSUME TypeOK, LoopInv, JudgedInv, [Next]_storeVars, NEW q \in Validating,
                    NEW j \in Touched(q)'
             PROVE  \/ Permits(j, judged'[q][j], pending'[q][j])
                    \/ pc'[q] = "permit" /\ j = cur'[q]
  BY DEF JudgedInv, Permits
<1>q. q \in Proc /\ j \in Key /\ pending'[q][j] # Unset
  BY StoreConstants DEF Touched
<1>1. ASSUME judged'[q] = judged[q], pending'[q] = pending[q],
             pc[q] = "permit" => pc'[q] = "permit" /\ cur'[q] = cur[q]
      PROVE  \/ Permits(j, judged'[q][j], pending'[q][j])
             \/ pc'[q] = "permit" /\ j = cur'[q]
  BY <1>q, <1>1 DEF JudgedInv, Touched
<1>2. CASE UNCHANGED storeVars \/ Finished
  BY <1>1, <1>2 DEF Finished, storeVars, locals
<1>3. ASSUME NEW p \in Proc, Client(p) \/ CommitStep(p) \/ Fault(p), p # q
      PROVE  \/ Permits(j, judged'[q][j], pending'[q][j])
             \/ pc'[q] = "permit" /\ j = cur'[q]
  <2>1. SameFor(q)
    BY <1>3, <1>q, Frame
  <2>2. QED
    BY <1>1, <2>1 DEF SameFor
<1>4. CASE Client(q)
  <2> USE DEF Goes
  <2>t. /\ pc \in [Proc -> PC] /\ pending \in [Proc -> Staged] /\ judged \in [Proc -> Staged]
        /\ cur \in [Proc -> Key \cup {Unset}]
    BY DEF TypeOK
  <2>1. CASE Clear(q)
    BY <1>q, <2>t, <2>1 DEF Clear, Nothing
  <2>2. CASE Begin(q) \/ StageChecked(q) \/ Commit(q)
    BY <1>1, <1>q, <2>t, <2>2 DEF Begin, StageChecked, Commit, SeesBaseline
  <2>3. CASE Abort(q)
    BY <2>1, <2>3 DEF Abort
  <2>4. CASE CheckPermission(q) /\ ~Clear(q)
    <3>1. /\ Permits(cur[q], store[cur[q]], pending[q][cur[q]])
          /\ judged' = [judged EXCEPT ![q][cur[q]] = store[cur[q]]]
          /\ pending' = pending /\ cur[q] \in Key
      BY <1>q, <2>4 DEF CheckPermission, LoopInv, Loop, Touched
    <3>2. CASE j = cur[q]
      <4>1. judged'[q][j] = store[j]
        BY <1>q, <2>t, <3>1, <3>2 DEF Staged
      <4>2. QED
        BY <3>1, <3>2, <4>1
    <3>3. CASE j # cur[q]
      <4>1. judged'[q][j] = judged[q][j] /\ j \in Touched(q)
        BY <1>q, <2>t, <3>1, <3>3 DEF Staged, Touched
      <4>2. Permits(j, judged[q][j], pending[q][j])
        BY <3>3, <4>1 DEF JudgedInv
      <4>3. QED
        BY <3>1, <4>1, <4>2
    <3>4. QED
      BY <3>2, <3>3
  <2>5. ASSUME NEW k \in Key, NEW d \in Doc \cup {Absent}, Stage(q, k, d)
        PROVE  \/ Permits(j, judged'[q][j], pending'[q][j])
               \/ pc'[q] = "permit" /\ j = cur'[q]
    <3>1. /\ pc[q] = "open" /\ pc'[q] = "permit" /\ cur'[q] = k /\ judged' = judged
          /\ pending' = [pending EXCEPT ![q][k] = d]
      BY <1>q, <2>t, <2>5 DEF Stage, SeesBaseline
    <3>2. CASE j # k
      <4>1. pending'[q][j] = pending[q][j] /\ j \in Touched(q)
        BY <1>q, <2>t, <3>1, <3>2 DEF Staged, Touched
      <4>2. Permits(j, judged[q][j], pending[q][j])
        BY <3>1, <4>1 DEF JudgedInv
      <4>3. QED
        BY <3>1, <4>1, <4>2
    <3>3. QED
      BY <3>1, <3>2
  <2>6. ASSUME NEW k \in Key, NEW d \in Doc \cup {Absent}, CheckFirst(q, k, d)
        PROVE  Permits(j, judged'[q][j], pending'[q][j])
    <3>1. /\ pc[q] = "open" /\ Permits(k, store[k], d)
          /\ judged' = [judged EXCEPT ![q][k] = store[k]]
          /\ pending' = [pending EXCEPT ![q][k] = d]
      BY <2>6 DEF CheckFirst
    <3>2. CASE j = k
      <4>1. judged'[q][j] = store[k] /\ pending'[q][j] = d
        BY <1>q, <2>t, <3>1, <3>2 DEF Staged
      <4>2. QED
        BY <3>1, <3>2, <4>1
    <3>3. CASE j # k
      <4>1. judged'[q][j] = judged[q][j] /\ pending'[q][j] = pending[q][j] /\ j \in Touched(q)
        BY <1>q, <2>t, <3>1, <3>3 DEF Staged, Touched
      <4>2. Permits(j, judged[q][j], pending[q][j])
        BY <3>1, <4>1 DEF JudgedInv
      <4>3. QED
        BY <4>1, <4>2
    <3>4. QED
      BY <3>2, <3>3
  <2>7. ~ \E k \in Key, d \in Doc \cup {Absent} : Plan(q, k, d)
    BY DEF Plan
  <2>8. QED
    BY <1>4, <2>1, <2>2, <2>3, <2>4, <2>5, <2>6, <2>7 DEF Client
<1>5. CASE CommitStep(q) \/ Fault(q)
  <2> USE DEF Goes, locals
  <2>t. pc \in [Proc -> PC] /\ pending \in [Proc -> Staged] /\ judged \in [Proc -> Staged]
    BY DEF TypeOK
  <2>1. CASE Clear(q)
    BY <1>q, <2>t, <2>1 DEF Clear, Nothing
  <2>2. CASE Fault(q) /\ ~Clear(q)
    <3>1. judged' = judged /\ pending' = pending /\ pc[q] # "permit"
      BY <2>2 DEF Fault, WriteError, JournalError, FinishWithoutTrigger, Crash
    <3>2. QED
      BY <1>1, <3>1
  <2>3. CASE CommitStep(q) /\ ~Clear(q)
    <3>1. judged' = judged /\ pending' = pending /\ pc[q] # "permit"
      BY <2>3 DEF CommitStep, Acquire, LockRefused, DropGuard, CheckConflicts, Validate, Fence,
         ReadPrior, CheckersPass, CheckersFail, ApplyWrite, RestoreKey, NextDocument,
         WriteDocument, ReadSeq, WriteText, WriteNewline, StartTrigger, SkipTrigger,
         FinishWithoutTrigger, Supersedes, NoHold, GrantWithoutGuard
    <3>2. QED
      BY <1>1, <3>1
  <2>4. QED
    BY <1>5, <2>1, <2>2, <2>3
<1>6. QED
  BY <1>2, <1>3, <1>4, <1>5 DEF Next

\* What p does is invisible to the plain loop of another process.
LEMMA PlainOfOthers ==
  ASSUME TypeOK, HoldInv, PlainInv, stalls = 0,
         NEW p \in Proc, Client(p) \/ CommitStep(p) \/ Fault(p),
         NEW q \in Proc \ Validating, q # p
  PROVE  PlainPhase(q)'
<1>1. SameFor(q)
  BY Frame
<1>2. PlainPhase(q)
  BY DEF PlainInv
<1>3. CASE store' = store
  BY <1>1, <1>2, <1>3 DEF SameFor, PlainPhase, Touched, Permits
<1>4. CASE store' # store
  <2>1. token[p] # 0 /\ token[p] = last
    BY <1>4, StoreWriter DEF HoldInv
  <2>2. ~HoldsLock(q)
    BY <2>1 DEF HoldInv
  <2>3. pc[q] \notin OnlyPlain \cup {"seq"}
    BY <2>2 DEF HoldsLock, Journaling
  <2>4. QED
    BY <1>1, <1>2, <2>3 DEF SameFor, PlainPhase, Touched
<1>5. QED
  BY <1>3, <1>4

\* Each step of a plain commit establishes what its next position claims.
LEMMA PlainOfSelf ==
  ASSUME TypeOK, LoopInv, HoldInv, PlainInv, stalls = 0,
         NEW p \in Proc, Client(p) \/ CommitStep(p) \/ Fault(p), p \notin Validating
  PROVE  PlainPhase(p)'
<1> USE DEF Goes
<1>1. PlainPhase(p)
  BY DEF PlainInv
<1>t. /\ store \in [Key -> Content] /\ atGrant \in [Proc -> [Key -> Content]]
      /\ pending \in [Proc -> Staged] /\ todo \in [Proc -> SUBSET Key]
      /\ pc \in [Proc -> PC] /\ cur \in [Proc -> Key \cup {Unset}]
  BY DEF TypeOK, Store
<1>l. todo[p] \subseteq Touched(p) /\ Touched(p) \subseteq Key
  BY DEF LoopInv, Loop, Touched
<1>p. pc[p] \notin OnlyValidated
  BY DEF HoldInv
<1>2. CASE pc'[p] \notin {"wait", "seq"} \cup OnlyPlain
  BY <1>2 DEF PlainPhase
<1>3. CASE Client(p)
  <2>1. CASE Commit(p)
    BY <1>t, <2>1 DEF Commit, PlainPhase, Touched, OnlyPlain
  <2>2. CASE Begin(p) \/ CheckPermission(p) \/ StageChecked(p) \/ Abort(p)
    BY <1>2, <1>t, <2>2 DEF Begin, CheckPermission, StageChecked, Abort, OnlyPlain, SeesBaseline
  <2>3. ASSUME NEW k \in Key, NEW d \in Doc \cup {Absent},
               Stage(p, k, d) \/ CheckFirst(p, k, d) \/ Plan(p, k, d)
        PROVE  PlainPhase(p)'
    BY <1>2, <1>t, <2>3 DEF Stage, CheckFirst, Plan, OnlyPlain, SeesBaseline
  <2>4. QED
    BY <1>3, <2>1, <2>2, <2>3 DEF Client
<1>4. CASE Fault(p)
  BY <1>2, <1>4, <1>t DEF Fault, WriteError, JournalError, FinishWithoutTrigger, Crash, OnlyPlain
<1>5. CASE CommitStep(p)
  <2> USE DEF locals
  <2>1. CASE Acquire(p)
    BY <1>1, <1>t, <1>l, <2>1 DEF Acquire, PlainPhase, Touched, OnlyPlain
  <2>2. CASE LockRefused(p) \/ ReadSeq(p) \/ WriteText(p) \/ WriteNewline(p)
             \/ StartTrigger(p) \/ SkipTrigger(p)
    BY <1>2, <1>t, <2>2 DEF LockRefused, ReadSeq, WriteText, WriteNewline, StartTrigger,
       SkipTrigger, FinishWithoutTrigger, OnlyPlain, Supersedes, NoHold, GrantWithoutGuard
  <2>3. CASE DropGuard(p)
    BY <1>2, <1>p, <1>t, <2>3 DEF DropGuard, OnlyPlain, OnlyValidated
  <2>4. CASE \/ CheckConflicts(p) \/ Validate(p) \/ Fence(p) \/ ReadPrior(p)
             \/ CheckersPass(p) \/ CheckersFail(p)
             \/ \E k \in Key : ApplyWrite(p, k) \/ RestoreKey(p, k)
    BY <1>p, <2>4 DEF CheckConflicts, Validate, Fence, ReadPrior, CheckersPass, CheckersFail,
       ApplyWrite, RestoreKey, OnlyValidated
  <2>5. ASSUME NEW k \in Key, NextDocument(p, k) PROVE PlainPhase(p)'
    <3>1. /\ pc[p] = "next" /\ k \in todo[p] /\ store[k] = atGrant[p][k]
          /\ UNCHANGED <<store, pending, atGrant>>
      BY <1>1, <2>5 DEF NextDocument, IsNext, PlainPhase, OnlyPlain
    <3>2. Touched(p)' = Touched(p)
      BY <3>1 DEF Touched
    <3>3. CASE store[k] = Absent /\ pending[p][k] = Absent
      <4>1. Permits(k, atGrant[p][k], pending[p][k])
        BY <3>1, <3>3 DEF Permits
      <4>2. todo'[p] = todo[p] \ {k} /\ pc'[p] = IF todo[p] = {k} THEN "seq" ELSE "next"
        BY <1>t, <2>5, <3>3 DEF NextDocument
      <4>3. QED
        BY <1>1, <3>1, <3>2, <4>1, <4>2 DEF PlainPhase, OnlyPlain, Permits
    <3>4. CASE ~(store[k] = Absent /\ pending[p][k] = Absent)
      <4>1. todo' = todo /\ cur'[p] = k /\ pc'[p] \in {"write", "failed"}
            /\ (pc'[p] = "write" => Permits(k, store[k], pending[p][k]))
        BY <1>t, <2>5, <3>4 DEF NextDocument
      <4>2. QED
        BY <1>1, <3>1, <3>2, <4>1 DEF PlainPhase, OnlyPlain, Permits
    <3>5. QED
      BY <3>3, <3>4
  <2>6. CASE WriteDocument(p)
    <3> DEFINE k == cur[p]
    <3>1. /\ pc[p] = "write" /\ k \in todo[p] /\ k \in Key
          /\ UNCHANGED <<pending, atGrant, cur>>
          /\ store' = [store EXCEPT ![k] = pending[p][k]]
          /\ todo'[p] = todo[p] \ {k}
          /\ pc'[p] = IF todo[p] = {k} THEN "seq" ELSE "next"
      BY <1>t, <1>l, <2>6 DEF WriteDocument, LoopInv, Loop
    <3>2. Touched(p)' = Touched(p)
      BY <3>1 DEF Touched
    <3>3. Permits(k, atGrant[p][k], pending[p][k])
      BY <1>1, <1>l, <3>1 DEF PlainPhase, OnlyPlain
    <3>4. \A j \in todo'[p] : store'[j] = atGrant'[p][j]
      BY <1>1, <1>t, <3>1 DEF PlainPhase, OnlyPlain
    <3>5. QED
      BY <1>1, <3>1, <3>2, <3>3, <3>4 DEF PlainPhase, OnlyPlain, Permits
  <2>7. QED
    BY <1>5, <2>1, <2>2, <2>3, <2>4, <2>5, <2>6 DEF CommitStep
<1>6. QED
  BY <1>3, <1>4, <1>5

\* What a plain commit's position claims survives every step.
LEMMA PlainStep ==
  TypeOK /\ LoopInv /\ HoldInv /\ PlainInv /\ [Next]_storeVars => PlainInv'
<1> SUFFICES ASSUME TypeOK, LoopInv, HoldInv, PlainInv, [Next]_storeVars, stalls' = 0,
                    NEW q \in Proc \ Validating
             PROVE  PlainPhase(q)'
  BY DEF PlainInv
<1>1. CASE UNCHANGED storeVars \/ Finished
  BY <1>1 DEF Finished, storeVars, locals, counters, PlainInv, PlainPhase, Touched, Permits
<1>2. ASSUME NEW p \in Proc, Client(p) \/ CommitStep(p) \/ Fault(p) PROVE PlainPhase(q)'
  <2>1. stalls = 0
    BY <1>2, StallsGrow
  <2>2. CASE q = p
    BY <1>2, <2>1, <2>2, PlainOfSelf
  <2>3. CASE q # p
    BY <1>2, <2>1, <2>3, PlainOfOthers
  <2>4. QED
    BY <2>2, <2>3
<1>3. QED
  BY <1>1, <1>2 DEF Next

\* No commit, validated or plain, lands a rewrite the rules refuse for the content it
\* replaces, unless the document changed right between its check and its baseline.
THEOREM RefusedRewritesStayOut == Spec => []LandedWritesPermitted
<1>1. Init => JudgedInv /\ PlainInv
  BY StoreConstants DEF Init, JudgedInv, PlainInv, PlainPhase, Touched, Nothing, OnlyPlain
<1>2. StoreInv /\ JudgedInv /\ PlainInv /\ [Next]_storeVars => (JudgedInv /\ PlainInv)'
  BY JudgedStep, PlainStep DEF StoreInv
<1>3. ASSUME StoreInv, JudgedInv, PlainInv PROVE LandedWritesPermitted
  <2> SUFFICES ASSUME stalls = 0, NEW p \in Proc, JustLanded(p), NEW k \in Touched(p)
               PROVE  Permits(k, atGrant[p][k], pending[p][k]) \/ SlippedBetween(p, k)
    BY DEF LandedWritesPermitted
  <2>1. CASE p \in Validating
    <3>1. pc[p] = "landed"
      BY <2>1 DEF JustLanded
    <3>2. atGrant[p][k] = baseline[p][k]
      BY <1>3, <2>1, <3>1 DEF StoreInv, PhaseInv, Phase
    <3>3. Permits(k, judged[p][k], pending[p][k])
      BY <1>3, <2>1, <3>1 DEF JudgedInv
    <3>4. QED
      BY <2>1, <3>2, <3>3 DEF SlippedBetween
  <2>2. CASE p \notin Validating
    BY <1>3, <2>2 DEF PlainInv, PlainPhase, JustLanded
  <2>3. QED
    BY <2>1, <2>2
<1>4. QED
  BY <1>1, <1>2, <1>3, StoreInvariant, PTL DEF Spec
-----------------------------------------------------------------------------
(* What is in the journal *)

\* Positions where the transaction has landed and is not in the journal yet, and
\* positions before it can land.
Claimed == {"landed", "seq", "text"}
Unlanded == PC \ ({"landed"} \cup Journaling \cup Ended \cup {"idle"})

\* What a step of p can mean to the journal: a transaction gets its number, lands,
\* is recorded, or none of these.
Numbers(p) ==
  /\ started' = started + 1 /\ txno'[p] = started + 1 /\ pc'[p] = "open"
  /\ UNCHANGED <<landed, journal>>

Lands(p) ==
  /\ landed' = landed \cup {txno[p]} /\ txno'[p] = txno[p]
  /\ pc[p] \in Unlanded /\ pc'[p] \in Claimed
  /\ UNCHANGED <<started, journal>>

Records(p) ==
  /\ pc[p] = "text" /\ pc'[p] = "newline" /\ txno'[p] = txno[p]
  /\ journal' = Append(journal, [seq |-> seq[p], tx |-> txno[p]])
  /\ UNCHANGED <<started, landed>>

Unrecorded(p) ==
  /\ UNCHANGED <<started, landed>>
  /\ journal' = journal \/ \E e \in Entry : ~IsRecord(e) /\ journal' = Append(journal, e)
  /\ \/ txno'[p] = 0 /\ pc'[p] = "idle"
     \/ /\ txno'[p] = txno[p] /\ pc[p] # "idle"
        /\ pc'[p] \in Claimed => pc[p] \in Claimed
        /\ pc'[p] \in Unlanded => pc[p] \in Unlanded

\* Every step is of one of these kinds.
LEMMA JournalKinds ==
  ASSUME TypeOK, NEW p \in Proc, Client(p) \/ CommitStep(p) \/ Fault(p)
  PROVE  Numbers(p) \/ Lands(p) \/ Records(p) \/ Unrecorded(p)
<1> USE DEF Goes, Clear, locals, counters, Claimed, Unlanded, PC, Journaling, Ended
<1>t. pc \in [Proc -> PC] /\ txno \in [Proc -> Nat]
  BY DEF TypeOK
<1>e. Newline \in Entry /\ ~IsRecord(Newline) /\ Fragment \in Entry /\ ~IsRecord(Fragment)
  BY DEF Newline, Fragment, Entry, IsRecord
<1>1. CASE Client(p)
  <2>1. CASE Begin(p)
    BY <1>t, <2>1 DEF Begin, Numbers
  <2>2. CASE CheckPermission(p) \/ StageChecked(p) \/ Commit(p) \/ Abort(p)
    BY <1>t, <2>2 DEF CheckPermission, StageChecked, Commit, Abort, Unrecorded, SeesBaseline
  <2>3. ASSUME NEW k \in Key, NEW d \in Doc \cup {Absent},
               Stage(p, k, d) \/ CheckFirst(p, k, d) \/ Plan(p, k, d)
        PROVE  Unrecorded(p)
    BY <1>t, <2>3 DEF Stage, CheckFirst, Plan, Unrecorded, SeesBaseline
  <2>4. QED
    BY <1>1, <2>1, <2>2, <2>3 DEF Client
<1>2. CASE Fault(p)
  <2>1. CASE WriteError(p)
    BY <1>t, <2>1 DEF WriteError, Unrecorded
  <2>2. CASE JournalError(p)
    BY <1>t, <1>e, <2>2 DEF JournalError, FinishWithoutTrigger, Unrecorded
  <2>3. CASE Crash(p)
    BY <1>t, <1>e, <2>3 DEF Crash, Unrecorded
  <2>4. QED
    BY <1>2, <2>1, <2>2, <2>3 DEF Fault
<1>3. CASE CommitStep(p)
  <2>1. CASE Acquire(p) \/ LockRefused(p) \/ DropGuard(p)
    BY <1>t, <2>1 DEF Acquire, LockRefused, DropGuard, Unrecorded, Supersedes, NoHold,
      GrantWithoutGuard
  <2>2. CASE CheckConflicts(p) \/ Validate(p) \/ Fence(p) \/ ReadPrior(p) \/ CheckersFail(p)
    BY <1>t, <2>2 DEF CheckConflicts, Validate, Fence, ReadPrior, CheckersFail, Unrecorded
  <2>3. CASE CheckersPass(p)
    BY <1>t, <2>3 DEF CheckersPass, Lands
  <2>4. CASE \E k \in Key : ApplyWrite(p, k) \/ RestoreKey(p, k)
    BY <1>t, <2>4 DEF ApplyWrite, RestoreKey, Unrecorded
  <2>5. CASE \E k \in Key : NextDocument(p, k)
    BY <1>t, <2>5 DEF NextDocument, Lands, Unrecorded
  <2>6. CASE WriteDocument(p)
    BY <1>t, <2>6 DEF WriteDocument, Lands, Unrecorded
  <2>7. CASE ReadSeq(p) \/ StartTrigger(p)
    BY <1>t, <2>7 DEF ReadSeq, StartTrigger, Unrecorded
  <2>8. CASE WriteText(p)
    BY <1>t, <2>8 DEF WriteText, Records
  <2>9. CASE WriteNewline(p)
    BY <1>t, <1>e, <2>9 DEF WriteNewline, Unrecorded
  <2>10. CASE SkipTrigger(p)
    BY <1>t, <2>10 DEF SkipTrigger, FinishWithoutTrigger, Unrecorded, Supersedes, NoHold,
      GrantWithoutGuard
  <2>11. QED
    BY <1>3, <2>1, <2>2, <2>3, <2>4, <2>5, <2>6, <2>7, <2>8, <2>9, <2>10 DEF CommitStep
<1>4. QED
  BY <1>1, <1>2, <1>3

\* The transactions the journal names.
Recorded == {journal[i].tx : i \in {j \in DOMAIN journal : IsRecord(journal[j])}}

\* An append adds at most the transaction it names, once.
LEMMA RecordedGrows ==
  ASSUME journal \in Seq(Entry), JournalOnlyLanded, landed \subseteq landed',
         NEW e \in Entry, journal' = Append(journal, e),
         IsRecord(e) => e.tx \in landed' /\ e.tx \notin Recorded
  PROVE  /\ JournalOnlyLanded'
         /\ Recorded' \subseteq Recorded \cup {e.tx}
         /\ ~IsRecord(e) => Recorded' = Recorded
<1>1. /\ DOMAIN journal' = DOMAIN journal \cup {Len(journal) + 1}
      /\ \A i \in DOMAIN journal : journal'[i] = journal[i] /\ i # Len(journal) + 1
      /\ journal'[Len(journal) + 1] = e
  OBVIOUS
<1>2. \A i \in DOMAIN journal : IsRecord(journal[i]) => journal[i].tx \in Recorded
  BY DEF Recorded
<1>3. JournalOnlyLanded'
  BY <1>1, <1>2 DEF JournalOnlyLanded, IsRecord
<1>4. Recorded' \subseteq Recorded \cup {e.tx}
  BY <1>1, <1>2 DEF Recorded, IsRecord
<1>5. ~IsRecord(e) => Recorded' = Recorded
  BY <1>1, <1>2 DEF Recorded, IsRecord
<1>6. QED
  BY <1>3, <1>4, <1>5

\* JournalInv, told of one process.
NumberOf(p) ==
  /\ txno[p] <= started
  /\ pc[p] # "idle" => txno[p] # 0
  /\ pc[p] \in Claimed => txno[p] \in landed /\ txno[p] \notin Recorded
  /\ pc[p] \in Unlanded => txno[p] \notin landed

LEMMA JournalInvIs ==
  JournalInv <=>
    /\ \A t \in landed : t <= started
    /\ \A p \in Proc : NumberOf(p) /\ \A q \in Proc \ {p} : txno[p] # 0 => txno[q] # txno[p]
<1>1. \A t : t \notin Recorded <=> \A i \in DOMAIN journal : IsRecord(journal[i]) => journal[i].tx # t
  BY DEF Recorded
<1>2. QED
  BY <1>1 DEF JournalInv, NumberOf, Claimed, Unlanded

\* Every step keeps transaction numbers, what has landed and the journal together.
LEMMA JournalStep ==
  TypeOK /\ JournalInv /\ JournalOnlyLanded /\ [Next]_storeVars => (JournalInv /\ JournalOnlyLanded)'
<1> SUFFICES ASSUME TypeOK, JournalInv, JournalOnlyLanded, [Next]_storeVars
             PROVE  (JournalInv /\ JournalOnlyLanded)'
  OBVIOUS
<1>1. CASE UNCHANGED storeVars \/ Finished
  BY <1>1 DEF Finished, storeVars, locals, counters, JournalInv, JournalOnlyLanded
<1>2. ASSUME NEW p \in Proc, Client(p) \/ CommitStep(p) \/ Fault(p)
      PROVE  (JournalInv /\ JournalOnlyLanded)'
  <2> USE DEF NumberOf
  <2>1. \A q \in Proc \ {p} : pc'[q] = pc[q] /\ txno'[q] = txno[q]
    BY <1>2, Frame DEF SameFor
  <2>2. /\ journal \in Seq(Entry) /\ started \in Nat /\ txno \in [Proc -> Nat]
        /\ seq \in [Proc -> Nat] /\ landed \subseteq Nat /\ pc \in [Proc -> PC]
    BY DEF TypeOK
  <2>3. /\ \A t \in landed : t <= started
        /\ \A q \in Proc : NumberOf(q)
        /\ \A q, r \in Proc : q # r /\ txno[q] # 0 => txno[r] # txno[q]
    BY JournalInvIs
  <2>4. SUFFICES /\ JournalOnlyLanded'
                 /\ \A t \in landed' : t <= started'
                 /\ \A q \in Proc : NumberOf(q)'
                 /\ \A q, r \in Proc : q # r /\ txno'[q] # 0 => txno'[r] # txno'[q]
    <3>1. \A t : t \notin Recorded' <=>
            \A i \in DOMAIN journal' : IsRecord(journal'[i]) => journal'[i].tx # t
      BY DEF Recorded, IsRecord
    <3>2. QED
      BY <3>1 DEF JournalInv, NumberOf, Claimed, Unlanded, IsRecord
  <2>5. Recorded \subseteq landed
    BY DEF Recorded, JournalOnlyLanded
  <2>6. CASE Numbers(p)
    <3>1. Recorded' = Recorded /\ JournalOnlyLanded'
      BY <2>6 DEF Numbers, Recorded, JournalOnlyLanded
    <3>2. \A q \in Proc : txno[q] <= started
      BY <2>3
    <3>3. NumberOf(p)'
      BY <2>2, <2>3, <2>6 DEF Numbers, Claimed, Unlanded, PC, Journaling, Ended
    <3>4. \A q \in Proc \ {p} : NumberOf(q)'
      BY <2>1, <2>2, <2>3, <2>6, <3>1 DEF Numbers
    <3>5. \A q, r \in Proc : q # r /\ txno'[q] # 0 => txno'[r] # txno'[q]
      <4>1. txno'[p] = started + 1 /\ \A q \in Proc : txno[q] \in Nat /\ txno[q] # started + 1
        BY <2>2, <2>6, <3>2 DEF Numbers
      <4>2. QED
        BY <2>1, <2>3, <4>1
    <3>6. \A t \in landed' : t <= started'
      <4>1. landed' = landed /\ started' = started + 1
        BY <2>6 DEF Numbers
      <4>2. QED
        BY <2>2, <2>3, <4>1
    <3>7. QED
      BY <3>1, <3>3, <3>4, <3>5, <3>6
  <2>7. CASE Lands(p)
    <3>1. Recorded' = Recorded /\ JournalOnlyLanded'
      BY <2>7 DEF Lands, Recorded, JournalOnlyLanded
    <3>2. txno[p] # 0 /\ txno[p] \notin Recorded
      BY <2>3, <2>5, <2>7 DEF Lands, Unlanded
    <3>3. NumberOf(p)'
      BY <2>2, <2>3, <2>7, <3>1, <3>2 DEF Lands, Claimed, Unlanded, Journaling
    <3>4. ASSUME NEW q \in Proc \ {p} PROVE NumberOf(q)'
      <4>1. NumberOf(q) /\ txno[q] # txno[p]
        BY <2>3, <3>2
      <4>2. QED
        BY <2>1, <2>2, <2>7, <3>1, <4>1 DEF Lands
    <3>5. \A t \in landed' : t <= started'
      BY <2>3, <2>7 DEF Lands
    <3>6. \A q \in Proc : txno'[q] = txno[q]
      BY <2>1, <2>7 DEF Lands
    <3>7. QED
      BY <2>3, <3>1, <3>3, <3>4, <3>5, <3>6
  <2>8. CASE Records(p)
    <3> DEFINE e == [seq |-> seq[p], tx |-> txno[p]]
    <3>1. e \in Entry /\ e.tx = txno[p]
      BY <2>2 DEF Entry
    <3>2. txno[p] # 0 /\ txno[p] \in landed /\ txno[p] \notin Recorded
      BY <2>3, <2>8 DEF Records, Claimed
    <3>3. JournalOnlyLanded' /\ Recorded' \subseteq Recorded \cup {txno[p]}
      <4>1. journal' = Append(journal, e) /\ landed' = landed
        BY <2>8 DEF Records
      <4> HIDE DEF e
      <4>2. QED
        BY <2>2, <3>1, <3>2, <4>1, RecordedGrows
    <3>4. NumberOf(p)'
      BY <2>2, <2>3, <2>8 DEF Records, Claimed, Unlanded, PC, Journaling, Ended
    <3>5. ASSUME NEW q \in Proc \ {p} PROVE NumberOf(q)'
      <4>1. NumberOf(q) /\ txno[q] # txno[p]
        BY <2>3, <3>2
      <4>2. QED
        BY <2>1, <2>8, <3>3, <4>1 DEF Records
    <3>6. \A q \in Proc : txno'[q] = txno[q]
      BY <2>1, <2>8 DEF Records
    <3>7. QED
      BY <2>3, <2>8, <3>3, <3>4, <3>5, <3>6 DEF Records
  <2>9. CASE Unrecorded(p)
    <3>1. Recorded' = Recorded /\ JournalOnlyLanded'
      <4>1. CASE journal' = journal
        BY <2>9, <4>1 DEF Unrecorded, Recorded, JournalOnlyLanded
      <4>2. ASSUME NEW e \in Entry, ~IsRecord(e), journal' = Append(journal, e)
            PROVE  Recorded' = Recorded /\ JournalOnlyLanded'
        BY <2>2, <2>9, <4>2, RecordedGrows DEF Unrecorded
      <4>3. QED
        BY <2>9, <4>1, <4>2 DEF Unrecorded
    <3>2. NumberOf(p)'
      BY <2>2, <2>3, <2>9, <3>1 DEF Unrecorded, Claimed, Unlanded, PC, Journaling, Ended
    <3>3. \A q \in Proc \ {p} : NumberOf(q)'
      BY <2>1, <2>2, <2>3, <2>9, <3>1 DEF Unrecorded
    <3>4. \A q, r \in Proc : q # r /\ txno'[q] # 0 => txno'[r] # txno'[q]
      BY <2>1, <2>2, <2>3, <2>9 DEF Unrecorded
    <3>5. QED
      BY <2>2, <2>3, <2>9, <3>1, <3>2, <3>3, <3>4 DEF Unrecorded
  <2>10. QED
    BY <1>2, <2>6, <2>7, <2>8, <2>9, JournalKinds
<1>3. QED
  BY <1>1, <1>2 DEF Next

\* The journal names only commits that landed, each at most once, whatever else
\* appends between a commit and its record, fails, or dies in the middle of one.
THEOREM JournalNamesLanded == Spec => []JournalOnlyLanded
<1>1. Init => JournalInv /\ JournalOnlyLanded
  BY DEF Init, JournalInv, JournalOnlyLanded, PC
<1>2. TypeOK /\ JournalInv /\ JournalOnlyLanded /\ [Next]_storeVars
        => (JournalInv /\ JournalOnlyLanded)'
  BY JournalStep
<1>3. Spec => []TypeOK
  BY StoreTypeCorrect
<1>4. QED
  BY <1>1, <1>2, <1>3, PTL DEF Spec
=============================================================================
