--------------------------- MODULE FileLockProofs ---------------------------
(***************************************************************************)
(* Proofs about FileLock, for any set of processes and any values of the   *)
(* timing constants.  The safety argument: the flock admits one thread at  *)
(* a time (FlockDiscipline), only the thread inside it rewrites the        *)
(* record, and the only rewrite that changes the generation increments it. *)
(***************************************************************************)
EXTENDS FileLock, TLAPS

LEMMA ThreadsDistinct ==
  ASSUME NEW p \in Proc, NEW q \in Proc
  PROVE  /\ Main(p) # NoThread /\ Beat(p) # NoThread /\ Main(p) # Beat(q)
         /\ (Main(p) = Main(q)) => p = q
         /\ (Beat(p) = Beat(q)) => p = q
         /\ Main(p) \in Threads /\ Beat(p) \in Threads
  BY DEF Main, Beat, NoThread, Threads

LEMMA NoThreadType == NoThread \in Threads
  BY DEF Threads

\* Adding a generation to a history of generations.
LEMMA AddNat ==
  ASSUME NEW S \in SUBSET Nat, NEW n \in Nat
  PROVE  S \cup {n} \in SUBSET Nat
  OBVIOUS

LEMMA InitSafety == Init => SafetyInv
<1> SUFFICES ASSUME Init PROVE SafetyInv
  OBVIOUS
<1> USE LockConstants, ThreadsDistinct, NoThreadType DEF Init
<1>1. TypeOK
  BY DEF TypeOK, Record, PC, BeatPC, MaxAge
<1>2. FlockDiscipline
  BY DEF FlockDiscipline
<1>3. GuardsAreFenced /\ HistoryIsBehindDisk /\ NoGhostHold /\ CurrentGuardHolds
  BY DEF GuardsAreFenced, HistoryIsBehindDisk, NoGhostHold, CurrentGuardHolds, HasGuard,
         Guarded
<1>4. QED
  BY <1>1, <1>2, <1>3 DEF SafetyInv

-----------------------------------------------------------------------------
(* Type correctness *)

LEMMA TypeStep == TypeOK /\ [Next]_vars => TypeOK'
<1> SUFFICES ASSUME TypeOK, [Next]_vars PROVE TypeOK'
  OBVIOUS
<1> USE LockConstants, ThreadsDistinct, NoThreadType
    DEF TypeOK, Record, PC, BeatPC, MaxAge, history, bounds, Goes, BeatGoes,
        TakeFlock, DropFlock
<1>1. CASE UNCHANGED vars
  BY <1>1 DEF vars
<1>2. CASE Tick
  BY <1>2 DEF Tick, Older
<1>3. CASE ClockStep
  BY <1>3 DEF ClockStep
<1>4. ASSUME NEW p \in Proc, ProcNext(p) PROVE TypeOK'
  <2>1. CASE AcquireCall(p)
    BY <2>1 DEF AcquireCall
  <2>2. CASE AcquireFlock(p)
    BY <2>2 DEF AcquireFlock
  <2>3. CASE DecideFree(p)
    BY <2>3 DEF DecideFree
  <2>4. CASE DecideBusy(p)
    BY <2>4 DEF DecideBusy
  <2>5. CASE GrantWrite(p)
    <3>1. NewRecord(p) \in Record
      BY DEF NewRecord
    <3>2. granted' \in SUBSET Nat
      <4>1. granted \in SUBSET Nat /\ disk.generation + 1 \in Nat
        OBVIOUS
      <4>2. granted' = granted \cup {disk.generation + 1}
        BY <2>5 DEF GrantWrite
      <4>3. QED
        BY ONLY <4>1, <4>2, AddNat
    <3>3. gen' \in [Proc -> Nat]
      BY <2>5 DEF GrantWrite
    <3>4. QED
      BY <2>5, <3>1, <3>2, <3>3 DEF GrantWrite
  <2>6. CASE Poll(p)
    BY <2>6 DEF Poll
  <2>7. CASE Timeout(p)
    BY <2>7 DEF Timeout
  <2>8. CASE BeatFlock(p)
    BY <2>8 DEF BeatFlock
  <2>9. CASE Touch(p)
    <3>1. [generation |-> gen[p], held |-> TRUE, age |-> 0] \in Record
      OBVIOUS
    <3>2. disk' \in Record /\ stamp' \in [Proc -> 0..MaxAge]
      BY <2>9, <3>1 DEF Touch
    <3>3. QED
      BY <2>9, <3>2 DEF Touch
  <2>10. CASE IsCurrent(p)
    BY <2>10 DEF IsCurrent
  <2>11. CASE Drop(p)
    BY <2>11 DEF Drop
  <2>12. CASE Join(p)
    BY <2>12 DEF Join
  <2>13. CASE FreeFlock(p)
    BY <2>13 DEF FreeFlock
  <2>14. CASE MarkFreeIfCurrent(p)
    <3>1. MarkedFree(p) \in Record
      BY DEF MarkedFree
    <3>2. QED
      BY <2>14, <3>1 DEF MarkFreeIfCurrent
  <2>15. CASE AcquireIoError(p)
    <3>1. NewRecord(p) \in Record
      BY DEF NewRecord
    <3>2. PICK s \in {"open", "decide", "grant"} : Goes(p, s, "idle")
      BY <2>15 DEF AcquireIoError
    <3>3. pc' \in [Proc -> PC]
      BY <3>2
    <3>4. disk' \in Record /\ lost' \in SUBSET Nat
      <4>1. lost \in SUBSET Nat /\ disk.generation + 1 \in Nat
        OBVIOUS
      <4>2. lost \cup {disk.generation + 1} \in SUBSET Nat
        BY ONLY <4>1, AddNat
      <4>3. QED
        BY <2>15, <3>1, <4>2 DEF AcquireIoError
    <3>5. QED
      BY <2>15, <3>3, <3>4 DEF AcquireIoError
  <2>16. CASE TouchIoError(p)
    BY <2>16 DEF TouchIoError
  <2>17. CASE MarkFreeIoError(p)
    <3>1. PICK s \in {"free", "mark"} : Goes(p, s, "idle")
      BY <2>17 DEF MarkFreeIoError
    <3>2. pc' \in [Proc -> PC]
      BY <3>1
    <3>3. lost' \in SUBSET Nat
      <4>1. lost \in SUBSET Nat /\ gen[p] \in Nat
        OBVIOUS
      <4>2. lost' = lost \cup {gen[p]}
        BY <2>17 DEF MarkFreeIoError
      <4>3. QED
        BY ONLY <4>1, <4>2, AddNat
    <3>4. QED
      BY <2>17, <3>2, <3>3 DEF MarkFreeIoError
  <2>18. CASE Crash(p)
    BY <2>18 DEF Crash
  <2>19. CASE Hang(p)
    BY <2>19 DEF Hang
  <2>20. CASE Resume(p)
    BY <2>20 DEF Resume
  <2>21. QED
    BY <1>4, <2>1, <2>2, <2>3, <2>4, <2>5, <2>6, <2>7, <2>8, <2>9, <2>10, <2>11,
       <2>12, <2>13, <2>14, <2>15, <2>16, <2>17, <2>18, <2>19, <2>20
    DEF ProcNext, AcquireStep, BeatStep, DropStep, IoError
<1>5. QED
  BY <1>1, <1>2, <1>3, <1>4 DEF Next

\* Every reachable state of the file lock is well typed.
THEOREM TypeCorrect == Spec => []TypeOK
<1>1. Init => TypeOK
  BY InitSafety DEF SafetyInv
<1>2. QED
  BY <1>1, TypeStep, PTL DEF Spec
-----------------------------------------------------------------------------
(* One thread at a time holds the flock, and program positions say which *)

LEMMA FlockStep == TypeOK /\ FlockDiscipline /\ [Next]_vars => FlockDiscipline'
<1> SUFFICES ASSUME TypeOK, FlockDiscipline, [Next]_vars PROVE FlockDiscipline'
  OBVIOUS
<1> USE ThreadsDistinct
    DEF TypeOK, FlockDiscipline, PC, BeatPC, history, bounds, Goes, BeatGoes,
        TakeFlock, DropFlock
<1>1. CASE UNCHANGED vars
  BY <1>1 DEF vars
<1>2. CASE Tick \/ ClockStep
  BY <1>2 DEF Tick, ClockStep
<1>3. ASSUME NEW p \in Proc, ProcNext(p) PROVE FlockDiscipline'
  <2>1. CASE AcquireCall(p)
    BY <2>1 DEF AcquireCall
  <2>2. CASE AcquireFlock(p)
    BY <2>2 DEF AcquireFlock
  <2>3. CASE DecideFree(p)
    BY <2>3 DEF DecideFree
  <2>4. CASE DecideBusy(p)
    BY <2>4 DEF DecideBusy
  <2>5. CASE GrantWrite(p)
    BY <2>5 DEF GrantWrite
  <2>6. CASE Poll(p)
    BY <2>6 DEF Poll
  <2>7. CASE Timeout(p)
    BY <2>7 DEF Timeout
  <2>8. CASE BeatFlock(p)
    BY <2>8 DEF BeatFlock
  <2>9. CASE Touch(p)
    BY <2>9 DEF Touch
  <2>10. CASE IsCurrent(p)
    BY <2>10 DEF IsCurrent
  <2>11. CASE Drop(p)
    BY <2>11 DEF Drop
  <2>12. CASE Join(p)
    BY <2>12 DEF Join
  <2>13. CASE FreeFlock(p)
    BY <2>13 DEF FreeFlock
  <2>14. CASE MarkFreeIfCurrent(p)
    BY <2>14 DEF MarkFreeIfCurrent
  <2>15. CASE AcquireIoError(p)
    BY <2>15 DEF AcquireIoError
  <2>16. CASE TouchIoError(p)
    BY <2>16 DEF TouchIoError
  <2>17. CASE MarkFreeIoError(p)
    BY <2>17 DEF MarkFreeIoError
  <2>18. CASE Crash(p)
    BY <2>18 DEF Crash
  <2>19. CASE Hang(p)
    BY <2>19 DEF Hang
  <2>20. CASE Resume(p)
    BY <2>20 DEF Resume
  <2>21. QED
    BY <1>3, <2>1, <2>2, <2>3, <2>4, <2>5, <2>6, <2>7, <2>8, <2>9, <2>10, <2>11,
       <2>12, <2>13, <2>14, <2>15, <2>16, <2>17, <2>18, <2>19, <2>20
    DEF ProcNext, AcquireStep, BeatStep, DropStep, IoError
<1>4. QED
  BY <1>1, <1>2, <1>3 DEF Next
-----------------------------------------------------------------------------
(* Fencing: generations *)

\* Steps that grant nothing: the recorded generation stays, and whoever has a
\* guard afterwards had it before, with the same generation.
GrantsNothing ==
  /\ disk'.generation = disk.generation
  /\ granted' = granted
  /\ \A q \in Proc : HasGuard(q)' => HasGuard(q) /\ gen'[q] = gen[q]

LEMMA GrantsNothingFences ==
  ASSUME GuardsAreFenced, HistoryIsBehindDisk, GrantsNothing
  PROVE  GuardsAreFenced' /\ HistoryIsBehindDisk'
  BY DEF GuardsAreFenced, HistoryIsBehindDisk, GrantsNothing

\* Only GrantWrite and a failed acquire that had already rewritten the record
\* change the recorded generation.
LEMMA QuietSteps ==
  ASSUME TypeOK, FlockDiscipline, [Next]_vars,
         ~ \E p \in Proc : GrantWrite(p) \/ AcquireIoError(p)
  PROVE  GrantsNothing
<1> USE DEF GrantsNothing, HasGuard, Guarded, TypeOK, Record, PC, BeatPC, history,
            bounds, Goes, BeatGoes, TakeFlock, DropFlock
<1>1. CASE UNCHANGED vars
  BY <1>1 DEF vars
<1>2. CASE Tick \/ ClockStep
  BY <1>2 DEF Tick, ClockStep
<1>3. ASSUME NEW p \in Proc, ProcNext(p) PROVE GrantsNothing
  <2>1. CASE AcquireCall(p) \/ AcquireFlock(p) \/ DecideFree(p) \/ DecideBusy(p)
    BY <2>1 DEF AcquireCall, AcquireFlock, DecideFree, DecideBusy
  <2>2. CASE Poll(p) \/ Timeout(p) \/ BeatFlock(p) \/ TouchIoError(p)
    BY <2>2 DEF Poll, Timeout, BeatFlock, TouchIoError
  <2>3. CASE Touch(p)
    BY <2>3 DEF Touch
  <2>4. CASE IsCurrent(p) \/ Drop(p) \/ Join(p) \/ FreeFlock(p)
    BY <2>4 DEF IsCurrent, Drop, Join, FreeFlock
  <2>5. CASE MarkFreeIfCurrent(p)
    BY <2>5 DEF MarkFreeIfCurrent, MarkedFree
  <2>6. CASE MarkFreeIoError(p) \/ Crash(p)
    BY <2>6 DEF MarkFreeIoError, Crash
  <2>7. CASE Hang(p) \/ Resume(p)
    BY <2>7 DEF Hang, Resume
  <2>8. QED
    BY <1>3, <2>1, <2>2, <2>3, <2>4, <2>5, <2>6, <2>7
    DEF ProcNext, AcquireStep, BeatStep, DropStep, IoError
<1>4. QED
  BY <1>1, <1>2, <1>3 DEF Next

LEMMA FencedStep ==
  ASSUME TypeOK, FlockDiscipline, GuardsAreFenced, HistoryIsBehindDisk, [Next]_vars
  PROVE  GuardsAreFenced' /\ HistoryIsBehindDisk'
<1> USE DEF HasGuard, Guarded, TypeOK, Record, PC, Goes
<1>1. CASE ~ \E p \in Proc : GrantWrite(p) \/ AcquireIoError(p)
  BY <1>1, QuietSteps, GrantsNothingFences
<1>2. ASSUME NEW p \in Proc, GrantWrite(p) PROVE GuardsAreFenced' /\ HistoryIsBehindDisk'
  <2>1. disk'.generation = disk.generation + 1
    BY <1>2 DEF GrantWrite, NewRecord
  <2>2. gen'[p] = disk.generation + 1 /\ \A q \in Proc \ {p} : gen'[q] = gen[q] /\ pc'[q] = pc[q]
    BY <1>2 DEF GrantWrite
  <2>3. GuardsAreFenced'
    BY <2>1, <2>2 DEF GuardsAreFenced
  <2>4. HistoryIsBehindDisk'
    BY <1>2, <2>1 DEF HistoryIsBehindDisk, GrantWrite
  <2>5. QED
    BY <2>3, <2>4
<1>3. ASSUME NEW p \in Proc, AcquireIoError(p) PROVE GuardsAreFenced' /\ HistoryIsBehindDisk'
  <2>1. disk'.generation \in {disk.generation, disk.generation + 1}
    BY <1>3 DEF AcquireIoError, NewRecord
  <2>2. \A q \in Proc : HasGuard(q)' => HasGuard(q)
    BY <1>3 DEF AcquireIoError
  <2>3. gen' = gen /\ granted' = granted
    BY <1>3 DEF AcquireIoError
  <2>4. QED
    BY <2>1, <2>2, <2>3 DEF GuardsAreFenced, HistoryIsBehindDisk
<1>4. QED
  BY <1>1, <1>2, <1>3

-----------------------------------------------------------------------------
(* A held record has an owner *)

LEMMA GhostStep ==
  ASSUME TypeOK, FlockDiscipline, GuardsAreFenced, NoGhostHold, [Next]_vars
  PROVE  NoGhostHold'
<1> USE DEF NoGhostHold, HasGuard, Guarded, TypeOK, Record, PC, BeatPC, history,
            bounds, Goes, BeatGoes, TakeFlock, DropFlock
<1>1. CASE UNCHANGED vars
  BY <1>1 DEF vars
<1>2. CASE Tick \/ ClockStep
  BY <1>2 DEF Tick, ClockStep
<1>3. ASSUME NEW p \in Proc, ProcNext(p) PROVE NoGhostHold'
  <2>1. CASE AcquireCall(p) \/ AcquireFlock(p) \/ DecideFree(p) \/ DecideBusy(p)
    BY <2>1 DEF AcquireCall, AcquireFlock, DecideFree, DecideBusy
  <2>2. CASE Poll(p) \/ Timeout(p) \/ BeatFlock(p) \/ TouchIoError(p)
    BY <2>2 DEF Poll, Timeout, BeatFlock, TouchIoError
  <2>3. CASE Touch(p)
    BY <2>3 DEF Touch, FlockDiscipline
  <2>4. CASE IsCurrent(p) \/ Drop(p) \/ Join(p) \/ FreeFlock(p)
    BY <2>4 DEF IsCurrent, Drop, Join, FreeFlock
  <2>5. CASE MarkFreeIfCurrent(p)
    BY <2>5 DEF MarkFreeIfCurrent, MarkedFree
  <2>6. CASE MarkFreeIoError(p)
    BY <2>6 DEF MarkFreeIoError
  <2>7. CASE Crash(p)
    BY <2>7 DEF Crash
  <2>8. CASE Hang(p) \/ Resume(p)
    BY <2>8 DEF Hang, Resume
  <2>9. CASE GrantWrite(p)
    BY <2>9 DEF GrantWrite, NewRecord
  <2>10. CASE AcquireIoError(p)
    BY <2>10 DEF AcquireIoError, NewRecord
  <2>11. QED
    BY <1>3, <2>1, <2>2, <2>3, <2>4, <2>5, <2>6, <2>7, <2>8, <2>9, <2>10
    DEF ProcNext, AcquireStep, BeatStep, DropStep, IoError
<1>4. QED
  BY <1>1, <1>2, <1>3 DEF Next

LEMMA HoldsStep ==
  ASSUME TypeOK, FlockDiscipline, GuardsAreFenced, CurrentGuardHolds, [Next]_vars
  PROVE  CurrentGuardHolds'
<1> USE DEF CurrentGuardHolds, HasGuard, Guarded, TypeOK, Record, PC, BeatPC, history,
            bounds, Goes, BeatGoes, TakeFlock, DropFlock
<1>1. CASE UNCHANGED vars
  BY <1>1 DEF vars
<1>2. CASE Tick \/ ClockStep
  BY <1>2 DEF Tick, ClockStep
<1>3. ASSUME NEW p \in Proc, ProcNext(p) PROVE CurrentGuardHolds'
  <2>1. CASE AcquireCall(p) \/ AcquireFlock(p) \/ DecideFree(p) \/ DecideBusy(p)
    BY <2>1 DEF AcquireCall, AcquireFlock, DecideFree, DecideBusy
  <2>2. CASE Poll(p) \/ Timeout(p) \/ BeatFlock(p) \/ TouchIoError(p)
    BY <2>2 DEF Poll, Timeout, BeatFlock, TouchIoError
  <2>3. CASE Touch(p)
    BY <2>3 DEF Touch
  <2>4. CASE IsCurrent(p) \/ Drop(p) \/ Join(p) \/ FreeFlock(p)
    BY <2>4 DEF IsCurrent, Drop, Join, FreeFlock
  <2>5. CASE MarkFreeIfCurrent(p)
    <3>1. HasGuard(p) /\ \A q \in Proc : HasGuard(q)' => HasGuard(q) /\ q # p /\ gen'[q] = gen[q]
      BY <2>5 DEF MarkFreeIfCurrent
    <3>2. disk'.generation = disk.generation /\ (disk.generation # gen[p] => disk' = disk)
      BY <2>5 DEF MarkFreeIfCurrent, MarkedFree
    <3>3. QED
      BY <3>1, <3>2 DEF GuardsAreFenced
  <2>6. CASE MarkFreeIoError(p) \/ Crash(p)
    BY <2>6 DEF MarkFreeIoError, Crash
  <2>7. CASE Hang(p) \/ Resume(p)
    BY <2>7 DEF Hang, Resume
  <2>8. CASE GrantWrite(p)
    BY <2>8 DEF GrantWrite, NewRecord
  <2>9. CASE AcquireIoError(p)
    BY <2>9 DEF AcquireIoError, NewRecord
  <2>10. QED
    BY <1>3, <2>1, <2>2, <2>3, <2>4, <2>5, <2>6, <2>7, <2>8, <2>9
    DEF ProcNext, AcquireStep, BeatStep, DropStep, IoError
<1>4. QED
  BY <1>1, <1>2, <1>3 DEF Next

LEMMA SafetyStep == SafetyInv /\ [Next]_vars => SafetyInv'
  BY TypeStep, FlockStep, FencedStep, GhostStep, HoldsStep DEF SafetyInv

LEMMA Safety == Spec => []SafetyInv
  BY InitSafety, SafetyStep, PTL DEF Spec

\* In every reachable state, over any number of crashes, takeovers, stalls, clock
\* changes and I/O errors, at most one guard can pass the fencing check.
THEOREM Fencing == Spec => []GuardsAreFenced
<1>1. SafetyInv => GuardsAreFenced
  BY DEF SafetyInv
<1>2. QED
  BY <1>1, Safety, PTL

\* A lock that was released does not come back as held by nobody.
THEOREM ReleaseIsFinal == Spec => []NoGhostHold
<1>1. SafetyInv => NoGhostHold
  BY DEF SafetyInv
<1>2. QED
  BY <1>1, Safety, PTL

\* Each acquire returns a generation above all those returned before it.
THEOREM GenerationsIncrease == Spec => MonotonicGenerations
<1> DEFINE Increase == \A p \in Proc : (~HasGuard(p) /\ HasGuard(p)') =>
                          \A h \in granted : gen'[p] > h
<1>1. SafetyInv /\ [Next]_vars => [Increase]_vars
  <2> SUFFICES ASSUME SafetyInv, Next PROVE Increase
    OBVIOUS
  <2> USE DEF SafetyInv
  <2>1. CASE ~ \E p \in Proc : GrantWrite(p) \/ AcquireIoError(p)
    BY <2>1, QuietSteps DEF GrantsNothing
  <2>2. ASSUME NEW p \in Proc, AcquireIoError(p) PROVE Increase
    BY <2>2 DEF AcquireIoError, Goes, HasGuard, Guarded, TypeOK
  <2>3. ASSUME NEW p \in Proc, GrantWrite(p) PROVE Increase
    <3>1. disk.generation \in Nat /\ granted \in SUBSET Nat
      BY DEF TypeOK, Record
    <3>2. /\ gen'[p] = disk.generation + 1
          /\ \A q \in Proc \ {p} : HasGuard(q)' <=> HasGuard(q)
      BY <2>3 DEF GrantWrite, Goes, HasGuard, TypeOK
    <3>3. \A h \in granted : gen'[p] > h
      BY <3>1, <3>2 DEF HistoryIsBehindDisk
    <3>4. QED
      BY <3>2, <3>3
  <2>4. QED
    BY <2>1, <2>2, <2>3
<1>2. QED
  BY <1>1, Safety, PTL DEF Spec, MonotonicGenerations, HasGuard

\* A held record is marked free only by the guard it belongs to.
THEOREM OwnerFrees == Spec => OnlyOwnerFrees
<1> DEFINE Owned == (disk.held /\ ~disk'.held) =>
                      \E p \in Proc : pc[p] = "mark" /\ gen[p] = disk.generation
<1>1. SafetyInv /\ [Next]_vars => [Owned]_vars
  <2> SUFFICES ASSUME SafetyInv, Next PROVE Owned
    OBVIOUS
  <2> USE DEF SafetyInv, TypeOK, Record, history, bounds
  <2>1. CASE Tick \/ ClockStep
    BY <2>1 DEF Tick, ClockStep
  <2>2. ASSUME NEW p \in Proc, ProcNext(p) PROVE Owned
    <3>1. CASE MarkFreeIfCurrent(p)
      BY <3>1 DEF MarkFreeIfCurrent, Goes
    <3>2. CASE Touch(p)
      BY <3>2 DEF Touch
    <3>3. CASE GrantWrite(p) \/ AcquireIoError(p)
      BY <3>3 DEF GrantWrite, AcquireIoError, NewRecord
    <3>4. CASE disk' = disk
      BY <3>4
    <3>5. QED
      BY <2>2, <3>1, <3>2, <3>3, <3>4
      DEF ProcNext, AcquireStep, BeatStep, DropStep, IoError, AcquireCall, AcquireFlock,
          DecideFree, DecideBusy, Poll, Timeout, BeatFlock, IsCurrent, Drop, Join,
          FreeFlock, TouchIoError, MarkFreeIoError, Crash, Hang, Resume
  <2>3. QED
    BY <2>1, <2>2 DEF Next
<1>2. QED
  BY <1>1, Safety, PTL DEF Spec, OnlyOwnerFrees

-----------------------------------------------------------------------------
(* A timely holder is not superseded *)

LEMMA TimelyInit == Init => TimelyInv
  BY LockConstants DEF Init, TimelyInv, HasGuard, Guarded

LEMMA TimelyStep ==
  ASSUME ~ClockMayStep, SafetyInv, TimelyInv, [Next]_vars
  PROVE  TimelyInv'
<1> USE LockConstants, SafetyMargin, ThreadsDistinct
    DEF TimelyInv, SafetyInv, HasGuard, Guarded, TypeOK, Record, PC, BeatPC, MaxAge, history,
        bounds, Goes, BeatGoes, TakeFlock, DropFlock
<1>1. CASE UNCHANGED vars
  BY <1>1 DEF vars
<1>2. CASE Tick
  <2>1. \A q \in Proc : HasGuard(q) => stamp'[q] = Older(stamp[q])
    BY <1>2 DEF Tick
  <2>2. \A q \in Proc : timely'[q] <=> timely[q] /\ stamp'[q] <= MaxLag
    BY <1>2 DEF Tick
  <2>3. disk.held => disk' = [disk EXCEPT !.age = Older(disk.age)]
    BY <1>2 DEF Tick
  <2>4. pc' = pc /\ gen' = gen
    BY <1>2 DEF Tick
  <2>5. ASSUME NEW q \in Proc, HasGuard(q), timely'[q]
        PROVE  disk' = [generation |-> gen[q], held |-> TRUE, age |-> stamp'[q]]
    <3>1. disk = [generation |-> gen[q], held |-> TRUE, age |-> stamp[q]]
      BY <2>2, <2>5
    <3>2. QED
      BY <2>1, <2>3, <2>5, <3>1
  <2>6. QED
    BY <2>2, <2>4, <2>5
<1>3. CASE ClockStep
  BY <1>3 DEF ClockStep
<1>4. ASSUME NEW p \in Proc, ProcNext(p) PROVE TimelyInv'
  <2>1. CASE AcquireCall(p) \/ AcquireFlock(p) \/ DecideBusy(p)
    BY <2>1 DEF AcquireCall, AcquireFlock, DecideBusy
  <2>2. CASE DecideFree(p)
    BY <2>2 DEF DecideFree, IsFree
  <2>3. CASE GrantWrite(p)
    <3>1. disk' = [generation |-> gen'[p], held |-> TRUE, age |-> stamp[p]]
      BY <2>3 DEF GrantWrite, NewRecord
    <3>2. pc[p] = "grant" /\ pc' = [pc EXCEPT ![p] = "held"] /\ stamp' = stamp /\ timely' = timely
      BY <2>3 DEF GrantWrite
    <3>3. \A q \in Proc \ {p} : pc[q] # "grant"
      BY <3>2 DEF FlockDiscipline
    <3>4. \A q \in Proc \ {p} : HasGuard(q) => ~timely[q]
      BY <3>2
    <3>5. QED
      BY <3>1, <3>2, <3>3, <3>4
  <2>4. CASE AcquireIoError(p)
    <3>1. PICK s \in {"open", "decide", "grant"} : Goes(p, s, "idle")
      BY <2>4 DEF AcquireIoError
    <3>2. stamp' = stamp /\ timely' = timely /\ gen' = gen /\ pc' = [pc EXCEPT ![p] = "idle"]
      BY <2>4, <3>1 DEF AcquireIoError
    <3>3. disk' = disk \/ pc[p] = "grant"
      BY <2>4 DEF AcquireIoError
    <3>4. \A q \in Proc : HasGuard(q)' => HasGuard(q) /\ q # p
      BY <3>1, <3>2
    <3>5. QED
      BY <3>2, <3>3, <3>4
  <2>5. CASE Poll(p) \/ Timeout(p) \/ BeatFlock(p) \/ TouchIoError(p)
    BY <2>5 DEF Poll, Timeout, BeatFlock, TouchIoError
  <2>6. CASE Touch(p)
    BY <2>6 DEF Touch, FlockDiscipline, GuardsAreFenced
  <2>7. CASE IsCurrent(p) \/ Drop(p) \/ Join(p) \/ FreeFlock(p)
    BY <2>7 DEF IsCurrent, Drop, Join, FreeFlock
  <2>8. CASE MarkFreeIfCurrent(p)
    <3>1. HasGuard(p) /\ \A q \in Proc : HasGuard(q)' => HasGuard(q) /\ q # p /\ gen'[q] = gen[q]
      BY <2>8 DEF MarkFreeIfCurrent
    <3>2. stamp' = stamp /\ timely' = timely /\ pc' = [pc EXCEPT ![p] = "idle"]
      BY <2>8 DEF MarkFreeIfCurrent
    <3>3. disk.generation # gen[p] => disk' = disk
      BY <2>8 DEF MarkFreeIfCurrent
    <3>4. ASSUME NEW q \in Proc, HasGuard(q)', timely[q]
          PROVE  disk' = [generation |-> gen[q], held |-> TRUE, age |-> stamp[q]]
      <4>1. gen[q] # gen[p] /\ disk.generation = gen[q]
        BY <3>1, <3>4 DEF GuardsAreFenced
      <4>2. QED
        BY <3>1, <3>3, <3>4, <4>1
    <3>5. QED
      BY <3>1, <3>2, <3>4
  <2>9. CASE MarkFreeIoError(p) \/ Crash(p)
    BY <2>9 DEF MarkFreeIoError, Crash
  <2>10. CASE Hang(p) \/ Resume(p)
    BY <2>10 DEF Hang, Resume
  <2>11. QED
    BY <1>4, <2>1, <2>2, <2>3, <2>4, <2>5, <2>6, <2>7, <2>8, <2>9, <2>10
    DEF ProcNext, AcquireStep, BeatStep, DropStep, IoError
<1>5. QED
  BY <1>1, <1>2, <1>3, <1>4 DEF Next

\* While the clock is not set and stale_after covers the worst delay of a timely
\* holder, no such holder is ever superseded or seen as free.
THEOREM TimelyHolder == Spec => []TimelyHolderIsCurrent
<1>1. CASE ClockMayStep
  <2>1. TimelyHolderIsCurrent
    BY <1>1 DEF TimelyHolderIsCurrent
  <2>2. QED
    BY <2>1, PTL
<1>2. CASE ~ClockMayStep
  <2>1. Spec => []TimelyInv
    BY <1>2, TimelyInit, TimelyStep, Safety, PTL DEF Spec
  <2>2. SafetyInv /\ TimelyInv => TimelyHolderIsCurrent
    BY LockConstants, SafetyMargin
    DEF SafetyInv, TimelyInv, TimelyHolderIsCurrent, HasGuard, Guarded, IsFree, TypeOK
  <2>3. QED
    BY <2>1, <2>2, Safety, PTL
<1>3. QED
  BY <1>1, <1>2

-----------------------------------------------------------------------------
(* Refinement: the file lock implements the fencing-token service *)

Tokens == [p \in Proc |-> IF HasGuard(p) THEN gen[p] ELSE 0]

LEMMA RefinesInit == Init => Abstract!LockInit
  BY DEF Init, Abstract!LockInit, HasGuard, Guarded

\* A step that changes neither the record's generation, nor whether it is held,
\* nor any guard, is invisible to the abstract lock.
LEMMA Invisible ==
  ASSUME disk'.generation = disk.generation, disk'.held = disk.held,
         \A p \in Proc : HasGuard(p)' = HasGuard(p) /\ (HasGuard(p) => gen'[p] = gen[p])
  PROVE  UNCHANGED Abstract!lockVars
  BY DEF Abstract!lockVars

LEMMA RefinesStep ==
  ASSUME SafetyInv, [Next]_vars
  PROVE  [Abstract!LockNext]_(Abstract!lockVars)
<1> USE DEF SafetyInv, HasGuard, Guarded, TypeOK, Record, PC, BeatPC, history,
            bounds, Goes, BeatGoes
<1>1. CASE UNCHANGED vars
  BY <1>1, Invisible DEF vars
<1>2. CASE Tick
  BY <1>2, Invisible DEF Tick
<1>3. CASE ClockStep
  BY <1>3, Invisible DEF ClockStep
<1>4. ASSUME NEW p \in Proc, ProcNext(p) PROVE [Abstract!LockNext]_(Abstract!lockVars)
  <2>1. CASE AcquireCall(p) \/ AcquireFlock(p) \/ DecideFree(p) \/ DecideBusy(p)
    BY <2>1, Invisible DEF AcquireCall, AcquireFlock, DecideFree, DecideBusy
  <2>2. CASE Poll(p) \/ Timeout(p) \/ BeatFlock(p) \/ TouchIoError(p)
    BY <2>2, Invisible DEF Poll, Timeout, BeatFlock, TouchIoError
  <2>3. CASE IsCurrent(p) \/ Drop(p) \/ Join(p) \/ FreeFlock(p)
    BY <2>3, Invisible DEF IsCurrent, Drop, Join, FreeFlock
  <2>4. CASE Hang(p) \/ Resume(p)
    BY <2>4, Invisible DEF Hang, Resume
  <2>5. CASE Touch(p)
    <3>1. disk'.generation = disk.generation /\ disk'.held = disk.held
      <4>1. HasGuard(p)
        BY <2>5 DEF Touch, FlockDiscipline
      <4>2. CASE disk.generation = gen[p]
        <5>1. disk' = [generation |-> gen[p], held |-> TRUE, age |-> 0]
          BY <2>5, <4>2 DEF Touch
        <5>2. disk.held = TRUE
          BY <4>1, <4>2 DEF CurrentGuardHolds
        <5>3. QED
          BY <4>2, <5>1, <5>2
      <4>3. CASE disk.generation # gen[p]
        BY <2>5, <4>3 DEF Touch
      <4>4. QED
        BY <4>2, <4>3
    <3>2. QED
      BY <2>5, <3>1, Invisible DEF Touch
  <2>6. CASE GrantWrite(p)
    <3>1. disk'.generation = disk.generation + 1 /\ disk'.held
      BY <2>6 DEF GrantWrite, NewRecord
    <3>2. Tokens[p] = 0 /\ Tokens' = [Tokens EXCEPT ![p] = disk.generation + 1]
      BY <2>6 DEF GrantWrite, Tokens
    <3>3. Abstract!Grant(p) \/ Abstract!Reclaim(p)
      BY <3>1, <3>2 DEF Tokens, Abstract!Grant, Abstract!Reclaim
    <3>4. QED
      BY <3>3 DEF Abstract!LockNext
  <2>7. CASE AcquireIoError(p)
    <3>1. Tokens' = Tokens
      BY <2>7 DEF AcquireIoError, Tokens
    <3>2. CASE disk' = disk
      BY <3>1, <3>2 DEF Tokens, Abstract!lockVars
    <3>3. CASE disk' = NewRecord(p)
      <4>1. disk'.generation = disk.generation + 1 /\ disk'.held
        BY <3>3 DEF NewRecord
      <4>2. Abstract!GrantWithoutGuard
        BY <3>1, <4>1 DEF Tokens, Abstract!GrantWithoutGuard
      <4>3. QED
        BY <4>2 DEF Abstract!LockNext
    <3>4. QED
      BY <2>7, <3>2, <3>3 DEF AcquireIoError
  <2>8. CASE MarkFreeIfCurrent(p)
    <3>1. Tokens[p] = gen[p] /\ Tokens' = [Tokens EXCEPT ![p] = 0]
      BY <2>8 DEF MarkFreeIfCurrent, Tokens
    <3>2. disk'.generation = disk.generation
      BY <2>8 DEF MarkFreeIfCurrent, MarkedFree
    <3>3. disk'.held = (disk.held /\ disk.generation # gen[p])
      BY <2>8 DEF MarkFreeIfCurrent, MarkedFree
    <3>4. gen[p] # 0
      BY <2>8 DEF MarkFreeIfCurrent, GuardsAreFenced
    <3>5. Abstract!Release(p)
      BY <3>1, <3>2, <3>3, <3>4 DEF Tokens, Abstract!Release, Abstract!IsCurrent
    <3>6. QED
      BY <3>5 DEF Abstract!LockNext
  <2>9. CASE MarkFreeIoError(p)
    <3>1. Tokens[p] = gen[p] /\ Tokens' = [Tokens EXCEPT ![p] = 0] /\ disk' = disk
      BY <2>9 DEF MarkFreeIoError, Tokens
    <3>2. Tokens[p] # 0
      BY <2>9, <3>1 DEF MarkFreeIoError, GuardsAreFenced
    <3>3. Abstract!Abandon(p)
      BY <3>1, <3>2 DEF Tokens, Abstract!Abandon
    <3>4. QED
      BY <3>3 DEF Abstract!LockNext
  <2>10. CASE Crash(p)
    <3>1. Tokens' = [Tokens EXCEPT ![p] = 0] /\ disk' = disk
      BY <2>10 DEF Crash, Tokens
    <3>2. CASE HasGuard(p)
      <4>1. Tokens[p] # 0
        BY <3>2 DEF Tokens, GuardsAreFenced
      <4>2. Abstract!Abandon(p)
        BY <3>1, <4>1 DEF Tokens, Abstract!Abandon
      <4>3. QED
        BY <4>2 DEF Abstract!LockNext
    <3>3. CASE ~HasGuard(p)
      BY <3>1, <3>3 DEF Tokens, Abstract!lockVars
    <3>4. QED
      BY <3>2, <3>3
  <2>11. QED
    BY <1>4, <2>1, <2>2, <2>3, <2>4, <2>5, <2>6, <2>7, <2>8, <2>9, <2>10
    DEF ProcNext, AcquireStep, BeatStep, DropStep, IoError
<1>5. QED
  BY <1>1, <1>2, <1>3, <1>4 DEF Next

\* Every behaviour of the file lock is a behaviour of the fencing-token service.
THEOREM Refinement == Spec => ImplementsFencedLock
  BY RefinesInit, RefinesStep, Safety, PTL
  DEF Spec, ImplementsFencedLock, Abstract!LockSpec
=============================================================================
