------------------------------ MODULE FileLock ------------------------------
(***************************************************************************)
(* The crash-safe file lock of crate iwe-lock (lib.rs, state.rs,           *)
(* heartbeat.rs).  All lock state is one record on disk, a generation and  *)
(* a heartbeat timestamp, read and rewritten in place by any process under *)
(* the operating system's exclusive flock on the file.  Every holder runs  *)
(* a heartbeat thread that re-stamps the record; a record that is too old  *)
(* may be taken over under the next generation.                            *)
(*                                                                         *)
(* Time.  A timestamp is modelled by its AGE: `age` is what the code       *)
(* computes as now.saturating_sub(heartbeat_millis), so stamping with now  *)
(* is age 0.  Tick ages every stamp and runs down every deadline.  Ages    *)
(* are compared with StaleAfter and MaxLag only, so they saturate just     *)
(* above both (MaxAge).                                                    *)
(***************************************************************************)
EXTENDS Naturals, FiniteSets

CONSTANTS
  Proc,            \* processes opening the same lock path
  StaleAfter,      \* LockConfig::stale_after, in ticks
  AcquireTimeout,  \* LockConfig::acquire_timeout, in ticks
  MaxLag,          \* heartbeat_interval plus the scheduling delay of a timely holder
  ClockMayStep,    \* may the wall clock be set (SystemTime is not monotonic)?
  MaxCalls,        \* bound: calls of acquire
  MaxHangs         \* bound: times a process stops being scheduled

ASSUME LockConstants ==
  /\ StaleAfter \in Nat
  /\ AcquireTimeout \in Nat
  /\ MaxLag \in Nat
  /\ ClockMayStep \in BOOLEAN
  /\ MaxCalls \in Nat
  /\ MaxHangs \in Nat

\* The margin lib.rs asks of the caller: stale_after exceeds the interval at
\* which a timely holder really touches the record.
ASSUME SafetyMargin == MaxLag <= StaleAfter

MaxAge == StaleAfter + 1

VARIABLES
  disk,      \* the persisted record: generation, held (heartbeat # 0), age
  flock,     \* the thread that owns the exclusive flock
  pc,        \* where each process's main thread is
  beat,      \* where each process's heartbeat thread is
  gen,       \* generation of the guard a process was granted
  stamp,     \* age of the last timestamp the process took for the record
  remaining, \* ticks left until the deadline of acquire
  verdict,   \* what the last is_current call told the holder
  hung,      \* processes that are stopped but not dead
  calls,     \* calls of acquire so far (bounds the model)
  hangs,     \* hangs so far (bounds the model)
  granted,   \* history: generations returned by acquire
  lost,      \* history: generations whose release never reached the disk
  timely     \* history: no stamp of the current hold was ever older than MaxLag

vars == <<disk, flock, pc, beat, gen, stamp, remaining, verdict, hung, calls,
          hangs, granted, lost, timely>>

NoThread == <<"none", "none">>
Main(p) == <<p, "main">>
Beat(p) == <<p, "beat">>
Threads == {NoThread} \cup {Main(p) : p \in Proc} \cup {Beat(p) : p \in Proc}

PC == {"idle", "open", "decide", "grant", "poll", "held", "join", "free", "mark"}
BeatPC == {"none", "sleep", "open", "touch"}
Guarded == {"held", "join", "free", "mark"}   \* the guard exists

Record == [generation : Nat, held : BOOLEAN, age : 0..MaxAge]

TypeOK ==
  /\ disk \in Record
  /\ flock \in Threads
  /\ pc \in [Proc -> PC]
  /\ beat \in [Proc -> BeatPC]
  /\ gen \in [Proc -> Nat]
  /\ stamp \in [Proc -> 0..MaxAge]
  /\ remaining \in [Proc -> 0..AcquireTimeout]
  /\ verdict \in [Proc -> {"none", "current", "stale"}]
  /\ hung \in SUBSET Proc
  /\ calls \in Nat
  /\ hangs \in Nat
  /\ granted \in SUBSET Nat
  /\ lost \in SUBSET Nat
  /\ timely \in [Proc -> BOOLEAN]

Init ==
  /\ disk = [generation |-> 0, held |-> FALSE, age |-> 0]
  /\ flock = NoThread
  /\ pc = [p \in Proc |-> "idle"]
  /\ beat = [p \in Proc |-> "none"]
  /\ gen = [p \in Proc |-> 0]
  /\ stamp = [p \in Proc |-> 0]
  /\ remaining = [p \in Proc |-> 0]
  /\ verdict = [p \in Proc |-> "none"]
  /\ hung = {}
  /\ calls = 0
  /\ hangs = 0
  /\ granted = {}
  /\ lost = {}
  /\ timely = [p \in Proc |-> TRUE]

history == <<granted, lost, timely>>
bounds == <<calls, hangs, hung>>

\* Mutant of IsFree: the comparison with stale_after is off by one.
IsFreeOffByOne(r) == ~r.held \/ r.age >= StaleAfter

\* Free, or held by somebody whose heartbeat is older than stale_after.
IsFree(r) == ~r.held \/ r.age > StaleAfter

Older(a) == IF a < MaxAge THEN a + 1 ELSE a

Goes(p, from, to) ==
  /\ p \notin hung
  /\ pc[p] = from
  /\ pc' = [pc EXCEPT ![p] = to]

BeatGoes(p, from, to) ==
  /\ p \notin hung
  /\ beat[p] = from
  /\ beat' = [beat EXCEPT ![p] = to]

TakeFlock(t) == flock = NoThread /\ flock' = t
DropFlock(t) == flock = t /\ flock' = NoThread

-----------------------------------------------------------------------------
(* FileLock::acquire *)

AcquireCall(p) ==
  /\ calls < MaxCalls
  /\ calls' = calls + 1
  /\ Goes(p, "idle", "open")
  /\ remaining' = [remaining EXCEPT ![p] = AcquireTimeout]
  /\ UNCHANGED <<disk, flock, beat, gen, stamp, verdict, hung, hangs, history>>

AcquireFlock(p) ==
  /\ Goes(p, "open", "decide")
  /\ TakeFlock(Main(p))
  /\ UNCHANGED <<disk, beat, gen, stamp, remaining, verdict, bounds, history>>

\* The clock is read under the flock; the record decides.
DecideFree(p) ==
  /\ IsFree(disk)
  /\ Goes(p, "decide", "grant")
  /\ stamp' = [stamp EXCEPT ![p] = 0]
  /\ timely' = [timely EXCEPT ![p] = TRUE]
  /\ UNCHANGED <<disk, flock, beat, gen, remaining, verdict, bounds, granted, lost>>

DecideBusy(p) ==
  /\ ~IsFree(disk)
  /\ Goes(p, "decide", "poll")
  /\ DropFlock(Main(p))
  /\ UNCHANGED <<disk, beat, gen, stamp, remaining, verdict, bounds, history>>

\* Mutant of NewRecord: a takeover keeps the generation on disk, as if the new
\* generation existed in the holder's memory only.
NewRecordInMemory(p) ==
  [generation |-> disk.generation, held |-> TRUE, age |-> stamp[p]]

\* Mutant of NewRecord: the record is stamped with an unclamped age (the clock
\* was read before the wait for the flock).
NewRecordUnheard(p) ==
  [generation |-> disk.generation + 1, held |-> TRUE, age |-> stamp[p] + MaxAge + 1]

NewRecord(p) ==
  [generation |-> disk.generation + 1, held |-> TRUE, age |-> stamp[p]]

\* The record is rewritten, the flock dropped, the heartbeat thread spawned.
GrantWrite(p) ==
  /\ Goes(p, "grant", "held")
  /\ disk' = NewRecord(p)
  /\ DropFlock(Main(p))
  /\ gen' = [gen EXCEPT ![p] = disk.generation + 1]
  /\ beat' = [beat EXCEPT ![p] = "sleep"]
  /\ verdict' = [verdict EXCEPT ![p] = "none"]
  /\ granted' = granted \cup {disk.generation + 1}
  /\ UNCHANGED <<stamp, remaining, bounds, lost, timely>>

\* An I/O error in open, lock, read, write or sync is returned; the record may
\* already have been rewritten when the error is the sync's.
AcquireIoError(p) ==
  /\ \E s \in {"open", "decide", "grant"} : Goes(p, s, "idle")
  /\ flock' = IF pc[p] = "open" THEN flock ELSE NoThread
  /\ \/ UNCHANGED <<disk, lost>>
     \/ /\ pc[p] = "grant"
        /\ disk' = NewRecord(p)
        /\ lost' = lost \cup {disk.generation + 1}
  /\ UNCHANGED <<beat, gen, stamp, remaining, verdict, bounds, granted, timely>>

\* Mutant of Timeout: the deadline is never found to have passed.
TimeoutNever(p) ==
  /\ remaining[p] > AcquireTimeout
  /\ Goes(p, "poll", "idle")
  /\ UNCHANGED <<disk, flock, beat, gen, stamp, remaining, verdict, bounds, history>>

Poll(p) ==
  /\ remaining[p] > 0
  /\ Goes(p, "poll", "open")
  /\ UNCHANGED <<disk, flock, beat, gen, stamp, remaining, verdict, bounds, history>>

Timeout(p) ==
  /\ remaining[p] = 0
  /\ Goes(p, "poll", "idle")
  /\ UNCHANGED <<disk, flock, beat, gen, stamp, remaining, verdict, bounds, history>>

-----------------------------------------------------------------------------
(* Heartbeat thread and LockGuard *)

BeatFlock(p) ==
  /\ \/ BeatGoes(p, "sleep", "open") /\ UNCHANGED flock   \* interval elapsed
     \/ BeatGoes(p, "open", "touch") /\ TakeFlock(Beat(p))
  /\ UNCHANGED <<disk, pc, gen, stamp, remaining, verdict, bounds, history>>

\* Mutant of Touch: re-stamps without comparing generations.
TouchAnyway(p) ==
  /\ BeatGoes(p, "touch", "sleep")
  /\ DropFlock(Beat(p))
  /\ disk' = [generation |-> gen[p], held |-> TRUE, age |-> 0]
  /\ stamp' = [stamp EXCEPT ![p] = 0]
  /\ UNCHANGED <<pc, gen, remaining, verdict, bounds, history>>

\* touch_if_current: re-stamps the record only while it is still this hold's.
Touch(p) ==
  /\ BeatGoes(p, "touch", "sleep")
  /\ DropFlock(Beat(p))
  /\ IF disk.generation = gen[p]
     THEN /\ disk' = [generation |-> gen[p], held |-> TRUE, age |-> 0]
          /\ stamp' = [stamp EXCEPT ![p] = 0]
     ELSE UNCHANGED <<disk, stamp>>
  /\ UNCHANGED <<pc, gen, remaining, verdict, bounds, history>>

\* Errors of a touch are ignored; the thread goes back to sleep.
TouchIoError(p) ==
  /\ \E s \in {"open", "touch"} : BeatGoes(p, s, "sleep")
  /\ flock' = IF beat[p] = "touch" THEN NoThread ELSE flock
  /\ UNCHANGED <<disk, pc, gen, stamp, remaining, verdict, bounds, history>>

\* LockGuard::is_current, under the shared flock.
IsCurrent(p) ==
  /\ p \notin hung
  /\ pc[p] = "held"
  /\ flock = NoThread
  /\ verdict' = [verdict EXCEPT
                   ![p] = IF disk.generation = gen[p] THEN "current" ELSE "stale"]
  /\ UNCHANGED <<disk, flock, pc, beat, gen, stamp, remaining, bounds, history>>

\* Drop for LockGuard: stop the thread, wait for it, then mark the record free.
Drop(p) ==
  /\ Goes(p, "held", "join")
  /\ UNCHANGED <<disk, flock, beat, gen, stamp, remaining, verdict, bounds, history>>

\* Mutant of Join: the thread is told to stop but not waited for.
JoinWithoutWaiting(p) ==
  /\ Goes(p, "join", "free")
  /\ beat' = [beat EXCEPT ![p] = IF @ = "sleep" THEN "none" ELSE @]
  /\ UNCHANGED <<disk, flock, gen, stamp, remaining, verdict, bounds, history>>

Join(p) ==
  /\ Goes(p, "join", "free")
  /\ BeatGoes(p, "sleep", "none")
  /\ UNCHANGED <<disk, flock, gen, stamp, remaining, verdict, bounds, history>>

FreeFlock(p) ==
  /\ Goes(p, "free", "mark")
  /\ TakeFlock(Main(p))
  /\ UNCHANGED <<disk, beat, gen, stamp, remaining, verdict, bounds, history>>

MarkedFree(p) == [generation |-> gen[p], held |-> FALSE, age |-> 0]

\* Mutant of MarkFreeIfCurrent: frees a record that somebody else took over.
MarkFreeAnyway(p) ==
  /\ Goes(p, "mark", "idle")
  /\ DropFlock(Main(p))
  /\ disk' = [disk EXCEPT !.held = FALSE]
  /\ verdict' = [verdict EXCEPT ![p] = "none"]
  /\ UNCHANGED <<beat, gen, stamp, remaining, bounds, history>>

MarkFreeIfCurrent(p) ==
  /\ Goes(p, "mark", "idle")
  /\ DropFlock(Main(p))
  /\ disk' = IF disk.generation = gen[p] THEN MarkedFree(p) ELSE disk
  /\ verdict' = [verdict EXCEPT ![p] = "none"]
  /\ UNCHANGED <<beat, gen, stamp, remaining, bounds, history>>

\* The result of mark_free_if_current is discarded: the hold is left to go stale.
MarkFreeIoError(p) ==
  /\ \E s \in {"free", "mark"} : Goes(p, s, "idle")
  /\ flock' = IF pc[p] = "mark" THEN NoThread ELSE flock
  /\ verdict' = [verdict EXCEPT ![p] = "none"]
  /\ lost' = lost \cup {gen[p]}
  /\ UNCHANGED <<disk, beat, gen, stamp, remaining, bounds, granted, timely>>

-----------------------------------------------------------------------------
(* The environment: time, clock changes, crashes and stopped processes *)

Tick ==
  /\ disk' = [disk EXCEPT !.age = IF disk.held THEN Older(@) ELSE @]
  /\ stamp' = [p \in Proc |-> IF pc[p] \in Guarded \cup {"grant"}
                               THEN Older(stamp[p]) ELSE stamp[p]]
  /\ timely' = [p \in Proc |-> timely[p] /\ stamp'[p] <= MaxLag]
  /\ remaining' = [p \in Proc |-> IF remaining[p] > 0 THEN remaining[p] - 1 ELSE 0]
  /\ UNCHANGED <<flock, pc, beat, gen, verdict, bounds, granted, lost>>

\* The wall clock is set forward or back while nobody is inside the flock.
ClockStep ==
  /\ ClockMayStep
  /\ flock = NoThread
  /\ disk.held
  /\ \E a \in 0..MaxAge : disk' = [disk EXCEPT !.age = a]
  /\ UNCHANGED <<flock, pc, beat, gen, stamp, remaining, verdict, bounds, history>>

\* The process dies: the kernel drops its flock, nobody releases its hold.
Crash(p) ==
  /\ pc[p] # "idle"
  /\ pc' = [pc EXCEPT ![p] = "idle"]
  /\ beat' = [beat EXCEPT ![p] = "none"]
  /\ flock' = IF flock \in {Main(p), Beat(p)} THEN NoThread ELSE flock
  /\ gen' = [gen EXCEPT ![p] = 0]
  /\ verdict' = [verdict EXCEPT ![p] = "none"]
  /\ hung' = hung \ {p}
  /\ lost' = IF pc[p] \in Guarded THEN lost \cup {gen[p]} ELSE lost
  /\ UNCHANGED <<disk, stamp, remaining, calls, hangs, granted, timely>>

Hang(p) ==
  /\ hangs < MaxHangs
  /\ hangs' = hangs + 1
  /\ p \notin hung
  /\ hung' = hung \cup {p}
  /\ UNCHANGED <<disk, flock, pc, beat, gen, stamp, remaining, verdict, calls, history>>

Resume(p) ==
  /\ p \in hung
  /\ hung' = hung \ {p}
  /\ UNCHANGED <<disk, flock, pc, beat, gen, stamp, remaining, verdict, calls, hangs, history>>

-----------------------------------------------------------------------------

AcquireStep(p) ==
  \/ AcquireFlock(p) \/ DecideFree(p) \/ DecideBusy(p) \/ GrantWrite(p)
  \/ Poll(p) \/ Timeout(p)

DropStep(p) ==
  Join(p) \/ FreeFlock(p) \/ MarkFreeIfCurrent(p)

BeatStep(p) == BeatFlock(p) \/ Touch(p)

IoError(p) == AcquireIoError(p) \/ TouchIoError(p) \/ MarkFreeIoError(p)

ProcNext(p) ==
  \/ AcquireCall(p) \/ AcquireStep(p) \/ BeatStep(p) \/ IsCurrent(p)
  \/ Drop(p) \/ DropStep(p) \/ IoError(p)
  \/ Crash(p) \/ Hang(p) \/ Resume(p)

Next == Tick \/ ClockStep \/ \E p \in Proc : ProcNext(p)

Spec == Init /\ [][Next]_vars

\* Running threads keep running, blocked flock calls are eventually served,
\* time passes.  Nothing obliges a holder to drop, a process to call acquire, or
\* a stopped process to resume.
Fairness ==
  /\ WF_vars(Tick)
  /\ \A p \in Proc :
       /\ SF_vars(AcquireFlock(p))
       /\ WF_vars(DecideFree(p) \/ DecideBusy(p) \/ GrantWrite(p) \/ Poll(p) \/ Timeout(p))
       /\ SF_vars(BeatFlock(p)) /\ WF_vars(Touch(p))
       /\ WF_vars(Join(p) \/ MarkFreeIfCurrent(p)) /\ SF_vars(FreeFlock(p))

FairSpec == Spec /\ Fairness
-----------------------------------------------------------------------------
(* Properties *)

HasGuard(p) == pc[p] \in Guarded

\* No two guards carry the same generation and none carries one the disk has
\* not reached, so at most one guard passes the fencing check of is_current.
GuardsAreFenced ==
  \A p \in Proc : HasGuard(p) =>
    /\ gen[p] \in 1..disk.generation
    /\ \A q \in Proc \ {p} : HasGuard(q) => gen[q] # gen[p]

\* Every generation acquire returns is greater than all it returned before, over
\* crashes, takeovers and failed acquires (lib.rs property 2).
MonotonicGenerations ==
  [][\A p \in Proc : (~HasGuard(p) /\ HasGuard(p)') =>
       \A h \in granted : gen'[p] > h]_vars

\* A record that says "held" belongs to a guard that still exists, or to a hold
\* whose process died or failed to release it: once Drop has marked a record
\* free, no late heartbeat of the same guard makes it look held again.
NoGhostHold ==
  disk.held =>
    \/ disk.generation \in lost
    \/ \E p \in Proc : HasGuard(p) /\ gen[p] = disk.generation

\* With a clock that is not set, a holder whose stamps never got older than
\* MaxLag <= StaleAfter is not superseded, whoever else crashes or stalls, and an
\* observer sees the lock as held (lib.rs property 1 with its caller invariant).
TimelyHolderIsCurrent ==
  ~ClockMayStep =>
    \A p \in Proc : (pc[p] = "held" /\ timely[p]) =>
      disk.generation = gen[p] /\ ~IsFree(disk)

\* A guard that was told it is stale stays superseded, and the record of the hold
\* that superseded it is only ever marked free by that hold's own guard.
OnlyOwnerFrees ==
  [][(disk.held /\ ~disk'.held) =>
       \E p \in Proc : pc[p] = "mark" /\ gen[p] = disk.generation]_vars

\* A running process's acquire returns, with a guard, an error or a timeout,
\* however long others hold the lock or stop (lib.rs property 5, bounded wait).
BoundedWait ==
  \A p \in Proc : pc[p] = "open" ~> (pc[p] \in {"held", "idle"} \/ p \in hung)

-----------------------------------------------------------------------------
(* The inductive strengthening of the safety properties *)

\* Program positions and the flock agree: one thread at a time inside it.
FlockDiscipline ==
  \A p \in Proc :
    /\ pc[p] \in {"decide", "grant", "mark"} <=> flock = Main(p)
    /\ beat[p] = "touch" <=> flock = Beat(p)
    /\ beat[p] # "none" <=> pc[p] \in {"held", "join"}

\* Every generation handed out is one the disk has reached.
HistoryIsBehindDisk ==
  \A g \in granted : g <= disk.generation

\* The record of a current guard is not free: nobody marks it so under the guard.
CurrentGuardHolds ==
  \A p \in Proc : (HasGuard(p) /\ gen[p] = disk.generation) => disk.held

SafetyInv ==
  /\ TypeOK
  /\ FlockDiscipline
  /\ GuardsAreFenced
  /\ HistoryIsBehindDisk
  /\ NoGhostHold
  /\ CurrentGuardHolds

\* Without clock changes the record of a timely hold is that hold's, exactly as
\* old as its stamp, and nobody who has decided to take over spares it.
TimelyInv ==
  \A p \in Proc :
    /\ timely[p] => stamp[p] <= MaxLag
    /\ (HasGuard(p) /\ timely[p]) =>
         disk = [generation |-> gen[p], held |-> TRUE, age |-> stamp[p]]
    /\ pc[p] = "grant" => \A q \in Proc \ {p} : HasGuard(q) => ~timely[q]

-----------------------------------------------------------------------------
\* The detailed lock implements the fencing-token service.
Abstract == INSTANCE FencedLock WITH
  last <- disk.generation,
  free <- ~disk.held,
  token <- [p \in Proc |-> IF HasGuard(p) THEN gen[p] ELSE 0]

\* Every step of the file lock is a step the fencing-token service allows.
ImplementsFencedLock == Abstract!LockSpec
=============================================================================
