----------------------------- MODULE FencedLock -----------------------------
(***************************************************************************)
(* What the crate iwe-lock promises its callers, stated without files,    *)
(* clocks or heartbeats.  A lock hands out generations.  It is an         *)
(* advisory lease: a hold can be superseded while its guard still exists, *)
(* so the promise is not mutual exclusion but FENCING: generations are    *)
(* strictly increasing over the whole life of the lock, and a guard can   *)
(* tell whether its generation is still the last one granted.             *)
(*                                                                         *)
(* FileLock.tla refines this module; CommitStore.tla is built on it.      *)
(***************************************************************************)
EXTENDS Naturals

CONSTANT Proc   \* processes that open the same lock path

VARIABLES
  last,         \* the generation recorded for the lock
  free,         \* TRUE when that generation was explicitly released
  token         \* token[p]: generation of p's guard, 0 when p has none

lockVars == <<last, free, token>>

LockInit ==
  /\ last = 0
  /\ free = TRUE
  /\ token = [p \in Proc |-> 0]

\* A record says whether a guard is still the newest one granted.
IsCurrent(p) == token[p] = last

\* A free lock is granted under the next generation.
Grant(p) ==
  /\ free
  /\ token[p] = 0
  /\ last' = last + 1
  /\ free' = FALSE
  /\ token' = [token EXCEPT ![p] = last + 1]

\* A hold whose heartbeat went stale is superseded; its guard lives on.
Reclaim(p) ==
  /\ ~free
  /\ token[p] = 0
  /\ last' = last + 1
  /\ token' = [token EXCEPT ![p] = last + 1]
  /\ UNCHANGED free

\* The record was written but the caller got an I/O error and no guard.
GrantWithoutGuard ==
  /\ last' = last + 1
  /\ free' = FALSE
  /\ UNCHANGED token

\* Dropping a guard frees the lock only while the guard is current.
Release(p) ==
  /\ token[p] # 0
  /\ free' = (free \/ IsCurrent(p))
  /\ token' = [token EXCEPT ![p] = 0]
  /\ UNCHANGED last

\* The guard disappears without its release reaching the disk.
Abandon(p) ==
  /\ token[p] # 0
  /\ token' = [token EXCEPT ![p] = 0]
  /\ UNCHANGED <<last, free>>

LockNext ==
  \/ GrantWithoutGuard
  \/ \E p \in Proc : Grant(p) \/ Reclaim(p) \/ Release(p) \/ Abandon(p)

LockSpec == LockInit /\ [][LockNext]_lockVars
=============================================================================
