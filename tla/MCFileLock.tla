----------------------------- MODULE MCFileLock -----------------------------
(***************************************************************************)
(* TLC instances of FileLock: the processes are interchangeable.           *)
(***************************************************************************)
EXTENDS FileLock, TLC

Symmetry == Permutations(Proc)
=============================================================================
