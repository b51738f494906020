----------------------------- MODULE MCTxServer -----------------------------
(* Up to two sessions and an explicit handle over one or two documents.    *)
(* raw is the document d0 in a text that rendering does not give back;     *)
(* d0 is also what export_key makes of a key the graph does not have.      *)
EXTENDS TxServer, TLC

CONSTANTS s1, s2, x, r1, r2, a, b, d0, d1, raw

MCRendered == [d \in Doc |-> IF d = raw THEN d0 ELSE d]
OneThere == {(a :> d0)}
EmptyStore == {[k \in Key |-> Absent]}
EitherWay == OneThere \cup EmptyStore
Symmetry == Permutations({r1, r2})
Sessions == Permutations({s1, s2}) \cup Permutations({r1, r2})
=============================================================================
