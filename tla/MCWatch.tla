------------------------------ MODULE MCWatch ------------------------------
(* Two documents, two texts; one document is there at the start, the other *)
(* is not.                                                                 *)
EXTENDS Watch, TLC

CONSTANTS a, b, old, new

MCDisks == {(a :> old @@ b :> Missing)}
=============================================================================
