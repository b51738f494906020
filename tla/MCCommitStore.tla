--------------------------- MODULE MCCommitStore ---------------------------
(* Two processes, two keys: document d0 links nowhere, d1 links to key b,  *)
(* and f is d0 frozen.  The permission relation is computed from the rules *)
(* of Permissions: one schema binds every key and lets everything through, *)
(* another prohibits the removal of key a.                                 *)
EXTENDS CommitStore, TLC

CONSTANTS p1, p2, a, b, d0, d1, f

MCLinks == [d \in Doc |-> IF d = d1 THEN {b} ELSE {}]

Matching(keys) == [keys |-> keys, negated |-> FALSE]
Except(keys) == [keys |-> keys, negated |-> TRUE]
Permissive == [patterns |-> <<Matching(Key)>>, mutable |-> "$content" :> TRUE, deletable |-> "true"]
Guarding == [patterns |-> <<Matching(Key), Except({b})>>, mutable |-> <<>>, deletable |-> "false"]

Rules == INSTANCE Permissions WITH
  Node <- {"freeze"}, Value <- {"yes"}, Body <- {"text", "more", ""},
  Selector <- {"$content", "freeze"}, Content <- "$content",
  Below <- [s \in {"$content", "freeze"} |-> IF s = "freeze" THEN {"freeze"} ELSE {}],
  Freeze <- "freeze", FreezeNodes <- {"freeze"}, Yes <- "yes", Missing <- "-", Blank <- "",
  Schemas <- <<Permissive, Guarding>>

\* What the files say; a file cut short may have lost everything.
Text(d) ==
  [front |-> [n \in {"freeze"} |-> IF d = f THEN "yes" ELSE "-"],
   body |-> CASE d \in {d0, f} -> "text" [] d = d1 -> "more" [] OTHER -> ""]

MCRefused ==
  {r \in Key \X Content \X Content :
     IF r[3] = Absent
     THEN r[2] # Absent /\ Rules!CheckDelete(r[1], Text(r[2])) # "ok"
     ELSE Rules!CheckWrite(r[1], Text(r[2]), Text(r[3])) # "ok"}
NoRefusals == {}

\* The write scope: everything but key b.
MCDenied == {k \in Key : ~Rules!WritePermitted(<<Matching({b})>>, <<>>, k)}

LinkedStore == {(a :> d0 @@ b :> d0)}
FrozenStore == {(a :> d0 @@ b :> f)}
BothStores == LinkedStore \cup {(a :> d1 @@ b :> Absent)}
Symmetry == Permutations({p1, p2})
=============================================================================
