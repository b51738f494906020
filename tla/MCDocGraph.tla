----------------------------- MODULE MCDocGraph -----------------------------
(***************************************************************************)
(* An instance of DocGraph: three keys that compete for one last segment,  *)
(* one of them only by its case, and one that does not, with filters.      *)
(***************************************************************************)
EXTENDS Query, TLC

A == <<"a">>
DA == <<"d", "a">>
UA == <<"A">>
B == <<"b">>

MCSegment == {"a", "A", "b", "d", "x"}
MCFold == [s \in MCSegment |-> IF s = "A" THEN "a" ELSE s]
MCKey == {A, DA, UA, B}
MCPlace == A :> 2 @@ UA :> 1 @@ B :> 3 @@ DA :> 4
MCWritten == {<<"x", "a">>}

L(kind, form, at) == [kind |-> kind, form |-> form, at |-> at]

\* Links by key, by a full name, by a short one, by one that fits no key.
MCLinks == {L("includes", "path", DA), L("refers", "path", A), L("field", "path", A),
            L("includes", "name", A), L("refers", "name", DA), L("refers", "name", <<"x", "a">>),
            L("includes", "name", UA)}

MCSmall == {{}, {L("refers", "name", A)}}
MCTexts == {{}, {L("refers", "name", DA), L("includes", "name", A)}}

\* One document links twice, another once at most.
MCShelves ==
  UNION {{[k \in {p, q, r} |-> IF k = p THEN S ELSE IF k = q THEN T ELSE {}] :
            S \in {X \in SUBSET MCLinks : Cardinality(X) = 2}, T \in MCSmall} :
          p \in {B, DA}, q \in MCKey, r \in MCKey}

\* Chains and circles for the queries to walk.
MCWalks ==
  {(A :> x @@ DA :> y @@ B :> z) :
     x \in {{L("refers", "name", B), L("includes", "path", B)}, {L("includes", "path", DA)}},
     y \in {{L("refers", "path", A)}, {L("includes", "name", B), L("refers", "path", DA)}},
     z \in {{L("refers", "name", DA), L("includes", "name", A)},
            {L("refers", "path", UA), L("includes", "path", A)}, {}}}
MCStores == MCShelves \cup MCWalks

Rel(edges, out, match, min, max) ==
  [op |-> "relation", edges |-> edges, out |-> out, match |-> match, min |-> min, max |-> max,
   size |-> {}, via |-> {}]
MCSelected == {L("refers", "path", A), L("includes", "name", A), L("refers", "path", UA),
               L("includes", "path", DA)}

\* Every operator, nested in others, with walks of one step, of some and of any
\* number (nine are more than these stores have).
MCForm ==
  "all" :> [op |-> "and", parts |-> {}]
  @@ "draft" :> [op |-> "field", of |-> {A, B}, bare |-> FALSE]
  @@ "unset" :> [op |-> "field", of |-> {DA, UA}, bare |-> TRUE]
  @@ "top" :> [op |-> "key", of |-> {A}]
  @@ "in" :> [op |-> "standing", of |-> {A, DA}]
  @@ "parents" :> Rel("includes", TRUE, "draft", 1, 1)
  @@ "tree" :> Rel("includes", FALSE, "top", 1, 9)
  @@ "grand" :> Rel("includes", TRUE, "in", 2, 2)
  @@ "far" :> Rel("refers", FALSE, "nested", 2, 3)
  @@ "hubs" :> [Rel("refers", FALSE, "all", 1, 9) EXCEPT !.size = {{0, 2}}]
  @@ "chain" :> [Rel("refers", TRUE, "top", 1, 9) EXCEPT !.via = {MCSelected}]
  @@ "below" :> [Rel("refers", FALSE, "draft", 1, 9) EXCEPT !.via = {MCSelected}]
  @@ "over" :> Rel("refers", TRUE, "below", 1, 9)
  @@ "nested" :> [op |-> "and", parts |-> {"tree", "draft", "either"}]
  @@ "either" :> [op |-> "or", parts |-> {"unset", "in", "parents"}]
  @@ "neither" :> [op |-> "nor", parts |-> {"hubs", "nested", "top"}]
MCFilter == DOMAIN MCForm
=============================================================================
