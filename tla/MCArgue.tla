------------------------------ MODULE MCArgue ------------------------------
(***************************************************************************)
(* An instance of Argue: four documents, a proposition and its denial.     *)
(* The kinds follow a few patterns, so that objections come before and     *)
(* after what they attack; grounds and targets are then free.              *)
(***************************************************************************)
EXTENDS Argue

MCProp == {<<"t", TRUE>>, <<"t", FALSE>>}
MCNoProp == <<"none", TRUE>>

Doc(kind, base, rests, target, how, answered, quantity, prop) ==
  [kind |-> kind, base |-> base, rests |-> rests, target |-> target, how |-> how,
   answered |-> answered, quantity |-> quantity, prop |-> prop]

Grounding(i) == {{}, Node \ {i}} \cup {{j} : j \in Node \ {i}}

Axioms == {Doc("axiom", 5, {}, NoTarget, "rebuts", FALSE, "none", <<"t", FALSE>>)}

Claims(i) ==
  {Doc("claim", IF p = MCNoProp THEN 2 ELSE 4, R, NoTarget, "rebuts", FALSE, "generic", p) :
     R \in Grounding(i), p \in {<<"t", TRUE>>, MCNoProp}}

\* Without grounds an objection undercuts, on others it is as strong as they are.
Objections(i) ==
  {Doc("objection", 3, R, t, IF R = {} THEN "undercuts" ELSE "rebuts", FALSE, "none", MCNoProp) :
     R \in Grounding(i), t \in Node \ {i}}

\* Objections that may not count: answered, an exception, not a contrary.
Doubtful(i) ==
  {Doc("objection", 3, {}, t, "rebuts", a, q, p) :
     t \in Node \ {i}, a \in BOOLEAN, q \in {"particular", "none"}, p \in MCProp}

MCArguments ==
  {<<a, b, c, d>> : a \in Claims(1), b \in {x \in Claims(2) : x.prop # MCNoProp},
                    c \in Claims(3), d \in Objections(4)}
  \cup {<<a, b, c, d>> : a \in Objections(1), b \in Claims(2), c \in Objections(3),
                         d \in {x \in Claims(4) : x.prop = MCNoProp /\ x.rests # {1, 2, 3}}}
  \cup {<<a, b, c, d>> : a \in Doubtful(1), b \in Claims(2), c \in Claims(3), d \in Axioms}
=============================================================================
