-------------------------------- MODULE Argue --------------------------------
(***************************************************************************)
(* The argument of a store (liwe/query/argue.rs): claims, axioms and       *)
(* objections are documents; an objection attacks what its section names,  *)
(* a claim rests on its premises.  Two loops run over all documents until  *)
(* nothing changes: the first weighs them, the second labels them in, out  *)
(* or undecided.  The diagnosis then looks for the cycles that keep the    *)
(* undecided ones open.                                                    *)
(*                                                                         *)
(* Documents are numbered in the order of their keys.  Each turn of a loop *)
(* body is a step.  Frontmatter and sections are already parsed (Arguments)*)
(* and warnings and wording are left out.                                  *)
(***************************************************************************)
EXTENDS Integers

CONSTANTS
  N,            \* number of documents
  Prop,         \* terms and polarity of a proposition: <<terms, affirmed>>
  NoProp,       \* a document without a proposition
  Arguments     \* the argument graphs considered

Node == 1..N
NoTarget == 0

\* One parsed document.  "target" is the document that the Undermines or the
\* Against section names.
Raw == [kind : {"axiom", "claim", "objection"},
        base : 0..5,
        rests : SUBSET Node,
        target : Node \cup {NoTarget},
        how : {"rebuts", "undermines", "undercuts"},
        answered : BOOLEAN,
        quantity : {"generic", "particular", "none"},
        prop : Prop \cup {NoProp}]

ASSUME ArgueConstants ==
  /\ N \in Nat
  /\ NoProp \notin Prop
  /\ Arguments \subseteq [Node -> Raw]

VARIABLES
  docs,         \* the argument graph
  phase,        \* "weigh", "label" or "done"
  at,           \* the document whose turn it is; N + 1 ends a pass
  changed,      \* has this pass changed anything?
  strength,
  status

vars == <<docs, phase, at, changed, strength, status>>

Status == {"in", "out", "undecided"}

(***************************************************************************)
(* What the documents say                                                  *)
(***************************************************************************)
Contrary(p, q) == p[1] = q[1] /\ p[2] # q[2]

Premises(i) == IF docs[i].kind = "axiom" THEN {} ELSE docs[i].rests \ {i}

\* A live attack of objection o on t: not on an axiom, not answered, not an
\* exception to a generic, and a contrary where both sides say what they assert.
Attacks(o, t) ==
  /\ docs[o].kind = "objection" /\ docs[o].target = t /\ o # t
  /\ docs[t].kind # "axiom"
  /\ ~docs[o].answered
  /\ ~(docs[o].quantity = "particular" /\ docs[t].quantity = "generic")
  /\ (docs[o].how # "undercuts" /\ docs[o].prop # NoProp /\ docs[t].prop # NoProp)
        => Contrary(docs[o].prop, docs[t].prop)

\* Undercuts always succeed; the others only from an attacker not weaker.
Defeats(o, t) ==
  Attacks(o, t) /\ (docs[o].how = "undercuts" \/ strength[o] >= strength[t])

DeniesAxiom(i) ==
  /\ docs[i].kind # "axiom" /\ docs[i].prop # NoProp
  /\ \E a \in Node : /\ docs[a].kind = "axiom" /\ docs[a].prop # NoProp
                     /\ Contrary(docs[i].prop, docs[a].prop)

\* The documents that assert the same proposition and can carry its uses.
Carriers(p) ==
  {p} \cup {q \in Node : /\ docs[p].kind # "objection" /\ docs[q].kind # "objection"
                         /\ docs[p].prop # NoProp /\ docs[q].prop = docs[p].prop}

(***************************************************************************)
(* The rules of the second loop, of any labelling L                        *)
(***************************************************************************)
AttackedIn(L, i) == \E o \in Node : Defeats(o, i) /\ L[o] = "in"
AttackersOut(L, i) == \A o \in Node : Defeats(o, i) => L[o] = "out"
PremiseOut(L, i) == \E p \in Premises(i) : \A q \in Carriers(p) : L[q] = "out"
PremisesIn(L, i) == \A p \in Premises(i) : \E q \in Carriers(p) : L[q] = "in"

(***************************************************************************)
(* argue                                                                   *)
(***************************************************************************)
Init ==
  /\ docs \in Arguments
  /\ phase = "weigh" /\ at = 1 /\ changed = FALSE
  /\ strength = [i \in Node |-> docs[i].base]
  /\ status = [i \in Node |-> "undecided"]

Least(i, s) ==
  /\ s = docs[i].base \/ \E p \in Premises(i) : s = strength[p]
  /\ s <= docs[i].base /\ \A p \in Premises(i) : s <= strength[p]

\* One turn of the weakest-link loop.
Weigh ==
  /\ phase = "weigh" /\ at <= N
  /\ \E s \in 0..5 :
       /\ Least(at, s)
       /\ strength' = [strength EXCEPT ![at] = IF s < @ THEN s ELSE @]
       /\ changed' = (changed \/ s < strength[at])
  /\ at' = at + 1
  /\ UNCHANGED <<docs, phase, status>>

\* Mutant of Weighed: one pass is taken to be enough.
WeighedOnce ==
  /\ phase = "weigh" /\ at > N
  /\ at' = 1 /\ changed' = FALSE
  /\ phase' = "label"
  /\ status' = [i \in Node |-> IF DeniesAxiom(i) THEN "out" ELSE "undecided"]
  /\ UNCHANGED <<docs, strength>>

\* End of a pass of the first loop; what denies an axiom is out from the start.
Weighed ==
  /\ phase = "weigh" /\ at > N
  /\ at' = 1 /\ changed' = FALSE
  /\ IF changed
     THEN UNCHANGED <<phase, status>>
     ELSE /\ phase' = "label"
          /\ status' = [i \in Node |-> IF DeniesAxiom(i) THEN "out" ELSE "undecided"]
  /\ UNCHANGED <<docs, strength>>

\* Mutant of Verdict: an attacker that is not in does no harm.
VerdictHopeful(i) ==
  IF AttackedIn(status, i) \/ PremiseOut(status, i) THEN "out"
  ELSE IF PremisesIn(status, i) THEN "in"
  ELSE "undecided"

Verdict(i) ==
  IF AttackedIn(status, i) \/ PremiseOut(status, i) THEN "out"
  ELSE IF AttackersOut(status, i) /\ PremisesIn(status, i) THEN "in"
  ELSE "undecided"

\* Mutant of Label: every visit of an undecided document counts as a change.
LabelRestless ==
  /\ phase = "label" /\ at <= N
  /\ status' = [status EXCEPT ![at] = IF @ = "undecided" THEN Verdict(at) ELSE @]
  /\ changed' = (changed \/ status[at] = "undecided")
  /\ at' = at + 1
  /\ UNCHANGED <<docs, phase, strength>>

\* One turn of the grounded fixpoint.
Label ==
  /\ phase = "label" /\ at <= N
  /\ status' = [status EXCEPT ![at] = IF @ = "undecided" THEN Verdict(at) ELSE @]
  /\ changed' = (changed \/ (status[at] = "undecided" /\ Verdict(at) # "undecided"))
  /\ at' = at + 1
  /\ UNCHANGED <<docs, phase, strength>>

Labelled ==
  /\ phase = "label" /\ at > N
  /\ at' = 1 /\ changed' = FALSE
  /\ phase' = IF changed THEN "label" ELSE "done"
  /\ UNCHANGED <<docs, strength, status>>

Next == Weigh \/ Weighed \/ Label \/ Labelled

Spec == Init /\ [][Next]_vars

FairSpec == Spec /\ WF_vars(Next)

(***************************************************************************)
(* diagnose                                                                *)
(***************************************************************************)
Undecided == {i \in Node : status[i] = "undecided"}

\* Mutant of HangsOn: attackers are not followed.
HangsOnPremises(i) ==
  {j \in Undecided : j \in Premises(i) /\ \A q \in Carriers(j) : status[q] # "in"}

\* An undecided document hangs on its undecided defeaters, and on its undecided
\* premises that no sibling stands in for.
HangsOn(i) ==
  {j \in Undecided : \/ Defeats(j, i)
                     \/ j \in Premises(i) /\ \A q \in Carriers(j) : status[q] # "in"}

\* What i hangs on, directly or through others.
Reaches(i, j) ==
  \A S \in SUBSET Undecided :
    (HangsOn(i) \subseteq S /\ \A k \in S : HangsOn(k) \subseteq S) => j \in S

\* The members of the root cycles: components of more than one document.
InRoot(i) == \E j \in Undecided \ {i} : Reaches(i, j) /\ Reaches(j, i)

(***************************************************************************)
(* Properties                                                              *)
(***************************************************************************)
TypeOK ==
  /\ docs \in [Node -> Raw]
  /\ phase \in {"weigh", "label", "done"}
  /\ at \in 1..(N + 1)
  /\ changed \in BOOLEAN
  /\ strength \in [Node -> 0..5]
  /\ status \in [Node -> Status]

\* The labellings that obey the module documentation: in when every attacker is
\* out and every premise in, out when an attacker is in or a premise out; and
\* nothing that denies an axiom stands.
Complete(L) ==
  \A i \in Node :
    /\ L[i] = "in" <=> (~DeniesAxiom(i) /\ AttackersOut(L, i) /\ PremisesIn(L, i))
    /\ L[i] = "out" <=> (DeniesAxiom(i) \/ AttackedIn(L, i) \/ PremiseOut(L, i))

\* The answer is the grounded labelling: it obeys the rules, and it decides only
\* what every labelling that obeys them decides the same way, so neither the
\* order of the keys nor the early update of a pass shows in it.
AnswerIsGrounded ==
  phase = "done" =>
    /\ Complete(status)
    /\ \A L \in [Node -> Status] :
         Complete(L) => \A i \in Node : status[i] # "undecided" => L[i] = status[i]

\* What i rests on, directly or not, and i itself.
Closed(S) == \A j \in S : Premises(j) \subseteq S
Grounds(i) == {j \in Node : \A S \in SUBSET Node : (i \in S /\ Closed(S)) => j \in S}

\* Once weighed, a document is exactly as strong as the weakest of its grounds,
\* also on a support cycle and whatever the order of the keys.
WeakestLink ==
  phase # "weigh" =>
    \A i \in Node :
      /\ \E j \in Grounds(i) : strength[i] = docs[j].base
      /\ \A j \in Grounds(i) : strength[i] <= docs[j].base

\* Everything undecided is in a root cycle or hangs on one.
EverythingHasRoot ==
  phase = "done" =>
    \A i \in Undecided : InRoot(i) \/ \E j \in Undecided : Reaches(i, j) /\ InRoot(j)

\* ... as long as no two documents assert the same proposition.
RootsExplain ==
  (\A p \in Node : Carriers(p) = {p}) => EverythingHasRoot

\* Both loops come to an end.
Answers == <>(phase = "done")
=============================================================================
