---------------------------- MODULE ArgueProofs ----------------------------
(***************************************************************************)
(* Proofs about Argue, for every number of documents and every argument    *)
(* graph: type correctness, that the weights are weakest links, that the   *)
(* answer is the grounded labelling, and that the root cycles explain what *)
(* it leaves undecided.                                                    *)
(***************************************************************************)
EXTENDS Argue, TLAPS, FiniteSetTheorems, WellFoundedInduction

LEMMA TypeInit == Init => TypeOK
<1> USE ArgueConstants DEF ArgueConstants
<1> SUFFICES ASSUME Init PROVE TypeOK
  OBVIOUS
<1>1. docs \in [Node -> Raw]
  BY DEF Init
<1>2. strength \in [Node -> 0..5]
  BY <1>1 DEF Init, Raw
<1>3. status \in [Node -> Status]
  BY DEF Init, Status
<1>4. at \in 1..(N + 1)
  BY DEF Init
<1> QED
  BY <1>1, <1>2, <1>3, <1>4 DEF Init, TypeOK

LEMMA VerdictType == \A i \in Node : Verdict(i) \in Status
  BY DEF Verdict, Status

LEMMA TypeStep == TypeOK /\ [Next]_vars => TypeOK'
<1> USE ArgueConstants DEF ArgueConstants
<1> SUFFICES ASSUME TypeOK, [Next]_vars PROVE TypeOK'
  OBVIOUS
<1>1. CASE Weigh
  <2>1. at \in Node
    BY <1>1 DEF Weigh, TypeOK, Node
  <2>2. strength' \in [Node -> 0..5] /\ changed' \in BOOLEAN
    BY <1>1, <2>1 DEF Weigh, TypeOK
  <2> QED
    BY <1>1, <2>1, <2>2 DEF Weigh, TypeOK, Node
<1>2. CASE Weighed
  <2>1. at' \in 1..(N + 1)
    BY <1>2 DEF Weighed
  <2>2. phase' \in {"weigh", "label", "done"} /\ status' \in [Node -> Status]
    BY <1>2 DEF Weighed, TypeOK, Status
  <2> QED
    BY <1>2, <2>1, <2>2 DEF Weighed, TypeOK
<1>3. CASE Label
  <2>1. at \in Node
    BY <1>3 DEF Label, TypeOK, Node
  <2>2. status' \in [Node -> Status] /\ changed' \in BOOLEAN
    BY <1>3, <2>1, VerdictType DEF Label, TypeOK
  <2> QED
    BY <1>3, <2>1, <2>2 DEF Label, TypeOK, Node
<1>4. CASE Labelled
  <2>1. at' \in 1..(N + 1)
    BY <1>4 DEF Labelled
  <2> QED
    BY <1>4, <2>1 DEF Labelled, TypeOK
<1>5. CASE UNCHANGED vars
  BY <1>5 DEF vars, TypeOK
<1> QED
  BY <1>1, <1>2, <1>3, <1>4, <1>5 DEF Next

\* Every variable keeps its type; the documents never change.
THEOREM TypeCorrect == Spec => []TypeOK
<1>1. QED
  BY TypeInit, TypeStep, PTL DEF Spec

(***************************************************************************)
(* Weakest links                                                           *)
(***************************************************************************)

\* What the loop has established for document j: it is no stronger than its own
\* base and its premises.
Bounded(j) ==
  /\ strength[j] <= docs[j].base
  /\ \A p \in Premises(j) : strength[j] <= strength[p]

\* A weight comes from some ground; a pass without a change has seen only bounded
\* documents, so when the loop ends all of them are.
WInv ==
  /\ TypeOK
  /\ \A i \in Node : \E j \in Grounds(i) : strength[i] = docs[j].base
  /\ (phase = "weigh" /\ ~changed) => \A j \in Node : j < at => Bounded(j)
  /\ phase # "weigh" => \A j \in Node : Bounded(j)

LEMMA PremisesAreNodes ==
  ASSUME TypeOK PROVE \A i \in Node : Premises(i) \subseteq Node
BY DEF TypeOK, Premises, Raw

LEMMA OwnGround == \A i \in Node : i \in Grounds(i)
BY DEF Grounds

LEMMA GroundsOfPremise ==
  ASSUME TypeOK, NEW i \in Node, NEW p \in Premises(i)
  PROVE  Grounds(p) \subseteq Grounds(i)
<1> SUFFICES ASSUME NEW j \in Grounds(p), NEW S \in SUBSET Node, i \in S, Closed(S)
             PROVE  j \in S
  BY DEF Grounds
<1>1. p \in S
  BY DEF Closed
<1> QED
  BY <1>1 DEF Grounds

LEMMA GroundsDependOnDocs ==
  ASSUME UNCHANGED docs
  PROVE  \A i \in Node : Grounds(i)' = Grounds(i) /\ Premises(i)' = Premises(i)
BY DEF Grounds, Closed, Premises

LEMMA WeakestInit == Init => WInv
<1> SUFFICES ASSUME Init PROVE WInv
  OBVIOUS
<1>1. TypeOK
  BY TypeInit
<1>2. \A i \in Node : strength[i] = docs[i].base
  BY DEF Init
<1>3. \A j \in Node : ~(j < at)
  BY DEF Init, Node
<1> QED
  BY <1>1, <1>2, <1>3, OwnGround DEF WInv, Init

LEMMA WeakestStep == WInv /\ [Next]_vars => WInv'
<1> USE ArgueConstants DEF ArgueConstants
<1> SUFFICES ASSUME WInv, [Next]_vars PROVE WInv'
  OBVIOUS
<1>0. TypeOK /\ TypeOK'
  BY TypeStep DEF WInv
<1>d. UNCHANGED docs
  BY DEF Next, Weigh, Weighed, Label, Labelled, vars
<1>g. \A i \in Node : Grounds(i)' = Grounds(i) /\ Premises(i)' = Premises(i)
  BY <1>d, GroundsDependOnDocs
<1>1. CASE Weigh
  <2>1. at \in Node
    BY <1>0, <1>1 DEF Weigh, TypeOK, Node
  <2>2. PICK s \in 0..5 :
          /\ Least(at, s)
          /\ strength' = [strength EXCEPT ![at] = IF s < @ THEN s ELSE @]
          /\ changed' = (changed \/ s < strength[at])
    BY <1>1 DEF Weigh
  <2>3. \A i \in Node : strength[i] \in 0..5
    BY <1>0 DEF TypeOK
  <2>4. \E j \in Grounds(at) : s = docs[j].base
    <3>1. CASE s = docs[at].base
      BY <3>1, <2>1, OwnGround
    <3>2. CASE \E p \in Premises(at) : s = strength[p]
      <4>1. PICK p \in Premises(at) : s = strength[p]
        BY <3>2
      <4>2. p \in Node
        BY <4>1, <2>1, <1>0, PremisesAreNodes
      <4>3. PICK j \in Grounds(p) : strength[p] = docs[j].base
        BY <4>2 DEF WInv
      <4>4. j \in Grounds(at)
        BY <4>3, <4>1, <2>1, <1>0, GroundsOfPremise
      <4> QED
        BY <4>1, <4>3, <4>4
    <3> QED
      BY <3>1, <3>2, <2>2 DEF Least
  <2>5. \A i \in Node : \E j \in Grounds(i) : strength'[i] = docs[j].base
    <3> SUFFICES ASSUME NEW i \in Node PROVE \E j \in Grounds(i) : strength'[i] = docs[j].base
      OBVIOUS
    <3>1. strength'[i] = strength[i] \/ (i = at /\ strength'[i] = s)
      BY <2>1, <2>2, <1>0 DEF TypeOK
    <3> QED
      BY <3>1, <2>4 DEF WInv
  <2>6. ~changed' => strength' = strength /\ ~changed /\ Bounded(at)
    <3> SUFFICES ASSUME ~changed' PROVE strength' = strength /\ ~changed /\ Bounded(at)
      OBVIOUS
    <3>1. ~changed /\ ~(s < strength[at])
      BY <2>2
    <3>2. strength' = strength
      BY <3>1, <2>1, <2>2, <1>0 DEF TypeOK
    <3>3. strength[at] <= s
      BY <3>1, <2>1, <2>2, <2>3
    <3>4. s <= docs[at].base /\ \A p \in Premises(at) : s <= strength[p]
      BY <2>2 DEF Least
    <3>5. docs[at].base \in 0..5
      BY <2>1, <1>0 DEF TypeOK, Raw
    <3>6. \A p \in Premises(at) : strength[p] \in 0..5
      BY <2>1, <2>3, <1>0, PremisesAreNodes
    <3>7. Bounded(at)
      BY <3>3, <3>4, <3>5, <3>6, <2>1, <2>2, <2>3 DEF Bounded
    <3> QED
      BY <3>1, <3>2, <3>7
  <2>7. ~changed' => \A j \in Node : j < at' => Bounded(j)'
    <3> SUFFICES ASSUME ~changed', NEW j \in Node, j < at' PROVE Bounded(j)'
      OBVIOUS
    <3>1. j < at \/ j = at
      BY <1>1, <2>1 DEF Weigh, Node
    <3>2. Bounded(j)
      BY <3>1, <2>6, <1>1 DEF WInv, Weigh
    <3> QED
      BY <3>2, <2>6, <1>d, <1>g DEF Bounded
  <2> QED
    BY <2>5, <2>7, <1>0, <1>1, <1>d, <1>g DEF WInv, Weigh
<1>2. CASE Weighed
  <2>1. \A i \in Node : \E j \in Grounds(i)' : strength'[i] = docs'[j].base
    BY <1>2, <1>g DEF WInv, Weighed
  <2>2. \A j \in Node : Bounded(j) <=> Bounded(j)'
    BY <1>2, <1>g DEF Bounded, Weighed
  <2>3. ~changed => \A j \in Node : Bounded(j)
    BY <1>2, <1>0 DEF WInv, Weighed, Node, TypeOK
  <2>4. \A j \in Node : ~(j < at')
    BY <1>2 DEF Weighed, Node
  <2>5. phase' # "weigh" => ~changed
    BY <1>2 DEF Weighed
  <2> QED
    BY <2>1, <2>2, <2>3, <2>4, <2>5, <1>0 DEF WInv
<1>3. CASE Label \/ Labelled \/ UNCHANGED vars
  <2>1. UNCHANGED <<docs, strength>> /\ (phase # "weigh" => phase' # "weigh")
    BY <1>3 DEF Label, Labelled, vars
  <2>2. \A j \in Node : Bounded(j) <=> Bounded(j)'
    BY <2>1, <1>g DEF Bounded
  <2>3. \A i \in Node : \E j \in Grounds(i)' : strength'[i] = docs'[j].base
    BY <2>1, <1>g DEF WInv
  <2>4. phase # "weigh" \/ UNCHANGED vars
    BY <1>3 DEF Label, Labelled
  <2>5. CASE phase # "weigh"
    BY <2>5, <2>1, <2>2, <2>3, <1>0 DEF WInv
  <2>6. CASE UNCHANGED vars
    BY <2>6, <2>1, <2>2, <2>3, <1>0 DEF WInv, vars
  <2> QED
    BY <2>4, <2>5, <2>6
<1> QED
  BY <1>1, <1>2, <1>3 DEF Next

LEMMA WeakestFollows == WInv => WeakestLink
<1> SUFFICES ASSUME WInv, phase # "weigh", NEW i \in Node, NEW j \in Grounds(i)
             PROVE  strength[i] <= docs[j].base
  BY DEF WInv, WeakestLink
<1> DEFINE T == {k \in Node : strength[i] <= strength[k]}
<1>1. \A k \in Node : strength[k] \in Int /\ docs[k].base \in Int
  BY DEF WInv, TypeOK, Raw
<1>2. i \in T
  BY <1>1
<1>3. Closed(T)
  <2> SUFFICES ASSUME NEW k \in T, NEW p \in Premises(k) PROVE p \in T
    BY DEF Closed
  <2>1. p \in Node
    BY PremisesAreNodes DEF WInv
  <2>2. strength[k] <= strength[p]
    BY DEF WInv, Bounded
  <2> QED
    BY <2>1, <2>2, <1>1
<1>4. j \in T
  BY <1>2, <1>3 DEF Grounds
<1>5. strength[j] <= docs[j].base
  BY <1>4 DEF WInv, Bounded
<1> QED
  BY <1>1, <1>4, <1>5

\* Once the first loop has ended every document is as strong as the weakest of its
\* grounds, whatever the order of the keys and also on cycles of support.
THEOREM WeighedByWeakestLink == Spec => []WeakestLink
<1>1. QED
  BY WeakestInit, WeakestStep, WeakestFollows, PTL DEF Spec

(***************************************************************************)
(* The grounded labelling                                                  *)
(***************************************************************************)

\* What is decided is decided for a reason, and by every labelling that obeys the
\* rules; and a pass without a change has left nothing it could decide.
Reasoned(i) ==
  /\ status[i] = "in" => ~DeniesAxiom(i) /\ AttackersOut(status, i) /\ PremisesIn(status, i)
  /\ status[i] = "out" => DeniesAxiom(i) \/ AttackedIn(status, i) \/ PremiseOut(status, i)

Forced == \A L \in [Node -> Status] :
            Complete(L) => \A i \in Node : status[i] # "undecided" => L[i] = status[i]

Stuck(i) == status[i] = "undecided" => Verdict(i) = "undecided"

GInv ==
  /\ TypeOK
  /\ phase = "weigh" => \A i \in Node : status[i] = "undecided"
  /\ phase # "weigh" => /\ Forced
                        /\ \A i \in Node : Reasoned(i)
                        /\ \A i \in Node : DeniesAxiom(i) => status[i] = "out"
  /\ (phase = "label" /\ ~changed) => \A j \in Node : j < at => Stuck(j)
  /\ phase = "done" => \A j \in Node : Stuck(j)

\* The rules are read off the documents and the strengths alone.
LEMMA RulesFrame ==
  ASSUME UNCHANGED <<docs, strength>>
  PROVE  /\ \A i \in Node : DeniesAxiom(i)' <=> DeniesAxiom(i)
         /\ \A i \in Node : Carriers(i)' = Carriers(i) /\ Premises(i)' = Premises(i)
         /\ \A i, j \in Node : Defeats(i, j)' <=> Defeats(i, j)
<1>1. \A i \in Node : DeniesAxiom(i)' <=> DeniesAxiom(i)
  BY DEF DeniesAxiom, Contrary
<1>2. \A i \in Node : Carriers(i)' = Carriers(i) /\ Premises(i)' = Premises(i)
  BY DEF Carriers, Premises
<1>3. \A i, j \in Node : Defeats(i, j)' <=> Defeats(i, j)
  BY DEF Defeats, Attacks, Contrary
<1> QED
  BY <1>1, <1>2, <1>3

LEMMA CarriersAreNodes == \A p \in Node : p \in Carriers(p) /\ Carriers(p) \subseteq Node
BY DEF Carriers

LEMMA CompleteFrame ==
  ASSUME TypeOK, UNCHANGED <<docs, strength>>, NEW L \in [Node -> Status]
  PROVE  Complete(L)' <=> Complete(L)
<1>1. \A i \in Node : Premises(i) \subseteq Node
  BY PremisesAreNodes
<1>2. \A i \in Node : AttackedIn(L, i)' <=> AttackedIn(L, i)
  BY RulesFrame DEF AttackedIn
<1>3. \A i \in Node : AttackersOut(L, i)' <=> AttackersOut(L, i)
  BY RulesFrame DEF AttackersOut
<1>4. \A i \in Node : PremiseOut(L, i)' <=> PremiseOut(L, i)
  BY RulesFrame, <1>1 DEF PremiseOut
<1>5. \A i \in Node : PremisesIn(L, i)' <=> PremisesIn(L, i)
  BY RulesFrame, <1>1 DEF PremisesIn
<1> QED
  BY RulesFrame, <1>2, <1>3, <1>4, <1>5 DEF Complete

\* Deciding more never undoes a reason.
LEMMA MoreDecided ==
  ASSUME TypeOK, UNCHANGED <<docs, strength>>,
         NEW i \in Node, \A j \in Node : status[j] # "undecided" => status'[j] = status[j]
  PROVE  /\ AttackedIn(status, i) => AttackedIn(status, i)'
         /\ AttackersOut(status, i) => AttackersOut(status, i)'
         /\ PremiseOut(status, i) => PremiseOut(status, i)'
         /\ PremisesIn(status, i) => PremisesIn(status, i)'
<1>1. Premises(i) \subseteq Node
  BY PremisesAreNodes
<1>2. AttackedIn(status, i) => AttackedIn(status, i)'
  BY RulesFrame DEF AttackedIn
<1>3. AttackersOut(status, i) => AttackersOut(status, i)'
  BY RulesFrame DEF AttackersOut
<1>4. PremiseOut(status, i) => PremiseOut(status, i)'
  BY RulesFrame, <1>1, CarriersAreNodes DEF PremiseOut
<1>5. PremisesIn(status, i) => PremisesIn(status, i)'
  BY RulesFrame, <1>1, CarriersAreNodes DEF PremisesIn
<1> QED
  BY <1>2, <1>3, <1>4, <1>5

\* What a labelling obeys when it agrees with everything decided so far.
LEMMA AgreeingLabelling ==
  ASSUME TypeOK, NEW i \in Node, NEW L \in [Node -> Status],
         \A j \in Node : status[j] # "undecided" => L[j] = status[j]
  PROVE  /\ AttackedIn(status, i) => AttackedIn(L, i)
         /\ AttackersOut(status, i) => AttackersOut(L, i)
         /\ PremiseOut(status, i) => PremiseOut(L, i)
         /\ PremisesIn(status, i) => PremisesIn(L, i)
<1>1. Premises(i) \subseteq Node
  BY PremisesAreNodes
<1>2. AttackedIn(status, i) => AttackedIn(L, i)
  BY DEF AttackedIn
<1>3. AttackersOut(status, i) => AttackersOut(L, i)
  BY DEF AttackersOut
<1>4. PremiseOut(status, i) => PremiseOut(L, i)
  BY <1>1, CarriersAreNodes DEF PremiseOut
<1>5. PremisesIn(status, i) => PremisesIn(L, i)
  BY <1>1, CarriersAreNodes DEF PremisesIn
<1> QED
  BY <1>2, <1>3, <1>4, <1>5

LEMMA GroundedInit == Init => GInv
<1> SUFFICES ASSUME Init PROVE GInv
  OBVIOUS
<1>1. TypeOK
  BY TypeInit
<1>2. \A i \in Node : status[i] = "undecided"
  BY DEF Init
<1> QED
  BY <1>1, <1>2 DEF GInv, Init

LEMMA GroundedStep == GInv /\ [Next]_vars => GInv'
<1> USE ArgueConstants DEF ArgueConstants
<1> SUFFICES ASSUME GInv, [Next]_vars PROVE GInv'
  OBVIOUS
<1>0. TypeOK /\ TypeOK'
  BY TypeStep DEF GInv
<1>1. CASE Weigh
  BY <1>1, <1>0 DEF GInv, Weigh
<1>2. CASE Weighed
  <2>1. CASE changed
    BY <1>2, <2>1, <1>0 DEF GInv, Weighed
  <2>2. CASE ~changed
    <3> USE <1>2, <2>2
    <3>1. /\ UNCHANGED <<docs, strength>>
          /\ phase' = "label" /\ at' = 1
          /\ status' = [i \in Node |-> IF DeniesAxiom(i) THEN "out" ELSE "undecided"]
      BY DEF Weighed
    <3>2. \A i \in Node : Reasoned(i)'
      BY <3>1, RulesFrame DEF Reasoned
    <3>3. \A i \in Node : DeniesAxiom(i)' => status'[i] = "out"
      BY <3>1, RulesFrame
    <3>4. Forced'
      <4> SUFFICES ASSUME NEW L \in [Node -> Status], Complete(L)', NEW i \in Node,
                          status'[i] # "undecided"
                   PROVE  L[i] = status'[i]
        BY DEF Forced
      <4>1. Complete(L) /\ DeniesAxiom(i)
        BY <3>1, <1>0, CompleteFrame
      <4> QED
        BY <4>1, <3>1 DEF Complete
    <3>5. \A j \in Node : ~(j < at')
      BY <3>1 DEF Node
    <3> QED
      BY <3>1, <3>2, <3>3, <3>4, <3>5, <1>0 DEF GInv
  <2> QED
    BY <2>1, <2>2, <1>0 DEF TypeOK
<1>3. CASE Label
  <2> USE <1>3
  <2>1. /\ UNCHANGED <<docs, strength, phase>> /\ phase = "label" /\ at' = at + 1
        /\ status' = [status EXCEPT ![at] = IF @ = "undecided" THEN Verdict(at) ELSE @]
        /\ changed' = (changed \/ (status[at] = "undecided" /\ Verdict(at) # "undecided"))
    BY DEF Label
  <2>2. at \in Node /\ status \in [Node -> Status]
    BY <1>0 DEF Label, TypeOK, Node
  <2>3. \A j \in Node : status[j] # "undecided" => status'[j] = status[j]
    BY <2>1, <2>2
  <2>4. \A j \in Node : status'[j] # status[j] =>
                         j = at /\ status[at] = "undecided" /\ status'[at] = Verdict(at)
    BY <2>1, <2>2
  <2>5. \A i \in Node : DeniesAxiom(i)' => status'[i] = "out"
    BY <2>1, <2>3, RulesFrame DEF GInv
  <2>6. \A i \in Node : Reasoned(i)'
    <3> SUFFICES ASSUME NEW i \in Node PROVE Reasoned(i)'
      OBVIOUS
    <3>1. CASE status'[i] = status[i]
      BY <3>1, <2>1, <2>3, <1>0, MoreDecided, RulesFrame DEF GInv, Reasoned
    <3>2. CASE status'[i] # status[i]
      <4>1. status[i] = "undecided" /\ status'[i] = Verdict(i)
        BY <3>2, <2>4
      <4>2. ~DeniesAxiom(i)
        BY <4>1, <2>1 DEF GInv
      <4>3. status'[i] = "in" => AttackersOut(status, i) /\ PremisesIn(status, i)
        BY <4>1 DEF Verdict
      <4>4. status'[i] = "out" => AttackedIn(status, i) \/ PremiseOut(status, i)
        BY <4>1 DEF Verdict
      <4>5. /\ AttackedIn(status, i) => AttackedIn(status, i)'
            /\ AttackersOut(status, i) => AttackersOut(status, i)'
            /\ PremiseOut(status, i) => PremiseOut(status, i)'
            /\ PremisesIn(status, i) => PremisesIn(status, i)'
        BY <2>1, <2>3, <1>0, MoreDecided
      <4>6. ~DeniesAxiom(i)'
        BY <4>2, <2>1, RulesFrame
      <4> QED
        BY <4>3, <4>4, <4>5, <4>6 DEF Reasoned
    <3> QED
      BY <3>1, <3>2
  <2>7. Forced'
    <3> SUFFICES ASSUME NEW L \in [Node -> Status], Complete(L)', NEW i \in Node,
                        status'[i] # "undecided"
                 PROVE  L[i] = status'[i]
      BY DEF Forced
    <3>1. Complete(L)
      BY <2>1, <1>0, CompleteFrame
    <3>2. \A j \in Node : status[j] # "undecided" => L[j] = status[j]
      BY <3>1, <2>1 DEF GInv, Forced
    <3>3. CASE status'[i] = status[i]
      BY <3>3, <3>2
    <3>4. CASE status'[i] # status[i]
      <4>1. status[i] = "undecided" /\ status'[i] = Verdict(i)
        BY <3>4, <2>4
      <4>2. ~DeniesAxiom(i)
        BY <4>1, <2>1 DEF GInv
      <4> QED
        BY <4>1, <4>2, <3>1, <3>2, <1>0, AgreeingLabelling DEF Complete, Verdict
    <3> QED
      BY <3>3, <3>4
  <2>8. ~changed' => \A j \in Node : j < at' => Stuck(j)'
    <3> SUFFICES ASSUME ~changed', NEW j \in Node, j < at' PROVE Stuck(j)'
      OBVIOUS
    <3>1. ~changed /\ status' = status
      BY <2>1, <2>2
    <3>2. j < at \/ j = at
      BY <2>1, <2>2 DEF Node
    <3>3. Stuck(j)
      BY <3>1, <3>2, <2>1 DEF GInv, Stuck
    <3>4. Verdict(j)' = Verdict(j)
      <4>1. Premises(j) \subseteq Node
        BY <1>0, PremisesAreNodes
      <4>2. AttackedIn(status, j)' <=> AttackedIn(status, j)
        BY <3>1, <2>1, RulesFrame DEF AttackedIn
      <4>3. AttackersOut(status, j)' <=> AttackersOut(status, j)
        BY <3>1, <2>1, RulesFrame DEF AttackersOut
      <4>4. PremiseOut(status, j)' <=> PremiseOut(status, j)
        BY <3>1, <2>1, <4>1, RulesFrame DEF PremiseOut
      <4>5. PremisesIn(status, j)' <=> PremisesIn(status, j)
        BY <3>1, <2>1, <4>1, RulesFrame DEF PremisesIn
      <4> QED
        BY <4>2, <4>3, <4>4, <4>5 DEF Verdict
    <3> QED
      BY <3>1, <3>3, <3>4 DEF Stuck
  <2> QED
    BY <2>1, <2>5, <2>6, <2>7, <2>8, <1>0 DEF GInv
<1>4. CASE Labelled \/ UNCHANGED vars
  <2>1. UNCHANGED <<docs, strength, status>>
    BY <1>4 DEF Labelled, vars
  <2>2. \A i \in Node : Reasoned(i)' <=> Reasoned(i)
    BY <2>1, <1>0, PremisesAreNodes, RulesFrame
       DEF Reasoned, AttackedIn, AttackersOut, PremiseOut, PremisesIn
  <2>3. Forced => Forced'
    BY <2>1, <1>0, CompleteFrame DEF Forced
  <2>4. \A i \in Node : Stuck(i)' <=> Stuck(i)
    BY <2>1, <1>0, PremisesAreNodes, RulesFrame
       DEF Stuck, Verdict, AttackedIn, AttackersOut, PremiseOut, PremisesIn
  <2>5. CASE Labelled
    <3>1. /\ phase = "label" /\ at > N /\ at' = 1
          /\ phase' = IF changed THEN "label" ELSE "done"
      BY <2>5 DEF Labelled
    <3>2. \A j \in Node : j < at /\ ~(j < at')
      BY <3>1, <1>0 DEF TypeOK, Node
    <3> QED
      BY <3>1, <3>2, <2>1, <2>2, <2>3, <2>4, <1>0, RulesFrame DEF GInv, TypeOK
  <2>6. CASE UNCHANGED vars
    BY <2>6, <2>1, <2>2, <2>3, <2>4, <1>0, RulesFrame DEF GInv, vars
  <2> QED
    BY <1>4, <2>5, <2>6
<1> QED
  BY <1>1, <1>2, <1>3, <1>4 DEF Next

LEMMA GroundedFollows == GInv => AnswerIsGrounded
<1> SUFFICES ASSUME GInv, phase = "done" PROVE Complete(status) /\ Forced
  BY DEF AnswerIsGrounded, Forced
<1>0. TypeOK /\ Forced /\ \A i \in Node : Reasoned(i) /\ Stuck(i)
  BY DEF GInv
<1> SUFFICES ASSUME NEW i \in Node
             PROVE  /\ status[i] = "in" <=> (~DeniesAxiom(i) /\ AttackersOut(status, i) /\ PremisesIn(status, i))
                    /\ status[i] = "out" <=> (DeniesAxiom(i) \/ AttackedIn(status, i) \/ PremiseOut(status, i))
  BY <1>0 DEF Complete
<1>1. status[i] \in Status
  BY <1>0 DEF TypeOK
<1>2. ~(AttackedIn(status, i) /\ AttackersOut(status, i))
  BY DEF AttackedIn, AttackersOut
<1>3. ~(PremiseOut(status, i) /\ PremisesIn(status, i))
  BY DEF PremiseOut, PremisesIn
<1>4. DeniesAxiom(i) => status[i] = "out"
  BY DEF GInv
<1>5. status[i] = "undecided" =>
         /\ ~AttackedIn(status, i) /\ ~PremiseOut(status, i)
         /\ ~(AttackersOut(status, i) /\ PremisesIn(status, i))
  BY <1>0 DEF Stuck, Verdict
<1> QED
  BY <1>0, <1>1, <1>2, <1>3, <1>4, <1>5 DEF Reasoned, Status

\* When argue returns, its labelling obeys every rule and is the least one that
\* does: whatever it decides, every labelling that obeys the rules decides so.
THEOREM GroundedAnswer == Spec => []AnswerIsGrounded
<1>1. QED
  BY GroundedInit, GroundedStep, GroundedFollows, PTL DEF Spec

-----------------------------------------------------------------------------
(***************************************************************************)
(* The diagnosis.  What a document hangs on, directly or not, is finite;   *)
(* among the documents that i hangs on, one that hangs on fewest hangs on  *)
(* itself through others.                                                  *)
(***************************************************************************)
Chain(i) == {j \in Undecided : Reaches(i, j)}

LEMMA LeastNat ==
  ASSUME NEW T, T \subseteq Nat, T # {}
  PROVE  \E x \in T : \A y \in T : x <= y
<1>1. PICK x \in T : \A y \in T : ~(<<y, x>> \in OpToRel(<, Nat))
  BY NatLessThanWellFounded, WFMin, Zenon
<1>2. ASSUME NEW y \in T, y < x PROVE FALSE
  <2>1. <<y, x>> \in Nat \X Nat /\ <<y, x>>[1] < <<y, x>>[2]
    BY <1>2
  <2>2. <<y, x>> \in OpToRel(<, Nat)
    BY <2>1, Zenon DEF OpToRel
  <2> QED BY <2>2, <1>1, Zenon
<1> QED BY <1>2

LEMMA ChainsAreFinite == \A i : IsFiniteSet(Chain(i)) /\ Cardinality(Chain(i)) \in Nat
<1>1. IsFiniteSet(Node)
  BY FS_Interval, ArgueConstants DEF Node, ArgueConstants
<1> SUFFICES ASSUME NEW i PROVE IsFiniteSet(Chain(i)) /\ Cardinality(Chain(i)) \in Nat
  OBVIOUS
<1>2. Chain(i) \in SUBSET Node
  BY DEF Chain, Undecided
<1> QED BY <1>1, <1>2, FS_Subset, FS_CardinalityType

LEMMA ChainStarts == \A i : HangsOn(i) \subseteq Chain(i)
  BY DEF Chain, Reaches, HangsOn

LEMMA ChainCloses == \A i : \A k \in Chain(i) : HangsOn(k) \subseteq Chain(i)
<1> SUFFICES ASSUME NEW i, NEW k \in Chain(i), NEW l \in HangsOn(k)
             PROVE  l \in Chain(i)
  OBVIOUS
<1>1. l \in Undecided
  BY DEF HangsOn
<1>2. ASSUME NEW S \in SUBSET Undecided, HangsOn(i) \subseteq S, \A m \in S : HangsOn(m) \subseteq S
      PROVE  l \in S
  BY <1>2 DEF Chain, Reaches
<1> QED BY <1>1, <1>2 DEF Chain, Reaches

LEMMA ChainsNest == \A i : \A k \in Chain(i) : Chain(k) \subseteq Chain(i)
<1> SUFFICES ASSUME NEW i, NEW k \in Chain(i), NEW l \in Chain(k)
             PROVE  l \in Chain(i)
  OBVIOUS
<1>1. PICK S \in SUBSET Undecided : S = Chain(i)
  BY DEF Chain
<1>2. HangsOn(k) \subseteq S /\ \A m \in S : HangsOn(m) \subseteq S
  BY <1>1, ChainCloses
<1> QED BY <1>1, <1>2 DEF Chain, Reaches

\* Nothing hangs on itself directly.
LEMMA NoLoop == \A i : i \notin HangsOn(i)
  BY DEF HangsOn, Defeats, Attacks, Premises

\* Where every document hangs on one, some root cycle is behind each of them.
LEMMA SomeRoot ==
  ASSUME \A k \in Undecided : HangsOn(k) # {}, NEW i \in Undecided
  PROVE  \E k \in Undecided : Reaches(i, k) /\ InRoot(k)
<1> DEFINE sizes == {Cardinality(Chain(j)) : j \in Chain(i)}
<1>1. sizes \subseteq Nat /\ sizes # {}
  BY ChainsAreFinite, ChainStarts
<1>2. PICK n \in sizes : \A m \in sizes : n <= m
  <2> HIDE DEF sizes
  <2> QED BY <1>1, LeastNat
<1>3. PICK j \in Chain(i) : n = Cardinality(Chain(j))
  BY <1>2
<1>4. \A m \in Chain(i) : Cardinality(Chain(j)) <= Cardinality(Chain(m))
  BY <1>2, <1>3
<1>5. \A m \in Chain(j) : Chain(m) = Chain(j)
  <2> SUFFICES ASSUME NEW m \in Chain(j) PROVE Chain(m) = Chain(j)
    OBVIOUS
  <2>1. m \in Chain(i) /\ Chain(m) \in SUBSET Chain(j)
    BY <1>3, ChainsNest
  <2>2. Cardinality(Chain(m)) <= Cardinality(Chain(j)) /\ IsFiniteSet(Chain(j))
    BY <2>1, ChainsAreFinite, FS_Subset
  <2>3. Cardinality(Chain(j)) = Cardinality(Chain(m))
    BY <1>4, <2>1, <2>2, ChainsAreFinite
  <2> QED BY <2>1, <2>2, <2>3, FS_Subset
<1>6. PICK k \in HangsOn(j) : k \in Undecided
  BY <1>3 DEF Chain, HangsOn
<1>7. PICK l \in HangsOn(k) : l \in Undecided
  BY <1>6 DEF HangsOn
<1>8. k \in Chain(j) /\ Chain(k) = Chain(j)
  BY <1>5, <1>6, ChainStarts
<1>9. l \in Chain(k) /\ Chain(l) = Chain(j)
  BY <1>5, <1>7, <1>8, ChainStarts
<1>10. k # l
  BY <1>7, NoLoop
<1>11. InRoot(k)
  <2>1. Reaches(k, l)
    BY <1>9 DEF Chain
  <2>2. Reaches(l, k)
    BY <1>8, <1>9 DEF Chain
  <2> QED BY <1>7, <1>10, <2>1, <2>2 DEF InRoot
<1>12. Reaches(i, k)
  BY <1>3, <1>8, ChainsNest DEF Chain
<1> QED BY <1>6, <1>11, <1>12

\* In a finished answer, an undecided document has a reason to be undecided.
LEMMA UndecidedHangs ==
  ASSUME TypeOK, Complete(status), \A p \in Node : Carriers(p) = {p}, NEW i \in Undecided
  PROVE  HangsOn(i) # {}
<1>1. /\ i \in Node /\ status[i] = "undecided"
      /\ \A o \in Node : status[o] \in {"in", "out", "undecided"}
      /\ Premises(i) \subseteq Node
  BY PremisesAreNodes DEF Undecided, TypeOK, Status
<1>2. /\ ~DeniesAxiom(i) /\ ~AttackedIn(status, i) /\ ~PremiseOut(status, i)
      /\ ~(AttackersOut(status, i) /\ PremisesIn(status, i))
  BY <1>1 DEF Complete
<1>3. CASE ~AttackersOut(status, i)
  <2>1. PICK o \in Node : Defeats(o, i) /\ status[o] # "out"
    BY <1>3 DEF AttackersOut
  <2>2. o \in Undecided
    BY <1>1, <1>2, <2>1 DEF AttackedIn, Undecided
  <2> QED BY <2>1, <2>2 DEF HangsOn
<1>4. CASE ~PremisesIn(status, i)
  <2>1. PICK p \in Premises(i) : \A q \in Carriers(p) : status[q] # "in"
    BY <1>4 DEF PremisesIn
  <2>2. p \in Node /\ Carriers(p) = {p} /\ status[p] # "out"
    BY <1>1, <1>2, <2>1 DEF PremiseOut
  <2>3. p \in Undecided
    BY <1>1, <2>1, <2>2 DEF Undecided
  <2> QED BY <2>1, <2>3 DEF HangsOn
<1> QED BY <1>2, <1>3, <1>4

\* When no two documents assert the same proposition, everything undecided is in a
\* root cycle of the diagnosis or hangs on one, in every argument graph.
THEOREM RootsAlwaysExplain == Spec => []RootsExplain
<1>1. TypeOK /\ AnswerIsGrounded => RootsExplain
  <2> SUFFICES ASSUME TypeOK, AnswerIsGrounded, \A p \in Node : Carriers(p) = {p}, phase = "done",
                      NEW i \in Undecided
               PROVE  \E j \in Undecided : Reaches(i, j) /\ InRoot(j)
    BY DEF RootsExplain, EverythingHasRoot
  <2>1. Complete(status)
    BY DEF AnswerIsGrounded
  <2>2. \A k \in Undecided : HangsOn(k) # {}
    BY <2>1, UndecidedHangs
  <2> QED BY <2>2, SomeRoot
<1> QED BY <1>1, TypeCorrect, GroundedAnswer, PTL
=============================================================================
