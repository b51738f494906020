---------------------------- MODULE MCIntegrity ----------------------------
(* Two processes and three keys.  In one store two documents that link to  *)
(* each other cannot be reached from the root; the other has a broken link *)
(* that a page with a link back would mend.                                *)
EXTENDS Integrity, TLC

CONSTANTS p1, p2, i, a, b, none, toA, toB

MCLinks == none :> {} @@ toA :> {a} @@ toB :> {b}

Islands == (i :> none @@ a :> toB @@ b :> toA)
Chain == (i :> toA @@ a :> toB @@ b :> Absent)
MCStores == {Islands, Chain}

Lenient == [links |-> "no-new", orphans |-> "no-new"]
Half == [links |-> "strict", orphans |-> "off"]
Mixed == [links |-> "off", orphans |-> "strict"]
MCOptions == {Lenient, Half, Mixed}

\* Removals, new orphans, dangling links, and a page created with its link.
MCBatches ==
  {[Nothing EXCEPT ![k] = Absent] : k \in {i, a}}
    \cup {[Nothing EXCEPT ![b] = toA], [Nothing EXCEPT ![i] = toA, ![a] = toB, ![b] = none]}
=============================================================================
