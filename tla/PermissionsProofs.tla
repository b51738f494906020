-------------------------- MODULE PermissionsProofs --------------------------
(***************************************************************************)
(* What the permission rules guarantee, for any documents, schemas and     *)
(* selectors.  The rules are functions of one document, so nothing here    *)
(* is temporal; CommitStore shows which content they are asked about.      *)
(***************************************************************************)
EXTENDS Permissions, TLAPS

\* A document that does not exist counts as not frozen.
LEMMA NothingIsThawed ==
  ASSUME Freeze \in Node, Yes # Missing
  PROVE  ~IsFrozen(Nothing.front)
BY DEF IsFrozen, Nothing

\* What a frozen document allows: the rules never let a write or a removal change
\* anything of it but the marker, whatever the schemas say (R15: freeze dominates).
THEOREM FrozenStands ==
  ASSUME NEW prior, NEW next, NEW operation, NEW mutability, NEW deletable,
         IsFrozen(prior.front),
         CheckWithMutability(prior, next, operation, mutability, deletable) = "ok"
  PROVE  /\ next.body = prior.body
         /\ ~IsFrozen(next.front)
         /\ \A n \in Node \ FreezeNodes : next.front[n] = prior.front[n]
<1>1. IsSolitaryUnfreeze(prior, next)
  BY DEF CheckWithMutability
<1> QED
  BY <1>1 DEF IsSolitaryUnfreeze

\* A property that the schema calls immutable is the same before and after every
\* permitted write, be the document frozen, thawed by that write, or new: a document
\* cannot be created with it.  Only the marker itself may change when it is lifted.
THEOREM ImmutableStays ==
  ASSUME NEW prior, NEW next, NEW mutability, NEW deletable, NEW s \in Selector,
         s # Content => Below[s] \subseteq Node \ FreezeNodes,
         Immutable(s, mutability),
         CheckWithMutability(prior, next, "Write", mutability, deletable) = "ok"
  PROVE  ~PropertyTouched(prior, next, s)
<1>1. CASE IsFrozen(prior.front)
  <2>1. /\ next.body = prior.body
        /\ \A n \in Node \ FreezeNodes : next.front[n] = prior.front[n]
    BY <1>1, FrozenStands
  <2> QED
    BY <2>1 DEF PropertyTouched
<1>2. CASE ~IsFrozen(prior.front)
  BY <1>2 DEF CheckWithMutability
<1> QED
  BY <1>1, <1>2

\* The removal of an unfrozen document is a matter of `deletable` alone, and every
\* schema bound to its key can prohibit it.
THEOREM RemovalByDeletable ==
  ASSUME NEW k, NEW prior, ~IsFrozen(prior.front)
  PROVE  CheckDelete(k, prior) = "ok" <=> \A i \in SchemasFor(k) : Schemas[i].deletable # "false"
<1>1. CheckDelete(k, prior) = "ok" <=> DeletableRule(k) # "false"
  BY DEF CheckDelete, CheckWithMutability
<1>2. DeletableRule(k) = "false" <=> \E i \in SchemasFor(k) : Schemas[i].deletable = "false"
  BY DEF DeletableRule
<1> QED
  BY <1>1, <1>2

\* The frozen documents that can be removed are exactly those that have nothing but
\* the marker, whatever `deletable` says: removing one looks like lifting the freeze.
THEOREM FrozenRemoval ==
  ASSUME NEW k, NEW prior, IsFrozen(prior.front), Freeze \in Node, Yes # Missing
  PROVE  CheckDelete(k, prior) = "ok" <=>
           /\ prior.body = Blank
           /\ \A n \in Node \ FreezeNodes : prior.front[n] = Missing
<1>1. CheckDelete(k, prior) = "ok" <=> IsSolitaryUnfreeze(prior, Nothing)
  BY DEF CheckDelete, CheckWithMutability
<1>2. IsSolitaryUnfreeze(prior, Nothing) <=>
        /\ prior.body = Blank
        /\ \A n \in Node \ FreezeNodes : prior.front[n] = Missing
  BY NothingIsThawed DEF IsSolitaryUnfreeze, Nothing
<1> QED
  BY <1>1, <1>2

\* In a list of patterns the last one decides when it matches, and nothing else does.
THEOREM LastPatternDecides ==
  ASSUME NEW patterns \in Seq(Pattern), NEW pattern \in Pattern, NEW k \in Key
  PROVE  PatternsMatch(Append(patterns, pattern), k) <=>
           IF k \in pattern.keys THEN ~pattern.negated ELSE PatternsMatch(patterns, k)
<1> DEFINE all == Append(patterns, pattern)
<1> DEFINE n == Len(patterns)
<1>1. /\ n \in Nat
      /\ DOMAIN patterns = 1..n /\ DOMAIN all = 1..(n + 1)
      /\ all[n + 1] = pattern
      /\ \A i \in 1..n : all[i] = patterns[i]
  OBVIOUS
<1> HIDE DEF all, n
<1>2. CASE k \in pattern.keys
  <2>1. PatternsMatch(all, k) => ~pattern.negated
    <3> SUFFICES ASSUME NEW i \in DOMAIN all, ~all[i].negated,
                        \A j \in DOMAIN all : j > i => k \notin all[j].keys
                 PROVE  ~pattern.negated
      BY DEF PatternsMatch
    <3>1. i = n + 1
      BY <1>1, <1>2
    <3> QED
      BY <1>1, <3>1
  <2>2. ~pattern.negated => PatternsMatch(all, k)
    BY <1>1, <1>2 DEF PatternsMatch
  <2> QED
    BY <1>2, <2>1, <2>2 DEF all
<1>3. CASE k \notin pattern.keys
  <2>1. PatternsMatch(all, k) => PatternsMatch(patterns, k)
    BY <1>1, <1>3 DEF PatternsMatch
  <2>2. PatternsMatch(patterns, k) => PatternsMatch(all, k)
    <3> SUFFICES ASSUME NEW i \in DOMAIN patterns, k \in patterns[i].keys, ~patterns[i].negated,
                        \A j \in DOMAIN patterns : j > i => k \notin patterns[j].keys
                 PROVE  PatternsMatch(all, k)
      BY DEF PatternsMatch
    <3>1. i \in DOMAIN all /\ all[i] = patterns[i]
      BY <1>1
    <3>2. \A j \in DOMAIN all : j > i => k \notin all[j].keys
      BY <1>1, <1>3
    <3> QED
      BY <3>1, <3>2 DEF PatternsMatch
  <2> QED
    BY <1>3, <2>1, <2>2 DEF all
<1> QED
  BY <1>2, <1>3
=============================================================================
