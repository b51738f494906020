----------------------------- MODULE Permissions -----------------------------
(***************************************************************************)
(* The write-permission rules (diwe/permissions.rs) with the schemas'      *)
(* `mutable` and `deletable` keywords (diwe/schema.rs) and the write scope *)
(* of [transactions] (diwe/config.rs).  Nothing here keeps state: each     *)
(* operator is a function of what a writer hands in and of what the        *)
(* document holds on disk.                                                 *)
(*                                                                         *)
(* A document is its body and its frontmatter.  A frontmatter is a tree of *)
(* values, given node by node: Node is the set of places a value can be,   *)
(* and Below[s] the places at or below the path that a selector s names,   *)
(* so the value at a path has changed exactly when one of them has.        *)
(***************************************************************************)
EXTENDS Integers, Sequences

CONSTANTS
  Key,
  Node, Value, Body,
  Selector,     \* what a `mutable` mapping may name, Content among them
  Content,      \* the selector $content
  Below,        \* Below[s]: the nodes at or below the path of s
  Freeze,       \* the node of the field freeze
  FreezeNodes,  \* that node and those below it
  Yes,          \* the literal true
  Missing,      \* no such field
  Blank,        \* a body without text
  Schemas       \* the bound schemas, in the order of their names

Frontmatter == [Node -> Value \cup {Missing}]
Document == [front : Frontmatter, body : Body]

\* The text "": what a removal leaves, and what stands for no document at all.
Nothing == [front |-> [n \in Node |-> Missing], body |-> Blank]

\* One pattern of a list: the keys its glob matches, and whether it has a leading !.
Pattern == [keys : SUBSET Key, negated : BOOLEAN]

\* A schema file: the match patterns of its binding, its `mutable` mapping, and its
\* `deletable` keyword.  A file that is missing or malformed has neither.
Mutability == UNION {[S -> BOOLEAN] : S \in SUBSET Selector}
Keyword == {"none", "true", "false"}
Schema == [patterns : Seq(Pattern), mutable : Mutability, deletable : Keyword]

NoRules == <<>>

-----------------------------------------------------------------------------
(* Which schemas bind a key, and which keys the scope lets a writer touch *)

\* The last pattern that matches decides.
PatternsMatch(patterns, k) ==
  \E i \in DOMAIN patterns :
    /\ k \in patterns[i].keys
    /\ ~patterns[i].negated
    /\ \A j \in DOMAIN patterns : j > i => k \notin patterns[j].keys

\* An allowlist, when there is one, decides alone.
WritePermitted(deny, allow, k) ==
  IF allow # <<>> THEN PatternsMatch(allow, k) ELSE ~PatternsMatch(deny, k)

SchemasFor(k) == {i \in DOMAIN Schemas : PatternsMatch(Schemas[i].patterns, k)}

\* The first bound schema gives the rules about properties, and it alone.
IsFirst(i, k) == i \in SchemasFor(k) /\ \A j \in SchemasFor(k) : i <= j

MutabilityRules(k) ==
  IF SchemasFor(k) = {} THEN NoRules
  ELSE Schemas[CHOOSE i \in SchemasFor(k) : IsFirst(i, k)].mutable

\* Every bound schema has a say about removal, and a prohibition wins.
DeletableRule(k) ==
  LET said == {Schemas[i].deletable : i \in SchemasFor(k)}
  IN  IF "false" \in said THEN "false" ELSE IF "true" \in said THEN "true" ELSE "none"

-----------------------------------------------------------------------------
(* The rules *)

IsFrozen(front) == front[Freeze] = Yes

\* The body is the same, and the frontmatter but for the marker, which was in
\* force and is not any more.
IsSolitaryUnfreeze(prior, next) ==
  /\ prior.body = next.body
  /\ IsFrozen(prior.front) /\ ~IsFrozen(next.front)
  /\ \A n \in Node \ FreezeNodes : prior.front[n] = next.front[n]

PropertyTouched(prior, next, s) ==
  IF s = Content THEN prior.body # next.body
  ELSE \E n \in Below[s] : prior.front[n] # next.front[n]

\* What check_write_permission says of one property of an unfrozen document.
Immutable(s, mutability) == s \in DOMAIN mutability /\ ~mutability[s]

\* Where the document as it stands is frozen, nothing but lifting that is allowed;
\* otherwise a removal is a matter of `deletable` and a write of `mutable`.
CheckWithMutability(prior, next, operation, mutability, deletable) ==
  LET frozen == IsFrozen(prior.front)
      touched(s) == PropertyTouched(prior, next, s)
  IN  CASE frozen /\ ~IsSolitaryUnfreeze(prior, next) -> "Frozen"
        [] ~frozen /\ operation = "Delete" /\ deletable = "false" -> "DeleteProhibited"
        [] ~frozen /\ operation = "Write" /\ (\E s \in Selector : touched(s) /\ Immutable(s, mutability))
             -> "PropertyImmutable"
        [] OTHER -> "ok"

\* check_write_permission_for_content_in.  A removal hands in the text "".
CheckWrite(k, prior, next) ==
  CheckWithMutability(prior, next, "Write", MutabilityRules(k), DeletableRule(k))

CheckDelete(k, prior) ==
  CheckWithMutability(prior, Nothing, "Delete", MutabilityRules(k), DeletableRule(k))
=============================================================================
