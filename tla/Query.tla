------------------------------- MODULE Query -------------------------------
(***************************************************************************)
(* The evaluation of filter expressions (query/eval.rs) over the document  *)
(* graph of DocGraph, with the walks along links (graph/walk.rs, and       *)
(* query/via.rs for walks that follow only the links in some blocks).      *)
(* Nothing here keeps state.                                               *)
(*                                                                         *)
(* A filter expression is a tree; Form gives what stands at each node of   *)
(* it.  What a test says of a document is data, so a test is the set of    *)
(* keys it holds of.  An option (a scope, a size, a via) is a set of at    *)
(* most one element.                                                       *)
(***************************************************************************)
EXTENDS DocGraph

CONSTANTS
  Filter,       \* the filter expressions considered, with all their parts
  Form          \* Form[f]: the operator of f and its operands

(* What can stand at a node: a test of one document, a connective, or a    *)
(* relation: some document that matches is related, so many links away.    *)
Test ==     [op : {"key", "standing"}, of : SUBSET Name]
       \cup [op : {"field"}, of : SUBSET Name, bare : BOOLEAN]
Connective == [op : {"and", "or", "nor"}, parts : SUBSET Filter]
Relation == [op : {"relation"}, edges : {"includes", "refers"}, out : BOOLEAN,
             match : Filter, min : Nat, max : Nat,
             size : SUBSET SUBSET Nat, via : SUBSET SUBSET Link]

ASSUME QueryConstants == Form \in [Filter -> Test \cup Connective \cup Relation]

NoScope == {}
Scope == {NoScope} \cup {{S} : S \in SUBSET Name}

-----------------------------------------------------------------------------
(* Walks *)

\* The keys one step further along the links of a relation.
Outbound(g, q, k) ==
  LET links == IF k \in DOMAIN g.docs THEN g.docs[k] ELSE {}
      ofKind == {l \in links : l.kind = q.edges}
      selected == {l \in links : l.kind # "field" /\ l \in UNION q.via}
  IN IF q.via # {} THEN {TargetKey(g, l) : l \in selected}
     ELSE IF q.edges = "includes" THEN {Leads(g, l) : l \in ofKind} \ {NoKey}
     ELSE {TargetKey(g, l) : l \in ofKind} \cap DOMAIN g.docs

\* Mutant of Inbound: links by name are not looked for.
InboundByKey(g, q, k) ==
  {e.from : e \in {x \in g.edges : x.link.kind = q.edges /\ x.link.form = "path" /\ x.link.at = k}}

\* And the documents one step back, by the link index.
Inbound(g, q, k) ==
  {d \in {e.from : e \in {x \in EdgesTo(g, k) : x.link.kind = q.edges}} :
     q.via # {} => k \in Outbound(g, q, d)}

InSomeOrder(S) ==
  CHOOSE s \in [1..Cardinality(S) -> S] : \A i, j \in DOMAIN s : i # j => s[i] # s[j]

\* The breadth-first search: what is found, with its distance from a, and the queue.
Walk(g, q, out, a) ==
  LET beside(k) == IF out THEN Outbound(g, q, k) ELSE Inbound(g, q, k)
      search[s \in (SUBSET (Name \X Nat)) \X Seq(Name \X Nat)] ==
        IF s[2] = <<>> THEN s[1]
        ELSE LET at == Head(s[2])
                 found == {k \in beside(at[1]) : k # a /\ \A f \in s[1] : f[1] # k}
                 fresh == IF at[2] >= q.max THEN {} ELSE {<<k, at[2] + 1>> : k \in found}
             IN search[<<s[1] \cup fresh, Tail(s[2]) \o InSomeOrder(fresh)>>]
  IN search[<<{}, <<<<a, 0>>>>>>]

Related(g, q, out, a) == {w[1] : w \in {v \in Walk(g, q, out, a) : v[2] \in q.min..q.max}}

-----------------------------------------------------------------------------
(* Evaluation.  E gives the results of the parts: E[<<f, s>>], in scope s. *)

Universe(g, s) == IF s = NoScope THEN DOMAIN g.docs ELSE UNION s
InScope(K, s) == IF s = NoScope THEN K ELSE K \cap UNION s

\* A key without a document has the empty frontmatter, and no standing.
Holds(g, q, k) ==
  CASE q.op = "key" -> k \in q.of
    [] q.op = "standing" -> k \in q.of /\ k \in DOMAIN g.docs
    [] q.op = "field" -> IF k \in DOMAIN g.docs THEN k \in q.of ELSE q.bare

\* Tests of one document are asked last, of what is left.
IsPredicate(f) == Form[f].op \in {"key", "field"}

EvalAnd(g, E, q, s) ==
  LET generators == {f \in q.parts : ~IsPredicate(f)}
      candidates == IF generators = {} THEN Universe(g, s)
                    ELSE {k \in UNION {E[<<f, s>>] : f \in generators} :
                            \A f \in generators : k \in E[<<f, s>>]}
  IN {k \in candidates : \A f \in q.parts \ generators : Holds(g, Form[f], k)}

EvalOr(E, q, s) == UNION {E[<<f, s>>] : f \in q.parts}

EvalNor(g, E, q, s) == Universe(g, s) \ EvalOr(E, q, {Universe(g, s)})

\* Mutant of EvalExists: the scope of the relation serves for its matches.
EvalExistsNarrow(g, E, q, s) ==
  LET anchors == E[<<q.match, s>>]
  IN InScope((UNION {Related(g, q, ~q.out, a) : a \in anchors}) \ anchors, s)

\* Without a size: what the anchors' walks in the other direction find, but no anchor.
EvalExists(g, E, q, s) ==
  LET anchors == E[<<q.match, NoScope>>]
  IN InScope((UNION {Related(g, q, ~q.out, a) : a \in anchors}) \ anchors, s)

\* With one: how many matches a walk from each candidate finds.
EvalCount(g, E, q, s) ==
  LET matches == E[<<q.match, NoScope>>]
  IN {k \in Universe(g, s) :
        Cardinality((Related(g, q, q.out, k) \cap matches) \ {k}) \in UNION q.size}

Eval(g, E, f, s) ==
  LET q == Form[f]
  IN CASE q.op = "and" -> EvalAnd(g, E, q, s)
       [] q.op = "or" -> EvalOr(E, q, s)
       [] q.op = "nor" -> EvalNor(g, E, q, s)
       [] q.op = "relation" /\ q.size = {} -> EvalExists(g, E, q, s)
       [] q.op = "relation" /\ q.size # {} -> EvalCount(g, E, q, s)
       [] OTHER -> {k \in Universe(g, s) : Holds(g, q, k)}

Evaluation(g) ==
  LET E[x \in Filter \X Scope] == Eval(g, E, x[1], x[2]) IN E

-----------------------------------------------------------------------------
(* Properties, asked of graphs as they are loaded *)

Loaded == last.op = "none"

IsEvaluation(g, E) == E = [x \in Filter \X Scope |-> Eval(g, E, x[1], x[2])]

\* Evaluating within a set of documents gives what evaluating over the store and
\* then intersecting gives, however deep the filter (evaluate_within).
AgreeWithin(E, S) == \A f \in Filter : E[<<f, {S}>>] = E[<<f, NoScope>>] \cap S
ScopedIsRestricted ==
  Loaded => LET E == Evaluation(graph) IN \A S \in SUBSET Docs : AgreeWithin(E, S)

\* A relation without a size holds of those documents outside its anchor set that
\* have at least one related document.  The first is found by walking from the
\* anchors against the links, by the link index, the second by walking from every
\* document along the links as they resolve (eval_relation_count and the two
\* existential functions).
SameAsCounted(E, q) ==
  EvalExists(graph, E, q, NoScope)
    = EvalCount(graph, E, [q EXCEPT !.size = {Nat \ {0}}], NoScope) \ E[<<q.match, NoScope>>]

Relations == {Form[f] : f \in {h \in Filter : Form[h].op = "relation"}}

\* This of the relations that follow links to documents, from anchors that are
\* documents: a relation with via may have found others.
DirectionsAgree ==
  Loaded => LET E == Evaluation(graph)
            IN \A q \in Relations :
                 q.via = {} /\ E[<<q.match, NoScope>>] \subseteq Docs => SameAsCounted(E, q)

(* What does not hold (README, section 3.3) *)

\* The same of the relations with via (query/via.rs).
ViaAgrees ==
  Loaded => LET E == Evaluation(graph) IN \A q \in Relations : q.via # {} => SameAsCounted(E, q)

\* A filter holds of documents only.
OnlyDocuments == Loaded => \A f \in Filter : Evaluation(graph)[<<f, NoScope>>] \subseteq Docs

\* Evaluating within any set of keys intersects, as evaluate_within says of itself.
ScopedAnywhere ==
  Loaded => LET E == Evaluation(graph) IN \A k \in Key : AgreeWithin(E, {k})
=============================================================================
