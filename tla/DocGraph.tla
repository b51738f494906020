------------------------------ MODULE DocGraph ------------------------------
(***************************************************************************)
(* The document graph of the MCP server and the operations that change it: *)
(* graph.rs with its link index (graph/index.rs) and the resolution of     *)
(* names to keys (key_index.rs), the operations that compute a change set  *)
(* (operations/, diwe/cascade.rs), and the tools that apply one.           *)
(*                                                                         *)
(* A key or a written name is a sequence of path segments.  What a         *)
(* document says is the set of its links: inclusions, references, and      *)
(* frontmatter fields that a schema declares as keys.  A link names its    *)
(* target by key, or by a wiki name that the key index resolves.  Text,    *)
(* order, sections, titles and repetitions of a link in a document are     *)
(* left out; a link is printed relative to its document and read back as   *)
(* the same target.                                                        *)
(***************************************************************************)
EXTENDS Integers, Sequences, FiniteSets

CONSTANTS
  Segment,      \* path segments
  Fold,         \* their lower case
  Key,          \* the keys documents can have
  Place,        \* the place of a key in the resolution order
  Written,      \* the wiki names that can be written
  Shelves,      \* the stores considered: documents with what they say
  Texts,        \* what a document may be rewritten to say
  MaxSteps,     \* bound on the operations of a behaviour
  MaxTargets    \* bound on the documents of one delete

NoKey == <<>>
Name == Key \cup Written

Link ==   [kind : {"includes", "refers"}, form : {"path"}, at : Key]
     \cup [kind : {"includes", "refers"}, form : {"name"}, at : Name]
     \cup [kind : {"field"}, form : {"path"}, at : Key]

ASSUME GraphConstants ==
  /\ Fold \in [Segment -> Segment]
  /\ Name \subseteq Seq(Segment) \ {NoKey}
  /\ Place \in [Key -> Nat]
  /\ \A k, l \in Key : k # l => Place[k] # Place[l]
  /\ \A k, l \in Key : Len(k) < Len(l) => Place[k] < Place[l]
  /\ \A k \in Key : \A n \in 1..Len(k) : SubSeq(k, Len(k) - n + 1, Len(k)) \in Name
  /\ \A s \in Shelves : DOMAIN s \subseteq Key /\ \A k \in DOMAIN s : s[k] \subseteq Link
  /\ Texts \subseteq SUBSET Link
  /\ MaxSteps \in Nat

VARIABLES
  graph,        \* the graph (below)
  last,         \* the operation just done and its arguments
  steps

vars == <<graph, last, steps>>

(***************************************************************************)
(* The key index                                                           *)
(***************************************************************************)
BucketOf(s) == Fold[s[Len(s)]]
Bucket == {BucketOf(s) : s \in Name}

EndsWith(k, s) ==
  Len(s) <= Len(k) /\ \A i \in 1..Len(s) : k[Len(k) - Len(s) + i] = s[i]

EndsWithFolded(k, s) ==
  Len(s) <= Len(k) /\ \A i \in 1..Len(s) : Fold[k[Len(k) - Len(s) + i]] = Fold[s[i]]

First(B) == CHOOSE k \in B : \A l \in B : Place[k] <= Place[l]

\* The keys of a bucket that a name fits: as written, else whatever its case.
Fitting(B, s) ==
  LET exact == {k \in B : EndsWith(k, s)}
  IN IF exact # {} THEN exact ELSE {k \in B : EndsWithFolded(k, s)}

\* The key a name stands for among the keys of its bucket.  With no fitting key
\* the first one of the same last segment serves.
Among(B, s) ==
  LET fit == Fitting(B, s)
  IN IF fit # {} THEN [key |-> First(fit), resolved |-> TRUE]
     ELSE IF B # {} THEN [key |-> First(B), resolved |-> TRUE]
     ELSE [key |-> s, resolved |-> FALSE]

Resolve(b, s) == Among(b[BucketOf(s)], s)

\* Mutant of Suffix: one segment short.
SuffixShort(k, n) == SubSeq(k, Len(k) - n + 2, Len(k))
\* The shortest suffix that fits only this key, whatever its case; else the key.
Suffix(k, n) == SubSeq(k, Len(k) - n + 1, Len(k))
Shorten(b, k) ==
  LET B == b[BucketOf(k)]
      unique == {n \in 1..Len(k) : {l \in B : EndsWithFolded(l, Suffix(k, n))} = {k}}
  IN IF unique = {} THEN k
     ELSE Suffix(k, CHOOSE n \in unique : \A m \in unique : n <= m)

BucketsOf(K) == [b \in Bucket |-> {k \in K : BucketOf(k) = b}]

(***************************************************************************)
(* The graph: docs, what every document says; buckets, the keys by last    *)
(* segment; edges, the link index; resolved and shortened, the answers the *)
(* key index remembers.                                                    *)
(***************************************************************************)
Empty == [s \in {} |-> NoKey]

EdgesOf(docs, K) == UNION {{[from |-> k, link |-> l] : l \in docs[k]} : k \in K}

Build(docs) ==
  [docs |-> docs,
   buckets |-> BucketsOf(DOMAIN docs),
   edges |-> EdgesOf(docs, DOMAIN docs),
   resolved |-> Empty,
   shortened |-> Empty]

\* Answers without those for the buckets B, which are forgotten.
Keep(f, B) == [s \in {t \in DOMAIN f : BucketOf(t) \notin B} |-> f[s]]

\* Mutant of Put: the answers remembered before stay.
PutRemembering(g, f) ==
  LET fresh == {k \in DOMAIN f : k \notin g.buckets[BucketOf(k)]}
  IN [docs |-> [k \in DOMAIN f \cup DOMAIN g.docs |-> IF k \in DOMAIN f THEN f[k] ELSE g.docs[k]],
      buckets |-> [b \in Bucket |-> g.buckets[b] \cup {k \in fresh : BucketOf(k) = b}],
      edges |-> (g.edges \ EdgesOf(g.docs, DOMAIN f \cap DOMAIN g.docs)) \cup EdgesOf(f, DOMAIN f),
      resolved |-> g.resolved,
      shortened |-> g.shortened]

\* Insert or update: f gives the new texts.
Put(g, f) ==
  LET fresh == {k \in DOMAIN f : k \notin g.buckets[BucketOf(k)]}
      touched == {BucketOf(k) : k \in fresh}
  IN [docs |-> [k \in DOMAIN f \cup DOMAIN g.docs |-> IF k \in DOMAIN f THEN f[k] ELSE g.docs[k]],
      buckets |-> [b \in Bucket |-> g.buckets[b] \cup {k \in fresh : BucketOf(k) = b}],
      edges |-> (g.edges \ EdgesOf(g.docs, DOMAIN f \cap DOMAIN g.docs)) \cup EdgesOf(f, DOMAIN f),
      resolved |-> Keep(g.resolved, touched),
      shortened |-> Keep(g.shortened, touched)]

Drop(g, K) ==
  LET touched == {b \in {BucketOf(k) : k \in K} : g.buckets[b] # {}}
  IN [docs |-> [k \in DOMAIN g.docs \ K |-> g.docs[k]],
      buckets |-> [b \in Bucket |-> g.buckets[b] \ K],
      edges |-> g.edges \ EdgesOf(g.docs, K \cap DOMAIN g.docs),
      resolved |-> Keep(g.resolved, touched),
      shortened |-> Keep(g.shortened, touched)]

\* What the index answers, and the graph after it has answered for the names S.
Resolution(g, s) == IF s \in DOMAIN g.resolved THEN g.resolved[s] ELSE Resolve(g.buckets, s)
Consult(g, S) ==
  [docs |-> g.docs, buckets |-> g.buckets, edges |-> g.edges, shortened |-> g.shortened,
   resolved |-> [s \in DOMAIN g.resolved \cup S |-> Resolution(g, s)]]

TargetKey(g, l) == IF l.form = "path" THEN l.at ELSE Resolution(g, l.at).key

\* The document a link leads to, or none.
Leads(g, l) ==
  IF l.form = "path" THEN IF l.at \in g.buckets[BucketOf(l.at)] THEN l.at ELSE NoKey
  ELSE IF Resolution(g, l.at).resolved THEN Resolution(g, l.at).key ELSE NoKey

NamesIn(L) == {l.at : l \in {m \in L : m.form = "name"}}
NamesOf(g, D) == UNION {NamesIn(g.docs[d]) : d \in D}
NamesLike(g, k) == {s \in NamesIn({e.link : e \in g.edges}) : BucketOf(s) = BucketOf(k)}

\* Mutant of EdgesTo: references are not looked for.
InclusionsOf(g, k) == {e \in g.edges : e.link.kind = "includes" /\ TargetKey(g, e.link) = k}

\* Edges of inclusions and references to k; frontmatter fields are not indexed.
EdgesTo(g, k) == {e \in g.edges : e.link.kind # "field" /\ TargetKey(g, e.link) = k}
Referrers(g, k) == {e.from : e \in EdgesTo(g, k)}
ReferrersOf(g, K) == UNION {Referrers(g, k) : k \in K}

FrontmatterReferrers(g, k) ==
  {d \in DOMAIN g.docs : \E l \in g.docs[d] : l.kind = "field" /\ l.at = k}

(***************************************************************************)
(* Change sets                                                             *)
(***************************************************************************)
Changes(creates, updates, removes) ==
  [creates |-> creates, updates |-> updates, removes |-> removes]

Apply(g, c) == Put(Put(Drop(g, c.removes), c.creates), c.updates)

\* A document without its links to k.
Unlinked(g, d, k) == {l \in g.docs[d] : l.kind = "field" \/ TargetKey(g, l) # k}

DeleteChanges(g, k) ==
  Changes(Empty, [d \in Referrers(g, k) |-> Unlinked(g, d, k)], {k})

\* The change sets of several deletions, merged: the last update of a document
\* counts, and a document that goes has none.
MergedDelete(g, T) ==
  LET gone == {T[i] : i \in DOMAIN T}
      touches(d) == {i \in DOMAIN T : d \in Referrers(g, T[i])}
      final(d) == CHOOSE i \in touches(d) : \A j \in touches(d) : j <= i
  IN Changes(Empty,
             [d \in ReferrersOf(g, gone) \ gone |-> Unlinked(g, d, T[final(d)])],
             gone)

(* rename *)
To(l, form, at) == [kind |-> l.kind, form |-> form, at |-> at]

\* KeyRename::rewrite of a name; a are the buckets after the renaming.  A name of
\* the old key follows it, unless it fits the new key first; a name of another
\* document that the new key would take over is made longer.
RewriteName(g, a, old, new, l) ==
  LET before == TargetKey(g, l)
      fit == Fitting(a[BucketOf(l.at)], l.at)
  IN IF before = old
     THEN IF fit # {} /\ First(fit) = new THEN l
          ELSE To(l, "name", IF Len(l.at) >= Len(old) THEN new ELSE Shorten(a, new))
     ELSE IF before \in g.buckets[BucketOf(before)] /\ Resolve(a, l.at).key = new
          THEN To(l, "name", Shorten(a, before))
          ELSE l

Rewrite(g, a, old, new, l) ==
  IF l.kind = "field" THEN l
  ELSE IF l.form = "name" THEN RewriteName(g, a, old, new, l)
  ELSE IF l.at = old THEN To(l, "path", new) ELSE l

\* cascade_rename: the declared fields that hold the old key follow.
Cascade(old, new, l) == IF l.kind = "field" /\ l.at = old THEN To(l, "path", new) ELSE l

\* Mutant of RenameAffected: names that the new key takes over are not guarded.
RenameReferrers(g, old, new) == Referrers(g, old) \ {old}

RenameAffected(g, old, new) ==
  (Referrers(g, old) \cup {e.from : e \in {f \in g.edges : /\ f.link.form = "name"
                                                          /\ BucketOf(f.link.at) = BucketOf(new)}})
  \ {old}

RenameChanges(g, old, new) ==
  LET a == BucketsOf((DOMAIN g.docs \ {old}) \cup {new})
      affected == RenameAffected(g, old, new)
      renamed(d) == {Rewrite(g, a, old, new, l) : l \in g.docs[d]}
      text(d) == {Cascade(old, new, l) : l \in IF d \in affected \cup {old} THEN renamed(d) ELSE g.docs[d]}
  IN Changes([d \in {new} |-> text(old)],
             [d \in {x \in DOMAIN g.docs \ {old} : text(x) # g.docs[x]} |-> text(d)],
             {old})

(* extract, inline, attach *)

\* parts gives every new document its section; WikiLink or Markdown links.
ExtractChanges(g, k, parts, form) ==
  Changes(parts,
          [d \in {k} |-> (g.docs[k] \ UNION {parts[p] : p \in DOMAIN parts})
                         \cup {[kind |-> "includes", form |-> form, at |-> p] : p \in DOMAIN parts}],
          {})

\* l is the inclusion of k to replace by the body of what it leads to.
InlineChanges(g, k, l, keep) ==
  LET t == Leads(g, l)
      body == {m \in g.docs[t] : m.kind # "field"}
      others == IF keep THEN {} ELSE Referrers(g, t) \ {k, t}
  IN Changes(Empty,
             [d \in {k} \cup others |-> IF d = k THEN (g.docs[k] \ {l}) \cup body
                                        ELSE Unlinked(g, d, t)],
             IF keep THEN {} ELSE {t})

Attached(g, k, r) ==
  \E l \in g.docs[k] : l.kind = "includes" /\ TargetKey(g, l) = r

AttachChanges(g, k, r) ==
  LET inclusion == [kind |-> "includes", form |-> "path", at |-> r]
  IN IF k \in DOMAIN g.docs
     THEN Changes(Empty, [d \in {k} |-> g.docs[k] \cup {inclusion}], {})
     ELSE Changes([d \in {k} |-> {inclusion}], Empty, {})

(***************************************************************************)
(* The tools                                                               *)
(***************************************************************************)
Docs == DOMAIN graph.docs

Init ==
  /\ \E docs \in Shelves : graph = Build(docs)
  /\ last = [op |-> "none"]
  /\ steps = 0

\* An operation that consults the names S, then applies the changes c.
Do(op, S, c) ==
  /\ steps < MaxSteps
  /\ steps' = steps + 1
  /\ last' = op
  /\ graph' = Apply(Consult(graph, S), c)

\* iwe_create, iwe_update, and the watcher's: one document, whole.
Write(k, L) == Do([op |-> "write", key |-> k], {}, Changes(Empty, [d \in {k} |-> L], {}))

\* The names that finding the referrers of K and cleaning them consults.
Consulted(K) ==
  NamesOf(graph, ReferrersOf(graph, K)) \cup (UNION {NamesLike(graph, k) : k \in K})

NotNamed(K) == \A k \in K : FrontmatterReferrers(graph, k) \subseteq K

\* delete_command and the delete of iwe_query: every target's changes come from
\* the same graph and are merged, in the order of the targets.
Delete(T) ==
  LET gone == {T[i] : i \in DOMAIN T}
  IN /\ gone \subseteq Docs
     /\ NotNamed(gone)
     /\ Do([op |-> "delete", keys |-> gone], Consulted(gone), MergedDelete(graph, T))

\* iwe_delete applies the change set of its target as it is.
IweDelete(k) ==
  /\ k \in Docs /\ NotNamed({k})
  /\ Do([op |-> "iwe_delete", keys |-> {k}], Consulted({k}), DeleteChanges(graph, k))

Rename(old, new) ==
  /\ old \in Docs /\ new \notin Docs
  /\ Do([op |-> "rename", old |-> old, new |-> new],
        NamesLike(graph, old) \cup NamesOf(graph, RenameAffected(graph, old, new) \cup {old}),
        RenameChanges(graph, old, new))

Extract(k, parts, form) ==
  /\ k \in Docs
  /\ parts # Empty /\ DOMAIN parts \cap Docs = {}
  /\ \A p \in DOMAIN parts : parts[p] \subseteq {l \in graph.docs[k] : l.kind # "field"}
  /\ Do([op |-> "extract", key |-> k, new |-> DOMAIN parts], {},
        ExtractChanges(graph, k, parts, form))

Inline(k, l, keep) ==
  /\ k \in Docs /\ l \in graph.docs[k] /\ l.kind = "includes" /\ Leads(graph, l) # NoKey
  /\ Do([op |-> "inline", key |-> k, target |-> Leads(graph, l), keep |-> keep],
        NamesIn({m \in graph.docs[k] : m.kind = "includes"})
          \cup IF keep THEN {} ELSE Consulted({Leads(graph, l)}),
        InlineChanges(graph, k, l, keep))

Attach(k, r) ==
  /\ r \in Docs /\ (k \in Docs => ~Attached(graph, k, r))
  /\ Do([op |-> "attach", key |-> k],
        IF k \in Docs THEN NamesIn({l \in graph.docs[k] : l.kind = "includes"}) ELSE {},
        AttachChanges(graph, k, r))

\* edge_target_keys: statistics resolve every name of the index.
ReadEdges ==
  /\ graph' = Consult(graph, NamesIn({e.link : e \in graph.edges}))
  /\ last' = [op |-> "read"]
  /\ UNCHANGED steps

\* wiki_display: showing a document shortens the keys its names lead to.
Show(k) ==
  /\ k \in Docs
  /\ LET names == NamesIn(graph.docs[k])
         shown == {Resolution(graph, s).key : s \in {t \in names : Resolution(graph, t).resolved}}
         asked == Consult(graph, names)
     IN graph' = [docs |-> asked.docs, buckets |-> asked.buckets, edges |-> asked.edges,
                  resolved |-> asked.resolved,
                  shortened |-> [s \in DOMAIN asked.shortened \cup shown |->
                                   IF s \in DOMAIN asked.shortened THEN asked.shortened[s]
                                   ELSE Shorten(asked.buckets, s)]]
  /\ last' = [op |-> "read"]
  /\ UNCHANGED steps

\* A server starts, or the command line loads the store.
Load ==
  /\ graph' = Build(graph.docs)
  /\ last' = [op |-> "read"]
  /\ UNCHANGED steps

Targets == {T \in UNION {[1..n -> Docs] : n \in 1..MaxTargets} :
              \A i, j \in DOMAIN T : i # j => T[i] # T[j]}

\* New documents of an extraction: one section or two.
Parts(k) ==
  LET body == {l \in graph.docs[k] : l.kind # "field"}
  IN UNION {[P -> SUBSET body] : P \in {Q \in SUBSET (Key \ Docs) : Cardinality(Q) \in 1..2}}

Next ==
  \/ \E k \in Key, L \in Texts : Write(k, L)
  \/ \E T \in Targets : Delete(T)
  \/ \E k \in Docs : IweDelete(k)
  \/ \E old, new \in Key : Rename(old, new)
  \/ \E k \in Docs, form \in {"path", "name"} : \E parts \in Parts(k) : Extract(k, parts, form)
  \/ \E k \in Docs, keep \in BOOLEAN : \E l \in graph.docs[k] : Inline(k, l, keep)
  \/ \E k, r \in Key : Attach(k, r)
  \/ ReadEdges
  \/ \E k \in Docs : Show(k)
  \/ Load

Spec == Init /\ [][Next]_vars

(***************************************************************************)
(* Properties                                                              *)
(***************************************************************************)
GraphOK(g) ==
  /\ DOMAIN g.docs \subseteq Key
  /\ \A k \in DOMAIN g.docs : g.docs[k] \subseteq Link
  /\ g.edges \subseteq [from : Key, link : Link]
  /\ g.buckets \in [Bucket -> SUBSET Key]
  /\ DOMAIN g.resolved \subseteq Name /\ DOMAIN g.shortened \subseteq Key

TypeOK == GraphOK(graph) /\ steps \in 0..MaxSteps

\* The indexes that operations keep up to date, and the answers the key index
\* remembers over them, are those of a graph built anew from the documents: none
\* of them outlives the keys it was given for.
Exact(g) ==
  LET anew == Build(g.docs)
  IN /\ g.buckets = anew.buckets
     /\ g.edges = anew.edges
     /\ \A s \in DOMAIN g.resolved : g.resolved[s] = Resolve(anew.buckets, s)
     /\ \A k \in DOMAIN g.shortened : g.shortened[k] = Shorten(anew.buckets, k)

IndexIsExact == Exact(graph)

\* Where a link leads among documents, asked of a fresh index.
LeadsIn(docs, l) == Leads(Build(docs), l)

Done(op) == steps' = steps + 1 /\ last'.op = op

\* After a rename every link still leads where it led, the renamed document under
\* its new key: not even a shorter name that the new key takes over, or one whose
\* first choice was the old key, changes its meaning.  Only links that led nowhere
\* may now lead to the new key.
Follows(docs, docs2, old, new) ==
  LET moved(k) == IF k = old THEN new ELSE k
      now(d) == {[kind |-> m.kind, to |-> LeadsIn(docs2, m)] : m \in docs2[moved(d)]}
      then(d) == {[kind |-> l.kind, to |-> moved(LeadsIn(docs, l))] : l \in docs[d]}
  IN /\ DOMAIN docs2 = {moved(d) : d \in DOMAIN docs}
     /\ \A d \in DOMAIN docs :
          /\ \A t \in then(d) : t \in now(d) \/ (t.to = NoKey /\ [t EXCEPT !.to = new] \in now(d))
          /\ \A n \in now(d) : n \in then(d) \/ (n.to = new /\ [n EXCEPT !.to = NoKey] \in then(d))

RenameFollows ==
  [][Done("rename") => Follows(graph.docs, graph.docs', last'.old, last'.new)]_vars

\* A link that leads nowhere after an operation led nowhere before.  The document
\* an inlining changes is exempt when its target goes, and so are the frontmatter
\* fields then.
NothingBreaks ==
  [][\A op \in {"delete", "iwe_delete", "rename", "extract", "inline", "attach"} : Done(op) =>
       \A d \in Docs' : \A m \in graph.docs'[d] :
         \/ LeadsIn(graph.docs', m) # NoKey
         \/ \E e \in Docs : m \in graph.docs[e] /\ LeadsIn(graph.docs, m) = NoKey
         \/ op = "inline" /\ ~last'.keep /\ (d = last'.key \/ m.kind = "field")]_vars
=============================================================================
