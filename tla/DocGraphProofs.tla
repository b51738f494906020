--------------------------- MODULE DocGraphProofs ---------------------------
(***************************************************************************)
(* Proofs about DocGraph, for any segments, keys, names, stores and texts, *)
(* and about the queries over it, for any filters.                         *)
(***************************************************************************)
EXTENDS Query, TLAPS, SequenceTheorems, FiniteSetTheorems, WellFoundedInduction

(***************************************************************************)
(* The key index                                                           *)
(***************************************************************************)
LEMMA MinNat ==
  ASSUME NEW T, T \subseteq Nat, T # {}
  PROVE  \E x \in T : \A y \in T : x <= y
<1>1. PICK x \in T : \A y \in T : ~(<<y, x>> \in OpToRel(<, Nat))
  BY NatLessThanWellFounded, WFMin, Zenon
<1>2. ASSUME NEW y \in T, y < x PROVE FALSE
  <2>1. <<y, x>> \in Nat \X Nat /\ <<y, x>>[1] < <<y, x>>[2]
    BY <1>2
  <2>2. <<y, x>> \in OpToRel(<, Nat)
    BY <2>1, Zenon DEF OpToRel
  <2> QED BY <2>2, <1>1, Zenon
<1> QED BY <1>2

LEMMA Names ==
  /\ Key \subseteq Name
  /\ \A s \in Name : BucketOf(s) \in Bucket /\ s # NoKey /\ s \in Seq(Segment)
BY GraphConstants DEF GraphConstants, Name, Bucket

LEMMA FirstIn ==
  ASSUME NEW B, B \subseteq Key, B # {}
  PROVE  First(B) \in B /\ \A l \in B : Place[First(B)] <= Place[l]
<1> DEFINE T == {Place[k] : k \in B}
<1>1. T \subseteq Nat /\ T # {}
  BY GraphConstants DEF GraphConstants
<1>2. PICK x \in T : \A y \in T : x <= y
  BY <1>1, MinNat
<1>3. \E k \in B : \A l \in B : Place[k] <= Place[l]
  BY <1>2
<1> QED BY <1>3 DEF First

\* A name is resolved within the bucket of its last segment, whatever the others
\* hold, and what it is resolved to is a key there.
LEMMA ResolveLocal ==
  ASSUME NEW b, NEW c, NEW s, b[BucketOf(s)] = c[BucketOf(s)]
  PROVE  Resolve(b, s) = Resolve(c, s)
BY DEF Resolve

LEMMA ResolveIn ==
  ASSUME NEW b \in [Bucket -> SUBSET Key], NEW s \in Name
  PROVE  /\ Resolve(b, s).key \in Name
         /\ Resolve(b, s).resolved => Resolve(b, s).key \in b[BucketOf(s)]
<1> DEFINE B == b[BucketOf(s)]
           fit == Fitting(B, s)
<1>1. B \subseteq Key
  BY Names
<1>2. fit \subseteq B
  BY DEF Fitting
<1>3. CASE fit # {}
  <2>1. Resolve(b, s) = [key |-> First(fit), resolved |-> TRUE]
    BY <1>3 DEF Resolve, Among
  <2>2. First(fit) \in fit
    BY <1>1, <1>2, <1>3, FirstIn
  <2> QED BY <2>1, <2>2, <1>1, <1>2, Names
<1>4. CASE fit = {} /\ B # {}
  <2>1. Resolve(b, s) = [key |-> First(B), resolved |-> TRUE]
    BY <1>4 DEF Resolve, Among
  <2>2. First(B) \in B
    BY <1>1, <1>4, FirstIn
  <2> QED BY <2>1, <2>2, <1>1, Names
<1>5. CASE B = {}
  <2>1. Resolve(b, s) = [key |-> s, resolved |-> FALSE]
    BY <1>5, <1>2 DEF Resolve, Among
  <2> QED BY <2>1
<1> QED BY <1>3, <1>4, <1>5

LEMMA ShortenLocal ==
  ASSUME NEW b, NEW c, NEW k, b[BucketOf(k)] = c[BucketOf(k)]
  PROVE  Shorten(b, k) = Shorten(c, k)
BY DEF Shorten

LEMMA ShortenIn ==
  ASSUME NEW b, NEW k \in Key
  PROVE  Shorten(b, k) \in Name
<1> DEFINE B == b[BucketOf(k)]
           unique == {n \in 1..Len(k) : {l \in B : EndsWithFolded(l, Suffix(k, n))} = {k}}
           least == CHOOSE n \in unique : \A m \in unique : n <= m
<1>1. CASE unique = {}
  BY <1>1, Names DEF Shorten
<1>2. CASE unique # {}
  <2>0. Len(k) \in Nat
    BY Names
  <2>1. \E n \in unique : \A m \in unique : n <= m
    <3>1. unique \subseteq Nat
      BY <2>0
    <3> QED BY <3>1, <1>2, MinNat
  <2>2. least \in 1..Len(k)
    BY <2>1
  <2>3. Shorten(b, k) = Suffix(k, least)
    BY <1>2 DEF Shorten
  <2>4. Suffix(k, least) \in Name
    BY <2>2, GraphConstants DEF GraphConstants, Suffix
  <2> QED BY <2>3, <2>4
<1> QED BY <1>1, <1>2

(***************************************************************************)
(* The graph                                                               *)
(***************************************************************************)
Sound(g) == GraphOK(g) /\ Exact(g)

\* What a document may be made to say.
TextsOK(f) == DOMAIN f \subseteq Key /\ \A k \in DOMAIN f : f[k] \subseteq Link

LEMMA EdgeOf ==
  ASSUME NEW docs, NEW K, NEW e
  PROVE  e \in EdgesOf(docs, K) <=> \E k \in K : \E l \in docs[k] : e = [from |-> k, link |-> l]
BY DEF EdgesOf

\* What Exact says, without the graph built anew.
LEMMA ExactIs ==
  ASSUME NEW g
  PROVE  Exact(g) <=>
           /\ g.buckets = BucketsOf(DOMAIN g.docs)
           /\ g.edges = EdgesOf(g.docs, DOMAIN g.docs)
           /\ \A s \in DOMAIN g.resolved : g.resolved[s] = Resolve(g.buckets, s)
           /\ \A k \in DOMAIN g.shortened : g.shortened[k] = Shorten(g.buckets, k)
<1>1. /\ Build(g.docs).buckets = BucketsOf(DOMAIN g.docs)
      /\ Build(g.docs).edges = EdgesOf(g.docs, DOMAIN g.docs)
  BY DEF Build
<1> QED BY <1>1 DEF Exact

LEMMA InBucket ==
  ASSUME NEW K, K \subseteq Key, NEW k \in Key
  PROVE  k \in BucketsOf(K)[BucketOf(k)] <=> k \in K
BY Names DEF BucketsOf

LEMMA EmptyDomain == DOMAIN Empty = {}
BY DEF Empty

LEMMA BuildSound ==
  ASSUME NEW docs, TextsOK(docs)
  PROVE  Sound(Build(docs))
<1> DEFINE g == Build(docs)
<1>1. /\ g.docs = docs /\ g.buckets = BucketsOf(DOMAIN docs)
      /\ g.edges = EdgesOf(docs, DOMAIN docs)
      /\ DOMAIN g.resolved = {} /\ DOMAIN g.shortened = {}
  BY EmptyDomain DEF Build
<1> HIDE DEF g
<1>2. Exact(g)
  BY <1>1, ExactIs
<1>3. g.edges \subseteq [from : Key, link : Link]
  BY <1>1, EdgeOf DEF TextsOK
<1>4. g.buckets \in [Bucket -> SUBSET Key]
  BY <1>1 DEF BucketsOf, TextsOK
<1>5. GraphOK(g)
  BY <1>1, <1>3, <1>4 DEF GraphOK, TextsOK
<1> QED BY <1>2, <1>5 DEF Sound, g

\* The answers kept when the keys of the buckets B change are still right.
LEMMA KeepRight ==
  ASSUME NEW g, Sound(g), NEW b, NEW B,
         \A c \in Bucket \ B : b[c] = g.buckets[c]
  PROVE  /\ DOMAIN Keep(g.resolved, B) \subseteq Name
         /\ \A s \in DOMAIN Keep(g.resolved, B) : Keep(g.resolved, B)[s] = Resolve(b, s)
         /\ DOMAIN Keep(g.shortened, B) \subseteq Key
         /\ \A k \in DOMAIN Keep(g.shortened, B) : Keep(g.shortened, B)[k] = Shorten(b, k)
<1>1. DOMAIN g.resolved \subseteq Name /\ DOMAIN g.shortened \subseteq Key
  BY DEF Sound, GraphOK
<1>2. ASSUME NEW s \in DOMAIN Keep(g.resolved, B)
      PROVE  s \in Name /\ Keep(g.resolved, B)[s] = Resolve(b, s)
  <2>1. s \in DOMAIN g.resolved /\ BucketOf(s) \notin B /\ Keep(g.resolved, B)[s] = g.resolved[s]
    BY <1>2 DEF Keep
  <2>2. b[BucketOf(s)] = g.buckets[BucketOf(s)]
    BY <2>1, <1>1, Names
  <2>3. g.resolved[s] = Resolve(g.buckets, s)
    BY <2>1, ExactIs DEF Sound
  <2> QED BY <2>1, <2>2, <2>3, <1>1, ResolveLocal
<1>3. ASSUME NEW k \in DOMAIN Keep(g.shortened, B)
      PROVE  k \in Key /\ Keep(g.shortened, B)[k] = Shorten(b, k)
  <2>1. k \in DOMAIN g.shortened /\ BucketOf(k) \notin B /\ Keep(g.shortened, B)[k] = g.shortened[k]
    BY <1>3 DEF Keep
  <2>2. b[BucketOf(k)] = g.buckets[BucketOf(k)]
    BY <2>1, <1>1, Names
  <2>3. g.shortened[k] = Shorten(g.buckets, k)
    BY <2>1, ExactIs DEF Sound
  <2> QED BY <2>1, <2>2, <2>3, <1>1, ShortenLocal
<1> QED BY <1>2, <1>3

LEMMA PutSound ==
  ASSUME NEW g, Sound(g), NEW f, TextsOK(f)
  PROVE  /\ Sound(Put(g, f))
         /\ DOMAIN Put(g, f).docs = DOMAIN f \cup DOMAIN g.docs
<1> DEFINE h == Put(g, f)
           fresh == {k \in DOMAIN f : k \notin g.buckets[BucketOf(k)]}
           touched == {BucketOf(k) : k \in fresh}
<1>1. /\ h.docs = [k \in DOMAIN f \cup DOMAIN g.docs |-> IF k \in DOMAIN f THEN f[k] ELSE g.docs[k]]
      /\ h.buckets = [b \in Bucket |-> g.buckets[b] \cup {k \in fresh : BucketOf(k) = b}]
      /\ h.edges = (g.edges \ EdgesOf(g.docs, DOMAIN f \cap DOMAIN g.docs)) \cup EdgesOf(f, DOMAIN f)
      /\ h.resolved = Keep(g.resolved, touched)
      /\ h.shortened = Keep(g.shortened, touched)
  BY DEF Put
<1>2. /\ DOMAIN g.docs \subseteq Key /\ \A k \in DOMAIN g.docs : g.docs[k] \subseteq Link
      /\ g.buckets = BucketsOf(DOMAIN g.docs)
      /\ g.edges = EdgesOf(g.docs, DOMAIN g.docs)
      /\ DOMAIN f \subseteq Key /\ \A k \in DOMAIN f : f[k] \subseteq Link
  BY ExactIs DEF Sound, GraphOK, TextsOK
<1> HIDE DEF h
<1>3. TextsOK(h.docs) /\ DOMAIN h.docs = DOMAIN f \cup DOMAIN g.docs
  BY <1>1, <1>2 DEF TextsOK
<1>4. fresh = DOMAIN f \ DOMAIN g.docs
  BY <1>2, InBucket
<1>5. h.buckets = BucketsOf(DOMAIN h.docs)
  <2>1. ASSUME NEW b \in Bucket
        PROVE  h.buckets[b] = {k \in DOMAIN h.docs : BucketOf(k) = b}
    <3>1. g.buckets[b] = {k \in DOMAIN g.docs : BucketOf(k) = b}
      BY <1>2 DEF BucketsOf
    <3>2. h.buckets[b] = g.buckets[b] \cup {k \in fresh : BucketOf(k) = b}
      BY <1>1
    <3> QED BY <3>1, <3>2, <1>3, <1>4
  <2> QED BY <2>1, <1>1 DEF BucketsOf
<1>6. h.edges = EdgesOf(h.docs, DOMAIN h.docs)
  <2>1. ASSUME NEW e \in h.edges PROVE e \in EdgesOf(h.docs, DOMAIN h.docs)
    <3>1. CASE e \in EdgesOf(f, DOMAIN f)
      <4>1. PICK k \in DOMAIN f : \E l \in f[k] : e = [from |-> k, link |-> l]
        BY <3>1, EdgeOf
      <4> QED BY <4>1, <1>1, <1>3, EdgeOf
    <3>2. CASE e \in g.edges \ EdgesOf(g.docs, DOMAIN f \cap DOMAIN g.docs)
      <4>1. PICK k \in DOMAIN g.docs : \E l \in g.docs[k] : e = [from |-> k, link |-> l]
        BY <3>2, <1>2, EdgeOf
      <4>2. k \notin DOMAIN f
        BY <3>2, <4>1, EdgeOf
      <4> QED BY <4>1, <4>2, <1>1, <1>3, EdgeOf
    <3> QED BY <2>1, <1>1, <3>1, <3>2
  <2>2. ASSUME NEW e \in EdgesOf(h.docs, DOMAIN h.docs) PROVE e \in h.edges
    <3>1. PICK k \in DOMAIN h.docs : \E l \in h.docs[k] : e = [from |-> k, link |-> l]
      BY <2>2, EdgeOf
    <3>0. PICK l \in h.docs[k] : e = [from |-> k, link |-> l]
      BY <3>1
    <3>2. CASE k \in DOMAIN f
      <4>1. l \in f[k]
        BY <3>0, <3>2, <1>1
      <4> QED BY <3>0, <3>1, <3>2, <4>1, <1>1, EdgeOf
    <3>3. CASE k \notin DOMAIN f
      <4>1. k \in DOMAIN g.docs /\ l \in g.docs[k]
        BY <3>0, <3>1, <3>3, <1>1
      <4>2. e \in g.edges
        BY <3>0, <4>1, <1>2, EdgeOf
      <4>3. e \notin EdgesOf(g.docs, DOMAIN f \cap DOMAIN g.docs)
        <5> SUFFICES ASSUME e \in EdgesOf(g.docs, DOMAIN f \cap DOMAIN g.docs) PROVE FALSE
          OBVIOUS
        <5>1. PICK j \in DOMAIN f \cap DOMAIN g.docs : \E m \in g.docs[j] : e = [from |-> j, link |-> m]
          BY EdgeOf
        <5>2. e.from = k /\ e.from = j
          BY <5>1, <3>0
        <5> QED BY <5>1, <5>2, <3>3
      <4> QED BY <4>2, <4>3, <1>1
    <3> QED BY <3>2, <3>3
  <2> QED BY <2>1, <2>2
<1>7. \A c \in Bucket \ touched : h.buckets[c] = g.buckets[c]
  BY <1>1
<1>8. /\ DOMAIN h.resolved \subseteq Name
      /\ \A s \in DOMAIN h.resolved : h.resolved[s] = Resolve(h.buckets, s)
      /\ DOMAIN h.shortened \subseteq Key
      /\ \A k \in DOMAIN h.shortened : h.shortened[k] = Shorten(h.buckets, k)
  <2> HIDE DEF touched
  <2>1. /\ DOMAIN Keep(g.resolved, touched) \subseteq Name
        /\ \A s \in DOMAIN Keep(g.resolved, touched) :
             Keep(g.resolved, touched)[s] = Resolve(h.buckets, s)
        /\ DOMAIN Keep(g.shortened, touched) \subseteq Key
        /\ \A k \in DOMAIN Keep(g.shortened, touched) :
             Keep(g.shortened, touched)[k] = Shorten(h.buckets, k)
    BY <1>7, KeepRight
  <2> QED BY <2>1, <1>1
<1>9. Exact(h)
  BY <1>5, <1>6, <1>8, ExactIs
<1>10. GraphOK(h)
  <2>1. h.edges \subseteq [from : Key, link : Link]
    BY <1>3, <1>6, EdgeOf DEF TextsOK
  <2>2. h.buckets \in [Bucket -> SUBSET Key]
    BY <1>3, <1>5 DEF BucketsOf, TextsOK
  <2> QED BY <2>1, <2>2, <1>3, <1>8 DEF GraphOK, TextsOK
<1> QED BY <1>3, <1>9, <1>10 DEF Sound, h

LEMMA DropSound ==
  ASSUME NEW g, Sound(g), NEW K, K \subseteq Key
  PROVE  /\ Sound(Drop(g, K))
         /\ DOMAIN Drop(g, K).docs = DOMAIN g.docs \ K
         /\ \A k \in DOMAIN g.docs \ K : Drop(g, K).docs[k] = g.docs[k]
<1> DEFINE h == Drop(g, K)
           touched == {b \in {BucketOf(k) : k \in K} : g.buckets[b] # {}}
<1>1. /\ h.docs = [k \in DOMAIN g.docs \ K |-> g.docs[k]]
      /\ h.buckets = [b \in Bucket |-> g.buckets[b] \ K]
      /\ h.edges = g.edges \ EdgesOf(g.docs, K \cap DOMAIN g.docs)
      /\ h.resolved = Keep(g.resolved, touched)
      /\ h.shortened = Keep(g.shortened, touched)
  BY DEF Drop
<1>2. /\ DOMAIN g.docs \subseteq Key /\ \A k \in DOMAIN g.docs : g.docs[k] \subseteq Link
      /\ g.buckets = BucketsOf(DOMAIN g.docs)
      /\ g.edges = EdgesOf(g.docs, DOMAIN g.docs)
  BY ExactIs DEF Sound, GraphOK
<1> HIDE DEF h
<1>3. TextsOK(h.docs) /\ DOMAIN h.docs = DOMAIN g.docs \ K
  BY <1>1, <1>2 DEF TextsOK
<1>4. h.buckets = BucketsOf(DOMAIN h.docs)
  <2>1. ASSUME NEW b \in Bucket
        PROVE  h.buckets[b] = {k \in DOMAIN h.docs : BucketOf(k) = b}
    BY <1>1, <1>2, <1>3 DEF BucketsOf
  <2> QED BY <2>1, <1>1 DEF BucketsOf
<1>5. h.edges = EdgesOf(h.docs, DOMAIN h.docs)
  <2>1. ASSUME NEW e \in h.edges PROVE e \in EdgesOf(h.docs, DOMAIN h.docs)
    <3>1. e \in g.edges /\ e \notin EdgesOf(g.docs, K \cap DOMAIN g.docs)
      BY <2>1, <1>1
    <3>2. PICK k \in DOMAIN g.docs : \E l \in g.docs[k] : e = [from |-> k, link |-> l]
      BY <3>1, <1>2, EdgeOf
    <3>3. k \notin K
      BY <3>1, <3>2, EdgeOf
    <3> QED BY <3>2, <3>3, <1>1, <1>3, EdgeOf
  <2>2. ASSUME NEW e \in EdgesOf(h.docs, DOMAIN h.docs) PROVE e \in h.edges
    <3>1. PICK k \in DOMAIN h.docs : \E l \in h.docs[k] : e = [from |-> k, link |-> l]
      BY <2>2, EdgeOf
    <3>2. k \in DOMAIN g.docs /\ k \notin K /\ h.docs[k] = g.docs[k] /\ e.from = k
      BY <3>1, <1>1, <1>3
    <3>3. e \in g.edges
      BY <3>1, <3>2, <1>2, EdgeOf
    <3>4. e \notin EdgesOf(g.docs, K \cap DOMAIN g.docs)
      <4> SUFFICES ASSUME e \in EdgesOf(g.docs, K \cap DOMAIN g.docs) PROVE FALSE
        OBVIOUS
      <4>1. PICK j \in K \cap DOMAIN g.docs : \E m \in g.docs[j] : e = [from |-> j, link |-> m]
        BY EdgeOf
      <4>2. e.from = j
        BY <4>1
      <4> QED BY <4>1, <4>2, <3>2
    <3> QED BY <3>3, <3>4, <1>1
  <2> QED BY <2>1, <2>2
<1>6. \A c \in Bucket \ touched : h.buckets[c] = g.buckets[c]
  <2> SUFFICES ASSUME NEW c \in Bucket \ touched, NEW k \in g.buckets[c], k \in K PROVE FALSE
    BY <1>1
  <2>1. BucketOf(k) = c
    BY <1>2 DEF BucketsOf
  <2> QED BY <2>1
<1>7. /\ DOMAIN h.resolved \subseteq Name
      /\ \A s \in DOMAIN h.resolved : h.resolved[s] = Resolve(h.buckets, s)
      /\ DOMAIN h.shortened \subseteq Key
      /\ \A k \in DOMAIN h.shortened : h.shortened[k] = Shorten(h.buckets, k)
  <2> HIDE DEF touched
  <2>1. /\ DOMAIN Keep(g.resolved, touched) \subseteq Name
        /\ \A s \in DOMAIN Keep(g.resolved, touched) :
             Keep(g.resolved, touched)[s] = Resolve(h.buckets, s)
        /\ DOMAIN Keep(g.shortened, touched) \subseteq Key
        /\ \A k \in DOMAIN Keep(g.shortened, touched) :
             Keep(g.shortened, touched)[k] = Shorten(h.buckets, k)
    BY <1>6, KeepRight
  <2> QED BY <2>1, <1>1
<1>8. Exact(h)
  BY <1>4, <1>5, <1>7, ExactIs
<1>9. GraphOK(h)
  <2>1. h.edges \subseteq [from : Key, link : Link]
    BY <1>3, <1>5, EdgeOf DEF TextsOK
  <2>2. h.buckets \in [Bucket -> SUBSET Key]
    BY <1>3, <1>4 DEF BucketsOf, TextsOK
  <2> QED BY <2>1, <2>2, <1>3, <1>7 DEF GraphOK, TextsOK
<1>10. \A k \in DOMAIN g.docs \ K : h.docs[k] = g.docs[k]
  BY <1>1
<1> QED BY <1>3, <1>8, <1>9, <1>10 DEF Sound, h

LEMMA ResolutionRight ==
  ASSUME NEW g, Sound(g), NEW s \in Name
  PROVE  Resolution(g, s) = Resolve(g.buckets, s)
BY ExactIs DEF Sound, Resolution

LEMMA ConsultSound ==
  ASSUME NEW g, Sound(g), NEW S, S \subseteq Name
  PROVE  /\ Sound(Consult(g, S))
         /\ Consult(g, S).docs = g.docs
         /\ Consult(g, S).buckets = g.buckets
         /\ Consult(g, S).edges = g.edges
         /\ Consult(g, S).shortened = g.shortened
<1> DEFINE h == Consult(g, S)
<1>1. /\ h.docs = g.docs /\ h.buckets = g.buckets /\ h.edges = g.edges
      /\ h.shortened = g.shortened
      /\ h.resolved = [s \in DOMAIN g.resolved \cup S |-> Resolution(g, s)]
  BY DEF Consult
<1> HIDE DEF h
<1>2. DOMAIN h.resolved \subseteq Name
  BY <1>1 DEF Sound, GraphOK
<1>3. \A s \in DOMAIN h.resolved : h.resolved[s] = Resolve(h.buckets, s)
  BY <1>1, <1>2, ResolutionRight
<1>4. Exact(h)
  BY <1>1, <1>3, ExactIs DEF Sound
<1>5. GraphOK(h)
  BY <1>1, <1>2 DEF Sound, GraphOK
<1> QED BY <1>1, <1>4, <1>5 DEF Sound, h

(***************************************************************************)
(* Change sets                                                             *)
(***************************************************************************)
ChangesOK(c) == TextsOK(c.creates) /\ TextsOK(c.updates) /\ c.removes \subseteq Key

LEMMA ChangesFields ==
  ASSUME NEW x, NEW y, NEW z
  PROVE  /\ Changes(x, y, z).creates = x /\ Changes(x, y, z).updates = y
         /\ Changes(x, y, z).removes = z
BY DEF Changes

LEMMA EmptyOK == TextsOK(Empty)
BY EmptyDomain DEF TextsOK

LEMMA ApplySound ==
  ASSUME NEW g, Sound(g), NEW c, ChangesOK(c)
  PROVE  Sound(Apply(g, c))
BY DropSound, PutSound DEF ChangesOK, Apply

LEMMA DoSound ==
  ASSUME TypeOK, Sound(graph), NEW op, NEW S, S \subseteq Name, NEW c, ChangesOK(c), Do(op, S, c)
  PROVE  TypeOK' /\ Sound(graph')
<1>1. Sound(Apply(Consult(graph, S), c))
  BY ConsultSound, ApplySound
<1>2. Sound(graph')
  BY <1>1 DEF Do
<1>3. steps' \in 0..MaxSteps
  BY GraphConstants DEF Do, TypeOK, GraphConstants
<1>4. TypeOK'
  BY <1>2, <1>3 DEF TypeOK, Sound
<1> QED BY <1>2, <1>4

LEMMA NamesInLinks ==
  ASSUME NEW L, L \subseteq Link
  PROVE  NamesIn(L) \subseteq Name
<1> SUFFICES ASSUME NEW l \in L, l.form = "name" PROVE l.at \in Name
  BY DEF NamesIn
<1> QED BY Names DEF Link

LEMMA NamesLikeIn ==
  ASSUME NEW g, Sound(g), NEW k
  PROVE  NamesLike(g, k) \subseteq Name
<1>1. {e.link : e \in g.edges} \subseteq Link
  BY DEF Sound, GraphOK
<1> QED BY <1>1, NamesInLinks DEF NamesLike

LEMMA ReferrersIn ==
  ASSUME NEW g, Sound(g), NEW k
  PROVE  Referrers(g, k) \subseteq DOMAIN g.docs
<1> SUFFICES ASSUME NEW e \in g.edges PROVE e.from \in DOMAIN g.docs
  BY DEF Referrers, EdgesTo
<1>1. PICK d \in DOMAIN g.docs : \E l \in g.docs[d] : e = [from |-> d, link |-> l]
  BY ExactIs, EdgeOf DEF Sound
<1> QED BY <1>1

LEMMA ReferrersOfIn ==
  ASSUME NEW g, Sound(g), NEW K
  PROVE  ReferrersOf(g, K) \subseteq DOMAIN g.docs
<1>1. ASSUME NEW k PROVE Referrers(g, k) \subseteq DOMAIN g.docs
  BY ReferrersIn
<1> QED BY <1>1 DEF ReferrersOf

LEMMA NamesOfIn ==
  ASSUME NEW g, Sound(g), NEW D, D \subseteq DOMAIN g.docs
  PROVE  NamesOf(g, D) \subseteq Name
<1>1. ASSUME NEW d \in D PROVE NamesIn(g.docs[d]) \subseteq Name
  BY NamesInLinks DEF Sound, GraphOK
<1> QED BY <1>1 DEF NamesOf

LEMMA ConsultedIn ==
  ASSUME Sound(graph), NEW K
  PROVE  Consulted(K) \subseteq Name
<1>1. ASSUME NEW k PROVE NamesLike(graph, k) \subseteq Name
  BY NamesLikeIn
<1>2. NamesOf(graph, ReferrersOf(graph, K)) \subseteq Name
  BY ReferrersOfIn, NamesOfIn
<1> QED BY <1>1, <1>2 DEF Consulted

(***************************************************************************)
(* What the operations write                                               *)
(***************************************************************************)
LEMMA UnlinkedOK ==
  ASSUME NEW g, Sound(g), NEW d \in DOMAIN g.docs, NEW k
  PROVE  Unlinked(g, d, k) \subseteq Link
BY DEF Unlinked, Sound, GraphOK

LEMMA DeleteOK ==
  ASSUME NEW g, Sound(g), NEW k \in DOMAIN g.docs
  PROVE  ChangesOK(DeleteChanges(g, k))
<1> DEFINE f == [d \in Referrers(g, k) |-> Unlinked(g, d, k)]
<1>1. TextsOK(f)
  BY ReferrersIn, UnlinkedOK DEF TextsOK, Sound, GraphOK
<1>2. k \in Key
  BY DEF Sound, GraphOK
<1> QED BY <1>1, <1>2, EmptyOK, ChangesFields DEF DeleteChanges, ChangesOK

LEMMA MergedDeleteOK ==
  ASSUME NEW g, Sound(g), NEW T, {T[i] : i \in DOMAIN T} \subseteq DOMAIN g.docs
  PROVE  ChangesOK(MergedDelete(g, T))
<1> DEFINE gone == {T[i] : i \in DOMAIN T}
           touches(d) == {i \in DOMAIN T : d \in Referrers(g, T[i])}
           final(d) == CHOOSE i \in touches(d) : \A j \in touches(d) : j <= i
           f == [d \in ReferrersOf(g, gone) \ gone |-> Unlinked(g, d, T[final(d)])]
<1>1. MergedDelete(g, T) = Changes(Empty, f, gone)
  BY DEF MergedDelete
<1> HIDE DEF final, gone
<1>2. TextsOK(f)
  BY ReferrersOfIn, UnlinkedOK DEF TextsOK, Sound, GraphOK
<1>3. gone \subseteq Key
  BY DEF Sound, GraphOK, gone
<1> QED BY <1>1, <1>2, <1>3, EmptyOK, ChangesFields DEF ChangesOK

LEMMA TargetKeyIn ==
  ASSUME NEW g, Sound(g), NEW l \in Link
  PROVE  TargetKey(g, l) \in Name
<1>1. l.at \in Name /\ l.form \in {"path", "name"}
  BY Names DEF Link
<1>2. g.buckets \in [Bucket -> SUBSET Key]
  BY DEF Sound, GraphOK
<1> QED BY <1>1, <1>2, ResolutionRight, ResolveIn DEF TargetKey

LEMMA LinkTo ==
  ASSUME NEW l \in Link
  PROVE  /\ \A k \in Key : To(l, "path", k) \in Link
         /\ l.kind # "field" => \A s \in Name : To(l, "name", s) \in Link
BY DEF Link, To

LEMMA RewriteOK ==
  ASSUME NEW g, Sound(g), NEW a, NEW old \in Key, NEW new \in Key, NEW l \in Link
  PROVE  Rewrite(g, a, old, new, l) \in Link
<1> DEFINE before == TargetKey(g, l)
<1>1. before \in Name
  BY TargetKeyIn
<1>2. before \in g.buckets[BucketOf(before)] => before \in Key
  BY <1>1, Names DEF Sound, GraphOK
<1>3. new \in Name /\ Shorten(a, new) \in Name
  BY ShortenIn, Names
<1>4. before \in Key => Shorten(a, before) \in Name
  BY ShortenIn
<1>5. l.form \in {"path", "name"}
  BY DEF Link
<1>6. CASE l.kind = "field"
  BY <1>6 DEF Rewrite
<1>7. CASE l.kind # "field" /\ l.form = "path"
  BY <1>7, LinkTo DEF Rewrite
<1>8. CASE l.kind # "field" /\ l.form = "name"
  <2>1. \/ Rewrite(g, a, old, new, l) \in {l, To(l, "name", new), To(l, "name", Shorten(a, new))}
        \/ before \in Key /\ Rewrite(g, a, old, new, l) = To(l, "name", Shorten(a, before))
    BY <1>2, <1>8 DEF Rewrite, RewriteName
  <2> QED BY <2>1, <1>3, <1>4, <1>8, LinkTo
<1> QED BY <1>5, <1>6, <1>7, <1>8

LEMMA RenameOK ==
  ASSUME NEW g, Sound(g), NEW old \in DOMAIN g.docs, NEW new \in Key
  PROVE  ChangesOK(RenameChanges(g, old, new))
<1> DEFINE a == BucketsOf((DOMAIN g.docs \ {old}) \cup {new})
           affected == RenameAffected(g, old, new)
           renamed(d) == {Rewrite(g, a, old, new, l) : l \in g.docs[d]}
           text(d) == {Cascade(old, new, l) :
                         l \in IF d \in affected \cup {old} THEN renamed(d) ELSE g.docs[d]}
           created == [d \in {new} |-> text(old)]
           updated == [d \in {x \in DOMAIN g.docs \ {old} : text(x) # g.docs[x]} |-> text(d)]
<1>1. RenameChanges(g, old, new) = Changes(created, updated, {old})
  BY DEF RenameChanges
<1>2. DOMAIN g.docs \subseteq Key /\ \A d \in DOMAIN g.docs : g.docs[d] \subseteq Link
  BY DEF Sound, GraphOK
<1>3. \A l \in Link : Cascade(old, new, l) \in Link
  BY LinkTo DEF Cascade
<1>4. ASSUME NEW d \in DOMAIN g.docs PROVE renamed(d) \subseteq Link
  BY <1>2, RewriteOK
<1> HIDE DEF a, affected, renamed
<1>5. ASSUME NEW d \in DOMAIN g.docs PROVE text(d) \subseteq Link
  BY <1>2, <1>3, <1>4
<1> HIDE DEF text
<1>6. TextsOK(created) /\ TextsOK(updated)
  BY <1>2, <1>5 DEF TextsOK
<1> HIDE DEF created, updated
<1> QED BY <1>1, <1>2, <1>6, ChangesFields DEF ChangesOK

LEMMA ExtractOK ==
  ASSUME NEW g, Sound(g), NEW k \in DOMAIN g.docs, NEW form \in {"path", "name"},
         NEW parts, DOMAIN parts \subseteq Key, \A p \in DOMAIN parts : parts[p] \subseteq g.docs[k]
  PROVE  ChangesOK(ExtractChanges(g, k, parts, form))
<1> DEFINE links == {[kind |-> "includes", form |-> form, at |-> p] : p \in DOMAIN parts}
           rest == g.docs[k] \ UNION {parts[p] : p \in DOMAIN parts}
           updated == [d \in {k} |-> rest \cup links]
<1>1. ExtractChanges(g, k, parts, form) = Changes(parts, updated, {})
  BY DEF ExtractChanges
<1>2. g.docs[k] \subseteq Link /\ k \in Key
  BY DEF Sound, GraphOK
<1>3. links \subseteq Link
  BY Names DEF Link
<1>4. rest \subseteq Link
  BY <1>2
<1> HIDE DEF links, rest
<1>5. TextsOK(parts) /\ TextsOK(updated)
  BY <1>2, <1>3, <1>4 DEF TextsOK
<1> HIDE DEF updated
<1> QED BY <1>1, <1>5, ChangesFields DEF ChangesOK

LEMMA LeadsToDoc ==
  ASSUME NEW g, Sound(g), NEW l \in Link, Leads(g, l) # NoKey
  PROVE  Leads(g, l) \in DOMAIN g.docs
<1>1. l.at \in Name /\ g.buckets = BucketsOf(DOMAIN g.docs)
  BY Names, ExactIs DEF Link, Sound
<1>2. g.buckets \in [Bucket -> SUBSET Key]
  BY DEF Sound, GraphOK
<1>3. CASE l.form = "path"
  <2>1. Leads(g, l) \in g.buckets[BucketOf(l.at)]
    BY <1>3 DEF Leads
  <2> QED BY <2>1, <1>1, Names DEF BucketsOf
<1>4. CASE l.form # "path"
  <2>1. Leads(g, l) = Resolution(g, l.at).key /\ Resolution(g, l.at).resolved
    BY <1>4 DEF Leads
  <2>2. Leads(g, l) \in g.buckets[BucketOf(l.at)]
    BY <2>1, <1>1, <1>2, ResolutionRight, ResolveIn
  <2> QED BY <2>2, <1>1, Names DEF BucketsOf
<1> QED BY <1>3, <1>4

LEMMA InlineOK ==
  ASSUME NEW g, Sound(g), NEW k \in DOMAIN g.docs, NEW l \in g.docs[k], Leads(g, l) # NoKey,
         NEW keep
  PROVE  ChangesOK(InlineChanges(g, k, l, keep))
<1> DEFINE t == Leads(g, l)
           body == {m \in g.docs[t] : m.kind # "field"}
           others == IF keep THEN {} ELSE Referrers(g, t) \ {k, t}
           text(d) == IF d = k THEN (g.docs[k] \ {l}) \cup body ELSE Unlinked(g, d, t)
           updated == [d \in {k} \cup others |-> text(d)]
           gone == IF keep THEN {} ELSE {t}
<1>1. InlineChanges(g, k, l, keep) = Changes(Empty, updated, gone)
  BY DEF InlineChanges
<1>2. DOMAIN g.docs \subseteq Key /\ \A d \in DOMAIN g.docs : g.docs[d] \subseteq Link
  BY DEF Sound, GraphOK
<1>3. t \in DOMAIN g.docs
  BY <1>2, LeadsToDoc
<1> HIDE DEF t
<1>4. {k} \cup others \subseteq DOMAIN g.docs
  BY ReferrersIn
<1> HIDE DEF others
<1>5. ASSUME NEW d \in {k} \cup others PROVE text(d) \subseteq Link
  BY <1>2, <1>3, <1>4, UnlinkedOK
<1> HIDE DEF text
<1>6. TextsOK(updated) /\ gone \subseteq Key
  BY <1>2, <1>3, <1>4, <1>5 DEF TextsOK
<1> HIDE DEF updated, gone
<1> QED BY <1>1, <1>6, EmptyOK, ChangesFields DEF ChangesOK

LEMMA AttachOK ==
  ASSUME NEW g, Sound(g), NEW k \in Key, NEW r \in Key
  PROVE  ChangesOK(AttachChanges(g, k, r))
<1> DEFINE inclusion == [kind |-> "includes", form |-> "path", at |-> r]
           updated == [d \in {k} |-> g.docs[k] \cup {inclusion}]
           created == [d \in {k} |-> {inclusion}]
<1>1. inclusion \in Link
  BY DEF Link
<1> HIDE DEF inclusion
<1>2. TextsOK(created)
  BY <1>1 DEF TextsOK
<1>3. k \in DOMAIN g.docs => TextsOK(updated)
  BY <1>1 DEF TextsOK, Sound, GraphOK
<1>4. AttachChanges(g, k, r) = IF k \in DOMAIN g.docs THEN Changes(Empty, updated, {})
                                                    ELSE Changes(created, Empty, {})
  BY DEF AttachChanges, inclusion
<1> HIDE DEF updated, created
<1> QED BY <1>2, <1>3, <1>4, EmptyOK, ChangesFields DEF ChangesOK

(***************************************************************************)
(* Type correctness and the indexes                                        *)
(***************************************************************************)
IInv == TypeOK /\ Sound(graph)

LEMMA InitSound == Init => IInv
<1> SUFFICES ASSUME Init PROVE IInv
  OBVIOUS
<1>1. PICK docs \in Shelves : graph = Build(docs)
  BY DEF Init
<1>2. TextsOK(docs)
  BY GraphConstants DEF GraphConstants, TextsOK
<1>3. Sound(graph)
  BY <1>1, <1>2, BuildSound
<1>4. steps \in 0..MaxSteps
  BY GraphConstants DEF Init, GraphConstants
<1> QED BY <1>3, <1>4 DEF IInv, TypeOK, Sound

LEMMA RenameConsults ==
  ASSUME Sound(graph), NEW old \in DOMAIN graph.docs, NEW new
  PROVE  NamesLike(graph, old) \cup NamesOf(graph, RenameAffected(graph, old, new) \cup {old})
           \subseteq Name
<1> DEFINE D == RenameAffected(graph, old, new) \cup {old}
<1>1. ASSUME NEW e \in graph.edges PROVE e.from \in DOMAIN graph.docs
  <2>1. PICK d \in DOMAIN graph.docs : \E l \in graph.docs[d] : e = [from |-> d, link |-> l]
    BY ExactIs, EdgeOf DEF Sound
  <2> QED BY <2>1
<1>2. Referrers(graph, old) \subseteq DOMAIN graph.docs
  BY ReferrersIn
<1>3. D \subseteq DOMAIN graph.docs
  BY <1>1, <1>2 DEF RenameAffected
<1> HIDE DEF D
<1>4. NamesOf(graph, D) \subseteq Name
  BY <1>3, NamesOfIn
<1> QED BY <1>4, NamesLikeIn DEF D

LEMMA StepSound == IInv /\ [Next]_vars => IInv'
<1> SUFFICES ASSUME IInv, [Next]_vars PROVE IInv'
  OBVIOUS
<1>0. /\ Sound(graph) /\ TypeOK /\ Docs \subseteq Key
      /\ \A k \in Docs : graph.docs[k] \subseteq Link
  BY DEF IInv, Sound, GraphOK, Docs
<1>i. ASSUME Sound(graph'), UNCHANGED steps PROVE IInv'
  BY <1>0, <1>i DEF IInv, TypeOK, Sound
<1>1. ASSUME NEW k \in Key, NEW L \in Texts, Write(k, L) PROVE IInv'
  <2> DEFINE f == [d \in {k} |-> L]
  <2>1. TextsOK(f)
    BY GraphConstants DEF GraphConstants, TextsOK
  <2>2. ChangesOK(Changes(Empty, f, {}))
    BY <2>1, EmptyOK, ChangesFields DEF ChangesOK
  <2>3. Do([op |-> "write", key |-> k], {}, Changes(Empty, f, {}))
    BY <1>1 DEF Write
  <2> QED BY <1>0, <2>2, <2>3, DoSound DEF IInv
<1>2. ASSUME NEW T \in Targets, Delete(T) PROVE IInv'
  <2> DEFINE gone == {T[i] : i \in DOMAIN T}
  <2>1. gone \subseteq DOMAIN graph.docs
    BY <1>2 DEF Delete, Docs
  <2>2. Do([op |-> "delete", keys |-> gone], Consulted(gone), MergedDelete(graph, T))
    BY <1>2 DEF Delete
  <2>3. ChangesOK(MergedDelete(graph, T))
    BY <1>0, <2>1, MergedDeleteOK
  <2> HIDE DEF gone
  <2>4. Consulted(gone) \subseteq Name
    BY <1>0, ConsultedIn
  <2> QED BY <1>0, <2>2, <2>3, <2>4, DoSound DEF IInv
<1>3. ASSUME NEW k \in Docs, IweDelete(k) PROVE IInv'
  <2>1. Do([op |-> "iwe_delete", keys |-> {k}], Consulted({k}), DeleteChanges(graph, k))
    BY <1>3 DEF IweDelete
  <2>2. ChangesOK(DeleteChanges(graph, k))
    BY <1>0, DeleteOK DEF Docs
  <2>3. Consulted({k}) \subseteq Name
    BY <1>0, ConsultedIn
  <2> QED BY <1>0, <2>1, <2>2, <2>3, DoSound DEF IInv
<1>4. ASSUME NEW old \in Key, NEW new \in Key, Rename(old, new) PROVE IInv'
  <2> DEFINE S == NamesLike(graph, old) \cup NamesOf(graph, RenameAffected(graph, old, new) \cup {old})
  <2>1. old \in DOMAIN graph.docs
    BY <1>4 DEF Rename, Docs
  <2>2. Do([op |-> "rename", old |-> old, new |-> new], S, RenameChanges(graph, old, new))
    BY <1>4 DEF Rename
  <2>3. ChangesOK(RenameChanges(graph, old, new))
    BY <1>0, <2>1, RenameOK
  <2>4. S \subseteq Name
    BY <1>0, <2>1, RenameConsults
  <2> HIDE DEF S
  <2> QED BY <1>0, <2>2, <2>3, <2>4, DoSound DEF IInv
<1>5. ASSUME NEW k \in Docs, NEW form \in {"path", "name"}, NEW parts \in Parts(k),
             Extract(k, parts, form)
      PROVE  IInv'
  <2>1. Do([op |-> "extract", key |-> k, new |-> DOMAIN parts], {}, ExtractChanges(graph, k, parts, form))
    BY <1>5 DEF Extract
  <2>2. \A p \in DOMAIN parts : parts[p] \subseteq graph.docs[k]
    BY <1>5 DEF Extract
  <2>3. DOMAIN parts \subseteq Key
    BY DEF Parts
  <2>4. ChangesOK(ExtractChanges(graph, k, parts, form))
    BY <1>0, <2>2, <2>3, ExtractOK DEF Docs
  <2> QED BY <1>0, <2>1, <2>4, DoSound DEF IInv
<1>6. ASSUME NEW k \in Docs, NEW keep \in BOOLEAN, NEW l \in graph.docs[k], Inline(k, l, keep)
      PROVE  IInv'
  <2> DEFINE S == NamesIn({m \in graph.docs[k] : m.kind = "includes"})
                    \cup IF keep THEN {} ELSE Consulted({Leads(graph, l)})
  <2>1. Do([op |-> "inline", key |-> k, target |-> Leads(graph, l), keep |-> keep], S,
           InlineChanges(graph, k, l, keep))
    BY <1>6 DEF Inline
  <2>2. ChangesOK(InlineChanges(graph, k, l, keep))
    BY <1>0, <1>6, InlineOK DEF Docs, Inline
  <2>3. NamesIn({m \in graph.docs[k] : m.kind = "includes"}) \subseteq Name
    <3>1. {m \in graph.docs[k] : m.kind = "includes"} \subseteq Link
      BY <1>0
    <3> QED BY <3>1, NamesInLinks
  <2>4. Consulted({Leads(graph, l)}) \subseteq Name
    BY <1>0, ConsultedIn
  <2>5. S \subseteq Name
    BY <2>3, <2>4
  <2> HIDE DEF S
  <2> QED BY <1>0, <2>1, <2>2, <2>5, DoSound DEF IInv
<1>7. ASSUME NEW k \in Key, NEW r \in Key, Attach(k, r) PROVE IInv'
  <2> DEFINE L == {l \in graph.docs[k] : l.kind = "includes"}
             S == IF k \in Docs THEN NamesIn(L) ELSE {}
  <2>1. Do([op |-> "attach", key |-> k], S, AttachChanges(graph, k, r))
    BY <1>7 DEF Attach
  <2>2. ChangesOK(AttachChanges(graph, k, r))
    BY <1>0, AttachOK
  <2>3. k \in Docs => L \subseteq Link
    BY <1>0
  <2> HIDE DEF L
  <2>4. S \subseteq Name
    BY <2>3, NamesInLinks
  <2> HIDE DEF S
  <2> QED BY <1>0, <2>1, <2>2, <2>4, DoSound DEF IInv
<1>8. CASE ReadEdges
  <2>1. {e.link : e \in graph.edges} \subseteq Link
    BY <1>0 DEF Sound, GraphOK
  <2>2. NamesIn({e.link : e \in graph.edges}) \subseteq Name
    BY <2>1, NamesInLinks
  <2>3. Sound(graph')
    BY <1>0, <1>8, <2>2, ConsultSound DEF ReadEdges
  <2> QED BY <2>3, <1>8, <1>i DEF ReadEdges
<1>9. ASSUME NEW k \in Docs, Show(k) PROVE IInv'
  <2> DEFINE names == NamesIn(graph.docs[k])
             shown == {Resolution(graph, s).key : s \in {t \in names : Resolution(graph, t).resolved}}
             asked == Consult(graph, names)
  <2>1. names \subseteq Name
    BY <1>0, NamesInLinks
  <2>2. shown \subseteq Key
    <3> SUFFICES ASSUME NEW s \in names, Resolution(graph, s).resolved PROVE Resolution(graph, s).key \in Key
      OBVIOUS
    <3>1. graph.buckets \in [Bucket -> SUBSET Key]
      BY <1>0 DEF Sound, GraphOK
    <3>2. Resolution(graph, s).key \in graph.buckets[BucketOf(s)]
      BY <1>0, <2>1, <3>1, ResolutionRight, ResolveIn
    <3> QED BY <2>1, <3>1, <3>2, Names
  <2>3. /\ graph'.docs = asked.docs /\ graph'.buckets = asked.buckets /\ graph'.edges = asked.edges
        /\ graph'.resolved = asked.resolved
        /\ graph'.shortened = [s \in DOMAIN asked.shortened \cup shown |->
                                 IF s \in DOMAIN asked.shortened THEN asked.shortened[s]
                                 ELSE Shorten(asked.buckets, s)]
    BY <1>9 DEF Show
  <2>4. Sound(asked)
    BY <1>0, <2>1, ConsultSound
  <2> HIDE DEF asked, shown
  <2>5. Exact(asked) /\ GraphOK(asked)
    BY <2>4 DEF Sound
  <2>6. Exact(graph')
    BY <2>3, <2>5, ExactIs
  <2>7. GraphOK(graph')
    BY <2>2, <2>3, <2>5 DEF GraphOK
  <2>8. Sound(graph')
    BY <2>6, <2>7 DEF Sound
  <2>9. UNCHANGED steps
    BY <1>9 DEF Show
  <2> QED BY <2>8, <2>9, <1>i
<1>10. CASE Load
  <2>1. TextsOK(graph.docs)
    BY <1>0 DEF TextsOK, Docs
  <2>2. Sound(graph')
    BY <1>10, <2>1, BuildSound DEF Load
  <2> QED BY <2>2, <1>10, <1>i DEF Load
<1>11. CASE UNCHANGED vars
  BY <1>11 DEF vars, IInv, TypeOK
<1> QED
  BY <1>1, <1>2, <1>3, <1>4, <1>5, <1>6, <1>7, <1>8, <1>9, <1>10, <1>11 DEF Next

\* The graph is well-typed in every reachable state.
THEOREM TypeCorrect == Spec => []TypeOK
<1>1. IInv => TypeOK
  BY DEF IInv
<1> QED BY <1>1, InitSound, StepSound, PTL DEF Spec

\* After any sequence of operations the link index and the buckets, and every
\* answer the key index still remembers, are what a graph built anew from the
\* documents would give.
THEOREM IndexExact == Spec => []IndexIsExact
<1>1. IInv => IndexIsExact
  BY DEF IInv, Sound, IndexIsExact
<1> QED BY <1>1, InitSound, StepSound, PTL DEF Spec

(***************************************************************************)
(* What a name stands for when keys come and go                            *)
(***************************************************************************)
LEMMA FirstIs ==
  ASSUME NEW T, T \subseteq Key, NEW j \in T, \A l \in T : Place[j] <= Place[l]
  PROVE  First(T) = j
<1>1. First(T) \in T /\ Place[First(T)] <= Place[j]
  BY FirstIn
<1>2. Place[First(T)] = Place[j]
  BY <1>1, GraphConstants DEF GraphConstants
<1> QED BY <1>1, <1>2, GraphConstants DEF GraphConstants

\* A key that a name does not stand for can go.
LEMMA RemoveOther ==
  ASSUME NEW B, B \subseteq Key, B # {}, NEW s, NEW k, Among(B, s).key # k
  PROVE  Among(B \ {k}, s) = Among(B, s)
<1> DEFINE C == B \ {k}
           exact(D) == {j \in D : EndsWith(j, s)}
           folded(D) == {j \in D : EndsWithFolded(j, s)}
<1>1. ASSUME NEW T, T \subseteq Key, T # {}, First(T) # k
      PROVE  First(T) \in T \ {k} /\ First(T \ {k}) = First(T)
  <2>1. First(T) \in T /\ \A l \in T : Place[First(T)] <= Place[l]
    BY <1>1, FirstIn
  <2>2. First(T) \in T \ {k}
    BY <1>1, <2>1
  <2> QED BY <1>1, <2>1, <2>2, FirstIs
<1>2. /\ exact(C) = exact(B) \ {k} /\ exact(B) \subseteq Key
      /\ folded(C) = folded(B) \ {k} /\ folded(B) \subseteq Key
  OBVIOUS
<1>3. /\ Fitting(B, s) = IF exact(B) # {} THEN exact(B) ELSE folded(B)
      /\ Fitting(C, s) = IF exact(C) # {} THEN exact(C) ELSE folded(C)
  BY DEF Fitting
<1> HIDE DEF exact, folded
<1>4. CASE exact(B) # {}
  <2>1. Among(B, s) = [key |-> First(exact(B)), resolved |-> TRUE]
    BY <1>3, <1>4 DEF Among
  <2>2. First(exact(B)) # k
    BY <2>1
  <2>3. First(exact(B)) \in exact(B) \ {k} /\ First(exact(B) \ {k}) = First(exact(B))
    BY <1>1, <1>2, <1>4, <2>2
  <2> QED BY <1>2, <1>3, <2>1, <2>3 DEF Among
<1>5. CASE exact(B) = {} /\ folded(B) # {}
  <2>1. Among(B, s) = [key |-> First(folded(B)), resolved |-> TRUE]
    BY <1>3, <1>5 DEF Among
  <2>2. First(folded(B)) # k
    BY <2>1
  <2>3. First(folded(B)) \in folded(B) \ {k} /\ First(folded(B) \ {k}) = First(folded(B))
    BY <1>1, <1>2, <1>5, <2>2
  <2> QED BY <1>2, <1>3, <1>5, <2>1, <2>3 DEF Among
<1>6. CASE exact(B) = {} /\ folded(B) = {}
  <2>1. Among(B, s) = [key |-> First(B), resolved |-> TRUE]
    BY <1>3, <1>6 DEF Among
  <2>2. First(B) # k
    BY <2>1
  <2>3. First(B) \in C /\ First(C) = First(B)
    BY <1>1, <2>2
  <2> QED BY <1>2, <1>3, <1>6, <2>1, <2>3 DEF Among
<1> QED BY <1>4, <1>5, <1>6

\* A full key stands for itself.
LEMMA FullKey ==
  ASSUME NEW K, K \subseteq Key, NEW k \in K
  PROVE  Resolve(BucketsOf(K), k) = [key |-> k, resolved |-> TRUE]
<1> DEFINE B == BucketsOf(K)[BucketOf(k)]
           exact == {j \in B : EndsWith(j, k)}
<1>1. B \subseteq Key /\ k \in B
  BY InBucket, Names DEF BucketsOf
<1>2. k \in Seq(Segment)
  BY Names
<1>3. EndsWith(k, k)
  BY <1>2 DEF EndsWith
<1>4. ASSUME NEW j \in exact PROVE Place[k] <= Place[j]
  <2>1. j \in Seq(Segment) /\ j \in Key /\ Len(k) <= Len(j)
    BY <1>1, Names DEF EndsWith
  <2>2. CASE Len(k) < Len(j)
    BY <2>1, <2>2, GraphConstants DEF GraphConstants
  <2>3. CASE Len(k) = Len(j)
    <3>1. \A i \in 1..Len(k) : j[i] = k[i]
      <4> SUFFICES ASSUME NEW i \in 1..Len(k) PROVE j[i] = k[i]
        OBVIOUS
      <4>1. j[Len(j) - Len(k) + i] = k[i]
        BY DEF EndsWith
      <4>2. Len(j) - Len(k) + i = i
        BY <2>1, <2>3, <1>2
      <4> QED BY <4>1, <4>2
    <3>2. j = k
      BY <3>1, <2>1, <2>3, <1>2, SeqEqual
    <3> QED BY <3>2, GraphConstants DEF GraphConstants
  <2> QED BY <2>1, <2>2, <2>3, <1>2
<1>5. k \in exact /\ exact \subseteq Key
  BY <1>1, <1>3
<1>6. Fitting(B, k) = exact
  BY <1>5 DEF Fitting
<1> HIDE DEF exact
<1>7. First(exact) = k
  BY <1>4, <1>5, FirstIs
<1> HIDE DEF B
<1>8. Among(B, k) = [key |-> k, resolved |-> TRUE]
  BY <1>5, <1>6, <1>7 DEF Among
<1> QED BY <1>8 DEF Resolve, B

LEMMA SuffixOf ==
  ASSUME NEW k \in Key, NEW n \in 1..Len(k)
  PROVE  /\ EndsWith(k, Suffix(k, n))
         /\ BucketOf(Suffix(k, n)) = BucketOf(k)
<1>1. k \in Seq(Segment)
  BY Names
<1>2. /\ Len(Suffix(k, n)) = n
      /\ \A i \in 1..n : Suffix(k, n)[i] = k[Len(k) - n + i]
  BY <1>1 DEF Suffix
<1>3. Suffix(k, n)[n] = k[Len(k)]
  BY <1>1, <1>2
<1> QED BY <1>1, <1>2, <1>3 DEF EndsWith, BucketOf

\* The shortened name of a key stands for the key.
LEMMA ShortenLeads ==
  ASSUME NEW K, K \subseteq Key, NEW k \in K
  PROVE  Resolve(BucketsOf(K), Shorten(BucketsOf(K), k)) = [key |-> k, resolved |-> TRUE]
<1> DEFINE B == BucketsOf(K)[BucketOf(k)]
           unique == {n \in 1..Len(k) : {l \in B : EndsWithFolded(l, Suffix(k, n))} = {k}}
           least == CHOOSE n \in unique : \A m \in unique : n <= m
           s == Suffix(k, least)
<1>1. CASE unique = {}
  BY <1>1, FullKey DEF Shorten
<1>2. CASE unique # {}
  <2>0. Len(k) \in Nat
    BY Names
  <2>1. \E n \in unique : \A m \in unique : n <= m
    <3>1. unique \subseteq Nat
      BY <2>0
    <3> QED BY <3>1, <1>2, MinNat
  <2>2. least \in 1..Len(k) /\ {l \in B : EndsWithFolded(l, s)} = {k}
    BY <2>1
  <2>3. Shorten(BucketsOf(K), k) = s
    BY <1>2 DEF Shorten
  <2> HIDE DEF least
  <2>4. EndsWith(k, s) /\ BucketOf(s) = BucketOf(k)
    BY <2>2, SuffixOf
  <2> HIDE DEF s
  <2>5. k \in B /\ B \subseteq Key
    BY InBucket, Names DEF BucketsOf
  <2>6. \A l \in B : EndsWith(l, s) => EndsWithFolded(l, s)
    BY DEF EndsWith, EndsWithFolded
  <2> HIDE DEF B
  <2>7. {l \in B : EndsWith(l, s)} = {k}
    BY <2>2, <2>4, <2>5, <2>6
  <2>8. Fitting(B, s) = {k}
    BY <2>7 DEF Fitting
  <2>9. First({k}) = k
    BY DEF First
  <2>10. Among(B, s) = [key |-> k, resolved |-> TRUE]
    BY <2>8, <2>9 DEF Among
  <2> QED BY <2>3, <2>4, <2>10 DEF Resolve, B
<1> QED BY <1>1, <1>2

(***************************************************************************)
(* Renaming                                                                *)
(***************************************************************************)

\* Where a link leads when the documents are K.
Goes(K, l) ==
  IF l.form = "path" THEN IF l.at \in K THEN l.at ELSE NoKey
  ELSE IF Resolve(BucketsOf(K), l.at).resolved THEN Resolve(BucketsOf(K), l.at).key ELSE NoKey

Moved(k, old, new) == IF k = old THEN new ELSE k
Becomes(K, old, new) == (K \ {old}) \cup {new}

\* What rename makes of a link of the document d.
Renamed(g, old, new, d, l) ==
  Cascade(old, new,
          IF d \in RenameAffected(g, old, new) \cup {old}
          THEN Rewrite(g, BucketsOf(Becomes(DOMAIN g.docs, old, new)), old, new, l)
          ELSE l)

LEMMA LeadsInIs ==
  ASSUME NEW docs, DOMAIN docs \subseteq Key, NEW l \in Link
  PROVE  LeadsIn(docs, l) = Goes(DOMAIN docs, l)
<1> DEFINE g == Build(docs)
<1>1. g.buckets = BucketsOf(DOMAIN docs) /\ DOMAIN g.resolved = {}
  BY EmptyDomain DEF Build
<1> HIDE DEF g
<1>2. \A s : Resolution(g, s) = Resolve(BucketsOf(DOMAIN docs), s)
  BY <1>1 DEF Resolution
<1>3. l.form = "path" => l.at \in Key
  BY DEF Link
<1>4. l.form = "path" => (l.at \in BucketsOf(DOMAIN docs)[BucketOf(l.at)] <=> l.at \in DOMAIN docs)
  BY <1>3, InBucket
<1>5. Leads(g, l) = Goes(DOMAIN docs, l)
  BY <1>1, <1>2, <1>4 DEF Leads, Goes
<1> QED BY <1>5 DEF LeadsIn, g

\* A name that stands for neither key does not notice the renaming.
LEMMA NameStays ==
  ASSUME NEW K, K \subseteq Key, NEW old \in K, NEW new \in Key \ K, NEW s \in Name,
         Resolve(BucketsOf(K), s).resolved,
         Resolve(BucketsOf(K), s).key # old,
         Resolve(BucketsOf(Becomes(K, old, new)), s).key # new
  PROVE  Resolve(BucketsOf(Becomes(K, old, new)), s) = Resolve(BucketsOf(K), s)
<1> DEFINE B == BucketsOf(K)[BucketOf(s)]
           A == BucketsOf(Becomes(K, old, new))[BucketOf(s)]
<1>1. /\ B = {k \in K : BucketOf(k) = BucketOf(s)}
      /\ A = {k \in Becomes(K, old, new) : BucketOf(k) = BucketOf(s)}
  BY Names DEF BucketsOf
<1>2. B \subseteq Key /\ A \subseteq Key /\ B \ {old} = A \ {new}
  BY <1>1 DEF Becomes
<1> HIDE DEF A, B
<1>3. Among(B, s).key # old /\ Among(A, s).key # new /\ Among(B, s).resolved
  BY DEF Resolve, A, B
<1>4. B # {}
  BY <1>3 DEF Among, Fitting
<1>5. Among(B \ {old}, s) = Among(B, s)
  BY <1>2, <1>3, <1>4, RemoveOther
<1>6. A # {}
  <2>1. A = {} => B \ {old} = {}
    BY <1>2
  <2>2. Among({}, s).resolved = FALSE
    BY DEF Among, Fitting
  <2> QED BY <1>3, <1>5, <2>1, <2>2
<1>7. Among(A \ {new}, s) = Among(A, s)
  BY <1>2, <1>3, <1>6, RemoveOther
<1> QED BY <1>2, <1>5, <1>7 DEF Resolve, A, B

LEMMA ResolvedIs ==
  ASSUME NEW K, K \subseteq Key, NEW s \in Name
  PROVE  LET r == Resolve(BucketsOf(K), s)
             B == BucketsOf(K)[BucketOf(s)]
         IN /\ r.resolved \in BOOLEAN
            /\ r.resolved <=> B # {}
            /\ r.resolved => r.key \in B
            /\ ~r.resolved => r.key = s
            /\ B \subseteq K
<1> DEFINE r == Resolve(BucketsOf(K), s)
           B == BucketsOf(K)[BucketOf(s)]
<1>1. BucketsOf(K) \in [Bucket -> SUBSET Key] /\ B \subseteq K
  BY Names DEF BucketsOf
<1>2. r.resolved => r.key \in B
  BY <1>1, ResolveIn
<1>3. r.resolved \in BOOLEAN /\ (r.resolved <=> B # {}) /\ (~r.resolved => r.key = s)
  BY DEF Resolve, Among, Fitting
<1> QED BY <1>1, <1>2, <1>3

\* Every single link follows, and keeps its kind.
LEMMA LinkFollows ==
  ASSUME NEW g, Sound(g), NEW old \in DOMAIN g.docs, NEW new \in Key \ DOMAIN g.docs,
         NEW d \in DOMAIN g.docs, NEW l \in g.docs[d]
  PROVE  LET D == DOMAIN g.docs
             m == Renamed(g, old, new, d, l)
         IN /\ m.kind = l.kind
            /\ \/ Goes(Becomes(D, old, new), m) = Moved(Goes(D, l), old, new)
               \/ Goes(D, l) = NoKey /\ Goes(Becomes(D, old, new), m) = new
<1> DEFINE D == DOMAIN g.docs
           K == Becomes(D, old, new)
           m == Renamed(g, old, new, d, l)
           affected == d \in RenameAffected(g, old, new) \cup {old}
           to == Goes(D, l)
           Goal == /\ m.kind = l.kind
                   /\ \/ Goes(K, m) = Moved(to, old, new)
                      \/ to = NoKey /\ Goes(K, m) = new
<1> SUFFICES Goal
  OBVIOUS
<1>1. /\ D \subseteq Key /\ g.docs[d] \subseteq Link /\ l \in Link
      /\ g.buckets = BucketsOf(D)
      /\ [from |-> d, link |-> l] \in g.edges
  BY ExactIs, EdgeOf DEF Sound, GraphOK
<1>2. /\ K \subseteq Key /\ new \in K /\ old \in Key /\ NoKey \notin Key /\ old # new
      /\ \A k \in Key : k \in K <=> (k = new \/ (k \in D /\ k # old))
  BY <1>1, Names DEF Becomes
<1>3. /\ l.form \in {"path", "name"} /\ l.at \in Name
      /\ l.form = "path" => l.at \in Key
      /\ l.kind = "field" => l.form = "path"
  BY <1>1, Names DEF Link
\* A document that is not touched holds no link to the old key.
<1>4. ASSUME ~affected, l.kind # "field"
      PROVE  TargetKey(g, l) # old /\ (l.form = "name" => BucketOf(l.at) # BucketOf(new))
  <2> DEFINE e == [from |-> d, link |-> l]
  <2>1. e \in g.edges /\ e.from = d /\ e.link = l
    BY <1>1
  <2> HIDE DEF e
  <2>2. d # old /\ d \notin RenameAffected(g, old, new)
    BY <1>4
  <2>3. d \notin Referrers(g, old)
    BY <2>2 DEF RenameAffected
  <2>4. TargetKey(g, l) # old
    BY <2>1, <2>3, <1>4 DEF Referrers, EdgesTo
  <2>5. l.form = "name" => BucketOf(l.at) # BucketOf(new)
    BY <2>1, <2>2 DEF RenameAffected
  <2> QED BY <2>4, <2>5
<1>5. CASE l.form = "path"
  <2>1. m = IF l.at = old THEN To(l, "path", new) ELSE l
    <3>1. CASE l.kind = "field"
      BY <3>1 DEF Renamed, Cascade, Rewrite
    <3>2. CASE l.kind # "field" /\ affected
      BY <3>2, <1>5 DEF Renamed, Cascade, Rewrite, To
    <3>3. CASE l.kind # "field" /\ ~affected
      <4>1. l.at # old
        BY <1>4, <1>5, <3>3 DEF TargetKey
      <4> QED BY <4>1, <3>3 DEF Renamed, Cascade
    <3> QED BY <3>1, <3>2, <3>3
  <2>2. to = IF l.at \in D THEN l.at ELSE NoKey
    BY <1>5 DEF Goes
  <2>3. CASE l.at = old
    <3>1. m.kind = l.kind /\ m.form = "path" /\ m.at = new
      BY <2>1, <2>3 DEF To
    <3>2. Goes(K, m) = new /\ to = old
      BY <3>1, <2>2, <2>3, <1>2 DEF Goes
    <3> QED BY <3>1, <3>2 DEF Moved
  <2>4. CASE l.at # old
    <3>1. m = l
      BY <2>1, <2>4
    <3> HIDE DEF m
    <3>2. Goes(K, m) = IF l.at \in K THEN l.at ELSE NoKey
      BY <3>1, <1>5 DEF Goes
    <3>3. l.at \in K <=> (l.at = new \/ l.at \in D)
      BY <2>4, <1>2, <1>3, <1>5
    <3>4. old # NoKey
      BY <1>2
    <3> HIDE DEF K, D
    <3> QED BY <2>2, <2>4, <3>1, <3>2, <3>3, <3>4 DEF Moved
  <2> QED BY <2>3, <2>4
<1>6. CASE l.form = "name"
  <2> DEFINE s == l.at
             r == Resolve(BucketsOf(D), s)
             t == Resolve(BucketsOf(K), s)
  <2>1. s \in Name /\ l.kind # "field" /\ l.kind \in {"includes", "refers"}
    BY <1>1, <1>3, <1>6 DEF Link
  <2>2. to = IF r.resolved THEN r.key ELSE NoKey
    BY <1>6 DEF Goes
  <2>3. TargetKey(g, l) = r.key
    BY <1>1, <1>6, <2>1, ResolutionRight DEF TargetKey
  <2>4. /\ r.resolved \in BOOLEAN /\ (r.resolved => r.key \in D)
        /\ ~r.resolved => r.key = s /\ BucketsOf(D)[BucketOf(s)] = {}
    BY <1>1, <2>1, ResolvedIs
  <2>5. r.key \in Name /\ (r.key \in g.buckets[BucketOf(r.key)] <=> r.resolved)
    <3>1. r.key \in Name
      BY <1>1, <2>1, <2>4, Names
    <3>2. r.resolved => r.key \in g.buckets[BucketOf(r.key)]
      BY <1>1, <2>4, InBucket
    <3>3. ~r.resolved => r.key \notin g.buckets[BucketOf(r.key)]
      BY <1>1, <2>4
    <3> QED BY <3>1, <3>2, <3>3, <2>4
  \* The name as it stands, asked among the keys after the renaming.
  <2>6. ASSUME r.key # old, t.key # new \/ ~r.resolved
        PROVE  \/ Goes(K, l) = Moved(to, old, new)
               \/ to = NoKey /\ Goes(K, l) = new
    <3>1. Goes(K, l) = IF t.resolved THEN t.key ELSE NoKey
      BY <1>6 DEF Goes
    <3>2. CASE r.resolved
      <4>1. t = r
        <5> HIDE DEF D
        <5> QED BY <1>1, <2>1, <2>6, <3>2, NameStays DEF D
      <4> QED BY <4>1, <3>1, <3>2, <2>2, <2>6 DEF Moved
    <3>3. CASE ~r.resolved
      <4>1. to = NoKey /\ Moved(to, old, new) = NoKey
        BY <3>3, <2>2, <1>2 DEF Moved
      <4>2. t.resolved \in BOOLEAN /\ (t.resolved => t.key \in BucketsOf(K)[BucketOf(s)])
        BY <1>2, <2>1, ResolvedIs
      <4>3. BucketsOf(K)[BucketOf(s)] \subseteq {new}
        BY <2>1, <2>4, <3>3, Names DEF BucketsOf, Becomes
      <4> QED BY <4>1, <4>2, <4>3, <3>1
    <3> QED BY <3>2, <3>3, <2>4
  <2>7. CASE ~affected
    <3>1. m = l
      BY <2>1, <2>7 DEF Renamed, Cascade
    <3>2. r.key # old /\ BucketOf(s) # BucketOf(new)
      BY <1>4, <1>6, <2>1, <2>3, <2>7
    <3>3. r.resolved => t.key # new
      <4>1. BucketsOf(K)[BucketOf(s)] = BucketsOf(D)[BucketOf(s)] \ {old}
        BY <2>1, <3>2, Names DEF BucketsOf, Becomes
      <4>2. t.resolved \in BOOLEAN /\ (t.resolved => t.key \in BucketsOf(K)[BucketOf(s)])
            /\ (~t.resolved => t.key = s)
        BY <1>2, <2>1, ResolvedIs
      <4>3. new \notin BucketsOf(K)[BucketOf(s)]
        BY <2>1, <3>2, Names DEF BucketsOf
      <4> QED BY <4>2, <4>3, <3>2
    <3> HIDE DEF m, r, t, to
    <3> QED BY <3>1, <3>2, <3>3, <2>4, <2>6
  <2>8. CASE affected
    <3>0. m = RewriteName(g, BucketsOf(K), old, new, l)
      <4>1. Rewrite(g, BucketsOf(K), old, new, l) = RewriteName(g, BucketsOf(K), old, new, l)
        BY <1>6, <2>1 DEF Rewrite
      <4>2. RewriteName(g, BucketsOf(K), old, new, l).kind = l.kind
        BY DEF RewriteName, To
      <4> QED BY <4>1, <4>2, <2>1, <2>8 DEF Renamed, Cascade
    <3>1. CASE r.key = old
      <4>1. r.resolved /\ to = old
        <5>1. old \in g.buckets[BucketOf(old)]
          BY <1>1, InBucket
        <5> QED BY <3>1, <5>1, <2>2, <2>5
      <4>2. Moved(to, old, new) = new
        BY <4>1 DEF Moved
      <4> DEFINE fit == Fitting(BucketsOf(K)[BucketOf(s)], s)
      <4>3. CASE fit # {} /\ First(fit) = new
        <5>1. m = l
          BY <3>0, <3>1, <4>3, <2>3 DEF RewriteName
        <5>2. t = [key |-> new, resolved |-> TRUE]
          BY <4>3 DEF Resolve, Among
        <5>3. Goes(K, l) = new
          BY <5>2, <1>6 DEF Goes
        <5> HIDE DEF m, to, K
        <5> QED BY <5>1, <5>3, <4>2
      <4>4. CASE ~(fit # {} /\ First(fit) = new)
        <5> DEFINE w == IF Len(s) >= Len(old) THEN new ELSE Shorten(BucketsOf(K), new)
        <5>1. m = To(l, "name", w)
          BY <3>0, <3>1, <4>4, <2>3 DEF RewriteName
        <5>2. Resolve(BucketsOf(K), w) = [key |-> new, resolved |-> TRUE]
          BY <1>2, FullKey, ShortenLeads
        <5> HIDE DEF w
        <5>3. m.kind = l.kind /\ m.form = "name" /\ m.at = w
          BY <5>1 DEF To
        <5>4. Goes(K, m) = new
          BY <5>2, <5>3 DEF Goes
        <5> HIDE DEF m, to, K
        <5> QED BY <5>3, <5>4, <4>2
      <4> QED BY <4>3, <4>4
    <3>2. CASE r.key # old /\ r.resolved /\ t.key = new
      <4>1. m = To(l, "name", Shorten(BucketsOf(K), r.key))
        BY <3>0, <3>2, <2>3, <2>5 DEF RewriteName
      <4>2. r.key \in K
        BY <1>1, <1>2, <2>4, <3>2
      <4>3. Resolve(BucketsOf(K), Shorten(BucketsOf(K), r.key)) = [key |-> r.key, resolved |-> TRUE]
        BY <1>2, <4>2, ShortenLeads
      <4>4. m.kind = l.kind /\ m.form = "name" /\ m.at = Shorten(BucketsOf(K), r.key)
        BY <4>1 DEF To
      <4>5. Goes(K, m) = r.key
        BY <4>3, <4>4 DEF Goes
      <4>6. to = r.key
        BY <2>2, <3>2
      <4> HIDE DEF m, to, K, r
      <4> QED BY <4>4, <4>5, <4>6, <3>2 DEF Moved
    <3>3. CASE r.key # old /\ ~(r.resolved /\ t.key = new)
      <4>1. m = l
        BY <3>0, <3>3, <2>3, <2>5 DEF RewriteName
      <4> HIDE DEF m, to, K, r, t
      <4> QED BY <4>1, <3>3, <2>6
    <3> QED BY <3>1, <3>2, <3>3
  <2> QED BY <2>7, <2>8
<1> QED BY <1>3, <1>5, <1>6

\* The documents after a rename.
LEMMA RenamedDocs ==
  ASSUME NEW g, Sound(g), NEW old \in DOMAIN g.docs, NEW new \in Key \ DOMAIN g.docs,
         NEW S, S \subseteq Name
  PROVE  LET docs2 == Apply(Consult(g, S), RenameChanges(g, old, new)).docs
         IN /\ DOMAIN docs2 = Becomes(DOMAIN g.docs, old, new)
            /\ \A d \in DOMAIN g.docs :
                 docs2[Moved(d, old, new)] = {Renamed(g, old, new, d, l) : l \in g.docs[d]}
<1> DEFINE D == DOMAIN g.docs
           a == BucketsOf((D \ {old}) \cup {new})
           affected == RenameAffected(g, old, new)
           renamed(d) == {Rewrite(g, a, old, new, l) : l \in g.docs[d]}
           text(d) == {Cascade(old, new, l) :
                         l \in IF d \in affected \cup {old} THEN renamed(d) ELSE g.docs[d]}
           created == [d \in {new} |-> text(old)]
           changed == {x \in D \ {old} : text(x) # g.docs[x]}
           updated == [d \in changed |-> text(d)]
           h == Consult(g, S)
           docs2 == Apply(h, RenameChanges(g, old, new)).docs
<1>1. RenameChanges(g, old, new) = Changes(created, updated, {old})
  BY DEF RenameChanges
<1>2. ASSUME NEW d PROVE text(d) = {Renamed(g, old, new, d, l) : l \in g.docs[d]}
  <2>1. CASE d \in affected \cup {old}
    <3>1. Becomes(D, old, new) = (D \ {old}) \cup {new}
      BY DEF Becomes
    <3>2. \A l : Renamed(g, old, new, d, l) = Cascade(old, new, Rewrite(g, a, old, new, l))
      BY <2>1, <3>1 DEF Renamed
    <3> QED BY <2>1, <3>2
  <2>2. CASE d \notin affected \cup {old}
    <3>2. \A l : Renamed(g, old, new, d, l) = Cascade(old, new, l)
      BY <2>2 DEF Renamed
    <3> QED BY <2>2, <3>2
  <2> QED BY <2>1, <2>2
<1> HIDE DEF text
<1>3. DOMAIN created = {new} /\ created[new] = text(old)
      /\ DOMAIN updated = changed /\ \A d \in changed : updated[d] = text(d)
  OBVIOUS
<1> HIDE DEF created, updated
<1>4. h.docs = g.docs
  BY ConsultSound
<1> HIDE DEF h
<1>5. docs2 = Put(Put(Drop(h, {old}), created), updated).docs
  BY <1>1, ChangesFields DEF Apply
<1>6. Drop(h, {old}).docs = [k \in D \ {old} |-> g.docs[k]]
  BY <1>4 DEF Drop
<1>7. Put(Drop(h, {old}), created).docs
        = [k \in {new} \cup (D \ {old}) |-> IF k \in {new} THEN text(old) ELSE g.docs[k]]
  <2> DEFINE w == Drop(h, {old})
  <2>1. Put(w, created).docs = [k \in DOMAIN created \cup DOMAIN w.docs |->
                                  IF k \in DOMAIN created THEN created[k] ELSE w.docs[k]]
    BY DEF Put
  <2>2. DOMAIN w.docs = D \ {old} /\ \A k \in D \ {old} : w.docs[k] = g.docs[k]
    BY <1>6
  <2> HIDE DEF w
  <2>3. Put(w, created).docs
          = [k \in {new} \cup (D \ {old}) |-> IF k \in {new} THEN text(old) ELSE g.docs[k]]
    BY <2>1, <2>2, <1>3
  <2> QED BY <2>3 DEF w
<1>8. docs2 = [k \in changed \cup ({new} \cup (D \ {old})) |->
                 IF k \in changed THEN text(k) ELSE IF k \in {new} THEN text(old) ELSE g.docs[k]]
  <2> DEFINE w == Put(Drop(h, {old}), created)
  <2>1. Put(w, updated).docs = [k \in DOMAIN updated \cup DOMAIN w.docs |->
                                  IF k \in DOMAIN updated THEN updated[k] ELSE w.docs[k]]
    BY DEF Put
  <2>2. DOMAIN w.docs = {new} \cup (D \ {old})
        /\ \A k \in {new} \cup (D \ {old}) : w.docs[k] = IF k \in {new} THEN text(old) ELSE g.docs[k]
    BY <1>7
  <2> HIDE DEF w, docs2
  <2>3. docs2 = Put(w, updated).docs
    BY <1>5 DEF w
  <2> QED BY <2>1, <2>2, <2>3, <1>3
<1> HIDE DEF docs2
<1>9. DOMAIN docs2 = Becomes(D, old, new)
  BY <1>8 DEF Becomes
<1>10. ASSUME NEW d \in D PROVE docs2[Moved(d, old, new)] = text(d)
  <2>1. CASE d = old
    BY <2>1, <1>8 DEF Moved
  <2>2. CASE d # old
    BY <2>2, <1>8 DEF Moved
  <2> QED BY <2>1, <2>2
<1> QED BY <1>2, <1>9, <1>10 DEF docs2, h

LEMMA RenameStep ==
  ASSUME IInv, NEW old \in Key, NEW new \in Key, Rename(old, new)
  PROVE  Follows(graph.docs, graph.docs', old, new)
<1> DEFINE docs == graph.docs
           docs2 == graph'.docs
           D == DOMAIN docs
           S == NamesLike(graph, old) \cup NamesOf(graph, RenameAffected(graph, old, new) \cup {old})
           m(d, l) == Renamed(graph, old, new, d, l)
           now(d) == {[kind |-> x.kind, to |-> LeadsIn(docs2, x)] : x \in docs2[Moved(d, old, new)]}
           then(d) == {[kind |-> l.kind, to |-> Moved(LeadsIn(docs, l), old, new)] : l \in docs[d]}
<1>1. /\ Sound(graph) /\ D \subseteq Key /\ \A d \in D : docs[d] \subseteq Link
      /\ old \in D /\ new \notin D /\ old # NoKey
  BY Names DEF IInv, Sound, GraphOK, Rename, Docs
<1>2. Do([op |-> "rename", old |-> old, new |-> new], S, RenameChanges(graph, old, new))
  BY DEF Rename
<1>3. S \subseteq Name
  BY <1>1, RenameConsults
<1>4. graph' = Apply(Consult(graph, S), RenameChanges(graph, old, new))
  BY <1>2 DEF Do
<1> HIDE DEF S
<1>5. /\ DOMAIN docs2 = Becomes(D, old, new)
      /\ \A d \in D : docs2[Moved(d, old, new)] = {m(d, l) : l \in docs[d]}
  BY <1>1, <1>3, <1>4, RenamedDocs
<1>6. Sound(graph')
  BY <1>1, <1>3, <1>4, ConsultSound, RenameOK, ApplySound
<1>7. DOMAIN docs2 \subseteq Key /\ \A k \in DOMAIN docs2 : docs2[k] \subseteq Link
  BY <1>6 DEF Sound, GraphOK
<1>8. \A d \in D : Moved(d, old, new) \in DOMAIN docs2
  BY <1>5 DEF Moved, Becomes
<1> HIDE DEF docs2, m
<1>9. ASSUME NEW d \in D, NEW l \in docs[d]
      PROVE  /\ m(d, l) \in docs2[Moved(d, old, new)] /\ m(d, l).kind = l.kind
             /\ \/ LeadsIn(docs2, m(d, l)) = Moved(LeadsIn(docs, l), old, new)
                \/ LeadsIn(docs, l) = NoKey /\ LeadsIn(docs2, m(d, l)) = new
  <2>1. m(d, l) \in docs2[Moved(d, old, new)]
    BY <1>5
  <2>2. m(d, l) \in Link /\ l \in Link
    BY <2>1, <1>1, <1>7, <1>8
  <2>3. LeadsIn(docs2, m(d, l)) = Goes(Becomes(D, old, new), m(d, l))
    BY <2>2, <1>5, <1>7, LeadsInIs
  <2>4. LeadsIn(docs, l) = Goes(D, l)
    BY <2>2, <1>1, LeadsInIs
  <2>5. /\ m(d, l).kind = l.kind
        /\ \/ Goes(Becomes(D, old, new), m(d, l)) = Moved(Goes(D, l), old, new)
           \/ Goes(D, l) = NoKey /\ Goes(Becomes(D, old, new), m(d, l)) = new
    BY <1>1, LinkFollows DEF m
  <2> QED BY <2>1, <2>3, <2>4, <2>5
<1>10. ASSUME NEW d \in D, NEW t \in then(d)
       PROVE  t \in now(d) \/ (t.to = NoKey /\ [t EXCEPT !.to = new] \in now(d))
  <2>1. PICK l \in docs[d] : t = [kind |-> l.kind, to |-> Moved(LeadsIn(docs, l), old, new)]
    BY <1>10
  <2>2. [kind |-> l.kind, to |-> LeadsIn(docs2, m(d, l))] \in now(d)
    BY <1>9
  <2>3. [t EXCEPT !.to = new] = [kind |-> l.kind, to |-> new]
    BY <2>1
  <2>4. LeadsIn(docs, l) = NoKey => t.to = NoKey
    BY <2>1, <1>1 DEF Moved
  <2> HIDE DEF now, then
  <2> QED BY <2>1, <2>2, <2>3, <2>4, <1>9
<1>11. ASSUME NEW d \in D, NEW n \in now(d)
       PROVE  n \in then(d) \/ (n.to = new /\ [n EXCEPT !.to = NoKey] \in then(d))
  <2>1. PICK x \in docs2[Moved(d, old, new)] : n = [kind |-> x.kind, to |-> LeadsIn(docs2, x)]
    BY <1>11
  <2>2. PICK l \in docs[d] : x = m(d, l)
    BY <2>1, <1>5
  <2>3. [kind |-> l.kind, to |-> Moved(LeadsIn(docs, l), old, new)] \in then(d)
    OBVIOUS
  <2>4. [n EXCEPT !.to = NoKey] = [kind |-> l.kind, to |-> NoKey]
    BY <2>1, <2>2, <1>9
  <2>5. LeadsIn(docs, l) = NoKey => Moved(LeadsIn(docs, l), old, new) = NoKey
    BY <1>1 DEF Moved
  <2>6. n.to = LeadsIn(docs2, x)
    BY <2>1
  <2> HIDE DEF now, then
  <2> QED BY <2>1, <2>2, <2>3, <2>4, <2>5, <2>6, <1>9
<1>12. DOMAIN docs2 = {Moved(d, old, new) : d \in D}
  BY <1>1, <1>5 DEF Moved, Becomes
<1> HIDE DEF now, then
<1>13. Follows(docs, docs2, old, new)
  BY <1>10, <1>11, <1>12 DEF Follows, Moved, now, then
<1> QED BY <1>13 DEF docs2

LEMMA OnlyRename ==
  ASSUME Next, Done("rename")
  PROVE  \E old, new \in Key : Rename(old, new) /\ last'.old = old /\ last'.new = new
<1>0. last'.op = "rename"
  BY DEF Done
<1>1. ASSUME NEW k \in Key, NEW L \in Texts, Write(k, L) PROVE FALSE
  BY <1>0, <1>1 DEF Write, Do
<1>2. ASSUME NEW T \in Targets, Delete(T) PROVE FALSE
  BY <1>0, <1>2 DEF Delete, Do
<1>3. ASSUME NEW k \in Docs, IweDelete(k) PROVE FALSE
  BY <1>0, <1>3 DEF IweDelete, Do
<1>4. ASSUME NEW old \in Key, NEW new \in Key, Rename(old, new)
      PROVE  last'.old = old /\ last'.new = new
  BY <1>4 DEF Rename, Do
<1>5. ASSUME NEW k \in Docs, NEW form \in {"path", "name"}, NEW parts \in Parts(k),
             Extract(k, parts, form)
      PROVE  FALSE
  BY <1>0, <1>5 DEF Extract, Do
<1>6. ASSUME NEW k \in Docs, NEW keep \in BOOLEAN, NEW l \in graph.docs[k], Inline(k, l, keep)
      PROVE  FALSE
  BY <1>0, <1>6 DEF Inline, Do
<1>7. ASSUME NEW k \in Key, NEW r \in Key, Attach(k, r) PROVE FALSE
  BY <1>0, <1>7 DEF Attach, Do
<1>8. last' # [op |-> "read"]
  BY <1>0
<1>9. ~ReadEdges
  BY <1>8 DEF ReadEdges
<1>10. ~Load
  BY <1>8 DEF Load
<1>11. ASSUME NEW k \in Docs, Show(k) PROVE FALSE
  <2>1. last' = [op |-> "read"]
    BY <1>11 DEF Show
  <2> QED BY <2>1, <1>8
<1> QED BY <1>9, <1>10, <1>11, <1>1, <1>2, <1>3, <1>4, <1>5, <1>6, <1>7, <1>8 DEF Next

\* No rename changes where a link leads: every link to the old key leads to the
\* new one, and every other link where it led, short names included.
THEOREM RenamesFollow == Spec => RenameFollows
<1>1. IInv /\ [Next]_vars => [Done("rename") => Follows(graph.docs, graph.docs', last'.old, last'.new)]_vars
  <2> SUFFICES ASSUME IInv, Next, Done("rename")
               PROVE  Follows(graph.docs, graph.docs', last'.old, last'.new)
    OBVIOUS
  <2>1. PICK old \in Key, new \in Key : Rename(old, new) /\ last'.old = old /\ last'.new = new
    BY OnlyRename
  <2> QED BY <2>1, RenameStep
<1> QED BY <1>1, InitSound, StepSound, PTL DEF Spec, RenameFollows

(***************************************************************************)
(* No operation breaks a link                                              *)
(***************************************************************************)

\* The texts after a change set: updates win over creations, creations over what
\* was there.
LEMMA AppliedDocs ==
  ASSUME NEW g, Sound(g), NEW S, S \subseteq Name, NEW c
  PROVE  LET docs2 == Apply(Consult(g, S), c).docs
             old == DOMAIN g.docs \ c.removes
         IN /\ DOMAIN docs2 = old \cup DOMAIN c.creates \cup DOMAIN c.updates
            /\ \A d \in DOMAIN docs2 :
                 docs2[d] = IF d \in DOMAIN c.updates THEN c.updates[d]
                            ELSE IF d \in DOMAIN c.creates THEN c.creates[d] ELSE g.docs[d]
<1> DEFINE h == Consult(g, S)
           x == Drop(h, c.removes)
           y == Put(x, c.creates)
           z == Put(y, c.updates)
<1>1. h.docs = g.docs
  BY ConsultSound
<1> HIDE DEF h
<1>2. x.docs = [k \in DOMAIN g.docs \ c.removes |-> g.docs[k]]
  BY <1>1 DEF Drop
<1> HIDE DEF x
<1>3. y.docs = [k \in DOMAIN c.creates \cup DOMAIN x.docs |->
                  IF k \in DOMAIN c.creates THEN c.creates[k] ELSE x.docs[k]]
  BY DEF Put
<1> HIDE DEF y
<1>4. z.docs = [k \in DOMAIN c.updates \cup DOMAIN y.docs |->
                  IF k \in DOMAIN c.updates THEN c.updates[k] ELSE y.docs[k]]
  BY DEF Put
<1> HIDE DEF z
<1>5. DOMAIN z.docs = (DOMAIN g.docs \ c.removes) \cup DOMAIN c.creates \cup DOMAIN c.updates
  BY <1>2, <1>3, <1>4
<1>6. ASSUME NEW d \in DOMAIN z.docs
      PROVE  z.docs[d] = IF d \in DOMAIN c.updates THEN c.updates[d]
                         ELSE IF d \in DOMAIN c.creates THEN c.creates[d] ELSE g.docs[d]
  <2>1. CASE d \in DOMAIN c.updates
    BY <1>4, <2>1
  <2>2. CASE d \notin DOMAIN c.updates
    <3>1. d \in DOMAIN y.docs /\ z.docs[d] = y.docs[d]
      BY <1>4, <2>2, <1>6
    <3> QED BY <1>2, <1>3, <2>2, <3>1
  <2> QED BY <2>1, <2>2
<1>7. z = Apply(Consult(g, S), c)
  BY DEF Apply, z, y, x, h
<1> QED BY <1>5, <1>6, <1>7

\* A link leads to a document or nowhere.
LEMMA GoesIn ==
  ASSUME NEW K, K \subseteq Key, NEW m \in Link
  PROVE  Goes(K, m) \in K \cup {NoKey}
<1>1. m.at \in Name
  BY Names DEF Link
<1>2. CASE m.form = "path"
  BY <1>2 DEF Goes
<1>3. CASE m.form # "path"
  BY <1>1, <1>3, ResolvedIs DEF Goes
<1> QED BY <1>2, <1>3

\* As long as the document that a link leads to is there, the link leads somewhere,
\* whatever else came and went: a name finds its bucket not empty.
LEMMA StillGoes ==
  ASSUME NEW K, K \subseteq Key, NEW K2, K2 \subseteq Key, NEW m \in Link, Goes(K, m) \in K2
  PROVE  Goes(K2, m) # NoKey
<1>1. m.at \in Name /\ NoKey \notin Key
  BY Names DEF Link
<1>2. CASE m.form = "path"
  BY <1>1, <1>2 DEF Goes
<1>3. CASE m.form # "path"
  <2> DEFINE r == Resolve(BucketsOf(K), m.at)
             q == Resolve(BucketsOf(K2), m.at)
             B == BucketsOf(K)[BucketOf(m.at)]
             B2 == BucketsOf(K2)[BucketOf(m.at)]
  <2>1. /\ B = {k \in K : BucketOf(k) = BucketOf(m.at)}
        /\ B2 = {k \in K2 : BucketOf(k) = BucketOf(m.at)}
    BY <1>1, Names DEF BucketsOf
  <2>2. r.resolved /\ r.key \in K2
    BY <1>1, <1>3 DEF Goes
  <2>3. r.key \in B
    BY <1>1, <2>2, ResolvedIs
  <2>4. B2 # {}
    BY <2>1, <2>2, <2>3
  <2>5. q.resolved /\ q.key \in K2
    BY <1>1, <2>4, ResolvedIs
  <2> HIDE DEF q, r
  <2>6. Goes(K2, m) = q.key
    BY <1>3, <2>5 DEF Goes, q
  <2> QED BY <1>1, <2>5, <2>6
<1> QED BY <1>2, <1>3

\* What the operations look for when they clean links to a document.
LEMMA GoesToTarget ==
  ASSUME NEW g, Sound(g), NEW m \in Link, Goes(DOMAIN g.docs, m) # NoKey
  PROVE  TargetKey(g, m) = Goes(DOMAIN g.docs, m)
<1>1. m.at \in Name /\ g.buckets = BucketsOf(DOMAIN g.docs)
  BY Names, ExactIs DEF Link, Sound
<1> QED BY <1>1, ResolutionRight DEF Goes, TargetKey

LEMMA NotReferrer ==
  ASSUME NEW g, Sound(g), NEW t, NEW d \in DOMAIN g.docs, d \notin Referrers(g, t),
         NEW m \in g.docs[d], m.kind # "field"
  PROVE  TargetKey(g, m) # t
<1> DEFINE e == [from |-> d, link |-> m]
<1>1. e \in g.edges /\ e.from = d /\ e.link = m
  BY ExactIs, EdgeOf DEF Sound
<1> HIDE DEF e
<1> QED BY <1>1 DEF Referrers, EdgesTo

\* A link m of the documents docs2 leads somewhere, or led nowhere in docs.
Kept(docs, docs2, m) ==
  \/ Goes(DOMAIN docs2, m) # NoKey
  \/ \E e \in DOMAIN docs : m \in docs[e] /\ Goes(DOMAIN docs, m) = NoKey

\* A link that was there is kept when no document goes but t, and it is not to t.
LEMMA OldIsKept ==
  ASSUME NEW g, Sound(g), NEW docs2, DOMAIN docs2 \subseteq Key, NEW t,
         DOMAIN g.docs \ {t} \subseteq DOMAIN docs2,
         NEW e \in DOMAIN g.docs, NEW m \in g.docs[e],
         t \in DOMAIN docs2 \/ TargetKey(g, m) # t
  PROVE  Kept(g.docs, docs2, m)
<1>1. DOMAIN g.docs \subseteq Key /\ m \in Link
  BY DEF Sound, GraphOK
<1>2. CASE Goes(DOMAIN g.docs, m) = NoKey
  BY <1>2 DEF Kept
<1>3. CASE Goes(DOMAIN g.docs, m) # NoKey
  <2>1. Goes(DOMAIN g.docs, m) \in DOMAIN g.docs /\ TargetKey(g, m) = Goes(DOMAIN g.docs, m)
    BY <1>1, <1>3, GoesIn, GoesToTarget
  <2>2. Goes(DOMAIN g.docs, m) \in DOMAIN docs2
    BY <2>1
  <2> QED BY <1>1, <2>2, StillGoes DEF Kept
<1> QED BY <1>2, <1>3

\* The documents of a graph from which the links to t were cleaned.
LEMMA CleanedIsKept ==
  ASSUME NEW g, Sound(g), NEW docs2, DOMAIN docs2 \subseteq Key, NEW t,
         DOMAIN g.docs \ {t} \subseteq DOMAIN docs2,
         NEW d \in DOMAIN g.docs,
         docs2[d] = IF d \in Referrers(g, t) THEN Unlinked(g, d, t) ELSE g.docs[d],
         NEW m \in docs2[d],
         t \in DOMAIN docs2 \/ (m.kind = "field" => m.at # t)
  PROVE  Kept(g.docs, docs2, m)
<1>1. m \in g.docs[d] /\ m \in Link
  BY DEF Unlinked, Sound, GraphOK
<1>2. t \in DOMAIN docs2 \/ TargetKey(g, m) # t
  <2>1. CASE m.kind = "field"
    BY <1>1, <2>1 DEF TargetKey, Link
  <2>2. CASE m.kind # "field" /\ d \in Referrers(g, t)
    BY <2>2 DEF Unlinked
  <2>3. CASE m.kind # "field" /\ d \notin Referrers(g, t)
    BY <1>1, <2>3, NotReferrer
  <2> QED BY <2>1, <2>2, <2>3
<1> QED BY <1>1, <1>2, OldIsKept

\* With one target the merged changes are those of the target, which is not
\* written back.
LEMMA SingleDelete ==
  ASSUME NEW g, NEW T, DOMAIN T = {1}
  PROVE  MergedDelete(g, T) =
           Changes(Empty, [d \in Referrers(g, T[1]) \ {T[1]} |-> Unlinked(g, d, T[1])], {T[1]})
<1> DEFINE gone == {T[i] : i \in DOMAIN T}
           touches(d) == {i \in DOMAIN T : d \in Referrers(g, T[i])}
           final(d) == CHOOSE i \in touches(d) : \A j \in touches(d) : j <= i
           f == [d \in ReferrersOf(g, gone) \ gone |-> Unlinked(g, d, T[final(d)])]
           h == [d \in Referrers(g, T[1]) \ {T[1]} |-> Unlinked(g, d, T[1])]
<1>1. MergedDelete(g, T) = Changes(Empty, f, gone)
  BY DEF MergedDelete
<1>2. gone = {T[1]}
  OBVIOUS
<1>3. ReferrersOf(g, gone) = Referrers(g, T[1])
  BY <1>2 DEF ReferrersOf
<1>4. ASSUME NEW d \in Referrers(g, T[1]) PROVE final(d) = 1
  <2>1. touches(d) = {1}
    OBVIOUS
  <2> QED BY <2>1
<1> HIDE DEF gone, final
<1>5. f = h
  BY <1>2, <1>3, <1>4
<1> QED BY <1>1, <1>2, <1>5

\* What a step leaves: the documents after it, with every link kept but those of
\* an inlining that removes its target.
Whole(docs, docs2, op) ==
  \A d \in DOMAIN docs2 : \A m \in docs2[d] :
    \/ Kept(docs, docs2, m)
    \/ op.op = "inline" /\ ~op.keep /\ (d = op.key \/ m.kind = "field")

\* The two deletions.  A referrer other than the target is cleaned; iwe_delete
\* writes back a target that refers to itself.
LEMMA RemovalWhole ==
  ASSUME IInv, NEW k \in Docs, NotNamed({k}), NEW S, S \subseteq Name, NEW op, NEW f,
         DOMAIN f \subseteq Referrers(graph, k), Referrers(graph, k) \ {k} \subseteq DOMAIN f,
         \A d \in DOMAIN f : f[d] = Unlinked(graph, d, k),
         Do(op, S, Changes(Empty, f, {k}))
  PROVE  Whole(graph.docs, graph'.docs, op)
<1> DEFINE docs2 == graph'.docs
           c == Changes(Empty, f, {k})
<1>1. Sound(graph) /\ DOMAIN graph.docs \subseteq Key
  BY DEF IInv, Sound, GraphOK
<1>2. Referrers(graph, k) \subseteq DOMAIN graph.docs
  BY <1>1, ReferrersIn
<1>3. c.creates = Empty /\ c.updates = f /\ c.removes = {k}
  BY ChangesFields
<1> HIDE DEF c
<1>4. graph' = Apply(Consult(graph, S), c)
  BY DEF Do, c
<1>5. /\ DOMAIN docs2 = (DOMAIN graph.docs \ {k}) \cup DOMAIN f
      /\ \A d \in DOMAIN docs2 : docs2[d] = IF d \in DOMAIN f THEN f[d] ELSE graph.docs[d]
  BY <1>1, <1>3, <1>4, AppliedDocs, EmptyDomain
<1> HIDE DEF docs2
<1>6. ASSUME NEW d \in DOMAIN docs2, NEW m \in docs2[d] PROVE Kept(graph.docs, docs2, m)
  <2>1. d \in DOMAIN graph.docs /\ DOMAIN docs2 \subseteq Key
    BY <1>1, <1>2, <1>5
  <2>2. docs2[d] = IF d \in Referrers(graph, k) THEN Unlinked(graph, d, k) ELSE graph.docs[d]
    BY <1>5
  <2>3. k \in DOMAIN docs2 \/ (m.kind = "field" => m.at # k)
    <3> SUFFICES ASSUME k \notin DOMAIN docs2, m.kind = "field", m.at = k PROVE FALSE
      OBVIOUS
    <3>1. m \in graph.docs[d]
      BY <2>2 DEF Unlinked
    <3>2. d \in FrontmatterReferrers(graph, k)
      BY <2>1, <3>1 DEF FrontmatterReferrers
    <3>3. d = k
      BY <3>2 DEF NotNamed
    <3> QED BY <3>3
  <2>4. DOMAIN graph.docs \ {k} \subseteq DOMAIN docs2
    BY <1>5
  <2> QED BY <1>1, <2>1, <2>2, <2>3, <2>4, CleanedIsKept
<1> QED BY <1>6 DEF Whole, docs2

LEMMA DeleteWhole ==
  ASSUME IInv, MaxTargets = 1, NEW T \in Targets, Delete(T)
  PROVE  Whole(graph.docs, graph'.docs, last')
<1> DEFINE k == T[1]
           gone == {T[i] : i \in DOMAIN T}
           f == [d \in Referrers(graph, k) \ {k} |-> Unlinked(graph, d, k)]
           op == [op |-> "delete", keys |-> gone]
<1>1. PICK n \in 1..MaxTargets : T \in [1..n -> Docs]
  BY DEF Targets
<1>2. DOMAIN T = {1} /\ k \in Docs
  BY <1>1
<1>3. gone = {k}
  BY <1>2
<1>4. MergedDelete(graph, T) = Changes(Empty, f, {k})
  BY <1>2, SingleDelete
<1>5. NotNamed({k}) /\ Do(op, Consulted(gone), Changes(Empty, f, {k}))
  BY <1>3, <1>4 DEF Delete
<1>6. Consulted(gone) \subseteq Name
  BY ConsultedIn DEF IInv
<1>7. DOMAIN f = Referrers(graph, k) \ {k} /\ \A d \in DOMAIN f : f[d] = Unlinked(graph, d, k)
  OBVIOUS
<1>8. last' = op
  BY <1>5 DEF Do
<1> HIDE DEF gone, f, op, k
<1>9. Whole(graph.docs, graph'.docs, op)
  BY <1>2, <1>5, <1>6, <1>7, RemovalWhole
<1> QED BY <1>8, <1>9

LEMMA IweDeleteWhole ==
  ASSUME IInv, NEW k \in Docs, IweDelete(k)
  PROVE  Whole(graph.docs, graph'.docs, last')
<1> DEFINE f == [d \in Referrers(graph, k) |-> Unlinked(graph, d, k)]
           op == [op |-> "iwe_delete", keys |-> {k}]
<1>1. NotNamed({k}) /\ Do(op, Consulted({k}), Changes(Empty, f, {k}))
  BY DEF IweDelete, DeleteChanges
<1>2. Consulted({k}) \subseteq Name
  BY ConsultedIn DEF IInv
<1>3. DOMAIN f = Referrers(graph, k) /\ \A d \in DOMAIN f : f[d] = Unlinked(graph, d, k)
  OBVIOUS
<1>4. last' = op
  BY <1>1 DEF Do
<1> HIDE DEF f, op
<1>5. Whole(graph.docs, graph'.docs, op)
  BY <1>1, <1>2, <1>3, RemovalWhole
<1> QED BY <1>4, <1>5

\* A link that was there is kept when no document goes.
LEMMA GrownIsKept ==
  ASSUME NEW g, Sound(g), NEW docs2, DOMAIN docs2 \subseteq Key, DOMAIN g.docs \subseteq DOMAIN docs2,
         NEW e \in DOMAIN g.docs, NEW m \in g.docs[e]
  PROVE  Kept(g.docs, docs2, m)
<1>1. m \in Link
  BY DEF Sound, GraphOK
<1>2. TargetKey(g, m) # NoKey
  BY <1>1, TargetKeyIn, Names
<1> QED BY <1>2, OldIsKept

\* A link that rename leaves without a target it also leaves as it was.
LEMMA RenameWhole ==
  ASSUME IInv, NEW old \in Key, NEW new \in Key, Rename(old, new)
  PROVE  Whole(graph.docs, graph'.docs, last')
<1> DEFINE docs2 == graph'.docs
           D == DOMAIN graph.docs
           S == NamesLike(graph, old) \cup NamesOf(graph, RenameAffected(graph, old, new) \cup {old})
<1>1. /\ Sound(graph) /\ D \subseteq Key /\ \A d \in D : graph.docs[d] \subseteq Link
      /\ old \in D /\ new \notin D /\ old # NoKey /\ new # NoKey
      /\ graph.buckets = BucketsOf(D)
  BY Names, ExactIs DEF IInv, Sound, GraphOK, Rename, Docs
<1>2. Do([op |-> "rename", old |-> old, new |-> new], S, RenameChanges(graph, old, new))
  BY DEF Rename
<1>3. S \subseteq Name
  BY <1>1, RenameConsults
<1>4. graph' = Apply(Consult(graph, S), RenameChanges(graph, old, new))
  BY <1>2 DEF Do
<1> HIDE DEF S
<1>5. /\ DOMAIN docs2 = Becomes(D, old, new)
      /\ \A d \in D : docs2[Moved(d, old, new)] = {Renamed(graph, old, new, d, l) : l \in graph.docs[d]}
  BY <1>1, <1>3, <1>4, RenamedDocs
<1> HIDE DEF docs2
<1>6. ASSUME NEW d \in D, NEW l \in graph.docs[d], Goes(D, l) = NoKey
      PROVE  Renamed(graph, old, new, d, l) = l
  <2>1. l \in Link
    BY <1>1
  <2>2. l.at \in Name /\ (l.kind = "field" => l.form = "path") /\ l.form \in {"path", "name"}
    BY <2>1, Names DEF Link
  <2>3. CASE l.form = "path"
    <3>1. l.at # old
      BY <1>1, <1>6, <2>3 DEF Goes
    <3> QED BY <2>3, <3>1 DEF Renamed, Cascade, Rewrite
  <2>4. CASE l.form = "name"
    <3> DEFINE r == Resolve(BucketsOf(D), l.at)
               B == BucketsOf(D)[BucketOf(l.at)]
    <3>1. ~r.resolved /\ r.key = l.at /\ B = {}
      <4>1. r.resolved => r.key \in B /\ B \subseteq D
        BY <1>1, <2>2, ResolvedIs
      <4>2. ~r.resolved => r.key = l.at /\ B = {}
        BY <1>1, <2>2, ResolvedIs
      <4>3. r.resolved => Goes(D, l) = r.key
        BY <2>4 DEF Goes
      <4> HIDE DEF r, B
      <4> QED BY <1>1, <1>6, <4>1, <4>2, <4>3, Names
    <3>2. l.at \notin D
      <4> SUFFICES ASSUME l.at \in D PROVE FALSE
        OBVIOUS
      <4>1. l.at \in B
        BY <1>1, InBucket
      <4> QED BY <3>1, <4>1
    <3>3. TargetKey(graph, l) = l.at
      BY <1>1, <2>2, <2>4, <3>1, ResolutionRight DEF TargetKey
    <3> HIDE DEF r, B
    <3>4. l.at \notin graph.buckets[BucketOf(l.at)]
      BY <1>1, <3>1 DEF B
    <3>5. \A a : RewriteName(graph, a, old, new, l) = l
      BY <1>1, <3>2, <3>3, <3>4 DEF RewriteName
    <3> QED BY <2>2, <2>4, <3>5 DEF Renamed, Cascade, Rewrite
  <2> QED BY <2>2, <2>3, <2>4
<1>7. ASSUME NEW x \in DOMAIN docs2, NEW m \in docs2[x] PROVE Kept(graph.docs, docs2, m)
  <2>1. PICK d \in D : x = Moved(d, old, new)
    BY <1>1, <1>5 DEF Becomes, Moved
  <2>2. PICK l \in graph.docs[d] : m = Renamed(graph, old, new, d, l)
    BY <1>5, <2>1
  <2>3. \/ Goes(DOMAIN docs2, m) = Moved(Goes(D, l), old, new)
        \/ Goes(DOMAIN docs2, m) = new
    BY <1>1, <1>5, <2>2, LinkFollows
  <2>4. CASE Goes(DOMAIN docs2, m) # NoKey
    BY <2>4 DEF Kept
  <2>5. CASE Goes(DOMAIN docs2, m) = NoKey
    <3>1. Goes(D, l) = NoKey
      BY <1>1, <2>3, <2>5 DEF Moved
    <3> QED BY <1>6, <2>2, <3>1 DEF Kept
  <2> QED BY <2>4, <2>5
<1> QED BY <1>7 DEF Whole, docs2

\* New documents of links that were there, and inclusions of documents that are
\* there now: nothing goes.
LEMMA AdditionWhole ==
  ASSUME IInv, NEW op, NEW S, S \subseteq Name, NEW c, ChangesOK(c), c.removes = {}, Do(op, S, c),
         NEW N, N \subseteq Link,
         \A m \in N : m.at \in DOMAIN graph.docs \cup DOMAIN c.creates,
         \A d \in DOMAIN c.creates : \A m \in c.creates[d] :
           m \in N \/ \E e \in DOMAIN graph.docs : m \in graph.docs[e],
         \A d \in DOMAIN c.updates : \A m \in c.updates[d] :
           m \in N \/ \E e \in DOMAIN graph.docs : m \in graph.docs[e]
  PROVE  Whole(graph.docs, graph'.docs, op)
<1> DEFINE docs2 == graph'.docs
<1>1. Sound(graph) /\ DOMAIN graph.docs \subseteq Key
  BY DEF IInv, Sound, GraphOK
<1>2. graph' = Apply(Consult(graph, S), c)
  BY DEF Do
<1>3. /\ DOMAIN docs2 = DOMAIN graph.docs \cup DOMAIN c.creates \cup DOMAIN c.updates
      /\ \A d \in DOMAIN docs2 :
           docs2[d] = IF d \in DOMAIN c.updates THEN c.updates[d]
                      ELSE IF d \in DOMAIN c.creates THEN c.creates[d] ELSE graph.docs[d]
  BY <1>1, <1>2, AppliedDocs
<1>4. DOMAIN docs2 \subseteq Key
  BY <1>1, <1>3 DEF ChangesOK, TextsOK
<1> HIDE DEF docs2
<1>5. ASSUME NEW d \in DOMAIN docs2, NEW m \in docs2[d] PROVE Kept(graph.docs, docs2, m)
  <2>1. m \in N \/ \E e \in DOMAIN graph.docs : m \in graph.docs[e]
    BY <1>3
  <2>2. CASE m \in N
    <3>1. m.at \in DOMAIN docs2 /\ m.at \in Key /\ m.at # NoKey
      BY <1>3, <1>4, <2>2, Names
    <3>2. Resolve(BucketsOf(DOMAIN docs2), m.at) = [key |-> m.at, resolved |-> TRUE]
      BY <1>4, <3>1, FullKey
    <3>3. Goes(DOMAIN docs2, m) = m.at
      BY <3>1, <3>2 DEF Goes
    <3> QED BY <3>1, <3>3 DEF Kept
  <2>3. CASE \E e \in DOMAIN graph.docs : m \in graph.docs[e]
    BY <1>1, <1>3, <1>4, <2>3, GrownIsKept
  <2> QED BY <2>1, <2>2, <2>3
<1> QED BY <1>5 DEF Whole, docs2

LEMMA ExtractWhole ==
  ASSUME IInv, NEW k \in Docs, NEW form \in {"path", "name"}, NEW parts \in Parts(k),
         Extract(k, parts, form)
  PROVE  Whole(graph.docs, graph'.docs, last')
<1> DEFINE op == [op |-> "extract", key |-> k, new |-> DOMAIN parts]
           N == {[kind |-> "includes", form |-> form, at |-> p] : p \in DOMAIN parts}
           f == [d \in {k} |-> (graph.docs[k] \ UNION {parts[p] : p \in DOMAIN parts}) \cup N]
           c == Changes(parts, f, {})
<1>1. Sound(graph) /\ k \in DOMAIN graph.docs
  BY DEF IInv, Docs
<1>2. /\ Do(op, {}, c)
      /\ \A p \in DOMAIN parts : parts[p] \subseteq graph.docs[k]
  BY DEF Extract, ExtractChanges
<1>3. DOMAIN parts \subseteq Key
  BY DEF Parts
<1>4. ChangesOK(c)
  BY <1>1, <1>2, <1>3, ExtractOK DEF ExtractChanges
<1>5. c.creates = parts /\ c.updates = f /\ c.removes = {}
  BY ChangesFields
<1>6. N \subseteq Link /\ \A m \in N : m.at \in DOMAIN parts
  BY <1>3 DEF Link, Name
<1>7. \A d \in DOMAIN f : \A m \in f[d] : m \in N \/ m \in graph.docs[k]
  OBVIOUS
<1>8. last' = op
  BY <1>2 DEF Do
<1> HIDE DEF op, N, f, c
<1>9. Whole(graph.docs, graph'.docs, op)
  BY <1>1, <1>2, <1>4, <1>5, <1>6, <1>7, AdditionWhole
<1> QED BY <1>8, <1>9

LEMMA AttachWhole ==
  ASSUME IInv, NEW k \in Key, NEW r \in Key, Attach(k, r)
  PROVE  Whole(graph.docs, graph'.docs, last')
<1> DEFINE op == [op |-> "attach", key |-> k]
           L == {l \in graph.docs[k] : l.kind = "includes"}
           S == IF k \in Docs THEN NamesIn(L) ELSE {}
           m == [kind |-> "includes", form |-> "path", at |-> r]
           N == {m}
           c == AttachChanges(graph, k, r)
<1>1. Sound(graph) /\ r \in DOMAIN graph.docs /\ Do(op, S, c)
  BY DEF IInv, Attach, Docs
<1>2. ChangesOK(c)
  BY <1>1, AttachOK
<1>3. S \subseteq Name
  <2>1. k \in Docs => L \subseteq Link
    BY <1>1 DEF Sound, GraphOK, Docs
  <2> HIDE DEF L
  <2> QED BY <2>1, NamesInLinks
<1>4. N \subseteq Link /\ \A x \in N : x.at = r
  BY DEF Link
<1>5. /\ c.removes = {}
      /\ \A d \in DOMAIN c.creates : \A x \in c.creates[d] :
           x \in N \/ \E e \in DOMAIN graph.docs : x \in graph.docs[e]
      /\ \A d \in DOMAIN c.updates : \A x \in c.updates[d] :
           x \in N \/ \E e \in DOMAIN graph.docs : x \in graph.docs[e]
  <2>1. CASE k \in DOMAIN graph.docs
    <3>1. c = Changes(Empty, [d \in {k} |-> graph.docs[k] \cup {m}], {})
      BY <2>1 DEF AttachChanges
    <3>2. c.creates = Empty /\ c.updates = [d \in {k} |-> graph.docs[k] \cup {m}] /\ c.removes = {}
      BY <3>1, ChangesFields
    <3> HIDE DEF c, m
    <3> QED BY <2>1, <3>2, EmptyDomain
  <2>2. CASE k \notin DOMAIN graph.docs
    <3>1. c = Changes([d \in {k} |-> {m}], Empty, {})
      BY <2>2 DEF AttachChanges
    <3>2. c.creates = [d \in {k} |-> {m}] /\ c.updates = Empty /\ c.removes = {}
      BY <3>1, ChangesFields
    <3> HIDE DEF c, m
    <3> QED BY <3>2, EmptyDomain
  <2> QED BY <2>1, <2>2
<1>6. last' = op
  BY <1>1 DEF Do
<1> HIDE DEF op, L, S, m, N, c
<1>7. \A x \in N : x.at \in DOMAIN graph.docs \cup DOMAIN c.creates
  BY <1>1, <1>4
<1>8. Whole(graph.docs, graph'.docs, op)
  BY <1>1, <1>2, <1>3, <1>4, <1>5, <1>7, AdditionWhole
<1> QED BY <1>6, <1>8

\* An inlining that keeps its target copies links; one that removes it cleans the
\* other referrers.
LEMMA InlineWhole ==
  ASSUME IInv, NEW k \in Docs, NEW keep \in BOOLEAN, NEW l \in graph.docs[k], Inline(k, l, keep)
  PROVE  Whole(graph.docs, graph'.docs, last')
<1> DEFINE docs2 == graph'.docs
           D == DOMAIN graph.docs
           t == Leads(graph, l)
           body == {m \in graph.docs[t] : m.kind # "field"}
           others == IF keep THEN {} ELSE Referrers(graph, t) \ {k, t}
           f == [d \in {k} \cup others |-> IF d = k THEN (graph.docs[k] \ {l}) \cup body
                                           ELSE Unlinked(graph, d, t)]
           gone == IF keep THEN {} ELSE {t}
           c == Changes(Empty, f, gone)
           S == NamesIn({m \in graph.docs[k] : m.kind = "includes"})
                  \cup IF keep THEN {} ELSE Consulted({t})
           op == [op |-> "inline", key |-> k, target |-> t, keep |-> keep]
<1>1. /\ Sound(graph) /\ D \subseteq Key /\ k \in D
      /\ \A d \in D : graph.docs[d] \subseteq Link
  BY DEF IInv, Docs, Sound, GraphOK
<1>2. Do(op, S, c) /\ t # NoKey
  BY DEF Inline, InlineChanges
<1>3. t \in D
  <2>1. l \in Link
    BY <1>1
  <2> QED BY <1>1, <1>2, <2>1, LeadsToDoc
<1>4. ChangesOK(c)
  <2>1. c = InlineChanges(graph, k, l, keep)
    BY DEF InlineChanges
  <2> HIDE DEF c
  <2> QED BY <1>1, <1>2, <2>1, InlineOK
<1>5. S \subseteq Name
  <2>1. {m \in graph.docs[k] : m.kind = "includes"} \subseteq Link
    BY <1>1
  <2>2. NamesIn({m \in graph.docs[k] : m.kind = "includes"}) \subseteq Name
    BY <2>1, NamesInLinks
  <2>3. Consulted({t}) \subseteq Name
    BY <1>1, ConsultedIn
  <2> QED BY <2>2, <2>3
<1>6. c.creates = Empty /\ c.updates = f /\ c.removes = gone
  BY ChangesFields
<1>7. /\ graph' = Apply(Consult(graph, S), c)
      /\ last' = op /\ op.op = "inline" /\ op.key = k /\ op.keep = keep
  BY <1>2 DEF Do
<1>8. others \subseteq D
  BY <1>1, ReferrersIn
<1>9. /\ DOMAIN f = {k} \cup others
      /\ f[k] = (graph.docs[k] \ {l}) \cup body
      /\ \A d \in others : d # k /\ f[d] = Unlinked(graph, d, t)
  OBVIOUS
<1>10. \A m \in body : m \in graph.docs[t]
  OBVIOUS
<1>11. keep => others = {} /\ gone = {}
  OBVIOUS
<1>12. ~keep => others = Referrers(graph, t) \ {k, t} /\ gone = {t}
  OBVIOUS
<1> HIDE DEF t, body, others, f, gone, c, S, op
<1>13. /\ DOMAIN docs2 = (D \ gone) \cup DOMAIN f
       /\ \A d \in DOMAIN docs2 : docs2[d] = IF d \in DOMAIN f THEN f[d] ELSE graph.docs[d]
  BY <1>1, <1>5, <1>6, <1>7, AppliedDocs, EmptyDomain
<1> HIDE DEF docs2
<1>14. CASE keep
  <2>1. DOMAIN docs2 = D /\ DOMAIN docs2 \subseteq Key
    BY <1>1, <1>9, <1>11, <1>13, <1>14
  <2>2. ASSUME NEW d \in DOMAIN docs2, NEW m \in docs2[d] PROVE Kept(graph.docs, docs2, m)
    <3>1. \E e \in D : m \in graph.docs[e]
      BY <1>1, <1>3, <1>9, <1>10, <1>11, <1>13, <1>14, <2>1
    <3> QED BY <1>1, <2>1, <3>1, GrownIsKept
  <2> QED BY <2>2 DEF Whole, docs2, op
<1>15. CASE ~keep
  <2>1. ASSUME NEW d \in DOMAIN docs2, NEW m \in docs2[d], d # k, m.kind # "field"
        PROVE  Kept(graph.docs, docs2, m)
    <3>1. /\ DOMAIN docs2 \subseteq Key /\ D \ {t} \subseteq DOMAIN docs2
          /\ d \in D /\ d # t
      BY <1>1, <1>3, <1>8, <1>9, <1>12, <1>13, <1>15, <2>1
    <3>2. docs2[d] = IF d \in Referrers(graph, t) THEN Unlinked(graph, d, t) ELSE graph.docs[d]
      BY <1>9, <1>12, <1>13, <1>15, <2>1, <3>1
    <3> QED BY <1>1, <2>1, <3>1, <3>2, CleanedIsKept
  <2> QED BY <1>7, <1>15, <2>1 DEF Whole, docs2
<1> QED BY <1>7, <1>14, <1>15

\* What the step of an operation leaves, read as the property says it.
LEMMA StepWhole ==
  ASSUME IInv, MaxTargets = 1, Next, steps' = steps + 1, last'.op # "write"
  PROVE  Whole(graph.docs, graph'.docs, last')
<1>1. ASSUME NEW k \in Key, NEW L \in Texts, Write(k, L) PROVE FALSE
  <2>1. last' = [op |-> "write", key |-> k]
    BY <1>1 DEF Write, Do
  <2> QED BY <2>1
<1>2. steps' # steps
  BY GraphConstants DEF IInv, TypeOK, GraphConstants
<1>3. ~ReadEdges /\ ~Load /\ \A k \in Docs : ~Show(k)
  BY <1>2 DEF ReadEdges, Load, Show
<1> QED BY <1>1, <1>3, DeleteWhole, IweDeleteWhole, RenameWhole, ExtractWhole, InlineWhole,
           AttachWhole DEF Next

\* No deletion of a document, rename, extraction, inlining or attachment leaves a
\* link that leads nowhere unless it led nowhere before, short names included; an
\* inlining that removes its target is bound by it in the documents it only cleans.
\* A deletion of several documents is not: it keeps, of a document that links to
\* two of them, the cleaning for one.
THEOREM NoneBreaks == ASSUME MaxTargets = 1 PROVE Spec => NothingBreaks
<1> DEFINE Mends == \A op \in {"delete", "iwe_delete", "rename", "extract", "inline", "attach"} :
                      Done(op) =>
                        \A d \in Docs' : \A m \in graph.docs'[d] :
                          \/ LeadsIn(graph.docs', m) # NoKey
                          \/ \E e \in Docs : m \in graph.docs[e] /\ LeadsIn(graph.docs, m) = NoKey
                          \/ op = "inline" /\ ~last'.keep /\ (d = last'.key \/ m.kind = "field")
<1>1. IInv /\ IInv' /\ [Next]_vars => [Mends]_vars
  <2> SUFFICES ASSUME IInv, IInv', Next,
                      NEW op \in {"delete", "iwe_delete", "rename", "extract", "inline", "attach"},
                      Done(op), NEW d \in Docs', NEW m \in graph'.docs[d]
               PROVE  \/ LeadsIn(graph.docs', m) # NoKey
                      \/ \E e \in Docs : m \in graph.docs[e] /\ LeadsIn(graph.docs, m) = NoKey
                      \/ op = "inline" /\ ~last'.keep /\ (d = last'.key \/ m.kind = "field")
    OBVIOUS
  <2>1. Whole(graph.docs, graph'.docs, last') /\ last'.op = op
    BY StepWhole DEF Done
  <2>2. /\ DOMAIN graph.docs \subseteq Key /\ DOMAIN graph'.docs \subseteq Key
        /\ d \in DOMAIN graph'.docs /\ graph'.docs[d] \subseteq Link
    BY DEF IInv, Sound, GraphOK, Docs
  <2>3. /\ LeadsIn(graph.docs, m) = Goes(DOMAIN graph.docs, m)
        /\ LeadsIn(graph'.docs, m) = Goes(DOMAIN graph'.docs, m)
    BY <2>2, LeadsInIs
  <2> QED BY <2>1, <2>2, <2>3 DEF Whole, Kept, Docs
<1> QED BY <1>1, InitSound, StepSound, PTL DEF Spec, NothingBreaks

-----------------------------------------------------------------------------
(***************************************************************************)
(* Evaluating a filter within a set of documents is evaluating it and      *)
(* intersecting, for every graph, every filter and every set.              *)
(*                                                                         *)
(* Evaluation recurs over the filter.  The first part shows that the       *)
(* recursion has a solution, the second that every solution restricts;     *)
(* both by a minimal counterexample, from the one assumption that filters  *)
(* are built from the bottom: no chain of operands goes on for ever.       *)
(***************************************************************************)
Operand ==
  {x \in Filter \X Filter :
     \/ Form[x[2]].op \in {"and", "or", "nor"} /\ x[1] \in Form[x[2]].parts
     \/ Form[x[2]].op = "relation" /\ x[1] = Form[x[2]].match}

\* The results of a part and of the whole, by scope.
SameWithin(E, D, f) == \A S \in SUBSET D : E[<<f, {S}>>] = E[<<f, NoScope>>] \cap S

-----------------------------------------------------------------------------
(* A scope is the universe of the evaluation within it. *)

LEMMA Scopes ==
  ASSUME NEW S \in SUBSET Name
  PROVE  /\ {S} \in Scope /\ NoScope \in Scope
         /\ {S} # NoScope
         /\ UNION {S} = S
  BY DEF Scope, NoScope

LEMMA Universes ==
  ASSUME NEW g, NEW S \in SUBSET Name
  PROVE  /\ Universe(g, {S}) = S
         /\ Universe(g, NoScope) = DOMAIN g.docs
         /\ \A K : InScope(K, {S}) = K \cap S
         /\ \A K : InScope(K, NoScope) = K
  BY Scopes DEF Universe, InScope

LEMMA Shapes ==
  ASSUME NEW f \in Filter
  PROVE  \/ Form[f] \in Test
         \/ Form[f] \in Connective
         \/ Form[f] \in Relation
  BY QueryConstants

\* What Eval does at a node, by the operator that stands there.
LEMMA Nodes ==
  ASSUME NEW g, NEW E, NEW f, NEW s
  PROVE  LET q == Form[f] IN
         /\ q.op = "and" => Eval(g, E, f, s) = EvalAnd(g, E, q, s)
         /\ q.op = "or" => Eval(g, E, f, s) = EvalOr(E, q, s)
         /\ q.op = "nor" => Eval(g, E, f, s) = EvalNor(g, E, q, s)
         /\ q.op = "relation" /\ q.size = {} => Eval(g, E, f, s) = EvalExists(g, E, q, s)
         /\ q.op = "relation" /\ q.size # {} => Eval(g, E, f, s) = EvalCount(g, E, q, s)
         /\ q.op \in {"key", "standing", "field"} =>
              Eval(g, E, f, s) = {k \in Universe(g, s) : Holds(g, q, k)}
  BY DEF Eval

LEMMA Unfold ==
  ASSUME NEW g, NEW E, IsEvaluation(g, E), NEW f \in Filter, NEW s \in Scope
  PROVE  E[<<f, s>>] = Eval(g, E, f, s)
  BY DEF IsEvaluation

-----------------------------------------------------------------------------
(* The recursion has a solution *)

\* The results of a filter depend on those of its operands only.
LEMMA Local ==
  ASSUME NEW g, DOMAIN g.docs \subseteq Name, NEW f \in Filter, NEW s \in Scope, NEW E, NEW F,
         \A p \in Filter : <<p, f>> \in Operand => \A t \in Scope : E[<<p, t>>] = F[<<p, t>>]
  PROVE  Eval(g, E, f, s) = Eval(g, F, f, s)
<1> DEFINE q == Form[f]
<1>1. CASE q \in Test
  <2>1. q.op \in {"key", "standing", "field"}
    BY <1>1 DEF Test
  <2> QED BY <2>1, Nodes
<1>2. CASE q \in Connective
  <2>1. q.op \in {"and", "or", "nor"} /\ q.parts \subseteq Filter
    BY <1>2 DEF Connective
  <2>2. \A p \in q.parts : \A t \in Scope : E[<<p, t>>] = F[<<p, t>>]
    BY <2>1 DEF Operand
  <2>3. \A t \in Scope : EvalOr(E, q, t) = EvalOr(F, q, t)
    <3> SUFFICES ASSUME NEW t \in Scope PROVE EvalOr(E, q, t) = EvalOr(F, q, t)
      OBVIOUS
    <3>1. \A k, D : k \in EvalOr(D, q, t) <=> \E p \in q.parts : k \in D[<<p, t>>]
      BY DEF EvalOr
    <3>2. \A k : k \in EvalOr(E, q, t) <=> k \in EvalOr(F, q, t)
      BY <2>2, <3>1
    <3> HIDE DEF q
    <3> QED BY <3>2
  <2>4. CASE q.op = "and"
    <3> DEFINE G == {p \in q.parts : ~IsPredicate(p)}
               C(D) == IF G = {} THEN Universe(g, s)
                       ELSE {k \in UNION {D[<<p, s>>] : p \in G} : \A p \in G : k \in D[<<p, s>>]}
    <3>1. \A p \in G : E[<<p, s>>] = F[<<p, s>>]
      BY <2>2
    <3>2. C(E) = C(F)
      BY <3>1
    <3>3. \A D : EvalAnd(g, D, q, s) = {k \in C(D) : \A p \in q.parts \ G : Holds(g, Form[p], k)}
      BY DEF EvalAnd
    <3>4. EvalAnd(g, E, q, s) = EvalAnd(g, F, q, s)
      <4> HIDE DEF C, G, q
      <4> QED BY <3>2, <3>3
    <3> QED BY <2>4, <3>4, Nodes
  <2>5. CASE q.op = "or"
    BY <2>3, <2>5, Nodes
  <2>6. CASE q.op = "nor"
    <3>1. {Universe(g, s)} \in Scope
      BY DEF Universe, Scope, NoScope
    <3>2. EvalNor(g, E, q, s) = EvalNor(g, F, q, s)
      BY <2>3, <3>1 DEF EvalNor
    <3> QED BY <2>6, <3>2, Nodes
  <2> QED BY <2>1, <2>4, <2>5, <2>6
<1>3. CASE q \in Relation
  <2>1. q.op = "relation" /\ q.match \in Filter
    BY <1>3 DEF Relation
  <2>2. E[<<q.match, NoScope>>] = F[<<q.match, NoScope>>]
    BY <2>1 DEF Operand, Scope
  <2>3. EvalExists(g, E, q, s) = EvalExists(g, F, q, s)
    BY <2>2 DEF EvalExists
  <2>4. EvalCount(g, E, q, s) = EvalCount(g, F, q, s)
    BY <2>2 DEF EvalCount
  <2> QED BY <2>1, <2>3, <2>4, Nodes
<1> QED BY <1>1, <1>2, <1>3, Shapes

\* Solutions over sets of filters that are closed under operands.
Closed(T) == \A f \in T : \A p \in Filter : <<p, f>> \in Operand => p \in T
Solves(g, T, E) == E = [x \in T \X Scope |-> Eval(g, E, x[1], x[2])]

LEMMA SolvesAt ==
  ASSUME NEW g, NEW T, NEW E, Solves(g, T, E), NEW f \in T, NEW s \in Scope
  PROVE  E[<<f, s>>] = Eval(g, E, f, s)
  BY DEF Solves

LEMMA Unique ==
  ASSUME IsWellFoundedOn(Operand, Filter), NEW g, DOMAIN g.docs \subseteq Name,
         NEW T \in SUBSET Filter, Closed(T), NEW E, Solves(g, T, E),
         NEW U \in SUBSET Filter, Closed(U), NEW F, Solves(g, U, F)
  PROVE  \A f \in Filter : f \in T /\ f \in U => \A s \in Scope : E[<<f, s>>] = F[<<f, s>>]
<1> DEFINE Bad == {f \in T \cap U : \E s \in Scope : E[<<f, s>>] # F[<<f, s>>]}
<1> SUFFICES ASSUME Bad # {} PROVE FALSE
  OBVIOUS
<1>1. PICK f \in Bad : \A p \in Bad : <<p, f>> \notin Operand
  <2>1. Bad \subseteq Filter
    OBVIOUS
  <2> HIDE DEF Bad
  <2> QED BY <2>1, WFMin
<1>2. PICK s \in Scope : E[<<f, s>>] # F[<<f, s>>]
  OBVIOUS
<1>3. \A p \in Filter : <<p, f>> \in Operand => \A t \in Scope : E[<<p, t>>] = F[<<p, t>>]
  BY <1>1 DEF Closed
<1>4. Eval(g, E, f, s) = Eval(g, F, f, s)
  BY <1>3, Local
<1>5. E[<<f, s>>] = Eval(g, E, f, s) /\ F[<<f, s>>] = Eval(g, F, f, s)
  BY SolvesAt
<1> QED BY <1>2, <1>4, <1>5

\* All solutions together are one.
Solved(g) == {T \in SUBSET Filter : Closed(T) /\ \E E : Solves(g, T, E)}
Covered(g) == UNION Solved(g)
Joined(g) ==
  [x \in Covered(g) \X Scope |->
     LET T == CHOOSE T \in Solved(g) : x[1] \in T IN (CHOOSE E : Solves(g, T, E))[x]]

LEMMA JoinedAgrees ==
  ASSUME IsWellFoundedOn(Operand, Filter), NEW g, DOMAIN g.docs \subseteq Name,
         NEW T \in SUBSET Filter, Closed(T), NEW E, Solves(g, T, E)
  PROVE  \A f \in T : \A s \in Scope : Joined(g)[<<f, s>>] = E[<<f, s>>]
<1> SUFFICES ASSUME NEW f \in T, NEW s \in Scope PROVE Joined(g)[<<f, s>>] = E[<<f, s>>]
  OBVIOUS
<1> DEFINE U == CHOOSE V \in Solved(g) : f \in V
           F == CHOOSE D : Solves(g, U, D)
<1>1. T \in Solved(g)
  BY DEF Solved
<1>2. f \in Covered(g)
  BY <1>1 DEF Covered
<1>3. U \in Solved(g) /\ f \in U
  BY <1>1
<1>4. U \in SUBSET Filter /\ Closed(U) /\ Solves(g, U, F)
  BY <1>3 DEF Solved
<1>5. Joined(g)[<<f, s>>] = F[<<f, s>>]
  BY <1>2 DEF Joined
<1> HIDE DEF U, F
<1>6. E[<<f, s>>] = F[<<f, s>>]
  BY <1>3, <1>4, Unique
<1> QED BY <1>5, <1>6

LEMMA JoinedSolves ==
  ASSUME IsWellFoundedOn(Operand, Filter), NEW g, DOMAIN g.docs \subseteq Name
  PROVE  /\ Covered(g) \in SUBSET Filter /\ Closed(Covered(g))
         /\ Solves(g, Covered(g), Joined(g))
<1>1. Covered(g) \in SUBSET Filter /\ Closed(Covered(g))
  BY DEF Covered, Solved, Closed
<1>2. \A f \in Covered(g), s \in Scope : Joined(g)[<<f, s>>] = Eval(g, Joined(g), f, s)
  <2> SUFFICES ASSUME NEW f \in Covered(g), NEW s \in Scope
               PROVE  Joined(g)[<<f, s>>] = Eval(g, Joined(g), f, s)
    OBVIOUS
  <2>1. PICK T \in SUBSET Filter : f \in T /\ Closed(T) /\ \E E : Solves(g, T, E)
    BY DEF Covered, Solved
  <2>2. PICK E : Solves(g, T, E)
    BY <2>1
  <2>3. \A p \in T : \A t \in Scope : Joined(g)[<<p, t>>] = E[<<p, t>>]
    BY <2>1, <2>2, JoinedAgrees
  <2>4. \A p \in Filter : <<p, f>> \in Operand => \A t \in Scope : Joined(g)[<<p, t>>] = E[<<p, t>>]
    BY <2>1, <2>3 DEF Closed
  <2>5. Eval(g, Joined(g), f, s) = Eval(g, E, f, s)
    BY <2>1, <2>4, Local
  <2>6. E[<<f, s>>] = Eval(g, E, f, s)
    BY <2>1, <2>2, SolvesAt
  <2> QED BY <2>1, <2>3, <2>5, <2>6
<1> DEFINE J == Joined(g)
<1>3. J = [x \in Covered(g) \X Scope |-> J[x]]
  BY DEF Joined
<1>4. \A x \in Covered(g) \X Scope : J[x] = Eval(g, J, x[1], x[2])
  BY <1>2
<1>5. J = [x \in Covered(g) \X Scope |-> Eval(g, J, x[1], x[2])]
  <2> HIDE DEF J
  <2> QED BY <1>3, <1>4
<1> QED BY <1>1, <1>5 DEF Solves

\* A smallest filter not covered could be added, so all are.
LEMMA AllCovered ==
  ASSUME IsWellFoundedOn(Operand, Filter), NEW g, DOMAIN g.docs \subseteq Name
  PROVE  Covered(g) = Filter
<1> DEFINE Left == Filter \ Covered(g)
           J == Joined(g)
<1>1. Covered(g) \in SUBSET Filter /\ Closed(Covered(g)) /\ Solves(g, Covered(g), J)
  BY JoinedSolves
<1> SUFFICES ASSUME Left # {} PROVE FALSE
  BY <1>1
<1>2. PICK f \in Left : \A p \in Left : <<p, f>> \notin Operand
  <2>1. Left \subseteq Filter
    OBVIOUS
  <2> HIDE DEF Left
  <2> QED BY <2>1, WFMin
<1> DEFINE T == Covered(g) \cup {f}
           E == [x \in T \X Scope |-> IF x[1] = f THEN Eval(g, J, f, x[2]) ELSE J[x]]
<1>3. T \in SUBSET Filter /\ \A h \in T : \A p \in Filter : <<p, h>> \in Operand => p \in Covered(g)
  BY <1>1, <1>2 DEF Closed
<1>4. \A p \in Covered(g) : \A t \in Scope : E[<<p, t>>] = J[<<p, t>>]
  OBVIOUS
<1>5. \A h \in T : \A s \in Scope : E[<<h, s>>] = Eval(g, J, h, s)
  <2>1. \A s \in Scope : E[<<f, s>>] = Eval(g, J, f, s)
    OBVIOUS
  <2>2. \A h \in Covered(g) : \A s \in Scope : J[<<h, s>>] = Eval(g, J, h, s)
    BY <1>1, SolvesAt
  <2> HIDE DEF E, J
  <2> QED BY <1>4, <2>1, <2>2
<1>6. \A h \in T : \A s \in Scope : E[<<h, s>>] = Eval(g, E, h, s)
  <2> SUFFICES ASSUME NEW h \in T, NEW s \in Scope PROVE Eval(g, J, h, s) = Eval(g, E, h, s)
    BY <1>5
  <2>1. \A p \in Filter : <<p, h>> \in Operand => \A t \in Scope : J[<<p, t>>] = E[<<p, t>>]
    BY <1>3, <1>4
  <2> HIDE DEF E, J
  <2> QED BY <1>3, <2>1, Local
<1>7. Solves(g, T, E)
  <2>1. E = [x \in T \X Scope |-> E[x]]
    OBVIOUS
  <2> HIDE DEF E, T
  <2>2. \A x \in T \X Scope : E[x] = Eval(g, E, x[1], x[2])
    BY <1>6
  <2>3. E = [x \in T \X Scope |-> Eval(g, E, x[1], x[2])]
    BY <2>1, <2>2
  <2> QED BY <2>3 DEF Solves
<1>8. T \in Solved(g)
  <2>1. Closed(T)
    BY <1>3 DEF Closed
  <2> HIDE DEF E, T
  <2> QED BY <1>3, <1>7, <2>1 DEF Solved
<1> QED BY <1>8 DEF Covered

\* Evaluation of a filter ends with one result, whatever the graph: the recursive
\* function that stands for eval satisfies the equations of eval, and no other does.
THEOREM EvaluationIsDefined ==
  ASSUME IsWellFoundedOn(Operand, Filter), NEW g, DOMAIN g.docs \subseteq Name
  PROVE  /\ IsEvaluation(g, Evaluation(g))
         /\ \A E : IsEvaluation(g, E) =>
              \A f \in Filter : \A s \in Scope : E[<<f, s>>] = Evaluation(g)[<<f, s>>]
<1>1. IsEvaluation(g, Joined(g))
  <2>1. Solves(g, Filter, Joined(g))
    <3>1. Covered(g) = Filter
      BY AllCovered
    <3>2. Solves(g, Covered(g), Joined(g))
      BY JoinedSolves
    <3> QED BY <3>1, <3>2
  <2> QED BY <2>1 DEF Solves, IsEvaluation
<1>2. Evaluation(g) = CHOOSE E : IsEvaluation(g, E)
  BY DEF Evaluation, IsEvaluation
<1>3. IsEvaluation(g, Evaluation(g))
  BY <1>1, <1>2
<1>4. ASSUME NEW E, IsEvaluation(g, E)
      PROVE  \A f \in Filter : \A s \in Scope : E[<<f, s>>] = Evaluation(g)[<<f, s>>]
  <2>1. Solves(g, Filter, E) /\ Solves(g, Filter, Evaluation(g))
    BY <1>3, <1>4 DEF Solves, IsEvaluation
  <2>2. PICK T \in SUBSET Filter : T = Filter
    OBVIOUS
  <2>3. Closed(T) /\ Solves(g, T, E) /\ Solves(g, T, Evaluation(g))
    BY <2>1, <2>2 DEF Closed
  <2>4. \A f \in Filter : f \in T => \A s \in Scope : E[<<f, s>>] = Evaluation(g)[<<f, s>>]
    BY <2>3, Unique
  <2> QED BY <2>2, <2>4
<1> QED BY <1>3, <1>4

-----------------------------------------------------------------------------
(* One step of the evaluation, one lemma for each connective *)

LEMMA AndWithin ==
  ASSUME NEW g, NEW E, NEW q, NEW S \in SUBSET Name, S \subseteq DOMAIN g.docs,
         \A p \in q.parts : E[<<p, {S}>>] = E[<<p, NoScope>>] \cap S
  PROVE  EvalAnd(g, E, q, {S}) = EvalAnd(g, E, q, NoScope) \cap S
<1> DEFINE G == {f \in q.parts : ~IsPredicate(f)}
           C(s) == IF G = {} THEN Universe(g, s)
                   ELSE {k \in UNION {E[<<f, s>>] : f \in G} : \A f \in G : k \in E[<<f, s>>]}
<1>1. C({S}) = C(NoScope) \cap S
  <2>1. CASE G = {}
    BY <2>1, Universes
  <2>2. CASE G # {}
    <3>1. \A k : k \in C({S}) <=> \A f \in G : k \in E[<<f, {S}>>]
      BY <2>2
    <3>2. \A k : k \in C(NoScope) <=> \A f \in G : k \in E[<<f, NoScope>>]
      BY <2>2
    <3>3. \A k : \A f \in G : k \in E[<<f, {S}>>] <=> k \in E[<<f, NoScope>>] /\ k \in S
      OBVIOUS
    <3> HIDE DEF C, G
    <3>4. \A k : k \in C({S}) <=> k \in C(NoScope) /\ k \in S
      BY <2>2, <3>1, <3>2, <3>3
    <3> QED BY <3>4
  <2> QED BY <2>1, <2>2
<1>2. \A s : EvalAnd(g, E, q, s) = {k \in C(s) : \A f \in q.parts \ G : Holds(g, Form[f], k)}
  BY DEF EvalAnd
<1> HIDE DEF C, G
<1> QED BY <1>1, <1>2

LEMMA OrWithin ==
  ASSUME NEW E, NEW q, NEW S,
         \A p \in q.parts : E[<<p, {S}>>] = E[<<p, NoScope>>] \cap S
  PROVE  EvalOr(E, q, {S}) = EvalOr(E, q, NoScope) \cap S
<1>1. \A k, s : k \in EvalOr(E, q, s) <=> \E p \in q.parts : k \in E[<<p, s>>]
  BY DEF EvalOr
<1>2. \A k : k \in EvalOr(E, q, {S}) <=> k \in EvalOr(E, q, NoScope) /\ k \in S
  BY <1>1
<1> QED BY <1>2

\* Over the whole store a negation asks its parts within the set of all documents.
LEMMA NorWithin ==
  ASSUME NEW g, NEW E, NEW q, DOMAIN g.docs \subseteq Name,
         NEW S \in SUBSET Name, S \subseteq DOMAIN g.docs,
         EvalOr(E, q, {S}) = EvalOr(E, q, NoScope) \cap S,
         EvalOr(E, q, {DOMAIN g.docs}) = EvalOr(E, q, NoScope) \cap DOMAIN g.docs
  PROVE  EvalNor(g, E, q, {S}) = EvalNor(g, E, q, NoScope) \cap S
<1>1. EvalNor(g, E, q, {S}) = S \ EvalOr(E, q, {S})
  BY Universes DEF EvalNor
<1>2. EvalNor(g, E, q, NoScope) = DOMAIN g.docs \ EvalOr(E, q, {DOMAIN g.docs})
  BY Universes DEF EvalNor
<1> QED BY <1>1, <1>2

\* The matches of a relation are looked for in the whole store, whatever the scope.
LEMMA ExistsWithin ==
  ASSUME NEW g, NEW E, NEW q, NEW S \in SUBSET Name, S \subseteq DOMAIN g.docs
  PROVE  EvalExists(g, E, q, {S}) = EvalExists(g, E, q, NoScope) \cap S
  BY Universes DEF EvalExists

LEMMA CountWithin ==
  ASSUME NEW g, NEW E, NEW q, NEW S \in SUBSET Name, S \subseteq DOMAIN g.docs
  PROVE  EvalCount(g, E, q, {S}) = EvalCount(g, E, q, NoScope) \cap S
<1> DEFINE Counts(k) ==
             Cardinality((Related(g, q, q.out, k) \cap E[<<q.match, NoScope>>]) \ {k})
               \in UNION q.size
<1>1. \A k, s : k \in EvalCount(g, E, q, s) <=> k \in Universe(g, s) /\ Counts(k)
  BY DEF EvalCount
<1>2. Universe(g, {S}) = S /\ Universe(g, NoScope) = DOMAIN g.docs
  BY Universes
<1> HIDE DEF Counts
<1>3. \A k : k \in EvalCount(g, E, q, {S}) <=> k \in S /\ Counts(k)
  BY <1>1, <1>2
<1>4. \A k : k \in EvalCount(g, E, q, NoScope) <=> k \in DOMAIN g.docs /\ Counts(k)
  BY <1>1, <1>2
<1> QED BY <1>3, <1>4

\* A filter agrees when its parts do.
LEMMA StepWithin ==
  ASSUME NEW g, NEW E, DOMAIN g.docs \subseteq Name, IsEvaluation(g, E), NEW f \in Filter,
         \A p \in Filter : <<p, f>> \in Operand => SameWithin(E, DOMAIN g.docs, p)
  PROVE  SameWithin(E, DOMAIN g.docs, f)
<1> SUFFICES ASSUME NEW S \in SUBSET DOMAIN g.docs
             PROVE  E[<<f, {S}>>] = E[<<f, NoScope>>] \cap S
  BY DEF SameWithin
<1>1. S \in SUBSET Name /\ S \subseteq DOMAIN g.docs
  OBVIOUS
<1> SUFFICES Eval(g, E, f, {S}) = Eval(g, E, f, NoScope) \cap S
  <2>1. {S} \in Scope /\ NoScope \in Scope
    BY <1>1, Scopes
  <2> QED BY <2>1, Unfold
<1> DEFINE q == Form[f]
<1>2. CASE q \in Test
  <2>1. q.op \in {"key", "standing", "field"}
    BY <1>2 DEF Test
  <2>2. \A s : Eval(g, E, f, s) = {k \in Universe(g, s) : Holds(g, q, k)}
    BY <2>1, Nodes
  <2>3. Universe(g, {S}) = S /\ Universe(g, NoScope) = DOMAIN g.docs
    BY <1>1, Universes
  <2> HIDE DEF q
  <2>4. Eval(g, E, f, {S}) = {k \in S : Holds(g, q, k)}
    BY <2>2, <2>3
  <2>5. Eval(g, E, f, NoScope) = {k \in DOMAIN g.docs : Holds(g, q, k)}
    BY <2>2, <2>3
  <2> QED BY <1>1, <2>4, <2>5
<1>3. CASE q \in Connective
  <2>1. q.op \in {"and", "or", "nor"} /\ q.parts \subseteq Filter
    BY <1>3 DEF Connective
  <2>2. \A p \in q.parts : SameWithin(E, DOMAIN g.docs, p)
    BY <2>1 DEF Operand
  <2>3. \A p \in q.parts : E[<<p, {S}>>] = E[<<p, NoScope>>] \cap S
    BY <2>2 DEF SameWithin
  <2>4. \A p \in q.parts : E[<<p, {DOMAIN g.docs}>>] = E[<<p, NoScope>>] \cap DOMAIN g.docs
    BY <2>2 DEF SameWithin
  <2>5. EvalOr(E, q, {S}) = EvalOr(E, q, NoScope) \cap S
    BY <2>3, OrWithin
  <2>6. CASE q.op = "and"
    <3>1. EvalAnd(g, E, q, {S}) = EvalAnd(g, E, q, NoScope) \cap S
      BY <1>1, <2>3, AndWithin
    <3>2. \A s : Eval(g, E, f, s) = EvalAnd(g, E, q, s)
      BY <2>6, Nodes
    <3> QED BY <3>1, <3>2
  <2>7. CASE q.op = "or"
    <3>1. \A s : Eval(g, E, f, s) = EvalOr(E, q, s)
      BY <2>7, Nodes
    <3> QED BY <2>5, <3>1
  <2>8. CASE q.op = "nor"
    <3>1. EvalNor(g, E, q, {S}) = EvalNor(g, E, q, NoScope) \cap S
      <4>1. EvalOr(E, q, {DOMAIN g.docs}) = EvalOr(E, q, NoScope) \cap DOMAIN g.docs
        BY <2>4, OrWithin
      <4> QED BY <1>1, <2>5, <4>1, NorWithin
    <3>2. \A s : Eval(g, E, f, s) = EvalNor(g, E, q, s)
      BY <2>8, Nodes
    <3> QED BY <3>1, <3>2
  <2> QED BY <2>1, <2>6, <2>7, <2>8
<1>4. CASE q \in Relation
  <2>1. q.op = "relation"
    BY <1>4 DEF Relation
  <2>2. EvalExists(g, E, q, {S}) = EvalExists(g, E, q, NoScope) \cap S
    BY <1>1, ExistsWithin
  <2>3. EvalCount(g, E, q, {S}) = EvalCount(g, E, q, NoScope) \cap S
    BY <1>1, CountWithin
  <2> QED BY <2>1, <2>2, <2>3, Nodes
<1> QED BY <1>2, <1>3, <1>4, Shapes

-----------------------------------------------------------------------------
(* Theorems *)

\* Whatever the graph: evaluating within a set of documents (evaluate_within) gives
\* the documents of the set that evaluating over the store gives, for filters of any
\* depth, provided only that filters are built from the bottom.
THEOREM WithinIsIntersection ==
  ASSUME IsWellFoundedOn(Operand, Filter),
         NEW g, DOMAIN g.docs \subseteq Name,
         NEW E, IsEvaluation(g, E)
  PROVE  \A S \in SUBSET DOMAIN g.docs : AgreeWithin(E, S)
<1> DEFINE Bad == {f \in Filter : ~SameWithin(E, DOMAIN g.docs, f)}
<1>1. Bad = {}
  <2> SUFFICES ASSUME Bad # {} PROVE FALSE
    OBVIOUS
  <2>1. PICK f \in Bad : \A p \in Bad : <<p, f>> \notin Operand
    BY WFMin
  <2>2. \A p \in Filter : <<p, f>> \in Operand => SameWithin(E, DOMAIN g.docs, p)
    BY <2>1
  <2> QED BY <2>1, <2>2, StepWithin
<1> QED BY <1>1 DEF SameWithin, AgreeWithin

\* In every reachable state, for any documents and any filters.
THEOREM ScopedAlways ==
  ASSUME IsWellFoundedOn(Operand, Filter)
  PROVE  Spec => []ScopedIsRestricted
<1>1. TypeOK => ScopedIsRestricted
  <2> SUFFICES ASSUME TypeOK PROVE \A S \in SUBSET Docs : AgreeWithin(Evaluation(graph), S)
    BY DEF ScopedIsRestricted
  <2>1. Docs = DOMAIN graph.docs /\ DOMAIN graph.docs \subseteq Name
    BY DEF Docs, TypeOK, GraphOK, Name
  <2>2. IsEvaluation(graph, Evaluation(graph))
    BY <2>1, EvaluationIsDefined
  <2> QED BY <2>1, <2>2, WithinIsIntersection
<1> QED BY <1>1, TypeCorrect, PTL

(***************************************************************************)
(* Walks from both ends                                                    *)
(***************************************************************************)
\* The order the elements of a set are queued in, whichever it is.
LEMMA Ordered ==
  ASSUME NEW S, IsFiniteSet(S)
  PROVE  /\ InSomeOrder(S) \in Seq(S)
         /\ Len(InSomeOrder(S)) = Cardinality(S)
         /\ \A x \in S : \E i \in 1..Len(InSomeOrder(S)) : InSomeOrder(S)[i] = x
<1> DEFINE n == Cardinality(S)
           Each == {s \in [1..n -> S] : \A i, j \in DOMAIN s : i # j => s[i] # s[j]}
           o == InSomeOrder(S)
<1>1. n \in Nat /\ ExistsBijection(1..n, S)
  BY FS_CardinalityType
<1> HIDE DEF n
<1>2. PICK f \in Bijection(1..n, S) : TRUE
  BY <1>1 DEF ExistsBijection
<1>3. f \in [1..n -> S] /\ \A i, j \in 1..n : i # j => f[i] # f[j]
  BY <1>2 DEF Bijection, Injection, IsInjective
<1>4. o \in [1..n -> S] /\ \A i, j \in 1..n : i # j => o[i] # o[j]
  <2>1. o = CHOOSE s \in [1..n -> S] : \A i, j \in DOMAIN s : i # j => s[i] # s[j]
    BY DEF InSomeOrder, n
  <2>2. \E s \in [1..n -> S] : \A i, j \in DOMAIN s : i # j => s[i] # s[j]
    BY <1>3
  <2> HIDE DEF o
  <2> QED BY <2>1, <2>2
<1> HIDE DEF o
<1>5. o \in Injection(1..n, S)
  BY <1>4 DEF Injection, IsInjective
<1>6. Cardinality(1..n) = n
  BY <1>1, FS_Interval
<1>7. o \in Surjection(1..n, S)
  BY <1>5, <1>6, FS_Injection DEF n
<1>8. \A x \in S : \E i \in 1..n : o[i] = x
  BY <1>7 DEF Surjection
<1>9. o \in Seq(S) /\ Len(o) = n
  BY <1>1, <1>4
<1> QED BY <1>8, <1>9 DEF n, o

\* f goes on along next from each of S until it is to stop, and returns what out
\* gives there.
Loops(S, Stop, next, out, f) == f = [s \in S |-> IF s \in Stop THEN out[s] ELSE f[next[s]]]

\* Such a function exists, though nothing says that the loop ever stops.
LEMMA LoopIsDefined ==
  ASSUME NEW S, NEW Stop, NEW next, \A s \in S \ Stop : next[s] \in S, NEW out
  PROVE  \E f : Loops(S, Stop, next, out, f)
<1> DEFINE Steady(C) == \A t \in C : t \in Stop \/ next[t] \in C
           Ahead(s) == {t \in S : \A C \in SUBSET S : s \in C /\ Steady(C) => t \in C}
           end(s) == CHOOSE t \in S : t \in Ahead(s) /\ t \in Stop
           f == [s \in S |-> out[end(s)]]
<1>1. ASSUME NEW s \in S PROVE s \in Ahead(s) /\ Steady(Ahead(s)) /\ Ahead(s) \in SUBSET S
  <2>1. s \in Ahead(s) /\ Ahead(s) \in SUBSET S
    OBVIOUS
  <2>2. ASSUME NEW t \in Ahead(s), t \notin Stop PROVE next[t] \in Ahead(s)
    BY <2>2
  <2> QED BY <2>1, <2>2
<1>2. ASSUME NEW s \in S, NEW C \in SUBSET S, s \in C, Steady(C) PROVE Ahead(s) \subseteq C
  BY <1>2
<1>3. ASSUME NEW s \in S, s \in Stop PROVE f[s] = out[s]
  <2>1. {s} \in SUBSET S /\ s \in {s} /\ Steady({s})
    BY <1>3
  <2> HIDE DEF Steady
  <2>2. Ahead(s) \subseteq {s}
    BY <2>1, <1>2
  <2>3. s \in Ahead(s)
    BY <1>1
  <2> HIDE DEF Ahead
  <2>4. end(s) = s
    BY <1>3, <2>2, <2>3
  <2> QED BY <2>4
<1>4. ASSUME NEW s \in S, s \notin Stop PROVE f[s] = f[next[s]]
  <2> DEFINE u == next[s]
  <2>1. u \in S
    BY <1>4
  <2>2. Ahead(u) \subseteq Ahead(s)
    <3>1. s \in Ahead(s) /\ Steady(Ahead(s)) /\ Ahead(s) \in SUBSET S
      BY <1>1
    <3>2. u \in Ahead(s)
      BY <3>1, <1>4
    <3> HIDE DEF Ahead, Steady, u
    <3> QED BY <2>1, <3>1, <3>2, <1>2
  <2>3. Ahead(s) \subseteq {s} \cup Ahead(u)
    <3>1. u \in Ahead(u) /\ Steady(Ahead(u)) /\ Ahead(u) \in SUBSET S
      BY <2>1, <1>1
    <3> HIDE DEF Ahead
    <3>2. Steady({s} \cup Ahead(u)) /\ {s} \cup Ahead(u) \in SUBSET S
      BY <3>1
    <3> HIDE DEF Steady
    <3> QED BY <3>2, <1>2
  <2> HIDE DEF Ahead
  <2>4. \A t \in S : t \in Ahead(s) /\ t \in Stop <=> t \in Ahead(u) /\ t \in Stop
    BY <1>4, <2>2, <2>3
  <2>5. end(s) = end(u)
    BY <2>4
  <2> HIDE DEF end, u
  <2>6. f[s] = f[u]
    BY <2>1, <2>5
  <2> QED BY <2>6 DEF u
<1> HIDE DEF end, Ahead
<1>5. DOMAIN f = S
  OBVIOUS
<1>6. f = [s \in S |-> IF s \in Stop THEN out[s] ELSE f[next[s]]]
  <2>1. f = [s \in S |-> f[s]]
    OBVIOUS
  <2> HIDE DEF f
  <2> QED BY <2>1, <1>3, <1>4
<1> QED BY <1>6 DEF Loops

-----------------------------------------------------------------------------
(* Paths and distances in b, which gives what is beside each of K *)

Path(b, K, x, y, n) ==
  \E p \in [0..n -> K] : p[0] = x /\ p[n] = y /\ \A i \in 0..(n - 1) : p[i + 1] \in b[p[i]]

\* The length of a shortest path.
Far(b, K, x, y, n) ==
  Path(b, K, x, y, n) /\ \A m \in Nat : Path(b, K, x, y, m) => n <= m

LEMMA PathBack ==
  ASSUME NEW K, NEW b, NEW c, \A x, y \in K : y \in b[x] <=> x \in c[y],
         NEW x, NEW y, NEW n \in Nat, Path(b, K, x, y, n)
  PROVE  Path(c, K, y, x, n)
<1>1. PICK p \in [0..n -> K] : p[0] = x /\ p[n] = y /\ \A i \in 0..(n - 1) : p[i + 1] \in b[p[i]]
  BY DEF Path
<1> DEFINE r == [i \in 0..n |-> p[n - i]]
<1>2. r \in [0..n -> K] /\ r[0] = y /\ r[n] = x
  BY <1>1
<1>3. ASSUME NEW i \in 0..(n - 1) PROVE r[i + 1] \in c[r[i]]
  <2>1. n - (i + 1) \in 0..(n - 1) /\ (n - (i + 1)) + 1 = n - i /\ n - i \in 0..n /\ n - (i + 1) \in 0..n
    OBVIOUS
  <2>2. p[n - i] \in b[p[n - (i + 1)]]
    BY <2>1, <1>1
  <2>3. p[n - (i + 1)] \in c[p[n - i]]
    BY <2>1, <2>2
  <2>4. i \in 0..n /\ i + 1 \in 0..n
    OBVIOUS
  <2>5. r[i + 1] = p[n - (i + 1)] /\ r[i] = p[n - i]
    BY <2>4
  <2> QED BY <2>3, <2>5
<1> HIDE DEF r
<1> QED BY <1>2, <1>3 DEF Path

LEMMA FarBack ==
  ASSUME NEW K, NEW b, NEW c, \A x, y \in K : y \in b[x] <=> x \in c[y],
         NEW x, NEW y, NEW n \in Nat, Far(b, K, x, y, n)
  PROVE  Far(c, K, y, x, n)
<1>1. \A u, v \in K : v \in c[u] <=> u \in b[v]
  OBVIOUS
<1>2. Path(c, K, y, x, n)
  BY PathBack DEF Far
<1>3. \A m \in Nat : Path(c, K, y, x, m) => Path(b, K, x, y, m)
  BY <1>1, PathBack
<1> QED BY <1>2, <1>3 DEF Far

LEMMA PathStart ==
  ASSUME NEW K, NEW b, NEW x \in K
  PROVE  Path(b, K, x, x, 0) /\ \A y : Path(b, K, x, y, 0) => x = y
<1> DEFINE p == [i \in 0..0 |-> x]
<1>1. p \in [0..0 -> K] /\ p[0] = x /\ \A i \in 0..(0 - 1) : p[i + 1] \in b[p[i]]
  OBVIOUS
<1> HIDE DEF p
<1> QED BY <1>1 DEF Path

LEMMA PathMore ==
  ASSUME NEW K, NEW b, NEW x, NEW y, NEW n \in Nat, Path(b, K, x, y, n), NEW z \in K, z \in b[y]
  PROVE  Path(b, K, x, z, n + 1)
<1>1. PICK p \in [0..n -> K] : p[0] = x /\ p[n] = y /\ \A i \in 0..(n - 1) : p[i + 1] \in b[p[i]]
  BY DEF Path
<1> DEFINE r == [i \in 0..(n + 1) |-> IF i = n + 1 THEN z ELSE p[i]]
<1>2. r \in [0..(n + 1) -> K] /\ r[0] = x /\ r[n + 1] = z
  BY <1>1
<1>3. ASSUME NEW i \in 0..n PROVE r[i + 1] \in b[r[i]]
  <2>1. CASE i = n
    BY <1>1, <2>1
  <2>2. CASE i # n
    <3>1. i \in 0..(n - 1) /\ i + 1 # n + 1
      BY <2>2
    <3>2. r[i] = p[i] /\ r[i + 1] = p[i + 1]
      BY <3>1
    <3> QED BY <1>1, <3>1, <3>2
  <2> QED BY <2>1, <2>2
<1>4. (n + 1) - 1 = n
  OBVIOUS
<1> HIDE DEF r
<1> QED BY <1>2, <1>3, <1>4 DEF Path

LEMMA PathLess ==
  ASSUME NEW K, NEW b, NEW x, NEW z, NEW n \in Nat, Path(b, K, x, z, n + 1)
  PROVE  \E y \in K : Path(b, K, x, y, n) /\ z \in b[y] /\ z \in K
<1>1. PICK p \in [0..(n + 1) -> K] :
        p[0] = x /\ p[n + 1] = z /\ \A i \in 0..((n + 1) - 1) : p[i + 1] \in b[p[i]]
  BY DEF Path
<1> DEFINE r == [i \in 0..n |-> p[i]]
<1>2. r \in [0..n -> K] /\ r[0] = x /\ r[n] = p[n]
  BY <1>1
<1>3. \A i \in 0..(n - 1) : r[i + 1] \in b[r[i]]
  BY <1>1
<1>4. p[n] \in K /\ z \in b[p[n]] /\ z \in K
  BY <1>1
<1> HIDE DEF r
<1> QED BY <1>2, <1>3, <1>4 DEF Path

LEMMA FarLess ==
  ASSUME NEW K, NEW b, NEW x, NEW z, NEW n \in Nat, Far(b, K, x, z, n + 1)
  PROVE  \E y \in K : Far(b, K, x, y, n) /\ z \in b[y] /\ z \in K
<1>1. PICK y \in K : Path(b, K, x, y, n) /\ z \in b[y] /\ z \in K
  BY PathLess DEF Far
<1>2. ASSUME NEW m \in Nat, Path(b, K, x, y, m) PROVE n <= m
  <2>1. Path(b, K, x, z, m + 1)
    BY <1>1, <1>2, PathMore
  <2>2. n + 1 <= m + 1
    BY <2>1 DEF Far
  <2> QED BY <2>2
<1> QED BY <1>1, <1>2 DEF Far

LEMMA FarIs ==
  ASSUME NEW K, NEW b, NEW x, NEW y, NEW n \in Nat
  PROVE  /\ Path(b, K, x, y, n) => \E m \in Nat : m <= n /\ Far(b, K, x, y, m)
         /\ \A m \in Nat : Far(b, K, x, y, n) /\ Far(b, K, x, y, m) => n = m
<1>1. ASSUME Path(b, K, x, y, n) PROVE \E m \in Nat : m <= n /\ Far(b, K, x, y, m)
  <2> DEFINE T == {m \in Nat : Path(b, K, x, y, m)}
  <2>1. T \subseteq Nat /\ n \in T
    BY <1>1
  <2>2. PICK m \in T : \A i \in T : m <= i
    BY <2>1, MinNat
  <2>3. m \in Nat /\ m <= n /\ Far(b, K, x, y, m)
    BY <2>1, <2>2 DEF Far
  <2> QED BY <2>3
<1>2. ASSUME NEW m \in Nat, Far(b, K, x, y, n), Far(b, K, x, y, m) PROVE n = m
  <2>1. n <= m /\ m <= n
    BY <1>2 DEF Far
  <2> QED BY <2>1
<1> QED BY <1>1, <1>2

-----------------------------------------------------------------------------
(* The breadth-first search *)

Beside(g, q, out, k) == IF out THEN Outbound(g, q, k) ELSE Inbound(g, q, k)

\* K can hold all that walks find.
Walkable(g, q, K) == IsFiniteSet(K) /\ K \subseteq Name /\ q.max \in Nat

\* The states of the search: what was found, and the queue.  A step takes the head
\* of the queue, and what is fresh beside it is found and queued.
Searches == (SUBSET (Name \X Nat)) \X Seq(Name \X Nat)
Fresh(g, q, out, a, F, h) ==
  IF h[2] >= q.max THEN {}
  ELSE {<<k, h[2] + 1>> : k \in {j \in Beside(g, q, out, h[1]) : j # a /\ \A f \in F : f[1] # j}}
Further(g, q, out, a, s) ==
  <<s[1] \cup Fresh(g, q, out, a, s[1], Head(s[2])),
    Tail(s[2]) \o InSomeOrder(Fresh(g, q, out, a, s[1], Head(s[2])))>>

LEMMA FreshIn ==
  ASSUME NEW g, NEW q, NEW out, NEW a, NEW K, Walkable(g, q, K),
         \A k \in Name : Beside(g, q, out, k) \subseteq K,
         NEW F, NEW h \in Name \X Nat
  PROVE  /\ IsFiniteSet(Fresh(g, q, out, a, F, h))
         /\ Fresh(g, q, out, a, F, h) \subseteq K \X Nat
<1> DEFINE X == Fresh(g, q, out, a, F, h)
           n == h[2] + 1
<1>1. h[1] \in Name /\ n \in Nat
  OBVIOUS
<1>2. X \subseteq K \X {n}
  BY <1>1 DEF Fresh
<1>3. IsFiniteSet(K \X {n})
  BY FS_Product, FS_Singleton DEF Walkable
<1>4. X \in SUBSET (K \X {n})
  BY <1>2
<1> HIDE DEF X
<1>5. IsFiniteSet(X)
  BY <1>3, <1>4, FS_Subset
<1> QED BY <1>1, <1>2, <1>5 DEF X

LEMMA FurtherIn ==
  ASSUME NEW g, NEW q, NEW out, NEW a, NEW K, Walkable(g, q, K),
         \A k \in Name : Beside(g, q, out, k) \subseteq K,
         NEW s \in Searches, s[2] # <<>>
  PROVE  Further(g, q, out, a, s) \in Searches
<1> DEFINE X == Fresh(g, q, out, a, s[1], Head(s[2]))
<1>1. s[1] \subseteq Name \X Nat /\ s[2] \in Seq(Name \X Nat)
  BY DEF Searches
<1>2. Head(s[2]) \in Name \X Nat /\ Tail(s[2]) \in Seq(Name \X Nat)
  BY <1>1
<1>3. IsFiniteSet(X) /\ X \subseteq Name \X Nat
  <2>1. IsFiniteSet(X) /\ X \subseteq K \X Nat
    BY <1>2, FreshIn
  <2> QED BY <2>1 DEF Walkable
<1> HIDE DEF X
<1>4. InSomeOrder(X) \in Seq(X)
  BY <1>3, Ordered
<1>5. InSomeOrder(X) \in Seq(Name \X Nat)
  BY <1>3, <1>4
<1>6. Tail(s[2]) \o InSomeOrder(X) \in Seq(Name \X Nat)
  BY <1>2, <1>5
<1>7. s[1] \cup X \in SUBSET (Name \X Nat)
  BY <1>1, <1>3
<1> QED BY <1>6, <1>7 DEF Further, Searches, X

\* The recursion of the search has a solution.
LEMMA SearchIs ==
  ASSUME NEW g, NEW q, NEW out, NEW a, NEW K, Walkable(g, q, K),
         \A k \in Name : Beside(g, q, out, k) \subseteq K
  PROVE  \E f : /\ Walk(g, q, out, a) = f[<<{}, <<<<a, 0>>>>>>]
                /\ \A s \in Searches :
                     f[s] = IF s[2] = <<>> THEN s[1] ELSE f[Further(g, q, out, a, s)]
<1> DEFINE next == [s \in Searches |-> Further(g, q, out, a, s)]
           Stop == {s \in Searches : s[2] = <<>>}
           ended == [s \in Searches |-> s[1]]
           Is(f) == f = [s \in Searches |->
                           IF s[2] = <<>> THEN s[1] ELSE f[Further(g, q, out, a, s)]]
           search == CHOOSE f : Is(f)
<1>1. \A s \in Searches \ Stop : next[s] \in Searches
  BY FurtherIn
<1>2. PICK f : Loops(Searches, Stop, next, ended, f)
  <2> HIDE DEF Stop, next, ended
  <2> QED BY <1>1, LoopIsDefined
<1>3. Is(f)
  BY <1>2 DEF Loops
<1>4. Is(search)
  <2> HIDE DEF Is
  <2> QED BY <1>3
<1>5. Walk(g, q, out, a) = search[<<{}, <<<<a, 0>>>>>>]
  BY DEF Walk, Further, Fresh, Beside, Searches
<1>6. \A s \in Searches :
        search[s] = IF s[2] = <<>> THEN s[1] ELSE search[Further(g, q, out, a, s)]
  <2> HIDE DEF search
  <2> QED BY <1>4
<1> QED BY <1>5, <1>6

\* What a search from a is to find.
Found(b, K, a, max) == {w \in K \X (1..max) : Far(b, K, a, w[1], w[2])}

\* What holds of the search: it has found only what there is, at its distance; the
\* queue holds found documents, the nearer first, of two distances at most; and what
\* is beside a document that has left the queue has been found.
Searched(b, K, a, max, F, Q) ==
  /\ F \subseteq Found(b, K, a, max)
  /\ Q \in Seq(K \X Nat)
  /\ \A i \in 1..Len(Q) : Q[i] \in F \cup {<<a, 0>>}
  /\ \A i, j \in 1..Len(Q) : i <= j => Q[i][2] <= Q[j][2] /\ Q[j][2] <= Q[1][2] + 1
  /\ \A w \in F \cup {<<a, 0>>} :
       \/ \E i \in 1..Len(Q) : Q[i] = w
       \/ w[2] < max => \A z \in b[w[1]] : z = a \/ \E n \in Nat : <<z, n>> \in F

\* Whatever is no farther than the head of the queue has been found.
LEMMA NearIsFound ==
  ASSUME NEW K, NEW b \in [K -> SUBSET K], NEW a \in K, NEW max \in Nat, NEW F, NEW Q,
         Searched(b, K, a, max, F, Q),
         NEW x \in K, NEW n \in Nat, n <= max, Far(b, K, a, x, n),
         Q = <<>> \/ n <= Q[1][2]
  PROVE  <<x, n>> \in F \cup {<<a, 0>>}
<1> DEFINE Missed(m, y) == /\ m <= max /\ Far(b, K, a, y, m) /\ (Q = <<>> \/ m <= Q[1][2])
                           /\ <<y, m>> \notin F \cup {<<a, 0>>}
           T == {m \in Nat : \E y \in K : Missed(m, y)}
<1>0. <<x, n>> \notin F \cup {<<a, 0>>} => Missed(n, x)
  OBVIOUS
<1> SUFFICES ASSUME n \in T PROVE FALSE
  <2> HIDE DEF Missed
  <2> QED BY <1>0
<1>1. PICK m \in T : \A i \in T : m <= i
  <2>1. T \subseteq Nat /\ T # {}
    OBVIOUS
  <2> HIDE DEF T
  <2> QED BY <2>1, MinNat
<1>2. m \in Nat
  OBVIOUS
<1>3. PICK y \in K : Missed(m, y)
  OBVIOUS
<1>4. Far(b, K, a, a, 0)
  BY PathStart DEF Far
<1>5. m # 0
  <2> SUFFICES ASSUME m = 0 PROVE FALSE
    OBVIOUS
  <2>1. a = y
    BY <1>3, PathStart DEF Far
  <2> QED BY <1>3, <2>1
<1> DEFINE j == m - 1
<1>6. j \in Nat /\ m = j + 1
  BY <1>2, <1>5
<1> HIDE DEF j
<1>7. PICK z \in K : Far(b, K, a, z, j) /\ y \in b[z]
  BY <1>3, <1>6, FarLess
<1>8. j \notin T
  <2> HIDE DEF T
  <2> SUFFICES ASSUME j \in T PROVE FALSE
    OBVIOUS
  <2>1. m <= j
    BY <1>1
  <2> QED BY <1>6, <2>1
<1>9. Q = <<>> \/ j < Q[1][2]
  <2>1. CASE Q = <<>>
    BY <2>1
  <2>2. CASE Q # <<>>
    <3>1. 1 \in 1..Len(Q) /\ Q[1] \in K \X Nat
      BY <2>2 DEF Searched
    <3>2. Q[1][2] \in Nat
      BY <3>1
    <3> QED BY <1>3, <1>6, <2>2, <3>2
  <2> QED BY <2>1, <2>2
<1>10. <<z, j>> \in F \cup {<<a, 0>>}
  <2>1. ~Missed(j, z)
    BY <1>6, <1>8
  <2>2. j <= max
    BY <1>3, <1>6
  <2>3. Q = <<>> \/ j <= Q[1][2]
    <3>1. CASE Q = <<>>
      BY <3>1
    <3>2. CASE Q # <<>>
      <4>1. 1 \in 1..Len(Q) /\ Q[1] \in K \X Nat
        BY <3>2 DEF Searched
      <4> QED BY <1>6, <1>9, <3>2, <4>1
    <3> QED BY <3>1, <3>2
  <2> QED BY <1>7, <2>1, <2>2, <2>3
<1>11. ~\E i \in 1..Len(Q) : Q[i] = <<z, j>>
  <2> SUFFICES ASSUME NEW i \in 1..Len(Q), Q[i] = <<z, j>> PROVE FALSE
    OBVIOUS
  <2>1. 1 \in 1..Len(Q) /\ 1 <= i /\ Q[1] \in K \X Nat /\ Q # <<>>
    BY DEF Searched
  <2>2. Q[1][2] <= Q[i][2]
    BY <2>1 DEF Searched
  <2>3. Q[1][2] <= j /\ Q[1][2] \in Nat
    BY <2>1, <2>2
  <2> QED BY <1>6, <1>9, <2>1, <2>3
<1>12. y = a \/ \E i \in Nat : <<y, i>> \in F
  <2>1. j < max
    BY <1>3, <1>6
  <2>2. <<z, j>>[2] < max => \A u \in b[<<z, j>>[1]] : u = a \/ \E i \in Nat : <<u, i>> \in F
    BY <1>10, <1>11 DEF Searched
  <2> QED BY <1>7, <2>1, <2>2
<1>13. CASE y = a
  BY <1>2, <1>3, <1>4, <1>5, <1>13, FarIs
<1>14. CASE \E i \in Nat : <<y, i>> \in F
  <2>1. PICK i \in Nat : <<y, i>> \in F
    BY <1>14
  <2>2. Far(b, K, a, y, i)
    BY <2>1 DEF Searched, Found
  <2>3. i = m
    BY <1>2, <1>3, <2>2, FarIs
  <2> QED BY <1>3, <2>1, <2>3
<1> QED BY <1>12, <1>13, <1>14

LEMMA SearchStarts ==
  ASSUME NEW K, NEW b, NEW a \in K, NEW max
  PROVE  Searched(b, K, a, max, {}, <<<<a, 0>>>>)
<1> DEFINE Q == <<<<a, 0>>>>
<1>1. Q \in Seq(K \X Nat) /\ Len(Q) = 1 /\ Q[1] = <<a, 0>>
  OBVIOUS
<1> HIDE DEF Q
<1>2. \A i \in 1..Len(Q) : Q[i] = <<a, 0>>
  BY <1>1
<1>3. \A w \in {} \cup {<<a, 0>>} : Q[1] = w /\ 1 \in 1..Len(Q)
  BY <1>1
<1>4. \A i, j \in 1..Len(Q) : i <= j => Q[i][2] <= Q[j][2] /\ Q[j][2] <= Q[1][2] + 1
  BY <1>1, <1>2
<1>5. Searched(b, K, a, max, {}, Q)
  BY <1>1, <1>2, <1>3, <1>4 DEF Searched
<1> QED BY <1>5 DEF Q

LEMMA SearchEnds ==
  ASSUME NEW K, NEW b \in [K -> SUBSET K], NEW a \in K, NEW max \in Nat, NEW F,
         Searched(b, K, a, max, F, <<>>)
  PROVE  F = Found(b, K, a, max)
<1>1. F \subseteq Found(b, K, a, max)
  BY DEF Searched
<1>2. ASSUME NEW w \in Found(b, K, a, max) PROVE w \in F
  <2>1. w[1] \in K /\ w[2] \in 1..max /\ Far(b, K, a, w[1], w[2]) /\ w = <<w[1], w[2]>>
    BY DEF Found
  <2>2. w[2] \in Nat /\ w[2] <= max /\ w[2] # 0
    BY <2>1
  <2>3. <<w[1], w[2]>> \in F \cup {<<a, 0>>}
    BY <2>1, <2>2, NearIsFound
  <2>4. <<w[1], w[2]>> # <<a, 0>>
    BY <2>2
  <2> QED BY <2>1, <2>3, <2>4
<1> QED BY <1>1, <1>2

\* What is fresh beside the head of the queue.
FreshBeside(b, a, max, F, h) ==
  IF h[2] >= max THEN {}
  ELSE {<<k, h[2] + 1>> : k \in {j \in b[h[1]] : j # a /\ \A f \in F : f[1] # j}}

LEMMA Joins ==
  ASSUME NEW S, NEW T \in Seq(S), NEW O \in Seq(S)
  PROVE  /\ T \o O \in Seq(S)
         /\ Len(T \o O) = Len(T) + Len(O)
         /\ \A i \in 1..Len(T) : (T \o O)[i] = T[i]
         /\ \A i \in 1..Len(O) : Len(T) + i \in 1..Len(T \o O) /\ (T \o O)[Len(T) + i] = O[i]
<1>1. T \o O \in Seq(S) /\ Len(T \o O) = Len(T) + Len(O)
  OBVIOUS
<1>2. \A i \in 1..Len(T) : (T \o O)[i] = T[i]
  OBVIOUS
<1>3. ASSUME NEW i \in 1..Len(O)
      PROVE  Len(T) + i \in 1..Len(T \o O) /\ (T \o O)[Len(T) + i] = O[i]
  OBVIOUS
<1> QED BY <1>1, <1>2, <1>3

\* A step of the search with X for what is fresh, and what it comes to.
StepsWith(b, a, max, F, Q, X) ==
  Q # <<>> /\ IsFiniteSet(X) /\ X = FreshBeside(b, a, max, F, Q[1])
StepsTo(b, K, a, max, F, Q, X) ==
  /\ X \subseteq Found(b, K, a, max) /\ \A x \in X : x \notin F
  /\ Searched(b, K, a, max, F \cup X, Tail(Q) \o InSomeOrder(X))

LEMMA SearchGoesOn ==
  ASSUME NEW K, NEW b \in [K -> SUBSET K], NEW a \in K, NEW max \in Nat, NEW F, NEW Q,
         Searched(b, K, a, max, F, Q),
         NEW X, StepsWith(b, a, max, F, Q, X)
  PROVE  StepsTo(b, K, a, max, F, Q, X)
<1> DEFINE h == Q[1]
           d == h[2]
           T == Tail(Q)
           O == InSomeOrder(X)
           P == T \o O
           G == F \cup X
<1>0. Q # <<>> /\ IsFiniteSet(X) /\ X = FreshBeside(b, a, max, F, Q[1])
  BY DEF StepsWith
<1>1. /\ 1 \in 1..Len(Q) /\ h \in K \X Nat /\ d \in Nat /\ h[1] \in K /\ h = <<h[1], d>>
      /\ Q \in Seq(K \X Nat)
  BY <1>0 DEF Searched
<1>d. d \in Nat
  BY <1>1
<1>2. Path(b, K, a, h[1], d)
  <2>1. h \in F \cup {<<a, 0>>}
    BY <1>1 DEF Searched
  <2>2. CASE h \in F
    BY <2>2 DEF Searched, Found, Far
  <2>3. CASE h = <<a, 0>>
    <3>1. h[1] = a /\ d = 0
      BY <2>3
    <3> QED BY <3>1, PathStart
  <2> QED BY <2>1, <2>2, <2>3
<1>3. ASSUME NEW x \in X
      PROVE  /\ d < max /\ x = <<x[1], d + 1>> /\ x[1] \in K /\ x[1] \in b[h[1]] /\ x[1] # a
             /\ \A f \in F : f[1] # x[1]
  BY <1>0, <1>1, <1>3 DEF FreshBeside
<1>4. \A z \in b[h[1]] : d < max => z = a \/ (\E f \in F : f[1] = z) \/ <<z, d + 1>> \in X
  BY <1>0, <1>1 DEF FreshBeside
<1> HIDE DEF d, h
<1>5. ASSUME NEW x \in X PROVE x \in Found(b, K, a, max) /\ x \notin F
  <2> DEFINE k == x[1]
  <2>1. d < max /\ x = <<k, d + 1>> /\ k \in K /\ k \in b[h[1]] /\ k # a /\ \A f \in F : f[1] # k
    BY <1>3
  <2> HIDE DEF k
  <2>2. Path(b, K, a, k, d + 1)
    BY <1>1, <1>2, <2>1, PathMore
  <2>3. PICK m \in Nat : m <= d + 1 /\ Far(b, K, a, k, m)
    BY <1>1, <2>2, FarIs
  <2>4. m = d + 1
    <3> SUFFICES ASSUME m # d + 1 PROVE FALSE
      OBVIOUS
    <3>1. m <= d /\ m <= max
      BY <1>1, <2>1, <2>3
    <3>2. <<k, m>> \in F \cup {<<a, 0>>}
      BY <2>1, <2>3, <3>1, NearIsFound DEF d, h
    <3> QED BY <2>1, <3>2
  <2>5. d + 1 \in 1..max
    BY <1>1, <2>1
  <2>6. x \in Found(b, K, a, max)
    BY <2>1, <2>3, <2>4, <2>5 DEF Found
  <2>7. x \notin F
    BY <2>1
  <2> QED BY <2>6, <2>7
<1>6. X \subseteq K \X Nat /\ \A x \in X : x[2] = d + 1
  <2>1. ASSUME NEW x \in X PROVE x \in K \X Nat /\ x[2] = d + 1
    <3>1. x = <<x[1], d + 1>> /\ x[1] \in K
      BY <1>3
    <3> QED BY <1>1, <3>1
  <2> QED BY <2>1
<1> HIDE DEF d
<1>7. /\ O \in Seq(X) /\ \A x \in X : \E i \in 1..Len(O) : O[i] = x
      /\ O \in Seq(K \X Nat) /\ \A i \in 1..Len(O) : O[i] \in X
  <2>1. O \in Seq(X) /\ \A x \in X : \E i \in 1..Len(O) : O[i] = x
    BY <1>0, Ordered
  <2> HIDE DEF O
  <2> QED BY <1>6, <2>1
<1> HIDE DEF O
<1>8. T \in Seq(K \X Nat) /\ Len(T) = Len(Q) - 1 /\ \A i \in 1..Len(T) : T[i] = Q[i + 1]
  BY <1>0, <1>1
<1> HIDE DEF T
<1>9. /\ P \in Seq(K \X Nat) /\ Len(P) = Len(T) + Len(O)
      /\ \A i \in 1..Len(T) : P[i] = T[i]
      /\ \A i \in 1..Len(O) : Len(T) + i \in 1..Len(P) /\ P[Len(T) + i] = O[i]
  <2>1. T \in Seq(K \X Nat) /\ O \in Seq(K \X Nat)
    BY <1>7, <1>8
  <2> HIDE DEF P
  <2>2. P = T \o O
    BY DEF P
  <2> QED BY <2>1, <2>2, Joins
<1> HIDE DEF P
<1>l. Len(T) \in Nat /\ Len(O) \in Nat /\ Len(Q) \in Nat /\ Len(P) \in Nat
  BY <1>1, <1>7, <1>8, <1>9
<1>10. \A i \in 1..Len(P) : (i \in 1..Len(T) /\ P[i] = Q[i + 1] /\ i + 1 \in 1..Len(Q))
                         \/ (i > Len(T) /\ P[i] \in X)
  <2> SUFFICES ASSUME NEW i \in 1..Len(P)
               PROVE  (i \in 1..Len(T) /\ P[i] = Q[i + 1] /\ i + 1 \in 1..Len(Q))
                         \/ (i > Len(T) /\ P[i] \in X)
    OBVIOUS
  <2>2. CASE i <= Len(T)
    <3>1. i \in 1..Len(T) /\ i + 1 \in 1..Len(Q)
      BY <1>8, <1>l, <2>2
    <3> QED BY <1>8, <1>9, <3>1
  <2>3. CASE i > Len(T)
    <3>1. i - Len(T) \in 1..Len(O) /\ Len(T) + (i - Len(T)) = i
      BY <1>9, <1>l, <2>3
    <3>2. P[i] = O[i - Len(T)]
      BY <1>9, <3>1
    <3> QED BY <1>7, <2>3, <3>1, <3>2
  <2> QED BY <1>l, <2>2, <2>3
<1>11. G \subseteq Found(b, K, a, max) /\ X \subseteq Found(b, K, a, max) /\ \A x \in X : x \notin F
  BY <1>5 DEF Searched
<1>12. \A i \in 1..Len(P) : P[i] \in G \cup {<<a, 0>>}
  BY <1>10 DEF Searched
\* The queue has the rest of the old one, of distances d and d + 1, then d + 1.
<1>13. \A i \in 1..Len(Q) : Q[i][2] \in Nat /\ d <= Q[i][2] /\ Q[i][2] <= d + 1
  <2> SUFFICES ASSUME NEW i \in 1..Len(Q)
               PROVE  Q[i][2] \in Nat /\ d <= Q[i][2] /\ Q[i][2] <= d + 1
    OBVIOUS
  <2>1. 1 <= i /\ Q[i] \in K \X Nat
    BY <1>1
  <2> QED BY <1>1, <2>1 DEF Searched, d, h
<1>14. \A i \in 1..Len(P) : P[i][2] \in Nat /\ d <= P[i][2] /\ P[i][2] <= d + 1
  <2> SUFFICES ASSUME NEW i \in 1..Len(P)
               PROVE  P[i][2] \in Nat /\ d <= P[i][2] /\ P[i][2] <= d + 1
    OBVIOUS
  <2>1. CASE i + 1 \in 1..Len(Q) /\ P[i] = Q[i + 1]
    BY <1>13, <2>1
  <2>2. CASE P[i] \in X
    BY <1>1, <1>6, <2>2
  <2> QED BY <1>10, <2>1, <2>2
<1>15. \A i, j \in 1..Len(P) : i <= j => P[i][2] <= P[j][2] /\ P[j][2] <= P[1][2] + 1
  <2> SUFFICES ASSUME NEW i \in 1..Len(P), NEW j \in 1..Len(P), i <= j
               PROVE  P[i][2] <= P[j][2] /\ P[j][2] <= P[1][2] + 1
    OBVIOUS
  <2>1. 1 \in 1..Len(P) /\ P[1][2] \in Nat /\ d <= P[1][2] /\ P[j][2] \in Nat /\ P[j][2] <= d + 1
    <3>1. 1 \in 1..Len(P)
      BY <1>l
    <3> QED BY <1>14, <3>1
  <2>2. P[j][2] <= P[1][2] + 1
    BY <1>d, <2>1
  <2>3. CASE j \in 1..Len(T) /\ P[j] = Q[j + 1] /\ j + 1 \in 1..Len(Q)
    <3>1. i \in 1..Len(T)
      <4>1. j \in 1..Len(T)
        BY <2>3
      <4>2. Len(T) \in Nat /\ Len(P) \in Nat
        BY <1>l
      <4> QED BY <4>1, <4>2
    <3>2. P[i] = Q[i + 1] /\ i + 1 \in 1..Len(Q)
      BY <1>l, <1>10, <3>1
    <3>3. i + 1 <= j + 1
      OBVIOUS
    <3> QED BY <2>2, <2>3, <3>2, <3>3 DEF Searched
  <2>4. CASE j > Len(T) /\ P[j] \in X
    <3>1. P[j][2] = d + 1
      BY <1>6, <2>4
    <3> QED BY <1>14, <2>2, <3>1
  <2> QED BY <1>10, <2>3, <2>4, <2>2
<1>16. ASSUME NEW w \in G \cup {<<a, 0>>}, ~\E i \in 1..Len(P) : P[i] = w
       PROVE  w[2] < max => \A z \in b[w[1]] : z = a \/ \E n \in Nat : <<z, n>> \in G
  <2>1. w \notin X
    <3> SUFFICES ASSUME w \in X PROVE FALSE
      OBVIOUS
    <3>1. PICK i \in 1..Len(O) : O[i] = w
      BY <1>7
    <3>2. P[Len(T) + i] = w /\ Len(T) + i \in 1..Len(P)
      BY <1>9, <3>1
    <3> QED BY <1>16, <3>2
  <2>2. w \in F \cup {<<a, 0>>}
    BY <2>1
  <2>3. \A i \in 1..Len(Q) : Q[i] = w => i = 1
    <3> SUFFICES ASSUME NEW i \in 1..Len(Q), Q[i] = w, i # 1 PROVE FALSE
      OBVIOUS
    <3>1. i - 1 \in 1..Len(T) /\ (i - 1) + 1 = i /\ i - 1 \in 1..Len(P)
      BY <1>7, <1>8, <1>9
    <3>2. P[i - 1] = w
      BY <1>8, <1>9, <3>1
    <3> QED BY <1>16, <3>1, <3>2
  <2>4. CASE w = h
    <3> SUFFICES ASSUME d < max, NEW z \in b[h[1]], z # a PROVE \E n \in Nat : <<z, n>> \in G
      BY <2>4 DEF d
    <3>1. (\E f \in F : f[1] = z) \/ <<z, d + 1>> \in X
      BY <1>4
    <3>2. \A f \in F : f = <<f[1], f[2]>> /\ f[2] \in Nat
      BY DEF Searched, Found
    <3>3. d + 1 \in Nat
      BY <1>1
    <3> QED BY <3>1, <3>2, <3>3
  <2>5. CASE w # h
    <3>1. ~\E i \in 1..Len(Q) : Q[i] = w
      BY <2>3, <2>5 DEF h
    <3>2. w[2] < max => \A z \in b[w[1]] : z = a \/ \E n \in Nat : <<z, n>> \in F
      BY <2>2, <3>1 DEF Searched
    <3> QED BY <3>2
  <2> QED BY <2>4, <2>5
<1> HIDE DEF G
<1>17. Searched(b, K, a, max, G, P)
  BY <1>9, <1>11, <1>12, <1>15, <1>16 DEF Searched
<1> QED BY <1>11, <1>17 DEF P, T, O, G, StepsTo

\* Each step leaves less to be found, or as much and a shorter queue.
IsAmong(X, V, F) == X \subseteq V /\ \A x \in X : x \notin F
Takes(X, V, F) ==
  /\ Cardinality(V \ F) \in Nat /\ Cardinality(X) \in Nat
  /\ Cardinality(V \ (F \cup X)) = Cardinality(V \ F) - Cardinality(X)

LEMMA SearchShrinks ==
  ASSUME NEW V, IsFiniteSet(V), NEW F, NEW X, IsAmong(X, V, F)
  PROVE  Takes(X, V, F)
<1> DEFINE W == V \ F
<1>1. IsFiniteSet(W) /\ Cardinality(W) \in Nat
  <2>1. W \in SUBSET V
    OBVIOUS
  <2> HIDE DEF W
  <2> QED BY <2>1, FS_Subset, FS_CardinalityType
<1>2. X \in SUBSET V /\ X \subseteq W
  BY DEF IsAmong
<1>3. IsFiniteSet(X) /\ Cardinality(X) \in Nat
  BY <1>2, FS_Subset, FS_CardinalityType
<1>4. V \ (F \cup X) = W \ X /\ W \cap X = X
  BY <1>2
<1> HIDE DEF W
<1>5. Cardinality(W \ X) = Cardinality(W) - Cardinality(W \cap X)
  BY <1>1, FS_Difference
<1> QED BY <1>1, <1>3, <1>4, <1>5 DEF W, Takes

\* The searches of walk.rs end, and have then found every document that steps lead to
\* within max, and no other, each at the length of a shortest way: a document that is
\* marked when first met is never met too far.  K is any finite set that the steps
\* from a name stay in, Found the definition by paths.
THEOREM WalkFinds ==
  ASSUME NEW g, NEW q, NEW out, NEW K, Walkable(g, q, K),
         \A k \in Name : Beside(g, q, out, k) \subseteq K, NEW a \in K
  PROVE  Walk(g, q, out, a) = Found([k \in K |-> Beside(g, q, out, k)], K, a, q.max)
<1> DEFINE b == [k \in K |-> Beside(g, q, out, k)]
           V == Found(b, K, a, q.max)
           Good(s) == Searched(b, K, a, q.max, s[1], s[2])
           start == <<{}, <<<<a, 0>>>>>>
           left(s) == 2 * Cardinality(V \ s[1]) + Len(s[2])
<1>1. IsFiniteSet(K) /\ K \subseteq Name /\ q.max \in Nat /\ b \in [K -> SUBSET K]
  BY DEF Walkable
<1>2. PICK f : /\ Walk(g, q, out, a) = f[start]
               /\ \A s \in Searches :
                    f[s] = IF s[2] = <<>> THEN s[1] ELSE f[Further(g, q, out, a, s)]
  BY SearchIs
<1>3. start \in Searches /\ Good(start)
  <2>1. Searched(b, K, a, q.max, {}, <<<<a, 0>>>>)
    BY SearchStarts
  <2>2. <<<<a, 0>>>> \in Seq(Name \X Nat)
    BY <1>1
  <2> QED BY <2>1, <2>2 DEF Searches
<1>4. IsFiniteSet(V)
  <2>1. IsFiniteSet(1..q.max)
    BY <1>1, FS_Interval
  <2>2. IsFiniteSet(K \X (1..q.max))
    BY <1>1, <2>1, FS_Product
  <2>3. V \in SUBSET (K \X (1..q.max))
    BY DEF Found
  <2> QED BY <2>2, <2>3, FS_Subset
<1>5. ASSUME NEW s \in Searches, Good(s), s[2] # <<>>
      PROVE  LET u == Further(g, q, out, a, s)
             IN u \in Searches /\ Good(u) /\ left(u) \in Nat /\ left(s) \in Nat /\ left(u) < left(s)
  <2> DEFINE F == s[1]
             Q == s[2]
             X == Fresh(g, q, out, a, F, Head(Q))
             O == InSomeOrder(X)
             u == Further(g, q, out, a, s)
  <2>1. u \in Searches
    BY <1>5, FurtherIn
  <2>2. Q \in Seq(K \X Nat) /\ Q # <<>> /\ Head(Q) = Q[1] /\ Q[1] \in K \X Nat /\ Q[1][1] \in K
    BY <1>5 DEF Searched
  <2>3. X = FreshBeside(b, a, q.max, F, Q[1])
    BY <2>2 DEF Fresh, FreshBeside
  <2>4. IsFiniteSet(X)
    <3>1. Head(Q) \in Name \X Nat
      BY <1>1, <2>2
    <3> QED BY <3>1, FreshIn
  <2>5. u = <<F \cup X, Tail(Q) \o O>>
    BY DEF Further
  <2> HIDE DEF X, b, F, Q
  <2>6. /\ X \subseteq V /\ \A x \in X : x \notin F
        /\ Searched(b, K, a, q.max, F \cup X, Tail(Q) \o O)
    <3>1. Searched(b, K, a, q.max, F, Q)
      BY <1>5 DEF F, Q
    <3>2. b \in [K -> SUBSET K] /\ q.max \in Nat /\ Q # <<>>
      BY <1>1, <2>2
    <3>3. StepsWith(b, a, q.max, F, Q, X)
      BY <2>2, <2>3, <2>4 DEF StepsWith
    <3>4. StepsTo(b, K, a, q.max, F, Q, X)
      BY <3>1, <3>2, <3>3, SearchGoesOn
    <3> QED BY <3>4 DEF StepsTo, O
  <2> HIDE DEF V, O
  <2>7. /\ Cardinality(V \ F) \in Nat /\ Cardinality(X) \in Nat
        /\ Cardinality(V \ (F \cup X)) \in Nat
        /\ Cardinality(V \ (F \cup X)) = Cardinality(V \ F) - Cardinality(X)
    <3>1. /\ Cardinality(V \ F) \in Nat /\ Cardinality(X) \in Nat
          /\ Cardinality(V \ (F \cup X)) = Cardinality(V \ F) - Cardinality(X)
      <4>1. IsAmong(X, V, F)
        BY <2>6 DEF IsAmong
      <4>2. Takes(X, V, F)
        BY <1>4, <4>1, SearchShrinks
      <4> QED BY <4>2 DEF Takes
    <3>2. V \ (F \cup X) \in SUBSET V
      OBVIOUS
    <3>3. Cardinality(V \ (F \cup X)) \in Nat
      BY <1>4, <3>2, FS_Subset, FS_CardinalityType
    <3> QED BY <3>1, <3>3
  <2>8. Len(Tail(Q) \o O) = (Len(Q) - 1) + Cardinality(X) /\ Len(Q) \in Nat /\ Len(Q) > 0
    <3>1. O \in Seq(K \X Nat) /\ Len(O) = Cardinality(X)
      <4>1. InSomeOrder(X) \in Seq(X) /\ Len(InSomeOrder(X)) = Cardinality(X)
        BY <2>4, Ordered
      <4>2. X \subseteq K \X Nat
        BY <1>1, <2>2, FreshIn DEF X
      <4> QED BY <4>1, <4>2 DEF O
    <3>2. Tail(Q) \in Seq(K \X Nat) /\ Len(Tail(Q)) = Len(Q) - 1 /\ Len(Q) \in Nat /\ Len(Q) > 0
      BY <2>2
    <3>3. Len(Tail(Q) \o O) = Len(Tail(Q)) + Len(O)
      BY <3>1, <3>2, Joins
    <3> QED BY <3>1, <3>2, <3>3
  <2>9. left(u) = 2 * Cardinality(V \ (F \cup X)) + Len(Tail(Q) \o O)
    BY <2>5
  <2>10. left(s) = 2 * Cardinality(V \ F) + Len(Q)
    BY DEF F, Q
  <2>11. Good(u)
    BY <2>5, <2>6
  <2> HIDE DEF left, u
  <2>12. left(u) \in Nat /\ left(s) \in Nat /\ left(u) < left(s)
    BY <2>7, <2>8, <2>9, <2>10
  <2> QED BY <2>1, <2>11, <2>12 DEF u
<1>6. ASSUME NEW s \in Searches, Good(s), s[2] = <<>> PROVE f[s] = V
  <2>1. s[1] = V
    BY <1>1, <1>6, SearchEnds
  <2> QED BY <1>2, <1>6, <2>1
<1> HIDE DEF V, Good, left, b
<1> DEFINE Bad == {s \in Searches : Good(s) /\ s[2] # <<>> /\ f[s] # V}
           T == {left(s) : s \in Bad}
<1>7. Bad = {}
  <2> SUFFICES ASSUME Bad # {} PROVE FALSE
    OBVIOUS
  <2>1. T \subseteq Nat /\ T # {}
    BY <1>5
  <2>2. PICK n \in T : \A m \in T : n <= m
    BY <2>1, MinNat
  <2>3. PICK s \in Bad : n = left(s)
    OBVIOUS
  <2> DEFINE u == Further(g, q, out, a, s)
  <2>4. /\ u \in Searches /\ Good(u) /\ left(u) \in Nat /\ left(s) \in Nat /\ left(u) < left(s)
        /\ f[s] = f[u]
    BY <1>2, <1>5, <2>3
  <2> HIDE DEF u
  <2>5. u \notin Bad
    <3> SUFFICES ASSUME u \in Bad PROVE FALSE
      OBVIOUS
    <3>1. left(u) \in T
      OBVIOUS
    <3> HIDE DEF Bad, T
    <3>2. n <= left(u)
      BY <2>2, <3>1
    <3> QED BY <2>3, <2>4, <3>2
  <2>6. f[u] = V
    BY <1>6, <2>4, <2>5
  <2> QED BY <2>3, <2>4, <2>6
<1>8. f[start] = V
  <2> HIDE DEF start
  <2> QED BY <1>3, <1>6, <1>7
<1> QED BY <1>2, <1>8 DEF V, b

-----------------------------------------------------------------------------
(* The two directions *)

LEMMA OutboundIn ==
  ASSUME NEW g, Sound(g), NEW q, q.via = {}, NEW k
  PROVE  Outbound(g, q, k) \subseteq DOMAIN g.docs
<1> DEFINE links == IF k \in DOMAIN g.docs THEN g.docs[k] ELSE {}
           ofKind == {l \in links : l.kind = q.edges}
<1>1. links \subseteq Link
  BY DEF Sound, GraphOK
<1>2. CASE q.edges = "includes"
  <2>1. Outbound(g, q, k) = {Leads(g, l) : l \in ofKind} \ {NoKey}
    BY <1>2 DEF Outbound
  <2>2. \A l \in ofKind : Leads(g, l) = NoKey \/ Leads(g, l) \in DOMAIN g.docs
    BY <1>1, LeadsToDoc
  <2> HIDE DEF ofKind
  <2> QED BY <2>1, <2>2
<1>3. CASE q.edges # "includes"
  BY <1>3 DEF Outbound
<1> QED BY <1>2, <1>3

LEMMA InboundIn ==
  ASSUME NEW g, Sound(g), NEW q, NEW k
  PROVE  Inbound(g, q, k) \subseteq DOMAIN g.docs
<1>1. \A e \in g.edges : e.from \in DOMAIN g.docs
  BY ExactIs, EdgeOf DEF Sound
<1> QED BY <1>1 DEF Inbound, EdgesTo

\* For a document, to be led to and to be the target are one.
LEMMA LeadsIsTarget ==
  ASSUME NEW g, Sound(g), NEW y \in DOMAIN g.docs, NEW l \in Link
  PROVE  Leads(g, l) = y <=> TargetKey(g, l) = y
<1> DEFINE D == DOMAIN g.docs
<1>1. D \subseteq Key /\ g.buckets = BucketsOf(D) /\ y \in Key /\ y # NoKey
  BY Names, ExactIs DEF Sound, GraphOK
<1>2. CASE l.form = "path"
  <2>1. y \in g.buckets[BucketOf(y)]
    BY <1>1, InBucket
  <2> QED BY <1>1, <1>2, <2>1 DEF Leads, TargetKey
<1>3. CASE l.form # "path"
  <2> DEFINE r == Resolution(g, l.at)
             B == BucketsOf(D)[BucketOf(l.at)]
  <2>1. l.at \in Name
    BY Names DEF Link
  <2>2. r = Resolve(BucketsOf(D), l.at)
    BY <1>1, <2>1, ResolutionRight
  <2>3. /\ r.resolved \in BOOLEAN /\ (r.resolved <=> B # {}) /\ (~r.resolved => r.key = l.at)
    BY <1>1, <2>1, <2>2, ResolvedIs
  <2>4. /\ TargetKey(g, l) = r.key
        /\ Leads(g, l) = IF r.resolved THEN r.key ELSE NoKey
    BY <1>3 DEF TargetKey, Leads
  <2>5. l.at = y => B # {}
    BY <1>1, InBucket
  <2> HIDE DEF r, B
  <2> QED BY <1>1, <2>3, <2>4, <2>5
<1> QED BY <1>2, <1>3

\* What the index finds against the links is what the links lead to.
LEMMA Turned ==
  ASSUME NEW g, Sound(g), NEW q, q.via = {}, q.edges \in {"includes", "refers"},
         NEW x \in DOMAIN g.docs, NEW y \in DOMAIN g.docs
  PROVE  y \in Outbound(g, q, x) <=> x \in Inbound(g, q, y)
<1> DEFINE Linked == \E l \in g.docs[x] : l.kind = q.edges /\ TargetKey(g, l) = y
<1>1. g.docs[x] \subseteq Link /\ y # NoKey /\ q.edges # "field"
  BY Names DEF Sound, GraphOK
<1>2. \A l \in g.docs[x] : Leads(g, l) = y <=> TargetKey(g, l) = y
  BY <1>1, LeadsIsTarget
<1>3. y \in Outbound(g, q, x) <=> Linked
  <2>1. CASE q.edges = "includes"
    <3>1. Outbound(g, q, x) = {Leads(g, l) : l \in {m \in g.docs[x] : m.kind = q.edges}} \ {NoKey}
      BY <2>1 DEF Outbound
    <3> QED BY <1>1, <1>2, <3>1
  <2>2. CASE q.edges # "includes"
    <3>1. Outbound(g, q, x) =
            {TargetKey(g, l) : l \in {m \in g.docs[x] : m.kind = q.edges}} \cap DOMAIN g.docs
      BY <2>2 DEF Outbound
    <3> QED BY <3>1
  <2> QED BY <2>1, <2>2
<1>4. x \in Inbound(g, q, y) <=> Linked
  <2>1. \A e : e \in g.edges <=> \E k \in DOMAIN g.docs : \E l \in g.docs[k] : e = [from |-> k, link |-> l]
    BY ExactIs, EdgeOf DEF Sound
  <2>2. x \in Inbound(g, q, y) <=>
          \E e \in g.edges : /\ e.link.kind # "field" /\ TargetKey(g, e.link) = y
                             /\ e.link.kind = q.edges /\ e.from = x
    BY DEF Inbound, EdgesTo
  <2>3. ASSUME Linked
        PROVE  \E e \in g.edges : /\ e.link.kind # "field" /\ TargetKey(g, e.link) = y
                                  /\ e.link.kind = q.edges /\ e.from = x
    <3>1. PICK l \in g.docs[x] : l.kind = q.edges /\ TargetKey(g, l) = y
      BY <2>3
    <3>2. [from |-> x, link |-> l] \in g.edges
      BY <2>1
    <3> QED BY <1>1, <3>1, <3>2
  <2>4. ASSUME NEW e \in g.edges, TargetKey(g, e.link) = y, e.link.kind = q.edges, e.from = x
        PROVE  Linked
    <3>1. PICK k \in DOMAIN g.docs : \E l \in g.docs[k] : e = [from |-> k, link |-> l]
      BY <2>1
    <3>2. PICK l \in g.docs[k] : e = [from |-> k, link |-> l]
      BY <3>1
    <3> QED BY <2>4, <3>2
  <2> HIDE DEF Linked
  <2> QED BY <2>2, <2>3, <2>4
<1> HIDE DEF Linked
<1> QED BY <1>3, <1>4

\* A relation to ask, of a store that is finite.
Askable(g, q) ==
  /\ Sound(g) /\ IsFiniteSet(DOMAIN g.docs)
  /\ q.via = {} /\ q.edges \in {"includes", "refers"} /\ q.min \in Nat /\ q.max \in Nat

Near(g, q, out) == [k \in DOMAIN g.docs |-> Beside(g, q, out, k)]

LEMMA RelatedIs ==
  ASSUME NEW g, NEW q, Askable(g, q), NEW out, NEW a \in DOMAIN g.docs, NEW x
  PROVE  x \in Related(g, q, out, a) <=>
           /\ x \in DOMAIN g.docs
           /\ \E n \in 1..q.max : n \in q.min..q.max /\ Far(Near(g, q, out), DOMAIN g.docs, a, x, n)
<1> DEFINE D == DOMAIN g.docs
           b == Near(g, q, out)
           W == Walk(g, q, out, a)
<1>1. Walkable(g, q, D)
  BY Names DEF Walkable, Askable, Sound, GraphOK
<1>2. \A k \in Name : Beside(g, q, out, k) \subseteq D
  BY OutboundIn, InboundIn DEF Askable, Beside
<1>3. W = Found(b, D, a, q.max)
  <2> HIDE DEF D
  <2>1. a \in D
    BY DEF D
  <2> QED BY <1>1, <1>2, <2>1, WalkFinds DEF Near, D
<1> HIDE DEF W
<1>4. x \in Related(g, q, out, a) <=> \E w \in W : w[1] = x /\ w[2] \in q.min..q.max
  BY DEF Related, W
<1> HIDE DEF b, D
<1>5. ASSUME NEW w \in W
      PROVE  w[1] \in D /\ w[2] \in 1..q.max /\ Far(b, D, a, w[1], w[2])
  BY <1>3 DEF Found
<1>6. ASSUME NEW n \in 1..q.max, x \in D, Far(b, D, a, x, n)
      PROVE  <<x, n>> \in W
  BY <1>3, <1>6 DEF Found
<1>7. ASSUME NEW w \in W, w[1] = x, w[2] \in q.min..q.max
      PROVE  x \in D /\ \E n \in 1..q.max : n \in q.min..q.max /\ Far(b, D, a, x, n)
  BY <1>5, <1>7
<1>8. ASSUME x \in D, NEW n \in 1..q.max, n \in q.min..q.max, Far(b, D, a, x, n)
      PROVE  \E w \in W : w[1] = x /\ w[2] \in q.min..q.max
  <2>1. <<x, n>> \in W
    BY <1>6, <1>8
  <2> QED BY <1>8, <2>1
<1> HIDE DEF W
<1>9. x \in Related(g, q, out, a) <=>
        x \in D /\ \E n \in 1..q.max : n \in q.min..q.max /\ Far(b, D, a, x, n)
  BY <1>4, <1>7, <1>8
<1> QED BY <1>9 DEF b, D

\* One document is related to another one way if the other is to it the other way.
LEMMA RelatedBack ==
  ASSUME NEW g, NEW q, Askable(g, q), NEW r, Askable(g, r),
         r.edges = q.edges, r.min = q.min, r.max = q.max, NEW out \in BOOLEAN,
         NEW a \in DOMAIN g.docs, NEW x \in DOMAIN g.docs, x \in Related(g, q, out, a)
  PROVE  a \in Related(g, r, ~out, x)
<1> DEFINE D == DOMAIN g.docs
           b == Near(g, q, out)
           c == Near(g, r, ~out)
<1>1. \A k, l \in D : l \in b[k] <=> k \in c[l]
  <2> SUFFICES ASSUME NEW k \in D, NEW l \in D PROVE l \in b[k] <=> k \in c[l]
    OBVIOUS
  <2>1. /\ b[k] = IF out THEN Outbound(g, q, k) ELSE Inbound(g, q, k)
        /\ c[l] = IF ~out THEN Outbound(g, r, l) ELSE Inbound(g, r, l)
    BY DEF Near, Beside
  <2>2. Inbound(g, r, l) = Inbound(g, q, l) /\ Outbound(g, r, l) = Outbound(g, q, l)
    BY DEF Inbound, Outbound, Askable
  <2>3. /\ l \in Outbound(g, q, k) <=> k \in Inbound(g, q, l)
        /\ k \in Outbound(g, q, l) <=> l \in Inbound(g, q, k)
    BY Turned DEF Askable
  <2> HIDE DEF b, c
  <2> QED BY <2>1, <2>2, <2>3
<1>2. PICK n \in 1..q.max : n \in q.min..q.max /\ Far(b, D, a, x, n)
  BY RelatedIs
<1> HIDE DEF b, c, D
<1>3. Far(c, D, x, a, n)
  <2>1. n \in Nat
    BY <1>2
  <2> QED BY <1>1, <1>2, <2>1, FarBack
<1>4. n \in 1..r.max /\ n \in r.min..r.max
  BY <1>2
<1> QED BY <1>3, <1>4, RelatedIs DEF c, D

\* From the anchors against the links, or from every document along them.
LEMMA SameBothWays ==
  ASSUME Sound(graph), IsFiniteSet(Docs), NEW q \in Relation, q.via = {},
         NEW E, E[<<q.match, NoScope>>] \subseteq Docs
  PROVE  SameAsCounted(E, q)
<1> DEFINE M == E[<<q.match, NoScope>>]
           r == [q EXCEPT !.size = {Nat \ {0}}]
           Met(k) == (Related(graph, r, r.out, k) \cap M) \ {k}
<1>1. /\ q.edges \in {"includes", "refers"} /\ q.min \in Nat /\ q.max \in Nat /\ q.out \in BOOLEAN
  BY DEF Relation
<1>2. /\ r.edges = q.edges /\ r.min = q.min /\ r.max = q.max /\ r.out = q.out
      /\ r.via = q.via /\ r.match = q.match /\ r.size = {Nat \ {0}}
  BY DEF Relation
<1> HIDE DEF r
<1>3. Askable(graph, q) /\ Askable(graph, r)
  BY <1>1, <1>2 DEF Askable, Docs
<1>4. M \subseteq Docs
  OBVIOUS
<1>5. ASSUME NEW k \in Docs, NEW a \in Docs
      PROVE  k \in Related(graph, q, ~q.out, a) <=> a \in Related(graph, r, r.out, k)
  <2> DEFINE out == q.out
             in == ~q.out
  <2>1. out \in BOOLEAN /\ in \in BOOLEAN /\ ~in = out /\ ~out = in
    BY <1>1
  <2>2. k \in DOMAIN graph.docs /\ a \in DOMAIN graph.docs
    BY DEF Docs
  <2> HIDE DEF out, in
  <2>3. ASSUME k \in Related(graph, q, in, a) PROVE a \in Related(graph, r, ~in, k)
    BY <1>2, <1>3, <2>1, <2>2, <2>3, RelatedBack
  <2>4. ASSUME a \in Related(graph, r, out, k) PROVE k \in Related(graph, q, ~out, a)
    BY <1>2, <1>3, <2>1, <2>2, <2>4, RelatedBack
  <2> QED BY <1>2, <2>1, <2>3, <2>4 DEF in, out
<1>6. ASSUME NEW a \in Docs, NEW k \in Related(graph, q, ~q.out, a) PROVE k \in Docs
  BY <1>3, <1>6, RelatedIs DEF Docs
<1>7. \A k : k \in EvalExists(graph, E, q, NoScope) <=>
               (\E a \in M : k \in Related(graph, q, ~q.out, a)) /\ k \notin M
  BY DEF EvalExists, InScope
<1>8. \A k : k \in EvalCount(graph, E, r, NoScope) <=>
               k \in Docs /\ Cardinality(Met(k)) \in Nat \ {0}
  <2>1. UNION r.size = Nat \ {0} /\ Universe(graph, NoScope) = Docs
    BY <1>2 DEF Universe, Docs
  <2> QED BY <1>2, <2>1 DEF EvalCount
<1>9. \A k : Cardinality(Met(k)) \in Nat \ {0} <=> Met(k) # {}
  <2> SUFFICES ASSUME NEW k PROVE Cardinality(Met(k)) \in Nat \ {0} <=> Met(k) # {}
    OBVIOUS
  <2> DEFINE S == Met(k)
  <2>1. S \in SUBSET Docs
    BY <1>4
  <2> HIDE DEF S
  <2>2. IsFiniteSet(S)
    BY <2>1, FS_Subset
  <2>3. Cardinality(S) \in Nat /\ (Cardinality(S) = 0 <=> S = {})
    BY <2>2, FS_CardinalityType, FS_EmptySet
  <2>4. Cardinality(S) \in Nat \ {0} <=> S # {}
    BY <2>3
  <2> QED BY <2>4 DEF S
<1>10. \A k : k \in Docs /\ k \notin M =>
         (Met(k) # {} <=> \E a \in M : a \in Related(graph, r, r.out, k))
  OBVIOUS
<1> HIDE DEF Met, M
<1>11. \A k : k \in EvalExists(graph, E, q, NoScope) <=>
                k \in EvalCount(graph, E, r, NoScope) /\ k \notin M
  <2> SUFFICES ASSUME NEW k
               PROVE  k \in EvalExists(graph, E, q, NoScope) <=>
                        k \in EvalCount(graph, E, r, NoScope) /\ k \notin M
    OBVIOUS
  <2>1. CASE k \in Docs /\ k \notin M
    <3>1. (\E a \in M : k \in Related(graph, q, ~q.out, a))
            <=> (\E a \in M : a \in Related(graph, r, r.out, k))
      BY <1>4, <1>5, <2>1
    <3> QED BY <1>7, <1>8, <1>9, <1>10, <2>1, <3>1
  <2>2. CASE k \notin Docs
    <3>1. k \notin EvalExists(graph, E, q, NoScope)
      BY <1>4, <1>6, <1>7, <2>2
    <3> QED BY <1>8, <2>2, <3>1
  <2>3. CASE k \in M
    BY <1>7, <2>3
  <2> QED BY <2>1, <2>2, <2>3
<1>12. EvalExists(graph, E, q, NoScope) = EvalCount(graph, E, r, NoScope) \ M
  BY <1>11
<1> QED BY <1>12 DEF SameAsCounted, r, M

LEMMA RelationShape ==
  ASSUME NEW q \in Relations
  PROVE  q \in Relation
<1>1. PICK f \in Filter : q = Form[f] /\ q.op = "relation"
  BY DEF Relations
<1>2. q \notin Test /\ q \notin Connective
  BY <1>1 DEF Test, Connective
<1> QED BY <1>1, <1>2, Shapes

\* No step leaves the graph loaded.
LEMMA NotLoaded ==
  ASSUME Next
  PROVE  ~Loaded'
<1> SUFFICES ASSUME last'.op = "none" PROVE FALSE
  BY DEF Loaded
<1>1. ASSUME NEW k \in Key, NEW L \in Texts, Write(k, L) PROVE FALSE
  BY <1>1 DEF Write, Do
<1>2. ASSUME NEW T \in Targets, Delete(T) PROVE FALSE
  BY <1>2 DEF Delete, Do
<1>3. ASSUME NEW k \in Docs, IweDelete(k) PROVE FALSE
  BY <1>3 DEF IweDelete, Do
<1>4. ASSUME NEW old \in Key, NEW new \in Key, Rename(old, new) PROVE FALSE
  BY <1>4 DEF Rename, Do
<1>5. ASSUME NEW k \in Docs, NEW form \in {"path", "name"}, NEW parts \in Parts(k),
             Extract(k, parts, form)
      PROVE  FALSE
  BY <1>5 DEF Extract, Do
<1>6. ASSUME NEW k \in Docs, NEW keep \in BOOLEAN, NEW l \in graph.docs[k], Inline(k, l, keep)
      PROVE  FALSE
  BY <1>6 DEF Inline, Do
<1>7. ASSUME NEW k \in Key, NEW r \in Key, Attach(k, r) PROVE FALSE
  BY <1>7 DEF Attach, Do
<1>8. last' # [op |-> "read"]
  OBVIOUS
<1>9. ~ReadEdges /\ ~Load
  BY <1>8 DEF ReadEdges, Load
<1>10. ASSUME NEW k \in Docs, Show(k) PROVE FALSE
  <2>1. last' = [op |-> "read"]
    BY <1>10 DEF Show
  <2> QED BY <2>1, <1>8
<1> QED BY <1>1, <1>2, <1>3, <1>4, <1>5, <1>6, <1>7, <1>9, <1>10 DEF Next

\* On every finite store as it is loaded: a relation holds of the same documents
\* whether it is found from its anchors by the link index, or by asking of every
\* document what its links lead to.  Both searches go breadth-first and mark what
\* they have found, so this says in particular that neither misses a document
\* which it first meets by a way too long, or too short for the relation's least
\* distance, and that no short name is read differently from its two ends.
THEOREM DirectionsAlwaysAgree ==
  ASSUME \A s \in Shelves : IsFiniteSet(DOMAIN s)
  PROVE  Spec => []DirectionsAgree
<1> DEFINE Finite == Loaded => IsFiniteSet(Docs)
<1>1. Init => Finite
  <2> SUFFICES ASSUME Init PROVE IsFiniteSet(Docs)
    OBVIOUS
  <2>1. PICK docs \in Shelves : graph = Build(docs)
    BY DEF Init
  <2> QED BY <2>1 DEF Docs, Build
<1>2. Finite /\ [Next]_vars => Finite'
  <2>1. CASE Next
    BY <2>1, NotLoaded
  <2>2. CASE UNCHANGED vars
    BY <2>2 DEF vars, Loaded, Docs
  <2> QED BY <2>1, <2>2
<1>3. IInv /\ Finite => DirectionsAgree
  <2> SUFFICES ASSUME IInv, Finite, Loaded, NEW q \in Relations, q.via = {},
                      Evaluation(graph)[<<q.match, NoScope>>] \subseteq Docs
               PROVE  SameAsCounted(Evaluation(graph), q)
    BY DEF DirectionsAgree
  <2>1. q \in Relation
    BY RelationShape
  <2>2. Sound(graph) /\ IsFiniteSet(Docs)
    BY DEF IInv
  <2> QED BY <2>1, <2>2, SameBothWays
<1> HIDE DEF Finite
<1>4. Spec => []IInv
  BY InitSound, StepSound, PTL DEF Spec
<1> QED BY <1>1, <1>2, <1>3, <1>4, PTL DEF Spec
=============================================================================
