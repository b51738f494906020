--------------------------- MODULE TxServerProofs ---------------------------
(***************************************************************************)
(* Proofs about TxServer for any number of handles, requests, keys and     *)
(* documents, and any sequence of restarts.  The inductive invariant says  *)
(* where a transaction is, what the state file and the tombstones hold for *)
(* it, and how its private graph relates to what its backend has staged.   *)
(***************************************************************************)
EXTENDS TxServer, TLAPS

\* An update two levels down keeps the type, whatever index it is made at.
LEMMA PrivateUpdate ==
  ASSUME NEW f \in [1..MaxSent -> [Key -> Content]], NEW i, NEW k, NEW v \in Content
  PROVE  [f EXCEPT ![i][k] = v] \in [1..MaxSent -> [Key -> Content]]
<1>1. \A j \in 1..MaxSent : [f[j] EXCEPT ![k] = v] \in [Key -> Content]
  OBVIOUS
<1>2. [f EXCEPT ![i][k] = v] =
        [j \in 1..MaxSent |-> IF j = i THEN [f[j] EXCEPT ![k] = v] ELSE f[j]]
  OBVIOUS
<1>3. QED
  BY <1>1, <1>2

LEMMA HistoryUpdate ==
  ASSUME NEW f \in [1..MaxSent -> [Key -> Content \cup {Unset}]], NEW i, NEW k,
         NEW v \in Content \cup {Unset}
  PROVE  [f EXCEPT ![i][k] = v] \in [1..MaxSent -> [Key -> Content \cup {Unset}]]
<1>1. \A j \in 1..MaxSent : [f[j] EXCEPT ![k] = v] \in [Key -> Content \cup {Unset}]
  OBVIOUS
<1>2. [f EXCEPT ![i][k] = v] =
        [j \in 1..MaxSent |-> IF j = i THEN [f[j] EXCEPT ![k] = v] ELSE f[j]]
  OBVIOUS
<1>3. QED
  BY <1>1, <1>2

\* What one step does to the requests: r is answered, or moves on to pc.
Others(r) == \A s \in Req \ {r} : req'[s] = req[s]

Gone(r) == Others(r) /\ req'[r] = NoReq

Moved(r, pc) ==
  /\ Others(r)
  /\ req'[r] \in Request /\ req'[r].pc = pc
  /\ req'[r].kind = req[r].kind /\ req'[r].h = req[r].h
  /\ req'[r].k = req[r].k /\ req'[r].d = req[r].d

ReqOK == req \in [Req -> Request \cup {NoReq}]

LEMMA AnswerReq ==
  ASSUME ReqOK, NEW r \in Req, Answer(r)
  PROVE  ReqOK' /\ Gone(r)
  BY DEF ReqOK, Answer, Gone, Others

LEMMA GoesReq ==
  ASSUME ReqOK, NEW r \in Req, InFlight(r), NEW pc \in ReqPC, Goes(r, pc)
  PROVE  ReqOK' /\ Moved(r, pc) /\ req'[r].src = req[r].src /\ req'[r].tx = req[r].tx
<1>1. req[r] \in Request
  BY DEF ReqOK, InFlight
<1>2. req' = [req EXCEPT ![r] = [req[r] EXCEPT !.pc = pc]]
  BY DEF Goes
<1>3. /\ [req[r] EXCEPT !.pc = pc] \in Request
      /\ \A s \in Req \ {r} : req'[s] = req[s]
      /\ req'[r] = [req[r] EXCEPT !.pc = pc]
  BY <1>1, <1>2 DEF ReqOK, Request
<1>4. QED
  BY <1>1, <1>2, <1>3 DEF ReqOK, Moved, Others, Request

LEMMA RouteReq ==
  ASSUME ReqOK, NEW r \in Req, InFlight(r), NEW i \in Nat,
         req' = [req EXCEPT ![r].src = i, ![r].pc = "ready"]
  PROVE  ReqOK' /\ Moved(r, "ready") /\ req'[r].src = i /\ req'[r].tx = req[r].tx
<1>1. req[r] \in Request
  BY DEF ReqOK, InFlight
<1>2. req' = [req EXCEPT ![r] = [req[r] EXCEPT !.src = i, !.pc = "ready"]]
  OBVIOUS
<1>3. /\ [req[r] EXCEPT !.src = i, !.pc = "ready"] \in Request
      /\ \A s \in Req \ {r} : req'[s] = req[s]
      /\ req'[r] = [req[r] EXCEPT !.src = i, !.pc = "ready"]
  BY <1>1, <1>2 DEF ReqOK, Request, ReqPC
<1>4. QED
  BY <1>1, <1>2, <1>3 DEF ReqOK, Moved, Others, Request

LEMMA TakeReq ==
  ASSUME ReqOK, NEW r \in Req, InFlight(r), NEW t \in Tx,
         req' = [req EXCEPT ![r].pc = "taken", ![r].tx = t]
  PROVE  ReqOK' /\ Moved(r, "taken") /\ req'[r].tx = t /\ req'[r].src = req[r].src
<1>1. req[r] \in Request
  BY DEF ReqOK, InFlight
<1>2. req' = [req EXCEPT ![r] = [req[r] EXCEPT !.pc = "taken", !.tx = t]]
  OBVIOUS
<1>3. /\ [req[r] EXCEPT !.pc = "taken", !.tx = t] \in Request
      /\ \A s \in Req \ {r} : req'[s] = req[s]
      /\ req'[r] = [req[r] EXCEPT !.pc = "taken", !.tx = t]
  BY <1>1, <1>2 DEF ReqOK, Request, ReqPC
<1>4. QED
  BY <1>1, <1>2, <1>3 DEF ReqOK, Moved, Others, Request

LEMMA SendReq ==
  ASSUME ReqOK, NEW r \in Req, NEW kind \in Writes \cup Controls, NEW h \in Handle,
         NEW k \in Key, NEW d \in Content, Send(r, kind, h, k, d)
  PROVE  /\ ReqOK' /\ Others(r) /\ ~InFlight(r)
         /\ req'[r] = [pc |-> "sent", kind |-> kind, h |-> h, k |-> k, d |-> d,
                       src |-> 0, tx |-> NoTx]
         /\ req'[r] \in Request
<1> DEFINE q == [pc |-> "sent", kind |-> kind, h |-> h, k |-> k, d |-> d, src |-> 0, tx |-> NoTx]
<1>1. q \in Request
  BY DEF Request, ReqPC
<1>2. req' = [req EXCEPT ![r] = q] /\ ~InFlight(r)
  BY DEF Send
<1> HIDE DEF q
<1>3. QED
  BY <1>1, <1>2 DEF ReqOK, Others, q
-----------------------------------------------------------------------------
(* Type correctness *)

\* Where a request stands decides its kind and what it carries.
LEMMA ShapeOf ==
  ASSUME TypeOK, ShapeInv, NEW r \in Req, InFlight(r)
  PROVE  /\ req[r] \in Request
         /\ req[r].pc \in {"lock", "ready", "land"} => req[r].kind \in Writes
         /\ req[r].pc = "begin" => req[r].kind = "begin"
         /\ MidCommit(r) => req[r].kind = "commit" /\ req[r].tx \in Tx
<1>1. req[r] \in Request
  BY DEF TypeOK, InFlight
<1>2. req[r].kind \in Writes \cup {"begin", "commit", "abort"} /\ req[r].pc \in ReqPC
  BY <1>1 DEF Request, Controls
<1>3. QED
  BY <1>1, <1>2 DEF ShapeInv, MidCommit, Writes, Puts, ReqPC

\* The pieces of a transaction.
LEMMA TxParts ==
  ASSUME NEW t \in Tx
  PROVE  /\ t.id \in Nat /\ t.idle \in BOOLEAN /\ t.effect \in [Key -> Slot]
         /\ t.pending \in [Key -> Content \cup {Unset}]
         /\ t.baseline \in [Key -> Content \cup {Unset}]
         /\ t.restaged \subseteq Key
  BY DEF Tx

LEMMA ReqParts ==
  ASSUME NEW q \in Request
  PROVE  /\ q.pc \in ReqPC /\ q.kind \in Writes \cup Controls /\ q.h \in Handle /\ q.k \in Key
         /\ q.d \in Content /\ q.src \in Nat /\ q.tx \in Tx \cup {NoTx}
  BY DEF Request

\* Rendering gives a document.
LEMMA ExportType ==
  ASSUME NEW g \in [Key -> Content], NEW k \in Key
  PROVE  Export(g, k) \in Doc
  BY ServerConstants DEF Export, Content

\* The transaction a staging write leaves open.
Noted(t, q) ==
  [t EXCEPT !.pending[q.k] = q.d,
            !.baseline[q.k] = IF @ = Unset THEN disk[q.k] ELSE @,
            !.effect[q.k] = Collapse(@, EffectOf(q)),
            !.restaged = @ \ {q.k},
            !.idle = FALSE]

LEMMA NotedIs ==
  ASSUME NEW t \in Tx, NEW q \in Request, q.kind \in Writes, disk \in [Key -> Content]
  PROVE  /\ Noted(t, q) \in Tx /\ Noted(t, q).id = t.id
         /\ Noted(t, q).pending = [t.pending EXCEPT ![q.k] = q.d]
         /\ Noted(t, q).baseline =
              [t.baseline EXCEPT ![q.k] = IF @ = Unset THEN disk[q.k] ELSE @]
         /\ Noted(t, q).effect = [t.effect EXCEPT ![q.k] = Collapse(@, EffectOf(q))]
         /\ Noted(t, q).restaged = t.restaged \ {q.k}
<1>1. EffectOf(q) \in {"create", "update", "delete"}
  BY DEF EffectOf
<1>2. \A s \in Slot : Collapse(s, EffectOf(q)) \in Slot
  BY <1>1 DEF Collapse, Slot
<1> DEFINE p == [t.pending EXCEPT ![q.k] = q.d]
           b == [t.baseline EXCEPT ![q.k] = IF @ = Unset THEN disk[q.k] ELSE @]
           e == [t.effect EXCEPT ![q.k] = Collapse(@, EffectOf(q))]
           x == t.restaged \ {q.k}
<1>3. x \subseteq Key /\ p \in [Key -> Content \cup {Unset}] /\ b \in [Key -> Content \cup {Unset}] /\ e \in [Key -> Slot]
  BY <1>2, TxParts, ReqParts
<1>4. Noted(t, q) = [t EXCEPT !.pending = p, !.baseline = b, !.effect = e, !.restaged = x,
                          !.idle = FALSE]
  BY DEF Noted, Tx
<1> HIDE DEF p, b, e, x
<1>5. /\ Noted(t, q) \in Tx /\ Noted(t, q).id = t.id
      /\ Noted(t, q).pending = p /\ Noted(t, q).baseline = b /\ Noted(t, q).effect = e
      /\ Noted(t, q).restaged = x
  BY <1>3, <1>4 DEF Tx
<1>6. QED
  BY <1>5 DEF p, b, e, x

\* The transaction a retry puts back.
LEMMA RestageIs ==
  ASSUME NEW t \in Tx, private \in [1..MaxSent -> [Key -> Content]], t.id \in 1..MaxSent,
         disk \in [Key -> Content]
  PROVE  /\ Restage(t) \in Tx /\ Restage(t).id = t.id /\ Restage(t).effect = t.effect
         /\ Restage(t).restaged = {k \in Key : t.effect[k] \in {"create", "update"}}
         /\ \A k \in Key : t.effect[k] \in {"create", "update"} =>
              Restage(t).pending[k] = Export(private[t.id], k)
<1> DEFINE again == [k \in Key |->
             CASE t.effect[k] = "delete" -> Absent
               [] t.effect[k] \in {"create", "update"} -> Export(private[t.id], k)
               [] OTHER -> Unset]
           b == [k \in Key |-> IF again[k] = Unset THEN Unset ELSE disk[k]]
           x == {k \in Key : t.effect[k] \in {"create", "update"}}
<1>1. \A k \in Key : Export(private[t.id], k) \in Doc
  BY ExportType
<1>2. again \in [Key -> Content \cup {Unset}]
  BY <1>1 DEF Content
<1>3. b \in [Key -> Content \cup {Unset}]
  <2> HIDE DEF again
  <2>1. QED
    OBVIOUS
<1>4. Restage(t) = [t EXCEPT !.pending = again, !.baseline = b, !.restaged = x]
  BY DEF Restage
<1>5. \A k \in Key : t.effect[k] \in {"create", "update"} => again[k] = Export(private[t.id], k)
  OBVIOUS
<1>6. x \subseteq Key
  OBVIOUS
<1> HIDE DEF again, b, x
<1>7. /\ Restage(t) \in Tx /\ Restage(t).id = t.id /\ Restage(t).effect = t.effect
      /\ Restage(t).restaged = x /\ Restage(t).pending = again
  BY <1>2, <1>3, <1>4, <1>6 DEF Tx
<1>8. QED
  BY <1>5, <1>7 DEF x

\* What the state file is rewritten with.
LEMMA RecordedType ==
  ASSUME NEW o \in [Handle -> Tx \cup {NoTx}], NEW c \in [Handle -> Nat],
         NEW l \in [Handle -> Nat], open' = o, committing' = c, lost' = l
  PROVE  /\ Recorded \in [open : [Handle -> Nat], lost : [Handle -> Nat]]
         /\ Recorded.lost = l
         /\ \A h \in Handle : Recorded.open[h] = IF o[h] # NoTx THEN o[h].id ELSE c[h]
<1>1. \A h \in Handle : o[h] # NoTx => o[h].id \in Nat
  BY TxParts
<1>2. [h \in Handle |-> IF o[h] # NoTx THEN o[h].id ELSE c[h]] \in [Handle -> Nat]
  BY <1>1
<1>3. QED
  BY <1>2 DEF Recorded

\* Everything but the requests.
StateOK ==
  /\ up \in BOOLEAN /\ draining \in BOOLEAN
  /\ open \in [Handle -> Tx \cup {NoTx}]
  /\ committing \in [Handle -> Nat] /\ lost \in [Handle -> Nat]
  /\ file \in [open : [Handle -> Nat], lost : [Handle -> Nat]]
  /\ private \in [1..MaxSent -> [Key -> Content]]
  /\ graph \in [Key -> Content] /\ disk \in [Key -> Content]
  /\ lock \in Req \cup {Nobody}
  /\ told \in [Handle -> {"none", "open", "unsure"}]
  /\ nextId \in Nat /\ sent \in Nat /\ restarts \in Nat /\ outside \in Nat
  /\ shown \in [Key -> SUBSET Content]
  /\ landed \subseteq Nat
  /\ asked \in [1..MaxSent -> [Key -> Content \cup {Unset}]]
  /\ seen \in [1..MaxSent -> [Key -> Content \cup {Unset}]]

LEMMA TypeParts == TypeOK <=> StateOK /\ ReqOK
  BY DEF TypeOK, StateOK, ReqOK

\* The initial states are well-typed.
LEMMA InitTyped == Init => TypeOK
<1> SUFFICES ASSUME Init PROVE TypeOK
  OBVIOUS
<1>1. disk \in [Key -> Content]
  BY ServerConstants DEF Init
<1>2. shown \in [Key -> SUBSET Content]
  BY <1>1 DEF Init, Content
<1>3. QED
  BY <1>1, <1>2, ServerConstants DEF Init, TypeOK, Untouched

\* What a staging write leaves of the open transactions, as one update.
LEMMA StageOpens ==
  ASSUME TypeOK, ShapeInv, NEW r \in Req, Stage(r)
  PROVE  /\ req[r] \in Request /\ req[r].kind \in Writes /\ open[req[r].h] \in Tx
         /\ open' = [open EXCEPT ![req[r].h] = Noted(open[req[r].h], req[r])]
         /\ Noted(open[req[r].h], req[r]) \in Tx
         /\ asked' = [asked EXCEPT ![open[req[r].h].id][req[r].k] = req[r].d]
         /\ seen' = [seen EXCEPT ![open[req[r].h].id][req[r].k] =
                       IF @ = Unset THEN disk[req[r].k] ELSE @]
<1>1. req[r] \in Request /\ req[r].kind \in Writes
  BY ShapeOf DEF Stage, At
<1>2. open[req[r].h] \in Tx
  BY <1>1, ReqParts DEF Stage, TypeOK
<1>3. open' = [open EXCEPT ![req[r].h] = Noted(open[req[r].h], req[r])]
  BY <1>1, <1>2, ReqParts DEF Stage, TypeOK, Noted, Tx
<1>4. Noted(open[req[r].h], req[r]) \in Tx
  BY <1>1, <1>2, NotedIs DEF TypeOK
<1>5. QED
  BY <1>1, <1>2, <1>3, <1>4 DEF Stage

\* Every step of a request keeps the state well-typed.
LEMMA TypeServe ==
  ASSUME TypeOK, ShapeInv, IdInv, NEW r \in Req, Serve(r)
  PROVE  TypeOK'
<1>t. StateOK /\ ReqOK
  BY TypeParts
<1>s. ASSUME StateOK', ReqOK' PROVE TypeOK'
  BY <1>s DEF TypeOK, StateOK, ReqOK
<1>0. InFlight(r)
  BY DEF Serve, At, Resolve, LockGraph, RejectWrite, Stage, WriteOutside, Land, BeginCheck,
     AlreadyOpen, Begin, CommitTake, CommitLand, CommitRefused, Finish, Reopen, Abort
<1>q. /\ req[r] \in Request /\ req[r].h \in Handle /\ req[r].k \in Key /\ req[r].d \in Content
      /\ req[r].src \in Nat
  BY <1>0, ShapeOf, ReqParts
<1>a. \A pc \in ReqPC : Goes(r, pc) => ReqOK'
  BY <1>t, <1>0, GoesReq
<1>b. Answer(r) => ReqOK'
  BY <1>t, AnswerReq
<1>c. Unlock(r) => lock' \in Req \cup {Nobody}
  BY <1>t DEF Unlock, StateOK
<1>d. \A what \in {"none", "open", "unsure"} :
        Tell(r, what) => told' \in [Handle -> {"none", "open", "unsure"}]
  BY <1>t DEF Tell, StateOK
<1>m. ASSUME Mutate(req[r])
      PROVE  /\ graph' \in [Key -> Content]
             /\ private' \in [1..MaxSent -> [Key -> Content]]
  <2> DEFINE q == req[r]
  <2>1. CASE q.src = 0
    BY <1>t, <1>q, <1>m, <2>1 DEF Mutate, StateOK
  <2>2. CASE q.src # 0
    <3>1. private' = [private EXCEPT ![q.src][q.k] = q.d] /\ graph' = graph
      BY <1>m, <2>2 DEF Mutate
    <3>2. private \in [1..MaxSent -> [Key -> Content]] /\ graph \in [Key -> Content]
      BY <1>t DEF StateOK
    <3>3. q.d \in Content
      BY <1>q
    <3> HIDE DEF q
    <3>4. QED
      BY <3>1, <3>2, <3>3, PrivateUpdate
  <2>3. QED
    BY <2>1, <2>2
<1>pcs. ReqPC = {"sent", "lock", "ready", "land", "begin", "taken", "landed", "refused", "retry"}
  BY DEF ReqPC
<1> USE DEF guards, counters, history
<1>1. CASE Resolve(r)
  <2>1. ReqOK'
    <3>1. CASE open[req[r].h] # NoTx
      <4>1. open[req[r].h].id \in Nat
        BY <1>t, <1>q, <3>1, TxParts DEF StateOK
      <4>2. req' = [req EXCEPT ![r].src = open[req[r].h].id, ![r].pc = "ready"]
        BY <1>1, <3>1 DEF Resolve
      <4>3. QED
        BY <1>t, <1>0, <4>1, <4>2, RouteReq
    <3>2. CASE open[req[r].h] = NoTx
      BY <1>1, <1>a, <1>b, <1>pcs, <3>2 DEF Resolve
    <3>3. QED
      BY <3>1, <3>2
  <2>2. told' \in [Handle -> {"none", "open", "unsure"}]
    BY <1>1, <1>t, <1>d DEF Resolve, StateOK
  <2>3. open' \in [Handle -> Tx \cup {NoTx}]
    <3>1. \A t \in Tx : [t EXCEPT !.idle = FALSE] \in Tx
      BY DEF Tx
    <3>2. CASE open[req[r].h] # NoTx
      <4>1. open' = [open EXCEPT ![req[r].h] = [open[req[r].h] EXCEPT !.idle = FALSE]]
        BY <1>1, <3>2 DEF Resolve
      <4>2. QED
        BY <1>t, <1>q, <3>1, <3>2, <4>1 DEF StateOK
    <3>3. QED
      BY <1>1, <1>t, <3>2 DEF Resolve, StateOK
  <2>4. QED
    BY <1>1, <1>t, <1>s, <2>1, <2>2, <2>3 DEF Resolve, StateOK
<1>2. CASE LockGraph(r)
  BY <1>2, <1>t, <1>s, <1>a, <1>pcs DEF LockGraph, StateOK
<1>3. CASE RejectWrite(r)
  BY <1>3, <1>t, <1>s, <1>b, <1>c DEF RejectWrite, StateOK
<1>4. CASE Stage(r)
  <2>1. ReqOK' /\ lock' \in Req \cup {Nobody}
    BY <1>4, <1>b, <1>c DEF Stage
  <2>2. open' \in [Handle -> Tx \cup {NoTx}]
    BY <1>4, <1>t, StageOpens DEF StateOK
  <2>3. /\ graph' \in [Key -> Content]
        /\ private' \in [1..MaxSent -> [Key -> Content]]
    BY <1>4, <1>m DEF Stage
  <2>4. asked' \in [1..MaxSent -> [Key -> Content \cup {Unset}]]
    <3>1. asked' = [asked EXCEPT ![open[req[r].h].id][req[r].k] = req[r].d]
      BY <1>4, StageOpens
    <3>2. QED
      BY <1>t, <1>q, <3>1, HistoryUpdate DEF StateOK
  <2>5. seen' \in [1..MaxSent -> [Key -> Content \cup {Unset}]]
    <3> DEFINE i == open[req[r].h].id
    <3>1. seen' = [seen EXCEPT ![i][req[r].k] = IF @ = Unset THEN disk[req[r].k] ELSE @]
      BY <1>4, StageOpens
    <3>2. disk[req[r].k] \in Content
      BY <1>t, <1>q DEF StateOK
    <3>3. CASE i \in 1..MaxSent /\ seen[i][req[r].k] # Unset
      <4>1. seen' = [seen EXCEPT ![i][req[r].k] = seen[i][req[r].k]]
        BY <3>1, <3>3
      <4>2. seen[i] \in [Key -> Content \cup {Unset}]
        BY <1>t, <3>3 DEF StateOK
      <4>3. seen[i][req[r].k] \in Content \cup {Unset}
        BY <1>q, <4>2
      <4>4. QED
        BY <1>t, <4>1, <4>3, HistoryUpdate DEF StateOK
    <3>4. CASE i \in 1..MaxSent /\ seen[i][req[r].k] = Unset
      <4>1. seen' = [seen EXCEPT ![i][req[r].k] = disk[req[r].k]]
        BY <3>1, <3>4
      <4>2. QED
        BY <1>t, <3>2, <4>1, HistoryUpdate DEF StateOK
    <3>5. CASE i \notin 1..MaxSent
      BY <1>t, <3>1, <3>5 DEF StateOK
    <3>6. QED
      BY <3>3, <3>4, <3>5
  <2>6. QED
    BY <1>4, <1>t, <1>s, <2>1, <2>2, <2>3, <2>4, <2>5 DEF Stage, StateOK
<1>5. CASE WriteOutside(r)
  BY <1>5, <1>t, <1>s, <1>a, <1>b, <1>c, <1>d, <1>pcs DEF WriteOutside, StateOK
<1>6. CASE Land(r)
  <2>1. ReqOK' /\ lock' \in Req \cup {Nobody}
    BY <1>6, <1>b, <1>c DEF Land
  <2>2. /\ disk' \in [Key -> Content] /\ shown' \in [Key -> SUBSET Content]
        /\ graph' \in [Key -> Content]
        /\ private' \in [1..MaxSent -> [Key -> Content]]
    <3>1. CASE UNCHANGED <<disk, shown, graph, private>>
      BY <1>t, <3>1 DEF StateOK
    <3>2. CASE /\ disk' = [disk EXCEPT ![req[r].k] = req[r].d]
               /\ shown' = [shown EXCEPT ![req[r].k] = @ \cup {req[r].d}]
               /\ Mutate(req[r])
      BY <1>t, <1>q, <1>m, <3>2 DEF StateOK
    <3>3. QED
      BY <1>6, <3>1, <3>2 DEF Land
  <2>3. QED
    BY <1>6, <1>t, <1>s, <2>1, <2>2 DEF Land, StateOK
<1>7. CASE BeginCheck(r)
  BY <1>7, <1>t, <1>s, <1>a, <1>b, <1>pcs DEF BeginCheck, StateOK
<1>8. CASE AlreadyOpen(r)
  <2>1. \A t \in Tx : [t EXCEPT !.idle = FALSE] \in Tx
    BY DEF Tx
  <2>2. open' = [open EXCEPT ![req[r].h] = [open[req[r].h] EXCEPT !.idle = FALSE]]
    BY <1>8 DEF AlreadyOpen
  <2>3. open[req[r].h] \in Tx
    BY <1>8, <1>t, <1>q DEF AlreadyOpen, StateOK
  <2>4. open' \in [Handle -> Tx \cup {NoTx}]
    BY <1>t, <2>1, <2>2, <2>3 DEF StateOK
  <2>5. QED
    BY <1>8, <1>t, <1>s, <1>b, <1>d, <2>4 DEF AlreadyOpen, StateOK
<1>9. CASE Begin(r)
  <2> DEFINE t == [id |-> nextId, pending |-> Untouched, baseline |-> Untouched,
                   effect |-> [k \in Key |-> "unnamed"], idle |-> FALSE, restaged |-> {}]
  <2>1. t \in Tx
    BY <1>t DEF StateOK, Tx, Untouched, Slot
  <2>2. ReqOK' /\ (Tell(r, "open") => told' \in [Handle -> {"none", "open", "unsure"}])
    BY <1>9, <1>b, <1>d DEF Begin
  <2>3. CASE /\ open' = [open EXCEPT ![req[r].h] = t]
             /\ private' = [private EXCEPT ![nextId] = graph]
             /\ nextId' = nextId + 1
             /\ lost' = [lost EXCEPT ![req[r].h] = 0]
             /\ UNCHANGED committing
             /\ file' = Recorded
             /\ Tell(r, "open")
    <3>1. open' \in [Handle -> Tx \cup {NoTx}]
      <4> HIDE DEF t
      <4>1. QED
        BY <1>t, <2>1, <2>3 DEF StateOK
    <3>2. lost' \in [Handle -> Nat]
      BY <1>t, <2>3 DEF StateOK
    <3>3. file' \in [open : [Handle -> Nat], lost : [Handle -> Nat]]
      BY <1>t, <2>3, <3>1, <3>2, RecordedType DEF StateOK
    <3>4. private' \in [1..MaxSent -> [Key -> Content]]
      BY <1>t, <2>3 DEF StateOK
    <3>5. QED
      BY <1>9, <1>t, <1>s, <2>2, <2>3, <3>1, <3>2, <3>3, <3>4 DEF Begin, StateOK
  <2>4. CASE UNCHANGED <<guards, private, nextId, told>>
    BY <1>9, <1>t, <1>s, <2>2, <2>4 DEF Begin, StateOK
  <2>5. QED
    BY <1>9, <2>3, <2>4 DEF Begin
<1>10. CASE CommitTake(r)
  <2>1. CASE open[req[r].h] # NoTx
    <3>1. open[req[r].h] \in Tx /\ open[req[r].h].id \in Nat
      BY <1>t, <1>q, <2>1, TxParts DEF StateOK
    <3>2. ReqOK'
      BY <1>10, <1>t, <1>0, <2>1, <3>1, TakeReq DEF CommitTake
    <3>3. QED
      BY <1>10, <1>t, <1>s, <2>1, <3>1, <3>2 DEF CommitTake, StateOK
  <2>2. CASE open[req[r].h] = NoTx
    BY <1>10, <1>t, <1>s, <1>b, <1>d, <2>2 DEF CommitTake, StateOK
  <2>3. QED
    BY <2>1, <2>2
<1>11. CASE CommitLand(r)
  <2> DEFINE t == req[r].tx
  <2>1. t \in Tx /\ t.id \in 1..MaxSent
    <3>1. Carries(r) /\ MidCommit(r)
      BY <1>11 DEF CommitLand, At, Carries, MidCommit
    <3>2. nextId \in 1..(MaxSent + 1) /\ t.id \in 1..(nextId - 1)
      BY <3>1 DEF IdInv
    <3>3. QED
      BY <3>1, <3>2, ShapeOf, ServerConstants DEF MidCommit
  <2>2. disk' \in [Key -> Content]
    BY <1>11, <1>t, <2>1, TxParts DEF CommitLand, StateOK
  <2>3. shown' \in [Key -> SUBSET Content]
    BY <1>11, <1>t, <2>2 DEF CommitLand, StateOK
  <2>4. graph' \in [Key -> Content]
    <3>1. \A k \in Key : Export(private[t.id], k) \in Content /\ Absent \in Content
      BY <1>t, <2>1, ExportType DEF StateOK, Content
    <3>2. QED
      BY <1>11, <1>t, <3>1 DEF CommitLand, StateOK
  <2>5. landed' \subseteq Nat
    BY <1>11, <1>t, <2>1 DEF CommitLand, StateOK
  <2>6. QED
    BY <1>11, <1>t, <1>s, <1>a, <1>c, <1>pcs, <2>2, <2>3, <2>4, <2>5 DEF CommitLand, StateOK
<1>12. CASE CommitRefused(r)
  BY <1>12, <1>t, <1>s, <1>a, <1>c, <1>pcs DEF CommitRefused, StateOK
<1>13. CASE Finish(r)
  <2>1. committing' \in [Handle -> Nat]
    BY <1>13, <1>t DEF Finish, StateOK
  <2>2. file' \in [open : [Handle -> Nat], lost : [Handle -> Nat]]
    BY <1>13, <1>t, <2>1, RecordedType DEF Finish, StateOK, SaveLogged
  <2>3. QED
    BY <1>13, <1>t, <1>s, <1>b, <1>d, <2>1, <2>2 DEF Finish, StateOK
<1>14. CASE Reopen(r)
  <2>1. req[r].tx \in Tx /\ req[r].tx.id \in 1..MaxSent
    <3>1. Carries(r) /\ MidCommit(r)
      BY <1>14 DEF Reopen, At, Carries, MidCommit
    <3>2. nextId \in 1..(MaxSent + 1) /\ req[r].tx.id \in 1..(nextId - 1)
      BY <3>1 DEF IdInv
    <3>3. QED
      BY <3>1, <3>2, ShapeOf, ServerConstants DEF MidCommit
  <2>2. open' \in [Handle -> Tx \cup {NoTx}] /\ committing' \in [Handle -> Nat]
    BY <1>14, <1>t, <2>1, RestageIs DEF Reopen, StateOK
  <2>3. file' \in [open : [Handle -> Nat], lost : [Handle -> Nat]]
    BY <1>14, <1>t, <2>2, RecordedType DEF Reopen, StateOK, SaveLogged
  <2>4. QED
    BY <1>14, <1>t, <1>s, <1>b, <1>d, <2>2, <2>3 DEF Reopen, StateOK
<1>15. CASE Abort(r)
  <2>1. open' \in [Handle -> Tx \cup {NoTx}] /\ lost' \in [Handle -> Nat]
    BY <1>15, <1>t DEF Abort, StateOK
  <2>2. file' \in [open : [Handle -> Nat], lost : [Handle -> Nat]]
    BY <1>15, <1>t, <2>1, RecordedType DEF Abort, StateOK, SaveLogged
  <2>3. QED
    BY <1>15, <1>t, <1>s, <1>b, <1>d, <2>1, <2>2 DEF Abort, StateOK
<1>16. QED
  BY <1>1, <1>2, <1>3, <1>4, <1>5, <1>6, <1>7, <1>8, <1>9, <1>10, <1>11, <1>12, <1>13, <1>14,
     <1>15 DEF Serve
\* What the clients, the daemon and other programs do keeps the state well-typed.
LEMMA TypeRest ==
  ASSUME TypeOK, Environment \/ Daemon
  PROVE  TypeOK'
<1>t. StateOK /\ ReqOK
  BY TypeParts
<1>s. ASSUME StateOK', ReqOK' PROVE TypeOK'
  BY <1>s DEF TypeOK, StateOK, ReqOK
<1> USE DEF guards, counters, history
<1>1. ASSUME NEW r \in Req, NEW kind \in Writes \cup Controls, NEW h \in Handle, NEW k \in Key,
             NEW d \in Content, Send(r, kind, h, k, d)
      PROVE  TypeOK'
  <2>1. ReqOK'
    BY <1>1, <1>t, SendReq
  <2>2. /\ sent' = sent + 1
        /\ UNCHANGED <<up, draining, guards, private, graph, lock, disk, told, nextId, restarts,
                       outside, history>>
    BY <1>1 DEF Send
  <2>3. StateOK'
    BY <1>t, <2>2 DEF StateOK
  <2>4. QED
    BY <1>s, <2>1, <2>3
<1>2. ASSUME NEW k \in Key, Watch(k) PROVE TypeOK'
  BY <1>2, <1>t, <1>s DEF Watch, StateOK, ReqOK
<1>3. ASSUME NEW k \in Key, NEW d \in Content, Outside(k, d) PROVE TypeOK'
  BY <1>3, <1>t, <1>s DEF Outside, StateOK, ReqOK
<1>4. ASSUME NEW h \in Handle, GrowIdle(h) PROVE TypeOK'
  <2>1. \A t \in Tx : [t EXCEPT !.idle = TRUE] \in Tx
    BY DEF Tx
  <2>2. open' = [open EXCEPT ![h] = [open[h] EXCEPT !.idle = TRUE]] /\ open[h] \in Tx
    BY <1>4, <1>t DEF GrowIdle, StateOK
  <2>3. open' \in [Handle -> Tx \cup {NoTx}]
    BY <1>t, <2>1, <2>2 DEF StateOK
  <2>4. QED
    BY <1>4, <1>t, <1>s, <2>3 DEF GrowIdle, StateOK, ReqOK
<1>5. ASSUME NEW h \in Handle, Expire(h) PROVE TypeOK'
  <2>1. file' \in [open : [Handle -> Nat], lost : [Handle -> Nat]]
    <3>1. file' = [file EXCEPT !.lost = [file.lost EXCEPT ![h] = 0]]
      BY <1>5 DEF Expire
    <3>2. QED
      BY <1>t, <3>1 DEF StateOK
  <2>2. QED
    BY <1>5, <1>t, <1>s, <2>1 DEF Expire, StateOK, ReqOK
<1>6. CASE Reap
  <2>1. open' \in [Handle -> Tx \cup {NoTx}]
    BY <1>6, <1>t DEF Reap, StateOK
  <2>2. lost' \in [Handle -> Nat]
    <3>1. \A h \in Idle : open[h].id \in Nat
      BY <1>t, TxParts DEF Idle, StateOK
    <3>2. QED
      BY <1>6, <1>t, <3>1 DEF Reap, StateOK
  <2>3. file' \in [open : [Handle -> Nat], lost : [Handle -> Nat]]
    BY <1>6, <1>t, <2>1, <2>2, RecordedType DEF Reap, StateOK, SaveLogged
  <2>4. QED
    BY <1>6, <1>t, <1>s, <2>1, <2>2, <2>3 DEF Reap, StateOK, ReqOK
<1>7. CASE Drain
  BY <1>7, <1>t, <1>s DEF Drain, StateOK, ReqOK
<1>8. CASE Stop
  BY <1>8, <1>t, <1>s DEF Stop, StateOK, ReqOK
<1>9. CASE Start
  <2>1. lost' \in [Handle -> Nat]
    BY <1>9, <1>t DEF Start, StateOK
  <2>2. file' \in [open : [Handle -> Nat], lost : [Handle -> Nat]]
    BY <1>9, <1>t, <2>1, RecordedType DEF Start, StateOK
  <2>3. QED
    BY <1>9, <1>t, <1>s, <2>1, <2>2 DEF Start, StateOK, ReqOK
<1>10. QED
  BY <1>1, <1>2, <1>3, <1>4, <1>5, <1>6, <1>7, <1>8, <1>9 DEF Environment, Daemon

-----------------------------------------------------------------------------
(* Where requests stand *)

\* The ways a request moves on.
Advances(r) ==
  \/ Gone(r)
  \/ /\ req[r].kind \in Writes
     /\ \/ Moved(r, "lock") /\ req[r].pc = "sent" /\ req'[r].src = 0
        \/ Moved(r, "ready") /\ req[r].pc \in {"sent", "lock"}
        \/ Moved(r, "land") /\ req[r].pc = "ready"
  \/ req[r].kind = "begin" /\ Moved(r, "begin")
  \/ /\ req[r].kind = "commit"
     /\ \/ Moved(r, "taken") /\ req'[r].tx \in Tx
        \/ /\ req[r].pc = "taken" /\ req'[r].tx = req[r].tx
           /\ \/ Moved(r, "landed") \/ Moved(r, "refused")
              \/ LockMayFail /\ Moved(r, "retry")

LEMMA Moves ==
  ASSUME TypeOK, ShapeInv, NEW r \in Req, Serve(r)
  PROVE  InFlight(r) /\ Advances(r)
<1>t. ReqOK
  BY DEF TypeOK, ReqOK
<1>0. InFlight(r)
  BY DEF Serve, At, Resolve, LockGraph, RejectWrite, Stage, WriteOutside, Land, BeginCheck,
     AlreadyOpen, Begin, CommitTake, CommitLand, CommitRefused, Finish, Reopen, Abort
<1>q. req[r] \in Request /\ req[r].h \in Handle
  BY <1>0, ShapeOf, ReqParts
<1>b. Answer(r) => Advances(r)
  BY <1>t, AnswerReq DEF Advances
<1>g. \A pc \in ReqPC : Goes(r, pc) => Moved(r, pc) /\ req'[r].src = req[r].src /\ req'[r].tx = req[r].tx
  BY <1>t, <1>0, GoesReq
<1>pcs. {"lock", "ready", "land", "begin", "landed", "refused", "retry"} \subseteq ReqPC
  BY DEF ReqPC
<1>1. CASE Resolve(r)
  <2>1. req[r].kind \in Writes /\ req[r].pc = "sent" /\ req[r].src = 0
    BY <1>1, <1>0 DEF Resolve, At, ShapeInv
  <2>2. CASE open[req[r].h] # NoTx
    <3>1. open[req[r].h].id \in Nat
      BY <1>q, <2>2, TxParts DEF TypeOK
    <3>2. req' = [req EXCEPT ![r].src = open[req[r].h].id, ![r].pc = "ready"]
      BY <1>1, <2>2 DEF Resolve
    <3>3. Moved(r, "ready")
      BY <1>t, <1>0, <3>1, <3>2, RouteReq
    <3>4. QED
      BY <1>0, <2>1, <3>3 DEF Advances
  <2>3. CASE open[req[r].h] = NoTx
    <3>1. Goes(r, "lock") \/ Answer(r)
      BY <1>1, <2>3 DEF Resolve
    <3>2. QED
      BY <1>0, <1>b, <1>g, <1>pcs, <2>1, <3>1 DEF Advances
  <2>4. QED
    BY <2>2, <2>3
<1>2. CASE LockGraph(r)
  BY <1>2, <1>0, <1>g, <1>pcs, ShapeOf DEF LockGraph, At, Advances
<1>3. CASE RejectWrite(r) \/ Stage(r) \/ Land(r) \/ AlreadyOpen(r) \/ Begin(r) \/ Finish(r)
           \/ Reopen(r) \/ Abort(r)
  BY <1>0, <1>3, <1>b DEF RejectWrite, Stage, Land, AlreadyOpen, Begin, Finish, Reopen, Abort
<1>4. CASE WriteOutside(r)
  <2>1. Goes(r, "land") \/ Answer(r)
    BY <1>4 DEF WriteOutside
  <2>2. req[r].pc = "ready" /\ req[r].kind \in Writes
    BY <1>4, ShapeOf DEF WriteOutside, At
  <2>3. QED
    BY <1>0, <1>b, <1>g, <1>pcs, <2>1, <2>2 DEF Advances
<1>5. CASE BeginCheck(r)
  BY <1>0, <1>5, <1>b, <1>g, <1>pcs DEF BeginCheck, Advances
<1>6. CASE CommitTake(r)
  <2>1. CASE open[req[r].h] # NoTx
    <3>1. open[req[r].h] \in Tx
      BY <1>q, <2>1 DEF TypeOK
    <3>2. req' = [req EXCEPT ![r].pc = "taken", ![r].tx = open[req[r].h]]
      BY <1>6, <2>1 DEF CommitTake
    <3>3. Moved(r, "taken") /\ req'[r].tx \in Tx
      BY <1>t, <1>0, <3>1, <3>2, TakeReq
    <3>4. QED
      BY <1>0, <1>6, <3>3 DEF CommitTake, Advances
  <2>2. CASE open[req[r].h] = NoTx
    BY <1>0, <1>6, <1>b, <2>2 DEF CommitTake
  <2>3. QED
    BY <2>1, <2>2
<1>7. CASE CommitLand(r) \/ CommitRefused(r)
  <2>1. req[r].pc = "taken" /\ req[r].kind = "commit"
    BY <1>7, ShapeOf DEF CommitLand, CommitRefused, At, MidCommit
  <2>2. Goes(r, "landed") \/ Goes(r, "refused") \/ (LockMayFail /\ Goes(r, "retry"))
    BY <1>7 DEF CommitLand, CommitRefused
  <2>3. QED
    BY <1>0, <1>g, <1>pcs, <2>1, <2>2 DEF Advances
<1>8. QED
  BY <1>0, <1>1, <1>2, <1>3, <1>4, <1>5, <1>6, <1>7 DEF Serve

\* Positions, kinds and what a request carries stay together.
LEMMA ShapeServe ==
  ASSUME TypeOK, ShapeInv, NEW r \in Req, Serve(r)
  PROVE  ShapeInv'
<1>1. InFlight(r) /\ Advances(r) /\ req[r] \in Request
  BY Moves, ShapeOf
<1>2. Others(r)
  BY <1>1 DEF Advances, Gone, Moved
<1>3. ASSUME NEW s \in Req \ {r}, InFlight(s)' PROVE InFlight(s) /\ req'[s] = req[s]
  BY <1>2, <1>3 DEF Others, InFlight
<1>4. CASE Gone(r)
  BY <1>3, <1>4 DEF ShapeInv, InFlight, MidCommit, Gone
<1>5. CASE ~Gone(r)
  <2>1. /\ req'[r].kind = req[r].kind /\ req'[r].d = req[r].d
        /\ req'[r].pc = "lock" => req'[r].src = 0
        /\ req'[r].pc # "sent"
    BY <1>1, <1>5 DEF Advances, Moved
  <2>2. /\ req[r].kind \in Writes => req'[r].pc \in {"lock", "ready", "land"}
        /\ req[r].kind = "begin" => req'[r].pc = "begin"
        /\ req[r].kind = "commit" => req'[r].pc \in {"taken", "landed", "refused", "retry"}
        /\ req[r].kind # "abort"
        /\ req'[r].pc = "retry" => LockMayFail
    BY <1>1, <1>5 DEF Advances, Moved, Writes, Puts
  <2>3. InFlight(r)' /\ (MidCommit(r)' => req'[r].tx \in Tx)
    <3>1. req'[r] \in Request
      BY <1>1, <1>5 DEF Advances, Moved
    <3>2. req[r].pc = "taken" => req[r].tx \in Tx
      BY <1>1 DEF ShapeInv, MidCommit
    <3>3. QED
      BY <1>1, <1>5, <3>1, <3>2, NoneIsNone DEF Advances, Moved, MidCommit, InFlight
  <2>4. QED
    BY <1>1, <1>3, <2>1, <2>2, <2>3 DEF ShapeInv, InFlight, MidCommit
<1>6. QED
  BY <1>4, <1>5

LEMMA ExclusiveServe ==
  ASSUME TypeOK, ShapeInv, ExclusiveInv, NEW r \in Req, Serve(r)
  PROVE  ExclusiveInv'
<1>1. InFlight(r) /\ Advances(r)
  BY Moves
<1>2. \A s \in Req : InFlight(s)' =>
        InFlight(s) /\ req'[s].h = req[s].h /\ req'[s].kind = req[s].kind
  BY <1>1 DEF Advances, Gone, Moved, Others, InFlight
<1>3. QED
  BY <1>2 DEF ExclusiveInv

\* A step of the clients, the daemon or other programs starts at most one request,
\* which no other excludes, or ends them all.
LEMMA RestMoves ==
  ASSUME TypeOK, Environment \/ Daemon
  PROVE  \/ \E r \in Req :
              /\ Others(r) /\ ~InFlight(r) /\ InFlight(r)' /\ req'[r] \in Request
              /\ req'[r].pc = "sent" /\ req'[r].src = 0
              /\ req'[r].kind \in Puts => req'[r].d \in Doc
              /\ up
              /\ Pipelined \/ \A s \in Req \ {r} :
                   (InFlight(s) /\ req[s].h = req'[r].h) =>
                     req[s].kind \in Writes /\ req'[r].kind \in Writes
              /\ UNCHANGED <<up, guards, private, told, nextId, history>>
         \/ req' = req
         \/ Stop /\ \A r \in Req : ~InFlight(r)'
<1>1. ASSUME NEW r \in Req, NEW kind \in Writes \cup Controls, NEW h \in Handle, NEW k \in Key,
             NEW d \in Content, Send(r, kind, h, k, d)
      PROVE  /\ Others(r) /\ ~InFlight(r) /\ InFlight(r)' /\ req'[r] \in Request
             /\ req'[r].pc = "sent" /\ req'[r].src = 0
             /\ req'[r].kind \in Puts => req'[r].d \in Doc
             /\ up
             /\ Pipelined \/ \A s \in Req \ {r} :
                  (InFlight(s) /\ req[s].h = req'[r].h) =>
                    req[s].kind \in Writes /\ req'[r].kind \in Writes
             /\ UNCHANGED <<up, guards, private, told, nextId, history>>
  <2>1. /\ Others(r) /\ ~InFlight(r) /\ req'[r] \in Request
        /\ req'[r] = [pc |-> "sent", kind |-> kind, h |-> h, k |-> k, d |-> d,
                      src |-> 0, tx |-> NoTx]
    BY <1>1, SendReq DEF TypeOK, ReqOK
  <2>2. InFlight(r)'
    BY <2>1, NoneIsNone DEF InFlight
  <2>3. /\ up
        /\ kind \in Puts => d \in Doc
        /\ Pipelined \/ \A s \in Req : (InFlight(s) /\ req[s].h = h) =>
                          kind \in Writes /\ req[s].kind \in Writes
        /\ UNCHANGED <<up, guards, private, told, nextId, history>>
    BY <1>1 DEF Send
  <2>4. QED
    BY <2>1, <2>2, <2>3
<1>2. CASE Stop
  BY <1>2 DEF Stop, InFlight
<1>3. CASE Daemon
  BY <1>2, <1>3 DEF Daemon, GrowIdle, Expire, Reap, Drain, Start
<1>4. CASE Environment
  BY <1>1, <1>4 DEF Environment, Watch, Outside
<1>5. QED
  BY <1>3, <1>4

LEMMA ShapeRest ==
  ASSUME TypeOK, ShapeInv, ExclusiveInv, Environment \/ Daemon
  PROVE  ShapeInv' /\ ExclusiveInv'
<1>1. CASE req' = req
  BY <1>1 DEF ShapeInv, ExclusiveInv, InFlight, MidCommit
<1>2. CASE \A r \in Req : ~InFlight(r)'
  BY <1>2 DEF ShapeInv, ExclusiveInv
<1>3. ASSUME NEW r \in Req,
             Others(r), ~InFlight(r), InFlight(r)', req'[r] \in Request,
             req'[r].pc = "sent", req'[r].src = 0,
             req'[r].kind \in Puts => req'[r].d \in Doc,
             Pipelined \/ \A s \in Req \ {r} :
               (InFlight(s) /\ req[s].h = req'[r].h) =>
                 req[s].kind \in Writes /\ req'[r].kind \in Writes
      PROVE  ShapeInv' /\ ExclusiveInv'
  <2>1. \A s \in Req \ {r} : (InFlight(s)' <=> InFlight(s)) /\ req'[s] = req[s]
    BY <1>3 DEF Others, InFlight
  <2>2. ShapeInv'
    BY <1>3, <2>1 DEF ShapeInv, MidCommit
  <2>3. ExclusiveInv'
    BY <1>3, <2>1 DEF ExclusiveInv
  <2>4. QED
    BY <2>2, <2>3
<1>4. QED
  BY <1>1, <1>2, <1>3, RestMoves

\* Nothing is open or under way while the daemon is down.
LEMMA DownStep ==
  ASSUME TypeOK, ShapeInv, DownInv, Next
  PROVE  DownInv'
<1> USE DEF guards, counters, history
<1>1. ASSUME NEW r \in Req, Serve(r) PROVE DownInv'
  <2>1. up
    BY <1>1, Moves DEF DownInv
  <2>2. up' = up
    BY <1>1 DEF Serve, Resolve, LockGraph, RejectWrite, Stage, WriteOutside, Land, BeginCheck,
     AlreadyOpen, Begin, CommitTake, CommitLand, CommitRefused, Finish, Reopen, Abort
  <2>3. QED
    BY <2>1, <2>2 DEF DownInv
<1>2. CASE Environment
  BY <1>2 DEF Environment, Send, Watch, Outside, DownInv, InFlight
<1>3. CASE Daemon
  BY <1>3 DEF Daemon, GrowIdle, Expire, Reap, Drain, Stop, Start, DownInv, InFlight
<1>4. CASE Finished
  BY <1>4 DEF Finished, serverVars, DownInv, InFlight
<1>5. QED
  BY <1>1, <1>2, <1>3, <1>4 DEF Next
-----------------------------------------------------------------------------
(* Where transactions are *)

SameTx(t, u) ==
  /\ t.id = u.id /\ t.pending = u.pending /\ t.baseline = u.baseline /\ t.effect = u.effect
  /\ t.restaged = u.restaged

OpenKept(h) == open'[h] # NoTx => open[h] # NoTx /\ SameTx(open'[h], open[h])
CarryKept(s) == Carries(s)' => Carries(s) /\ req'[s].tx = req[s].tx

\* Transactions may go, but none comes, moves or is written to.
Quiet ==
  /\ nextId' = nextId
  /\ \A h \in Handle : OpenKept(h)
  /\ \A s \in Req : CarryKept(s)

\* The four steps that are not quiet: a transaction is opened, taken for its commit,
\* put back for a retry, or written to.
New == [id |-> nextId, pending |-> Untouched, baseline |-> Untouched,
        effect |-> [k \in Key |-> "unnamed"], idle |-> FALSE, restaged |-> {}]

Opens(r) ==
  /\ open' = [open EXCEPT ![req[r].h] = New] /\ nextId <= MaxSent /\ nextId' = nextId + 1
  /\ private' = [private EXCEPT ![nextId] = graph] /\ UNCHANGED <<asked, seen>>
  /\ \A s \in Req : CarryKept(s)

Takes(r) ==
  /\ open[req[r].h] \in Tx /\ open' = [open EXCEPT ![req[r].h] = NoTx] /\ nextId' = nextId
  /\ Carries(r)' /\ req'[r].tx = open[req[r].h]
  /\ \A s \in Req \ {r} : CarryKept(s)
  /\ UNCHANGED <<private, asked, seen>>

Returns(r) ==
  /\ Carries(r) /\ ~Carries(r)' /\ LockMayFail
  /\ open' = [open EXCEPT ![req[r].h] = Restage(req[r].tx)] /\ nextId' = nextId
  /\ \A s \in Req \ {r} : CarryKept(s)
  /\ UNCHANGED <<private, asked, seen>>

LEMMA NewIs ==
  ASSUME nextId \in Nat
  PROVE  /\ New \in Tx /\ New.id = nextId /\ New.pending = Untouched /\ New.baseline = Untouched
         /\ New.restaged = {} /\ \A k \in Key : New.effect[k] = "unnamed"
  BY DEF New, Tx, Untouched, Slot

\* Every step of a request is quiet or one of the four.
LEMMA ServeKinds ==
  ASSUME TypeOK, ShapeInv, NEW r \in Req, Serve(r)
  PROVE  \/ /\ Quiet /\ UNCHANGED <<asked, seen>>
            /\ private' = private \/ (Land(r) /\ req[r].src # 0)
         \/ Opens(r) \/ Takes(r) \/ Returns(r) \/ Stage(r)
<1> USE DEF guards, counters, history
<1>0. InFlight(r) /\ Advances(r)
  BY Moves
<1>q. req[r] \in Request /\ req[r].h \in Handle /\ open \in [Handle -> Tx \cup {NoTx}]
  BY <1>0, ShapeOf, ReqParts DEF TypeOK
<1>c. \A s \in Req \ {r} : CarryKept(s)
  BY <1>0 DEF CarryKept, Carries, Advances, Gone, Moved, Others, InFlight
<1>r. CarryKept(r) \/ req'[r].pc = "taken"
  BY <1>0, ShapeOf DEF CarryKept, Carries, Advances, Gone, Moved, InFlight, MidCommit
<1>g. Answer(r) => CarryKept(r) /\ ~Carries(r)'
  BY DEF Answer, CarryKept, Carries, InFlight, TypeOK
<1>i. \A t \in Tx : SameTx([t EXCEPT !.idle = FALSE], t)
  BY DEF Tx, SameTx
<1>k. ASSUME nextId' = nextId, CarryKept(r),
             \/ open' = open \/ open' = [open EXCEPT ![req[r].h] = NoTx]
             \/ open[req[r].h] # NoTx /\ open' = [open EXCEPT ![req[r].h].idle = FALSE]
      PROVE  Quiet
  <2>1. CASE open' = open \/ open' = [open EXCEPT ![req[r].h] = NoTx]
    BY <1>k, <1>c, <1>q, <2>1 DEF Quiet, OpenKept, SameTx
  <2>2. CASE open[req[r].h] # NoTx /\ open' = [open EXCEPT ![req[r].h].idle = FALSE]
    <3>1. open' = [open EXCEPT ![req[r].h] = [open[req[r].h] EXCEPT !.idle = FALSE]]
      BY <2>2
    <3>2. \A h \in Handle : OpenKept(h)
      BY <1>q, <1>i, <2>2, <3>1 DEF OpenKept, SameTx
    <3>3. QED
      BY <1>k, <1>c, <3>2 DEF Quiet
  <2>3. QED
    BY <1>k, <2>1, <2>2
<1>1. CASE Resolve(r)
  <2>1. req[r].pc = "sent" /\ req[r].kind \in Writes
    BY <1>1 DEF Resolve, At
  <2>2. CarryKept(r)
    BY <1>0, <2>1 DEF CarryKept, Carries, Advances, Gone, Moved, InFlight, Writes, Puts
  <2>3. QED
    BY <1>1, <1>k, <2>2 DEF Resolve
<1>2. CASE LockGraph(r) \/ RejectWrite(r) \/ WriteOutside(r) \/ BeginCheck(r)
  <2>1. req'[r].pc # "taken" \/ ~InFlight(r)'
    <3>1. \/ Answer(r) \/ Goes(r, "ready") \/ Goes(r, "land") \/ Goes(r, "begin")
      BY <1>2 DEF LockGraph, RejectWrite, WriteOutside, BeginCheck
    <3>2. {"ready", "land", "begin"} \subseteq ReqPC
      BY DEF ReqPC
    <3>3. QED
      BY <1>0, <3>1, <3>2, GoesReq, AnswerReq DEF TypeOK, ReqOK, Moved, Gone, InFlight
  <2>2. CarryKept(r)
    BY <1>r, <2>1 DEF CarryKept, Carries
  <2>3. QED
    BY <1>2, <1>k, <2>2 DEF LockGraph, RejectWrite, WriteOutside, BeginCheck
<1>3. CASE Land(r)
  <2>1. Quiet /\ UNCHANGED <<asked, seen>>
    BY <1>3, <1>g, <1>k DEF Land
  <2>2. private' = private \/ req[r].src # 0
    BY <1>3 DEF Land, Mutate
  <2>3. QED
    BY <1>3, <2>1, <2>2
<1>4. CASE AlreadyOpen(r)
  BY <1>4, <1>g, <1>k DEF AlreadyOpen
<1>5. CASE Begin(r)
  <2>1. CarryKept(r) /\ UNCHANGED <<asked, seen>> /\ nextId <= MaxSent
    BY <1>5, <1>g DEF Begin
  <2>2. CASE /\ open' = [open EXCEPT ![req[r].h] = New]
             /\ private' = [private EXCEPT ![nextId] = graph]
             /\ nextId' = nextId + 1
    BY <1>c, <2>1, <2>2 DEF Opens
  <2>3. CASE UNCHANGED <<guards, private, nextId, told>>
    BY <1>k, <2>1, <2>3
  <2>4. QED
    BY <1>5, <2>2, <2>3 DEF Begin, New
<1>6. CASE CommitTake(r)
  <2>1. CASE open[req[r].h] # NoTx
    <3>1. open[req[r].h] \in Tx
      BY <1>q, <2>1
    <3>2. req' = [req EXCEPT ![r].pc = "taken", ![r].tx = open[req[r].h]]
      BY <1>6, <2>1 DEF CommitTake
    <3>3. Moved(r, "taken") /\ req'[r].tx = open[req[r].h]
      BY <1>0, <3>1, <3>2, TakeReq DEF TypeOK, ReqOK
    <3>4. Carries(r)'
      BY <3>3, NoneIsNone DEF Carries, Moved, InFlight
    <3>5. Takes(r)
      BY <1>6, <1>c, <2>1, <3>1, <3>3, <3>4 DEF CommitTake, Takes
    <3>6. QED
      BY <3>5
  <2>2. CASE open[req[r].h] = NoTx
    BY <1>6, <1>g, <1>k, <2>2 DEF CommitTake
  <2>3. QED
    BY <2>1, <2>2
<1>7. CASE CommitLand(r) \/ CommitRefused(r)
  <2>1. req[r].pc = "taken" /\ Carries(r)
    BY <1>7, <1>0 DEF CommitLand, CommitRefused, At, Carries
  <2>2. CarryKept(r)
    <3>1. req[r].kind = "commit"
      BY <2>1, <1>0, ShapeOf DEF MidCommit
    <3>2. Goes(r, "landed") \/ Goes(r, "refused") \/ Goes(r, "retry")
      BY <1>7 DEF CommitLand, CommitRefused
    <3>3. {"landed", "refused", "retry"} \subseteq ReqPC
      BY DEF ReqPC
    <3>4. req'[r].tx = req[r].tx
      BY <1>0, <3>2, <3>3, GoesReq DEF TypeOK, ReqOK
    <3>5. QED
      BY <2>1, <3>4 DEF CarryKept
  <2>3. QED
    BY <1>7, <1>k, <2>2 DEF CommitLand, CommitRefused
<1>8. CASE Finish(r)
  BY <1>8, <1>g, <1>k DEF Finish
<1>9. CASE Reopen(r)
  <2>1. Carries(r) /\ LockMayFail /\ ~Carries(r)'
    BY <1>9, <1>0, <1>g DEF Reopen, At, Carries, ShapeInv
  <2>2. QED
    BY <1>9, <1>c, <2>1 DEF Reopen, Returns
<1>10. CASE Abort(r)
  BY <1>10, <1>g, <1>k DEF Abort
<1>11. QED
  BY <1>1, <1>2, <1>3, <1>4, <1>5, <1>6, <1>7, <1>8, <1>9, <1>10 DEF Serve

\* Everything else is quiet.
LEMMA RestQuiet ==
  ASSUME TypeOK, Environment \/ Daemon
  PROVE  Quiet /\ UNCHANGED <<private, asked, seen>>
<1> USE DEF guards, counters, history
<1>1. \A s \in Req : CarryKept(s)
  BY RestMoves DEF CarryKept, Carries, Others, InFlight
<1>2. nextId' = nextId /\ UNCHANGED <<private, asked, seen>>
  BY DEF Environment, Daemon, Send, Watch, Outside, GrowIdle, Expire, Reap, Drain, Stop, Start
<1>3. \A h \in Handle : OpenKept(h)
  <2>1. ASSUME NEW g \in Handle, GrowIdle(g) PROVE \A h \in Handle : OpenKept(h)
    <3>1. open[g] \in Tx /\ open' = [open EXCEPT ![g] = [open[g] EXCEPT !.idle = TRUE]]
      BY <2>1 DEF GrowIdle, TypeOK
    <3>2. \A t \in Tx : SameTx([t EXCEPT !.idle = TRUE], t)
      BY DEF Tx, SameTx
    <3>3. open[g] # NoTx /\ open \in [Handle -> Tx \cup {NoTx}]
      BY <2>1 DEF GrowIdle, TypeOK
    <3>4. QED
      BY <3>1, <3>2, <3>3 DEF OpenKept, SameTx
  <2>2. CASE Reap \/ Stop
    BY <2>2 DEF Reap, Stop, OpenKept, SameTx
  <2>3. CASE open' = open
    BY <2>3 DEF OpenKept, SameTx
  <2>4. QED
    BY <2>1, <2>2, <2>3 DEF Environment, Daemon, Send, Watch, Outside, Expire, Drain, Start
<1>4. QED
  BY <1>1, <1>2, <1>3 DEF Quiet

LEMMA QuietId == IdInv /\ Quiet => IdInv'
  BY DEF IdInv, Quiet, OpenKept, CarryKept, SameTx

LEMMA Below ==
  ASSUME NEW m \in Nat, NEW i \in 1..(m - 1)
  PROVE  i # m /\ i \in 1..m
OBVIOUS

\* A transaction stays in one place.
LEMMA IdServe ==
  ASSUME TypeOK, ShapeInv, IdInv, NEW r \in Req, Serve(r)
  PROVE  IdInv'
<1>q. req[r].h \in Handle /\ open \in [Handle -> Tx \cup {NoTx}]
  BY Moves, ShapeOf, ReqParts DEF TypeOK
<1>n. nextId \in 1..(MaxSent + 1) /\ MaxSent \in Nat
  BY ServerConstants DEF IdInv
<1>1. CASE Quiet
  BY <1>1, QuietId
<1>2. CASE Opens(r)
  <2>1. open'[req[r].h].id = nextId /\ \A h \in Handle \ {req[r].h} : open'[h] = open[h]
    BY <1>2, <1>q, <1>n, NewIs DEF Opens
  <2>2. \A h \in Handle : open[h] # NoTx => open[h].id \in 1..(nextId - 1)
    BY DEF IdInv
  <2>3. \A s \in Req : Carries(s)' => Carries(s) /\ req'[s].tx.id = req[s].tx.id
    BY <1>2 DEF Opens, CarryKept
  <2>4. nextId' \in 1..(MaxSent + 1) /\ nextId' - 1 = nextId
    BY <1>2, <1>n DEF Opens
  <2>5. ASSUME NEW h \in Handle, open'[h] # NoTx
        PROVE  /\ open'[h].id \in 1..(nextId' - 1)
               /\ \A g \in Handle \ {h} : open'[g] # NoTx => open'[g].id # open'[h].id
    BY <1>n, <2>1, <2>2, <2>4, <2>5 DEF IdInv
  <2>6. ASSUME NEW s \in Req, Carries(s)'
        PROVE  /\ req'[s].tx.id \in 1..(nextId' - 1)
               /\ \A h \in Handle : open'[h] # NoTx => open'[h].id # req'[s].tx.id
               /\ \A u \in Req \ {s} : Carries(u)' => req'[u].tx.id # req'[s].tx.id
    <3>1. /\ Carries(s) /\ req'[s].tx.id = req[s].tx.id /\ req[s].tx.id \in 1..(nextId - 1)
          /\ \A h \in Handle : open[h] # NoTx => open[h].id # req[s].tx.id
          /\ \A u \in Req \ {s} : Carries(u) => req[u].tx.id # req[s].tx.id
      BY <2>3, <2>6 DEF IdInv
    <3>2. req[s].tx.id # nextId /\ req'[s].tx.id \in 1..(nextId' - 1)
      <4>1. req[s].tx.id # nextId /\ req[s].tx.id \in 1..nextId
        BY <1>n, <3>1, Below
      <4>2. 1..(nextId' - 1) = 1..nextId
        BY <2>4
      <4>3. QED
        BY <3>1, <4>1, <4>2
    <3>3. \A h \in Handle : open'[h] # NoTx => open'[h].id # req'[s].tx.id
      BY <2>1, <3>1, <3>2
    <3>4. \A u \in Req \ {s} : Carries(u)' => req'[u].tx.id # req'[s].tx.id
      BY <2>3, <3>1
    <3>5. QED
      BY <3>2, <3>3, <3>4
  <2>7. QED
    BY <2>4, <2>5, <2>6 DEF IdInv
<1>3. CASE Takes(r)
  <2>1. /\ open'[req[r].h] = NoTx /\ \A h \in Handle \ {req[r].h} : open'[h] = open[h]
        /\ nextId' = nextId /\ open[req[r].h] # NoTx
        /\ req'[r].tx.id = open[req[r].h].id
    BY <1>3, <1>q, NoneIsNone DEF Takes
  <2>2. \A s \in Req \ {r} : Carries(s)' => Carries(s) /\ req'[s].tx.id = req[s].tx.id
    BY <1>3 DEF Takes, CarryKept
  <2>3. QED
    BY <1>q, <2>1, <2>2 DEF IdInv
<1>4. CASE Returns(r)
  <2>1. req[r].tx \in Tx /\ req[r].tx.id \in 1..(nextId - 1)
    BY <1>4, ShapeOf DEF Returns, IdInv, Carries, MidCommit
  <2>2. Restage(req[r].tx).id = req[r].tx.id
    <3>1. req[r].tx.id \in 1..MaxSent
      BY <1>n, <2>1
    <3>2. QED
      BY <2>1, <3>1, RestageIs DEF TypeOK
  <2>3. /\ open'[req[r].h].id = req[r].tx.id
        /\ \A h \in Handle \ {req[r].h} : open'[h] = open[h]
        /\ nextId' = nextId
    BY <1>4, <1>q, <2>2 DEF Returns
  <2>4. Carries(r) /\ \A s \in Req : Carries(s)' => s # r /\ Carries(s) /\ req'[s].tx.id = req[s].tx.id
    BY <1>4 DEF Returns, CarryKept
  <2>5. QED
    BY <2>1, <2>3, <2>4 DEF IdInv
<1>5. CASE Stage(r)
  <2>1. /\ open[req[r].h] # NoTx
        /\ open'[req[r].h].id = open[req[r].h].id
        /\ \A h \in Handle \ {req[r].h} : open'[h] = open[h]
    <3>1. /\ req[r] \in Request /\ req[r].kind \in Writes /\ open[req[r].h] \in Tx
          /\ open' = [open EXCEPT ![req[r].h] = Noted(open[req[r].h], req[r])]
      BY <1>5, StageOpens
    <3>2. Noted(open[req[r].h], req[r]).id = open[req[r].h].id
      BY <3>1, NotedIs DEF TypeOK
    <3>3. QED
      BY <1>q, <3>1, <3>2, NoneIsNone
  <2>2. nextId' = nextId /\ \A s \in Req : Carries(s)' => Carries(s) /\ req'[s].tx.id = req[s].tx.id
    BY <1>5 DEF Stage, Answer, Carries, InFlight, TypeOK, counters
  <2>3. QED
    BY <2>1, <2>2 DEF IdInv
<1>6. QED
  BY <1>1, <1>2, <1>3, <1>4, <1>5, ServeKinds

-----------------------------------------------------------------------------
(* The part of the invariant the others build on *)

Core == TypeOK /\ ShapeInv /\ ExclusiveInv /\ IdInv /\ DownInv

\* Nothing has happened yet.
LEMMA CoreInit == Init => Core
<1> SUFFICES ASSUME Init PROVE Core
  OBVIOUS
<1>1. \A r \in Req : ~InFlight(r)
  BY DEF Init, InFlight
<1>2. ShapeInv /\ ExclusiveInv /\ DownInv
  BY <1>1 DEF ShapeInv, ExclusiveInv, DownInv, Init
<1>3. IdInv
  BY <1>1, ServerConstants DEF IdInv, Carries, Init
<1>4. QED
  BY <1>2, <1>3, InitTyped DEF Core

\* Steps that change nothing keep everything.
LEMMA CoreStep == Core /\ [Next]_serverVars => Core'
<1> SUFFICES ASSUME Core, [Next]_serverVars PROVE Core'
  OBVIOUS
<1>c. TypeOK /\ ShapeInv /\ ExclusiveInv /\ IdInv /\ DownInv
  BY DEF Core
<1>1. CASE UNCHANGED serverVars
  <2>1. TypeOK'
    BY <1>c, <1>1 DEF TypeOK, serverVars, guards, counters, history
  <2>2. ShapeInv' /\ ExclusiveInv' /\ DownInv'
    BY <1>c, <1>1 DEF ShapeInv, ExclusiveInv, DownInv, InFlight, MidCommit, serverVars, guards
  <2>3. IdInv'
    BY <1>c, <1>1 DEF IdInv, Carries, InFlight, serverVars, guards, counters
  <2>4. QED
    BY <2>1, <2>2, <2>3 DEF Core
<1>2. ASSUME NEW r \in Req, Serve(r) PROVE Core'
  <2>1. TypeOK'
    BY <1>c, <1>2, TypeServe
  <2>2. ShapeInv'
    BY <1>c, <1>2, ShapeServe
  <2>3. ExclusiveInv'
    BY <1>c, <1>2, ExclusiveServe
  <2>4. IdInv'
    BY <1>c, <1>2, IdServe
  <2>5. DownInv'
    BY <1>c, <1>2, DownStep DEF Next
  <2>6. QED
    BY <2>1, <2>2, <2>3, <2>4, <2>5 DEF Core
<1>3. CASE Environment \/ Daemon
  <2>1. TypeOK'
    BY <1>c, <1>3, TypeRest
  <2>2. ShapeInv' /\ ExclusiveInv'
    BY <1>c, <1>3, ShapeRest
  <2>3. IdInv'
    BY <1>c, <1>3, RestQuiet, QuietId
  <2>4. DownInv'
    BY <1>c, <1>3, DownStep DEF Next
  <2>5. QED
    BY <2>1, <2>2, <2>3, <2>4 DEF Core
<1>4. QED
  BY <1>1, <1>2, <1>3 DEF Next, Finished

\* The state is well-typed in every behaviour.
THEOREM TypeCorrect == Spec => []TypeOK
<1>1. Core => TypeOK
  BY DEF Core
<1>2. QED
  BY CoreInit, CoreStep, <1>1, PTL DEF Spec

-----------------------------------------------------------------------------
(* Writes and the transactions they resolved *)

\* The handle keeps the transaction it has, or stays without one.
Same(h) ==
  /\ open'[h] = NoTx <=> open[h] = NoTx
  /\ open[h] # NoTx => open'[h].id = open[h].id

\* A request touches its own handle only, and a write opens or ends nothing there.
LEMMA ServeOpens ==
  ASSUME TypeOK, ShapeInv, NEW r \in Req, Serve(r)
  PROVE  /\ \A g \in Handle \ {req[r].h} : open'[g] = open[g]
         /\ req[r].kind \in Writes => \A g \in Handle : Same(g)
<1> USE DEF guards
<1>q. req[r] \in Request /\ req[r].h \in Handle /\ open \in [Handle -> Tx \cup {NoTx}]
  BY Moves, ShapeOf, ReqParts DEF TypeOK
<1>k. req[r].kind \in Writes => req[r].pc \in {"sent", "lock", "ready", "land"}
  BY Moves DEF ShapeInv
<1>1. CASE LockGraph(r) \/ RejectWrite(r) \/ WriteOutside(r) \/ Land(r) \/ BeginCheck(r)
           \/ CommitLand(r) \/ CommitRefused(r) \/ Finish(r)
  BY <1>1 DEF LockGraph, RejectWrite, WriteOutside, Land, BeginCheck, CommitLand, CommitRefused,
     Finish, Same
<1>2. CASE Resolve(r) \/ AlreadyOpen(r)
  <2>1. CASE open[req[r].h] = NoTx
    BY <1>2, <2>1 DEF Resolve, AlreadyOpen, Same
  <2>2. CASE open[req[r].h] # NoTx
    <3>1. open' = [open EXCEPT ![req[r].h] = [open[req[r].h] EXCEPT !.idle = FALSE]]
      BY <1>2, <2>2 DEF Resolve, AlreadyOpen
    <3>2. open[req[r].h] \in Tx /\ \A t \in Tx : LET u == [t EXCEPT !.idle = FALSE] IN u \in Tx /\ u.id = t.id
      BY <1>q, <2>2 DEF Tx
    <3>3. QED
      BY <1>q, <3>1, <3>2, NoneIsNone DEF Same
  <2>3. QED
    BY <2>1, <2>2
<1>3. CASE Stage(r)
  <2>1. /\ open[req[r].h] \in Tx /\ Noted(open[req[r].h], req[r]) \in Tx
        /\ open' = [open EXCEPT ![req[r].h] = Noted(open[req[r].h], req[r])]
    BY <1>3, StageOpens
  <2>2. Noted(open[req[r].h], req[r]).id = open[req[r].h].id
    BY <1>3, <2>1, StageOpens, NotedIs DEF TypeOK
  <2>3. QED
    BY <1>q, <2>1, <2>2, NoneIsNone DEF Same
<1>4. CASE Begin(r) \/ CommitTake(r) \/ Reopen(r) \/ Abort(r)
  <2>1. req[r].kind \notin Writes
    BY <1>4, <1>k DEF Begin, CommitTake, Reopen, Abort, At, Writes, Puts
  <2>2. \A g \in Handle \ {req[r].h} : open'[g] = open[g]
    BY <1>4, <1>q DEF Begin, CommitTake, Reopen, Abort
  <2>3. QED
    BY <2>1, <2>2
<1>5. QED
  BY <1>1, <1>2, <1>3, <1>4 DEF Serve

Routed(s) ==
  IF req[s].src = 0
  THEN open[req[s].h] = NoTx
  ELSE open[req[s].h] # NoTx /\ open[req[s].h].id = req[s].src /\ req[s].pc = "ready"

\* The request that moves: it looks the transaction up, or finds none.
LEMMA RouteSelf ==
  ASSUME Core, ~Pipelined, RouteInv, NEW r \in Req, Serve(r), Resolved(r)'
  PROVE  Routed(r)'
<1> USE DEF guards
<1>c. TypeOK /\ ShapeInv /\ IdInv /\ ReqOK
  BY DEF Core, TypeOK, ReqOK
<1>q. InFlight(r) /\ Advances(r) /\ req[r] \in Request /\ req[r].h \in Handle
  BY <1>c, Moves, ShapeOf, ReqParts
<1>o. open \in [Handle -> Tx \cup {NoTx}]
  BY <1>c DEF TypeOK
<1>a. InFlight(r)' /\ ~Answer(r)
  BY <1>c, AnswerReq DEF Resolved, Gone, InFlight
<1>r. Resolved(r) => Routed(r)
  BY DEF RouteInv, Routed
<1>g. \A pc \in ReqPC : Goes(r, pc) => Moved(r, pc) /\ req'[r].src = req[r].src
  BY <1>c, <1>q, GoesReq
<1>pcs. {"lock", "ready", "land", "begin", "landed", "refused", "retry"} \subseteq ReqPC
  BY DEF ReqPC
<1>w. req[r].kind \in Writes
  BY <1>q, <1>a DEF Advances, Gone, Moved, Resolved, InFlight
<1>1. CASE Resolve(r)
  <2>1. CASE open[req[r].h] # NoTx
    <3>1. open[req[r].h].id \in Nat /\ open[req[r].h].id # 0
      <4>1. nextId \in Nat /\ open[req[r].h].id \in 1..(nextId - 1)
        BY <1>c, <1>q, <2>1 DEF IdInv, TypeOK
      <4>2. QED
        BY <4>1
    <3>2. req' = [req EXCEPT ![r].src = open[req[r].h].id, ![r].pc = "ready"]
      BY <1>1, <2>1 DEF Resolve
    <3>3. Moved(r, "ready") /\ req'[r].src = open[req[r].h].id
      BY <1>c, <1>q, <3>1, <3>2, RouteReq
    <3>4. Same(req[r].h)
      BY <1>c, <1>q, <1>w, ServeOpens
    <3>5. QED
      BY <2>1, <3>1, <3>3, <3>4 DEF Routed, Moved, Same
  <2>2. CASE open[req[r].h] = NoTx
    <3>1. Goes(r, "lock") /\ open' = open /\ req[r].src = 0
      BY <1>1, <1>a, <1>c, <1>q, <2>2 DEF Resolve, At, ShapeInv
    <3>2. QED
      BY <1>g, <1>pcs, <2>2, <3>1 DEF Routed, Moved
  <2>3. QED
    BY <2>1, <2>2
<1>2. CASE LockGraph(r)
  <2>1. Resolved(r) /\ req[r].src = 0 /\ open' = open /\ Goes(r, "ready")
    BY <1>2, <1>c, <1>q, <1>w DEF LockGraph, At, Resolved, ShapeInv
  <2>2. QED
    BY <1>g, <1>pcs, <1>r, <2>1 DEF Routed, Moved
<1>3. CASE WriteOutside(r)
  <2>1. Resolved(r) /\ open[req[r].h] = NoTx /\ open' = open /\ Goes(r, "land")
    BY <1>3, <1>a, <1>q, <1>w DEF WriteOutside, At, Resolved
  <2>2. req[r].src = 0
    BY <1>r, <2>1 DEF Routed
  <2>3. QED
    BY <1>g, <1>pcs, <2>1, <2>2 DEF Routed, Moved
<1>4. CASE RejectWrite(r) \/ Stage(r) \/ Land(r) \/ AlreadyOpen(r) \/ Begin(r) \/ Finish(r)
           \/ Reopen(r) \/ Abort(r)
  BY <1>4, <1>a DEF RejectWrite, Stage, Land, AlreadyOpen, Begin, Finish, Reopen, Abort
<1>5. CASE BeginCheck(r) \/ CommitTake(r) \/ CommitLand(r) \/ CommitRefused(r)
  <2>1. req[r].pc \notin {"lock", "ready", "land"} /\ req[r].kind \notin {"begin", "commit"}
    BY <1>5, <1>w DEF BeginCheck, CommitTake, CommitLand, CommitRefused, At, Writes, Puts
  <2>2. QED
    BY <1>5, <1>c, <1>q, <1>w, <2>1 DEF BeginCheck, CommitTake, CommitLand, CommitRefused, At, ShapeInv, Writes, Puts
<1>6. QED
  BY <1>1, <1>2, <1>3, <1>4, <1>5 DEF Serve

\* A write that resolved a transaction finds it, one that resolved none finds none.
LEMMA RouteServe ==
  ASSUME Core, RouteInv, NEW r \in Req, Serve(r)
  PROVE  RouteInv'
<1>c. TypeOK /\ ShapeInv /\ ExclusiveInv
  BY DEF Core
<1>q. InFlight(r) /\ Advances(r)
  BY <1>c, Moves
<1>1. SUFFICES ASSUME ~Pipelined, NEW s \in Req, Resolved(s)' PROVE Routed(s)'
  BY DEF RouteInv, Routed
<1>2. CASE s = r
  BY <1>1, <1>2, RouteSelf
<1>3. CASE s # r
  <2>1. Resolved(s) /\ InFlight(s) /\ req'[s] = req[s]
    BY <1>1, <1>q, <1>3 DEF Advances, Gone, Moved, Others, Resolved, InFlight
  <2>2. Routed(s)
    BY <1>1, <2>1 DEF RouteInv, Routed
  <2>3. req[s].h \in Handle
    BY <1>c, <2>1, ShapeOf, ReqParts
  <2>4. Same(req[s].h)
    <3>1. CASE req[s].h # req[r].h
      BY <1>c, <2>3, <3>1, ServeOpens DEF Same
    <3>2. CASE req[s].h = req[r].h
      <4>1. req[r].kind \in Writes
        BY <1>c, <1>1, <1>q, <1>3, <2>1, <3>2 DEF ExclusiveInv
      <4>2. QED
        BY <1>c, <2>3, <4>1, ServeOpens
    <3>3. QED
      BY <3>1, <3>2
  <2>5. QED
    BY <2>1, <2>2, <2>4 DEF Routed, Same
<1>4. QED
  BY <1>2, <1>3

\* The reaper leaves a transaction alone that a write has resolved.
LEMMA RouteRest ==
  ASSUME Core, RouteInv, Environment \/ Daemon
  PROVE  RouteInv'
<1> USE DEF guards
<1>c. TypeOK /\ ShapeInv
  BY DEF Core
<1>1. SUFFICES ASSUME ~Pipelined, NEW s \in Req, Resolved(s)' PROVE Routed(s)'
  BY DEF RouteInv, Routed
<1>2. Resolved(s) /\ InFlight(s) /\ req'[s] = req[s]
  BY <1>c, <1>1, RestMoves DEF Others, Resolved, InFlight
<1>3. Routed(s)
  BY <1>1, <1>2 DEF RouteInv, Routed
<1>4. req[s].h \in Handle /\ open \in [Handle -> Tx \cup {NoTx}]
  BY <1>c, <1>2, ShapeOf, ReqParts DEF TypeOK
<1>5. Same(req[s].h)
  <2>1. CASE Environment
    BY <2>1 DEF Environment, Send, Watch, Outside, Same
  <2>2. ASSUME NEW g \in Handle, GrowIdle(g) PROVE Same(req[s].h)
    <3>1. open[g] \in Tx /\ open' = [open EXCEPT ![g] = [open[g] EXCEPT !.idle = TRUE]]
      BY <1>4, <2>2 DEF GrowIdle
    <3>2. \A t \in Tx : LET u == [t EXCEPT !.idle = TRUE] IN u \in Tx /\ u.id = t.id
      BY DEF Tx
    <3>3. QED
      BY <1>4, <3>1, <3>2, NoneIsNone DEF Same
  <2>3. CASE Reap
    <3>1. req[s].h \notin Idle
      BY <1>2, <1>3 DEF Idle, Leased, Routed, Resolved
    <3>2. QED
      BY <1>4, <2>3, <3>1 DEF Reap, Same
  <2>4. CASE Stop
    BY <1>1, <2>4 DEF Stop, Resolved, InFlight
  <2>5. CASE Drain \/ Start \/ \E g \in Handle : Expire(g)
    BY <2>5 DEF Drain, Start, Expire, Same
  <2>6. QED
    BY <2>1, <2>2, <2>3, <2>4, <2>5 DEF Daemon
<1>6. QED
  BY <1>2, <1>3, <1>5 DEF Routed, Same

-----------------------------------------------------------------------------
(* What the state file has *)

\* Rewriting the file records every open transaction, every commit under way and
\* every tombstone.
LEMMA Saved ==
  ASSUME Core', file' = Recorded
  PROVE  /\ file'.lost = lost'
         /\ \A h \in Handle : open'[h] # NoTx \/ committing'[h] # 0 => file'.open[h] # 0
<1>t. /\ open' \in [Handle -> Tx \cup {NoTx}] /\ committing' \in [Handle -> Nat]
      /\ lost' \in [Handle -> Nat] /\ IdInv' /\ nextId' \in Nat
  BY DEF Core, TypeOK
<1> DEFINE o == open'
           c == committing'
<1>1. file'.lost = lost' /\ \A h \in Handle : file'.open[h] = IF o[h] # NoTx THEN o[h].id ELSE c[h]
  <2>1. o \in [Handle -> Tx \cup {NoTx}] /\ c \in [Handle -> Nat] /\ open' = o /\ committing' = c
    BY <1>t
  <2> HIDE DEF o, c
  <2>2. QED
    BY <1>t, <2>1, RecordedType
<1>2. ASSUME NEW h \in Handle, open'[h] # NoTx PROVE open'[h].id # 0
  <2>1. open'[h].id \in 1..(nextId' - 1)
    BY <1>t, <1>2 DEF IdInv
  <2>2. QED
    BY <1>t, <2>1
<1>3. QED
  BY <1>1, <1>2

Shrinks ==
  \A h \in Handle : open'[h] # NoTx \/ committing'[h] # 0 => open[h] # NoTx \/ committing[h] # 0

\* Two commits are never under way for one handle.
LEMMA OneCommit ==
  ASSUME Core, ~Pipelined, NEW r \in Req, NEW s \in Req \ {r}, InFlight(r), MidCommit(s),
         req[s].h = req[r].h
  PROVE  FALSE
<1>1. InFlight(s) /\ req[s].kind = "commit"
  BY ShapeOf DEF Core, MidCommit
<1>2. req[s].kind \in Writes
  BY <1>1 DEF Core, ExclusiveInv
<1>3. QED
  BY <1>1, <1>2 DEF Writes, Puts

\* A request that leaves the file alone opens nothing that is not in it.
LEMMA FileServe ==
  ASSUME Core, Core', ~Pipelined, FileInv, NEW r \in Req, Serve(r)
  PROVE  /\ file' = Recorded \/ (file' = file /\ Shrinks)
         /\ \A s \in Req : MidCommit(s)' => committing'[req'[s].h] # 0
<1> USE DEF guards
<1>c. TypeOK /\ ShapeInv /\ IdInv /\ ReqOK
  BY DEF Core, TypeOK, ReqOK
<1>q. InFlight(r) /\ Advances(r) /\ req[r] \in Request /\ req[r].h \in Handle
  BY <1>c, Moves, ShapeOf, ReqParts
<1>o. open \in [Handle -> Tx \cup {NoTx}] /\ committing \in [Handle -> Nat]
  BY <1>c DEF TypeOK
<1>f. /\ \A h \in Handle : open[h] # NoTx \/ committing[h] # 0 => file.open[h] # 0
      /\ \A s \in Req : MidCommit(s) => committing[req[s].h] # 0
  BY DEF FileInv
<1>m. \A s \in Req \ {r} : MidCommit(s)' => MidCommit(s) /\ req'[s] = req[s] /\ req[s].h # req[r].h
                              /\ req[s].h \in Handle
  <2>1. \A s \in Req \ {r} : MidCommit(s)' => MidCommit(s) /\ req'[s] = req[s]
    BY <1>q DEF Advances, Gone, Moved, Others, MidCommit, InFlight
  <2>2. \A s \in Req \ {r} : MidCommit(s) => req[s].h # req[r].h
    BY <1>q, OneCommit
  <2>3. \A s \in Req : MidCommit(s) => req[s].h \in Handle
    BY <1>c, ShapeOf, ReqParts DEF MidCommit
  <2>4. QED
    BY <2>1, <2>2, <2>3
<1>a. Answer(r) => ~MidCommit(r)'
  BY <1>c DEF Answer, MidCommit, InFlight, ReqOK
<1>h. MidCommit(r)' => req'[r].h = req[r].h
  BY <1>q DEF Advances, Gone, Moved, MidCommit, InFlight
<1>1. CASE Resolve(r) \/ AlreadyOpen(r) \/ Stage(r)
  <2>1. req[r].kind # "commit"
    <3>1. req[r].kind \in Writes \/ req[r].kind = "begin"
      BY <1>1, <1>c, ShapeOf DEF Resolve, AlreadyOpen, Stage, At
    <3>2. QED
      BY <3>1 DEF Writes, Puts
  <2>2. ~MidCommit(r)'
    BY <1>q, <2>1 DEF Advances, Gone, Moved, MidCommit, InFlight
  <2>3. file' = file /\ committing' = committing
    BY <1>1 DEF Resolve, AlreadyOpen, Stage
  <2>4. \A h \in Handle : open'[h] # NoTx => open[h] # NoTx
    <3>1. \A h \in Handle \ {req[r].h} : open'[h] = open[h]
      BY <1>c, ServeOpens
    <3>2. open[req[r].h] = NoTx => open' = open
      BY <1>1 DEF Resolve, AlreadyOpen, Stage
    <3>3. QED
      BY <3>1, <3>2
  <2>5. QED
    BY <1>f, <1>m, <2>2, <2>3, <2>4 DEF Shrinks
<1>2. CASE LockGraph(r) \/ RejectWrite(r) \/ WriteOutside(r) \/ Land(r) \/ BeginCheck(r)
           \/ CommitLand(r) \/ CommitRefused(r)
  <2>1. open' = open /\ committing' = committing /\ file' = file
    BY <1>2 DEF LockGraph, RejectWrite, WriteOutside, Land, BeginCheck, CommitLand, CommitRefused
  <2>2. MidCommit(r)' => MidCommit(r)
    <3>1. CASE CommitLand(r) \/ CommitRefused(r)
      BY <1>q, <3>1 DEF CommitLand, CommitRefused, At, MidCommit
    <3>2. CASE LockGraph(r) \/ RejectWrite(r) \/ WriteOutside(r) \/ Land(r) \/ BeginCheck(r)
      <4>1. req[r].kind # "commit"
        <5>1. req[r].kind \in Writes \/ req[r].kind = "begin"
          BY <3>2, <1>c, ShapeOf DEF LockGraph, RejectWrite, WriteOutside, Land, BeginCheck, At
        <5>2. QED
          BY <5>1 DEF Writes, Puts
      <4>2. QED
        BY <1>q, <4>1 DEF Advances, Gone, Moved, MidCommit, InFlight
    <3>3. QED
      BY <1>2, <3>1, <3>2
  <2>3. QED
    BY <1>f, <1>h, <1>m, <2>1, <2>2 DEF Shrinks
<1>3. CASE Begin(r)
  <2>1. ~MidCommit(r)' /\ committing' = committing /\ (file' = Recorded \/ (file' = file /\ open' = open))
    BY <1>3, <1>a DEF Begin
  <2>2. QED
    BY <1>f, <1>m, <2>1 DEF Shrinks
<1>4. CASE CommitTake(r)
  <2>1. CASE open[req[r].h] # NoTx
    <3>1. /\ open' = [open EXCEPT ![req[r].h] = NoTx]
          /\ committing' = [committing EXCEPT ![req[r].h] = open[req[r].h].id]
          /\ file' = file
      BY <1>4, <2>1 DEF CommitTake
    <3>2. open[req[r].h].id # 0
      <4>1. nextId \in Nat /\ open[req[r].h].id \in 1..(nextId - 1)
        BY <1>c, <1>q, <2>1 DEF IdInv, TypeOK
      <4>2. QED
        BY <4>1
    <3>3. Shrinks
      BY <1>o, <2>1, <3>1 DEF Shrinks
    <3>4. QED
      BY <1>f, <1>h, <1>m, <1>o, <1>q, <3>1, <3>2, <3>3
  <2>2. CASE open[req[r].h] = NoTx
    <3>1. open' = open /\ committing' = committing /\ file' = file /\ ~MidCommit(r)'
      BY <1>4, <1>a, <2>2 DEF CommitTake
    <3>2. QED
      BY <1>f, <1>m, <3>1 DEF Shrinks
  <2>3. QED
    BY <2>1, <2>2
<1>5. CASE Finish(r)
  <2>1. /\ committing' = [committing EXCEPT ![req[r].h] = 0] /\ open' = open
        /\ file' = Recorded \/ file' = file
        /\ ~MidCommit(r)'
    BY <1>5, <1>a DEF Finish, SaveLogged
  <2>2. Shrinks
    BY <1>o, <2>1 DEF Shrinks
  <2>3. QED
    BY <1>f, <1>m, <1>o, <2>1, <2>2
<1>6. CASE Reopen(r)
  <2>1. /\ committing' = [committing EXCEPT ![req[r].h] = 0]
        /\ open' = [open EXCEPT ![req[r].h] = Restage(req[r].tx)]
        /\ file' = Recorded \/ file' = file
        /\ ~MidCommit(r)' /\ MidCommit(r)
    BY <1>6, <1>a DEF Reopen, SaveLogged, At, MidCommit
  <2>2. Shrinks
    BY <1>f, <1>o, <2>1 DEF Shrinks
  <2>3. QED
    BY <1>f, <1>m, <1>o, <2>1, <2>2
<1>7. CASE Abort(r)
  <2>1. /\ committing' = committing /\ open' = [open EXCEPT ![req[r].h] = NoTx]
        /\ file' = Recorded \/ file' = file
        /\ ~MidCommit(r)'
    BY <1>7, <1>a DEF Abort, SaveLogged
  <2>2. Shrinks
    BY <1>o, <2>1 DEF Shrinks
  <2>3. QED
    BY <1>f, <1>m, <2>1, <2>2
<1>8. QED
  BY <1>1, <1>2, <1>3, <1>4, <1>5, <1>6, <1>7 DEF Serve

\* The daemon and its surroundings close transactions, at most.
LEMMA FileRest ==
  ASSUME Core, FileInv, ~Pipelined, Environment \/ Daemon
  PROVE  /\ file' = Recorded \/ (file'.open = file.open /\ Shrinks)
         /\ \A s \in Req : MidCommit(s)' => committing'[req'[s].h] # 0
<1> USE DEF guards
<1>c. TypeOK
  BY DEF Core
<1>o. /\ open \in [Handle -> Tx \cup {NoTx}]
      /\ file \in [open : [Handle -> Nat], lost : [Handle -> Nat]]
  BY <1>c DEF TypeOK
<1>1. \A s \in Req : MidCommit(s)' => MidCommit(s) /\ req'[s] = req[s]
  BY <1>c, RestMoves DEF Others, MidCommit, InFlight
<1>2. committing' = committing \/ \A s \in Req : ~MidCommit(s)'
  BY DEF Environment, Daemon, Send, Watch, Outside, GrowIdle, Expire, Reap, Drain, Stop, Start,
     MidCommit, InFlight
<1>3. \A s \in Req : MidCommit(s)' => committing'[req'[s].h] # 0
  BY <1>1, <1>2 DEF FileInv
<1>4. CASE Environment \/ Drain
  BY <1>3, <1>4 DEF Environment, Drain, Send, Watch, Outside, Shrinks
<1>5. ASSUME NEW h \in Handle, GrowIdle(h) PROVE file' = file /\ Shrinks
  BY <1>5, <1>o DEF GrowIdle, Shrinks
<1>6. ASSUME NEW h \in Handle, Expire(h) PROVE file'.open = file.open /\ Shrinks
  BY <1>6, <1>o DEF Expire, Shrinks
<1>7. CASE Reap \/ Start
  BY <1>3, <1>7, <1>o DEF Reap, Start, SaveLogged, Shrinks
<1>8. CASE Stop
  BY <1>3, <1>8 DEF Stop, Shrinks
<1>9. QED
  BY <1>3, <1>4, <1>5, <1>6, <1>7, <1>8 DEF Daemon

\* The file has every transaction that is open or under way.
LEMMA FileStep ==
  ASSUME Core, Core', FileInv, (\E r \in Req : Serve(r)) \/ Environment \/ Daemon
  PROVE  FileInv'
<1>1. SUFFICES ASSUME ~Pipelined PROVE FileInv'
  BY DEF FileInv
<1>2. /\ file' = Recorded \/ (file'.open = file.open /\ Shrinks)
      /\ \A s \in Req : MidCommit(s)' => committing'[req'[s].h] # 0
  BY <1>1, FileServe, FileRest
<1>3. QED
  BY <1>1, <1>2, Saved DEF FileInv, Shrinks

-----------------------------------------------------------------------------
(* What clients were told *)

Quit(h) == \A r \in Req : MidCommit(r) => req[r].h # h

\* What each position of a request means for what its client was told.
LEMMA ToldServe ==
  ASSUME Core, Core', ~Pipelined, FileInv, NEW r \in Req, Serve(r), NEW h \in Handle,
         h = req[r].h, told[h] = "open" /\ Quit(h) => Kept(h),
         told'[h] = "open", Quit(h)'
  PROVE  Kept(h)'
<1> USE DEF guards
<1>c. TypeOK /\ ShapeInv /\ IdInv /\ DownInv /\ ReqOK
  BY DEF Core, TypeOK, ReqOK
<1>q. InFlight(r) /\ Advances(r) /\ req[r] \in Request /\ h \in Handle /\ up
  BY <1>c, Moves, ShapeOf, ReqParts DEF DownInv
<1>o. /\ open \in [Handle -> Tx \cup {NoTx}] /\ told \in [Handle -> {"none", "open", "unsure"}]
      /\ lost \in [Handle -> Nat]
  BY <1>c DEF TypeOK
<1>n. Tell(r, "none") => told'[h] = "none"
  BY <1>o, <1>q DEF Tell
<1>m. Quit(h) \/ MidCommit(r)
  <2>1. ASSUME NEW s \in Req, s # r, MidCommit(s) PROVE req[s].h # h
    BY <1>q, <2>1, OneCommit
  <2>2. QED
    BY <2>1 DEF Quit
<1>s. ASSUME Same(h), told' = told, lost' = lost, file' = file, ~MidCommit(r) PROVE Kept(h)'
  <2>1. Kept(h)
    BY <1>m, <1>s
  <2>2. QED
    BY <1>q, <1>s, <2>1 DEF Kept, Same
<1>1. CASE Resolve(r)
  <2>1. told' = told
    BY <1>1, <1>n DEF Resolve
  <2>2. ~MidCommit(r) /\ req[r].kind \in Writes /\ Same(h)
    BY <1>1, <1>c, <1>q, ServeOpens DEF Resolve, At, MidCommit
  <2>3. QED
    BY <1>1, <1>s, <2>1, <2>2 DEF Resolve
<1>2. CASE LockGraph(r) \/ RejectWrite(r) \/ WriteOutside(r) \/ Land(r) \/ BeginCheck(r)
  <2>1. told' = told
    BY <1>2, <1>n DEF LockGraph, RejectWrite, WriteOutside, Land, BeginCheck
  <2>2. ~MidCommit(r)
    BY <1>2 DEF LockGraph, RejectWrite, WriteOutside, Land, BeginCheck, At, MidCommit
  <2>3. QED
    BY <1>2, <1>s, <2>1, <2>2 DEF LockGraph, RejectWrite, WriteOutside, Land, BeginCheck, Same
<1>3. CASE Stage(r)
  <2>1. ~MidCommit(r) /\ req[r].kind \in Writes
    BY <1>3, <1>c, ShapeOf DEF Stage, At, MidCommit
  <2>2. Same(h)
    BY <1>c, <1>q, <2>1, ServeOpens
  <2>3. QED
    BY <1>3, <1>s, <2>1, <2>2 DEF Stage
<1>4. CASE AlreadyOpen(r)
  <2>1. open[h] # NoTx /\ file' = file /\ file.open[h] # 0
    BY <1>4, <1>q DEF AlreadyOpen, FileInv
  <2>2. open'[h] # NoTx
    <3>1. open' = [open EXCEPT ![h] = [open[h] EXCEPT !.idle = FALSE]] /\ open[h] \in Tx
      BY <1>4, <1>o, <1>q DEF AlreadyOpen
    <3>2. \A t \in Tx : [t EXCEPT !.idle = FALSE] \in Tx
      BY DEF Tx
    <3>3. QED
      BY <1>o, <1>q, <3>1, <3>2, NoneIsNone
  <2>3. QED
    BY <2>1, <2>2 DEF Kept
<1>5. CASE Begin(r)
  <2>1. ~MidCommit(r)
    BY <1>5 DEF Begin, At, MidCommit
  <2>2. CASE open' = [open EXCEPT ![h] = New] /\ file' = Recorded
    <3>1. open'[h] # NoTx
      BY <1>c, <1>o, <1>q, <2>2, NewIs, NoneIsNone DEF TypeOK
    <3>2. file'.open[h] # 0
      BY <1>q, <2>2, <3>1, Saved
    <3>3. QED
      BY <3>1, <3>2 DEF Kept
  <2>3. CASE UNCHANGED <<guards, private, nextId, told>>
    BY <1>s, <2>1, <2>3 DEF Same
  <2>4. QED
    BY <1>5, <2>2, <2>3 DEF Begin, New
<1>6. CASE CommitTake(r)
  <2>1. CASE open[h] # NoTx
    <3>1. req' = [req EXCEPT ![r].pc = "taken", ![r].tx = open[h]] /\ open[h] \in Tx
      BY <1>6, <1>o, <1>q, <2>1 DEF CommitTake
    <3>2. Moved(r, "taken")
      BY <1>c, <1>q, <3>1, TakeReq
    <3>3. MidCommit(r)' /\ req'[r].h = h
      BY <3>2, NoneIsNone DEF Moved, MidCommit, InFlight
    <3>4. QED
      BY <3>3 DEF Quit
  <2>2. CASE open[h] = NoTx
    BY <1>6, <1>n, <2>2 DEF CommitTake
  <2>3. QED
    BY <2>1, <2>2
<1>7. CASE CommitLand(r) \/ CommitRefused(r)
  <2>1. \E pc \in {"landed", "refused", "retry"} : Goes(r, pc)
    BY <1>7 DEF CommitLand, CommitRefused
  <2>2. MidCommit(r)' /\ req'[r].h = h
    <3>1. {"landed", "refused", "retry"} \subseteq ReqPC
      BY DEF ReqPC
    <3>2. QED
      BY <1>c, <1>q, <2>1, <3>1, GoesReq, NoneIsNone DEF Moved, MidCommit, InFlight
  <2>3. QED
    BY <2>2 DEF Quit
<1>8. CASE Finish(r) \/ Abort(r)
  BY <1>8, <1>n DEF Finish, Abort
<1>9. CASE Reopen(r)
  <2>1. req[r].tx \in Tx /\ MidCommit(r) /\ Restage(req[r].tx) \in Tx
    <3>1. Carries(r) /\ MidCommit(r)
      BY <1>9 DEF Reopen, At, Carries, MidCommit
    <3>2. nextId \in 1..(MaxSent + 1) /\ req[r].tx.id \in 1..(nextId - 1)
      BY <1>c, <3>1 DEF IdInv
    <3>3. req[r].tx.id \in 1..MaxSent
      BY <3>2, ServerConstants
    <3>4. QED
      BY <1>c, <3>1, <3>3, ShapeOf, RestageIs DEF MidCommit, TypeOK
  <2>2. open'[h] # NoTx
    BY <1>9, <1>o, <1>q, <2>1, NoneIsNone DEF Reopen
  <2>3. file'.open[h] # 0
    <3>1. CASE file' = Recorded
      BY <1>q, <2>2, <3>1, Saved
    <3>2. CASE file' = file
      BY <1>q, <2>1, <3>2 DEF FileInv
    <3>3. QED
      BY <1>9, <3>1, <3>2 DEF Reopen, SaveLogged
  <2>4. QED
    BY <2>2, <2>3 DEF Kept
<1>10. QED
  BY <1>1, <1>2, <1>3, <1>4, <1>5, <1>6, <1>7, <1>8, <1>9 DEF Serve

\* What other clients were told stays kept.
LEMMA ToldOthers ==
  ASSUME Core, Core', ~Pipelined, FileInv, NEW r \in Req, Serve(r), NEW h \in Handle,
         h # req[r].h, told[h] = "open" /\ Quit(h) => Kept(h),
         told'[h] = "open", Quit(h)'
  PROVE  Kept(h)'
<1> USE DEF guards
<1>c. TypeOK /\ ShapeInv /\ DownInv
  BY DEF Core
<1>q. InFlight(r) /\ Advances(r) /\ req[r].h \in Handle /\ up
  BY <1>c, Moves, ShapeOf, ReqParts DEF DownInv
<1>1. told'[h] = told[h]
  <2>1. \A what : Tell(r, what) => told'[h] = told[h]
    BY <1>c, <1>q DEF Tell, TypeOK
  <2>2. QED
    BY <2>1 DEF Serve, Resolve, LockGraph, RejectWrite, Stage, WriteOutside, Land, BeginCheck,
     AlreadyOpen, Begin, CommitTake, CommitLand, CommitRefused, Finish, Reopen, Abort
<1>2. open'[h] = open[h]
  BY <1>c, ServeOpens
<1>3. lost'[h] = lost[h]
  <2>1. lost \in [Handle -> Nat]
    BY <1>c DEF TypeOK
  <2>2. QED
    BY <2>1 DEF Serve, Resolve, LockGraph, RejectWrite, Stage, WriteOutside, Land, BeginCheck,
     AlreadyOpen, Begin, CommitTake, CommitLand, CommitRefused, Finish, Reopen, Abort
<1>4. Quit(h)
  BY <1>q DEF Quit, Advances, Gone, Moved, Others, MidCommit, InFlight
<1>5. Kept(h)
  BY <1>1, <1>4
<1>6. CASE file' = file
  BY <1>2, <1>3, <1>5, <1>6, <1>q DEF Kept
<1>7. CASE file' = Recorded
  <2>1. open'[h] # NoTx \/ lost'[h] # 0
    BY <1>2, <1>3, <1>5, <1>q DEF Kept
  <2>2. QED
    BY <1>7, <2>1, Saved DEF Kept
<1>8. QED
  BY <1>6, <1>7, FileServe

\* The reaper and a restart leave a tombstone for what they close.
LEMMA ToldRest ==
  ASSUME Core, Core', ~Pipelined, ~Expiry, FileInv, Environment \/ Daemon, NEW h \in Handle,
         told[h] = "open" /\ Quit(h) => Kept(h),
         told'[h] = "open", Quit(h)'
  PROVE  Kept(h)'
<1> USE DEF guards
<1>c. TypeOK /\ ShapeInv /\ DownInv /\ IdInv
  BY DEF Core
<1>t. /\ told \in [Handle -> {"none", "open", "unsure"}] /\ lost \in [Handle -> Nat]
      /\ open \in [Handle -> Tx \cup {NoTx}] /\ committing \in [Handle -> Nat]
      /\ file \in [open : [Handle -> Nat], lost : [Handle -> Nat]]
  BY <1>c DEF TypeOK
<1>1. CASE ~Stop
  <2>1. told' = told
    BY <1>1 DEF Environment, Daemon, Send, Watch, Outside, GrowIdle, Expire, Reap, Drain, Start
  <2>2. Quit(h)
    BY <1>1, <1>c, RestMoves DEF Quit, Others, MidCommit, InFlight
  <2>3. Kept(h)
    BY <2>1, <2>2
  <2>4. CASE Environment \/ Drain
    BY <2>3, <2>4 DEF Environment, Drain, Send, Watch, Outside, Kept
  <2>5. ASSUME NEW g \in Handle, GrowIdle(g) PROVE Kept(h)'
    <3>1. /\ UNCHANGED <<up, lost, file>> /\ open[g] \in Tx
          /\ open' = [open EXCEPT ![g] = [open[g] EXCEPT !.idle = TRUE]]
      BY <1>t, <2>5 DEF GrowIdle
    <3>2. \A t \in Tx : [t EXCEPT !.idle = TRUE] \in Tx
      BY DEF Tx
    <3>3. open[h] # NoTx => open'[h] # NoTx
      BY <1>t, <3>1, <3>2, NoneIsNone
    <3>4. QED
      BY <2>3, <3>1, <3>3 DEF Kept
  <2>6. CASE \E g \in Handle : Expire(g)
    BY <2>6 DEF Expire
  <2>7. CASE Reap
    <3>1. CASE h \in Idle
      <4>1. lost'[h] = open[h].id /\ open[h] # NoTx
        BY <2>7, <3>1 DEF Reap, Idle
      <4>2. nextId \in Nat /\ open[h].id \in 1..(nextId - 1)
        BY <1>c, <4>1 DEF IdInv, TypeOK
      <4>3. lost'[h] # 0
        BY <4>1, <4>2
      <4>4. file'.open[h] # 0 \/ file'.lost[h] # 0
        BY <2>3, <2>7, <4>3, Saved DEF Reap, SaveLogged, Kept
      <4>5. QED
        BY <4>3, <4>4 DEF Kept
    <3>2. CASE h \notin Idle
      <4>1. lost'[h] = lost[h] /\ open'[h] = open[h] /\ up
        BY <2>7, <3>2 DEF Reap
      <4>2. open'[h] # NoTx \/ lost'[h] # 0
        BY <2>3, <4>1 DEF Kept
      <4>3. file'.open[h] # 0 \/ file'.lost[h] # 0
        BY <2>3, <2>7, <4>2, Saved DEF Reap, SaveLogged, Kept
      <4>4. QED
        BY <4>2, <4>3 DEF Kept
    <3>3. QED
      BY <3>1, <3>2
  <2>8. CASE Start
    <3>1. lost'[h] # 0
      BY <2>3, <2>8 DEF Start, Kept
    <3>2. file'.lost[h] # 0
      BY <2>8, <3>1, Saved DEF Start
    <3>3. QED
      BY <3>1, <3>2 DEF Kept
  <2>9. QED
    BY <1>1, <2>4, <2>5, <2>6, <2>7, <2>8 DEF Daemon
<1>2. CASE Stop
  <2>1. /\ told[h] = "open" /\ ~up' /\ file' = file
        /\ \A s \in Req : InFlight(s) /\ req[s].h = h => req[s].kind \notin Controls
    BY <1>2, <1>t DEF Stop
  <2>2. Quit(h)
    BY <1>c, <2>1, ShapeOf DEF Quit, MidCommit, Controls
  <2>3. Kept(h)
    BY <2>1, <2>2
  <2>4. QED
    BY <2>1, <2>3 DEF Kept
<1>3. QED
  BY <1>1, <1>2
\* A write without a transaction has a client that does not take one to be open.
LEMMA DirectServe ==
  ASSUME Core, ~Pipelined, ~Expiry, RouteInv, ToldInv, NEW r \in Req, Serve(r),
         NEW s \in Req, Resolved(s)', req'[s].src = 0
  PROVE  told'[req'[s].h] # "open"
<1> USE DEF guards
<1>c. TypeOK /\ ShapeInv /\ ExclusiveInv /\ DownInv /\ IdInv /\ ReqOK
  BY DEF Core, TypeOK, ReqOK
<1>q. InFlight(r) /\ Advances(r) /\ req[r] \in Request /\ req[r].h \in Handle /\ up
  BY <1>c, Moves, ShapeOf, ReqParts DEF DownInv
<1>t. told \in [Handle -> {"none", "open", "unsure"}] /\ open \in [Handle -> Tx \cup {NoTx}]
  BY <1>c DEF TypeOK
<1>n. req[r].kind \in Writes => told'[req[r].h] = told[req[r].h] \/ told'[req[r].h] = "none"
  <2>1. Tell(r, "none") => told'[req[r].h] = "none"
    BY <1>q, <1>t DEF Tell
  <2>2. req[r].kind \in Writes => req[r].pc \in {"sent", "lock", "ready", "land"}
    BY <1>c, <1>q DEF ShapeInv
  <2>3. req[r].kind \in Writes => ~AlreadyOpen(r) /\ ~Begin(r) /\ ~Reopen(r)
    BY <2>2 DEF AlreadyOpen, Begin, Reopen, At
  <2>4. QED
    BY <2>1, <2>3 DEF Serve, Resolve, LockGraph, RejectWrite, Stage, WriteOutside, Land, BeginCheck,
     CommitTake, CommitLand, CommitRefused, Finish, Abort
<1>o. \A h \in Handle : h # req[r].h => told'[h] = told[h]
  <2>1. \A what : Tell(r, what) => \A h \in Handle : h # req[r].h => told'[h] = told[h]
    BY <1>t DEF Tell
  <2>2. QED
    BY <2>1 DEF Serve, Resolve, LockGraph, RejectWrite, Stage, WriteOutside, Land, BeginCheck,
     AlreadyOpen, Begin, CommitTake, CommitLand, CommitRefused, Finish, Reopen, Abort
<1>1. CASE s # r
  <2>1. Resolved(s) /\ InFlight(s) /\ req'[s] = req[s]
    BY <1>q, <1>1 DEF Advances, Gone, Moved, Others, Resolved, InFlight
  <2>2. told[req[s].h] # "open" /\ req[s].h \in Handle
    BY <1>c, <2>1, ShapeOf, ReqParts DEF ToldInv
  <2>3. req[s].h = req[r].h => req[r].kind \in Writes
    BY <1>c, <1>q, <1>1, <2>1 DEF ExclusiveInv
  <2>4. QED
    BY <1>n, <1>o, <2>1, <2>2, <2>3
<1>2. CASE s = r
  <2>1. /\ Others(r) /\ req'[r].h = req[r].h /\ req'[r].kind = req[r].kind
        /\ req[r].kind \in Writes
    BY <1>q, <1>2 DEF Advances, Gone, Moved, Resolved, InFlight
  <2>0. open[req[r].h] = NoTx
    <3>1. open'[req[r].h] = NoTx
      BY <1>2, <2>1, RouteSelf DEF Routed
    <3>2. Same(req[r].h)
      BY <1>c, <1>q, <2>1, ServeOpens
    <3>3. QED
      BY <3>1, <3>2 DEF Same
  <2>2. CASE Resolved(r) /\ req[r].src = 0
    BY <1>n, <1>2, <2>1, <2>2 DEF ToldInv
  <2>3. CASE ~Resolved(r)
    <3>1. req[r].pc = "sent"
      BY <1>q, <2>1, <2>3 DEF Resolved
    <3>0. req[r].kind \notin {"begin", "commit", "abort"}
      BY <2>1 DEF Writes, Puts
    <3>2. Resolve(r)
      BY <3>0, <3>1 DEF Serve, LockGraph, RejectWrite, Stage, WriteOutside, Land, BeginCheck,
        AlreadyOpen, Begin, CommitTake, CommitLand, CommitRefused, Finish, Reopen, Abort, At
    <3>4. lost[req[r].h] = 0 \/ told'[req[r].h] = "none"
      BY <1>q, <1>t, <2>0, <3>2 DEF Resolve, Tell
    <3>3. Quit(req[r].h)
      <4>1. ~MidCommit(r)
        BY <3>1 DEF MidCommit
      <4>2. ASSUME NEW u \in Req, u # r, MidCommit(u) PROVE req[u].h # req[r].h
        BY <1>q, <4>2, OneCommit
      <4>3. QED
        BY <4>1, <4>2 DEF Quit
    <3>5. lost[req[r].h] = 0 => told[req[r].h] # "open"
      BY <1>q, <2>0, <3>3 DEF ToldInv, Kept, Quit
    <3>6. QED
      BY <1>n, <1>2, <2>1, <3>4, <3>5
  <2>4. CASE Resolved(r) /\ req[r].src # 0
    BY <2>0, <2>4 DEF RouteInv
  <2>5. QED
    BY <2>2, <2>3, <2>4
<1>3. QED
  BY <1>1, <1>2

\* What a client was told is kept, and a write that lands directly has a client that
\* was not told of a transaction.
LEMMA ToldStep ==
  ASSUME Core, Core', RouteInv, FileInv, ToldInv,
         (\E r \in Req : Serve(r)) \/ Environment \/ Daemon
  PROVE  ToldInv'
<1>1. SUFFICES ASSUME ~Pipelined, ~Expiry PROVE ToldInv'
  BY DEF ToldInv
<1>2. ASSUME NEW h \in Handle, told'[h] = "open", Quit(h)' PROVE Kept(h)'
  <2>1. told[h] = "open" /\ Quit(h) => Kept(h)
    BY <1>1 DEF ToldInv, Quit
  <2>2. ASSUME NEW r \in Req, Serve(r) PROVE Kept(h)'
    <3>1. CASE h = req[r].h
      BY <1>1, <1>2, <2>1, <2>2, <3>1, ToldServe
    <3>2. CASE h # req[r].h
      BY <1>1, <1>2, <2>1, <2>2, <3>2, ToldOthers
    <3>3. QED
      BY <3>1, <3>2
  <2>3. CASE Environment \/ Daemon
    BY <1>1, <1>2, <2>1, <2>3, ToldRest
  <2>4. QED
    BY <2>2, <2>3
<1>3. ASSUME NEW s \in Req, Resolved(s)', req'[s].src = 0 PROVE told'[req'[s].h] # "open"
  <2>1. CASE \E r \in Req : Serve(r)
    BY <1>1, <1>3, <2>1, DirectServe
  <2>2. CASE Environment \/ Daemon
    <3>0. ~Stop
      BY <1>3 DEF Stop, Resolved, InFlight
    <3>1. Resolved(s) /\ req'[s] = req[s] /\ ~Stop
      BY <1>3, <2>2, <3>0, RestMoves DEF Core, Others, Resolved, InFlight
    <3>2. told' = told
      BY <2>2, <3>1 DEF Environment, Daemon, Send, Watch, Outside, GrowIdle, Expire, Reap, Drain,
        Start
    <3>3. QED
      BY <1>1, <1>3, <3>1, <3>2 DEF ToldInv
  <2>3. QED
    BY <2>1, <2>2
<1>4. QED
  BY <1>2, <1>3 DEF ToldInv, Quit

Believed == Core /\ RouteInv /\ FileInv /\ ToldInv

LEMMA BelievedInit == Init => Believed
<1> SUFFICES ASSUME Init PROVE Believed
  OBVIOUS
<1>1. \A r \in Req : ~InFlight(r)
  BY DEF Init, InFlight
<1>2. RouteInv /\ FileInv /\ ToldInv
  BY <1>1 DEF RouteInv, FileInv, ToldInv, Resolved, MidCommit, Init
<1>3. QED
  BY <1>2, CoreInit DEF Believed

LEMMA BelievedStep == Believed /\ [Next]_serverVars => Believed'
<1> SUFFICES ASSUME Believed, [Next]_serverVars PROVE Believed'
  OBVIOUS
<1>c. Core /\ RouteInv /\ FileInv /\ ToldInv
  BY DEF Believed
<1>1. Core'
  BY <1>c, CoreStep
<1>2. CASE UNCHANGED serverVars
  <2>1. \A r \in Req : (MidCommit(r)' <=> MidCommit(r)) /\ (Resolved(r)' <=> Resolved(r))
    BY <1>2 DEF serverVars, MidCommit, Resolved, InFlight
  <2>2. \A h \in Handle : Kept(h)' <=> Kept(h)
    BY <1>2 DEF serverVars, guards, Kept
  <2>3. RouteInv' /\ FileInv' /\ ToldInv'
    BY <1>c, <1>2, <2>1, <2>2 DEF serverVars, guards, RouteInv, FileInv, ToldInv
  <2>4. QED
    BY <1>1, <2>3 DEF Believed
<1>3. CASE (\E r \in Req : Serve(r)) \/ Environment \/ Daemon
  <2>1. RouteInv'
    BY <1>c, <1>3, RouteServe, RouteRest
  <2>2. FileInv' /\ ToldInv'
    BY <1>c, <1>1, <1>3, FileStep, ToldStep
  <2>3. QED
    BY <1>1, <2>1, <2>2 DEF Believed
<1>4. QED
  BY <1>2, <1>3 DEF Next, Finished

\* With clients that wait for an answer before they open, commit or abort, and
\* before a tombstone expires: a transaction its agent takes to be open is open or
\* has a tombstone, in memory and in the state file, through the reaper, failed
\* saves and restarts.
THEOREM BelievedIsRemembered ==
  ASSUME ~Pipelined, ~Expiry
  PROVE  Spec => []Remembered
<1>1. Believed => Remembered
  <2> SUFFICES ASSUME Believed, NEW h \in Handle
               PROVE  /\ Believes(h) => Kept(h)
                      /\ committing[h] # 0 => file.open[h] # 0
    BY DEF Remembered, Kept
  <2>1. Believes(h) => Quit(h)
    BY ShapeOf DEF Believed, Core, Believes, Quit, MidCommit, Writes, Puts
  <2>2. Believes(h) => Kept(h)
    BY <2>1 DEF Believed, ToldInv, Believes, Quit
  <2>3. QED
    BY <2>2 DEF Believed, FileInv
<1>2. QED
  BY BelievedInit, BelievedStep, <1>1, PTL DEF Spec

\* Under the same assumptions no write of such an agent lands outside its transaction.
THEOREM WritesStayInside ==
  ASSUME ~Pipelined, ~Expiry
  PROVE  Spec => NoStrayWrite
<1> DEFINE Stray == \A r \in Req : (At(r, "land") /\ up' /\ disk' # disk /\ ~InFlight(r)') =>
                       ~Believes(req[r].h)
<1>1. Believed => \A r \in Req : At(r, "land") => ~Believes(req[r].h)
  <2> SUFFICES ASSUME Believed, NEW r \in Req, At(r, "land") PROVE ~Believes(req[r].h)
    OBVIOUS
  <2>1. Resolved(r) /\ req[r].pc = "land"
    BY ShapeOf DEF Believed, Core, At, Resolved
  <2>2. req[r].src = 0
    BY <2>1 DEF Believed, RouteInv
  <2>3. QED
    BY <2>1, <2>2 DEF Believed, ToldInv, Believes
<1>2. Believed /\ [Next]_serverVars => [Stray]_serverVars
  BY <1>1
<1>3. QED
  BY BelievedInit, BelievedStep, <1>2, PTL DEF Spec, NoStrayWrite

-----------------------------------------------------------------------------
(* What is staged *)

\* The numbers of transactions are within the bound.
LEMMA OpenId ==
  ASSUME TypeOK, IdInv
  PROVE  /\ nextId \in Nat
         /\ \A h \in Handle : open[h] # NoTx => open[h] \in Tx /\ open[h].id \in 1..MaxSent
                                                /\ open[h].id < nextId
         /\ \A s \in Req : Carries(s) => req[s].tx.id \in 1..MaxSent /\ req[s].tx.id < nextId
<1>1. nextId \in 1..(MaxSent + 1) /\ MaxSent \in Nat
  BY ServerConstants DEF IdInv
<1>2. ASSUME NEW i \in 1..(nextId - 1) PROVE i \in 1..MaxSent /\ i < nextId
  BY <1>1, <1>2
<1>3. /\ \A h \in Handle : open[h] # NoTx => open[h].id \in 1..(nextId - 1)
      /\ \A s \in Req : Carries(s) => req[s].tx.id \in 1..(nextId - 1)
      /\ \A h \in Handle : open[h] # NoTx => open[h] \in Tx
  BY DEF IdInv, TypeOK
<1>4. QED
  BY <1>1, <1>2, <1>3

\* Staging notes in the transaction what the histories note.
LEMMA StageAgrees ==
  ASSUME TypeOK, ShapeInv, IdInv, NEW r \in Req, Stage(r), NEW h \in Handle, h = req[r].h,
         Agrees(open[h])
  PROVE  /\ Agrees(open[h])'
         /\ \A i \in 1..MaxSent : i # open[h].id => asked'[i] = asked[i] /\ seen'[i] = seen[i]
<1> DEFINE q == req[r]
           t == open[h]
           u == Noted(t, q)
<1>1. /\ q \in Request /\ q.kind \in Writes /\ t \in Tx /\ open' = [open EXCEPT ![h] = u] /\ u \in Tx
      /\ asked' = [asked EXCEPT ![t.id][q.k] = q.d]
      /\ seen' = [seen EXCEPT ![t.id][q.k] = IF @ = Unset THEN disk[q.k] ELSE @]
  BY StageOpens, ReqParts
<1>2. t.id \in 1..MaxSent
  BY <1>1, OpenId DEF Stage
<1>3. /\ u.id = t.id /\ u.pending = [t.pending EXCEPT ![q.k] = q.d]
      /\ u.baseline = [t.baseline EXCEPT ![q.k] = IF @ = Unset THEN disk[q.k] ELSE @]
  <2>1. disk \in [Key -> Content]
    BY DEF TypeOK
  <2> HIDE DEF q, t
  <2>2. QED
    BY <1>1, <2>1, NotedIs
<1>4. q.k \in Key /\ q.d \in Content /\ disk[q.k] \in Content /\ Unset \notin Content
  BY <1>1, ReqParts, ServerConstants DEF TypeOK, Content
<1>5. /\ t.pending \in [Key -> Content \cup {Unset}] /\ t.baseline \in [Key -> Content \cup {Unset}]
      /\ asked[t.id] = t.pending /\ seen[t.id] = t.baseline
      /\ \A k \in Key : t.pending[k] = Unset <=> t.baseline[k] = Unset
  BY <1>1, TxParts DEF Agrees
<1>6. open'[h] = u
  <2>1. open \in [Handle -> Tx \cup {NoTx}]
    BY DEF TypeOK
  <2> HIDE DEF u, q
  <2>2. QED
    BY <1>1, <2>1
<1>7. asked'[t.id] = u.pending /\ seen'[t.id] = u.baseline
  BY <1>1, <1>2, <1>3, <1>5 DEF TypeOK
<1>8. \A k \in Key : u.pending[k] = Unset <=> u.baseline[k] = Unset
  BY <1>3, <1>4, <1>5
<1>9. \A i \in 1..MaxSent : i # t.id => asked'[i] = asked[i] /\ seen'[i] = seen[i]
  BY <1>1 DEF TypeOK
<1>10. Agrees(open[h])'
  <2> HIDE DEF u, t, q
  <2>1. QED
    BY <1>3, <1>6, <1>7, <1>8 DEF Agrees
<1>11. QED
  BY <1>9, <1>10

\* Without retries a transaction has what its client asked for and saw.
LEMMA SeenServe ==
  ASSUME Core, SeenInv, ~LockMayFail, NEW r \in Req, Serve(r)
  PROVE  SeenInv'
<1>c. TypeOK /\ ShapeInv /\ IdInv
  BY DEF Core
<1>i. /\ nextId \in Nat /\ MaxSent \in Nat
      /\ \A h \in Handle : open[h] # NoTx => open[h] \in Tx /\ open[h].id \in 1..MaxSent
                                             /\ open[h].id < nextId
      /\ \A s \in Req : Carries(s) => req[s].tx.id \in 1..MaxSent /\ req[s].tx.id < nextId
  BY <1>c, OpenId, ServerConstants
<1>q. req[r].h \in Handle /\ open \in [Handle -> Tx \cup {NoTx}]
  BY <1>c, Moves, ShapeOf, ReqParts DEF TypeOK
<1>a. /\ \A h \in Handle : open[h] # NoTx => Agrees(open[h])
      /\ \A s \in Req : Carries(s) => Agrees(req[s].tx)
      /\ \A i \in nextId..MaxSent : asked[i] = Untouched /\ seen[i] = Untouched
  BY DEF SeenInv
<1>1. CASE Quiet /\ UNCHANGED <<asked, seen>>
  BY <1>1, <1>a DEF Quiet, OpenKept, CarryKept, SameTx, SeenInv, Agrees
<1>2. CASE Opens(r)
  <2>1. /\ open'[req[r].h] = New /\ nextId \in nextId..MaxSent /\ nextId' = nextId + 1
        /\ \A h \in Handle \ {req[r].h} : open'[h] = open[h]
        /\ \A s \in Req : Carries(s)' => Carries(s) /\ req'[s].tx = req[s].tx
        /\ asked' = asked /\ seen' = seen
    BY <1>2, <1>i, <1>q DEF Opens, CarryKept
  <2>2. asked'[New.id] = New.pending /\ seen'[New.id] = New.baseline
    BY <1>a, <1>i, <2>1, NewIs
  <2>3. \A k \in Key : New.pending[k] = Unset <=> New.baseline[k] = Unset
    BY <1>i, NewIs
  <2>4. \A i \in nextId'..MaxSent : asked'[i] = Untouched /\ seen'[i] = Untouched
    BY <1>a, <1>i, <2>1
  <2>5. QED
    BY <1>a, <2>1, <2>2, <2>3, <2>4 DEF SeenInv, Agrees
<1>3. CASE Takes(r)
  <2>1. /\ open[req[r].h] # NoTx /\ req'[r].tx = open[req[r].h] /\ nextId' = nextId
        /\ \A h \in Handle : open'[h] # NoTx => open'[h] = open[h]
        /\ \A s \in Req \ {r} : Carries(s)' => Carries(s) /\ req'[s].tx = req[s].tx
        /\ asked' = asked /\ seen' = seen
    BY <1>3, <1>q, NoneIsNone DEF Takes, CarryKept
  <2>2. QED
    BY <1>a, <1>q, <2>1 DEF SeenInv, Agrees
<1>4. CASE Stage(r)
  <2> DEFINE i == open[req[r].h].id
  <2>1. open[req[r].h] # NoTx /\ nextId' = nextId
    BY <1>4 DEF Stage, counters
  <2>2. /\ \A h \in Handle : h = req[r].h => Agrees(open[h])'
        /\ \A j \in 1..MaxSent : j # i => asked'[j] = asked[j] /\ seen'[j] = seen[j]
    BY <1>4, <1>a, <1>c, <1>q, <2>1, StageAgrees
  <2>3. \A h \in Handle \ {req[r].h} : open'[h] = open[h] /\ (open[h] # NoTx => open[h].id # i)
    <3>1. \A h \in Handle \ {req[r].h} : open'[h] = open[h]
      BY <1>4, <1>c, ServeOpens
    <3>2. \A h \in Handle \ {req[r].h} : open[h] # NoTx => open[h].id # i
      BY <1>c, <1>q, <2>1 DEF IdInv
    <3>3. QED
      BY <3>1, <3>2
  <2>4. \A s \in Req : Carries(s)' => Carries(s) /\ req'[s].tx = req[s].tx /\ req[s].tx.id # i
    <3>1. \A s \in Req : Carries(s)' => Carries(s) /\ req'[s].tx = req[s].tx
      BY <1>4, <1>c DEF Stage, Answer, Carries, InFlight, TypeOK
    <3>2. \A s \in Req : Carries(s) => req[s].tx.id # i
      BY <1>c, <1>q, <2>1 DEF IdInv
    <3>3. QED
      BY <3>1, <3>2
  <2> HIDE DEF i
  <2>5. \A h \in Handle : open'[h] # NoTx => Agrees(open[h])'
    <3>1. ASSUME NEW h \in Handle, h # req[r].h, open'[h] # NoTx PROVE Agrees(open[h])'
      <4>1. /\ open'[h] = open[h] /\ Agrees(open[h]) /\ open[h].id \in 1..MaxSent
            /\ asked'[open[h].id] = asked[open[h].id] /\ seen'[open[h].id] = seen[open[h].id]
        BY <1>a, <1>i, <2>2, <2>3, <3>1
      <4>2. QED
        BY <4>1 DEF Agrees
    <3>2. QED
      BY <2>2, <3>1
  <2>6. \A s \in Req : Carries(s)' => Agrees(req[s].tx)'
    <3>1. ASSUME NEW s \in Req, Carries(s)' PROVE Agrees(req[s].tx)'
      <4> DEFINE t == req[s].tx
      <4>1. /\ req'[s].tx = t /\ Agrees(t) /\ t.id \in 1..MaxSent
            /\ asked'[t.id] = asked[t.id] /\ seen'[t.id] = seen[t.id]
        BY <1>a, <1>i, <2>2, <2>4, <3>1
      <4>2. QED
        BY <4>1 DEF Agrees
    <3>2. QED
      BY <3>1
  <2>7. \A j \in nextId'..MaxSent : asked'[j] = Untouched /\ seen'[j] = Untouched
    <3>1. \A j \in nextId..MaxSent : j # i /\ (j \in 1..MaxSent)
      <4>1. i \in 1..MaxSent /\ i < nextId
        BY <1>i, <1>q, <2>1 DEF i
      <4>2. QED
        BY <1>i, <4>1
    <3>2. QED
      BY <1>a, <2>1, <2>2, <3>1
  <2>8. QED
    BY <2>5, <2>6, <2>7 DEF SeenInv
<1>5. QED
  BY <1>1, <1>2, <1>3, <1>4, <1>c, ServeKinds DEF Returns

LEMMA SeenStep ==
  ASSUME Core, SeenInv, [Next]_serverVars
  PROVE  SeenInv'
<1>1. SUFFICES ASSUME ~LockMayFail PROVE SeenInv'
  BY DEF SeenInv
<1>2. CASE \E r \in Req : Serve(r)
  BY <1>1, <1>2, SeenServe
<1>3. CASE Environment \/ Daemon
  <2>1. Quiet /\ UNCHANGED <<asked, seen>>
    BY <1>3, RestQuiet DEF Core
  <2>2. QED
    BY <1>1, <2>1 DEF Quiet, OpenKept, CarryKept, SameTx, SeenInv, Agrees
<1>4. CASE UNCHANGED serverVars
  BY <1>1, <1>4 DEF serverVars, guards, counters, history, SeenInv, Agrees, Carries, InFlight
<1>5. QED
  BY <1>2, <1>3, <1>4 DEF Next, Finished

\* Only the backend lands a commit.
LEMMA LandsIs ==
  ASSUME Core, Next, NEW r \in Req, Lands(r)
  PROVE  CommitLand(r)
<1>c. TypeOK /\ ShapeInv /\ ReqOK
  BY DEF Core, TypeOK, ReqOK
<1>1. InFlight(r) /\ req[r].pc = "taken" /\ InFlight(r)' /\ req'[r].pc = "landed"
  BY DEF Lands, At
<1>2. ASSUME NEW s \in Req, Serve(s) PROVE CommitLand(r)
  <2>1. s = r
    BY <1>1, <1>2, <1>c, Moves DEF Advances, Gone, Moved, Others
  <2>2. CommitLand(r) \/ CommitRefused(r)
    <3>1. req[r].kind = "commit"
      BY <1>1, <1>c, ShapeOf DEF MidCommit
    <3>2. QED
      BY <1>1, <1>2, <2>1 DEF Serve, Resolve, LockGraph, RejectWrite, Stage, WriteOutside, Land,
        BeginCheck, AlreadyOpen, Begin, CommitTake, Finish, Reopen, Abort, At
  <2>3. ~CommitRefused(r)
    <3>1. {"refused", "retry"} \subseteq ReqPC
      BY DEF ReqPC
    <3>2. QED
      BY <1>1, <1>c, <3>1, GoesReq DEF CommitRefused, Moved
  <2>4. QED
    BY <2>2, <2>3
<1>3. CASE Environment \/ Daemon
  BY <1>1, <1>3, <1>c, RestMoves DEF Others
<1>4. CASE Finished
  BY <1>1, <1>4 DEF Finished, InFlight
<1>5. QED
  BY <1>2, <1>3, <1>4 DEF Next

\* Where the commit lock never refuses a commit, a commit replaces only what was on
\* disk when its agent first staged each key.
THEOREM CommitsLoseNothing ==
  ASSUME ~LockMayFail
  PROVE  Spec => NoLostUpdate
<1> DEFINE Fresh == \A r \in Req : Lands(r) =>
             \A k \in Key :
               LET t == req[r].tx IN
               asked[t.id][k] # Unset => disk[k] = seen[t.id][k]
           Inv == Core /\ SeenInv
<1>1. Init => Inv
  <2> SUFFICES ASSUME Init PROVE SeenInv
    BY CoreInit
  <2>1. QED
    BY ServerConstants DEF Init, SeenInv, Carries, InFlight
<1>2. Inv /\ [Next]_serverVars => Inv'
  BY CoreStep, SeenStep
<1>3. Inv /\ [Next]_serverVars => [Fresh]_serverVars
  <2> SUFFICES ASSUME Inv, Next, NEW r \in Req, Lands(r), NEW k \in Key,
                      asked[req[r].tx.id][k] # Unset
               PROVE  disk[k] = seen[req[r].tx.id][k]
    OBVIOUS
  <2>1. CommitLand(r)
    BY LandsIs
  <2>2. Agrees(req[r].tx)
    BY <2>1 DEF CommitLand, At, Carries, SeenInv
  <2>3. QED
    BY <2>1, <2>2 DEF CommitLand, Conflict, Agrees
<1>4. QED
  BY <1>1, <1>2, <1>3, PTL DEF Spec, NoLostUpdate

-----------------------------------------------------------------------------
(* What private graphs show *)

\* Where a write mutates: its transaction's graph if it resolved one.
LEMMA StageMirrors ==
  ASSUME Core, RouteInv, ~Pipelined, NEW r \in Req, Stage(r), NEW h \in Handle, h = req[r].h,
         Mirrors(open[h])
  PROVE  /\ Mirrors(open[h])' /\ graph' = graph
         /\ \A i \in 1..MaxSent : i # open[h].id => private'[i] = private[i]
<1> DEFINE q == req[r]
           t == open[h]
           u == Noted(t, q)
<1>c. TypeOK /\ ShapeInv /\ IdInv
  BY DEF Core
<1>1. /\ q \in Request /\ q.kind \in Writes /\ t \in Tx /\ open' = [open EXCEPT ![h] = u] /\ u \in Tx
      /\ t # NoTx /\ Resolved(r) /\ InFlight(r)
  BY <1>c, StageOpens DEF Stage, Resolved, At
<1>2. t.id \in 1..MaxSent
  BY <1>c, <1>1, OpenId
<1>3. q.src = t.id /\ q.src # 0
  <2>1. q.src = 0 => t = NoTx
    BY <1>1 DEF RouteInv
  <2>2. q.src # 0 => t.id = q.src
    BY <1>1 DEF RouteInv
  <2>3. QED
    BY <1>1, <2>1, <2>2
<1>4. private' = [private EXCEPT ![t.id][q.k] = q.d] /\ graph' = graph
  BY <1>3 DEF Stage, Mutate
<1>5. /\ u.id = t.id /\ u.pending = [t.pending EXCEPT ![q.k] = q.d]
      /\ u.effect = [t.effect EXCEPT ![q.k] = Collapse(@, EffectOf(q))]
  <2>1. disk \in [Key -> Content]
    BY <1>c DEF TypeOK
  <2> HIDE DEF q, t
  <2>2. QED
    BY <1>1, <2>1, NotedIs
<1>6. /\ t.pending \in [Key -> Content \cup {Unset}] /\ t.effect \in [Key -> Slot] /\ q.k \in Key
      /\ private \in [1..MaxSent -> [Key -> Content]]
  BY <1>c, <1>1, TxParts, ReqParts DEF TypeOK
<1>7. open'[h] = u
  <2>1. open \in [Handle -> Tx \cup {NoTx}]
    BY <1>c DEF TypeOK
  <2> HIDE DEF u, q, t
  <2>2. QED
    BY <1>1, <2>1
<1>8. /\ \A k \in Key \ {q.k} : private'[t.id][k] = private[t.id][k]
      /\ private'[t.id][q.k] = q.d
      /\ \A i \in 1..MaxSent : i # t.id => private'[i] = private[i]
  <2> HIDE DEF q, t
  <2>1. QED
    BY <1>2, <1>4, <1>6
<1>9. u.effect[q.k] \in {"create", "update"} => q.d \in Doc
  <2>1. q.kind = "delete" => u.effect[q.k] \in {"none", "delete"}
    BY <1>5, <1>6 DEF Collapse, EffectOf, Slot
  <2>2. q.kind # "delete" => q.d \in Doc
    BY <1>c, <1>1 DEF ShapeInv, Writes, Puts
  <2>3. QED
    BY <2>1, <2>2
<1>10. ASSUME NEW k \in Key, u.effect[k] \in {"create", "update"}
       PROVE  /\ u.pending[k] \in Doc
              /\ u.pending[k] = private'[t.id][k] \/ u.pending[k] = Export(private'[t.id], k)
  <2>1. CASE k = q.k
    BY <1>5, <1>6, <1>8, <1>9, <1>10, <2>1
  <2>2. CASE k # q.k
    <3>1. u.effect[k] = t.effect[k] /\ u.pending[k] = t.pending[k]
      BY <1>5, <1>6, <2>2
    <3>2. /\ t.pending[k] \in Doc
          /\ t.pending[k] = private[t.id][k] \/ t.pending[k] = Export(private[t.id], k)
      BY <1>10, <3>1 DEF Mirrors
    <3>3. private'[t.id][k] = private[t.id][k]
      BY <1>8, <2>2
    <3>4. QED
      BY <3>1, <3>2, <3>3 DEF Export
  <2>3. QED
    BY <2>1, <2>2
<1>11. Mirrors(open[h])'
  <2> HIDE DEF q, t, u
  <2>1. SUFFICES ASSUME NEW k \in Key, open'[h].effect[k] \in {"create", "update"}
                 PROVE  /\ open'[h].pending[k] \in Doc
                        /\ \/ open'[h].pending[k] = private'[open'[h].id][k]
                           \/ open'[h].pending[k] = Export(private'[open'[h].id], k)
    BY DEF Mirrors, Export
  <2>2. QED
    BY <1>5, <1>7, <1>10, <2>1
<1>12. QED
  BY <1>4, <1>8, <1>11

\* What a private graph shows of a transaction depends on what is staged in it alone.
LEMMA MirrorsSame ==
  ASSUME NEW t, NEW u, Mirrors(t), SameTx(u, t)
  PROVE  Mirrors(u)
  BY DEF Mirrors, Export, SameTx

LEMMA StagedQuiet ==
  ASSUME StagedInv, Quiet, private' = private
  PROVE  StagedInv'
<1> SUFFICES ASSUME ~Pipelined PROVE StagedInv'
  BY DEF StagedInv
<1>1. ASSUME NEW h \in Handle, open'[h] # NoTx PROVE Mirrors(open[h])'
  <2> DEFINE u == open'[h]
  <2>1. Mirrors(open[h]) /\ SameTx(u, open[h])
    BY <1>1 DEF Quiet, OpenKept, StagedInv
  <2>2. Mirrors(u)
    BY <2>1, MirrorsSame
  <2>3. QED
    BY <2>2 DEF Mirrors, Export
<1>2. ASSUME NEW s \in Req, Carries(s)' PROVE Mirrors(req[s].tx)'
  <2>1. Mirrors(req[s].tx) /\ req'[s].tx = req[s].tx
    BY <1>2 DEF Quiet, CarryKept, StagedInv
  <2>2. QED
    BY <2>1 DEF Mirrors, Export
<1>3. QED
  BY <1>1, <1>2 DEF StagedInv

\* The private graph of a transaction has what is staged in it.
LEMMA StagedServe ==
  ASSUME Core, RouteInv, StagedInv, ~Pipelined, NEW r \in Req, Serve(r)
  PROVE  StagedInv'
<1>c. TypeOK /\ ShapeInv /\ IdInv
  BY DEF Core
<1>i. /\ nextId \in Nat
      /\ \A h \in Handle : open[h] # NoTx => open[h] \in Tx /\ open[h].id \in 1..MaxSent
                                             /\ open[h].id < nextId
      /\ \A s \in Req : Carries(s) => req[s].tx.id \in 1..MaxSent /\ req[s].tx.id < nextId
  BY <1>c, OpenId
<1>q. req[r].h \in Handle /\ open \in [Handle -> Tx \cup {NoTx}]
      /\ private \in [1..MaxSent -> [Key -> Content]]
  BY <1>c, Moves, ShapeOf, ReqParts DEF TypeOK
<1>a. /\ \A h \in Handle : open[h] # NoTx => Mirrors(open[h])
      /\ \A s \in Req : Carries(s) => Mirrors(req[s].tx)
  BY DEF StagedInv
<1>k. ASSUME \A h \in Handle : open'[h] # NoTx => Mirrors(open[h])',
             \A s \in Req : Carries(s)' => Mirrors(req[s].tx)'
      PROVE  StagedInv'
  BY <1>k DEF StagedInv
<1>1. CASE Quiet /\ private' = private
  BY <1>1, StagedQuiet
<1>2. CASE Land(r) /\ req[r].src # 0
  <2>1. Resolved(r) /\ req[r].pc = "land"
    BY <1>2, <1>c, ShapeOf DEF Land, At, Resolved
  <2>2. QED
    BY <1>2, <2>1 DEF RouteInv
<1>3. CASE Opens(r)
  <2>1. /\ open'[req[r].h] = New
        /\ \A h \in Handle \ {req[r].h} : open'[h] = open[h]
        /\ \A s \in Req : Carries(s)' => Carries(s) /\ req'[s].tx = req[s].tx
        /\ \A i \in 1..MaxSent : i # nextId => private'[i] = private[i]
    BY <1>3, <1>q DEF Opens, CarryKept
  <2>2. ASSUME NEW h \in Handle, open'[h] # NoTx PROVE Mirrors(open[h])'
    <3>1. CASE h = req[r].h
      BY <1>i, <2>1, <3>1, NewIs DEF Mirrors
    <3>2. CASE h # req[r].h
      <4> DEFINE t == open[h]
      <4>1. t = open'[h] /\ Mirrors(t) /\ t.id \in 1..MaxSent /\ t.id # nextId
        BY <1>a, <1>i, <2>1, <2>2, <3>2
      <4>2. private'[t.id] = private[t.id]
        BY <2>1, <4>1
      <4>3. QED
        BY <4>1, <4>2 DEF Mirrors, Export
    <3>3. QED
      BY <3>1, <3>2
  <2>3. ASSUME NEW s \in Req, Carries(s)' PROVE Mirrors(req[s].tx)'
    <3> DEFINE t == req[s].tx
    <3>1. t = req'[s].tx /\ Mirrors(t) /\ t.id \in 1..MaxSent /\ t.id # nextId
      BY <1>a, <1>i, <2>1, <2>3
    <3>2. private'[t.id] = private[t.id]
      BY <2>1, <3>1
    <3>3. QED
      BY <3>1, <3>2 DEF Mirrors, Export
  <2>4. QED
    BY <1>k, <2>2, <2>3
<1>4. CASE Takes(r)
  <2>1. /\ open[req[r].h] # NoTx /\ req'[r].tx = open[req[r].h]
        /\ \A h \in Handle : open'[h] # NoTx => open'[h] = open[h]
        /\ \A s \in Req \ {r} : Carries(s)' => Carries(s) /\ req'[s].tx = req[s].tx
        /\ private' = private
    BY <1>4, <1>q, NoneIsNone DEF Takes, CarryKept
  <2>2. ASSUME NEW h \in Handle, open'[h] # NoTx PROVE Mirrors(open[h])'
    <3>1. open'[h] = open[h] /\ Mirrors(open[h])
      BY <1>a, <2>1, <2>2
    <3>2. QED
      BY <2>1, <3>1 DEF Mirrors, Export
  <2>3. ASSUME NEW s \in Req, Carries(s)' PROVE Mirrors(req[s].tx)'
    <3>1. \E t : t = req'[s].tx /\ Mirrors(t)
      BY <1>a, <1>q, <2>1, <2>3
    <3>2. QED
      BY <2>1, <3>1 DEF Mirrors, Export
  <2>4. QED
    BY <1>k, <2>2, <2>3
<1>5. CASE Returns(r)
  <2>1. /\ open'[req[r].h] = Restage(req[r].tx) /\ private' = private
        /\ \A h \in Handle \ {req[r].h} : open'[h] = open[h]
        /\ \A s \in Req : Carries(s)' => Carries(s) /\ req'[s].tx = req[s].tx
    BY <1>5, <1>q DEF Returns, CarryKept
  <2>2. /\ Restage(req[r].tx).id = req[r].tx.id /\ Restage(req[r].tx).effect = req[r].tx.effect
        /\ \A k \in Key : req[r].tx.effect[k] \in {"create", "update"} =>
             Restage(req[r].tx).pending[k] = Export(private[req[r].tx.id], k)
        /\ private[req[r].tx.id] \in [Key -> Content]
    <3>1. req[r].tx \in Tx /\ req[r].tx.id \in 1..MaxSent
      BY <1>5, <1>c, <1>i, ShapeOf DEF Returns, Carries, MidCommit
    <3>2. QED
      BY <1>c, <1>q, <3>1, RestageIs DEF TypeOK
  <2>3. \A k \in Key : Export(private[req[r].tx.id], k) \in Doc
    BY <2>2, ExportType
  <2>4. Mirrors(Restage(req[r].tx))
    BY <2>2, <2>3 DEF Mirrors
  <2>5. ASSUME NEW h \in Handle, open'[h] # NoTx PROVE Mirrors(open[h])'
    <3>1. \E t : t = open'[h] /\ Mirrors(t)
      BY <1>a, <2>1, <2>4, <2>5
    <3>2. QED
      BY <2>1, <3>1 DEF Mirrors, Export
  <2>6. ASSUME NEW s \in Req, Carries(s)' PROVE Mirrors(req[s].tx)'
    BY <1>a, <2>1, <2>6 DEF Mirrors, Export
  <2>7. QED
    BY <1>k, <2>5, <2>6
<1>6. CASE Stage(r)
  <2> DEFINE i == open[req[r].h].id
  <2>1. open[req[r].h] # NoTx
    BY <1>6 DEF Stage
  <2>2. /\ \A h \in Handle : h = req[r].h => Mirrors(open[h])'
        /\ \A j \in 1..MaxSent : j # i => private'[j] = private[j]
    BY <1>6, <1>a, <1>q, <2>1, StageMirrors
  <2>3. \A h \in Handle \ {req[r].h} : open'[h] = open[h] /\ (open[h] # NoTx => open[h].id # i)
    <3>1. \A h \in Handle \ {req[r].h} : open'[h] = open[h]
      BY <1>6, <1>c, ServeOpens
    <3>2. \A h \in Handle \ {req[r].h} : open[h] # NoTx => open[h].id # i
      BY <1>c, <1>q, <2>1 DEF IdInv
    <3>3. QED
      BY <3>1, <3>2
  <2>4. \A s \in Req : Carries(s)' => Carries(s) /\ req'[s].tx = req[s].tx /\ req[s].tx.id # i
    <3>1. \A s \in Req : Carries(s)' => Carries(s) /\ req'[s].tx = req[s].tx
      BY <1>6, <1>c DEF Stage, Answer, Carries, InFlight, TypeOK
    <3>2. \A s \in Req : Carries(s) => req[s].tx.id # i
      BY <1>c, <1>q, <2>1 DEF IdInv
    <3>3. QED
      BY <3>1, <3>2
  <2> HIDE DEF i
  <2>5. ASSUME NEW h \in Handle, h # req[r].h, open'[h] # NoTx PROVE Mirrors(open[h])'
    <3> DEFINE t == open[h]
    <3>1. t = open'[h] /\ Mirrors(t) /\ t.id \in 1..MaxSent /\ private'[t.id] = private[t.id]
      BY <1>a, <1>i, <2>2, <2>3, <2>5
    <3>2. QED
      BY <3>1 DEF Mirrors, Export
  <2>6. ASSUME NEW s \in Req, Carries(s)' PROVE Mirrors(req[s].tx)'
    <3> DEFINE t == req[s].tx
    <3>1. t = req'[s].tx /\ Mirrors(t) /\ t.id \in 1..MaxSent /\ private'[t.id] = private[t.id]
      BY <1>a, <1>i, <2>2, <2>4, <2>6
    <3>2. QED
      BY <3>1 DEF Mirrors, Export
  <2>7. QED
    BY <1>k, <2>2, <2>5, <2>6
<1>7. QED
  BY <1>1, <1>2, <1>3, <1>4, <1>5, <1>6, <1>c, ServeKinds

LEMMA StagedStep ==
  ASSUME Core, RouteInv, StagedInv, [Next]_serverVars
  PROVE  StagedInv'
<1>1. SUFFICES ASSUME ~Pipelined PROVE StagedInv'
  BY DEF StagedInv
<1>2. CASE \E r \in Req : Serve(r)
  BY <1>1, <1>2, StagedServe
<1>3. CASE Environment \/ Daemon
  BY <1>3, RestQuiet, StagedQuiet DEF Core
<1>4. CASE UNCHANGED serverVars
  <2>1. Quiet /\ private' = private
    BY <1>4 DEF serverVars, guards, counters, Quiet, OpenKept, CarryKept, Carries, InFlight, SameTx
  <2>2. QED
    BY <2>1, StagedQuiet
<1>5. QED
  BY <1>2, <1>3, <1>4 DEF Next, Finished

-----------------------------------------------------------------------------
(* What the shared graph shows *)

\* What a graph may show of a key: a content its file had, or the rendering of one.
May(k) == shown[k] \cup {Rendered[d] : d \in shown[k] \ {Absent}}

\* The histories of the files only grow, and hold what is there.
LEMMA ShownStep ==
  ASSUME Core, ShownInv, [Next]_serverVars
  PROVE  /\ ShownInv'
         /\ \A k \in Key : shown[k] \subseteq shown'[k]
<1> USE DEF history
<1>t. shown \in [Key -> SUBSET Content] /\ disk \in [Key -> Content]
  BY DEF Core, TypeOK
<1>1. CASE disk' = disk /\ shown' = shown
  BY <1>1 DEF ShownInv
<1>2. ASSUME NEW c \in Key, NEW d, disk' = [disk EXCEPT ![c] = d],
             shown' = [shown EXCEPT ![c] = @ \cup {d}]
      PROVE  ShownInv' /\ \A k \in Key : shown[k] \subseteq shown'[k]
  BY <1>2, <1>t DEF ShownInv
<1>3. ASSUME shown' = [k \in Key |-> shown[k] \cup {disk'[k]}]
      PROVE  ShownInv' /\ \A k \in Key : shown[k] \subseteq shown'[k]
  BY <1>3 DEF ShownInv
<1>4. ASSUME NEW r \in Req, Serve(r)
      PROVE  ShownInv' /\ \A k \in Key : shown[k] \subseteq shown'[k]
  <2>1. CASE Land(r)
    <3>1. req[r].k \in Key
      BY <1>4, Moves, ShapeOf, ReqParts DEF Core
    <3>2. QED
      BY <1>1, <1>2, <2>1, <3>1 DEF Land
  <2>2. CASE CommitLand(r)
    BY <1>3, <2>2 DEF CommitLand
  <2>3. CASE ~Land(r) /\ ~CommitLand(r)
    BY <1>1, <1>4, <2>3 DEF Serve, Resolve, LockGraph, RejectWrite, Stage, WriteOutside, BeginCheck,
     AlreadyOpen, Begin, CommitTake, CommitRefused, Finish, Reopen, Abort
  <2>4. QED
    BY <2>1, <2>2, <2>3
<1>5. ASSUME NEW k \in Key, NEW d \in Content, Outside(k, d)
      PROVE  ShownInv' /\ \A c \in Key : shown[c] \subseteq shown'[c]
  BY <1>2, <1>5 DEF Outside
<1>6. CASE Daemon
  BY <1>1, <1>6 DEF Daemon, GrowIdle, Expire, Reap, Drain, Stop, Start
<1>7. CASE Environment
  BY <1>1, <1>5, <1>7 DEF Environment, Send, Watch
<1>8. CASE UNCHANGED serverVars
  BY <1>1, <1>8 DEF serverVars
<1>9. QED
  BY <1>4, <1>6, <1>7, <1>8 DEF Next, Finished

\* What a commit brings into the shared graph is on disk, or the rendering of it.
LEMMA LandShows ==
  ASSUME Core, StagedInv, ShownInv, ShownInv', ~Pipelined, NEW r \in Req, CommitLand(r), NEW k \in Key,
         graph[k] \in May(k), shown[k] \subseteq shown'[k]
  PROVE  graph'[k] \in May(k)'
<1> DEFINE t == req[r].tx
<1>1. Carries(r) /\ Mirrors(t)
  BY DEF CommitLand, At, Carries, StagedInv
<1>2. CASE t.effect[k] \in {"create", "update"}
  <2>1. graph'[k] = Export(private[t.id], k) /\ disk'[k] = t.pending[k]
    <3>1. t.pending[k] # Unset
      BY <1>1, <1>2, ServerConstants DEF Mirrors
    <3>2. QED
      BY <1>2, <3>1 DEF CommitLand
  <2>2. t.pending[k] \in shown'[k] /\ t.pending[k] \in Doc
        /\ t.pending[k] \in {private[t.id][k], Export(private[t.id], k)}
    BY <1>1, <1>2, <2>1 DEF CommitLand, Mirrors
  <2>3. CASE t.pending[k] = Export(private[t.id], k)
    BY <2>1, <2>2, <2>3 DEF May
  <2>4. CASE t.pending[k] = private[t.id][k]
    <3>1. t.pending[k] # Absent
      BY <2>2, ServerConstants
    <3>2. graph'[k] = Rendered[t.pending[k]]
      BY <2>1, <2>4, <3>1 DEF Export
    <3>3. QED
      BY <2>2, <3>1, <3>2 DEF May
  <2>5. QED
    BY <2>2, <2>3, <2>4
<1>3. CASE t.effect[k] = "delete"
  BY <1>3 DEF CommitLand, ShownInv, May
<1>4. CASE t.effect[k] \notin {"create", "update", "delete"}
  <2>1. graph'[k] = graph[k]
    BY <1>4 DEF CommitLand
  <2>2. QED
    BY <2>1 DEF May
<1>5. QED
  BY <1>2, <1>3, <1>4

\* The shared graph shows nothing of a transaction before it lands.
LEMMA IsolationStep ==
  ASSUME Core, RouteInv, StagedInv, ShownInv, ShownInv', Isolation, ~Pipelined,
         \A k \in Key : shown[k] \subseteq shown'[k], [Next]_serverVars
  PROVE  Isolation'
<1> USE DEF counters, guards
<1>t. graph \in [Key -> Content] /\ disk \in [Key -> Content] /\ shown \in [Key -> SUBSET Content]
  BY DEF Core, TypeOK
<1>1. SUFFICES ASSUME NEW k \in Key PROVE graph'[k] \in May(k)'
  BY DEF Isolation, May
<1>2. graph[k] \in May(k) /\ disk[k] \in shown[k]
  BY DEF Isolation, May, ShownInv
<1>3. CASE graph'[k] = graph[k]
  BY <1>2, <1>3 DEF May
<1>4. CASE graph'[k] = disk[k]
  BY <1>2, <1>4 DEF May
<1>5. ASSUME NEW r \in Req, Serve(r) PROVE graph'[k] \in May(k)'
  <2>1. CASE Stage(r)
    <3>1. req[r].h \in Handle /\ open[req[r].h] # NoTx
      BY <1>5, <2>1, Moves, ShapeOf, ReqParts DEF Core, Stage
    <3>2. graph' = graph
      BY <2>1, <3>1, StageMirrors DEF StagedInv
    <3>3. QED
      BY <1>3, <3>2
  <2>2. CASE Land(r)
    <3>1. Resolved(r) /\ req[r].pc = "land" /\ req[r].k \in Key
      BY <2>2, ShapeOf, ReqParts DEF Core, Land, At, Resolved
    <3>2. req[r].src = 0
      BY <3>1 DEF RouteInv
    <3>3. CASE /\ shown' = [shown EXCEPT ![req[r].k] = @ \cup {req[r].d}]
               /\ graph' = [graph EXCEPT ![req[r].k] = req[r].d]
      <4>1. CASE k = req[r].k
        <5>1. graph'[k] = req[r].d /\ req[r].d \in shown'[k]
          BY <1>t, <3>3, <4>1
        <5>2. QED
          BY <5>1 DEF May
      <4>2. CASE k # req[r].k
        BY <1>3, <1>t, <3>3, <4>2
      <4>3. QED
        BY <4>1, <4>2
    <3>4. CASE graph' = graph
      BY <1>3, <3>4
    <3>5. QED
      BY <2>2, <3>2, <3>3, <3>4 DEF Land, Mutate
  <2>3. CASE CommitLand(r)
    BY <1>2, <2>3, LandShows
  <2>4. CASE ~Stage(r) /\ ~Land(r) /\ ~CommitLand(r)
    BY <1>3, <1>5, <2>4 DEF Serve, Resolve, LockGraph, RejectWrite, WriteOutside, BeginCheck,
     AlreadyOpen, Begin, CommitTake, CommitRefused, Finish, Reopen, Abort
  <2>5. QED
    BY <2>1, <2>2, <2>3, <2>4
<1>6. ASSUME NEW c \in Key, Watch(c) PROVE graph'[k] \in May(k)'
  BY <1>3, <1>4, <1>6, <1>t DEF Watch
<1>7. CASE Daemon
  BY <1>3, <1>4, <1>7 DEF Daemon, GrowIdle, Expire, Reap, Drain, Stop, Start
<1>8. CASE Environment
  BY <1>3, <1>6, <1>8 DEF Environment, Send, Outside
<1>9. CASE UNCHANGED serverVars
  BY <1>3, <1>9 DEF serverVars
<1>10. QED
  BY <1>5, <1>7, <1>8, <1>9 DEF Next, Finished

\* With clients that wait for an answer before they open, commit or abort: what is
\* staged in a transaction shows in nobody else's graph before it lands.
THEOREM StagedStaysPrivate ==
  ASSUME ~Pipelined
  PROVE  Spec => []Isolation
<1> DEFINE Inv == Core /\ RouteInv /\ StagedInv /\ ShownInv /\ Isolation
<1>1. Init => Inv
  <2> SUFFICES ASSUME Init PROVE Inv
    OBVIOUS
  <2>1. \A r \in Req : ~InFlight(r)
    BY DEF Init, InFlight
  <2>2. RouteInv /\ StagedInv
    BY <2>1 DEF RouteInv, StagedInv, Resolved, Carries, Init
  <2>3. ShownInv /\ Isolation
    BY DEF Init, ShownInv, Isolation
  <2>4. QED
    BY <2>2, <2>3, CoreInit
<1>2. Inv /\ [Next]_serverVars => Inv'
  <2> SUFFICES ASSUME Inv, [Next]_serverVars PROVE Inv'
    OBVIOUS
  <2>1. Core' /\ StagedInv'
    BY CoreStep, StagedStep
  <2>2. RouteInv'
    <3>1. CASE (\E r \in Req : Serve(r)) \/ Environment \/ Daemon
      BY <3>1, RouteServe, RouteRest
    <3>2. CASE UNCHANGED serverVars
      BY <3>2 DEF serverVars, guards, RouteInv, Resolved, InFlight
    <3>3. QED
      BY <3>1, <3>2 DEF Next, Finished
  <2>3. ShownInv' /\ \A k \in Key : shown[k] \subseteq shown'[k]
    BY ShownStep
  <2>4. Isolation'
    BY <2>3, IsolationStep
  <2>5. QED
    BY <2>1, <2>2, <2>3, <2>4
<1>3. QED
  BY <1>1, <1>2, PTL DEF Spec
-----------------------------------------------------------------------------
(* What a commit lands *)

\* Only a request that writes a document carries one.
PlainInv ==
  \A r \in Req :
    InFlight(r) /\ req[r].kind \notin Puts => req[r].d = Absent

LEMMA PlainStep == Core /\ PlainInv /\ [Next]_serverVars => PlainInv'
<1> SUFFICES ASSUME Core, PlainInv, [Next]_serverVars,
                    NEW s \in Req, InFlight(s)', req'[s].kind \notin Puts
             PROVE  req'[s].d = Absent
  BY DEF PlainInv
<1>c. TypeOK /\ ShapeInv /\ ReqOK
  BY DEF Core, TypeOK, ReqOK
<1>1. CASE req'[s] = req[s]
  BY <1>1 DEF PlainInv, InFlight
<1>2. ASSUME NEW r \in Req, Serve(r) PROVE req'[s].d = Absent
  <2>1. InFlight(r) /\ Advances(r)
    BY <1>2, <1>c, Moves
  <2>2. CASE s # r
    BY <1>1, <2>1, <2>2 DEF Advances, Gone, Moved, Others
  <2>3. CASE s = r
    <3>1. req'[r].kind = req[r].kind /\ req'[r].d = req[r].d
      BY <2>1, <2>3 DEF Advances, Gone, Moved, InFlight
    <3>2. QED
      BY <2>1, <2>3, <3>1 DEF PlainInv
  <2>4. QED
    BY <2>2, <2>3
<1>3. ASSUME NEW r \in Req, NEW kind \in Writes \cup Controls, NEW h \in Handle, NEW k \in Key,
             NEW d \in Content, Send(r, kind, h, k, d)
      PROVE  req'[s].d = Absent
  <2>1. /\ Others(r)
        /\ req'[r] = [pc |-> "sent", kind |-> kind, h |-> h, k |-> k, d |-> d,
                      src |-> 0, tx |-> NoTx]
    BY <1>3, <1>c, SendReq
  <2>2. CASE s # r
    BY <1>1, <2>1, <2>2 DEF Others
  <2>3. CASE s = r
    <3>1. kind \notin Puts
      BY <2>1, <2>3
    <3>2. QED
      BY <1>3, <2>1, <2>3, <3>1 DEF Send
  <2>4. QED
    BY <2>2, <2>3
<1>4. CASE Environment
  BY <1>1, <1>3, <1>4 DEF Environment, Watch, Outside
<1>5. CASE Daemon
  BY <1>1, <1>5 DEF Daemon, GrowIdle, Expire, Reap, Drain, Stop, Start, InFlight
<1>6. CASE UNCHANGED serverVars
  BY <1>1, <1>6 DEF serverVars
<1>7. QED
  BY <1>2, <1>4, <1>5, <1>6 DEF Next, Finished

\* A staging write q in one place: it works on the private graph of the transaction t
\* it resolved, and notes there, and in the histories, what it is asked.
StagesOn(t, q) ==
  /\ q \in Request /\ q.kind \in Writes /\ q.k \in Key /\ q.h \in Handle
  /\ t \in Tx /\ t.id \in 1..MaxSent
  /\ Applies(q, private[t.id])
  /\ graph' = graph /\ disk' = disk
  /\ open'[q.h].id = t.id
  /\ open'[q.h].pending = [t.pending EXCEPT ![q.k] = q.d]
  /\ open'[q.h].effect = [t.effect EXCEPT ![q.k] = Collapse(@, EffectOf(q))]
  /\ open'[q.h].restaged = t.restaged \ {q.k}
  /\ private'[t.id] = [private[t.id] EXCEPT ![q.k] = q.d]
  /\ asked'[t.id] = [asked[t.id] EXCEPT ![q.k] = q.d]
  /\ \A i \in 1..MaxSent : i # t.id => private'[i] = private[i] /\ asked'[i] = asked[i]

LEMMA StageIs ==
  ASSUME Core, RouteInv, ~Pipelined, NEW r \in Req, Stage(r)
  PROVE  InFlight(r) /\ StagesOn(open[req[r].h], req[r])
<1> SUFFICES ASSUME NEW t, NEW q, t = open[req[r].h], q = req[r]
             PROVE  InFlight(r) /\ StagesOn(t, q)
  OBVIOUS
<1> DEFINE u == Noted(t, q)
<1>c. TypeOK /\ ShapeInv /\ IdInv
  BY DEF Core
<1>1. /\ q \in Request /\ q.kind \in Writes /\ t \in Tx /\ open' = [open EXCEPT ![q.h] = u] /\ u \in Tx
      /\ t # NoTx /\ Resolved(r) /\ InFlight(r)
  BY <1>c, StageOpens DEF Stage, Resolved, At
<1>2. t.id \in 1..MaxSent /\ q.k \in Key /\ q.h \in Handle
  BY <1>c, <1>1, OpenId, ReqParts
<1>3. q.src = t.id /\ q.src # 0
  <2>1. q.src = 0 => t = NoTx
    BY <1>1 DEF RouteInv
  <2>2. q.src # 0 => t.id = q.src
    BY <1>1 DEF RouteInv
  <2>3. QED
    BY <1>1, <2>1, <2>2
<1>4. private' = [private EXCEPT ![t.id][q.k] = q.d] /\ graph' = graph /\ disk' = disk
  BY <1>3 DEF Stage, Mutate
<1>5. asked' = [asked EXCEPT ![t.id][q.k] = q.d]
  BY DEF Stage
<1>6. Applies(q, private[t.id])
  BY <1>3 DEF Stage, View
<1>7. /\ u.id = t.id /\ u.pending = [t.pending EXCEPT ![q.k] = q.d]
      /\ u.effect = [t.effect EXCEPT ![q.k] = Collapse(@, EffectOf(q))]
      /\ u.restaged = t.restaged \ {q.k}
  <2>1. disk \in [Key -> Content] /\ t \in Tx /\ q \in Request /\ q.kind \in Writes
    BY <1>c, <1>1 DEF TypeOK
  <2>2. /\ Noted(t, q).id = t.id /\ Noted(t, q).pending = [t.pending EXCEPT ![q.k] = q.d]
        /\ Noted(t, q).effect = [t.effect EXCEPT ![q.k] = Collapse(@, EffectOf(q))]
        /\ Noted(t, q).restaged = t.restaged \ {q.k}
    BY ONLY <2>1, NotedIs
  <2>3. QED
    BY <2>2
<1> HIDE DEF u
<1>8. open'[q.h] = u
  <2>1. open \in [Handle -> Tx \cup {NoTx}]
    BY <1>c DEF TypeOK
  <2>2. QED
    BY <1>1, <1>2, <2>1
<1>9. /\ private'[t.id] = [private[t.id] EXCEPT ![q.k] = q.d]
      /\ \A i \in 1..MaxSent : i # t.id => private'[i] = private[i]
  BY <1>c, <1>2, <1>4 DEF TypeOK
<1>10. /\ asked'[t.id] = [asked[t.id] EXCEPT ![q.k] = q.d]
       /\ \A i \in 1..MaxSent : i # t.id => asked'[i] = asked[i]
  BY <1>c, <1>2, <1>5 DEF TypeOK
<1>11. /\ open'[q.h].id = t.id
       /\ open'[q.h].pending = [t.pending EXCEPT ![q.k] = q.d]
       /\ open'[q.h].effect = [t.effect EXCEPT ![q.k] = Collapse(@, EffectOf(q))]
       /\ open'[q.h].restaged = t.restaged \ {q.k}
  BY <1>7, <1>8
<1>12. QED
  BY <1>1, <1>2, <1>4, <1>6, <1>9, <1>10, <1>11 DEF StagesOn

\* What a transaction has of each key, next to what its client asked last (w) and
\* what its private graph shows (p): the text asked for, or its rendering where a
\* retry staged it, and the word for it.
Keeps(t, w, p) ==
  \A k \in Key :
    /\ w[k] = Unset => t.pending[k] = Unset /\ t.effect[k] = "unnamed"
    /\ w[k] # Unset => p[k] = w[k] /\ t.effect[k] # "unnamed"
    /\ t.effect[k] \in {"create", "update"} =>
         w[k] \in Doc /\ t.pending[k] = IF k \in t.restaged THEN Rendered[w[k]] ELSE w[k]
    /\ t.effect[k] = "delete" => w[k] = Absent /\ t.pending[k] = Absent
    /\ t.effect[k] = "none" => w[k] = Absent /\ t.pending[k] \in {Absent, Unset}

Faithful(t) == Keeps(t, asked[t.id], private[t.id])

FaithfulInv ==
  Pipelined \/
    /\ \A h \in Handle : open[h] # NoTx => Faithful(open[h])
    /\ \A r \in Req : Carries(r) => Faithful(req[r].tx)
    /\ \A i \in nextId..MaxSent : asked[i] = Untouched

\* One more write of the client, on one key.
LEMMA StageKeeps ==
  ASSUME Core, RouteInv, PlainInv, ~Pipelined, NEW r \in Req, Stage(r),
         NEW h \in Handle, h = req[r].h, Faithful(open[h])
  PROVE  Faithful(open[h])'
<1> DEFINE q == req[r]
           t == open[h]
           w == asked[t.id]
           p == private[t.id]
<1>0. InFlight(r) /\ StagesOn(t, q) /\ q.h = h
  BY StageIs
<1>1. /\ q \in Request /\ q.kind \in Writes /\ q.k \in Key
      /\ t \in Tx /\ t.id \in 1..MaxSent
      /\ open'[h].id = t.id
      /\ open'[h].pending = [t.pending EXCEPT ![q.k] = q.d]
      /\ open'[h].effect = [t.effect EXCEPT ![q.k] = Collapse(@, EffectOf(q))]
      /\ open'[h].restaged = t.restaged \ {q.k}
      /\ private'[t.id] = [p EXCEPT ![q.k] = q.d]
      /\ asked'[t.id] = [w EXCEPT ![q.k] = q.d]
  <2> HIDE DEF q, t
  <2>1. QED
    BY <1>0 DEF StagesOn
<1>2. /\ w \in [Key -> Content \cup {Unset}] /\ p \in [Key -> Content]
      /\ t.pending \in [Key -> Content \cup {Unset}] /\ t.effect \in [Key -> Slot]
      /\ q.d \in Content
  BY <1>1, TxParts, ReqParts DEF Core, TypeOK
<1>3. Keeps(t, w, p)
  BY DEF Faithful
<1>4. /\ q.kind = "delete" => q.d = Absent
      /\ q.kind # "delete" => q.d \in Doc
  BY <1>0, <1>1 DEF Core, ShapeInv, PlainInv, Writes, Puts
<1>5. /\ q.kind = "delete" => EffectOf(q) = "delete"
      /\ q.kind # "delete" => EffectOf(q) \in {"create", "update"}
  BY <1>1 DEF EffectOf, Writes, Puts
<1>6. Unset \notin Content /\ Absent \in Content /\ Absent \notin Doc
  BY ServerConstants DEF Content
<1> DEFINE P == [t.pending EXCEPT ![q.k] = q.d]
           E == [t.effect EXCEPT ![q.k] = Collapse(@, EffectOf(q))]
           W == [w EXCEPT ![q.k] = q.d]
           V == [p EXCEPT ![q.k] = q.d]
           X == t.restaged \ {q.k}
<1>7. /\ P[q.k] = q.d /\ W[q.k] = q.d /\ V[q.k] = q.d
      /\ E[q.k] = Collapse(t.effect[q.k], EffectOf(q))
      /\ \A k \in Key \ {q.k} : P[k] = t.pending[k] /\ W[k] = w[k] /\ V[k] = p[k] /\ E[k] = t.effect[k]
      /\ q.k \notin X /\ \A k \in Key \ {q.k} : k \in X <=> k \in t.restaged
  BY <1>1, <1>2
<1>8. /\ q.kind = "delete" => E[q.k] \in {"delete", "none"}
      /\ q.kind # "delete" => E[q.k] \in {"create", "update"}
  <2>1. t.effect[q.k] \in Slot
    BY <1>1, <1>2
  <2> HIDE DEF q, t, E
  <2>2. QED
    BY <1>5, <1>7, <2>1 DEF Collapse, Slot
<1>9. /\ open'[h].pending = P /\ open'[h].effect = E /\ open'[h].restaged = X
      /\ asked'[t.id] = W /\ private'[t.id] = V
  BY <1>1
<1>10. ASSUME NEW o, o.pending = P, o.effect = E, o.restaged = X PROVE Keeps(o, W, V)
  <2> DEFINE Good(k) == /\ W[k] = Unset => P[k] = Unset /\ E[k] = "unnamed"
                        /\ W[k] # Unset => V[k] = W[k] /\ E[k] # "unnamed"
                        /\ E[k] \in {"create", "update"} =>
                             W[k] \in Doc /\ P[k] = IF k \in X THEN Rendered[W[k]] ELSE W[k]
                        /\ E[k] = "delete" => W[k] = Absent /\ P[k] = Absent
                        /\ E[k] = "none" => W[k] = Absent /\ P[k] \in {Absent, Unset}
  <2> HIDE DEF P, E, W, V, X, q, t, w, p
  <2>1. Good(q.k)
    BY <1>2, <1>4, <1>6, <1>7, <1>8
  <2>2. \A k \in Key \ {q.k} : Good(k)
    BY <1>3, <1>7 DEF Keeps
  <2>3. \A k \in Key : Good(k)
    <3> HIDE DEF Good
    <3>1. QED
      BY <2>1, <2>2
  <2>4. QED
    BY <1>10, <2>3 DEF Keeps
<1> HIDE DEF P, E, W, V, X
<1>11. Keeps(open'[h], W, V)
  BY <1>9, <1>10
<1> HIDE DEF q, t
<1>12. QED
  BY <1>1, <1>9, <1>11 DEF Faithful

\* A retry stages again what the private graph shows.
LEMMA RestageKeeps ==
  ASSUME NEW t \in Tx, t.id \in 1..MaxSent, private \in [1..MaxSent -> [Key -> Content]],
         disk \in [Key -> Content], Faithful(t)
  PROVE  Restage(t).id = t.id /\ Faithful(Restage(t))
<1> DEFINE again == [k \in Key |->
             CASE t.effect[k] = "delete" -> Absent
               [] t.effect[k] \in {"create", "update"} -> Export(private[t.id], k)
               [] OTHER -> Unset]
           w == asked[t.id]
           p == private[t.id]
<1>1. /\ Restage(t).id = t.id /\ Restage(t).effect = t.effect
      /\ Restage(t).restaged = {k \in Key : t.effect[k] \in {"create", "update"}}
  BY RestageIs
<1>2. Restage(t).pending = again
  <2> DEFINE b == [k \in Key |-> IF again[k] = Unset THEN Unset ELSE disk[k]]
             x == {k \in Key : t.effect[k] \in {"create", "update"}}
  <2>1. Restage(t) = [t EXCEPT !.pending = again, !.baseline = b, !.restaged = x]
    BY DEF Restage
  <2> HIDE DEF again, b, x
  <2>2. QED
    BY <2>1 DEF Tx
<1>3. Keeps(t, w, p)
  BY DEF Faithful
<1>4. ASSUME NEW k \in Key
      PROVE  /\ w[k] = Unset => again[k] = Unset /\ t.effect[k] = "unnamed"
             /\ w[k] # Unset => p[k] = w[k] /\ t.effect[k] # "unnamed"
             /\ t.effect[k] \in {"create", "update"} => w[k] \in Doc /\ again[k] = Rendered[w[k]]
             /\ t.effect[k] = "delete" => w[k] = Absent /\ again[k] = Absent
             /\ t.effect[k] = "none" => w[k] = Absent /\ again[k] = Unset
  <2>1. /\ t.effect[k] = "delete" => again[k] = Absent
        /\ t.effect[k] \in {"create", "update"} => again[k] = Export(p, k)
        /\ t.effect[k] \notin {"delete", "create", "update"} => again[k] = Unset
    OBVIOUS
  <2> HIDE DEF again, w, p
  <2>2. t.effect[k] \in {"create", "update"} => w[k] \in Doc /\ p[k] = w[k]
    BY <1>3, ServerConstants DEF Keeps
  <2>3. t.effect[k] \in {"create", "update"} => Export(p, k) = Rendered[w[k]]
    BY <2>2, ServerConstants DEF Export
  <2>4. QED
    BY <1>3, <2>1, <2>2, <2>3 DEF Keeps
<1> HIDE DEF again, w, p
<1>5. Keeps(Restage(t), w, p)
  BY <1>1, <1>2, <1>4 DEF Keeps
<1>6. QED
  BY <1>1, <1>5 DEF Faithful, w, p

LEMMA FaithfulQuiet ==
  ASSUME FaithfulInv, Quiet, private' = private, asked' = asked
  PROVE  FaithfulInv'
<1> SUFFICES ASSUME ~Pipelined PROVE FaithfulInv'
  BY DEF FaithfulInv
<1>1. ASSUME NEW h \in Handle, open'[h] # NoTx PROVE Faithful(open[h])'
  <2>1. Faithful(open[h]) /\ SameTx(open'[h], open[h])
    BY <1>1 DEF Quiet, OpenKept, FaithfulInv
  <2>2. QED
    BY <2>1 DEF Faithful, Keeps, SameTx
<1>2. ASSUME NEW s \in Req, Carries(s)' PROVE Faithful(req[s].tx)'
  <2>1. Faithful(req[s].tx) /\ req'[s].tx = req[s].tx
    BY <1>2 DEF Quiet, CarryKept, FaithfulInv
  <2>2. QED
    BY <2>1 DEF Faithful
<1>3. \A i \in nextId'..MaxSent : asked'[i] = Untouched
  BY DEF Quiet, FaithfulInv
<1>4. QED
  BY <1>1, <1>2, <1>3 DEF FaithfulInv

\* A commit has, of every key, what its client asked for last.
LEMMA FaithfulServe ==
  ASSUME Core, RouteInv, PlainInv, FaithfulInv, ~Pipelined, NEW r \in Req, Serve(r)
  PROVE  FaithfulInv'
<1>c. TypeOK /\ ShapeInv /\ IdInv
  BY DEF Core
<1>i. /\ nextId \in Nat /\ MaxSent \in Nat
      /\ \A h \in Handle : open[h] # NoTx => open[h] \in Tx /\ open[h].id \in 1..MaxSent
                                             /\ open[h].id < nextId
      /\ \A s \in Req : Carries(s) => req[s].tx.id \in 1..MaxSent /\ req[s].tx.id < nextId
  BY <1>c, OpenId, ServerConstants
<1>q. req[r].h \in Handle /\ open \in [Handle -> Tx \cup {NoTx}]
      /\ private \in [1..MaxSent -> [Key -> Content]]
  BY <1>c, Moves, ShapeOf, ReqParts DEF TypeOK
<1>a. /\ \A h \in Handle : open[h] # NoTx => Faithful(open[h])
      /\ \A s \in Req : Carries(s) => Faithful(req[s].tx)
      /\ \A i \in nextId..MaxSent : asked[i] = Untouched
  BY DEF FaithfulInv
<1>k. ASSUME \A h \in Handle : open'[h] # NoTx => Faithful(open[h])',
             \A s \in Req : Carries(s)' => Faithful(req[s].tx)',
             \A i \in nextId'..MaxSent : asked'[i] = Untouched
      PROVE  FaithfulInv'
  BY <1>k DEF FaithfulInv
<1>f. ASSUME NEW t, Faithful(t), asked'[t.id] = asked[t.id], private'[t.id] = private[t.id]
      PROVE  Keeps(t, asked'[t.id], private'[t.id])
  BY <1>f DEF Faithful
<1>1. CASE Quiet /\ UNCHANGED <<asked, seen>> /\ private' = private
  BY <1>1, FaithfulQuiet
<1>2. CASE Land(r) /\ req[r].src # 0
  <2>1. Resolved(r) /\ req[r].pc = "land"
    BY <1>2, <1>c, ShapeOf DEF Land, At, Resolved
  <2>2. QED
    BY <1>2, <2>1 DEF RouteInv
<1>3. CASE Opens(r)
  <2>1. /\ open'[req[r].h] = New /\ nextId \in nextId..MaxSent /\ nextId' = nextId + 1
        /\ \A h \in Handle \ {req[r].h} : open'[h] = open[h]
        /\ \A s \in Req : Carries(s)' => Carries(s) /\ req'[s].tx = req[s].tx
        /\ \A i \in 1..MaxSent : i # nextId => private'[i] = private[i]
        /\ asked' = asked
    BY <1>3, <1>i, <1>q DEF Opens, CarryKept
  <2>2. Keeps(New, asked'[New.id], private'[New.id])
    <3>1. New.id = nextId /\ New.pending = Untouched /\ \A k \in Key : New.effect[k] = "unnamed"
      BY <1>i, NewIs
    <3>2. asked'[New.id] = Untouched
      BY <1>a, <2>1, <3>1
    <3>3. QED
      BY <3>1, <3>2 DEF Keeps, Untouched
  <2>3. ASSUME NEW h \in Handle, open'[h] # NoTx PROVE Faithful(open[h])'
    <3>1. CASE h = req[r].h
      <4>1. open'[h] = New
        BY <2>1, <3>1
      <4>2. QED
        BY <2>2, <4>1 DEF Faithful
    <3>2. CASE h # req[r].h
      <4>1. open'[h] = open[h] /\ Faithful(open[h]) /\ open[h].id \in 1..MaxSent /\ open[h].id # nextId
        BY <1>a, <1>i, <2>1, <2>3, <3>2
      <4>2. QED
        BY <1>f, <2>1, <4>1 DEF Faithful
    <3>3. QED
      BY <3>1, <3>2
  <2>4. ASSUME NEW s \in Req, Carries(s)' PROVE Faithful(req[s].tx)'
    <3>1. /\ req'[s].tx = req[s].tx /\ Faithful(req[s].tx)
          /\ req[s].tx.id \in 1..MaxSent /\ req[s].tx.id # nextId
      BY <1>a, <1>i, <2>1, <2>4
    <3>2. QED
      BY <1>f, <2>1, <3>1 DEF Faithful
  <2>5. \A i \in nextId'..MaxSent : asked'[i] = Untouched
    BY <1>a, <1>i, <2>1
  <2>6. QED
    BY <1>k, <2>3, <2>4, <2>5
<1>4. CASE Takes(r)
  <2>1. /\ open[req[r].h] # NoTx /\ req'[r].tx = open[req[r].h] /\ nextId' = nextId
        /\ \A h \in Handle : open'[h] # NoTx => open'[h] = open[h]
        /\ \A s \in Req \ {r} : Carries(s)' => Carries(s) /\ req'[s].tx = req[s].tx
        /\ private' = private /\ asked' = asked
    BY <1>4, <1>q, NoneIsNone DEF Takes, CarryKept
  <2>2. ASSUME NEW h \in Handle, open'[h] # NoTx PROVE Faithful(open[h])'
    <3>1. open'[h] = open[h] /\ Faithful(open[h])
      BY <1>a, <2>1, <2>2
    <3>2. QED
      BY <2>1, <3>1 DEF Faithful
  <2>3. ASSUME NEW s \in Req, Carries(s)' PROVE Faithful(req[s].tx)'
    <3>1. \E t : t = req'[s].tx /\ Faithful(t)
      BY <1>a, <1>q, <2>1, <2>3
    <3>2. QED
      BY <2>1, <3>1 DEF Faithful
  <2>4. \A i \in nextId'..MaxSent : asked'[i] = Untouched
    BY <1>a, <2>1
  <2>5. QED
    BY <1>k, <2>2, <2>3, <2>4
<1>5. CASE Returns(r)
  <2>1. /\ open'[req[r].h] = Restage(req[r].tx) /\ private' = private /\ asked' = asked
        /\ nextId' = nextId
        /\ \A h \in Handle \ {req[r].h} : open'[h] = open[h]
        /\ \A s \in Req : Carries(s)' => Carries(s) /\ req'[s].tx = req[s].tx
    BY <1>5, <1>q DEF Returns, CarryKept
  <2>2. Faithful(Restage(req[r].tx))
    <3>1. /\ req[r].tx \in Tx /\ req[r].tx.id \in 1..MaxSent /\ Faithful(req[r].tx)
          /\ disk \in [Key -> Content]
      BY <1>5, <1>a, <1>c, <1>i, ShapeOf DEF Returns, Carries, MidCommit, TypeOK
    <3>2. QED
      BY <1>q, <3>1, RestageKeeps
  <2>3. ASSUME NEW h \in Handle, open'[h] # NoTx PROVE Faithful(open[h])'
    <3>1. \E t : t = open'[h] /\ Faithful(t)
      BY <1>a, <2>1, <2>2, <2>3
    <3>2. QED
      BY <2>1, <3>1 DEF Faithful
  <2>4. ASSUME NEW s \in Req, Carries(s)' PROVE Faithful(req[s].tx)'
    BY <1>a, <2>1, <2>4 DEF Faithful
  <2>5. \A i \in nextId'..MaxSent : asked'[i] = Untouched
    BY <1>a, <2>1
  <2>6. QED
    BY <1>k, <2>3, <2>4, <2>5
<1>6. CASE Stage(r)
  <2> DEFINE i == open[req[r].h].id
  <2>1. open[req[r].h] # NoTx /\ nextId' = nextId
    BY <1>6 DEF Stage, counters
  <2>2. /\ \A h \in Handle : h = req[r].h => Faithful(open[h])'
        /\ \A j \in 1..MaxSent : j # i => private'[j] = private[j] /\ asked'[j] = asked[j]
    <3>1. ASSUME NEW h \in Handle, h = req[r].h PROVE Faithful(open[h])'
      BY <1>6, <1>a, <2>1, <3>1, StageKeeps
    <3>2. \A j \in 1..MaxSent : j # i => private'[j] = private[j] /\ asked'[j] = asked[j]
      BY <1>6, StageIs DEF StagesOn
    <3>3. QED
      BY <3>1, <3>2
  <2>3. \A h \in Handle \ {req[r].h} : open'[h] = open[h] /\ (open[h] # NoTx => open[h].id # i)
    <3>1. \A h \in Handle \ {req[r].h} : open'[h] = open[h]
      BY <1>6, <1>c, ServeOpens
    <3>2. \A h \in Handle \ {req[r].h} : open[h] # NoTx => open[h].id # i
      BY <1>c, <1>q, <2>1 DEF IdInv
    <3>3. QED
      BY <3>1, <3>2
  <2>4. \A s \in Req : Carries(s)' => Carries(s) /\ req'[s].tx = req[s].tx /\ req[s].tx.id # i
    <3>1. \A s \in Req : Carries(s)' => Carries(s) /\ req'[s].tx = req[s].tx
      BY <1>6, <1>c DEF Stage, Answer, Carries, InFlight, TypeOK
    <3>2. \A s \in Req : Carries(s) => req[s].tx.id # i
      BY <1>c, <1>q, <2>1 DEF IdInv
    <3>3. QED
      BY <3>1, <3>2
  <2>5. i \in 1..MaxSent /\ i < nextId
    BY <1>i, <1>q, <2>1
  <2> HIDE DEF i
  <2>6. ASSUME NEW h \in Handle, open'[h] # NoTx PROVE Faithful(open[h])'
    <3>1. CASE h = req[r].h
      BY <2>2, <3>1
    <3>2. CASE h # req[r].h
      <4>1. open'[h] = open[h] /\ Faithful(open[h]) /\ open[h].id \in 1..MaxSent /\ open[h].id # i
        BY <1>a, <1>i, <2>3, <2>6, <3>2
      <4>2. QED
        BY <1>f, <2>2, <4>1 DEF Faithful
    <3>3. QED
      BY <3>1, <3>2
  <2>7. ASSUME NEW s \in Req, Carries(s)' PROVE Faithful(req[s].tx)'
    <3>1. /\ req'[s].tx = req[s].tx /\ Faithful(req[s].tx)
          /\ req[s].tx.id \in 1..MaxSent /\ req[s].tx.id # i
      BY <1>a, <1>i, <2>4, <2>7
    <3>2. QED
      BY <1>f, <2>2, <3>1 DEF Faithful
  <2>8. \A j \in nextId'..MaxSent : asked'[j] = Untouched
    <3>1. \A j \in nextId..MaxSent : j # i /\ j \in 1..MaxSent
      BY <1>i, <2>5
    <3>2. QED
      BY <1>a, <2>1, <2>2, <3>1
  <2>9. QED
    BY <1>k, <2>6, <2>7, <2>8
<1>7. QED
  BY <1>1, <1>2, <1>3, <1>4, <1>5, <1>6, <1>c, ServeKinds

LEMMA FaithfulStep ==
  ASSUME Core, RouteInv, PlainInv, FaithfulInv, [Next]_serverVars
  PROVE  FaithfulInv'
<1>1. SUFFICES ASSUME ~Pipelined PROVE FaithfulInv'
  BY DEF FaithfulInv
<1>2. CASE \E r \in Req : Serve(r)
  BY <1>1, <1>2, FaithfulServe
<1>3. CASE Environment \/ Daemon
  BY <1>3, RestQuiet, FaithfulQuiet DEF Core
<1>4. CASE UNCHANGED serverVars
  <2>1. Quiet /\ private' = private /\ asked' = asked
    BY <1>4 DEF serverVars, guards, counters, history, Quiet, OpenKept, CarryKept, Carries, InFlight,
      SameTx
  <2>2. QED
    BY <2>1, FaithfulQuiet
<1>5. QED
  BY <1>2, <1>3, <1>4 DEF Next, Finished

\* A write that found no transaction finds none: this part of the invariant by itself.
LEMMA RouteStep == Core /\ RouteInv /\ [Next]_serverVars => RouteInv'
<1> SUFFICES ASSUME Core, RouteInv, [Next]_serverVars PROVE RouteInv'
  OBVIOUS
<1>1. CASE (\E r \in Req : Serve(r)) \/ Environment \/ Daemon
  BY <1>1, RouteServe, RouteRest
<1>2. CASE UNCHANGED serverVars
  BY <1>2 DEF serverVars, guards, RouteInv, Resolved, InFlight
<1>3. QED
  BY <1>1, <1>2 DEF Next, Finished

Ledger == Core /\ RouteInv /\ PlainInv /\ FaithfulInv

LEMMA LedgerInit == Init => Ledger
<1> SUFFICES ASSUME Init PROVE Ledger
  OBVIOUS
<1>1. \A r \in Req : ~InFlight(r)
  BY DEF Init, InFlight
<1>2. RouteInv /\ PlainInv
  BY <1>1 DEF RouteInv, PlainInv, Resolved
<1>3. FaithfulInv
  BY <1>1, ServerConstants DEF FaithfulInv, Carries, Init
<1>4. QED
  BY <1>2, <1>3, CoreInit DEF Ledger

LEMMA LedgerStep == Ledger /\ [Next]_serverVars => Ledger'
  BY CoreStep, RouteStep, PlainStep, FaithfulStep DEF Ledger

\* A commit of a transaction that has what its client asked for lands that.
LEMMA LandLands ==
  ASSUME Ledger, ~Pipelined, Next, NEW r \in Req, Lands(r), NEW k \in Key
  PROVE  LandsAsked(req[r].tx, k)
<1> DEFINE t == req[r].tx
           w == asked[t.id]
<1>1. CommitLand(r)
  BY LandsIs DEF Ledger
<1>2. Keeps(t, w, private[t.id])
  BY <1>1 DEF CommitLand, At, Carries, Ledger, FaithfulInv, Faithful
<1>3. disk'[k] = IF t.pending[k] = Unset THEN disk[k] ELSE t.pending[k]
  BY <1>1 DEF CommitLand
<1>4. \A d \in Doc : d # Unset /\ Rendered[d] # Unset
  BY ServerConstants
<1>5. Absent # Unset
  BY ServerConstants
<1> HIDE DEF t, w
<1>6. /\ w[k] = Unset => disk'[k] = disk[k]
      /\ t.effect[k] = "delete" => w[k] = Absent /\ disk'[k] = Absent
  BY <1>2, <1>3, <1>5 DEF Keeps
<1>7. t.effect[k] \in {"create", "update"} =>
        w[k] \in Doc /\ disk'[k] = IF k \in t.restaged THEN Rendered[w[k]] ELSE w[k]
  BY <1>2, <1>3, <1>4 DEF Keeps
<1>8. QED
  BY <1>6, <1>7 DEF LandsAsked, t, w

\* With clients that wait for an answer before they open, commit or abort, and
\* whatever other agents and programs do: a commit lands on each key what its agent
\* staged last, word for word or, where a refused attempt was retried, as the graph
\* renders it, and nothing on any other key.
THEOREM CommitsLandWhatWasAsked ==
  ASSUME ~Pipelined
  PROVE  Spec => CommitLandsAsked
<1> DEFINE Asked == \A r \in Req : Lands(r) => \A k \in Key : LandsAsked(req[r].tx, k)
<1>1. Ledger /\ [Next]_serverVars => [Asked]_serverVars
  BY LandLands
<1>2. QED
  BY LedgerInit, LedgerStep, <1>1, PTL DEF Spec, CommitLandsAsked

\* Where rendering a document gives it back, a commit lands word for word what its
\* agent staged last, retried or not: the pending writes of a retry are the same ones.
THEOREM CommitsLandExactly ==
  ASSUME ~Pipelined, \A d \in Doc : Rendered[d] = d
  PROVE  Spec => CommitLandsStaged
<1> DEFINE Staged == \A r \in Req : Lands(r) =>
             \A k \in Key :
               req[r].tx.effect[k] \in {"create", "update", "delete"} =>
                 disk'[k] = asked[req[r].tx.id][k]
<1>1. Ledger /\ [Next]_serverVars => [Staged]_serverVars
  <2> SUFFICES ASSUME Ledger, Next, NEW r \in Req, Lands(r), NEW k \in Key,
                      req[r].tx.effect[k] \in {"create", "update", "delete"}
               PROVE  disk'[k] = asked[req[r].tx.id][k]
    OBVIOUS
  <2>1. LandsAsked(req[r].tx, k)
    BY LandLands
  <2>2. QED
    BY <2>1 DEF LandsAsked
<1>2. QED
  BY LedgerInit, LedgerStep, <1>1, PTL DEF Spec, CommitLandsStaged

-----------------------------------------------------------------------------
(* What the effects of a commit say *)

\* A handle whose commit is under way has nothing open.
TakenInv == Pipelined \/ \A r \in Req : Carries(r) => open[req[r].h] = NoTx

LEMMA TakenServe ==
  ASSUME Core, TakenInv, ~Pipelined, NEW r \in Req, Serve(r)
  PROVE  TakenInv'
<1>c. TypeOK /\ ShapeInv /\ ExclusiveInv
  BY DEF Core
<1>q. InFlight(r) /\ Advances(r) /\ req[r] \in Request /\ req[r].h \in Handle
      /\ open \in [Handle -> Tx \cup {NoTx}]
  BY <1>c, Moves, ShapeOf, ReqParts DEF TypeOK
<1>1. SUFFICES ASSUME NEW s \in Req, Carries(s)' PROVE open'[req'[s].h] = NoTx
  BY DEF TakenInv
<1>2. CASE s # r
  <2>1. Carries(s) /\ req'[s] = req[s]
    BY <1>1, <1>q, <1>2 DEF Advances, Gone, Moved, Others, Carries, InFlight
  <2>2. req[s].kind = "commit" /\ req[s].h \in Handle /\ open[req[s].h] = NoTx
    BY <2>1, <1>c, ShapeOf, ReqParts DEF Carries, MidCommit, TakenInv
  <2>3. req[s].h # req[r].h
    BY <1>c, <1>q, <1>2, <2>1, <2>2 DEF ExclusiveInv, Carries, Writes, Puts
  <2>4. QED
    BY <1>c, <2>1, <2>2, <2>3, ServeOpens
<1>3. CASE s = r
  <2>1. req'[r].h = req[r].h /\ req[r].kind = "commit" /\ req'[r].pc \in {"taken", "retry"}
    <3>1. ~Gone(r)
      BY <1>1, <1>3 DEF Gone, Carries, InFlight
    <3>2. QED
      BY <1>1, <1>3, <1>q, <3>1 DEF Advances, Moved, Carries
  <2>2. CASE CommitTake(r)
    <3>1. open[req[r].h] # NoTx
      BY <1>1, <1>3, <2>2 DEF CommitTake, Answer, Carries, InFlight, TypeOK, Core
    <3>2. QED
      BY <1>3, <1>q, <2>1, <2>2, <3>1 DEF CommitTake
  <2>3. CASE CommitLand(r) \/ CommitRefused(r)
    <3>1. Carries(r) /\ open' = open
      BY <2>3 DEF CommitLand, CommitRefused, At, Carries, guards
    <3>2. QED
      BY <1>3, <2>1, <3>1 DEF TakenInv
  <2>4. CASE Finish(r) \/ Reopen(r)
    BY <1>1, <1>3, <1>c, <2>4 DEF Finish, Reopen, Answer, Carries, InFlight, TypeOK
  <2>5. CASE Resolve(r) \/ LockGraph(r) \/ RejectWrite(r) \/ Stage(r) \/ WriteOutside(r) \/ Land(r)
             \/ BeginCheck(r) \/ AlreadyOpen(r) \/ Begin(r) \/ Abort(r)
    <3>1. req[r].pc \in {"lock", "ready", "land", "begin"} \/ req[r].kind # "commit"
      BY <2>5 DEF Resolve, LockGraph, RejectWrite, Stage, WriteOutside, Land, BeginCheck,
        AlreadyOpen, Begin, Abort, At, Writes, Puts
    <3>2. QED
      BY <1>c, <1>q, <2>1, <3>1, ShapeOf DEF Writes, Puts
  <2>6. QED
    BY <2>2, <2>3, <2>4, <2>5 DEF Serve
<1>4. QED
  BY <1>2, <1>3

LEMMA TakenStep == Core /\ TakenInv /\ [Next]_serverVars => TakenInv'
<1> SUFFICES ASSUME Core, TakenInv, [Next]_serverVars PROVE TakenInv'
  OBVIOUS
<1>1. SUFFICES ASSUME ~Pipelined PROVE TakenInv'
  BY DEF TakenInv
<1>2. CASE \E r \in Req : Serve(r)
  BY <1>1, <1>2, TakenServe
<1>3. CASE Environment \/ Daemon
  <2>1. SUFFICES ASSUME NEW s \in Req, Carries(s)' PROVE open'[req'[s].h] = NoTx
    BY DEF TakenInv
  <2>2. Carries(s) /\ req'[s] = req[s]
    BY <1>3, <2>1, RestMoves DEF Core, Others, Carries, InFlight
  <2>3. req[s].h \in Handle /\ open[req[s].h] = NoTx
    BY <1>1, <2>2, ShapeOf, ReqParts DEF Core, TakenInv, Carries
  <2>4. OpenKept(req[s].h)
    BY <1>3, <2>3, RestQuiet DEF Core, Quiet
  <2>5. QED
    BY <2>2, <2>3, <2>4 DEF OpenKept
<1>4. CASE UNCHANGED serverVars
  BY <1>4 DEF serverVars, guards, TakenInv, Carries, InFlight
<1>5. QED
  BY <1>2, <1>3, <1>4 DEF Next, Finished

\* The words of a transaction (t) say which keys are on disk (d); of a key without a
\* word its private graph (p) says it.
Tracks(t, p, d) ==
  \A k \in Key :
    /\ t.effect[k] \in {"create", "none"} => d[k] = Absent
    /\ t.effect[k] \in {"update", "delete"} => d[k] # Absent
    /\ t.effect[k] = "unnamed" => (p[k] = Absent <=> d[k] = Absent)

\* One agent, and no other program that writes.
Alone == ~Pipelined /\ MaxOutside = 0 /\ \E h \in Handle : Handle = {h}

TracksInv ==
  /\ \A k \in Key : graph[k] = Absent <=> disk[k] = Absent
  /\ \A h \in Handle : open[h] # NoTx => Tracks(open[h], private[open[h].id], disk)
  /\ \A r \in Req : Carries(r) => Tracks(req[r].tx, private[req[r].tx.id], disk)

\* One more write: the word it leaves is right, for the tool found what it asks for.
LEMMA StageTracks ==
  ASSUME Ledger, ~Pipelined, NEW r \in Req, Stage(r), NEW h \in Handle, h = req[r].h,
         Tracks(open[h], private[open[h].id], disk)
  PROVE  Tracks(open'[h], private'[open'[h].id], disk)
<1> DEFINE q == req[r]
           t == open[h]
           w == asked[t.id]
           p == private[t.id]
           E == [t.effect EXCEPT ![q.k] = Collapse(@, EffectOf(q))]
           V == [p EXCEPT ![q.k] = q.d]
<1>c. Core /\ RouteInv
  BY DEF Ledger
<1>0. StagesOn(t, q) /\ q.h = h
  BY <1>c, StageIs
<1>1. /\ q \in Request /\ q.kind \in Writes /\ q.k \in Key /\ t \in Tx /\ t.id \in 1..MaxSent
      /\ Applies(q, p)
      /\ open'[h].id = t.id
      /\ open'[h].effect = [t.effect EXCEPT ![q.k] = Collapse(@, EffectOf(q))]
      /\ private'[t.id] = [p EXCEPT ![q.k] = q.d]
  <2> HIDE DEF q, t
  <2>1. QED
    BY <1>0 DEF StagesOn
<1>2. p \in [Key -> Content] /\ t.effect \in [Key -> Slot] /\ w \in [Key -> Content \cup {Unset}]
  BY <1>1, TxParts DEF Ledger, Core, TypeOK
<1>3. Keeps(t, w, p)
  BY <1>1, NoneIsNone DEF Ledger, FaithfulInv, Faithful
<1>4. /\ E[q.k] = Collapse(t.effect[q.k], EffectOf(q))
      /\ \A k \in Key \ {q.k} : V[k] = p[k] /\ E[k] = t.effect[k]
  BY <1>1, <1>2
<1>5. t.effect[q.k] \in {"create", "update"} => p[q.k] # Absent
  <2> HIDE DEF q, t, w, p
  <2>1. t.effect[q.k] \in {"create", "update"} => w[q.k] \in Doc
    BY <1>1, <1>3 DEF Keeps
  <2>2. w[q.k] \in Doc => p[q.k] = w[q.k]
    BY <1>1, <1>3, ServerConstants DEF Keeps
  <2>3. QED
    BY <2>1, <2>2, ServerConstants
<1>6. t.effect[q.k] \in {"delete", "none"} => p[q.k] = Absent
  <2> HIDE DEF q, t, w, p
  <2>1. t.effect[q.k] \in {"delete", "none"} => w[q.k] = Absent
    BY <1>1, <1>3 DEF Keeps
  <2>2. w[q.k] = Absent => p[q.k] = w[q.k]
    BY <1>1, <1>3, ServerConstants DEF Keeps
  <2>3. QED
    BY <2>1, <2>2
<1>7. /\ t.effect[q.k] \in {"create", "none"} => disk[q.k] = Absent
      /\ t.effect[q.k] \in {"update", "delete"} => disk[q.k] # Absent
      /\ t.effect[q.k] = "unnamed" => (p[q.k] = Absent <=> disk[q.k] = Absent)
  BY <1>1 DEF Tracks
<1>8. t.effect[q.k] \in {"unnamed", "none", "create", "update", "delete"}
  BY <1>1, <1>2 DEF Slot
<1>9. /\ E[q.k] \in {"create", "none"} => disk[q.k] = Absent
      /\ E[q.k] \in {"update", "delete"} => disk[q.k] # Absent
      /\ E[q.k] # "unnamed"
  <2> HIDE DEF t, w, p, E, V
  <2>1. CASE q.kind = "create"
    BY <1>1, <1>4, <1>5, <1>6, <1>7, <1>8, <2>1 DEF Applies, EffectOf, Collapse
  <2>2. CASE q.kind = "make"
    BY <1>1, <1>4, <1>5, <1>6, <1>7, <1>8, <2>2 DEF Applies, EffectOf, Collapse
  <2>3. CASE q.kind = "update"
    BY <1>1, <1>4, <1>5, <1>6, <1>7, <1>8, <2>3 DEF Applies, EffectOf, Collapse
  <2>4. CASE q.kind = "delete"
    BY <1>1, <1>4, <1>5, <1>6, <1>7, <1>8, <2>4 DEF Applies, EffectOf, Collapse
  <2>5. CASE q.kind = "change"
    BY <1>1, <1>4, <1>5, <1>6, <1>7, <1>8, <2>5 DEF Applies, EffectOf, Collapse
  <2>6. QED
    BY <1>1, <2>1, <2>2, <2>3, <2>4, <2>5 DEF Writes, Puts
<1> DEFINE Right(k) == /\ E[k] \in {"create", "none"} => disk[k] = Absent
                       /\ E[k] \in {"update", "delete"} => disk[k] # Absent
                       /\ E[k] = "unnamed" => (V[k] = Absent <=> disk[k] = Absent)
<1>10. \A k \in Key : Right(k)
  <2>1. Right(q.k)
    BY <1>9
  <2>2. \A k \in Key \ {q.k} : Right(k)
    <3> HIDE DEF E, V
    <3>1. QED
      BY <1>4 DEF Tracks
  <2> HIDE DEF Right
  <2>3. QED
    BY <2>1, <2>2
<1>11. open'[h].id = t.id /\ open'[h].effect = E /\ private'[t.id] = V
  BY <1>1
<1> HIDE DEF E, V, q, t
<1>12. QED
  BY <1>10, <1>11 DEF Tracks

\* What a lone agent has open, or in a commit, is all there is.
LEMMA LoneHandle ==
  ASSUME Alone, Core, NEW r \in Req, InFlight(r), NEW h \in Handle
  PROVE  /\ h = req[r].h
         /\ \A s \in Req \ {r} : InFlight(s) => req[r].kind \in Writes /\ req[s].kind \in Writes
<1>1. \A s \in Req : InFlight(s) => req[s].h \in Handle
  BY ShapeOf, ReqParts DEF Core
<1>2. \A g \in Handle : g = h
  BY DEF Alone
<1>3. \A s \in Req : InFlight(s) => req[s].h = h
  BY <1>1, <1>2
<1>4. QED
  BY <1>3 DEF Core, ExclusiveInv, Alone

\* Steps that leave the files and the shared graph alone.
LEMMA TracksKinds ==
  ASSUME Ledger, Alone, TracksInv, NEW r \in Req, Serve(r), disk' = disk, graph' = graph
  PROVE  TracksInv'
<1>c. TypeOK /\ ShapeInv /\ IdInv /\ Core /\ ~Pipelined
  BY DEF Ledger, Core, Alone
<1>q. /\ InFlight(r) /\ req[r].h \in Handle /\ open \in [Handle -> Tx \cup {NoTx}]
      /\ private \in [1..MaxSent -> [Key -> Content]] /\ nextId \in Nat /\ nextId >= 1
  BY <1>c, Moves, ShapeOf, ReqParts DEF TypeOK, IdInv
<1>h. \A h \in Handle : h = req[r].h
  BY <1>c, <1>q, LoneHandle
<1>a. /\ \A h \in Handle : open[h] # NoTx => Tracks(open[h], private[open[h].id], disk)
      /\ \A s \in Req : Carries(s) => Tracks(req[s].tx, private[req[s].tx.id], disk)
  BY DEF TracksInv
<1>k. ASSUME \A h \in Handle : open'[h] # NoTx => Tracks(open'[h], private'[open'[h].id], disk),
             \A s \in Req : Carries(s)' => Tracks(req'[s].tx, private'[req'[s].tx.id], disk)
      PROVE  TracksInv'
  BY <1>k DEF TracksInv
<1>1. CASE Quiet /\ private' = private
  <2>1. ASSUME NEW h \in Handle, open'[h] # NoTx
        PROVE  Tracks(open'[h], private'[open'[h].id], disk)
    BY <1>1, <1>a, <2>1 DEF Quiet, OpenKept, SameTx, Tracks
  <2>2. ASSUME NEW s \in Req, Carries(s)'
        PROVE  Tracks(req'[s].tx, private'[req'[s].tx.id], disk)
    BY <1>1, <1>a, <2>2 DEF Quiet, CarryKept
  <2>3. QED
    BY <1>k, <2>1, <2>2
<1>2. CASE Land(r) /\ req[r].src # 0
  <2>1. Resolved(r) /\ req[r].pc = "land"
    BY <1>2, <1>c, ShapeOf DEF Land, At, Resolved
  <2>2. QED
    BY <1>2, <1>c, <2>1 DEF Ledger, RouteInv
<1>3. CASE Opens(r)
  <2>1. /\ open'[req[r].h] = New /\ nextId \in 1..MaxSent
        /\ \A s \in Req : Carries(s)' => Carries(s) /\ req'[s].tx = req[s].tx
        /\ \A i \in 1..MaxSent : i # nextId => private'[i] = private[i]
        /\ private'[nextId] = graph
    BY <1>3, <1>q, ServerConstants DEF Opens, CarryKept
  <2>2. Tracks(New, private'[New.id], disk)
    <3>1. New.id = nextId /\ \A k \in Key : New.effect[k] = "unnamed"
      BY <1>q, NewIs
    <3>2. QED
      BY <2>1, <3>1 DEF Tracks, TracksInv
  <2>3. ASSUME NEW h \in Handle, open'[h] # NoTx
        PROVE  Tracks(open'[h], private'[open'[h].id], disk)
    BY <1>h, <2>1, <2>2, <2>3
  <2>4. ASSUME NEW s \in Req, Carries(s)'
        PROVE  Tracks(req'[s].tx, private'[req'[s].tx.id], disk)
    <3>1. req[s].tx.id \in 1..MaxSent /\ req[s].tx.id # nextId
      BY <1>c, <2>1, <2>4, OpenId
    <3>2. QED
      BY <1>a, <2>1, <2>4, <3>1
  <2>5. QED
    BY <1>k, <2>3, <2>4
<1>4. CASE Takes(r)
  <2>1. /\ open[req[r].h] # NoTx /\ req'[r].tx = open[req[r].h]
        /\ \A h \in Handle : open'[h] # NoTx => open'[h] = open[h]
        /\ \A s \in Req \ {r} : Carries(s)' => Carries(s) /\ req'[s].tx = req[s].tx
        /\ private' = private
    BY <1>4, <1>q, NoneIsNone DEF Takes, CarryKept
  <2>2. \A h \in Handle : open'[h] # NoTx => Tracks(open'[h], private'[open'[h].id], disk)
    BY <1>a, <2>1
  <2>3. \A s \in Req : Carries(s)' => Tracks(req'[s].tx, private'[req'[s].tx.id], disk)
    BY <1>a, <1>q, <2>1
  <2>4. QED
    BY <1>k, <2>2, <2>3
<1>5. CASE Returns(r)
  <2>1. /\ open'[req[r].h] = Restage(req[r].tx) /\ private' = private
        /\ \A s \in Req : Carries(s)' => Carries(s) /\ req'[s].tx = req[s].tx
    BY <1>5, <1>q DEF Returns, CarryKept
  <2>2. Tracks(Restage(req[r].tx), private[Restage(req[r].tx).id], disk)
    <3>1. /\ req[r].tx \in Tx /\ req[r].tx.id \in 1..MaxSent /\ disk \in [Key -> Content]
          /\ Tracks(req[r].tx, private[req[r].tx.id], disk)
      BY <1>5, <1>a, <1>c, OpenId, ShapeOf DEF Returns, Carries, MidCommit, TypeOK
    <3>2. Restage(req[r].tx).id = req[r].tx.id /\ Restage(req[r].tx).effect = req[r].tx.effect
      BY <1>q, <3>1, RestageIs
    <3>3. QED
      BY <3>1, <3>2 DEF Tracks
  <2>3. \A h \in Handle : open'[h] # NoTx => Tracks(open'[h], private'[open'[h].id], disk)
    BY <1>h, <2>1, <2>2
  <2>4. \A s \in Req : Carries(s)' => Tracks(req'[s].tx, private'[req'[s].tx.id], disk)
    BY <1>a, <2>1
  <2>5. QED
    BY <1>k, <2>3, <2>4
<1>6. CASE Stage(r)
  <2> DEFINE i == open[req[r].h].id
  <2>1. open[req[r].h] # NoTx /\ (\A j \in 1..MaxSent : j # i => private'[j] = private[j])
    BY <1>6, <1>c, StageIs DEF Stage, Ledger, StagesOn
  <2>2. ASSUME NEW h \in Handle, open'[h] # NoTx
        PROVE  Tracks(open'[h], private'[open'[h].id], disk)
    BY <1>6, <1>a, <1>c, <1>h, <2>1, StageTracks
  <2>3. ASSUME NEW s \in Req, Carries(s)'
        PROVE  Tracks(req'[s].tx, private'[req'[s].tx.id], disk)
    <3>1. Carries(s) /\ req'[s].tx = req[s].tx
      BY <1>6, <1>c, <2>3 DEF Stage, Answer, Carries, InFlight, TypeOK
    <3>2. req[s].tx.id \in 1..MaxSent /\ req[s].tx.id # i
      BY <1>c, <1>q, <2>1, <3>1, OpenId DEF IdInv
    <3>3. QED
      BY <1>a, <2>1, <3>1, <3>2
  <2>4. QED
    BY <1>k, <2>2, <2>3
<1>7. QED
  BY <1>1, <1>2, <1>3, <1>4, <1>5, <1>6, <1>c, ServeKinds

\* A write that lands by itself: its agent has nothing open and no commit under way.
LEMMA TracksLand ==
  ASSUME Ledger, Alone, TracksInv, NEW r \in Req, Land(r)
  PROVE  TracksInv'
<1>c. TypeOK /\ ShapeInv /\ Core /\ RouteInv /\ ~Pipelined
  BY DEF Ledger, Core, Alone
<1>1. InFlight(r) /\ req[r].pc = "land" /\ req[r].kind \in Writes /\ Resolved(r)
  BY <1>c, ShapeOf DEF Land, At, Resolved
<1>2. req[r].src = 0 /\ open[req[r].h] = NoTx
  BY <1>c, <1>1 DEF RouteInv
<1>3. \A h \in Handle : open'[h] = NoTx
  <2>1. \A h \in Handle : open[h] = NoTx
    BY <1>c, <1>1, <1>2, LoneHandle
  <2>2. QED
    BY <2>1 DEF Land, guards
<1>4. \A s \in Req : ~Carries(s)'
  <2>1. ASSUME NEW s \in Req, Carries(s) PROVE FALSE
    <3>1. req[s].kind = "commit" /\ InFlight(s)
      BY <1>c, <2>1, ShapeOf DEF Carries, MidCommit
    <3>2. s # r
      BY <1>1, <2>1 DEF Carries
    <3>3. open \in [Handle -> Tx \cup {NoTx}] /\ req[r].h \in Handle
      BY <1>c, <1>1, ShapeOf, ReqParts DEF TypeOK
    <3>4. QED
      BY <1>c, <1>1, <3>1, <3>2, <3>3, LoneHandle DEF Writes, Puts
  <2>2. \A s \in Req : Carries(s)' => Carries(s)
    BY <1>c DEF Land, Answer, Carries, InFlight, TypeOK
  <2>3. QED
    BY <2>1, <2>2
<1>5. \A k \in Key : graph'[k] = Absent <=> disk'[k] = Absent
  <2>1. graph \in [Key -> Content] /\ disk \in [Key -> Content]
    BY <1>c DEF TypeOK
  <2>2. CASE /\ disk' = [disk EXCEPT ![req[r].k] = req[r].d]
             /\ graph' = [graph EXCEPT ![req[r].k] = req[r].d]
    BY <2>1, <2>2 DEF TracksInv
  <2>3. CASE disk' = disk /\ graph' = graph
    BY <2>3 DEF TracksInv
  <2>4. QED
    BY <1>2, <2>2, <2>3 DEF Land, Mutate
<1>6. QED
  BY <1>3, <1>4, <1>5 DEF TracksInv

\* A commit lands: what it says of each key becomes true of the file and the graph.
LEMMA TracksCommit ==
  ASSUME Ledger, TakenInv, Alone, TracksInv, NEW r \in Req, CommitLand(r)
  PROVE  TracksInv'
<1> DEFINE t == req[r].tx
           w == asked[t.id]
           p == private[t.id]
<1>c. TypeOK /\ ShapeInv /\ IdInv /\ Core /\ ~Pipelined /\ ReqOK
  BY DEF Ledger, Core, Alone, TypeOK, ReqOK
<1>1. InFlight(r) /\ req[r].pc = "taken" /\ Carries(r) /\ req[r].kind = "commit" /\ t \in Tx
  BY <1>c, ShapeOf DEF CommitLand, At, Carries, MidCommit
<1>2. \A h \in Handle : open'[h] = NoTx
  <2>1. open[req[r].h] = NoTx
    BY <1>c, <1>1 DEF TakenInv
  <2>2. \A h \in Handle : open[h] = NoTx
    BY <1>c, <1>1, <2>1, LoneHandle
  <2>3. QED
    BY <2>2 DEF CommitLand, guards
<1>3. \A s \in Req : ~Carries(s)'
  <2>1. Others(r) /\ req'[r].pc = "landed"
    <3>1. "landed" \in ReqPC
      BY DEF ReqPC
    <3>2. QED
      BY <1>1, <1>c, <3>1, GoesReq DEF CommitLand, Moved
  <2>2. ASSUME NEW s \in Req, s # r, Carries(s) PROVE FALSE
    <3>1. req[r].h \in Handle
      BY <1>c, <1>1, ShapeOf, ReqParts
    <3>2. QED
      BY <1>c, <1>1, <2>2, <3>1, LoneHandle DEF Carries, Writes, Puts
  <2>3. QED
    BY <2>1, <2>2 DEF Others, Carries, InFlight
<1>4. Keeps(t, w, p) /\ Tracks(t, p, disk)
  BY <1>c, <1>1 DEF Ledger, FaithfulInv, Faithful, TracksInv
<1>5. /\ t.effect \in [Key -> Slot] /\ t.pending \in [Key -> Content \cup {Unset}]
      /\ p \in [Key -> Content]
  BY <1>c, <1>1, OpenId, TxParts DEF TypeOK
<1>6. ASSUME NEW k \in Key PROVE graph'[k] = Absent <=> disk'[k] = Absent
  <2>1. /\ disk'[k] = IF t.pending[k] = Unset THEN disk[k] ELSE t.pending[k]
        /\ t.effect[k] = "delete" => graph'[k] = Absent
        /\ t.effect[k] \in {"create", "update"} => graph'[k] = Export(p, k)
        /\ t.effect[k] \in {"unnamed", "none"} => graph'[k] = graph[k]
    BY DEF CommitLand
  <2>2. t.effect[k] \in {"unnamed", "none", "create", "update", "delete"}
    BY <1>5 DEF Slot
  <2>3. Export(p, k) \in Doc
    BY <1>5, ExportType
  <2>4. graph[k] = Absent <=> disk[k] = Absent
    BY DEF TracksInv
  <2> HIDE DEF t, w, p
  <2>5. Unset # Absent /\ Absent \notin Doc /\ \A d \in Doc : Rendered[d] \in Doc /\ d # Unset
    BY ServerConstants
  <2>6. CASE t.effect[k] = "delete"
    <3>1. t.pending[k] = Absent
      BY <1>4, <2>6 DEF Keeps
    <3>2. QED
      BY <2>1, <2>5, <2>6, <3>1
  <2>7. CASE t.effect[k] \in {"create", "update"}
    <3>1. t.pending[k] \in Doc
      BY <1>4, <2>5, <2>7 DEF Keeps
    <3>2. QED
      BY <2>1, <2>3, <2>5, <2>7, <3>1
  <2>8. CASE t.effect[k] = "none"
    <3>1. t.pending[k] \in {Absent, Unset} /\ disk[k] = Absent
      BY <1>4, <2>8 DEF Keeps, Tracks
    <3>2. QED
      BY <2>1, <2>4, <2>8, <3>1
  <2>9. CASE t.effect[k] = "unnamed"
    <3>1. t.pending[k] = Unset
      BY <1>4, <2>9 DEF Keeps
    <3>2. QED
      BY <2>1, <2>4, <2>9, <3>1
  <2>10. QED
    BY <2>2, <2>6, <2>7, <2>8, <2>9
<1>7. QED
  BY <1>2, <1>3, <1>6 DEF TracksInv

\* The watcher and a start read the file; nothing else touches what is tracked.
LEMMA TracksRest ==
  ASSUME Core, Alone, TracksInv, Environment \/ Daemon
  PROVE  TracksInv'
<1>c. TypeOK
  BY DEF Core
<1>q. Quiet /\ private' = private
  BY <1>c, RestQuiet
<1>1. disk' = disk
  <2>1. \A k \in Key, d \in Content : ~Outside(k, d)
    BY <1>c, ServerConstants DEF Alone, Outside, TypeOK
  <2>2. QED
    BY <2>1 DEF Environment, Daemon, Send, Watch, GrowIdle, Expire, Reap, Drain, Stop, Start
<1>2. \A k \in Key : graph'[k] = graph[k] \/ graph'[k] = disk[k]
  <2>1. graph \in [Key -> Content]
    BY <1>c DEF TypeOK
  <2>2. QED
    BY <2>1 DEF Environment, Daemon, Send, Watch, Outside, GrowIdle, Expire, Reap, Drain, Stop, Start
<1>3. \A k \in Key : graph'[k] = Absent <=> disk'[k] = Absent
  BY <1>1, <1>2 DEF TracksInv
<1>4. ASSUME NEW h \in Handle, open'[h] # NoTx
      PROVE  Tracks(open'[h], private'[open'[h].id], disk')
  BY <1>q, <1>1, <1>4 DEF Quiet, OpenKept, SameTx, Tracks, TracksInv
<1>5. ASSUME NEW s \in Req, Carries(s)'
      PROVE  Tracks(req'[s].tx, private'[req'[s].tx.id], disk')
  BY <1>q, <1>1, <1>5 DEF Quiet, CarryKept, TracksInv
<1>6. QED
  BY <1>3, <1>4, <1>5 DEF TracksInv

LEMMA TracksStep == Alone /\ Ledger /\ TakenInv /\ TracksInv /\ [Next]_serverVars => TracksInv'
<1> SUFFICES ASSUME Alone, Ledger, TakenInv, TracksInv, [Next]_serverVars PROVE TracksInv'
  OBVIOUS
<1>c. Core /\ RouteInv /\ ~Pipelined
  BY DEF Ledger, Alone
<1>1. ASSUME NEW r \in Req, Serve(r) PROVE TracksInv'
  <2>1. CASE Land(r)
    BY <2>1, TracksLand
  <2>2. CASE CommitLand(r)
    BY <2>2, TracksCommit
  <2>3. CASE ~Land(r) /\ ~CommitLand(r)
    <3>1. CASE Stage(r)
      <4>1. disk' = disk /\ graph' = graph
        BY <1>c, <3>1, StageIs DEF StagesOn
      <4>2. QED
        BY <1>1, <4>1, TracksKinds
    <3>2. CASE ~Stage(r)
      <4>1. disk' = disk /\ graph' = graph
        BY <1>1, <2>3, <3>2 DEF Serve, Resolve, LockGraph, RejectWrite, WriteOutside, BeginCheck,
          AlreadyOpen, Begin, CommitTake, CommitRefused, Finish, Reopen, Abort
      <4>2. QED
        BY <1>1, <4>1, TracksKinds
    <3>3. QED
      BY <3>1, <3>2
  <2>4. QED
    BY <2>1, <2>2, <2>3
<1>2. CASE Environment \/ Daemon
  BY <1>c, <1>2, TracksRest
<1>3. CASE UNCHANGED serverVars
  BY <1>3 DEF serverVars, guards, counters, history, TracksInv, Tracks, Carries, InFlight
<1>4. QED
  BY <1>1, <1>2, <1>3 DEF Next, Finished

\* Of a lone agent, with no other program that writes: the words the journal gets for
\* a commit are what the commit did to the store, whatever the agent wrote and took
\* back before it, and after restarts and retries.  With other writers it is not so:
\* of a file that the transaction's graph does not have, a change set says "create",
\* and the commit replaces it.
THEOREM EffectsAreNet ==
  ASSUME Alone
  PROVE  Spec => NetEffects
<1> DEFINE Net == \A r \in Req : Lands(r) =>
             \A k \in Key :
               LET effect == req[r].tx.effect[k] IN
               /\ effect = "create" <=> disk[k] = Absent /\ disk'[k] # Absent
               /\ effect = "delete" <=> disk[k] # Absent /\ disk'[k] = Absent
               /\ effect = "none" => disk[k] = Absent
           Inv == Ledger /\ TakenInv /\ TracksInv
<1>1. Init => Inv
  <2> SUFFICES ASSUME Init PROVE Inv
    OBVIOUS
  <2>1. \A r \in Req : ~Carries(r)
    BY DEF Init, Carries, InFlight
  <2>2. \A h \in Handle : open[h] = NoTx
    BY DEF Init
  <2>3. TakenInv /\ TracksInv
    BY <2>1, <2>2 DEF TakenInv, TracksInv, Init
  <2>4. QED
    BY <2>3, LedgerInit
<1>2. Inv /\ [Next]_serverVars => Inv'
  <2>1. Ledger /\ [Next]_serverVars => Ledger'
    BY LedgerStep
  <2>2. Ledger /\ TakenInv /\ [Next]_serverVars => TakenInv'
    BY TakenStep DEF Ledger
  <2>3. QED
    BY <2>1, <2>2, TracksStep
<1>3. Inv /\ [Next]_serverVars => [Net]_serverVars
  <2> SUFFICES ASSUME Inv, Next, NEW r \in Req, Lands(r), NEW k \in Key
               PROVE  LET effect == req[r].tx.effect[k] IN
                      /\ effect = "create" <=> disk[k] = Absent /\ disk'[k] # Absent
                      /\ effect = "delete" <=> disk[k] # Absent /\ disk'[k] = Absent
                      /\ effect = "none" => disk[k] = Absent
    OBVIOUS
  <2> DEFINE t == req[r].tx
             w == asked[t.id]
             p == private[t.id]
  <2>1. CommitLand(r)
    BY LandsIs DEF Ledger
  <2>2. Carries(r) /\ Keeps(t, w, p) /\ Tracks(t, p, disk)
    BY <2>1 DEF CommitLand, At, Carries, Ledger, FaithfulInv, Faithful, TracksInv, Alone
  <2>3. t.effect[k] \in {"unnamed", "none", "create", "update", "delete"}
    <3>1. t \in Tx
      BY <2>2, ShapeOf DEF Carries, MidCommit, Ledger, Core
    <3>2. QED
      BY <3>1, TxParts DEF Slot
  <2>4. disk'[k] = IF t.pending[k] = Unset THEN disk[k] ELSE t.pending[k]
    BY <2>1 DEF CommitLand
  <2> HIDE DEF t, w, p
  <2>5. Unset # Absent /\ Absent \notin Doc /\ \A d \in Doc : Rendered[d] \in Doc /\ d # Unset
    BY ServerConstants
  <2>6. /\ t.effect[k] = "delete" => disk[k] # Absent /\ t.pending[k] = Absent
        /\ t.effect[k] \in {"create", "update"} => t.pending[k] \in Doc
        /\ t.effect[k] = "create" => disk[k] = Absent
        /\ t.effect[k] = "update" => disk[k] # Absent
        /\ t.effect[k] = "none" => disk[k] = Absent /\ t.pending[k] \in {Absent, Unset}
        /\ t.effect[k] = "unnamed" => t.pending[k] = Unset
    BY <2>2, <2>5 DEF Keeps, Tracks
  <2>7. /\ t.effect[k] = "create" <=> disk[k] = Absent /\ disk'[k] # Absent
        /\ t.effect[k] = "delete" <=> disk[k] # Absent /\ disk'[k] = Absent
        /\ t.effect[k] = "none" => disk[k] = Absent
    BY <2>3, <2>4, <2>5, <2>6
  <2>8. QED
    BY <2>7 DEF t
<1>4. QED
  BY <1>1, <1>2, <1>3, PTL DEF Spec, NetEffects
=============================================================================
