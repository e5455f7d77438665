--------------------------- MODULE Review_proofs ---------------------------
(***************************************************************************)
(* Theorems about the historical review.  They are proved for any store    *)
(* that only grows while reviews walk over it, so that they hold of Review *)
(* alone and of a review among the other handlers of the service.          *)
(***************************************************************************)
EXTENDS Review, Impact_proofs

-----------------------------------------------------------------------------
(* The store at one moment, K, of which Known is the present one.          *)

Backed(K, e) ==
  /\ e.attestation \in DOMAIN K.attestations
  /\ K.attestations[e.attestation].artifact = e.artifact

StoreOK(K) ==
  /\ K.artifacts \subseteq Artifact
  /\ K.attestations \in Seq(AttestationRow)
  /\ K.dependencies \in Seq(DependencyRow)
  /\ K.timeEvidence \subseteq TimeEvidenceRow /\ IsFiniteSet(K.timeEvidence)
  /\ \A i \in DOMAIN K.attestations : K.attestations[i].artifact \in K.artifacts
  /\ \A i \in DOMAIN K.dependencies : Backed(K, K.dependencies[i])

Grows(K, L) ==
  /\ K.artifacts \subseteq L.artifacts
  /\ Kept(K.attestations, L.attestations) /\ Kept(K.dependencies, L.dependencies)
  /\ K.timeEvidence \subseteq L.timeEvidence

LEMMA GrowsOn ==
  ASSUME NEW K, NEW L, NEW M, Grows(K, L), Grows(L, M)
  PROVE  Grows(K, M)
  BY DEF Grows, Kept

LEMMA GrowsNone == ASSUME NEW K PROVE Grows(K, K)
  BY DEF Grows, Kept

Links(K) == LinksOf(K.dependencies, K.artifacts)

LEMMA LinkParts ==
  ASSUME NEW e
  PROVE  /\ LinkOf(e).owner = e.artifact /\ LinkOf(e).attestation = e.attestation
         /\ LinkOf(e).target = [name |-> e.name, sha |-> e.sha]
  BY DEF LinkOf, Link

\* A link there is comes from a row, between registered artifacts, and is the
\* word of an attestation of its owner.
LEMMA LinkMeans ==
  ASSUME NEW K, StoreOK(K), NEW l \in Links(K)
  PROVE  /\ l.owner \in K.artifacts /\ l.target \in K.artifacts
         /\ \E i \in DOMAIN K.dependencies : l = LinkOf(K.dependencies[i])
         /\ l.attestation \in DOMAIN K.attestations
         /\ K.attestations[l.attestation].artifact = l.owner
<1>1. PICK i \in DOMAIN K.dependencies : l = LinkOf(K.dependencies[i])
  BY DEF Links, LinksOf
<1>2. l.owner \in K.artifacts /\ l.target \in K.artifacts
  BY DEF Links, LinksOf
<1>3. Backed(K, K.dependencies[i])
  BY DEF StoreOK
<1> QED  BY <1>1, <1>2, <1>3, LinkParts DEF Backed

LEMMA LinkOfRow ==
  ASSUME NEW K, StoreOK(K), NEW i \in DOMAIN K.dependencies, LinkOf(K.dependencies[i]).target \in K.artifacts
  PROVE  /\ LinkOf(K.dependencies[i]) \in Links(K)
         /\ LinkOf(K.dependencies[i]).owner \in K.artifacts
<1>1. Backed(K, K.dependencies[i])
  BY DEF StoreOK
<1>2. K.dependencies[i].artifact \in K.artifacts
  BY <1>1 DEF StoreOK, Backed
<1>3. LinkOf(K.dependencies[i]).owner \in K.artifacts
  BY <1>2, LinkParts
<1> QED  BY <1>3 DEF Links, LinksOf

LEMMA LinksGrow ==
  ASSUME NEW K, NEW L, Grows(K, L)
  PROVE  Links(K) \subseteq Links(L)
<1> SUFFICES ASSUME NEW l \in Links(K) PROVE l \in Links(L)
  OBVIOUS
<1>1. PICK i \in DOMAIN K.dependencies : l = LinkOf(K.dependencies[i])
  BY DEF Links, LinksOf
<1>2. {l.owner, l.target} \subseteq L.artifacts
  BY DEF Links, LinksOf, Grows
<1>3. i \in DOMAIN L.dependencies /\ l = LinkOf(L.dependencies[i])
  BY <1>1 DEF Grows, Kept
<1> QED  BY <1>2, <1>3 DEF Links, LinksOf

-----------------------------------------------------------------------------
(* What an attestation row says, by itself and by evidence ev.             *)

Sig(cfg, K, i) == VerifyEnvelope(K.attestations[i].envelope, KnownKeys(cfg))

Times(cfg, K, i, ev) ==
  {t.time : t \in {u \in ev : u.envelope = K.attestations[i].envelope /\ u.tsa \in cfg.tsas}}

ClassBy(cfg, K, i, ev) == Classify(cfg.feed, Sig(cfg, K, i).acceptedKey, Times(cfg, K, i, ev))

IsAnchored(cfg, K, i) == Sig(cfg, K, i).acceptedKey \in DOMAIN cfg.anchors

LEMMA PresentMeans ==
  /\ \A i : ValidSignature(i) <=> Sig(config, Known, i).valid
  /\ \A i : Anchored(i) <=> IsAnchored(config, Known, i)
  /\ \A i, ev : ClassOf(i, ev) = ClassBy(config, Known, i, ev)
  BY DEF ValidSignature, Anchored, ClassOf, TrustedTimes, Known, Sig, Times, ClassBy, IsAnchored

LEMMA RowStays ==
  ASSUME NEW cfg, NEW K, NEW L, Grows(K, L), NEW i \in DOMAIN K.attestations
  PROVE  /\ i \in DOMAIN L.attestations
         /\ L.attestations[i] = K.attestations[i]
         /\ Sig(cfg, L, i) = Sig(cfg, K, i)
         /\ IsAnchored(cfg, L, i) <=> IsAnchored(cfg, K, i)
         /\ \A ev : ClassBy(cfg, L, i, ev) = ClassBy(cfg, K, i, ev)
<1>1. i \in DOMAIN L.attestations /\ L.attestations[i] = K.attestations[i]
  BY DEF Grows, Kept
<1> QED  BY <1>1 DEF Sig, IsAnchored, ClassBy, Times

LEMMA FiniteTimes ==
  ASSUME NEW cfg, NEW K, NEW i, NEW later, later \subseteq TimeEvidenceRow, IsFiniteSet(later)
  PROVE  /\ Times(cfg, K, i, later) \subseteq Int /\ IsFiniteSet(Times(cfg, K, i, later))
         /\ \A ev \in SUBSET later : Times(cfg, K, i, ev) \subseteq Times(cfg, K, i, later)
<1> DEFINE mine == {u \in later : u.envelope = K.attestations[i].envelope /\ u.tsa \in cfg.tsas}
<1>1. IsFiniteSet(mine)
  BY FS_Subset
<1>2. Times(cfg, K, i, later) = {t.time : t \in mine}
  BY DEF Times
<1>3. IsFiniteSet({t.time : t \in mine})
  <2> DEFINE T == {t.time : t \in mine}
             f == [t \in mine |-> t.time]
  <2>1. f \in Surjection(mine, T)
    BY DEF Surjection
  <2> HIDE DEF f, T
  <2>2. IsFiniteSet(T)
    BY <1>1, <2>1, FS_Surjection
  <2> QED  BY <2>2 DEF T
<1>4. Times(cfg, K, i, later) \subseteq Int
  BY DEF Times, TimeEvidenceRow
<1>5. \A ev \in SUBSET later : Times(cfg, K, i, ev) \subseteq Times(cfg, K, i, later)
  BY DEF Times
<1> QED  BY <1>2, <1>3, <1>4, <1>5

LEMMA MoreEvidence ==
  ASSUME NEW cfg, IsConfig(cfg), NEW K, NEW i, NEW ev, NEW later,
         ev \subseteq later, later \subseteq TimeEvidenceRow, IsFiniteSet(later)
  PROVE  /\ ClassBy(cfg, K, i, ev) = "unaffected" => ClassBy(cfg, K, i, later) = "unaffected"
         /\ ClassBy(cfg, K, i, later) = "insufficient" => ClassBy(cfg, K, i, ev) = "insufficient"
         /\ ClassBy(cfg, K, i, ev) \in Classes /\ ClassBy(cfg, K, i, later) \in Classes
<1>1. /\ IsFiniteSet(Times(cfg, K, i, later)) /\ Times(cfg, K, i, later) \subseteq Int
      /\ Times(cfg, K, i, ev) \subseteq Times(cfg, K, i, later)
  BY FiniteTimes
<1>2. cfg.feed # NoFeed => IsFeed(cfg.feed)
  BY DEF IsConfig
<1> QED  BY <1>1, <1>2, ClassifyMonotone, ClassifyType DEF ClassBy

\* What a class found in between says about the beginning and the end.
LEMMA ClassBetween ==
  ASSUME NEW cfg, IsConfig(cfg), NEW K, NEW i, NEW early, NEW ev, NEW late,
         early \subseteq ev, ev \subseteq late, late \subseteq TimeEvidenceRow, IsFiniteSet(late)
  PROVE  /\ ClassBy(cfg, K, i, early) = "affected" /\ ClassBy(cfg, K, i, late) = "affected" =>
              ClassBy(cfg, K, i, ev) = "affected"
         /\ ClassBy(cfg, K, i, ev) = "unaffected" => ClassBy(cfg, K, i, late) = "unaffected"
<1>1. ev \subseteq TimeEvidenceRow /\ IsFiniteSet(ev)
  BY FS_Subset
<1>2. /\ ClassBy(cfg, K, i, ev) = "unaffected" => ClassBy(cfg, K, i, late) = "unaffected"
      /\ ClassBy(cfg, K, i, late) = "insufficient" => ClassBy(cfg, K, i, ev) = "insufficient"
      /\ ClassBy(cfg, K, i, ev) \in Classes /\ ClassBy(cfg, K, i, late) \in Classes
  BY MoreEvidence
<1>3. /\ ClassBy(cfg, K, i, early) = "unaffected" => ClassBy(cfg, K, i, ev) = "unaffected"
      /\ ClassBy(cfg, K, i, ev) = "insufficient" => ClassBy(cfg, K, i, early) = "insufficient"
      /\ ClassBy(cfg, K, i, early) \in Classes
  BY <1>1, MoreEvidence
<1> QED  BY <1>2, <1>3 DEF Classes

-----------------------------------------------------------------------------
(* What holds of a review v at any time: the inductive invariant.          *)

IsReview(v) ==
  v = [pc |-> v.pc, root |-> v.root, queue |-> v.queue, order |-> v.order, edges |-> v.edges,
       owned |-> v.owned, next |-> v.next, atts |-> v.atts, judged |-> v.judged,
       affected |-> v.affected, began |-> v.began]

Visited(v) == Reviewed(v) \cup Waiting(v)

Current(v) == v.order[Len(v.order)]

Walking == {"up", "resolve", "down"}
Judging == {"propagate", "persist"}

\* Types, and what each phase has done and not yet begun.
Shape(K, v) ==
  /\ v.pc \in Walking \cup {"classify"} \cup Judging
  /\ StoreOK(v.began) /\ Grows(v.began, K)
  /\ v.root \in v.began.artifacts
  /\ v.order \in Seq(K.artifacts) /\ v.queue \in Seq(K.artifacts)
  /\ v.edges \subseteq DOMAIN K.dependencies
  /\ v.atts \subseteq DOMAIN K.attestations
  /\ v.next \in 0..Len(v.order)

InPhase(v) ==
  /\ v.pc = "up" => v.queue # <<>>
  /\ v.pc # "up" => v.order # <<>>
  /\ v.pc \notin {"resolve", "down"} => v.edges = {}
  /\ v.pc \in Walking => v.next = 0 /\ v.judged = {}
  /\ v.pc \notin Judging => v.affected = {}
  /\ v.pc \notin Walking => v.queue = <<>>
  /\ v.pc # "classify" => v.atts = {}
  /\ v.pc = "persist" => v.next < Len(v.order)

\* Nothing is visited twice.
VisitedOnce(v) ==
  /\ \A i, j \in DOMAIN v.order : v.order[i] = v.order[j] => i = j
  /\ \A i, j \in DOMAIN v.queue : v.queue[i] = v.queue[j] => i = j
  /\ Reviewed(v) \cap Waiting(v) = {}

\* What is visited is linked to the root, and what is kept are links.
Walk(K, v) ==
  /\ v.root \in Visited(v)
  /\ Visited(v) \subseteq Connected(v.root, Links(K), K.artifacts)
  /\ v.owned \subseteq Links(K)
  /\ \A l \in v.owned : l.owner \in Visited(v) /\ l.target \in Visited(v)
  /\ v.pc = "resolve" => \A i \in v.edges : LinkOf(K.dependencies[i]).owner = Current(v)
  /\ v.pc = "down" =>
       /\ v.edges # {}
       /\ \A i \in v.edges : LinkOf(K.dependencies[i]).target = Current(v)

\* Of the links there were when the review began, those of the artifacts
\* expanded are kept, but for the edges of the last that are still to come.
ExploredUp(v) ==
  \A k \in DOMAIN v.order, i \in DOMAIN v.began.dependencies :
    LET l == LinkOf(v.began.dependencies[i])
    IN  /\ l \in Links(v.began) /\ l.owner = v.order[k]
        /\ ~ (v.pc = "resolve" /\ k = Len(v.order) /\ i \in v.edges)
        => l \in v.owned /\ l.target \in Visited(v)

\* Their owners are visited, likewise, provided that no lookup fails.
ToCome(K, v, owner) ==
  \/ v.pc = "resolve"
  \/ v.pc = "down" /\ \E j \in v.edges : LinkOf(K.dependencies[j]).owner = owner

ExploredDown(K, v) ==
  \A k \in DOMAIN v.order, l \in Links(v.began) :
    /\ ~ LookupsFail
    /\ l.target = v.order[k]
    /\ ~ (k = Len(v.order) /\ ToCome(K, v, l.owner))
    => l.owner \in Visited(v)

\* A judgement is right, by the evidence of some moment since the review began.
RightlyJudged(cfg, K, v, j) ==
  /\ j \in [artifact : K.artifacts, attestation : DOMAIN K.attestations,
            anchored : BOOLEAN, class : Classes]
  /\ j.artifact = K.attestations[j.attestation].artifact
  /\ Sig(cfg, K, j.attestation).valid
  /\ j.anchored <=> IsAnchored(cfg, K, j.attestation)
  /\ \E ev : /\ v.began.timeEvidence \subseteq ev /\ ev \subseteq K.timeEvidence
             /\ j.class = ClassBy(cfg, K, j.attestation, ev)

\* And whatever was there to be judged when the review began has been judged,
\* of all artifacts looked at so far.
AllJudged(cfg, v) ==
  \A k \in DOMAIN v.order, i \in DOMAIN v.began.attestations :
    /\ v.pc \in Judging \/ k <= v.next
    /\ v.began.attestations[i].artifact = v.order[k]
    /\ Sig(cfg, v.began, i).valid
    => i \in v.atts \/ \E j \in v.judged : j.attestation = i

Judged(cfg, K, v) ==
  /\ \A j \in v.judged : RightlyJudged(cfg, K, v, j)
  /\ AllJudged(cfg, v)

\* Whatever is marked is tainted by somebody guilty.
TrustedLinks(cfg, K) ==
  {l \in Links(K) : Sig(cfg, K, l.attestation).valid /\ IsAnchored(cfg, K, l.attestation)}

GuiltyBetween(cfg, K, began, i) ==
  \E held \in SUBSET K.timeEvidence :
    began.timeEvidence \subseteq held /\ ClassBy(cfg, K, i, held) = "affected"

GuiltyRows(cfg, K, began) ==
  {i \in DOMAIN K.attestations : Sig(cfg, K, i).valid /\ GuiltyBetween(cfg, K, began, i)}

Guilty(cfg, K, began) == {K.attestations[i].artifact : i \in GuiltyRows(cfg, K, began)}

Spread(cfg, K, v) ==
  /\ v.affected \subseteq Reviewed(v)
  /\ \A a \in v.affected : \E j \in v.judged : j.artifact = a
  /\ v.affected \subseteq Tainted(Guilty(cfg, K, v.began), TrustedLinks(cfg, K), K.artifacts)
  /\ v.pc \in Judging => \A j \in v.judged :
       j.class = "affected" /\ j.artifact \in Reviewed(v) => j.artifact \in v.affected
  /\ v.pc = "persist" => \A l \in v.owned : ~ Taints(v, l)

ReviewOK(cfg, K, v) ==
  /\ IsReview(v) /\ Shape(K, v) /\ InPhase(v) /\ VisitedOnce(v)
  /\ Walk(K, v) /\ ExploredUp(v) /\ ExploredDown(K, v)
  /\ Judged(cfg, K, v) /\ Spread(cfg, K, v)

-----------------------------------------------------------------------------
(* Whatever the others store, a review stays right.                        *)

LEMMA GuiltyGrow ==
  ASSUME NEW cfg, IsConfig(cfg), NEW K, NEW L, StoreOK(K), StoreOK(L), Grows(K, L),
         NEW began
  PROVE  /\ Guilty(cfg, K, began) \subseteq Guilty(cfg, L, began)
         /\ Guilty(cfg, K, began) \subseteq K.artifacts
<1>1. Guilty(cfg, K, began) \subseteq K.artifacts
  BY DEF Guilty, GuiltyRows, StoreOK
<1>2. ASSUME NEW i \in GuiltyRows(cfg, K, began)
      PROVE  i \in GuiltyRows(cfg, L, began) /\ L.attestations[i] = K.attestations[i]
  <2>1. i \in DOMAIN K.attestations
    BY DEF GuiltyRows
  <2>2. /\ i \in DOMAIN L.attestations /\ L.attestations[i] = K.attestations[i]
        /\ Sig(cfg, L, i) = Sig(cfg, K, i)
        /\ \A ev : ClassBy(cfg, L, i, ev) = ClassBy(cfg, K, i, ev)
    BY <2>1, RowStays
  <2>3. GuiltyBetween(cfg, L, began, i)
    <3>1. K.timeEvidence \subseteq L.timeEvidence
      BY DEF Grows
    <3>2. GuiltyBetween(cfg, K, began, i)
      BY DEF GuiltyRows
    <3> QED  BY <2>2, <3>1, <3>2 DEF GuiltyBetween
  <2> QED  BY <2>2, <2>3 DEF GuiltyRows
<1>3. ASSUME NEW a \in Guilty(cfg, K, began) PROVE a \in Guilty(cfg, L, began)
  <2>1. PICK i \in GuiltyRows(cfg, K, began) : a = K.attestations[i].artifact
    BY DEF Guilty
  <2> QED  BY <1>2, <2>1 DEF Guilty
<1> QED  BY <1>1, <1>3

LEMMA TrustedLinksGrow ==
  ASSUME NEW cfg, NEW K, NEW L, StoreOK(K), Grows(K, L)
  PROVE  TrustedLinks(cfg, K) \subseteq TrustedLinks(cfg, L)
<1> SUFFICES ASSUME NEW l \in TrustedLinks(cfg, K) PROVE l \in TrustedLinks(cfg, L)
  OBVIOUS
<1>1. l \in Links(K) /\ Sig(cfg, K, l.attestation).valid /\ IsAnchored(cfg, K, l.attestation)
  BY DEF TrustedLinks
<1>2. l.attestation \in DOMAIN K.attestations
  BY <1>1, LinkMeans
<1>3. l \in Links(L)
  BY <1>1, LinksGrow
<1> QED  BY <1>1, <1>2, <1>3, RowStays DEF TrustedLinks

LEMMA ReviewStaysOK ==
  ASSUME NEW cfg, IsConfig(cfg), NEW K, NEW L, StoreOK(K), StoreOK(L), Grows(K, L),
         NEW v, ReviewOK(cfg, K, v)
  PROVE  ReviewOK(cfg, L, v)
<1>1. Shape(L, v)
  <2>1. Grows(v.began, L)
    BY GrowsOn DEF ReviewOK, Shape
  <2>2. K.artifacts \subseteq L.artifacts
    BY DEF Grows
  <2>3. v.order \in Seq(L.artifacts) /\ v.queue \in Seq(L.artifacts)
    BY <2>2 DEF ReviewOK, Shape
  <2>4. v.edges \subseteq DOMAIN L.dependencies /\ v.atts \subseteq DOMAIN L.attestations
    BY DEF ReviewOK, Shape, Grows, Kept
  <2> QED  BY <2>1, <2>3, <2>4 DEF ReviewOK, Shape
<1>2. \A i \in v.edges : L.dependencies[i] = K.dependencies[i]
  BY DEF ReviewOK, Shape, Grows, Kept
<1>3. Walk(L, v)
  <2>1. v.root \in K.artifacts
    BY DEF ReviewOK, Shape, Grows
  <2>2. Connected(v.root, Links(K), K.artifacts) \subseteq Connected(v.root, Links(L), L.artifacts)
    BY <2>1, LinksGrow, ConnectedGrows DEF Grows
  <2>3. v.owned \subseteq Links(L)
    BY LinksGrow DEF ReviewOK, Walk
  <2>4. v.root \in Visited(v) /\ Visited(v) \subseteq Connected(v.root, Links(K), K.artifacts)
    BY DEF ReviewOK, Walk
  <2> QED  BY <1>2, <2>2, <2>3, <2>4 DEF ReviewOK, Walk
<1>4. ExploredDown(L, v)
  BY <1>2 DEF ReviewOK, ExploredDown, ToCome
<1>5. ASSUME NEW j \in v.judged PROVE RightlyJudged(cfg, L, v, j)
  <2>1. RightlyJudged(cfg, K, v, j)
    BY DEF ReviewOK, Judged
  <2>2. j.attestation \in DOMAIN K.attestations
    BY <2>1 DEF RightlyJudged
  <2>3. /\ j.attestation \in DOMAIN L.attestations
        /\ L.attestations[j.attestation] = K.attestations[j.attestation]
        /\ Sig(cfg, L, j.attestation) = Sig(cfg, K, j.attestation)
        /\ IsAnchored(cfg, L, j.attestation) <=> IsAnchored(cfg, K, j.attestation)
        /\ \A ev : ClassBy(cfg, L, j.attestation, ev) = ClassBy(cfg, K, j.attestation, ev)
    BY <2>2, RowStays
  <2>4. j \in [artifact : L.artifacts, attestation : DOMAIN L.attestations,
               anchored : BOOLEAN, class : Classes]
    <3>1. j.artifact \in L.artifacts /\ j.attestation \in DOMAIN L.attestations
      BY <2>1, <2>3 DEF RightlyJudged, Grows
    <3> QED  BY <2>1, <3>1 DEF RightlyJudged
  <2>5. PICK ev : /\ v.began.timeEvidence \subseteq ev /\ ev \subseteq K.timeEvidence
                  /\ j.class = ClassBy(cfg, K, j.attestation, ev)
    BY <2>1 DEF RightlyJudged
  <2>6. ev \subseteq L.timeEvidence
    BY <2>5 DEF Grows
  <2> QED  BY <2>1, <2>3, <2>4, <2>5, <2>6 DEF RightlyJudged
<1>6. Judged(cfg, L, v)
  BY <1>5 DEF ReviewOK, Judged
<1>7. Spread(cfg, L, v)
  <2>1. Tainted(Guilty(cfg, K, v.began), TrustedLinks(cfg, K), K.artifacts)
          \subseteq Tainted(Guilty(cfg, L, v.began), TrustedLinks(cfg, L), L.artifacts)
    BY GuiltyGrow, TrustedLinksGrow, TaintedGrows DEF Grows
  <2> QED  BY <2>1 DEF ReviewOK, Spread
<1> QED  BY <1>1, <1>3, <1>4, <1>6, <1>7 DEF ReviewOK

-----------------------------------------------------------------------------
(* The queue.                                                              *)

\* The head of the queue moves to the end of order.
HeadMoves(v, u) == u.queue = Tail(v.queue) /\ u.order = Append(v.order, Head(v.queue))

LEMMA Expands ==
  ASSUME NEW S, NEW v, NEW u, v.order \in Seq(S), v.queue \in Seq(S), v.queue # <<>>, VisitedOnce(v),
         HeadMoves(v, u)
  PROVE  /\ Head(v.queue) \in S /\ Head(v.queue) \in Waiting(v)
         /\ u.order \in Seq(S) /\ u.queue \in Seq(S)
         /\ Len(u.order) = Len(v.order) + 1 /\ u.order # <<>>
         /\ \A k \in DOMAIN u.order : k \in DOMAIN v.order \/ k = Len(v.order) + 1
         /\ u.order[Len(v.order) + 1] = Head(v.queue)
         /\ \A k \in DOMAIN v.order : u.order[k] = v.order[k]
         /\ VisitedOnce(u)
         /\ Visited(u) \subseteq Visited(v) /\ Visited(v) \subseteq Visited(u)
<1>0. u.queue = Tail(v.queue) /\ u.order = Append(v.order, Head(v.queue))
  BY DEF HeadMoves
<1>1. Len(v.queue) \in Nat /\ Len(v.queue) > 0 /\ DOMAIN v.queue = 1..Len(v.queue)
  BY DEF VisitedOnce
<1>2. Head(v.queue) = v.queue[1] /\ v.queue[1] \in S
  BY <1>1
<1>3. /\ Tail(v.queue) \in Seq(S)
      /\ DOMAIN Tail(v.queue) = 1..(Len(v.queue) - 1)
      /\ \A i \in 1..(Len(v.queue) - 1) : Tail(v.queue)[i] = v.queue[i + 1]
  BY <1>1
<1>4. Len(v.order) \in Nat /\ DOMAIN v.order = 1..Len(v.order)
  OBVIOUS
<1>5. /\ u.order \in Seq(S) /\ DOMAIN u.order = 1..(Len(v.order) + 1)
      /\ Len(u.order) = Len(v.order) + 1
      /\ u.order[Len(v.order) + 1] = v.queue[1]
      /\ \A k \in 1..Len(v.order) : u.order[k] = v.order[k]
  BY <1>0, <1>2, <1>4
<1>6. Waiting(v) = Waiting(u) \cup {v.queue[1]}
  <2>1. ASSUME NEW i \in DOMAIN v.queue PROVE v.queue[i] \in Waiting(u) \cup {v.queue[1]}
    <3>1. CASE i = 1
      BY <3>1
    <3>2. CASE i # 1
      <4>1. i - 1 \in 1..(Len(v.queue) - 1) /\ (i - 1) + 1 = i
        BY <1>1, <3>2
      <4>2. u.queue[i - 1] = v.queue[i] /\ i - 1 \in DOMAIN u.queue
        BY <1>0, <1>3, <4>1
      <4> QED  BY <4>2 DEF Waiting
    <3> QED  BY <3>1, <3>2
  <2>2. ASSUME NEW i \in DOMAIN u.queue PROVE u.queue[i] \in Waiting(v)
    <3>1. i + 1 \in DOMAIN v.queue /\ u.queue[i] = v.queue[i + 1]
      BY <1>0, <1>1, <1>3
    <3> QED  BY <3>1 DEF Waiting
  <2>3. v.queue[1] \in Waiting(v)
    BY <1>1 DEF Waiting
  <2> QED  BY <2>1, <2>2, <2>3 DEF Waiting
<1>7. Reviewed(u) = Reviewed(v) \cup {v.queue[1]}
  <2>1. \A k \in DOMAIN v.order : k \in DOMAIN u.order /\ u.order[k] = v.order[k]
    BY <1>4, <1>5
  <2>2. \A k \in DOMAIN u.order : k \in DOMAIN v.order \/ k = Len(v.order) + 1
    BY <1>4, <1>5
  <2>3. Len(v.order) + 1 \in DOMAIN u.order
    BY <1>4, <1>5
  <2> QED  BY <1>5, <2>1, <2>2, <2>3 DEF Reviewed
<1>8. v.queue[1] \notin Waiting(u)
  <2> SUFFICES ASSUME NEW i \in DOMAIN u.queue, u.queue[i] = v.queue[1] PROVE FALSE
    BY DEF Waiting
  <2>1. i + 1 \in DOMAIN v.queue /\ v.queue[i + 1] = v.queue[1] /\ i + 1 # 1 /\ 1 \in DOMAIN v.queue
    BY <1>0, <1>1, <1>3
  <2> QED  BY <2>1 DEF VisitedOnce
<1>9. v.queue[1] \in Waiting(v) /\ v.queue[1] \notin Reviewed(v)
  BY <1>6 DEF VisitedOnce
<1>10. VisitedOnce(u)
  <2>1. \A i, j \in DOMAIN u.order : u.order[i] = u.order[j] => i = j
    <3> SUFFICES ASSUME NEW i \in DOMAIN u.order, NEW j \in DOMAIN u.order, u.order[i] = u.order[j]
                 PROVE  i = j
      OBVIOUS
    <3>1. \A k \in DOMAIN v.order : u.order[k] = v.order[k] /\ v.order[k] # v.queue[1]
      BY <1>4, <1>5, <1>9 DEF Reviewed
    <3>2. CASE i \in DOMAIN v.order /\ j \in DOMAIN v.order
      BY <3>1, <3>2 DEF VisitedOnce
    <3>3. CASE i \notin DOMAIN v.order \/ j \notin DOMAIN v.order
      <4>1. \A k \in DOMAIN u.order : k \notin DOMAIN v.order => k = Len(v.order) + 1
        BY <1>4, <1>5
      <4> QED  BY <1>5, <3>1, <3>3, <4>1
    <3> QED  BY <3>2, <3>3
  <2>2. \A i, j \in DOMAIN u.queue : u.queue[i] = u.queue[j] => i = j
    <3> SUFFICES ASSUME NEW i \in DOMAIN u.queue, NEW j \in DOMAIN u.queue, u.queue[i] = u.queue[j]
                 PROVE  i = j
      OBVIOUS
    <3>1. /\ i + 1 \in DOMAIN v.queue /\ u.queue[i] = v.queue[i + 1]
          /\ j + 1 \in DOMAIN v.queue /\ u.queue[j] = v.queue[j + 1]
      BY <1>0, <1>1, <1>3
    <3>2. i + 1 = j + 1
      BY <3>1 DEF VisitedOnce
    <3> QED  BY <1>0, <1>1, <1>3, <3>2
  <2> QED  BY <1>6, <1>7, <1>8, <2>1, <2>2 DEF VisitedOnce
<1>11. (\A k \in DOMAIN u.order : k \in DOMAIN v.order \/ k = Len(v.order) + 1) /\ u.order # <<>>
  BY <1>4, <1>5
<1>12. u.order[Len(v.order) + 1] = Head(v.queue)
  BY <1>2, <1>5
<1>13. \A k \in DOMAIN v.order : u.order[k] = v.order[k]
  BY <1>4, <1>5
<1>14. Visited(u) \subseteq Visited(v) /\ Visited(v) \subseteq Visited(u)
  BY <1>6, <1>7 DEF Visited
<1> QED  BY <1>0, <1>2, <1>3, <1>5, <1>9, <1>10, <1>11, <1>12, <1>13, <1>14

\* An artifact comes to the end of the queue, unless it was visited.
LEMMA VisitAdds ==
  ASSUME NEW S, NEW v, NEW u, NEW a \in S, v.order \in Seq(S), v.queue \in Seq(S), VisitedOnce(v),
         u.order = v.order, u.queue = Visit(v, a)
  PROVE  /\ u.queue \in Seq(S)
         /\ VisitedOnce(u)
         /\ Reviewed(u) = Reviewed(v)
         /\ Visited(v) \subseteq Visited(u) /\ a \in Visited(u)
         /\ Visited(u) \subseteq Visited(v) \cup {a}
<1>1. Reviewed(u) = Reviewed(v)
  BY DEF Reviewed
<1>2. CASE a \in Reviewed(v) \cup Waiting(v)
  <2>1. u.queue = v.queue
    BY <1>2 DEF Visit
  <2>2. Waiting(u) = Waiting(v)
    BY <2>1 DEF Waiting
  <2> QED  BY <1>1, <1>2, <2>1, <2>2 DEF VisitedOnce, Visited
<1>3. CASE a \notin Reviewed(v) \cup Waiting(v)
  <2>1. u.queue = Append(v.queue, a)
    BY <1>3 DEF Visit
  <2>2. Len(v.queue) \in Nat /\ DOMAIN v.queue = 1..Len(v.queue)
    OBVIOUS
  <2>3. /\ u.queue \in Seq(S) /\ DOMAIN u.queue = 1..(Len(v.queue) + 1)
        /\ u.queue[Len(v.queue) + 1] = a
        /\ \A k \in 1..Len(v.queue) : u.queue[k] = v.queue[k]
    BY <2>1, <2>2
  <2>4. \A k \in DOMAIN u.queue : k \in DOMAIN v.queue \/ k = Len(v.queue) + 1
    BY <2>2, <2>3
  <2>5. \A k \in DOMAIN v.queue : k \in DOMAIN u.queue /\ u.queue[k] = v.queue[k] /\ v.queue[k] # a
    BY <1>3, <2>2, <2>3 DEF Waiting
  <2>6. Len(v.queue) + 1 \in DOMAIN u.queue
    BY <2>2, <2>3
  <2>7. Waiting(u) = Waiting(v) \cup {a}
    BY <2>3, <2>4, <2>5, <2>6 DEF Waiting
  <2>8. \A i, j \in DOMAIN u.queue : u.queue[i] = u.queue[j] => i = j
    BY <2>3, <2>4, <2>5 DEF VisitedOnce, Visited
  <2>9. \A i, j \in DOMAIN u.order : u.order[i] = u.order[j] => i = j
    BY DEF VisitedOnce, Visited
  <2>10. Reviewed(u) \cap Waiting(u) = {}
    BY <1>1, <1>3, <2>7 DEF VisitedOnce, Visited
  <2> QED  BY <1>1, <2>3, <2>7, <2>8, <2>9, <2>10 DEF VisitedOnce, Visited
<1> QED  BY <1>2, <1>3

-----------------------------------------------------------------------------
(* One lemma per step of the walk.                                         *)

\* Reviewers are idle or reviewing as they should.
ReviewsOK ==
  /\ review = [w \in Reviewers |-> review[w]]
  /\ \A w \in Reviewers : review[w] = NoReview \/ ReviewOK(config, Known, review[w])

LEMMA PhaseOfReview ==
  ASSUME ReviewsOK, NEW w \in Reviewers, review[w].pc # "idle"
  PROVE  ReviewOK(config, Known, review[w])
  BY DEF ReviewsOK, NoReview

LEMMA KnownParts ==
  /\ Known.artifacts = artifacts /\ Known.attestations = attestations
  /\ Known.dependencies = dependencies /\ Known.timeEvidence = timeEvidence
  BY DEF Known

LEMMA LocateKeeps ==
  ASSUME IsConfig(config), StoreOK(Known), ReviewsOK, NEW w \in Reviewers, NEW a \in artifacts, Locate(w, a)
  PROVE  ReviewOK(config, Known, review'[w])
<1> DEFINE u == review'[w]
           K == Known
<1>1. u = [pc |-> "up", root |-> a, queue |-> <<a>>, order |-> <<>>, edges |-> {},
           owned |-> {}, next |-> 0, atts |-> {}, judged |-> {}, affected |-> {}, began |-> K]
  BY DEF Locate, ReviewsOK
<1>2. a \in K.artifacts
  BY KnownParts
<1> HIDE DEF u, K
<1>3. IsReview(u)
  BY <1>1 DEF IsReview
<1>4. Reviewed(u) = {} /\ Waiting(u) = {a}
  BY <1>1 DEF Reviewed, Waiting
<1>5. Shape(K, u)
  <2>1. StoreOK(K) /\ Grows(K, K)
    BY GrowsNone DEF K
  <2>2. u.queue \in Seq(K.artifacts) /\ u.order \in Seq(K.artifacts) /\ 0 \in 0..Len(u.order)
    <3>1. u.queue = <<a>> /\ u.order = <<>>
      BY <1>1
    <3>2. \A S : a \in S => <<a>> \in Seq(S) /\ <<>> \in Seq(S)
      OBVIOUS
    <3>3. 0 \in 0..Len(<<>>)
      OBVIOUS
    <3> QED  BY <1>2, <3>1, <3>2, <3>3, Zenon
  <2> QED  BY <1>1, <1>2, <2>1, <2>2 DEF Shape, Walking
<1>6. InPhase(u)
  BY <1>1 DEF InPhase, Walking, Judging
<1>7. VisitedOnce(u)
  <2>1. DOMAIN u.queue = {1} /\ DOMAIN u.order = {}
    BY <1>1
  <2> QED  BY <1>4, <2>1 DEF VisitedOnce
<1>8. Walk(K, u)
  <2>1. a \in Connected(a, Links(K), K.artifacts)
    BY <1>2, ConnectedHoldsRoot
  <2> QED  BY <1>1, <1>4, <2>1 DEF Walk, Visited
<1>9. ExploredUp(u) /\ ExploredDown(K, u) /\ Judged(config, K, u)
  BY <1>1 DEF ExploredUp, ExploredDown, Judged, AllJudged
<1>10. Spread(config, K, u)
  BY <1>1 DEF Spread, Judging
<1> QED  BY <1>3, <1>5, <1>6, <1>7, <1>8, <1>9, <1>10 DEF ReviewOK, K, u

LEMMA ListUpCore ==
  ASSUME NEW cfg, NEW K, NEW v, ReviewOK(cfg, K, v), v.pc = "up", NEW cur, cur = Head(v.queue),
         NEW u, IsReview(u),
         u.pc = "resolve", u.root = v.root, u.queue = Tail(v.queue), u.order = Append(v.order, cur),
         u.edges = {i \in DOMAIN K.dependencies : K.dependencies[i].artifact = cur},
         u.owned = v.owned, u.next = v.next, u.atts = v.atts, u.judged = v.judged,
         u.affected = v.affected, u.began = v.began
  PROVE  ReviewOK(cfg, K, u)
<1>1. ReviewOK(cfg, K, v) /\ v.pc = "up"
  OBVIOUS
<1>3. /\ IsReview(u)
      /\ u.pc = "resolve" /\ u.root = v.root /\ u.queue = Tail(v.queue) /\ u.order = Append(v.order, cur)
      /\ u.edges = {i \in DOMAIN K.dependencies : K.dependencies[i].artifact = cur}
      /\ u.owned = v.owned /\ u.next = v.next /\ u.atts = v.atts /\ u.judged = v.judged
      /\ u.affected = v.affected /\ u.began = v.began
  OBVIOUS
<1>4. v.queue # <<>> /\ v.order \in Seq(K.artifacts) /\ v.queue \in Seq(K.artifacts)
  BY <1>1 DEF ReviewOK, InPhase, Shape
<1>5. /\ u.order \in Seq(K.artifacts) /\ u.queue \in Seq(K.artifacts)
      /\ Len(u.order) = Len(v.order) + 1 /\ u.order # <<>>
      /\ \A k \in DOMAIN u.order : k \in DOMAIN v.order \/ k = Len(v.order) + 1
      /\ Current(u) = cur
      /\ \A k \in DOMAIN v.order : u.order[k] = v.order[k]
      /\ VisitedOnce(u)
      /\ Visited(u) = Visited(v)
  <2>1. VisitedOnce(v)
    BY <1>1 DEF ReviewOK
  <2>2. HeadMoves(v, u)
    BY <1>3 DEF HeadMoves
  <2>3. Current(u) = cur
    BY <1>4, <2>1, <2>2, Expands DEF Current
  <2>4. Visited(u) \subseteq Visited(v) /\ Visited(v) \subseteq Visited(u)
    BY <1>4, <2>1, <2>2, Expands
  <2>5. Visited(u) = Visited(v)
    BY <2>4
  <2>6. u.order \in Seq(K.artifacts) /\ u.queue \in Seq(K.artifacts)
    BY <1>4, <2>1, <2>2, Expands
  <2>7. Len(u.order) = Len(v.order) + 1 /\ u.order # <<>>
    BY <1>4, <2>1, <2>2, Expands
  <2>8. \A k \in DOMAIN u.order : k \in DOMAIN v.order \/ k = Len(v.order) + 1
    BY <1>4, <2>1, <2>2, Expands
  <2>9. \A k \in DOMAIN v.order : u.order[k] = v.order[k]
    BY <1>4, <2>1, <2>2, Expands
  <2>10. VisitedOnce(u)
    BY <1>4, <2>1, <2>2, Expands
  <2> QED  BY <2>3, <2>5, <2>6, <2>7, <2>8, <2>9, <2>10, Zenon
<1>a. Len(v.order) \in Nat /\ DOMAIN v.order = 1..Len(v.order)
  BY <1>4
<1>6. Shape(K, u)
  BY <1>1, <1>3, <1>5, <1>a DEF ReviewOK, Shape, Walking
<1>7. InPhase(u)
  BY <1>1, <1>3, <1>5 DEF ReviewOK, InPhase, Walking, Judging
<1>8. Walk(K, u)
  BY <1>1, <1>3, <1>5, LinkParts DEF ReviewOK, Walk
<1>9. ExploredUp(u)
  <2> SUFFICES ASSUME NEW k \in DOMAIN u.order, NEW i \in DOMAIN v.began.dependencies,
                      LinkOf(v.began.dependencies[i]) \in Links(v.began),
                      LinkOf(v.began.dependencies[i]).owner = u.order[k],
                      ~ (k = Len(u.order) /\ i \in u.edges)
               PROVE  /\ LinkOf(v.began.dependencies[i]) \in v.owned
                      /\ LinkOf(v.began.dependencies[i]).target \in Visited(v)
    BY <1>3, <1>5 DEF ExploredUp
  <2>1. CASE k = Len(u.order)
    <3>1. i \in DOMAIN K.dependencies /\ K.dependencies[i] = v.began.dependencies[i]
      BY <1>1 DEF ReviewOK, Shape, Grows, Kept
    <3>2. K.dependencies[i].artifact = cur
      BY <1>5, <2>1, <3>1, LinkParts DEF Current
    <3> QED  BY <1>3, <2>1, <3>1, <3>2
  <2>2. CASE k # Len(u.order)
    <3>1. k \in DOMAIN v.order /\ u.order[k] = v.order[k]
      BY <1>5, <2>2
    <3> QED  BY <1>1, <3>1 DEF ReviewOK, ExploredUp
  <2> QED  BY <2>1, <2>2
<1>10. ExploredDown(K, u)
  <2> SUFFICES ASSUME NEW k \in DOMAIN u.order, NEW l \in Links(v.began), ~ LookupsFail,
                      l.target = u.order[k], k # Len(u.order)
               PROVE  l.owner \in Visited(v)
    BY <1>3, <1>5 DEF ExploredDown, ToCome
  <2>1. k \in DOMAIN v.order /\ u.order[k] = v.order[k]
    BY <1>5
  <2> QED  BY <1>1, <2>1 DEF ReviewOK, ExploredDown, ToCome
<1>11. Judged(cfg, K, u)
  <2>1. u.judged = {} /\ u.next = 0
    BY <1>1, <1>3 DEF ReviewOK, InPhase, Walking
  <2> QED  BY <1>3, <1>5, <2>1, <1>a DEF Judged, AllJudged, Judging
<1>12. Spread(cfg, K, u)
  BY <1>1, <1>3 DEF ReviewOK, InPhase, Spread, Judging
<1> QED  BY <1>3, <1>5, <1>6, <1>7, <1>8, <1>9, <1>10, <1>11, <1>12 DEF ReviewOK

\* The queue is left alone, or something comes to its end, unless visited.
LEMMA QueueKept ==
  ASSUME NEW v, NEW u, VisitedOnce(v), u.order = v.order, u.queue = v.queue
  PROVE  VisitedOnce(u) /\ Visited(u) = Visited(v)
  BY DEF VisitedOnce, Visited, Reviewed, Waiting

LEMMA CurrentOfOrder ==
  ASSUME NEW S, NEW v, v.order \in Seq(S), v.order # <<>>
  PROVE  /\ Len(v.order) \in DOMAIN v.order
         /\ Current(v) \in Reviewed(v) /\ Current(v) \in S
<1>1. Len(v.order) \in Nat /\ DOMAIN v.order = 1..Len(v.order) /\ Len(v.order) > 0
  OBVIOUS
<1>2. Len(v.order) \in DOMAIN v.order
  BY <1>1
<1> QED  BY <1>2 DEF Current, Reviewed

LEMMA ResolveUpCore ==
  ASSUME NEW cfg, NEW K, StoreOK(K), NEW v, ReviewOK(cfg, K, v), v.pc = "resolve",
         NEW i \in v.edges, NEW l, l = LinkOf(K.dependencies[i]),
         NEW u, IsReview(u),
         u.edges = v.edges \ {i},
         l.target \in K.artifacts => u.owned = v.owned \cup {l} /\ u.queue = Visit(v, l.target),
         l.target \notin K.artifacts => u.owned = v.owned /\ u.queue = v.queue,
         u.pc = "resolve", u.root = v.root, u.order = v.order, u.next = v.next, u.atts = v.atts,
         u.judged = v.judged, u.affected = v.affected, u.began = v.began
  PROVE  ReviewOK(cfg, K, u)
<1>1. /\ Shape(K, v) /\ InPhase(v) /\ VisitedOnce(v) /\ Walk(K, v)
      /\ ExploredUp(v) /\ ExploredDown(K, v)
  BY DEF ReviewOK
<1>2. v.order # <<>> /\ v.order \in Seq(K.artifacts) /\ v.queue \in Seq(K.artifacts)
  BY <1>1 DEF InPhase, Shape
<1>3. i \in DOMAIN K.dependencies /\ l.owner = Current(v)
  BY <1>1 DEF Shape, Walk
<1>4. Current(v) \in Reviewed(v) /\ Current(v) \in K.artifacts
  BY <1>2, CurrentOfOrder
<1>5. /\ u.queue \in Seq(K.artifacts) /\ VisitedOnce(u) /\ Visited(v) \subseteq Visited(u)
      /\ Visited(u) \subseteq Visited(v) \cup ({l.target} \cap K.artifacts)
      /\ l.target \in K.artifacts => l.target \in Visited(u)
  <2>1. CASE l.target \in K.artifacts
    <3>1. u.queue = Visit(v, l.target)
      BY <2>1
    <3>2. u.queue \in Seq(K.artifacts) /\ VisitedOnce(u)
      BY <1>1, <1>2, <2>1, <3>1, VisitAdds
    <3>3. /\ Visited(v) \subseteq Visited(u) /\ l.target \in Visited(u)
          /\ Visited(u) \subseteq Visited(v) \cup {l.target}
      BY <1>1, <1>2, <2>1, <3>1, VisitAdds
    <3> QED  BY <2>1, <3>2, <3>3
  <2>2. CASE l.target \notin K.artifacts
    <3>1. VisitedOnce(u) /\ Visited(u) = Visited(v)
      BY <1>1, <2>2, QueueKept
    <3> QED  BY <1>2, <2>2, <3>1
  <2> QED  BY <2>1, <2>2
<1>6. l.target \in K.artifacts => l \in Links(K)
  BY <1>3, LinkOfRow
<1>7. Shape(K, u)
  BY <1>1, <1>5 DEF Shape
<1>8. InPhase(u)
  BY <1>1 DEF InPhase, Walking, Judging
<1>9. Walk(K, u)
  <2>1. Visited(u) \subseteq Connected(v.root, Links(K), K.artifacts)
    <3>1. l.owner \in Connected(v.root, Links(K), K.artifacts)
      BY <1>1, <1>3, <1>4 DEF Walk, Visited
    <3>2. l.target \in K.artifacts => l.target \in Connected(v.root, Links(K), K.artifacts)
      BY <1>3, <1>4, <1>6, <3>1, ConnectedFollowsLinks
    <3> QED  BY <1>1, <1>5, <3>2 DEF Walk
  <2>2. u.owned \subseteq Links(K) /\ \A m \in u.owned : m.owner \in Visited(u) /\ m.target \in Visited(u)
    <3>1. \A m \in v.owned : m \in Links(K) /\ m.owner \in Visited(u) /\ m.target \in Visited(u)
      BY <1>1, <1>5 DEF Walk
    <3>2. l.owner \in Visited(u)
      BY <1>3, <1>4, <1>5 DEF Visited
    <3> QED  BY <1>5, <1>6, <3>1, <3>2
  <2>3. \A k \in u.edges : LinkOf(K.dependencies[k]).owner = Current(u)
    BY <1>1 DEF Walk, Current
  <2>4. u.root \in Visited(u)
    BY <1>1, <1>5 DEF Walk
  <2> QED  BY <2>1, <2>2, <2>3, <2>4 DEF Walk
<1>10. ExploredUp(u)
  <2> SUFFICES ASSUME NEW k \in DOMAIN v.order, NEW n \in DOMAIN v.began.dependencies, NEW m,
                      m = LinkOf(v.began.dependencies[n]), m \in Links(v.began), m.owner = v.order[k],
                      ~ (k = Len(v.order) /\ n \in u.edges)
               PROVE  m \in u.owned /\ m.target \in Visited(u)
    BY DEF ExploredUp
  <2>1. CASE n = i
    <3>1. K.dependencies[i] = v.began.dependencies[n]
      BY <1>1, <2>1 DEF Shape, Grows, Kept
    <3>2. m = l
      BY <3>1
    <3>3. m.target \in v.began.artifacts /\ v.began.artifacts \subseteq K.artifacts
      BY <1>1 DEF Links, LinksOf, Shape, Grows
    <3> QED  BY <1>5, <3>2, <3>3
  <2>2. CASE n # i
    <3>1. m \in v.owned /\ m.target \in Visited(v)
      BY <1>1, <2>2 DEF ExploredUp
    <3> QED  BY <1>5, <3>1
  <2> QED  BY <2>1, <2>2
<1>11. ExploredDown(K, u)
  <2> SUFFICES ASSUME NEW k \in DOMAIN v.order, NEW m \in Links(v.began), ~ LookupsFail,
                      m.target = v.order[k], k # Len(v.order)
               PROVE  m.owner \in Visited(u)
    BY DEF ExploredDown, ToCome
  <2>1. m.owner \in Visited(v)
    BY <1>1 DEF ExploredDown
  <2> QED  BY <1>5, <2>1
<1>12. Judged(cfg, K, u)
  BY DEF ReviewOK, Judged, AllJudged, RightlyJudged
<1>13. Spread(cfg, K, u)
  BY <1>1 DEF InPhase, Spread, Judging
<1> QED  BY <1>5, <1>7, <1>8, <1>9, <1>10, <1>11, <1>12, <1>13 DEF ReviewOK

LEMMA ListDownCore ==
  ASSUME NEW cfg, NEW K, StoreOK(K), NEW v, ReviewOK(cfg, K, v), v.pc = "resolve", v.edges = {},
         NEW E, E = {i \in DOMAIN K.dependencies : /\ K.dependencies[i].name = Current(v).name
                                                   /\ K.dependencies[i].sha = Current(v).sha},
         NEW u, IsReview(u),
         u.edges = {i \in E : \A j \in E :
                      K.dependencies[j].artifact = K.dependencies[i].artifact => i <= j},
         u.pc = IF u.edges = {} THEN NextArtifact(v.queue) ELSE "down",
         u.root = v.root, u.queue = v.queue, u.order = v.order, u.owned = v.owned, u.next = v.next,
         u.atts = v.atts, u.judged = v.judged, u.affected = v.affected, u.began = v.began
  PROVE  ReviewOK(cfg, K, u)
<1>1. /\ Shape(K, v) /\ InPhase(v) /\ VisitedOnce(v) /\ Walk(K, v)
      /\ ExploredUp(v) /\ ExploredDown(K, v)
  BY DEF ReviewOK
<1>2. v.order # <<>> /\ v.order \in Seq(K.artifacts)
  BY <1>1 DEF InPhase, Shape
<1>3. /\ u.edges = {} => u.pc = IF v.queue = <<>> THEN "classify" ELSE "up"
      /\ u.edges # {} => u.pc = "down"
  BY DEF NextArtifact
<1>4. VisitedOnce(u) /\ Visited(u) = Visited(v) /\ Current(u) = Current(v)
  BY <1>1, QueueKept DEF Current
<1>5. Shape(K, u)
  <2>1. u.pc \in Walking \cup {"classify"}
    BY <1>3 DEF Walking
  <2> QED  BY <1>1, <2>1 DEF Shape
<1>6. InPhase(u)
  BY <1>1, <1>3 DEF InPhase, Walking, Judging
<1>7. Walk(K, u)
  <2>1. Current(v) = [name |-> Current(v).name, sha |-> Current(v).sha]
    BY <1>2, CurrentOfOrder DEF StoreOK, Artifact
  <2>2. \A i \in u.edges : LinkOf(K.dependencies[i]).target = Current(v)
    BY <2>1, LinkParts
  <2> QED  BY <1>1, <1>3, <1>4, <2>2 DEF Walk
<1>8. ExploredUp(u)
  BY <1>1, <1>4 DEF ExploredUp
<1>9. ExploredDown(K, u)
  <2> SUFFICES ASSUME NEW k \in DOMAIN v.order, NEW m \in Links(v.began), ~ LookupsFail,
                      m.target = v.order[k], ~ (k = Len(v.order) /\ ToCome(K, u, m.owner))
               PROVE  m.owner \in Visited(v)
    BY <1>4 DEF ExploredDown
  <2>1. CASE k # Len(v.order)
    BY <1>1, <2>1 DEF ExploredDown
  <2>2. CASE k = Len(v.order)
    <3>1. PICK n \in DOMAIN v.began.dependencies : m = LinkOf(v.began.dependencies[n])
      BY DEF Links, LinksOf
    <3>2. n \in DOMAIN K.dependencies /\ K.dependencies[n] = v.began.dependencies[n]
      BY <1>1 DEF Shape, Grows, Kept
    <3>3. m.target = Current(v)
      BY <2>2 DEF Current
    <3>4. /\ [name |-> K.dependencies[n].name, sha |-> K.dependencies[n].sha] = Current(v)
          /\ m.owner = K.dependencies[n].artifact
      <4>1. /\ LinkOf(K.dependencies[n]).target
                 = [name |-> K.dependencies[n].name, sha |-> K.dependencies[n].sha]
            /\ LinkOf(K.dependencies[n]).owner = K.dependencies[n].artifact
        BY LinkParts
      <4> QED  BY <3>1, <3>2, <3>3, <4>1
    <3>5. n \in E
      BY <3>2, <3>4
    <3> DEFINE T == {j \in E : K.dependencies[j].artifact = m.owner}
    <3>6. T \subseteq Nat /\ T # {}
      <4>1. \A j \in DOMAIN K.dependencies : j \in Nat
        BY DEF StoreOK
      <4> QED  BY <3>4, <3>5, <4>1
    <3>7. PICK j \in T : \A x \in T : j <= x
      <4> HIDE DEF T
      <4> QED  BY <3>6, LeastOfNaturals
    <3>8. j \in u.edges /\ K.dependencies[j].artifact = m.owner
      BY <3>7
    <3>9. ToCome(K, u, m.owner)
      BY <1>3, <3>8, LinkParts DEF ToCome
    <3> QED  BY <2>2, <3>9
  <2> QED  BY <2>1, <2>2
<1>10. Judged(cfg, K, u)
  <2>1. u.next = 0 /\ u.judged = {} /\ u.pc \notin Judging
    BY <1>1, <1>3 DEF InPhase, Walking, Judging
  <2>2. \A k \in DOMAIN u.order : ~ k <= 0
    BY <1>2
  <2> QED  BY <2>1, <2>2 DEF Judged, AllJudged
<1>11. Spread(cfg, K, u)
  BY <1>1, <1>3 DEF InPhase, Spread, Walking, Judging
<1> QED  BY <1>4, <1>5, <1>6, <1>7, <1>8, <1>9, <1>10, <1>11 DEF ReviewOK

LEMMA ResolveDownCore ==
  ASSUME NEW cfg, NEW K, StoreOK(K), NEW v, ReviewOK(cfg, K, v), v.pc = "down",
         NEW i \in v.edges, NEW l, l = LinkOf(K.dependencies[i]),
         NEW found \in BOOLEAN, ~ found => LookupsFail,
         NEW u, IsReview(u),
         u.edges = v.edges \ {i},
         u.edges = {} => u.pc = NextArtifact(u.queue), u.edges # {} => u.pc = "down",
         found => u.owned = v.owned \cup {l} /\ u.queue = Visit(v, l.owner),
         ~ found => u.owned = v.owned /\ u.queue = v.queue,
         u.root = v.root, u.order = v.order, u.next = v.next, u.atts = v.atts,
         u.judged = v.judged, u.affected = v.affected, u.began = v.began
  PROVE  ReviewOK(cfg, K, u)
<1>1. /\ Shape(K, v) /\ InPhase(v) /\ VisitedOnce(v) /\ Walk(K, v)
      /\ ExploredUp(v) /\ ExploredDown(K, v)
  BY DEF ReviewOK
<1>2. v.order # <<>> /\ v.order \in Seq(K.artifacts) /\ v.queue \in Seq(K.artifacts)
  BY <1>1 DEF InPhase, Shape
<1>3. i \in DOMAIN K.dependencies /\ l.target = Current(v)
  BY <1>1 DEF Shape, Walk
<1>4. Current(v) \in Reviewed(v) /\ Current(v) \in K.artifacts
  BY <1>2, CurrentOfOrder
<1>5. l \in Links(K) /\ l.owner \in K.artifacts
  BY <1>3, <1>4, LinkOfRow
<1>6. /\ u.queue \in Seq(K.artifacts) /\ VisitedOnce(u) /\ Visited(v) \subseteq Visited(u)
      /\ Visited(u) \subseteq Visited(v) \cup {l.owner}
      /\ found => l.owner \in Visited(u)
  <2>1. CASE found
    <3>1. u.queue = Visit(v, l.owner)
      BY <2>1
    <3>2. \A S, b : /\ b \in S /\ v.order \in Seq(S) /\ v.queue \in Seq(S) /\ u.queue = Visit(v, b)
                    => /\ u.queue \in Seq(S) /\ VisitedOnce(u)
                       /\ Visited(v) \subseteq Visited(u) /\ b \in Visited(u)
                       /\ Visited(u) \subseteq Visited(v) \cup {b}
      BY <1>1, VisitAdds, Zenon
    <3> QED  BY <1>2, <1>5, <3>1, <3>2
  <2>2. CASE ~ found
    <3>1. VisitedOnce(u) /\ Visited(u) = Visited(v)
      BY <1>1, <2>2, QueueKept
    <3> QED  BY <1>2, <2>2, <3>1
  <2> QED  BY <2>1, <2>2
<1>7. /\ u.edges = {} => u.pc = IF u.queue = <<>> THEN "classify" ELSE "up"
      /\ u.edges # {} => u.pc = "down"
  BY DEF NextArtifact
<1>8. Shape(K, u)
  <2>1. u.pc \in Walking \cup {"classify"}
    BY <1>7 DEF Walking
  <2> QED  BY <1>1, <1>6, <2>1 DEF Shape
<1>9. InPhase(u)
  BY <1>1, <1>7 DEF InPhase, Walking, Judging
<1>10. Walk(K, u)
  <2>1. Visited(u) \subseteq Connected(v.root, Links(K), K.artifacts)
    <3>1. l.target \in Connected(v.root, Links(K), K.artifacts)
      BY <1>1, <1>3, <1>4 DEF Walk, Visited
    <3>2. l.owner \in Connected(v.root, Links(K), K.artifacts)
      BY <1>3, <1>4, <1>5, <3>1, ConnectedFollowsLinks
    <3> QED  BY <1>1, <1>6, <3>2 DEF Walk
  <2>2. u.owned \subseteq Links(K) /\ \A m \in u.owned : m.owner \in Visited(u) /\ m.target \in Visited(u)
    <3>1. \A m \in v.owned : m \in Links(K) /\ m.owner \in Visited(u) /\ m.target \in Visited(u)
      BY <1>1, <1>6 DEF Walk
    <3>2. l.target \in Visited(u)
      BY <1>3, <1>4, <1>6 DEF Visited
    <3> QED  BY <1>5, <1>6, <3>1, <3>2
  <2>3. \A k \in u.edges : LinkOf(K.dependencies[k]).target = Current(u)
    BY <1>1 DEF Walk, Current
  <2>4. u.root \in Visited(u)
    BY <1>1, <1>6 DEF Walk
  <2> QED  BY <1>7, <2>1, <2>2, <2>3, <2>4 DEF Walk
<1>11. ExploredUp(u)
  <2> SUFFICES ASSUME NEW k \in DOMAIN v.order, NEW n \in DOMAIN v.began.dependencies, NEW m,
                      m = LinkOf(v.began.dependencies[n]), m \in Links(v.began), m.owner = v.order[k]
               PROVE  m \in u.owned /\ m.target \in Visited(u)
    BY DEF ExploredUp
  <2>1. m \in v.owned /\ m.target \in Visited(v)
    BY <1>1 DEF ExploredUp
  <2> QED  BY <1>6, <2>1
<1>12. ExploredDown(K, u)
  <2> SUFFICES ASSUME NEW k \in DOMAIN v.order, NEW m \in Links(v.began), ~ LookupsFail,
                      m.target = v.order[k], ~ (k = Len(v.order) /\ ToCome(K, u, m.owner))
               PROVE  m.owner \in Visited(u)
    BY DEF ExploredDown
  <2>1. CASE m.owner = l.owner
    BY <1>6, <2>1
  <2>2. CASE m.owner # l.owner
    <3>1. ToCome(K, v, m.owner) => ToCome(K, u, m.owner)
      <4> SUFFICES ASSUME NEW j \in v.edges, LinkOf(K.dependencies[j]).owner = m.owner
                   PROVE  ToCome(K, u, m.owner)
        BY DEF ToCome
      <4>1. j \in u.edges
        BY <2>2
      <4> QED  BY <1>7, <4>1 DEF ToCome
    <3>2. m.owner \in Visited(v)
      BY <1>1, <3>1 DEF ExploredDown
    <3> QED  BY <1>6, <3>2
  <2> QED  BY <2>1, <2>2
<1>13. Judged(cfg, K, u)
  <2>1. u.next = 0 /\ u.judged = {} /\ u.pc \notin Judging
    BY <1>1, <1>7 DEF InPhase, Walking, Judging
  <2>2. \A k \in DOMAIN u.order : ~ k <= 0
    BY <1>2
  <2> QED  BY <2>1, <2>2 DEF Judged, AllJudged
<1>14. Spread(cfg, K, u)
  BY <1>1, <1>7 DEF InPhase, Spread, Walking, Judging
<1> QED  BY <1>6, <1>8, <1>9, <1>10, <1>11, <1>12, <1>13, <1>14 DEF ReviewOK

-----------------------------------------------------------------------------
(* The classes and their propagation.                                      *)

\* A review that has walked as far as another knows and visited what that did.
LEMMA WalkDone ==
  ASSUME NEW cfg, NEW K, NEW v, ReviewOK(cfg, K, v), v.pc \notin Walking,
         NEW u, u.pc \notin Walking, u.root = v.root, u.queue = v.queue, u.order = v.order,
         u.owned = v.owned, u.began = v.began
  PROVE  VisitedOnce(u) /\ Walk(K, u) /\ ExploredUp(u) /\ ExploredDown(K, u)
<1>1. VisitedOnce(u) /\ Visited(u) = Visited(v)
  BY QueueKept DEF ReviewOK
<1>2. v.pc # "resolve" /\ v.pc # "down" /\ u.pc # "resolve" /\ u.pc # "down"
  BY DEF Walking
<1>3. Walk(K, u)
  BY <1>1, <1>2 DEF ReviewOK, Walk
<1>4. ExploredUp(u)
  BY <1>1, <1>2 DEF ReviewOK, ExploredUp
<1>5. ExploredDown(K, u)
  BY <1>1, <1>2 DEF ReviewOK, ExploredDown, ToCome
<1> QED  BY <1>1, <1>3, <1>4, <1>5

LEMMA ListAttsCore ==
  ASSUME NEW cfg, NEW K, NEW v, ReviewOK(cfg, K, v), v.pc = "classify", v.atts = {},
         v.next < Len(v.order),
         NEW u, IsReview(u),
         u.next = v.next + 1,
         u.atts = {i \in DOMAIN K.attestations : K.attestations[i].artifact = v.order[v.next + 1]},
         u.pc = "classify", u.root = v.root, u.queue = v.queue, u.order = v.order, u.edges = v.edges,
         u.owned = v.owned, u.judged = v.judged, u.affected = v.affected, u.began = v.began
  PROVE  ReviewOK(cfg, K, u)
<1>1. Shape(K, v) /\ InPhase(v) /\ Judged(cfg, K, v) /\ Spread(cfg, K, v)
  BY DEF ReviewOK
<1>2. Len(v.order) \in Nat /\ v.next \in Nat /\ DOMAIN v.order = 1..Len(v.order)
  BY <1>1 DEF Shape
<1>3. Shape(K, u)
  <2>1. u.next \in 0..Len(u.order)
    BY <1>2
  <2> QED  BY <1>1, <2>1 DEF Shape
<1>4. InPhase(u)
  BY <1>1 DEF InPhase, Walking, Judging
<1>5. VisitedOnce(u) /\ Walk(K, u) /\ ExploredUp(u) /\ ExploredDown(K, u)
  BY WalkDone DEF Walking
<1>6. Judged(cfg, K, u)
  <2>1. AllJudged(cfg, u)
    <3> SUFFICES ASSUME NEW k \in DOMAIN v.order, NEW i \in DOMAIN v.began.attestations,
                        k <= v.next + 1, v.began.attestations[i].artifact = v.order[k],
                        Sig(cfg, v.began, i).valid
                 PROVE  i \in u.atts \/ \E j \in v.judged : j.attestation = i
      BY DEF AllJudged, Judging
    <3>1. CASE k <= v.next
      BY <1>1, <3>1 DEF Judged, AllJudged
    <3>2. CASE ~ k <= v.next
      <4>1. k = v.next + 1
        BY <1>2, <3>2
      <4>2. i \in DOMAIN K.attestations /\ K.attestations[i] = v.began.attestations[i]
        BY <1>1 DEF Shape, Grows, Kept
      <4> QED  BY <4>1, <4>2
    <3> QED  BY <3>1, <3>2
  <2> QED  BY <1>1, <2>1 DEF Judged, RightlyJudged
<1>7. Spread(cfg, K, u)
  BY <1>1 DEF InPhase, Spread, Judging
<1> QED  BY <1>3, <1>4, <1>5, <1>6, <1>7 DEF ReviewOK

LEMMA ClassifyNextCore ==
  ASSUME NEW cfg, IsConfig(cfg), NEW K, StoreOK(K), NEW v, ReviewOK(cfg, K, v), v.pc = "classify",
         NEW id \in v.atts,
         NEW j, j = [artifact |-> K.attestations[id].artifact, attestation |-> id,
                     anchored |-> IsAnchored(cfg, K, id),
                     class |-> ClassBy(cfg, K, id, K.timeEvidence)],
         NEW u, IsReview(u),
         u.atts = v.atts \ {id},
         u.judged = IF Sig(cfg, K, id).valid THEN v.judged \cup {j} ELSE v.judged,
         u.pc = "classify", u.root = v.root, u.queue = v.queue, u.order = v.order, u.edges = v.edges,
         u.owned = v.owned, u.next = v.next, u.affected = v.affected, u.began = v.began
  PROVE  ReviewOK(cfg, K, u)
<1>1. Shape(K, v) /\ InPhase(v) /\ Judged(cfg, K, v) /\ Spread(cfg, K, v)
  BY DEF ReviewOK
<1>2. id \in DOMAIN K.attestations
  BY <1>1 DEF Shape
<1>3. Shape(K, u)
  BY <1>1 DEF Shape
<1>4. InPhase(u)
  BY <1>1 DEF InPhase, Walking, Judging
<1>5. VisitedOnce(u) /\ Walk(K, u) /\ ExploredUp(u) /\ ExploredDown(K, u)
  BY WalkDone DEF Walking
<1>6. ASSUME Sig(cfg, K, id).valid PROVE RightlyJudged(cfg, K, v, j)
  <2>1. ClassBy(cfg, K, id, K.timeEvidence) \in Classes
    BY MoreEvidence DEF StoreOK
  <2>2. K.attestations[id].artifact \in K.artifacts
    BY <1>2 DEF StoreOK
  <2>3. IsAnchored(cfg, K, id) \in BOOLEAN
    BY DEF IsAnchored
  <2>4. j \in [artifact : K.artifacts, attestation : DOMAIN K.attestations,
               anchored : BOOLEAN, class : Classes]
    BY <1>2, <2>1, <2>2, <2>3
  <2>5. v.began.timeEvidence \subseteq K.timeEvidence
    BY <1>1 DEF Shape, Grows
  <2> QED  BY <1>6, <2>4, <2>5 DEF RightlyJudged
<1>7. Judged(cfg, K, u)
  <2>1. \A m \in u.judged : RightlyJudged(cfg, K, u, m)
    BY <1>1, <1>6 DEF Judged, RightlyJudged
  <2>2. AllJudged(cfg, u)
    <3> SUFFICES ASSUME NEW k \in DOMAIN v.order, NEW i \in DOMAIN v.began.attestations,
                        k <= v.next, v.began.attestations[i].artifact = v.order[k],
                        Sig(cfg, v.began, i).valid
                 PROVE  i \in u.atts \/ \E m \in u.judged : m.attestation = i
      BY DEF AllJudged, Judging
    <3>1. i \in v.atts \/ \E m \in v.judged : m.attestation = i
      BY <1>1 DEF Judged, AllJudged
    <3>2. CASE i = id
      <4>1. Sig(cfg, K, i) = Sig(cfg, v.began, i)
        <5>1. K.attestations[i] = v.began.attestations[i]
          BY <1>1 DEF Shape, Grows, Kept
        <5> QED  BY <5>1 DEF Sig
      <4>2. j \in u.judged /\ j.attestation = i
        BY <3>2, <4>1
      <4> QED  BY <4>2
    <3>3. CASE i # id
      BY <3>1, <3>3
    <3> QED  BY <3>2, <3>3
  <2> QED  BY <2>1, <2>2 DEF Judged
<1>8. Spread(cfg, K, u)
  BY <1>1 DEF InPhase, Spread, Judging
<1> QED  BY <1>3, <1>4, <1>5, <1>7, <1>8 DEF ReviewOK

\* The class of an artifact is affected just when one of its judgements is.
LEMMA OwnClassAffected ==
  ASSUME NEW v, NEW a, \A j \in v.judged : j.class \in Classes
  PROVE  /\ OwnClass(v, a) \in Classes
         /\ OwnClass(v, a) = "affected" <=> \E j \in v.judged : j.artifact = a /\ j.class = "affected"
         /\ OwnClass(v, a) = "unaffected" =>
              /\ \E j \in v.judged : j.artifact = a
              /\ \A j \in v.judged : j.artifact = a => j.class = "unaffected"
<1> DEFINE classes == {j.class : j \in {k \in v.judged : k.artifact = a}}
<1>1. classes \subseteq Classes
  OBVIOUS
<1>2. OwnClass(v, a) = Aggregate(classes)
  BY DEF OwnClass
<1>3. /\ "affected" \in classes <=> \E j \in v.judged : j.artifact = a /\ j.class = "affected"
      /\ classes = {"unaffected"} =>
           /\ \E j \in v.judged : j.artifact = a
           /\ \A j \in v.judged : j.artifact = a => j.class = "unaffected"
  <2>1. ASSUME classes = {"unaffected"} PROVE \E j \in v.judged : j.artifact = a
    <3>1. "unaffected" \in classes
      BY <2>1
    <3> QED  BY <3>1
  <2>2. ASSUME classes = {"unaffected"}, NEW j \in v.judged, j.artifact = a PROVE j.class = "unaffected"
    <3>1. j.class \in classes
      BY <2>2
    <3> QED  BY <2>2, <3>1
  <2> QED  BY <2>1, <2>2
<1> HIDE DEF classes
<1>4. /\ Aggregate(classes) \in Classes
      /\ Aggregate(classes) = "affected" <=> "affected" \in classes
      /\ Aggregate(classes) = "unaffected" => classes = {"unaffected"}
  BY <1>1, AggregateMeans
<1> QED  BY <1>2, <1>3, <1>4

LEMMA SeedCore ==
  ASSUME NEW cfg, IsConfig(cfg), NEW K, StoreOK(K), NEW v, ReviewOK(cfg, K, v), v.pc = "classify",
         v.atts = {}, v.next = Len(v.order),
         NEW u, IsReview(u),
         u.affected = {a \in Reviewed(v) : OwnClass(v, a) = "affected"},
         u.pc = "propagate", u.root = v.root, u.queue = v.queue, u.order = v.order, u.edges = v.edges,
         u.owned = v.owned, u.next = v.next, u.atts = v.atts, u.judged = v.judged, u.began = v.began
  PROVE  ReviewOK(cfg, K, u)
<1>1. Shape(K, v) /\ InPhase(v) /\ Judged(cfg, K, v)
  BY DEF ReviewOK
<1>2. Shape(K, u)
  BY <1>1 DEF Shape, Judging
<1>3. InPhase(u)
  BY <1>1 DEF InPhase, Walking, Judging
<1>4. VisitedOnce(u) /\ Walk(K, u) /\ ExploredUp(u) /\ ExploredDown(K, u)
  BY WalkDone DEF Walking
<1>5. Judged(cfg, K, u)
  <2>1. Len(v.order) \in Nat /\ DOMAIN v.order = 1..Len(v.order)
    BY <1>1 DEF Shape
  <2>2. AllJudged(cfg, u)
    BY <1>1, <2>1 DEF Judged, AllJudged
  <2> QED  BY <1>1, <2>2 DEF Judged, RightlyJudged
<1>6. ASSUME NEW j \in v.judged, j.class = "affected" PROVE j.artifact \in Guilty(cfg, K, v.began)
  <2>1. RightlyJudged(cfg, K, v, j)
    BY <1>1 DEF Judged
  <2>2. PICK ev : /\ v.began.timeEvidence \subseteq ev /\ ev \subseteq K.timeEvidence
                  /\ j.class = ClassBy(cfg, K, j.attestation, ev)
    BY <2>1 DEF RightlyJudged
  <2>3. GuiltyBetween(cfg, K, v.began, j.attestation)
    BY <1>6, <2>2 DEF GuiltyBetween
  <2>4. j.attestation \in GuiltyRows(cfg, K, v.began)
    BY <2>1, <2>3 DEF RightlyJudged, GuiltyRows
  <2> QED  BY <2>1, <2>4 DEF RightlyJudged, Guilty
<1>a. \A a : OwnClass(v, a) = "affected" <=> \E j \in v.judged : j.artifact = a /\ j.class = "affected"
  <2>1. \A j \in v.judged : j.class \in Classes
    BY <1>1 DEF Judged, RightlyJudged
  <2>2. ASSUME NEW a
        PROVE  OwnClass(v, a) = "affected" <=> \E j \in v.judged : j.artifact = a /\ j.class = "affected"
    BY <2>1, OwnClassAffected
  <2> QED  BY <2>2
<1>7. Spread(cfg, K, u)
  <2>1. u.affected \subseteq Guilty(cfg, K, v.began)
    <3> SUFFICES ASSUME NEW a \in u.affected PROVE a \in Guilty(cfg, K, v.began)
      OBVIOUS
    <3>1. OwnClass(v, a) = "affected"
      OBVIOUS
    <3>2. \E j \in v.judged : j.artifact = a /\ j.class = "affected"
      BY <1>a, <3>1
    <3> QED  BY <1>6, <3>2
  <2>2. u.affected \subseteq Tainted(Guilty(cfg, K, v.began), TrustedLinks(cfg, K), K.artifacts)
    <3>1. Guilty(cfg, K, v.began) \subseteq K.artifacts
      BY DEF Guilty, GuiltyRows, StoreOK
    <3> QED  BY <2>1, <3>1, TaintedHoldsSeed
  <2>3. ASSUME NEW j \in v.judged, j.class = "affected", j.artifact \in Reviewed(v)
        PROVE  j.artifact \in u.affected
    <3>1. OwnClass(v, j.artifact) = "affected"
      BY <1>a, <2>3
    <3> QED  BY <2>3, <3>1
  <2>4. u.affected \subseteq Reviewed(u) /\ Reviewed(u) = Reviewed(v)
    BY DEF Reviewed
  <2>5. \A a \in u.affected : \E j \in v.judged : j.artifact = a
    BY <1>a
  <2> QED  BY <2>2, <2>3, <2>4, <2>5 DEF Spread
<1> QED  BY <1>2, <1>3, <1>4, <1>5, <1>7 DEF ReviewOK

LEMMA PropagateCore ==
  ASSUME NEW cfg, IsConfig(cfg), NEW K, StoreOK(K), NEW v, ReviewOK(cfg, K, v), v.pc = "propagate",
         NEW l \in v.owned, Taints(v, l),
         NEW u, IsReview(u),
         u.affected = v.affected \cup {l.owner},
         u.pc = "propagate", u.root = v.root, u.queue = v.queue, u.order = v.order, u.edges = v.edges,
         u.owned = v.owned, u.next = v.next, u.atts = v.atts, u.judged = v.judged, u.began = v.began
  PROVE  ReviewOK(cfg, K, u)
<1>1. Shape(K, v) /\ InPhase(v) /\ Walk(K, v) /\ Judged(cfg, K, v) /\ Spread(cfg, K, v)
  BY DEF ReviewOK
<1>2. Shape(K, u)
  BY <1>1 DEF Shape
<1>3. InPhase(u)
  BY <1>1 DEF InPhase, Walking, Judging
<1>4. VisitedOnce(u) /\ Walk(K, u) /\ ExploredUp(u) /\ ExploredDown(K, u)
  BY WalkDone DEF Walking
<1>5. Judged(cfg, K, u)
  BY <1>1 DEF Judged, AllJudged, RightlyJudged
<1>6. l \in TrustedLinks(cfg, K)
  <2>1. PICK j \in v.judged : j.attestation = l.attestation /\ j.anchored
    BY DEF Taints, EdgeTrusted
  <2>2. Sig(cfg, K, l.attestation).valid /\ IsAnchored(cfg, K, l.attestation)
    BY <1>1, <2>1 DEF Judged, RightlyJudged
  <2> QED  BY <1>1, <2>2 DEF Walk, TrustedLinks
<1>7. l.owner \in Tainted(Guilty(cfg, K, v.began), TrustedLinks(cfg, K), K.artifacts)
  <2>1. l.owner \in K.artifacts
    BY <1>6, LinkMeans DEF TrustedLinks
  <2>2. l.target \in Tainted(Guilty(cfg, K, v.began), TrustedLinks(cfg, K), K.artifacts)
    BY <1>1 DEF Spread, Taints
  <2> QED  BY <1>6, <2>1, <2>2, TaintedFollowsLinks
<1>8. l.owner \in Reviewed(v)
  <2>1. Waiting(v) = {}
    BY <1>1 DEF InPhase, Walking, Waiting
  <2> QED  BY <1>1, <2>1 DEF Walk, Visited
<1>9. Reviewed(u) = Reviewed(v)
  BY DEF Reviewed
<1>a. \A a \in u.affected : \E j \in v.judged : j.artifact = a
  BY <1>1 DEF Spread, Taints, EdgeTrusted
<1>10. Spread(cfg, K, u)
  BY <1>1, <1>7, <1>8, <1>9, <1>a DEF Spread, Judging
<1> QED  BY <1>2, <1>3, <1>4, <1>5, <1>10 DEF ReviewOK

LEMMA SettleCore ==
  ASSUME NEW cfg, NEW K, NEW v, ReviewOK(cfg, K, v), v.pc = "propagate",
         \A l \in v.owned : ~ Taints(v, l),
         NEW u, IsReview(u),
         u.next = 0,
         u.pc = "persist", u.root = v.root, u.queue = v.queue, u.order = v.order, u.edges = v.edges,
         u.owned = v.owned, u.atts = v.atts, u.judged = v.judged, u.affected = v.affected,
         u.began = v.began
  PROVE  ReviewOK(cfg, K, u)
<1>1. Shape(K, v) /\ InPhase(v) /\ Judged(cfg, K, v) /\ Spread(cfg, K, v)
  BY DEF ReviewOK
<1>2. Len(v.order) \in Nat /\ 0 < Len(v.order)
  <2>1. v.order # <<>> /\ v.order \in Seq(K.artifacts)
    BY <1>1 DEF InPhase, Shape
  <2> QED  BY <2>1
<1>3. Shape(K, u)
  <2>1. 0 \in 0..Len(v.order)
    BY <1>2
  <2> QED  BY <1>1, <2>1 DEF Shape, Judging
<1>4. InPhase(u)
  BY <1>1, <1>2 DEF InPhase, Walking, Judging
<1>5. VisitedOnce(u) /\ Walk(K, u) /\ ExploredUp(u) /\ ExploredDown(K, u)
  BY WalkDone DEF Walking
<1>6. Judged(cfg, K, u)
  BY <1>1 DEF Judged, AllJudged, RightlyJudged, Judging
<1>7. Spread(cfg, K, u)
  <2>1. Reviewed(u) = Reviewed(v)
    BY DEF Reviewed
  <2>2. \A l \in u.owned : ~ Taints(u, l)
    BY DEF Taints, EdgeTrusted
  <2> QED  BY <1>1, <2>1, <2>2 DEF Spread, Judging
<1> QED  BY <1>3, <1>4, <1>5, <1>6, <1>7 DEF ReviewOK

LEMMA PersistCore ==
  ASSUME NEW cfg, NEW K, NEW v, ReviewOK(cfg, K, v), v.pc = "persist", v.next + 1 # Len(v.order),
         NEW u, IsReview(u),
         u.next = v.next + 1,
         u.pc = "persist", u.root = v.root, u.queue = v.queue, u.order = v.order, u.edges = v.edges,
         u.owned = v.owned, u.atts = v.atts, u.judged = v.judged, u.affected = v.affected,
         u.began = v.began
  PROVE  ReviewOK(cfg, K, u)
<1>1. Shape(K, v) /\ InPhase(v) /\ Judged(cfg, K, v) /\ Spread(cfg, K, v)
  BY DEF ReviewOK
<1>2. v.next + 1 \in 0..Len(v.order) /\ v.next + 1 < Len(v.order)
  <2>1. Len(v.order) \in Nat /\ v.next \in 0..Len(v.order) /\ v.next < Len(v.order)
    BY <1>1 DEF InPhase, Shape
  <2> QED  BY <2>1
<1>3. Shape(K, u)
  BY <1>1, <1>2 DEF Shape
<1>4. InPhase(u)
  BY <1>1, <1>2 DEF InPhase, Walking, Judging
<1>5. VisitedOnce(u) /\ Walk(K, u) /\ ExploredUp(u) /\ ExploredDown(K, u)
  BY WalkDone DEF Walking
<1>6. Judged(cfg, K, u)
  BY <1>1 DEF Judged, AllJudged, RightlyJudged, Judging
<1>7. Spread(cfg, K, u)
  <2>1. Reviewed(u) = Reviewed(v)
    BY DEF Reviewed
  <2>2. \A l \in u.owned : ~ Taints(u, l)
    BY <1>1 DEF Spread, Taints, EdgeTrusted
  <2> QED  BY <1>1, <2>1, <2>2 DEF Spread, Judging
<1> QED  BY <1>3, <1>4, <1>5, <1>6, <1>7 DEF ReviewOK

-----------------------------------------------------------------------------
(* One lemma per step of a review.                                         *)

LEMMA ListUpKeeps ==
  ASSUME ReviewsOK, NEW w \in Reviewers, ListUp(w)
  PROVE  ReviewOK(config, Known, review'[w])
<1> DEFINE v == review[w]
           u == review'[w]
           K == Known
           cur == Head(v.queue)
<1>1. ReviewOK(config, K, v) /\ v.pc = "up"
  BY PhaseOfReview DEF ListUp
<1>2. u = [v EXCEPT !.pc = "resolve", !.queue = Tail(v.queue), !.order = Append(v.order, cur),
                    !.edges = {i \in DOMAIN K.dependencies : K.dependencies[i].artifact = cur}]
  BY KnownParts DEF ListUp, ReviewsOK, ListDependencyEdges
<1> HIDE DEF u, v, K
<1>3. IsReview(v)
  BY <1>1 DEF ReviewOK
<1>4. /\ IsReview(u)
      /\ u.pc = "resolve" /\ u.root = v.root /\ u.queue = Tail(v.queue) /\ u.order = Append(v.order, cur)
      /\ u.edges = {i \in DOMAIN K.dependencies : K.dependencies[i].artifact = cur}
      /\ u.owned = v.owned /\ u.next = v.next /\ u.atts = v.atts /\ u.judged = v.judged
      /\ u.affected = v.affected /\ u.began = v.began
  BY <1>2, <1>3 DEF IsReview
<1>5. ReviewOK(config, K, u)
  BY <1>1, <1>4, ListUpCore
<1> QED  BY <1>5 DEF K, u

LEMMA ResolveUpKeeps ==
  ASSUME StoreOK(Known), ReviewsOK, NEW w \in Reviewers, ResolveUp(w)
  PROVE  ReviewOK(config, Known, review'[w])
<1> DEFINE v == review[w]
           u == review'[w]
           K == Known
<1>1. ReviewOK(config, K, v) /\ v.pc = "resolve"
  BY PhaseOfReview DEF ResolveUp
<1>2. PICK i \in v.edges :
        LET l == LinkOf(dependencies[i])
        IN  review' = [review EXCEPT
              ![w].edges = @ \ {i},
              ![w].owned = IF Registered(l.target) THEN @ \cup {l} ELSE @,
              ![w].queue = IF Registered(l.target) THEN Visit(v, l.target) ELSE @]
  BY DEF ResolveUp
<1> DEFINE l == LinkOf(K.dependencies[i])
<1>3. u = [v EXCEPT !.edges = v.edges \ {i},
                    !.owned = IF l.target \in K.artifacts THEN v.owned \cup {l} ELSE v.owned,
                    !.queue = IF l.target \in K.artifacts THEN Visit(v, l.target) ELSE v.queue]
  BY <1>2, KnownParts DEF ReviewsOK, Registered
<1> HIDE DEF u, v, K, l
<1>4. IsReview(v)
  BY <1>1 DEF ReviewOK
<1>5. /\ IsReview(u)
      /\ u.edges = v.edges \ {i}
      /\ u.owned = IF l.target \in K.artifacts THEN v.owned \cup {l} ELSE v.owned
      /\ u.queue = IF l.target \in K.artifacts THEN Visit(v, l.target) ELSE v.queue
      /\ u.pc = v.pc /\ u.root = v.root /\ u.order = v.order /\ u.next = v.next /\ u.atts = v.atts
      /\ u.judged = v.judged /\ u.affected = v.affected /\ u.began = v.began
  BY <1>3, <1>4 DEF IsReview
<1>6. StoreOK(K) /\ l = LinkOf(K.dependencies[i])
  BY DEF K, l
<1>7. ReviewOK(config, K, u)
  BY <1>1, <1>5, <1>6, ResolveUpCore
<1> QED  BY <1>7 DEF K, u

LEMMA ListDownKeeps ==
  ASSUME StoreOK(Known), ReviewsOK, NEW w \in Reviewers, ListDown(w)
  PROVE  ReviewOK(config, Known, review'[w])
<1> DEFINE v == review[w]
           u == review'[w]
           K == Known
           E == {i \in DOMAIN K.dependencies : /\ K.dependencies[i].name = Current(v).name
                                               /\ K.dependencies[i].sha = Current(v).sha}
           first == {i \in E : \A j \in E :
                       K.dependencies[j].artifact = K.dependencies[i].artifact => i <= j}
<1>1. ReviewOK(config, K, v) /\ v.pc = "resolve" /\ v.edges = {}
  BY PhaseOfReview DEF ListDown
<1>2. first = FirstEach(ListDependentEdges(v.order[Len(v.order)]))
  BY KnownParts DEF FirstEach, ListDependentEdges, Current
<1> HIDE DEF first
<1>3. u = [v EXCEPT !.pc = IF first = {} THEN NextArtifact(v.queue) ELSE "down", !.edges = first]
  BY <1>2 DEF ListDown, ReviewsOK
<1> HIDE DEF u, v, K, E
<1>4. IsReview(v)
  BY <1>1 DEF ReviewOK
<1>5. /\ IsReview(u)
      /\ u.pc = IF u.edges = {} THEN NextArtifact(v.queue) ELSE "down"
      /\ u.edges = first
      /\ u.root = v.root /\ u.queue = v.queue /\ u.order = v.order /\ u.owned = v.owned
      /\ u.next = v.next /\ u.atts = v.atts
      /\ u.judged = v.judged /\ u.affected = v.affected /\ u.began = v.began
  BY <1>3, <1>4 DEF IsReview
<1>6. /\ StoreOK(K)
      /\ E = {i \in DOMAIN K.dependencies : /\ K.dependencies[i].name = Current(v).name
                                            /\ K.dependencies[i].sha = Current(v).sha}
      /\ first = {i \in E : \A j \in E :
                    K.dependencies[j].artifact = K.dependencies[i].artifact => i <= j}
  BY DEF K, E, first
<1>7. ReviewOK(config, K, u)
  BY <1>1, <1>5, <1>6, ListDownCore
<1> QED  BY <1>7 DEF K, u

LEMMA OldestIsIn ==
  ASSUME NEW ids, ids \subseteq Nat, ids # {}
  PROVE  Oldest(ids) \in ids
  BY LeastOfNaturals DEF Oldest

LEMMA ResolveDownKeeps ==
  ASSUME StoreOK(Known), ReviewsOK, NEW w \in Reviewers, ResolveDown(w)
  PROVE  ReviewOK(config, Known, review'[w])
<1> DEFINE v == review[w]
           u == review'[w]
           K == Known
           i == Oldest(v.edges)
           l == LinkOf(K.dependencies[i])
<1>1. ReviewOK(config, K, v) /\ v.pc = "down"
  BY PhaseOfReview DEF ResolveDown
<1>2. i \in v.edges
  <2>1. v.edges \subseteq Nat /\ v.edges # {}
    <3>1. v.edges \subseteq DOMAIN K.dependencies /\ K.dependencies \in Seq(DependencyRow) /\ v.edges # {}
      BY <1>1 DEF ReviewOK, Shape, Walk, StoreOK
    <3> QED  BY <3>1
  <2> QED  BY <2>1, OldestIsIn
<1>3. PICK found \in BOOLEAN :
        LET queue == IF found THEN Visit(v, l.owner) ELSE v.queue
        IN  /\ ~ found => LookupsFail
            /\ review' = [review EXCEPT
                 ![w].pc    = IF v.edges = {i} THEN NextArtifact(queue) ELSE "down",
                 ![w].edges = @ \ {i},
                 ![w].owned = IF found THEN @ \cup {l} ELSE @,
                 ![w].queue = queue]
  BY KnownParts DEF ResolveDown
<1> DEFINE queue == IF found THEN Visit(v, l.owner) ELSE v.queue
<1> HIDE DEF i
<1>4. u = [v EXCEPT !.pc = IF v.edges = {i} THEN NextArtifact(queue) ELSE "down",
                    !.edges = v.edges \ {i},
                    !.owned = IF found THEN v.owned \cup {l} ELSE v.owned,
                    !.queue = queue]
  BY <1>3 DEF ReviewsOK
<1> HIDE DEF u, v, K, l, queue
<1>5. IsReview(v)
  BY <1>1 DEF ReviewOK
<1>6. /\ IsReview(u)
      /\ u.pc = IF v.edges = {i} THEN NextArtifact(queue) ELSE "down"
      /\ u.edges = v.edges \ {i}
      /\ u.owned = IF found THEN v.owned \cup {l} ELSE v.owned
      /\ u.queue = queue
      /\ u.root = v.root /\ u.order = v.order /\ u.next = v.next /\ u.atts = v.atts
      /\ u.judged = v.judged /\ u.affected = v.affected /\ u.began = v.began
  BY <1>4, <1>5 DEF IsReview
<1>7. (u.edges = {} => u.pc = NextArtifact(u.queue)) /\ (u.edges # {} => u.pc = "down")
  BY <1>2, <1>6
<1>8. /\ found => u.owned = v.owned \cup {l} /\ u.queue = Visit(v, l.owner)
      /\ ~ found => u.owned = v.owned /\ u.queue = v.queue
  BY <1>6 DEF queue
<1>9. StoreOK(K) /\ l = LinkOf(K.dependencies[i]) /\ (~ found => LookupsFail)
  BY <1>3 DEF K, l
<1>10. ReviewOK(config, K, u)
  BY <1>1, <1>2, <1>6, <1>7, <1>8, <1>9, ResolveDownCore
<1> QED  BY <1>10 DEF K, u

LEMMA ListAttsKeeps ==
  ASSUME ReviewsOK, NEW w \in Reviewers, ListAtts(w)
  PROVE  ReviewOK(config, Known, review'[w])
<1> DEFINE v == review[w]
           u == review'[w]
           K == Known
<1>1. ReviewOK(config, K, v) /\ v.pc = "classify" /\ v.atts = {} /\ v.next < Len(v.order)
  BY PhaseOfReview DEF ListAtts
<1>2. u = [v EXCEPT !.next = v.next + 1,
                    !.atts = {i \in DOMAIN K.attestations :
                                K.attestations[i].artifact = v.order[v.next + 1]}]
  BY KnownParts DEF ListAtts, ReviewsOK, ListAttestations
<1> HIDE DEF u, v, K
<1>3. IsReview(v)
  BY <1>1 DEF ReviewOK
<1>4. /\ IsReview(u)
      /\ u.next = v.next + 1
      /\ u.atts = {i \in DOMAIN K.attestations : K.attestations[i].artifact = v.order[v.next + 1]}
      /\ u.pc = v.pc /\ u.root = v.root /\ u.queue = v.queue /\ u.order = v.order
      /\ u.edges = v.edges /\ u.owned = v.owned
      /\ u.judged = v.judged /\ u.affected = v.affected /\ u.began = v.began
  BY <1>2, <1>3 DEF IsReview
<1>5. ReviewOK(config, K, u)
  BY <1>1, <1>4, ListAttsCore
<1> QED  BY <1>5 DEF K, u

LEMMA ClassifyNextKeeps ==
  ASSUME IsConfig(config), StoreOK(Known), ReviewsOK, NEW w \in Reviewers, ClassifyNext(w)
  PROVE  ReviewOK(config, Known, review'[w])
<1> DEFINE v == review[w]
           u == review'[w]
           K == Known
           id == Oldest(v.atts)
           j == [artifact |-> K.attestations[id].artifact, attestation |-> id,
                 anchored |-> IsAnchored(config, K, id),
                 class |-> ClassBy(config, K, id, K.timeEvidence)]
<1>1. ReviewOK(config, K, v) /\ v.pc = "classify"
  BY PhaseOfReview DEF ClassifyNext
<1>2. id \in v.atts
  <2>1. v.atts \subseteq Nat /\ v.atts # {}
    <3>1. v.atts \subseteq DOMAIN K.attestations /\ K.attestations \in Seq(AttestationRow)
      BY <1>1 DEF ReviewOK, Shape, StoreOK
    <3> QED  BY <3>1 DEF ClassifyNext
  <2> QED  BY <2>1, OldestIsIn
<1>3. Judgement(id) = j /\ (ValidSignature(id) <=> Sig(config, K, id).valid)
  <2>1. (Anchored(id) <=> IsAnchored(config, K, id)) /\ Anchored(id) \in BOOLEAN
        /\ IsAnchored(config, K, id) \in BOOLEAN
    BY PresentMeans DEF Anchored, IsAnchored
  <2>2. ClassOf(id, timeEvidence) = ClassBy(config, K, id, K.timeEvidence)
    BY PresentMeans, KnownParts
  <2> QED  BY <2>1, <2>2, PresentMeans, KnownParts DEF Judgement
<1> HIDE DEF id, j
<1>4. u = [v EXCEPT !.atts = v.atts \ {id},
                    !.judged = IF Sig(config, K, id).valid THEN v.judged \cup {j} ELSE v.judged]
  BY <1>3 DEF ClassifyNext, ReviewsOK, id
<1> HIDE DEF u, v, K
<1>5. IsReview(v)
  BY <1>1 DEF ReviewOK
<1>6. /\ IsReview(u)
      /\ u.atts = v.atts \ {id}
      /\ u.judged = IF Sig(config, K, id).valid THEN v.judged \cup {j} ELSE v.judged
      /\ u.pc = v.pc /\ u.root = v.root /\ u.queue = v.queue /\ u.order = v.order
      /\ u.edges = v.edges /\ u.owned = v.owned /\ u.next = v.next
      /\ u.affected = v.affected /\ u.began = v.began
  BY <1>4, <1>5 DEF IsReview
<1>7. /\ StoreOK(K) /\ IsConfig(config)
      /\ j = [artifact |-> K.attestations[id].artifact, attestation |-> id,
              anchored |-> IsAnchored(config, K, id),
              class |-> ClassBy(config, K, id, K.timeEvidence)]
  BY DEF K, j
<1>8. ReviewOK(config, K, u)
  BY <1>1, <1>2, <1>6, <1>7, ClassifyNextCore
<1> QED  BY <1>8 DEF K, u

LEMMA SeedKeeps ==
  ASSUME IsConfig(config), StoreOK(Known), ReviewsOK, NEW w \in Reviewers, Seed(w)
  PROVE  ReviewOK(config, Known, review'[w])
<1> DEFINE v == review[w]
           u == review'[w]
           K == Known
<1>1. ReviewOK(config, K, v) /\ v.pc = "classify" /\ v.atts = {} /\ v.next = Len(v.order)
  BY PhaseOfReview DEF Seed
<1>2. u = [v EXCEPT !.pc = "propagate",
                    !.affected = {a \in Reviewed(v) : OwnClass(v, a) = "affected"}]
  BY DEF Seed, ReviewsOK
<1>3. StoreOK(K)
  OBVIOUS
<1> HIDE DEF u, v, K
<1>4. IsReview(v)
  BY <1>1 DEF ReviewOK
<1>5. /\ IsReview(u)
      /\ u.affected = {a \in Reviewed(v) : OwnClass(v, a) = "affected"}
      /\ u.pc = "propagate" /\ u.root = v.root /\ u.queue = v.queue /\ u.order = v.order
      /\ u.edges = v.edges /\ u.owned = v.owned /\ u.next = v.next /\ u.atts = v.atts
      /\ u.judged = v.judged /\ u.began = v.began
  BY <1>2, <1>4 DEF IsReview
<1>6. ReviewOK(config, K, u)
  BY <1>1, <1>3, <1>5, SeedCore
<1> QED  BY <1>6 DEF K, u

LEMMA PropagateKeeps ==
  ASSUME IsConfig(config), StoreOK(Known), ReviewsOK, NEW w \in Reviewers, Propagate(w)
  PROVE  ReviewOK(config, Known, review'[w])
<1> DEFINE v == review[w]
           u == review'[w]
           K == Known
<1>1. ReviewOK(config, K, v) /\ v.pc = "propagate"
  BY PhaseOfReview DEF Propagate
<1>2. PICK l \in v.owned :
        Taints(v, l) /\ review' = [review EXCEPT ![w].affected = @ \cup {l.owner}]
  BY DEF Propagate
<1>3. u = [v EXCEPT !.affected = v.affected \cup {l.owner}]
  BY <1>2 DEF ReviewsOK
<1>4. StoreOK(K)
  OBVIOUS
<1> HIDE DEF u, v, K
<1>5. IsReview(v)
  BY <1>1 DEF ReviewOK
<1>6. /\ IsReview(u)
      /\ u.affected = v.affected \cup {l.owner}
      /\ u.pc = v.pc /\ u.root = v.root /\ u.queue = v.queue /\ u.order = v.order
      /\ u.edges = v.edges /\ u.owned = v.owned /\ u.next = v.next /\ u.atts = v.atts
      /\ u.judged = v.judged /\ u.began = v.began
  BY <1>3, <1>5 DEF IsReview
<1>7. Taints(v, l)
  BY <1>2
<1>8. ReviewOK(config, K, u)
  BY <1>1, <1>4, <1>6, <1>7, PropagateCore
<1> QED  BY <1>8 DEF K, u

LEMMA SettleKeeps ==
  ASSUME ReviewsOK, NEW w \in Reviewers, Settle(w)
  PROVE  ReviewOK(config, Known, review'[w])
<1> DEFINE v == review[w]
           u == review'[w]
           K == Known
<1>1. ReviewOK(config, K, v) /\ v.pc = "propagate" /\ \A l \in v.owned : ~ Taints(v, l)
  BY PhaseOfReview DEF Settle
<1>2. u = [v EXCEPT !.pc = "persist", !.next = 0]
  BY DEF Settle, ReviewsOK
<1> HIDE DEF u, v, K
<1>3. IsReview(v)
  BY <1>1 DEF ReviewOK
<1>4. /\ IsReview(u)
      /\ u.pc = "persist" /\ u.next = 0
      /\ u.root = v.root /\ u.queue = v.queue /\ u.order = v.order
      /\ u.edges = v.edges /\ u.owned = v.owned /\ u.atts = v.atts
      /\ u.judged = v.judged /\ u.affected = v.affected /\ u.began = v.began
  BY <1>2, <1>3 DEF IsReview
<1>5. ReviewOK(config, K, u)
  BY <1>1, <1>4, SettleCore
<1> QED  BY <1>5 DEF K, u

\* The last row ends the review.
LEMMA PersistKeeps ==
  ASSUME ReviewsOK, NEW w \in Reviewers, Persist(w)
  PROVE  review'[w] = NoReview \/ ReviewOK(config, Known, review'[w])
<1> DEFINE v == review[w]
           u == review'[w]
           K == Known
<1>1. ReviewOK(config, K, v) /\ v.pc = "persist"
  BY PhaseOfReview DEF Persist
<1>2. CASE v.next + 1 = Len(v.order)
  BY <1>2 DEF Persist, ReviewsOK
<1>3. CASE v.next + 1 # Len(v.order)
  <2>1. u = [v EXCEPT !.next = v.next + 1]
    BY <1>3 DEF Persist, ReviewsOK
  <2> HIDE DEF u, v, K
  <2>2. IsReview(v)
    BY <1>1 DEF ReviewOK
  <2>3. /\ IsReview(u)
        /\ u.next = v.next + 1
        /\ u.pc = v.pc /\ u.root = v.root /\ u.queue = v.queue /\ u.order = v.order
        /\ u.edges = v.edges /\ u.owned = v.owned /\ u.atts = v.atts
        /\ u.judged = v.judged /\ u.affected = v.affected /\ u.began = v.began
    BY <2>1, <2>2 DEF IsReview
  <2>4. ReviewOK(config, K, u)
    BY <1>1, <1>3, <2>3, PersistCore
  <2> QED  BY <2>4 DEF K, u
<1> QED  BY <1>2, <1>3

-----------------------------------------------------------------------------
(* What a settled review says.                                             *)

LEMMA SettledParts ==
  ASSUME NEW v, ReviewOK(config, Known, v), v.pc = "persist"
  PROVE  /\ StoreOK(v.began) /\ Grows(v.began, Known) /\ v.root \in v.began.artifacts
         /\ Walk(Known, v) /\ Visited(v) = Reviewed(v)
         /\ \A i \in DOMAIN v.began.dependencies :
              LET l == LinkOf(v.began.dependencies[i])
              IN  l \in Links(v.began) /\ l.owner \in Reviewed(v) =>
                    l \in v.owned /\ l.target \in Reviewed(v)
         /\ \A l \in Links(v.began) :
              ~ LookupsFail /\ l.target \in Reviewed(v) => l.owner \in Reviewed(v)
         /\ \A j \in v.judged : RightlyJudged(config, Known, v, j)
         /\ \A i \in DOMAIN v.began.attestations :
              v.began.attestations[i].artifact \in Reviewed(v) /\ Sig(config, v.began, i).valid
              => \E j \in v.judged : j.attestation = i
         /\ Spread(config, Known, v)
<1>1. /\ Shape(Known, v) /\ InPhase(v) /\ Walk(Known, v) /\ ExploredUp(v) /\ ExploredDown(Known, v)
      /\ Judged(config, Known, v) /\ Spread(config, Known, v)
  BY DEF ReviewOK
<1>2. v.pc \notin Walking /\ v.pc # "resolve" /\ v.pc # "down" /\ v.pc \in Judging /\ v.pc # "classify"
  BY DEF Walking, Judging
<1>3. Visited(v) = Reviewed(v) /\ v.atts = {}
  <2>1. Waiting(v) = {}
    BY <1>1, <1>2 DEF InPhase, Waiting
  <2> QED  BY <1>1, <1>2, <2>1 DEF InPhase, Visited
<1>4. ASSUME NEW i \in DOMAIN v.began.dependencies, NEW l, l = LinkOf(v.began.dependencies[i]),
             l \in Links(v.began), l.owner \in Reviewed(v)
      PROVE  l \in v.owned /\ l.target \in Reviewed(v)
  <2>1. PICK k \in DOMAIN v.order : l.owner = v.order[k]
    BY <1>4 DEF Reviewed
  <2> QED  BY <1>1, <1>2, <1>3, <1>4, <2>1 DEF ExploredUp
<1>5. ASSUME NEW l \in Links(v.began), ~ LookupsFail, l.target \in Reviewed(v)
      PROVE  l.owner \in Reviewed(v)
  <2>1. PICK k \in DOMAIN v.order : l.target = v.order[k]
    BY <1>5 DEF Reviewed
  <2>2. ~ ToCome(Known, v, l.owner)
    BY <1>2 DEF ToCome
  <2> QED  BY <1>1, <1>3, <1>5, <2>1, <2>2 DEF ExploredDown
<1>6. ASSUME NEW i \in DOMAIN v.began.attestations,
             v.began.attestations[i].artifact \in Reviewed(v), Sig(config, v.began, i).valid
      PROVE  \E j \in v.judged : j.attestation = i
  <2>1. PICK k \in DOMAIN v.order : v.began.attestations[i].artifact = v.order[k]
    BY <1>6 DEF Reviewed
  <2> QED  BY <1>1, <1>2, <1>3, <1>6, <2>1 DEF Judged, AllJudged
<1>7. StoreOK(v.began) /\ Grows(v.began, Known) /\ v.root \in v.began.artifacts
  BY <1>1 DEF Shape
<1>8. \A j \in v.judged : RightlyJudged(config, Known, v, j)
  BY <1>1 DEF Judged
<1> QED  BY <1>1, <1>3, <1>4, <1>5, <1>6, <1>7, <1>8

LEMMA SettledCovers ==
  ASSUME ~ LookupsFail, NEW v, ReviewOK(config, Known, v), v.pc = "persist"
  PROVE  Covers(Reviewed(v), v.root, v.began)
<1>1. /\ StoreOK(v.began) /\ v.root \in v.began.artifacts
      /\ Walk(Known, v) /\ Visited(v) = Reviewed(v)
  BY SettledParts
<1> DEFINE B == v.began
           C == Reviewed(v) \cap B.artifacts
<1>2. \A l \in Links(B) : l.target \in C <=> l.owner \in C
  <2> SUFFICES ASSUME NEW l \in Links(B) PROVE l.target \in C <=> l.owner \in C
    OBVIOUS
  <2>1. l.owner \in B.artifacts /\ l.target \in B.artifacts
    BY DEF Links, LinksOf
  <2>2. PICK i \in DOMAIN B.dependencies : l = LinkOf(B.dependencies[i])
    BY DEF Links, LinksOf
  <2>3. l.owner \in Reviewed(v) => l.target \in Reviewed(v)
    BY <2>2, SettledParts
  <2>4. l.target \in Reviewed(v) => l.owner \in Reviewed(v)
    BY SettledParts
  <2> QED  BY <2>1, <2>3, <2>4
<1>3. Around(v.root, B) \subseteq C
  <2>1. v.root \in C /\ C \subseteq B.artifacts
    BY <1>1 DEF Walk
  <2> HIDE DEF B, C
  <2>2. Connected(v.root, Links(B), B.artifacts) \subseteq C
    BY <1>2, <2>1, ConnectedIsLeast
  <2> QED  BY <2>2 DEF Around, Links
<1>4. Reviewed(v) \subseteq Connected(v.root, LinksOf(dependencies, artifacts), artifacts)
  BY <1>1, KnownParts DEF Walk, Links
<1> QED  BY <1>3, <1>4 DEF Covers

LEMMA PresentGuilt ==
  ASSUME NEW began
  PROVE  /\ {attestations[id].artifact : id \in {i \in DOMAIN attestations :
                   ValidSignature(i) /\ ConvictedBetween(i, began)}}
               = Guilty(config, Known, began)
         /\ Trusted(LinksOf(dependencies, artifacts)) = TrustedLinks(config, Known)
<1>1. \A i : /\ ValidSignature(i) <=> Sig(config, Known, i).valid
             /\ Anchored(i) <=> IsAnchored(config, Known, i)
             /\ ConvictedBetween(i, began) <=> GuiltyBetween(config, Known, began, i)
  BY PresentMeans, KnownParts DEF ConvictedBetween, GuiltyBetween
<1>2. {i \in DOMAIN attestations : ValidSignature(i) /\ ConvictedBetween(i, began)}
        = GuiltyRows(config, Known, began)
  BY <1>1, KnownParts DEF GuiltyRows
<1>3. {attestations[id].artifact : id \in GuiltyRows(config, Known, began)} = Guilty(config, Known, began)
  BY KnownParts DEF Guilty
<1>4. Trusted(LinksOf(dependencies, artifacts)) = TrustedLinks(config, Known)
  BY <1>1, KnownParts DEF Trusted, TrustedLinks, Links
<1> QED  BY <1>2, <1>3, <1>4

LEMMA SettledConvicts ==
  ASSUME NEW v, ReviewOK(config, Known, v), v.pc = "persist"
  PROVE  JustlyConvicted(v.affected, v.began)
<1>1. v.affected \subseteq Tainted(Guilty(config, Known, v.began), TrustedLinks(config, Known), artifacts)
  BY KnownParts DEF ReviewOK, Spread
<1> QED  BY <1>1, PresentGuilt DEF JustlyConvicted

LEMMA SettledClears ==
  ASSUME IsConfig(config), StoreOK(Known), NEW v, ReviewOK(config, Known, v), v.pc = "persist"
  PROVE  JustlyCleared({a \in Reviewed(v) : FinalClass(v, a) = "unaffected"}, v.began)
<1> SUFFICES ASSUME NEW a \in Reviewed(v), FinalClass(v, a) = "unaffected"
             PROVE  /\ \E i \in DOMAIN attestations : attestations[i].artifact = a /\ ValidSignature(i)
                    /\ \A i \in DOMAIN v.began.attestations :
                         attestations[i].artifact = a /\ ValidSignature(i)
                         => ClassOf(i, timeEvidence) = "unaffected"
  BY DEF JustlyCleared
<1>1. \A j \in v.judged : RightlyJudged(config, Known, v, j)
  BY SettledParts
<1>2. /\ OwnClass(v, a) \in Classes
      /\ OwnClass(v, a) = "affected" <=> \E j \in v.judged : j.artifact = a /\ j.class = "affected"
      /\ OwnClass(v, a) = "unaffected" =>
           /\ \E j \in v.judged : j.artifact = a
           /\ \A j \in v.judged : j.artifact = a => j.class = "unaffected"
  <2>1. \A j \in v.judged : j.class \in Classes
    BY <1>1 DEF RightlyJudged
  <2> QED  BY <2>1, OwnClassAffected
<1>3. OwnClass(v, a) = "unaffected"
  <2>1. a \notin v.affected /\ OwnClass(v, a) # "insufficient"
    BY DEF FinalClass
  <2>2. OwnClass(v, a) # "affected"
    BY <1>2, <2>1, SettledParts DEF Spread, Judging
  <2> QED  BY <1>2, <2>1, <2>2 DEF Classes
<1>4. \E i \in DOMAIN attestations : attestations[i].artifact = a /\ ValidSignature(i)
  <2>1. PICK j \in v.judged : j.artifact = a
    BY <1>2, <1>3
  <2>2. /\ j.attestation \in DOMAIN attestations
        /\ attestations[j.attestation].artifact = a
        /\ ValidSignature(j.attestation)
    BY <1>1, <2>1, KnownParts, PresentMeans DEF RightlyJudged
  <2> QED  BY <2>2
<1>5. ASSUME NEW i \in DOMAIN v.began.attestations, attestations[i].artifact = a, ValidSignature(i)
      PROVE  ClassOf(i, timeEvidence) = "unaffected"
  <2>1. Grows(v.began, Known)
    BY SettledParts
  <2>2. Known.attestations[i] = v.began.attestations[i]
    BY <2>1 DEF Grows, Kept
  <2>3. v.began.attestations[i].artifact \in Reviewed(v) /\ Sig(config, v.began, i).valid
    BY <1>5, <2>2, KnownParts, PresentMeans DEF Sig
  <2>4. PICK j \in v.judged : j.attestation = i
    BY <2>3, SettledParts
  <2>5. RightlyJudged(config, Known, v, j)
    BY <1>1
  <2>6. j.artifact = a /\ j.class = "unaffected"
    BY <1>2, <1>3, <1>5, <2>4, <2>5, KnownParts DEF RightlyJudged
  <2>7. PICK ev : /\ v.began.timeEvidence \subseteq ev /\ ev \subseteq Known.timeEvidence
                  /\ j.class = ClassBy(config, Known, i, ev)
    BY <2>4, <2>5 DEF RightlyJudged
  <2>8. ClassBy(config, Known, i, Known.timeEvidence) = "unaffected"
    BY <2>6, <2>7, ClassBetween DEF StoreOK
  <2> QED  BY <2>8, PresentMeans, KnownParts
<1> QED  BY <1>4, <1>5

LEMMA SettledSpares ==
  ASSUME IsConfig(config), StoreOK(Known), ~ LookupsFail,
         NEW v, ReviewOK(config, Known, v), v.pc = "persist"
  PROVE  NoneSpared(v.affected, v.root, v.began)
<1> DEFINE B == v.began
           rows == {i \in DOMAIN B.attestations :
                      /\ ValidSignature(i)
                      /\ ClassOf(i, B.timeEvidence) = "affected"
                      /\ ClassOf(i, timeEvidence) = "affected"}
           guilty == {attestations[id].artifact : id \in rows}
           around == Around(v.root, B)
           links == Trusted(LinksOf(B.dependencies, B.artifacts))
           C == v.affected \cap around
<1>1. Grows(B, Known) /\ StoreOK(B) /\ Spread(config, Known, v)
  BY SettledParts
<1>2. around \subseteq Reviewed(v)
  BY SettledCovers DEF Covers
<1>3. \A i \in DOMAIN B.attestations :
        i \in DOMAIN attestations /\ attestations[i] = B.attestations[i]
  BY <1>1, KnownParts DEF Grows, Kept
<1>4. \A i \in DOMAIN B.attestations :
        ValidSignature(i) /\ attestations[i].artifact \in Reviewed(v) => \E j \in v.judged : j.attestation = i
  <2> SUFFICES ASSUME NEW i \in DOMAIN B.attestations, ValidSignature(i), attestations[i].artifact \in Reviewed(v)
               PROVE  \E j \in v.judged : j.attestation = i
    OBVIOUS
  <2>1. Sig(config, B, i).valid
    BY <1>3, KnownParts, PresentMeans DEF Sig
  <2> QED  BY <1>3, <2>1, SettledParts
<1>5. \A j \in v.judged : RightlyJudged(config, Known, v, j)
  BY SettledParts
<1>6. guilty \cap around \subseteq C
  <2> SUFFICES ASSUME NEW i \in rows, attestations[i].artifact \in around
               PROVE  attestations[i].artifact \in v.affected
    OBVIOUS
  <2>1. attestations[i].artifact \in Reviewed(v)
    BY <1>2
  <2>2. PICK j \in v.judged : j.attestation = i
    BY <1>4, <2>1
  <2>3. RightlyJudged(config, Known, v, j)
    BY <1>5
  <2>4. PICK ev : /\ B.timeEvidence \subseteq ev /\ ev \subseteq Known.timeEvidence
                  /\ j.class = ClassBy(config, Known, i, ev)
    BY <2>2, <2>3 DEF RightlyJudged
  <2>5. /\ ClassBy(config, Known, i, B.timeEvidence) = "affected"
        /\ ClassBy(config, Known, i, Known.timeEvidence) = "affected"
    BY PresentMeans, KnownParts
  <2>6. j.class = "affected"
    BY <2>4, <2>5, ClassBetween DEF StoreOK
  <2>7. j.artifact = attestations[i].artifact
    BY <2>2, <2>3, KnownParts DEF RightlyJudged
  <2> QED  BY <1>1, <2>1, <2>6, <2>7 DEF Spread, Judging
<1>7. ASSUME NEW l \in links, l.target \in C, l.owner \in around
      PROVE  l.owner \in C
  <2>1. l \in Links(B) /\ ValidSignature(l.attestation) /\ Anchored(l.attestation)
    BY DEF Trusted, Links
  <2>2. PICK n \in DOMAIN B.dependencies : l = LinkOf(B.dependencies[n])
    BY <2>1 DEF Links, LinksOf
  <2>3. l \in v.owned
    BY <1>2, <1>7, <2>1, <2>2, SettledParts
  <2>4. l.attestation \in DOMAIN B.attestations /\ B.attestations[l.attestation].artifact = l.owner
    BY <1>1, <2>1, LinkMeans
  <2>5. PICK j \in v.judged : j.attestation = l.attestation
    BY <1>2, <1>3, <1>4, <1>7, <2>1, <2>4
  <2>6. RightlyJudged(config, Known, v, j)
    BY <1>5
  <2>7. j.artifact = l.owner
    BY <1>3, <2>4, <2>5, <2>6, KnownParts DEF RightlyJudged
  <2>8. j.anchored
    BY <2>1, <2>5, <2>6, PresentMeans DEF RightlyJudged
  <2>9. EdgeTrusted(v, l)
    BY <2>5, <2>7, <2>8 DEF EdgeTrusted
  <2>10. ~ Taints(v, l)
    BY <1>1, <2>3 DEF Spread
  <2> QED  BY <1>7, <2>9, <2>10 DEF Taints
<1>8. C \subseteq around
  OBVIOUS
<1> HIDE DEF guilty, around, links, C
<1>9. Tainted(guilty \cap around, links, around) \subseteq C
  BY <1>6, <1>7, <1>8, TaintedIsLeast
<1>10. Tainted(guilty \cap around, links, around) \subseteq v.affected
  BY <1>9 DEF C
<1> QED  BY <1>10 DEF NoneSpared, guilty, around, links

-----------------------------------------------------------------------------
(* Every step keeps every review.                                          *)

\* Whoever does not review, and whatever is stored meanwhile.
LEMMA ReviewsUndisturbed ==
  ASSUME IsConfig(config), StoreOK(Known), ReviewsOK,
         UNCHANGED <<config, review>>, StoreOK(Known'), Grows(Known, Known')
  PROVE  ReviewsOK'
<1>1. review' = [w \in Reviewers |-> review'[w]]
  BY DEF ReviewsOK
<1>2. ASSUME NEW w \in Reviewers PROVE review'[w] = NoReview \/ ReviewOK(config', Known', review'[w])
  <2>1. CASE review[w] = NoReview
    BY <2>1
  <2>2. CASE ReviewOK(config, Known, review[w])
    <3>1. ReviewOK(config, Known', review[w])
      BY <2>2, ReviewStaysOK
    <3> QED  BY <3>1
  <2> QED  BY <2>1, <2>2 DEF ReviewsOK
<1> QED  BY <1>1, <1>2 DEF ReviewsOK

\* One review begins, goes on or ends.
Moves(w) == (\E a \in artifacts : Locate(w, a)) \/ ReviewStep(w) \/ FailReview(w)

LEMMA MovesAlone ==
  ASSUME ReviewsOK, NEW w \in Reviewers, Moves(w)
  PROVE  /\ review' = [x \in Reviewers |-> review'[x]]
         /\ \A x \in Reviewers : x # w => review'[x] = review[x]
<1>1. CASE \E a \in artifacts : Locate(w, a)
  BY <1>1 DEF Locate, ReviewsOK
<1>2. CASE ListUp(w)
  BY <1>2 DEF ListUp, ReviewsOK
<1>3. CASE ResolveUp(w)
  BY <1>3 DEF ResolveUp, ReviewsOK
<1>4. CASE ListDown(w)
  BY <1>4 DEF ListDown, ReviewsOK
<1>5. CASE ResolveDown(w)
  BY <1>5 DEF ResolveDown, ReviewsOK
<1>6. CASE ListAtts(w)
  BY <1>6 DEF ListAtts, ReviewsOK
<1>7. CASE ClassifyNext(w)
  BY <1>7 DEF ClassifyNext, ReviewsOK
<1>8. CASE Seed(w)
  BY <1>8 DEF Seed, ReviewsOK
<1>9. CASE Propagate(w)
  BY <1>9 DEF Propagate, ReviewsOK
<1>10. CASE Settle(w)
  BY <1>10 DEF Settle, ReviewsOK
<1>11. CASE Persist(w)
  BY <1>11 DEF Persist, ReviewsOK
<1>12. CASE FailReview(w)
  BY <1>12 DEF FailReview, ReviewsOK
<1> QED  BY <1>1, <1>2, <1>3, <1>4, <1>5, <1>6, <1>7, <1>8, <1>9, <1>10, <1>11, <1>12 DEF Moves, ReviewStep

LEMMA MoveIsSound ==
  ASSUME IsConfig(config), StoreOK(Known), ReviewsOK, NEW w \in Reviewers, Moves(w)
  PROVE  review'[w] = NoReview \/ ReviewOK(config, Known, review'[w])
<1>1. CASE \E a \in artifacts : Locate(w, a)
  BY <1>1, LocateKeeps
<1>2. CASE ReviewStep(w)
  BY <1>2, ListUpKeeps, ResolveUpKeeps, ListDownKeeps, ResolveDownKeeps, ListAttsKeeps,
     ClassifyNextKeeps, SeedKeeps, PropagateKeeps, SettleKeeps, PersistKeeps DEF ReviewStep
<1>3. CASE FailReview(w)
  BY <1>3 DEF FailReview, ReviewsOK
<1> QED  BY <1>1, <1>2, <1>3 DEF Moves

LEMMA MoveKeepsReviews ==
  ASSUME IsConfig(config), StoreOK(Known), ReviewsOK, NEW w \in Reviewers, Moves(w),
         UNCHANGED config, StoreOK(Known'), Grows(Known, Known')
  PROVE  ReviewsOK'
<1>1. review' = [x \in Reviewers |-> review'[x]]
  BY MovesAlone
<1>2. ASSUME NEW x \in Reviewers PROVE review'[x] = NoReview \/ ReviewOK(config', Known', review'[x])
  <2>1. review'[x] = NoReview \/ ReviewOK(config, Known, review'[x])
    <3>1. CASE x = w
      BY <3>1, MoveIsSound
    <3>2. CASE x # w
      BY <3>2, MovesAlone DEF ReviewsOK
    <3> QED  BY <3>1, <3>2
  <2>2. ASSUME ReviewOK(config, Known, review'[x]) PROVE ReviewOK(config, Known', review'[x])
    BY <2>2, ReviewStaysOK
  <2> QED  BY <2>1, <2>2
<1> QED  BY <1>1, <1>2 DEF ReviewsOK

\* What a move stores: nothing, or the row of an artifact reviewed.
LEMMA MoveStores ==
  ASSUME NEW w \in Reviewers, Moves(w)
  PROVE  /\ UNCHANGED <<config, artifacts, attestations, dependencies, timeEvidence, policies,
                        revocationEvents>>
         /\ opened \in Nat => opened' \in Nat
         /\ verifications' = verifications \/ Persist(w)
<1>1. CASE \E a \in artifacts : Locate(w, a)
  BY <1>1 DEF Locate, storeVars
<1>2. CASE ReviewStep(w) /\ ~ Persist(w)
  BY <1>2 DEF ReviewStep, ListUp, ResolveUp, ListDown, ResolveDown, ListAtts, ClassifyNext, Seed,
              Propagate, Settle, storeVars
<1>3. CASE Persist(w)
  BY <1>3 DEF Persist
<1>4. CASE FailReview(w)
  BY <1>4 DEF FailReview, storeVars
<1> QED  BY <1>1, <1>2, <1>3, <1>4 DEF Moves

LEMMA PersistStores ==
  ASSUME IsConfig(config), StoreOK(Known), ReviewsOK, NEW w \in Reviewers, Persist(w),
         verifications \in Seq(VerificationRow)
  PROVE  verifications' \in Seq(VerificationRow)
<1> DEFINE v == review[w]
           a == v.order[v.next + 1]
<1>1. ReviewOK(config, Known, v) /\ v.pc = "persist"
  BY PhaseOfReview DEF Persist
<1>2. a \in Artifact
  <2>1. /\ v.order \in Seq(Known.artifacts) /\ v.next \in 0..Len(v.order) /\ v.next < Len(v.order)
        /\ Known.artifacts \subseteq Artifact
    BY <1>1 DEF ReviewOK, Shape, InPhase, StoreOK
  <2> HIDE DEF v
  <2>2. Len(v.order) \in Nat /\ v.next + 1 \in 1..Len(v.order)
    BY <2>1
  <2> QED  BY <2>1, <2>2
<1>3. FinalClass(v, a) \in Classes
  BY DEF FinalClass, Classes
<1>4. config.feed # NoFeed => config.feed.version \in Nat
  BY DEF IsConfig, IsFeed
<1>5. <<>> \in Seq(VerdictRow)
  OBVIOUS
<1>6. ReviewRow(v, a) \in VerificationRow
  <2> DEFINE anySig == \E j \in v.judged : j.artifact = a
  <2>1. anySig \in BOOLEAN
    OBVIOUS
  <2> HIDE DEF anySig, v, a
  <2> QED  BY <1>2, <1>3, <1>4, <1>5, <2>1 DEF ReviewRow, VerificationRow, Decisions, Classes, anySig
<1>7. verifications' = Append(verifications, ReviewRow(v, a))
  BY DEF Persist, SaveVerification, Due
<1> HIDE DEF v, a
<1> QED  BY <1>6, <1>7

-----------------------------------------------------------------------------
(* The inductive invariant of Review by itself.                            *)

ReviewInv ==
  /\ IsConfig(config) /\ StoreTypeOK /\ StoreOK(Known)
  /\ opened \in Nat
  /\ ReviewsOK

LEMMA StoredStarts == ReviewInit => ReviewInv
<1> SUFFICES ASSUME ReviewInit PROVE ReviewInv
  OBVIOUS
<1>1. PICK s \in Stores : /\ config = s.config /\ artifacts = s.artifacts
                          /\ attestations = s.attestations /\ dependencies = s.dependencies
  BY DEF ReviewInit
<1>2. Stored(s)
  BY ReviewAssumption
<1>3. timeEvidence = {} /\ policies = {} /\ verifications = <<>> /\ revocationEvents = <<>>
  BY DEF ReviewInit
<1>4. StoreOK(Known)
  <2>1. IsFiniteSet({})
    BY FS_EmptySet
  <2> QED  BY <1>1, <1>2, <1>3, <2>1, KnownParts DEF StoreOK, Stored, Backed
<1>5. StoreTypeOK
  <2>1. /\ <<>> \in Seq(VerificationRow) /\ DOMAIN <<>> = {}
        /\ <<>> \in [{} -> [comp : Int, version : Nat]]
    OBVIOUS
  <2> QED  BY <1>1, <1>2, <1>3, <2>1 DEF StoreTypeOK, Stored
<1>6. ReviewsOK
  BY DEF ReviewInit, ReviewsOK
<1>7. IsConfig(config) /\ opened \in Nat
  BY <1>1, <1>2 DEF Stored, ReviewInit
<1> QED  BY <1>4, <1>5, <1>6, <1>7 DEF ReviewInv

\* A stamp that is stored is one that was submitted.
LEMMA IngestStores ==
  ASSUME StoreOK(Known), NEW s \in Stamps, Ingest(s)
  PROVE  StoreOK(Known') /\ Grows(Known, Known') /\ timeEvidence' \subseteq TimeEvidenceRow
<1> DEFINE row == [envelope |-> s.claimed, tsa |-> s.tsa, time |-> s.time]
<1>1. /\ Known'.artifacts = Known.artifacts /\ Known'.attestations = Known.attestations
      /\ Known'.dependencies = Known.dependencies
      /\ Known'.timeEvidence = Known.timeEvidence \cup {row}
  BY DEF Ingest, IngestRow, Known
<1>2. row \in TimeEvidenceRow
  BY ReviewAssumption DEF Stamp, TimeEvidenceRow
<1> HIDE DEF row
<1>3. IsFiniteSet(Known.timeEvidence \cup {row})
  BY FS_AddElement DEF StoreOK
<1>4. StoreOK(Known')
  BY <1>1, <1>2, <1>3 DEF StoreOK, Backed
<1>5. Grows(Known, Known')
  BY <1>1 DEF Grows, Kept
<1>6. Known'.timeEvidence = timeEvidence'
  BY DEF Known
<1> QED  BY <1>4, <1>5, <1>6 DEF StoreOK

LEMMA ReviewInvKept == ReviewInv /\ [ReviewNext]_reviewSystem => ReviewInv'
<1> SUFFICES ASSUME ReviewInv, [ReviewNext]_reviewSystem PROVE ReviewInv'
  OBVIOUS
<1>1. IsConfig(config) /\ StoreTypeOK /\ StoreOK(Known) /\ opened \in Nat /\ ReviewsOK
  BY DEF ReviewInv
<1>2. ASSUME NEW s \in Stamps, Ingest(s) PROVE ReviewInv'
  <2>1. /\ UNCHANGED <<config, artifacts, attestations, dependencies, policies, verifications,
                       revocationEvents, review, opened>>
    BY <1>2 DEF Ingest, reviewVars
  <2>2. StoreOK(Known') /\ Grows(Known, Known') /\ timeEvidence' \subseteq TimeEvidenceRow
    BY <1>1, <1>2, IngestStores
  <2>3. ReviewsOK'
    BY <1>1, <2>1, <2>2, ReviewsUndisturbed
  <2>4. StoreTypeOK'
    BY <1>1, <2>1, <2>2 DEF StoreTypeOK
  <2> QED  BY <1>1, <2>1, <2>2, <2>3, <2>4 DEF ReviewInv
<1>3. ASSUME NEW w \in Reviewers, Moves(w) PROVE ReviewInv'
  <2>1. /\ UNCHANGED <<config, artifacts, attestations, dependencies, timeEvidence, policies,
                       revocationEvents>>
        /\ opened' \in Nat
        /\ verifications' = verifications \/ Persist(w)
    BY <1>1, <1>3, MoveStores
  <2>2. StoreOK(Known') /\ Grows(Known, Known')
    <3>1. /\ Known'.artifacts = Known.artifacts /\ Known'.attestations = Known.attestations
          /\ Known'.dependencies = Known.dependencies /\ Known'.timeEvidence = Known.timeEvidence
      BY <2>1 DEF Known
    <3> QED  BY <1>1, <3>1 DEF StoreOK, Backed, Grows, Kept
  <2>3. ReviewsOK'
    BY <1>1, <1>3, <2>1, <2>2, MoveKeepsReviews
  <2>4. verifications' \in Seq(VerificationRow)
    BY <1>1, <2>1, PersistStores DEF StoreTypeOK
  <2>5. StoreTypeOK'
    BY <1>1, <2>1, <2>4 DEF StoreTypeOK
  <2> QED  BY <1>1, <2>1, <2>2, <2>3, <2>5 DEF ReviewInv
<1>4. CASE UNCHANGED reviewSystem
  <2>1. /\ UNCHANGED <<config, artifacts, attestations, dependencies, timeEvidence, policies,
                       verifications, revocationEvents, review, opened>>
    BY <1>4 DEF reviewSystem, storeVars, reviewVars
  <2>2. Known' = Known
    BY <2>1 DEF Known
  <2> QED  BY <1>1, <2>1, <2>2 DEF ReviewInv, StoreTypeOK, ReviewsOK
<1> QED  BY <1>2, <1>3, <1>4 DEF ReviewNext, Moves

\* The store and every review goroutine are sound in every state: each review
\* has explored, judged and spread exactly as far as its counters say.
THEOREM ReviewInvariant == ReviewSpec => []ReviewInv
<1> QED  BY StoredStarts, ReviewInvKept, PTL DEF ReviewSpec

-----------------------------------------------------------------------------
(* What every review guarantees.                                           *)

LEMMA ReviewInvTypes == ASSUME ReviewInv PROVE ReviewTypeOK
<1> SUFFICES ASSUME NEW w \in Reviewers, Reviewing(w)
             PROVE  LET v == review[w]
                    IN  /\ v.pc \in {"up", "resolve", "down", "classify", "propagate", "persist"}
                        /\ v.root \in artifacts /\ v.affected \subseteq artifacts
                        /\ v.order \in Seq(artifacts) /\ v.queue \in Seq(artifacts)
                        /\ v.edges \subseteq DOMAIN dependencies
                        /\ v.atts \subseteq DOMAIN attestations
                        /\ \A l \in v.owned : {l.owner, l.target} \subseteq artifacts
                        /\ v.judged \subseteq [artifact : artifacts, attestation : DOMAIN attestations,
                                               anchored : BOOLEAN, class : Classes]
                        /\ v.next \in 0..Len(v.order)
  BY DEF ReviewInv, ReviewTypeOK
<1> DEFINE v == review[w]
<1>1. ReviewOK(config, Known, v)
  BY PhaseOfReview DEF ReviewInv, Reviewing
<1> HIDE DEF v
<1>2. /\ v.pc \in {"up", "resolve", "down", "classify", "propagate", "persist"}
      /\ v.order \in Seq(artifacts) /\ v.queue \in Seq(artifacts)
      /\ v.edges \subseteq DOMAIN dependencies /\ v.atts \subseteq DOMAIN attestations
      /\ v.next \in 0..Len(v.order)
  BY <1>1, KnownParts DEF ReviewOK, Shape, Walking, Judging
<1>3. v.root \in artifacts
  BY <1>1, KnownParts DEF ReviewOK, Shape, Grows
<1>4. v.affected \subseteq artifacts
  BY <1>1, KnownParts, TaintedHoldsSeed DEF ReviewOK, Spread
<1>5. \A l \in v.owned : {l.owner, l.target} \subseteq artifacts
  BY <1>1, KnownParts DEF ReviewOK, Walk, Links, LinksOf
<1>6. v.judged \subseteq [artifact : artifacts, attestation : DOMAIN attestations,
                          anchored : BOOLEAN, class : Classes]
  BY <1>1, KnownParts DEF ReviewOK, Judged, RightlyJudged
<1> QED  BY <1>2, <1>3, <1>4, <1>5, <1>6 DEF v

\* The types, and each goroutine's state.
THEOREM ReviewTypeCorrect == ReviewSpec => []ReviewTypeOK
<1> QED  BY ReviewInvTypes, ReviewInvariant, PTL

LEMMA SettledIsOK ==
  ASSUME ReviewInv, NEW w \in Reviewers, Settled(w)
  PROVE  /\ IsConfig(config) /\ StoreOK(Known)
         /\ ReviewOK(config, Known, review[w]) /\ review[w].pc = "persist"
  BY PhaseOfReview DEF ReviewInv, Settled

\* A review covers everything that was linked to its root when it began, and
\* nothing that is not linked to it now, unless a lookup failed.
THEOREM ReviewsCover == ASSUME ~ LookupsFail PROVE ReviewSpec => []ReviewCoversComponent
<1>1. ASSUME ReviewInv PROVE ReviewCoversComponent
  BY <1>1, SettledIsOK, SettledCovers DEF ReviewCoversComponent
<1> QED  BY <1>1, ReviewInvariant, PTL

\* Nobody is called affected without evidence against it, or against
\* something it was built from along trusted edges.
THEOREM ConvictionsJust == ReviewSpec => []NoFalseConviction
<1>1. ASSUME ReviewInv PROVE NoFalseConviction
  BY <1>1, SettledIsOK, SettledConvicts DEF NoFalseConviction
<1> QED  BY <1>1, ReviewInvariant, PTL

\* Whatever is convicted from the beginning to the end is called affected,
\* with all that was built from it, unless a lookup failed.
THEOREM NothingIsMissed == ASSUME ~ LookupsFail PROVE ReviewSpec => []NothingMissed
<1>1. ASSUME ReviewInv PROVE NothingMissed
  BY <1>1, SettledIsOK, SettledSpares DEF NothingMissed
<1> QED  BY <1>1, ReviewInvariant, PTL

\* Nobody is called unaffected unless the evidence clears every attestation.
THEOREM AcquittalsJust == ReviewSpec => []NoFalseAcquittal
<1>1. ASSUME ReviewInv PROVE NoFalseAcquittal
  BY <1>1, SettledIsOK, SettledClears DEF NoFalseAcquittal
<1> QED  BY <1>1, ReviewInvariant, PTL

-----------------------------------------------------------------------------
(* Reviews keep the promise: each step is one of ImpactReview, or none.    *)

Inquiries == [w \in Reviewers |-> InquiryOf(review[w])]

LEMMA InquiryMeans ==
  ASSUME NEW v
  PROVE  /\ v.pc = "idle" => InquiryOf(v) = [stage |-> "idle"]
         /\ v.pc = "persist" => InquiryOf(v) =
              [stage |-> "concluded", report |-> [a \in Reviewed(v) |-> FinalClass(v, a)],
               unpublished |-> {v.order[i] : i \in (v.next + 1)..Len(v.order)}]
         /\ v.pc # "idle" /\ v.pc # "persist" =>
              InquiryOf(v) = [stage |-> "open", root |-> v.root, began |-> v.began]
  BY DEF InquiryOf

\* ImpactReview speaks of the same store in the same terms.
LEMMA SameTerms ==
  /\ Promised!Known = Known
  /\ \A s, r, b : Promised!Covers(s, r, b) <=> Covers(s, r, b)
  /\ \A s, b : Promised!JustlyConvicted(s, b) <=> JustlyConvicted(s, b)
  /\ \A s, r, b : Promised!NoneSpared(s, r, b) <=> NoneSpared(s, r, b)
  /\ \A s, b : Promised!JustlyCleared(s, b) <=> JustlyCleared(s, b)
  /\ Promised!Classes = Classes
<1>1. Promised!Known = Known
  BY DEF Promised!Known, Known
<1>2. Promised!Classes = Classes
  BY DEF Promised!Classes, Classes
<1>3. \A s, r, b : Promised!Covers(s, r, b) <=> Covers(s, r, b)
  BY DEF Promised!Covers, Covers, Promised!Around, Around, Promised!Connected, Connected,
         Promised!LinksOf, LinksOf, Promised!LinkOf, LinkOf, Promised!Link, Link
<1>4. \A i : Promised!ValidSignature(i) <=> ValidSignature(i)
  BY DEF Promised!ValidSignature, ValidSignature, Promised!VerifyEnvelope, VerifyEnvelope,
         Promised!KnownKeys, KnownKeys, Promised!Revoked, Revoked
<1>5. \A i, ev : Promised!ClassOf(i, ev) = ClassOf(i, ev)
  BY DEF Promised!ClassOf, ClassOf, Promised!Classify, Classify, Promised!IsRevoked, IsRevoked,
         Promised!Revoked, Revoked, Promised!TrustedTimes, TrustedTimes,
         Promised!VerifyEnvelope, VerifyEnvelope, Promised!KnownKeys, KnownKeys
<1>6. \A i : Promised!Anchored(i) <=> Anchored(i)
  BY DEF Promised!Anchored, Anchored, Promised!VerifyEnvelope, VerifyEnvelope,
         Promised!KnownKeys, KnownKeys, Promised!Revoked, Revoked
<1>7. \A d, a : Promised!LinksOf(d, a) = LinksOf(d, a)
  BY DEF Promised!LinksOf, LinksOf, Promised!LinkOf, LinkOf, Promised!Link, Link
<1>8. \A l : Promised!Trusted(l) = Trusted(l)
  BY <1>4, <1>6 DEF Promised!Trusted, Trusted
<1>9. \A s, l, n : Promised!Tainted(s, l, n) = Tainted(s, l, n)
  BY DEF Promised!Tainted, Tainted
<1>10. \A r, b : Promised!Around(r, b) = Around(r, b)
  BY DEF Promised!Around, Around, Promised!Connected, Connected, Promised!LinksOf, LinksOf,
         Promised!LinkOf, LinkOf, Promised!Link, Link
<1>11. \A s, b : Promised!JustlyConvicted(s, b) <=> JustlyConvicted(s, b)
  <2>1. \A i, b : Promised!ConvictedBetween(i, b) <=> ConvictedBetween(i, b)
    BY <1>5 DEF Promised!ConvictedBetween, ConvictedBetween
  <2> QED  BY <1>4, <1>7, <1>8, <1>9, <2>1 DEF Promised!JustlyConvicted, JustlyConvicted
<1>12. \A s, r, b : Promised!NoneSpared(s, r, b) <=> NoneSpared(s, r, b)
  BY <1>4, <1>5, <1>7, <1>8, <1>9, <1>10 DEF Promised!NoneSpared, NoneSpared
<1>13. \A s, b : Promised!JustlyCleared(s, b) <=> JustlyCleared(s, b)
  BY <1>4, <1>5 DEF Promised!JustlyCleared, JustlyCleared
<1> QED  BY <1>1, <1>2, <1>3, <1>11, <1>12, <1>13

\* While a review walks, judges and propagates, it is the inquiry it was.
Quiet(w) ==
  \/ ListUp(w) \/ ResolveUp(w) \/ ListDown(w) \/ ResolveDown(w)
  \/ ListAtts(w) \/ ClassifyNext(w) \/ Seed(w) \/ Propagate(w)

LEMMA InquiriesOf ==
  ASSUME ReviewsOK, NEW w \in Reviewers, Moves(w)
  PROVE  Inquiries' = [Inquiries EXCEPT ![w] = InquiryOf(review'[w])]
<1>1. \A x \in Reviewers : x # w => review'[x] = review[x]
  BY MovesAlone
<1>2. Inquiries' = [x \in Reviewers |-> InquiryOf(review'[x])]
  BY DEF Inquiries
<1>3. [Inquiries EXCEPT ![w] = InquiryOf(review'[w])]
        = [x \in Reviewers |-> IF x = w THEN InquiryOf(review'[w]) ELSE InquiryOf(review[x])]
  BY DEF Inquiries
<1>4. \A x \in Reviewers :
        InquiryOf(review'[x]) = IF x = w THEN InquiryOf(review'[w]) ELSE InquiryOf(review[x])
  BY <1>1
<1> QED  BY <1>2, <1>3, <1>4

LEMMA QuietIsStutter ==
  ASSUME IsConfig(config), StoreOK(Known), ReviewsOK, NEW w \in Reviewers, Quiet(w)
  PROVE  Inquiries' = Inquiries
<1>1. Moves(w) /\ review[w].pc # "idle" /\ review[w].pc # "persist"
  BY DEF Quiet, Moves, ReviewStep, ListUp, ResolveUp, ListDown, ResolveDown, ListAtts, ClassifyNext,
         Seed, Propagate
<1>2. ReviewOK(config, Known, review[w])
  BY <1>1, PhaseOfReview
<1>3. IsReview(review[w])
  BY <1>2 DEF ReviewOK
<1>4. /\ review'[w].pc # "idle" /\ review'[w].pc # "persist"
      /\ review'[w].root = review[w].root /\ review'[w].began = review[w].began
  <2>1. CASE ListUp(w)
    BY <1>1, <1>3, <2>1 DEF ListUp, ReviewsOK, IsReview
  <2>2. CASE ResolveUp(w)
    BY <1>1, <1>3, <2>2 DEF ResolveUp, ReviewsOK, IsReview
  <2>3. CASE ListDown(w)
    BY <1>1, <1>3, <2>3 DEF ListDown, ReviewsOK, IsReview, NextArtifact
  <2>4. CASE ResolveDown(w)
    <3> DEFINE v == review[w]
               i == Oldest(v.edges)
               l == LinkOf(dependencies[i])
    <3>1. PICK found \in BOOLEAN :
            LET queue == IF found THEN Visit(v, l.owner) ELSE v.queue
            IN  review' = [review EXCEPT
                  ![w].pc    = IF v.edges = {i} THEN NextArtifact(queue) ELSE "down",
                  ![w].edges = @ \ {i},
                  ![w].owned = IF found THEN @ \cup {l} ELSE @,
                  ![w].queue = queue]
      BY <2>4 DEF ResolveDown
    <3>2. \A q : NextArtifact(q) # "idle" /\ NextArtifact(q) # "persist"
      BY DEF NextArtifact
    <3> QED  BY <1>3, <3>1, <3>2 DEF ReviewsOK, IsReview
  <2>5. CASE ListAtts(w)
    BY <1>1, <1>3, <2>5 DEF ListAtts, ReviewsOK, IsReview
  <2>6. CASE ClassifyNext(w)
    BY <1>1, <1>3, <2>6 DEF ClassifyNext, ReviewsOK, IsReview
  <2>7. CASE Seed(w)
    BY <1>1, <1>3, <2>7 DEF Seed, ReviewsOK, IsReview
  <2>8. CASE Propagate(w)
    BY <1>1, <1>3, <2>8 DEF Propagate, ReviewsOK, IsReview
  <2> QED  BY <2>1, <2>2, <2>3, <2>4, <2>5, <2>6, <2>7, <2>8 DEF Quiet
<1>5. InquiryOf(review'[w]) = InquiryOf(review[w])
  BY <1>1, <1>4, InquiryMeans
<1>6. Inquiries' = [Inquiries EXCEPT ![w] = InquiryOf(review'[w])]
  BY <1>1, InquiriesOf
<1>7. Inquiries[w] = InquiryOf(review[w])
  BY DEF Inquiries
<1> QED  BY <1>5, <1>6, <1>7 DEF Inquiries

LEMMA LocateOpens ==
  ASSUME ReviewsOK, NEW w \in Reviewers, NEW a \in artifacts, Locate(w, a)
  PROVE  Promised!Open(w, a)
<1>1. review[w].pc = "idle" /\ UNCHANGED <<config, storeVars>>
  BY DEF Locate, Reviewing
<1>2. review'[w].pc = "up" /\ review'[w].root = a /\ review'[w].began = Known
  BY DEF Locate, ReviewsOK
<1>3. Inquiries[w] = [stage |-> "idle"]
  BY <1>1, InquiryMeans DEF Inquiries
<1>4. InquiryOf(review'[w]) = [stage |-> "open", root |-> a, began |-> Known]
  BY <1>2, InquiryMeans
<1>5. Inquiries' = [Inquiries EXCEPT ![w] = [stage |-> "open", root |-> a, began |-> Known]]
  BY <1>4, InquiriesOf DEF Moves
<1> QED  BY <1>1, <1>3, <1>5, SameTerms
         DEF Promised!Open, Promised!NoInquiry, Inquiries, storeVars, Promised!storeVars

LEMMA FailureAbandons ==
  ASSUME ReviewsOK, NEW w \in Reviewers, FailReview(w)
  PROVE  Promised!Abandon(w)
<1>1. review[w].pc # "idle" /\ UNCHANGED <<config, storeVars>> /\ review'[w] = NoReview
  BY DEF FailReview, Reviewing, ReviewsOK
<1>2. Inquiries[w].stage # "idle"
  <2>1. Inquiries[w] = InquiryOf(review[w])
    BY DEF Inquiries
  <2> QED  BY <1>1, <2>1, InquiryMeans
<1>3. Inquiries[w] # [stage |-> "idle"]
  BY <1>2
<1>4. InquiryOf(review'[w]) = [stage |-> "idle"]
  BY <1>1, InquiryMeans DEF NoReview
<1>5. Inquiries' = [Inquiries EXCEPT ![w] = [stage |-> "idle"]]
  BY <1>4, InquiriesOf DEF Moves
<1> QED  BY <1>1, <1>3, <1>5
         DEF Promised!Abandon, Promised!NoInquiry, Inquiries, storeVars, Promised!storeVars

LEMMA FinalClassMeans ==
  ASSUME NEW v, NEW a
  PROVE  /\ FinalClass(v, a) \in Classes
         /\ FinalClass(v, a) = "affected" <=> a \in v.affected
  BY DEF FinalClass, Classes

\* When nothing is left to propagate, the inquiry is concluded within bounds.
LEMMA SettleConcludes ==
  ASSUME ~ LookupsFail, IsConfig(config), StoreOK(Known), ReviewsOK, NEW w \in Reviewers, Settle(w)
  PROVE  Promised!Conclude(w)
<1> DEFINE v == review'[w]
           reviewed == Reviewed(v)
           report == [a \in reviewed |-> FinalClass(v, a)]
<1>1. ReviewOK(config, Known, v)
  BY SettleKeeps
<1>2. /\ review[w].pc = "propagate" /\ v.pc = "persist" /\ v.next = 0
      /\ v.root = review[w].root /\ v.began = review[w].began
      /\ UNCHANGED <<config, storeVars>>
  <2>1. ReviewOK(config, Known, review[w])
    BY PhaseOfReview DEF Settle
  <2> QED  BY <2>1 DEF Settle, ReviewsOK, ReviewOK, IsReview
<1>3. Inquiries[w] = [stage |-> "open", root |-> v.root, began |-> v.began]
  <2>1. Inquiries[w] = InquiryOf(review[w])
    BY DEF Inquiries
  <2> QED  BY <1>2, <2>1, InquiryMeans
<1>a. Inquiries' = [Inquiries EXCEPT ![w] = InquiryOf(v)]
  BY InquiriesOf DEF Moves, ReviewStep
<1> HIDE DEF v
<1>4. reviewed \subseteq artifacts
  BY <1>1, SettledParts, <1>2, KnownParts, ConnectedHoldsRoot DEF Walk, Connected
<1>5. report \in [reviewed -> Classes]
  BY FinalClassMeans
<1>6. {v.order[i] : i \in (v.next + 1)..Len(v.order)} = reviewed
  <2>1. DOMAIN v.order = 1..Len(v.order)
    BY <1>1 DEF ReviewOK, Shape
  <2> QED  BY <1>2, <2>1 DEF Reviewed
<1>7. InquiryOf(v) = [stage |-> "concluded", report |-> report, unpublished |-> reviewed]
  BY <1>2, <1>6, InquiryMeans
<1>8. /\ DOMAIN report = reviewed
      /\ Promised!Called(report, "affected") = v.affected
      /\ Promised!Called(report, "unaffected") = {a \in reviewed : FinalClass(v, a) = "unaffected"}
  <2>1. v.affected \subseteq reviewed
    BY <1>1 DEF ReviewOK, Spread
  <2>2. \A a \in reviewed : FinalClass(v, a) = "affected" <=> a \in v.affected
    BY FinalClassMeans
  <2> QED  BY <2>1, <2>2 DEF Promised!Called
<1>9. /\ Covers(reviewed, v.root, v.began) /\ JustlyConvicted(v.affected, v.began)
      /\ NoneSpared(v.affected, v.root, v.began)
      /\ JustlyCleared({a \in reviewed : FinalClass(v, a) = "unaffected"}, v.began)
  BY <1>1, <1>2, SettledCovers, SettledConvicts, SettledSpares, SettledClears
<1> HIDE DEF report, reviewed
<1>10. Promised!Sound(report, v.root, v.began)
  BY <1>8, <1>9, SameTerms DEF Promised!Sound
<1>11. Promised!Sound(report, Inquiries[w].root, Inquiries[w].began) /\ Inquiries[w].stage = "open"
  BY <1>3, <1>10
<1>12. Inquiries' = [Inquiries EXCEPT ![w] =
                       [stage |-> "concluded", report |-> report, unpublished |-> reviewed]]
  BY <1>a, <1>7
<1>13. reviewed \in SUBSET artifacts /\ report \in [reviewed -> Promised!Classes]
  BY <1>4, <1>5, SameTerms
<1>14. \E s \in SUBSET artifacts : \E r \in [s -> Promised!Classes] :
         /\ Inquiries' = [Inquiries EXCEPT ![w] = [stage |-> "concluded", report |-> r, unpublished |-> s]]
         /\ Promised!Sound(r, Inquiries[w].root, Inquiries[w].began)
  BY <1>11, <1>12, <1>13
<1> QED  BY <1>2, <1>11, <1>14
         DEF Promised!Conclude, Inquiries, storeVars, Promised!storeVars

\* Each row is published once, just as concluded.
LEMMA PersistPublishes ==
  ASSUME IsConfig(config), StoreOK(Known), ReviewsOK, NEW w \in Reviewers, Persist(w)
  PROVE  Promised!Publish(w)
<1> DEFINE v == review[w]
           a == v.order[v.next + 1]
           signed == \E j \in v.judged : j.artifact = a
           report == [b \in Reviewed(v) |-> FinalClass(v, b)]
           rest(n) == {v.order[i] : i \in (n + 1)..Len(v.order)}
           u == review'[w]
<1>1. ReviewOK(config, Known, v) /\ v.pc = "persist"
  BY PhaseOfReview DEF Persist
<1>2. /\ UNCHANGED <<config, artifacts, attestations, dependencies, timeEvidence, policies, revocationEvents>>
      /\ verifications' = Append(verifications, ReviewRow(v, a))
      /\ v.next + 1 = Len(v.order) => u = NoReview
      /\ v.next + 1 # Len(v.order) => u = [v EXCEPT !.next = v.next + 1]
  BY DEF Persist, SaveVerification, Due, ReviewsOK
<1>3. Inquiries' = [Inquiries EXCEPT ![w] = InquiryOf(u)]
  BY InquiriesOf DEF Moves, ReviewStep
<1>4. Inquiries[w] = InquiryOf(v)
  BY DEF Inquiries
<1> HIDE DEF v, u
<1>5. /\ v.order \in Seq(Known.artifacts) /\ v.next \in 0..Len(v.order) /\ v.next < Len(v.order)
      /\ IsReview(v) /\ VisitedOnce(v) /\ Spread(config, Known, v)
  BY <1>1 DEF ReviewOK, Shape, InPhase
<1>6. /\ Len(v.order) \in Nat /\ v.next \in Nat /\ v.next + 1 \in DOMAIN v.order
      /\ DOMAIN v.order = 1..Len(v.order)
  BY <1>5
<1>7. a \in rest(v.next) /\ a \in Reviewed(v)
  BY <1>6 DEF Reviewed
<1>8. rest(v.next + 1) = rest(v.next) \ {a}
  <2>1. \A i \in (v.next + 1)..Len(v.order) : i = v.next + 1 \/ i \in (v.next + 1 + 1)..Len(v.order)
    BY <1>6
  <2>2. \A i \in (v.next + 1 + 1)..Len(v.order) : i \in DOMAIN v.order /\ i # v.next + 1
                                                    /\ i \in (v.next + 1)..Len(v.order)
    BY <1>6
  <2>3. \A i \in (v.next + 1 + 1)..Len(v.order) : v.order[i] # a
    BY <1>5, <1>6, <2>2 DEF VisitedOnce
  <2> QED  BY <2>1, <2>2, <2>3
<1>9. rest(v.next) = {a} <=> v.next + 1 = Len(v.order)
  <2>1. CASE v.next + 1 = Len(v.order)
    <3>1. (v.next + 1)..Len(v.order) = {v.next + 1}
      BY <1>6, <2>1
    <3> QED  BY <2>1, <3>1
  <2>2. CASE v.next + 1 # Len(v.order)
    <3>1. Len(v.order) \in (v.next + 1)..Len(v.order) /\ Len(v.order) \in DOMAIN v.order
      BY <1>5, <1>6
    <3>2. v.order[Len(v.order)] # a
      BY <1>5, <1>6, <2>2, <3>1 DEF VisitedOnce
    <3> QED  BY <2>2, <3>1, <3>2
  <2> QED  BY <2>1, <2>2
<1>10. InquiryOf(v) = [stage |-> "concluded", report |-> report, unpublished |-> rest(v.next)]
  BY <1>1, InquiryMeans
<1>11. report[a] = FinalClass(v, a)
  BY <1>7
<1>12. FinalClass(v, a) # "insufficient" => signed
  <2>1. a \in v.affected => signed
    BY <1>5 DEF Spread
  <2>2. OwnClass(v, a) # "insufficient" => signed
    <3>1. \A j \in v.judged : j.class \in Classes
      BY <1>1 DEF ReviewOK, Judged, RightlyJudged
    <3> QED  BY <3>1, OwnClassAffected DEF Classes
  <2> QED  BY <2>1, <2>2 DEF FinalClass
<1>13. ReviewRow(v, a) = Promised!Published(a, FinalClass(v, a), signed)
  BY DEF ReviewRow, Promised!Published
<1>14. InquiryOf(u) = IF rest(v.next) = {a} THEN [stage |-> "idle"]
                      ELSE [stage |-> "concluded", report |-> report, unpublished |-> rest(v.next) \ {a}]
  <2>1. CASE v.next + 1 = Len(v.order)
    BY <1>2, <1>9, <2>1, InquiryMeans DEF NoReview
  <2>2. CASE v.next + 1 # Len(v.order)
    <3>1. /\ u.pc = "persist" /\ u.next = v.next + 1 /\ u.order = v.order
          /\ u.judged = v.judged /\ u.affected = v.affected
      BY <1>1, <1>2, <1>5, <2>2 DEF IsReview
    <3>2. Reviewed(u) = Reviewed(v) /\ \A b : FinalClass(u, b) = FinalClass(v, b)
      BY <3>1 DEF Reviewed, FinalClass, OwnClass
    <3>3. InquiryOf(u) = [stage |-> "concluded", report |-> report, unpublished |-> rest(v.next + 1)]
      BY <3>1, <3>2, InquiryMeans
    <3> QED  BY <1>8, <1>9, <2>2, <3>3
  <2> QED  BY <2>1, <2>2
<1> HIDE DEF a, signed, report, rest
<1>15. signed \in BOOLEAN
  BY DEF signed
<1>16. /\ Inquiries[w].stage = "concluded" /\ a \in Inquiries[w].unpublished
       /\ Inquiries[w].report[a] # "insufficient" => signed
       /\ verifications' = Append(verifications, Promised!Published(a, Inquiries[w].report[a], signed))
       /\ Inquiries' = [Inquiries EXCEPT ![w] =
                          IF Inquiries[w].unpublished = {a} THEN [stage |-> "idle"]
                          ELSE [Inquiries[w] EXCEPT !.unpublished = @ \ {a}]]
  <2> DEFINE q == Inquiries[w]
  <2>1. q = [stage |-> "concluded", report |-> report, unpublished |-> rest(v.next)]
    BY <1>4, <1>10
  <2>2. q.stage = "concluded" /\ q.report = report /\ q.unpublished = rest(v.next)
    BY <2>1
  <2>3. [q EXCEPT !.unpublished = @ \ {a}]
          = [stage |-> "concluded", report |-> report, unpublished |-> rest(v.next) \ {a}]
    BY <2>1
  <2>4. InquiryOf(u) = IF q.unpublished = {a} THEN [stage |-> "idle"]
                       ELSE [q EXCEPT !.unpublished = @ \ {a}]
    BY <1>14, <2>2, <2>3
  <2> HIDE DEF q
  <2>5. /\ q.stage = "concluded" /\ a \in q.unpublished
        /\ q.report[a] # "insufficient" => signed
        /\ verifications' = Append(verifications, Promised!Published(a, q.report[a], signed))
        /\ Inquiries' = [Inquiries EXCEPT ![w] =
                           IF q.unpublished = {a} THEN [stage |-> "idle"]
                           ELSE [q EXCEPT !.unpublished = @ \ {a}]]
    BY <1>2, <1>3, <1>7, <1>11, <1>12, <1>13, <2>2, <2>4
  <2> QED  BY <2>5 DEF q
<1> QED  BY <1>2, <1>15, <1>16
         DEF Promised!Publish, Promised!NoInquiry, Promised!SaveVerification, Inquiries

LEMMA IngestLearns ==
  ASSUME NEW s \in Stamps, Ingest(s)
  PROVE  Promised!Learn
<1>1. /\ UNCHANGED <<config, artifacts, attestations, dependencies, policies, verifications, review>>
      /\ timeEvidence \subseteq timeEvidence'
  BY DEF Ingest, IngestRow, reviewVars
<1>2. UNCHANGED Inquiries
  BY <1>1 DEF Inquiries
<1> QED  BY <1>1, <1>2 DEF Promised!Learn, Promised!Kept, Inquiries

LEMMA NothingAsked ==
  ASSUME \A w \in Reviewers : review[w] = NoReview
  PROVE  Inquiries = [w \in Reviewers |-> [stage |-> "idle"]]
<1>1. InquiryOf(NoReview) = [stage |-> "idle"]
  BY InquiryMeans DEF NoReview
<1> QED  BY <1>1 DEF Inquiries

\* A step of the review handlers is one of ImpactReview, or none.
LEMMA StepPromised ==
  ASSUME ~ LookupsFail, ReviewInv, [ReviewNext]_reviewSystem
  PROVE  Promised!InquiryNext \/ UNCHANGED Promised!inquirySystem
<1>1. IsConfig(config) /\ StoreOK(Known) /\ ReviewsOK
  BY DEF ReviewInv
<1>2. ASSUME NEW s \in Stamps, Ingest(s) PROVE Promised!InquiryNext
  BY <1>2, IngestLearns DEF Promised!InquiryNext
<1>3. ASSUME NEW w \in Reviewers, NEW a \in artifacts, Locate(w, a) PROVE Promised!InquiryNext
  BY <1>1, <1>3, LocateOpens DEF Promised!InquiryNext
<1>4. ASSUME NEW w \in Reviewers, FailReview(w) PROVE Promised!InquiryNext
  BY <1>1, <1>4, FailureAbandons DEF Promised!InquiryNext
<1>5. ASSUME NEW w \in Reviewers, Settle(w) PROVE Promised!InquiryNext
  BY <1>1, <1>5, SettleConcludes DEF Promised!InquiryNext
<1>6. ASSUME NEW w \in Reviewers, Persist(w) PROVE Promised!InquiryNext
  BY <1>1, <1>6, PersistPublishes DEF Promised!InquiryNext
<1>7. ASSUME NEW w \in Reviewers, Quiet(w) PROVE UNCHANGED Promised!inquirySystem
  <2>1. Inquiries' = Inquiries
    BY <1>1, <1>7, QuietIsStutter
  <2>2. UNCHANGED <<config, storeVars>>
    BY <1>7 DEF Quiet, ListUp, ResolveUp, ListDown, ResolveDown, ListAtts, ClassifyNext, Seed, Propagate
  <2> QED  BY <2>1, <2>2 DEF Promised!inquirySystem, Promised!storeVars, storeVars, Inquiries
<1>8. CASE UNCHANGED reviewSystem
  <2>1. UNCHANGED <<config, storeVars, review>>
    BY <1>8 DEF reviewSystem, reviewVars
  <2>2. Inquiries' = Inquiries
    BY <2>1 DEF Inquiries
  <2> QED  BY <2>1, <2>2 DEF Promised!inquirySystem, Promised!storeVars, storeVars, Inquiries
<1> QED  BY <1>2, <1>3, <1>4, <1>5, <1>6, <1>7, <1>8 DEF ReviewNext, ReviewStep, Quiet

\* Reviews keep the promise of ImpactReview, step by step.
THEOREM PromiseKept == ASSUME ~ LookupsFail PROVE ReviewSpec => KeepsPromise
<1>1. ReviewInit => Promised!InquiryInit
  <2> SUFFICES ASSUME ReviewInit PROVE Promised!InquiryInit
    OBVIOUS
  <2>1. \A w \in Reviewers : review[w] = NoReview
    BY DEF ReviewInit
  <2>2. Inquiries = [w \in Reviewers |-> [stage |-> "idle"]]
    BY <2>1, NothingAsked
  <2> QED  BY <2>2 DEF Promised!InquiryInit, Promised!NoInquiry, Inquiries
<1>2. ReviewInv /\ [ReviewNext]_reviewSystem => [Promised!InquiryNext]_(Promised!inquirySystem)
  BY StepPromised
<1> QED  BY <1>1, <1>2, ReviewInvariant, PTL DEF ReviewSpec, KeepsPromise, Promised!InquirySpec

-----------------------------------------------------------------------------
(* Later evidence.                                                         *)

\* One stamp more that ends a conviction clears, and is an early one of the
\* attestation's own envelope.
LEMMA ClearedBy ==
  ASSUME NEW cfg, IsConfig(cfg), NEW K, NEW i, NEW ev, NEW row,
         ev \cup {row} \subseteq TimeEvidenceRow, IsFiniteSet(ev \cup {row}),
         ClassBy(cfg, K, i, ev) = "affected", ClassBy(cfg, K, i, ev \cup {row}) # "affected"
  PROVE  /\ ClassBy(cfg, K, i, ev \cup {row}) = "unaffected"
         /\ row \notin ev
         /\ row.envelope = K.attestations[i].envelope /\ row.tsa \in cfg.tsas
         /\ row.time < cfg.feed.events[Sig(cfg, K, i).acceptedKey].comp
<1> DEFINE later == ev \cup {row}
           key == Sig(cfg, K, i).acceptedKey
           old == Times(cfg, K, i, ev)
           new == Times(cfg, K, i, later)
<1>1. ev \subseteq later /\ later \subseteq TimeEvidenceRow /\ IsFiniteSet(later)
  OBVIOUS
<1>2. ClassBy(cfg, K, i, later) = "unaffected"
  <2> HIDE DEF later
  <2>1. /\ ClassBy(cfg, K, i, later) = "insufficient" => ClassBy(cfg, K, i, ev) = "insufficient"
        /\ ClassBy(cfg, K, i, later) \in Classes
    BY <1>1, MoreEvidence
  <2> QED  BY <2>1 DEF Classes, later
<1>3. /\ old \subseteq Int /\ IsFiniteSet(old) /\ new \subseteq Int /\ IsFiniteSet(new)
  BY <1>1, FiniteTimes, FS_Subset
<1>4. cfg.feed # NoFeed => IsFeed(cfg.feed)
  BY DEF IsConfig
<1>5. Classify(cfg.feed, key, old) = "affected" /\ Classify(cfg.feed, key, new) = "unaffected"
  BY <1>2 DEF ClassBy
<1> HIDE DEF old, new, key
<1>6. IsRevoked(cfg.feed, key) /\ ~ \E t \in old : t < cfg.feed.events[key].comp
  BY <1>3, <1>4, <1>5, ClassByEarliest
<1>7. PICK t \in new : t < cfg.feed.events[key].comp
  BY <1>3, <1>4, <1>5, <1>6, ClassByEarliest
<1>8. PICK u \in later : /\ u.envelope = K.attestations[i].envelope /\ u.tsa \in cfg.tsas
                         /\ t = u.time
  BY <1>7 DEF new, Times
<1>9. u \notin ev
  BY <1>6, <1>7, <1>8 DEF old, Times
<1>10. u = row
  BY <1>8, <1>9
<1> QED  BY <1>2, <1>7, <1>8, <1>9, <1>10 DEF key

\* While reviews run and stamps come in, an attestation that counts as affected
\* is cleared only by a genuine stamp of its own envelope from before the
\* compromise, for any feed, any stamps and in any order of their arrival.
THEOREM StampsDoNotWhitewash == ReviewSpec => NoWhitewash
<1> DEFINE Whitewashed(i) ==
             ValidSignature(i) /\ ClassOf(i, timeEvidence) = "affected"
               /\ ClassOf(i, timeEvidence)' # "affected"
           Cleared(i) ==
             /\ ClassOf(i, timeEvidence)' = "unaffected"
             /\ \E s \in Stamps :
                  /\ s.bound = attestations[i].envelope
                  /\ s.signer = s.tsa /\ s.tsa \in config.tsas
                  /\ s.time < config.feed.events[VerifyEnvelope(attestations[i].envelope,
                                                   KnownKeys(config)).acceptedKey].comp
                  /\ [envelope |-> s.bound, tsa |-> s.tsa, time |-> s.time]
                       \in timeEvidence' \ timeEvidence
           Fair == \A i \in DOMAIN attestations : Whitewashed(i) => Cleared(i)
<1>1. ReviewInv /\ [ReviewNext]_reviewSystem => [Fair]_reviewSystem
  <2> SUFFICES ASSUME ReviewInv, ReviewNext, NEW i \in DOMAIN attestations, Whitewashed(i)
               PROVE  Cleared(i)
    OBVIOUS
  <2>1. IsConfig(config) /\ StoreOK(Known)
    BY DEF ReviewInv
  <2>2. ASSUME NEW s \in Stamps, Ingest(s) PROVE Cleared(i)
    <3> DEFINE row == [envelope |-> s.claimed, tsa |-> s.tsa, time |-> s.time]
    <3>1. /\ UNCHANGED <<config, attestations>> /\ timeEvidence' = timeEvidence \cup {row}
          /\ s.bound = s.claimed /\ s.tsa \in config.tsas /\ s.signer = s.tsa
      BY <2>2 DEF Ingest, IngestRow, Genuine
    <3>2. StoreOK(Known') /\ Known'.timeEvidence = timeEvidence'
      BY <2>1, <2>2, IngestStores DEF Known
    <3>3. timeEvidence' \subseteq TimeEvidenceRow /\ IsFiniteSet(timeEvidence')
      BY <3>2 DEF StoreOK
    <3>4. /\ ClassOf(i, timeEvidence)' = ClassBy(config, Known, i, timeEvidence')
          /\ ClassOf(i, timeEvidence) = ClassBy(config, Known, i, timeEvidence)
      BY <3>1 DEF ClassOf, TrustedTimes, Known, Sig, Times, ClassBy
    <3>5. row.envelope = s.bound /\ row.tsa = s.tsa /\ row.time = s.time
          /\ row = [envelope |-> s.bound, tsa |-> s.tsa, time |-> s.time]
      BY <3>1
    <3> HIDE DEF row
    <3>6. /\ ClassBy(config, Known, i, timeEvidence') = "unaffected"
          /\ row \notin timeEvidence
          /\ row.envelope = Known.attestations[i].envelope
          /\ row.time < config.feed.events[Sig(config, Known, i).acceptedKey].comp
      BY <2>1, <3>1, <3>3, <3>4, ClearedBy
    <3>7. row \in timeEvidence' \ timeEvidence
      BY <3>1, <3>6
    <3>8. /\ s.bound = attestations[i].envelope
          /\ s.time < config.feed.events[VerifyEnvelope(attestations[i].envelope,
                                           KnownKeys(config)).acceptedKey].comp
      BY <3>5, <3>6, KnownParts DEF Sig
    <3> QED  BY <3>1, <3>4, <3>5, <3>6, <3>7, <3>8
  <2>3. ASSUME NEW w \in Reviewers, Moves(w) PROVE FALSE
    <3>1. UNCHANGED <<config, attestations, timeEvidence>>
      BY <2>3, MoveStores
    <3>2. ClassOf(i, timeEvidence)' = ClassOf(i, timeEvidence)
      BY <3>1 DEF ClassOf, TrustedTimes
    <3> QED  BY <3>2
  <2> QED  BY <2>2, <2>3 DEF ReviewNext, Moves
<1> HIDE DEF Fair
<1>2. ReviewSpec => [][Fair]_reviewSystem
  BY <1>1, ReviewInvariant, PTL DEF ReviewSpec
<1> QED  BY <1>2 DEF Fair, NoWhitewash
=============================================================================
