------------------------------- MODULE Review -------------------------------
(***************************************************************************)
(* The historical review: POST /v1/review walks from one artifact over the *)
(* dependency edges in both directions, classifies every attestation of    *)
(* what it reached, taints what was built from an affected input, and adds *)
(* one review row per artifact.  POST /v1/time-evidence adds the trusted   *)
(* time stamps the classes depend on.  A review reads the store call by    *)
(* call, with no snapshot, while other handlers write to it.               *)
(***************************************************************************)
EXTENDS Conclusions

CONSTANTS
  Reviewers,      \* handler goroutines of POST /v1/review
  Stamps,         \* time evidence clients submit, see Stamp
  Stores,         \* what the store may hold at first, see Stored
  LookupsFail,    \* whether looking up a dependent may fail
  MaxReviews      \* bound: reviews opened in one behaviour

VARIABLES
  review,         \* the review goroutines
  opened          \* reviews opened so far

reviewVars == <<review, opened>>
reviewSystem == <<config, storeVars, reviewVars>>

\* A submission: the envelope the request names, and the evidence: the
\* envelope it is bound to, the authority it claims, the key that really
\* signed it (NoKey also when it is malformed) and the moment it attests.
Stamp == [claimed : Envelopes, bound : Envelopes, tsa : Keys,
          signer : Keys \cup {NoKey}, time : Int]

Stored(s) ==
  /\ IsConfig(s.config)
  /\ s.artifacts \subseteq Artifact
  /\ s.attestations \in Seq(AttestationRow)
  /\ s.dependencies \in Seq(DependencyRow)
  /\ \A i \in DOMAIN s.attestations : s.attestations[i].artifact \in s.artifacts
  /\ \A i \in DOMAIN s.dependencies :
       /\ s.dependencies[i].attestation \in DOMAIN s.attestations
       /\ s.attestations[s.dependencies[i].attestation].artifact = s.dependencies[i].artifact

ASSUME ReviewAssumption ==
  /\ Stamps \subseteq Stamp
  /\ \A s \in Stores : Stored(s)
  /\ LookupsFail \in BOOLEAN
  /\ MaxReviews \in Nat

NoReview == [pc |-> "idle"]

Reviewing(w) == review[w].pc # "idle"

ReviewInit ==
  /\ \E s \in Stores :
       /\ config = s.config
       /\ artifacts = s.artifacts
       /\ attestations = s.attestations
       /\ dependencies = s.dependencies
  /\ timeEvidence = {} /\ policies = {} /\ verifications = <<>>
  /\ revocationEvents = <<>>
  /\ review = [w \in Reviewers |-> NoReview]
  /\ opened = 0

-----------------------------------------------------------------------------
(* Time evidence is checked before it is stored and again when it is used: *)
(* the authority must be in the trust root of the running process.         *)

\* (Mutant: evidence bound to another envelope is accepted.)
GenuineUnbound(s) == s.tsa \in config.tsas /\ s.signer = s.tsa
Genuine(s) == s.bound = s.claimed /\ s.tsa \in config.tsas /\ s.signer = s.tsa

Ingest(s) ==
  /\ Genuine(s)
  /\ IngestRow([envelope |-> s.claimed, tsa |-> s.tsa, time |-> s.time])
  /\ UNCHANGED <<config, artifacts, attestations, dependencies, policies,
                 verifications, revocationEvents, reviewVars>>

-----------------------------------------------------------------------------
(* Phase 1: breadth first over the edges.  order is what was expanded,     *)
(* queue what is still to be; owned keeps the edges whose two ends are     *)
(* registered.  began is a history variable: the store when the review     *)
(* located its root.                                                       *)

Locate(w, a) ==
  /\ ~ Reviewing(w)
  /\ a \in artifacts
  /\ opened < MaxReviews
  /\ opened' = opened + 1
  /\ review' = [review EXCEPT ![w] =
       [pc |-> "up", root |-> a, queue |-> <<a>>, order |-> <<>>, edges |-> {},
        owned |-> {}, next |-> 0, atts |-> {}, judged |-> {}, affected |-> {},
        began |-> Known]]
  /\ UNCHANGED <<config, storeVars>>

Reviewed(v) == {v.order[i] : i \in DOMAIN v.order}
Waiting(v) == {v.queue[i] : i \in DOMAIN v.queue}

\* The queue with a at its end, unless a was visited.
Visit(v, a) ==
  IF a \in Reviewed(v) \cup Waiting(v) THEN v.queue ELSE Append(v.queue, a)

ListUp(w) ==
  LET cur == Head(review[w].queue)
  IN  /\ review[w].pc = "up"
      /\ review' = [review EXCEPT ![w].pc    = "resolve",
                                  ![w].queue = Tail(@),
                                  ![w].order = Append(@, cur),
                                  ![w].edges = ListDependencyEdges(cur)]
      /\ UNCHANGED <<config, storeVars, opened>>

\* An edge whose input is not registered as an artifact is dropped.  The rows
\* come sorted by the inputs' names: any order.  (Mutant: none is dropped.)
AnyTarget(target) == TRUE
Registered(target) == target \in artifacts

ResolveUp(w) ==
  LET v == review[w]
  IN  /\ v.pc = "resolve"
      /\ \E i \in v.edges :
           LET l     == LinkOf(dependencies[i])
               found == Registered(l.target)
           IN  review' = [review EXCEPT
                 ![w].edges = @ \ {i},
                 ![w].owned = IF found THEN @ \cup {l} ELSE @,
                 ![w].queue = IF found THEN Visit(v, l.target) ELSE @]
      /\ UNCHANGED <<config, storeVars, opened>>

\* Who has the artifact as an input: of each of them the first edge counts.
FirstEach(ids) ==
  {i \in ids : \A j \in ids : dependencies[j].artifact = dependencies[i].artifact => i <= j}

NextArtifact(queue) == IF queue = <<>> THEN "classify" ELSE "up"

ListDown(w) ==
  LET v     == review[w]
      edges == FirstEach(ListDependentEdges(v.order[Len(v.order)]))
  IN  /\ v.pc = "resolve"
      /\ v.edges = {}
      /\ review' = [review EXCEPT
           ![w].pc    = IF edges = {} THEN NextArtifact(v.queue) ELSE "down",
           ![w].edges = edges]
      /\ UNCHANGED <<config, storeVars, opened>>

\* Both ends of such an edge are registered; a dependent whose lookup fails
\* all the same is passed over, and the review goes on without it.
ResolveDown(w) ==
  LET v == review[w]
      i == Oldest(v.edges)
      l == LinkOf(dependencies[i])
  IN  /\ v.pc = "down"
      /\ \E found \in BOOLEAN :
           LET queue == IF found THEN Visit(v, l.owner) ELSE v.queue
           IN  /\ ~ found => LookupsFail
               /\ review' = [review EXCEPT
                    ![w].pc    = IF v.edges = {i} THEN NextArtifact(queue) ELSE "down",
                    ![w].edges = @ \ {i},
                    ![w].owned = IF found THEN @ \cup {l} ELSE @,
                    ![w].queue = queue]
      /\ UNCHANGED <<config, storeVars, opened>>

-----------------------------------------------------------------------------
(* Phase 2: artifact by artifact, attestation by attestation.  next counts *)
(* the artifacts of order begun, judged keeps what was found about the     *)
(* attestations whose signature is valid.                                  *)

ListAtts(w) ==
  LET v == review[w]
  IN  /\ v.pc = "classify"
      /\ v.atts = {}
      /\ v.next < Len(v.order)
      /\ review' = [review EXCEPT ![w].next = @ + 1,
                                  ![w].atts = ListAttestations(v.order[v.next + 1])]
      /\ UNCHANGED <<config, storeVars, opened>>

\* What reviewOne finds about an attestation by the evidence there is now.
Judgement(id) ==
  [artifact |-> attestations[id].artifact, attestation |-> id,
   anchored |-> Anchored(id), class |-> ClassOf(id, timeEvidence)]

ClassifyNext(w) ==
  LET id == Oldest(review[w].atts)
  IN  /\ review[w].pc = "classify"
      /\ review[w].atts # {}
      /\ review' = [review EXCEPT
           ![w].atts   = @ \ {id},
           ![w].judged = IF ValidSignature(id) THEN @ \cup {Judgement(id)} ELSE @]
      /\ UNCHANGED <<config, storeVars, opened>>

OwnClass(v, a) == Aggregate({j.class : j \in {k \in v.judged : k.artifact = a}})

-----------------------------------------------------------------------------
(* Phase 3: a sweep over order marks what a trusted edge ties to something *)
(* affected, and is repeated until it marks nothing.                       *)

Seed(w) ==
  LET v == review[w]
  IN  /\ v.pc = "classify"
      /\ v.atts = {}
      /\ v.next = Len(v.order)
      /\ review' = [review EXCEPT ![w].pc = "propagate",
                      ![w].affected = {a \in Reviewed(v) : OwnClass(v, a) = "affected"}]
      /\ UNCHANGED <<config, storeVars, opened>>

\* An edge counts when its attestation is among the reviewed ones of its
\* owner, validly signed by a key of the trust root.
\* (Mutant: any valid signature will do.)
EdgeSigned(v, l) == \E j \in v.judged : j.attestation = l.attestation /\ j.artifact = l.owner

EdgeTrusted(v, l) ==
  \E j \in v.judged : j.attestation = l.attestation /\ j.artifact = l.owner /\ j.anchored

\* (Mutants: what is tainted taints nothing in turn; what is marked is marked
\* again.)
TaintsOnce(v, l) ==
  /\ l.target \in v.affected /\ l.owner \notin v.affected
  /\ EdgeTrusted(v, l) /\ OwnClass(v, l.target) = "affected"
TaintsAgain(v, l) == l.target \in v.affected /\ EdgeTrusted(v, l)
Taints(v, l) == l.target \in v.affected /\ l.owner \notin v.affected /\ EdgeTrusted(v, l)

Propagate(w) ==
  /\ review[w].pc = "propagate"
  /\ \E l \in review[w].owned :
       /\ Taints(review[w], l)
       /\ review' = [review EXCEPT ![w].affected = @ \cup {l.owner}]
  /\ UNCHANGED <<config, storeVars, opened>>

Settle(w) ==
  /\ review[w].pc = "propagate"
  /\ \A l \in review[w].owned : ~ Taints(review[w], l)
  /\ review' = [review EXCEPT ![w].pc = "persist", ![w].next = 0]
  /\ UNCHANGED <<config, storeVars, opened>>

-----------------------------------------------------------------------------
(* Phase 4: one row per artifact, each in a transaction of its own.        *)

FinalClass(v, a) ==
  IF a \in v.affected THEN "affected"
  ELSE IF OwnClass(v, a) = "insufficient" THEN "insufficient" ELSE "unaffected"

ReviewRow(v, a) ==
  LET class  == FinalClass(v, a)
      anySig == \E j \in v.judged : j.artifact = a
  IN  [kind |-> "review", artifact |-> a,
       decision |-> CASE class = "unaffected"   -> "allow"
                      [] class = "affected"     -> "deny"
                      [] class = "insufficient" -> "needs_review",
       signatureValid |-> anySig, issuerTrusted |-> anySig,
       policyAllowed |-> class # "affected", digestMatch |-> TRUE,
       class |-> class,
       feedVersion |-> IF config.feed = NoFeed THEN 0 ELSE config.feed.version,
       verdicts |-> <<>>]

\* The artifact whose row is due.  (Mutant: every row is the last one's.)
DueLast(v) == v.order[Len(v.order)]
Due(v) == v.order[v.next + 1]

Persist(w) ==
  LET v == review[w]
  IN  /\ v.pc = "persist"
      /\ SaveVerification(ReviewRow(v, Due(v)))
      /\ review' = IF v.next + 1 = Len(v.order)
                   THEN [review EXCEPT ![w] = NoReview]
                   ELSE [review EXCEPT ![w].next = @ + 1]
      /\ UNCHANGED <<config, artifacts, attestations, dependencies, timeEvidence,
                     policies, revocationEvents, opened>>

\* A store call fails, or the client goes away: rows already saved stay.
FailReview(w) ==
  /\ Reviewing(w)
  /\ review' = [review EXCEPT ![w] = NoReview]
  /\ UNCHANGED <<config, storeVars, opened>>

ReviewStep(w) ==
  \/ ListUp(w) \/ ResolveUp(w) \/ ListDown(w) \/ ResolveDown(w)
  \/ ListAtts(w) \/ ClassifyNext(w)
  \/ Seed(w) \/ Propagate(w) \/ Settle(w)
  \/ Persist(w)

ReviewNext ==
  \/ \E s \in Stamps : Ingest(s)
  \/ \E w \in Reviewers :
       \/ \E a \in artifacts : Locate(w, a)
       \/ ReviewStep(w)
       \/ FailReview(w)

ReviewSpec == ReviewInit /\ [][ReviewNext]_reviewSystem

\* A goroutine that can take its next step eventually does.
ReviewFairSpec == ReviewSpec /\ \A w \in Reviewers : WF_reviewSystem(ReviewStep(w))

-----------------------------------------------------------------------------
(* Invariants.  Each is about a review that has settled, compared with what *)
(* the store held when it began and holds now; what it read lies between.  *)

\* Every table holds rows of its type and a review goroutine is idle or holds
\* the artifacts, edges, attestations and findings it has so far.
ReviewTypeOK ==
  /\ IsConfig(config)
  /\ StoreTypeOK
  /\ opened \in Nat
  /\ \A w \in Reviewers : Reviewing(w) =>
       LET v == review[w]
       IN  /\ v.pc \in {"up", "resolve", "down", "classify", "propagate", "persist"}
           /\ v.root \in artifacts /\ v.affected \subseteq artifacts
           /\ v.order \in Seq(artifacts) /\ v.queue \in Seq(artifacts)
           /\ v.edges \subseteq DOMAIN dependencies
           /\ v.atts \subseteq DOMAIN attestations
           /\ \A l \in v.owned : {l.owner, l.target} \subseteq artifacts
           /\ v.judged \subseteq [artifact : artifacts, attestation : DOMAIN attestations,
                                  anchored : BOOLEAN, class : Classes]
           /\ v.next \in 0..Len(v.order)

Settled(w) == review[w].pc = "persist"

\* A review covers everything that was linked to its root when it began, and
\* nothing that is not linked to it now.
ReviewCoversComponent ==
  \A w \in Reviewers : Settled(w) =>
    Covers(Reviewed(review[w]), review[w].root, review[w].began)

\* An artifact is called affected only if one of its attestations, or one of
\* something it was built from along trusted edges, is convicted by the
\* time evidence of some moment of the review: a stamp that takes it from
\* undecided to cleared convicts nobody on its way.
NoFalseConviction ==
  \A w \in Reviewers : Settled(w) => JustlyConvicted(review[w].affected, review[w].began)

\* Whatever an attestation convicts from the beginning of the review to its
\* end is called affected, and so is everything that, when the review began,
\* was built from it along trusted edges.
NothingMissed ==
  \A w \in Reviewers : Settled(w) =>
    NoneSpared(review[w].affected, review[w].root, review[w].began)

\* An artifact is called unaffected only if it has a validly signed
\* attestation and every one it had when the review began is cleared by the
\* evidence there is: a missing time stamp never clears.
NoFalseAcquittal ==
  \A w \in Reviewers : Settled(w) =>
    JustlyCleared({a \in Reviewed(review[w]) : FinalClass(review[w], a) = "unaffected"},
                  review[w].began)

\* What the README says the closure holds: among others, whatever refers to
\* the root transitively (by edges there when the review began).
ReferrersReviewed ==
  \A w \in Reviewers : Settled(w) =>
    LET v == review[w]
    IN  Downstream(v.root, LinksOf(v.began.dependencies, v.began.artifacts), v.began.artifacts)
          \subseteq Reviewed(v)

\* What the README says the closure is limited to: the root, its chain of
\* pinned inputs and what refers to the root transitively.
ClosureIsUpOrDown ==
  \A w \in Reviewers : Settled(w) =>
    LET v     == review[w]
        links == LinksOf(dependencies, artifacts)
    IN  Reviewed(v) \subseteq Upstream(v.root, links, artifacts)
                                   \cup Downstream(v.root, links, artifacts)

-----------------------------------------------------------------------------
(* Refinement.  Until it settles a review is an open inquiry; the classes  *)
(* are concluded when nothing is left to propagate.                        *)

InquiryOf(v) ==
  CASE v.pc = "idle"    -> [stage |-> "idle"]
    [] v.pc = "persist" -> [stage |-> "concluded",
                            report |-> [a \in Reviewed(v) |-> FinalClass(v, a)],
                            unpublished |-> {v.order[i] : i \in (v.next + 1)..Len(v.order)}]
    [] OTHER            -> [stage |-> "open", root |-> v.root, began |-> v.began]

Promised == INSTANCE ImpactReview WITH
              Inquirers <- Reviewers, inquiry <- [w \in Reviewers |-> InquiryOf(review[w])]

\* The reviews keep what ImpactReview promises, step by step: a conclusion
\* within its bounds is drawn at one moment, and its rows are published each
\* once, unaltered, and never before it.
KeepsPromise == Promised!InquirySpec

-----------------------------------------------------------------------------
(* Action and liveness properties.                                         *)

\* A stamp put in later cannot whitewash: an attestation that counts as
\* affected is cleared only when a genuine stamp of its own envelope from
\* before the compromise comes in, and none takes it back to insufficient.
NoWhitewash ==
  [][\A i \in DOMAIN attestations :
       ValidSignature(i) /\ ClassOf(i, timeEvidence) = "affected" /\ ClassOf(i, timeEvidence)' # "affected"
       => /\ ClassOf(i, timeEvidence)' = "unaffected"
          /\ \E s \in Stamps :
               /\ s.bound = attestations[i].envelope
               /\ s.signer = s.tsa /\ s.tsa \in config.tsas
               /\ s.time < config.feed.events[VerifyEnvelope(attestations[i].envelope,
                                                KnownKeys(config)).acceptedKey].comp
               /\ [envelope |-> s.bound, tsa |-> s.tsa, time |-> s.time]
                    \in timeEvidence' \ timeEvidence]_reviewSystem

\* Every review ends, whatever cycles the edges make.
EveryReviewEnds == \A w \in Reviewers : Reviewing(w) ~> ~ Reviewing(w)
===============================================================================
