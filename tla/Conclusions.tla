---------------------------- MODULE Conclusions ----------------------------
(***************************************************************************)
(* What a review may conclude from what is stored.  A review reads the     *)
(* tables call by call while they grow, so what it concludes is bounded by *)
(* what they held when it began and what they hold when it has settled.    *)
(* Stated without a walk or a sweep: Review does the work of the code and  *)
(* is held to these bounds, ImpactReview is specified by them.             *)
(***************************************************************************)
EXTENDS EvidenceStore

ValidSignature(id) == VerifyEnvelope(attestations[id].envelope, KnownKeys(config)).valid

Anchored(id) ==
  VerifyEnvelope(attestations[id].envelope, KnownKeys(config)).acceptedKey \in DOMAIN config.anchors

\* Time evidence is verified again whenever it is used: its authority must be
\* in the trust root of the running process.
TrustedTimes(e, evidence) ==
  {t.time : t \in {u \in evidence : u.envelope = e /\ u.tsa \in config.tsas}}

\* The attestation's class by the time evidence in the set given.
ClassOf(id, evidence) ==
  LET e == attestations[id].envelope
  IN  Classify(config.feed, VerifyEnvelope(e, KnownKeys(config)).acceptedKey,
               TrustedTimes(e, evidence))

\* owner has target as a pinned input, by the word of an attestation.
Link(owner, id, target) == [owner |-> owner, attestation |-> id, target |-> target]

\* The link edge e makes, the links the edges make among registered artifacts,
\* and those of them that a valid signature by a key of the trust root backs.
LinkOf(e) == Link(e.artifact, e.attestation, [name |-> e.name, sha |-> e.sha])

LinksOf(deps, arts) ==
  {l \in {LinkOf(deps[i]) : i \in DOMAIN deps} : {l.owner, l.target} \subseteq arts}

Trusted(links) == {l \in links : ValidSignature(l.attestation) /\ Anchored(l.attestation)}

\* What a review finds in the store at one moment.
Known == [artifacts |-> artifacts, attestations |-> attestations,
          dependencies |-> dependencies, timeEvidence |-> timeEvidence,
          rows |-> Len(verifications)]

-----------------------------------------------------------------------------
(* The bounds.  began is what was Known when the review located its root.  *)

\* Reviewed is everything that was linked to the root when the review began,
\* and nothing that is not linked to it now.
Around(root, began) ==
  Connected(root, LinksOf(began.dependencies, began.artifacts), began.artifacts)

Covers(reviewed, root, began) ==
  /\ Around(root, began) \subseteq reviewed
  /\ reviewed \subseteq Connected(root, LinksOf(dependencies, artifacts), artifacts)

\* The evidence convicts attestation i at some moment: with the stamps held
\* when the review began and some of those that came since.
ConvictedBetween(i, began) ==
  \E held \in SUBSET timeEvidence :
    began.timeEvidence \subseteq held /\ ClassOf(i, held) = "affected"

\* Nobody is convicted but those with an attestation, or an input along
\* trusted edges with one, that the evidence convicts at some moment.
JustlyConvicted(convicted, began) ==
  LET guilty == {attestations[id].artifact : id \in {i \in DOMAIN attestations :
                   ValidSignature(i) /\ ConvictedBetween(i, began)}}
  IN  convicted \subseteq Tainted(guilty, Trusted(LinksOf(dependencies, artifacts)), artifacts)

\* Whatever an attestation convicts from the beginning to the end, and what
\* was built from it along edges trusted from the beginning, is convicted.
NoneSpared(convicted, root, began) ==
  LET guilty == {attestations[id].artifact : id \in {i \in DOMAIN began.attestations :
                   /\ ValidSignature(i)
                   /\ ClassOf(i, began.timeEvidence) = "affected"
                   /\ ClassOf(i, timeEvidence) = "affected"}}
      around == Around(root, began)
  IN  Tainted(guilty \cap around, Trusted(LinksOf(began.dependencies, began.artifacts)), around)
        \subseteq convicted

\* Nobody is cleared but those with a validly signed attestation, every one of
\* which that was there from the beginning the evidence clears.
JustlyCleared(cleared, began) ==
  \A a \in cleared :
    /\ \E i \in DOMAIN attestations : attestations[i].artifact = a /\ ValidSignature(i)
    /\ \A i \in DOMAIN began.attestations :
         attestations[i].artifact = a /\ ValidSignature(i) => ClassOf(i, timeEvidence) = "unaffected"
=============================================================================
