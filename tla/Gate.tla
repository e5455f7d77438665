-------------------------------- MODULE Gate --------------------------------
(***************************************************************************)
(* The download gate: POST /v1/verify.  A handler goroutine hashes the     *)
(* file, then makes its store calls one by one (register the artifact;     *)
(* for each attestation store it, then its dependency edges; register the  *)
(* policy; save the verdict).  No transaction spans them: other handlers   *)
(* run between any two, and an error or a lost client ends the request     *)
(* where it stands.                                                        *)
(***************************************************************************)
EXTENDS EvidenceStore

CONSTANTS
  Verifiers,     \* handler goroutines that may run at once
  Requests,      \* requests clients send, see Request
  Configs,       \* what a process may be started with
  MaxRequests    \* bound: requests admitted in one behaviour

VARIABLES
  verify,        \* the handler goroutines
  admitted       \* requests admitted so far

gateVars == <<verify, admitted>>
gateSystem == <<config, storeVars, gateVars>>

\* sha is the digest of the bytes at the request's path, now the clock when
\* the handler read it: both are read once and used to the end.
Request == [artifact : Artifact, envelopes : Seq(Envelopes) \ {<<>>}, now : Int]

ASSUME GateAssumption ==
  /\ Requests \subseteq Request
  /\ \A r \in Requests : Lower[r.artifact.sha] = r.artifact.sha
  /\ \A c \in Configs : IsConfig(c)
  /\ MaxRequests \in Nat

NoRequest == [pc |-> "idle"]

Handling == [pc : {"ensure", "attest", "save"}, request : Requests, results : Seq(Result),
             ids : Seq(Nat \ {0}), pins : Seq(Pin)]

Working(w) == verify[w].pc # "idle"

GateInit ==
  /\ config \in Configs
  /\ StoreInit
  /\ verify = [w \in Verifiers |-> NoRequest]
  /\ admitted = 0

-----------------------------------------------------------------------------
(* The handler.  results and ids grow with the attestations handled; pins  *)
(* are the edges of the last one that are still to be stored.              *)

\* The row id of the attestation whose pins are being stored.  (Mutant: of
\* the attestation stored last by anyone.)
OwnerOnTop(v) == Len(attestations)
Owner(v) == v.ids[Len(v.ids)]

\* All attestations and all their pins are stored.  (Mutants: the pins of one
\* suffice; the pins of the last are forgotten; one more is waited for.)
HandledEarly(v) == v.pins = <<>> /\ v.ids # <<>>
HandledButPins(v) == Len(v.ids) = Len(v.request.envelopes)
HandledBeyond(v) == v.pins = <<>> /\ Len(v.ids) > Len(v.request.envelopes)
Handled(v) == v.pins = <<>> /\ Len(v.ids) = Len(v.request.envelopes)

Begin(w, r) ==
  /\ ~ Working(w)
  /\ admitted < MaxRequests
  /\ admitted' = admitted + 1
  /\ verify' = [verify EXCEPT ![w] =
       [pc |-> "ensure", request |-> r, results |-> <<>>, ids |-> <<>>, pins |-> <<>>]]
  /\ UNCHANGED <<config, storeVars>>

Ensure(w) ==
  /\ verify[w].pc = "ensure"
  /\ EnsureArtifact(verify[w].request.artifact)
  /\ verify' = [verify EXCEPT ![w].pc = "attest"]
  /\ UNCHANGED <<config, attestations, dependencies, timeEvidence, policies,
                 verifications, revocationEvents, admitted>>

Attest(w) ==
  LET r   == verify[w].request
      e   == r.envelopes[Len(verify[w].ids) + 1]
      res == VerifyOne(config, e, r.artifact.name, r.artifact.sha, r.now)
  IN  /\ verify[w].pc = "attest"
      /\ verify[w].pins = <<>>
      /\ Len(verify[w].ids) < Len(r.envelopes)
      /\ AddAttestation([artifact |-> r.artifact, envelope |-> e,
                         acceptedKey |-> res.acceptedKey])
      /\ verify' = [verify EXCEPT
           ![w].results = Append(@, res),
           ![w].ids     = Append(@, NextId),
           ![w].pins    = DeclaredPins(config, e)]
      /\ UNCHANGED <<config, artifacts, dependencies, timeEvidence, policies,
                     verifications, revocationEvents, admitted>>

AddEdge(w) ==
  LET v   == verify[w]
      pin == Head(v.pins)
  IN  /\ v.pc = "attest"
      /\ v.pins # <<>>
      /\ AddDependencyEdge([artifact |-> v.request.artifact,
                            attestation |-> Owner(v),
                            name |-> pin.name, sha |-> pin.sha])
      /\ verify' = [verify EXCEPT ![w].pins = Tail(@)]
      /\ UNCHANGED <<config, artifacts, attestations, timeEvidence, policies,
                     verifications, revocationEvents, admitted>>

Register(w) ==
  /\ verify[w].pc = "attest"
  /\ Handled(verify[w])
  /\ RegisterPolicy(config.policy)
  /\ verify' = [verify EXCEPT ![w].pc = "save"]
  /\ UNCHANGED <<config, artifacts, attestations, dependencies, timeEvidence,
                 verifications, revocationEvents, admitted>>

\* The gate leaves the row's revocation feed version at zero.
GateRow(a, rs, ids) ==
  [kind |-> "gate", artifact |-> a, decision |-> Decision(rs),
   signatureValid |-> \E i \in DOMAIN rs : rs[i].signatureValid,
   issuerTrusted  |-> \E i \in DOMAIN rs : rs[i].issuerTrusted,
   policyAllowed  |-> \E i \in DOMAIN rs : rs[i].policyAllowed,
   digestMatch    |-> \A i \in DOMAIN rs : ~ rs[i].mismatch,
   class |-> "", feedVersion |-> 0, verdicts |-> Verdicts(rs, ids)]

Save(w) ==
  LET v == verify[w]
  IN  /\ v.pc = "save"
      /\ SaveVerification(GateRow(v.request.artifact, v.results, v.ids))
      /\ verify' = [verify EXCEPT ![w] = NoRequest]
      /\ UNCHANGED <<config, artifacts, attestations, dependencies, timeEvidence,
                     policies, revocationEvents, admitted>>

\* A store call fails, or the client goes away and its context is cancelled.
Fail(w) ==
  /\ Working(w)
  /\ verify' = [verify EXCEPT ![w] = NoRequest]
  /\ UNCHANGED <<config, storeVars, admitted>>

Handle(w) == Ensure(w) \/ Attest(w) \/ AddEdge(w) \/ Register(w) \/ Save(w)

GateNext ==
  \E w \in Verifiers :
    \/ \E r \in Requests : Begin(w, r)
    \/ Handle(w)
    \/ Fail(w)

GateSpec == GateInit /\ [][GateNext]_gateSystem

\* A goroutine that can take its next step eventually does.
GateFairSpec == GateSpec /\ \A w \in Verifiers : WF_gateSystem(Handle(w))

-----------------------------------------------------------------------------
(* Invariants.                                                             *)

\* Every table holds rows of its type, and a handler is idle or holds one
\* request with the results, row ids and pending edges it has so far.
GateTypeOK ==
  /\ config \in Configs
  /\ StoreTypeOK
  /\ verify \in [Verifiers -> {NoRequest} \cup Handling]
  /\ admitted \in Nat

GateRows == {n \in DOMAIN verifications : verifications[n].kind = "gate"}

\* What a gate that handled r alone under cfg concludes about its i-th envelope.
ResultOf(cfg, r, i) == VerifyOne(cfg, r.envelopes[i], r.artifact.name, r.artifact.sha, r.now)

Results(cfg, r) == [i \in DOMAIN r.envelopes |-> ResultOf(cfg, r, i)]

\* In table rows, ids are the rows of r's first envelopes, stored in their order.
StoredInOrder(rows, ids, r) ==
  /\ Len(ids) <= Len(r.envelopes)
  /\ \A i \in DOMAIN ids :
       /\ ids[i] \in DOMAIN rows
       /\ rows[ids[i]].artifact = r.artifact
       /\ rows[ids[i]].envelope = r.envelopes[i]
       /\ \A j \in DOMAIN ids : i < j => ids[i] < ids[j]

\* row answers request r: its verdicts name one stored attestation for each
\* envelope of r, in the order of r, and its conclusions are r's alone.
Answers(cfg, rows, row, r) ==
  LET ids == [i \in DOMAIN row.verdicts |-> row.verdicts[i].attestation]
  IN  /\ Len(ids) = Len(r.envelopes)
      /\ StoredInOrder(rows, ids, r)
      /\ row = GateRow(r.artifact, Results(cfg, r), ids)

\* However handlers interleave, each saved gate row is the answer to one
\* request, as if it had been handled alone: no verdict, no row id and no
\* partner in conflictWith comes from another request.
GateRowsAnswerRequests ==
  \A n \in GateRows : \E r \in Requests : Answers(config, attestations, verifications[n], r)

\* The edge's attestation is in table rows, about the edge's artifact, and
\* declares the edge's input.
DeclaredBy(cfg, rows, edge) ==
  /\ edge.attestation \in DOMAIN rows
  /\ rows[edge.attestation].artifact = edge.artifact
  /\ \E i \in DOMAIN DeclaredPins(cfg, rows[edge.attestation].envelope) :
       DeclaredPins(cfg, rows[edge.attestation].envelope)[i] = [name |-> edge.name, sha |-> edge.sha]

\* A dependency edge belongs to the attestation that declared it: the row it
\* names exists, is about the edge's artifact and has the pin in its
\* provenance (AddDependencyEdges is called after other handlers may have
\* stored attestations of their own).
EdgesDeclared ==
  \A n \in DOMAIN dependencies : DeclaredBy(config, attestations, dependencies[n])

EdgeStored(edges, a, id, pin) ==
  \E n \in DOMAIN edges :
    edges[n] = [artifact |-> a, attestation |-> id, name |-> pin.name, sha |-> pin.sha]

\* Every pinned input the verdicts' attestations declare is in table edges.
AllPinsStored(cfg, rows, edges, row) ==
  \A i \in DOMAIN row.verdicts :
    LET id   == row.verdicts[i].attestation
        pins == DeclaredPins(cfg, rows[id].envelope)
    IN  \A k \in DOMAIN pins : EdgeStored(edges, row.artifact, id, pins[k])

\* Once a gate verdict is recorded, every pinned input its attestations declare
\* is recorded too, so that a later review finds the whole chain.
PinsRecorded ==
  \A n \in GateRows : AllPinsStored(config, attestations, dependencies, verifications[n])

\* The pins of the i-th envelope of handler v's request.
DeclaredAt(cfg, v, i) == DeclaredPins(cfg, v.request.envelopes[i])

\* What v still holds in pins is declared by the envelope handled last.
PendingDeclared(cfg, v) ==
  \A m \in DOMAIN v.pins : \E k \in DOMAIN DeclaredAt(cfg, v, Len(v.ids)) :
    v.pins[m] = DeclaredAt(cfg, v, Len(v.ids))[k]

\* Of the pins of the envelopes handled, only such of the last may be missing.
StoredOrPending(cfg, edges, v) ==
  \A i \in DOMAIN v.ids : \A k \in DOMAIN DeclaredAt(cfg, v, i) :
    \/ EdgeStored(edges, v.request.artifact, v.ids[i], DeclaredAt(cfg, v, i)[k])
    \/ i = Len(v.ids) /\ \E m \in DOMAIN v.pins : v.pins[m] = DeclaredAt(cfg, v, i)[k]

\* The results, row ids and pins of v are its request's, as far as it has come.
InProgress(cfg, rows, edges, v) ==
  /\ StoredInOrder(rows, v.ids, v.request)
  /\ v.results = [i \in DOMAIN v.ids |-> ResultOf(cfg, v.request, i)]
  /\ v.pc = "ensure" => v.ids = <<>>
  /\ v.pc = "save" => v.pins = <<>> /\ Len(v.ids) = Len(v.request.envelopes)
  /\ v.pins # <<>> => v.ids # <<>>
  /\ PendingDeclared(cfg, v)
  /\ StoredOrPending(cfg, edges, v)

\* What a handler has stored so far is what its request calls for, whatever
\* other handlers stored in between.
RequestsInProgress ==
  \A w \in Verifiers : Working(w) => InProgress(config, attestations, dependencies, verify[w])

\* Who really signed e: known keys, each under its own id or none.
Signers(cfg, e) == {k \in KnownKeys(cfg) : \E i \in DOMAIN Content[e].sigs :
                      Content[e].sigs[i].signer = k /\ Content[e].sigs[i].keyid \in {k, NoKey}}

\* e is about artifact a: a subject of that name has its digest, none another.
About(e, a) ==
  /\ Content[e].form = "ok" /\ Content[e].st # NoStatement
  /\ \E s \in Content[e].st.subjects : s.name = a.name /\ Claims(s) /\ Lower[s.digest.sha256] = a.sha
  /\ \A s \in Content[e].st.subjects : s.name = a.name /\ Claims(s) => Lower[s.digest.sha256] = a.sha

\* The provenance e claims is one the policy allows, and the key that speaks
\* for e, one of its signers, is anchored for that builder and not revoked.
Vouches(cfg, e) ==
  LET p   == Content[e].st.provenance
      key == VerifyEnvelope(e, KnownKeys(cfg)).acceptedKey
  IN  /\ p # NoProvenance
      /\ p.builder \in cfg.policy.builders /\ p.uri \in cfg.policy.sources
      /\ p.commit # NoCommit
      /\ key \in Signers(cfg, e) /\ key \in DOMAIN cfg.anchors \ Revoked(cfg.feed)
      /\ cfg.anchors[key] = p.builder

OriginOf(e) ==
  LET p == Content[e].st.provenance
  IN  [builder |-> p.builder, uri |-> p.uri, commit |-> p.commit]

\* cfg and r justify a download: the policy is in force, every attestation of
\* the request has a signer that is not revoked and is about the artifact,
\* some of them vouch for it, and these agree on the origin.
Justifies(cfg, r) ==
  LET es == {r.envelopes[i] : i \in DOMAIN r.envelopes}
  IN  /\ cfg.policy.from <= r.now /\ r.now < cfg.policy.until
      /\ \A e \in es : About(e, r.artifact) /\ Signers(cfg, e) \ Revoked(cfg.feed) # {}
      /\ \E e \in es : Vouches(cfg, e)
      /\ \A e, f \in es : Vouches(cfg, e) /\ Vouches(cfg, f) => OriginOf(e) = OriginOf(f)

\* A download is allowed only if the request the row answers justifies it.
AllowJustified ==
  \A n \in GateRows : verifications[n].decision = "allow" =>
    \E r \in Requests : Answers(config, attestations, verifications[n], r) /\ Justifies(config, r)

\* What the README says of allow: "at least one attestation passes all four
\* checks and none conflict".  Here every attestation of the row passes all of
\* them by its own recorded verdict, and there is no conflict.
PassingWithoutConflictIsAllowed ==
  \A n \in GateRows :
    (\A i \in DOMAIN verifications[n].verdicts :
       LET v == verifications[n].verdicts[i]
       IN  /\ v.signatureValid /\ v.issuerTrusted /\ v.policyAllowed /\ v.digestMatch
           /\ v.conflictWith = {})
    => verifications[n].decision = "allow"

-----------------------------------------------------------------------------
(* Liveness.                                                               *)

\* Every request that was begun ends, with a saved verdict or an error.
EveryRequestEnds == \A w \in Verifiers : Working(w) ~> ~ Working(w)
=============================================================================
