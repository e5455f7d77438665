----------------------------- MODULE Gate_proofs -----------------------------
(***************************************************************************)
(* What holds of the download gate for every number of handlers, every set *)
(* of requests and every configuration.                                    *)
(***************************************************************************)
EXTENDS Gate, Evidence_proofs

-----------------------------------------------------------------------------
(* Types of rows.                                                          *)

LEMMA GateRowType ==
  ASSUME NEW a \in Artifact, NEW rs \in Seq(Result), NEW ids \in Seq(Nat \ {0}), Len(rs) = Len(ids)
  PROVE  GateRow(a, rs, ids) \in VerificationRow
<1>1. DOMAIN rs = 1..Len(rs) /\ DOMAIN ids = 1..Len(rs) /\ Len(rs) \in Nat
  OBVIOUS
<1>2. \A i \in DOMAIN rs : rs[i] \in Result /\ ids[i] \in Nat \ {0}
  BY <1>1
<1>3. \A i \in DOMAIN rs : {ids[j] : j \in ConflictWith(rs, i)} \in SUBSET (Nat \ {0})
  BY <1>2 DEF ConflictWith, Passed
<1>4. \A i \in DOMAIN rs : Verdicts(rs, ids)[i] \in VerdictRow
  BY <1>2, <1>3 DEF Verdicts, VerdictRow, Result
<1>5. DOMAIN Verdicts(rs, ids) = 1..Len(rs)
  BY <1>1 DEF Verdicts
<1>6. Verdicts(rs, ids) = [i \in 1..Len(rs) |-> Verdicts(rs, ids)[i]]
  BY <1>5 DEF Verdicts
<1>7. Verdicts(rs, ids) \in Seq(VerdictRow)
  <2> DEFINE V == Verdicts(rs, ids)
  <2>1. V = [i \in 1..Len(rs) |-> V[i]] /\ \A i \in 1..Len(rs) : V[i] \in VerdictRow
    BY <1>1, <1>4, <1>6
  <2> HIDE DEF V
  <2>2. V \in Seq(VerdictRow)
    BY <1>1, <2>1
  <2> QED  BY <2>2 DEF V
<1>8. Decision(rs) \in Decisions
  BY DEF Decision, Decisions
<1> QED  BY <1>7, <1>8 DEF GateRow, VerificationRow

-----------------------------------------------------------------------------
(* Type correctness.  It needs what is known of a request in progress: a   *)
(* row is well typed because there is one result for each row id.          *)

LEMMA TypeInit == GateInit => GateTypeOK
  BY GateAssumption DEF GateInit, GateTypeOK, StoreInit, StoreTypeOK

LEMMA TypeNext ==
  ASSUME GateTypeOK, RequestsInProgress, [GateNext]_gateSystem
  PROVE  GateTypeOK'
<1> USE DEF GateTypeOK
<1>1. CASE UNCHANGED gateSystem
  BY <1>1 DEF gateSystem, storeVars, gateVars, StoreTypeOK
<1>2. CASE \E w \in Verifiers, r \in Requests : Begin(w, r)
  <2>1. PICK w \in Verifiers, r \in Requests : Begin(w, r)
    BY <1>2
  <2> DEFINE new == [pc |-> "ensure", request |-> r, results |-> <<>>, ids |-> <<>>, pins |-> <<>>]
  <2>2. new \in Handling
    BY DEF Handling
  <2> HIDE DEF new
  <2>3. verify' = [verify EXCEPT ![w] = new]
    BY <2>1 DEF Begin, new
  <2> QED  BY <2>1, <2>2, <2>3 DEF Begin, storeVars, StoreTypeOK
<1>3. ASSUME NEW w \in Verifiers, Ensure(w) PROVE GateTypeOK'
  <2>1. verify[w] \in Handling /\ verify[w].request.artifact \in Artifact
    BY <1>3, GateAssumption DEF Ensure, NoRequest, Handling, Request
  <2> DEFINE new == [verify[w] EXCEPT !.pc = "attest"]
  <2>2. new \in Handling
    BY <2>1 DEF Handling
  <2>3. verify' = [verify EXCEPT ![w] = new]
    BY <1>3 DEF Ensure
  <2> HIDE DEF new
  <2> QED  BY <1>3, <2>1, <2>2, <2>3 DEF Ensure, EnsureArtifact, StoreTypeOK
<1>4. ASSUME NEW w \in Verifiers, Attest(w) PROVE GateTypeOK'
  <2> DEFINE v   == verify[w]
             e   == v.request.envelopes[Len(v.ids) + 1]
             res == VerifyOne(config, e, v.request.artifact.name, v.request.artifact.sha, v.request.now)
             row == [artifact |-> v.request.artifact, envelope |-> e, acceptedKey |-> res.acceptedKey]
             new == [v EXCEPT !.results = Append(@, res),
                              !.ids     = Append(@, Len(attestations) + 1),
                              !.pins    = DeclaredPins(config, e)]
  <2>1. v \in Handling /\ v.request \in Request
    BY <1>4, GateAssumption DEF Attest, NoRequest, Handling
  <2>2. v.request.artifact \in Artifact /\ v.request.envelopes \in Seq(Envelopes)
    BY <2>1 DEF Request
  <2>3. Len(v.ids) \in Nat /\ Len(v.ids) < Len(v.request.envelopes)
    BY <1>4, <2>1 DEF Attest, Handling
  <2>4. e \in Envelopes
    BY <2>2, <2>3
  <2>5. res \in Result /\ res.acceptedKey \in Keys \cup {NoKey}
    <3>1. res \in Result
      BY <2>4, VerifyOneType
    <3> HIDE DEF res
    <3> QED  BY <3>1 DEF Result
  <2>6. DeclaredPins(config, e) \in Seq(Pin)
    BY <2>4, DeclaredPinsType
  <2>7. row \in AttestationRow
    BY <2>2, <2>4, <2>5 DEF AttestationRow
  <2>8. verify' = [verify EXCEPT ![w] = new] /\ attestations' = Append(attestations, row)
    BY <1>4 DEF Attest, AddAttestation, NextId
  <2>9. Len(attestations) + 1 \in Nat \ {0}
    BY DEF StoreTypeOK
  <2> HIDE DEF e, res, row, v
  <2>10. new \in Handling
    <3>1. Append(v.results, res) \in Seq(Result)
      BY <2>1, <2>5, AppendProperties DEF Handling
    <3>2. Append(v.ids, Len(attestations) + 1) \in Seq(Nat \ {0})
      BY <2>1, <2>9, AppendProperties DEF Handling
    <3> QED  BY <2>1, <2>6, <3>1, <3>2 DEF Handling
  <2> HIDE DEF new
  <2>11. attestations' \in Seq(AttestationRow)
    BY <2>7, <2>8, AppendProperties DEF StoreTypeOK
  <2>12. verify' \in [Verifiers -> {NoRequest} \cup Handling]
    BY <2>8, <2>10
  <2> QED  BY <1>4, <2>11, <2>12 DEF Attest, StoreTypeOK
<1>5. ASSUME NEW w \in Verifiers, AddEdge(w) PROVE GateTypeOK'
  <2> DEFINE v    == verify[w]
             edge == [artifact |-> v.request.artifact, attestation |-> v.ids[Len(v.ids)],
                      name |-> Head(v.pins).name, sha |-> Head(v.pins).sha]
             new  == [v EXCEPT !.pins = Tail(@)]
  <2>1. v \in Handling /\ v.request \in Request /\ v.pins # <<>>
    BY <1>5, GateAssumption DEF AddEdge, NoRequest, Handling
  <2>2. v.ids # <<>>
    BY <1>5, <2>1 DEF RequestsInProgress, InProgress, Working, AddEdge
  <2>3. v.ids[Len(v.ids)] \in Nat \ {0}
    BY <2>1, <2>2 DEF Handling
  <2>4. Head(v.pins) \in Pin /\ Tail(v.pins) \in Seq(Pin)
    BY <2>1 DEF Handling
  <2>5. edge \in DependencyRow
    BY <2>1, <2>3, <2>4 DEF DependencyRow, Pin, Request
  <2>6. new \in Handling
    BY <2>1, <2>4 DEF Handling
  <2>7. verify' = [verify EXCEPT ![w] = new]
    BY <1>5 DEF AddEdge
  <2>8. dependencies' = dependencies \/ dependencies' = Append(dependencies, edge)
    BY <1>5 DEF AddEdge, AddDependencyEdge, Owner
  <2> HIDE DEF new, edge
  <2>9. dependencies' \in Seq(DependencyRow)
    <3>1. dependencies \in Seq(DependencyRow)
      BY DEF StoreTypeOK
    <3> QED  BY <2>5, <2>8, <3>1, AppendProperties
  <2> QED  BY <1>5, <2>6, <2>7, <2>9 DEF AddEdge, StoreTypeOK
<1>6. ASSUME NEW w \in Verifiers, Register(w) PROVE GateTypeOK'
  <2> DEFINE new == [verify[w] EXCEPT !.pc = "save"]
  <2>1. verify[w] \in Handling
    BY <1>6 DEF Register, NoRequest
  <2>2. new \in Handling
    BY <2>1 DEF Handling
  <2>3. verify' = [verify EXCEPT ![w] = new]
    BY <1>6 DEF Register
  <2>4. config.policy \in Policy
    BY GateAssumption DEF IsConfig
  <2>5. policies' \subseteq [id : STRING, content : Policy]
    BY <1>6, <2>4 DEF Register, RegisterPolicy, StoreTypeOK, Policy
  <2> HIDE DEF new
  <2> QED  BY <1>6, <2>2, <2>3, <2>5 DEF Register, StoreTypeOK
<1>7. ASSUME NEW w \in Verifiers, Save(w) PROVE GateTypeOK'
  <2> DEFINE v   == verify[w]
             row == GateRow(v.request.artifact, v.results, v.ids)
  <2>1. v \in Handling /\ v.request \in Request
    BY <1>7, GateAssumption DEF Save, NoRequest, Handling
  <2>2. v.results \in Seq(Result) /\ v.ids \in Seq(Nat \ {0}) /\ v.request.artifact \in Artifact
    BY <2>1 DEF Handling, Request
  <2>3. DOMAIN v.results = DOMAIN v.ids
    BY <1>7, Zenon DEF RequestsInProgress, InProgress, Working, Save
  <2>4. Len(v.results) = Len(v.ids)
    BY <2>2, <2>3
  <2>5. row \in VerificationRow
    BY <2>2, <2>4, GateRowType
  <2>6. verifications' = Append(verifications, row) /\ verify' = [verify EXCEPT ![w] = NoRequest]
    BY <1>7 DEF Save, SaveVerification
  <2> HIDE DEF row
  <2>7. verifications' \in Seq(VerificationRow)
    BY <2>5, <2>6 DEF StoreTypeOK
  <2> QED  BY <1>7, <2>6, <2>7 DEF Save, StoreTypeOK
<1>8. ASSUME NEW w \in Verifiers, Fail(w) PROVE GateTypeOK'
  BY <1>8 DEF Fail, storeVars, StoreTypeOK
<1> QED  BY <1>1, <1>2, <1>3, <1>4, <1>5, <1>6, <1>7, <1>8 DEF GateNext, Handle

-----------------------------------------------------------------------------
(* What is stored stays.                                                   *)

LEMMA AppendKeeps ==
  ASSUME NEW S, NEW s \in Seq(S), NEW e
  PROVE  /\ Kept(s, Append(s, e))
         /\ DOMAIN Append(s, e) = DOMAIN s \cup {Len(s) + 1}
         /\ Append(s, e)[Len(s) + 1] = e
  BY DEF Kept

LEMMA StepKeeps ==
  ASSUME GateTypeOK, [GateNext]_gateSystem
  PROVE  /\ config' = config
         /\ Kept(attestations, attestations') /\ Kept(dependencies, dependencies')
         /\ Kept(verifications, verifications')
         /\ artifacts \subseteq artifacts' /\ policies \subseteq policies'
<1> USE DEF Kept
<1>0. attestations \in Seq(AttestationRow) /\ dependencies \in Seq(DependencyRow)
        /\ verifications \in Seq(VerificationRow)
  BY DEF GateTypeOK, StoreTypeOK
<1>1. CASE UNCHANGED gateSystem
  BY <1>1 DEF gateSystem, storeVars
<1>2. CASE \E w \in Verifiers, r \in Requests : Begin(w, r)
  BY <1>2 DEF Begin, storeVars
<1>3. CASE \E w \in Verifiers : Ensure(w)
  BY <1>3 DEF Ensure, EnsureArtifact
<1>4. CASE \E w \in Verifiers : Attest(w)
  <2>1. \E row : attestations' = Append(attestations, row)
    BY <1>4 DEF Attest, AddAttestation, NextId
  <2>2. Kept(attestations, attestations')
    BY <1>0, <2>1, AppendKeeps
  <2> QED  BY <1>4, <2>2 DEF Attest
<1>5. CASE \E w \in Verifiers : AddEdge(w)
  BY <1>0, <1>5, AppendKeeps DEF AddEdge, AddDependencyEdge, Owner
<1>6. CASE \E w \in Verifiers : Register(w)
  BY <1>6 DEF Register, RegisterPolicy
<1>7. CASE \E w \in Verifiers : Save(w)
  BY <1>0, <1>7, AppendKeeps DEF Save, SaveVerification
<1>8. CASE \E w \in Verifiers : Fail(w)
  BY <1>8 DEF Fail, storeVars
<1> QED  BY <1>1, <1>2, <1>3, <1>4, <1>5, <1>6, <1>7, <1>8 DEF GateNext, Handle

LEMMA StoredInOrderKept ==
  ASSUME NEW rows, NEW rows2, Kept(rows, rows2), NEW ids, NEW r, StoredInOrder(rows, ids, r)
  PROVE  StoredInOrder(rows2, ids, r)
  BY DEF Kept, StoredInOrder

LEMMA EdgeStoredKept ==
  ASSUME NEW edges, NEW edges2, Kept(edges, edges2), NEW a, NEW id, NEW pin, EdgeStored(edges, a, id, pin)
  PROVE  EdgeStored(edges2, a, id, pin)
  BY DEF Kept, EdgeStored

LEMMA InProgressKept ==
  ASSUME NEW cfg, NEW rows, NEW rows2, Kept(rows, rows2), NEW edges, NEW edges2, Kept(edges, edges2),
         NEW v, InProgress(cfg, rows, edges, v)
  PROVE  InProgress(cfg, rows2, edges2, v)
<1>1. StoredInOrder(rows2, v.ids, v.request)
  BY StoredInOrderKept DEF InProgress
<1>2. StoredOrPending(cfg, edges2, v)
  BY EdgeStoredKept DEF InProgress, StoredOrPending
<1> QED  BY <1>1, <1>2 DEF InProgress

-----------------------------------------------------------------------------
(* A request in progress: the handler that moves, and the others.          *)

\* The handlers a step does not touch keep what they know of their request.
LEMMA OthersProgress ==
  ASSUME GateTypeOK, RequestsInProgress, [GateNext]_gateSystem,
         NEW u \in Verifiers, Working(u), verify'[u] = verify[u]
  PROVE  InProgress(config', attestations', dependencies', verify'[u])
<1>1. InProgress(config, attestations, dependencies, verify[u])
  BY DEF RequestsInProgress
<1>2. config' = config /\ Kept(attestations, attestations') /\ Kept(dependencies, dependencies')
  BY StepKeeps
<1>3. InProgress(config, attestations', dependencies', verify[u])
  BY <1>1, <1>2, InProgressKept
<1> QED  BY <1>2, <1>3

LEMMA BeginProgress ==
  ASSUME NEW w \in Verifiers, NEW r \in Requests, GateTypeOK, Begin(w, r)
  PROVE  InProgress(config', attestations', dependencies', verify'[w])
<1>1. verify'[w] = [pc |-> "ensure", request |-> r, results |-> <<>>, ids |-> <<>>, pins |-> <<>>]
  BY DEF Begin, GateTypeOK
<1>2. r.envelopes \in Seq(Envelopes)
  BY GateAssumption DEF Request
<1>3. Len(r.envelopes) \in Nat
  BY <1>2
<1> DEFINE new == verify'[w]
<1>4. /\ new.pc = "ensure" /\ new.request = r
      /\ new.results = <<>> /\ new.ids = <<>> /\ new.pins = <<>>
  BY <1>1
<1> HIDE DEF new
<1>5. DOMAIN <<>> = {} /\ Len(<<>>) = 0
  OBVIOUS
<1>6. StoredInOrder(attestations', new.ids, new.request)
  BY <1>3, <1>4, <1>5 DEF StoredInOrder
<1>7. new.results = [i \in DOMAIN new.ids |-> ResultOf(config', new.request, i)]
  BY <1>4, <1>5
<1>8. PendingDeclared(config', new) /\ StoredOrPending(config', dependencies', new)
  BY <1>4, <1>5 DEF PendingDeclared, StoredOrPending
<1>9. InProgress(config', attestations', dependencies', new)
  BY <1>4, <1>6, <1>7, <1>8 DEF InProgress
<1> QED  BY <1>9 DEF new

LEMMA AdvancePc ==
  ASSUME NEW cfg, NEW rows, NEW edges, NEW v, NEW new, InProgress(cfg, rows, edges, v),
         new.request = v.request, new.results = v.results, new.ids = v.ids, new.pins = v.pins,
         \/ new.pc = "attest"
         \/ new.pc = "save" /\ v.pins = <<>> /\ Len(v.ids) = Len(v.request.envelopes)
  PROVE  InProgress(cfg, rows, edges, new)
  BY DEF InProgress, PendingDeclared, StoredOrPending, DeclaredAt

LEMMA EnsureProgress ==
  ASSUME NEW w \in Verifiers, GateTypeOK, Ensure(w),
         InProgress(config, attestations, dependencies, verify[w])
  PROVE  InProgress(config', attestations', dependencies', verify'[w])
<1>1. verify'[w] = [verify[w] EXCEPT !.pc = "attest"]
  BY DEF Ensure, GateTypeOK
<1>2. verify[w] \in Handling
  BY DEF Ensure, GateTypeOK, NoRequest
<1>3. /\ verify'[w].pc = "attest" /\ verify'[w].request = verify[w].request
      /\ verify'[w].results = verify[w].results
      /\ verify'[w].ids = verify[w].ids /\ verify'[w].pins = verify[w].pins
  BY <1>1, <1>2 DEF Handling
<1>4. InProgress(config, attestations, dependencies, verify'[w])
  BY <1>3, AdvancePc
<1> QED  BY <1>4 DEF Ensure

LEMMA RegisterProgress ==
  ASSUME NEW w \in Verifiers, GateTypeOK, Register(w),
         InProgress(config, attestations, dependencies, verify[w])
  PROVE  InProgress(config', attestations', dependencies', verify'[w])
<1>1. verify'[w] = [verify[w] EXCEPT !.pc = "save"]
  BY DEF Register, GateTypeOK
<1>2. verify[w] \in Handling
  BY DEF Register, GateTypeOK, NoRequest
<1>3. /\ verify'[w].pc = "save" /\ verify'[w].request = verify[w].request
      /\ verify'[w].results = verify[w].results
      /\ verify'[w].ids = verify[w].ids /\ verify'[w].pins = verify[w].pins
  BY <1>1, <1>2 DEF Handling
<1>4. verify[w].pins = <<>> /\ Len(verify[w].ids) = Len(verify[w].request.envelopes)
  BY DEF Register, Handled
<1>5. InProgress(config, attestations, dependencies, verify'[w])
  BY <1>3, <1>4, AdvancePc
<1> QED  BY <1>5 DEF Register

LEMMA AddEdgeProgress ==
  ASSUME NEW w \in Verifiers, GateTypeOK, AddEdge(w),
         InProgress(config, attestations, dependencies, verify[w])
  PROVE  InProgress(config', attestations', dependencies', verify'[w])
<1> DEFINE v   == verify[w]
           new == verify'[w]
           edge == [artifact |-> v.request.artifact, attestation |-> v.ids[Len(v.ids)],
                    name |-> Head(v.pins).name, sha |-> Head(v.pins).sha]
<1>1. new = [v EXCEPT !.pins = Tail(@)]
  BY DEF AddEdge, GateTypeOK
<1>2. v \in Handling /\ v.pins # <<>> /\ v.pc = "attest"
  BY DEF AddEdge, GateTypeOK, NoRequest
<1>3. /\ new.pc = "attest" /\ new.request = v.request /\ new.results = v.results /\ new.ids = v.ids
      /\ new.pins = Tail(v.pins)
  BY <1>1, <1>2 DEF Handling
<1>4. v.pins \in Seq(Pin) /\ v.ids \in Seq(Nat \ {0})
  BY <1>2 DEF Handling
<1>5. config' = config /\ attestations' = attestations
  BY DEF AddEdge
<1>6. dependencies \in Seq(DependencyRow)
  BY DEF GateTypeOK, StoreTypeOK
<1>7. Kept(dependencies, dependencies') /\ \E n \in DOMAIN dependencies' : dependencies'[n] = edge
  BY <1>6, AppendKeeps DEF AddEdge, AddDependencyEdge, Owner, Kept
<1> HIDE DEF new, v
<1>8. InProgress(config, attestations, dependencies, v)
  BY DEF v
<1>9. \A m \in DOMAIN v.pins : m = 1 \/ (m - 1 \in DOMAIN new.pins /\ new.pins[m - 1] = v.pins[m])
  BY <1>2, <1>3, <1>4
<1>10. \A m \in DOMAIN new.pins : m + 1 \in DOMAIN v.pins /\ new.pins[m] = v.pins[m + 1]
  BY <1>2, <1>3, <1>4
<1>11. PendingDeclared(config, new)
  BY <1>3, <1>8, <1>10 DEF InProgress, PendingDeclared, DeclaredAt
<1>12. StoredOrPending(config, dependencies', new)
  <2> SUFFICES ASSUME NEW i \in DOMAIN v.ids, NEW k \in DOMAIN DeclaredAt(config, v, i)
               PROVE  \/ EdgeStored(dependencies', v.request.artifact, v.ids[i], DeclaredAt(config, v, i)[k])
                      \/ i = Len(v.ids) /\ \E m \in DOMAIN new.pins : new.pins[m] = DeclaredAt(config, v, i)[k]
    BY <1>3 DEF StoredOrPending, DeclaredAt
  <2>1. CASE EdgeStored(dependencies, v.request.artifact, v.ids[i], DeclaredAt(config, v, i)[k])
    BY <1>7, <2>1, EdgeStoredKept
  <2>2. CASE i = Len(v.ids) /\ \E m \in DOMAIN v.pins : v.pins[m] = DeclaredAt(config, v, i)[k]
    <3>1. PICK m \in DOMAIN v.pins : v.pins[m] = DeclaredAt(config, v, i)[k]
      BY <2>2
    <3>2. CASE m = 1
      <4>1. v.pins[1] = Head(v.pins)
        BY <1>2, <1>4
      <4> QED  BY <1>7, <2>2, <3>1, <3>2, <4>1 DEF EdgeStored
    <3>3. CASE m # 1
      BY <1>9, <2>2, <3>1, <3>3
    <3> QED  BY <3>2, <3>3
  <2> QED  BY <1>8, <2>1, <2>2 DEF InProgress, StoredOrPending
<1>13. InProgress(config, attestations, dependencies', new)
  BY <1>2, <1>3, <1>8, <1>11, <1>12 DEF InProgress
<1> QED  BY <1>5, <1>13 DEF new

LEMMA AttestProgress ==
  ASSUME NEW w \in Verifiers, GateTypeOK, Attest(w),
         InProgress(config, attestations, dependencies, verify[w])
  PROVE  InProgress(config', attestations', dependencies', verify'[w])
<1> DEFINE v   == verify[w]
           new == verify'[w]
           n   == Len(v.ids) + 1
           e   == v.request.envelopes[n]
           res == VerifyOne(config, e, v.request.artifact.name, v.request.artifact.sha, v.request.now)
           row == [artifact |-> v.request.artifact, envelope |-> e, acceptedKey |-> res.acceptedKey]
<1>1. v \in Handling /\ v.pins = <<>> /\ v.pc = "attest" /\ Len(v.ids) < Len(v.request.envelopes)
  BY DEF Attest, GateTypeOK, NoRequest
<1>2. new = [v EXCEPT !.results = Append(@, res), !.ids = Append(@, Len(attestations) + 1),
                      !.pins = DeclaredPins(config, e)]
  BY DEF Attest, NextId, GateTypeOK
<1>3. attestations' = Append(attestations, row) /\ config' = config /\ dependencies' = dependencies
  BY DEF Attest, AddAttestation, NextId
<1> HIDE DEF res, row, e, v, n, new
<1>4. /\ new.pc = "attest" /\ new.request = v.request /\ new.results = Append(v.results, res)
      /\ new.ids = Append(v.ids, Len(attestations) + 1) /\ new.pins = DeclaredPins(config, e)
  BY <1>1, <1>2 DEF Handling
<1>5. InProgress(config, attestations, dependencies, v)
  BY DEF v
<1>6. v.ids \in Seq(Nat \ {0}) /\ v.results \in Seq(Result) /\ v.request \in Request
  BY <1>1, GateAssumption DEF Handling
<1>7. v.request.envelopes \in Seq(Envelopes)
  BY <1>6 DEF Request
<1>8. attestations \in Seq(AttestationRow) /\ Len(attestations) \in Nat
  BY DEF GateTypeOK, StoreTypeOK
<1>9. n \in Nat \ {0} /\ n <= Len(v.request.envelopes) /\ Len(new.ids) = n /\ DOMAIN new.ids = 1..n
  BY <1>1, <1>4, <1>6, <1>7, <1>8 DEF n
<1>10. /\ \A i \in 1..n : i # n => i \in DOMAIN v.ids /\ new.ids[i] = v.ids[i]
       /\ new.ids[n] = Len(attestations) + 1
  BY <1>4, <1>6, <1>8 DEF n
<1>11. StoredInOrder(attestations', new.ids, new.request)
  <2>1. /\ attestations'[Len(attestations) + 1] = row
        /\ DOMAIN attestations' = DOMAIN attestations \cup {Len(attestations) + 1}
        /\ Kept(attestations, attestations')
    BY <1>3, <1>8, AppendKeeps
  <2>2. \A i \in DOMAIN v.ids :
          /\ v.ids[i] \in DOMAIN attestations
          /\ attestations[v.ids[i]].artifact = v.request.artifact
          /\ attestations[v.ids[i]].envelope = v.request.envelopes[i]
          /\ \A j \in DOMAIN v.ids : i < j => v.ids[i] < v.ids[j]
    BY <1>5 DEF InProgress, StoredInOrder
  <2>3. row.artifact = v.request.artifact /\ row.envelope = v.request.envelopes[n]
    BY DEF row, e
  <2>4. \A i \in DOMAIN v.ids : v.ids[i] < Len(attestations) + 1
    BY <1>8, <2>2
  <2>5. ASSUME NEW i \in DOMAIN new.ids
        PROVE  /\ new.ids[i] \in DOMAIN attestations'
               /\ attestations'[new.ids[i]].artifact = v.request.artifact
               /\ attestations'[new.ids[i]].envelope = v.request.envelopes[i]
               /\ \A j \in DOMAIN new.ids : i < j => new.ids[i] < new.ids[j]
    <3>1. CASE i = n
      BY <1>9, <1>10, <2>1, <2>3, <3>1
    <3>2. CASE i # n
      BY <1>9, <1>10, <2>1, <2>2, <2>4, <3>2 DEF Kept
    <3> QED  BY <3>1, <3>2
  <2> QED  BY <1>4, <1>9, <2>5 DEF StoredInOrder
<1>12. new.results = [i \in DOMAIN new.ids |-> ResultOf(config, new.request, i)]
  <2>1. v.results = [i \in DOMAIN v.ids |-> ResultOf(config, v.request, i)]
    BY <1>5 DEF InProgress
  <2>2. res = ResultOf(config, v.request, n)
    BY DEF res, ResultOf, e
  <2>3. Len(v.results) = Len(v.ids) /\ Len(v.ids) \in Nat
    BY <1>6, <2>1
  <2>4. DOMAIN new.results = 1..n /\ new.results[n] = res
    BY <1>4, <1>6, <2>3 DEF n
  <2>5. \A i \in 1..n : i # n => new.results[i] = ResultOf(config, v.request, i)
    BY <1>4, <1>6, <1>10, <2>1, <2>3 DEF n
  <2>6. new.results = [i \in 1..n |-> new.results[i]]
    <3>1. e \in Envelopes
      BY <1>7, <1>9 DEF e, n
    <3>2. res \in Result
      BY <3>1, VerifyOneType DEF res
    <3>3. new.results \in Seq(Result)
      BY <1>4, <1>6, <3>2, AppendProperties
    <3> QED  BY <2>4, <3>3, LenProperties
  <2> QED  BY <1>4, <1>9, <2>2, <2>4, <2>5, <2>6
<1>13. DeclaredAt(config, new, n) = new.pins
  BY <1>4 DEF DeclaredAt, e
<1>14. PendingDeclared(config, new)
  BY <1>9, <1>13 DEF PendingDeclared
<1>15. StoredOrPending(config, dependencies, new)
  <2> SUFFICES ASSUME NEW i \in DOMAIN new.ids, NEW k \in DOMAIN DeclaredAt(config, new, i)
               PROVE  \/ EdgeStored(dependencies, v.request.artifact, new.ids[i], DeclaredAt(config, new, i)[k])
                      \/ i = n /\ \E m \in DOMAIN new.pins : new.pins[m] = DeclaredAt(config, new, i)[k]
    BY <1>4, <1>9 DEF StoredOrPending
  <2>1. CASE i = n
    BY <1>13, <2>1
  <2>2. CASE i # n
    <3>1. i \in DOMAIN v.ids /\ new.ids[i] = v.ids[i] /\ DeclaredAt(config, new, i) = DeclaredAt(config, v, i)
      BY <1>4, <1>9, <1>10, <2>2 DEF DeclaredAt
    <3>2. ~ \E m \in DOMAIN v.pins : TRUE
      BY <1>1
    <3> QED  BY <1>5, <3>1, <3>2 DEF InProgress, StoredOrPending
  <2> QED  BY <2>1, <2>2
<1>16. new.ids # <<>>
  <2>1. Len(<<>>) = 0
    OBVIOUS
  <2> QED  BY <1>9, <2>1
<1>17. InProgress(config, attestations', dependencies, new)
  BY <1>4, <1>11, <1>12, <1>14, <1>15, <1>16 DEF InProgress
<1> QED  BY <1>3, <1>17 DEF new

LEMMA ProgressNext ==
  ASSUME GateTypeOK, RequestsInProgress, [GateNext]_gateSystem
  PROVE  RequestsInProgress'
<1> DEFINE Good(u) == InProgress(config', attestations', dependencies', verify'[u])
<1>0. verify \in [Verifiers -> {NoRequest} \cup Handling]
  BY DEF GateTypeOK
<1> SUFFICES ASSUME NEW u \in Verifiers, Working(u)' PROVE Good(u)
  BY DEF RequestsInProgress
<1>1. ASSUME verify'[u] = verify[u] PROVE Good(u)
  <2>1. Working(u)
    BY <1>1 DEF Working
  <2> QED  BY <1>1, <2>1, OthersProgress
<1>2. ASSUME Working(u) PROVE InProgress(config, attestations, dependencies, verify[u])
  BY <1>2 DEF RequestsInProgress
<1> HIDE DEF Good
<1>3. CASE UNCHANGED gateSystem
  BY <1>1, <1>3 DEF gateSystem, gateVars
<1>4. ASSUME NEW w \in Verifiers, NEW r \in Requests, Begin(w, r) PROVE Good(u)
  <2>1. CASE w = u
    BY <1>4, <2>1, BeginProgress DEF Good
  <2>2. CASE w # u
    BY <1>0, <1>1, <1>4, <2>2 DEF Begin
  <2> QED  BY <2>1, <2>2
<1>5. ASSUME NEW w \in Verifiers, Ensure(w) PROVE Good(u)
  <2>1. CASE w = u
    <3>1. Working(u)
      BY <1>5, <2>1 DEF Ensure, Working
    <3> QED  BY <1>2, <1>5, <2>1, <3>1, EnsureProgress DEF Good
  <2>2. CASE w # u
    BY <1>0, <1>1, <1>5, <2>2 DEF Ensure
  <2> QED  BY <2>1, <2>2
<1>6. ASSUME NEW w \in Verifiers, Attest(w) PROVE Good(u)
  <2>1. CASE w = u
    <3>1. Working(u)
      BY <1>6, <2>1 DEF Attest, Working
    <3> QED  BY <1>2, <1>6, <2>1, <3>1, AttestProgress DEF Good
  <2>2. CASE w # u
    BY <1>0, <1>1, <1>6, <2>2 DEF Attest
  <2> QED  BY <2>1, <2>2
<1>7. ASSUME NEW w \in Verifiers, AddEdge(w) PROVE Good(u)
  <2>1. CASE w = u
    <3>1. Working(u)
      BY <1>7, <2>1 DEF AddEdge, Working
    <3> QED  BY <1>2, <1>7, <2>1, <3>1, AddEdgeProgress DEF Good
  <2>2. CASE w # u
    BY <1>0, <1>1, <1>7, <2>2 DEF AddEdge
  <2> QED  BY <2>1, <2>2
<1>8. ASSUME NEW w \in Verifiers, Register(w) PROVE Good(u)
  <2>1. CASE w = u
    <3>1. Working(u)
      BY <1>8, <2>1 DEF Register, Working
    <3> QED  BY <1>2, <1>8, <2>1, <3>1, RegisterProgress DEF Good
  <2>2. CASE w # u
    BY <1>0, <1>1, <1>8, <2>2 DEF Register
  <2> QED  BY <2>1, <2>2
<1>9. ASSUME NEW w \in Verifiers, Save(w) \/ Fail(w) PROVE Good(u)
  <2>1. verify' = [verify EXCEPT ![w] = NoRequest]
    BY <1>9 DEF Save, Fail
  <2>2. w # u
    BY <1>0, <2>1 DEF Working, NoRequest
  <2> QED  BY <1>0, <1>1, <2>1, <2>2
<1> QED  BY <1>3, <1>4, <1>5, <1>6, <1>7, <1>8, <1>9 DEF GateNext, Handle

LEMMA Inductive == GateSpec => [](GateTypeOK /\ RequestsInProgress)
<1> DEFINE Inv == GateTypeOK /\ RequestsInProgress
<1>1. GateInit => Inv
  BY TypeInit DEF GateInit, RequestsInProgress, Working, NoRequest
<1>2. Inv /\ [GateNext]_gateSystem => Inv'
  BY TypeNext, ProgressNext
<1> QED  BY <1>1, <1>2, PTL DEF GateSpec

\* Every table of the store and every handler is well typed in every state.
THEOREM GateIsWellTyped == GateSpec => []GateTypeOK
  BY Inductive, PTL

\* What each handler has stored is what its request calls for: the rows of its
\* own attestations in their order and, but for the pins it still holds, the
\* dependency edges these declare.
THEOREM ProgressIsKept == GateSpec => []RequestsInProgress
  BY Inductive, PTL

-----------------------------------------------------------------------------
(* Dependency edges.                                                       *)

LEMMA DeclaredByKept ==
  ASSUME NEW cfg, NEW rows, NEW rows2, Kept(rows, rows2), NEW edge, DeclaredBy(cfg, rows, edge)
  PROVE  DeclaredBy(cfg, rows2, edge)
  BY DEF Kept, DeclaredBy

\* The edge a handler stores is one its last attestation declares.
LEMMA EdgeIsDeclared ==
  ASSUME NEW w \in Verifiers, GateTypeOK, RequestsInProgress, AddEdge(w)
  PROVE  LET v == verify[w]
         IN  DeclaredBy(config, attestations,
               [artifact |-> v.request.artifact, attestation |-> v.ids[Len(v.ids)],
                name |-> Head(v.pins).name, sha |-> Head(v.pins).sha])
<1> DEFINE v    == verify[w]
           last == Len(v.ids)
           edge == [artifact |-> v.request.artifact, attestation |-> v.ids[last],
                    name |-> Head(v.pins).name, sha |-> Head(v.pins).sha]
<1>1. v \in Handling /\ v.pins # <<>> /\ Working(w)
  BY DEF AddEdge, GateTypeOK, NoRequest, Working
<1>2. InProgress(config, attestations, dependencies, v)
  BY <1>1 DEF RequestsInProgress
<1> HIDE DEF v
<1>3. v.ids \in Seq(Nat \ {0}) /\ v.pins \in Seq(Pin)
  BY <1>1 DEF Handling
<1>4. last \in DOMAIN v.ids
  BY <1>1, <1>2, <1>3 DEF InProgress
<1>5. v.ids[last] \in DOMAIN attestations /\ attestations[v.ids[last]].artifact = v.request.artifact
        /\ attestations[v.ids[last]].envelope = v.request.envelopes[last]
  BY <1>2, <1>4 DEF InProgress, StoredInOrder
<1>6. \E k \in DOMAIN DeclaredAt(config, v, last) : Head(v.pins) = DeclaredAt(config, v, last)[k]
  <2>1. 1 \in DOMAIN v.pins /\ Head(v.pins) = v.pins[1]
    BY <1>1, <1>3
  <2> QED  BY <1>2, <2>1 DEF InProgress, PendingDeclared
<1>7. Head(v.pins) = [name |-> Head(v.pins).name, sha |-> Head(v.pins).sha]
  <2>1. Head(v.pins) \in Pin
    BY <1>1, <1>3
  <2> QED  BY <2>1 DEF Pin
<1>8. DeclaredBy(config, attestations, edge)
  BY <1>5, <1>6, <1>7 DEF DeclaredBy, DeclaredAt
<1> QED  BY <1>8 DEF v

\* Every dependency edge on record names a stored attestation of the edge's
\* artifact that declares the edge's input, whatever handlers interleave.
THEOREM EdgesAreDeclared == GateSpec => []EdgesDeclared
<1>1. GateInit => EdgesDeclared
  BY DEF GateInit, StoreInit, EdgesDeclared
<1>2. GateTypeOK /\ RequestsInProgress /\ EdgesDeclared /\ [GateNext]_gateSystem => EdgesDeclared'
  <2> SUFFICES ASSUME GateTypeOK, RequestsInProgress, EdgesDeclared, [GateNext]_gateSystem,
                      NEW n \in DOMAIN dependencies'
               PROVE  DeclaredBy(config, attestations', dependencies'[n])
    BY StepKeeps DEF EdgesDeclared
  <2>1. Kept(attestations, attestations')
    BY StepKeeps
  <2>2. CASE n \in DOMAIN dependencies /\ dependencies'[n] = dependencies[n]
    BY <2>1, <2>2, DeclaredByKept DEF EdgesDeclared
  <2>3. CASE \E w \in Verifiers : AddEdge(w)
    <3>1. PICK w \in Verifiers : AddEdge(w)
      BY <2>3
    <3> DEFINE v    == verify[w]
               edge == [artifact |-> v.request.artifact, attestation |-> v.ids[Len(v.ids)],
                        name |-> Head(v.pins).name, sha |-> Head(v.pins).sha]
    <3>2. dependencies' = dependencies \/ dependencies' = Append(dependencies, edge)
      BY <3>1 DEF AddEdge, AddDependencyEdge, Owner
    <3>3. DeclaredBy(config, attestations, edge)
      BY <3>1, EdgeIsDeclared
    <3> HIDE DEF edge, v
    <3>4. \/ n \in DOMAIN dependencies /\ dependencies'[n] = dependencies[n]
          \/ dependencies'[n] = edge
      <4>1. dependencies \in Seq(DependencyRow)
        BY DEF GateTypeOK, StoreTypeOK
      <4> QED  BY <3>2, <4>1, AppendKeeps DEF Kept
    <3> QED  BY <2>1, <2>2, <3>3, <3>4, DeclaredByKept
  <2>4. CASE ~ \E w \in Verifiers : AddEdge(w)
    <3>1. dependencies' = dependencies
      BY <2>4 DEF GateNext, Handle, Begin, Ensure, Attest, Register, Save, Fail, gateSystem, storeVars
    <3> QED  BY <2>2, <3>1
  <2> QED  BY <2>3, <2>4
<1> QED  BY <1>1, <1>2, Inductive, PTL DEF GateSpec

-----------------------------------------------------------------------------
(* Verdicts.                                                               *)

LEMMA AnswersKept ==
  ASSUME NEW cfg, NEW rows, NEW rows2, Kept(rows, rows2), NEW row, NEW r, Answers(cfg, rows, row, r)
  PROVE  Answers(cfg, rows2, row, r)
  BY StoredInOrderKept DEF Answers

LEMMA AllPinsStoredKept ==
  ASSUME NEW cfg, NEW rows, NEW rows2, Kept(rows, rows2), NEW edges, NEW edges2, Kept(edges, edges2),
         NEW row, NEW r, Answers(cfg, rows, row, r), AllPinsStored(cfg, rows, edges, row)
  PROVE  AllPinsStored(cfg, rows2, edges2, row)
<1>1. \A i \in DOMAIN row.verdicts : row.verdicts[i].attestation \in DOMAIN rows
  BY DEF Answers, StoredInOrder
<1>2. \A i \in DOMAIN row.verdicts : rows2[row.verdicts[i].attestation] = rows[row.verdicts[i].attestation]
  BY <1>1 DEF Kept
<1> QED  BY <1>2, EdgeStoredKept DEF AllPinsStored

\* The row a handler saves answers its request, and all its pins are stored.
LEMMA SavedRow ==
  ASSUME NEW w \in Verifiers, GateTypeOK, RequestsInProgress, Save(w)
  PROVE  LET v   == verify[w]
             row == GateRow(v.request.artifact, v.results, v.ids)
         IN  /\ v.request \in Requests
             /\ Answers(config, attestations, row, v.request)
             /\ AllPinsStored(config, attestations, dependencies, row)
<1> DEFINE v   == verify[w]
           r   == v.request
           row == GateRow(r.artifact, v.results, v.ids)
<1>1. v \in Handling /\ v.pc = "save" /\ Working(w)
  BY DEF Save, GateTypeOK, NoRequest, Working
<1>2. InProgress(config, attestations, dependencies, v)
  BY <1>1 DEF RequestsInProgress
<1> HIDE DEF v
<1>3. v.ids \in Seq(Nat \ {0}) /\ r \in Requests /\ r.envelopes \in Seq(Envelopes)
  BY <1>1, GateAssumption DEF Handling, Request
<1>4. /\ v.pins = <<>> /\ Len(v.ids) = Len(r.envelopes)
      /\ v.results = [i \in DOMAIN v.ids |-> ResultOf(config, r, i)]
      /\ StoredInOrder(attestations, v.ids, r)
      /\ StoredOrPending(config, dependencies, v)
  BY <1>1, <1>2 DEF InProgress
<1>5. v.results = Results(config, r)
  BY <1>3, <1>4 DEF Results
<1>6. /\ row.artifact = r.artifact
      /\ DOMAIN row.verdicts = DOMAIN v.ids
      /\ \A i \in DOMAIN v.ids : row.verdicts[i].attestation = v.ids[i]
  BY <1>4 DEF GateRow, Verdicts
<1>7. v.ids = [i \in DOMAIN row.verdicts |-> row.verdicts[i].attestation]
  BY <1>3, <1>6
<1>8. Answers(config, attestations, row, r)
  <2> HIDE DEF row
  <2>1. row = GateRow(r.artifact, Results(config, r), [i \in DOMAIN row.verdicts |-> row.verdicts[i].attestation])
    BY <1>5, <1>7 DEF row
  <2> QED  BY <1>4, <1>7, <2>1 DEF Answers
<1>9. AllPinsStored(config, attestations, dependencies, row)
  <2> HIDE DEF row
  <2> SUFFICES ASSUME NEW i \in DOMAIN v.ids,
                      NEW k \in DOMAIN DeclaredPins(config, attestations[v.ids[i]].envelope)
               PROVE  EdgeStored(dependencies, r.artifact, v.ids[i],
                                 DeclaredPins(config, attestations[v.ids[i]].envelope)[k])
    BY <1>6 DEF AllPinsStored
  <2>1. DeclaredPins(config, attestations[v.ids[i]].envelope) = DeclaredAt(config, v, i)
    BY <1>4 DEF StoredInOrder, DeclaredAt
  <2>2. ~ \E m \in DOMAIN v.pins : TRUE
    BY <1>4
  <2> QED  BY <1>4, <2>1, <2>2 DEF StoredOrPending
<1> QED  BY <1>3, <1>8, <1>9 DEF v

Answered(cfg, rows, edges, row) ==
  \E r \in Requests : Answers(cfg, rows, row, r) /\ AllPinsStored(cfg, rows, edges, row)

AllAnswered ==
  \A n \in GateRows : Answered(config, attestations, dependencies, verifications[n])

LEMMA VerdictsNext ==
  ASSUME GateTypeOK, RequestsInProgress, AllAnswered, [GateNext]_gateSystem
  PROVE  AllAnswered'
<1> SUFFICES ASSUME NEW n \in DOMAIN verifications', verifications'[n].kind = "gate"
             PROVE  Answered(config, attestations', dependencies', verifications'[n])
  BY StepKeeps DEF AllAnswered, GateRows
<1>1. Kept(attestations, attestations') /\ Kept(dependencies, dependencies')
  BY StepKeeps
<1>2. ASSUME NEW row, Answered(config, attestations, dependencies, row)
      PROVE  Answered(config, attestations', dependencies', row)
  BY <1>1, <1>2, AnswersKept, AllPinsStoredKept DEF Answered
<1>3. CASE n \in DOMAIN verifications /\ verifications'[n] = verifications[n]
  <2>1. n \in GateRows
    BY <1>3 DEF GateRows
  <2> QED  BY <1>2, <1>3, <2>1 DEF AllAnswered
<1>4. CASE \E w \in Verifiers : Save(w)
  <2>1. PICK w \in Verifiers : Save(w)
    BY <1>4
  <2> DEFINE row == GateRow(verify[w].request.artifact, verify[w].results, verify[w].ids)
  <2>2. verifications' = Append(verifications, row)
    BY <2>1 DEF Save, SaveVerification
  <2>3. Answered(config, attestations, dependencies, row)
    BY <2>1, SavedRow DEF Answered
  <2> HIDE DEF row
  <2>4. \/ n \in DOMAIN verifications /\ verifications'[n] = verifications[n]
        \/ verifications'[n] = row
    BY <2>2 DEF GateTypeOK, StoreTypeOK
  <2> QED  BY <1>2, <1>3, <2>3, <2>4
<1>5. CASE ~ \E w \in Verifiers : Save(w)
  <2>1. verifications' = verifications
    BY <1>5 DEF GateNext, Handle, Begin, Ensure, Attest, AddEdge, Register, Fail, gateSystem, storeVars
  <2> QED  BY <1>3, <2>1
<1> QED  BY <1>4, <1>5

LEMMA AllVerdictsAnswered == GateSpec => []AllAnswered
<1>1. GateInit => AllAnswered
  BY DEF GateInit, StoreInit, AllAnswered, GateRows
<1>2. GateTypeOK /\ RequestsInProgress /\ AllAnswered /\ [GateNext]_gateSystem => AllAnswered'
  BY VerdictsNext
<1> QED  BY <1>1, <1>2, Inductive, PTL DEF GateSpec

\* Whatever handlers interleave, each gate verdict on record is the answer to
\* one request as if it had been handled alone.
THEOREM VerdictsAnswerRequests == GateSpec => []GateRowsAnswerRequests
<1>1. AllAnswered => GateRowsAnswerRequests
  BY DEF AllAnswered, Answered, GateRowsAnswerRequests
<1> QED  BY <1>1, AllVerdictsAnswered, PTL

\* With a gate verdict, every pinned input of its attestations is on record.
THEOREM VerdictsRecordPins == GateSpec => []PinsRecorded
<1>1. AllAnswered => PinsRecorded
  BY DEF AllAnswered, Answered, PinsRecorded
<1> QED  BY <1>1, AllVerdictsAnswered, PTL

-----------------------------------------------------------------------------
(* What an allowed download rests on.                                      *)

\* A valid envelope is signed by the key accepted, and yields its statement.
LEMMA AcceptedKeySigned ==
  ASSUME NEW e \in Envelopes, NEW known, VerifyEnvelope(e, known).valid
  PROVE  LET sig == VerifyEnvelope(e, known)
         IN  /\ Content[e].form = "ok" /\ sig.st = Content[e].st /\ sig.acceptedKey \in known
             /\ \E i \in DOMAIN Content[e].sigs :
                  /\ Content[e].sigs[i].signer = sig.acceptedKey
                  /\ Content[e].sigs[i].keyid \in {sig.acceptedKey, NoKey}
<1> DEFINE env        == Content[e]
           accepts(s) == s.signer \in known /\ s.keyid \in {NoKey, s.signer}
           first      == {i \in DOMAIN env.sigs :
                            accepts(env.sigs[i]) /\ \A j \in 1..(i - 1) : ~ accepts(env.sigs[j])}
           pick       == CHOOSE i \in first : TRUE
<1>1. env.form = "ok" /\ first # {}
  BY DEF VerifyEnvelope
<1>2. pick \in first
  BY <1>1
<1>3. VerifyEnvelope(e, known).acceptedKey = env.sigs[pick].signer /\ VerifyEnvelope(e, known).st = env.st
  BY <1>1 DEF VerifyEnvelope
<1> QED  BY <1>1, <1>2, <1>3

LEMMA InvalidYieldsNothing ==
  ASSUME NEW e \in Envelopes, NEW known, ~ VerifyEnvelope(e, known).valid
  PROVE  VerifyEnvelope(e, known).st = NoStatement
  BY DEF VerifyEnvelope

\* An attestation that gives no reason to deny.
LEMMA Harmless ==
  ASSUME NEW cfg, NEW e \in Envelopes, NEW a, NEW now,
         ~ VerifyOne(cfg, e, a.name, a.sha, now).mismatch,
         ~ VerifyOne(cfg, e, a.name, a.sha, now).revoked
  PROVE  LET sig == VerifyEnvelope(e, KnownKeys(cfg))
         IN  /\ sig.valid /\ sig.st = Content[e].st
             /\ About(e, a)
             /\ sig.acceptedKey \in Signers(cfg, e) \ Revoked(cfg.feed)
<1> DEFINE known == KnownKeys(cfg)
           sig   == VerifyEnvelope(e, known)
<1>1. /\ ~ DigestMismatch(sig.st, a.name, a.sha)
      /\ ~ (sig.st # NoStatement /\ IsRevoked(cfg.feed, sig.acceptedKey))
  BY DEF VerifyOne
<1> HIDE DEF known
<1>2. VerifySubjectDigest(sig.st, a.name, a.sha)
  BY <1>1 DEF DigestMismatch
<1>3. sig.st # NoStatement
  BY <1>2 DEF VerifySubjectDigest, Targets
<1>4. sig.valid
  BY <1>3, InvalidYieldsNothing
<1>5. /\ Content[e].form = "ok" /\ sig.st = Content[e].st /\ sig.acceptedKey \in known
      /\ \E i \in DOMAIN Content[e].sigs :
           /\ Content[e].sigs[i].signer = sig.acceptedKey
           /\ Content[e].sigs[i].keyid \in {sig.acceptedKey, NoKey}
  BY <1>4, AcceptedKeySigned
<1> HIDE DEF sig
<1>6. About(e, a)
  BY <1>2, <1>3, <1>5 DEF About, VerifySubjectDigest, Targets
<1>7. sig.acceptedKey \in Signers(cfg, e)
  BY <1>5 DEF Signers, known
<1>8. sig.acceptedKey \notin Revoked(cfg.feed)
  BY <1>1, <1>3 DEF IsRevoked
<1> QED  BY <1>4, <1>5, <1>6, <1>7, <1>8 DEF sig, known

\* Among harmless attestations, those that pass every check are those that
\* vouch for the artifact while the policy is in force.
LEMMA PassesIffVouches ==
  ASSUME NEW cfg, NEW e \in Envelopes, NEW a, NEW now,
         ~ VerifyOne(cfg, e, a.name, a.sha, now).mismatch,
         ~ VerifyOne(cfg, e, a.name, a.sha, now).revoked
  PROVE  LET res == VerifyOne(cfg, e, a.name, a.sha, now)
         IN  /\ FullyPassed(res) => cfg.policy.from <= now /\ now < cfg.policy.until
             /\ cfg.policy.from <= now /\ now < cfg.policy.until =>
                  (FullyPassed(res) <=> Vouches(cfg, e))
             /\ FullyPassed(res) => res.origin = OriginOf(e)
<1> DEFINE sig  == VerifyEnvelope(e, KnownKeys(cfg))
           res  == VerifyOne(cfg, e, a.name, a.sha, now)
           prov == ProvenanceOf(sig.st)
           trusted == IssuerTrusted(cfg, sig.acceptedKey, prov)
           matched == VerifySubjectDigest(sig.st, a.name, a.sha)
           allowed == PolicyAllows(cfg.policy,
                        [signatureValid |-> sig.valid, issuerTrusted |-> trusted /\ ~ res.revoked,
                         digestMatch |-> matched], prov, now)
<1>1. sig.valid /\ sig.st = Content[e].st /\ sig.acceptedKey \in Signers(cfg, e) \ Revoked(cfg.feed)
  BY Harmless
<1>2. About(e, a)
  BY Harmless
<1>3. Content[e].st # NoStatement /\ prov = Content[e].st.provenance
  BY <1>1, <1>2 DEF About, ProvenanceOf
<1>4. matched
  <2>1. ~ DigestMismatch(sig.st, a.name, a.sha)
    BY DEF VerifyOne
  <2> QED  BY <2>1 DEF DigestMismatch
<1>5. res.revoked = FALSE /\ ~ IsRevoked(cfg.feed, sig.acceptedKey)
  BY <1>1 DEF VerifyOne, IsRevoked
<1>6. /\ res.signatureValid = sig.valid /\ res.digestMatch = matched
      /\ res.issuerTrusted = (trusted /\ ~ res.revoked)
      /\ res.policyAllowed = allowed
      /\ res.origin = IF prov = NoProvenance THEN NoProvenance
                      ELSE [builder |-> prov.builder, uri |-> prov.uri, commit |-> prov.commit]
  BY Zenon DEF VerifyOne
<1> HIDE DEF sig, res, prov, trusted, matched
<1>7. FullyPassed(res) <=> trusted /\ allowed
  <2> HIDE DEF allowed
  <2> QED  BY <1>1, <1>4, <1>5, <1>6, Zenon DEF FullyPassed
<1>8. trusted <=> /\ sig.acceptedKey \in DOMAIN cfg.anchors /\ prov # NoProvenance
                  /\ cfg.anchors[sig.acceptedKey] = prov.builder
  BY DEF IssuerTrusted, trusted
<1>9. trusted => (allowed <=>
        /\ prov # NoProvenance /\ prov.builder \in cfg.policy.builders
        /\ prov.uri \in cfg.policy.sources /\ prov.commit # NoCommit
        /\ cfg.policy.from <= now /\ now < cfg.policy.until)
  BY <1>1, <1>4, <1>5 DEF PolicyAllows
<1>10. Vouches(cfg, e) <=>
         /\ prov # NoProvenance
         /\ prov.builder \in cfg.policy.builders /\ prov.uri \in cfg.policy.sources
         /\ prov.commit # NoCommit
         /\ sig.acceptedKey \in DOMAIN cfg.anchors
         /\ cfg.anchors[sig.acceptedKey] = prov.builder
  BY <1>1, <1>3 DEF Vouches, sig
<1>11. FullyPassed(res) => res.origin = OriginOf(e)
  BY <1>3, <1>6, <1>7, <1>8 DEF OriginOf
<1> QED  BY <1>7, <1>8, <1>9, <1>10, <1>11 DEF res

\* What allow means for a request handled alone.
LEMMA AllowedResults ==
  ASSUME NEW cfg, NEW r \in Requests, Decision(Results(cfg, r)) = "allow"
  PROVE  Justifies(cfg, r)
<1> DEFINE rs == Results(cfg, r)
           a  == r.artifact
           D  == DOMAIN r.envelopes
<1>1. \A i \in D : r.envelopes[i] \in Envelopes
  BY GateAssumption DEF Request
<1>2. DOMAIN rs = D /\ \A i \in D : rs[i] = VerifyOne(cfg, r.envelopes[i], a.name, a.sha, r.now)
  BY DEF Results, ResultOf
<1>3. /\ Passed(rs) # {}
      /\ \A i \in D : ~ rs[i].revoked /\ ~ rs[i].mismatch
      /\ ~ Conflict(rs)
  BY <1>2 DEF Decision
<1> HIDE DEF rs, a
<1>4. ASSUME NEW i \in D
      PROVE  /\ About(r.envelopes[i], a) /\ Signers(cfg, r.envelopes[i]) \ Revoked(cfg.feed) # {}
             /\ FullyPassed(rs[i]) => cfg.policy.from <= r.now /\ r.now < cfg.policy.until
             /\ cfg.policy.from <= r.now /\ r.now < cfg.policy.until =>
                  (FullyPassed(rs[i]) <=> Vouches(cfg, r.envelopes[i]))
             /\ FullyPassed(rs[i]) => rs[i].origin = OriginOf(r.envelopes[i])
  <2> DEFINE e == r.envelopes[i]
  <2>1. e \in Envelopes /\ rs[i] = VerifyOne(cfg, e, a.name, a.sha, r.now)
    BY <1>1, <1>2
  <2> HIDE DEF e
  <2>2. /\ ~ VerifyOne(cfg, e, a.name, a.sha, r.now).mismatch
        /\ ~ VerifyOne(cfg, e, a.name, a.sha, r.now).revoked
    BY <1>3, <2>1
  <2>3. About(e, a) /\ Signers(cfg, e) \ Revoked(cfg.feed) # {}
    BY <2>1, <2>2, Harmless
  <2>4. /\ FullyPassed(rs[i]) => cfg.policy.from <= r.now /\ r.now < cfg.policy.until
        /\ cfg.policy.from <= r.now /\ r.now < cfg.policy.until => (FullyPassed(rs[i]) <=> Vouches(cfg, e))
        /\ FullyPassed(rs[i]) => rs[i].origin = OriginOf(e)
    BY <2>1, <2>2, PassesIffVouches
  <2> QED  BY <2>3, <2>4 DEF e
<1>5. PICK i \in D : FullyPassed(rs[i])
  BY <1>2, <1>3 DEF Passed
<1>6. cfg.policy.from <= r.now /\ r.now < cfg.policy.until
  BY <1>4, <1>5
<1>7. \A j \in D : FullyPassed(rs[j]) <=> Vouches(cfg, r.envelopes[j])
  BY <1>4, <1>6
<1>8. ASSUME NEW j \in D, NEW k \in D, Vouches(cfg, r.envelopes[j]), Vouches(cfg, r.envelopes[k])
      PROVE  OriginOf(r.envelopes[j]) = OriginOf(r.envelopes[k])
  <2>1. j \in Passed(rs) /\ k \in Passed(rs)
    BY <1>2, <1>7, <1>8 DEF Passed
  <2>2. rs[j].origin = rs[k].origin
    BY <1>2, <1>3, <2>1 DEF Conflict, ConflictWith
  <2> QED  BY <1>4, <1>7, <1>8, <2>2
<1>9. \A e \in {r.envelopes[j] : j \in D} : \E j \in D : e = r.envelopes[j]
  OBVIOUS
<1>10. \A e \in {r.envelopes[j] : j \in D} : About(e, a) /\ Signers(cfg, e) \ Revoked(cfg.feed) # {}
  BY <1>4, <1>9
<1>11. \A e, f \in {r.envelopes[j] : j \in D} : Vouches(cfg, e) /\ Vouches(cfg, f) => OriginOf(e) = OriginOf(f)
  BY <1>8, <1>9
<1>12. \E e \in {r.envelopes[j] : j \in D} : Vouches(cfg, e)
  BY <1>5, <1>7
<1> QED  BY <1>6, <1>10, <1>11, <1>12 DEF a, Justifies

\* A row that answers a request and allows the download is justified by it.
LEMMA AnswerJustified ==
  ASSUME NEW cfg, NEW rows, NEW row, NEW r \in Requests, Answers(cfg, rows, row, r),
         row.decision = "allow"
  PROVE  Justifies(cfg, r)
<1>1. \E ids : row = GateRow(r.artifact, Results(cfg, r), ids)
  BY DEF Answers
<1>2. \A ids : GateRow(r.artifact, Results(cfg, r), ids).decision = Decision(Results(cfg, r))
  BY DEF GateRow
<1> QED  BY <1>1, <1>2, AllowedResults

\* A download is allowed only on the word of attestations that vouch for the
\* artifact, with none against it: for every configuration and every request,
\* however requests interleave.
THEOREM AllowIsJustified == GateSpec => []AllowJustified
<1>1. GateRowsAnswerRequests => AllowJustified
  BY AnswerJustified DEF GateRowsAnswerRequests, AllowJustified
<1> QED  BY <1>1, VerdictsAnswerRequests, PTL
=============================================================================
