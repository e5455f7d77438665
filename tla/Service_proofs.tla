--------------------------- MODULE Service_proofs ---------------------------
(***************************************************************************)
(* Theorems about the whole server: what the gate stores is what a review  *)
(* rests on, across any number of starts and crashes.  The lemmas about    *)
(* each handler by itself come from Gate_proofs and Review_proofs; here is *)
(* what they need of each other.                                           *)
(***************************************************************************)
EXTENDS Service, Gate_proofs, Review_proofs

-----------------------------------------------------------------------------
(* What the store and the reviews need of the handlers of the gate.        *)

\* Past its first call a handler's artifact is registered; the rows it added
\* carry the keys of its results.
HandlerOK(arts, rows, v) ==
  /\ v.pc \in {"attest", "save"} => v.request.artifact \in arts
  /\ \A i \in DOMAIN v.ids : rows[v.ids[i]].acceptedKey = v.results[i].acceptedKey

HandlersOK == \A w \in Verifiers : Working(w) => HandlerOK(artifacts, attestations, verify[w])

GateOK == GateTypeOK /\ RequestsInProgress /\ HandlersOK

LEMMA HandlerStaysOK ==
  ASSUME NEW arts, NEW arts2, arts \subseteq arts2, NEW rows, NEW rows2, Kept(rows, rows2),
         NEW v, \A i \in DOMAIN v.ids : v.ids[i] \in DOMAIN rows, HandlerOK(arts, rows, v)
  PROVE  HandlerOK(arts2, rows2, v)
  BY DEF HandlerOK, Kept

LEMMA WorkingParts ==
  ASSUME GateOK, NEW w \in Verifiers, Working(w)
  PROVE  /\ verify[w] \in Handling /\ verify[w].request \in Request
         /\ HandlerOK(artifacts, attestations, verify[w])
         /\ InProgress(config, attestations, dependencies, verify[w])
         /\ \A i \in DOMAIN verify[w].ids :
              /\ verify[w].ids[i] \in DOMAIN attestations
              /\ attestations[verify[w].ids[i]].artifact = verify[w].request.artifact
<1>1. verify[w] \in Handling
  BY DEF GateOK, GateTypeOK, Working, NoRequest
<1>2. verify[w].request \in Request
  BY <1>1, GateAssumption DEF Handling
<1>3. InProgress(config, attestations, dependencies, verify[w])
  BY DEF GateOK, RequestsInProgress
<1>4. HandlerOK(artifacts, attestations, verify[w])
  BY DEF GateOK, HandlersOK
<1>5. \A i \in DOMAIN verify[w].ids :
              /\ verify[w].ids[i] \in DOMAIN attestations
              /\ attestations[verify[w].ids[i]].artifact = verify[w].request.artifact
  BY <1>3 DEF InProgress, StoredInOrder
<1> QED  BY <1>1, <1>2, <1>3, <1>4, <1>5

\* What a step of the gate leaves alone, and what it adds to.
LEMMA GateStepKeeps ==
  ASSUME GateOK, GateNext
  PROVE  /\ config' = config /\ GateTypeOK' /\ RequestsInProgress'
         /\ Kept(attestations, attestations') /\ Kept(dependencies, dependencies')
         /\ Kept(verifications, verifications')
         /\ artifacts \subseteq artifacts' /\ policies \subseteq policies'
         /\ UNCHANGED <<timeEvidence, revocationEvents>>
<1>1. GateTypeOK /\ RequestsInProgress /\ [GateNext]_gateSystem
  BY DEF GateOK
<1>2. GateTypeOK' /\ RequestsInProgress'
  BY <1>1, TypeNext, ProgressNext
<1>3. /\ config' = config
      /\ Kept(attestations, attestations') /\ Kept(dependencies, dependencies')
      /\ Kept(verifications, verifications')
      /\ artifacts \subseteq artifacts' /\ policies \subseteq policies'
  BY <1>1, StepKeeps
<1>4. UNCHANGED <<timeEvidence, revocationEvents>>
  BY DEF GateNext, Handle, Begin, Ensure, Attest, AddEdge, Register, Save, Fail, storeVars
<1> QED  BY <1>2, <1>3, <1>4

\* A handler that a step of the gate does not touch.
LEMMA OtherHandler ==
  ASSUME GateOK, GateNext, NEW u \in Verifiers, Working(u), verify'[u] = verify[u]
  PROVE  HandlerOK(artifacts', attestations', verify'[u])
<1>1. /\ HandlerOK(artifacts, attestations, verify[u])
      /\ \A i \in DOMAIN verify[u].ids : verify[u].ids[i] \in DOMAIN attestations
  BY WorkingParts
<1>2. artifacts \subseteq artifacts' /\ Kept(attestations, attestations')
  BY GateStepKeeps
<1>3. HandlerOK(artifacts', attestations', verify[u])
  BY <1>1, <1>2, HandlerStaysOK
<1> QED  BY <1>3

LEMMA AttestHandler ==
  ASSUME GateOK, NEW w \in Verifiers, Attest(w), Kept(attestations, attestations')
  PROVE  HandlerOK(artifacts', attestations', verify'[w])
<1> DEFINE v   == verify[w]
           r   == v.request
           e   == r.envelopes[Len(v.ids) + 1]
           res == VerifyOne(config, e, r.artifact.name, r.artifact.sha, r.now)
           row == [artifact |-> r.artifact, envelope |-> e, acceptedKey |-> res.acceptedKey]
<1>1. Working(w) /\ v.pc = "attest"
  BY DEF Attest, Working
<1>2. /\ v \in Handling /\ HandlerOK(artifacts, attestations, v)
      /\ InProgress(config, attestations, dependencies, v)
      /\ \A i \in DOMAIN v.ids : v.ids[i] \in DOMAIN attestations
  BY <1>1, WorkingParts
<1>3. /\ attestations' = Append(attestations, row)
      /\ verify'[w] = [v EXCEPT !.results = Append(@, res),
                                !.ids     = Append(@, Len(attestations) + 1),
                                !.pins    = DeclaredPins(config, e)]
      /\ artifacts' = artifacts
  BY DEF Attest, AddAttestation, NextId, GateOK, GateTypeOK
<1> DEFINE n == verify'[w]
<1> HIDE DEF v, e, res, row
<1>4. /\ n.pc = "attest" /\ n.request = v.request /\ n.results = Append(v.results, res)
      /\ n.ids = Append(v.ids, Len(attestations) + 1)
  BY <1>1, <1>2, <1>3 DEF Handling
<1>5. /\ v.ids \in Seq(Nat \ {0}) /\ v.results \in Seq(Result)
      /\ DOMAIN v.results = DOMAIN v.ids
  BY <1>2 DEF Handling, InProgress
<1>6. attestations \in Seq(AttestationRow)
  BY DEF GateOK, GateTypeOK, StoreTypeOK
<1>7. row.acceptedKey = res.acceptedKey
  BY DEF row
<1> HIDE DEF n
<1>8. ASSUME NEW i \in DOMAIN n.ids PROVE attestations'[n.ids[i]].acceptedKey = n.results[i].acceptedKey
  <2>1. Len(v.results) = Len(v.ids) /\ Len(v.ids) \in Nat
    BY <1>5
  <2>2. CASE i \in DOMAIN v.ids
    <3>1. n.ids[i] = v.ids[i] /\ n.results[i] = v.results[i]
      BY <1>4, <1>5, <2>2
    <3>2. attestations'[v.ids[i]] = attestations[v.ids[i]]
      BY <1>2, <2>2 DEF Kept
    <3> QED  BY <1>2, <2>2, <3>1, <3>2 DEF HandlerOK
  <2>3. CASE i = Len(v.ids) + 1
    <3>1. n.ids[i] = Len(attestations) + 1 /\ n.results[i] = res
      BY <1>4, <1>5, <2>1, <2>3
    <3>2. attestations'[Len(attestations) + 1] = row
      BY <1>3, <1>6
    <3> QED  BY <1>7, <3>1, <3>2
  <2> QED  BY <1>4, <1>5, <2>1, <2>2, <2>3
<1>9. v.request.artifact \in artifacts
  BY <1>1, <1>2 DEF HandlerOK, v
<1> QED  BY <1>3, <1>4, <1>8, <1>9 DEF HandlerOK, n

LEMMA HandlersNext ==
  ASSUME GateOK, GateNext
  PROVE  HandlersOK'
<1> SUFFICES ASSUME NEW u \in Verifiers, Working(u)'
             PROVE  HandlerOK(artifacts', attestations', verify'[u])
  BY DEF HandlersOK
<1> USE DEF GateOK, GateTypeOK
<1>1. PICK w \in Verifiers : (\E r \in Requests : Begin(w, r)) \/ Handle(w) \/ Fail(w)
  BY DEF GateNext
<1>2. verify'[u] # verify[u] => u = w
  BY <1>1 DEF Handle, Begin, Ensure, Attest, AddEdge, Register, Save, Fail
<1>3. CASE verify'[u] = verify[u]
  <2>1. Working(u)
    BY <1>3 DEF Working
  <2> QED  BY <1>3, <2>1, OtherHandler
<1>4. CASE u = w /\ verify'[u] # verify[u]
  <2>1. CASE \E r \in Requests : Begin(w, r)
    BY <1>4, <2>1 DEF Begin, HandlerOK
  <2>2. CASE Ensure(w)
    <3>1. Working(w) /\ verify[w] \in Handling
      BY <2>2, WorkingParts DEF Ensure, Working
    <3>2. HandlerOK(artifacts, attestations, verify[w])
      BY <3>1, WorkingParts
    <3>3. /\ verify'[w] = [verify[w] EXCEPT !.pc = "attest"]
          /\ artifacts' = artifacts \cup {verify[w].request.artifact} /\ attestations' = attestations
      BY <2>2 DEF Ensure, EnsureArtifact
    <3>4. /\ verify'[w].request = verify[w].request /\ verify'[w].ids = verify[w].ids
          /\ verify'[w].results = verify[w].results
      BY <3>1, <3>3 DEF Handling
    <3> QED  BY <1>4, <3>2, <3>3, <3>4 DEF HandlerOK
  <2>3. CASE Attest(w)
    <3>1. Kept(attestations, attestations')
      BY GateStepKeeps
    <3> QED  BY <1>4, <2>3, <3>1, AttestHandler
  <2>4. CASE AddEdge(w) \/ Register(w)
    <3>1. Working(w) /\ verify[w].pc = "attest"
      BY <2>4 DEF AddEdge, Register, Working
    <3>2. verify[w] \in Handling /\ HandlerOK(artifacts, attestations, verify[w])
      BY <3>1, WorkingParts
    <3>3. \/ verify'[w] = [verify[w] EXCEPT !.pins = Tail(@)]
          \/ verify'[w] = [verify[w] EXCEPT !.pc = "save"]
      BY <2>4 DEF AddEdge, Register
    <3>4. /\ verify'[w].request = verify[w].request /\ verify'[w].ids = verify[w].ids
          /\ verify'[w].results = verify[w].results
      BY <3>2, <3>3 DEF Handling
    <3>5. artifacts' = artifacts /\ attestations' = attestations
      BY <2>4 DEF AddEdge, Register
    <3> QED  BY <1>4, <3>1, <3>2, <3>4, <3>5 DEF HandlerOK
  <2>5. CASE Save(w) \/ Fail(w)
    BY <1>4, <2>5 DEF Save, Fail, Working, NoRequest
  <2> QED  BY <1>1, <2>1, <2>2, <2>3, <2>4, <2>5 DEF Handle
<1> QED  BY <1>2, <1>3, <1>4

-----------------------------------------------------------------------------
(* What the gate stores is what a review can walk over.                    *)

LEMMA GateStores ==
  ASSUME GateOK, GateNext, StoreOK(Known)
  PROVE  StoreOK(Known') /\ Grows(Known, Known')
<1> DEFINE Row(w) == [artifact |-> verify[w].request.artifact, attestation |-> Owner(verify[w]),
                      name |-> Head(verify[w].pins).name, sha |-> Head(verify[w].pins).sha]
<1>1. /\ Kept(attestations, attestations') /\ Kept(dependencies, dependencies')
      /\ artifacts \subseteq artifacts' /\ timeEvidence' = timeEvidence
      /\ GateTypeOK /\ GateTypeOK'
  BY GateStepKeeps DEF GateOK
<1>2. /\ artifacts' \subseteq Artifact /\ attestations' \in Seq(AttestationRow)
      /\ dependencies' \in Seq(DependencyRow)
      /\ attestations \in Seq(AttestationRow) /\ dependencies \in Seq(DependencyRow)
  BY <1>1 DEF GateTypeOK, StoreTypeOK
<1>3. \/ attestations' = attestations
      \/ \E w \in Verifiers : /\ Attest(w) /\ artifacts' = artifacts
                              /\ \E row : /\ attestations' = Append(attestations, row)
                                          /\ row.artifact = verify[w].request.artifact
  <2>1. PICK w \in Verifiers : (\E r \in Requests : Begin(w, r)) \/ Handle(w) \/ Fail(w)
    BY DEF GateNext
  <2>2. CASE Attest(w)
    <3> DEFINE r   == verify[w].request
               e   == r.envelopes[Len(verify[w].ids) + 1]
               res == VerifyOne(config, e, r.artifact.name, r.artifact.sha, r.now)
               row == [artifact |-> r.artifact, envelope |-> e, acceptedKey |-> res.acceptedKey]
    <3>1. attestations' = Append(attestations, row) /\ artifacts' = artifacts
      BY <2>2 DEF Attest, AddAttestation
    <3>2. row.artifact = r.artifact
      OBVIOUS
    <3> HIDE DEF row
    <3> QED  BY <2>2, <3>1, <3>2
  <2>3. CASE ~ Attest(w)
    BY <2>1, <2>3 DEF Handle, Begin, Ensure, AddEdge, Register, Save, Fail, storeVars
  <2> QED  BY <2>2, <2>3
<1>4. \/ dependencies' = dependencies
      \/ \E w \in Verifiers : /\ AddEdge(w)
                              /\ dependencies' = Append(dependencies, Row(w))
  <2>1. PICK w \in Verifiers : (\E r \in Requests : Begin(w, r)) \/ Handle(w) \/ Fail(w)
    BY DEF GateNext
  <2>2. CASE AddEdge(w)
    BY <2>2 DEF AddEdge, AddDependencyEdge
  <2>3. CASE ~ AddEdge(w)
    BY <2>1, <2>3 DEF Handle, Begin, Ensure, Attest, Register, Save, Fail, storeVars
  <2> QED  BY <2>2, <2>3
<1>5. /\ \A i \in DOMAIN attestations : attestations[i].artifact \in artifacts
      /\ \A i \in DOMAIN dependencies : Backed(Known, dependencies[i])
  BY KnownParts DEF StoreOK
<1>6. ASSUME NEW i \in DOMAIN attestations' PROVE attestations'[i].artifact \in artifacts'
  <2>1. CASE i \in DOMAIN attestations
    BY <1>1, <1>5, <2>1 DEF Kept
  <2>2. CASE i \notin DOMAIN attestations
    <3>5. PICK w \in Verifiers :
                 /\ Attest(w)
                 /\ \E row : /\ attestations' = Append(attestations, row)
                             /\ row.artifact = verify[w].request.artifact
      BY <1>3, <2>2
    <3>6. PICK row : /\ attestations' = Append(attestations, row)
                     /\ row.artifact = verify[w].request.artifact
      BY <3>5
    <3>1. /\ Attest(w) /\ attestations' = Append(attestations, row)
          /\ row.artifact = verify[w].request.artifact
      BY <3>5, <3>6
    <3>2. attestations'[i] = row
      BY <1>2, <2>2, <3>1
    <3>3. Working(w) /\ verify[w].pc = "attest"
      BY <3>1 DEF Attest, Working
    <3>4. verify[w].request.artifact \in artifacts
      BY <3>3, WorkingParts DEF HandlerOK
    <3> QED  BY <1>1, <3>1, <3>2, <3>4
  <2> QED  BY <2>1, <2>2
<1>7. ASSUME NEW i \in DOMAIN dependencies' PROVE Backed(Known', dependencies'[i])
  <2>1. ASSUME NEW e, Backed(Known, e) PROVE Backed(Known', e)
    BY <1>1, <2>1, KnownParts DEF Backed, Known, Kept
  <2>2. CASE i \in DOMAIN dependencies
    BY <1>1, <1>5, <2>1, <2>2 DEF Kept
  <2>3. CASE i \notin DOMAIN dependencies
    <3>1. PICK w \in Verifiers : AddEdge(w) /\ dependencies' = Append(dependencies, Row(w))
      BY <1>4, <2>3
    <3>2. dependencies'[i] = Row(w)
      BY <1>2, <2>3, <3>1
    <3>3. Working(w) /\ verify[w].pins # <<>>
      BY <3>1 DEF AddEdge, Working
    <3> DEFINE v == verify[w]
    <3>4. /\ v \in Handling /\ InProgress(config, attestations, dependencies, v)
          /\ \A k \in DOMAIN v.ids : /\ v.ids[k] \in DOMAIN attestations
                                     /\ attestations[v.ids[k]].artifact = v.request.artifact
      BY <3>3, WorkingParts
    <3>5. Len(v.ids) \in DOMAIN v.ids
      <4>1. v.ids \in Seq(Nat \ {0}) /\ v.ids # <<>>
        BY <3>3, <3>4 DEF Handling, InProgress
      <4> HIDE DEF v
      <4> QED  BY <4>1
    <3>6. Backed(Known, Row(w))
      BY <3>4, <3>5, KnownParts DEF Backed, Owner
    <3> QED  BY <2>1, <3>2, <3>6
  <2> QED  BY <2>2, <2>3
<1> HIDE DEF Row
<1>8. /\ Known'.artifacts = artifacts' /\ Known'.attestations = attestations'
      /\ Known'.dependencies = dependencies' /\ Known'.timeEvidence = timeEvidence'
  BY DEF Known
<1>9. Known.timeEvidence \subseteq TimeEvidenceRow /\ IsFiniteSet(Known.timeEvidence)
  BY DEF StoreOK
<1>10. StoreOK(Known')
  BY <1>1, <1>2, <1>6, <1>7, <1>8, <1>9, KnownParts DEF StoreOK
<1> QED  BY <1>1, <1>8, <1>10, KnownParts DEF Grows

-----------------------------------------------------------------------------
(* What a verdict on record rests on is in the store with it: K is the     *)
(* store at a moment when K.rows rows were on record.                      *)

DeclaredIn(K, id) == PinsOf(ProvenanceOf(Content[K.attestations[id].envelope].st))

RowFed(K, row) ==
  \A i \in DOMAIN row.verdicts :
    LET id == row.verdicts[i].attestation
    IN  /\ id \in DOMAIN K.attestations
        /\ K.attestations[id].artifact = row.artifact
        /\ row.verdicts[i].signatureValid =>
             \A k \in DOMAIN DeclaredIn(K, id) :
               EdgeStored(K.dependencies, row.artifact, id, DeclaredIn(K, id)[k])

Fed(K, rows) ==
  /\ K.rows \in 0..Len(rows)
  /\ \A n \in 1..K.rows : rows[n].kind = "gate" => RowFed(K, rows[n])

LEMMA RowStaysFed ==
  ASSUME NEW K, NEW L, Grows(K, L), NEW row, RowFed(K, row)
  PROVE  RowFed(L, row)
<1> SUFFICES ASSUME NEW i \in DOMAIN row.verdicts
             PROVE  LET id == row.verdicts[i].attestation
                    IN  /\ id \in DOMAIN L.attestations
                        /\ L.attestations[id].artifact = row.artifact
                        /\ row.verdicts[i].signatureValid =>
                             \A k \in DOMAIN DeclaredIn(L, id) :
                               EdgeStored(L.dependencies, row.artifact, id, DeclaredIn(L, id)[k])
  BY DEF RowFed
<1> DEFINE id == row.verdicts[i].attestation
<1>1. /\ id \in DOMAIN K.attestations /\ K.attestations[id].artifact = row.artifact
      /\ row.verdicts[i].signatureValid =>
           \A k \in DOMAIN DeclaredIn(K, id) :
             EdgeStored(K.dependencies, row.artifact, id, DeclaredIn(K, id)[k])
  BY DEF RowFed
<1> HIDE DEF id
<1>2. id \in DOMAIN L.attestations /\ L.attestations[id] = K.attestations[id]
  BY <1>1 DEF Grows, Kept
<1>3. DeclaredIn(L, id) = DeclaredIn(K, id)
  BY <1>2 DEF DeclaredIn
<1>4. ASSUME NEW pin, EdgeStored(K.dependencies, row.artifact, id, pin)
      PROVE  EdgeStored(L.dependencies, row.artifact, id, pin)
  <2>1. Kept(K.dependencies, L.dependencies)
    BY DEF Grows
  <2> QED  BY <1>4, <2>1, EdgeStoredKept
<1>5. row.verdicts[i].signatureValid =>
        \A k \in DOMAIN DeclaredIn(L, id) :
          EdgeStored(L.dependencies, row.artifact, id, DeclaredIn(L, id)[k])
  BY <1>1, <1>3, <1>4
<1> QED  BY <1>1, <1>2, <1>5 DEF id

LEMMA StaysFed ==
  ASSUME NEW K, NEW rows \in Seq(VerificationRow), NEW rows2 \in Seq(VerificationRow),
         Kept(rows, rows2), Fed(K, rows)
  PROVE  Fed(K, rows2)
<1>1. K.rows \in 0..Len(rows) /\ Len(rows) \in Nat /\ Len(rows2) \in Nat
  BY DEF Fed
<1>2. Len(rows) <= Len(rows2)
  BY <1>1 DEF Kept
<1>3. \A n \in 1..K.rows : rows2[n] = rows[n]
  BY <1>1 DEF Kept
<1> QED  BY <1>1, <1>2, <1>3 DEF Fed

\* A row more, which is a review's or is fed.
LEMMA KnownStaysFed ==
  ASSUME Fed(Known, verifications), Grows(Known, Known'),
         verifications \in Seq(VerificationRow), verifications' \in Seq(VerificationRow),
         \/ verifications' = verifications
         \/ \E row : /\ verifications' = Append(verifications, row)
                     /\ row.kind = "gate" => RowFed(Known, row)
  PROVE  Fed(Known', verifications')
<1>1. /\ Known.rows = Len(verifications) /\ Known'.rows = Len(verifications')
      /\ Len(verifications) \in Nat
  BY DEF Known
<1>2. ASSUME NEW n \in 1..Len(verifications'), verifications'[n].kind = "gate"
      PROVE  RowFed(Known, verifications'[n])
  <2>1. CASE n \in 1..Len(verifications) /\ verifications'[n] = verifications[n]
    BY <1>1, <1>2, <2>1 DEF Fed
  <2>2. CASE ~ (n \in 1..Len(verifications) /\ verifications'[n] = verifications[n])
    <3>1. PICK row : /\ verifications' = Append(verifications, row)
                     /\ row.kind = "gate" => RowFed(Known, row)
      BY <1>2, <2>2
    <3>2. verifications'[n] = row
      BY <1>1, <2>2, <3>1
    <3> QED  BY <1>2, <3>1, <3>2
  <2> QED  BY <2>1, <2>2
<1>3. \A n \in 1..Len(verifications') : verifications'[n].kind = "gate" => RowFed(Known', verifications'[n])
  BY <1>2, RowStaysFed
<1>4. Known'.rows \in 0..Len(verifications')
  BY <1>1
<1> QED  BY <1>1, <1>3, <1>4 DEF Fed

\* What a handler of the gate records is fed.
LEMMA SavedIsFed ==
  ASSUME GateOK, NEW w \in Verifiers, Save(w)
  PROVE  RowFed(Known, GateRow(verify[w].request.artifact, verify[w].results, verify[w].ids))
<1> DEFINE v   == verify[w]
           row == GateRow(v.request.artifact, v.results, v.ids)
           r   == v.request
<1>1. /\ r \in Requests /\ Answers(config, attestations, row, r)
      /\ AllPinsStored(config, attestations, dependencies, row)
  BY SavedRow DEF GateOK
<1> HIDE DEF row
<1> DEFINE ids == [i \in DOMAIN row.verdicts |-> row.verdicts[i].attestation]
<1>2. /\ Len(ids) = Len(r.envelopes) /\ StoredInOrder(attestations, ids, r)
      /\ row = GateRow(r.artifact, Results(config, r), ids)
  BY <1>1 DEF Answers
<1>3. /\ row.artifact = r.artifact
      /\ row.verdicts = Verdicts(Results(config, r), ids)
  <2>1. row = GateRow(r.artifact, Results(config, r), ids)
    BY <1>2
  <2>2. \A a, rs, is : GateRow(a, rs, is).artifact = a /\ GateRow(a, rs, is).verdicts = Verdicts(rs, is)
    BY DEF GateRow
  <2> HIDE DEF ids, r
  <2> QED  BY <2>1, <2>2
<1> SUFFICES ASSUME NEW i \in DOMAIN row.verdicts
             PROVE  LET id == row.verdicts[i].attestation
                    IN  /\ id \in DOMAIN attestations
                        /\ attestations[id].artifact = row.artifact
                        /\ row.verdicts[i].signatureValid =>
                             \A k \in DOMAIN DeclaredIn(Known, id) :
                               EdgeStored(dependencies, row.artifact, id, DeclaredIn(Known, id)[k])
  BY KnownParts DEF RowFed, row
<1> DEFINE id == row.verdicts[i].attestation
<1>4. /\ id \in DOMAIN attestations /\ attestations[id].artifact = r.artifact
      /\ attestations[id].envelope = r.envelopes[i]
  <2>1. i \in DOMAIN ids /\ ids[i] = id
    OBVIOUS
  <2> HIDE DEF ids, id
  <2> QED  BY <1>2, <2>1 DEF StoredInOrder
<1>5. i \in DOMAIN Results(config, r)
  BY <1>3 DEF Verdicts
<1>6. row.verdicts[i].signatureValid = Results(config, r)[i].signatureValid
  BY <1>3, <1>5 DEF Verdicts
<1>7. Results(config, r)[i].signatureValid = VerifyEnvelope(r.envelopes[i], KnownKeys(config)).valid
  BY <1>5 DEF Results, ResultOf, VerifyOne
<1>8. r.envelopes[i] \in Envelopes
  <2>1. r.envelopes \in Seq(Envelopes)
    BY <1>1, GateAssumption DEF Request
  <2>2. i \in DOMAIN r.envelopes
    BY <1>5 DEF Results
  <2> QED  BY <2>1, <2>2
<1>9. ASSUME row.verdicts[i].signatureValid PROVE DeclaredIn(Known, id) = DeclaredPins(config, attestations[id].envelope)
  <2>1. VerifyEnvelope(r.envelopes[i], KnownKeys(config)).st = Content[r.envelopes[i]].st
    BY <1>6, <1>7, <1>8, <1>9, AcceptedKeySigned
  <2> QED  BY <1>4, <2>1, KnownParts DEF DeclaredIn, DeclaredPins
<1>10. \A k \in DOMAIN DeclaredPins(config, attestations[id].envelope) :
         EdgeStored(dependencies, row.artifact, id, DeclaredPins(config, attestations[id].envelope)[k])
  BY <1>1 DEF AllPinsStored
<1> QED  BY <1>3, <1>4, <1>9, <1>10

-----------------------------------------------------------------------------
(* What a review remembers of its beginning.                               *)

BegunFed(rows) == \A w \in Reviewers : Reviewing(w) => Fed(review[w].began, rows)

LEMMA MoveKeepsBegan ==
  ASSUME IsConfig(config), StoreOK(Known), ReviewsOK, NEW w \in Reviewers, Moves(w), Reviewing(w)'
  PROVE  \/ Reviewing(w) /\ review'[w].began = review[w].began
         \/ review'[w].began = Known
<1>1. CASE \E a \in artifacts : Locate(w, a)
  BY <1>1 DEF Locate, ReviewsOK
<1>2. CASE FailReview(w)
  BY <1>2 DEF FailReview, Reviewing, ReviewsOK, NoReview
<1>3. CASE ReviewStep(w)
  <2>1. review[w].pc # "idle"
    BY <1>3 DEF ReviewStep, ListUp, ResolveUp, ListDown, ResolveDown, ListAtts, ClassifyNext, Seed,
                Propagate, Settle, Persist
  <2>2. IsReview(review[w])
    BY <2>1, PhaseOfReview DEF ReviewOK
  <2>3. review'[w].began = review[w].began
    <3>1. CASE ListUp(w)
      BY <2>2, <3>1 DEF ListUp, ReviewsOK, IsReview
    <3>2. CASE ResolveUp(w)
      BY <2>2, <3>2 DEF ResolveUp, ReviewsOK, IsReview
    <3>3. CASE ListDown(w)
      BY <2>2, <3>3 DEF ListDown, ReviewsOK, IsReview
    <3>4. CASE ResolveDown(w)
      <4> DEFINE v == review[w]
                 i == Oldest(v.edges)
                 l == LinkOf(dependencies[i])
      <4>1. PICK found \in BOOLEAN :
              LET queue == IF found THEN Visit(v, l.owner) ELSE v.queue
              IN  review' = [review EXCEPT
                    ![w].pc    = IF v.edges = {i} THEN NextArtifact(queue) ELSE "down",
                    ![w].edges = @ \ {i},
                    ![w].owned = IF found THEN @ \cup {l} ELSE @,
                    ![w].queue = queue]
        BY <3>4 DEF ResolveDown
      <4> QED  BY <2>2, <4>1 DEF ReviewsOK, IsReview
    <3>5. CASE ListAtts(w)
      BY <2>2, <3>5 DEF ListAtts, ReviewsOK, IsReview
    <3>6. CASE ClassifyNext(w)
      BY <2>2, <3>6 DEF ClassifyNext, ReviewsOK, IsReview
    <3>7. CASE Seed(w)
      BY <2>2, <3>7 DEF Seed, ReviewsOK, IsReview
    <3>8. CASE Propagate(w)
      BY <2>2, <3>8 DEF Propagate, ReviewsOK, IsReview
    <3>9. CASE Settle(w)
      BY <2>2, <3>9 DEF Settle, ReviewsOK, IsReview
    <3>10. CASE Persist(w)
      BY <2>2, <3>10 DEF Persist, ReviewsOK, IsReview, Reviewing, NoReview
    <3> QED  BY <1>3, <3>1, <3>2, <3>3, <3>4, <3>5, <3>6, <3>7, <3>8, <3>9, <3>10 DEF ReviewStep
  <2> QED  BY <2>1, <2>3 DEF Reviewing
<1> QED  BY <1>1, <1>2, <1>3 DEF Moves

LEMMA BegunStaysFed ==
  ASSUME verifications \in Seq(VerificationRow), verifications' \in Seq(VerificationRow),
         Kept(verifications, verifications'), BegunFed(verifications), Fed(Known, verifications),
         \A w \in Reviewers : Reviewing(w)' =>
           \/ Reviewing(w) /\ review'[w].began = review[w].began
           \/ review'[w].began = Known
  PROVE  BegunFed(verifications)'
<1> SUFFICES ASSUME NEW w \in Reviewers, Reviewing(w)' PROVE Fed(review'[w].began, verifications')
  BY DEF BegunFed
<1>1. ASSUME NEW K, Fed(K, verifications) PROVE Fed(K, verifications')
  BY <1>1, StaysFed
<1>2. Fed(review'[w].began, verifications)
  BY DEF BegunFed
<1> QED  BY <1>1, <1>2

-----------------------------------------------------------------------------
(* The server's own variables.                                             *)

RecordOf(k) == [comp |-> config.feed.events[k].comp, version |-> config.feed.version]

OnRecord(k) == k \in DOMAIN revocationEvents /\ revocationEvents[k] = RecordOf(k)

ServerOK ==
  /\ phase \in {"down", "booting", "up"}
  /\ release \in DOMAIN Releases /\ config = Releases[release]
  /\ unrecorded \subseteq Revoked(config.feed)
  /\ starts \in Nat
  /\ phase # "up" => /\ \A w \in Verifiers : verify[w] = NoRequest
                     /\ \A w \in Reviewers : review[w] = NoReview
  /\ phase # "down" => \A k \in Revoked(config.feed) \ unrecorded : OnRecord(k)
  /\ phase = "up" => unrecorded = {}

\* What is on record comes from the feed of the release in force or of an
\* earlier one.
LoadedBy(k, n) == \E m \in 1..n : k \in Revoked(Releases[m].feed)

EventsKnown == \A k \in DOMAIN revocationEvents : LoadedBy(k, release)

ServiceInv ==
  /\ GateOK /\ ReviewInv /\ ServerOK /\ EventsKnown
  /\ Fed(Known, verifications) /\ BegunFed(verifications)

LEMMA ConfigIsConfig == ASSUME config \in Configs PROVE IsConfig(config)
  BY GateAssumption

LEMMA ServiceStarts == ServiceInit => ServiceInv
<1> SUFFICES ASSUME ServiceInit PROVE ServiceInv
  OBVIOUS
<1>1. /\ StoreInit /\ config = Releases[1] /\ 1 \in DOMAIN Releases /\ config \in Configs
      /\ verify = [w \in Verifiers |-> NoRequest] /\ admitted = 0
      /\ review = [w \in Reviewers |-> NoReview] /\ opened = 0
      /\ phase = "down" /\ release = 1 /\ unrecorded = {} /\ starts = 0
  BY ServiceAssumption DEF ServiceInit
<1>2. StoreTypeOK
  <2>1. /\ <<>> \in Seq(VerificationRow) /\ <<>> \in Seq(AttestationRow) /\ <<>> \in Seq(DependencyRow)
        /\ DOMAIN <<>> = {} /\ <<>> \in [{} -> [comp : Int, version : Nat]]
    OBVIOUS
  <2> QED  BY <1>1, <2>1 DEF StoreInit, StoreTypeOK
<1>3. GateOK
  BY <1>1, <1>2 DEF GateOK, GateTypeOK, RequestsInProgress, HandlersOK, Working, NoRequest
<1>4. StoreOK(Known)
  <2>1. IsFiniteSet({})
    BY FS_EmptySet
  <2>2. /\ <<>> \in Seq(AttestationRow) /\ <<>> \in Seq(DependencyRow) /\ DOMAIN <<>> = {}
    OBVIOUS
  <2> QED  BY <1>1, <2>1, <2>2, KnownParts DEF StoreOK, StoreInit
<1>5. ReviewInv
  BY <1>1, <1>2, <1>4, ConfigIsConfig DEF ReviewInv, ReviewsOK
<1>6. ServerOK
  BY <1>1 DEF ServerOK
<1>7. EventsKnown
  BY <1>1 DEF EventsKnown, StoreInit
<1>8. Fed(Known, verifications)
  <2>1. Known.rows = 0 /\ Len(verifications) = 0
    BY <1>1 DEF Known, StoreInit
  <2> QED  BY <2>1 DEF Fed
<1>9. BegunFed(verifications)
  BY <1>1 DEF BegunFed, Reviewing, NoReview
<1> QED  BY <1>3, <1>5, <1>6, <1>7, <1>8, <1>9 DEF ServiceInv

-----------------------------------------------------------------------------
(* Every step of the server keeps all this.                                *)

LEMMA InvParts ==
  ASSUME ServiceInv
  PROVE  /\ GateOK /\ ReviewInv /\ ServerOK /\ EventsKnown
         /\ Fed(Known, verifications) /\ BegunFed(verifications)
         /\ IsConfig(config) /\ StoreTypeOK /\ StoreOK(Known) /\ opened \in Nat /\ ReviewsOK
         /\ verifications \in Seq(VerificationRow)
  BY DEF ServiceInv, ReviewInv, StoreTypeOK

LEMMA GateStepStays ==
  ASSUME ServiceInv, phase = "up", GateNext, UNCHANGED <<reviewVars, serverVars>>
  PROVE  ServiceInv'
<1>1. /\ GateOK /\ ServerOK /\ EventsKnown /\ Fed(Known, verifications) /\ BegunFed(verifications)
      /\ IsConfig(config) /\ StoreOK(Known) /\ opened \in Nat /\ ReviewsOK
      /\ verifications \in Seq(VerificationRow)
  BY InvParts
<1>2. /\ config' = config /\ GateTypeOK' /\ RequestsInProgress'
      /\ Kept(verifications, verifications') /\ UNCHANGED revocationEvents
  BY <1>1, GateStepKeeps
<1>3. UNCHANGED <<review, opened, phase, release, unrecorded, starts>>
  BY DEF reviewVars, serverVars
<1>4. GateOK'
  BY <1>1, <1>2, HandlersNext DEF GateOK
<1>5. StoreOK(Known') /\ Grows(Known, Known')
  BY <1>1, GateStores
<1>6. ReviewsOK'
  BY <1>1, <1>2, <1>3, <1>5, ReviewsUndisturbed
<1>7. ReviewInv'
  BY <1>1, <1>2, <1>3, <1>5, <1>6 DEF ReviewInv, GateTypeOK
<1>8. ServerOK'
  BY <1>1, <1>2, <1>3 DEF ServerOK, OnRecord, RecordOf
<1>9. EventsKnown'
  BY <1>1, <1>2, <1>3 DEF EventsKnown, LoadedBy
<1>10. verifications' \in Seq(VerificationRow)
  BY <1>2 DEF GateTypeOK, StoreTypeOK
<1>11. \/ verifications' = verifications
       \/ \E row : /\ verifications' = Append(verifications, row)
                   /\ row.kind = "gate" => RowFed(Known, row)
  <2>1. CASE \E w \in Verifiers : Save(w)
    <3>1. PICK w \in Verifiers : Save(w)
      BY <2>1
    <3> DEFINE row == GateRow(verify[w].request.artifact, verify[w].results, verify[w].ids)
    <3>2. verifications' = Append(verifications, row)
      BY <3>1 DEF Save, SaveVerification
    <3>3. RowFed(Known, row)
      BY <1>1, <3>1, SavedIsFed
    <3> HIDE DEF row
    <3> QED  BY <3>2, <3>3
  <2>2. CASE ~ \E w \in Verifiers : Save(w)
    BY <2>2 DEF GateNext, Handle, Begin, Ensure, Attest, AddEdge, Register, Fail, storeVars
  <2> QED  BY <2>1, <2>2
<1>12. Fed(Known', verifications')
  BY <1>1, <1>5, <1>10, <1>11, KnownStaysFed
<1>13. BegunFed(verifications)'
  <2>1. \A w \in Reviewers : Reviewing(w)' => Reviewing(w) /\ review'[w].began = review[w].began
    BY <1>3 DEF Reviewing
  <2> QED  BY <1>1, <1>2, <1>10, <2>1, BegunStaysFed
<1> QED  BY <1>4, <1>7, <1>8, <1>9, <1>12, <1>13 DEF ServiceInv

\* What the review handlers do to the gate's state.
LEMMA ReviewStepKeeps ==
  ASSUME ReviewNext
  PROVE  /\ UNCHANGED <<config, artifacts, attestations, dependencies, policies, revocationEvents>>
         /\ \/ \E s \in Stamps : Ingest(s)
            \/ \E w \in Reviewers : Moves(w)
<1>1. ASSUME NEW w \in Reviewers, Moves(w)
      PROVE  UNCHANGED <<config, artifacts, attestations, dependencies, policies, revocationEvents>>
  BY <1>1, MoveStores
<1>2. ASSUME NEW s \in Stamps, Ingest(s)
      PROVE  UNCHANGED <<config, artifacts, attestations, dependencies, policies, revocationEvents>>
  BY <1>2 DEF Ingest
<1> QED  BY <1>1, <1>2 DEF ReviewNext, Moves

LEMMA ReviewStepStays ==
  ASSUME ServiceInv, phase = "up", ReviewNext, UNCHANGED <<gateVars, serverVars>>
  PROVE  ServiceInv'
<1>1. /\ GateOK /\ ReviewInv /\ ServerOK /\ EventsKnown /\ Fed(Known, verifications)
      /\ BegunFed(verifications)
      /\ IsConfig(config) /\ StoreOK(Known) /\ opened \in Nat /\ ReviewsOK
      /\ verifications \in Seq(VerificationRow)
  BY InvParts
<1>2. /\ UNCHANGED <<config, artifacts, attestations, dependencies, policies, revocationEvents>>
      /\ \/ \E s \in Stamps : Ingest(s)
         \/ \E w \in Reviewers : Moves(w)
  BY ReviewStepKeeps
<1>3. UNCHANGED <<verify, admitted, phase, release, unrecorded, starts>>
  BY DEF gateVars, serverVars
<1>4. ReviewInv'
  BY <1>1, ReviewInvKept
<1>5. verifications' \in Seq(VerificationRow)
  BY <1>4 DEF ReviewInv, StoreTypeOK
<1>6. GateOK'
  <2>1. GateTypeOK'
    BY <1>1, <1>2, <1>3, <1>4 DEF GateOK, GateTypeOK, ReviewInv
  <2>2. RequestsInProgress' /\ HandlersOK'
    BY <1>1, <1>2, <1>3 DEF GateOK, RequestsInProgress, HandlersOK, Working
  <2> QED  BY <2>1, <2>2 DEF GateOK
<1>7. ServerOK'
  BY <1>1, <1>2, <1>3 DEF ServerOK, OnRecord, RecordOf
<1>8. EventsKnown'
  BY <1>1, <1>2, <1>3 DEF EventsKnown, LoadedBy
<1>9. Grows(Known, Known')
  <2>1. timeEvidence \subseteq timeEvidence'
    <3>1. ASSUME NEW s \in Stamps, Ingest(s) PROVE timeEvidence \subseteq timeEvidence'
      BY <3>1 DEF Ingest, IngestRow
    <3>2. ASSUME NEW w \in Reviewers, Moves(w) PROVE timeEvidence \subseteq timeEvidence'
      BY <3>2, MoveStores
    <3> QED  BY <1>2, <3>1, <3>2
  <2>2. /\ Known'.artifacts = artifacts' /\ Known'.attestations = attestations'
        /\ Known'.dependencies = dependencies' /\ Known'.timeEvidence = timeEvidence'
    BY DEF Known
  <2> QED  BY <1>2, <2>1, <2>2, KnownParts DEF Grows, Kept
<1>10. \/ verifications' = verifications
       \/ \E row : verifications' = Append(verifications, row) /\ row.kind = "review"
  <2>1. ASSUME NEW s \in Stamps, Ingest(s) PROVE verifications' = verifications
    BY <2>1 DEF Ingest
  <2>2. ASSUME NEW w \in Reviewers, Persist(w)
        PROVE  \E row : verifications' = Append(verifications, row) /\ row.kind = "review"
    <3> DEFINE row == ReviewRow(review[w], Due(review[w]))
    <3>1. verifications' = Append(verifications, row)
      BY <2>2 DEF Persist, SaveVerification
    <3>2. row.kind = "review"
      BY DEF ReviewRow
    <3> HIDE DEF row
    <3> QED  BY <3>1, <3>2
  <2> QED  BY <1>2, <2>1, <2>2, MoveStores
<1>11. Fed(Known', verifications')
  BY <1>1, <1>5, <1>9, <1>10, KnownStaysFed
<1>12. BegunFed(verifications)'
  <2>1. Kept(verifications, verifications')
    BY <1>1, <1>10, AppendKeeps DEF Kept
  <2>2. ASSUME NEW w \in Reviewers, Reviewing(w)'
        PROVE  \/ Reviewing(w) /\ review'[w].began = review[w].began
               \/ review'[w].began = Known
    <3>1. CASE \E s \in Stamps : Ingest(s)
      BY <2>2, <3>1 DEF Ingest, reviewVars, Reviewing
    <3>2. CASE \E x \in Reviewers : Moves(x)
      <4>1. PICK x \in Reviewers : Moves(x)
        BY <3>2
      <4>2. CASE x = w
        BY <1>1, <2>2, <4>1, <4>2, MoveKeepsBegan
      <4>3. CASE x # w
        <5>1. review'[w] = review[w]
          BY <1>1, <4>1, <4>3, MovesAlone
        <5> QED  BY <2>2, <5>1 DEF Reviewing
      <4> QED  BY <4>2, <4>3
    <3> QED  BY <1>2, <3>1, <3>2
  <2> QED  BY <1>1, <1>5, <2>1, <2>2, BegunStaysFed
<1> QED  BY <1>4, <1>6, <1>7, <1>8, <1>11, <1>12 DEF ServiceInv

\* Starts, boots and crashes leave the tables alone, but for the events.
LEMMA TablesStay ==
  ASSUME UNCHANGED <<artifacts, attestations, dependencies, timeEvidence, policies, verifications>>
  PROVE  Known' = Known
  BY DEF Known

LEMMA QuietStays ==
  ASSUME ServiceInv, UNCHANGED <<artifacts, attestations, dependencies, timeEvidence, policies,
                                 verifications, opened, admitted>>,
         config' \in Configs, verify' = [w \in Verifiers |-> NoRequest],
         review' = [w \in Reviewers |-> NoReview],
         DOMAIN revocationEvents' \subseteq Keys,
         revocationEvents' \in [DOMAIN revocationEvents' -> [comp : Int, version : Nat]]
  PROVE  /\ GateOK' /\ ReviewInv' /\ Fed(Known', verifications') /\ BegunFed(verifications)'
<1>1. /\ GateOK /\ Fed(Known, verifications) /\ StoreTypeOK /\ StoreOK(Known) /\ opened \in Nat
  BY InvParts
<1>2. Known' = Known
  BY TablesStay
<1>3. StoreTypeOK'
  BY <1>1 DEF StoreTypeOK
<1>4. GateOK'
  BY <1>1, <1>3 DEF GateOK, GateTypeOK, RequestsInProgress, HandlersOK, Working, NoRequest
<1>5. IsConfig(config')
  BY GateAssumption
<1>6. ReviewInv'
  BY <1>1, <1>2, <1>3, <1>5 DEF ReviewInv, ReviewsOK
<1>7. Fed(Known', verifications') /\ BegunFed(verifications)'
  BY <1>1, <1>2 DEF BegunFed, Reviewing, NoReview
<1> QED  BY <1>4, <1>6, <1>7

LEMMA IdleParts ==
  ASSUME ServiceInv, phase # "up"
  PROVE  /\ verify = [w \in Verifiers |-> NoRequest] /\ review = [w \in Reviewers |-> NoReview]
<1>1. /\ \A w \in Verifiers : verify[w] = NoRequest
      /\ \A w \in Reviewers : review[w] = NoReview
  BY DEF ServiceInv, ServerOK
<1>2. verify \in [Verifiers -> {NoRequest} \cup Handling]
  BY DEF ServiceInv, GateOK, GateTypeOK
<1>3. review = [w \in Reviewers |-> review[w]]
  BY DEF ServiceInv, ReviewInv, ReviewsOK
<1> QED  BY <1>1, <1>2, <1>3

LEMMA EventsTyped ==
  ASSUME ServiceInv
  PROVE  /\ DOMAIN revocationEvents \subseteq Keys
         /\ revocationEvents \in [DOMAIN revocationEvents -> [comp : Int, version : Nat]]
         /\ config \in Configs
  BY DEF ServiceInv, ReviewInv, StoreTypeOK, GateOK, GateTypeOK

LEMMA StartStays == ASSUME ServiceInv, Start PROVE ServiceInv'
<1>1. phase = "down" /\ phase' = "booting" /\ starts' = starts + 1
      /\ UNCHANGED <<storeVars, gateVars, reviewVars>>
  BY DEF Start
<1>2. PICK n \in release..Len(Releases) :
        release' = n /\ config' = Releases[n] /\ unrecorded' = Revoked(Releases[n].feed)
  BY DEF Start
<1>3. /\ UNCHANGED <<artifacts, attestations, dependencies, timeEvidence, policies, verifications,
                     revocationEvents, opened, admitted, verify, review>>
  BY <1>1 DEF storeVars, gateVars, reviewVars
<1>4. release \in DOMAIN Releases /\ config = Releases[release] /\ starts \in Nat
  BY DEF ServiceInv, ServerOK
<1>5. n \in DOMAIN Releases /\ Releases[n] \in Configs /\ release \in Nat /\ n \in Nat /\ release <= n
  BY <1>2, <1>4, ServiceAssumption
<1>6. /\ GateOK' /\ ReviewInv' /\ Fed(Known', verifications') /\ BegunFed(verifications)'
  BY <1>1, <1>2, <1>3, <1>5, IdleParts, EventsTyped, QuietStays
<1>7. ServerOK'
  BY <1>1, <1>2, <1>3, <1>4, <1>5, IdleParts DEF ServerOK
<1>8. EventsKnown'
  <2>1. \A k : LoadedBy(k, release) => LoadedBy(k, n)
    BY <1>5 DEF LoadedBy
  <2>2. \A k \in DOMAIN revocationEvents : LoadedBy(k, release)
    BY DEF ServiceInv, EventsKnown
  <2>3. \A k \in DOMAIN revocationEvents' : LoadedBy(k, release')
    BY <1>2, <1>3, <2>1, <2>2
  <2> QED  BY <2>3 DEF EventsKnown, LoadedBy
<1> QED  BY <1>6, <1>7, <1>8 DEF ServiceInv

\* An event of the feed is one of a key, with its moment.
LEMMA FeedEvent ==
  ASSUME ServiceInv, NEW k \in Revoked(config.feed)
  PROVE  k \in Keys /\ RecordOf(k) \in [comp : Int, version : Nat]
<1>1. IsConfig(config)
  BY InvParts
<1> QED  BY <1>1 DEF IsConfig, IsFeed, Revoked, RecordOf

LEMMA RecordStays ==
  ASSUME ServiceInv, NEW k \in unrecorded, RecordEvent(k)
  PROVE  ServiceInv'
<1>1. /\ phase = "booting" /\ unrecorded' = unrecorded \ {k}
      /\ UNCHANGED <<config, artifacts, attestations, dependencies, timeEvidence, policies,
                     verifications, verify, admitted, review, opened, phase, release, starts>>
  BY DEF RecordEvent, gateVars, reviewVars
<1>2. revocationEvents' = [x \in DOMAIN revocationEvents \cup {k} |->
                             IF x = k THEN RecordOf(k) ELSE revocationEvents[x]]
  BY DEF RecordEvent, UpsertRevocationEvent, RecordOf
<1>3. ServerOK /\ EventsKnown
  BY InvParts
<1>4. k \in Revoked(config.feed)
  BY <1>3 DEF ServerOK
<1>5. k \in Keys /\ RecordOf(k) \in [comp : Int, version : Nat]
  BY <1>4, FeedEvent
<1>6. /\ DOMAIN revocationEvents' \subseteq Keys
      /\ revocationEvents' \in [DOMAIN revocationEvents' -> [comp : Int, version : Nat]]
  BY <1>2, <1>5, EventsTyped
<1>7. GateOK' /\ ReviewInv' /\ Fed(Known', verifications') /\ BegunFed(verifications)'
  BY <1>1, <1>6, IdleParts, EventsTyped, QuietStays
<1>8. ServerOK'
  <2>1. \A x \in Revoked(config.feed) \ unrecorded' : OnRecord(x)'
    <3> SUFFICES ASSUME NEW x \in Revoked(config.feed) \ unrecorded'
                 PROVE  x \in DOMAIN revocationEvents' /\ revocationEvents'[x] = RecordOf(x)
      BY <1>1 DEF OnRecord, RecordOf
    <3>1. CASE x = k
      BY <1>2, <3>1
    <3>2. CASE x # k
      <4>1. OnRecord(x)
        BY <1>1, <1>3, <3>2 DEF ServerOK
      <4> QED  BY <1>2, <3>2, <4>1 DEF OnRecord
    <3> QED  BY <3>1, <3>2
  <2> QED  BY <1>1, <1>3, <2>1 DEF ServerOK
<1>9. EventsKnown'
  <2>1. release \in 1..release /\ k \in Revoked(Releases[release].feed)
    BY <1>3, <1>4, ServiceAssumption DEF ServerOK
  <2>2. LoadedBy(k, release)
    BY <2>1 DEF LoadedBy
  <2>3. \A x \in DOMAIN revocationEvents' : LoadedBy(x, release)
    BY <1>2, <1>3, <2>2 DEF EventsKnown
  <2> QED  BY <1>1, <2>3 DEF EventsKnown, LoadedBy
<1> QED  BY <1>7, <1>8, <1>9 DEF ServiceInv

LEMMA ServeStays == ASSUME ServiceInv, Serve PROVE ServiceInv'
<1>1. /\ phase = "booting" /\ unrecorded = {} /\ phase' = "up"
      /\ UNCHANGED <<config, artifacts, attestations, dependencies, timeEvidence, policies,
                     verifications, revocationEvents, verify, admitted, review, opened, release,
                     unrecorded, starts>>
  BY DEF Serve, storeVars, gateVars, reviewVars
<1>2. ServerOK /\ EventsKnown
  BY InvParts
<1>3. GateOK' /\ ReviewInv' /\ Fed(Known', verifications') /\ BegunFed(verifications)'
  BY <1>1, IdleParts, EventsTyped, QuietStays
<1>4. ServerOK'
  BY <1>1, <1>2 DEF ServerOK, OnRecord, RecordOf
<1>5. EventsKnown'
  BY <1>1, <1>2 DEF EventsKnown, LoadedBy
<1> QED  BY <1>3, <1>4, <1>5 DEF ServiceInv

LEMMA CrashStays == ASSUME ServiceInv, Crash PROVE ServiceInv'
<1>1. /\ phase' = "down" /\ unrecorded' = {}
      /\ verify' = [w \in Verifiers |-> NoRequest] /\ review' = [w \in Reviewers |-> NoReview]
      /\ UNCHANGED <<config, artifacts, attestations, dependencies, timeEvidence, policies,
                     verifications, revocationEvents, admitted, opened, release, starts>>
  BY DEF Crash, storeVars
<1>2. ServerOK /\ EventsKnown
  BY InvParts
<1>3. GateOK' /\ ReviewInv' /\ Fed(Known', verifications') /\ BegunFed(verifications)'
  BY <1>1, EventsTyped, QuietStays
<1>4. ServerOK'
  BY <1>1, <1>2 DEF ServerOK
<1>5. EventsKnown'
  BY <1>1, <1>2 DEF EventsKnown, LoadedBy
<1> QED  BY <1>3, <1>4, <1>5 DEF ServiceInv

LEMMA ServiceInvKept == ServiceInv /\ [ServiceNext]_vars => ServiceInv'
<1> SUFFICES ASSUME ServiceInv, [ServiceNext]_vars PROVE ServiceInv'
  OBVIOUS
<1>1. CASE UNCHANGED vars
  BY <1>1 DEF vars, storeVars, gateVars, reviewVars, serverVars, ServiceInv, GateOK, GateTypeOK,
     StoreTypeOK, RequestsInProgress, HandlersOK, Working, ReviewInv, ReviewsOK, ServerOK, OnRecord,
     RecordOf, EventsKnown, LoadedBy, Known, BegunFed, Reviewing
<1> QED  BY <1>1, GateStepStays, ReviewStepStays, StartStays, RecordStays, ServeStays, CrashStays
         DEF ServiceNext

\* Whatever starts, crashes and handlers interleave, the store, the handlers
\* and the loaded configuration stay sound and agree with each other.
THEOREM ServiceInvariant == ServiceSpec => []ServiceInv
<1> QED  BY ServiceStarts, ServiceInvKept, PTL DEF ServiceSpec

-----------------------------------------------------------------------------
(* What the server guarantees over its life.                               *)

\* The parts are well typed, and the server runs the release it was started
\* with.
THEOREM ServiceIsWellTyped == ServiceSpec => []ServiceTypeOK
<1>1. ASSUME ServiceInv PROVE ServiceTypeOK
  BY <1>1, ReviewInvTypes DEF ServiceInv, ServerOK, GateOK, ServiceTypeOK
<1> QED  BY <1>1, ServiceInvariant, PTL

\* While requests are served every event of the feed is on record, after any
\* number of boots that died half way.
THEOREM ServingRecords == ServiceSpec => []ServingImpliesRecorded
<1>1. ASSUME ServiceInv PROVE ServingImpliesRecorded
  BY <1>1 DEF ServiceInv, ServerOK, OnRecord, RecordOf, ServingImpliesRecorded
<1> QED  BY <1>1, ServiceInvariant, PTL

\* A pin of a fed row was an edge of the store at that moment.
LEMMA FedLink ==
  ASSUME NEW K, StoreOK(K), NEW row, RowFed(K, row), NEW i \in DOMAIN row.verdicts,
         row.verdicts[i].signatureValid,
         NEW id, id = row.verdicts[i].attestation,
         NEW p \in K.artifacts, NEW k \in DOMAIN DeclaredIn(K, id), p = DeclaredIn(K, id)[k]
  PROVE  \E n \in DOMAIN K.dependencies :
           /\ LinkOf(K.dependencies[n]) \in Links(K)
           /\ LinkOf(K.dependencies[n]).owner = row.artifact
           /\ LinkOf(K.dependencies[n]).target = p
           /\ LinkOf(K.dependencies[n]).attestation = id
<1>1. /\ id \in DOMAIN K.attestations /\ K.attestations[id].artifact = row.artifact
      /\ EdgeStored(K.dependencies, row.artifact, id, p)
  BY DEF RowFed
<1>2. p = [name |-> p.name, sha |-> p.sha]
  <2>1. p \in Artifact
    BY DEF StoreOK
  <2> QED  BY <2>1 DEF Artifact
<1>3. PICK n \in DOMAIN K.dependencies :
        K.dependencies[n] = [artifact |-> row.artifact, attestation |-> id,
                             name |-> p.name, sha |-> p.sha]
  BY <1>1 DEF EdgeStored
<1>4. /\ LinkOf(K.dependencies[n]).owner = row.artifact
      /\ LinkOf(K.dependencies[n]).attestation = id
      /\ LinkOf(K.dependencies[n]).target = p
  BY <1>2, <1>3, LinkParts
<1>5. row.artifact \in K.artifacts
  BY <1>1 DEF StoreOK
<1>6. LinkOf(K.dependencies[n]) \in Links(K)
  BY <1>4, <1>5 DEF Links, LinksOf
<1> QED  BY <1>4, <1>6

\* A pinned input a verdict declares was linked to the artifact when the
\* review began, so that the review expanded and judged it.
LEMMA FeedsCore ==
  ASSUME NEW v, ReviewOK(config, Known, v), v.pc = "persist",
         NEW B, B = v.began, NEW K, K = Known,
         NEW row, RowFed(B, row), row.artifact \in Reviewed(v),
         NEW i \in DOMAIN row.verdicts, row.verdicts[i].signatureValid,
         NEW id, id = row.verdicts[i].attestation,
         NEW p \in B.artifacts, NEW k \in DOMAIN DeclaredIn(B, id), p = DeclaredIn(B, id)[k]
  PROVE  /\ p \in Reviewed(v)
         /\ p \in v.affected /\ ValidSignature(id) /\ Anchored(id) => row.artifact \in v.affected
<1>1. /\ StoreOK(B) /\ Grows(B, K)
      /\ \A m \in DOMAIN B.dependencies :
           LET l == LinkOf(B.dependencies[m])
           IN  l \in Links(B) /\ l.owner \in Reviewed(v) => l \in v.owned /\ l.target \in Reviewed(v)
      /\ \A j \in v.judged : RightlyJudged(config, K, v, j)
      /\ \A m \in DOMAIN B.attestations :
           B.attestations[m].artifact \in Reviewed(v) /\ Sig(config, B, m).valid
           => \E j \in v.judged : j.attestation = m
      /\ Spread(config, K, v)
  BY SettledParts
<1>2. /\ id \in DOMAIN B.attestations /\ B.attestations[id].artifact = row.artifact
  BY DEF RowFed
<1>3. /\ K.attestations[id] = B.attestations[id]
      /\ Sig(config, K, id) = Sig(config, B, id)
  BY <1>1, <1>2 DEF Grows, Kept, Sig
<1>4. PICK m \in DOMAIN B.dependencies :
        /\ LinkOf(B.dependencies[m]) \in Links(B)
        /\ LinkOf(B.dependencies[m]).owner = row.artifact
        /\ LinkOf(B.dependencies[m]).target = p
        /\ LinkOf(B.dependencies[m]).attestation = id
  <2>1. StoreOK(B)
    BY <1>1
  <2> QED  BY <2>1, FedLink
<1> DEFINE l == LinkOf(B.dependencies[m])
<1>5. l \in v.owned /\ p \in Reviewed(v)
  BY <1>1, <1>4
<1>6. ASSUME p \in v.affected, ValidSignature(id), Anchored(id) PROVE row.artifact \in v.affected
  <2>1. Sig(config, B, id).valid /\ IsAnchored(config, K, id)
    BY <1>3, <1>6, PresentMeans
  <2>2. PICK j \in v.judged : j.attestation = id
    BY <1>1, <1>2, <2>1
  <2>3. j.artifact = row.artifact /\ j.anchored
    BY <1>1, <1>2, <1>3, <2>1, <2>2 DEF RightlyJudged
  <2>4. EdgeTrusted(v, l)
    BY <1>4, <2>2, <2>3 DEF EdgeTrusted
  <2>5. ~ Taints(v, l)
    BY <1>1, <1>5 DEF Spread
  <2> QED  BY <1>4, <1>6, <2>4, <2>5 DEF Taints
<1> QED  BY <1>5, <1>6

LEMMA FeedsSettled ==
  ASSUME ServiceInv, NEW w \in Reviewers, Settled(w),
         NEW n \in 1..review[w].began.rows \cap GateRows
  PROVE  ReviewOK(config, Known, review[w]) /\ RowFed(review[w].began, verifications[n])
<1>1. review[w].pc = "persist" /\ ReviewOK(config, Known, review[w])
  BY InvParts, PhaseOfReview DEF Settled
<1>2. Fed(review[w].began, verifications)
  BY <1>1, InvParts DEF BegunFed, Reviewing
<1> QED  BY <1>1, <1>2 DEF Fed, GateRows

\* The rows the review began with are the present ones.
LEMMA DeclaredThen ==
  ASSUME NEW v, ReviewOK(config, Known, v), NEW id \in DOMAIN v.began.attestations
  PROVE  PinsOf(ProvenanceOf(Content[attestations[id].envelope].st)) = DeclaredIn(v.began, id)
<1>1. attestations[id] = v.began.attestations[id]
  BY KnownParts DEF ReviewOK, Shape, Grows, Kept
<1> QED  BY <1>1 DEF DeclaredIn

\* Whatever a verdict on record rests on is used by every review that begins
\* later, also under another configuration, after any crash.
THEOREM VerdictsAreUsed == ServiceSpec => []VerdictsFeedReviews
<1>1. ASSUME ServiceInv PROVE VerdictsFeedReviews
  <2> SUFFICES ASSUME NEW w \in Reviewers, Settled(w),
                      NEW n \in 1..review[w].began.rows \cap GateRows,
                      verifications[n].artifact \in Reviewed(review[w]),
                      NEW i \in DOMAIN verifications[n].verdicts,
                      verifications[n].verdicts[i].signatureValid
               PROVE  LET v    == review[w]
                          id   == verifications[n].verdicts[i].attestation
                          pins == PinsOf(ProvenanceOf(Content[attestations[id].envelope].st))
                      IN  \A p \in {pins[k] : k \in DOMAIN pins} \cap v.began.artifacts :
                            /\ p \in Reviewed(v)
                            /\ p \in v.affected /\ ValidSignature(id) /\ Anchored(id) =>
                                 verifications[n].artifact \in v.affected
    BY DEF VerdictsFeedReviews
  <2> DEFINE v   == review[w]
             row == verifications[n]
             id  == row.verdicts[i].attestation
  <2>1. ReviewOK(config, Known, v) /\ RowFed(v.began, row) /\ v.pc = "persist"
    BY <1>1, FeedsSettled DEF Settled
  <2>2. id \in DOMAIN v.began.attestations
    BY <2>1 DEF RowFed
  <2> HIDE DEF v, row, id
  <2>3. PinsOf(ProvenanceOf(Content[attestations[id].envelope].st)) = DeclaredIn(v.began, id)
    BY <2>1, <2>2, DeclaredThen
  <2>4. ASSUME NEW p \in v.began.artifacts, NEW k \in DOMAIN DeclaredIn(v.began, id),
               p = DeclaredIn(v.began, id)[k]
        PROVE  /\ p \in Reviewed(v)
               /\ p \in v.affected /\ ValidSignature(id) /\ Anchored(id) => row.artifact \in v.affected
    <3>1. /\ row.artifact \in Reviewed(v) /\ i \in DOMAIN row.verdicts
          /\ row.verdicts[i].signatureValid /\ id = row.verdicts[i].attestation
      BY DEF v, row, id
    <3> QED  BY <2>1, <2>4, <3>1, FeedsCore
  <2> QED  BY <2>3, <2>4 DEF v, row, id
<1> QED  BY <1>1, ServiceInvariant, PTL

-----------------------------------------------------------------------------
(* Recorded revocations.                                                   *)

\* An issuer the gate trusts is not in the feed it runs with, and the row
\* stored for the attestation carries that very key.
LEMMA TrustedIsNotRevoked ==
  ASSUME GateOK, NEW w \in Verifiers, Save(w),
         NEW i \in DOMAIN Verdicts(verify[w].results, verify[w].ids),
         Verdicts(verify[w].results, verify[w].ids)[i].issuerTrusted
  PROVE  attestations[Verdicts(verify[w].results, verify[w].ids)[i].attestation].acceptedKey
           \notin Revoked(config.feed)
<1> DEFINE v == verify[w]
           r == v.request
<1>1. Working(w) /\ v.pc = "save"
  BY DEF Save, Working
<1>2. /\ InProgress(config, attestations, dependencies, v) /\ HandlerOK(artifacts, attestations, v)
  BY <1>1, WorkingParts
<1>3. /\ i \in DOMAIN v.results
      /\ Verdicts(v.results, v.ids)[i].attestation = v.ids[i]
      /\ v.results[i].issuerTrusted
  BY DEF Verdicts
<1>4. i \in DOMAIN v.ids /\ v.results[i] = ResultOf(config, r, i)
  BY <1>2, <1>3 DEF InProgress
<1>5. attestations[v.ids[i]].acceptedKey = v.results[i].acceptedKey
  BY <1>2, <1>4 DEF HandlerOK
<1> DEFINE res == ResultOf(config, r, i)
           sig == VerifyEnvelope(r.envelopes[i], KnownKeys(config))
<1>6. /\ res.acceptedKey = sig.acceptedKey
      /\ res.issuerTrusted => /\ IssuerTrusted(config, sig.acceptedKey, ProvenanceOf(sig.st))
                              /\ ~ (sig.st # NoStatement /\ IsRevoked(config.feed, sig.acceptedKey))
  BY DEF ResultOf, VerifyOne
<1> HIDE DEF sig, res
<1>7. res.issuerTrusted => sig.acceptedKey \notin Revoked(config.feed)
  BY <1>6 DEF IssuerTrusted, ProvenanceOf, IsRevoked
<1> QED  BY <1>3, <1>4, <1>5, <1>6, <1>7 DEF res

\* The rows a step adds: one, of a review or of the handler that saves it.
LEMMA NewRows ==
  ASSUME ServiceInv, ServiceNext, NEW n \in DOMAIN verifications' \ DOMAIN verifications,
         verifications'[n].kind = "gate"
  PROVE  \E w \in Verifiers :
           /\ Save(w)
           /\ verifications'[n] = GateRow(verify[w].request.artifact, verify[w].results, verify[w].ids)
<1>1. verifications \in Seq(VerificationRow)
  BY InvParts
<1>2. CASE GateNext
  <2>1. CASE \E w \in Verifiers : Save(w)
    <3>1. PICK w \in Verifiers : Save(w)
      BY <2>1
    <3> DEFINE row == GateRow(verify[w].request.artifact, verify[w].results, verify[w].ids)
    <3>2. verifications' = Append(verifications, row)
      BY <3>1 DEF Save, SaveVerification
    <3> HIDE DEF row
    <3>3. verifications'[n] = row
      BY <1>1, <3>2
    <3> QED  BY <3>1, <3>3 DEF row
  <2>2. CASE ~ \E w \in Verifiers : Save(w)
    <3>1. verifications' = verifications
      BY <1>2, <2>2 DEF GateNext, Handle, Begin, Ensure, Attest, AddEdge, Register, Fail, storeVars
    <3> QED  BY <3>1
  <2> QED  BY <2>1, <2>2
<1>3. CASE ReviewNext
  <2>1. ASSUME NEW s \in Stamps, Ingest(s) PROVE verifications' = verifications
    BY <2>1 DEF Ingest
  <2>2. ASSUME NEW w \in Reviewers, Persist(w) PROVE FALSE
    <3> DEFINE row == ReviewRow(review[w], Due(review[w]))
    <3>1. verifications' = Append(verifications, row)
      BY <2>2 DEF Persist, SaveVerification
    <3>2. row.kind = "review"
      BY DEF ReviewRow
    <3> HIDE DEF row
    <3>3. verifications'[n] = row
      BY <1>1, <3>1
    <3> QED  BY <3>2, <3>3
  <2>3. verifications' # verifications
    OBVIOUS
  <2> QED  BY <1>3, <2>1, <2>2, <2>3, ReviewStepKeeps, MoveStores
<1>4. CASE Start \/ (\E k \in unrecorded : RecordEvent(k)) \/ Serve \/ Crash
  BY <1>4 DEF Start, RecordEvent, Serve, Crash, storeVars
<1> QED  BY <1>2, <1>3, <1>4 DEF ServiceNext

\* A revoked key on record that no later release reinstates is revoked by the
\* release in force.
LEMMA StillRevoked ==
  ASSUME ServiceInv, NEW k \in DOMAIN revocationEvents, NeverReinstated(k)
  PROVE  k \in Revoked(config.feed)
<1>1. ServerOK /\ EventsKnown
  BY InvParts
<1>2. release \in DOMAIN Releases /\ config = Releases[release]
  BY <1>1 DEF ServerOK
<1>3. PICK m \in 1..release : k \in Revoked(Releases[m].feed)
  BY <1>1 DEF EventsKnown, LoadedBy
<1>4. m \in DOMAIN Releases /\ (m < release \/ m = release)
  BY <1>2, <1>3, ServiceAssumption
<1>5. CASE m < release
  BY <1>2, <1>3, <1>4, <1>5 DEF NeverReinstated
<1> QED  BY <1>2, <1>3, <1>4, <1>5

\* No recorded revocation is undone by a later verdict, whatever restarts and
\* crashes come between, unless a later release reinstates that very key.
THEOREM RevocationLasts == ServiceSpec => RevocationSticks
<1> DEFINE Sticks ==
      \A n \in DOMAIN verifications' \ DOMAIN verifications :
        verifications'[n].kind = "gate" /\ verifications'[n].decision = "allow" =>
          \A i \in DOMAIN verifications'[n].verdicts :
            verifications'[n].verdicts[i].issuerTrusted =>
              LET key == attestations[verifications'[n].verdicts[i].attestation].acceptedKey
              IN  key \in DOMAIN revocationEvents => ~ NeverReinstated(key)
<1>1. ServiceInv /\ [ServiceNext]_vars => [Sticks]_vars
  <2> SUFFICES ASSUME ServiceInv, ServiceNext,
                      NEW n \in DOMAIN verifications' \ DOMAIN verifications,
                      verifications'[n].kind = "gate",
                      NEW i \in DOMAIN verifications'[n].verdicts,
                      verifications'[n].verdicts[i].issuerTrusted,
                      NEW k, k = attestations[verifications'[n].verdicts[i].attestation].acceptedKey,
                      k \in DOMAIN revocationEvents
               PROVE  ~ NeverReinstated(k)
    OBVIOUS
  <2>1. PICK w \in Verifiers :
          /\ Save(w)
          /\ verifications'[n] = GateRow(verify[w].request.artifact, verify[w].results, verify[w].ids)
    BY NewRows
  <2>2. verifications'[n].verdicts = Verdicts(verify[w].results, verify[w].ids)
    <3>1. \A a, rs, is : GateRow(a, rs, is).verdicts = Verdicts(rs, is)
      BY DEF GateRow
    <3> QED  BY <2>1, <3>1
  <2>3. attestations[Verdicts(verify[w].results, verify[w].ids)[i].attestation].acceptedKey
          \notin Revoked(config.feed)
    <3>1. i \in DOMAIN Verdicts(verify[w].results, verify[w].ids)
      BY <2>2
    <3>2. Verdicts(verify[w].results, verify[w].ids)[i].issuerTrusted
      BY <2>2
    <3>3. GateOK /\ Save(w)
      BY <2>1, InvParts
    <3> QED  BY <3>1, <3>2, <3>3, TrustedIsNotRevoked
  <2>4. k \notin Revoked(config.feed)
    BY <2>2, <2>3
  <2> QED  BY <2>4, StillRevoked
<1> QED  BY <1>1, ServiceInvariant, PTL DEF ServiceSpec, RevocationSticks

\* Every verdict answers one request as the release in force alone would: no
\* start or crash leaves a handler with results of two releases, and what it
\* allows that release justifies.
THEOREM VerdictsOfOneRelease == ServiceSpec => VerdictsOfReleaseInForce
<1> DEFINE OfRelease ==
      \A n \in DOMAIN verifications' \ DOMAIN verifications :
        verifications'[n].kind = "gate" =>
          \E r \in Requests :
            /\ Answers(config, attestations', verifications'[n], r)
            /\ verifications'[n].decision = "allow" => Justifies(config, r)
<1>1. ServiceInv /\ [ServiceNext]_vars => [OfRelease]_vars
  <2> SUFFICES ASSUME ServiceInv, ServiceNext,
                      NEW n \in DOMAIN verifications' \ DOMAIN verifications,
                      verifications'[n].kind = "gate"
               PROVE  \E r \in Requests :
                        /\ Answers(config, attestations', verifications'[n], r)
                        /\ verifications'[n].decision = "allow" => Justifies(config, r)
    OBVIOUS
  <2>1. PICK w \in Verifiers :
          /\ Save(w)
          /\ verifications'[n] = GateRow(verify[w].request.artifact, verify[w].results, verify[w].ids)
    BY NewRows
  <2>2. /\ verify[w].request \in Requests
        /\ Answers(config, attestations, verifications'[n], verify[w].request)
    BY <2>1, InvParts, SavedRow DEF GateOK
  <2>3. attestations' = attestations
    BY <2>1 DEF Save
  <2>4. verifications'[n].decision = "allow" => Justifies(config, verify[w].request)
    BY <2>2, AnswerJustified
  <2> QED  BY <2>2, <2>3, <2>4
<1> QED  BY <1>1, ServiceInvariant, PTL DEF ServiceSpec, VerdictsOfReleaseInForce

-----------------------------------------------------------------------------
(* Reviews of the whole server: the gate writes to the store while they    *)
(* run, and the process restarts with other configurations.                *)

\* Nobody is called affected, or unaffected, without the evidence for it.
THEOREM ServiceJudgesJustly == ServiceSpec => [](NoFalseConviction /\ NoFalseAcquittal)
<1>1. ASSUME ReviewInv PROVE NoFalseConviction /\ NoFalseAcquittal
  BY <1>1, SettledIsOK, SettledConvicts, SettledClears DEF NoFalseConviction, NoFalseAcquittal
<1>2. ServiceInv => ReviewInv
  BY DEF ServiceInv
<1> QED  BY <1>1, <1>2, ServiceInvariant, PTL

\* Nothing that was linked to the root, and nothing convicted, is left out,
\* unless a lookup failed.
THEOREM ServiceMissesNothing ==
  ASSUME ~ LookupsFail PROVE ServiceSpec => [](ReviewCoversComponent /\ NothingMissed)
<1>1. ASSUME ReviewInv PROVE ReviewCoversComponent /\ NothingMissed
  BY <1>1, SettledIsOK, SettledCovers, SettledSpares DEF ReviewCoversComponent, NothingMissed
<1>2. ServiceInv => ReviewInv
  BY DEF ServiceInv
<1> QED  BY <1>1, <1>2, ServiceInvariant, PTL

-----------------------------------------------------------------------------
(* The server keeps the promise of ImpactReview: what the gate does is     *)
(* learning, what starts and crashes do is ending every inquiry.           *)

LEMMA GateLearns ==
  ASSUME ServiceInv, GateNext, UNCHANGED reviewVars
  PROVE  Promised!Learn
<1>1. GateOK /\ verifications \in Seq(VerificationRow)
  BY InvParts
<1>2. /\ config' = config
      /\ Kept(attestations, attestations') /\ Kept(dependencies, dependencies')
      /\ Kept(verifications, verifications')
      /\ artifacts \subseteq artifacts' /\ policies \subseteq policies' /\ timeEvidence' = timeEvidence
  BY <1>1, GateStepKeeps
<1>3. Inquiries' = Inquiries
  BY DEF Inquiries, reviewVars
<1>4. ASSUME NEW n \in DOMAIN verifications' \ DOMAIN verifications
      PROVE  verifications'[n].kind = "gate"
  <2>1. CASE \E w \in Verifiers : Save(w)
    <3>1. PICK w \in Verifiers : Save(w)
      BY <2>1
    <3> DEFINE row == GateRow(verify[w].request.artifact, verify[w].results, verify[w].ids)
    <3>2. verifications' = Append(verifications, row)
      BY <3>1 DEF Save, SaveVerification
    <3>3. row.kind = "gate"
      BY DEF GateRow
    <3> HIDE DEF row
    <3>4. verifications'[n] = row
      BY <1>1, <3>2
    <3> QED  BY <3>3, <3>4
  <2>2. CASE ~ \E w \in Verifiers : Save(w)
    <3>1. verifications' = verifications
      BY <2>2 DEF GateNext, Handle, Begin, Ensure, Attest, AddEdge, Register, Fail, storeVars
    <3> QED  BY <3>1
  <2> QED  BY <2>1, <2>2
<1> QED  BY <1>2, <1>3, <1>4 DEF Promised!Learn, Promised!Kept, Kept, Inquiries

LEMMA EndsInquiries ==
  ASSUME UNCHANGED storeVars, \A w \in Reviewers : review'[w] = NoReview
  PROVE  Promised!Restart
<1>1. InquiryOf(NoReview) = [stage |-> "idle"]
  BY InquiryMeans DEF NoReview
<1>2. Inquiries' = [w \in Reviewers |-> [stage |-> "idle"]]
  BY <1>1 DEF Inquiries
<1> QED  BY <1>2 DEF Promised!Restart, Promised!NoInquiry, Promised!storeVars, storeVars, Inquiries

LEMMA ServiceStepPromised ==
  ASSUME ~ LookupsFail, ServiceInv, [ServiceNext]_vars
  PROVE  Promised!InquiryNext \/ UNCHANGED Promised!inquirySystem
<1>1. CASE GateNext /\ UNCHANGED reviewVars
  BY <1>1, GateLearns DEF Promised!InquiryNext
<1>2. CASE ReviewNext
  BY <1>2, InvParts, StepPromised
<1>3. CASE Start
  <2>1. UNCHANGED storeVars /\ \A w \in Reviewers : review'[w] = NoReview
    BY <1>3, InvParts DEF Start, ServerOK, reviewVars
  <2> QED  BY <2>1, EndsInquiries DEF Promised!InquiryNext
<1>4. ASSUME NEW k \in unrecorded, RecordEvent(k) PROVE Promised!InquiryNext
  <2>1. UNCHANGED <<config, artifacts, attestations, dependencies, timeEvidence, policies,
                    verifications, review>>
    BY <1>4 DEF RecordEvent, reviewVars
  <2>2. Inquiries' = Inquiries
    BY <2>1 DEF Inquiries
  <2>3. Promised!Learn
    BY <2>1, <2>2 DEF Promised!Learn, Promised!Kept, Inquiries
  <2> QED  BY <2>3 DEF Promised!InquiryNext
<1>5. CASE Crash
  <2>1. UNCHANGED storeVars /\ \A w \in Reviewers : review'[w] = NoReview
    BY <1>5 DEF Crash
  <2> QED  BY <2>1, EndsInquiries DEF Promised!InquiryNext
<1>6. CASE Serve \/ UNCHANGED vars
  <2>1. UNCHANGED <<config, storeVars, review>>
    BY <1>6 DEF Serve, vars, reviewVars
  <2>2. Inquiries' = Inquiries
    BY <2>1 DEF Inquiries
  <2> QED  BY <2>1, <2>2 DEF Promised!inquirySystem, Promised!storeVars, storeVars, Inquiries
<1> QED  BY <1>1, <1>2, <1>3, <1>4, <1>5, <1>6 DEF ServiceNext

\* With the gate writing to the store, across starts and crashes, reviews keep
\* the promise of ImpactReview.
THEOREM ServicePromise == ASSUME ~ LookupsFail PROVE ServiceSpec => KeepsPromise
<1>1. ServiceInit => Promised!InquiryInit
  <2> SUFFICES ASSUME ServiceInit PROVE Promised!InquiryInit
    OBVIOUS
  <2>1. \A w \in Reviewers : review[w] = NoReview
    BY DEF ServiceInit
  <2>2. Inquiries = [w \in Reviewers |-> [stage |-> "idle"]]
    BY <2>1, NothingAsked
  <2> QED  BY <2>2 DEF Promised!InquiryInit, Promised!NoInquiry, Inquiries
<1>2. ServiceInv /\ [ServiceNext]_vars => [Promised!InquiryNext]_(Promised!inquirySystem)
  BY ServiceStepPromised
<1> QED  BY <1>1, <1>2, ServiceInvariant, PTL DEF ServiceSpec, KeepsPromise, Promised!InquirySpec
=============================================================================
