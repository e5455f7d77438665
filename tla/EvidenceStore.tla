---------------------------- MODULE EvidenceStore ----------------------------
(***************************************************************************)
(* The PostgreSQL store, one operator per call of store.Store that writes, *)
(* each the effect of one atomic statement or transaction.  Row ids of     *)
(* attestations and verifications are positions in the sequence (the gaps  *)
(* a failed insert leaves in the database's ids tell nothing apart); an    *)
(* artifact row is identified by its unique (name, sha256).                *)
(***************************************************************************)
EXTENDS Verdict, Impact

VARIABLES
  config,            \* what the running process was started with
  artifacts,         \* table artifacts
  attestations,      \* table attestations
  dependencies,      \* table artifact_dependencies
  timeEvidence,      \* table trusted_time_evidence
  policies,          \* table policies
  verifications,     \* tables verifications and verification_attestations
  revocationEvents   \* table revocation_events

storeVars == <<artifacts, attestations, dependencies, timeEvidence, policies,
               verifications, revocationEvents>>

Artifact == [name : Names, sha : Digests]

AttestationRow == [artifact : Artifact, envelope : Envelopes, acceptedKey : Keys \cup {NoKey}]

DependencyRow == [artifact : Artifact, attestation : Nat \ {0},
                  name : Names, sha : Digests \cup {NoDigest}]

TimeEvidenceRow == [envelope : Envelopes, tsa : Keys, time : Int]

VerdictRow == [attestation : Nat \ {0}, signatureValid : BOOLEAN, issuerTrusted : BOOLEAN,
            policyAllowed : BOOLEAN, digestMatch : BOOLEAN, conflictWith : SUBSET (Nat \ {0})]

VerificationRow ==
  [kind : {"gate", "review"}, artifact : Artifact, decision : Decisions,
   signatureValid : BOOLEAN, issuerTrusted : BOOLEAN, policyAllowed : BOOLEAN,
   digestMatch : BOOLEAN, class : Classes \cup {""}, feedVersion : Nat,
   verdicts : Seq(VerdictRow)]

StoreTypeOK ==
  /\ artifacts \subseteq Artifact
  /\ attestations \in Seq(AttestationRow)
  /\ dependencies \in Seq(DependencyRow)
  /\ timeEvidence \subseteq TimeEvidenceRow
  /\ policies \subseteq [id : STRING, content : Policy]
  /\ verifications \in Seq(VerificationRow)
  /\ DOMAIN revocationEvents \subseteq Keys
  /\ revocationEvents \in [DOMAIN revocationEvents -> [comp : Int, version : Nat]]

\* No row of a table is changed or removed.
Kept(rows, rows2) == \A n \in DOMAIN rows : n \in DOMAIN rows2 /\ rows2[n] = rows[n]

StoreInit ==
  /\ artifacts = {} /\ attestations = <<>> /\ dependencies = <<>>
  /\ timeEvidence = {} /\ policies = {} /\ verifications = <<>>
  /\ revocationEvents = <<>>

-----------------------------------------------------------------------------
(* Writes.                                                                 *)

EnsureArtifact(a) == artifacts' = artifacts \cup {a}

\* The row id the next attestation gets.  (Mutant: ids counted from zero.)
NextIdFromZero == Len(attestations)
NextId == Len(attestations) + 1

AddAttestation(rec) == attestations' = Append(attestations, rec)

\* AddDependencyEdges inserts its edges one statement at a time, each skipped
\* when the same edge of the same attestation is there.  (Mutant: of the same
\* artifact.)
AddEdgeOncePerArtifact(e) ==
  dependencies' = IF \E i \in DOMAIN dependencies : [dependencies[i] EXCEPT !.attestation = e.attestation] = e
                  THEN dependencies ELSE Append(dependencies, e)

AddDependencyEdge(e) ==
  dependencies' = IF \E i \in DOMAIN dependencies : dependencies[i] = e
                  THEN dependencies ELSE Append(dependencies, e)

\* The first content registered under an id stays.
RegisterPolicy(p) ==
  policies' = IF \E q \in policies : q.id = p.id THEN policies
              ELSE policies \cup {[id |-> p.id, content |-> p]}

SaveVerification(row) == verifications' = Append(verifications, row)

\* A stamp is stored once per envelope, authority and time.  The document it
\* came in is no column here: the code replaces it when the stamp comes again
\* (the store in memory keeps the first), but only its spelling and what the
\* authority did not sign can differ, and whatever reads it verifies it again.
IngestRow(ev) == timeEvidence' = timeEvidence \cup {ev}

\* The last event recorded for a key stays.  (Mutant: the first one does.)
InsertRevocationEvent(key, rec) ==
  revocationEvents' = [k \in DOMAIN revocationEvents \cup {key} |->
                         IF k \in DOMAIN revocationEvents THEN revocationEvents[k] ELSE rec]

UpsertRevocationEvent(key, rec) ==
  revocationEvents' = [k \in DOMAIN revocationEvents \cup {key} |->
                         IF k = key THEN rec ELSE revocationEvents[k]]

-----------------------------------------------------------------------------
(* Reads.                                                                  *)

GetArtifact(name, sha) == {a \in artifacts : a.name = name /\ a.sha = sha}

FindArtifactByName(name) == {a \in artifacts : a.name = name}

\* A row as the database answers it: the verdicts on its attestations are in a
\* table of their own, which no query reads.
RowAlone(row) == [f \in DOMAIN row \ {"verdicts"} |-> row[f]]

\* By row id.
ListVerifications(a) ==
  [i \in {i \in DOMAIN verifications : verifications[i].artifact = a} |->
     RowAlone(verifications[i])]

\* Sets of row ids: a caller that goes through the rows in the order of their
\* ids takes the oldest first.
ListAttestations(a) == {i \in DOMAIN attestations : attestations[i].artifact = a}

ListDependencyEdges(a) == {i \in DOMAIN dependencies : dependencies[i].artifact = a}

ListDependentEdges(a) ==
  {i \in DOMAIN dependencies : dependencies[i].name = a.name /\ dependencies[i].sha = a.sha}

Oldest(ids) == CHOOSE i \in ids : \A j \in ids : i <= j

ListTimeEvidence(env) == {t \in timeEvidence : t.envelope = env}

===============================================================================
