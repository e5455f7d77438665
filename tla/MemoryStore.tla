---------------------------- MODULE MemoryStore -----------------------------
(***************************************************************************)
(* The store in memory, for a server without a database: slices and maps   *)
(* under one mutex, each call of store.Store one critical section.  It is  *)
(* to mean what the PostgreSQL store means, so it is held to EvidenceStore *)
(* by a refinement mapping from the slices to the tables.  Loops over a    *)
(* slice are recursive functions over its positions.                       *)
(***************************************************************************)
EXTENDS Verdict, Impact

CONSTANTS
  Uploads,     \* artifacts that are registered: [name, sha]
  Proofs,      \* what is attested of one: [envelope, acceptedKey]
  PinLists,    \* the edges one attestation declares: sequences of [name, sha]
  Stamps,      \* time evidence: [envelope, tsa, time]
  Events,      \* revocation events: [key, comp, version]
  Registered,  \* the policy of the process
  MaxCalls     \* bound: calls that write

VARIABLES
  mem,         \* the fields of MemoryStore
  call,        \* history: the last call, its argument and its answer
  calls

memoryVars == <<mem, call, calls>>

Upload == [name : Names, sha : Digests]

ASSUME MemoryAssumption ==
  /\ Uploads \subseteq Upload
  /\ Proofs \subseteq [envelope : Envelopes, acceptedKey : Keys \cup {NoKey}]
  /\ PinLists \subseteq Seq(Pin)
  /\ Stamps \subseteq [envelope : Envelopes, tsa : Keys, time : Int]
  /\ Events \subseteq [key : Keys, comp : Int, version : Nat]
  /\ Registered \in Policy
  /\ MaxCalls \in Nat

NoCall == [op |-> "none"]

MemoryInit ==
  /\ mem = [artifactSeq |-> 0, attestSeq |-> 0, verifSeq |-> 0, tteSeq |-> 0, depSeq |-> 0,
            artifacts |-> <<>>, attestations |-> <<>>, policies |-> <<>>, verifs |-> <<>>,
            verifAttests |-> <<>>, revocationEvents |-> <<>>, trustedTimeEvidence |-> <<>>,
            dependencies |-> <<>>]
  /\ call = NoCall /\ calls = 0

\* One critical section: mem becomes m, the caller gets the answer.
Do(op, arg, answer, m) ==
  /\ calls < MaxCalls /\ calls' = calls + 1
  /\ call' = [op |-> op, arg |-> arg, answer |-> answer]
  /\ mem' = m

-----------------------------------------------------------------------------
(* Slices and maps.                                                        *)

Rows(slice) == {slice[i] : i \in DOMAIN slice}

\* A loop that stops at the first of the positions.
First(positions) == CHOOSE i \in positions : \A j \in positions : i <= j

\* A loop that appends the rows at the positions to a new slice.
Collect(slice, positions) ==
  LET out[n \in 0..Len(slice)] ==
        IF n = 0 THEN <<>>
        ELSE IF n \in positions THEN Append(out[n - 1], slice[n]) ELSE out[n - 1]
  IN  out[Len(slice)]

Put(map, key, value) ==
  [k \in DOMAIN map \cup {key} |-> IF k = key THEN value ELSE map[k]]

-----------------------------------------------------------------------------
(* Writes.                                                                 *)

SameArtifact(r, a) == r.name = a.name /\ r.sha = a.sha

EnsureArtifact(a) ==
  LET found == {i \in DOMAIN mem.artifacts : SameArtifact(mem.artifacts[i], a)}
      id    == mem.artifactSeq + 1
  IN  IF found # {}
      THEN Do("EnsureArtifact", a, mem.artifacts[First(found)].id, mem)
      ELSE Do("EnsureArtifact", a, id,
             [mem EXCEPT !.artifactSeq = id,
                         !.artifacts = Append(@, [id |-> id, name |-> a.name, sha |-> a.sha])])

\* A record or row comes without an id and gets the next one.
AddAttestation(artifactId, p) ==
  LET rec == [id |-> 0, artifactId |-> artifactId, envelope |-> p.envelope,
              acceptedKey |-> p.acceptedKey]
      id  == mem.attestSeq + 1
  IN  Do("AddAttestation", rec, id,
        [mem EXCEPT !.attestSeq = id,
                    !.attestations = Append(@, [rec EXCEPT !.id = id])])

\* The edge is in the slice already.  (Mutant: by whichever attestation.)
SameLink(m, e) == \E i \in DOMAIN m.dependencies :
  LET d == m.dependencies[i]
  IN  d.artifactId = e.artifactId /\ d.name = e.name /\ d.sha = e.sha
SameEdge(m, e) == \E i \in DOMAIN m.dependencies :
  LET d == m.dependencies[i]
  IN  /\ d.artifactId = e.artifactId /\ d.attestationId = e.attestationId
      /\ d.name = e.name /\ d.sha = e.sha

\* (Mutant: the counter of edges is not advanced.)
AddEdgeUncounted(m, e) ==
  IF SameEdge(m, e) THEN m
  ELSE [m EXCEPT !.dependencies = Append(@, [e EXCEPT !.id = m.depSeq + 1])]

AddEdge(m, e) ==
  IF SameEdge(m, e) THEN m
  ELSE [m EXCEPT !.depSeq = m.depSeq + 1,
                 !.dependencies = Append(@, [e EXCEPT !.id = m.depSeq + 1])]

AddEdges(m, edges) ==
  LET after[n \in 0..Len(edges)] == IF n = 0 THEN m ELSE AddEdge(after[n - 1], edges[n])
  IN  after[Len(edges)]

\* All edges of one attestation in one critical section.
AddDependencyEdges(att, pins) ==
  LET edges == [i \in DOMAIN pins |->
                  [id |-> 0, artifactId |-> att.artifactId, attestationId |-> att.id,
                   name |-> pins[i].name, sha |-> pins[i].sha]]
  IN  Do("AddDependencyEdges", edges, 0, AddEdges(mem, edges))

\* Whatever is registered under the id is replaced.
RegisterPolicy(p) ==
  Do("RegisterPolicy", p, 0, [mem EXCEPT !.policies = Put(mem.policies, p.id, p)])

\* An empty kind is stored as "gate".
KindOf(row) == IF row.kind = "" THEN "gate" ELSE row.kind

\* The verdicts are kept apart from the row, under its id.
SaveVerification(row, verdicts) ==
  LET id == mem.verifSeq + 1
  IN  Do("SaveVerification", [row |-> row, verdicts |-> verdicts], id,
        [mem EXCEPT !.verifSeq = id,
                    !.verifs = Append(@, [row EXCEPT !.id = id, !.kind = KindOf(row)]),
                    !.verifAttests = Put(mem.verifAttests, id, verdicts)])

SameStamp(t, ev) == t.envelope = ev.envelope /\ t.tsa = ev.tsa /\ t.time = ev.time

IngestTimeEvidence(ev) ==
  LET found == {i \in DOMAIN mem.trustedTimeEvidence : SameStamp(mem.trustedTimeEvidence[i], ev)}
      id    == mem.tteSeq + 1
  IN  IF found # {}
      THEN Do("IngestTimeEvidence", ev, mem.trustedTimeEvidence[First(found)].id, mem)
      ELSE Do("IngestTimeEvidence", ev, id,
             [mem EXCEPT !.tteSeq = id,
                         !.trustedTimeEvidence =
                           Append(@, [id |-> id, envelope |-> ev.envelope, tsa |-> ev.tsa,
                                      time |-> ev.time])])

UpsertRevocationEvent(ev) ==
  LET found == {i \in DOMAIN mem.revocationEvents : mem.revocationEvents[i].key = ev.key}
  IN  Do("UpsertRevocationEvent", ev, 0,
        IF found # {}
        THEN [mem EXCEPT !.revocationEvents = [@ EXCEPT ![First(found)] = ev]]
        ELSE [mem EXCEPT !.revocationEvents = Append(@, ev)])

-----------------------------------------------------------------------------
(* Who calls: handlers use the ids earlier calls answered.  The verdict on *)
(* one attestation stands for those of a gate row; a review row has none.  *)

Verdict1(id) == [attestation |-> id, signatureValid |-> TRUE, issuerTrusted |-> TRUE,
                 policyAllowed |-> TRUE, digestMatch |-> TRUE, conflictWith |-> {}]

Row(artifactId, kind) ==
  [id |-> 0, artifactId |-> artifactId, kind |-> kind, decision |-> "allow",
   signatureValid |-> TRUE, issuerTrusted |-> TRUE, policyAllowed |-> TRUE, digestMatch |-> TRUE,
   class |-> IF kind = "review" THEN "unaffected" ELSE "", feedVersion |-> 0]

MemoryNext ==
  \/ \E a \in Uploads : EnsureArtifact(a)
  \/ \E r \in Rows(mem.artifacts), p \in Proofs : AddAttestation(r.id, p)
  \/ \E r \in Rows(mem.attestations), pins \in PinLists : AddDependencyEdges(r, pins)
  \/ RegisterPolicy(Registered)
  \/ \E r \in Rows(mem.attestations) : SaveVerification(Row(r.artifactId, ""), <<Verdict1(r.id)>>)
  \/ \E r \in Rows(mem.artifacts) : SaveVerification(Row(r.id, "review"), <<>>)
  \/ \E ev \in Stamps : IngestTimeEvidence(ev)
  \/ \E ev \in Events : UpsertRevocationEvent(ev)

MemorySpec == MemoryInit /\ [][MemoryNext]_memoryVars

-----------------------------------------------------------------------------
(* Reads, of the store m.  ids are what the callers hold, not names.       *)

\* The first of the rows, or none: ErrNotFound.
FirstRow(slice, positions) ==
  IF positions = {} THEN <<>> ELSE <<slice[First(positions)]>>

GetArtifact(m, name, sha) ==
  FirstRow(m.artifacts, {i \in DOMAIN m.artifacts :
                           m.artifacts[i].name = name /\ m.artifacts[i].sha = sha})

GetArtifactByID(m, id) ==
  FirstRow(m.artifacts, {i \in DOMAIN m.artifacts : m.artifacts[i].id = id})

FindArtifactByName(m, name) ==
  Collect(m.artifacts, {i \in DOMAIN m.artifacts : m.artifacts[i].name = name})

ListAttestations(m, artifactId) ==
  Collect(m.attestations,
          {i \in DOMAIN m.attestations : m.attestations[i].artifactId = artifactId})

ListVerifications(m, artifactId) ==
  Collect(m.verifs, {i \in DOMAIN m.verifs : m.verifs[i].artifactId = artifactId})

ListTimeEvidence(m, envelope) ==
  Collect(m.trustedTimeEvidence,
          {i \in DOMAIN m.trustedTimeEvidence : m.trustedTimeEvidence[i].envelope = envelope})

ListDependencyEdges(m, artifactId) ==
  Collect(m.dependencies,
          {i \in DOMAIN m.dependencies : m.dependencies[i].artifactId = artifactId})

\* (Mutant: whatever digest the input is pinned to.)
ListDependentByName(m, name, sha) ==
  Collect(m.dependencies, {i \in DOMAIN m.dependencies : m.dependencies[i].name = name})
ListDependentEdges(m, name, sha) ==
  Collect(m.dependencies,
          {i \in DOMAIN m.dependencies :
             m.dependencies[i].name = name /\ m.dependencies[i].sha = sha})

-----------------------------------------------------------------------------
(* The tables the slices of m stand for.                                   *)

ArtifactRow(r) == [name |-> r.name, sha |-> r.sha]

ArtifactOf(m, id) == ArtifactRow(GetArtifactByID(m, id)[1])

AttestationOf(m, r) ==
  [artifact |-> ArtifactOf(m, r.artifactId), envelope |-> r.envelope,
   acceptedKey |-> r.acceptedKey]

EdgeOf(m, d) == [artifact |-> ArtifactOf(m, d.artifactId), attestation |-> d.attestationId,
                 name |-> d.name, sha |-> d.sha]

\* Without the document, on which the stores differ (see IngestRow).
StampRow(t) == [envelope |-> t.envelope, tsa |-> t.tsa, time |-> t.time]

VerificationOf(m, r, verdicts) ==
  [artifact |-> ArtifactOf(m, r.artifactId), kind |-> r.kind, decision |-> r.decision,
   signatureValid |-> r.signatureValid, issuerTrusted |-> r.issuerTrusted,
   policyAllowed |-> r.policyAllowed, digestMatch |-> r.digestMatch, class |-> r.class,
   feedVersion |-> r.feedVersion, verdicts |-> verdicts]

EventRow(r) == [comp |-> r.comp, version |-> r.version]

ArtifactTable(m)     == {ArtifactRow(r) : r \in Rows(m.artifacts)}
AttestationTable(m)  == [i \in DOMAIN m.attestations |-> AttestationOf(m, m.attestations[i])]
DependencyTable(m)   == [i \in DOMAIN m.dependencies |-> EdgeOf(m, m.dependencies[i])]
TimeEvidenceTable(m) == {StampRow(t) : t \in Rows(m.trustedTimeEvidence)}
PolicyTable(m)       == {[id |-> k, content |-> m.policies[k]] : k \in DOMAIN m.policies}
VerificationTable(m) ==
  [i \in DOMAIN m.verifs |-> VerificationOf(m, m.verifs[i], m.verifAttests[m.verifs[i].id])]
RevocationTable(m)   ==
  [k \in {r.key : r \in Rows(m.revocationEvents)} |->
     EventRow(CHOOSE r \in Rows(m.revocationEvents) : r.key = k)]

Tables == INSTANCE EvidenceStore WITH
  config <- NoFeed, artifacts <- ArtifactTable(mem), attestations <- AttestationTable(mem),
  dependencies <- DependencyTable(mem), timeEvidence <- TimeEvidenceTable(mem),
  policies <- PolicyTable(mem), verifications <- VerificationTable(mem),
  revocationEvents <- RevocationTable(mem)

TablesOf(m) ==
  [artifacts |-> ArtifactTable(m), attestations |-> AttestationTable(m),
   dependencies |-> DependencyTable(m), timeEvidence |-> TimeEvidenceTable(m),
   policies |-> PolicyTable(m), verifications |-> VerificationTable(m),
   revocationEvents |-> RevocationTable(m)]

Written == [EnsureArtifact |-> "artifacts", AddAttestation |-> "attestations",
            AddDependencyEdges |-> "dependencies", RegisterPolicy |-> "policies",
            SaveVerification |-> "verifications", IngestTimeEvidence |-> "timeEvidence",
            UpsertRevocationEvent |-> "revocationEvents"]

\* The database inserts edges one statement at a time, each skipped when the
\* same edge is there.
Inserted(table, e) ==
  IF \E i \in DOMAIN table : table[i] = e THEN table ELSE Append(table, e)

InsertedAll(table, rows) ==
  LET after[n \in 0..Len(rows)] == IF n = 0 THEN table ELSE Inserted(after[n - 1], rows[n])
  IN  after[Len(rows)]

\* What a call with that argument and that answer does to the one table it
\* writes.  An answered id leads to the row the call stored or found.
WritesTable(c) ==
  \/ /\ c.op = "EnsureArtifact" /\ Tables!EnsureArtifact(c.arg)
     /\ ArtifactOf(mem', c.answer) = c.arg
  \/ /\ c.op = "AddAttestation" /\ Tables!AddAttestation(AttestationOf(mem, c.arg))
     /\ c.answer = Tables!NextId
  \/ /\ c.op = "AddDependencyEdges"
     /\ DependencyTable(mem')
          = InsertedAll(DependencyTable(mem), [i \in DOMAIN c.arg |-> EdgeOf(mem, c.arg[i])])
  \/ c.op = "RegisterPolicy" /\ Tables!RegisterPolicy(c.arg)
  \/ /\ c.op = "SaveVerification"
     /\ Tables!SaveVerification(VerificationOf(mem, [c.arg.row EXCEPT !.kind = KindOf(c.arg.row)],
                                               c.arg.verdicts))
     /\ c.answer = Len(VerificationTable(mem'))
  \/ /\ c.op = "IngestTimeEvidence" /\ Tables!IngestRow(c.arg)
     /\ \E t \in Rows(mem.trustedTimeEvidence)' : t.id = c.answer /\ StampRow(t) = c.arg
  \/ c.op = "UpsertRevocationEvent" /\ Tables!UpsertRevocationEvent(c.arg.key, EventRow(c.arg))

-----------------------------------------------------------------------------
(* Properties.                                                             *)

Ids(slice) == {r.id : r \in Rows(slice)}

ArtifactRecord == [id : Nat, name : Names, sha : Digests]

AttestationRecord == [id : Nat, artifactId : Nat, envelope : Envelopes,
                      acceptedKey : Keys \cup {NoKey}]

DependencyEdge == [id : Nat, artifactId : Nat, attestationId : Nat, name : Names,
                   sha : Digests \cup {NoDigest}]

Verification ==
  [id : Nat, artifactId : Nat, kind : {"gate", "review"}, decision : Decisions,
   signatureValid : BOOLEAN, issuerTrusted : BOOLEAN, policyAllowed : BOOLEAN,
   digestMatch : BOOLEAN, class : Classes \cup {""}, feedVersion : Nat]

RevocationEventRecord == [key : Keys, comp : Int, version : Nat]

TimeEvidenceRecord == [id : Nat, envelope : Envelopes, tsa : Keys, time : Int]

Fields ==
  [artifactSeq : Nat, attestSeq : Nat, verifSeq : Nat, tteSeq : Nat, depSeq : Nat,
   artifacts : Seq(ArtifactRecord),
   attestations : Seq(AttestationRecord),
   policies : {<<>>, [id \in {Registered.id} |-> Registered]},
   verifs : Seq(Verification),
   verifAttests : Seq(Seq(Tables!VerdictRow)),
   revocationEvents : Seq(RevocationEventRecord),
   trustedTimeEvidence : Seq(TimeEvidenceRecord),
   dependencies : Seq(DependencyEdge)]

\* Row ids count the rows of their slice.
Numbered(slice, seq) == Len(slice) = seq /\ \A i \in DOMAIN slice : slice[i].id = i

Counted(m) ==
  /\ Numbered(m.artifacts, m.artifactSeq) /\ Numbered(m.attestations, m.attestSeq)
  /\ Numbered(m.verifs, m.verifSeq) /\ Len(m.verifAttests) = m.verifSeq
  /\ Numbered(m.trustedTimeEvidence, m.tteSeq) /\ Numbered(m.dependencies, m.depSeq)

\* Foreign keys, which no database checks here, lead to rows that exist.
Referred(m) ==
  /\ \A r \in Rows(m.attestations) : r.artifactId \in Ids(m.artifacts)
  /\ \A r \in Rows(m.verifs) : r.artifactId \in Ids(m.artifacts)
  /\ \A r \in Rows(m.dependencies) : r.artifactId \in Ids(m.artifacts)
                                   /\ r.attestationId \in Ids(m.attestations)

\* What a table of the database has a unique index for is unique here.
Unique(m) ==
  /\ \A r, s \in Rows(m.artifacts) : SameArtifact(r, s) => r = s
  /\ \A r, s \in Rows(m.trustedTimeEvidence) : SameStamp(r, s) => r = s
  /\ \A i, j \in DOMAIN m.revocationEvents :
       m.revocationEvents[i].key = m.revocationEvents[j].key => i = j

MemoryOK(m) == m \in Fields /\ Counted(m) /\ Referred(m) /\ Unique(m)

\* The fields of MemoryStore are what they are declared as, counters count,
\* foreign keys lead to rows, no row is there twice, and the tables all this
\* stands for are tables of the database.
MemoryTypeOK == MemoryOK(mem) /\ calls \in 0..MaxCalls /\ Tables!StoreTypeOK

\* The store in memory keeps the promise its comment makes ("the same meaning
\* as the PostgreSQL implementation"): seen as tables it begins empty, and
\* every call does to its table what the database does, answers with the id of
\* the row stored or found, and leaves the other tables alone.
ImplementsTables ==
  /\ Tables!StoreInit
  /\ [][\E c \in {call'} :
          /\ WritesTable(c)
          /\ \A t \in DOMAIN TablesOf(mem) \ {Written[c.op]} :
               TablesOf(mem')[t] = TablesOf(mem)[t]]_memoryVars

\* The rows with these ids, each once and in the order of their ids.
Enumerates(rows, ids) ==
  /\ \A i, j \in DOMAIN rows : i < j => rows[i].id < rows[j].id
  /\ Ids(rows) = ids

\* What handlers read they read as from the tables, by name and digest or by
\* the id they were given: the same rows, each once and in the order of their
\* ids (the queries' sorting left out); but of a verification the memory also
\* gives the verdicts, which the database never reads back.
AnswersAgree ==
  /\ \A r \in Rows(mem.artifacts) :
       LET a      == ArtifactRow(r)
           verifs == ListVerifications(mem, r.id)
       IN  /\ GetArtifact(mem, r.name, r.sha) = <<r>> /\ GetArtifactByID(mem, r.id) = <<r>>
           /\ Tables!GetArtifact(r.name, r.sha) = {a}
           /\ Enumerates(ListAttestations(mem, r.id), Tables!ListAttestations(a))
           /\ Enumerates(ListDependencyEdges(mem, r.id), Tables!ListDependencyEdges(a))
           /\ Enumerates(verifs, DOMAIN Tables!ListVerifications(a))
           /\ \A v \in Rows(verifs) :
                Tables!ListVerifications(a)[v.id]
                  = Tables!RowAlone(VerificationOf(mem, v, mem.verifAttests[v.id]))
  /\ \A n \in Names :
       LET rows == FindArtifactByName(mem, n)
       IN  /\ {ArtifactRow(r) : r \in Rows(rows)} = Tables!FindArtifactByName(n)
           /\ \A i, j \in DOMAIN rows : SameArtifact(rows[i], rows[j]) => i = j
  /\ \A n \in Names, d \in Digests :
       Enumerates(ListDependentEdges(mem, n, d),
                  Tables!ListDependentEdges([name |-> n, sha |-> d]))
  /\ \A e \in Envelopes :
       LET rows == ListTimeEvidence(mem, e)
       IN  /\ {StampRow(t) : t \in Rows(rows)} = Tables!ListTimeEvidence(e)
           /\ \A i, j \in DOMAIN rows : SameStamp(rows[i], rows[j]) => i = j
=============================================================================
