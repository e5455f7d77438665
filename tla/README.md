# scbverify in TLA+

scbverify decides whether a build artifact may be downloaded, from the signed
provenance submitted for it (the *gate*), works out afterwards what a leaked
signing key means for the artifacts already judged (the *review*), and packs
evidence into a directory that can be judged without the server (the *offline
bundle*). These modules model what each of them concludes from evidence, how
the server's handlers interleave on one store, what survives its restarts, and
what a bundle that is built, torn, rebuilt and damaged may still be judged by.
TLC checks small instances; TLAPS proves the same properties, all but liveness,
for every instance.

## The system

| Component | State it keeps | Operations | What makes it correct |
|---|---|---|---|
| Attestation, trust root, digest gate, policy (`internal/attestation`, `trust`, `artifact`, `policy`) | none: pure checks under the loaded configuration | `VerifyEnvelope`, `Evaluate`, `VerifySubjectDigest`, the Rego rules | each check decides on its own; a pass of all four means the artifact's bytes, by an anchored issuer, from an allowed source |
| Revocation list (`internal/revocation`) | the feed loaded at boot | `Gate`, `Classify` | the live gate closes on any event; only the *earliest* trusted moment classifies |
| Time evidence (`internal/timestampevidence`) | none | `Verify`, `VerifyAll` | bound to the envelope, signed by an authority of the trust root |
| Gate (`internal/verifier`) | one request in progress per handler | `Verify`: a chain of separate store calls | the recorded verdict answers one request; edges and verdicts agree; allow is justified |
| Review (`internal/review`) | one walk in progress per handler | `Review`, `IngestTimeEvidence` | the closure is complete, convictions and acquittals are founded, it ends |
| Store (`internal/store`), on PostgreSQL or in memory | the tables | the calls of `store.Store` | append-only evidence; first policy stays; last revocation event stays; both stores mean the same |
| Server (`cmd/server`, `internal/api`) | the configuration, up or down | boot, record events, serve, stop | what is served is on record; a revocation is not undone |
| Offline bundle (`internal/offline`) | the files of a bundle | `Build`, `Verify` | a verdict rests on the sources of one build; agrees with the gate and the classification |
| `internal/cryptokit`, `cmd/verifyctl`, `cmd/genvectors` | none | key files, one HTTP call, example data | not part of the modelled behaviour |

The handlers share nothing but the store and the configuration, which is fixed
from boot to exit. Gate and review never call each other: the review reads the
`attestations` and `artifact_dependencies` rows the gate wrote, and the time
evidence clients add. The offline verifier shares the parsers and the
classification with the server but repeats the gate's checks in code of its
own. What is hard is therefore

* **no transaction spans a request**: the gate makes 3 + n + (edges) store
  calls, any of which may fail, and other handlers run between any two;
* **no snapshot spans a review**: it reads edges, attestations and time
  evidence while they change;
* **claims are not links**: dependency edges are claims of whoever signed, may
  form cycles, and may come from signatures nobody anchored;
* **time evidence arrives late** and in any order;
* **configuration is memory, evidence is not**: a restart changes keys and feed
  under rows that stay, and a boot can die half way;
* **a bundle is many files**: a build can stop between any two of them, or run
  again over an older one, and a verification reads each file twice;
* **everything exists twice**: two stores, two implementations of the checks.

`PROJECT.json` lists these hazards line by line with the property for each.

## Modules

| Module | Models | Notes |
|---|---|---|
| `Evidence` | the four checks and the feed, for one envelope | an envelope is its canonical digest; `Content` says what parsing it yields; constants with `EvidenceAssumption` |
| `Verdict` | `verifyOne`, `dependencyEdges`, `groupConflicting`, the decision | the results of one request as a sequence |
| `Impact` | `Classify`, `aggregateAttestationClass`; and, declaratively, what links taint and connect | `Tainted` and `Connected` are defined by closed sets, not by the walk they judge |
| `EvidenceStore` | the PostgreSQL store: one operator per call | row ids are positions |
| `Gate` | `POST /v1/verify` | `Begin`, `Ensure`, `Attest`, `AddEdge`, `Register`, `Save`, `Fail` |
| `Conclusions` | what a review may conclude from what is stored: the bounds `Covers`, `JustlyConvicted`, `NoneSpared`, `JustlyCleared` | shared by the two next |
| `ImpactReview` | the abstract specification: a review is one conclusion within the bounds, drawn at one moment, then published row by row | `Open`, `Conclude`, `Publish`, `Abandon`, `Learn`, `Restart` |
| `Review` | `POST /v1/review`, `POST /v1/time-evidence` | `Locate`, `ListUp`, `ResolveUp`, `ListDown`, `ResolveDown`, `ListAtts`, `ClassifyNext`, `Seed`, `Propagate`, `Settle`, `Persist`, `FailReview`, `Ingest` |
| `Service` | `cmd/server`: Gate and Review on one store, with the process' life | `Start`, `RecordEvent`, `Serve`, `Crash` |
| `MemoryStore` | `memory.go`, `memory_revocation.go`: the slices, maps and counters | one action per writing call; a loop is a recursive function over positions; maps onto `EvidenceStore` |
| `Offline` | `internal/offline`: the directory, the manifest, one run of `Build` and one of `Verify` | `StartBuild`, `CopyFile`, `WriteManifest`, `BuildFails`, `Damage`; `LoadManifest`, `CheckFile`, `LoadMaterial`, `JudgeEvidence`, `GiveUp`, `Conclude` |
| `Evidence_proofs`, `Impact_proofs` | lemmas on the checks, classes, taint and connection | TLAPS |
| `Gate_proofs`, `Review_proofs`, `Service_proofs`, `Offline_proofs`, `MemoryStore_proofs` | theorems about each specification | TLAPS |
| `MCGate`, `MCReview`, `MCService`, `MCOffline`, `MCMemory` | instances | |

`Service` EXTENDS `Gate` and `Review`; `Review` EXTENDS `Conclusions`; that and
`Gate` EXTEND `EvidenceStore`, which EXTENDS `Verdict` and `Impact`, which EXTEND
`Evidence`. `Offline` needs no store and EXTENDS `Verdict` and `Impact`.
`MemoryStore` instantiates `EvidenceStore` with its own state as tables.

**Steps and code.** An action of `Gate` or `Review` is the code from one store
call to the next: what a handler computes in between nobody else can see.
Hashing, verifying and parsing are therefore part of the next store call's
action (`Attest` is `verifyOne` and `AddAttestation`). Exceptions:
`AddDependencyEdges` is one step per edge, because PostgreSQL gets one statement
per edge; `Propagate` is one step per artifact marked although the sweep makes
no store call, because the sweep's order is not what its result depends on
and its end is worth checking. The review's walk adds an input to the queue
when its edge is resolved, not after the last edge of the same artifact; the
order of the queue is the same. Upward edges come sorted by the inputs' names
and are resolved in any order (`ResolveUp`); downward ones oldest first, the
first of each dependent (`FirstEach`), and each dependent is looked up by a
store call of its own (`ResolveDown`).

In `Offline` a step is one file written, checked or read, in the code's order
(manifest, check, material, attestations); which file of the list or which
attestation comes first is fixed but arbitrary, as nothing depends on it. The variables `fresh`, `quiet`, `wasFresh` and the
field `by` of a manifest are history: they tell which build a verdict should
rest on and whether anything was written meanwhile; no action reads them.

**Data.** Digest texts, names and ids are opaque; lower-casing is the function
`Lower`, so that an artifact's digest, a subject's text and a pin's text can
differ in case as in the code (subjects are normalised, pins are not). Times
are integers. `sigs` says for each signature whose it really is and which key
id it claims. `began`, in a review, is a history variable: what the store held
when the review located its root. The contents of a bundle's files are opaque
too and told apart by their hash; `PolicyIn`, `RootIn`, `FeedIn`, `EnvelopeIn` and
`StampIn` say what each parses to, if anything.

**Undetermined outcomes.** `Fail` and `FailReview` stand for an error of any
store call or a cancelled context; a failed `AddAttestation` only wastes an
identity value, which nothing tells apart. `ResolveDown` may fail to look a
dependent up (`LookupsFail`). `Start` may load the release in force again or
any later one; a roll-back is a later release equal to an earlier one. `BuildFails` stops a build anywhere and may leave the file it
was writing, the manifest included, torn; `Damage` removes or replaces a file
while no build runs.

## Runs

Every bound is a constant of the run: `MaxRequests`, `MaxReviews`, `MaxStarts`,
`MaxCalls`, `MaxBuilds` and `MaxDamages` limit how often clients and operators
act, nothing limits how the handlers interleave. All runs set
`CHECK_DEADLOCK FALSE`: clients may stop asking, so the system may rest.

| Run | Instance | Shows |
|---|---|---|
| `gate` | 2 handlers, 2 requests out of 11 (conflicting, revoked, tampered, unbound, unpinned, no statement, forged, upper case, doubly signed, at the end of the policy's window), with and without a feed; 84,851 states | verdict rows answer one request each, edges belong to who declared them, a verdict comes after all its edges, allow is justified |
| `gate_live` | 2 handlers, 2 requests; 1,395 states | every request ends |
| `review` | every store the gate can make of 7 uploads of 3 artifacts (chains, forks, cycles, an artifact that pins itself, unregistered inputs, leaked, unanchored and unknown signers), and one with an artifact registered by a failed request; 6 stamps, good and bad, arriving at any moment; 1 review; 296,377 states | the closure is complete and no larger than the component; no conviction without evidence and a trusted chain; nothing convicted is missed; nothing is acquitted for lack of evidence; the review implements `ImpactReview` |
| `review_live` | three-artifact stores with and without a cycle, a late, an early and three false stamps; 2,008 states | every review ends; a conviction is lifted only by a genuine early stamp of that envelope |
| `service` | 2 gate handlers, 1 review, 2 requests out of 3, 2 stamps, 1 configuration; 962,084 states | against concurrent writers, on a store the gate fills itself while the review walks it: the closure is complete and no larger than the component, a review uses all that a recorded verdict rests on, and the whole server implements `ImpactReview` |
| `restart` | 1 gate handler, 1 review, 1 stamp, 4 releases (nothing revoked; one signer; both signers and the time stamp authority; a roll-back that trusts one signer and the authority again), 3 starts; 746,415 states | types across restarts; what is served is on record after any sequence of crashes; verdicts keep feeding reviews; a recorded revocation sticks unless that very key is reinstated; no verdict mixes two releases |
| `offline` | 6 sets of sources over 2 releases (a feed, a trust root and authorities that change; failing, incomplete and unreadable attestations; genuine, late, unbound and forged stamps), 2 builds into one directory, 1 damage; 833,523 states | a verdict rests on one build, agrees with the gate's checks and classes are justified; a fresh bundle is not refused |
| `memory` | any 6 writing calls on 3 artifacts, repeated ones included; 60,764 states | the store in memory does to the tables what PostgreSQL does, and answers every query alike |
| `gate_extra_alg`, `review_closure`, `review_lost`, `offline_collision` | small | the disagreements below |

**Why the bounds are enough.** The gate's handlers interact only through the
row ids they get and the edges they add, so two of them and two requests show
every pairwise interleaving; the proofs cover more. The review's hazards need
an artifact with two neighbours that know each other: three artifacts make
chains, forks, siblings and cycles. One review suffices because reviews write
only rows no review reads. A whitewash takes one late and one early stamp. What
can be wrong with a bundle takes an old build and a new one in the same
directory, so two builds; the files of a build are two attestations and two
stamps of two base names, so that names can collide and evidence can be
attached to the wrong envelope. Six calls are enough to
register two artifacts, attest, link twice and query.

**Statements about moving data.** A review reads the store over time, so its
result is bounded from two sides: what was there throughout must count
(`NoneSpared`, the first half of `Covers`), and what counts must have been there
at the end (`JustlyConvicted`, `JustlyCleared`). Who is convicted
must be so by the stamps held at some moment of the review
(`ConvictedBetween`): those held when it began and some of those that came
since. An attestation that one early stamp takes from insufficient to unaffected
was never convicted, and may convict nobody.

**Refinements.** `KeepsPromise` maps `Review` to `ImpactReview`: until it settles
a review is an open inquiry, at `Settle` the whole report is drawn, `Persist`
publishes it. What `ImpactReview` adds to the invariants is that a conclusion is
never revised while it is being published, that each row appears once and as
concluded, and that whatever else happens in the server only adds to the
tables. Steps of the gate map to `Learn`, a crash to `Restart`.
`ImplementsTables` maps the memory store to `EvidenceStore`: each call does to
its table what the PostgreSQL store does and leaves the others alone, and the
answered id leads to the row.

**Fairness.** `GateFairSpec` and `ReviewFairSpec` assume weak fairness of each
handler's own next step (`Handle`, `ReviewStep`): a goroutine whose call returned
is scheduled eventually, and every store call returns. Nothing is assumed of clients,
of failures or of `Ingest`. That justifies no more than "a request that was
begun ends"; that it ends with a verdict is not claimed, since it may fail.

## Disagreements found

1. **An attestation that passes everything is denied** (`gate_extra_alg`).
   `verifier.go:228-235` counts a digest by an unsupported algorithm as a
   mismatch, since it has no recomputed digest. `README.md:28` allows when one
   attestation passes all checks without conflict, and `digest.go:136` says such
   an algorithm takes no part in the matching.
2. **Siblings are judged** (`review_closure`). `README.md:142` limits a review to
   the root, its upstream chain and what refers to it; the walk turns round at
   every artifact (`service.go:202-249`).
3. **A dependent can vanish from a completed review** (`review_lost`). Any error
   of `GetArtifactByID` is `continue`d over at `service.go:237`; every other
   error of the loop aborts. The theorems that need it assume that no lookup
   fails.
4. **An attestation can vanish from a bundle** (`offline_collision`). A copy is
   named after its source's base name (`bundle.go:130`), so that two sources
   called alike overwrite each other, and the bundle is allowed although one of
   the attestations given to `Build` fails. `JudgedWhatWasBuilt` is stated for
   sources with distinct paths; `FreshBundleAccepted` holds without that, since
   the copies are hashed.

Met while reading, not the subject of a run: the comment at `service.go:96`
says the cutoff is the earlier of two moments, the code takes the later;
`README.md:56` speaks of transactional persistence, while a request's calls
share no transaction; gate rows always carry feed version 0
(`store.go:74-75`); review rows record `issuer_trusted` and `digest_match`
without having checked them (`service.go:482-485`); `memory.go:10` and
`README.md:43` claim that both stores mean the same, but PostgreSQL never reads
`verification_attestations` back (`postgres.go:212`), so that its answers lack
the verdicts on single attestations (`AnswersAgree` makes this exception),
the memory store's `RegisterPolicy` overwrites (a server registers one policy
only, so that it does not show), and a stamp ingested again replaces the stored
document on PostgreSQL (`postgres.go:334`) but not in memory
(`memory_revocation.go:55`): the document is no column of the models, since only
its spelling and what the authority did not sign can differ; `resolveUpstream` (`service.go:360`) is dead
code. The offline decision is not the gate's, and no document says it is:
contradicting attestations that all pass are allowed, one failing attestation
denies, an unsupported algorithm does not, a revoked key counts as untrusted
(`verify.go:253-270`). `AgreesWithGate` compares what the two conclude about one
attestation, and what an allow implies.

## Proofs

For **every** value of the constants (any envelopes, keys, requests, stores,
configurations, files, any number of handlers, reviews, starts, builds):

| Module | Theorem | Property |
|---|---|---|
| `Gate_proofs` | `GateIsWellTyped` | `GateTypeOK` |
| | `ProgressIsKept` | `RequestsInProgress` |
| | `EdgesAreDeclared` | `EdgesDeclared` |
| | `VerdictsAnswerRequests` | `GateRowsAnswerRequests` |
| | `VerdictsRecordPins` | `PinsRecorded` |
| | `AllowIsJustified` | `AllowJustified` |
| `Review_proofs` | `ReviewTypeCorrect` | `ReviewTypeOK` |
| | `ReviewsCover` (no lookup fails) | `ReviewCoversComponent` |
| | `ConvictionsJust` | `NoFalseConviction` |
| | `NothingIsMissed` (no lookup fails) | `NothingMissed` |
| | `AcquittalsJust` | `NoFalseAcquittal` |
| | `PromiseKept` (no lookup fails) | `KeepsPromise` |
| | `StampsDoNotWhitewash` | `NoWhitewash` |
| `Service_proofs` | `ServiceIsWellTyped` | `ServiceTypeOK` |
| | `ServingRecords` | `ServingImpliesRecorded` |
| | `VerdictsAreUsed` | `VerdictsFeedReviews` |
| | `RevocationLasts` | `RevocationSticks` |
| | `VerdictsOfOneRelease` | `VerdictsOfReleaseInForce` |
| | `ServiceJudgesJustly` | `NoFalseConviction`, `NoFalseAcquittal`, of `ServiceSpec` |
| | `ServiceMissesNothing` (no lookup fails) | `NothingMissed`, `ReviewCoversComponent`, of `ServiceSpec` |
| | `ServicePromise` (no lookup fails) | `KeepsPromise`, of `ServiceSpec` |
| `Offline_proofs` | `OfflineIsWellTyped` | `OfflineTypeOK` |
| | `OfflineAgreesWithGate` | `AgreesWithGate` |
| | `FreshIsAccepted` | `FreshBundleAccepted` |
| | `VerdictRestsOnOneBuild` | `JudgedWhatWasBuilt` |
| | `ClassesRestOnStamps` | `ClassesJustified` |
| `MemoryStore_proofs` | `MemoryTypes` | `MemoryTypeOK` |
| | `MemoryRefines` | `ImplementsTables` |
| | `MemoryReads` | `AnswersAgree` |

*Assumptions.* `EvidenceAssumption` (contents have their type, lower-casing is
idempotent, the "none" values are none), `GateAssumption` (requests have
their type and a lower-case artifact digest, configurations are well formed),
`ReviewAssumption` (stamps and first stores have their type, an edge belongs to
an attestation of the same artifact), `ServiceAssumption` (releases are
configurations), `OfflineAssumption` (what files parse to has its type; a torn
file is no source) and `MemoryAssumption` (arguments of calls have their type;
the process registers one policy). TLC evaluates each in the runs of its module. The bounds on
requests, reviews, starts, builds, damages and calls play no part. `~ LookupsFail`, where
stated, is a hypothesis of the theorem: without it the statement is false, which
is what `review_lost` shows.

*Gate.* "A saved row answers a request" is not inductive: the row is made
from what the handler remembers. The inductive invariant is
`GateTypeOK /\ RequestsInProgress`: a handler's results, row ids and pending
edges are what its own request calls for *so far*, and every pin of an
attestation it handled is stored or pending. Its preservation rests on the
tables growing only at the end (`StepKeeps`): another handler's append moves no
row (`InProgressKept`), so `OthersProgress` disposes of all handlers but the one
that steps, and there is one lemma per action for that one. `SavedRow` turns the
invariant at `Save` into `Answers` and `AllPinsStored`, which later steps keep;
the row properties follow. For `AllowJustified` there is no further induction:
`AllowedResults` shows that a decision `allow` over a request's results implies
the evidence-level statement, with `PassesIffVouches` as the bridge between the
flags `verifyOne` computes and what the property says of signers, subjects,
issuers and origins in its own words.

*Review.* `ReviewInv` holds for every goroutine one `ReviewOK`: `Shape` and
`InPhase` (types and phases), `VisitedOnce` (order and queue have no repetition and
nothing in common), `Walk` (what is visited is connected to the root by links
there are now), `ExploredUp` and `ExploredDown` (every link that was there at the
beginning and touches an expanded artifact is followed, but for the edges of the
last artifact that are still to come), `Judged` (every attestation that was there
at the beginning, of the artifacts begun, is judged or pending, and each class was
right at some moment since) and `Spread` (what is marked is tainted by somebody
guilty, and whoever is convicted is marked). The invariant only mentions what the
store held at the beginning and holds now, so whatever others append keeps it
(`Review_proofs`, "Whatever the others store"); one lemma per action does the
rest. At `Settle` the walk's result is a closed set: `ConnectedIsLeast` and
`TaintedIsLeast` of `Impact_proofs` then give the lower bounds, and `Walk` and
`Spread` the upper ones. That classes only move one way (`ClassifyMonotone`) needs
that a finite set of times has a least one, which `LeastOfFinite` derives from the
well-foundedness of the naturals. `PromiseKept` checks each action against the
action of `ImpactReview` it implements. For `NoWhitewash`, only `Ingest` can
change the class of a stored attestation, and `ClearedBy` says that a conviction
one more stamp ends is cleared by that stamp: it is of the attestation's own
envelope, by an authority of the trust root, and from before the compromise.

*Service.* `ServiceInv` joins the gate's invariant and `ReviewInv` with what they
need of each other and of the process: `HandlersOK` (the artifact of a request in
progress is registered, its rows carry its results' keys), `ServerOK` (the
configuration is the release's; nobody works while the server is down; what is no
longer unrecorded is on record), `EventsKnown` (every key on record is revoked
by the feed of the release in force or of an earlier one) and `Fed`: for each gate row
on record the pins of its validly signed attestations are edges of the table.
`BegunFed` says the same of what a review found when it began. Both specifications'
step lemmas are reused: a gate step is one of "the others" for a review, and
the other way round. `VerdictsAreUsed` then follows from `Fed` and `ExploredUp`; `RevocationLasts` from
`EventsKnown`, since a key no later release reinstates is still revoked by the one
in force (`StillRevoked`). `VerdictsOfOneRelease`
takes `NewRows` (only `Save` adds a gate row) and the gate's `SavedRow` and
`AnswerJustified`: what a handler remembers is `InProgress` under the configuration
*in force*, which is invariant because no handler works while the server is down
and only then the configuration changes. `ServiceJudgesJustly` and
`ServiceMissesNothing` restate the review's results for the whole server, since
`ServiceInv` contains `ReviewInv`.

*Offline.* `OfflineInv`: a build has copied each file or still has to (`BuildOK`),
a manifest lists, at every path, a source of its own build (`TrueManifest`,
whatever becomes of the copies), a fresh bundle agrees with its manifest, and as
long as nothing is written a run of `Verify` has checked and judged exactly what
the manifest lists (`QuietRun`). Where paths are distinct the manifest therefore
lists every source (`ListsSources`), and where they are not, the time stamps it
leads to are still among those given to the build (`StampsOfSources`).

*Memory store.* The inductive invariant is `MemoryOK` (the fields have their types,
row ids are positions, `Counted`; references lead to rows, `Referred`; what the
database indexes uniquely is unique, `Unique`). Without `Referred` and `Counted` a
call would not leave the other tables alone: an edge's row in the table names its
artifact, found by id in another slice, and only because that id leads to a row
already does a later append not change it. What a loop computes is by nature a
statement for every length; without the library's induction over the naturals it is
proved by the absence of a least counterexample (`Along`, on the `LeastOfNaturals`
of `Impact_proofs`). `LoopExists` shows that such a recursive function is defined
at all; then come its values, once for `Collect`
(an answer holds exactly the rows at the positions, in their order) and once for
`AddEdges` against `InsertedAll` (a list of edges added in one critical section
leaves what as many `INSERT ... ON CONFLICT DO NOTHING` leave). `StepOK` then
collects, call by call, that the invariant is kept and that `WritesTable` holds,
and `MemoryReads` relates each answer to its query by `MemoryOK` alone.

**Model-checked only:** liveness (`EveryRequestEnds`, `EveryReviewEnds`), since
fairness and ENABLED are out of the prover's reach. The four runs that expect a
violation refute statements, which needs one instance and no proof. Every other
property of every run is a theorem. No module declares a RECURSIVE operator.

## Not modelled

`cmd/verifyctl`, `internal/cryptokit` and `cmd/genvectors`; ed25519, base64, JSON,
PEM and the evaluation of Rego themselves; the decoding and status codes of the
HTTP handlers, and the GET handlers but for the queries behind them; the sorting
of answers; reason texts, display times and paths of a report; cutoff, feed
version and notice of a bundle, which decide nothing; file sizes, and files that
change while they are hashed; the gaps PostgreSQL leaves in its identities;
migrations and connections; the documents of time stamps beyond what they prove.
`Damage` loses or replaces files one at a time: a manifest, which nobody signs,
rewritten together with the files it lists is a bundle of its own, and no
property speaks of it. Contradicting attestations in *different* requests
are not detected by the code and no property asks for it. A server without a
database loses everything with its process and says so: it is a new system after
every start.

## Plan

Done: all modules above with their runs and proofs. What could be added:

1. `VerifySubjectDigest` and `groupConflicting` as the loops they are, against
   the declarative operators of `Evidence` and `Verdict`.
2. The read-only handlers as actions of `Service`, with the torn views a report
   assembled from several queries can give.
3. A server in memory as a second composition, on `MemoryStore` instead of
   `EvidenceStore`.
