------------------------------ MODULE Offline ------------------------------
(***************************************************************************)
(* The offline bundle: Build copies a policy, a trust root, a revocation   *)
(* feed, attestations and time stamps into a directory, lists the SHA-256  *)
(* of each copy in manifest.json and writes that last; Verify checks the   *)
(* copies against the list and judges every attestation with what the      *)
(* bundle itself says.  A build can fail or die anywhere, leaving a file   *)
(* half written, and be run again into the same directory, also with other *)
(* sources; a finished bundle can be damaged on its way.                   *)
(*                                                                         *)
(* A file's contents are opaque, and told apart by their SHA-256.          *)
(***************************************************************************)
EXTENDS Verdict, Impact

CONSTANTS
  Files,        \* the contents of source files
  Torn,         \* what a write that failed half way leaves of any of them
  PolicyIn,     \* what contents mean, where they can be parsed as a policy,
  RootIn,       \* a trust root [anchors, tsas],
  FeedIn,       \* a revocation feed,
  EnvelopeIn,   \* a JSON envelope, complete or not,
  StampIn,      \* or time evidence [bound, tsa, signer, time]
  Bases,        \* file names without their directory
  Specs,        \* what Build is called with
  Queries,      \* what Verify is called with
  Foreign,      \* what a damaged file may hold instead
  MaxBuilds,    \* bound: builds in one behaviour
  MaxDamages    \* bound: damages in one behaviour

VARIABLES
  dir,          \* the bundle's data files: contents by path
  manifest,     \* manifest.json
  build,        \* the run of Build, if one is under way
  verify,       \* the run of Verify, or how the last one ended
  fresh,        \* history: nothing was written or damaged since that build
  builds, damages

bundle == <<dir, manifest, build, verify, fresh, builds, damages>>

Contents == Files \cup {Torn}

Source == [base : Bases, file : Files]

Spec == [policy : Files, root : Files, feed : Files,
         attestations : Seq([base : Bases, file : Files, name : Names]),
         stamps : Seq(Source)]

\* artifacts: the digest of the local file, for each artifact name given.
IsQuery(q) ==
  /\ q.now \in Int
  /\ DOMAIN q.artifacts \subseteq Names
  /\ q.artifacts \in [DOMAIN q.artifacts -> Digests]

TimeEvidence == [bound : Envelopes, tsa : Keys, signer : Keys \cup {NoKey}, time : Int]

ASSUME OfflineAssumption ==
  /\ Torn \notin Files
  /\ \A f \in {PolicyIn, RootIn, FeedIn, EnvelopeIn, StampIn} : DOMAIN f \subseteq Files
  /\ PolicyIn \in [DOMAIN PolicyIn -> Policy]
  /\ \A f \in DOMAIN FeedIn : IsFeed(FeedIn[f])
  /\ EnvelopeIn \in [DOMAIN EnvelopeIn -> Envelopes]
  /\ StampIn \in [DOMAIN StampIn -> TimeEvidence]
  /\ \A r \in DOMAIN RootIn, f \in DOMAIN FeedIn, p \in DOMAIN PolicyIn :
       IsConfig([anchors |-> RootIn[r].anchors, untrusted |-> {}, tsas |-> RootIn[r].tsas,
                 policy |-> PolicyIn[p], feed |-> FeedIn[f]])
  /\ Specs \subseteq Spec
  /\ \A q \in Queries : IsQuery(q)
  /\ Foreign \subseteq Contents
  /\ MaxBuilds \in Nat /\ MaxDamages \in Nat

-----------------------------------------------------------------------------
(* Paths in the bundle.                                                    *)

\* (Mutant: evidence is put beside the material.)
BesideMaterial(folder, base) == <<base>>
PathOf(folder, base) == <<folder, base>>

PolicyPath     == <<"", "policy.rego">>
TrustRootPath  == <<"", "trustroot.json">>
RevocationPath == <<"", "revocation.json">>
Material == {PolicyPath, TrustRootPath, RevocationPath}

AttestationPath(s) == PathOf("attestations", s.base)
StampPath(s)       == PathOf("timestamps", s.base)

Paths == Material \cup ({"attestations", "timestamps"} \X Bases)

\* What Build copies, in its order.
Jobs(spec) ==
  LET job(p, f) == [path |-> p, file |-> f]
  IN  <<job(PolicyPath, spec.policy), job(TrustRootPath, spec.root), job(RevocationPath, spec.feed)>>
        \o [i \in DOMAIN spec.attestations |->
              job(AttestationPath(spec.attestations[i]), spec.attestations[i].file)]
        \o [i \in DOMAIN spec.stamps |-> job(StampPath(spec.stamps[i]), spec.stamps[i].file)]

\* The data files of a bundle, and what the manifest lists of each.  (Mutant:
\* the source is hashed, not the copy.)
DataFiles(spec) == {Jobs(spec)[i].path : i \in DOMAIN Jobs(spec)}

HashesOfSources(copies, spec) ==
  [p \in DataFiles(spec) |-> LET i == CHOOSE i \in DOMAIN Jobs(spec) : Jobs(spec)[i].path = p
                             IN  Jobs(spec)[i].file]

Hashes(copies, spec) == [p \in DataFiles(spec) |-> copies[p]]

EvidenceOf(spec) ==
  {[path |-> AttestationPath(spec.attestations[i]), name |-> spec.attestations[i].name] :
     i \in DOMAIN spec.attestations}

\* Every time stamp is attached to every attestation.  by is history: what the
\* manifest was made from.
ManifestOf(copies, spec) ==
  [by       |-> spec,
   files    |-> Hashes(copies, spec),
   evidence |-> EvidenceOf(spec),
   stamps   |-> {StampPath(spec.stamps[i]) : i \in DOMAIN spec.stamps}]

\* manifest.json is missing or cannot be read; a manifest lists some files.
NoManifest == [files |-> <<>>, evidence |-> {}, stamps |-> {}]

-----------------------------------------------------------------------------
(* What Verify concludes.                                                  *)

\* The bundle's copy is what the manifest lists.  (Mutant: it only exists.)
Exists(listed, copies, p) == p \in DOMAIN copies
Matches(listed, copies, p) == p \in DOMAIN copies /\ copies[p] = listed[p]

\* Time evidence counts for the envelope it is bound to, signed by an
\* authority of the trust root.  (Mutant: it counts for any envelope.)
ForAny(stamp, e, cfg) == stamp.tsa \in cfg.tsas /\ stamp.signer = stamp.tsa
Proves(stamp, e, cfg) ==
  stamp.bound = e /\ stamp.tsa \in cfg.tsas /\ stamp.signer = stamp.tsa

\* A revoked key counts as an untrusted issuer.  (Mutant: only beside it.)
TrustedBeside(cfg, key, prov) == IssuerTrusted(cfg, key, prov)
TrustedNow(cfg, key, prov) == IssuerTrusted(cfg, key, prov) /\ ~ IsRevoked(cfg.feed, key)

\* One attestation, e, against the local artifact of the given name, with the
\* time evidence found in the bundle.
Judge(cfg, q, name, e, stamps) ==
  LET sig     == VerifyEnvelope(e, KnownKeys(cfg))
      prov    == ProvenanceOf(sig.st)
      matched == sig.valid /\ name \in DOMAIN q.artifacts
                   /\ VerifySubjectDigest(sig.st, name, q.artifacts[name])
      trusted == TrustedNow(cfg, sig.acceptedKey, prov)
  IN  [envelope       |-> e,
       name           |-> name,
       signatureValid |-> sig.valid,
       issuerTrusted  |-> trusted,
       revoked        |-> sig.valid /\ IsRevoked(cfg.feed, sig.acceptedKey),
       digestMatch    |-> matched,
       policyAllowed  |-> PolicyAllows(cfg.policy,
                            [signatureValid |-> sig.valid, issuerTrusted |-> trusted,
                             digestMatch |-> matched], prov, q.now),
       class          |-> IF ~ sig.valid THEN "insufficient"
                          ELSE Classify(cfg.feed, sig.acceptedKey,
                                 {s.time : s \in {t \in stamps : Proves(t, e, cfg)}})]

Passes(r) ==
  r.signatureValid /\ ~ r.revoked /\ r.issuerTrusted /\ r.digestMatch /\ r.policyAllowed

\* Unlike at the gate every attestation must pass, and none is compared with
\* another.
GateDecision(results) ==
  IF results # {} /\ \A r \in results : Passes(r) THEN "allow" ELSE "deny"
-----------------------------------------------------------------------------
(* Build.                                                                  *)

NoBuild == [pc |-> "idle"]

Building(pc, spec, jobs) == [pc |-> pc, spec |-> spec, jobs |-> jobs]

NoRun == [pc |-> "idle"]

\* A run of Verify sees that the bundle changed under its hands.
Disturbed == IF "quiet" \in DOMAIN verify THEN [verify EXCEPT !.quiet = FALSE] ELSE verify

Put(copies, p, f) == [q \in DOMAIN copies \cup {p} |-> IF q = p THEN f ELSE copies[q]]

OfflineInit ==
  /\ dir = <<>> /\ manifest = NoManifest
  /\ build = NoBuild /\ verify = NoRun
  /\ fresh = FALSE
  /\ builds = 0 /\ damages = 0

StartBuild(spec) ==
  /\ build = NoBuild
  /\ builds < MaxBuilds
  /\ builds' = builds + 1
  /\ build' = Building("copy", spec, Jobs(spec))
  /\ UNCHANGED <<dir, manifest, verify, fresh, damages>>

CopyFile ==
  /\ build.pc = "copy" /\ build.jobs # <<>>
  /\ dir' = Put(dir, Head(build.jobs).path, Head(build.jobs).file)
  /\ build' = [build EXCEPT !.jobs = Tail(@)]
  /\ verify' = Disturbed
  /\ fresh' = FALSE
  /\ UNCHANGED <<manifest, builds, damages>>

\* The copies are hashed (nobody but Build writes to the directory meanwhile)
\* and the manifest is written.
WriteManifest ==
  /\ build.pc = "copy" /\ build.jobs = <<>>
  /\ manifest' = ManifestOf(dir, build.spec)
  /\ build' = NoBuild
  /\ verify' = Disturbed
  /\ fresh' = TRUE
  /\ UNCHANGED <<dir, builds, damages>>

\* Build returns an error or its process dies: before its next write, or in
\* the middle of it, with the file truncated.
BuildFails ==
  /\ build.pc = "copy"
  /\ build' = NoBuild
  /\ verify' = Disturbed
  /\ fresh' = FALSE
  /\ \/ UNCHANGED <<dir, manifest>>
     \/ /\ build.jobs # <<>>
        /\ dir' = Put(dir, Head(build.jobs).path, Torn)
        /\ UNCHANGED manifest
     \/ /\ build.jobs = <<>>
        /\ manifest' = NoManifest
        /\ UNCHANGED dir
  /\ UNCHANGED <<builds, damages>>

\* A finished bundle is damaged on its way: a file is lost, or replaced by
\* something else.
Damage ==
  /\ build = NoBuild
  /\ damages < MaxDamages
  /\ damages' = damages + 1
  /\ \/ /\ \E p \in DOMAIN dir :
             \/ dir' = [q \in DOMAIN dir \ {p} |-> dir[q]]
             \/ \E f \in Foreign \ {dir[p]} : dir' = Put(dir, p, f)
        /\ UNCHANGED manifest
     \/ /\ manifest # NoManifest
        /\ manifest' = NoManifest
        /\ UNCHANGED dir
  /\ verify' = Disturbed
  /\ fresh' = FALSE
  /\ UNCHANGED <<build, builds>>

-----------------------------------------------------------------------------
(* Verify.  todo holds the listed files still to be checked, then the      *)
(* attestations still to be judged.                                        *)

Verifying == verify.pc \in {"check", "judge"}

Ended(pc) == [verify EXCEPT !.pc = pc]

\* quiet and wasFresh are history: nothing was written since the manifest was
\* read, and the bundle was fresh then.
LoadManifest(q) ==
  /\ ~ Verifying
  /\ manifest # NoManifest
  /\ verify' = [pc |-> "check", query |-> q, manifest |-> manifest,
                todo |-> DOMAIN manifest.files, cfg |-> <<>>, results |-> {},
                decision |-> "none", quiet |-> TRUE, wasFresh |-> fresh]
  /\ UNCHANGED <<dir, manifest, build, fresh, builds, damages>>

\* Verify keeps no state of its own: where it refuses at once nothing changes.
CheckFile ==
  LET p == CHOOSE p \in verify.todo : TRUE
  IN  /\ verify.pc = "check" /\ verify.todo # {}
      /\ verify' = IF Matches(verify.manifest.files, dir, p)
                   THEN [verify EXCEPT !.todo = @ \ {p}]
                   ELSE Ended("mismatch")
      /\ UNCHANGED <<dir, manifest, build, fresh, builds, damages>>

Readable(copies, p, kind) == p \in DOMAIN copies /\ copies[p] \in DOMAIN kind

\* The keys that come with the feed are known, as everywhere; no others are.
LoadedConfig(root, policy, feed) ==
  [anchors |-> RootIn[root].anchors, untrusted |-> {}, tsas |-> RootIn[root].tsas,
   policy |-> PolicyIn[policy], feed |-> FeedIn[feed]]

\* The material is read from the directory again, after its check.
LoadMaterial ==
  /\ verify.pc = "check" /\ verify.todo = {}
  /\ verify' = IF /\ Readable(dir, TrustRootPath, RootIn)
                  /\ Readable(dir, PolicyPath, PolicyIn)
                  /\ Readable(dir, RevocationPath, FeedIn)
               THEN [verify EXCEPT
                       !.pc = "judge", !.todo = verify.manifest.evidence,
                       !.cfg = LoadedConfig(dir[TrustRootPath], dir[PolicyPath], dir[RevocationPath])]
               ELSE Ended("failed")
  /\ UNCHANGED <<dir, manifest, build, fresh, builds, damages>>

\* So are an attestation and the time stamps; a stamp that cannot be parsed is
\* skipped, a missing file or an attestation that is not JSON ends the run.  An
\* envelope that cannot be parsed is judged before its stamps are read.
JudgeEvidence ==
  LET ref    == CHOOSE r \in verify.todo : TRUE
      listed == verify.manifest.stamps
      stamps == {StampIn[f] : f \in {dir[p] : p \in listed \cap DOMAIN dir} \cap DOMAIN StampIn}
  IN  /\ verify.pc = "judge" /\ verify.todo # {}
      /\ verify' =
           IF /\ Readable(dir, ref.path, EnvelopeIn)
              /\ Content[EnvelopeIn[dir[ref.path]]].form # "unparseable" => listed \subseteq DOMAIN dir
           THEN [verify EXCEPT
                   !.todo = @ \ {ref},
                   !.results = @ \cup {Judge(verify.cfg, verify.query, ref.name,
                                             EnvelopeIn[dir[ref.path]], stamps)}]
           ELSE Ended("failed")
      /\ UNCHANGED <<dir, manifest, build, fresh, builds, damages>>

\* A local artifact cannot be read, or the policy cannot be evaluated.
GiveUp ==
  /\ verify.pc = "judge" /\ verify.todo # {}
  /\ verify' = Ended("failed")
  /\ UNCHANGED <<dir, manifest, build, fresh, builds, damages>>

Conclude ==
  /\ verify.pc = "judge" /\ verify.todo = {}
  /\ verify' = [verify EXCEPT !.pc = "done", !.decision = GateDecision(verify.results)]
  /\ UNCHANGED <<dir, manifest, build, fresh, builds, damages>>

OfflineNext ==
  \/ \E spec \in Specs : StartBuild(spec)
  \/ CopyFile \/ WriteManifest \/ BuildFails \/ Damage
  \/ \E q \in Queries : LoadManifest(q)
  \/ CheckFile \/ LoadMaterial \/ JudgeEvidence \/ GiveUp \/ Conclude

OfflineSpec == OfflineInit /\ [][OfflineNext]_bundle

-----------------------------------------------------------------------------
(* Invariants.                                                             *)

JudgedResult ==
  [envelope : Envelopes, name : Names, signatureValid : BOOLEAN, issuerTrusted : BOOLEAN,
   revoked : BOOLEAN, digestMatch : BOOLEAN, policyAllowed : BOOLEAN, class : Classes]

IsManifest(m) ==
  /\ m.by \in Specs
  /\ Material \subseteq DOMAIN m.files /\ DOMAIN m.files \subseteq Paths
  /\ m.files \in [DOMAIN m.files -> Contents]
  /\ m.evidence \subseteq [path : Paths, name : Names]
  /\ m.stamps \subseteq Paths

\* The bundle's files lie in its directories, its manifest lists the material,
\* and a run of Build or Verify holds what its step needs.
OfflineTypeOK ==
  /\ DOMAIN dir \subseteq Paths /\ dir \in [DOMAIN dir -> Contents]
  /\ manifest = NoManifest \/ IsManifest(manifest)
  /\ build = NoBuild \/ (build.pc = "copy" /\ build.spec \in Specs)
  /\ verify # NoRun =>
       /\ verify.pc \in {"check", "mismatch", "judge", "failed", "done"}
       /\ verify.query \in Queries /\ IsManifest(verify.manifest)
       /\ verify.pc = "check" => verify.todo \subseteq DOMAIN verify.manifest.files
       /\ verify.pc = "judge" => IsConfig(verify.cfg) /\ verify.todo \subseteq verify.manifest.evidence
       /\ verify.results \subseteq JudgedResult
       /\ verify.decision \in {"none", "allow", "deny"}
  /\ builds \in 0..MaxBuilds /\ damages \in 0..MaxDamages

\* The verdict of a bundle that nobody wrote to meanwhile.
Settled == verify # NoRun /\ verify.pc = "done" /\ verify.quiet

\* No two sources of spec are copied to one path.
DistinctPaths(spec) ==
  \A i, j \in DOMAIN Jobs(spec) :
    Jobs(spec)[i].path = Jobs(spec)[j].path => Jobs(spec)[i].file = Jobs(spec)[j].file

SourceStamps(spec) ==
  {StampIn[f] : f \in {spec.stamps[i].file : i \in DOMAIN spec.stamps} \cap DOMAIN StampIn}

\* What Verify would conclude from the sources of spec themselves.
SourceResult(spec, q, i) ==
  Judge(LoadedConfig(spec.root, spec.policy, spec.feed), q, spec.attestations[i].name,
        EnvelopeIn[spec.attestations[i].file], SourceStamps(spec))

\* A verdict rests on the sources of exactly one build, whatever was built,
\* torn, rebuilt or damaged in the directory before: on its policy, root and
\* feed, on all of its attestations and all of its time stamps.
JudgedWhatWasBuilt ==
  Settled /\ DistinctPaths(verify.manifest.by) =>
    LET spec == verify.manifest.by
    IN  /\ verify.cfg = LoadedConfig(spec.root, spec.policy, spec.feed)
        /\ verify.results = {SourceResult(spec, verify.query, i) : i \in DOMAIN spec.attestations}

\* Verify is a second implementation of the gate's four checks.  It agrees with
\* the gate, on one attestation, a local artifact and the same configuration;
\* and it allows nothing that does not pass all of them there.
AgreesWithGate ==
  verify # NoRun =>
    \A r \in verify.results :
      r.name \in DOMAIN verify.query.artifacts =>
        LET g == VerifyOne(verify.cfg, r.envelope, r.name, verify.query.artifacts[r.name],
                           verify.query.now)
        IN  /\ r.signatureValid = g.signatureValid /\ r.issuerTrusted = g.issuerTrusted
            /\ r.policyAllowed = g.policyAllowed /\ r.digestMatch = g.digestMatch
            /\ g.revoked => r.revoked
            /\ verify.decision = "allow" => FullyPassed(g)

\* The time stamps given to Build that prove when e existed.
Proofs(spec, e) ==
  {s \in SourceStamps(spec) : s.bound = e /\ s.signer = s.tsa /\ s.tsa \in RootIn[spec.root].tsas}

\* What is validly signed with a compromised key is cleared only by a genuine
\* stamp of an earlier time, convicted only by a genuine stamp and in the
\* absence of an earlier one, and left open only without any.
ClassesJustified ==
  Settled =>
    LET spec == verify.manifest.by
        comp(e) == verify.cfg.feed.events[VerifyEnvelope(e, KnownKeys(verify.cfg)).acceptedKey].comp
        early(e) == {s \in Proofs(spec, e) : s.time < comp(e)}
    IN  \A r \in verify.results : r.revoked =>
          /\ r.class = "unaffected" => early(r.envelope) # {}
          /\ r.class = "affected" => Proofs(spec, r.envelope) # {}
          /\ DistinctPaths(spec) =>
               /\ r.class = "affected" => early(r.envelope) = {}
               /\ r.class = "insufficient" => Proofs(spec, r.envelope) = {}

\* Integrity is refused only for a reason: a bundle that was built to the end
\* and neither damaged nor built over passes, whatever lay in the directory
\* before and even where one source overwrote another's copy.
FreshBundleAccepted ==
  verify # NoRun /\ verify.pc = "mismatch" /\ verify.quiet => ~ verify.wasFresh

\* What the package says of the bundle: it holds the evidence it is to be
\* judged by.  Here: what is allowed passes by every attestation Build was given.
AllowCoversSources ==
  Settled /\ verify.decision = "allow" =>
    \A i \in DOMAIN verify.manifest.by.attestations :
      Passes(SourceResult(verify.manifest.by, verify.query, i))
=============================================================================
