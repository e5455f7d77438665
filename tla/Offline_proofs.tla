---------------------------- MODULE Offline_proofs ----------------------------
(***************************************************************************)
(* What holds of the offline bundle for every set of files, sources and    *)
(* queries, however often it is built, torn, damaged and verified.         *)
(***************************************************************************)
EXTENDS Offline, Impact_proofs

-----------------------------------------------------------------------------
(* The jobs of a build.                                                    *)

Job == [path : Paths, file : Files]

JobsOf(spec) == Range(Jobs(spec))

AttestationJob(s) == [path |-> AttestationPath(s), file |-> s.file]
StampJob(s) == [path |-> StampPath(s), file |-> s.file]

LEMMA EachInSeq ==
  ASSUME NEW S, NEW s \in Seq(S)
  PROVE  /\ DOMAIN s = 1..Len(s) /\ Len(s) \in Nat
         /\ \A i \in DOMAIN s : s[i] \in S
  OBVIOUS

LEMMA PathsOfSources ==
  ASSUME NEW s, s.base \in Bases
  PROVE  AttestationPath(s) \in Paths /\ StampPath(s) \in Paths
  BY DEF AttestationPath, StampPath, PathOf, Paths

\* A spec's jobs are those of the material, the attestations and the stamps.
LEMMA JobsAre ==
  ASSUME NEW spec \in Spec
  PROVE  /\ Jobs(spec) \in Seq(Job)
         /\ JobsOf(spec) = {[path |-> PolicyPath, file |-> spec.policy],
                            [path |-> TrustRootPath, file |-> spec.root],
                            [path |-> RevocationPath, file |-> spec.feed]}
              \cup {AttestationJob(spec.attestations[i]) : i \in DOMAIN spec.attestations}
              \cup {StampJob(spec.stamps[i]) : i \in DOMAIN spec.stamps}
<1> DEFINE j1 == [path |-> PolicyPath, file |-> spec.policy]
           j2 == [path |-> TrustRootPath, file |-> spec.root]
           j3 == [path |-> RevocationPath, file |-> spec.feed]
           A == spec.attestations
           S == spec.stamps
           as == [i \in DOMAIN A |-> AttestationJob(A[i])]
           ss == [i \in DOMAIN S |-> StampJob(S[i])]
<1>1. Jobs(spec) = <<j1, j2, j3>> \o as \o ss
  BY DEF Jobs, AttestationJob, StampJob
<1>2. j1 \in Job /\ j2 \in Job /\ j3 \in Job
  BY DEF Spec, Job, Paths, Material
<1>3. as \in Seq(Job) /\ DOMAIN as = DOMAIN A
  <2> DEFINE T == [base : Bases, file : Files, name : Names]
  <2>1. A \in Seq(T)
    BY DEF Spec
  <2>2. \A x \in T : AttestationJob(x) \in Job
    BY PathsOfSources DEF AttestationJob, Job
  <2> HIDE DEF T, A
  <2> QED  BY <2>1, <2>2, EachInSeq
<1>4. ss \in Seq(Job) /\ DOMAIN ss = DOMAIN S
  <2>1. S \in Seq(Source)
    BY DEF Spec
  <2>2. \A x \in Source : StampJob(x) \in Job
    BY PathsOfSources DEF StampJob, Job, Source
  <2> HIDE DEF S
  <2> QED  BY <2>1, <2>2, EachInSeq
<1> HIDE DEF j1, j2, j3, as, ss
<1> DEFINE M == <<j1, j2, j3>>
<1>5. M \in Seq(Job) /\ Range(M) = {j1, j2, j3}
  <2>1. DOMAIN M = {1, 2, 3} /\ M[1] = j1 /\ M[2] = j2 /\ M[3] = j3
    OBVIOUS
  <2> QED  BY <1>2, <2>1 DEF Range
<1> HIDE DEF M
<1>6. M \o as \in Seq(Job) /\ M \o as \o ss \in Seq(Job)
  BY <1>3, <1>4, <1>5, ConcatProperties
<1>7. Range(M \o as \o ss) = {j1, j2, j3} \cup Range(as) \cup Range(ss)
  <2>1. M \in Seq(Job) /\ as \in Seq(Job) /\ ss \in Seq(Job) /\ M \o as \in Seq(Job)
    BY <1>3, <1>4, <1>5, <1>6
  <2>2. Range(M \o as) = Range(M) \cup Range(as)
    BY <2>1, RangeConcatenation
  <2>3. Range(M \o as \o ss) = Range(M \o as) \cup Range(ss)
    BY <2>1, RangeConcatenation
  <2> QED  BY <1>5, <2>2, <2>3
<1>8. JobsOf(spec) = {j1, j2, j3} \cup Range(as) \cup Range(ss)
  BY <1>1, <1>7 DEF JobsOf, M
<1>9. Jobs(spec) \in Seq(Job)
  BY <1>1, <1>6 DEF M
<1>10. Range(as) = {AttestationJob(A[i]) : i \in DOMAIN A}
  BY <1>3 DEF as, Range
<1>11. Range(ss) = {StampJob(S[i]) : i \in DOMAIN S}
  BY <1>4 DEF ss, Range
<1> QED  BY <1>8, <1>9, <1>10, <1>11, Zenon DEF j1, j2, j3

-----------------------------------------------------------------------------
(* What Verify concludes of one attestation.                               *)

LEMMA JudgeType ==
  ASSUME NEW cfg, NEW q, NEW name \in Names, NEW e \in Envelopes, NEW stamps
  PROVE  Judge(cfg, q, name, e, stamps) \in JudgedResult
<1> DEFINE sig  == VerifyEnvelope(e, KnownKeys(cfg))
           class == IF ~ sig.valid THEN "insufficient"
                    ELSE Classify(cfg.feed, sig.acceptedKey,
                           {s.time : s \in {t \in stamps : Proves(t, e, cfg)}})
           r == Judge(cfg, q, name, e, stamps)
<1>1. sig.valid \in BOOLEAN
  BY VerifyEnvelopeType
<1>2. class \in Classes
  BY ClassifyType DEF Classes
<1> HIDE DEF sig, class
<1>3. /\ r = [envelope |-> r.envelope, name |-> r.name, signatureValid |-> r.signatureValid,
              issuerTrusted |-> r.issuerTrusted, revoked |-> r.revoked,
              digestMatch |-> r.digestMatch, policyAllowed |-> r.policyAllowed, class |-> r.class]
      /\ r.envelope = e /\ r.name = name /\ r.signatureValid = sig.valid /\ r.class = class
  BY DEF Judge, sig, class
<1>4. /\ r.issuerTrusted \in BOOLEAN /\ r.revoked \in BOOLEAN
      /\ r.digestMatch \in BOOLEAN /\ r.policyAllowed \in BOOLEAN
  BY <1>1, Zenon DEF Judge, sig, TrustedNow, PolicyAllows
<1> HIDE DEF r
<1>5. r \in JudgedResult
  BY <1>1, <1>2, <1>3, <1>4 DEF JudgedResult
<1> QED  BY <1>5 DEF r

\* Where the artifact of that name is at hand, the gate concludes the same.
LEMMA JudgeAgrees ==
  ASSUME NEW cfg, NEW q, NEW name, name \in DOMAIN q.artifacts, NEW e \in Envelopes, NEW stamps
  PROVE  LET r == Judge(cfg, q, name, e, stamps)
             g == VerifyOne(cfg, e, name, q.artifacts[name], q.now)
         IN  /\ r.signatureValid = g.signatureValid /\ r.issuerTrusted = g.issuerTrusted
             /\ r.policyAllowed = g.policyAllowed /\ r.digestMatch = g.digestMatch
             /\ g.revoked => r.revoked
             /\ Passes(r) => FullyPassed(g)
<1> DEFINE sig  == VerifyEnvelope(e, KnownKeys(cfg))
           prov == ProvenanceOf(sig.st)
           sha  == q.artifacts[name]
           r    == Judge(cfg, q, name, e, stamps)
           g    == VerifyOne(cfg, e, name, sha, q.now)
           listed == IsRevoked(cfg.feed, sig.acceptedKey)
           trusted == IssuerTrusted(cfg, sig.acceptedKey, prov)
           matched == VerifySubjectDigest(sig.st, name, sha)
<1>1. sig.valid \in BOOLEAN
  BY VerifyEnvelopeType
<1>2. ~ sig.valid => sig.st = NoStatement
  BY InvalidSignature
<1>3. sig.st = NoStatement => ~ matched
  BY DEF VerifySubjectDigest, Targets
<1>4. sig.st = NoStatement => ~ trusted
  BY DEF ProvenanceOf, IssuerTrusted
<1>5. matched \in BOOLEAN /\ trusted \in BOOLEAN /\ listed \in BOOLEAN
  <2>1. matched \in BOOLEAN
    BY DEF VerifySubjectDigest
  <2>2. trusted \in BOOLEAN
    BY DEF IssuerTrusted
  <2>3. listed \in BOOLEAN
    BY DEF IsRevoked
  <2> QED  BY <2>1, <2>2, <2>3
<1> HIDE DEF sig, prov, matched, trusted, listed
<1> DEFINE rMatched == sig.valid /\ name \in DOMAIN q.artifacts /\ matched
           rTrusted == trusted /\ ~ listed
           gRevoked == sig.st # NoStatement /\ listed
           gTrusted == trusted /\ ~ gRevoked
<1>6. /\ r.signatureValid = sig.valid /\ r.issuerTrusted = rTrusted
      /\ r.revoked = (sig.valid /\ listed) /\ r.digestMatch = rMatched
      /\ r.policyAllowed = PolicyAllows(cfg.policy,
                             [signatureValid |-> sig.valid, issuerTrusted |-> rTrusted,
                              digestMatch |-> rMatched], prov, q.now)
  BY Zenon DEF Judge, TrustedNow, sig, prov, matched, trusted, listed
<1>7. /\ g.signatureValid = sig.valid /\ g.issuerTrusted = gTrusted
      /\ g.revoked = gRevoked /\ g.digestMatch = matched
      /\ g.policyAllowed = PolicyAllows(cfg.policy,
                             [signatureValid |-> sig.valid, issuerTrusted |-> gTrusted,
                              digestMatch |-> matched], prov, q.now)
  BY Zenon DEF VerifyOne, sig, prov, matched, trusted, listed
<1>8. rMatched = matched
  BY <1>1, <1>2, <1>3, <1>5
<1>9. rTrusted = gTrusted
  BY <1>4, <1>5
<1>10. gRevoked => sig.valid /\ listed
  BY <1>1, <1>2
<1> HIDE DEF r, g, rMatched, rTrusted, gRevoked, gTrusted
<1>11. /\ r.signatureValid = g.signatureValid /\ r.issuerTrusted = g.issuerTrusted
       /\ r.policyAllowed = g.policyAllowed /\ r.digestMatch = g.digestMatch
       /\ g.revoked => r.revoked
  BY <1>6, <1>7, <1>8, <1>9, <1>10
<1>12. Passes(r) => FullyPassed(g)
  BY <1>11 DEF Passes, FullyPassed
<1> QED  BY <1>11, <1>12 DEF r, g

-----------------------------------------------------------------------------
(* The inductive invariant.                                                *)

\* What lies at p is a source that was to go there.
Written(copies, spec, p) ==
  p \in DOMAIN copies /\ [path |-> p, file |-> copies[p]] \in JobsOf(spec)

\* A build has copied each file or still has to.
BuildOK ==
  build # NoBuild =>
    /\ build = Building("copy", build.spec, build.jobs)
    /\ build.spec \in Specs
    /\ build.jobs \in Seq(Job) /\ Range(build.jobs) \subseteq JobsOf(build.spec)
    /\ \A p \in DataFiles(build.spec) :
         Written(dir, build.spec, p) \/ \E j \in Range(build.jobs) : j.path = p

\* A manifest is written at the end of a build only, so it lists sources of
\* that build, whatever becomes of the copies.
TrueManifest(m) ==
  /\ m = [by |-> m.by, files |-> m.files, evidence |-> m.evidence, stamps |-> m.stamps]
  /\ m.by \in Specs
  /\ m.files = [p \in DataFiles(m.by) |-> m.files[p]]
  /\ \A p \in DataFiles(m.by) : Written(m.files, m.by, p)
  /\ m.evidence = EvidenceOf(m.by)
  /\ m.stamps = {StampPath(m.by.stamps[i]) : i \in DOMAIN m.by.stamps}

Agree(files, copies) == \A p \in DOMAIN files : p \in DOMAIN copies /\ copies[p] = files[p]

ConfigOf(files) ==
  LoadedConfig(files[TrustRootPath], files[PolicyPath], files[RevocationPath])

StampsOf(m) == {StampIn[f] : f \in {m.files[p] : p \in m.stamps} \cap DOMAIN StampIn}

\* The conclusion on one reference of the manifest, from the files it lists.
JudgeRef(cfg, q, m, ref) ==
  Judge(cfg, q, ref.name, EnvelopeIn[m.files[ref.path]], StampsOf(m))

\* While nothing is written, what was checked is what the manifest lists, and
\* so is what was judged.
QuietRun(v, copies) ==
  /\ v.pc = "check" =>
       \A p \in DOMAIN v.manifest.files \ v.todo :
         p \in DOMAIN copies /\ copies[p] = v.manifest.files[p]
  /\ v.pc = "check" /\ v.wasFresh => Agree(v.manifest.files, copies)
  /\ v.pc = "mismatch" => ~ v.wasFresh
  /\ v.pc \in {"judge", "done"} => v.cfg = ConfigOf(v.manifest.files)
  /\ v.pc = "judge" =>
       /\ Agree(v.manifest.files, copies)
       /\ v.results = {JudgeRef(v.cfg, v.query, v.manifest, ref) :
                         ref \in v.manifest.evidence \ v.todo}
  /\ v.pc = "done" =>
       v.results = {JudgeRef(v.cfg, v.query, v.manifest, ref) : ref \in v.manifest.evidence}

IsRun(v) ==
  v = [pc |-> v.pc, query |-> v.query, manifest |-> v.manifest, todo |-> v.todo, cfg |-> v.cfg,
       results |-> v.results, decision |-> v.decision, quiet |-> v.quiet, wasFresh |-> v.wasFresh]

\* Every result is a judgement under the configuration loaded.
JudgedUnder(v) ==
  \A r \in v.results : \E name \in Names, e \in Envelopes : \E stamps :
    r = Judge(v.cfg, v.query, name, e, stamps)

RunOK(v, copies) ==
  /\ IsRun(v)
  /\ v.pc \in {"check", "mismatch", "judge", "failed", "done"}
  /\ v.query \in Queries /\ TrueManifest(v.manifest)
  /\ v.pc = "check" => v.todo \subseteq DOMAIN v.manifest.files /\ v.results = {}
  /\ v.pc \in {"judge", "done"} => IsConfig(v.cfg)
  /\ v.pc = "judge" => v.todo \subseteq v.manifest.evidence
  /\ JudgedUnder(v)
  /\ v.decision \in {"none", "allow", "deny"}
  /\ v.decision = "allow" => v.pc = "done" /\ \A r \in v.results : Passes(r)
  /\ v.quiet => QuietRun(v, copies)

OfflineInv ==
  /\ DOMAIN dir \subseteq Paths /\ dir \in [DOMAIN dir -> Contents]
  /\ manifest = NoManifest \/ TrueManifest(manifest)
  /\ BuildOK
  /\ fresh => Agree(manifest.files, dir)
  /\ verify = NoRun \/ RunOK(verify, dir)
  /\ builds \in 0..MaxBuilds /\ damages \in 0..MaxDamages

-----------------------------------------------------------------------------
(* Steps of a build, and damage.                                           *)

LEMMA DataFilesAre ==
  ASSUME NEW spec \in Spec
  PROVE  /\ DataFiles(spec) = {j.path : j \in JobsOf(spec)}
         /\ DataFiles(spec) \subseteq Paths /\ Material \subseteq DataFiles(spec)
<1>1. DataFiles(spec) = {j.path : j \in JobsOf(spec)}
  BY DEF DataFiles, JobsOf, Range
<1>2. JobsOf(spec) \subseteq Job
  BY JobsAre, EachInSeq DEF JobsOf, Range
<1>3. \A p \in Material : \E j \in JobsOf(spec) : j.path = p
  <2>1. /\ [path |-> PolicyPath, file |-> spec.policy] \in JobsOf(spec)
        /\ [path |-> TrustRootPath, file |-> spec.root] \in JobsOf(spec)
        /\ [path |-> RevocationPath, file |-> spec.feed] \in JobsOf(spec)
    BY JobsAre
  <2> QED  BY <2>1 DEF Material
<1> QED  BY <1>1, <1>2, <1>3 DEF Job

\* Whatever is written, a run of Verify keeps what does not rest on quiet.
LEMMA DisturbedRun ==
  ASSUME NEW copies, verify = NoRun \/ RunOK(verify, copies), NEW copies2
  PROVE  Disturbed = NoRun \/ RunOK(Disturbed, copies2)
<1>1. CASE verify = NoRun
  BY <1>1 DEF Disturbed, NoRun
<1>2. CASE RunOK(verify, copies)
  <2> DEFINE v == Disturbed
  <2>1. IsRun(verify)
    BY <1>2 DEF RunOK
  <2>2. v = [verify EXCEPT !.quiet = FALSE]
    BY <2>1 DEF IsRun, Disturbed
  <2>3. /\ IsRun(v) /\ v.pc = verify.pc /\ v.query = verify.query /\ v.manifest = verify.manifest
        /\ v.todo = verify.todo /\ v.cfg = verify.cfg /\ v.results = verify.results
        /\ v.decision = verify.decision /\ v.quiet = FALSE
    BY <2>1, <2>2 DEF IsRun
  <2> HIDE DEF v
  <2>4. RunOK(v, copies2)
    BY <1>2, <2>3 DEF RunOK, JudgedUnder
  <2> QED  BY <2>4 DEF v
<1> QED  BY <1>1, <1>2

LEMMA StartBuildKeeps ==
  ASSUME OfflineInv, NEW spec \in Specs, StartBuild(spec)
  PROVE  OfflineInv'
<1>1. spec \in Spec
  BY OfflineAssumption
<1>2. build' = Building("copy", spec, Jobs(spec)) /\ builds' \in 0..MaxBuilds
  BY OfflineAssumption DEF StartBuild, OfflineInv
<1>3. build'.spec = spec /\ build'.jobs = Jobs(spec) /\ build' = Building("copy", build'.spec, build'.jobs)
  BY <1>2 DEF Building
<1>4. \A p \in DataFiles(spec) : \E j \in JobsOf(spec) : j.path = p
  BY <1>1, DataFilesAre
<1>5. BuildOK'
  BY <1>1, <1>3, <1>4, JobsAre DEF BuildOK, JobsOf
<1> QED  BY <1>2, <1>5 DEF OfflineInv, StartBuild

LEMMA HeadAndTail ==
  ASSUME NEW S, NEW s \in Seq(S), s # <<>>
  PROVE  /\ Head(s) \in Range(s) /\ Tail(s) \in Seq(S)
         /\ Range(s) = {Head(s)} \cup Range(Tail(s))
<1>1. Len(s) \in Nat \ {0} /\ DOMAIN s = 1..Len(s) /\ Head(s) = s[1]
  OBVIOUS
<1>2. /\ Tail(s) \in Seq(S) /\ DOMAIN Tail(s) = 1..(Len(s) - 1)
      /\ \A i \in 1..(Len(s) - 1) : Tail(s)[i] = s[i + 1]
  OBVIOUS
<1>3. \A i \in DOMAIN s : i = 1 \/ (i - 1 \in DOMAIN Tail(s) /\ s[i] = Tail(s)[i - 1])
  BY <1>1, <1>2
<1>4. \A i \in DOMAIN Tail(s) : i + 1 \in DOMAIN s /\ Tail(s)[i] = s[i + 1]
  BY <1>1, <1>2
<1> QED  BY <1>1, <1>2, <1>3, <1>4 DEF Range

LEMMA PutType ==
  ASSUME NEW copies, DOMAIN copies \subseteq Paths, copies \in [DOMAIN copies -> Contents],
         NEW p \in Paths, NEW f \in Contents
  PROVE  LET c == Put(copies, p, f)
         IN  DOMAIN c \subseteq Paths /\ c \in [DOMAIN c -> Contents]
<1> DEFINE c == Put(copies, p, f)
<1>1. c = [q \in DOMAIN copies \cup {p} |-> IF q = p THEN f ELSE copies[q]]
  BY DEF Put
<1>2. \A q \in DOMAIN copies : copies[q] \in Contents
  OBVIOUS
<1> HIDE DEF c
<1>3. DOMAIN c = DOMAIN copies \cup {p} /\ \A q \in DOMAIN c : c[q] \in Contents
  BY <1>1, <1>2
<1>4. c = [q \in DOMAIN c |-> c[q]]
  BY <1>1
<1> QED  BY <1>3, <1>4 DEF c

LEMMA CopyFileKeeps ==
  ASSUME OfflineInv, CopyFile
  PROVE  OfflineInv'
<1> DEFINE job == Head(build.jobs)
           spec == build.spec
<1>1. build # NoBuild /\ build.jobs # <<>>
  BY DEF CopyFile, NoBuild
<1>2. /\ build = Building("copy", build.spec, build.jobs) /\ spec \in Specs /\ spec \in Spec
      /\ build.jobs \in Seq(Job) /\ Range(build.jobs) \subseteq JobsOf(spec)
      /\ \A p \in DataFiles(spec) :
           Written(dir, spec, p) \/ \E j \in Range(build.jobs) : j.path = p
  BY <1>1, OfflineAssumption DEF OfflineInv, BuildOK
<1>3. /\ job \in Range(build.jobs) /\ Tail(build.jobs) \in Seq(Job)
      /\ Range(build.jobs) = {job} \cup Range(Tail(build.jobs))
  BY <1>1, <1>2, HeadAndTail
<1>4. job \in JobsOf(spec) /\ job \in Job
  <2>1. JobsOf(spec) \subseteq Job
    BY <1>2, JobsAre, EachInSeq DEF JobsOf, Range
  <2> QED  BY <1>2, <1>3, <2>1
<1>5. /\ build' = Building("copy", spec, Tail(build.jobs))
      /\ build'.spec = spec /\ build'.jobs = Tail(build.jobs)
  BY <1>2 DEF CopyFile, Building
<1> HIDE DEF job, spec
<1>6. dir' = Put(dir, job.path, job.file)
  BY DEF CopyFile, job
<1>7. \A p \in DataFiles(spec) :
        Written(dir', spec, p) \/ \E j \in Range(Tail(build.jobs)) : j.path = p
  <2>1. /\ DOMAIN dir' = DOMAIN dir \cup {job.path} /\ dir'[job.path] = job.file
        /\ \A q \in DOMAIN dir \ {job.path} : dir'[q] = dir[q]
    BY <1>6 DEF Put
  <2>2. job = [path |-> job.path, file |-> job.file]
    BY <1>4 DEF Job
  <2>3. Written(dir', spec, job.path)
    BY <1>4, <2>1, <2>2 DEF Written
  <2>4. ASSUME NEW p, p # job.path, Written(dir, spec, p) PROVE Written(dir', spec, p)
    BY <2>1, <2>4 DEF Written
  <2> QED  BY <1>2, <1>3, <2>3, <2>4
<1>8. BuildOK'
  BY <1>2, <1>3, <1>5, <1>7 DEF BuildOK, Building
<1>9. DOMAIN dir' \subseteq Paths /\ dir' \in [DOMAIN dir' -> Contents]
  <2>1. job.path \in Paths /\ job.file \in Contents
    BY <1>4 DEF Job, Contents
  <2> QED  BY <1>6, <2>1, PutType DEF OfflineInv
<1>10. (verify = NoRun \/ RunOK(verify, dir))'
  BY DisturbedRun DEF OfflineInv, CopyFile
<1> QED  BY <1>8, <1>9, <1>10 DEF OfflineInv, CopyFile

LEMMA WriteManifestKeeps ==
  ASSUME OfflineInv, WriteManifest
  PROVE  OfflineInv'
<1> DEFINE spec == build.spec
           m == ManifestOf(dir, spec)
<1>1. build # NoBuild /\ build.jobs = <<>>
  BY DEF WriteManifest, NoBuild
<1>2. spec \in Specs /\ \A p \in DataFiles(spec) : Written(dir, spec, p)
  BY <1>1 DEF OfflineInv, BuildOK, Range
<1>3. /\ m.by = spec /\ m.files = [p \in DataFiles(spec) |-> dir[p]]
      /\ m.evidence = EvidenceOf(spec)
      /\ m.stamps = {StampPath(spec.stamps[i]) : i \in DOMAIN spec.stamps}
      /\ m = [by |-> m.by, files |-> m.files, evidence |-> m.evidence, stamps |-> m.stamps]
  BY DEF ManifestOf, Hashes
<1> HIDE DEF m, spec
<1>4. TrueManifest(m)
  BY <1>2, <1>3 DEF TrueManifest, Written
<1>5. Agree(m.files, dir)
  BY <1>2, <1>3 DEF Agree, Written
<1>6. manifest' = m /\ build' = NoBuild /\ dir' = dir
  BY DEF WriteManifest, m, spec
<1>7. (verify = NoRun \/ RunOK(verify, dir))'
  BY DisturbedRun DEF OfflineInv, WriteManifest
<1> QED  BY <1>4, <1>5, <1>6, <1>7 DEF OfflineInv, WriteManifest, BuildOK

LEMMA BuildFailsKeeps ==
  ASSUME OfflineInv, BuildFails
  PROVE  OfflineInv'
<1>1. DOMAIN dir' \subseteq Paths /\ dir' \in [DOMAIN dir' -> Contents]
  <2>1. CASE UNCHANGED dir
    BY <2>1 DEF OfflineInv
  <2>2. CASE build.jobs # <<>> /\ dir' = Put(dir, Head(build.jobs).path, Torn)
    <3>1. build # NoBuild
      BY DEF BuildFails, NoBuild
    <3>2. build.jobs \in Seq(Job)
      BY <3>1 DEF OfflineInv, BuildOK
    <3>3. Head(build.jobs).path \in Paths
      <4>1. Head(build.jobs) \in Job
        BY <2>2, <3>2
      <4> QED  BY <4>1 DEF Job
    <3>4. Torn \in Contents
      BY DEF Contents
    <3> QED  BY <2>2, <3>3, <3>4, PutType DEF OfflineInv
  <2> QED  BY <2>1, <2>2 DEF BuildFails
<1>2. (manifest = NoManifest \/ TrueManifest(manifest))'
  BY DEF OfflineInv, BuildFails
<1>3. (verify = NoRun \/ RunOK(verify, dir))'
  BY DisturbedRun DEF OfflineInv, BuildFails
<1> QED  BY <1>1, <1>2, <1>3 DEF OfflineInv, BuildFails, BuildOK

LEMMA DamageKeeps ==
  ASSUME OfflineInv, Damage
  PROVE  OfflineInv'
<1>1. DOMAIN dir' \subseteq Paths /\ dir' \in [DOMAIN dir' -> Contents]
  <2>1. CASE UNCHANGED dir
    BY <2>1 DEF OfflineInv
  <2>2. ASSUME NEW p \in DOMAIN dir, dir' = [q \in DOMAIN dir \ {p} |-> dir[q]]
        PROVE  DOMAIN dir' \subseteq Paths /\ dir' \in [DOMAIN dir' -> Contents]
    BY <2>2 DEF OfflineInv
  <2>3. ASSUME NEW p \in DOMAIN dir, NEW f \in Foreign, dir' = Put(dir, p, f)
        PROVE  DOMAIN dir' \subseteq Paths /\ dir' \in [DOMAIN dir' -> Contents]
    <3>1. p \in Paths /\ f \in Contents
      BY <2>3, OfflineAssumption DEF OfflineInv
    <3> QED  BY <2>3, <3>1, PutType DEF OfflineInv
  <2> QED  BY <2>1, <2>2, <2>3 DEF Damage
<1>2. (manifest = NoManifest \/ TrueManifest(manifest))'
  BY DEF OfflineInv, Damage
<1>3. (verify = NoRun \/ RunOK(verify, dir))'
  BY DisturbedRun DEF OfflineInv, Damage
<1>4. damages' \in 0..MaxDamages
  BY OfflineAssumption DEF OfflineInv, Damage
<1> QED  BY <1>1, <1>2, <1>3, <1>4 DEF OfflineInv, Damage, BuildOK

-----------------------------------------------------------------------------
(* Steps of a verification: they write nothing.                            *)

LEMMA VerifyStepKeeps ==
  ASSUME OfflineInv, UNCHANGED <<dir, manifest, build, fresh, builds, damages>>,
         RunOK(verify', dir)
  PROVE  OfflineInv'
  BY DEF OfflineInv, BuildOK

LEMMA LoadManifestKeeps ==
  ASSUME OfflineInv, NEW q \in Queries, LoadManifest(q)
  PROVE  OfflineInv'
<1> DEFINE v == verify'
<1>1. /\ IsRun(v) /\ v.pc = "check" /\ v.query = q /\ v.manifest = manifest
      /\ v.todo = DOMAIN manifest.files /\ v.results = {} /\ v.decision = "none"
      /\ v.wasFresh = fresh
  BY DEF LoadManifest, IsRun
<1> HIDE DEF v
<1>2. TrueManifest(manifest) /\ (fresh => Agree(manifest.files, dir))
  BY DEF OfflineInv, LoadManifest
<1>3. QuietRun(v, dir)
  BY <1>1, <1>2 DEF QuietRun
<1>4. RunOK(v, dir)
  BY <1>1, <1>2, <1>3 DEF RunOK, JudgedUnder
<1> QED  BY <1>4, VerifyStepKeeps DEF LoadManifest, v

\* A run that is in progress is one.
LEMMA InRun ==
  ASSUME OfflineInv, verify.pc \in {"check", "judge"}
  PROVE  RunOK(verify, dir)
  BY DEF OfflineInv, NoRun

\* Ending a run leaves the rest of it as it was.
LEMMA EndedRun ==
  ASSUME RunOK(verify, dir), NEW pc
  PROVE  LET v == Ended(pc)
         IN  /\ IsRun(v) /\ v.pc = pc /\ v.query = verify.query /\ v.manifest = verify.manifest
             /\ v.todo = verify.todo /\ v.cfg = verify.cfg /\ v.results = verify.results
             /\ v.decision = verify.decision /\ v.quiet = verify.quiet
             /\ v.wasFresh = verify.wasFresh
<1> DEFINE v == Ended(pc)
<1>1. IsRun(verify)
  BY DEF RunOK
<1> QED  BY <1>1 DEF IsRun, Ended

LEMMA CheckFileKeeps ==
  ASSUME OfflineInv, CheckFile
  PROVE  OfflineInv'
<1> DEFINE p == CHOOSE p \in verify.todo : TRUE
           files == verify.manifest.files
           v == verify'
<1>1. RunOK(verify, dir) /\ verify.pc = "check" /\ p \in verify.todo
  BY InRun DEF CheckFile
<1>2. verify.todo \subseteq DOMAIN files /\ verify.results = {}
  BY <1>1 DEF RunOK
<1>3. CASE Matches(files, dir, p)
  <2>1. v = [verify EXCEPT !.todo = verify.todo \ {p}]
    BY <1>3 DEF CheckFile
  <2> HIDE DEF p
  <2>2. /\ IsRun(v) /\ v.pc = "check" /\ v.query = verify.query /\ v.manifest = verify.manifest
        /\ v.todo = verify.todo \ {p} /\ v.cfg = verify.cfg /\ v.results = verify.results
        /\ v.decision = verify.decision /\ v.quiet = verify.quiet
        /\ v.wasFresh = verify.wasFresh
    BY <1>1, <2>1 DEF RunOK, IsRun
  <2> HIDE DEF v
  <2>3. v.quiet => QuietRun(v, dir)
    BY <1>1, <1>3, <2>2 DEF RunOK, QuietRun, Matches
  <2>4. RunOK(v, dir)
    BY <1>1, <1>2, <2>2, <2>3 DEF RunOK, JudgedUnder
  <2> QED  BY <2>4, VerifyStepKeeps DEF CheckFile, v
<1>4. CASE ~ Matches(files, dir, p)
  <2>1. v = Ended("mismatch")
    BY <1>4 DEF CheckFile
  <2> HIDE DEF p
  <2>2. /\ IsRun(v) /\ v.pc = "mismatch" /\ v.query = verify.query /\ v.manifest = verify.manifest
        /\ v.cfg = verify.cfg /\ v.results = verify.results
        /\ v.decision = verify.decision /\ v.quiet = verify.quiet
        /\ v.wasFresh = verify.wasFresh
    BY <1>1, <2>1, EndedRun
  <2> HIDE DEF v
  <2>3. v.quiet => QuietRun(v, dir)
    BY <1>1, <1>2, <1>4, <2>2 DEF RunOK, QuietRun, Matches, Agree
  <2>4. RunOK(v, dir)
    BY <1>1, <1>2, <2>2, <2>3 DEF RunOK, JudgedUnder
  <2> QED  BY <2>4, VerifyStepKeeps DEF CheckFile, v
<1> QED  BY <1>3, <1>4

LEMMA LoadMaterialKeeps ==
  ASSUME OfflineInv, LoadMaterial
  PROVE  OfflineInv'
<1> DEFINE readable == /\ Readable(dir, TrustRootPath, RootIn)
                       /\ Readable(dir, PolicyPath, PolicyIn)
                       /\ Readable(dir, RevocationPath, FeedIn)
           cfg == LoadedConfig(dir[TrustRootPath], dir[PolicyPath], dir[RevocationPath])
           files == verify.manifest.files
           v == verify'
<1>1. RunOK(verify, dir) /\ verify.pc = "check" /\ verify.todo = {} /\ verify.results = {}
  BY InRun DEF LoadMaterial, RunOK
<1>2. CASE readable
  <2>1. v = [verify EXCEPT !.pc = "judge", !.todo = verify.manifest.evidence, !.cfg = cfg]
    BY <1>2 DEF LoadMaterial
  <2>2. IsConfig(cfg)
    BY <1>2, OfflineAssumption DEF LoadedConfig, Readable
  <2> HIDE DEF readable, cfg
  <2>3. /\ IsRun(v) /\ v.pc = "judge" /\ v.query = verify.query /\ v.manifest = verify.manifest
        /\ v.todo = verify.manifest.evidence /\ v.cfg = cfg /\ v.results = {}
        /\ v.decision = verify.decision /\ v.quiet = verify.quiet
        /\ v.wasFresh = verify.wasFresh
    BY <1>1, <2>1 DEF RunOK, IsRun
  <2> HIDE DEF v
  <2>4. verify.quiet => Agree(files, dir)
    BY <1>1 DEF RunOK, QuietRun, Agree
  <2>5. Material \subseteq DOMAIN files
    <3>1. TrueManifest(verify.manifest)
      BY <1>1 DEF RunOK
    <3>2. verify.manifest.by \in Spec /\ DOMAIN files = DataFiles(verify.manifest.by)
      BY <3>1, OfflineAssumption DEF TrueManifest
    <3> QED  BY <3>2, DataFilesAre
  <2>6. verify.quiet => cfg = ConfigOf(files)
    BY <2>4, <2>5 DEF Agree, Material, ConfigOf, cfg
  <2>7. v.quiet => QuietRun(v, dir)
    BY <2>3, <2>4, <2>6 DEF QuietRun
  <2>8. RunOK(v, dir)
    BY <1>1, <2>2, <2>3, <2>7 DEF RunOK, JudgedUnder
  <2> QED  BY <2>8, VerifyStepKeeps DEF LoadMaterial, v
<1>3. CASE ~ readable
  <2>1. v = Ended("failed")
    BY <1>3 DEF LoadMaterial
  <2>2. /\ IsRun(v) /\ v.pc = "failed" /\ v.query = verify.query /\ v.manifest = verify.manifest
        /\ v.cfg = verify.cfg /\ v.results = verify.results
        /\ v.decision = verify.decision /\ v.quiet = verify.quiet
    BY <1>1, <2>1, EndedRun
  <2> HIDE DEF v
  <2>3. RunOK(v, dir)
    BY <1>1, <2>2 DEF RunOK, JudgedUnder, QuietRun
  <2> QED  BY <2>3, VerifyStepKeeps DEF LoadMaterial, v
<1> QED  BY <1>2, <1>3

\* The references of a manifest name artifacts, and lead to listed files.
LEMMA ReferencesOf ==
  ASSUME NEW m, TrueManifest(m)
  PROVE  /\ m.by \in Spec /\ DOMAIN m.files = DataFiles(m.by)
         /\ \A ref \in m.evidence : ref.name \in Names /\ ref.path \in DOMAIN m.files
         /\ m.evidence \subseteq [path : Paths, name : Names]
         /\ m.stamps \subseteq DOMAIN m.files
<1> DEFINE spec == m.by
           A == spec.attestations
           T == [base : Bases, file : Files, name : Names]
<1>1. spec \in Spec /\ DOMAIN m.files = DataFiles(spec)
  BY OfflineAssumption DEF TrueManifest
<1>2. \A i \in DOMAIN A : A[i].base \in Bases /\ A[i].name \in Names
  <2>1. A \in Seq(T)
    BY <1>1 DEF Spec
  <2>2. \A x \in T : x.base \in Bases /\ x.name \in Names
    OBVIOUS
  <2> HIDE DEF A, T
  <2> QED  BY <2>1, <2>2, EachInSeq
<1> HIDE DEF spec
<1>7. \A j \in JobsOf(spec) : j.path \in DataFiles(spec)
  BY <1>1, DataFilesAre
<1>3. \A i \in DOMAIN A : AttestationPath(A[i]) \in DataFiles(spec)
  <2>1. \A i \in DOMAIN A : AttestationJob(A[i]) \in JobsOf(spec)
    BY <1>1, JobsAre
  <2> QED  BY <1>7, <2>1 DEF AttestationJob
<1>4. \A i \in DOMAIN spec.stamps : StampPath(spec.stamps[i]) \in DataFiles(spec)
  <2>1. \A i \in DOMAIN spec.stamps : StampJob(spec.stamps[i]) \in JobsOf(spec)
    BY <1>1, JobsAre
  <2> QED  BY <1>7, <2>1 DEF StampJob
<1>5. /\ m.evidence = {[path |-> AttestationPath(A[i]), name |-> A[i].name] : i \in DOMAIN A}
      /\ m.stamps = {StampPath(spec.stamps[i]) : i \in DOMAIN spec.stamps}
  BY DEF TrueManifest, EvidenceOf, spec
<1>6. DataFiles(spec) \subseteq Paths
  BY <1>1, DataFilesAre
<1> QED  BY <1>1, <1>2, <1>3, <1>4, <1>5, <1>6 DEF spec

LEMMA JudgeEvidenceKeeps ==
  ASSUME OfflineInv, JudgeEvidence
  PROVE  OfflineInv'
<1> DEFINE ref == CHOOSE r \in verify.todo : TRUE
           m == verify.manifest
           stamps == {StampIn[f] : f \in {dir[p] : p \in m.stamps \cap DOMAIN dir} \cap DOMAIN StampIn}
           e == EnvelopeIn[dir[ref.path]]
           r == Judge(verify.cfg, verify.query, ref.name, e, stamps)
           readable == /\ Readable(dir, ref.path, EnvelopeIn)
                       /\ Content[e].form # "unparseable" => m.stamps \subseteq DOMAIN dir
           v == verify'
<1>1. RunOK(verify, dir) /\ verify.pc = "judge" /\ ref \in verify.todo
  BY InRun DEF JudgeEvidence
<1>2. TrueManifest(m) /\ verify.todo \subseteq m.evidence
  BY <1>1 DEF RunOK
<1>3. CASE readable
  <2>1. v = [verify EXCEPT !.todo = verify.todo \ {ref}, !.results = verify.results \cup {r}]
    BY <1>3 DEF JudgeEvidence
  <2>2. ref.name \in Names /\ ref.path \in DOMAIN m.files /\ m.stamps \subseteq DOMAIN m.files
    BY <1>1, <1>2, ReferencesOf
  <2>3. e \in Envelopes
    BY <1>3, OfflineAssumption DEF Readable
  <2> HIDE DEF readable, ref, r
  <2>4. /\ IsRun(v) /\ v.pc = "judge" /\ v.query = verify.query /\ v.manifest = m
        /\ v.todo = verify.todo \ {ref} /\ v.cfg = verify.cfg
        /\ v.results = verify.results \cup {r}
        /\ v.decision = verify.decision /\ v.quiet = verify.quiet
        /\ v.wasFresh = verify.wasFresh
    BY <1>1, <2>1 DEF RunOK, IsRun
  <2> HIDE DEF v
  <2>5. JudgedUnder(v)
    <3>1. r = Judge(v.cfg, v.query, ref.name, e, stamps)
      BY <2>4 DEF r
    <3> HIDE DEF e, stamps
    <3>2. JudgedUnder(verify)
      BY <1>1 DEF RunOK
    <3> QED  BY <2>2, <2>3, <2>4, <3>1, <3>2 DEF JudgedUnder
  <2>6. ASSUME v.quiet PROVE QuietRun(v, dir)
    <3>1. QuietRun(verify, dir)
      BY <1>1, <2>4, <2>6 DEF RunOK
    <3>2. Agree(m.files, dir)
      BY <1>1, <3>1 DEF QuietRun
    <3>3. /\ dir[ref.path] = m.files[ref.path]
          /\ \A p \in m.stamps : p \in DOMAIN dir /\ dir[p] = m.files[p]
      BY <2>2, <3>2 DEF Agree
    <3>4. {dir[p] : p \in m.stamps \cap DOMAIN dir} = {m.files[p] : p \in m.stamps}
      BY <3>3
    <3>5. stamps = StampsOf(m)
      BY <3>4 DEF StampsOf
    <3>6. r = JudgeRef(verify.cfg, verify.query, m, ref)
      BY <3>3, <3>5 DEF JudgeRef, r
    <3> HIDE DEF e, stamps
    <3> DEFINE J(x) == JudgeRef(verify.cfg, verify.query, m, x)
    <3>7. verify.results = {J(x) : x \in m.evidence \ verify.todo}
      BY <1>1, <3>1 DEF QuietRun
    <3>8. m.evidence \ v.todo = (m.evidence \ verify.todo) \cup {ref}
      BY <1>1, <1>2, <2>4
    <3> HIDE DEF J
    <3>9. v.results = {J(x) : x \in m.evidence \ v.todo}
      BY <2>4, <3>6, <3>7, <3>8 DEF J
    <3> QED  BY <1>1, <2>4, <3>1, <3>2, <3>9 DEF QuietRun, J
  <2>7. RunOK(v, dir)
    BY <1>1, <1>2, <2>4, <2>5, <2>6 DEF RunOK
  <2> QED  BY <2>7, VerifyStepKeeps DEF JudgeEvidence, v
<1>4. CASE ~ readable
  <2>1. v = Ended("failed")
    BY <1>4 DEF JudgeEvidence
  <2>2. /\ IsRun(v) /\ v.pc = "failed" /\ v.query = verify.query /\ v.manifest = m
        /\ v.cfg = verify.cfg /\ v.results = verify.results
        /\ v.decision = verify.decision /\ v.quiet = verify.quiet
    BY <1>1, <2>1, EndedRun
  <2> HIDE DEF v
  <2>3. RunOK(v, dir)
    BY <1>1, <2>2 DEF RunOK, JudgedUnder, QuietRun
  <2> QED  BY <2>3, VerifyStepKeeps DEF JudgeEvidence, v
<1> QED  BY <1>3, <1>4

LEMMA GiveUpKeeps ==
  ASSUME OfflineInv, GiveUp
  PROVE  OfflineInv'
<1> DEFINE v == verify'
<1>1. RunOK(verify, dir) /\ verify.pc = "judge" /\ v = Ended("failed")
  BY InRun DEF GiveUp
<1>2. /\ IsRun(v) /\ v.pc = "failed" /\ v.query = verify.query /\ v.manifest = verify.manifest
      /\ v.cfg = verify.cfg /\ v.results = verify.results
      /\ v.decision = verify.decision /\ v.quiet = verify.quiet
  BY <1>1, EndedRun
<1> HIDE DEF v
<1>3. RunOK(v, dir)
  BY <1>1, <1>2 DEF RunOK, JudgedUnder, QuietRun
<1> QED  BY <1>3, VerifyStepKeeps DEF GiveUp, v

LEMMA ConcludeKeeps ==
  ASSUME OfflineInv, Conclude
  PROVE  OfflineInv'
<1> DEFINE v == verify'
           d == GateDecision(verify.results)
<1>1. RunOK(verify, dir) /\ verify.pc = "judge" /\ verify.todo = {}
  BY InRun DEF Conclude
<1>2. v = [verify EXCEPT !.pc = "done", !.decision = d]
  BY DEF Conclude
<1>3. d \in {"allow", "deny"} /\ (d = "allow" => \A r \in verify.results : Passes(r))
  BY DEF GateDecision
<1> HIDE DEF d
<1>4. /\ IsRun(v) /\ v.pc = "done" /\ v.query = verify.query /\ v.manifest = verify.manifest
      /\ v.cfg = verify.cfg /\ v.results = verify.results
      /\ v.decision = d /\ v.quiet = verify.quiet
  BY <1>1, <1>2 DEF RunOK, IsRun
<1> HIDE DEF v
<1>5. v.quiet => QuietRun(v, dir)
  <2>1. verify.manifest.evidence \ verify.todo = verify.manifest.evidence
    BY <1>1
  <2> QED  BY <1>1, <1>4, <2>1 DEF RunOK, QuietRun
<1>6. RunOK(v, dir)
  BY <1>1, <1>3, <1>4, <1>5 DEF RunOK, JudgedUnder
<1> QED  BY <1>6, VerifyStepKeeps DEF Conclude, v

LEMMA OfflineInvInit == OfflineInit => OfflineInv
  BY OfflineAssumption DEF OfflineInit, OfflineInv, BuildOK

LEMMA OfflineInvNext ==
  ASSUME OfflineInv, [OfflineNext]_bundle
  PROVE  OfflineInv'
<1>1. CASE UNCHANGED bundle
  BY <1>1 DEF bundle, OfflineInv, BuildOK
<1>2. CASE OfflineNext
  BY <1>2, StartBuildKeeps, CopyFileKeeps, WriteManifestKeeps, BuildFailsKeeps, DamageKeeps,
     LoadManifestKeeps, CheckFileKeeps, LoadMaterialKeeps, JudgeEvidenceKeeps, GiveUpKeeps,
     ConcludeKeeps DEF OfflineNext
<1> QED  BY <1>1, <1>2

LEMMA OfflineInductive == OfflineSpec => []OfflineInv
  BY OfflineInvInit, OfflineInvNext, PTL DEF OfflineSpec

-----------------------------------------------------------------------------
(* The theorems.                                                           *)

LEMMA TrueManifestType ==
  ASSUME NEW m, TrueManifest(m)
  PROVE  IsManifest(m)
<1>1. /\ m.by \in Spec /\ DOMAIN m.files = DataFiles(m.by)
      /\ m.evidence \subseteq [path : Paths, name : Names]
      /\ m.stamps \subseteq DOMAIN m.files
  BY ReferencesOf
<1>2. DataFiles(m.by) \subseteq Paths /\ Material \subseteq DataFiles(m.by)
  BY <1>1, DataFilesAre
<1>3. \A p \in DataFiles(m.by) : m.files[p] \in Contents
  <2>1. JobsOf(m.by) \subseteq Job
    BY <1>1, JobsAre, EachInSeq DEF JobsOf, Range
  <2>2. \A p \in DataFiles(m.by) : [path |-> p, file |-> m.files[p]] \in Job
    BY <2>1 DEF TrueManifest, Written
  <2>3. \A p, f : [path |-> p, file |-> f] \in Job => f \in Contents
    BY DEF Job, Contents
  <2> QED  BY <2>2, <2>3
<1>4. m.files \in [DOMAIN m.files -> Contents]
  BY <1>1, <1>3 DEF TrueManifest
<1> QED  BY <1>1, <1>2, <1>4 DEF IsManifest, TrueManifest

\* Whatever is built, torn, rebuilt, damaged and verified in whatever order,
\* the directory, the manifest and both runs keep their types.
THEOREM OfflineIsWellTyped == OfflineSpec => []OfflineTypeOK
<1>1. OfflineInv => OfflineTypeOK
  <2> SUFFICES ASSUME OfflineInv PROVE OfflineTypeOK
    OBVIOUS
  <2>1. build = NoBuild \/ (build.pc = "copy" /\ build.spec \in Specs)
    BY DEF OfflineInv, BuildOK, Building
  <2>2. manifest = NoManifest \/ IsManifest(manifest)
    BY TrueManifestType DEF OfflineInv
  <2>3. ASSUME verify # NoRun PROVE verify.results \subseteq JudgedResult
    BY <2>3, JudgeType DEF OfflineInv, RunOK, JudgedUnder
  <2>4. ASSUME verify # NoRun PROVE IsManifest(verify.manifest)
    BY <2>4, TrueManifestType DEF OfflineInv, RunOK
  <2> QED  BY <2>1, <2>2, <2>3, <2>4 DEF OfflineTypeOK, OfflineInv, RunOK
<1> QED  BY <1>1, OfflineInductive, PTL

\* Every judgement of a bundle agrees with the gate's on the same attestation,
\* artifact and configuration, and nothing is allowed that fails there.
THEOREM OfflineAgreesWithGate == OfflineSpec => []AgreesWithGate
<1>1. OfflineInv => AgreesWithGate
  <2> SUFFICES ASSUME OfflineInv, verify # NoRun,
                      NEW r \in verify.results, r.name \in DOMAIN verify.query.artifacts
               PROVE  LET g == VerifyOne(verify.cfg, r.envelope, r.name,
                                         verify.query.artifacts[r.name], verify.query.now)
                      IN  /\ r.signatureValid = g.signatureValid
                          /\ r.issuerTrusted = g.issuerTrusted
                          /\ r.policyAllowed = g.policyAllowed /\ r.digestMatch = g.digestMatch
                          /\ g.revoked => r.revoked
                          /\ verify.decision = "allow" => FullyPassed(g)
    BY DEF AgreesWithGate
  <2>1. JudgedUnder(verify) /\ (verify.decision = "allow" => Passes(r))
    BY DEF OfflineInv, RunOK
  <2>2. PICK name \in Names, e \in Envelopes :
               \E stamps : r = Judge(verify.cfg, verify.query, name, e, stamps)
    BY <2>1 DEF JudgedUnder
  <2>3. PICK stamps : r = Judge(verify.cfg, verify.query, name, e, stamps)
    BY <2>2
  <2>4. r.name = name /\ r.envelope = e
    BY <2>3 DEF Judge
  <2> QED  BY <2>1, <2>3, <2>4, JudgeAgrees
<1> QED  BY <1>1, OfflineInductive, PTL

\* A bundle that was built to the end and not touched since passes the check
\* of its integrity.
THEOREM FreshIsAccepted == OfflineSpec => []FreshBundleAccepted
<1>1. OfflineInv => FreshBundleAccepted
  BY DEF OfflineInv, RunOK, QuietRun, FreshBundleAccepted
<1> QED  BY <1>1, OfflineInductive, PTL

\* Where no two sources share a path a manifest lists every source.
LEMMA ListsSources ==
  ASSUME NEW m, TrueManifest(m), DistinctPaths(m.by), NEW j \in JobsOf(m.by)
  PROVE  m.files[j.path] = j.file
<1> DEFINE spec == m.by
           seq == Jobs(spec)
           k == [path |-> j.path, file |-> m.files[j.path]]
<1>1. spec \in Spec
  BY ReferencesOf
<1>2. j.path \in DataFiles(spec)
  BY <1>1, DataFilesAre
<1>3. k \in JobsOf(spec)
  BY <1>2 DEF TrueManifest, Written
<1> HIDE DEF seq, k
<1>4. PICK a \in DOMAIN seq : seq[a] = j
  BY DEF JobsOf, Range, seq
<1>5. PICK b \in DOMAIN seq : seq[b] = k
  BY <1>3 DEF JobsOf, Range, seq
<1>6. seq[a].path = seq[b].path => seq[a].file = seq[b].file
  BY DEF DistinctPaths, seq
<1>7. k.path = j.path /\ k.file = m.files[j.path]
  BY DEF k
<1> QED  BY <1>4, <1>5, <1>6, <1>7

\* A verdict on a bundle nobody wrote to meanwhile rests on all the sources of
\* one build and on nothing else.
THEOREM VerdictRestsOnOneBuild == OfflineSpec => []JudgedWhatWasBuilt
<1>1. OfflineInv => JudgedWhatWasBuilt
  <2> DEFINE m == verify.manifest
             spec == m.by
             q == verify.query
             A == spec.attestations
             S == spec.stamps
  <2> SUFFICES ASSUME OfflineInv, Settled, DistinctPaths(spec)
               PROVE  /\ verify.cfg = LoadedConfig(spec.root, spec.policy, spec.feed)
                      /\ verify.results = {SourceResult(spec, q, i) : i \in DOMAIN A}
    BY DEF JudgedWhatWasBuilt
  <2>1. /\ TrueManifest(m) /\ verify.cfg = ConfigOf(m.files)
        /\ verify.results = {JudgeRef(verify.cfg, q, m, ref) : ref \in m.evidence}
    BY DEF OfflineInv, Settled, RunOK, QuietRun
  <2>2. spec \in Spec
    BY <2>1, ReferencesOf
  <2>3. \A j \in JobsOf(spec) : m.files[j.path] = j.file
    BY <2>1, ListsSources
  <2>4. /\ m.evidence = {[path |-> AttestationPath(A[i]), name |-> A[i].name] : i \in DOMAIN A}
        /\ m.stamps = {StampPath(S[i]) : i \in DOMAIN S}
    BY <2>1 DEF TrueManifest, EvidenceOf
  <2> HIDE DEF m, q
  <2>5. /\ m.files[PolicyPath] = spec.policy /\ m.files[TrustRootPath] = spec.root
        /\ m.files[RevocationPath] = spec.feed
    <3>1. /\ [path |-> PolicyPath, file |-> spec.policy] \in JobsOf(spec)
          /\ [path |-> TrustRootPath, file |-> spec.root] \in JobsOf(spec)
          /\ [path |-> RevocationPath, file |-> spec.feed] \in JobsOf(spec)
      BY <2>2, JobsAre
    <3> QED  BY <2>3, <3>1
  <2>6. \A i \in DOMAIN A : m.files[AttestationPath(A[i])] = A[i].file
    <3>1. \A i \in DOMAIN A : AttestationJob(A[i]) \in JobsOf(spec)
      BY <2>2, JobsAre
    <3> QED  BY <2>3, <3>1 DEF AttestationJob
  <2>7. \A i \in DOMAIN S : m.files[StampPath(S[i])] = S[i].file
    <3>1. \A i \in DOMAIN S : StampJob(S[i]) \in JobsOf(spec)
      BY <2>2, JobsAre
    <3> QED  BY <2>3, <3>1 DEF StampJob
  <2>8. verify.cfg = LoadedConfig(spec.root, spec.policy, spec.feed)
    BY <2>1, <2>5 DEF ConfigOf
  <2> DEFINE cfg == LoadedConfig(spec.root, spec.policy, spec.feed)
             Ref(i) == [path |-> AttestationPath(A[i]), name |-> A[i].name]
  <2>9. StampsOf(m) = SourceStamps(spec)
    <3>1. {m.files[p] : p \in m.stamps} = {S[i].file : i \in DOMAIN S}
      BY <2>4, <2>7
    <3> QED  BY <3>1 DEF StampsOf, SourceStamps
  <2>10. \A i \in DOMAIN A : JudgeRef(cfg, q, m, Ref(i)) = SourceResult(spec, q, i)
    <3> SUFFICES ASSUME NEW i \in DOMAIN A
                 PROVE  JudgeRef(cfg, q, m, Ref(i)) = SourceResult(spec, q, i)
      OBVIOUS
    <3>1. m.files[Ref(i).path] = A[i].file /\ Ref(i).name = A[i].name
      BY <2>6
    <3> HIDE DEF Ref, cfg
    <3>2. JudgeRef(cfg, q, m, Ref(i))
            = Judge(cfg, q, A[i].name, EnvelopeIn[A[i].file], SourceStamps(spec))
      BY <2>9, <3>1 DEF JudgeRef
    <3> QED  BY <3>2 DEF SourceResult, cfg
  <2> HIDE DEF cfg
  <2>11. verify.results = {JudgeRef(cfg, q, m, Ref(i)) : i \in DOMAIN A}
    BY <2>1, <2>4, <2>8 DEF cfg
  <2> HIDE DEF Ref
  <2>12. verify.results = {SourceResult(spec, q, i) : i \in DOMAIN A}
    BY <2>10, <2>11
  <2> QED  BY <2>8, <2>12
<1> QED  BY <1>1, OfflineInductive, PTL

-----------------------------------------------------------------------------
(* The classes.                                                            *)

\* The stamps a manifest leads to are among those given to the build; where no
\* two sources share a path they are all of them.
LEMMA StampsOfSources ==
  ASSUME NEW m, TrueManifest(m)
  PROVE  /\ StampsOf(m) \subseteq SourceStamps(m.by)
         /\ DistinctPaths(m.by) => StampsOf(m) = SourceStamps(m.by)
<1> DEFINE spec == m.by
           S == spec.stamps
<1>1. spec \in Spec
  BY ReferencesOf
<1>2. m.stamps = {StampPath(S[i]) : i \in DOMAIN S}
  BY DEF TrueManifest
<1>3. JobsOf(spec) = {[path |-> PolicyPath, file |-> spec.policy],
                      [path |-> TrustRootPath, file |-> spec.root],
                      [path |-> RevocationPath, file |-> spec.feed]}
        \cup {AttestationJob(spec.attestations[i]) : i \in DOMAIN spec.attestations}
        \cup {StampJob(S[i]) : i \in DOMAIN S}
  BY <1>1, JobsAre
<1>4. ASSUME NEW p \in m.stamps
      PROVE  m.files[p] \in {S[i].file : i \in DOMAIN S}
  <2> DEFINE k == [path |-> p, file |-> m.files[p]]
  <2>1. p \in DataFiles(spec)
    BY ReferencesOf
  <2>2. k \in JobsOf(spec)
    BY <2>1 DEF TrueManifest, Written
  <2>3. PICK base : p = <<"timestamps", base>>
    BY <1>2 DEF StampPath, PathOf
  <2> HIDE DEF k
  <2>4. k.path = p /\ k.file = m.files[p]
    BY DEF k
  <2>5. k.path \notin {PolicyPath, TrustRootPath, RevocationPath}
    BY <2>3, <2>4 DEF PolicyPath, TrustRootPath, RevocationPath
  <2>6. \A s : k # AttestationJob(s)
    BY <2>3, <2>4 DEF AttestationJob, AttestationPath, PathOf
  <2>7. PICK i \in DOMAIN S : k = StampJob(S[i])
    BY <1>3, <2>2, <2>5, <2>6
  <2> QED  BY <2>4, <2>7 DEF StampJob
<1>5. ASSUME DistinctPaths(spec)
      PROVE  {m.files[p] : p \in m.stamps} = {S[i].file : i \in DOMAIN S}
  <2>1. \A i \in DOMAIN S : StampJob(S[i]) \in JobsOf(spec)
    BY <1>3
  <2>2. \A i \in DOMAIN S : m.files[StampPath(S[i])] = S[i].file
    <3>1. \A j \in JobsOf(spec) : m.files[j.path] = j.file
      BY <1>5, ListsSources
    <3> QED  BY <2>1, <3>1 DEF StampJob
  <2> QED  BY <1>2, <2>2
<1> QED  BY <1>4, <1>5 DEF StampsOf, SourceStamps

\* There are finitely many of them, with integer times.
LEMMA StampTimes ==
  ASSUME NEW m, TrueManifest(m), NEW T, T \subseteq StampsOf(m)
  PROVE  IsFiniteSet({t.time : t \in T}) /\ {t.time : t \in T} \subseteq Int
<1> DEFINE S == m.by.stamps
           stamp(i) == StampIn[m.files[StampPath(S[i])]]
           I == {i \in 1..Len(S) : m.files[StampPath(S[i])] \in DOMAIN StampIn /\ stamp(i) \in T}
           g == [i \in I |-> stamp(i).time]
           times == {t.time : t \in T}
<1>1. m.by \in Spec
  BY ReferencesOf
<1>2. DOMAIN S = 1..Len(S) /\ Len(S) \in Nat
  BY <1>1 DEF Spec
<1>3. IsFiniteSet(1..Len(S))
  BY <1>2, FS_Interval
<1>4. IsFiniteSet(I)
  <2> HIDE DEF stamp
  <2> QED  BY <1>3, FS_Subset
<1>5. m.stamps = {StampPath(S[i]) : i \in 1..Len(S)}
  BY <1>2 DEF TrueManifest
<1>6. \A t \in T : \E i \in I : t = stamp(i)
  <2> SUFFICES ASSUME NEW t \in T PROVE \E i \in I : t = stamp(i)
    OBVIOUS
  <2>1. PICK p \in m.stamps : m.files[p] \in DOMAIN StampIn /\ t = StampIn[m.files[p]]
    BY DEF StampsOf
  <2>2. PICK i \in 1..Len(S) : p = StampPath(S[i])
    BY <1>5
  <2> QED  BY <2>1, <2>2
<1>7. \A t \in T : t.time \in Int
  <2>1. \A t \in StampsOf(m) : t \in TimeEvidence
    BY OfflineAssumption DEF StampsOf
  <2> QED  BY <2>1 DEF TimeEvidence
<1>8. \A i \in I : stamp(i) \in T
  OBVIOUS
<1> HIDE DEF I, stamp
<1>9. g \in Surjection(I, times)
  BY <1>6, <1>8 DEF Surjection
<1> HIDE DEF g, times
<1>10. IsFiniteSet(times)
  BY <1>4, <1>9, FS_Surjection
<1> QED  BY <1>7, <1>10 DEF times

\* The authorities that count are those of the root given to the build.
LEMMA RootOfSources ==
  ASSUME NEW m, TrueManifest(m)
  PROVE  ConfigOf(m.files).tsas = RootIn[m.by.root].tsas
<1> DEFINE spec == m.by
           k == [path |-> TrustRootPath, file |-> m.files[TrustRootPath]]
<1>1. spec \in Spec
  BY ReferencesOf
<1>2. TrustRootPath \in DataFiles(spec)
  BY <1>1, DataFilesAre DEF Material
<1>3. k \in JobsOf(spec)
  BY <1>2 DEF TrueManifest, Written
<1>4. k.path = TrustRootPath /\ k.file = m.files[TrustRootPath]
  OBVIOUS
<1> HIDE DEF k
<1>5. \A s : k # AttestationJob(s) /\ k # StampJob(s)
  <2>1. \A s : TrustRootPath # AttestationPath(s) /\ TrustRootPath # StampPath(s)
    BY DEF AttestationPath, StampPath, PathOf, TrustRootPath
  <2>2. \A s : AttestationJob(s).path = AttestationPath(s) /\ StampJob(s).path = StampPath(s)
    BY DEF AttestationJob, StampJob
  <2> QED  BY <1>4, <2>1, <2>2
<1>6. k.path # PolicyPath /\ k.path # RevocationPath
  <2>1. TrustRootPath # PolicyPath /\ TrustRootPath # RevocationPath
    BY DEF TrustRootPath, PolicyPath, RevocationPath
  <2> QED  BY <1>4, <2>1
<1>7. JobsOf(spec) = {[path |-> PolicyPath, file |-> spec.policy],
                      [path |-> TrustRootPath, file |-> spec.root],
                      [path |-> RevocationPath, file |-> spec.feed]}
        \cup {AttestationJob(spec.attestations[i]) : i \in DOMAIN spec.attestations}
        \cup {StampJob(spec.stamps[i]) : i \in DOMAIN spec.stamps}
  BY <1>1, JobsAre
<1>8. k = [path |-> TrustRootPath, file |-> spec.root]
  BY <1>3, <1>5, <1>6, <1>7
<1> QED  BY <1>4, <1>8 DEF ConfigOf, LoadedConfig

\* In a bundle nobody wrote to meanwhile what a compromised key signed is
\* cleared by a genuine earlier stamp given to the build and by nothing else,
\* and convicted only by a genuine one.
THEOREM ClassesRestOnStamps == OfflineSpec => []ClassesJustified
<1>1. OfflineInv => ClassesJustified
  <2> DEFINE m == verify.manifest
             cfg == verify.cfg
             comp(e) == cfg.feed.events[VerifyEnvelope(e, KnownKeys(cfg)).acceptedKey].comp
             early(e) == {s \in Proofs(m.by, e) : s.time < comp(e)}
  <2> SUFFICES ASSUME OfflineInv, Settled, NEW r \in verify.results, r.revoked
               PROVE  /\ r.class = "unaffected" => early(r.envelope) # {}
                      /\ r.class = "affected" => Proofs(m.by, r.envelope) # {}
                      /\ DistinctPaths(m.by) =>
                           /\ r.class = "affected" => early(r.envelope) = {}
                           /\ r.class = "insufficient" => Proofs(m.by, r.envelope) = {}
    BY DEF ClassesJustified
  <2>1. /\ TrueManifest(m) /\ cfg = ConfigOf(m.files) /\ IsConfig(cfg)
        /\ verify.results = {JudgeRef(cfg, verify.query, m, ref) : ref \in m.evidence}
    BY DEF OfflineInv, Settled, RunOK, QuietRun
  <2>2. PICK ref \in m.evidence : r = JudgeRef(cfg, verify.query, m, ref)
    BY <2>1
  <2> DEFINE e == r.envelope
             sig == VerifyEnvelope(e, KnownKeys(cfg))
             T == {t \in StampsOf(m) : Proves(t, e, cfg)}
             times == {t.time : t \in T}
  <2>3. /\ sig.valid /\ IsRevoked(cfg.feed, sig.acceptedKey)
        /\ r.class = Classify(cfg.feed, sig.acceptedKey, times)
    <3>1. r.envelope = EnvelopeIn[m.files[ref.path]]
      BY <2>2 DEF JudgeRef, Judge
    <3> QED  BY <2>2, <3>1 DEF JudgeRef, Judge
  <2>4. cfg.feed # NoFeed => IsFeed(cfg.feed)
    BY <2>1 DEF IsConfig
  <2> HIDE DEF m, cfg
  <2>5. IsFiniteSet(times) /\ times \subseteq Int
    BY <2>1, StampTimes
  <2>6. cfg.tsas = RootIn[m.by.root].tsas
    BY <2>1, RootOfSources
  <2>7. T \subseteq Proofs(m.by, e)
    BY <2>1, <2>6, StampsOfSources DEF Proofs, Proves
  <2>8. DistinctPaths(m.by) => T = Proofs(m.by, e)
    BY <2>1, <2>6, StampsOfSources DEF Proofs, Proves
  <2> DEFINE key == sig.acceptedKey
             feed == cfg.feed
  <2> HIDE DEF T, e, sig
  <2>9. /\ r.class = "insufficient" <=> times = {}
        /\ r.class = "unaffected" <=> \E t \in times : t < feed.events[key].comp
    <3> HIDE DEF times, key, feed
    <3>1. /\ Classify(feed, key, times) = "insufficient" <=> IsRevoked(feed, key) /\ times = {}
          /\ Classify(feed, key, times) = "unaffected"
               <=> ~ IsRevoked(feed, key) \/ \E t \in times : t < feed.events[key].comp
      BY <2>4, <2>5, ClassByEarliest DEF feed
    <3> QED  BY <2>3, <3>1 DEF key, feed
  <2>10. comp(e) = feed.events[key].comp
    BY DEF sig
  <2>11. /\ r.class = "insufficient" <=> T = {}
         /\ r.class = "unaffected" <=> \E t \in T : t.time < comp(e)
    BY <2>9, <2>10
  <2> HIDE DEF comp
  <2> QED  BY <2>7, <2>8, <2>11 DEF e
<1> QED  BY <1>1, OfflineInductive, PTL
=============================================================================
