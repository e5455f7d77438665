------------------------------ MODULE Verdict ------------------------------
(***************************************************************************)
(* verifier.verifyOne and the aggregation in Verifier.Verify: from one     *)
(* request's attestations to allow / deny / needs_review.                  *)
(***************************************************************************)
EXTENDS Evidence

Decisions == {"allow", "deny", "needs_review"}

(* One attestation.  Revocation is looked up only for a well formed        *)
(* statement; a revoked key also counts as an untrusted issuer, so the     *)
(* policy sees it too.                                                     *)
VerifyOne(cfg, e, name, sha, now) ==
  LET sig     == VerifyEnvelope(e, KnownKeys(cfg))
      prov    == ProvenanceOf(sig.st)
      matched == VerifySubjectDigest(sig.st, name, sha)
      revoked == sig.st # NoStatement /\ IsRevoked(cfg.feed, sig.acceptedKey)
      trusted == IssuerTrusted(cfg, sig.acceptedKey, prov) /\ ~ revoked
  IN  [signatureValid |-> sig.valid,
       acceptedKey    |-> sig.acceptedKey,
       issuerTrusted  |-> trusted,
       policyAllowed  |-> PolicyAllows(cfg.policy,
                            [signatureValid |-> sig.valid, issuerTrusted |-> trusted,
                             digestMatch |-> matched], prov, now),
       digestMatch    |-> matched,
       mismatch       |-> DigestMismatch(sig.st, name, sha),
       revoked        |-> revoked,
       origin         |-> IF prov = NoProvenance THEN NoProvenance
                          ELSE [builder |-> prov.builder, uri |-> prov.uri,
                                commit |-> prov.commit]]

Origins == [builder : Builders, uri : Sources, commit : Commits \cup {NoCommit}]

Result == [signatureValid : BOOLEAN, acceptedKey : Keys \cup {NoKey}, issuerTrusted : BOOLEAN,
           policyAllowed : BOOLEAN, digestMatch : BOOLEAN, mismatch : BOOLEAN,
           revoked : BOOLEAN, origin : Origins \cup {NoProvenance}]

(* The pinned inputs the attestation declares, as dependency edges name    *)
(* them: the sha256 text as it stands (not lower-cased), else a text with  *)
(* the algorithm in front, which is no artifact's sha256: NoDigest.        *)
PinsOf(prov) ==
  IF prov = NoProvenance THEN <<>>
  ELSE [i \in DOMAIN prov.deps |-> [name |-> prov.deps[i].name,
                                    sha  |-> prov.deps[i].digest.sha256]]

DeclaredPins(cfg, e) == PinsOf(ProvenanceOf(VerifyEnvelope(e, KnownKeys(cfg)).st))

Pin == [name : Names, sha : Digests \cup {NoDigest}]

-----------------------------------------------------------------------------
(* One request: rs is the sequence of its VerifyOne results.               *)

FullyPassed(r) ==
  /\ ~ r.revoked
  /\ r.signatureValid /\ r.issuerTrusted /\ r.policyAllowed /\ r.digestMatch

Passed(rs) == {i \in DOMAIN rs : FullyPassed(rs[i])}

\* Two attestations conflict when both pass every check and yet name another
\* builder or another pinned source.
ConflictWith(rs, i) ==
  {j \in Passed(rs) : i \in Passed(rs) /\ rs[j].origin # rs[i].origin}

Conflict(rs) == \E i \in DOMAIN rs : ConflictWith(rs, i) # {}

Decision(rs) ==
  IF Passed(rs) = {} \/ \E i \in DOMAIN rs : rs[i].revoked \/ rs[i].mismatch
  THEN "deny"
  ELSE IF Conflict(rs) THEN "needs_review" ELSE "allow"

\* What the row keeps about each attestation; ids are their row ids.
Verdicts(rs, ids) ==
  [i \in DOMAIN rs |->
     [attestation    |-> ids[i],
      signatureValid |-> rs[i].signatureValid,
      issuerTrusted  |-> rs[i].issuerTrusted,
      policyAllowed  |-> rs[i].policyAllowed,
      digestMatch    |-> rs[i].digestMatch,
      conflictWith   |-> {ids[j] : j \in ConflictWith(rs, i)}]]
=============================================================================
