------------------------------ MODULE Evidence ------------------------------
(***************************************************************************)
(* What the service concludes about ONE submitted attestation, and about   *)
(* the attestations of one request taken together.  Everything here is     *)
(* pure: the state machines of Gate and Review apply these operators under *)
(* the configuration the process was started with.                         *)
(*                                                                         *)
(* An envelope is identified by its canonical SHA-256, a member of         *)
(* Envelopes; Content says what parsing it yields.  Names, digest texts,   *)
(* builder ids and source URIs are opaque values; times are integers.      *)
(***************************************************************************)
EXTENDS Integers, Sequences, FiniteSets

CONSTANTS
  Envelopes,    \* canonical digests of the DSSE envelopes that exist
  Content,      \* what parsing an envelope yields: [Envelopes -> EnvelopeContent]
  Keys,         \* public key fingerprints
  NoKey,        \* the empty key id
  Names,        \* artifact names
  Digests,      \* digest texts that occur in statements
  NoDigest,     \* no digest by that algorithm
  Lower,        \* [Digests -> Digests]: the same text with A-F in lower case
  Builders,     \* builder ids
  Sources,      \* source URIs
  Commits,      \* sha1 / gitCommit digests of a source
  NoCommit,     \* a source that is not pinned by either of them
  NoStatement,  \* the payload is no well formed in-toto statement
  NoProvenance, \* the predicate is no well formed SLSA provenance v1
  NoFeed        \* the process runs without a revocation feed

-----------------------------------------------------------------------------
(* The data.                                                               *)

\* sha256 is the only supported algorithm; "other" stands for all the rest.
\* A subject or dependency without any digest is refused or skipped on parsing.
DigestMap == {d \in [sha256 : Digests \cup {NoDigest}, other : Digests \cup {NoDigest}] :
                d.sha256 # NoDigest \/ d.other # NoDigest}

Provenance == [builder : Builders,
               uri     : Sources,
               commit  : Commits \cup {NoCommit},
               deps    : Seq([name : Names, digest : DigestMap])]

\* NoProvenance also for a statement whose predicate type is not SLSA v1.
Statement == [subjects   : SUBSET [name : Names, digest : DigestMap],
              provenance : Provenance \cup {NoProvenance}]

\* "unparseable": no JSON envelope, or payload, payloadType or signatures
\* missing; "wrongType": payloadType is not in-toto; "undecodable": payload
\* or a signature is not base64.  signer is the key whose signature it really
\* is (NoKey: nobody's), keyid the id it claims (NoKey: none).
EnvelopeContent ==
  [form : {"unparseable", "wrongType", "undecodable", "ok"},
   sigs : Seq([signer : Keys \cup {NoKey}, keyid : Keys \cup {NoKey}]),
   st   : Statement \cup {NoStatement}]

\* id stands for the policy's id and version together.
Policy == [id       : STRING, builders : SUBSET Builders, sources : SUBSET Sources,
           from     : Int, until : Int]

\* A revocation feed: per revoked key when it was compromised, and whether the
\* event carries the public key itself.
IsFeed(f) ==
  /\ f.version \in Nat
  /\ DOMAIN f.events \subseteq Keys
  /\ f.events \in [DOMAIN f.events -> [comp : Int, pem : BOOLEAN]]

\* What the process was started with: the trust root (anchored keys with the
\* issuer each is bound to, time stamp authorities), the keys registered as
\* known but untrusted, the policy and the revocation feed.
IsConfig(c) ==
  /\ DOMAIN c.anchors \subseteq Keys /\ c.anchors # <<>>
  /\ c.anchors \in [DOMAIN c.anchors -> Builders]
  /\ c.untrusted \subseteq Keys
  /\ c.tsas \subseteq Keys
  /\ c.policy \in Policy
  /\ c.feed # NoFeed => IsFeed(c.feed)

ASSUME EvidenceAssumption ==
  /\ Content \in [Envelopes -> EnvelopeContent]
  /\ Lower \in [Digests -> Digests]
  /\ \A d \in Digests : Lower[Lower[d]] = Lower[d]
  /\ NoKey \notin Keys /\ NoDigest \notin Digests /\ NoCommit \notin Commits
  /\ NoStatement \notin Statement /\ NoProvenance \notin Provenance

-----------------------------------------------------------------------------
Revoked(feed) == IF feed = NoFeed THEN {} ELSE DOMAIN feed.events

\* The keys signatures are checked with: a revoked key stays known when its
\* event carries it, even after the trust root dropped it.
KnownKeys(cfg) ==
  DOMAIN cfg.anchors \cup cfg.untrusted
    \cup {k \in Revoked(cfg.feed) : cfg.feed.events[k].pem}

(* (1) Signature validity: a key the server knows has signed the envelope, *)
(* and the signature claims either no key id or that key's.  The first     *)
(* accepted signature, in envelope order, names the accepted key.          *)

VerifyEnvelope(e, known) ==
  LET env        == Content[e]
      accepts(s) == s.signer \in known /\ s.keyid \in {NoKey, s.signer}
      first      == {i \in DOMAIN env.sigs :
                       accepts(env.sigs[i]) /\ \A j \in 1..(i - 1) : ~ accepts(env.sigs[j])}
      valid      == env.form = "ok" /\ first # {}
  IN  [valid       |-> valid,
       acceptedKey |-> IF valid THEN env.sigs[CHOOSE i \in first : TRUE].signer ELSE NoKey,
       st          |-> IF valid THEN env.st ELSE NoStatement]

ProvenanceOf(st) == IF st = NoStatement THEN NoProvenance ELSE st.provenance

(* (2) Issuer trust: the accepted key is anchored and bound to the builder *)
(* the provenance claims.                                                  *)

\* (Mutant: the builder the key is bound to is not compared.)
IssuerAnchored(cfg, key, prov) == key \in DOMAIN cfg.anchors /\ prov # NoProvenance

IssuerTrusted(cfg, key, prov) ==
  /\ key \in DOMAIN cfg.anchors
  /\ prov # NoProvenance
  /\ cfg.anchors[key] = prov.builder

(* The live revocation gate: any event for the key closes it.              *)

\* (Mutant: only events that carry the key itself count.)
IsRevokedWithKey(feed, key) == key \in Revoked(feed) /\ feed.events[key].pem

IsRevoked(feed, key) == key \in Revoked(feed)

(* (4) The digest gate compares only the subjects of the artifact's name,  *)
(* and only their sha256, with the digest recomputed from the bytes.       *)

Targets(st, name) ==
  IF st = NoStatement THEN {} ELSE {s \in st.subjects : s.name = name}

Claims(s) == s.digest.sha256 # NoDigest

VerifySubjectDigest(st, name, sha) ==
  LET matches(s) == Claims(s) /\ Lower[s.digest.sha256] = sha
  IN  /\ \E s \in Targets(st, name) : matches(s)
      /\ \A s \in Targets(st, name) : Claims(s) => matches(s)

\* The request-wide alarm: a hard reject, or a target subject with a digest
\* that differs from the recomputed one.  A digest by an algorithm that is
\* not supported is recorded with an empty recomputed digest, hence differs.
DigestMismatch(st, name, sha) ==
  \/ ~ VerifySubjectDigest(st, name, sha)
  \/ \E s \in Targets(st, name) : s.digest.other # NoDigest

(* (3) The Rego policy: allow iff there is no violation.                   *)

PolicyAllows(pol, pre, prov, now) ==
  /\ pre.signatureValid /\ pre.issuerTrusted /\ pre.digestMatch
  /\ prov # NoProvenance
  /\ prov.builder \in pol.builders
  /\ prov.uri \in pol.sources
  /\ prov.commit # NoCommit
  /\ pol.from <= now /\ now < pol.until
=============================================================================
