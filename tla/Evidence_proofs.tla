--------------------------- MODULE Evidence_proofs ---------------------------
(***************************************************************************)
(* Lemmas on the pure checks, used wherever the gate, the review or the    *)
(* offline bundle apply them.                                              *)
(***************************************************************************)
EXTENDS Verdict, Impact, TLAPS, SequenceTheorems

-----------------------------------------------------------------------------
(* Types of what the pure checks return.                                   *)

\* The accepted key is one of the signers, and the statement is the content's.
LEMMA VerifyEnvelopeType ==
  ASSUME NEW e \in Envelopes, NEW known
  PROVE  VerifyEnvelope(e, known) \in
           [valid : BOOLEAN, acceptedKey : Keys \cup {NoKey}, st : Statement \cup {NoStatement}]
<1> DEFINE env == Content[e]
<1>1. env \in EnvelopeContent
  BY EvidenceAssumption
<1> DEFINE Sig == [signer : Keys \cup {NoKey}, keyid : Keys \cup {NoKey}]
<1> HIDE DEF env
<1>a. env.sigs \in Seq(Sig)
  BY <1>1 DEF EnvelopeContent
<1>b. \A i \in DOMAIN env.sigs : env.sigs[i] \in Sig
  <2> HIDE DEF Sig
  <2> QED  BY <1>a, SMT
<1>2. \A i \in DOMAIN env.sigs : env.sigs[i].signer \in Keys \cup {NoKey}
  BY <1>b
<1>3. env.st \in Statement \cup {NoStatement}
  BY <1>1 DEF EnvelopeContent
<1> QED  BY <1>2, <1>3 DEF VerifyEnvelope, env

LEMMA ProvenanceType ==
  ASSUME NEW st \in Statement \cup {NoStatement}
  PROVE  ProvenanceOf(st) \in Provenance \cup {NoProvenance}
  BY DEF ProvenanceOf, Statement

LEMMA VerifyOneType ==
  ASSUME NEW cfg, NEW e \in Envelopes, NEW name, NEW sha, NEW now
  PROVE  VerifyOne(cfg, e, name, sha, now) \in Result
<1> DEFINE sig == VerifyEnvelope(e, KnownKeys(cfg))
           prov == ProvenanceOf(sig.st)
<1>1. sig \in [valid : BOOLEAN, acceptedKey : Keys \cup {NoKey}, st : Statement \cup {NoStatement}]
  BY VerifyEnvelopeType
<1>2. prov \in Provenance \cup {NoProvenance}
  BY <1>1, ProvenanceType
<1> HIDE DEF sig
<1>3. prov # NoProvenance =>
        [builder |-> prov.builder, uri |-> prov.uri, commit |-> prov.commit] \in Origins
  BY <1>2 DEF Provenance, Origins
<1> QED  BY <1>1, <1>3, Zenon DEF VerifyOne, Result, sig, VerifySubjectDigest, DigestMismatch, IsRevoked, IssuerTrusted, PolicyAllows

LEMMA DeclaredPinsType ==
  ASSUME NEW cfg, NEW e \in Envelopes
  PROVE  DeclaredPins(cfg, e) \in Seq(Pin)
<1> DEFINE prov == ProvenanceOf(VerifyEnvelope(e, KnownKeys(cfg)).st)
<1>1. prov \in Provenance \cup {NoProvenance}
  BY VerifyEnvelopeType, ProvenanceType
<1>2. prov # NoProvenance => PinsOf(prov) \in Seq(Pin)
  <2> HIDE DEF prov
  <2> SUFFICES ASSUME prov # NoProvenance PROVE PinsOf(prov) \in Seq(Pin)
    OBVIOUS
  <2> DEFINE D == [name : Names, digest : DigestMap]
  <2>1. prov.deps \in Seq(D)
    BY <1>1 DEF Provenance
  <2>2. \A d \in D : [name |-> d.name, sha |-> d.digest.sha256] \in Pin
    BY DEF Pin, DigestMap
  <2> HIDE DEF D
  <2>3. [i \in DOMAIN prov.deps |-> [name |-> prov.deps[i].name,
                                     sha  |-> prov.deps[i].digest.sha256]] \in Seq(Pin)
    <3>1. \A i \in DOMAIN prov.deps : prov.deps[i] \in D
      BY <2>1, SMT
    <3>2. DOMAIN prov.deps = 1..Len(prov.deps) /\ Len(prov.deps) \in Nat
      BY <2>1
    <3> QED  BY <3>1, <3>2, <2>2, IsASeq
  <2> QED  BY <2>3 DEF PinsOf
<1>3. CASE prov = NoProvenance
  BY <1>3 DEF PinsOf, DeclaredPins
<1> QED  BY <1>2, <1>3 DEF DeclaredPins

\* What passes for revoked is in the feed.
LEMMA ClassifyType ==
  ASSUME NEW feed, NEW key, NEW times
  PROVE  Classify(feed, key, times) \in Classes
  BY DEF Classify, Classes

\* The signer of a valid signature is a known key.
LEMMA InvalidSignature ==
  ASSUME NEW e, NEW known
  PROVE  LET sig == VerifyEnvelope(e, known)
         IN  ~ sig.valid => sig.acceptedKey = NoKey /\ sig.st = NoStatement
  BY DEF VerifyEnvelope
=============================================================================
