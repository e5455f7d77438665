------------------------------ MODULE Service -------------------------------
(***************************************************************************)
(* The whole server over its life: the process loads a configuration,      *)
(* records the revocation events of its feed, then serves verify, review   *)
(* and time-evidence requests concurrently until it stops or crashes; what *)
(* PostgreSQL holds survives, what handlers and memory hold does not.      *)
(***************************************************************************)
EXTENDS Gate, Review

CONSTANTS
  Releases,      \* the configurations operators deploy, in order
  MaxStarts      \* bound: starts of the process

VARIABLES
  phase,         \* "down", "booting" or "up"
  release,       \* which of Releases the process was last started with
  unrecorded,    \* keys of the feed whose event is still to be recorded
  starts         \* starts so far

serverVars == <<phase, release, unrecorded, starts>>
vars == <<config, storeVars, gateVars, reviewVars, serverVars>>

ASSUME ServiceAssumption ==
  /\ Releases \in Seq(Configs) /\ Releases # <<>>
  /\ MaxStarts \in Nat

ServiceInit ==
  /\ StoreInit
  /\ config = Releases[1]
  /\ verify = [w \in Verifiers |-> NoRequest] /\ admitted = 0
  /\ review = [w \in Reviewers |-> NoReview] /\ opened = 0
  /\ phase = "down" /\ release = 1 /\ unrecorded = {} /\ starts = 0

-----------------------------------------------------------------------------
(* The life of the process.                                                *)

\* A start loads the release in force, or a later one, from its files.
\* (Mutants: a process that serves may load one, with its handlers in flight;
\* a start records the feed of the release but gates by the one before.)
Reload ==
  /\ phase \in {"down", "up"}
  /\ starts < MaxStarts
  /\ starts' = starts + 1
  /\ \E n \in release..Len(Releases) :
       /\ release' = n
       /\ config' = Releases[n]
       /\ unrecorded' = Revoked(Releases[n].feed)
  /\ phase' = "booting"
  /\ UNCHANGED <<storeVars, gateVars, reviewVars>>

StartBehind ==
  /\ phase = "down"
  /\ starts < MaxStarts
  /\ starts' = starts + 1
  /\ \E n \in release..Len(Releases) :
       release' = n /\ unrecorded' = Revoked(Releases[n].feed)
  /\ phase' = "booting"
  /\ UNCHANGED <<config, storeVars, gateVars, reviewVars>>

Start ==
  /\ phase = "down"
  /\ starts < MaxStarts
  /\ starts' = starts + 1
  /\ \E n \in release..Len(Releases) :
       /\ release' = n
       /\ config' = Releases[n]
       /\ unrecorded' = Revoked(Releases[n].feed)
  /\ phase' = "booting"
  /\ UNCHANGED <<storeVars, gateVars, reviewVars>>

\* Each event is one statement; the version recorded is the whole feed's.
RecordEvent(k) ==
  /\ phase = "booting"
  /\ k \in unrecorded
  /\ UpsertRevocationEvent(k, [comp |-> config.feed.events[k].comp,
                               version |-> config.feed.version])
  /\ unrecorded' = unrecorded \ {k}
  /\ UNCHANGED <<config, artifacts, attestations, dependencies, timeEvidence, policies,
                 verifications, gateVars, reviewVars, phase, release, starts>>

Serve ==
  /\ phase = "booting"
  /\ unrecorded = {}
  /\ phase' = "up"
  /\ UNCHANGED <<config, storeVars, gateVars, reviewVars, release, unrecorded, starts>>

\* A fatal error at boot, a crash, or a shutdown that gives up on handlers.
Crash ==
  /\ phase # "down"
  /\ phase' = "down"
  /\ unrecorded' = {}
  /\ verify' = [w \in Verifiers |-> NoRequest]
  /\ review' = [w \in Reviewers |-> NoReview]
  /\ UNCHANGED <<config, storeVars, admitted, opened, release, starts>>

ServiceNext ==
  \/ phase = "up" /\ GateNext /\ UNCHANGED <<reviewVars, serverVars>>
  \/ phase = "up" /\ ReviewNext /\ UNCHANGED <<gateVars, serverVars>>
  \/ Start
  \/ \E k \in unrecorded : RecordEvent(k)
  \/ Serve
  \/ Crash

ServiceSpec == ServiceInit /\ [][ServiceNext]_vars

-----------------------------------------------------------------------------
(* Invariants.                                                             *)

\* The parts are well typed and the server's own variables have their types.
ServiceTypeOK ==
  /\ GateTypeOK /\ ReviewTypeOK
  /\ phase \in {"down", "booting", "up"}
  /\ release \in DOMAIN Releases /\ config = Releases[release]
  /\ unrecorded \subseteq Revoked(config.feed)
  /\ starts \in Nat

\* While requests are served, every event of the loaded feed is on record as
\* that feed states it, even after boots that died half way.
ServingImpliesRecorded ==
  phase = "up" =>
    \A k \in Revoked(config.feed) :
      /\ k \in DOMAIN revocationEvents
      /\ revocationEvents[k] = [comp |-> config.feed.events[k].comp,
                                version |-> config.feed.version]

\* A gate verdict on record before a review began is fully used by it: if the
\* review reaches the artifact, it reaches every pinned input that some
\* validly signed attestation of the verdict declares and that was registered
\* by then, and an affected one taints the artifact if the signer is anchored.
VerdictsFeedReviews ==
  \A w \in Reviewers : Settled(w) =>
    LET v == review[w]
    IN  \A n \in 1..v.began.rows \cap GateRows :
          verifications[n].artifact \in Reviewed(v) =>
            \A i \in DOMAIN verifications[n].verdicts :
              LET verdict == verifications[n].verdicts[i]
                  id      == verdict.attestation
                  pins    == PinsOf(ProvenanceOf(Content[attestations[id].envelope].st))
              IN  verdict.signatureValid =>
                    \A p \in {pins[k] : k \in DOMAIN pins} \cap v.began.artifacts :
                      /\ p \in Reviewed(v)
                      /\ p \in v.affected /\ ValidSignature(id) /\ Anchored(id) =>
                           verifications[n].artifact \in v.affected

-----------------------------------------------------------------------------
(* Action properties.                                                      *)

\* Every verdict is of one release: it answers one request as the release in
\* force alone would, wherever it is handled between starts and crashes, and
\* the download it allows is justified by that release's trust root, policy
\* and feed.
VerdictsOfReleaseInForce ==
  [][\A n \in DOMAIN verifications' \ DOMAIN verifications :
       verifications'[n].kind = "gate" =>
         \E r \in Requests :
           /\ Answers(config, attestations', verifications'[n], r)
           /\ verifications'[n].decision = "allow" => Justifies(config, r)]_vars

\* Once a release revokes the key, every later one does.
NeverReinstated(k) ==
  \A m, n \in DOMAIN Releases :
    m < n /\ k \in Revoked(Releases[m].feed) => k \in Revoked(Releases[n].feed)

\* Once a key's revocation is on record, no new verdict allows a download on
\* that key's word, whatever restarts and crashes happen, as long as no later
\* release takes the revocation of that very key back; taking back others' (a
\* roll-back to an older feed) does not matter.
RevocationSticks ==
  [][\A n \in DOMAIN verifications' \ DOMAIN verifications :
       verifications'[n].kind = "gate" /\ verifications'[n].decision = "allow" =>
         \A i \in DOMAIN verifications'[n].verdicts :
           verifications'[n].verdicts[i].issuerTrusted =>
             LET key == attestations[verifications'[n].verdicts[i].attestation].acceptedKey
             IN  key \in DOMAIN revocationEvents => ~ NeverReinstated(key)]_vars
=============================================================================
