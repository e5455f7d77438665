---------------------------- MODULE ImpactReview ----------------------------
(***************************************************************************)
(* What the historical review promises, without its walk, its queue and    *)
(* its sweep: somebody inquires about an artifact; at one moment the       *)
(* inquiry is concluded with a report within the bounds of Conclusions;    *)
(* then the report is published, one row per artifact, each once and just  *)
(* as concluded.  The tables only ever grow.  Review implements this.      *)
(***************************************************************************)
EXTENDS Conclusions

CONSTANT Inquirers

VARIABLE inquiry      \* per inquirer: what was asked and what was known then,
                      \* or the class of every artifact and those to publish

inquirySystem == <<config, storeVars, inquiry>>

NoInquiry == [stage |-> "idle"]

InquiryInit == inquiry = [w \in Inquirers |-> NoInquiry]

Open(w, a) ==
  /\ inquiry[w] = NoInquiry
  /\ a \in artifacts
  /\ inquiry' = [inquiry EXCEPT ![w] = [stage |-> "open", root |-> a, began |-> Known]]
  /\ UNCHANGED <<config, storeVars>>

Called(report, class) == {a \in DOMAIN report : report[a] = class}

Sound(report, root, began) ==
  /\ Covers(DOMAIN report, root, began)
  /\ JustlyConvicted(Called(report, "affected"), began)
  /\ NoneSpared(Called(report, "affected"), root, began)
  /\ JustlyCleared(Called(report, "unaffected"), began)

Conclude(w) ==
  /\ inquiry[w].stage = "open"
  /\ \E reviewed \in SUBSET artifacts : \E report \in [reviewed -> Classes] :
       /\ inquiry' = [inquiry EXCEPT ![w] =
                        [stage |-> "concluded", report |-> report, unpublished |-> reviewed]]
       /\ Sound(report, inquiry[w].root, inquiry[w].began)
  /\ UNCHANGED <<config, storeVars>>

\* The row of an artifact says allow, deny or needs_review by its class alone.
\* Only an artifact without a conclusion may lack a valid signature.
Published(a, class, signed) ==
  [kind |-> "review", artifact |-> a,
   decision |-> CASE class = "unaffected"   -> "allow"
                  [] class = "affected"     -> "deny"
                  [] class = "insufficient" -> "needs_review",
   signatureValid |-> signed, issuerTrusted |-> signed,
   policyAllowed |-> class # "affected", digestMatch |-> TRUE, class |-> class,
   feedVersion |-> IF config.feed = NoFeed THEN 0 ELSE config.feed.version,
   verdicts |-> <<>>]

Publish(w) ==
  LET q == inquiry[w]
  IN  /\ q.stage = "concluded"
      /\ \E a \in q.unpublished, signed \in BOOLEAN :
           /\ q.report[a] # "insufficient" => signed
           /\ SaveVerification(Published(a, q.report[a], signed))
           /\ inquiry' = [inquiry EXCEPT ![w] =
                            IF q.unpublished = {a} THEN NoInquiry
                            ELSE [q EXCEPT !.unpublished = @ \ {a}]]
      /\ UNCHANGED <<config, artifacts, attestations, dependencies, timeEvidence,
                     policies, revocationEvents>>

Abandon(w) ==
  /\ inquiry[w] # NoInquiry
  /\ inquiry' = [inquiry EXCEPT ![w] = NoInquiry]
  /\ UNCHANGED <<config, storeVars>>

\* Everything else the server does: rows are added to the tables, no review
\* row among them, and none is changed or removed (but the record of
\* revocation events, which reviews do not read).
Learn ==
  /\ UNCHANGED <<config, inquiry>>
  /\ artifacts \subseteq artifacts'
  /\ Kept(attestations, attestations')
  /\ Kept(dependencies, dependencies')
  /\ timeEvidence \subseteq timeEvidence'
  /\ policies \subseteq policies'
  /\ Kept(verifications, verifications')
  /\ \A n \in DOMAIN verifications' \ DOMAIN verifications : verifications'[n].kind = "gate"

\* The process ends, with all inquiries, and starts again as it likes.
Restart ==
  /\ inquiry' = [w \in Inquirers |-> NoInquiry]
  /\ UNCHANGED storeVars

InquiryNext ==
  \/ Learn
  \/ \E w \in Inquirers :
       \/ \E a \in artifacts : Open(w, a)
       \/ Conclude(w)
       \/ Publish(w)
       \/ Abandon(w)
  \/ Restart

InquirySpec == InquiryInit /\ [][InquiryNext]_inquirySystem
=============================================================================
