------------------------------- MODULE Impact -------------------------------
(***************************************************************************)
(* What a compromised signing key means for what it once signed:           *)
(* revocation.List.Classify for one attestation, the class of an artifact  *)
(* from its attestations, and, declaratively, which artifacts a set of     *)
(* dependency links taints and connects.                                   *)
(***************************************************************************)
EXTENDS Evidence

Classes == {"unaffected", "insufficient", "affected"}

\* times are the moments at which a trusted time stamp authority saw the
\* envelope: only the earliest counts, and a stamp at the very moment of the
\* compromise comes too late.
Classify(feed, key, times) ==
  LET earliest == CHOOSE t \in times : \A u \in times : t <= u
  IN  IF ~ IsRevoked(feed, key) THEN "unaffected"
      ELSE IF times = {} THEN "insufficient"
      ELSE IF earliest < feed.events[key].comp THEN "unaffected"
      ELSE "affected"

\* The worst class among the attestations with a valid signature; without any
\* there is nothing to conclude from.
\* (Mutants: the best class; whatever is not cleared is affected.)
AggregateBest(classes) ==
  CASE "unaffected" \in classes   -> "unaffected"
    [] classes = {"affected"}     -> "affected"
    [] OTHER                      -> "insufficient"

AggregateStrict(classes) == IF classes = {"unaffected"} THEN "unaffected" ELSE "affected"

Aggregate(classes) ==
  CASE "affected" \in classes       -> "affected"
    [] classes = {"unaffected"}     -> "unaffected"
    [] OTHER                        -> "insufficient"

-----------------------------------------------------------------------------
(* Links are [owner, target] pairs: owner has target as a pinned input.    *)

\* What seed taints: every set that holds seed and, with an input, whatever
\* was built from it, holds all of them.
Tainted(seed, links, nodes) ==
  {n \in nodes : \A C \in SUBSET nodes :
     /\ seed \subseteq C
     /\ \A l \in links : l.target \in C /\ l.owner \in nodes => l.owner \in C
     => n \in C}

\* What is linked to root, in either direction at every step.
Connected(root, links, nodes) ==
  {n \in nodes : \A C \in SUBSET nodes :
     /\ root \in C
     /\ \A l \in links : l.target \in nodes /\ l.owner \in nodes =>
                           (l.target \in C <=> l.owner \in C)
     => n \in C}

\* What root is built from, and what is built from root, as sets of links
\* followed in one direction only.
Upstream(root, links, nodes) ==
  {n \in nodes : \A C \in SUBSET nodes :
     /\ root \in C
     /\ \A l \in links : l.owner \in C /\ l.target \in nodes => l.target \in C
     => n \in C}

Downstream(root, links, nodes) == Tainted({root}, links, nodes)
=============================================================================
