--------------------------- MODULE Impact_proofs ---------------------------
(***************************************************************************)
(* Lemmas on classes and on the sets that links taint and connect: what    *)
(* more evidence, and more links, can and cannot change.                   *)
(***************************************************************************)
EXTENDS Evidence_proofs, FiniteSetTheorems, WellFoundedInduction

-----------------------------------------------------------------------------
(* Least elements.  A set of naturals has one because < is well-founded;   *)
(* a finite set of integers because a sequence that lists it is finite.    *)

Below == {ss \in Nat \X Nat : ss[1] < ss[2]}

LEMMA BelowWellFounded == IsWellFoundedOn(Below, Nat)
  BY NatLessThanWellFounded DEF OpToRel, Below

LEMMA LeastOfNaturals ==
  ASSUME NEW T, T \subseteq Nat, T # {}
  PROVE  \E m \in T : \A n \in T : m <= n
<1>1. \E m \in T : \A n \in T : ~ (<<n, m>> \in Below)
  BY BelowWellFounded, WFMin
<1>2. PICK m \in T : \A n \in T : ~ (<<n, m>> \in Below)
  BY <1>1
<1>3. ASSUME NEW n \in T PROVE m <= n
  <2>1. <<n, m>> \in Nat \X Nat /\ <<n, m>> \notin Below
    BY <1>2
  <2>2. ~ n < m
    BY <2>1 DEF Below
  <2>3. n \in Nat /\ m \in Nat
    OBVIOUS
  <2> QED  BY <2>2, <2>3
<1> QED  BY <1>3

LEMMA LeastOfFinite ==
  ASSUME NEW S, S \subseteq Int, S # {}, IsFiniteSet(S)
  PROVE  \E m \in S : \A x \in S : m <= x
<1>1. PICK seq \in Seq(S) : \A s \in S : \E n \in 1..Len(seq) : seq[n] = s
  BY DEF IsFiniteSet
<1> DEFINE T == {n \in 0..Len(seq) : \E x \in S : \A i \in (n + 1)..Len(seq) : x <= seq[i]}
<1>a. Len(seq) \in Nat /\ \A i \in 1..Len(seq) : seq[i] \in S
  OBVIOUS
<1>2. Len(seq) \in Nat /\ \A i \in 1..Len(seq) : seq[i] \in Int /\ seq[i] \in S
  BY <1>a
<1>3. Len(seq) \in T
  <2>1. Len(seq) \in 0..Len(seq) /\ (Len(seq) + 1)..Len(seq) = {}
    BY <1>2
  <2> QED  BY <2>1
<1>4. T \subseteq Nat /\ T # {}
  BY <1>2, <1>3
<1> HIDE DEF T
<1>5. PICK n \in T : \A m \in T : n <= m
  BY <1>4, LeastOfNaturals
<1> USE DEF T
<1>6. n \in 0..Len(seq) /\ \E x \in S : \A i \in (n + 1)..Len(seq) : x <= seq[i]
  BY <1>5
<1>7. PICK x \in S : \A i \in (n + 1)..Len(seq) : x <= seq[i]
  BY <1>6
<1>8. n = 0
  <2>1. SUFFICES ASSUME n # 0 PROVE FALSE
    OBVIOUS
  <2>2. n \in 1..Len(seq) /\ n - 1 \in 0..Len(seq) /\ (n - 1) + 1 = n
    BY <1>2, <1>6, <2>1
  <2>3. \E y \in S : y <= x /\ y <= seq[n]
    <3>1. x \in Int /\ seq[n] \in Int /\ seq[n] \in S
      BY <1>2, <2>2
    <3>2. CASE x <= seq[n]
      BY <3>1, <3>2
    <3>3. CASE ~ x <= seq[n]
      BY <3>1, <3>3
    <3> QED  BY <3>2, <3>3
  <2>4. PICK y \in S : y <= x /\ y <= seq[n]
    BY <2>3
  <2>5. \A i \in ((n - 1) + 1)..Len(seq) : y <= seq[i]
    BY <1>2, <1>7, <2>2, <2>4
  <2>6. n - 1 \in T
    BY <2>2, <2>5
  <2>7. n <= n - 1
    <3> HIDE DEF T
    <3> QED  BY <1>5, <2>6
  <2> QED  BY <2>2, <2>7
<1>9. \A i \in 1..Len(seq) : x <= seq[i]
  BY <1>7, <1>8
<1> QED  BY <1>1, <1>9

-----------------------------------------------------------------------------
(* Classes.  More evidence takes away doubt and guilt, never adds either.  *)

LEMMA ClassByEarliest ==
  ASSUME NEW feed, NEW key, NEW times, times \subseteq Int, IsFiniteSet(times),
         feed # NoFeed => IsFeed(feed)
  PROVE  /\ Classify(feed, key, times) = "insufficient" <=> IsRevoked(feed, key) /\ times = {}
         /\ Classify(feed, key, times) = "unaffected"
              <=> ~ IsRevoked(feed, key) \/ \E t \in times : t < feed.events[key].comp
<1>1. CASE ~ IsRevoked(feed, key) \/ times = {}
  BY <1>1 DEF Classify
<1>2. CASE IsRevoked(feed, key) /\ times # {}
  <2> DEFINE earliest == CHOOSE t \in times : \A u \in times : t <= u
             comp     == feed.events[key].comp
  <2>1. earliest \in times /\ \A u \in times : earliest <= u
    BY <1>2, LeastOfFinite
  <2>2. comp \in Int
    BY <1>2 DEF IsRevoked, Revoked, IsFeed
  <2> HIDE DEF earliest, comp
  <2>3. earliest < comp <=> \E t \in times : t < comp
    BY <2>1, <2>2
  <2>4. Classify(feed, key, times) = IF earliest < comp THEN "unaffected" ELSE "affected"
    BY <1>2 DEF Classify, earliest, comp
  <2> QED  BY <1>2, <2>3, <2>4 DEF comp
<1> QED  BY <1>1, <1>2

LEMMA ClassifyMonotone ==
  ASSUME NEW feed, NEW key, feed # NoFeed => IsFeed(feed),
         NEW later, later \subseteq Int, IsFiniteSet(later), NEW times, times \subseteq later
  PROVE  /\ Classify(feed, key, times) = "unaffected" => Classify(feed, key, later) = "unaffected"
         /\ Classify(feed, key, later) = "insufficient" => Classify(feed, key, times) = "insufficient"
<1>1. IsFiniteSet(times) /\ times \subseteq Int
  BY FS_Subset
<1>2. /\ Classify(feed, key, times) = "insufficient" <=> IsRevoked(feed, key) /\ times = {}
      /\ Classify(feed, key, times) = "unaffected"
           <=> ~ IsRevoked(feed, key) \/ \E t \in times : t < feed.events[key].comp
  BY <1>1, ClassByEarliest
<1>3. /\ Classify(feed, key, later) = "insufficient" <=> IsRevoked(feed, key) /\ later = {}
      /\ Classify(feed, key, later) = "unaffected"
           <=> ~ IsRevoked(feed, key) \/ \E t \in later : t < feed.events[key].comp
  BY ClassByEarliest
<1> QED  BY <1>2, <1>3

LEMMA AggregateMeans ==
  ASSUME NEW classes, classes \subseteq Classes
  PROVE  /\ Aggregate(classes) \in Classes
         /\ Aggregate(classes) = "affected" <=> "affected" \in classes
         /\ Aggregate(classes) = "unaffected" => classes = {"unaffected"}
  BY DEF Aggregate, Classes

-----------------------------------------------------------------------------
(* Taint and connection.                                                   *)

LEMMA TaintedHoldsSeed ==
  ASSUME NEW seed, NEW links, NEW nodes
  PROVE  /\ seed \cap nodes \subseteq Tainted(seed, links, nodes)
         /\ Tainted(seed, links, nodes) \subseteq nodes
  BY DEF Tainted

LEMMA TaintedFollowsLinks ==
  ASSUME NEW seed, NEW links, NEW nodes, NEW l \in links,
         l.target \in Tainted(seed, links, nodes), l.owner \in nodes
  PROVE  l.owner \in Tainted(seed, links, nodes)
  BY DEF Tainted

LEMMA TaintedIsLeast ==
  ASSUME NEW seed, NEW links, NEW nodes, NEW C, C \subseteq nodes, seed \subseteq C,
         \A l \in links : l.target \in C /\ l.owner \in nodes => l.owner \in C
  PROVE  Tainted(seed, links, nodes) \subseteq C
  BY DEF Tainted

LEMMA TaintedGrows ==
  ASSUME NEW seed, NEW links, NEW nodes, seed \subseteq nodes,
         NEW seed2, NEW links2, NEW nodes2,
         seed \subseteq seed2, links \subseteq links2, nodes \subseteq nodes2
  PROVE  Tainted(seed, links, nodes) \subseteq Tainted(seed2, links2, nodes2)
<1> DEFINE Closed(C) == /\ seed2 \subseteq C
                        /\ \A l \in links2 : l.target \in C /\ l.owner \in nodes2 => l.owner \in C
<1> SUFFICES ASSUME NEW n \in Tainted(seed, links, nodes), NEW C \in SUBSET nodes2, Closed(C)
             PROVE  n \in C
  BY DEF Tainted
<1>1. C \cap nodes \subseteq nodes /\ seed \subseteq C \cap nodes
  OBVIOUS
<1>2. \A l \in links : l.target \in C \cap nodes /\ l.owner \in nodes => l.owner \in C \cap nodes
  OBVIOUS
<1> HIDE DEF Closed
<1>3. Tainted(seed, links, nodes) \subseteq C \cap nodes
  BY <1>1, <1>2, TaintedIsLeast
<1> QED  BY <1>3

LEMMA ConnectedHoldsRoot ==
  ASSUME NEW links, NEW nodes, NEW root \in nodes
  PROVE  /\ root \in Connected(root, links, nodes)
         /\ Connected(root, links, nodes) \subseteq nodes
  BY DEF Connected

LEMMA ConnectedFollowsLinks ==
  ASSUME NEW root, NEW links, NEW nodes, NEW l \in links, l.target \in nodes, l.owner \in nodes
  PROVE  l.target \in Connected(root, links, nodes) <=> l.owner \in Connected(root, links, nodes)
  BY DEF Connected

LEMMA ConnectedIsLeast ==
  ASSUME NEW root, NEW links, NEW nodes, NEW C, C \subseteq nodes, root \in C,
         \A l \in links : l.target \in nodes /\ l.owner \in nodes => (l.target \in C <=> l.owner \in C)
  PROVE  Connected(root, links, nodes) \subseteq C
  BY DEF Connected

LEMMA ConnectedGrows ==
  ASSUME NEW links, NEW nodes, NEW root \in nodes, NEW links2, NEW nodes2,
         links \subseteq links2, nodes \subseteq nodes2
  PROVE  Connected(root, links, nodes) \subseteq Connected(root, links2, nodes2)
<1> DEFINE Closed(C) == /\ root \in C
                        /\ \A l \in links2 : l.target \in nodes2 /\ l.owner \in nodes2 =>
                             (l.target \in C <=> l.owner \in C)
<1> SUFFICES ASSUME NEW n \in Connected(root, links, nodes), NEW C \in SUBSET nodes2, Closed(C)
             PROVE  n \in C
  BY DEF Connected
<1>1. C \cap nodes \subseteq nodes /\ root \in C \cap nodes
  OBVIOUS
<1>2. \A l \in links : l.target \in nodes /\ l.owner \in nodes =>
        (l.target \in C \cap nodes <=> l.owner \in C \cap nodes)
  OBVIOUS
<1> HIDE DEF Closed
<1>3. Connected(root, links, nodes) \subseteq C \cap nodes
  BY <1>1, <1>2, ConnectedIsLeast
<1> QED  BY <1>3
=============================================================================
