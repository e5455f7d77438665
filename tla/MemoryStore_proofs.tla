------------------------ MODULE MemoryStore_proofs ------------------------
(***************************************************************************)
(* The store in memory implements the tables of the database, and what it  *)
(* answers is what the database would answer.                              *)
(*                                                                         *)
(* Loops over slices are recursive functions.  What such a loop computes   *)
(* is shown by induction on its position, as the absence of a least        *)
(* counterexample (LeastOfNaturals): first that the function exists, then  *)
(* what its values are.                                                    *)
(***************************************************************************)
EXTENDS MemoryStore, Impact_proofs

-----------------------------------------------------------------------------
(* Induction along a loop.                                                 *)

LEMMA Along ==
  ASSUME NEW G, NEW N \in Nat, 0 \in G, \A k \in 1..N : k - 1 \in G => k \in G
  PROVE  \A n \in 0..N : n \in G
<1> DEFINE T == {n \in 0..N : n \notin G}
<1>1. SUFFICES ASSUME T # {} PROVE FALSE
  OBVIOUS
<1>2. T \subseteq Nat
  OBVIOUS
<1> HIDE DEF T
<1>3. PICK m \in T : \A n \in T : m <= n
  BY <1>1, <1>2, LeastOfNaturals
<1> USE DEF T
<1>4. m \in 1..N /\ m \notin G
  OBVIOUS
<1>5. m - 1 \in 0..N /\ m - 1 \notin T
  BY <1>3, <1>4
<1> QED  BY <1>4, <1>5

\* A loop that makes the next value from the last one and the position.
IsStep(step, S, N) == step \in [S \X (1..N) -> S]

IsLoop(f, base, step, S, N) ==
  /\ f \in [0..N -> S]
  /\ f[0] = base
  /\ \A k \in 1..N : f[k] = step[<<f[k - 1], k>>]

LEMMA LoopExists ==
  ASSUME NEW S, NEW N \in Nat, NEW base \in S, NEW step, IsStep(step, S, N)
  PROVE  \E f : IsLoop(f, base, step, S, N)
<1>0. step \in [S \X (1..N) -> S]
  BY DEF IsStep
<1> DEFINE Loop(f, n) == /\ f \in [0..n -> S]
                         /\ f[0] = base
                         /\ \A k \in 1..n : f[k] = step[<<f[k - 1], k>>]
           G == {n \in Nat : \E f : Loop(f, n)}
<1>1. 0 \in G
  <2>1. Loop([n \in 0..0 |-> base], 0)
    OBVIOUS
  <2> QED  BY <2>1
<1>2. ASSUME NEW k \in 1..N, k - 1 \in G
      PROVE  k \in G
  <2>1. PICK f : Loop(f, k - 1)
    BY <1>2
  <2> DEFINE g == [n \in 0..k |-> IF n = k THEN step[<<f[k - 1], k>>] ELSE f[n]]
  <2>2. f[k - 1] \in S /\ <<f[k - 1], k>> \in S \X (1..N)
    BY <2>1
  <2>3. step[<<f[k - 1], k>>] \in S
    BY <1>0, <2>2
  <2>4. g \in [0..k -> S]
    BY <2>1, <2>3
  <2>5. g[0] = base
    BY <2>1
  <2>6. ASSUME NEW j \in 1..k PROVE g[j] = step[<<g[j - 1], j>>]
    <3>1. g[j - 1] = f[j - 1]
      BY <2>1
    <3>2. CASE j = k
      <4>1. g[j] = step[<<f[j - 1], j>>]
        BY <3>2
      <4> QED  BY <3>1, <4>1
    <3>3. CASE j # k
      <4>1. j \in 1..(k - 1)
        BY <3>3
      <4>2. g[j] = f[j]
        BY <3>3
      <4>3. f[j] = step[<<f[j - 1], j>>]
        BY <2>1, <4>1
      <4> QED  BY <3>1, <4>2, <4>3
    <3> QED  BY <3>2, <3>3
  <2>7. Loop(g, k)
    BY <2>4, <2>5, <2>6
  <2>8. k \in Nat
    OBVIOUS
  <2> QED  BY <2>7, <2>8
<1> HIDE DEF G
<1>3. N \in G
  BY <1>1, <1>2, Along
<1> USE DEF G
<1> QED  BY <1>3 DEF IsLoop

-----------------------------------------------------------------------------
(* The loop that collects rows.                                            *)

\* out[n] is what the loop has collected after n rows.
Collecting(out, R, slice, positions) ==
  /\ out \in [0..Len(slice) -> Seq(R)]
  /\ Collect(slice, positions) = out[Len(slice)]
  /\ out[0] = <<>>
  /\ \A k \in 1..Len(slice) :
       out[k] = IF k \in positions THEN Append(out[k - 1], slice[k]) ELSE out[k - 1]

LEMMA CollectLoop ==
  ASSUME NEW R, NEW slice \in Seq(R), NEW positions
  PROVE  \E out : Collecting(out, R, slice, positions)
<1> DEFINE N == Len(slice)
           Turn(h) == [n \in 0..N |->
                        IF n = 0 THEN <<>>
                        ELSE IF n \in positions THEN Append(h[n - 1], slice[n]) ELSE h[n - 1]]
           step == [x \in Seq(R) \X (1..N) |->
                      IF x[2] \in positions THEN Append(x[1], slice[x[2]]) ELSE x[1]]
           out == CHOOSE h : h = Turn(h)
<1>1. N \in Nat /\ \A k \in 1..N : slice[k] \in R
  OBVIOUS
<1>2. step \in [Seq(R) \X (1..N) -> Seq(R)]
  BY <1>1
<1>3. <<>> \in Seq(R)
  OBVIOUS
<1>4. \A s \in Seq(R), k \in 1..N :
        step[<<s, k>>] = IF k \in positions THEN Append(s, slice[k]) ELSE s
  OBVIOUS
<1> HIDE DEF step, N
<1> DEFINE S == Seq(R)
           base == <<>>
<1>a. N \in Nat /\ base \in S /\ IsStep(step, S, N)
  BY <1>1, <1>2, <1>3 DEF IsStep
<1> HIDE DEF S, base
<1>b. PICK f : IsLoop(f, base, step, S, N)
  BY <1>a, LoopExists
<1>5. f \in [0..N -> Seq(R)] /\ f[0] = <<>> /\ \A k \in 1..N : f[k] = step[<<f[k - 1], k>>]
  BY <1>b DEF S, base, IsLoop
<1>6. f = Turn(f)
  <2>1. ASSUME NEW k \in 0..N PROVE f[k] = Turn(f)[k]
    <3>1. CASE k = 0
      BY <1>5, <3>1
    <3>2. CASE k # 0
      <4>1. k \in 1..N /\ k - 1 \in 0..N
        BY <1>1, <3>2
      <4>2. f[k] = step[<<f[k - 1], k>>] /\ f[k - 1] \in Seq(R)
        BY <1>5, <4>1
      <4> QED  BY <1>4, <3>2, <4>1, <4>2
    <3> QED  BY <3>1, <3>2
  <2> QED  BY <2>1, <1>5
<1>7. out = Turn(out)
  BY <1>6
<1>8. Collect(slice, positions) = out[N]
  BY DEF Collect, N
<1> HIDE DEF out
<1>9. out[0] = <<>>
  BY <1>1, <1>7
<1>10. ASSUME NEW k \in 1..N
       PROVE  out[k] = IF k \in positions THEN Append(out[k - 1], slice[k]) ELSE out[k - 1]
  <2>1. k \in 0..N /\ k # 0
    BY <1>1
  <2>2. out[k] = Turn(out)[k]
    BY <1>7
  <2> QED  BY <2>1, <2>2
<1>11. \A n \in 0..N : out[n] \in Seq(R)
  <2> DEFINE G == {n \in Nat : out[n] \in Seq(R)}
  <2>1. 0 \in G
    BY <1>3, <1>9
  <2>2. ASSUME NEW k \in 1..N, k - 1 \in G PROVE k \in G
    <3>1. out[k - 1] \in Seq(R) /\ slice[k] \in R /\ k \in Nat
      BY <1>1, <2>2
    <3>2. Append(out[k - 1], slice[k]) \in Seq(R)
      BY <3>1
    <3> QED  BY <1>10, <3>1, <3>2
  <2> HIDE DEF G
  <2>3. \A n \in 0..N : n \in G
    BY <1>1, <2>1, <2>2, Along
  <2> QED  BY <2>3 DEF G
<1>12. out \in [0..N -> Seq(R)]
  BY <1>7, <1>11
<1> QED  BY <1>8, <1>9, <1>10, <1>12 DEF N, Collecting

\* Where row ids are positions, the rows at some positions are collected each
\* once, and in the order of their ids.
LEMMA CollectEnumerates ==
  ASSUME NEW R, NEW slice \in Seq(R), \A i \in DOMAIN slice : slice[i].id = i,
         NEW positions \in SUBSET DOMAIN slice
  PROVE  /\ Collect(slice, positions) \in Seq(R)
         /\ Enumerates(Collect(slice, positions), positions)
         /\ \A r \in Rows(Collect(slice, positions)) : r.id \in positions /\ r = slice[r.id]
<1> DEFINE N == Len(slice)
<1>a. PICK out : Collecting(out, R, slice, positions)
  BY CollectLoop
<1>1. /\ out \in [0..N -> Seq(R)]
      /\ Collect(slice, positions) = out[N]
      /\ out[0] = <<>>
      /\ \A k \in 1..N :
           out[k] = IF k \in positions THEN Append(out[k - 1], slice[k]) ELSE out[k - 1]
  BY <1>a DEF Collecting
<1>2. N \in Nat /\ DOMAIN slice = 1..N
  OBVIOUS
<1> DEFINE Rising(s) == \A i, j \in DOMAIN s : i < j => s[i].id < s[j].id
           Taken(s, n) == \A i \in DOMAIN s :
                            s[i].id \in positions /\ s[i].id <= n /\ s[i] = slice[s[i].id]
           All(s, n) == \A p \in positions : p <= n => \E i \in DOMAIN s : s[i].id = p
           G == {n \in Nat : Rising(out[n]) /\ Taken(out[n], n) /\ All(out[n], n)}
<1>3. 0 \in G
  <2>1. DOMAIN out[0] = {}
    BY <1>1
  <2>2. \A p \in positions : ~ p <= 0
    BY <1>2
  <2> QED  BY <2>1, <2>2
<1>4. ASSUME NEW k \in 1..N, k - 1 \in G
      PROVE  k \in G
  <2> DEFINE s == out[k - 1]
             t == out[k]
  <2>1. s \in Seq(R) /\ Rising(s) /\ Taken(s, k - 1) /\ All(s, k - 1)
    BY <1>1, <1>4
  <2>2. slice[k] \in R /\ slice[k].id = k
    BY <1>2
  <2>3. t = IF k \in positions THEN Append(s, slice[k]) ELSE s
    BY <1>1
  <2>4. \A p \in positions : p \in Nat
    BY <1>2
  <2> HIDE DEF s, t
  <2>5. CASE k \in positions
    <3>1. t = Append(s, slice[k])
      BY <2>3, <2>5
    <3>2. /\ Len(t) = Len(s) + 1 /\ DOMAIN t = 1..(Len(s) + 1) /\ DOMAIN s = 1..Len(s)
          /\ Len(s) \in Nat
          /\ \A i \in 1..Len(s) : t[i] = s[i]
          /\ t[Len(s) + 1] = slice[k]
      BY <2>1, <2>2, <3>1
    <3>3. Rising(t)
      <4> SUFFICES ASSUME NEW i \in DOMAIN t, NEW j \in DOMAIN t, i < j
                   PROVE  t[i].id < t[j].id
        OBVIOUS
      <4>1. i \in 1..Len(s) /\ t[i] = s[i] /\ s[i].id <= k - 1 /\ s[i].id \in Nat
        BY <2>1, <2>4, <3>2
      <4>2. CASE j = Len(s) + 1
        BY <2>2, <3>2, <4>1, <4>2
      <4>3. CASE j # Len(s) + 1
        <5>1. j \in DOMAIN s /\ t[j] = s[j]
          BY <3>2, <4>3
        <5> QED  BY <2>1, <3>2, <4>1, <5>1
      <4> QED  BY <4>2, <4>3
    <3>4. Taken(t, k)
      <4> SUFFICES ASSUME NEW i \in DOMAIN t
                   PROVE  t[i].id \in positions /\ t[i].id <= k /\ t[i] = slice[t[i].id]
        OBVIOUS
      <4>1. CASE i = Len(s) + 1
        <5>1. t[i] = slice[k]
          BY <3>2, <4>1
        <5> QED  BY <2>2, <2>5, <5>1
      <4>2. CASE i # Len(s) + 1
        <5>1. i \in DOMAIN s /\ t[i] = s[i]
          BY <3>2, <4>2
        <5>2. s[i].id \in positions /\ s[i].id <= k - 1 /\ s[i] = slice[s[i].id]
          BY <2>1, <5>1
        <5>3. s[i].id \in Nat
          BY <2>4, <5>2
        <5> QED  BY <5>1, <5>2, <5>3
      <4> QED  BY <4>1, <4>2
    <3>5. All(t, k)
      <4> SUFFICES ASSUME NEW p \in positions, p <= k
                   PROVE  \E i \in DOMAIN t : t[i].id = p
        OBVIOUS
      <4>1. CASE p = k
        BY <2>2, <3>2, <4>1
      <4>2. CASE p # k
        <5>1. p <= k - 1
          BY <2>4, <4>2
        <5>2. PICK i \in DOMAIN s : s[i].id = p
          BY <2>1, <5>1
        <5>3. i \in DOMAIN t /\ t[i] = s[i]
          BY <3>2
        <5> QED  BY <5>2, <5>3
      <4> QED  BY <4>1, <4>2
    <3> QED  BY <3>3, <3>4, <3>5 DEF t
  <2>6. CASE k \notin positions
    <3>1. t = s
      BY <2>3, <2>6
    <3>2. Taken(t, k)
      <4> SUFFICES ASSUME NEW i \in DOMAIN s
                   PROVE  s[i].id \in positions /\ s[i].id <= k /\ s[i] = slice[s[i].id]
        BY <3>1
      <4>1. s[i].id \in positions /\ s[i].id <= k - 1 /\ s[i] = slice[s[i].id]
        BY <2>1
      <4> QED  BY <2>4, <4>1
    <3>3. All(t, k)
      <4> SUFFICES ASSUME NEW p \in positions, p <= k
                   PROVE  \E i \in DOMAIN s : s[i].id = p
        BY <3>1
      <4>1. p <= k - 1
        BY <2>4, <2>6
      <4> QED  BY <2>1, <4>1
    <3> QED  BY <2>1, <3>1, <3>2, <3>3 DEF t
  <2> QED  BY <2>5, <2>6
<1> HIDE DEF G
<1>b. \A n \in 0..N : n \in G
  BY <1>2, <1>3, <1>4, Along
<1>5. N \in G
  BY <1>2, <1>b
<1> DEFINE s == Collect(slice, positions)
<1>6. s = out[N] /\ s \in Seq(R)
  BY <1>1, <1>2
<1>7. Rising(s) /\ Taken(s, N) /\ All(s, N)
  BY <1>5, <1>6 DEF G
<1> HIDE DEF s, N
<1>8. Ids(s) = positions
  BY <1>2, <1>7 DEF Ids, Rows
<1>9. Enumerates(s, positions)
  BY <1>7, <1>8 DEF Enumerates
<1>10. \A r \in Rows(s) : r.id \in positions /\ r = slice[r.id]
  BY <1>7 DEF Rows
<1> QED  BY <1>6, <1>9, <1>10 DEF s

-----------------------------------------------------------------------------
(* Rows and the ids they go by.                                            *)

LEMMA NumberedRows ==
  ASSUME NEW R, NEW slice \in Seq(R), NEW n, Numbered(slice, n)
  PROVE  /\ n \in Nat /\ DOMAIN slice = 1..n /\ Len(slice) = n
         /\ Ids(slice) = DOMAIN slice
         /\ \A i \in DOMAIN slice : slice[i].id = i /\ slice[i] \in R /\ slice[i] \in Rows(slice)
         /\ \A r \in Rows(slice) : r \in R /\ r.id \in DOMAIN slice /\ slice[r.id] = r
<1>1. Len(slice) = n /\ \A i \in DOMAIN slice : slice[i].id = i
  BY DEF Numbered
<1>2. n \in Nat /\ DOMAIN slice = 1..n /\ \A i \in DOMAIN slice : slice[i] \in R
  BY <1>1
<1>3. \A r : r \in Rows(slice) <=> \E i \in DOMAIN slice : r = slice[i]
  BY DEF Rows
<1>4. \A i \in DOMAIN slice : slice[i] \in Rows(slice)
  BY <1>3
<1>5. \A r \in Rows(slice) : r \in R /\ r.id \in DOMAIN slice /\ slice[r.id] = r
  BY <1>1, <1>2, <1>3
<1>6. Ids(slice) = DOMAIN slice
  BY <1>1, <1>4, <1>5 DEF Ids
<1> QED  BY <1>1, <1>2, <1>4, <1>5, <1>6

LEMMA Appended ==
  ASSUME NEW R, NEW slice \in Seq(R), NEW n, Numbered(slice, n), NEW r \in R, r.id = n + 1
  PROVE  /\ Append(slice, r) \in Seq(R)
         /\ Numbered(Append(slice, r), n + 1)
         /\ DOMAIN Append(slice, r) = 1..(n + 1)
         /\ DOMAIN Append(slice, r) = DOMAIN slice \cup {n + 1}
         /\ Append(slice, r)[n + 1] = r
         /\ \A i \in DOMAIN slice : Append(slice, r)[i] = slice[i]
         /\ Rows(Append(slice, r)) = Rows(slice) \cup {r}
         /\ Ids(Append(slice, r)) = Ids(slice) \cup {n + 1}
<1> DEFINE t == Append(slice, r)
<1>1. n \in Nat /\ Len(slice) = n /\ DOMAIN slice = 1..n /\ Ids(slice) = DOMAIN slice
      /\ \A i \in DOMAIN slice : slice[i].id = i
  BY NumberedRows
<1>2. t \in Seq(R) /\ Len(t) = n + 1 /\ DOMAIN t = 1..(n + 1)
  BY <1>1
<1>3. t[n + 1] = r /\ \A i \in 1..n : t[i] = slice[i]
  BY <1>1
<1> HIDE DEF t
<1>4. Numbered(t, n + 1)
  BY <1>1, <1>2, <1>3 DEF Numbered
<1>5. DOMAIN t = DOMAIN slice \cup {n + 1}
  BY <1>1, <1>2
<1>6. Rows(t) = Rows(slice) \cup {r}
  <2>1. ASSUME NEW x PROVE x \in Rows(t) <=> x \in Rows(slice) \cup {r}
    BY <1>1, <1>3, <1>5 DEF Rows
  <2> QED  BY <2>1
<1>7. Ids(t) = Ids(slice) \cup {n + 1}
  <2>1. Ids(t) = DOMAIN t
    BY <1>2, <1>4, NumberedRows
  <2> QED  BY <1>1, <1>5, <2>1
<1> QED  BY <1>1, <1>2, <1>3, <1>4, <1>5, <1>6, <1>7 DEF t

\* The rows of g are those of f, of which there are n, and r.
OneMore(f, g, n, r) ==
  /\ f = [i \in 1..n |-> f[i]]
  /\ g = [i \in 1..(n + 1) |-> g[i]]
  /\ \A i \in 1..n : g[i] = f[i]
  /\ g[n + 1] = r

LEMMA OneMoreIsAppend ==
  ASSUME NEW n \in Nat, NEW f, NEW g, NEW r, OneMore(f, g, n, r)
  PROVE  g = Append(f, r) /\ Len(f) = n /\ Len(g) = n + 1
<1>0. /\ f = [i \in 1..n |-> f[i]] /\ g = [i \in 1..(n + 1) |-> g[i]]
      /\ DOMAIN f = 1..n /\ DOMAIN g = 1..(n + 1)
      /\ (\A i \in 1..n : g[i] = f[i]) /\ g[n + 1] = r
  BY DEF OneMore
<1> DEFINE S == {f[i] : i \in 1..n} \cup {g[n + 1]}
<1>1. f \in Seq(S) /\ Len(f) = n
  <2>1. f \in [1..n -> S]
    BY <1>0
  <2> QED  BY <2>1
<1>2. g \in Seq(S) /\ Len(g) = n + 1
  <2>1. \A i \in 1..(n + 1) : g[i] \in S
    <3>1. ASSUME NEW i \in 1..(n + 1) PROVE g[i] \in S
      <4>1. CASE i = n + 1
        BY <4>1
      <4>2. CASE i # n + 1
        <5>1. i \in 1..n
          BY <4>2
        <5> QED  BY <1>0, <5>1
      <4> QED  BY <4>1, <4>2
    <3> QED  BY <3>1
  <2> HIDE DEF S
  <2>2. g \in [1..(n + 1) -> S]
    BY <1>0, <2>1
  <2> QED  BY <2>2
<1>3. g[n + 1] \in S
  OBVIOUS
<1> DEFINE h == Append(f, g[n + 1])
<1>4. h \in Seq(S) /\ Len(h) = n + 1 /\ DOMAIN h = 1..(n + 1)
      /\ (\A i \in 1..n : h[i] = f[i]) /\ h[n + 1] = g[n + 1]
  <2> HIDE DEF S
  <2> QED  BY <1>1, <1>3
<1> HIDE DEF h
<1>5. ASSUME NEW i \in 1..(n + 1) PROVE h[i] = g[i]
  <2>1. i = n + 1 \/ i \in 1..n
    OBVIOUS
  <2> QED  BY <1>0, <1>4, <2>1
<1>6. h = [i \in 1..(n + 1) |-> h[i]]
  BY <1>4
<1>7. h = g
  BY <1>0, <1>5, <1>6
<1> QED  BY <1>0, <1>1, <1>2, <1>7 DEF h

LEMMA FieldTypes ==
  ASSUME NEW m \in Fields
  PROVE  /\ m.artifacts \in Seq(ArtifactRecord)
         /\ m.attestations \in Seq(AttestationRecord)
         /\ m.verifs \in Seq(Verification)
         /\ m.verifAttests \in Seq(Seq(Tables!VerdictRow))
         /\ m.revocationEvents \in Seq(RevocationEventRecord)
         /\ m.trustedTimeEvidence \in Seq(TimeEvidenceRecord)
         /\ m.dependencies \in Seq(DependencyEdge)
  BY DEF Fields

\* The row found under an id.
LEMMA ArtifactById ==
  ASSUME NEW m, MemoryOK(m), NEW id \in Ids(m.artifacts)
  PROVE  /\ id \in DOMAIN m.artifacts /\ m.artifacts[id].id = id
         /\ m.artifacts[id] \in ArtifactRecord
         /\ GetArtifactByID(m, id) = <<m.artifacts[id]>>
         /\ ArtifactOf(m, id) = ArtifactRow(m.artifacts[id])
<1> DEFINE slice == m.artifacts
           found == {i \in DOMAIN slice : slice[i].id = id}
<1>1. slice \in Seq(ArtifactRecord) /\ Numbered(slice, m.artifactSeq)
  BY FieldTypes DEF MemoryOK, Counted
<1>2. /\ id \in DOMAIN slice
      /\ \A i \in DOMAIN slice : slice[i].id = i /\ slice[i] \in ArtifactRecord /\ i \in Nat
  <2> HIDE DEF slice
  <2>1. /\ m.artifactSeq \in Nat /\ DOMAIN slice = 1..m.artifactSeq /\ Ids(slice) = DOMAIN slice
        /\ \A i \in DOMAIN slice : slice[i].id = i /\ slice[i] \in ArtifactRecord
    BY <1>1, NumberedRows
  <2> QED  BY <2>1 DEF slice
<1>3. found = {id}
  BY <1>2
<1> HIDE DEF found
<1>4. First(found) = id
  BY <1>2, <1>3 DEF First
<1>5. GetArtifactByID(m, id) = <<slice[id]>>
  BY <1>3, <1>4 DEF GetArtifactByID, FirstRow, found
<1>6. ArtifactOf(m, id) = ArtifactRow(slice[id])
  BY <1>5 DEF ArtifactOf
<1> QED  BY <1>2, <1>5, <1>6

\* Artifacts of two ids are two artifacts.
LEMMA ArtifactOfInjective ==
  ASSUME NEW m, MemoryOK(m), NEW i \in Ids(m.artifacts), NEW j \in Ids(m.artifacts),
         ArtifactOf(m, i) = ArtifactOf(m, j)
  PROVE  i = j
<1>1. /\ ArtifactOf(m, i) = ArtifactRow(m.artifacts[i]) /\ i \in DOMAIN m.artifacts
      /\ m.artifacts[i].id = i
  BY ArtifactById
<1>2. /\ ArtifactOf(m, j) = ArtifactRow(m.artifacts[j]) /\ j \in DOMAIN m.artifacts
      /\ m.artifacts[j].id = j
  BY ArtifactById
<1>3. m.artifacts[i] \in Rows(m.artifacts) /\ m.artifacts[j] \in Rows(m.artifacts)
  BY <1>1, <1>2 DEF Rows
<1>4. SameArtifact(m.artifacts[i], m.artifacts[j])
  <2>1. ArtifactRow(m.artifacts[i]) = ArtifactRow(m.artifacts[j])
    BY <1>1, <1>2
  <2>2. \A r, s : ArtifactRow(r) = ArtifactRow(s) => r.name = s.name /\ r.sha = s.sha
    BY DEF ArtifactRow
  <2> QED  BY <2>1, <2>2 DEF SameArtifact
<1>5. \A r, s \in Rows(m.artifacts) : SameArtifact(r, s) => r = s
  BY DEF MemoryOK, Unique
<1> QED  BY <1>1, <1>2, <1>3, <1>4, <1>5

-----------------------------------------------------------------------------
(* What the tables stand on.                                               *)

LEMMA SameArtifactsOf ==
  ASSUME NEW m, NEW x, x.artifacts = m.artifacts
  PROVE  \A id : ArtifactOf(x, id) = ArtifactOf(m, id)
  BY DEF ArtifactOf, GetArtifactByID

LEMMA RowsReferred ==
  ASSUME NEW m, MemoryOK(m)
  PROVE  /\ \A i \in DOMAIN m.attestations : m.attestations[i].artifactId \in Ids(m.artifacts)
         /\ \A i \in DOMAIN m.verifs : m.verifs[i].artifactId \in Ids(m.artifacts)
                                    /\ m.verifs[i].id = i
         /\ \A i \in DOMAIN m.dependencies :
              /\ m.dependencies[i].artifactId \in Ids(m.artifacts)
              /\ m.dependencies[i].attestationId \in Ids(m.attestations)
<1>1. Referred(m) /\ Numbered(m.verifs, m.verifSeq)
  BY DEF MemoryOK, Counted
<1>2. \A i \in DOMAIN m.verifs : m.verifs[i].id = i
  BY <1>1 DEF Numbered
<1> QED  BY <1>1, <1>2 DEF Referred, Rows

\* A table is what it was where its slice is, and the artifacts are found that
\* its rows refer to.
LEMMA TablesKept ==
  ASSUME NEW m, MemoryOK(m), NEW x,
         \A id \in Ids(m.artifacts) : ArtifactOf(x, id) = ArtifactOf(m, id)
  PROVE  /\ x.artifacts = m.artifacts => ArtifactTable(x) = ArtifactTable(m)
         /\ x.attestations = m.attestations => AttestationTable(x) = AttestationTable(m)
         /\ x.dependencies = m.dependencies => DependencyTable(x) = DependencyTable(m)
         /\ x.trustedTimeEvidence = m.trustedTimeEvidence
              => TimeEvidenceTable(x) = TimeEvidenceTable(m)
         /\ x.policies = m.policies => PolicyTable(x) = PolicyTable(m)
         /\ /\ x.verifs = m.verifs
            /\ \A i \in DOMAIN m.verifs : x.verifAttests[i] = m.verifAttests[i]
            => VerificationTable(x) = VerificationTable(m)
         /\ x.revocationEvents = m.revocationEvents => RevocationTable(x) = RevocationTable(m)
<1>1. /\ \A i \in DOMAIN m.attestations : m.attestations[i].artifactId \in Ids(m.artifacts)
      /\ \A i \in DOMAIN m.verifs : m.verifs[i].artifactId \in Ids(m.artifacts)
                                 /\ m.verifs[i].id = i
      /\ \A i \in DOMAIN m.dependencies : m.dependencies[i].artifactId \in Ids(m.artifacts)
  BY RowsReferred
<1>2. x.artifacts = m.artifacts => ArtifactTable(x) = ArtifactTable(m)
  BY DEF ArtifactTable
<1>3. ASSUME x.attestations = m.attestations
      PROVE  AttestationTable(x) = AttestationTable(m)
  <2>1. \A i \in DOMAIN m.attestations :
          AttestationOf(x, m.attestations[i]) = AttestationOf(m, m.attestations[i])
    BY <1>1 DEF AttestationOf
  <2> QED  BY <1>3, <2>1 DEF AttestationTable
<1>4. ASSUME x.dependencies = m.dependencies
      PROVE  DependencyTable(x) = DependencyTable(m)
  <2>1. \A i \in DOMAIN m.dependencies :
          EdgeOf(x, m.dependencies[i]) = EdgeOf(m, m.dependencies[i])
    BY <1>1 DEF EdgeOf
  <2> QED  BY <1>4, <2>1 DEF DependencyTable
<1>5. x.trustedTimeEvidence = m.trustedTimeEvidence
        => TimeEvidenceTable(x) = TimeEvidenceTable(m)
  BY DEF TimeEvidenceTable
<1>6. x.policies = m.policies => PolicyTable(x) = PolicyTable(m)
  BY DEF PolicyTable
<1>7. ASSUME x.verifs = m.verifs,
             \A i \in DOMAIN m.verifs : x.verifAttests[i] = m.verifAttests[i]
      PROVE  VerificationTable(x) = VerificationTable(m)
  <2>1. ASSUME NEW i \in DOMAIN m.verifs
        PROVE  VerificationOf(x, m.verifs[i], x.verifAttests[m.verifs[i].id])
                 = VerificationOf(m, m.verifs[i], m.verifAttests[m.verifs[i].id])
    <3>1. x.verifAttests[m.verifs[i].id] = m.verifAttests[m.verifs[i].id]
      BY <1>1, <1>7
    <3>2. ArtifactOf(x, m.verifs[i].artifactId) = ArtifactOf(m, m.verifs[i].artifactId)
      BY <1>1
    <3> QED  BY <3>1, <3>2 DEF VerificationOf
  <2> QED  BY <1>7, <2>1 DEF VerificationTable
<1>8. x.revocationEvents = m.revocationEvents => RevocationTable(x) = RevocationTable(m)
  BY DEF RevocationTable
<1> QED  BY <1>2, <1>3, <1>4, <1>5, <1>6, <1>7, <1>8

-----------------------------------------------------------------------------
(* Writes, one by one.                                                     *)

LEMMA EnsureArtifactNew ==
  ASSUME NEW m, MemoryOK(m), NEW a \in Upload,
         \A i \in DOMAIN m.artifacts : ~ SameArtifact(m.artifacts[i], a),
         NEW r, r = [id |-> m.artifactSeq + 1, name |-> a.name, sha |-> a.sha],
         NEW x \in Fields,
         x.artifactSeq = m.artifactSeq + 1, x.artifacts = Append(m.artifacts, r),
         x.attestSeq = m.attestSeq, x.attestations = m.attestations,
         x.verifSeq = m.verifSeq, x.verifs = m.verifs, x.verifAttests = m.verifAttests,
         x.tteSeq = m.tteSeq, x.trustedTimeEvidence = m.trustedTimeEvidence,
         x.depSeq = m.depSeq, x.dependencies = m.dependencies,
         x.policies = m.policies, x.revocationEvents = m.revocationEvents
  PROVE  /\ MemoryOK(x)
         /\ ArtifactTable(x) = ArtifactTable(m) \cup {a}
         /\ ArtifactOf(x, m.artifactSeq + 1) = a
         /\ \A i \in Ids(m.artifacts) : ArtifactOf(x, i) = ArtifactOf(m, i)
<1> DEFINE slice == m.artifacts
           t == x.artifacts
           id == m.artifactSeq + 1
<1>1. m \in Fields /\ Counted(m) /\ Referred(m) /\ Unique(m)
  BY DEF MemoryOK
<1>2. slice \in Seq(ArtifactRecord) /\ Numbered(slice, m.artifactSeq)
  BY <1>1, FieldTypes DEF Counted
<1>3. m.artifactSeq \in Nat /\ id \in Nat
  BY <1>1 DEF Fields
<1>4. r \in ArtifactRecord /\ r.id = id /\ ArtifactRow(r) = a /\ r.name = a.name /\ r.sha = a.sha
  BY <1>3 DEF ArtifactRecord, Upload, ArtifactRow
<1>5. /\ t \in Seq(ArtifactRecord) /\ Numbered(t, id)
      /\ Rows(t) = Rows(slice) \cup {r} /\ Ids(t) = Ids(slice) \cup {id}
      /\ DOMAIN t = DOMAIN slice \cup {id} /\ t[id] = r
      /\ \A i \in DOMAIN slice : t[i] = slice[i]
  <2> HIDE DEF slice
  <2> QED  BY <1>2, <1>4, Appended DEF slice
<1> HIDE DEF t, slice, id
<1>8. Counted(x)
  BY <1>1, <1>5 DEF Counted, t, id
<1>9. Referred(x)
  BY <1>1, <1>5 DEF Referred, slice, t
<1>10. Unique(x)
  <2>1. \A s \in Rows(slice) : ~ SameArtifact(s, r) /\ ~ SameArtifact(r, s)
    <3>1. \A s \in Rows(slice) : ~ SameArtifact(s, a)
      BY DEF Rows, slice
    <3> QED  BY <1>4, <3>1 DEF SameArtifact
  <2>2. \A s1, s2 \in Rows(slice) : SameArtifact(s1, s2) => s1 = s2
    BY <1>1 DEF Unique, slice
  <2>3. \A s1, s2 \in Rows(t) : SameArtifact(s1, s2) => s1 = s2
    BY <1>5, <2>1, <2>2
  <2> QED  BY <1>1, <2>3 DEF Unique, t
<1>11. MemoryOK(x)
  BY <1>8, <1>9, <1>10 DEF MemoryOK
<1>12. ArtifactTable(x) = ArtifactTable(m) \cup {a}
  <2>1. Rows(x.artifacts) = Rows(m.artifacts) \cup {r}
    BY <1>5 DEF t, slice
  <2> QED  BY <1>4, <2>1 DEF ArtifactTable
<1>13. ASSUME NEW i \in Ids(t) PROVE i \in DOMAIN t /\ ArtifactOf(x, i) = ArtifactRow(t[i])
  BY <1>11, ArtifactById DEF t
<1>14. ASSUME NEW i \in Ids(slice) PROVE ArtifactOf(x, i) = ArtifactOf(m, i)
  <2>1. i \in DOMAIN slice /\ ArtifactOf(m, i) = ArtifactRow(slice[i])
    BY ArtifactById DEF slice
  <2> QED  BY <1>5, <1>13, <2>1
<1>15. ArtifactOf(x, id) = a
  BY <1>4, <1>5, <1>13
<1> QED  BY <1>11, <1>12, <1>14, <1>15 DEF slice, id

LEMMA AddAttestationRow ==
  ASSUME NEW m, MemoryOK(m), NEW r \in AttestationRecord, r.id = m.attestSeq + 1,
         r.artifactId \in Ids(m.artifacts),
         NEW x \in Fields,
         x.attestSeq = m.attestSeq + 1, x.attestations = Append(m.attestations, r),
         x.artifactSeq = m.artifactSeq, x.artifacts = m.artifacts,
         x.verifSeq = m.verifSeq, x.verifs = m.verifs, x.verifAttests = m.verifAttests,
         x.tteSeq = m.tteSeq, x.trustedTimeEvidence = m.trustedTimeEvidence,
         x.depSeq = m.depSeq, x.dependencies = m.dependencies,
         x.policies = m.policies, x.revocationEvents = m.revocationEvents
  PROVE  /\ MemoryOK(x)
         /\ AttestationTable(x) = Append(AttestationTable(m), AttestationOf(m, r))
         /\ Len(AttestationTable(m)) = m.attestSeq
<1> DEFINE slice == m.attestations
           t == x.attestations
           id == m.attestSeq + 1
<1>1. m \in Fields /\ Counted(m) /\ Referred(m) /\ Unique(m)
  BY DEF MemoryOK
<1>2. slice \in Seq(AttestationRecord) /\ Numbered(slice, m.attestSeq)
  BY <1>1, FieldTypes DEF Counted
<1>3. m.attestSeq \in Nat
  BY <1>1 DEF Fields
<1>4. /\ t \in Seq(AttestationRecord) /\ Numbered(t, id)
      /\ Rows(t) = Rows(slice) \cup {r} /\ Ids(t) = Ids(slice) \cup {id}
      /\ DOMAIN t = 1..id /\ t[id] = r
      /\ \A i \in DOMAIN slice : t[i] = slice[i]
  <2> HIDE DEF slice
  <2> QED  BY <1>2, Appended DEF slice
<1>5. DOMAIN slice = 1..m.attestSeq /\ Len(slice) = m.attestSeq
  <2> HIDE DEF slice
  <2> QED  BY <1>2, NumberedRows
<1> HIDE DEF t, slice, id
<1>6. Counted(x)
  BY <1>1, <1>4 DEF Counted, t, id
<1>7. Referred(x)
  BY <1>1, <1>4 DEF Referred, slice, t
<1>8. Unique(x)
  BY <1>1 DEF Unique
<1>9. MemoryOK(x)
  BY <1>6, <1>7, <1>8 DEF MemoryOK
<1>10. \A i : ArtifactOf(x, i) = ArtifactOf(m, i)
  BY SameArtifactsOf
<1>11. \A s : AttestationOf(x, s) = AttestationOf(m, s)
  BY <1>10 DEF AttestationOf
<1>12. AttestationTable(m) = [i \in 1..m.attestSeq |-> AttestationOf(m, slice[i])]
  BY <1>5 DEF AttestationTable, slice
<1>13. AttestationTable(x) = [i \in 1..(m.attestSeq + 1) |-> AttestationOf(m, t[i])]
  BY <1>4, <1>11 DEF AttestationTable, t, id
<1>14. \A i \in 1..m.attestSeq : AttestationTable(x)[i] = AttestationTable(m)[i]
  <2>1. \A i \in 1..m.attestSeq : t[i] = slice[i] /\ i \in 1..(m.attestSeq + 1)
    BY <1>3, <1>4, <1>5
  <2> QED  BY <1>12, <1>13, <2>1
<1>15. AttestationTable(x)[m.attestSeq + 1] = AttestationOf(m, r)
  <2>1. m.attestSeq + 1 \in 1..(m.attestSeq + 1)
    BY <1>3
  <2> QED  BY <1>4, <1>13, <2>1 DEF id
<1>16. OneMore(AttestationTable(m), AttestationTable(x), m.attestSeq, AttestationOf(m, r))
  BY <1>12, <1>13, <1>14, <1>15 DEF OneMore
<1>17. /\ AttestationTable(x) = Append(AttestationTable(m), AttestationOf(m, r))
       /\ Len(AttestationTable(m)) = m.attestSeq
  BY <1>3, <1>16, OneMoreIsAppend
<1> QED  BY <1>9, <1>17

-----------------------------------------------------------------------------
(* Edges: one insertion, then all of a call.                               *)

\* Only the edges and their counter have changed.
OnlyEdges(m, x) ==
  /\ x.artifactSeq = m.artifactSeq /\ x.artifacts = m.artifacts
  /\ x.attestSeq = m.attestSeq /\ x.attestations = m.attestations
  /\ x.verifSeq = m.verifSeq /\ x.verifs = m.verifs /\ x.verifAttests = m.verifAttests
  /\ x.tteSeq = m.tteSeq /\ x.trustedTimeEvidence = m.trustedTimeEvidence
  /\ x.policies = m.policies /\ x.revocationEvents = m.revocationEvents

LEMMA EdgeAppended ==
  ASSUME NEW m, MemoryOK(m), NEW r \in DependencyEdge, r.id = m.depSeq + 1,
         r.artifactId \in Ids(m.artifacts), r.attestationId \in Ids(m.attestations),
         NEW x \in Fields, OnlyEdges(m, x),
         x.depSeq = m.depSeq + 1, x.dependencies = Append(m.dependencies, r)
  PROVE  /\ MemoryOK(x)
         /\ DependencyTable(x) = Append(DependencyTable(m), EdgeOf(m, r))
<1> DEFINE slice == m.dependencies
           t == x.dependencies
           id == m.depSeq + 1
<1>1. m \in Fields /\ Counted(m) /\ Referred(m) /\ Unique(m)
  BY DEF MemoryOK
<1>2. slice \in Seq(DependencyEdge) /\ Numbered(slice, m.depSeq)
  BY <1>1, FieldTypes DEF Counted
<1>3. m.depSeq \in Nat
  BY <1>1 DEF Fields
<1>4. /\ t \in Seq(DependencyEdge) /\ Numbered(t, id)
      /\ Rows(t) = Rows(slice) \cup {r} /\ Ids(t) = Ids(slice) \cup {id}
      /\ DOMAIN t = 1..id /\ t[id] = r
      /\ \A i \in DOMAIN slice : t[i] = slice[i]
  <2> HIDE DEF slice
  <2> QED  BY <1>2, Appended DEF slice
<1>5. DOMAIN slice = 1..m.depSeq /\ Len(slice) = m.depSeq
  <2> HIDE DEF slice
  <2> QED  BY <1>2, NumberedRows
<1> HIDE DEF t, slice, id
<1>6. Counted(x)
  BY <1>1, <1>4 DEF Counted, OnlyEdges, t, id
<1>7. Referred(x)
  BY <1>1, <1>4 DEF Referred, OnlyEdges, slice, t
<1>8. Unique(x)
  BY <1>1 DEF Unique, OnlyEdges
<1>9. MemoryOK(x)
  BY <1>6, <1>7, <1>8 DEF MemoryOK
<1>10. \A i : ArtifactOf(x, i) = ArtifactOf(m, i)
  BY SameArtifactsOf DEF OnlyEdges
<1>11. \A s : EdgeOf(x, s) = EdgeOf(m, s)
  BY <1>10 DEF EdgeOf
<1>12. DependencyTable(m) = [i \in 1..m.depSeq |-> EdgeOf(m, slice[i])]
  BY <1>5 DEF DependencyTable, slice
<1>13. DependencyTable(x) = [i \in 1..(m.depSeq + 1) |-> EdgeOf(m, t[i])]
  BY <1>4, <1>11 DEF DependencyTable, t, id
<1>14. \A i \in 1..m.depSeq : DependencyTable(x)[i] = DependencyTable(m)[i]
  <2>1. \A i \in 1..m.depSeq : t[i] = slice[i]
    BY <1>4, <1>5
  <2>2. \A i \in 1..m.depSeq : i \in 1..(m.depSeq + 1)
    BY <1>3
  <2> QED  BY <1>12, <1>13, <2>1, <2>2
<1>15. DependencyTable(x)[m.depSeq + 1] = EdgeOf(m, r)
  <2>1. m.depSeq + 1 \in 1..(m.depSeq + 1)
    BY <1>3
  <2> QED  BY <1>4, <1>13, <2>1 DEF id
<1>16. OneMore(DependencyTable(m), DependencyTable(x), m.depSeq, EdgeOf(m, r))
  BY <1>12, <1>13, <1>14, <1>15 DEF OneMore
<1>17. DependencyTable(x) = Append(DependencyTable(m), EdgeOf(m, r))
  BY <1>3, <1>16, OneMoreIsAppend
<1> QED  BY <1>9, <1>17

\* The loop of the memory and the index of the database find the same edges.
LEMMA SameEdgeFound ==
  ASSUME NEW m, MemoryOK(m), NEW e \in DependencyEdge, e.artifactId \in Ids(m.artifacts)
  PROVE  SameEdge(m, e) <=>
           \E i \in DOMAIN DependencyTable(m) : DependencyTable(m)[i] = EdgeOf(m, e)
<1> DEFINE slice == m.dependencies
<1>1. DOMAIN DependencyTable(m) = DOMAIN slice
      /\ \A i \in DOMAIN slice : DependencyTable(m)[i] = EdgeOf(m, slice[i])
  BY DEF DependencyTable
<1>2. \A i \in DOMAIN slice : slice[i].artifactId \in Ids(m.artifacts)
  BY RowsReferred
<1>3. ASSUME NEW i \in DOMAIN slice
      PROVE  EdgeOf(m, slice[i]) = EdgeOf(m, e) <=>
               /\ slice[i].artifactId = e.artifactId /\ slice[i].attestationId = e.attestationId
               /\ slice[i].name = e.name /\ slice[i].sha = e.sha
  <2> DEFINE d == slice[i]
  <2>1. d.artifactId \in Ids(m.artifacts)
    BY <1>2
  <2>2. ArtifactOf(m, d.artifactId) = ArtifactOf(m, e.artifactId) => d.artifactId = e.artifactId
    BY <2>1, ArtifactOfInjective
  <2>3. EdgeOf(m, d) = EdgeOf(m, e) <=>
          /\ ArtifactOf(m, d.artifactId) = ArtifactOf(m, e.artifactId)
          /\ d.attestationId = e.attestationId /\ d.name = e.name /\ d.sha = e.sha
    <3>1. \A c : /\ EdgeOf(m, c).artifact = ArtifactOf(m, c.artifactId)
                 /\ EdgeOf(m, c).attestation = c.attestationId
                 /\ EdgeOf(m, c).name = c.name /\ EdgeOf(m, c).sha = c.sha
      BY DEF EdgeOf
    <3>2. ASSUME EdgeOf(m, d) = EdgeOf(m, e)
          PROVE  /\ ArtifactOf(m, d.artifactId) = ArtifactOf(m, e.artifactId)
                 /\ d.attestationId = e.attestationId /\ d.name = e.name /\ d.sha = e.sha
      <4> HIDE DEF d
      <4> QED  BY <3>1, <3>2
    <3>3. ASSUME ArtifactOf(m, d.artifactId) = ArtifactOf(m, e.artifactId),
                 d.attestationId = e.attestationId, d.name = e.name, d.sha = e.sha
          PROVE  EdgeOf(m, d) = EdgeOf(m, e)
      <4> HIDE DEF d
      <4> QED  BY <3>3 DEF EdgeOf
    <3> QED  BY <3>2, <3>3
  <2> QED  BY <2>2, <2>3
<1>4. SameEdge(m, e) <=> \E i \in DOMAIN slice : EdgeOf(m, slice[i]) = EdgeOf(m, e)
  BY <1>3 DEF SameEdge
<1> QED  BY <1>1, <1>4

LEMMA AddEdgeInserts ==
  ASSUME NEW m, MemoryOK(m), NEW e \in DependencyEdge,
         e.artifactId \in Ids(m.artifacts), e.attestationId \in Ids(m.attestations)
  PROVE  /\ MemoryOK(AddEdge(m, e)) /\ OnlyEdges(m, AddEdge(m, e))
         /\ DependencyTable(AddEdge(m, e)) = Inserted(DependencyTable(m), EdgeOf(m, e))
<1>1. CASE SameEdge(m, e)
  <2>1. AddEdge(m, e) = m
    BY <1>1 DEF AddEdge
  <2>2. Inserted(DependencyTable(m), EdgeOf(m, e)) = DependencyTable(m)
    BY <1>1, SameEdgeFound DEF Inserted
  <2> QED  BY <2>1, <2>2 DEF OnlyEdges
<1>2. CASE ~ SameEdge(m, e)
  <2> DEFINE r == [e EXCEPT !.id = m.depSeq + 1]
             rows == Append(m.dependencies, r)
             x == AddEdge(m, e)
  <2>1. m \in Fields /\ m.depSeq \in Nat /\ m.dependencies \in Seq(DependencyEdge)
    BY FieldTypes DEF MemoryOK, Fields
  <2>2. /\ r \in DependencyEdge /\ r.id = m.depSeq + 1
        /\ r.artifactId = e.artifactId /\ r.attestationId = e.attestationId
        /\ r.name = e.name /\ r.sha = e.sha
    <3>1. m.depSeq + 1 \in Nat
      BY <2>1
    <3>2. ASSUME NEW n \in Nat
          PROVE  /\ [e EXCEPT !.id = n] \in DependencyEdge /\ [e EXCEPT !.id = n].id = n
                 /\ [e EXCEPT !.id = n].artifactId = e.artifactId
                 /\ [e EXCEPT !.id = n].attestationId = e.attestationId
                 /\ [e EXCEPT !.id = n].name = e.name /\ [e EXCEPT !.id = n].sha = e.sha
      BY DEF DependencyEdge
    <3> QED  BY <3>1, <3>2
  <2>3. EdgeOf(m, r) = EdgeOf(m, e)
    <3> HIDE DEF r
    <3> QED  BY <2>2 DEF EdgeOf
  <2> HIDE DEF r
  <2>4. rows \in Seq(DependencyEdge)
    BY <2>1, <2>2
  <2>5. x = [m EXCEPT !.depSeq = m.depSeq + 1, !.dependencies = rows]
    BY <1>2 DEF AddEdge, r
  <2> HIDE DEF rows, x
  <2>6. x \in Fields /\ OnlyEdges(m, x) /\ x.depSeq = m.depSeq + 1 /\ x.dependencies = rows
    <3>1. m.depSeq + 1 \in Nat
      BY <2>1
    <3>2. x \in Fields
      BY <2>1, <2>4, <2>5, <3>1 DEF Fields
    <3>3. OnlyEdges(m, x)
      BY <2>1, <2>5 DEF Fields, OnlyEdges
    <3>4. x.depSeq = m.depSeq + 1 /\ x.dependencies = rows
      BY <2>1, <2>5 DEF Fields
    <3> QED  BY <3>2, <3>3, <3>4
  <2>7. MemoryOK(x) /\ DependencyTable(x) = Append(DependencyTable(m), EdgeOf(m, r))
    BY <2>2, <2>6, EdgeAppended DEF rows
  <2>8. Inserted(DependencyTable(m), EdgeOf(m, e)) = Append(DependencyTable(m), EdgeOf(m, e))
    BY <1>2, SameEdgeFound DEF Inserted
  <2> QED  BY <2>3, <2>6, <2>7, <2>8 DEF x
<1> QED  BY <1>1, <1>2

LEMMA AddEdgeFields ==
  ASSUME NEW m \in Fields, NEW e \in DependencyEdge
  PROVE  AddEdge(m, e) \in Fields
<1>1. CASE SameEdge(m, e)
  BY <1>1 DEF AddEdge
<1>2. CASE ~ SameEdge(m, e)
  <2> DEFINE r == [e EXCEPT !.id = m.depSeq + 1]
             rows == Append(m.dependencies, r)
  <2>1. m.depSeq + 1 \in Nat /\ m.dependencies \in Seq(DependencyEdge)
    BY FieldTypes DEF Fields
  <2>2. \A n \in Nat : [e EXCEPT !.id = n] \in DependencyEdge
    BY DEF DependencyEdge
  <2>3. r \in DependencyEdge
    BY <2>1, <2>2
  <2> HIDE DEF r
  <2>4. rows \in Seq(DependencyEdge)
    BY <2>1, <2>3
  <2>5. AddEdge(m, e) = [m EXCEPT !.depSeq = m.depSeq + 1, !.dependencies = rows]
    BY <1>2 DEF AddEdge, r
  <2> HIDE DEF rows
  <2> QED  BY <2>1, <2>4, <2>5 DEF Fields
<1> QED  BY <1>1, <1>2

\* after[n] is what the first n edges make of m.
AddingEdges(after, m, edges) ==
  /\ after \in [0..Len(edges) -> Fields]
  /\ AddEdges(m, edges) = after[Len(edges)]
  /\ after[0] = m
  /\ \A k \in 1..Len(edges) : after[k] = AddEdge(after[k - 1], edges[k])

LEMMA AddEdgesLoop ==
  ASSUME NEW m \in Fields, NEW edges \in Seq(DependencyEdge)
  PROVE  \E after : AddingEdges(after, m, edges)
<1> DEFINE N == Len(edges)
           Turn(h) == [n \in 0..N |-> IF n = 0 THEN m ELSE AddEdge(h[n - 1], edges[n])]
           step == [y \in Fields \X (1..N) |-> AddEdge(y[1], edges[y[2]])]
           out == CHOOSE h : h = Turn(h)
<1>1. N \in Nat /\ \A k \in 1..N : edges[k] \in DependencyEdge
  OBVIOUS
<1>2. \A s \in Fields, k \in 1..N : AddEdge(s, edges[k]) \in Fields
  BY <1>1, AddEdgeFields
<1>3. step \in [Fields \X (1..N) -> Fields]
  BY <1>2
<1>4. \A s \in Fields, k \in 1..N : step[<<s, k>>] = AddEdge(s, edges[k])
  OBVIOUS
<1> HIDE DEF step, N
<1> DEFINE S == Fields
<1>5. m \in S /\ IsStep(step, S, N)
  BY <1>3 DEF IsStep
<1> HIDE DEF S
<1>6. PICK f : IsLoop(f, m, step, S, N)
  BY <1>1, <1>5, LoopExists
<1>7. f \in [0..N -> Fields] /\ f[0] = m /\ \A k \in 1..N : f[k] = step[<<f[k - 1], k>>]
  BY <1>6 DEF S, IsLoop
<1>8. f = Turn(f)
  <2>1. ASSUME NEW k \in 0..N PROVE f[k] = Turn(f)[k]
    <3>1. CASE k = 0
      BY <1>7, <3>1
    <3>2. CASE k # 0
      <4>1. k \in 1..N /\ k - 1 \in 0..N
        BY <1>1, <3>2
      <4>2. f[k] = step[<<f[k - 1], k>>] /\ f[k - 1] \in Fields
        BY <1>7, <4>1
      <4> QED  BY <1>4, <3>2, <4>1, <4>2
    <3> QED  BY <3>1, <3>2
  <2> QED  BY <2>1, <1>7
<1>9. out = Turn(out)
  BY <1>8
<1>10. AddEdges(m, edges) = out[N]
  BY DEF AddEdges, N
<1> HIDE DEF out
<1>11. out[0] = m
  BY <1>1, <1>9
<1>12. ASSUME NEW k \in 1..N PROVE out[k] = AddEdge(out[k - 1], edges[k])
  <2>1. k \in 0..N /\ k # 0
    BY <1>1
  <2>2. out[k] = Turn(out)[k]
    BY <1>9
  <2> QED  BY <2>1, <2>2
<1>13. \A n \in 0..N : out[n] \in Fields
  <2> DEFINE G == {n \in Nat : out[n] \in Fields}
  <2>1. 0 \in G
    BY <1>11
  <2>2. ASSUME NEW k \in 1..N, k - 1 \in G PROVE k \in G
    BY <1>1, <1>2, <1>12, <2>2
  <2> HIDE DEF G
  <2>3. \A n \in 0..N : n \in G
    BY <1>1, <2>1, <2>2, Along
  <2> QED  BY <2>3 DEF G
<1>14. out \in [0..N -> Fields]
  BY <1>9, <1>13
<1> QED  BY <1>10, <1>11, <1>12, <1>14 DEF N, AddingEdges

LEMMA InsertedSeq ==
  ASSUME NEW R, NEW table \in Seq(R), NEW e \in R
  PROVE  Inserted(table, e) \in Seq(R)
<1>1. Append(table, e) \in Seq(R)
  OBVIOUS
<1> QED  BY <1>1 DEF Inserted

\* after[n] is what the first n inserts make of the table.
Inserting(after, R, table, rows) ==
  /\ after \in [0..Len(rows) -> Seq(R)]
  /\ InsertedAll(table, rows) = after[Len(rows)]
  /\ after[0] = table
  /\ \A k \in 1..Len(rows) : after[k] = Inserted(after[k - 1], rows[k])

LEMMA InsertedAllLoop ==
  ASSUME NEW R, NEW table \in Seq(R), NEW rows \in Seq(R)
  PROVE  \E after : Inserting(after, R, table, rows)
<1> DEFINE N == Len(rows)
           Turn(h) == [n \in 0..N |-> IF n = 0 THEN table ELSE Inserted(h[n - 1], rows[n])]
           step == [y \in Seq(R) \X (1..N) |-> Inserted(y[1], rows[y[2]])]
           out == CHOOSE h : h = Turn(h)
<1>1. N \in Nat /\ \A k \in 1..N : rows[k] \in R
  OBVIOUS
<1>2. \A s \in Seq(R), k \in 1..N : Inserted(s, rows[k]) \in Seq(R)
  BY <1>1, InsertedSeq
<1>3. step \in [Seq(R) \X (1..N) -> Seq(R)]
  BY <1>2
<1>4. \A s \in Seq(R), k \in 1..N : step[<<s, k>>] = Inserted(s, rows[k])
  OBVIOUS
<1> HIDE DEF step, N
<1> DEFINE S == Seq(R)
<1>5. table \in S /\ IsStep(step, S, N)
  BY <1>3 DEF IsStep
<1> HIDE DEF S
<1>6. PICK f : IsLoop(f, table, step, S, N)
  BY <1>1, <1>5, LoopExists
<1>7. f \in [0..N -> Seq(R)] /\ f[0] = table /\ \A k \in 1..N : f[k] = step[<<f[k - 1], k>>]
  BY <1>6 DEF S, IsLoop
<1>8. f = Turn(f)
  <2>1. ASSUME NEW k \in 0..N PROVE f[k] = Turn(f)[k]
    <3>1. CASE k = 0
      BY <1>7, <3>1
    <3>2. CASE k # 0
      <4>1. k \in 1..N /\ k - 1 \in 0..N
        BY <1>1, <3>2
      <4>2. f[k] = step[<<f[k - 1], k>>] /\ f[k - 1] \in Seq(R)
        BY <1>7, <4>1
      <4> QED  BY <1>4, <3>2, <4>1, <4>2
    <3> QED  BY <3>1, <3>2
  <2> QED  BY <2>1, <1>7
<1>9. out = Turn(out)
  BY <1>8
<1>10. InsertedAll(table, rows) = out[N]
  BY DEF InsertedAll, N
<1> HIDE DEF out
<1>11. out[0] = table
  BY <1>1, <1>9
<1>12. ASSUME NEW k \in 1..N PROVE out[k] = Inserted(out[k - 1], rows[k])
  <2>1. k \in 0..N /\ k # 0
    BY <1>1
  <2>2. out[k] = Turn(out)[k]
    BY <1>9
  <2> QED  BY <2>1, <2>2
<1>13. \A n \in 0..N : out[n] \in Seq(R)
  <2> DEFINE G == {n \in Nat : out[n] \in Seq(R)}
  <2>1. 0 \in G
    BY <1>11
  <2>2. ASSUME NEW k \in 1..N, k - 1 \in G PROVE k \in G
    BY <1>1, <1>2, <1>12, <2>2
  <2> HIDE DEF G
  <2>3. \A n \in 0..N : n \in G
    BY <1>1, <2>1, <2>2, Along
  <2> QED  BY <2>3 DEF G
<1>14. out \in [0..N -> Seq(R)]
  BY <1>9, <1>13
<1> QED  BY <1>10, <1>11, <1>12, <1>14 DEF N, Inserting

\* All edges of a call, one insertion after the other.
LEMMA AddEdgesInserts ==
  ASSUME NEW m, MemoryOK(m), NEW edges \in Seq(DependencyEdge),
         \A k \in DOMAIN edges : /\ edges[k].artifactId \in Ids(m.artifacts)
                                 /\ edges[k].attestationId \in Ids(m.attestations)
  PROVE  /\ MemoryOK(AddEdges(m, edges)) /\ OnlyEdges(m, AddEdges(m, edges))
         /\ DependencyTable(AddEdges(m, edges))
              = InsertedAll(DependencyTable(m), [i \in DOMAIN edges |-> EdgeOf(m, edges[i])])
<1> DEFINE N == Len(edges)
           rows == [i \in DOMAIN edges |-> EdgeOf(m, edges[i])]
           table == DependencyTable(m)
           R == {EdgeOf(m, d) : d \in DependencyEdge}
<1>1. m \in Fields
  BY DEF MemoryOK
<1>2. N \in Nat /\ DOMAIN edges = 1..N /\ \A k \in 1..N : edges[k] \in DependencyEdge
  OBVIOUS
<1>3. rows \in Seq(R) /\ Len(rows) = N /\ \A k \in 1..N : rows[k] = EdgeOf(m, edges[k])
  <2>1. rows \in [1..N -> R]
    <3> HIDE DEF N
    <3> QED  BY <1>2
  <2> QED  BY <1>2, <2>1
<1>4. table \in Seq(R)
  <2>1. m.dependencies \in Seq(DependencyEdge)
    BY <1>1, FieldTypes
  <2>2. table \in [1..Len(m.dependencies) -> R]
    BY <2>1 DEF DependencyTable
  <2>3. Len(m.dependencies) \in Nat
    BY <2>1
  <2> HIDE DEF table, R
  <2> QED  BY <2>2, <2>3
<1>a. PICK mems : AddingEdges(mems, m, edges)
  BY <1>1, AddEdgesLoop
<1>5. /\ AddEdges(m, edges) = mems[N] /\ mems[0] = m
      /\ \A k \in 1..N : mems[k] = AddEdge(mems[k - 1], edges[k])
  BY <1>a DEF AddingEdges
<1> HIDE DEF rows, table, R
<1>6. PICK tabs : Inserting(tabs, R, table, rows)
  BY <1>3, <1>4, InsertedAllLoop
<1>7. /\ InsertedAll(table, rows) = tabs[N] /\ tabs[0] = table
      /\ \A k \in 1..N : tabs[k] = Inserted(tabs[k - 1], rows[k])
  BY <1>3, <1>6 DEF Inserting
<1> HIDE DEF N
<1> DEFINE Good(n) == /\ MemoryOK(mems[n]) /\ OnlyEdges(m, mems[n])
                      /\ DependencyTable(mems[n]) = tabs[n]
           G == {n \in Nat : Good(n)}
<1>8. 0 \in G
  <2>1. OnlyEdges(m, m)
    BY DEF OnlyEdges
  <2> QED  BY <1>5, <1>7, <2>1 DEF table
<1>9. ASSUME NEW k \in 1..N, k - 1 \in G PROVE k \in G
  <2> DEFINE x == mems[k - 1]
             e == edges[k]
  <2>1. MemoryOK(x) /\ OnlyEdges(m, x) /\ DependencyTable(x) = tabs[k - 1]
    BY <1>9
  <2>2. mems[k] = AddEdge(x, e) /\ tabs[k] = Inserted(tabs[k - 1], EdgeOf(m, e))
    BY <1>3, <1>5, <1>7
  <2>3. /\ e \in DependencyEdge
        /\ e.artifactId \in Ids(m.artifacts) /\ e.attestationId \in Ids(m.attestations)
    BY <1>2
  <2> HIDE DEF x, e
  <2>4. x.artifacts = m.artifacts /\ x.attestations = m.attestations
    BY <2>1 DEF OnlyEdges
  <2>5. EdgeOf(x, e) = EdgeOf(m, e)
    <3>1. \A id : ArtifactOf(x, id) = ArtifactOf(m, id)
      BY <2>4, SameArtifactsOf
    <3> QED  BY <3>1 DEF EdgeOf
  <2>6. e.artifactId \in Ids(x.artifacts) /\ e.attestationId \in Ids(x.attestations)
    BY <2>3, <2>4
  <2>7. /\ MemoryOK(AddEdge(x, e)) /\ OnlyEdges(x, AddEdge(x, e))
        /\ DependencyTable(AddEdge(x, e)) = Inserted(DependencyTable(x), EdgeOf(x, e))
    BY <2>1, <2>3, <2>6, AddEdgeInserts
  <2>8. OnlyEdges(m, AddEdge(x, e))
    BY <2>1, <2>7 DEF OnlyEdges
  <2>9. k \in Nat
    BY <1>2
  <2>10. Good(k)
    BY <2>1, <2>2, <2>5, <2>7, <2>8
  <2> QED  BY <2>9, <2>10
<1> HIDE DEF G
<1>10. \A n \in 0..N : n \in G
  BY <1>2, <1>8, <1>9, Along
<1>11. N \in G
  BY <1>2, <1>10
<1>12. Good(N)
  BY <1>11 DEF G
<1>13. AddEdges(m, edges) = mems[N] /\ InsertedAll(table, rows) = tabs[N]
  BY <1>5, <1>7
<1> QED  BY <1>12, <1>13 DEF table, rows

-----------------------------------------------------------------------------
(* The policy, verdicts, stamps and revocation events.                     *)

\* Only one policy is ever registered, so whether the first or the last content
\* under its id stays makes no difference.
LEMMA RegisterPolicyPuts ==
  ASSUME NEW m, MemoryOK(m),
         NEW x, x = [m EXCEPT !.policies = Put(m.policies, Registered.id, Registered)]
  PROVE  /\ x \in Fields
         /\ PolicyTable(x) = IF \E q \in PolicyTable(m) : q.id = Registered.id THEN PolicyTable(m)
                             ELSE PolicyTable(m) \cup {[id |-> Registered.id, content |-> Registered]}
<1> DEFINE id == Registered.id
           one == [k \in {id} |-> Registered]
           new == Put(m.policies, id, Registered)
<1>1. m \in Fields /\ m.policies \in {<<>>, one}
  BY DEF MemoryOK, Fields
<1>2. DOMAIN <<>> = {} /\ DOMAIN one = {id} /\ one[id] = Registered
  OBVIOUS
<1>3. new = one
  <2>1. \A f : DOMAIN f = {} => Put(f, id, Registered) = one
    BY DEF Put
  <2>2. \A f : DOMAIN f = {id} => Put(f, id, Registered) = one
    BY DEF Put
  <2> HIDE DEF one
  <2> QED  BY <1>1, <1>2, <2>1, <2>2
<1>4. x.policies = one
  BY <1>1, <1>3 DEF Fields
<1> HIDE DEF new
<1>5. x \in Fields
  <2> HIDE DEF one
  <2>1. \A c \in {<<>>, one} : [m EXCEPT !.policies = c] \in Fields
    BY <1>1 DEF Fields, one
  <2> QED  BY <1>3, <2>1 DEF new
<1>6. PolicyTable(x) = {[id |-> id, content |-> Registered]}
  BY <1>2, <1>4 DEF PolicyTable
<1>7. m.policies = <<>> => PolicyTable(m) = {}
  BY <1>2 DEF PolicyTable
<1>8. m.policies = one => PolicyTable(m) = {[id |-> id, content |-> Registered]}
  BY <1>2 DEF PolicyTable
<1> HIDE DEF one, id
<1>9. [id |-> id, content |-> Registered].id = id
  OBVIOUS
<1> QED  BY <1>1, <1>5, <1>6, <1>7, <1>8, <1>9 DEF id

LEMMA PutAppends ==
  ASSUME NEW S, NEW s \in Seq(S), NEW n, Len(s) = n, NEW v \in S
  PROVE  /\ Put(s, n + 1, v) \in Seq(S) /\ Len(Put(s, n + 1, v)) = n + 1
         /\ Put(s, n + 1, v)[n + 1] = v
         /\ \A i \in 1..n : Put(s, n + 1, v)[i] = s[i]
<1> DEFINE t == Put(s, n + 1, v)
<1>1. n \in Nat /\ DOMAIN s = 1..n /\ \A i \in 1..n : s[i] \in S /\ i # n + 1
  OBVIOUS
<1>2. DOMAIN s \cup {n + 1} = 1..(n + 1)
  BY <1>1
<1>3. t = [k \in 1..(n + 1) |-> IF k = n + 1 THEN v ELSE s[k]]
  BY <1>2 DEF Put
<1> HIDE DEF t
<1>4. \A k \in 1..(n + 1) : k = n + 1 \/ k \in 1..n
  BY <1>1
<1>5. t \in [1..(n + 1) -> S]
  BY <1>1, <1>3, <1>4
<1>6. t \in Seq(S) /\ Len(t) = n + 1
  BY <1>1, <1>5
<1>7. t[n + 1] = v /\ \A i \in 1..n : t[i] = s[i]
  BY <1>1, <1>3
<1> QED  BY <1>6, <1>7 DEF t

LEMMA SaveVerificationRow ==
  ASSUME NEW m, MemoryOK(m), NEW r \in Verification, r.id = m.verifSeq + 1,
         r.artifactId \in Ids(m.artifacts), NEW verdicts \in Seq(Tables!VerdictRow),
         NEW x \in Fields,
         x.verifSeq = m.verifSeq + 1, x.verifs = Append(m.verifs, r),
         x.verifAttests = Put(m.verifAttests, m.verifSeq + 1, verdicts),
         x.artifactSeq = m.artifactSeq, x.artifacts = m.artifacts,
         x.attestSeq = m.attestSeq, x.attestations = m.attestations,
         x.tteSeq = m.tteSeq, x.trustedTimeEvidence = m.trustedTimeEvidence,
         x.depSeq = m.depSeq, x.dependencies = m.dependencies,
         x.policies = m.policies, x.revocationEvents = m.revocationEvents
  PROVE  /\ MemoryOK(x)
         /\ VerificationTable(x) = Append(VerificationTable(m), VerificationOf(m, r, verdicts))
         /\ Len(VerificationTable(x)) = m.verifSeq + 1
<1> DEFINE slice == m.verifs
           t == x.verifs
           id == m.verifSeq + 1
           n == m.verifSeq
           V == Tables!VerdictRow
           old == VerificationTable(m)
           new == VerificationTable(x)
<1>1. m \in Fields /\ Counted(m) /\ Referred(m) /\ Unique(m)
  BY DEF MemoryOK
<1>2. slice \in Seq(Verification) /\ Numbered(slice, m.verifSeq)
  BY <1>1, FieldTypes DEF Counted
<1>3. n \in Nat
  BY <1>1 DEF Fields
<1>4. /\ t \in Seq(Verification) /\ Numbered(t, id)
      /\ Rows(t) = Rows(slice) \cup {r} /\ Ids(t) = Ids(slice) \cup {id}
      /\ DOMAIN t = 1..id /\ t[id] = r
      /\ \A i \in DOMAIN slice : t[i] = slice[i]
  <2> HIDE DEF slice
  <2> QED  BY <1>2, Appended DEF slice
<1>5. DOMAIN slice = 1..n /\ Len(slice) = n /\ \A i \in DOMAIN slice : slice[i].id = i
  <2> HIDE DEF slice
  <2> QED  BY <1>2, NumberedRows
<1>6. m.verifAttests \in Seq(Seq(V)) /\ Len(m.verifAttests) = n
  BY <1>1, FieldTypes DEF Counted
<1>7. /\ Len(x.verifAttests) = n + 1
      /\ x.verifAttests[n + 1] = verdicts
      /\ \A i \in 1..n : x.verifAttests[i] = m.verifAttests[i]
  <2> DEFINE S == Seq(V)
             s == m.verifAttests
  <2>1. s \in Seq(S) /\ Len(s) = n /\ verdicts \in S
    BY <1>6
  <2>0. x.verifAttests = Put(s, n + 1, verdicts)
    OBVIOUS
  <2> HIDE DEF S, s, n
  <2>2. /\ Len(Put(s, n + 1, verdicts)) = n + 1
        /\ Put(s, n + 1, verdicts)[n + 1] = verdicts
        /\ \A i \in 1..n : Put(s, n + 1, verdicts)[i] = s[i]
    BY <2>1, PutAppends
  <2>3. /\ Len(x.verifAttests) = n + 1
        /\ x.verifAttests[n + 1] = verdicts
        /\ \A i \in 1..n : x.verifAttests[i] = s[i]
    BY <2>0, <2>2
  <2> QED  BY <2>3 DEF s
<1> HIDE DEF t, slice
<1>8. Counted(x)
  BY <1>1, <1>4, <1>7 DEF Counted, t
<1>9. Referred(x)
  BY <1>1, <1>4 DEF Referred, slice, t
<1>10. Unique(x)
  BY <1>1 DEF Unique
<1>11. MemoryOK(x)
  BY <1>8, <1>9, <1>10 DEF MemoryOK
<1>12. \A i : ArtifactOf(x, i) = ArtifactOf(m, i)
  BY SameArtifactsOf
<1>13. \A s, v : VerificationOf(x, s, v) = VerificationOf(m, s, v)
  BY <1>12 DEF VerificationOf
<1> HIDE DEF n, V
<1>14. old = [i \in 1..n |-> VerificationOf(m, slice[i], m.verifAttests[i])]
  BY <1>5 DEF VerificationTable, slice
<1>15. new = [i \in 1..(n + 1) |-> VerificationOf(m, t[i], x.verifAttests[t[i].id])]
  BY <1>4, <1>13 DEF VerificationTable, t, n
<1> HIDE DEF old, new
<1>16. ASSUME NEW i \in 1..n PROVE new[i] = old[i]
  <2>1. t[i] = slice[i] /\ t[i].id = i /\ x.verifAttests[i] = m.verifAttests[i]
    BY <1>4, <1>5, <1>7
  <2>2. i \in 1..(n + 1)
    BY <1>3
  <2>3. new[i] = VerificationOf(m, t[i], x.verifAttests[t[i].id])
    BY <1>15, <2>2
  <2>4. old[i] = VerificationOf(m, slice[i], m.verifAttests[i])
    BY <1>14
  <2> QED  BY <2>1, <2>3, <2>4
<1>17. new[n + 1] = VerificationOf(m, r, verdicts)
  <2>1. n + 1 \in 1..(n + 1) /\ t[n + 1] = r /\ t[n + 1].id = n + 1
    BY <1>3, <1>4 DEF n
  <2>2. new[n + 1] = VerificationOf(m, t[n + 1], x.verifAttests[t[n + 1].id])
    BY <1>15, <2>1
  <2> QED  BY <1>7, <2>1, <2>2
<1>18. OneMore(old, new, n, VerificationOf(m, r, verdicts))
  BY <1>14, <1>15, <1>16, <1>17 DEF OneMore
<1>19. new = Append(old, VerificationOf(m, r, verdicts)) /\ Len(new) = n + 1
  BY <1>3, <1>18, OneMoreIsAppend
<1> QED  BY <1>11, <1>19 DEF old, new, n

Stamp == [envelope : Envelopes, tsa : Keys, time : Int]

\* A row that keeps the stamp under an id.
KeepsStamp(r, id, ev) ==
  r.id = id /\ r.envelope = ev.envelope /\ r.tsa = ev.tsa /\ r.time = ev.time

StampAdded(m, x, r) ==
  /\ x.tteSeq = m.tteSeq + 1 /\ x.trustedTimeEvidence = Append(m.trustedTimeEvidence, r)
  /\ x.artifactSeq = m.artifactSeq /\ x.artifacts = m.artifacts
  /\ x.attestSeq = m.attestSeq /\ x.attestations = m.attestations
  /\ x.verifSeq = m.verifSeq /\ x.verifs = m.verifs /\ x.verifAttests = m.verifAttests
  /\ x.depSeq = m.depSeq /\ x.dependencies = m.dependencies
  /\ x.policies = m.policies /\ x.revocationEvents = m.revocationEvents

LEMMA IngestTimeEvidenceNew ==
  ASSUME NEW m, MemoryOK(m), NEW ev \in Stamp,
         \A i \in DOMAIN m.trustedTimeEvidence : ~ SameStamp(m.trustedTimeEvidence[i], ev),
         NEW r \in TimeEvidenceRecord, KeepsStamp(r, m.tteSeq + 1, ev),
         NEW x \in Fields,
         StampAdded(m, x, r)
  PROVE  /\ MemoryOK(x)
         /\ TimeEvidenceTable(x) = TimeEvidenceTable(m) \cup {ev}
         /\ r \in Rows(x.trustedTimeEvidence) /\ r.id = m.tteSeq + 1 /\ StampRow(r) = ev
<1> DEFINE slice == m.trustedTimeEvidence
           t == x.trustedTimeEvidence
           id == m.tteSeq + 1
<1> USE DEF StampAdded
<1>1. m \in Fields /\ Counted(m) /\ Referred(m) /\ Unique(m)
  BY DEF MemoryOK
<1>2. slice \in Seq(TimeEvidenceRecord) /\ Numbered(slice, m.tteSeq)
  BY <1>1, FieldTypes DEF Counted
<1>3. m.tteSeq \in Nat /\ id \in Nat
  BY <1>1 DEF Fields
<1>4. /\ r \in TimeEvidenceRecord /\ r.id = id /\ StampRow(r) = ev
      /\ r.envelope = ev.envelope /\ r.tsa = ev.tsa /\ r.time = ev.time
  BY <1>3 DEF TimeEvidenceRecord, StampRow, Stamp, KeepsStamp
<1>5. /\ Numbered(t, id) /\ Rows(t) = Rows(slice) \cup {r}
  <2> HIDE DEF slice
  <2> QED  BY <1>2, <1>4, Appended DEF slice
<1> HIDE DEF t, slice, id
<1>6. Counted(x)
  BY <1>1, <1>5 DEF Counted, t, id
<1>7. Referred(x)
  BY <1>1 DEF Referred
<1>8. Unique(x)
  <2>1. \A s \in Rows(slice) : ~ SameStamp(s, r) /\ ~ SameStamp(r, s)
    <3>1. \A s \in Rows(slice) : ~ SameStamp(s, ev)
      BY DEF Rows, slice
    <3> QED  BY <1>4, <3>1 DEF SameStamp
  <2>2. \A s1, s2 \in Rows(slice) : SameStamp(s1, s2) => s1 = s2
    BY <1>1 DEF Unique, slice
  <2>3. \A s1, s2 \in Rows(t) : SameStamp(s1, s2) => s1 = s2
    BY <1>5, <2>1, <2>2
  <2> QED  BY <1>1, <2>3 DEF Unique, t
<1>9. MemoryOK(x)
  BY <1>6, <1>7, <1>8 DEF MemoryOK
<1>10. TimeEvidenceTable(x) = TimeEvidenceTable(m) \cup {ev}
  <2>1. Rows(x.trustedTimeEvidence) = Rows(m.trustedTimeEvidence) \cup {r}
    BY <1>5 DEF t, slice
  <2> QED  BY <1>4, <2>1 DEF TimeEvidenceTable
<1>11. r \in Rows(x.trustedTimeEvidence)
  BY <1>5 DEF t
<1> QED  BY <1>4, <1>9, <1>10, <1>11 DEF id

\* What the table has for a key is its one event.
LEMMA EventOfKey ==
  ASSUME NEW m, Unique(m)
  PROVE  /\ DOMAIN RevocationTable(m) = {r.key : r \in Rows(m.revocationEvents)}
         /\ \A r \in Rows(m.revocationEvents) : RevocationTable(m)[r.key] = EventRow(r)
         /\ \A k \in DOMAIN RevocationTable(m) :
              \E i \in DOMAIN m.revocationEvents :
                m.revocationEvents[i].key = k /\ RevocationTable(m)[k] = EventRow(m.revocationEvents[i])
<1> DEFINE rows == Rows(m.revocationEvents)
           table == RevocationTable(m)
<1>1. \A r, s \in rows : r.key = s.key => r = s
  <2> SUFFICES ASSUME NEW r \in rows, NEW s \in rows, r.key = s.key PROVE r = s
    OBVIOUS
  <2>1. PICK i \in DOMAIN m.revocationEvents : r = m.revocationEvents[i]
    BY DEF Rows
  <2>2. PICK j \in DOMAIN m.revocationEvents : s = m.revocationEvents[j]
    BY DEF Rows
  <2> QED  BY <2>1, <2>2 DEF Unique
<1>2. DOMAIN table = {r.key : r \in rows}
  BY DEF RevocationTable
<1>3. ASSUME NEW r \in rows PROVE table[r.key] = EventRow(r)
  <2>1. (CHOOSE s \in rows : s.key = r.key) = r
    BY <1>1
  <2>2. table[r.key] = EventRow(CHOOSE s \in rows : s.key = r.key)
    BY DEF RevocationTable
  <2> QED  BY <2>1, <2>2
<1>4. ASSUME NEW k \in DOMAIN table
      PROVE  \E i \in DOMAIN m.revocationEvents :
               m.revocationEvents[i].key = k /\ table[k] = EventRow(m.revocationEvents[i])
  <2>1. PICK r \in rows : r.key = k
    BY <1>2
  <2>2. PICK i \in DOMAIN m.revocationEvents : r = m.revocationEvents[i]
    BY <2>1 DEF Rows
  <2> QED  BY <1>3, <2>1, <2>2
<1> HIDE DEF table
<1> QED  BY <1>2, <1>3, <1>4 DEF table

\* The event of its key, if there is one, is replaced.
Recorded(old, new, ev) ==
  \/ (\A i \in DOMAIN old : old[i].key # ev.key) /\ new = Append(old, ev)
  \/ \E p \in DOMAIN old : old[p].key = ev.key /\ new = [old EXCEPT ![p] = ev]

Upserted(was, is, key, rec) ==
  is = [k \in DOMAIN was \cup {key} |-> IF k = key THEN rec ELSE was[k]]

LEMMA UpsertRevocationEventPuts ==
  ASSUME NEW m, MemoryOK(m), NEW ev \in RevocationEventRecord,
         NEW x \in Fields,
         Recorded(m.revocationEvents, x.revocationEvents, ev),
         x.artifactSeq = m.artifactSeq, x.artifacts = m.artifacts,
         x.attestSeq = m.attestSeq, x.attestations = m.attestations,
         x.verifSeq = m.verifSeq, x.verifs = m.verifs, x.verifAttests = m.verifAttests,
         x.tteSeq = m.tteSeq, x.trustedTimeEvidence = m.trustedTimeEvidence,
         x.depSeq = m.depSeq, x.dependencies = m.dependencies,
         x.policies = m.policies
  PROVE  /\ MemoryOK(x)
         /\ Upserted(RevocationTable(m), RevocationTable(x), ev.key, EventRow(ev))
<1> DEFINE old == m.revocationEvents
           new == x.revocationEvents
<1>1. m \in Fields /\ Counted(m) /\ Referred(m) /\ Unique(m)
  BY DEF MemoryOK
<1>2. old \in Seq(RevocationEventRecord) /\ \A i, j \in DOMAIN old : old[i].key = old[j].key => i = j
  BY <1>1, FieldTypes DEF Unique
\* Where the event of the key is now, and that nothing else has moved.
<1>3. \E p \in DOMAIN new :
        /\ new[p] = ev
        /\ DOMAIN new = DOMAIN old \cup {p}
        /\ \A i \in DOMAIN old : i # p => new[i] = old[i]
        /\ \A i \in DOMAIN old : old[i].key = ev.key <=> i = p
  <2>1. CASE /\ \A i \in DOMAIN old : old[i].key # ev.key
             /\ new = Append(old, ev)
    <3>1. Len(old) \in Nat /\ DOMAIN old = 1..Len(old)
      BY <1>2
    <3> DEFINE p == Len(old) + 1
    <3>2. /\ DOMAIN new = DOMAIN old \cup {p} /\ new[p] = ev
          /\ \A i \in DOMAIN old : i # p /\ new[i] = old[i]
      <4> HIDE DEF old, new
      <4>1. DOMAIN new = 1..(Len(old) + 1) /\ new[Len(old) + 1] = ev
            /\ \A i \in 1..Len(old) : new[i] = old[i]
        BY <1>2, <2>1
      <4>2. 1..(Len(old) + 1) = 1..Len(old) \cup {Len(old) + 1}
        BY <3>1
      <4> QED  BY <3>1, <4>1, <4>2
    <3>3. p \in DOMAIN new
      BY <3>2
    <3>4. \A i \in DOMAIN old : old[i].key # ev.key
      BY <2>1
    <3> HIDE DEF p, old, new
    <3>5. \A i \in DOMAIN old : i # p => new[i] = old[i]
      BY <3>2
    <3>6. \A i \in DOMAIN old : old[i].key = ev.key <=> i = p
      BY <3>2, <3>4
    <3> WITNESS p \in DOMAIN new
    <3> QED  BY <3>2, <3>5, <3>6
  <2>2. CASE \E p \in DOMAIN old : old[p].key = ev.key /\ new = [old EXCEPT ![p] = ev]
    <3> HIDE DEF old, new
    <3>1. PICK p \in DOMAIN old : old[p].key = ev.key /\ new = [old EXCEPT ![p] = ev]
      BY <2>2
    <3>2. /\ DOMAIN new = DOMAIN old /\ new[p] = ev
          /\ \A i \in DOMAIN old : i # p => new[i] = old[i]
      BY <1>2, <3>1
    <3>3. \A i \in DOMAIN old : old[i].key = ev.key <=> i = p
      BY <1>2, <3>1
    <3>4. DOMAIN new = DOMAIN old \cup {p} /\ p \in DOMAIN new
      BY <3>2
    <3> QED  BY <3>2, <3>3, <3>4
  <2> QED  BY <2>1, <2>2 DEF Recorded
<1> HIDE DEF old, new
<1>4. PICK p \in DOMAIN new :
        /\ new[p] = ev
        /\ DOMAIN new = DOMAIN old \cup {p}
        /\ \A i \in DOMAIN old : i # p => new[i] = old[i]
        /\ \A i \in DOMAIN old : old[i].key = ev.key <=> i = p
  BY <1>3
<1>5. \A i, j \in DOMAIN new : new[i].key = new[j].key => i = j
  <2>1. \A i \in DOMAIN new : i = p \/ (i \in DOMAIN old /\ i # p /\ new[i] = old[i] /\ new[i].key # ev.key)
    BY <1>4
  <2> QED  BY <1>2, <1>4, <2>1
<1>6. Unique(x)
  BY <1>1, <1>5 DEF Unique, new
<1>7. MemoryOK(x)
  <2>1. Counted(x)
    BY <1>1 DEF Counted
  <2>2. Referred(x)
    BY <1>1 DEF Referred
  <2> QED  BY <1>6, <2>1, <2>2 DEF MemoryOK
<1> DEFINE was == RevocationTable(m)
           is == RevocationTable(x)
<1>8. /\ DOMAIN was = {old[i].key : i \in DOMAIN old}
      /\ \A i \in DOMAIN old : was[old[i].key] = EventRow(old[i])
  <2>1. /\ DOMAIN was = {r.key : r \in Rows(old)}
        /\ \A r \in Rows(old) : was[r.key] = EventRow(r)
    BY <1>1, EventOfKey DEF old
  <2> HIDE DEF was
  <2> QED  BY <2>1 DEF Rows
<1>9. /\ DOMAIN is = {new[i].key : i \in DOMAIN new}
      /\ \A i \in DOMAIN new : is[new[i].key] = EventRow(new[i])
  <2>1. /\ DOMAIN is = {r.key : r \in Rows(new)}
        /\ \A r \in Rows(new) : is[r.key] = EventRow(r)
    BY <1>6, EventOfKey DEF new
  <2> HIDE DEF is
  <2> QED  BY <2>1 DEF Rows
<1>10. is = [k \in DOMAIN is |-> is[k]]
  BY DEF RevocationTable
<1> HIDE DEF was, is
<1>11. DOMAIN is = DOMAIN was \cup {ev.key}
  <2>1. \A i \in DOMAIN old : new[i].key = old[i].key
    BY <1>4
  <2>2. ASSUME NEW k \in DOMAIN is PROVE k \in DOMAIN was \cup {ev.key}
    <3>1. PICK i \in DOMAIN new : k = new[i].key
      BY <1>9
    <3> QED  BY <1>4, <1>8, <2>1, <3>1
  <2>3. ASSUME NEW k \in DOMAIN was PROVE k \in DOMAIN is
    <3>1. PICK i \in DOMAIN old : k = old[i].key
      BY <1>8
    <3> QED  BY <1>4, <1>9, <2>1, <3>1
  <2>4. ev.key \in DOMAIN is
    BY <1>4, <1>9
  <2> QED  BY <2>2, <2>3, <2>4
<1>12. is[ev.key] = EventRow(ev)
  BY <1>4, <1>9
<1>13. ASSUME NEW k \in DOMAIN was, k # ev.key PROVE is[k] = was[k]
  <2>1. PICK i \in DOMAIN old : k = old[i].key
    BY <1>8
  <2>2. i # p /\ new[i] = old[i] /\ i \in DOMAIN new
    BY <1>4, <1>13, <2>1
  <2> QED  BY <1>8, <1>9, <2>1, <2>2
<1>14. is = [k \in DOMAIN was \cup {ev.key} |-> IF k = ev.key THEN EventRow(ev) ELSE was[k]]
  <2>1. \A k \in DOMAIN is : is[k] = IF k = ev.key THEN EventRow(ev) ELSE was[k]
    BY <1>11, <1>12, <1>13
  <2> QED  BY <1>10, <1>11, <2>1
<1> QED  BY <1>7, <1>14 DEF was, is, Upserted

-----------------------------------------------------------------------------
(* The tables are tables of the database.                                  *)

LEMMA ArtifactOfType ==
  ASSUME NEW m, MemoryOK(m), NEW id \in Ids(m.artifacts)
  PROVE  ArtifactOf(m, id) \in Upload
  BY ArtifactById DEF ArtifactRecord, ArtifactRow, Upload

LEMMA ArtifactTableType ==
  ASSUME NEW m, MemoryOK(m)
  PROVE  ArtifactTable(m) \subseteq Upload
<1>1. m.artifacts \in Seq(ArtifactRecord)
  BY FieldTypes DEF MemoryOK
<1>2. \A r \in Rows(m.artifacts) : r \in ArtifactRecord
  BY <1>1 DEF Rows
<1>3. \A r \in ArtifactRecord : ArtifactRow(r) \in Upload
  BY DEF ArtifactRecord, ArtifactRow, Upload
<1> QED  BY <1>2, <1>3 DEF ArtifactTable

LEMMA AttestationTableType ==
  ASSUME NEW m, MemoryOK(m)
  PROVE  AttestationTable(m) \in
           Seq([artifact : Upload, envelope : Envelopes, acceptedKey : Keys \cup {NoKey}])
<1> DEFINE slice == m.attestations
           R == [artifact : Upload, envelope : Envelopes, acceptedKey : Keys \cup {NoKey}]
<1>1. slice \in Seq(AttestationRecord)
  BY FieldTypes DEF MemoryOK
<1>2. \A i \in DOMAIN slice : slice[i] \in AttestationRecord /\ slice[i].artifactId \in Ids(m.artifacts)
  BY <1>1, RowsReferred
<1>3. \A i \in DOMAIN slice : ArtifactOf(m, slice[i].artifactId) \in Upload
  BY <1>2, ArtifactOfType
<1>4. \A i \in DOMAIN slice : AttestationOf(m, slice[i]) \in R
  BY <1>2, <1>3 DEF AttestationOf, AttestationRecord
<1>5. Len(slice) \in Nat /\ DOMAIN slice = 1..Len(slice)
  BY <1>1
<1> HIDE DEF R
<1>6. AttestationTable(m) \in [1..Len(slice) -> R]
  BY <1>4, <1>5 DEF AttestationTable
<1>7. AttestationTable(m) \in Seq(R)
  BY <1>5, <1>6
<1> QED  BY <1>7 DEF R

LEMMA DependencyTableType ==
  ASSUME NEW m, MemoryOK(m)
  PROVE  DependencyTable(m) \in
           Seq([artifact : Upload, attestation : Nat \ {0}, name : Names,
                sha : Digests \cup {NoDigest}])
<1> DEFINE slice == m.dependencies
           R == [artifact : Upload, attestation : Nat \ {0}, name : Names,
                 sha : Digests \cup {NoDigest}]
<1>1. slice \in Seq(DependencyEdge)
  BY FieldTypes DEF MemoryOK
<1>2. \A i \in DOMAIN slice : /\ slice[i] \in DependencyEdge
                              /\ slice[i].artifactId \in Ids(m.artifacts)
                              /\ slice[i].attestationId \in Ids(m.attestations)
  BY <1>1, RowsReferred
<1>3. \A i \in DOMAIN slice : ArtifactOf(m, slice[i].artifactId) \in Upload
  BY <1>2, ArtifactOfType
<1>4. Ids(m.attestations) \subseteq Nat \ {0}
  <2> DEFINE s == m.attestations
  <2>1. s \in Seq(AttestationRecord) /\ Numbered(s, m.attestSeq)
    BY FieldTypes DEF MemoryOK, Counted
  <2> HIDE DEF s
  <2>2. Ids(s) = DOMAIN s /\ DOMAIN s = 1..m.attestSeq /\ m.attestSeq \in Nat
    BY <2>1, NumberedRows
  <2>3. Ids(s) \subseteq Nat \ {0}
    BY <2>2
  <2> QED  BY <2>3 DEF s
<1>5. \A i \in DOMAIN slice : EdgeOf(m, slice[i]) \in R
  BY <1>2, <1>3, <1>4 DEF EdgeOf, DependencyEdge
<1>6. Len(slice) \in Nat /\ DOMAIN slice = 1..Len(slice)
  BY <1>1
<1> HIDE DEF R
<1>7. DependencyTable(m) \in [1..Len(slice) -> R]
  BY <1>5, <1>6 DEF DependencyTable
<1>8. DependencyTable(m) \in Seq(R)
  BY <1>6, <1>7
<1> QED  BY <1>8 DEF R

LEMMA TimeEvidenceTableType ==
  ASSUME NEW m, MemoryOK(m)
  PROVE  TimeEvidenceTable(m) \subseteq [envelope : Envelopes, tsa : Keys, time : Int]
<1>1. m.trustedTimeEvidence \in Seq(TimeEvidenceRecord)
  BY FieldTypes DEF MemoryOK
<1>2. \A r \in Rows(m.trustedTimeEvidence) : r \in TimeEvidenceRecord
  BY <1>1 DEF Rows
<1>3. \A r \in TimeEvidenceRecord : StampRow(r) \in [envelope : Envelopes, tsa : Keys, time : Int]
  BY DEF TimeEvidenceRecord, StampRow
<1> QED  BY <1>2, <1>3 DEF TimeEvidenceTable

LEMMA PolicyTableType ==
  ASSUME NEW m, MemoryOK(m)
  PROVE  PolicyTable(m) \subseteq [id : STRING, content : Policy]
<1>1. m.policies \in {<<>>, [id \in {Registered.id} |-> Registered]}
  BY DEF MemoryOK, Fields
<1>2. \A k \in DOMAIN m.policies : k = Registered.id /\ m.policies[k] = Registered
  BY <1>1
<1>3. Registered \in Policy /\ Registered.id \in STRING
  BY MemoryAssumption DEF Policy
<1> QED  BY <1>2, <1>3 DEF PolicyTable

LEMMA VerificationTableType ==
  ASSUME NEW m, MemoryOK(m)
  PROVE  VerificationTable(m) \in
           Seq([kind : {"gate", "review"}, artifact : Upload, decision : Decisions,
                signatureValid : BOOLEAN, issuerTrusted : BOOLEAN, policyAllowed : BOOLEAN,
                digestMatch : BOOLEAN, class : Classes \cup {""}, feedVersion : Nat,
                verdicts : Seq(Tables!VerdictRow)])
<1> DEFINE slice == m.verifs
           R == [kind : {"gate", "review"}, artifact : Upload, decision : Decisions,
                 signatureValid : BOOLEAN, issuerTrusted : BOOLEAN, policyAllowed : BOOLEAN,
                 digestMatch : BOOLEAN, class : Classes \cup {""}, feedVersion : Nat,
                 verdicts : Seq(Tables!VerdictRow)]
           S == Seq(Tables!VerdictRow)
<1>1. slice \in Seq(Verification) /\ m.verifAttests \in Seq(S)
      /\ Len(slice) = m.verifSeq /\ Len(m.verifAttests) = m.verifSeq
  BY FieldTypes DEF MemoryOK, Counted, Numbered
<1> HIDE DEF S
<1>2. \A i \in DOMAIN slice : /\ slice[i] \in Verification /\ slice[i].id = i
                              /\ slice[i].artifactId \in Ids(m.artifacts)
  BY <1>1, RowsReferred
<1>3. \A i \in DOMAIN slice : ArtifactOf(m, slice[i].artifactId) \in Upload
  BY <1>2, ArtifactOfType
<1>4. Len(slice) \in Nat /\ DOMAIN slice = 1..Len(slice)
  BY <1>1
<1>5. \A i \in DOMAIN slice : m.verifAttests[i] \in S
  BY <1>1, <1>4
<1>6. ASSUME NEW i \in DOMAIN slice
      PROVE  VerificationOf(m, slice[i], m.verifAttests[slice[i].id]) \in R
  <2> DEFINE r == slice[i]
  <2>1. /\ r \in Verification /\ ArtifactOf(m, r.artifactId) \in Upload
        /\ m.verifAttests[r.id] \in S
    BY <1>2, <1>3, <1>5
  <2> HIDE DEF r
  <2>2. VerificationOf(m, r, m.verifAttests[r.id]) \in R
    BY <2>1 DEF VerificationOf, Verification, S
  <2> QED  BY <2>2 DEF r
<1> HIDE DEF R
<1>7. VerificationTable(m) \in [1..Len(slice) -> R]
  BY <1>4, <1>6 DEF VerificationTable
<1>8. VerificationTable(m) \in Seq(R)
  BY <1>4, <1>7
<1> QED  BY <1>8 DEF R

LEMMA RevocationTableType ==
  ASSUME NEW m, MemoryOK(m)
  PROVE  /\ DOMAIN RevocationTable(m) \subseteq Keys
         /\ RevocationTable(m) \in [DOMAIN RevocationTable(m) -> [comp : Int, version : Nat]]
<1> DEFINE table == RevocationTable(m)
           slice == m.revocationEvents
<1>1. slice \in Seq(RevocationEventRecord) /\ Unique(m)
  BY FieldTypes DEF MemoryOK
<1>2. \A i \in DOMAIN slice : slice[i] \in RevocationEventRecord
  BY <1>1
<1>3. \A k \in DOMAIN table :
        \E i \in DOMAIN slice : slice[i].key = k /\ table[k] = EventRow(slice[i])
  BY <1>1, EventOfKey
<1>4. \A r \in RevocationEventRecord :
        r.key \in Keys /\ EventRow(r) \in [comp : Int, version : Nat]
  BY DEF RevocationEventRecord, EventRow
<1>5. table = [k \in DOMAIN table |-> table[k]]
  BY DEF RevocationTable
<1> HIDE DEF table, slice
<1>6. \A k \in DOMAIN table : k \in Keys /\ table[k] \in [comp : Int, version : Nat]
  BY <1>2, <1>3, <1>4
<1> QED  BY <1>5, <1>6 DEF table

LEMMA TablesTyped == MemoryOK(mem) => Tables!StoreTypeOK
<1> SUFFICES ASSUME MemoryOK(mem) PROVE Tables!StoreTypeOK
  OBVIOUS
<1>1. Tables!Artifact = Upload /\ Tables!Policy = Policy
      /\ Tables!Decisions = Decisions /\ Tables!Classes = Classes
  BY DEF Tables!Artifact, Upload, Tables!Policy, Policy, Tables!Decisions, Decisions,
         Tables!Classes, Classes
<1>2. ArtifactTable(mem) \subseteq Tables!Artifact
  BY <1>1, ArtifactTableType
<1>3. AttestationTable(mem) \in Seq(Tables!AttestationRow)
  BY <1>1, AttestationTableType DEF Tables!AttestationRow
<1>4. DependencyTable(mem) \in Seq(Tables!DependencyRow)
  BY <1>1, DependencyTableType DEF Tables!DependencyRow
<1>5. TimeEvidenceTable(mem) \subseteq Tables!TimeEvidenceRow
  BY TimeEvidenceTableType DEF Tables!TimeEvidenceRow
<1>6. PolicyTable(mem) \subseteq [id : STRING, content : Tables!Policy]
  BY <1>1, PolicyTableType
<1>7. VerificationTable(mem) \in Seq(Tables!VerificationRow)
  BY <1>1, VerificationTableType DEF Tables!VerificationRow
<1>8. /\ DOMAIN RevocationTable(mem) \subseteq Keys
      /\ RevocationTable(mem) \in [DOMAIN RevocationTable(mem) -> [comp : Int, version : Nat]]
  BY RevocationTableType
<1> QED  BY <1>2, <1>3, <1>4, <1>5, <1>6, <1>7, <1>8 DEF Tables!StoreTypeOK

-----------------------------------------------------------------------------
(* Steps.  What the call of a step answers and does to its table, and that *)
(* the other tables stay.                                                  *)

LEMMA FirstIsLeast ==
  ASSUME NEW S, S \subseteq Nat, S # {}
  PROVE  First(S) \in S
<1>1. \E i \in S : \A j \in S : i <= j
  BY LeastOfNaturals
<1> QED  BY <1>1 DEF First

OthersKept(op, m, x) ==
  \A t \in DOMAIN TablesOf(m) \ {Written[op]} : TablesOf(x)[t] = TablesOf(m)[t]

LEMMA KeptEach ==
  ASSUME NEW m, NEW x, NEW op,
         "artifacts" # Written[op] => ArtifactTable(x) = ArtifactTable(m),
         "attestations" # Written[op] => AttestationTable(x) = AttestationTable(m),
         "dependencies" # Written[op] => DependencyTable(x) = DependencyTable(m),
         "timeEvidence" # Written[op] => TimeEvidenceTable(x) = TimeEvidenceTable(m),
         "policies" # Written[op] => PolicyTable(x) = PolicyTable(m),
         "verifications" # Written[op] => VerificationTable(x) = VerificationTable(m),
         "revocationEvents" # Written[op] => RevocationTable(x) = RevocationTable(m)
  PROVE  OthersKept(op, m, x)
<1>1. DOMAIN TablesOf(m) = {"artifacts", "attestations", "dependencies", "timeEvidence",
                            "policies", "verifications", "revocationEvents"}
  BY DEF TablesOf
<1>2. \A y : /\ TablesOf(y)["artifacts"] = ArtifactTable(y)
             /\ TablesOf(y)["attestations"] = AttestationTable(y)
             /\ TablesOf(y)["dependencies"] = DependencyTable(y)
             /\ TablesOf(y)["timeEvidence"] = TimeEvidenceTable(y)
             /\ TablesOf(y)["policies"] = PolicyTable(y)
             /\ TablesOf(y)["verifications"] = VerificationTable(y)
             /\ TablesOf(y)["revocationEvents"] = RevocationTable(y)
  BY DEF TablesOf
<1> QED  BY <1>1, <1>2 DEF OthersKept

LEMMA WrittenEach ==
  /\ Written["EnsureArtifact"] = "artifacts" /\ Written["AddAttestation"] = "attestations"
  /\ Written["AddDependencyEdges"] = "dependencies" /\ Written["RegisterPolicy"] = "policies"
  /\ Written["SaveVerification"] = "verifications"
  /\ Written["IngestTimeEvidence"] = "timeEvidence"
  /\ Written["UpsertRevocationEvent"] = "revocationEvents"
  BY DEF Written

StepOK == MemoryOK(mem') /\ WritesTable(call') /\ OthersKept(call'.op, mem, mem')

LEMMA EnsureArtifactStep ==
  ASSUME MemoryOK(mem), NEW a \in Uploads, EnsureArtifact(a)
  PROVE  StepOK
<1> DEFINE found == {i \in DOMAIN mem.artifacts : SameArtifact(mem.artifacts[i], a)}
           id == mem.artifactSeq + 1
           r == [id |-> id, name |-> a.name, sha |-> a.sha]
           slice == mem.artifacts
<1>1. mem \in Fields /\ a \in Upload /\ slice \in Seq(ArtifactRecord) /\ Numbered(slice, mem.artifactSeq)
  BY FieldTypes, MemoryAssumption DEF MemoryOK, Counted
<1>2. /\ DOMAIN slice \subseteq Nat /\ Ids(slice) = DOMAIN slice
      /\ \A i \in DOMAIN slice : slice[i].id = i /\ slice[i] \in Rows(slice)
  <2> HIDE DEF slice
  <2> QED  BY <1>1, NumberedRows
<1>3. \A s : SameArtifact(s, a) => ArtifactRow(s) = a
  BY <1>1 DEF SameArtifact, ArtifactRow, Upload
<1> DEFINE Claim(x, answer) == /\ MemoryOK(x)
                               /\ ArtifactTable(x) = ArtifactTable(mem) \cup {a}
                               /\ ArtifactOf(x, answer) = a
                               /\ AttestationTable(x) = AttestationTable(mem)
                               /\ DependencyTable(x) = DependencyTable(mem)
                               /\ TimeEvidenceTable(x) = TimeEvidenceTable(mem)
                               /\ PolicyTable(x) = PolicyTable(mem)
                               /\ VerificationTable(x) = VerificationTable(mem)
                               /\ RevocationTable(x) = RevocationTable(mem)
<1>4. call'.op = "EnsureArtifact" /\ call'.arg = a
  BY DEF EnsureArtifact, Do
<1>5. ASSUME found # {} PROVE Claim(mem', call'.answer)
  <2> DEFINE p == First(found)
  <2>1. mem' = mem /\ call'.answer = slice[p].id
    BY <1>5 DEF EnsureArtifact, Do
  <2>2. p \in found
    BY <1>2, <1>5, FirstIsLeast
  <2> HIDE DEF p
  <2>3. p \in DOMAIN slice /\ ArtifactRow(slice[p]) = a /\ slice[p].id = p /\ p \in Ids(slice)
    BY <1>2, <1>3, <2>2
  <2>4. ArtifactOf(mem, p) = a
    BY <2>3, ArtifactById
  <2>5. a \in ArtifactTable(mem)
    BY <1>2, <2>3 DEF ArtifactTable
  <2>6. Claim(mem', call'.answer)
    BY <2>1, <2>3, <2>4, <2>5
  <2> QED  BY <2>6
<1>6. ASSUME found = {} PROVE Claim(mem', call'.answer)
  <2>1. mem' = [mem EXCEPT !.artifactSeq = id, !.artifacts = Append(mem.artifacts, r)]
        /\ call'.answer = id
    BY <1>6 DEF EnsureArtifact, Do
  <2>2. \A i \in DOMAIN mem.artifacts : ~ SameArtifact(mem.artifacts[i], a)
    BY <1>6
  <2> HIDE DEF found
  <2> DEFINE rows == Append(mem.artifacts, r)
  <2>3. rows \in Seq(ArtifactRecord) /\ id \in Nat
    <3>1. id \in Nat
      BY <1>1 DEF Fields
    <3>2. r \in ArtifactRecord
      BY <1>1, <3>1 DEF ArtifactRecord, Upload
    <3> HIDE DEF r
    <3> QED  BY <1>1, <3>1, <3>2
  <2>4. mem' = [mem EXCEPT !.artifactSeq = id, !.artifacts = rows]
    BY <2>1
  <2> HIDE DEF rows, id
  <2>5. mem' \in Fields
    BY <1>1, <2>3, <2>4 DEF Fields
  <2>6. /\ mem'.artifactSeq = id /\ mem'.artifacts = rows
        /\ mem'.attestSeq = mem.attestSeq /\ mem'.attestations = mem.attestations
        /\ mem'.verifSeq = mem.verifSeq /\ mem'.verifs = mem.verifs
        /\ mem'.verifAttests = mem.verifAttests
        /\ mem'.tteSeq = mem.tteSeq /\ mem'.trustedTimeEvidence = mem.trustedTimeEvidence
        /\ mem'.depSeq = mem.depSeq /\ mem'.dependencies = mem.dependencies
        /\ mem'.policies = mem.policies /\ mem'.revocationEvents = mem.revocationEvents
    BY <1>1, <2>4 DEF Fields
  <2>7. /\ MemoryOK(mem') /\ ArtifactTable(mem') = ArtifactTable(mem) \cup {a}
        /\ ArtifactOf(mem', id) = a
        /\ \A i \in Ids(mem.artifacts) : ArtifactOf(mem', i) = ArtifactOf(mem, i)
    BY <1>1, <2>2, <2>5, <2>6, EnsureArtifactNew DEF rows, id
  <2>8. Claim(mem', call'.answer)
    BY <2>1, <2>6, <2>7, TablesKept
  <2> QED  BY <2>8
<1>7. Claim(mem', call'.answer)
  BY <1>5, <1>6
<1>8. WritesTable(call')
  BY <1>4, <1>7 DEF WritesTable, Tables!EnsureArtifact
<1>9. OthersKept("EnsureArtifact", mem, mem')
  BY <1>7, KeptEach, WrittenEach
<1> QED  BY <1>4, <1>7, <1>8, <1>9 DEF StepOK

LEMMA AddAttestationStep ==
  ASSUME MemoryOK(mem), NEW old \in Rows(mem.artifacts), NEW p \in Proofs,
         AddAttestation(old.id, p)
  PROVE  StepOK
<1> DEFINE id == mem.attestSeq + 1
           rec == [id |-> 0, artifactId |-> old.id, envelope |-> p.envelope,
                   acceptedKey |-> p.acceptedKey]
           r == [rec EXCEPT !.id = id]
           rows == Append(mem.attestations, r)
<1>1. mem \in Fields /\ mem.attestSeq \in Nat /\ mem.attestations \in Seq(AttestationRecord)
  BY FieldTypes DEF MemoryOK, Fields
<1>2. old.id \in Ids(mem.artifacts) /\ old.id \in Nat
  <2>1. mem.artifacts \in Seq(ArtifactRecord)
    BY <1>1, FieldTypes
  <2>2. old \in ArtifactRecord
    BY <2>1 DEF Rows
  <2> QED  BY <2>2 DEF Ids, ArtifactRecord
<1>3. p \in [envelope : Envelopes, acceptedKey : Keys \cup {NoKey}]
  BY MemoryAssumption
<1>4. /\ call'.op = "AddAttestation" /\ call'.arg = rec /\ call'.answer = id
      /\ mem' = [mem EXCEPT !.attestSeq = id, !.attestations = rows]
  BY DEF AddAttestation, Do
<1>5. r \in AttestationRecord /\ r.id = id /\ r.artifactId = old.id
      /\ AttestationOf(mem, r) = AttestationOf(mem, rec)
  BY <1>1, <1>2, <1>3 DEF AttestationRecord, AttestationOf
<1> HIDE DEF rec, r
<1>6. rows \in Seq(AttestationRecord) /\ id \in Nat
  BY <1>1, <1>5
<1> HIDE DEF rows, id
<1>7. mem' \in Fields
  BY <1>1, <1>4, <1>6 DEF Fields
<1>8. /\ mem'.attestSeq = id /\ mem'.attestations = rows
        /\ mem'.artifactSeq = mem.artifactSeq /\ mem'.artifacts = mem.artifacts
        /\ mem'.verifSeq = mem.verifSeq /\ mem'.verifs = mem.verifs
        /\ mem'.verifAttests = mem.verifAttests /\ mem'.tteSeq = mem.tteSeq
        /\ mem'.trustedTimeEvidence = mem.trustedTimeEvidence /\ mem'.depSeq = mem.depSeq
        /\ mem'.dependencies = mem.dependencies /\ mem'.policies = mem.policies
        /\ mem'.revocationEvents = mem.revocationEvents
  BY <1>1, <1>4 DEF Fields
<1>9. /\ MemoryOK(mem')
      /\ AttestationTable(mem') = Append(AttestationTable(mem), AttestationOf(mem, r))
      /\ Len(AttestationTable(mem)) = mem.attestSeq
  BY <1>2, <1>5, <1>7, <1>8, AddAttestationRow DEF rows, id
<1>10. \A i \in Ids(mem.artifacts) : ArtifactOf(mem', i) = ArtifactOf(mem, i)
  BY <1>8, SameArtifactsOf
<1>11. OthersKept("AddAttestation", mem, mem')
  BY <1>8, <1>10, TablesKept, KeptEach, WrittenEach
<1>12. WritesTable(call')
  <2>1. Tables!AddAttestation(AttestationOf(mem, call'.arg))
    BY <1>4, <1>5, <1>9 DEF Tables!AddAttestation
  <2>2. call'.answer = Tables!NextId
    BY <1>4, <1>9 DEF Tables!NextId, id
  <2> QED  BY <1>4, <2>1, <2>2 DEF WritesTable
<1> QED  BY <1>4, <1>9, <1>11, <1>12 DEF StepOK

LEMMA AddDependencyEdgesStep ==
  ASSUME MemoryOK(mem), NEW att \in Rows(mem.attestations), NEW pins \in PinLists,
         AddDependencyEdges(att, pins)
  PROVE  StepOK
<1> DEFINE edges == [i \in DOMAIN pins |->
                       [id |-> 0, artifactId |-> att.artifactId, attestationId |-> att.id,
                        name |-> pins[i].name, sha |-> pins[i].sha]]
<1>1. mem \in Fields /\ mem.attestations \in Seq(AttestationRecord) /\ Referred(mem)
  BY FieldTypes DEF MemoryOK
<1>2. /\ att \in AttestationRecord /\ att.artifactId \in Ids(mem.artifacts)
      /\ att.id \in Ids(mem.attestations)
  BY <1>1 DEF Rows, Referred, Ids
<1>3. pins \in Seq(Pin)
  BY MemoryAssumption
<1>4. Len(pins) \in Nat /\ DOMAIN pins = 1..Len(pins) /\ \A i \in DOMAIN pins : pins[i] \in Pin
  BY <1>3
<1>5. \A i \in DOMAIN pins : /\ edges[i] \in DependencyEdge
                             /\ edges[i].artifactId = att.artifactId
                             /\ edges[i].attestationId = att.id
  BY <1>2, <1>4 DEF DependencyEdge, AttestationRecord, Pin
<1>6. DOMAIN edges = DOMAIN pins /\ edges = [i \in DOMAIN pins |-> edges[i]]
  OBVIOUS
<1>7. call'.op = "AddDependencyEdges" /\ call'.arg = edges /\ mem' = AddEdges(mem, edges)
  BY DEF AddDependencyEdges, Do
<1> HIDE DEF edges
<1>8. edges \in Seq(DependencyEdge)
  <2>1. edges \in [1..Len(pins) -> DependencyEdge]
    BY <1>4, <1>5, <1>6
  <2> QED  BY <1>4, <2>1
<1>9. /\ MemoryOK(mem') /\ OnlyEdges(mem, mem')
      /\ DependencyTable(mem')
           = InsertedAll(DependencyTable(mem), [i \in DOMAIN edges |-> EdgeOf(mem, edges[i])])
  <2>1. \A k \in DOMAIN edges : /\ edges[k].artifactId \in Ids(mem.artifacts)
                                /\ edges[k].attestationId \in Ids(mem.attestations)
    BY <1>2, <1>5, <1>6
  <2> QED  BY <1>7, <1>8, <2>1, AddEdgesInserts
<1>10. \A i \in Ids(mem.artifacts) : ArtifactOf(mem', i) = ArtifactOf(mem, i)
  BY <1>9, SameArtifactsOf DEF OnlyEdges
<1>11. OthersKept("AddDependencyEdges", mem, mem')
  BY <1>9, <1>10, TablesKept, KeptEach, WrittenEach DEF OnlyEdges
<1>12. WritesTable(call')
  BY <1>7, <1>9 DEF WritesTable
<1> QED  BY <1>7, <1>9, <1>11, <1>12 DEF StepOK

LEMMA RegisterPolicyStep ==
  ASSUME MemoryOK(mem), RegisterPolicy(Registered)
  PROVE  StepOK
<1>1. mem \in Fields /\ Counted(mem) /\ Referred(mem) /\ Unique(mem)
  BY DEF MemoryOK
<1>2. /\ call'.op = "RegisterPolicy" /\ call'.arg = Registered
      /\ mem' = [mem EXCEPT !.policies = Put(mem.policies, Registered.id, Registered)]
  BY DEF RegisterPolicy, Do
<1>3. /\ mem' \in Fields
      /\ PolicyTable(mem') = IF \E q \in PolicyTable(mem) : q.id = Registered.id
                             THEN PolicyTable(mem)
                             ELSE PolicyTable(mem)
                                    \cup {[id |-> Registered.id, content |-> Registered]}
  BY <1>2, RegisterPolicyPuts
<1>4. /\ TRUE
        /\ mem'.artifactSeq = mem.artifactSeq /\ mem'.artifacts = mem.artifacts
        /\ mem'.attestSeq = mem.attestSeq /\ mem'.attestations = mem.attestations
        /\ mem'.verifSeq = mem.verifSeq /\ mem'.verifs = mem.verifs
        /\ mem'.verifAttests = mem.verifAttests /\ mem'.tteSeq = mem.tteSeq
        /\ mem'.trustedTimeEvidence = mem.trustedTimeEvidence /\ mem'.depSeq = mem.depSeq
        /\ mem'.dependencies = mem.dependencies /\ mem'.revocationEvents = mem.revocationEvents
  BY <1>1, <1>2 DEF Fields
<1>5. MemoryOK(mem')
  <2>1. Counted(mem')
    BY <1>1, <1>4 DEF Counted
  <2>2. Referred(mem')
    BY <1>1, <1>4 DEF Referred
  <2>3. Unique(mem')
    BY <1>1, <1>4 DEF Unique
  <2> QED  BY <1>3, <2>1, <2>2, <2>3 DEF MemoryOK
<1>6. \A i \in Ids(mem.artifacts) : ArtifactOf(mem', i) = ArtifactOf(mem, i)
  BY <1>4, SameArtifactsOf
<1>7. OthersKept("RegisterPolicy", mem, mem')
  BY <1>4, <1>6, TablesKept, KeptEach, WrittenEach
<1>8. WritesTable(call')
  BY <1>2, <1>3 DEF WritesTable, Tables!RegisterPolicy
<1> QED  BY <1>2, <1>5, <1>7, <1>8 DEF StepOK

LEMMA ArtifactIds ==
  ASSUME NEW m, MemoryOK(m)
  PROVE  Ids(m.artifacts) \subseteq Nat
<1> DEFINE s == m.artifacts
<1>1. s \in Seq(ArtifactRecord) /\ Numbered(s, m.artifactSeq)
  BY FieldTypes DEF MemoryOK, Counted
<1> HIDE DEF s
<1>2. Ids(s) = DOMAIN s /\ DOMAIN s = 1..m.artifactSeq
  BY <1>1, NumberedRows
<1>3. Ids(s) \subseteq Nat
  BY <1>2
<1> QED  BY <1>3 DEF s

\* Rows as a handler hands them over.
GivenRow(ids) ==
  [id : Nat, artifactId : ids, kind : {"", "gate", "review"}, decision : Decisions,
   signatureValid : BOOLEAN, issuerTrusted : BOOLEAN, policyAllowed : BOOLEAN,
   digestMatch : BOOLEAN, class : Classes \cup {""}, feedVersion : Nat]

StoredRow(row, id, kind) == [row EXCEPT !.id = id, !.kind = kind]

LEMMA StoredRowType ==
  ASSUME NEW ids \in SUBSET Nat, NEW row \in GivenRow(ids), NEW id \in Nat,
         NEW kind \in {"gate", "review"}
  PROVE  /\ StoredRow(row, id, kind) \in Verification
         /\ StoredRow(row, id, kind).id = id /\ StoredRow(row, id, kind).artifactId \in ids
<1>1. StoredRow(row, id, kind) \in Verification
  BY DEF GivenRow, StoredRow, Verification
<1>2. StoredRow(row, id, kind).id = id /\ StoredRow(row, id, kind).artifactId \in ids
  BY DEF GivenRow, StoredRow
<1> QED  BY <1>1, <1>2

LEMMA StoredRowTable ==
  ASSUME NEW m, NEW ids, NEW row \in GivenRow(ids), NEW id, NEW kind, NEW verdicts
  PROVE  VerificationOf(m, StoredRow(row, id, kind), verdicts)
           = VerificationOf(m, [row EXCEPT !.kind = kind], verdicts)
<1>1. /\ StoredRow(row, id, kind).kind = kind /\ [row EXCEPT !.kind = kind].kind = kind
  BY DEF GivenRow, StoredRow
<1>2. \A f \in {"artifactId", "decision", "signatureValid", "issuerTrusted", "policyAllowed",
                "digestMatch", "class", "feedVersion"} :
        StoredRow(row, id, kind)[f] = [row EXCEPT !.kind = kind][f]
  BY DEF GivenRow, StoredRow
<1> DEFINE r == StoredRow(row, id, kind)
           s == [row EXCEPT !.kind = kind]
<1>3. /\ r.kind = s.kind /\ r.artifactId = s.artifactId /\ r.decision = s.decision
      /\ r.signatureValid = s.signatureValid /\ r.issuerTrusted = s.issuerTrusted
      /\ r.policyAllowed = s.policyAllowed /\ r.digestMatch = s.digestMatch
      /\ r.class = s.class /\ r.feedVersion = s.feedVersion
  BY <1>1, <1>2
<1> HIDE DEF r, s
<1>4. VerificationOf(m, r, verdicts) = VerificationOf(m, s, verdicts)
  BY <1>3 DEF VerificationOf
<1> QED  BY <1>4 DEF r, s

LEMMA SaveVerificationStep ==
  ASSUME MemoryOK(mem), NEW row \in GivenRow(Ids(mem.artifacts)),
         NEW verdicts \in Seq(Tables!VerdictRow),
         SaveVerification(row, verdicts)
  PROVE  StepOK
<1> DEFINE id == mem.verifSeq + 1
           kind == KindOf(row)
           r == StoredRow(row, id, kind)
           rows == Append(mem.verifs, r)
           lists == Put(mem.verifAttests, id, verdicts)
           S == Seq(Tables!VerdictRow)
<1>1. /\ mem \in Fields /\ mem.verifSeq \in Nat /\ mem.verifs \in Seq(Verification)
      /\ mem.verifAttests \in Seq(S) /\ Len(mem.verifAttests) = mem.verifSeq
  BY FieldTypes DEF MemoryOK, Fields, Counted
<1>2. Ids(mem.artifacts) \subseteq Nat
  BY ArtifactIds
<1>3. /\ call'.op = "SaveVerification" /\ call'.arg = [row |-> row, verdicts |-> verdicts]
      /\ call'.answer = id
      /\ mem' = [mem EXCEPT !.verifSeq = id, !.verifs = rows, !.verifAttests = lists]
  BY DEF SaveVerification, Do, StoredRow
<1>4. kind \in {"gate", "review"}
  <2>1. row.kind \in {"", "gate", "review"}
    BY DEF GivenRow
  <2> QED  BY <2>1 DEF KindOf
<1>5. id \in Nat
  BY <1>1
<1> HIDE DEF kind, id
<1>6. r \in Verification /\ r.id = id /\ r.artifactId \in Ids(mem.artifacts)
  BY <1>2, <1>4, <1>5, StoredRowType
<1>7. VerificationOf(mem, r, verdicts)
        = VerificationOf(mem, [row EXCEPT !.kind = KindOf(row)], verdicts)
  BY StoredRowTable DEF kind
<1> HIDE DEF r
<1>8. rows \in Seq(Verification)
  BY <1>1, <1>6
<1>9. lists \in Seq(S)
  <2> DEFINE n == mem.verifSeq
             s == mem.verifAttests
  <2>1. s \in Seq(S) /\ Len(s) = n /\ verdicts \in S
    BY <1>1
  <2> HIDE DEF S, s, n
  <2>2. Put(s, n + 1, verdicts) \in Seq(S)
    BY <2>1, PutAppends
  <2> QED  BY <2>2 DEF s, n, id
<1> HIDE DEF rows, lists
<1>10. mem' \in Fields
  BY <1>1, <1>3, <1>5, <1>8, <1>9 DEF Fields
<1>11. /\ mem'.verifSeq = id /\ mem'.verifs = rows /\ mem'.verifAttests = lists
        /\ mem'.artifactSeq = mem.artifactSeq /\ mem'.artifacts = mem.artifacts
        /\ mem'.attestSeq = mem.attestSeq /\ mem'.attestations = mem.attestations
        /\ mem'.tteSeq = mem.tteSeq /\ mem'.trustedTimeEvidence = mem.trustedTimeEvidence
        /\ mem'.depSeq = mem.depSeq /\ mem'.dependencies = mem.dependencies
        /\ mem'.policies = mem.policies /\ mem'.revocationEvents = mem.revocationEvents
  BY <1>1, <1>3 DEF Fields
<1>12. /\ MemoryOK(mem')
       /\ VerificationTable(mem') = Append(VerificationTable(mem), VerificationOf(mem, r, verdicts))
       /\ Len(VerificationTable(mem')) = id
  BY <1>6, <1>10, <1>11, SaveVerificationRow DEF rows, lists, id
<1>13. \A i \in Ids(mem.artifacts) : ArtifactOf(mem', i) = ArtifactOf(mem, i)
  BY <1>11, SameArtifactsOf
<1>14. OthersKept("SaveVerification", mem, mem')
  BY <1>11, <1>13, TablesKept, KeptEach, WrittenEach
<1>15. WritesTable(call')
  <2>1. call'.arg.row = row /\ call'.arg.verdicts = verdicts
    BY <1>3
  <2>2. Tables!SaveVerification(VerificationOf(mem, [call'.arg.row EXCEPT !.kind = KindOf(call'.arg.row)],
                                               call'.arg.verdicts))
    BY <1>7, <1>12, <2>1 DEF Tables!SaveVerification
  <2> QED  BY <1>3, <1>12, <2>2 DEF WritesTable
<1> QED  BY <1>3, <1>12, <1>14, <1>15 DEF StepOK

LEMMA IngestTimeEvidenceStep ==
  ASSUME MemoryOK(mem), NEW ev \in Stamps, IngestTimeEvidence(ev)
  PROVE  StepOK
<1> DEFINE slice == mem.trustedTimeEvidence
           found == {i \in DOMAIN slice : SameStamp(slice[i], ev)}
           id == mem.tteSeq + 1
           r == [id |-> id, envelope |-> ev.envelope, tsa |-> ev.tsa, time |-> ev.time]
           Claim(x, answer) == /\ MemoryOK(x)
                               /\ TimeEvidenceTable(x) = TimeEvidenceTable(mem) \cup {ev}
                               /\ \E t \in Rows(x.trustedTimeEvidence) :
                                    t.id = answer /\ StampRow(t) = ev
                               /\ ArtifactTable(x) = ArtifactTable(mem)
                               /\ AttestationTable(x) = AttestationTable(mem)
                               /\ DependencyTable(x) = DependencyTable(mem)
                               /\ PolicyTable(x) = PolicyTable(mem)
                               /\ VerificationTable(x) = VerificationTable(mem)
                               /\ RevocationTable(x) = RevocationTable(mem)
<1>1. /\ mem \in Fields /\ mem.tteSeq \in Nat /\ slice \in Seq(TimeEvidenceRecord)
      /\ ev \in Stamp
  BY MemoryAssumption, FieldTypes DEF MemoryOK, Fields, Stamp
<1>2. found \subseteq Nat
  <2>1. DOMAIN slice = 1..Len(slice) /\ Len(slice) \in Nat
    BY <1>1
  <2> QED  BY <2>1
<1>3. \A i \in found : i \in DOMAIN slice /\ slice[i] \in Rows(slice) /\ StampRow(slice[i]) = ev
  BY <1>1 DEF Rows, SameStamp, StampRow, Stamp
<1>4. call'.op = "IngestTimeEvidence" /\ call'.arg = ev
  BY DEF IngestTimeEvidence, Do
<1>5. ASSUME found # {} PROVE Claim(mem', call'.answer)
  <2> DEFINE p == First(found)
  <2>1. mem' = mem /\ call'.answer = slice[p].id
    BY <1>5 DEF IngestTimeEvidence, Do
  <2>2. p \in found
    BY <1>2, <1>5, FirstIsLeast
  <2> HIDE DEF p
  <2>3. slice[p] \in Rows(slice) /\ StampRow(slice[p]) = ev
    BY <1>3, <2>2
  <2>4. ev \in TimeEvidenceTable(mem)
    BY <2>3 DEF TimeEvidenceTable
  <2>5. \E t \in Rows(mem'.trustedTimeEvidence) : t.id = call'.answer /\ StampRow(t) = ev
    BY <2>1, <2>3
  <2>6. Claim(mem', call'.answer)
    BY <2>1, <2>4, <2>5
  <2> QED  BY <2>6
<1>6. ASSUME found = {} PROVE Claim(mem', call'.answer)
  <2>1. mem' = [mem EXCEPT !.tteSeq = id, !.trustedTimeEvidence = Append(slice, r)]
        /\ call'.answer = id
    BY <1>6 DEF IngestTimeEvidence, Do
  <2>2. \A i \in DOMAIN mem.trustedTimeEvidence : ~ SameStamp(mem.trustedTimeEvidence[i], ev)
    BY <1>6
  <2> HIDE DEF found
  <2> DEFINE rows == Append(slice, r)
  <2>3. rows \in Seq(TimeEvidenceRecord) /\ id \in Nat
    <3>1. id \in Nat
      BY <1>1
    <3>2. r \in TimeEvidenceRecord
      BY <1>1, <3>1 DEF TimeEvidenceRecord, Stamp
    <3> HIDE DEF r, slice
    <3> QED  BY <1>1, <3>1, <3>2
  <2>4. mem' = [mem EXCEPT !.tteSeq = id, !.trustedTimeEvidence = rows]
    BY <2>1
  <2> HIDE DEF rows, id
  <2>5. mem' \in Fields
    BY <1>1, <2>3, <2>4 DEF Fields
  <2>6. /\ mem'.tteSeq = id /\ mem'.trustedTimeEvidence = rows
        /\ mem'.artifactSeq = mem.artifactSeq /\ mem'.artifacts = mem.artifacts
        /\ mem'.attestSeq = mem.attestSeq /\ mem'.attestations = mem.attestations
        /\ mem'.verifSeq = mem.verifSeq /\ mem'.verifs = mem.verifs
        /\ mem'.verifAttests = mem.verifAttests
        /\ mem'.depSeq = mem.depSeq /\ mem'.dependencies = mem.dependencies
        /\ mem'.policies = mem.policies /\ mem'.revocationEvents = mem.revocationEvents
    BY <1>1, <2>4 DEF Fields
  <2>7. /\ MemoryOK(mem') /\ TimeEvidenceTable(mem') = TimeEvidenceTable(mem) \cup {ev}
        /\ r \in Rows(mem'.trustedTimeEvidence) /\ r.id = id /\ StampRow(r) = ev
    <3>1. r \in TimeEvidenceRecord /\ KeepsStamp(r, mem.tteSeq + 1, ev)
      BY <1>1, <2>3 DEF TimeEvidenceRecord, Stamp, KeepsStamp, id
    <3> HIDE DEF r, slice
    <3>3. /\ mem'.tteSeq = mem.tteSeq + 1
          /\ mem'.trustedTimeEvidence = Append(mem.trustedTimeEvidence, r)
      BY <2>6 DEF rows, id, slice
    <3>2. /\ MemoryOK(mem') /\ TimeEvidenceTable(mem') = TimeEvidenceTable(mem) \cup {ev}
          /\ r \in Rows(mem'.trustedTimeEvidence) /\ r.id = mem.tteSeq + 1 /\ StampRow(r) = ev
      <4>1. StampAdded(mem, mem', r)
        BY <2>6, <3>3 DEF StampAdded
      <4> QED  BY <1>1, <2>2, <2>5, <3>1, <4>1, IngestTimeEvidenceNew
    <3> QED  BY <3>2 DEF id
  <2> HIDE DEF r
  <2>8. \E t \in Rows(mem'.trustedTimeEvidence) : t.id = call'.answer /\ StampRow(t) = ev
    BY <2>1, <2>7
  <2>9. \A i \in Ids(mem.artifacts) : ArtifactOf(mem', i) = ArtifactOf(mem, i)
    BY <2>6, SameArtifactsOf
  <2>10. Claim(mem', call'.answer)
    BY <2>6, <2>7, <2>8, <2>9, TablesKept
  <2> QED  BY <2>10
<1>7. Claim(mem', call'.answer)
  BY <1>5, <1>6
<1>8. WritesTable(call')
  <2>1. Tables!IngestRow(call'.arg)
    BY <1>4, <1>7 DEF Tables!IngestRow
  <2>2. \E t \in Rows(mem.trustedTimeEvidence)' : t.id = call'.answer /\ StampRow(t) = call'.arg
    BY <1>4, <1>7 DEF Rows
  <2> QED  BY <1>4, <2>1, <2>2 DEF WritesTable
<1>9. OthersKept("IngestTimeEvidence", mem, mem')
  BY <1>7, KeptEach, WrittenEach
<1> QED  BY <1>4, <1>7, <1>8, <1>9 DEF StepOK

LEMMA UpsertRevocationEventStep ==
  ASSUME MemoryOK(mem), NEW ev \in Events, UpsertRevocationEvent(ev)
  PROVE  StepOK
<1> DEFINE slice == mem.revocationEvents
           found == {i \in DOMAIN slice : slice[i].key = ev.key}
           rows == IF found # {} THEN [slice EXCEPT ![First(found)] = ev] ELSE Append(slice, ev)
<1>1. /\ mem \in Fields /\ slice \in Seq(RevocationEventRecord) /\ ev \in RevocationEventRecord
  BY MemoryAssumption, FieldTypes DEF MemoryOK, RevocationEventRecord
<1>2. found \subseteq DOMAIN slice /\ found \subseteq Nat
  <2>1. DOMAIN slice = 1..Len(slice) /\ Len(slice) \in Nat
    BY <1>1
  <2> QED  BY <2>1
<1>3. /\ call'.op = "UpsertRevocationEvent" /\ call'.arg = ev
      /\ mem' = [mem EXCEPT !.revocationEvents = rows]
  BY DEF UpsertRevocationEvent, Do
<1>4. \/ /\ \A i \in DOMAIN slice : slice[i].key # ev.key
         /\ rows = Append(slice, ev)
      \/ \E p \in DOMAIN slice : slice[p].key = ev.key /\ rows = [slice EXCEPT ![p] = ev]
  <2>1. CASE found = {}
    BY <2>1
  <2>2. CASE found # {}
    <3>1. First(found) \in found
      BY <1>2, <2>2, FirstIsLeast
    <3> QED  BY <2>2, <3>1
  <2> QED  BY <2>1, <2>2
<1> HIDE DEF slice, found, rows
<1>5. rows \in Seq(RevocationEventRecord)
  BY <1>1, <1>4
<1>6. mem' \in Fields
  BY <1>1, <1>3, <1>5 DEF Fields
<1>7. /\ mem'.revocationEvents = rows
      /\ mem'.artifactSeq = mem.artifactSeq /\ mem'.artifacts = mem.artifacts
      /\ mem'.attestSeq = mem.attestSeq /\ mem'.attestations = mem.attestations
      /\ mem'.verifSeq = mem.verifSeq /\ mem'.verifs = mem.verifs
      /\ mem'.verifAttests = mem.verifAttests
      /\ mem'.tteSeq = mem.tteSeq /\ mem'.trustedTimeEvidence = mem.trustedTimeEvidence
      /\ mem'.depSeq = mem.depSeq /\ mem'.dependencies = mem.dependencies
      /\ mem'.policies = mem.policies
  BY <1>1, <1>3 DEF Fields
<1>8. /\ MemoryOK(mem')
      /\ Upserted(RevocationTable(mem), RevocationTable(mem'), ev.key, EventRow(ev))
  <2>1. Recorded(mem.revocationEvents, mem'.revocationEvents, ev)
    BY <1>4, <1>7 DEF slice, Recorded
  <2> QED  BY <1>1, <1>6, <1>7, <2>1, UpsertRevocationEventPuts
<1>9. \A i \in Ids(mem.artifacts) : ArtifactOf(mem', i) = ArtifactOf(mem, i)
  BY <1>7, SameArtifactsOf
<1>10. OthersKept("UpsertRevocationEvent", mem, mem')
  BY <1>7, <1>9, TablesKept, KeptEach, WrittenEach
<1>11. WritesTable(call')
  BY <1>3, <1>8 DEF WritesTable, Upserted, Tables!UpsertRevocationEvent
<1> QED  BY <1>3, <1>8, <1>10, <1>11 DEF StepOK

\* The rows the handlers save.
LEMMA OneVerdict ==
  ASSUME NEW m, MemoryOK(m), NEW r \in Rows(m.attestations)
  PROVE  <<Verdict1(r.id)>> \in Seq(Tables!VerdictRow)
<1> DEFINE s == m.attestations
           v == Verdict1(r.id)
           S == Tables!VerdictRow
<1>1. s \in Seq(AttestationRecord) /\ Numbered(s, m.attestSeq) /\ r \in Rows(s)
  BY FieldTypes DEF MemoryOK, Counted
<1> HIDE DEF s
<1>2. m.attestSeq \in Nat /\ DOMAIN s = 1..m.attestSeq /\ r.id \in DOMAIN s
  BY <1>1, NumberedRows
<1>3. r.id \in Nat \ {0}
  BY <1>2
<1>4. v \in S
  BY <1>3 DEF Tables!VerdictRow, Verdict1
<1> HIDE DEF v, S
<1>5. <<v>> \in Seq(S)
  BY <1>4
<1> QED  BY <1>5 DEF v, S

LEMMA GateRow ==
  ASSUME MemoryOK(mem), NEW r \in Rows(mem.attestations),
         SaveVerification(Row(r.artifactId, ""), <<Verdict1(r.id)>>)
  PROVE  StepOK
<1>1. mem \in Fields /\ Referred(mem) /\ Counted(mem)
  BY DEF MemoryOK
<1>2. r.artifactId \in Ids(mem.artifacts)
  BY <1>1 DEF Referred
<1>3. Row(r.artifactId, "") \in GivenRow(Ids(mem.artifacts))
  BY <1>2 DEF Row, GivenRow, Decisions, Classes
<1>4. <<Verdict1(r.id)>> \in Seq(Tables!VerdictRow)
  BY OneVerdict
<1> QED  BY <1>3, <1>4, SaveVerificationStep

LEMMA ReviewRow ==
  ASSUME MemoryOK(mem), NEW r \in Rows(mem.artifacts),
         SaveVerification(Row(r.id, "review"), <<>>)
  PROVE  StepOK
<1>1. Row(r.id, "review") \in GivenRow(Ids(mem.artifacts))
  BY DEF Row, GivenRow, Decisions, Classes, Ids
<1>2. <<>> \in Seq(Tables!VerdictRow)
  OBVIOUS
<1> QED  BY <1>1, <1>2, SaveVerificationStep

LEMMA EveryStep ==
  ASSUME MemoryOK(mem), MemoryNext
  PROVE  StepOK
<1>1. CASE \E a \in Uploads : EnsureArtifact(a)
  BY <1>1, EnsureArtifactStep
<1>2. CASE \E r \in Rows(mem.artifacts), p \in Proofs : AddAttestation(r.id, p)
  BY <1>2, AddAttestationStep
<1>3. CASE \E r \in Rows(mem.attestations), pins \in PinLists : AddDependencyEdges(r, pins)
  BY <1>3, AddDependencyEdgesStep
<1>4. CASE RegisterPolicy(Registered)
  BY <1>4, RegisterPolicyStep
<1>5. CASE \E r \in Rows(mem.attestations) :
             SaveVerification(Row(r.artifactId, ""), <<Verdict1(r.id)>>)
  BY <1>5, GateRow
<1>6. CASE \E r \in Rows(mem.artifacts) : SaveVerification(Row(r.id, "review"), <<>>)
  BY <1>6, ReviewRow
<1>7. CASE \E ev \in Stamps : IngestTimeEvidence(ev)
  BY <1>7, IngestTimeEvidenceStep
<1>8. CASE \E ev \in Events : UpsertRevocationEvent(ev)
  BY <1>8, UpsertRevocationEventStep
<1> QED  BY <1>1, <1>2, <1>3, <1>4, <1>5, <1>6, <1>7, <1>8 DEF MemoryNext

LEMMA CallsCounted ==
  ASSUME calls \in 0..MaxCalls, MemoryNext
  PROVE  calls' \in 0..MaxCalls
<1>1. MaxCalls \in Nat
  BY MemoryAssumption
<1>2. calls < MaxCalls /\ calls' = calls + 1
  BY DEF MemoryNext, EnsureArtifact, AddAttestation, AddDependencyEdges, RegisterPolicy,
         SaveVerification, IngestTimeEvidence, UpsertRevocationEvent, Do
<1> QED  BY <1>1, <1>2

LEMMA EmptyStore ==
  ASSUME MemoryInit
  PROVE  MemoryOK(mem) /\ calls \in 0..MaxCalls /\ Tables!StoreInit
<1>1. /\ mem.artifactSeq = 0 /\ mem.attestSeq = 0 /\ mem.verifSeq = 0 /\ mem.tteSeq = 0
      /\ mem.depSeq = 0 /\ mem.artifacts = <<>> /\ mem.attestations = <<>>
      /\ mem.policies = <<>> /\ mem.verifs = <<>> /\ mem.verifAttests = <<>>
      /\ mem.revocationEvents = <<>> /\ mem.trustedTimeEvidence = <<>>
      /\ mem.dependencies = <<>>
  BY DEF MemoryInit
<1>2. mem \in Fields
  BY DEF MemoryInit, Fields
<1>3. Rows(<<>>) = {} /\ DOMAIN <<>> = {}
  BY DEF Rows
<1>4. Numbered(<<>>, 0)
  BY DEF Numbered
<1>5. Counted(mem)
  BY <1>1, <1>4 DEF Counted
<1>6. Referred(mem) /\ Unique(mem)
  BY <1>1, <1>3 DEF Referred, Unique
<1>7. MemoryOK(mem)
  BY <1>2, <1>5, <1>6 DEF MemoryOK
<1>8. /\ ArtifactTable(mem) = {} /\ TimeEvidenceTable(mem) = {} /\ PolicyTable(mem) = {}
  BY <1>1, <1>3 DEF ArtifactTable, TimeEvidenceTable, PolicyTable
<1>9. /\ AttestationTable(mem) = <<>> /\ DependencyTable(mem) = <<>>
      /\ VerificationTable(mem) = <<>> /\ RevocationTable(mem) = <<>>
  <2>1. AttestationTable(mem) = <<>>
    BY <1>1, <1>3 DEF AttestationTable
  <2>2. DependencyTable(mem) = <<>>
    BY <1>1, <1>3 DEF DependencyTable
  <2>3. VerificationTable(mem) = <<>>
    BY <1>1, <1>3 DEF VerificationTable
  <2>4. RevocationTable(mem) = <<>>
    BY <1>1, <1>3 DEF RevocationTable
  <2> QED  BY <2>1, <2>2, <2>3, <2>4
<1>10. Tables!StoreInit
  BY <1>8, <1>9 DEF Tables!StoreInit
<1>11. calls \in 0..MaxCalls
  BY MemoryAssumption DEF MemoryInit
<1> QED  BY <1>7, <1>10, <1>11

-----------------------------------------------------------------------------
(* Theorems.                                                               *)

MemoryInv == MemoryOK(mem) /\ calls \in 0..MaxCalls

LEMMA MemoryInvAlways == MemorySpec => []MemoryInv
<1>1. MemoryInit => MemoryInv
  BY EmptyStore DEF MemoryInv
<1>2. MemoryInv /\ [MemoryNext]_memoryVars => MemoryInv'
  <2> SUFFICES ASSUME MemoryInv, [MemoryNext]_memoryVars PROVE MemoryInv'
    OBVIOUS
  <2>1. CASE MemoryNext
    BY <2>1, EveryStep, CallsCounted DEF MemoryInv, StepOK
  <2>2. CASE UNCHANGED memoryVars
    BY <2>2 DEF MemoryInv, memoryVars
  <2> QED  BY <2>1, <2>2
<1> QED  BY <1>1, <1>2, PTL DEF MemorySpec

\* In every state of the store in memory the counters count the rows of their
\* slices, foreign keys lead to rows, no artifact, time stamp or revocation
\* event is there twice, and the tables the slices stand for have the types of
\* the database's, whatever the handlers call and in whatever order.
THEOREM MemoryTypes == MemorySpec => []MemoryTypeOK
<1>1. MemoryInv => MemoryTypeOK
  BY TablesTyped DEF MemoryInv, MemoryTypeOK
<1> QED  BY <1>1, MemoryInvAlways, PTL

\* Every call of the store in memory does to its table what the PostgreSQL
\* store does, answers with the id of the row stored or found, and leaves the
\* other tables alone, for any number of calls with any arguments.
THEOREM MemoryRefines == MemorySpec => ImplementsTables
<1> DEFINE Meets == \E c \in {call'} :
                      /\ WritesTable(c)
                      /\ \A t \in DOMAIN TablesOf(mem) \ {Written[c.op]} :
                           TablesOf(mem')[t] = TablesOf(mem)[t]
<1>1. MemoryInit => Tables!StoreInit
  BY EmptyStore
<1>2. MemoryInv /\ [MemoryNext]_memoryVars => [Meets]_memoryVars
  <2> SUFFICES ASSUME MemoryInv, MemoryNext PROVE Meets
    OBVIOUS
  <2>1. StepOK
    BY EveryStep DEF MemoryInv
  <2>2. WritesTable(call')
    BY <2>1 DEF StepOK
  <2>3. \A t \in DOMAIN TablesOf(mem) \ {Written[call'.op]} :
          TablesOf(mem')[t] = TablesOf(mem)[t]
    BY <2>1 DEF StepOK, OthersKept
  <2> WITNESS call' \in {call'}
  <2> QED  BY <2>2, <2>3
<1> HIDE DEF Meets
<1>3. MemorySpec => Tables!StoreInit /\ [][Meets]_memoryVars
  BY <1>1, <1>2, MemoryInvAlways, PTL DEF MemorySpec
<1> QED  BY <1>3 DEF Meets, ImplementsTables

-----------------------------------------------------------------------------
(* Reads.                                                                  *)

LEMMA CollectedRows ==
  ASSUME NEW R, NEW slice \in Seq(R), NEW n, Numbered(slice, n),
         NEW positions \in SUBSET DOMAIN slice
  PROVE  /\ Enumerates(Collect(slice, positions), positions)
         /\ Rows(Collect(slice, positions)) = {slice[p] : p \in positions}
         /\ \A r \in Rows(Collect(slice, positions)) : r.id \in positions /\ r = slice[r.id]
         /\ \A i, j \in DOMAIN Collect(slice, positions) :
              Collect(slice, positions)[i] = Collect(slice, positions)[j] => i = j
<1> DEFINE s == Collect(slice, positions)
<1>1. \A i \in DOMAIN slice : slice[i].id = i
  BY DEF Numbered
<1>2. /\ s \in Seq(R) /\ Enumerates(s, positions)
      /\ \A r \in Rows(s) : r.id \in positions /\ r = slice[r.id]
  BY <1>1, CollectEnumerates
<1> HIDE DEF s
<1>3. (\A i, j \in DOMAIN s : i < j => s[i].id < s[j].id) /\ Ids(s) = positions
  BY <1>2 DEF Enumerates
<1>4. \A r \in Rows(s) : r \in {slice[p] : p \in positions}
  BY <1>2
<1>5. ASSUME NEW p \in positions PROVE slice[p] \in Rows(s)
  <2>1. PICK r \in Rows(s) : r.id = p
    BY <1>3 DEF Ids
  <2> QED  BY <1>2, <2>1
<1>6. Rows(s) = {slice[p] : p \in positions}
  BY <1>4, <1>5
<1>7. ASSUME NEW i \in DOMAIN s, NEW j \in DOMAIN s, s[i] = s[j] PROVE i = j
  <2>1. DOMAIN s = 1..Len(s) /\ Len(s) \in Nat
    BY <1>2
  <2>2. s[i] \in Rows(s) /\ s[i].id \in positions
    BY <1>2 DEF Rows
  <2>3. DOMAIN slice = 1..Len(slice) /\ Len(slice) \in Nat
    OBVIOUS
  <2>4. s[i].id \in Int
    BY <2>2, <2>3
  <2>5. ~ (i < j) /\ ~ (j < i)
    BY <1>3, <1>7, <2>4
  <2> QED  BY <2>1, <2>5
<1> QED  BY <1>2, <1>6, <1>7 DEF s

\* The rows of a slice that refer to an artifact are the rows of its table that
\* have it.
LEMMA ReferredRows ==
  ASSUME NEW m, MemoryOK(m), NEW id \in Ids(m.artifacts), NEW slice,
         \A i \in DOMAIN slice : slice[i].artifactId \in Ids(m.artifacts),
         NEW table, DOMAIN table = DOMAIN slice,
         \A i \in DOMAIN slice : table[i].artifact = ArtifactOf(m, slice[i].artifactId)
  PROVE  {i \in DOMAIN slice : slice[i].artifactId = id}
           = {i \in DOMAIN table : table[i].artifact = ArtifactOf(m, id)}
<1>1. \A i \in DOMAIN slice : ArtifactOf(m, slice[i].artifactId) = ArtifactOf(m, id)
                                => slice[i].artifactId = id
  BY ArtifactOfInjective
<1> QED  BY <1>1

\* By an artifact's id.
LEMMA ArtifactAnswers ==
  ASSUME MemoryOK(mem), NEW r \in Rows(mem.artifacts)
  PROVE  LET a      == ArtifactRow(r)
             verifs == ListVerifications(mem, r.id)
         IN  /\ GetArtifact(mem, r.name, r.sha) = <<r>> /\ GetArtifactByID(mem, r.id) = <<r>>
             /\ Tables!GetArtifact(r.name, r.sha) = {a}
             /\ Enumerates(ListAttestations(mem, r.id), Tables!ListAttestations(a))
             /\ Enumerates(ListDependencyEdges(mem, r.id), Tables!ListDependencyEdges(a))
             /\ Enumerates(verifs, DOMAIN Tables!ListVerifications(a))
             /\ \A v \in Rows(verifs) :
                  Tables!ListVerifications(a)[v.id]
                    = Tables!RowAlone(VerificationOf(mem, v, mem.verifAttests[v.id]))
<1> DEFINE a == ArtifactRow(r)
           slice == mem.artifacts
<1>1. /\ mem \in Fields /\ slice \in Seq(ArtifactRecord) /\ Numbered(slice, mem.artifactSeq)
      /\ Unique(mem) /\ Counted(mem)
  BY FieldTypes DEF MemoryOK, Counted
<1>2. /\ r \in ArtifactRecord /\ r.id \in DOMAIN slice /\ slice[r.id] = r /\ r.id \in Ids(slice)
      /\ DOMAIN slice = 1..mem.artifactSeq /\ \A i \in DOMAIN slice : slice[i] \in Rows(slice)
      /\ \A i \in DOMAIN slice : slice[i].id = i
  <2> HIDE DEF slice
  <2>1. r \in Rows(slice)
    BY DEF slice
  <2> QED  BY <1>1, <2>1, NumberedRows
<1>3. GetArtifactByID(mem, r.id) = <<r>> /\ ArtifactOf(mem, r.id) = a
  BY <1>2, ArtifactById
<1>4. GetArtifact(mem, r.name, r.sha) = <<r>>
  <2> DEFINE found == {i \in DOMAIN slice : slice[i].name = r.name /\ slice[i].sha = r.sha}
  <2>1. \A s \in Rows(slice) : s.name = r.name /\ s.sha = r.sha => s = r
    BY <1>1 DEF Unique, SameArtifact
  <2>2. found = {r.id}
    BY <1>2, <2>1
  <2>3. r.id <= r.id
    BY <1>1, <1>2 DEF ArtifactRecord
  <2> HIDE DEF found
  <2>4. First(found) = r.id /\ found # {}
    BY <2>2, <2>3 DEF First
  <2> QED  BY <1>2, <2>4 DEF GetArtifact, FirstRow, found
<1>5. Tables!GetArtifact(r.name, r.sha) = {a}
  <2>1. a \in ArtifactTable(mem) /\ a.name = r.name /\ a.sha = r.sha
    BY DEF ArtifactTable, ArtifactRow
  <2>2. \A x \in ArtifactTable(mem) : x.name = r.name /\ x.sha = r.sha => x = a
    BY DEF ArtifactTable, ArtifactRow
  <2> QED  BY <2>1, <2>2 DEF Tables!GetArtifact
<1> HIDE DEF a
<1>6. Enumerates(ListAttestations(mem, r.id), Tables!ListAttestations(a))
  <2> DEFINE rows == mem.attestations
             positions == {i \in DOMAIN rows : rows[i].artifactId = r.id}
             table == AttestationTable(mem)
  <2>1. rows \in Seq(AttestationRecord) /\ Numbered(rows, mem.attestSeq)
    BY <1>1, FieldTypes DEF Counted
  <2>2. DOMAIN table = DOMAIN rows
        /\ \A i \in DOMAIN rows : table[i].artifact = ArtifactOf(mem, rows[i].artifactId)
    BY DEF AttestationTable, AttestationOf
  <2>3. \A i \in DOMAIN rows : rows[i].artifactId \in Ids(mem.artifacts)
    BY RowsReferred
  <2> HIDE DEF table, rows
  <2>4. positions = {i \in DOMAIN table : table[i].artifact = a}
    BY <1>2, <1>3, <2>2, <2>3, ReferredRows
  <2>5. positions \in SUBSET DOMAIN rows
    OBVIOUS
  <2> HIDE DEF positions
  <2>6. Enumerates(Collect(rows, positions), positions)
    BY <2>1, <2>5, CollectedRows
  <2>7. ListAttestations(mem, r.id) = Collect(rows, positions)
    BY DEF ListAttestations, rows, positions
  <2>8. Tables!ListAttestations(a) = positions
    BY <2>4 DEF Tables!ListAttestations, table
  <2> QED  BY <2>6, <2>7, <2>8
<1>7. Enumerates(ListDependencyEdges(mem, r.id), Tables!ListDependencyEdges(a))
  <2> DEFINE rows == mem.dependencies
             positions == {i \in DOMAIN rows : rows[i].artifactId = r.id}
             table == DependencyTable(mem)
  <2>1. rows \in Seq(DependencyEdge) /\ Numbered(rows, mem.depSeq)
    BY <1>1, FieldTypes DEF Counted
  <2>2. DOMAIN table = DOMAIN rows
        /\ \A i \in DOMAIN rows : table[i].artifact = ArtifactOf(mem, rows[i].artifactId)
    BY DEF DependencyTable, EdgeOf
  <2>3. \A i \in DOMAIN rows : rows[i].artifactId \in Ids(mem.artifacts)
    BY RowsReferred
  <2> HIDE DEF table, rows
  <2>4. positions = {i \in DOMAIN table : table[i].artifact = a}
    BY <1>2, <1>3, <2>2, <2>3, ReferredRows
  <2>5. positions \in SUBSET DOMAIN rows
    OBVIOUS
  <2> HIDE DEF positions
  <2>6. Enumerates(Collect(rows, positions), positions)
    BY <2>1, <2>5, CollectedRows
  <2>7. ListDependencyEdges(mem, r.id) = Collect(rows, positions)
    BY DEF ListDependencyEdges, rows, positions
  <2>8. Tables!ListDependencyEdges(a) = positions
    BY <2>4 DEF Tables!ListDependencyEdges, table
  <2> QED  BY <2>6, <2>7, <2>8
<1>8. /\ Enumerates(ListVerifications(mem, r.id), DOMAIN Tables!ListVerifications(a))
      /\ \A v \in Rows(ListVerifications(mem, r.id)) :
           Tables!ListVerifications(a)[v.id]
             = Tables!RowAlone(VerificationOf(mem, v, mem.verifAttests[v.id]))
  <2> DEFINE rows == mem.verifs
             positions == {i \in DOMAIN rows : rows[i].artifactId = r.id}
             table == VerificationTable(mem)
  <2>1. rows \in Seq(Verification) /\ Numbered(rows, mem.verifSeq)
    BY <1>1, FieldTypes DEF Counted
  <2>2. DOMAIN table = DOMAIN rows
        /\ \A i \in DOMAIN rows : table[i].artifact = ArtifactOf(mem, rows[i].artifactId)
    BY DEF VerificationTable, VerificationOf
  <2>3. \A i \in DOMAIN rows : table[i] = VerificationOf(mem, rows[i], mem.verifAttests[rows[i].id])
    BY DEF VerificationTable
  <2>4. \A i \in DOMAIN rows : rows[i].artifactId \in Ids(mem.artifacts) /\ rows[i].id = i
    BY RowsReferred
  <2> HIDE DEF table, rows
  <2>5. positions = {i \in DOMAIN table : table[i].artifact = a}
    BY <1>2, <1>3, <2>2, <2>4, ReferredRows
  <2>6. positions \in SUBSET DOMAIN rows
    OBVIOUS
  <2> HIDE DEF positions
  <2>7. /\ Enumerates(Collect(rows, positions), positions)
        /\ \A v \in Rows(Collect(rows, positions)) : v.id \in positions /\ v = rows[v.id]
    BY <2>1, <2>6, CollectedRows
  <2>8. ListVerifications(mem, r.id) = Collect(rows, positions)
    BY DEF ListVerifications, rows, positions
  <2>9. Tables!ListVerifications(a) = [i \in positions |-> Tables!RowAlone(table[i])]
    BY <2>5 DEF Tables!ListVerifications, table
  <2>10. ASSUME NEW v \in Rows(ListVerifications(mem, r.id))
         PROVE  Tables!ListVerifications(a)[v.id]
                  = Tables!RowAlone(VerificationOf(mem, v, mem.verifAttests[v.id]))
    <3>1. v.id \in positions /\ v = rows[v.id] /\ v.id \in DOMAIN rows
      BY <2>6, <2>7, <2>8
    <3>2. Tables!ListVerifications(a)[v.id] = Tables!RowAlone(table[v.id])
      BY <2>9, <3>1
    <3>3. table[v.id] = VerificationOf(mem, v, mem.verifAttests[v.id])
      BY <2>3, <3>1
    <3> QED  BY <3>2, <3>3
  <2> QED  BY <2>7, <2>8, <2>9, <2>10
<1> QED  BY <1>3, <1>4, <1>5, <1>6, <1>7, <1>8 DEF a

LEMMA NameAnswers ==
  ASSUME MemoryOK(mem), NEW n
  PROVE  LET rows == FindArtifactByName(mem, n)
         IN  /\ {ArtifactRow(r) : r \in Rows(rows)} = Tables!FindArtifactByName(n)
             /\ \A i, j \in DOMAIN rows : SameArtifact(rows[i], rows[j]) => i = j
<1> DEFINE slice == mem.artifacts
           positions == {i \in DOMAIN slice : slice[i].name = n}
           rows == Collect(slice, positions)
<1>1. /\ slice \in Seq(ArtifactRecord) /\ Numbered(slice, mem.artifactSeq)
      /\ \A r, s \in Rows(slice) : SameArtifact(r, s) => r = s
  BY FieldTypes DEF MemoryOK, Counted, Unique
<1>2. FindArtifactByName(mem, n) = rows
  BY DEF FindArtifactByName
<1>3. positions \in SUBSET DOMAIN slice /\ \A i \in positions : slice[i].name = n
  OBVIOUS
<1>4. {ArtifactRow(slice[i]) : i \in positions} = Tables!FindArtifactByName(n)
  <2>1. \A r : ArtifactRow(r).name = r.name
    BY DEF ArtifactRow
  <2>2. Tables!FindArtifactByName(n) = {x \in {ArtifactRow(slice[i]) : i \in DOMAIN slice} : x.name = n}
    <3>1. ArtifactTable(mem) = {ArtifactRow(slice[i]) : i \in DOMAIN slice}
      BY DEF ArtifactTable, Rows
    <3> QED  BY <3>1 DEF Tables!FindArtifactByName
  <2> QED  BY <2>1, <2>2
<1> HIDE DEF positions, slice
<1>5. /\ Rows(rows) = {slice[p] : p \in positions}
      /\ \A i, j \in DOMAIN rows : rows[i] = rows[j] => i = j
  BY <1>1, <1>3, CollectedRows
<1> HIDE DEF rows
<1>6. {ArtifactRow(r) : r \in Rows(rows)} = Tables!FindArtifactByName(n)
  BY <1>4, <1>5
<1>7. \A i \in DOMAIN rows : rows[i] \in Rows(slice)
  BY <1>3, <1>5 DEF Rows
<1>8. \A i, j \in DOMAIN rows : SameArtifact(rows[i], rows[j]) => i = j
  BY <1>1, <1>5, <1>7
<1> QED  BY <1>2, <1>6, <1>8

LEMMA DependentAnswers ==
  ASSUME MemoryOK(mem), NEW n, NEW d
  PROVE  Enumerates(ListDependentEdges(mem, n, d),
                    Tables!ListDependentEdges([name |-> n, sha |-> d]))
<1> DEFINE slice == mem.dependencies
           positions == {i \in DOMAIN slice : slice[i].name = n /\ slice[i].sha = d}
           table == DependencyTable(mem)
           p == [name |-> n, sha |-> d]
<1>1. slice \in Seq(DependencyEdge) /\ Numbered(slice, mem.depSeq)
  BY FieldTypes DEF MemoryOK, Counted
<1>2. DOMAIN table = DOMAIN slice
      /\ \A i \in DOMAIN slice : table[i].name = slice[i].name /\ table[i].sha = slice[i].sha
  BY DEF DependencyTable, EdgeOf
<1>3. p.name = n /\ p.sha = d
  OBVIOUS
<1> HIDE DEF table, p, slice
<1>4. {i \in DOMAIN table : table[i].name = p.name /\ table[i].sha = p.sha} = positions
  BY <1>2, <1>3
<1>5. positions \in SUBSET DOMAIN slice
  OBVIOUS
<1> HIDE DEF positions
<1>6. Enumerates(Collect(slice, positions), positions)
  BY <1>1, <1>5, CollectedRows
<1>7. ListDependentEdges(mem, n, d) = Collect(slice, positions)
  BY DEF ListDependentEdges, slice, positions
<1>8. Tables!ListDependentEdges(p) = positions
  BY <1>4 DEF Tables!ListDependentEdges, table
<1> QED  BY <1>6, <1>7, <1>8 DEF p

LEMMA StampAnswers ==
  ASSUME MemoryOK(mem), NEW e
  PROVE  LET rows == ListTimeEvidence(mem, e)
         IN  /\ {StampRow(t) : t \in Rows(rows)} = Tables!ListTimeEvidence(e)
             /\ \A i, j \in DOMAIN rows : SameStamp(rows[i], rows[j]) => i = j
<1> DEFINE slice == mem.trustedTimeEvidence
           positions == {i \in DOMAIN slice : slice[i].envelope = e}
           rows == Collect(slice, positions)
<1>1. /\ slice \in Seq(TimeEvidenceRecord) /\ Numbered(slice, mem.tteSeq)
      /\ \A r, s \in Rows(slice) : SameStamp(r, s) => r = s
  BY FieldTypes DEF MemoryOK, Counted, Unique
<1>2. ListTimeEvidence(mem, e) = rows
  BY DEF ListTimeEvidence
<1>3. positions \in SUBSET DOMAIN slice /\ \A i \in positions : slice[i].envelope = e
  OBVIOUS
<1>4. {StampRow(slice[i]) : i \in positions} = Tables!ListTimeEvidence(e)
  <2>1. \A r : StampRow(r).envelope = r.envelope
    BY DEF StampRow
  <2>2. Tables!ListTimeEvidence(e) = {x \in {StampRow(slice[i]) : i \in DOMAIN slice} : x.envelope = e}
    <3>1. TimeEvidenceTable(mem) = {StampRow(slice[i]) : i \in DOMAIN slice}
      BY DEF TimeEvidenceTable, Rows
    <3> QED  BY <3>1 DEF Tables!ListTimeEvidence
  <2> QED  BY <2>1, <2>2
<1> HIDE DEF positions, slice
<1>5. /\ Rows(rows) = {slice[p] : p \in positions}
      /\ \A i, j \in DOMAIN rows : rows[i] = rows[j] => i = j
  BY <1>1, <1>3, CollectedRows
<1> HIDE DEF rows
<1>6. {StampRow(t) : t \in Rows(rows)} = Tables!ListTimeEvidence(e)
  BY <1>4, <1>5
<1>7. \A i \in DOMAIN rows : rows[i] \in Rows(slice)
  BY <1>3, <1>5 DEF Rows
<1>8. \A i, j \in DOMAIN rows : SameStamp(rows[i], rows[j]) => i = j
  BY <1>1, <1>5, <1>7
<1> QED  BY <1>2, <1>6, <1>8

\* Whatever has been written, a read of the store in memory answers the rows a
\* read of the tables answers, each once and in the order of their ids.
THEOREM MemoryReads == MemorySpec => []AnswersAgree
<1>1. MemoryInv => AnswersAgree
  <2> SUFFICES ASSUME MemoryOK(mem) PROVE AnswersAgree
    BY DEF MemoryInv
  <2> QED  BY ArtifactAnswers, NameAnswers, DependentAnswers, StampAnswers DEF AnswersAgree
<1> QED  BY <1>1, MemoryInvAlways, PTL
=============================================================================
