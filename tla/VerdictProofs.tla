---------------------------- MODULE VerdictProofs ----------------------------
(***************************************************************************)
(* Theorems about Verdict, for every set of findings, records and log      *)
(* lengths: what the merge keeps of a finding, and what a report of        *)
(* caseforge's own may fail for or retract.                                *)
(***************************************************************************)
EXTENDS Verdict, WellFoundedInduction, TLAPS

-----------------------------------------------------------------------------
(* Induction over Nat without an operator parameter: what holds of 0 and   *)
(* is handed on from k to k + 1 holds up to n.                             *)

LEMMA LessIsWellFounded ==
  \E R : IsWellFoundedOn(R, Nat) /\ \A x, y \in Nat : <<x, y>> \in R <=> x < y
  <1> DEFINE R == OpToRel(<, Nat)
  <1>1. IsWellFoundedOn(R, Nat)
    BY NatLessThanWellFounded
  <1>2. \A x, y \in Nat : <<x, y>> \in R <=> x < y
    BY DEF OpToRel
  <1> HIDE DEF R
  <1>3. QED
    BY <1>1, <1>2

LEMMA MinimalIn ==
  ASSUME NEW R, IsWellFoundedOn(R, Nat), NEW T, T \subseteq Nat, T # {}
  PROVE  \E n \in T : \A m \in T : ~ (<<m, n>> \in R)
  BY WFMin

LEMMA Upwards ==
  ASSUME NEW n \in Nat, NEW T, 0 \in T,
         \A k \in 0..n : k \in T /\ k < n => k + 1 \in T
  PROVE  \A k \in 0..n : k \in T
  <1> DEFINE F == {k \in 0..n : k \notin T}
  <1> SUFFICES ASSUME F # {} PROVE FALSE
    OBVIOUS
  <1>1. F \subseteq Nat
    OBVIOUS
  <1>2. PICK R : IsWellFoundedOn(R, Nat) /\ \A x, y \in Nat : <<x, y>> \in R <=> x < y
    BY LessIsWellFounded
  <1>3. PICK k \in F : \A m \in F : ~ (<<m, k>> \in R)
    BY <1>1, <1>2, MinimalIn
  <1>4. k \in 0..n /\ k \notin T /\ k # 0
    BY <1>3
  <1>5. k - 1 \in 0..n /\ k - 1 < n /\ k - 1 < k /\ (k - 1) + 1 = k
    BY <1>4
  <1>6. k - 1 \notin F
    <2>1. k - 1 \in Nat /\ k \in Nat
      BY <1>5
    <2>2. <<k - 1, k>> \in R
      BY <1>2, <1>5, <2>1
    <2>3. QED
      BY <1>3, <2>2
  <1>7. QED
    BY <1>4, <1>5, <1>6

\* A walk of n steps from b in S, whose steps are functions, exists.
IsWalk(w, n, S, b, g) ==
  /\ w \in [0..n -> S] /\ w[0] = b
  /\ \A k \in 1..n : w[k] = g[k][w[k - 1]]

LEMMA WalkExists ==
  ASSUME NEW n \in Nat, NEW S, NEW b \in S, NEW g \in [1..n -> [S -> S]]
  PROVE  \E w : IsWalk(w, n, S, b, g)
  <1> DEFINE Good(w, k) == /\ w \in [0..k -> S] /\ w[0] = b
                           /\ \A j \in 1..k : w[j] = g[j][w[j - 1]]
             T == {k \in 0..n : \E w : Good(w, k)}
  <1>1. 0 \in T
    <2>1. Good([k \in 0..0 |-> b], 0)
      OBVIOUS
    <2> HIDE DEF Good
    <2>2. 0 \in 0..n /\ \E w : Good(w, 0)
      BY <2>1
    <2>3. QED
      BY <2>2
  <1>2. ASSUME NEW k \in 0..n, k \in T, k < n PROVE k + 1 \in T
    <2>1. PICK w : Good(w, k)
      BY <1>2
    <2>2. k + 1 \in 1..n /\ k \in 0..k /\ k \in Nat
      BY <1>2
    <2>3. w[k] \in S /\ g[k + 1] \in [S -> S]
      BY <2>1, <2>2
    <2>4. g[k + 1][w[k]] \in S
      BY <2>3
    <2> DEFINE v == [j \in 0..(k + 1) |-> IF j = k + 1 THEN g[k + 1][w[k]] ELSE w[j]]
    <2>5. v \in [0..(k + 1) -> S]
      <3>1. \A j \in 0..(k + 1) : j # k + 1 => j \in 0..k
        BY <2>2
      <3>2. \A j \in 0..(k + 1) : v[j] \in S
        BY <2>1, <2>4, <3>1
      <3>3. QED
        BY <3>2
    <2>6. v[0] = b
      BY <2>1, <2>2
    <2>7. ASSUME NEW j \in 1..(k + 1) PROVE v[j] = g[j][v[j - 1]]
      <3>1. j - 1 \in 0..k /\ j - 1 \in 0..(k + 1) /\ j - 1 # k + 1 /\ j \in 0..(k + 1)
        BY <2>2
      <3>2. v[j - 1] = w[j - 1]
        BY <3>1
      <3>3. CASE j = k + 1
        <4>1. j - 1 = k
          BY <2>2, <3>3
        <4>2. v[j] = g[k + 1][w[k]]
          BY <3>1, <3>3
        <4>3. QED
          BY <3>2, <3>3, <4>1, <4>2
      <3>4. CASE j # k + 1
        <4>1. j \in 1..k
          BY <2>2, <3>4
        <4>2. v[j] = w[j] /\ w[j] = g[j][w[j - 1]]
          BY <2>1, <3>1, <3>4, <4>1
        <4>3. QED
          BY <3>2, <4>2
      <3>5. QED
        BY <3>3, <3>4
    <2> HIDE DEF v
    <2>8. QED
      BY <2>2, <2>5, <2>6, <2>7
  <1> HIDE DEF Good, T
  <1>3. \A k \in 0..n : k \in T
    BY <1>1, <1>2, Upwards
  <1>4. n \in T
    BY <1>3
  <1>5. QED
    BY <1>4 DEF Good, T, IsWalk

-----------------------------------------------------------------------------
(* The two walks of the model.                                             *)

PartType == [id: FindingIds, f: Fields]

\* What is merged of a finding never holds a verdict.
Merges == {f \in Fields : f.verdict = Absent}
Maps == UNION {[D -> Merges] : D \in SUBSET FindingIds}

\* The objects met up to each record of a log.
IsPartsWalk(w, l) ==
  /\ w \in [0..Len(l) -> Seq(PartType)] /\ w[0] = <<>>
  /\ \A k \in 1..Len(l) : w[k] = w[k - 1] \o l[k].parts
  /\ Parts(l) = w[Len(l)]

LEMMA PartsWalk == ASSUME NEW l \in Seq(Records) PROVE \E w : IsPartsWalk(w, l)
  <1> DEFINE n == Len(l)
             S == Seq(PartType)
             g == [k \in 1..n |-> [s \in S |-> s \o l[k].parts]]
             Walk == CHOOSE v : v = [k \in 0..n |-> IF k = 0 THEN <<>>
                                                   ELSE v[k - 1] \o l[k].parts]
  <1>1. n \in Nat /\ <<>> \in S
    OBVIOUS
  <1>2. \A k \in 1..n : l[k].parts \in S
    <2>1. \A k \in 1..n : l[k] \in RecordType
      BY VerdictAssumption
    <2>2. QED
      BY <2>1 DEF RecordType, PartType
  <1>3. g \in [1..n -> [S -> S]]
    <2>1. \A k \in 1..n : \A s \in S : s \o l[k].parts \in S
      BY <1>2
    <2>2. QED
      BY <2>1
  <1>4. \E w : IsWalk(w, n, S, <<>>, g)
    <2> HIDE DEF n, S, g
    <2>1. QED
      BY <1>1, <1>3, WalkExists
  <1>5. PICK w \in [0..n -> S] : w[0] = <<>> /\ \A k \in 1..n : w[k] = g[k][w[k - 1]]
    BY <1>4 DEF IsWalk
  <1>6. \A k \in 1..n : k - 1 \in 0..n
    BY <1>1
  <1>7. \A k \in 1..n : w[k] = w[k - 1] \o l[k].parts
    <2>1. \A k \in 1..n : w[k - 1] \in S
      BY <1>5, <1>6
    <2>2. \A k \in 1..n : g[k][w[k - 1]] = w[k - 1] \o l[k].parts
      BY <2>1
    <2>3. QED
      BY <1>5, <2>2
  <1>8. w = [k \in 0..n |-> IF k = 0 THEN <<>> ELSE w[k - 1] \o l[k].parts]
    <2>1. \A k \in 0..n : w[k] = IF k = 0 THEN <<>> ELSE w[k - 1] \o l[k].parts
      <3>1. \A k \in 0..n : k = 0 \/ k \in 1..n
        BY <1>1
      <3>2. \A k \in 1..n : k # 0
        OBVIOUS
      <3>3. QED
        BY <1>5, <1>7, <3>1, <3>2
    <2>2. QED
      BY <1>5, <2>1
  <1>9. Walk = [k \in 0..n |-> IF k = 0 THEN <<>> ELSE Walk[k - 1] \o l[k].parts]
    BY <1>8
  <1>10. Parts(l) = Walk[n]
    BY DEF Parts
  <1> HIDE DEF Walk, g
  <1> DEFINE T == {k \in 0..n : Walk[k] = w[k]}
  <1>11. 0 \in T
    BY <1>1, <1>5, <1>9
  <1>12. ASSUME NEW k \in 0..n, k \in T, k < n PROVE k + 1 \in T
    <2>1. k + 1 \in 0..n /\ k + 1 \in 1..n /\ k + 1 # 0 /\ (k + 1) - 1 = k
      BY <1>1, <1>12
    <2>2. Walk[k + 1] = Walk[k] \o l[k + 1].parts
      BY <1>9, <2>1
    <2>3. w[k + 1] = w[k] \o l[k + 1].parts
      BY <1>7, <2>1
    <2>4. QED
      BY <1>12, <2>1, <2>2, <2>3
  <1>13. \A k \in 0..n : k \in T
    BY <1>1, <1>11, <1>12, Upwards
  <1>14. Parts(l) = w[n]
    BY <1>1, <1>10, <1>13
  <1>15. QED
    BY <1>5, <1>7, <1>14 DEF IsPartsWalk

-----------------------------------------------------------------------------
(* The merge keeps its type, part by part.                                 *)

LEMMA NoFieldsType == NoFields \in Merges
  BY DEF NoFields, Merges, Fields

LEMMA MergeFieldsType ==
  ASSUME NEW old \in Merges, NEW f \in Fields PROVE MergeFields(old, f) \in Merges
  BY DEF MergeFields, Merges, Fields, Merging

LEMMA MapsMember ==
  ASSUME NEW m
  PROVE  m \in Maps <=> \E D \in SUBSET FindingIds : m \in [D -> Merges]
  BY DEF Maps

LEMMA MergePartType ==
  ASSUME NEW m \in Maps, NEW p \in PartType PROVE MergePart(m, p) \in Maps
  <1>1. PICK D \in SUBSET FindingIds : m \in [D -> Merges]
    BY MapsMember
  <1>2. p.id \in FindingIds /\ p.f \in Fields /\ DOMAIN m = D
    BY <1>1 DEF PartType
  <1> DEFINE old == IF p.id \in D THEN m[p.id] ELSE NoFields
             E == D \cup {p.id}
             t == [x \in E |-> IF x = p.id THEN MergeFields(old, p.f) ELSE m[x]]
  <1>3. MergeFields(old, p.f) \in Merges
    <2>1. old \in Merges
      BY <1>1, NoFieldsType
    <2>2. QED
      BY <1>2, <2>1, MergeFieldsType
  <1> HIDE DEF old
  <1>4. \A x \in E : (IF x = p.id THEN MergeFields(old, p.f) ELSE m[x]) \in Merges
    BY <1>1, <1>3
  <1>5. t \in [E -> Merges] /\ E \in SUBSET FindingIds
    BY <1>2, <1>4
  <1>6. MergePart(m, p) = t
    BY <1>2 DEF MergePart, old
  <1>7. QED
    BY <1>5, <1>6, MapsMember

LEMMA EmptyMap == <<>> \in Maps /\ DOMAIN <<>> = {}
  <1>1. DOMAIN <<>> = {} /\ <<>> \in [{} -> Merges]
    OBVIOUS
  <1>2. QED
    BY <1>1, MapsMember

IsMergeWalk(w, ps) ==
  /\ w \in [0..Len(ps) -> Maps] /\ w[0] = <<>>
  /\ \A k \in 1..Len(ps) : w[k] = MergePart(w[k - 1], ps[k])

LEMMA MergeWalk ==
  ASSUME NEW l, Parts(l) \in Seq(PartType)
  PROVE  \E w : IsMergeWalk(w, Parts(l)) /\ Merged(l) = w[Len(Parts(l))]
  <1> DEFINE ps == Parts(l)
             n == Len(ps)
             g == [k \in 1..n |-> [m \in Maps |-> MergePart(m, ps[k])]]
             Walk == CHOOSE v : v = [k \in 0..n |-> IF k = 0 THEN <<>>
                                                   ELSE MergePart(v[k - 1], ps[k])]
  <1>1. n \in Nat /\ <<>> \in Maps /\ \A k \in 1..n : ps[k] \in PartType
    BY EmptyMap
  <1>2. Merged(l) = Walk[n]
    BY DEF Merged
  <1> HIDE DEF ps
  <1>3. g \in [1..n -> [Maps -> Maps]]
    <2>1. \A k \in 1..n : \A m \in Maps : MergePart(m, ps[k]) \in Maps
      BY <1>1, MergePartType
    <2>2. QED
      BY <2>1
  <1>4. \E w : IsWalk(w, n, Maps, <<>>, g)
    <2> HIDE DEF n, g
    <2>1. QED
      BY <1>1, <1>3, WalkExists
  <1>5. PICK w \in [0..n -> Maps] :
          w[0] = <<>> /\ \A k \in 1..n : w[k] = g[k][w[k - 1]]
    BY <1>4 DEF IsWalk
  <1>6. \A k \in 1..n : k - 1 \in 0..n
    BY <1>1
  <1>7. \A k \in 1..n : w[k] = MergePart(w[k - 1], ps[k])
    <2>1. \A k \in 1..n : w[k - 1] \in Maps
      BY <1>5, <1>6
    <2>2. \A k \in 1..n : g[k][w[k - 1]] = MergePart(w[k - 1], ps[k])
      BY <2>1
    <2>3. QED
      BY <1>5, <2>2
  <1>8. w = [k \in 0..n |-> IF k = 0 THEN <<>> ELSE MergePart(w[k - 1], ps[k])]
    <2>1. \A k \in 0..n : w[k] = IF k = 0 THEN <<>> ELSE MergePart(w[k - 1], ps[k])
      <3>1. \A k \in 0..n : k = 0 \/ k \in 1..n
        BY <1>1
      <3>2. \A k \in 1..n : k # 0
        OBVIOUS
      <3>3. QED
        BY <1>5, <1>7, <3>1, <3>2
    <2>2. QED
      BY <1>5, <2>1
  <1>9. Walk = [k \in 0..n |-> IF k = 0 THEN <<>> ELSE MergePart(Walk[k - 1], ps[k])]
    BY <1>8
  <1> HIDE DEF Walk, g
  <1> DEFINE T == {k \in 0..n : Walk[k] = w[k]}
  <1>10. 0 \in T
    BY <1>1, <1>5, <1>9
  <1>11. ASSUME NEW k \in 0..n, k \in T, k < n PROVE k + 1 \in T
    <2>1. k + 1 \in 0..n /\ k + 1 \in 1..n /\ k + 1 # 0 /\ (k + 1) - 1 = k
      BY <1>1, <1>11
    <2>2. Walk[k + 1] = MergePart(Walk[k], ps[k + 1])
      BY <1>9, <2>1
    <2>3. w[k + 1] = MergePart(w[k], ps[k + 1])
      BY <1>7, <2>1
    <2>4. QED
      BY <1>11, <2>1, <2>2, <2>3
  <1>12. \A k \in 0..n : k \in T
    BY <1>1, <1>10, <1>11, Upwards
  <1>13. Merged(l) = w[n]
    BY <1>1, <1>2, <1>12
  <1>14. QED
    BY <1>5, <1>7, <1>13 DEF IsMergeWalk, ps

-----------------------------------------------------------------------------
(* Field by field the merge holds the first value given.                   *)

\* The places among the first n parts that give field k of finding x a value.
Given(ps, n, x, k) == {i \in 1..n : ps[i].id = x /\ ps[i].f[k] # Absent}

\* v is the value the first of the places in G gives to field k.
IsFirst(ps, G, k, v) ==
  \/ G = {} /\ v = Absent
  \/ \E i \in G : (\A j \in G : i <= j) /\ v = ps[i].f[k]

FirstWins(ps, n, m) ==
  /\ DOMAIN m = {ps[i].id : i \in 1..n}
  /\ \A x \in DOMAIN m, k \in Merging : IsFirst(ps, Given(ps, n, x, k), k, m[x][k])

LEMMA MergeFieldsFirst ==
  ASSUME NEW old \in Merges, NEW f \in Fields, NEW k \in Merging
  PROVE  MergeFields(old, f)[k] = IF old[k] = Absent THEN f[k] ELSE old[k]
  <1>1. k \in DOMAIN old
    BY DEF Merges, Fields, Merging
  <1>2. QED
    BY <1>1 DEF MergeFields

LEMMA FirstWinsStep ==
  ASSUME NEW n \in Nat, NEW ps \in Seq(PartType), n + 1 \in 1..Len(ps),
         NEW m \in Maps, FirstWins(ps, n, m)
  PROVE  FirstWins(ps, n + 1, MergePart(m, ps[n + 1]))
  <1> DEFINE p == ps[n + 1]
             old == IF p.id \in DOMAIN m THEN m[p.id] ELSE NoFields
             t == MergePart(m, p)
  <1>1. /\ p \in PartType /\ p.id \in FindingIds /\ p.f \in Fields
        /\ \A i \in 1..n : i \in Nat /\ i <= n
        /\ \A i \in 1..(n + 1) : i \in 1..n \/ i = n + 1
        /\ \A i \in 1..n : i \in 1..(n + 1)
        /\ n + 1 \in 1..(n + 1)
    <2>1. ps[n + 1] \in PartType
      OBVIOUS
    <2>2. p \in PartType /\ p.id \in FindingIds /\ p.f \in Fields
      BY <2>1 DEF PartType
    <2>3. /\ \A i \in 1..n : i \in Nat /\ i <= n
          /\ \A i \in 1..(n + 1) : i \in 1..n \/ i = n + 1
          /\ \A i \in 1..n : i \in 1..(n + 1)
          /\ n + 1 \in 1..(n + 1)
      OBVIOUS
    <2>4. QED
      BY <2>2, <2>3
  <1>2. PICK D \in SUBSET FindingIds : m \in [D -> Merges]
    BY MapsMember
  <1>3. old \in Merges
    BY <1>2, NoFieldsType
  <1>4. DOMAIN t = DOMAIN m \cup {p.id}
    BY DEF MergePart
  <1>5. t[p.id] = MergeFields(old, p.f) /\ \A x \in DOMAIN m : x # p.id => t[x] = m[x]
    BY DEF MergePart
  <1> HIDE DEF t, old, p
  <1>6. DOMAIN t = {ps[i].id : i \in 1..(n + 1)}
    <2>1. DOMAIN m = {ps[i].id : i \in 1..n}
      BY DEF FirstWins
    <2>2. \A x : x \in DOMAIN t => \E i \in 1..(n + 1) : x = ps[i].id
      BY <1>1, <1>4, <2>1 DEF p
    <2>3. \A i \in 1..(n + 1) : ps[i].id \in DOMAIN t
      BY <1>1, <1>4, <2>1 DEF p
    <2>4. QED
      BY <2>2, <2>3
  <1>7. ASSUME NEW x \in DOMAIN t, NEW k \in Merging
        PROVE  IsFirst(ps, Given(ps, n + 1, x, k), k, t[x][k])
    <2> DEFINE G == Given(ps, n, x, k)
               H == Given(ps, n + 1, x, k)
    <2>1. \A i : i \in H <=> i \in G \/ (i = n + 1 /\ p.id = x /\ p.f[k] # Absent)
      BY <1>1 DEF Given, p
    <2>2. \A i \in G : i \in 1..n
      BY DEF Given
    <2>3. \A i \in G : i <= n + 1 /\ i # n + 1
      BY <1>1, <2>2
    <2> HIDE DEF G, H
    <2>4. CASE x # p.id
      <3>1. H = G
        BY <2>1, <2>4
      <3>2. x \in DOMAIN m /\ t[x] = m[x]
        BY <1>4, <1>5, <2>4
      <3>3. QED
        BY <3>1, <3>2 DEF FirstWins, G, H
    <2>5. CASE x = p.id
      <3>1. IsFirst(ps, G, k, old[k])
        <4>1. CASE x \in DOMAIN m
          BY <2>5, <4>1 DEF FirstWins, old, G
        <4>2. CASE x \notin DOMAIN m
          <5>1. \A i \in 1..n : ps[i].id # x
            BY <4>2 DEF FirstWins
          <5>2. G = {}
            BY <5>1 DEF G, Given
          <5>3. old[k] = Absent
            BY <2>5, <4>2 DEF old, NoFields, Merging
          <5>4. QED
            BY <5>2, <5>3 DEF IsFirst
        <4>3. QED
          BY <4>1, <4>2
      <3>2. t[x][k] = IF old[k] = Absent THEN p.f[k] ELSE old[k]
        BY <1>1, <1>3, <1>5, <2>5, MergeFieldsFirst
      <3>3. CASE G # {}
        <4>1. PICK i \in G : (\A j \in G : i <= j) /\ old[k] = ps[i].f[k]
          BY <3>1, <3>3 DEF IsFirst
        <4>2. old[k] # Absent
          BY <4>1 DEF G, Given
        <4>3. i \in H /\ \A j \in H : i <= j
          BY <2>1, <2>3, <4>1
        <4>4. QED
          BY <3>2, <4>1, <4>2, <4>3 DEF IsFirst, H
      <3>4. CASE G = {}
        <4>1. old[k] = Absent /\ t[x][k] = p.f[k]
          BY <3>1, <3>2, <3>4 DEF IsFirst
        <4>2. CASE p.f[k] = Absent
          <5>1. H = {}
            BY <2>1, <3>4, <4>2
          <5>2. QED
            BY <4>1, <4>2, <5>1 DEF IsFirst, H
        <4>3. CASE p.f[k] # Absent
          <5>1. \A i : i \in H <=> i = n + 1
            BY <2>1, <2>5, <3>4, <4>3
          <5>2. n + 1 \in H /\ \A j \in H : n + 1 <= j
            BY <5>1
          <5>3. QED
            BY <4>1, <5>2 DEF IsFirst, H, p
        <4>4. QED
          BY <4>2, <4>3
      <3>5. QED
        BY <3>3, <3>4
    <2>6. QED
      BY <2>4, <2>5
  <1>8. QED
    BY <1>6, <1>7 DEF FirstWins, t, p

\* What the merge returns for a log.
LEMMA MergedIsFirst ==
  ASSUME NEW l \in Seq(Records)
  PROVE  /\ Parts(l) \in Seq(PartType) /\ Len(Parts(l)) \in Nat
         /\ Merged(l) \in Maps
         /\ FirstWins(Parts(l), Len(Parts(l)), Merged(l))
  <1> DEFINE ps == Parts(l)
             n == Len(ps)
  <1>1. PICK v : IsPartsWalk(v, l)
    BY PartsWalk
  <1>2. Len(l) \in 0..Len(l)
    OBVIOUS
  <1>3. ps \in Seq(PartType)
    BY <1>1, <1>2 DEF IsPartsWalk
  <1>4. n \in Nat
    BY <1>3
  <1>5. PICK w : IsMergeWalk(w, ps) /\ Merged(l) = w[n]
    BY <1>3, MergeWalk
  <1> HIDE DEF ps
  <1> DEFINE T == {k \in 0..n : FirstWins(ps, k, w[k])}
  <1>6. 0 \in T
    <2>1. w[0] = <<>> /\ DOMAIN <<>> = {} /\ 1..0 = {} /\ 0 \in 0..n
      BY <1>4, <1>5, EmptyMap DEF IsMergeWalk
    <2>2. FirstWins(ps, 0, <<>>)
      BY <2>1 DEF FirstWins
    <2>3. QED
      BY <2>1, <2>2
  <1>7. ASSUME NEW k \in 0..n, k \in T, k < n PROVE k + 1 \in T
    <2>1. k \in Nat /\ k + 1 \in 1..n /\ k + 1 \in 0..n /\ (k + 1) - 1 = k
      BY <1>4, <1>7
    <2>2. w[k + 1] = MergePart(w[k], ps[k + 1]) /\ w[k] \in Maps
      BY <1>5, <1>7, <2>1 DEF IsMergeWalk
    <2>3. FirstWins(ps, k + 1, w[k + 1])
      BY <1>3, <1>7, <2>1, <2>2, FirstWinsStep
    <2>4. QED
      BY <2>1, <2>3
  <1>8. \A k \in 0..n : k \in T
    BY <1>4, <1>6, <1>7, Upwards
  <1>9. n \in 0..n
    BY <1>4
  <1>10. FirstWins(ps, n, w[n]) /\ w[n] \in Maps
    BY <1>5, <1>8, <1>9 DEF IsMergeWalk
  <1>11. QED
    BY <1>3, <1>4, <1>5, <1>10 DEF ps

\* Field by field the merge is the first value given, in every state.
LEMMA MergeHolds == ASSUME log \in Seq(Records) PROVE MergeIsFirstWins
  <1> DEFINE ps == Parts(log)
             n == Len(ps)
             m == Merged(log)
  <1>1. /\ ps \in Seq(PartType) /\ n \in Nat /\ m \in Maps
        /\ FirstWins(ps, n, m)
    BY MergedIsFirst
  <1> HIDE DEF ps, m
  <1>2. DOMAIN ps = 1..n
    BY <1>1
  <1>3. DOMAIN m = {p.id : p \in ToSet(ps)}
    BY <1>1, <1>2 DEF FirstWins, ToSet
  <1>4. ASSUME NEW x \in DOMAIN m, NEW k \in Merging
        PROVE  m[x][k] = FirstValue(log, x, k)
    <2> DEFINE G == Given(ps, n, x, k)
    <2>1. FirstValue(log, x, k) = IF G = {} THEN Absent ELSE ps[Min(G)].f[k]
      BY <1>2 DEF FirstValue, Given, ps
    <2>2. IsFirst(ps, G, k, m[x][k])
      BY <1>1 DEF FirstWins
    <2>3. \A i \in G : i \in Nat
      BY <1>1 DEF Given
    <2> HIDE DEF G
    <2>4. CASE G = {}
      BY <2>1, <2>2, <2>4 DEF IsFirst
    <2>5. CASE G # {}
      <3>1. PICK i \in G : (\A j \in G : i <= j) /\ m[x][k] = ps[i].f[k]
        BY <2>2, <2>5 DEF IsFirst
      <3>2. \A j \in G : (\A y \in G : j <= y) => j = i
        BY <2>3, <3>1
      <3>3. Min(G) = i
        BY <3>1, <3>2 DEF Min
      <3>4. QED
        BY <2>1, <2>5, <3>1, <3>3
    <2>6. QED
      BY <2>4, <2>5
  <1>5. QED
    BY <1>3, <1>4 DEF MergeIsFirstWins, ps, m

-----------------------------------------------------------------------------
(* A longer log has more parts, after those of the shorter.                *)

\* The log of an earlier moment.
Begin(l, n) == [i \in 1..n |-> l[i]]

Starts(a, b) == Len(a) <= Len(b) /\ \A i \in 1..Len(a) : a[i] = b[i]

LEMMA BeginType ==
  ASSUME NEW l \in Seq(Records), NEW n \in 0..Len(l)
  PROVE  /\ Begin(l, n) \in Seq(Records) /\ Len(Begin(l, n)) = n
         /\ \A i \in 1..n : Begin(l, n)[i] = l[i]
  BY DEF Begin

LEMMA ConcatStarts ==
  ASSUME NEW a \in Seq(PartType), NEW b \in Seq(PartType), NEW c \in Seq(PartType),
         Starts(a, b)
  PROVE  Starts(a, b \o c)
  <1>1. Len(b \o c) = Len(b) + Len(c) /\ Len(a) \in Nat /\ Len(b) \in Nat /\ Len(c) \in Nat
    OBVIOUS
  <1>2. \A i \in 1..Len(b) : (b \o c)[i] = b[i]
    OBVIOUS
  <1>3. \A i \in 1..Len(a) : i \in 1..Len(b)
    BY <1>1 DEF Starts
  <1>4. Len(a) <= Len(b \o c)
    BY <1>1 DEF Starts
  <1>5. QED
    BY <1>2, <1>3, <1>4 DEF Starts

LEMMA PartsGrow ==
  ASSUME NEW l \in Seq(Records), NEW n \in 0..Len(l)
  PROVE  Starts(Parts(Begin(l, n)), Parts(l))
  <1> DEFINE b == Begin(l, n)
             N == Len(l)
  <1>1. b \in Seq(Records) /\ Len(b) = n /\ \A i \in 1..n : b[i] = l[i]
    BY BeginType
  <1>2. N \in Nat /\ n \in Nat /\ n <= N
    OBVIOUS
  <1> HIDE DEF b
  <1>3. PICK u : IsPartsWalk(u, b)
    BY <1>1, PartsWalk
  <1>4. PICK v : IsPartsWalk(v, l)
    BY PartsWalk
  <1> DEFINE T == {k \in 0..n : u[k] = v[k]}
  <1>5. 0 \in T
    BY <1>2, <1>3, <1>4 DEF IsPartsWalk
  <1>6. ASSUME NEW k \in 0..n, k \in T, k < n PROVE k + 1 \in T
    <2>1. k + 1 \in 0..n /\ k + 1 \in 1..n /\ k + 1 \in 1..N /\ (k + 1) - 1 = k
      BY <1>2, <1>6
    <2>2. u[k + 1] = u[k] \o b[k + 1].parts
      BY <1>1, <1>3, <2>1 DEF IsPartsWalk
    <2>3. v[k + 1] = v[k] \o l[k + 1].parts
      BY <1>4, <2>1 DEF IsPartsWalk
    <2>4. QED
      BY <1>1, <1>6, <2>1, <2>2, <2>3
  <1>7. \A k \in 0..n : k \in T
    <2> HIDE DEF T
    <2>1. QED
      BY <1>2, <1>5, <1>6, Upwards
  <1>8. Parts(b) = v[n]
    BY <1>1, <1>2, <1>3, <1>7 DEF IsPartsWalk
  <1> HIDE DEF T
  <1> DEFINE M == N - n
             U == {k \in 0..M : Starts(v[n], v[n + k])}
  <1>9. M \in Nat /\ \A k \in 0..M : n + k \in 0..N
    BY <1>2
  <1>10. \A k \in 0..N : v[k] \in Seq(PartType)
    BY <1>4 DEF IsPartsWalk
  <1>11. 0 \in U
    <2>1. n + 0 = n /\ 0 \in 0..M /\ n \in 0..N
      BY <1>2, <1>9
    <2>2. Starts(v[n], v[n])
      BY <1>10, <2>1 DEF Starts
    <2>3. QED
      BY <2>1, <2>2
  <1>12. ASSUME NEW k \in 0..M, k \in U, k < M PROVE k + 1 \in U
    <2>1. /\ k + 1 \in 0..M /\ n + (k + 1) \in 1..N /\ (n + (k + 1)) - 1 = n + k
          /\ n \in 0..N /\ n + k \in 0..N
      BY <1>2, <1>9, <1>12
    <2>2. v[n + (k + 1)] = v[n + k] \o l[n + (k + 1)].parts
      BY <1>4, <2>1 DEF IsPartsWalk
    <2>3. l[n + (k + 1)].parts \in Seq(PartType)
      <3>1. l[n + (k + 1)] \in RecordType
        BY <2>1, VerdictAssumption
      <3>2. QED
        BY <3>1 DEF RecordType, PartType
    <2>4. Starts(v[n], v[n + (k + 1)])
      BY <1>10, <1>12, <2>1, <2>2, <2>3, ConcatStarts
    <2>5. QED
      BY <2>1, <2>4
  <1>13. \A k \in 0..M : k \in U
    <2> HIDE DEF U, M
    <2>1. QED
      BY <1>9, <1>11, <1>12, Upwards
  <1>14. Starts(v[n], v[N])
    <2>1. M \in 0..M /\ n + M = N
      BY <1>2, <1>9
    <2>2. QED
      BY <1>13, <2>1
  <1>15. QED
    BY <1>4, <1>8, <1>14 DEF IsPartsWalk, b

-----------------------------------------------------------------------------
(* What a report holds.                                                    *)

LEMMA MapsFields ==
  ASSUME NEW m \in Maps
  PROVE  DOMAIN m \subseteq FindingIds /\ \A x \in DOMAIN m : m[x] \in Merges
  <1>1. PICK D \in SUBSET FindingIds : m \in [D -> Merges]
    BY MapsMember
  <1>2. QED
    BY <1>1

LEMMA RowIdsOwn ==
  ASSUME NEW l \in Seq(Records), NEW x \in RowIds(l)
  PROVE  x \in OwnIds /\ x[2] \in Nat
  <1>1. PICK n \in DOMAIN l :
          x \in {<<"evtx-1102", n, Suffix(l[n].rows, i)>> : i \in DOMAIN l[n].rows}
    BY DEF RowIds
  <1>2. PICK i \in DOMAIN l[n].rows : x = <<"evtx-1102", n, Suffix(l[n].rows, i)>>
    BY <1>1
  <1>3. n \in Nat /\ l[n] \in RecordType
    BY VerdictAssumption
  <1>4. l[n].rows \in Seq(Nat)
    BY <1>3 DEF RecordType
  <1>5. Suffix(l[n].rows, i) \in Nat
    BY <1>4 DEF Suffix
  <1>6. QED
    BY <1>2, <1>3, <1>5 DEF OwnIds

LEMMA RowFindingType ==
  ASSUME NEW x, x[2] \in Nat
  PROVE  /\ RowFinding(x) \in Fields /\ AcceptedCitation(RowFinding(x))
         /\ RowFinding(x).replay = Absent /\ RowFinding(x).tool = Absent
  <1> DEFINE r == RowFinding(x)
  <1>1. NoFields \in Fields /\ NoFields.tool = Absent /\ NoFields.replay = Absent
    BY NoFieldsType DEF NoFields, Merges
  <1>2. /\ r \in Fields /\ r.tool = Absent /\ r.replay = Absent
        /\ r.kind = "audit_record" /\ r.seq = x[2] /\ r.sha = x[2]
    BY <1>1 DEF RowFinding, Fields
  <1>3. x[2] # Absent /\ "call" # Absent
    BY VerdictAssumption
  <1> HIDE DEF r
  <1>4. AcceptedCitation(r)
    BY <1>2, <1>3 DEF AcceptedCitation, CitationKind, HasToolCitation,
                      HasAuditRecordCitation
  <1>5. QED
    BY <1>2, <1>4 DEF r

\* The findings a report takes from a log.
Reported(l) == Cited(WithRows(Merged(l), l))

LEMMA ReportedIs ==
  ASSUME NEW l
  PROVE  /\ \A x : x \in DOMAIN Reported(l) <=>
                     /\ x \in DOMAIN Merged(l) \cup RowIds(l)
                     /\ AcceptedCitation(WithRows(Merged(l), l)[x])
         /\ \A x \in DOMAIN Reported(l) : Reported(l)[x] = WithRows(Merged(l), l)[x]
         /\ \A x \in DOMAIN Merged(l) \cup RowIds(l) :
              WithRows(Merged(l), l)[x] =
                IF x \in DOMAIN Merged(l) THEN Merged(l)[x] ELSE RowFinding(x)
  <1> DEFINE w == WithRows(Merged(l), l)
  <1>1. /\ DOMAIN w = DOMAIN Merged(l) \cup RowIds(l)
        /\ \A x \in DOMAIN Merged(l) \cup RowIds(l) :
             w[x] = IF x \in DOMAIN Merged(l) THEN Merged(l)[x] ELSE RowFinding(x)
    BY DEF WithRows
  <1> HIDE DEF w
  <1>2. Reported(l) = [x \in {y \in DOMAIN w : AcceptedCitation(w[y])} |-> w[x]]
    BY DEF Reported, Cited, Restrict, w
  <1>3. QED
    BY <1>1, <1>2 DEF w

LEMMA ReportedType ==
  ASSUME NEW l \in Seq(Records)
  PROVE  /\ DOMAIN Reported(l) \subseteq FindingIds \cup OwnIds
         /\ \A x \in DOMAIN Reported(l) :
              Reported(l)[x] \in Fields /\ AcceptedCitation(Reported(l)[x])
  <1>1. Merged(l) \in Maps
    BY MergedIsFirst
  <1>2. DOMAIN Merged(l) \subseteq FindingIds
        /\ \A x \in DOMAIN Merged(l) : Merged(l)[x] \in Fields
    BY <1>1, MapsFields DEF Merges
  <1>3. \A x \in RowIds(l) : x \in OwnIds /\ RowFinding(x) \in Fields
    BY RowIdsOwn, RowFindingType
  <1>4. QED
    BY <1>2, <1>3, ReportedIs

LEMMA WordForType == ASSUME NEW l, NEW fs PROVE WordFor(l, fs) \in Words
  <1>1. LastWord(l) = Absent \/ LastWord(l) \in Words
    BY DEF LastWord, FirstWord, Words
  <1>2. QED
    BY <1>1 DEF WordFor, Words

LEMMA ProbeType ==
  ASSUME NEW rows \in ProbeRows
  PROVE  /\ DOMAIN ProbeFindings(rows) \subseteq OwnIds
         /\ \A x \in DOMAIN ProbeFindings(rows) :
              LET f == ProbeFindings(rows)[x]
              IN  /\ f \in Fields /\ ~ AcceptedCitation(f)
                  /\ ~ IsAnchored(f) /\ f.replay = Absent
  <1> DEFINE P == [NoFields EXCEPT !.confidence = "HYPOTHESIS", !.verdict = "SUSPICIOUS"]
             I == {<<"evtx-1102-probe", 0, Suffix(rows, i)>> : i \in DOMAIN rows}
  <1>1. /\ NoFields \in Fields /\ NoFields.tool = Absent /\ NoFields.replay = Absent
        /\ NoFields.kind = Absent
    BY NoFieldsType DEF NoFields, Merges
  <1>2. /\ P \in Fields /\ P.tool = Absent /\ P.replay = Absent /\ P.kind = Absent
        /\ P.confidence = "HYPOTHESIS"
    BY <1>1 DEF Fields
  <1>3. P \in Fields /\ ~ AcceptedCitation(P) /\ ~ IsAnchored(P) /\ P.replay = Absent
    <2>1. "call" # Absent /\ "audit_record" # Absent
      BY VerdictAssumption
    <2> HIDE DEF P
    <2>2. QED
      BY <1>2, <2>1 DEF AcceptedCitation, CitationKind, HasToolCitation,
                        HasAuditRecordCitation, IsAnchored
  <1>4. ProbeFindings(rows) = [x \in I |-> P]
    BY DEF ProbeFindings
  <1>5. I \subseteq OwnIds
    <2>1. \A i \in DOMAIN rows : Suffix(rows, i) \in Nat
      BY DEF ProbeRows, Suffix
    <2>2. QED
      BY <2>1 DEF OwnIds
  <1> HIDE DEF P, I
  <1>6. QED
    BY <1>3, <1>4, <1>5

\* A report caseforge writes: the findings of the log, or the probe's alone.
LEMMA ReportIs ==
  ASSUME NEW l, NEW rows \in ProbeRows, NEW d, d = Enrich(Assemble(l), rows)
  PROVE  /\ d.by = "caseforge" /\ d.verdict \in Words
         /\ \/ d.findings = Reported(l)
            \/ DOMAIN Reported(l) = {} /\ d.findings = ProbeFindings(rows)
  <1> DEFINE a == Assemble(l)
  <1>1. /\ a = [by |-> "caseforge", verdict |-> WordFor(l, Reported(l)),
                findings |-> Reported(l)]
    BY DEF Assemble, Reported
  <1>2. WordFor(l, Reported(l)) \in Words /\ "SUSPICIOUS" \in Words
    BY WordForType DEF Words
  <1> HIDE DEF a
  <1>3. d = IF DOMAIN a.findings # {} \/ rows = <<>> THEN a
            ELSE [a EXCEPT !.verdict = "SUSPICIOUS", !.findings = ProbeFindings(rows)]
    BY DEF Enrich, a
  <1>4. QED
    BY <1>1, <1>2, <1>3

-----------------------------------------------------------------------------
(* Every report of caseforge's own is derived from a log this one begins   *)
(* with.                                                                   *)

DerivedFrom(d, l, n) == \E rows \in ProbeRows : d = Enrich(Assemble(Begin(l, n)), rows)

ReportInv ==
  /\ log \in Seq(Records)
  /\ pc \in [Finalizers -> {"away", "looked", "probing"}]
  /\ read \in [Finalizers -> 0..Len(log)] /\ basis \in 0..Len(log)
  /\ \/ doc = NoDoc
     \/ doc = [NoDoc EXCEPT !.by = "toolkit", !.verdict = "INDETERMINATE"]
     \/ DerivedFrom(doc, log, basis)

LEMMA BeginIs ==
  ASSUME NEW l \in Seq(Records), NEW n \in 0..Len(l)
  PROVE  SubSeq(l, 1, n) = Begin(l, n)
  <1>1. /\ 1..Len(SubSeq(l, 1, n)) = 1..n
        /\ \A i \in 1..n : SubSeq(l, 1, n)[i] = l[i]
        /\ SubSeq(l, 1, n) \in Seq(Records)
    OBVIOUS
  <1>2. QED
    BY <1>1 DEF Begin

LEMMA BeginOfBegin ==
  ASSUME NEW l \in Seq(Records), NEW m \in 0..Len(l), NEW n \in 0..m
  PROVE  Begin(Begin(l, m), n) = Begin(l, n) /\ n \in 0..Len(Begin(l, m))
  <1>1. Len(Begin(l, m)) = m /\ \A i \in 1..m : Begin(l, m)[i] = l[i]
    BY BeginType
  <1>2. \A i \in 1..n : i \in 1..m
    OBVIOUS
  <1>3. QED
    BY <1>1, <1>2 DEF Begin

LEMMA BeginAppended ==
  ASSUME NEW l \in Seq(Records), NEW e, NEW n \in 0..Len(l)
  PROVE  Begin(Append(l, e), n) = Begin(l, n)
  <1>1. \A i \in 1..n : Append(l, e)[i] = l[i]
    OBVIOUS
  <1>2. QED
    BY <1>1 DEF Begin

LEMMA ReportInit == Init => ReportInv
  <1> SUFFICES ASSUME Init PROVE ReportInv
    OBVIOUS
  <1>1. log \in Seq(Records) /\ Len(log) = 0 /\ 0 \in 0..Len(log)
    BY DEF Init
  <1>2. QED
    BY <1>1 DEF Init, ReportInv

\* Neither the log nor the report changes, and a finalizer moves on.
LEMMA FinalizerMoves ==
  ASSUME ReportInv, UNCHANGED <<log, doc, basis>>, NEW q \in Finalizers,
         NEW p \in {"away", "looked", "probing"}, NEW n \in 0..Len(log),
         pc' = [pc EXCEPT ![q] = p], read' = read \/ read' = [read EXCEPT ![q] = n]
  PROVE  ReportInv'
  <1>1. read' \in [Finalizers -> 0..Len(log)]
    BY DEF ReportInv
  <1>2. QED
    BY <1>1 DEF ReportInv, DerivedFrom

LEMMA ReportStep == ASSUME ReportInv, [Next]_vars PROVE ReportInv'
  <1>0. Len(log) \in Nat /\ 0 \in 0..Len(log) /\ Len(log) \in 0..Len(log)
    BY DEF ReportInv
  <1>1. CASE UNCHANGED vars
    BY <1>1 DEF vars, finalizers, ReportInv, DerivedFrom
  <1>2. ASSUME NEW e \in Records, AppendRecord(e) PROVE ReportInv'
    <2>1. log' = Append(log, e) /\ doc' = doc /\ log \in Seq(Records)
          /\ UNCHANGED <<pc, read, basis>>
      BY <1>2 DEF AppendRecord, ReportInv, finalizers
    <2>2. log' \in Seq(Records) /\ Len(log') = Len(log) + 1
      BY <2>1
    <2>3. \A n \in 0..Len(log) : n \in 0..Len(log')
      BY <1>0, <2>2
    <2>4. ASSUME DerivedFrom(doc, log, basis) PROVE DerivedFrom(doc', log', basis')
      <3>1. Begin(log', basis') = Begin(log, basis)
        BY <2>1, BeginAppended DEF ReportInv
      <3>2. QED
        BY <2>1, <2>4, <3>1 DEF DerivedFrom
    <2>5. QED
      BY <2>1, <2>2, <2>3, <2>4 DEF ReportInv
  <1>3. CASE ToolkitReports
    BY <1>0, <1>3 DEF ToolkitReports, ReportInv, finalizers
  <1>4. ASSUME NEW q \in Finalizers, LookForReport(q) PROVE ReportInv'
    BY <1>0, <1>4, FinalizerMoves DEF LookForReport
  <1>5. ASSUME NEW q \in Finalizers, ReadLog(q) PROVE ReportInv'
    BY <1>0, <1>5, FinalizerMoves DEF ReadLog
  <1>6. ASSUME NEW q \in Finalizers, GiveUp(q) PROVE ReportInv'
    BY <1>0, <1>6, FinalizerMoves DEF GiveUp, Leave
  <1>7. ASSUME NEW q \in Finalizers, NEW rows \in ProbeRows, WriteReport(q, rows)
        PROVE  ReportInv'
    <2>1. /\ log' = log /\ log \in Seq(Records) /\ basis' = read[q]
          /\ read[q] \in 0..Len(log)
          /\ doc' = Enrich(Assemble(SubSeq(log, 1, read[q])), rows)
      BY <1>7 DEF WriteReport, ReportInv
    <2>2. SubSeq(log, 1, read[q]) = Begin(log', basis')
      BY <2>1, BeginIs
    <2>3. DerivedFrom(doc', log', basis')
      BY <2>1, <2>2 DEF DerivedFrom
    <2>4. /\ pc' \in [Finalizers -> {"away", "looked", "probing"}]
          /\ read' \in [Finalizers -> 0..Len(log)]
      BY <1>0, <1>7 DEF WriteReport, Leave, ReportInv
    <2>5. QED
      BY <2>1, <2>3, <2>4 DEF ReportInv
  <1>8. QED
    BY <1>1, <1>2, <1>3, <1>4, <1>5, <1>6, <1>7 DEF Next

\* However many finalizers look, read, probe and write at once, every report of
\* caseforge's own is the report of some beginning of the log, the one its
\* writer read (finalizeVerdictJson of investigate.ts).
THEOREM ReportsAreDerived == Spec => []ReportInv
  <1>1. Init => ReportInv
    BY ReportInit
  <1>2. ReportInv /\ [Next]_vars => ReportInv'
    BY ReportStep
  <1>3. QED
    BY <1>1, <1>2, PTL DEF Spec

-----------------------------------------------------------------------------
\* Every variable keeps its type: whatever an audit log holds, a report names
\* findings of the log or caseforge's own, with a scoped verdict word.
THEOREM TypeCorrect == Spec => []TypeOK
  <1>1. ReportInv => TypeOK
    <2> SUFFICES ASSUME ReportInv PROVE TypeOK
      OBVIOUS
    <2>1. CASE doc = NoDoc
      BY <2>1, EmptyMap DEF ReportInv, TypeOK, NoDoc
    <2>2. CASE doc = [NoDoc EXCEPT !.by = "toolkit", !.verdict = "INDETERMINATE"]
      <3>1. doc.by = "toolkit" /\ doc.verdict = "INDETERMINATE" /\ doc.findings = <<>>
        BY <2>2 DEF NoDoc
      <3>2. QED
        BY <3>1, EmptyMap DEF ReportInv, TypeOK, Words
    <2>3. ASSUME DerivedFrom(doc, log, basis) PROVE TypeOK
      <3> DEFINE n == basis
      <3>1. log \in Seq(Records) /\ Begin(log, n) \in Seq(Records)
        BY BeginType DEF ReportInv
      <3>2. PICK rows \in ProbeRows : doc = Enrich(Assemble(Begin(log, n)), rows)
        BY <2>3 DEF DerivedFrom
      <3>3. /\ doc.by = "caseforge" /\ doc.verdict \in Words
            /\ \/ doc.findings = Reported(Begin(log, n))
               \/ doc.findings = ProbeFindings(rows)
        BY <3>2, ReportIs
      <3>4. /\ DOMAIN doc.findings \subseteq FindingIds \cup OwnIds
            /\ \A x \in DOMAIN doc.findings : doc.findings[x] \in Fields
        BY <3>1, <3>3, ReportedType, ProbeType
      <3>5. QED
        BY <3>1, <3>3, <3>4 DEF TypeOK, ReportInv
    <2>4. QED
      BY <2>1, <2>2, <2>3 DEF ReportInv
  <1>2. QED
    BY <1>1, ReportsAreDerived, PTL

\* Whatever partial, rich, blank or replayed copies of a finding the chain
\* holds, and in whatever order, what is merged of it is field by field the
\* first value any copy gives (walk of verdict.ts).
THEOREM MergeIsFirstWinsAlways == Spec => []MergeIsFirstWins
  <1>1. ReportInv => MergeIsFirstWins
    BY MergeHolds DEF ReportInv
  <1>2. QED
    BY <1>1, ReportsAreDerived, PTL

-----------------------------------------------------------------------------
(* The custody check of a report.                                          *)

\* A field of what is merged was given by a part.
LEMMA MergedFromPart ==
  ASSUME NEW l \in Seq(Records), NEW x \in DOMAIN Merged(l), NEW k \in Merging,
         Merged(l)[x][k] # Absent
  PROVE  \E i \in 1..Len(Parts(l)) : Parts(l)[i].f[k] = Merged(l)[x][k]
  <1>1. FirstWins(Parts(l), Len(Parts(l)), Merged(l))
    BY MergedIsFirst
  <1>2. IsFirst(Parts(l), Given(Parts(l), Len(Parts(l)), x, k), k, Merged(l)[x][k])
    BY <1>1 DEF FirstWins
  <1>3. QED
    BY <1>2 DEF IsFirst, Given

\* A report of finalizeVerdictJson comes of the records of some earlier log.
LEMMA OwnReport ==
  ASSUME ReportInv, doc.by = "caseforge"
  PROVE  basis \in 0..Len(log) /\ DerivedFrom(doc, log, basis)
  <1>1. NoDoc.by # "caseforge"
    BY DEF NoDoc
  <1>2. [NoDoc EXCEPT !.by = "toolkit", !.verdict = "INDETERMINATE"].by # "caseforge"
    BY DEF NoDoc
  <1>3. doc # NoDoc
    BY <1>1
  <1>4. doc # [NoDoc EXCEPT !.by = "toolkit", !.verdict = "INDETERMINATE"]
    BY <1>2
  <1>5. QED
    BY <1>3, <1>4 DEF ReportInv

LEMMA OnlyReplayFails ==
  ASSUME ReportInv, doc.by = "caseforge", ~ CustodyOk(doc.findings)
  PROVE  \E p \in ToSet(Parts(log)) : p.f.replay = "no"
  <1>1. basis \in 0..Len(log) /\ DerivedFrom(doc, log, basis)
    BY OwnReport
  <1> DEFINE b == Begin(log, basis)
  <1>2. log \in Seq(Records) /\ b \in Seq(Records)
    BY BeginType DEF ReportInv
  <1>3. PICK rows \in ProbeRows : doc = Enrich(Assemble(b), rows)
    BY <1>1 DEF DerivedFrom
  <1> HIDE DEF b
  <1>4. doc.findings = Reported(b) \/ doc.findings = ProbeFindings(rows)
    BY <1>3, ReportIs
  <1>5. PICK x \in DOMAIN doc.findings :
          \/ IsAnchored(doc.findings[x]) /\ CitationKind(doc.findings[x]) = "none"
          \/ doc.findings[x].replay = "no"
    BY DEF CustodyOk
  <1>6. "no" # Absent
    BY VerdictAssumption
  <1>7. doc.findings # ProbeFindings(rows)
    BY <1>5, <1>6, ProbeType
  <1>8. /\ doc.findings[x].replay = "no" /\ x \in DOMAIN Reported(b)
        /\ doc.findings[x] = Reported(b)[x]
    BY <1>2, <1>4, <1>5, <1>7, ReportedType DEF AcceptedCitation
  <1>9. x \in DOMAIN Merged(b) /\ Merged(b)[x].replay = "no"
    <2>1. /\ x \in DOMAIN Merged(b) \cup RowIds(b)
          /\ Reported(b)[x] = IF x \in DOMAIN Merged(b) THEN Merged(b)[x]
                              ELSE RowFinding(x)
      BY <1>8, ReportedIs
    <2>2. x \notin DOMAIN Merged(b) => RowFinding(x).replay = Absent
      BY <1>2, <2>1, RowIdsOwn, RowFindingType
    <2>3. QED
      BY <1>6, <1>8, <2>1, <2>2
  <1>10. PICK i \in 1..Len(Parts(b)) : Parts(b)[i].f.replay = "no"
    BY <1>2, <1>6, <1>9, MergedFromPart DEF Merging
  <1>11. i \in DOMAIN Parts(log) /\ Parts(log)[i].f.replay = "no"
    <2>1. Starts(Parts(b), Parts(log))
      BY <1>1, <1>2, PartsGrow DEF b
    <2>2. /\ Parts(log) \in Seq(PartType) /\ Len(Parts(log)) \in Nat
          /\ Len(Parts(b)) \in Nat
      BY <1>2, MergedIsFirst
    <2>3. i \in 1..Len(Parts(log)) /\ Parts(b)[i] = Parts(log)[i]
      BY <2>1, <2>2 DEF Starts
    <2>4. QED
      BY <1>10, <2>2, <2>3
  <1>12. QED
    BY <1>11 DEF ToSet

\* A report of caseforge's own never fails the findings check but for a
\* replay that the chain itself records as failed (assembleVerdictFromAudit
\* with checkFindingsCustody and the probe of investigate.ts).
THEOREM FailsOnReplayOnlyAlways == Spec => []FailsOnReplayOnly
  <1>1. ReportInv => FailsOnReplayOnly
    BY OnlyReplayFails DEF FailsOnReplayOnly
  <1>2. QED
    BY <1>1, ReportsAreDerived, PTL

-----------------------------------------------------------------------------
(* A report written anew.                                                  *)

LEMMA MergeKeeps ==
  ASSUME NEW l \in Seq(Records), NEW n \in 0..Len(l), NEW x \in DOMAIN Merged(Begin(l, n))
  PROVE  /\ x \in DOMAIN Merged(l)
         /\ \A k \in Merging : Merged(Begin(l, n))[x][k] # Absent =>
              Merged(l)[x][k] = Merged(Begin(l, n))[x][k]
  <1> DEFINE b == Begin(l, n)
             p == Parts(b)
             q == Parts(l)
  <1>1. b \in Seq(Records)
    BY BeginType
  <1>2. /\ FirstWins(p, Len(p), Merged(b)) /\ FirstWins(q, Len(q), Merged(l))
        /\ Len(p) \in Nat /\ Len(q) \in Nat
    BY <1>1, MergedIsFirst
  <1>3. Len(p) <= Len(q) /\ \A i \in 1..Len(p) : p[i] = q[i]
    BY PartsGrow DEF Starts
  <1> HIDE DEF b, p, q
  <1>4. \A i \in 1..Len(p) : i \in 1..Len(q)
    BY <1>2, <1>3
  <1>5. x \in DOMAIN Merged(l)
    <2>1. PICK i \in 1..Len(p) : p[i].id = x
      BY <1>2 DEF FirstWins, b
    <2>2. i \in 1..Len(q) /\ q[i].id = x
      BY <1>3, <1>4, <2>1
    <2>3. QED
      BY <1>2, <2>2 DEF FirstWins
  <1>6. ASSUME NEW k \in Merging, Merged(b)[x][k] # Absent
        PROVE  Merged(l)[x][k] = Merged(b)[x][k]
    <2> DEFINE G == Given(p, Len(p), x, k)
               H == Given(q, Len(q), x, k)
    <2>1. IsFirst(p, G, k, Merged(b)[x][k]) /\ IsFirst(q, H, k, Merged(l)[x][k])
      BY <1>2, <1>5 DEF FirstWins, b
    <2>2. PICK i \in G : (\A j \in G : i <= j) /\ Merged(b)[x][k] = p[i].f[k]
      BY <1>6, <2>1 DEF IsFirst
    <2>3. i \in H /\ i \in 1..Len(p)
      BY <1>3, <1>4, <2>2 DEF Given
    <2>4. PICK h \in H : (\A j \in H : h <= j) /\ Merged(l)[x][k] = q[h].f[k]
      BY <2>1, <2>3 DEF IsFirst
    <2>5. h \in 1..Len(q) /\ h <= i /\ q[h].id = x /\ q[h].f[k] # Absent
      BY <2>3, <2>4 DEF Given
    <2>6. h \in 1..Len(p)
      BY <1>2, <2>3, <2>5
    <2>7. h \in G
      BY <1>3, <2>5, <2>6 DEF Given
    <2>8. h = i
      BY <2>2, <2>3, <2>5, <2>6, <2>7
    <2>9. QED
      BY <1>3, <2>2, <2>3, <2>4, <2>8
  <1>7. QED
    BY <1>5, <1>6 DEF b

LEMMA RowIdsGrow ==
  ASSUME NEW l \in Seq(Records), NEW n \in 0..Len(l)
  PROVE  RowIds(Begin(l, n)) \subseteq RowIds(l)
  <1>1. /\ DOMAIN Begin(l, n) = 1..n /\ DOMAIN l = 1..Len(l)
        /\ \A i \in 1..n : i \in 1..Len(l) /\ Begin(l, n)[i] = l[i]
    BY DEF Begin
  <1>2. QED
    BY <1>1 DEF RowIds

\* Agents and tools give no finding an id of caseforge's own.
IdsApart == FindingIds \cap OwnIds = {}

LEMMA ReportKeeps ==
  ASSUME IdsApart, NEW l \in Seq(Records), NEW n \in 0..Len(l),
         NEW x \in DOMAIN Reported(Begin(l, n))
  PROVE  LET old == Reported(Begin(l, n))[x]
             new == Reported(l)[x]
         IN  /\ x \in DOMAIN Reported(l)
             /\ HasToolCitation(old) => HasToolCitation(new)
             /\ old.replay # Absent => new.replay = old.replay
  <1> DEFINE b == Begin(l, n)
             old == Reported(b)[x]
             new == Reported(l)[x]
             w == WithRows(Merged(l), l)[x]
  <1>1. b \in Seq(Records)
    BY BeginType
  <1>2. /\ x \in DOMAIN Merged(b) \cup RowIds(b)
        /\ old = IF x \in DOMAIN Merged(b) THEN Merged(b)[x] ELSE RowFinding(x)
        /\ AcceptedCitation(old)
    BY ReportedIs
  <1>3. x \in DOMAIN Merged(l) \cup RowIds(l) /\ AcceptedCitation(w)
          => x \in DOMAIN Reported(l) /\ new = w
    BY ReportedIs
  <1>4. x \in DOMAIN Merged(l) \cup RowIds(l)
          => w = IF x \in DOMAIN Merged(l) THEN Merged(l)[x] ELSE RowFinding(x)
    BY ReportedIs
  <1>5. "call" # Absent /\ "audit_record" # Absent
    BY VerdictAssumption
  <1>6. CASE x \in DOMAIN Merged(b)
    <2>1. /\ x \in DOMAIN Merged(l) /\ w = Merged(l)[x] /\ old = Merged(b)[x]
          /\ \A k \in Merging : old[k] # Absent => w[k] = old[k]
      BY <1>2, <1>4, <1>6, MergeKeeps
    <2> HIDE DEF w, old
    <2>2. /\ old.tool # Absent => w.tool = old.tool
          /\ old.kind # Absent => w.kind = old.kind
          /\ old.seq # Absent => w.seq = old.seq
          /\ old.sha # Absent => w.sha = old.sha
          /\ old.replay # Absent => w.replay = old.replay
      BY <2>1 DEF Merging
    <2>3. /\ HasToolCitation(old) => HasToolCitation(w)
          /\ HasAuditRecordCitation(old) => HasAuditRecordCitation(w)
      BY <1>5, <2>2 DEF HasToolCitation, HasAuditRecordCitation
    <2>4. AcceptedCitation(w)
      BY <1>2, <2>3 DEF AcceptedCitation, CitationKind
    <2>5. QED
      BY <1>3, <2>1, <2>2, <2>3, <2>4 DEF old
  <1>7. CASE x \notin DOMAIN Merged(b)
    <2>1. x \in RowIds(b) /\ x \in RowIds(l) /\ old = RowFinding(x)
      BY <1>2, <1>7, RowIdsGrow
    <2>2. x \notin DOMAIN Merged(l)
      <3>1. x \in OwnIds
        BY <1>1, <2>1, RowIdsOwn
      <3>2. DOMAIN Merged(l) \subseteq FindingIds
        BY MergedIsFirst, MapsFields
      <3>3. QED
        BY <3>1, <3>2 DEF IdsApart
    <2>3. w = old
      BY <1>4, <2>1, <2>2
    <2> HIDE DEF w, old
    <2>4. QED
      BY <1>2, <1>3, <2>1, <2>3 DEF old
  <1>8. QED
    BY <1>6, <1>7

\* What a step that writes a report anew leaves of the one before.
Retains ==
  doc.by = "caseforge" /\ doc'.by = "caseforge" /\ basis' >= basis =>
    \A x \in DOMAIN Cited(doc.findings) :
      LET old == doc.findings[x]
          new == doc'.findings[x]
      IN  /\ x \in DOMAIN doc'.findings
          /\ HasToolCitation(old) => HasToolCitation(new)
          /\ old.replay # Absent => new.replay = old.replay

LEMMA CitedIs ==
  ASSUME NEW fs, NEW x \in DOMAIN Cited(fs)
  PROVE  x \in DOMAIN fs /\ AcceptedCitation(fs[x])
  BY DEF Cited, Restrict

LEMMA RetainsStep ==
  ASSUME IdsApart, ReportInv, [Next]_vars PROVE Retains
  <1>1. CASE UNCHANGED doc
    BY <1>1, CitedIs DEF Retains
  <1>2. CASE ToolkitReports
    <2>1. doc'.by = "toolkit"
      BY <1>2 DEF ToolkitReports, NoDoc
    <2>2. QED
      BY <2>1 DEF Retains
  <1>3. ASSUME NEW q \in Finalizers, NEW rows \in ProbeRows, WriteReport(q, rows),
               doc.by = "caseforge", basis' >= basis, NEW x \in DOMAIN Cited(doc.findings)
        PROVE  /\ x \in DOMAIN doc'.findings
               /\ HasToolCitation(doc.findings[x]) => HasToolCitation(doc'.findings[x])
               /\ doc.findings[x].replay # Absent =>
                    doc'.findings[x].replay = doc.findings[x].replay
    <2>1. basis \in 0..Len(log) /\ DerivedFrom(doc, log, basis)
      BY <1>3, OwnReport
    <2> DEFINE m == read[q]
               l == Begin(log, m)
    <2>2. /\ log \in Seq(Records) /\ m \in 0..Len(log) /\ basis \in 0..m
          /\ doc' = Enrich(Assemble(SubSeq(log, 1, m)), rows)
      BY <1>3, <2>1 DEF ReportInv, WriteReport
    <2>3. PICK before \in ProbeRows : doc = Enrich(Assemble(Begin(log, basis)), before)
      BY <2>1 DEF DerivedFrom
    <2>4. x \in DOMAIN doc.findings /\ AcceptedCitation(doc.findings[x])
      BY <1>3, CitedIs
    <2>5. doc.findings = Reported(Begin(log, basis))
      BY <2>3, <2>4, ReportIs, ProbeType
    <2>6. /\ l \in Seq(Records) /\ SubSeq(log, 1, m) = l
          /\ Begin(l, basis) = Begin(log, basis) /\ basis \in 0..Len(l)
      BY <2>2, BeginType, BeginIs, BeginOfBegin
    <2> HIDE DEF l, m
    <2>7. LET old == Reported(Begin(log, basis))[x]
              new == Reported(l)[x]
          IN  /\ x \in DOMAIN Reported(l)
              /\ HasToolCitation(old) => HasToolCitation(new)
              /\ old.replay # Absent => new.replay = old.replay
      <3>1. x \in DOMAIN Reported(Begin(l, basis))
        BY <2>4, <2>5, <2>6
      <3>2. QED
        BY <2>6, <3>1, ReportKeeps
    <2>8. doc'.findings = Reported(l)
      BY <2>2, <2>6, <2>7, ReportIs
    <2>9. QED
      BY <2>5, <2>7, <2>8
  <1>4. CASE \E q \in Finalizers, rows \in ProbeRows : WriteReport(q, rows)
    BY <1>3, <1>4 DEF Retains
  <1>5. CASE \E q \in Finalizers : LookForReport(q) \/ ReadLog(q) \/ GiveUp(q)
    <2>1. UNCHANGED doc
      BY <1>5 DEF LookForReport, ReadLog, GiveUp
    <2>2. QED
      BY <1>1, <2>1
  <1>6. QED
    BY <1>1, <1>2, <1>4, <1>5 DEF Next, AppendRecord, vars

\* Several runs may finish one directory, each with its own look, reading,
\* probe and write: one that has read at least what the report in place was
\* made of retracts none of its cited findings, with their tool citations and
\* replay results, whatever the agents appended and the toolkit wrote in
\* between (finalizeVerdictJson).
THEOREM NothingRetractedAlways ==
  ASSUME IdsApart PROVE Spec => NothingRetracted
  <1>1. ReportInv /\ [Next]_vars => Retains
    BY RetainsStep
  <1>2. QED
    BY <1>1, ReportsAreDerived, PTL DEF Spec, NothingRetracted, Retains
=============================================================================
