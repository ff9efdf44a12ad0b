------------------------ MODULE KnowledgeResultsProofs ------------------------
(***************************************************************************)
(* Lemmas about KnowledgeResults: what it picks from a list, and what      *)
(* removing near-identical chunks keeps, for lists of any length.          *)
(***************************************************************************)
EXTENDS KnowledgeResults, Functions, FiniteSetTheorems, WellFoundedInduction, TLAPS

-----------------------------------------------------------------------------
(* Induction over the natural numbers, stated with sets. *)

LEMMA SmallestMember ==
  ASSUME NEW S, S \subseteq Nat, S # {}
  PROVE  \E m \in S : \A k \in S : m <= k
  <1> DEFINE R == OpToRel(<, Nat)
  <1>1. IsWellFoundedOn(R, Nat)
    BY NatLessThanWellFounded
  <1> HIDE DEF R
  <1>2. PICK m \in S : \A k \in S : ~ (<<k, m>> \in R)
    BY <1>1, WFMin
  <1>3. \A k \in S : m <= k
    <2> TAKE k \in S
    <2>1. ~ (<<k, m>> \in R)
      BY <1>2
    <2>2. m \in Nat /\ k \in Nat
      OBVIOUS
    <2>3. CASE k < m
      <3>1. <<k, m>> \in Nat \X Nat /\ <<k, m>>[1] < <<k, m>>[2]
        BY <2>2, <2>3
      <3>2. <<k, m>> \in R
        BY <3>1 DEF R, OpToRel
      <3> QED BY <3>2, <2>1
    <2> QED BY <2>2, <2>3, SMT
  <1> QED BY <1>3

(* A set with 0 and with the successor of each member up to n has all of   *)
(* 0..n.                                                                   *)
LEMMA UpTo ==
  ASSUME NEW n \in Nat, NEW I, 0 \in I, \A k \in 0..n-1 : k \in I => k + 1 \in I
  PROVE  \A k \in 0..n : k \in I
  <1> DEFINE S == {k \in 0..n : k \notin I}
  <1>1. SUFFICES ASSUME S # {} PROVE FALSE
    OBVIOUS
  <1>2. S \subseteq Nat
    BY SMT
  <1>3. PICK m \in S : \A k \in S : m <= k
    BY <1>1, <1>2, SmallestMember
  <1>4. m \in 0..n /\ m \notin I /\ m # 0
    OBVIOUS
  <1>5. m - 1 \in 0..n-1 /\ (m - 1) + 1 = m /\ m - 1 \in 0..n /\ ~ (m <= m - 1)
    BY <1>4, SMT
  <1>6. m - 1 \in I
    BY <1>3, <1>5
  <1> QED BY <1>4, <1>5, <1>6

-----------------------------------------------------------------------------
(* Picking from a list. *)

InjectiveKey(key) == \A i, j \in DOMAIN key : key[i] = key[j] => i = j

LEMMA RankRises ==
  ASSUME NEW D, IsFiniteSet(D), NEW key \in [D -> Int], NEW i \in D, NEW j \in D,
         key[i] < key[j]
  PROVE  Rank(key, i) < Rank(key, j)
  <1> DEFINE below(x) == {h \in D : key[h] <= key[x]}
  <1>0. DOMAIN key = D
    OBVIOUS
  <1>1. below(i) \subseteq below(j)
    BY SMT
  <1>2. j \in below(j) /\ j \notin below(i)
    BY SMT
  <1>3. below(j) \in SUBSET D
    OBVIOUS
  <1>3a. IsFiniteSet(below(j))
    BY <1>3, FS_Subset
  <1>4. below(i) \in SUBSET below(j) /\ below(i) # below(j)
    BY <1>1, <1>2
  <1>5. Rank(key, i) = Cardinality(below(i)) /\ Rank(key, j) = Cardinality(below(j))
    BY <1>0 DEF Rank
  <1> HIDE DEF below
  <1>6. /\ IsFiniteSet(below(i))
        /\ Cardinality(below(i)) <= Cardinality(below(j))
        /\ Cardinality(below(i)) # Cardinality(below(j))
    BY <1>3a, <1>4, FS_Subset
  <1>7. Cardinality(below(i)) \in Nat /\ Cardinality(below(j)) \in Nat
    BY <1>3a, <1>6, FS_CardinalityType
  <1> QED BY <1>5, <1>6, <1>7, SMT

LEMMA RankInRange ==
  ASSUME NEW D, IsFiniteSet(D), NEW key \in [D -> Int], NEW i \in D
  PROVE  Rank(key, i) \in 1..Cardinality(D)
  <1> DEFINE B == {h \in D : key[h] <= key[i]}
  <1>0. Rank(key, i) = Cardinality(B)
    BY DEF Rank
  <1>1. B \in SUBSET D /\ i \in B
    BY SMT
  <1> HIDE DEF B
  <1>2. IsFiniteSet(B) /\ Cardinality(B) <= Cardinality(D)
    BY <1>1, FS_Subset
  <1>3. Cardinality(B) \in Nat /\ Cardinality(D) \in Nat
    BY <1>2, FS_CardinalityType
  <1>4. Cardinality(B) # 0
    BY <1>1, <1>2, FS_EmptySet
  <1> QED BY <1>0, <1>2, <1>3, <1>4, SMT

(* Every place in the result is some position's. *)
LEMMA RankOnto ==
  ASSUME NEW D, IsFiniteSet(D), NEW key \in [D -> Int], InjectiveKey(key),
         NEW k \in 1..Cardinality(D)
  PROVE  \E i \in D : Rank(key, i) = k
  <1> DEFINE N == 1..Cardinality(D)
             T == N \ {k}
             f == [i \in D |-> Rank(key, i)]
  <1>0. Cardinality(D) \in Nat
    BY FS_CardinalityType
  <1>1. SUFFICES ASSUME \A i \in D : Rank(key, i) # k PROVE FALSE
    OBVIOUS
  <1>2. f \in [D -> T]
    BY <1>1, RankInRange
  <1>3. IsFiniteSet(N) /\ Cardinality(N) = Cardinality(D)
    <2>1. 1 \in Int /\ Cardinality(D) \in Int
      BY <1>0
    <2>2. /\ IsFiniteSet(1..Cardinality(D))
          /\ Cardinality(1..Cardinality(D)) =
               IF 1 > Cardinality(D) THEN 0 ELSE Cardinality(D) - 1 + 1
      BY <2>1, FS_Interval
    <2> QED BY <2>2, <1>0, SMT
  <1>4. k \in N
    OBVIOUS
  <1> HIDE DEF N
  <1>5. IsFiniteSet(T) /\ Cardinality(T) = Cardinality(N) - 1
    BY <1>3, <1>4, FS_RemoveElement
  <1>6. Cardinality(T) < Cardinality(D)
    BY <1>0, <1>3, <1>5, SMT
  <1> HIDE DEF T, f
  <1>7. \E x, y \in D : x # y /\ f[x] = f[y]
    BY <1>2, <1>5, <1>6, FS_PigeonHole
  <1>8. PICK x \in D, y \in D : x # y /\ f[x] = f[y]
    BY <1>7
  <1>9. Rank(key, x) = Rank(key, y)
    BY <1>8 DEF f
  <1>10. key[x] # key[y] /\ key[x] \in Int /\ key[y] \in Int
    BY <1>8 DEF InjectiveKey
  <1>11. Rank(key, x) \in Int /\ Rank(key, y) \in Int
    BY RankInRange, <1>0
  <1>12. CASE key[x] < key[y]
    BY <1>9, <1>11, <1>12, RankRises, SMT
  <1>13. CASE key[y] < key[x]
    BY <1>9, <1>11, <1>13, RankRises, SMT
  <1> QED BY <1>10, <1>12, <1>13, SMT

(* list has the documents of docs at the positions D, each once. *)
Picks(list, docs, D, pos) ==
  /\ pos \in [1..Cardinality(D) -> D]
  /\ list = [k \in 1..Cardinality(D) |-> docs[pos[k]]]
  /\ \A k, l \in 1..Cardinality(D) : pos[k] = pos[l] => k = l
  /\ \A i \in D : \E k \in 1..Cardinality(D) : pos[k] = i

LEMMA PickedPositions ==
  ASSUME NEW docs, NEW D, IsFiniteSet(D), NEW key \in [D -> Int], InjectiveKey(key)
  PROVE  \E pos : Picks(Picked(docs, key), docs, D, pos)
  <1> DEFINE n == Cardinality(D)
             pos == [k \in 1..n |-> CHOOSE i \in D : Rank(key, i) = k]
  <1>0. DOMAIN key = D
    OBVIOUS
  <1>1. \A k \in 1..n : pos[k] \in D /\ Rank(key, pos[k]) = k
    <2> TAKE k \in 1..n
    <2>1. \E i \in D : Rank(key, i) = k
      BY RankOnto
    <2>2. pos[k] = CHOOSE i \in D : Rank(key, i) = k
      OBVIOUS
    <2> HIDE DEF pos
    <2> QED BY <2>1, <2>2
  <1>2. pos \in [1..n -> D]
    BY <1>1
  <1>3. Picked(docs, key) = [k \in 1..n |-> docs[pos[k]]]
    BY <1>0 DEF Picked
  <1> HIDE DEF pos
  <1>4. \A k, l \in 1..n : pos[k] = pos[l] => k = l
    BY <1>1
  <1>5. \A i \in D : \E k \in 1..n : pos[k] = i
    <2> TAKE i \in D
    <2>1. Rank(key, i) \in 1..n
      BY RankInRange
    <2>2. pos[Rank(key, i)] \in D /\ Rank(key, pos[Rank(key, i)]) = Rank(key, i)
      BY <1>1, <2>1
    <2>3. pos[Rank(key, i)] = i
      <3> DEFINE j == pos[Rank(key, i)]
      <3>0. j \in D /\ Rank(key, j) = Rank(key, i)
        BY <2>2
      <3> HIDE DEF j
      <3>1. key[i] \in Int /\ key[j] \in Int
        BY <3>0
      <3>2. Rank(key, i) \in Int
        BY <2>1, SMT
      <3>3. ~ (key[i] < key[j])
        BY <3>0, <3>2, RankRises, SMT
      <3>4. ~ (key[j] < key[i])
        BY <3>0, <3>2, RankRises, SMT
      <3>5. key[i] = key[j]
        BY <3>1, <3>3, <3>4, SMT
      <3>6. j = i
        BY <3>0, <3>5, <1>0 DEF InjectiveKey
      <3> QED BY <3>6 DEF j
    <2> QED BY <2>1, <2>3
  <1>6. Picks(Picked(docs, key), docs, D, pos)
    BY <1>2, <1>3, <1>4, <1>5 DEF Picks
  <1> QED BY <1>6

(* No chunk is in a list twice. *)
Distinct(list) == IsInjective(Ids(list))

LEMMA DistinctPositions ==
  ASSUME NEW X, NEW list \in Seq(X)
  PROVE  Distinct(list) <=>
           \A i, j \in DOMAIN list : list[i].id = list[j].id => i = j
  BY DEF Distinct, Ids, IsInjective

LEMMA DomainFinite ==
  ASSUME NEW X, NEW list \in Seq(X)
  PROVE  /\ IsFiniteSet(DOMAIN list)
         /\ Cardinality(DOMAIN list) = Len(list)
         /\ Len(list) \in Nat
  <1>1. DOMAIN list = 1..Len(list) /\ Len(list) \in Nat
    OBVIOUS
  <1> DEFINE n == Len(list)
  <1>2. 1 \in Int /\ n \in Int
    BY <1>1
  <1>3. IsFiniteSet(1..n) /\ Cardinality(1..n) = IF 1 > n THEN 0 ELSE n - 1 + 1
    BY <1>2, FS_Interval
  <1>4. (IF 1 > n THEN 0 ELSE n - 1 + 1) = n
    BY <1>1, SMT
  <1> QED BY <1>1, <1>3, <1>4

(* What is picked from a list is a list of the documents at those          *)
(* positions, each once.                                                   *)
LEMMA PickedList ==
  ASSUME NEW X, NEW docs \in Seq(X), NEW D \in SUBSET DOMAIN docs,
         NEW key \in [D -> Int], InjectiveKey(key)
  PROVE  /\ Picked(docs, key) \in Seq(X)
         /\ Len(Picked(docs, key)) <= Len(docs)
         /\ \A i \in D : \E k \in DOMAIN Picked(docs, key) : Picked(docs, key)[k] = docs[i]
         /\ \A k \in DOMAIN Picked(docs, key) : \E i \in D : Picked(docs, key)[k] = docs[i]
         /\ Distinct(docs) => Distinct(Picked(docs, key))
  <1>1. IsFiniteSet(D) /\ Cardinality(D) <= Len(docs) /\ Len(docs) \in Nat
    BY DomainFinite, FS_Subset
  <1>2. Cardinality(D) \in Nat
    BY <1>1, FS_CardinalityType
  <1>a. IsFiniteSet(D)
    BY <1>1
  <1>b. PICK pos : Picks(Picked(docs, key), docs, D, pos)
    BY <1>a, PickedPositions
  <1> DEFINE n == Cardinality(D)
             list == Picked(docs, key)
  <1>3. /\ pos \in [1..n -> D]
        /\ list = [k \in 1..n |-> docs[pos[k]]]
        /\ \A k, l \in 1..n : pos[k] = pos[l] => k = l
        /\ \A i \in D : \E k \in 1..n : pos[k] = i
    BY <1>b DEF Picks
  <1>c. n \in Nat /\ n <= Len(docs)
    BY <1>1, <1>2
  <1> HIDE DEF n, list
  <1>4. \A i \in D : docs[i] \in X
    OBVIOUS
  <1>5. list \in Seq(X) /\ Len(list) = n /\ DOMAIN list = 1..n
    BY <1>c, <1>3, <1>4
  <1>6. \A i \in D : \E k \in DOMAIN list : list[k] = docs[i]
    BY <1>3, <1>5
  <1>7. \A k \in DOMAIN list : \E i \in D : list[k] = docs[i]
    BY <1>3, <1>5
  <1>8. ASSUME Distinct(docs) PROVE Distinct(list)
    <2> SUFFICES ASSUME NEW k \in DOMAIN list, NEW l \in DOMAIN list, list[k].id = list[l].id
                 PROVE  k = l
      BY <1>5, DistinctPositions
    <2>1. list[k] = docs[pos[k]] /\ list[l] = docs[pos[l]] /\ pos[k] \in D /\ pos[l] \in D
      BY <1>3, <1>5
    <2>2. pos[k] = pos[l]
      BY <2>1, <1>8, DistinctPositions
    <2> QED BY <2>2, <1>3, <1>5
  <1> QED BY <1>c, <1>5, <1>6, <1>7, <1>8 DEF n, list

-----------------------------------------------------------------------------
(* The rounds of deduplicateByFile. *)

(* What rounds 0..m keep, by the round before. *)
After(docs, m, f) ==
  [i \in 0..m |-> IF i = 0 THEN DOMAIN docs ELSE Meets(docs, i, f[i-1])]

LEMMA RoundsExist ==
  ASSUME NEW docs, NEW n \in Nat
  PROVE  \E f : f = After(docs, n, f)
  <1> DEFINE I == {m \in 0..n : \E f : f = After(docs, m, f)}
  <1>1. 0 \in I
    <2> DEFINE f == [i \in 0..0 |-> DOMAIN docs]
    <2>1. f = After(docs, 0, f)
      BY SMT DEF After
    <2>2. 0 \in 0..n
      BY SMT
    <2> QED BY <2>1, <2>2
  <1>2. ASSUME NEW m \in 0..n-1, m \in I PROVE m + 1 \in I
    <2>1. PICK f : f = After(docs, m, f)
      BY <1>2
    <2> DEFINE g == [i \in 0..m+1 |-> IF i = 0 THEN DOMAIN docs ELSE Meets(docs, i, f[i-1])]
    <2>0. m \in Nat /\ m + 1 \in 0..n
      BY SMT
    <2>2. \A i \in 0..m : g[i] = f[i]
      <3> TAKE i \in 0..m
      <3>1. f[i] = IF i = 0 THEN DOMAIN docs ELSE Meets(docs, i, f[i-1])
        BY <2>1 DEF After
      <3>2. i \in 0..m+1
        BY <2>0, SMT
      <3> QED BY <3>1, <3>2
    <2>3. \A i \in 0..m+1 : i # 0 => f[i-1] = g[i-1]
      <3> TAKE i \in 0..m+1
      <3>1. i # 0 => i - 1 \in 0..m
        BY <2>0, SMT
      <3> HIDE DEF g
      <3> QED BY <3>1, <2>2
    <2>4. g = [i \in 0..m+1 |-> IF i = 0 THEN DOMAIN docs ELSE Meets(docs, i, g[i-1])]
      <3>1. \A i \in 0..m+1 : (IF i = 0 THEN DOMAIN docs ELSE Meets(docs, i, f[i-1]))
                            = (IF i = 0 THEN DOMAIN docs ELSE Meets(docs, i, g[i-1]))
        <4> HIDE DEF g
        <4> QED BY <2>3
      <3> DEFINE h == [i \in 0..m+1 |-> IF i = 0 THEN DOMAIN docs ELSE Meets(docs, i, g[i-1])]
      <3>2. g = h
        BY <3>1
      <3> QED BY <3>2
    <2> HIDE DEF g
    <2>5. g = After(docs, m + 1, g)
      BY <2>4 DEF After
    <2> QED BY <2>0, <2>5
  <1>3. \A m \in 0..n-1 : m \in I => m + 1 \in I
    BY <1>2
  <1> HIDE DEF I
  <1>4. \A m \in 0..n : m \in I
    BY <1>1, <1>3, UpTo
  <1>5. n \in 0..n
    BY SMT
  <1> QED BY <1>4, <1>5 DEF I

LEMMA KeptAfter ==
  ASSUME NEW X, NEW docs \in Seq(X)
  PROVE  /\ Rounds(docs)[0] = DOMAIN docs
         /\ \A i \in 1..Len(docs) : Rounds(docs)[i] = Meets(docs, i, Rounds(docs)[i-1])
  <1> DEFINE n == Len(docs)
  <1>0. n \in Nat
    OBVIOUS
  <1>1. \E f : f = After(docs, n, f)
    BY <1>0, RoundsExist
  <1>2. Rounds(docs) = CHOOSE f : f = After(docs, n, f)
    BY DEF Rounds, After
  <1>3. Rounds(docs) = After(docs, n, Rounds(docs))
    BY <1>1, <1>2
  <1> DEFINE r == Rounds(docs)
  <1>4. r = [i \in 0..n |-> IF i = 0 THEN DOMAIN docs ELSE Meets(docs, i, r[i-1])]
    BY <1>3 DEF After
  <1> HIDE DEF r, n
  <1>5. 0 \in 0..n /\ \A i \in 1..n : i \in 0..n /\ i # 0
    BY <1>0, SMT
  <1>6. r[0] = DOMAIN docs
    BY <1>4, <1>5
  <1>7. \A i \in 1..n : r[i] = Meets(docs, i, r[i-1])
    BY <1>4, <1>5
  <1> QED BY <1>6, <1>7 DEF r, n

LEMMA AlikeSymmetric ==
  ASSUME NEW d, NEW e, Alike(d, e)
  PROVE  Alike(e, d)
  <1>1. Similar(d.words, e.words)
    BY DEF Alike
  <1>2. /\ d.words \cap e.words = e.words \cap d.words
        /\ d.words \cup e.words = e.words \cup d.words
    OBVIOUS
  <1>3. Similar(e.words, d.words)
    BY <1>1, <1>2 DEF Similar
  <1> QED BY <1>3 DEF Alike, SameFile

(* Another document of the list that reads the same and scores no less. *)
HasTwin(docs, d) ==
  \E e \in DOMAIN docs : e # d /\ Alike(docs[d], docs[e]) /\ docs[e].score >= docs[d].score

(* What the rounds up to i have established for the positions kept. *)
SettledUpTo(docs, i, kept) ==
  /\ kept \subseteq DOMAIN docs
  /\ \A h, j \in kept : h <= i /\ h < j => ~Alike(docs[h], docs[j])
  /\ \A d \in DOMAIN docs \ kept : HasTwin(docs, d)
  /\ \A d \in DOMAIN docs : \E e \in kept :
       SameFile(docs[e], docs[d]) /\ docs[e].score >= docs[d].score

(* A round that finds no higher twin keeps i and drops its twins; one that *)
(* does drops i and the twins before, and keeps the higher twin.           *)
LEMMA MeetsSettles ==
  ASSUME NEW X, NEW docs \in Seq(X), \A h \in DOMAIN docs : docs[h].score \in Int,
         NEW i \in 1..Len(docs), NEW kept, SettledUpTo(docs, i - 1, kept)
  PROVE  SettledUpTo(docs, i, Meets(docs, i, kept))
  <1> DEFINE twins == {j \in kept : j > i /\ Alike(docs[i], docs[j])}
             higher == {j \in twins : Beats(docs[j], docs[i])}
             new == Meets(docs, i, kept)
  <1>0. DOMAIN docs = 1..Len(docs) /\ Len(docs) \in Nat
    OBVIOUS
  <1>1. new = IF i \notin kept THEN kept
              ELSE IF higher = {} THEN kept \ twins
              ELSE kept \ ({i} \cup {j \in twins : \A h \in higher : j < h})
    BY DEF Meets
  <1>2. /\ kept \subseteq DOMAIN docs
        /\ \A h, j \in kept : h <= i - 1 /\ h < j => ~Alike(docs[h], docs[j])
        /\ \A d \in DOMAIN docs \ kept : HasTwin(docs, d)
        /\ \A d \in DOMAIN docs : \E e \in kept :
             SameFile(docs[e], docs[d]) /\ docs[e].score >= docs[d].score
    BY DEF SettledUpTo
  <1>3. \A j \in twins : /\ j \in kept /\ j > i /\ j \in DOMAIN docs
                         /\ Alike(docs[i], docs[j]) /\ Alike(docs[j], docs[i])
    BY <1>2, AlikeSymmetric
  <1>4. \A j \in higher : j \in twins /\ docs[j].score > docs[i].score
    BY DEF Beats
  <1>5. \A j \in twins \ higher : ~ (docs[j].score > docs[i].score)
    BY DEF Beats
  <1>6. \A j \in kept : j > i /\ j \notin twins => ~Alike(docs[i], docs[j])
    OBVIOUS
  <1>i. i \in DOMAIN docs
    BY <1>0
  <1> HIDE DEF twins, higher, new
  <1>7. new \subseteq kept
    BY <1>1
  <1>8. \A h, j \in new : h <= i /\ h < j => ~Alike(docs[h], docs[j])
    <2> SUFFICES ASSUME NEW h \in new, NEW j \in new, h <= i, h < j
                 PROVE  ~Alike(docs[h], docs[j])
      OBVIOUS
    <2>1. h \in kept /\ j \in kept /\ h \in Int /\ j \in Int
      BY <1>0, <1>2, <1>7
    <2>2. CASE h <= i - 1
      BY <2>1, <2>2, <1>2
    <2>3. CASE h = i
      <3>1. i \in kept /\ higher = {}
        BY <1>1, <2>1, <2>3
      <3>2. j \notin twins
        BY <1>1, <3>1
      <3> QED BY <1>6, <2>1, <2>3, <3>2
    <2>4. h <= i - 1 \/ h = i
      BY <2>1, <1>0, SMT
    <2> QED BY <2>2, <2>3, <2>4
  (* A round drops i for a higher twin, or twins that are no higher.       *)
  <1>9. \A d \in kept \ new :
          /\ d \in DOMAIN docs /\ i \in kept
          /\ \/ d = i /\ higher # {}
             \/ d \in twins /\ docs[i].score >= docs[d].score
    <2> SUFFICES ASSUME NEW d \in kept \ new
                 PROVE  /\ d \in DOMAIN docs /\ i \in kept
                        /\ \/ d = i /\ higher # {}
                           \/ d \in twins /\ docs[i].score >= docs[d].score
      OBVIOUS
    <2>0. d \in DOMAIN docs /\ docs[d].score \in Int /\ docs[i].score \in Int /\ i \in kept
      BY <1>1, <1>2, <1>i
    <2>1. d \in twins \/ (d = i /\ higher # {})
      BY <1>1, <2>0
    <2>2. ASSUME d \in twins, d # i PROVE docs[i].score >= docs[d].score
      <3>1. d \notin higher
        <4>1. ~ (d < d)
          BY <2>0, <1>0, SMT
        <4>2. CASE higher = {}
          BY <4>2
        <4>3. CASE higher # {}
          <5>1. \A h \in higher : d < h
            BY <1>1, <2>0, <4>3, <2>2
          <5> QED BY <4>1, <5>1
        <4> QED BY <4>2, <4>3
      <3>2. ~ (docs[d].score > docs[i].score)
        BY <2>2, <3>1, <1>5
      <3> QED BY <3>2, <2>0, SMT
    <2>3. d \in twins => d # i
      BY <1>3, <2>0, <1>0, SMT
    <2> QED BY <2>0, <2>1, <2>2, <2>3
  <1>10. \A h \in higher : /\ h \in DOMAIN docs /\ h # i /\ Alike(docs[i], docs[h])
                            /\ docs[h].score >= docs[i].score
    <2> TAKE h \in higher
    <2>1. h \in DOMAIN docs /\ h > i /\ Alike(docs[i], docs[h]) /\ docs[h].score > docs[i].score
      BY <1>3, <1>4
    <2>2. h # i
      BY <2>1, <1>0, SMT
    <2>3. docs[h].score >= docs[i].score
      BY <2>1, <1>i, SMT
    <2> QED BY <2>1, <2>2, <2>3
  <1>11. \A d \in kept \ new : HasTwin(docs, d)
    <2> SUFFICES ASSUME NEW d \in kept \ new PROVE HasTwin(docs, d)
      OBVIOUS
    <2>1. CASE d = i /\ higher # {}
      BY <2>1, <1>10 DEF HasTwin
    <2>2. CASE d \in twins /\ docs[i].score >= docs[d].score
      <3>1. i # d /\ Alike(docs[d], docs[i])
        BY <2>2, <1>3, <1>0
      <3> QED BY <2>2, <3>1, <1>i DEF HasTwin
    <2> QED BY <1>9, <2>1, <2>2
  (* i itself, or a higher twin of it, is kept. *)
  <1>12. i \in kept => \E e \in new : /\ SameFile(docs[e], docs[i])
                                     /\ docs[e].score >= docs[i].score
    <2> SUFFICES ASSUME i \in kept
                 PROVE  \E e \in new : SameFile(docs[e], docs[i]) /\ docs[e].score >= docs[i].score
      OBVIOUS
    <2>1. CASE higher = {}
      <3>1. i \notin twins
        BY <1>3, <1>0
      <3>2. i \in new
        BY <1>1, <2>1, <3>1
      <3>3. docs[i].score >= docs[i].score
        BY <1>i, SMT
      <3>4. SameFile(docs[i], docs[i])
        BY DEF SameFile
      <3> QED BY <3>2, <3>3, <3>4
    <2>2. CASE higher # {}
      <3>1. PICK h \in higher : TRUE
        BY <2>2
      <3>2. h \in DOMAIN docs /\ h # i /\ Alike(docs[i], docs[h]) /\ docs[h].score >= docs[i].score
        BY <1>10
      <3>3. ~ (h < h) /\ h \in kept
        BY <1>0, <3>2, <1>3, <1>4
      <3>4. h \in new
        BY <1>1, <2>2, <3>2, <3>3
      <3>5. SameFile(docs[h], docs[i])
        BY <3>2 DEF Alike, SameFile
      <3> QED BY <3>2, <3>4, <3>5
    <2> QED BY <2>1, <2>2
  <1>13. \A d \in kept : \E e \in new :
           SameFile(docs[e], docs[d]) /\ docs[e].score >= docs[d].score
    <2> SUFFICES ASSUME NEW d \in kept
                 PROVE  \E e \in new : SameFile(docs[e], docs[d]) /\ docs[e].score >= docs[d].score
      OBVIOUS
    <2>0. d \in DOMAIN docs /\ docs[d].score \in Int /\ docs[i].score \in Int
      BY <1>2, <1>i
    <2>1. CASE d \in new
      <3>1. SameFile(docs[d], docs[d]) /\ docs[d].score >= docs[d].score
        BY <2>0, SMT DEF SameFile
      <3> QED BY <2>1, <3>1
    <2>2. CASE d \notin new
      <3>1. i \in kept /\ SameFile(docs[i], docs[d]) /\ docs[i].score >= docs[d].score
        <4>1. CASE d = i
          BY <4>1, <2>0, <2>2, <1>9, SMT DEF SameFile
        <4>2. CASE d \in twins /\ docs[i].score >= docs[d].score
          BY <4>2, <2>2, <1>9, <1>3 DEF Alike
        <4> QED BY <4>1, <4>2, <2>2, <1>9
      <3>2. PICK e \in new : SameFile(docs[e], docs[i]) /\ docs[e].score >= docs[i].score
        BY <3>1, <1>12
      <3>3. docs[e].score \in Int
        BY <1>2, <1>7
      <3>4. docs[e].score >= docs[d].score
        BY <3>1, <3>2, <3>3, <2>0, SMT
      <3>5. SameFile(docs[e], docs[d])
        BY <3>1, <3>2 DEF SameFile
      <3> QED BY <3>4, <3>5
    <2> QED BY <2>1, <2>2
  <1>14. \A d \in DOMAIN docs : \E e \in new :
           SameFile(docs[e], docs[d]) /\ docs[e].score >= docs[d].score
    <2> SUFFICES ASSUME NEW d \in DOMAIN docs
                 PROVE  \E e \in new : SameFile(docs[e], docs[d]) /\ docs[e].score >= docs[d].score
      OBVIOUS
    <2>1. PICK k \in kept : SameFile(docs[k], docs[d]) /\ docs[k].score >= docs[d].score
      BY <1>2
    <2>2. PICK e \in new : SameFile(docs[e], docs[k]) /\ docs[e].score >= docs[k].score
      BY <1>13
    <2>3. docs[e].score \in Int /\ docs[k].score \in Int /\ docs[d].score \in Int
      BY <1>2, <1>7
    <2>4. docs[e].score >= docs[d].score
      BY <2>1, <2>2, <2>3, SMT
    <2> QED BY <2>1, <2>2, <2>4 DEF SameFile
  <1>15. new \subseteq DOMAIN docs
    BY <1>2, <1>7
  <1>16. \A d \in DOMAIN docs \ new : HasTwin(docs, d)
    BY <1>2, <1>11
  <1> QED BY <1>8, <1>14, <1>15, <1>16 DEF SettledUpTo, new

LEMMA RoundsSettle ==
  ASSUME NEW X, NEW docs \in Seq(X), \A h \in DOMAIN docs : docs[h].score \in Int
  PROVE  SettledUpTo(docs, Len(docs), Rounds(docs)[Len(docs)])
  <1> DEFINE n == Len(docs)
             r == Rounds(docs)
             I == {i \in 0..n : SettledUpTo(docs, i, r[i])}
  <1>0. n \in Nat /\ DOMAIN docs = 1..n
    OBVIOUS
  <1>1. r[0] = DOMAIN docs /\ \A i \in 1..n : r[i] = Meets(docs, i, r[i-1])
    BY KeptAfter
  <1> HIDE DEF r
  <1>2. 0 \in I
    <2>1. \A h, j \in DOMAIN docs : ~ (h <= 0)
      BY <1>0, SMT
    <2>2. \A d \in DOMAIN docs : SameFile(docs[d], docs[d]) /\ docs[d].score >= docs[d].score
      BY SMT DEF SameFile
    <2>3. SettledUpTo(docs, 0, r[0])
      BY <1>1, <2>1, <2>2 DEF SettledUpTo
    <2>4. 0 \in 0..n
      BY <1>0, SMT
    <2> QED BY <2>3, <2>4
  <1>3. ASSUME NEW i \in 0..n-1, i \in I PROVE i + 1 \in I
    <2>1. i + 1 \in 1..Len(docs) /\ i + 1 \in 0..n /\ (i + 1) - 1 = i
      BY <1>0, SMT
    <2>2. SettledUpTo(docs, (i + 1) - 1, r[i])
      BY <1>3, <2>1
    <2>3. SettledUpTo(docs, i + 1, Meets(docs, i + 1, r[i]))
      BY <2>1, <2>2, MeetsSettles
    <2>4. r[i+1] = Meets(docs, i + 1, r[i])
      BY <1>1, <2>1
    <2> QED BY <2>1, <2>3, <2>4
  <1>4. \A i \in 0..n-1 : i \in I => i + 1 \in I
    BY <1>3
  <1> HIDE DEF I
  <1>5. \A i \in 0..n : i \in I
    BY <1>0, <1>2, <1>4, UpTo
  <1>6. n \in 0..n
    BY <1>0, SMT
  <1> QED BY <1>5, <1>6 DEF I, r

LEMMA BlockOrder ==
  ASSUME NEW n \in Nat, NEW a \in Nat, NEW b \in Nat, NEW i \in 1..n, NEW j \in 1..n, a < b
  PROVE  n * a + i < n * b + j
  <1> DEFINE c == b - a - 1
  <1>1. c \in Nat /\ b = a + 1 + c
    BY SMT
  <1> HIDE DEF c
  <1>2. n * b = n * a + n + n * c /\ n * c \in Nat /\ n * a \in Nat
    BY <1>1, SMT
  <1> DEFINE p == n * a
             q == n * c
             r == n * b
  <1>3. r = p + n + q /\ q \in Nat /\ p \in Nat
    BY <1>2
  <1> HIDE DEF p, q, r
  <1>4. p + i < r + j
    BY <1>3, SMT
  <1> QED BY <1>4 DEF p, r

LEMMA FirstIsPosition ==
  ASSUME NEW X, NEW docs \in Seq(X), NEW i \in DOMAIN docs
  PROVE  First(docs, i) \in DOMAIN docs
  <1> DEFINE S == {j \in DOMAIN docs : SameFile(docs[j], docs[i])}
  <1>0. DOMAIN docs = 1..Len(docs) /\ Len(docs) \in Nat
    OBVIOUS
  <1>1. i \in S
    BY DEF SameFile
  <1>2. S \subseteq Nat
    BY <1>0, SMT
  <1>3. PICK m \in S : \A k \in S : m <= k
    BY <1>1, <1>2, SmallestMember
  <1>4. \A h \in 1..m-1 : ~SameFile(docs[h], docs[i])
    <2> TAKE h \in 1..m-1
    <2>1. h \in DOMAIN docs /\ ~ (m <= h)
      BY <1>0, <1>3, SMT
    <2> QED BY <2>1, <1>3
  <1>5. \E j \in DOMAIN docs : /\ SameFile(docs[j], docs[i])
                               /\ \A h \in 1..j-1 : ~SameFile(docs[h], docs[i])
    BY <1>3, <1>4
  <1> QED BY <1>5 DEF First

(* The chunks left of a list: those of the positions a run of all rounds   *)
(* keeps.                                                                  *)
LeftOf(docs, out, kept) ==
  /\ SettledUpTo(docs, Len(docs), kept)
  /\ \A i \in kept : \E k \in DOMAIN out : out[k] = docs[i]
  /\ \A k \in DOMAIN out : \E i \in kept : out[k] = docs[i]

LEMMA DeduplicatedList ==
  ASSUME NEW X, NEW docs \in Seq(X), \A h \in DOMAIN docs : docs[h].score \in Int
  PROVE  /\ deduplicateByFile(docs) \in Seq(X)
         /\ Len(deduplicateByFile(docs)) <= Len(docs)
         /\ Distinct(docs) => Distinct(deduplicateByFile(docs))
         /\ \E kept : LeftOf(docs, deduplicateByFile(docs), kept)
  <1> DEFINE n == Len(docs)
             kept == Rounds(docs)[n]
             key == [i \in kept |-> n * First(docs, i) + i]
  <1>0. n \in Nat /\ DOMAIN docs = 1..n
    OBVIOUS
  <1>1. SettledUpTo(docs, n, kept)
    BY RoundsSettle
  <1> HIDE DEF n
  <1>2. kept \in SUBSET DOMAIN docs
    BY <1>1 DEF SettledUpTo
  <1>3. {i \in DOMAIN docs : i \in kept} = kept
    BY <1>2
  <1>4. deduplicateByFile(docs) = Picked(docs, key)
    BY <1>3 DEF deduplicateByFile, n
  <1> HIDE DEF kept
  <1>5. \A i \in kept : First(docs, i) \in Nat /\ i \in 1..n
    <2> TAKE i \in kept
    <2>1. i \in DOMAIN docs
      BY <1>2
    <2>2. First(docs, i) \in DOMAIN docs
      BY <2>1, FirstIsPosition
    <2> QED BY <2>1, <2>2, <1>0, SMT
  <1>6. key \in [kept -> Int]
    <2>1. \A i \in kept : n * First(docs, i) + i \in Int
      BY <1>0, <1>5, SMT
    <2> QED BY <2>1
  <1>7. InjectiveKey(key)
    <2> SUFFICES ASSUME NEW i \in kept, NEW j \in kept, key[i] = key[j] PROVE i = j
      BY DEF InjectiveKey
    <2> DEFINE a == First(docs, i)
               b == First(docs, j)
    <2>1. a \in Nat /\ b \in Nat /\ i \in 1..n /\ j \in 1..n /\ n * a + i = n * b + j
      BY <1>5
    <2> HIDE DEF a, b, key
    <2> DEFINE x == n * a
               y == n * b
    <2>2. x \in Nat /\ y \in Nat /\ x + i = y + j
      BY <1>0, <2>1, SMT
    <2>3. ~ (a < b)
      <3>1. a < b => x + i < y + j
        BY <1>0, <2>1, BlockOrder
      <3> HIDE DEF x, y
      <3> QED BY <2>1, <2>2, <3>1, SMT
    <2>4. ~ (b < a)
      <3>1. b < a => y + j < x + i
        BY <1>0, <2>1, BlockOrder
      <3> HIDE DEF x, y
      <3> QED BY <2>1, <2>2, <3>1, SMT
    <2>5. a = b
      BY <2>1, <2>3, <2>4, SMT
    <2>6. x = y
      BY <2>5
    <2> HIDE DEF x, y
    <2> QED BY <2>1, <2>2, <2>6, SMT
  <1> HIDE DEF key
  <1> DEFINE out == Picked(docs, key)
  <1>8. /\ out \in Seq(X) /\ Len(out) <= Len(docs)
        /\ Distinct(docs) => Distinct(out)
        /\ \A i \in kept : \E k \in DOMAIN out : out[k] = docs[i]
        /\ \A k \in DOMAIN out : \E i \in kept : out[k] = docs[i]
    BY <1>2, <1>6, <1>7, PickedList
  <1>9. LeftOf(docs, out, kept)
    BY <1>1, <1>8 DEF LeftOf, n
  <1> QED BY <1>4, <1>8, <1>9

LEMMA FilteredList ==
  ASSUME NEW X, NEW docs \in Seq(X), NEW minScore
  PROVE  /\ filterByMinScore(docs, minScore) \in Seq(X)
         /\ Len(filterByMinScore(docs, minScore)) <= Len(docs)
         /\ Distinct(docs) => Distinct(filterByMinScore(docs, minScore))
         /\ \A k \in DOMAIN filterByMinScore(docs, minScore) :
              \E i \in DOMAIN docs : filterByMinScore(docs, minScore)[k] = docs[i]
         /\ \A i \in DOMAIN docs : docs[i].score >= minScore =>
              \E k \in DOMAIN filterByMinScore(docs, minScore) :
                filterByMinScore(docs, minScore)[k] = docs[i]
  <1> DEFINE D == {j \in DOMAIN docs : docs[j].score >= minScore}
             key == [i \in D |-> i]
  <1>1. D \in SUBSET DOMAIN docs
    OBVIOUS
  <1>2. DOMAIN docs \subseteq Int
    BY SMT
  <1>3. key \in [D -> Int] /\ InjectiveKey(key)
    BY <1>1, <1>2 DEF InjectiveKey
  <1>4. filterByMinScore(docs, minScore) = Picked(docs, key)
    BY DEF filterByMinScore
  <1>6. \A i \in DOMAIN docs : docs[i].score >= minScore => i \in D
    OBVIOUS
  <1> HIDE DEF D, key
  <1> DEFINE out == Picked(docs, key)
  <1>5. /\ out \in Seq(X) /\ Len(out) <= Len(docs)
        /\ Distinct(docs) => Distinct(out)
        /\ \A i \in D : \E k \in DOMAIN out : out[k] = docs[i]
        /\ \A k \in DOMAIN out : \E i \in D : out[k] = docs[i]
    BY <1>1, <1>3, PickedList
  <1> HIDE DEF out
  <1> QED BY <1>1, <1>4, <1>5, <1>6 DEF out

LEMMA PlacedList ==
  ASSUME NEW X, NEW list \in Seq(X)
  PROVE  /\ Place(list) \in Seq(X) /\ Len(Place(list)) = Len(list)
         /\ Distinct(list) => Distinct(Place(list))
         /\ \A k \in DOMAIN Place(list) : \E i \in DOMAIN list : Place(list)[k] = list[i]
  <1> DEFINE n == Len(list)
             at == [k \in 1..n |-> IF 2 * k <= n + 1 THEN 2 * k - 1 ELSE 2 * (n - k + 1)]
             out == Place(list)
  <1>0. n \in Nat /\ DOMAIN list = 1..n
    OBVIOUS
  <1> HIDE DEF n
  <1>1. \A k \in 1..n : at[k] \in 1..n
    BY <1>0, SMT
  <1>2. \A k, l \in 1..n : at[k] = at[l] => k = l
    BY <1>0, SMT
  <1>3. out = [k \in 1..n |-> list[at[k]]]
    BY SMT DEF Place, n
  <1> HIDE DEF at, out
  <1>4. \A k \in 1..n : list[at[k]] \in X
    BY <1>0, <1>1
  <1>5. out \in Seq(X) /\ Len(out) = n /\ DOMAIN out = 1..n
    BY <1>0, <1>3, <1>4
  <1>6. ASSUME Distinct(list) PROVE Distinct(out)
    <2> SUFFICES ASSUME NEW k \in 1..n, NEW l \in 1..n, out[k].id = out[l].id PROVE k = l
      BY <1>5, DistinctPositions
    <2>1. list[at[k]].id = list[at[l]].id /\ at[k] \in DOMAIN list /\ at[l] \in DOMAIN list
      BY <1>0, <1>1, <1>3
    <2>2. at[k] = at[l]
      BY <2>1, <1>6, DistinctPositions
    <2> QED BY <2>2, <1>2
  <1>7. \A k \in DOMAIN out : \E i \in DOMAIN list : out[k] = list[i]
    BY <1>0, <1>1, <1>3, <1>5
  <1> QED BY <1>5, <1>6, <1>7 DEF out, n
=============================================================================
