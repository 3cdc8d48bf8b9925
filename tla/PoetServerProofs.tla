-------------------------- MODULE PoetServerProofs --------------------------
(***************************************************************************)
(* Theorems about PoetServer for any number of connections, keys and ids.  *)
(* The lemmas about the queue's operators, those of PoetQueue, come first. *)
(***************************************************************************)
EXTENDS PoetServer, FiniteSetTheorems, TLAPS

-----------------------------------------------------------------------------
(* The operators of PoetQueue *)

(* Sequences: their length and elements, and what the operators on them return *)
LEMMA SeqLength ==
  ASSUME NEW S, NEW s \in Seq(S)
  PROVE  Len(s) \in Nat /\ s \in [1..Len(s) -> S] /\ DOMAIN s = 1..Len(s)
OBVIOUS

LEMMA SeqWider ==
  ASSUME NEW S, NEW T, S \subseteq T
  PROVE  Seq(S) \subseteq Seq(T)
OBVIOUS

LEMMA SeqElement ==
  ASSUME NEW S, NEW s \in Seq(S), NEW k \in 1..Len(s)
  PROVE  s[k] \in S
OBVIOUS

LEMMA SeqTail ==
  ASSUME NEW S, NEW s \in Seq(S), s # <<>>
  PROVE  /\ Head(s) = s[1] /\ Head(s) \in S
         /\ Tail(s) \in Seq(S) /\ Len(Tail(s)) = Len(s) - 1
         /\ \A k \in 1..Len(Tail(s)) : Tail(s)[k] = s[k + 1]
OBVIOUS

LEMMA SeqAppend ==
  ASSUME NEW S, NEW s \in Seq(S), NEW e \in S
  PROVE  /\ Append(s, e) \in Seq(S) /\ Len(Append(s, e)) = Len(s) + 1
         /\ \A k \in 1..Len(s) : Append(s, e)[k] = s[k]
         /\ Append(s, e)[Len(s) + 1] = e
OBVIOUS

LEMMA SeqConcat ==
  ASSUME NEW S, NEW s \in Seq(S), NEW t \in Seq(S)
  PROVE  /\ s \o t \in Seq(S) /\ Len(s \o t) = Len(s) + Len(t)
         /\ \A k \in 1..(Len(s) + Len(t)) :
              (s \o t)[k] = IF k <= Len(s) THEN s[k] ELSE t[k - Len(s)]
OBVIOUS

LEMMA SeqExcept ==
  ASSUME NEW S, NEW s \in Seq(S), NEW k \in 1..Len(s), NEW e \in S
  PROVE  /\ [s EXCEPT ![k] = e] \in Seq(S) /\ Len([s EXCEPT ![k] = e]) = Len(s)
         /\ \A l \in 1..Len(s) : [s EXCEPT ![k] = e][l] = IF l = k THEN e ELSE s[l]
OBVIOUS

(* The rank of an element lies between 1 and the size of the set. *)
LEMMA RankRange ==
  ASSUME NEW S \in SUBSET Int, IsFiniteSet(S), NEW i \in S
  PROVE  Rank(S, i) \in 1..Cardinality(S)
<1> DEFINE T == {j \in S : j <= i}
<1>1. IsFiniteSet(T) /\ Cardinality(T) <= Cardinality(S)
  BY FS_Subset
<1>2. Cardinality(T) \in Nat /\ Cardinality(S) \in Nat
  BY <1>1, FS_CardinalityType
<1>3. T # {}
  OBVIOUS
<1>4. Cardinality(T) # 0
  BY <1>1, <1>3, FS_EmptySet
<1> QED
  BY <1>1, <1>2, <1>4 DEF Rank

(* A greater element has a greater rank. *)
LEMMA RankIncreases ==
  ASSUME NEW S \in SUBSET Int, IsFiniteSet(S), NEW i \in S, NEW j \in S, i < j
  PROVE  Rank(S, i) < Rank(S, j)
<1> DEFINE T == {k \in S : k <= i}
           U == {k \in S : k <= j}
<1>1. T \subseteq U /\ T # U
  <2>1. j \in U /\ j \notin T
    OBVIOUS
  <2>2. \A k \in S : k <= i => k <= j
    OBVIOUS
  <2> QED
    BY Zenon, <2>1, <2>2
<1>2. IsFiniteSet(U)
  BY FS_Subset
<1>3. IsFiniteSet(T) /\ Cardinality(T) <= Cardinality(U) /\ Cardinality(U) # Cardinality(T)
  <2> HIDE DEF T, U
  <2> QED
    BY <1>1, <1>2, FS_Subset
<1>4. Cardinality(T) \in Nat /\ Cardinality(U) \in Nat
  BY <1>2, <1>3, FS_CardinalityType
<1> QED
  BY <1>3, <1>4 DEF Rank

(* Every number up to the size of the set is the rank of an element. *)
LEMMA RankOnto ==
  ASSUME NEW S \in SUBSET Int, IsFiniteSet(S), NEW k \in 1..Cardinality(S)
  PROVE  \E i \in S : Rank(S, i) = k
<1> DEFINE n == Cardinality(S)
           f == [i \in S |-> Rank(S, i)]
<1>1. n \in Nat
  BY FS_CardinalityType
<1>2. f \in [S -> 1..n]
  BY RankRange
<1>3. \A i, j \in S : f[i] = f[j] => i = j
  <2> SUFFICES ASSUME NEW i \in S, NEW j \in S, i # j
               PROVE  Rank(S, i) # Rank(S, j)
    OBVIOUS
  <2>1. Rank(S, i) \in Int /\ Rank(S, j) \in Int
    BY RankRange
  <2>2. i < j \/ j < i
    OBVIOUS
  <2> QED
    BY <2>1, <2>2, RankIncreases
<1>4. f \in Injection(S, 1..n)
  BY <1>2, <1>3 DEF Injection, IsInjective
<1>5. IsFiniteSet(1..n) /\ Cardinality(1..n) = n
  BY <1>1, FS_Interval
<1>6. f \in Surjection(S, 1..n)
  <2> HIDE DEF f, n
  <2>1. Cardinality(S) = Cardinality(1..n)
    BY <1>5 DEF n
  <2> QED
    BY <1>4, <1>5, <2>1, FS_Injection
<1> QED
  BY Zenon, <1>6 DEF Surjection

(* Ascending(S) lists S in increasing order, each element once. *)
LEMMA AscendingProperties ==
  ASSUME NEW S \in SUBSET Int, IsFiniteSet(S)
  PROVE  /\ Cardinality(S) \in Nat
         /\ Ascending(S) \in [1..Cardinality(S) -> S]
         /\ Ascending(S) \in Seq(S)
         /\ Len(Ascending(S)) = Cardinality(S)
         /\ \A k, l \in 1..Cardinality(S) : k < l => Ascending(S)[k] < Ascending(S)[l]
         /\ \A k, l \in 1..Cardinality(S) : Ascending(S)[k] = Ascending(S)[l] => k = l
         /\ \A i \in S : \E k \in 1..Cardinality(S) : Ascending(S)[k] = i
<1> DEFINE n == Cardinality(S)
           asc == Ascending(S)
<1>1. n \in Nat
  BY FS_CardinalityType
<1>2. \A k \in 1..n : asc[k] \in S /\ Rank(S, asc[k]) = k
  BY RankOnto DEF Ascending
<1>3. asc \in [1..n -> S]
  BY <1>2 DEF Ascending
<1>4. asc \in Seq(S) /\ Len(asc) = n
  BY <1>1, <1>3
<1>5. \A k, l \in 1..n : asc[k] = asc[l] => k = l
  BY <1>2
<1>6. ASSUME NEW k \in 1..n, NEW l \in 1..n, k < l
      PROVE  asc[k] < asc[l]
  <2>1. asc[k] \in S /\ asc[l] \in S
    BY <1>2
  <2>2. CASE asc[l] < asc[k]
    <3>1. Rank(S, asc[l]) < Rank(S, asc[k])
      BY Zenon, <2>1, <2>2, RankIncreases
    <3> QED
      BY <3>1, <1>2, <1>6, <1>1
  <2>3. asc[k] # asc[l]
    BY <1>5, <1>6, <1>1
  <2>4. asc[k] \in Int /\ asc[l] \in Int
    BY Zenon, <2>1
  <2> QED
    BY <2>2, <2>3, <2>4
<1>7. ASSUME NEW i \in S
      PROVE  \E k \in 1..n : asc[k] = i
  <2>1. Rank(S, i) \in 1..n
    BY RankRange
  <2> DEFINE k == Rank(S, i)
  <2>2. asc[k] \in S /\ Rank(S, asc[k]) = k
    BY <1>2, <2>1
  <2>3. asc[k] \in Int /\ i \in Int /\ k \in Int
    <3>1. k \in Int
      BY <2>1
    <3> HIDE DEF asc, k
    <3> QED
      BY Zenon, <2>2, <3>1
  <2>4. ~(asc[k] < i) /\ ~(i < asc[k])
    <3> HIDE DEF asc
    <3>1. ASSUME asc[k] < i PROVE FALSE
      BY <3>1, <2>2, <2>3, RankIncreases
    <3>2. ASSUME i < asc[k] PROVE FALSE
      BY <3>2, <2>2, <2>3, RankIncreases
    <3> QED
      BY <3>1, <3>2
  <2> QED
    BY <2>1, <2>3, <2>4
<1> QED
  BY <1>1, <1>3, <1>4, <1>5, <1>6, <1>7

(* A finite set of integers that is not empty has a greatest element. *)
LEMMA GreatestElement ==
  ASSUME NEW S \in SUBSET Int, IsFiniteSet(S), S # {}
  PROVE  \E m \in S : \A i \in S : i <= m
<1> DEFINE n == Cardinality(S)
<1>1. n \in Nat /\ n # 0
  BY FS_CardinalityType, FS_EmptySet
<1>2. PICK m \in S : Rank(S, m) = n
  BY <1>1, RankOnto
<1>3. ASSUME NEW i \in S, m < i PROVE FALSE
  <2>1. Rank(S, m) < Rank(S, i)
    BY <1>3, RankIncreases
  <2>2. Rank(S, i) \in 1..n
    BY RankRange
  <2> QED
    BY <1>1, <1>2, <2>1, <2>2
<1> QED
  BY <1>3

-----------------------------------------------------------------------------
(* The positions that survive queue_cleanup are positions of the queue. *)
LEMMA LastPositionsFinite ==
  ASSUME NEW T, NEW q \in Seq(T)
  PROVE  /\ LastPositions(q) \in SUBSET Int
         /\ LastPositions(q) \subseteq 1..Len(q)
         /\ IsFiniteSet(LastPositions(q))
<1>1. LastPositions(q) \subseteq 1..Len(q)
  BY DEF LastPositions
<1>2. IsFiniteSet(1..Len(q))
  BY FS_Interval
<1> QED
  BY <1>1, <1>2, FS_Subset

(* KeepLast holds the same ids as its argument, each of them once. *)
LEMMA KeepLastProperties ==
  ASSUME NEW T, NEW q \in Seq(T)
  PROVE  /\ KeepLast(q) \in Seq(T)
         /\ Distinct(KeepLast(q))
         /\ Ids(KeepLast(q)) = Ids(q)
<1> DEFINE keep == LastPositions(q)
           n == Cardinality(keep)
           asc == Ascending(keep)
           kept == KeepLast(q)
<1>1. keep \in SUBSET Int /\ keep \subseteq 1..Len(q) /\ IsFiniteSet(keep)
  BY LastPositionsFinite
<1>2. /\ n \in Nat
      /\ asc \in [1..n -> keep]
      /\ \A k, l \in 1..n : asc[k] = asc[l] => k = l
      /\ \A i \in keep : \E k \in 1..n : asc[k] = i
  <2> HIDE DEF keep
  <2> QED
    BY <1>1, AscendingProperties
<1>3. kept = [k \in 1..n |-> q[asc[k]]]
  BY DEF KeepLast
<1> HIDE DEF kept, asc, n
<1>4. \A k \in 1..n : asc[k] \in keep /\ asc[k] \in 1..Len(q) /\ kept[k] = q[asc[k]]
  BY <1>1, <1>2, <1>3
<1>5. kept \in [1..n -> T]
  BY <1>3, <1>4
<1>6. kept \in Seq(T) /\ DOMAIN kept = 1..n
  BY <1>5, <1>2
<1>7. Distinct(kept)
  <2> SUFFICES ASSUME NEW k \in 1..n, NEW l \in 1..n, q[asc[k]] = q[asc[l]]
               PROVE  k = l
    BY <1>4, <1>6 DEF Distinct
  <2>1. ~(asc[k] < asc[l]) /\ ~(asc[l] < asc[k])
    BY <1>4 DEF LastPositions
  <2> QED
    BY <2>1, <1>4, <1>2
<1>8. Ids(kept) \subseteq Ids(q)
  BY <1>4, <1>6 DEF Ids
<1>9. Ids(q) \subseteq Ids(kept)
  <2> SUFFICES ASSUME NEW i \in 1..Len(q)
               PROVE  q[i] \in Ids(kept)
    BY DEF Ids
  <2> DEFINE P == {j \in 1..Len(q) : q[j] = q[i]}
  <2>1. P \in SUBSET Int /\ P # {} /\ IsFiniteSet(P)
    <3>1. IsFiniteSet(1..Len(q))
      BY FS_Interval
    <3> QED
      BY <3>1, FS_Subset
  <2>2. PICK m \in P : \A j \in P : j <= m
    <3> HIDE DEF P
    <3> QED
      BY <2>1, GreatestElement
  <2>3. m \in keep
    BY <2>2 DEF LastPositions
  <2>4. PICK k \in 1..n : asc[k] = m
    BY <1>2, <2>3
  <2>5. kept[k] = q[i]
    BY <1>4, <2>4, <2>2
  <2> QED
    BY <2>5, <1>6 DEF Ids
<1> QED
  BY Zenon, <1>6, <1>7, <1>8, <1>9 DEF kept

(* queue_pop_custom and queue_cleanup add no id, and a cleanup leaves no id
   twice. *)
LEMMA PopHeadProperties ==
  ASSUME NEW T, NEW q \in Seq(T)
  PROVE  /\ PopHead(q) \in Seq(T)
         /\ Ids(PopHead(q)) \subseteq Ids(q)
<1>1. CASE q = <<>>
  BY <1>1 DEF PopHead
<1>2. CASE q # <<>>
  <2>1. /\ Tail(q) \in Seq(T)
        /\ Len(Tail(q)) = Len(q) - 1
        /\ \A i \in 1..Len(Tail(q)) : Tail(q)[i] = q[i + 1]
    BY <1>2, SeqTail
  <2>2. Ids(Tail(q)) \subseteq Ids(q)
    BY <2>1 DEF Ids
  <2> QED
    BY <1>2, <2>1, <2>2 DEF PopHead
<1> QED
  BY <1>1, <1>2

LEMMA CleanupProperties ==
  ASSUME NEW T, NEW q \in Seq(T)
  PROVE  /\ Cleanup(q) \in Seq(T)
         /\ Distinct(Cleanup(q))
         /\ Ids(Cleanup(q)) \subseteq Ids(q)
  BY PopHeadProperties, KeepLastProperties DEF Cleanup

(* Appending adds one id at the end. *)
LEMMA AppendIds ==
  ASSUME NEW T, NEW q \in Seq(T), NEW e \in T
  PROVE  /\ Append(q, e) \in Seq(T)
         /\ Ids(Append(q, e)) = Ids(q) \cup {e}
         /\ Len(Append(q, e)) = Len(q) + 1
         /\ \A i \in 1..Len(q) : Append(q, e)[i] = q[i]
<1>1. /\ Append(q, e) \in Seq(T)
      /\ Len(Append(q, e)) = Len(q) + 1
      /\ \A i \in 1..Len(q) : Append(q, e)[i] = q[i]
      /\ Append(q, e)[Len(q) + 1] = e
  BY SeqAppend
<1>2. Ids(Append(q, e)) = Ids(q) \cup {e}
  BY <1>1 DEF Ids
<1> QED
  BY <1>1, <1>2

(* A queue without repetitions whose ids lie below n has length n at most, and
   holds every number below n when its length is n. *)
LEMMA DistinctBounded ==
  ASSUME NEW n \in Nat, NEW q \in Seq(Nat), Distinct(q), Ids(q) \subseteq 0..(n - 1)
  PROVE  /\ Len(q) <= n
         /\ Len(q) = n => Ids(q) = 0..(n - 1)
<1> DEFINE D == 1..Len(q)
           R == 0..(n - 1)
<1>1. IsFiniteSet(D) /\ Cardinality(D) = Len(q)
  <2>1. Len(q) \in Nat
    OBVIOUS
  <2> QED
    BY SMTT(60), <2>1, FS_Interval
<1>2. IsFiniteSet(R) /\ Cardinality(R) = n
  BY SMTT(60), FS_Interval
<1>3. q \in Injection(D, R)
  <2>1. q \in [D -> R]
    BY DEF Ids
  <2> QED
    BY Zenon, <2>1 DEF Injection, IsInjective, Distinct
<1>4. /\ Cardinality(D) <= Cardinality(R)
      /\ Cardinality(D) = Cardinality(R) <=> q \in Surjection(D, R)
  <2> HIDE DEF D, R
  <2> QED
    BY <1>2, <1>3, FS_Injection
<1>5. ASSUME Len(q) = n PROVE R \subseteq Ids(q)
  <2>1. q \in Surjection(D, R)
    BY <1>1, <1>2, <1>4, <1>5
  <2> QED
    BY Zenon, <2>1 DEF Surjection, Ids
<1> QED
  BY Zenon, <1>1, <1>2, <1>4, <1>5

(* The refill of a queue without repetitions adds table indices only, repeats
   none, and leaves no node with a non-zero arrival time out of a queue whose
   ids are all table indices. *)
LEMMA RefillProperties ==
  ASSUME NEW T, NEW table \in Seq(T), NEW q \in Seq(Nat), Distinct(q)
  PROVE  /\ Refill(q, table) \in Seq(Nat)
         /\ Distinct(Refill(q, table))
         /\ Ids(Refill(q, table)) \subseteq Ids(q) \cup 0..(Len(table) - 1)
         /\ Ids(q) \subseteq 0..(Len(table) - 1) =>
              \A i \in 0..(Len(table) - 1) :
                table[i + 1].arrival_time # 0 => i \in Ids(Refill(q, table))
<1> DEFINE M == Missing(q, table)
           m == Ascending(M)
           n == Len(table)
<1>n. n \in Nat
  OBVIOUS
<1>1. CASE Len(q) < n
  <2>1. M \in SUBSET Int /\ M \subseteq 0..(n - 1) /\ M \cap Ids(q) = {} /\ M \subseteq Nat
    BY DEF Missing
  <2>2. IsFiniteSet(M)
    <3>1. IsFiniteSet(0..(n - 1))
      BY <1>n, FS_Interval
    <3> QED
      BY <2>1, <3>1, FS_Subset
  <2>3. /\ m \in Seq(M) /\ Len(m) = Cardinality(M) /\ Cardinality(M) \in Nat
        /\ \A k, l \in 1..Len(m) : m[k] = m[l] => k = l
        /\ \A i \in M : \E k \in 1..Len(m) : m[k] = i
    <3> HIDE DEF M
    <3> QED
      BY <2>1, <2>2, AscendingProperties
  <2>4. m \in Seq(Nat)
    BY <2>1, <2>3, SeqWider
  <2> DEFINE r == q \o m
  <2>5. Refill(q, table) = r
    BY <1>1 DEF Refill
  <2> HIDE DEF m, M, n
  <2>6. /\ r \in Seq(Nat)
        /\ Len(r) = Len(q) + Len(m)
        /\ \A i \in 1..(Len(q) + Len(m)) : r[i] = IF i <= Len(q) THEN q[i] ELSE m[i - Len(q)]
    BY <2>4, SeqConcat
  <2>7. /\ \A i \in 1..Len(q) : i \in DOMAIN r /\ r[i] = q[i]
        /\ \A k \in 1..Len(m) : k + Len(q) \in DOMAIN r /\ r[k + Len(q)] = m[k]
        /\ \A i \in DOMAIN r : i \in 1..Len(q) \/ \E k \in 1..Len(m) : i = k + Len(q)
    <3>1. Len(q) \in Nat /\ Len(m) \in Nat
      BY <2>4, SeqLength
    <3>2. DOMAIN r = 1..(Len(q) + Len(m))
      BY <2>6, SeqLength
    <3> DEFINE a == Len(q)
               b == Len(m)
    <3> HIDE DEF a, b, r
    <3>3. a \in Nat /\ b \in Nat /\ DOMAIN r = 1..(a + b)
      BY <3>1, <3>2 DEF a, b
    <3>4. \A i \in 1..(a + b) : r[i] = IF i <= a THEN q[i] ELSE m[i - a]
      BY <2>6 DEF a, b
    <3>5. \A i \in 1..a : i \in DOMAIN r /\ r[i] = q[i]
      BY <3>3, <3>4
    <3>6. ASSUME NEW k \in 1..b
          PROVE  k + a \in DOMAIN r /\ r[k + a] = m[k]
      <4>1. k + a \in 1..(a + b) /\ ~(k + a <= a) /\ (k + a) - a = k
        BY <3>3
      <4> QED
        BY <4>1, <3>3, <3>4
    <3>7. ASSUME NEW i \in DOMAIN r, i \notin 1..a
          PROVE  \E k \in 1..b : i = k + a
      <4>1. i - a \in 1..b /\ i = (i - a) + a
        BY <3>3, <3>7
      <4> QED
        BY <4>1
    <3> QED
      BY <3>5, <3>6, <3>7 DEF a, b
  <2>8. \A k \in 1..Len(m) : m[k] \in M
    BY <2>3, SeqElement
  <2>q. \A i \in 1..Len(q) : q[i] \in Ids(q)
    BY DEF Ids
  <2> HIDE DEF r
  <2>9. ASSUME NEW i \in DOMAIN r, NEW j \in DOMAIN r, r[i] = r[j]
        PROVE  i = j
    <3>1. CASE i \in 1..Len(q) /\ j \in 1..Len(q)
      <4>1. q[i] = q[j]
        BY <3>1, <2>7, <2>9
      <4> QED
        BY <3>1, <4>1 DEF Distinct
    <3>2. CASE i \notin 1..Len(q) /\ j \notin 1..Len(q)
      <4>1. PICK k \in 1..Len(m) : i = k + Len(q)
        BY <3>2, <2>7
      <4>2. PICK l \in 1..Len(m) : j = l + Len(q)
        BY <3>2, <2>7
      <4>3. m[k] = m[l]
        BY <4>1, <4>2, <2>7, <2>9
      <4> QED
        BY Zenon, <4>1, <4>2, <4>3, <2>3
    <3>3. ASSUME NEW a \in DOMAIN r, NEW b \in DOMAIN r, a \in 1..Len(q), b \notin 1..Len(q)
          PROVE  r[a] # r[b]
      <4>1. PICK k \in 1..Len(m) : b = k + Len(q)
        BY <3>3, <2>7
      <4>2. r[a] \in Ids(q) /\ r[b] \in M
        BY Zenon, <3>3, <4>1, <2>7, <2>8, <2>q
      <4> QED
        BY <4>2, <2>1
    <3> QED
      BY <3>1, <3>2, <3>3, <2>9
  <2>10. Ids(r) \subseteq Ids(q) \cup 0..(n - 1)
    <3>1. \A i \in DOMAIN r : r[i] \in Ids(q) \cup M
      BY ZenonT(60), <2>7, <2>8, <2>q
    <3> QED
      BY Zenon, <3>1, <2>1 DEF Ids
  <2>11. ASSUME NEW i \in 0..(n - 1), table[i + 1].arrival_time # 0
         PROVE  i \in Ids(r)
    <3>1. CASE i \in Ids(q)
      BY <3>1, <2>7 DEF Ids
    <3>2. CASE i \notin Ids(q)
      <4>1. i \in M
        BY <3>2, <2>11 DEF M, Missing, n
      <4>2. PICK k \in 1..Len(m) : m[k] = i
        BY <4>1, <2>3
      <4> QED
        BY <4>2, <2>7 DEF Ids
    <3> QED
      BY <3>1, <3>2
  <2> QED
    BY Zenon, <2>5, <2>6, <2>9, <2>10, <2>11 DEF Distinct, n
<1>2. CASE ~(Len(q) < n)
  <2>1. Refill(q, table) = q
    BY <1>2 DEF Refill
  <2>2. ASSUME Ids(q) \subseteq 0..(n - 1)
        PROVE  Ids(q) = 0..(n - 1)
    <3> HIDE DEF n
    <3>1. Len(q) <= n /\ Len(q) \in Nat
      BY <1>n, <2>2, DistinctBounded
    <3> QED
      BY <1>n, <1>2, <2>2, <3>1, DistinctBounded
  <2> QED
    BY <2>1, <2>2
<1> QED
  BY <1>1, <1>2

(* 1..n in increasing order. *)
LEMMA AscendingInterval ==
  ASSUME NEW n \in Nat
  PROVE  Cardinality(1..n) = n /\ \A k \in 1..n : Ascending(1..n)[k] = k
<1>1. IsFiniteSet(1..n) /\ Cardinality(1..n) = n
  BY FS_Interval
<1>2. \A i \in 1..n : Rank(1..n, i) = i
  <2> SUFFICES ASSUME NEW i \in 1..n PROVE Rank(1..n, i) = i
    OBVIOUS
  <2>1. {j \in 1..n : j <= i} = 1..i
    OBVIOUS
  <2>2. Cardinality(1..i) = i
    BY FS_Interval
  <2> QED
    BY Zenon, <2>1, <2>2 DEF Rank
<1>3. ASSUME NEW k \in 1..n PROVE Ascending(1..n)[k] = k
  <2>1. Ascending(1..n)[k] = CHOOSE i \in 1..n : Rank(1..n, i) = k
    BY <1>1 DEF Ascending
  <2> QED
    BY <1>2, <2>1
<1> QED
  BY <1>1, <1>3

(* get_queue_str on ids that are positions of a table indexed by id. *)
LEMMA QueueStrIdentity ==
  ASSUME NEW N, NEW table \in Seq(N), NEW q \in Seq(Nat),
         Ids(q) \subseteq 0..(Len(table) - 1),
         \A i \in 1..Len(table) : table[i].node_id = i - 1
  PROVE  QueueStr(q, table) = q
<1> DEFINE shown == {i \in DOMAIN q : q[i] < Len(table)}
<1>1. Len(q) \in Nat /\ DOMAIN q = 1..Len(q) /\ Len(table) \in Nat
  BY SeqLength
<1>2. \A i \in 1..Len(q) : q[i] \in 0..(Len(table) - 1)
  BY Zenon, <1>1 DEF Ids
<1>3. shown = 1..Len(q)
  <2>1. \A i \in 1..Len(q) : q[i] < Len(table)
    BY <1>1, <1>2
  <2> QED
    BY <1>1, <2>1
<1>4. /\ Cardinality(shown) = Len(q)
      /\ \A k \in 1..Len(q) : Ascending(shown)[k] = k
  BY Zenon, <1>1, <1>3, AscendingInterval
<1>5. QueueStr(q, table) =
        [k \in 1..Cardinality(shown) |-> table[q[Ascending(shown)[k]] + 1].node_id]
  BY DEF QueueStr
<1> HIDE DEF shown
<1>6. QueueStr(q, table) = [k \in 1..Len(q) |-> table[q[k] + 1].node_id]
  BY <1>4, <1>5
<1>7. ASSUME NEW k \in 1..Len(q) PROVE table[q[k] + 1].node_id = q[k]
  <2>1. q[k] \in Nat /\ q[k] + 1 \in 1..Len(table)
    BY <1>1, <1>2
  <2>2. table[q[k] + 1].node_id = (q[k] + 1) - 1
    BY <2>1
  <2> QED
    BY <2>1, <2>2
<1>8. QueueStr(q, table) = [k \in 1..Len(q) |-> q[k]]
  BY <1>6, <1>7
<1> QED
  BY <1>1, <1>8

-----------------------------------------------------------------------------
(* The server *)

(* The queue a push, a cleanup and a refill leave behind: the tail of
   insert_node_into_sgx_table_and_queue in both of its branches. *)
LEMMA InsertedQueue ==
  ASSUME NEW q \in Seq(Nat), NEW e \in Nat, NEW table \in Seq(Node)
  PROVE  /\ Refill(Cleanup(Append(q, e)), table) \in Seq(Nat)
         /\ Distinct(Refill(Cleanup(Append(q, e)), table))
         /\ Ids(q) \cup {e} \subseteq 0..(Len(table) - 1) =>
              /\ Ids(Refill(Cleanup(Append(q, e)), table)) \subseteq 0..(Len(table) - 1)
              /\ \A i \in 0..(Len(table) - 1) :
                   table[i + 1].arrival_time # 0 =>
                     i \in Ids(Refill(Cleanup(Append(q, e)), table))
<1> DEFINE p == Append(q, e)
           c == Cleanup(p)
           r == Refill(c, table)
<1>1. p \in Seq(Nat) /\ Ids(p) = Ids(q) \cup {e}
  BY AppendIds
<1>2. c \in Seq(Nat) /\ Distinct(c) /\ Ids(c) \subseteq Ids(p)
  <2> HIDE DEF p
  <2> QED
    BY <1>1, CleanupProperties
<1>3. /\ r \in Seq(Nat)
      /\ Distinct(r)
      /\ Ids(r) \subseteq Ids(c) \cup 0..(Len(table) - 1)
      /\ Ids(c) \subseteq 0..(Len(table) - 1) =>
           \A i \in 0..(Len(table) - 1) :
             table[i + 1].arrival_time # 0 => i \in Ids(r)
  <2> HIDE DEF c
  <2> QED
    BY Zenon, <1>2, RefillProperties
<1> QED
  BY <1>1, <1>2, <1>3

(* The queue poet_unfinished_node leaves behind. *)
LEMMA RequeuedQueue ==
  ASSUME NEW q \in Seq(Nat), NEW e \in Nat
  PROVE  /\ Append(Cleanup(q), e) \in Seq(Nat)
         /\ Ids(Append(Cleanup(q), e)) \subseteq Ids(q) \cup {e}
         /\ \A i, j \in 1..(Len(Append(Cleanup(q), e)) - 1) :
              Append(Cleanup(q), e)[i] = Append(Cleanup(q), e)[j] => i = j
<1> DEFINE c == Cleanup(q)
           a == Append(c, e)
<1>1. c \in Seq(Nat) /\ Distinct(c) /\ Ids(c) \subseteq Ids(q)
  BY CleanupProperties
<1>2. /\ a \in Seq(Nat)
      /\ Ids(a) = Ids(c) \cup {e}
      /\ Len(a) = Len(c) + 1
      /\ \A i \in 1..Len(c) : a[i] = c[i]
  <2> HIDE DEF c
  <2> QED
    BY <1>1, AppendIds
<1>3. 1..(Len(a) - 1) = 1..Len(c) /\ DOMAIN c = 1..Len(c)
  <2> HIDE DEF c, a
  <2>1. Len(c) \in Nat
    BY <1>1, SeqLength
  <2> QED
    BY <1>1, <1>2, <2>1, SeqLength
<1> QED
  BY Zenon, <1>1, <1>2, <1>3 DEF Distinct

-----------------------------------------------------------------------------
(* Type correctness *)

PcType == {"free", "idle", "checked", "loaded", "inserting", "stamped"}

(* What is needed beside the types: a broadcast is only stamped on a
   connection that has registered. *)
StampedRegistered == \A c \in Conn : pc[c] = "stamped" => node[c] # NoId

TInv == TypeOK /\ StampedRegistered

(* The parts of the state an insert leaves alone, or resets. *)
LEMMA FinishType ==
  ASSUME TInv, NEW c \in Conn, Finish(c),
         UNCHANGED <<current_id, public_keys, now, node, key, id_read>>
  PROVE  /\ current_id' \in Nat
         /\ public_keys' \in [Key -> Nat \cup {NoId}]
         /\ now' \in Nat
         /\ pc' \in [Conn -> PcType]
         /\ node' \in [Conn -> Nat \cup {NoId}]
         /\ key' \in [Conn -> Key \cup {NoKey}]
         /\ id_read' \in [Conn -> Nat]
         /\ stamp' \in [Conn -> [sgx_time : Nat, arrival_time : Nat]]
         /\ StampedRegistered'
  BY DEF TInv, TypeOK, StampedRegistered, Finish, NoStamp, PcType

(* The queue keeps its type in every step that goes through SetQueue. *)
LEMMA SetQueueType ==
  ASSUME TypeOK, NEW q \in Seq(Nat), NEW before, SetQueue(q, before)
  PROVE  queue' \in Seq(Nat) /\ status' \in Ended \cup {"running"}
  BY DEF SetQueue, TypeOK, Ended

LEMMA RoomType ==
  ASSUME TypeOK
  PROVE  QueueWithRoom \in Seq(Nat) /\ Ids(QueueWithRoom) \subseteq Ids(queue)
  BY PopHeadProperties DEF QueueWithRoom, TypeOK

(* The two new tables are tables; they keep the length or add one. *)
LEMMA UpdatedTableType ==
  ASSUME TInv, NEW c \in Conn, pc[c] = "stamped", node[c] < Len(sgx_table)
  PROVE  /\ node[c] \in Nat
         /\ node[c] + 1 \in 1..Len(sgx_table)
         /\ UpdatedTable(c) \in Seq(Node)
         /\ Len(UpdatedTable(c)) = Len(sgx_table)
         /\ \A i \in 1..Len(sgx_table) :
              UpdatedTable(c)[i] =
                IF i = node[c] + 1
                THEN [node_id |-> sgx_table[i].node_id, sgx_time |-> stamp[c].sgx_time,
                      arrival_time |-> stamp[c].arrival_time,
                      n_leadership |-> sgx_table[i].n_leadership + 1,
                      time_left |-> stamp[c].sgx_time]
                ELSE sgx_table[i]
<1>1. node[c] \in Nat /\ node[c] + 1 \in 1..Len(sgx_table) /\ sgx_table \in Seq(Node)
  BY DEF TInv, TypeOK, StampedRegistered, NoId
<1>2. sgx_table[node[c] + 1] \in Node
  BY <1>1, SeqElement
<1>3. stamp[c].sgx_time \in Nat /\ stamp[c].arrival_time \in Nat
  BY DEF TInv, TypeOK
<1> DEFINE e == [node_id |-> sgx_table[node[c] + 1].node_id,
                 sgx_time |-> stamp[c].sgx_time,
                 arrival_time |-> stamp[c].arrival_time,
                 n_leadership |-> sgx_table[node[c] + 1].n_leadership + 1,
                 time_left |-> stamp[c].sgx_time]
<1>4. e \in Node
  BY SMTT(60), <1>2, <1>3 DEF Node
<1>5. UpdatedTable(c) = [sgx_table EXCEPT ![node[c] + 1] = e]
  BY DEF UpdatedTable
<1>6. /\ UpdatedTable(c) \in Seq(Node)
      /\ Len(UpdatedTable(c)) = Len(sgx_table)
      /\ \A i \in 1..Len(sgx_table) :
           UpdatedTable(c)[i] = IF i = node[c] + 1 THEN e ELSE sgx_table[i]
  <2> HIDE DEF e
  <2> QED
    BY <1>1, <1>4, <1>5, SeqExcept
<1> QED
  BY <1>1, <1>6

LEMMA ExtendedTableType ==
  ASSUME TInv, NEW c \in Conn, pc[c] = "stamped"
  PROVE  /\ node[c] \in Nat
         /\ ExtendedTable(c) \in Seq(Node)
         /\ Len(ExtendedTable(c)) = Len(sgx_table) + 1
         /\ \A i \in 1..Len(sgx_table) : ExtendedTable(c)[i] = sgx_table[i]
         /\ ExtendedTable(c)[Len(sgx_table) + 1] =
              [node_id |-> node[c], sgx_time |-> stamp[c].sgx_time,
               arrival_time |-> stamp[c].arrival_time,
               n_leadership |-> 0, time_left |-> stamp[c].sgx_time]
<1>1. node[c] \in Nat /\ sgx_table \in Seq(Node)
  BY DEF TInv, TypeOK, StampedRegistered, NoId
<1>2. [node_id |-> node[c], sgx_time |-> stamp[c].sgx_time,
       arrival_time |-> stamp[c].arrival_time,
       n_leadership |-> 0, time_left |-> stamp[c].sgx_time] \in Node
  BY <1>1 DEF TInv, TypeOK, Node
<1> QED
  BY <1>1, <1>2, SeqAppend DEF ExtendedTable

(* The same, field by field. *)
LEMMA UpdatedFields ==
  ASSUME TInv, NEW c \in Conn, pc[c] = "stamped", node[c] < Len(sgx_table),
         NEW i \in 1..Len(sgx_table)
  PROVE  /\ i # node[c] + 1 => UpdatedTable(c)[i] = sgx_table[i]
         /\ i = node[c] + 1 =>
              /\ UpdatedTable(c)[i].node_id = sgx_table[i].node_id
              /\ UpdatedTable(c)[i].sgx_time = stamp[c].sgx_time
              /\ UpdatedTable(c)[i].arrival_time = stamp[c].arrival_time
              /\ UpdatedTable(c)[i].n_leadership = sgx_table[i].n_leadership + 1
              /\ UpdatedTable(c)[i].time_left = stamp[c].sgx_time
<1> DEFINE e == [node_id |-> sgx_table[i].node_id, sgx_time |-> stamp[c].sgx_time,
                 arrival_time |-> stamp[c].arrival_time,
                 n_leadership |-> sgx_table[i].n_leadership + 1,
                 time_left |-> stamp[c].sgx_time]
<1>1. UpdatedTable(c)[i] = IF i = node[c] + 1 THEN e ELSE sgx_table[i]
  BY UpdatedTableType
<1>2. /\ e.node_id = sgx_table[i].node_id /\ e.sgx_time = stamp[c].sgx_time
      /\ e.arrival_time = stamp[c].arrival_time
      /\ e.n_leadership = sgx_table[i].n_leadership + 1
      /\ e.time_left = stamp[c].sgx_time
  OBVIOUS
<1> HIDE DEF e
<1> QED
  BY <1>1, <1>2

LEMMA ExtendedFields ==
  ASSUME TInv, NEW c \in Conn, pc[c] = "stamped"
  PROVE  /\ ExtendedTable(c)[Len(sgx_table) + 1].node_id = node[c]
         /\ ExtendedTable(c)[Len(sgx_table) + 1].sgx_time = stamp[c].sgx_time
         /\ ExtendedTable(c)[Len(sgx_table) + 1].arrival_time = stamp[c].arrival_time
         /\ ExtendedTable(c)[Len(sgx_table) + 1].time_left = stamp[c].sgx_time
<1> DEFINE e == [node_id |-> node[c], sgx_time |-> stamp[c].sgx_time,
                 arrival_time |-> stamp[c].arrival_time,
                 n_leadership |-> 0, time_left |-> stamp[c].sgx_time]
<1>1. ExtendedTable(c)[Len(sgx_table) + 1] = e
  BY ExtendedTableType
<1>2. /\ e.node_id = node[c] /\ e.sgx_time = stamp[c].sgx_time
      /\ e.arrival_time = stamp[c].arrival_time /\ e.time_left = stamp[c].sgx_time
  OBVIOUS
<1> HIDE DEF e
<1> QED
  BY <1>1, <1>2

LEMMA InsertExistingType ==
  ASSUME TInv, NEW c \in Conn, InsertExisting(c)
  PROVE  TInv'
<1> DEFINE pushed == Append(QueueWithRoom, node[c])
           q == Refill(Cleanup(pushed), UpdatedTable(c))
<1>1. CASE sgx_table[node[c] + 1].node_id # node[c]
  BY Zenon, <1>1, FinishType DEF InsertExisting, TInv, TypeOK, Ended, PcType
<1>2. CASE sgx_table[node[c] + 1].node_id = node[c]
  <2>1. node[c] \in Nat /\ UpdatedTable(c) \in Seq(Node)
    BY UpdatedTableType DEF InsertExisting
  <2>2. q \in Seq(Nat)
    BY Zenon, <2>1, RoomType, InsertedQueue DEF TInv
  <2>3. sgx_table' = UpdatedTable(c) /\ SetQueue(q, pushed)
    BY <1>2 DEF InsertExisting
  <2>4. queue' \in Seq(Nat) /\ status' \in Ended \cup {"running"}
    <3> HIDE DEF q, pushed
    <3> QED
      BY <2>2, <2>3, SetQueueType DEF TInv
  <2> QED
    BY Zenon, <2>1, <2>3, <2>4, FinishType DEF InsertExisting, TInv, TypeOK, PcType
<1> QED
  BY Zenon, <1>1, <1>2

LEMMA InsertNewType ==
  ASSUME TInv, NEW c \in Conn, InsertNew(c)
  PROVE  TInv'
<1> DEFINE pushed == Append(queue, node[c])
           q == Refill(Cleanup(pushed), ExtendedTable(c))
<1>1. node[c] \in Nat /\ ExtendedTable(c) \in Seq(Node)
  BY Zenon, ExtendedTableType DEF InsertNew
<1>2. q \in Seq(Nat)
  BY <1>1, InsertedQueue DEF TInv, TypeOK
<1>3. sgx_table' = ExtendedTable(c) /\ SetQueue(q, pushed)
  BY DEF InsertNew
<1>4. queue' \in Seq(Nat) /\ status' \in Ended \cup {"running"}
  <2> HIDE DEF q, pushed
  <2> QED
    BY <1>2, <1>3, SetQueueType DEF TInv
<1> QED
  BY Zenon, <1>1, <1>3, <1>4, FinishType DEF InsertNew, TInv, TypeOK, PcType

(* A report changes the time left of one entry. *)
LEMMA UnfinishedTableType ==
  ASSUME TInv, NEW c \in Conn, NEW r \in Report, Unfinished(c, r)
  PROVE  /\ r.node_id \in Nat /\ r.time_left \in Nat
         /\ r.node_id + 1 \in 1..Len(sgx_table)
         /\ sgx_table' \in Seq(Node)
         /\ Len(sgx_table') = Len(sgx_table)
         /\ \A i \in 1..Len(sgx_table) :
              sgx_table'[i] = IF i = r.node_id + 1
                              THEN [sgx_table[i] EXCEPT !.time_left = r.time_left]
                              ELSE sgx_table[i]
<1>1. /\ r.node_id \in Nat /\ r.time_left \in Nat
      /\ r.node_id + 1 \in 1..Len(sgx_table) /\ sgx_table \in Seq(Node)
  <2>1. r \in [node_id : 0..(MaxIds - 1), sgx_time : Sgxt,
              arrival_time : 0..now, time_left : 0..sgxmax]
    BY Zenon DEF Report
  <2>2. r.node_id \in 0..(MaxIds - 1) /\ r.time_left \in 0..sgxmax
    BY Zenon, <2>1
  <2>3. r.node_id < Len(sgx_table) /\ sgx_table \in Seq(Node)
    BY Zenon DEF Unfinished, TInv, TypeOK
  <2>4. Len(sgx_table) \in Nat
    BY Zenon, <2>3, SeqLength
  <2>5. \A a, b \in Int : \A n \in 0..a : n \in Nat /\ (n < b => n + 1 \in 1..b)
    OBVIOUS
  <2>6. MaxIds - 1 \in Int /\ sgxmax \in Int /\ Len(sgx_table) \in Int
    BY <2>4, BoundAssumption, SgxAssumption
  <2> QED
    BY Zenon, <2>2, <2>3, <2>5, <2>6
<1> DEFINE e == [sgx_table[r.node_id + 1] EXCEPT !.time_left = r.time_left]
<1>2. e \in Node
  <2>1. sgx_table[r.node_id + 1] \in Node
    BY <1>1, SeqElement
  <2> QED
    BY Zenon, <1>1, <2>1 DEF Node
<1>3. sgx_table' = [sgx_table EXCEPT ![r.node_id + 1] = e]
  BY DEF Unfinished
<1> HIDE DEF e
<1>4. /\ sgx_table' \in Seq(Node)
      /\ Len(sgx_table') = Len(sgx_table)
      /\ \A i \in 1..Len(sgx_table) :
           sgx_table'[i] = IF i = r.node_id + 1 THEN e ELSE sgx_table[i]
  BY <1>1, <1>2, <1>3, SeqExcept
<1> QED
  BY Zenon, <1>1, <1>4 DEF e

LEMMA UnfinishedType ==
  ASSUME TInv, NEW c \in Conn, NEW r \in Report, Unfinished(c, r)
  PROVE  TInv'
<1>1. r.node_id \in Nat /\ sgx_table' \in Seq(Node)
  BY UnfinishedTableType
<1>2. queue' \in Seq(Nat) /\ status' \in Ended \cup {"running"}
  BY ZenonT(60), <1>1, RequeuedQueue, SetQueueType DEF Unfinished, TInv, TypeOK
<1> QED
  BY Zenon, <1>1, <1>2 DEF Unfinished, TInv, TypeOK, StampedRegistered, frame

LEMMA TInvInductive == TInv /\ [Next]_vars => TInv'
<1> SUFFICES ASSUME TInv, [Next]_vars PROVE TInv'
  OBVIOUS
<1> USE DEF TInv, TypeOK, StampedRegistered, shared, frame
<1>1. CASE Tick
  BY <1>1 DEF Tick
<1>2. ASSUME NEW c \in Conn, Accept(c) PROVE TInv'
  BY <1>2 DEF Accept
<1>3. ASSUME NEW c \in Conn, Disconnect(c) PROVE TInv'
  BY <1>3 DEF Disconnect, Teardown
<1>4. ASSUME NEW c \in Conn, NEW k \in Key, RegisterCheck(c, k) PROVE TInv'
  BY <1>4 DEF RegisterCheck
<1>5. ASSUME NEW c \in Conn, RegisterLoad(c) PROVE TInv'
  BY <1>5 DEF RegisterLoad
<1>6. ASSUME NEW c \in Conn, RegisterStore(c) PROVE TInv'
  BY <1>6 DEF RegisterStore
<1>7. ASSUME NEW c \in Conn, RegisterInsert(c) PROVE TInv'
  BY <1>7 DEF RegisterInsert, Ended
<1>8. ASSUME NEW c \in Conn, NEW sgxt \in Sgxt, BroadcastStamp(c, sgxt) PROVE TInv'
  BY <1>8, SgxAssumption DEF BroadcastStamp
<1>9. ASSUME NEW c \in Conn, NEW sgxt \in Sgxt, BroadcastReject(c, sgxt) PROVE TInv'
  BY <1>9 DEF BroadcastReject, Teardown
<1>10. ASSUME NEW c \in Conn, NEW sgxt \in Sgxt, BroadcastUnregistered(c, sgxt) PROVE TInv'
  BY <1>10 DEF BroadcastUnregistered, Ended
<1>11. ASSUME NEW c \in Conn, InsertExisting(c) PROVE TInv'
  BY Zenon, <1>11, InsertExistingType
<1>12. ASSUME NEW c \in Conn, InsertNew(c) PROVE TInv'
  BY Zenon, <1>12, InsertNewType
<1>13. ASSUME NEW c \in Conn, NEW r \in Report, UnfinishedAssert(c, r) PROVE TInv'
  BY <1>13 DEF UnfinishedAssert, FailedAssert, Ended
<1>14. ASSUME NEW c \in Conn, NEW r \in Report, Unfinished(c, r) PROVE TInv'
  BY ZenonT(60), <1>14, UnfinishedType
<1>15. ASSUME NEW c \in Conn, NEW r \in Report, UnfinishedStale(c, r) PROVE TInv'
  BY <1>15 DEF UnfinishedStale, Teardown
<1>16. CASE UNCHANGED vars
  BY <1>16 DEF vars
<1> QED
  BY ZenonT(60), <1>1, <1>2, <1>3, <1>4, <1>5, <1>6, <1>7, <1>8, <1>9, <1>10, <1>11, <1>12,
     <1>13, <1>14, <1>15, <1>16 DEF Next, Handler

LEMMA TInvInit == Init => TInv
  BY DEF Init, TInv, TypeOK, StampedRegistered, NoStamp

(* Every handler of the server, run in any interleaving, keeps the types. *)
THEOREM TypeCorrect == Spec => []TypeOK
<1>1. TInv => TypeOK
  BY DEF TInv
<1> QED
  BY TInvInit, TInvInductive, <1>1, PTL DEF Spec

-----------------------------------------------------------------------------
(* The queue and the table, whatever the order in which clients enter *)

(* Handlers that end in an insert, by what they do to queue and table. *)
LEMMA InsertEffect ==
  ASSUME TInv, NEW c \in Conn, InsertExisting(c) \/ InsertNew(c)
  PROVE  \/ status' # "running" /\ queue' = queue
         \/ /\ Distinct(queue') /\ status' = status
            /\ InsertExisting(c) => sgx_table' = UpdatedTable(c)
            /\ \E q \in Seq(Nat) :
                 /\ Ids(q) \subseteq Ids(queue)
                 /\ queue' = Refill(Cleanup(Append(q, node[c])), sgx_table')
<1>1. CASE InsertExisting(c)
  <2>1. CASE sgx_table[node[c] + 1].node_id # node[c]
    BY <1>1, <2>1 DEF InsertExisting
  <2>2. CASE sgx_table[node[c] + 1].node_id = node[c]
    <3> DEFINE pushed == Append(QueueWithRoom, node[c])
    <3>1. node[c] \in Nat /\ UpdatedTable(c) \in Seq(Node)
      BY <1>1, UpdatedTableType DEF InsertExisting
    <3>2. QueueWithRoom \in Seq(Nat) /\ Ids(QueueWithRoom) \subseteq Ids(queue)
      BY RoomType DEF TInv
    <3>3. Distinct(Refill(Cleanup(pushed), UpdatedTable(c)))
      BY Zenon, <3>1, <3>2, InsertedQueue
    <3>4. /\ sgx_table' = UpdatedTable(c)
          /\ SetQueue(Refill(Cleanup(pushed), UpdatedTable(c)), pushed)
      BY <1>1, <2>2 DEF InsertExisting
    <3> QED
      BY Zenon, <3>2, <3>3, <3>4 DEF SetQueue
  <2> QED
    BY Zenon, <2>1, <2>2
<1>2. CASE InsertNew(c)
  <2> DEFINE pushed == Append(queue, node[c])
  <2>1. node[c] \in Nat /\ ExtendedTable(c) \in Seq(Node) /\ queue \in Seq(Nat)
    BY Zenon, <1>2, ExtendedTableType DEF InsertNew, TInv, TypeOK
  <2>2. Distinct(Refill(Cleanup(pushed), ExtendedTable(c)))
    BY ZenonT(60), <2>1, InsertedQueue
  <2>3. /\ sgx_table' = ExtendedTable(c)
        /\ SetQueue(Refill(Cleanup(pushed), ExtendedTable(c)), pushed)
    BY Zenon, <1>2 DEF InsertNew
  <2>4. ~InsertExisting(c)
    <3>1. node[c] >= Len(sgx_table) /\ Len(sgx_table) \in Nat
      BY Zenon, <1>2, SeqLength DEF InsertNew, TInv, TypeOK
    <3>2. \A a, b \in Nat : a >= b => ~(a < b)
      OBVIOUS
    <3> QED
      BY Zenon, <2>1, <3>1, <3>2 DEF InsertExisting
  <2> QED
    BY <2>1, <2>2, <2>3, <2>4 DEF SetQueue
<1> QED
  BY <1>1, <1>2

(* Every other handler leaves queue and table as they are. *)
LEMMA OtherHandlers ==
  ASSUME NEW c \in Conn, Handler(c), ~InsertExisting(c), ~InsertNew(c),
         \A r \in Report : ~Unfinished(c, r)
  PROVE  UNCHANGED <<queue, sgx_table, now>>
  BY DEF Handler, shared, frame, Accept, Disconnect, Teardown, RegisterCheck,
         RegisterLoad, RegisterStore, RegisterInsert, BroadcastStamp,
         BroadcastReject, BroadcastUnregistered, UnfinishedAssert, UnfinishedStale

LEMMA FrontDistinctStep ==
  TInv /\ QueueFrontDistinct /\ [Next]_vars => QueueFrontDistinct'
<1> SUFFICES ASSUME TInv, QueueFrontDistinct, [Next]_vars PROVE QueueFrontDistinct'
  OBVIOUS
<1>1. CASE queue' = queue
  BY <1>1 DEF QueueFrontDistinct
<1>2. CASE Distinct(queue')
  <2>1. queue' \in Seq(Nat)
    BY TInvInductive DEF TInv, TypeOK
  <2>2. DOMAIN queue' = 1..Len(queue') /\ Len(queue') \in Nat
    BY <2>1, SeqLength
  <2> QED
    BY <1>2, <2>2 DEF QueueFrontDistinct, Distinct
<1>3. ASSUME NEW c \in Conn, NEW r \in Report, Unfinished(c, r), queue' # queue
      PROVE  QueueFrontDistinct'
  <2>1. r.node_id \in Nat /\ queue' = Append(Cleanup(queue), r.node_id)
    BY ZenonT(60), <1>3, UnfinishedTableType DEF Unfinished, SetQueue
  <2> QED
    BY <2>1, RequeuedQueue DEF QueueFrontDistinct, TInv, TypeOK
<1>4. ASSUME NEW c \in Conn, Handler(c) PROVE QueueFrontDistinct'
  BY <1>1, <1>2, <1>3, <1>4, InsertEffect, OtherHandlers
<1> QED
  BY <1>1, <1>4 DEF Next, Tick, shared, vars

(* Whatever the handlers and their order, no id is queued twice but for the
   one poet_unfinished_node pushed last. *)
THEOREM FrontDistinct == Spec => []QueueFrontDistinct
<1>1. Init => QueueFrontDistinct
  BY DEF Init, QueueFrontDistinct
<1> QED
  BY <1>1, TInvInit, TInvInductive, FrontDistinctStep, PTL DEF Spec

(* What an insert does to the table. *)
LEMMA InsertTable ==
  ASSUME TInv, NEW c \in Conn, InsertExisting(c) \/ InsertNew(c)
  PROVE  \/ sgx_table' = sgx_table
         \/ sgx_table' = UpdatedTable(c) /\ node[c] < Len(sgx_table)
         \/ sgx_table' = ExtendedTable(c) /\ node[c] >= Len(sgx_table)
  BY DEF InsertExisting, InsertNew

(* The stamps of broadcasts under way are as good as the entries they become. *)
StampsInRange ==
  \A c \in Conn : pc[c] = "stamped" =>
    /\ sgxt_lowerbound <= stamp[c].sgx_time /\ stamp[c].sgx_time <= sgxmax
    /\ stamp[c].arrival_time <= now
RangeInv == EntriesInRange /\ StampsInRange

LEMMA StampsStep ==
  TInv /\ StampsInRange /\ [Next]_vars => StampsInRange'
<1> SUFFICES ASSUME TInv, StampsInRange, [Next]_vars PROVE StampsInRange'
  OBVIOUS
<1> USE DEF TInv, TypeOK, StampsInRange, shared, frame
<1>1. CASE Tick
  BY <1>1 DEF Tick
<1>2. ASSUME NEW c \in Conn, NEW sgxt \in Sgxt, BroadcastStamp(c, sgxt)
      PROVE  StampsInRange'
  BY <1>2, SgxAssumption DEF BroadcastStamp
<1>3. ASSUME NEW c \in Conn, InsertExisting(c) \/ InsertNew(c) PROVE StampsInRange'
  BY Zenon, <1>3 DEF InsertExisting, InsertNew, Finish
<1>4. ASSUME NEW c \in Conn, Handler(c), ~InsertExisting(c), ~InsertNew(c),
             \A sgxt \in Sgxt : ~BroadcastStamp(c, sgxt)
      PROVE  StampsInRange'
  BY ZenonT(60), <1>4 DEF Handler, Accept, Disconnect, Teardown, RegisterCheck,
       RegisterLoad,
              RegisterStore, RegisterInsert, BroadcastReject, BroadcastUnregistered,
              UnfinishedAssert, Unfinished, UnfinishedStale
<1>5. CASE UNCHANGED vars
  BY <1>5 DEF vars
<1> QED
  BY Zenon, <1>1, <1>2, <1>3, <1>4, <1>5 DEF Next

LEMMA RangeStep ==
  TInv /\ RangeInv /\ [Next]_vars => EntriesInRange'
<1> SUFFICES ASSUME TInv, RangeInv, [Next]_vars PROVE EntriesInRange'
  OBVIOUS
<1>0. /\ sgx_table \in Seq(Node) /\ Len(sgx_table) \in Nat
      /\ DOMAIN sgx_table = 1..Len(sgx_table)
      /\ sgx_table' \in Seq(Node) /\ Len(sgx_table') \in Nat
      /\ DOMAIN sgx_table' = 1..Len(sgx_table')
  BY TInvInductive, SeqLength DEF TInv, TypeOK
<1>t. \A i \in 1..Len(sgx_table) : sgx_table[i] \in Node
  BY <1>0, SeqElement
<1>1. ASSUME sgx_table' = sgx_table, now' = now \/ now' = now + 1
      PROVE  EntriesInRange'
  <2>1. \A i \in 1..Len(sgx_table) : sgx_table[i].arrival_time \in Nat
    BY Zenon, <1>t DEF Node
  <2>2. now \in Nat
    BY Zenon DEF TInv, TypeOK
  <2>3. \A a, b \in Nat : a <= b => a <= b + 1
    OBVIOUS
  <2>4. \A i \in 1..Len(sgx_table) : sgx_table[i].arrival_time <= now'
    BY Zenon, <1>0, <1>1, <2>1, <2>2, <2>3 DEF RangeInv, EntriesInRange
  <2> QED
    BY Zenon, <1>0, <1>1, <2>4 DEF RangeInv, EntriesInRange
<1>2. ASSUME NEW c \in Conn, InsertExisting(c) \/ InsertNew(c) PROVE EntriesInRange'
  <2>1. pc[c] = "stamped" /\ now' = now
    BY <1>2 DEF InsertExisting, InsertNew
  <2>2. /\ sgxt_lowerbound <= stamp[c].sgx_time /\ stamp[c].sgx_time <= sgxmax
        /\ stamp[c].arrival_time <= now /\ stamp[c].sgx_time \in Nat
    BY <2>1 DEF RangeInv, StampsInRange, TInv, TypeOK
  <2>3. CASE sgx_table' = sgx_table
    BY <1>1, <2>1, <2>3
  <2>4. CASE sgx_table' = UpdatedTable(c) /\ node[c] < Len(sgx_table)
    <3>1. /\ Len(sgx_table') = Len(sgx_table)
          /\ \A i \in 1..Len(sgx_table) :
               \/ sgx_table'[i] = sgx_table[i]
               \/ /\ sgx_table'[i].sgx_time = stamp[c].sgx_time
                  /\ sgx_table'[i].arrival_time = stamp[c].arrival_time
                  /\ sgx_table'[i].time_left = stamp[c].sgx_time
      <4>1. sgx_table' = UpdatedTable(c) /\ Len(UpdatedTable(c)) = Len(sgx_table)
        BY <2>1, <2>4, UpdatedTableType
      <4> QED
        BY <2>1, <2>4, <4>1, UpdatedFields
    <3> QED
      BY <1>0, <2>1, <2>2, <3>1 DEF RangeInv, EntriesInRange
  <2>5. CASE sgx_table' = ExtendedTable(c) /\ node[c] >= Len(sgx_table)
    <3>1. /\ Len(sgx_table') = Len(sgx_table) + 1
          /\ \A i \in 1..Len(sgx_table) : sgx_table'[i] = sgx_table[i]
          /\ sgx_table'[Len(sgx_table) + 1].sgx_time = stamp[c].sgx_time
          /\ sgx_table'[Len(sgx_table) + 1].arrival_time = stamp[c].arrival_time
          /\ sgx_table'[Len(sgx_table) + 1].time_left = stamp[c].sgx_time
      <4>1. /\ sgx_table' = ExtendedTable(c)
            /\ Len(ExtendedTable(c)) = Len(sgx_table) + 1
            /\ \A i \in 1..Len(sgx_table) : ExtendedTable(c)[i] = sgx_table[i]
        BY Zenon, <2>1, <2>5, ExtendedTableType
      <4> QED
        BY <2>1, <4>1, ExtendedFields
    <3> QED
      BY <1>0, <2>1, <2>2, <3>1 DEF RangeInv, EntriesInRange
  <2> QED
    BY <1>2, <2>3, <2>4, <2>5, InsertTable
<1>3. ASSUME NEW c \in Conn, NEW r \in Report, Unfinished(c, r) PROVE EntriesInRange'
  <2>1. /\ r.node_id + 1 \in 1..Len(sgx_table) /\ Len(sgx_table') = Len(sgx_table)
        /\ \A i \in 1..Len(sgx_table) :
             sgx_table'[i] = IF i = r.node_id + 1
                             THEN [sgx_table[i] EXCEPT !.time_left = r.time_left]
                             ELSE sgx_table[i]
    BY <1>3, UnfinishedTableType
  <2>2. /\ now' = now /\ r.time_left <= r.sgx_time
        /\ sgx_table[r.node_id + 1].sgx_time = r.sgx_time
    BY <1>3 DEF Unfinished, Current, Report
  <2>3. \A i \in 1..Len(sgx_table) :
          /\ sgx_table'[i].sgx_time = sgx_table[i].sgx_time
          /\ sgx_table'[i].arrival_time = sgx_table[i].arrival_time
          /\ sgx_table'[i].time_left = IF i = r.node_id + 1 THEN r.time_left
                                       ELSE sgx_table[i].time_left
    BY ZenonT(60), <1>t, <2>1 DEF Node
  <2> QED
    BY <1>0, <2>1, <2>2, <2>3 DEF RangeInv, EntriesInRange
<1>4. ASSUME NEW c \in Conn, Handler(c) PROVE EntriesInRange'
  BY <1>1, <1>2, <1>3, <1>4, OtherHandlers
<1> QED
  BY <1>1, <1>4 DEF Next, Tick, shared, vars

(* Every entry clients are sent is in the ranges calc_tier_number and
   remaining_quantum_time need. *)
THEOREM RangesHold == Spec => []EntriesInRange
<1>1. Init => RangeInv
  BY DEF Init, RangeInv, EntriesInRange, StampsInRange
<1>2. TInv /\ RangeInv /\ [Next]_vars => RangeInv'
  BY RangeStep, StampsStep DEF RangeInv
<1>3. RangeInv => EntriesInRange
  BY DEF RangeInv
<1> QED
  BY <1>1, <1>2, <1>3, TInvInit, TInvInductive, PTL DEF Spec

LEMMA ShrinkStep ==
  ASSUME TInv, [Next]_vars
  PROVE  [\A i \in DOMAIN sgx_table :
            /\ i \in DOMAIN sgx_table'
            /\ sgx_table'[i].node_id = sgx_table[i].node_id
            /\ sgx_table'[i].n_leadership = sgx_table[i].n_leadership
                 => sgx_table'[i].time_left <= sgx_table[i].time_left]_vars
<1> DEFINE Shrinks ==
             \A i \in DOMAIN sgx_table :
               /\ i \in DOMAIN sgx_table'
               /\ sgx_table'[i].node_id = sgx_table[i].node_id
               /\ sgx_table'[i].n_leadership = sgx_table[i].n_leadership
                    => sgx_table'[i].time_left <= sgx_table[i].time_left
<1>0. /\ sgx_table \in Seq(Node) /\ Len(sgx_table) \in Nat
      /\ DOMAIN sgx_table = 1..Len(sgx_table)
      /\ sgx_table' \in Seq(Node) /\ Len(sgx_table') \in Nat
      /\ DOMAIN sgx_table' = 1..Len(sgx_table')
  BY TInvInductive, SeqLength DEF TInv, TypeOK
<1>n. \A i \in 1..Len(sgx_table) : sgx_table[i] \in Node
  BY <1>0, SeqElement
<1>t. \A i \in 1..Len(sgx_table) :
        sgx_table[i].n_leadership \in Nat /\ sgx_table[i].time_left \in Nat
  BY <1>n DEF Node
<1>1. ASSUME sgx_table' = sgx_table PROVE Shrinks
  BY SMTT(60), <1>0, <1>1, <1>t
<1>2. ASSUME NEW c \in Conn, InsertExisting(c) \/ InsertNew(c) PROVE Shrinks
  <2>1. pc[c] = "stamped"
    BY Zenon, <1>2 DEF InsertExisting, InsertNew
  <2>2. CASE sgx_table' = UpdatedTable(c) /\ node[c] < Len(sgx_table)
    <3>1. /\ Len(sgx_table') = Len(sgx_table)
          /\ \A i \in 1..Len(sgx_table) :
               \/ sgx_table'[i] = sgx_table[i]
               \/ /\ sgx_table'[i].node_id = sgx_table[i].node_id
                  /\ sgx_table'[i].n_leadership = sgx_table[i].n_leadership + 1
      <4>1. sgx_table' = UpdatedTable(c) /\ Len(UpdatedTable(c)) = Len(sgx_table)
        BY <2>1, <2>2, UpdatedTableType
      <4> QED
        BY <2>1, <2>2, <4>1, UpdatedFields
    <3> QED
      BY <1>0, <1>t, <3>1
  <2>3. CASE sgx_table' = ExtendedTable(c) /\ node[c] >= Len(sgx_table)
    <3>1. /\ Len(sgx_table') = Len(sgx_table) + 1
          /\ \A i \in 1..Len(sgx_table) : sgx_table'[i] = sgx_table[i]
      BY Zenon, <2>1, <2>3, ExtendedTableType
    <3> QED
      BY <1>0, <1>t, <3>1
  <2> QED
    BY Zenon, <1>1, <1>2, <2>2, <2>3, InsertTable
<1>3. ASSUME NEW c \in Conn, NEW r \in Report, Unfinished(c, r) PROVE Shrinks
  <2>1. /\ r.node_id + 1 \in 1..Len(sgx_table) /\ Len(sgx_table') = Len(sgx_table)
        /\ \A i \in 1..Len(sgx_table) :
             sgx_table'[i] = IF i = r.node_id + 1
                             THEN [sgx_table[i] EXCEPT !.time_left = r.time_left]
                             ELSE sgx_table[i]
    BY <1>3, UnfinishedTableType
  <2>2. ~(sgx_table[r.node_id + 1].time_left < r.time_left) /\ r.time_left \in Nat
    BY Zenon, <1>3, UnfinishedTableType DEF Unfinished, Current, FailedAssert
  <2>3. \A i \in 1..Len(sgx_table) :
          /\ sgx_table'[i].node_id = sgx_table[i].node_id
          /\ sgx_table'[i].time_left = IF i = r.node_id + 1 THEN r.time_left
                                       ELSE sgx_table[i].time_left
          /\ sgx_table[i].time_left \in Nat
    BY ZenonT(60), <1>n, <2>1 DEF Node
  <2> QED
    BY <1>0, <2>1, <2>2, <2>3
<1>4. ASSUME NEW c \in Conn, Handler(c) PROVE Shrinks
  BY <1>1, <1>2, <1>3, <1>4, OtherHandlers
<1> QED
  BY <1>1, <1>4 DEF Next, Tick, shared, vars

(* No late or repeated report lengthens a stay in the table. *)
THEOREM StaysShrink == Spec => StayShrinks
  BY TInvInit, TInvInductive, ShrinkStep, PTL DEF Spec, StayShrinks

-----------------------------------------------------------------------------
(* Clients that enter one after the other *)

(* A connection is joining from its registration until its id is in the
   table.  One connection at most is, and how far it has come determines how
   current_id and the table relate. *)
Joining(c) == Registering(c) \/ Outside(c)
Entering(c) == pc[c] = "inserting" \/ (Outside(c) /\ ~Registering(c))

OneJoins == \A c, d \in Conn : Joining(c) /\ Joining(d) => c = d
IdsHandedOut ==
  /\ (\A c \in Conn : ~Joining(c)) => current_id = Len(sgx_table)
  /\ \A c \in Conn : pc[c] \in {"checked", "loaded"} => current_id = Len(sgx_table)
  /\ \A c \in Conn : pc[c] = "loaded" => id_read[c] = Len(sgx_table)
  /\ \A c \in Conn : Entering(c) => /\ current_id = Len(sgx_table) + 1
                                    /\ node[c] = Len(sgx_table)
QueueInTable == Ids(queue) \subseteq 0..(Len(sgx_table) - 1)

OrderInv ==
  /\ OneJoins
  /\ IdsHandedOut
  /\ TableIndexedById
  /\ QueueInTable
  /\ NoIdAssert

(* Steps that leave the length of the table alone and the joining ones as they
   were keep the order. *)
LEMMA OrderUnchanged ==
  ASSUME OneJoins, IdsHandedOut, current_id' = current_id,
         Len(sgx_table)' = Len(sgx_table),
         \A c \in Conn :
           \/ /\ pc'[c] = pc[c] /\ node'[c] = node[c] /\ id_read'[c] = id_read[c]
           \/ /\ ~Registering(c) /\ ~Registering(c)'
              /\ Outside(c)' <=> Outside(c)
              /\ Outside(c) => node'[c] = node[c]
  PROVE  (OneJoins /\ IdsHandedOut)'
<1>1. \A c \in Conn : /\ Registering(c)' <=> Registering(c)
                      /\ Outside(c)' <=> Outside(c)
  BY DEF Registering, Outside
<1>2. \A c \in Conn : Joining(c)' <=> Joining(c)
  BY <1>1 DEF Joining
<1>3. \A c \in Conn : pc'[c] \in {"checked", "loaded", "inserting"} =>
                        pc'[c] = pc[c] /\ node'[c] = node[c] /\ id_read'[c] = id_read[c]
  BY DEF Registering
<1>4. \A c \in Conn : Entering(c)' => Entering(c) /\ node'[c] = node[c]
  BY <1>1, <1>3 DEF Entering, Registering
<1> QED
  BY <1>2, <1>3, <1>4 DEF OneJoins, IdsHandedOut

LEMMA OrderRegister ==
  ASSUME TInv, OneJoins, IdsHandedOut, InOrder, NEW c \in Conn,
         \/ \E k \in Key : RegisterCheck(c, k)
         \/ RegisterLoad(c)
         \/ RegisterStore(c)
         \/ RegisterInsert(c)
  PROVE  (OneJoins /\ IdsHandedOut)'
<1>t. /\ Len(sgx_table) \in Nat /\ current_id \in Nat
      /\ pc \in [Conn -> {"free", "idle", "checked", "loaded", "inserting", "stamped"}]
      /\ node \in [Conn -> Nat \cup {NoId}] /\ id_read \in [Conn -> Nat]
  BY SeqLength DEF TInv, TypeOK
<1>0. sgx_table' = sgx_table
  BY Zenon, <1>t DEF shared, RegisterCheck, RegisterLoad, RegisterStore,
       RegisterInsert
<1>1. ASSUME NEW k \in Key, RegisterCheck(c, k) PROVE (OneJoins /\ IdsHandedOut)'
  <2>1. /\ Settled /\ current_id' = current_id
        /\ pc[c] = "idle" /\ pc'[c] = "checked"
        /\ \A d \in Conn \ {c} : pc'[d] = pc[d] /\ node'[d] = node[d]
    BY Zenon, <1>t, <1>1 DEF RegisterCheck, InOrder, shared
  <2>2. \A d \in Conn : ~Joining(d)
    BY SMTT(60), <1>t, <1>0, <2>1 DEF Settled, Joining, IdsHandedOut, Entering, Registering
  <2>3. \A d \in Conn \ {c} : ~Joining(d)'
    BY <1>t, <1>0, <2>1, <2>2 DEF Joining, Registering, Outside
  <2>4. \A d \in Conn \ {c} : pc'[d] \notin {"checked", "loaded", "inserting"} /\ ~Outside(d)'
    BY Zenon, <1>t, <2>3 DEF Joining, Registering
  <2>5. \A d \in Conn : ~Entering(d)'
    BY Zenon, <1>t, <2>1, <2>4 DEF Entering, Registering
  <2> QED
    BY Zenon, <1>t, <1>0, <2>1, <2>3, <2>4, <2>5 DEF OneJoins, IdsHandedOut, Settled,
         Joining, Registering
<1>2. CASE RegisterLoad(c)
  <2>1. /\ pc[c] = "checked" /\ pc'[c] = "loaded" /\ id_read'[c] = current_id
        /\ current_id' = current_id /\ node' = node
        /\ \A d \in Conn \ {c} : pc'[d] = pc[d] /\ id_read'[d] = id_read[d]
    BY Zenon, <1>t, <1>2 DEF RegisterLoad, shared
  <2>2. \A d \in Conn : (Registering(d)' <=> Registering(d)) /\ (Outside(d)' <=> Outside(d))
    BY Zenon, <1>t, <1>0, <2>1 DEF Registering, Outside
  <2>3. \A d \in Conn : (Joining(d)' <=> Joining(d)) /\ (Entering(d)' <=> Entering(d))
    BY SMTT(60), <1>t, <2>1, <2>2 DEF Joining, Entering
  <2> QED
    BY Zenon, <1>t, <1>0, <2>1, <2>3 DEF OneJoins, IdsHandedOut
<1>3. CASE RegisterStore(c)
  <2>1. /\ pc[c] = "loaded" /\ pc'[c] = "inserting"
        /\ current_id' = id_read[c] + 1 /\ node'[c] = id_read[c]
        /\ \A d \in Conn \ {c} : /\ pc'[d] = pc[d] /\ node'[d] = node[d]
                                 /\ id_read'[d] = id_read[d]
    BY Zenon, <1>t, <1>3 DEF RegisterStore
  <2>2. Joining(c) /\ Joining(c)'
    BY <1>t, <2>1 DEF Joining, Registering
  <2>3. \A d \in Conn \ {c} : ~Joining(d)
    BY Zenon, <1>t, <2>2 DEF OneJoins
  <2>4. \A d \in Conn \ {c} : ~Joining(d)'
    BY Zenon, <1>t, <1>0, <2>1, <2>3 DEF Joining, Registering, Outside
  <2>5. \A d \in Conn \ {c} : pc'[d] \notin {"checked", "loaded", "inserting"} /\ ~Entering(d)'
    BY Zenon, <1>t, <2>4 DEF Joining, Registering, Entering
  <2> QED
    BY ZenonT(60), <1>t, <1>0, <2>1, <2>2, <2>4, <2>5 DEF OneJoins, IdsHandedOut
<1>4. CASE RegisterInsert(c)
  <2>1. /\ pc[c] = "inserting" /\ pc'[c] = "idle"
        /\ current_id' = current_id /\ node' = node /\ id_read' = id_read
        /\ \A d \in Conn \ {c} : pc'[d] = pc[d]
    BY <1>t, <1>4 DEF RegisterInsert
  <2>2. current_id = Len(sgx_table) + 1 /\ node[c] = Len(sgx_table)
    BY <1>t, <2>1 DEF IdsHandedOut, Entering
  <2>3. Joining(c) /\ Joining(c)'
    BY SMTT(60), <1>t, <1>0, <2>1, <2>2 DEF Joining, Registering, Outside, NoId
  <2>4. \A d \in Conn \ {c} : ~Joining(d)
    BY <1>t, <2>3 DEF OneJoins
  <2>5. \A d \in Conn \ {c} : ~Joining(d)'
    BY Zenon, <1>t, <1>0, <2>1, <2>4 DEF Joining, Registering, Outside
  <2>6. \A d \in Conn \ {c} : pc'[d] \notin {"checked", "loaded", "inserting"} /\ ~Entering(d)'
    BY <1>t, <2>5 DEF Joining, Registering, Entering
  <2> QED
    BY Zenon, <1>t, <1>0, <2>1, <2>2, <2>3, <2>5, <2>6 DEF OneJoins, IdsHandedOut
<1> QED
  BY SMTT(60), <1>t, <1>1, <1>2, <1>3, <1>4

LEMMA OrderOther ==
  ASSUME TInv, OneJoins, IdsHandedOut, InOrder, NEW c \in Conn, Handler(c),
         ~InsertNew(c), \A k \in Key : ~RegisterCheck(c, k),
         ~RegisterLoad(c), ~RegisterStore(c), ~RegisterInsert(c)
  PROVE  (OneJoins /\ IdsHandedOut)'
<1>t. /\ Len(sgx_table) \in Nat /\ current_id \in Nat
      /\ pc \in [Conn -> {"free", "idle", "checked", "loaded", "inserting", "stamped"}]
      /\ node \in [Conn -> Nat \cup {NoId}] /\ id_read \in [Conn -> Nat]
  BY SeqLength DEF TInv, TypeOK
<1> USE DEF shared, frame
<1>1. ASSUME NEW r \in Report, Unfinished(c, r) PROVE (OneJoins /\ IdsHandedOut)'
  <2>1. Len(sgx_table') = Len(sgx_table)
    BY <1>t, <1>1, UnfinishedTableType
  <2> QED
    BY <1>t, <1>1, <2>1, OrderUnchanged DEF Unfinished
<1>2. CASE InsertExisting(c)
  <2>1. Len(sgx_table') = Len(sgx_table)
    <3>1. pc[c] = "stamped" /\ node[c] < Len(sgx_table)
      BY Zenon, <1>2 DEF InsertExisting
    <3>2. sgx_table' = sgx_table \/ sgx_table' = UpdatedTable(c)
      BY Zenon, <1>2 DEF InsertExisting
    <3>3. Len(UpdatedTable(c)) = Len(sgx_table)
      BY Zenon, <3>1, UpdatedTableType
    <3> QED
      BY Zenon, <3>2, <3>3
  <2>2. /\ pc[c] = "stamped" /\ pc'[c] = "idle" /\ node' = node /\ id_read' = id_read
        /\ current_id' = current_id /\ \A d \in Conn \ {c} : pc'[d] = pc[d]
    BY Zenon, <1>t, <1>2 DEF InsertExisting, Finish
  <2>3. /\ ~Registering(c) /\ ~Registering(c)' /\ (Outside(c)' <=> Outside(c))
    BY Zenon, <1>t, <2>1, <2>2 DEF Registering, Outside
  <2> QED
    BY Zenon, <1>t, <2>1, <2>2, <2>3, OrderUnchanged
<1>3. ASSUME Teardown(c), pc[c] = "idle", sgx_table' = sgx_table, current_id' = current_id
      PROVE  (OneJoins /\ IdsHandedOut)'
  <2>1. /\ pc'[c] = "free" /\ node'[c] = NoId /\ id_read' = id_read
        /\ \A d \in Conn \ {c} : pc'[d] = pc[d] /\ node'[d] = node[d]
    BY Zenon, <1>t, <1>3 DEF Teardown
  <2>2. ~Outside(c) /\ ~Outside(c)' /\ ~Registering(c) /\ ~Registering(c)'
    BY Zenon, <1>t, <1>3, <2>1 DEF InOrder, Outside, Registering
  <2> QED
    BY Zenon, <1>t, <1>3, <2>1, <2>2, OrderUnchanged
<1>4. ASSUME pc[c] \in {"free", "idle"}, pc'[c] \in {"idle", "stamped"},
             \A d \in Conn \ {c} : pc'[d] = pc[d],
             node' = node, id_read' = id_read, sgx_table' = sgx_table,
             current_id' = current_id
      PROVE  (OneJoins /\ IdsHandedOut)'
  <2>1. (Outside(c)' <=> Outside(c)) /\ ~Registering(c) /\ ~Registering(c)'
    BY <1>t, <1>4 DEF Outside, Registering
  <2> QED
    BY SMTT(60), <1>t, <1>4, <2>1, OrderUnchanged
<1>5. CASE Accept(c)
  BY <1>t, <1>4, <1>5 DEF Accept
<1>6. CASE Disconnect(c)
  BY Zenon, <1>t, <1>3, <1>6 DEF Disconnect
<1>7. ASSUME NEW sgxt \in Sgxt, BroadcastStamp(c, sgxt) PROVE (OneJoins /\ IdsHandedOut)'
  BY <1>t, <1>4, <1>7 DEF BroadcastStamp
<1>8. ASSUME NEW sgxt \in Sgxt, BroadcastReject(c, sgxt) PROVE (OneJoins /\ IdsHandedOut)'
  BY Zenon, <1>t, <1>3, <1>8 DEF BroadcastReject
<1>9. ASSUME NEW sgxt \in Sgxt, BroadcastUnregistered(c, sgxt)
      PROVE  (OneJoins /\ IdsHandedOut)'
  BY Zenon, <1>t, <1>9, OrderUnchanged DEF BroadcastUnregistered
<1>10. ASSUME NEW r \in Report, UnfinishedAssert(c, r) PROVE (OneJoins /\ IdsHandedOut)'
  BY SMTT(60), <1>t, <1>10, OrderUnchanged DEF UnfinishedAssert
<1>11. ASSUME NEW r \in Report, UnfinishedStale(c, r) PROVE (OneJoins /\ IdsHandedOut)'
  BY Zenon, <1>t, <1>3, <1>11 DEF UnfinishedStale
<1> QED
  BY Zenon, <1>t, <1>1, <1>2, <1>5, <1>6, <1>7, <1>8, <1>9, <1>10, <1>11 DEF Handler

(* A node that enters has the id of the next entry of the table. *)
LEMMA OrderInsertNew ==
  ASSUME TInv, OneJoins, IdsHandedOut, NEW c \in Conn, InsertNew(c)
  PROVE  node[c] = Len(sgx_table) /\ (OneJoins /\ IdsHandedOut)'
<1> USE DEF TInv, TypeOK
<1>1. Len(sgx_table) \in Nat /\ Len(sgx_table') = Len(sgx_table) + 1
  BY Zenon, ExtendedTableType, SeqLength DEF InsertNew
<1>2. /\ pc[c] = "stamped" /\ pc'[c] = "idle" /\ node' = node /\ id_read' = id_read
      /\ current_id' = current_id /\ node[c] \in Nat /\ node[c] >= Len(sgx_table)
      /\ \A d \in Conn \ {c} : pc'[d] = pc[d]
  BY DEF InsertNew, Finish, StampedRegistered, NoId
<1>3. Outside(c) /\ Entering(c) /\ Joining(c)
  BY <1>2 DEF Outside, Entering, Registering, Joining, NoId
<1>4. current_id = Len(sgx_table) + 1 /\ node[c] = Len(sgx_table)
  BY <1>3 DEF IdsHandedOut
<1>5. \A d \in Conn \ {c} : ~Joining(d)
  BY <1>3 DEF OneJoins
<1>6. \A d \in Conn : ~Outside(d)' /\ ~Registering(d)'
  <2>1. ~Outside(c)' /\ ~Registering(c)'
    <3>1. ~(node[c] >= Len(sgx_table'))
      BY <1>1, <1>4
    <3> QED
      BY Zenon, <1>2, <3>1 DEF Outside, Registering
  <2>2. ASSUME NEW d \in Conn \ {c} PROVE ~Outside(d)' /\ ~Registering(d)'
    <3>1. /\ ~(node[d] # NoId /\ node[d] >= Len(sgx_table))
          /\ pc[d] \notin {"checked", "loaded", "inserting"}
      BY Zenon, <1>5 DEF Joining, Outside, Registering
    <3>2. node[d] \in Nat \cup {NoId}
      BY Zenon DEF TInv, TypeOK
    <3>3. ~(node[d] # NoId /\ node[d] >= Len(sgx_table'))
      BY <1>1, <3>1, <3>2
    <3> QED
      BY Zenon, <1>2, <3>1, <3>3 DEF Outside, Registering
  <2> QED
    BY Zenon, <2>1, <2>2
<1>7. \A d \in Conn : ~Joining(d)' /\ ~Entering(d)' /\ pc'[d] \notin {"checked", "loaded"}
  BY <1>6 DEF Joining, Entering, Registering
<1> QED
  BY SMTT(60), <1>1, <1>2, <1>4, <1>7 DEF OneJoins, IdsHandedOut

LEMMA IndexedStep ==
  ASSUME TInv, OrderInv, [Next]_vars
  PROVE  TableIndexedById' /\ QueueInTable' /\ NoIdAssert'
<1>0. /\ sgx_table \in Seq(Node) /\ Len(sgx_table) \in Nat
      /\ DOMAIN sgx_table = 1..Len(sgx_table) /\ queue \in Seq(Nat)
      /\ sgx_table' \in Seq(Node) /\ Len(sgx_table') \in Nat
      /\ DOMAIN sgx_table' = 1..Len(sgx_table')
  BY TInvInductive, SeqLength DEF TInv, TypeOK
<1>t. \A i \in 1..Len(sgx_table) : sgx_table[i] \in Node
  BY <1>0, SeqElement
<1>1. CASE UNCHANGED <<queue, sgx_table, status>>
  BY <1>1 DEF OrderInv, TableIndexedById, QueueInTable, NoIdAssert
<1>2. ASSUME NEW c \in Conn, NEW r \in Report, Unfinished(c, r)
      PROVE  TableIndexedById' /\ QueueInTable' /\ NoIdAssert'
  <2>1. /\ r.node_id \in Nat /\ r.node_id + 1 \in 1..Len(sgx_table)
        /\ Len(sgx_table') = Len(sgx_table)
        /\ \A i \in 1..Len(sgx_table) :
             sgx_table'[i] = IF i = r.node_id + 1
                             THEN [sgx_table[i] EXCEPT !.time_left = r.time_left]
                             ELSE sgx_table[i]
    BY <1>2, UnfinishedTableType
  <2>2. \A i \in 1..Len(sgx_table) : sgx_table'[i].node_id = sgx_table[i].node_id
    BY Zenon, <1>t, <2>1 DEF Node
  <2>3. Ids(queue') \subseteq Ids(queue) \cup {r.node_id}
    BY ZenonT(60), <1>0, <1>2, <2>1, RequeuedQueue DEF Unfinished, SetQueue
  <2>4. NoIdAssert'
    BY <1>2 DEF Unfinished, SetQueue, OrderInv, NoIdAssert
  <2>5. TableIndexedById'
    BY <1>0, <2>1, <2>2 DEF TableIndexedById, OrderInv
  <2>6. QueueInTable'
    BY <1>0, <2>1, <2>3 DEF QueueInTable, OrderInv
  <2> QED
    BY <2>4, <2>5, <2>6
<1>3. ASSUME NEW c \in Conn, InsertExisting(c) \/ InsertNew(c)
      PROVE  TableIndexedById' /\ QueueInTable' /\ NoIdAssert'
  <2>1. /\ Len(sgx_table') >= Len(sgx_table) /\ TableIndexedById'
        /\ node[c] \in 0..(Len(sgx_table') - 1)
    <3>1. CASE InsertNew(c)
      <4>1. node[c] = Len(sgx_table) /\ pc[c] = "stamped" /\ sgx_table' = ExtendedTable(c)
        BY SMTT(60), <3>1, OrderInsertNew DEF OrderInv, InsertNew
      <4>2. /\ Len(sgx_table') = Len(sgx_table) + 1
            /\ \A i \in 1..Len(sgx_table) : sgx_table'[i] = sgx_table[i]
            /\ sgx_table'[Len(sgx_table) + 1].node_id = node[c]
        BY ZenonT(60), <4>1, ExtendedTableType, ExtendedFields
      <4>3. \A i \in 1..Len(sgx_table) : sgx_table[i].node_id = i - 1
        BY Zenon, <1>0 DEF OrderInv, TableIndexedById
      <4>4. \A i \in 1..Len(sgx_table') : sgx_table'[i].node_id = i - 1
        <5>1. \A i \in 1..Len(sgx_table') : i \in 1..Len(sgx_table) \/ i = Len(sgx_table) + 1
          BY SMTT(60), <1>0, <4>2
        <5> QED
          BY SMTT(60), <1>0, <4>1, <4>2, <4>3, <5>1
      <4> QED
        BY SMTT(60), <1>0, <4>1, <4>2, <4>4 DEF TableIndexedById
    <3>2. CASE InsertExisting(c)
      <4>1. node[c] < Len(sgx_table) /\ pc[c] = "stamped" /\ node[c] \in Nat
        BY <3>2, UpdatedTableType DEF InsertExisting
      <4>2. CASE sgx_table' = sgx_table
        BY <1>0, <4>1, <4>2 DEF OrderInv, TableIndexedById
      <4>3. CASE sgx_table' = UpdatedTable(c)
        <5>1. /\ Len(sgx_table') = Len(sgx_table)
              /\ \A i \in 1..Len(sgx_table) : sgx_table'[i].node_id = sgx_table[i].node_id
          BY Zenon, <4>1, <4>3, UpdatedTableType, UpdatedFields
        <5>2. \A i \in 1..Len(sgx_table) : sgx_table[i].node_id = i - 1
          BY <1>0 DEF OrderInv, TableIndexedById
        <5>3. \A i \in 1..Len(sgx_table') : sgx_table'[i].node_id = i - 1
          BY <5>1, <5>2
        <5> QED
          BY SMTT(60), <1>0, <4>1, <5>1, <5>3 DEF TableIndexedById
      <4> QED
        BY Zenon, <3>2, <4>2, <4>3 DEF InsertExisting
    <3> QED
      BY Zenon, <1>3, <3>1, <3>2
  <2>2. QueueInTable'
    <3>1. CASE queue' = queue
      BY SMTT(60), <1>0, <2>1, <3>1 DEF OrderInv, QueueInTable
    <3>2. ASSUME NEW q \in Seq(Nat), Ids(q) \subseteq Ids(queue),
                 queue' = Refill(Cleanup(Append(q, node[c])), sgx_table')
          PROVE  QueueInTable'
      <4>1. Ids(q) \cup {node[c]} \subseteq 0..(Len(sgx_table') - 1)
        BY <1>0, <2>1, <3>2 DEF OrderInv, QueueInTable
      <4>2. node[c] \in Nat
        BY <1>0, <2>1
      <4> QED
        BY ZenonT(60), <1>0, <3>2, <4>1, <4>2, InsertedQueue DEF QueueInTable
    <3> QED
      BY <1>3, <3>1, <3>2, InsertEffect
  <2>3. NoIdAssert'
    <3>1. CASE InsertNew(c)
      BY Zenon, <3>1 DEF InsertNew, SetQueue, OrderInv, NoIdAssert
    <3>2. CASE InsertExisting(c)
      <4>1. sgx_table[node[c] + 1].node_id = node[c]
        BY SMTT(60), <1>0, <3>2, UpdatedTableType DEF InsertExisting, OrderInv,
             TableIndexedById
      <4> QED
        BY Zenon, <3>2, <4>1 DEF InsertExisting, SetQueue, OrderInv, NoIdAssert
    <3> QED
      BY <1>3, <3>1, <3>2
  <2> QED
    BY <2>1, <2>2, <2>3
<1>4. ASSUME NEW c \in Conn, NEW r \in Report, UnfinishedAssert(c, r)
      PROVE  TableIndexedById' /\ QueueInTable' /\ NoIdAssert'
  <2>1. r.node_id \in Nat /\ r.node_id < Len(sgx_table)
    BY <1>4, BoundAssumption DEF UnfinishedAssert, Report
  <2>2. sgx_table[r.node_id + 1].node_id = r.node_id
    BY <1>0, <2>1 DEF OrderInv, TableIndexedById
  <2> QED
    BY <1>4, <2>2 DEF UnfinishedAssert, FailedAssert, shared, OrderInv,
                      TableIndexedById, QueueInTable, NoIdAssert
<1>5. ASSUME NEW c \in Conn, Handler(c), ~InsertExisting(c), ~InsertNew(c),
             \A r \in Report : ~Unfinished(c, r) /\ ~UnfinishedAssert(c, r)
      PROVE  TableIndexedById' /\ QueueInTable' /\ NoIdAssert'
  <2>1. UNCHANGED <<queue, sgx_table>> /\ (status' = status \/ status' \in {"running", "segfault"})
    BY ZenonT(60), <1>5 DEF Handler, shared, frame, Accept, Disconnect, Teardown,
         RegisterCheck,
                RegisterLoad, RegisterStore, RegisterInsert, BroadcastStamp,
                BroadcastReject, BroadcastUnregistered, UnfinishedStale
  <2> QED
    BY SMTT(60), <2>1 DEF OrderInv, TableIndexedById, QueueInTable, NoIdAssert
<1> QED
  BY <1>1, <1>2, <1>3, <1>4, <1>5 DEF Next, Tick, shared, vars

LEMMA OrderInductive ==
  TInv /\ OrderInv /\ [Next /\ InOrder]_vars => OrderInv'
<1> SUFFICES ASSUME TInv, OrderInv, [Next /\ InOrder]_vars PROVE OrderInv'
  OBVIOUS
<1>1. TableIndexedById' /\ QueueInTable' /\ NoIdAssert'
  BY IndexedStep
<1>2. (OneJoins /\ IdsHandedOut)'
  <2>1. ASSUME NEW c \in Conn, Handler(c), InOrder PROVE (OneJoins /\ IdsHandedOut)'
    BY SMTT(60), <2>1, OrderRegister, OrderOther, OrderInsertNew DEF OrderInv
  <2>2. CASE Tick \/ UNCHANGED vars
    BY ZenonT(60), <2>2, OrderUnchanged DEF Tick, shared, frame, vars, OrderInv
  <2> QED
    BY <2>1, <2>2 DEF Next
<1> QED
  BY <1>1, <1>2 DEF OrderInv

LEMMA OrderInit == Init => OrderInv
<1> SUFFICES ASSUME Init PROVE OrderInv
  OBVIOUS
<1>1. \A c \in Conn : ~Registering(c) /\ ~Outside(c)
  BY DEF Init, Registering, Outside
<1>2. \A c \in Conn : ~Joining(c) /\ ~Entering(c)
  BY <1>1 DEF Init, Joining, Entering
<1>3. OneJoins /\ IdsHandedOut
  BY <1>2 DEF Init, OneJoins, IdsHandedOut
<1>4. TableIndexedById /\ NoIdAssert
  BY DEF Init, TableIndexedById, NoIdAssert
<1>5. QueueInTable
  BY DEF Init, QueueInTable, Ids
<1> QED
  BY <1>3, <1>4, <1>5 DEF OrderInv

LEMMA InOrderInvariants == SpecInOrder => [](TInv /\ OrderInv /\ QueueFrontDistinct)
<1>1. Init => QueueFrontDistinct
  BY DEF Init, QueueFrontDistinct
<1>2. [Next /\ InOrder]_vars => [Next]_vars
  OBVIOUS
<1> QED
  BY <1>1, <1>2, TInvInit, TInvInductive, OrderInit, OrderInductive,
     FrontDistinctStep, PTL DEF SpecInOrder

(* Index and id agree in every state, however re-entries, reports and
   disconnections mix, as long as clients enter one after the other. *)
THEOREM IndexedInOrder == SpecInOrder => []TableIndexedById
<1>1. OrderInv => TableIndexedById
  BY DEF OrderInv
<1> QED
  BY <1>1, InOrderInvariants, PTL

(* The assertions of insert_node_into_sgx_table_and_queue and of
   poet_unfinished_node on the id of an entry never fail then. *)
THEOREM IdAssertsInOrder == SpecInOrder => []NoIdAssert
<1>1. OrderInv => NoIdAssert
  BY DEF OrderInv
<1> QED
  BY <1>1, InOrderInvariants, PTL

LEMMA PublishedFromOrder ==
  ASSUME TInv, OrderInv, QueueFrontDistinct
  PROVE  QueuePublished
<1>1. /\ queue \in Seq(Nat) /\ Len(queue) \in Nat /\ DOMAIN queue = 1..Len(queue)
      /\ sgx_table \in Seq(Node) /\ Len(sgx_table) \in Nat
      /\ DOMAIN sgx_table = 1..Len(sgx_table)
  BY SeqLength DEF TInv, TypeOK
<1>2. QueueStr(queue, sgx_table) = queue
  BY ZenonT(60), <1>1, QueueStrIdentity DEF OrderInv, TableIndexedById, QueueInTable
<1>3. CASE Len(queue) = 0
  BY <1>1, <1>2, <1>3 DEF QueuePublished
<1>4. CASE Len(queue) > 0
  <2> DEFINE front == SubSeq(queue, 1, Len(queue) - 1)
  <2>1. /\ front \in Seq(Nat) /\ Len(front) = Len(queue) - 1
        /\ \A i \in 1..(Len(queue) - 1) : front[i] = queue[i]
    BY <1>1, <1>4
  <2>2. DOMAIN front = 1..(Len(queue) - 1)
    <3> HIDE DEF front
    <3> QED
      BY <2>1, SeqLength
  <2>3. Distinct(front)
    BY Zenon, <2>1, <2>2 DEF Distinct, QueueFrontDistinct
  <2>4. Ids(front) \subseteq 0..(Len(sgx_table) - 1)
    BY SMTT(60), <1>1, <2>1, <2>2 DEF Ids, OrderInv, QueueInTable
  <2>5. Len(front) <= Len(sgx_table)
    <3> HIDE DEF front
    <3> QED
      BY Zenon, <1>1, <2>1, <2>3, <2>4, DistinctBounded
  <2> QED
    BY <1>1, <1>2, <2>1, <2>5 DEF QueuePublished
<1> QED
  BY <1>1, <1>3, <1>4

(* Clients are sent the very queue of the server. *)
THEOREM PublishedInOrder == SpecInOrder => []QueuePublished
  BY PublishedFromOrder, InOrderInvariants, PTL

LEMMA RestoreStep ==
  ASSUME TInv, OrderInv, [Next /\ InOrder]_vars, InsertStep
  PROVE  /\ Distinct(queue')
         /\ \A i \in 0..(Len(sgx_table') - 1) :
              sgx_table'[i + 1].arrival_time # 0 => i \in Ids(queue')
<1>1. PICK c \in Conn : pc[c] = "stamped" /\ pc'[c] = "idle" /\ status' = "running"
  BY DEF InsertStep
<1>2. InsertExisting(c) \/ InsertNew(c)
  <2>1. PICK d \in Conn : Handler(d)
    BY <1>1 DEF Next, Tick, vars
  <2>2. d = c
    BY ZenonT(60), <1>1, <2>1 DEF TInv, TypeOK, Handler, frame, Accept, Disconnect,
         Teardown,
         RegisterCheck, RegisterLoad, RegisterStore, RegisterInsert, BroadcastStamp,
         BroadcastReject, BroadcastUnregistered, InsertExisting, InsertNew, Finish,
         UnfinishedAssert, Unfinished, UnfinishedStale
  <2> QED
    BY Zenon, <1>1, <2>1, <2>2 DEF Handler, frame, Accept, Disconnect, RegisterCheck,
         RegisterLoad, RegisterStore, RegisterInsert, BroadcastStamp, BroadcastReject,
         BroadcastUnregistered, UnfinishedAssert, Unfinished, UnfinishedStale
<1>3. PICK q \in Seq(Nat) :
        /\ Ids(q) \subseteq Ids(queue)
        /\ queue' = Refill(Cleanup(Append(q, node[c])), sgx_table')
  BY Zenon, <1>1, <1>2, InsertEffect
<1>4. /\ sgx_table' \in Seq(Node) /\ Len(sgx_table') \in Nat
      /\ node[c] \in Nat /\ Len(sgx_table) \in Nat
  <2>1. node[c] \in Nat
    BY Zenon, <1>1, ExtendedTableType
  <2> QED
    BY <2>1, TInvInductive, SeqLength DEF TInv, TypeOK
<1>5. Len(sgx_table') >= Len(sgx_table) /\ node[c] \in 0..(Len(sgx_table') - 1)
  <2>1. CASE InsertNew(c)
    <3>1. node[c] = Len(sgx_table) /\ sgx_table' = ExtendedTable(c)
      BY <2>1, OrderInsertNew DEF InsertNew, OrderInv
    <3>2. Len(sgx_table') = Len(sgx_table) + 1
      BY Zenon, <1>1, <3>1, ExtendedTableType
    <3>3. \A a, b \in Nat : b = a + 1 => b >= a /\ a \in 0..(b - 1)
      OBVIOUS
    <3> QED
      BY Zenon, <1>4, <3>1, <3>2, <3>3
  <2>2. CASE InsertExisting(c)
    <3>1. pc[c] = "stamped" /\ node[c] < Len(sgx_table)
      BY Zenon, <2>2 DEF InsertExisting
    <3>2. sgx_table' = sgx_table \/ sgx_table' = UpdatedTable(c)
      BY Zenon, <2>2 DEF InsertExisting
    <3>3. Len(UpdatedTable(c)) = Len(sgx_table)
      BY Zenon, <1>1, <3>1, UpdatedTableType
    <3>4. Len(sgx_table') = Len(sgx_table)
      BY Zenon, <3>2, <3>3
    <3> QED
      BY <1>4, <3>1, <3>4
  <2> QED
    BY <1>2, <2>1, <2>2
<1>6. Ids(q) \cup {node[c]} \subseteq 0..(Len(sgx_table') - 1)
  BY <1>3, <1>4, <1>5 DEF OrderInv, QueueInTable
<1> QED
  BY Zenon, <1>3, <1>4, <1>6, InsertedQueue

(* An insert repairs the queue whatever poet_unfinished_node did to it. *)
THEOREM InsertsRestore == SpecInOrder => InsertRestoresQueue
  BY RestoreStep, InOrderInvariants, PTL DEF SpecInOrder, InsertRestoresQueue
=============================================================================
