-------------------------- MODULE QueueListProofs --------------------------
(***************************************************************************)
(* Proofs about QueueList, for any number of items and any values: the     *)
(* list stays well formed, no assertion of queue_t.c and of                *)
(* queue_delete_continuous_nodes fails, and the list with its two-pass     *)
(* cleanup implements the sequence of QueueSpec.                           *)
(***************************************************************************)
EXTENDS QueueList, FiniteSetTheorems, TLAPS

-----------------------------------------------------------------------------
(* Numbers, links and sequences *)

(* Induction, for a property given as the set of the numbers that have it. *)
LEMMA NatSetInduction ==
  ASSUME NEW S, 0 \in S, \A n \in Nat : n \in S => n + 1 \in S
  PROVE  \A n \in Nat : n \in S
<1> DEFINE T == Nat \ S
           R == OpToRel(<, Nat)
<1> SUFFICES ASSUME T # {} PROVE FALSE
  OBVIOUS
<1>1. PICK x \in T : \A y \in T : ~(<<y, x>> \in R)
  <2>1. IsWellFoundedOn(R, Nat)
    BY Zenon, NatLessThanWellFounded
  <2>2. T \subseteq Nat
    OBVIOUS
  <2> HIDE DEF T, R
  <2> QED
    BY Zenon, <2>1, <2>2, WFMin
<1>2. x \in Nat /\ x # 0 /\ x - 1 \in Nat
  OBVIOUS
<1>3. x - 1 \in S
  <2> SUFFICES ASSUME x - 1 \notin S PROVE FALSE
    OBVIOUS
  <2>1. x - 1 \in T
    BY <1>2
  <2>2. <<x - 1, x>> \in R
    BY <1>2 DEF OpToRel
  <2> QED
    BY Zenon, <1>1, <2>1, <2>2
<1>4. x - 1 + 1 \in S
  BY <1>2, <1>3
<1> QED
  BY <1>2, <1>4

(* Sequences: what Seq means, when two are equal, and the tail *)
LEMMA SeqFacts ==
  ASSUME NEW S, NEW s \in Seq(S)
  PROVE  Len(s) \in Nat /\ s \in [1..Len(s) -> S] /\ DOMAIN s = 1..Len(s)
OBVIOUS

LEMMA NoElements ==
  ASSUME NEW S
  PROVE  <<>> \in Seq(S) /\ Len(<<>>) = 0
OBVIOUS

LEMMA SameSeq ==
  ASSUME NEW S, NEW s \in Seq(S), NEW t \in Seq(S), Len(s) = Len(t),
         \A k \in 1..Len(s) : s[k] = t[k]
  PROVE  s = t
OBVIOUS

LEMMA TailFacts ==
  ASSUME NEW S, NEW s \in Seq(S), s # <<>>
  PROVE  /\ Tail(s) \in Seq(S) /\ Len(Tail(s)) = Len(s) - 1
         /\ \A k \in 1..(Len(s) - 1) : Tail(s)[k] = s[k + 1]
OBVIOUS

(* h, t, n, nx, dt and lv are head, tail, size, next, data and live of a list
   whose items are s. *)
IsList(s, h, t, n, nx, dt, lv) ==
  /\ s \in [1..n -> Item]
  /\ \A k, l \in 1..n : s[k] = s[l] => k = l
  /\ h = IF n = 0 THEN Null ELSE s[1]
  /\ t = IF n = 0 THEN Null ELSE s[n]
  /\ \A l \in 1..n : nx[s[l]] = IF l < n THEN s[l + 1] ELSE Null
  /\ lv = {s[l] : l \in 1..n}
  /\ \A l \in 1..n : dt[s[l]] \in Value

Links == [Item -> Item \cup {Null}]
Contained == [Item -> Value \cup {Null}]

(* What Linked is, for a head and links given as parameters. *)
Chain(h, nx) ==
  CHOOSE L : L = [n \in Nat |-> IF n = 0 THEN h
                                ELSE IF L[n - 1] = Null THEN Null ELSE nx[L[n - 1]]]

(* Following the links of a list gives its items one by one, then Null. *)
LEMMA ChainOfList ==
  ASSUME NEW N \in Nat, NEW s, NEW h, NEW t, NEW nx, NEW dt, NEW lv,
         IsList(s, h, t, N, nx, dt, lv)
  PROVE  \A n \in Nat : Chain(h, nx)[n] = IF n < N THEN s[n + 1] ELSE Null
<1> DEFINE F(L) == [n \in Nat |-> IF n = 0 THEN h
                                  ELSE IF L[n - 1] = Null THEN Null ELSE nx[L[n - 1]]]
           W == [n \in Nat |-> IF n < N THEN s[n + 1] ELSE Null]
           C == Chain(h, nx)
<1>0. /\ s \in [1..N -> Item]
      /\ h = IF N = 0 THEN Null ELSE s[1]
      /\ \A l \in 1..N : nx[s[l]] = IF l < N THEN s[l + 1] ELSE Null
  BY DEF IsList
<1>1. W = F(W)
  <2>1. \A n \in Nat : W[n] = F(W)[n]
    <3> TAKE n \in Nat
    <3>1. CASE n = 0
      BY <1>0, <3>1
    <3>2. CASE n # 0 /\ n - 1 < N
      <4>1. W[n - 1] = s[n] /\ s[n] \in Item
        BY <1>0, <3>2
      <4>2. nx[s[n]] = W[n]
        BY <1>0, <3>2
      <4> QED
        BY <3>2, <4>1, <4>2, NullAssumption
    <3>3. CASE n # 0 /\ ~(n - 1 < N)
      BY <1>0, <3>3
    <3> QED
      BY <3>1, <3>2, <3>3
  <2> QED
    BY <2>1, Zenon
<1>2. C = F(C)
  BY <1>1, Zenon DEF Chain
<1> DEFINE S == {n \in Nat : C[n] = W[n]}
<1>3. 0 \in S
  <2>1. C[0] = h
    BY <1>2
  <2> QED
    BY <1>0, <2>1
<1>4. \A n \in Nat : n \in S => n + 1 \in S
  <2> SUFFICES ASSUME NEW n \in Nat, C[n] = W[n] PROVE C[n + 1] = W[n + 1]
    OBVIOUS
  <2>1. n + 1 \in Nat /\ n + 1 # 0 /\ n + 1 - 1 = n
    OBVIOUS
  <2>2. \A m \in Nat : /\ C[m] = F(C)[m]
                       /\ W[m] = F(W)[m]
    BY <1>1, <1>2, Zenon
  <2> HIDE DEF C, W
  <2> QED
    BY <2>1, <2>2
<1>5. \A n \in Nat : n \in S
  <2> HIDE DEF S
  <2> QED
    BY <1>3, <1>4, NatSetInduction
<1> QED
  BY <1>5

(* An injective enumeration counts what it enumerates. *)
LEMMA CountList ==
  ASSUME NEW n \in Nat, NEW V, NEW s \in [1..n -> V],
         \A k, l \in 1..n : s[k] = s[l] => k = l,
         \A v \in V : \E k \in 1..n : s[k] = v
  PROVE  IsFiniteSet(V) /\ Cardinality(V) = n
<1>1. s \in Bijection(1..n, V)
  BY DEF Bijection, Injection, Surjection, IsInjective
<1>2. ExistsBijection(1..n, V)
  BY <1>1 DEF ExistsBijection
<1> QED
  BY <1>2, FS_CountingElements, FS_NatBijection

(* The operators of QueueSpec count as these proofs do. *)
LEMMA AbstractCardinality ==
  ASSUME NEW S PROVE Abstract!Cardinality(S) = Cardinality(S)
BY Zenon DEF Abstract!Cardinality, Cardinality

(* An increasing enumeration of a set of integers is Ascending of that set. *)
LEMMA AscendingOf ==
  ASSUME NEW n \in Nat, NEW f \in [1..n -> Int],
         \A k, l \in 1..n : k < l => f[k] < f[l]
  PROVE  LET S == {f[k] : k \in 1..n}
         IN  Cardinality(S) = n /\ Abstract!Ascending(S) = f
<1> DEFINE S == {f[k] : k \in 1..n}
<1>1. \A k, l \in 1..n : f[k] = f[l] => k = l
  <2> SUFFICES ASSUME NEW k \in 1..n, NEW l \in 1..n, f[k] = f[l], k # l PROVE FALSE
    OBVIOUS
  <2>1. k < l \/ l < k
    OBVIOUS
  <2> QED
    BY <2>1
<1>2. Cardinality(S) = n
  <2>1. f \in [1..n -> S] /\ \A v \in S : \E k \in 1..n : f[k] = v
    OBVIOUS
  <2> HIDE DEF S
  <2> QED
    BY Zenon, <1>1, <2>1, CountList
<1>3. \A k \in 1..n : Abstract!Rank(S, f[k]) = k
  <2> TAKE k \in 1..n
  <2> DEFINE g == [l \in 1..k |-> f[l]]
  <2>1. g \in [1..k -> Int] /\ k \in Nat
    OBVIOUS
  <2>2. \A m, l \in 1..k : g[m] = g[l] => m = l
    BY <1>1
  <2>3. {j \in S : j <= f[k]} = {g[l] : l \in 1..k}
    <3>1. ASSUME NEW j \in S, j <= f[k] PROVE j \in {g[l] : l \in 1..k}
      <4>1. PICK l \in 1..n : j = f[l]
        OBVIOUS
      <4>2. l <= k
        BY <3>1, <4>1
      <4>3. l \in 1..k /\ j = g[l]
        BY <4>1, <4>2
      <4> QED
        BY <4>3, Zenon
    <3>2. ASSUME NEW l \in 1..k PROVE g[l] \in S /\ g[l] <= f[k]
      <4>1. l \in 1..n /\ (l = k \/ l < k) /\ g[l] = f[l]
        OBVIOUS
      <4>2. f[l] \in S
        BY <4>1
      <4> QED
        BY <4>1, <4>2
    <3> HIDE DEF g, S
    <3> QED
      BY <3>1, <3>2
  <2>4. Cardinality({g[l] : l \in 1..k}) = k
    <3> DEFINE G == {g[l] : l \in 1..k}
    <3>1. g \in [1..k -> G] /\ \A v \in G : \E l \in 1..k : g[l] = v
      OBVIOUS
    <3>2. Cardinality(G) = k
      <4> HIDE DEF g, G
      <4> QED
        BY Zenon, <2>1, <2>2, <3>1, CountList
    <3> QED
      BY <3>2
  <2> HIDE DEF S, g
  <2> QED
    BY Zenon, <2>3, <2>4, AbstractCardinality DEF Abstract!Rank
<1>4. \A k \in 1..n : (CHOOSE j \in S : Abstract!Rank(S, j) = k) = f[k]
  <2> SUFFICES ASSUME NEW k \in 1..n
               PROVE  (CHOOSE j \in S : Abstract!Rank(S, j) = k) = f[k]
    BY Zenon
  <2>1. f[k] \in S /\ Abstract!Rank(S, f[k]) = k
    BY <1>3
  <2>2. \A j \in S : Abstract!Rank(S, j) = k => j = f[k]
    <3> TAKE j \in S
    <3>1. PICK l \in 1..n : j = f[l]
      OBVIOUS
    <3>2. Abstract!Rank(S, j) = l
      BY <1>3, <3>1
    <3> QED
      BY <3>1, <3>2
  <2> HIDE DEF S
  <2> QED
    BY <2>1, <2>2
<1>5. Abstract!Ascending(S) = [k \in 1..n |-> f[k]]
  <2> HIDE DEF S
  <2> QED
    BY <1>2, <1>4, AbstractCardinality, Zenon DEF Abstract!Ascending
<1> QED
  BY <1>2, <1>5

(* Increasing positions of b that hold different values, such that every value
   of b occurs at one of them that is not earlier, are the last positions. *)
LastOnes(b, n, f) ==
  /\ f \in [1..n -> 1..Len(b)]
  /\ \A k, l \in 1..n : k < l => f[k] < f[l]
  /\ \A k, l \in 1..n : b[f[k]] = b[f[l]] => k = l
  /\ \A p \in 1..Len(b) : \E k \in 1..n : f[k] >= p /\ b[f[k]] = b[p]

Selected(b, n, f) == [k \in 1..n |-> b[f[k]]]

LEMMA KeepLastOf ==
  ASSUME NEW b \in Seq(Value), NEW n \in Nat, NEW f, LastOnes(b, n, f)
  PROVE  Abstract!KeepLast(b) = Selected(b, n, f)
<1> DEFINE S == {f[k] : k \in 1..n}
<1>0. /\ f \in [1..n -> 1..Len(b)]
      /\ \A k, l \in 1..n : k < l => f[k] < f[l]
      /\ \A k, l \in 1..n : b[f[k]] = b[f[l]] => k = l
      /\ \A p \in 1..Len(b) : \E k \in 1..n : f[k] >= p /\ b[f[k]] = b[p]
  BY Zenon DEF LastOnes
<1> USE <1>0
<1>1. Len(b) \in Nat /\ DOMAIN b = 1..Len(b)
  OBVIOUS
<1>2. Abstract!LastPositions(b) = S
  <2>1. ASSUME NEW k \in 1..n, NEW p \in 1..Len(b), p > f[k]
        PROVE  b[p] # b[f[k]]
    <3> SUFFICES ASSUME b[p] = b[f[k]] PROVE FALSE
      OBVIOUS
    <3>1. PICK l \in 1..n : f[l] >= p /\ b[f[l]] = b[p]
      OBVIOUS
    <3>2. l = k
      BY <3>1
    <3> QED
      BY <1>1, <2>1, <3>1, <3>2
  <2>2. ASSUME NEW p \in 1..Len(b), \A j \in 1..Len(b) : j > p => b[j] # b[p]
        PROVE  p \in S
    <3>1. PICK k \in 1..n : f[k] >= p /\ b[f[k]] = b[p]
      OBVIOUS
    <3>2. f[k] = p
      BY <1>1, <2>2, <3>1
    <3> QED
      BY <3>2
  <2>3. S \subseteq 1..Len(b)
    OBVIOUS
  <2>4. \A p \in S : \A j \in 1..Len(b) : j > p => b[j] # b[p]
    BY <2>1
  <2>5. Abstract!LastPositions(b) =
          {p \in 1..Len(b) : \A j \in 1..Len(b) : j > p => b[j] # b[p]}
    BY Zenon, <1>1 DEF Abstract!LastPositions
  <2> HIDE DEF S
  <2> QED
    BY Zenon, <2>2, <2>3, <2>4, <2>5
<1>3. Cardinality(S) = n /\ Abstract!Ascending(S) = f
  <2>1. f \in [1..n -> Int]
    BY <1>1
  <2> QED
    BY Zenon, <2>1, AscendingOf
<1> HIDE DEF S
<1> QED
  BY <1>2, <1>3, AbstractCardinality, Zenon DEF Abstract!KeepLast, Selected

-----------------------------------------------------------------------------
(* Lists of items *)

(* A list is not longer than there are items. *)
LEMMA SizeBound ==
  ASSUME NEW n \in Nat, NEW s \in [1..n -> Item],
         \A k, l \in 1..n : s[k] = s[l] => k = l
  PROVE  n \in 0..Cardinality(Item)
<1>1. s \in Injection(1..n, Item)
  BY DEF Injection, IsInjective
<1>2. Cardinality(1..n) <= Cardinality(Item)
  BY <1>1, ItemAssumption, FS_Injection
<1>3. Cardinality(1..n) = n
  BY FS_Interval
<1>4. Cardinality(Item) \in Nat
  BY ItemAssumption, FS_CardinalityType
<1> QED
  BY <1>2, <1>3, <1>4

ChainContents(h, n, nx, dt) == [k \in 1..n |-> dt[Chain(h, nx)[k - 1]]]
ListContents(s, n, dt) == [k \in 1..n |-> dt[s[k]]]

(* Contents is the data of the items, in order. *)
LEMMA ContentsOfList ==
  ASSUME NEW n \in Nat, NEW s, NEW h, NEW t, NEW nx, NEW dt, NEW lv,
         IsList(s, h, t, n, nx, dt, lv)
  PROVE  /\ \A k \in 0..(n - 1) : Chain(h, nx)[k] = s[k + 1]
         /\ Chain(h, nx)[n] = Null
         /\ ChainContents(h, n, nx, dt) = ListContents(s, n, dt)
<1>1. \A k \in Nat : Chain(h, nx)[k] = IF k < n THEN s[k + 1] ELSE Null
  BY ChainOfList, Zenon
<1> DEFINE C == Chain(h, nx)
<1>2. \A k \in 1..n : C[k - 1] = s[k]
  <2> HIDE DEF C
  <2>1. \A k \in Nat : C[k] = IF k < n THEN s[k + 1] ELSE Null
    BY <1>1 DEF C
  <2> QED
    BY <2>1
<1>3. [k \in 1..n |-> dt[C[k - 1]]] = [k \in 1..n |-> dt[s[k]]]
  BY <1>2, Zenon
<1> QED
  BY <1>1, <1>3 DEF ChainContents, ListContents

(* h2, nx2 and dt2 are head, next and data after x is pushed with the value d. *)
Pushing(h, t, nx, dt, lv, d, x, h2, nx2, dt2) ==
  /\ nx \in Links /\ dt \in Contained
  /\ d \in Value /\ x \in Item \ lv
  /\ h2 = IF t = Null THEN x ELSE h
  /\ nx2 = IF t = Null THEN [nx EXCEPT ![x] = Null]
                       ELSE [nx EXCEPT ![x] = Null, ![t] = x]
  /\ dt2 = [dt EXCEPT ![x] = d]

Pushed(s, n, dt, lv, d, x, h2, nx2, dt2) ==
  \E s2 : /\ IsList(s2, h2, x, n + 1, nx2, dt2, lv \cup {x})
          /\ \A k \in 1..n : dt2[s2[k]] = dt[s[k]]
          /\ dt2[s2[n + 1]] = d

(* queue_push on a list. *)
LEMMA PushList ==
  ASSUME NEW n \in Nat, NEW s, NEW h, NEW t, NEW nx, NEW dt, NEW lv,
         IsList(s, h, t, n, nx, dt, lv),
         NEW d, NEW x, NEW h2, NEW nx2, NEW dt2,
         Pushing(h, t, nx, dt, lv, d, x, h2, nx2, dt2)
  PROVE  /\ t = Null <=> n = 0
         /\ h = Null <=> n = 0
         /\ Pushed(s, n, dt, lv, d, x, h2, nx2, dt2)
<1> DEFINE s2 == [k \in 1..(n + 1) |-> IF k <= n THEN s[k] ELSE x]
<1>a. /\ nx \in [Item -> Item \cup {Null}] /\ dt \in [Item -> Value \cup {Null}]
      /\ d \in Value /\ x \in Item \ lv
      /\ h2 = IF t = Null THEN x ELSE h
      /\ nx2 = IF t = Null THEN [nx EXCEPT ![x] = Null]
                           ELSE [nx EXCEPT ![x] = Null, ![t] = x]
      /\ dt2 = [dt EXCEPT ![x] = d]
  BY Zenon DEF Pushing, Links, Contained
<1>0. /\ s \in [1..n -> Item]
      /\ \A k, l \in 1..n : s[k] = s[l] => k = l
      /\ h = IF n = 0 THEN Null ELSE s[1]
      /\ t = IF n = 0 THEN Null ELSE s[n]
      /\ \A l \in 1..n : nx[s[l]] = IF l < n THEN s[l + 1] ELSE Null
      /\ lv = {s[l] : l \in 1..n}
      /\ \A l \in 1..n : dt[s[l]] \in Value
  BY DEF IsList
<1>1. (t = Null <=> n = 0) /\ (h = Null <=> n = 0)
  BY <1>0, NullAssumption
<1>2. x \in Item /\ \A k \in 1..n : s[k] # x /\ s[k] \in Item
  BY <1>a, <1>0
<1>3. /\ s2 \in [1..(n + 1) -> Item] /\ s2[n + 1] = x
      /\ \A k \in 1..n : s2[k] = s[k]
  BY <1>0, <1>2
<1>4. \A k, l \in 1..(n + 1) : s2[k] = s2[l] => k = l
  BY <1>0, <1>2
<1>5. h2 = s2[1]
  BY <1>a, <1>0, <1>1, <1>3
<1>6. \A l \in 1..(n + 1) : nx2[s2[l]] = IF l < n + 1 THEN s2[l + 1] ELSE Null
  <2>1. CASE n = 0
    BY <1>a, <1>0, <1>1, <1>2, <2>1
  <2>2. CASE n # 0
    <3>1. t = s[n] /\ t \in Item /\ t # x /\ t # Null
      BY <1>0, <1>1, <1>2, <2>2
    <3>2. nx2 = [nx EXCEPT ![x] = Null, ![t] = x]
      BY <1>a, <3>1
    <3>3. \A y \in Item : nx2[y] = IF y = t THEN x ELSE IF y = x THEN Null ELSE nx[y]
      BY <1>a, <3>1, <3>2, <1>2
    <3> HIDE DEF s2
    <3>4. nx2[s2[n + 1]] = Null
      BY <1>2, <1>3, <3>1, <3>3
    <3>5. nx2[s2[n]] = s2[n + 1]
      BY <1>2, <1>3, <3>1, <3>3, <2>2
    <3>6. \A l \in 1..(n - 1) : nx2[s2[l]] = s2[l + 1]
      <4> TAKE l \in 1..(n - 1)
      <4>1. l \in 1..n /\ l + 1 \in 1..n /\ n \in 1..n /\ l # n
        BY <2>2
      <4>2. s[l] # t /\ s[l] # x /\ s[l] \in Item
        BY <4>1, <1>0, <1>2, <3>1
      <4> QED
        BY <4>1, <4>2, <1>0, <1>3, <3>3
    <3>7. \A l \in 1..(n + 1) : l = n + 1 \/ l = n \/ l \in 1..(n - 1)
      OBVIOUS
    <3> QED
      BY <3>4, <3>5, <3>6, <3>7, <2>2
  <2> QED
    BY <2>1, <2>2
<1>7. lv \cup {x} = {s2[l] : l \in 1..(n + 1)}
  <2> HIDE DEF s2
  <2>1. ASSUME NEW y \in lv \cup {x} PROVE \E l \in 1..(n + 1) : y = s2[l]
    <3>1. CASE y = x
      BY <1>3, <3>1
    <3>2. CASE y \in lv
      <4>1. PICK l \in 1..n : y = s[l]
        BY <1>0, <3>2
      <4>2. l \in 1..(n + 1) /\ y = s2[l]
        BY <4>1, <1>3
      <4> QED
        BY <4>2
    <3> QED
      BY <3>1, <3>2
  <2>2. ASSUME NEW l \in 1..(n + 1) PROVE s2[l] \in lv \cup {x}
    <3>1. CASE l = n + 1
      BY <1>3, <3>1
    <3>2. CASE l \in 1..n
      BY <1>0, <1>3, <3>2
    <3> QED
      BY <3>1, <3>2
  <2> QED
    BY <2>1, <2>2
<1>8. /\ \A k \in 1..n : dt2[s2[k]] = dt[s[k]]
      /\ dt2[s2[n + 1]] = d
  <2>1. \A y \in Item : dt2[y] = IF y = x THEN d ELSE dt[y]
    BY <1>a
  <2> HIDE DEF s2
  <2> QED
    BY <2>1, <1>2, <1>3
<1>9. \A l \in 1..(n + 1) : dt2[s2[l]] \in Value
  <2> TAKE l \in 1..(n + 1)
  <2>1. l \in 1..n \/ l = n + 1
    OBVIOUS
  <2> HIDE DEF s2
  <2> QED
    BY <1>a, <2>1, <1>0, <1>8
<1>10. IsList(s2, h2, x, n + 1, nx2, dt2, lv \cup {x})
  <2>1. n + 1 # 0
    OBVIOUS
  <2> HIDE DEF s2
  <2> QED
    BY Zenon, <2>1, <1>3, <1>4, <1>5, <1>6, <1>7, <1>9 DEF IsList
<1>11. Pushed(s, n, dt, lv, d, x, h2, nx2, dt2)
  <2> HIDE DEF s2
  <2> QED
    BY Zenon, <1>8, <1>10 DEF Pushed
<1> QED
  BY <1>1, <1>11

(* h2, t2, nx2, dt2 and lv2 are what the removal of the head leaves. *)
Removing(h, t, nx, dt, lv, h2, t2, nx2, dt2, lv2) ==
  /\ nx \in Links /\ dt \in Contained
  /\ h2 = nx[h] /\ t2 = IF h = t THEN Null ELSE t
  /\ nx2 = [nx EXCEPT ![h] = Null] /\ dt2 = [dt EXCEPT ![h] = Null]
  /\ lv2 = lv \ {h}

Removed(s, n, dt, h2, t2, nx2, dt2, lv2) ==
  \E s2 : /\ IsList(s2, h2, t2, n - 1, nx2, dt2, lv2)
          /\ \A k \in 1..(n - 1) : dt2[s2[k]] = dt[s[k + 1]]

(* queue_pop on a list that is not empty. *)
LEMMA RemoveFromList ==
  ASSUME NEW n \in Nat \ {0}, NEW s, NEW h, NEW t, NEW nx, NEW dt, NEW lv,
         IsList(s, h, t, n, nx, dt, lv),
         NEW h2, NEW t2, NEW nx2, NEW dt2, NEW lv2,
         Removing(h, t, nx, dt, lv, h2, t2, nx2, dt2, lv2)
  PROVE  /\ h \in Item
         /\ h = t => nx[h] = Null
         /\ Removed(s, n, dt, h2, t2, nx2, dt2, lv2)
<1> DEFINE s2 == [k \in 1..(n - 1) |-> s[k + 1]]
<1>a. /\ nx \in [Item -> Item \cup {Null}] /\ dt \in [Item -> Value \cup {Null}]
      /\ h2 = nx[h] /\ t2 = IF h = t THEN Null ELSE t
      /\ nx2 = [nx EXCEPT ![h] = Null] /\ dt2 = [dt EXCEPT ![h] = Null]
      /\ lv2 = lv \ {h}
  BY Zenon DEF Removing, Links, Contained
<1>0. /\ s \in [1..n -> Item]
      /\ \A k, l \in 1..n : s[k] = s[l] => k = l
      /\ h = s[1] /\ t = s[n]
      /\ \A l \in 1..n : nx[s[l]] = IF l < n THEN s[l + 1] ELSE Null
      /\ lv = {s[l] : l \in 1..n}
      /\ \A l \in 1..n : dt[s[l]] \in Value
  BY DEF IsList
<1>1. 1 \in 1..n /\ n \in 1..n /\ n - 1 \in Nat
  OBVIOUS
<1>2. h \in Item /\ \A k \in 1..(n - 1) : k + 1 \in 1..n /\ s[k + 1] # h /\ s[k + 1] \in Item
  BY <1>0, <1>1
<1>3. (h = t <=> n = 1) /\ (n = 1 => nx[h] = Null)
  BY <1>0, <1>1
<1>4. s2 \in [1..(n - 1) -> Item] /\ \A k \in 1..(n - 1) : s2[k] = s[k + 1]
  BY <1>2
<1>5. \A k, l \in 1..(n - 1) : s2[k] = s2[l] => k = l
  <2> TAKE k, l \in 1..(n - 1)
  <2>1. s[k + 1] = s[l + 1] => k + 1 = l + 1
    BY <1>0, <1>2
  <2> QED
    BY <2>1, <1>4
<1>6. h2 = IF n - 1 = 0 THEN Null ELSE s2[1]
  BY <1>a, <1>0, <1>1, <1>3
<1>7. t2 = IF n - 1 = 0 THEN Null ELSE s2[n - 1]
  BY <1>a, <1>0, <1>1, <1>3
<1>8. \A l \in 1..(n - 1) : nx2[s2[l]] = IF l < n - 1 THEN s2[l + 1] ELSE Null
  <2> TAKE l \in 1..(n - 1)
  <2>1. nx2[s2[l]] = nx[s[l + 1]]
    BY <1>a, <1>2, <1>4
  <2>2. nx[s[l + 1]] = IF l + 1 < n THEN s[l + 1 + 1] ELSE Null
    BY <1>0, <1>2
  <2> QED
    BY <2>1, <2>2
<1>9. lv2 = {s2[l] : l \in 1..(n - 1)}
  <2> HIDE DEF s2
  <2>1. ASSUME NEW y \in lv, y # h PROVE \E l \in 1..(n - 1) : y = s2[l]
    <3>1. PICK k \in 1..n : y = s[k]
      BY <1>0
    <3>2. k - 1 \in 1..(n - 1) /\ k - 1 + 1 = k
      BY <1>0, <2>1, <3>1
    <3>3. y = s2[k - 1]
      BY <1>4, <3>1, <3>2
    <3> QED
      BY <3>2, <3>3
  <2>2. ASSUME NEW l \in 1..(n - 1) PROVE s2[l] \in lv /\ s2[l] # h
    BY <1>0, <1>2, <1>4
  <2> QED
    BY <1>a, <2>1, <2>2
<1>10. \A k \in 1..(n - 1) : dt2[s2[k]] = dt[s[k + 1]]
  BY <1>a, <1>2, <1>4
<1>11. \A l \in 1..(n - 1) : dt2[s2[l]] \in Value
  <2> TAKE l \in 1..(n - 1)
  <2> HIDE DEF s2
  <2> QED
    BY <1>0, <1>2, <1>10
<1>12. IsList(s2, h2, t2, n - 1, nx2, dt2, lv2)
  <2> HIDE DEF s2
  <2> QED
    BY Zenon, <1>4, <1>5, <1>6, <1>7, <1>8, <1>9, <1>11 DEF IsList
<1>13. Removed(s, n, dt, h2, t2, nx2, dt2, lv2)
  <2> HIDE DEF s2
  <2> QED
    BY Zenon, <1>10, <1>12 DEF Removed
<1> QED
  BY <1>2, <1>3, <1>13

(* The links of an item kept by a pass, once they are set. *)
Relinked(p, nx) ==
  [x \in Item |->
     IF \E k \in 1..Len(p) : p[k] = x
     THEN LET k == CHOOSE k \in 1..Len(p) : p[k] = x
          IN  IF k < Len(p) THEN p[k + 1] ELSE Null
     ELSE nx[x]]

(* The end of queue_selective_remove makes a list of the items kept. *)
LEMMA RelinkList ==
  ASSUME NEW p \in Seq(Item), \A k, l \in 1..Len(p) : p[k] = p[l] => k = l,
         NEW nx \in Links, NEW dt, NEW lv,
         lv = {p[k] : k \in 1..Len(p)}, \A x \in lv : dt[x] \in Value
  PROVE  /\ Relinked(p, nx) \in Links
         /\ IsList(p, IF Len(p) = 0 THEN Null ELSE p[1],
                   IF Len(p) = 0 THEN Null ELSE p[Len(p)],
                   Len(p), Relinked(p, nx), dt, lv)
<1> DEFINE n == Len(p)
           nx2 == Relinked(p, nx)
<1> USE DEF Links
<1>1. n \in Nat /\ p \in [1..n -> Item]
  BY SeqFacts
<1>2. \A l \in 1..n : (CHOOSE k \in 1..n : p[k] = p[l]) = l
  <2> HIDE DEF n
  <2> QED
    BY DEF n
<1>3. \A l \in 1..n : nx2[p[l]] = IF l < n THEN p[l + 1] ELSE Null
  <2> TAKE l \in 1..n
  <2>1. p[l] \in Item
    BY <1>1
  <2> QED
    BY Zenon, <1>2, <2>1 DEF Relinked
<1>4. nx2 \in Links
  <2>1. ASSUME NEW x \in Item PROVE nx2[x] \in Item \cup {Null}
    <3>1. CASE \E k \in 1..n : p[k] = x
      <4>1. PICK l \in 1..n : p[l] = x
        BY <3>1
      <4>2. nx2[x] = IF l < n THEN p[l + 1] ELSE Null
        BY <1>3, <4>1
      <4>3. l < n => p[l + 1] \in Item
        BY <1>1
      <4> QED
        BY <4>2, <4>3
    <3>2. CASE ~ \E k \in 1..n : p[k] = x
      <4>1. nx2[x] = nx[x]
        BY Zenon, <3>2 DEF Relinked
      <4> QED
        BY <4>1
    <3> QED
      BY <3>1, <3>2
  <2>2. nx2 = [x \in Item |-> nx2[x]]
    BY Zenon DEF Relinked
  <2> HIDE DEF nx2
  <2> QED
    BY <2>1, <2>2
<1>5. \A l \in 1..n : dt[p[l]] \in Value
  OBVIOUS
<1> HIDE DEF nx2
<1> QED
  BY Zenon, <1>1, <1>3, <1>4, <1>5 DEF IsList, nx2

-----------------------------------------------------------------------------
(* The inductive invariant *)

(* What the two passes go through: the contents without the head. *)
Popped == Abstract!PopHead(before)

(* How many items the pass under way has visited. *)
Kept == Len(to_preserve)
Visited == Kept + deletions

(* s is the list as the pass under way found it (the list itself outside a
   cleanup).  What is linked is the part that is not visited yet; the items kept
   come from the visited part; these two make up the allocated items. *)
Linking(s) ==
  /\ \A k, l \in 1..size : s[k] = s[l] => k = l
  /\ Visited <= size
  /\ \A k \in 1..Kept : \E l \in 1..Visited : to_preserve[k] = s[l]
  /\ \A k, l \in 1..Kept : to_preserve[k] = to_preserve[l] => k = l
  /\ \A l \in (Visited + 1)..size : next[s[l]] = IF l < size THEN s[l + 1] ELSE Null
  /\ live = {to_preserve[k] : k \in 1..Kept} \cup {s[l] : l \in (Visited + 1)..size}
  /\ \A x \in live : data[x] \in Value

(* Outside a cleanup head and tail are the ends of s. *)
Idle(s) ==
  pass = "none" =>
    /\ to_preserve = <<>> /\ deletions = 0 /\ i = Null
    /\ head = IF size = 0 THEN Null ELSE s[1]
    /\ tail = IF size = 0 THEN Null ELSE s[size]

(* In a pass i is the first item that is not visited; g and f are positions of
   what was popped, increasing, that hold the values of s and of the items kept;
   whatever was popped still occurs there or later. *)
Walking(s, g, f) ==
  /\ before \in Seq(Value)
  /\ i = IF Visited < size THEN s[Visited + 1] ELSE Null
  /\ \A k, l \in 1..size : k < l => g[k] < g[l]
  /\ \A l \in (Visited + 1)..size : Popped[g[l]] = data[s[l]]
  /\ \A k, l \in 1..Kept : k < l => f[k] < f[l]
  /\ \A k \in 1..Kept : Popped[f[k]] = data[to_preserve[k]]
  /\ \A k \in 1..Kept, l \in (Visited + 1)..size : f[k] < g[l]
  /\ \A p \in 1..Len(Popped) :
       \/ \E k \in 1..Kept : f[k] >= p /\ Popped[f[k]] = Popped[p]
       \/ \E l \in (Visited + 1)..size : g[l] >= p /\ Popped[g[l]] = Popped[p]

(* The first pass has counted what it kept and remembers its last value. *)
Counting ==
  pass = "continuous" =>
    IF first_execution THEN Visited = 0
    ELSE /\ Kept >= 1
         /\ previous = data[to_preserve[Kept]]
         /\ \A d \in Value :
              repetitions[d] = Cardinality({k \in 1..Kept : data[to_preserve[k]] = d})

(* The second pass knows how often the values it has yet to visit are still to
   come, and has kept no value that is still to come or that it kept before. *)
Thinning(s) ==
  pass = "repeated" =>
    /\ \A l \in (Visited + 1)..size :
         repetitions[data[s[l]]] =
           Cardinality({m \in (Visited + 1)..size : data[s[m]] = data[s[l]]})
    /\ \A k, l \in 1..Kept : data[to_preserve[k]] = data[to_preserve[l]] => k = l
    /\ \A k \in 1..Kept, l \in (Visited + 1)..size : data[to_preserve[k]] # data[s[l]]

(* A process that runs has such a list; one that has stopped has stopped in a pass. *)
ListInv ==
  IF status = "running"
  THEN \E s \in [1..size -> Item] :
         /\ Linking(s) /\ Idle(s) /\ Counting /\ Thinning(s)
         /\ pass # "none" =>
              \E g \in [1..size -> 1..Len(Popped)], f \in [1..Kept -> 1..Len(Popped)] :
                Walking(s, g, f)
  ELSE status = "segfault" /\ pass # "none"

IInv == TypeOK /\ ListInv

-----------------------------------------------------------------------------
(* Between the cleanups *)

LEMMA KeptEmpty == Len(<<>>) = 0
OBVIOUS

(* Outside a cleanup the process runs and there is a list of items. *)
LEMMA IdleList ==
  ASSUME IInv, pass = "none"
  PROVE  /\ status = "running" /\ to_preserve = <<>> /\ deletions = 0 /\ i = Null
         /\ size \in Nat
         /\ \E s : IsList(s, head, tail, size, next, data, live)
<1>1. status = "running"
  BY DEF IInv, ListInv
<1>2. PICK s \in [1..size -> Item] : Linking(s) /\ Idle(s)
  BY <1>1 DEF IInv, ListInv
<1>3. to_preserve = <<>> /\ deletions = 0 /\ i = Null
  BY <1>2 DEF Idle
<1>4. size \in Nat
  BY ItemAssumption, FS_CardinalityType DEF IInv, TypeOK
<1>5. Kept = 0 /\ Visited = 0
  BY <1>3, KeptEmpty DEF Kept, Visited
<1>6. live = {s[l] : l \in 1..size}
  BY <1>2, <1>4, <1>5 DEF Linking
<1>7. \A l \in 1..size : next[s[l]] = IF l < size THEN s[l + 1] ELSE Null
  BY <1>2, <1>4, <1>5 DEF Linking
<1>8. \A l \in 1..size : data[s[l]] \in Value
  BY Zenon, <1>2, <1>6 DEF Linking
<1>9. IsList(s, head, tail, size, next, data, live)
  BY Zenon, <1>2, <1>6, <1>7, <1>8 DEF IsList, Linking, Idle
<1> QED
  BY <1>1, <1>3, <1>4, <1>9

(* A list no pass has visited is linked as the invariant wants it. *)
LEMMA Unvisited ==
  ASSUME NEW s, IsList(s, head, tail, size, next, data, live)', size' \in Nat,
         to_preserve' = <<>>, deletions' = 0
  PROVE  s \in [1..size' -> Item] /\ Linking(s)' /\ Kept' = 0 /\ Visited' = 0
<1>1. Kept' = 0 /\ Visited' = 0
  BY KeptEmpty DEF Kept, Visited
<1>2. /\ s \in [1..size' -> Item]
      /\ \A k, l \in 1..size' : s[k] = s[l] => k = l
      /\ \A l \in 1..size' : next'[s[l]] = IF l < size' THEN s[l + 1] ELSE Null
      /\ live' = {s[l] : l \in 1..size'}
      /\ \A l \in 1..size' : data'[s[l]] \in Value
  BY Zenon DEF IsList
<1>3. 1..0 = {} /\ 0 + 1 = 1 /\ 0 <= size'
  OBVIOUS
<1>4. \A x \in live' : data'[x] \in Value
  BY <1>2
<1>5. live' = {to_preserve'[k] : k \in 1..0} \cup {s[l] : l \in 1..size'}
  BY <1>2, <1>3
<1> QED
  BY Zenon, <1>1, <1>2, <1>3, <1>4, <1>5 DEF Linking

LEMMA IdleAgain ==
  ASSUME NEW s, IsList(s, head, tail, size, next, data, live)', size' \in Nat,
         pass' = "none", status' = "running",
         to_preserve' = <<>>, deletions' = 0, i' = Null
  PROVE  ListInv'
<1>1. s \in [1..size' -> Item] /\ Linking(s)' /\ Kept' = 0 /\ Visited' = 0
  BY Unvisited
<1>2. Idle(s)'
  BY Zenon DEF Idle, IsList
<1>3. Counting' /\ Thinning(s)'
  BY DEF Counting, Thinning
<1> QED
  BY Zenon, <1>1, <1>2, <1>3 DEF ListInv

(* TypeOK without the bound on size, which rests on the rest of the invariant. *)
Shape ==
  /\ head \in Item \cup {Null} /\ tail \in Item \cup {Null}
  /\ size \in Nat
  /\ next \in Links /\ data \in Contained
  /\ live \subseteq Item
  /\ pass \in {"none", "continuous", "repeated"}
  /\ i \in Item \cup {Null}
  /\ first_execution \in BOOLEAN
  /\ to_preserve \in Seq(Item)
  /\ deletions \in Nat
  /\ repetitions \in [Value -> Nat]
  /\ previous \in Value \cup {Null}
  /\ status \in {"running", "segfault", "assert_131", "assert_137", "assert_194",
                 "assert_211", "assert_339"}

LEMMA ShapeOfType == TypeOK => Shape
<1>1. 0..Cardinality(Item) \subseteq Nat
  BY ItemAssumption, FS_CardinalityType
<1> QED
  BY Zenon, <1>1 DEF TypeOK, Shape, Links, Contained

LEMMA TypeOfShape ==
  ASSUME IInv, Shape', ListInv', status' # "running" => size' = size
  PROVE  IInv'
<1>1. size' \in 0..Cardinality(Item)
  <2>1. CASE status' # "running"
    BY Zenon, <2>1 DEF IInv, TypeOK
  <2>2. CASE status' = "running"
    <3>1. PICK s \in [1..size' -> Item] : Linking(s)'
      BY Zenon, <2>2 DEF ListInv
    <3>2. \A k, l \in 1..size' : s[k] = s[l] => k = l
      BY Zenon, <3>1 DEF Linking
    <3> QED
      BY <3>2, SizeBound DEF Shape
  <2> QED
    BY <2>1, <2>2
<1> QED
  BY Zenon, <1>1 DEF IInv, TypeOK, Shape, Links, Contained

LEMMA LinkedIsChain ==
  Linked = Chain(head, next) /\ Linked' = Chain(head', next')
BY Zenon DEF Linked, Chain

LEMMA ValuesOfList ==
  ASSUME NEW n \in Nat, NEW s, NEW h, NEW t, NEW nx, NEW dt, NEW lv,
         IsList(s, h, t, n, nx, dt, lv)
  PROVE  /\ ListContents(s, n, dt) \in Seq(Value) /\ Len(ListContents(s, n, dt)) = n
         /\ \A k \in 1..n : ListContents(s, n, dt)[k] = dt[s[k]]
<1>1. \A l \in 1..n : dt[s[l]] \in Value
  BY Zenon DEF IsList
<1> QED
  BY <1>1 DEF ListContents

LEMMA ContentsNow ==
  ASSUME size \in Nat, NEW s, IsList(s, head, tail, size, next, data, live)
  PROVE  /\ Contents \in Seq(Value) /\ Len(Contents) = size
         /\ \A k \in 1..size : Contents[k] = data[s[k]]
<1>1. Contents = ChainContents(head, size, next, data)
  BY Zenon, LinkedIsChain DEF Contents, ChainContents
<1>2. Contents = ListContents(s, size, data)
  BY <1>1, ContentsOfList
<1> QED
  BY <1>2, ValuesOfList

LEMMA ContentsThen ==
  ASSUME size' \in Nat, NEW s, IsList(s, head, tail, size, next, data, live)'
  PROVE  /\ Contents' \in Seq(Value) /\ Len(Contents') = size'
         /\ \A k \in 1..size' : Contents'[k] = data'[s[k]]
<1>1. IsList(s, head', tail', size', next', data', live')
  BY Zenon DEF IsList
<1>2. Contents' = ChainContents(head', size', next', data')
  BY Zenon, LinkedIsChain DEF Contents, ChainContents
<1>3. Contents' = ListContents(s, size', data')
  BY <1>1, <1>2, ContentsOfList
<1> QED
  BY <1>1, <1>3, ValuesOfList

(* queue_push keeps the invariant and appends to the contents. *)
LEMMA PushStep ==
  ASSUME IInv, NEW d \in Value, Push(d)
  PROVE  IInv' /\ status' = "running" /\ Contents' = Append(Contents, d)
<1>0. Shape
  BY ShapeOfType DEF IInv
<1>1. /\ status = "running" /\ to_preserve = <<>> /\ deletions = 0 /\ i = Null
      /\ pass = "none" /\ size \in Nat
  BY Zenon, IdleList DEF Push
<1>2. PICK s : IsList(s, head, tail, size, next, data, live)
  BY Zenon, IdleList DEF Push
<1>3. PICK x \in Item \ live :
        /\ live' = live \cup {x}
        /\ data' = [data EXCEPT ![x] = d]
        /\ IF tail = Null
           THEN /\ head' = x
                /\ next' = [next EXCEPT ![x] = Null]
                /\ status' = IF head = Null THEN status ELSE "assert_194"
           ELSE /\ head' = head
                /\ next' = [next EXCEPT ![x] = Null, ![tail] = x]
                /\ status' = status
        /\ tail' = x
  BY Zenon DEF Push
<1>4. size' = size + 1 /\ pass' = pass /\ UNCHANGED loop /\ before' = before
  BY Zenon DEF Push
<1>5. next \in Links /\ data \in Contained
  BY Zenon, <1>0 DEF Shape
<1>6. /\ head' = IF tail = Null THEN x ELSE head
      /\ next' = IF tail = Null THEN [next EXCEPT ![x] = Null]
                                ELSE [next EXCEPT ![x] = Null, ![tail] = x]
  BY Zenon, <1>3
<1>a. Pushing(head, tail, next, data, live, d, x, head', next', data')
  BY Zenon, <1>3, <1>5, <1>6 DEF Pushing
<1>7. /\ tail = Null <=> size = 0
      /\ head = Null <=> size = 0
  BY Zenon, <1>1, <1>2, <1>a, PushList
<1>8. status' = "running"
  BY Zenon, <1>1, <1>3, <1>7
<1>b. Pushed(s, size, data, live, d, x, head', next', data')
  BY Zenon, <1>1, <1>2, <1>a, PushList
<1>9. PICK s2 :
        /\ IsList(s2, head', x, size + 1, next', data', live \cup {x})
        /\ \A k \in 1..size : data'[s2[k]] = data[s[k]]
        /\ data'[s2[size + 1]] = d
  BY Zenon, <1>b DEF Pushed
<1>10. IsList(s2, head', tail', size', next', data', live')
  BY Zenon, <1>3, <1>4, <1>9
<1>11. IsList(s2, head, tail, size, next, data, live)'
  BY Zenon, <1>10 DEF IsList
<1>12. size' \in Nat
  BY <1>1, <1>4
<1>13. ListInv'
  BY Zenon, <1>1, <1>4, <1>8, <1>11, <1>12, IdleAgain DEF loop
<1>14. Shape'
  <2>1. next' \in Links /\ data' \in Contained
    BY <1>3, <1>5 DEF Links, Contained
  <2>2. head' \in Item \cup {Null} /\ tail' \in Item \cup {Null} /\ live' \subseteq Item
    BY Zenon, <1>0, <1>3, <1>6 DEF Shape
  <2> QED
    BY Zenon, <1>0, <1>4, <1>8, <1>12, <2>1, <2>2 DEF Shape, loop
<1>15. Contents' = Append(Contents, d)
  <2>1. /\ Contents \in Seq(Value) /\ Len(Contents) = size
        /\ \A k \in 1..size : Contents[k] = data[s[k]]
    BY Zenon, <1>1, <1>2, ContentsNow
  <2>2. /\ Contents' \in Seq(Value) /\ Len(Contents') = size'
        /\ \A k \in 1..size' : Contents'[k] = data'[s2[k]]
    BY Zenon, <1>11, <1>12, ContentsThen
  <2> DEFINE C == Contents
             D == Contents'
             A == Append(C, d)
  <2>3. A \in Seq(Value) /\ Len(A) = size + 1 /\ A[size + 1] = d
        /\ \A k \in 1..size : A[k] = C[k]
    <3> HIDE DEF C
    <3> QED
      BY <2>1 DEF C
  <2>4. \A k \in 1..size' : D[k] = A[k]
    <3> SUFFICES ASSUME NEW k \in 1..size' PROVE D[k] = A[k]
      BY Zenon
    <3>1. D[k] = data'[s2[k]]
      BY <2>2, Zenon
    <3>2. k \in 1..size \/ k = size + 1
      BY <1>1, <1>4
    <3>3. k \in 1..size => data'[s2[k]] = C[k]
      BY Zenon, <1>3, <1>9, <2>1
    <3>4. k = size + 1 => data'[s2[k]] = d
      BY Zenon, <1>3, <1>9
    <3> HIDE DEF A, C, D
    <3> QED
      BY <3>1, <3>2, <3>3, <3>4, <2>3
  <2>5. D \in Seq(Value) /\ Len(D) = Len(A)
    BY Zenon, <2>2, <2>3, <1>4
  <2> HIDE DEF A, D
  <2>6. D = A
    BY <2>3, <2>4, <2>5, <1>4, SameSeq
  <2> QED
    BY <2>6 DEF A, D
<1> QED
  BY Zenon, <1>8, <1>13, <1>14, <1>15, TypeOfShape

(* PopHead on a sequence of values. *)
LEMMA PopHeadValues ==
  ASSUME NEW c \in Seq(Value)
  PROVE  /\ Abstract!PopHead(c) \in Seq(Value)
         /\ Len(c) = 0 => Abstract!PopHead(c) = c
         /\ Len(c) # 0 => /\ Len(Abstract!PopHead(c)) = Len(c) - 1
                          /\ \A k \in 1..(Len(c) - 1) : Abstract!PopHead(c)[k] = c[k + 1]
<1>1. CASE c = <<>>
  BY <1>1 DEF Abstract!PopHead
<1>2. CASE c # <<>>
  <2>1. Abstract!PopHead(c) = Tail(c)
    BY <1>2 DEF Abstract!PopHead
  <2>2. Len(c) # 0
    BY <1>2
  <2> QED
    BY <1>2, <2>1, <2>2, TailFacts
<1> QED
  BY <1>1, <1>2

(* What queue_pop leaves: a list with the contents but for the head. *)
LEMMA RemoveStep ==
  ASSUME IInv, pass = "none", RemoveHead
  PROVE  /\ status' = "running" /\ size' \in Nat
         /\ head' \in Item \cup {Null} /\ tail' \in Item \cup {Null}
         /\ next' \in Links /\ data' \in Contained /\ live' \subseteq Item
         /\ Contents \in Seq(Value)
         /\ Len(Abstract!PopHead(Contents)) = size'
         /\ \E s : /\ IsList(s, head, tail, size, next, data, live)'
                   /\ \A k \in 1..size' : data'[s[k]] = Abstract!PopHead(Contents)[k]
<1>0. Shape
  BY ShapeOfType DEF IInv
<1>1. status = "running" /\ size \in Nat
  BY Zenon, IdleList
<1>2. PICK s : IsList(s, head, tail, size, next, data, live)
  BY Zenon, IdleList
<1>3. next \in Links /\ data \in Contained
  BY Zenon, <1>0 DEF Shape
<1>4. /\ Contents \in Seq(Value) /\ Len(Contents) = size
      /\ \A k \in 1..size : Contents[k] = data[s[k]]
  BY Zenon, <1>1, <1>2, ContentsNow
<1>5. CASE size = 0
  <2>1. head = Null /\ tail = Null
    BY Zenon, <1>2, <1>5 DEF IsList
  <2>2. UNCHANGED list /\ status' = status
    BY Zenon, <2>1 DEF RemoveHead
  <2>3. IsList(s, head, tail, size, next, data, live)'
    BY Zenon, <1>2, <2>2 DEF IsList, list
  <2>4. Abstract!PopHead(Contents) = Contents
    BY Zenon, <1>4, <1>5, PopHeadValues
  <2>5. \A k \in 1..size' : data'[s[k]] = Abstract!PopHead(Contents)[k]
    BY Zenon, <1>4, <2>2, <2>4 DEF list
  <2> QED
    BY Zenon, <1>0, <1>1, <1>4, <2>2, <2>3, <2>4, <2>5 DEF Shape, list
<1>6. CASE size # 0
  <2>0. size \in Nat \ {0}
    BY <1>1, <1>6
  <2>1. head # Null
    BY <1>2, <1>1, <1>6, NullAssumption DEF IsList
  <2>2. /\ Removing(head, tail, next, data, live, head', tail', next', data', live')
        /\ size' = size - 1
        /\ status' = IF head = tail /\ next[head] # Null THEN "assert_131" ELSE status
    BY Zenon, <1>3, <2>1 DEF RemoveHead, Removing
  <2>3. /\ head \in Item /\ (head = tail => next[head] = Null)
        /\ Removed(s, size, data, head', tail', next', data', live')
    BY Zenon, <1>2, <2>0, <2>2, RemoveFromList
  <2>4. PICK s2 : /\ IsList(s2, head', tail', size - 1, next', data', live')
                  /\ \A k \in 1..(size - 1) : data'[s2[k]] = data[s[k + 1]]
    BY Zenon, <2>3 DEF Removed
  <2>5. IsList(s2, head, tail, size, next, data, live)'
    BY Zenon, <2>2, <2>4 DEF IsList
  <2>6. status' = "running"
    BY Zenon, <1>1, <2>2, <2>3
  <2>7. /\ head' \in Item \cup {Null} /\ tail' \in Item \cup {Null}
        /\ next' \in Links /\ data' \in Contained /\ live' \subseteq Item
    BY <1>0, <2>2, <2>3 DEF Shape, Removing, Links, Contained
  <2>8. size' \in Nat
    BY <2>0, <2>2
  <2> DEFINE P == Abstract!PopHead(Contents)
             C == Contents
  <2>9. Len(P) = size' /\ \A k \in 1..size' : P[k] = C[k + 1]
    BY Zenon, <1>4, <1>6, <2>2, PopHeadValues
  <2>10. \A k \in 1..size' : data'[s2[k]] = P[k]
    <3> TAKE k \in 1..size'
    <3>1. k + 1 \in 1..size
      BY <2>0, <2>2
    <3>2. C[k + 1] = data[s[k + 1]]
      BY Zenon, <1>4, <3>1
    <3> QED
      BY Zenon, <2>2, <2>4, <2>9, <3>2
  <2> QED
    BY Zenon, <1>4, <2>5, <2>6, <2>7, <2>8, <2>9, <2>10
<1> QED
  BY <1>5, <1>6

(* queue_pop keeps the invariant and drops the head of the contents. *)
LEMMA PopStep ==
  ASSUME IInv, Pop
  PROVE  IInv' /\ status' = "running" /\ Contents' = Abstract!PopHead(Contents)
<1>0. Shape
  BY ShapeOfType DEF IInv
<1>1. pass = "none" /\ RemoveHead /\ UNCHANGED <<pass, loop, before>>
  BY Zenon DEF Pop
<1>2. to_preserve = <<>> /\ deletions = 0 /\ i = Null
  BY Zenon, <1>1, IdleList
<1>3. /\ status' = "running" /\ size' \in Nat
      /\ head' \in Item \cup {Null} /\ tail' \in Item \cup {Null}
      /\ next' \in Links /\ data' \in Contained /\ live' \subseteq Item
      /\ Contents \in Seq(Value)
      /\ Len(Abstract!PopHead(Contents)) = size'
  BY Zenon, <1>1, RemoveStep
<1>4. PICK s : /\ IsList(s, head, tail, size, next, data, live)'
               /\ \A k \in 1..size' : data'[s[k]] = Abstract!PopHead(Contents)[k]
  BY Zenon, <1>1, RemoveStep
<1>5. ListInv'
  BY Zenon, <1>1, <1>2, <1>3, <1>4, IdleAgain DEF loop
<1>6. Shape'
  BY Zenon, <1>0, <1>1, <1>3 DEF Shape, loop
<1>7. Contents' = Abstract!PopHead(Contents)
  <2> DEFINE D == Contents'
             P == Abstract!PopHead(Contents)
  <2>1. D \in Seq(Value) /\ Len(D) = size' /\ \A k \in 1..size' : D[k] = data'[s[k]]
    BY Zenon, <1>3, <1>4, ContentsThen
  <2>2. P \in Seq(Value)
    BY Zenon, <1>3, PopHeadValues
  <2>3. Len(D) = Len(P) /\ \A k \in 1..Len(D) : D[k] = P[k]
    BY Zenon, <1>3, <1>4, <2>1
  <2>4. D \in Seq(Value)
    BY <2>1
  <2> HIDE DEF D, P
  <2>5. D = P
    BY <2>2, <2>3, <2>4, SameSeq
  <2> QED
    BY <2>5 DEF D, P
<1> QED
  BY Zenon, <1>3, <1>5, <1>6, <1>7, TypeOfShape

(* The first pass starts on the list queue_pop leaves. *)
LEMMA BeginStep ==
  ASSUME IInv, CleanupBegin
  PROVE  IInv' /\ pass' = "continuous" /\ before' = Contents
<1>0. Shape
  BY ShapeOfType DEF IInv
<1>1. /\ pass = "none" /\ RemoveHead /\ before' = Contents
      /\ pass' = "continuous" /\ i' = head'
      /\ first_execution' = TRUE /\ to_preserve' = <<>> /\ deletions' = 0
      /\ UNCHANGED <<repetitions, previous>>
  BY Zenon DEF CleanupBegin
<1>3. /\ status' = "running" /\ size' \in Nat
      /\ head' \in Item \cup {Null} /\ tail' \in Item \cup {Null}
      /\ next' \in Links /\ data' \in Contained /\ live' \subseteq Item
      /\ Contents \in Seq(Value)
      /\ Len(Abstract!PopHead(Contents)) = size'
  BY Zenon, <1>1, RemoveStep
<1>4. PICK s : /\ IsList(s, head, tail, size, next, data, live)'
               /\ \A k \in 1..size' : data'[s[k]] = Abstract!PopHead(Contents)[k]
  BY Zenon, <1>1, RemoveStep
<1>5. s \in [1..size' -> Item] /\ Linking(s)' /\ Kept' = 0 /\ Visited' = 0
  BY Zenon, <1>1, <1>3, <1>4, Unvisited
<1>6. Idle(s)' /\ Counting' /\ Thinning(s)'
  BY Zenon, <1>1, <1>5 DEF Idle, Counting, Thinning
<1>7. Popped' = Abstract!PopHead(Contents)
  BY Zenon, <1>1 DEF Popped, Abstract!PopHead
<1>a. PICK g : g = [k \in 1..size' |-> k]
  BY Zenon
<1>b. PICK f : f = [k \in 1..0 |-> 1]
  OBVIOUS
<1>8. g \in [1..size' -> 1..Len(Popped')] /\ f \in [1..Kept' -> 1..Len(Popped')]
  BY <1>a, <1>b, <1>3, <1>5, <1>7
<1>9. Walking(s, g, f)'
  <2>1. before' \in Seq(Value)
    BY Zenon, <1>1, <1>3
  <2>2. i' = IF Visited' < size' THEN s[Visited' + 1] ELSE Null
    <3>1. head' = IF size' = 0 THEN Null ELSE s[1]
      BY Zenon, <1>4 DEF IsList
    <3>2. (0 < size' <=> size' # 0) /\ 0 + 1 = 1
      BY <1>3
    <3> QED
      BY Zenon, <1>1, <1>5, <3>1, <3>2
  <2>3. \A k, l \in 1..size' : k < l => g[k] < g[l]
    BY <1>a
  <2>4. \A l \in (Visited' + 1)..size' : Popped'[g[l]] = data'[s[l]]
    <3>1. 0 + 1 = 1 /\ \A l \in 1..size' : g[l] = l
      BY <1>a
    <3> QED
      BY Zenon, <3>1, <1>4, <1>5, <1>7
  <2>5. \A k \in 1..Kept' : FALSE
    BY <1>5
  <2>6. \A p \in 1..Len(Popped') :
          \E l \in (Visited' + 1)..size' : g[l] >= p /\ Popped'[g[l]] = Popped'[p]
    <3> TAKE p \in 1..Len(Popped')
    <3>1. p \in (Visited' + 1)..size' /\ g[p] = p /\ p >= p
      BY <1>a, <1>3, <1>5, <1>7
    <3> QED
      BY Zenon, <3>1
  <2> QED
    BY Zenon, <2>1, <2>2, <2>3, <2>4, <2>5, <2>6 DEF Walking
<1>10. ListInv'
  BY Zenon, <1>3, <1>5, <1>6, <1>8, <1>9 DEF ListInv
<1>11. Shape'
  <2>1. to_preserve' \in Seq(Item) /\ deletions' \in Nat
    BY <1>1
  <2> QED
    BY Zenon, <1>0, <1>1, <1>3, <2>1 DEF Shape
<1> QED
  BY Zenon, <1>1, <1>3, <1>10, <1>11, TypeOfShape

-----------------------------------------------------------------------------
(* A pass over the list *)

(* The item a pass visits. *)
LEMMA VisitFacts ==
  ASSUME Shape, NEW s \in [1..size -> Item], Linking(s), i # Null,
         i = IF Visited < size THEN s[Visited + 1] ELSE Null
  PROVE  /\ Kept \in Nat /\ Visited \in Nat /\ size \in Nat /\ Kept <= Visited
         /\ Visited + 1 \in 1..size
         /\ i = s[Visited + 1] /\ i \in Item /\ i \in live /\ data[i] \in Value
         /\ \A k \in 1..Kept : to_preserve[k] # i /\ to_preserve[k] \in Item
         /\ \A l \in (Visited + 1 + 1)..size : s[l] # i
         /\ \A l \in (Visited + 1)..size : l \in 1..size /\ s[l] \in Item
         /\ next[i] = IF Visited + 1 < size THEN s[Visited + 1 + 1] ELSE Null
<1>1. size \in Nat /\ to_preserve \in Seq(Item) /\ deletions \in Nat
  BY Zenon DEF Shape
<1>2. Kept \in Nat /\ to_preserve \in [1..Kept -> Item]
  BY <1>1, SeqFacts DEF Kept
<1>3. Visited \in Nat /\ Kept <= Visited
  BY <1>1, <1>2 DEF Visited
<1>4. Visited < size /\ i = s[Visited + 1]
  BY Zenon
<1>5. Visited + 1 \in 1..size /\ Visited + 1 \in (Visited + 1)..size
  BY <1>1, <1>3, <1>4
<1>6. i \in Item
  BY <1>4, <1>5
<1>7. i \in live
  <2>1. {s[l] : l \in (Visited + 1)..size} \subseteq live
    BY Zenon DEF Linking
  <2> QED
    BY <1>4, <1>5, <2>1
<1>8. data[i] \in Value
  BY Zenon, <1>7 DEF Linking
<1>9. \A l \in (Visited + 1)..size : l \in 1..size /\ s[l] \in Item
  BY <1>1, <1>3
<1>10. \A k, l \in 1..size : s[k] = s[l] => k = l
  BY Zenon DEF Linking
<1>11. \A k \in 1..Kept : to_preserve[k] # i /\ to_preserve[k] \in Item
  <2> TAKE k \in 1..Kept
  <2>1. PICK l \in 1..Visited : to_preserve[k] = s[l]
    BY Zenon DEF Linking
  <2>2. l \in 1..size /\ l # Visited + 1
    BY <1>1, <1>3, <1>4
  <2> QED
    BY <1>2, <1>4, <1>5, <1>10, <2>1, <2>2
<1>12. \A l \in (Visited + 1 + 1)..size : s[l] # i
  <2> TAKE l \in (Visited + 1 + 1)..size
  <2>1. l \in 1..size /\ l # Visited + 1
    BY <1>1, <1>3
  <2> QED
    BY <1>4, <1>5, <1>10, <2>1
<1>13. next[i] = IF Visited + 1 < size THEN s[Visited + 1 + 1] ELSE Null
  BY Zenon, <1>4, <1>5 DEF Linking
<1> QED
  BY <1>1, <1>2, <1>3, <1>4, <1>5, <1>6, <1>7, <1>8, <1>9, <1>11, <1>12, <1>13

(* Keeping it. *)
LEMMA KeepLinking ==
  ASSUME Shape, NEW s \in [1..size -> Item], Linking(s), i # Null,
         i = IF Visited < size THEN s[Visited + 1] ELSE Null, KeepItem
  PROVE  /\ Kept' = Kept + 1 /\ Visited' = Visited + 1
         /\ size' = size /\ data' = data /\ deletions' = deletions
         /\ to_preserve' \in Seq(Item)
         /\ \A k \in 1..Kept : to_preserve'[k] = to_preserve[k]
         /\ to_preserve'[Kept + 1] = i
         /\ i' = IF Visited' < size' THEN s[Visited' + 1] ELSE Null
         /\ Linking(s)'
<1>1. /\ Kept \in Nat /\ Visited \in Nat /\ size \in Nat /\ Kept <= Visited
      /\ Visited + 1 \in 1..size
      /\ i = s[Visited + 1] /\ i \in Item /\ i \in live /\ data[i] \in Value
      /\ \A k \in 1..Kept : to_preserve[k] # i /\ to_preserve[k] \in Item
      /\ next[i] = IF Visited + 1 < size THEN s[Visited + 1 + 1] ELSE Null
  BY Zenon, VisitFacts
<1>2. /\ to_preserve' = Append(to_preserve, i) /\ i' = next[i]
      /\ UNCHANGED <<list, deletions, status>>
  BY Zenon DEF KeepItem
<1>3. UNCHANGED <<head, tail, size, next, data, live>>
  BY Zenon, <1>2 DEF list
<1>4. to_preserve \in Seq(Item) /\ deletions \in Nat
  BY Zenon DEF Shape
<1>5. /\ to_preserve' \in Seq(Item) /\ Len(to_preserve') = Len(to_preserve) + 1
      /\ \A k \in 1..Len(to_preserve) : to_preserve'[k] = to_preserve[k]
      /\ to_preserve'[Len(to_preserve) + 1] = i
  BY <1>1, <1>2, <1>4
<1>6. /\ Kept' = Kept + 1
      /\ \A k \in 1..Kept : to_preserve'[k] = to_preserve[k]
      /\ to_preserve'[Kept + 1] = i
  BY Zenon, <1>5 DEF Kept
<1>7. Visited' = Visited + 1
  BY <1>1, <1>2, <1>4, <1>6 DEF Visited
<1>8. i' = IF Visited' < size' THEN s[Visited' + 1] ELSE Null
  BY Zenon, <1>1, <1>2, <1>3, <1>7
<1>9. \A k, l \in 1..size' : s[k] = s[l] => k = l
  BY Zenon, <1>3 DEF Linking
<1>10. Visited' <= size'
  BY <1>1, <1>3, <1>7
<1>11. \A k \in 1..Kept' : k \in 1..Kept \/ k = Kept + 1
  BY <1>1, <1>6
<1>12. \A k \in 1..Kept' : \E l \in 1..Visited' : to_preserve'[k] = s[l]
  <2> TAKE k \in 1..Kept'
  <2>1. CASE k \in 1..Kept
    <3>1. PICK l \in 1..Visited : to_preserve[k] = s[l]
      BY Zenon, <2>1 DEF Linking
    <3>2. l \in 1..Visited'
      BY <1>1, <1>7
    <3> QED
      BY Zenon, <1>6, <2>1, <3>1, <3>2
  <2>2. CASE k = Kept + 1
    <3>1. Visited + 1 \in 1..Visited'
      BY <1>1, <1>7
    <3> QED
      BY Zenon, <1>1, <1>6, <2>2, <3>1
  <2> QED
    BY Zenon, <1>11, <2>1, <2>2
<1>13. \A k, l \in 1..Kept' : to_preserve'[k] = to_preserve'[l] => k = l
  <2> TAKE k, l \in 1..Kept'
  <2>1. \A m, o \in 1..Kept : to_preserve[m] = to_preserve[o] => m = o
    BY Zenon DEF Linking
  <2> QED
    BY Zenon, <1>1, <1>6, <1>11, <2>1
<1>14. \A l \in (Visited' + 1)..size' : l \in (Visited + 1)..size
  BY <1>1, <1>3, <1>7
<1>15. \A l \in (Visited' + 1)..size' : next'[s[l]] = IF l < size' THEN s[l + 1] ELSE Null
  BY Zenon, <1>3, <1>14 DEF Linking
<1>16. live' = {to_preserve'[k] : k \in 1..Kept'} \cup {s[l] : l \in (Visited' + 1)..size'}
  <2>1. live = {to_preserve[k] : k \in 1..Kept} \cup {s[l] : l \in (Visited + 1)..size}
    BY Zenon DEF Linking
  <2>2. \A l \in (Visited + 1)..size : l = Visited + 1 \/ l \in (Visited' + 1)..size'
    BY <1>1, <1>3, <1>7
  <2>3. Kept + 1 \in 1..Kept' /\ \A k \in 1..Kept : k \in 1..Kept'
    BY <1>1, <1>6
  <2>4. ASSUME NEW x \in live'
        PROVE  \/ \E k \in 1..Kept' : x = to_preserve'[k]
               \/ \E l \in (Visited' + 1)..size' : x = s[l]
    <3>1. CASE \E k \in 1..Kept : x = to_preserve[k]
      BY Zenon, <1>6, <2>3, <3>1
    <3>2. CASE \E l \in (Visited + 1)..size : x = s[l]
      BY Zenon, <1>1, <1>6, <2>2, <2>3, <3>2
    <3> QED
      BY Zenon, <1>3, <2>1, <3>1, <3>2
  <2>5. ASSUME NEW k \in 1..Kept' PROVE to_preserve'[k] \in live'
    BY Zenon, <1>1, <1>3, <1>6, <1>11, <2>1
  <2>6. ASSUME NEW l \in (Visited' + 1)..size' PROVE s[l] \in live'
    BY Zenon, <1>3, <1>14, <2>1
  <2> QED
    BY Zenon, <2>4, <2>5, <2>6
<1>17. \A x \in live' : data'[x] \in Value
  BY Zenon, <1>3 DEF Linking
<1>18. Linking(s)'
  BY Zenon, <1>9, <1>10, <1>12, <1>13, <1>15, <1>16, <1>17 DEF Linking
<1> QED
  BY Zenon, <1>2, <1>3, <1>5, <1>6, <1>7, <1>8, <1>18

(* Freeing it, when the link read from it is the old one. *)
LEMMA FreeLinking ==
  ASSUME Shape, NEW s \in [1..size -> Item], Linking(s), i # Null,
         i = IF Visited < size THEN s[Visited + 1] ELSE Null, FreeItem,
         status = "running", status' = "running"
  PROVE  /\ Kept' = Kept /\ Visited' = Visited + 1
         /\ size' = size /\ to_preserve' = to_preserve
         /\ next' \in Links /\ data' \in Contained /\ live' \subseteq Item
         /\ i' \in Item \cup {Null} /\ deletions' \in Nat
         /\ \A k \in 1..Kept : data'[to_preserve[k]] = data[to_preserve[k]]
         /\ \A l \in (Visited + 1 + 1)..size : data'[s[l]] = data[s[l]]
         /\ i' = IF Visited' < size' THEN s[Visited' + 1] ELSE Null
         /\ Linking(s)'
<1>1. /\ Kept \in Nat /\ Visited \in Nat /\ size \in Nat /\ Kept <= Visited
      /\ Visited + 1 \in 1..size
      /\ i = s[Visited + 1] /\ i \in Item /\ i \in live /\ data[i] \in Value
      /\ \A k \in 1..Kept : to_preserve[k] # i /\ to_preserve[k] \in Item
      /\ \A l \in (Visited + 1 + 1)..size : s[l] # i
      /\ \A l \in (Visited + 1)..size : l \in 1..size /\ s[l] \in Item
      /\ next[i] = IF Visited + 1 < size THEN s[Visited + 1 + 1] ELSE Null
  BY Zenon, VisitFacts
<1>2. /\ live' = live \ {i} /\ deletions' = deletions + 1
      /\ i' = next[i]
      /\ next' = [next EXCEPT ![i] = Null] /\ data' = [data EXCEPT ![i] = Null]
      /\ UNCHANGED <<head, tail, size, to_preserve>>
  <2>1. "running" # "segfault"
    OBVIOUS
  <2> QED
    BY Zenon, <2>1 DEF FreeItem
<1>3. /\ next \in [Item -> Item \cup {Null}] /\ data \in [Item -> Value \cup {Null}]
      /\ live \subseteq Item /\ deletions \in Nat
  BY Zenon DEF Shape, Links, Contained
<1>4. /\ \A x \in Item : x # i => next'[x] = next[x] /\ data'[x] = data[x]
      /\ next' \in Links /\ data' \in Contained
  BY <1>1, <1>2, <1>3 DEF Links, Contained
<1>5. Kept' = Kept
  BY Zenon, <1>2 DEF Kept
<1>6. Visited' = Visited + 1 /\ deletions' \in Nat
  BY <1>1, <1>2, <1>3, <1>5 DEF Visited
<1>7. i' = IF Visited' < size' THEN s[Visited' + 1] ELSE Null
  BY Zenon, <1>1, <1>2, <1>6
<1>8. i' \in Item \cup {Null}
  BY <1>1, <1>2, <1>3
<1>9. \A k \in 1..Kept : data'[to_preserve[k]] = data[to_preserve[k]]
  BY Zenon, <1>1, <1>4
<1>10. \A l \in (Visited + 1 + 1)..size : l \in (Visited + 1)..size
  BY <1>1
<1>11. \A l \in (Visited + 1 + 1)..size : data'[s[l]] = data[s[l]] /\ next'[s[l]] = next[s[l]]
  BY Zenon, <1>1, <1>4, <1>10
<1>12. \A k \in 1..Kept' : \E l \in 1..Visited' : to_preserve'[k] = s[l]
  <2> TAKE k \in 1..Kept'
  <2>1. PICK l \in 1..Visited : to_preserve[k] = s[l]
    BY Zenon, <1>5 DEF Linking
  <2>2. l \in 1..Visited'
    BY <1>1, <1>6
  <2> QED
    BY Zenon, <1>2, <2>1, <2>2
<1>13. Visited' <= size'
  BY <1>1, <1>2, <1>6
<1>14. \A l \in (Visited' + 1)..size' : next'[s[l]] = IF l < size' THEN s[l + 1] ELSE Null
  BY Zenon, <1>2, <1>6, <1>10, <1>11 DEF Linking
<1>15. live' = {to_preserve'[k] : k \in 1..Kept'} \cup {s[l] : l \in (Visited' + 1)..size'}
  <2>1. live = {to_preserve[k] : k \in 1..Kept} \cup {s[l] : l \in (Visited + 1)..size}
    BY Zenon DEF Linking
  <2>2. \A l \in (Visited + 1)..size : l = Visited + 1 \/ l \in (Visited + 1 + 1)..size
    BY <1>1
  <2>3. live \ {i} = {to_preserve[k] : k \in 1..Kept} \cup {s[l] : l \in (Visited + 1 + 1)..size}
    <3>1. ASSUME NEW x \in live, x # i
          PROVE  \/ \E k \in 1..Kept : x = to_preserve[k]
                 \/ \E l \in (Visited + 1 + 1)..size : x = s[l]
      BY Zenon, <1>1, <2>1, <2>2, <3>1
    <3>2. ASSUME NEW k \in 1..Kept PROVE to_preserve[k] \in live /\ to_preserve[k] # i
      <4>1. to_preserve[k] \in live
        BY Zenon, <2>1
      <4>2. to_preserve[k] # i
        BY Zenon, <1>1
      <4> QED
        BY Zenon, <4>1, <4>2
    <3>3. ASSUME NEW l \in (Visited + 1 + 1)..size PROVE s[l] \in live /\ s[l] # i
      BY Zenon, <1>1, <1>10, <2>1
    <3> QED
      BY ZenonT(40), <3>1, <3>2, <3>3
  <2> QED
    BY Zenon, <1>2, <1>5, <1>6, <2>3
<1>16. \A x \in live' : data'[x] \in Value
  <2> TAKE x \in live'
  <2>1. x \in live /\ x # i /\ x \in Item
    BY <1>2, <1>3
  <2> QED
    BY Zenon, <1>4, <2>1 DEF Linking
<1>17. /\ \A k, l \in 1..size' : s[k] = s[l] => k = l
       /\ \A k, l \in 1..Kept' : to_preserve'[k] = to_preserve'[l] => k = l
  BY Zenon, <1>2, <1>5 DEF Linking
<1>18. Linking(s)'
  BY Zenon, <1>12, <1>13, <1>14, <1>15, <1>16, <1>17 DEF Linking
<1>19. live' \subseteq Item
  BY <1>2, <1>3
<1> QED
  BY Zenon, <1>2, <1>4, <1>5, <1>6, <1>7, <1>8, <1>9, <1>11, <1>18, <1>19

(* A kept item takes over the position of what was popped. *)
LEMMA KeepWalking ==
  ASSUME Shape, NEW s \in [1..size -> Item], Linking(s), i # Null, KeepItem,
         NEW g \in [1..size -> 1..Len(Popped)], NEW f \in [1..Kept -> 1..Len(Popped)],
         Walking(s, g, f), before' = before
  PROVE  /\ g \in [1..size' -> 1..Len(Popped')]
         /\ \E f2 \in [1..Kept' -> 1..Len(Popped')] : Walking(s, g, f2)'
<1>0. i = IF Visited < size THEN s[Visited + 1] ELSE Null
  BY Zenon DEF Walking
<1>1. /\ Kept \in Nat /\ Visited \in Nat /\ size \in Nat /\ Kept <= Visited
      /\ Visited + 1 \in 1..size /\ i = s[Visited + 1]
  BY Zenon, <1>0, VisitFacts
<1>2. /\ Kept' = Kept + 1 /\ Visited' = Visited + 1
      /\ size' = size /\ data' = data
      /\ \A k \in 1..Kept : to_preserve'[k] = to_preserve[k]
      /\ to_preserve'[Kept + 1] = i
      /\ i' = IF Visited' < size' THEN s[Visited' + 1] ELSE Null
  BY Zenon, <1>0, KeepLinking
<1>3. Popped' = Popped
  BY Zenon DEF Popped, Abstract!PopHead
<1>4. PICK f2 : f2 = [k \in 1..(Kept + 1) |-> IF k <= Kept THEN f[k] ELSE g[Visited + 1]]
  BY Zenon
<1>5. /\ f2 \in [1..(Kept + 1) -> 1..Len(Popped)] /\ f2[Kept + 1] = g[Visited + 1]
      /\ \A k \in 1..Kept : f2[k] = f[k] /\ k \in 1..(Kept + 1)
  BY <1>1, <1>4
<1>6. \A k \in 1..(Kept + 1) : k \in 1..Kept \/ k = Kept + 1
  BY <1>1
<1>7. /\ Visited + 1 \in (Visited + 1)..size
      /\ \A l \in (Visited + 1 + 1)..size : /\ l \in (Visited + 1)..size /\ l \in 1..size
                                            /\ Visited + 1 < l
      /\ \A l \in (Visited + 1)..size : l = Visited + 1 \/ l \in (Visited + 1 + 1)..size
      /\ Kept + 1 \in 1..(Kept + 1)
  BY <1>1
<1>8. \A k, l \in 1..(Kept + 1) : k < l => f2[k] < f2[l]
  <2> TAKE k, l \in 1..(Kept + 1)
  <2> HAVE k < l
  <2>1. k \in 1..Kept
    BY <1>1
  <2>2. CASE l \in 1..Kept
    BY Zenon, <1>5, <2>1, <2>2 DEF Walking
  <2>3. CASE l = Kept + 1
    BY Zenon, <1>5, <1>7, <2>1, <2>3 DEF Walking
  <2> QED
    BY Zenon, <1>6, <2>2, <2>3
<1>9. \A k \in 1..(Kept + 1) : Popped[f2[k]] = data[to_preserve'[k]]
  <2> TAKE k \in 1..(Kept + 1)
  <2>1. CASE k \in 1..Kept
    BY Zenon, <1>2, <1>5, <2>1 DEF Walking
  <2>2. CASE k = Kept + 1
    <3>1. Popped[g[Visited + 1]] = data[s[Visited + 1]]
      BY Zenon, <1>7 DEF Walking
    <3> QED
      BY Zenon, <1>1, <1>2, <1>5, <2>2, <3>1
  <2> QED
    BY Zenon, <1>6, <2>1, <2>2
<1>10. \A k \in 1..(Kept + 1), l \in (Visited + 1 + 1)..size : f2[k] < g[l]
  <2> TAKE k \in 1..(Kept + 1), l \in (Visited + 1 + 1)..size
  <2>1. CASE k \in 1..Kept
    BY Zenon, <1>5, <1>7, <2>1 DEF Walking
  <2>2. CASE k = Kept + 1
    BY Zenon, <1>1, <1>5, <1>7, <2>2 DEF Walking
  <2> QED
    BY Zenon, <1>6, <2>1, <2>2
<1>11. \A p \in 1..Len(Popped) :
         \/ \E k \in 1..(Kept + 1) : f2[k] >= p /\ Popped[f2[k]] = Popped[p]
         \/ \E l \in (Visited + 1 + 1)..size : g[l] >= p /\ Popped[g[l]] = Popped[p]
  <2> TAKE p \in 1..Len(Popped)
  <2>1. CASE \E k \in 1..Kept : f[k] >= p /\ Popped[f[k]] = Popped[p]
    BY Zenon, <1>5, <2>1
  <2>2. CASE \E l \in (Visited + 1)..size : g[l] >= p /\ Popped[g[l]] = Popped[p]
    BY Zenon, <1>5, <1>7, <2>2
  <2> QED
    BY Zenon, <2>1, <2>2 DEF Walking
<1>12. \A l \in (Visited + 1 + 1)..size : Popped[g[l]] = data[s[l]]
  BY Zenon, <1>7 DEF Walking
<1>13. before' \in Seq(Value) /\ \A k, l \in 1..size : k < l => g[k] < g[l]
  BY Zenon DEF Walking
<1>14. Walking(s, g, f2)'
  BY Zenon, <1>2, <1>3, <1>8, <1>9, <1>10, <1>11, <1>12, <1>13 DEF Walking
<1>15. f2 \in [1..Kept' -> 1..Len(Popped')]
  BY Zenon, <1>2, <1>3, <1>5
<1> QED
  BY Zenon, <1>2, <1>3, <1>14, <1>15

(* The positions after an item is freed, given those of the items kept. *)
LEMMA FreeWalking ==
  ASSUME Shape, NEW s \in [1..size -> Item], Linking(s), i # Null, FreeItem,
         status = "running", status' = "running",
         NEW g \in [1..size -> 1..Len(Popped)], NEW f, Walking(s, g, f),
         before' = before,
         NEW f2 \in [1..Kept -> 1..Len(Popped)],
         \A k, l \in 1..Kept : k < l => f2[k] < f2[l],
         \A k \in 1..Kept : Popped[f2[k]] = data[to_preserve[k]],
         \A k \in 1..Kept, l \in (Visited + 1 + 1)..size : f2[k] < g[l],
         \A p \in 1..Len(Popped) :
           \/ \E k \in 1..Kept : f2[k] >= p /\ Popped[f2[k]] = Popped[p]
           \/ \E l \in (Visited + 1 + 1)..size : g[l] >= p /\ Popped[g[l]] = Popped[p]
  PROVE  /\ g \in [1..size' -> 1..Len(Popped')]
         /\ f2 \in [1..Kept' -> 1..Len(Popped')]
         /\ Walking(s, g, f2)'
<1>0. i = IF Visited < size THEN s[Visited + 1] ELSE Null
  BY Zenon DEF Walking
<1>1. Visited \in Nat /\ size \in Nat
  BY Zenon, <1>0, VisitFacts
<1>2. /\ Kept' = Kept /\ Visited' = Visited + 1
      /\ size' = size /\ to_preserve' = to_preserve
      /\ \A k \in 1..Kept : data'[to_preserve[k]] = data[to_preserve[k]]
      /\ \A l \in (Visited + 1 + 1)..size : data'[s[l]] = data[s[l]]
      /\ i' = IF Visited' < size' THEN s[Visited' + 1] ELSE Null
  BY Zenon, <1>0, FreeLinking
<1>3. Popped' = Popped
  BY Zenon DEF Popped, Abstract!PopHead
<1>4. \A l \in (Visited + 1 + 1)..size : l \in (Visited + 1)..size
  BY <1>1
<1>5. \A l \in (Visited' + 1)..size' : Popped'[g[l]] = data'[s[l]]
  BY Zenon, <1>2, <1>3, <1>4 DEF Walking
<1>6. \A k \in 1..Kept' : Popped'[f2[k]] = data'[to_preserve'[k]]
  BY Zenon, <1>2, <1>3
<1>7. before' \in Seq(Value) /\ \A k, l \in 1..size' : k < l => g[k] < g[l]
  BY Zenon, <1>2 DEF Walking
<1>a. \A k \in 1..Kept', l \in (Visited' + 1)..size' : f2[k] < g[l]
  BY Zenon, <1>2
<1>b. \A p \in 1..Len(Popped') :
        \/ \E k \in 1..Kept' : f2[k] >= p /\ Popped'[f2[k]] = Popped'[p]
        \/ \E l \in (Visited' + 1)..size' : g[l] >= p /\ Popped'[g[l]] = Popped'[p]
  BY ZenonT(40), <1>2, <1>3
<1>c. \A k, l \in 1..Kept' : k < l => f2[k] < f2[l]
  BY Zenon, <1>2
<1>8. Walking(s, g, f2)'
  BY Zenon, <1>2, <1>5, <1>6, <1>7, <1>a, <1>b, <1>c DEF Walking
<1> QED
  BY Zenon, <1>2, <1>3, <1>8

(* What ListInv says of a process in a pass. *)
LEMMA InPass ==
  ASSUME IInv, status = "running", pass # "none"
  PROVE  /\ Shape /\ Counting
         /\ \E s \in [1..size -> Item], g \in [1..size -> 1..Len(Popped)],
               f \in [1..Kept -> 1..Len(Popped)] :
              /\ Linking(s) /\ Thinning(s) /\ Walking(s, g, f)
              /\ i = IF Visited < size THEN s[Visited + 1] ELSE Null
<1>1. Shape
  BY ShapeOfType DEF IInv
<1>2. PICK s \in [1..size -> Item] :
         /\ Linking(s) /\ Counting /\ Thinning(s)
         /\ \E g \in [1..size -> 1..Len(Popped)], f \in [1..Kept -> 1..Len(Popped)] :
              Walking(s, g, f)
  BY Zenon DEF IInv, ListInv
<1>3. PICK g \in [1..size -> 1..Len(Popped)], f \in [1..Kept -> 1..Len(Popped)] :
        Walking(s, g, f)
  BY Zenon, <1>2
<1>4. i = IF Visited < size THEN s[Visited + 1] ELSE Null
  BY Zenon, <1>3 DEF Walking
<1> QED
  BY Zenon, <1>1, <1>2, <1>3, <1>4

LEMMA StillInPass ==
  ASSUME status' = "running", pass' # "none", NEW s \in [1..size' -> Item],
         NEW g \in [1..size' -> 1..Len(Popped')], NEW f \in [1..Kept' -> 1..Len(Popped')],
         Linking(s)', Counting', Thinning(s)', Walking(s, g, f)'
  PROVE  ListInv'
<1>1. Idle(s)'
  BY Zenon DEF Idle
<1> QED
  BY Zenon, <1>1 DEF ListInv

(* A process that frees an item and does not survive it. *)
LEMMA SegfaultStep ==
  ASSUME IInv, pass \in {"continuous", "repeated"}, status = "running", FreeItem,
         status' # "running", pass' = pass, previous' = previous,
         repetitions' \in [Value -> Nat]
  PROVE  IInv'
<1>0. Shape
  BY ShapeOfType DEF IInv
<1>1. /\ status' = "segfault" /\ UNCHANGED <<i, next, data>>
      /\ live' = live \ {i} /\ deletions' = deletions + 1 /\ first_execution' = FALSE
      /\ UNCHANGED <<head, tail, size, to_preserve>>
  BY Zenon DEF FreeItem
<1>2. live' \subseteq Item /\ deletions' \in Nat
  BY <1>0, <1>1 DEF Shape
<1>3. Shape'
  BY Zenon, <1>0, <1>1, <1>2 DEF Shape
<1>4. pass' # "none"
  OBVIOUS
<1>5. ListInv'
  BY Zenon, <1>1, <1>4 DEF ListInv
<1> QED
  BY Zenon, <1>1, <1>3, <1>5, TypeOfShape

(* Counting with one position more, with one less, and with just one. *)
LEMMA CountUpTo ==
  ASSUME NEW n \in Nat, NEW S, S \subseteq 1..n
  PROVE  /\ IsFiniteSet(S) /\ Cardinality(S) \in Nat
         /\ Cardinality(S \cup {n + 1}) = Cardinality(S) + 1
         /\ S # {} => Cardinality(S) >= 1
<1>1. IsFiniteSet(S)
  <2>1. IsFiniteSet(1..n)
    BY FS_Interval
  <2>2. S \in SUBSET (1..n)
    OBVIOUS
  <2> QED
    BY Zenon, <2>1, <2>2, FS_Subset
<1>2. n + 1 \notin S
  OBVIOUS
<1> QED
  BY <1>1, <1>2, FS_AddElement, FS_CardinalityType, FS_EmptySet

LEMMA CountWithout ==
  ASSUME NEW a \in Nat, NEW b \in Nat, NEW S, S \subseteq a..b, NEW x \in S
  PROVE  /\ IsFiniteSet(S) /\ Cardinality(S) \in Nat
         /\ Cardinality(S \ {x}) = Cardinality(S) - 1
         /\ Cardinality(S) > 1 <=> \E y \in S : y # x
<1>1. IsFiniteSet(S)
  <2>1. IsFiniteSet(a..b)
    BY FS_Interval
  <2>2. S \in SUBSET (a..b)
    OBVIOUS
  <2> QED
    BY Zenon, <2>1, <2>2, FS_Subset
<1>2. IsFiniteSet(S \ {x}) /\ Cardinality(S \ {x}) = Cardinality(S) - 1
  BY <1>1, FS_RemoveElement
<1>3. Cardinality(S) \in Nat /\ Cardinality(S \ {x}) \in Nat
  BY <1>1, <1>2, FS_CardinalityType
<1>4. Cardinality(S \ {x}) = 0 <=> S \ {x} = {}
  BY Zenon, <1>2, FS_EmptySet
<1> QED
  BY <1>1, <1>2, <1>3, <1>4

LEMMA VisitFirstStep ==
  ASSUME IInv, status = "running", VisitFirst
  PROVE  IInv'
<1>1. /\ pass = "continuous" /\ i # Null /\ first_execution
      /\ previous' = data[i]
      /\ repetitions' = [NoRepetitions EXCEPT ![data[i]] = 1]
      /\ KeepItem /\ UNCHANGED <<pass, before>>
  BY Zenon DEF VisitFirst
<1>2. Shape /\ Counting /\ pass # "none"
  BY Zenon, <1>1, InPass
<1>3. PICK s \in [1..size -> Item], g \in [1..size -> 1..Len(Popped)],
           f \in [1..Kept -> 1..Len(Popped)] :
        /\ Linking(s) /\ Thinning(s) /\ Walking(s, g, f)
        /\ i = IF Visited < size THEN s[Visited + 1] ELSE Null
  BY Zenon, <1>1, <1>2, InPass
<1>4. Kept \in Nat /\ Visited \in Nat /\ Kept <= Visited /\ data[i] \in Value /\ i \in Item
  BY Zenon, <1>1, <1>2, <1>3, VisitFacts
<1>5. Visited = 0
  BY Zenon, <1>1, <1>2 DEF Counting
<1>6. Kept = 0
  BY <1>4, <1>5
<1>7. /\ Kept' = Kept + 1 /\ size' = size /\ data' = data /\ deletions' = deletions
      /\ to_preserve' \in Seq(Item) /\ to_preserve'[Kept + 1] = i /\ Linking(s)'
      /\ i' = IF Visited' < size' THEN s[Visited' + 1] ELSE Null
  BY Zenon, <1>1, <1>2, <1>3, KeepLinking
<1>8. status' = status /\ first_execution' = FALSE /\ UNCHANGED list /\ i' = next[i]
  BY Zenon, <1>1 DEF KeepItem
<1>9. Kept' = 1 /\ to_preserve'[1] = i
  <2>1. 0 + 1 = 1
    OBVIOUS
  <2> QED
    BY Zenon, <2>1, <1>6, <1>7
<1>10. repetitions' \in [Value -> Nat]
       /\ \A d \in Value : repetitions'[d] = IF d = data[i] THEN 1 ELSE 0
  BY <1>1, <1>4 DEF NoRepetitions
<1>11. Counting'
  <2>1. \A d \in Value :
          repetitions'[d] = Cardinality({k \in 1..1 : data'[to_preserve'[k]] = d})
    <3> TAKE d \in Value
    <3> DEFINE S == {k \in 1..1 : data'[to_preserve'[k]] = d}
    <3>1. CASE d = data[i]
      <4>1. S = {1}
        BY <1>7, <1>9, <3>1
      <4> QED
        BY Zenon, <1>10, <3>1, <4>1, FS_Singleton
    <3>2. CASE d # data[i]
      <4>1. S = {}
        BY <1>7, <1>9, <3>2
      <4> QED
        BY Zenon, <1>10, <3>2, <4>1, FS_EmptySet
    <3> QED
      BY <3>1, <3>2
  <2>2. 1 >= 1
    OBVIOUS
  <2> QED
    BY Zenon, <1>1, <1>7, <1>8, <1>9, <2>1, <2>2 DEF Counting
<1>12. Thinning(s)'
  BY <1>1 DEF Thinning
<1>13. /\ g \in [1..size' -> 1..Len(Popped')]
       /\ \E f2 \in [1..Kept' -> 1..Len(Popped')] : Walking(s, g, f2)'
  BY Zenon, <1>1, <1>2, <1>3, KeepWalking
<1>14. ListInv'
  BY Zenon, <1>1, <1>2, <1>3, <1>7, <1>8, <1>11, <1>12, <1>13, StillInPass
<1>15. Shape'
  <2>1. i' \in Item \cup {Null}
    BY <1>2, <1>4, <1>8 DEF Shape, Links
  <2>2. previous' \in Value \cup {Null}
    BY <1>1, <1>4
  <2> QED
    BY Zenon, <1>1, <1>2, <1>7, <1>8, <1>10, <2>1, <2>2 DEF Shape, list
<1> QED
  BY Zenon, <1>8, <1>14, <1>15, TypeOfShape

LEMMA VisitOtherStep ==
  ASSUME IInv, status = "running", VisitOther
  PROVE  IInv'
<1>1. /\ pass = "continuous" /\ i # Null /\ ~first_execution
      /\ repetitions' = [repetitions EXCEPT ![data[i]] = @ + 1]
      /\ previous' = data[i]
      /\ KeepItem /\ UNCHANGED <<pass, before>>
  BY Zenon DEF VisitOther
<1>2. Shape /\ Counting /\ pass # "none"
  BY Zenon, <1>1, InPass
<1>3. PICK s \in [1..size -> Item], g \in [1..size -> 1..Len(Popped)],
           f \in [1..Kept -> 1..Len(Popped)] :
        /\ Linking(s) /\ Thinning(s) /\ Walking(s, g, f)
        /\ i = IF Visited < size THEN s[Visited + 1] ELSE Null
  BY Zenon, <1>1, <1>2, InPass
<1>4. Kept \in Nat /\ data[i] \in Value /\ i \in Item
  BY Zenon, <1>1, <1>2, <1>3, VisitFacts
<1>7. /\ Kept' = Kept + 1 /\ size' = size /\ data' = data /\ deletions' = deletions
      /\ to_preserve' \in Seq(Item) /\ to_preserve'[Kept + 1] = i /\ Linking(s)'
      /\ \A k \in 1..Kept : to_preserve'[k] = to_preserve[k]
      /\ i' = IF Visited' < size' THEN s[Visited' + 1] ELSE Null
  BY Zenon, <1>1, <1>2, <1>3, KeepLinking
<1>8. status' = status /\ first_execution' = FALSE /\ UNCHANGED list /\ i' = next[i]
  BY Zenon, <1>1 DEF KeepItem
<1>10. /\ repetitions' \in [Value -> Nat]
       /\ \A d \in Value :
            repetitions'[d] = IF d = data[i] THEN repetitions[d] + 1 ELSE repetitions[d]
  BY <1>1, <1>2, <1>4 DEF Shape
<1>11. Counting'
  <2>1. \A d \in Value :
          repetitions'[d] = Cardinality({k \in 1..Kept' : data'[to_preserve'[k]] = d})
    <3> TAKE d \in Value
    <3> DEFINE S == {k \in 1..Kept : data[to_preserve[k]] = d}
               T == {k \in 1..Kept' : data'[to_preserve'[k]] = d}
    <3>0. repetitions[d] = Cardinality(S)
      BY Zenon, <1>1, <1>2 DEF Counting
    <3>a. \A k \in 1..Kept' : k \in 1..Kept \/ k = Kept + 1
      BY <1>4, <1>7
    <3>b. Kept + 1 \in 1..Kept' /\ \A k \in 1..Kept : k \in 1..Kept'
      BY <1>4, <1>7
    <3>1. CASE d = data[i]
      <4>1. T = S \cup {Kept + 1}
        BY Zenon, <1>7, <3>1, <3>a, <3>b
      <4>2. Cardinality(S \cup {Kept + 1}) = Cardinality(S) + 1
        <5>1. S \subseteq 1..Kept
          OBVIOUS
        <5> HIDE DEF S
        <5> QED
          BY Zenon, <1>4, <5>1, CountUpTo
      <4> HIDE DEF S, T
      <4>3. Cardinality(T) = repetitions'[d]
        BY Zenon, <1>10, <3>0, <3>1, <4>1, <4>2
      <4> QED
        BY <4>3 DEF T
    <3>2. CASE d # data[i]
      <4>1. T = S
        BY Zenon, <1>7, <3>2, <3>a, <3>b
      <4> HIDE DEF S, T
      <4>3. Cardinality(T) = repetitions'[d]
        BY Zenon, <1>10, <3>0, <3>2, <4>1
      <4> QED
        BY <4>3 DEF T
    <3> QED
      BY <3>1, <3>2
  <2>2. Kept' >= 1
    BY <1>4, <1>7
  <2>3. previous' = data'[to_preserve'[Kept']]
    BY Zenon, <1>1, <1>7
  <2> QED
    BY Zenon, <1>1, <1>8, <2>1, <2>2, <2>3 DEF Counting
<1>12. Thinning(s)'
  BY <1>1 DEF Thinning
<1>13. /\ g \in [1..size' -> 1..Len(Popped')]
       /\ \E f2 \in [1..Kept' -> 1..Len(Popped')] : Walking(s, g, f2)'
  BY Zenon, <1>1, <1>2, <1>3, KeepWalking
<1>14. ListInv'
  BY Zenon, <1>1, <1>2, <1>3, <1>7, <1>8, <1>11, <1>12, <1>13, StillInPass
<1>15. Shape'
  <2>1. i' \in Item \cup {Null}
    BY <1>2, <1>4, <1>8 DEF Shape, Links
  <2>2. previous' \in Value \cup {Null}
    BY <1>1, <1>4
  <2> QED
    BY Zenon, <1>1, <1>2, <1>7, <1>8, <1>10, <2>1, <2>2 DEF Shape, list
<1> QED
  BY Zenon, <1>8, <1>14, <1>15, TypeOfShape

(* The item equals the one kept before it: that one counts, so the assertion of
   queue_delete_continuous_nodes holds, and the item goes. *)
LEMMA VisitContinuousStep ==
  ASSUME IInv, status = "running", VisitContinuous
  PROVE  IInv'
<1>1. /\ pass = "continuous" /\ i # Null /\ ~first_execution
      /\ previous = data[i]
      /\ UNCHANGED <<pass, repetitions, previous, before>>
      /\ repetitions[data[i]] + 1 > 1 => FreeItem
  BY Zenon DEF VisitContinuous
<1>2. Shape /\ Counting /\ pass # "none"
  BY Zenon, <1>1, InPass
<1>3. PICK s \in [1..size -> Item], g \in [1..size -> 1..Len(Popped)],
           f \in [1..Kept -> 1..Len(Popped)] :
        /\ Linking(s) /\ Thinning(s) /\ Walking(s, g, f)
        /\ i = IF Visited < size THEN s[Visited + 1] ELSE Null
  BY Zenon, <1>1, <1>2, InPass
<1>4. /\ Kept \in Nat /\ Visited \in Nat /\ size \in Nat /\ Visited + 1 \in 1..size
      /\ data[i] \in Value /\ i \in Item /\ i = s[Visited + 1]
  BY Zenon, <1>1, <1>2, <1>3, VisitFacts
<1>5. /\ Kept >= 1 /\ previous = data[to_preserve[Kept]]
      /\ \A d \in Value :
           repetitions[d] = Cardinality({k \in 1..Kept : data[to_preserve[k]] = d})
  BY Zenon, <1>1, <1>2 DEF Counting
<1>6. FreeItem
  <2> DEFINE S == {k \in 1..Kept : data[to_preserve[k]] = data[i]}
  <2>1. Kept \in S /\ S \subseteq 1..Kept
    BY <1>1, <1>4, <1>5
  <2>2. repetitions[data[i]] = Cardinality(S)
    BY Zenon, <1>4, <1>5
  <2> HIDE DEF S
  <2>3. Cardinality(S) \in Nat /\ Cardinality(S) >= 1
    BY Zenon, <1>4, <2>1, CountUpTo
  <2>4. repetitions[data[i]] + 1 > 1
    BY <2>2, <2>3
  <2> QED
    BY Zenon, <1>1, <2>4
<1>7. CASE status' # "running"
  <2>1. pass \in {"continuous", "repeated"} /\ repetitions' \in [Value -> Nat]
    BY Zenon, <1>1, <1>2 DEF Shape
  <2> QED
    BY Zenon, <1>1, <1>6, <1>7, <2>1, SegfaultStep
<1>8. CASE status' = "running"
  <2>1. /\ Kept' = Kept /\ size' = size /\ to_preserve' = to_preserve
        /\ next' \in Links /\ data' \in Contained /\ live' \subseteq Item
        /\ i' \in Item \cup {Null} /\ deletions' \in Nat
        /\ \A k \in 1..Kept : data'[to_preserve[k]] = data[to_preserve[k]]
        /\ Linking(s)'
    BY Zenon, <1>1, <1>2, <1>3, <1>6, <1>8, FreeLinking
  <2>2. first_execution' = FALSE /\ UNCHANGED <<head, tail>>
    BY Zenon, <1>6 DEF FreeItem
  <2>3. Kept \in 1..Kept
    BY <1>4, <1>5
  <2>4. \A d \in Value : {k \in 1..Kept : data'[to_preserve[k]] = d}
                           = {k \in 1..Kept : data[to_preserve[k]] = d}
    BY Zenon, <2>1
  <2>5. Counting'
    <3>1. \A d \in Value :
            repetitions'[d] = Cardinality({k \in 1..Kept' : data'[to_preserve'[k]] = d})
      BY Zenon, <1>1, <1>5, <2>1, <2>4
    <3>2. Kept' >= 1 /\ previous' = data'[to_preserve'[Kept']]
      BY Zenon, <1>1, <1>5, <2>1, <2>3
    <3> QED
      BY Zenon, <2>2, <3>1, <3>2 DEF Counting
  <2>6. Thinning(s)'
    BY <1>1 DEF Thinning
  <2>7. PICK f2 : f2 = [f EXCEPT ![Kept] = g[Visited + 1]]
    BY Zenon
  <2>8. /\ f2 \in [1..Kept -> 1..Len(Popped)] /\ f2[Kept] = g[Visited + 1]
        /\ \A k \in 1..Kept : k # Kept => f2[k] = f[k]
    BY <1>4, <2>3, <2>7
  <2>9. /\ Visited + 1 \in (Visited + 1)..size
        /\ \A l \in (Visited + 1 + 1)..size : /\ l \in (Visited + 1)..size /\ l \in 1..size
                                              /\ Visited + 1 < l
        /\ \A l \in (Visited + 1)..size : l = Visited + 1 \/ l \in (Visited + 1 + 1)..size
    BY <1>4
  <2>10. Popped[g[Visited + 1]] = data[i] /\ Popped[f[Kept]] = data[i]
    <3>1. Popped[g[Visited + 1]] = data[s[Visited + 1]]
      BY Zenon, <1>3, <2>9 DEF Walking
    <3>2. Popped[f[Kept]] = data[to_preserve[Kept]]
      BY Zenon, <1>3, <2>3 DEF Walking
    <3> QED
      BY Zenon, <1>1, <1>4, <1>5, <3>1, <3>2
  <2>11. f[Kept] < g[Visited + 1]
    BY Zenon, <1>3, <2>3, <2>9 DEF Walking
  <2>12. \A k, l \in 1..Kept : k < l => f2[k] < f2[l]
    <3> TAKE k, l \in 1..Kept
    <3> HAVE k < l
    <3>1. k # Kept
      BY <1>4
    <3>2. CASE l = Kept
      BY Zenon, <1>3, <2>8, <2>9, <3>1, <3>2 DEF Walking
    <3>3. CASE l # Kept
      BY Zenon, <1>3, <2>8, <3>1, <3>3 DEF Walking
    <3> QED
      BY <3>2, <3>3
  <2>13. \A k \in 1..Kept : Popped[f2[k]] = data[to_preserve[k]]
    <3> TAKE k \in 1..Kept
    <3>1. CASE k = Kept
      BY Zenon, <1>1, <1>5, <2>8, <2>10, <3>1
    <3>2. CASE k # Kept
      BY Zenon, <1>3, <2>8, <3>2 DEF Walking
    <3> QED
      BY <3>1, <3>2
  <2>14. \A k \in 1..Kept, l \in (Visited + 1 + 1)..size : f2[k] < g[l]
    <3> TAKE k \in 1..Kept, l \in (Visited + 1 + 1)..size
    <3>1. CASE k = Kept
      BY Zenon, <1>3, <1>4, <2>8, <2>9, <3>1 DEF Walking
    <3>2. CASE k # Kept
      BY Zenon, <1>3, <2>8, <2>9, <3>2 DEF Walking
    <3> QED
      BY <3>1, <3>2
  <2>15. \A p \in 1..Len(Popped) :
           \/ \E k \in 1..Kept : f2[k] >= p /\ Popped[f2[k]] = Popped[p]
           \/ \E l \in (Visited + 1 + 1)..size : g[l] >= p /\ Popped[g[l]] = Popped[p]
    <3> TAKE p \in 1..Len(Popped)
    <3>1. CASE \E k \in 1..Kept : f[k] >= p /\ Popped[f[k]] = Popped[p]
      <4>1. PICK k \in 1..Kept : f[k] >= p /\ Popped[f[k]] = Popped[p]
        BY Zenon, <3>1
      <4>2. CASE k = Kept
        <5>1. p \in Int /\ f[Kept] \in Int /\ g[Visited + 1] \in Int
          BY <1>4, <2>3
        <5>2. g[Visited + 1] >= p
          BY <2>11, <4>1, <4>2, <5>1
        <5> QED
          BY Zenon, <2>3, <2>8, <2>10, <4>1, <4>2, <5>2
      <4>3. CASE k # Kept
        BY Zenon, <2>8, <4>1, <4>3
      <4> QED
        BY <4>2, <4>3
    <3>2. CASE \E l \in (Visited + 1)..size : g[l] >= p /\ Popped[g[l]] = Popped[p]
      BY Zenon, <2>3, <2>8, <2>9, <3>2
    <3> QED
      BY Zenon, <1>3, <3>1, <3>2 DEF Walking
  <2>16. /\ g \in [1..size' -> 1..Len(Popped')]
         /\ f2 \in [1..Kept' -> 1..Len(Popped')]
         /\ Walking(s, g, f2)'
    BY Zenon, <1>1, <1>2, <1>3, <1>6, <1>8, <2>8, <2>12, <2>13, <2>14, <2>15, FreeWalking
  <2>17. ListInv'
    BY Zenon, <1>1, <1>2, <1>3, <1>8, <2>1, <2>5, <2>6, <2>16, StillInPass
  <2>18. Shape'
    BY Zenon, <1>1, <1>2, <1>8, <2>1, <2>2 DEF Shape
  <2> QED
    BY Zenon, <1>8, <2>17, <2>18, TypeOfShape
<1> QED
  BY <1>7, <1>8

(* What Thinning says of the places R still to be visited and the places K kept. *)
Thinned(R, K, p, dt, rp, s) ==
  /\ \A l \in R : rp[dt[s[l]]] = Cardinality({m \in R : dt[s[m]] = dt[s[l]]})
  /\ \A k, l \in K : dt[p[k]] = dt[p[l]] => k = l
  /\ \A k \in K, l \in R : dt[p[k]] # dt[s[l]]

LEMMA ThinnedNext ==
  ASSUME NEW s, NEW R, NEW K, R = ((Visited + 1)..size)', K = (1..Kept)',
         Thinned(R, K, to_preserve', data', repetitions', s)
  PROVE  Thinning(s)'
<1>1. Thinned(((Visited + 1)..size)', (1..Kept)', to_preserve', data', repetitions', s)
  BY Zenon
<1> QED
  BY Zenon, <1>1 DEF Thinning, Thinned

(* The second pass keeps an item whose value does not come again. *)
LEMMA VisitRepeatedKeep ==
  ASSUME IInv, status = "running", VisitRepeated, ~(repetitions[data[i]] > 1)
  PROVE  IInv'
<1>1. /\ pass = "repeated" /\ i # Null /\ KeepItem
      /\ UNCHANGED <<pass, repetitions, previous, before>>
  BY Zenon DEF VisitRepeated
<1>2. Shape /\ pass # "none"
  BY Zenon, <1>1, InPass
<1>3. PICK s \in [1..size -> Item], g \in [1..size -> 1..Len(Popped)],
           f \in [1..Kept -> 1..Len(Popped)] :
        /\ Linking(s) /\ Thinning(s) /\ Walking(s, g, f)
        /\ i = IF Visited < size THEN s[Visited + 1] ELSE Null
  BY Zenon, <1>1, <1>2, InPass
<1>4. /\ Kept \in Nat /\ Visited \in Nat /\ size \in Nat /\ Visited + 1 \in 1..size
      /\ data[i] \in Value /\ i \in Item /\ i = s[Visited + 1]
  BY Zenon, <1>1, <1>2, <1>3, VisitFacts
<1>5. /\ \A l \in (Visited + 1)..size :
           repetitions[data[s[l]]] =
             Cardinality({m \in (Visited + 1)..size : data[s[m]] = data[s[l]]})
      /\ \A k, l \in 1..Kept : data[to_preserve[k]] = data[to_preserve[l]] => k = l
      /\ \A k \in 1..Kept, l \in (Visited + 1)..size : data[to_preserve[k]] # data[s[l]]
  BY Zenon, <1>1, <1>3 DEF Thinning
<1>6. /\ Visited + 1 \in (Visited + 1)..size
      /\ \A l \in (Visited + 1 + 1)..size : l \in (Visited + 1)..size /\ l # Visited + 1
      /\ \A l \in (Visited + 1)..size : l = Visited + 1 \/ l \in (Visited + 1 + 1)..size
  BY <1>4
<1>7. /\ Kept' = Kept + 1 /\ Visited' = Visited + 1
      /\ size' = size /\ data' = data /\ deletions' = deletions
      /\ to_preserve' \in Seq(Item) /\ to_preserve'[Kept + 1] = i /\ Linking(s)'
      /\ \A k \in 1..Kept : to_preserve'[k] = to_preserve[k]
  BY Zenon, <1>1, <1>2, <1>3, KeepLinking
<1>8. status' = status /\ first_execution' = FALSE /\ UNCHANGED list /\ i' = next[i]
  BY Zenon, <1>1 DEF KeepItem
<1>9. \A l \in (Visited + 1 + 1)..size : data[s[l]] # data[i]
  <2> DEFINE S == {m \in (Visited + 1)..size : data[s[m]] = data[i]}
  <2>1. repetitions[data[i]] = Cardinality(S) /\ Visited + 1 \in S
    BY Zenon, <1>4, <1>5, <1>6
  <2>2. S \subseteq (Visited + 1)..size
    OBVIOUS
  <2>3. Visited + 1 \in Nat
    BY <1>4
  <2>4. Cardinality(S) > 1 <=> \E y \in S : y # Visited + 1
    <3> HIDE DEF S
    <3> QED
      BY Zenon, <1>4, <2>1, <2>2, <2>3, CountWithout
  <2>5. \A y \in S : y = Visited + 1
    BY Zenon, <2>1, <2>4
  <2> QED
    BY Zenon, <1>6, <2>5
<1>10. Thinning(s)'
  <2>1. \A l \in (Visited + 1 + 1)..size :
          repetitions[data[s[l]]] =
            Cardinality({m \in (Visited + 1 + 1)..size : data[s[m]] = data[s[l]]})
    <3> TAKE l \in (Visited + 1 + 1)..size
    <3>1. {m \in (Visited + 1 + 1)..size : data[s[m]] = data[s[l]]}
            = {m \in (Visited + 1)..size : data[s[m]] = data[s[l]]}
      BY Zenon, <1>4, <1>6, <1>9
    <3> QED
      BY Zenon, <1>5, <1>6, <3>1
  <2>2. \A k \in 1..Kept' : k \in 1..Kept \/ k = Kept + 1
    BY <1>4, <1>7
  <2>3. \A k \in 1..Kept : data'[to_preserve'[k]] = data[to_preserve[k]]
    BY Zenon, <1>7
  <2>4. data'[to_preserve'[Kept + 1]] = data[i]
    BY Zenon, <1>7
  <2>5. \A k \in 1..Kept : data[to_preserve[k]] # data[i]
    BY Zenon, <1>4, <1>5, <1>6
  <2>6. \A k, l \in 1..Kept' : data'[to_preserve'[k]] = data'[to_preserve'[l]] => k = l
    <3> TAKE k, l \in 1..Kept'
    <3>1. CASE k \in 1..Kept /\ l \in 1..Kept
      BY Zenon, <1>5, <2>3, <3>1
    <3>2. CASE k \in 1..Kept /\ l = Kept + 1
      BY Zenon, <2>3, <2>4, <2>5, <3>2
    <3>3. CASE k = Kept + 1 /\ l \in 1..Kept
      BY Zenon, <2>3, <2>4, <2>5, <3>3
    <3>4. CASE k = Kept + 1 /\ l = Kept + 1
      BY Zenon, <3>4
    <3> QED
      BY Zenon, <2>2, <3>1, <3>2, <3>3, <3>4
  <2>7. \A k \in 1..Kept', l \in (Visited + 1 + 1)..size :
          data'[to_preserve'[k]] # data[s[l]]
    <3> TAKE k \in 1..Kept', l \in (Visited + 1 + 1)..size
    <3>1. CASE k \in 1..Kept
      <4>1. data[to_preserve[k]] # data[s[l]]
        BY Zenon, <1>5, <1>6, <3>1
      <4> QED
        BY Zenon, <2>3, <3>1, <4>1
    <3>2. CASE k = Kept + 1
      BY Zenon, <1>9, <2>4, <3>2
    <3> QED
      BY Zenon, <2>2, <3>1, <3>2
  <2>8. /\ (1..Kept)' = 1..Kept' /\ ((Visited + 1)..size)' = (Visited + 1 + 1)..size
        /\ data' = data /\ repetitions' = repetitions
    BY Zenon, <1>1, <1>7
  <2>9. Thinned((Visited + 1 + 1)..size, 1..Kept', to_preserve', data, repetitions, s)
    <3>1. \A k, l \in 1..Kept' : data[to_preserve'[k]] = data[to_preserve'[l]] => k = l
      BY Zenon, <2>6, <2>8
    <3>2. \A k \in 1..Kept', l \in (Visited + 1 + 1)..size :
            data[to_preserve'[k]] # data[s[l]]
      BY Zenon, <2>7, <2>8
    <3> QED
      BY Zenon, <2>1, <3>1, <3>2 DEF Thinned
  <2>10. Thinned((Visited + 1 + 1)..size, 1..Kept', to_preserve', data', repetitions', s)
    BY Zenon, <2>8, <2>9
  <2> QED
    BY Zenon, <2>8, <2>10, ThinnedNext
<1>11. Counting'
  BY <1>1 DEF Counting
<1>13. /\ g \in [1..size' -> 1..Len(Popped')]
       /\ \E f2 \in [1..Kept' -> 1..Len(Popped')] : Walking(s, g, f2)'
  BY Zenon, <1>1, <1>2, <1>3, KeepWalking
<1>14. ListInv'
  BY Zenon, <1>1, <1>2, <1>3, <1>7, <1>8, <1>10, <1>11, <1>13, StillInPass
<1>15. Shape'
  <2>1. i' \in Item \cup {Null}
    BY <1>2, <1>4, <1>8 DEF Shape, Links
  <2> QED
    BY Zenon, <1>1, <1>2, <1>7, <1>8, <2>1 DEF Shape, list
<1> QED
  BY Zenon, <1>8, <1>14, <1>15, TypeOfShape

(* It frees an item whose value does, and counts it off. *)
LEMMA VisitRepeatedFree ==
  ASSUME IInv, status = "running", VisitRepeated, repetitions[data[i]] > 1
  PROVE  IInv'
<1>1. /\ pass = "repeated" /\ i # Null /\ FreeItem
      /\ repetitions' = [repetitions EXCEPT ![data[i]] = @ - 1]
      /\ UNCHANGED <<pass, previous, before>>
  BY Zenon DEF VisitRepeated
<1>2. Shape /\ pass # "none"
  BY Zenon, <1>1, InPass
<1>3. PICK s \in [1..size -> Item], g \in [1..size -> 1..Len(Popped)],
           f \in [1..Kept -> 1..Len(Popped)] :
        /\ Linking(s) /\ Thinning(s) /\ Walking(s, g, f)
        /\ i = IF Visited < size THEN s[Visited + 1] ELSE Null
  BY Zenon, <1>1, <1>2, InPass
<1>4. /\ Kept \in Nat /\ Visited \in Nat /\ size \in Nat /\ Visited + 1 \in 1..size
      /\ data[i] \in Value /\ i \in Item /\ i \in live /\ i = s[Visited + 1]
  BY Zenon, <1>1, <1>2, <1>3, VisitFacts
<1>5. /\ \A l \in (Visited + 1)..size :
           repetitions[data[s[l]]] =
             Cardinality({m \in (Visited + 1)..size : data[s[m]] = data[s[l]]})
      /\ \A k, l \in 1..Kept : data[to_preserve[k]] = data[to_preserve[l]] => k = l
      /\ \A k \in 1..Kept, l \in (Visited + 1)..size : data[to_preserve[k]] # data[s[l]]
  BY Zenon, <1>1, <1>3 DEF Thinning
<1>6. /\ Visited + 1 \in (Visited + 1)..size /\ Visited + 1 \in Nat
      /\ \A l \in (Visited + 1 + 1)..size : /\ l \in (Visited + 1)..size /\ l # Visited + 1
                                            /\ l \in 1..size /\ Visited + 1 < l
      /\ \A l \in (Visited + 1)..size : l = Visited + 1 \/ l \in (Visited + 1 + 1)..size
  BY <1>4
<1>7. /\ repetitions' \in [Value -> Nat]
      /\ \A d \in Value :
           repetitions'[d] = IF d = data[i] THEN repetitions[d] - 1 ELSE repetitions[d]
  BY <1>1, <1>2, <1>4 DEF Shape
<1> DEFINE S == {m \in (Visited + 1)..size : data[s[m]] = data[i]}
<1>8. repetitions[data[i]] = Cardinality(S) /\ Visited + 1 \in S
  BY Zenon, <1>4, <1>5, <1>6
<1>9. /\ Cardinality(S \ {Visited + 1}) = Cardinality(S) - 1
      /\ Cardinality(S) > 1 <=> \E y \in S : y # Visited + 1
  <2>1. S \subseteq (Visited + 1)..size
    OBVIOUS
  <2> HIDE DEF S
  <2> QED
    BY Zenon, <1>4, <1>6, <1>8, <2>1, CountWithout
<1>10. PICK y \in (Visited + 1 + 1)..size : data[s[y]] = data[i]
  <2>1. PICK y \in S : y # Visited + 1
    BY Zenon, <1>8, <1>9
  <2> QED
    BY Zenon, <1>6, <2>1
<1>11. CASE status' # "running"
  <2>1. pass \in {"continuous", "repeated"}
    BY Zenon, <1>1
  <2> QED
    BY Zenon, <1>1, <1>7, <1>11, <2>1, SegfaultStep
<1>12. CASE status' = "running"
  <2>1. /\ Kept' = Kept /\ Visited' = Visited + 1
        /\ size' = size /\ to_preserve' = to_preserve
        /\ next' \in Links /\ data' \in Contained /\ live' \subseteq Item
        /\ i' \in Item \cup {Null} /\ deletions' \in Nat
        /\ \A k \in 1..Kept : data'[to_preserve[k]] = data[to_preserve[k]]
        /\ \A l \in (Visited + 1 + 1)..size : data'[s[l]] = data[s[l]]
        /\ Linking(s)'
    BY Zenon, <1>1, <1>2, <1>3, <1>12, FreeLinking
  <2>2. first_execution' = FALSE /\ UNCHANGED <<head, tail>>
    BY Zenon, <1>1 DEF FreeItem
  <2>3. Counting'
    BY <1>1 DEF Counting
  <2>4. \A l \in (Visited + 1 + 1)..size :
          repetitions'[data'[s[l]]] =
            Cardinality({m \in (Visited + 1 + 1)..size : data'[s[m]] = data'[s[l]]})
    <3> TAKE l \in (Visited + 1 + 1)..size
    <3> DEFINE A == {m \in (Visited + 1)..size : data[s[m]] = data[s[l]]}
               B == {m \in (Visited + 1 + 1)..size : data'[s[m]] = data'[s[l]]}
    <3>0. data[s[l]] \in Value /\ data'[s[l]] = data[s[l]]
      <4>1. {s[m] : m \in (Visited + 1)..size} \subseteq live
        BY Zenon, <1>3 DEF Linking
      <4>2. s[l] \in live
        BY Zenon, <1>6, <4>1
      <4> QED
        BY Zenon, <1>3, <2>1, <4>2 DEF Linking
    <3>1. repetitions[data[s[l]]] = Cardinality(A)
      BY Zenon, <1>5, <1>6
    <3>2. CASE data[s[l]] = data[i]
      <4>1. B = S \ {Visited + 1}
        BY Zenon, <1>6, <2>1, <3>0, <3>2
      <4> HIDE DEF S, B
      <4>2. repetitions'[data'[s[l]]] = Cardinality(B)
        BY Zenon, <1>4, <1>7, <1>8, <1>9, <3>0, <3>2, <4>1
      <4> QED
        BY <4>2 DEF B
    <3>3. CASE data[s[l]] # data[i]
      <4>1. B = A
        BY Zenon, <1>4, <1>6, <2>1, <3>0, <3>3
      <4> HIDE DEF A, B
      <4>2. repetitions'[data'[s[l]]] = Cardinality(B)
        BY Zenon, <1>7, <3>0, <3>1, <3>3, <4>1
      <4> QED
        BY <4>2 DEF B
    <3> QED
      BY <3>2, <3>3
  <2>5. /\ \A k, l \in 1..Kept : data'[to_preserve[k]] = data'[to_preserve[l]] => k = l
        /\ \A k \in 1..Kept, l \in (Visited + 1 + 1)..size :
             data'[to_preserve[k]] # data'[s[l]]
    <3>1. /\ \A k \in 1..Kept : data'[to_preserve[k]] = data[to_preserve[k]]
          /\ \A l \in (Visited + 1 + 1)..size : data'[s[l]] = data[s[l]]
      BY Zenon, <2>1
    <3>2. \A k \in 1..Kept, l \in (Visited + 1 + 1)..size :
            data[to_preserve[k]] # data[s[l]]
      BY Zenon, <1>5, <1>6
    <3>3. \A k, l \in 1..Kept : data[to_preserve[k]] = data[to_preserve[l]] => k = l
      BY Zenon, <1>5
    <3> QED
      <4>1. \A k, l \in 1..Kept : data'[to_preserve[k]] = data'[to_preserve[l]] => k = l
        BY ONLY Zenon, <3>1, <3>3
      <4>2. \A k \in 1..Kept, l \in (Visited + 1 + 1)..size :
              data'[to_preserve[k]] # data'[s[l]]
        <5> TAKE k \in 1..Kept, l \in (Visited + 1 + 1)..size
        <5>1. /\ data'[to_preserve[k]] = data[to_preserve[k]]
              /\ data'[s[l]] = data[s[l]] /\ data[to_preserve[k]] # data[s[l]]
          BY Zenon, <3>1, <3>2
        <5> QED
          BY ONLY Zenon, <5>1
      <4> QED
        BY ONLY Zenon, <4>1, <4>2
  <2>6. Thinning(s)'
    <3>1. /\ (1..Kept)' = 1..Kept /\ ((Visited + 1)..size)' = (Visited + 1 + 1)..size
          /\ to_preserve' = to_preserve
      BY Zenon, <2>1
    <3>2. Thinned((Visited + 1 + 1)..size, 1..Kept, to_preserve, data', repetitions', s)
      BY Zenon, <2>4, <2>5 DEF Thinned
    <3>3. Thinned((Visited + 1 + 1)..size, 1..Kept, to_preserve', data', repetitions', s)
      BY Zenon, <3>1, <3>2
    <3> QED
      BY Zenon, <3>1, <3>3, ThinnedNext
  <2>7. /\ \A k, l \in 1..Kept : k < l => f[k] < f[l]
        /\ \A k \in 1..Kept : Popped[f[k]] = data[to_preserve[k]]
        /\ \A k \in 1..Kept, l \in (Visited + 1 + 1)..size : f[k] < g[l]
    BY Zenon, <1>3, <1>6 DEF Walking
  <2>8. \A p \in 1..Len(Popped) :
          \/ \E k \in 1..Kept : f[k] >= p /\ Popped[f[k]] = Popped[p]
          \/ \E l \in (Visited + 1 + 1)..size : g[l] >= p /\ Popped[g[l]] = Popped[p]
    <3> TAKE p \in 1..Len(Popped)
    <3>1. CASE \E k \in 1..Kept : f[k] >= p /\ Popped[f[k]] = Popped[p]
      BY Zenon, <3>1
    <3>2. CASE \E l \in (Visited + 1 + 1)..size : g[l] >= p /\ Popped[g[l]] = Popped[p]
      BY Zenon, <3>2
    <3>3. CASE g[Visited + 1] >= p /\ Popped[g[Visited + 1]] = Popped[p]
      <4>1. Popped[g[y]] = data[s[y]] /\ Popped[g[Visited + 1]] = data[s[Visited + 1]]
        BY Zenon, <1>3, <1>6 DEF Walking
      <4>2. g[Visited + 1] < g[y]
        BY Zenon, <1>3, <1>4, <1>6 DEF Walking
      <4>3. p \in Int /\ g[y] \in Int /\ g[Visited + 1] \in Int
        BY <1>4, <1>6
      <4>4. g[y] >= p
        BY <3>3, <4>2, <4>3
      <4> QED
        BY Zenon, <1>4, <1>10, <3>3, <4>1, <4>4
    <3> QED
      BY Zenon, <1>3, <1>6, <3>1, <3>2, <3>3 DEF Walking
  <2>9. /\ g \in [1..size' -> 1..Len(Popped')]
        /\ f \in [1..Kept' -> 1..Len(Popped')]
        /\ Walking(s, g, f)'
    BY Zenon, <1>1, <1>2, <1>3, <1>12, <2>7, <2>8, FreeWalking
  <2>10. ListInv'
    BY Zenon, <1>1, <1>2, <1>3, <1>12, <2>1, <2>3, <2>6, <2>9, StillInPass
  <2>11. Shape'
    BY Zenon, <1>1, <1>2, <1>7, <1>12, <2>1, <2>2 DEF Shape
  <2> QED
    BY Zenon, <1>12, <2>10, <2>11, TypeOfShape
<1> QED
  BY <1>11, <1>12

-----------------------------------------------------------------------------
(* The end of a pass *)

(* The positions of what was popped whose values a pass has kept. *)
KeptAt(f, p, dt) ==
  /\ before \in Seq(Value)
  /\ \A k, l \in 1..Kept : k < l => f[k] < f[l]
  /\ \A k \in 1..Kept : Popped[f[k]] = dt[p[k]]
  /\ \A q \in 1..Len(Popped) : \E k \in 1..Kept : f[k] >= q /\ Popped[f[k]] = Popped[q]

(* The end of queue_selective_remove: every item was visited, so the assertion
   on the counts holds, and those kept are the new list. *)
LEMMA RelinkStep ==
  ASSUME IInv, status = "running", pass # "none", Relink
  PROVE  /\ status' = "running" /\ i = Null
         /\ Kept \in Nat /\ size' = Kept
         /\ head' \in Item \cup {Null} /\ tail' \in Item \cup {Null} /\ next' \in Links
         /\ data' = data /\ live' = live
         /\ to_preserve' = <<>> /\ deletions' = 0
         /\ UNCHANGED <<first_execution, repetitions, previous>>
         /\ \E p : /\ p = to_preserve
                   /\ IsList(p, head, tail, size, next, data, live)'
                   /\ \E f \in [1..Kept -> 1..Len(Popped)] : KeptAt(f, p, data)
         /\ pass = "repeated" =>
              \A k, l \in 1..Kept : data[to_preserve[k]] = data[to_preserve[l]] => k = l
<1>0. Shape
  BY Zenon, InPass
<1>1. PICK s \in [1..size -> Item], g \in [1..size -> 1..Len(Popped)],
           f \in [1..Kept -> 1..Len(Popped)] :
        /\ Linking(s) /\ Thinning(s) /\ Walking(s, g, f)
        /\ i = IF Visited < size THEN s[Visited + 1] ELSE Null
  BY Zenon, InPass
<1>2. /\ i = Null
      /\ head' = IF Kept = 0 THEN Null ELSE to_preserve[1]
      /\ tail' = IF Kept = 0 THEN Null ELSE to_preserve[Kept]
      /\ next' = Relinked(to_preserve, next)
      /\ status' = IF Kept + deletions = size THEN status ELSE "assert_339"
      /\ size' = Kept
      /\ data' = data /\ live' = live
      /\ UNCHANGED <<first_execution, repetitions, previous>>
      /\ to_preserve' = <<>> /\ deletions' = 0
  BY Zenon DEF Relink, Relinked, Kept
<1>3. /\ to_preserve \in Seq(Item) /\ deletions \in Nat /\ size \in Nat
      /\ next \in Links /\ data \in Contained
  BY Zenon, <1>0 DEF Shape
<1>4. Kept \in Nat /\ to_preserve \in [1..Kept -> Item]
  BY <1>3, SeqFacts DEF Kept
<1>5. Visited \in Nat /\ Visited <= size
  BY <1>1, <1>3, <1>4 DEF Linking, Visited
<1>6. Visited = size
  <2> SUFFICES ASSUME Visited < size PROVE FALSE
    BY <1>3, <1>5
  <2>1. Visited + 1 \in 1..size
    BY <1>3, <1>5
  <2>2. s[Visited + 1] \in Item
    BY <2>1
  <2> QED
    BY Zenon, <1>1, <1>2, <2>2, NullAssumption
<1>7. status' = "running"
  BY Zenon, <1>2, <1>6 DEF Visited
<1>8. (Visited + 1)..size = {}
  BY <1>3, <1>6
<1>9. /\ \A k, l \in 1..Kept : to_preserve[k] = to_preserve[l] => k = l
      /\ \A x \in live : data[x] \in Value
      /\ live = {to_preserve[k] : k \in 1..Kept} \cup {s[l] : l \in (Visited + 1)..size}
  BY Zenon, <1>1 DEF Linking
<1>10. live = {to_preserve[k] : k \in 1..Kept}
  BY Zenon, <1>8, <1>9
<1>11. /\ next' \in Links
       /\ IsList(to_preserve, head', tail', Kept, next', data, live)
  BY Zenon, <1>2, <1>3, <1>9, <1>10, RelinkList DEF Kept
<1>12. PICK p : p = to_preserve
  OBVIOUS
<1>13. IsList(p, head, tail, size, next, data, live)'
  <2>1. IsList(p, head', tail', size', next', data', live')
    BY Zenon, <1>2, <1>11, <1>12
  <2> QED
    BY Zenon, <2>1 DEF IsList
<1>14. KeptAt(f, p, data)
  <2>1. /\ before \in Seq(Value)
        /\ \A k, l \in 1..Kept : k < l => f[k] < f[l]
        /\ \A k \in 1..Kept : Popped[f[k]] = data[p[k]]
    BY Zenon, <1>1, <1>12 DEF Walking
  <2>2. \A q \in 1..Len(Popped) :
          \E k \in 1..Kept : f[k] >= q /\ Popped[f[k]] = Popped[q]
    BY Zenon, <1>1, <1>8 DEF Walking
  <2> QED
    BY Zenon, <2>1, <2>2 DEF KeptAt
<1>15. pass = "repeated" =>
         \A k, l \in 1..Kept : data[to_preserve[k]] = data[to_preserve[l]] => k = l
  BY Zenon, <1>1 DEF Thinning
<1>16. head' \in Item \cup {Null} /\ tail' \in Item \cup {Null}
  BY <1>2, <1>4
<1> QED
  BY Zenon, <1>2, <1>4, <1>7, <1>11, <1>12, <1>13, <1>14, <1>15, <1>16

(* The second pass finds what the first has kept, and the counts for it. *)
LEMMA SecondPassStep ==
  ASSUME IInv, status = "running", SecondPass
  PROVE  IInv' /\ status' = "running" /\ pass' = "repeated" /\ before' = before
<1>1. pass = "continuous" /\ Relink /\ pass' = "repeated" /\ i' = head' /\ before' = before
  BY Zenon DEF SecondPass
<1>2. pass # "none"
  BY <1>1
<1>3. Shape /\ Counting
  BY Zenon, <1>2, InPass
<1>4. /\ status' = "running" /\ Kept \in Nat /\ size' = Kept
      /\ head' \in Item \cup {Null} /\ tail' \in Item \cup {Null} /\ next' \in Links
      /\ data' = data /\ live' = live
      /\ to_preserve' = <<>> /\ deletions' = 0
      /\ UNCHANGED <<first_execution, repetitions, previous>>
  BY Zenon, <1>1, <1>2, RelinkStep
<1>5. PICK p : /\ p = to_preserve
               /\ IsList(p, head, tail, size, next, data, live)'
               /\ \E f \in [1..Kept -> 1..Len(Popped)] : KeptAt(f, p, data)
  BY Zenon, <1>1, <1>2, RelinkStep
<1>6. PICK f \in [1..Kept -> 1..Len(Popped)] : KeptAt(f, p, data)
  BY Zenon, <1>5
<1>7. p \in [1..size' -> Item] /\ Linking(p)' /\ Kept' = 0 /\ Visited' = 0
  <2>1. size' \in Nat
    BY Zenon, <1>4
  <2> QED
    BY Zenon, <1>4, <1>5, <2>1, Unvisited
<1>8. Counting'
  BY <1>1 DEF Counting
<1>9. 0 + 1 = 1 /\ 1..0 = {}
  OBVIOUS
<1>10. ((Visited + 1)..size)' = 1..Kept /\ (1..Kept)' = {}
  BY Zenon, <1>4, <1>7, <1>9
<1>11. Thinning(p)'
  <2>1. ASSUME NEW l \in 1..Kept
        PROVE  repetitions[data[p[l]]] = Cardinality({m \in 1..Kept : data[p[m]] = data[p[l]]})
    <3>1. ~first_execution
      <4> SUFFICES ASSUME first_execution PROVE FALSE
        OBVIOUS
      <4>1. Visited = 0
        BY Zenon, <1>1, <1>3 DEF Counting
      <4>2. deletions \in Nat
        BY Zenon, <1>3 DEF Shape
      <4>3. Kept = 0
        BY <1>4, <4>1, <4>2 DEF Visited
      <4> QED
        BY <2>1, <4>3
    <3>2. \A d \in Value :
            repetitions[d] = Cardinality({k \in 1..Kept : data[to_preserve[k]] = d})
      BY Zenon, <1>1, <1>3, <3>1 DEF Counting
    <3>3. data[p[l]] \in Value
      BY Zenon, <1>4, <1>5 DEF IsList
    <3> QED
      BY Zenon, <1>5, <3>2, <3>3
  <2>2. Thinned(1..Kept, {}, to_preserve', data, repetitions, p)
    BY Zenon, <2>1 DEF Thinned
  <2>3. Thinned(1..Kept, {}, to_preserve', data', repetitions', p)
    BY Zenon, <1>4, <2>2
  <2> QED
    BY Zenon, <1>10, <2>3, ThinnedNext
<1>12. Popped' = Popped
  BY Zenon, <1>1 DEF Popped, Abstract!PopHead
<1>13. PICK e : e = [k \in 1..0 |-> 1]
  OBVIOUS
<1>14. e \in [1..Kept' -> 1..Len(Popped')] /\ f \in [1..size' -> 1..Len(Popped')]
  <2>1. e \in [1..0 -> 1..Len(Popped')]
    BY <1>9, <1>13
  <2> QED
    BY Zenon, <1>4, <1>6, <1>7, <1>12, <2>1
<1>15. Walking(p, f, e)'
  <2>1. /\ before \in Seq(Value)
        /\ \A k, l \in 1..Kept : k < l => f[k] < f[l]
        /\ \A k \in 1..Kept : Popped[f[k]] = data[p[k]]
        /\ \A q \in 1..Len(Popped) :
             \E k \in 1..Kept : f[k] >= q /\ Popped[f[k]] = Popped[q]
    BY Zenon, <1>6 DEF KeptAt
  <2>2. i' = IF Visited' < size' THEN p[Visited' + 1] ELSE Null
    <3>1. head' = IF size' = 0 THEN Null ELSE p[1]
      BY Zenon, <1>5 DEF IsList
    <3>2. 0 < Kept <=> Kept # 0
      BY <1>4
    <3> QED
      BY Zenon, <1>1, <1>4, <1>7, <1>9, <3>1, <3>2
  <2>3. \A k, l \in 1..size' : k < l => f[k] < f[l]
    BY Zenon, <1>4, <2>1
  <2>4. \A l \in ((Visited + 1)..size)' : Popped'[f[l]] = data'[p[l]]
    BY Zenon, <1>4, <1>10, <1>12, <2>1
  <2>5. \A q \in 1..Len(Popped)' :
          \E l \in ((Visited + 1)..size)' : f[l] >= q /\ Popped'[f[l]] = Popped'[q]
    BY Zenon, <1>10, <1>12, <2>1
  <2>6. \A k \in (1..Kept)' : FALSE
    BY Zenon, <1>10
  <2> QED
    BY Zenon, <1>1, <2>1, <2>2, <2>3, <2>4, <2>5, <2>6 DEF Walking
<1>16. ListInv'
  <2>1. pass' # "none"
    BY <1>1
  <2> QED
    BY Zenon, <1>4, <1>7, <1>8, <1>11, <1>14, <1>15, <2>1, StillInPass
<1>17. Shape'
  BY Zenon, <1>1, <1>3, <1>4, NoElements DEF Shape
<1> QED
  BY Zenon, <1>1, <1>4, <1>16, <1>17, TypeOfShape

(* The second pass leaves the last occurrence of every value. *)
LEMMA CleanupEndStep ==
  ASSUME IInv, status = "running", CleanupEnd
  PROVE  IInv' /\ status' = "running" /\ pass' = "none" /\ pass = "repeated"
         /\ Contents' = Abstract!Cleanup(before)
<1>1. pass = "repeated" /\ Relink /\ pass' = "none" /\ before' = <<>> /\ i' = i
  BY Zenon DEF CleanupEnd
<1>2. pass # "none"
  BY <1>1
<1>3. Shape
  BY Zenon, <1>2, InPass
<1>4. /\ status' = "running" /\ Kept \in Nat /\ size' = Kept /\ i = Null
      /\ head' \in Item \cup {Null} /\ tail' \in Item \cup {Null} /\ next' \in Links
      /\ data' = data /\ live' = live
      /\ to_preserve' = <<>> /\ deletions' = 0
      /\ UNCHANGED <<first_execution, repetitions, previous>>
      /\ \A k, l \in 1..Kept : data[to_preserve[k]] = data[to_preserve[l]] => k = l
  BY Zenon, <1>1, <1>2, RelinkStep
<1>5. PICK p : /\ p = to_preserve
               /\ IsList(p, head, tail, size, next, data, live)'
               /\ \E f \in [1..Kept -> 1..Len(Popped)] : KeptAt(f, p, data)
  BY Zenon, <1>1, <1>2, RelinkStep
<1>6. PICK f \in [1..Kept -> 1..Len(Popped)] : KeptAt(f, p, data)
  BY Zenon, <1>5
<1>7. size' \in Nat
  BY Zenon, <1>4
<1>8. ListInv'
  BY Zenon, <1>1, <1>4, <1>5, <1>7, IdleAgain
<1>9. Shape'
  BY Zenon, <1>1, <1>3, <1>4, NoElements DEF Shape
<1>10. IInv'
  BY Zenon, <1>4, <1>8, <1>9, TypeOfShape
<1>11. /\ Contents' \in Seq(Value) /\ Len(Contents') = Kept
       /\ \A k \in 1..Kept : Contents'[k] = data[p[k]]
  BY Zenon, <1>4, <1>5, <1>7, ContentsThen
<1>12. /\ before \in Seq(Value)
       /\ \A k, l \in 1..Kept : k < l => f[k] < f[l]
       /\ \A k \in 1..Kept : Popped[f[k]] = data[p[k]]
       /\ \A q \in 1..Len(Popped) :
            \E k \in 1..Kept : f[k] >= q /\ Popped[f[k]] = Popped[q]
  BY Zenon, <1>6 DEF KeptAt
<1>13. Popped \in Seq(Value)
  BY Zenon, <1>12, PopHeadValues DEF Popped
<1>14. \A k, l \in 1..Kept : Popped[f[k]] = Popped[f[l]] => k = l
  BY Zenon, <1>4, <1>5, <1>12
<1>15. Abstract!KeepLast(Popped) = Selected(Popped, Kept, f)
  <2>1. LastOnes(Popped, Kept, f)
    BY Zenon, <1>12, <1>14 DEF LastOnes
  <2> QED
    BY ONLY Zenon, <1>4, <1>13, <2>1, KeepLastOf
<1>16. Contents' = Selected(Popped, Kept, f)
  BY <1>11, <1>12 DEF Selected
<1>17. Abstract!Cleanup(before) = Abstract!KeepLast(Popped)
  BY Zenon DEF Abstract!Cleanup, Popped
<1> QED
  BY Zenon, <1>1, <1>4, <1>10, <1>15, <1>16, <1>17

-----------------------------------------------------------------------------
(* The theorems *)

LEMMA InitInv ==
  ASSUME Init
  PROVE  IInv /\ Contents = <<>>
<1>0. Cardinality(Item) \in Nat
  BY ItemAssumption, FS_CardinalityType
<1>1. TypeOK
  <2>1. /\ head \in Item \cup {Null} /\ tail \in Item \cup {Null} /\ i \in Item \cup {Null}
        /\ previous \in Value \cup {Null} /\ live \subseteq Item
        /\ next \in [Item -> Item \cup {Null}] /\ data \in [Item -> Value \cup {Null}]
        /\ repetitions \in [Value -> Nat] /\ first_execution \in BOOLEAN
        /\ pass = "none" /\ status = "running"
    BY DEF Init, NoRepetitions
  <2>2. size \in 0..Cardinality(Item) /\ deletions \in Nat
    BY <1>0 DEF Init
  <2>3. to_preserve \in Seq(Item)
    BY DEF Init
  <2> QED
    BY <2>1, <2>2, <2>3 DEF TypeOK
<1>2. 1..0 = {} /\ 0 + 1 = 1 /\ 0 <= 0
  OBVIOUS
<1>3. PICK s : s = [k \in 1..0 |-> Null]
  OBVIOUS
<1>4. s \in [1..0 -> Item]
  BY <1>2, <1>3
<1>5. /\ size = 0 /\ to_preserve = <<>> /\ deletions = 0 /\ i = Null /\ head = Null
      /\ tail = Null /\ live = {} /\ pass = "none" /\ status = "running"
  BY Zenon DEF Init
<1>6. Kept = 0 /\ Visited = 0
  BY <1>5, KeptEmpty DEF Kept, Visited
<1>7. Linking(s)
  BY <1>2, <1>5, <1>6 DEF Linking
<1>8. Idle(s) /\ Counting /\ Thinning(s)
  BY Zenon, <1>5 DEF Idle, Counting, Thinning
<1>9. ListInv
  BY Zenon, <1>4, <1>5, <1>7, <1>8 DEF ListInv
<1>10. Contents = <<>>
  BY <1>2, <1>5 DEF Contents
<1> QED
  BY Zenon, <1>1, <1>9, <1>10 DEF IInv

(* A visit leaves the pass and what the cleanup began with alone. *)
LEMMA VisitStep ==
  ASSUME IInv, status = "running", Visit
  PROVE  IInv' /\ pass # "none" /\ pass' = pass /\ before' = before
<1>1. CASE VisitFirst
  <2>1. pass # "none" /\ pass' = pass /\ before' = before
    BY <1>1 DEF VisitFirst
  <2> QED
    BY <1>1, <2>1, VisitFirstStep
<1>2. CASE VisitContinuous
  <2>1. pass # "none" /\ pass' = pass /\ before' = before
    BY <1>2 DEF VisitContinuous
  <2> QED
    BY <1>2, <2>1, VisitContinuousStep
<1>3. CASE VisitOther
  <2>1. pass # "none" /\ pass' = pass /\ before' = before
    BY <1>3 DEF VisitOther
  <2> QED
    BY <1>3, <2>1, VisitOtherStep
<1>4. CASE VisitRepeated
  <2>1. pass # "none" /\ pass' = pass /\ before' = before
    BY <1>4 DEF VisitRepeated
  <2> QED
    BY <1>4, <2>1, VisitRepeatedKeep, VisitRepeatedFree
<1> QED
  BY <1>1, <1>2, <1>3, <1>4 DEF Visit

LEMMA StutterStep ==
  ASSUME UNCHANGED vars
  PROVE  Contents' = Contents /\ pass' = pass /\ before' = before
<1>1. /\ head' = head /\ size' = size /\ next' = next /\ data' = data /\ pass' = pass
      /\ before' = before
  BY DEF vars, list
<1>2. Linked' = Linked
  BY Zenon, <1>1, LinkedIsChain
<1> QED
  BY Zenon, <1>1, <1>2 DEF Contents

LEMMA InvNext ==
  ASSUME IInv, [Next]_vars
  PROVE  IInv'
<1>1. CASE UNCHANGED vars
  <2>1. /\ head' = head /\ tail' = tail /\ size' = size /\ next' = next /\ data' = data
        /\ live' = live /\ pass' = pass /\ i' = i /\ first_execution' = first_execution
        /\ to_preserve' = to_preserve /\ deletions' = deletions
        /\ repetitions' = repetitions /\ previous' = previous /\ status' = status
        /\ before' = before
    BY <1>1 DEF vars, list, loop
  <2>2. TypeOK'
    BY Zenon, <2>1 DEF IInv, TypeOK
  <2>3. Kept' = Kept /\ Visited' = Visited /\ Popped' = Popped
    BY Zenon, <2>1 DEF Kept, Visited, Popped, Abstract!PopHead
  <2>4. ASSUME NEW s
        PROVE  (Linking(s) => Linking(s)') /\ (Idle(s) => Idle(s)')
               /\ (Thinning(s) => Thinning(s)')
    <3>1. Linking(s) => Linking(s)'
      <4> SUFFICES ASSUME Linking(s) PROVE Linking(s)'
        OBVIOUS
      <4>1. /\ \A k, l \in 1..size : s[k] = s[l] => k = l
            /\ Visited <= size
            /\ \A k \in 1..Kept : \E l \in 1..Visited : to_preserve[k] = s[l]
            /\ \A k, l \in 1..Kept : to_preserve[k] = to_preserve[l] => k = l
        BY Zenon DEF Linking
      <4>2. /\ \A l \in (Visited + 1)..size :
                 next[s[l]] = IF l < size THEN s[l + 1] ELSE Null
            /\ live = {to_preserve[k] : k \in 1..Kept}
                        \cup {s[l] : l \in (Visited + 1)..size}
            /\ \A x \in live : data[x] \in Value
        BY Zenon DEF Linking
      <4>3. ((Visited + 1)..size)' = (Visited + 1)..size /\ (1..Kept)' = 1..Kept
            /\ (1..Visited)' = 1..Visited /\ (1..size)' = 1..size
        BY Zenon, <2>1, <2>3
      <4>4. {to_preserve[k] : k \in 1..Kept}' = {to_preserve[k] : k \in 1..Kept}
        BY Zenon, <2>1, <4>3
      <4>5. live' = {to_preserve[k] : k \in 1..Kept}'
                      \cup {s[l] : l \in (Visited + 1)..size}'
        BY Zenon, <2>1, <4>2, <4>3, <4>4
      <4>6. /\ \A l \in ((Visited + 1)..size)' :
                 next'[s[l]] = IF l < size' THEN s[l + 1] ELSE Null
            /\ \A x \in live' : data'[x] \in Value
        BY Zenon, <2>1, <4>2, <4>3
      <4>7. (/\ \A k, l \in 1..size : s[k] = s[l] => k = l
             /\ Visited <= size
             /\ \A k \in 1..Kept : \E l \in 1..Visited : to_preserve[k] = s[l]
             /\ \A k, l \in 1..Kept : to_preserve[k] = to_preserve[l] => k = l)'
        BY Zenon, <2>1, <2>3, <4>1, <4>3
      <4> QED
        BY Zenon, <4>5, <4>6, <4>7 DEF Linking
    <3>2. Idle(s) => Idle(s)'
      BY Zenon, <2>1, <2>3 DEF Idle
    <3>3. Thinning(s) => Thinning(s)'
      <4>1. CASE pass # "repeated"
        BY Zenon, <2>1, <4>1 DEF Thinning
      <4>2. ASSUME pass = "repeated", Thinning(s) PROVE Thinning(s)'
        <5>1. Thinned((Visited + 1)..size, 1..Kept, to_preserve, data, repetitions, s)
          BY Zenon, <4>2 DEF Thinning, Thinned
        <5>2. ((Visited + 1)..size)' = (Visited + 1)..size /\ (1..Kept)' = 1..Kept
          BY Zenon, <2>1, <2>3
        <5>3. Thinned((Visited + 1)..size, 1..Kept, to_preserve', data', repetitions', s)
          BY Zenon, <2>1, <5>1
        <5> QED
          BY Zenon, <5>2, <5>3, ThinnedNext
      <4> QED
        BY Zenon, <4>1, <4>2
    <3> QED
      BY Zenon, <3>1, <3>2, <3>3
  <2>5. Counting => Counting'
    BY Zenon, <2>1, <2>3 DEF Counting
  <2>6. ASSUME NEW s, NEW g, NEW f PROVE Walking(s, g, f) => Walking(s, g, f)'
    BY Zenon, <2>1, <2>3 DEF Walking
  <2>7. ListInv'
    BY Zenon, <2>1, <2>3, <2>4, <2>5, <2>6 DEF IInv, ListInv
  <2> QED
    BY Zenon, <2>2, <2>7 DEF IInv
<1>2. CASE Next
  <2>1. status = "running"
    BY <1>2 DEF Next
  <2>2. CASE Pop
    BY <2>2, PopStep
  <2>3. CASE CleanupBegin
    BY <2>3, BeginStep
  <2>4. CASE Step
    BY <2>1, <2>4, VisitStep, SecondPassStep, CleanupEndStep DEF Step
  <2>5. CASE \E d \in Value : Push(d)
    BY <2>5, PushStep
  <2> QED
    BY <1>2, <2>2, <2>3, <2>4, <2>5 DEF Next
<1> QED
  BY <1>1, <1>2

LEMMA Inductive == Spec => []IInv
<1>1. Init => IInv
  BY InitInv
<1>2. IInv /\ [Next]_vars => IInv'
  BY InvNext
<1> QED
  BY <1>1, <1>2, PTL DEF Spec

(* The fields of the queue and of the pass keep their types; size never exceeds
   the number of items there are, whatever has been queued and cleaned up. *)
THEOREM TypeCorrect == Spec => []TypeOK
<1>1. IInv => TypeOK
  BY DEF IInv
<1> QED
  BY <1>1, Inductive, PTL

(* Whenever no cleanup is under way the links of queue_t run from head to tail
   through exactly the items that are allocated, size of them and no circle:
   nothing leaks, nothing freed is linked, and tail is never left behind. *)
THEOREM ListWellFormed == Spec => []WellFormed
<1>1. ASSUME IInv PROVE WellFormed
  <2> SUFFICES ASSUME pass = "none" /\ status = "running"
               PROVE  /\ {Linked[k] : k \in 0..(size - 1)} = live
                      /\ Cardinality(live) = size
                      /\ Linked[size] = Null
                      /\ tail = IF size = 0 THEN Null ELSE Linked[size - 1]
    BY Zenon DEF WellFormed
  <2>1. size \in Nat /\ \E s : IsList(s, head, tail, size, next, data, live)
    BY <1>1, IdleList
  <2>2. PICK s : IsList(s, head, tail, size, next, data, live)
    BY <2>1
  <2>3. /\ \A k \in 0..(size - 1) : Linked[k] = s[k + 1]
        /\ Linked[size] = Null
    <3>1. /\ \A k \in 0..(size - 1) : Chain(head, next)[k] = s[k + 1]
          /\ Chain(head, next)[size] = Null
      BY <2>1, <2>2, ContentsOfList
    <3> QED
      BY Zenon, <3>1, LinkedIsChain
  <2>4. /\ s \in [1..size -> Item]
        /\ \A k, l \in 1..size : s[k] = s[l] => k = l
        /\ tail = IF size = 0 THEN Null ELSE s[size]
        /\ live = {s[l] : l \in 1..size}
    BY Zenon, <2>2 DEF IsList
  <2>5. {Linked[k] : k \in 0..(size - 1)} = live
    <3>1. \A k \in 0..(size - 1) : k + 1 \in 1..size /\ Linked[k] = s[k + 1]
      BY <2>1, <2>3
    <3>2. \A l \in 1..size : l - 1 \in 0..(size - 1) /\ Linked[l - 1] = s[l]
      <4> TAKE l \in 1..size
      <4>1. l - 1 \in 0..(size - 1) /\ l - 1 + 1 = l
        BY <2>1
      <4> QED
        BY Zenon, <2>3, <4>1
    <3> QED
      <4>1. \A k \in 0..(size - 1) : Linked[k] \in live
        BY Zenon, <2>4, <3>1
      <4>2. ASSUME NEW x \in live PROVE \E k \in 0..(size - 1) : x = Linked[k]
        <5>1. PICK l \in 1..size : x = s[l]
          BY Zenon, <2>4
        <5> QED
          BY Zenon, <3>2, <5>1
      <4> QED
        BY Zenon, <4>1, <4>2
  <2>6. Cardinality(live) = size
    <3>1. s \in [1..size -> live]
      BY <2>4
    <3>2. \A v \in live : \E k \in 1..size : s[k] = v
      BY Zenon, <2>4
    <3> QED
      BY Zenon, <2>1, <2>4, <3>1, <3>2, CountList
  <2>7. tail = IF size = 0 THEN Null ELSE Linked[size - 1]
    <3>1. CASE size = 0
      BY Zenon, <2>4, <3>1
    <3>2. CASE size # 0
      <4>1. size - 1 \in 0..(size - 1) /\ size - 1 + 1 = size
        BY <2>1, <3>2
      <4> QED
        BY Zenon, <2>3, <2>4, <3>2, <4>1
    <3> QED
      BY <3>1, <3>2
  <2> QED
    BY Zenon, <2>3, <2>5, <2>6, <2>7
<1> QED
  BY <1>1, Inductive, PTL

(* No assertion of queue_push, queue_pop, queue_selective_remove or
   queue_delete_continuous_nodes ever fails; the process may stop only because
   a pass reads the link of the item it has just freed. *)
THEOREM AssertionsHold == Spec => []NoAssertFails
<1>1. IInv => NoAssertFails
  BY DEF IInv, ListInv, NoAssertFails
<1> QED
  BY <1>1, Inductive, PTL

(* The list implements the sequence of QueueSpec for every number of items and
   every set of values: queue_push appends, queue_pop drops the head, and the two
   passes of queue_cleanup, step by step, end in the last occurrence of every
   value after the head is dropped, and in nothing else. *)
THEOREM Refinement == Spec => Implements
<1> DEFINE Q == IF pass = "none" THEN Contents ELSE before
<1>1. Init => Abstract!Init
  <2> SUFFICES ASSUME Init PROVE Abstract!Init
    OBVIOUS
  <2>1. pass = "none" /\ Contents = <<>>
    BY InitInv DEF Init
  <2> QED
    BY Zenon, <2>1 DEF Abstract!Init
<1>2. ASSUME IInv, [Next]_vars
      PROVE  [Abstract!Next]_(IF pass = "none" THEN Contents ELSE before)
  <2>1. CASE UNCHANGED vars
    BY Zenon, <2>1, StutterStep
  <2>2. CASE Next
    <3>1. status = "running"
      BY <2>2 DEF Next
    <3>2. CASE Pop
      <4>1. pass = "none" /\ pass' = pass
        BY <3>2 DEF Pop
      <4>2. Contents' = Abstract!PopHead(Contents)
        BY Zenon, <1>2, <3>2, PopStep
      <4> QED
        BY Zenon, <4>1, <4>2 DEF Abstract!Next, Abstract!Pop, Abstract!PopHead
    <3>3. CASE CleanupBegin
      <4>1. pass = "none" /\ pass' # "none" /\ before' = Contents
        BY <3>3 DEF CleanupBegin
      <4> QED
        BY Zenon, <4>1
    <3>4. CASE Visit
      BY Zenon, <1>2, <3>1, <3>4, VisitStep
    <3>5. CASE SecondPass
      <4>1. pass # "none" /\ pass' # "none" /\ before' = before
        BY <3>5 DEF SecondPass
      <4> QED
        BY Zenon, <4>1
    <3>6. CASE CleanupEnd
      <4>1. pass' = "none" /\ pass # "none" /\ Contents' = Abstract!Cleanup(before)
        BY <1>2, <3>1, <3>6, CleanupEndStep
      <4> QED
        BY Zenon, <4>1 DEF Abstract!Next, Abstract!CleanUp, Abstract!Cleanup
    <3>7. CASE \E d \in Value : Push(d)
      <4>1. PICK d \in Value : Push(d)
        BY <3>7
      <4>2. pass = "none" /\ pass' = pass
        BY <4>1 DEF Push
      <4>3. Contents' = Append(Contents, d)
        BY <1>2, <4>1, PushStep
      <4> QED
        BY Zenon, <4>2, <4>3 DEF Abstract!Next, Abstract!Push
    <3> QED
      BY <2>2, <3>2, <3>3, <3>4, <3>5, <3>6, <3>7 DEF Next, Step
  <2> QED
    BY <1>2, <2>1, <2>2
<1> QED
  BY <1>1, <1>2, Inductive, PTL DEF Spec, Implements, Abstract!Spec
=============================================================================
