--------------------------- MODULE PoetSimProofs ---------------------------
(***************************************************************************)
(* What holds of the simulator for any number of nodes and tiers, and any  *)
(* stays and arrival times, and how its schedule compares with the one the *)
(* clients compute (SimVsClient).                                          *)
(***************************************************************************)
EXTENDS SimVsClient, FiniteSetTheorems, TLAPS

(* The quotient rounded up *)
LEMMA CeilDivBounds ==
  ASSUME NEW a \in Nat \ {0}, NEW b \in Nat \ {0}, NEW c \in Nat, a <= c * b
  PROVE  CeilDiv(a, b) \in 1..c
<1> DEFINE q == (a + b - 1) \div b
<1>1. q \in Int /\ a + b - 1 = b * q + ((a + b - 1) % b)
  OBVIOUS
<1>2. (a + b - 1) % b \in 0..(b - 1)
  OBVIOUS
<1> HIDE DEF q
<1>3. q >= 1
  <2> SUFFICES ASSUME q <= 0 PROVE FALSE
    BY <1>1
  <2>1. b * q <= 0
    BY <1>1
  <2> QED BY <1>1, <1>2, <2>1
<1>4. q <= c
  <2> SUFFICES ASSUME q >= c + 1 PROVE FALSE
    BY <1>1
  <2>1. b * q >= b * (c + 1)
    BY <1>1
  <2>2. b * (c + 1) = c * b + b /\ c * b \in Nat /\ b * q \in Int
    BY <1>1
  <2> QED BY <1>1, <1>2, <2>1, <2>2
<1> QED BY <1>1, <1>3, <1>4 DEF CeilDiv, q

LEMMA CeilDivPositive ==
  ASSUME NEW a \in Nat \ {0}, NEW b \in Nat \ {0}
  PROVE  CeilDiv(a, b) \in Nat \ {0}
<1>1. a * b \in Nat /\ a <= a * b
  <2>1. a * (b - 1) >= 0 /\ a * (b - 1) = a * b - a
    OBVIOUS
  <2> QED BY <2>1
<1>2. CeilDiv(a, b) \in 1..a
  BY Zenon, <1>1, CeilDivBounds
<1> QED BY <1>2

-----------------------------------------------------------------------------
(***************************************************************************)
(* Sums over a set, as the fold of the community modules computes them.    *)
(* LeadershipTimeProofs has the first of these lemmas too: LeadershipTime  *)
(* and PoetSim declare constants of the same names, so neither module of   *)
(* proofs can extend the other.                                            *)
(***************************************************************************)

(* What holds of 0, and of n + 1 if of n, holds of every number. *)
LEMMA NatSetInduction ==
  ASSUME NEW S, 0 \in S, \A n \in Nat : n \in S => n + 1 \in S
  PROVE  \A n \in Nat : n \in S
<1> DEFINE T == {n \in Nat : n \notin S}
           R == OpToRel(<, Nat)
<1> SUFFICES ASSUME T # {} PROVE FALSE
  OBVIOUS
<1>1. PICK x \in T : \A y \in T : ~(<<y, x>> \in R)
  <2>1. IsWellFoundedOn(R, Nat)
    BY Zenon, NatLessThanWellFounded
  <2>2. T \subseteq Nat
    OBVIOUS
  <2> HIDE DEF T, R
  <2> QED
    BY Zenon, <2>1, <2>2, WFMin
<1>2. x \in Nat /\ x # 0 /\ x - 1 \in Nat
  OBVIOUS
<1>3. x - 1 \in S
  <2> SUFFICES ASSUME x - 1 \notin S PROVE FALSE
    OBVIOUS
  <2>1. x - 1 \in T
    BY <1>2
  <2>2. <<x - 1, x>> \in R
    BY <1>2 DEF OpToRel
  <2> QED
    BY Zenon, <1>1, <2>1, <2>2
<1>4. x - 1 + 1 \in S
  BY <1>2, <1>3
<1> QED
  BY <1>2, <1>4


Any(s) == CHOOSE x \in s : TRUE
Less(s) == s \ {Any(s)}

(* How SumFunctionOnSet adds up: it takes away any element of what is left. *)
AddsUp(it, f, D) ==
  \A s \in D : it[s] = IF s = {} THEN 0 ELSE f[Any(s)] + it[Less(s)]

LEMMA LessSmaller ==
  ASSUME NEW s, IsFiniteSet(s), s # {}
  PROVE  /\ Any(s) \in s /\ Less(s) \subseteq s /\ IsFiniteSet(Less(s))
         /\ Cardinality(s) \in Nat /\ Cardinality(s) > 0
         /\ Cardinality(Less(s)) = Cardinality(s) - 1
         /\ Less(s) \cup {Any(s)} = s /\ Any(s) \notin Less(s)
<1>1. Any(s) \in s
  BY Zenon DEF Any
<1> HIDE DEF Any
<1>2. IsFiniteSet(Less(s)) /\ Cardinality(Less(s)) = Cardinality(s) - 1
  BY Zenon, <1>1, FS_RemoveElement DEF Less
<1>3. Cardinality(s) \in Nat /\ Cardinality(Less(s)) \in Nat
  BY Zenon, <1>2, FS_CardinalityType
<1>4. Cardinality(s) > 0
  BY <1>2, <1>3
<1>5. Less(s) \subseteq s /\ Less(s) \cup {Any(s)} = s /\ Any(s) \notin Less(s)
  BY Zenon, <1>1 DEF Less
<1> QED
  BY Zenon, <1>1, <1>2, <1>3, <1>4, <1>5

Within(S, n) == {s \in SUBSET S : Cardinality(s) <= n}
Numbers(S) == [S -> Int]

(* There is such a way to add up, *)
LEMMA AddsUpExists ==
  ASSUME NEW S, IsFiniteSet(S), NEW f, \A x \in S : f[x] \in Int
  PROVE  \E it \in Numbers(SUBSET S) : AddsUp(it, f, SUBSET S)
<1> DEFINE H == {n \in Nat : \E g \in Numbers(Within(S, n)) : AddsUp(g, f, Within(S, n))}
<1>0. \A s \in SUBSET S : IsFiniteSet(s) /\ Cardinality(s) \in Nat
  BY Zenon, FS_Subset, FS_CardinalityType
<1>1. 0 \in H
  <2>1. \A s \in Within(S, 0) : s = {}
    <3> TAKE s \in Within(S, 0)
    <3>1. s \in SUBSET S /\ Cardinality(s) <= 0
      BY Zenon DEF Within
    <3>2. Cardinality(s) = 0
      BY <1>0, <3>1
    <3> QED
      BY Zenon, <1>0, <3>1, <3>2, FS_EmptySet
  <2>2. PICK g : g = [s \in Within(S, 0) |-> 0]
    BY Zenon
  <2>3. g \in Numbers(Within(S, 0))
    BY <2>2 DEF Numbers
  <2>4. AddsUp(g, f, Within(S, 0))
    BY Zenon, <2>1, <2>2 DEF AddsUp
  <2> QED
    BY Zenon, <2>3, <2>4
<1>2. \A n \in Nat : n \in H => n + 1 \in H
  <2> SUFFICES ASSUME NEW n \in Nat, n \in H PROVE n + 1 \in H
    OBVIOUS
  <2>1. PICK g \in Numbers(Within(S, n)) : AddsUp(g, f, Within(S, n))
    BY Zenon
  <2>2. PICK h : h = [s \in Within(S, n + 1) |-> IF s = {} THEN 0 ELSE f[Any(s)] + g[Less(s)]]
    BY Zenon
  <2>3. ASSUME NEW s \in Within(S, n + 1), s # {}
        PROVE  Any(s) \in S /\ Less(s) \in Within(S, n) /\ Less(s) \in Within(S, n + 1)
    <3>1. s \in SUBSET S /\ Cardinality(s) <= n + 1
      BY Zenon DEF Within
    <3>2. /\ Any(s) \in s /\ Less(s) \subseteq s /\ Cardinality(Less(s)) = Cardinality(s) - 1
          /\ Cardinality(s) \in Nat
      BY Zenon, <1>0, <2>3, <3>1, LessSmaller
    <3>3. Cardinality(Less(s)) <= n /\ Cardinality(Less(s)) <= n + 1
      BY <3>1, <3>2
    <3> QED
      BY Zenon, <3>1, <3>2, <3>3 DEF Within
  <2>4. h \in Numbers(Within(S, n + 1))
    <3>1. ASSUME NEW s \in Within(S, n + 1)
          PROVE  (IF s = {} THEN 0 ELSE f[Any(s)] + g[Less(s)]) \in Int
      <4>1. CASE s # {}
        <5>1. f[Any(s)] \in Int /\ g[Less(s)] \in Int
          BY <2>3, <4>1 DEF Numbers
        <5> QED
          BY <4>1, <5>1
      <4> QED
        BY <4>1
    <3> QED
      BY <2>2, <3>1 DEF Numbers
  <2>5. AddsUp(h, f, Within(S, n + 1))
    <3> SUFFICES ASSUME NEW s \in Within(S, n + 1), s # {}
                 PROVE  h[Less(s)] = g[Less(s)]
      BY Zenon, <2>2 DEF AddsUp
    <3>1. Less(s) \in Within(S, n) /\ Less(s) \in Within(S, n + 1)
      BY Zenon, <2>3
    <3>2. g[Less(s)] = IF Less(s) = {} THEN 0 ELSE f[Any(Less(s))] + g[Less(Less(s))]
      BY Zenon, <2>1, <3>1 DEF AddsUp
    <3> QED
      BY Zenon, <2>2, <3>1, <3>2
  <2>6. n + 1 \in Nat
    OBVIOUS
  <2> QED
    BY Zenon, <2>4, <2>5, <2>6
<1>3. \A n \in Nat : n \in H
  <2> HIDE DEF H
  <2> QED
    BY Zenon, <1>1, <1>2, NatSetInduction
<1>4. Cardinality(S) \in Nat
  BY Zenon, FS_CardinalityType
<1>5. Within(S, Cardinality(S)) = SUBSET S
  <2>1. \A s \in SUBSET S : Cardinality(s) <= Cardinality(S)
    BY FS_Subset
  <2> QED
    BY Zenon, <2>1 DEF Within
<1> QED
  BY Zenon, <1>3, <1>4, <1>5

(* and only one. *)
LEMMA AddsUpUnique ==
  ASSUME NEW S, IsFiniteSet(S), NEW T \in SUBSET S, NEW f, NEW it1, NEW it2,
         AddsUp(it1, f, SUBSET S), AddsUp(it2, f, SUBSET T)
  PROVE  it1[T] = it2[T]
<1> DEFINE H == {n \in Nat : \A s \in SUBSET T : Cardinality(s) <= n => it1[s] = it2[s]}
<1>0. /\ \A s \in SUBSET T : s \in SUBSET S /\ IsFiniteSet(s) /\ Cardinality(s) \in Nat
      /\ T \in SUBSET T
  BY Zenon, FS_Subset, FS_CardinalityType
<1>1. 0 \in H
  <2> SUFFICES ASSUME NEW s \in SUBSET T, Cardinality(s) <= 0 PROVE it1[s] = it2[s]
    OBVIOUS
  <2>1. Cardinality(s) = 0
    BY <1>0
  <2>2. s = {}
    BY Zenon, <1>0, <2>1, FS_EmptySet
  <2> QED
    BY Zenon, <1>0, <2>2 DEF AddsUp
<1>2. \A n \in Nat : n \in H => n + 1 \in H
  <2> SUFFICES ASSUME NEW n \in Nat, n \in H, NEW s \in SUBSET T, Cardinality(s) <= n + 1
               PROVE  it1[s] = it2[s]
    OBVIOUS
  <2>1. CASE s = {}
    BY Zenon, <1>0, <2>1 DEF AddsUp
  <2>2. CASE s # {}
    <3>1. /\ Less(s) \subseteq s /\ Cardinality(Less(s)) = Cardinality(s) - 1
          /\ Cardinality(s) \in Nat
      BY Zenon, <1>0, <2>2, LessSmaller
    <3>2. Less(s) \in SUBSET T /\ Cardinality(Less(s)) <= n
      BY <3>1
    <3>3. it1[Less(s)] = it2[Less(s)]
      BY Zenon, <3>2
    <3> QED
      BY Zenon, <1>0, <2>2, <3>3 DEF AddsUp
  <2> QED
    BY <2>1, <2>2
<1>3. \A n \in Nat : n \in H
  <2> HIDE DEF H
  <2> QED
    BY Zenon, <1>1, <1>2, NatSetInduction
<1>4. Cardinality(T) <= Cardinality(T)
  BY <1>0
<1> QED
  BY Zenon, <1>0, <1>3, <1>4

LEMMA SumAddsUp ==
  ASSUME NEW S, IsFiniteSet(S), NEW f, \A x \in S : f[x] \in Int
  PROVE  \E it \in Numbers(SUBSET S) :
           AddsUp(it, f, SUBSET S) /\ SumFunctionOnSet(f, S) = it[S]
<1> DEFINE F(it) == [s \in SUBSET S |-> IF s = {} THEN 0 ELSE f[Any(s)] + it[Less(s)]]
           C == CHOOSE it : it = F(it)
<1>1. PICK g \in Numbers(SUBSET S) : AddsUp(g, f, SUBSET S)
  BY Zenon, AddsUpExists
<1>2. g = F(g)
  <2>1. g = [s \in SUBSET S |-> g[s]]
    BY Zenon, <1>1 DEF Numbers
  <2> QED
    BY Zenon, <1>1, <2>1 DEF AddsUp
<1>3. C = F(C)
  BY Zenon, <1>2
<1>4. AddsUp(C, f, SUBSET S)
  <2> HIDE DEF C
  <2>1. \A s \in SUBSET S : C[s] = F(C)[s]
    BY Zenon, <1>3
  <2> QED
    BY Zenon, <2>1 DEF AddsUp
<1>5. SumFunctionOnSet(f, S) = C[S]
  BY Zenon DEF SumFunctionOnSet, FoldFunctionOnSet, MapThenFoldSet, Any, Less
<1> HIDE DEF C
<1>6. C[S] = g[S]
  <2>1. S \in SUBSET S
    OBVIOUS
  <2> QED
    BY SMT, <1>1, <1>4, <2>1, AddsUpUnique
<1> QED
  BY Zenon, <1>1, <1>5, <1>6

(* The sum over nothing, and over one element more. *)
LEMMA SumType ==
  ASSUME NEW S, IsFiniteSet(S), NEW f, \A x \in S : f[x] \in Int
  PROVE  SumFunctionOnSet(f, S) \in Int
<1>1. PICK it \in Numbers(SUBSET S) : SumFunctionOnSet(f, S) = it[S]
  BY Zenon, SumAddsUp
<1> QED
  BY <1>1 DEF Numbers

LEMMA SumEmpty ==
  ASSUME NEW f
  PROVE  SumFunctionOnSet(f, {}) = 0
<1>1. IsFiniteSet({}) /\ \A x \in {} : f[x] \in Int
  BY FS_EmptySet
<1>2. PICK it \in Numbers(SUBSET {}) :
        AddsUp(it, f, SUBSET {}) /\ SumFunctionOnSet(f, {}) = it[{}]
  BY Zenon, <1>1, SumAddsUp
<1>3. {} \in SUBSET {}
  OBVIOUS
<1> QED
  BY Zenon, <1>2, <1>3 DEF AddsUp

LEMMA SumLess ==
  ASSUME NEW S, IsFiniteSet(S), S # {}, NEW f, \A x \in S : f[x] \in Int
  PROVE  SumFunctionOnSet(f, S) = f[Any(S)] + SumFunctionOnSet(f, Less(S))
<1>1. PICK it \in Numbers(SUBSET S) :
        AddsUp(it, f, SUBSET S) /\ SumFunctionOnSet(f, S) = it[S]
  BY Zenon, SumAddsUp
<1>2. IsFiniteSet(Less(S)) /\ Less(S) \subseteq S
  BY Zenon, LessSmaller
<1>3. \A x \in Less(S) : f[x] \in Int
  BY Zenon, <1>2
<1>4. PICK jt \in Numbers(SUBSET Less(S)) :
        AddsUp(jt, f, SUBSET Less(S)) /\ SumFunctionOnSet(f, Less(S)) = jt[Less(S)]
  BY Zenon, <1>2, <1>3, SumAddsUp
<1>5. Less(S) \in SUBSET S /\ S \in SUBSET S
  BY <1>2
<1>6. it[Less(S)] = jt[Less(S)]
  BY SMT, <1>1, <1>4, <1>5, AddsUpUnique
<1> QED
  BY Zenon, <1>1, <1>4, <1>5, <1>6 DEF AddsUp

LEMMA SumAdd ==
  ASSUME NEW S, IsFiniteSet(S), NEW y, y \notin S, NEW f,
         \A x \in S \cup {y} : f[x] \in Int
  PROVE  SumFunctionOnSet(f, S \cup {y}) = SumFunctionOnSet(f, S) + f[y]
<1> DEFINE U == S \cup {y}
           H == {n \in Nat : \A s \in SUBSET U : \A z \in U \ s :
                   Cardinality(s) <= n =>
                     SumFunctionOnSet(f, s \cup {z}) = SumFunctionOnSet(f, s) + f[z]}
<1>0. /\ \A s \in SUBSET U : IsFiniteSet(s) /\ Cardinality(s) \in Nat
      /\ S \in SUBSET U /\ y \in U \ S
  <2>1. IsFiniteSet(U)
    BY Zenon, FS_AddElement
  <2> HIDE DEF U
  <2>2. \A s \in SUBSET U : IsFiniteSet(s) /\ Cardinality(s) \in Nat
    BY Zenon, <2>1, FS_Subset, FS_CardinalityType
  <2> QED
    BY Zenon, <2>2 DEF U
<1>1. \A s \in SUBSET U : /\ \A x \in s : f[x] \in Int
                          /\ SumFunctionOnSet(f, s) \in Int
                          /\ \A z \in U : s \cup {z} \in SUBSET U
  <2> TAKE s \in SUBSET U
  <2>1. \A x \in s : f[x] \in Int
    OBVIOUS
  <2>2. SumFunctionOnSet(f, s) \in Int
    BY Zenon, <1>0, <2>1, SumType
  <2> QED
    BY <2>1, <2>2
<1>u. \A x \in U : f[x] \in Int
  OBVIOUS
<1> HIDE DEF U
<1>s. ASSUME NEW s \in SUBSET U, s # {}
      PROVE  SumFunctionOnSet(f, s) = f[Any(s)] + SumFunctionOnSet(f, Less(s))
  BY Zenon, <1>0, <1>1, <1>s, SumLess
<1>2. 0 \in H
  <2> SUFFICES ASSUME NEW s \in SUBSET U, NEW z \in U \ s, Cardinality(s) <= 0
               PROVE  SumFunctionOnSet(f, s \cup {z}) = SumFunctionOnSet(f, s) + f[z]
    OBVIOUS
  <2>1. Cardinality(s) = 0
    BY <1>0
  <2>2. s = {}
    BY Zenon, <1>0, <2>1, FS_EmptySet
  <2>3. {z} \in SUBSET U /\ {z} # {} /\ {} \in SUBSET U
    OBVIOUS
  <2>4. Any({z}) \in {z}
    BY Zenon, <2>3 DEF Any
  <2>5. Any({z}) = z
    BY Zenon, <2>4
  <2>6. Less({z}) = {}
    BY Zenon, <2>5 DEF Less
  <2>7. SumFunctionOnSet(f, {z}) = f[z] + SumFunctionOnSet(f, {})
    BY Zenon, <1>s, <2>3, <2>5, <2>6
  <2>8. s \cup {z} = {z}
    BY Zenon, <2>2
  <2>9. f[z] \in Int /\ SumFunctionOnSet(f, {}) \in Int
    BY Zenon, <1>1, <1>u, <2>3
  <2> QED
    BY <2>2, <2>7, <2>8, <2>9
<1>3. \A n \in Nat : n \in H => n + 1 \in H
  <2> SUFFICES ASSUME NEW n \in Nat, n \in H, NEW s \in SUBSET U, NEW z \in U \ s,
                      Cardinality(s) <= n + 1
               PROVE  SumFunctionOnSet(f, s \cup {z}) = SumFunctionOnSet(f, s) + f[z]
    <3>1. \A n \in Nat : n + 1 \in Nat
      OBVIOUS
    <3> QED
      BY Zenon, <3>1
  <2>0. \A r \in SUBSET U : \A x \in U \ r : Cardinality(r) <= n =>
          SumFunctionOnSet(f, r \cup {x}) = SumFunctionOnSet(f, r) + f[x]
    BY Zenon
  <2> DEFINE t == s \cup {z}
             a == Any(t)
  <2>1. t \in SUBSET U /\ t # {}
    BY Zenon, <1>1
  <2> HIDE DEF H
  <2>2. /\ a \in t /\ Less(t) = t \ {a} /\ IsFiniteSet(Less(t))
        /\ SumFunctionOnSet(f, t) = f[a] + SumFunctionOnSet(f, Less(t))
    <3> HIDE DEF t
    <3>1. IsFiniteSet(t)
      BY Zenon, <1>0, <2>1
    <3>2. a \in t /\ IsFiniteSet(Less(t))
      BY Zenon, <2>1, <3>1, LessSmaller
    <3> QED
      BY Zenon, <1>s, <2>1, <3>2 DEF Less
  <2> HIDE DEF a
  <2>3. CASE a = z
    <3>1. Less(t) = s
      BY Zenon, <2>2, <2>3
    <3>2. SumFunctionOnSet(f, s) \in Int /\ f[z] \in Int
      BY Zenon, <1>1, <1>u
    <3> QED
      BY <2>2, <2>3, <3>1, <3>2
  <2>4. CASE a # z
    <3>1. a \in s /\ a \in U
      BY Zenon, <2>1, <2>2, <2>4
    <3> DEFINE r == s \ {a}
    <3>2. /\ r \in SUBSET U /\ z \in U \ r /\ a \in U \ r
          /\ r \cup {z} = Less(t) /\ r \cup {a} = s
      BY Zenon, <2>2, <2>4, <3>1
    <3>3. Cardinality(r) <= n
      <4>1. Cardinality(r) = Cardinality(s) - 1
        BY Zenon, <1>0, <3>1, FS_RemoveElement
      <4> QED
        BY <1>0, <4>1
    <3> HIDE DEF r, t
    <3>4. /\ SumFunctionOnSet(f, Less(t)) = SumFunctionOnSet(f, r) + f[z]
          /\ SumFunctionOnSet(f, s) = SumFunctionOnSet(f, r) + f[a]
      BY Zenon, <2>0, <3>2, <3>3
    <3>5. SumFunctionOnSet(f, r) \in Int /\ f[z] \in Int /\ f[a] \in Int
      BY Zenon, <1>1, <1>u, <3>1, <3>2
    <3>6. SumFunctionOnSet(f, t) = SumFunctionOnSet(f, s) + f[z]
      BY <2>2, <3>4, <3>5
    <3> QED
      BY <3>6 DEF t
  <2> QED
    BY <2>3, <2>4
<1>4. \A n \in Nat : n \in H
  <2> HIDE DEF H
  <2> QED
    BY Zenon, <1>2, <1>3, NatSetInduction
<1>5. Cardinality(S) \in Nat /\ Cardinality(S) <= Cardinality(S)
  <2>1. Cardinality(S) \in Nat
    BY Zenon, <1>0
  <2> QED
    BY <2>1
<1> QED
  BY Zenon, <1>0, <1>4, <1>5

(* Elements that count nothing may be left out, and what counts more adds up to
   more. *)
LEMMA SumAtMost ==
  ASSUME NEW D, IsFiniteSet(D), NEW P \in SUBSET D, NEW f, NEW g,
         \A x \in D : f[x] \in Nat, \A x \in P : g[x] \in Nat /\ f[x] <= g[x],
         \A x \in D \ P : f[x] = 0
  PROVE  /\ SumFunctionOnSet(f, D) \in Nat
         /\ SumFunctionOnSet(f, D) <= SumFunctionOnSet(g, P)
<1> DEFINE H == {n \in Nat : \A s \in SUBSET D : Cardinality(s) <= n =>
                               /\ SumFunctionOnSet(f, s) \in Nat
                               /\ SumFunctionOnSet(f, s) <= SumFunctionOnSet(g, s \cap P)}
<1>0. \A s \in SUBSET D : /\ IsFiniteSet(s) /\ Cardinality(s) \in Nat
                          /\ s \cap P \in SUBSET D
  BY Zenon, FS_Subset, FS_CardinalityType
<1>i. /\ \A x \in Nat : x \in Int
      /\ 0 \in Nat /\ 0 <= 0
  OBVIOUS
<1>1. 0 \in H
  <2> SUFFICES ASSUME NEW s \in SUBSET D, Cardinality(s) <= 0
               PROVE  /\ SumFunctionOnSet(f, s) \in Nat
                      /\ SumFunctionOnSet(f, s) <= SumFunctionOnSet(g, s \cap P)
    BY Zenon, <1>i
  <2>1. Cardinality(s) = 0
    BY <1>0
  <2>2. s = {}
    BY Zenon, <1>0, <2>1, FS_EmptySet
  <2>3. s \cap P = {}
    BY Zenon, <2>2
  <2>4. SumFunctionOnSet(f, {}) = 0 /\ SumFunctionOnSet(g, {}) = 0
    BY Zenon, SumEmpty
  <2> QED
    BY Zenon, <1>i, <2>2, <2>3, <2>4
<1>2. \A n \in Nat : n \in H => n + 1 \in H
  <2> SUFFICES ASSUME NEW n \in Nat, n \in H, NEW s \in SUBSET D, Cardinality(s) <= n + 1
               PROVE  /\ SumFunctionOnSet(f, s) \in Nat
                      /\ SumFunctionOnSet(f, s) <= SumFunctionOnSet(g, s \cap P)
    <3>1. \A n \in Nat : n + 1 \in Nat
      OBVIOUS
    <3> QED
      BY Zenon, <3>1
  <2>0. \A r \in SUBSET D : Cardinality(r) <= n =>
          /\ SumFunctionOnSet(f, r) \in Nat
          /\ SumFunctionOnSet(f, r) <= SumFunctionOnSet(g, r \cap P)
    BY Zenon
  <2> HIDE DEF H
  <2>1. CASE s = {}
    <3>1. s \cap P = {}
      BY Zenon, <2>1
    <3>2. SumFunctionOnSet(f, {}) = 0 /\ SumFunctionOnSet(g, {}) = 0
      BY Zenon, SumEmpty
    <3> QED
      BY Zenon, <1>i, <2>1, <3>1, <3>2
  <2>2. CASE s # {}
    <3>1. PICK z \in s : TRUE
      BY Zenon, <2>2
    <3> DEFINE r == s \ {z}
    <3>2. /\ r \in SUBSET D /\ z \notin r /\ r \cup {z} = s /\ z \in D
          /\ z \notin r \cap P /\ r \cap P \in SUBSET D
      BY Zenon, <3>1
    <3>3. Cardinality(r) <= n
      <4>1. Cardinality(s \ {z}) = Cardinality(s) - 1
        BY Zenon, <1>0, <3>1, FS_RemoveElement
      <4>2. Cardinality(s) \in Nat
        BY Zenon, <1>0
      <4> QED
        BY <4>1, <4>2
    <3>4. /\ z \in P => s \cap P = (r \cap P) \cup {z}
          /\ z \notin P => s \cap P = r \cap P
      BY Zenon, <3>1
    <3> HIDE DEF r
    <3>5. /\ SumFunctionOnSet(f, r) \in Nat
          /\ SumFunctionOnSet(f, r) <= SumFunctionOnSet(g, r \cap P)
      BY Zenon, <2>0, <3>2, <3>3
    <3>6. SumFunctionOnSet(f, s) = SumFunctionOnSet(f, r) + f[z]
      <4>1. IsFiniteSet(r) /\ \A x \in r \cup {z} : f[x] \in Int
        BY Zenon, <1>0, <1>i, <3>2
      <4> QED
        BY Zenon, <3>2, <4>1, SumAdd
    <3>7. IsFiniteSet(r \cap P) /\ \A x \in r \cap P : g[x] \in Int
      BY Zenon, <1>0, <1>i, <3>2
    <3>8. SumFunctionOnSet(g, r \cap P) \in Int
      BY Zenon, <3>7, SumType
    <3>9. CASE z \in P
      <4>1. \A x \in (r \cap P) \cup {z} : g[x] \in Int
        BY Zenon, <1>i, <3>7, <3>9
      <4>2. SumFunctionOnSet(g, s \cap P) = SumFunctionOnSet(g, r \cap P) + g[z]
        BY Zenon, <3>2, <3>4, <3>7, <3>9, <4>1, SumAdd
      <4>3. f[z] \in Nat /\ g[z] \in Nat /\ f[z] <= g[z]
        BY Zenon, <3>2, <3>9
      <4> QED
        BY <3>5, <3>6, <3>8, <4>2, <4>3
    <3>10. CASE z \notin P
      <4>1. f[z] = 0
        BY Zenon, <3>2, <3>10
      <4>2. SumFunctionOnSet(f, s) = SumFunctionOnSet(f, r)
        BY <3>5, <3>6, <4>1
      <4>3. s \cap P = r \cap P
        BY Zenon, <3>4, <3>10
      <4> QED
        BY Zenon, <3>5, <4>2, <4>3
    <3> QED
      BY Zenon, <3>9, <3>10
  <2> QED
    BY Zenon, <2>1, <2>2
<1>3. \A n \in Nat : n \in H
  <2> HIDE DEF H
  <2> QED
    BY Zenon, <1>1, <1>2, NatSetInduction
<1>4. Cardinality(D) \in Nat /\ Cardinality(D) <= Cardinality(D) /\ D \in SUBSET D
  <2>1. D \in SUBSET D
    OBVIOUS
  <2>2. Cardinality(D) \in Nat
    BY Zenon, <1>0, <2>1
  <2> QED
    BY <2>1, <2>2
<1>5. D \cap P = P
  OBVIOUS
<1> QED
  BY Zenon, <1>3, <1>4, <1>5

(* A sum is no less than each of what it adds up. *)
LEMMA SumNoLess ==
  ASSUME NEW S, IsFiniteSet(S), NEW f, \A x \in S : f[x] \in Nat, NEW y \in S
  PROVE  SumFunctionOnSet(f, S) \in Nat /\ SumFunctionOnSet(f, S) >= f[y]
<1> DEFINE r == S \ {y}
<1>1. IsFiniteSet(r) /\ y \notin r /\ r \cup {y} = S /\ r \in SUBSET r
  BY Zenon, FS_RemoveElement
<1>2. /\ \A x \in r : f[x] \in Nat /\ f[x] <= f[x]
      /\ \A x \in r \cup {y} : f[x] \in Int
      /\ f[y] \in Nat
  OBVIOUS
<1> HIDE DEF r
<1>3. SumFunctionOnSet(f, r) \in Nat
  <2>1. \A x \in r \ r : f[x] = 0
    OBVIOUS
  <2> QED
    BY Zenon, <1>1, <1>2, <2>1, SumAtMost
<1>4. SumFunctionOnSet(f, S) = SumFunctionOnSet(f, r) + f[y]
  BY Zenon, <1>1, <1>2, SumAdd
<1> QED
  BY <1>2, <1>3, <1>4

-----------------------------------------------------------------------------
(***************************************************************************)
(* The simulator and the clients.  If all arrive together the quanta are   *)
(* computed once for all, from the stays T: what follows is the round      *)
(* robin of such quanta, n having had r turns, or every node n reps[n].    *)
(***************************************************************************)

Most(a, b) == IF a <= b THEN b ELSE a

TierOf(T, n) == CeilDiv(Tiers * T[n], SgxMax) - 1
Members(T, t) == {n \in Node : TierOf(T, n) = t}
QuantumOf(T, n) ==
  LET c == Cardinality(Members(T, TierOf(T, n)))
  IN  CeilDiv(SumFunctionOnSet(T, Members(T, TierOf(T, n))), c * c)

(* What is left of the stay of n, and the turn it then has *)
Rest(T, n, r) == Most(T[n] - r * QuantumOf(T, n), 0)
TurnOf(T, n, r) == Least(QuantumOf(T, n), Rest(T, n, r))

(* The turns, by place in the first queue and number, and those had *)
Pairs == (1..N) \X (0..SgxMax)
Turns(T) == [x \in Pairs |-> TurnOf(T, x[1] - 1, x[2])]
Played(reps) == {x \in Pairs : x[2] < reps[x[1] - 1]}

(* What of a turn a client counts, and its leadership time *)
Slices(T, n) ==
  [x \in Pairs |-> Least(TurnOf(T, x[1] - 1, x[2]),
                         Rest(T, n, IF x[1] <= n + 1 THEN x[2] ELSE x[2] + 1))]
Lead(T, n) == SumFunctionOnSet(Slices(T, n), Pairs)

(* m has its next turn before n has. *)
Before(reps, m, n) ==
  \/ reps[m] = reps[n] /\ m < n
  \/ reps[n] = reps[m] + 1 /\ n < m

LEMMA PairsFinite ==
  /\ IsFiniteSet(Pairs) /\ IsFiniteSet(Node)
  /\ \A x \in Pairs : /\ x[1] \in 1..N /\ x[2] \in 0..SgxMax /\ x[2] \in Nat
                      /\ x[1] - 1 \in Node /\ x = <<x[1], x[2]>>
                      /\ (x[1] - 1) + 1 = x[1]
  /\ \A n \in Node : n + 1 \in 1..N /\ (n + 1) - 1 = n /\ n \in Nat
<1>1. IsFiniteSet(1..N) /\ IsFiniteSet(0..SgxMax) /\ IsFiniteSet(0..(N - 1))
  BY FS_Interval, SizeAssumption
<1>2. IsFiniteSet(Pairs)
  BY Zenon, <1>1, FS_Product DEF Pairs
<1>3. \A x \in Pairs : x[1] \in 1..N /\ x[2] \in 0..SgxMax /\ x = <<x[1], x[2]>>
  BY DEF Pairs
<1>4. /\ \A a \in 1..N : a - 1 \in Node /\ (a - 1) + 1 = a
      /\ \A a \in 0..SgxMax : a \in Nat
  BY SizeAssumption DEF Node
<1>5. \A n \in Node : n + 1 \in 1..N /\ (n + 1) - 1 = n /\ n \in Nat
  BY SizeAssumption DEF Node
<1> QED
  BY Zenon, <1>1, <1>2, <1>3, <1>4, <1>5 DEF Node

LEMMA StaysAreNumbers ==
  ASSUME NEW T \in [Node -> Stay], NEW n \in Node
  PROVE  T[n] \in Nat /\ T[n] > 0 /\ T[n] <= SgxMax
<1>1. T[n] \in Stay
  OBVIOUS
<1> QED
  BY <1>1, SizeAssumption DEF Stay

LEMMA MembersSum ==
  ASSUME NEW T \in [Node -> Stay], NEW n \in Node
  PROVE  LET S == Members(T, TierOf(T, n))
         IN  /\ n \in S /\ IsFiniteSet(S)
             /\ SumFunctionOnSet(T, S) \in Nat /\ SumFunctionOnSet(T, S) > 0
             /\ Cardinality(S) \in Nat /\ Cardinality(S) > 0
<1> DEFINE S == Members(T, TierOf(T, n))
<1>1. S \in SUBSET Node /\ n \in S
  BY Zenon DEF Members
<1>2. IsFiniteSet(S)
  BY Zenon, <1>1, PairsFinite, FS_Subset
<1> HIDE DEF S
<1>3. \A x \in S : T[x] \in Nat
  BY Zenon, <1>1, StaysAreNumbers
<1>4. SumFunctionOnSet(T, S) \in Nat /\ SumFunctionOnSet(T, S) >= T[n]
  BY Zenon, <1>1, <1>2, <1>3, SumNoLess
<1>5. SumFunctionOnSet(T, S) > 0
  BY <1>4, StaysAreNumbers
<1>6. Cardinality(S) \in Nat /\ Cardinality(S) # 0
  BY Zenon, <1>1, <1>2, FS_CardinalityType, FS_EmptySet
<1>7. Cardinality(S) > 0
  BY <1>6
<1> QED
  BY Zenon, <1>1, <1>2, <1>4, <1>5, <1>6, <1>7 DEF S

LEMMA QuantumType ==
  ASSUME NEW T \in [Node -> Stay], NEW n \in Node
  PROVE  QuantumOf(T, n) \in Nat /\ QuantumOf(T, n) > 0
<1> DEFINE S == Members(T, TierOf(T, n))
           c == Cardinality(S)
           s == SumFunctionOnSet(T, S)
<1>1. s \in Nat /\ s > 0 /\ c \in Nat /\ c > 0
  BY Zenon, MembersSum
<1>2. QuantumOf(T, n) = CeilDiv(s, c * c)
  BY Zenon DEF QuantumOf
<1> HIDE DEF s, c, S
<1>3. s \in Nat \ {0} /\ c * c \in Nat \ {0}
  BY <1>1
<1>4. CeilDiv(s, c * c) \in Nat \ {0}
  BY Zenon, <1>3, CeilDivPositive
<1> QED
  BY <1>2, <1>4

(* After one more turn, and after none *)
LEMMA RestAfter ==
  ASSUME NEW T \in [Node -> Stay], NEW n \in Node, NEW r \in Nat
  PROVE  /\ Rest(T, n, r) \in Nat /\ TurnOf(T, n, r) \in Nat
         /\ TurnOf(T, n, r) <= Rest(T, n, r)
         /\ Rest(T, n, r + 1) \in Nat
         /\ Rest(T, n, r) = Rest(T, n, r + 1) + TurnOf(T, n, r)
         /\ Rest(T, n, r) > 0 => r \in 0..SgxMax
         /\ Rest(T, n, 0) = T[n]
<1> DEFINE q == QuantumOf(T, n)
           a == T[n]
           p == r * q
<1>1. q \in Nat /\ q > 0 /\ a \in Nat /\ a > 0 /\ a <= SgxMax /\ SgxMax \in Nat
  BY Zenon, QuantumType, StaysAreNumbers, SizeAssumption
<1>2. /\ Rest(T, n, r) = Most(a - p, 0) /\ Rest(T, n, r + 1) = Most(a - (r + 1) * q, 0)
      /\ Rest(T, n, 0) = Most(a - 0 * q, 0)
      /\ TurnOf(T, n, r) = Least(q, Rest(T, n, r))
  BY Zenon DEF Rest, TurnOf
<1> HIDE DEF q, a
<1>3. p \in Nat /\ p >= r /\ (r + 1) * q = p + q /\ 0 * q = 0
  <2>1. r * (q - 1) >= 0 /\ r * (q - 1) = r * q - r
    BY <1>1
  <2>2. r * q \in Nat /\ (r + 1) * q = r * q + q /\ 0 * q = 0
    BY <1>1
  <2> QED
    BY <2>1, <2>2
<1> HIDE DEF p
<1>4. Rest(T, n, r + 1) = Most(a - (p + q), 0) /\ Rest(T, n, 0) = Most(a, 0)
  BY <1>1, <1>2, <1>3
<1> QED
  BY <1>1, <1>2, <1>3, <1>4 DEF Most, Least, a

(* More turns leave no more. *)
LEMMA RestLess ==
  ASSUME NEW T \in [Node -> Stay], NEW n \in Node, NEW r \in Nat, NEW s \in Nat,
         r <= s, Rest(T, n, r) = 0
  PROVE  Rest(T, n, s) = 0
<1> DEFINE q == QuantumOf(T, n)
           a == T[n]
<1>1. q \in Nat /\ q > 0 /\ a \in Nat
  BY Zenon, QuantumType, StaysAreNumbers
<1>2. Rest(T, n, r) = Most(a - r * q, 0) /\ Rest(T, n, s) = Most(a - s * q, 0)
  BY Zenon DEF Rest
<1> HIDE DEF q, a
<1>3. r * q \in Nat /\ s * q \in Nat /\ r * q <= s * q
  <2>1. (s - r) * q >= 0 /\ (s - r) * q = s * q - r * q
    BY <1>1
  <2>2. r * q \in Nat /\ s * q \in Nat
    BY <1>1
  <2> QED
    BY <2>1, <2>2
<1>4. \A b, c \in Nat : b <= c /\ Most(a - b, 0) = 0 => Most(a - c, 0) = 0
  BY <1>1 DEF Most
<1> QED
  BY Zenon, <1>2, <1>3, <1>4

LEMMA TurnsType ==
  ASSUME NEW T \in [Node -> Stay]
  PROVE  \A x \in Pairs : Turns(T)[x] \in Nat /\ Turns(T)[x] \in Int
<1> TAKE x \in Pairs
<1>1. Turns(T)[x] = TurnOf(T, x[1] - 1, x[2])
  BY Zenon DEF Turns
<1>2. x[1] - 1 \in Node /\ x[2] \in Nat
  BY Zenon, PairsFinite
<1>3. TurnOf(T, x[1] - 1, x[2]) \in Nat
  BY Zenon, <1>2, RestAfter
<1> QED
  BY <1>1, <1>3

LEMMA PlayedNone ==
  ASSUME NEW T, NEW reps, \A n \in Node : reps[n] = 0
  PROVE  SumFunctionOnSet(Turns(T), Played(reps)) = 0
<1>1. \A a \in Nat : ~(a < 0)
  OBVIOUS
<1>2. Played(reps) = {}
  BY Zenon, <1>1, PairsFinite DEF Played
<1> QED
  BY Zenon, <1>2, SumEmpty

(* A turn of m is the next one of m. *)
LEMMA PlayedMore ==
  ASSUME NEW T \in [Node -> Stay], NEW reps \in [Node -> Nat], NEW m \in Node,
         reps[m] \in 0..SgxMax
  PROVE  SumFunctionOnSet(Turns(T), Played([reps EXCEPT ![m] = @ + 1])) =
           SumFunctionOnSet(Turns(T), Played(reps)) + TurnOf(T, m, reps[m])
<1> DEFINE more == [reps EXCEPT ![m] = @ + 1]
           y == <<m + 1, reps[m]>>
<1>1. y \in Pairs /\ y[1] - 1 = m /\ y[2] = reps[m]
  <2>1. m + 1 \in 1..N /\ (m + 1) - 1 = m
    BY Zenon, PairsFinite
  <2> QED
    BY <2>1 DEF Pairs
<1>2. /\ more[m] = reps[m] + 1 /\ reps[m] \in Nat
      /\ \A n \in Node : n # m => more[n] = reps[n]
  OBVIOUS
<1> HIDE DEF more
<1>3. ASSUME NEW x \in Pairs PROVE x \in Played(more) <=> x \in Played(reps) \/ x = y
  <2>1. /\ x[1] - 1 \in Node /\ x[2] \in Nat /\ x = <<x[1], x[2]>> /\ (x[1] - 1) + 1 = x[1]
    BY Zenon, PairsFinite
  <2>2. /\ x \in Played(more) <=> x[2] < more[x[1] - 1]
        /\ x \in Played(reps) <=> x[2] < reps[x[1] - 1]
    BY Zenon DEF Played
  <2>3. CASE x[1] - 1 = m
    <3>1. x = y <=> x[2] = reps[m]
      BY Zenon, <1>1, <2>1, <2>3
    <3>2. \A a, b \in Nat : a < b + 1 <=> a < b \/ a = b
      OBVIOUS
    <3>3. x[2] < reps[m] + 1 <=> x[2] < reps[m] \/ x[2] = reps[m]
      BY Zenon, <1>2, <2>1, <3>2
    <3>4. x[2] < more[x[1] - 1] <=> x[2] < reps[m] \/ x[2] = reps[m]
      BY Zenon, <1>2, <2>3, <3>3
    <3>5. x[2] < reps[x[1] - 1] <=> x[2] < reps[m]
      BY Zenon, <2>3
    <3> HIDE DEF y
    <3> QED
      BY Zenon, <2>2, <3>1, <3>4, <3>5
  <2>4. CASE x[1] - 1 # m
    <3>1. x # y
      BY Zenon, <1>1, <2>4
    <3> QED
      BY Zenon, <1>2, <2>1, <2>2, <2>4, <3>1
  <2> QED
    BY Zenon, <2>3, <2>4
<1>4. Played(more) = Played(reps) \cup {y}
  <2>1. Played(more) \in SUBSET Pairs /\ Played(reps) \in SUBSET Pairs
    BY Zenon DEF Played
  <2> HIDE DEF y
  <2> QED
    BY Zenon, <1>1, <1>3, <2>1
<1>5. y \notin Played(reps)
  <2>1. \A a \in Nat : ~(a < a)
    OBVIOUS
  <2> QED
    BY Zenon, <1>1, <1>2, <2>1 DEF Played
<1>6. Turns(T)[y] = TurnOf(T, m, reps[m])
  BY Zenon, <1>1 DEF Turns
<1>7. IsFiniteSet(Played(reps)) /\ \A x \in Played(reps) \cup {y} : Turns(T)[x] \in Int
  <2>1. Played(reps) \in SUBSET Pairs
    BY Zenon DEF Played
  <2>2. IsFiniteSet(Played(reps))
    BY Zenon, <2>1, PairsFinite, FS_Subset
  <2> HIDE DEF y
  <2> QED
    BY Zenon, <1>1, <2>1, <2>2, TurnsType
<1>8. SumFunctionOnSet(Turns(T), Played(reps) \cup {y}) =
        SumFunctionOnSet(Turns(T), Played(reps)) + Turns(T)[y]
  <2> HIDE DEF y
  <2> QED
    BY Zenon, <1>5, <1>7, SumAdd
<1> QED
  BY Zenon, <1>4, <1>6, <1>8 DEF more

(* When the stay of n is over, and whoever still waits had as many turns as n if
   it comes before n and one less if it comes after, then all that the client n
   counts has been played. *)
LEMMA LeadPlayed ==
  ASSUME NEW T \in [Node -> Stay], NEW reps \in [Node -> Nat], NEW n \in Node,
         Rest(T, n, reps[n]) = 0,
         \A m \in Node : m = n \/ Rest(T, m, reps[m]) = 0 \/ Before(reps, m, n)
  PROVE  Lead(T, n) <= SumFunctionOnSet(Turns(T), Played(reps))
<1>1. ASSUME NEW x \in Pairs
      PROVE  /\ Slices(T, n)[x] \in Nat /\ Slices(T, n)[x] <= Turns(T)[x]
             /\ x \notin Played(reps) => Slices(T, n)[x] = 0
  <2> DEFINE m == x[1] - 1
             r == x[2]
             s == IF x[1] <= n + 1 THEN r ELSE r + 1
             t == TurnOf(T, m, r)
             l == Rest(T, n, s)
  <2>1. m \in Node /\ r \in Nat /\ m + 1 = x[1] /\ n \in Nat /\ m \in Nat
    BY Zenon, PairsFinite
  <2>2. Slices(T, n)[x] = Least(t, l) /\ Turns(T)[x] = t
    BY Zenon DEF Slices, Turns
  <2>3. s = (IF m <= n THEN r ELSE r + 1) /\ s \in Nat
    <3> HIDE DEF m, r
    <3>1. m + 1 <= n + 1 <=> m <= n
      BY <2>1
    <3>2. r + 1 \in Nat
      BY <2>1
    <3> QED
      BY Zenon, <2>1, <3>1, <3>2
  <2> HIDE DEF s
  <2>4. t \in Nat /\ l \in Nat /\ t <= Rest(T, m, r) /\ Rest(T, m, r) \in Nat
    BY Zenon, <2>1, <2>3, RestAfter
  <2> HIDE DEF t, l
  <2>5. ASSUME x \notin Played(reps) PROVE t = 0 \/ l = 0
    <3>1. ~(r < reps[m]) /\ reps[m] \in Nat /\ reps[n] \in Nat
      BY Zenon, <2>1, <2>5 DEF Played
    <3> HIDE DEF m, r
    <3>2. reps[m] <= r
      BY <2>1, <3>1
    <3>3. CASE Rest(T, m, reps[m]) = 0
      <4>1. Rest(T, m, r) = 0
        BY Zenon, <2>1, <3>1, <3>2, <3>3, RestLess
      <4> QED
        BY <2>4, <4>1
    <3>4. CASE m = n \/ Before(reps, m, n)
      <4>1. reps[n] <= s
        BY <2>1, <2>3, <3>1, <3>2, <3>4 DEF Before
      <4>2. Rest(T, n, s) = 0
        BY Zenon, <2>3, <3>1, <4>1, RestLess
      <4> QED
        BY Zenon, <4>2 DEF l
    <3> QED
      BY Zenon, <2>1, <3>3, <3>4
  <2>6. \A a, b \in Nat : /\ Least(a, b) \in Nat /\ Least(a, b) <= a
                          /\ a = 0 \/ b = 0 => Least(a, b) = 0
    BY DEF Least
  <2>7. /\ Least(t, l) \in Nat /\ Least(t, l) <= t
        /\ t = 0 \/ l = 0 => Least(t, l) = 0
    BY Zenon, <2>4, <2>6
  <2> HIDE DEF m, r
  <2> QED
    BY Zenon, <2>2, <2>5, <2>7
<1>2. Played(reps) \in SUBSET Pairs
  BY Zenon DEF Played
<1>3. /\ \A x \in Pairs : Slices(T, n)[x] \in Nat
      /\ \A x \in Played(reps) : Turns(T)[x] \in Nat /\ Slices(T, n)[x] <= Turns(T)[x]
      /\ \A x \in Pairs \ Played(reps) : Slices(T, n)[x] = 0
  BY Zenon, <1>1, <1>2, TurnsType
<1> QED
  BY Zenon, <1>2, <1>3, PairsFinite, SumAtMost DEF Lead

LEMMA LeadType ==
  ASSUME NEW T \in [Node -> Stay], NEW n \in Node
  PROVE  Lead(T, n) \in Nat
<1>1. \A a \in Nat : a + 1 \in Nat /\ a <= a
  OBVIOUS
<1>2. \A x \in Pairs : Slices(T, n)[x] \in Nat
  BY Zenon, <1>1, PairsFinite, RestAfter DEF Slices, Least
<1> QED
  BY Zenon, <1>1, <1>2, PairsFinite, SumAtMost DEF Lead

-----------------------------------------------------------------------------
(* The inductive invariant *)

Arriving == pc \in {"arrive", "sum"}
In(s, n) == \E x \in DOMAIN s : s[x] = n
Distinct(s) == \A x, y \in DOMAIN s : s[x] = s[y] => x = y
InQueue(n) == In(queue, n)

(* check_node_arrive has taken the node in. *)
Joined(n) ==
  \/ sgx_table[n].arrival_time < current_time
  \/ sgx_table[n].arrival_time = current_time /\ (Arriving => n < i)

(* The loops: the turn of current_node fits in its stay and in the log. *)
Turn ==
  /\ pc = "turn" => current_node # NoNode
  /\ pc \in {"loop", "waiting_time", "done"} => current_node = NoNode
  /\ pc = "sum" => i < N /\ sgx_table[i].arrival_time = current_time
  /\ pc \notin {"arrive", "sum"} => i = 0
  /\ current_node = NoNode => current_time <= Limit + SgxMax - 1
  /\ current_node # NoNode => /\ qt <= sgx_table[current_node].time_left
                              /\ current_time + qt <= Limit + SgxMax - 1

(* Who waits is in the queue, except the node whose turn it is. *)
Queued ==
  /\ \A n \in Node : ~Joined(n) => /\ sgx_table[n].time_left = sgx_table[n].sgx_time
                                   /\ ~InQueue(n) /\ n # current_node
  /\ \A n \in Node : InQueue(n) => sgx_table[n].time_left > 0 /\ n # current_node
  /\ \A n \in Node : Joined(n) /\ sgx_table[n].time_left > 0 => InQueue(n) \/ n = current_node
  /\ Distinct(queue)

(* The sums count every node looked at. *)
Sums ==
  pc = "sum" =>
    /\ \A t \in Tier : sumT[t] > 0 => tier_active_nodes[t] > 0
    /\ \A n \in Node : n < k /\ current_time >= sgx_table[n].arrival_time =>
         sumT[calc_tier_number(sgx_table[n])] >= sgx_table[n].time_left

(* A node that was taken in has a quantum. *)
Quanta ==
  \A n \in Node : InQueue(n) \/ n = current_node =>
    tier_quantum_time[calc_tier_number(sgx_table[n])] > 0

Leads ==
  nodes_rejoin =>
    /\ \A n \in Node : n \in Finished => stays[n] = sgx_table[n].n_leadership + 1
    /\ \A n \in Node : n \notin Finished => stays[n] = sgx_table[n].n_leadership
    /\ \A m, n \in Finished : m = n
    /\ pc \in {"arrive", "sum", "turn"} => \A n \in Finished : n = current_node

IInv == TypeOK /\ Turn /\ Queued /\ Sums /\ Quanta /\ Leads
-----------------------------------------------------------------------------
(* Tiers and sequences *)

(* The tier of a stay within sgx_max is one of the tiers. *)
LEMMA TierType ==
  ASSUME NEW node, node.sgx_time \in Stay
  PROVE  calc_tier_number(node) \in Tier
<1> DEFINE s == node.sgx_time
<1>1. s \in Nat /\ s > 0 /\ s <= SgxMax
  BY SizeAssumption DEF Stay
<1> HIDE DEF s
<1>2. Tiers * s \in Nat /\ Tiers * s > 0 /\ Tiers * s <= Tiers * SgxMax
  BY <1>1, SizeAssumption
<1>3. CeilDiv(Tiers * s, SgxMax) \in 1..Tiers
  BY <1>2, CeilDivBounds, SizeAssumption
<1> QED BY <1>3, SizeAssumption DEF calc_tier_number, Tier, s

LEMMA AppendIn ==
  ASSUME NEW s \in Seq(Node), NEW e \in Node, Distinct(s), ~In(s, e)
  PROVE  /\ Append(s, e) \in Seq(Node) /\ Distinct(Append(s, e))
         /\ \A n : In(Append(s, e), n) <=> In(s, n) \/ n = e
<1> DEFINE t == Append(s, e)
<1>1. /\ t \in Seq(Node) /\ Len(t) = Len(s) + 1 /\ Len(s) \in Nat
      /\ DOMAIN t = DOMAIN s \cup {Len(t)} /\ t[Len(t)] = e
      /\ \A x \in DOMAIN s : t[x] = s[x] /\ x # Len(t)
  OBVIOUS
<1> HIDE DEF t
<1> QED BY <1>1 DEF In, Distinct, t

LEMMA TailIn ==
  ASSUME NEW s \in Seq(Node), s # <<>>, Distinct(s)
  PROVE  /\ Head(s) \in Node /\ In(s, Head(s))
         /\ Tail(s) \in Seq(Node) /\ Distinct(Tail(s))
         /\ \A n : In(Tail(s), n) <=> In(s, n) /\ n # Head(s)
<1> DEFINE t == Tail(s)
<1>1. /\ Head(s) = s[1] /\ 1 \in DOMAIN s /\ t \in Seq(Node) /\ Head(s) \in Node
      /\ DOMAIN s = 1..Len(s) /\ Len(s) \in Nat /\ DOMAIN t = 1..(Len(s) - 1)
      /\ \A x \in DOMAIN t : t[x] = s[x + 1] /\ x + 1 \in DOMAIN s /\ x \in Nat
  OBVIOUS
<1> HIDE DEF t
<1>2. Distinct(t)
  <2> SUFFICES ASSUME NEW x \in DOMAIN t, NEW y \in DOMAIN t, t[x] = t[y] PROVE x = y
    BY Zenon DEF Distinct
  <2>1. x + 1 = y + 1
    BY <1>1 DEF Distinct
  <2> QED BY <1>1, <2>1
<1>3. ASSUME NEW n, In(t, n) PROVE In(s, n) /\ n # Head(s)
  <2>1. PICK x \in DOMAIN t : t[x] = n
    BY Zenon, <1>3 DEF In
  <2>2. s[x + 1] = n /\ x + 1 \in DOMAIN s /\ x + 1 # 1
    BY <1>1, <2>1
  <2> QED BY <1>1, <2>2 DEF In, Distinct
<1>4. ASSUME NEW n, In(s, n), n # Head(s) PROVE In(t, n)
  <2>1. PICK x \in DOMAIN s : s[x] = n
    BY Zenon, <1>4 DEF In
  <2>2. x # 1
    BY Zenon, <1>1, <1>4, <2>1
  <2>3. x - 1 \in DOMAIN t /\ (x - 1) + 1 = x
    BY <1>1, <2>2
  <2> QED BY <1>1, <2>1, <2>3 DEF In
<1>5. In(s, Head(s))
  BY Zenon, <1>1 DEF In
<1> QED BY <1>1, <1>2, <1>3, <1>4, <1>5 DEF t
(* The numbers in a state *)
LEMMA Facts ==
  ASSUME TypeOK
  PROVE  /\ N \in Nat /\ N > 0 /\ SgxMax \in Nat /\ SgxMax > 0 /\ Limit \in Nat
         /\ current_time \in Nat /\ current_time <= Limit + SgxMax
         /\ i \in Nat /\ i <= N /\ k \in Nat /\ k <= N /\ qt \in Nat /\ qt <= SgxMax
         /\ \A n \in Node : n \in Nat /\ n < N /\ n # NoNode
         /\ queue \in Seq(Node)
BY SizeAssumption DEF TypeOK, Tick, Node, NoNode

LEMMA RecordType ==
  ASSUME NEW f \in [Node -> SgxNode], NEW n \in Node
  PROVE  /\ f[n].arrival_time \in Nat /\ f[n].n_leadership \in Nat
         /\ f[n].sgx_time \in Stay /\ f[n].sgx_time \in Nat /\ f[n].sgx_time > 0
         /\ f[n].time_left \in Nat /\ f[n].time_left <= SgxMax
         /\ calc_tier_number(f[n]) \in Tier
<1>1. f[n] \in SgxNode
  OBVIOUS
<1>2. /\ f[n].arrival_time \in Nat /\ f[n].n_leadership \in Nat
      /\ f[n].sgx_time \in Stay /\ f[n].time_left \in 0..SgxMax
  BY Zenon, <1>1 DEF SgxNode
<1>3. f[n].sgx_time \in Nat /\ f[n].sgx_time > 0
  BY <1>2, SizeAssumption DEF Stay
<1>4. f[n].time_left \in Nat /\ f[n].time_left <= SgxMax
  BY <1>2, SizeAssumption
<1> QED BY <1>2, <1>3, <1>4, TierType

LEMMA NodeType ==
  ASSUME TypeOK, NEW n \in Node
  PROVE  /\ sgx_table[n].arrival_time \in Nat /\ sgx_table[n].n_leadership \in Nat
         /\ sgx_table[n].sgx_time \in Stay
         /\ sgx_table[n].sgx_time \in Nat /\ sgx_table[n].sgx_time > 0
         /\ sgx_table[n].time_left \in Nat /\ sgx_table[n].time_left <= SgxMax
         /\ calc_tier_number(sgx_table[n]) \in Tier
         /\ n \in Finished <=> ~(sgx_table[n].time_left > 0)
<1>1. sgx_table \in [Node -> SgxNode]
  BY Zenon DEF TypeOK
<1>2. sgx_table[n].time_left \in Nat
  BY Zenon, <1>1, RecordType
<1>3. n \in Finished <=> ~(sgx_table[n].time_left > 0)
  BY <1>2 DEF Finished
<1> QED BY <1>1, <1>3, RecordType

-----------------------------------------------------------------------------
LEMMA InitIInv == Init => IInv
<1> SUFFICES ASSUME Init PROVE IInv OBVIOUS
<1>0. N \in Nat /\ N > 0 /\ SgxMax \in Nat /\ SgxMax > 0 /\ Limit \in Nat
      /\ UintSpan \in Nat /\ UintSpan > 0 /\ Arrival \subseteq Nat /\ 0 \in Node
  BY SizeAssumption DEF Node
<1>1. /\ sgx_table \in [Node -> [arrival_time : Arrival, sgx_time : Stay,
                                 n_leadership : {0}, time_left : Stay]]
      /\ \A n \in Node : sgx_table[n].time_left = sgx_table[n].sgx_time
      /\ queue = <<>> /\ current_time = 0 /\ current_node = NoNode
      /\ qt = 0 /\ pc = "arrive" /\ i = 0
      /\ stays = [n \in Node |-> 0]
  BY Zenon DEF Init
<1>2. sgx_table \in [Node -> SgxNode]
  <2>1. Stay \subseteq 0..SgxMax
    BY <1>0 DEF Stay
  <2>2. [arrival_time : Arrival, sgx_time : Stay, n_leadership : {0}, time_left : Stay]
          \subseteq SgxNode
    <3> SUFFICES ASSUME NEW r \in [arrival_time : Arrival, sgx_time : Stay,
                                   n_leadership : {0}, time_left : Stay]
                 PROVE  r \in SgxNode
      BY Zenon
    <3>1. /\ r.arrival_time \in Nat /\ r.sgx_time \in Stay /\ r.n_leadership \in Nat
          /\ r.time_left \in 0..SgxMax
      <4>1. /\ r.arrival_time \in Arrival /\ r.sgx_time \in Stay /\ r.n_leadership = 0
            /\ r.time_left \in Stay
        OBVIOUS
      <4>2. r.arrival_time \in Nat /\ r.time_left \in 0..SgxMax
        BY <1>0, <2>1, <4>1, Zenon
      <4> QED BY <4>1, <4>2
    <3>2. r = [arrival_time |-> r.arrival_time, sgx_time |-> r.sgx_time,
               n_leadership |-> r.n_leadership, time_left |-> r.time_left]
      OBVIOUS
    <3> QED BY <3>1, <3>2 DEF SgxNode
  <2> QED BY <1>1, <2>2, Zenon
<1>3. TypeOK
  <2>1. current_time \in Tick /\ 0 \in Tick
    BY <1>0, <1>1 DEF Tick
  <2>2. wait_times \in [Node -> 0..(UintSpan - 1)]
    BY <1>0 DEF Init
  <2>3. nodes_queue \in [Tick -> Node]
    BY Zenon, <1>0 DEF Init
  <2>4. /\ stays \in [Node -> Nat] /\ finish \in [Node -> Tick]
        /\ i \in 0..N /\ k \in 0..N /\ qt \in 0..SgxMax
    BY <1>0, <2>1 DEF Init
  <2>5. /\ sumT \in [Tier -> Nat] /\ tier_active_nodes \in [Tier -> Nat]
        /\ tier_quantum_time \in [Tier -> Nat]
    <3>1. [t \in Tier |-> 0] \in [Tier -> Nat]
      OBVIOUS
    <3> QED BY <3>1, Zenon DEF Init
  <2>6. nodes_rejoin \in BOOLEAN /\ interrupted \in BOOLEAN /\ queue \in Seq(Node)
        /\ current_node \in Node \cup {NoNode}
    <3>1. queue \in Seq(Node)
      BY <1>1
    <3> QED BY <3>1, Zenon DEF Init
  <2> QED BY <1>1, <1>2, <2>1, <2>2, <2>3, <2>4, <2>5, <2>6 DEF TypeOK
<1>4. Turn
  BY <1>0, <1>1 DEF Turn
<1>5. \A n \in Node : ~InQueue(n) /\ n # current_node
  BY <1>1, <1>3, Facts DEF InQueue, In
<1>6. Queued
  <2>1. \A n \in Node : ~Joined(n)
    BY <1>1, <1>3, NodeType, Facts DEF Joined, Arriving
  <2> QED BY <1>1, <1>5, <2>1 DEF Queued, Distinct
<1>7. Sums /\ Quanta
  BY Zenon, <1>1, <1>5 DEF Sums, Quanta
<1>8. Leads
  <2>1. Finished = {}
    BY Zenon, <1>1, <1>3, NodeType DEF Finished
  <2>2. \A n \in Node : stays[n] = 0 /\ sgx_table[n].n_leadership = 0
    BY Zenon, <1>1
  <2> QED BY <2>1, <2>2 DEF Leads
<1> QED BY <1>3, <1>4, <1>6, <1>7, <1>8 DEF IInv

-----------------------------------------------------------------------------
(* check_node_arrive *)

LEMMA ArriveStep ==
  ASSUME IInv, Arrive
  PROVE  IInv'
<1> USE DEF IInv
<1>1. /\ pc = "arrive" /\ i < N
      /\ UNCHANGED <<sgx_table, queue, current_time, nodes_queue, wait_times, nodes_rejoin,
                     tier_quantum_time, current_node, qt, interrupted, stays, finish>>
  BY Zenon DEF Arrive, turn, history
<1>2. i \in Node /\ i \in Nat /\ N \in Nat
  BY <1>1, Facts DEF Node
<1>3. CASE sgx_table[i].arrival_time = current_time
  <2>1. /\ pc' = "sum" /\ k' = 0 /\ i' = i
        /\ sumT' = [t \in Tier |-> 0] /\ tier_active_nodes' = [t \in Tier |-> 0]
    BY Zenon, <1>3 DEF Arrive
  <2>2. TypeOK'
    <3>1. /\ pc' \in {"arrive", "sum", "loop", "turn", "waiting_time", "done"}
          /\ i' \in 0..N /\ k' \in 0..N
      BY <1>1, <1>2, <2>1, Facts
    <3>2. sumT' \in [Tier -> Nat] /\ tier_active_nodes' \in [Tier -> Nat]
      BY Zenon, <2>1 DEF TypeOK
    <3> QED BY <1>1, <3>1, <3>2, Zenon DEF TypeOK
  <2>3. \A n \in Node : /\ Joined(n)' <=> Joined(n)
                        /\ InQueue(n)' <=> InQueue(n)
    BY Zenon, <1>1, <2>1 DEF Joined, InQueue, Arriving
  <2>4. Turn'
    BY Zenon, <1>1, <1>3, <2>1 DEF Turn
  <2>5. Queued'
    BY Zenon, <1>1, <2>3 DEF Queued
  <2>6. Sums'
    BY <2>1, Facts DEF Sums
  <2>7. Quanta' /\ Leads'
    BY Zenon, <1>1, <2>1, <2>3 DEF Quanta, Leads, Finished, calc_tier_number
  <2> QED BY <2>2, <2>4, <2>5, <2>6, <2>7
<1>4. CASE sgx_table[i].arrival_time # current_time
  <2>1. pc' = "arrive" /\ k' = k /\ i' = i + 1 /\ UNCHANGED <<sumT, tier_active_nodes>>
    BY Zenon, <1>1, <1>4 DEF Arrive
  <2>2. TypeOK'
    <3>1. /\ pc' \in {"arrive", "sum", "loop", "turn", "waiting_time", "done"}
          /\ i' \in 0..N /\ k' \in 0..N
      BY <1>1, <1>2, <2>1, Facts
    <3>2. sumT' \in [Tier -> Nat] /\ tier_active_nodes' \in [Tier -> Nat]
      BY Zenon, <2>1 DEF TypeOK
    <3> QED BY <1>1, <3>1, <3>2, Zenon DEF TypeOK
  <2>3. \A n \in Node : /\ Joined(n)' <=> Joined(n)
                        /\ InQueue(n)' <=> InQueue(n)
    <3>1. \A n \in Node : n # i => (n < i <=> n < i + 1)
      BY <1>2, Facts
    <3> QED BY <1>1, <1>4, <2>1, <3>1 DEF Joined, InQueue, Arriving
  <2>4. Turn'
    BY Zenon, <1>1, <2>1 DEF Turn
  <2>5. Queued'
    BY Zenon, <1>1, <2>3 DEF Queued
  <2>6. Sums' /\ Quanta' /\ Leads'
    BY Zenon, <1>1, <2>1, <2>3 DEF Sums, Quanta, Leads, Finished, calc_tier_number
  <2> QED BY <2>2, <2>4, <2>5, <2>6
<1> QED BY <1>3, <1>4

LEMMA ArriveReturnStep ==
  ASSUME IInv, ArriveReturn
  PROVE  IInv'
<1> USE DEF IInv
<1>1. /\ pc = "arrive" /\ i = N /\ i' = 0
      /\ pc' = IF current_node = NoNode THEN "loop" ELSE "turn"
      /\ UNCHANGED <<sgx_table, queue, current_time, nodes_queue, wait_times, nodes_rejoin,
                     sumT, tier_active_nodes, tier_quantum_time, k, current_node, qt,
                     interrupted, stays, finish>>
  BY Zenon DEF ArriveReturn, turn, history, tiers
<1>2. TypeOK'
  <2>1. /\ pc' \in {"arrive", "sum", "loop", "turn", "waiting_time", "done"}
        /\ i' \in 0..N
    BY <1>1, Facts
  <2> QED BY <1>1, <2>1, Zenon DEF TypeOK
<1>3. \A n \in Node : /\ Joined(n)' <=> Joined(n)
                      /\ InQueue(n)' <=> InQueue(n)
  BY Zenon, <1>1, Facts DEF Joined, InQueue, Arriving
<1>4. Turn'
  BY Zenon, <1>1 DEF Turn
<1>5. Queued'
  BY Zenon, <1>1, <1>3 DEF Queued
<1>6. Sums' /\ Quanta' /\ Leads'
  BY Zenon, <1>1, <1>3 DEF Sums, Quanta, Leads, Finished, calc_tier_number
<1> QED BY <1>2, <1>4, <1>5, <1>6

LEMMA SumStep ==
  ASSUME IInv, Sum
  PROVE  IInv'
<1> USE DEF IInv
<1>1. /\ pc = "sum" /\ k < N /\ k' = k + 1
      /\ UNCHANGED <<sgx_table, queue, current_time, nodes_queue, wait_times, nodes_rejoin,
                     tier_quantum_time, pc, i, current_node, qt, interrupted, stays, finish>>
  BY Zenon DEF Sum, turn, history
<1>2. k \in Node /\ k \in Nat /\ N \in Nat
  BY <1>1, Facts DEF Node
<1> DEFINE t == calc_tier_number(sgx_table[k])
           left == sgx_table[k].time_left
<1>3. t \in Tier /\ left \in Nat
  BY Zenon, <1>2, NodeType
<1>4. sumT \in [Tier -> Nat] /\ tier_active_nodes \in [Tier -> Nat]
  BY Zenon DEF TypeOK
<1>5. /\ sumT' \in [Tier -> Nat] /\ tier_active_nodes' \in [Tier -> Nat]
      /\ \A u \in Tier : sumT'[u] >= sumT[u] /\ tier_active_nodes'[u] >= tier_active_nodes[u]
      /\ \A u \in Tier : sumT'[u] > 0 => sumT[u] > 0 \/ tier_active_nodes'[u] > 0
      /\ current_time >= sgx_table[k].arrival_time => sumT'[t] >= left
  <2>1. CASE current_time >= sgx_table[k].arrival_time
    <3>1. /\ tier_active_nodes' = [tier_active_nodes EXCEPT ![t] = @ + 1]
          /\ sumT' = [sumT EXCEPT ![t] = @ + left]
      BY Zenon, <2>1 DEF Sum
    <3> HIDE DEF t, left
    <3> QED BY <1>3, <1>4, <3>1
  <2>2. CASE ~(current_time >= sgx_table[k].arrival_time)
    <3>1. UNCHANGED <<sumT, tier_active_nodes>>
      BY Zenon, <2>2 DEF Sum
    <3> QED BY <1>4, <2>2, <3>1
  <2> QED BY <2>1, <2>2
<1>6. TypeOK'
  <2>1. k' \in 0..N
    BY <1>1, <1>2
  <2> QED BY <1>1, <1>5, <2>1, Zenon DEF TypeOK
<1>7. \A n \in Node : /\ Joined(n)' <=> Joined(n)
                      /\ InQueue(n)' <=> InQueue(n)
                      /\ calc_tier_number(sgx_table[n])' = calc_tier_number(sgx_table[n])
  BY Zenon, <1>1 DEF Joined, InQueue, Arriving, calc_tier_number
<1>8. Turn'
  BY Zenon, <1>1 DEF Turn
<1>9. Queued'
  BY Zenon, <1>1, <1>7 DEF Queued
<1>10. Sums'
  <2>1. ASSUME NEW u \in Tier, sumT'[u] > 0 PROVE tier_active_nodes'[u] > 0
    <3>1. /\ sumT[u] \in Nat /\ tier_active_nodes[u] \in Nat /\ tier_active_nodes'[u] \in Nat
          /\ sumT[u] > 0 => tier_active_nodes[u] > 0
      BY Zenon, <1>1, <1>4, <1>5 DEF Sums
    <3> QED BY <1>5, <2>1, <3>1
  <2>2. ASSUME NEW n \in Node, n < k + 1, current_time >= sgx_table[n].arrival_time
        PROVE  sumT'[calc_tier_number(sgx_table[n])] >= sgx_table[n].time_left
    <3>1. CASE n = k
      BY Zenon, <1>5, <2>2, <3>1
    <3>2. CASE n # k
      <4>1. n < k
        BY <1>2, <2>2, <3>2, Facts
      <4>2. sumT[calc_tier_number(sgx_table[n])] >= sgx_table[n].time_left
        BY Zenon, <1>1, <2>2, <4>1 DEF Sums
      <4>3. calc_tier_number(sgx_table[n]) \in Tier /\ sgx_table[n].time_left \in Nat
        BY Zenon, NodeType
      <4> QED BY <1>4, <1>5, <4>2, <4>3
    <3> QED BY <3>1, <3>2
  <2> QED BY <1>1, <1>7, <2>1, <2>2 DEF Sums
<1>11. Quanta' /\ Leads'
  BY Zenon, <1>1, <1>7 DEF Quanta, Leads, Finished
<1> QED BY <1>6, <1>8, <1>9, <1>10, <1>11

(* Who joins the queue has just been counted in the sum of its tier. *)
LEMMA DivideAndPushStep ==
  ASSUME IInv, DivideAndPush
  PROVE  IInv'
<1> USE DEF IInv
<1>1. /\ pc = "sum" /\ k = N /\ pc' = "arrive" /\ i' = i + 1 /\ queue' = Append(queue, i)
      /\ tier_quantum_time' = [t \in Tier |->
           IF sumT[t] > 0
           THEN CeilDiv(sumT[t], tier_active_nodes[t] * tier_active_nodes[t])
           ELSE tier_quantum_time[t]]
      /\ UNCHANGED <<sgx_table, current_time, nodes_queue, wait_times, nodes_rejoin, sumT,
                     tier_active_nodes, k, current_node, qt, interrupted, stays, finish>>
  BY Zenon DEF DivideAndPush, turn, history
<1>2. i < N /\ i \in Node /\ i \in Nat /\ N \in Nat /\ sgx_table[i].arrival_time = current_time
  BY <1>1, Facts DEF Turn, Node
<1>3. ~Joined(i)
  BY <1>1, <1>2, Facts DEF Joined, Arriving
<1>4. ~InQueue(i) /\ i # current_node /\ sgx_table[i].time_left > 0
  <2>1. /\ ~InQueue(i) /\ i # current_node
        /\ sgx_table[i].time_left = sgx_table[i].sgx_time
    BY Zenon, <1>2, <1>3 DEF Queued
  <2> QED BY <1>2, <2>1, NodeType
<1>5. /\ queue' \in Seq(Node) /\ Distinct(queue')
      /\ \A n : InQueue(n)' <=> InQueue(n) \/ n = i
  BY Zenon, <1>1, <1>2, <1>4, AppendIn, Facts DEF InQueue, Queued
<1>6. /\ sumT \in [Tier -> Nat] /\ tier_active_nodes \in [Tier -> Nat]
      /\ tier_quantum_time \in [Tier -> Nat]
  BY ZenonT(60) DEF TypeOK
<1>7. ASSUME NEW t \in Tier
      PROVE  /\ tier_quantum_time'[t] \in Nat
             /\ sumT[t] > 0 \/ tier_quantum_time[t] > 0 => tier_quantum_time'[t] > 0
  <2>1. CASE sumT[t] > 0
    <3>1. tier_active_nodes[t] > 0
      BY Zenon, <1>1, <2>1 DEF Sums
    <3>2. sumT[t] \in Nat \ {0} /\ tier_active_nodes[t] \in Nat \ {0}
      BY <1>6, <2>1, <3>1
    <3>3. tier_active_nodes[t] * tier_active_nodes[t] \in Nat \ {0}
      BY <3>2
    <3>4. CeilDiv(sumT[t], tier_active_nodes[t] * tier_active_nodes[t]) \in Nat \ {0}
      BY Zenon, <3>2, <3>3, CeilDivPositive
    <3>5. tier_quantum_time'[t] = CeilDiv(sumT[t], tier_active_nodes[t] * tier_active_nodes[t])
      BY Zenon, <1>1, <2>1
    <3> QED BY <3>4, <3>5
  <2>2. CASE ~(sumT[t] > 0)
    <3>1. tier_quantum_time'[t] = tier_quantum_time[t]
      BY Zenon, <1>1, <2>2
    <3> QED BY <1>6, <2>2, <3>1
  <2> QED BY <2>1, <2>2
<1>8. tier_quantum_time' \in [Tier -> Nat]
  BY Zenon, <1>1, <1>7
<1>9. TypeOK'
  <2>1. /\ pc' \in {"arrive", "sum", "loop", "turn", "waiting_time", "done"}
        /\ i' \in 0..N
    BY <1>1, <1>2
  <2> QED BY <1>1, <1>5, <1>8, <2>1, Zenon DEF TypeOK
<1>10. \A n \in Node : Joined(n)' <=> Joined(n) \/ n = i
  <2>1. \A n \in Node : n < i + 1 <=> n < i \/ n = i
    BY <1>2, Facts
  <2> QED BY <1>1, <1>2, <2>1 DEF Joined, Arriving
<1>11. Turn'
  BY Zenon, <1>1 DEF Turn
<1>12. Queued'
  BY Zenon, <1>1, <1>4, <1>5, <1>10 DEF Queued
<1>13. Sums'
  BY Zenon, <1>1 DEF Sums
<1>14. Quanta'
  <2> SUFFICES ASSUME NEW n \in Node, InQueue(n) \/ n = i \/ n = current_node
               PROVE  tier_quantum_time'[calc_tier_number(sgx_table[n])] > 0
    BY ZenonT(60), <1>1, <1>5 DEF Quanta, calc_tier_number
  <2>1. calc_tier_number(sgx_table[n]) \in Tier /\ sgx_table[n].time_left \in Nat
    BY Zenon, NodeType
  <2>2. CASE n = i
    <3>1. sumT[calc_tier_number(sgx_table[i])] >= sgx_table[i].time_left
      BY <1>1, <1>2, Facts DEF Sums
    <3>2. sumT[calc_tier_number(sgx_table[i])] > 0
      BY <1>4, <1>6, <2>1, <2>2, <3>1
    <3> QED BY <1>7, <2>1, <2>2, <3>2
  <2>3. CASE n # i
    <3>1. tier_quantum_time[calc_tier_number(sgx_table[n])] > 0
      BY Zenon, <2>3 DEF Quanta
    <3> QED BY <1>7, <2>1, <3>1
  <2> QED BY SMTT(60), <2>2, <2>3
<1>15. Leads'
  BY Zenon, <1>1 DEF Leads, Finished
<1> QED BY SMTT(60), <1>9, <1>11, <1>12, <1>13, <1>14, <1>15

-----------------------------------------------------------------------------
(* is_time_left: nothing changes for a node that waits or has its turn. *)
LEMMA LedTable ==
  ASSUME TypeOK, NEW stay \in Stays, is_time_left(stay)
  PROVE  /\ sgx_table' \in [Node -> SgxNode]
         /\ \A n \in Node : n \notin Finished => sgx_table'[n] = sgx_table[n]
         /\ \A n \in Finished :
              /\ sgx_table'[n].n_leadership = sgx_table[n].n_leadership + 1
              /\ nodes_rejoin => /\ sgx_table'[n].arrival_time = current_time + 1
                                 /\ sgx_table'[n].time_left = sgx_table'[n].sgx_time
                                 /\ sgx_table'[n].time_left > 0
              /\ ~nodes_rejoin => /\ sgx_table'[n].arrival_time = sgx_table[n].arrival_time
                                  /\ sgx_table'[n].sgx_time = sgx_table[n].sgx_time
                                  /\ sgx_table'[n].time_left = sgx_table[n].time_left
<1>1. sgx_table' = [n \in Node |-> IF n \in Finished THEN Led(n, stay[n]) ELSE sgx_table[n]]
  BY Zenon DEF is_time_left
<1>2. \A n \in Node : n \notin Finished => sgx_table'[n] = sgx_table[n]
  BY Zenon, <1>1
<1>3. ASSUME NEW n \in Finished
      PROVE  /\ sgx_table'[n] \in SgxNode
             /\ sgx_table'[n].n_leadership = sgx_table[n].n_leadership + 1
             /\ nodes_rejoin => /\ sgx_table'[n].arrival_time = current_time + 1
                                /\ sgx_table'[n].time_left = sgx_table'[n].sgx_time
                                /\ sgx_table'[n].time_left > 0
             /\ ~nodes_rejoin => /\ sgx_table'[n].arrival_time = sgx_table[n].arrival_time
                                 /\ sgx_table'[n].sgx_time = sgx_table[n].sgx_time
                                 /\ sgx_table'[n].time_left = sgx_table[n].time_left
  <2>1. n \in Node /\ sgx_table'[n] = Led(n, stay[n]) /\ sgx_table[n] \in SgxNode
    BY Zenon, <1>1 DEF Finished, TypeOK
  <2>2. CASE nodes_rejoin
    <3> DEFINE s == stay[n]
               l == sgx_table[n].n_leadership
    <3>1. s \in Stay
      BY Zenon, <2>2 DEF Stays
    <3>2. s \in Nat /\ s > 0 /\ s \in 0..SgxMax /\ l \in Nat /\ current_time + 1 \in Nat
      BY SMTT(60), <2>1, <3>1, SizeAssumption, NodeType, Facts DEF Stay
    <3>3. sgx_table'[n] = [arrival_time |-> current_time + 1, sgx_time |-> s,
                           time_left |-> s, n_leadership |-> l + 1]
      BY Zenon, <2>1, <2>2 DEF Led
    <3> HIDE DEF s, l
    <3>4. sgx_table'[n] \in SgxNode
      BY <3>1, <3>2, <3>3 DEF SgxNode
    <3>5. /\ sgx_table'[n].n_leadership = l + 1
          /\ sgx_table'[n].arrival_time = current_time + 1
          /\ sgx_table'[n].time_left = s /\ sgx_table'[n].sgx_time = s
      BY <3>3
    <3> QED BY <2>2, <3>2, <3>4, <3>5 DEF l
  <2>3. CASE ~nodes_rejoin
    <3>1. sgx_table'[n] = [sgx_table[n] EXCEPT !.n_leadership = @ + 1]
      BY Zenon, <2>1, <2>3 DEF Led
    <3>2. sgx_table[n].n_leadership \in Nat
      BY Zenon, <2>1, NodeType
    <3> QED BY <2>1, <2>3, <3>1, <3>2 DEF SgxNode
  <2> QED BY <2>2, <2>3
<1>4. sgx_table' \in [Node -> SgxNode]
  <2>1. \A n \in Node : sgx_table'[n] \in SgxNode
    BY Zenon, <1>2, <1>3 DEF TypeOK
  <2> QED BY <1>1, <2>1
<1> QED BY <1>2, <1>3, <1>4

(* What a pass finds after is_time_left: nothing has changed for a node in the
   queue, and a node that was to lead is on its way. *)
AfterPass ==
  /\ sgx_table' \in [Node -> SgxNode]
  /\ \A n \in Node : InQueue(n) => /\ sgx_table'[n] = sgx_table[n]
                                   /\ sgx_table[n].time_left > 0
                                   /\ sgx_table[n].arrival_time <= current_time
  /\ \A n \in Node : sgx_table'[n].arrival_time > current_time =>
       sgx_table'[n].time_left = sgx_table'[n].sgx_time /\ ~InQueue(n)
  /\ \A n \in Node :
       sgx_table'[n].arrival_time <= current_time /\ sgx_table'[n].time_left > 0 => InQueue(n)
  /\ nodes_rejoin => \A n \in Node : /\ stays[n] = sgx_table'[n].n_leadership
                                     /\ sgx_table'[n].time_left > 0

LEMMA AfterLed ==
  ASSUME IInv, pc = "loop", NEW stay \in Stays, is_time_left(stay)
  PROVE  AfterPass
<1> USE DEF IInv
<1>1. sgx_table' \in [Node -> SgxNode] /\ sgx_table \in [Node -> SgxNode]
  BY Zenon, LedTable DEF TypeOK
<1>2. current_node = NoNode /\ current_time \in Nat /\ \A n \in Node : n # NoNode
  BY Zenon, Facts DEF Turn
<1>3. \A n \in Node : Joined(n) <=> sgx_table[n].arrival_time <= current_time
  BY SMTT(60), <1>1, <1>2, RecordType DEF Joined, Arriving
<1>4. ASSUME NEW n \in Node
      PROVE  /\ InQueue(n) => /\ sgx_table'[n] = sgx_table[n]
                              /\ sgx_table[n].time_left > 0
                              /\ sgx_table[n].arrival_time <= current_time
             /\ sgx_table'[n].arrival_time > current_time =>
                  sgx_table'[n].time_left = sgx_table'[n].sgx_time /\ ~InQueue(n)
             /\ sgx_table'[n].arrival_time <= current_time /\ sgx_table'[n].time_left > 0 =>
                  InQueue(n)
             /\ nodes_rejoin => /\ stays[n] = sgx_table'[n].n_leadership
                                /\ sgx_table'[n].time_left > 0
  <2>1. /\ sgx_table[n].arrival_time \in Nat /\ sgx_table[n].time_left \in Nat
        /\ sgx_table'[n].arrival_time \in Nat /\ sgx_table'[n].time_left \in Nat
        /\ n \in Finished <=> ~(sgx_table[n].time_left > 0)
    BY Zenon, <1>1, RecordType, NodeType
  <2>2. /\ InQueue(n) => sgx_table[n].time_left > 0
        /\ ~(sgx_table[n].arrival_time <= current_time) =>
             sgx_table[n].time_left = sgx_table[n].sgx_time /\ ~InQueue(n)
        /\ sgx_table[n].arrival_time <= current_time /\ sgx_table[n].time_left > 0 =>
             InQueue(n)
    BY Zenon, <1>2, <1>3 DEF Queued
  <2>3. CASE n \notin Finished
    <3>1. sgx_table'[n] = sgx_table[n]
      BY Zenon, <2>3, LedTable
    <3>2. nodes_rejoin => stays[n] = sgx_table[n].n_leadership
      BY Zenon, <2>3 DEF Leads
    <3> QED BY <1>2, <2>1, <2>2, <2>3, <3>1, <3>2
  <2>4. CASE n \in Finished
    <3>1. ~InQueue(n) /\ ~(sgx_table[n].time_left > 0)
      BY Zenon, <2>1, <2>2, <2>4
    <3>2. sgx_table[n].arrival_time <= current_time
      BY Zenon, <2>2, <3>1, NodeType
    <3>3. CASE nodes_rejoin
      <4>1. /\ sgx_table'[n].n_leadership = sgx_table[n].n_leadership + 1
            /\ sgx_table'[n].arrival_time = current_time + 1
            /\ sgx_table'[n].time_left = sgx_table'[n].sgx_time
            /\ sgx_table'[n].time_left > 0
        BY Zenon, <2>4, <3>3, LedTable
      <4>2. stays[n] = sgx_table[n].n_leadership + 1
        BY Zenon, <2>4, <3>3 DEF Leads
      <4> QED BY <1>2, <2>1, <3>1, <4>1, <4>2
    <3>4. CASE ~nodes_rejoin
      <4>1. /\ sgx_table'[n].arrival_time = sgx_table[n].arrival_time
            /\ sgx_table'[n].time_left = sgx_table[n].time_left
        BY Zenon, <2>4, <3>4, LedTable
      <4> QED BY <1>2, <2>1, <3>1, <3>2, <3>4, <4>1
    <3> QED BY <3>3, <3>4
  <2> QED BY <2>3, <2>4
<1> QED BY <1>1, <1>4 DEF AfterPass

LEMMA LeaveStep ==
  ASSUME IInv, Leave
  PROVE  IInv'
<1> USE DEF IInv
<1>1. /\ pc = "loop" /\ pc' = "waiting_time" /\ interrupted' = (Finished # Node)
      /\ UNCHANGED <<queue, current_time, nodes_queue, wait_times, nodes_rejoin, sumT,
                     tier_active_nodes, tier_quantum_time, i, k, current_node, qt, stays, finish>>
  BY Zenon DEF Leave, turn, history, tiers
<1>2. PICK stay \in Stays : is_time_left(stay)
  BY Zenon DEF Leave
<1>3. AfterPass
  BY Zenon, <1>1, <1>2, AfterLed
<1>4. TypeOK'
  <2>1. interrupted' \in BOOLEAN
    BY <1>1, Zenon
  <2> QED BY <1>1, <1>3, <2>1, Zenon DEF TypeOK, AfterPass
<1>5. current_node = NoNode /\ current_time \in Nat /\ \A n \in Node : n # NoNode
  BY Zenon, <1>1, Facts DEF Turn
<1>6. \A n \in Node : /\ Joined(n)' <=> ~(sgx_table'[n].arrival_time > current_time)
                      /\ InQueue(n)' <=> InQueue(n)
                      /\ sgx_table'[n].arrival_time \in Nat
  BY <1>1, <1>3, <1>5, RecordType DEF Joined, Arriving, InQueue, AfterPass
<1>7. Turn'
  BY Zenon, <1>1, <1>5 DEF Turn
<1>8. Queued'
  <2>1. Distinct(queue')
    BY Zenon, <1>1 DEF Queued
  <2> QED BY <1>1, <1>3, <1>5, <1>6, <2>1 DEF Queued, AfterPass
<1>9. Sums' /\ Quanta'
  BY Zenon, <1>1, <1>3, <1>5, <1>6 DEF Sums, Quanta, AfterPass
<1>10. Leads'
  <2>1. nodes_rejoin => Finished' = {}
    BY <1>3, RecordType DEF Finished, AfterPass
  <2> QED BY <1>1, <1>3, <2>1 DEF Leads, AfterPass
<1> QED BY <1>4, <1>7, <1>8, <1>9, <1>10

LEMMA IdleStep ==
  ASSUME IInv, Idle
  PROVE  IInv'
<1> USE DEF IInv
<1>1. /\ pc = "loop" /\ pc' = "arrive" /\ current_time < Limit
      /\ current_time' = current_time + 1
      /\ UNCHANGED <<queue, nodes_queue, wait_times, nodes_rejoin, sumT, tier_active_nodes,
                     tier_quantum_time, i, k, current_node, qt, interrupted, stays, finish>>
  BY Zenon DEF Idle, turn, history, tiers
<1>2. PICK stay \in Stays : is_time_left(stay)
  BY Zenon DEF Idle
<1>3. AfterPass
  BY Zenon, <1>1, <1>2, AfterLed
<1>5. /\ current_node = NoNode /\ current_time \in Nat /\ \A n \in Node : n # NoNode /\ n \in Nat
      /\ i = 0
  BY Zenon, <1>1, Facts DEF Turn
<1>6. current_time + 1 <= Limit + SgxMax - 1 /\ current_time' \in Tick
  BY <1>1, <1>5, SizeAssumption DEF Tick
<1>4. TypeOK'
  BY <1>1, <1>3, <1>6, Zenon DEF TypeOK, AfterPass
<1>7. \A n \in Node : /\ Joined(n)' <=> ~(sgx_table'[n].arrival_time > current_time)
                      /\ InQueue(n)' <=> InQueue(n)
  <2>1. \A n \in Node : sgx_table'[n].arrival_time \in Nat
    BY Zenon, <1>3, RecordType DEF AfterPass
  <2>2. \A n \in Node : ~(n < i')
    BY <1>1, <1>5
  <2> QED BY <1>1, <1>5, <2>1, <2>2 DEF Joined, Arriving, InQueue
<1>8. Turn'
  BY Zenon, <1>1, <1>5, <1>6 DEF Turn
<1>9. Queued'
  <2>1. Distinct(queue')
    BY Zenon, <1>1 DEF Queued
  <2>2. \A n \in Node : sgx_table'[n].arrival_time \in Nat
    BY Zenon, <1>3, RecordType DEF AfterPass
  <2> QED BY <1>1, <1>3, <1>5, <1>7, <2>1, <2>2 DEF Queued, AfterPass
<1>10. Sums' /\ Quanta'
  BY Zenon, <1>1, <1>3, <1>5, <1>7 DEF Sums, Quanta, AfterPass
<1>11. Leads'
  <2>1. nodes_rejoin => Finished' = {}
    BY <1>3, RecordType DEF Finished, AfterPass
  <2> QED BY <1>1, <1>3, <2>1 DEF Leads, AfterPass
<1> QED BY <1>4, <1>8, <1>9, <1>10, <1>11

LEMMA PopStep ==
  ASSUME IInv, Pop
  PROVE  IInv'
<1> USE DEF IInv
<1> DEFINE c == Head(queue)
<1>1. /\ pc = "loop" /\ pc' = "turn" /\ current_time < Limit /\ queue # <<>>
      /\ current_node' = c /\ queue' = Tail(queue)
      /\ qt' = Least(tier_quantum_time[calc_tier_number(sgx_table'[c])],
                     sgx_table'[c].time_left)
      /\ UNCHANGED <<current_time, nodes_queue, wait_times, nodes_rejoin, sumT,
                     tier_active_nodes, tier_quantum_time, i, k, interrupted, stays, finish>>
  BY Zenon DEF Pop, history, tiers
<1>2. PICK stay \in Stays : is_time_left(stay)
  BY Zenon DEF Pop
<1>3. AfterPass
  BY Zenon, <1>1, <1>2, AfterLed
<1>4. /\ c \in Node /\ InQueue(c) /\ queue' \in Seq(Node) /\ Distinct(queue')
      /\ \A n : InQueue(n)' <=> InQueue(n) /\ n # c
  BY Zenon, <1>1, TailIn, Facts DEF InQueue, Queued
<1> HIDE DEF c
<1>5. /\ current_time \in Nat /\ SgxMax \in Nat /\ Limit \in Nat
      /\ c # NoNode /\ i = 0
  BY Zenon, <1>1, <1>4, Facts DEF Turn
<1>6. /\ qt' \in Nat /\ qt' <= sgx_table'[c].time_left
      /\ sgx_table'[c].time_left \in Nat /\ sgx_table'[c].time_left <= SgxMax
  <2>1. /\ sgx_table'[c].time_left \in Nat /\ sgx_table'[c].time_left <= SgxMax
        /\ calc_tier_number(sgx_table'[c]) \in Tier
    BY Zenon, <1>3, <1>4, RecordType DEF AfterPass
  <2>2. tier_quantum_time[calc_tier_number(sgx_table'[c])] \in Nat
    BY Zenon, <2>1 DEF TypeOK
  <2> QED BY SMTT(60), <1>1, <2>1, <2>2 DEF Least
<1>7. TypeOK'
  <2>1. qt' \in 0..SgxMax /\ current_node' \in Node \cup {NoNode}
    BY SMTT(60), <1>1, <1>4, <1>5, <1>6
  <2> QED BY <1>1, <1>3, <1>4, <2>1, Zenon DEF TypeOK, AfterPass
<1>8. \A n \in Node : /\ Joined(n)' <=> ~(sgx_table'[n].arrival_time > current_time)
                      /\ sgx_table'[n].arrival_time \in Nat
  BY SMTT(60), <1>1, <1>3, <1>5, RecordType DEF Joined, Arriving, AfterPass
<1>9. Turn'
  <2>1. current_time + qt' <= Limit + SgxMax - 1
    BY SMTT(60), <1>1, <1>5, <1>6
  <2> QED BY <1>1, <1>5, <1>6, <2>1 DEF Turn
<1>10. Queued'
  <2>1. ASSUME NEW n \in Node, ~Joined(n)'
        PROVE  sgx_table'[n].time_left = sgx_table'[n].sgx_time /\ ~InQueue(n)' /\ n # current_node'
    BY Zenon, <1>1, <1>3, <1>4, <1>8, <2>1 DEF AfterPass
  <2>2. ASSUME NEW n \in Node, InQueue(n)'
        PROVE  sgx_table'[n].time_left > 0 /\ n # current_node'
    BY Zenon, <1>1, <1>3, <1>4, <2>2 DEF AfterPass
  <2>3. ASSUME NEW n \in Node, Joined(n)', sgx_table'[n].time_left > 0
        PROVE  InQueue(n)' \/ n = current_node'
    <3>1. sgx_table'[n].arrival_time <= current_time
      BY SMTT(60), <1>5, <1>8, <2>3
    <3> QED BY <1>1, <1>3, <1>4, <2>3, <3>1 DEF AfterPass
  <2> QED BY SMTT(60), <1>4, <2>1, <2>2, <2>3 DEF Queued
<1>11. Sums' /\ Quanta'
  <2>1. \A n \in Node : InQueue(n) => tier_quantum_time[calc_tier_number(sgx_table'[n])] > 0
    BY Zenon, <1>3 DEF Quanta, AfterPass
  <2> QED BY ZenonT(60), <1>1, <1>4, <2>1 DEF Sums, Quanta
<1>12. Leads'
  <2>1. nodes_rejoin => Finished' = {}
    BY <1>3, RecordType DEF Finished, AfterPass
  <2> QED BY <1>1, <1>3, <2>1 DEF Leads, AfterPass
<1> QED BY <1>7, <1>9, <1>10, <1>11, <1>12

-----------------------------------------------------------------------------
(* A turn *)

LEMMA TurnTickStep ==
  ASSUME IInv, TurnTick
  PROVE  IInv'
<1> USE DEF IInv
<1> DEFINE c == current_node
<1>1. /\ pc = "turn" /\ pc' = "arrive" /\ qt > 0 /\ qt' = qt - 1
      /\ nodes_queue' = [nodes_queue EXCEPT ![current_time] = c]
      /\ sgx_table' = [sgx_table EXCEPT ![c].time_left = @ - 1]
      /\ current_time' = current_time + 1
      /\ UNCHANGED <<queue, wait_times, nodes_rejoin, sumT, tier_active_nodes,
                     tier_quantum_time, i, k, current_node, interrupted>>
  BY Zenon DEF TurnTick, tiers
<1>2. /\ c \in Node /\ c # NoNode /\ qt \in Nat /\ current_time \in Nat /\ i = 0
      /\ SgxMax \in Nat /\ Limit \in Nat /\ qt <= SgxMax
      /\ qt <= sgx_table[c].time_left /\ current_time + qt <= Limit + SgxMax - 1
      /\ \A n \in Node : n \in Nat /\ n # NoNode
  BY Zenon, <1>1, Facts DEF Turn, TypeOK
<1>3. sgx_table \in [Node -> SgxNode] /\ sgx_table[c].time_left \in Nat
      /\ sgx_table[c].time_left <= SgxMax
  BY Zenon, <1>2, NodeType DEF TypeOK
<1>4. /\ \A n \in Node : n # c => sgx_table'[n] = sgx_table[n]
      /\ sgx_table'[c].time_left = sgx_table[c].time_left - 1
      /\ \A n \in Node : /\ sgx_table'[n].arrival_time = sgx_table[n].arrival_time
                          /\ sgx_table'[n].sgx_time = sgx_table[n].sgx_time
                          /\ sgx_table'[n].n_leadership = sgx_table[n].n_leadership
  <2>1. sgx_table'[c] = [sgx_table[c] EXCEPT !.time_left = @ - 1]
    BY Zenon, <1>1, <1>2, <1>3
  <2>2. sgx_table[c] \in SgxNode
    BY Zenon, <1>2, <1>3
  <2>3. /\ sgx_table'[c].time_left = sgx_table[c].time_left - 1
        /\ sgx_table'[c].arrival_time = sgx_table[c].arrival_time
        /\ sgx_table'[c].sgx_time = sgx_table[c].sgx_time
        /\ sgx_table'[c].n_leadership = sgx_table[c].n_leadership
    BY Zenon, <2>1, <2>2 DEF SgxNode
  <2>4. \A n \in Node : n # c => sgx_table'[n] = sgx_table[n]
    BY Zenon, <1>1, <1>3
  <2> QED BY <2>3, <2>4
<1>5. sgx_table' \in [Node -> SgxNode]
  <2>1. sgx_table[c].time_left - 1 \in 0..SgxMax
    BY <1>1, <1>2, <1>3
  <2>2. sgx_table'[c] = [sgx_table[c] EXCEPT !.time_left = sgx_table[c].time_left - 1]
    BY Zenon, <1>1, <1>2, <1>3
  <2>3. sgx_table'[c] \in SgxNode
    <3>1. sgx_table[c] \in SgxNode
      BY Zenon, <1>2, <1>3
    <3> QED BY <2>1, <2>2, <3>1 DEF SgxNode
  <2> QED BY <1>1, <1>3, <1>4, <2>3
<1>6. current_time \in Tick /\ current_time' \in Tick /\ current_time' + qt' <= Limit + SgxMax - 1
  BY <1>1, <1>2 DEF Tick
<1>7. /\ sgx_table'[c].time_left = 0 => /\ stays' = [stays EXCEPT ![c] = @ + 1]
                                        /\ finish' = [finish EXCEPT ![c] = current_time']
      /\ sgx_table'[c].time_left # 0 => stays' = stays /\ finish' = finish
  BY Zenon DEF TurnTick, history
<1>8. stays \in [Node -> Nat] /\ finish \in [Node -> Tick] /\ nodes_queue \in [Tick -> Node]
  BY Zenon DEF TypeOK
<1> HIDE DEF c
<1>9. TypeOK'
  <2>1. stays' \in [Node -> Nat] /\ finish' \in [Node -> Tick]
    BY <1>2, <1>6, <1>7, <1>8
  <2>2. nodes_queue' \in [Tick -> Node]
    BY Zenon, <1>1, <1>2, <1>6, <1>8
  <2>3. qt' \in 0..SgxMax /\ pc' \in {"arrive", "sum", "loop", "turn", "waiting_time", "done"}
    BY <1>1, <1>2
  <2> QED BY <1>1, <1>5, <1>6, <2>1, <2>2, <2>3, Zenon DEF TypeOK
<1>10. Turn'
  <2>1. qt' <= sgx_table'[c].time_left
    BY <1>1, <1>2, <1>3, <1>4
  <2> QED BY <1>1, <1>2, <1>6, <2>1 DEF Turn, c
<1>11. \A n \in Node : /\ Joined(n)' <=> Joined(n)
                       /\ InQueue(n)' <=> InQueue(n)
  <2>1. \A n \in Node : ~(n < i')
    BY <1>1, <1>2
  <2>2. \A n \in Node : sgx_table[n].arrival_time \in Nat
    BY Zenon, NodeType
  <2> QED BY <1>1, <1>2, <1>4, <2>1, <2>2 DEF Joined, Arriving, InQueue
<1>12. Queued'
  <2>1. \A n \in Node : ~Joined(n) \/ InQueue(n) => n # c
    BY Zenon DEF Queued, c
  <2>2. Distinct(queue')
    BY Zenon, <1>1 DEF Queued
  <2>3. \A n \in Node : n # c => sgx_table'[n] = sgx_table[n]
    BY Zenon, <1>4
  <2> QED BY <1>1, <1>11, <2>1, <2>2, <2>3 DEF Queued, c
<1>13. Sums' /\ Quanta'
  <2>1. \A n \in Node : calc_tier_number(sgx_table'[n]) = calc_tier_number(sgx_table[n])
    BY Zenon, <1>4 DEF calc_tier_number
  <2> QED BY <1>1, <1>11, <2>1 DEF Sums, Quanta
<1>14. Leads'
  <2> SUFFICES ASSUME nodes_rejoin PROVE Leads'
    BY Zenon, <1>1 DEF Leads
  <2>1. Finished = {}
    <3>1. \A n \in Finished : n = c
      BY Zenon, <1>1 DEF Leads, c
    <3>2. c \notin Finished
      BY <1>1, <1>2, <1>3 DEF Finished
    <3> QED BY <3>1, <3>2
  <2>2. \A n \in Node : stays[n] = sgx_table[n].n_leadership /\ stays[n] \in Nat
    BY Zenon, <1>8, <2>1 DEF Leads
  <2>3. \A n \in Finished' : n = c /\ sgx_table'[c].time_left = 0
    BY Zenon, <1>4, <2>1 DEF Finished
  <2>4. sgx_table'[c].time_left = 0 <=> c \in Finished'
    BY Zenon, <1>2 DEF Finished
  <2>5. \A n \in Node : stays'[n] = IF n \in Finished' THEN stays[n] + 1 ELSE stays[n]
    <3>1. CASE sgx_table'[c].time_left = 0
      <4>1. stays' = [stays EXCEPT ![c] = @ + 1]
        BY Zenon, <1>7, <3>1
      <4> QED BY <1>2, <1>8, <2>3, <2>4, <3>1, <4>1
    <3>2. CASE sgx_table'[c].time_left # 0
      BY Zenon, <1>7, <2>3, <3>2
    <3> QED BY <3>1, <3>2
  <2> QED BY <1>1, <1>4, <2>2, <2>3, <2>5 DEF Leads, c
<1> QED BY <1>9, <1>10, <1>12, <1>13, <1>14

LEMMA TurnEndStep ==
  ASSUME IInv, TurnEnd
  PROVE  IInv'
<1> USE DEF IInv
<1> DEFINE c == current_node
<1>1. /\ pc = "turn" /\ pc' = "loop" /\ qt = 0 /\ current_node' = NoNode
      /\ queue' = IF sgx_table[c].time_left > 0 THEN Append(queue, c) ELSE queue
      /\ UNCHANGED <<sgx_table, current_time, nodes_queue, wait_times, nodes_rejoin, sumT,
                     tier_active_nodes, tier_quantum_time, i, k, qt, interrupted, stays, finish>>
  BY Zenon DEF TurnEnd, tiers, history
<1>2. /\ c \in Node /\ c # NoNode /\ i = 0 /\ current_time \in Nat
      /\ current_time <= Limit + SgxMax - 1
      /\ \A n \in Node : n # NoNode
  <2>1. /\ c # NoNode /\ i = 0 /\ current_time + qt <= Limit + SgxMax - 1
    BY Zenon, <1>1 DEF Turn
  <2>2. c \in Node
    BY Zenon, <2>1 DEF TypeOK
  <2> QED BY <1>1, <2>1, <2>2, Facts
<1>3. ~InQueue(c) /\ Joined(c)
  BY Zenon, <1>2 DEF Queued
<1>4. /\ queue' \in Seq(Node) /\ Distinct(queue')
      /\ \A n : InQueue(n)' <=> InQueue(n) \/ (n = c /\ sgx_table[c].time_left > 0)
  BY Zenon, <1>1, <1>2, <1>3, AppendIn, Facts DEF InQueue, Queued
<1>5. TypeOK'
  <2>1. pc' \in {"arrive", "sum", "loop", "turn", "waiting_time", "done"}
    BY Zenon, <1>1
  <2> QED BY <1>1, <1>4, <2>1, Zenon DEF TypeOK
<1>6. Turn'
  BY Zenon, <1>1, <1>2 DEF Turn
<1>7. \A n \in Node : Joined(n)' <=> Joined(n)
  BY Zenon, <1>1 DEF Joined, Arriving
<1>8. Queued'
  BY Zenon, <1>1, <1>2, <1>3, <1>4, <1>7 DEF Queued
<1>9. Sums' /\ Quanta' /\ Leads'
  BY Zenon, <1>1, <1>2, <1>4 DEF Sums, Quanta, Leads, Finished, calc_tier_number
<1> QED BY <1>5, <1>6, <1>8, <1>9

-----------------------------------------------------------------------------
(* waiting_time *)

(* A set of numbers has a smallest one. *)
LEMMA LeastExists ==
  ASSUME NEW S \in SUBSET Nat, S # {}
  PROVE  \E x \in S : \A y \in S : x <= y
<1> DEFINE R == {ss \in Nat \X Nat : ss[1] < ss[2]}
<1>1. R = OpToRel(<, Nat)
  BY Zenon DEF OpToRel
<1>2. IsWellFoundedOn(R, Nat)
  BY <1>1, NatLessThanWellFounded, Zenon
<1> HIDE DEF R
<1>3. PICK x \in S : \A y \in S : ~(<<y, x>> \in R)
  BY <1>2, WFMin, Zenon
<1>4. \A y \in S : <<y, x>> \in R <=> y < x
  BY Zenon DEF R
<1>5. ASSUME NEW y \in S PROVE x <= y
  <2>1. x \in Nat /\ y \in Nat /\ ~(y < x)
    BY Zenon, <1>3, <1>4
  <2> QED BY <2>1
<1> QED BY <1>5

(* The search for the last tick of a node ends. *)
LEMMA ReleaseTime ==
  ASSUME TypeOK, NEW n \in Node
  PROVE  release_time(n) \in 0..current_time
<1> DEFINE S == {r \in 0..current_time : \A t \in r..(current_time - 1) : nodes_queue[t] # n}
<1>1. current_time \in Nat
  BY Zenon, Facts
<1>2. S \in SUBSET Nat /\ current_time \in S
  BY <1>1
<1>3. PICK r \in S : \A s \in S : r <= s
  BY ZenonT(60), <1>2, LeastExists
<1>4. r \in 0..current_time /\ \A t \in r..(current_time - 1) : nodes_queue[t] # n
  OBVIOUS
<1>5. ASSUME r > 0, nodes_queue[r - 1] # n PROVE FALSE
  <2>1. r - 1 \in 0..current_time /\ ~(r <= r - 1)
    BY <1>1, <1>4, <1>5
  <2>2. \A t \in (r - 1)..(current_time - 1) : t = r - 1 \/ t \in r..(current_time - 1)
    BY <1>1, <1>4
  <2>3. r - 1 \in S
    BY Zenon, <1>4, <1>5, <2>1, <2>2
  <2> QED BY <1>3, <2>1, <2>3
<1> HIDE DEF S
<1> QED BY <1>4, <1>5, Zenon DEF release_time

LEMMA WaitingTimeStep ==
  ASSUME IInv, waiting_time
  PROVE  IInv'
<1> USE DEF IInv
<1>1. /\ pc = "waiting_time" /\ pc' = "done"
      /\ wait_times' = [n \in Node |->
           (release_time(n) - sgx_table[n].arrival_time - sgx_table[n].sgx_time) % UintSpan]
      /\ UNCHANGED <<sgx_table, queue, current_time, nodes_queue, nodes_rejoin, sumT,
                     tier_active_nodes, tier_quantum_time, i, k, current_node, qt,
                     interrupted, stays, finish>>
  BY Zenon DEF waiting_time, tiers, turn, history
<1>2. wait_times' \in [Node -> 0..(UintSpan - 1)]
  <2>1. ASSUME NEW x \in Int PROVE x % UintSpan \in 0..(UintSpan - 1)
    BY SizeAssumption
  <2>2. ASSUME NEW n \in Node
        PROVE  release_time(n) - sgx_table[n].arrival_time - sgx_table[n].sgx_time \in Int
    <3>1. release_time(n) \in 0..current_time /\ current_time \in Nat
      BY Zenon, ReleaseTime, Facts
    <3>2. sgx_table[n].arrival_time \in Nat /\ sgx_table[n].sgx_time \in Nat
      BY Zenon, NodeType
    <3> QED BY <3>1, <3>2
  <2> QED BY <1>1, <2>1, <2>2
<1>3. TypeOK'
  <2>1. pc' \in {"arrive", "sum", "loop", "turn", "waiting_time", "done"}
    BY Zenon, <1>1
  <2> QED BY <1>1, <1>2, <2>1, Zenon DEF TypeOK
<1>4. \A n \in Node : (Joined(n)' <=> Joined(n)) /\ (InQueue(n)' <=> InQueue(n))
  BY Zenon, <1>1 DEF Joined, Arriving, InQueue
<1>5. Turn' /\ Queued' /\ Sums' /\ Quanta' /\ Leads'
  BY Zenon, <1>1, <1>4 DEF Turn, Queued, Sums, Quanta, Leads, Finished, calc_tier_number
<1> QED BY <1>3, <1>5

LEMMA NextIInv == IInv /\ [Next]_vars => IInv'
<1> SUFFICES ASSUME IInv, [Next]_vars PROVE IInv'
  OBVIOUS
<1>1. CASE Next
  BY Zenon, <1>1, ArriveStep, ArriveReturnStep, SumStep, DivideAndPushStep, LeaveStep, IdleStep,
     PopStep, TurnTickStep, TurnEndStep, WaitingTimeStep, Zenon DEF Next
<1>2. CASE UNCHANGED vars
  <2>1. UNCHANGED <<sgx_table, queue, current_time, nodes_queue, wait_times, nodes_rejoin, sumT,
                    tier_active_nodes, tier_quantum_time, pc, i, k, current_node, qt,
                    interrupted, stays, finish>>
    BY Zenon, <1>2 DEF vars, tiers, turn, history
  <2>2. TypeOK'
    BY <2>1, ZenonT(60) DEF IInv, TypeOK
  <2>3. Turn' /\ Queued' /\ Sums' /\ Quanta' /\ Leads'
    BY ZenonT(60), <2>1 DEF IInv, Turn, Queued, Sums, Quanta, Leads, Finished, calc_tier_number, Joined,
       Arriving, InQueue
  <2> QED BY <2>2, <2>3 DEF IInv
<1> QED BY <1>1, <1>2

-----------------------------------------------------------------------------
(* The inductive invariant holds in every state. *)
THEOREM Invariance == Spec => []IInv
BY InitIInv, NextIInv, PTL DEF Spec

(* The log, the tiers and the counters of the simulator stay within their
   arrays. *)
THEOREM TypeCorrect == Spec => []TypeOK
<1>1. IInv => TypeOK
  BY Zenon DEF IInv
<1> QED BY <1>1, Invariance, PTL

(* Between two passes of arrange the queue holds every node that has arrived and
   has time left, once, and no other. *)
THEOREM WaitingIsQueued == Spec => []QueuedOnce
<1>1. IInv => QueuedOnce
  <2> SUFFICES ASSUME IInv, pc = "loop"
               PROVE  /\ \A n \in Node : Waiting(n) <=> InQueue(n)
                      /\ Distinct(queue)
    BY Zenon DEF QueuedOnce, InQueue, In, Distinct
  <2> USE DEF IInv
  <2>1. current_node = NoNode /\ current_time \in Nat /\ \A n \in Node : n # NoNode
    BY Zenon, Facts DEF Turn
  <2>2. \A n \in Node : Joined(n) <=> sgx_table[n].arrival_time <= current_time
    BY <2>1, NodeType DEF Joined, Arriving
  <2> QED BY <2>1, <2>2 DEF Queued, Waiting
<1> QED BY <1>1, Invariance, PTL

(* A node in the queue has a quantum, though calculate_quantum_time only runs
   when somebody arrives: every turn lasts at least a tick. *)
THEOREM EveryTurnTicks == Spec => []QuantumPositive
<1>1. IInv => QuantumPositive
  <2> SUFFICES ASSUME IInv, NEW x \in DOMAIN queue
               PROVE  tier_quantum_time[calc_tier_number(sgx_table[queue[x]])] > 0
    BY Zenon DEF QuantumPositive
  <2>1. queue[x] \in Node /\ InQueue(queue[x])
    BY Facts DEF IInv, InQueue, In
  <2> QED BY <2>1 DEF IInv, Quanta
<1> QED BY <1>1, Invariance, PTL

(* With nodes_rejoin a node leads once for each stay it completes, and at most
   one node leads in a pass. *)
THEOREM OneLeadPerStay == Spec => []LeadsOncePerStay
<1>1. IInv => LeadsOncePerStay
  <2> SUFFICES ASSUME IInv, nodes_rejoin PROVE LeadsOncePerStay
    BY Zenon DEF LeadsOncePerStay
  <2>1. \A n \in Node : sgx_table[n].n_leadership \in Nat
    BY Zenon, NodeType DEF IInv
  <2> QED BY <2>1 DEF IInv, Leads, LeadsOncePerStay
<1> QED BY <1>1, Invariance, PTL

-----------------------------------------------------------------------------
(* The log of turns.  Without nodes_rejoin a node has one stay, and the log holds
   as many ticks of it, none before its arrival, as it has used up; finish is the
   end of the last one.  This is said of every node but 0, which the log also
   names where nobody had the turn. *)

Ticks(n) == {t \in Tick : nodes_queue[t] = n}

Logged(n) ==
  /\ Ticks(n) \subseteq sgx_table[n].arrival_time..(current_time - 1)
  /\ sgx_table[n].time_left + Cardinality(Ticks(n)) = sgx_table[n].sgx_time
  /\ sgx_table[n].time_left = 0 =>
       finish[n] - 1 \in Ticks(n) /\ Ticks(n) \subseteq 0..(finish[n] - 1)

LogInv ==
  ~nodes_rejoin =>
    /\ \A n \in Node \ {0} : Logged(n)
    /\ pc \in {"waiting_time", "done"} /\ ~interrupted => Finished = Node
    /\ WaitsForOthers

LEMMA TickType ==
  /\ \A t \in Tick : t \in Nat /\ t <= Limit + SgxMax
  /\ \A t \in Nat : t <= Limit + SgxMax => t \in Tick
  /\ IsFiniteSet(Tick)
<1>1. Limit + SgxMax \in Nat
  BY SizeAssumption
<1>2. IsFiniteSet(0..(Limit + SgxMax))
  BY <1>1, FS_Interval
<1> QED
  BY <1>1, <1>2 DEF Tick

LEMMA TicksFinite ==
  ASSUME NEW n
  PROVE  IsFiniteSet(Ticks(n)) /\ Cardinality(Ticks(n)) \in Nat
<1>1. Ticks(n) \in SUBSET Tick
  BY DEF Ticks
<1>2. IsFiniteSet(Ticks(n))
  BY <1>1, TickType, FS_Subset
<1> QED
  BY <1>2, FS_CardinalityType

(* A step that writes no log entry and leaves the times of n alone. *)
LEMMA LogKept ==
  ASSUME TypeOK, NEW n \in Node, Logged(n),
         nodes_queue' = nodes_queue, finish' = finish,
         current_time' = current_time \/ current_time' = current_time + 1,
         sgx_table'[n].arrival_time = sgx_table[n].arrival_time,
         sgx_table'[n].sgx_time = sgx_table[n].sgx_time,
         sgx_table'[n].time_left = sgx_table[n].time_left
  PROVE  Logged(n)'
<1>1. Ticks(n)' = Ticks(n)
  BY Zenon DEF Ticks
<1>2. current_time \in Nat
  BY Zenon, Facts
<1>3. sgx_table[n].arrival_time \in Nat
  BY Zenon, NodeType
<1>4. sgx_table[n].arrival_time..(current_time - 1)
        \subseteq sgx_table[n].arrival_time..(current_time' - 1)
  BY <1>2, <1>3
<1>5. Ticks(n)' \subseteq (sgx_table[n].arrival_time..(current_time - 1))'
  BY Zenon, <1>1, <1>4 DEF Logged
<1> QED
  BY Zenon, <1>1, <1>5 DEF Logged

(* is_time_left does not touch the times of a node that does not come back. *)
LEMMA LedTimes ==
  ASSUME TypeOK, ~nodes_rejoin, NEW stay, is_time_left(stay), NEW n \in Node
  PROVE  /\ sgx_table'[n].arrival_time = sgx_table[n].arrival_time
         /\ sgx_table'[n].sgx_time = sgx_table[n].sgx_time
         /\ sgx_table'[n].time_left = sgx_table[n].time_left
<1>1. sgx_table[n] \in SgxNode
  BY DEF TypeOK
<1>2. sgx_table'[n] = sgx_table[n]
      \/ sgx_table'[n] = [sgx_table[n] EXCEPT !.n_leadership = @ + 1]
  BY Zenon DEF is_time_left, Led
<1> QED
  BY <1>1, <1>2 DEF SgxNode

LEMMA FinishedSame ==
  ASSUME \A n \in Node : sgx_table'[n].time_left = sgx_table[n].time_left
  PROVE  Finished' = Finished
BY Zenon DEF Finished

(* The steps that leave the log alone and do not end the simulation *)
LEMMA LogQuiet ==
  ASSUME TypeOK, LogInv, nodes_queue' = nodes_queue, finish' = finish,
         nodes_rejoin' = nodes_rejoin, pc' \notin {"waiting_time", "done"},
         current_time' = current_time \/ current_time' = current_time + 1,
         sgx_table' = sgx_table \/ \E stay : is_time_left(stay)
  PROVE  LogInv'
<1> SUFFICES ASSUME ~nodes_rejoin PROVE LogInv'
  BY Zenon DEF LogInv
<1>1. ASSUME NEW n \in Node
      PROVE  /\ sgx_table'[n].arrival_time = sgx_table[n].arrival_time
             /\ sgx_table'[n].sgx_time = sgx_table[n].sgx_time
             /\ sgx_table'[n].time_left = sgx_table[n].time_left
  BY Zenon, LedTimes
<1>2. \A n \in Node \ {0} : Logged(n)'
  BY Zenon, <1>1, LogKept DEF LogInv
<1>3. pc' # "waiting_time" /\ pc' # "done"
  OBVIOUS
<1> QED
  BY Zenon, <1>2, <1>3 DEF LogInv, WaitsForOthers

LEMMA LogLeave ==
  ASSUME TypeOK, LogInv, Leave
  PROVE  LogInv'
<1>1. /\ \E stay : is_time_left(stay)
      /\ interrupted' = (Finished # Node) /\ pc' = "waiting_time"
      /\ nodes_queue' = nodes_queue /\ finish' = finish /\ nodes_rejoin' = nodes_rejoin
      /\ current_time' = current_time
  BY Zenon DEF Leave, history
<1> SUFFICES ASSUME ~nodes_rejoin PROVE LogInv'
  BY Zenon, <1>1 DEF LogInv
<1>2. ASSUME NEW n \in Node
      PROVE  /\ sgx_table'[n].arrival_time = sgx_table[n].arrival_time
             /\ sgx_table'[n].sgx_time = sgx_table[n].sgx_time
             /\ sgx_table'[n].time_left = sgx_table[n].time_left
  BY Zenon, <1>1, LedTimes
<1>3. \A n \in Node \ {0} : Logged(n)'
  BY Zenon, <1>1, <1>2, LogKept DEF LogInv
<1>4. Finished' = Finished
  BY Zenon, <1>2, FinishedSame
<1>5. ~interrupted' => Finished = Node
  BY Zenon, <1>1
<1>6. pc' # "done"
  BY <1>1
<1> QED
  BY Zenon, <1>3, <1>4, <1>5, <1>6 DEF LogInv, WaitsForOthers

(* A tick of a turn is logged, after all that was logged before. *)
LEMMA LogTick ==
  ASSUME IInv, LogInv, TurnTick
  PROVE  LogInv'
<1> USE DEF IInv
<1> DEFINE c == current_node
<1>1. /\ pc = "turn" /\ qt > 0 /\ pc' = "arrive" /\ nodes_rejoin' = nodes_rejoin
      /\ nodes_queue' = [nodes_queue EXCEPT ![current_time] = c]
      /\ sgx_table' = [sgx_table EXCEPT ![c].time_left = @ - 1]
      /\ current_time' = current_time + 1
      /\ IF sgx_table'[c].time_left = 0
         THEN finish' = [finish EXCEPT ![c] = current_time']
         ELSE finish' = finish
  BY Zenon DEF TurnTick, history
<1> SUFFICES ASSUME ~nodes_rejoin PROVE LogInv'
  BY Zenon, <1>1 DEF LogInv
<1>2. /\ c # NoNode /\ qt <= sgx_table[c].time_left
      /\ i = 0 /\ current_time + qt <= Limit + SgxMax - 1
  BY Zenon, <1>1 DEF Turn
<1>3. c \in Node /\ qt \in Nat /\ current_time \in Nat
  BY Zenon, <1>2, Facts DEF TypeOK
<1>4. current_time \in Tick
  BY Zenon DEF TypeOK
<1>5. Joined(c)
  BY Zenon, <1>3 DEF Queued
<1>6. sgx_table[c].arrival_time \in Nat /\ sgx_table[c].time_left \in Nat
      /\ sgx_table[c].sgx_time \in Nat
  BY Zenon, <1>3, NodeType
<1>7. sgx_table[c].arrival_time <= current_time
  BY <1>3, <1>5, <1>6 DEF Joined
<1>8. nodes_queue \in [Tick -> Node] /\ finish \in [Node -> Tick]
      /\ sgx_table \in [Node -> SgxNode]
  BY Zenon DEF TypeOK
<1>9. \A t \in Tick : nodes_queue'[t] = IF t = current_time THEN c ELSE nodes_queue[t]
  BY Zenon, <1>1, <1>8
<1>10. /\ sgx_table'[c].arrival_time = sgx_table[c].arrival_time
       /\ sgx_table'[c].sgx_time = sgx_table[c].sgx_time
       /\ sgx_table'[c].time_left = sgx_table[c].time_left - 1
       /\ \A n \in Node : n # c => sgx_table'[n] = sgx_table[n]
  <2> HIDE DEF c
  <2>1. sgx_table[c] \in SgxNode
    BY <1>3, <1>8
  <2> QED
    BY <1>1, <1>3, <1>8, <2>1 DEF SgxNode
<1>11. \A n \in Node : n # c => finish'[n] = finish[n]
  BY Zenon, <1>1, <1>8
<1>12. ASSUME NEW n \in Node \ {0}, n # c PROVE Logged(n)'
  <2>1. Logged(n)
    BY Zenon DEF LogInv
  <2>2. current_time \notin Ticks(n)
    <3>1. Ticks(n) \subseteq sgx_table[n].arrival_time..(current_time - 1)
      BY Zenon, <2>1 DEF Logged
    <3>2. sgx_table[n].arrival_time \in Nat
      BY Zenon, NodeType
    <3>3. ~(current_time \in sgx_table[n].arrival_time..(current_time - 1))
      BY <1>3, <3>2
    <3> QED
      BY Zenon, <3>1, <3>3
  <2>3. Ticks(n)' = Ticks(n)
    BY Zenon, <1>9, <1>12, <2>2 DEF Ticks
  <2>4. sgx_table[n].arrival_time..(current_time - 1)
          \subseteq sgx_table[n].arrival_time..(current_time' - 1)
    <3>1. sgx_table[n].arrival_time \in Nat
      BY Zenon, NodeType
    <3> QED
      BY <1>1, <1>3, <3>1
  <2>5. sgx_table'[n] = sgx_table[n] /\ finish'[n] = finish[n]
    BY Zenon, <1>10, <1>11, <1>12
  <2>6. Ticks(n)' \subseteq (sgx_table[n].arrival_time..(current_time - 1))'
    BY Zenon, <2>1, <2>3, <2>4, <2>5 DEF Logged
  <2> QED
    BY Zenon, <2>1, <2>3, <2>5, <2>6 DEF Logged
<1>13. ASSUME c # 0 PROVE Logged(c)'
  <2>1. Logged(c)
    BY Zenon, <1>3, <1>13 DEF LogInv
  <2>2. /\ Ticks(c) \subseteq sgx_table[c].arrival_time..(current_time - 1)
        /\ sgx_table[c].time_left + Cardinality(Ticks(c)) = sgx_table[c].sgx_time
    BY Zenon, <2>1 DEF Logged
  <2>3. current_time \notin Ticks(c)
    <3>1. ~(current_time \in sgx_table[c].arrival_time..(current_time - 1))
      BY <1>3, <1>6
    <3> QED
      BY Zenon, <2>2, <3>1
  <2>4. {t \in Tick : nodes_queue'[t] = c} = Ticks(c) \cup {current_time}
    BY Zenon, <1>4, <1>9 DEF Ticks
  <2>5. IsFiniteSet(Ticks(c)) /\ Cardinality(Ticks(c)) \in Nat
    BY Zenon, TicksFinite
  <2>6. Cardinality(Ticks(c) \cup {current_time}) = Cardinality(Ticks(c)) + 1
    BY Zenon, <2>3, <2>5, FS_AddElement
  <2>7. c' = c
    BY Zenon DEF TurnTick
  <2>8. Ticks(c)' = Ticks(c) \cup {current_time}
    BY Zenon, <2>4, <2>7 DEF Ticks
  <2>9. Ticks(c) \cup {current_time} \subseteq sgx_table[c].arrival_time..current_time
    BY <1>3, <1>6, <1>7, <2>2
  <2>10. current_time' - 1 = current_time
    BY <1>1, <1>3
  <2>11. Ticks(c)' \subseteq (sgx_table[c].arrival_time..(current_time - 1))'
    BY Zenon, <1>10, <2>7, <2>8, <2>9, <2>10
  <2>12. sgx_table[c].time_left - 1 + (Cardinality(Ticks(c)) + 1) = sgx_table[c].sgx_time
    BY <1>6, <2>2, <2>5
  <2>13. (sgx_table[c].time_left + Cardinality(Ticks(c)) = sgx_table[c].sgx_time)'
    BY Zenon, <1>10, <2>6, <2>7, <2>8, <2>12
  <2>14. ASSUME sgx_table'[c].time_left = 0
         PROVE  finish'[c] - 1 \in Ticks(c)' /\ Ticks(c)' \subseteq 0..(finish'[c] - 1)
    <3>1. finish'[c] - 1 = current_time
      BY Zenon, <1>1, <1>3, <1>8, <2>10, <2>14
    <3>2. sgx_table[c].arrival_time..current_time \subseteq 0..current_time
      BY <1>3, <1>6
    <3> QED
      BY Zenon, <2>8, <2>9, <3>1, <3>2
  <2> QED
    BY Zenon, <2>7, <2>11, <2>13, <2>14 DEF Logged
<1>14. \A n \in Node \ {0} : Logged(n)'
  <2>1. ASSUME NEW n \in Node \ {0}, n = c PROVE Logged(n)'
    <3>1. Logged(c)' /\ c' = c
      BY Zenon, <1>13, <2>1 DEF TurnTick
    <3> QED
      BY Zenon, <2>1, <3>1 DEF Logged, Ticks
  <2> QED
    BY Zenon, <1>12, <2>1
<1>15. pc' # "waiting_time" /\ pc' # "done"
  BY <1>1
<1> QED
  BY Zenon, <1>14, <1>15 DEF LogInv, WaitsForOthers

(* The loop of waiting_time that looks for the last tick of a node finds the end
   of its stay. *)
LEMMA ReleaseIsFinish ==
  ASSUME TypeOK, NEW n \in Node, Logged(n), sgx_table[n].time_left = 0
  PROVE  /\ release_time(n) = finish[n]
         /\ finish[n] \in Nat /\ finish[n] <= current_time
         /\ finish[n] - 1 >= sgx_table[n].arrival_time
<1>1. current_time \in Nat /\ sgx_table[n].arrival_time \in Nat
  BY Zenon, Facts, NodeType
<1>2. finish[n] \in Nat
  BY TickType DEF TypeOK
<1>3. /\ Ticks(n) \subseteq sgx_table[n].arrival_time..(current_time - 1)
      /\ finish[n] - 1 \in Ticks(n) /\ Ticks(n) \subseteq 0..(finish[n] - 1)
  BY Zenon DEF Logged
<1>4. finish[n] - 1 \in sgx_table[n].arrival_time..(current_time - 1)
  BY Zenon, <1>3
<1>5. finish[n] > 0 /\ finish[n] \in 0..current_time
  BY <1>1, <1>2, <1>4
<1>6. nodes_queue[finish[n] - 1] = n /\ finish[n] - 1 \in Tick
  BY Zenon, <1>3 DEF Ticks
<1>7. \A t \in Nat : t <= current_time - 1 /\ t >= finish[n] => nodes_queue[t] # n
  <2> TAKE t \in Nat
  <2> SUFFICES ASSUME t <= current_time - 1, t >= finish[n], nodes_queue[t] = n PROVE FALSE
    OBVIOUS
  <2>1. current_time <= Limit + SgxMax
    BY Zenon, Facts
  <2>2. t \in Tick
    BY <1>1, <2>1, TickType, SizeAssumption
  <2>3. t \in 0..(finish[n] - 1)
    BY Zenon, <1>3, <2>2 DEF Ticks
  <2> QED
    BY <1>2, <2>3
<1> DEFINE P(r) == /\ r > 0 => nodes_queue[r - 1] = n
                   /\ \A t \in r..(current_time - 1) : nodes_queue[t] # n
<1>8. P(finish[n])
  BY <1>1, <1>2, <1>6, <1>7
<1>9. ASSUME NEW r \in 0..current_time, P(r) PROVE r = finish[n]
  <2>1. CASE r > finish[n]
    <3>1. r > 0 /\ r - 1 \in Nat /\ r - 1 <= current_time - 1 /\ r - 1 >= finish[n]
      BY <1>1, <1>2, <2>1
    <3> QED
      BY Zenon, <1>7, <1>9, <3>1
  <2>2. CASE r < finish[n]
    <3>1. finish[n] - 1 \in r..(current_time - 1)
      BY <1>1, <1>2, <1>5, <2>2
    <3> QED
      BY Zenon, <1>6, <1>9, <3>1
  <2> QED
    BY <1>1, <1>2, <2>1, <2>2
<1>10. release_time(n) = CHOOSE r \in 0..current_time : P(r)
  BY Zenon DEF release_time
<1>11. release_time(n) = finish[n]
  <2> HIDE DEF P
  <2> QED
    BY Zenon, <1>5, <1>8, <1>9, <1>10
<1> QED
  BY <1>1, <1>2, <1>4, <1>11

(* Of the ticks from arrival to finish those that are not its own went to others. *)
LEMMA OthersTicks ==
  ASSUME TypeOK, NEW n \in Node, Logged(n), sgx_table[n].time_left = 0
  PROVE  Cardinality({t \in sgx_table[n].arrival_time..(finish[n] - 1) : nodes_queue[t] # n})
           = (release_time(n) - sgx_table[n].arrival_time - sgx_table[n].sgx_time) % UintSpan
<1> DEFINE a == sgx_table[n].arrival_time
           e == finish[n]
           W == a..(e - 1)
           O == {t \in W : nodes_queue[t] # n}
<1>1. a \in Nat /\ sgx_table[n].sgx_time \in Nat /\ current_time \in Nat
      /\ current_time <= Limit + SgxMax
  BY Zenon, Facts, NodeType
<1>2. release_time(n) = e /\ e \in Nat /\ e <= current_time /\ e - 1 >= a
  BY Zenon, ReleaseIsFinish
<1>3. /\ Ticks(n) \subseteq a..(current_time - 1)
      /\ Ticks(n) \subseteq 0..(e - 1)
      /\ 0 + Cardinality(Ticks(n)) = sgx_table[n].sgx_time
  BY Zenon DEF Logged
<1>4. IsFiniteSet(Ticks(n)) /\ Cardinality(Ticks(n)) \in Nat
  BY Zenon, TicksFinite
<1>5. Cardinality(Ticks(n)) = sgx_table[n].sgx_time
  BY <1>3, <1>4
<1>6. \A t \in W : t \in Tick
  BY <1>1, <1>2, TickType, SizeAssumption
<1>7. \A t \in Ticks(n) : t \in W
  <2> TAKE t \in Ticks(n)
  <2>1. t \in a..(current_time - 1) /\ t \in 0..(e - 1)
    BY Zenon, <1>3
  <2> QED
    BY <1>1, <1>2, <2>1
<1>8. W \ Ticks(n) = O
  BY Zenon, <1>6 DEF Ticks
<1>9. IsFiniteSet(W) /\ Cardinality(W) = e - a
  <2> HIDE DEF a, e
  <2>1. e - 1 \in Int /\ a \in Int
    BY <1>1, <1>2
  <2>2. IsFiniteSet(W) /\ Cardinality(W) = IF a > e - 1 THEN 0 ELSE e - 1 - a + 1
    BY <2>1, FS_Interval
  <2> QED
    BY <1>1, <1>2, <2>2
<1>10. W \cap Ticks(n) = Ticks(n)
  BY Zenon, <1>7
<1>11. IsFiniteSet(O) /\ Cardinality(O) = e - a - sgx_table[n].sgx_time
  <2> HIDE DEF W, O
  <2>1. /\ IsFiniteSet(W \ Ticks(n))
        /\ Cardinality(W \ Ticks(n)) = Cardinality(W) - Cardinality(W \cap Ticks(n))
    BY Zenon, <1>4, <1>9, FS_Difference
  <2> QED
    BY Zenon, <1>5, <1>8, <1>9, <1>10, <2>1
<1>12. Cardinality(O) \in Nat
  BY Zenon, <1>11, FS_CardinalityType
<1>13. e - a - sgx_table[n].sgx_time < UintSpan
  BY <1>1, <1>2, SizeAssumption
<1>14. \A x \in Nat : x < UintSpan => x % UintSpan = x
  BY SizeAssumption
<1> HIDE DEF O, e, a
<1>15. e - a - sgx_table[n].sgx_time \in Nat
  BY Zenon, <1>11, <1>12
<1>16. Cardinality(O) = (e - a - sgx_table[n].sgx_time) % UintSpan
  BY Zenon, <1>11, <1>13, <1>14, <1>15
<1> QED
  BY Zenon, <1>2, <1>16 DEF O, e, a, W

LEMMA LogWaiting ==
  ASSUME TypeOK, LogInv, waiting_time
  PROVE  LogInv'
<1>1. /\ pc = "waiting_time" /\ pc' = "done"
      /\ wait_times' = [n \in Node |->
           (release_time(n) - sgx_table[n].arrival_time - sgx_table[n].sgx_time) % UintSpan]
      /\ sgx_table' = sgx_table /\ current_time' = current_time
      /\ nodes_queue' = nodes_queue /\ nodes_rejoin' = nodes_rejoin
      /\ interrupted' = interrupted /\ finish' = finish
  BY Zenon DEF waiting_time, history
<1> SUFFICES ASSUME ~nodes_rejoin PROVE LogInv'
  BY Zenon, <1>1 DEF LogInv
<1>2. \A n \in Node \ {0} : Logged(n)'
  BY Zenon, <1>1, LogKept DEF LogInv
<1>3. ~interrupted => Finished = Node
  BY Zenon, <1>1 DEF LogInv
<1>4. Finished' = Finished
  BY Zenon, <1>1 DEF Finished
<1>5. ASSUME ~interrupted, NEW n \in Node \ {0}
      PROVE  wait_times'[n] =
               Cardinality({t \in sgx_table'[n].arrival_time..(finish'[n] - 1) :
                              nodes_queue'[t] # n})
  <2>1. sgx_table[n].time_left = 0 /\ Logged(n)
    BY Zenon, <1>3, <1>5 DEF LogInv, Finished
  <2>2. wait_times'[n] =
          Cardinality({t \in sgx_table[n].arrival_time..(finish[n] - 1) : nodes_queue[t] # n})
    BY Zenon, <1>1, <2>1, OthersTicks
  <2> QED
    BY Zenon, <1>1, <2>2
<1>6. WaitsForOthers'
  BY Zenon, <1>1, <1>5 DEF WaitsForOthers
<1> QED
  BY Zenon, <1>1, <1>2, <1>3, <1>4, <1>6 DEF LogInv

LEMMA LogInit == Init => LogInv
<1> SUFFICES ASSUME Init PROVE LogInv
  OBVIOUS
<1>1. pc = "arrive" /\ current_time = 0 /\ nodes_queue = [t \in Tick |-> 0]
  BY Zenon DEF Init
<1>2. ASSUME NEW n \in Node \ {0} PROVE Logged(n)
  <2>1. Ticks(n) = {}
    BY <1>1 DEF Ticks
  <2>2. Cardinality(Ticks(n)) = 0
    BY <2>1, FS_EmptySet
  <2>3. sgx_table[n].time_left = sgx_table[n].sgx_time /\ sgx_table[n].sgx_time \in Stay
    BY DEF Init
  <2>4. sgx_table[n].time_left + 0 = sgx_table[n].sgx_time /\ sgx_table[n].time_left # 0
    BY <2>3, SizeAssumption DEF Stay
  <2>5. Ticks(n) \subseteq sgx_table[n].arrival_time..(current_time - 1)
    BY <2>1
  <2> QED
    BY Zenon, <2>2, <2>4, <2>5 DEF Logged
<1>3. pc # "waiting_time" /\ pc # "done"
  BY <1>1
<1> QED
  BY Zenon, <1>2, <1>3 DEF LogInv, WaitsForOthers

LEMMA LogNext == IInv /\ LogInv /\ [Next]_vars => LogInv'
<1> SUFFICES ASSUME IInv, LogInv, [Next]_vars PROVE LogInv'
  OBVIOUS
<1>0. TypeOK
  BY DEF IInv
<1>1. CASE Arrive \/ ArriveReturn \/ Sum \/ DivideAndPush \/ TurnEnd
  <2>1. /\ nodes_queue' = nodes_queue /\ finish' = finish /\ nodes_rejoin' = nodes_rejoin
        /\ current_time' = current_time /\ sgx_table' = sgx_table
    BY Zenon, <1>1 DEF Arrive, ArriveReturn, Sum, DivideAndPush, TurnEnd, history
  <2>2. pc' \in {"arrive", "sum", "loop", "turn"}
    BY <1>1 DEF Arrive, ArriveReturn, Sum, DivideAndPush, TurnEnd
  <2>3. pc' \notin {"waiting_time", "done"}
    BY <2>2
  <2> QED
    BY Zenon, <1>0, <2>1, <2>3, LogQuiet
<1>2. CASE Idle \/ Pop
  <2>1. /\ nodes_queue' = nodes_queue /\ finish' = finish /\ nodes_rejoin' = nodes_rejoin
        /\ current_time' = current_time \/ current_time' = current_time + 1
        /\ \E stay : is_time_left(stay)
    BY Zenon, <1>2 DEF Idle, Pop, history
  <2>2. pc' \notin {"waiting_time", "done"}
    BY <1>2 DEF Idle, Pop
  <2> QED
    BY Zenon, <1>0, <2>1, <2>2, LogQuiet
<1>3. CASE UNCHANGED vars
  <2>1. /\ nodes_queue' = nodes_queue /\ finish' = finish /\ nodes_rejoin' = nodes_rejoin
        /\ current_time' = current_time /\ sgx_table' = sgx_table /\ pc' = pc
        /\ interrupted' = interrupted /\ wait_times' = wait_times
    BY Zenon, <1>3 DEF vars, history
  <2>2. ~nodes_rejoin => \A n \in Node \ {0} : Logged(n)'
    BY Zenon, <1>0, <2>1, LogKept DEF LogInv
  <2>3. Finished' = Finished
    BY Zenon, <2>1 DEF Finished
  <2>4. ~nodes_rejoin => WaitsForOthers'
    BY Zenon, <2>1 DEF LogInv, WaitsForOthers
  <2> QED
    BY Zenon, <2>1, <2>2, <2>3, <2>4 DEF LogInv
<1> QED
  BY Zenon, <1>0, <1>1, <1>2, <1>3, LogLeave, LogTick, LogWaiting DEF Next

(* Whenever all are served and nobody comes back, wait_times holds for every node
   but 0 the number of ticks between its arrival and the end of its stay in which
   another had the turn or none had: the subtraction in uint of waiting_time never
   wraps, whatever the number of nodes, the stays and the arrivals. *)
THEOREM WaitTimesRight == Spec => []WaitsForOthers
<1>1. Spec => []LogInv
  BY Invariance, LogInit, LogNext, PTL DEF Spec
<1>2. LogInv => WaitsForOthers
  BY Zenon DEF LogInv, WaitsForOthers
<1> QED
  BY <1>1, <1>2, PTL

-----------------------------------------------------------------------------
(* The turns of the simulator when all arrive together, at the opening. *)

Times == [n \in Node |-> sgx_table[n].sgx_time]
Opening == sgx_table[0].arrival_time
Together == ~nodes_rejoin /\ \A n \in Node : sgx_table[n].arrival_time = Opening

(* All have been taken in. *)
Begun == Opening < current_time \/ (Opening = current_time /\ ~Arriving)

(* Every node has had its turns, and the one whose turn it is all but qt of it. *)
HadTurns(T, reps) ==
  \A n \in Node : sgx_table[n].time_left =
                    Rest(T, n, reps[n]) + (IF n = current_node THEN qt ELSE 0)

InOrder(reps) ==
  /\ \A x, y \in DOMAIN queue : x < y => Before(reps, queue[x], queue[y])
  /\ current_node # NoNode => \A x \in DOMAIN queue : Before(reps, queue[x], current_node)

(* No tick since the opening was idle. *)
Clock(T, reps) ==
  IF Begun THEN current_time + qt = Opening + SumFunctionOnSet(Turns(T), Played(reps))
           ELSE \A n \in Node : reps[n] = 0

Rounds(T) == \E reps \in [Node -> Nat] : HadTurns(T, reps) /\ InOrder(reps) /\ Clock(T, reps)

NoTurn ==
  /\ ~Begun => current_node = NoNode
  /\ current_node = NoNode => qt = 0

(* calculate_quantum_time *)
Seen(T, t, j) == {n \in Members(T, t) : n < j}
Summed(T) ==
  pc = "sum" => \A t \in Tier : /\ sumT[t] = SumFunctionOnSet(T, Seen(T, t, k))
                                /\ tier_active_nodes[t] = Cardinality(Seen(T, t, k))
Divided(T) ==
  (\E n \in Node : Joined(n)) =>
    \A n \in Node : tier_quantum_time[TierOf(T, n)] = QuantumOf(T, n)

NotLate(T) == \A n \in Finished : Lead(T, n) <= finish[n] - Opening

RoundRobin == Rounds(Times) /\ NoTurn /\ Summed(Times) /\ Divided(Times) /\ NotLate(Times)
RInv == Together => RoundRobin

(* What a step without nodes_rejoin leaves alone *)
SameTimes ==
  /\ nodes_rejoin' = nodes_rejoin /\ Times' = Times /\ Opening' = Opening
  /\ \A n \in Node : sgx_table'[n].arrival_time = sgx_table[n].arrival_time

LEMMA TimesType ==
  ASSUME TypeOK
  PROVE  /\ Times \in [Node -> Stay] /\ Opening \in Nat /\ 0 \in Node
         /\ \A n \in Node : TierOf(Times, n) = calc_tier_number(sgx_table[n])
         /\ \A n \in Node : TierOf(Times, n) \in Tier
<1>1. 0 \in Node
  BY SizeAssumption DEF Node
<1>2. \A n \in Node : sgx_table[n].sgx_time \in Stay
  BY Zenon, NodeType
<1>3. \A n \in Node : TierOf(Times, n) = calc_tier_number(sgx_table[n])
  BY Zenon DEF TierOf, Times, calc_tier_number
<1>4. Opening \in Nat
  BY Zenon, <1>1, NodeType DEF Opening
<1>5. Times \in [Node -> Stay]
  BY <1>2 DEF Times
<1> QED
  BY Zenon, <1>1, <1>3, <1>4, <1>5, NodeType

(* Who has been taken in, when all arrive at the opening *)
LEMMA JoinedOpening ==
  ASSUME TypeOK, Together
  PROVE  /\ \A n \in Node : Joined(n) <=> \/ Opening < current_time
                                          \/ (Opening = current_time /\ (Arriving => n < i))
         /\ Begun => \A n \in Node : Joined(n)
<1>1. \A n \in Node : Joined(n) <=> \/ Opening < current_time
                                    \/ (Opening = current_time /\ (Arriving => n < i))
  BY Zenon DEF Joined, Together
<1> QED
  BY Zenon, <1>1 DEF Begun

LEMMA TurnTickTable ==
  ASSUME TypeOK, Turn, TurnTick
  PROVE  /\ current_node \in Node
         /\ \A n \in Node :
              /\ sgx_table'[n].arrival_time = sgx_table[n].arrival_time
              /\ sgx_table'[n].sgx_time = sgx_table[n].sgx_time
              /\ sgx_table'[n].time_left = IF n = current_node THEN sgx_table[n].time_left - 1
                                                               ELSE sgx_table[n].time_left
<1> DEFINE c == current_node
<1>1. /\ sgx_table' = [sgx_table EXCEPT ![c].time_left = @ - 1] /\ pc = "turn"
      /\ sgx_table \in [Node -> SgxNode]
  BY Zenon DEF TurnTick, TypeOK
<1>2. c \in Node
  BY <1>1 DEF Turn, TypeOK
<1> HIDE DEF c
<1>3. ASSUME NEW n \in Node
      PROVE  /\ sgx_table'[n].arrival_time = sgx_table[n].arrival_time
             /\ sgx_table'[n].sgx_time = sgx_table[n].sgx_time
             /\ sgx_table'[n].time_left = IF n = c THEN sgx_table[n].time_left - 1
                                                   ELSE sgx_table[n].time_left
  <2>1. sgx_table[n] \in SgxNode
    BY <1>1
  <2>2. sgx_table'[n] = IF n = c THEN [sgx_table[n] EXCEPT !.time_left = @ - 1]
                                 ELSE sgx_table[n]
    BY <1>1, <1>2
  <2> QED
    BY <2>1, <2>2 DEF SgxNode
<1> QED
  BY Zenon, <1>2, <1>3 DEF c

LEMMA StepTimes ==
  ASSUME IInv, Next, ~nodes_rejoin
  PROVE  SameTimes
<1> USE DEF IInv
<1>1. ASSUME NEW n \in Node
      PROVE  /\ sgx_table'[n].arrival_time = sgx_table[n].arrival_time
             /\ sgx_table'[n].sgx_time = sgx_table[n].sgx_time
  <2>1. CASE TurnTick
    BY Zenon, <2>1, TurnTickTable
  <2>2. CASE Leave \/ Idle \/ Pop
    <3>1. PICK stay : is_time_left(stay)
      BY Zenon, <2>2 DEF Leave, Idle, Pop
    <3> QED
      BY Zenon, <3>1, LedTimes
  <2>3. CASE Arrive \/ ArriveReturn \/ Sum \/ DivideAndPush \/ TurnEnd \/ waiting_time
    <3>1. sgx_table' = sgx_table
      BY Zenon, <2>3 DEF Arrive, ArriveReturn, Sum, DivideAndPush, TurnEnd, waiting_time
    <3> QED
      BY Zenon, <3>1
  <2> QED
    BY Zenon, <2>1, <2>2, <2>3 DEF Next
<1>2. nodes_rejoin' = nodes_rejoin
  BY Zenon DEF Next, Arrive, ArriveReturn, Sum, DivideAndPush, TurnEnd, waiting_time, Leave,
     Idle, Pop, TurnTick
<1>3. Times' = Times
  BY Zenon, <1>1 DEF Times
<1>4. Opening' = Opening
  BY Zenon, <1>1, TimesType DEF Opening
<1> QED
  BY Zenon, <1>1, <1>2, <1>3, <1>4 DEF SameTimes

LEMMA TogetherBefore ==
  ASSUME SameTimes
  PROVE  Together' <=> Together
BY Zenon DEF SameTimes, Together

(* The parts of RoundRobin that a step leaves alone *)
LEMMA RoundsKept ==
  ASSUME SameTimes, Rounds(Times), NoTurn,
         \A n \in Node : sgx_table'[n].time_left = sgx_table[n].time_left,
         queue' = queue, current_node' = current_node, qt' = qt,
         current_time' = current_time, Begun' <=> Begun
  PROVE  Rounds(Times)' /\ NoTurn'
<1>1. PICK reps \in [Node -> Nat] : /\ HadTurns(Times, reps) /\ InOrder(reps)
                                    /\ Clock(Times, reps)
  BY Zenon DEF Rounds
<1>2. Times' = Times /\ Opening' = Opening
  BY Zenon DEF SameTimes
<1>3. HadTurns(Times, reps)'
  BY Zenon, <1>1, <1>2 DEF HadTurns
<1>4. InOrder(reps)'
  BY Zenon, <1>1 DEF InOrder
<1>5. Clock(Times, reps)'
  BY Zenon, <1>1, <1>2 DEF Clock
<1>6. NoTurn'
  BY Zenon DEF NoTurn
<1> QED
  BY Zenon, <1>3, <1>4, <1>5, <1>6 DEF Rounds

LEMMA NotLateKept ==
  ASSUME SameTimes, NotLate(Times), finish' = finish,
         \A n \in Node : sgx_table'[n].time_left = sgx_table[n].time_left
  PROVE  NotLate(Times)'
<1>1. Finished' = Finished /\ Times' = Times /\ Opening' = Opening
  BY Zenon, FinishedSame DEF SameTimes
<1> QED
  BY Zenon, <1>1 DEF NotLate

LEMMA DividedKept ==
  ASSUME SameTimes, Divided(Times), tier_quantum_time' = tier_quantum_time,
         \A n \in Node : Joined(n)' => \E m \in Node : Joined(m)
  PROVE  Divided(Times)'
<1>1. Times' = Times
  BY Zenon DEF SameTimes
<1> QED
  BY Zenon, <1>1 DEF Divided

(* One more node is looked at: it joins the sum of its tier, and no other. *)
LEMMA SeenSets ==
  ASSUME NEW T, NEW t
  PROVE  /\ Seen(T, t, 0) = {} /\ Seen(T, t, N) = Members(T, t)
         /\ \A j \in Node : /\ IsFiniteSet(Seen(T, t, j)) /\ j \notin Seen(T, t, j)
                            /\ Seen(T, t, j) \in SUBSET Node
                            /\ Seen(T, t, j + 1) = IF TierOf(T, j) = t
                                                   THEN Seen(T, t, j) \cup {j}
                                                   ELSE Seen(T, t, j)
<1>1. \A n \in Node : n \in Nat /\ n < N /\ ~(n < 0) /\ ~(n < n)
  BY SizeAssumption DEF Node
<1>2. \A m, n \in Node : m < n + 1 <=> m < n \/ m = n
  BY SizeAssumption DEF Node
<1>3. Members(T, t) \in SUBSET Node
  BY Zenon DEF Members
<1>4. Seen(T, t, 0) = {} /\ Seen(T, t, N) = Members(T, t)
  BY Zenon, <1>1, <1>3 DEF Seen
<1>5. ASSUME NEW j \in Node
      PROVE  /\ IsFiniteSet(Seen(T, t, j)) /\ j \notin Seen(T, t, j)
             /\ Seen(T, t, j) \in SUBSET Node
             /\ Seen(T, t, j + 1) = IF TierOf(T, j) = t THEN Seen(T, t, j) \cup {j}
                                                        ELSE Seen(T, t, j)
  <2>1. Seen(T, t, j) \in SUBSET Node /\ j \notin Seen(T, t, j)
    BY Zenon, <1>1, <1>3 DEF Seen
  <2>2. IsFiniteSet(Seen(T, t, j))
    BY Zenon, <2>1, PairsFinite, FS_Subset
  <2>3. \A n \in Node : n \in Seen(T, t, j + 1) <=> n \in Members(T, t) /\ (n < j \/ n = j)
    BY Zenon, <1>2, <1>3 DEF Seen
  <2>4. \A n \in Node : n \in Seen(T, t, j) <=> n \in Members(T, t) /\ n < j
    BY Zenon, <1>3 DEF Seen
  <2>5. Seen(T, t, j + 1) \in SUBSET Node
    BY Zenon, <1>3 DEF Seen
  <2>6. j \in Members(T, t) <=> TierOf(T, j) = t
    BY Zenon DEF Members
  <2>7. CASE TierOf(T, j) = t
    <3>1. Seen(T, t, j + 1) = Seen(T, t, j) \cup {j}
      BY Zenon, <2>1, <2>3, <2>4, <2>5, <2>6, <2>7
    <3> QED
      BY Zenon, <2>1, <2>2, <2>7, <3>1
  <2>8. CASE TierOf(T, j) # t
    <3>1. Seen(T, t, j + 1) = Seen(T, t, j)
      BY Zenon, <2>1, <2>3, <2>4, <2>5, <2>6, <2>8
    <3> QED
      BY Zenon, <2>1, <2>2, <2>8, <3>1
  <2> QED
    BY Zenon, <2>7, <2>8
<1> QED
  BY Zenon, <1>4, <1>5

(* The steps: check_node_arrive *)
LEMMA RoundArrive ==
  ASSUME IInv, Together, RoundRobin, SameTimes, Arrive
  PROVE  RoundRobin'
<1> USE DEF IInv, RoundRobin
<1>1. /\ pc = "arrive" /\ i < N
      /\ UNCHANGED <<sgx_table, queue, current_time, tier_quantum_time, current_node, qt, finish>>
  BY Zenon DEF Arrive, turn, history
<1>2. Times' = Times /\ Opening' = Opening
  BY Zenon DEF SameTimes
<1>3. pc' = "arrive" \/ pc' = "sum"
  BY Zenon, <1>1 DEF Arrive
<1>4. Begun' <=> Begun
  BY Zenon, <1>1, <1>2, <1>3 DEF Begun, Arriving
<1>5. Rounds(Times)' /\ NoTurn'
  BY Zenon, <1>1, <1>4, RoundsKept
<1>6. NotLate(Times)'
  BY Zenon, <1>1, NotLateKept
<1>7. \A n \in Node : Joined(n)' => Joined(n)
  <2>1. \A n \in Node : n \in Nat /\ i \in Nat
    BY Zenon, Facts
  <2>2. \A m, n \in Nat : n < m + 1 => n < m \/ n = m
    OBVIOUS
  <2>3. ASSUME NEW n \in Node, Joined(n)' PROVE Joined(n)
    <3>1. CASE sgx_table[i].arrival_time = current_time
      <4>1. i' = i
        BY Zenon, <3>1 DEF Arrive
      <4> QED
        BY Zenon, <1>1, <1>3, <2>3, <4>1 DEF Joined, Arriving
    <3>2. CASE sgx_table[i].arrival_time # current_time
      <4>1. i' = i + 1
        BY Zenon, <3>2 DEF Arrive
      <4>2. n < i' => n < i \/ n = i
        BY Zenon, <2>1, <2>2, <4>1
      <4> QED
        BY Zenon, <1>1, <1>3, <2>3, <3>2, <4>2 DEF Joined, Arriving
    <3> QED
      BY Zenon, <3>1, <3>2
  <2> QED
    BY Zenon, <2>3
<1>8. Divided(Times)'
  BY Zenon, <1>1, <1>7, DividedKept
<1>9. Summed(Times)'
  <2> SUFFICES ASSUME pc' = "sum", NEW t \in Tier
               PROVE  /\ sumT'[t] = SumFunctionOnSet(Times, Seen(Times, t, k'))
                      /\ tier_active_nodes'[t] = Cardinality(Seen(Times, t, k'))
    BY Zenon, <1>2 DEF Summed
  <2>1. pc' # pc
    BY <1>1
  <2>2. /\ k' = 0 /\ sumT' = [u \in Tier |-> 0] /\ tier_active_nodes' = [u \in Tier |-> 0]
    BY Zenon, <2>1 DEF Arrive
  <2>3. Seen(Times, t, k') = {}
    BY Zenon, <2>2, SeenSets
  <2>4. SumFunctionOnSet(Times, {}) = 0 /\ Cardinality({}) = 0
    BY Zenon, SumEmpty, FS_EmptySet
  <2> QED
    BY Zenon, <2>2, <2>3, <2>4
<1> QED
  BY Zenon, <1>5, <1>6, <1>8, <1>9

LEMMA RoundArriveReturn ==
  ASSUME IInv, Together, RoundRobin, SameTimes, ArriveReturn
  PROVE  RoundRobin'
<1> USE DEF IInv, RoundRobin
<1>1. /\ pc = "arrive" /\ i = N /\ i' = 0
      /\ pc' = IF current_node = NoNode THEN "loop" ELSE "turn"
      /\ UNCHANGED <<sgx_table, queue, current_time, tier_quantum_time, current_node, qt, finish>>
  BY Zenon DEF ArriveReturn, turn, history, tiers
<1>2. Times' = Times /\ Opening' = Opening
  BY Zenon DEF SameTimes
<1>3. pc' \in {"loop", "turn"}
  BY Zenon, <1>1
<1>4. pc' # "arrive" /\ pc' # "sum"
  BY <1>3
<1>5. NotLate(Times)'
  BY Zenon, <1>1, NotLateKept
<1>6. \A n \in Node : Joined(n)' => Joined(n)
  <2>1. \A n \in Node : n < i
    BY Zenon, <1>1, Facts
  <2> QED
    BY Zenon, <1>1, <2>1 DEF Joined
<1>7. Divided(Times)' /\ Summed(Times)'
  BY Zenon, <1>1, <1>4, <1>6, DividedKept DEF Summed
<1>8. Rounds(Times)' /\ NoTurn'
  <2>1. CASE Begun' <=> Begun
    BY Zenon, <1>1, <2>1, RoundsKept
  <2>2. CASE ~(Begun' <=> Begun)
    <3>1. Begun' /\ ~Begun /\ Opening = current_time
      BY Zenon, <1>1, <1>2, <1>4, <2>2 DEF Begun, Arriving
    <3>2. PICK reps \in [Node -> Nat] : /\ HadTurns(Times, reps) /\ InOrder(reps)
                                        /\ Clock(Times, reps)
      BY Zenon DEF Rounds
    <3>3. \A n \in Node : reps[n] = 0
      BY Zenon, <3>1, <3>2 DEF Clock
    <3>4. SumFunctionOnSet(Turns(Times), Played(reps)) = 0
      BY Zenon, <3>3, PlayedNone
    <3>5. current_node = NoNode /\ qt = 0
      BY Zenon, <3>1 DEF NoTurn
    <3>6. current_time + 0 = current_time
      BY Facts
    <3>7. Clock(Times, reps)'
      BY Zenon, <1>1, <1>2, <3>1, <3>4, <3>5, <3>6 DEF Clock
    <3>8. HadTurns(Times, reps)' /\ InOrder(reps)'
      BY Zenon, <1>1, <1>2, <3>2 DEF HadTurns, InOrder
    <3> QED
      BY Zenon, <1>1, <3>1, <3>5, <3>7, <3>8 DEF Rounds, NoTurn
  <2> QED
    BY Zenon, <2>1, <2>2
<1> QED
  BY Zenon, <1>5, <1>7, <1>8

(* While the quanta are computed nobody has had a turn. *)
LEMMA NoneHadTurn ==
  ASSUME IInv, Together, RoundRobin, pc = "sum"
  PROVE  /\ ~Begun /\ Opening = current_time /\ i \in Node
         /\ \A n \in Node : sgx_table[n].time_left = Times[n]
<1> USE DEF IInv, RoundRobin
<1>1. i < N /\ sgx_table[i].arrival_time = current_time
  BY Zenon DEF Turn
<1>2. i \in Node
  BY <1>1, Facts DEF Node
<1>3. Opening = current_time
  BY Zenon, <1>1, <1>2 DEF Together
<1>4. ~Begun
  <2>1. ~(Opening < current_time)
    BY <1>3, Facts
  <2> QED
    BY Zenon, <2>1 DEF Begun, Arriving
<1>5. ASSUME NEW n \in Node PROVE sgx_table[n].time_left = Times[n]
  <2>1. PICK reps \in [Node -> Nat] : HadTurns(Times, reps) /\ Clock(Times, reps)
    BY Zenon DEF Rounds
  <2>2. reps[n] = 0 /\ n # current_node
    BY Zenon, <1>4, <2>1, Facts DEF Clock, NoTurn
  <2>3. Times \in [Node -> Stay] /\ 0 \in Nat
    BY Zenon, TimesType, SizeAssumption
  <2>4. Rest(Times, n, 0) = Times[n] /\ Times[n] \in Nat
    BY Zenon, <2>3, RestAfter, StaysAreNumbers
  <2>5. \A a \in Nat : a + 0 = a
    OBVIOUS
  <2>6. sgx_table[n].time_left = Rest(Times, n, reps[n]) + 0
    BY Zenon, <2>1, <2>2 DEF HadTurns
  <2> QED
    BY Zenon, <2>2, <2>4, <2>5, <2>6
<1> QED
  BY Zenon, <1>2, <1>3, <1>4, <1>5

(* calculate_quantum_time: the sum of one node, then the quotients and the push *)
LEMMA RoundSum ==
  ASSUME IInv, Together, RoundRobin, SameTimes, Sum
  PROVE  RoundRobin'
<1> USE DEF IInv, RoundRobin
<1>1. /\ pc = "sum" /\ k < N /\ k' = k + 1
      /\ UNCHANGED <<sgx_table, queue, current_time, tier_quantum_time, current_node, qt, finish,
                     pc, i>>
  BY Zenon DEF Sum, turn, history
<1>2. Times' = Times /\ Opening' = Opening
  BY Zenon DEF SameTimes
<1>3. /\ \A n \in Node : Joined(n)' => Joined(n)
      /\ Begun' <=> Begun
  BY Zenon, <1>1, <1>2 DEF Begun, Arriving, Joined
<1>4. Rounds(Times)' /\ NoTurn'
  BY Zenon, <1>1, <1>3, RoundsKept
<1>5. NotLate(Times)' /\ Divided(Times)'
  BY Zenon, <1>1, <1>3, NotLateKept, DividedKept
<1>6. k \in Node
  BY <1>1, Facts DEF Node
<1> DEFINE u == TierOf(Times, k)
<1>7. u = calc_tier_number(sgx_table[k]) /\ u \in Tier /\ sgx_table[k].time_left = Times[k]
  BY Zenon, <1>1, <1>6, TimesType, NoneHadTurn
<1>8. current_time >= sgx_table[k].arrival_time
  <2>1. sgx_table[k].arrival_time = current_time /\ current_time \in Nat
    BY Zenon, <1>1, <1>6, NoneHadTurn, Facts DEF Together
  <2> QED
    BY <2>1
<1>9. /\ tier_active_nodes' = [tier_active_nodes EXCEPT ![u] = @ + 1]
      /\ sumT' = [sumT EXCEPT ![u] = @ + Times[k]]
  BY Zenon, <1>7, <1>8 DEF Sum
<1>10. sumT \in [Tier -> Nat] /\ tier_active_nodes \in [Tier -> Nat]
  BY Zenon DEF TypeOK
<1>11. ASSUME NEW t \in Tier
       PROVE  /\ sumT'[t] = SumFunctionOnSet(Times, Seen(Times, t, k + 1))
              /\ tier_active_nodes'[t] = Cardinality(Seen(Times, t, k + 1))
  <2> DEFINE S == Seen(Times, t, k)
  <2>1. /\ sumT[t] = SumFunctionOnSet(Times, S)
        /\ tier_active_nodes[t] = Cardinality(S)
    BY Zenon, <1>1 DEF Summed
  <2>2. CASE t = u
    <3>1. /\ Seen(Times, t, k + 1) = S \cup {k} /\ IsFiniteSet(S) /\ k \notin S
          /\ S \in SUBSET Node
      BY Zenon, <1>6, <2>2, SeenSets
    <3>2. sumT'[t] = sumT[t] + Times[k] /\ tier_active_nodes'[t] = tier_active_nodes[t] + 1
      <4> HIDE DEF u
      <4> QED
        BY <1>9, <1>10, <2>2
    <3> HIDE DEF S
    <3>3. \A x \in S \cup {k} : Times[x] \in Int
      <4>1. \A x \in Node : Times[x] \in Nat
        BY Zenon, TimesType, StaysAreNumbers
      <4>2. \A a \in Nat : a \in Int
        OBVIOUS
      <4> QED
        BY Zenon, <1>6, <3>1, <4>1, <4>2
    <3>4. SumFunctionOnSet(Times, S \cup {k}) = SumFunctionOnSet(Times, S) + Times[k]
      BY Zenon, <3>1, <3>3, SumAdd
    <3>5. Cardinality(S \cup {k}) = Cardinality(S) + 1
      BY Zenon, <3>1, FS_AddElement
    <3> QED
      BY Zenon, <2>1, <3>1, <3>2, <3>4, <3>5
  <2>3. CASE t # u
    <3>1. Seen(Times, t, k + 1) = S
      BY Zenon, <1>6, <2>3, SeenSets
    <3>2. sumT'[t] = sumT[t] /\ tier_active_nodes'[t] = tier_active_nodes[t]
      <4> HIDE DEF u
      <4> QED
        BY <1>9, <1>10, <2>3
    <3> QED
      BY Zenon, <2>1, <3>1, <3>2
  <2> QED
    BY Zenon, <2>2, <2>3
<1>12. Summed(Times)'
  BY Zenon, <1>1, <1>2, <1>11 DEF Summed
<1> QED
  BY Zenon, <1>4, <1>5, <1>12

LEMMA AppendEnd ==
  ASSUME NEW s \in Seq(Node), NEW e \in Node, NEW t, t = Append(s, e)
  PROVE  \E l : /\ DOMAIN t = DOMAIN s \cup {l} /\ t[l] = e /\ ~(l < l)
               /\ \A x \in DOMAIN s : t[x] = s[x] /\ x < l /\ ~(l < x)
<1> DEFINE l == Len(s) + 1
<1>1. /\ DOMAIN t = DOMAIN s \cup {l} /\ t[l] = e /\ ~(l < l)
      /\ \A x \in DOMAIN s : t[x] = s[x] /\ x < l /\ ~(l < x)
  OBVIOUS
<1> QED
  BY Zenon, <1>1

LEMMA RoundDivideAndPush ==
  ASSUME IInv, Together, RoundRobin, SameTimes, DivideAndPush
  PROVE  RoundRobin'
<1> USE DEF IInv, RoundRobin
<1>1. /\ pc = "sum" /\ k = N /\ pc' = "arrive" /\ i' = i + 1 /\ queue' = Append(queue, i)
      /\ tier_quantum_time' = [t \in Tier |->
           IF sumT[t] > 0
           THEN CeilDiv(sumT[t], tier_active_nodes[t] * tier_active_nodes[t])
           ELSE tier_quantum_time[t]]
      /\ UNCHANGED <<sgx_table, current_time, current_node, qt, finish>>
  BY Zenon DEF DivideAndPush, turn, history
<1>2. Times' = Times /\ Opening' = Opening
  BY Zenon DEF SameTimes
<1>3. ~Begun /\ Opening = current_time /\ i \in Node
  BY Zenon, <1>1, NoneHadTurn
<1>4. Begun' <=> Begun
  BY Zenon, <1>1, <1>2 DEF Begun, Arriving
<1>5. NotLate(Times)' /\ Summed(Times)'
  <2>1. pc' # "sum"
    BY <1>1
  <2> QED
    BY Zenon, <1>1, <2>1, NotLateKept DEF Summed
<1>6. Divided(Times)'
  <2> SUFFICES ASSUME NEW n \in Node
               PROVE  tier_quantum_time'[TierOf(Times, n)] = QuantumOf(Times, n)
    BY Zenon, <1>2 DEF Divided
  <2> DEFINE t == TierOf(Times, n)
             S == Members(Times, t)
  <2>1. t \in Tier
    BY Zenon, TimesType
  <2>2. sumT[t] = SumFunctionOnSet(Times, S) /\ tier_active_nodes[t] = Cardinality(S)
    BY Zenon, <1>1, <2>1, SeenSets DEF Summed
  <2>3. SumFunctionOnSet(Times, S) > 0
    BY Zenon, TimesType, MembersSum
  <2>4. QuantumOf(Times, n) = CeilDiv(SumFunctionOnSet(Times, S), Cardinality(S) * Cardinality(S))
    BY Zenon DEF QuantumOf
  <2> HIDE DEF S, t
  <2>5. tier_quantum_time'[t] = CeilDiv(sumT[t], tier_active_nodes[t] * tier_active_nodes[t])
    BY Zenon, <1>1, <2>1, <2>2, <2>3
  <2> QED
    BY Zenon, <2>2, <2>4, <2>5 DEF t
<1>7. PICK reps \in [Node -> Nat] : HadTurns(Times, reps) /\ InOrder(reps) /\ Clock(Times, reps)
  BY Zenon DEF Rounds
<1>8. \A n \in Node : reps[n] = 0
  BY Zenon, <1>3, <1>7 DEF Clock
<1>9. current_node = NoNode /\ qt = 0
  BY Zenon, <1>3 DEF NoTurn
<1>10. InOrder(reps)'
  <2>1. queue \in Seq(Node) /\ \A x \in DOMAIN queue : queue[x] \in Node
    BY Facts
  <2>2. \A x \in DOMAIN queue : queue[x] < i
    <3> TAKE x \in DOMAIN queue
    <3>1. InQueue(queue[x])
      BY Zenon DEF InQueue, In
    <3>2. Joined(queue[x])
      BY Zenon, <2>1, <3>1 DEF Queued
    <3>3. ~(Opening < current_time) /\ Arriving
      BY <1>1, <1>3, Facts DEF Arriving
    <3> QED
      BY Zenon, <2>1, <3>2, <3>3, JoinedOpening
  <2>3. ASSUME NEW x \in DOMAIN queue', NEW y \in DOMAIN queue', x < y
        PROVE  queue'[x] < queue'[y] /\ queue'[x] \in Node /\ queue'[y] \in Node
    <3>1. PICK e : /\ DOMAIN queue' = DOMAIN queue \cup {e} /\ queue'[e] = i /\ ~(e < e)
                   /\ \A z \in DOMAIN queue : queue'[z] = queue[z] /\ z < e /\ ~(e < z)
      <4>1. queue' = Append(queue, i)
        BY Zenon, <1>1
      <4> QED
        BY SMT, <1>3, <2>1, <4>1, AppendEnd
    <3>2. x \in DOMAIN queue
      BY Zenon, <2>3, <3>1
    <3>3. CASE y = e
      BY Zenon, <1>3, <2>1, <2>2, <3>1, <3>2, <3>3
    <3>4. CASE y \in DOMAIN queue
      <4>1. Before(reps, queue[x], queue[y]) /\ queue[x] \in Node /\ queue[y] \in Node
        BY Zenon, <1>7, <2>1, <2>3, <3>2, <3>4 DEF InOrder
      <4>2. reps[queue[x]] = 0 /\ reps[queue[y]] = 0 /\ 0 # 0 + 1
        BY <1>8, <4>1
      <4>3. queue[x] < queue[y]
        BY Zenon, <4>1, <4>2 DEF Before
      <4> QED
        BY Zenon, <3>1, <3>2, <3>4, <4>1, <4>3
    <3> QED
      BY Zenon, <3>1, <3>3, <3>4
  <2> QED
    BY Zenon, <1>1, <1>8, <1>9, <2>3 DEF InOrder, Before
<1>11. HadTurns(Times, reps)' /\ Clock(Times, reps)' /\ NoTurn'
  BY Zenon, <1>1, <1>2, <1>3, <1>4, <1>7, <1>8, <1>9 DEF HadTurns, Clock, NoTurn
<1>12. Rounds(Times)'
  BY Zenon, <1>10, <1>11 DEF Rounds
<1> QED
  BY Zenon, <1>5, <1>6, <1>11, <1>12

(* The loop ends, and the waiting times are computed. *)
LEMMA RoundLeave ==
  ASSUME IInv, Together, RoundRobin, SameTimes, Leave \/ waiting_time
  PROVE  RoundRobin'
<1> USE DEF IInv, RoundRobin
<1>1. /\ pc \in {"loop", "waiting_time"} /\ pc' \in {"waiting_time", "done"}
      /\ sgx_table' = sgx_table \/ \E stay : is_time_left(stay)
      /\ UNCHANGED <<queue, current_time, tier_quantum_time, current_node, qt, finish, i>>
  BY Zenon DEF Leave, waiting_time, turn, history, tiers
<1>2. ~Arriving /\ ~Arriving' /\ pc' # "sum"
  BY <1>1 DEF Arriving
<1>3. \A n \in Node : sgx_table'[n].time_left = sgx_table[n].time_left
  BY Zenon, <1>1, LedTimes DEF Together
<1>4. /\ \A n \in Node : Joined(n)' => Joined(n)
      /\ Begun' <=> Begun
  BY Zenon, <1>1, <1>2 DEF Begun, Joined, SameTimes
<1>5. Rounds(Times)' /\ NoTurn'
  BY Zenon, <1>1, <1>3, <1>4, RoundsKept
<1>6. NotLate(Times)' /\ Divided(Times)'
  BY Zenon, <1>1, <1>3, <1>4, NotLateKept, DividedKept
<1> QED
  BY Zenon, <1>2, <1>5, <1>6 DEF Summed

(* Once all have been taken in somebody is in the queue until all are served. *)
LEMMA RoundIdle ==
  ASSUME IInv, Together, RoundRobin, SameTimes, Idle
  PROVE  RoundRobin'
<1> USE DEF IInv, RoundRobin
<1>1. /\ pc = "loop" /\ pc' = "arrive" /\ queue = <<>> /\ Finished # Node
      /\ current_time' = current_time + 1
      /\ UNCHANGED <<queue, tier_quantum_time, current_node, qt, finish, i>>
  BY Zenon DEF Idle, turn, history, tiers
<1>2. Times' = Times /\ Opening' = Opening
  BY Zenon DEF SameTimes
<1>3. \A n \in Node : sgx_table'[n].time_left = sgx_table[n].time_left
  BY Zenon, LedTimes DEF Together, Idle
<1>4. current_node = NoNode /\ i = 0 /\ current_time \in Nat /\ Opening \in Nat
  BY Zenon, <1>1, Facts, TimesType DEF Turn
<1>5. ~Begun
  <2> SUFFICES ASSUME Begun PROVE FALSE
    OBVIOUS
  <2>1. PICK n \in Node : n \notin Finished
    BY Zenon, <1>1 DEF Finished
  <2>2. sgx_table[n].time_left > 0 /\ Joined(n) /\ n # current_node
    BY Zenon, <1>4, <2>1, NodeType, JoinedOpening, Facts
  <2>3. InQueue(n)
    BY Zenon, <2>2 DEF Queued
  <2> QED
    BY <1>1, <2>3 DEF InQueue, In
<1>6. current_time < Opening
  <2>1. ~Arriving
    BY <1>1 DEF Arriving
  <2>2. ~(Opening < current_time) /\ Opening # current_time
    BY Zenon, <1>5, <2>1 DEF Begun
  <2> QED
    BY <1>4, <2>2
<1>7. ~Begun'
  <2>1. ~(Opening < current_time + 1)
    BY <1>4, <1>6
  <2> QED
    BY Zenon, <1>1, <1>2, <2>1 DEF Begun, Arriving
<1>8. \A n \in Node : ~Joined(n)'
  <2>1. \A n \in Node : sgx_table'[n].arrival_time = Opening
    BY Zenon DEF SameTimes, Together
  <2>3. \A n \in Node : ~(n < i)
    BY <1>4, Facts
  <2>2. ~(Opening < current_time + 1)
    BY <1>4, <1>6
  <2> QED
    BY Zenon, <1>1, <2>1, <2>2, <2>3 DEF Joined, Arriving
<1>9. PICK reps \in [Node -> Nat] : HadTurns(Times, reps) /\ InOrder(reps) /\ Clock(Times, reps)
  BY Zenon DEF Rounds
<1>10. HadTurns(Times, reps)' /\ InOrder(reps)'
  BY Zenon, <1>1, <1>2, <1>3, <1>9 DEF HadTurns, InOrder
<1>11. Clock(Times, reps)' /\ NoTurn'
  BY Zenon, <1>1, <1>4, <1>5, <1>7, <1>9 DEF Clock, NoTurn
<1>12. Divided(Times)' /\ Summed(Times)'
  <2>1. pc' # "sum"
    BY <1>1
  <2> QED
    BY Zenon, <1>8, <2>1 DEF Divided, Summed
<1>13. NotLate(Times)'
  BY Zenon, <1>1, <1>3, NotLateKept
<1> QED
  BY Zenon, <1>10, <1>11, <1>12, <1>13 DEF Rounds

(* The node of the turn goes to the end of the queue, or is served. *)
LEMMA RoundTurnEnd ==
  ASSUME IInv, Together, RoundRobin, SameTimes, TurnEnd
  PROVE  RoundRobin'
<1> USE DEF IInv, RoundRobin
<1> DEFINE c == current_node
<1>1. /\ pc = "turn" /\ pc' = "loop" /\ qt = 0 /\ current_node' = NoNode
      /\ queue' = IF sgx_table[c].time_left > 0 THEN Append(queue, c) ELSE queue
      /\ UNCHANGED <<sgx_table, current_time, tier_quantum_time, qt, finish, i>>
  BY Zenon DEF TurnEnd, history, tiers
<1>2. Times' = Times /\ Opening' = Opening
  BY Zenon DEF SameTimes
<1>3. ~Arriving /\ ~Arriving' /\ pc' # "sum"
  BY <1>1 DEF Arriving
<1>4. c \in Node /\ c # NoNode
  BY Zenon, <1>1 DEF Turn, TypeOK
<1>5. /\ \A n \in Node : Joined(n)' => Joined(n)
      /\ Begun' <=> Begun
  BY Zenon, <1>1, <1>2, <1>3 DEF Begun, Joined
<1>6. NotLate(Times)' /\ Divided(Times)' /\ Summed(Times)'
  BY Zenon, <1>1, <1>3, <1>5, NotLateKept, DividedKept DEF Summed
<1>7. PICK reps \in [Node -> Nat] : HadTurns(Times, reps) /\ InOrder(reps) /\ Clock(Times, reps)
  BY Zenon DEF Rounds
<1>8. HadTurns(Times, reps)'
  <2>1. \A n \in Node : (IF n = current_node THEN qt ELSE 0) = 0
                         /\ (IF n = current_node' THEN qt' ELSE 0) = 0
    BY Zenon, <1>1
  <2> QED
    BY Zenon, <1>1, <1>2, <1>7, <2>1 DEF HadTurns
<1>9. Clock(Times, reps)' /\ NoTurn'
  BY Zenon, <1>1, <1>2, <1>5, <1>7 DEF Clock, NoTurn
<1>10. InOrder(reps)'
  <2>1. CASE sgx_table[c].time_left > 0
    <3>1. queue \in Seq(Node) /\ queue' = Append(queue, c)
      BY Zenon, <1>1, <2>1, Facts
    <3> HIDE DEF c
    <3>2. PICK e : /\ DOMAIN queue' = DOMAIN queue \cup {e} /\ queue'[e] = c /\ ~(e < e)
                   /\ \A z \in DOMAIN queue : queue'[z] = queue[z] /\ z < e /\ ~(e < z)
      BY SMT, <1>4, <3>1, AppendEnd
    <3>3. ASSUME NEW x \in DOMAIN queue', NEW y \in DOMAIN queue', x < y
          PROVE  Before(reps, queue'[x], queue'[y])
      <4>1. x \in DOMAIN queue
        BY Zenon, <3>2, <3>3
      <4>2. CASE y = e
        BY Zenon, <1>4, <1>7, <3>2, <4>1, <4>2 DEF InOrder, c
      <4>3. CASE y \in DOMAIN queue
        BY Zenon, <1>7, <3>2, <3>3, <4>1, <4>3 DEF InOrder
      <4> QED
        BY Zenon, <3>2, <4>2, <4>3
    <3> QED
      BY Zenon, <1>1, <3>3 DEF InOrder
  <2>2. CASE ~(sgx_table[c].time_left > 0)
    BY Zenon, <1>1, <1>7, <2>2 DEF InOrder
  <2> QED
    BY Zenon, <2>1, <2>2
<1> QED
  BY Zenon, <1>6, <1>8, <1>9, <1>10 DEF Rounds

(* The front of the queue begins its next turn: it is counted as had, with qt to go. *)
LEMMA RoundPop ==
  ASSUME IInv, Together, RoundRobin, SameTimes, Pop
  PROVE  RoundRobin'
<1> USE DEF IInv, RoundRobin
<1>0. PICK c : c = Head(queue)
  BY Zenon
<1> DEFINE left == sgx_table[c].time_left
<1>1. /\ pc = "loop" /\ pc' = "turn" /\ queue # <<>>
      /\ current_node' = c /\ queue' = Tail(queue)
      /\ qt' = Least(tier_quantum_time[calc_tier_number(sgx_table'[c])],
                     sgx_table'[c].time_left)
      /\ UNCHANGED <<current_time, tier_quantum_time, finish, i>>
  BY Zenon, <1>0 DEF Pop, history, tiers
<1>2. Times' = Times /\ Opening' = Opening
  BY Zenon DEF SameTimes
<1>3. \A n \in Node : sgx_table'[n].time_left = sgx_table[n].time_left
  BY Zenon, LedTimes DEF Together, Pop
<1>4. queue \in Seq(Node) /\ c \in Node /\ InQueue(c)
  BY Zenon, <1>0, <1>1, TailIn, Facts DEF InQueue, Queued
<1>5. ~Arriving /\ ~Arriving' /\ pc' # "sum"
  BY <1>1 DEF Arriving
<1>6. /\ \A n \in Node : Joined(n)' => Joined(n)
      /\ Begun' <=> Begun
  BY Zenon, <1>1, <1>5 DEF Begun, Joined, SameTimes
<1>7. Joined(c) /\ left > 0 /\ current_node = NoNode /\ qt = 0
  BY Zenon, <1>1, <1>4 DEF Queued, Turn, NoTurn
<1>8. Begun
  BY Zenon, <1>4, <1>5, <1>7, JoinedOpening DEF Begun
<1>9. NotLate(Times)' /\ Divided(Times)' /\ Summed(Times)'
  BY Zenon, <1>1, <1>3, <1>5, <1>6, NotLateKept, DividedKept DEF Summed
<1>10. PICK reps \in [Node -> Nat] : HadTurns(Times, reps) /\ InOrder(reps) /\ Clock(Times, reps)
  BY Zenon DEF Rounds
<1>m. PICK more : more = [reps EXCEPT ![c] = @ + 1]
  BY Zenon
<1>11. /\ more \in [Node -> Nat] /\ more[c] = reps[c] + 1 /\ reps[c] \in Nat
       /\ \A n \in Node : n # c => more[n] = reps[n]
  BY <1>4, <1>m
<1>12. Times \in [Node -> Stay]
  BY Zenon, TimesType
<1>13. /\ left = Rest(Times, c, reps[c]) /\ left \in Nat
       /\ Rest(Times, c, reps[c]) = Rest(Times, c, more[c]) + TurnOf(Times, c, reps[c])
       /\ reps[c] \in 0..SgxMax
       /\ TurnOf(Times, c, reps[c]) \in Nat
  <2>1. left = Rest(Times, c, reps[c]) + 0
    BY Zenon, <1>4, <1>7, <1>10, Facts DEF HadTurns
  <2>2. /\ Rest(Times, c, reps[c]) \in Nat
        /\ Rest(Times, c, reps[c]) > 0 => reps[c] \in 0..SgxMax
        /\ Rest(Times, c, reps[c]) = Rest(Times, c, reps[c] + 1) + TurnOf(Times, c, reps[c])
        /\ TurnOf(Times, c, reps[c]) \in Nat
    BY Zenon, <1>4, <1>11, <1>12, RestAfter
  <2>3. \A a \in Nat : a + 0 = a
    OBVIOUS
  <2>4. left = Rest(Times, c, reps[c])
    BY Zenon, <2>1, <2>2, <2>3
  <2> HIDE DEF left
  <2> QED
    BY Zenon, <1>7, <1>11, <2>2, <2>4
<1>14. qt' = TurnOf(Times, c, reps[c])
  <2>1. calc_tier_number(sgx_table'[c]) = TierOf(Times, c)
    <3>1. sgx_table'[c].sgx_time = Times[c]
      BY Zenon, <1>2, <1>4 DEF Times
    <3> QED
      BY Zenon, <3>1 DEF calc_tier_number, TierOf
  <2>2. tier_quantum_time[TierOf(Times, c)] = QuantumOf(Times, c)
    BY Zenon, <1>4, <1>7 DEF Divided
  <2>3. sgx_table'[c].time_left = Rest(Times, c, reps[c])
    BY Zenon, <1>3, <1>4, <1>13
  <2> QED
    BY Zenon, <1>1, <2>1, <2>2, <2>3 DEF TurnOf
<1> HIDE DEF left
<1>15. HadTurns(Times, more)'
  <2> SUFFICES ASSUME NEW n \in Node
               PROVE  sgx_table'[n].time_left =
                        Rest(Times, n, more[n]) + (IF n = c THEN qt' ELSE 0)
    BY Zenon, <1>1, <1>2 DEF HadTurns
  <2>1. CASE n = c
    <3> QED
      BY Zenon, <1>3, <1>4, <1>13, <1>14, <2>1 DEF left
  <2>2. CASE n # c
    <3>1. n # current_node
      BY Zenon, <1>7, Facts
    <3> QED
      BY Zenon, <1>3, <1>10, <1>11, <2>2, <3>1 DEF HadTurns
  <2> QED
    BY Zenon, <2>1, <2>2
<1>16. Clock(Times, more)' /\ NoTurn'
  <2>1. current_time + qt = Opening + SumFunctionOnSet(Turns(Times), Played(reps))
    BY Zenon, <1>8, <1>10 DEF Clock
  <2>2. SumFunctionOnSet(Turns(Times), Played(more)) =
          SumFunctionOnSet(Turns(Times), Played(reps)) + TurnOf(Times, c, reps[c])
    BY Zenon, <1>4, <1>12, <1>13, <1>m, PlayedMore
  <2>3. SumFunctionOnSet(Turns(Times), Played(reps)) \in Int
    <3>1. Played(reps) \in SUBSET Pairs
      BY Zenon DEF Played
    <3>2. IsFiniteSet(Played(reps))
      BY Zenon, <3>1, PairsFinite, FS_Subset
    <3>3. \A x \in Played(reps) : Turns(Times)[x] \in Int
      BY Zenon, <1>12, <3>1, TurnsType
    <3> QED
      BY Zenon, <3>2, <3>3, SumType
  <2>5. /\ current_time \in Int /\ Opening \in Int /\ TurnOf(Times, c, reps[c]) \in Int
    <3>1. current_time \in Nat /\ Opening \in Nat
      BY Zenon, Facts, TimesType
    <3>2. \A a \in Nat : a \in Int
      OBVIOUS
    <3> QED
      BY Zenon, <1>13, <3>1, <3>2
  <2>6. current_time + TurnOf(Times, c, reps[c]) =
          Opening + SumFunctionOnSet(Turns(Times), Played(more))
    <3> DEFINE s == SumFunctionOnSet(Turns(Times), Played(reps))
               t == TurnOf(Times, c, reps[c])
    <3>1. current_time + 0 = Opening + s
      BY Zenon, <1>7, <2>1
    <3>2. s \in Int /\ t \in Int /\ current_time \in Int /\ Opening \in Int
      BY Zenon, <2>3, <2>5
    <3> HIDE DEF s, t
    <3>3. current_time + t = Opening + (s + t)
      BY <3>1, <3>2
    <3> QED
      BY Zenon, <2>2, <3>3 DEF s, t
  <2>7. c # NoNode
    BY Zenon, <1>4, Facts
  <2> QED
    BY Zenon, <1>1, <1>2, <1>6, <1>8, <1>14, <2>6, <2>7 DEF Clock, NoTurn
<1>17. InOrder(more)'
  <2>1. /\ DOMAIN queue' \subseteq Nat /\ 1 \in DOMAIN queue /\ queue[1] = c
        /\ \A x \in DOMAIN queue' : /\ x + 1 \in DOMAIN queue /\ queue'[x] = queue[x + 1]
                                    /\ 1 < x + 1 /\ queue[x + 1] \in Node
    BY <1>0, <1>1, <1>4
  <2>2. ASSUME NEW x \in DOMAIN queue'
        PROVE  Before(reps, c, queue'[x]) /\ queue'[x] \in Node /\ queue'[x] # c
    <3>1. Before(reps, c, queue'[x]) /\ queue'[x] \in Node
      BY Zenon, <1>10, <2>1 DEF InOrder
    <3>2. ~(c < c)
      BY <1>4, Facts
    <3> QED
      BY Zenon, <3>1, <3>2 DEF Before
  <2>3. ASSUME NEW x \in DOMAIN queue', NEW y \in DOMAIN queue', x < y
        PROVE  Before(more, queue'[x], queue'[y])
    <3>1. x + 1 < y + 1
      BY <2>1, <2>3
    <3>2. Before(reps, queue'[x], queue'[y])
      BY Zenon, <1>10, <2>1, <3>1 DEF InOrder
    <3> QED
      BY Zenon, <1>11, <2>2, <3>2 DEF Before
  <2>4. ASSUME NEW x \in DOMAIN queue' PROVE Before(more, queue'[x], c)
    BY Zenon, <1>11, <2>2 DEF Before
  <2> QED
    BY Zenon, <1>1, <2>3, <2>4 DEF InOrder
<1>18. Rounds(Times)'
  <2> QED
    BY Zenon, <1>11, <1>15, <1>16, <1>17 DEF Rounds
<1> QED
  BY Zenon, <1>9, <1>16, <1>18

(* A tick of a turn: with the last one of its stay the node is finished, and what its
   client counts has been played. *)
LEMMA RoundTurnTick ==
  ASSUME IInv, Together, RoundRobin, SameTimes, TurnTick
  PROVE  RoundRobin'
<1> USE DEF IInv, RoundRobin
<1>0. PICK c : c = current_node
  BY Zenon
<1>1. /\ pc = "turn" /\ pc' = "arrive" /\ qt > 0 /\ qt' = qt - 1
      /\ current_time' = current_time + 1
      /\ IF sgx_table'[c].time_left = 0
         THEN finish' = [finish EXCEPT ![c] = current_time']
         ELSE finish' = finish
      /\ UNCHANGED <<queue, tier_quantum_time, i, current_node>>
  BY Zenon, <1>0 DEF TurnTick, history, tiers
<1>2. Times' = Times /\ Opening' = Opening
  BY Zenon DEF SameTimes
<1>3. /\ c \in Node /\ c # NoNode
      /\ \A n \in Node : sgx_table'[n].time_left = IF n = c THEN sgx_table[n].time_left - 1
                                                           ELSE sgx_table[n].time_left
  BY Zenon, <1>0, <1>1, TurnTickTable DEF Turn
<1>4. /\ qt \in Nat /\ current_time \in Nat /\ Opening \in Nat /\ Times \in [Node -> Stay]
      /\ \A n \in Node : sgx_table[n].time_left \in Nat
  BY Zenon, Facts, TimesType, NodeType
<1>5. Begun /\ Joined(c)
  BY Zenon, <1>0, <1>3 DEF NoTurn, Queued
<1>6. Begun'
  <2>1. Opening < current_time + 1
    BY <1>4, <1>5 DEF Begun
  <2> QED
    BY Zenon, <1>1, <1>2, <2>1 DEF Begun
<1>7. Divided(Times)' /\ Summed(Times)'
  <2>1. pc' # "sum"
    BY <1>1
  <2> QED
    BY Zenon, <1>1, <1>3, <1>5, <2>1, DividedKept DEF Summed
<1>8. PICK reps \in [Node -> Nat] : HadTurns(Times, reps) /\ InOrder(reps) /\ Clock(Times, reps)
  BY Zenon DEF Rounds
<1>9. /\ reps[c] \in Nat /\ Rest(Times, c, reps[c]) \in Nat
      /\ sgx_table[c].time_left = Rest(Times, c, reps[c]) + qt
      /\ sgx_table'[c].time_left = Rest(Times, c, reps[c]) + qt'
  <2>1. reps[c] \in Nat
    BY <1>3
  <2>2. Rest(Times, c, reps[c]) \in Nat
    BY Zenon, <1>3, <1>4, <2>1, RestAfter
  <2>3. sgx_table[c].time_left = Rest(Times, c, reps[c]) + qt
    BY Zenon, <1>0, <1>3, <1>8 DEF HadTurns
  <2>4. sgx_table'[c].time_left = (Rest(Times, c, reps[c]) + qt) - 1
    BY Zenon, <1>3, <2>3
  <2>5. \A a, b \in Nat : (a + b) - 1 = a + (b - 1)
    OBVIOUS
  <2> QED
    BY Zenon, <1>1, <1>4, <2>1, <2>2, <2>3, <2>4, <2>5
<1>10. HadTurns(Times, reps)'
  <2> SUFFICES ASSUME NEW n \in Node
               PROVE  sgx_table'[n].time_left =
                        Rest(Times, n, reps[n]) + (IF n = c THEN qt' ELSE 0)
    BY Zenon, <1>0, <1>1, <1>2 DEF HadTurns
  <2>1. CASE n = c
    BY Zenon, <1>9, <2>1
  <2>2. CASE n # c
    BY Zenon, <1>0, <1>3, <1>8, <2>2 DEF HadTurns
  <2> QED
    BY Zenon, <2>1, <2>2
<1> DEFINE sum == SumFunctionOnSet(Turns(Times), Played(reps))
<1>11. current_time' + qt' = Opening + sum
  <2>1. current_time + qt = Opening + sum
    BY Zenon, <1>5, <1>8 DEF Clock
  <2>2. \A a, b \in Nat : (a + 1) + (b - 1) = a + b
    OBVIOUS
  <2> QED
    BY Zenon, <1>1, <1>4, <2>1, <2>2
<1>12. Clock(Times, reps)' /\ NoTurn' /\ InOrder(reps)'
  BY Zenon, <1>0, <1>1, <1>2, <1>3, <1>6, <1>8, <1>11 DEF Clock, NoTurn, InOrder
<1>13. NotLate(Times)'
  <2> SUFFICES ASSUME NEW n \in Node, sgx_table'[n].time_left = 0
               PROVE  Lead(Times, n) <= finish'[n] - Opening
    BY Zenon, <1>2 DEF NotLate, Finished
  <2>1. CASE n # c
    <3>1. n \in Finished
      BY Zenon, <1>3, <2>1 DEF Finished
    <3>2. finish'[n] = finish[n]
      <4>1. finish \in [Node -> Tick]
        BY Zenon DEF TypeOK
      <4> QED
        BY <1>1, <1>3, <2>1, <4>1
    <3> QED
      BY Zenon, <3>1, <3>2 DEF NotLate
  <2>2. CASE n = c
    <3>1. Rest(Times, c, reps[c]) = 0 /\ qt' = 0
      <4>1. \A a, b \in Nat : b > 0 /\ a + (b - 1) = 0 => a = 0 /\ b - 1 = 0
        OBVIOUS
      <4> QED
        BY Zenon, <1>1, <1>4, <1>9, <2>2, <4>1
    <3>2. finish'[c] = current_time'
      <4>1. finish \in [Node -> Tick]
        BY Zenon DEF TypeOK
      <4> QED
        BY <1>1, <1>3, <2>2, <4>1
    <3>3. ASSUME NEW m \in Node, m # c, ~Before(reps, m, c)
          PROVE  Rest(Times, m, reps[m]) = 0
      <4>1. ~InQueue(m)
        <5>1. \A x \in DOMAIN queue : Before(reps, queue[x], c)
          BY Zenon, <1>0, <1>3, <1>8 DEF InOrder
        <5> QED
          BY Zenon, <3>3, <5>1 DEF InQueue, In
      <4>2. Joined(m)
        BY Zenon, <1>5, JoinedOpening
      <4>3. ~(sgx_table[m].time_left > 0)
        BY Zenon, <1>0, <3>3, <4>1, <4>2 DEF Queued
      <4>4. sgx_table[m].time_left = Rest(Times, m, reps[m]) + 0
        BY Zenon, <1>0, <1>8, <3>3 DEF HadTurns
      <4>5. reps[m] \in Nat
        OBVIOUS
      <4>6. Rest(Times, m, reps[m]) \in Nat
        BY Zenon, <1>4, <4>5, RestAfter
      <4>7. \A a \in Nat : ~(a + 0 > 0) => a = 0
        OBVIOUS
      <4> QED
        BY Zenon, <4>3, <4>4, <4>6, <4>7
    <3>4. Lead(Times, c) <= sum
      BY Zenon, <1>3, <1>4, <3>1, <3>3, LeadPlayed
    <3>5. sum = current_time' - Opening
      <4>1. sum \in Int
        <5>1. Played(reps) \in SUBSET Pairs
          BY Zenon DEF Played
        <5>2. IsFiniteSet(Played(reps))
          BY Zenon, <5>1, PairsFinite, FS_Subset
        <5>3. \A x \in Played(reps) : Turns(Times)[x] \in Int
          BY Zenon, <1>4, <5>1, TurnsType
        <5> QED
          BY Zenon, <5>2, <5>3, SumType
      <4> HIDE DEF sum
      <4> QED
        BY <1>1, <1>4, <1>11, <3>1, <4>1
    <3> HIDE DEF sum
    <3> QED
      BY Zenon, <2>2, <3>2, <3>4, <3>5
  <2> QED
    BY Zenon, <2>1, <2>2
<1> QED
  BY Zenon, <1>7, <1>10, <1>12, <1>13 DEF Rounds

(* RoundRobin is kept by every step if all arrive together. *)
LEMMA RoundNext == IInv /\ RInv /\ [Next]_vars => RInv'
<1> SUFFICES ASSUME IInv, RInv, [Next]_vars, Together' PROVE RoundRobin'
  BY Zenon DEF RInv
<1>1. CASE Next
  <2>1. nodes_rejoin' = nodes_rejoin
    BY Zenon, <1>1 DEF Next, Arrive, ArriveReturn, Sum, DivideAndPush, TurnEnd, waiting_time,
       Leave, Idle, Pop, TurnTick
  <2>2. SameTimes
    BY Zenon, <1>1, <2>1, StepTimes DEF Together
  <2>3. Together /\ RoundRobin
    BY Zenon, <2>2, TogetherBefore DEF RInv
  <2> QED
    BY Zenon, <1>1, <2>2, <2>3, RoundArrive, RoundArriveReturn, RoundSum, RoundDivideAndPush,
       RoundLeave, RoundIdle, RoundPop, RoundTurnTick, RoundTurnEnd DEF Next
<1>2. CASE UNCHANGED vars
  <2>1. UNCHANGED <<sgx_table, queue, current_time, nodes_rejoin, sumT, tier_active_nodes,
                    tier_quantum_time, pc, i, k, current_node, qt, finish>>
    BY Zenon, <1>2 DEF vars, tiers, turn, history
  <2>2. SameTimes
    BY Zenon, <2>1 DEF SameTimes, Times, Opening
  <2>3. Together /\ RoundRobin
    BY Zenon, <2>2, TogetherBefore DEF RInv
  <2>4. /\ \A n \in Node : Joined(n)' => Joined(n)
        /\ Begun' <=> Begun
    BY Zenon, <2>1 DEF Joined, Begun, Arriving, Opening
  <2>5. Rounds(Times)' /\ NoTurn'
    BY Zenon, <2>1, <2>2, <2>3, <2>4, RoundsKept DEF RoundRobin
  <2>6. NotLate(Times)' /\ Divided(Times)'
    BY Zenon, <2>1, <2>2, <2>3, <2>4, NotLateKept, DividedKept DEF RoundRobin
  <2>7. Summed(Times)'
    BY Zenon, <2>1, <2>2, <2>3 DEF RoundRobin, Summed, SameTimes
  <2> QED
    BY Zenon, <2>5, <2>6, <2>7 DEF RoundRobin
<1> QED
  BY Zenon, <1>1, <1>2

LEMMA RoundInit == Init => RInv
<1> SUFFICES ASSUME Init, Together PROVE RoundRobin
  BY Zenon DEF RInv
<1>0. TypeOK
  BY Zenon, InitIInv DEF IInv
<1>1. /\ pc = "arrive" /\ current_time = 0 /\ i = 0 /\ queue = <<>> /\ current_node = NoNode
      /\ qt = 0
      /\ \A n \in Node : sgx_table[n].time_left = sgx_table[n].sgx_time
  BY Zenon DEF Init
<1>2. Opening \in Nat /\ Times \in [Node -> Stay]
  BY Zenon, <1>0, TimesType
<1>3. Arriving /\ ~(Opening < current_time) /\ pc # "sum"
  BY <1>1, <1>2 DEF Arriving
<1>4. ~Begun
  BY Zenon, <1>3 DEF Begun
<1>5. \A n \in Node : ~Joined(n)
  <2>1. \A n \in Node : ~(n < i)
    BY <1>0, <1>1, Facts
  <2> QED
    BY Zenon, <1>0, <1>3, <2>1, JoinedOpening
<1>6. \A n \in Node : n # current_node /\ n \notin Finished
  BY Zenon, <1>0, <1>1, Facts, NodeType
<1>7. PICK reps : reps = [n \in Node |-> 0]
  BY Zenon
<1>8. reps \in [Node -> Nat] /\ \A n \in Node : reps[n] = 0
  BY <1>7
<1>9. HadTurns(Times, reps)
  <2> SUFFICES ASSUME NEW n \in Node
               PROVE  sgx_table[n].time_left = Rest(Times, n, reps[n]) + 0
    BY Zenon, <1>6 DEF HadTurns
  <2>1. sgx_table[n].time_left = Times[n]
    BY Zenon, <1>1 DEF Times
  <2>2. 0 \in Nat /\ \A a \in Nat : a = a + 0
    OBVIOUS
  <2>3. Rest(Times, n, 0) = Times[n] /\ Times[n] \in Nat
    BY Zenon, <1>2, <2>2, RestAfter, StaysAreNumbers
  <2> QED
    BY Zenon, <1>8, <2>1, <2>2, <2>3
<1>10. InOrder(reps)
  <2>1. DOMAIN queue = {}
    BY <1>1
  <2> QED
    BY Zenon, <2>1 DEF InOrder
<1>11. Clock(Times, reps)
  BY Zenon, <1>4, <1>8 DEF Clock
<1>12. NoTurn /\ Summed(Times)
  BY Zenon, <1>1, <1>3 DEF NoTurn, Summed
<1>13. Divided(Times) /\ NotLate(Times)
  BY Zenon, <1>5, <1>6 DEF Divided, NotLate, Finished
<1> QED
  BY Zenon, <1>8, <1>9, <1>10, <1>11, <1>12, <1>13 DEF RoundRobin, Rounds

-----------------------------------------------------------------------------
(* What the client computes, in the terms of the round robin *)

LEMMA ClientSum ==
  ASSUME NEW f, NEW S
  PROVE  Client!SumFunctionOnSet(f, S) = SumFunctionOnSet(f, S)
BY Zenon DEF Client!SumFunctionOnSet, SumFunctionOnSet, FoldFunctionOnSet, MapThenFoldSet,
   Client!FoldFunctionOnSet, Client!MapThenFoldSet

LEMMA ClientCardinality ==
  ASSUME NEW S
  PROVE  Client!Cardinality(S) = Cardinality(S)
BY Zenon DEF Client!Cardinality, Cardinality

LEMMA ClientTable ==
  ASSUME NEW n \in Node
  PROVE  /\ Fresh[n].arrival_time = sgx_table[n].arrival_time
         /\ Fresh[n].sgx_time = Times[n] /\ Fresh[n].time_left = Times[n]
<1>1. n \in Node
  BY Zenon DEF Node
<1> QED
  BY <1>1 DEF Fresh, Times

(* calc_quantum_times gives the quanta of the simulator, *)
LEMMA ClientQuantum ==
  ASSUME TypeOK, Together, NEW n \in Node
  PROVE  Client!QuantumOf(n) = QuantumOf(Times, n)
<1> DEFINE peers == {m \in Node : Client!Counts(m, n)}
           time == [m \in Node |-> Fresh[m].time_left]
           S == Members(Times, TierOf(Times, n))
           c == Cardinality(peers) + 1
<1>1. Times \in [Node -> Stay]
  BY Zenon, TimesType
<1>2. time = Times
  <2>1. \A m \in Node : Fresh[m].time_left = sgx_table[m].sgx_time
    BY Zenon, ClientTable DEF Times
  <2> QED
    BY Zenon, <2>1 DEF Times
<1>3. \A m \in Node : Client!Counts(m, n) <=> m # n /\ TierOf(Times, m) = TierOf(Times, n)
  <2> TAKE m \in Node
  <2>1. /\ Client!calc_tier_number(Fresh[m]) = TierOf(Times, m)
        /\ Client!calc_tier_number(Fresh[n]) = TierOf(Times, n)
    BY Zenon, ClientTable DEF Client!calc_tier_number, TierOf, Client!CeilDiv, CeilDiv
  <2>2. Fresh[m].arrival_time <= Fresh[n].arrival_time
    <3>1. Fresh[m].arrival_time = Opening /\ Fresh[n].arrival_time = Opening
      BY Zenon, ClientTable DEF Together
    <3>2. Opening \in Nat
      BY Zenon, TimesType
    <3> QED
      BY <3>1, <3>2
  <2> QED
    BY Zenon, <2>1, <2>2 DEF Client!Counts
<1>4. peers = S \ {n} /\ n \in S /\ S = (S \ {n}) \cup {n} /\ IsFiniteSet(S) /\ S \in SUBSET Node
  <2>1. peers = S \ {n} /\ S \in SUBSET Node
    BY Zenon, <1>3 DEF Members
  <2>2. n \in S /\ IsFiniteSet(S)
    BY Zenon, <1>1, MembersSum
  <2> HIDE DEF peers, S
  <2> QED
    BY Zenon, <2>1, <2>2
<1>5. Client!QuantumOf(n) =
        CeilDiv(Fresh[n].sgx_time + SumFunctionOnSet(time, peers), c * c)
  BY Zenon, ClientSum, ClientCardinality DEF Client!QuantumOf, Client!CeilDiv, CeilDiv, Client!Node,
     Node
<1> HIDE DEF time, peers, S
<1>6. IsFiniteSet(peers) /\ Cardinality(S) = c
  <2>1. IsFiniteSet(peers) /\ Cardinality(peers) = Cardinality(S) - 1
    BY Zenon, <1>4, FS_RemoveElement
  <2>2. Cardinality(S) \in Nat
    BY Zenon, <1>4, FS_CardinalityType
  <2> QED
    BY <2>1, <2>2
<1>7. /\ n \notin peers /\ S = peers \cup {n}
      /\ \A x \in peers \cup {n} : Times[x] \in Int
  <2>1. \A x \in Node : Times[x] \in Nat
    BY Zenon, <1>1, StaysAreNumbers
  <2>2. \A a \in Nat : a \in Int
    OBVIOUS
  <2> QED
    BY Zenon, <1>4, <2>1, <2>2
<1>8. SumFunctionOnSet(Times, S) = SumFunctionOnSet(Times, peers) + Times[n]
  BY Zenon, <1>6, <1>7, SumAdd
<1>9. Times[n] + SumFunctionOnSet(Times, peers) = SumFunctionOnSet(Times, S)
  <2>1. SumFunctionOnSet(Times, peers) \in Int /\ Times[n] \in Int
    BY Zenon, <1>6, <1>7, SumType
  <2> QED
    BY <1>8, <2>1
<1>10. Fresh[n].sgx_time = Times[n]
  BY Zenon, ClientTable
<1> HIDE DEF c
<1> QED
  BY Zenon, <1>2, <1>5, <1>6, <1>9, <1>10 DEF QuantumOf, S

(* and the leadership time adds up the slices of Lead. *)
LEMMA ClientLead ==
  ASSUME TypeOK, Together, NEW n \in Node
  PROVE  Client!LeadershipOf(n + 1) = Lead(Times, n)
<1> DEFINE line == [x \in 1..N |-> x - 1]
           left(r) == Client!Most(Fresh[n].time_left - r * Client!QuantumOf(n), 0)
           stay(m, r) ==
             Client!Least(Client!QuantumOf(m),
                               Client!Most(Fresh[m].sgx_time
                                                  - r * Client!QuantumOf(m), 0))
           slice == [x \in Pairs |-> Least(stay(line[x[1]], x[2]),
                                           left(IF x[1] <= n + 1 THEN x[2] ELSE x[2] + 1))]
<1>1. Len(line) = N
  BY SizeAssumption
<1>2. /\ n + 1 \in 1..N /\ line[n + 1] = n
      /\ \A x \in Pairs : line[x[1]] = x[1] - 1 /\ x[1] - 1 \in Node
  BY Zenon, PairsFinite
<1>3. \A r : left(r) = Rest(Times, n, r)
  BY Zenon, ClientTable, ClientQuantum DEF Rest, Client!Most, Most
<1>4. \A m \in Node : \A r : stay(m, r) = TurnOf(Times, m, r)
  BY Zenon, ClientTable, ClientQuantum DEF Rest, TurnOf, Client!Most, Most,
     Client!Least, Least
<1>5. slice = Slices(Times, n)
  <2> HIDE DEF left, stay, line
  <2> QED
    BY Zenon, <1>2, <1>3, <1>4 DEF Slices
<1>6. Client!LeadershipOf(n + 1) =
        Client!Most(Client!SumFunction(slice) - 0, 0)
  BY Zenon, <1>1, <1>2 DEF Client!LeadershipOf, Pairs, Client!Least, Least
<1>7. DOMAIN slice = Pairs
  BY Zenon
<1> HIDE DEF slice
<1>8. Client!SumFunction(slice) = SumFunctionOnSet(slice, Pairs)
  BY Zenon, <1>7, ClientSum DEF Client!SumFunction
<1>9. Client!LeadershipOf(n + 1) = Most(Lead(Times, n) - 0, 0)
  BY Zenon, <1>5, <1>6, <1>8 DEF Lead, Client!Most, Most
<1>10. Lead(Times, n) \in Nat
  BY Zenon, TimesType, LeadType
<1>11. \A a \in Nat : Most(a - 0, 0) = a
  BY DEF Most
<1> QED
  BY Zenon, <1>9, <1>10, <1>11

(* If all arrive together, the leadership time a client computes beforehand from
   the fresh table (calc_leadership_time) is never later than the end of its stay
   in the simulator, for any number of nodes and tiers and any stays: whatever the
   client counts has been played when its stay is over. *)
THEOREM ClientsNotLate == Spec => []ClientNotLate
<1>1. Spec => [](IInv /\ LogInv /\ RInv)
  BY Invariance, LogInit, LogNext, RoundInit, RoundNext, PTL DEF Spec
<1>2. IInv /\ LogInv /\ RInv => ClientNotLate
  <2> SUFFICES ASSUME IInv, LogInv, RInv, pc = "done", ~interrupted, ~nodes_rejoin,
                      \A m, n \in Node : sgx_table[m].arrival_time = sgx_table[n].arrival_time,
                      NEW n \in Node
               PROVE  Client!LeadershipOf(n + 1) <= finish[n] - sgx_table[n].arrival_time
    BY Zenon DEF ClientNotLate, Node
  <2>1. TypeOK
    BY Zenon DEF IInv
  <2>2. Together
    BY Zenon, <2>1, TimesType DEF Together, Opening
  <2>3. n \in Finished
    BY Zenon DEF LogInv
  <2>4. Lead(Times, n) <= finish[n] - sgx_table[n].arrival_time
    BY Zenon, <2>2, <2>3 DEF RInv, RoundRobin, NotLate, Together
  <2> QED
    BY Zenon, <2>1, <2>2, <2>4, ClientLead
<1> QED
  BY <1>1, <1>2, PTL
=============================================================================
