------------------------ MODULE LeadershipTimeProofs ------------------------
(***************************************************************************)
(* Proofs about LeadershipTime, for every number of nodes and tiers, every *)
(* table whose nodes have no more time left than their stay, and every     *)
(* queue over it, repetitions included.                                    *)
(***************************************************************************)
EXTENDS LeadershipTime, FiniteSetTheorems, TLAPS

-----------------------------------------------------------------------------
(***************************************************************************)
(* Sums.  SumFunctionOnSet of the Functions module chooses a recursive     *)
(* function; it exists and is unique by induction over the cardinality.    *)
(***************************************************************************)

(* What holds of 0, and of n + 1 if of n, holds of every number. *)
LEMMA NatSetInduction ==
  ASSUME NEW S, 0 \in S, \A n \in Nat : n \in S => n + 1 \in S
  PROVE  \A n \in Nat : n \in S
<1> DEFINE T == {n \in Nat : n \notin S}
           R == OpToRel(<, Nat)
<1> SUFFICES ASSUME T # {} PROVE FALSE
  OBVIOUS
<1>1. PICK x \in T : \A y \in T : ~(<<y, x>> \in R)
  <2>1. IsWellFoundedOn(R, Nat)
    BY Zenon, NatLessThanWellFounded
  <2>2. T \subseteq Nat
    OBVIOUS
  <2> HIDE DEF T, R
  <2> QED
    BY Zenon, <2>1, <2>2, WFMin
<1>2. x \in Nat /\ x # 0 /\ x - 1 \in Nat
  OBVIOUS
<1>3. x - 1 \in S
  <2> SUFFICES ASSUME x - 1 \notin S PROVE FALSE
    OBVIOUS
  <2>1. x - 1 \in T
    BY <1>2
  <2>2. <<x - 1, x>> \in R
    BY <1>2 DEF OpToRel
  <2> QED
    BY Zenon, <1>1, <2>1, <2>2
<1>4. x - 1 + 1 \in S
  BY <1>2, <1>3
<1> QED
  BY <1>2, <1>4


Any(s) == CHOOSE x \in s : TRUE
Less(s) == s \ {Any(s)}

(* How SumFunctionOnSet adds up: it takes away any element of what is left. *)
AddsUp(it, f, D) ==
  \A s \in D : it[s] = IF s = {} THEN 0 ELSE f[Any(s)] + it[Less(s)]

LEMMA LessSmaller ==
  ASSUME NEW s, IsFiniteSet(s), s # {}
  PROVE  /\ Any(s) \in s /\ Less(s) \subseteq s /\ IsFiniteSet(Less(s))
         /\ Cardinality(s) \in Nat /\ Cardinality(s) > 0
         /\ Cardinality(Less(s)) = Cardinality(s) - 1
         /\ Less(s) \cup {Any(s)} = s /\ Any(s) \notin Less(s)
<1>1. Any(s) \in s
  BY Zenon DEF Any
<1> HIDE DEF Any
<1>2. IsFiniteSet(Less(s)) /\ Cardinality(Less(s)) = Cardinality(s) - 1
  BY Zenon, <1>1, FS_RemoveElement DEF Less
<1>3. Cardinality(s) \in Nat /\ Cardinality(Less(s)) \in Nat
  BY Zenon, <1>2, FS_CardinalityType
<1>4. Cardinality(s) > 0
  BY <1>2, <1>3
<1>5. Less(s) \subseteq s /\ Less(s) \cup {Any(s)} = s /\ Any(s) \notin Less(s)
  BY Zenon, <1>1 DEF Less
<1> QED
  BY Zenon, <1>1, <1>2, <1>3, <1>4, <1>5

Within(S, n) == {s \in SUBSET S : Cardinality(s) <= n}
Numbers(S) == [S -> Int]

(* There is such a way to add up, *)
LEMMA AddsUpExists ==
  ASSUME NEW S, IsFiniteSet(S), NEW f, \A x \in S : f[x] \in Int
  PROVE  \E it \in Numbers(SUBSET S) : AddsUp(it, f, SUBSET S)
<1> DEFINE H == {n \in Nat : \E g \in Numbers(Within(S, n)) : AddsUp(g, f, Within(S, n))}
<1>0. \A s \in SUBSET S : IsFiniteSet(s) /\ Cardinality(s) \in Nat
  BY Zenon, FS_Subset, FS_CardinalityType
<1>1. 0 \in H
  <2>1. \A s \in Within(S, 0) : s = {}
    <3> TAKE s \in Within(S, 0)
    <3>1. s \in SUBSET S /\ Cardinality(s) <= 0
      BY Zenon DEF Within
    <3>2. Cardinality(s) = 0
      BY <1>0, <3>1
    <3> QED
      BY Zenon, <1>0, <3>1, <3>2, FS_EmptySet
  <2>2. PICK g : g = [s \in Within(S, 0) |-> 0]
    BY Zenon
  <2>3. g \in Numbers(Within(S, 0))
    BY <2>2 DEF Numbers
  <2>4. AddsUp(g, f, Within(S, 0))
    BY Zenon, <2>1, <2>2 DEF AddsUp
  <2> QED
    BY Zenon, <2>3, <2>4
<1>2. \A n \in Nat : n \in H => n + 1 \in H
  <2> SUFFICES ASSUME NEW n \in Nat, n \in H PROVE n + 1 \in H
    OBVIOUS
  <2>1. PICK g \in Numbers(Within(S, n)) : AddsUp(g, f, Within(S, n))
    BY Zenon
  <2>2. PICK h : h = [s \in Within(S, n + 1) |-> IF s = {} THEN 0 ELSE f[Any(s)] + g[Less(s)]]
    BY Zenon
  <2>3. ASSUME NEW s \in Within(S, n + 1), s # {}
        PROVE  Any(s) \in S /\ Less(s) \in Within(S, n) /\ Less(s) \in Within(S, n + 1)
    <3>1. s \in SUBSET S /\ Cardinality(s) <= n + 1
      BY Zenon DEF Within
    <3>2. /\ Any(s) \in s /\ Less(s) \subseteq s /\ Cardinality(Less(s)) = Cardinality(s) - 1
          /\ Cardinality(s) \in Nat
      BY Zenon, <1>0, <2>3, <3>1, LessSmaller
    <3>3. Cardinality(Less(s)) <= n /\ Cardinality(Less(s)) <= n + 1
      BY <3>1, <3>2
    <3> QED
      BY Zenon, <3>1, <3>2, <3>3 DEF Within
  <2>4. h \in Numbers(Within(S, n + 1))
    <3>1. ASSUME NEW s \in Within(S, n + 1)
          PROVE  (IF s = {} THEN 0 ELSE f[Any(s)] + g[Less(s)]) \in Int
      <4>1. CASE s # {}
        <5>1. f[Any(s)] \in Int /\ g[Less(s)] \in Int
          BY <2>3, <4>1 DEF Numbers
        <5> QED
          BY <4>1, <5>1
      <4> QED
        BY <4>1
    <3> QED
      BY <2>2, <3>1 DEF Numbers
  <2>5. AddsUp(h, f, Within(S, n + 1))
    <3> SUFFICES ASSUME NEW s \in Within(S, n + 1), s # {}
                 PROVE  h[Less(s)] = g[Less(s)]
      BY Zenon, <2>2 DEF AddsUp
    <3>1. Less(s) \in Within(S, n) /\ Less(s) \in Within(S, n + 1)
      BY Zenon, <2>3
    <3>2. g[Less(s)] = IF Less(s) = {} THEN 0 ELSE f[Any(Less(s))] + g[Less(Less(s))]
      BY Zenon, <2>1, <3>1 DEF AddsUp
    <3> QED
      BY Zenon, <2>2, <3>1, <3>2
  <2>6. n + 1 \in Nat
    OBVIOUS
  <2> QED
    BY Zenon, <2>4, <2>5, <2>6
<1>3. \A n \in Nat : n \in H
  <2> HIDE DEF H
  <2> QED
    BY Zenon, <1>1, <1>2, NatSetInduction
<1>4. Cardinality(S) \in Nat
  BY Zenon, FS_CardinalityType
<1>5. Within(S, Cardinality(S)) = SUBSET S
  <2>1. \A s \in SUBSET S : Cardinality(s) <= Cardinality(S)
    BY FS_Subset
  <2> QED
    BY Zenon, <2>1 DEF Within
<1> QED
  BY Zenon, <1>3, <1>4, <1>5

(* and only one. *)
LEMMA AddsUpUnique ==
  ASSUME NEW S, IsFiniteSet(S), NEW T \in SUBSET S, NEW f, NEW it1, NEW it2,
         AddsUp(it1, f, SUBSET S), AddsUp(it2, f, SUBSET T)
  PROVE  it1[T] = it2[T]
<1> DEFINE H == {n \in Nat : \A s \in SUBSET T : Cardinality(s) <= n => it1[s] = it2[s]}
<1>0. /\ \A s \in SUBSET T : s \in SUBSET S /\ IsFiniteSet(s) /\ Cardinality(s) \in Nat
      /\ T \in SUBSET T
  BY Zenon, FS_Subset, FS_CardinalityType
<1>1. 0 \in H
  <2> SUFFICES ASSUME NEW s \in SUBSET T, Cardinality(s) <= 0 PROVE it1[s] = it2[s]
    OBVIOUS
  <2>1. Cardinality(s) = 0
    BY <1>0
  <2>2. s = {}
    BY Zenon, <1>0, <2>1, FS_EmptySet
  <2> QED
    BY Zenon, <1>0, <2>2 DEF AddsUp
<1>2. \A n \in Nat : n \in H => n + 1 \in H
  <2> SUFFICES ASSUME NEW n \in Nat, n \in H, NEW s \in SUBSET T, Cardinality(s) <= n + 1
               PROVE  it1[s] = it2[s]
    OBVIOUS
  <2>1. CASE s = {}
    BY Zenon, <1>0, <2>1 DEF AddsUp
  <2>2. CASE s # {}
    <3>1. /\ Less(s) \subseteq s /\ Cardinality(Less(s)) = Cardinality(s) - 1
          /\ Cardinality(s) \in Nat
      BY Zenon, <1>0, <2>2, LessSmaller
    <3>2. Less(s) \in SUBSET T /\ Cardinality(Less(s)) <= n
      BY <3>1
    <3>3. it1[Less(s)] = it2[Less(s)]
      BY Zenon, <3>2
    <3> QED
      BY Zenon, <1>0, <2>2, <3>3 DEF AddsUp
  <2> QED
    BY <2>1, <2>2
<1>3. \A n \in Nat : n \in H
  <2> HIDE DEF H
  <2> QED
    BY Zenon, <1>1, <1>2, NatSetInduction
<1>4. Cardinality(T) <= Cardinality(T)
  BY <1>0
<1> QED
  BY Zenon, <1>0, <1>3, <1>4

LEMMA SumAddsUp ==
  ASSUME NEW S, IsFiniteSet(S), NEW f, \A x \in S : f[x] \in Int
  PROVE  \E it \in Numbers(SUBSET S) :
           AddsUp(it, f, SUBSET S) /\ SumFunctionOnSet(f, S) = it[S]
<1> DEFINE F(it) == [s \in SUBSET S |-> IF s = {} THEN 0 ELSE f[Any(s)] + it[Less(s)]]
           C == CHOOSE it : it = F(it)
<1>1. PICK g \in Numbers(SUBSET S) : AddsUp(g, f, SUBSET S)
  BY Zenon, AddsUpExists
<1>2. g = F(g)
  <2>1. g = [s \in SUBSET S |-> g[s]]
    BY Zenon, <1>1 DEF Numbers
  <2> QED
    BY Zenon, <1>1, <2>1 DEF AddsUp
<1>3. C = F(C)
  BY Zenon, <1>2
<1>4. AddsUp(C, f, SUBSET S)
  <2> HIDE DEF C
  <2>1. \A s \in SUBSET S : C[s] = F(C)[s]
    BY Zenon, <1>3
  <2> QED
    BY Zenon, <2>1 DEF AddsUp
<1>5. SumFunctionOnSet(f, S) = C[S]
  BY Zenon DEF SumFunctionOnSet, FoldFunctionOnSet, MapThenFoldSet, Any, Less
<1> HIDE DEF C
<1>6. C[S] = g[S]
  <2>1. S \in SUBSET S
    OBVIOUS
  <2> QED
    BY SMT, <1>1, <1>4, <2>1, AddsUpUnique
<1> QED
  BY Zenon, <1>1, <1>5, <1>6

(* The sum over nothing, and over one element more. *)
LEMMA SumType ==
  ASSUME NEW S, IsFiniteSet(S), NEW f, \A x \in S : f[x] \in Int
  PROVE  SumFunctionOnSet(f, S) \in Int
<1>1. PICK it \in Numbers(SUBSET S) : SumFunctionOnSet(f, S) = it[S]
  BY Zenon, SumAddsUp
<1> QED
  BY <1>1 DEF Numbers

LEMMA SumEmpty ==
  ASSUME NEW f
  PROVE  SumFunctionOnSet(f, {}) = 0
<1>1. IsFiniteSet({}) /\ \A x \in {} : f[x] \in Int
  BY FS_EmptySet
<1>2. PICK it \in Numbers(SUBSET {}) :
        AddsUp(it, f, SUBSET {}) /\ SumFunctionOnSet(f, {}) = it[{}]
  BY Zenon, <1>1, SumAddsUp
<1>3. {} \in SUBSET {}
  OBVIOUS
<1> QED
  BY Zenon, <1>2, <1>3 DEF AddsUp

LEMMA SumLess ==
  ASSUME NEW S, IsFiniteSet(S), S # {}, NEW f, \A x \in S : f[x] \in Int
  PROVE  SumFunctionOnSet(f, S) = f[Any(S)] + SumFunctionOnSet(f, Less(S))
<1>1. PICK it \in Numbers(SUBSET S) :
        AddsUp(it, f, SUBSET S) /\ SumFunctionOnSet(f, S) = it[S]
  BY Zenon, SumAddsUp
<1>2. IsFiniteSet(Less(S)) /\ Less(S) \subseteq S
  BY Zenon, LessSmaller
<1>3. \A x \in Less(S) : f[x] \in Int
  BY Zenon, <1>2
<1>4. PICK jt \in Numbers(SUBSET Less(S)) :
        AddsUp(jt, f, SUBSET Less(S)) /\ SumFunctionOnSet(f, Less(S)) = jt[Less(S)]
  BY Zenon, <1>2, <1>3, SumAddsUp
<1>5. Less(S) \in SUBSET S /\ S \in SUBSET S
  BY <1>2
<1>6. it[Less(S)] = jt[Less(S)]
  BY SMT, <1>1, <1>4, <1>5, AddsUpUnique
<1> QED
  BY Zenon, <1>1, <1>4, <1>5, <1>6 DEF AddsUp

LEMMA SumAdd ==
  ASSUME NEW S, IsFiniteSet(S), NEW y, y \notin S, NEW f,
         \A x \in S \cup {y} : f[x] \in Int
  PROVE  SumFunctionOnSet(f, S \cup {y}) = SumFunctionOnSet(f, S) + f[y]
<1> DEFINE U == S \cup {y}
           H == {n \in Nat : \A s \in SUBSET U : \A z \in U \ s :
                   Cardinality(s) <= n =>
                     SumFunctionOnSet(f, s \cup {z}) = SumFunctionOnSet(f, s) + f[z]}
<1>0. /\ \A s \in SUBSET U : IsFiniteSet(s) /\ Cardinality(s) \in Nat
      /\ S \in SUBSET U /\ y \in U \ S
  <2>1. IsFiniteSet(U)
    BY Zenon, FS_AddElement
  <2> HIDE DEF U
  <2>2. \A s \in SUBSET U : IsFiniteSet(s) /\ Cardinality(s) \in Nat
    BY Zenon, <2>1, FS_Subset, FS_CardinalityType
  <2> QED
    BY Zenon, <2>2 DEF U
<1>1. \A s \in SUBSET U : /\ \A x \in s : f[x] \in Int
                          /\ SumFunctionOnSet(f, s) \in Int
                          /\ \A z \in U : s \cup {z} \in SUBSET U
  <2> TAKE s \in SUBSET U
  <2>1. \A x \in s : f[x] \in Int
    OBVIOUS
  <2>2. SumFunctionOnSet(f, s) \in Int
    BY Zenon, <1>0, <2>1, SumType
  <2> QED
    BY <2>1, <2>2
<1>u. \A x \in U : f[x] \in Int
  OBVIOUS
<1> HIDE DEF U
<1>s. ASSUME NEW s \in SUBSET U, s # {}
      PROVE  SumFunctionOnSet(f, s) = f[Any(s)] + SumFunctionOnSet(f, Less(s))
  BY Zenon, <1>0, <1>1, <1>s, SumLess
<1>2. 0 \in H
  <2> SUFFICES ASSUME NEW s \in SUBSET U, NEW z \in U \ s, Cardinality(s) <= 0
               PROVE  SumFunctionOnSet(f, s \cup {z}) = SumFunctionOnSet(f, s) + f[z]
    OBVIOUS
  <2>1. Cardinality(s) = 0
    BY <1>0
  <2>2. s = {}
    BY Zenon, <1>0, <2>1, FS_EmptySet
  <2>3. {z} \in SUBSET U /\ {z} # {} /\ {} \in SUBSET U
    OBVIOUS
  <2>4. Any({z}) \in {z}
    BY Zenon, <2>3 DEF Any
  <2>5. Any({z}) = z
    BY Zenon, <2>4
  <2>6. Less({z}) = {}
    BY Zenon, <2>5 DEF Less
  <2>7. SumFunctionOnSet(f, {z}) = f[z] + SumFunctionOnSet(f, {})
    BY Zenon, <1>s, <2>3, <2>5, <2>6
  <2>8. s \cup {z} = {z}
    BY Zenon, <2>2
  <2>9. f[z] \in Int /\ SumFunctionOnSet(f, {}) \in Int
    BY Zenon, <1>1, <1>u, <2>3
  <2> QED
    BY <2>2, <2>7, <2>8, <2>9
<1>3. \A n \in Nat : n \in H => n + 1 \in H
  <2> SUFFICES ASSUME NEW n \in Nat, n \in H, NEW s \in SUBSET U, NEW z \in U \ s,
                      Cardinality(s) <= n + 1
               PROVE  SumFunctionOnSet(f, s \cup {z}) = SumFunctionOnSet(f, s) + f[z]
    <3>1. \A n \in Nat : n + 1 \in Nat
      OBVIOUS
    <3> QED
      BY Zenon, <3>1
  <2>0. \A r \in SUBSET U : \A x \in U \ r : Cardinality(r) <= n =>
          SumFunctionOnSet(f, r \cup {x}) = SumFunctionOnSet(f, r) + f[x]
    BY Zenon
  <2> DEFINE t == s \cup {z}
             a == Any(t)
  <2>1. t \in SUBSET U /\ t # {}
    BY Zenon, <1>1
  <2> HIDE DEF H
  <2>2. /\ a \in t /\ Less(t) = t \ {a} /\ IsFiniteSet(Less(t))
        /\ SumFunctionOnSet(f, t) = f[a] + SumFunctionOnSet(f, Less(t))
    <3> HIDE DEF t
    <3>1. IsFiniteSet(t)
      BY Zenon, <1>0, <2>1
    <3>2. a \in t /\ IsFiniteSet(Less(t))
      BY Zenon, <2>1, <3>1, LessSmaller
    <3> QED
      BY Zenon, <1>s, <2>1, <3>2 DEF Less
  <2> HIDE DEF a
  <2>3. CASE a = z
    <3>1. Less(t) = s
      BY Zenon, <2>2, <2>3
    <3>2. SumFunctionOnSet(f, s) \in Int /\ f[z] \in Int
      BY Zenon, <1>1, <1>u
    <3> QED
      BY <2>2, <2>3, <3>1, <3>2
  <2>4. CASE a # z
    <3>1. a \in s /\ a \in U
      BY Zenon, <2>1, <2>2, <2>4
    <3> DEFINE r == s \ {a}
    <3>2. /\ r \in SUBSET U /\ z \in U \ r /\ a \in U \ r
          /\ r \cup {z} = Less(t) /\ r \cup {a} = s
      BY Zenon, <2>2, <2>4, <3>1
    <3>3. Cardinality(r) <= n
      <4>1. Cardinality(r) = Cardinality(s) - 1
        BY Zenon, <1>0, <3>1, FS_RemoveElement
      <4> QED
        BY <1>0, <4>1
    <3> HIDE DEF r, t
    <3>4. /\ SumFunctionOnSet(f, Less(t)) = SumFunctionOnSet(f, r) + f[z]
          /\ SumFunctionOnSet(f, s) = SumFunctionOnSet(f, r) + f[a]
      BY Zenon, <2>0, <3>2, <3>3
    <3>5. SumFunctionOnSet(f, r) \in Int /\ f[z] \in Int /\ f[a] \in Int
      BY Zenon, <1>1, <1>u, <3>1, <3>2
    <3>6. SumFunctionOnSet(f, t) = SumFunctionOnSet(f, s) + f[z]
      BY <2>2, <3>4, <3>5
    <3> QED
      BY <3>6 DEF t
  <2> QED
    BY <2>3, <2>4
<1>4. \A n \in Nat : n \in H
  <2> HIDE DEF H
  <2> QED
    BY Zenon, <1>2, <1>3, NatSetInduction
<1>5. Cardinality(S) \in Nat /\ Cardinality(S) <= Cardinality(S)
  <2>1. Cardinality(S) \in Nat
    BY Zenon, <1>0
  <2> QED
    BY <2>1
<1> QED
  BY Zenon, <1>0, <1>4, <1>5

(* Elements that count nothing may be left out. *)
LEMMA SumSame ==
  ASSUME NEW D, IsFiniteSet(D), NEW P \in SUBSET D, NEW f,
         \A x \in D : f[x] \in Int, \A x \in D \ P : f[x] = 0
  PROVE  SumFunctionOnSet(f, D) = SumFunctionOnSet(f, P)
<1> DEFINE H == {n \in Nat : \A s \in SUBSET D : P \subseteq s /\ Cardinality(s \ P) <= n =>
                               SumFunctionOnSet(f, s) = SumFunctionOnSet(f, P)}
<1>0. \A s \in SUBSET D : IsFiniteSet(s) /\ Cardinality(s) \in Nat /\ s \ P \in SUBSET D
  BY Zenon, FS_Subset, FS_CardinalityType
<1>1. 0 \in H
  <2> SUFFICES ASSUME NEW s \in SUBSET D, P \subseteq s, Cardinality(s \ P) <= 0
               PROVE  SumFunctionOnSet(f, s) = SumFunctionOnSet(f, P)
    OBVIOUS
  <2>1. Cardinality(s \ P) = 0
    BY <1>0
  <2>2. s \ P = {}
    BY Zenon, <1>0, <2>1, FS_EmptySet
  <2>3. s = P
    BY Zenon, <2>2
  <2> QED
    BY Zenon, <2>3
<1>2. \A n \in Nat : n \in H => n + 1 \in H
  <2> SUFFICES ASSUME NEW n \in Nat, n \in H, NEW s \in SUBSET D, P \subseteq s,
                      Cardinality(s \ P) <= n + 1
               PROVE  SumFunctionOnSet(f, s) = SumFunctionOnSet(f, P)
    <3>1. \A n \in Nat : n + 1 \in Nat
      OBVIOUS
    <3> QED
      BY Zenon, <3>1
  <2>0. \A r \in SUBSET D : P \subseteq r /\ Cardinality(r \ P) <= n =>
          SumFunctionOnSet(f, r) = SumFunctionOnSet(f, P)
    BY Zenon
  <2>1. CASE s = P
    BY Zenon, <2>1
  <2>2. CASE s # P
    <3> HIDE DEF H
    <3>1. PICK z \in s : z \notin P
      BY Zenon, <2>2
    <3> DEFINE r == s \ {z}
    <3>2. /\ r \in SUBSET D /\ P \subseteq r /\ z \notin r /\ r \cup {z} = s
          /\ r \ P = (s \ P) \ {z} /\ z \in s \ P /\ z \in D
      BY Zenon, <3>1
    <3>3. Cardinality(r \ P) <= n
      <4>0. IsFiniteSet(s \ P)
        BY Zenon, <1>0
      <4>1. Cardinality((s \ P) \ {z}) = Cardinality(s \ P) - 1
        BY Zenon, <4>0, <3>2, FS_RemoveElement
      <4>2. Cardinality(s \ P) \in Nat
        BY Zenon, <1>0
      <4>3. Cardinality((s \ P) \ {z}) <= n
        BY <4>1, <4>2
      <4> QED
        BY Zenon, <3>2, <4>3
    <3> HIDE DEF r
    <3>4. SumFunctionOnSet(f, r) = SumFunctionOnSet(f, P)
      BY Zenon, <2>0, <3>2, <3>3
    <3>5. /\ IsFiniteSet(r) /\ \A x \in r : f[x] \in Int
          /\ \A x \in r \cup {z} : f[x] \in Int
      BY Zenon, <1>0, <3>2
    <3>6. SumFunctionOnSet(f, s) = SumFunctionOnSet(f, r) + f[z]
      BY Zenon, <3>2, <3>5, SumAdd
    <3>7. SumFunctionOnSet(f, r) \in Int
      BY Zenon, <3>5, SumType
    <3>8. f[z] = 0
      BY Zenon, <3>1, <3>2
    <3> QED
      BY <3>4, <3>6, <3>7, <3>8
  <2> QED
    BY <2>1, <2>2
<1>3. \A n \in Nat : n \in H
  <2> HIDE DEF H
  <2> QED
    BY Zenon, <1>1, <1>2, NatSetInduction
<1>4. Cardinality(D \ P) \in Nat /\ Cardinality(D \ P) <= Cardinality(D \ P) /\ D \in SUBSET D
  <2>1. D \in SUBSET D
    OBVIOUS
  <2>2. Cardinality(D \ P) \in Nat
    BY Zenon, <1>0, <2>1
  <2> QED
    BY <2>1, <2>2
<1>5. P \subseteq D
  OBVIOUS
<1> QED
  BY Zenon, <1>3, <1>4, <1>5

-----------------------------------------------------------------------------
USE SizeAssumption, TableAssumption, QueueAssumption, CurrentAssumption,
    DelayAssumption

-----------------------------------------------------------------------------
(* Arithmetic *)

LEMMA LeastMost ==
  ASSUME NEW a \in Int, NEW b \in Int
  PROVE  /\ Least(a, b) \in Int /\ Least(a, b) <= a /\ Least(a, b) <= b
         /\ Least(a, b) \in {a, b}
         /\ Most(a, b) \in Int /\ Most(a, b) >= a /\ Most(a, b) >= b
         /\ Most(a, b) \in {a, b}
BY DEF Least, Most

LEMMA HeadTailOf ==
  ASSUME NEW S, NEW s \in Seq(S), s # <<>>
  PROVE  /\ Head(s) \in S /\ Head(s) = s[1] /\ Tail(s) \in Seq(S)
         /\ Len(s) \in Nat /\ Len(s) >= 1 /\ Len(Tail(s)) = Len(s) - 1
         /\ \A k \in 1..(Len(s) - 1) : Tail(s)[k] = s[k + 1]
OBVIOUS

LEMMA FrontOf ==
  ASSUME NEW S, NEW s \in Seq(S), NEW n \in 0..Len(s)
  PROVE  /\ SubSeq(s, 1, n) \in Seq(S) /\ Len(SubSeq(s, 1, n)) = n
         /\ \A k \in 1..n : SubSeq(s, 1, n)[k] = s[k]
<1>1. Len(SubSeq(s, 1, n)) = n
  OBVIOUS
<1>2. SubSeq(s, 1, n) \in Seq(S)
  OBVIOUS
<1>3. ASSUME NEW k \in 1..n PROVE SubSeq(s, 1, n)[k] = s[k]
  OBVIOUS
<1> QED
  BY Zenon, <1>1, <1>2, <1>3

LEMMA BackOf ==
  ASSUME NEW S, NEW s \in Seq(S), s # <<>>
  PROVE  LET b == SubSeq(s, 1, Len(s) - 1)
         IN  /\ b \in Seq(S) /\ Len(b) = Len(s) - 1
             /\ \A k \in 1..(Len(s) - 1) : b[k] = s[k]
<1>1. Len(s) - 1 \in 0..Len(s)
  OBVIOUS
<1> QED
  BY Zenon, <1>1, FrontOf

LEMMA CeilDivPositive ==
  ASSUME NEW a \in Nat \ {0}, NEW b \in Nat \ {0}
  PROVE  CeilDiv(a, b) \in Nat \ {0}
<1> DEFINE k == (a + b - 1) \div b
<1>1. k \in Int /\ a + b - 1 = b * k + ((a + b - 1) % b)
  OBVIOUS
<1>2. (a + b - 1) % b \in 0..(b - 1)
  OBVIOUS
<1>3. k >= 1
  <2> SUFFICES ASSUME k <= 0 PROVE FALSE
    BY <1>1
  <2>1. b * k <= 0
    BY <1>1
  <2> QED
    BY <1>1, <1>2, <2>1
<1> QED
  BY <1>1, <1>3 DEF CeilDiv

-----------------------------------------------------------------------------
(* Type correctness *)

LEMMA ArgumentTypes ==
  ASSUME TypeOK
  PROVE  /\ sgx_table \in [Node -> Entry] /\ queue \in Seq(Node) /\ node_id \in Node
         /\ comm_delay \in Nat
         /\ \A n \in Node : /\ sgx_table[n].sgx_time \in Nat \ {0}
                            /\ sgx_table[n].time_left \in Nat
                            /\ sgx_table[n].time_left <= sgx_table[n].sgx_time
<1>1. sgx_table \in Table /\ queue \in Queue /\ node_id \in Current /\ comm_delay \in Delay
  BY DEF TypeOK
<1>2. sgx_table \in [Node -> Entry] /\ queue \in Seq(Node) /\ node_id \in Node
      /\ comm_delay \in Nat
  BY <1>1
<1>3. ASSUME NEW n \in Node
      PROVE  /\ sgx_table[n].sgx_time \in Nat \ {0}
             /\ sgx_table[n].time_left \in Nat
             /\ sgx_table[n].time_left <= sgx_table[n].sgx_time
  <2>1. sgx_table[n] \in Entry
    BY <1>2
  <2>2. sgx_table[n].time_left <= sgx_table[n].sgx_time
    BY <1>1
  <2> QED
    BY <2>1, <2>2 DEF Entry
<1> QED
  BY <1>2, <1>3

LEMMA RemainingType ==
  ASSUME TypeOK, NEW n \in Node, NEW r \in Nat
  PROVE  remaining_quantum_time(n, r) \in Nat
<1>1. r * quantum_times[n] \in Nat /\ quantum_times[n] \in Nat
  BY DEF TypeOK
<1>2. sgx_table[n].sgx_time \in Nat
  BY ArgumentTypes
<1> DEFINE p == r * quantum_times[n]
<1> HIDE DEF p
<1>3. Least(quantum_times[n], Most(sgx_table[n].sgx_time - p, 0)) \in Nat
  BY <1>1, <1>2 DEF Least, Most, p
<1> QED
  BY <1>3 DEF remaining_quantum_time, p

LEMMA TypeInit == Init => TypeOK
<1> SUFFICES ASSUME Init PROVE TypeOK
  OBVIOUS
<1>1. \A n \in Node : sgx_table[n].sgx_time \in Nat \ {0} /\ sgx_table[n].time_left \in Nat
  BY DEF Init, Entry
<1>2. quantum_times \in [Node -> Nat \ {0}]
  BY <1>1 DEF Init
<1>3. remaining_time \in Int
  BY <1>1 DEF Init
<1>4. 0 \in Node /\ 0 \in 0..N
  BY DEF Node
<1>5. q \in Seq(Node) /\ notification_times \in Seq(Nat)
  BY DEF Init
<1>6. repetitions \in [Node -> Nat] /\ tier_active_nodes \in [Node -> Nat \ {0}]
  BY DEF Init
<1> QED
  BY Zenon, <1>2, <1>3, <1>4, <1>5, <1>6 DEF Init, TypeOK

(* A thread that sleeps has a leadership time to sleep to. *)
Leading ==
  pc \in {"trim_back", "trim_front", "sleeping", "leader"} => leadership_time # -1

LEMMA TypeStep == TypeOK /\ Leading /\ [Next]_vars => TypeOK'
<1> SUFFICES ASSUME TypeOK, Leading, [Next]_vars PROVE TypeOK'
  OBVIOUS
<1>a. \A n \in Node : sgx_table[n].sgx_time \in Nat \ {0} /\ sgx_table[n].time_left \in Nat
  BY ArgumentTypes
<1>n. notification_times \in Seq(Nat)
  BY DEF TypeOK
<1>1. CASE Accumulate
  <2>1. i \in Nat /\ i < N /\ i \in Node /\ j \in Node
    BY <1>1 DEF Accumulate, TypeOK, Node
  <2>2. j' \in Node /\ i' \in 0..N
    <3>1. j' = (j + 1) % N /\ i' = IF j + 1 = N THEN i + 1 ELSE i
      BY <1>1 DEF Accumulate
    <3>2. j + 1 \in Nat /\ (j + 1) % N \in 0..(N - 1)
      BY <2>1 DEF Node
    <3> QED
      BY <2>1, <3>1, <3>2 DEF Node
  <2>3. quantum_times' \in [Node -> Nat \ {0}]
    <3>a. quantum_times[i] \in Nat \ {0} /\ sgx_table[j].time_left \in Nat
      BY <1>a, <2>1 DEF TypeOK
    <3>1. quantum_times[i] + sgx_table[j].time_left \in Nat \ {0}
      BY <3>a
    <3> QED
      BY Zenon, <1>1, <2>1, <3>1 DEF Accumulate, TypeOK
  <2>4. tier_active_nodes' \in [Node -> Nat \ {0}]
    <3>1. tier_active_nodes[i] + 1 \in Nat \ {0}
      BY SMTT(60), <2>1 DEF TypeOK
    <3> QED
      BY Zenon, <1>1, <2>1, <3>1 DEF Accumulate, TypeOK
  <2> QED
    BY Zenon, <1>1, <2>2, <2>3, <2>4 DEF Accumulate, TypeOK, arguments, rounds
<1>2. CASE Divide
  <2>1. \A n \in Node :
          CeilDiv(quantum_times[n], tier_active_nodes[n] * tier_active_nodes[n])
            \in Nat \ {0}
    <3> SUFFICES ASSUME NEW n \in Node
                 PROVE  CeilDiv(quantum_times[n],
                          tier_active_nodes[n] * tier_active_nodes[n]) \in Nat \ {0}
      OBVIOUS
    <3>1. quantum_times[n] \in Nat \ {0} /\ tier_active_nodes[n] \in Nat \ {0}
      BY DEF TypeOK
    <3>2. tier_active_nodes[n] * tier_active_nodes[n] \in Nat \ {0}
      BY <3>1
    <3> QED
      BY Zenon, <3>1, <3>2, CeilDivPositive
  <2> QED
    BY <1>2, <2>1 DEF Divide, TypeOK, arguments, rounds
<1>3. CASE Turn
  <2> DEFINE u == Head(q)
             slice == Least(remaining_quantum_time(u, repetitions[u]), remaining_time)
  <2>1. u \in Node /\ Tail(q) \in Seq(Node)
    BY <1>3 DEF Turn, TypeOK
  <2>2. repetitions[u] \in Nat /\ repetitions[u] + 1 \in Nat
    BY SMTT(60), <2>1 DEF TypeOK
  <2>3. slice \in Nat
    <3>1. remaining_quantum_time(u, repetitions[u]) \in Nat
      BY Zenon, <2>1, <2>2, RemainingType
    <3>2. remaining_time \in Nat
      BY <1>3 DEF Turn, TypeOK
    <3> QED
      BY <3>1, <3>2 DEF Least
  <2> HIDE DEF u, slice
  <2>4. /\ repetitions' = [repetitions EXCEPT ![u] = @ + 1]
        /\ accumulated_time' = accumulated_time + slice
        /\ found_myself' = (found_myself \/ u = node_id)
        /\ remaining_time' = IF u = node_id THEN remaining_time - slice
                                            ELSE remaining_time
        /\ q' \in {Append(Tail(q), u), Tail(q)}
    BY <1>3 DEF Turn, u, slice
  <2>5. accumulated_time' \in Nat /\ remaining_time' \in Int /\ found_myself' \in BOOLEAN
    BY <2>3, <2>4 DEF TypeOK
  <2>6. q' \in Seq(Node)
    BY <2>1, <2>4
  <2>7. repetitions' \in [Node -> Nat]
    BY <2>1, <2>2, <2>4 DEF TypeOK
  <2>8. notification_times' \in Seq(Nat)
    <3>1. Most(accumulated_time' - comm_delay, 0) \in Nat
      BY <2>5, ArgumentTypes DEF Most
    <3>2. notification_times' \in {notification_times,
            Append(notification_times, Most(accumulated_time' - comm_delay, 0))}
      BY <1>3 DEF Turn
    <3> QED
      BY <1>n, <3>1, <3>2
  <2> QED
    BY Zenon, <1>3, <2>5, <2>6, <2>7, <2>8 DEF Turn, TypeOK, arguments, quanta
<1>4. CASE Finish
  <2>1. Most(accumulated_time - comm_delay, 0) \in Nat
    BY ArgumentTypes DEF Most, TypeOK
  <2> QED
    BY SMTT(60), <1>4, <2>1 DEF Finish, TypeOK, arguments, quanta, rounds
<1>5. CASE Rejoin
  BY <1>5 DEF Rejoin, TypeOK, arguments, quanta, rounds
<1>6. CASE CheckLast
  BY <1>6 DEF CheckLast, TypeOK, arguments, quanta, rounds
<1>7. CASE TrimBack
  <2>1. notification_times' \in Seq(Nat)
    BY <1>n, <1>7, BackOf DEF TrimBack
  <2> QED
    BY <1>7, <2>1 DEF TrimBack, TypeOK, arguments, quanta, rounds
<1>8. CASE TrimFront
  <2>1. notification_times' \in Seq(Nat)
    BY SMTT(60), <1>n, <1>8, HeadTailOf DEF TrimFront
  <2>a. node_id \in Node /\ remaining_time \in Int
    BY ArgumentTypes DEF TypeOK
  <2>2. remaining_time' \in Int
    BY <1>8, <1>a, <2>a DEF TrimFront
  <2> QED
    BY <1>8, <2>1, <2>2 DEF TrimFront, TypeOK, arguments, quanta, rounds
<1>9. CASE Notify
  <2>1. Head(notification_times) \in Nat /\ Tail(notification_times) \in Seq(Nat)
    BY <1>n, <1>9, HeadTailOf DEF Notify
  <2>2. remaining_time' \in Int /\ curr_time' \in Nat /\ notification_times' \in Seq(Nat)
    BY SMTT(60), <1>9, <2>1 DEF Notify, TypeOK
  <2> QED
    BY Zenon, <1>9, <2>2 DEF Notify, TypeOK, arguments, quanta, rounds
<1>10. CASE Lead
  <2>1. leadership_time \in Nat
    BY <1>10 DEF Lead, TypeOK, Leading
  <2> QED
    BY <1>10, <2>1 DEF Lead, TypeOK, arguments, quanta, rounds
<1>11. CASE UNCHANGED vars
  BY <1>11 DEF vars, TypeOK, arguments, quanta, rounds
<1> QED
  BY <1>1, <1>2, <1>3, <1>4, <1>5, <1>6, <1>7, <1>8, <1>9, <1>10, <1>11 DEF Next

-----------------------------------------------------------------------------
(***************************************************************************)
(* The inductive invariant of the safety properties.  Own ties the time    *)
(* that remains to the node's turns, which is why a node with time left is *)
(* still in the queue (InPlay); Served and Ordered follow the clock.       *)
(***************************************************************************)

Me == sgx_table[node_id]
Occurs(s) == \E k \in DOMAIN s : s[k] = node_id

Start ==
  pc = "quanta" =>
    /\ q = queue /\ repetitions[node_id] = 0 /\ ~found_myself
    /\ remaining_time = Me.time_left

Own ==
  pc \in {"quanta", "turns"} =>
    remaining_time =
      Most(Me.time_left - repetitions[node_id] * quantum_times[node_id], 0)

InPlay ==
  pc \in {"quanta", "turns"} =>
    /\ Occurs(queue) /\ remaining_time > 0 => Occurs(q)
    /\ Occurs(q) => Occurs(queue)
    /\ found_myself => Occurs(queue) /\ Me.time_left > 0
    /\ ~found_myself => remaining_time = Me.time_left

Served ==
  pc \in {"quanta", "turns"} => accumulated_time >= Me.time_left - remaining_time

Ordered(s) == \A k, l \in 1..Len(s) : k < l => s[k] = 0 \/ s[k] < s[l]
Bounded(s, m) == \A k \in 1..Len(s) : s[k] <= m

Times ==
  /\ Ordered(notification_times)
  /\ pc \in {"quanta", "turns"} =>
       Bounded(notification_times, Most(accumulated_time - comm_delay, 0))
  /\ pc \notin {"sleeping", "leader"} => curr_time = 0
  /\ pc = "calculated" /\ leadership_time # -1 =>
       Bounded(notification_times, leadership_time)
  /\ pc = "sleeping" =>
       /\ \A k \in 1..Len(notification_times) : notification_times[k] > curr_time
       /\ remaining_time <= Me.time_left

LInv ==
  /\ TypeOK
  /\ Leading
  /\ Start
  /\ Own
  /\ InPlay
  /\ Served
  /\ Times
  /\ NoAssertFails
  /\ RejoinsIfOut
  /\ OwnTimeServed

LEMMA SafetyInit == Init => LInv
<1> SUFFICES ASSUME Init PROVE LInv
  OBVIOUS
<1>1. TypeOK
  BY TypeInit
<1>2. Me.time_left \in Nat /\ node_id \in Node
  BY <1>1, ArgumentTypes DEF Me
<1>3. /\ pc = "quanta" /\ q = queue /\ ~found_myself /\ curr_time = 0
      /\ notification_times = <<>> /\ repetitions[node_id] = 0
      /\ remaining_time = Me.time_left
  BY <1>2 DEF Init, Me
<1>4. Own
  <2>1. 0 * quantum_times[node_id] = 0
    BY <1>1, <1>2 DEF TypeOK
  <2> QED
    BY <1>2, <1>3, <2>1 DEF Own, Most
<1>5. Served
  BY <1>1, <1>2, <1>3 DEF Served, TypeOK
<1>6. Times
  BY <1>3 DEF Times, Ordered, Bounded
<1> QED
  BY <1>1, <1>3, <1>4, <1>5, <1>6
     DEF LInv, Leading, Start, InPlay, NoAssertFails, RejoinsIfOut, OwnTimeServed

(* Sequences of times *)

LEMMA OrderedAppend ==
  ASSUME NEW s \in Seq(Nat), Ordered(s), NEW m \in Int, NEW v \in Nat,
         Bounded(s, Most(m, 0)), v > m
  PROVE  Ordered(Append(s, v)) /\ Bounded(Append(s, v), v)
<1> DEFINE t == Append(s, v)
<1>1. Len(s) \in Nat /\ Len(t) = Len(s) + 1 /\ t[Len(s) + 1] = v
  OBVIOUS
<1>2. \A k \in 1..Len(s) : t[k] = s[k] /\ s[k] \in Nat
  OBVIOUS
<1> HIDE DEF t
<1>3. \A k \in 1..Len(s) : s[k] = 0 \/ s[k] < v
  BY <1>2 DEF Bounded, Most
<1>4. Ordered(t)
  <2> SUFFICES ASSUME NEW k \in 1..Len(t), NEW l \in 1..Len(t), k < l
               PROVE  t[k] = 0 \/ t[k] < t[l]
    BY DEF Ordered
  <2>1. k \in 1..Len(s)
    BY <1>1
  <2>2. CASE l \in 1..Len(s)
    BY <1>2, <2>1, <2>2 DEF Ordered
  <2>3. CASE l = Len(s) + 1
    BY <1>1, <1>2, <1>3, <2>1, <2>3
  <2> QED
    BY <1>1, <2>2, <2>3
<1>5. Bounded(t, v)
  <2> SUFFICES ASSUME NEW k \in 1..Len(t) PROVE t[k] <= v
    BY DEF Bounded
  <2>1. k \in 1..Len(s) \/ k = Len(s) + 1
    BY <1>1
  <2> QED
    BY <1>1, <1>2, <1>3, <2>1
<1> QED
  BY <1>4, <1>5 DEF t

LEMMA OrderedTail ==
  ASSUME NEW s \in Seq(Nat), s # <<>>, Ordered(s)
  PROVE  /\ Ordered(Tail(s))
         /\ Head(s) # 0 => \A k \in 1..Len(Tail(s)) : Tail(s)[k] > Head(s)
<1>1. /\ Len(s) \in Nat /\ Len(s) >= 1 /\ Len(Tail(s)) = Len(s) - 1
      /\ Head(s) = s[1] /\ \A k \in 1..(Len(s) - 1) : Tail(s)[k] = s[k + 1]
  BY HeadTailOf
<1>2. \A k \in 1..Len(s) : s[k] \in Nat
  OBVIOUS
<1>3. Ordered(Tail(s))
  <2> SUFFICES ASSUME NEW k \in 1..Len(Tail(s)), NEW l \in 1..Len(Tail(s)), k < l
               PROVE  Tail(s)[k] = 0 \/ Tail(s)[k] < Tail(s)[l]
    BY DEF Ordered
  <2>1. k + 1 \in 1..Len(s) /\ l + 1 \in 1..Len(s) /\ k + 1 < l + 1
    BY <1>1
  <2>2. s[k + 1] = 0 \/ s[k + 1] < s[l + 1]
    BY <2>1 DEF Ordered
  <2> QED
    BY <1>1, <2>2
<1>4. ASSUME Head(s) # 0, NEW k \in 1..Len(Tail(s)) PROVE Tail(s)[k] > Head(s)
  <2>1. 1 \in 1..Len(s) /\ k + 1 \in 1..Len(s) /\ 1 < k + 1
    BY <1>1
  <2>2. s[1] = 0 \/ s[1] < s[k + 1]
    BY <2>1 DEF Ordered
  <2>3. s[1] \in Nat /\ s[k + 1] \in Nat
    BY <1>2, <2>1
  <2> QED
    BY <1>1, <1>4, <2>2, <2>3
<1> QED
  BY <1>3, <1>4

LEMMA OrderedBack ==
  ASSUME NEW s \in Seq(Nat), s # <<>>, Ordered(s)
  PROVE  Ordered(SubSeq(s, 1, Len(s) - 1))
<1> DEFINE b == SubSeq(s, 1, Len(s) - 1)
<1>1. Len(s) \in Nat /\ Len(b) = Len(s) - 1 /\ \A k \in 1..(Len(s) - 1) : b[k] = s[k]
  BY BackOf
<1> HIDE DEF b
<1>2. Ordered(b)
  <2> SUFFICES ASSUME NEW k \in 1..Len(b), NEW l \in 1..Len(b), k < l
               PROVE  b[k] = 0 \/ b[k] < b[l]
    BY DEF Ordered
  <2>1. k \in 1..Len(s) /\ l \in 1..Len(s) /\ b[k] = s[k] /\ b[l] = s[l]
    BY <1>1
  <2> QED
    BY <2>1 DEF Ordered
<1> QED
  BY <1>2 DEF b

(* An occurrence of the node in a sequence that loses its head *)
LEMMA OccursTail ==
  ASSUME node_id \in Node, NEW s \in Seq(Node), s # <<>>, NEW u \in Node
  PROVE  /\ Occurs(s) <=> Head(s) = node_id \/ Occurs(Tail(s))
         /\ Occurs(Append(Tail(s), u)) <=> u = node_id \/ Occurs(Tail(s))
<1> DEFINE t == Tail(s)
           a == Append(t, u)
<1>1. /\ Len(s) \in Nat /\ Len(s) >= 1 /\ Len(t) = Len(s) - 1 /\ t \in Seq(Node)
      /\ Head(s) = s[1] /\ \A k \in 1..(Len(s) - 1) : t[k] = s[k + 1]
  BY HeadTailOf
<1>2. Len(a) = Len(t) + 1 /\ a[Len(t) + 1] = u /\ \A k \in 1..Len(t) : a[k] = t[k]
  BY <1>1
<1>3. DOMAIN s = 1..Len(s) /\ DOMAIN t = 1..Len(t) /\ DOMAIN a = 1..Len(a)
  BY <1>1
<1> HIDE DEF t, a
<1>4. ASSUME Occurs(s) PROVE Head(s) = node_id \/ Occurs(t)
  <2>1. PICK k \in 1..Len(s) : s[k] = node_id
    BY <1>3, <1>4 DEF Occurs
  <2>2. CASE k = 1
    BY <1>1, <2>1, <2>2
  <2>3. CASE k # 1
    <3>1. k - 1 \in 1..Len(t) /\ t[k - 1] = s[k]
      BY <1>1, <2>3
    <3> QED
      BY ZenonT(60), <1>3, <2>1, <3>1 DEF Occurs
  <2> QED
    BY <2>2, <2>3
<1>5. ASSUME Head(s) = node_id PROVE Occurs(s)
  <2>1. 1 \in DOMAIN s
    BY <1>1, <1>3
  <2> QED
    BY <1>1, <1>5, <2>1 DEF Occurs
<1>6. ASSUME Occurs(t) PROVE Occurs(s) /\ Occurs(a)
  <2>1. PICK k \in 1..Len(t) : t[k] = node_id
    BY <1>3, <1>6 DEF Occurs
  <2>2. k + 1 \in DOMAIN s /\ s[k + 1] = node_id /\ k \in DOMAIN a /\ a[k] = node_id
    BY <1>1, <1>2, <1>3, <2>1
  <2> QED
    BY <2>2 DEF Occurs
<1>7. ASSUME u = node_id PROVE Occurs(a)
  <2>1. Len(t) + 1 \in DOMAIN a
    BY <1>1, <1>2, <1>3
  <2> QED
    BY <1>2, <1>7, <2>1 DEF Occurs
<1>8. ASSUME Occurs(a) PROVE u = node_id \/ Occurs(t)
  <2>1. PICK k \in 1..Len(a) : a[k] = node_id
    BY <1>3, <1>8 DEF Occurs
  <2>2. k \in 1..Len(t) \/ k = Len(t) + 1
    BY <1>1, <1>2
  <2> QED
    BY <1>2, <1>3, <2>1, <2>2 DEF Occurs
<1> QED
  BY <1>4, <1>5, <1>6, <1>7, <1>8 DEF t, a

-----------------------------------------------------------------------------
(* Every step preserves the invariant.  One lemma for the loop, whose
   iterations are the case that needs the arithmetic. *)

LEMMA TurnSafe ==
  ASSUME LInv, Turn
  PROVE  Own' /\ InPlay' /\ Served' /\ Times'
<1> DEFINE u == Head(q)
           slice == Least(remaining_quantum_time(u, repetitions[u]), remaining_time)
           r == repetitions[node_id]
           quantum == quantum_times[node_id]
           again == remaining_quantum_time(u, repetitions[u] + 1) > 0
<1>1. TypeOK /\ Own /\ InPlay /\ Served /\ Times
  BY DEF LInv
<1>2. pc = "turns" /\ q # <<>> /\ remaining_time > 0 /\ pc' = "turns"
  BY DEF Turn
<1>3. /\ node_id \in Node /\ comm_delay \in Nat
      /\ Me.sgx_time \in Nat /\ Me.time_left \in Nat /\ Me.time_left <= Me.sgx_time
  BY <1>1, ArgumentTypes DEF Me
<1>4. /\ q \in Seq(Node) /\ r \in Nat /\ quantum \in Nat \ {0} /\ remaining_time \in Int
      /\ accumulated_time \in Nat /\ found_myself \in BOOLEAN
      /\ repetitions \in [Node -> Nat] /\ notification_times \in Seq(Nat)
  BY <1>1, <1>3 DEF TypeOK
<1>5. u \in Node /\ Tail(q) \in Seq(Node)
  BY <1>2, <1>4, HeadTailOf
<1>6. slice \in Nat /\ slice <= remaining_time
  <2>1. repetitions[u] \in Nat
    BY <1>4, <1>5
  <2>2. remaining_quantum_time(u, repetitions[u]) \in Nat
    BY ZenonT(60), <1>1, <1>5, <2>1, RemainingType
  <2> QED
    BY <1>2, <1>4, <2>2 DEF Least
<1>7. /\ repetitions' = [repetitions EXCEPT ![u] = @ + 1]
      /\ accumulated_time' = accumulated_time + slice
      /\ found_myself' = (found_myself \/ u = node_id)
      /\ remaining_time' = IF u = node_id THEN remaining_time - slice ELSE remaining_time
      /\ q' = IF again THEN Append(Tail(q), u) ELSE Tail(q)
      /\ notification_times' =
           IF u = node_id /\ remaining_time' > 0
           THEN Append(notification_times, Most(accumulated_time' - comm_delay, 0))
           ELSE notification_times
      /\ UNCHANGED <<sgx_table, queue, node_id, comm_delay, quantum_times, curr_time>>
  BY DEF Turn, arguments, quanta
<1>8. Me' = Me /\ (Occurs(queue))' = Occurs(queue) /\ quantum' = quantum
  BY <1>7 DEF Me, Occurs
<1>9. remaining_time = Most(Me.time_left - r * quantum, 0)
  BY <1>1, <1>2 DEF Own
<1>10. /\ Occurs(q) <=> u = node_id \/ Occurs(Tail(q))
       /\ Occurs(Append(Tail(q), u)) <=> u = node_id \/ Occurs(Tail(q))
  BY <1>2, <1>3, <1>4, <1>5, OccursTail
<1>11. /\ Occurs(queue) /\ remaining_time > 0 => Occurs(q)
       /\ Occurs(q) => Occurs(queue)
       /\ found_myself => Occurs(queue) /\ Me.time_left > 0
       /\ ~found_myself => remaining_time = Me.time_left
       /\ accumulated_time >= Me.time_left - remaining_time
  BY <1>1, <1>2 DEF InPlay, Served
<1>12. /\ Ordered(notification_times)
       /\ Bounded(notification_times, Most(accumulated_time - comm_delay, 0))
       /\ curr_time = 0
  BY <1>1, <1>2 DEF Times
<1>13. (Occurs(q))' = \E k \in DOMAIN q' : q'[k] = node_id
  BY <1>7 DEF Occurs
<1>14. (Occurs(q))' = IF again THEN Occurs(Append(Tail(q), u)) ELSE Occurs(Tail(q))
  BY <1>7, <1>13 DEF Occurs
<1>15. CASE u = node_id
  <2>1. slice = Least(Least(quantum, Most(Me.sgx_time - r * quantum, 0)), remaining_time)
    BY <1>15 DEF remaining_quantum_time, Me
  <2> HIDE DEF u, slice
  (* The turn takes something of the node's time, the time left is again what
     r + 1 turns leave, and if there is some the node has another turn. *)
  <2>2. /\ slice >= 1
        /\ remaining_time - slice = Most(Me.time_left - (r + 1) * quantum, 0)
        /\ remaining_time - slice > 0 =>
             Least(quantum, Most(Me.sgx_time - (r + 1) * quantum, 0)) > 0
    <3> DEFINE stay == Me.sgx_time
               left == Me.time_left
    <3>1. stay \in Nat /\ left \in Nat /\ left <= stay /\ r \in Nat
          /\ quantum \in Nat \ {0} /\ remaining_time \in Int /\ remaining_time > 0
      BY <1>2, <1>3, <1>4
    <3>2. /\ remaining_time = Most(left - r * quantum, 0)
          /\ slice = Least(Least(quantum, Most(stay - r * quantum, 0)), remaining_time)
      BY <1>9, <2>1
    <3> HIDE DEF stay, left, r, quantum
    <3> DEFINE p == r * quantum
    <3>p. p \in Nat /\ (r + 1) * quantum = p + quantum
      BY <3>1
    <3> HIDE DEF p
    <3>s. /\ remaining_time = Most(left - p, 0)
          /\ slice = Least(Least(quantum, Most(stay - p, 0)), remaining_time)
      BY <3>2 DEF p
    <3>3. /\ slice >= 1
          /\ remaining_time - slice = Most(left - (r + 1) * quantum, 0)
          /\ remaining_time - slice > 0 =>
               Least(quantum, Most(stay - (r + 1) * quantum, 0)) > 0
      BY <3>1, <3>p, <3>s DEF Least, Most
    <3> QED
      BY <3>3 DEF stay, left
  <2>3. remaining_time' = remaining_time - slice /\ repetitions'[node_id] = r + 1
        /\ found_myself'
    BY Zenon, <1>3, <1>4, <1>7, <1>15
  <2>4. Own'
    BY <1>7, <1>8, <2>2, <2>3 DEF Own
  <2>5. remaining_time' > 0 => again
    BY <1>15, <2>2, <2>3 DEF remaining_quantum_time, Me, u
  <2>6. Me.time_left > 0
    BY <1>2, <1>3, <1>11
  <2>7. InPlay'
    BY <1>8, <1>10, <1>11, <1>14, <1>15, <2>3, <2>5, <2>6 DEF InPlay
  <2>8. Served'
    BY SMTT(60), <1>2, <1>3, <1>4, <1>6, <1>7, <1>8, <1>11, <2>3 DEF Served
  <2>9. Times'
    <3> DEFINE m == accumulated_time - comm_delay
               v == Most(accumulated_time' - comm_delay, 0)
    <3>1. m \in Int /\ v \in Nat /\ v > m /\ Most(m, 0) <= v
      BY <1>3, <1>4, <1>6, <1>7, <2>2 DEF Most
    <3> HIDE DEF m, v
    <3>2. Bounded(notification_times, Most(m, 0))
      BY <1>12 DEF m
    <3>3. Ordered(Append(notification_times, v)) /\ Bounded(Append(notification_times, v), v)
      BY <1>4, <1>12, <3>1, <3>2, OrderedAppend
    <3>4. Bounded(notification_times, v)
      <4>1. \A k \in 1..Len(notification_times) : notification_times[k] \in Nat
        BY <1>4
      <4>2. Most(m, 0) \in Int
        BY <3>1 DEF Most
      <4> QED
        BY <3>1, <3>2, <4>1, <4>2 DEF Bounded
    <3>5. notification_times' \in {notification_times, Append(notification_times, v)}
      BY <1>7 DEF v
    <3>6. Ordered(notification_times') /\ Bounded(notification_times', v)
      BY Zenon, <1>12, <3>3, <3>4, <3>5
    <3> QED
      BY <1>2, <1>7, <1>12, <3>6 DEF Times, Ordered, Bounded, v
  <2> QED
    BY <2>4, <2>7, <2>8, <2>9
<1>16. CASE u # node_id
  <2> HIDE DEF u, slice
  <2>1. remaining_time' = remaining_time /\ repetitions'[node_id] = r
        /\ found_myself' = found_myself /\ notification_times' = notification_times
    BY <1>3, <1>4, <1>5, <1>7, <1>16
  <2>2. Own'
    BY <1>7, <1>8, <1>9, <2>1 DEF Own
  <2>3. InPlay'
    BY <1>8, <1>10, <1>11, <1>14, <1>16, <2>1 DEF InPlay
  <2>4. Served'
    BY <1>3, <1>4, <1>6, <1>7, <1>8, <1>11, <2>1 DEF Served
  <2>5. Times'
    <3> DEFINE m == Most(accumulated_time - comm_delay, 0)
               v == Most(accumulated_time' - comm_delay, 0)
    <3>1. m \in Int /\ v \in Int /\ m <= v
      BY <1>3, <1>4, <1>6, <1>7 DEF Most
    <3> HIDE DEF m, v
    <3>2. Bounded(notification_times, m)
      BY <1>12 DEF m
    <3>3. \A k \in 1..Len(notification_times) : notification_times[k] \in Nat
      BY <1>4
    <3>4. Bounded(notification_times, v)
      BY <3>1, <3>2, <3>3 DEF Bounded
    <3> QED
      BY <1>2, <1>7, <1>12, <2>1, <3>4 DEF Times, Ordered, Bounded, v
  <2> QED
    BY <2>2, <2>3, <2>4, <2>5
<1> QED
  BY <1>15, <1>16

LEMMA SafetyStep == LInv /\ [Next]_vars => LInv'
<1> SUFFICES ASSUME LInv, [Next]_vars PROVE LInv'
  OBVIOUS
<1>1. TypeOK /\ TypeOK'
  BY TypeStep DEF LInv
<1>2. /\ node_id \in Node /\ comm_delay \in Nat /\ Me.time_left \in Nat
      /\ Me.sgx_time \in Nat /\ Me.time_left <= Me.sgx_time
  BY <1>1, ArgumentTypes DEF Me
<1>3. /\ notification_times \in Seq(Nat) /\ accumulated_time \in Nat
      /\ remaining_time \in Int /\ curr_time \in Nat
      /\ leadership_time \in Nat \cup {-1}
      /\ repetitions[node_id] \in Nat /\ quantum_times[node_id] \in Nat
      /\ quantum_times'[node_id] \in Nat
  BY <1>1, <1>2 DEF TypeOK
<1>4. ASSUME NEW k \in 1..Len(notification_times) PROVE notification_times[k] \in Nat
  BY <1>3
<1>5. CASE Accumulate \/ Divide
  <2>1. /\ pc = "quanta" /\ pc' \in {"quanta", "turns"}
        /\ UNCHANGED <<arguments, rounds, remaining_time, notification_times,
                       leadership_time, curr_time>>
    BY <1>5 DEF Accumulate, Divide
  <2>2. /\ Me' = Me /\ (Occurs(q))' = Occurs(q) /\ (Occurs(queue))' = Occurs(queue)
        /\ node_id' = node_id /\ repetitions' = repetitions
    BY <2>1 DEF arguments, rounds, Me, Occurs
  <2>3. /\ repetitions[node_id] = 0 /\ remaining_time = Me.time_left /\ q = queue
        /\ ~found_myself
    BY <2>1 DEF LInv, Start
  <2>4. Own'
    <3>1. 0 * quantum_times'[node_id] = 0
      BY SMTT(60), <1>3
    <3>2. (repetitions[node_id] * quantum_times[node_id])' = 0
      BY <2>2, <2>3, <3>1
    <3>3. Most(Me.time_left - 0, 0) = Me.time_left
      BY <1>2 DEF Most
    <3>4. remaining_time' = Me.time_left
      BY <2>1, <2>3
    <3> QED
      BY <2>2, <3>2, <3>3, <3>4 DEF Own
  <2>5. Start' /\ InPlay' /\ Served' /\ Times'
    BY <2>1, <2>2, <2>3 DEF LInv, Start, InPlay, Served, Times, arguments, rounds,
       Ordered, Bounded
  <2> QED
    BY <1>1, <2>1, <2>4, <2>5
       DEF LInv, Leading, NoAssertFails, RejoinsIfOut, OwnTimeServed
<1>6. CASE Turn
  <2>1. Own' /\ InPlay' /\ Served' /\ Times'
    BY <1>6, TurnSafe
  <2>2. pc' = "turns"
    BY <1>6 DEF Turn
  <2> QED
    BY <1>1, <2>1, <2>2
       DEF LInv, Leading, Start, NoAssertFails, RejoinsIfOut, OwnTimeServed
<1>7. CASE Finish
  <2>1. /\ pc = "turns" /\ (q = <<>> \/ remaining_time <= 0)
        /\ UNCHANGED <<sgx_table, queue, node_id, comm_delay, notification_times,
                       curr_time>>
    BY <1>7 DEF Finish, arguments
  <2>2. Me' = Me /\ (Occurs(queue))' = Occurs(queue)
    BY <2>1 DEF Me, Occurs
  <2>3. /\ Occurs(queue) /\ remaining_time > 0 => Occurs(q)
        /\ found_myself => Occurs(queue) /\ Me.time_left > 0
        /\ ~found_myself => remaining_time = Me.time_left
        /\ accumulated_time >= Me.time_left - remaining_time
        /\ curr_time = 0 /\ Ordered(notification_times)
        /\ Bounded(notification_times, Most(accumulated_time - comm_delay, 0))
    BY <2>1 DEF LInv, InPlay, Served, Times
  <2>4. q = <<>> => ~Occurs(q)
    BY DEF Occurs
  <2>5. remaining_time >= 0
    BY <1>2, <1>3, <2>1 DEF LInv, Own, Most
  <2>6. ~(found_myself /\ remaining_time # 0)
    BY <1>3, <2>1, <2>3, <2>4, <2>5
  <2>7. /\ pc' = "calculated"
        /\ leadership_time' =
             IF found_myself THEN Most(accumulated_time - comm_delay, 0) ELSE -1
    BY <1>7, <2>6 DEF Finish
  <2>8. Most(accumulated_time - comm_delay, 0) \in Nat
        /\ Most(accumulated_time - comm_delay, 0) >= accumulated_time - comm_delay
    BY <1>2, <1>3 DEF Most
  <2>9. leadership_time' = -1 <=> ~found_myself
    BY <2>7, <2>8
  <2>10. RejoinsIfOut'
    <3>1. ~found_myself => (Me.time_left = 0 \/ ~Occurs(queue))
      BY <1>2, <1>3, <2>1, <2>3, <2>4
    <3>2. found_myself => ~(Me.time_left = 0 \/ ~Occurs(queue))
      BY <2>3
    <3>3. leadership_time' = -1 <=> Me.time_left = 0 \/ ~Occurs(queue)
      BY <2>9, <3>1, <3>2
    <3> QED
      BY <2>1, <3>3 DEF RejoinsIfOut, Me, Occurs
  <2>11. OwnTimeServed'
    <3>1. found_myself => leadership_time' + comm_delay >= Me.time_left
      BY <1>2, <1>3, <2>3, <2>6, <2>7, <2>8
    <3> QED
      BY <2>1, <2>9, <3>1 DEF OwnTimeServed, Me
  <2>12. Times'
    BY <2>1, <2>3, <2>7, <2>9 DEF Times, Ordered, Bounded
  <2> QED
    BY <1>1, <2>7, <2>10, <2>11, <2>12
       DEF LInv, Leading, Start, Own, InPlay, Served, NoAssertFails
<1>8. CASE Rejoin
  <2>1. pc = "calculated" /\ pc' = "rejoin"
        /\ notification_times' = notification_times /\ curr_time' = curr_time
    BY <1>8 DEF Rejoin
  <2>2. Times'
    BY <2>1 DEF LInv, Times, Ordered
  <2> QED
    BY <1>1, <2>1, <2>2
       DEF LInv, Leading, Start, Own, InPlay, Served, NoAssertFails, RejoinsIfOut,
           OwnTimeServed
<1>9. CASE CheckLast
  <2>1. /\ pc = "calculated" /\ leadership_time # -1
        /\ notification_times' = notification_times /\ curr_time' = curr_time
        /\ leadership_time' = leadership_time
    BY <1>9 DEF CheckLast
  <2>2. Bounded(notification_times, leadership_time) /\ Ordered(notification_times)
        /\ curr_time = 0
    BY <2>1 DEF LInv, Times
  <2>3. ~(/\ notification_times # <<>>
          /\ notification_times[Len(notification_times)] > leadership_time)
    <3> SUFFICES ASSUME notification_times # <<>>
                 PROVE  ~(notification_times[Len(notification_times)] > leadership_time)
      OBVIOUS
    <3>1. Len(notification_times) \in 1..Len(notification_times)
      BY <1>3, HeadTailOf
    <3> QED
      BY <1>3, <1>4, <2>2, <3>1 DEF Bounded
  <2>4. pc' = "trim_back"
    BY <1>9, <2>3 DEF CheckLast
  <2>5. Times'
    BY <2>1, <2>2, <2>4 DEF Times, Ordered
  <2> QED
    BY <1>1, <2>1, <2>4, <2>5
       DEF LInv, Leading, Start, Own, InPlay, Served, NoAssertFails, RejoinsIfOut,
           OwnTimeServed
<1>10. CASE TrimBack
  <2>1. /\ pc = "trim_back" /\ pc' \in {"trim_back", "trim_front"}
        /\ curr_time' = curr_time /\ leadership_time' = leadership_time
    BY <1>10 DEF TrimBack
  <2>2. Ordered(notification_times) /\ curr_time = 0 /\ leadership_time # -1
    BY <2>1 DEF LInv, Times, Leading
  <2>3. Ordered(notification_times')
    BY Zenon, <1>3, <1>10, <2>2, OrderedBack DEF TrimBack
  <2>4. Times'
    BY <2>1, <2>2, <2>3 DEF Times, Ordered
  <2> QED
    BY <1>1, <2>1, <2>2, <2>4
       DEF LInv, Leading, Start, Own, InPlay, Served, NoAssertFails, RejoinsIfOut,
           OwnTimeServed
<1>11. CASE TrimFront
  <2>1. /\ pc = "trim_front" /\ pc' \in {"trim_front", "sleeping"}
        /\ curr_time' = curr_time /\ leadership_time' = leadership_time /\ Me' = Me
    BY <1>11 DEF TrimFront, arguments, Me
  <2>2. Ordered(notification_times) /\ curr_time = 0 /\ leadership_time # -1
    BY <2>1 DEF LInv, Times, Leading
  <2>3. Ordered(notification_times')
    BY ZenonT(60), <1>3, <1>11, <2>2, OrderedTail DEF TrimFront
  <2>4. pc' = "sleeping" =>
          /\ remaining_time' = Me.time_left
          /\ \A k \in 1..Len(notification_times') : notification_times'[k] > curr_time
    <3> SUFFICES ASSUME pc' = "sleeping"
                 PROVE  /\ remaining_time' = Me.time_left
                        /\ \A k \in 1..Len(notification_times') :
                             notification_times'[k] > curr_time
      OBVIOUS
    <3>1. /\ ~(notification_times # <<>> /\ Head(notification_times) = curr_time)
          /\ notification_times' = notification_times
          /\ remaining_time' = Me.time_left
      BY <1>11, <2>1 DEF TrimFront, Me
    <3>2. ASSUME NEW k \in 1..Len(notification_times)
          PROVE  notification_times[k] > curr_time
      <4>1. notification_times # <<>>
        BY <3>2
      <4>2. Head(notification_times) = notification_times[1] /\ 1 \in 1..Len(notification_times)
        BY <1>3, <4>1, HeadTailOf
      <4>3. notification_times[1] > 0
        BY <1>4, <2>2, <3>1, <4>1, <4>2
      <4>4. k = 1 \/ 1 < k
        BY <3>2
      <4>5. 1 < k => notification_times[1] = 0 \/ notification_times[1] < notification_times[k]
        BY <2>2, <3>2, <4>2 DEF Ordered
      <4> QED
        BY <1>4, <2>2, <3>2, <4>2, <4>3, <4>4, <4>5
    <3> QED
      BY <3>1, <3>2
  <2>5. Times'
    BY SMTT(60), <1>2, <2>1, <2>2, <2>3, <2>4 DEF Times, Ordered
  <2> QED
    BY <1>1, <2>1, <2>2, <2>5
       DEF LInv, Leading, Start, Own, InPlay, Served, NoAssertFails, RejoinsIfOut,
           OwnTimeServed
<1>12. CASE Notify
  <2> DEFINE t == Head(notification_times)
  <2>1. /\ pc = "sleeping" /\ notification_times # <<>>
        /\ notification_times' = Tail(notification_times)
        /\ remaining_time' = remaining_time - t /\ curr_time' = t
        /\ leadership_time' = leadership_time /\ Me' = Me
    BY <1>12 DEF Notify, arguments, Me
  <2>2. /\ Ordered(notification_times) /\ leadership_time # -1
        /\ remaining_time <= Me.time_left
        /\ \A k \in 1..Len(notification_times) : notification_times[k] > curr_time
    BY <2>1 DEF LInv, Times, Leading
  <2>3. t \in Nat /\ t = notification_times[1] /\ 1 \in 1..Len(notification_times)
    BY <1>3, <2>1, HeadTailOf
  <2>4. t > curr_time
    BY <2>2, <2>3
  <2>5. /\ Ordered(Tail(notification_times))
        /\ t # 0 => \A k \in 1..Len(Tail(notification_times)) :
                      Tail(notification_times)[k] > t
    BY <1>3, <2>1, <2>2, OrderedTail
  <2> HIDE DEF t
  <2>6. remaining_time' < Me.sgx_time /\ remaining_time' <= Me.time_left
    <3> DEFINE stay == Me.sgx_time
               left == Me.time_left
    <3>1. /\ stay \in Nat /\ left \in Nat /\ left <= stay /\ remaining_time \in Int
          /\ remaining_time <= left /\ t \in Nat /\ t > 0
      BY <1>2, <1>3, <2>2, <2>3, <2>4
    <3>2. remaining_time' = remaining_time - t
      BY <2>1
    <3> HIDE DEF stay, left
    <3>3. remaining_time' < stay /\ remaining_time' <= left
      BY <3>1, <3>2
    <3> QED
      BY <3>3 DEF stay, left
  <2>7. pc' = "sleeping"
    <3>1. ~(curr_time >= t) /\ ~(remaining_time' >= Me.sgx_time)
      BY SMTT(60), <1>2, <1>3, <2>1, <2>3, <2>4, <2>6
    <3> QED
      BY <1>12, <3>1 DEF Notify, Me, t
  <2>8. Times'
    BY <1>3, <2>1, <2>3, <2>4, <2>5, <2>6, <2>7 DEF Times, Ordered
  <2> QED
    BY SMTT(60), <1>1, <2>1, <2>2, <2>7, <2>8
       DEF LInv, Leading, Start, Own, InPlay, Served, NoAssertFails, RejoinsIfOut,
           OwnTimeServed
<1>13. CASE Lead
  <2>1. /\ pc = "sleeping" /\ pc' = "leader"
        /\ notification_times' = notification_times /\ leadership_time' = leadership_time
    BY <1>13 DEF Lead
  <2>2. Times'
    BY SMTT(60), <2>1 DEF LInv, Times, Ordered
  <2> QED
    BY <1>1, <2>1, <2>2
       DEF LInv, Leading, Start, Own, InPlay, Served, NoAssertFails, RejoinsIfOut,
           OwnTimeServed
<1>14. CASE UNCHANGED vars
  <2>1. UNCHANGED <<sgx_table, queue, node_id, comm_delay, pc, quantum_times, q,
          repetitions, accumulated_time, found_myself, remaining_time,
          notification_times, leadership_time, curr_time>>
    BY <1>14 DEF vars, arguments, quanta, rounds
  <2> QED
    BY <1>1, <2>1
       DEF LInv, Leading, Start, Own, InPlay, Served, Times, NoAssertFails, RejoinsIfOut,
           OwnTimeServed, Me, Occurs, Ordered, Bounded
<1> QED
  BY <1>5, <1>6, <1>7, <1>8, <1>9, <1>10, <1>11, <1>12, <1>13, <1>14 DEF Next

(* Every assertion on the way to leadership holds. *)
THEOREM AssertsHold == Spec => []NoAssertFails
<1>1. LInv => NoAssertFails
  BY DEF LInv
<1> QED
  BY <1>1, SafetyInit, SafetyStep, PTL DEF Spec

(* The variables keep their types, quanta of at least 1 included. *)
THEOREM TypeCorrect == Spec => []TypeOK
<1>1. LInv => TypeOK
  BY DEF LInv
<1> QED
  BY <1>1, SafetyInit, SafetyStep, PTL DEF Spec

(* calc_leadership_time answers -1 exactly to a node that is not in the queue
   or has no time left. *)
THEOREM RejoinExact == Spec => []RejoinsIfOut
<1>1. LInv => RejoinsIfOut
  BY DEF LInv
<1> QED
  BY <1>1, SafetyInit, SafetyStep, PTL DEF Spec

(* The leadership time counts all of the node's own time. *)
THEOREM OwnTimeCounted == Spec => []OwnTimeServed
<1>1. LInv => OwnTimeServed
  BY DEF LInv
<1> QED
  BY <1>1, SafetyInit, SafetyStep, PTL DEF Spec

-----------------------------------------------------------------------------
(***************************************************************************)
(* The round robin.  Along the queue the number of turns never falls and   *)
(* its ends differ by at most one; the head that goes to the back with one *)
(* more turn keeps both.  The queue must have no repetition, or a node     *)
(* would have two turns in a round.                                        *)
(***************************************************************************)

Once_q == \A k, l \in 1..Len(q) : q[k] = q[l] => k = l
Rising ==
  \A k, l \in 1..Len(q) : k <= l =>
    /\ repetitions[q[k]] <= repetitions[q[l]]
    /\ repetitions[q[l]] <= repetitions[q[k]] + 1

RInv ==
  Once => CASE pc = "quanta" -> q = queue /\ repetitions = [n \in Node |-> 0]
            [] pc = "turns" -> Once_q /\ Rising
            [] OTHER -> TRUE

LEMMA TurnRising ==
  ASSUME TypeOK, Turn, Once_q, Rising
  PROVE  Once_q' /\ Rising'
<1> DEFINE u == Head(q)
           n == Len(q)
           r(k) == repetitions[q[k]]
<1>1. q \in Seq(Node) /\ q # <<>> /\ repetitions \in [Node -> Nat]
  BY DEF TypeOK, Turn
<1>2. /\ u \in Node /\ u = q[1] /\ n \in Nat /\ n >= 1
      /\ Tail(q) \in Seq(Node) /\ Len(Tail(q)) = n - 1
      /\ \A k \in 1..(n - 1) : Tail(q)[k] = q[k + 1]
  BY <1>1, HeadTailOf
<1>n. n \in Nat /\ n >= 1
  BY <1>2
<1>3. \A k \in 1..n : q[k] \in Node /\ r(k) \in Nat
  BY <1>1
<1>4. /\ repetitions' = [repetitions EXCEPT ![u] = @ + 1]
      /\ q' \in {Append(Tail(q), u), Tail(q)}
  BY DEF Turn
<1>5. \A k \in 1..(n - 1) : q[k + 1] # u /\ repetitions'[q[k + 1]] = r(k + 1)
  <2> SUFFICES ASSUME NEW k \in 1..(n - 1)
               PROVE  q[k + 1] # u /\ repetitions'[q[k + 1]] = r(k + 1)
    OBVIOUS
  <2>1. k + 1 \in 1..n /\ 1 \in 1..n /\ k + 1 # 1
    BY <1>2
  <2>2. q[k + 1] # u
    BY <1>2, <2>1 DEF Once_q
  <2> QED
    BY <1>1, <1>2, <1>3, <1>4, <2>1, <2>2
<1>6. repetitions'[u] = r(1) + 1 /\ r(1) \in Nat
  BY <1>1, <1>2, <1>3, <1>4
<1>7. \A k \in 1..(n - 1) : r(1) <= r(k + 1) /\ r(k + 1) <= r(1) + 1
  <2> SUFFICES ASSUME NEW k \in 1..(n - 1)
               PROVE  r(1) <= r(k + 1) /\ r(k + 1) <= r(1) + 1
    OBVIOUS
  <2>1. k + 1 \in 1..n /\ 1 \in 1..n /\ 1 <= k + 1
    BY <1>2
  <2> QED
    BY <2>1 DEF Rising
<1>8. \A k, l \in 1..(n - 1) :
        /\ Tail(q)[k] = Tail(q)[l] => k = l
        /\ k <= l => /\ repetitions'[Tail(q)[k]] <= repetitions'[Tail(q)[l]]
                     /\ repetitions'[Tail(q)[l]] <= repetitions'[Tail(q)[k]] + 1
  <2> SUFFICES ASSUME NEW k \in 1..(n - 1), NEW l \in 1..(n - 1)
               PROVE  /\ Tail(q)[k] = Tail(q)[l] => k = l
                      /\ k <= l =>
                           /\ repetitions'[Tail(q)[k]] <= repetitions'[Tail(q)[l]]
                           /\ repetitions'[Tail(q)[l]] <= repetitions'[Tail(q)[k]] + 1
    OBVIOUS
  <2>1. k + 1 \in 1..n /\ l + 1 \in 1..n /\ (k <= l => k + 1 <= l + 1)
    BY <1>2
  <2>2. q[k + 1] = q[l + 1] => k + 1 = l + 1
    BY <2>1 DEF Once_q
  <2>3. k <= l => r(k + 1) <= r(l + 1) /\ r(l + 1) <= r(k + 1) + 1
    BY <2>1 DEF Rising
  <2> QED
    BY <1>2, <1>5, <2>2, <2>3
<1>9. CASE q' = Tail(q)
  BY <1>2, <1>8, <1>9 DEF Once_q, Rising
<1>10. CASE q' = Append(Tail(q), u)
  <2>1. /\ Len(q') = n /\ q'[n] = u
        /\ \A k \in 1..(n - 1) : q'[k] = Tail(q)[k]
    BY <1>2, <1>10
  <2>2. \A k \in 1..Len(q') : k \in 1..(n - 1) \/ k = n
    <3> HIDE DEF n
    <3> QED
      BY <1>n, <2>1
  <2>3. \A k \in 1..(n - 1) :
          /\ q'[k] # u
          /\ repetitions'[q'[k]] <= repetitions'[q'[n]]
          /\ repetitions'[q'[n]] <= repetitions'[q'[k]] + 1
    <3> SUFFICES ASSUME NEW k \in 1..(n - 1)
                 PROVE  /\ q'[k] # u
                        /\ repetitions'[q'[k]] <= repetitions'[q'[n]]
                        /\ repetitions'[q'[n]] <= repetitions'[q'[k]] + 1
      OBVIOUS
    <3>1. q'[k] = q[k + 1] /\ q'[k] # u /\ repetitions'[q'[k]] = r(k + 1)
      BY <1>2, <1>5, <2>1
    <3>2. r(k + 1) \in Nat
      BY <1>2, <1>3
    <3>3. repetitions'[q'[n]] = r(1) + 1
      BY <1>6, <2>1
    <3> HIDE DEF r
    <3> QED
      BY <1>6, <1>7, <3>1, <3>2, <3>3
  <2>4. repetitions'[q'[n]] \in Nat
    BY <1>6, <2>1
  <2>5. Once_q'
    <3> SUFFICES ASSUME NEW k \in 1..Len(q'), NEW l \in 1..Len(q'), q'[k] = q'[l]
                 PROVE  k = l
      BY DEF Once_q
    <3> QED
      BY ZenonT(60), <1>8, <2>1, <2>2, <2>3
  <2>6. Rising'
    <3> SUFFICES ASSUME NEW k \in 1..Len(q'), NEW l \in 1..Len(q'), k <= l
                 PROVE  /\ repetitions'[q'[k]] <= repetitions'[q'[l]]
                        /\ repetitions'[q'[l]] <= repetitions'[q'[k]] + 1
      BY DEF Rising
    <3>1. CASE l \in 1..(n - 1) /\ k \in 1..(n - 1)
      BY <1>8, <2>1, <3>1
    <3>2. CASE l = n /\ k \in 1..(n - 1)
      BY <2>3, <3>2
    <3>3. CASE l = n /\ k = n
      BY <2>4, <3>3
    <3>4. ~(k = n /\ l \in 1..(n - 1))
      <4> HIDE DEF n
      <4> QED
        BY <1>n
    <3> QED
      BY <2>2, <3>1, <3>2, <3>3, <3>4
  <2> QED
    BY <2>5, <2>6
<1> QED
  BY <1>4, <1>9, <1>10

(* The inductive invariant of the round robin holds. *)
LEMMA RoundsKept == Spec => []RInv
<1>1. Init => RInv
  BY DEF Init, RInv
<1>2. TypeOK /\ RInv /\ [Next]_vars => RInv'
  <2> SUFFICES ASSUME TypeOK, RInv, [Next]_vars, Once' PROVE RInv'
    BY SMTT(60) DEF RInv
  <2>1. Once
    BY Zenon DEF Next, Accumulate, Divide, Turn, Finish, Rejoin, CheckLast, TrimBack,
       TrimFront, Notify, Lead, vars, arguments, Once
  <2>2. CASE Accumulate
    BY <2>1, <2>2 DEF Accumulate, RInv, arguments, rounds
  <2>3. CASE Divide
    <3>1. pc = "quanta" /\ pc' = "turns" /\ q' = q /\ repetitions' = repetitions
      BY <2>3 DEF Divide, rounds
    <3>2. q = queue /\ repetitions = [n \in Node |-> 0]
      BY <2>1, <3>1 DEF RInv
    <3>3. q \in Seq(Node) /\ DOMAIN q = 1..Len(q)
      BY DEF TypeOK
    <3>4. Once_q'
      BY <2>1, <3>1, <3>2, <3>3 DEF Once, Once_q
    <3>5. Rising'
      <4>1. \A k \in 1..Len(q) : repetitions[q[k]] = 0
        BY <3>2, <3>3
      <4> QED
        BY <3>1, <4>1 DEF Rising
    <3> QED
      BY SMTT(60), <3>1, <3>4, <3>5 DEF RInv
  <2>4. CASE Turn
    <3>1. pc = "turns" /\ pc' = "turns"
      BY <2>4 DEF Turn
    <3>2. Once_q /\ Rising
      BY <2>1, <3>1 DEF RInv
    <3> QED
      BY <2>4, <3>1, <3>2, TurnRising DEF RInv
  <2>5. CASE Finish \/ Rejoin \/ CheckLast \/ TrimBack \/ TrimFront \/ Notify \/ Lead
    <3>1. pc' \notin {"quanta", "turns"}
      BY <2>5 DEF Finish, Rejoin, CheckLast, TrimBack, TrimFront, Notify, Lead
    <3> QED
      BY <3>1 DEF RInv
  <2>6. CASE UNCHANGED vars
    BY SMTT(60), <2>1, <2>6 DEF vars, arguments, rounds, RInv, Once_q, Rising
  <2> QED
    BY <2>2, <2>3, <2>4, <2>5, <2>6 DEF Next
<1> QED
  BY <1>1, <1>2, TypeCorrect, PTL DEF Spec

(* Of two nodes in the queue neither is more than a turn ahead, for every
   queue without repetitions. *)
THEOREM RoundRobinHolds == Spec => []RoundRobin
<1>1. TypeOK /\ RInv => RoundRobin
  <2> SUFFICES ASSUME TypeOK, RInv, pc = "turns", Once,
                      NEW k \in DOMAIN q, NEW l \in DOMAIN q
               PROVE  repetitions[q[k]] <= repetitions[q[l]] + 1
    BY DEF RoundRobin
  <2>1. Rising
    BY DEF RInv
  <2>q. q \in Seq(Node) /\ repetitions \in [Node -> Nat]
    BY DEF TypeOK
  <2>2. k \in 1..Len(q) /\ l \in 1..Len(q) /\ Len(q) \in Nat
    BY <2>q
  <2>3. repetitions[q[k]] \in Nat /\ repetitions[q[l]] \in Nat
    <3>1. q[k] \in Node /\ q[l] \in Node
      BY <2>q, <2>2
    <3> QED
      BY <2>q, <3>1
  <2>4. k <= l \/ l <= k
    BY <2>2
  <2> QED
    BY <2>1, <2>2, <2>3, <2>4 DEF Rising
<1> QED
  BY <1>1, RoundsKept, TypeCorrect, PTL

-----------------------------------------------------------------------------
(***************************************************************************)
(* The reference definitions.  calc_quantum_times: what has been added to  *)
(* a node's quantum is the sum over the nodes seen so far.  The round      *)
(* robin: the turns that are over are a set of pairs of a position and a   *)
(* round, the accumulated time is the sum of their slices, and when the    *)
(* loop ends the slices of all other pairs are 0.                          *)
(***************************************************************************)

(* calc_quantum_times: the nodes that have been counted for n, and the sum so far *)
Peers(n) == {m \in Node : Counts(m, n)}
Seen(n) == {m \in Peers(n) : n < i \/ (n = i /\ m < j)}
Time == [m \in Node |-> sgx_table[m].time_left]

Summing ==
  \A n \in Node :
    /\ quantum_times[n] = sgx_table[n].sgx_time + SumFunctionOnSet(Time, Seen(n))
    /\ tier_active_nodes[n] = Cardinality(Seen(n)) + 1

(* The slice the node at a position has in a round, and the turns that are over *)
Pairs == (1..Len(queue)) \X (0..SgxMax)
Left(r) == Most(Me.time_left - r * quantum_times[node_id], 0)
Round(k, x) == IF x[1] <= k THEN x[2] ELSE x[2] + 1
Slice(k) == [x \in Pairs |->
               Least(remaining_quantum_time(queue[x[1]], x[2]), Left(Round(k, x)))]
Played == {x \in Pairs : x[2] < repetitions[queue[x[1]]]}

(* Who is at a place of q, by the position in queue *)
At(y, a) == queue[a] = q[y]
Turns(y) == repetitions[q[y]]

(* Who has had as many turns as another is before it in q as in queue; who has
   had one more has come round, and so is earlier in queue. *)
InRounds ==
  /\ \A y \in 1..Len(q) : \E a \in 1..Len(queue) : At(y, a)
  /\ \A y, z \in 1..Len(q), a, b \in 1..Len(queue) :
       y < z /\ At(y, a) /\ At(z, b) => IF Turns(y) = Turns(z) THEN a < b ELSE b < a
  /\ \A y \in 1..Len(q), a \in 1..Len(queue) :
       At(y, a) => \A k \in 1..Len(queue) : queue[k] = node_id =>
         repetitions[node_id] <= Turns(y) + (IF a <= k THEN 0 ELSE 1)

(* Who is in q has some of its stay left, who has left it has none. *)
StaysLeft ==
  /\ \A y \in 1..Len(q) :
       Turns(y) * quantum_times[q[y]] < sgx_table[q[y]].sgx_time
  /\ \A a \in 1..Len(queue) : (\A y \in 1..Len(q) : ~At(y, a)) =>
       repetitions[queue[a]] * quantum_times[queue[a]] >= sgx_table[queue[a]].sgx_time

(* The accumulated time is that of the turns that are over. *)
Adding ==
  \A k \in 1..Len(queue) : queue[k] = node_id =>
    accumulated_time = SumFunctionOnSet(Slice(k), Played)

(* The inductive invariant *)
MInv ==
  /\ pc = "quanta" => Summing /\ accumulated_time = 0
  /\ pc = "turns" =>
       /\ \A n \in Node : quantum_times[n] = QuantumOf(n)
       /\ Once => InRounds /\ StaysLeft /\ Adding
  /\ MatchesReference

LEMMA PeersType ==
  ASSUME TypeOK, NEW n \in Node
  PROVE  /\ IsFiniteSet(Node) /\ Peers(n) \subseteq Node /\ Seen(n) \subseteq Peers(n)
         /\ IsFiniteSet(Seen(n)) /\ \A m \in Node : Time[m] \in Nat
<1>1. IsFiniteSet(Node)
  BY FS_Interval DEF Node
<1>2. Peers(n) \subseteq Node /\ Seen(n) \subseteq Peers(n)
  BY Zenon DEF Peers, Seen
<1>3. IsFiniteSet(Seen(n))
  BY Zenon, <1>1, <1>2, FS_Subset
<1>4. \A m \in Node : Time[m] \in Nat
  BY ArgumentTypes DEF Time
<1> QED
  BY <1>1, <1>2, <1>3, <1>4

LEMMA SummingInit == Init => Summing
<1> SUFFICES ASSUME Init, NEW n \in Node
             PROVE  /\ quantum_times[n] = sgx_table[n].sgx_time + SumFunctionOnSet(Time, Seen(n))
                    /\ tier_active_nodes[n] = Cardinality(Seen(n)) + 1
  BY DEF Summing
<1>1. TypeOK
  BY TypeInit
<1>2. Seen(n) = {}
  <2>1. i = 0 /\ j = 0
    BY DEF Init
  <2>2. \A m \in Node : ~(n < i \/ (n = i /\ m < j))
    BY <2>1 DEF Node
  <2> QED
    BY Zenon, <2>2 DEF Seen, Peers
<1>3. SumFunctionOnSet(Time, {}) = 0 /\ Cardinality({}) = 0
  BY Zenon, SumEmpty, FS_EmptySet
<1>4. SumFunctionOnSet(Time, Seen(n)) = 0 /\ Cardinality(Seen(n)) = 0
  BY Zenon, <1>2, <1>3
<1>5. sgx_table[n].sgx_time \in Nat
  BY SMTT(20), <1>1, ArgumentTypes
<1> QED
  BY <1>4, <1>5 DEF Init

(* One iteration of the inner loop of calc_quantum_times *)
LEMMA AccumulateSums ==
  ASSUME TypeOK, Summing, Accumulate
  PROVE  Summing'
<1>0. i \in Node /\ j \in Node
  <2>1. i \in 0..N /\ i < N /\ j \in Node
    BY DEF Accumulate, TypeOK
  <2> QED
    BY <2>1 DEF Node
<1>1. /\ sgx_table' = sgx_table /\ i \in Node /\ j \in Node
      /\ j' = (j + 1) % N /\ i' = IF j + 1 = N THEN i + 1 ELSE i
      /\ IF Counts(j, i)
         THEN /\ quantum_times' = [quantum_times EXCEPT ![i] = @ + sgx_table[j].time_left]
              /\ tier_active_nodes' = [tier_active_nodes EXCEPT ![i] = @ + 1]
         ELSE UNCHANGED <<quantum_times, tier_active_nodes>>
  BY Zenon, <1>0 DEF Accumulate, arguments
<1>2. j' = IF j + 1 = N THEN 0 ELSE j + 1
  BY SMTT(20), <1>1 DEF Node
<1>3. Time' = Time /\ \A n \in Node : Peers(n)' = Peers(n)
  BY <1>1 DEF Time, Peers, Counts, calc_tier_number
<1>4. \A n \in Node : \A m \in Node :
        (n < i' \/ (n = i' /\ m < j')) <=> ((n < i \/ (n = i /\ m < j)) \/ (n = i /\ m = j))
  <2>1. CASE j + 1 = N
    BY <1>1, <1>2, <2>1 DEF Node
  <2>2. CASE j + 1 # N
    BY <1>1, <1>2, <2>2 DEF Node
  <2> QED
    BY <2>1, <2>2
<1>5. ASSUME NEW n \in Node PROVE Seen(n)' = {m \in Peers(n) : n < i' \/ (n = i' /\ m < j')}
  BY Zenon, <1>3 DEF Seen
<1>t. quantum_times \in [Node -> Nat \ {0}] /\ tier_active_nodes \in [Node -> Nat \ {0}]
  BY DEF TypeOK
<1> SUFFICES ASSUME NEW n \in Node
             PROVE  /\ quantum_times'[n] = sgx_table[n].sgx_time + SumFunctionOnSet(Time, Seen(n)')
                    /\ tier_active_nodes'[n] = Cardinality(Seen(n)') + 1
  BY Zenon, <1>1, <1>3 DEF Summing
<1>6. /\ quantum_times[n] = sgx_table[n].sgx_time + SumFunctionOnSet(Time, Seen(n))
      /\ tier_active_nodes[n] = Cardinality(Seen(n)) + 1
  BY Zenon DEF Summing
<1>7. CASE n = i /\ Counts(j, i)
  <2>1. Seen(n)' = Seen(n) \cup {j}
    <3>1. \A m \in Peers(n) : m \in Node
      BY DEF Peers
    <3>2. j \in Peers(n)
      BY Zenon, <1>1, <1>7 DEF Peers
    <3>3. \A m \in Node : (n < i' \/ (n = i' /\ m < j'))
                            <=> (n < i \/ (n = i /\ m < j)) \/ m = j
      BY Zenon, <1>4, <1>7
    <3>4. Seen(n)' = {m \in Peers(n) : (n < i \/ (n = i /\ m < j)) \/ m = j}
      BY Zenon, <1>5, <3>1, <3>3
    <3> QED
      BY Zenon, <3>2, <3>4 DEF Seen
  <2>2. j \notin Seen(n)
    BY <1>1, <1>7 DEF Seen, Node
  <2>3. IsFiniteSet(Seen(n)) /\ Seen(n) \subseteq Node /\ \A m \in Node : Time[m] \in Nat
    BY Zenon, PeersType
  <2>4. \A m \in Seen(n) \cup {j} : Time[m] \in Int
    BY <1>1, <2>3
  <2>5. SumFunctionOnSet(Time, Seen(n) \cup {j}) = SumFunctionOnSet(Time, Seen(n)) + Time[j]
    BY Zenon, <2>2, <2>3, <2>4, SumAdd
  <2>6. Cardinality(Seen(n) \cup {j}) = Cardinality(Seen(n)) + 1
    BY Zenon, <2>2, <2>3, FS_AddElement
  <2>7. SumFunctionOnSet(Time, Seen(n)) \in Int /\ Cardinality(Seen(n)) \in Nat
    <3>1. \A m \in Seen(n) : Time[m] \in Int
      BY Zenon, <2>4
    <3> QED
      BY Zenon, <2>3, <3>1, SumType, FS_CardinalityType
  <2>8. Time[j] = sgx_table[j].time_left /\ Time[j] \in Int
    BY <1>1, <2>3 DEF Time
  <2>9. /\ quantum_times'[n] = quantum_times[n] + Time[j]
        /\ tier_active_nodes'[n] = tier_active_nodes[n] + 1
    BY <1>1, <1>7, <1>t, <2>8
  <2>10. sgx_table[n].sgx_time \in Int
    BY ArgumentTypes
  <2>11. quantum_times'[n] = sgx_table[n].sgx_time + SumFunctionOnSet(Time, Seen(n) \cup {j})
    BY SMTT(20), <1>6, <2>5, <2>7, <2>8, <2>9, <2>10
  <2>12. tier_active_nodes'[n] = Cardinality(Seen(n) \cup {j}) + 1
    BY <1>6, <2>6, <2>7, <2>9
  <2> QED
    BY Zenon, <2>1, <2>11, <2>12
<1>8. CASE ~(n = i /\ Counts(j, i))
  <2>1. Seen(n)' = Seen(n)
    BY ZenonT(60), <1>1, <1>4, <1>5, <1>8 DEF Seen, Peers
  <2>2. quantum_times'[n] = quantum_times[n] /\ tier_active_nodes'[n] = tier_active_nodes[n]
    BY <1>1, <1>8, <1>t
  <2> QED
    BY Zenon, <1>6, <2>1, <2>2
<1> QED
  BY <1>7, <1>8

LEMMA DivideExact ==
  ASSUME TypeOK, Summing, Divide
  PROVE  \A n \in Node : quantum_times'[n] = QuantumOf(n)'
<1> SUFFICES ASSUME NEW n \in Node PROVE quantum_times'[n] = QuantumOf(n)'
  BY Zenon
<1>1. /\ i = N /\ sgx_table' = sgx_table
      /\ quantum_times' = [m \in Node |->
           CeilDiv(quantum_times[m], tier_active_nodes[m] * tier_active_nodes[m])]
  BY DEF Divide, arguments
<1>2. n < i
  BY <1>1 DEF Node
<1>3. Seen(n) = Peers(n)
  BY Zenon, <1>2 DEF Seen
<1>4. /\ quantum_times[n] = sgx_table[n].sgx_time + SumFunctionOnSet(Time, Peers(n))
      /\ tier_active_nodes[n] = Cardinality(Peers(n)) + 1
  BY Zenon, <1>3 DEF Summing
<1>5. QuantumOf(n) = CeilDiv(sgx_table[n].sgx_time + SumFunctionOnSet(Time, Peers(n)),
                             (Cardinality(Peers(n)) + 1) * (Cardinality(Peers(n)) + 1))
  BY Zenon DEF QuantumOf, Peers, Time
<1>6. QuantumOf(n)' = QuantumOf(n)
  BY Zenon, <1>1 DEF QuantumOf, Counts, calc_tier_number
<1> QED
  BY Zenon, <1>1, <1>4, <1>5, <1>6

(* What a turn does to the queue and to the counts. *)
Shifted ==
  \A y \in 1..Len(q') :
    \/ /\ y < Len(q) /\ y + 1 \in 1..Len(q)
       /\ q'[y] = q[y + 1] /\ q'[y] # q[1]
       /\ repetitions'[q'[y]] = repetitions[q[y + 1]]
    \/ /\ y = Len(q) /\ q'[y] = q[1]
       /\ repetitions'[q'[y]] = repetitions[q[1]] + 1
       /\ remaining_quantum_time(q[1], repetitions[q[1]] + 1) > 0

Moved ==
  /\ 1 \in 1..Len(q) /\ q[1] \in Node
  /\ UNCHANGED <<queue, node_id, quantum_times, sgx_table>>
  /\ repetitions'[q[1]] = repetitions[q[1]] + 1
  /\ \A n \in Node : n # q[1] => repetitions'[n] = repetitions[n]
  /\ \A y \in 1..Len(q) : y = 1 \/ (y - 1 \in 1..Len(q') /\ q'[y - 1] = q[y])
  /\ remaining_quantum_time(q[1], repetitions[q[1]] + 1) > 0 =>
       \E y \in 1..Len(q') : q'[y] = q[1]

LEMMA TurnMoves ==
  ASSUME TypeOK, Turn, Once_q
  PROVE  Shifted /\ Moved
<1> DEFINE u == Head(q)
           n == Len(q)
           more == remaining_quantum_time(q[1], repetitions[q[1]] + 1) > 0
<1>1. q \in Seq(Node) /\ q # <<>> /\ repetitions \in [Node -> Nat]
  BY DEF TypeOK, Turn
<1>2. /\ u \in Node /\ u = q[1] /\ n \in Nat /\ n >= 1
      /\ Tail(q) \in Seq(Node) /\ Len(Tail(q)) = n - 1
      /\ \A k \in 1..(n - 1) : Tail(q)[k] = q[k + 1]
  BY <1>1, HeadTailOf
<1>3. \A k \in 1..n : q[k] \in Node /\ repetitions[q[k]] \in Nat
  BY <1>1
<1>4. /\ repetitions' = [repetitions EXCEPT ![u] = @ + 1]
      /\ q' = IF more THEN Append(Tail(q), u) ELSE Tail(q)
      /\ UNCHANGED <<queue, node_id, quantum_times, sgx_table>>
  BY Zenon, <1>2 DEF Turn, arguments, quanta
<1> HIDE DEF more
<1>5. /\ repetitions'[q[1]] = repetitions[q[1]] + 1
      /\ \A m \in Node : m # q[1] => repetitions'[m] = repetitions[m]
  BY <1>1, <1>2, <1>4
<1>6. \A k \in 1..(n - 1) : k + 1 \in 1..n /\ q[k + 1] # q[1] /\ q[k + 1] \in Node
  <2> SUFFICES ASSUME NEW k \in 1..(n - 1)
               PROVE  k + 1 \in 1..n /\ q[k + 1] # q[1] /\ q[k + 1] \in Node
    OBVIOUS
  <2>1. k + 1 \in 1..n /\ 1 \in 1..n /\ k + 1 # 1
    BY <1>2
  <2> QED
    BY <1>3, <2>1 DEF Once_q
<1>7. /\ Len(q') = IF more THEN n ELSE n - 1
      /\ \A k \in 1..(n - 1) : q'[k] = q[k + 1]
      /\ more => q'[n] = q[1]
  <2>1. CASE more
    <3>1. q' = Append(Tail(q), u)
      BY <1>4, <2>1
    <3> QED
      BY <1>2, <2>1, <3>1
  <2>2. CASE ~more
    BY <1>2, <1>4, <2>2
  <2> QED
    BY <2>1, <2>2
<1> HIDE DEF n
<1>8. Shifted
  <2> SUFFICES ASSUME NEW y \in 1..Len(q')
               PROVE
                 \/ /\ y < n /\ y + 1 \in 1..n
                    /\ q'[y] = q[y + 1] /\ q'[y] # q[1]
                    /\ repetitions'[q'[y]] = repetitions[q[y + 1]]
                 \/ /\ y = n /\ q'[y] = q[1]
                    /\ repetitions'[q'[y]] = repetitions[q[1]] + 1
                    /\ more
    BY DEF Shifted, n, more
  <2>1. y \in 1..(n - 1) \/ (more /\ y = n)
    BY <1>2, <1>7
  <2>2. CASE y \in 1..(n - 1)
    <3>1. y < n /\ y + 1 \in 1..n
      BY <1>2, <2>2
    <3> QED
      BY <1>5, <1>6, <1>7, <2>2, <3>1
  <2>3. CASE more /\ y = n
    BY <1>5, <1>7, <2>3
  <2> QED
    BY <2>1, <2>2, <2>3
<1>9. \A y \in 1..n : y = 1 \/ (y - 1 \in 1..Len(q') /\ q'[y - 1] = q[y])
  <2> SUFFICES ASSUME NEW y \in 1..n, y # 1
               PROVE  y - 1 \in 1..Len(q') /\ q'[y - 1] = q[y]
    OBVIOUS
  <2>1. y - 1 \in 1..(n - 1) /\ y - 1 + 1 = y
    BY <1>2
  <2> QED
    BY <1>2, <1>7, <2>1
<1>10. more => \E y \in 1..Len(q') : q'[y] = q[1]
  BY <1>2, <1>7
<1>11. 1 \in 1..n
  BY <1>2
<1> QED
  BY Zenon, <1>2, <1>4, <1>5, <1>8, <1>9, <1>10, <1>11 DEF Moved, n, more

(* The head that goes to the back of q is later there than who has had as many
   turns by then only if it is later in queue. *)
LEMMA TurnRounds ==
  ASSUME TypeOK, Turn, Once, Once_q, Rising, InRounds
  PROVE  InRounds'
<1>1. Shifted /\ Moved
  BY Zenon, TurnMoves
<1>t. /\ q \in Seq(Node) /\ queue \in Seq(Node) /\ node_id \in Node
      /\ repetitions \in [Node -> Nat]
  BY SMTT(20), ArgumentTypes DEF TypeOK
<1>m. \A y \in 1..Len(q') : y < Len(q) => /\ y + 1 \in 1..Len(q) /\ q'[y] = q[y + 1]
                                         /\ repetitions'[q'[y]] = repetitions[q[y + 1]]
  <2>1. \A y \in 1..Len(q') : y < Len(q) => y # Len(q)
    BY <1>t
  <2> QED
    BY Zenon, <1>1, <2>1 DEF Shifted
<1>2. /\ 1 \in 1..Len(q) /\ q[1] \in Node /\ queue' = queue /\ node_id' = node_id
      /\ repetitions'[q[1]] = repetitions[q[1]] + 1
      /\ \A n \in Node : n # q[1] => repetitions'[n] = repetitions[n]
  BY <1>1 DEF Moved
<1>3. \A y \in 1..Len(q) : repetitions[q[y]] \in Nat
  BY SMTT(20), <1>t
<1>4. \A y \in 1..Len(q) : repetitions[q[1]] <= repetitions[q[y]]
                           /\ repetitions[q[y]] <= repetitions[q[1]] + 1
  <2>1. \A y \in 1..Len(q) : 1 <= y
    OBVIOUS
  <2> QED
    BY Zenon, <1>2, <2>1 DEF Rising
<1>5. \A y, z \in 1..Len(q), a, b \in 1..Len(queue) :
        y < z /\ queue[a] = q[y] /\ queue[b] = q[z] =>
          IF repetitions[q[y]] = repetitions[q[z]] THEN a < b ELSE b < a
  BY Zenon DEF InRounds, At, Turns
<1>6. \A y \in 1..Len(q'), a \in 1..Len(queue) :
        (y < Len(q) /\ queue[a] = q'[y]) =>
          IF repetitions[q[1]] = repetitions'[q'[y]]
          THEN \A b \in 1..Len(queue) : queue[b] = q[1] => b < a
          ELSE /\ repetitions'[q'[y]] = repetitions[q[1]] + 1
               /\ \A b \in 1..Len(queue) : queue[b] = q[1] => a < b
  <2> SUFFICES ASSUME NEW y \in 1..Len(q'), NEW a \in 1..Len(queue), y < Len(q),
                      queue[a] = q'[y]
               PROVE  IF repetitions[q[1]] = repetitions'[q'[y]]
                      THEN \A b \in 1..Len(queue) : queue[b] = q[1] => b < a
                      ELSE /\ repetitions'[q'[y]] = repetitions[q[1]] + 1
                           /\ \A b \in 1..Len(queue) : queue[b] = q[1] => a < b
    BY Zenon
  <2>1. /\ y + 1 \in 1..Len(q) /\ q'[y] = q[y + 1]
        /\ repetitions'[q'[y]] = repetitions[q[y + 1]]
    BY Zenon, <1>m
  <2>2. 1 < y + 1
    OBVIOUS
  <2>3. \A b \in 1..Len(queue) : queue[b] = q[1] =>
          IF repetitions[q[1]] = repetitions[q[y + 1]] THEN b < a ELSE a < b
    <3>1. queue[a] = q[y + 1] /\ 1 \in 1..Len(q) /\ y + 1 \in 1..Len(q)
      BY Zenon, <1>2, <2>1
    <3>2. \A z \in 1..Len(q), c, d \in 1..Len(queue) :
            1 < z /\ queue[c] = q[1] /\ queue[d] = q[z] =>
              IF repetitions[q[1]] = repetitions[q[z]] THEN c < d ELSE d < c
      BY Zenon, <1>5, <3>1
    <3> SUFFICES ASSUME NEW b \in 1..Len(queue), queue[b] = q[1]
                 PROVE  IF repetitions[q[1]] = repetitions[q[y + 1]] THEN b < a ELSE a < b
      BY Zenon
    <3> QED
      BY Zenon, <2>2, <3>1, <3>2
  <2>4. repetitions[q[y + 1]] = repetitions[q[1]] \/ repetitions[q[y + 1]] = repetitions[q[1]] + 1
    <3>1. repetitions[q[1]] \in Nat /\ repetitions[q[y + 1]] \in Nat
      BY <1>2, <1>3, <2>1
    <3>2. /\ repetitions[q[1]] <= repetitions[q[y + 1]]
          /\ repetitions[q[y + 1]] <= repetitions[q[1]] + 1
      BY <1>4, <2>1
    <3> QED
      BY <3>1, <3>2
  <2> QED
    BY Zenon, <2>1, <2>3, <2>4
<1>7. \A y \in 1..Len(q') : \E a \in 1..Len(queue) : queue[a] = q'[y]
  <2> SUFFICES ASSUME NEW y \in 1..Len(q') PROVE \E a \in 1..Len(queue) : queue[a] = q'[y]
    OBVIOUS
  <2>1. \E z \in 1..Len(q) : q'[y] = q[z]
    BY <1>1, <1>2 DEF Shifted
  <2> QED
    BY Zenon, <2>1 DEF InRounds, At
<1>8. ASSUME NEW y \in 1..Len(q'), NEW z \in 1..Len(q'), NEW a \in 1..Len(queue),
             NEW b \in 1..Len(queue), y < z, queue[a] = q'[y], queue[b] = q'[z]
      PROVE  IF repetitions'[q'[y]] = repetitions'[q'[z]] THEN a < b ELSE b < a
  <2>1. CASE z < Len(q)
    <3>0. Len(q) \in Nat /\ y \in Int /\ z \in Int
      BY <1>t
    <3>1. y < Len(q) /\ y + 1 < z + 1
      BY <1>8, <2>1, <3>0
    <3>2. /\ y + 1 \in 1..Len(q) /\ q'[y] = q[y + 1]
          /\ repetitions'[q'[y]] = repetitions[q[y + 1]]
          /\ z + 1 \in 1..Len(q) /\ q'[z] = q[z + 1]
          /\ repetitions'[q'[z]] = repetitions[q[z + 1]]
      BY Zenon, <1>m, <2>1, <3>1
    <3>3. queue[a] = q[y + 1] /\ queue[b] = q[z + 1]
      BY Zenon, <1>8, <3>2
    <3>4. y + 1 \in 1..Len(q) /\ z + 1 \in 1..Len(q) /\ y + 1 < z + 1
      BY Zenon, <3>1, <3>2
    <3>5. IF repetitions[q[y + 1]] = repetitions[q[z + 1]] THEN a < b ELSE b < a
      BY Zenon, <1>5, <3>3, <3>4
    <3> QED
      BY Zenon, <3>2, <3>5
  <2>2. CASE z = Len(q)
    <3>1. y < Len(q) /\ ~(z < Len(q))
      BY <1>8, <1>t, <2>2
    <3>2. q'[z] = q[1] /\ repetitions'[q'[z]] = repetitions[q[1]] + 1
      BY Zenon, <1>1, <3>1 DEF Shifted
    <3>3. repetitions[q[1]] # repetitions[q[1]] + 1
      BY <1>2, <1>3
    <3> QED
      BY Zenon, <1>6, <1>8, <3>1, <3>2, <3>3
  <2> QED
    BY Zenon, <1>1, <2>1, <2>2 DEF Shifted
<1>9. ASSUME NEW y \in 1..Len(q'), NEW a \in 1..Len(queue), queue[a] = q'[y],
             NEW k \in 1..Len(queue), queue[k] = node_id
      PROVE  repetitions'[node_id] <= repetitions'[q'[y]] + (IF a <= k THEN 0 ELSE 1)
  <2>0. \A z \in 1..Len(q) : queue[a] = q[z] =>
          repetitions[node_id] <= repetitions[q[z]] + (IF a <= k THEN 0 ELSE 1)
    BY Zenon, <1>9 DEF InRounds, At, Turns
  <2>n. repetitions[node_id] \in Nat /\ repetitions[q[1]] \in Nat
    BY <1>t, <1>2
  <2>1. CASE node_id = q[1] /\ y < Len(q)
    <3>1. repetitions'[node_id] = repetitions[q[1]] + 1
      BY <1>2, <2>1
    <3>2. IF repetitions[q[1]] = repetitions'[q'[y]] THEN k < a
          ELSE repetitions'[q'[y]] = repetitions[q[1]] + 1
      BY Zenon, <1>6, <1>9, <2>1
    <3> QED
      BY <2>n, <3>1, <3>2
  <2>2. CASE node_id # q[1] /\ y < Len(q)
    <3>1. /\ y + 1 \in 1..Len(q) /\ q'[y] = q[y + 1]
          /\ repetitions'[q'[y]] = repetitions[q[y + 1]]
      BY Zenon, <1>m, <2>2
    <3>2. repetitions'[node_id] = repetitions[node_id]
      BY <1>2, <1>t, <2>2
    <3> QED
      BY Zenon, <1>9, <2>0, <3>1, <3>2
  <2>3. CASE y = Len(q)
    <3>1. q'[y] = q[1] /\ repetitions'[q'[y]] = repetitions[q[1]] + 1
      BY <1>1, <2>3 DEF Shifted
    <3>2. repetitions[node_id] <= repetitions[q[1]] + (IF a <= k THEN 0 ELSE 1)
      BY Zenon, <1>2, <1>9, <2>0, <3>1
    <3>3. repetitions'[node_id] <= repetitions[q[1]] + 1
      <4>1. CASE node_id = q[1]
        BY <1>2, <2>n, <4>1
      <4>2. CASE node_id # q[1]
        BY <1>2, <1>t, <2>n, <3>2, <4>2
      <4> QED
        BY <4>1, <4>2
    <3>5. repetitions'[node_id] \in Nat
      BY SMTT(20), <1>2, <1>t, <2>n
    <3> QED
      BY <2>n, <3>1, <3>3, <3>5
  <2> QED
    BY Zenon, <1>1, <2>1, <2>2, <2>3 DEF Shifted
<1> QED
  BY Zenon, <1>2, <1>7, <1>8, <1>9 DEF InRounds, At, Turns

(* A node has a slice in its next turn if some of its stay is left. *)
LEMMA StayOver ==
  ASSUME TypeOK, NEW n \in Node, NEW r \in Nat
  PROVE  IF r * quantum_times[n] < sgx_table[n].sgx_time
         THEN remaining_quantum_time(n, r) > 0
         ELSE remaining_quantum_time(n, r) = 0
<1> DEFINE p == r * quantum_times[n]
           t == quantum_times[n]
           s == sgx_table[n].sgx_time
<1>1. p \in Nat /\ t \in Nat \ {0} /\ s \in Nat
  <2>1. t \in Nat \ {0}
    BY DEF TypeOK
  <2> QED
    BY <2>1, ArgumentTypes
<1> HIDE DEF p, t, s
<1>2. IF p < s THEN Least(t, Most(s - p, 0)) > 0 ELSE Least(t, Most(s - p, 0)) = 0
  BY <1>1 DEF Least, Most
<1> QED
  BY <1>2 DEF p, t, s, remaining_quantum_time

LEMMA TurnStays ==
  ASSUME TypeOK, Turn, Once_q, StaysLeft
  PROVE  StaysLeft'
<1>1. Shifted /\ Moved
  BY Zenon, TurnMoves
<1>t. /\ q \in Seq(Node) /\ queue \in Seq(Node) /\ repetitions \in [Node -> Nat]
  BY SMTT(20), ArgumentTypes DEF TypeOK
<1>2. /\ 1 \in 1..Len(q) /\ q[1] \in Node /\ queue' = queue
      /\ quantum_times' = quantum_times /\ sgx_table' = sgx_table
      /\ repetitions'[q[1]] = repetitions[q[1]] + 1
      /\ \A n \in Node : n # q[1] => repetitions'[n] = repetitions[n]
      /\ repetitions[q[1]] + 1 \in Nat
  BY <1>1, <1>t DEF Moved
<1> DEFINE over(n, r) == ~(r * quantum_times[n] < sgx_table[n].sgx_time)
<1>3. IF remaining_quantum_time(q[1], repetitions[q[1]] + 1) > 0
      THEN ~over(q[1], repetitions[q[1]] + 1) ELSE over(q[1], repetitions[q[1]] + 1)
  <2>1. ~(0 > 0)
    OBVIOUS
  <2> QED
    BY Zenon, <1>2, <2>1, StayOver
<1>4. /\ \A y \in 1..Len(q) : ~over(q[y], repetitions[q[y]])
      /\ \A a \in 1..Len(queue) : (\A y \in 1..Len(q) : queue[a] # q[y]) =>
           over(queue[a], repetitions[queue[a]])
  <2>1. \A a \in 1..Len(queue) : queue[a] \in Node
    BY <1>t
  <2>2. \A n \in Node : repetitions[n] * quantum_times[n] \in Int /\ sgx_table[n].sgx_time \in Int
    BY SMTT(20), ArgumentTypes DEF TypeOK
  <2>3. \A n \in Node : repetitions[n] * quantum_times[n] >= sgx_table[n].sgx_time =>
          over(n, repetitions[n])
    <3> SUFFICES ASSUME NEW n \in Node
                 PROVE  repetitions[n] * quantum_times[n] >= sgx_table[n].sgx_time =>
                          over(n, repetitions[n])
      BY Zenon
    <3> DEFINE p == repetitions[n] * quantum_times[n]
               s == sgx_table[n].sgx_time
    <3>1. p \in Int /\ s \in Int
      BY <2>2
    <3> HIDE DEF p, s
    <3>2. p >= s => ~(p < s)
      BY <3>1
    <3> QED
      BY Zenon, <3>2 DEF p, s
  <2> QED
    BY Zenon, <2>1, <2>3 DEF StaysLeft, At, Turns
<1> SUFFICES /\ \A y \in 1..Len(q') : ~over(q'[y], repetitions'[q'[y]])
             /\ \A a \in 1..Len(queue) : (\A y \in 1..Len(q') : queue[a] # q'[y]) =>
                  over(queue[a], repetitions'[queue[a]])
  <2>0. \A n \in Node : repetitions'[n] \in Nat
    <3>1. \A n \in Node : repetitions[n] \in Nat
      BY <1>t
    <3> QED
      BY Zenon, <1>2, <3>1
  <2>1. \A a \in 1..Len(queue) : queue[a] \in Node /\ repetitions'[queue[a]] \in Nat
    <3>1. \A a \in 1..Len(queue) : queue[a] \in Node
      BY SMTT(20), <1>t
    <3> QED
      BY Zenon, <2>0, <3>1
  <2>2. \A n \in Node : quantum_times[n] \in Nat /\ sgx_table[n].sgx_time \in Nat
    BY SMTT(20), ArgumentTypes DEF TypeOK
  <2>3. \A a \in 1..Len(queue) : over(queue[a], repetitions'[queue[a]]) =>
          repetitions'[queue[a]] * quantum_times[queue[a]] >= sgx_table[queue[a]].sgx_time
    <3> TAKE a \in 1..Len(queue)
    <3> DEFINE p == repetitions'[queue[a]] * quantum_times[queue[a]]
               s == sgx_table[queue[a]].sgx_time
    <3>1. p \in Int /\ s \in Int
      BY <2>1, <2>2
    <3> HIDE DEF p, s
    <3>2. ~(p < s) => p >= s
      BY <3>1
    <3> QED
      BY Zenon, <3>2 DEF p, s
  <2> QED
    BY Zenon, <1>2, <2>3 DEF StaysLeft, At, Turns
<1> HIDE DEF over
<1>5. ASSUME NEW y \in 1..Len(q') PROVE ~over(q'[y], repetitions'[q'[y]])
  BY Zenon, <1>1, <1>3, <1>4 DEF Shifted
<1>6. ASSUME NEW a \in 1..Len(queue), \A y \in 1..Len(q') : queue[a] # q'[y]
      PROVE  over(queue[a], repetitions'[queue[a]])
  <2>1. CASE queue[a] = q[1]
    BY Zenon, <1>1, <1>2, <1>3, <1>6, <2>1 DEF Moved
  <2>2. CASE queue[a] # q[1]
    <3>1. \A y \in 1..Len(q) : queue[a] # q[y]
      BY ZenonT(40), <1>1, <1>6, <2>2 DEF Moved
    <3>2. queue[a] \in Node
      BY <1>t
    <3> QED
      BY Zenon, <1>2, <1>4, <2>2, <3>1, <3>2
  <2> QED
    BY <2>1, <2>2
<1> QED
  BY Zenon, <1>5, <1>6

(* Quanta are at least 1, so that a node has fewer turns than SgxMax. *)
LEMMA ProductLarger ==
  ASSUME NEW r \in Nat, NEW t \in Nat \ {0}
  PROVE  r <= r * t
OBVIOUS

LEMMA SliceType ==
  ASSUME TypeOK, NEW k \in 1..Len(queue)
  PROVE  /\ IsFiniteSet(Pairs) /\ IsFiniteSet(Played) /\ Played \subseteq Pairs
         /\ \A x \in Pairs :
              /\ x[1] \in 1..Len(queue) /\ x[2] \in 0..SgxMax
              /\ queue[x[1]] \in Node /\ x[2] \in Nat
              /\ Left(Round(k, x)) \in Nat /\ Slice(k)[x] \in Nat
<1>1. IsFiniteSet(1..Len(queue)) /\ IsFiniteSet(0..SgxMax)
  BY FS_Interval, ArgumentTypes
<1>2. IsFiniteSet(Pairs)
  BY Zenon, <1>1, FS_Product DEF Pairs
<1>3. Played \subseteq Pairs
  BY DEF Played
<1>4. IsFiniteSet(Played)
  BY Zenon, <1>2, <1>3, FS_Subset
<1>5. ASSUME NEW x \in Pairs
      PROVE  /\ x[1] \in 1..Len(queue) /\ x[2] \in 0..SgxMax
             /\ queue[x[1]] \in Node /\ x[2] \in Nat
             /\ Left(Round(k, x)) \in Nat /\ Slice(k)[x] \in Nat
  <2>1. x[1] \in 1..Len(queue) /\ x[2] \in 0..SgxMax
    BY DEF Pairs
  <2>2. queue[x[1]] \in Node /\ x[2] \in Nat
    BY <2>1, ArgumentTypes
  <2>3. Round(k, x) \in Nat
    BY <2>1 DEF Round
  <2>4. Round(k, x) * quantum_times[node_id] \in Nat /\ Me.time_left \in Nat
    <3>1. quantum_times[node_id] \in Nat /\ Me.time_left \in Nat
      BY ArgumentTypes DEF TypeOK, Me
    <3> QED
      BY <2>3, <3>1
  <2>5. Left(Round(k, x)) \in Nat
    <3> DEFINE p == Round(k, x) * quantum_times[node_id]
               t == Me.time_left
    <3>1. p \in Nat /\ t \in Nat
      BY <2>4
    <3> HIDE DEF p, t
    <3>2. Most(t - p, 0) \in Nat
      BY <3>1 DEF Most
    <3> QED
      BY Zenon, <3>2 DEF Left, p, t
  <2>6. remaining_quantum_time(queue[x[1]], x[2]) \in Nat
    BY Zenon, <2>2, RemainingType
  <2>7. Slice(k)[x] = Least(remaining_quantum_time(queue[x[1]], x[2]), Left(Round(k, x)))
    BY Zenon DEF Slice
  <2>8. \A a, b \in Nat : Least(a, b) \in Nat
    BY DEF Least
  <2> QED
    BY Zenon, <2>1, <2>2, <2>5, <2>6, <2>7, <2>8
<1> QED
  BY Zenon, <1>2, <1>3, <1>4, <1>5

(* The turn of the node at position a is its turn of the round that the table
   of slices has for it, and its slice is the entry there. *)
LEMMA TurnAdds ==
  ASSUME LInv, Turn, Once, Once_q, Rising, InRounds, StaysLeft, Adding
  PROVE  Adding'
<1>1. TypeOK
  BY DEF LInv
<1>2. Shifted /\ Moved
  BY Zenon, <1>1, TurnMoves
<1>t. /\ q \in Seq(Node) /\ queue \in Seq(Node) /\ node_id \in Node
      /\ repetitions \in [Node -> Nat] /\ quantum_times \in [Node -> Nat \ {0}]
      /\ remaining_time \in Int /\ accumulated_time \in Nat
  BY SMTT(20), <1>1, ArgumentTypes DEF TypeOK
<1> DEFINE r == repetitions[q[1]]
<1>3. /\ 1 \in 1..Len(q) /\ q[1] \in Node /\ r \in Nat
      /\ queue' = queue /\ node_id' = node_id
      /\ quantum_times' = quantum_times /\ sgx_table' = sgx_table
      /\ repetitions'[q[1]] = r + 1
      /\ \A n \in Node : n # q[1] => repetitions'[n] = repetitions[n]
  BY <1>2, <1>t DEF Moved
<1>4. /\ pc = "turns" /\ remaining_time > 0
      /\ accumulated_time' =
           accumulated_time + Least(remaining_quantum_time(q[1], r), remaining_time)
  <2>1. q # <<>>
    BY DEF Turn
  <2>2. Head(q) = q[1]
    BY <1>t, <2>1, HeadTailOf
  <2> QED
    BY Zenon, <2>2 DEF Turn
<1> SUFFICES ASSUME NEW k \in 1..Len(queue), queue[k] = node_id
             PROVE  accumulated_time' = SumFunctionOnSet(Slice(k)', Played')
  BY Zenon, <1>3 DEF Adding
<1>5. PICK a \in 1..Len(queue) : queue[a] = q[1]
  BY Zenon, <1>3 DEF InRounds, At
<1>6. r < SgxMax
  <2>1. r * quantum_times[q[1]] < sgx_table[q[1]].sgx_time
    BY Zenon, <1>3 DEF StaysLeft, Turns
  <2>2. sgx_table[q[1]].sgx_time \in 1..SgxMax
    <3>1. sgx_table[q[1]] \in Entry
      BY <1>1, <1>3, ArgumentTypes
    <3> QED
      BY <3>1 DEF Entry
  <2>3. quantum_times[q[1]] \in Nat \ {0}
    BY <1>3, <1>t
  <2>4. r <= r * quantum_times[q[1]]
    BY <1>3, <2>3, ProductLarger
  <2>5. r * quantum_times[q[1]] \in Nat
    BY <1>3, <2>3
  <2> DEFINE p == r * quantum_times[q[1]]
             s == sgx_table[q[1]].sgx_time
  <2> HIDE DEF r, p, s
  <2>6. r <= p /\ p < s /\ s \in 1..SgxMax /\ p \in Nat
    BY Zenon, <2>1, <2>2, <2>4, <2>5 DEF p, s
  <2> QED
    BY <1>3, <2>6
<1> DEFINE x == <<a, r>>
<1>7. x \in Pairs /\ x[1] = a /\ x[2] = r
  BY <1>3, <1>5, <1>6 DEF Pairs
<1>8. x \notin Played
  BY <1>3, <1>5, <1>7 DEF Played
<1>9. Played' = Played \cup {x}
  <2>1. Pairs' = Pairs
    BY Zenon, <1>3 DEF Pairs
  <2>2. ASSUME NEW p \in Pairs
        PROVE  p[2] < repetitions'[queue[p[1]]] <=> p[2] < repetitions[queue[p[1]]] \/ p = x
    <3>0. p[1] \in 1..Len(queue) /\ p[2] \in 0..SgxMax /\ p = <<p[1], p[2]>>
      BY DEF Pairs
    <3>1. p[1] \in 1..Len(queue) /\ p[2] \in Nat /\ p = <<p[1], p[2]>> /\ queue[p[1]] \in Node
      BY <1>t, <3>0
    <3>2. CASE p[1] = a
      <4>1. p = x <=> p[2] = r
        BY <3>1, <3>2
      <4>2. repetitions'[queue[p[1]]] = r + 1 /\ repetitions[queue[p[1]]] = r
        BY Zenon, <1>3, <1>5, <3>2
      <4>3. \A c, d \in Nat : c < d + 1 <=> (c < d \/ c = d)
        OBVIOUS
      <4> HIDE DEF r, x
      <4>4. p[2] < r + 1 <=> (p[2] < r \/ p[2] = r)
        BY Zenon, <1>3, <3>1, <4>3
      <4> QED
        BY Zenon, <4>1, <4>2, <4>4
    <3>3. CASE p[1] # a
      <4>1. p # x
        BY <3>3
      <4>2. queue[p[1]] # q[1]
        <5>1. DOMAIN queue = 1..Len(queue)
          BY <1>t
        <5> QED
          BY Zenon, <1>5, <3>1, <3>3, <5>1 DEF Once
      <4> QED
        BY Zenon, <1>3, <3>1, <4>1, <4>2
    <3> QED
      BY <3>2, <3>3
  <2>3. Played' = {p \in Pairs : p[2] < repetitions'[queue[p[1]]]}
    BY Zenon, <1>3, <2>1 DEF Played
  <2> HIDE DEF x
  <2> QED
    BY Zenon, <1>7, <2>2, <2>3 DEF Played
<1>10. Slice(k)' = Slice(k)
  BY Zenon, <1>3 DEF Slice, Pairs, Left, Round, Me, remaining_quantum_time
<1>11. repetitions[node_id] = Round(k, x)
  <2>1. Occurs(queue)
    <3>1. DOMAIN queue = 1..Len(queue)
      BY <1>t
    <3> QED
      BY Zenon, <3>1 DEF Occurs
  <2>2. Occurs(q)
    BY Zenon, <1>4, <2>1 DEF LInv, InPlay
  <2>3. PICK z \in 1..Len(q) : q[z] = node_id
    <3>1. DOMAIN q = 1..Len(q)
      BY <1>t
    <3> QED
      BY Zenon, <2>2, <3>1 DEF Occurs
  <2>4. CASE z = 1
    <3>1. a = k
      <4>1. DOMAIN queue = 1..Len(queue)
        BY <1>t
      <4> QED
        BY Zenon, <1>5, <2>3, <2>4, <4>1 DEF Once
    <3>2. a <= k
      BY <3>1
    <3> QED
      BY Zenon, <1>7, <2>3, <2>4, <3>2 DEF Round
  <2>5. CASE z # 1
    <3>1. 1 < z /\ 1 <= z
      BY <2>5
    <3>2. IF r = repetitions[node_id] THEN a < k ELSE k < a
      <4>1. \A y, z1 \in 1..Len(q), b, c \in 1..Len(queue) :
              y < z1 /\ queue[b] = q[y] /\ queue[c] = q[z1] =>
                IF repetitions[q[y]] = repetitions[q[z1]] THEN b < c ELSE c < b
        BY Zenon DEF InRounds, At, Turns
      <4> QED
        BY SMTT(30), <1>3, <1>5, <2>3, <3>1, <4>1
    <3>3. r <= repetitions[node_id] /\ repetitions[node_id] <= r + 1
      BY Zenon, <1>3, <2>3, <3>1 DEF Rising
    <3>4. repetitions[node_id] \in Nat
      BY <1>t
    <3> HIDE DEF r, x
    <3> QED
      BY <1>3, <1>7, <3>2, <3>3, <3>4 DEF Round
  <2> QED
    BY <2>4, <2>5
<1>12. Slice(k)[x] = Least(remaining_quantum_time(q[1], r), remaining_time)
  <2>1. Left(Round(k, x)) = remaining_time
    BY Zenon, <1>4, <1>11 DEF LInv, Own, Left
  <2>2. Slice(k)[x] = Least(remaining_quantum_time(queue[x[1]], x[2]), Left(Round(k, x)))
    BY Zenon, <1>7 DEF Slice
  <2> HIDE DEF x
  <2> QED
    BY Zenon, <1>5, <1>7, <2>1, <2>2
<1>13. /\ IsFiniteSet(Played) /\ \A p \in Pairs : Slice(k)[p] \in Nat
       /\ Played \subseteq Pairs
  BY Zenon, <1>1, SliceType
<1>14. \A p \in Played \cup {x} : Slice(k)[p] \in Int
  BY <1>7, <1>13
<1> HIDE DEF x
<1>15. SumFunctionOnSet(Slice(k), Played \cup {x}) =
         SumFunctionOnSet(Slice(k), Played) + Slice(k)[x]
  BY Zenon, <1>8, <1>13, <1>14, SumAdd
<1>16. accumulated_time = SumFunctionOnSet(Slice(k), Played)
  BY Zenon DEF Adding
<1> QED
  BY Zenon, <1>4, <1>9, <1>10, <1>12, <1>15, <1>16

(* The loop ends when the slices of the turns that are not over are all 0. *)
LEMMA FinishAdds ==
  ASSUME LInv, pc = "turns", q = <<>> \/ remaining_time <= 0, Once, InRounds, StaysLeft,
         Adding, NEW k \in 1..Len(queue), queue[k] = node_id
  PROVE  accumulated_time = SumFunction(Slice(k))
<1>1. TypeOK
  BY DEF LInv
<1>t. /\ q \in Seq(Node) /\ queue \in Seq(Node) /\ node_id \in Node
      /\ repetitions \in [Node -> Nat] /\ quantum_times \in [Node -> Nat \ {0}]
      /\ remaining_time \in Int
  BY ZenonT(60), <1>1, ArgumentTypes DEF TypeOK
<1>2. ASSUME NEW x \in Pairs, x \notin Played PROVE Slice(k)[x] = 0
  <2>1. /\ x[1] \in 1..Len(queue) /\ x[2] \in 0..SgxMax
        /\ queue[x[1]] \in Node /\ x[2] \in Nat
        /\ Left(Round(k, x)) \in Nat /\ Slice(k)[x] \in Nat
    BY Zenon, <1>1, SliceType
  <2> DEFINE n == queue[x[1]]
             turns == repetitions[n]
  <2>2. turns <= x[2] /\ turns \in Nat
    <3>1. turns \in Nat
      BY <1>t, <2>1
    <3>2. ~(x[2] < turns)
      BY Zenon, <1>2 DEF Played
    <3> HIDE DEF turns
    <3> QED
      BY SMTT(20), <2>1, <3>1, <3>2
  <2>3. Slice(k)[x] = Least(remaining_quantum_time(n, x[2]), Left(Round(k, x)))
    BY Zenon DEF Slice
  <2>4. CASE \A y \in 1..Len(q) : ~At(y, x[1])
    <3>1. turns * quantum_times[n] >= sgx_table[n].sgx_time
      BY Zenon, <2>1, <2>4 DEF StaysLeft
    <3>2. ~(x[2] * quantum_times[n] < sgx_table[n].sgx_time)
      <4> DEFINE t == quantum_times[n]
                 s == sgx_table[n].sgx_time
      <4>1. t \in Nat \ {0} /\ s \in Nat
        BY Zenon, <1>1, <1>t, <2>1, ArgumentTypes
      <4>2. turns * t >= s
        BY <3>1
      <4> HIDE DEF t, s, turns
      <4>3. \A v \in Nat : turns <= v => ~(v * t < s)
        <5> SUFFICES ASSUME NEW v \in Nat, turns <= v PROVE ~(v * t < s)
          BY Zenon
        <5>1. turns * t <= v * t /\ turns * t \in Nat /\ v * t \in Nat
          BY <2>2, <4>1
        <5> QED
          BY <4>1, <4>2, <5>1
      <4> QED
        BY Zenon, <2>1, <2>2, <4>3 DEF t, s
    <3>3. remaining_quantum_time(n, x[2]) = 0
      BY Zenon, <1>1, <2>1, <3>2, StayOver
    <3>4. \A b \in Nat : Least(0, b) = 0
      BY DEF Least
    <3> QED
      BY Zenon, <2>1, <2>3, <3>3, <3>4
  <2>5. CASE \E y \in 1..Len(q) : At(y, x[1])
    <3>1. PICK y \in 1..Len(q) : At(y, x[1])
      BY <2>5
    <3>2. q # <<>>
      BY <3>1
    <3>3. remaining_time <= 0 /\ remaining_time = Left(repetitions[node_id])
      BY Zenon, <3>2 DEF LInv, Own, Left
    <3>4. repetitions[node_id] <= turns + (IF x[1] <= k THEN 0 ELSE 1)
      BY Zenon, <2>1, <3>1 DEF InRounds, At, Turns
    <3>5. repetitions[node_id] <= Round(k, x) /\ Round(k, x) \in Nat
      <4>1. repetitions[node_id] \in Nat
        BY <1>t
      <4> HIDE DEF turns
      <4>2. CASE x[1] <= k
        <5>1. Round(k, x) = x[2] /\ repetitions[node_id] <= turns + 0
          BY Zenon, <3>4, <4>2 DEF Round
        <5> QED
          BY <2>1, <2>2, <4>1, <5>1
      <4>3. CASE ~(x[1] <= k)
        <5>1. Round(k, x) = x[2] + 1 /\ repetitions[node_id] <= turns + 1
          BY Zenon, <3>4, <4>3 DEF Round
        <5>2. \A c, t, v \in Nat : c <= t + 1 /\ t <= v => c <= v + 1 /\ v + 1 \in Nat
          OBVIOUS
        <5>3. x[2] \in Nat
          BY Zenon, <2>1
        <5>4. repetitions[node_id] <= x[2] + 1 /\ x[2] + 1 \in Nat
          BY SMTT(20), <2>2, <4>1, <5>1, <5>2, <5>3
        <5> QED
          BY Zenon, <5>1, <5>4
      <4> QED
        BY <4>2, <4>3
    <3>6. Left(Round(k, x)) = 0
      <4> DEFINE t == quantum_times[node_id]
                 s == Me.time_left
                 R == repetitions[node_id]
                 m == Round(k, x)
      <4>1. t \in Nat \ {0} /\ s \in Nat /\ R \in Nat /\ m \in Nat /\ R <= m
        BY <1>1, <1>t, <3>5, ArgumentTypes DEF Me
      <4>2. Most(s - R * t, 0) <= 0
        BY Zenon, <3>3 DEF Left
      <4> HIDE DEF t, s, R, m
      <4>3. R * t <= m * t /\ R * t \in Nat /\ m * t \in Nat
        BY <4>1
      <4>4. \A u, v \in Nat : u <= v /\ Most(s - u, 0) <= 0 => Most(s - v, 0) = 0
        BY <4>1 DEF Most
      <4>5. Most(s - m * t, 0) = 0
        BY Zenon, <4>2, <4>3, <4>4
      <4> QED
        BY Zenon, <4>5 DEF Left, t, s, m
    <3>7. remaining_quantum_time(n, x[2]) \in Nat
      BY Zenon, <1>1, <2>1, RemainingType
    <3>8. \A b \in Nat : Least(b, 0) = 0
      BY DEF Least
    <3> QED
      BY Zenon, <2>3, <3>6, <3>7, <3>8
  <2> QED
    BY <2>4, <2>5
<1>3. /\ IsFiniteSet(Pairs) /\ \A p \in Pairs : Slice(k)[p] \in Nat
      /\ Played \subseteq Pairs
  BY Zenon, <1>1, SliceType
<1>4. \A p \in Pairs : Slice(k)[p] \in Int
  BY <1>3
<1>5. Played \in SUBSET Pairs
  BY <1>3
<1>6. SumFunctionOnSet(Slice(k), Pairs) = SumFunctionOnSet(Slice(k), Played)
  BY SMT, <1>2, <1>3, <1>4, <1>5, SumSame
<1>7. DOMAIN Slice(k) = Pairs
  BY Zenon DEF Slice
<1>8. SumFunction(Slice(k)) = SumFunctionOnSet(Slice(k), Pairs)
  BY Zenon, <1>7 DEF SumFunction
<1>9. accumulated_time = SumFunctionOnSet(Slice(k), Played)
  BY Zenon DEF Adding
<1> QED
  BY Zenon, <1>6, <1>8, <1>9

(* At the first turn the queue is untouched and nothing is played. *)
Fresh ==
  /\ TypeOK /\ Once /\ q = queue
  /\ repetitions = [n \in Node |-> 0] /\ accumulated_time = 0

LEMMA RoundsStart == Fresh => InRounds /\ StaysLeft /\ Adding
<1> SUFFICES ASSUME Fresh PROVE InRounds /\ StaysLeft /\ Adding
  OBVIOUS
<1> USE DEF Fresh
<1>t. queue \in Seq(Node) /\ node_id \in Node /\ DOMAIN queue = 1..Len(queue)
  BY ArgumentTypes
<1>1. \A y \in 1..Len(queue) : queue[y] \in Node /\ repetitions[queue[y]] = 0
  BY <1>t
<1>2. InRounds
  <2>1. \A y \in 1..Len(q) : \E a \in 1..Len(queue) : At(y, a)
    BY Zenon DEF At
  <2>2. \A y \in 1..Len(q), a \in 1..Len(queue) : At(y, a) => a = y
    BY Zenon, <1>t DEF At, Once
  <2>3. \A y \in 1..Len(q) : Turns(y) = 0
    BY Zenon, <1>1 DEF Turns
  <2>4. \A y \in 1..Len(q), a \in 1..Len(queue), k \in 1..Len(queue) :
          repetitions[node_id] <= Turns(y) + (IF a <= k THEN 0 ELSE 1)
    <3>1. repetitions[node_id] = 0
      BY <1>t
    <3>2. 0 <= 0 + 0 /\ 0 <= 0 + 1
      OBVIOUS
    <3> QED
      BY Zenon, <2>3, <3>1, <3>2
  <2>5. \A y, z \in 1..Len(q), a, b \in 1..Len(queue) :
          y < z /\ At(y, a) /\ At(z, b) => IF Turns(y) = Turns(z) THEN a < b ELSE b < a
    BY Zenon, <2>2, <2>3
  <2> QED
    BY Zenon, <2>1, <2>4, <2>5 DEF InRounds
<1>3. StaysLeft
  <2>1. \A n \in Node : 0 * quantum_times[n] < sgx_table[n].sgx_time
    BY ArgumentTypes DEF TypeOK
  <2>2. \A y \in 1..Len(q) : Turns(y) * quantum_times[q[y]] < sgx_table[q[y]].sgx_time
    BY Zenon, <1>1, <2>1 DEF Turns
  <2>3. \A a \in 1..Len(queue) : \E y \in 1..Len(q) : At(y, a)
    BY Zenon DEF At
  <2> QED
    BY Zenon, <2>2, <2>3 DEF StaysLeft
<1>4. Adding
  <2>1. Played = {}
    <3>1. ASSUME NEW x \in Pairs PROVE ~(x[2] < repetitions[queue[x[1]]])
      <4>1. x[1] \in 1..Len(queue) /\ x[2] \in 0..SgxMax
        BY DEF Pairs
      <4>2. repetitions[queue[x[1]]] = 0
        BY Zenon, <1>1, <4>1
      <4> QED
        BY <4>1, <4>2
    <3> QED
      BY Zenon, <3>1 DEF Played
  <2> QED
    BY Zenon, <2>1, SumEmpty DEF Adding
<1> QED
  BY <1>2, <1>3, <1>4

(* The reference in terms of the computed quanta *)
LEMMA ReferenceSlices ==
  ASSUME NEW k \in 1..Len(queue), queue[k] = node_id, TypeOK,
         \A n \in Node : quantum_times[n] = QuantumOf(n)
  PROVE  LeadershipOf(k) = Most(SumFunction(Slice(k)) - comm_delay, 0)
<1>1. queue \in Seq(Node) /\ node_id \in Node
  BY ArgumentTypes
<1> DEFINE left(r) == Most(sgx_table[node_id].time_left - r * QuantumOf(node_id), 0)
           stay(m, r) == Least(QuantumOf(m), Most(sgx_table[m].sgx_time - r * QuantumOf(m), 0))
           slice == [x \in Pairs |-> Least(stay(queue[x[1]], x[2]), left(Round(k, x)))]
<1>2. \A r : left(r) = Left(r)
  BY Zenon, <1>1 DEF Left, Me
<1>3. \A m \in Node : \A r : stay(m, r) = remaining_quantum_time(m, r)
  BY Zenon DEF remaining_quantum_time
<1>4. \A x \in Pairs : queue[x[1]] \in Node
  BY <1>1 DEF Pairs
<1>5. LeadershipOf(k) = Most(SumFunction(slice) - comm_delay, 0)
  BY Zenon DEF LeadershipOf, Pairs, Round
<1> HIDE DEF left, stay
<1>6. slice = Slice(k)
  BY Zenon, <1>2, <1>3, <1>4 DEF Slice
<1> QED
  BY Zenon, <1>5, <1>6

LEMMA MatchInit == Init => MInv
<1> SUFFICES ASSUME Init PROVE MInv
  OBVIOUS
<1>1. Summing
  BY Zenon, SummingInit
<1>2. pc = "quanta" /\ accumulated_time = 0
  BY Zenon DEF Init
<1>3. "quanta" # "turns" /\ "quanta" # "calculated"
  OBVIOUS
<1> QED
  BY Zenon, <1>1, <1>2, <1>3 DEF MInv, MatchesReference

LEMMA MatchStep == LInv /\ RInv /\ MInv /\ [Next]_vars => MInv'
<1> SUFFICES ASSUME LInv, RInv, MInv, [Next]_vars PROVE MInv'
  OBVIOUS
<1>1. TypeOK
  BY DEF LInv
<1>s. /\ "quanta" # "turns" /\ "quanta" # "calculated" /\ "turns" # "calculated"
  OBVIOUS
<1>2. CASE Accumulate
  <2>1. pc = "quanta" /\ pc' = "quanta" /\ accumulated_time' = accumulated_time
    BY <1>2 DEF Accumulate, rounds
  <2>2. Summing'
    BY Zenon, <1>1, <1>2, <2>1, AccumulateSums DEF MInv
  <2> QED
    BY Zenon, <1>s, <2>1, <2>2 DEF MInv, MatchesReference
<1>3. CASE Divide
  <2>1. /\ pc = "quanta" /\ pc' = "turns" /\ accumulated_time' = accumulated_time
        /\ q' = q /\ queue' = queue /\ repetitions' = repetitions
    BY <1>3 DEF Divide, rounds, arguments
  <2>2. \A n \in Node : quantum_times'[n] = QuantumOf(n)'
    BY Zenon, <1>1, <1>3, <2>1, DivideExact DEF MInv
  <2>3. TypeOK'
    BY Zenon, <1>1, TypeStep DEF LInv
  <2>4. ASSUME Once' PROVE (InRounds /\ StaysLeft /\ Adding)'
    <3>1. Once
      BY Zenon, <2>1, <2>4 DEF Once
    <3>2. q = queue /\ repetitions = [n \in Node |-> 0]
      BY <2>1, <3>1 DEF RInv
    <3>3. accumulated_time = 0
      BY Zenon, <2>1 DEF MInv
    <3>4. q' = queue' /\ repetitions' = [n \in Node |-> 0] /\ accumulated_time' = 0
      BY Zenon, <2>1, <3>2, <3>3
    <3>5. Fresh'
      BY Zenon, <2>3, <2>4, <3>4 DEF Fresh
    <3> QED
      BY <3>5, RoundsStart, PTL
  <2> QED
    BY Zenon, <1>s, <2>1, <2>2, <2>4 DEF MInv, MatchesReference
<1>4. CASE Turn
  <2>1. /\ pc = "turns" /\ pc' = "turns" /\ quantum_times' = quantum_times
        /\ sgx_table' = sgx_table /\ queue' = queue
    BY <1>4 DEF Turn, arguments, quanta
  <2>2. \A n \in Node : quantum_times[n] = QuantumOf(n)
    BY Zenon, <2>1 DEF MInv
  <2>3. \A n \in Node : QuantumOf(n)' = QuantumOf(n)
    BY Zenon, <2>1 DEF QuantumOf, Counts, calc_tier_number
  <2>4. \A n \in Node : quantum_times'[n] = QuantumOf(n)'
    BY Zenon, <2>1, <2>2, <2>3
  <2>5. ASSUME Once' PROVE (InRounds /\ StaysLeft /\ Adding)'
    <3>1. Once
      BY Zenon, <2>1, <2>5 DEF Once
    <3>2. InRounds /\ StaysLeft /\ Adding
      BY Zenon, <2>1, <3>1 DEF MInv
    <3>3. Once_q /\ Rising
      BY <2>1, <3>1 DEF RInv
    <3>4. InRounds'
      BY Zenon, <1>1, <1>4, <3>1, <3>2, <3>3, TurnRounds
    <3>5. StaysLeft'
      BY Zenon, <1>1, <1>4, <3>2, <3>3, TurnStays
    <3>6. Adding'
      BY Zenon, <1>4, <3>1, <3>2, <3>3, TurnAdds
    <3> QED
      BY Zenon, <3>4, <3>5, <3>6
  <2> QED
    BY Zenon, <1>s, <2>1, <2>4, <2>5 DEF MInv, MatchesReference
<1>5. CASE Finish
  <2>1. /\ pc = "turns" /\ (q = <<>> \/ remaining_time <= 0)
        /\ pc' \in {"assert_210", "calculated"}
        /\ UNCHANGED <<quantum_times, sgx_table, queue, node_id, comm_delay>>
        /\ pc' = "calculated" => leadership_time' =
             IF found_myself THEN Most(accumulated_time - comm_delay, 0) ELSE -1
    BY <1>5 DEF Finish, arguments, quanta
  <2>2. \A n \in Node : quantum_times[n] = QuantumOf(n)
    BY Zenon, <2>1 DEF MInv
  <2>3. \A n \in Node : QuantumOf(n)' = QuantumOf(n)
    BY Zenon, <2>1 DEF QuantumOf, Counts, calc_tier_number
  <2>4. \A n \in Node : quantum_times'[n] = QuantumOf(n)'
    BY Zenon, <2>1, <2>2, <2>3
  <2>5. ASSUME pc' = "calculated", leadership_time' # -1, Once', NEW k \in DOMAIN queue',
               queue'[k] = node_id'
        PROVE  leadership_time' = LeadershipOf(k)'
    <3>1. Once
      BY Zenon, <2>1, <2>5 DEF Once
    <3>2. InRounds /\ StaysLeft /\ Adding
      BY Zenon, <2>1, <3>1 DEF MInv
    <3>3. leadership_time' = Most(accumulated_time - comm_delay, 0)
      BY Zenon, <2>1, <2>5
    <3>4. k \in 1..Len(queue) /\ queue[k] = node_id
      <4>1. queue \in Seq(Node)
        BY <1>1, ArgumentTypes
      <4>2. DOMAIN queue = 1..Len(queue)
        BY <4>1
      <4> QED
        BY Zenon, <2>1, <2>5, <4>2
    <3>5. accumulated_time = SumFunction(Slice(k))
      BY Zenon, <2>1, <3>1, <3>2, <3>4, FinishAdds
    <3>6. LeadershipOf(k) = Most(SumFunction(Slice(k)) - comm_delay, 0)
      BY Zenon, <1>1, <2>2, <3>4, ReferenceSlices
    <3>7. LeadershipOf(k)' = LeadershipOf(k)
      BY ZenonT(40), <2>1 DEF LeadershipOf, QuantumOf, Counts, calc_tier_number
    <3> QED
      BY Zenon, <3>3, <3>5, <3>6, <3>7
  <2>6. pc' # "quanta" /\ pc' # "turns"
    BY <2>1
  <2> QED
    BY Zenon, <2>4, <2>5, <2>6 DEF MInv, MatchesReference
<1>6. CASE Rejoin \/ CheckLast \/ TrimBack \/ TrimFront \/ Notify \/ Lead
  <2>1. pc' \notin {"quanta", "turns", "calculated"}
    BY <1>6 DEF Rejoin, CheckLast, TrimBack, TrimFront, Notify, Lead
  <2>2. pc' # "quanta" /\ pc' # "turns" /\ pc' # "calculated"
    BY <2>1
  <2> QED
    BY Zenon, <2>2 DEF MInv, MatchesReference
<1>7. CASE UNCHANGED vars
  <2>1. UNCHANGED <<sgx_table, queue, node_id, comm_delay, pc, i, j, quantum_times,
                    tier_active_nodes, q, repetitions, accumulated_time,
                    leadership_time>>
    BY Zenon, <1>7 DEF vars, arguments, quanta, rounds
  <2>2. \A n \in Node : QuantumOf(n)' = QuantumOf(n)
    BY Zenon, <2>1 DEF QuantumOf, Counts, calc_tier_number
  <2>3. ASSUME NEW k PROVE LeadershipOf(k)' = LeadershipOf(k)
    BY ZenonT(40), <2>1 DEF LeadershipOf, QuantumOf, Counts, calc_tier_number
  <2>4. MatchesReference' <=> MatchesReference
    BY Zenon, <2>1, <2>2, <2>3 DEF MatchesReference, Once
  <2>5. Summing' <=> Summing
    BY Zenon, <2>1 DEF Summing, Seen, Peers, Time, Counts, calc_tier_number
  <2>a. InRounds' <=> InRounds
    BY SMTT(60), <2>1 DEF InRounds, At, Turns
  <2>6. StaysLeft' <=> StaysLeft
    BY Zenon, <2>1 DEF StaysLeft, At, Turns
  <2>7. Adding' <=> Adding
    BY Zenon, <2>1 DEF Adding, Slice, Played, Pairs, Left, Round, Me,
                       remaining_quantum_time
  <2>8. Once' <=> Once
    BY Zenon, <2>1 DEF Once
  <2> QED
    BY Zenon, <2>1, <2>2, <2>4, <2>5, <2>6, <2>7, <2>8, <2>a DEF MInv
<1> QED
  BY Zenon, <1>2, <1>3, <1>4, <1>5, <1>6, <1>7 DEF Next

(* calc_quantum_times and calc_leadership_time compute the sums that define
   them, for every table, every queue without repetitions and every node. *)
THEOREM ReferenceMatched == Spec => []MatchesReference
<1>1. MInv => MatchesReference
  BY DEF MInv
<1>2. Spec => []LInv
  BY SafetyInit, SafetyStep, PTL DEF Spec
<1> QED
  BY <1>1, <1>2, RoundsKept, MatchInit, MatchStep, PTL DEF Spec
=============================================================================
