------------------------------- MODULE SumsProofs -------------------------------
(***************************************************************************)
(* What Total is, for every function with a finite domain: nothing for the *)
(* empty one, and each value once.  MapThenSumSet is a recursive function  *)
(* over the subsets of the domain; that it exists, and what it is, is      *)
(* shown by a smallest subset for which it would not be so.                *)
(***************************************************************************)
EXTENDS Sums, FiniteSetTheorems, WellFoundedInduction, TLAPS

LEMMA LeastNat ==
  ASSUME NEW T \in SUBSET Nat, T # {}
  PROVE  \E x \in T : \A y \in T : x <= y
<1>1. \E x \in T : \A y \in T : ~(<<y, x>> \in OpToRel(<, Nat))
  BY NatLessThanWellFounded, WFMin
<1>2. ASSUME NEW x \in Nat, NEW y \in Nat, y < x
      PROVE  <<y, x>> \in OpToRel(<, Nat)
  BY <1>2 DEF OpToRel
<1>3. PICK x \in T : \A y \in T : ~(<<y, x>> \in OpToRel(<, Nat))
  BY <1>1
<1>4. \A y \in T : ~(y < x)
  BY <1>2, <1>3
<1> QED BY <1>4

First(s) == CHOOSE x \in s : TRUE

(* The recursion, for the subsets of S with at most n elements. *)
Adds(g, f, S, n) ==
  \A s \in SUBSET S : Cardinality(s) <= n =>
    g[s] = IF s = {} THEN 0 ELSE f[First(s)] + g[s \ {First(s)}]

LEMMA FirstIn == \A s : s # {} => First(s) \in s
BY DEF First

(* A subset and the rest without one of its elements. *)
LEMMA Remove ==
  ASSUME NEW S, IsFiniteSet(S), NEW s \in SUBSET S, NEW x \in s
  PROVE  /\ IsFiniteSet(s) /\ Cardinality(s) \in Nat
         /\ s \ {x} \in SUBSET S /\ Cardinality(s \ {x}) \in Nat
         /\ Cardinality(s \ {x}) = Cardinality(s) - 1
<1>1. IsFiniteSet(s)
  BY FS_Subset
<1>2. IsFiniteSet(s \ {x}) /\ Cardinality(s \ {x}) = Cardinality(s) - 1
  BY <1>1, FS_RemoveElement
<1> QED BY <1>1, <1>2, FS_CardinalityType

LEMMA SubsetSize ==
  ASSUME NEW S, IsFiniteSet(S)
  PROVE  /\ Cardinality(S) \in Nat
         /\ \A s \in SUBSET S : /\ IsFiniteSet(s) /\ Cardinality(s) \in Nat
                                /\ Cardinality(s) <= Cardinality(S)
                                /\ Cardinality(s) = 0 <=> s = {}
<1>1. Cardinality(S) \in Nat
  BY FS_CardinalityType
<1>2. ASSUME NEW s \in SUBSET S
      PROVE  /\ IsFiniteSet(s) /\ Cardinality(s) \in Nat
             /\ Cardinality(s) <= Cardinality(S)
             /\ Cardinality(s) = 0 <=> s = {}
  <2>1. IsFiniteSet(s) /\ Cardinality(s) <= Cardinality(S)
    BY FS_Subset
  <2> QED BY <2>1, FS_CardinalityType, FS_EmptySet
<1> QED BY <1>1, <1>2

LEMMA AddsExists ==
  ASSUME NEW S, IsFiniteSet(S), NEW f
  PROVE  \A n \in Nat : \E g : g = [s \in SUBSET S |-> g[s]] /\ Adds(g, f, S, n)
<1> DEFINE P(n) == \E g : g = [s \in SUBSET S |-> g[s]] /\ Adds(g, f, S, n)
           T == {n \in Nat : ~P(n)}
<1> SUFFICES ASSUME T # {} PROVE FALSE
  OBVIOUS
<1>1. PICK n \in T : \A m \in T : n <= m
  BY LeastNat
<1>2. n # 0
  <2>1. SUFFICES P(0)
    OBVIOUS
  <2> DEFINE g == [s \in SUBSET S |-> 0]
  <2>2. Adds(g, f, S, 0)
    <3> SUFFICES ASSUME NEW s \in SUBSET S, Cardinality(s) <= 0
                 PROVE  g[s] = IF s = {} THEN 0 ELSE f[First(s)] + g[s \ {First(s)}]
      BY DEF Adds
    <3>1. s = {}
      BY SubsetSize
    <3> QED BY <3>1
  <2>3. g = [s \in SUBSET S |-> g[s]]
    OBVIOUS
  <2> HIDE DEF g
  <2> QED BY <2>2, <2>3
<1>3. n \in Nat /\ n - 1 \in Nat /\ P(n - 1)
  <2>1. n \in Nat /\ n - 1 \in Nat /\ ~(n <= n - 1)
    BY <1>1, <1>2
  <2>2. n - 1 \notin T
    <3> HIDE DEF T
    <3> QED BY <1>1, <2>1
  <2> HIDE DEF P
  <2> QED BY <2>1, <2>2
<1>4. PICK g : Adds(g, f, S, n - 1)
  BY <1>3
<1> DEFINE h == [s \in SUBSET S |->
                   IF Cardinality(s) <= n - 1 THEN g[s]
                   ELSE f[First(s)] + g[s \ {First(s)}]]
<1>5. Adds(h, f, S, n)
  <2> SUFFICES ASSUME NEW s \in SUBSET S, Cardinality(s) <= n
               PROVE  h[s] = IF s = {} THEN 0 ELSE f[First(s)] + h[s \ {First(s)}]
    BY DEF Adds
  <2>1. CASE s = {}
    <3>1. Cardinality(s) <= n - 1
      BY <1>3, <2>1, SubsetSize
    <3>2. g[s] = 0
      BY <1>4, <2>1, <3>1 DEF Adds
    <3> QED BY <2>1, <3>1, <3>2
  <2>2. CASE s # {}
    <3> DEFINE t == s \ {First(s)}
    <3>1. /\ t \in SUBSET S /\ Cardinality(t) \in Nat /\ Cardinality(s) \in Nat
          /\ Cardinality(t) = Cardinality(s) - 1
      BY <2>2, FirstIn, Remove
    <3>2. Cardinality(t) <= n - 1
      BY <1>3, <3>1
    <3>3. h[t] = g[t]
      BY <3>1, <3>2
    <3>4. CASE Cardinality(s) <= n - 1
      <4>1. g[s] = f[First(s)] + g[t]
        BY <1>4, <2>2, <3>4 DEF Adds
      <4> QED BY <2>2, <3>3, <3>4, <4>1
    <3>5. CASE ~(Cardinality(s) <= n - 1)
      BY <2>2, <3>3, <3>5
    <3> QED BY <3>4, <3>5
  <2> QED BY <2>1, <2>2
<1>6. h = [s \in SUBSET S |-> h[s]]
  OBVIOUS
<1>7. P(n)
  <2> HIDE DEF h
  <2> QED BY <1>5, <1>6
<1> QED BY <1>1, <1>7

Sums(f) ==
  CHOOSE g : g = [s \in SUBSET DOMAIN f |->
                    IF s = {} THEN 0 ELSE f[First(s)] + g[s \ {First(s)}]]

LEMMA TotalIsSum ==
  ASSUME NEW f
  PROVE  Total(f) = Sums(f)[DOMAIN f]
BY Zenon DEF Total, MapThenSumSet, MapThenFoldSet, First, Sums

LEMMA SumsStep ==
  ASSUME NEW f, IsFiniteSet(DOMAIN f)
  PROVE  \A s \in SUBSET DOMAIN f :
           Sums(f)[s] = IF s = {} THEN 0 ELSE f[First(s)] + Sums(f)[s \ {First(s)}]
<1> DEFINE S == DOMAIN f
           IsRec(g) == g = [s \in SUBSET S |-> IF s = {} THEN 0 ELSE f[First(s)] + g[s \ {First(s)}]]
<1>1. PICK g : g = [s \in SUBSET S |-> g[s]] /\ Adds(g, f, S, Cardinality(S))
  BY AddsExists, FS_CardinalityType
<1>2. \A s \in SUBSET S : g[s] = IF s = {} THEN 0 ELSE f[First(s)] + g[s \ {First(s)}]
  BY <1>1, SubsetSize DEF Adds
<1>3. IsRec(g)
  <2>1. [s \in SUBSET S |-> g[s]]
          = [s \in SUBSET S |-> IF s = {} THEN 0 ELSE f[First(s)] + g[s \ {First(s)}]]
    BY <1>2
  <2> QED BY <1>1, <2>1
<1>4. IsRec(Sums(f))
  <2>1. \E x : IsRec(x)
    BY <1>3
  <2>2. Sums(f) = CHOOSE x : IsRec(x)
    BY DEF Sums
  <2> HIDE DEF IsRec
  <2> QED BY <2>1, <2>2, Zenon
<1> QED BY <1>4

(* Induction over the subsets of a finite set: of those that are bad there *)
(* is one that is good without any of its elements.                        *)
LEMMA SmallestSet ==
  ASSUME NEW S, IsFiniteSet(S), NEW B \in SUBSET SUBSET S, B # {}
  PROVE  \E s \in B : \A x \in s : s \ {x} \notin B
<1> DEFINE T == {Cardinality(s) : s \in B}
<1>1. T \in SUBSET Nat /\ T # {}
  BY SubsetSize
<1>2. \E n \in T : \A m \in T : n <= m
  <2> HIDE DEF T
  <2> QED BY <1>1, LeastNat
<1>3. PICK s \in B : \A t \in B : Cardinality(s) <= Cardinality(t)
  BY <1>2
<1>4. ASSUME NEW x \in s, s \ {x} \in B PROVE FALSE
  <2>1. Cardinality(s \ {x}) = Cardinality(s) - 1 /\ Cardinality(s) \in Nat
    BY Remove
  <2> QED BY <1>3, <1>4, <2>1
<1> QED BY <1>4

(* A finite set of integers has a largest and a least member.              *)
LEMMA MaxIn ==
  ASSUME NEW S \in SUBSET Int, IsFiniteSet(S), S # {}
  PROVE  Max(S) \in S /\ \A y \in S : y <= Max(S)
<1> DEFINE Top(s) == \E x \in s : \A y \in s : y <= x
           B == {s \in SUBSET S : s # {} /\ ~Top(s)}
<1>1. B = {}
  <2> SUFFICES ASSUME B # {} PROVE FALSE
    OBVIOUS
  <2>1. PICK s \in B : \A x \in s : s \ {x} \notin B
    BY SmallestSet
  <2>2. PICK x \in s : TRUE
    OBVIOUS
  <2>3. s \in SUBSET S /\ s \ {x} \in SUBSET S /\ x \in Int
    OBVIOUS
  <2>4. s \ {x} # {} => Top(s \ {x})
    BY <2>1, <2>2, <2>3
  <2>5. CASE s \ {x} = {}
    <3>1. \A y \in s : y = x
      BY <2>5
    <3>2. \A y \in s : y <= x
      BY <2>3, <3>1
    <3> QED BY <2>2, <3>2
  <2>6. CASE s \ {x} # {}
    <3>1. PICK m \in s \ {x} : \A y \in s \ {x} : y <= m
      BY <2>4, <2>6
    <3>2. m \in Int /\ \A y \in s : y \in Int /\ (y = x \/ y <= m)
      BY <2>3, <3>1
    <3>3. CASE x <= m
      <4>1. \A y \in s : y <= m
        BY <3>2, <3>3
      <4> QED BY <4>1
    <3>4. CASE m < x
      <4>1. \A y \in s : y <= x
        BY <2>3, <3>2, <3>4
      <4> QED BY <2>2, <4>1
    <3> QED BY <2>3, <3>2, <3>3, <3>4
  <2> QED BY <2>5, <2>6
<1>2. \E x \in S : \A y \in S : x >= y
  BY <1>1
<1>3. Max(S) \in S /\ \A y \in S : Max(S) >= y
  BY <1>2, Zenon DEF Max
<1> QED BY <1>3

LEMMA MinIn ==
  ASSUME NEW S \in SUBSET Int, IsFiniteSet(S), S # {}
  PROVE  Min(S) \in S /\ \A y \in S : Min(S) <= y
<1> DEFINE Low(s) == \E x \in s : \A y \in s : x <= y
           B == {s \in SUBSET S : s # {} /\ ~Low(s)}
<1>1. B = {}
  <2> SUFFICES ASSUME B # {} PROVE FALSE
    OBVIOUS
  <2>1. PICK s \in B : \A x \in s : s \ {x} \notin B
    BY SmallestSet
  <2>2. PICK x \in s : TRUE
    OBVIOUS
  <2>3. s \in SUBSET S /\ s \ {x} \in SUBSET S /\ x \in Int
    OBVIOUS
  <2>4. s \ {x} # {} => Low(s \ {x})
    BY <2>1, <2>2, <2>3
  <2>5. CASE s \ {x} = {}
    <3>1. \A y \in s : y = x
      BY <2>5
    <3>2. \A y \in s : x <= y
      BY <2>3, <3>1
    <3> QED BY <2>2, <3>2
  <2>6. CASE s \ {x} # {}
    <3>1. PICK m \in s \ {x} : \A y \in s \ {x} : m <= y
      BY <2>4, <2>6
    <3>2. m \in Int /\ \A y \in s : y \in Int /\ (y = x \/ m <= y)
      BY <2>3, <3>1
    <3>3. CASE m <= x
      <4>1. \A y \in s : m <= y
        BY <3>2, <3>3
      <4> QED BY <4>1
    <3>4. CASE x < m
      <4>1. \A y \in s : x <= y
        BY <2>3, <3>2, <3>4
      <4> QED BY <2>2, <4>1
    <3> QED BY <2>3, <3>2, <3>3, <3>4
  <2> QED BY <2>5, <2>6
<1>2. \E x \in S : \A y \in S : x <= y
  BY <1>1
<1> QED BY <1>2, Zenon DEF Min

LEMMA SumsType ==
  ASSUME NEW f, IsFiniteSet(DOMAIN f), \A x \in DOMAIN f : f[x] \in Int
  PROVE  \A s \in SUBSET DOMAIN f : Sums(f)[s] \in Int
<1> DEFINE B == {s \in SUBSET DOMAIN f : Sums(f)[s] \notin Int}
<1> SUFFICES ASSUME B # {} PROVE FALSE
  OBVIOUS
<1>1. PICK s \in B : \A x \in s : s \ {x} \notin B
  BY SmallestSet
<1>2. s \in SUBSET DOMAIN f /\ Sums(f)[s] = IF s = {} THEN 0 ELSE f[First(s)] + Sums(f)[s \ {First(s)}]
  BY SumsStep
<1>3. s # {}
  BY <1>2
<1>4. First(s) \in s
  BY <1>3, FirstIn
<1>5. Sums(f)[s \ {First(s)}] \in Int /\ f[First(s)] \in Int
  BY <1>1, <1>2, <1>4
<1> QED BY <1>2, <1>3, <1>5

(* Any element may be added last. *)
LEMMA SumsRemove ==
  ASSUME NEW f, IsFiniteSet(DOMAIN f), \A x \in DOMAIN f : f[x] \in Int
  PROVE  \A s \in SUBSET DOMAIN f : \A x \in s : Sums(f)[s] = f[x] + Sums(f)[s \ {x}]
<1> DEFINE Bad(s) == \E x \in s : Sums(f)[s] # f[x] + Sums(f)[s \ {x}]
           B == {s \in SUBSET DOMAIN f : Bad(s)}
<1> SUFFICES ASSUME B # {} PROVE FALSE
  OBVIOUS
<1>1. PICK s \in B : \A x \in s : s \ {x} \notin B
  BY SmallestSet
<1>2. PICK x \in s : Sums(f)[s] # f[x] + Sums(f)[s \ {x}]
  OBVIOUS
<1> DEFINE c == First(s)
<1>3. s \in SUBSET DOMAIN f /\ c \in s /\ Sums(f)[s] = f[c] + Sums(f)[s \ {c}]
  BY SumsStep, FirstIn, <1>2
<1> HIDE DEF c
<1>4. x # c
  BY <1>2, <1>3
<1>5. ~Bad(s \ {c}) /\ ~Bad(s \ {x})
  BY <1>1, <1>3
<1>6. Sums(f)[s \ {c}] = f[x] + Sums(f)[(s \ {c}) \ {x}]
  BY <1>4, <1>5
<1>7. Sums(f)[s \ {x}] = f[c] + Sums(f)[(s \ {x}) \ {c}]
  BY <1>3, <1>4, <1>5
<1>8. (s \ {x}) \ {c} = (s \ {c}) \ {x}
  OBVIOUS
<1>9. Sums(f)[(s \ {c}) \ {x}] \in Int /\ f[x] \in Int /\ f[c] \in Int
  BY <1>3, SumsType
<1>10. f[c] + (f[x] + Sums(f)[(s \ {c}) \ {x}]) = f[x] + (f[c] + Sums(f)[(s \ {c}) \ {x}])
  BY <1>9
<1>11. Sums(f)[s] = f[x] + Sums(f)[s \ {x}]
  BY <1>3, <1>6, <1>7, <1>8, <1>10
<1> QED BY <1>2, <1>11

(* A sum depends only on the values it adds. *)
LEMMA SumsAgree ==
  ASSUME NEW f, IsFiniteSet(DOMAIN f), NEW g, IsFiniteSet(DOMAIN g),
         NEW S \in SUBSET DOMAIN f, S \subseteq DOMAIN g, \A x \in S : f[x] = g[x]
  PROVE  \A s \in SUBSET S : Sums(f)[s] = Sums(g)[s]
<1> DEFINE B == {s \in SUBSET S : Sums(f)[s] # Sums(g)[s]}
<1> SUFFICES ASSUME B # {} PROVE FALSE
  OBVIOUS
<1>0. IsFiniteSet(S)
  BY FS_Subset
<1>1. PICK s \in B : \A x \in s : s \ {x} \notin B
  BY <1>0, SmallestSet
<1>2. /\ Sums(f)[s] = IF s = {} THEN 0 ELSE f[First(s)] + Sums(f)[s \ {First(s)}]
      /\ Sums(g)[s] = IF s = {} THEN 0 ELSE g[First(s)] + Sums(g)[s \ {First(s)}]
  BY SumsStep
<1>3. s # {}
  BY <1>2
<1>4. First(s) \in s
  BY <1>3, FirstIn
<1> QED BY <1>1, <1>2, <1>3, <1>4

-------------------------------------------------------------------------------
(* Totals *)

LEMMA TotalEmpty ==
  ASSUME NEW f, DOMAIN f = {}
  PROVE  Total(f) = 0
BY TotalIsSum, SumsStep, FS_EmptySet

LEMMA TotalType ==
  ASSUME NEW f, IsFiniteSet(DOMAIN f), \A x \in DOMAIN f : f[x] \in Int
  PROVE  Total(f) \in Int
BY TotalIsSum, SumsType

LEMMA TotalAgree ==
  ASSUME NEW f, NEW g, DOMAIN f = DOMAIN g, IsFiniteSet(DOMAIN f),
         \A x \in DOMAIN f : f[x] = g[x]
  PROVE  Total(f) = Total(g)
BY TotalIsSum, SumsAgree

LEMMA TotalRemove ==
  ASSUME NEW S, IsFiniteSet(S), NEW f \in [S -> Int], NEW x \in S
  PROVE  Total(f) = f[x] + Total([y \in S \ {x} |-> f[y]])
<1> DEFINE g == [y \in S \ {x} |-> f[y]]
<1>1. IsFiniteSet(DOMAIN g) /\ DOMAIN g \in SUBSET DOMAIN f /\ \A y \in DOMAIN g : f[y] = g[y]
  BY FS_RemoveElement
<1>2. Total(g) = Sums(f)[S \ {x}]
  <2> HIDE DEF g
  <2>1. Sums(f)[DOMAIN g] = Sums(g)[DOMAIN g]
    BY <1>1, SumsAgree
  <2> QED BY <2>1, TotalIsSum DEF g
<1>3. Sums(f)[S] = f[x] + Sums(f)[S \ {x}]
  BY SumsRemove
<1> QED BY <1>2, <1>3, TotalIsSum

LEMMA TotalZero ==
  ASSUME NEW f, IsFiniteSet(DOMAIN f), \A x \in DOMAIN f : f[x] = 0
  PROVE  Total(f) = 0
<1> DEFINE B == {s \in SUBSET DOMAIN f : Sums(f)[s] # 0}
<1>1. B = {}
  <2> SUFFICES ASSUME B # {} PROVE FALSE
    OBVIOUS
  <2>1. PICK s \in B : \A x \in s : s \ {x} \notin B
    BY SmallestSet
  <2>2. s \in SUBSET DOMAIN f /\ Sums(f)[s] = IF s = {} THEN 0 ELSE f[First(s)] + Sums(f)[s \ {First(s)}]
    BY SumsStep
  <2>3. s # {} /\ First(s) \in s
    BY <2>2, FirstIn
  <2> QED BY <2>1, <2>2, <2>3
<1> QED BY <1>1, TotalIsSum

LEMMA TotalSplit ==
  ASSUME NEW S, IsFiniteSet(S), NEW f \in [S -> Int], NEW L \in SUBSET S
  PROVE  Total(f) = Total([x \in L |-> f[x]]) + Total([x \in S \ L |-> f[x]])
<1> DEFINE R == S \ L
           l == [x \in L |-> f[x]]
           r == [x \in R |-> f[x]]
           B == {s \in SUBSET L : Sums(f)[s \cup R] # Sums(f)[s] + Sums(f)[R]}
<1>1. IsFiniteSet(L) /\ IsFiniteSet(R)
  BY FS_Subset
<1>2. Sums(f)[R] \in Int /\ \A s \in SUBSET L : Sums(f)[s] \in Int
  BY SumsType
<1>3. B = {}
  <2> SUFFICES ASSUME B # {} PROVE FALSE
    OBVIOUS
  <2>1. PICK s \in B : \A x \in s : s \ {x} \notin B
    BY <1>1, SmallestSet
  <2>2. CASE s = {}
    <3>1. Sums(f)[{}] = 0 /\ {} \cup R = R
      BY SumsStep
    <3> QED BY <1>2, <2>1, <2>2, <3>1
  <2>3. CASE s # {}
    <3>1. PICK x \in s : TRUE
      BY <2>3
    <3>2. /\ Sums(f)[s \cup R] = f[x] + Sums(f)[(s \cup R) \ {x}]
          /\ Sums(f)[s] = f[x] + Sums(f)[s \ {x}]
      BY SumsRemove
    <3>3. (s \cup R) \ {x} = (s \ {x}) \cup R
      OBVIOUS
    <3>4. Sums(f)[(s \ {x}) \cup R] = Sums(f)[s \ {x}] + Sums(f)[R]
      BY <2>1
    <3>5. f[x] \in Int /\ Sums(f)[s \ {x}] \in Int /\ Sums(f)[R] \in Int
      BY <1>2
    <3>6. f[x] + (Sums(f)[s \ {x}] + Sums(f)[R]) = (f[x] + Sums(f)[s \ {x}]) + Sums(f)[R]
      BY <3>5
    <3>7. Sums(f)[s \cup R] = Sums(f)[s] + Sums(f)[R]
      BY <3>2, <3>3, <3>4, <3>6
    <3> QED BY <2>1, <3>7
  <2> QED BY <2>2, <2>3
<1>4. Sums(f)[L \cup R] = Sums(f)[L] + Sums(f)[R] /\ L \cup R = S
  BY <1>3
<1>5. Total(l) = Sums(f)[L]
  <2>1. DOMAIN l = L /\ \A x \in L : f[x] = l[x]
    OBVIOUS
  <2>2. L \in SUBSET DOMAIN f /\ IsFiniteSet(DOMAIN f) /\ L \in SUBSET L
    OBVIOUS
  <2> HIDE DEF l
  <2>3. \A s \in SUBSET L : Sums(f)[s] = Sums(l)[s]
    BY <1>1, <2>1, <2>2, SumsAgree
  <2> QED BY <2>1, <2>2, <2>3, TotalIsSum
<1>6. Total(r) = Sums(f)[R]
  <2>1. DOMAIN r = R /\ \A x \in R : f[x] = r[x]
    OBVIOUS
  <2>2. R \in SUBSET DOMAIN f
    OBVIOUS
  <2> HIDE DEF r, R
  <2>3. Sums(f)[R] = Sums(r)[R]
    BY <1>1, <2>1, <2>2, SumsAgree
  <2> QED BY <2>1, <2>3, TotalIsSum
<1> QED BY <1>4, <1>5, <1>6, TotalIsSum

(* Sums of sizes: what sets hold together is at most the sum of what each  *)
(* holds, and all of it when they are disjoint.                            *)
LEMMA TotalOfParts ==
  ASSUME NEW S, IsFiniteSet(S), NEW f \in [S -> Int], NEW P,
         \A x \in S : IsFiniteSet(P[x]) /\ Cardinality(P[x]) <= f[x]
  PROVE  /\ IsFiniteSet(UNION {P[x] : x \in S})
         /\ Cardinality(UNION {P[x] : x \in S}) <= Total(f)
         /\ (\A x \in S : Cardinality(P[x]) = f[x]) /\ (\A x, y \in S : x # y => P[x] \cap P[y] = {})
              => Total(f) = Cardinality(UNION {P[x] : x \in S})
<1> DEFINE All(s) == UNION {P[x] : x \in s}
           Exact == /\ \A x \in S : Cardinality(P[x]) = f[x]
                    /\ \A x, y \in S : x # y => P[x] \cap P[y] = {}
           Good(s) == /\ IsFiniteSet(All(s)) /\ Cardinality(All(s)) <= Sums(f)[s]
                      /\ Exact => Sums(f)[s] = Cardinality(All(s))
           B == {s \in SUBSET S : ~Good(s)}
<1>1. B = {}
  <2> SUFFICES ASSUME B # {} PROVE FALSE
    OBVIOUS
  <2>1. PICK s \in B : \A x \in s : s \ {x} \notin B
    BY SmallestSet
  <2>2. CASE s = {}
    <3>1. Sums(f)[s] = 0 /\ All(s) = {}
      BY <2>2, SumsStep
    <3> HIDE DEF All, Exact
    <3>2. IsFiniteSet(All(s)) /\ Cardinality(All(s)) = 0
      BY <3>1, FS_EmptySet
    <3>3. Good(s)
      BY <3>1, <3>2
    <3> QED BY <2>1, <3>3
  <2>3. CASE s # {}
    <3>1. PICK x \in s : TRUE
      BY <2>3
    <3> DEFINE t == s \ {x}
    <3>2. Good(t) /\ x \in S /\ s \in SUBSET S
      BY <2>1
    <3>3. Sums(f)[s] = f[x] + Sums(f)[t] /\ Sums(f)[t] \in Int /\ f[x] \in Int
      <4>1. /\ DOMAIN f = S /\ s \in SUBSET DOMAIN f /\ t \in SUBSET DOMAIN f
            /\ \A y \in DOMAIN f : f[y] \in Int
        BY <3>2
      <4> QED BY <3>1, <3>2, <4>1, SumsRemove, SumsType
    <3>4. All(s) = P[x] \cup All(t)
      OBVIOUS
    <3>5. /\ IsFiniteSet(P[x]) /\ IsFiniteSet(All(t))
          /\ Cardinality(P[x]) <= f[x] /\ Cardinality(All(t)) <= Sums(f)[t]
          /\ Exact => Sums(f)[t] = Cardinality(All(t))
      BY <3>2
    <3>6. Exact => P[x] \cap All(t) = {} /\ Cardinality(P[x]) = f[x]
      <4> SUFFICES ASSUME Exact PROVE P[x] \cap All(t) = {}
        BY <3>2
      <4>1. \A y \in t : P[x] \cap P[y] = {}
        BY <3>2
      <4> QED BY <4>1
    <3> HIDE DEF All, Exact, t
    <3>7. /\ IsFiniteSet(P[x] \cup All(t)) /\ Cardinality(P[x]) \in Nat /\ Cardinality(All(t)) \in Nat
          /\ IsFiniteSet(P[x] \cap All(t)) /\ Cardinality(P[x] \cap All(t)) \in Nat
          /\ Cardinality(P[x] \cup All(t))
               = Cardinality(P[x]) + Cardinality(All(t)) - Cardinality(P[x] \cap All(t))
      <4>1. P[x] \cap All(t) \in SUBSET P[x]
        OBVIOUS
      <4> QED BY <3>5, <4>1, FS_Union, FS_Subset, FS_CardinalityType
    <3>8. Cardinality(All(s)) <= Sums(f)[s]
      BY <3>3, <3>4, <3>5, <3>7
    <3>9. Exact => Sums(f)[s] = Cardinality(All(s))
      <4> SUFFICES ASSUME Exact PROVE Sums(f)[s] = Cardinality(All(s))
        OBVIOUS
      <4>1. Cardinality(P[x] \cap All(t)) = 0
        BY <3>6, FS_EmptySet
      <4> QED BY <3>3, <3>4, <3>5, <3>6, <3>7, <4>1
    <3>10. Good(s)
      BY <3>4, <3>7, <3>8, <3>9
    <3> HIDE DEF Good
    <3> QED BY <2>1, <3>10
  <2> QED BY <2>2, <2>3
<1>2. Good(S)
  BY <1>1
<1> QED BY <1>2, TotalIsSum
=================================================================================
