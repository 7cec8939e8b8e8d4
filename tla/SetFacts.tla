------------------------------ MODULE SetFacts ------------------------------
(***************************************************************************)
(* Facts about numbers and finite sets that several proofs rest on.  The    *)
(* induction they need is the existence of a least counterexample           *)
(* (WFMin), which asks for a set and not for a predicate.                   *)
(***************************************************************************)
EXTENDS Timeline, FiniteSetTheorems, WellFoundedInduction, TLAPS

(* A set of numbers that is not empty has a least one.                      *)
LEMMA LeastNumber ==
  ASSUME NEW S \in SUBSET Nat, S # {}
  PROVE  \E m \in S : \A n \in S : m <= n
<1>1. PICK m \in S : \A n \in S : ~(<<n, m>> \in OpToRel(<, Nat))
  BY NatLessThanWellFounded, WFMin, Zenon
<1>2. \A n \in S : ~(n < m)
  <2> SUFFICES ASSUME NEW n \in S, n < m PROVE FALSE
    OBVIOUS
  <2>1. <<n, m>> \in OpToRel(<, Nat)
    BY Zenon DEF OpToRel
  <2> QED BY <1>1, <2>1
<1>3. \A n \in S : m <= n
  BY <1>2
<1> QED BY <1>3

(* A finite set of numbers has an upper bound: a smallest subset without    *)
(* one could lose an element and still have none.                           *)
LEMMA FiniteBounded ==
  ASSUME NEW S \in SUBSET Nat, IsFiniteSet(S)
  PROVE  \E n \in Nat : \A s \in S : s <= n
<1> DEFINE Bounded(X) == \E n \in Nat : \A s \in X : s <= n
           T == {X \in SUBSET S : ~Bounded(X)}
<1>1. SUFFICES ASSUME T # {} PROVE FALSE
  BY Zenon
<1>2. PICK X \in T : \A Y \in T : ~(<<Y, X>> \in StrictSubsetOrdering(S))
  <2>1. IsWellFoundedOn(StrictSubsetOrdering(S), SUBSET S)
    BY FS_StrictSubsetOrderingWellFounded, FS_FiniteSubsetsOfFinite, Zenon
  <2>2. T \subseteq SUBSET S
    OBVIOUS
  <2> QED BY <1>1, <2>1, <2>2, WFMin
<1>3. PICK x \in X : TRUE
  <2>1. CASE X = {}
    <3>1. Bounded(X) BY <2>1
    <3> QED BY <3>1
  <2> QED BY <2>1
<1>4. X \ {x} \in SUBSET S /\ X \ {x} \subseteq X /\ X \ {x} # X
  BY <1>3
<1>5. <<X \ {x}, X>> \in StrictSubsetOrdering(S)
  BY <1>4 DEF StrictSubsetOrdering
<1>6. Bounded(X \ {x})
  BY <1>2, <1>4, <1>5
<1>7. PICK n \in Nat : \A s \in X \ {x} : s <= n
  BY <1>6
<1>8. x \in Nat
  BY <1>3
<1>9. \A s \in X : s <= n + x
  <2> SUFFICES ASSUME NEW s \in X PROVE s <= n + x
    OBVIOUS
  <2>1. s \in Nat OBVIOUS
  <2>2. s = x \/ s <= n BY <1>7
  <2> QED BY <1>8, <2>1, <2>2
<1>10. n + x \in Nat BY <1>8
<1>11. Bounded(X) BY <1>9, <1>10
<1> QED BY <1>11

(* A finite set of numbers that is not empty has a greatest one.            *)
LEMMA GreatestNumber ==
  ASSUME NEW S \in SUBSET Nat, S # {}, IsFiniteSet(S)
  PROVE  \E m \in S : \A n \in S : n <= m
<1>1. PICK b \in Nat : \A s \in S : s <= b
  BY FiniteBounded
<1> DEFINE T == {b - s : s \in S}
<1>2. T \in SUBSET Nat /\ T # {}
  <2>1. \A s \in S : b - s \in Nat BY <1>1
  <2>2. PICK s \in S : TRUE OBVIOUS
  <2>3. b - s \in T OBVIOUS
  <2> QED BY <2>1, <2>3
<1>3. PICK k \in T : \A n \in T : k <= n
  <2> HIDE DEF T
  <2> QED BY <1>2, LeastNumber
<1>4. PICK m \in S : k = b - m
  OBVIOUS
<1>5. \A n \in S : b - m <= b - n
  BY <1>3, <1>4
<1>6. \A n \in S : n \in Nat /\ n <= m
  <2> SUFFICES ASSUME NEW n \in S PROVE n \in Nat /\ n <= m
    OBVIOUS
  <2>1. n \in Nat /\ m \in Nat /\ b - m <= b - n BY <1>5
  <2> QED BY <2>1
<1> QED BY <1>6

(* The image of a finite set is finite.                                     *)
LEMMA FiniteImage ==
  ASSUME NEW S, IsFiniteSet(S), NEW g, DOMAIN g = S, g = [x \in S |-> g[x]]
  PROVE  IsFiniteSet({g[x] : x \in S})
<1> DEFINE T == {g[x] : x \in S}
<1>1. g \in Surjection(S, T)
  BY DEF Surjection
<1> HIDE DEF T
<1>2. IsFiniteSet(T)
  BY <1>1, FS_Surjection
<1> QED BY <1>2 DEF T

(* A finite set of integers lies above some integer.                        *)
LEMMA FiniteFromBelow ==
  ASSUME NEW S \in SUBSET Int, IsFiniteSet(S)
  PROVE  \E b \in Nat : \A s \in S : 0 <= s + b
<1> DEFINE g == [s \in S |-> IF s < 0 THEN 0 - s ELSE s]
           T == {g[s] : s \in S}
<1>1. \A s \in S : g[s] \in Nat /\ 0 <= s + g[s]
  OBVIOUS
<1>2. IsFiniteSet(T) /\ T \in SUBSET Nat
  <2>1. DOMAIN g = S /\ g = [s \in S |-> g[s]]
    OBVIOUS
  <2> HIDE DEF g
  <2> QED
    BY <1>1, <2>1, FiniteImage
<1> HIDE DEF T
<1>3. PICK b \in Nat : \A k \in T : k <= b
  BY <1>2, FiniteBounded
<1>4. ASSUME NEW s \in S PROVE 0 <= s + b
  <2>1. g[s] <= b
    BY <1>3, <1>4 DEF T
  <2>2. g[s] \in Nat /\ 0 <= s + g[s] /\ s \in Int
    BY <1>1
  <2> HIDE DEF g
  <2> QED
    BY <2>1, <2>2
<1> QED
  BY <1>4

(* A finite set of integers that is not empty has a least one.              *)
LEMMA LeastInteger ==
  ASSUME NEW S \in SUBSET Int, S # {}, IsFiniteSet(S)
  PROVE  \E m \in S : \A n \in S : m <= n
<1>1. PICK b \in Nat : \A s \in S : 0 <= s + b
  BY FiniteFromBelow
<1> DEFINE T == {s + b : s \in S}
<1>2. T \in SUBSET Nat /\ T # {}
  <2>1. \A s \in S : s + b \in Nat
    BY <1>1
  <2> QED
    BY <2>1
<1>3. PICK k \in T : \A n \in T : k <= n
  <2> HIDE DEF T
  <2> QED
    BY <1>2, LeastNumber
<1>4. PICK m \in S : k = m + b
  OBVIOUS
<1>5. \A n \in S : m + b <= n + b
  BY <1>3, <1>4
<1>6. ASSUME NEW n \in S PROVE m <= n
  <2>1. n \in Int /\ m \in Int /\ m + b <= n + b
    BY <1>5
  <2> QED
    BY <2>1
<1> QED
  BY <1>6

(* A finite set of integers that is not empty has a greatest one.           *)
LEMMA GreatestInteger ==
  ASSUME NEW S \in SUBSET Int, S # {}, IsFiniteSet(S)
  PROVE  \E m \in S : \A n \in S : n <= m
<1> DEFINE g == [s \in S |-> 0 - s]
           T == {g[s] : s \in S}
<1>1. DOMAIN g = S /\ g = [s \in S |-> g[s]] /\ \A s \in S : g[s] \in Int
  OBVIOUS
<1>2. IsFiniteSet(T) /\ T \in SUBSET Int /\ T # {}
  <2> HIDE DEF g
  <2> QED
    BY <1>1, FiniteImage
<1>3. PICK k \in T : \A n \in T : k <= n
  <2> HIDE DEF T
  <2> QED
    BY <1>2, LeastInteger
<1>4. PICK m \in S : k = 0 - m
  OBVIOUS
<1>5. \A n \in S : 0 - m <= 0 - n
  BY <1>3, <1>4
<1>6. ASSUME NEW n \in S PROVE n <= m
  <2>1. n \in Int /\ m \in Int /\ 0 - m <= 0 - n
    BY <1>5
  <2> QED
    BY <2>1
<1> QED
  BY <1>6

-----------------------------------------------------------------------------
(* A family of subsets of a finite set that is not empty has a least member: *)
(* one of which no smaller subset belongs to it.  This is the form of        *)
(* induction the provers can use: what fails for some subset fails for one   *)
(* whose smaller subsets it holds of.                                        *)
LEMMA LeastSubset ==
  ASSUME NEW S, IsFiniteSet(S), NEW F \in SUBSET (SUBSET S), F # {}
  PROVE  \E X \in F : \A Y \in SUBSET X : Y # X => Y \notin F
<1>1. IsWellFoundedOn(StrictSubsetOrdering(S), SUBSET S)
  BY FS_StrictSubsetOrderingWellFounded, FS_FiniteSubsetsOfFinite, Zenon
<1>2. PICK X \in F : \A Y \in F : ~(<<Y, X>> \in StrictSubsetOrdering(S))
  BY <1>1, WFMin
<1>3. ASSUME NEW Y \in SUBSET X, Y # X, Y \in F PROVE FALSE
  BY <1>2, <1>3 DEF StrictSubsetOrdering
<1> QED
  BY <1>3

(* The element a fold takes next.                                            *)
Some(s) == CHOOSE x \in s : TRUE

(* Function h holds the sum of f over each subset of S, as a fold adds it.   *)
AddsUp(h, f, S) ==
  /\ h = [s \in SUBSET S |-> h[s]]
  /\ \A s \in SUBSET S :
       h[s] = IF s = {} THEN 0 ELSE f[Some(s)] + h[s \ {Some(s)}]

(* What is left after taking an element is a smaller set.                    *)
LEMMA SomeTaken ==
  ASSUME NEW s, s # {}
  PROVE  Some(s) \in s /\ s \ {Some(s)} \subseteq s /\ s \ {Some(s)} # s
BY DEF Some

(* There is one such function at most.                                       *)
LEMMA SumUnique ==
  ASSUME NEW S, IsFiniteSet(S), NEW f, NEW g, NEW h, AddsUp(g, f, S), AddsUp(h, f, S)
  PROVE  \A s \in SUBSET S : g[s] = h[s]
<1> DEFINE F == {s \in SUBSET S : g[s] # h[s]}
<1>1. SUFFICES ASSUME F # {} PROVE FALSE
  OBVIOUS
<1>2. F \in SUBSET (SUBSET S)
  OBVIOUS
<1>3. PICK X \in F : \A Y \in SUBSET X : Y # X => Y \notin F
  <2> HIDE DEF F
  <2> QED BY <1>1, <1>2, LeastSubset
<1>4. X \in SUBSET S /\ g[X] # h[X]
  OBVIOUS
<1>5. X # {}
  BY <1>4 DEF AddsUp
<1>6. X \ {Some(X)} \in SUBSET X /\ X \ {Some(X)} # X /\ X \ {Some(X)} \in SUBSET S
  BY <1>4, <1>5, SomeTaken
<1>7. g[X \ {Some(X)}] = h[X \ {Some(X)}]
  BY <1>3, <1>6
<1> QED
  BY <1>4, <1>5, <1>7 DEF AddsUp

(* Sums of numbers are numbers.                                              *)
LEMMA SumNat ==
  ASSUME NEW S, IsFiniteSet(S), NEW f, \A x \in S : f[x] \in Nat,
         NEW h, AddsUp(h, f, S)
  PROVE  h[S] \in Nat
<1> DEFINE F == {s \in SUBSET S : h[s] \notin Nat}
<1>1. SUFFICES ASSUME F # {} PROVE FALSE
  OBVIOUS
<1>2. F \in SUBSET (SUBSET S)
  OBVIOUS
<1>3. PICK X \in F : \A Y \in SUBSET X : Y # X => Y \notin F
  <2> HIDE DEF F
  <2> QED BY <1>1, <1>2, LeastSubset
<1>4. X \in SUBSET S /\ h[X] \notin Nat
  OBVIOUS
<1>5. X # {}
  <2>1. {} \in SUBSET S
    OBVIOUS
  <2>2. h[{}] = 0
    BY <2>1, Zenon DEF AddsUp
  <2> QED
    BY <1>4, <2>2
<1>6. /\ Some(X) \in S
      /\ X \ {Some(X)} \in SUBSET X /\ X \ {Some(X)} # X /\ X \ {Some(X)} \in SUBSET S
  BY <1>4, <1>5, SomeTaken
<1>7. h[X \ {Some(X)}] \in Nat
  BY <1>3, <1>6
<1>8. h[X] = f[Some(X)] + h[X \ {Some(X)}]
  BY <1>4, <1>5 DEF AddsUp
<1>9. f[Some(X)] \in Nat
  BY <1>6
<1> QED
  BY <1>4, <1>7, <1>8, <1>9

(* Over a finite set there is such a function: a least set without one would *)
(* get one from those of its smaller subsets, which agree where they meet.   *)
LEMMA SumExists ==
  ASSUME NEW S, IsFiniteSet(S), NEW f
  PROVE  \E h : AddsUp(h, f, S)
<1> DEFINE Has(T) == \E h : AddsUp(h, f, T)
           F == {T \in SUBSET S : ~Has(T)}
<1>1. SUFFICES ASSUME F # {} PROVE FALSE
  BY Zenon
<1>2. F \in SUBSET (SUBSET S)
  OBVIOUS
<1>3. PICK T \in F : \A Y \in SUBSET T : Y # T => Y \notin F
  <2> HIDE DEF F
  <2> QED BY <1>1, <1>2, LeastSubset
<1>4. T \in SUBSET S /\ ~Has(T)
  BY Zenon
<1>5. \A Y \in SUBSET T : Y # T => Has(Y)
  <2> SUFFICES ASSUME NEW Y \in SUBSET T, Y # T, ~Has(Y) PROVE FALSE
    BY Zenon
  <2>1. Y \in SUBSET S
    BY <1>4
  <2>2. Y \in F
    BY <2>1, Zenon
  <2> QED
    BY <1>3, <2>2, Zenon
<1> DEFINE G(Y) == CHOOSE h : AddsUp(h, f, Y)
<1>6. \A Y \in SUBSET T : Y # T => AddsUp(G(Y), f, Y)
  BY <1>5, Zenon
<1> HIDE DEF F, G
<1>7. ASSUME NEW Y \in SUBSET T, Y # T, NEW Z \in SUBSET Y
      PROVE  G(Y)[Z] = G(Z)[Z]
  <2> DEFINE r == [s \in SUBSET Z |-> G(Y)[s]]
  <2>1. AddsUp(G(Y), f, Y)
    BY <1>6, <1>7
  <2>2. AddsUp(r, f, Z)
    <3>1. r = [s \in SUBSET Z |-> r[s]]
      OBVIOUS
    <3>2. ASSUME NEW s \in SUBSET Z
          PROVE  r[s] = IF s = {} THEN 0 ELSE f[Some(s)] + r[s \ {Some(s)}]
      <4>1. s \in SUBSET Y /\ s \ {Some(s)} \in SUBSET Z
        OBVIOUS
      <4>2. r[s] = G(Y)[s] /\ r[s \ {Some(s)}] = G(Y)[s \ {Some(s)}]
        BY <4>1
      <4>3. G(Y)[s] = IF s = {} THEN 0 ELSE f[Some(s)] + G(Y)[s \ {Some(s)}]
        BY <2>1, <4>1 DEF AddsUp
      <4> QED
        BY <4>2, <4>3, Zenon
    <3> QED
      BY <3>1, <3>2, Zenon DEF AddsUp
  <2>3. Z # T /\ Z \in SUBSET T
    BY <1>7
  <2>4. AddsUp(G(Z), f, Z)
    BY <1>6, <2>3
  <2>5. Z \in SUBSET S /\ IsFiniteSet(Z)
    BY <1>4, <2>3, FS_Subset
  <2>6. r[Z] = G(Y)[Z]
    OBVIOUS
  <2> HIDE DEF r
  <2>7. r[Z] = G(Z)[Z]
    BY <2>2, <2>4, <2>5, SumUnique
  <2> QED
    BY <2>6, <2>7
<1> DEFINE rest(s) == s \ {Some(s)}
           value(s) == IF s = {} THEN 0 ELSE f[Some(s)] + G(rest(s))[rest(s)]
           h == [s \in SUBSET T |-> value(s)]
<1>8. ASSUME NEW s \in SUBSET T, s # {}
      PROVE  rest(s) \in SUBSET T /\ rest(s) # T
  BY <1>8, SomeTaken
<1>9. ASSUME NEW Y \in SUBSET T, Y # T
      PROVE  G(Y)[Y] = value(Y)
  <2>1. AddsUp(G(Y), f, Y)
    BY <1>6, <1>9
  <2>2. G(Y)[Y] = IF Y = {} THEN 0 ELSE f[Some(Y)] + G(Y)[rest(Y)]
    BY <2>1 DEF AddsUp
  <2>3. G(Y)[rest(Y)] = G(rest(Y))[rest(Y)]
    BY <1>7, <1>9
  <2> QED
    BY <2>2, <2>3, Zenon
<1>10. ASSUME NEW s \in SUBSET T
       PROVE  h[s] = IF s = {} THEN 0 ELSE f[Some(s)] + h[rest(s)]
  <2>1. CASE s = {}
    BY <2>1
  <2>2. CASE s # {}
    <3>1. rest(s) \in SUBSET T /\ rest(s) # T
      BY <1>8, <2>2
    <3>2. G(rest(s))[rest(s)] = value(rest(s))
      BY <1>9, <3>1
    <3> HIDE DEF rest
    <3>3. h[rest(s)] = value(rest(s)) /\ h[s] = value(s)
      BY <3>1
    <3>4. value(s) = f[Some(s)] + G(rest(s))[rest(s)]
      BY <2>2
    <3> HIDE DEF value, h
    <3> QED
      BY <2>2, <3>2, <3>3, <3>4
  <2> QED
    BY <2>1, <2>2
<1>11. h = [s \in SUBSET T |-> h[s]]
  OBVIOUS
<1> HIDE DEF h
<1>12. AddsUp(h, f, T)
  BY <1>10, <1>11, Zenon DEF AddsUp
<1> QED
  BY <1>4, <1>12, Zenon

(* Event time and frame sequence order the keys strictly and totally.         *)
LEMMA BeforeOrders ==
  /\ \A j, k, l \in Instants : Before(j, k) /\ Before(k, l) => Before(j, l)
  /\ \A j, k \in Instants : Before(j, k) \/ Before(k, j) \/ j = k
  /\ \A j, k \in Instants : ~(Before(j, k) /\ Before(k, j)) /\ ~Before(k, k)
<1>1. ASSUME NEW j \in Instants, NEW k \in Instants, NEW l \in Instants, Before(j, k), Before(k, l)
      PROVE  Before(j, l)
  BY <1>1 DEF Before, Instants
<1>2. ASSUME NEW j \in Instants, NEW k \in Instants, ~Before(j, k), ~Before(k, j)
      PROVE  j = k
  BY <1>2 DEF Before, Instants
<1>3. ASSUME NEW j \in Instants, NEW k \in Instants PROVE ~(Before(j, k) /\ Before(k, j)) /\ ~Before(k, k)
  BY DEF Before, Instants
<1> QED
  BY <1>1, <1>2, <1>3

(* A finite set of keys has a last one.                                      *)
LEMMA LastKey ==
  ASSUME NEW S \in SUBSET Instants, IsFiniteSet(S), S # {}
  PROVE  \E m \in S : \A k \in S : k = m \/ Before(k, m)
<1> DEFINE Has(T) == \E m \in T : \A k \in T : k = m \/ Before(k, m)
           F == {T \in SUBSET S : T # {} /\ ~Has(T)}
<1>1. SUFFICES ASSUME F # {} PROVE FALSE
  OBVIOUS
<1>2. F \in SUBSET (SUBSET S)
  OBVIOUS
<1>3. PICK X \in F : \A Y \in SUBSET X : Y # X => Y \notin F
  <2> HIDE DEF F
  <2> QED BY <1>1, <1>2, LeastSubset
<1>4. X \in SUBSET S /\ X # {} /\ ~Has(X)
  OBVIOUS
<1>5. PICK a \in X : TRUE
  BY <1>4
<1>6. CASE X \ {a} = {}
  <2>1. X = {a}
    BY <1>6
  <2> QED
    BY <1>4, <2>1
<1>7. CASE X \ {a} # {}
  <2>1. Has(X \ {a})
    <3>1. X \ {a} \in SUBSET X /\ X \ {a} # X /\ X \ {a} \in SUBSET S
      BY <1>4
    <3>2. X \ {a} \notin F
      <4> HIDE DEF F
      <4> QED BY <1>3, <3>1
    <3> QED
      BY <1>7, <3>1, <3>2
  <2>2. PICK m \in X \ {a} : \A k \in X \ {a} : k = m \/ Before(k, m)
    BY <2>1
  <2>3. a \in Instants /\ m \in Instants /\ X \subseteq Instants
    BY <1>4
  <2>4. CASE Before(a, m)
    <3>1. \A k \in X : k = m \/ Before(k, m)
      BY <2>2, <2>4
    <3> QED
      BY <1>4, <3>1
  <2>5. CASE ~Before(a, m)
    <3>1. Before(m, a)
      BY <2>2, <2>3, <2>5, BeforeOrders
    <3>2. \A k \in X : k = a \/ Before(k, a)
      BY <2>2, <2>3, <3>1, BeforeOrders
    <3> QED
      BY <1>4, <3>2
  <2> QED
    BY <2>4, <2>5
<1> QED
  BY <1>6, <1>7

(* The ordered sequences of the members of a set.                           *)
SortsOf(S) ==
  {s \in [1..Cardinality(S) -> S] :
     \A i, j \in 1..Cardinality(S) : i < j => Before(s[i], s[j])}

(* A finite set of keys can be put in order.                                 *)
LEMMA OrderExists ==
  ASSUME NEW S \in SUBSET Instants, IsFiniteSet(S)
  PROVE  SortsOf(S) # {}
<1> DEFINE F == {T \in SUBSET S : SortsOf(T) = {}}
<1>1. SUFFICES ASSUME F # {} PROVE FALSE
  OBVIOUS
<1>2. F \in SUBSET (SUBSET S)
  OBVIOUS
<1>3. PICK X \in F : \A Y \in SUBSET X : Y # X => Y \notin F
  <2> HIDE DEF F
  <2> QED BY <1>1, <1>2, LeastSubset
<1>4. X \in SUBSET S /\ SortsOf(X) = {} /\ IsFiniteSet(X) /\ X \in SUBSET Instants
  BY FS_Subset
<1>5. X # {}
  <2> SUFFICES ASSUME X = {} PROVE FALSE
    OBVIOUS
  <2>1. Cardinality(X) = 0
    BY FS_EmptySet
  <2>2. << >> \in SortsOf(X)
    BY <2>1 DEF SortsOf
  <2> QED
    BY <1>4, <2>2
<1>6. PICK m \in X : \A k \in X : k = m \/ Before(k, m)
  BY <1>4, <1>5, LastKey
<1> DEFINE Y == X \ {m}
<1>7. SortsOf(Y) # {}
  <2>1. Y \in SUBSET X /\ Y # X /\ Y \in SUBSET S
    BY <1>4, <1>6
  <2> HIDE DEF Y
  <2>2. Y \notin F
    <3> HIDE DEF F
    <3> QED BY <1>3, <2>1
  <2> QED
    BY <2>1, <2>2
<1>8. PICK s \in SortsOf(Y) : TRUE
  BY <1>7
<1>9. Cardinality(X) \in Nat /\ Cardinality(Y) = Cardinality(X) - 1 /\ Cardinality(Y) \in Nat
  <2>1. Cardinality(Y) = Cardinality(X) - 1 /\ IsFiniteSet(Y)
    BY <1>4, <1>6, FS_RemoveElement
  <2> QED
    BY <1>4, <2>1, FS_CardinalityType
<1> DEFINE n == Cardinality(X)
           u == [i \in 1..n |-> IF i = n THEN m ELSE s[i]]
<1>10. s \in [1..(n - 1) -> Y] /\ \A i, j \in 1..(n - 1) : i < j => Before(s[i], s[j])
  BY <1>8, <1>9 DEF SortsOf
<1>11. n \in Nat
  BY <1>9
<1>12. Y \subseteq X /\ \A k \in Y : Before(k, m)
  BY <1>6
<1> HIDE DEF n, Y
<1>13. u \in [1..n -> X]
  BY <1>6, <1>10, <1>11, <1>12
<1>14. \A i, j \in 1..n : i < j => Before(u[i], u[j])
  BY <1>10, <1>11, <1>12
<1>15. u \in SortsOf(X)
  BY <1>13, <1>14 DEF SortsOf, n
<1> QED
  BY <1>4, <1>15

(* Chronological lists every instant of the set once, in order.              *)
LEMMA ChronologicalLists ==
  ASSUME NEW S \in SUBSET Instants, IsFiniteSet(S)
  PROVE  /\ Cardinality(S) \in Nat
         /\ Chronological(S) \in [1..Cardinality(S) -> S]
         /\ \A i, j \in 1..Cardinality(S) :
              i < j => Before(Chronological(S)[i], Chronological(S)[j])
         /\ \A k \in S : \E i \in 1..Cardinality(S) : Chronological(S)[i] = k
<1> DEFINE n == Cardinality(S)
           rank(x) == Cardinality({t \in S : Before(t, x)})
<1>1. n \in Nat
  BY FS_CardinalityType
<1>2. PICK s \in SortsOf(S) : TRUE
  BY OrderExists
<1>3. s \in [1..n -> S] /\ \A i, j \in 1..n : i < j => Before(s[i], s[j])
  BY <1>2 DEF SortsOf
<1> HIDE DEF n
<1>4. \A i, j \in 1..n : Before(s[i], s[j]) => i < j
  <2> SUFFICES ASSUME NEW i \in 1..n, NEW j \in 1..n, Before(s[i], s[j]), ~(i < j) PROVE FALSE
    OBVIOUS
  <2>1. s[i] \in Instants /\ s[j] \in Instants
    BY <1>3
  <2>2. j < i \/ i = j
    BY <1>1
  <2> QED
    BY <1>3, <2>1, <2>2, BeforeOrders
<1>5. \A i, j \in 1..n : s[i] = s[j] => i = j
  <2> SUFFICES ASSUME NEW i \in 1..n, NEW j \in 1..n, s[i] = s[j], i # j PROVE FALSE
    OBVIOUS
  <2>1. i < j \/ j < i
    BY <1>1
  <2>2. s[i] \in Instants
    BY <1>3
  <2> QED
    BY <1>3, <2>1, <2>2, BeforeOrders
<1>6. \A k \in S : \E i \in 1..n : s[i] = k
  <2>1. s \in Injection(1..n, S)
    BY <1>3, <1>5 DEF Injection, IsInjective
  <2>2. Cardinality(1..n) = Cardinality(S)
    BY <1>1, FS_Interval DEF n
  <2>3. s \in Surjection(1..n, S)
    BY <2>1, <2>2, FS_Injection
  <2> QED
    BY <2>3 DEF Surjection
<1>7. ASSUME NEW i \in 1..n PROVE rank(s[i]) = i - 1
  <2> DEFINE T == {t \in S : Before(t, s[i])}
             g == [j \in 1..(i - 1) |-> s[j]]
  <2>1. \A j \in 1..(i - 1) : j \in 1..n /\ j < i
    BY <1>1
  <2>2. g \in [1..(i - 1) -> T]
    BY <1>3, <2>1
  <2>3. \A j, k \in 1..(i - 1) : g[j] = g[k] => j = k
    BY <1>5, <2>1
  <2>4. \A t \in T : \E j \in 1..(i - 1) : g[j] = t
    <3> SUFFICES ASSUME NEW t \in T PROVE \E j \in 1..(i - 1) : g[j] = t
      OBVIOUS
    <3>1. PICK j \in 1..n : s[j] = t
      BY <1>6
    <3>2. j < i
      BY <1>4, <3>1
    <3>3. j \in 1..(i - 1)
      BY <1>1, <3>2
    <3> QED
      BY <3>1, <3>3
  <2> HIDE DEF g
  <2>5. g \in Injection(1..(i - 1), T) /\ g \in Surjection(1..(i - 1), T)
    BY <2>2, <2>3, <2>4 DEF Injection, IsInjective, Surjection
  <2>6. IsFiniteSet(1..(i - 1)) /\ Cardinality(1..(i - 1)) = i - 1
    BY <1>1, FS_Interval
  <2> HIDE DEF T
  <2>7. Cardinality(T) = Cardinality(1..(i - 1))
    BY <2>5, <2>6, FS_Surjection
  <2> QED
    BY <2>6, <2>7 DEF T
<1>8. ASSUME NEW i \in 1..n PROVE Chronological(S)[i] = s[i]
  <2> DEFINE c == CHOOSE x \in S : rank(x) = i - 1
  <2>1. Chronological(S)[i] = c
    BY DEF Chronological, n
  <2>2. s[i] \in S /\ rank(s[i]) = i - 1
    BY <1>3, <1>7
  <2>3. c \in S /\ rank(c) = i - 1
    <3> HIDE DEF rank
    <3> QED
      BY <2>2
  <2>4. PICK j \in 1..n : s[j] = c
    BY <1>6, <2>3
  <2>5. j - 1 = i - 1
    <3>1. rank(s[j]) = j - 1
      BY <1>7
    <3> HIDE DEF rank
    <3> QED
      BY <2>3, <2>4, <3>1
  <2> QED
    BY <1>1, <2>1, <2>4, <2>5
<1>9. Chronological(S) = s
  <2> DEFINE e(i) == CHOOSE x \in S : rank(x) = i - 1
             f == [i \in 1..n |-> e(i)]
  <2>1. Chronological(S) = [i \in 1..n |-> Chronological(S)[i]]
    <3>1. Chronological(S) = f
      BY Zenon DEF Chronological, n
    <3>2. f = [i \in 1..n |-> f[i]]
      <4> HIDE DEF e
      <4> QED
        OBVIOUS
    <3> HIDE DEF f
    <3> QED
      BY <3>1, <3>2
  <2> QED
    BY <1>3, <1>8, <2>1
<1> QED
  BY <1>1, <1>3, <1>6, <1>9 DEF n

(* Induction up to a number, for a set of numbers.                           *)
LEMMA Climb ==
  ASSUME NEW n \in Nat, NEW P, 0 \in P, \A i \in 0..n : i < n /\ i \in P => i + 1 \in P
  PROVE  \A i \in 0..n : i \in P
<1> DEFINE F == {i \in 0..n : i \notin P}
<1>1. SUFFICES ASSUME F # {} PROVE FALSE
  OBVIOUS
<1>2. F \in SUBSET Nat
  OBVIOUS
<1>3. PICK m \in F : \A k \in F : m <= k
  <2> HIDE DEF F
  <2> QED BY <1>1, <1>2, LeastNumber
<1>4. m \in 0..n /\ m \notin P /\ m # 0
  OBVIOUS
<1>5. m - 1 \in 0..n /\ m - 1 < n /\ m - 1 + 1 = m
  BY <1>4
<1>6. m - 1 \in P
  <2>1. m - 1 \notin F
    BY <1>3, <1>5
  <2> QED
    BY <1>5, <2>1
<1> QED
  BY <1>4, <1>5, <1>6

(* A sequence that lists a set of instants in order.                         *)
Listed(seq, R) ==
  /\ Len(seq) \in Nat
  /\ \A i \in 1..Len(seq) : seq[i] \in R
  /\ \A i, j \in 1..Len(seq) : i < j <=> Before(seq[i], seq[j])
  /\ \A i, j \in 1..Len(seq) : seq[i] = seq[j] => i = j
  /\ \A s \in R : \E i \in 1..Len(seq) : seq[i] = s

(* Chronological lists its set.                                              *)
LEMMA ChronologicalListed ==
  ASSUME NEW R \in SUBSET Instants, IsFiniteSet(R)
  PROVE  Listed(Chronological(R), R)
<1> DEFINE s == Chronological(R)
           n == Cardinality(R)
<1>1. /\ n \in Nat
      /\ s \in [1..n -> R]
      /\ \A i, j \in 1..n : i < j => Before(s[i], s[j])
      /\ \A k \in R : \E i \in 1..n : s[i] = k
  BY ChronologicalLists
<1> HIDE DEF s, n
<1>2. s \in Seq(R) /\ Len(s) = n
  BY <1>1
<1>3. \A i \in 1..n : s[i] \in R /\ s[i] \in Instants
  BY <1>1
<1>4. \A i, j \in 1..n : Before(s[i], s[j]) => i < j
  <2> SUFFICES ASSUME NEW i \in 1..n, NEW j \in 1..n, Before(s[i], s[j]), ~(i < j) PROVE FALSE
    OBVIOUS
  <2>1. j < i \/ i = j
    BY <1>1
  <2> QED
    BY <1>1, <1>3, <2>1, BeforeOrders
<1>5. \A i, j \in 1..n : s[i] = s[j] => i = j
  <2> SUFFICES ASSUME NEW i \in 1..n, NEW j \in 1..n, s[i] = s[j], i # j PROVE FALSE
    OBVIOUS
  <2>1. i < j \/ j < i
    BY <1>1
  <2> QED
    BY <1>1, <1>3, <2>1, BeforeOrders
<1> QED
  BY <1>1, <1>2, <1>3, <1>4, <1>5 DEF Listed, s

-----------------------------------------------------------------------------
(* The ends of a finite set of numbers belong to it.                        *)
LEMMA Ends ==
  ASSUME NEW S \in SUBSET Int, S # {}, IsFiniteSet(S)
  PROVE  /\ Min(S) \in S /\ Max(S) \in S
         /\ \A n \in S : Min(S) <= n /\ n <= Max(S)
<1>1. Min(S) \in S /\ \A n \in S : Min(S) <= n
  <2>1. \E m \in S : \A n \in S : m <= n
    BY LeastInteger
  <2> QED
    BY <2>1 DEF Min
<1>2. Max(S) \in S /\ \A n \in S : n <= Max(S)
  <2>1. \E m \in S : \A n \in S : n <= m
    BY GreatestInteger
  <2>2. \E m \in S : \A n \in S : m >= n
    BY <2>1
  <2>3. Max(S) \in S /\ \A n \in S : Max(S) >= n
    BY <2>2 DEF Max
  <2> QED
    BY <2>3
<1> QED
  BY <1>1, <1>2

(* The smaller and the larger of two numbers.                               *)
LEMMA OfTwo ==
  ASSUME NEW a \in Int, NEW b \in Int
  PROVE  /\ Min({a, b}) \in {a, b} /\ Min({a, b}) <= a /\ Min({a, b}) <= b
         /\ Max({a, b}) \in {a, b} /\ a <= Max({a, b}) /\ b <= Max({a, b})
<1> DEFINE S == {a, b}
<1>1. S \in SUBSET Int /\ S # {} /\ a \in S /\ b \in S
  OBVIOUS
<1>2. IsFiniteSet(S)
  <2>1. IsFiniteSet({a} \cup {b})
    BY FS_Singleton, FS_Union
  <2>2. S = {a} \cup {b}
    OBVIOUS
  <2> QED
    BY <2>1, <2>2
<1>3. /\ Min(S) \in S /\ Max(S) \in S
      /\ \A n \in S : Min(S) <= n /\ n <= Max(S)
  <2> HIDE DEF S
  <2> QED BY <1>1, <1>2, Ends
<1> QED
  BY <1>1, <1>3

(* The sum of a function over a finite set is taken as a fold takes it.      *)
LEMMA SumIsFold ==
  ASSUME NEW S, IsFiniteSet(S), NEW f
  PROVE  \E h : AddsUp(h, f, S) /\ SumFunctionOnSet(f, S) = h[S]
<1> DEFINE step(h, s) == IF s = {} THEN 0
                         ELSE f[CHOOSE x \in s : TRUE] + h[s \ {CHOOSE x \in s : TRUE}]
           total == CHOOSE h : h = [s \in SUBSET S |-> step(h, s)]
<1>1. SumFunctionOnSet(f, S) = total[S]
  BY DEF SumFunctionOnSet, FoldFunctionOnSet, MapThenFoldSet
<1>2. ASSUME NEW h, NEW s \in SUBSET S
      PROVE  step(h, s) = IF s = {} THEN 0 ELSE f[Some(s)] + h[s \ {Some(s)}]
  BY Zenon DEF Some
<1> HIDE DEF step
<1>3. PICK k : AddsUp(k, f, S)
  BY SumExists
<1>4. k = [s \in SUBSET S |-> step(k, s)]
  <2>1. \A s \in SUBSET S : k[s] = step(k, s)
    BY <1>2, <1>3, Zenon DEF AddsUp
  <2>2. k = [s \in SUBSET S |-> k[s]]
    BY <1>3, Zenon DEF AddsUp
  <2> QED
    BY <2>1, <2>2
<1>5. total = [s \in SUBSET S |-> step(total, s)]
  BY <1>4, Zenon
<1> HIDE DEF total
<1>6. AddsUp(total, f, S)
  <2>1. \A s \in SUBSET S : total[s] = step(total, s)
    BY <1>5
  <2>2. total = [s \in SUBSET S |-> total[s]]
    BY <1>5, <2>1
  <2> QED
    BY <1>2, <2>1, <2>2, Zenon DEF AddsUp
<1> QED
  BY <1>1, <1>6

(* The two cases of a sum.                                                   *)
LEMMA SumCases ==
  ASSUME NEW S, IsFiniteSet(S), NEW f
  PROVE  /\ SumFunctionOnSet(f, {}) = 0
         /\ S # {} => SumFunctionOnSet(f, S) = f[Some(S)] + SumFunctionOnSet(f, S \ {Some(S)})
<1>1. SumFunctionOnSet(f, {}) = 0
  <2>1. IsFiniteSet({})
    BY FS_EmptySet
  <2>2. PICK h : AddsUp(h, f, {}) /\ SumFunctionOnSet(f, {}) = h[{}]
    BY <2>1, SumIsFold
  <2>3. h[{}] = 0
    BY <2>2, Zenon DEF AddsUp
  <2> QED
    BY <2>2, <2>3
<1>2. ASSUME S # {} PROVE SumFunctionOnSet(f, S) = f[Some(S)] + SumFunctionOnSet(f, S \ {Some(S)})
  <2> DEFINE T == S \ {Some(S)}
  <2>1. T \subseteq S /\ IsFiniteSet(T)
    BY FS_Subset
  <2> HIDE DEF T
  <2>2. PICK h : AddsUp(h, f, S) /\ SumFunctionOnSet(f, S) = h[S]
    BY SumIsFold
  <2>3. PICK g : AddsUp(g, f, T) /\ SumFunctionOnSet(f, T) = g[T]
    BY <2>1, SumIsFold
  <2> DEFINE r == [s \in SUBSET T |-> h[s]]
  <2>4. AddsUp(r, f, T)
    <3>1. r = [s \in SUBSET T |-> r[s]]
      OBVIOUS
    <3>2. ASSUME NEW s \in SUBSET T
          PROVE  r[s] = IF s = {} THEN 0 ELSE f[Some(s)] + r[s \ {Some(s)}]
      <4>1. s \in SUBSET S /\ s \ {Some(s)} \in SUBSET T
        BY <2>1
      <4>2. r[s] = h[s] /\ r[s \ {Some(s)}] = h[s \ {Some(s)}]
        BY <4>1
      <4>3. h[s] = IF s = {} THEN 0 ELSE f[Some(s)] + h[s \ {Some(s)}]
        BY <2>2, <4>1, Zenon DEF AddsUp
      <4> QED
        BY <4>2, <4>3, Zenon
    <3> QED
      BY <3>1, <3>2, Zenon DEF AddsUp
  <2>5. r[T] = h[T]
    OBVIOUS
  <2> HIDE DEF r
  <2>6. r[T] = g[T]
    BY <2>1, <2>3, <2>4, SumUnique
  <2>7. h[S] = f[Some(S)] + h[T]
    BY <1>2, <2>2, Zenon DEF AddsUp, T
  <2> QED
    BY <2>2, <2>3, <2>5, <2>6, <2>7 DEF T
<1> QED
  BY <1>1, <1>2

(* A sum of integers is an integer, and any member may be taken first.       *)
LEMMA SumInteger ==
  ASSUME NEW S, IsFiniteSet(S), NEW f, \A x \in S : f[x] \in Int
  PROVE  SumFunctionOnSet(f, S) \in Int
<1> DEFINE F == {s \in SUBSET S : SumFunctionOnSet(f, s) \notin Int}
<1>1. SUFFICES ASSUME F # {} PROVE FALSE
  OBVIOUS
<1>2. F \in SUBSET (SUBSET S)
  OBVIOUS
<1>3. PICK X \in F : \A Y \in SUBSET X : Y # X => Y \notin F
  <2> HIDE DEF F
  <2> QED BY <1>1, <1>2, LeastSubset
<1>4. X \in SUBSET S /\ SumFunctionOnSet(f, X) \notin Int /\ IsFiniteSet(X)
  BY FS_Subset
<1>5. X # {}
  <2>1. SumFunctionOnSet(f, {}) = 0
    BY SumCases
  <2> QED
    BY <1>4, <2>1
<1>6. /\ Some(X) \in S
      /\ X \ {Some(X)} \in SUBSET X /\ X \ {Some(X)} # X /\ X \ {Some(X)} \in SUBSET S
  BY <1>4, <1>5, SomeTaken
<1>7. SumFunctionOnSet(f, X \ {Some(X)}) \in Int
  BY <1>3, <1>6
<1>8. SumFunctionOnSet(f, X) = f[Some(X)] + SumFunctionOnSet(f, X \ {Some(X)})
  BY <1>4, <1>5, SumCases
<1> QED
  BY <1>4, <1>6, <1>7, <1>8

LEMMA SumTakes ==
  ASSUME NEW S, IsFiniteSet(S), NEW f, \A x \in S : f[x] \in Int, NEW a \in S
  PROVE  SumFunctionOnSet(f, S) = f[a] + SumFunctionOnSet(f, S \ {a})
<1> DEFINE sum(s) == SumFunctionOnSet(f, s)
           F == {s \in SUBSET S : \E x \in s : sum(s) # f[x] + sum(s \ {x})}
<1>1. SUFFICES ASSUME F # {} PROVE FALSE
  OBVIOUS
<1>2. F \in SUBSET (SUBSET S)
  OBVIOUS
<1>3. PICK X \in F : \A Y \in SUBSET X : Y # X => Y \notin F
  <2> HIDE DEF F
  <2> QED BY <1>1, <1>2, LeastSubset
<1>4. X \in SUBSET S /\ IsFiniteSet(X)
  BY FS_Subset
<1>5. PICK x \in X : sum(X) # f[x] + sum(X \ {x})
  OBVIOUS
<1> DEFINE b == Some(X)
<1>6. b \in X
  BY SomeTaken
<1>7. sum(X) = f[b] + sum(X \ {b})
  BY <1>4, <1>5, SumCases
<1> HIDE DEF b
<1>8. b # x
  BY <1>5, <1>7
<1> DEFINE Y == X \ {b}
           Z == X \ {x}
           W == X \ {b, x}
<1>9. Y \in SUBSET X /\ Y # X /\ Z \in SUBSET X /\ Z # X /\ Y \in SUBSET S /\ Z \in SUBSET S
  BY <1>4, <1>6
<1>10. Y \ {x} = W /\ Z \ {b} = W /\ x \in Y /\ b \in Z
  BY <1>6, <1>8
<1>11. Y \notin F /\ Z \notin F
  <2> HIDE DEF F, Y, Z
  <2> QED
    BY <1>3, <1>9
<1>12. IsFiniteSet(W) /\ \A y \in W : f[y] \in Int
  BY <1>4, FS_Subset
<1>13. sum(X) = f[b] + sum(Y) /\ sum(X) # f[x] + sum(Z)
  BY <1>5, <1>7
<1> HIDE DEF Y, Z, W
<1>14. \A y \in Y : sum(Y) = f[y] + sum(Y \ {y})
  BY <1>9, <1>11
<1>15. \A y \in Z : sum(Z) = f[y] + sum(Z \ {y})
  BY <1>9, <1>11
<1>16. sum(W) \in Int
  BY <1>12, SumInteger
<1>17. f[b] \in Int /\ f[x] \in Int
  BY <1>4, <1>6
<1> HIDE DEF sum, F
<1>18. sum(Y) = f[x] + sum(W)
  BY <1>10, <1>14
<1>19. sum(Z) = f[b] + sum(W)
  BY <1>10, <1>15
<1> QED
  BY <1>13, <1>16, <1>17, <1>18, <1>19

(* The sum over two sets that share nothing is the sum of the sums.          *)
LEMMA SumSplits ==
  ASSUME NEW A, NEW B, IsFiniteSet(A), IsFiniteSet(B), A \cap B = {},
         NEW f, \A x \in A \cup B : f[x] \in Int
  PROVE  SumFunctionOnSet(f, A \cup B) = SumFunctionOnSet(f, A) + SumFunctionOnSet(f, B)
<1> DEFINE sum(s) == SumFunctionOnSet(f, s)
           F == {s \in SUBSET B : sum(A \cup s) # sum(A) + sum(s)}
<1>1. SUFFICES ASSUME F # {} PROVE FALSE
  OBVIOUS
<1>2. F \in SUBSET (SUBSET B)
  OBVIOUS
<1>3. PICK X \in F : \A Y \in SUBSET X : Y # X => Y \notin F
  <2> HIDE DEF F
  <2> QED BY <1>1, <1>2, LeastSubset
<1>4. X \in SUBSET B /\ sum(A \cup X) # sum(A) + sum(X) /\ IsFiniteSet(X)
  BY FS_Subset
<1>5. sum(A) \in Int
  BY SumInteger
<1>6. X # {}
  <2>1. sum({}) = 0
    BY FS_EmptySet, SumCases
  <2> HIDE DEF sum
  <2> SUFFICES ASSUME X = {} PROVE FALSE
    OBVIOUS
  <2>2. A \cup X = A
    OBVIOUS
  <2> QED
    BY <1>4, <1>5, <2>1, <2>2
<1>7. PICK x \in X : TRUE
  BY <1>6
<1> DEFINE Y == X \ {x}
<1>8. Y \in SUBSET X /\ Y # X /\ Y \in SUBSET B /\ IsFiniteSet(Y)
  BY <1>4, <1>7, FS_Subset
<1>9. Y \notin F
  <2> HIDE DEF F, Y
  <2> QED
    BY <1>3, <1>8
<1>10. sum(A \cup Y) = sum(A) + sum(Y)
  BY <1>8, <1>9
<1>11. sum(X) = f[x] + sum(Y)
  BY <1>4, <1>7, SumTakes
<1>12. sum(A \cup X) = f[x] + sum(A \cup Y)
  <2>1. (A \cup X) \ {x} = A \cup Y /\ x \in A \cup X
    BY <1>4, <1>7
  <2>2. IsFiniteSet(A \cup X) /\ \A y \in A \cup X : f[y] \in Int
    BY <1>4, FS_Union
  <2> HIDE DEF Y
  <2> QED
    BY <2>1, <2>2, SumTakes
<1>13. sum(Y) \in Int /\ f[x] \in Int
  BY <1>4, <1>8, SumInteger
<1> HIDE DEF sum, Y
<1> QED
  BY <1>4, <1>5, <1>10, <1>11, <1>12, <1>13

(* Functions that agree on a set have one sum over it.                       *)
LEMMA SumAgrees ==
  ASSUME NEW S, IsFiniteSet(S), NEW f, NEW g, \A x \in S : f[x] = g[x]
  PROVE  SumFunctionOnSet(f, S) = SumFunctionOnSet(g, S)
<1> DEFINE F == {s \in SUBSET S : SumFunctionOnSet(f, s) # SumFunctionOnSet(g, s)}
<1>1. SUFFICES ASSUME F # {} PROVE FALSE
  OBVIOUS
<1>2. F \in SUBSET (SUBSET S)
  OBVIOUS
<1>3. PICK X \in F : \A Y \in SUBSET X : Y # X => Y \notin F
  <2> HIDE DEF F
  <2> QED BY <1>1, <1>2, LeastSubset
<1>4. X \in SUBSET S /\ SumFunctionOnSet(f, X) # SumFunctionOnSet(g, X) /\ IsFiniteSet(X)
  BY FS_Subset
<1>5. X # {}
  BY <1>4, SumCases
<1>6. /\ Some(X) \in S
      /\ X \ {Some(X)} \in SUBSET X /\ X \ {Some(X)} # X /\ X \ {Some(X)} \in SUBSET S
  BY <1>4, <1>5, SomeTaken
<1>7. SumFunctionOnSet(f, X \ {Some(X)}) = SumFunctionOnSet(g, X \ {Some(X)})
  BY <1>3, <1>6
<1>8. /\ SumFunctionOnSet(f, X) = f[Some(X)] + SumFunctionOnSet(f, X \ {Some(X)})
      /\ SumFunctionOnSet(g, X) = g[Some(X)] + SumFunctionOnSet(g, X \ {Some(X)})
  BY <1>4, <1>5, SumCases
<1> QED
  BY <1>4, <1>6, <1>7, <1>8

(* A sum of values between two bounds, each taken with a weight, lies between *)
(* the bounds taken with the sum of the weights, which is zero only when each *)
(* of them is.                                                                *)
LEMMA WeightedSum ==
  ASSUME NEW S, IsFiniteSet(S), NEW v, NEW w, NEW lo \in Int, NEW hi \in Int,
         \A x \in S : v[x] \in Int /\ w[x] \in Nat /\ lo * w[x] <= v[x] /\ v[x] <= hi * w[x]
  PROVE  /\ SumFunctionOnSet(v, S) \in Int /\ SumFunctionOnSet(w, S) \in Nat
         /\ SumFunctionOnSet(w, S) = 0 => \A x \in S : w[x] = 0
         /\ lo * SumFunctionOnSet(w, S) <= SumFunctionOnSet(v, S)
         /\ SumFunctionOnSet(v, S) <= hi * SumFunctionOnSet(w, S)
<1> DEFINE V(s) == SumFunctionOnSet(v, s)
           W(s) == SumFunctionOnSet(w, s)
           Good(s) == /\ W(s) \in Nat /\ (W(s) = 0 => \A x \in s : w[x] = 0)
                      /\ lo * W(s) <= V(s) /\ V(s) <= hi * W(s)
           F == {s \in SUBSET S : ~Good(s)}
<1>0. ASSUME NEW s \in SUBSET S PROVE V(s) \in Int /\ W(s) \in Int
  <2>1. IsFiniteSet(s) /\ \A x \in s : v[x] \in Int /\ w[x] \in Int
    BY FS_Subset
  <2> QED
    BY <2>1, SumInteger
<1>1. SUFFICES ASSUME F # {} PROVE FALSE
  <2> HIDE DEF V, W
  <2>1. S \in SUBSET S
    OBVIOUS
  <2>2. Good(S)
    BY <1>1, <2>1
  <2> QED
    BY <1>0, <2>1, <2>2 DEF V, W
<1>2. F \in SUBSET (SUBSET S)
  OBVIOUS
<1>3. PICK X \in F : \A Y \in SUBSET X : Y # X => Y \notin F
  <2> HIDE DEF F
  <2> QED BY <1>1, <1>2, LeastSubset
<1>4. X \in SUBSET S /\ ~Good(X) /\ IsFiniteSet(X)
  BY FS_Subset
<1>5. X # {}
  <2>1. V({}) = 0 /\ W({}) = 0
    BY SumCases, FS_EmptySet
  <2> HIDE DEF V, W
  <2>2. Good({})
    BY <2>1
  <2> QED
    BY <1>4, <2>2
<1> DEFINE a == Some(X)
           Y == X \ {Some(X)}
<1>6. a \in S /\ Y \in SUBSET X /\ Y # X /\ Y \in SUBSET S
  BY <1>4, <1>5, SomeTaken
<1>7. V(X) = v[a] + V(Y) /\ W(X) = w[a] + W(Y)
  BY <1>4, <1>5, SumCases
<1> HIDE DEF V, W, a, Y
<1>8. Good(Y)
  BY <1>3, <1>6
<1>9. V(Y) \in Int /\ W(Y) \in Nat /\ v[a] \in Int /\ w[a] \in Nat
  BY <1>0, <1>6, <1>8
<1>10. lo * w[a] <= v[a] /\ v[a] <= hi * w[a]
  BY <1>6
<1>11. lo * W(X) = lo * w[a] + lo * W(Y) /\ hi * W(X) = hi * w[a] + hi * W(Y)
  <2>1. \A c, m, n \in Int : c * (m + n) = c * m + c * n
    OBVIOUS
  <2> QED
    BY <1>7, <1>9, <2>1
<1>12. W(X) \in Nat /\ (W(X) = 0 => \A x \in X : w[x] = 0)
  <2>1. W(X) \in Nat
    BY <1>7, <1>9
  <2>2. ASSUME W(X) = 0 PROVE \A x \in X : w[x] = 0
    <3>1. w[a] = 0 /\ W(Y) = 0
      BY <1>7, <1>9, <2>2
    <3>2. \A x \in X : x = a \/ x \in Y
      BY DEF a, Y
    <3> QED
      BY <1>8, <3>1, <3>2
  <2> QED
    BY <2>1, <2>2
<1>13. lo * w[a] \in Int /\ hi * w[a] \in Int /\ lo * W(Y) \in Int /\ hi * W(Y) \in Int
  BY <1>9
<1>14. lo * W(X) <= V(X) /\ V(X) <= hi * W(X)
  <2> DEFINE l == lo * w[a]
             m == lo * W(Y)
             n == hi * w[a]
             o == hi * W(Y)
  <2>1. l \in Int /\ m \in Int /\ n \in Int /\ o \in Int
    BY <1>13
  <2>2. l <= v[a] /\ m <= V(Y) /\ v[a] <= n /\ V(Y) <= o
    BY <1>8, <1>10
  <2>3. lo * W(X) = l + m /\ hi * W(X) = n + o
    BY <1>11
  <2> HIDE DEF l, m, n, o, Good
  <2>4. l + m <= v[a] + V(Y) /\ v[a] + V(Y) <= n + o
    BY <1>9, <2>1, <2>2
  <2> QED
    BY <1>7, <2>3, <2>4
<1> QED
  BY <1>4, <1>12, <1>14

(* A quotient lies between the bounds that hold of the dividend.              *)
LEMMA QuotientBetween ==
  ASSUME NEW p \in Int, NEW q \in Nat \ {0}, NEW lo \in Int, NEW hi \in Int,
         lo * q <= p, p <= hi * q
  PROVE  p \div q \in Int /\ lo <= p \div q /\ p \div q <= hi
<1> DEFINE d == p \div q
           r == p % q
<1>1. d \in Int /\ r \in 0..(q - 1) /\ p = q * d + r
  OBVIOUS
<1> HIDE DEF d, r
<1>2. lo <= d
  <2> SUFFICES ASSUME d + 1 <= lo PROVE FALSE
    BY <1>1
  <2>1. \A a, b \in Int : a <= b => q * a <= q * b
    OBVIOUS
  <2>2. q * (d + 1) <= q * lo
    BY <1>1, <2>1
  <2>3. q * (d + 1) = q * d + q /\ q * lo = lo * q
    BY <1>1
  <2> DEFINE m == q * d
             n == lo * q
  <2>4. m \in Int /\ n \in Int /\ m + q <= n /\ n <= p /\ p = m + r
    BY <1>1, <2>2, <2>3
  <2> HIDE DEF m, n
  <2> QED
    BY <1>1, <2>4
<1>3. d <= hi
  <2> SUFFICES ASSUME hi + 1 <= d PROVE FALSE
    BY <1>1
  <2>1. \A a, b \in Int : a <= b => q * a <= q * b
    OBVIOUS
  <2>2. q * (hi + 1) <= q * d
    BY <1>1, <2>1
  <2>3. q * (hi + 1) = hi * q + q
    BY <1>1
  <2> DEFINE m == q * d
             n == hi * q
  <2>4. m \in Int /\ n \in Int /\ n + q <= m /\ p <= n /\ p = m + r
    BY <1>1, <2>2, <2>3
  <2> HIDE DEF m, n
  <2> QED
    BY <1>1, <2>4
<1> QED
  BY <1>1, <1>2, <1>3 DEF d

(* Two timestamps or more have neighbours, at positive intervals.             *)
LEMMA NeighboursExist ==
  ASSUME NEW S \in SUBSET Int, IsFiniteSet(S), ~(Cardinality(S) < 2)
  PROVE  /\ IsFiniteSet(Neighbours(S)) /\ Neighbours(S) # {}
         /\ \A q \in Neighbours(S) : q[2] - q[1] \in Nat \ {0}
<1> DEFINE P == Neighbours(S)
<1>1. IsFiniteSet(P)
  <2>1. IsFiniteSet(S \X S)
    BY FS_Product
  <2>2. P \subseteq S \X S
    BY DEF Neighbours
  <2> QED
    BY <2>1, <2>2, FS_Subset
<1>2. ASSUME NEW q \in P PROVE q[2] - q[1] \in Nat \ {0}
  <2>1. q \in S \X S /\ q[1] < q[2]
    BY DEF Neighbours
  <2>2. q[1] \in Int /\ q[2] \in Int
    BY <2>1
  <2> QED
    BY <2>1, <2>2
<1>3. S # {}
  BY FS_EmptySet
<1>4. PICK a \in S : \A t \in S : a <= t
  BY <1>3, LeastInteger
<1> DEFINE T == S \ {a}
<1>5. T \in SUBSET Int /\ IsFiniteSet(T)
  BY FS_Subset
<1>6. T # {}
  <2> SUFFICES ASSUME T = {} PROVE FALSE
    OBVIOUS
  <2>1. S = {a}
    OBVIOUS
  <2>2. Cardinality(S) = 1
    BY <2>1, FS_Singleton
  <2> QED
    BY <2>2
<1>7. PICK b \in T : \A t \in T : b <= t
  <2> HIDE DEF T
  <2> QED
    BY <1>5, <1>6, LeastInteger
<1>8. <<a, b>> \in P
  BY <1>4, <1>7 DEF Neighbours
<1> QED
  BY <1>1, <1>2, <1>8

(* The median of the intervals is positive.                                   *)
LEMMA MedianPositive ==
  ASSUME NEW S \in SUBSET Int, IsFiniteSet(S), ~(Cardinality(S) < 2)
  PROVE  /\ DoubleMedian(S) \in Nat \ {0}
         /\ Max({q[2] - q[1] : q \in Neighbours(S)}) \in Int
<1> DEFINE P == Neighbours(S)
           n == Cardinality(P)
           g == [q \in P |-> q[2] - q[1]]
           below(m) == Cardinality({q \in P : q[2] - q[1] <= m})
           T(k) == {q[2] - q[1] : q \in {r \in P : below(r[2] - r[1]) >= k}}
           at(k) == Min(T(k))
           I == {q[2] - q[1] : q \in P}
<1>1. IsFiniteSet(P) /\ P # {} /\ \A q \in P : q[2] - q[1] \in Nat \ {0}
  BY NeighboursExist
<1>2. n \in Nat \ {0}
  BY <1>1, FS_CardinalityType, FS_EmptySet
<1>3. DoubleMedian(S) = IF n % 2 = 1 THEN 2 * at((n + 1) \div 2) ELSE at(n \div 2) + at(n \div 2 + 1)
  BY Zenon DEF DoubleMedian
<1> HIDE DEF P
<1>4. IsFiniteSet(I)
  <2>1. DOMAIN g = P /\ g = [q \in P |-> g[q]]
    OBVIOUS
  <2>2. {g[q] : q \in P} = I
    OBVIOUS
  <2> HIDE DEF g
  <2>3. IsFiniteSet({g[q] : q \in P})
    BY <1>1, <2>1, FiniteImage
  <2> QED
    BY <2>2, <2>3
<1>5. I \in SUBSET Int /\ I # {}
  BY <1>1
<1>6. PICK m \in I : \A i \in I : i <= m
  <2> HIDE DEF I
  <2> QED
    BY <1>4, <1>5, GreatestInteger
<1>7. Max(I) \in Int
  <2> HIDE DEF I
  <2> QED
    BY <1>4, <1>5, Ends
<1>8. ASSUME NEW k \in 1..n PROVE at(k) \in Nat \ {0}
  <2>1. T(k) \subseteq I
    OBVIOUS
  <2>2. {q \in P : q[2] - q[1] <= m} = P
    BY <1>6
  <2>3. below(m) = n
    BY <2>2
  <2>4. PICK r \in P : r[2] - r[1] = m
    BY <1>6
  <2>5. below(r[2] - r[1]) >= k
    <3>1. below(r[2] - r[1]) = n
      BY <2>3, <2>4
    <3> HIDE DEF below, n
    <3> QED
      BY <1>2, <3>1
  <2>6. r[2] - r[1] \in T(k)
    BY <2>5
  <2>7. \A i \in I : i \in Nat \ {0}
    BY <1>1
  <2> HIDE DEF T, I
  <2>8. T(k) \in SUBSET Int /\ T(k) # {} /\ IsFiniteSet(T(k))
    BY <1>4, <1>5, <2>1, <2>6, FS_Subset
  <2>9. Min(T(k)) \in T(k)
    BY <2>8, Ends
  <2> QED
    BY <2>1, <2>7, <2>9
<1> HIDE DEF at, n, I
<1>9. DoubleMedian(S) \in Nat \ {0}
  <2>1. CASE n % 2 = 1
    <3>1. (n + 1) \div 2 \in 1..n
      BY <1>2
    <3>2. at((n + 1) \div 2) \in Nat \ {0}
      BY <1>8, <3>1
    <3> QED
      BY <1>3, <2>1, <3>2
  <2>2. CASE n % 2 # 1
    <3>1. n \div 2 \in 1..n /\ n \div 2 + 1 \in 1..n
      BY <1>2, <2>2
    <3>2. at(n \div 2) \in Nat \ {0} /\ at(n \div 2 + 1) \in Nat \ {0}
      BY <1>8, <3>1
    <3> QED
      BY <1>3, <2>2, <3>2
  <2> QED
    BY <2>1, <2>2
<1> QED
  BY <1>7, <1>9 DEF I, P

(* The sum of a function of integers, and of numbers.                         *)
LEMMA SumTyped ==
  ASSUME NEW S, IsFiniteSet(S), NEW g, DOMAIN g = S
  PROVE  /\ (\A x \in S : g[x] \in Int) => SumFunction(g) \in Int
         /\ (\A x \in S : g[x] \in Nat) => SumFunction(g) \in Nat
<1>0. SumFunction(g) = SumFunctionOnSet(g, S)
  BY Zenon DEF SumFunction
<1>1. ASSUME \A x \in S : g[x] \in Int PROVE SumFunction(g) \in Int
  BY <1>0, <1>1, SumInteger
<1>2. ASSUME \A x \in S : g[x] \in Nat PROVE SumFunction(g) \in Nat
  <2>1. PICK h : AddsUp(h, g, S) /\ SumFunctionOnSet(g, S) = h[S]
    BY SumIsFold
  <2>2. h[S] \in Nat
    BY <1>2, <2>1, SumNat
  <2> QED
    BY <1>0, <2>1, <2>2
<1> QED
  BY <1>1, <1>2

(* A division by a positive number.                                           *)
LEMMA Quotient == \A a \in Int, b \in Nat \ {0} : a \div b \in Int
OBVIOUS
=============================================================================
