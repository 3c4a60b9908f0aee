------------------------------ MODULE DataLemmas ------------------------------
(***************************************************************************)
(* Facts about data that the proofs of the components share: induction     *)
(* over the natural numbers in a form without operator parameters, largest *)
(* elements, recursion over finite sets, which the folds of the community  *)
(* modules are made of, and what sorting and filtering return.             *)
(***************************************************************************)
EXTENDS Integers, FiniteSets, Sorting, FiniteSetTheorems, WellFoundedInduction, TLAPS

(* A set of natural numbers that is not empty has a smallest element.      *)
LEMMA LeastExists ==
  ASSUME NEW S \in SUBSET Nat, S # {}
  PROVE  \E x \in S : \A y \in S : x <= y
<1> DEFINE Less == {ss \in Nat \X Nat : ss[1] < ss[2]}
<1>1. IsWellFoundedOn(Less, Nat)
  BY NatLessThanWellFounded DEF OpToRel
<1>2. PICK x \in S : \A y \in S : ~ (<<y, x>> \in Less)
  <2> HIDE DEF Less
  <2> QED BY <1>1, WFMin
<1>3. \A y \in S : ~ (y < x)
  BY <1>2
<1> QED BY <1>3

(* A set of numbers with 0 in it, and with n + 1 for every n, has them all.*)
LEMMA SetInduction ==
  ASSUME NEW T \in SUBSET Nat, 0 \in T, \A n \in T : n + 1 \in T
  PROVE  T = Nat
<1> SUFFICES ASSUME Nat \ T # {} PROVE FALSE
  OBVIOUS
<1>1. PICK x \in Nat \ T : \A y \in Nat \ T : x <= y
  BY LeastExists
<1>2. x # 0 /\ x - 1 \in Nat \ T
  BY <1>1
<1> QED BY <1>1, <1>2

(* A finite set of numbers that is not empty has a largest element.        *)
LEMMA LargestExists ==
  ASSUME NEW S \in SUBSET Int, IsFiniteSet(S), S # {}
  PROVE  \E x \in S : \A y \in S : x >= y
<1> DEFINE P(n) == \A U \in SUBSET Int :
                     IsFiniteSet(U) /\ U # {} /\ Cardinality(U) = n =>
                       \E x \in U : \A y \in U : x >= y
           T == {n \in Nat : P(n)}
<1>1. 0 \in T
  BY FS_EmptySet
<1>2. ASSUME NEW n \in T PROVE n + 1 \in T
  <2> SUFFICES ASSUME NEW U \in SUBSET Int, IsFiniteSet(U), U # {}, Cardinality(U) = n + 1
               PROVE  \E x \in U : \A y \in U : x >= y
    OBVIOUS
  <2>0. n \in Nat /\ P(n)
    OBVIOUS
  <2>1. PICK e \in U : TRUE
    OBVIOUS
  <2>2. IsFiniteSet(U \ {e}) /\ Cardinality(U \ {e}) = n
    <3>1. IsFiniteSet(U \ {e}) /\ Cardinality(U \ {e}) = Cardinality(U) - 1
      BY <2>1, FS_RemoveElement
    <3> HIDE DEF P, T
    <3> QED BY <2>0, <3>1
  <2>3. CASE U \ {e} = {}
    BY <2>1, <2>3
  <2>4. CASE U \ {e} # {}
    <3>1. PICK x \in U \ {e} : \A y \in U \ {e} : x >= y
      BY <2>0, <2>2, <2>4
    <3>2. CASE x >= e
      BY <3>1, <3>2
    <3>3. CASE ~(x >= e)
      <4>1. \A y \in U : e >= y
        BY <3>1, <3>3, <2>1
      <4> QED BY <4>1, <2>1
    <3> QED BY <3>2, <3>3
  <2> QED BY <2>3, <2>4
<1>3. T = Nat
  <2> HIDE DEF T
  <2>1. T \subseteq Nat
    BY DEF T
  <2> QED BY <1>1, <1>2, <2>1, SetInduction
<1> QED BY <1>3, FS_CardinalityType

(* c picks an element of every set but the empty one; it is computed from  *)
(* base by taking away the element picked, one after the other.            *)
Picks(c, S) == \A s \in SUBSET S : s # {} => c[s] \in s
Computes(it, S, base, c, step) ==
  \A s \in SUBSET S : it[s] = IF s = {} THEN base ELSE step[c[s]][it[s \ {c[s]}]]

(* Such a recursion over the subsets of a finite set has a solution.       *)
LEMMA FiniteRecursion ==
  ASSUME NEW S, IsFiniteSet(S), NEW V, NEW base \in V, NEW c, Picks(c, S),
         NEW step \in [S -> [V -> V]]
  PROVE  \E it \in [SUBSET S -> V] : Computes(it, S, base, c, step)
<1> USE DEF Picks
<1> DEFINE Small(n) == {s \in SUBSET S : Cardinality(s) <= n}
           Good(n, g) == \A s \in Small(n) :
                           g[s] = IF s = {} THEN base ELSE step[c[s]][g[s \ {c[s]}]]
           T == {n \in Nat : \E g \in [Small(n) -> V] : Good(n, g)}
<1>0. \A x \in S, v \in V : step[x][v] \in V
  OBVIOUS
<1>1. \A s \in SUBSET S : IsFiniteSet(s) /\ Cardinality(s) \in Nat
  BY FS_Subset, FS_CardinalityType
<1>2. 0 \in T
  <2>1. Small(0) = {{}}
    BY <1>1, FS_EmptySet
  <2>2. [s \in Small(0) |-> base] \in [Small(0) -> V] /\ Good(0, [s \in Small(0) |-> base])
    BY <2>1
  <2> QED BY <2>2
<1>3. ASSUME NEW n \in T PROVE n + 1 \in T
  <2>0. n \in Nat /\ \E g \in [Small(n) -> V] : Good(n, g)
    OBVIOUS
  <2>1. PICK g \in [Small(n) -> V] : Good(n, g)
    BY <2>0
  <2> DEFINE h == [s \in Small(n + 1) |->
                     IF s \in Small(n) THEN g[s] ELSE step[c[s]][g[s \ {c[s]}]]]
  <2>2. ASSUME NEW s \in Small(n + 1), s # {}
        PROVE  c[s] \in S /\ s \ {c[s]} \in Small(n)
    BY <1>1, <2>2, FS_RemoveElement
  <2>3. \A s \in Small(n + 1) : s \notin Small(n) => s # {}
    BY <1>1, FS_EmptySet
  <2>4. h \in [Small(n + 1) -> V]
    <3> SUFFICES ASSUME NEW s \in Small(n + 1) PROVE h[s] \in V
      OBVIOUS
    <3>1. CASE s \in Small(n)
      BY <3>1
    <3>2. CASE s \notin Small(n)
      <4>1. g[s \ {c[s]}] \in V /\ c[s] \in S
        BY <2>2, <2>3, <3>2
      <4>2. step[c[s]][g[s \ {c[s]}]] \in V
        BY <4>1, <1>0
      <4>3. h[s] = step[c[s]][g[s \ {c[s]}]]
        BY <3>2
      <4> QED BY <4>2, <4>3
    <3> QED BY <3>1, <3>2
  <2>5. Good(n + 1, h)
    <3> SUFFICES ASSUME NEW s \in Small(n + 1)
                 PROVE  h[s] = IF s = {} THEN base ELSE step[c[s]][h[s \ {c[s]}]]
      OBVIOUS
    <3>1. CASE s = {}
      <4>1. s \in Small(n)
        BY <3>1, FS_EmptySet
      <4> QED BY <4>1, <3>1, <2>1
    <3>2. CASE s # {}
      <4>1. s \ {c[s]} \in Small(n)
        BY <3>2, <2>2
      <4>1a. s \ {c[s]} \in Small(n + 1)
        BY <4>1, <2>0, <1>1
      <4>2. h[s \ {c[s]}] = g[s \ {c[s]}]
        BY <4>1, <4>1a
      <4>3. h[s] = step[c[s]][g[s \ {c[s]}]]
        BY <3>2, <2>1
      <4> QED BY <4>2, <4>3, <3>2
    <3> QED BY <3>1, <3>2
  <2>6. \E k \in [Small(n + 1) -> V] : Good(n + 1, k)
    <3> HIDE DEF Good, Small, h
    <3> QED BY <2>4, <2>5
  <2>7. n + 1 \in Nat
    BY <2>0
  <2> HIDE DEF Good, Small
  <2> QED BY <2>6, <2>7, Zenon
<1>4. T = Nat
  <2> HIDE DEF T
  <2>1. T \subseteq Nat
    BY DEF T
  <2> QED BY <1>2, <1>3, <2>1, SetInduction
<1>5. PICK g \in [Small(Cardinality(S)) -> V] : Good(Cardinality(S), g)
  BY <1>1, <1>4
<1>6. Small(Cardinality(S)) = SUBSET S
  BY FS_Subset
<1> QED BY <1>5, <1>6 DEF Computes

(* Whatever solves such a recursion takes the values that its steps keep.  *)
LEMMA FiniteRecursionType ==
  ASSUME NEW S, IsFiniteSet(S), NEW V, NEW it, it[{}] \in V, NEW c, Picks(c, S),
         \A s \in SUBSET S : s # {} /\ it[s \ {c[s]}] \in V => it[s] \in V
  PROVE  \A s \in SUBSET S : it[s] \in V
<1> USE DEF Picks
<1> DEFINE P(n) == \A s \in SUBSET S : Cardinality(s) = n => it[s] \in V
           T == {n \in Nat : P(n)}
<1>1. \A s \in SUBSET S : IsFiniteSet(s) /\ Cardinality(s) \in Nat
  BY FS_Subset, FS_CardinalityType
<1>2. 0 \in T
  BY <1>1, FS_EmptySet
<1>3. ASSUME NEW n \in T PROVE n + 1 \in T
  <2>0. n \in Nat /\ P(n)
    OBVIOUS
  <2> SUFFICES ASSUME NEW s \in SUBSET S, Cardinality(s) = n + 1
               PROVE  it[s] \in V
    BY <2>0
  <2>1. s # {}
    <3>1. n + 1 # 0
      BY <2>0
    <3> HIDE DEF P, T
    <3> QED BY <3>1, FS_EmptySet
  <2>2. Cardinality(s \ {c[s]}) = Cardinality(s) - 1
    BY <1>1, <2>1, FS_RemoveElement
  <2>3. it[s \ {c[s]}] \in V
    BY <2>0, <2>2
  <2> QED BY <2>1, <2>3
<1>4. T = Nat
  <2> HIDE DEF T
  <2>1. T \subseteq Nat
    BY DEF T
  <2> QED BY <1>2, <1>3, <2>1, SetInduction
<1> QED BY <1>1, <1>4

(* it[s] is a sum of f over s.                                             *)
Sums(it, f, S) ==
  /\ it \in [SUBSET S -> Int]
  /\ it[{}] = 0
  /\ \A s \in SUBSET S, x \in S : x \in s => it[s] = f[x] + it[s \ {x}]

(* A sum over a finite set does not depend on the order of the elements.   *)
LEMMA SumTakesAny ==
  ASSUME NEW S, IsFiniteSet(S), NEW f \in [S -> Int], NEW c, Picks(c, S),
         NEW it \in [SUBSET S -> Int],
         \A s \in SUBSET S : it[s] = IF s = {} THEN 0 ELSE f[c[s]] + it[s \ {c[s]}]
  PROVE  Sums(it, f, S)
<1> USE DEF Picks
<1> DEFINE P(n) == \A s \in SUBSET S, x \in S :
                     x \in s /\ Cardinality(s) = n => it[s] = f[x] + it[s \ {x}]
           T == {n \in Nat : P(n)}
<1>1. \A s \in SUBSET S : IsFiniteSet(s) /\ Cardinality(s) \in Nat
  BY FS_Subset, FS_CardinalityType
<1>2. 0 \in T
  BY <1>1, FS_EmptySet
<1>3. ASSUME NEW n \in T PROVE n + 1 \in T
  <2> SUFFICES ASSUME NEW s \in SUBSET S, NEW x \in S, x \in s, Cardinality(s) = n + 1
               PROVE  it[s] = f[x] + it[s \ {x}]
    OBVIOUS
  <2>1. c[s] \in s /\ c[s] \in S /\ it[s] = f[c[s]] + it[s \ {c[s]}]
    OBVIOUS
  <2>2. CASE x = c[s]
    BY <2>1, <2>2
  <2>3. CASE x # c[s]
    <3>1. Cardinality(s \ {c[s]}) = n /\ Cardinality(s \ {x}) = n
      <4>1. IsFiniteSet(s) /\ n \in Nat
        BY <1>1
      <4>2. Cardinality(s \ {c[s]}) = Cardinality(s) - 1
        <5>1. \A e \in s : Cardinality(s \ {e}) = Cardinality(s) - 1
          <6> HIDE DEF P, T
          <6> QED BY <4>1, FS_RemoveElement
        <5> QED BY <5>1, <2>1
      <4>3. Cardinality(s \ {x}) = Cardinality(s) - 1
        BY <4>1, FS_RemoveElement
      <4> QED BY <4>1, <4>2, <4>3
    <3>2. it[s \ {c[s]}] = f[x] + it[(s \ {c[s]}) \ {x}]
      BY <3>1, <2>3, <1>3
    <3>3. it[s \ {x}] = f[c[s]] + it[(s \ {x}) \ {c[s]}]
      BY <3>1, <2>1, <2>3, <1>3
    <3>4. (s \ {x}) \ {c[s]} = (s \ {c[s]}) \ {x}
      OBVIOUS
    <3>5. it[(s \ {c[s]}) \ {x}] \in Int /\ f[x] \in Int /\ f[c[s]] \in Int
      BY <2>1
    <3> DEFINE rest == it[(s \ {c[s]}) \ {x}]
    <3>6. it[s] = f[c[s]] + (f[x] + rest) /\ it[s \ {x}] = f[c[s]] + rest /\ rest \in Int
      BY <2>1, <3>2, <3>3, <3>4, <3>5
    <3> HIDE DEF rest
    <3> QED BY <3>5, <3>6
  <2> QED BY <2>2, <2>3
<1>4. T = Nat
  <2> HIDE DEF T
  <2>1. T \subseteq Nat
    BY DEF T
  <2> QED BY <1>2, <1>3, <2>1, SetInduction
<1>5. it[{}] = 0
  OBVIOUS
<1> QED BY <1>1, <1>4, <1>5 DEF Sums

-----------------------------------------------------------------------------
(* Sorting and filtering *)

(* A function that is one-to-one and onto keeps the number of elements.    *)
LEMMA SameCount ==
  ASSUME NEW A, NEW B, IsFiniteSet(A), NEW f \in [A -> B],
         \A x, y \in A : f[x] = f[y] => x = y,
         \A z \in B : \E x \in A : f[x] = z
  PROVE  IsFiniteSet(B) /\ Cardinality(B) = Cardinality(A)
<1>1. f \in Bijection(A, B)
  BY DEF Bijection, Injection, Surjection, IsInjective
<1> QED BY <1>1, FS_Bijection DEF ExistsBijection

(* A strict order in which any two elements can be compared.               *)
StrictOrder(S, R) ==
  /\ \A x \in S : <<x, x>> \notin R
  /\ \A x, y, z \in S : <<x, y>> \in R /\ <<y, z>> \in R => <<x, z>> \in R
  /\ \A x, y \in S : x = y \/ <<x, y>> \in R \/ <<y, x>> \in R

Lower(x, S, R) == {y \in S : <<y, x>> \in R}

(* The element above another has more below it.                            *)
LEMMA MoreLower ==
  ASSUME NEW S, IsFiniteSet(S), NEW R, StrictOrder(S, R),
         NEW x \in S, NEW y \in S, <<x, y>> \in R
  PROVE  /\ Cardinality(Lower(x, S, R)) \in Nat
         /\ Cardinality(Lower(y, S, R)) \in Nat
         /\ Cardinality(Lower(x, S, R)) < Cardinality(Lower(y, S, R))
<1>1. Lower(x, S, R) \subseteq Lower(y, S, R) \ {x} /\ x \in Lower(y, S, R)
  BY DEF Lower, StrictOrder
<1>2. IsFiniteSet(Lower(y, S, R))
  BY FS_Subset DEF Lower
<1>3. IsFiniteSet(Lower(y, S, R) \ {x})
      /\ Cardinality(Lower(y, S, R) \ {x}) = Cardinality(Lower(y, S, R)) - 1
  BY <1>1, <1>2, FS_RemoveElement
<1>4. Cardinality(Lower(x, S, R)) <= Cardinality(Lower(y, S, R) \ {x})
      /\ IsFiniteSet(Lower(x, S, R))
  BY <1>1, <1>3, FS_Subset
<1> QED BY <1>2, <1>3, <1>4, FS_CardinalityType

(* Every place from the first to the last is that of exactly one element.  *)
LEMMA OnePlaceEach ==
  ASSUME NEW S, IsFiniteSet(S), NEW R, StrictOrder(S, R)
  PROVE  /\ \A x \in S : Cardinality(Lower(x, S, R)) \in 0..(Cardinality(S) - 1)
         /\ \A x, y \in S : Cardinality(Lower(x, S, R)) = Cardinality(Lower(y, S, R)) => x = y
         /\ \A n \in 0..(Cardinality(S) - 1) : \E x \in S : Cardinality(Lower(x, S, R)) = n
<1> DEFINE place == [x \in S |-> Cardinality(Lower(x, S, R))]
           places == 0..(Cardinality(S) - 1)
<1>1. Cardinality(S) \in Nat
  BY FS_CardinalityType
<1>2. ASSUME NEW x \in S PROVE place[x] \in places
  <2>1. IsFiniteSet(S \ {x}) /\ Cardinality(S \ {x}) = Cardinality(S) - 1
    BY FS_RemoveElement
  <2>2. Lower(x, S, R) \subseteq S \ {x}
    BY DEF Lower, StrictOrder
  <2>3. IsFiniteSet(Lower(x, S, R)) /\ Cardinality(Lower(x, S, R)) <= Cardinality(S) - 1
    BY <2>1, <2>2, FS_Subset
  <2> QED BY <1>1, <2>3, FS_CardinalityType
<1>3. ASSUME NEW x \in S, NEW y \in S, place[x] = place[y] PROVE x = y
  <2>1. CASE <<x, y>> \in R
    BY <1>3, <2>1, MoreLower
  <2>2. CASE <<y, x>> \in R
    BY <1>3, <2>2, MoreLower
  <2> QED BY <2>1, <2>2 DEF StrictOrder
<1>4. place \in Injection(S, places)
  BY <1>2, <1>3 DEF Injection, IsInjective
<1>5. IsFiniteSet(places) /\ Cardinality(places) = Cardinality(S)
  BY <1>1, FS_Interval
<1>6. place \in Surjection(S, places)
  <2> HIDE DEF place, places
  <2> QED BY <1>4, <1>5, FS_Injection
<1>7. \A n \in places : \E x \in S : place[x] = n
  <2> HIDE DEF place, places
  <2> QED BY <1>6 DEF Surjection
<1> QED BY <1>2, <1>3, <1>7

(* What Enumerate returns.                                                 *)
IsEnumeration(e, S, R) ==
  /\ e \in [1..Cardinality(S) -> S]
  /\ \A i \in 1..Cardinality(S) : Cardinality(Lower(e[i], S, R)) = i - 1
  /\ \A x \in S : \E i \in 1..Cardinality(S) : e[i] = x
  /\ \A i, j \in 1..Cardinality(S) : (<<e[i], e[j]>> \in R) <=> (i < j)

LEMMA Enumerates ==
  ASSUME NEW S, IsFiniteSet(S), NEW R, StrictOrder(S, R)
  PROVE  Cardinality(S) \in Nat /\ IsEnumeration(Enumerate(S, R), S, R)
<1> DEFINE e == Enumerate(S, R)
           n == Cardinality(S)
<1>1. n \in Nat
  BY FS_CardinalityType
<1>2. ASSUME NEW i \in 1..n PROVE e[i] \in S /\ Cardinality(Lower(e[i], S, R)) = i - 1
  <2>1. \E x \in S : Cardinality(Lower(x, S, R)) = i - 1
    <3>1. i - 1 \in 0..(n - 1)
      BY <1>1
    <3> QED BY <3>1, OnePlaceEach
  <2>2. e[i] = CHOOSE x \in S : Cardinality(Lower(x, S, R)) = i - 1
    BY DEF Enumerate, Lower
  <2> HIDE DEF e
  <2> QED BY <2>1, <2>2
<1>3. e \in [1..n -> S]
  <2> DEFINE at(i) == CHOOSE x \in S : Cardinality({y \in S : <<y, x>> \in R}) = i - 1
  <2>1. e = [i \in 1..n |-> at(i)]
    BY DEF Enumerate
  <2> HIDE DEF e, n, at
  <2> QED BY <1>2, <2>1
<1>4. ASSUME NEW x \in S PROVE \E i \in 1..n : e[i] = x
  <2>1. Cardinality(Lower(x, S, R)) \in 0..(n - 1)
    BY OnePlaceEach
  <2> DEFINE i == Cardinality(Lower(x, S, R)) + 1
  <2>2. i \in 1..n /\ i - 1 = Cardinality(Lower(x, S, R))
    BY <1>1, <2>1
  <2> HIDE DEF i, e, n
  <2>3. e[i] \in S /\ Cardinality(Lower(e[i], S, R)) = Cardinality(Lower(x, S, R))
    BY <1>2, <2>2
  <2>4. e[i] = x
    BY <2>3, OnePlaceEach
  <2> QED BY <2>2, <2>4
<1>5. ASSUME NEW i \in 1..n, NEW j \in 1..n PROVE (<<e[i], e[j]>> \in R) <=> (i < j)
  <2> HIDE DEF e, n
  <2>1. /\ e[i] \in S /\ Cardinality(Lower(e[i], S, R)) = i - 1
        /\ e[j] \in S /\ Cardinality(Lower(e[j], S, R)) = j - 1
    BY <1>2
  <2>2. CASE <<e[i], e[j]>> \in R
    BY <2>1, <2>2, MoreLower
  <2>3. CASE <<e[j], e[i]>> \in R
    <3>1. j - 1 < i - 1
      BY <2>1, <2>3, MoreLower
    <3>2. <<e[i], e[j]>> \notin R
      BY <2>1, <2>3 DEF StrictOrder
    <3> QED BY <1>1, <3>1, <3>2
  <2>4. CASE e[i] = e[j]
    BY <2>1, <2>4, <1>1 DEF StrictOrder
  <2> QED BY <2>1, <2>2, <2>3, <2>4 DEF StrictOrder
<1> HIDE DEF e, n
<1>6. n \in Nat /\ IsEnumeration(e, S, R)
  BY <1>1, <1>2, <1>3, <1>4, <1>5 DEF IsEnumeration, n
<1> QED BY <1>6 DEF e, n

(* The order of numbers.                                                   *)
LEMMA NumbersOrdered ==
  ASSUME NEW S \in SUBSET Nat
  PROVE  StrictOrder(S, {p \in S \X S : p[1] < p[2]})
BY DEF StrictOrder

(* What Ascending returns: the numbers of a set, each once, in order.      *)
IsAscending(e, S) ==
  /\ e \in [1..Cardinality(S) -> S]
  /\ \A i \in 1..Cardinality(S) : Cardinality({y \in S : y < e[i]}) = i - 1
  /\ \A x \in S : \E i \in 1..Cardinality(S) : e[i] = x
  /\ \A i, j \in 1..Cardinality(S) : (e[i] < e[j]) <=> (i < j)

LEMMA AscendingInOrder ==
  ASSUME NEW S \in SUBSET Nat, IsFiniteSet(S)
  PROVE  Cardinality(S) \in Nat /\ IsAscending(Ascending(S), S)
<1> DEFINE R == {p \in S \X S : p[1] < p[2]}
           e == Enumerate(S, R)
           n == Cardinality(S)
<1>1. StrictOrder(S, R)
  BY NumbersOrdered
<1>2. n \in Nat /\ IsEnumeration(e, S, R)
  <2> HIDE DEF R
  <2> QED BY <1>1, Enumerates
<1>3. \A x, y \in S : (<<x, y>> \in R) <=> (x < y)
  OBVIOUS
<1>4. \A x \in S : Lower(x, S, R) = {y \in S : y < x}
  BY <1>3 DEF Lower
<1> HIDE DEF e, R
<1>5. IsAscending(e, S)
  BY <1>2, <1>3, <1>4 DEF IsEnumeration, IsAscending
<1> QED BY <1>2, <1>5 DEF Ascending, e, R

(* Entries kept at places that correspond, in order, are the same ones.    *)
Follows(f, A, list, B, other) ==
  /\ f \in [A -> B]
  /\ \A x, y \in A : (f[x] < f[y]) <=> (x < y)
  /\ \A z \in B : \E x \in A : f[x] = z
  /\ \A x \in A : other[f[x]] = list[x]

LEMMA KeepThrough ==
  ASSUME NEW A \in SUBSET Nat, IsFiniteSet(A), NEW B \in SUBSET Nat, NEW list, NEW other,
         NEW f, Follows(f, A, list, B, other)
  PROVE  /\ IsFiniteSet(B) /\ Cardinality(B) = Cardinality(A)
         /\ Keep(other, B) = Keep(list, A)
<1>a. /\ f \in [A -> B]
      /\ \A x, y \in A : (f[x] < f[y]) <=> (x < y)
      /\ \A z \in B : \E x \in A : f[x] = z
      /\ \A x \in A : other[f[x]] = list[x]
  BY DEF Follows
<1>0. \A x, y \in A : f[x] = f[y] => x = y
  BY <1>a
<1>1. IsFiniteSet(B) /\ Cardinality(B) = Cardinality(A)
  BY <1>a, <1>0, SameCount
<1> DEFINE e == Ascending(A)
           d == Ascending(B)
           n == Cardinality(A)
<1>2. n \in Nat /\ IsAscending(e, A) /\ IsAscending(d, B)
  BY <1>1, AscendingInOrder
<1> HIDE DEF e, d, n
<1>3. ASSUME NEW i \in 1..n PROVE d[i] = f[e[i]]
  <2>1. e[i] \in A /\ Cardinality({y \in A : y < e[i]}) = i - 1
    BY <1>2 DEF IsAscending, n
  <2>2. PICK j \in 1..n : d[j] = f[e[i]]
    BY <1>a, <1>1, <1>2, <2>1 DEF IsAscending, n
  <2>3. Cardinality({z \in B : z < d[j]}) = j - 1
    BY <1>1, <1>2 DEF IsAscending, n
  <2> DEFINE low == {y \in A : y < e[i]}
             low2 == {z \in B : z < d[j]}
             g == [y \in low |-> f[y]]
  <2>4. IsFiniteSet(low)
    BY FS_Subset
  <2>5. g \in [low -> low2] /\ \A x, y \in low : g[x] = g[y] => x = y
    BY <1>a, <1>0, <2>1, <2>2
  <2>6. ASSUME NEW z \in low2 PROVE \E x \in low : g[x] = z
    <3>1. PICK x \in A : f[x] = z
      BY <1>a
    <3>2. f[x] < f[e[i]]
      BY <2>2, <3>1
    <3>3. x < e[i]
      BY <1>a, <2>1, <3>2
    <3> QED BY <3>1, <3>3
  <2>7. Cardinality(low2) = Cardinality(low)
    <3> HIDE DEF low, low2, g
    <3> QED BY <2>4, <2>5, <2>6, SameCount
  <2> QED BY <1>2, <2>1, <2>2, <2>3, <2>7
<1>4. \A i \in 1..n : e[i] \in A
  BY <1>2 DEF IsAscending, n
<1>5. \A i \in 1..n : other[d[i]] = list[e[i]]
  BY <1>a, <1>3, <1>4
<1>6. [i \in 1..n |-> other[d[i]]] = [i \in 1..n |-> list[e[i]]]
  BY <1>5
<1>7. Keep(other, B) = [i \in 1..n |-> other[d[i]]] /\ Keep(list, A) = [i \in 1..n |-> list[e[i]]]
  BY <1>1 DEF Keep, n, d, e
<1> QED BY <1>1, <1>6, <1>7

(* A sort takes its entries by value, and equal ones by place.             *)
LEMMA StableOrdered ==
  ASSUME NEW places \in SUBSET Nat, NEW list, NEW V, \A p \in places : list[p] \in V,
         NEW R, StrictOrder(V, R)
  PROVE  StrictOrder(places, StableOrder(list, places, R))
<1> DEFINE T == StableOrder(list, places, R)
<1>1. \A p, q \in places : (<<p, q>> \in T) <=> \/ <<list[p], list[q]>> \in R
                                                \/ list[p] = list[q] /\ p < q
  BY DEF StableOrder
<1> HIDE DEF T
<1>0. /\ \A v \in V : <<v, v>> \notin R
      /\ \A u, v, w \in V : <<u, v>> \in R /\ <<v, w>> \in R => <<u, w>> \in R
      /\ \A u, v \in V : u = v \/ <<u, v>> \in R \/ <<v, u>> \in R
  BY DEF StrictOrder
<1>2. ASSUME NEW p \in places PROVE <<p, p>> \notin T
  <2>1. list[p] \in V /\ ~(p < p)
    OBVIOUS
  <2> QED BY <1>0, <1>1, <2>1
<1>3. ASSUME NEW p \in places, NEW q \in places, NEW r \in places,
             <<p, q>> \in T, <<q, r>> \in T
      PROVE  <<p, r>> \in T
  <2>1. list[p] \in V /\ list[q] \in V /\ list[r] \in V
    OBVIOUS
  <2>2. \/ <<list[p], list[q]>> \in R
        \/ list[p] = list[q] /\ p < q
    BY <1>1, <1>3
  <2>3. \/ <<list[q], list[r]>> \in R
        \/ list[q] = list[r] /\ q < r
    BY <1>1, <1>3
  <2>4. \/ <<list[p], list[r]>> \in R
        \/ list[p] = list[r] /\ p < r
    <3>1. CASE list[p] = list[q] /\ list[q] = list[r] /\ p < q /\ q < r
      BY <3>1
    <3>2. CASE <<list[p], list[q]>> \in R /\ <<list[q], list[r]>> \in R
      BY <1>0, <2>1, <3>2
    <3> QED BY <2>2, <2>3, <3>1, <3>2
  <2> QED BY <1>1, <2>4
<1>4. ASSUME NEW p \in places, NEW q \in places PROVE p = q \/ <<p, q>> \in T \/ <<q, p>> \in T
  <2>1. list[p] \in V /\ list[q] \in V /\ (p = q \/ p < q \/ q < p)
    OBVIOUS
  <2>2. list[p] = list[q] \/ <<list[p], list[q]>> \in R \/ <<list[q], list[p]>> \in R
    BY <1>0, <2>1
  <2> QED BY <1>1, <2>1, <2>2
<1>5. StrictOrder(places, T)
  BY <1>2, <1>3, <1>4 DEF StrictOrder
<1> QED BY <1>5 DEF T

(* What StableSort returns: the entries in an order of their places.       *)
IsSortOf(s, list, places, R) ==
  \E order : /\ IsEnumeration(order, places, StableOrder(list, places, R))
             /\ s = [i \in 1..Cardinality(places) |-> list[order[i]]]

LEMMA Sorts ==
  ASSUME NEW places \in SUBSET Nat, IsFiniteSet(places),
         NEW list, NEW V, \A p \in places : list[p] \in V, NEW R, StrictOrder(V, R)
  PROVE  /\ Cardinality(places) \in Nat
         /\ IsSortOf(StableSort(list, places, R), list, places, R)
<1>1. StrictOrder(places, StableOrder(list, places, R))
  BY StableOrdered
<1> DEFINE order == Enumerate(places, StableOrder(list, places, R))
<1>2. Cardinality(places) \in Nat /\ IsEnumeration(order, places, StableOrder(list, places, R))
  BY <1>1, Enumerates
<1>3. StableSort(list, places, R) = [i \in 1..Cardinality(places) |-> list[order[i]]]
  BY DEF StableSort
<1> HIDE DEF order
<1> QED BY <1>2, <1>3 DEF IsSortOf

(* What one list has at the places A, the other has at the places B.       *)
Rearranges(f, A, list, B, other) ==
  /\ f \in [A -> B]
  /\ \A x, y \in A : f[x] = f[y] => x = y
  /\ \A z \in B : \E x \in A : f[x] = z
  /\ \A x \in A : other[f[x]] = list[x]

LEMMA RearrangedBack ==
  ASSUME NEW A, IsFiniteSet(A), NEW B, NEW list, NEW other, NEW f, Rearranges(f, A, list, B, other)
  PROVE  /\ IsFiniteSet(B) /\ Cardinality(B) = Cardinality(A) /\ Cardinality(A) \in Nat
         /\ \E back : Rearranges(back, B, other, A, list)
<1>1. /\ f \in [A -> B]
      /\ \A x, y \in A : f[x] = f[y] => x = y
      /\ \A z \in B : \E x \in A : f[x] = z
      /\ \A x \in A : other[f[x]] = list[x]
  BY DEF Rearranges
<1>2. IsFiniteSet(B) /\ Cardinality(B) = Cardinality(A)
  BY <1>1, SameCount
<1> DEFINE back == [z \in B |-> CHOOSE x \in A : f[x] = z]
<1>3. \A z \in B : back[z] \in A /\ f[back[z]] = z
  BY <1>1
<1>4. back \in [B -> A] /\ \A z \in B : list[back[z]] = other[z]
  BY <1>1, <1>3
<1>5. \A y, z \in B : back[y] = back[z] => y = z
  BY <1>3
<1>6. \A x \in A : back[f[x]] = x
  BY <1>1, <1>3
<1>7. \A x \in A : \E z \in B : back[z] = x
  BY <1>1, <1>6
<1> HIDE DEF back
<1>8. Rearranges(back, B, other, A, list)
  BY <1>4, <1>5, <1>7 DEF Rearranges
<1> QED BY <1>2, <1>8, FS_CardinalityType

(* At the same place a rearranged list does not have a later entry.        *)
LEMMA NoLaterEntry ==
  ASSUME NEW A \in SUBSET Nat, IsFiniteSet(A), NEW B \in SUBSET Nat, NEW list, NEW other,
         NEW f, Rearranges(f, A, list, B, other), NEW V, \A x \in A : list[x] \in V, NEW R, StrictOrder(V, R),
         NEW e, IsEnumeration(e, A, StableOrder(list, A, R)),
         NEW d, IsEnumeration(d, B, StableOrder(other, B, R)),
         NEW i \in 1..Cardinality(A)
  PROVE  <<list[e[i]], other[d[i]]>> \notin R
<1> SUFFICES ASSUME <<list[e[i]], other[d[i]]>> \in R PROVE FALSE
  OBVIOUS
<1>0. IsFiniteSet(B) /\ Cardinality(B) = Cardinality(A) /\ Cardinality(A) \in Nat
  BY RearrangedBack
<1>0a. /\ f \in [A -> B]
       /\ \A x, y \in A : f[x] = f[y] => x = y
       /\ \A z \in B : \E x \in A : f[x] = z
       /\ \A x \in A : other[f[x]] = list[x]
  BY DEF Rearranges
<1>1. \A z \in B : other[z] \in V
  BY <1>0a
<1> DEFINE lowE == Lower(e[i], A, StableOrder(list, A, R))
           lowD == Lower(d[i], B, StableOrder(other, B, R))
           up == lowE \union {e[i]}
           g == [x \in up |-> f[x]]
<1>2. e[i] \in A /\ Cardinality(lowE) = i - 1
  BY DEF IsEnumeration
<1>3. d[i] \in B /\ Cardinality(lowD) = i - 1
  BY <1>0 DEF IsEnumeration
<1>4. lowE \subseteq A /\ IsFiniteSet(lowE) /\ lowD \subseteq B /\ IsFiniteSet(lowD)
  BY <1>0, FS_Subset DEF Lower
<1>5. e[i] \notin lowE
  BY <1>2, StableOrdered DEF Lower, StrictOrder
<1>6. IsFiniteSet(up) /\ Cardinality(up) = i
  <2> HIDE DEF lowE
  <2>1. IsFiniteSet(up) /\ Cardinality(up) = Cardinality(lowE) + 1
    BY <1>4, <1>5, FS_AddElement
  <2> QED BY <1>2, <2>1
<1>7. ASSUME NEW x \in up PROVE g[x] \in lowD
  <2>1. x \in A
    BY <1>2, <1>4
  <2>2. list[x] = list[e[i]] \/ <<list[x], list[e[i]]>> \in R
    <3>1. CASE x = e[i]
      BY <3>1
    <3>2. CASE x \in lowE
      BY <3>2 DEF Lower, StableOrder
    <3> QED BY <3>1, <3>2
  <2>3. list[x] \in V /\ list[e[i]] \in V /\ other[d[i]] \in V
    BY <1>1, <1>2, <1>3, <2>1
  <2>4. <<list[x], other[d[i]]>> \in R
    BY <2>2, <2>3 DEF StrictOrder
  <2>5. other[f[x]] = list[x] /\ f[x] \in B
    BY <1>0a, <2>1
  <2>6. <<f[x], d[i]>> \in StableOrder(other, B, R)
    BY <1>3, <2>4, <2>5 DEF StableOrder
  <2> QED BY <2>5, <2>6 DEF Lower
<1>8. up \subseteq A
  BY <1>2, <1>4
<1>9. g \in Injection(up, lowD)
  <2>1. g \in [up -> lowD]
    <3> HIDE DEF lowD, up
    <3> QED BY <1>7
  <2>2. \A x, y \in up : g[x] = g[y] => x = y
    BY <1>0a, <1>8
  <2> HIDE DEF g, up, lowD
  <2> QED BY <2>1, <2>2 DEF Injection, IsInjective
<1>10. Cardinality(up) <= Cardinality(lowD)
  <2> HIDE DEF g, up, lowD
  <2> QED BY <1>9, <1>4, FS_Injection
<1> HIDE DEF lowE, lowD, up, g
<1> QED BY <1>3, <1>6, <1>10

(* Sorting forgets the order in which the entries were listed.             *)
LEMMA SortForgetsOrder ==
  ASSUME NEW A \in SUBSET Nat, IsFiniteSet(A), NEW B \in SUBSET Nat, NEW list, NEW other,
         NEW f, Rearranges(f, A, list, B, other), NEW V, \A x \in A : list[x] \in V, NEW R, StrictOrder(V, R)
  PROVE  StableSort(other, B, R) = StableSort(list, A, R)
<1>0. IsFiniteSet(B) /\ Cardinality(B) = Cardinality(A)
  BY RearrangedBack
<1>1. \A z \in B : other[z] \in V
  BY DEF Rearranges
<1>2. PICK e : /\ IsEnumeration(e, A, StableOrder(list, A, R))
               /\ StableSort(list, A, R) = [i \in 1..Cardinality(A) |-> list[e[i]]]
  <2>1. IsSortOf(StableSort(list, A, R), list, A, R)
    BY Sorts
  <2> QED BY <2>1 DEF IsSortOf
<1>3. PICK d : /\ IsEnumeration(d, B, StableOrder(other, B, R))
               /\ StableSort(other, B, R) = [i \in 1..Cardinality(B) |-> other[d[i]]]
  <2>1. IsSortOf(StableSort(other, B, R), other, B, R)
    BY <1>0, <1>1, Sorts
  <2> QED BY <2>1 DEF IsSortOf
<1>4. \A i \in 1..Cardinality(A) : e[i] \in A /\ d[i] \in B
  BY <1>0, <1>2, <1>3 DEF IsEnumeration
<1>5. PICK back : Rearranges(back, B, other, A, list)
  BY RearrangedBack
<1>10. ASSUME NEW i \in 1..Cardinality(A) PROVE list[e[i]] = other[d[i]]
  <2>1. <<list[e[i]], other[d[i]]>> \notin R
    BY <1>2, <1>3, NoLaterEntry
  <2>2. <<other[d[i]], list[e[i]]>> \notin R
    BY <1>0, <1>1, <1>2, <1>3, <1>5, NoLaterEntry
  <2>3. list[e[i]] \in V /\ other[d[i]] \in V
    BY <1>1, <1>4
  <2> QED BY <2>1, <2>2, <2>3 DEF StrictOrder
<1>11. [i \in 1..Cardinality(A) |-> list[e[i]]] = [i \in 1..Cardinality(A) |-> other[d[i]]]
  BY <1>10
<1> QED BY <1>0, <1>2, <1>3, <1>11

(* Every entry, and nothing else, is in the sorted list.                   *)
HasEntries(s, list, places) ==
  /\ DOMAIN s = 1..Cardinality(places)
  /\ s = [i \in 1..Cardinality(places) |-> s[i]]
  /\ \A i \in DOMAIN s : \E p \in places : s[i] = list[p]
  /\ \A p \in places : \E i \in DOMAIN s : s[i] = list[p]

LEMMA SortKeepsEntries ==
  ASSUME NEW places \in SUBSET Nat, IsFiniteSet(places),
         NEW list, NEW V, \A p \in places : list[p] \in V, NEW R, StrictOrder(V, R)
  PROVE  Cardinality(places) \in Nat /\ HasEntries(StableSort(list, places, R), list, places)
<1> DEFINE s == StableSort(list, places, R)
<1>1. Cardinality(places) \in Nat
  BY FS_CardinalityType
<1>2. PICK e : /\ IsEnumeration(e, places, StableOrder(list, places, R))
               /\ s = [i \in 1..Cardinality(places) |-> list[e[i]]]
  BY Sorts DEF IsSortOf
<1>3. \A i \in 1..Cardinality(places) : s[i] = list[e[i]] /\ e[i] \in places
  BY <1>2 DEF IsEnumeration
<1>4. \A p \in places : \E i \in 1..Cardinality(places) : e[i] = p
  BY <1>2 DEF IsEnumeration
<1>5. DOMAIN s = 1..Cardinality(places) /\ s = [i \in 1..Cardinality(places) |-> s[i]]
  BY <1>2
<1> HIDE DEF s
<1>6. /\ \A i \in DOMAIN s : \E p \in places : s[i] = list[p]
      /\ \A p \in places : \E i \in DOMAIN s : s[i] = list[p]
  <2>1. \A i \in DOMAIN s : s[i] = list[e[i]] /\ e[i] \in places
    BY <1>3, <1>5
  <2>2. ASSUME NEW p \in places PROVE \E i \in DOMAIN s : s[i] = list[p]
    <3>1. PICK i \in 1..Cardinality(places) : e[i] = p
      BY <1>4
    <3> QED BY <1>3, <1>5, <3>1
  <2> QED BY <2>1, <2>2
<1>7. HasEntries(s, list, places)
  BY <1>5, <1>6 DEF HasEntries
<1> QED BY <1>1, <1>7 DEF s
=============================================================================
