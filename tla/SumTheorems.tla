---------------------------- MODULE SumTheorems ----------------------------
(***************************************************************************)
(* Sums of a table over a finite set, as MapThenSumSet computes them.      *)
(*                                                                         *)
(* The induction theorems of the library have an operator as a parameter,  *)
(* so the inductions here are about a set: that it holds every number, or  *)
(* every subset of a finite set.  Both come from WFMin, which is about     *)
(* sets.                                                                   *)
(***************************************************************************)
EXTENDS Naturals, FiniteSets, FiniteSetsExt, FiniteSetTheorems, WellFoundedInduction, TLAPS

----------------------------------------------------------------------------
(* Induction                                                               *)

\* A set of numbers that is not empty has a least one.
LEMMA LeastNumber ==
    ASSUME NEW T \in SUBSET Nat, T # {}
    PROVE  \E n \in T : \A k \in T : n <= k
<1> DEFINE R == OpToRel(<, Nat)
<1>1. IsWellFoundedOn(R, Nat)
  BY NatLessThanWellFounded
<1>2. \A i, j \in Nat : <<i, j>> \in R <=> i < j
  BY DEF OpToRel
<1> HIDE DEF R
<1>3. PICK x \in T : \A y \in T : ~(<<y, x>> \in R)
  BY <1>1, WFMin
<1>4. \A y \in T : ~(y < x)
  BY <1>2, <1>3
<1>5. x \in Nat /\ \A y \in T : y \in Nat
  BY <1>3
<1> QED BY <1>3, <1>4, <1>5

\* A set that holds 0, and with a number the next one, holds them all.
LEMMA NumberInduction ==
    ASSUME NEW G, 0 \in G, \A n \in Nat : n \in G => n + 1 \in G
    PROVE  Nat \subseteq G
<1> SUFFICES ASSUME Nat \ G # {} PROVE FALSE
  OBVIOUS
<1>1. PICK n \in Nat \ G : \A k \in Nat \ G : n <= k
  BY LeastNumber
<1>2. n # 0 /\ n - 1 \in Nat
  BY <1>1
<1>3. n - 1 \in G
  BY <1>1, <1>2
<1> QED BY <1>1, <1>2, <1>3

\* The element that MapThenSumSet takes next.
First(s) == CHOOSE x \in s : TRUE

\* It is an element of the set.
LEMMA FirstIsElement == \A s : s # {} => First(s) \in s
  BY DEF First

\* A set that holds {}, and every subset of S whose rest it holds, holds them all.
LEMMA SubsetInduction ==
    ASSUME NEW S, IsFiniteSet(S), NEW G, {} \in G,
           \A s \in SUBSET S : s # {} /\ s \ {First(s)} \in G => s \in G
    PROVE  SUBSET S \subseteq G
<1> DEFINE Small == {n \in Nat : \A s \in SUBSET S : Cardinality(s) = n => s \in G}
<1>0. \A s \in SUBSET S : IsFiniteSet(s) /\ Cardinality(s) \in Nat
  BY FS_Subset, FS_CardinalityType
<1>1. 0 \in Small
  BY <1>0, FS_EmptySet
<1>2. ASSUME NEW n \in Nat, n \in Small PROVE n + 1 \in Small
  <2> SUFFICES ASSUME NEW s \in SUBSET S, Cardinality(s) = n + 1 PROVE s \in G
    OBVIOUS
  <2>1. s # {}
    <3> SUFFICES ASSUME s = {} PROVE n + 1 = 0
      OBVIOUS
    <3> QED BY FS_EmptySet
  <2>2. First(s) \in s
    BY <2>1, FirstIsElement
  <2>3. Cardinality(s \ {First(s)}) = n
    BY <1>0, <2>2, FS_RemoveElement
  <2>4. s \ {First(s)} \in G
    BY <1>2, <2>3
  <2> QED BY <2>1, <2>4
<1> HIDE DEF Small
<1>3. Nat \subseteq Small
  BY <1>1, <1>2, NumberInduction
<1> QED BY <1>0, <1>3 DEF Small

----------------------------------------------------------------------------
(* The function behind the sum                                             *)

\* What MapThenSumSet computes for s, when f has it for less.
Rest(table, f, s) == IF s = {} THEN 0 ELSE table[First(s)] + f[s \ {First(s)}]

IsFold(table, S, f) == f = [s \in SUBSET S |-> Rest(table, f, s)]

SumOver(table, S) == MapThenSumSet(LAMBDA x : table[x], S)

\* There is such a function: it exists for the subsets of at most n elements, for every n.
LEMMA FoldExists ==
    ASSUME NEW table, NEW S, IsFiniteSet(S)
    PROVE  \E f : IsFold(table, S, f)
<1> DEFINE Upto(n) == {s \in SUBSET S : Cardinality(s) <= n}
           Good == {n \in Nat : \E f : f = [s \in Upto(n) |-> Rest(table, f, s)]}
<1>0. \A s \in SUBSET S : IsFiniteSet(s) /\ Cardinality(s) \in Nat
  BY FS_Subset, FS_CardinalityType
<1>1. 0 \in Good
  <2> DEFINE g == [s \in Upto(0) |-> 0]
  <2>1. \A s \in Upto(0) : s = {}
    BY <1>0, FS_EmptySet
  <2>2. g = [s \in Upto(0) |-> Rest(table, g, s)]
    BY <2>1 DEF Rest
  <2> QED BY <2>2
<1>2. ASSUME NEW n \in Nat, n \in Good PROVE n + 1 \in Good
  <2>1. PICK f : f = [s \in Upto(n) |-> Rest(table, f, s)]
    BY <1>2
  <2> DEFINE g == [s \in Upto(n + 1) |-> Rest(table, f, s)]
  <2>2. \A s \in Upto(n + 1) : s # {} => s \ {First(s)} \in Upto(n)
    <3> SUFFICES ASSUME NEW s \in Upto(n + 1), s # {} PROVE s \ {First(s)} \in Upto(n)
      OBVIOUS
    <3>1. First(s) \in s
      BY FirstIsElement
    <3>2. Cardinality(s \ {First(s)}) = Cardinality(s) - 1
      BY <1>0, <3>1, FS_RemoveElement
    <3> QED BY <1>0, <3>2
  <2>3. \A s \in Upto(n) : g[s] = f[s]
    <3>1. Upto(n) \subseteq Upto(n + 1)
      BY <1>0
    <3> QED BY <2>1, <3>1
  <2>4. \A s \in Upto(n + 1) : Rest(table, f, s) = Rest(table, g, s)
    BY <2>2, <2>3 DEF Rest
  <2>5. g = [s \in Upto(n + 1) |-> Rest(table, g, s)]
    BY <2>4
  <2> HIDE DEF g
  <2>6. n + 1 \in Nat
    OBVIOUS
  <2> QED BY <2>5, <2>6
<1>3. Nat \subseteq Good
  <2> HIDE DEF Good
  <2> QED BY <1>1, <1>2, NumberInduction
<1>4. Cardinality(S) \in Nat /\ Upto(Cardinality(S)) = SUBSET S
  BY <1>0, FS_Subset
<1> QED BY <1>3, <1>4 DEF IsFold

\* The sum is the value of such a function.
LEMMA SumIsFold ==
    ASSUME NEW table, NEW S, IsFiniteSet(S)
    PROVE  \E f : IsFold(table, S, f) /\ SumOver(table, S) = f[S]
<1> DEFINE F == CHOOSE f : f = [s \in SUBSET S |->
                   IF s = {} THEN 0
                   ELSE table[CHOOSE x \in s : TRUE] + f[s \ {CHOOSE x \in s : TRUE}]]
<1>1. SumOver(table, S) = F[S]
  BY DEF SumOver, MapThenSumSet, MapThenFoldSet
<1>2. F = CHOOSE f : IsFold(table, S, f)
  BY DEF IsFold, Rest, First
<1> HIDE DEF F
<1> QED BY <1>1, <1>2, FoldExists

\* Its values, from the value for the empty set on.
LEMMA FoldValues ==
    ASSUME NEW table, NEW S, NEW f, IsFold(table, S, f)
    PROVE  /\ f[{}] = 0
           /\ \A s \in SUBSET S : s # {} =>
                 /\ First(s) \in S /\ First(s) \in s /\ s \ {First(s)} \in SUBSET S
                 /\ f[s] = table[First(s)] + f[s \ {First(s)}]
<1>1. \A s \in SUBSET S : f[s] = Rest(table, f, s)
  BY DEF IsFold
<1> QED BY <1>1, FirstIsElement DEF Rest

----------------------------------------------------------------------------
(* Facts about sums                                                        *)

\* A sum of numbers is a number.
LEMMA SumIsNumber ==
    ASSUME NEW S, IsFiniteSet(S), NEW table, \A x \in S : table[x] \in Nat
    PROVE  SumOver(table, S) \in Nat
<1>1. PICK f : IsFold(table, S, f) /\ SumOver(table, S) = f[S]
  BY SumIsFold
<1> DEFINE G == {s \in SUBSET S : f[s] \in Nat}
<1>2. {} \in G
  BY <1>1, FoldValues
<1>3. ASSUME NEW s \in SUBSET S, s # {}, s \ {First(s)} \in G PROVE s \in G
  BY <1>1, <1>3, FoldValues
<1> HIDE DEF G
<1>4. SUBSET S \subseteq G
  BY <1>2, <1>3, SubsetInduction
<1> QED BY <1>1, <1>4 DEF G

\* A sum of nothing but 0 is 0.
LEMMA SumOfZeros ==
    ASSUME NEW S, IsFiniteSet(S), NEW table, \A x \in S : table[x] = 0
    PROVE  SumOver(table, S) = 0
<1>1. PICK f : IsFold(table, S, f) /\ SumOver(table, S) = f[S]
  BY SumIsFold
<1> DEFINE G == {s \in SUBSET S : f[s] = 0}
<1>2. {} \in G
  BY <1>1, FoldValues
<1>3. ASSUME NEW s \in SUBSET S, s # {}, s \ {First(s)} \in G PROVE s \in G
  BY <1>1, <1>3, FoldValues
<1> HIDE DEF G
<1>4. SUBSET S \subseteq G
  BY <1>2, <1>3, SubsetInduction
<1> QED BY <1>1, <1>4 DEF G

\* Adding n at one place adds n to the sum over a set that has the place.
LEMMA SumAdds ==
    ASSUME NEW S, IsFiniteSet(S), NEW old, NEW new, NEW d, NEW n \in Nat,
           \A x \in S : old[x] \in Nat,
           \A x \in S : new[x] = IF x = d THEN old[x] + n ELSE old[x]
    PROVE  SumOver(new, S) = IF d \in S THEN SumOver(old, S) + n ELSE SumOver(old, S)
<1>1. PICK f : IsFold(old, S, f) /\ SumOver(old, S) = f[S]
  BY SumIsFold
<1>2. PICK g : IsFold(new, S, g) /\ SumOver(new, S) = g[S]
  BY SumIsFold
<1> DEFINE G == {s \in SUBSET S : f[s] \in Nat /\ g[s] = IF d \in s THEN f[s] + n ELSE f[s]}
<1>3. {} \in G
  BY <1>1, <1>2, FoldValues
<1>4. ASSUME NEW s \in SUBSET S, s # {}, s \ {First(s)} \in G PROVE s \in G
  <2> DEFINE x == First(s)
             r == s \ {First(s)}
  <2>1. /\ x \in S /\ x \in s
        /\ f[s] = old[x] + f[r] /\ g[s] = new[x] + g[r]
    BY <1>1, <1>2, <1>4, FoldValues
  <2>2. f[r] \in Nat /\ g[r] = IF d \in r THEN f[r] + n ELSE f[r]
    BY <1>4
  <2>3. old[x] \in Nat /\ new[x] = IF x = d THEN old[x] + n ELSE old[x]
    BY <2>1
  <2>4. d \in s <=> d = x \/ d \in r
    BY <2>1
  <2>5. d = x => d \notin r
    OBVIOUS
  <2> HIDE DEF x, r
  <2>6. f[s] \in Nat /\ g[s] = IF d \in s THEN f[s] + n ELSE f[s]
    BY <2>1, <2>2, <2>3, <2>4, <2>5
  <2> QED BY <2>6
<1> HIDE DEF G
<1>5. SUBSET S \subseteq G
  BY <1>3, <1>4, SubsetInduction
<1> QED BY <1>1, <1>2, <1>5 DEF G

\* Tables that agree on a set have the same sum over it.
LEMMA SumAgrees ==
    ASSUME NEW S, IsFiniteSet(S), NEW old, NEW new,
           \A x \in S : old[x] \in Nat, \A x \in S : new[x] = old[x]
    PROVE  SumOver(new, S) = SumOver(old, S)
<1>1. \A x \in S : new[x] = IF x = 0 THEN old[x] + 0 ELSE old[x]
  OBVIOUS
<1>2. SumOver(new, S) = IF 0 \in S THEN SumOver(old, S) + 0 ELSE SumOver(old, S)
  BY <1>1, SumAdds
<1>3. SumOver(old, S) \in Nat
  BY SumIsNumber
<1> QED BY <1>2, <1>3

=============================================================================
