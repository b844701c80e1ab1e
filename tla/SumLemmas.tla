----------------------------- MODULE SumLemmas ------------------------------
(***************************************************************************)
(* Sums over finite sets, SumFunctionOnSet of the community modules: that  *)
(* the recursion of its definition has a solution, and what a sum is when  *)
(* an element is added, taken out or changed.  Induction is by the least   *)
(* counterexample (WFMin), as a statement about a set of numbers.          *)
(***************************************************************************)
EXTENDS Integers, Functions, FiniteSetTheorems, WellFoundedInduction, TLAPS

(* A set that holds 0 and with every number the next holds all of them.    *)
LEMMA SetInduction ==
  ASSUME NEW T, 0 \in T, \A n \in Nat : n \in T => n + 1 \in T
  PROVE  Nat \subseteq T
<1> SUFFICES ASSUME ~(Nat \subseteq T) PROVE FALSE
  OBVIOUS
<1> DEFINE U == Nat \ T
           R == OpToRel(<, Nat)
<1>1. IsWellFoundedOn(R, Nat)
  BY NatLessThanWellFounded
<1>2. U # {} /\ U \subseteq Nat
  OBVIOUS
<1> HIDE DEF R, U
<1>3. PICK x \in U : \A y \in U : ~(<<y, x>> \in R)
  BY <1>1, <1>2, WFMin
<1>4. x \in Nat /\ x # 0 /\ x - 1 \in Nat /\ x - 1 < x
  BY DEF U
<1>5. x - 1 \in U
  BY <1>4 DEF U
<1>6. <<x - 1, x>> \in R
  BY <1>4 DEF R, OpToRel
<1> QED BY <1>3, <1>5, <1>6

(* One element less.                                                       *)
LEMMA OneLess ==
  ASSUME NEW S, IsFiniteSet(S), NEW s \in SUBSET S
  PROVE  /\ IsFiniteSet(s) /\ Cardinality(s) \in Nat
         /\ Cardinality(s) = 0 <=> s = {}
         /\ \A x \in s : s \ {x} \in SUBSET S /\ Cardinality(s \ {x}) = Cardinality(s) - 1
<1>1. IsFiniteSet(s) /\ Cardinality(s) \in Nat
  BY FS_Subset, FS_CardinalityType
<1>2. Cardinality(s) = 0 <=> s = {}
  BY <1>1, FS_EmptySet
<1>3. \A x \in s : Cardinality(s \ {x}) = Cardinality(s) - 1
  BY <1>1, FS_RemoveElement
<1> QED BY <1>1, <1>2, <1>3

(* Induction over the subsets of a finite set.                             *)
LEMMA SubsetInduction ==
  ASSUME NEW S, IsFiniteSet(S), NEW P,
         \A s \in SUBSET S : (\A x \in s : s \ {x} \in P) => s \in P
  PROVE  \A s \in SUBSET S : s \in P
<1> DEFINE T == {n \in Nat : \A s \in SUBSET S : Cardinality(s) = n => s \in P}
<1>1. 0 \in T
  BY OneLess
<1>2. \A n \in Nat : n \in T => n + 1 \in T
  <2> SUFFICES ASSUME NEW n \in Nat, n \in T, NEW s \in SUBSET S, Cardinality(s) = n + 1
               PROVE  s \in P
    OBVIOUS
  <2>1. \A x \in s : s \ {x} \in SUBSET S /\ Cardinality(s \ {x}) = n
    BY OneLess
  <2> QED BY <2>1
<1>3. Nat \subseteq T
  <2> HIDE DEF T
  <2> QED BY <1>1, <1>2, SetInduction
<1> QED BY <1>3, OneLess
-----------------------------------------------------------------------------
First(s) == CHOOSE x \in s : TRUE

(* g satisfies, on the sets of D, the recursion a sum of f is defined by.  *)
SumsOn(g, f, D) == g = [s \in D |-> IF s = {} THEN 0 ELSE f[First(s)] + g[s \ {First(s)}]]
Sums(f, S) == CHOOSE g : SumsOn(g, f, SUBSET S)

(* The definition of the community modules.                                *)
LEMMA SumIs ==
  ASSUME NEW f, NEW S
  PROVE  SumFunctionOnSet(f, S) = Sums(f, S)[S]
BY Zenon DEF SumFunctionOnSet, FoldFunctionOnSet, MapThenFoldSet, Sums, SumsOn, First

(* The element a sum takes first is one of its set.                        *)
LEMMA FirstIs == \A s : s # {} => First(s) \in s
BY DEF First

(* The recursion has a solution: one for sets of at most n + 1 elements    *)
(* comes from one for sets of at most n.                                   *)
LEMMA SumsExist ==
  ASSUME NEW f, NEW S, IsFiniteSet(S)
  PROVE  \E g : SumsOn(g, f, SUBSET S)
<1> DEFINE D(n) == {s \in SUBSET S : Cardinality(s) <= n}
           T == {n \in Nat : \E g : SumsOn(g, f, D(n))}
<1>1. 0 \in T
  <2> DEFINE g == [s \in D(0) |-> 0]
  <2>1. \A s \in D(0) : s = {}
    BY OneLess
  <2>2. SumsOn(g, f, D(0))
    BY <2>1 DEF SumsOn
  <2> QED BY <2>2
<1>2. \A n \in Nat : n \in T => n + 1 \in T
  <2>1. ASSUME NEW n \in Nat, NEW g, SumsOn(g, f, D(n))
        PROVE  \E h : SumsOn(h, f, D(n + 1))
    <3> DEFINE V(s, k) == IF s = {} THEN 0 ELSE f[First(s)] + k[s \ {First(s)}]
               h == [s \in D(n + 1) |-> V(s, g)]
    <3>1. g = [s \in D(n) |-> V(s, g)]
      BY <2>1 DEF SumsOn
    <3>2. \A s \in D(n + 1) : s # {} => s \ {First(s)} \in D(n)
      <4> SUFFICES ASSUME NEW s \in D(n + 1), s # {} PROVE s \ {First(s)} \in D(n)
        OBVIOUS
      <4>1. First(s) \in s
        BY FirstIs
      <4>2. Cardinality(s) \in Nat /\ Cardinality(s \ {First(s)}) = Cardinality(s) - 1
        BY <4>1, OneLess
      <4> QED BY <4>2
    <3>3. \A s \in D(n) : s \in D(n + 1)
      BY OneLess
    <3> HIDE DEF D
    <3>4. \A s \in D(n) : h[s] = V(s, g) /\ g[s] = V(s, g)
      BY <3>1, <3>3
    <3>5. \A s \in D(n + 1) : V(s, g) = V(s, h)
      <4>1. \A s \in D(n) : h[s] = g[s]
        BY <3>4
      <4> HIDE DEF h, V
      <4>2. \A s \in D(n + 1) : s # {} => g[s \ {First(s)}] = h[s \ {First(s)}]
        BY <3>2, <4>1
      <4> USE DEF V
      <4> QED BY <4>2
    <3>6. h = [s \in D(n + 1) |-> V(s, h)]
      <4>1. h = [s \in D(n + 1) |-> V(s, g)]
        OBVIOUS
      <4> HIDE DEF h, V
      <4> QED BY <3>5, <4>1
    <3> HIDE DEF h
    <3>7. SumsOn(h, f, D(n + 1))
      BY <3>6 DEF SumsOn
    <3> QED BY <3>7
  <2> HIDE DEF D
  <2> QED BY <2>1
<1>3. Nat \subseteq T
  <2> HIDE DEF T
  <2> QED BY <1>1, <1>2, SetInduction
<1>4. D(Cardinality(S)) = SUBSET S
  BY OneLess, FS_Subset
<1>5. Cardinality(S) \in T
  BY <1>3, OneLess
<1> QED BY <1>4, <1>5

(* The recursion of the sums has a solution.                               *)
LEMMA SumsRecursion ==
  ASSUME NEW f, NEW S, IsFiniteSet(S), NEW s \in SUBSET S
  PROVE  Sums(f, S)[s] = IF s = {} THEN 0 ELSE f[First(s)] + Sums(f, S)[s \ {First(s)}]
<1> DEFINE g == Sums(f, S)
<1>1. SumsOn(g, f, SUBSET S)
  BY SumsExist DEF Sums
<1> HIDE DEF g
<1>2. g[s] = IF s = {} THEN 0 ELSE f[First(s)] + g[s \ {First(s)}]
  BY <1>1 DEF SumsOn
<1> QED BY <1>2 DEF g

(* Nothing but the values of f on a set determines its sum.                *)
LEMMA SumsAgree ==
  ASSUME NEW f, NEW h, NEW S, NEW T, IsFiniteSet(S), T \subseteq S,
         \A x \in T : f[x] = h[x]
  PROVE  \A s \in SUBSET T : Sums(f, S)[s] = Sums(h, T)[s]
<1> DEFINE P == {s \in SUBSET T : Sums(f, S)[s] = Sums(h, T)[s]}
<1>0. IsFiniteSet(T)
  BY FS_Subset
<1>1. ASSUME NEW s \in SUBSET T, \A x \in s : s \ {x} \in P PROVE s \in P
  <2> DEFINE c == First(s)
  <2>0. s \in SUBSET S
    OBVIOUS
  <2>1. Sums(f, S)[s] = (IF s = {} THEN 0 ELSE f[c] + Sums(f, S)[s \ {c}])
    BY <2>0, SumsRecursion
  <2>2. Sums(h, T)[s] = (IF s = {} THEN 0 ELSE h[c] + Sums(h, T)[s \ {c}])
    BY <1>0, SumsRecursion
  <2>3. s # {} => c \in s
    BY FirstIs
  <2> HIDE DEF c
  <2>4. s # {} => f[c] = h[c] /\ Sums(f, S)[s \ {c}] = Sums(h, T)[s \ {c}]
    BY <1>1, <2>3
  <2> QED BY <2>1, <2>2, <2>4
<1> HIDE DEF P
<1>2. \A s \in SUBSET T : s \in P
  BY <1>0, <1>1, SubsetInduction
<1> QED BY <1>2 DEF P
-----------------------------------------------------------------------------
(* The sum over no elements.                                               *)
LEMMA SumEmpty == ASSUME NEW f PROVE SumFunctionOnSet(f, {}) = 0
<1>1. IsFiniteSet({})
  BY FS_EmptySet
<1> QED BY <1>1, SumIs, SumsRecursion

(* The sum as the recursion takes it apart.                                *)
LEMMA SumFirst ==
  ASSUME NEW f, NEW S, IsFiniteSet(S), S # {}
  PROVE  SumFunctionOnSet(f, S) = f[First(S)] + SumFunctionOnSet(f, S \ {First(S)})
<1> DEFINE c == First(S)
<1>1. Sums(f, S)[S] = f[c] + Sums(f, S)[S \ {c}]
  BY SumsRecursion
<1> HIDE DEF c
<1>2. Sums(f, S)[S \ {c}] = Sums(f, S \ {c})[S \ {c}]
  BY SumsAgree
<1> QED BY <1>1, <1>2, SumIs DEF c

(* Functions with the same values have the same sum.                       *)
LEMMA SumSame ==
  ASSUME NEW f, NEW h, NEW S, IsFiniteSet(S), \A x \in S : f[x] = h[x]
  PROVE  SumFunctionOnSet(f, S) = SumFunctionOnSet(h, S)
BY SumIs, SumsAgree

(* The sum of integers is an integer.                                      *)
LEMMA SumInt ==
  ASSUME NEW S, IsFiniteSet(S), NEW f, \A x \in S : f[x] \in Int
  PROVE  SumFunctionOnSet(f, S) \in Int
<1> DEFINE P == {s \in SUBSET S : SumFunctionOnSet(f, s) \in Int}
<1>1. ASSUME NEW s \in SUBSET S, \A x \in s : s \ {x} \in P PROVE s \in P
  <2>1. CASE s = {}
    BY <2>1, SumEmpty
  <2>2. CASE s # {}
    <3>1. IsFiniteSet(s)
      BY FS_Subset
    <3>2. First(s) \in s
      BY <2>2, FirstIs
    <3>3. SumFunctionOnSet(f, s) = f[First(s)] + SumFunctionOnSet(f, s \ {First(s)})
      BY <2>2, <3>1, SumFirst
    <3> QED BY <1>1, <3>2, <3>3
  <2> QED BY <2>1, <2>2
<1> HIDE DEF P
<1>2. \A s \in SUBSET S : s \in P
  BY <1>1, SubsetInduction
<1> QED BY <1>2 DEF P

(* The sum of nothing but zeros.                                           *)
LEMMA SumZero ==
  ASSUME NEW S, IsFiniteSet(S), NEW f, \A x \in S : f[x] = 0
  PROVE  SumFunctionOnSet(f, S) = 0
<1> DEFINE P == {s \in SUBSET S : SumFunctionOnSet(f, s) = 0}
<1>1. ASSUME NEW s \in SUBSET S, \A x \in s : s \ {x} \in P PROVE s \in P
  <2>1. CASE s = {}
    BY <2>1, SumEmpty
  <2>2. CASE s # {}
    <3>1. First(s) \in s /\ IsFiniteSet(s)
      BY <2>2, FirstIs, FS_Subset
    <3>2. SumFunctionOnSet(f, s) = f[First(s)] + SumFunctionOnSet(f, s \ {First(s)})
      BY <2>2, <3>1, SumFirst
    <3>3. f[First(s)] = 0 /\ SumFunctionOnSet(f, s \ {First(s)}) = 0
      BY <1>1, <3>1
    <3> QED BY <3>2, <3>3
  <2> QED BY <2>1, <2>2
<1> HIDE DEF P
<1>2. \A s \in SUBSET S : s \in P
  BY <1>1, SubsetInduction
<1> QED BY <1>2 DEF P

(* The sum of natural numbers is a natural number.                         *)
LEMMA SumNat ==
  ASSUME NEW S, IsFiniteSet(S), NEW f, \A x \in S : f[x] \in Nat
  PROVE  SumFunctionOnSet(f, S) \in Nat
<1> DEFINE P == {s \in SUBSET S : SumFunctionOnSet(f, s) \in Nat}
<1>1. ASSUME NEW s \in SUBSET S, \A x \in s : s \ {x} \in P PROVE s \in P
  <2>1. CASE s = {}
    BY <2>1, SumEmpty
  <2>2. CASE s # {}
    <3>1. IsFiniteSet(s)
      BY FS_Subset
    <3>2. SumFunctionOnSet(f, s) = f[First(s)] + SumFunctionOnSet(f, s \ {First(s)})
      BY <2>2, <3>1, SumFirst
    <3>3. First(s) \in s
      BY <2>2, FirstIs
    <3>4. f[First(s)] \in Nat /\ SumFunctionOnSet(f, s \ {First(s)}) \in Nat
      BY <1>1, <3>3
    <3>5. SumFunctionOnSet(f, s) \in Nat
      BY <3>2, <3>4
    <3> QED BY <3>5
  <2> QED BY <2>1, <2>2
<1> HIDE DEF P
<1>2. \A s \in SUBSET S : s \in P
  BY <1>1, SubsetInduction
<1> QED BY <1>2 DEF P

(* Any element can be taken out of a sum.                                  *)
LEMMA SumTake ==
  ASSUME NEW S, IsFiniteSet(S), NEW f, \A x \in S : f[x] \in Int, NEW z \in S
  PROVE  SumFunctionOnSet(f, S) = f[z] + SumFunctionOnSet(f, S \ {z})
<1> DEFINE Sum(s) == SumFunctionOnSet(f, s)
           P == {s \in SUBSET S : \A x \in s : Sum(s) = f[x] + Sum(s \ {x})}
<1>0. \A s \in SUBSET S : IsFiniteSet(s) /\ Sum(s) \in Int
  BY FS_Subset, SumInt
<1>1. ASSUME NEW s \in SUBSET S, \A x \in s : s \ {x} \in P, NEW x \in s
      PROVE  Sum(s) = f[x] + Sum(s \ {x})
  <2> DEFINE c == First(s)
             r == (s \ {c}) \ {x}
  <2>1. c \in s
    BY FirstIs
  <2>2. Sum(s) = f[c] + Sum(s \ {c})
    BY <1>0, SumFirst
  <2> HIDE DEF c
  <2>3. CASE x = c
    BY <2>2, <2>3
  <2>4. CASE x # c
    <3>1. Sum(s \ {c}) = f[x] + Sum(r)
      BY <1>1, <2>1, <2>4
    <3>2. Sum(s \ {x}) = f[c] + Sum((s \ {x}) \ {c})
      BY <1>1, <2>1, <2>4
    <3>3. (s \ {x}) \ {c} = r
      OBVIOUS
    <3>4. Sum(r) \in Int /\ f[x] \in Int /\ f[c] \in Int
      BY <1>0, <2>1
    <3>5. Sum(s) = f[c] + (f[x] + Sum(r)) /\ Sum(s \ {x}) = f[c] + Sum(r)
      BY <2>2, <3>1, <3>2, <3>3
    <3> HIDE DEF Sum, r
    <3> QED BY <3>4, <3>5
  <2> QED BY <2>3, <2>4
<1>2. \A s \in SUBSET S : (\A x \in s : s \ {x} \in P) => s \in P
  <2> HIDE DEF Sum
  <2> QED BY <1>1
<1>3. S \in P
  <2> HIDE DEF P
  <2>1. \A s \in SUBSET S : s \in P
    BY <1>2, SubsetInduction
  <2> QED BY <2>1
<1> QED BY <1>3

(* An element can be added,                                                *)
LEMMA SumPut ==
  ASSUME NEW S, IsFiniteSet(S), NEW z, z \notin S, NEW f, \A x \in S \cup {z} : f[x] \in Int
  PROVE  SumFunctionOnSet(f, S \cup {z}) = f[z] + SumFunctionOnSet(f, S)
<1>1. IsFiniteSet(S \cup {z})
  BY FS_AddElement
<1>2. (S \cup {z}) \ {z} = S
  OBVIOUS
<1> QED BY <1>1, <1>2, SumTake

(* ... or changed: the sum changes by as much.                             *)
LEMMA SumChange ==
  ASSUME NEW S, IsFiniteSet(S), NEW z \in S, NEW f, NEW h,
         \A x \in S : f[x] \in Int /\ h[x] \in Int,
         \A x \in S \ {z} : f[x] = h[x]
  PROVE  SumFunctionOnSet(h, S) = SumFunctionOnSet(f, S) + (h[z] - f[z])
<1>1. IsFiniteSet(S \ {z})
  BY FS_RemoveElement
<1>2. SumFunctionOnSet(f, S \ {z}) = SumFunctionOnSet(h, S \ {z})
  BY <1>1, SumSame
<1>3. /\ SumFunctionOnSet(f, S) = f[z] + SumFunctionOnSet(f, S \ {z})
      /\ SumFunctionOnSet(h, S) = h[z] + SumFunctionOnSet(h, S \ {z})
  BY SumTake
<1>4. SumFunctionOnSet(f, S \ {z}) \in Int
  BY <1>1, SumInt
<1> QED BY <1>2, <1>3, <1>4

(* A sum may be taken in any other place: b moves S to T, one by one.      *)
LEMMA SumMoved ==
  ASSUME NEW S, IsFiniteSet(S), NEW T, IsFiniteSet(T), NEW b, NEW f, NEW h,
         T = {b[x] : x \in S},
         \A x, y \in S : b[x] = b[y] => x = y,
         \A x \in S : f[x] = h[b[x]] /\ f[x] \in Int
  PROVE  SumFunctionOnSet(f, S) = SumFunctionOnSet(h, T)
<1> DEFINE Img(s) == {b[x] : x \in s}
           P == {s \in SUBSET S : SumFunctionOnSet(f, s) = SumFunctionOnSet(h, Img(s))}
<1>1. ASSUME NEW s \in SUBSET S, \A x \in s : s \ {x} \in P PROVE s \in P
  <2>1. CASE s = {}
    <3>1. Img(s) = {}
      BY <2>1
    <3> QED BY <2>1, <3>1, SumEmpty
  <2>2. CASE s # {}
    <3>1. PICK x \in s : TRUE
      BY <2>2
    <3>2. IsFiniteSet(s) /\ IsFiniteSet(Img(s))
      <4>1. Img(s) \subseteq T
        OBVIOUS
      <4> QED BY <4>1, FS_Subset
    <3>3. Img(s \ {x}) = Img(s) \ {b[x]} /\ b[x] \in Img(s)
      <4>1. \A y \in s : y # x => b[y] # b[x]
        BY <3>1
      <4> QED BY <4>1
    <3>4. \A y \in Img(s) : h[y] \in Int
      OBVIOUS
    <3>5. SumFunctionOnSet(f, s \ {x}) = SumFunctionOnSet(h, Img(s) \ {b[x]})
      BY <1>1, <3>1, <3>3
    <3> HIDE DEF Img
    <3>6. SumFunctionOnSet(f, s) = f[x] + SumFunctionOnSet(f, s \ {x})
      BY <3>2, SumTake
    <3>7. SumFunctionOnSet(h, Img(s)) = h[b[x]] + SumFunctionOnSet(h, Img(s) \ {b[x]})
      BY <3>2, <3>3, <3>4, SumTake
    <3>8. SumFunctionOnSet(f, s) = SumFunctionOnSet(h, Img(s))
      BY <3>5, <3>6, <3>7
    <3> QED BY <3>8
  <2> QED BY <2>1, <2>2
<1>2. S \in P
  <2> HIDE DEF P
  <2>1. \A s \in SUBSET S : s \in P
    BY <1>1, SubsetInduction
  <2> QED BY <2>1
<1> QED BY <1>2
=============================================================================
