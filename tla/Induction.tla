----------------------------- MODULE Induction -----------------------------
(***************************************************************************)
(* Induction and sums for the proofs of this project.  The induction       *)
(* theorems of the library are stated for an operator; these are stated    *)
(* for a set, from the well-foundedness of the natural numbers, so that    *)
(* they can be used with the installed provers.                            *)
(***************************************************************************)
EXTENDS Integers, Functions, FiniteSetTheorems, TLAPS

\* A set of numbers that holds 0 and the successor of all it holds is all of them.
LEMMA Induct ==
  ASSUME NEW T, 0 \in T, \A n \in Nat : n \in T => n + 1 \in T
  PROVE  Nat \subseteq T
<1> DEFINE R == OpToRel(<, Nat)
           B == Nat \ T
<1>1. SUFFICES ASSUME B # {} PROVE FALSE
  OBVIOUS
<1>2. IsWellFoundedOn(R, Nat)
  BY NatLessThanWellFounded
<1>3. \A m, n \in Nat : m < n => <<m, n>> \in R
  BY DEF OpToRel
<1> HIDE DEF R
<1>4. PICK n \in B : \A m \in B : <<m, n>> \notin R
  BY <1>1, <1>2, WFMin
<1>5. n \in Nat /\ n # 0 /\ n - 1 \in Nat /\ n - 1 < n /\ n = (n - 1) + 1
  OBVIOUS
<1>6. n - 1 \in B
  BY <1>5
<1> QED
  BY <1>3, <1>4, <1>5, <1>6

\* A set of numbers has a least member.
LEMMA LeastOf ==
  ASSUME NEW D \in SUBSET Nat, D # {}
  PROVE  \E m \in D : \A k \in D : m <= k
<1> DEFINE R == OpToRel(<, Nat)
<1>1. IsWellFoundedOn(R, Nat)
  BY NatLessThanWellFounded
<1>2. \A m, n \in Nat : m < n => <<m, n>> \in R
  BY DEF OpToRel
<1> HIDE DEF R
<1>3. PICK m \in D : \A k \in D : <<k, m>> \notin R
  BY <1>1, WFMin
<1>4. ASSUME NEW k \in D PROVE m <= k
  <2>1. m \in Nat /\ k \in Nat /\ ~(k < m)
    BY <1>2, <1>3
  <2> QED
    BY <2>1
<1> QED
  BY <1>4

\* The size of the numbers up to one.
LEMMA UpTo == ASSUME NEW k \in Nat PROVE IsFiniteSet(1..k) /\ Cardinality(1..k) = k
<1>1. IsFiniteSet(1..k) /\ Cardinality(1..k) = IF 1 > k THEN 0 ELSE k - 1 + 1
  BY FS_Interval
<1> QED
  BY <1>1

\* A function that is one to one and onto keeps the size.
LEMMA SameSize ==
  ASSUME NEW S, IsFiniteSet(S), NEW T, NEW f \in [S -> T],
         \A x, y \in S : f[x] = f[y] => x = y, \A z \in T : \E x \in S : f[x] = z
  PROVE  IsFiniteSet(T) /\ Cardinality(T) = Cardinality(S)
<1>1. f \in Bijection(S, T)
  BY DEF Bijection, Injection, Surjection, IsInjective
<1> QED
  BY <1>1, FS_Bijection DEF ExistsBijection

\* The size of a set in two parts.
LEMMA TwoParts ==
  ASSUME NEW U, NEW A, NEW B, IsFiniteSet(A), IsFiniteSet(B), U = A \cup B, A \cap B = {}
  PROVE  IsFiniteSet(U) /\ Cardinality(U) = Cardinality(A) + Cardinality(B)
<1>1. /\ IsFiniteSet(A \cup B)
      /\ Cardinality(A \cup B) = Cardinality(A) + Cardinality(B) - Cardinality(A \cap B)
  BY FS_Union
<1>2. Cardinality(A) \in Nat /\ Cardinality(B) \in Nat /\ Cardinality(A \cap B) = 0
  <2>1. Cardinality({}) = 0
    BY FS_EmptySet
  <2>2. Cardinality(A \cap B) = 0
    BY <2>1, Zenon
  <2> QED
    BY <2>2, FS_CardinalityType
<1>3. Cardinality(A \cup B) = Cardinality(A) + Cardinality(B)
  BY <1>1, <1>2
<1> QED
  BY <1>1, <1>3, Zenon

\* One step of the sum of f over a set.
SumStep(f, g, s) == IF s = {} THEN 0 ELSE LET x == CHOOSE y \in s : TRUE IN f[x] + g[s \ {x}]

\* The recursion of a sum over a finite set has a solution.
LEMMA SumExists ==
  ASSUME NEW S, IsFiniteSet(S), NEW f
  PROVE  \E g : g = [s \in SUBSET S |-> SumStep(f, g, s)]
<1> DEFINE Upto(n) == {s \in SUBSET S : Cardinality(s) <= n}
           Solved(n) == \E g : /\ g = [s \in SUBSET S |-> g[s]]
                               /\ \A s \in Upto(n) : g[s] = SumStep(f, g, s)
           T == {n \in Nat : Solved(n)}
<1>1. \A s \in SUBSET S : IsFiniteSet(s) /\ Cardinality(s) \in Nat /\ Cardinality(s) <= Cardinality(S)
  BY FS_Subset, FS_CardinalityType
<1>2. \A s \in SUBSET S : \A x \in s : s \ {x} \in SUBSET S /\ Cardinality(s \ {x}) = Cardinality(s) - 1
  BY <1>1, FS_RemoveElement
<1>3. 0 \in T
  <2> DEFINE g == [s \in SUBSET S |-> 0]
  <2>1. \A s \in Upto(0) : s = {}
    BY <1>1, FS_EmptySet
  <2>2. \A s \in Upto(0) : g[s] = SumStep(f, g, s)
    BY <2>1 DEF SumStep
  <2>3. g = [s \in SUBSET S |-> g[s]]
    OBVIOUS
  <2> QED
    BY <2>2, <2>3
<1>4. ASSUME NEW n \in Nat, n \in T PROVE n + 1 \in T
  <2>1. PICK g : g = [s \in SUBSET S |-> g[s]] /\ \A s \in Upto(n) : g[s] = SumStep(f, g, s)
    BY <1>4
  <2> DEFINE h == [s \in SUBSET S |-> IF Cardinality(s) <= n THEN g[s] ELSE SumStep(f, g, s)]
  <2>2. ASSUME NEW s \in Upto(n + 1) PROVE h[s] = SumStep(f, h, s)
    <3>1. h[s] = SumStep(f, g, s)
      BY <2>1
    <3>2. CASE s = {}
      BY <3>1, <3>2 DEF SumStep
    <3>3. CASE s # {}
      <4> DEFINE x == CHOOSE y \in s : TRUE
      <4>1. x \in s
        BY <3>3
      <4> HIDE DEF x
      <4>2. s \ {x} \in SUBSET S /\ Cardinality(s \ {x}) <= n
        BY <1>1, <1>2, <4>1
      <4>3. h[s \ {x}] = g[s \ {x}]
        BY <4>2
      <4>4. SumStep(f, g, s) = f[x] + g[s \ {x}] /\ SumStep(f, h, s) = f[x] + h[s \ {x}]
        BY <3>3 DEF SumStep, x
      <4> QED
        BY <3>1, <4>3, <4>4
    <3> QED
      BY <3>2, <3>3
  <2>3. h = [s \in SUBSET S |-> h[s]]
    OBVIOUS
  <2> HIDE DEF h, Upto
  <2>4. Solved(n + 1)
    BY <2>2, <2>3
  <2> HIDE DEF Solved
  <2> QED
    BY <2>4
<1> HIDE DEF T
<1>5. Cardinality(S) \in T
  BY <1>1, <1>3, <1>4, Induct
<1>6. PICK g : g = [s \in SUBSET S |-> g[s]] /\ \A s \in Upto(Cardinality(S)) : g[s] = SumStep(f, g, s)
  BY <1>5 DEF T
<1>7. g = [s \in SUBSET S |-> SumStep(f, g, s)]
  BY <1>1, <1>6
<1> QED
  BY <1>7

\* g gives every subset of S the sum of f over it.
Sums(g, S, f) ==
  /\ g \in [SUBSET S -> Nat]
  /\ g[{}] = 0
  /\ \A s \in SUBSET S : s # {} => \E x \in s : g[s] = f[x] + g[s \ {x}]

\* What the fold of the community modules computes on natural numbers.
LEMMA SumOfFunction ==
  ASSUME NEW S, IsFiniteSet(S), NEW f \in [S -> Nat]
  PROVE  \E g : Sums(g, S, f) /\ SumFunction(f) = g[S]
<1> DEFINE g == CHOOSE h : h = [s \in SUBSET S |-> SumStep(f, h, s)]
           T == {n \in Nat : \A s \in SUBSET S : Cardinality(s) = n => g[s] \in Nat}
<1>1. g = [s \in SUBSET S |-> SumStep(f, g, s)]
  BY SumExists
<1>2. SumFunction(f) = g[S]
  <2>1. DOMAIN f = S
    OBVIOUS
  <2> QED
    BY <2>1 DEF SumFunction, SumFunctionOnSet, FoldFunctionOnSet, MapThenFoldSet, SumStep
<1> HIDE DEF g
<1>3. g[{}] = 0
  BY <1>1 DEF SumStep
<1>4. ASSUME NEW s \in SUBSET S, s # {}
      PROVE  \E x \in s : g[s] = f[x] + g[s \ {x}]
  BY <1>1, <1>4 DEF SumStep
<1>5. \A s \in SUBSET S : IsFiniteSet(s) /\ Cardinality(s) \in Nat
  BY FS_Subset, FS_CardinalityType
<1>6. 0 \in T
  BY <1>3, <1>5, FS_EmptySet
<1>7. ASSUME NEW n \in Nat, n \in T PROVE n + 1 \in T
  <2> SUFFICES ASSUME NEW s \in SUBSET S, Cardinality(s) = n + 1 PROVE g[s] \in Nat
    OBVIOUS
  <2>1. s # {}
    BY FS_EmptySet
  <2>2. PICK x \in s : g[s] = f[x] + g[s \ {x}]
    BY <1>4, <2>1
  <2>3. s \ {x} \in SUBSET S /\ Cardinality(s \ {x}) = n
    BY <1>5, FS_RemoveElement
  <2> QED
    BY <1>7, <2>2, <2>3
<1>8. \A s \in SUBSET S : Cardinality(s) \in T
  <2> HIDE DEF T
  <2> QED
    BY <1>5, <1>6, <1>7, Induct
<1>9. g \in [SUBSET S -> Nat]
  BY <1>1, <1>8
<1> QED
  BY <1>2, <1>3, <1>4, <1>9 DEF Sums


\* The members of a finite set of numbers can be put in order.
LEMMA Enumerated ==
  ASSUME NEW S \in SUBSET Nat, IsFiniteSet(S)
  PROVE  \E s \in [1..Cardinality(S) -> S] :
           \A j, k \in 1..Cardinality(S) : j < k => s[j] < s[k]
<1> DEFINE InOrderOf(U, n, s) == \A j, k \in 1..n : j < k => s[j] < s[k]
           T == {n \in Nat : \A U \in SUBSET S : Cardinality(U) = n =>
                               \E s \in [1..n -> U] : InOrderOf(U, n, s)}
<1>1. 0 \in T
  <2> SUFFICES ASSUME NEW U \in SUBSET S, Cardinality(U) = 0
               PROVE  \E s \in [1..0 -> U] : InOrderOf(U, 0, s)
    OBVIOUS
  <2> [k \in 1..0 |-> k] \in [1..0 -> U] /\ 1..0 = {}
    OBVIOUS
  <2> WITNESS [k \in 1..0 |-> k] \in [1..0 -> U]
  <2> QED
    OBVIOUS
<1>2. ASSUME NEW n \in Nat, n \in T PROVE n + 1 \in T
  <2> SUFFICES ASSUME NEW U \in SUBSET S, Cardinality(U) = n + 1
               PROVE  \E s \in [1..(n + 1) -> U] : InOrderOf(U, n + 1, s)
    OBVIOUS
  <2>1. IsFiniteSet(U)
    BY FS_Subset
  <2>2. U # {}
    BY FS_EmptySet
  <2>3. PICK m \in U : \A k \in U : m <= k
    BY <2>2, LeastOf
  <2>4. Cardinality(U \ {m}) = n
    <3>1. Cardinality(U \ {m}) = Cardinality(U) - 1
      BY <2>1, <2>3, FS_RemoveElement
    <3> HIDE DEF T
    <3> QED
      BY <3>1
  <2>5. PICK r \in [1..n -> U \ {m}] : InOrderOf(U \ {m}, n, r)
    BY <1>2, <2>4
  <2> HIDE DEF T
  <2> DEFINE s == [k \in 1..(n + 1) |-> IF k = 1 THEN m ELSE r[k - 1]]
  <2>6. s \in [1..(n + 1) -> U]
    <3> SUFFICES ASSUME NEW k \in 1..(n + 1), k # 1 PROVE r[k - 1] \in U
      BY <2>3
    <3>1. k - 1 \in 1..n
      OBVIOUS
    <3> QED
      BY <3>1, <2>5
  <2>7. InOrderOf(U, n + 1, s)
    <3> SUFFICES ASSUME NEW j \in 1..(n + 1), NEW k \in 1..(n + 1), j < k PROVE s[j] < s[k]
      OBVIOUS
    <3>1. k - 1 \in 1..n /\ s[k] = r[k - 1] /\ r[k - 1] \in U \ {m}
      BY <2>5
    <3>2. CASE j = 1
      <4>1. m \in Nat /\ r[k - 1] \in Nat /\ m <= r[k - 1] /\ m # r[k - 1]
        BY <3>1, <2>3
      <4>2. s[j] = m
        BY <3>2
      <4> QED
        BY <4>1, <4>2, <3>1
    <3>3. CASE j # 1
      <4>1. j - 1 \in 1..n /\ s[j] = r[j - 1] /\ j - 1 < k - 1
        BY <3>3
      <4> QED
        BY <4>1, <3>1, <2>5
    <3> QED
      BY <3>2, <3>3
  <2> QED
    BY <2>6, <2>7
<1> HIDE DEF T
<1>3. Nat \subseteq T
  BY <1>1, <1>2, Induct
<1>4. Cardinality(S) \in T
  BY <1>3, FS_CardinalityType
<1> QED
  BY <1>4 DEF T

\* A sequence that names as many things as a set has, each once, names all of it.
LEMMA NamesAll ==
  ASSUME NEW S, IsFiniteSet(S), NEW s \in [1..Cardinality(S) -> S],
         \A j, k \in 1..Cardinality(S) : j # k => s[j] # s[k]
  PROVE  S = {s[k] : k \in 1..Cardinality(S)}
<1> DEFINE D == 1..Cardinality(S)
           R == {s[k] : k \in D}
<1>1. R \subseteq S
  OBVIOUS
<1>2. Cardinality(S) \in Nat
  BY FS_CardinalityType
<1>3. IsFiniteSet(D) /\ Cardinality(D) = Cardinality(S)
  BY <1>2, UpTo
<1>4. s \in [D -> R]
  OBVIOUS
<1>5. IsFiniteSet(R) /\ Cardinality(R) = Cardinality(S)
  <2>1. \A x, y \in D : s[x] = s[y] => x = y
    OBVIOUS
  <2>2. \A z \in R : \E x \in D : s[x] = z
    OBVIOUS
  <2>3. IsFiniteSet(D)
    BY <1>3
  <2>4. s \in [D -> R]
    BY <1>4
  <2> HIDE DEF D, R
  <2>5. IsFiniteSet(R) /\ Cardinality(R) = Cardinality(D)
    BY <2>1, <2>2, <2>3, <2>4, SameSize, ZenonT(30)
  <2> QED
    BY <1>3, <2>5
<1> QED
  BY <1>1, <1>5, FS_Subset
=============================================================================
