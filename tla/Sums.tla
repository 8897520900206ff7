---------------------------------- MODULE Sums ----------------------------------
(***************************************************************************)
(* Sums, folds and recursion over finite sets, for the proofs: a sum does   *)
(* not depend on the order it is taken in, sums by parts and by group, and  *)
(* a function defined on each subset of a finite set by its value on a      *)
(* smaller one is there and stays where its steps lead.                     *)
(***************************************************************************)
EXTENDS Integers, FiniteSetsExt, FiniteSetTheorems, TLAPS, WellFoundedInduction

-----------------------------------------------------------------------------
(* Numbers *)

\* A set of natural numbers has a least one.
LEMMA LeastOfNats ==
  ASSUME NEW T, T \subseteq Nat, T # {}
  PROVE  \E x \in T : \A y \in T : x <= y
<1>1. PICK x \in T : \A y \in T : ~(<<y, x>> \in OpToRel(<, Nat))
  BY NatLessThanWellFounded, WFMin
<1>2. \A y \in T : ~(y < x)
  BY <1>1 DEF OpToRel
<1> QED
  BY <1>2

\* A finite set without one of its members is finite and has one less.
LEMMA OneLess ==
  ASSUME NEW S, IsFiniteSet(S), NEW x \in S
  PROVE  /\ IsFiniteSet(S \ {x}) /\ Cardinality(S) \in Nat
         /\ Cardinality(S \ {x}) \in Nat /\ Cardinality(S \ {x}) = Cardinality(S) - 1
<1>1. IsFiniteSet(S \ {x}) /\ Cardinality(S \ {x}) = Cardinality(S) - 1
  BY FS_RemoveElement
<1>2. QED
  BY <1>1, FS_CardinalityType

\* A finite set of integers has a least one, and Min is in it.
LEMMA MinIsIn ==
  ASSUME NEW A, IsFiniteSet(A), A # {}, A \subseteq Int
  PROVE  Min(A) \in A /\ \A y \in A : Min(A) <= y
<1> DEFINE Least(S) == \E x \in S : \A y \in S : x <= y
           Bad == {Cardinality(S) : S \in {T \in SUBSET A : T # {} /\ ~Least(T)}}
<1>1. \A S \in SUBSET A : IsFiniteSet(S) /\ Cardinality(S) \in Nat
  BY FS_Subset, FS_CardinalityType
<1>2. ASSUME NEW m \in Bad, \A n \in Bad : m <= n PROVE FALSE
  <2>1. PICK S \in SUBSET A : S # {} /\ ~Least(S) /\ m = Cardinality(S)
    OBVIOUS
  <2>2. PICK x \in S : TRUE
    BY <2>1
  <2>3. m \in Nat /\ Cardinality(S \ {x}) = m - 1
    BY <2>1, <1>1, OneLess
  <2>4. ~(m <= m - 1)
    BY <2>3
  <2>5. S \ {x} \in SUBSET A /\ Cardinality(S \ {x}) \notin Bad
    BY <2>3, <2>4, <1>2
  <2>6. S \ {x} # {} => Least(S \ {x})
    <3> HIDE DEF Least
    <3> QED
      BY <2>5
  <2>7. Least(S)
    <3>1. CASE S \ {x} = {}
      <4>1. \A y \in S : y = x /\ x \in Int
        BY <3>1
      <4>2. QED
        BY <4>1, <2>2
    <3>2. CASE S \ {x} # {}
      <4>1. PICK z \in S \ {x} : \A y \in S \ {x} : z <= y
        BY <3>2, <2>6
      <4>2. x \in Int /\ \A y \in S : y \in Int
        BY <2>2
      <4>3. CASE x <= z
        BY <4>1, <4>2, <4>3
      <4>4. CASE ~(x <= z)
        BY <4>1, <4>2, <4>4
      <4>5. QED
        BY <4>3, <4>4
    <3>3. QED
      BY <3>1, <3>2
  <2>8. QED
    BY <2>1, <2>7
<1>3. Bad = {}
  <2>1. Bad \subseteq Nat
    BY <1>1
  <2> HIDE DEF Bad
  <2>2. QED
    BY <2>1, <1>2, LeastOfNats
<1>4. Least(A)
  <2>1. A \in SUBSET A
    OBVIOUS
  <2> HIDE DEF Least
  <2>2. QED
    BY <2>1, <1>3
<1>5. QED
  BY <1>4 DEF Min

-----------------------------------------------------------------------------
(* Sums over finite sets *)

\* The one a sum takes first, and a function that adds up every set of D.
One(S) == CHOOSE x \in S : TRUE
Adds(g, D, f) == \A S \in D : g[S] = IF S = {} THEN 0 ELSE f[One(S)] + g[S \ {One(S)}]

\* The same values on a set.
Alike(S, f, k) == \A x \in S : f[x] = k[x]

\* The sum of a function over a set.
Total(f, S) == MapThenSumSet(LAMBDA x : f[x], S)

\* The one a sum takes first is in the set.
LEMMA OneIsIn == ASSUME NEW S, S # {} PROVE One(S) \in S
BY DEF One

\* The subsets of a finite set can be added up.
LEMMA AddsIsThere ==
  ASSUME NEW S, IsFiniteSet(S), NEW f
  PROVE  \E g : g = [R \in SUBSET S |-> g[R]] /\ Adds(g, SUBSET S, f)
<1> DEFINE D(n) == {R \in SUBSET S : Cardinality(R) <= n}
           Bad == {n \in Nat : ~\E g : g = [R \in D(n) |-> g[R]] /\ Adds(g, D(n), f)}
<1>1. \A R \in SUBSET S : IsFiniteSet(R) /\ Cardinality(R) \in Nat
  BY FS_Subset, FS_CardinalityType
<1>2. ASSUME NEW m \in Bad, \A n \in Bad : m <= n PROVE FALSE
  <2>1. m # 0
    <3> SUFFICES \E g : g = [R \in D(0) |-> g[R]] /\ Adds(g, D(0), f)
      OBVIOUS
    <3> DEFINE g == [R \in D(0) |-> 0]
    <3>1. \A R \in D(0) : R = {}
      BY <1>1, FS_EmptySet
    <3>2. g = [R \in D(0) |-> g[R]] /\ Adds(g, D(0), f)
      BY <3>1 DEF Adds
    <3>3. QED
      BY <3>2
  <2>2. m - 1 \in Nat /\ m - 1 \notin Bad
    <3>1. m \in Nat
      OBVIOUS
    <3>2. m - 1 \in Nat /\ ~(m <= m - 1)
      BY <3>1, <2>1
    <3> HIDE DEF Bad
    <3>3. QED
      BY <3>2, <1>2
  <2>3. PICK g : g = [R \in D(m - 1) |-> g[R]] /\ Adds(g, D(m - 1), f)
    BY <2>2
  <2>4. ASSUME NEW R \in D(m), R # {}
        PROVE  R \ {One(R)} \in D(m - 1) /\ One(R) \in S
    <3>1. One(R) \in R
      BY <2>4, OneIsIn
    <3>2. Cardinality(R \ {One(R)}) = Cardinality(R) - 1 /\ Cardinality(R) \in Nat
      BY <3>1, <1>1, OneLess
    <3>3. QED
      BY <3>1, <3>2
  <2> DEFINE h == [R \in D(m) |-> IF R = {} THEN 0 ELSE f[One(R)] + g[R \ {One(R)}]]
  <2>5. h = [R \in D(m) |-> h[R]]
    OBVIOUS
  <2>6. D(m - 1) \subseteq D(m)
    BY <1>1
  <2>7. \A R \in D(m - 1) : h[R] = g[R]
    <3> SUFFICES ASSUME NEW R \in D(m - 1) PROVE h[R] = g[R]
      OBVIOUS
    <3>1. g[R] = IF R = {} THEN 0 ELSE f[One(R)] + g[R \ {One(R)}]
      <4> HIDE DEF D
      <4> QED
        BY <2>3 DEF Adds
    <3>2. R \in D(m)
      BY <2>6
    <3>3. QED
      BY <3>1, <3>2
  <2>8. Adds(h, D(m), f)
    <3> SUFFICES ASSUME NEW R \in D(m)
                 PROVE  h[R] = IF R = {} THEN 0 ELSE f[One(R)] + h[R \ {One(R)}]
      BY DEF Adds
    <3>1. R # {} => h[R \ {One(R)}] = g[R \ {One(R)}]
      BY <2>4, <2>7
    <3>2. h[R] = IF R = {} THEN 0 ELSE f[One(R)] + g[R \ {One(R)}]
      OBVIOUS
    <3> HIDE DEF h, D
    <3>3. QED
      BY <3>1, <3>2
  <2>9. QED
    <3> HIDE DEF h, D
    <3> QED
      BY <2>5, <2>8
<1>3. Bad = {}
  <2>1. Bad \subseteq Nat
    OBVIOUS
  <2> HIDE DEF Bad
  <2>2. QED
    BY <2>1, <1>2, LeastOfNats
<1>4. Cardinality(S) \in Nat /\ \A R \in SUBSET S : Cardinality(R) <= Cardinality(S)
  BY FS_Subset, FS_CardinalityType
<1>5. D(Cardinality(S)) = SUBSET S
  BY <1>4
<1>6. Cardinality(S) \notin Bad
  BY <1>3
<1> HIDE DEF D
<1>7. QED
  BY <1>4, <1>5, <1>6

\* In one way, for a smaller set too.
LEMMA AddsAlike ==
  ASSUME NEW S, IsFiniteSet(S), NEW R, NEW f, NEW k, Alike(R, f, k), R \subseteq S,
         NEW g, NEW h, Adds(g, SUBSET S, f), Adds(h, SUBSET R, k)
  PROVE  \A T \in SUBSET R : g[T] = h[T]
<1> DEFINE Bad == {Cardinality(T) : T \in {U \in SUBSET R : g[U] # h[U]}}
<1>1. \A T \in SUBSET R : IsFiniteSet(T) /\ Cardinality(T) \in Nat
  BY FS_Subset, FS_CardinalityType
<1>2. ASSUME NEW m \in Bad, \A n \in Bad : m <= n PROVE FALSE
  <2>1. PICK T \in SUBSET R : g[T] # h[T] /\ m = Cardinality(T)
    OBVIOUS
  <2>2. /\ g[T] = IF T = {} THEN 0 ELSE f[One(T)] + g[T \ {One(T)}]
        /\ h[T] = IF T = {} THEN 0 ELSE k[One(T)] + h[T \ {One(T)}]
    <3>1. T \in SUBSET S
      OBVIOUS
    <3>2. QED
      BY <3>1 DEF Adds
  <2>3. T # {}
    BY <2>1, <2>2
  <2>4. One(T) \in T /\ T \ {One(T)} \in SUBSET R
    BY <2>3, OneIsIn
  <2>5. g[T \ {One(T)}] # h[T \ {One(T)}]
    BY <2>1, <2>2, <2>3, <2>4 DEF Alike
  <2>6. Cardinality(T \ {One(T)}) \in Bad
    BY <2>4, <2>5
  <2>7. m \in Nat /\ Cardinality(T \ {One(T)}) = m - 1
    BY <2>1, <2>4, <1>1, OneLess
  <2>8. m <= m - 1
    BY <2>6, <2>7, <1>2
  <2>9. QED
    BY <2>7, <2>8
<1>3. Bad = {}
  <2>1. Bad \subseteq Nat
    BY <1>1
  <2> HIDE DEF Bad
  <2>2. QED
    BY <2>1, <1>2, LeastOfNats
<1>4. QED
  BY <1>3

\* A total is what any function that adds up the subsets gives.
LEMMA TotalIsAdded ==
  ASSUME NEW S, IsFiniteSet(S), NEW f, NEW g, Adds(g, SUBSET S, f)
  PROVE  Total(f, S) = g[S]
<1> DEFINE Is(it) == it = [R \in SUBSET S |->
                 IF R = {} THEN 0
                 ELSE f[CHOOSE x \in R : TRUE] + it[R \ {CHOOSE x \in R : TRUE}]]
           h == CHOOSE it : Is(it)
<1>1. PICK k : k = [R \in SUBSET S |-> k[R]] /\ Adds(k, SUBSET S, f)
  BY AddsIsThere
<1>2. Is(k)
  <2> DEFINE j == [R \in SUBSET S |->
                     IF R = {} THEN 0
                     ELSE f[CHOOSE x \in R : TRUE] + k[R \ {CHOOSE x \in R : TRUE}]]
  <2>1. \A R \in SUBSET S : k[R] = j[R]
    BY <1>1 DEF Adds, One
  <2>2. j = [R \in SUBSET S |-> j[R]]
    OBVIOUS
  <2> HIDE DEF j
  <2>3. k = j
    BY <1>1, <2>1, <2>2
  <2>4. QED
    BY <2>3 DEF j
<1>3. Is(h)
  BY <1>2
<1>4. Adds(h, SUBSET S, f)
  BY <1>3 DEF Adds, One
<1>5. Total(f, S) = h[S]
  BY DEF Total, MapThenSumSet, MapThenFoldSet
<1> HIDE DEF h
<1>6. Alike(S, f, f) /\ S \subseteq S /\ S \in SUBSET S
  BY DEF Alike
<1>7. g[S] = h[S]
  BY <1>4, <1>6, AddsAlike
<1>8. QED
  BY <1>5, <1>7

\* It depends on what is added only.
LEMMA TotalAlike ==
  ASSUME NEW S, IsFiniteSet(S), NEW f, NEW k, Alike(S, f, k)
  PROVE  Total(f, S) = Total(k, S)
<1>1. PICK g : Adds(g, SUBSET S, f)
  BY AddsIsThere
<1>2. PICK h : Adds(h, SUBSET S, k)
  BY AddsIsThere
<1>3. S \subseteq S /\ S \in SUBSET S
  OBVIOUS
<1>4. g[S] = h[S]
  BY <1>1, <1>2, <1>3, AddsAlike
<1>5. QED
  BY <1>1, <1>2, <1>4, TotalIsAdded

\* Nothing adds up to 0; else the one it takes first is added to the rest.
LEMMA TotalOfFirst ==
  ASSUME NEW S, IsFiniteSet(S), NEW f
  PROVE  Total(f, S) = IF S = {} THEN 0 ELSE f[One(S)] + Total(f, S \ {One(S)})
<1> DEFINE R == S \ {One(S)}
<1>1. PICK g : Adds(g, SUBSET S, f)
  BY AddsIsThere
<1>2. Total(f, S) = g[S] /\ S \in SUBSET S
  BY <1>1, TotalIsAdded
<1>3. g[S] = IF S = {} THEN 0 ELSE f[One(S)] + g[R]
  BY <1>1, <1>2 DEF Adds
<1>4. R \in SUBSET S /\ IsFiniteSet(R)
  BY FS_Subset
<1>5. Adds(g, SUBSET R, f)
  BY <1>1, <1>4 DEF Adds
<1> HIDE DEF R
<1>6. Total(f, R) = g[R]
  BY <1>4, <1>5, TotalIsAdded
<1>7. QED
  BY <1>2, <1>3, <1>6 DEF R

\* Integers add up to an integer.
LEMMA TotalIsInt ==
  ASSUME NEW A, IsFiniteSet(A), NEW f, \A x \in A : f[x] \in Int
  PROVE  Total(f, A) \in Int
<1> DEFINE Bad == {Cardinality(S) : S \in {T \in SUBSET A : Total(f, T) \notin Int}}
<1>1. \A S \in SUBSET A : IsFiniteSet(S) /\ Cardinality(S) \in Nat
  BY FS_Subset, FS_CardinalityType
<1>2. ASSUME NEW m \in Bad, \A n \in Bad : m <= n PROVE FALSE
  <2>1. PICK S \in SUBSET A : Total(f, S) \notin Int /\ m = Cardinality(S)
    OBVIOUS
  <2>2. Total(f, S) = IF S = {} THEN 0 ELSE f[One(S)] + Total(f, S \ {One(S)})
    BY <1>1, TotalOfFirst
  <2>3. S # {}
    BY <2>1, <2>2
  <2>4. One(S) \in S /\ f[One(S)] \in Int
    BY <2>3, OneIsIn
  <2>5. Total(f, S \ {One(S)}) \notin Int
    BY <2>1, <2>2, <2>3, <2>4
  <2>6. Cardinality(S \ {One(S)}) \in Bad
    BY <2>4, <2>5
  <2>7. m \in Nat /\ Cardinality(S \ {One(S)}) = m - 1
    BY <2>1, <2>4, <1>1, OneLess
  <2>8. m <= m - 1
    BY <2>6, <2>7, <1>2
  <2>9. QED
    BY <2>7, <2>8
<1>3. Bad = {}
  <2>1. Bad \subseteq Nat
    BY <1>1
  <2> HIDE DEF Bad
  <2>2. QED
    BY <2>1, <1>2, LeastOfNats
<1>4. QED
  BY <1>3

\* Any one can be added to the rest: the order does not matter.
LEMMA TotalWithout ==
  ASSUME NEW A, IsFiniteSet(A), NEW f, \A e \in A : f[e] \in Int, NEW x \in A
  PROVE  Total(f, A) = f[x] + Total(f, A \ {x})
<1> DEFINE Fails(S) == \E y \in S : Total(f, S) # f[y] + Total(f, S \ {y})
           Bad == {Cardinality(S) : S \in {T \in SUBSET A : Fails(T)}}
<1>1. \A S \in SUBSET A : IsFiniteSet(S) /\ Cardinality(S) \in Nat
                          /\ (\A e \in S : f[e] \in Int) /\ Total(f, S) \in Int
  BY FS_Subset, FS_CardinalityType, TotalIsInt
<1>2. ASSUME NEW m \in Bad, \A n \in Bad : m <= n PROVE FALSE
  <2>1. PICK S \in SUBSET A : Fails(S) /\ m = Cardinality(S)
    OBVIOUS
  <2>2. PICK y \in S : Total(f, S) # f[y] + Total(f, S \ {y})
    BY <2>1
  <2> DEFINE c == One(S)
  <2>3. c \in S /\ Total(f, S) = f[c] + Total(f, S \ {c})
    BY <2>2, <1>1, OneIsIn, TotalOfFirst
  <2>4. y # c
    BY <2>2, <2>3
  <2> HIDE DEF c
  <2>5. ASSUME NEW z \in S PROVE ~Fails(S \ {z})
    <3>1. m \in Nat /\ Cardinality(S \ {z}) = m - 1
      BY <2>1, <1>1, OneLess
    <3>2. ~(m <= m - 1)
      BY <3>1
    <3>3. Cardinality(S \ {z}) \notin Bad
      BY <3>1, <3>2, <1>2
    <3>4. S \ {z} \in SUBSET A
      OBVIOUS
    <3> HIDE DEF Fails
    <3>5. QED
      BY <3>3, <3>4
  <2>6. Total(f, S \ {c}) = f[y] + Total(f, (S \ {c}) \ {y})
    <3>1. y \in S \ {c}
      BY <2>4
    <3>2. QED
      BY <2>3, <2>5, <3>1
  <2>7. Total(f, S \ {y}) = f[c] + Total(f, (S \ {y}) \ {c})
    <3>1. c \in S \ {y}
      BY <2>3, <2>4
    <3>2. QED
      BY <2>5, <3>1
  <2>8. (S \ {c}) \ {y} = (S \ {y}) \ {c}
    OBVIOUS
  <2>9. /\ Total(f, (S \ {y}) \ {c}) \in Int /\ f[y] \in Int /\ f[c] \in Int
    <3>1. (S \ {y}) \ {c} \in SUBSET A
      OBVIOUS
    <3>2. QED
      BY <3>1, <1>1, <2>3
  <2>10. Total(f, S) = f[y] + Total(f, S \ {y})
    <3> HIDE DEF Bad, Fails
    <3>1. /\ Total(f, S \ {c}) = f[y] + Total(f, (S \ {y}) \ {c})
          /\ Total(f, S \ {y}) = f[c] + Total(f, (S \ {y}) \ {c})
      BY <2>6, <2>7, <2>8
    <3>2. QED
      BY <3>1, <2>3, <2>9
  <2>11. QED
    BY <2>2, <2>10
<1>3. Bad = {}
  <2>1. Bad \subseteq Nat
    BY <1>1
  <2> HIDE DEF Bad
  <2>2. QED
    BY <2>1, <1>2, LeastOfNats
<1>4. ~Fails(A)
  <2>1. A \in SUBSET A
    OBVIOUS
  <2> HIDE DEF Fails
  <2>2. QED
    BY <1>3, <2>1
<1>5. QED
  BY <1>4

\* Natural numbers add up to one, and positive ones to a positive one.
LEMMA TotalIsNat ==
  ASSUME NEW A, IsFiniteSet(A), NEW f, \A x \in A : f[x] \in Nat
  PROVE  /\ Total(f, A) \in Nat
         /\ (A # {} /\ \A x \in A : f[x] # 0) => Total(f, A) \in Nat \ {0}
<1> DEFINE Bad == {Cardinality(S) : S \in {T \in SUBSET A : Total(f, T) \notin Nat}}
<1>1. \A S \in SUBSET A : IsFiniteSet(S) /\ Cardinality(S) \in Nat
  BY FS_Subset, FS_CardinalityType
<1>2. ASSUME NEW m \in Bad, \A n \in Bad : m <= n PROVE FALSE
  <2>1. PICK S \in SUBSET A : Total(f, S) \notin Nat /\ m = Cardinality(S)
    OBVIOUS
  <2>2. Total(f, S) = IF S = {} THEN 0 ELSE f[One(S)] + Total(f, S \ {One(S)})
    BY <1>1, TotalOfFirst
  <2>3. S # {}
    BY <2>1, <2>2
  <2>4. One(S) \in S /\ f[One(S)] \in Nat
    BY <2>3, OneIsIn
  <2>5. Total(f, S \ {One(S)}) \notin Nat
    BY <2>1, <2>2, <2>3, <2>4
  <2>6. Cardinality(S \ {One(S)}) \in Bad
    BY <2>4, <2>5
  <2>7. m \in Nat /\ Cardinality(S \ {One(S)}) = m - 1
    BY <2>1, <2>4, <1>1, OneLess
  <2>8. m <= m - 1
    BY <2>6, <2>7, <1>2
  <2>9. QED
    BY <2>7, <2>8
<1>3. Bad = {}
  <2>1. Bad \subseteq Nat
    BY <1>1
  <2> HIDE DEF Bad
  <2>2. QED
    BY <2>1, <1>2, LeastOfNats
<1>4. \A S \in SUBSET A : Total(f, S) \in Nat
  BY <1>3
<1>5. ASSUME A # {}, \A x \in A : f[x] # 0 PROVE Total(f, A) \in Nat \ {0}
  <2>1. One(A) \in A
    BY <1>5, OneIsIn
  <2>2. Total(f, A) = f[One(A)] + Total(f, A \ {One(A)})
    BY <1>5, TotalOfFirst
  <2>3. A \ {One(A)} \in SUBSET A
    OBVIOUS
  <2>4. QED
    BY <2>1, <2>2, <2>3, <1>4, <1>5
<1>6. QED
  BY <1>4, <1>5

-----------------------------------------------------------------------------
(* Sums of sums *)

\* What holds of the empty set, and of a set when it holds of the set without any
\* one of its members, holds of every finite set.
LEMMA SetBySet ==
  ASSUME NEW A, IsFiniteSet(A), NEW P, {} \in P,
         \A S \in SUBSET A : S # {} /\ (\A x \in S : S \ {x} \in P) => S \in P
  PROVE  A \in P
<1> DEFINE Bad == {Cardinality(S) : S \in {T \in SUBSET A : T \notin P}}
<1>1. \A S \in SUBSET A : IsFiniteSet(S) /\ Cardinality(S) \in Nat
  BY FS_Subset, FS_CardinalityType
<1>2. ASSUME NEW m \in Bad, \A n \in Bad : m <= n PROVE FALSE
  <2>1. PICK S \in SUBSET A : S \notin P /\ m = Cardinality(S)
    OBVIOUS
  <2>2. PICK x \in S : S \ {x} \notin P
    <3>1. S # {}
      BY <2>1
    <3> HIDE DEF Bad
    <3>2. QED
      BY <3>1, <2>1
  <2>3. Cardinality(S \ {x}) \in Bad
    BY <2>1, <2>2
  <2>4. m \in Nat /\ Cardinality(S \ {x}) = m - 1
    BY <2>1, <2>2, <1>1, OneLess
  <2>5. m <= m - 1
    BY <2>3, <2>4, <1>2
  <2>6. QED
    BY <2>4, <2>5
<1>3. Bad = {}
  <2>1. Bad \subseteq Nat
    BY <1>1
  <2> HIDE DEF Bad
  <2>2. QED
    BY <2>1, <1>2, LeastOfNats
<1>4. QED
  BY <1>3

\* Nothing adds up to 0.
LEMMA TotalOfNothing == ASSUME NEW f PROVE Total(f, {}) = 0
BY FS_EmptySet, TotalOfFirst

\* A part of a sum of integers is an integer, and any member of it can be taken out.
LEMMA TotalOfPart ==
  ASSUME NEW A, IsFiniteSet(A), NEW f, \A x \in A : f[x] \in Int, NEW S \in SUBSET A
  PROVE  /\ Total(f, S) \in Int
         /\ \A x \in S : Total(f, S) = f[x] + Total(f, S \ {x}) /\ Total(f, S \ {x}) \in Int
<1>1. IsFiniteSet(S) /\ (\A x \in S : f[x] \in Int)
  BY FS_Subset
<1>2. \A x \in S : IsFiniteSet(S \ {x}) /\ (\A u \in S \ {x} : f[u] \in Int)
  BY <1>1, FS_Subset
<1>3. Total(f, S) \in Int /\ \A x \in S : Total(f, S \ {x}) \in Int
  BY <1>1, <1>2, TotalIsInt
<1>4. \A x \in S : Total(f, S) = f[x] + Total(f, S \ {x})
  BY <1>1, TotalWithout
<1>5. QED
  BY <1>3, <1>4

\* The sum of sums is the sum of both.
LEMMA TotalOfSums ==
  ASSUME NEW A, IsFiniteSet(A), NEW f, NEW k, NEW h,
         \A x \in A : f[x] \in Int /\ k[x] \in Int /\ h[x] = f[x] + k[x]
  PROVE  Total(h, A) = Total(f, A) + Total(k, A)
<1> DEFINE P == {S \in SUBSET A : Total(h, S) = Total(f, S) + Total(k, S)}
<1>1. {} \in P
  BY TotalOfNothing
<1>2. \A S \in SUBSET A : S # {} /\ (\A x \in S : S \ {x} \in P) => S \in P
  <2> SUFFICES ASSUME NEW S \in SUBSET A, NEW x \in S, S \ {x} \in P PROVE S \in P
    OBVIOUS
  <2>1. \A u \in A : f[u] \in Int /\ k[u] \in Int /\ h[u] \in Int
    OBVIOUS
  <2>2. /\ Total(f, S) = f[x] + Total(f, S \ {x}) /\ Total(f, S \ {x}) \in Int
        /\ Total(k, S) = k[x] + Total(k, S \ {x}) /\ Total(k, S \ {x}) \in Int
        /\ Total(h, S) = h[x] + Total(h, S \ {x}) /\ Total(h, S \ {x}) \in Int
    BY <2>1, TotalOfPart
  <2>3. Total(h, S \ {x}) = Total(f, S \ {x}) + Total(k, S \ {x})
    OBVIOUS
  <2>4. h[x] = f[x] + k[x] /\ f[x] \in Int /\ k[x] \in Int
    OBVIOUS
  <2>5. Total(h, S) = Total(f, S) + Total(k, S)
    BY <2>2, <2>3, <2>4
  <2>6. QED
    BY <2>5
<1> HIDE DEF P
<1>3. A \in P
  BY <1>1, <1>2, SetBySet
<1>4. QED
  BY <1>3 DEF P

\* Of multiples, the multiple.
LEMMA TotalOfMultiples ==
  ASSUME NEW A, IsFiniteSet(A), NEW d \in Int, NEW f, NEW h,
         \A x \in A : f[x] \in Int /\ h[x] = d * f[x]
  PROVE  Total(h, A) = d * Total(f, A)
<1> DEFINE P == {S \in SUBSET A : Total(h, S) = d * Total(f, S)}
<1>1. {} \in P
  BY TotalOfNothing
<1>2. \A S \in SUBSET A : S # {} /\ (\A x \in S : S \ {x} \in P) => S \in P
  <2> SUFFICES ASSUME NEW S \in SUBSET A, NEW x \in S, S \ {x} \in P PROVE S \in P
    OBVIOUS
  <2>1. \A u \in A : f[u] \in Int /\ h[u] \in Int
    OBVIOUS
  <2>2. /\ Total(f, S) = f[x] + Total(f, S \ {x}) /\ Total(f, S \ {x}) \in Int
        /\ Total(h, S) = h[x] + Total(h, S \ {x})
    BY <2>1, TotalOfPart
  <2>3. Total(h, S \ {x}) = d * Total(f, S \ {x})
    OBVIOUS
  <2>4. h[x] = d * f[x] /\ f[x] \in Int
    OBVIOUS
  <2>5. \A u, v \in Int : d * (u + v) = d * u + d * v
    OBVIOUS
  <2>6. Total(h, S) = d * Total(f, S)
    BY <2>2, <2>3, <2>4, <2>5
  <2>7. QED
    BY <2>6
<1> HIDE DEF P
<1>3. A \in P
  BY <1>1, <1>2, SetBySet
<1>4. QED
  BY <1>3 DEF P

\* Of what is small, as small as there are many.
LEMMA TotalOfSmall ==
  ASSUME NEW A, IsFiniteSet(A), NEW d \in Nat, NEW f,
         \A x \in A : f[x] \in Int /\ 2 * f[x] <= d /\ -d <= 2 * f[x]
  PROVE  /\ Cardinality(A) \in Nat /\ Total(f, A) \in Int
         /\ 2 * Total(f, A) <= d * Cardinality(A) /\ -(d * Cardinality(A)) <= 2 * Total(f, A)
<1> DEFINE Small(S) == /\ 2 * Total(f, S) <= d * Cardinality(S)
                       /\ -(d * Cardinality(S)) <= 2 * Total(f, S)
           P == {S \in SUBSET A : Small(S)}
<1>1. {} \in P
  BY TotalOfNothing, FS_EmptySet
<1>2. \A S \in SUBSET A : S # {} /\ (\A x \in S : S \ {x} \in P) => S \in P
  <2> SUFFICES ASSUME NEW S \in SUBSET A, NEW x \in S, S \ {x} \in P PROVE S \in P
    OBVIOUS
  <2> DEFINE n == Cardinality(S \ {x})
             t == Total(f, S \ {x})
  <2>1. Total(f, S) = f[x] + t /\ t \in Int
    BY TotalOfPart
  <2>2. n \in Nat /\ Cardinality(S) = n + 1
    BY FS_Subset, OneLess
  <2>3. 2 * t <= d * n /\ -(d * n) <= 2 * t
    OBVIOUS
  <2>4. f[x] \in Int /\ 2 * f[x] <= d /\ -d <= 2 * f[x]
    OBVIOUS
  <2> HIDE DEF n, t, P
  <2>5. d * (n + 1) = d * n + d /\ d * n \in Int
    BY <2>2
  <2>6. Small(S)
    BY <2>1, <2>2, <2>3, <2>4, <2>5
  <2>7. QED
    BY <2>6 DEF P
<1> HIDE DEF P
<1>3. A \in P
  BY <1>1, <1>2, SetBySet
<1>4. QED
  BY <1>3, TotalIsInt, FS_CardinalityType DEF P

\* Sums by group add up to the sum.
LEMMA TotalByGroup ==
  ASSUME NEW A, IsFiniteSet(A), NEW K, IsFiniteSet(K), NEW f, NEW key,
         \A x \in A : f[x] \in Int /\ key[x] \in K
  PROVE  Total([k \in K |-> Total(f, {x \in A : key[x] = k})], K) = Total(f, A)
<1> DEFINE Group(S, k) == {x \in S : key[x] = k}
           Sums(S) == [k \in K |-> Total(f, Group(S, k))]
           P == {S \in SUBSET A : Total(Sums(S), K) = Total(f, S)}
<1>1. \A S \in SUBSET A, k \in K : Total(f, Group(S, k)) \in Int
  <2>1. \A S \in SUBSET A, k \in K : Group(S, k) \in SUBSET A
    OBVIOUS
  <2> HIDE DEF Group
  <2>2. QED
    BY <2>1, TotalOfPart
<1>2. {} \in P
  <2> DEFINE none == [k \in K |-> 0]
  <2>1. \A k \in K : Sums({})[k] = 0
    BY TotalOfNothing
  <2>2. \A k \in K : none[k] \in Int /\ Sums({})[k] = 0 * none[k]
    BY <2>1
  <2> HIDE DEF none, Sums
  <2>3. Total(Sums({}), K) = 0 * Total(none, K)
    BY <2>2, TotalOfMultiples
  <2>4. Total(none, K) \in Int
    BY <2>2, TotalIsInt
  <2>5. QED
    BY <2>3, <2>4, TotalOfNothing
<1>3. \A S \in SUBSET A : S # {} /\ (\A x \in S : S \ {x} \in P) => S \in P
  <2> SUFFICES ASSUME NEW S \in SUBSET A, NEW x \in S, S \ {x} \in P PROVE S \in P
    OBVIOUS
  <2> DEFINE R == S \ {x}
             s == Sums(S)
             r == Sums(R)
             q == key[x]
  <2>1. q \in K /\ R \in SUBSET A /\ f[x] \in Int
    OBVIOUS
  <2>2. Total(f, S) = f[x] + Total(f, R) /\ Total(f, R) \in Int
    BY TotalOfPart
  <2>3. Total(r, K) = Total(f, R)
    OBVIOUS
  <2>4. \A k \in K : s[k] \in Int /\ r[k] \in Int
    BY <1>1, <2>1
  <2>5. \A k \in K \ {q} : s[k] = r[k]
    <3>1. \A k \in K \ {q} : Group(S, k) = Group(R, k)
      OBVIOUS
    <3> HIDE DEF Group
    <3>2. QED
      BY <3>1
  <2>6. s[q] = f[x] + r[q]
    <3>1. Group(S, q) \in SUBSET A /\ x \in Group(S, q) /\ Group(S, q) \ {x} = Group(R, q)
      OBVIOUS
    <3>2. \A u \in A : f[u] \in Int
      OBVIOUS
    <3> HIDE DEF Group, P
    <3>3. Total(f, Group(S, q)) = f[x] + Total(f, Group(S, q) \ {x})
      BY <3>1, <3>2, TotalOfPart
    <3>4. Total(f, Group(S, q)) = f[x] + Total(f, Group(R, q))
      BY <3>1, <3>3
    <3>5. QED
      BY <3>4, <2>1
  <2> HIDE DEF R, s, r, q, Sums, Group
  <2>7. /\ Total(s, K) = s[q] + Total(s, K \ {q}) /\ Total(s, K \ {q}) \in Int
        /\ Total(r, K) = r[q] + Total(r, K \ {q})
    <3>1. K \in SUBSET K
      OBVIOUS
    <3>2. QED
      BY <3>1, <2>1, <2>4, TotalOfPart
  <2>8. Total(s, K \ {q}) = Total(r, K \ {q})
    <3>1. IsFiniteSet(K \ {q}) /\ Alike(K \ {q}, s, r)
      BY <2>5, FS_Subset DEF Alike
    <3>2. QED
      BY <3>1, TotalAlike
  <2>9. Total(s, K) = Total(f, S)
    <3>1. r[q] \in Int /\ f[x] \in Int
      BY <2>1, <2>4
    <3>2. QED
      BY <3>1, <2>2, <2>3, <2>6, <2>7, <2>8
  <2>10. QED
    BY <2>9 DEF s, Sums
<1>4. A \in P
  <2> HIDE DEF P
  <2> QED
    BY <1>2, <1>3, SetBySet
<1>5. QED
  BY <1>4

\* It does not matter which of two indices is added up first.
LEMMA TotalSwapped ==
  ASSUME NEW A, IsFiniteSet(A), NEW B, IsFiniteSet(B), NEW g,
         \A a \in A, b \in B : g[<<a, b>>] \in Int
  PROVE  Total([a \in A |-> Total([b \in B |-> g[<<a, b>>]], B)], A)
           = Total([b \in B |-> Total([a \in A |-> g[<<a, b>>]], A)], B)
<1> DEFINE Row(a) == [b \in B |-> g[<<a, b>>]]
           Column(b) == [a \in A |-> g[<<a, b>>]]
           rows == [a \in A |-> Total(Row(a), B)]
           Columns(S) == [b \in B |-> Total(Column(b), S)]
           P == {S \in SUBSET A : Total(rows, S) = Total(Columns(S), B)}
<1>1. \A a \in A : Total(Row(a), B) \in Int
  <2>1. \A a \in A : \A b \in B : Row(a)[b] \in Int
    <3>1. \A a \in A, b \in B : Row(a)[b] = g[<<a, b>>] /\ g[<<a, b>>] \in Int
      OBVIOUS
    <3> HIDE DEF Row
    <3>2. QED
      BY <3>1
  <2> HIDE DEF Row
  <2>2. QED
    BY <2>1, TotalIsInt
<1>2. \A a \in A : rows[a] = Total(Row(a), B) /\ rows[a] \in Int
  BY <1>1
<1>3. \A b \in B : \A a \in A : Column(b)[a] = g[<<a, b>>] /\ Column(b)[a] \in Int
  OBVIOUS
<1>4. {} \in P
  <2> DEFINE none == [b \in B |-> 0]
  <2>1. \A b \in B : Columns({})[b] = 0
    BY TotalOfNothing
  <2>2. \A b \in B : none[b] \in Int /\ Columns({})[b] = 0 * none[b]
    BY <2>1
  <2> HIDE DEF none, Columns
  <2>3. Total(Columns({}), B) = 0 * Total(none, B)
    BY <2>2, TotalOfMultiples
  <2>4. Total(none, B) \in Int
    BY <2>2, TotalIsInt
  <2>5. QED
    BY <2>3, <2>4, TotalOfNothing
<1>5. \A S \in SUBSET A : S # {} /\ (\A x \in S : S \ {x} \in P) => S \in P
  <2> SUFFICES ASSUME NEW S \in SUBSET A, NEW x \in S, S \ {x} \in P PROVE S \in P
    OBVIOUS
  <2> DEFINE R == S \ {x}
  <2>1. R \in SUBSET A /\ Total(rows, R) = Total(Columns(R), B)
    OBVIOUS
  <2>2. Total(rows, S) = rows[x] + Total(rows, R)
    <3>1. \A a \in A : rows[a] \in Int
      BY <1>2
    <3> HIDE DEF rows, P
    <3>2. QED
      BY <3>1, TotalOfPart
  <2>3. \A b \in B : /\ Columns(S)[b] = Row(x)[b] + Columns(R)[b]
                     /\ Row(x)[b] \in Int /\ Columns(R)[b] \in Int
    <3> SUFFICES ASSUME NEW b \in B
                 PROVE  /\ Total(Column(b), S) = Row(x)[b] + Total(Column(b), R)
                        /\ Row(x)[b] \in Int /\ Total(Column(b), R) \in Int
      OBVIOUS
    <3>1. Row(x)[b] = Column(b)[x] /\ Row(x)[b] \in Int
      OBVIOUS
    <3>2. \A a \in A : Column(b)[a] \in Int
      BY <1>3
    <3> HIDE DEF Column, Row
    <3>3. QED
      BY <3>1, <3>2, TotalOfPart
  <2>4. rows[x] = Total(Row(x), B)
    BY <1>2
  <2> HIDE DEF R, rows, Columns, Row
  <2>5. Total(Columns(S), B) = Total(Row(x), B) + Total(Columns(R), B)
    BY <2>3, TotalOfSums
  <2>6. Total(rows, S) = Total(Columns(S), B)
    BY <2>1, <2>2, <2>4, <2>5
  <2>7. QED
    BY <2>6
<1>6. A \in P
  <2> HIDE DEF P
  <2> QED
    BY <1>4, <1>5, SetBySet
<1>7. QED
  BY <1>6

\* A sum is that of a part and of what is left.
LEMMA TotalInTwo ==
  ASSUME NEW A, IsFiniteSet(A), NEW f, \A x \in A : f[x] \in Int, NEW S \in SUBSET A
  PROVE  Total(f, A) = Total(f, S) + Total(f, A \ S)
<1> DEFINE P == {T \in SUBSET S : Total(f, A) = Total(f, T) + Total(f, A \ T)}
<1>1. {} \in P
  <2>1. A \ {} = A /\ Total(f, A) \in Int
    BY TotalIsInt
  <2>2. QED
    BY <2>1, TotalOfNothing
<1>2. \A T \in SUBSET S : T # {} /\ (\A x \in T : T \ {x} \in P) => T \in P
  <2> SUFFICES ASSUME NEW T \in SUBSET S, NEW x \in T, T \ {x} \in P PROVE T \in P
    OBVIOUS
  <2> DEFINE R == T \ {x}
             U == A \ R
  <2>1. T \in SUBSET A /\ U \in SUBSET A /\ x \in U /\ U \ {x} = A \ T /\ f[x] \in Int
    OBVIOUS
  <2>2. Total(f, A) = Total(f, R) + Total(f, U)
    OBVIOUS
  <2>3. Total(f, T) = f[x] + Total(f, R) /\ Total(f, R) \in Int
    BY <2>1, TotalOfPart
  <2> HIDE DEF R, U, P
  <2>4. Total(f, U) = f[x] + Total(f, U \ {x}) /\ Total(f, U \ {x}) \in Int
    BY <2>1, TotalOfPart
  <2>5. Total(f, U \ {x}) = Total(f, A \ T)
    BY <2>1
  <2>6. Total(f, A) = Total(f, T) + Total(f, A \ T)
    BY <2>1, <2>2, <2>3, <2>4, <2>5
  <2>7. QED
    BY <2>6 DEF P
<1> HIDE DEF P
<1>3. S \in P
  BY <1>1, <1>2, SetBySet, FS_Subset
<1>4. QED
  BY <1>3 DEF P

\* One summand is the sum.
LEMMA TotalOfOne == ASSUME NEW f, NEW x, f[x] \in Int PROVE Total(f, {x}) = f[x]
<1>1. IsFiniteSet({x}) /\ x \in {x} /\ {x} \ {x} = {}
  BY FS_Singleton
<1>2. \A u \in {x} : f[u] \in Int
  OBVIOUS
<1>3. Total(f, {x}) = f[x] + Total(f, {x} \ {x})
  BY <1>1, <1>2, TotalWithout
<1>4. QED
  BY <1>1, <1>3, TotalOfNothing

-----------------------------------------------------------------------------
(* Recursion over the subsets of a finite set *)

\* A subset that is no end goes over to a smaller one.
Shrinks(S, Ends, less) ==
  \A R \in (SUBSET S) \ Ends : less[R] \subseteq R /\ less[R] # R

\* A function by recursion over the subsets.
Recurs(g, S, Ends, first, less, next) ==
  \A R \in SUBSET S : g[R] = IF R \in Ends THEN first[R] ELSE next[<<R, g[less[R]]>>]

\* A function that is defined on each subset by its value on a smaller one is there.
LEMMA RecursionIsThere ==
  ASSUME NEW S, IsFiniteSet(S), NEW X, NEW Ends, NEW first \in [SUBSET S -> X],
         NEW less \in [SUBSET S -> SUBSET S], NEW next \in [(SUBSET S) \X X -> X],
         Shrinks(S, Ends, less)
  PROVE  \E g \in [SUBSET S -> X] : Recurs(g, S, Ends, first, less, next)
<1> DEFINE D(n) == {R \in SUBSET S : Cardinality(R) <= n}
           Fits(g, n) ==
             \A R \in D(n) : g[R] = IF R \in Ends THEN first[R] ELSE next[<<R, g[less[R]]>>]
           Bad == {n \in Nat : ~\E g \in [D(n) -> X] : Fits(g, n)}
<1>1. \A R \in SUBSET S : IsFiniteSet(R) /\ Cardinality(R) \in Nat
  BY FS_Subset, FS_CardinalityType
<1>2. \A R \in (SUBSET S) \ Ends : /\ less[R] \in SUBSET S
                                  /\ Cardinality(less[R]) + 1 <= Cardinality(R)
  <2> SUFFICES ASSUME NEW R \in (SUBSET S) \ Ends
               PROVE  Cardinality(less[R]) + 1 <= Cardinality(R)
    OBVIOUS
  <2>1. Cardinality(less[R]) <= Cardinality(R) /\ Cardinality(less[R]) # Cardinality(R)
    BY <1>1, FS_Subset DEF Shrinks
  <2>2. Cardinality(less[R]) \in Nat /\ Cardinality(R) \in Nat
    BY <1>1
  <2>3. QED
    BY <2>1, <2>2
<1>3. ASSUME NEW m \in Bad, \A n \in Bad : m <= n PROVE FALSE
  <2>1. m # 0
    <3>1. \A R \in D(0) : R \in Ends
      BY <1>1, <1>2
    <3> DEFINE g == [R \in D(0) |-> first[R]]
    <3>2. g \in [D(0) -> X] /\ Fits(g, 0)
      BY <3>1
    <3>3. 0 \notin Bad
      BY <3>2
    <3> HIDE DEF Bad
    <3>4. QED
      BY <3>3, <1>3
  <2>2. m \in Nat /\ m - 1 \in Nat /\ m - 1 \notin Bad
    <3>1. m \in Nat
      OBVIOUS
    <3>2. m - 1 \in Nat /\ ~(m <= m - 1)
      BY <3>1, <2>1
    <3> HIDE DEF Bad
    <3>3. QED
      BY <3>1, <3>2, <1>3
  <2>3. PICK g \in [D(m - 1) -> X] : Fits(g, m - 1)
    BY <2>2
  <2>4. \A R \in D(m) \ Ends : less[R] \in D(m - 1)
    BY <1>1, <1>2, <2>2
  <2>5. D(m - 1) \subseteq D(m)
    BY <1>1, <2>2
  <2> DEFINE h == [R \in D(m) |-> IF R \in Ends THEN first[R] ELSE next[<<R, g[less[R]]>>]]
  <2>6. h \in [D(m) -> X]
    BY <2>4
  <2>7. \A R \in D(m - 1) : h[R] = g[R]
    BY <2>3, <2>5
  <2>8. Fits(h, m)
    BY <2>4, <2>7
  <2>9. QED
    BY <2>2, <2>6, <2>8
<1>4. Bad = {}
  <2>1. Bad \subseteq Nat
    OBVIOUS
  <2> HIDE DEF Bad
  <2>2. QED
    BY <2>1, <1>3, LeastOfNats
<1>5. Cardinality(S) \in Nat /\ \A R \in SUBSET S : Cardinality(R) <= Cardinality(S)
  BY FS_Subset, FS_CardinalityType
<1>6. D(Cardinality(S)) = SUBSET S
  BY <1>5
<1>7. Cardinality(S) \notin Bad
  BY <1>4
<1> HIDE DEF D
<1>8. QED
  BY <1>5, <1>6, <1>7 DEF Recurs

\* One member of each subset.
Picks(S, c) == \A R \in SUBSET S : R # {} => c[R] \in R

\* A fold that takes the members out one by one.
Folds(g, S, base, c, next) ==
  \A R \in SUBSET S : g[R] = IF R = {} THEN base ELSE next[<<c[R], g[R \ {c[R]}]>>]

\* It is there, and its values are where its steps lead.
LEMMA FoldIsThere ==
  ASSUME NEW S, IsFiniteSet(S), NEW X, NEW base \in X, NEW c, Picks(S, c), NEW next \in [S \X X -> X]
  PROVE  \E g \in [SUBSET S -> X] : Folds(g, S, base, c, next)
<1> DEFINE Ends == {{}}
           first == [R \in SUBSET S |-> base]
           less == [R \in SUBSET S |-> R \ {c[R]}]
           step == [r \in (SUBSET S) \X X |-> IF r[1] = {} THEN r[2] ELSE next[<<c[r[1]], r[2]>>]]
<1>1. \A R \in SUBSET S : R # {} => c[R] \in S
  BY DEF Picks
<1>2. /\ first \in [SUBSET S -> X] /\ less \in [SUBSET S -> SUBSET S]
      /\ step \in [(SUBSET S) \X X -> X]
  BY <1>1
<1>3. Shrinks(S, Ends, less)
  BY DEF Shrinks, Picks
<1>4. PICK g \in [SUBSET S -> X] : Recurs(g, S, Ends, first, less, step)
  <2> HIDE DEF Ends, first, less, step
  <2> QED
    BY <1>2, <1>3, RecursionIsThere
<1>5. ASSUME NEW R \in SUBSET S
      PROVE  g[R] = IF R = {} THEN base ELSE next[<<c[R], g[R \ {c[R]}]>>]
  <2>1. g[R] = IF R \in Ends THEN first[R] ELSE step[<<R, g[less[R]]>>]
    BY <1>4 DEF Recurs
  <2>2. first[R] = base /\ less[R] = R \ {c[R]} /\ (R \in Ends <=> R = {})
    OBVIOUS
  <2>3. R \ {c[R]} \in SUBSET S
    OBVIOUS
  <2>4. g[R \ {c[R]}] \in X
    BY <2>3
  <2>5. R # {} => step[<<R, g[R \ {c[R]}]>>] = next[<<c[R], g[R \ {c[R]}]>>]
    BY <2>4
  <2> HIDE DEF Ends, first, less, step
  <2>6. QED
    BY <2>1, <2>2, <2>5
<1>6. QED
  BY <1>5 DEF Folds

LEMMA FoldStaysIn ==
  ASSUME NEW S, IsFiniteSet(S), NEW X, NEW base \in X, NEW c, Picks(S, c), NEW next \in [S \X X -> X],
         NEW h, Folds(h, S, base, c, next)
  PROVE  \A R \in SUBSET S : h[R] \in X
<1> SUFFICES ASSUME NEW R \in SUBSET S PROVE h[R] \in X
  OBVIOUS
<1> DEFINE P == {T \in SUBSET R : h[T] \in X}
<1>1. {} \in P
  BY DEF Folds
<1>2. ASSUME NEW T \in SUBSET R, T # {}, \A x \in T : T \ {x} \in P
      PROVE  T \in P
  <2>1. c[T] \in T /\ c[T] \in S
    BY <1>2 DEF Picks
  <2>2. h[T \ {c[T]}] \in X
    BY <1>2, <2>1
  <2>3. h[T] = next[<<c[T], h[T \ {c[T]}]>>]
    BY <1>2 DEF Folds
  <2>4. QED
    BY <2>1, <2>2, <2>3
<1>3. IsFiniteSet(R)
  BY FS_Subset
<1>4. R \in P
  <2> HIDE DEF P
  <2> QED
    BY <1>1, <1>2, <1>3, SetBySet
<1>5. QED
  BY <1>4

=================================================================================
