--------------------------- MODULE RolloverProofs ---------------------------
(***************************************************************************)
(* A water year rolled into the next, for any numbers of zones, accounts,   *)
(* use areas and years and any amounts: a roll repeated on the same figures *)
(* changes nothing, and what a zone's year opens with is its standing.      *)
(***************************************************************************)
EXTENDS Rollover, Sums

-----------------------------------------------------------------------------
(* The sums of the command *)

Used(c, l, y, S) == MapThenSumSet(LAMBDA f : c[<<f, y>>] + l[<<f, y>>], S)
ChargedIn(c, y, S) == MapThenSumSet(LAMBDA f : c[<<f, y>>], S)
Amounts(R) == MapThenSumSet(LAMBDA row : row.amount, R)
LeftOf(z, S) == MapThenSumSet(LAMBDA i : plan[<<z, i>>] - UsageOf(z, i), S)
Parts(p, y, a, acres, S) ==
  MapThenSumSet(LAMBDA z : p[<<z, y>>] * AcresOf(FieldsOf(a) \cap FieldsIn(z))
                             * (acres \div AcresOf(FieldsIn(z))), S)

\* What fields used is a total.
LEMMA UsedIsTotal ==
  ASSUME NEW S, IsFiniteSet(S), NEW c, NEW l, NEW y
  PROVE  Used(c, l, y, S) = Total([f \in S |-> c[<<f, y>>] + l[<<f, y>>]], S)
<1> DEFINE F == [f \in S |-> c[<<f, y>>] + l[<<f, y>>]]
           Is(it) == it = [R \in SUBSET S |->
                 IF R = {} THEN 0
                 ELSE c[<<(CHOOSE x \in R : TRUE), y>>] + l[<<(CHOOSE x \in R : TRUE), y>>]
                        + it[R \ {CHOOSE x \in R : TRUE}]]
           h == CHOOSE it : Is(it)
<1>1. PICK k : k = [R \in SUBSET S |-> k[R]] /\ Adds(k, SUBSET S, F)
  BY AddsIsThere
<1>2. \A R \in SUBSET S : R # {} => F[One(R)] = c[<<One(R), y>>] + l[<<One(R), y>>]
  BY OneIsIn
<1> HIDE DEF F
<1>3. Is(k)
  <2>1. \A R \in SUBSET S :
          k[R] = IF R = {} THEN 0
                 ELSE c[<<(CHOOSE x \in R : TRUE), y>>] + l[<<(CHOOSE x \in R : TRUE), y>>]
                        + k[R \ {CHOOSE x \in R : TRUE}]
    BY <1>1, <1>2 DEF Adds, One
  <2>2. QED
    BY <1>1, <2>1
<1>4. Is(h)
  BY <1>3
<1>5. Adds(h, SUBSET S, F)
  <2> HIDE DEF h
  <2>1. \A R \in SUBSET S :
          h[R] = IF R = {} THEN 0
                 ELSE c[<<(CHOOSE x \in R : TRUE), y>>] + l[<<(CHOOSE x \in R : TRUE), y>>]
                        + h[R \ {CHOOSE x \in R : TRUE}]
    BY <1>4
  <2>2. QED
    BY <1>2, <2>1 DEF Adds, One
<1>6. Used(c, l, y, S) = h[S]
  BY DEF Used, MapThenSumSet, MapThenFoldSet
<1> HIDE DEF h
<1>7. Used(c, l, y, S) = Total(F, S)
  BY <1>5, <1>6, TotalIsAdded
<1>8. QED
  BY <1>7 DEF F

\* What they were charged is one.
LEMMA ChargedIsTotal ==
  ASSUME NEW S, IsFiniteSet(S), NEW c, NEW y
  PROVE  ChargedIn(c, y, S) = Total([f \in S |-> c[<<f, y>>]], S)
<1> DEFINE F == [f \in S |-> c[<<f, y>>]]
           Is(it) == it = [R \in SUBSET S |->
                 IF R = {} THEN 0
                 ELSE c[<<(CHOOSE x \in R : TRUE), y>>]
                        + it[R \ {CHOOSE x \in R : TRUE}]]
           h == CHOOSE it : Is(it)
<1>1. PICK k : k = [R \in SUBSET S |-> k[R]] /\ Adds(k, SUBSET S, F)
  BY AddsIsThere
<1>2. \A R \in SUBSET S : R # {} => F[One(R)] = c[<<One(R), y>>]
  BY OneIsIn
<1> HIDE DEF F
<1>3. Is(k)
  <2>1. \A R \in SUBSET S :
          k[R] = IF R = {} THEN 0
                 ELSE c[<<(CHOOSE x \in R : TRUE), y>>]
                        + k[R \ {CHOOSE x \in R : TRUE}]
    BY <1>1, <1>2 DEF Adds, One
  <2>2. QED
    BY <1>1, <2>1
<1>4. Is(h)
  BY <1>3
<1>5. Adds(h, SUBSET S, F)
  <2> HIDE DEF h
  <2>1. \A R \in SUBSET S :
          h[R] = IF R = {} THEN 0
                 ELSE c[<<(CHOOSE x \in R : TRUE), y>>]
                        + h[R \ {CHOOSE x \in R : TRUE}]
    BY <1>4
  <2>2. QED
    BY <1>2, <2>1 DEF Adds, One
<1>6. ChargedIn(c, y, S) = h[S]
  BY DEF ChargedIn, MapThenSumSet, MapThenFoldSet
<1> HIDE DEF h
<1>7. ChargedIn(c, y, S) = Total(F, S)
  BY <1>5, <1>6, TotalIsAdded
<1>8. QED
  BY <1>7 DEF F

\* An account's parts of its zones' allocations are one.
LEMMA PartsIsTotal ==
  ASSUME NEW S, IsFiniteSet(S), NEW p, NEW y, NEW a, NEW acres
  PROVE  Parts(p, y, a, acres, S)
           = Total([z \in S |-> p[<<z, y>>] * AcresOf(FieldsOf(a) \cap FieldsIn(z))
                                  * (acres \div AcresOf(FieldsIn(z)))], S)
<1> DEFINE Part(z) == p[<<z, y>>] * AcresOf(FieldsOf(a) \cap FieldsIn(z))
                         * (acres \div AcresOf(FieldsIn(z)))
           F == [z \in S |-> Part(z)]
           Is(it) == it = [R \in SUBSET S |->
                 IF R = {} THEN 0
                 ELSE Part(CHOOSE x \in R : TRUE) + it[R \ {CHOOSE x \in R : TRUE}]]
           h == CHOOSE it : Is(it)
<1>1. PICK k : k = [R \in SUBSET S |-> k[R]] /\ Adds(k, SUBSET S, F)
  BY AddsIsThere
<1>2. \A R \in SUBSET S : R # {} => F[One(R)] = Part(One(R))
  BY OneIsIn
<1> HIDE DEF F
<1>3. Is(k)
  <2>1. \A R \in SUBSET S :
          k[R] = IF R = {} THEN 0
                 ELSE Part(CHOOSE x \in R : TRUE) + k[R \ {CHOOSE x \in R : TRUE}]
    BY <1>1, <1>2 DEF Adds, One
  <2>2. QED
    BY <1>1, <2>1
<1>4. Is(h)
  BY <1>3
<1>5. Adds(h, SUBSET S, F)
  <2> HIDE DEF h
  <2>1. \A R \in SUBSET S :
          h[R] = IF R = {} THEN 0
                 ELSE Part(CHOOSE x \in R : TRUE) + h[R \ {CHOOSE x \in R : TRUE}]
    BY <1>4
  <2>2. QED
    BY <1>2, <2>1 DEF Adds, One
<1>6. Parts(p, y, a, acres, S) = h[S]
  BY DEF Parts, MapThenSumSet, MapThenFoldSet
<1> HIDE DEF h
<1>7. Parts(p, y, a, acres, S) = Total(F, S)
  BY <1>5, <1>6, TotalIsAdded
<1>8. QED
  BY <1>7 DEF F

\* What years leave is one.
LEMMA LeftIsTotal ==
  ASSUME NEW S, IsFiniteSet(S), NEW z
  PROVE  LeftOf(z, S) = Total([i \in S |-> (plan[<<z, i>>] - UsageOf(z, i))], S)
<1> DEFINE F == [i \in S |-> (plan[<<z, i>>] - UsageOf(z, i))]
           Is(it) == it = [R \in SUBSET S |->
                 IF R = {} THEN 0
                 ELSE (plan[<<z, (CHOOSE x \in R : TRUE)>>] - UsageOf(z, (CHOOSE x \in R : TRUE)))
                        + it[R \ {CHOOSE x \in R : TRUE}]]
           h == CHOOSE it : Is(it)
<1>1. PICK k : k = [R \in SUBSET S |-> k[R]] /\ Adds(k, SUBSET S, F)
  BY AddsIsThere
<1>2. \A R \in SUBSET S : R # {} => F[One(R)] = (plan[<<z, One(R)>>] - UsageOf(z, One(R)))
  BY OneIsIn
<1> HIDE DEF F
<1>3. Is(k)
  <2>1. \A R \in SUBSET S :
          k[R] = IF R = {} THEN 0
                 ELSE (plan[<<z, (CHOOSE x \in R : TRUE)>>] - UsageOf(z, (CHOOSE x \in R : TRUE)))
                        + k[R \ {CHOOSE x \in R : TRUE}]
    BY <1>1, <1>2 DEF Adds, One
  <2>2. QED
    BY <1>1, <2>1
<1>4. Is(h)
  BY <1>3
<1>5. Adds(h, SUBSET S, F)
  <2> HIDE DEF h
  <2>1. \A R \in SUBSET S :
          h[R] = IF R = {} THEN 0
                 ELSE (plan[<<z, (CHOOSE x \in R : TRUE)>>] - UsageOf(z, (CHOOSE x \in R : TRUE)))
                        + h[R \ {CHOOSE x \in R : TRUE}]
    BY <1>4
  <2>2. QED
    BY <1>2, <2>1 DEF Adds, One
<1>6. LeftOf(z, S) = h[S]
  BY DEF LeftOf, MapThenSumSet, MapThenFoldSet
<1> HIDE DEF h
<1>7. LeftOf(z, S) = Total(F, S)
  BY <1>5, <1>6, TotalIsAdded
<1>8. QED
  BY <1>7 DEF F

\* The amounts of rows are one.
LEMMA AmountsIsTotal ==
  ASSUME NEW S, IsFiniteSet(S)
  PROVE  Amounts(S) = Total([row \in S |-> row.amount], S)
<1> DEFINE F == [row \in S |-> row.amount]
           Is(it) == it = [R \in SUBSET S |->
                 IF R = {} THEN 0
                 ELSE (CHOOSE x \in R : TRUE).amount
                        + it[R \ {CHOOSE x \in R : TRUE}]]
           h == CHOOSE it : Is(it)
<1>1. PICK k : k = [R \in SUBSET S |-> k[R]] /\ Adds(k, SUBSET S, F)
  BY AddsIsThere
<1>2. \A R \in SUBSET S : R # {} => F[One(R)] = One(R).amount
  BY OneIsIn
<1> HIDE DEF F
<1>3. Is(k)
  <2>1. \A R \in SUBSET S :
          k[R] = IF R = {} THEN 0
                 ELSE (CHOOSE x \in R : TRUE).amount
                        + k[R \ {CHOOSE x \in R : TRUE}]
    BY <1>1, <1>2 DEF Adds, One
  <2>2. QED
    BY <1>1, <2>1
<1>4. Is(h)
  BY <1>3
<1>5. Adds(h, SUBSET S, F)
  <2> HIDE DEF h
  <2>1. \A R \in SUBSET S :
          h[R] = IF R = {} THEN 0
                 ELSE (CHOOSE x \in R : TRUE).amount
                        + h[R \ {CHOOSE x \in R : TRUE}]
    BY <1>4
  <2>2. QED
    BY <1>2, <2>1 DEF Adds, One
<1>6. Amounts(S) = h[S]
  BY DEF Amounts, MapThenSumSet, MapThenFoldSet
<1> HIDE DEF h
<1>7. Amounts(S) = Total(F, S)
  BY <1>5, <1>6, TotalIsAdded
<1>8. QED
  BY <1>7 DEF F

-----------------------------------------------------------------------------
(* The inductive invariant *)

\* What the command would carry into the next year, zone by zone and account by
\* account, on the figures as they stand.
ZoneRow(z, y) ==
  [zone |-> z, origin |-> "allocation_carryover", amount |-> ZoneNet(z, y, plan[<<z, y>>])]
Carried(z, y) ==
  RecoveryHorizon(z) # "same_water_year" \/ ZoneNet(z, y, plan[<<z, y>>]) <= 0
ZoneRows(y) == {ZoneRow(z, y) : z \in {x \in Planned(y) : Carried(x, y)}}

AccountRow(a, y) ==
  [account |-> a, origin |-> "carried_forward", source |-> y, amount |-> AccountNet(a, y)]
Rolls(a, y) ==
  /\ BudgetZones(a, y) # {}
  /\ ~(AccountNet(a, y) > 0 /\ \A z \in BudgetZones(a, y) : RecoveryHorizon(z) = "same_water_year")
AccountRows(y, A) == {AccountRow(a, y) : a \in {b \in A : Rolls(b, y)}}

\* What the command has read of some zones.
ReadOf(y, Z) == {[zone |-> z, net |-> ZoneNet(z, y, plan[<<z, y>>])] : z \in Z}

\* The next year's rows are these.
ZonesRolled(y) == OwnRows(y + 1) = ZoneRows(y)
AccountsRolled(y) ==
  /\ OwnCredits(y + 1, y) = AccountRows(y, Account)
  /\ \A row \in OwnCredits(y + 1, y) : credit[y + 1][row] = 1

\* The books and the command are what the tables and the code allow.
BookRow == [zone : Zone, origin : {"allocation_carryover", "pool"}, amount : Int]
FiguresInv ==
  /\ plan \in [Zone \X Year -> Budgets \cup {Nothing}]
  /\ charged \in [Field \X Year -> Charges \cup {0}]
  /\ loose \in [Field \X Year -> Charges \cup {0}]
  /\ horizon \in [Zone -> Horizon \cup {""}] /\ default \in Horizon
  /\ finalized \subseteq Year /\ fresh \subseteq Year
BooksInv ==
  /\ book \in [AnyYear -> SUBSET BookRow]
  /\ \A y \in AnyYear : \A r, s \in book[y] : r.zone = s.zone /\ r.origin = s.origin => r = s
  /\ credit = [y \in AnyYear |-> credit[y]]
  /\ \A y \in AnyYear :
       /\ DOMAIN credit[y] \subseteq CarriedCredit \cup OtherCredit
       /\ IsABag(credit[y]) /\ IsFiniteSet(DOMAIN credit[y])
ZonesRun ==
  [pc : {"zones"}, year : Year, todo : SUBSET Zone,
   results : SUBSET [zone : Zone, net : Int],
   budget : UNION {[Z -> Budgets] : Z \in SUBSET Zone},
   own : [Zone -> Horizon \cup {""}], clean : BOOLEAN]
StoredRun == [pc : {"zonesStored"}, year : Year, clean : BOOLEAN]
AccountsRun ==
  [pc : {"accounts"}, year : Year, todo : SUBSET Account, results : SUBSET CarriedCredit,
   agency : Horizon, clean : BOOLEAN]
CommandInv ==
  /\ run \in {Idle} \cup ZonesRun \cup StoredRun \cup AccountsRun
  /\ run.pc = "zones" =>
       /\ run.todo \subseteq DOMAIN run.budget
       /\ \A r, s \in run.results : r.zone = s.zone => r = s
       /\ \A r \in run.results : r.zone \notin run.todo
  /\ run.pc = "accounts" =>
       /\ IsFiniteSet(run.results)
       /\ \A r \in run.results : r.source = run.year
CountsInv ==
  edits \in 0 .. MaxEdits /\ toggles \in 0 .. MaxToggles /\ deaths \in 0 .. MaxDeaths
TypesInv == FiguresInv /\ BooksInv /\ CommandInv /\ CountsInv

\* What was rolled on the figures as they stand is on the books.
FreshInv == \A y \in fresh : ZonesRolled(y) /\ AccountsRolled(y)

\* What a command has done, and read while no figure it rolls from was changed.
WayInv ==
  run # Idle =>
    /\ ~run.clean => run.year \notin fresh
    /\ run.clean /\ run.pc = "zones" =>
         /\ run.own = horizon /\ run.todo \subseteq Planned(run.year)
         /\ run.budget = [z \in Planned(run.year) |-> plan[<<z, run.year>>]]
         /\ run.results = ReadOf(run.year, Planned(run.year) \ run.todo)
    /\ run.clean /\ run.pc \in {"zonesStored", "accounts"} => ZonesRolled(run.year)
    /\ run.clean /\ run.pc = "accounts" =>
         run.agency = default /\ run.results = AccountRows(run.year, Account \ run.todo)

\* Nothing is carried into the first year.
FirstInv == OwnRows(1) = {}

RolledInv == FreshInv /\ WayInv /\ FirstInv

CreditSum(B, S) == MapThenSumSet(LAMBDA row : row.amount * B[row], S)

\* What credits add up to is a total.
LEMMA CreditsIsTotal ==
  ASSUME NEW S, IsFiniteSet(S), NEW B
  PROVE  CreditSum(B, S) = Total([row \in S |-> (row.amount * B[row])], S)
<1> DEFINE F == [row \in S |-> (row.amount * B[row])]
           Is(it) == it = [R \in SUBSET S |->
                 IF R = {} THEN 0
                 ELSE ((CHOOSE x \in R : TRUE).amount * B[(CHOOSE x \in R : TRUE)])
                        + it[R \ {CHOOSE x \in R : TRUE}]]
           h == CHOOSE it : Is(it)
<1>1. PICK k : k = [R \in SUBSET S |-> k[R]] /\ Adds(k, SUBSET S, F)
  BY AddsIsThere
<1>2. \A R \in SUBSET S : R # {} => F[One(R)] = (One(R).amount * B[One(R)])
  BY OneIsIn
<1> HIDE DEF F
<1>3. Is(k)
  <2>1. \A R \in SUBSET S :
          k[R] = IF R = {} THEN 0
                 ELSE ((CHOOSE x \in R : TRUE).amount * B[(CHOOSE x \in R : TRUE)])
                        + k[R \ {CHOOSE x \in R : TRUE}]
    BY <1>1, <1>2 DEF Adds, One
  <2>2. QED
    BY <1>1, <2>1
<1>4. Is(h)
  BY <1>3
<1>5. Adds(h, SUBSET S, F)
  <2> HIDE DEF h
  <2>1. \A R \in SUBSET S :
          h[R] = IF R = {} THEN 0
                 ELSE ((CHOOSE x \in R : TRUE).amount * B[(CHOOSE x \in R : TRUE)])
                        + h[R \ {CHOOSE x \in R : TRUE}]
    BY <1>4
  <2>2. QED
    BY <1>2, <2>1 DEF Adds, One
<1>6. CreditSum(B, S) = h[S]
  BY DEF CreditSum, MapThenSumSet, MapThenFoldSet
<1> HIDE DEF h
<1>7. CreditSum(B, S) = Total(F, S)
  BY <1>5, <1>6, TotalIsAdded
<1>8. QED
  BY <1>7 DEF F

\* Acres are one.
LEMMA AcresIsTotal ==
  ASSUME NEW S, IsFiniteSet(S)
  PROVE  AcresOf(S) = Total([f \in S |-> Acres[f]], S)
<1> DEFINE F == [f \in S |-> Acres[f]]
           Is(it) == it = [R \in SUBSET S |->
                 IF R = {} THEN 0
                 ELSE Acres[(CHOOSE x \in R : TRUE)]
                        + it[R \ {CHOOSE x \in R : TRUE}]]
           h == CHOOSE it : Is(it)
<1>1. PICK k : k = [R \in SUBSET S |-> k[R]] /\ Adds(k, SUBSET S, F)
  BY AddsIsThere
<1>2. \A R \in SUBSET S : R # {} => F[One(R)] = Acres[One(R)]
  BY OneIsIn
<1> HIDE DEF F
<1>3. Is(k)
  <2>1. \A R \in SUBSET S :
          k[R] = IF R = {} THEN 0
                 ELSE Acres[(CHOOSE x \in R : TRUE)]
                        + k[R \ {CHOOSE x \in R : TRUE}]
    BY <1>1, <1>2 DEF Adds, One
  <2>2. QED
    BY <1>1, <2>1
<1>4. Is(h)
  BY <1>3
<1>5. Adds(h, SUBSET S, F)
  <2> HIDE DEF h
  <2>1. \A R \in SUBSET S :
          h[R] = IF R = {} THEN 0
                 ELSE Acres[(CHOOSE x \in R : TRUE)]
                        + h[R \ {CHOOSE x \in R : TRUE}]
    BY <1>4
  <2>2. QED
    BY <1>2, <2>1 DEF Adds, One
<1>6. AcresOf(S) = h[S]
  BY DEF AcresOf, MapThenSumSet, MapThenFoldSet
<1> HIDE DEF h
<1>7. AcresOf(S) = Total(F, S)
  BY <1>5, <1>6, TotalIsAdded
<1>8. QED
  BY <1>7 DEF F

\* A function that multiplies up every set of D.
Multiplies(g, D, f) == \A S \in D : g[S] = IF S = {} THEN 1 ELSE f[One(S)] * g[S \ {One(S)}]

AcresProduct(S) ==
  MapThenFoldSet(LAMBDA m, n : m * n, 1, LAMBDA z : AcresOf(FieldsIn(z)),
                 LAMBDA T : CHOOSE z \in T : TRUE, S)

\* The subsets of a finite set can be multiplied up.
LEMMA MultipliesIsThere ==
  ASSUME NEW S, IsFiniteSet(S), NEW f
  PROVE  \E g : g = [R \in SUBSET S |-> g[R]] /\ Multiplies(g, SUBSET S, f)
<1> DEFINE D(n) == {R \in SUBSET S : Cardinality(R) <= n}
           Bad == {n \in Nat : ~\E g : g = [R \in D(n) |-> g[R]] /\ Multiplies(g, D(n), f)}
<1>1. \A R \in SUBSET S : IsFiniteSet(R) /\ Cardinality(R) \in Nat
  BY FS_Subset, FS_CardinalityType
<1>2. ASSUME NEW m \in Bad, \A n \in Bad : m <= n PROVE FALSE
  <2>1. m # 0
    <3> SUFFICES \E g : g = [R \in D(0) |-> g[R]] /\ Multiplies(g, D(0), f)
      OBVIOUS
    <3> DEFINE g == [R \in D(0) |-> 1]
    <3>1. \A R \in D(0) : R = {}
      BY <1>1, FS_EmptySet
    <3>2. g = [R \in D(0) |-> g[R]] /\ Multiplies(g, D(0), f)
      BY <3>1 DEF Multiplies
    <3>3. QED
      BY <3>2
  <2>2. m - 1 \in Nat /\ m - 1 \notin Bad
    <3>1. m \in Nat
      OBVIOUS
    <3>2. m - 1 \in Nat /\ ~(m <= m - 1)
      BY <3>1, <2>1
    <3> HIDE DEF Bad
    <3>3. QED
      BY <3>2, <1>2
  <2>3. PICK g : g = [R \in D(m - 1) |-> g[R]] /\ Multiplies(g, D(m - 1), f)
    BY <2>2
  <2>4. ASSUME NEW R \in D(m), R # {}
        PROVE  R \ {One(R)} \in D(m - 1) /\ One(R) \in S
    <3>1. One(R) \in R
      BY <2>4, OneIsIn
    <3>2. Cardinality(R \ {One(R)}) = Cardinality(R) - 1 /\ Cardinality(R) \in Nat
      BY <3>1, <1>1, OneLess
    <3>3. QED
      BY <3>1, <3>2
  <2> DEFINE h == [R \in D(m) |-> IF R = {} THEN 1 ELSE f[One(R)] * g[R \ {One(R)}]]
  <2>5. h = [R \in D(m) |-> h[R]]
    OBVIOUS
  <2>6. D(m - 1) \subseteq D(m)
    BY <1>1
  <2>7. \A R \in D(m - 1) : h[R] = g[R]
    <3> SUFFICES ASSUME NEW R \in D(m - 1) PROVE h[R] = g[R]
      OBVIOUS
    <3>1. g[R] = IF R = {} THEN 1 ELSE f[One(R)] * g[R \ {One(R)}]
      <4> HIDE DEF D
      <4> QED
        BY <2>3 DEF Multiplies
    <3>2. R \in D(m)
      BY <2>6
    <3>3. QED
      BY <3>1, <3>2
  <2>8. Multiplies(h, D(m), f)
    <3> SUFFICES ASSUME NEW R \in D(m)
                 PROVE  h[R] = IF R = {} THEN 1 ELSE f[One(R)] * h[R \ {One(R)}]
      BY DEF Multiplies
    <3>1. R # {} => h[R \ {One(R)}] = g[R \ {One(R)}]
      BY <2>4, <2>7
    <3>2. h[R] = IF R = {} THEN 1 ELSE f[One(R)] * g[R \ {One(R)}]
      OBVIOUS
    <3> HIDE DEF h, D
    <3>3. QED
      BY <3>1, <3>2
  <2>9. QED
    <3> HIDE DEF h, D
    <3> QED
      BY <2>5, <2>8
<1>3. Bad = {}
  <2>1. Bad \subseteq Nat
    OBVIOUS
  <2> HIDE DEF Bad
  <2>2. QED
    BY <2>1, <1>2, LeastOfNats
<1>4. Cardinality(S) \in Nat /\ \A R \in SUBSET S : Cardinality(R) <= Cardinality(S)
  BY FS_Subset, FS_CardinalityType
<1>5. D(Cardinality(S)) = SUBSET S
  BY <1>4
<1>6. Cardinality(S) \notin Bad
  BY <1>3
<1> HIDE DEF D
<1>7. QED
  BY <1>4, <1>5, <1>6

\* A product of positive numbers is positive.
LEMMA ProductIsPositive ==
  ASSUME NEW S, IsFiniteSet(S), \A z \in S : AcresOf(FieldsIn(z)) \in Nat \ {0}
  PROVE  AcresProduct(S) \in Nat \ {0}
<1> DEFINE f == [z \in S |-> AcresOf(FieldsIn(z))]
           Is(it) == it = [R \in SUBSET S |->
                 IF R = {} THEN 1
                 ELSE AcresOf(FieldsIn(CHOOSE z \in R : TRUE)) * it[R \ {CHOOSE z \in R : TRUE}]]
           h == CHOOSE it : Is(it)
<1>1. PICK k : k = [R \in SUBSET S |-> k[R]] /\ Multiplies(k, SUBSET S, f)
  BY MultipliesIsThere
<1>2. \A R \in SUBSET S : R # {} => f[One(R)] = AcresOf(FieldsIn(One(R)))
  BY OneIsIn
<1>3. \A R \in SUBSET S : R # {} => f[One(R)] \in Nat \ {0}
  BY OneIsIn
<1> HIDE DEF f
<1>4. Is(k)
  <2>1. \A R \in SUBSET S :
          k[R] = IF R = {} THEN 1
                 ELSE AcresOf(FieldsIn(CHOOSE z \in R : TRUE)) * k[R \ {CHOOSE z \in R : TRUE}]
    BY <1>1, <1>2 DEF Multiplies, One
  <2>2. QED
    BY <1>1, <2>1
<1>5. Is(h)
  BY <1>4
<1>6. AcresProduct(S) = h[S]
  BY DEF AcresProduct, MapThenFoldSet
<1>7. \A R \in SUBSET S :
        h[R] = IF R = {} THEN 1 ELSE AcresOf(FieldsIn(One(R))) * h[R \ {One(R)}]
  <2> HIDE DEF h
  <2>1. \A R \in SUBSET S :
          h[R] = IF R = {} THEN 1
                 ELSE AcresOf(FieldsIn(CHOOSE z \in R : TRUE)) * h[R \ {CHOOSE z \in R : TRUE}]
    BY <1>5
  <2>2. QED
    BY <2>1 DEF One
<1> HIDE DEF h
<1> DEFINE Bad == {Cardinality(R) : R \in {T \in SUBSET S : h[T] \notin Nat \ {0}}}
<1>8. \A R \in SUBSET S : IsFiniteSet(R) /\ Cardinality(R) \in Nat
  BY FS_Subset, FS_CardinalityType
<1>9. ASSUME NEW m \in Bad, \A n \in Bad : m <= n PROVE FALSE
  <2>1. PICK R \in SUBSET S : h[R] \notin Nat \ {0} /\ m = Cardinality(R)
    OBVIOUS
  <2>2. h[R] = IF R = {} THEN 1 ELSE AcresOf(FieldsIn(One(R))) * h[R \ {One(R)}]
    BY <1>7
  <2>3. R # {}
    BY <2>1, <2>2
  <2>4. One(R) \in R /\ AcresOf(FieldsIn(One(R))) \in Nat \ {0}
    BY <2>3, OneIsIn
  <2>5. h[R \ {One(R)}] \notin Nat \ {0}
    <3> DEFINE p == AcresOf(FieldsIn(One(R)))
               q == h[R \ {One(R)}]
    <3>1. h[R] = p * q /\ p \in Nat \ {0}
      BY <2>2, <2>3, <2>4
    <3>2. p * q \notin Nat \ {0}
      BY <3>1, <2>1
    <3> HIDE DEF p, q
    <3>3. q \notin Nat \ {0}
      <4> SUFFICES ASSUME q \in Nat, q # 0 PROVE FALSE
        OBVIOUS
      <4>1. p * q \in Nat /\ p * q # 0
        BY <3>1
      <4>2. QED
        BY <4>1, <3>2
    <3>4. QED
      BY <3>3 DEF q
  <2>6. Cardinality(R \ {One(R)}) \in Bad
    BY <2>4, <2>5
  <2>7. m \in Nat /\ Cardinality(R \ {One(R)}) = m - 1
    BY <2>1, <2>4, <1>8, OneLess
  <2>8. m <= m - 1
    BY <2>6, <2>7, <1>9
  <2>9. QED
    BY <2>7, <2>8
<1>10. Bad = {}
  <2>1. Bad \subseteq Nat
    BY <1>8
  <2> HIDE DEF Bad
  <2>2. QED
    BY <2>1, <1>9, LeastOfNats
<1>11. h[S] \in Nat \ {0}
  BY <1>10
<1>12. QED
  BY <1>6, <1>11

-----------------------------------------------------------------------------
(* What is read is a number *)

\* There are finitely many of everything.
LEMMA Finitely ==
  /\ \A z : IsFiniteSet(FieldsIn(z))
  /\ \A a : IsFiniteSet(FieldsOf(a))
  /\ \A y : IsFiniteSet(Planned(y))
  /\ \A a, y : IsFiniteSet(BudgetZones(a, y)) /\ BudgetZones(a, y) \subseteq Planned(y)
  /\ \A y : Planned(y) \subseteq Zone
<1>1. \A S \in SUBSET Field : IsFiniteSet(S)
  BY ConstantsAssumption, FS_Subset
<1>2. \A S \in SUBSET Zone : IsFiniteSet(S)
  BY ConstantsAssumption, FS_Subset
<1>3. \A z : FieldsIn(z) \in SUBSET Field
  BY DEF FieldsIn
<1>4. \A a : FieldsOf(a) \in SUBSET Field
  BY DEF FieldsOf
<1>5. \A y : Planned(y) \in SUBSET Zone
  BY DEF Planned
<1>6. \A a, y : BudgetZones(a, y) \in SUBSET Zone /\ BudgetZones(a, y) \subseteq Planned(y)
  BY <1>5 DEF BudgetZones
<1>7. QED
  BY <1>1, <1>2, <1>3, <1>4, <1>5, <1>6

\* Acres of use areas are positive.
LEMMA AcresArePositive ==
  ASSUME NEW S \in SUBSET Field
  PROVE  AcresOf(S) \in Nat /\ (S # {} => AcresOf(S) \in Nat \ {0})
<1> DEFINE F == [f \in S |-> Acres[f]]
<1>1. IsFiniteSet(S) /\ \A f \in S : Acres[f] \in Nat \ {0}
  BY ConstantsAssumption, FS_Subset
<1>2. AcresOf(S) = Total(F, S)
  BY <1>1, AcresIsTotal
<1>3. \A f \in S : F[f] \in Nat /\ F[f] # 0
  BY <1>1
<1> HIDE DEF F
<1>4. QED
  BY <1>1, <1>2, <1>3, TotalIsNat

\* Quantizing gives an integer.
LEMMA QuantizedIsInt ==
  ASSUME NEW n \in Int, NEW d \in Nat \ {0}
  PROVE  Quantized(n, d) \in Int
<1>1. n \div d \in Int /\ n % d \in Int
  OBVIOUS
<1>2. QED
  BY <1>1 DEF Quantized

\* What a zone used, was carried and has left.
LEMMA ZoneNetIsInt ==
  ASSUME FiguresInv, BooksInv, NEW z \in Zone, NEW y \in Year
  PROVE  /\ UsageOf(z, y) \in Int /\ CarriedIn(z, y) \in Int
         /\ \A v \in Int : ZoneNet(z, y, v) \in Int
<1>1. \A f \in Field : charged[<<f, y>>] \in Int /\ loose[<<f, y>>] \in Int
  <2>1. \A f \in Field : /\ charged[<<f, y>>] \in Charges \cup {0}
                        /\ loose[<<f, y>>] \in Charges \cup {0}
    BY DEF FiguresInv
  <2>2. Charges \cup {0} \subseteq Int
    BY ConstantsAssumption
  <2>3. QED
    BY <2>1, <2>2
<1>2. UsageOf(z, y) \in Int
  <2> DEFINE F == [f \in FieldsIn(z) |-> charged[<<f, y>>] + loose[<<f, y>>]]
  <2>1. UsageOf(z, y) = Used(charged, loose, y, FieldsIn(z))
    BY DEF UsageOf, Used
  <2>2. UsageOf(z, y) = Total(F, FieldsIn(z))
    BY <2>1, UsedIsTotal, Finitely
  <2>3. \A f \in FieldsIn(z) : F[f] \in Int
    BY <1>1 DEF FieldsIn
  <2> HIDE DEF F
  <2>4. QED
    BY <2>2, <2>3, TotalIsInt, Finitely
<1>3. CarriedIn(z, y) \in Int
  <2> DEFINE R == {row \in book[y] : row.zone = z /\ row.origin = "allocation_carryover"}
             F == [row \in R |-> row.amount]
  <2>1. y \in AnyYear /\ book[y] \subseteq BookRow
    BY ConstantsAssumption DEF BooksInv, AnyYear, Year
  <2>2. \A r, s \in R : r = s
    BY <2>1 DEF BooksInv
  <2>3. IsFiniteSet(R)
    <3>1. CASE R = {}
      BY <3>1, FS_EmptySet
    <3>2. CASE R # {}
      <4>1. PICK r \in R : TRUE
        BY <3>2
      <4>2. R = {r}
        BY <4>1, <2>2
      <4> HIDE DEF R
      <4>3. QED
        BY <4>2, FS_Singleton
    <3>3. QED
      BY <3>1, <3>2
  <2>4. CarriedIn(z, y) = Amounts(R)
    BY DEF CarriedIn, Amounts
  <2>5. \A row \in R : F[row] \in Int
    BY <2>1 DEF BookRow
  <2>6. Amounts(R) = Total(F, R)
    <3> HIDE DEF R
    <3> QED
      BY <2>3, AmountsIsTotal
  <2> HIDE DEF F, R
  <2>7. QED
    BY <2>3, <2>4, <2>5, <2>6, TotalIsInt
<1>4. QED
  BY <1>2, <1>3 DEF ZoneNet

\* What an account was allocated, credited and charged.
LEMMA AccountNetIsInt ==
  ASSUME FiguresInv, BooksInv, NEW a \in Account, NEW y \in Year
  PROVE  AccountNet(a, y) \in Int
<1> DEFINE Z == BudgetZones(a, y)
           acres == AcresProduct(Z)
           F == [z \in Z |-> plan[<<z, y>>] * AcresOf(FieldsOf(a) \cap FieldsIn(z))
                               * (acres \div AcresOf(FieldsIn(z)))]
<1>1. IsFiniteSet(Z) /\ Z \subseteq Planned(y) /\ Z \subseteq Zone
  BY Finitely
<1>2. \A z \in Z : AcresOf(FieldsIn(z)) \in Nat \ {0}
  <2>1. \A z \in Z : FieldsIn(z) \in SUBSET Field /\ FieldsIn(z) # {}
    BY DEF BudgetZones, FieldsIn
  <2>2. QED
    BY <2>1, AcresArePositive
<1>3. \A z : AcresOf(FieldsOf(a) \cap FieldsIn(z)) \in Nat
  <2>1. \A z : FieldsOf(a) \cap FieldsIn(z) \in SUBSET Field
    BY DEF FieldsIn
  <2>2. QED
    BY <2>1, AcresArePositive
<1>4. acres \in Nat \ {0}
  BY <1>1, <1>2, ProductIsPositive
<1>5. \A z \in Z : plan[<<z, y>>] \in Nat
  <2>1. Budgets \subseteq Nat
    BY ConstantsAssumption
  <2>2. \A z \in Z : plan[<<z, y>>] \in Budgets \cup {Nothing} /\ plan[<<z, y>>] # Nothing
    BY <1>1 DEF FiguresInv, Planned
  <2>3. QED
    BY <2>1, <2>2
<1> HIDE DEF Z, acres
<1>6. \A z \in Z : F[z] \in Int
  <2> SUFFICES ASSUME NEW z \in Z PROVE F[z] \in Int
    OBVIOUS
  <2> DEFINE b == plan[<<z, y>>]
             c == AcresOf(FieldsOf(a) \cap FieldsIn(z))
             d == AcresOf(FieldsIn(z))
  <2>1. b \in Nat /\ c \in Nat /\ d \in Nat \ {0}
    BY <1>2, <1>3, <1>5
  <2>2. F[z] = b * c * (acres \div d)
    OBVIOUS
  <2> HIDE DEF b, c, d, F
  <2>3. acres \div d \in Int
    BY <2>1, <1>4
  <2>4. b * c \in Int
    BY <2>1
  <2>5. QED
    BY <2>2, <2>3, <2>4
<1>7. AccountAllocation(a, y) \in Int
  <2>1. AccountAllocation(a, y) = Quantized(Parts(plan, y, a, acres, Z), acres)
    BY DEF AccountAllocation, Parts, Z, acres, AcresProduct
  <2>2. Parts(plan, y, a, acres, Z) = Total(F, Z)
    BY <1>1, PartsIsTotal
  <2> HIDE DEF F
  <2>3. Total(F, Z) \in Int
    BY <1>1, <1>6, TotalIsInt
  <2>4. QED
    BY <2>1, <2>2, <2>3, <1>4, QuantizedIsInt
<1>8. CreditsOf(a, y) \in Int
  <2> DEFINE B == credit[y]
             R == {row \in DOMAIN B : row.account = a}
             G == [row \in R |-> row.amount * B[row]]
  <2>1. /\ y \in AnyYear /\ DOMAIN B \subseteq CarriedCredit \cup OtherCredit
        /\ IsABag(B) /\ IsFiniteSet(DOMAIN B)
    BY ConstantsAssumption DEF BooksInv, AnyYear, Year
  <2>2. CreditsOf(a, y) = CreditSum(B, R)
    BY DEF CreditsOf, CreditSum
  <2> HIDE DEF B
  <2>3. IsFiniteSet(R) /\ R \subseteq DOMAIN B
    BY <2>1, FS_Subset
  <2>4. \A row \in R : row.amount \in Int /\ B[row] \in Nat
    BY <2>1 DEF CarriedCredit, OtherCredit, IsABag
  <2>5. \A row \in R : G[row] \in Int
    BY <2>4
  <2> HIDE DEF R
  <2>6. CreditSum(B, R) = Total(G, R)
    BY <2>3, CreditsIsTotal
  <2> HIDE DEF G
  <2>7. QED
    BY <2>2, <2>3, <2>5, <2>6, TotalIsInt
<1>9. ChargedTo(a, y) \in Int
  <2> DEFINE H == [f \in FieldsOf(a) |-> charged[<<f, y>>]]
  <2>1. ChargedTo(a, y) = ChargedIn(charged, y, FieldsOf(a))
    BY DEF ChargedTo, ChargedIn
  <2>2. ChargedTo(a, y) = Total(H, FieldsOf(a))
    BY <2>1, ChargedIsTotal, Finitely
  <2>3. \A f \in FieldsOf(a) : H[f] \in Int
    <3>1. Charges \cup {0} \subseteq Int
      BY ConstantsAssumption
    <3>2. \A f \in FieldsOf(a) : charged[<<f, y>>] \in Charges \cup {0}
      BY DEF FieldsOf, FiguresInv
    <3>3. QED
      BY <3>1, <3>2
  <2> HIDE DEF H
  <2>4. QED
    BY <2>2, <2>3, TotalIsInt, Finitely
<1>10. QED
  BY <1>7, <1>8, <1>9 DEF AccountNet

-----------------------------------------------------------------------------
(* Types *)

\* What a step leaves alone keeps its type.
LEMMA KeptTypes ==
  ASSUME TypesInv
  PROVE  /\ UNCHANGED <<figures, finalized, fresh>> => FiguresInv'
         /\ UNCHANGED <<book, credit>> => BooksInv'
         /\ UNCHANGED run => CommandInv'
         /\ UNCHANGED <<edits, toggles, deaths>> => CountsInv'
<1>1. UNCHANGED <<figures, finalized, fresh>> => FiguresInv'
  BY DEF TypesInv, FiguresInv, figures
<1>2. UNCHANGED <<book, credit>> => BooksInv'
  BY DEF TypesInv, BooksInv
<1>3. UNCHANGED run => CommandInv'
  BY DEF TypesInv, CommandInv
<1>4. UNCHANGED <<edits, toggles, deaths>> => CountsInv'
  BY DEF TypesInv, CountsInv
<1>5. QED
  BY <1>1, <1>2, <1>3, <1>4

\* A command that is idle has its type.
LEMMA IdleIsCommand == ASSUME run' = Idle PROVE CommandInv'
BY DEF CommandInv, Idle

\* A command at work is on one of its three places.
LEMMA CommandAt ==
  ASSUME CommandInv
  PROVE  /\ run.pc = "idle" => run = Idle
         /\ run.pc = "zones" => run \in ZonesRun
         /\ run.pc = "zonesStored" => run \in StoredRun
         /\ run.pc = "accounts" => run \in AccountsRun
         /\ run.pc \in {"idle", "zones", "zonesStored", "accounts"}
         /\ run # Idle => run.year \in Year /\ run.clean \in BOOLEAN /\ run.pc # "idle"
<1>1. CASE run = Idle
  BY <1>1 DEF Idle
<1>2. CASE run \in ZonesRun
  <2>1. run.pc = "zones" /\ run.year \in Year /\ run.clean \in BOOLEAN
    BY <1>2 DEF ZonesRun
  <2>2. QED
    BY <1>2, <2>1
<1>3. CASE run \in StoredRun
  <2>1. run.pc = "zonesStored" /\ run.year \in Year /\ run.clean \in BOOLEAN
    BY <1>3 DEF StoredRun
  <2>2. QED
    BY <1>3, <2>1
<1>4. CASE run \in AccountsRun
  <2>1. run.pc = "accounts" /\ run.year \in Year /\ run.clean \in BOOLEAN
    BY <1>4 DEF AccountsRun
  <2>2. QED
    BY <1>4, <2>1
<1>5. QED
  BY <1>1, <1>2, <1>3, <1>4 DEF CommandInv

\* A year and the next one can be rolled into.
LEMMA NextYear == ASSUME NEW y \in Year PROVE y \in AnyYear /\ y + 1 \in AnyYear /\ y # y + 1
BY ConstantsAssumption DEF Year, AnyYear

\* The command starts.
LEMMA BeginTypes == ASSUME TypesInv, NEW y \in Year, Begin(y) PROVE TypesInv'
<1>1. FiguresInv' /\ BooksInv' /\ CountsInv'
  BY KeptTypes DEF Begin
<1>2. Planned(y) \in SUBSET Zone
  BY DEF Planned
<1>3. [z \in Planned(y) |-> plan[<<z, y>>]] \in [Planned(y) -> Budgets]
  <2>1. \A z \in Planned(y) : plan[<<z, y>>] \in Budgets \cup {Nothing} /\ plan[<<z, y>>] # Nothing
    BY DEF TypesInv, FiguresInv, Planned
  <2>2. QED
    BY <2>1
<1>4. run' \in ZonesRun
  <2>1. [z \in Planned(y) |-> plan[<<z, y>>]] \in UNION {[Z -> Budgets] : Z \in SUBSET Zone}
    BY <1>2, <1>3
  <2>2. horizon \in [Zone -> Horizon \cup {""}]
    BY DEF TypesInv, FiguresInv
  <2>3. QED
    BY <1>2, <2>1, <2>2 DEF Begin, ZonesRun
<1>5. run'.todo \subseteq DOMAIN run'.budget /\ run'.results = {} /\ run'.pc = "zones"
  BY DEF Begin
<1>6. CommandInv'
  BY <1>4, <1>5 DEF CommandInv
<1>7. QED
  BY <1>1, <1>6 DEF TypesInv

\* It reads a zone.
LEMMA ReadZoneTypes == ASSUME TypesInv, ReadZone PROVE TypesInv'
<1> DEFINE z == Min(run.todo)
           net == ZoneNet(z, run.year, run.budget[z])
           row == [zone |-> z, net |-> net]
<1>1. FiguresInv' /\ BooksInv' /\ CountsInv'
  BY KeptTypes DEF ReadZone
<1>2. /\ run \in ZonesRun /\ run.todo # {}
      /\ run' = [run EXCEPT !.todo = @ \ {z}, !.results = @ \cup {row}]
  BY CommandAt DEF ReadZone, TypesInv
<1>3. z \in run.todo /\ z \in Zone
  <2>1. run.todo \subseteq Zone
    BY <1>2 DEF ZonesRun
  <2>2. IsFiniteSet(run.todo) /\ run.todo \subseteq Int
    BY <2>1, ConstantsAssumption, FS_Subset
  <2>3. QED
    BY <1>2, <2>1, <2>2, MinIsIn
<1>4. run.budget[z] \in Int
  <2>1. Budgets \subseteq Int
    BY ConstantsAssumption
  <2>2. PICK Z \in SUBSET Zone : run.budget \in [Z -> Budgets]
    BY <1>2 DEF ZonesRun
  <2>3. z \in Z
    BY <1>2, <1>3, <2>2 DEF TypesInv, CommandInv, ZonesRun
  <2>4. QED
    BY <2>1, <2>2, <2>3
<1>5. net \in Int
  BY <1>2, <1>3, <1>4, ZoneNetIsInt DEF ZonesRun, TypesInv
<1> HIDE DEF z, net
<1>6. row \in [zone : Zone, net : Int]
  BY <1>3, <1>5
<1>7. /\ run'.todo = run.todo \ {z} /\ run'.results = run.results \cup {row}
      /\ run'.pc = "zones" /\ run'.budget = run.budget /\ run' \in ZonesRun
  <2> HIDE DEF row
  <2> QED
    BY <1>2, <1>6 DEF ZonesRun
<1>8. /\ run.todo \subseteq DOMAIN run.budget
      /\ \A r, s \in run.results : r.zone = s.zone => r = s
      /\ \A r \in run.results : r.zone \notin run.todo
  BY <1>2 DEF TypesInv, CommandInv, ZonesRun
<1>9. \A r, s \in run'.results : r.zone = s.zone => r = s
  BY <1>3, <1>7, <1>8
<1>10. \A r \in run'.results : r.zone \notin run'.todo
  BY <1>3, <1>7, <1>8
<1>11. CommandInv'
  BY <1>7, <1>8, <1>9, <1>10 DEF CommandInv
<1>12. QED
  BY <1>1, <1>11 DEF TypesInv

\* What it carries is a row a zone at most.
LEMMA CarriedRowsAre ==
  ASSUME TypesInv, run.pc = "zones"
  PROVE  /\ CarriedRows(default) \subseteq BookRow
         /\ \A r \in CarriedRows(default) : r.origin = "allocation_carryover"
         /\ \A r, s \in CarriedRows(default) : r.zone = s.zone => r = s
<1>1. run \in ZonesRun /\ \A r, s \in run.results : r.zone = s.zone => r = s
  BY CommandAt DEF TypesInv, CommandInv
<1>2. \A r \in CarriedRows(default) : \E q \in run.results :
        r = [zone |-> q.zone, origin |-> "allocation_carryover", amount |-> q.net]
  BY DEF CarriedRows
<1>3. \A q \in run.results : q.zone \in Zone /\ q.net \in Int
  BY <1>1 DEF ZonesRun
<1>4. CarriedRows(default) \subseteq BookRow
  BY <1>2, <1>3 DEF BookRow
<1>5. \A r, s \in CarriedRows(default) : r.zone = s.zone => r = s
  BY <1>1, <1>2
<1>6. QED
  BY <1>2, <1>4, <1>5

\* It replaces the next year's rows.
LEMMA StoreZonesTypes == ASSUME TypesInv, StoreZones PROVE TypesInv'
<1> DEFINE next == run.year + 1
           new == CarriedRows(default)
           rows == Replaced(book[next], OwnRows(next), new)
<1>1. run.pc = "zones" /\ run \in ZonesRun /\ CountsInv' /\ credit' = credit
  BY CommandAt, KeptTypes DEF StoreZones, TypesInv
<1>2. UNCHANGED <<figures, finalized>>
  BY DEF StoreZones
<1>3. CASE Refused(OwnRows(next), new, next)
  <2>1. run' = Idle /\ UNCHANGED <<book, fresh>>
    BY <1>3 DEF StoreZones
  <2>2. QED
    BY <1>1, <1>2, <2>1, KeptTypes, IdleIsCommand DEF TypesInv
<1>4. CASE ~Refused(OwnRows(next), new, next)
  <2>1. /\ book' = [book EXCEPT ![next] = rows]
        /\ run' = [pc |-> "zonesStored", year |-> run.year, clean |-> run.clean]
        /\ fresh' = IF rows = book[next] THEN fresh ELSE fresh \ {next}
    BY <1>4 DEF StoreZones
  <2>2. FiguresInv'
    BY <1>2, <2>1 DEF FiguresInv, TypesInv, figures
  <2>3. CommandInv'
    BY <1>1, <2>1 DEF CommandInv, ZonesRun, StoredRun
  <2>4. next \in AnyYear /\ book \in [AnyYear -> SUBSET BookRow]
    BY <1>1, NextYear DEF ZonesRun, TypesInv, BooksInv
  <2>5. rows \subseteq BookRow
    BY <1>1, <2>4, CarriedRowsAre DEF Replaced
  <2>6. \A r, s \in rows : r.zone = s.zone /\ r.origin = s.origin => r = s
    <3>1. \A r, s \in book[next] : r.zone = s.zone /\ r.origin = s.origin => r = s
      BY <2>4 DEF TypesInv, BooksInv
    <3>2. \A r \in book[next] \ OwnRows(next) : r.origin # "allocation_carryover"
      BY DEF OwnRows
    <3>3. QED
      BY <3>1, <3>2, <1>1, CarriedRowsAre DEF Replaced
  <2> HIDE DEF rows, next
  <2>7. book' \in [AnyYear -> SUBSET BookRow]
    BY <2>1, <2>4, <2>5
  <2>8. \A y \in AnyYear : \A r, s \in book'[y] : r.zone = s.zone /\ r.origin = s.origin => r = s
    BY <2>1, <2>4, <2>6 DEF TypesInv, BooksInv
  <2>9. BooksInv'
    BY <1>1, <2>7, <2>8 DEF TypesInv, BooksInv
  <2>10. QED
    BY <1>1, <2>2, <2>3, <2>9 DEF TypesInv
<1>5. QED
  BY <1>3, <1>4

\* It goes on to the accounts.
LEMMA BeginAccountsTypes == ASSUME TypesInv, BeginAccounts PROVE TypesInv'
<1>1. FiguresInv' /\ BooksInv' /\ CountsInv'
  BY KeptTypes DEF BeginAccounts
<1>2. run \in StoredRun /\ default \in Horizon
  BY CommandAt DEF BeginAccounts, TypesInv, FiguresInv
<1>3. /\ run' = [pc |-> "accounts", year |-> run.year, todo |-> Account, results |-> {},
                 agency |-> default, clean |-> run.clean]
      /\ IsFiniteSet({})
  BY FS_EmptySet DEF BeginAccounts
<1>4. CommandInv'
  BY <1>2, <1>3 DEF CommandInv, StoredRun, AccountsRun
<1>5. QED
  BY <1>1, <1>4 DEF TypesInv

\* It reads an account.
LEMMA ReadAccountTypes == ASSUME TypesInv, ReadAccount PROVE TypesInv'
<1> DEFINE a == Min(run.todo)
           row == [account |-> a, origin |-> "carried_forward", source |-> run.year,
                   amount |-> AccountNet(a, run.year)]
<1>1. FiguresInv' /\ BooksInv' /\ CountsInv'
  BY KeptTypes DEF ReadAccount
<1>2. /\ run \in AccountsRun /\ run.todo # {}
      /\ \/ run' = [run EXCEPT !.todo = @ \ {a}, !.results = @]
         \/ run' = [run EXCEPT !.todo = @ \ {a}, !.results = @ \cup {row}]
  BY CommandAt DEF ReadAccount, TypesInv
<1>3. a \in Account
  <2>1. run.todo \subseteq Account
    BY <1>2 DEF AccountsRun
  <2>2. IsFiniteSet(run.todo) /\ run.todo \subseteq Int
    BY <2>1, ConstantsAssumption, FS_Subset
  <2>3. QED
    BY <1>2, <2>1, <2>2, MinIsIn
<1>4. AccountNet(a, run.year) \in Int
  BY <1>2, <1>3, AccountNetIsInt DEF AccountsRun, TypesInv
<1>5. row \in CarriedCredit /\ row.source = run.year
  BY <1>2, <1>3, <1>4 DEF CarriedCredit, AccountsRun
<1>6. IsFiniteSet(run.results) /\ \A r \in run.results : r.source = run.year
  BY <1>2 DEF TypesInv, CommandInv, AccountsRun
<1>7. IsFiniteSet(run.results \cup {row})
  BY <1>6, FS_AddElement
<1> HIDE DEF a, row
<1>8. /\ run' \in AccountsRun /\ run'.year = run.year /\ run'.pc = "accounts"
      /\ run'.results = run.results \/ run'.results = run.results \cup {row}
  <2>1. CASE run' = [run EXCEPT !.todo = @ \ {a}, !.results = @]
    BY <1>2, <2>1 DEF AccountsRun
  <2>2. CASE run' = [run EXCEPT !.todo = @ \ {a}, !.results = @ \cup {row}]
    BY <1>2, <1>5, <2>2 DEF AccountsRun
  <2>3. QED
    BY <1>2, <2>1, <2>2
<1>9. CommandInv'
  BY <1>5, <1>6, <1>7, <1>8 DEF CommandInv
<1>10. QED
  BY <1>1, <1>9 DEF TypesInv

Renewed(B, own, new) == Without(B, own) (+) SetToBag(new)

\* A bag with some of its members left out and a set put in instead.
Renews(C, B, own, new) ==
  /\ IsABag(C) /\ IsFiniteSet(DOMAIN C) /\ DOMAIN C = (DOMAIN B \ own) \cup new
  /\ \A x \in (DOMAIN B \ own) \ new : C[x] = B[x]
  /\ \A x \in new \ (DOMAIN B \ own) : C[x] = 1

\* That is what the command makes of a year's credits.
LEMMA PutInstead ==
  ASSUME NEW B, IsABag(B), IsFiniteSet(DOMAIN B), NEW own, NEW new, IsFiniteSet(new)
  PROVE  Renews(Renewed(B, own, new), B, own, new)
<1> DEFINE W == Without(B, own)
           N == SetToBag(new)
           C == Renewed(B, own, new)
<1>1. DOMAIN W = DOMAIN B \ own /\ \A x \in DOMAIN W : W[x] = B[x]
  BY DEF Without
<1>2. DOMAIN N = new /\ \A x \in new : N[x] = 1
  BY DEF SetToBag
<1>3. C = [x \in DOMAIN W \cup DOMAIN N |-> (IF x \in DOMAIN W THEN W[x] ELSE 0)
                                             + (IF x \in DOMAIN N THEN N[x] ELSE 0)]
  BY DEF Renewed, (+)
<1>4. \A x \in DOMAIN B : B[x] \in Nat /\ B[x] > 0
  BY DEF IsABag
<1> HIDE DEF W, N, C
<1>5. DOMAIN C = (DOMAIN B \ own) \cup new
  BY <1>1, <1>2, <1>3
<1>6. \A x \in (DOMAIN B \ own) \ new : C[x] = B[x]
  BY <1>1, <1>2, <1>3, <1>4
<1>7. \A x \in new \ (DOMAIN B \ own) : C[x] = 1
  BY <1>1, <1>2, <1>3
<1>8. \A x \in DOMAIN C : C[x] \in Nat /\ C[x] > 0
  BY <1>1, <1>2, <1>3, <1>4
<1>9. C = [x \in DOMAIN C |-> C[x]]
  BY <1>3
<1>10. IsABag(C)
  BY <1>8, <1>9 DEF IsABag
<1>11. IsFiniteSet(DOMAIN C)
  BY <1>5, FS_Union, FS_Difference
<1>12. Renews(C, B, own, new)
  BY <1>5, <1>6, <1>7, <1>10, <1>11 DEF Renews
<1>13. QED
  BY <1>12 DEF C

\* It replaces the next year's credits.
LEMMA StoreAccountsTypes == ASSUME TypesInv, StoreAccounts PROVE TypesInv'
<1> DEFINE next == run.year + 1
           own == OwnCredits(next, run.year)
           rows == Without(credit[next], own) (+) SetToBag(run.results)
<1>1. /\ run \in AccountsRun /\ run' = Idle /\ UNCHANGED <<figures, finalized, book>>
      /\ CountsInv' /\ CommandInv'
  BY CommandAt, KeptTypes, IdleIsCommand DEF StoreAccounts, TypesInv
<1>2. CASE UNCHANGED <<credit, fresh>>
  BY <1>1, <1>2, KeptTypes DEF TypesInv
<1>3. CASE /\ credit' = [credit EXCEPT ![next] = rows]
           /\ fresh' = (IF run.clean THEN fresh \cup {run.year} ELSE fresh)
                         \ (IF rows = credit[next] THEN {} ELSE {next})
  <2>1. run.year \in Year /\ run.results \subseteq CarriedCredit
    BY <1>1 DEF AccountsRun
  <2>2. IsFiniteSet(run.results)
    BY <1>1 DEF TypesInv, CommandInv, AccountsRun
  <2>3. FiguresInv'
    BY <1>1, <1>3, <2>1 DEF TypesInv, FiguresInv, figures
  <2>4. next \in AnyYear
    BY <2>1, NextYear
  <2>5. /\ DOMAIN credit[next] \subseteq CarriedCredit \cup OtherCredit
        /\ IsABag(credit[next]) /\ IsFiniteSet(DOMAIN credit[next])
    BY <2>4 DEF TypesInv, BooksInv
  <2>6. /\ IsABag(rows) /\ IsFiniteSet(DOMAIN rows)
        /\ DOMAIN rows = (DOMAIN credit[next] \ own) \cup run.results
    <3>1. rows = Renewed(credit[next], own, run.results)
      BY DEF Renewed
    <3> HIDE DEF rows, next, own
    <3>2. IsABag(credit[next]) /\ IsFiniteSet(DOMAIN credit[next])
      BY <2>5
    <3>3. Renews(rows, credit[next], own, run.results)
      BY <2>2, <3>1, <3>2, PutInstead
    <3>4. QED
      BY <3>3 DEF Renews
  <2> HIDE DEF rows, next, own
  <2>7. /\ credit' = [y \in AnyYear |-> credit'[y]] /\ credit'[next] = rows
        /\ \A y \in AnyYear \ {next} : credit'[y] = credit[y]
    BY <1>3, <2>4 DEF TypesInv, BooksInv
  <2>8. \A y \in AnyYear : /\ DOMAIN credit'[y] \subseteq CarriedCredit \cup OtherCredit
                           /\ IsABag(credit'[y]) /\ IsFiniteSet(DOMAIN credit'[y])
    <3> SUFFICES ASSUME NEW y \in AnyYear
                 PROVE  /\ DOMAIN credit'[y] \subseteq CarriedCredit \cup OtherCredit
                        /\ IsABag(credit'[y]) /\ IsFiniteSet(DOMAIN credit'[y])
      OBVIOUS
    <3>1. CASE y = next
      BY <2>1, <2>5, <2>6, <2>7, <3>1
    <3>2. CASE y # next
      BY <2>7, <3>2 DEF TypesInv, BooksInv
    <3>3. QED
      BY <3>1, <3>2
  <2>9. BooksInv'
    BY <1>1, <2>7, <2>8 DEF TypesInv, BooksInv
  <2>10. QED
    BY <1>1, <2>3, <2>9 DEF TypesInv
<1>4. QED
  BY <1>2, <1>3 DEF StoreAccounts

\* It dies.
LEMMA DieTypes == ASSUME TypesInv, Die PROVE TypesInv'
<1>1. FiguresInv' /\ BooksInv' /\ CommandInv'
  BY KeptTypes, IdleIsCommand DEF Die
<1>2. CountsInv'
  BY ConstantsAssumption DEF Die, TypesInv, CountsInv
<1>3. QED
  BY <1>1, <1>2 DEF TypesInv

\* What a change does to the command and to the years rolled.
LEMMA ChangeIs ==
  ASSUME TypesInv, NEW years, Change(years)
  PROVE  /\ fresh' = fresh \ years /\ finalized' = finalized
         /\ CommandInv' /\ CountsInv'
         /\ \/ run' = run /\ (run = Idle \/ run.year \notin years)
            \/ /\ run # Idle /\ run.year \in years /\ run' # Idle /\ run'.clean = FALSE
               /\ run'.pc = run.pc /\ run'.year = run.year
<1>1. fresh' = fresh \ years /\ finalized' = finalized
  BY DEF Change
<1>2. CountsInv'
  BY ConstantsAssumption DEF Change, TypesInv, CountsInv
<1>3. CASE run = Idle \/ run.year \notin years
  <2>1. run' = run
    BY <1>3 DEF Change
  <2>2. QED
    BY <1>1, <1>2, <1>3, <2>1, KeptTypes
<1>4. CASE run # Idle /\ run.year \in years
  <2>1. run' = [run EXCEPT !.clean = FALSE]
    BY <1>4 DEF Change
  <2>2. CASE run \in ZonesRun
    <3>1. run' \in ZonesRun /\ run'.pc = "zones" /\ run'.todo = run.todo
          /\ run'.budget = run.budget /\ run'.results = run.results
          /\ run'.clean = FALSE /\ run'.pc = run.pc /\ run'.year = run.year
      BY <2>1, <2>2 DEF ZonesRun
    <3>2. CommandInv'
      BY <3>1, <2>2 DEF TypesInv, CommandInv
    <3>3. QED
      BY <1>1, <1>2, <1>4, <3>1, <3>2 DEF Idle
  <2>3. CASE run \in StoredRun
    <3>1. run' \in StoredRun /\ run'.pc = "zonesStored"
          /\ run'.clean = FALSE /\ run'.pc = run.pc /\ run'.year = run.year
      BY <2>1, <2>3 DEF StoredRun
    <3>2. CommandInv'
      BY <3>1 DEF CommandInv
    <3>3. QED
      BY <1>1, <1>2, <1>4, <3>1, <3>2 DEF Idle
  <2>4. CASE run \in AccountsRun
    <3>1. run' \in AccountsRun /\ run'.pc = "accounts" /\ run'.results = run.results
          /\ run'.clean = FALSE /\ run'.pc = run.pc /\ run'.year = run.year
      BY <2>1, <2>4 DEF AccountsRun
    <3>2. CommandInv'
      BY <3>1, <2>4 DEF TypesInv, CommandInv
    <3>3. QED
      BY <1>1, <1>2, <1>4, <3>1, <3>2 DEF Idle
  <2>5. QED
    BY <1>4, <2>2, <2>3, <2>4 DEF TypesInv, CommandInv
<1>5. QED
  BY <1>3, <1>4

\* The office changes what the command reads.
SetsFigures ==
  \/ \E z \in Zone, y \in Year, v \in Budgets \cup {Nothing} : SetPlan(z, y, v)
  \/ \E f \in Field, y \in Year, v \in Charges : Charge(f, y, v) \/ ChargeLoose(f, y, v)
  \/ \E z \in Zone, h \in Horizon \cup {""} : SetHorizon(z, h)
  \/ \E h \in Horizon : SetDefault(h)

\* It keeps the types.
LEMMA SetsFiguresTypes == ASSUME TypesInv, SetsFigures PROVE TypesInv'
<1>1. FiguresInv /\ fresh \subseteq Year
  BY DEF TypesInv, FiguresInv
<1>2. ASSUME NEW z \in Zone, NEW y \in Year, NEW v \in Budgets \cup {Nothing}, SetPlan(z, y, v)
      PROVE  TypesInv'
  <2>1. Change({y}) /\ UNCHANGED <<charged, loose, horizon, default, book, credit>>
        /\ plan' = [plan EXCEPT ![<<z, y>>] = v]
    BY <1>2 DEF SetPlan
  <2>2. FiguresInv'
    BY <1>1, <2>1, ChangeIs DEF FiguresInv
  <2>3. QED
    BY <2>1, <2>2, ChangeIs, KeptTypes DEF TypesInv
<1>3. ASSUME NEW f \in Field, NEW y \in Year, NEW v \in Charges, Charge(f, y, v)
      PROVE  TypesInv'
  <2>1. Change({y}) /\ UNCHANGED <<plan, loose, horizon, default, book, credit>>
        /\ charged' = [charged EXCEPT ![<<f, y>>] = v]
    BY <1>3 DEF Charge
  <2>2. FiguresInv'
    BY <1>1, <2>1, ChangeIs DEF FiguresInv
  <2>3. QED
    BY <2>1, <2>2, ChangeIs, KeptTypes DEF TypesInv
<1>4. ASSUME NEW f \in Field, NEW y \in Year, NEW v \in Charges, ChargeLoose(f, y, v)
      PROVE  TypesInv'
  <2>1. Change({y}) /\ UNCHANGED <<plan, charged, horizon, default, book, credit>>
        /\ loose' = [loose EXCEPT ![<<f, y>>] = v]
    BY <1>4 DEF ChargeLoose
  <2>2. FiguresInv'
    BY <1>1, <2>1, ChangeIs DEF FiguresInv
  <2>3. QED
    BY <2>1, <2>2, ChangeIs, KeptTypes DEF TypesInv
<1>5. ASSUME NEW z \in Zone, NEW h \in Horizon \cup {""}, SetHorizon(z, h) PROVE TypesInv'
  <2>1. Change(Year) /\ UNCHANGED <<plan, charged, loose, default, book, credit>>
        /\ horizon' = [horizon EXCEPT ![z] = h]
    BY <1>5 DEF SetHorizon
  <2>2. FiguresInv'
    BY <1>1, <2>1, ChangeIs DEF FiguresInv
  <2>3. QED
    BY <2>1, <2>2, ChangeIs, KeptTypes DEF TypesInv
<1>6. ASSUME NEW h \in Horizon, SetDefault(h) PROVE TypesInv'
  <2>1. Change(Year) /\ UNCHANGED <<plan, charged, loose, horizon, book, credit>> /\ default' = h
    BY <1>6 DEF SetDefault
  <2>2. FiguresInv'
    BY <1>1, <2>1, ChangeIs DEF FiguresInv
  <2>3. QED
    BY <2>1, <2>2, ChangeIs, KeptTypes DEF TypesInv
<1>7. QED
  BY <1>2, <1>3, <1>4, <1>5, <1>6 DEF SetsFigures

\* What is deposited stays a row a zone, and leaves what was carried alone.
LEMMA DepositIs ==
  ASSUME TypesInv, NEW z \in Zone, NEW y \in AnyYear, NEW v \in Additions, DepositToPool(z, y, v)
  PROVE  TypesInv' /\ \A i \in AnyYear : OwnRows(i)' = OwnRows(i)
<1> DEFINE old == {row \in book[y] : row.zone = z /\ row.origin = "pool"}
           held == MapThenSumSet(LAMBDA row : row.amount, old)
           new == [zone |-> z, origin |-> "pool", amount |-> held + v]
           rows == (book[y] \ old) \cup {new}
           F == [row \in old |-> row.amount]
<1>1. /\ book' = [book EXCEPT ![y] = rows] /\ Change({}) /\ UNCHANGED <<figures, credit>>
  BY DEF DepositToPool
<1>2. /\ book \in [AnyYear -> SUBSET BookRow]
      /\ \A r, s \in book[y] : r.zone = s.zone /\ r.origin = s.origin => r = s
  BY DEF TypesInv, BooksInv
<1>3. IsFiniteSet(old)
  <2>1. CASE old = {}
    BY <2>1, FS_EmptySet
  <2>2. CASE old # {}
    <3>1. PICK r \in old : TRUE
      BY <2>2
    <3>2. old = {r}
      BY <1>2, <3>1
    <3> HIDE DEF old
    <3>3. QED
      BY <3>2, FS_Singleton
  <2>3. QED
    BY <2>1, <2>2
<1>4. held = Amounts(old) /\ \A row \in old : F[row] \in Int
  BY <1>2 DEF Amounts, BookRow
<1>5. held \in Int
  <2> HIDE DEF old, held
  <2>1. Amounts(old) = Total(F, old)
    BY <1>3, AmountsIsTotal
  <2> HIDE DEF F
  <2>2. QED
    BY <1>3, <1>4, <2>1, TotalIsInt
<1> HIDE DEF held, F
<1>6. new \in BookRow
  <2>1. v \in Int
    BY ConstantsAssumption
  <2>2. QED
    BY <1>5, <2>1 DEF BookRow
<1>7. rows \subseteq BookRow
  BY <1>2, <1>6
<1>8. \A r, s \in rows : r.zone = s.zone /\ r.origin = s.origin => r = s
  BY <1>2
<1>9. {row \in rows : row.origin = "allocation_carryover"}
        = {row \in book[y] : row.origin = "allocation_carryover"}
  BY <1>2
<1> HIDE DEF rows
<1>10. book' \in [AnyYear -> SUBSET BookRow] /\ book'[y] = rows
       /\ \A i \in AnyYear \ {y} : book'[i] = book[i]
  BY <1>1, <1>2, <1>7
<1>11. \A i \in AnyYear : \A r, s \in book'[i] : r.zone = s.zone /\ r.origin = s.origin => r = s
  BY <1>8, <1>10 DEF TypesInv, BooksInv
<1>12. BooksInv'
  BY <1>1, <1>10, <1>11 DEF TypesInv, BooksInv
<1>13. fresh' = fresh \ {} /\ finalized' = finalized /\ CommandInv' /\ CountsInv'
  BY <1>1, ChangeIs
<1>14. FiguresInv'
  BY <1>1, <1>13 DEF TypesInv, FiguresInv, figures
<1>15. \A i \in AnyYear : OwnRows(i)' = OwnRows(i)
  BY <1>9, <1>10 DEF OwnRows
<1>16. QED
  BY <1>12, <1>13, <1>14, <1>15 DEF TypesInv

\* What is credited is added to the year's credits, and leaves what was carried alone.
LEMMA CreditIs ==
  ASSUME TypesInv, NEW a \in Account, NEW y \in AnyYear, NEW v \in Additions, CreditAccount(a, y, v)
  PROVE  /\ TypesInv' /\ \A i \in AnyYear \ {y} : credit'[i] = credit[i]
         /\ \A i \in AnyYear, source \in Year :
              /\ OwnCredits(i, source)' = OwnCredits(i, source)
              /\ \A row \in OwnCredits(i, source) : credit'[i][row] = credit[i][row]
<1> DEFINE row == [account |-> a, origin |-> "other", source |-> 0, amount |-> v]
           B == credit[y]
           C == Without(B, {}) (+) SetToBag({row})
<1>1. /\ credit' = [credit EXCEPT ![y] = B (+) SetToBag({row})]
      /\ Change({y}) /\ UNCHANGED <<figures, book>>
  BY DEF CreditAccount
<1>2. /\ IsABag(B) /\ IsFiniteSet(DOMAIN B) /\ DOMAIN B \subseteq CarriedCredit \cup OtherCredit
      /\ credit = [i \in AnyYear |-> credit[i]]
  BY DEF TypesInv, BooksInv
<1>3. Without(B, {}) = B
  <2>1. B = [x \in DOMAIN B |-> B[x]]
    BY <1>2 DEF IsABag
  <2>2. DOMAIN B \ {} = DOMAIN B
    OBVIOUS
  <2> HIDE DEF B
  <2>3. QED
    BY <2>1, <2>2 DEF Without
<1>4. /\ IsABag(C) /\ IsFiniteSet(DOMAIN C) /\ DOMAIN C = DOMAIN B \cup {row}
      /\ \A x \in DOMAIN B \ {row} : C[x] = B[x]
  <2>1. IsFiniteSet({row})
    BY FS_Singleton
  <2>2. C = Renewed(B, {}, {row})
    BY DEF Renewed
  <2> HIDE DEF row, B, C
  <2>3. /\ IsABag(C) /\ IsFiniteSet(DOMAIN C) /\ DOMAIN C = (DOMAIN B \ {}) \cup {row}
        /\ \A x \in (DOMAIN B \ {}) \ {row} : C[x] = B[x]
    <3>1. Renews(C, B, {}, {row})
      BY <1>2, <2>1, <2>2, PutInstead
    <3>2. QED
      BY <3>1 DEF Renews
  <2>4. QED
    BY <2>3
<1>5. row \in OtherCredit /\ row.origin = "other"
  <2>1. v \in Int
    BY ConstantsAssumption
  <2>2. QED
    BY <2>1 DEF OtherCredit
<1> HIDE DEF row, C
<1>6. /\ credit' = [i \in AnyYear |-> credit'[i]] /\ credit'[y] = C
      /\ \A i \in AnyYear \ {y} : credit'[i] = credit[i]
  BY <1>1, <1>2, <1>3 DEF C
<1> HIDE DEF B
<1>7. \A i \in AnyYear : /\ DOMAIN credit'[i] \subseteq CarriedCredit \cup OtherCredit
                         /\ IsABag(credit'[i]) /\ IsFiniteSet(DOMAIN credit'[i])
  <2> SUFFICES ASSUME NEW i \in AnyYear
               PROVE  /\ DOMAIN credit'[i] \subseteq CarriedCredit \cup OtherCredit
                      /\ IsABag(credit'[i]) /\ IsFiniteSet(DOMAIN credit'[i])
    OBVIOUS
  <2>1. CASE i = y
    BY <1>2, <1>4, <1>5, <1>6, <2>1
  <2>2. CASE i # y
    BY <1>6, <2>2 DEF TypesInv, BooksInv
  <2>3. QED
    BY <2>1, <2>2
<1>8. BooksInv'
  BY <1>1, <1>6, <1>7 DEF TypesInv, BooksInv
<1>9. fresh' = fresh \ {y} /\ finalized' = finalized /\ CommandInv' /\ CountsInv'
  BY <1>1, ChangeIs
<1>10. FiguresInv'
  BY <1>1, <1>9 DEF TypesInv, FiguresInv, figures
<1>11. ASSUME NEW i \in AnyYear, NEW source \in Year
       PROVE  /\ OwnCredits(i, source)' = OwnCredits(i, source)
              /\ \A r \in OwnCredits(i, source) : credit'[i][r] = credit[i][r]
  <2>1. CASE i = y
    <3>1. OwnCredits(i, source)
            = {r \in DOMAIN B : r.origin = "carried_forward" /\ r.source = source}
      BY <2>1 DEF OwnCredits, B
    <3>2. OwnCredits(i, source)'
            = {r \in DOMAIN C : r.origin = "carried_forward" /\ r.source = source}
      BY <2>1, <1>6 DEF OwnCredits
    <3>3. QED
      BY <2>1, <3>1, <3>2, <1>4, <1>5, <1>6 DEF B
  <2>2. CASE i # y
    BY <2>2, <1>6 DEF OwnCredits
  <2>3. QED
    BY <2>1, <2>2
<1>12. QED
  BY <1>6, <1>8, <1>9, <1>10, <1>11 DEF TypesInv

\* A year is finalized or reopened.
LEMMA ToggleTypes == ASSUME TypesInv, NEW y \in Year, Toggle(y) PROVE TypesInv'
<1>1. FiguresInv'
  BY DEF Toggle, TypesInv, FiguresInv, figures
<1>2. BooksInv' /\ CommandInv'
  BY KeptTypes DEF Toggle
<1>3. CountsInv'
  BY ConstantsAssumption DEF Toggle, TypesInv, CountsInv
<1>4. QED
  BY <1>1, <1>2, <1>3 DEF TypesInv

\* Every step keeps the types.
LEMMA TypesStep == ASSUME TypesInv, [Next]_vars PROVE TypesInv'
<1>1. CASE Office
  BY <1>1, SetsFiguresTypes, DepositIs, CreditIs, ToggleTypes DEF Office, SetsFigures
<1>2. CASE UNCHANGED vars
  BY <1>2, KeptTypes DEF vars, figures, TypesInv
<1>3. QED
  BY <1>1, <1>2, BeginTypes, ReadZoneTypes, StoreZonesTypes, BeginAccountsTypes,
     ReadAccountTypes, StoreAccountsTypes, DieTypes DEF Next

\* The types hold at first.
LEMMA TypesStart == ASSUME Init PROVE TypesInv
<1>1. FiguresInv
  <2>1. PICK opening \in Openings : plan = opening.plan /\ charged = opening.charged
    BY DEF Init
  <2>2. opening \in [plan : [Zone \X (1 .. LastYear) -> Budgets \cup {Nothing}],
                     charged : [Field \X (1 .. LastYear) -> Charges]]
    BY ConstantsAssumption
  <2>3. plan \in [Zone \X Year -> Budgets \cup {Nothing}]
    BY <2>1, <2>2 DEF Year
  <2>4. charged \in [Field \X Year -> Charges \cup {0}]
    <3>1. charged \in [Field \X Year -> Charges]
      BY <2>1, <2>2 DEF Year
    <3>2. QED
      BY <3>1
  <2>5. loose \in [Field \X Year -> Charges \cup {0}]
    BY DEF Init
  <2>6. QED
    BY <2>3, <2>4, <2>5 DEF Init, FiguresInv, Horizon
<1>2. IsABag(EmptyBag) /\ DOMAIN EmptyBag = {} /\ IsFiniteSet(DOMAIN EmptyBag)
  <2>1. EmptyBag = [e \in {} |-> 1] /\ DOMAIN EmptyBag = {}
    BY DEF EmptyBag, SetToBag
  <2>2. QED
    BY <2>1, FS_EmptySet DEF IsABag
<1>3. BooksInv
  BY <1>2 DEF Init, BooksInv
<1>4. CommandInv
  BY DEF Init, CommandInv, Idle
<1>5. CountsInv
  <2>1. edits = 0 /\ toggles = 0 /\ deaths = 0
    BY DEF Init
  <2>2. MaxEdits \in Nat /\ MaxToggles \in Nat /\ MaxDeaths \in Nat
    BY ConstantsAssumption
  <2>3. QED
    BY <2>1, <2>2 DEF CountsInv
<1>6. QED
  BY <1>1, <1>3, <1>4, <1>5 DEF TypesInv

\* Figures, books, credits and the command have the types they are declared with,
\* and no zone ever has two rows of one origin in a year, so that a roll never
\* meets the table's unique_together (_replace_carryover_rows).
THEOREM RollTypeCorrect == Spec => []TypeOK
<1>1. Init => TypesInv
  BY TypesStart
<1>2. TypesInv /\ [Next]_vars => TypesInv'
  BY TypesStep
<1>3. TypesInv => TypeOK
  <2> SUFFICES ASSUME TypesInv PROVE TypeOK
    OBVIOUS
  <2>1. RunOK
    <3>1. CASE run = Idle
      BY <3>1 DEF RunOK
    <3>2. CASE run \in ZonesRun
      BY <3>2 DEF RunOK, ZonesRun
    <3>3. CASE run \in StoredRun
      BY <3>3 DEF RunOK, StoredRun
    <3>4. CASE run \in AccountsRun
      BY <3>4 DEF RunOK, AccountsRun
    <3>5. QED
      BY <3>1, <3>2, <3>3, <3>4 DEF TypesInv, CommandInv
  <2>2. QED
    BY <2>1 DEF TypesInv, TypeOK, FiguresInv, BooksInv, CountsInv, BookRow
<1>4. QED
  BY <1>1, <1>2, <1>3, PTL DEF Spec

-----------------------------------------------------------------------------
(* What is rolled from figures that stand still *)

\* A step that leaves alone all that the year is rolled from.
Still(y) ==
  /\ UNCHANGED <<horizon, default>>
  /\ \A z \in Zone : plan'[<<z, y>>] = plan[<<z, y>>]
  /\ \A f \in Field : charged'[<<f, y>>] = charged[<<f, y>>] /\ loose'[<<f, y>>] = loose[<<f, y>>]
  /\ OwnRows(y)' = OwnRows(y)
  /\ credit'[y] = credit[y]

\* The sums of the command, over the figures they are taken from.
SumsOfFigures ==
  /\ \A z, y : UsageOf(z, y) = Used(charged, loose, y, FieldsIn(z))
  /\ \A z, y : CarriedIn(z, y) = Amounts({row \in book[y] : row.zone = z
                                                /\ row.origin = "allocation_carryover"})
  /\ \A a, y : AccountAllocation(a, y) =
       Quantized(Parts(plan, y, a, AcresProduct(BudgetZones(a, y)), BudgetZones(a, y)),
                 AcresProduct(BudgetZones(a, y)))
  /\ \A a, y : CreditsOf(a, y)
                  = CreditSum(credit[y], {row \in DOMAIN credit[y] : row.account = a})
  /\ \A a, y : ChargedTo(a, y) = ChargedIn(charged, y, FieldsOf(a))

\* The command takes its sums over those figures.
LEMMA SumsAreOfFigures == SumsOfFigures
BY DEF SumsOfFigures, UsageOf, Used, CarriedIn, Amounts, AccountAllocation, Parts, AcresProduct,
       CreditsOf, CreditSum, ChargedTo, ChargedIn

\* So it does after every step.
LEMMA SumsAreOfFiguresNext == SumsOfFigures'
BY SumsAreOfFigures, PTL

\* A zone then has the same plan, pumping and carry-over.
LEMMA StillZone ==
  ASSUME NEW y \in Year, Still(y), NEW z \in Zone
  PROVE  /\ UsageOf(z, y)' = UsageOf(z, y) /\ CarriedIn(z, y)' = CarriedIn(z, y)
         /\ ZoneNet(z, y, plan[<<z, y>>])' = ZoneNet(z, y, plan[<<z, y>>])
         /\ RecoveryHorizon(z)' = RecoveryHorizon(z)
<1>1. UsageOf(z, y)' = UsageOf(z, y)
  <2> DEFINE F == [f \in FieldsIn(z) |-> charged[<<f, y>>] + loose[<<f, y>>]]
             G == [f \in FieldsIn(z) |-> charged'[<<f, y>>] + loose'[<<f, y>>]]
  <2>1. /\ UsageOf(z, y) = Used(charged, loose, y, FieldsIn(z))
        /\ UsageOf(z, y)' = Used(charged', loose', y, FieldsIn(z))
    BY SumsAreOfFigures, SumsAreOfFiguresNext DEF SumsOfFigures, FieldsIn
  <2>2. UsageOf(z, y) = Total(F, FieldsIn(z)) /\ UsageOf(z, y)' = Total(G, FieldsIn(z))
    BY <2>1, UsedIsTotal, Finitely
  <2>3. Alike(FieldsIn(z), F, G)
    BY DEF Alike, Still, FieldsIn
  <2> HIDE DEF F, G
  <2>4. Total(F, FieldsIn(z)) = Total(G, FieldsIn(z))
    BY <2>3, TotalAlike, Finitely
  <2>5. QED
    BY <2>2, <2>4
<1>2. CarriedIn(z, y)' = CarriedIn(z, y)
  <2>1. /\ CarriedIn(z, y) = Amounts({row \in OwnRows(y) : row.zone = z})
        /\ CarriedIn(z, y)' = Amounts({row \in OwnRows(y)' : row.zone = z})
    <3>1. /\ CarriedIn(z, y) = Amounts({row \in book[y] : row.zone = z
                                          /\ row.origin = "allocation_carryover"})
          /\ CarriedIn(z, y)' = Amounts({row \in book'[y] : row.zone = z
                                           /\ row.origin = "allocation_carryover"})
      BY SumsAreOfFigures, SumsAreOfFiguresNext DEF SumsOfFigures
    <3>2. /\ {row \in book[y] : row.zone = z /\ row.origin = "allocation_carryover"}
               = {row \in OwnRows(y) : row.zone = z}
          /\ {row \in book'[y] : row.zone = z /\ row.origin = "allocation_carryover"}
               = {row \in OwnRows(y)' : row.zone = z}
      BY DEF OwnRows
    <3>3. QED
      BY <3>1, <3>2
  <2>2. QED
    BY <2>1 DEF Still
<1>3. RecoveryHorizon(z)' = RecoveryHorizon(z)
  BY DEF RecoveryHorizon, Still
<1>4. plan'[<<z, y>>] = plan[<<z, y>>]
  BY DEF Still
<1>5. QED
  BY <1>1, <1>2, <1>3, <1>4 DEF ZoneNet

\* What is rolled into the zones stays what it is.
LEMMA StillZones ==
  ASSUME NEW y \in Year, Still(y)
  PROVE  /\ Planned(y)' = Planned(y) /\ ZoneRows(y)' = ZoneRows(y)
         /\ \A Z \in SUBSET Zone : ReadOf(y, Z)' = ReadOf(y, Z)
<1>1. Planned(y)' = Planned(y)
  BY DEF Planned, Still
<1>2. \A z \in Zone : Carried(z, y)' = Carried(z, y) /\ ZoneRow(z, y)' = ZoneRow(z, y)
  BY StillZone DEF Carried, ZoneRow
<1>3. ZoneRows(y)' = ZoneRows(y)
  <2>1. Planned(y) \subseteq Zone
    BY DEF Planned
  <2>2. QED
    BY <1>1, <1>2, <2>1 DEF ZoneRows
<1>4. ASSUME NEW Z \in SUBSET Zone PROVE ReadOf(y, Z)' = ReadOf(y, Z)
  BY StillZone DEF ReadOf
<1>5. QED
  BY <1>1, <1>3, <1>4

\* So does what is rolled into the accounts.
LEMMA StillAccounts ==
  ASSUME NEW y \in Year, Still(y)
  PROVE  \A A : AccountRows(y, A)' = AccountRows(y, A)
<1>1. Planned(y)' = Planned(y)
  BY StillZones
<1>2. \A a : BudgetZones(a, y)' = BudgetZones(a, y)
  BY <1>1 DEF BudgetZones, FieldsOf, FieldsIn
<1>3. ASSUME NEW a PROVE AccountNet(a, y)' = AccountNet(a, y)
  <2>1. AccountAllocation(a, y)' = AccountAllocation(a, y)
    <3> DEFINE Z == BudgetZones(a, y)
               acres == AcresProduct(Z)
               F == [z \in Z |-> plan[<<z, y>>] * AcresOf(FieldsOf(a) \cap FieldsIn(z))
                                   * (acres \div AcresOf(FieldsIn(z)))]
               G == [z \in Z |-> plan'[<<z, y>>] * AcresOf(FieldsOf(a) \cap FieldsIn(z))
                                   * (acres \div AcresOf(FieldsIn(z)))]
    <3>1. IsFiniteSet(Z) /\ Z \subseteq Zone
      BY Finitely
    <3>2. AccountAllocation(a, y) = Quantized(Parts(plan, y, a, acres, Z), acres)
      BY SumsAreOfFigures DEF SumsOfFigures
    <3>3. AccountAllocation(a, y)' = Quantized(Parts(plan', y, a, acres, Z), acres)
      <4>1. AccountAllocation(a, y)'
              = Quantized(Parts(plan', y, a, AcresProduct(Z'), Z'), AcresProduct(Z'))
        BY SumsAreOfFiguresNext DEF SumsOfFigures
      <4>2. Z' = Z
        BY <1>2
      <4> HIDE DEF Z
      <4>3. QED
        BY <4>1, <4>2
    <3> HIDE DEF Z, acres
    <3>4. Parts(plan, y, a, acres, Z) = Total(F, Z) /\ Parts(plan', y, a, acres, Z) = Total(G, Z)
      BY <3>1, PartsIsTotal
    <3>5. Alike(Z, F, G)
      BY <3>1 DEF Alike, Still
    <3> HIDE DEF F, G
    <3>6. Total(F, Z) = Total(G, Z)
      BY <3>1, <3>5, TotalAlike
    <3>7. QED
      BY <3>2, <3>3, <3>4, <3>6
  <2>2. CreditsOf(a, y)' = CreditsOf(a, y)
    BY SumsAreOfFigures, SumsAreOfFiguresNext DEF SumsOfFigures, Still
  <2>3. ChargedTo(a, y)' = ChargedTo(a, y)
    <3> DEFINE F == [f \in FieldsOf(a) |-> charged[<<f, y>>]]
               G == [f \in FieldsOf(a) |-> charged'[<<f, y>>]]
    <3>1. /\ ChargedTo(a, y) = ChargedIn(charged, y, FieldsOf(a))
          /\ ChargedTo(a, y)' = ChargedIn(charged', y, FieldsOf(a))
      BY SumsAreOfFigures, SumsAreOfFiguresNext DEF SumsOfFigures, FieldsOf
    <3>2. ChargedTo(a, y) = Total(F, FieldsOf(a)) /\ ChargedTo(a, y)' = Total(G, FieldsOf(a))
      BY <3>1, ChargedIsTotal, Finitely
    <3>3. Alike(FieldsOf(a), F, G)
      BY DEF Alike, Still, FieldsOf
    <3> HIDE DEF F, G
    <3>4. Total(F, FieldsOf(a)) = Total(G, FieldsOf(a))
      BY <3>3, TotalAlike, Finitely
    <3>5. QED
      BY <3>2, <3>4
  <2>4. QED
    BY <2>1, <2>2, <2>3 DEF AccountNet
<1>4. \A a : \A z \in BudgetZones(a, y) : RecoveryHorizon(z)' = RecoveryHorizon(z)
  BY DEF RecoveryHorizon, Still
<1>5. \A a : Rolls(a, y)' = Rolls(a, y) /\ AccountRow(a, y)' = AccountRow(a, y)
  BY <1>2, <1>3, <1>4 DEF Rolls, AccountRow
<1>6. QED
  BY <1>5 DEF AccountRows

\* A step that also leaves alone what was rolled from the year.
Rests(y) ==
  /\ Still(y)
  /\ OwnRows(y + 1)' = OwnRows(y + 1)
  /\ OwnCredits(y + 1, y)' = OwnCredits(y + 1, y)
  /\ \A row \in OwnCredits(y + 1, y) : credit'[y + 1][row] = credit[y + 1][row]

\* Then the year stays rolled.
LEMMA RestsRolled ==
  ASSUME NEW y \in Year, Rests(y)
  PROVE  /\ ZonesRolled(y) => ZonesRolled(y)'
         /\ AccountsRolled(y) => AccountsRolled(y)'
<1>1. Still(y)
  BY DEF Rests
<1>2. ZoneRows(y)' = ZoneRows(y) /\ AccountRows(y, Account)' = AccountRows(y, Account)
  BY <1>1, StillZones, StillAccounts
<1>3. ZonesRolled(y) => ZonesRolled(y)'
  BY <1>2 DEF ZonesRolled, Rests
<1>4. AccountsRolled(y) => AccountsRolled(y)'
  BY <1>2 DEF AccountsRolled, Rests
<1>5. QED
  BY <1>3, <1>4

\* So do all the years, where a step leaves alone those it does not make stale.
LEMMA KeepsFresh ==
  ASSUME TypesInv, FreshInv, fresh' \subseteq fresh, \A y \in fresh' : Rests(y)
  PROVE  FreshInv'
<1>1. fresh \subseteq Year
  BY DEF TypesInv, FiguresInv
<1>2. QED
  BY <1>1, RestsRolled DEF FreshInv

\* What the command read stays what the figures say.
LEMMA KeepsWay ==
  ASSUME TypesInv, WayInv, run' = run, fresh' \subseteq fresh,
         run # Idle => Rests(run.year)
  PROVE  WayInv'
<1> SUFFICES ASSUME run # Idle PROVE WayInv'
  BY DEF WayInv, Idle
<1>1. run.year \in Year /\ Still(run.year) /\ Rests(run.year)
  BY CommandAt DEF TypesInv, Rests
<1>2. ~run'.clean => run'.year \notin fresh'
  BY DEF WayInv
<1>3. ASSUME run.clean, run.pc = "zones"
      PROVE  /\ run'.own = horizon' /\ run'.todo \subseteq Planned(run.year)'
             /\ run'.budget = [z \in Planned(run.year)' |-> plan'[<<z, run.year>>]]
             /\ run'.results = ReadOf(run.year, Planned(run.year) \ run.todo)'
  <2>1. Planned(run.year)' = Planned(run.year) /\ Planned(run.year) \subseteq Zone
    BY <1>1, StillZones, Finitely
  <2>2. ReadOf(run.year, Planned(run.year) \ run.todo)'
          = ReadOf(run.year, Planned(run.year) \ run.todo)
    <3>1. \A Z \in SUBSET Zone : ReadOf(run.year, Z)' = ReadOf(run.year, Z)
      BY <1>1, StillZones
    <3>2. Planned(run.year) \ run.todo \in SUBSET Zone
      BY <2>1
    <3>3. (Planned(run.year) \ run.todo)' = Planned(run.year) \ run.todo
      BY <2>1
    <3>4. QED
      BY <3>1, <3>2, <3>3
  <2>3. run.own = horizon /\ run.todo \subseteq Planned(run.year)
        /\ run.budget = [z \in Planned(run.year) |-> plan[<<z, run.year>>]]
        /\ run.results = ReadOf(run.year, Planned(run.year) \ run.todo)
    BY <1>3 DEF WayInv
  <2>4. \A z \in Planned(run.year) : plan'[<<z, run.year>>] = plan[<<z, run.year>>]
    BY <1>1, <2>1 DEF Still
  <2>5. horizon' = horizon
    BY <1>1 DEF Still
  <2>6. QED
    BY <2>1, <2>2, <2>3, <2>4, <2>5
<1>4. ASSUME run.clean, run.pc \in {"zonesStored", "accounts"} PROVE ZonesRolled(run.year)'
  BY <1>1, <1>4, RestsRolled DEF WayInv, ZonesRolled, ZoneRows
<1>5. ASSUME run.clean, run.pc = "accounts"
      PROVE  /\ run'.agency = default'
             /\ run'.results = AccountRows(run.year, Account \ run.todo)'
  <2>1. AccountRows(run.year, Account \ run.todo)' = AccountRows(run.year, Account \ run.todo)
    <3>1. \A A : AccountRows(run.year, A)' = AccountRows(run.year, A)
      BY <1>1, StillAccounts
    <3>2. QED
      BY <3>1
  <2>2. run.agency = default /\ run.results = AccountRows(run.year, Account \ run.todo)
    BY <1>5 DEF WayInv
  <2>3. QED
    BY <1>1, <2>1, <2>2 DEF Still
<1>6. QED
  BY <1>2, <1>3, <1>4, <1>5 DEF WayInv
-----------------------------------------------------------------------------
(* Every step keeps what was rolled *)

\* A step that touches neither figures nor books leaves every year alone.
LEMMA AllRests ==
  ASSUME UNCHANGED <<figures, book, credit>>
  PROVE  (\A y \in Year : Rests(y)) /\ (FirstInv => FirstInv')
<1>1. \A y : OwnRows(y)' = OwnRows(y)
  BY DEF OwnRows
<1>2. \A y, source : OwnCredits(y, source)' = OwnCredits(y, source)
  BY DEF OwnCredits
<1>3. UNCHANGED <<plan, charged, loose, horizon, default, credit>>
  BY DEF figures
<1>4. QED
  BY <1>1, <1>2, <1>3 DEF Rests, Still, FirstInv

\* An idle command has read nothing.
LEMMA IdleWay == ASSUME run' = Idle PROVE WayInv'
BY DEF WayInv

\* A change to some years leaves the others as they were rolled.
LEMMA ChangeKeeps ==
  ASSUME TypesInv, RolledInv, NEW years, Change(years), \A y \in Year \ years : Rests(y)
  PROVE  FreshInv' /\ WayInv'
<1>1. fresh \subseteq Year /\ fresh' = fresh \ years
  BY ChangeIs DEF TypesInv, FiguresInv
<1>2. FreshInv'
  BY <1>1, KeepsFresh DEF RolledInv
<1>3. CASE run' = run /\ (run = Idle \/ run.year \notin years)
  <2>1. run # Idle => run.year \in Year \ years
    BY <1>3, CommandAt DEF TypesInv
  <2>2. QED
    BY <1>1, <1>2, <1>3, <2>1, KeepsWay DEF RolledInv
<1>4. CASE run.year \in years /\ run'.clean = FALSE /\ run'.year = run.year
  BY <1>1, <1>2, <1>4 DEF WayInv
<1>5. QED
  BY <1>3, <1>4, ChangeIs

\* The office changes what the command reads.
LEMMA SetsFiguresKeeps == ASSUME TypesInv, RolledInv, SetsFigures PROVE RolledInv'
<1>1. UNCHANGED <<book, credit>>
  BY DEF SetsFigures, SetPlan, Charge, ChargeLoose, SetHorizon, SetDefault
<1>2. (\A y : OwnRows(y)' = OwnRows(y)) /\ (\A y, s : OwnCredits(y, s)' = OwnCredits(y, s))
  BY <1>1 DEF OwnRows, OwnCredits
<1>3. FirstInv'
  BY <1>2 DEF RolledInv, FirstInv
<1>4. ASSUME NEW z \in Zone, NEW y \in Year, NEW v \in Budgets \cup {Nothing}, SetPlan(z, y, v)
      PROVE  FreshInv' /\ WayInv'
  <2>1. Change({y}) /\ UNCHANGED <<charged, loose, horizon, default>>
        /\ plan' = [plan EXCEPT ![<<z, y>>] = v]
    BY <1>4 DEF SetPlan
  <2>2. \A i \in Year \ {y} : Rests(i)
    <3>1. \A i \in Year \ {y} : \A x \in Zone : plan'[<<x, i>>] = plan[<<x, i>>]
      BY <2>1 DEF TypesInv, FiguresInv
    <3>2. QED
      BY <1>1, <1>2, <2>1, <3>1 DEF Rests, Still
  <2>3. QED
    BY <2>1, <2>2, ChangeKeeps
<1>5. ASSUME NEW f \in Field, NEW y \in Year, NEW v \in Charges,
             Charge(f, y, v) \/ ChargeLoose(f, y, v)
      PROVE  FreshInv' /\ WayInv'
  <2>1. Change({y}) /\ UNCHANGED <<plan, horizon, default>>
    BY <1>5 DEF Charge, ChargeLoose
  <2>2. \A i \in Year \ {y} : \A x \in Field :
          charged'[<<x, i>>] = charged[<<x, i>>] /\ loose'[<<x, i>>] = loose[<<x, i>>]
    BY <1>5 DEF Charge, ChargeLoose, TypesInv, FiguresInv
  <2>3. \A i \in Year \ {y} : Rests(i)
    BY <1>1, <1>2, <2>1, <2>2 DEF Rests, Still
  <2>4. QED
    BY <2>1, <2>3, ChangeKeeps
<1>6. ASSUME Change(Year) PROVE FreshInv' /\ WayInv'
  <2>1. \A i \in Year \ Year : Rests(i)
    OBVIOUS
  <2>2. QED
    BY <1>6, <2>1, ChangeKeeps
<1>7. FreshInv' /\ WayInv'
  <2>1. ASSUME NEW z \in Zone, NEW h \in Horizon \cup {""}, SetHorizon(z, h) PROVE Change(Year)
    BY <2>1 DEF SetHorizon
  <2>2. ASSUME NEW h \in Horizon, SetDefault(h) PROVE Change(Year)
    BY <2>2 DEF SetDefault
  <2>3. QED
    BY <1>4, <1>5, <1>6, <2>1, <2>2 DEF SetsFigures
<1>8. QED
  BY <1>3, <1>7 DEF RolledInv

\* Water is deposited in a pool.
LEMMA DepositKeeps ==
  ASSUME TypesInv, RolledInv, NEW z \in Zone, NEW y \in AnyYear, NEW v \in Additions,
         DepositToPool(z, y, v)
  PROVE  RolledInv'
<1>1. \A i \in AnyYear : OwnRows(i)' = OwnRows(i)
  BY DepositIs
<1>2. Change({}) /\ UNCHANGED <<plan, charged, loose, horizon, default, credit>>
  BY DEF DepositToPool, figures
<1>3. \A i, s : OwnCredits(i, s)' = OwnCredits(i, s)
  BY <1>2 DEF OwnCredits
<1>4. \A i \in Year \ {} : Rests(i)
  BY <1>1, <1>2, <1>3, NextYear DEF Rests, Still
<1>5. FirstInv'
  <2>1. 1 \in AnyYear
    BY ConstantsAssumption DEF AnyYear
  <2>2. QED
    BY <1>1, <2>1 DEF RolledInv, FirstInv
<1>6. QED
  BY <1>2, <1>4, <1>5, ChangeKeeps DEF RolledInv

\* Water is credited to an account.
LEMMA CreditKeeps ==
  ASSUME TypesInv, RolledInv, NEW a \in Account, NEW y \in AnyYear, NEW v \in Additions,
         CreditAccount(a, y, v)
  PROVE  RolledInv'
<1>1. /\ \A i \in AnyYear \ {y} : credit'[i] = credit[i]
      /\ \A i \in AnyYear, source \in Year :
           /\ OwnCredits(i, source)' = OwnCredits(i, source)
           /\ \A row \in OwnCredits(i, source) : credit'[i][row] = credit[i][row]
  BY CreditIs
<1>2. Change({y}) /\ UNCHANGED <<plan, charged, loose, horizon, default, book>>
  BY DEF CreditAccount, figures
<1>3. \A i : OwnRows(i)' = OwnRows(i)
  BY <1>2 DEF OwnRows
<1>4. \A i \in Year \ {y} : Rests(i)
  <2> SUFFICES ASSUME NEW i \in Year \ {y} PROVE Rests(i)
    OBVIOUS
  <2>1. i \in AnyYear \ {y} /\ i + 1 \in AnyYear
    BY NextYear
  <2>2. Still(i)
    BY <1>1, <1>2, <1>3, <2>1 DEF Still
  <2>3. QED
    BY <1>1, <1>3, <2>1, <2>2 DEF Rests
<1>5. FirstInv'
  BY <1>3 DEF RolledInv, FirstInv
<1>6. QED
  BY <1>2, <1>4, <1>5, ChangeKeeps DEF RolledInv

\* A year is finalized or reopened, or nothing happens.
LEMMA NothingKeeps ==
  ASSUME TypesInv, RolledInv, UNCHANGED <<figures, book, credit, run, fresh>>
  PROVE  RolledInv'
<1>1. (\A y \in Year : Rests(y)) /\ FirstInv' /\ fresh \subseteq Year
  BY AllRests DEF RolledInv, TypesInv, FiguresInv
<1>2. FreshInv'
  BY <1>1, KeepsFresh DEF RolledInv
<1>3. WayInv'
  <2>1. run # Idle => run.year \in Year
    BY CommandAt DEF TypesInv
  <2>2. QED
    BY <1>1, <2>1, KeepsWay DEF RolledInv
<1>4. QED
  BY <1>1, <1>2, <1>3 DEF RolledInv

\* The command starts.
LEMMA BeginKeeps == ASSUME TypesInv, RolledInv, NEW y \in Year, Begin(y) PROVE RolledInv'
<1>1. UNCHANGED <<figures, book, credit, fresh>>
  BY DEF Begin
<1>2. (\A i \in Year : Rests(i)) /\ FirstInv' /\ fresh \subseteq Year
  BY <1>1, AllRests DEF RolledInv, TypesInv, FiguresInv
<1>3. FreshInv'
  BY <1>1, <1>2, KeepsFresh DEF RolledInv
<1>4. Planned(y)' = Planned(y) /\ Still(y)
  BY <1>2, StillZones DEF Rests
<1>5. run' = [pc |-> "zones", year |-> y, todo |-> Planned(y), results |-> {},
              budget |-> [z \in Planned(y) |-> plan[<<z, y>>]], own |-> horizon, clean |-> TRUE]
  BY DEF Begin
<1>6. horizon' = horizon /\ plan' = plan
  BY <1>1 DEF figures
<1>7. ReadOf(y, Planned(y) \ Planned(y))' = {}
  BY DEF ReadOf
<1>8. WayInv'
  <2>1. run'.pc = "zones" /\ run'.year = y /\ run'.clean = TRUE /\ run'.own = horizon'
        /\ run'.todo = Planned(y)' /\ run'.results = {}
        /\ run'.budget = [z \in Planned(y)' |-> plan'[<<z, y>>]]
    BY <1>4, <1>5, <1>6
  <2>2. Planned(run.year)' = Planned(y)'
    BY <2>1 DEF Planned
  <2>3. ReadOf(run.year, Planned(run.year) \ run.todo)' = {}
    BY <2>1, <2>2 DEF ReadOf
  <2>4. QED
    BY <2>1, <2>2, <2>3 DEF WayInv
<1>9. QED
  BY <1>2, <1>3, <1>8 DEF RolledInv

\* It reads a zone.
LEMMA ReadZoneKeeps == ASSUME TypesInv, RolledInv, ReadZone PROVE RolledInv'
<1> DEFINE z == Min(run.todo)
           net == ZoneNet(z, run.year, run.budget[z])
           row == [zone |-> z, net |-> net]
<1>1. UNCHANGED <<figures, book, credit, fresh>>
  BY DEF ReadZone
<1>2. (\A i \in Year : Rests(i)) /\ FirstInv' /\ fresh \subseteq Year
  BY <1>1, AllRests DEF RolledInv, TypesInv, FiguresInv
<1>3. FreshInv'
  BY <1>1, <1>2, KeepsFresh DEF RolledInv
<1>4. /\ run \in ZonesRun /\ run.pc = "zones" /\ run.todo # {} /\ run # Idle
      /\ run' = [run EXCEPT !.todo = @ \ {z}, !.results = @ \cup {row}]
  BY CommandAt DEF ReadZone, TypesInv, Idle
<1>5. z \in run.todo
  <2>1. run.todo \subseteq Zone
    BY <1>4 DEF ZonesRun
  <2>2. IsFiniteSet(run.todo) /\ run.todo \subseteq Int
    BY <2>1, ConstantsAssumption, FS_Subset
  <2>3. QED
    BY <1>4, <2>2, MinIsIn
<1> HIDE DEF z, row
<1>6. /\ run'.pc = "zones" /\ run'.year = run.year /\ run'.clean = run.clean
      /\ run'.own = run.own /\ run'.budget = run.budget
      /\ run'.todo = run.todo \ {z} /\ run'.results = run.results \cup {row}
  BY <1>4 DEF ZonesRun
<1>7. run.year \in Year
  BY <1>4 DEF ZonesRun
<1>8. ASSUME run.clean
      PROVE  /\ run'.own = horizon' /\ run'.todo \subseteq Planned(run.year)'
             /\ run'.budget = [x \in Planned(run.year)' |-> plan'[<<x, run'.year>>]]
             /\ run'.results = ReadOf(run.year, Planned(run.year) \ run.todo)'
  <2>1. /\ run.own = horizon /\ run.todo \subseteq Planned(run.year)
        /\ run.budget = [x \in Planned(run.year) |-> plan[<<x, run.year>>]]
        /\ run.results = ReadOf(run.year, Planned(run.year) \ run.todo)
    BY <1>4, <1>8 DEF RolledInv, WayInv
  <2>2. row = [zone |-> z, net |-> ZoneNet(z, run.year, plan[<<z, run.year>>])]
    BY <1>5, <2>1 DEF row
  <2>3. ReadOf(run.year, Planned(run.year) \ (run.todo \ {z}))
          = ReadOf(run.year, Planned(run.year) \ run.todo) \cup {row}
    BY <1>5, <2>1, <2>2 DEF ReadOf
  <2>4. Planned(run.year)' = Planned(run.year) /\ horizon' = horizon /\ plan' = plan
    <3>1. horizon' = horizon /\ plan' = plan
      BY <1>1 DEF figures
    <3>2. QED
      BY <1>6, <3>1 DEF Planned
  <2>5. ReadOf(run.year, Planned(run.year) \ run.todo)'
          = ReadOf(run.year, Planned(run.year) \ (run.todo \ {z}))
    <3>1. \A Z \in SUBSET Zone : ReadOf(run.year, Z)' = ReadOf(run.year, Z)
      <4>1. PICK y \in Year : y = run.year
        BY <1>7
      <4>2. \A Z \in SUBSET Zone : ReadOf(y, Z)' = ReadOf(y, Z)
        BY <1>2, StillZones DEF Rests
      <4>3. QED
        BY <1>6, <4>1, <4>2
    <3>2. Planned(run.year) \ (run.todo \ {z}) \in SUBSET Zone
      BY Finitely
    <3>3. (Planned(run.year) \ run.todo)' = Planned(run.year) \ (run.todo \ {z})
      BY <1>6, <2>4
    <3>4. QED
      BY <3>1, <3>2, <3>3
  <2>6. QED
    BY <1>6, <2>1, <2>3, <2>4, <2>5
<1>9. ~run'.clean => run'.year \notin fresh'
  BY <1>1, <1>4, <1>6 DEF RolledInv, WayInv
<1>10. WayInv'
  BY <1>6, <1>8, <1>9 DEF WayInv
<1>11. QED
  BY <1>2, <1>3, <1>10 DEF RolledInv

\* What the command carries is what the figures say, if none was changed.
LEMMA CleanRows ==
  ASSUME TypesInv, WayInv, run.pc = "zones", run.todo = {}, run.clean
  PROVE  CarriedRows(default) = ZoneRows(run.year)
<1>1. run # Idle /\ run.own = horizon /\ run.results = ReadOf(run.year, Planned(run.year))
  BY DEF WayInv, Idle
<1>2. \A x \in Zone : (IF run.own[x] = "" THEN default ELSE run.own[x]) = RecoveryHorizon(x)
  BY <1>1 DEF RecoveryHorizon
<1>3. Planned(run.year) \subseteq Zone
  BY DEF Planned
<1> DEFINE y == run.year
           R == ReadOf(y, Planned(y))
<1>4. CarriedRows(default) =
        {[zone |-> r.zone, origin |-> "allocation_carryover", amount |-> r.net] :
           r \in {q \in R : (IF run.own[q.zone] = "" THEN default ELSE run.own[q.zone])
                             # "same_water_year" \/ q.net <= 0}}
  BY <1>1 DEF CarriedRows
<1>5. ASSUME NEW q \in R
      PROVE  q.zone \in Planned(y) /\ q.net = ZoneNet(q.zone, y, plan[<<q.zone, y>>])
  <2>1. PICK x \in Planned(y) : q = [zone |-> x, net |-> ZoneNet(x, y, plan[<<x, y>>])]
    BY DEF ReadOf
  <2>2. q.zone = x /\ q.net = ZoneNet(x, y, plan[<<x, y>>])
    BY <2>1
  <2>3. QED
    BY <2>1, <2>2
<1>6. \A x \in Planned(y) : [zone |-> x, net |-> ZoneNet(x, y, plan[<<x, y>>])] \in R
  BY DEF ReadOf
<1> HIDE DEF R, y
<1>7. ASSUME NEW r \in CarriedRows(default) PROVE r \in ZoneRows(y)
  <2>1. PICK q \in R : /\ r = [zone |-> q.zone, origin |-> "allocation_carryover", amount |-> q.net]
                       /\ \/ (IF run.own[q.zone] = "" THEN default ELSE run.own[q.zone])
                               # "same_water_year"
                          \/ q.net <= 0
    BY <1>4, <1>7
  <2>2. q.zone \in Planned(y) /\ r = ZoneRow(q.zone, y) /\ Carried(q.zone, y)
    BY <1>2, <1>3, <1>5, <2>1 DEF ZoneRow, Carried, y
  <2>3. QED
    BY <2>2 DEF ZoneRows
<1>8. ASSUME NEW r \in ZoneRows(y) PROVE r \in CarriedRows(default)
  <2>1. PICK x \in Planned(y) : r = ZoneRow(x, y) /\ Carried(x, y)
    BY <1>8 DEF ZoneRows
  <2> DEFINE q == [zone |-> x, net |-> ZoneNet(x, y, plan[<<x, y>>])]
  <2>2. /\ q \in R /\ q.zone = x /\ q.net = ZoneNet(x, y, plan[<<x, y>>])
        /\ r = [zone |-> q.zone, origin |-> "allocation_carryover", amount |-> q.net]
    BY <1>6, <2>1 DEF ZoneRow
  <2>3. (IF run.own[x] = "" THEN default ELSE run.own[x]) # "same_water_year" \/ q.net <= 0
    BY <1>2, <1>3, <2>1, <2>2 DEF Carried, y
  <2> HIDE DEF q
  <2>4. QED
    BY <1>4, <2>2, <2>3
<1>9. QED
  BY <1>7, <1>8 DEF y

\* It replaces the next year's rows.
LEMMA StoreZonesKeeps == ASSUME TypesInv, RolledInv, StoreZones PROVE RolledInv'
<1> DEFINE next == run.year + 1
           new == CarriedRows(default)
           rows == Replaced(book[next], OwnRows(next), new)
<1>1. /\ run \in ZonesRun /\ run.pc = "zones" /\ run.todo = {} /\ run # Idle
      /\ UNCHANGED <<figures, credit>> /\ fresh \subseteq Year
  <2>1. run.pc = "zones" /\ run.todo = {} /\ UNCHANGED <<figures, credit>>
    BY DEF StoreZones
  <2>2. run \in ZonesRun /\ run # Idle
    BY <2>1, CommandAt DEF TypesInv, Idle
  <2>3. QED
    BY <2>1, <2>2 DEF TypesInv, FiguresInv
<1>2. CASE UNCHANGED <<book, fresh>> /\ run' = Idle
  <2>1. (\A y \in Year : Rests(y)) /\ FirstInv'
    BY <1>1, <1>2, AllRests DEF RolledInv
  <2>2. FreshInv'
    BY <1>1, <1>2, <2>1, KeepsFresh DEF RolledInv
  <2>3. QED
    BY <1>2, <2>1, <2>2, IdleWay DEF RolledInv
<1>3. CASE /\ book' = [book EXCEPT ![next] = rows]
           /\ run' = [pc |-> "zonesStored", year |-> run.year, clean |-> run.clean]
           /\ fresh' = IF rows = book[next] THEN fresh ELSE fresh \ {next}
  <2>0. PICK m \in Year : m = run.year
    BY <1>1 DEF ZonesRun
  <2>1. /\ next = m + 1 /\ next \in AnyYear /\ next # m /\ next # 1 /\ 1 \in AnyYear
        /\ \A y \in Year : y \in AnyYear /\ y + 1 \in AnyYear /\ (y + 1 = next => y = m)
    BY <2>0, ConstantsAssumption DEF Year, AnyYear
  <2>2. book \in [AnyYear -> SUBSET BookRow]
    BY DEF TypesInv, BooksInv
  <2>3. \A r \in new : r.origin = "allocation_carryover"
    BY <1>1, CarriedRowsAre
  <2>4. {row \in rows : row.origin = "allocation_carryover"} = new
    BY <2>3 DEF Replaced, OwnRows
  <2> HIDE DEF next, new, rows
  <2>5. /\ \A y \in AnyYear \ {next} : book'[y] = book[y]
        /\ book'[next] = rows /\ (rows = book[next] => book' = book)
    BY <1>3, <2>1, <2>2
  <2>6. /\ \A y \in AnyYear \ {next} : OwnRows(y)' = OwnRows(y)
        /\ OwnRows(m + 1)' = new
    <3>1. \A y \in AnyYear \ {next} : OwnRows(y)' = OwnRows(y)
      BY <2>5 DEF OwnRows
    <3>2. {row \in book'[m + 1] : row.origin = "allocation_carryover"} = new
      BY <2>1, <2>4, <2>5
    <3>3. QED
      BY <3>1, <3>2 DEF OwnRows
  <2>7. \A y, s : OwnCredits(y, s)' = OwnCredits(y, s)
    BY <1>1 DEF OwnCredits
  <2>8. \A y \in Year : (y # next \/ rows = book[next]) => Still(y)
    <3> SUFFICES ASSUME NEW y \in Year, y # next \/ rows = book[next] PROVE Still(y)
      OBVIOUS
    <3>1. OwnRows(y)' = OwnRows(y)
      BY <2>1, <2>5, <2>6 DEF OwnRows
    <3>2. QED
      BY <1>1, <3>1 DEF Still, figures
  <2>9. \A y \in fresh' : y \in Year /\ y \in fresh /\ Still(y)
    BY <1>1, <1>3, <2>8
  <2>10. run.clean => ZonesRolled(m)'
    <3> SUFFICES ASSUME run.clean PROVE ZonesRolled(m)'
      OBVIOUS
    <3>1. new = ZoneRows(m)
      BY <1>1, <2>0, CleanRows DEF RolledInv, new
    <3>2. ZoneRows(m)' = ZoneRows(m)
      BY <2>1, <2>8, StillZones
    <3>3. QED
      BY <2>6, <3>1, <3>2 DEF ZonesRolled
  <2>11. FreshInv'
    <3> SUFFICES ASSUME NEW y \in fresh' PROVE ZonesRolled(y)' /\ AccountsRolled(y)'
      BY DEF FreshInv
    <3>1. y \in Year /\ y \in fresh /\ Still(y) /\ ZonesRolled(y) /\ AccountsRolled(y)
      BY <2>9 DEF RolledInv, FreshInv
    <3>2. AccountsRolled(y)'
      BY <1>1, <2>7, <3>1, StillAccounts DEF AccountsRolled
    <3>3. CASE y + 1 = next
      <4>1. y = m /\ run.clean
        BY <1>1, <2>0, <2>1, <3>1, <3>3 DEF RolledInv, WayInv
      <4>2. ZonesRolled(y)'
        BY <2>10, <4>1
      <4>3. QED
        BY <3>2, <4>2
    <3>4. CASE y + 1 # next
      <4>1. OwnRows(y + 1)' = OwnRows(y + 1)
        BY <2>1, <2>6, <3>1, <3>4
      <4>2. QED
        BY <3>1, <3>2, <4>1, StillZones DEF ZonesRolled
    <3>5. QED
      BY <3>3, <3>4
  <2>12. FirstInv'
    BY <2>1, <2>6 DEF RolledInv, FirstInv
  <2>13. ~run'.clean => run'.year \notin fresh'
    BY <1>1, <1>3, <2>9 DEF RolledInv, WayInv
  <2>14. WayInv'
    <3>1. run'.pc = "zonesStored" /\ run'.year = m /\ run'.clean = run.clean
      BY <1>3, <2>0
    <3>2. run.clean => ZonesRolled(run.year)'
      BY <2>10, <3>1 DEF ZonesRolled
    <3>3. QED
      BY <2>13, <3>1, <3>2 DEF WayInv
  <2>15. QED
    BY <2>11, <2>12, <2>14 DEF RolledInv
<1>4. QED
  BY <1>2, <1>3 DEF StoreZones

\* It goes on to the accounts.
LEMMA BeginAccountsKeeps == ASSUME TypesInv, RolledInv, BeginAccounts PROVE RolledInv'
<1>1. /\ UNCHANGED <<figures, book, credit, fresh>> /\ run.pc = "zonesStored"
      /\ run' = [pc |-> "accounts", year |-> run.year, todo |-> Account, results |-> {},
                 agency |-> default, clean |-> run.clean]
  BY DEF BeginAccounts
<1>2. (\A i \in Year : Rests(i)) /\ FirstInv' /\ fresh \subseteq Year
  BY <1>1, AllRests DEF RolledInv, TypesInv, FiguresInv
<1>3. FreshInv'
  BY <1>1, <1>2, KeepsFresh DEF RolledInv
<1>4. run # Idle /\ run.year \in Year
  BY <1>1, CommandAt DEF TypesInv, Idle
<1>5. PICK y \in Year : y = run.year
  BY <1>4
<1>6. /\ run'.pc = "accounts" /\ run'.year = y /\ run'.todo = Account /\ run'.results = {}
      /\ run'.agency = default' /\ run'.clean = run.clean
  BY <1>1, <1>5 DEF figures
<1>7. ~run'.clean => run'.year \notin fresh'
  BY <1>1, <1>4, <1>5, <1>6 DEF RolledInv, WayInv
<1>8. run.clean => ZonesRolled(y)'
  BY <1>1, <1>2, <1>4, <1>5, RestsRolled DEF RolledInv, WayInv
<1>9. AccountRows(run.year, Account \ run.todo)' = {}
  BY <1>6 DEF AccountRows
<1>10. run.clean => ZonesRolled(run.year)'
  BY <1>6, <1>8 DEF ZonesRolled
<1>11. WayInv'
  BY <1>6, <1>7, <1>9, <1>10 DEF WayInv
<1>12. QED
  BY <1>2, <1>3, <1>11 DEF RolledInv

\* It reads an account.
LEMMA ReadAccountKeeps == ASSUME TypesInv, RolledInv, ReadAccount PROVE RolledInv'
<1> DEFINE a == Min(run.todo)
           row == AccountRow(a, run.year)
<1>1. /\ UNCHANGED <<figures, book, credit, fresh>> /\ run.pc = "accounts" /\ run.todo # {}
  BY DEF ReadAccount
<1>2. (\A i \in Year : Rests(i)) /\ FirstInv' /\ fresh \subseteq Year
  BY <1>1, AllRests DEF RolledInv, TypesInv, FiguresInv
<1>3. FreshInv'
  BY <1>1, <1>2, KeepsFresh DEF RolledInv
<1>4. run # Idle /\ run.year \in Year /\ run \in AccountsRun
  BY <1>1, CommandAt DEF TypesInv, Idle
<1>5. PICK y \in Year : y = run.year
  BY <1>4
<1>6. a \in run.todo /\ run.todo \subseteq Account
  <2>1. run.todo \subseteq Account
    BY <1>4 DEF AccountsRun
  <2>2. IsFiniteSet(run.todo) /\ run.todo \subseteq Int
    BY <2>1, ConstantsAssumption, FS_Subset
  <2>3. QED
    BY <1>1, <2>1, <2>2, MinIsIn
<1>7. run' = [run EXCEPT
         !.todo = @ \ {a},
         !.results = IF BudgetZones(a, run.year) = {}
                          \/ (AccountNet(a, run.year) > 0
                                /\ \A z \in BudgetZones(a, run.year) :
                                     (IF horizon[z] = "" THEN run.agency ELSE horizon[z])
                                       = "same_water_year")
                     THEN @ ELSE @ \cup {row}]
  BY DEF ReadAccount, AccountRow
<1>8. run.agency = default => run' = [run EXCEPT
         !.todo = @ \ {a}, !.results = IF Rolls(a, y) THEN @ \cup {row} ELSE @]
  BY <1>5, <1>7 DEF Rolls, RecoveryHorizon
<1> HIDE DEF a, row
<1>9. /\ run'.pc = "accounts" /\ run'.year = y /\ run'.todo = run.todo \ {a}
      /\ run'.agency = run.agency /\ run'.clean = run.clean
      /\ run.agency = default =>
           run'.results = IF Rolls(a, y) THEN run.results \cup {row} ELSE run.results
  BY <1>1, <1>4, <1>5, <1>7, <1>8 DEF AccountsRun
<1>10. ~run'.clean => run'.year \notin fresh'
  BY <1>1, <1>4, <1>5, <1>9 DEF RolledInv, WayInv
<1>11. ASSUME run.clean
       PROVE  /\ run'.agency = default' /\ ZonesRolled(run.year)'
              /\ run'.results = AccountRows(run.year, Account \ run.todo)'
  <2>1. /\ run.agency = default /\ ZonesRolled(y)
        /\ run.results = AccountRows(y, Account \ run.todo)
    BY <1>1, <1>4, <1>5, <1>11 DEF RolledInv, WayInv
  <2>2. AccountRows(y, Account \ (run.todo \ {a}))
          = IF Rolls(a, y) THEN AccountRows(y, Account \ run.todo) \cup {row}
            ELSE AccountRows(y, Account \ run.todo)
    <3>1. Account \ (run.todo \ {a}) = (Account \ run.todo) \cup {a}
      BY <1>6
    <3>2. row = AccountRow(a, y)
      BY <1>5 DEF row
    <3> HIDE DEF row
    <3>3. QED
      BY <3>1, <3>2 DEF AccountRows
  <2>4. \A A : AccountRows(y, A)' = AccountRows(y, A)
    BY <1>2, StillAccounts DEF Rests
  <2>5. AccountRows(run.year, Account \ run.todo)' = AccountRows(y, Account \ (run.todo \ {a}))
    <3>1. (Account \ run.todo)' = Account \ (run.todo \ {a})
      BY <1>9
    <3>2. QED
      BY <1>9, <2>4, <3>1
  <2>6. ZonesRolled(y)'
    BY <1>2, <2>1, RestsRolled
  <2>7. ZonesRolled(run.year)'
    BY <1>9, <2>6 DEF ZonesRolled
  <2>8. default' = default
    BY <1>1 DEF figures
  <2>9. QED
    BY <1>9, <2>1, <2>2, <2>5, <2>7, <2>8
<1>12. WayInv'
  BY <1>9, <1>10, <1>11 DEF WayInv
<1>13. QED
  BY <1>2, <1>3, <1>12 DEF RolledInv

\* What the command credits is there once, and is all it credited.
LEMMA StoredCredits ==
  ASSUME TypesInv, run.pc = "accounts", NEW m \in Year, m = run.year
  PROVE  LET own == OwnCredits(m + 1, m)
             rows == Renewed(credit[m + 1], own, run.results)
             now == {row \in DOMAIN rows : row.origin = "carried_forward" /\ row.source = m}
         IN /\ now = run.results /\ \A row \in now : rows[row] = 1
            /\ \A s : s # m =>
                 LET kept == {row \in DOMAIN credit[m + 1] :
                                row.origin = "carried_forward" /\ row.source = s}
                 IN /\ kept = {row \in DOMAIN rows :
                                 row.origin = "carried_forward" /\ row.source = s}
                    /\ \A row \in kept : rows[row] = credit[m + 1][row]
<1> DEFINE B == credit[m + 1]
           own == OwnCredits(m + 1, m)
           rows == Renewed(B, own, run.results)
<1>1. /\ run \in AccountsRun /\ IsFiniteSet(run.results) /\ run.results \subseteq CarriedCredit
      /\ \A r \in run.results : r.source = m
  BY CommandAt DEF TypesInv, CommandInv, AccountsRun
<1>2. \A r \in run.results : r.origin = "carried_forward"
  BY <1>1 DEF CarriedCredit
<1>3. IsABag(B) /\ IsFiniteSet(DOMAIN B)
  BY NextYear DEF TypesInv, BooksInv
<1>4. own = {row \in DOMAIN B : row.origin = "carried_forward" /\ row.source = m}
  BY DEF OwnCredits
<1> HIDE DEF B, own
<1>5. Renews(rows, B, own, run.results)
  BY <1>1, <1>3, PutInstead
<1> HIDE DEF rows
<1>6. /\ DOMAIN rows = (DOMAIN B \ own) \cup run.results
      /\ \A x \in (DOMAIN B \ own) \ run.results : rows[x] = B[x]
      /\ \A x \in run.results \ (DOMAIN B \ own) : rows[x] = 1
  BY <1>5 DEF Renews
<1>7. /\ {row \in DOMAIN rows : row.origin = "carried_forward" /\ row.source = m} = run.results
      /\ \A row \in run.results : rows[row] = 1
  BY <1>1, <1>2, <1>4, <1>6
<1>8. ASSUME NEW s, s # m
      PROVE  LET kept == {row \in DOMAIN B : row.origin = "carried_forward" /\ row.source = s}
             IN /\ {row \in DOMAIN rows : row.origin = "carried_forward" /\ row.source = s} = kept
                /\ \A row \in kept : rows[row] = B[row]
  BY <1>1, <1>4, <1>6, <1>8
<1>9. QED
  BY <1>7, <1>8 DEF B, own, rows

\* It replaces the next year's credits.
LEMMA StoreAccountsKeeps == ASSUME TypesInv, RolledInv, StoreAccounts PROVE RolledInv'
<1> DEFINE next == run.year + 1
           own == OwnCredits(next, run.year)
           rows == Without(credit[next], own) (+) SetToBag(run.results)
<1>1. /\ run.pc = "accounts" /\ run.todo = {} /\ run' = Idle /\ WayInv'
      /\ UNCHANGED <<figures, book>>
  BY IdleWay DEF StoreAccounts
<1>2. /\ UNCHANGED <<plan, charged, loose, horizon, default>>
      /\ \A y : OwnRows(y)' = OwnRows(y)
  BY <1>1 DEF figures, OwnRows
<1>3. FirstInv' /\ fresh \subseteq Year /\ run # Idle /\ run.year \in Year
  <2>1. FirstInv' /\ fresh \subseteq Year
    BY <1>2 DEF RolledInv, FirstInv, TypesInv, FiguresInv
  <2>2. run # Idle /\ run.year \in Year
    BY <1>1, CommandAt DEF TypesInv, Idle
  <2>3. QED
    BY <2>1, <2>2
<1>4. CASE UNCHANGED <<credit, fresh>>
  <2>1. (\A y \in Year : Rests(y))
    BY <1>1, <1>4, AllRests
  <2>2. FreshInv'
    BY <1>3, <1>4, <2>1, KeepsFresh DEF RolledInv
  <2>3. QED
    BY <1>1, <1>3, <2>2 DEF RolledInv
<1>5. CASE /\ credit' = [credit EXCEPT ![next] = rows]
           /\ fresh' = (IF run.clean THEN fresh \cup {run.year} ELSE fresh)
                         \ (IF rows = credit[next] THEN {} ELSE {next})
  <2>1. PICK m \in Year : m = run.year
    BY <1>3
  <2>2. /\ next = m + 1 /\ next \in AnyYear /\ next # m
        /\ \A y \in Year : y \in AnyYear /\ y + 1 \in AnyYear /\ (y + 1 = next => y = m)
    BY <2>1, ConstantsAssumption DEF Year, AnyYear
  <2>3. credit = [y \in AnyYear |-> credit[y]]
    BY DEF TypesInv, BooksInv
  <2>4. rows = Renewed(credit[m + 1], OwnCredits(m + 1, m), run.results)
    BY <2>1 DEF Renewed
  <2> HIDE DEF next, own, rows
  <2>5. /\ \A y \in AnyYear \ {next} : credit'[y] = credit[y]
        /\ credit'[next] = rows /\ (rows = credit[next] => credit' = credit)
    BY <1>5, <2>2, <2>3
  <2>6. \A y \in fresh' : /\ y \in Year /\ (y \in fresh \/ (y = m /\ run.clean))
                          /\ y # next \/ rows = credit[next]
    BY <1>3, <1>5, <2>1
  <2>7. \A y \in fresh' : Still(y)
    BY <1>2, <2>2, <2>5, <2>6 DEF Still
  <2>8. /\ OwnCredits(m + 1, m)' = run.results
        /\ \A row \in run.results : credit'[m + 1][row] = 1
        /\ \A s : s # m =>
             /\ OwnCredits(m + 1, s)' = OwnCredits(m + 1, s)
             /\ \A row \in OwnCredits(m + 1, s) : credit'[m + 1][row] = credit[m + 1][row]
    <3>1. credit'[m + 1] = Renewed(credit[m + 1], OwnCredits(m + 1, m), run.results)
      BY <2>2, <2>4, <2>5
    <3>2. \A s : /\ OwnCredits(m + 1, s) = {row \in DOMAIN credit[m + 1] :
                                               row.origin = "carried_forward" /\ row.source = s}
                 /\ OwnCredits(m + 1, s)' = {row \in DOMAIN credit'[m + 1] :
                                               row.origin = "carried_forward" /\ row.source = s}
      BY DEF OwnCredits
    <3> DEFINE R == Renewed(credit[m + 1], OwnCredits(m + 1, m), run.results)
               Of(B, s) == {row \in DOMAIN B : row.origin = "carried_forward" /\ row.source = s}
    <3>3. /\ Of(R, m) = run.results /\ \A row \in run.results : R[row] = 1
          /\ \A s : s # m => /\ Of(R, s) = Of(credit[m + 1], s)
                             /\ \A row \in Of(credit[m + 1], s) : R[row] = credit[m + 1][row]
      BY <1>1, <2>1, StoredCredits
    <3>4. credit'[m + 1] = R
      BY <3>1
    <3> HIDE DEF R
    <3>5. \A s : OwnCredits(m + 1, s)' = Of(R, s) /\ OwnCredits(m + 1, s) = Of(credit[m + 1], s)
      BY <3>2, <3>4
    <3> HIDE DEF Of
    <3>6. OwnCredits(m + 1, m)' = run.results /\ \A row \in run.results : credit'[m + 1][row] = 1
      BY <3>3, <3>4, <3>5
    <3>7. ASSUME NEW s, s # m
          PROVE  /\ OwnCredits(m + 1, s)' = OwnCredits(m + 1, s)
                 /\ \A row \in OwnCredits(m + 1, s) : credit'[m + 1][row] = credit[m + 1][row]
      BY <3>3, <3>4, <3>5, <3>7
    <3>8. QED
      BY <3>6, <3>7
  <2>9. \A y \in Year : \A s : y + 1 # next =>
             /\ OwnCredits(y + 1, s)' = OwnCredits(y + 1, s)
             /\ \A row \in OwnCredits(y + 1, s) : credit'[y + 1][row] = credit[y + 1][row]
    BY <2>2, <2>5 DEF OwnCredits
  <2>10. FreshInv'
    <3> SUFFICES ASSUME NEW y \in fresh' PROVE ZonesRolled(y)' /\ AccountsRolled(y)'
      BY DEF FreshInv
    <3>1. y \in Year /\ Still(y)
      BY <2>6, <2>7
    <3>2. CASE y = m
      <4>1. run.clean
        BY <1>3, <2>1, <2>6, <3>2 DEF RolledInv, WayInv
      <4>2. ZonesRolled(m) /\ run.results = AccountRows(m, Account)
        <5>1. ZonesRolled(run.year) /\ run.results = AccountRows(run.year, Account \ run.todo)
          BY <1>1, <1>3, <4>1 DEF RolledInv, WayInv
        <5>2. Account \ run.todo = Account
          BY <1>1
        <5>3. QED
          BY <2>1, <5>1, <5>2
      <4>3. ZonesRolled(y)'
        BY <1>2, <3>1, <3>2, <4>2, StillZones DEF ZonesRolled
      <4>4. AccountsRolled(y)'
        <5>1. AccountRows(y, Account)' = AccountRows(y, Account)
          BY <3>1, StillAccounts
        <5>2. QED
          BY <2>8, <3>2, <4>2, <5>1 DEF AccountsRolled
      <4>5. QED
        BY <4>3, <4>4
    <3>3. CASE y # m
      <4>1. y \in fresh /\ ZonesRolled(y) /\ AccountsRolled(y)
        BY <2>6, <3>3 DEF RolledInv, FreshInv
      <4>2. y + 1 # next
        BY <2>2, <3>1, <3>3
      <4>3. Rests(y)
        BY <1>2, <2>9, <3>1, <4>2 DEF Rests
      <4>4. QED
        BY <3>1, <4>1, <4>3, RestsRolled
    <3>4. QED
      BY <3>2, <3>3
  <2>11. QED
    BY <1>1, <1>3, <2>10 DEF RolledInv
<1>6. QED
  BY <1>4, <1>5 DEF StoreAccounts

\* It dies.
LEMMA DieKeeps == ASSUME TypesInv, RolledInv, Die PROVE RolledInv'
<1>1. UNCHANGED <<figures, book, credit, fresh>> /\ run' = Idle
  BY DEF Die
<1>2. (\A y \in Year : Rests(y)) /\ FirstInv' /\ fresh \subseteq Year
  BY <1>1, AllRests DEF RolledInv, TypesInv, FiguresInv
<1>3. FreshInv'
  BY <1>1, <1>2, KeepsFresh DEF RolledInv
<1>4. QED
  BY <1>1, <1>2, <1>3, IdleWay DEF RolledInv

\* Every step keeps what was rolled.
LEMMA RolledStep == ASSUME TypesInv, RolledInv, [Next]_vars PROVE RolledInv'
<1>1. CASE Office
  <2>1. ASSUME NEW y \in Year, Toggle(y) PROVE RolledInv'
    BY <2>1, NothingKeeps DEF Toggle
  <2>2. QED
    BY <1>1, <2>1, SetsFiguresKeeps, DepositKeeps, CreditKeeps DEF Office, SetsFigures
<1>2. CASE UNCHANGED vars
  BY <1>2, NothingKeeps DEF vars, figures
<1>3. QED
  BY <1>1, <1>2, BeginKeeps, ReadZoneKeeps, StoreZonesKeeps, BeginAccountsKeeps,
     ReadAccountKeeps, StoreAccountsKeeps, DieKeeps DEF Next

\* At first nothing is rolled.
LEMMA RolledStart == ASSUME Init PROVE RolledInv
<1>1. FreshInv /\ WayInv
  BY DEF Init, FreshInv, WayInv
<1>2. FirstInv
  <2>1. 1 \in AnyYear
    BY ConstantsAssumption DEF AnyYear
  <2>2. book[1] = {}
    BY <2>1 DEF Init
  <2>3. QED
    BY <2>2 DEF FirstInv, OwnRows
<1>3. QED
  BY <1>1, <1>2 DEF RolledInv

\* The figures, the books and what was rolled agree in every state.
LEMMA RolledAlways == Spec => [](TypesInv /\ RolledInv)
<1>1. Init => TypesInv /\ RolledInv
  BY TypesStart, RolledStart
<1>2. TypesInv /\ RolledInv /\ [Next]_vars => (TypesInv /\ RolledInv)'
  BY TypesStep, RolledStep
<1>3. QED
  BY <1>1, <1>2, PTL DEF Spec

-----------------------------------------------------------------------------
(* Rolling again *)

\* A bag in which some members, there once each, are left out and put in again.
LEMMA RenewedSame ==
  ASSUME NEW B, IsABag(B), NEW own, own \subseteq DOMAIN B, \A x \in own : B[x] = 1
  PROVE  Renewed(B, own, own) = B
<1> DEFINE W == Without(B, own)
           N == SetToBag(own)
           C == Renewed(B, own, own)
<1>1. DOMAIN W = DOMAIN B \ own /\ \A x \in DOMAIN W : W[x] = B[x]
  BY DEF Without
<1>2. DOMAIN N = own /\ \A x \in own : N[x] = 1
  BY DEF SetToBag
<1>3. C = [x \in DOMAIN W \cup DOMAIN N |-> (IF x \in DOMAIN W THEN W[x] ELSE 0)
                                             + (IF x \in DOMAIN N THEN N[x] ELSE 0)]
  BY DEF Renewed, (+)
<1>4. (\A x \in DOMAIN B : B[x] \in Nat) /\ B = [x \in DOMAIN B |-> B[x]]
  BY DEF IsABag
<1> HIDE DEF W, N, C
<1>5. DOMAIN W \cup DOMAIN N = DOMAIN B
  BY <1>1, <1>2
<1>6. \A x \in DOMAIN B : (IF x \in DOMAIN W THEN W[x] ELSE 0)
                            + (IF x \in DOMAIN N THEN N[x] ELSE 0) = B[x]
  BY <1>1, <1>2, <1>4
<1>7. C = [x \in DOMAIN B |-> B[x]]
  BY <1>3, <1>5, <1>6
<1>8. QED
  BY <1>4, <1>7 DEF C

\* A step of the command, on figures it has rolled, leaves the books as they were.
LEMMA RerollStep ==
  ASSUME TypesInv, RolledInv, [Next]_vars,
         run # Idle, run.clean, run.year \in fresh, run'.pc # run.pc
  PROVE  book' = book /\ credit' = credit
<1>1. run.year \in Year /\ ZonesRolled(run.year) /\ AccountsRolled(run.year)
  BY DEF RolledInv, FreshInv, TypesInv, FiguresInv
<1>2. CASE StoreZones
  <2> DEFINE next == run.year + 1
             rows == Replaced(book[next], OwnRows(next), CarriedRows(default))
  <2>1. run.pc = "zones" /\ run.todo = {}
    BY <1>2 DEF StoreZones
  <2>2. CarriedRows(default) = OwnRows(next)
    BY <1>1, <2>1, CleanRows DEF RolledInv, ZonesRolled
  <2>3. rows = book[next]
    BY <2>2 DEF Replaced, OwnRows
  <2>4. book' = book \/ book' = [book EXCEPT ![next] = rows]
    BY <1>2 DEF StoreZones
  <2>5. book \in [AnyYear -> SUBSET BookRow]
    BY DEF TypesInv, BooksInv
  <2> HIDE DEF rows
  <2>6. book' = book
    BY <2>3, <2>4, <2>5
  <2>7. QED
    BY <1>2, <2>6 DEF StoreZones
<1>3. CASE StoreAccounts
  <2> DEFINE next == run.year + 1
             own == OwnCredits(next, run.year)
             rows == Without(credit[next], own) (+) SetToBag(run.results)
  <2>1. run.pc = "accounts" /\ run.todo = {} /\ book' = book
    BY <1>3 DEF StoreAccounts
  <2>2. run.results = own
    <3>1. run.results = AccountRows(run.year, Account \ run.todo)
      BY <2>1 DEF RolledInv, WayInv
    <3>2. Account \ run.todo = Account
      BY <2>1
    <3>3. QED
      BY <1>1, <3>1, <3>2 DEF AccountsRolled
  <2>3. own \subseteq DOMAIN credit[next] /\ \A x \in own : credit[next][x] = 1
    BY <1>1 DEF AccountsRolled, OwnCredits
  <2>4. IsABag(credit[next]) /\ credit = [y \in AnyYear |-> credit[y]]
    BY <1>1, NextYear DEF TypesInv, BooksInv
  <2>5. rows = Renewed(credit[next], own, own)
    BY <2>2 DEF Renewed
  <2>6. credit' = credit \/ credit' = [credit EXCEPT ![next] = rows]
    BY <1>3 DEF StoreAccounts
  <2> HIDE DEF own, rows
  <2>7. rows = credit[next]
    BY <2>3, <2>4, <2>5, RenewedSame
  <2>8. credit' = credit
    BY <2>4, <2>6, <2>7
  <2>9. QED
    BY <2>1, <2>8
<1>4. CASE Office
  <2>1. \A years : Change(years) => run'.pc = run.pc
    BY ChangeIs
  <2>2. \A y : Toggle(y) => run'.pc = run.pc
    BY DEF Toggle
  <2>3. QED
    BY <1>4, <2>1, <2>2 DEF Office, SetPlan, Charge, ChargeLoose, SetHorizon, SetDefault,
                            DepositToPool, CreditAccount
<1>5. CASE UNCHANGED vars
  BY <1>5 DEF vars
<1>6. QED
  BY <1>2, <1>3, <1>4, <1>5 DEF Next, Begin, ReadZone, BeginAccounts, ReadAccount, Die

\* Rolling a year once more, on figures none of which was changed since, leaves
\* every row of the next year as it was: nothing is banked twice, whatever runs
\* died before and whatever was deposited, credited or finalized in between
\* (_replace_carryover_rows, _replace_account_rows).
THEOREM RollingAgainChangesNothing == Spec => RerollChangesNothing
<1>1. TypesInv /\ RolledInv /\ [Next]_vars =>
        [run # Idle /\ run.clean /\ run.year \in fresh /\ run'.pc # run.pc
           => book' = book /\ credit' = credit]_vars
  BY RerollStep
<1>2. QED
  BY <1>1, RolledAlways, PTL DEF Spec, RerollChangesNothing

-----------------------------------------------------------------------------
(* Years that follow each other *)

\* What the years first .. n add up to.
Stretch(e, first, n) == Total([i \in first .. n |-> e[i]], first .. n)

\* A stretch without a year is nothing, and a year more adds what it leaves.
LEMMA StretchGrows ==
  ASSUME NEW last \in Nat, NEW e, \A i \in 1 .. last : e[i] \in Int,
         NEW first \in 1 .. last + 1, NEW n \in 0 .. last
  PROVE  /\ Stretch(e, first, n) \in Int
         /\ n < first => Stretch(e, first, n) = 0
         /\ first <= n => Stretch(e, first, n) = Stretch(e, first, n - 1) + e[n]
<1> DEFINE f == [i \in first .. n |-> e[i]]
           g == [i \in first .. n - 1 |-> e[i]]
<1>1. IsFiniteSet(first .. n) /\ IsFiniteSet(first .. n - 1)
  BY FS_Interval
<1>2. \A i \in first .. n : f[i] \in Int /\ f[i] = e[i]
  OBVIOUS
<1>3. Stretch(e, first, n) \in Int
  <2> HIDE DEF f
  <2>1. Total(f, first .. n) \in Int
    BY <1>1, <1>2, TotalIsInt
  <2>2. QED
    BY <2>1 DEF Stretch, f
<1>4. ASSUME n < first PROVE Stretch(e, first, n) = 0
  <2>1. first .. n = {}
    BY <1>4
  <2> HIDE DEF f
  <2>2. Total(f, first .. n) = 0
    BY <1>1, <2>1, TotalOfFirst
  <2>3. QED
    BY <2>2 DEF Stretch, f
<1>5. ASSUME first <= n PROVE Stretch(e, first, n) = Stretch(e, first, n - 1) + e[n]
  <2>1. n \in first .. n /\ (first .. n) \ {n} = first .. n - 1
    BY <1>5
  <2>2. Alike(first .. n - 1, f, g)
    BY DEF Alike
  <2> HIDE DEF f, g
  <2>3. Total(f, first .. n) = f[n] + Total(f, first .. n - 1)
    BY <1>1, <1>2, <2>1, TotalWithout
  <2>4. Total(f, first .. n - 1) = Total(g, first .. n - 1)
    BY <1>1, <2>2, TotalAlike
  <2>5. Total(f, first .. n - 1) \in Int
    <3>1. \A i \in first .. n - 1 : f[i] \in Int
      BY <1>2
    <3>2. QED
      BY <1>1, <3>1, TotalIsInt
  <2>6. f[n] = e[n] /\ e[n] \in Int
    BY <1>2, <2>1
  <2>7. Stretch(e, first, n) = Total(f, first .. n)
        /\ Stretch(e, first, n - 1) = Total(g, first .. n - 1)
    BY DEF Stretch, f, g
  <2>8. QED
    BY <2>3, <2>4, <2>5, <2>6, <2>7
<1>6. QED
  BY <1>3, <1>4, <1>5

\* Where everything is carried on, a year opens with all the years before it left.
LEMMA AllIsCarried ==
  ASSUME NEW last \in Nat, NEW e, \A i \in 1 .. last : e[i] \in Int,
         NEW c, c[1] = 0, \A n \in 1 .. last : c[n + 1] = c[n] + e[n]
  PROVE  \A n \in 0 .. last : c[n + 1] = Stretch(e, 1, n)
<1> DEFINE Bad == {n \in 0 .. last : c[n + 1] # Stretch(e, 1, n)}
<1>1. 1 \in 1 .. last + 1
  OBVIOUS
<1>2. \A n \in 0 .. last : /\ Stretch(e, 1, n) \in Int
                           /\ n < 1 => Stretch(e, 1, n) = 0
                           /\ 1 <= n => Stretch(e, 1, n) = Stretch(e, 1, n - 1) + e[n]
  BY <1>1, StretchGrows
<1>3. ASSUME NEW m \in Bad, \A n \in Bad : m <= n PROVE FALSE
  <2>1. CASE m = 0
    BY <1>2, <2>1
  <2>2. CASE m # 0
    <3>1. m \in 1 .. last /\ m - 1 \in 0 .. last /\ m - 1 \notin Bad /\ (m - 1) + 1 = m
      BY <1>3, <2>2
    <3>2. c[m] = Stretch(e, 1, m - 1)
      BY <3>1
    <3>3. c[m + 1] = Stretch(e, 1, m)
      BY <1>2, <3>1, <3>2
    <3>4. QED
      BY <3>3
  <2>3. QED
    BY <2>1, <2>2
<1>4. Bad \subseteq Nat
  OBVIOUS
<1> HIDE DEF Bad
<1>5. Bad = {}
  BY <1>3, <1>4, LeastOfNats
<1>6. QED
  BY <1>5 DEF Bad

\* The debts that no later year up to n has worked off, and no debt.
DebtsAt(e, n) == {0} \cup {Stretch(e, first, n) : first \in 1 .. n}

\* Where a surplus expires, it opens with the deepest debt not worked off.
LEMMA DebtIsCarried ==
  ASSUME NEW last \in Nat, NEW e, \A i \in 1 .. last : e[i] \in Int,
         NEW c, c[1] = 0,
         \A n \in 1 .. last : c[n + 1] = IF c[n] + e[n] <= 0 THEN c[n] + e[n] ELSE 0
  PROVE  \A n \in 0 .. last : c[n + 1] \in DebtsAt(e, n) /\ \A d \in DebtsAt(e, n) : c[n + 1] <= d
<1> DEFINE Debts(n) == {0} \cup {Stretch(e, first, n) : first \in 1 .. n}
           Holds(n) == c[n + 1] \in Debts(n) /\ \A d \in Debts(n) : c[n + 1] <= d
           Bad == {n \in 0 .. last : ~Holds(n)}
<1>1. \A n \in 0 .. last, first \in 1 .. last + 1 :
        /\ Stretch(e, first, n) \in Int
        /\ n < first => Stretch(e, first, n) = 0
        /\ first <= n => Stretch(e, first, n) = Stretch(e, first, n - 1) + e[n]
  BY StretchGrows
<1>2. ASSUME NEW m \in Bad, \A n \in Bad : m <= n PROVE FALSE
  <2>1. CASE m = 0
    <3>1. Debts(0) = {0}
      OBVIOUS
    <3>2. QED
      BY <2>1, <3>1
  <2>2. CASE m # 0
    <3>1. m \in 1 .. last /\ m - 1 \in 0 .. last /\ m - 1 \notin Bad /\ (m - 1) + 1 = m
      <4>1. m \in 1 .. last /\ m - 1 \in 0 .. last /\ (m - 1) + 1 = m
        BY <2>2
      <4> HIDE DEF Bad
      <4>2. QED
        BY <1>2, <4>1
    <3>2. c[m] \in Debts(m - 1) /\ \A d \in Debts(m - 1) : c[m] <= d
      BY <3>1
    <3>3. \A first \in 1 .. m : Stretch(e, first, m) = Stretch(e, first, m - 1) + e[m]
      BY <1>1, <3>1
    <3>4. Stretch(e, m, m - 1) = 0
      BY <1>1, <3>1
    <3>5. \A first \in 1 .. m : Stretch(e, first, m - 1) \in Debts(m - 1)
      <4> SUFFICES ASSUME NEW first \in 1 .. m PROVE Stretch(e, first, m - 1) \in Debts(m - 1)
        OBVIOUS
      <4>1. CASE first = m
        BY <3>4, <4>1
      <4>2. CASE first # m
        BY <3>1, <4>2
      <4>3. QED
        BY <4>1, <4>2
    <3>6. \A d \in Debts(m - 1) : d \in Int /\ \E first \in 1 .. m : d = Stretch(e, first, m - 1)
      <4> SUFFICES ASSUME NEW d \in Debts(m - 1)
                   PROVE  d \in Int /\ \E first \in 1 .. m : d = Stretch(e, first, m - 1)
        OBVIOUS
      <4>1. CASE d = 0
        BY <3>1, <3>4, <4>1
      <4>2. ASSUME NEW first \in 1 .. m - 1, d = Stretch(e, first, m - 1)
            PROVE  d \in Int /\ \E x \in 1 .. m : d = Stretch(e, x, m - 1)
        <5>1. first \in 1 .. m /\ first \in 1 .. last + 1
          BY <3>1
        <5>2. QED
          BY <1>1, <3>1, <4>2, <5>1
      <4>3. QED
        BY <4>1, <4>2
    <3>7. e[m] \in Int /\ c[m] \in Int
      BY <3>1, <3>2, <3>6
    <3>8. c[m + 1] = IF c[m] + e[m] <= 0 THEN c[m] + e[m] ELSE 0
      BY <3>1
    <3>9. c[m] + e[m] \in Debts(m)
      <4>1. PICK first \in 1 .. m : c[m] = Stretch(e, first, m - 1)
        BY <3>2, <3>6
      <4>2. c[m] + e[m] = Stretch(e, first, m)
        BY <3>3, <4>1
      <4>3. QED
        BY <4>2
    <3>10. \A d \in Debts(m) : c[m + 1] <= d
      <4> SUFFICES ASSUME NEW d \in Debts(m) PROVE c[m + 1] <= d
        OBVIOUS
      <4>1. CASE d = 0
        BY <3>7, <3>8, <4>1
      <4>2. ASSUME NEW first \in 1 .. m, d = Stretch(e, first, m) PROVE c[m + 1] <= d
        <5>1. c[m] <= Stretch(e, first, m - 1) /\ Stretch(e, first, m - 1) \in Int
          BY <3>2, <3>5, <3>6
        <5>2. d = Stretch(e, first, m - 1) + e[m]
          BY <3>3, <4>2
        <5>3. c[m] + e[m] <= d
          BY <3>7, <5>1, <5>2
        <5>4. d \in Int
          BY <3>7, <5>1, <5>2
        <5>5. QED
          BY <3>7, <3>8, <5>3, <5>4
      <4>3. QED
        BY <4>1, <4>2
    <3>11. c[m + 1] \in Debts(m)
      BY <3>8, <3>9
    <3>12. QED
      BY <3>10, <3>11
  <2>3. QED
    BY <2>1, <2>2
<1>3. Bad \subseteq Nat
  OBVIOUS
<1> HIDE DEF Bad
<1>4. Bad = {}
  BY <1>2, <1>3, LeastOfNats
<1>5. QED
  BY <1>4 DEF Bad, DebtsAt

-----------------------------------------------------------------------------
(* What a year opens with *)

\* No rows amount to nothing, and one row to its amount.
LEMMA FewAmounts == Amounts({}) = 0 /\ \A r : r.amount \in Int => Amounts({r}) = r.amount
<1>1. Amounts({}) = 0
  <2> DEFINE f == [row \in {} |-> row.amount]
  <2>1. IsFiniteSet({}) /\ Amounts({}) = Total(f, {})
    BY FS_EmptySet, AmountsIsTotal
  <2> HIDE DEF f
  <2>2. QED
    BY <2>1, TotalOfFirst
<1>2. ASSUME NEW r, r.amount \in Int PROVE Amounts({r}) = r.amount
  <2> DEFINE f == [row \in {r} |-> row.amount]
  <2>1. IsFiniteSet({r}) /\ IsFiniteSet({}) /\ Amounts({r}) = Total(f, {r}) /\ f[r] = r.amount
    BY FS_EmptySet, FS_Singleton, AmountsIsTotal
  <2> HIDE DEF f
  <2>2. One({r}) = r
    BY OneIsIn
  <2>3. Total(f, {r}) = f[r] + Total(f, {r} \ {r})
    BY <2>1, <2>2, TotalOfFirst
  <2>4. Total(f, {r} \ {r}) = 0
    BY <2>1, TotalOfFirst
  <2>5. QED
    BY <1>2, <2>1, <2>3, <2>4
<1>3. QED
  BY <1>1, <1>2

\* A rolled year carries what it leaves, except a surplus that expires.
LEMMA CarriedNext ==
  ASSUME TypesInv, RolledInv, NEW y \in fresh, NEW z \in Planned(y)
  PROVE  CarriedIn(z, y + 1)
           = IF Carried(z, y) THEN ZoneNet(z, y, plan[<<z, y>>]) ELSE 0
<1> DEFINE R == {row \in book[y + 1] : row.zone = z /\ row.origin = "allocation_carryover"}
<1>1. y \in Year /\ z \in Zone /\ plan[<<z, y>>] \in Int
  <2>1. y \in Year /\ z \in Zone
    BY DEF TypesInv, FiguresInv, Planned
  <2>2. plan[<<z, y>>] \in Budgets
    BY <2>1 DEF TypesInv, FiguresInv, Planned
  <2>3. Budgets \subseteq Int
    BY ConstantsAssumption
  <2>4. QED
    BY <2>1, <2>2, <2>3
<1>2. ZoneNet(z, y, plan[<<z, y>>]) \in Int
  BY <1>1, ZoneNetIsInt DEF TypesInv
<1>3. R = {row \in ZoneRows(y) : row.zone = z}
  <2>1. OwnRows(y + 1) = ZoneRows(y)
    BY DEF RolledInv, FreshInv, ZonesRolled
  <2>2. R = {row \in OwnRows(y + 1) : row.zone = z}
    BY DEF OwnRows
  <2>3. QED
    BY <2>1, <2>2
<1>4. R = IF Carried(z, y) THEN {ZoneRow(z, y)} ELSE {}
  <2>1. \A x : ZoneRow(x, y).zone = x
    BY DEF ZoneRow
  <2>2. QED
    BY <1>3, <2>1 DEF ZoneRows
<1>5. CarriedIn(z, y + 1) = Amounts(R)
  BY SumsAreOfFigures DEF SumsOfFigures
<1>6. ZoneRow(z, y).amount = ZoneNet(z, y, plan[<<z, y>>])
  BY DEF ZoneRow
<1> HIDE DEF R
<1>7. QED
  BY <1>2, <1>4, <1>5, <1>6, FewAmounts

\* A zone with a plan in every year up to y opens the next with its standing.
LEMMA OpensWithStanding ==
  ASSUME TypesInv, RolledInv, NEW y \in Year, NEW z \in Zone, RolledUpTo(y),
         \A i \in 1 .. y : plan[<<z, i>>] # Nothing
  PROVE  CarriedIn(z, y + 1) = Standing(z, y)
<1> DEFINE e == [i \in 1 .. y |-> plan[<<z, i>>] - UsageOf(z, i)]
           c == [n \in 1 .. y + 1 |-> CarriedIn(z, n)]
<1>1. /\ y \in Nat /\ 1 <= y
      /\ \A i \in 1 .. y : i \in Year /\ i \in fresh /\ z \in Planned(i)
  BY ConstantsAssumption DEF Year, RolledUpTo, Planned
<1>2. \A i \in 1 .. y : /\ plan[<<z, i>>] \in Int /\ UsageOf(z, i) \in Int
                        /\ CarriedIn(z, i) \in Int
  <2>1. \A i \in 1 .. y : plan[<<z, i>>] \in Budgets
    BY <1>1 DEF TypesInv, FiguresInv, Planned
  <2>2. Budgets \subseteq Int
    BY ConstantsAssumption
  <2>3. QED
    BY <1>1, <2>1, <2>2, ZoneNetIsInt DEF TypesInv
<1>3. \A i \in 1 .. y : e[i] \in Int
  BY <1>2
<1>4. c[1] = 0
  <2>1. {row \in book[1] : row.zone = z /\ row.origin = "allocation_carryover"} = {}
    BY DEF RolledInv, FirstInv, OwnRows
  <2>2. CarriedIn(z, 1) = Amounts({})
    BY <2>1, SumsAreOfFigures DEF SumsOfFigures
  <2>3. QED
    BY <1>1, <2>2, FewAmounts
<1>5. \A n \in 1 .. y : c[n + 1] = IF Carried(z, n) THEN c[n] + e[n] ELSE 0
  <2> SUFFICES ASSUME NEW n \in 1 .. y
               PROVE  c[n + 1] = IF Carried(z, n) THEN c[n] + e[n] ELSE 0
    OBVIOUS
  <2>1. /\ n \in 1 .. y + 1 /\ n + 1 \in 1 .. y + 1
        /\ c[n] = CarriedIn(z, n) /\ c[n + 1] = CarriedIn(z, n + 1)
    BY <1>1
  <2>2. CarriedIn(z, n + 1) = IF Carried(z, n) THEN ZoneNet(z, n, plan[<<z, n>>]) ELSE 0
    BY <1>1, CarriedNext
  <2>3. ZoneNet(z, n, plan[<<z, n>>]) = c[n] + e[n]
    BY <1>2, <2>1 DEF ZoneNet
  <2>4. QED
    BY <2>1, <2>2, <2>3
<1>6. \A first \in 1 .. y, n \in 1 .. y : LeftBetween(z, first, n) = Stretch(e, first, n)
  <2> SUFFICES ASSUME NEW first \in 1 .. y, NEW n \in 1 .. y
               PROVE  LeftBetween(z, first, n) = Stretch(e, first, n)
    OBVIOUS
  <2> DEFINE f == [i \in first .. n |-> (plan[<<z, i>>] - UsageOf(z, i))]
             g == [i \in first .. n |-> e[i]]
  <2>1. IsFiniteSet(first .. n)
    BY FS_Interval
  <2>2. LeftBetween(z, first, n) = LeftOf(z, first .. n)
    BY DEF LeftBetween, LeftOf
  <2>3. LeftOf(z, first .. n) = Total(f, first .. n)
    BY <2>1, LeftIsTotal
  <2>4. f = g
    BY <1>1
  <2> HIDE DEF f
  <2>5. QED
    BY <2>2, <2>3, <2>4 DEF Stretch
<1>7. \A n \in 1 .. y : Carried(z, n) <=>
        RecoveryHorizon(z) # "same_water_year" \/ ZoneNet(z, n, plan[<<z, n>>]) <= 0
  BY DEF Carried
<1>8. \A n \in 1 .. y : ZoneNet(z, n, plan[<<z, n>>]) = c[n] + e[n]
  BY <1>1, <1>2 DEF ZoneNet
<1>9. RecoveryHorizon(z) \in Horizon
  BY DEF TypesInv, FiguresInv, RecoveryHorizon
<1>10. c[y + 1] = CarriedIn(z, y + 1)
  BY <1>1
<1> HIDE DEF e, c
<1>11. CASE RecoveryHorizon(z) = "carry_forward"
  <2>1. \A n \in 1 .. y : c[n + 1] = c[n] + e[n]
    BY <1>5, <1>7, <1>11
  <2>2. \A n \in 0 .. y : c[n + 1] = Stretch(e, 1, n)
    BY <1>1, <1>3, <1>4, <2>1, AllIsCarried
  <2>3. QED
    BY <1>1, <1>6, <1>10, <1>11, <2>2 DEF Standing
<1>12. CASE RecoveryHorizon(z) = "same_water_year"
  <2> DEFINE Debts == {0} \cup {Stretch(e, first, y) : first \in 1 .. y}
  <2>1. \A n \in 1 .. y : c[n + 1] = IF c[n] + e[n] <= 0 THEN c[n] + e[n] ELSE 0
    BY <1>5, <1>7, <1>8, <1>12
  <2>2. c[y + 1] \in Debts /\ \A d \in Debts : c[y + 1] <= d
    <3>1. \A n \in 0 .. y : /\ c[n + 1] \in DebtsAt(e, n)
                           /\ \A d \in DebtsAt(e, n) : c[n + 1] <= d
      BY <1>1, <1>3, <1>4, <2>1, DebtIsCarried
    <3>2. y \in 0 .. y
      BY <1>1
    <3>3. QED
      BY <3>1, <3>2 DEF DebtsAt
  <2>3. Debts \subseteq Int
    <3>1. \A first \in 1 .. y : Stretch(e, first, y) \in Int
      <4>1. \A first \in 1 .. y + 1, n \in 0 .. y : Stretch(e, first, n) \in Int
        BY <1>1, <1>3, StretchGrows
      <4>2. QED
        BY <1>1, <4>1
    <3>2. QED
      BY <3>1
  <2>4. Debts = {0} \cup {LeftBetween(z, first, y) : first \in 1 .. y}
    BY <1>1, <1>6
  <2> HIDE DEF Debts
  <2>5. Min(Debts) \in Debts /\ \A d \in Debts : Min(Debts) <= d
    BY <2>2 DEF Min
  <2>6. c[y + 1] = Min(Debts)
    <3>1. c[y + 1] <= Min(Debts) /\ Min(Debts) <= c[y + 1]
      BY <2>2, <2>5
    <3>2. c[y + 1] \in Int /\ Min(Debts) \in Int
      BY <2>2, <2>3, <2>5
    <3>3. QED
      BY <3>1, <3>2
  <2>7. Standing(z, y) = Min(Debts)
    BY <1>12, <2>4 DEF Standing
  <2>8. QED
    BY <1>10, <2>6, <2>7
<1>13. QED
  BY <1>9, <1>11, <1>12 DEF Horizon

\* Once the years up to y are rolled on the figures as they stand, in whatever
\* order and through whatever deaths and half-read changes, the next year opens
\* with the zone's standing: every surplus once, every debt in full until it is
\* worked off, no surplus that expired, and no pool of the basin (_budget_results,
\* _decide_expiring_surplus).
THEOREM CarryAlwaysStands == Spec => []CarryIsStanding
<1>1. TypesInv /\ RolledInv => CarryIsStanding
  BY OpensWithStanding DEF CarryIsStanding
<1>2. QED
  BY <1>1, RolledAlways, PTL
-----------------------------------------------------------------------------
(* Products and rounding *)

\* Multiplying up goes in one way, for a smaller set too.
LEMMA MultipliesAlike ==
  ASSUME NEW S, IsFiniteSet(S), NEW R \in SUBSET S, NEW f,
         NEW g, NEW h, Multiplies(g, SUBSET S, f), Multiplies(h, SUBSET R, f)
  PROVE  g[R] = h[R]
<1> DEFINE P == {T \in SUBSET R : g[T] = h[T]}
<1>1. \A T \in SUBSET R : /\ g[T] = IF T = {} THEN 1 ELSE f[One(T)] * g[T \ {One(T)}]
                          /\ h[T] = IF T = {} THEN 1 ELSE f[One(T)] * h[T \ {One(T)}]
  BY DEF Multiplies
<1>2. {} \in P
  BY <1>1
<1>3. \A T \in SUBSET R : T # {} /\ (\A x \in T : T \ {x} \in P) => T \in P
  <2> SUFFICES ASSUME NEW T \in SUBSET R, T # {}, T \ {One(T)} \in P PROVE T \in P
    BY OneIsIn
  <2>1. QED
    BY <1>1
<1> HIDE DEF P
<1>4. R \in P
  BY <1>2, <1>3, SetBySet, FS_Subset
<1>5. QED
  BY <1>4 DEF P

\* Nothing multiplies up to 1; else the one a product takes first is multiplied by
\* the product of the rest.
LEMMA ProductOfFirst ==
  ASSUME NEW S, IsFiniteSet(S)
  PROVE  AcresProduct(S) = IF S = {} THEN 1
                           ELSE AcresOf(FieldsIn(One(S))) * AcresProduct(S \ {One(S)})
<1> DEFINE f == [z \in S |-> AcresOf(FieldsIn(z))]
           Is(it, T) == it = [R \in SUBSET T |->
                 IF R = {} THEN 1
                 ELSE AcresOf(FieldsIn(CHOOSE z \in R : TRUE)) * it[R \ {CHOOSE z \in R : TRUE}]]
           h(T) == CHOOSE it : Is(it, T)
<1>1. \A R \in SUBSET S : IsFiniteSet(R)
  BY FS_Subset
<1>2. \A R \in SUBSET S : R # {} => f[One(R)] = AcresOf(FieldsIn(One(R)))
  BY OneIsIn
<1> HIDE DEF f
<1>3. ASSUME NEW T \in SUBSET S PROVE AcresProduct(T) = h(T)[T] /\ Multiplies(h(T), SUBSET T, f)
  <2>1. PICK k : k = [R \in SUBSET T |-> k[R]] /\ Multiplies(k, SUBSET T, f)
    BY <1>1, MultipliesIsThere
  <2>2. Is(k, T)
    <3>1. \A R \in SUBSET T :
            k[R] = IF R = {} THEN 1
                   ELSE AcresOf(FieldsIn(CHOOSE z \in R : TRUE)) * k[R \ {CHOOSE z \in R : TRUE}]
      BY <2>1, <1>2 DEF Multiplies, One
    <3>2. QED
      BY <2>1, <3>1
  <2>3. Is(h(T), T)
    BY <2>2
  <2>4. AcresProduct(T) = h(T)[T]
    BY DEF AcresProduct, MapThenFoldSet
  <2> HIDE DEF h
  <2>5. \A R \in SUBSET T :
          h(T)[R] = IF R = {} THEN 1
                    ELSE AcresOf(FieldsIn(CHOOSE z \in R : TRUE))
                           * h(T)[R \ {CHOOSE z \in R : TRUE}]
    BY <2>3
  <2>6. Multiplies(h(T), SUBSET T, f)
    BY <2>5, <1>2 DEF Multiplies, One
  <2>7. QED
    BY <2>4, <2>6
<1> HIDE DEF h
<1>4. S \in SUBSET S /\ S \ {One(S)} \in SUBSET S
  OBVIOUS
<1>5. AcresProduct(S) = IF S = {} THEN 1 ELSE f[One(S)] * h(S)[S \ {One(S)}]
  BY <1>3, <1>4 DEF Multiplies
<1>6. h(S)[S \ {One(S)}] = AcresProduct(S \ {One(S)})
  <2> DEFINE R == S \ {One(S)}
             g == h(S)
             k == h(R)
  <2>1. R \in SUBSET S /\ Multiplies(g, SUBSET S, f) /\ Multiplies(k, SUBSET R, f)
    BY <1>3, <1>4
  <2>2. AcresProduct(R) = k[R]
    BY <1>3, <1>4
  <2> HIDE DEF g, k, R
  <2>3. g[R] = k[R]
    BY <2>1, MultipliesAlike
  <2>4. QED
    BY <2>2, <2>3 DEF g, R
<1>7. QED
  BY <1>2, <1>4, <1>5, <1>6

ZoneAcres(z) == AcresOf(FieldsIn(z))
SharedAcres(a, z) == AcresOf(FieldsOf(a) \cap FieldsIn(z))

\* Any one can be multiplied by the rest: the order does not matter.
LEMMA ProductWithout ==
  ASSUME NEW A, IsFiniteSet(A), \A z \in A : ZoneAcres(z) \in Nat \ {0}
  PROVE  \A S \in SUBSET A :
           /\ AcresProduct(S) \in Nat \ {0}
           /\ \A x \in S : AcresProduct(S) = ZoneAcres(x) * AcresProduct(S \ {x})
<1>1. \A S \in SUBSET A : IsFiniteSet(S) /\ \A z \in S : ZoneAcres(z) \in Nat \ {0}
  BY FS_Subset
<1>2. \A S \in SUBSET A : AcresProduct(S) \in Nat \ {0}
  BY <1>1, ProductIsPositive DEF ZoneAcres
<1>3. \A S \in SUBSET A :
        S # {} => AcresProduct(S) = ZoneAcres(One(S)) * AcresProduct(S \ {One(S)})
  BY <1>1, ProductOfFirst DEF ZoneAcres
<1> SUFFICES ASSUME NEW T \in SUBSET A
             PROVE  \A x \in T : AcresProduct(T) = ZoneAcres(x) * AcresProduct(T \ {x})
  BY <1>2
<1> DEFINE Turns(S) == \A x \in S : AcresProduct(S) = ZoneAcres(x) * AcresProduct(S \ {x})
           P == {S \in SUBSET T : Turns(S)}
<1>4. {} \in P
  OBVIOUS
<1>5. \A S \in SUBSET T : S # {} /\ (\A x \in S : S \ {x} \in P) => S \in P
  <2> SUFFICES ASSUME NEW S \in SUBSET T, S # {}, \A x \in S : S \ {x} \in P,
                      NEW x \in S
               PROVE  AcresProduct(S) = ZoneAcres(x) * AcresProduct(S \ {x})
    OBVIOUS
  <2> DEFINE c == One(S)
             rest == (S \ {x}) \ {c}
  <2>1. c \in S /\ AcresProduct(S) = ZoneAcres(c) * AcresProduct(S \ {c})
    BY <1>3, OneIsIn
  <2>2. \A u, v \in S : u # v =>
          AcresProduct(S \ {u}) = ZoneAcres(v) * AcresProduct((S \ {u}) \ {v})
    OBVIOUS
  <2>3. CASE x = c
    BY <2>1, <2>3
  <2>4. CASE x # c
    <3>1. (S \ {c}) \ {x} = rest
      OBVIOUS
    <3> HIDE DEF c, rest
    <3>2. /\ AcresProduct(S \ {c}) = ZoneAcres(x) * AcresProduct(rest)
          /\ AcresProduct(S \ {x}) = ZoneAcres(c) * AcresProduct(rest)
      BY <2>1, <2>2, <2>4, <3>1 DEF rest
    <3>3. AcresProduct(rest) \in Int /\ ZoneAcres(x) \in Int /\ ZoneAcres(c) \in Int
      BY <1>1, <1>2, <2>1 DEF rest
    <3>4. \A u, v, w \in Int : u * (v * w) = v * (u * w)
      OBVIOUS
    <3>5. QED
      BY <2>1, <3>2, <3>3, <3>4
  <2>5. QED
    BY <2>3, <2>4
<1> HIDE DEF P
<1>6. T \in P
  BY <1>1, <1>4, <1>5, SetBySet
<1>7. QED
  BY <1>6 DEF P

\* A product is that of a part times that of what is left.
LEMMA ProductSplit ==
  ASSUME NEW A, IsFiniteSet(A), \A z \in A : ZoneAcres(z) \in Nat \ {0}, NEW R \in SUBSET A
  PROVE  AcresProduct(A) = AcresProduct(R) * AcresProduct(A \ R)
<1> DEFINE P == {S \in SUBSET R : AcresProduct(A) = AcresProduct(S) * AcresProduct(A \ S)}
<1>1. \A S \in SUBSET A : /\ AcresProduct(S) \in Int
                          /\ \A x \in S : AcresProduct(S) = ZoneAcres(x) * AcresProduct(S \ {x})
  BY ProductWithout
<1>2. {} \in P
  <2>1. AcresProduct({}) = 1 /\ A \ {} = A
    BY FS_EmptySet, ProductOfFirst
  <2>2. A \in SUBSET A
    OBVIOUS
  <2>3. QED
    BY <1>1, <2>1, <2>2
<1>3. \A S \in SUBSET R : S # {} /\ (\A x \in S : S \ {x} \in P) => S \in P
  <2> SUFFICES ASSUME NEW S \in SUBSET R, NEW x \in S, S \ {x} \in P PROVE S \in P
    OBVIOUS
  <2>1. S \in SUBSET A /\ S \ {x} \in SUBSET A /\ A \ (S \ {x}) \in SUBSET A
        /\ x \in A \ (S \ {x}) /\ (A \ (S \ {x})) \ {x} = A \ S /\ A \ S \in SUBSET A
    OBVIOUS
  <2>2. AcresProduct(A) = AcresProduct(S \ {x}) * AcresProduct(A \ (S \ {x}))
    OBVIOUS
  <2>3. AcresProduct(A \ (S \ {x})) = ZoneAcres(x) * AcresProduct(A \ S)
    BY <1>1, <2>1
  <2>4. AcresProduct(S) = ZoneAcres(x) * AcresProduct(S \ {x})
    BY <1>1, <2>1
  <2>5. AcresProduct(S \ {x}) \in Int /\ AcresProduct(A \ S) \in Int /\ ZoneAcres(x) \in Int
    BY <1>1, <2>1
  <2>6. \A u, v, w \in Int : v * (u * w) = (u * v) * w
    OBVIOUS
  <2>7. AcresProduct(A) = AcresProduct(S) * AcresProduct(A \ S)
    BY <2>2, <2>3, <2>4, <2>5, <2>6
  <2>8. QED
    BY <2>7
<1> HIDE DEF P
<1>4. R \in P
  BY <1>2, <1>3, SetBySet, FS_Subset
<1>5. QED
  BY <1>4 DEF P

\* Multiplying by a natural number keeps an order.
LEMMA TimesKeepsOrder ==
  ASSUME NEW r \in Nat, NEW u \in Int, NEW v \in Int, u <= v
  PROVE  r * u <= r * v
<1>1. r * (v - u) >= 0
  <2>1. v - u \in Nat
    OBVIOUS
  <2>2. \A m, n \in Nat : m * n \in Nat
    OBVIOUS
  <2>3. r * (v - u) \in Nat
    BY <2>1, <2>2
  <2>4. QED
    BY <2>3
<1>2. r * (v - u) = r * v - r * u
  OBVIOUS
<1>3. r * v \in Int /\ r * u \in Int
  OBVIOUS
<1>4. QED
  BY <1>1, <1>2, <1>3

\* Dividing undoes multiplying.
LEMMA TimesThenDivided ==
  ASSUME NEW d \in Nat \ {0}, NEW e \in Int
  PROVE  (d * e) \div d = e
<1> DEFINE q == (d * e) \div d
<1>1. d * e \in Int /\ q \in Int /\ d * q <= d * e /\ d * e < d * q + d
  <2>1. d * e \in Int
    OBVIOUS
  <2>2. \A n \in Int : n \div d \in Int /\ d * (n \div d) <= n /\ n < d * (n \div d) + d
    OBVIOUS
  <2>3. QED
    BY <2>1, <2>2
<1> HIDE DEF q
<1>2. ~(e + 1 <= q)
  <2> SUFFICES ASSUME e + 1 <= q PROVE FALSE
    OBVIOUS
  <2>1. d * (e + 1) <= d * q /\ d * (e + 1) = d * e + d
    BY <1>1, TimesKeepsOrder
  <2>2. d * q \in Int
    BY <1>1
  <2>3. QED
    BY <1>1, <2>1, <2>2
<1>3. ~(q + 1 <= e)
  <2> SUFFICES ASSUME q + 1 <= e PROVE FALSE
    OBVIOUS
  <2>1. d * (q + 1) <= d * e /\ d * (q + 1) = d * q + d
    BY <1>1, TimesKeepsOrder
  <2>2. d * q \in Int
    BY <1>1
  <2>3. QED
    BY <1>1, <2>1, <2>2
<1>4. q = e
  BY <1>1, <1>2, <1>3
<1>5. QED
  BY <1>4 DEF q

\* Quantizing is off by half a unit at most.
LEMMA QuantizedIsNear ==
  ASSUME NEW n \in Int, NEW d \in Nat \ {0}
  PROVE  LET off == d * Quantized(n, d) - n
         IN off \in Int /\ 2 * off <= d /\ -d <= 2 * off
<1> DEFINE q == n \div d
           r == n % d
<1>1. q \in Int /\ r \in Int /\ 0 <= r /\ r < d /\ n = d * q + r
  OBVIOUS
<1>2. Quantized(n, d) = IF 2 * r < d \/ (2 * r = d /\ q % 2 = 0) THEN q ELSE q + 1
  BY DEF Quantized
<1> HIDE DEF q, r
<1>3. d * q \in Int /\ d * (q + 1) = d * q + d
  BY <1>1
<1>4. CASE Quantized(n, d) = q /\ 2 * r <= d
  <2>1. d * Quantized(n, d) - n = -r
    BY <1>1, <1>3, <1>4
  <2>2. QED
    BY <1>1, <1>4, <2>1
<1>5. CASE Quantized(n, d) = q + 1 /\ d <= 2 * r
  <2>1. d * Quantized(n, d) - n = d - r
    BY <1>1, <1>3, <1>5
  <2>2. QED
    BY <1>1, <1>5, <2>1
<1>6. QED
  BY <1>1, <1>2, <1>4, <1>5

\* Nor by more than half a larger unit, once it is scaled up to it.
LEMMA QuantizedIsNearScaled ==
  ASSUME NEW n \in Int, NEW d \in Nat \ {0}, NEW r \in Nat
  PROVE  LET off == (d * r) * Quantized(n, d) - r * n
         IN off \in Int /\ 2 * off <= d * r /\ -(d * r) <= 2 * off
<1> DEFINE q == Quantized(n, d)
           e == d * q - n
<1>1. q \in Int /\ e \in Int /\ 2 * e <= d /\ -d <= 2 * e
  BY QuantizedIsInt, QuantizedIsNear
<1> HIDE DEF q
<1>2. (d * r) * q - r * n = r * e
  <2>1. \A u, v, w \in Int : (u * v) * w = v * (u * w)
    OBVIOUS
  <2>2. (d * r) * q = r * (d * q) /\ d * q \in Int
    BY <1>1, <2>1
  <2>3. \A u, v, w \in Int : u * (v - w) = u * v - u * w
    OBVIOUS
  <2>4. r * e = r * (d * q) - r * n
    BY <2>2, <2>3
  <2>5. QED
    BY <2>2, <2>4
<1> HIDE DEF e
<1>3. r * (2 * e) <= r * d /\ r * (-d) <= r * (2 * e)
  BY <1>1, TimesKeepsOrder
<1>4. r * (2 * e) = 2 * (r * e) /\ r * d = d * r /\ r * (-d) = -(d * r)
  BY <1>1
<1>5. r * e \in Int /\ d * r \in Int
  BY <1>1
<1>6. QED
  BY <1>2, <1>3, <1>4, <1>5 DEF q
\* What adds nothing can be left out of a sum.
LEMMA TotalOfRest ==
  ASSUME NEW A, IsFiniteSet(A), NEW f, NEW S \in SUBSET A,
         \A x \in A : f[x] \in Int, \A x \in A \ S : f[x] = 0
  PROVE  Total(f, A) = Total(f, S)
<1> DEFINE P == {T \in SUBSET (A \ S) : Total(f, S \cup T) = Total(f, S)}
<1>1. {} \in P
  <2>1. S \cup {} = S
    OBVIOUS
  <2>2. QED
    BY <2>1
<1>2. \A T \in SUBSET (A \ S) : T # {} /\ (\A x \in T : T \ {x} \in P) => T \in P
  <2> SUFFICES ASSUME NEW T \in SUBSET (A \ S), NEW x \in T, T \ {x} \in P PROVE T \in P
    OBVIOUS
  <2> DEFINE U == S \cup T
  <2>1. U \in SUBSET A /\ x \in U /\ U \ {x} = S \cup (T \ {x}) /\ f[x] = 0
    OBVIOUS
  <2>2. Total(f, S \cup (T \ {x})) = Total(f, S)
    OBVIOUS
  <2> HIDE DEF U, P
  <2>3. Total(f, U) = f[x] + Total(f, U \ {x}) /\ Total(f, U \ {x}) \in Int
    BY <2>1, TotalOfPart
  <2>4. Total(f, U \ {x}) = Total(f, S)
    BY <2>1, <2>2
  <2>5. Total(f, U) = Total(f, S)
    <3>1. f[x] = 0
      BY <2>1
    <3>2. QED
      BY <3>1, <2>3, <2>4
  <2>6. QED
    BY <2>5 DEF U, P
<1> HIDE DEF P
<1>3. A \ S \in P
  <2>1. IsFiniteSet(A \ S)
    BY FS_Subset
  <2>2. QED
    BY <2>1, <1>1, <1>2, SetBySet
<1>4. S \cup (A \ S) = A
  OBVIOUS
<1>5. QED
  BY <1>3, <1>4 DEF P

-----------------------------------------------------------------------------
(* What the accounts are allocated *)

\* Every zone has a use area, and every account.
EachHasFields == /\ \A z \in Zone : FieldsIn(z) # {}
                 /\ \A a \in Account : FieldsOf(a) # {}

AllPlanned(y) == \A z \in Zone : plan[<<z, y>>] # Nothing

\* An account's part of a zone's allocation, times the acres of every zone.
Due(a, z, y) == (plan[<<z, y>>] * SharedAcres(a, z)) * AcresProduct(Zone \ {z})

\* Acres, allocations and products are natural numbers.
LEMMA AcresAre ==
  ASSUME FiguresInv, EachHasFields, NEW y \in Year, AllPlanned(y)
  PROVE  /\ IsFiniteSet(Zone) /\ IsFiniteSet(Account)
         /\ \A z \in Zone : ZoneAcres(z) \in Nat \ {0} /\ plan[<<z, y>>] \in Nat
         /\ \A a, z : SharedAcres(a, z) \in Nat
         /\ \A S \in SUBSET Zone : AcresProduct(S) \in Nat \ {0}
         /\ \A a \in Account, z \in Zone : Due(a, z, y) \in Int
<1>1. IsFiniteSet(Zone) /\ IsFiniteSet(Account) /\ Budgets \subseteq Nat
  BY ConstantsAssumption
<1>2. \A z \in Zone : ZoneAcres(z) \in Nat \ {0}
  <2>1. \A z \in Zone : FieldsIn(z) \in SUBSET Field /\ FieldsIn(z) # {}
    BY DEF EachHasFields, FieldsIn
  <2>2. QED
    BY <2>1, AcresArePositive DEF ZoneAcres
<1>3. \A z \in Zone : plan[<<z, y>>] \in Nat
  BY <1>1 DEF FiguresInv, AllPlanned
<1>4. \A a, z : SharedAcres(a, z) \in Nat
  <2>1. \A a, z : FieldsOf(a) \cap FieldsIn(z) \in SUBSET Field
    BY DEF FieldsIn
  <2>2. QED
    BY <2>1, AcresArePositive DEF SharedAcres
<1>5. \A S \in SUBSET Zone : AcresProduct(S) \in Nat \ {0}
  BY <1>1, <1>2, ProductWithout
<1>6. \A a \in Account, z \in Zone : Due(a, z, y) \in Int
  <2> SUFFICES ASSUME NEW a \in Account, NEW z \in Zone PROVE Due(a, z, y) \in Int
    OBVIOUS
  <2>1. plan[<<z, y>>] \in Int /\ SharedAcres(a, z) \in Int /\ AcresProduct(Zone \ {z}) \in Int
    BY <1>3, <1>4, <1>5
  <2>2. \A u, v, w \in Int : (u * v) * w \in Int
    OBVIOUS
  <2>3. QED
    BY <2>1, <2>2 DEF Due
<1>7. QED
  BY <1>1, <1>2, <1>3, <1>4, <1>5, <1>6

\* An account is allocated its parts, but for the rounding.
LEMMA AllocationIsNear ==
  ASSUME FiguresInv, EachHasFields, NEW y \in Year, AllPlanned(y), NEW a \in Account
  PROVE  LET all == AcresProduct(Zone)
             off == all * AccountAllocation(a, y) - Total([z \in Zone |-> Due(a, z, y)], Zone)
         IN /\ AccountAllocation(a, y) \in Int
            /\ off \in Int /\ 2 * off <= all /\ -all <= 2 * off
<1> DEFINE Z == BudgetZones(a, y)
           acres == AcresProduct(Z)
           rest == AcresProduct(Zone \ Z)
           F == [z \in Z |-> plan[<<z, y>>] * AcresOf(FieldsOf(a) \cap FieldsIn(z))
                               * (acres \div AcresOf(FieldsIn(z)))]
           G == [z \in Zone |-> Due(a, z, y)]
<1>1. Z \in SUBSET Zone /\ IsFiniteSet(Z) /\ \A z \in Zone \ Z : FieldsOf(a) \cap FieldsIn(z) = {}
  BY Finitely DEF BudgetZones, Planned, AllPlanned
<1>2. acres \in Nat \ {0} /\ rest \in Nat /\ AcresProduct(Zone) = acres * rest
  BY <1>1, AcresAre, ProductSplit
<1> HIDE DEF Z, acres, rest
<1>3. ASSUME NEW z \in Z PROVE F[z] \in Int /\ G[z] = rest * F[z]
  <2> DEFINE part == plan[<<z, y>>] * SharedAcres(a, z)
             others == AcresProduct(Z \ {z})
  <2>1. part \in Int /\ others \in Int /\ ZoneAcres(z) \in Nat \ {0} /\ rest \in Int
    <3>1. z \in Zone /\ Z \ {z} \in SUBSET Zone
      BY <1>1
    <3>2. plan[<<z, y>>] \in Int /\ SharedAcres(a, z) \in Int
      BY <3>1, AcresAre
    <3>3. part \in Int
      BY <3>2
    <3>4. QED
      BY <1>2, <3>1, <3>3, AcresAre
  <2>2. acres = ZoneAcres(z) * others
    <3>1. \A x \in Z : ZoneAcres(x) \in Nat \ {0}
      BY <1>1, AcresAre
    <3>2. Z \in SUBSET Z
      OBVIOUS
    <3>3. QED
      BY <1>1, <3>1, <3>2, ProductWithout DEF acres
  <2>3. acres \div ZoneAcres(z) = others
    BY <2>1, <2>2, TimesThenDivided
  <2>4. F[z] = part * others
    BY <2>3 DEF ZoneAcres, SharedAcres
  <2>5. AcresProduct(Zone \ {z}) = others * rest
    <3>1. Z \ {z} \in SUBSET (Zone \ {z}) /\ (Zone \ {z}) \ (Z \ {z}) = Zone \ Z
      BY <1>1
    <3>2. IsFiniteSet(Zone \ {z}) /\ \A x \in Zone \ {z} : ZoneAcres(x) \in Nat \ {0}
      BY AcresAre, FS_Subset
    <3>3. AcresProduct(Zone \ {z}) = AcresProduct(Z \ {z}) * AcresProduct(Zone \ Z)
      BY <3>1, <3>2, ProductSplit
    <3>4. QED
      BY <3>3 DEF rest
  <2>6. G[z] = part * (others * rest)
    BY <1>1, <2>5 DEF Due
  <2> HIDE DEF part, others, F, G
  <2>7. \A u, v, w \in Int : u * (v * w) = w * (u * v) /\ u * v \in Int
    OBVIOUS
  <2>8. QED
    BY <2>1, <2>4, <2>6, <2>7
<1>4. \A z \in Zone : G[z] \in Int
  BY AcresAre
<1>5. \A z \in Zone \ Z : G[z] = 0
  <2>1. AcresOf({}) = 0
    <3> DEFINE f == [x \in {} |-> Acres[x]]
    <3>1. AcresOf({}) = Total(f, {})
      BY FS_EmptySet, AcresIsTotal
    <3> HIDE DEF f
    <3>2. QED
      BY <3>1, TotalOfNothing
  <2>2. \A z \in Zone \ Z : SharedAcres(a, z) = 0
    BY <1>1, <2>1 DEF SharedAcres
  <2>3. \A z \in Zone : plan[<<z, y>>] \in Int /\ AcresProduct(Zone \ {z}) \in Int
    BY AcresAre
  <2>4. \A u, v \in Int : (u * 0) * v = 0
    OBVIOUS
  <2>5. \A z \in Zone \ Z : Due(a, z, y) = 0
    BY <2>2, <2>3, <2>4 DEF Due
  <2>6. QED
    BY <2>5
<1>6. AccountAllocation(a, y) = Quantized(Total(F, Z), acres)
  <2>1. AccountAllocation(a, y) = Quantized(Parts(plan, y, a, acres, Z), acres)
    BY DEF AccountAllocation, Parts, Z, acres, AcresProduct
  <2>2. Parts(plan, y, a, acres, Z) = Total(F, Z)
    BY <1>1, PartsIsTotal
  <2>3. QED
    BY <2>1, <2>2
<1> HIDE DEF F, G
<1>7. Total(G, Zone) = rest * Total(F, Z) /\ Total(F, Z) \in Int
  <2>1. Total(G, Zone) = Total(G, Z)
    BY <1>1, <1>4, <1>5, AcresAre, TotalOfRest
  <2>2. Total(G, Z) = rest * Total(F, Z)
    BY <1>1, <1>2, <1>3, TotalOfMultiples
  <2>3. Total(F, Z) \in Int
    BY <1>1, <1>3, TotalIsInt
  <2>4. QED
    BY <2>1, <2>2, <2>3
<1>8. AccountAllocation(a, y) \in Int
  BY <1>2, <1>6, <1>7, QuantizedIsInt
<1>9. LET off == (acres * rest) * Quantized(Total(F, Z), acres) - rest * Total(F, Z)
      IN off \in Int /\ 2 * off <= acres * rest /\ -(acres * rest) <= 2 * off
  BY <1>2, <1>7, QuantizedIsNearScaled
<1>10. QED
  BY <1>2, <1>6, <1>7, <1>8, <1>9 DEF G

\* A zone's use areas are the accounts'.
LEMMA SharedIsAll ==
  ASSUME NEW z \in Zone
  PROVE  Total([a \in Account |-> SharedAcres(a, z)], Account) = ZoneAcres(z)
<1> DEFINE F == FieldsIn(z)
<1>1. /\ IsFiniteSet(F) /\ IsFiniteSet(Account)
      /\ \A f \in F : Acres[f] \in Int /\ AccountOf[f] \in Account
  <2>1. F \subseteq Field
    BY DEF FieldsIn
  <2>2. \A f \in Field : Acres[f] \in Int /\ AccountOf[f] \in Account
    BY ConstantsAssumption
  <2>3. IsFiniteSet(F) /\ IsFiniteSet(Account)
    BY ConstantsAssumption, Finitely
  <2> HIDE DEF F
  <2>4. QED
    BY <2>1, <2>2, <2>3
<1>2. \A S \in SUBSET F : AcresOf(S) = Total(Acres, S)
  <2> SUFFICES ASSUME NEW S \in SUBSET F PROVE AcresOf(S) = Total(Acres, S)
    OBVIOUS
  <2> DEFINE f == [x \in S |-> Acres[x]]
  <2>1. IsFiniteSet(S) /\ AcresOf(S) = Total(f, S)
    BY <1>1, FS_Subset, AcresIsTotal
  <2>2. Alike(S, f, Acres)
    BY DEF Alike
  <2> HIDE DEF f
  <2>3. QED
    BY <2>1, <2>2, TotalAlike
<1>3. \A a \in Account : Total(Acres, {f \in F : AccountOf[f] = a}) = SharedAcres(a, z)
  <2>1. \A a : {f \in F : AccountOf[f] = a} = FieldsOf(a) \cap F /\ FieldsOf(a) \cap F \in SUBSET F
    BY DEF FieldsIn, FieldsOf
  <2>2. QED
    BY <1>2, <2>1 DEF SharedAcres
<1>4. Total([a \in Account |-> Total(Acres, {f \in F : AccountOf[f] = a})], Account)
        = Total(Acres, F)
  <2> HIDE DEF F
  <2> QED
    BY <1>1, TotalByGroup
<1>5. [a \in Account |-> Total(Acres, {f \in F : AccountOf[f] = a})]
        = [a \in Account |-> SharedAcres(a, z)]
  BY <1>3
<1>6. Total(Acres, F) = ZoneAcres(z)
  BY <1>2 DEF ZoneAcres
<1>7. QED
  BY <1>4, <1>5, <1>6

\* The accounts' parts are all that the zones are allocated.
LEMMA PartsAreAll ==
  ASSUME FiguresInv, EachHasFields, NEW y \in Year, AllPlanned(y)
  PROVE  Total([a \in Account |-> Total([z \in Zone |-> Due(a, z, y)], Zone)], Account)
           = AcresProduct(Zone) * Total([z \in Zone |-> plan[<<z, y>>]], Zone)
<1> DEFINE g == [p \in Account \X Zone |-> Due(p[1], p[2], y)]
           all == AcresProduct(Zone)
           f == [z \in Zone |-> plan[<<z, y>>]]
           h == [z \in Zone |-> Total([a \in Account |-> Due(a, z, y)], Account)]
<1>1. \A a \in Account, z \in Zone : g[<<a, z>>] = Due(a, z, y) /\ g[<<a, z>>] \in Int
  BY AcresAre
<1>2. Total([a \in Account |-> Total([z \in Zone |-> g[<<a, z>>]], Zone)], Account)
        = Total([z \in Zone |-> Total([a \in Account |-> g[<<a, z>>]], Account)], Zone)
  <2> HIDE DEF g
  <2> QED
    BY <1>1, AcresAre, TotalSwapped
<1>3. /\ \A a \in Account : [z \in Zone |-> g[<<a, z>>]] = [z \in Zone |-> Due(a, z, y)]
      /\ \A z \in Zone : [a \in Account |-> g[<<a, z>>]] = [a \in Account |-> Due(a, z, y)]
  <2> HIDE DEF g
  <2> QED
    BY <1>1
<1>4. Total([a \in Account |-> Total([z \in Zone |-> Due(a, z, y)], Zone)], Account)
        = Total(h, Zone)
  <2> HIDE DEF g
  <2>1. /\ [a \in Account |-> Total([z \in Zone |-> g[<<a, z>>]], Zone)]
             = [a \in Account |-> Total([z \in Zone |-> Due(a, z, y)], Zone)]
        /\ [z \in Zone |-> Total([a \in Account |-> g[<<a, z>>]], Account)] = h
    BY <1>3
  <2>2. QED
    BY <1>2, <2>1
<1>5. ASSUME NEW z \in Zone PROVE f[z] \in Int /\ h[z] = all * f[z]
  <2> DEFINE s == [a \in Account |-> SharedAcres(a, z)]
             d == [a \in Account |-> Due(a, z, y)]
             p == plan[<<z, y>>]
             e == AcresProduct(Zone \ {z})
  <2>1. p \in Int /\ e \in Int /\ ZoneAcres(z) \in Int
    BY AcresAre
  <2>2. \A a \in Account : s[a] \in Int /\ d[a] = (p * e) * s[a]
    <3>1. \A u, v, w \in Int : (u * v) * w = (u * w) * v
      OBVIOUS
    <3>2. \A a \in Account : SharedAcres(a, z) \in Int
      BY AcresAre
    <3>3. \A a \in Account : Due(a, z, y) = (p * SharedAcres(a, z)) * e
      BY DEF Due
    <3> HIDE DEF p, e
    <3>4. QED
      BY <2>1, <3>1, <3>2, <3>3
  <2>3. Total(s, Account) = ZoneAcres(z)
    BY SharedIsAll
  <2>4. all = ZoneAcres(z) * e
    <3>1. Zone \in SUBSET Zone
      OBVIOUS
    <3>2. QED
      BY <3>1, AcresAre, ProductWithout
  <2>5. f[z] = p /\ h[z] = Total(d, Account)
    OBVIOUS
  <2> HIDE DEF s, d, p, e, f, h, all
  <2>6. Total(d, Account) = (p * e) * Total(s, Account)
    <3>1. p * e \in Int
      BY <2>1
    <3>2. QED
      BY <2>2, <3>1, AcresAre, TotalOfMultiples
  <2>7. \A u, v, w \in Int : (u * v) * w = (w * v) * u
    OBVIOUS
  <2>8. QED
    BY <2>1, <2>3, <2>4, <2>5, <2>6, <2>7
<1>6. all \in Int
  BY AcresAre
<1> HIDE DEF f, h, all
<1>7. Total(h, Zone) = all * Total(f, Zone)
  BY <1>5, <1>6, AcresAre, TotalOfMultiples
<1>8. QED
  BY <1>4, <1>7 DEF f, all

\* All accounts together are allocated what all zones are, to half a unit each.
LEMMA AllocationsAddUp ==
  ASSUME FiguresInv, EachHasFields, NEW y \in Year, AllPlanned(y)
  PROVE  LET off == Total([a \in Account |-> AccountAllocation(a, y)], Account)
                      - Total([z \in Zone |-> plan[<<z, y>>]], Zone)
         IN /\ off \in Int /\ Cardinality(Account) \in Nat
            /\ 2 * off <= Cardinality(Account) /\ -Cardinality(Account) <= 2 * off
<1> DEFINE all == AcresProduct(Zone)
           n == Cardinality(Account)
           q == [a \in Account |-> AccountAllocation(a, y)]
           d == [a \in Account |-> Total([z \in Zone |-> Due(a, z, y)], Zone)]
           scaled == [a \in Account |-> all * q[a]]
           e == [a \in Account |-> scaled[a] - d[a]]
           p == Total([z \in Zone |-> plan[<<z, y>>]], Zone)
           off == Total(q, Account) - p
<1>1. all \in Nat \ {0} /\ IsFiniteSet(Account) /\ n \in Nat
  BY AcresAre, FS_CardinalityType
<1>2. \A a \in Account : /\ q[a] \in Int /\ e[a] \in Int
                         /\ 2 * e[a] <= all /\ -all <= 2 * e[a]
  BY AllocationIsNear
<1>3. \A a \in Account : d[a] \in Int
  <2> SUFFICES ASSUME NEW a \in Account PROVE Total([z \in Zone |-> Due(a, z, y)], Zone) \in Int
    OBVIOUS
  <2> DEFINE g == [z \in Zone |-> Due(a, z, y)]
  <2>1. IsFiniteSet(Zone) /\ \A z \in Zone : g[z] \in Int
    BY AcresAre
  <2> HIDE DEF g
  <2>2. Total(g, Zone) \in Int
    BY <2>1, TotalIsInt
  <2>3. QED
    BY <2>2 DEF g
<1>4. p \in Int
  <2> DEFINE g == [z \in Zone |-> plan[<<z, y>>]]
  <2>1. IsFiniteSet(Zone) /\ \A z \in Zone : g[z] \in Int
    BY AcresAre
  <2> HIDE DEF g
  <2>2. Total(g, Zone) \in Int
    BY <2>1, TotalIsInt
  <2>3. QED
    BY <2>2 DEF g
<1>5. Total(d, Account) = all * p
  BY PartsAreAll
<1>6. \A a \in Account : /\ scaled[a] = all * q[a] /\ scaled[a] \in Int
                         /\ scaled[a] = e[a] + d[a]
  <2>1. \A a \in Account : scaled[a] = all * q[a] /\ e[a] = scaled[a] - d[a]
    OBVIOUS
  <2> HIDE DEF all, q, d, scaled, e
  <2>2. \A a \in Account : all * q[a] \in Int
    BY <1>1, <1>2
  <2>3. QED
    BY <1>3, <2>1, <2>2
<1> HIDE DEF all, n, q, d, scaled, e, p
<1>7. Total(q, Account) \in Int /\ Total(scaled, Account) = all * Total(q, Account)
  <2>1. \A a \in Account : q[a] \in Int /\ scaled[a] = all * q[a]
    BY <1>2, <1>6
  <2>2. all \in Int
    BY <1>1
  <2>3. Total(q, Account) \in Int
    BY <1>1, <2>1, TotalIsInt
  <2>4. Total(scaled, Account) = all * Total(q, Account)
    BY <1>1, <2>1, <2>2, TotalOfMultiples
  <2>5. QED
    BY <2>3, <2>4
<1>8. Total(scaled, Account) = Total(e, Account) + Total(d, Account)
  BY <1>1, <1>2, <1>3, <1>6, TotalOfSums
<1>9. /\ Total(e, Account) \in Int
      /\ 2 * Total(e, Account) <= all * n /\ -(all * n) <= 2 * Total(e, Account)
  BY <1>1, <1>2, TotalOfSmall DEF n
<1>10. off \in Int /\ Total(e, Account) = all * off
  <2>1. \A u, v, w \in Int : u * (v - w) = u * v - u * w
    OBVIOUS
  <2>2. all * p \in Int /\ all * Total(q, Account) \in Int
    BY <1>1, <1>4, <1>7
  <2>3. all * off = all * Total(q, Account) - all * p /\ off \in Int
    BY <1>1, <1>4, <1>7, <2>1
  <2>4. QED
    BY <1>5, <1>7, <1>8, <1>9, <2>2, <2>3
<1> HIDE DEF off
<1>11. ~(n + 1 <= 2 * off)
  <2> SUFFICES ASSUME n + 1 <= 2 * off PROVE FALSE
    OBVIOUS
  <2>1. all * (n + 1) <= all * (2 * off)
    BY <1>1, <1>10, TimesKeepsOrder
  <2>2. all * (n + 1) = all * n + all /\ all * (2 * off) = 2 * (all * off)
    BY <1>1, <1>10
  <2>3. all * n \in Int /\ all * off \in Int
    BY <1>1, <1>10
  <2>4. QED
    BY <1>1, <1>9, <1>10, <2>1, <2>2, <2>3
<1>12. ~(2 * off <= -n - 1)
  <2> SUFFICES ASSUME 2 * off <= -n - 1 PROVE FALSE
    OBVIOUS
  <2>1. all * (2 * off) <= all * (-n - 1)
    BY <1>1, <1>10, TimesKeepsOrder
  <2>2. all * (-n - 1) = -(all * n) - all /\ all * (2 * off) = 2 * (all * off)
    BY <1>1, <1>10
  <2>3. all * n \in Int /\ all * off \in Int
    BY <1>1, <1>10
  <2>4. QED
    BY <1>1, <1>9, <1>10, <2>1, <2>2, <2>3
<1>13. off \in Int /\ n \in Nat /\ 2 * off <= n /\ -n <= 2 * off
  BY <1>1, <1>10, <1>11, <1>12
<1>14. QED
  BY <1>13 DEF off, n, q, p
-----------------------------------------------------------------------------
(* What both books open with *)

AllCredits(y, S) == MapThenSumSet(LAMBDA a : CreditsOf(a, y), S)
AllCarried(y, S) == MapThenSumSet(LAMBDA z : CarriedIn(z, y), S)
LooseOf(y) == MapThenSumSet(LAMBDA f : loose[<<f, y>>], Field)
OnlyOf(S) == MapThenSumSet(LAMBDA i : OtherCredits(i) + LooseOf(i), S)

\* The credits of all accounts are a total.
LEMMA AllCreditsIsTotal ==
  ASSUME NEW S, IsFiniteSet(S), NEW y
  PROVE  AllCredits(y, S) = Total([a \in S |-> CreditsOf(a, y)], S)
<1> DEFINE F == [a \in S |-> CreditsOf(a, y)]
           Is(it) == it = [R \in SUBSET S |->
                 IF R = {} THEN 0
                 ELSE CreditsOf((CHOOSE x \in R : TRUE), y) + it[R \ {CHOOSE x \in R : TRUE}]]
           h == CHOOSE it : Is(it)
<1>1. PICK k : k = [R \in SUBSET S |-> k[R]] /\ Adds(k, SUBSET S, F)
  BY AddsIsThere
<1>2. \A R \in SUBSET S : R # {} => F[One(R)] = CreditsOf(One(R), y)
  BY OneIsIn
<1> HIDE DEF F
<1>3. Is(k)
  <2>1. \A R \in SUBSET S :
          k[R] = IF R = {} THEN 0
                 ELSE CreditsOf((CHOOSE x \in R : TRUE), y) + k[R \ {CHOOSE x \in R : TRUE}]
    BY <1>1, <1>2 DEF Adds, One
  <2>2. QED
    BY <1>1, <2>1
<1>4. Is(h)
  BY <1>3
<1>5. Adds(h, SUBSET S, F)
  <2> HIDE DEF h
  <2>1. \A R \in SUBSET S :
          h[R] = IF R = {} THEN 0
                 ELSE CreditsOf((CHOOSE x \in R : TRUE), y) + h[R \ {CHOOSE x \in R : TRUE}]
    BY <1>4
  <2>2. QED
    BY <1>2, <2>1 DEF Adds, One
<1>6. AllCredits(y, S) = h[S]
  BY DEF AllCredits, MapThenSumSet, MapThenFoldSet
<1> HIDE DEF h
<1>7. AllCredits(y, S) = Total(F, S)
  BY <1>5, <1>6, TotalIsAdded
<1>8. QED
  BY <1>7 DEF F

\* What all zones carry is one.
LEMMA AllCarriedIsTotal ==
  ASSUME NEW S, IsFiniteSet(S), NEW y
  PROVE  AllCarried(y, S) = Total([z \in S |-> CarriedIn(z, y)], S)
<1> DEFINE F == [z \in S |-> CarriedIn(z, y)]
           Is(it) == it = [R \in SUBSET S |->
                 IF R = {} THEN 0
                 ELSE CarriedIn((CHOOSE x \in R : TRUE), y) + it[R \ {CHOOSE x \in R : TRUE}]]
           h == CHOOSE it : Is(it)
<1>1. PICK k : k = [R \in SUBSET S |-> k[R]] /\ Adds(k, SUBSET S, F)
  BY AddsIsThere
<1>2. \A R \in SUBSET S : R # {} => F[One(R)] = CarriedIn(One(R), y)
  BY OneIsIn
<1> HIDE DEF F
<1>3. Is(k)
  <2>1. \A R \in SUBSET S :
          k[R] = IF R = {} THEN 0
                 ELSE CarriedIn((CHOOSE x \in R : TRUE), y) + k[R \ {CHOOSE x \in R : TRUE}]
    BY <1>1, <1>2 DEF Adds, One
  <2>2. QED
    BY <1>1, <2>1
<1>4. Is(h)
  BY <1>3
<1>5. Adds(h, SUBSET S, F)
  <2> HIDE DEF h
  <2>1. \A R \in SUBSET S :
          h[R] = IF R = {} THEN 0
                 ELSE CarriedIn((CHOOSE x \in R : TRUE), y) + h[R \ {CHOOSE x \in R : TRUE}]
    BY <1>4
  <2>2. QED
    BY <1>2, <2>1 DEF Adds, One
<1>6. AllCarried(y, S) = h[S]
  BY DEF AllCarried, MapThenSumSet, MapThenFoldSet
<1> HIDE DEF h
<1>7. AllCarried(y, S) = Total(F, S)
  BY <1>5, <1>6, TotalIsAdded
<1>8. QED
  BY <1>7 DEF F

\* What only the accounts count is one.
LEMMA OnlyIsTotal ==
  ASSUME NEW S, IsFiniteSet(S)
  PROVE  OnlyOf(S) = Total([i \in S |-> (OtherCredits(i) + LooseOf(i))], S)
<1> DEFINE F == [i \in S |-> (OtherCredits(i) + LooseOf(i))]
           Is(it) == it = [R \in SUBSET S |->
                 IF R = {} THEN 0
                 ELSE (OtherCredits((CHOOSE x \in R : TRUE))
                        + LooseOf((CHOOSE x \in R : TRUE))) + it[R \ {CHOOSE x \in R : TRUE}]]
           h == CHOOSE it : Is(it)
<1>1. PICK k : k = [R \in SUBSET S |-> k[R]] /\ Adds(k, SUBSET S, F)
  BY AddsIsThere
<1>2. \A R \in SUBSET S : R # {} => F[One(R)] = (OtherCredits(One(R)) + LooseOf(One(R)))
  BY OneIsIn
<1> HIDE DEF F
<1>3. Is(k)
  <2>1. \A R \in SUBSET S :
          k[R] = IF R = {} THEN 0
                 ELSE (OtherCredits((CHOOSE x \in R : TRUE))
                        + LooseOf((CHOOSE x \in R : TRUE))) + k[R \ {CHOOSE x \in R : TRUE}]
    BY <1>1, <1>2 DEF Adds, One
  <2>2. QED
    BY <1>1, <2>1
<1>4. Is(h)
  BY <1>3
<1>5. Adds(h, SUBSET S, F)
  <2> HIDE DEF h
  <2>1. \A R \in SUBSET S :
          h[R] = IF R = {} THEN 0
                 ELSE (OtherCredits((CHOOSE x \in R : TRUE))
                        + LooseOf((CHOOSE x \in R : TRUE))) + h[R \ {CHOOSE x \in R : TRUE}]
    BY <1>4
  <2>2. QED
    BY <1>2, <2>1 DEF Adds, One
<1>6. OnlyOf(S) = h[S]
  BY DEF OnlyOf, MapThenSumSet, MapThenFoldSet
<1> HIDE DEF h
<1>7. OnlyOf(S) = Total(F, S)
  BY <1>5, <1>6, TotalIsAdded
<1>8. QED
  BY <1>7 DEF F

\* The command's books are these sums.
LEMMA BooksAreSums ==
  /\ \A y : AccountsOpen(y) = AllCredits(y, Account) - OtherCredits(y)
  /\ \A y : ZonesOpen(y) = AllCarried(y, Zone)
  /\ \A y : OnlyInAccounts(y) = OnlyOf(1 .. y)
  /\ \A y : LooseOf(y) = ChargedIn(loose, y, Field)
  /\ \A y : OtherCredits(y)
              = CreditSum(credit[y], {row \in DOMAIN credit[y] : row.origin = "other"})
BY DEF AccountsOpen, AllCredits, ZonesOpen, AllCarried, OnlyInAccounts, OnlyOf, LooseOf, ChargedIn,
       OtherCredits, CreditSum

\* What a year's account credits carry over is from the year before.
SourceInv ==
  \A y \in AnyYear, source \in Year : source # y - 1 => OwnCredits(y, source) = {}

\* Every step keeps it.
LEMMA SourceStep == ASSUME TypesInv, SourceInv, [Next]_vars PROVE SourceInv'
<1>1. CASE UNCHANGED credit
  BY <1>1 DEF SourceInv, OwnCredits
<1>2. ASSUME NEW a \in Account, NEW y \in AnyYear, NEW v \in Additions, CreditAccount(a, y, v)
      PROVE  SourceInv'
  <2>1. \A i \in AnyYear, source \in Year : OwnCredits(i, source)' = OwnCredits(i, source)
    BY <1>2, CreditIs
  <2>2. QED
    BY <2>1 DEF SourceInv
<1>3. CASE StoreAccounts
  <2> DEFINE next == run.year + 1
             own == OwnCredits(next, run.year)
             rows == Without(credit[next], own) (+) SetToBag(run.results)
  <2>1. CASE credit' = [credit EXCEPT ![next] = rows]
    <3>1. run.pc = "accounts" /\ run # Idle
      BY <1>3 DEF StoreAccounts, Idle
    <3>2. PICK m \in Year : m = run.year
      BY <3>1, CommandAt DEF TypesInv
    <3>3. next = m + 1 /\ next \in AnyYear /\ m = next - 1
      BY <3>2, NextYear DEF Year
    <3>4. rows = Renewed(credit[m + 1], OwnCredits(m + 1, m), run.results)
      BY <3>2 DEF Renewed
    <3>5. credit = [y \in AnyYear |-> credit[y]]
      BY DEF TypesInv, BooksInv
    <3> HIDE DEF own, rows
    <3>6. credit'[next] = rows /\ \A y \in AnyYear \ {next} : credit'[y] = credit[y]
      BY <2>1, <3>3, <3>5
    <3>7. \A s : s # m => OwnCredits(m + 1, s)' = OwnCredits(m + 1, s)
      <4>1. credit'[m + 1] = Renewed(credit[m + 1], OwnCredits(m + 1, m), run.results)
        BY <3>3, <3>4, <3>6
      <4>2. \A s : /\ OwnCredits(m + 1, s) = {row \in DOMAIN credit[m + 1] :
                                                 row.origin = "carried_forward" /\ row.source = s}
                   /\ OwnCredits(m + 1, s)' = {row \in DOMAIN credit'[m + 1] :
                                                 row.origin = "carried_forward" /\ row.source = s}
        BY DEF OwnCredits
      <4> DEFINE R == Renewed(credit[m + 1], OwnCredits(m + 1, m), run.results)
                 Of(B, s) == {row \in DOMAIN B : row.origin = "carried_forward" /\ row.source = s}
      <4>3. \A s : s # m => Of(R, s) = Of(credit[m + 1], s)
        BY <3>1, <3>2, StoredCredits
      <4>4. credit'[m + 1] = R
        BY <4>1
      <4> HIDE DEF R
      <4>5. \A s : OwnCredits(m + 1, s)' = Of(R, s) /\ OwnCredits(m + 1, s) = Of(credit[m + 1], s)
        BY <4>2, <4>4
      <4> HIDE DEF Of
      <4>6. QED
        BY <4>3, <4>5
    <3>8. \A y \in AnyYear \ {next} : \A s : OwnCredits(y, s)' = OwnCredits(y, s)
      BY <3>6 DEF OwnCredits
    <3>9. QED
      BY <3>3, <3>7, <3>8 DEF SourceInv
  <2>2. QED
    BY <1>1, <1>3, <2>1 DEF StoreAccounts
<1>4. ASSUME NEW z \in Zone, NEW y \in AnyYear, NEW v \in Additions, DepositToPool(z, y, v)
      PROVE  UNCHANGED credit
  BY <1>4 DEF DepositToPool
<1>5. ASSUME NEW y \in Year, Toggle(y) PROVE UNCHANGED credit
  BY <1>5 DEF Toggle
<1>6. CASE SetsFigures
  BY <1>1, <1>6 DEF SetsFigures, SetPlan, Charge, ChargeLoose, SetHorizon, SetDefault
<1>7. CASE Office
  BY <1>1, <1>2, <1>4, <1>5, <1>6, <1>7 DEF Office, SetsFigures
<1>8. CASE ReadAccount
  BY <1>1, <1>8 DEF ReadAccount
<1>9. CASE StoreZones
  BY <1>1, <1>9 DEF StoreZones
<1>10. CASE (\E y \in Year : Begin(y)) \/ ReadZone \/ BeginAccounts \/ Die
  BY <1>1, <1>10 DEF Begin, ReadZone, BeginAccounts, Die
<1>11. CASE UNCHANGED vars
  BY <1>1, <1>11 DEF vars
<1>12. QED
  BY <1>3, <1>7, <1>8, <1>9, <1>10, <1>11 DEF Next

Worth(y) == [row \in DOMAIN credit[y] |-> row.amount * credit[y][row]]

\* Credits of a year are parts of one sum.
LEMMA CreditsAreWorth ==
  ASSUME TypesInv, NEW y \in AnyYear
  PROVE  LET D == DOMAIN credit[y]
         IN /\ IsFiniteSet(D) /\ D \subseteq CarriedCredit \cup OtherCredit
            /\ \A row \in D : Worth(y)[row] \in Int /\ credit[y][row] \in Nat
            /\ \A S \in SUBSET D : CreditSum(credit[y], S) = Total(Worth(y), S)
<1> DEFINE B == credit[y]
           D == DOMAIN B
           w == Worth(y)
<1>1. IsABag(B) /\ IsFiniteSet(D) /\ D \subseteq CarriedCredit \cup OtherCredit
  BY DEF TypesInv, BooksInv
<1>2. \A row \in D : row.amount \in Int /\ B[row] \in Nat
  BY <1>1 DEF CarriedCredit, OtherCredit, IsABag
<1>3. \A row \in D : w[row] = row.amount * B[row]
  BY DEF Worth
<1> HIDE DEF B, w
<1>4. \A row \in D : w[row] \in Int
  BY <1>2, <1>3
<1>5. ASSUME NEW S \in SUBSET D PROVE CreditSum(B, S) = Total(w, S)
  <2> DEFINE f == [row \in S |-> (row.amount * B[row])]
  <2>1. IsFiniteSet(S) /\ CreditSum(B, S) = Total(f, S)
    BY <1>1, FS_Subset, CreditsIsTotal
  <2>2. Alike(S, f, w)
    BY <1>3 DEF Alike
  <2> HIDE DEF f
  <2>3. QED
    BY <2>1, <2>2, TotalAlike
<1>6. QED
  BY <1>1, <1>2, <1>4, <1>5 DEF B, w

\* What the accounts open a year with is what its carried credits are worth.
LEMMA AccountsOpenWith ==
  ASSUME TypesInv, NEW y \in AnyYear
  PROVE  LET carried == {row \in DOMAIN credit[y] : row.origin # "other"}
         IN /\ AccountsOpen(y) = Total(Worth(y), carried)
            /\ OtherCredits(y) \in Int /\ AccountsOpen(y) \in Int
            /\ \A a \in Account : CreditsOf(a, y) \in Int
            /\ Total([a \in Account |-> CreditsOf(a, y)], Account)
                 = AccountsOpen(y) + OtherCredits(y)
<1> DEFINE D == DOMAIN credit[y]
           w == Worth(y)
           O == {row \in D : row.origin = "other"}
           carried == {row \in D : row.origin # "other"}
           key == [row \in D |-> row.account]
           c == [a \in Account |-> CreditsOf(a, y)]
           Of(a) == {row \in D : row.account = a}
<1>1. /\ IsFiniteSet(D) /\ D \subseteq CarriedCredit \cup OtherCredit
      /\ \A row \in D : w[row] \in Int
      /\ \A S \in SUBSET D : CreditSum(credit[y], S) = Total(w, S)
  BY CreditsAreWorth
<1>2. IsFiniteSet(Account)
  BY ConstantsAssumption
<1>3. \A row \in D : key[row] \in Account
  BY <1>1 DEF CarriedCredit, OtherCredit
<1>4. O \in SUBSET D /\ carried = D \ O /\ \A a : Of(a) \in SUBSET D
  OBVIOUS
<1>5. OtherCredits(y) = Total(w, O)
  BY <1>1, <1>4, BooksAreSums
<1>6. \A a : CreditsOf(a, y) = Total(w, Of(a))
  BY <1>1, <1>4, SumsAreOfFigures DEF SumsOfFigures
<1>7. \A a : {row \in D : key[row] = a} = Of(a)
  OBVIOUS
<1>8. Total(c, Account) = Total(w, D)
  <2>1. Total([a \in Account |-> Total(w, {row \in D : key[row] = a})], Account) = Total(w, D)
    <3> HIDE DEF D, w, key
    <3> QED
      BY <1>1, <1>2, <1>3, TotalByGroup
  <2>2. [a \in Account |-> Total(w, {row \in D : key[row] = a})] = c
    BY <1>6, <1>7
  <2>3. QED
    BY <2>1, <2>2
<1>9. AllCredits(y, Account) = Total(c, Account)
  BY <1>2, AllCreditsIsTotal
<1> HIDE DEF D, w, O, carried, key, c, Of
<1>10. Total(w, D) = Total(w, O) + Total(w, carried)
  BY <1>1, <1>4, TotalInTwo
<1>11. /\ Total(w, O) \in Int /\ Total(w, carried) \in Int
       /\ \A a : Total(w, Of(a)) \in Int
  <2>1. carried \in SUBSET D
    BY <1>4
  <2>2. QED
    BY <1>1, <1>4, <2>1, TotalOfPart
<1>12. AccountsOpen(y) = Total(w, carried)
  <2>1. AccountsOpen(y) = AllCredits(y, Account) - OtherCredits(y)
    BY BooksAreSums
  <2>2. QED
    BY <1>5, <1>8, <1>9, <1>10, <1>11, <2>1
<1>13. Total(c, Account) = AccountsOpen(y) + OtherCredits(y)
  BY <1>5, <1>8, <1>10, <1>11, <1>12
<1>14. QED
  BY <1>5, <1>6, <1>11, <1>12, <1>13 DEF D, w, carried, c
\* Nothing is carried into the first year, in either book.
LEMMA FirstOpensEmpty ==
  ASSUME TypesInv, RolledInv, SourceInv
  PROVE  AccountsOpen(1) = 0 /\ ZonesOpen(1) = 0
<1>1. 1 \in AnyYear /\ 1 \in Year /\ IsFiniteSet(Zone)
  BY ConstantsAssumption DEF AnyYear, Year
<1>2. AccountsOpen(1) = 0
  <2> DEFINE D == DOMAIN credit[1]
  <2>1. {row \in D : row.origin # "other"} = {}
    <3> SUFFICES ASSUME NEW row \in D, row.origin # "other" PROVE FALSE
      OBVIOUS
    <3>1. row \in CarriedCredit
      <4>1. row \in CarriedCredit \cup OtherCredit
        BY <1>1, CreditsAreWorth
      <4>2. QED
        BY <4>1 DEF OtherCredit
    <3>2. row.source \in Year /\ row.origin = "carried_forward"
      BY <3>1 DEF CarriedCredit
    <3>3. row \in OwnCredits(1, row.source)
      BY <3>2 DEF OwnCredits
    <3>4. row.source # 1 - 1
      BY <3>2 DEF Year
    <3>5. QED
      BY <1>1, <3>2, <3>3, <3>4 DEF SourceInv
  <2>2. AccountsOpen(1) = Total(Worth(1), {})
    BY <1>1, <2>1, AccountsOpenWith
  <2>3. QED
    BY <2>2, TotalOfNothing
<1>3. ZonesOpen(1) = 0
  <2> DEFINE c == [z \in Zone |-> CarriedIn(z, 1)]
  <2>1. \A z : {row \in book[1] : row.zone = z /\ row.origin = "allocation_carryover"} = {}
    BY DEF RolledInv, FirstInv, OwnRows
  <2>2. \A z : CarriedIn(z, 1) = Amounts({})
    BY <2>1, SumsAreOfFigures DEF SumsOfFigures
  <2>3. \A z \in Zone : c[z] = 0
    BY <2>2, FewAmounts
  <2>4. ZonesOpen(1) = Total(c, Zone)
    BY <1>1, BooksAreSums, AllCarriedIsTotal
  <2> HIDE DEF c
  <2>5. {} \in SUBSET Zone /\ (\A z \in Zone : c[z] \in Int) /\ \A z \in Zone \ {} : c[z] = 0
    BY <2>3
  <2>6. Total(c, Zone) = Total(c, {})
    BY <1>1, <2>5, TotalOfRest
  <2>7. QED
    BY <2>4, <2>6, TotalOfNothing
<1>4. QED
  BY <1>2, <1>3

\* The use areas' pumping of a year, as the accounts and as the zones read it.
LEMMA PumpingIsAll ==
  ASSUME TypesInv, NEW y \in Year
  PROVE  LET all == Total([f \in Field |-> charged[<<f, y>>]], Field)
         IN /\ all \in Int /\ LooseOf(y) \in Int
            /\ \A a \in Account : ChargedTo(a, y) \in Int
            /\ \A z \in Zone : UsageOf(z, y) \in Int
            /\ Total([a \in Account |-> ChargedTo(a, y)], Account) = all
            /\ Total([z \in Zone |-> UsageOf(z, y)], Zone) = all + LooseOf(y)
<1> DEFINE c == [f \in Field |-> charged[<<f, y>>]]
           l == [f \in Field |-> loose[<<f, y>>]]
           u == [f \in Field |-> charged[<<f, y>>] + loose[<<f, y>>]]
<1>1. /\ IsFiniteSet(Field) /\ IsFiniteSet(Account) /\ IsFiniteSet(Zone)
      /\ \A f \in Field : ZoneOf[f] \in Zone /\ AccountOf[f] \in Account
  BY ConstantsAssumption
<1>2. \A f \in Field : charged[<<f, y>>] \in Int /\ loose[<<f, y>>] \in Int
  <2>1. Charges \cup {0} \subseteq Int
    BY ConstantsAssumption
  <2>2. \A f \in Field : /\ charged[<<f, y>>] \in Charges \cup {0}
                        /\ loose[<<f, y>>] \in Charges \cup {0}
    BY DEF TypesInv, FiguresInv
  <2>3. QED
    BY <2>1, <2>2
<1>3. \A f \in Field : c[f] \in Int /\ l[f] \in Int /\ u[f] \in Int /\ u[f] = c[f] + l[f]
  BY <1>2
<1>4. Total(c, Field) \in Int /\ Total(l, Field) \in Int
  <2> HIDE DEF c, l, u
  <2> QED
    BY <1>1, <1>3, TotalIsInt
<1>5. Total(u, Field) = Total(c, Field) + Total(l, Field)
  <2> HIDE DEF c, l, u
  <2> QED
    BY <1>1, <1>3, TotalOfSums
<1>6. LooseOf(y) = Total(l, Field)
  BY <1>1, BooksAreSums, ChargedIsTotal
<1>7. \A a : ChargedTo(a, y) = Total(c, {f \in Field : AccountOf[f] = a})
  <2> SUFFICES ASSUME NEW a PROVE ChargedTo(a, y) = Total(c, FieldsOf(a))
    BY DEF FieldsOf
  <2> DEFINE k == [f \in FieldsOf(a) |-> charged[<<f, y>>]]
  <2>1. ChargedTo(a, y) = Total(k, FieldsOf(a))
    BY SumsAreOfFigures, ChargedIsTotal, Finitely DEF SumsOfFigures
  <2>2. Alike(FieldsOf(a), k, c)
    BY DEF Alike, FieldsOf
  <2> HIDE DEF k, c
  <2>3. QED
    BY <2>1, <2>2, TotalAlike, Finitely
<1>8. \A z : UsageOf(z, y) = Total(u, {f \in Field : ZoneOf[f] = z})
  <2> SUFFICES ASSUME NEW z PROVE UsageOf(z, y) = Total(u, FieldsIn(z))
    BY DEF FieldsIn
  <2> DEFINE k == [f \in FieldsIn(z) |-> charged[<<f, y>>] + loose[<<f, y>>]]
  <2>1. UsageOf(z, y) = Total(k, FieldsIn(z))
    BY SumsAreOfFigures, UsedIsTotal, Finitely DEF SumsOfFigures
  <2>2. Alike(FieldsIn(z), k, u)
    BY DEF Alike, FieldsIn
  <2> HIDE DEF k, u
  <2>3. QED
    BY <2>1, <2>2, TotalAlike, Finitely
<1> HIDE DEF c, l, u
<1>9. \A a \in Account : ChargedTo(a, y) \in Int
  <2>1. \A f \in Field : c[f] \in Int
    BY <1>3
  <2>2. \A S \in SUBSET Field : Total(c, S) \in Int
    BY <1>1, <2>1, TotalOfPart
  <2>3. QED
    BY <1>7, <2>2
<1>10. \A z \in Zone : UsageOf(z, y) \in Int
  BY ZoneNetIsInt DEF TypesInv
<1>11. Total([a \in Account |-> ChargedTo(a, y)], Account) = Total(c, Field)
  <2>1. [a \in Account |-> ChargedTo(a, y)]
          = [a \in Account |-> Total(c, {f \in Field : AccountOf[f] = a})]
    BY <1>7
  <2>2. Total([a \in Account |-> Total(c, {f \in Field : AccountOf[f] = a})], Account)
          = Total(c, Field)
    BY <1>1, <1>3, TotalByGroup
  <2>3. QED
    BY <2>1, <2>2
<1>12. Total([z \in Zone |-> UsageOf(z, y)], Zone) = Total(u, Field)
  <2>1. [z \in Zone |-> UsageOf(z, y)]
          = [z \in Zone |-> Total(u, {f \in Field : ZoneOf[f] = z})]
    BY <1>8
  <2>2. Total([z \in Zone |-> Total(u, {f \in Field : ZoneOf[f] = z})], Zone) = Total(u, Field)
    BY <1>1, <1>3, TotalByGroup
  <2>3. QED
    BY <2>1, <2>2
<1>13. QED
  BY <1>4, <1>5, <1>6, <1>9, <1>10, <1>11, <1>12 DEF c

AllCarry == \A z \in Zone : RecoveryHorizon(z) = "carry_forward"

\* What the accounts carry out of a year.
LEMMA AccountsCarryNets ==
  ASSUME TypesInv, RolledInv, SourceInv, EachHasFields, NEW y \in fresh, AllPlanned(y), AllCarry
  PROVE  /\ y \in Year /\ \A a \in Account : AccountNet(a, y) \in Int
         /\ AccountsOpen(y + 1) = Total([a \in Account |-> AccountNet(a, y)], Account)
<1> DEFINE next == y + 1
           D == DOMAIN credit[next]
           w == Worth(next)
           carried == {row \in D : row.origin # "other"}
           net == [a \in Account |-> AccountNet(a, y)]
           key == [row \in D |-> row.account]
<1>1. y \in Year /\ next \in AnyYear /\ next - 1 = y
  <2>1. y \in Year
    BY DEF TypesInv, FiguresInv
  <2>2. QED
    BY <2>1, NextYear DEF Year
<1>2. \A a \in Account : AccountNet(a, y) \in Int
  BY <1>1, AccountNetIsInt DEF TypesInv
<1>3. \A a \in Account : Rolls(a, y)
  <2> SUFFICES ASSUME NEW a \in Account PROVE Rolls(a, y)
    OBVIOUS
  <2>1. PICK f \in FieldsOf(a) : TRUE
    BY DEF EachHasFields
  <2>2. f \in Field /\ ZoneOf[f] \in Zone
    BY ConstantsAssumption DEF FieldsOf
  <2>3. ZoneOf[f] \in BudgetZones(a, y)
    BY <2>1, <2>2 DEF BudgetZones, Planned, AllPlanned, FieldsIn
  <2>4. RecoveryHorizon(ZoneOf[f]) # "same_water_year"
    BY <2>2 DEF AllCarry
  <2>5. QED
    BY <2>3, <2>4 DEF Rolls
<1>4. /\ OwnCredits(next, y) = {AccountRow(a, y) : a \in Account}
      /\ \A row \in OwnCredits(next, y) : credit[next][row] = 1
  BY <1>3 DEF RolledInv, FreshInv, AccountsRolled, AccountRows
<1>5. /\ IsFiniteSet(D) /\ D \subseteq CarriedCredit \cup OtherCredit
      /\ \A row \in D : w[row] \in Int
  BY <1>1, CreditsAreWorth
<1>6. carried = OwnCredits(next, y)
  <2>1. carried \subseteq OwnCredits(next, y)
    <3> SUFFICES ASSUME NEW row \in D, row.origin # "other" PROVE row \in OwnCredits(next, y)
      OBVIOUS
    <3>1. row.origin = "carried_forward" /\ row.source \in Year
      BY <1>5 DEF CarriedCredit, OtherCredit
    <3>2. row \in OwnCredits(next, row.source)
      BY <3>1 DEF OwnCredits
    <3>3. row.source = y
      BY <1>1, <3>1, <3>2 DEF SourceInv
    <3>4. QED
      BY <3>2, <3>3
  <2>2. OwnCredits(next, y) \subseteq carried
    BY DEF OwnCredits
  <2>3. QED
    BY <2>1, <2>2
<1>7. \A a : AccountRow(a, y).account = a /\ AccountRow(a, y).amount = AccountNet(a, y)
  BY DEF AccountRow
<1>8. carried \in SUBSET D /\ IsFiniteSet(carried)
  BY <1>5, FS_Subset
<1>9. ASSUME NEW a \in Account
      PROVE  Total(w, {row \in carried : key[row] = a}) = AccountNet(a, y)
  <2> DEFINE r == AccountRow(a, y)
  <2>1. r \in carried /\ r \in D /\ credit[next][r] = 1 /\ r.amount = AccountNet(a, y)
    BY <1>4, <1>6, <1>7, <1>8
  <2>2. {row \in carried : key[row] = a} = {r}
    <3>1. \A row \in carried : \E b \in Account : row = AccountRow(b, y)
      BY <1>4, <1>6
    <3>2. \A row \in carried : key[row] = row.account
      BY <1>8
    <3> HIDE DEF carried, key
    <3>3. \A row \in carried : key[row] = a <=> row = r
      BY <1>7, <3>1, <3>2
    <3>4. QED
      BY <2>1, <3>3
  <2>3. w[r] = AccountNet(a, y) * 1
    BY <2>1 DEF Worth
  <2>4. w[r] = AccountNet(a, y)
    BY <1>2, <2>3
  <2> HIDE DEF w, carried, key, r
  <2>5. Total(w, {r}) = w[r]
    BY <1>2, <2>4, TotalOfOne
  <2>6. QED
    BY <2>2, <2>4, <2>5
<1>10. [a \in Account |-> Total(w, {row \in carried : key[row] = a})] = net
  BY <1>9
<1>11. \A row \in carried : w[row] \in Int /\ key[row] \in Account
  BY <1>5, <1>8 DEF CarriedCredit, OtherCredit
<1>12. AccountsOpen(next) = Total(w, carried)
  BY <1>1, AccountsOpenWith
<1> HIDE DEF w, carried, key, net
<1>13. Total([a \in Account |-> Total(w, {row \in carried : key[row] = a})], Account)
         = Total(w, carried)
  <2>1. IsFiniteSet(Account) /\ IsFiniteSet(carried)
    BY <1>8, ConstantsAssumption
  <2>2. QED
    BY <1>11, <2>1, TotalByGroup
<1>14. QED
  BY <1>1, <1>2, <1>10, <1>12, <1>13 DEF net

\* A year more, in the accounts' book.
LEMMA AccountsOpenNext ==
  ASSUME TypesInv, RolledInv, SourceInv, EachHasFields, NEW y \in fresh, AllPlanned(y), AllCarry
  PROVE  AccountsOpen(y + 1)
           = Total([a \in Account |-> AccountAllocation(a, y)], Account)
               + AccountsOpen(y) + OtherCredits(y)
               - Total([f \in Field |-> charged[<<f, y>>]], Field)
<1> DEFINE q == [a \in Account |-> AccountAllocation(a, y)]
           c == [a \in Account |-> CreditsOf(a, y)]
           g == [a \in Account |-> ChargedTo(a, y)]
           net == [a \in Account |-> AccountNet(a, y)]
           both == [a \in Account |-> q[a] + c[a]]
           all == Total([f \in Field |-> charged[<<f, y>>]], Field)
<1>1. y \in Year /\ y \in AnyYear /\ IsFiniteSet(Account)
  BY AccountsCarryNets, NextYear, ConstantsAssumption
<1>2. AccountsOpen(y + 1) = Total(net, Account) /\ \A a \in Account : net[a] \in Int
  BY AccountsCarryNets
<1>3. \A a \in Account : q[a] \in Int
  BY <1>1, AllocationIsNear DEF TypesInv
<1>4. /\ \A a \in Account : c[a] \in Int
      /\ Total(c, Account) = AccountsOpen(y) + OtherCredits(y)
      /\ AccountsOpen(y) \in Int /\ OtherCredits(y) \in Int
  BY <1>1, AccountsOpenWith
<1>5. Total(g, Account) = all /\ all \in Int /\ \A a \in Account : g[a] \in Int
  BY <1>1, PumpingIsAll
<1>6. \A a \in Account : /\ both[a] = q[a] + c[a] /\ both[a] = net[a] + g[a]
  <2>1. \A a \in Account : net[a] = q[a] + c[a] - g[a] /\ both[a] = q[a] + c[a]
    BY DEF AccountNet
  <2> HIDE DEF q, c, g, net, both
  <2>2. QED
    BY <1>3, <1>4, <1>5, <2>1
<1> HIDE DEF q, c, g, net, both, all
<1>7. Total(both, Account) = Total(q, Account) + Total(c, Account)
  BY <1>1, <1>3, <1>4, <1>6, TotalOfSums
<1>8. Total(both, Account) = Total(net, Account) + Total(g, Account)
  BY <1>1, <1>2, <1>5, <1>6, TotalOfSums
<1>9. Total(q, Account) \in Int /\ Total(net, Account) \in Int
  BY <1>1, <1>2, <1>3, TotalIsInt
<1>10. AccountsOpen(y + 1)
         = Total(q, Account) + AccountsOpen(y) + OtherCredits(y) - all
  BY <1>2, <1>4, <1>5, <1>7, <1>8, <1>9
<1>11. QED
  BY <1>10 DEF q, all

\* A year more, in the zones' book.
LEMMA ZonesOpenNext ==
  ASSUME TypesInv, RolledInv, NEW y \in fresh, AllPlanned(y), AllCarry
  PROVE  /\ ZonesOpen(y + 1)
              = Total([z \in Zone |-> plan[<<z, y>>]], Zone) + ZonesOpen(y)
                  - Total([f \in Field |-> charged[<<f, y>>]], Field) - LooseOf(y)
         /\ ZonesOpen(y) \in Int /\ Total([z \in Zone |-> plan[<<z, y>>]], Zone) \in Int
<1> DEFINE p == [z \in Zone |-> plan[<<z, y>>]]
           c == [z \in Zone |-> CarriedIn(z, y)]
           u == [z \in Zone |-> UsageOf(z, y)]
           net == [z \in Zone |-> CarriedIn(z, y + 1)]
           both == [z \in Zone |-> p[z] + c[z]]
           all == Total([f \in Field |-> charged[<<f, y>>]], Field)
<1>1. y \in Year /\ IsFiniteSet(Zone)
  BY ConstantsAssumption DEF TypesInv, FiguresInv
<1>2. \A z \in Zone : p[z] \in Int /\ c[z] \in Int /\ u[z] \in Int
  <2>1. Budgets \subseteq Int
    BY ConstantsAssumption
  <2>2. \A z \in Zone : plan[<<z, y>>] \in Budgets
    BY <1>1 DEF TypesInv, FiguresInv, AllPlanned
  <2>3. \A z \in Zone : CarriedIn(z, y) \in Int /\ UsageOf(z, y) \in Int
    BY <1>1, ZoneNetIsInt DEF TypesInv
  <2>4. QED
    BY <2>1, <2>2, <2>3
<1>3. \A z \in Zone : net[z] = p[z] + c[z] - u[z]
  <2> SUFFICES ASSUME NEW z \in Zone
               PROVE  CarriedIn(z, y + 1) = plan[<<z, y>>] + CarriedIn(z, y) - UsageOf(z, y)
    OBVIOUS
  <2>1. z \in Planned(y)
    BY DEF Planned, AllPlanned
  <2>2. Carried(z, y)
    BY DEF Carried, AllCarry
  <2>3. CarriedIn(z, y + 1) = ZoneNet(z, y, plan[<<z, y>>])
    BY <2>1, <2>2, CarriedNext
  <2>4. QED
    BY <2>3 DEF ZoneNet
<1>4. Total(u, Zone) = all + LooseOf(y) /\ all \in Int /\ LooseOf(y) \in Int
  BY <1>1, PumpingIsAll
<1>5. ZonesOpen(y) = Total(c, Zone) /\ ZonesOpen(y + 1) = Total(net, Zone)
  BY <1>1, BooksAreSums, AllCarriedIsTotal
<1>6. \A z \in Zone : both[z] = p[z] + c[z]
  OBVIOUS
<1> HIDE DEF p, c, u, net, both, all
<1>7. \A z \in Zone : both[z] = net[z] + u[z] /\ net[z] \in Int
  BY <1>2, <1>3, <1>6
<1>8. Total(both, Zone) = Total(p, Zone) + Total(c, Zone)
  BY <1>1, <1>2, <1>6, TotalOfSums
<1>9. Total(both, Zone) = Total(net, Zone) + Total(u, Zone)
  BY <1>1, <1>2, <1>7, TotalOfSums
<1>10. /\ Total(p, Zone) \in Int /\ Total(c, Zone) \in Int
       /\ Total(net, Zone) \in Int /\ Total(u, Zone) \in Int
  BY <1>1, <1>2, <1>7, TotalIsInt
<1>11. ZonesOpen(y + 1) = Total(p, Zone) + ZonesOpen(y) - all - LooseOf(y)
  BY <1>4, <1>5, <1>8, <1>9, <1>10
<1>12. QED
  BY <1>5, <1>10, <1>11 DEF p, all

\* The two books differ by what only the accounts count, and by the rounding.
LEMMA BooksDiffer ==
  ASSUME TypesInv, RolledInv, SourceInv, EachHasFields, NEW y \in Year, RolledUpTo(y), AllCarry,
         \A i \in 1 .. y : AllPlanned(i)
  PROVE  LET off == AccountsOpen(y + 1) - ZonesOpen(y + 1) - OnlyInAccounts(y)
             n == Cardinality(Account)
         IN off \in Int /\ n \in Nat /\ 2 * off <= n * y /\ -(n * y) <= 2 * off
<1> DEFINE n == Cardinality(Account)
           round == [i \in 1 .. y |->
                       Total([a \in Account |-> AccountAllocation(a, i)], Account)
                         - Total([z \in Zone |-> plan[<<z, i>>]], Zone)]
           only == [i \in 1 .. y |-> (OtherCredits(i) + LooseOf(i))]
           e == [i \in 1 .. y |-> round[i] + only[i]]
           gap == [i \in 1 .. y + 1 |-> AccountsOpen(i) - ZonesOpen(i)]
<1>1. /\ y \in Nat /\ 1 <= y /\ IsFiniteSet(1 .. y) /\ Cardinality(1 .. y) = y
      /\ \A i \in 1 .. y : i \in Year /\ i \in AnyYear /\ i \in fresh /\ AllPlanned(i)
  <2>1. y \in Nat /\ 1 <= y /\ \A i \in 1 .. y : i \in Year /\ i \in fresh
    BY ConstantsAssumption DEF Year, RolledUpTo
  <2>2. IsFiniteSet(1 .. y) /\ Cardinality(1 .. y) = y
    BY <2>1, FS_Interval
  <2>3. QED
    BY <2>1, <2>2, NextYear
<1>2. \A i \in 1 .. y : /\ round[i] \in Int /\ n \in Nat
                        /\ 2 * round[i] <= n /\ -n <= 2 * round[i]
  BY <1>1, AllocationsAddUp DEF TypesInv
<1>3. \A i \in 1 .. y : /\ OtherCredits(i) \in Int /\ LooseOf(i) \in Int
                        /\ AccountsOpen(i) \in Int /\ ZonesOpen(i) \in Int
  BY <1>1, AccountsOpenWith, PumpingIsAll, ZonesOpenNext
<1>4. \A i \in 1 .. y : only[i] \in Int
  BY <1>3
<1>5. \A i \in 1 .. y : e[i] = round[i] + only[i]
  OBVIOUS
<1>6. gap[1] = 0
  BY <1>1, FirstOpensEmpty
<1>7. \A i \in 1 .. y : gap[i + 1] = gap[i] + e[i]
  <2> SUFFICES ASSUME NEW i \in 1 .. y PROVE gap[i + 1] = gap[i] + e[i]
    OBVIOUS
  <2> DEFINE q == Total([a \in Account |-> AccountAllocation(a, i)], Account)
             p == Total([z \in Zone |-> plan[<<z, i>>]], Zone)
             all == Total([f \in Field |-> charged[<<f, i>>]], Field)
  <2>1. AccountsOpen(i + 1) = q + AccountsOpen(i) + OtherCredits(i) - all
    BY <1>1, AccountsOpenNext
  <2>2. ZonesOpen(i + 1) = p + ZonesOpen(i) - all - LooseOf(i) /\ p \in Int
    BY <1>1, ZonesOpenNext
  <2>3. all \in Int
    BY <1>1, PumpingIsAll
  <2>4. q \in Int
    <3> DEFINE f == [a \in Account |-> AccountAllocation(a, i)]
    <3>1. \A a \in Account : f[a] \in Int
      BY <1>1, AllocationIsNear DEF TypesInv
    <3>2. IsFiniteSet(Account)
      BY ConstantsAssumption
    <3> HIDE DEF f
    <3>3. Total(f, Account) \in Int
      BY <3>1, <3>2, TotalIsInt
    <3>4. QED
      BY <3>3 DEF f
  <2>5. i \in 1 .. y + 1 /\ i + 1 \in 1 .. y + 1
    BY <1>1
  <2>6. /\ gap[i] = AccountsOpen(i) - ZonesOpen(i)
        /\ gap[i + 1] = AccountsOpen(i + 1) - ZonesOpen(i + 1)
        /\ e[i] = (q - p) + (OtherCredits(i) + LooseOf(i))
    BY <2>5
  <2> HIDE DEF q, p, all, gap, e
  <2>7. QED
    BY <1>3, <2>1, <2>2, <2>3, <2>4, <2>6
<1>8. gap[y + 1] = AccountsOpen(y + 1) - ZonesOpen(y + 1)
  BY <1>1
<1>9. OnlyInAccounts(y) = Total(only, 1 .. y)
  BY <1>1, BooksAreSums, OnlyIsTotal
<1>10. e = [i \in 1 .. y |-> e[i]]
  OBVIOUS
<1> HIDE DEF n, round, only, e, gap
<1>11. gap[y + 1] = Stretch(e, 1, y)
  <2>1. \A i \in 1 .. y : e[i] \in Int
    BY <1>2, <1>4, <1>5
  <2>2. y \in 0 .. y
    BY <1>1
  <2>3. QED
    BY <1>1, <1>6, <1>7, <2>1, <2>2, AllIsCarried
<1>12. Stretch(e, 1, y) = Total(e, 1 .. y)
  BY <1>10 DEF Stretch
<1>13. Total(e, 1 .. y) = Total(round, 1 .. y) + Total(only, 1 .. y)
  BY <1>1, <1>2, <1>4, <1>5, TotalOfSums
<1>14. Total(only, 1 .. y) \in Int
  BY <1>1, <1>4, TotalIsInt
<1>15. n \in Nat
  BY <1>1, <1>2
<1>16. /\ Total(round, 1 .. y) \in Int
       /\ 2 * Total(round, 1 .. y) <= n * y /\ -(n * y) <= 2 * Total(round, 1 .. y)
  BY <1>1, <1>2, <1>15, TotalOfSmall
<1>17. AccountsOpen(y + 1) - ZonesOpen(y + 1) - OnlyInAccounts(y) = Total(round, 1 .. y)
  BY <1>8, <1>9, <1>11, <1>12, <1>13, <1>14, <1>16
<1>18. QED
  BY <1>15, <1>16, <1>17 DEF n

\* The two books are rolled in two transactions and from different figures, yet
\* where every surplus is carried they tell one story, to within half a unit an
\* account and a year: where every zone and every account has a use area, for any
\* allotment of use areas to zones and accounts.  A plan for a zone without one
\* would be carried in the zones' book and given to no account (_account_results
\* beside _budget_results).
THEOREM AccountsAlwaysAddUp == ASSUME EachHasFields PROVE Spec => []AccountsAddUp
<1>1. Init => TypesInv /\ RolledInv /\ SourceInv
  <2>1. Init => SourceInv
    BY DEF Init, SourceInv, OwnCredits, EmptyBag, SetToBag
  <2>2. QED
    BY <2>1, TypesStart, RolledStart
<1>2. TypesInv /\ RolledInv /\ SourceInv /\ [Next]_vars
        => (TypesInv /\ RolledInv /\ SourceInv)'
  BY TypesStep, RolledStep, SourceStep
<1>3. TypesInv /\ RolledInv /\ SourceInv => AccountsAddUp
  <2> SUFFICES ASSUME TypesInv, RolledInv, SourceInv, NEW y \in Year, RolledUpTo(y), AllCarry,
                      \A i \in 1 .. y, z \in Zone : plan[<<z, i>>] # Nothing
               PROVE  LET off == AccountsOpen(y + 1) - ZonesOpen(y + 1) - OnlyInAccounts(y)
                      IN 2 * (IF off < 0 THEN -off ELSE off) <= y * Cardinality(Account)
    BY DEF AccountsAddUp, AllCarry
  <2> DEFINE off == AccountsOpen(y + 1) - ZonesOpen(y + 1) - OnlyInAccounts(y)
             n == Cardinality(Account)
  <2>1. \A i \in 1 .. y : AllPlanned(i)
    BY DEF AllPlanned
  <2>2. off \in Int /\ n \in Nat /\ 2 * off <= n * y /\ -(n * y) <= 2 * off
    BY <2>1, BooksDiffer
  <2>3. y \in Nat /\ n * y = y * n /\ n * y \in Int
    BY <2>2, ConstantsAssumption DEF Year
  <2> HIDE DEF off, n
  <2>4. 2 * (IF off < 0 THEN -off ELSE off) <= y * n
    BY <2>2, <2>3
  <2>5. QED
    BY <2>4 DEF off, n
<1>4. QED
  BY <1>1, <1>2, <1>3, PTL DEF Spec
=============================================================================
