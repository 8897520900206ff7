---------------------------- MODULE CanalDivision ----------------------------
(***************************************************************************)
(* How one headgate's water of a month is divided among the use areas it     *)
(* serves (surface/services.py).                                            *)
(*                                                                          *)
(* `d' is the district as it is on record, one record:                      *)
(*   records   of a point, its direct-use diversions of the month, in order  *)
(*   share     of a point, the share of each use area it serves              *)
(*   byNeed    the points that divide by crop need                          *)
(*   loss      of a point, its evaporation, seepage and spill                *)
(*   standsIn  of a point, the management area its location lies in          *)
(*   owner     of a point, the water account that owns it                   *)
(*   acres, efficiency, zone, account   of a use area                       *)
(*   own       the use areas with a delivery recorded on them, and how much  *)
(*   fallow, voided   the use areas left out this month                     *)
(*   credit, leaveBehind   what becomes of a canal's seepage                 *)
(* Volumes, shares and efficiencies are in the units of AllocationMath.      *)
(***************************************************************************)
EXTENDS AllocationMath

CONSTANTS Point, Field, Zone, Account,
          Nothing          \* no row, no zone, no account, no figure

ASSUME KeysAssumption ==
  /\ Point \subseteq Int /\ Field \subseteq Int
  /\ \A S \in {Point, Field, Zone, Account} : IsFiniteSet(S)
  /\ Nothing \notin Int \cup Zone \cup Account

Served(d, p) == DOMAIN d.share[p]

\* A record the retired estimate made up goes before the month is divided.
Direct(d, p) ==
  FoldLeft(LAMBDA kept, r : IF r.estimated THEN kept ELSE Append(kept, r), <<>>, d.records[p])

Recorded(d, p) == FoldLeft(LAMBDA sum, r : sum + r.af, 0, Direct(d, p))

\* The use areas with a delivery of their own that counts.
OwnFields(d) == DOMAIN d.own \ d.voided

Plus(a, b) == <<a[1] * b[2] + b[1] * a[2], a[2] * b[2]>>

\* The part of the use areas' own deliveries that came through this headgate:
\* among the headgates of one use area by what each recorded, and evenly when
\* none recorded anything.
OwnTotal(d, p) ==
  LET Serving(f) == {q \in Point : f \in Served(d, q)}
      Part(f) == LET all == SumFunctionOnSet([q \in Point |-> Recorded(d, q)], Serving(f))
                 IN IF all > 0 THEN <<d.own[f] * Recorded(d, p), all>>
                               ELSE <<d.own[f], Cardinality(Serving(f))>>
      total == MapThenFoldSet(Plus, <<0, 1>>, Part, LAMBDA S : CHOOSE f \in S : TRUE,
                              OwnFields(d) \cap Served(d, p))
  IN Quantize(total[1], total[2])

LossFraction(d, p) == d.loss[p].evaporation + d.loss[p].seepage + d.loss[p].spill

\* What the canal loses comes off the top; the rounding stays with the rest.
MonthLosses(d, p) ==
  LET diverted == Recorded(d, p)
      Lost(way) == Quantize(diverted * d.loss[p][way], Whole)
  IN [diverted |-> diverted, evaporation |-> Lost("evaporation"),
      seepage |-> Lost("seepage"), spill |-> Lost("spill"),
      available |-> diverted - Lost("evaporation") - Lost("seepage") - Lost("spill"),
      own |-> 0, unserved |-> 0, zone |-> Nothing]

\* The use areas that divide what is left.
Free(d, p) == Served(d, p) \ (OwnFields(d) \cup d.fallow)

\* The part of the month's remainder each record brings.
RecordRemainders(records, loss, own) ==
  LET rest == loss.available - own
      last == Len(records)
      part == [i \in 1..(last - 1) |-> Quantize(rest * records[i].af, loss.diverted)]
  IN IF own = 0 /\ loss.available = loss.diverted
     THEN [i \in DOMAIN records |-> records[i].af]
     ELSE Append(part, rest - SumFunction(part))

\* MUTANT: what rounding the parts leaves over is not placed.
FractionRowsUnplaced(d, p, total) ==
  LET F == Free(d, p)
      weight == ApportionSharedSupply([f \in F |-> d.share[p][f]], [f \in F |-> d.acres[f]])
  IN [f \in F |-> Quantize(total * weight[f], Whole)]

\* By the shares the district entered, or by acres where it entered none.
FractionRows(d, p, total) ==
  LET F == Free(d, p)
      weight == ApportionSharedSupply([f \in F |-> d.share[p][f]], [f \in F |-> d.acres[f]])
  IN IF F = {} THEN NoShares
     ELSE PlaceResidual([f \in F |-> Quantize(total * weight[f], Whole)], total)

\* By crop need, when the point divides so and a free use area has a need.
NeedRows(d, need, p, total) ==
  IF p \notin d.byNeed THEN NoShares
  ELSE LET F == Free(d, p)
       IN AllocateByDemand(total, [f \in F |-> need[f]], [f \in F |-> d.efficiency[f]])

\* One record's rows, and its water that no use area takes: by need where that
\* divides it, else by shares.  Less than nothing left over is not recorded.
SplitRows(d, p, total, byNeed) ==
  LET surplus == IF byNeed # NoShares THEN total - SumFunction(byNeed)
                 ELSE IF Free(d, p) = {} THEN total ELSE 0
  IN [share |-> IF byNeed # NoShares THEN byNeed ELSE FractionRows(d, p, total),
      beyond |-> Most(surplus, 0)]

SplitRecord(d, need, p, total) == SplitRows(d, p, total, NeedRows(d, need, p, total))

AddShares(s, t) ==
  [f \in DOMAIN s \cup DOMAIN t |->
     (IF f \in DOMAIN s THEN s[f] ELSE 0) + (IF f \in DOMAIN t THEN t[f] ELSE 0)]

NoRows(loss) == [share |-> NoShares, beyond |-> 0, loss |-> loss]

AddRows(rows, split) ==
  [rows EXCEPT !.share = AddShares(rows.share, split.share),
               !.beyond = rows.beyond + split.beyond]

\* What each record brings to divide.
ToDivide(d, p, loss) == RecordRemainders(Direct(d, p), loss, loss.own)

LossWithOwn(d, p) == [MonthLosses(d, p) EXCEPT !.own = OwnTotal(d, p)]

\* A record that brings nothing has no rows.
AddRecord(d, need, p, rows, total) ==
  IF total = 0 THEN rows ELSE AddRows(rows, SplitRecord(d, need, p, total))

\* The rows of each record over those of the records before it, unless the use
\* areas' own deliveries are more than the headgate has left.
AllocateMonth(d, need, p, loss) ==
  IF loss.own > loss.available THEN NoRows(loss)
  ELSE FoldLeft(LAMBDA rows, total : AddRecord(d, need, p, rows, total),
                NoRows(loss), ToDivide(d, p, loss))

\* What the point's month comes to: the rows of its use areas, what no one
\* takes, and the canal's losses; no losses row when nothing is recorded.
Division(d, need, p) ==
  CASE Direct(d, p) = <<>> -> NoRows(Nothing)
    [] Served(d, p) = {} /\ Direct(d, p) # <<>> ->
         LET loss == MonthLosses(d, p)
         IN NoRows([loss EXCEPT !.unserved = loss.available])
    [] OTHER -> AllocateMonth(d, need, p, LossWithOwn(d, p))

\* The canal's shares leave nothing, which stops the month.
LossesTooLarge(d, p) == Direct(d, p) # <<>> /\ LossFraction(d, p) >= Whole

\* A need or a remainder below nothing, which the division refuses.
DemandRefused(d, need, p) ==
  /\ Direct(d, p) # <<>> /\ Served(d, p) # {}
  /\ p \in d.byNeed
  /\ LET loss == LossWithOwn(d, p)
     IN /\ loss.own <= loss.available
        /\ \E total \in Range(ToDivide(d, p, loss)) \ {0} :
             ~Divisible(total, [f \in Free(d, p) |-> need[f]])

\* The zone that takes the point's seepage: the one the point stands in, else
\* that of the use area with the largest share, the lower numbered of two.
SeepageZone(d, p, share) ==
  LET biggest == CHOOSE f \in DOMAIN share :
                   \A g \in DOMAIN share :
                      share[f] > share[g] \/ (share[f] = share[g] /\ f <= g)
  IN CASE d.standsIn[p] # Nothing -> d.standsIn[p]
       [] d.standsIn[p] = Nothing /\ DOMAIN share = {} -> Nothing
       [] OTHER -> d.zone[biggest]

\* The water-account credits the point's seepage earns, by the district's choice.
SeepageCredits(d, p, loss) ==
  LET F == Served(d, p)
      acre == IF \E f \in F : d.acres[f] # 0 THEN d.acres ELSE [f \in Field |-> 1]
      Acres(G) == SumFunctionOnSet(acre, G)
      Of(a) == {f \in F : d.account[f] = a}
      Kept(part, whole) ==
        Quantize(loss.seepage * (1000 - d.leaveBehind) * part, 1000 * whole)
      earned == CASE d.credit = "owner" /\ d.owner[p] # Nothing ->
                       [a \in {d.owner[p]} |-> Kept(1, 1)]
                  [] d.credit = "by_acre" ->
                       [a \in {d.account[f] : f \in F} \ {Nothing} |->
                          Kept(Acres(Of(a)), Acres(F))]
                  [] OTHER -> NoShares
  IN IF loss = Nothing THEN NoShares
     ELSE [a \in {b \in DOMAIN earned : earned[b] # 0} |-> earned[a]]
=============================================================================
