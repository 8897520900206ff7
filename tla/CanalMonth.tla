----------------------------- MODULE CanalMonth -----------------------------
(***************************************************************************)
(* The calculation of one month: the engine, every headgate's division, the *)
(* engine again, in one transaction (accounting/engine_run.py, run_month),  *)
(* while the office types what it likes.  Each query of the transaction     *)
(* sees what is committed by then, so a change typed half way is read by    *)
(* what is still to come and not by what is done.  One month in one water   *)
(* year; one calculation at a time (CalcQueue).                             *)
(***************************************************************************)
EXTENDS MonthEngine

CONSTANTS
  Districts,     \* what may be on record, and in the books, at first
  Volumes,       \* the volumes a person may type
  Losses,        \* the canal losses a point may be given
  MaxEdits       \* bound: the changes typed

VARIABLES
  district,      \* what is on record
  books,         \* the rows of the month the calculation owns, as committed
  draft,         \* the same as the running transaction sees them
  stage,         \* "idle", or "divide" inside the transaction
  undivided,     \* the points still to be divided
  moved,         \* something was typed since the running calculation began
  upToDate,      \* the books were figured from the district as it stands
  stopped,       \* why the last calculation stopped: "", "losses", "demand"
  strayed,       \* the zones between which a use area moved whose run held a deposit
  edits          \* how often the district was changed

monthVars ==
  <<district, books, draft, stage, undivided, moved, upToDate, stopped, strayed, edits>>

(* ------------------------------------------------------------------------ *)
(* What is on record, and in the books.                                     *)

OrNothing(S) == S \cup {Nothing}

\* Figures of some of a set's members.
Amounts(r, S, figures) == DOMAIN r \subseteq S /\ r \in [DOMAIN r -> figures]

\* A record of these fields.
Has(r, fields) == r = [x \in fields |-> r[x]]

Diversion == [af : Nat, estimated : BOOLEAN]

Loss == [evaporation : Nat, seepage : Nat, spill : Nat]

IsDistrict(d) ==
  /\ Has(d, {"records", "share", "byNeed", "active", "loss", "standsIn", "owner", "acres",
             "efficiency", "zone", "account", "own", "fallow", "voided", "credit",
             "leaveBehind", "et", "rain", "rainCapped", "wells", "typedMeter"})
  /\ d.records \in [Point -> Seq(Diversion)]
  /\ d.loss \in [Point -> Loss]
  /\ d.byNeed \subseteq Point /\ d.active \subseteq Point
  /\ Has(d.share, Point) /\ \A p \in Point : Amounts(d.share[p], Field, Nat)
  /\ d.standsIn \in [Point -> OrNothing(Zone)] /\ d.owner \in [Point -> OrNothing(Account)]
  /\ d.acres \in [Field -> Nat] /\ d.efficiency \in [Field -> 1 .. FullEfficiency]
  /\ d.zone \in [Field -> OrNothing(Zone)] /\ d.account \in [Field -> OrNothing(Account)]
  /\ Amounts(d.own, Field, Nat)
  /\ d.fallow \subseteq Field /\ d.voided \subseteq Field
  /\ d.credit \in {"none", "owner", "by_acre"} /\ d.leaveBehind \in 0 .. 1000
  /\ d.et \in [Field -> OrNothing(Nat)] /\ d.rain \in [Field -> Nat]
  /\ d.rainCapped \in BOOLEAN
  /\ Has(d.wells, Well)
  /\ \A w \in Well : /\ Has(d.wells[w], {"share", "pumped"})
                     /\ Amounts(d.wells[w].share, Field, Nat)
                     /\ d.wells[w].pumped \in OrNothing(Nat)
  /\ d.typedMeter \subseteq Field

LossRow == [diverted : Nat, evaporation : Nat, seepage : Nat, spill : Nat,
            available : Int, own : Nat, unserved : Int, zone : OrNothing(Zone)]

RunRow == [net : Int, over : Nat, final : Nat,
           disposition : {"metered", "groundwater", "unmet_demand"},
           stamp : {"none", "old", "pooled"}, pooled : Nat]

IsBooks(b) ==
  /\ Has(b, {"share", "beyond", "loss", "credit", "run", "calculated", "wellShare",
             "credited", "pool", "basin"})
  /\ Has(b.share, Point) /\ \A p \in Point : Amounts(b.share[p], Field, Int)
  /\ Has(b.credit, Point) /\ \A p \in Point : Amounts(b.credit[p], Account, Int)
  /\ b.beyond \in [Point -> Int] /\ b.loss \in [Point -> OrNothing(LossRow)]
  /\ b.run \in [Field -> OrNothing(RunRow)] /\ b.calculated \in [Field -> OrNothing(Nat)]
  /\ b.wellShare \in [Field -> OrNothing(Int)] /\ b.credited \subseteq Field
  /\ b.pool \in [Zone -> Int] /\ b.basin \in [Zone -> Int]

\* What the month's rows say of the water left at a headgate.
Stored(b, p) == b.loss[p].own + SumFunction(b.share[p]) + b.beyond[p] + b.loss[p].unserved

\* What was diverted at a headgate is what the canal lost and what it had left; and
\* that is the use areas' own deliveries, their shares, what no one takes and what
\* reaches no one, or less where no use area divides the month, or else the own
\* deliveries alone pass it and nothing is divided.
Closes(b, p) ==
  LET row == b.loss[p]
  IN IF row = Nothing THEN b.share[p] = NoShares /\ b.beyond[p] = 0
     ELSE /\ row.diverted = row.evaporation + row.seepage + row.spill + row.available
          /\ IF row.own > row.available THEN Stored(b, p) = row.own + row.unserved
             ELSE /\ Stored(b, p) >= row.available
                  /\ b.share[p] # NoShares => Stored(b, p) = row.available

\* What the seepage pools hold of a losses row.
SeepageIn(row, z) == IF row # Nothing /\ row.zone = z THEN row.seepage ELSE 0

SeepageHeld(b, z) ==
  b.pool[z] = SumFunction([p \in Point |-> SeepageIn(b.loss[p], z)])

\* What a basin's pool holds of the runs of the use areas in its zone.
DepositsHeld(d, b, z) ==
  b.basin[z] = SumFunctionOnSet([f \in Field |-> PriorPooled(d, b.run[f], f)],
                                {f \in Field : d.zone[f] = z})

ASSUME DistrictsAssumption ==
  /\ Losses \subseteq Loss /\ Volumes \subseteq Nat /\ MaxEdits \in Nat
  /\ Nothing \notin LossRow \cup RunRow
  /\ \A start \in Districts :
       /\ IsDistrict(start.district) /\ IsBooks(start.books)
       /\ \A p \in Point : Closes(start.books, p)
       /\ \A z \in Zone : SeepageHeld(start.books, z)
                          /\ DepositsHeld(start.district, start.books, z)

(* ------------------------------------------------------------------------ *)
(* The rows a division replaces.                                            *)

\* MUTANT: a changed zone takes its seepage, and the old one is not asked back.
SettleSeepageIn(pool, prior, row) ==
  [z \in Zone |-> IF SeepageIn(row, z) = 0 THEN pool[z]
                  ELSE pool[z] + SeepageIn(row, z) - SeepageIn(prior, z)]

\* One signed change to each pool: the row's seepage in, the prior row's out.
SettleSeepage(pool, prior, row) ==
  [z \in Zone |-> pool[z] + SeepageIn(row, z) - SeepageIn(prior, z)]

\* What each use area used of water in the month, 0 where the engine has not run.
Needs(b) == [f \in Field |-> IF b.run[f] = Nothing THEN 0 ELSE b.run[f].net]

LossIn(d, p, plan) ==
  IF plan.loss = Nothing THEN Nothing
  ELSE [plan.loss EXCEPT !.zone = SeepageZone(d, p, plan.share)]

\* MUTANT: the credits of the last run stay beside the new ones.
StoreBeside(d, b, p, plan, row) ==
  [b EXCEPT !.share[p] = plan.share,
            !.beyond[p] = plan.beyond,
            !.loss[p] = row,
            !.pool = SettleSeepage(b.pool, b.loss[p], row),
            !.credit[p] = AddShares(b.credit[p], SeepageCredits(d, p, row))]

\* The point's rows of the month, its losses and its credits are replaced.
Store(d, b, p, plan, row) ==
  [b EXCEPT !.share[p] = plan.share,
            !.beyond[p] = plan.beyond,
            !.loss[p] = row,
            !.pool = SettleSeepage(b.pool, b.loss[p], row),
            !.credit[p] = SeepageCredits(d, p, row)]

StorePlan(d, b, p, plan) == Store(d, b, p, plan, LossIn(d, p, plan))

StoreAllocation(d, b, p) == StorePlan(d, b, p, Division(d, Needs(b), p))

(* ------------------------------------------------------------------------ *)
(* The transaction.                                                         *)

Visited(d) == {p \in d.active : Direct(d, p) # <<>> \/ Served(d, p) # {}}

Begin ==
  /\ stage = "idle"
  /\ draft' = EnginePass(district, books)
  /\ undivided' = Visited(district)
  /\ stage' = "divide"
  /\ moved' = FALSE
  /\ stopped' = ""
  /\ UNCHANGED <<district, books, upToDate, strayed, edits>>

\* An error rolls the whole month back.
StopMonth(why) ==
  /\ draft' = books
  /\ stage' = "idle"
  /\ undivided' = {}
  /\ stopped' = why
  /\ UNCHANGED <<district, books, moved, upToDate, strayed, edits>>

\* The points are divided in the order of their keys.
DivideNext ==
  /\ stage = "divide"
  /\ undivided # {}
  /\ LET p == Min(undivided)
     IN \/ LossesTooLarge(district, p) /\ StopMonth("losses")
        \/ /\ ~LossesTooLarge(district, p)
           /\ DemandRefused(district, Needs(draft), p)
           /\ StopMonth("demand")
        \/ /\ ~LossesTooLarge(district, p)
           /\ ~DemandRefused(district, Needs(draft), p)
           /\ draft' = StoreAllocation(district, draft, p)
           /\ undivided' = undivided \ {p}
           /\ UNCHANGED <<district, books, stage, moved, upToDate, stopped, strayed, edits>>

\* MUTANT: the engine does not run again once the canal water is divided.
FinishAtOnce ==
  /\ stage = "divide"
  /\ undivided = {}
  /\ books' = draft
  /\ draft' = books'
  /\ district' = [district EXCEPT !.records = [p \in Point |-> Direct(district, p)]]
  /\ stage' = "idle"
  /\ upToDate' = ~moved
  /\ UNCHANGED <<undivided, moved, stopped, strayed, edits>>

FinishMonth ==
  /\ stage = "divide"
  /\ undivided = {}
  /\ books' = EnginePass(district, draft)
  /\ draft' = books'
  /\ district' = [district EXCEPT !.records = [p \in Point |-> Direct(district, p)]]
  /\ stage' = "idle"
  /\ upToDate' = ~moved
  /\ UNCHANGED <<undivided, moved, stopped, strayed, edits>>

Calculate == Begin \/ DivideNext \/ FinishMonth

(* ------------------------------------------------------------------------ *)
(* The office.                                                              *)

\* A form is saved, by which deposits stray between some zones or none.
Save(d, zones) ==
  /\ edits < MaxEdits
  /\ d # district
  /\ district' = d
  /\ edits' = edits + 1
  /\ moved' = TRUE
  /\ upToDate' = FALSE
  /\ strayed' = strayed \cup zones
  /\ UNCHANGED <<books, draft, stage, undivided, stopped>>

Type(d) == Save(d, {})

Toggle(f, S) == IF f \in S THEN S \ {f} ELSE S \cup {f}

\* One current record of a point for a month's date.
SaveDiversion(p) ==
  \E v \in Volumes :
    /\ district.records[p] = <<>>
    /\ Type([district EXCEPT !.records[p] = Append(@, [af |-> v, estimated |-> FALSE])])

VoidDiversion(p) ==
  /\ Direct(district, p) # <<>>
  /\ Type([district EXCEPT !.records[p] = RemoveFirst(@, Head(Direct(district, p)))])

SaveDelivery(f) ==
  \E v \in Volumes :
    Type([district EXCEPT !.own = AddShares(@, [g \in {f} |-> v])])

SaveMeterRow(f) == Type([district EXCEPT !.typedMeter = @ \cup {f}])

ReadMeter(w) == \E v \in Volumes : Type([district EXCEPT !.wells[w].pumped = v])

SaveFallow(f) == Type([district EXCEPT !.fallow = Toggle(f, @)])

VoidUseArea(f) ==
  /\ f \notin district.voided
  /\ Type([district EXCEPT !.voided = @ \cup {f}])

EditPoint(p) ==
  \/ \E l \in Losses : Type([district EXCEPT !.loss[p] = l])
  \/ Type([district EXCEPT !.byNeed = Toggle(p, @)])

\* The membership in force in the month is corrected or ended.  A deposit that
\* still stands is taken back from the pool of the zone the use area is in by then.
HoldsDeposit(f) == \E b \in {books, draft} : PriorPooled(district, b.run[f], f) # 0

MoveUseArea(f) ==
  \E z \in OrNothing(Zone) :
    Save([district EXCEPT !.zone[f] = z],
         IF HoldsDeposit(f) THEN Zone \cap {z, district.zone[f]} ELSE {})

Office ==
  \/ \E p \in Point : SaveDiversion(p) \/ VoidDiversion(p) \/ EditPoint(p)
  \/ \E f \in Field : \/ SaveDelivery(f) \/ SaveMeterRow(f) \/ SaveFallow(f)
                      \/ VoidUseArea(f) \/ MoveUseArea(f)
  \/ \E w \in Well : ReadMeter(w)

MonthInit ==
  /\ \E start \in Districts : district = start.district /\ books = start.books
  /\ draft = books
  /\ stage = "idle"
  /\ undivided = {}
  /\ moved = FALSE
  /\ upToDate = FALSE
  /\ stopped = ""
  /\ strayed = {}
  /\ edits = 0

MonthNext == Calculate \/ Office

MonthSpec == MonthInit /\ [][MonthNext]_monthVars

(* ------------------------------------------------------------------------ *)
(* Properties.                                                              *)

\* Every row is one the database would take, and a transaction is open exactly
\* while points are divided.
MonthTypeOK ==
  /\ IsDistrict(district)
  /\ IsBooks(books)
  /\ IsBooks(draft)
  /\ stage \in {"idle", "divide"}
  /\ stage = "idle" => draft = books /\ undivided = {}
  /\ undivided \subseteq Point
  /\ moved \in BOOLEAN /\ upToDate \in BOOLEAN
  /\ stopped \in {"", "losses", "demand"}
  /\ strayed \subseteq Zone
  /\ edits \in 0..MaxEdits

\* The month of a headgate closes: what was diverted is what the canal lost, the
\* use areas' own deliveries, their shares, what no one takes and what reaches no
\* one, to the last ten-thousandth, unless the own deliveries alone pass it, and
\* then nothing is divided (CanalMonthLoss; _allocate_month).  Where no use area
\* divides the month, what is stored may pass what is left by less than half a
\* ten-thousandth for each record: parts are rounded and the last, which takes what
\* they leave, is not recorded below nothing.  What a calculation that nothing
\* moved under stored of a headgate it went over is of the water on record there.
WaterAddsUp ==
  /\ \A p \in Point : Closes(books, p)
  /\ upToDate =>
       \A p \in Visited(district) :
         LET row == books.loss[p]
         IN row # Nothing =>
              /\ row.diverted = Recorded(district, p)
              /\ row.own <= row.available =>
                   2 * (Stored(books, p) - row.available) < Len(Direct(district, p))

\* A seepage pool holds the seepage of the losses rows that name its zone and
\* nothing else, however often a month was figured and whatever zone a row named
\* before (_store_month_loss's signed change).
PoolHoldsSeepage == \A z \in Zone : SeepageHeld(books, z)

\* What an older version put in a zone's basin pool is there for the runs of its use
\* areas that still say so, and is taken back once, with the run.  A use area that
\* was moved while its deposit stood has it taken from the pool of its new zone, not
\* of the one that holds it (_over_delivery_routing reads the membership in force
\* now): the zones it moved between are set aside, and no other.
OldDepositTakenOnce == \A z \in Zone \ strayed : DepositsHeld(district, books, z)

\* The pools of a zone hold what the books say went into them, whatever was figured
\* again, stopped or typed over: the seepage of the losses rows, and what an older
\* version's runs still say they put there, but for the zones between which a use
\* area was moved with its deposit.
PoolsAddUp == PoolHoldsSeepage /\ OldDepositTakenOnce

\* No acre-foot of groundwater is counted both as metered and as calculated, and a
\* voided use area carries nothing of the engine's (_write_residual_row).
NeverCountedTwice ==
  upToDate =>
    \A f \in Field :
      /\ books.calculated[f] # Nothing =>
           f \notin TypedRows(district) /\ books.wellShare[f] = Nothing /\ HasWell(district, f)
      /\ f \in district.voided =>
           books.run[f] = Nothing /\ books.calculated[f] = Nothing /\ books.wellShare[f] = Nothing

\* A use area's run answers the canal water in the same books: its net use is the
\* part of the water the crop could use, and the ground's part, less what was
\* delivered beyond the use, up to the rounding of the ledger (run_month's second
\* pass).
RunAnswersShares ==
  upToDate =>
    \A f \in Figured(district) :
      LET run == books.run[f]
      IN run.net >= 0 =>
           Abs(run.net - Consumed(district, books, f) - run.final + run.over) <= 1

\* A headgate that divides one record by crop need gives no use area more than its
\* need over its efficiency, wherever the rounding falls (allocate_by_demand).
WithinNeed ==
  upToDate =>
    \A p \in Visited(district) \cap district.byNeed :
      LET need == [f \in Free(district, p) |-> Needs(books)[f]]
      IN Len(district.records[p]) = 1 /\ (\E f \in DOMAIN need : need[f] > 0) =>
           \A f \in DOMAIN books.share[p] :
             /\ need[f] > 0
             /\ books.share[p][f] <= DemandCaps(need, district.efficiency)[f]

\* What the wells pumped is on the ledger, all of it and once, as the shares of the
\* use areas they water (_well_meter_shares), where no use area has two of them: of
\* two, it keeps the part of one only.
PumpedIsCounted ==
  LET W == Divided(district)
      Watered(w) == DOMAIN district.wells[w].share
      F == UNION {Watered(w) : w \in W}
      oneEach == \A v, w \in W : v # w => Watered(v) \cap Watered(w) = {}
  IN upToDate /\ oneEach /\ F \cap district.voided = {} =>
       SumFunctionOnSet([w \in Well |-> district.wells[w].pumped], W)
         = SumFunctionOnSet(books.wellShare, F)

\* The ground's water is on the ledger once: all that was metered, and what was
\* calculated only where nothing was metered.
GroundwaterOnce == PumpedIsCounted /\ NeverCountedTwice

\* Figuring a month again from the same records changes no row of it
\* (run_calculations: "re-running is idempotent").
RerunChangesNothing ==
  [][FinishMonth /\ upToDate /\ ~moved => UNCHANGED <<books, district>>]_monthVars
=============================================================================
