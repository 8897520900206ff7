----------------------------- MODULE MonthEngine -----------------------------
(***************************************************************************)
(* One pass of the calculation engine over a month's use areas              *)
(* (accounting/management/commands/run_calculations.py, accounting/steps.py,*)
(* with the default plan's steps).                                          *)
(*                                                                          *)
(* Of the district `d' it reads, besides what CanalDivision reads,          *)
(*   et, rain      of a use area: what the satellite saw, or Nothing, and    *)
(*                 the rain the plan's method makes of the month's, both so  *)
(*                 many parts of a ledger unit, Fine of them to one          *)
(*   rainCapped    whether the method holds the rain to the crop's use       *)
(*   wells         of a well, the share of each use area it waters and what  *)
(*                 its meters say it pumped, or Nothing                      *)
(*   typedMeter    the use areas with a meter row a person typed             *)
(* and of the books `b' the rows the pass replaces:                         *)
(*   share, run, calculated, wellShare, credited   by headgate and use area  *)
(*   basin         of a zone, the pool of an older version's over-delivery   *)
(***************************************************************************)
EXTENDS CanalDivision

CONSTANT Well

ASSUME WellsAssumption == Well \subseteq Int /\ IsFiniteSet(Well)

Fine == 2

Current(d) == Field \ d.voided

HasWell(d, f) == \E w \in Well : f \in DOMAIN d.wells[w].share

(* ------------------------------------------------------------------------ *)
(* A well's meter, divided among the use areas it waters.                   *)

TypedRows(d) == d.typedMeter \ d.voided

\* The wells whose readings state a volume and none of whose use areas has a
\* meter row of its own.
Divided(d) ==
  {w \in Well : LET share == d.wells[w].share
                IN /\ d.wells[w].pumped # Nothing
                   /\ SumFunction(share) > 0
                   /\ DOMAIN share \cap TypedRows(d) = {}}

\* Every use area's part of what a well pumped; the last takes the rest.
WellParts(well) ==
  LET part == [f \in DOMAIN well.share |->
                 Quantize(well.pumped * well.share[f], SumFunction(well.share))]
  IN PlaceResidual(part, well.pumped)

\* A use area two wells water keeps the part of the one read last.
WellMeterShares(d) ==
  LET Of(f) == {w \in Divided(d) : f \in DOMAIN d.wells[w].share}
  IN [f \in {g \in Current(d) : Of(g) # {}} |-> WellParts(d.wells[LastKey(Of(f))])[f]]

Metered(d) == TypedRows(d) \cup DOMAIN WellMeterShares(d)

(* ------------------------------------------------------------------------ *)
(* The plan's steps for one use area.                                       *)

EtGross(d, f) == IF f \in d.fallow THEN 0 ELSE d.et[f]

\* The rain is read against the satellite's figure, fallow or not.
EffectivePrecip(d, f) ==
  IF d.rainCapped THEN Least(d.rain[f], d.et[f]) ELSE d.rain[f]

\* The part of the month's surface rows the crop could use.
Consumed(d, b, f) ==
  LET points == {p \in Point : f \in DOMAIN b.share[p]}
      divided == SumFunctionOnSet([p \in points |-> b.share[p][f]], points)
      typed == IF f \in DOMAIN d.own THEN d.own[f] ELSE 0
  IN Quantize(Abs(divided + typed) * d.efficiency[f], FullEfficiency)

\* What is left for the ground to supply, below zero when there was too much
\* water; less than one ledger unit is two roundings that disagree.
Running(d, b, f) ==
  LET consumed == Consumed(d, b, f)
      running == EtGross(d, f) - EffectivePrecip(d, f) - Fine * consumed
  IN IF consumed > 0 /\ Abs(running) < Fine THEN 0 ELSE running

\* What came in beyond the crop's use and was not rain, in ledger units.
OverDelivery(d, b, f) ==
  LET surplus == Most(0, -Running(d, b, f))
      rain == Most(0, EffectivePrecip(d, f) - EtGross(d, f))
  IN Quantize(surplus - Least(surplus, rain), Fine)

FinalAf(d, b, f) == Quantize(Most(0, Running(d, b, f)), Fine)

NetUse(d, f) == Quantize(EtGross(d, f), Fine) - Quantize(EffectivePrecip(d, f), Fine)

Disposition(d, f) ==
  CASE f \in Metered(d) -> "metered"
    [] f \notin Metered(d) /\ HasWell(d, f) -> "groundwater"
    [] OTHER -> "unmet_demand"

(* ------------------------------------------------------------------------ *)
(* What a pass leaves of each use area.                                     *)

NewRun(d, b, f) ==
  [net |-> NetUse(d, f), over |-> OverDelivery(d, b, f), final |-> FinalAf(d, b, f),
   disposition |-> Disposition(d, f), stamp |-> "none", pooled |-> 0]

\* What the run an older version left still holds of the basin's pool: an
\* unstamped deposit is looked for only where there is no well.
PriorPooled(d, run, f) ==
  IF run = Nothing THEN 0
  ELSE IF run.stamp = "pooled" \/ (run.stamp = "old" /\ ~HasWell(d, f))
       THEN run.pooled ELSE 0

Figured(d) == {f \in Current(d) : d.et[f] # Nothing}

\* Every use area gone over gives its old deposit back.
AdjustBasinPool(d, b) ==
  [z \in Zone |-> b.basin[z] -
     SumFunctionOnSet([f \in Field |-> PriorPooled(d, b.run[f], f)],
                      {f \in Figured(d) \cup d.voided : d.zone[f] = z})]

\* MUTANT: the row a use area had when it had no meter is left standing.
ResidualRowKept(d, b, f) ==
  IF Disposition(d, f) = "groundwater" THEN FinalAf(d, b, f) ELSE b.calculated[f]

\* The one calculated row of a use area with a well and no meter.
ResidualRow(d, b, f) ==
  IF Disposition(d, f) = "groundwater" THEN FinalAf(d, b, f) ELSE Nothing

\* A voided use area keeps nothing the engine wrote.
Cleared(d, f, row) == IF f \in d.voided THEN Nothing ELSE row

\* A use area with no satellite figure is passed over, its rows as they were.
EnginePass(d, b) ==
  LET shares == WellMeterShares(d)
      After(f, new, old) == Cleared(d, f, IF f \in Figured(d) THEN new ELSE old)
  IN [b EXCEPT
        !.run = [f \in Field |-> After(f, NewRun(d, b, f), b.run[f])],
        !.calculated = [f \in Field |-> After(f, ResidualRow(d, b, f), b.calculated[f])],
        !.wellShare = [f \in Field |-> IF f \in DOMAIN shares THEN shares[f] ELSE Nothing],
        !.credited = b.credited \ (Figured(d) \cup d.voided),
        !.basin = AdjustBasinPool(d, b)]
=============================================================================
