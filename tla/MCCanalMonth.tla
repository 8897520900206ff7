---------------------------- MODULE MCCanalMonth ----------------------------
(* Small instances of CanalMonth for TLC. *)
EXTENDS CanalMonth

CONSTANTS north, south, ann, bob

MCPoint == {1, 2}
MCField == {1, 2, 3}
MCZone == {north, south}
MCAccount == {ann, bob}
MCWell == {1, 2}
MCVolumes == {0, 7}
MCLosses == {[evaporation |-> 0, seepage |-> 0, spill |-> 0],
             [evaporation |-> 5000, seepage |-> 2500, spill |-> 2500]}

Direct1(v) == <<[af |-> v, estimated |-> FALSE]>>
None == [evaporation |-> 0, seepage |-> 0, spill |-> 0]
Leaky == [evaporation |-> 500, seepage |-> 3000, spill |-> 100]

\* Three use areas under two headgates: the first serves 1, 2 and 3, the second 3
\* only; a well under the third.
Plain ==
  [records |-> <<Direct1(21), <<>>>>,
   share |-> <<[f \in 1..3 |-> Whole], [f \in {3} |-> Whole]>>,
   byNeed |-> {}, active |-> {1, 2},
   loss |-> <<Leaky, Leaky>>,
   standsIn |-> <<Nothing, Nothing>>, owner |-> <<ann, Nothing>>,
   acres |-> <<3, 4, 4>>, efficiency |-> <<850, 700, 900>>,
   zone |-> <<north, south, south>>, account |-> <<ann, bob, ann>>,
   own |-> NoShares, fallow |-> {}, voided |-> {},
   credit |-> "by_acre", leaveBehind |-> 100,
   et |-> <<13, 9, 21>>, rain |-> <<2, 5, 0>>, rainCapped |-> TRUE,
   wells |-> <<[share |-> [f \in {3} |-> Whole], pumped |-> Nothing],
               [share |-> NoShares, pumped |-> Nothing]>>,
   typedMeter |-> {}]

NoBooks ==
  [share |-> <<NoShares, NoShares>>, beyond |-> <<0, 0>>, loss |-> <<Nothing, Nothing>>,
   credit |-> <<NoShares, NoShares>>,
   run |-> <<Nothing, Nothing, Nothing>>, calculated |-> <<Nothing, Nothing, Nothing>>,
   wellShare |-> <<Nothing, Nothing, Nothing>>, credited |-> {},
   pool |-> [z \in Zone |-> 0], basin |-> [z \in Zone |-> 0]]

OldRun(stamp, af) ==
  [net |-> 3, over |-> af, final |-> 0, disposition |-> "unmet_demand",
   stamp |-> stamp, pooled |-> af]

\* Books an older version left: over-deliveries in the pools, one of a run with no
\* stamp, and a credit on the use area with the well.
OldBooks ==
  [NoBooks EXCEPT !.run = <<OldRun("pooled", 4), OldRun("old", 5), Nothing>>,
                  !.credited = {3},
                  !.basin = [z \in Zone |-> IF z = north THEN 4 ELSE 5]]

On(d) == [district |-> d, books |-> NoBooks]

MCDistricts ==
  { On(Plain),
    \* two records in the month, one the retired estimate's, by crop need
    On([Plain EXCEPT !.records = <<Direct1(10) \o <<[af |-> 5, estimated |-> TRUE]>>
                                    \o Direct1(5), Direct1(9)>>,
                     !.byNeed = {1}, !.loss = <<None, Leaky>>,
                     !.standsIn = <<south, Nothing>>, !.credit = "owner"]),
    \* short of the caps, which rounding could pass
    On([Plain EXCEPT !.byNeed = {1, 2}, !.loss = <<None, None>>,
                     !.records = <<Direct1(18), Direct1(4)>>,
                     !.credit = "none",
                     !.et = <<10, 10, 10>>, !.rain = <<0, 0, 0>>,
                     !.efficiency = <<700, 700, 1000>>]),
    \* rain that the method does not hold to the crop's use
    On([Plain EXCEPT !.rainCapped = FALSE, !.rain = <<2, 15, 30>>, !.byNeed = {2}]),
    \* a well's meter over two use areas, one with no satellite figure
    On([Plain EXCEPT !.wells = <<[share |-> [f \in {2, 3} |-> Whole], pumped |-> 7],
                                 [share |-> [f \in {1} |-> Whole], pumped |-> Nothing]>>,
                     !.et = <<13, 9, Nothing>>,
                     !.share = <<[f \in 1..2 |-> Whole], NoShares>>,
                     !.records = <<Direct1(30), Direct1(6)>>]),
    \* two wells over one use area
    On([Plain EXCEPT !.wells = <<[share |-> [f \in {3} |-> Whole], pumped |-> 6],
                                 [share |-> [f \in {2, 3} |-> Whole], pumped |-> 5]>>]),
    \* the one use area is served by its own delivery: parts of 2, 2 and -1 are left
    On([Plain EXCEPT !.records = <<Direct1(10) \o Direct1(10) \o Direct1(0), <<>>>>,
                     !.share = <<[f \in {1} |-> Whole], NoShares>>,
                     !.loss = <<None, None>>, !.own = [f \in {1} |-> 17],
                     !.zone = <<north, south, Nothing>>]),
    [district |-> Plain, books |-> OldBooks] }
=============================================================================
