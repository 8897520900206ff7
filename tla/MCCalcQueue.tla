---------------------------- MODULE MCCalcQueue ----------------------------
(* Small instances of CalcQueue for TLC.                                    *)
EXTENDS CalcQueueRefinement

\* Two months, one in each of two years.
OneMonthEach == [m \in 1 .. 2 |-> IF m = 1 THEN "WY1" ELSE "WY2"]
\* A single month.
OneMonth == [m \in 1 .. 1 |-> "WY1"]
=============================================================================
