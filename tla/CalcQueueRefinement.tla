-------------------------- MODULE CalcQueueRefinement --------------------------
(***************************************************************************)
(* The calculation queue implements SerialCalculation: rows, folding, the   *)
(* advisory lock, restarts of the queue and crashes are invisible, and what *)
(* remains is one calculation of one month after the other.                 *)
(***************************************************************************)
EXTENDS CalcQueue

\* The worker inside a month's transaction.
InMonth == {w \in Worker : pc[w] = "commit"}

CurrentRun ==
  IF InMonth = {} THEN NoWorker
  ELSE LET w == CHOOSE x \in InMonth : TRUE IN
       [by |-> w, month |-> First(todo[w]), door |-> ~PlainRow(head[w]), complete |-> fresh[w]]

Serial == INSTANCE SerialCalculation
            WITH Nothing <- NoWorker, closed <- {m \in Month : FinalizedMonth(m)}, run <- CurrentRun

\* "Nobody" is no calculation.
ASSUME NothingAssumption == NoWorker \notin Serial!Run

\* Whatever requests overlap, are folded, fail or die, and whoever is turned away
\* from the lock, the site sees calculations of single months one after another,
\* each showing the records saved before it began, none in a finalized year but
\* through the door (engine_run.run_queue and execute).
CalculatesSerially == Serial!Spec
=============================================================================
