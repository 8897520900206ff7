--------------------------- MODULE SerialCalculation ---------------------------
(***************************************************************************)
(* What the calculation queue promises the rest of the site, without a      *)
(* queue: the whole site calculates one month at a time, the figures of a   *)
(* month come to show the records saved before its calculation began and no *)
(* other, and a month is calculated in a finalized year only through the    *)
(* recorded door.                                                           *)
(***************************************************************************)
CONSTANTS Worker, Month, Nothing

VARIABLES
  stale,     \* the months with a saved record the figures do not show
  excused,   \* the months whose calculation was stopped, refused or dropped
  closed,    \* the months of finalized years
  run        \* the calculation under way: whose, of what, and whether it read all

vars == <<stale, excused, closed, run>>

Run == [by : Worker, month : Month, door : BOOLEAN, complete : BOOLEAN]

Init ==
  /\ stale = {}
  /\ excused = {}
  /\ closed = {}
  /\ run = Nothing

\* Records dated in the months ms change; a calculation of one of them that is
\* under way may have read them before.
Save(ms) ==
  /\ stale' = stale \cup ms
  /\ excused' = excused \ ms
  /\ run' = IF run # Nothing /\ run.month \in ms THEN [run EXCEPT !.complete = FALSE] ELSE run
  /\ UNCHANGED closed

Begin(w, m, door) ==
  /\ run = Nothing
  /\ door \/ m \notin closed
  /\ run' = [by |-> w, month |-> m, door |-> door, complete |-> TRUE]
  /\ UNCHANGED <<stale, excused, closed>>

Commit ==
  /\ run # Nothing
  /\ stale' = IF run.complete THEN stale \ {run.month} ELSE stale
  /\ excused' = IF run.complete THEN excused \ {run.month} ELSE excused
  /\ run' = Nothing
  /\ UNCHANGED closed

\* A calculation that does not end is on the record, and so is what it had left.
GiveUp(ms) ==
  /\ run # Nothing
  /\ run.month \in ms
  /\ excused' = excused \cup ms
  /\ run' = Nothing
  /\ UNCHANGED <<stale, closed>>

\* Months are refused, or dropped, before their calculation begins.
Refuse(ms) ==
  /\ excused' = excused \cup ms
  /\ UNCHANGED <<stale, closed, run>>

Finalize(ms) ==
  /\ closed' = ms
  /\ UNCHANGED <<stale, excused, run>>

Next ==
  \/ \E ms \in SUBSET Month : Save(ms) \/ GiveUp(ms) \/ Refuse(ms) \/ Finalize(ms)
  \/ \E w \in Worker, m \in Month, door \in BOOLEAN : Begin(w, m, door)
  \/ Commit

Spec == Init /\ [][Next]_vars
=============================================================================
