----------------------------- MODULE MCRollover -----------------------------
EXTENDS Rollover

\* The first zone has one use area, the first account's; the second has two, one
\* of each account.
MCField == {1, 2, 3}
MCZoneOf == <<1, 2, 2>>
MCAccountOf == <<1, 1, 2>>
MCAcres == <<1, 1, 1>>

\* A dry year and then a wet one: both zones overdraw, and work it off or do not.
MCOpenings ==
  {[plan |-> [z \in 1 .. 2, y \in 1 .. 2 |-> 2],
    charged |-> [f \in MCField, y \in 1 .. 2 |-> IF y = 1 /\ f \in dry THEN 3 ELSE 0]] :
     dry \in {{3}, {1, 2, 3}}}
MCAdditions == {4}
=============================================================================
