---------------------------- MODULE AllocationMath ----------------------------
(***************************************************************************)
(* How a delivery, and a shared source, is divided among use areas          *)
(* (accounting/allocation_math.py).                                         *)
(*                                                                          *)
(* An amount of water is an integer: so many units of the ledger's last     *)
(* place, 0.0001 acre-foot.  A share and a weight are integers too, so many *)
(* ten-thousandths; an irrigation efficiency is so many thousandths.  Keys  *)
(* are integers and the order of their numbers stands for the order of      *)
(* str(key).  Decimal arithmetic is exact before it is rounded.             *)
(***************************************************************************)
EXTENDS Integers, Sequences, FiniteSets, SequencesExt

Whole == 10000     \* a share of 1.0000, the default, and what weights sum to
FullEfficiency == 1000

\* n / d to the nearest integer, a tie to the even one, as Decimal.quantize.
Quantize(n, d) ==
  LET q == n \div d
      r == n % d
  IN IF 2 * r < d \/ (2 * r = d /\ q % 2 = 0) THEN q ELSE q + 1

Abs(n) == IF n < 0 THEN -n ELSE n
Least(a, b) == IF a < b THEN a ELSE b
Most(a, b) == IF a < b THEN b ELSE a

LastKey(K) == CHOOSE k \in K : \A j \in K : j <= k

\* What rounding left over goes to the last key.
PlaceResidual(shares, target) ==
  LET K == DOMAIN shares
  IN [shares EXCEPT ![LastKey(K)] = @ + target - SumFunction(shares)]

\* Of the keys K, the one a residual is offered to when it has been offered to the
\* others: most room comes first, and the last of those that tie.
OfferedLast(shares, caps, K) ==
  LET Room(k) == caps[k] - shares[k]
  IN CHOOSE k \in K :
       \A j \in K : Room(k) < Room(j) \/ (Room(k) = Room(j) /\ k <= j)

\* MUTANT: the whole residual to the last key, whatever its cap.
PlaceResidualAnywhere(shares, caps, target) == PlaceResidual(shares, target)

\* A residual fills the room under the caps, or comes off the shares down to
\* nothing.
PlaceResidualUnderCaps(shares, caps, target) ==
  LET Move(k, state) ==
        LET amount == IF state.left > 0
                      THEN Least(state.left, caps[k] - state.shares[k])
                      ELSE -Least(-state.left, state.shares[k])
        IN [left |-> state.left - amount,
            shares |-> [state.shares EXCEPT ![k] = state.shares[k] + amount]]
      start == [left |-> target - SumFunction(shares), shares |-> shares]
  IN MapThenFoldSet(Move, start, LAMBDA k : k, LAMBDA K : OfferedLast(shares, caps, K),
                    DOMAIN shares).shares

DemandCaps(demand, efficiency) ==
  [k \in {j \in DOMAIN demand : demand[j] > 0} |->
     Quantize(demand[k] * FullEfficiency, efficiency[k])]

\* The keys left to divide by demand when every key whose part of the rest would
\* pass its cap is held at it, again and again.
Filling(demand, caps, total) ==
  LET Rest(A) == total - SumFunctionOnSet(caps, DOMAIN caps \ A)
      Over(A) == {k \in A : Rest(A) * demand[k] > caps[k] * SumFunctionOnSet(demand, A)}
      under[A \in SUBSET DOMAIN caps] ==
        IF Over(A) = {} THEN A ELSE under[A \ Over(A)]
  IN under[DOMAIN caps]

\* Each key's part of a total that falls short of the caps, rounded and not
\* above its cap.
WaterFill(demand, caps, total) ==
  LET active == Filling(demand, caps, total)
      rest == total - SumFunctionOnSet(caps, DOMAIN caps \ active)
      whole == SumFunctionOnSet(demand, active)
  IN [k \in DOMAIN caps |->
        IF k \in active THEN Least(Quantize(rest * demand[k], whole), caps[k])
                        ELSE caps[k]]

\* allocate_by_demand refuses a negative total or a negative demand.
Divisible(total, demand) ==
  /\ total >= 0
  /\ \A k \in DOMAIN demand : demand[k] >= 0

NoShares == [k \in {} |-> 0]

AllocateByDemand(total, demand, efficiency) ==
  LET caps == DemandCaps(demand, efficiency)
  IN IF SumFunction(demand) <= 0 THEN NoShares
     ELSE IF total = 0 THEN [k \in DOMAIN demand |-> 0]
     ELSE IF total >= SumFunction(caps) THEN caps
     ELSE PlaceResidualUnderCaps(WaterFill(demand, caps, total), caps, total)

(* ------------------------------------------------------------------------ *)

\* The weights of the members of a shared source before they are scaled: the
\* shares a person set, else the demands, else one each.
RawWeights(fraction, demand) ==
  LET even == [k \in DOMAIN fraction |-> 1]
      asked == IF \E k \in DOMAIN fraction : fraction[k] # Whole THEN fraction
               ELSE IF SumFunction(demand) > 0 THEN demand
               ELSE even
  IN IF SumFunction(asked) > 0 THEN asked ELSE even

ApportionSharedSupply(fraction, demand) ==
  IF DOMAIN fraction = {} THEN NoShares
  ELSE LET w == RawWeights(fraction, demand)
           all == SumFunction(w)
       IN PlaceResidual([k \in DOMAIN w |-> Quantize(w[k] * Whole, all)], Whole)
=============================================================================
