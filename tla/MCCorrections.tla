----------------------------- MODULE MCCorrections -----------------------------
(***************************************************************************)
(* Instances of StationReadings, MeterReadings and RechargeCredits for TLC: *)
(* the kinds of record whose void or correction moves something stored      *)
(* elsewhere (on_void and on_correct of core/corrections.py, KINDS).  They  *)
(* share no table, so a behaviour is of one kind, chosen at the start, and  *)
(* the other two stand still.                                               *)
(***************************************************************************)
EXTENDS StationReadings, MeterReadings, RechargeCredits

VARIABLE kind

Figures == {<<1, 1>>, <<2, 2>>}

CorrectionsInit ==
  /\ kind \in {"meter_reading", "recharge_event", "station_reading"}
  /\ Init /\ MeterInit /\ RechargeInit
  /\ kind # "meter_reading" => \A r \in MeterReading : table[r].state = "unused"
  /\ kind # "recharge_event" => site.zone = CHOOSE z \in Zone : TRUE

CorrectionsNext ==
  \/ kind = "station_reading" /\ Next /\ UNCHANGED <<kind, meterVars, rechargeVars>>
  \/ kind = "meter_reading" /\ MeterNext /\ UNCHANGED <<kind, rechargeVars, vars>>
  \/ kind = "recharge_event" /\ RechargeNext /\ UNCHANGED <<kind, meterVars, vars>>

CorrectionsSpec ==
  CorrectionsInit /\ [][CorrectionsNext]_<<kind, meterVars, rechargeVars, vars>>
=============================================================================
