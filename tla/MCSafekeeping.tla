---------------------------- MODULE MCSafekeeping ----------------------------
(***************************************************************************)
(* Instances of Filing and SiteBackups for TLC: what a site keeps of a year *)
(* it closed, and what it keeps of its whole database.  The two share       *)
(* nothing, so a behaviour is of one kind, chosen at the start, and the     *)
(* other stands still.                                                      *)
(***************************************************************************)
EXTENDS Filing, SiteBackups

VARIABLE kind

KeepsInit ==
  /\ kind \in {"filing", "backups"}
  /\ Init /\ SiteInit
  /\ kind = "backups" => rows = [r \in Record |-> Outside] /\ finalized = {}

KeepsNext ==
  \/ kind = "filing" /\ Next /\ UNCHANGED <<kind, siteVars>>
  \/ kind = "backups" /\ SiteNext /\ UNCHANGED <<kind, vars>>

KeepsSpec == KeepsInit /\ [][KeepsNext]_<<kind, vars, siteVars>>
=============================================================================
