------------------------------ MODULE MCFetching ------------------------------
(***************************************************************************)
(* The instance of Fetching for TLC in which a run half answers: two        *)
(* stations, and a source that goes down and comes up again between them.   *)
(* Every constant is given in FetchingFailed.cfg.                           *)
(***************************************************************************)
EXTENDS Fetching
=============================================================================
