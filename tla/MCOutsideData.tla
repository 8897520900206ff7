---------------------------- MODULE MCOutsideData ----------------------------
(***************************************************************************)
(* Instances of PendingImports and Fetching for TLC: the files people bring *)
(* in, and the readings a source publishes.  They share nothing, so a       *)
(* behaviour is of one kind, chosen at the start, and the other stands      *)
(* still.  A source has two stations, one of which never says anything: its *)
(* answer is still taken, or missed.  A source that stays up and whose      *)
(* readings stay in the window is fetched beside a press on the page of the *)
(* other station; by the schedule alone, it goes down and they leave it.    *)
(***************************************************************************)
EXTENDS PendingImports, Fetching

CONSTANT quiet   \* the station that never says anything

VARIABLE kind

OutsideInit ==
  /\ kind \in {"imports", "page", "schedule"}
  /\ ImportInit /\ Init
  /\ kind # "schedule" => ~asksWhatChanged

\* What the source and people do stays within the kind; no process is held up.
WithinKind ==
  /\ said'[quiet] = 0 /\ quiet \notin aged'
  /\ kind = "page" => up' /\ aged' = {} /\ \A p \in Press : process'[p].station # quiet
  /\ kind = "schedule" => \A p \in Press : process'[p].pc = "idle"

OutsideNext ==
  \/ kind = "imports" /\ ImportNext /\ UNCHANGED <<kind, vars>>
  \/ kind # "imports" /\ Next /\ WithinKind /\ UNCHANGED <<kind, importVars>>

\* The fairness of PolledSpec and FairSpec, each in the behaviours of its kind.
OutsideSpec ==
  /\ OutsideInit /\ [][OutsideNext]_<<kind, vars, importVars>>
  /\ \A u \in Upload : WF_importVars(Poll(u)) /\ WF_importVars(Expires(u))
  /\ \A p \in Process : SF_vars(kind # "imports" /\ Step(p))
  /\ \A p \in Press : WF_vars(TenMinutes(p))
=============================================================================
