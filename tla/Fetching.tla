------------------------------- MODULE Fetching -------------------------------
(***************************************************************************)
(* The readings one outside source publishes for its stations, and the      *)
(* processes that fetch them (datasync/): the scheduled sync of the whole   *)
(* source, and the fetches people start from a station's page.              *)
(*                                                                          *)
(* A source publishes one reading of a station again and again; a version   *)
(* numbers what it said.  A process asks for it, and stores the answer      *)
(* later, in a transaction under the station's row lock: between the two    *)
(* the source may revise the reading, and another process may store a newer *)
(* answer.  What is stored of a reading is the chain of its rows, each one  *)
(* replacing the one before; the last is the current one.                   *)
(*                                                                          *)
(* A run asks for the last days only.  Most sources are asked for the       *)
(* readings dated in those days; one that can say what changed is asked for *)
(* what it published or revised in them, of any date.  Time carries a       *)
(* reading out of both windows.  A run a person starts over named dates     *)
(* (sync_source --start), the way to fetch what is past the window, is not  *)
(* modelled.                                                                *)
(***************************************************************************)
EXTENDS Naturals, Sequences, FiniteSets, SequencesExt

CONSTANTS
  Station,      \* the stations of the source, all being monitored
  Press,        \* fetches started from a page, each with its log
  Sync,         \* sync_source processes of the schedule, used again and again
  Nobody, NoStation,
  Versions,     \* bound: how often the source says something new of a reading
  Blanks,       \* the versions that are blank
  AlertAfter,   \* CONSECUTIVE_FAILURES_BEFORE_ALERT
  MaxFaults,    \* bound: outages, unreadable answers, database and launch errors
  MaxDeaths     \* bound: processes that die

Process == Press \cup Sync

ASSUME ProcessAssumption ==
  Press \cap Sync = {} /\ Nobody \notin Process /\ IsFiniteSet(Sync)
ASSUME StationAssumption == IsFiniteSet(Station) /\ Station # {} /\ NoStation \notin Station
ASSUME VersionsAssumption == Versions \in Nat /\ Blanks \subseteq 1 .. Versions
ASSUME BoundsAssumption ==
  AlertAfter \in Nat \ {0} /\ MaxFaults \in Nat /\ MaxDeaths \in Nat

VARIABLES
  said,      \* the version the source publishes now; 0 before the first
  up,        \* the source answers
  asksWhatChanged,   \* whether the source can say what changed; fixed
  aged,      \* the stations whose reading is dated before the window of today
  settled,   \* those whose last publication or revision is
  chain,     \* the versions stored of each station's reading, oldest first
  lock,      \* who holds the station's row lock
  log,       \* the status of the log of each press
  young,     \* the presses whose log is running and younger than RUNNING_LIMIT
  runs,      \* the logs of the whole-source syncs, by started_at, newest last
  process,   \* where each process stands
  alarm,     \* the last sync ended with the alert
  faults, deaths   \* what is left of the bounds

sourceVars == <<said, up, asksWhatChanged, aged, settled>>
logVars == <<log, young, runs>>
vars == <<sourceVars, chain, lock, logVars, process, alarm, faults, deaths>>

LogStatus == {"running", "success", "partial", "failed"}
PC == {"idle", "looked", "launch", "create", "ask", "lock", "write", "count",
       "done", "dead"}

TypeOK ==
  /\ said \in [Station -> 0 .. Versions]
  /\ up \in BOOLEAN /\ asksWhatChanged \in BOOLEAN
  /\ aged \subseteq Station /\ settled \subseteq Station
  /\ chain \in [Station -> Seq(1 .. Versions)]
  /\ lock \in [Station -> Process \cup {Nobody}]
  /\ log \in [Press -> LogStatus \cup {"none"}]
  /\ young \subseteq Press
  /\ runs \in Seq([by : Sync \cup {Nobody}, status : LogStatus])
  /\ process \in [Process ->
       [pc : PC, station : Station \cup {NoStation}, left : SUBSET Station,
        window : SUBSET Station, answer : 0 .. Versions, seen : Nat, error : BOOLEAN,
        failures : Nat, fetched : BOOLEAN, staged : BOOLEAN, counted : Nat,
        answered : SUBSET Station, heard : BOOLEAN, wrote : Nat]]
  /\ alarm \in BOOLEAN
  /\ faults \in 0 .. MaxFaults
  /\ deaths \in 0 .. MaxDeaths

\* window is the readings dated in the days the run asks for; error, failures,
\* fetched, staged and counted are what it keeps in memory for its log.  answered,
\* heard and wrote are history: the stations of this run whose answer was taken,
\* whether one was before any station failed, and the rows it committed.
Fresh == [pc |-> "idle", station |-> NoStation, left |-> {}, window |-> {}, answer |-> 0,
          seen |-> 0, error |-> FALSE, failures |-> 0, fetched |-> FALSE,
          staged |-> FALSE, counted |-> 0, answered |-> {}, heard |-> FALSE, wrote |-> 0]
Over == [Fresh EXCEPT !.pc = "done"]

Init ==
  /\ said = [s \in Station |-> 0]
  /\ up = TRUE
  /\ asksWhatChanged \in BOOLEAN
  /\ aged = {} /\ settled = {}
  /\ chain = [s \in Station |-> <<>>]
  /\ lock = [s \in Station |-> Nobody]
  /\ log = [p \in Press |-> "none"]
  /\ young = {}
  /\ runs = <<>>
  /\ process = [p \in Process |-> Fresh]
  /\ alarm = FALSE
  /\ faults = MaxFaults
  /\ deaths = MaxDeaths

-----------------------------------------------------------------------------
(* The source, and time *)

Revise(s) ==
  /\ said[s] < Versions
  /\ said' = [said EXCEPT ![s] = @ + 1]
  /\ settled' = settled \ {s}
  /\ UNCHANGED <<up, asksWhatChanged, aged, chain, lock, logVars, process, alarm, faults,
                 deaths>>

GoesDown ==
  /\ up
  /\ faults > 0
  /\ faults' = faults - 1
  /\ up' = FALSE
  /\ UNCHANGED <<said, asksWhatChanged, aged, settled, chain, lock, logVars, process,
                 alarm, deaths>>

ComesUp ==
  /\ ~up
  /\ up' = TRUE
  /\ UNCHANGED <<said, asksWhatChanged, aged, settled, chain, lock, logVars, process,
                 alarm, faults, deaths>>

\* The days of _pull_window pass: since the day the reading is of, or since the
\* source last said something of it.
Ages(s) ==
  /\ s \notin aged
  /\ aged' = aged \cup {s}
  /\ UNCHANGED <<said, up, asksWhatChanged, settled, chain, lock, logVars, process, alarm,
                 faults, deaths>>

Settles(s) ==
  /\ asksWhatChanged
  /\ said[s] # 0
  /\ s \notin settled
  /\ settled' = settled \cup {s}
  /\ UNCHANGED <<said, up, asksWhatChanged, aged, chain, lock, logVars, process, alarm,
                 faults, deaths>>

\* RUNNING_LIMIT passes for a log.
TenMinutes(p) ==
  /\ p \in young
  /\ young' = young \ {p}
  /\ UNCHANGED <<sourceVars, chain, lock, log, runs, process, alarm, faults, deaths>>

-----------------------------------------------------------------------------
(* Update readings now: start_fetch, in the web request *)

\* running_log: a log of the station still running and inside the limit.
Going(p, s) == p \in young /\ process[p].station = s

\* The station's row is locked, so that the look and the insert are one.  A press
\* that finds a fetch running shows that one and changes nothing.
PressLooks(p, s) ==
  /\ process[p].pc = "idle"
  /\ lock[s] = Nobody
  /\ ~\E q \in Press : Going(q, s)
  /\ lock' = [lock EXCEPT ![s] = p]
  /\ process' = [process EXCEPT ![p] = [Fresh EXCEPT !.pc = "looked", !.station = s]]
  /\ UNCHANGED <<sourceVars, chain, logVars, alarm, faults, deaths>>

Unlocked(p) == [s \in Station |-> IF lock[s] = p THEN Nobody ELSE lock[s]]

PressCreates(p) ==
  /\ process[p].pc = "looked"
  /\ log' = [log EXCEPT ![p] = "running"]
  /\ young' = young \cup {p}
  /\ process' = [process EXCEPT ![p].pc = "launch"]
  /\ lock' = Unlocked(p)
  /\ UNCHANGED <<sourceVars, chain, runs, alarm, faults, deaths>>

\* _pull_window: the days a run asks for are measured when it starts.
InWindow == Station \ aged

\* The process is launched once the log is committed, for that station alone.
Launch(p) ==
  /\ process[p].pc = "launch"
  /\ process' = [process EXCEPT ![p].pc = "ask", ![p].left = {process[p].station},
                                ![p].window = InWindow]
  /\ UNCHANGED <<sourceVars, chain, lock, logVars, alarm, faults, deaths>>

\* The process cannot be started, or it finds the source switched off or its key
\* missing: close_log and _close_unrun_log.
NotRun(p) ==
  /\ process[p].pc = "launch"
  /\ faults > 0
  /\ faults' = faults - 1
  /\ log' = [log EXCEPT ![p] = "failed"]
  /\ young' = young \ {p}
  /\ process' = [process EXCEPT ![p] = Over]
  /\ UNCHANGED <<sourceVars, chain, lock, runs, alarm, deaths>>

-----------------------------------------------------------------------------
(* The schedule starts a sync of the whole source *)

\* _reap_orphaned_logs: every whole-source log still running, and the stations'
\* logs past the limit, are closed as failed.  The process takes its slot over
\* from one that ended or died.
Orphaned(p) == log[p] = "running" /\ p \notin young
Forgotten(y, run) == IF run.by = y THEN Nobody ELSE run.by
Closed(status) == IF status = "running" THEN "failed" ELSE status

\* MUTANT: the logs of the whole source's runs are passed over.
ReapsPressesOnly(y) ==
  /\ process[y].pc \in {"idle", "done", "dead"}
  /\ runs' = [i \in DOMAIN runs |->
       [by |-> Forgotten(y, runs[i]), status |-> runs[i].status]]
  /\ log' = [p \in Press |-> IF Orphaned(p) THEN "failed" ELSE log[p]]
  /\ process' = [process EXCEPT ![y] = [Fresh EXCEPT !.pc = "create", !.window = InWindow]]
  /\ alarm' = FALSE
  /\ UNCHANGED <<sourceVars, chain, lock, young, faults, deaths>>
Reaps(y) ==
  /\ process[y].pc \in {"idle", "done", "dead"}
  /\ runs' = [i \in DOMAIN runs |->
       [by |-> Forgotten(y, runs[i]), status |-> Closed(runs[i].status)]]
  /\ log' = [p \in Press |-> IF Orphaned(p) THEN "failed" ELSE log[p]]
  /\ process' = [process EXCEPT ![y] = [Fresh EXCEPT !.pc = "create", !.window = InWindow]]
  /\ alarm' = FALSE
  /\ UNCHANGED <<sourceVars, chain, lock, young, faults, deaths>>

Ended(run) == run.status # "running"
Newest(n, seq) == IF Len(seq) <= n THEN seq ELSE SubSeq(seq, Len(seq) - n + 1, Len(seq))

\* A log that has ended and that the streak cannot reach any more is left out of the
\* state, one at a time; one that still runs never is.
Remembered(seq) ==
  LET ended == {i \in DOMAIN seq : Ended(seq[i])} IN
  IF Cardinality(ended) <= AlertAfter THEN seq ELSE RemoveAt(seq, Min(ended))

CreatesLog(y) ==
  /\ process[y].pc = "create"
  /\ runs' = Remembered(Append(runs, [by |-> y, status |-> "running"]))
  /\ process' = [process EXCEPT ![y].pc = "ask", ![y].left = Station]
  /\ UNCHANGED <<sourceVars, chain, lock, log, young, alarm, faults, deaths>>

-----------------------------------------------------------------------------
(* One station after the other: adapter.sync *)

\* What _sync_stations does once a station is through: the log the stations share
\* still holds an earlier station's error, and each later one counts as failed.
Through(p, me, s) ==
  [me EXCEPT !.pc = "ask", !.left = @ \ {s}, !.answer = 0, !.seen = 0,
             !.station = IF p \in Press THEN s ELSE NoStation,
             !.failures = IF me.error THEN @ + 1 ELSE @]

\* The answer of a station is taken.
Answered(me, s) ==
  [me EXCEPT !.answered = me.answered \cup {s}, !.heard = me.heard \/ ~me.error]

\* What the source answers of a station: the reading it publishes, if that is dated
\* in the days asked for, or was said in them where the source is asked for that.
HasAnswer(me, s) ==
  /\ said[s] # 0
  /\ IF asksWhatChanged THEN s \notin settled ELSE s \in me.window

\* With nothing in the answer there is nothing to store (record_readings returns at
\* once, without a lock).
Asks(p, s) ==
  LET me == process[p] IN
  /\ me.pc = "ask"
  /\ s \in me.left
  /\ up
  /\ process' = [process EXCEPT ![p] =
       IF HasAnswer(me, s)
       THEN [me EXCEPT !.pc = "lock", !.station = s, !.answer = said[s], !.fetched = TRUE]
       ELSE Through(p, Answered(me, s), s)]
  /\ UNCHANGED <<sourceVars, chain, lock, logVars, alarm, faults, deaths>>

\* It does not answer, after the retries of _request.
NoAnswer(p, s) ==
  LET me == process[p] IN
  /\ me.pc = "ask"
  /\ s \in me.left
  /\ ~up
  /\ process' = [process EXCEPT ![p] = Through(p, [me EXCEPT !.error = TRUE], s)]
  /\ UNCHANGED <<sourceVars, chain, lock, logVars, alarm, faults, deaths>>

\* Every record of the answer is dropped in validate or stage.
Unreadable(p, s) ==
  LET me == process[p] IN
  /\ me.pc = "ask"
  /\ s \in me.left
  /\ up
  /\ faults > 0
  /\ faults' = faults - 1
  /\ process' = [process EXCEPT ![p] =
       Through(p, [Answered(me, s) EXCEPT !.fetched = TRUE], s)]
  /\ UNCHANGED <<sourceVars, chain, lock, logVars, alarm, deaths>>

\* record_readings: the station's row is locked, then the current row is read.
Locks(p) ==
  /\ process[p].pc = "lock"
  /\ lock[process[p].station] = Nobody
  /\ lock' = [lock EXCEPT ![process[p].station] = p]
  /\ process' = [process EXCEPT ![p].pc = "write",
                                ![p].seen = Len(chain[process[p].station])]
  /\ UNCHANGED <<sourceVars, chain, logVars, alarm, faults, deaths>>

\* The figure a version stands for; 0 is a blank.
Value(v) == IF v \in Blanks THEN 0 ELSE v

\* A reading not stored is a new row, unless the source was asked what changed and
\* the reading is dated before the window: of those it may say what the site never
\* held.  A figure that differs from the row read is a revision, which replaces it,
\* whatever its date.  A blank never replaces a figure.
IsNew(me) == me.seen = 0 /\ (asksWhatChanged => me.station \in me.window)
IsRevisionAnyValue(me) ==
  me.seen > 0 /\ Value(me.answer) # Value(chain[me.station][me.seen])
IsRevision(me) ==
  /\ me.seen > 0
  /\ Value(me.answer) # 0
  /\ Value(me.answer) # Value(chain[me.station][me.seen])

\* The unique index: one row of a reading is current.
IndexAdmits(me) == Len(chain[me.station]) = me.seen

\* stage and publish, in one transaction, and the run's counts.
WritesNoRevision(p) ==
  LET me == process[p]
      row == IsNew(me)
      rows == IF row THEN 1 ELSE 0
  IN
  /\ me.pc = "write"
  /\ IndexAdmits(me)
  /\ chain' = IF row THEN [chain EXCEPT ![me.station] = Append(@, me.answer)] ELSE chain
  /\ process' = [process EXCEPT ![p] =
       Through(p, [Answered(me, me.station) EXCEPT !.staged = TRUE,
                    !.counted = me.counted + rows, !.wrote = me.wrote + rows],
               me.station)]
  /\ lock' = Unlocked(p)
  /\ UNCHANGED <<sourceVars, logVars, alarm, faults, deaths>>
Writes(p) ==
  LET me == process[p]
      row == IsNew(me) \/ IsRevision(me)
      rows == IF row THEN 1 ELSE 0
  IN
  /\ me.pc = "write"
  /\ IndexAdmits(me)
  /\ chain' = IF row THEN [chain EXCEPT ![me.station] = Append(@, me.answer)] ELSE chain
  /\ process' = [process EXCEPT ![p] =
       Through(p, [Answered(me, me.station) EXCEPT !.staged = TRUE,
                    !.counted = me.counted + rows, !.wrote = me.wrote + rows],
               me.station)]
  /\ lock' = Unlocked(p)
  /\ UNCHANGED <<sourceVars, logVars, alarm, faults, deaths>>

\* The transaction fails: everything is rolled back, the counts with it.
WriteFails(p) ==
  LET me == process[p] IN
  /\ me.pc = "write"
  /\ faults > 0
  /\ faults' = faults - 1
  /\ process' = [process EXCEPT ![p] = Through(p, [me EXCEPT !.error = TRUE], me.station)]
  /\ lock' = Unlocked(p)
  /\ UNCHANGED <<sourceVars, chain, logVars, alarm, deaths>>

-----------------------------------------------------------------------------
(* The end of a run *)

Mine(p) == IF p \in Press THEN {process[p].station} ELSE Station

\* MUTANT: a run with any failure is told as failed.
FinalStatusAnyFailed(p) ==
  LET me == process[p] IN
  IF me.failures > 0 THEN "failed"
  ELSE IF me.fetched /\ ~me.staged THEN "partial"
  ELSE "success"
\* _finalize_sync_log.
FinalStatus(p) ==
  LET me == process[p] IN
  IF me.failures = Cardinality(Mine(p)) THEN "failed"
  ELSE IF me.failures > 0 \/ (me.fetched /\ ~me.staged) THEN "partial"
  ELSE "success"

PressFinishes(p) ==
  /\ process[p].pc = "ask"
  /\ process[p].left = {}
  /\ log' = [log EXCEPT ![p] = FinalStatus(p)]
  /\ young' = young \ {p}
  /\ process' = [process EXCEPT ![p] = Over]
  /\ UNCHANGED <<sourceVars, chain, lock, runs, alarm, faults, deaths>>

SyncFinishes(y) ==
  /\ process[y].pc = "ask"
  /\ process[y].left = {}
  /\ runs' = [i \in DOMAIN runs |->
       IF runs[i].by = y THEN [runs[i] EXCEPT !.status = FinalStatus(y)] ELSE runs[i]]
  /\ process' = [process EXCEPT ![y] =
       [Fresh EXCEPT !.pc = "count", !.failures = process[y].failures]]
  /\ UNCHANGED <<sourceVars, chain, lock, log, young, alarm, faults, deaths>>

\* _consecutive_failures: the newest runs that have ended, back to the first that
\* did not fail.
Recent == Newest(AlertAfter, SelectSeq(runs, Ended))
AllFailedMoreThan ==
  Len(Recent) > AlertAfter /\ \A i \in DOMAIN Recent : Recent[i].status = "failed"
AllFailed == Len(Recent) = AlertAfter /\ \A i \in DOMAIN Recent : Recent[i].status = "failed"

\* _alert_on_persistent_failure: it looks only when its own run failed.
CountsFailures(y) ==
  /\ process[y].pc = "count"
  /\ alarm' = (alarm \/ (process[y].failures = Cardinality(Station) /\ AllFailed))
  /\ process' = [process EXCEPT ![y] = Over]
  /\ UNCHANGED <<sourceVars, chain, lock, logVars, faults, deaths>>

\* A process dies: its transaction is rolled back, its log stays running.
Dies(p) ==
  /\ process[p].pc \notin {"idle", "looked", "done", "dead"}
  /\ deaths > 0
  /\ deaths' = deaths - 1
  /\ process' = [process EXCEPT ![p] =
       [Fresh EXCEPT !.pc = "dead", !.station = process[p].station]]
  /\ lock' = Unlocked(p)
  /\ UNCHANGED <<sourceVars, chain, logVars, alarm, faults>>

-----------------------------------------------------------------------------
Environment ==
  \/ \E s \in Station : Revise(s) \/ Ages(s) \/ Settles(s)
  \/ GoesDown
  \/ ComesUp
  \/ \E p \in Press, s \in Station : PressLooks(p, s)
  \/ \E p \in Press : NotRun(p)
  \/ \E p \in Process, s \in Station : Unreadable(p, s)
  \/ \E p \in Process : WriteFails(p) \/ Dies(p)

Step(p) ==
  \/ \E s \in Station : Asks(p, s) \/ NoAnswer(p, s)
  \/ Locks(p)
  \/ Writes(p)
  \/ /\ p \in Press
     /\ PressCreates(p) \/ Launch(p) \/ PressFinishes(p)
  \/ /\ p \in Sync
     /\ Reaps(p) \/ CreatesLog(p) \/ SyncFinishes(p) \/ CountsFailures(p)

Next ==
  \/ Environment
  \/ \E p \in Press : TenMinutes(p)
  \/ \E p \in Process : Step(p)

Spec == Init /\ [][Next]_vars

\* A started process runs on, the schedule starts syncs, and ten minutes pass.
\* Strong fairness, because a row lock is given in turn: one who waits for it while
\* others come and go is not passed over for good.
FairSpec ==
  /\ Spec
  /\ \A p \in Process : SF_vars(Step(p))
  /\ \A p \in Press : WF_vars(TenMinutes(p))

-----------------------------------------------------------------------------
(* Properties *)

\* record_readings: the row a transaction is about to replace is still the
\* current one, whoever else fetches the station: a reading is never replaced
\* twice, and no fetch is refused by the unique index.
ReadStillStands == \A p \in Process : process[p].pc = "write" => IndexAdmits(process[p])

\* A chain records what the source revised and nothing else: each row's figure
\* differs from the one it replaced, and a blank never replaces a figure.
ChainsSound ==
  \A s \in Station : \A i \in 2 .. Len(chain[s]) :
    Value(chain[s][i]) \notin {0, Value(chain[s][i - 1])}

\* Revising a station's readings is sound, however many fetch it at once.
RevisionsSound == ReadStillStands /\ ChainsSound

Finishes(p) == process[p].pc = "ask" /\ process'[p].pc \in {"count", "done"}
StatusSaved(p) ==
  IF p \in Press THEN {log'[p]}
  ELSE {runs'[i].status : i \in {j \in DOMAIN runs' : runs'[j].by = p}}

\* A run closes its own log with what it did, whatever closed it before (the reaper
\* takes a slow run for a dead one): "success" when every station's answer was taken
\* and something of what came could be read, "failed" when none was before the first
\* that failed, "partial" otherwise; and the readings it counts are the rows it
\* committed.  What is answered after a station failed the log does not tell: the
\* error stays in the shared log, and each later station counts as failed with it
\* (_sync_stations).  A press, of one station, fails only when that one did.
LogTellsWhatHappened ==
  [][\A p \in Process : Finishes(p) =>
       LET me == process[p]
           unread == me.fetched /\ ~me.staged
       IN /\ me.counted = me.wrote
          /\ \A told \in StatusSaved(p) :
               /\ told \in {"success", "partial", "failed"}
               /\ told = "success" <=> me.answered = Mine(p) /\ ~unread
               /\ told = "failed" <=> ~me.heard
               /\ p \in Press /\ told = "failed" => me.answered = {}]_vars

\* A run that failed is one of which every station errored (_sync_stations: "returns
\* how many errored"; _alert_on_persistent_failure: "every station errored on each").
FailedMeansNoneAnswered ==
  [][\A p \in Process :
       Finishes(p) /\ "failed" \in StatusSaved(p) => process[p].answered = {}]_vars

\* _reap_orphaned_logs: no log reads "running" for good, whichever process dies: not a
\* press's, not that of a run of the whole source, whether its process lives, is dead
\* or has been followed by another run of its schedule.
Pending(y) == \E i \in DOMAIN runs : runs[i].by = y /\ runs[i].status = "running"
LogsEnd ==
  /\ \A p \in Press : log[p] = "running" ~> log[p] # "running"
  /\ \A y \in Sync \cup {Nobody} : Pending(y) ~> ~Pending(y)

\* A failed run loses nothing that stays in reach of the next ones: they fetch again
\* what it missed, and an older answer stored over a newer one is revised again.  A
\* reading stays in reach while it is dated in the window, or, of a source that says
\* what changed, while its last change is in the window and it is held already or is
\* dated in the window.  Once the source answers for good, a reading that stays in
\* reach comes to show what it publishes and goes on showing it (but for a blank in
\* place of a figure, which is never taken over).  One that left the window before
\* it was fetched is not asked for again.
InReach(s) ==
  IF asksWhatChanged THEN s \notin settled /\ (chain[s] # <<>> \/ s \notin aged)
  ELSE s \notin aged
Shows(s) ==
  \/ said[s] \in Blanks \cup {0}
  \/ chain[s] # <<>> /\ Value(Last(chain[s])) = Value(said[s])
CatchesUp == \A s \in Station : <>[](up /\ InReach(s)) => <>[]Shows(s)

\* A source that stays down is told: syncs go on ending with the alert.
OutageAlerts == <>[]~up => []<>alarm
=============================================================================
