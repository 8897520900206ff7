# A TLA+ model of OpenH2O

OpenH2O is a Django and PostgreSQL application with which a water agency keeps its
records (meter readings, diversions, deliveries, laboratory results), calculates a
monthly balance of water for each field, and files a water year. This directory holds
TLA+ modules that model its core logic, TLC configurations that check them on small
instances, and theorems about them whose proofs TLAPS checks.

Paths below are relative to the repository. The whole mapping from definitions to lines
of code, and the list of hazards, is in `PROJECT.json`.

1. [The system](#the-system)
2. [Modules](#modules)
3. [Runs](#runs)
4. [Proofs](#proofs)
5. [What the checks found](#what-the-checks-found)
6. [What the models leave open](#what-the-models-leave-open)
7. [Not modelled](#not-modelled)
8. [Plan](#plan)
9. [Running it](#running-it)

## The system

One site is one database. Gunicorn answers web requests; work longer than a request runs
in a process of its own (`manage.py run_accounting`, `run_pending_import`, `sync_source`,
`load_demonstration`, `remove_demonstration`) started by the web worker or by cron. There is no job queue, no broker and no
`ATOMIC_REQUESTS`: unless a view opens a transaction, every statement commits by itself,
and PostgreSQL runs at READ COMMITTED, so each query sees what is committed when it
starts. Everything that coordinates processes is a row, a row lock, an advisory lock, a
unique index, a trigger or a marker file. That is what makes the system hard, and what the
models are about.

### Components

| Component | State | Operations | Talks to |
|---|---|---|---|
| Calculation queue (`accounting/engine_run.py`, `run_accounting`) | `CalculationRequest` rows, an advisory lock, the months a worker has still to run | create, launch, take the lock, fold overlapping requests, run a month, mirror, refuse, fail | screens that save records, the button, cron, the year lock, Site Health |
| Month's calculation (`run_calculations.py`, `steps.py`) | runs, ledger rows, pools of an older version | one month in one transaction: every use area, then every headgate, then the use areas again | the queue, the division, the year lock |
| Dividing a headgate's water (`surface/services.py`, `allocation_math.py`) | divided deliveries, `CanalMonthLoss`, seepage pools, account credits | losses off the top, own records, split by share or crop need, quantize | the month's calculation |
| Carry-over (`rollover` command, `carryover_math.py`, `account_math.py`) | `AllocationCarryover`, `AccountCredit` | roll zones, then accounts, of one year into the next | plans, ledger, year lock |
| Finalized years (`accounting/locks.py`, `views/periods.py`) | `ReportingPeriod.is_finalized`, a row trigger on every locked table, the recorded override | finalize, reopen, refuse a write, open the door with a reason | every writer of records |
| Statements (`accounting/statements.py`) | `PeriodStatement` and its rows, append only | take one on closing; record one at the upgrade of a site | finalize, the start of the container |
| Fingerprints (`accounting/fingerprints.py`, `core/fingerprint.py`) | a digest on the year, the earliest one kept | take on closing; record at the upgrade; check | statements (the digest covers them) |
| Voiding and correcting (`core/corrections.py`) | void marks and `replaces` links on records | void, correct, refigure what follows from the record, list the months to recalculate | the calculation queue |
| Meter readings (`wells/forms.py`) | `previous_value`, `calculated_volume` of each reading | type a reading | voiding and correcting |
| Recharge (`recharge/views.py`, `accounting/services.py`) | events, the zone's recharge pool, account credits | log, edit, void, correct, move the site | voiding and correcting, carry-over |
| Stations read by hand (`datasync/typed_readings.py`) | typed readings, their published copies | type, void, correct | voiding and correcting, charts |
| File imports (`core/pending_imports.py`) | `PendingImport` rows, files under `MEDIA_ROOT/imports` | preview, import, poll, clean up | seven commit functions, the calculation queue |
| Fetching (`datasync/`) | published readings, `DataSyncLog` | fetch, revise, close a log, reap, alert | outside services, cron, the fetch button |
| Demonstration (`core/demonstration.py`, `setup/views.py`) | an advisory lock, the sample records, the record of a run | load, remove, probe | Site Health |
| History and as-of (`core/history.py`, `core/as_of.py`, `core/changes.py`) | append-only event tables | record (trigger), read a past day, list changes | pages |
| Backup scripts (`scripts/backup.sh`, `restore.sh`, `upgrade.sh`, `run-sync.sh`) | dumps and archives, `last-backup.json`, a restore's marker | back up, restore, upgrade, start the website | the database, the website, Site Health |
| Site Health (`health/`) | results, the two-hour rule | check, prune | the queue, imports, backups |
| Access, modules, reports, setup, standards, feedback | settings and single rows | forms and reads | - |

### What is hard, and what correct means

* **Queue.** Two workers, a worker that crashes, a request created while the lock holder
  is leaving, requests folded into a run that then fails. Correct: one calculation at a
  time; a saved record is never forgotten by every request at once; a request that reads
  Finished was calculated in full; an administrator's reason never covers work it was not
  given for; figures catch up with the records.
* **The month.** Rows of one pass answer rows of the pass before, records change between
  two queries of one transaction, a rerun replaces what the last run wrote, and an older
  version's rows may still stand. Correct: the water of a headgate and the water pumped add
  up to the last ten-thousandth of an acre-foot, nothing is counted twice or lost in the
  pools, and a rerun changes nothing.
* **Carry-over.** Two books (zones and accounts) rolled in two transactions, in any order of
  years, over figures that change. Correct: what is carried is what stands, once, in both.
* **Closing a year.** Two people press Finalize; a container restarts and records what is
  missing; a transaction changes a record while the year closes; a record moves between
  years. Correct: one statement and one code for each closing, of the records the year
  then holds; the code covers the statement; the first code stays; a closed year reads as
  it was filed.
* **Records that move figures elsewhere.** A void or a correction changes another reading
  and another month, a shared pool, an account's credit, or a published copy. Correct:
  what is stored elsewhere is always the sum of the records that count.
* **Imports.** A file, a row, a worker and a page outlive one another. Correct: the rows
  are written once, the page says what happened, no file is left, polling ends.
* **Fetching.** A slow fetch is taken for dead, a late answer is older than what is stored,
  a source goes down. Correct: revisions form one sound chain, logs tell what happened and
  end, the site catches up, a lasting outage is told.
* **Demonstration.** Loads and removals asked for twice, turned away, killed. Correct: people's
  records are neither mixed with invented ones nor deleted, and the page does not wait for ever.
* **History.** Events are stamped at the start of a transaction and seen at its commit.
  Correct: a past day reads as it was, and goes on doing so.
* **Backups.** Scripts that know of one another by a marker file. Correct: a half-built
  database is neither served nor kept as a backup, and the backup people are sent to holds
  what they lost.

## Modules

| Module | What it is |
|---|---|
| `CalcQueue` | the queue, its rows, workers, web requests, the nightly run and Site Health's rule |
| `SerialCalculation` | what the queue promises: one month calculated after the other |
| `CalcQueueRefinement` | the mapping under which `CalcQueue` implements it |
| `AllocationMath` | quantizing, residuals and water-filling, on integers |
| `CanalDivision` | how one headgate's month is divided, credited and pooled |
| `MonthEngine` | one pass of the engine over the month's use areas |
| `CanalMonth` | the month's transaction: pass, divisions, pass; edits in between |
| `Rollover` | carry-over of zones and accounts, and the command that rolls them |
| `Filing` | finalizing, reopening, statements, fingerprints, the row trigger, the writers |
| `MeterReadings`, `RechargeCredits`, `StationReadings` | the three kinds of record whose void or correction moves something stored elsewhere |
| `Transactions` | what those three share: a request's own changes laid over the committed rows |
| `PendingImports` | uploads from preview to cleanup |
| `Fetching` | scheduled and pressed fetches of one source |
| `Demonstration` | loading and removing the demonstration |
| `ChangeHistory` | events, pages as of a moment, the change pages |
| `SiteBackups` | backups, a restore, an upgrade and the sync around one database |
| `CalculationProofs` | theorems about `CalcQueue`, among them that it implements `SerialCalculation`, and about `CanalMonth` |
| `FilingProofs`, `ChangeHistoryProofs`, `RolloverProofs` | theorems about the module each is named after |
| `OutsideDataProofs` | theorems about `Fetching` and `PendingImports` |
| `SiteProofs` | theorems about `Demonstration` and `SiteBackups` |
| `CorrectionsProofs` | theorems about the three kinds of correctable record |
| `Sums` | lemmas on sums, folds and recursion over finite sets, which three of these share |
| `MCCalcQueue`, `MCFiling`, `MCSafekeeping`, `MCCorrections`, `MCOutsideData`, `MCFetching`, `MCCanalMonth`, `MCRollover`, `MCDemonstration`, `MCChangeHistory` | instances for TLC |

In all of them an action is one step other processes can observe: a commit, or a query
whose answer the code uses later. Code between two such steps is part of the action it
leads to. Variables marked *history* in a module record what a property speaks of and
guard no action. `MCCorrections`, `MCSafekeeping` and `MCOutsideData` each check several
components that share no state: a behaviour is of one of them, chosen at its start.

### CalcQueue and SerialCalculation

`row` is the `CalculationRequest` table, `queue` the queued rows by `requested_at`, `lock`
the session that holds the advisory lock. A worker's `pc` follows `run_queue`: `try`
(`_try_lock`), `drain` (`_drain` lists the queue and takes the oldest, `TakeHead`),
`absorb` (`_merge_overlapping`), `start`, `check` (`_run`: refuse a request in a finalized
year, trim the months with no data), `month` and `commit` (`run_month`, one transaction),
`count`, `health`, `mirror`, `unlock`, `look` (look at the queue again). A person's
request `web` follows a view: the record is saved, then its months are read, then a row is
created for each period, then a worker is launched for each row. `SaveRecord` stands for
every screen that saves, voids or corrects a record and asks for its months.

What a month computes is one question here: does it read every record saved so far? `stale`
holds the months with a record the figures lack; `fresh` says that the month being run
read after the last save. A calculation the site stopped in the open (finalized year,
failed month, a web worker that died before asking) puts its months in `excused`.

`SerialCalculation` has no queue, rows, workers' states or lock: one `run` at a time, which
clears a month from `stale` only if no record of it was saved since it began, and enters a
finalized year only through the recorded door. `CalcQueueRefinement` maps `closed` to the
months of finalized years and `run` to the month the lock holder is in.

### AllocationMath, CanalDivision, MonthEngine, CanalMonth

`AllocationMath` translates `allocation_math.py` and the quantizing steps on integers of
0.0001 acre-foot (shares and efficiencies in their own last places). `CanalDivision`
follows `allocate_district_delivery` and what it calls for one headgate; `MonthEngine` follows
`run_calculations` with the default plan's steps for the month's use areas, gross of parts
of a ledger unit where the code carries more digits. Both take the records on file
(`district`) and the rows of the month (`books`) as records and return the rows that replace
them. `CanalMonth` is `run_month`: `Begin` opens the transaction and does the first pass,
`DivideNext` one headgate (in the order of their keys), `FinishMonth` the second pass and the
commit. The office types between any two of them (diversions, deliveries, meters, fallow
months, a headgate's losses and rule, a field's zone, voids), and a later step reads the new
records. A headgate that raises rolls the month back (`StopMonth`). `IsDistrict` and
`IsBooks` say what the database takes for either; the books a behaviour starts from may be an
older version's and already close (`DistrictsAssumption`), as empty ones do.

A record's remainder of less than nothing is divided as it is by shares, and stops a division
by need; where no use area divides it, nothing is recorded for it (`SplitRows`, the guard
`if surplus > 0` of `_allocate_month`). `Closes` says what follows: where use areas divide a
month it closes to the last ten-thousandth, and where none does, what is stored may pass what
is left, by less than half a ten-thousandth for each record (`WaterAddsUp`). A use area that
changes its zone while an older version's deposit of it stands has the deposit taken back
from the pool of the zone it is in by then. `MoveUseArea` puts the zones it moved between in
`strayed`, and the pools of those zones alone are left out of `PoolsAddUp`.

### Rollover

`plan`, `charged`, `loose`, `horizon`, `default` and `finalized` are what the command reads;
`book` and `credit` the rows of each year. `ReadZone` reads one zone's budget and
`StoreZones` is the first transaction; `ReadAccount` and `StoreAccounts` are the same for
the water accounts. A death (`Die`), a changed figure, a credit or a deposit, and a
finalized year that refuses the rows may come between any two of them; the years are rolled
in any order, each any number of times. `Standing` and `OnlyInAccounts` state what the books
should hold from the first year on, without the command.

### Filing

`rows` are records as committed, each in one year or outside every year; `txn` holds the
writers' transactions, with the changes not yet committed; `finalized`, `statements` and
`code` are what is on file. A `session` is a press of the button or a start of the
container (`entrypoint.sh` runs the recorder of statements and then the recorder of
fingerprints). It takes the year's row lock (`PressLocks`, `TakesUp`), reads the figures of
the statement and then of the code one record at a time, because each query has its own
snapshot, and saves everything in one commit (`Finalize`, `RecordFigures`, `RecordCode`).
`Write` is the row trigger: it looks at `is_finalized` as committed when a row changes.
`LinksChecked` is the foreign key to the year, for records that hold one, which PostgreSQL
checks at commit with a share lock on the year's row. `disturbed` marks the years that
were written to around or after their closing: a year whose closing overlaps a change in
flight, or which was written through the door.

### MeterReadings, RechargeCredits, StationReadings

`table` is what is committed of a meter, `meterReq[s].pending` a request's own changes;
`Seen(s, r)` is what a query of `s` answers. A reading's stored figures follow from the reading it was
figured from, so `from` stands for both. `VoidReading` and `CorrectReading` mark the row under
its lock; `FigureNew`, `Follow`, `LookEarlier` and `Refigure` are the queries and the update of
`_meter_reading_on_correct` and `_meter_reading_on_void`, at the old place of the row and
then at the new one; `LooksAtMonths` collects the months to recalculate.

`RechargeCredits` has `event`, `site`, the `pool` of each zone and year and the `credit` of
each event. Logging saves the event, deposits and credits in three commits; an edit, a void
or a correction is one transaction that takes back and puts in anew, waiting for the pool's
row lock. `StationReadings` has `typed`, its published `copy` and the station's `newest`
date; a request holds the rows and the days it has changed until it ends, and the unique
index on a day decides then.

### PendingImports

`status` and `result` are the row, `file` the stored file, `page` what the person sees.
`PressImport`, `MarkWaiting` and `LaunchImport` are the three steps of `start_import` between which
another request can come; `Look` to `SaveResult` the steps of the worker's `run`. `written`
counts how often the file's rows were written: a worker plans against what is on file
(`Plan`) and writes what was not there (`Write`). `Expires` is a day passing;
`purge_expired` runs inside every `Preview` and in the monthly `Purge`. A web worker that
dies between storing a file and creating its row (`PreviewDies`) leaves a file no row leads
to.

### Fetching

`said` numbers what the source publishes of a reading, `chain` the rows stored of it, each
replacing the one before. A process opens a log, asks, and stores the answer later under
the station's row lock (`record_readings`); a sync takes its stations one after the other,
first closing running logs as orphaned, and counts the failures in a row when it ends. A
press is refused while a log younger than ten minutes runs; `TenMinutes` makes it old.

A run measures its window when it starts (`InWindow`, `_pull_window`). A source that cannot
say what changed (`asksWhatChanged`) is asked for the readings dated in it; `Ages` carries a
reading out of it. One that can is asked for what it published or revised in those days, of
any date; `Settles` carries the last change out of them. Of that answer a reading dated before
the window is taken only as a revision of one the site holds (`IsNew`, the `since` of
`record_readings`). `CatchesUp` speaks of the readings that stay in reach of these two
(`InReach`), and of no other. A run over named dates (`--start`), with which a person fetches
the rest, is not modelled.

The stations of a run share one log: `error` is its `error_message`, which nothing clears, so
every station after a failed one counts as failed (`Through`). `answered` and `heard` remember
what really happened, and `LogTellsWhatHappened` says what the three ends of a log mean then.
`runs` holds the whole-source logs by their start. A log its process no longer owns, because
that died and its slot was taken over, is `Nobody`'s and must still be closed (`LogsEnd`). Logs
that have ended and that no streak reaches are left out of the state (`Remembered`).

### Demonstration

A page makes a `record` and starts a `worker`; a person at the server starts one without.
A worker looks whether it may go ahead, tries the lock, looks again under it, works in one
transaction and records its outcome. The page reads the newest record and probes the lock by
taking it for a moment, which can turn a worker away; `GrowOld` is the ninety minutes after
which a record is read as stopped.

### ChangeHistory

`live` are the rows, `event` the events as committed, `written` those of a transaction in
progress, stamped with its `start`. `AsOf(t)` translates the query `core/as_of.py` builds,
with its rule for rows older than their table's events; `Group`, `Before` and `After` the
change pages' lines, one for each record a request changed. `past` remembers the rows at each
moment, `straddled` those a transaction open at that moment changed. `CommitForgetting` is the
end of a load or a removal of the demonstration, which deletes what it has recorded itself, of
the rows it added and of rows that were there: both change the site's own record, and a removal
deletes. `forgotten` is when that last happened to each row; the properties leave out what it
names and nothing else.

### SiteBackups

`db` is the database (empty, tables without their records, whole) and its records, `dumps`
and `media` the files of `backups/`, `recorded` what `last-backup.json` names, `marker` the
file a restore keeps while it works. `job[o]` is a run of `backup.sh`, by the schedule, a restore
or an upgrade: dump, read back, archive (inside the web container, which must run), record
and prune. `restore` and `upgrade` follow their scripts; a script looks at the marker once, at its
start, so one that looked before it was made goes on (`early`). `Reboot` ends every script
without its trap; `DeleteMarker` is the person the refusal message asks.

## Runs

| Run | Instance | What it shows |
|---|---|---|
| `calcqueue_door` | 1 worker, 1 person, 2 rows, 2 months in 2 years, one toggled, a reason, one failing month, a command | plain and reasoned requests never mix; a folded request ends with its run (`RequestsTold`); no lost record; the queue implements `SerialCalculation` |
| `calcqueue_night` | 2 workers, 1 nightly, 1 crash anywhere, 1 save | two workers never calculate at once; in the end the figures show the record |
| `calcqueue_wakeup` | as above without the night | **violated**: a queued request may never be run |
| `month` | 8 districts of 2 headgates, 3 use areas, 2 wells, 2 zones, 2 accounts; 2 edits | a headgate's water adds up; pools hold what the books say; groundwater is on the ledger once; rows answer one another; no one is given more than the need; a rerun changes nothing |
| `rollover` | 2 zones, 2 accounts, 3 fields, 2 years, 1 edit, 1 toggle, 1 death | what is carried is what stands; the two books agree; a rerun changes nothing |
| `safekeeping` | filing: 2 sessions, 1 transaction, 1 year, 2 statements; backups: 2 backups beside the first, 2 kept, 2 failures or restarts | closing, reopening and the upgrade in any order; backups, a restore, an upgrade and a sync in any order |
| `filing_in_flight` | 1 session, 1 transaction | **violated**: a record changes in a finalized year, outside the door |
| `corrections` | a meter: 1 person, 5 readings over 4 days; recharge: 2 people, 2 events, 1 move of the site; a station: 2 people, 3 readings, 2 days | readings are figured from the last one in use and the months cover what moved; pools and credits hold what counts; charts read what was typed |
| `outside_data` | imports: 2 uploads, 1 press at a time, 2 workers, 1 error, 1 death; fetching: 2 stations of which one never says anything, 1 press or the schedule alone, 2 versions of which one blank, alert after 2, 1 fault, 1 death | the page tells the truth, no file is left, polling ends; sound revisions, truthful logs that end, the site catches up with what stays in reach, an outage is told |
| `fetching_failed` | 2 stations, 1 sync, 1 outage | **violated**: a run that failed is one of which no station answered |
| `demonstration` | 1 page, 2 processes, 1 record of the site's own, 1 death | records are never mixed or removed in error, outcomes are told, the buttons come back |
| `history` | 2 sessions, 2 rows, 2 figures, 2 moments, 3 writes | a past moment reads as it was and stays so; the lines of the change pages join up |

### Bounds, and why they are enough

* *Two workers, two sessions, two people.* Every lock here is taken by one process at a
  time, and what one does to another needs one of each; a third adds a repetition. The
  proofs do not bound them.
* *Two rows of the queue* let one request run while one arrives or is folded into it; a row
  no process refers to stands for the next one created, so the number of requests over time
  is not bounded. Two months, in two years, let a request be half done; a request of both
  comes from the command.
* *Saves, faults, crashes, toggles, commands* are spent from `budget`.
* *Eight districts* to start from are chosen, not enumerated: a canal with every loss; two
  records in one month, one an estimate, divided by crop need; headgates short of what the
  crops can take; rain not held to the crop's use; a well over two fields, one with no
  satellite figure; two wells over one field; three records whose last remainder is below
  nothing, with no use area left to divide them; and books an older version left. The office's
  changes lead on from each.
* *Two years* are the fewest in which a roll reads what another roll wrote. Amounts are a few
  units, so that thirds and halves round.
* *Two statements* let a year be filed, reopened and restated; `FilingProofs` covers any
  number, and records that move between years.
* *Two backups begun, two kept*: fewer begin during one than are kept, as on a site that
  keeps fourteen, and the oldest is still pruned while it is being restored. Where as many
  others begin while a script is at work as are kept, TLC finds `ToldBackupsHold` violated:
  what a script tells has been pruned meanwhile. That is the hypothesis of its theorem. A restore always
  gets its safety backup. Three at once were checked by hand with three kept and one failure.
* *Five readings over four days* let a corrected reading jump over two others: its old and
  new neighbours are then all different. Two readings in use never share a day.
* *Two stations* let a run half answer. One of them never says anything: its answer is taken or
  missed all the same, and readings of both at once would only repeat one another. A source
  that goes down, and readings that leave the window, are met by the schedule alone; a press
  beside the schedule, by a source that stays up. *Two versions, the first blank,* let a figure
  follow a blank, and a late blank meet a figure.
* *One error and one death* reach every step of every process.
* *Three writes* in `history` are an insert, a change and a delete of one row, or two rows
  of two requests; *two moments* let one lie before, inside and after a transaction.

Deadlock is not checked in the runs of the queue, of outside data, corrections and history: there the site stops when nobody presses, saves or fetches and the bounds are
spent. In the other runs some action is always possible, and deadlock is checked.

### Fairness

* `DaySpec`: a process that was started runs on (each worker's and each web request's
  steps), two hours pass for a running row, and Site Health's check fires
  (`crontab.txt`, every six hours). Nobody has to press, save, finalize, fail or die, and no
  worker has to be started.
* `NightSpec` adds strong fairness of the nightly start (`crontab.txt`, 03:30), because the
  day can go on starting processes that make the pool of processes of the model full
  again and again; the operating system does start the cron job each night.
* `PolledSpec` (in the run, of `OutsideSpec`): the page polls every two seconds and a day passes for every upload. No
  worker is assumed to run: an upload whose processes all died still ends the polling.
* `FairSpec` of `Fetching`: every process runs on, strongly, because one may wait for a row
  lock, which PostgreSQL queues; the schedule starts the next sync when one has ended or died
  (the first step of a sync's process); ten minutes pass for a running log. That the source answers for good, or stays down, is a hypothesis of
  the property, not an assumption.
* `Demonstration`'s `Spec`: a page's request and a started process run on, and ninety
  minutes pass. A process may die all the same, and nobody has to press.

## Proofs

Theorems hold for every value of the constants, under the named `ASSUME`s of each module
(the sentinels are outside the sets they stand beside, the bounds are natural numbers, what
is counted is finite), which TLC also evaluates on every instance. A bound of a model
(`MaxTime`, `Versions`, `MaxRuns`, ...) is a constant like any other: the theorems hold
whatever it is.

Each proof has the same shape: an inductive invariant, made of named parts; one lemma for
each action, or for each group of actions that do the same to it; and theorems that follow
from the invariant or, for an action property, from one step under it. TLC checked every
inductive invariant on an instance first.

`CalculationProofs`, on `CalcQueue`:

* `TypeCorrect`: every variable keeps its type. The types alone are not inductive: a worker
  reads the row it has in hand, and a view creates a row for the first of its months. `Inv`
  adds `HeadInv` (a worker with something in hand or folded has a request) and `WebInv` (a
  view that is creating rows has months left to ask for).
* `OneCalculation`: whoever is inside the drain loop holds the advisory lock. On top of
  `Inv` it is its own induction: a worker enters by taking a free lock, and leaves by
  releasing it or by dying, when PostgreSQL releases it.
* `NeverTwo`: so no two workers are inside at once.
* `ReasonsKept`: what is folded into a run carries the run's own reason. On top of `Inv` it
  is its own induction: a row's reason never changes while a worker refers to the row
  (`Unused` keeps a new request off it), and `Candidates` takes only rows with the run's
  reason.
* The last three stand on `RunInv`, which adds to `Inv` and `OneAtATime`:
  * `HandInv`: at each place of the drain loop, the status of the row in hand, what is folded
    into it, and that the months done and those left add up to the months it lists. A row that
    reads Finished is complete only because of that sum.
  * `QueueInv` (the queue holds queued rows, each once: otherwise a row could be taken twice
    and its second run would find nothing to do), `LateInv` (only a running row is late) and
    `AskedInv` (a view owes months only until it has made their rows).
  * `NothingLost`: `NoLostRecord` is not inductive without these: the months of a row that
    leaves the queue must be the months in the worker's hands.
  * `RowsSayWhatIsSo`: `RequestsTold`.
  * `QueueIsSerial`: the refinement of `SerialCalculation` under the mapping of
    `CalcQueueRefinement`, action by action. A worker that reads the records is `Begin`, the
    commit of its month `Commit`, a run that stops or dies in a month `GiveUp`. Months that
    are dropped, refused or lost before they begin are `Refuse`, a saved record is `Save`, and
    a year that is closed or opened `Finalize`; every other step is a stutter. `OneAtATime` is
    what makes `run` one month: with two workers inside, a step of the second would be no step
    of `SerialCalculation`.

`CalculationProofs`, on `CanalMonth`, for any headgates, records, use areas, wells, figures
and changes typed in between, on two invariants. A sum, a list and a division are folds; a
fold over a set is a total that one member adds to (`Sums`), a fold over a list is followed
place by place (`FoldsAtPlaces`), and either way by a least counterexample, since no induction
theorem of the library can be used.

* `MonthTypeOK` and `BooksInv`, of what is committed and of what the transaction sees, since
  what is divided half way is what will be committed: every headgate closes (`ClosesInv`), the
  pools hold what the rows say (`PoolsInv`, `DepositsInv`), and a headgate already divided has
  on its losses row what stands on record, unless something was typed (`RecordedInv`). Under
  it are the lemmas on the arithmetic: quantizing is off by half a unit at most, a residual
  placed makes the parts add up to the whole (`PlacedAddsUp`), one placed under caps, after
  water-filling, passes none of them (`DemandAllocated`), a month's losses leave what is
  divided (`LossesComeOff`), its records' rows add up to that (`MonthAddsUp`), so every division
  closes (`DivisionCloses`), and a pass touches nothing a headgate has on its rows
  (`PassKeepsCanals`). From it `MonthTypeCorrect`, `TheMonthCloses`, `ThePoolsHold` and
  `RunsAnswerShares`. That the books at first close is assumed (`DistrictsAssumption`).
* `AgainInv` on top of the types says what figures that are up to date are (`Fresh`): another
  pass changes nothing, what the wells pumped is on the ledger once, and dividing any headgate
  again writes the rows it has (`Standing`), within the needs (`Within`). During a calculation
  nothing was typed under, the headgates divided so far stand, and the transaction sees what is
  committed where that was up to date (`OnTheWay`). The second pass keeps all of this because
  it changes no use area's need (`PassKeepsNeeds`). From it `NeverOverNeed` and the action
  property `FiguringAgainChangesNothing`. `RerunChangesNothing` says it of the commit alone; the
  invariant is what it takes to say it of the three steps before.
* `OnceInv` adds that a calculated row is of a use area the satellite still has a figure of
  (`Seen`); then each is replaced or cleared by the next pass. From it and `AgainInv`
  `GroundwaterCountedOnce`, under the hypothesis `SeenAtFirst`, that so it is in the books at
  first. Without it the claim is false of the code: a use area whose figure is gone is passed
  over, and its calculated row stands beside a meter typed since. No step of the model takes a
  figure away, and the run's districts have no such row.

`FilingProofs`, on three inductive invariants, the last two each on top of the first:

* `Inv` = types; `HoldInv` (a session past the row lock, and it alone, holds its year's
  row); `StandsInv` (what it saw under the lock, open or closed, with or without a
  statement, still stands); `ReadyInv` (what it saves it has read to the end). From it:
  `TypeCorrect` and `CodeAlwaysKept`; with `LaterRecordsRestate` as its own induction on top,
  `LaterRecordsAlwaysRestate` and, with both, `OneStatementForEachClosing`.
* `CoveredInv` adds `PassInv`: a start of the container has given every closed year on its
  list a statement before it gives it a code, and a year that closes meanwhile has both. It
  is needed because `CodeCoversStatements` alone does not say that the recorder of
  fingerprints finds a statement. From it: `CodeAlwaysCovers`.
* `FiledInv`: `Apart` (no two transactions hold the same row), `QuietInv` (no change in
  flight touches a year closed quietly), `SteadyInv` (what a session has read so far of a
  year nothing was in flight for is still what the year holds). `FiledAsRead` alone is not
  inductive: a change already in flight would break it at its commit. From it:
  `FiledAlwaysAsRead`, for any number of years, records, sessions and transactions.

`OutsideDataProofs`, on `PendingImports`:

* `Inv` adds to the types `RefersInv` (a press and a worker refer to an upload that has been
  previewed), `OutcomeInv` (who is about to save an end has one), `FileInv` (at its end a
  worker has deleted the file, and a row that tells an end has none) and `WrittenInv`. From it
  `ImportTypeCorrect`, `NoFileIsLeft`, and `SavedIsAlwaysWritten`, which holds also where presses
  meet and several workers take up one upload.
* `ToldWhenPressedOnce`: `ToldAsSaved` under the hypothesis `OnePress`, that Import is pressed
  once at a time. Without it the property is false of the code (see
  [below](#what-the-models-leave-open)), and the run has one press too. `ToldInv` follows an
  upload from the press through its one worker to the page: a press under way has no
  worker yet (`PressInv`), an upload has one worker (`LoneWorkerInv`), which finds written
  exactly what it has written itself (`WorkInv`), and the row and the page say so
  (`ResultInv`).

`SiteProofs`, on `Demonstration`: `Inv` adds to the types that each run has a record of its own
(`RecordInv`), that who is inside holds the lock and a probing page has it for itself
(`LockInv`), that what a run saw under the lock still stands when it acts on it
(`LookedInv`; here the second look is needed), and that only a run itself ends its record
(`ToldInv`). From it `InventedNeverMistaken`, `RunsAreTold` and the action property
`OwnRecordsStay`.

`ChangeHistoryProofs`, on two invariants:

* `HistoryInv`: nothing committed is of the future (`ClockInv`), a row is held by one
  transaction (`LockInv`), keys are not used twice (`KeyInv`), the events of a row are in
  order (`IdsInv`), and what a transaction has written of a row begins with the row as it is
  committed and comes after all that is committed of it (`HeldInv`). The last is the heart:
  it is why the first event after a moment says what the row was at that moment, although
  events carry the start of a transaction and are seen at its commit. From it
  `PastReadsForEver` and, with `AsOfIsThen` as its own induction on top, `PageShowsThen`.
* `LinesInv`: the events of a row are a chain, each starting from what the one before it
  left, that ends at the row as it is; so are those a transaction has written. A commit
  joins two chains (`ChainsJoin`). From it `LinesAddUp`.

`OutsideDataProofs`, on `Fetching`: `FetchInv` adds to the types that the stations done are those
that answered, unless the run has an error, and that its failures are counted from the first of
them on (`StandingInv`), that who writes holds the station's row
and has seen its chain as it still is (`LockInv`), and that no two young logs are of one
station, which needs that who has looked for one holds the row until it has made its own
(`GoingInv`). From it `RevisingIsSound`, the action property `LogsTell`, and
`OneFetchAtATime`, which no run checks (the instance has one press).

`CorrectionsProofs`, on three modules that share no state:

* *Stations.* `StationInv` says what each request has changed at each place of its way
  (`Standing`: it typed, voided, marked, or moved the copy), that no row is changed by two
  requests (`RowsApart`), and that a day a request gives to a copy is no other copy's,
  committed or to be (`DaysApart`), which is what waiting for the unique index buys. All that
  commits is one copy and the readings that go with it (`Takes`), and whatever commits so
  leaves the chart as it should be. From it `StationTypeCorrect` and `ChartIsTyped`.
* *Meters*, under the hypothesis `OneRequest`: one request at a time is at work on the meter.
  Without it both properties are false of the code (see
  [below](#what-the-models-leave-open)). `PlacesInv` follows a void or a correction: readings
  in use are on days of their own (`DatesInv`); the request has struck one (`StruckInv`) and
  perhaps written one (`WrittenInv`); what else it has changed are the first readings after
  those two places (`FollowedInv`); where it stands, and that the months it has noted already
  hold those of the old place (`WayInv`). From it `MeterTypeCorrect` and the action property
  `MovedMonthsAreCovered`: the months are looked up by two queries, before and after the
  change, and the proof says why nothing between them is missed. On top of it `LastInv` has
  every reading in use either `Figured` from the last one before it or `Due`: ahead of the
  request on its way. `FiguredFromLastStays` follows where readings are typed in order
  (`InOrder`), for any number of voids and corrections in any order.
* *Recharge*, with no hypothesis: any number of people at once. `TypesInv` knows what a
  request has in hand; `InOrderInv`, until something leads the books astray, that two
  requests work on no event and hold no pool together (`ApartInv`), which rows, places and
  credits a request has changed (`LogInv`, `RowsInv`, `PlacesGivenInv`), and that a pool as
  the request sees it is the pool less the water it took out (`Left`) and with the water it
  put in (`Joined`). `PoolHoldsWhatCounts` alone is not inductive: a commit replaces pools the
  request read long before, and only the row locks make them still stand. From it
  `PoolHoldsWhatCountsAlways`. A pool is a sum over the events, and the proof needs of sums
  that one summand taken out lowers it by that much, one put in raises it, and equal
  summands give equal sums (`WaterWithout`, `WaterOfFirst`, `WaterAlike`). Those are proved
  from the definition of a fold by a least counterexample over the number of summands, since
  no induction theorem of the library can be used here.

`RolloverProofs`, for any zones, accounts, fields and years, on three invariants:

* `TypesInv` = types of the figures, the books, the command and the counts; it knows that a
  command has one result for each zone it has read and none for one it has still to read, so
  that the rows it saves never meet the table's `unique_together`. From it `RollTypeCorrect`.
* `RolledInv` on top of it: what was rolled on the figures as they stand is on the books, of
  zones and of accounts (`FreshInv`); what a command in progress has read is what the figures
  say, unless one was changed under it, and then its year does not count as rolled (`WayInv`);
  nothing is carried into the first year (`FirstInv`). From it the action property
  `RollingAgainChangesNothing`: the rows deleted are the rows written. For credits, which have
  no unique key and are a bag, it needs that each carried credit is there exactly once.
* `CarryAlwaysStands` follows from `RolledInv` in every state. `CarryIsStanding` compares what
  is on the books, each year computed from the one before it, with a sum over all the years
  (`AllIsCarried`: a surplus is kept, so all that was allocated less all that was used) or
  their deepest debt (`DebtIsCarried`: a surplus expires). Both are proved by the first year
  at which they would fail, and the sums by `Sums`.
* `AccountsAlwaysAddUp` needs besides that what an account's credits of a year carry over is
  from the year before (`SourceInv`), and has the hypothesis `EachHasFields`: every zone and
  every account has a use area. Without it the claim is false: a plan for a zone without one
  is carried in the zones' book and given to no account, and an account without one has
  credits that no roll carries. The sum over accounts of their parts of each zone is turned
  into the sum over zones of what they are allocated (`TotalByGroup`, `TotalSwapped`), after
  scaling by the product of the zones' acres, so that only the last quantizing is left and is
  within half a unit an account (`AllocationsAddUp`). Then the years are added (`BooksDiffer`).

`SiteProofs`, on `SiteBackups`:

* `Undisturbed` = where the backup a script called stands (`PlaceInv`), who may be at work
  while the marker is there (`MarkInv`: whoever had looked before it was made), where the
  database can be half-built (`BuiltInv`), and that each backup has a stamp of its own
  (`StampInv`). From it `SiteTypeCorrect` and `HalfBuiltIsLeftAlone`, for any number of
  backups, failures and restarts.
* `KeptInv` on top of it: no other backup has run beside one that is still `alone`
  (`AloneInv`), the dump of a script's backup holds what it was taken for at every step
  between (`HeldInv`), and a name read from `last-backup.json` is the right one if the backup
  was alone (`NamedInv`). Pruning keeps the newest `Keep`, so the argument needs that fewer
  others begin during one than are kept: `ToldBackupsAreThere` has the hypothesis
  `NotOvertaken`, and is false without it. A site keeps fourteen and backs up once a
  night.

Only model-checked:

* Everything temporal beyond safety (`FiguresCatchUp`, `PollingEnds`, `LogsEnd`, `CatchesUp`,
  `OutageAlerts`, `ButtonsComeBack`): liveness under fairness is out of the prover's reach.
* `MeterReadings` without `OneRequest`, where the claims are false of the code.

## What the checks found

Each is a run that TLC must find violated, listed with quotes in `PROJECT.json` under
`findings`.

1. `calcqueue_wakeup`: `run_queue` returns without looking again when its own pass handled
   nothing. A request created while such a worker is leaving, whose own worker was turned
   away by the lock, is left queued. The nightly run picks it up (`calcqueue_night`).
2. `filing_in_flight`: the row trigger reads `is_finalized` when a row is written and holds
   nothing, so a transaction that wrote before Finalize commits after it, and the statement
   and the fingerprint just taken differ from the records. `FiledAsRead` says precisely
   what remains true: a year nothing was in flight for stays as filed.
3. `fetching_failed`: the stations of a run share one log, whose error message is never
   cleared, so a run whose first station did not answer closes as failed though every other
   one did. The docstring of `_sync_stations` says that it returns how many errored, the alert
   after three such runs that every station errored on each. `LogTellsWhatHappened` says
   precisely what a log tells: failed means that none answered before the first failure.

## What the models leave open

Behaviour met while modelling, read in the code and left out of a property's claim or of the
model itself. Where a model contains it, the property that stops short of it names it.

*Queue and records.* Two presses of Calculate at once create two requests; the worker folds
them. Two presses of Import at once start two workers, and the page of the second says that
nothing was saved; `ToldAsSaved` is checked with one press at a time. Two people who void or correct
neighbouring readings at once each look the other's row up as it was, and a reading typed
between two others, or on a day that has one, leaves the later one figured from the earlier:
`FiguredFromLast` is checked for one person at a time typing in order. A typed meter row in
the ledger form, and an edit of a headgate's shares, start no recalculation. A web worker that dies
between storing an upload and its row leaves the file.

*The month.* A rain method that takes the raw or a fraction of the rain can make a field's
need negative, and dividing by need then stops the whole month. A voided field still linked
to a headgate takes a share that counts nowhere. A headgate that is inactive, or has neither
links nor records left, is not visited, and its old shares stand; a field with no satellite
reading any more keeps its old rows. Water an older version put in a pool for a field that
has gained a well since is never taken back. What is taken back of a field that has moved is
taken from the zone it is in now (`run_calculations.py:984`), whose pool may never have had it,
while the comment above says the zone that holds the old deposit is found; `PoolsAddUp` leaves
out the zones of such a move (`strayed`). A rounding residual can put a weight below zero where areas are nearly nothing. Two
records of one month, or two headgates serving one field, are each capped at the field's full
need. Two wells on one field overwrite one another's reading (`run_calculations.py:517`). A
record's remainder of minus one ten-thousandth, which rounding can leave the last of several,
stops a division by need (`surface/services.py`, `_record_remainders`); where no use area divides
the month it is passed over (`surface/services.py:789`), and what is recorded as reaching no one
is a ten-thousandth too much. In a month of a few
ten-thousandths whose three losses each round up, what is left to divide is below nothing.

*Carry-over.* What a zone owed is dropped when a year with no groundwater plan follows.
A plan of a zone without a use area is carried in the zones' book and given to no account, and
the credits of an account without one are not rolled.
Accounts read their use by the reporting period of a row, zones by its date, so a row
without a period is charged to zones only (`loose`). `AllocationCarryover`'s docstring says
that `zone_carryover` adds every origin of a zone's year (`accounting/models.py:494`); it adds
the carried-forward rows alone. Two rollovers at once can duplicate
account credits.

*Recharge and stations.* An event whose site is put in another zone, or in its first zone,
is later taken back from the wrong pool; an edit of a struck event from a stale page credits
it again; two edits, or an edit and a void, of one event drift the pool; a death between the
three commits of logging leaves it short. `PoolHoldsWhatCounts` stops at each (`astray`).
Voiding the newest reading of a station does not move its newest date back. A correction
onto a day that has just been published is refused by the index as an error page.

*Fetching.* A pressed fetch slower than ten minutes is taken for dead, and both store what they
got. A reading that was not fetched while it was in the window is never asked for again, nor one
revised too long ago, unless a person names `--start` (`sync_source.py:256`). Nothing keeps two
syncs of one source apart; the run has one after the other.

*Demonstration.* The page's probe of the lock can turn a worker away, whose record then reads
running for ninety minutes; so does a double press. A record added during a load joins the
demonstration, and one added after the confirmation page of a removal is deleted with it. A
sign-in during a removal makes it refuse. Deleting the demonstration's boundary by hand makes
the site read as having none.

*History.* A transaction begun before a day's end and committed after it changes what that
day reads, and a delete by it makes the row vanish from the day; `AsOfIsThen` and
`PastStands` name it (`straddled`). Tables without a creation date show rows loaded without
events at moments before the load. Removing the demonstration takes its past with it: what it
deletes is gone from past days too. A load and a removal both change the site's own record
and forget that they did, so that on the change pages its newest line does not end at the record
as it is (`core/demonstration.py:741`, `:849`). Both are named in the claims (`forgotten`).

*Backups.* A restore that fails takes its marker with it: the next sync starts the website on
an incomplete database (`broken`), and the nightly backups of it push good ones out in two
weeks. The next restore makes its safety backup first, which needs the website running on that
database. An upgrade whose backup was skipped because a restore began (exit 0) takes it for
made and names an old one. A sync, upgrade or backup that looked for the marker before it was
made goes on into the restore (`loose`, `stray`). Records saved between the safety dump and
the stop of the website are in no backup (`since`). Which backup a restore or an upgrade names is read from
`last-backup.json`, and is another's when one ran beside it (`alone`). A marker left by a
restart makes every backup skip until a person deletes it; Site Health says so after 36 hours.

## Not modelled

* Configurable order of calculation plans, other rain methods, and split rows from before the
  column that names their headgate.
* The span lock on fallow periods and the lock on the month the water year starts in.
* Two readings on one day, rollovers of a meter and unit conversions; measurements at
  recharge sites; the personal path of a recharge credit, which no request takes.
* What each source's adapter asks and how it reads an answer; a fetch over named dates
  (`--start`, `--end`); the OpenET budget.
* What the demonstration holds, modules switched off, the golden copy and the scripts of the
  demonstration host (`deploy.sh`, `reset-demo.sh`, `release.sh` and their like): they act on
  one host by hand and share no state with a site's processes.
* The media archives' content, versions and migrations in a restore; two backups in one
  second; two restores started in one instant.
* `banking_math.py`, which nothing calls; dry runs.
* Checking a fingerprint again, reports, screens, access rules, the setup wizard, standards,
  feedback: reads, formatting, and forms on one row.

Code outside `src/` is modelled from how the code uses it and marked external in
`PROJECT.json`: PostgreSQL's row versions, row locks, advisory lock, unique indexes and
deferred foreign keys, the deaths of processes, and time.

The repository is some hundred thousand lines of views, forms, checks, importers and
commands. The map covers the parts that keep state between the steps of two processes or carry figures
from one calculation to another; a screen that reads rows or saves one form is covered by
the `SaveRecord`, `Write` or upload it amounts to, and mapping it would add lines and no behaviour.

## Plan

The modules of the first plan are written: queue, filing, readings, imports, fetching, the
month's arithmetic and its transaction, carry-over, demonstration, history, backups, and the
refinement of the queue. Every safety claim that a run checks, invariant or action property,
is proved for every value of the constants, some of them under the hypotheses named in
[Proofs](#proofs). What is left are later extensions of the models: the span lock on fallow
periods, two readings on one day, the check of a fingerprint.

## Running it

    tlasany Filing.tla
    tlc -workers 2 -config Safekeeping.cfg MCSafekeeping
    tlapm FilingProofs.tla

Each passing run ends within three minutes on two free cores; the proofs of a module take from
one to five minutes from nothing, those of `CorrectionsProofs` ten, those of
`CalculationProofs` a quarter of an hour.
