------------------------------ MODULE CalcQueue ------------------------------
(***************************************************************************)
(* The calculation queue of accounting/engine_run.py.                       *)
(*                                                                          *)
(* A calculation of some months is asked for with a CalculationRequest row  *)
(* and done by a worker, an operating system process that runs run_queue:   *)
(* it takes a PostgreSQL advisory lock, runs every queued request oldest    *)
(* first (folding the ones that overlap into it), releases the lock and     *)
(* looks at the queue again.  Rows are created by people who save records,  *)
(* by the Calculate button and by the nightly schedule.  Site Health marks  *)
(* a run that has been running for over two hours as failed.                *)
(*                                                                          *)
(* One action is one statement another process can observe: a commit, or    *)
(* a query whose answer is used later.                                      *)
(*                                                                          *)
(* Rows are a finite pool.  A finished row is never read again by the code  *)
(* modelled here, so its identity may stand for a row created later.        *)
(***************************************************************************)
EXTENDS Integers, FiniteSets, Sequences

CONSTANTS
  Worker,       \* processes that run run_queue (manage.py run_accounting)
  NightWorker,  \* the ones the nightly schedule may start
  User,         \* signed-in people (web requests in progress)
  Request,      \* identities of CalculationRequest rows
  NMonths,      \* the months are 1 .. NMonths, in calendar order
  Period,       \* reporting periods (water years)
  PeriodOf,     \* the period a month falls in, or NoPeriod
  NoPeriod,
  Reason,       \* override reasons an administrator may type
  Plain,        \* the empty override reason
  NoWorker,     \* nobody holds the advisory lock
  NoRequest,
  MaxSaves, MaxFaults, MaxCrashes, MaxToggles, MaxCommands  \* bounds, see budget

Month == 1 .. NMonths

ASSUME NMonthsAssumption == NMonths \in Nat
ASSUME PeriodOfAssumption == PeriodOf \in [Month -> Period \cup {NoPeriod}]
ASSUME NightWorkerAssumption == NightWorker \subseteq Worker
ASSUME NobodyAssumption ==
  /\ NoPeriod \notin Period
  /\ Plain \notin Reason
  /\ NoWorker \notin Worker
  /\ NoRequest \notin Request
ASSUME BoundsAssumption ==
  \A n \in {MaxSaves, MaxFaults, MaxCrashes, MaxToggles, MaxCommands} : n \in Nat

VARIABLES
  row,        \* the CalculationRequest table
  queue,      \* the queued rows, oldest first (requested_at, pk)
  finalized,  \* the periods with is_finalized set
  hasData,    \* the months any parcel has crop water use data for
  lock,       \* the session that holds the advisory lock
  pc,         \* where each worker stands
  head,       \* the request each worker is running
  absorbed,   \* the requests folded into it
  todo,       \* the months each worker has still to run
  wanted,     \* the periods a nightly worker has still to create rows for
  handled,    \* whether this pass over the queue ran anything
  web,        \* the web request each person has in progress
  late,       \* running rows whose started_at is over two hours ago
  stale,      \* history: months with a saved record the figures do not show
  fresh,      \* history: the month a worker is in has read every saved record
  excused,    \* history: months whose calculation was stopped, refused or dropped
  budget      \* what is left of each bound

workerVars == <<lock, pc, head, absorbed, todo, wanted, handled, fresh>>
vars == <<row, queue, finalized, hasData, workerVars, web, late, stale,
          excused, budget>>

-----------------------------------------------------------------------------
(* Types *)

Status == {"free", "queued", "running", "succeeded", "failed"}
RequestRow == [status : Status, months : SUBSET Month,
               period : Period \cup {NoPeriod}, reason : Reason \cup {Plain},
               done : Nat]

\* Inside run_queue with the advisory lock held, then everywhere else.
Locked == {"drain", "absorb", "start", "check", "month", "commit", "count",
           "health", "mirror", "unlock"}
WorkerPC == Locked \cup {"off", "nightly", "try", "look"}

WebPC == {"idle", "press", "saved", "create", "launch"}
WebRequest == [pc : WebPC, months : SUBSET Month, made : SUBSET Request,
               period : Period \cup {NoPeriod}, reason : Reason \cup {Plain}]
Budget == [saves : 0 .. MaxSaves, faults : 0 .. MaxFaults,
           crashes : 0 .. MaxCrashes, toggles : 0 .. MaxToggles,
           commands : 0 .. MaxCommands]

TypeOK ==
  /\ row \in [Request -> RequestRow]
  /\ queue \in Seq(Request)
  /\ finalized \subseteq Period
  /\ hasData \subseteq Month
  /\ lock \in Worker \cup {NoWorker}
  /\ pc \in [Worker -> WorkerPC]
  /\ head \in [Worker -> Request \cup {NoRequest}]
  /\ absorbed \in [Worker -> SUBSET Request]
  /\ todo \in [Worker -> SUBSET Month]
  /\ wanted \in [Worker -> SUBSET Period]
  /\ handled \in [Worker -> BOOLEAN]
  /\ web \in [User -> WebRequest]
  /\ late \subseteq Request
  /\ stale \subseteq Month
  /\ fresh \in [Worker -> BOOLEAN]
  /\ excused \subseteq Month
  /\ budget \in Budget

Idle == [pc |-> "idle", months |-> {}, made |-> {}, period |-> NoPeriod,
         reason |-> Plain]

Init ==
  /\ row = [r \in Request |-> [status |-> "free", months |-> {},
                               period |-> NoPeriod, reason |-> Plain, done |-> 0]]
  /\ queue = <<>>
  /\ finalized = {}
  /\ hasData \in SUBSET Month
  /\ lock = NoWorker
  /\ pc = [w \in Worker |-> "off"]
  /\ head = [w \in Worker |-> NoRequest]
  /\ absorbed = [w \in Worker |-> {}]
  /\ todo = [w \in Worker |-> {}]
  /\ wanted = [w \in Worker |-> {}]
  /\ handled = [w \in Worker |-> FALSE]
  /\ web = [u \in User |-> Idle]
  /\ late = {}
  /\ stale = {}
  /\ fresh = [w \in Worker |-> FALSE]
  /\ excused = {}
  /\ budget = [saves |-> MaxSaves, faults |-> MaxFaults, crashes |-> MaxCrashes,
               toggles |-> MaxToggles, commands |-> MaxCommands]

-----------------------------------------------------------------------------
(* Months and periods *)

MonthsOf(p) == {m \in Month : PeriodOf[m] = p}
FinalizedMonth(m) == PeriodOf[m] \in finalized
First(S) == CHOOSE m \in S : \A n \in S : m <= n

\* The run ends at the last month, within the span asked for, that has data.
MonthsToRun(asked) ==
  {m \in asked : \E d \in hasData : m <= d /\ \E a \in asked : d <= a}

UnderWay(p) == \E r \in Request : row[r].period = p
                                  /\ row[r].status \in {"queued", "running"}

-----------------------------------------------------------------------------
(* Creating rows and starting workers *)

\* A row identity that nothing in the database or in memory still refers to.
Unused(r) ==
  /\ row[r].status \notin {"queued", "running"}
  /\ \A w \in Worker : head[w] # r /\ r \notin absorbed[w]
  /\ \A u \in User : r \notin web[u].made

\* Which of them a new row takes makes no difference.
NewRow == CHOOSE r \in Request : Unused(r)

\* create_request: a queued row, younger than every other.
CreateRow(p, asked, why) ==
  /\ \E r \in Request : Unused(r)
  /\ row' = [row EXCEPT ![NewRow] = [status |-> "queued", months |-> asked,
                                     period |-> p, reason |-> why, done |-> 0]]
  /\ queue' = Append(queue, NewRow)

\* Spend one unit of the bound on f.
Spend(f) == budget[f] > 0 /\ budget' = [budget EXCEPT ![f] = @ - 1]

\* request_for_months reads the periods once: months of a finalized year are
\* dropped unless the record went through the door with a reason.
RequestMonths(u) ==
  LET kept == {m \in web[u].months : web[u].reason # Plain \/ ~FinalizedMonth(m)} IN
  /\ web[u].pc = "saved"
  /\ web' = [web EXCEPT ![u] = IF kept = {} THEN Idle
                               ELSE [web[u] EXCEPT !.pc = "create", !.months = kept]]
  /\ excused' = excused \cup (web[u].months \ kept)
  /\ UNCHANGED <<row, queue, finalized, hasData, workerVars, late, stale, budget>>

\* Mutant: only the first month is asked for.
CreateFirstMonth(u) ==
  /\ web[u].pc = "create"
  /\ CreateRow(PeriodOf[First(web[u].months)], {First(web[u].months)}, web[u].reason)
  /\ web' = [web EXCEPT ![u].months = {}, ![u].made = {NewRow}, ![u].pc = "launch"]
  /\ UNCHANGED <<late, finalized, hasData, workerVars, stale, excused, budget>>

\* ... then creates one request per period the months fall in, oldest first ...
CreateNext(u) ==
  LET first == First(web[u].months)
      group == {m \in web[u].months : PeriodOf[m] = PeriodOf[first]}
      rest  == web[u].months \ group IN
  /\ web[u].pc = "create"
  /\ CreateRow(PeriodOf[first], group, web[u].reason)
  /\ web' = [web EXCEPT ![u].months = rest, ![u].made = @ \cup {NewRow},
                        ![u].pc = IF rest = {} THEN "launch" ELSE "create"]
  /\ UNCHANGED <<late, finalized, hasData, workerVars, stale, excused, budget>>

\* ... and starts a worker for each of them (start_calculation).
Launch(u, w) ==
  /\ web[u].pc = "launch"
  /\ pc[w] = "off"
  /\ pc' = [pc EXCEPT ![w] = "try"]
  /\ \E r \in web[u].made :
       web' = [web EXCEPT ![u] =
                 IF web[u].made = {r} THEN Idle
                 ELSE [web[u] EXCEPT !.made = web[u].made \ {r}]]
  /\ UNCHANGED <<row, queue, finalized, hasData, lock, head, absorbed, todo,
                 wanted, handled, fresh, late, stale, excused, budget>>

\* A person saves, voids or corrects a record dated in the months ms.  The
\* period lock refuses it in a finalized year, unless an administrator gives a
\* reason and goes through the recorded door.
SaveRecord(u, ms, why) ==
  /\ web[u].pc = "idle"
  /\ ms # {}
  /\ why = Plain <=> \A m \in ms : ~FinalizedMonth(m)
  /\ Spend("saves")
  /\ stale' = stale \cup ms
  /\ excused' = excused \ ms
  /\ fresh' = [w \in Worker |-> fresh[w] /\ ~(todo[w] # {} /\ First(todo[w]) \in ms)]
  /\ web' = [web EXCEPT ![u] = [Idle EXCEPT !.pc = "saved", !.months = ms,
                                            !.reason = why]]
  /\ UNCHANGED <<row, queue, finalized, hasData, lock, pc, head, absorbed, todo,
                 wanted, handled, late>>

\* period_calculate: the button starts nothing for a finalized period, nor
\* while a request for the period is waiting or running ...
Press(u, p) ==
  /\ web[u].pc = "idle"
  /\ p \notin finalized
  /\ ~UnderWay(p)
  /\ web' = [web EXCEPT ![u] = [Idle EXCEPT !.pc = "press", !.period = p]]
  /\ UNCHANGED <<row, queue, finalized, hasData, workerVars, late, stale,
                 excused, budget>>

\* ... and otherwise creates one for the period's whole span.
PressCreate(u) ==
  /\ web[u].pc = "press"
  /\ CreateRow(web[u].period, MonthsOf(web[u].period), Plain)
  /\ web' = [web EXCEPT ![u] = [Idle EXCEPT !.pc = "launch", !.made = {NewRow}]]
  /\ UNCHANGED <<late, finalized, hasData, workerVars, stale, excused, budget>>

\* The web worker dies with a request half done: what it had not yet asked for
\* is never asked for, what it had not yet launched is never launched.
WebDies(u) ==
  /\ web[u].pc # "idle"
  /\ Spend("crashes")
  /\ excused' = excused \cup web[u].months
  /\ web' = [web EXCEPT ![u] = Idle]
  /\ UNCHANGED <<row, queue, finalized, hasData, workerVars, late, stale>>

\* Mutant: the schedule lists the finalized periods.
NightlyOfFinalized(w) ==
  /\ pc[w] = "off"
  /\ pc' = [pc EXCEPT ![w] = "nightly"]
  /\ wanted' = [wanted EXCEPT ![w] = finalized]
  /\ UNCHANGED <<row, queue, finalized, hasData, lock, head, absorbed, todo,
                 handled, fresh, web, late, stale, excused, budget>>

\* The 03:30 schedule: run_accounting --open-periods lists the open periods,
Nightly(w) ==
  /\ pc[w] = "off"
  /\ pc' = [pc EXCEPT ![w] = "nightly"]
  /\ wanted' = [wanted EXCEPT ![w] = Period \ finalized]
  /\ UNCHANGED <<row, queue, finalized, hasData, lock, head, absorbed, todo,
                 handled, fresh, web, late, stale, excused, budget>>

\* creates a request for each,
NightlyCreate(w) ==
  /\ pc[w] = "nightly"
  /\ \E p \in wanted[w] :
       /\ CreateRow(p, MonthsOf(p), Plain)
       /\ wanted' = [wanted EXCEPT ![w] = @ \ {p}]
  /\ UNCHANGED <<late, finalized, hasData, lock, pc, head, absorbed, todo, handled,
                 fresh, web, stale, excused, budget>>

\* and then runs the queue.  (Bound: with the pool used up it creates no more.)
NightlyRun(w) ==
  /\ pc[w] = "nightly"
  /\ wanted[w] = {} \/ \A r \in Request : ~Unused(r)
  /\ wanted' = [wanted EXCEPT ![w] = {}]
  /\ pc' = [pc EXCEPT ![w] = "try"]
  /\ UNCHANGED <<row, queue, finalized, hasData, lock, head, absorbed, todo,
                 handled, fresh, web, late, stale, excused, budget>>

\* run_accounting --month ...: one request, for the period of its first month.
Command(w, ms) ==
  /\ pc[w] = "off"
  /\ ms # {}
  /\ Spend("commands")
  /\ CreateRow(PeriodOf[First(ms)], ms, Plain)
  /\ pc' = [pc EXCEPT ![w] = "try"]
  /\ UNCHANGED <<late, finalized, hasData, lock, head, absorbed, todo, wanted, handled,
                 fresh, web, stale, excused>>

-----------------------------------------------------------------------------
(* run_queue: the lock *)

\* Mutant: the answer of pg_try_advisory_lock is not looked at.
TryLockIgnored(w) ==
  /\ pc[w] = "try"
  /\ lock' = w
  /\ pc' = [pc EXCEPT ![w] = "drain"]
  /\ UNCHANGED <<row, queue, finalized, hasData, head, absorbed, todo, wanted,
                 handled, fresh, web, late, stale, excused, budget>>

TryLock(w) ==
  /\ pc[w] = "try"
  /\ IF lock = NoWorker
       THEN /\ lock' = w
            /\ pc' = [pc EXCEPT ![w] = "drain"]
       ELSE /\ pc' = [pc EXCEPT ![w] = "off"]
            /\ UNCHANGED lock
  /\ UNCHANGED <<row, queue, finalized, hasData, head, absorbed, todo, wanted,
                 handled, fresh, web, late, stale, excused, budget>>

Unlock(w) ==
  /\ pc[w] = "unlock"
  /\ lock' = NoWorker
  /\ pc' = [pc EXCEPT ![w] = IF handled[w] THEN "look" ELSE "off"]
  /\ handled' = [handled EXCEPT ![w] = FALSE]
  /\ UNCHANGED <<row, queue, finalized, hasData, head, absorbed, todo, wanted,
                 fresh, web, late, stale, excused, budget>>

\* The queue is looked at again after the lock is released.
Look(w) ==
  /\ pc[w] = "look"
  /\ pc' = [pc EXCEPT ![w] = IF queue = <<>> THEN "off" ELSE "try"]
  /\ UNCHANGED <<row, queue, finalized, hasData, lock, head, absorbed, todo,
                 wanted, handled, fresh, web, late, stale, excused, budget>>

-----------------------------------------------------------------------------
(* _drain: the oldest request, and the ones that overlap it *)

\* The queue once the row at place i, or the row r, is no longer queued.
WithoutPlace(q, i) == SubSeq(q, 1, i - 1) \o SubSeq(q, i + 1, Len(q))
Without(q, r) ==
  LET places == {i \in 1 .. Len(q) : q[i] = r} IN
  IF places = {} THEN q ELSE WithoutPlace(q, CHOOSE i \in places : TRUE)

MonthsOfRows(rs) == UNION {row[r].months : r \in rs}

\* Mutant: the reasons are not compared.
CandidatesAnyReason(h) == {r \in Request \ {h} : row[r].status = "queued"}

\* The queued requests with the head's own reason.
Candidates(h) ==
  {r \in Request \ {h} : row[r].status = "queued" /\ row[r].reason = row[h].reason}

\* _merge_overlapping: the least set of candidates outside which nothing
\* overlaps the union of the months.
Folded(h) ==
  LET Closed(S) == \A r \in Candidates(h) \ S :
                     row[r].months \cap MonthsOfRows(S \cup {h}) = {}
  IN  {r \in Candidates(h) : \A S \in SUBSET Candidates(h) : Closed(S) => r \in S}

EmptyQueue(w) ==
  /\ pc[w] = "drain"
  /\ queue = <<>>
  /\ pc' = [pc EXCEPT ![w] = "unlock"]
  /\ UNCHANGED <<row, queue, finalized, hasData, lock, head, absorbed, todo,
                 wanted, handled, fresh, web, late, stale, excused, budget>>

TakeHead(w) ==
  /\ pc[w] = "drain"
  /\ queue # <<>>
  /\ LET h == Head(queue) IN
       /\ head' = [head EXCEPT ![w] = h]
       /\ absorbed' = [absorbed EXCEPT ![w] = Folded(h)]
       /\ row' = [row EXCEPT ![h].months = MonthsOfRows(Folded(h) \cup {h})]
       /\ pc' = [pc EXCEPT ![w] = IF Folded(h) = {} THEN "start" ELSE "absorb"]
  /\ UNCHANGED <<queue, finalized, hasData, lock, todo, wanted, handled, fresh,
                 web, late, stale, excused, budget>>

\* The folded requests are marked running, one save each.
Absorb(w) ==
  LET left == {r \in absorbed[w] : row[r].status = "queued"} IN
  /\ pc[w] = "absorb"
  /\ \E r \in left :
       /\ row' = [row EXCEPT ![r].status = "running"]
       /\ queue' = Without(queue, r)
       /\ pc' = [pc EXCEPT ![w] = IF left = {r} THEN "start" ELSE "absorb"]
  /\ UNCHANGED <<finalized, hasData, lock, head, absorbed, todo, wanted, handled,
                 fresh, web, late, stale, excused, budget>>

\* Mutant: the months and their count are not copied.
MirrorStatusOnly(w) ==
  /\ pc[w] = "mirror"
  /\ \E r \in absorbed[w] :
       /\ row' = [row EXCEPT ![r].status = row[head[w]].status]
       /\ absorbed' = [absorbed EXCEPT ![w] = @ \ {r}]
       /\ late' = late \ {r}
  /\ UNCHANGED <<queue, finalized, hasData, lock, pc, head, todo, wanted, handled,
                 fresh, web, stale, excused, budget>>

\* _mirror: each folded request is given the head's result, one save each.
Mirror(w) ==
  /\ pc[w] = "mirror"
  /\ \E r \in absorbed[w] :
       /\ row' = [row EXCEPT ![r] = [row[head[w]] EXCEPT !.period = row[r].period,
                                                         !.reason = row[r].reason]]
       /\ absorbed' = [absorbed EXCEPT ![w] = @ \ {r}]
       /\ late' = late \ {r}
  /\ UNCHANGED <<queue, finalized, hasData, lock, pc, head, todo, wanted, handled,
                 fresh, web, stale, excused, budget>>

Handled(w) ==
  /\ pc[w] = "mirror"
  /\ absorbed[w] = {}
  /\ head' = [head EXCEPT ![w] = NoRequest]
  /\ handled' = [handled EXCEPT ![w] = TRUE]
  /\ pc' = [pc EXCEPT ![w] = "drain"]
  /\ UNCHANGED <<row, queue, finalized, hasData, lock, absorbed, todo, wanted,
                 fresh, web, late, stale, excused, budget>>

-----------------------------------------------------------------------------
(* execute: one request, month by month *)

PlainRow(r) == row[r].reason = Plain

Start(w) ==
  /\ pc[w] = "start"
  /\ row' = [row EXCEPT ![head[w]].status = "running", ![head[w]].done = 0]
  /\ queue' = Without(queue, head[w])
  /\ pc' = [pc EXCEPT ![w] = "check"]
  /\ UNCHANGED <<finalized, hasData, lock, head, absorbed, todo, wanted, handled,
                 fresh, web, late, stale, excused, budget>>

\* _finish with "failed": the run ends here; months it leaves undone are excused.
Stop(w, undone) ==
  /\ row' = [row EXCEPT ![head[w]].status = "failed"]
  /\ late' = late \ {head[w]}
  /\ excused' = excused \cup undone
  /\ todo' = [todo EXCEPT ![w] = {}]
  /\ fresh' = [fresh EXCEPT ![w] = FALSE]
  /\ pc' = [pc EXCEPT ![w] = "health"]
  /\ UNCHANGED <<queue, finalized, hasData, lock, head, absorbed, wanted, handled,
                 web, stale>>

\* A plain request is refused whole if its period, or any month, is finalized.
InFinalized(r) ==
  PlainRow(r) /\ (row[r].period \in finalized \/ \E m \in row[r].months : FinalizedMonth(m))

Refuse(w) ==
  /\ pc[w] = "check"
  /\ InFinalized(head[w])
  /\ Stop(w, row[head[w]].months)
  /\ UNCHANGED budget

\* Otherwise the months are trimmed to the ones with data and saved so.
Trim(w) ==
  LET asked == row[head[w]].months IN
  /\ pc[w] = "check"
  /\ ~InFinalized(head[w])
  /\ row' = [row EXCEPT ![head[w]].months = MonthsToRun(asked)]
  /\ todo' = [todo EXCEPT ![w] = MonthsToRun(asked)]
  /\ excused' = excused \cup (asked \ MonthsToRun(asked))
  /\ pc' = [pc EXCEPT ![w] = "month"]
  /\ UNCHANGED <<queue, finalized, hasData, lock, head, absorbed, wanted, handled,
                 fresh, web, late, stale, budget>>

\* Mutant: the year is not looked at when a month begins.
BeginUnguarded(w) ==
  /\ pc[w] = "month"
  /\ todo[w] # {}
  /\ pc' = [pc EXCEPT ![w] = "commit"]
  /\ fresh' = [fresh EXCEPT ![w] = TRUE]
  /\ UNCHANGED <<row, queue, finalized, hasData, lock, head, absorbed, todo, wanted,
                 handled, web, late, stale, excused, budget>>

\* run_month opens a transaction; run_calculations refuses a finalized month
\* unless the override is open.
BeginMonth(w) ==
  /\ pc[w] = "month"
  /\ todo[w] # {}
  /\ ~(PlainRow(head[w]) /\ FinalizedMonth(First(todo[w])))
  /\ pc' = [pc EXCEPT ![w] = "commit"]
  /\ fresh' = [fresh EXCEPT ![w] = TRUE]
  /\ UNCHANGED <<row, queue, finalized, hasData, lock, head, absorbed, todo, wanted,
                 handled, web, late, stale, excused, budget>>

\* The month's transaction commits: the figures show every record it read.
CommitMonth(w) ==
  LET m == First(todo[w])
      shown == IF fresh[w] THEN {m} ELSE {} IN
  /\ pc[w] = "commit"
  /\ stale' = stale \ shown
  /\ excused' = excused \ shown
  /\ todo' = [todo EXCEPT ![w] = @ \ {m}]
  /\ fresh' = [fresh EXCEPT ![w] = FALSE]
  /\ pc' = [pc EXCEPT ![w] = "count"]
  /\ UNCHANGED <<row, queue, finalized, hasData, lock, head, absorbed, wanted,
                 handled, web, late, budget>>

CountMonth(w) ==
  /\ pc[w] = "count"
  /\ row' = [row EXCEPT ![head[w]].done = @ + 1]
  /\ pc' = [pc EXCEPT ![w] = "month"]
  /\ UNCHANGED <<queue, finalized, hasData, lock, head, absorbed, todo, wanted,
                 handled, fresh, web, late, stale, excused, budget>>

\* The guard, or the period lock's trigger on a write, finds the year finalized.
RejectMonth(w) ==
  /\ pc[w] \in {"month", "commit"}
  /\ todo[w] # {}
  /\ PlainRow(head[w]) /\ FinalizedMonth(First(todo[w]))
  /\ Stop(w, todo[w])
  /\ UNCHANGED budget

\* Anything else that raises: no plan is active, canal losses too large, or an
\* unexpected error; the month's transaction rolls back.
Fail(w) ==
  /\ pc[w] \in {"check", "commit"}
  /\ Spend("faults")
  /\ Stop(w, IF pc[w] = "check" THEN row[head[w]].months ELSE todo[w])

\* _finish with "succeeded" (or "finished_with_notes", not told apart here).
Finish(w) ==
  /\ pc[w] = "month"
  /\ todo[w] = {}
  /\ row' = [row EXCEPT ![head[w]].status = "succeeded"]
  /\ late' = late \ {head[w]}
  /\ pc' = [pc EXCEPT ![w] = "health"]
  /\ UNCHANGED <<queue, finalized, hasData, lock, head, absorbed, todo, wanted,
                 handled, fresh, web, stale, excused, budget>>

-----------------------------------------------------------------------------
(* Site Health, crashes and the rest of the site *)

\* check_calculation: every run that is over two hours old is marked failed.
FailLateRuns ==
  /\ row' = [r \in Request |-> IF r \in late THEN [row[r] EXCEPT !.status = "failed"]
                               ELSE row[r]]
  /\ late' = {}

\* It runs at the end of every request (_record_health) ...
Health(w) ==
  /\ pc[w] = "health"
  /\ FailLateRuns
  /\ pc' = [pc EXCEPT ![w] = "mirror"]
  /\ UNCHANGED <<queue, finalized, hasData, lock, head, absorbed, todo, wanted,
                 handled, fresh, web, stale, excused, budget>>

\* ... and on its own schedule.
HealthCheck ==
  /\ late # {}
  /\ FailLateRuns
  /\ UNCHANGED <<queue, finalized, hasData, workerVars, web, stale, excused, budget>>

TwoHoursPass(r) ==
  /\ row[r].status = "running"
  /\ r \notin late
  /\ late' = late \cup {r}
  /\ UNCHANGED <<row, queue, finalized, hasData, workerVars, web, stale, excused,
                 budget>>

\* What a worker that dies now leaves neither calculated nor queued.
Unfinished(w) ==
  CASE pc[w] = "check" -> row[head[w]].months
    [] pc[w] \in {"month", "commit", "count"} -> todo[w]
    [] OTHER -> {}

\* The process dies: its session ends, so its lock is released and an open
\* transaction rolls back; the rows stay as they are.
WorkerDies(w) ==
  /\ pc[w] # "off"
  /\ Spend("crashes")
  /\ excused' = excused \cup Unfinished(w)
  /\ lock' = IF lock = w THEN NoWorker ELSE lock
  /\ pc' = [pc EXCEPT ![w] = "off"]
  /\ head' = [head EXCEPT ![w] = NoRequest]
  /\ absorbed' = [absorbed EXCEPT ![w] = {}]
  /\ todo' = [todo EXCEPT ![w] = {}]
  /\ wanted' = [wanted EXCEPT ![w] = {}]
  /\ fresh' = [fresh EXCEPT ![w] = FALSE]
  /\ handled' = [handled EXCEPT ![w] = FALSE]
  /\ UNCHANGED <<row, queue, finalized, hasData, web, late, stale>>

\* period_finalize, either way (Filing models what it writes).
ToggleFinalized(p) ==
  /\ Spend("toggles")
  /\ finalized' = IF p \in finalized THEN finalized \ {p} ELSE finalized \cup {p}
  /\ UNCHANGED <<row, queue, hasData, workerVars, web, late, stale, excused>>

\* The OpenET sync stores a month's crop water use.
DataArrives(m) ==
  /\ m \notin hasData
  /\ hasData' = hasData \cup {m}
  /\ UNCHANGED <<row, queue, finalized, workerVars, web, late, stale, excused,
                 budget>>

-----------------------------------------------------------------------------

WebStep(u) == \/ RequestMonths(u) \/ CreateNext(u) \/ PressCreate(u)
              \/ \E w \in Worker : Launch(u, w)

\* What a worker does once it runs, unless it dies.
WorkerStep(w) ==
  \/ NightlyCreate(w) \/ NightlyRun(w)
  \/ TryLock(w) \/ Unlock(w) \/ Look(w)
  \/ EmptyQueue(w) \/ TakeHead(w) \/ Absorb(w) \/ Mirror(w) \/ Handled(w)
  \/ Start(w) \/ Refuse(w) \/ Trim(w) \/ BeginMonth(w) \/ CommitMonth(w)
  \/ CountMonth(w) \/ RejectMonth(w) \/ Fail(w) \/ Finish(w) \/ Health(w)

Next ==
  \/ \E u \in User, ms \in SUBSET Month, why \in Reason \cup {Plain} :
       SaveRecord(u, ms, why)
  \/ \E u \in User, p \in Period : Press(u, p)
  \/ \E u \in User : WebStep(u)
  \/ \E u \in User : WebDies(u)
  \/ \E w \in NightWorker : Nightly(w)
  \/ \E w \in Worker, ms \in SUBSET Month : Command(w, ms)
  \/ \E w \in Worker : WorkerStep(w)
  \/ \E w \in Worker : WorkerDies(w)
  \/ HealthCheck
  \/ \E r \in Request : TwoHoursPass(r)
  \/ \E p \in Period : ToggleFinalized(p)
  \/ \E m \in Month : DataArrives(m)

Spec == Init /\ [][Next]_vars

\* Started processes run on; the scheduler fires the health check, and time
\* passes.  Nobody is obliged to press, save, finalize, fail or die.
DayFairness ==
  /\ \A u \in User : WF_vars(WebStep(u))
  /\ \A w \in Worker : WF_vars(WorkerStep(w))
  /\ \A r \in Request : WF_vars(TwoHoursPass(r))
  /\ WF_vars(HealthCheck)

\* One day: the nightly run may come or not.
DaySpec == Spec /\ DayFairness

\* A site whose crontab fires every night.
NightSpec == DaySpec /\ SF_vars(\E w \in NightWorker : Nightly(w))

-----------------------------------------------------------------------------
(* Safety *)

\* One calculation at a time: whoever is inside the drain loop, from reading
\* the queue to releasing the lock, is the session that holds the advisory
\* lock (engine_run.run_queue).
OneAtATime == \A w \in Worker : pc[w] \in Locked => lock = w

\* A plain request never rides through the door, and a reason is never swapped
\* for another: what is folded into a run carries the run's own reason
\* (engine_run._merge_overlapping).
SameReason ==
  \A w \in Worker : \A r \in absorbed[w] : row[r].reason = row[head[w]].reason

\* No lost update: a month whose figures lack a saved record is still owed to a
\* web request, named by a queued row, or yet to be read by the running worker;
\* otherwise its calculation was stopped, refused or dropped on the record.
Pending(m) ==
  \/ \E u \in User : m \in web[u].months
  \/ \E r \in Request : row[r].status = "queued" /\ m \in row[r].months
  \/ \E w \in Worker : pc[w] = "check" /\ m \in row[head[w]].months
  \/ \E w \in Worker : m \in todo[w]
                       /\ (pc[w] = "commit" /\ m = First(todo[w]) => fresh[w])
NoLostRecord == \A m \in stale \ excused : Pending(m)

\* A request reads Finished only when every month it lists was calculated and
\* counted, also when another request ran in its place (_mirror).
FinishedIsComplete ==
  \A r \in Request : row[r].status = "succeeded" => row[r].done = Cardinality(row[r].months)

\* Without a crash every row that reads Running is in the hands of a worker that
\* will write its end: period_calculate starts nothing while one is there.
Owned(r) == \E w \in Worker : pc[w] \in Locked /\ (head[w] = r \/ r \in absorbed[w])
RunningIsOwned ==
  \A r \in Request : row[r].status = "running" => Owned(r) \/ budget.crashes < MaxCrashes

\* What a request's row says of its run is so: Finished when its months were
\* calculated, also by another request's run, and Running while a worker that will
\* write its end has it (engine_run._mirror, run_queue).
RequestsTold == FinishedIsComplete /\ RunningIsOwned

-----------------------------------------------------------------------------
(* Liveness *)

\* A queued request is run: run_queue's promise to a worker that cannot take
\* the lock, "the worker holding the lock will run it".
QueuedIsRun ==
  \A r \in Request : row[r].status = "queued" ~> row[r].status # "queued"

\* Once people stop saving, the figures of an open year's month with data show
\* every record: the nightly run picks up what a crash or a failure dropped.
Settled(m) == m \notin stale \/ PeriodOf[m] \in finalized \/ m \notin hasData
FiguresCatchUp == \A m \in Month : <>[]Settled(m)

=============================================================================
