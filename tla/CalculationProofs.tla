-------------------------- MODULE CalculationProofs --------------------------
(***************************************************************************)
(* What the month's calculation guarantees, around it and inside it.        *)
(*                                                                          *)
(* CalcQueue, for any number of workers, people, requests, months and       *)
(* periods: one calculation at a time, a run that only carries requests     *)
(* with its own override reason, no saved record forgotten, rows that say   *)
(* what is so, and a queue, a lock and crashes that cannot be seen from     *)
(* outside: CalcQueue implements SerialCalculation.                         *)
(*                                                                          *)
(* CanalMonth, for any districts, figures and changes: the water of a       *)
(* headgate adds up to the last place, pools hold what the rows say, a run  *)
(* answers the shares on the books, no one is given more than the need, the *)
(* ground's water is counted once, and a rerun changes nothing.             *)
(***************************************************************************)
EXTENDS CalcQueueRefinement, CanalMonth, Sums, SequenceTheorems

-----------------------------------------------------------------------------
(* Lemmas on the helpers *)

\* Taking a row out of the queue leaves a queue of rows.
LEMMA WithoutType ==
  ASSUME NEW q \in Seq(Request), NEW r
  PROVE  Without(q, r) \in Seq(Request)
<1> DEFINE places == {i \in 1 .. Len(q) : q[i] = r}
<1>1. CASE places = {}
  BY <1>1 DEF Without
<1>2. CASE places # {}
  <2> DEFINE i == CHOOSE j \in places : TRUE
  <2>1. i \in 1 .. Len(q)
    BY <1>2
  <2>2. ASSUME NEW j \in 1 .. Len(q) PROVE WithoutPlace(q, j) \in Seq(Request)
    BY DEF WithoutPlace
  <2> QED
    BY <1>2, <2>1, <2>2 DEF Without
<1> QED
  BY <1>1, <1>2

\* A new row is one that nothing refers to any more.
LEMMA NewRowUnused ==
  ASSUME \E r \in Request : Unused(r)
  PROVE  NewRow \in Request /\ Unused(NewRow)
<1> DEFINE P(r) == r \in Request /\ Unused(r)
<1>1. \E r : P(r)
  OBVIOUS
<1>2. P(CHOOSE r : P(r))
  BY <1>1, Zenon
<1> QED
  BY DEF NewRow

\* The months run are among the months asked for.
LEMMA MonthsToRunSubset == ASSUME NEW S PROVE MonthsToRun(S) \subseteq S
BY DEF MonthsToRun

\* What is folded into a run was queued, with the run's own reason.
LEMMA FoldedCandidates == ASSUME NEW h PROVE Folded(h) \subseteq Candidates(h)
BY DEF Folded

\* A set of months that is not empty has a first one.
LEMMA FirstInSet ==
  ASSUME NEW S \in SUBSET Month, S # {}
  PROVE  First(S) \in S /\ \A n \in S : First(S) <= n
<1> DEFINE R == OpToRel(<, Nat)
<1>1. IsWellFoundedOn(R, Nat)
  BY NatLessThanWellFounded
<1>2. S \subseteq Nat
  BY DEF Month
<1>3. \A x, y \in Nat : <<y, x>> \in R <=> y < x
  BY DEF OpToRel
<1>4. \E x \in S : \A y \in S : x <= y
  <2> HIDE DEF R
  <2>1. PICK x \in S : \A y \in S : <<y, x>> \notin R
    BY <1>1, <1>2, WFMin, Zenon
  <2>2. \A y \in S : ~ (y < x)
    BY <1>2, <1>3, <2>1
  <2> QED
    BY <1>2, <2>2
<1> QED
  BY <1>4, Zenon DEF First

-----------------------------------------------------------------------------
(* Types of what the actions write *)

Rows == [Request -> RequestRow]

\* Setting one field of one row keeps the table's type.
LEMMA StatusType ==
  ASSUME NEW f \in Rows, NEW r, NEW s \in Status
  PROVE  [f EXCEPT ![r].status = s] \in Rows
<1>1. CASE r \in Request
  <2>1. f[r] \in RequestRow
    BY <1>1 DEF Rows
  <2>2. [f[r] EXCEPT !.status = s] \in RequestRow
    BY <2>1 DEF RequestRow
  <2> QED
    BY <2>2 DEF Rows
<1>2. CASE r \notin Request
  BY <1>2 DEF Rows
<1> QED
  BY <1>1, <1>2

LEMMA MonthsType ==
  ASSUME NEW f \in Rows, NEW r \in Request, NEW ms \in SUBSET Month
  PROVE  [f EXCEPT ![r].months = ms] \in Rows
<1>1. f[r] \in RequestRow
  BY DEF Rows
<1>2. [f[r] EXCEPT !.months = ms] \in RequestRow
  BY <1>1 DEF RequestRow
<1> QED
  BY <1>2 DEF Rows

\* Every use of a bound leaves a legal budget.
LEMMA SpendType ==
  ASSUME budget \in Budget,
         NEW k \in {"saves", "faults", "crashes", "toggles", "commands"}, Spend(k)
  PROVE  budget' \in Budget
<1>1. \A max \in Nat : \A n \in 0 .. max : n > 0 => n - 1 \in 0 .. max
  OBVIOUS
<1>2. CASE k = "saves"
  BY <1>1, <1>2, BoundsAssumption DEF Spend, Budget
<1>3. CASE k = "faults"
  BY <1>1, <1>3, BoundsAssumption DEF Spend, Budget
<1>4. CASE k = "crashes"
  BY <1>1, <1>4, BoundsAssumption DEF Spend, Budget
<1>5. CASE k = "toggles"
  BY <1>1, <1>5, BoundsAssumption DEF Spend, Budget
<1>6. CASE k = "commands"
  BY <1>1, <1>6, BoundsAssumption DEF Spend, Budget
<1> QED
  BY <1>2, <1>3, <1>4, <1>5, <1>6

\* A created row is typed, and so is the queue it joins.
LEMMA CreateRowType ==
  ASSUME row \in Rows, queue \in Seq(Request),
         NEW p \in Period \cup {NoPeriod}, NEW ms \in SUBSET Month,
         NEW why \in Reason \cup {Plain}, CreateRow(p, ms, why)
  PROVE  /\ row' \in Rows
         /\ queue' \in Seq(Request)
         /\ NewRow \in Request
<1>1. NewRow \in Request
  BY NewRowUnused DEF CreateRow
<1>2. [status |-> "queued", months |-> ms, period |-> p, reason |-> why, done |-> 0]
        \in RequestRow
  BY DEF RequestRow, Status
<1>3. row' \in Rows
  BY <1>2 DEF CreateRow, Rows
<1> QED
  BY <1>1, <1>3 DEF CreateRow

LEMMA PeriodOfType == \A m \in Month : PeriodOf[m] \in Period \cup {NoPeriod}
BY PeriodOfAssumption

\* Marking late runs failed keeps the table's type.
LEMMA FailLateType == ASSUME row \in Rows, FailLateRuns PROVE row' \in Rows
<1>1. ASSUME NEW r \in Request
      PROVE  [row[r] EXCEPT !.status = "failed"] \in RequestRow
  BY DEF Rows, RequestRow, Status
<1> QED
  BY <1>1 DEF FailLateRuns, Rows

-----------------------------------------------------------------------------
(* The inductive invariant *)

\* A worker that has left the top of the drain loop has a request in hand.
InHand == Locked \ {"drain", "unlock"}
HeadInv == \A w \in Worker : pc[w] \in InHand \/ absorbed[w] # {} => head[w] \in Request

\* A web request in the middle of request_for_months has months left to ask for.
WebInv == \A u \in User : web[u].pc = "create" => web[u].months # {}

Inv == TypeOK /\ HeadInv /\ WebInv

LEMMA InvInit == Init => Inv
BY BoundsAssumption DEF Init, Inv, TypeOK, HeadInv, WebInv, InHand, Locked, WorkerPC,
   WebPC, Status, RequestRow, WebRequest, Budget, Idle

LEMMA IdleType == Idle \in WebRequest
BY DEF Idle, WebRequest, WebPC

LEMMA SaveRecordType ==
  ASSUME TypeOK, HeadInv, WebInv, NEW u \in User, NEW ms \in SUBSET Month,
         NEW why \in Reason \cup {Plain}, SaveRecord(u, ms, why)
  PROVE  TypeOK'
<1>1. budget' \in Budget
  BY SpendType DEF TypeOK, SaveRecord
<1>2. web' \in [User -> WebRequest]
  BY DEF TypeOK, SaveRecord, WebRequest, WebPC, Idle
<1>3. stale' \subseteq Month /\ excused' \subseteq Month
  BY DEF TypeOK, SaveRecord
<1>4. fresh' \in [Worker -> BOOLEAN]
  BY DEF TypeOK, SaveRecord
<1> QED
  BY <1>1, <1>2, <1>3, <1>4 DEF TypeOK, SaveRecord, workerVars, Rows

LEMMA PressType ==
  ASSUME TypeOK, HeadInv, WebInv, NEW u \in User, NEW p \in Period, Press(u, p)
  PROVE  TypeOK'
<1>1. web' \in [User -> WebRequest]
  BY DEF TypeOK, Press, WebRequest, WebPC, Idle
<1> QED
  BY <1>1 DEF TypeOK, Press, workerVars, Rows

LEMMA RequestMonthsType ==
  ASSUME TypeOK, HeadInv, WebInv, NEW u \in User, RequestMonths(u)
  PROVE  TypeOK'
<1>1. web' \in [User -> WebRequest]
  BY IdleType DEF TypeOK, RequestMonths, WebRequest, WebPC
<1>2. excused' \subseteq Month
  BY DEF TypeOK, RequestMonths, WebRequest
<1> QED
  BY <1>1, <1>2 DEF TypeOK, RequestMonths, workerVars, Rows

LEMMA CreateNextType ==
  ASSUME TypeOK, HeadInv, WebInv, NEW u \in User, CreateNext(u)
  PROVE  TypeOK'
<1> DEFINE first == First(web[u].months)
           group == {m \in web[u].months : PeriodOf[m] = PeriodOf[first]}
<1>1. web[u] \in WebRequest /\ web[u].months # {}
  BY DEF TypeOK, WebInv, CreateNext
<1>2. web[u].months \in SUBSET Month /\ web[u].reason \in Reason \cup {Plain}
  BY <1>1 DEF WebRequest
<1>3. PeriodOf[first] \in Period \cup {NoPeriod}
  BY <1>1, <1>2, FirstInSet, PeriodOfType
<1>4. CreateRow(PeriodOf[first], group, web[u].reason)
  BY DEF CreateNext
<1>5. row' \in Rows /\ queue' \in Seq(Request) /\ NewRow \in Request
  BY <1>2, <1>3, <1>4, CreateRowType DEF TypeOK, Rows
<1> DEFINE rest == web[u].months \ group
           new == [web[u] EXCEPT !.months = rest, !.made = @ \cup {NewRow},
                                 !.pc = IF rest = {} THEN "launch" ELSE "create"]
<1>7. new \in WebRequest
  BY <1>1, <1>2, <1>5 DEF WebRequest, WebPC
<1>8. web' = [web EXCEPT ![u] = new]
  BY DEF CreateNext, TypeOK
<1>6. web' \in [User -> WebRequest]
  <2> HIDE DEF new
  <2> QED BY <1>7, <1>8 DEF TypeOK
<1> QED
  BY <1>5, <1>6 DEF TypeOK, CreateNext, workerVars, Rows

LEMMA PressCreateType ==
  ASSUME TypeOK, HeadInv, WebInv, NEW u \in User, PressCreate(u)
  PROVE  TypeOK'
<1>1. web[u].period \in Period \cup {NoPeriod}
  BY DEF TypeOK, WebRequest
<1>2. row' \in Rows /\ queue' \in Seq(Request) /\ NewRow \in Request
  BY <1>1, CreateRowType DEF PressCreate, TypeOK, Rows, MonthsOf
<1>3. web' \in [User -> WebRequest]
  BY <1>2 DEF TypeOK, PressCreate, WebRequest, WebPC, Idle
<1> QED
  BY <1>2, <1>3 DEF TypeOK, PressCreate, workerVars, Rows

LEMMA LaunchType ==
  ASSUME TypeOK, HeadInv, WebInv, NEW u \in User, NEW w \in Worker, Launch(u, w)
  PROVE  TypeOK'
<1>1. pc' \in [Worker -> WorkerPC]
  BY DEF TypeOK, Launch, WorkerPC, Locked
<1>2. web' \in [User -> WebRequest]
  <2> DEFINE next(r) == IF web[u].made = {r} THEN Idle
                        ELSE [web[u] EXCEPT !.made = web[u].made \ {r}]
  <2>1. PICK r \in web[u].made : web' = [web EXCEPT ![u] = next(r)]
    BY DEF Launch
  <2>2. [web[u] EXCEPT !.made = web[u].made \ {r}] \in WebRequest
    BY DEF TypeOK, WebRequest
  <2>3. next(r) \in WebRequest
    BY <2>2, IdleType
  <2> HIDE DEF next
  <2> QED
    BY <2>1, <2>3 DEF TypeOK
<1> QED
  BY <1>1, <1>2 DEF TypeOK, Launch, workerVars, Rows

LEMMA WebDiesType ==
  ASSUME TypeOK, HeadInv, WebInv, NEW u \in User, WebDies(u)
  PROVE  TypeOK'
<1>1. budget' \in Budget
  BY SpendType DEF TypeOK, WebDies
<1>2. web' \in [User -> WebRequest]
  BY IdleType DEF TypeOK, WebDies
<1>3. excused' \subseteq Month
  BY DEF TypeOK, WebDies, WebRequest
<1> QED
  BY <1>1, <1>2, <1>3 DEF TypeOK, WebDies, workerVars, Rows

LEMMA NightlyType ==
  ASSUME TypeOK, HeadInv, WebInv, NEW w \in Worker, Nightly(w)
  PROVE  TypeOK'
<1>1. pc' \in [Worker -> WorkerPC] /\ wanted' \in [Worker -> SUBSET Period]
  BY DEF TypeOK, Nightly, WorkerPC, Locked
<1> QED
  BY <1>1 DEF TypeOK, Nightly, workerVars, Rows

LEMMA NightlyCreateType ==
  ASSUME TypeOK, HeadInv, WebInv, NEW w \in Worker, NightlyCreate(w)
  PROVE  TypeOK'
<1>1. row' \in Rows /\ queue' \in Seq(Request)
  BY CreateRowType DEF NightlyCreate, TypeOK, Rows, MonthsOf
<1>2. wanted' \in [Worker -> SUBSET Period]
  BY DEF TypeOK, NightlyCreate
<1> QED
  BY <1>1, <1>2 DEF TypeOK, NightlyCreate, workerVars, Rows

LEMMA NightlyRunType ==
  ASSUME TypeOK, HeadInv, WebInv, NEW w \in Worker, NightlyRun(w)
  PROVE  TypeOK'
<1>1. pc' \in [Worker -> WorkerPC] /\ wanted' \in [Worker -> SUBSET Period]
  BY DEF TypeOK, NightlyRun, WorkerPC, Locked
<1> QED
  BY <1>1 DEF TypeOK, NightlyRun, workerVars, Rows

LEMMA CommandType ==
  ASSUME TypeOK, HeadInv, WebInv, NEW w \in Worker, NEW ms \in SUBSET Month,
         Command(w, ms)
  PROVE  TypeOK'
<1>1. PeriodOf[First(ms)] \in Period \cup {NoPeriod}
  BY FirstInSet, PeriodOfType DEF Command
<1>2. row' \in Rows /\ queue' \in Seq(Request)
  BY <1>1, CreateRowType DEF Command, TypeOK, Rows
<1>3. pc' \in [Worker -> WorkerPC] /\ budget' \in Budget
  BY SpendType DEF TypeOK, Command, WorkerPC, Locked
<1> QED
  BY <1>2, <1>3 DEF TypeOK, Command, Rows

LEMMA TryLockType ==
  ASSUME TypeOK, HeadInv, WebInv, NEW w \in Worker, TryLock(w)
  PROVE  TypeOK'
<1>1. pc' \in [Worker -> WorkerPC] /\ lock' \in Worker \cup {NoWorker}
  BY DEF TypeOK, TryLock, WorkerPC, Locked
<1> QED
  BY <1>1 DEF TypeOK, TryLock, workerVars, Rows

LEMMA UnlockType ==
  ASSUME TypeOK, HeadInv, WebInv, NEW w \in Worker, Unlock(w)
  PROVE  TypeOK'
<1>1. pc' \in [Worker -> WorkerPC] /\ lock' \in Worker \cup {NoWorker} /\ handled' \in [Worker -> BOOLEAN]
  BY DEF TypeOK, Unlock, WorkerPC, Locked
<1> QED
  BY <1>1 DEF TypeOK, Unlock, workerVars, Rows

LEMMA LookType ==
  ASSUME TypeOK, HeadInv, WebInv, NEW w \in Worker, Look(w)
  PROVE  TypeOK'
<1>1. pc' \in [Worker -> WorkerPC]
  BY DEF TypeOK, Look, WorkerPC, Locked
<1> QED
  BY <1>1 DEF TypeOK, Look, workerVars, Rows

LEMMA EmptyQueueType ==
  ASSUME TypeOK, HeadInv, WebInv, NEW w \in Worker, EmptyQueue(w)
  PROVE  TypeOK'
<1>1. pc' \in [Worker -> WorkerPC]
  BY DEF TypeOK, EmptyQueue, WorkerPC, Locked
<1> QED
  BY <1>1 DEF TypeOK, EmptyQueue, workerVars, Rows

LEMMA TakeHeadType ==
  ASSUME TypeOK, HeadInv, WebInv, NEW w \in Worker, TakeHead(w)
  PROVE  TypeOK'
<1> DEFINE h == Head(queue)
<1>1. h \in Request
  BY DEF TypeOK, TakeHead
<1>2. Folded(h) \in SUBSET Request
  BY FoldedCandidates DEF Candidates
<1>3. MonthsOfRows(Folded(h) \cup {h}) \in SUBSET Month
  BY <1>1, <1>2 DEF MonthsOfRows, TypeOK, RequestRow
<1>4. row' \in Rows
  BY <1>1, <1>3, MonthsType DEF TakeHead, TypeOK, Rows
<1>5. head' \in [Worker -> Request \cup {NoRequest}] /\ absorbed' \in [Worker -> SUBSET Request]
  BY <1>1, <1>2 DEF TakeHead, TypeOK
<1>6. pc' \in [Worker -> WorkerPC]
  BY DEF TakeHead, TypeOK, WorkerPC, Locked
<1> QED
  BY <1>4, <1>5, <1>6 DEF TypeOK, TakeHead, Rows

LEMMA AbsorbType ==
  ASSUME TypeOK, HeadInv, WebInv, NEW w \in Worker, Absorb(w)
  PROVE  TypeOK'
<1>1. row' \in Rows
  <2>1. PICK r \in absorbed[w] : row' = [row EXCEPT ![r].status = "running"]
    BY DEF Absorb
  <2> QED
    BY <2>1, StatusType DEF TypeOK, Rows, Status
<1>2. queue' \in Seq(Request)
  BY WithoutType DEF Absorb, TypeOK
<1>3. pc' \in [Worker -> WorkerPC]
  BY DEF TypeOK, Absorb, WorkerPC, Locked
<1> QED
  BY <1>1, <1>2, <1>3 DEF TypeOK, Absorb, workerVars, Rows

LEMMA MirrorType ==
  ASSUME TypeOK, HeadInv, WebInv, NEW w \in Worker, Mirror(w)
  PROVE  TypeOK'
<1>1. PICK r \in absorbed[w] :
        /\ row' = [row EXCEPT ![r] = [row[head[w]] EXCEPT !.period = row[r].period,
                                                          !.reason = row[r].reason]]
        /\ absorbed' = [absorbed EXCEPT ![w] = @ \ {r}]
        /\ late' = late \ {r}
  BY DEF Mirror
<1>2. r \in Request /\ head[w] \in Request
  BY <1>1 DEF TypeOK, HeadInv
<1>3. row[r] \in RequestRow /\ row[head[w]] \in RequestRow
  BY <1>2 DEF TypeOK
<1>4. [row[head[w]] EXCEPT !.period = row[r].period, !.reason = row[r].reason] \in RequestRow
  BY <1>3 DEF RequestRow
<1>5. row' \in Rows
  BY <1>1, <1>2, <1>4 DEF TypeOK, Rows
<1>6. absorbed' \in [Worker -> SUBSET Request] /\ late' \subseteq Request
  BY <1>1 DEF TypeOK
<1> QED
  BY <1>5, <1>6 DEF TypeOK, Mirror, Rows

LEMMA HandledType ==
  ASSUME TypeOK, HeadInv, WebInv, NEW w \in Worker, Handled(w)
  PROVE  TypeOK'
<1>1. pc' \in [Worker -> WorkerPC] /\ head' \in [Worker -> Request \cup {NoRequest}] /\ handled' \in [Worker -> BOOLEAN]
  BY DEF TypeOK, Handled, WorkerPC, Locked
<1> QED
  BY <1>1 DEF TypeOK, Handled, workerVars, Rows

LEMMA StartType ==
  ASSUME TypeOK, HeadInv, WebInv, NEW w \in Worker, Start(w)
  PROVE  TypeOK'
<1>1. head[w] \in Request
  BY DEF Start, TypeOK, HeadInv, InHand, Locked
<1>2. row[head[w]] \in RequestRow
  BY <1>1 DEF TypeOK
<1>3. [row[head[w]] EXCEPT !.status = "running", !.done = 0] \in RequestRow
  BY <1>2 DEF RequestRow, Status
<1>4. row' = [row EXCEPT ![head[w]] = [row[head[w]] EXCEPT !.status = "running", !.done = 0]]
  BY <1>1 DEF Start, TypeOK
<1>5. row' \in Rows
  BY <1>1, <1>3, <1>4 DEF TypeOK, Rows
<1>6. queue' \in Seq(Request) /\ pc' \in [Worker -> WorkerPC]
  BY WithoutType DEF Start, TypeOK, WorkerPC, Locked
<1> QED
  BY <1>5, <1>6 DEF TypeOK, Start, Rows

\* The parts of a row and of the months in hand that the run's actions use.
LEMMA HeadRowType ==
  ASSUME TypeOK, HeadInv, NEW w \in Worker, pc[w] \in InHand
  PROVE  /\ head[w] \in Request
         /\ row[head[w]] \in RequestRow
         /\ row[head[w]].months \in SUBSET Month
         /\ todo[w] \in SUBSET Month
BY DEF TypeOK, HeadInv, RequestRow

LEMMA StopType ==
  ASSUME TypeOK, HeadInv, NEW w \in Worker, NEW ms \in SUBSET Month, Stop(w, ms),
         budget' \in Budget
  PROVE  TypeOK'
<1>1. row' \in Rows
  BY StatusType DEF Stop, TypeOK, Rows, Status
<1>2. pc' \in [Worker -> WorkerPC] /\ todo' \in [Worker -> SUBSET Month]
  BY DEF Stop, TypeOK, WorkerPC, Locked
<1>3. excused' \subseteq Month /\ late' \subseteq Request /\ fresh' \in [Worker -> BOOLEAN]
  BY DEF Stop, TypeOK
<1> QED
  BY <1>1, <1>2, <1>3 DEF TypeOK, Stop, Rows

LEMMA RefuseType ==
  ASSUME TypeOK, HeadInv, WebInv, NEW w \in Worker, Refuse(w)
  PROVE  TypeOK'
BY HeadRowType, StopType DEF Refuse, InHand, Locked, TypeOK

LEMMA RejectMonthType ==
  ASSUME TypeOK, HeadInv, WebInv, NEW w \in Worker, RejectMonth(w)
  PROVE  TypeOK'
BY HeadRowType, StopType DEF RejectMonth, InHand, Locked, TypeOK

LEMMA FailType ==
  ASSUME TypeOK, HeadInv, WebInv, NEW w \in Worker, Fail(w)
  PROVE  TypeOK'
<1>1. budget' \in Budget
  BY SpendType DEF Fail, TypeOK
<1>2. (IF pc[w] = "check" THEN row[head[w]].months ELSE todo[w]) \in SUBSET Month
  BY HeadRowType DEF Fail, InHand, Locked
<1> QED
  BY <1>1, <1>2, StopType DEF Fail

LEMMA TrimType ==
  ASSUME TypeOK, HeadInv, WebInv, NEW w \in Worker, Trim(w)
  PROVE  TypeOK'
<1>1. head[w] \in Request /\ row[head[w]].months \in SUBSET Month
  BY HeadRowType DEF Trim, InHand, Locked
<1>2. MonthsToRun(row[head[w]].months) \in SUBSET Month
  BY <1>1, MonthsToRunSubset
<1>3. row' \in Rows
  BY <1>1, <1>2, MonthsType DEF Trim, TypeOK, Rows
<1>4. pc' \in [Worker -> WorkerPC]
  BY DEF Trim, TypeOK, WorkerPC, Locked
<1>5. todo' \in [Worker -> SUBSET Month] /\ excused' \subseteq Month
  BY <1>1, <1>2 DEF Trim, TypeOK
<1> QED
  BY <1>3, <1>4, <1>5 DEF TypeOK, Trim, Rows

LEMMA BeginMonthType ==
  ASSUME TypeOK, HeadInv, WebInv, NEW w \in Worker, BeginMonth(w)
  PROVE  TypeOK'
<1>1. pc' \in [Worker -> WorkerPC] /\ fresh' \in [Worker -> BOOLEAN]
  BY DEF TypeOK, BeginMonth, WorkerPC, Locked
<1> QED
  BY <1>1 DEF TypeOK, BeginMonth, workerVars, Rows

LEMMA CommitMonthType ==
  ASSUME TypeOK, HeadInv, WebInv, NEW w \in Worker, CommitMonth(w)
  PROVE  TypeOK'
<1>1. pc' \in [Worker -> WorkerPC] /\ todo' \in [Worker -> SUBSET Month] /\ fresh' \in [Worker -> BOOLEAN]
  BY DEF TypeOK, CommitMonth, WorkerPC, Locked
<1>2. stale' \subseteq Month /\ excused' \subseteq Month
  BY DEF TypeOK, CommitMonth
<1> QED
  BY <1>1, <1>2 DEF TypeOK, CommitMonth, workerVars, Rows

LEMMA CountMonthType ==
  ASSUME TypeOK, HeadInv, WebInv, NEW w \in Worker, CountMonth(w)
  PROVE  TypeOK'
<1>1. head[w] \in Request /\ row[head[w]] \in RequestRow
  BY HeadRowType DEF CountMonth, InHand, Locked
<1>2. [row[head[w]] EXCEPT !.done = @ + 1] \in RequestRow
  BY <1>1 DEF RequestRow
<1>3. row' \in Rows
  BY <1>1, <1>2 DEF CountMonth, TypeOK, Rows
<1>4. pc' \in [Worker -> WorkerPC]
  BY DEF CountMonth, TypeOK, WorkerPC, Locked
<1> QED
  BY <1>3, <1>4 DEF TypeOK, CountMonth, Rows

LEMMA FinishType ==
  ASSUME TypeOK, HeadInv, WebInv, NEW w \in Worker, Finish(w)
  PROVE  TypeOK'
<1>1. row' \in Rows
  BY StatusType DEF Finish, TypeOK, Rows, Status
<1>2. pc' \in [Worker -> WorkerPC] /\ late' \subseteq Request
  BY DEF TypeOK, Finish, WorkerPC, Locked
<1> QED
  BY <1>1, <1>2 DEF TypeOK, Finish, workerVars, Rows

LEMMA HealthType ==
  ASSUME TypeOK, HeadInv, WebInv, NEW w \in Worker, Health(w)
  PROVE  TypeOK'
<1>1. row' \in Rows
  BY FailLateType DEF Health, TypeOK, Rows
<1>2. pc' \in [Worker -> WorkerPC] /\ late' \subseteq Request
  BY DEF TypeOK, Health, WorkerPC, Locked, FailLateRuns
<1> QED
  BY <1>1, <1>2 DEF TypeOK, Health, workerVars, Rows

LEMMA HealthCheckType ==
  ASSUME TypeOK, HeadInv, WebInv, HealthCheck
  PROVE  TypeOK'
<1>1. row' \in Rows
  BY FailLateType DEF HealthCheck, TypeOK, Rows
<1>2. late' \subseteq Request
  BY DEF HealthCheck, FailLateRuns
<1> QED
  BY <1>1, <1>2 DEF TypeOK, HealthCheck, workerVars, Rows

LEMMA WorkerDiesType ==
  ASSUME TypeOK, HeadInv, WebInv, NEW w \in Worker, WorkerDies(w)
  PROVE  TypeOK'
<1>1. budget' \in Budget
  BY SpendType DEF WorkerDies, TypeOK
<1>2. Unfinished(w) \in SUBSET Month
  BY HeadRowType DEF Unfinished, InHand, Locked, TypeOK
<1>3. excused' \subseteq Month
  BY <1>2 DEF WorkerDies, TypeOK
<1>4. /\ lock' \in Worker \cup {NoWorker}
      /\ pc' \in [Worker -> WorkerPC]
      /\ head' \in [Worker -> Request \cup {NoRequest}]
      /\ absorbed' \in [Worker -> SUBSET Request]
  BY DEF WorkerDies, TypeOK, WorkerPC, Locked
<1>5. /\ todo' \in [Worker -> SUBSET Month]
      /\ wanted' \in [Worker -> SUBSET Period]
      /\ fresh' \in [Worker -> BOOLEAN]
      /\ handled' \in [Worker -> BOOLEAN]
  BY DEF WorkerDies, TypeOK
<1> QED
  BY <1>1, <1>3, <1>4, <1>5 DEF TypeOK, WorkerDies

LEMMA ToggleFinalizedType ==
  ASSUME TypeOK, HeadInv, WebInv, NEW p \in Period, ToggleFinalized(p)
  PROVE  TypeOK'
<1>1. budget' \in Budget
  BY SpendType DEF TypeOK, ToggleFinalized
<1>2. finalized' \subseteq Period
  BY DEF TypeOK, ToggleFinalized
<1> QED
  BY <1>1, <1>2 DEF TypeOK, ToggleFinalized, workerVars, Rows

\* Every step keeps the types.
LEMMA TypeStep ==
  ASSUME Inv, [Next]_vars
  PROVE  TypeOK'
<1>1. ASSUME NEW u \in User, NEW ms \in SUBSET Month,
            NEW why \in Reason \cup {Plain}, SaveRecord(u, ms, why)
      PROVE  TypeOK'
  BY <1>1, SaveRecordType DEF Inv
<1>2. ASSUME NEW u \in User, NEW p \in Period, Press(u, p)
      PROVE  TypeOK'
  BY <1>2, PressType DEF Inv
<1>3. ASSUME NEW u \in User, RequestMonths(u)
      PROVE  TypeOK'
  BY <1>3, RequestMonthsType DEF Inv
<1>4. ASSUME NEW u \in User, CreateNext(u)
      PROVE  TypeOK'
  BY <1>4, CreateNextType DEF Inv
<1>5. ASSUME NEW u \in User, PressCreate(u)
      PROVE  TypeOK'
  BY <1>5, PressCreateType DEF Inv
<1>6. ASSUME NEW u \in User, NEW w \in Worker, Launch(u, w)
      PROVE  TypeOK'
  BY <1>6, LaunchType DEF Inv
<1>7. ASSUME NEW u \in User, WebDies(u)
      PROVE  TypeOK'
  BY <1>7, WebDiesType DEF Inv
<1>8. ASSUME NEW w \in Worker, Nightly(w)
      PROVE  TypeOK'
  BY <1>8, NightlyType DEF Inv
<1>9. ASSUME NEW w \in Worker, NEW ms \in SUBSET Month, Command(w, ms)
      PROVE  TypeOK'
  BY <1>9, CommandType DEF Inv
<1>10. ASSUME NEW w \in Worker, NightlyCreate(w)
      PROVE  TypeOK'
  BY <1>10, NightlyCreateType DEF Inv
<1>11. ASSUME NEW w \in Worker, NightlyRun(w)
      PROVE  TypeOK'
  BY <1>11, NightlyRunType DEF Inv
<1>12. ASSUME NEW w \in Worker, TryLock(w)
      PROVE  TypeOK'
  BY <1>12, TryLockType DEF Inv
<1>13. ASSUME NEW w \in Worker, Unlock(w)
      PROVE  TypeOK'
  BY <1>13, UnlockType DEF Inv
<1>14. ASSUME NEW w \in Worker, Look(w)
      PROVE  TypeOK'
  BY <1>14, LookType DEF Inv
<1>15. ASSUME NEW w \in Worker, EmptyQueue(w)
      PROVE  TypeOK'
  BY <1>15, EmptyQueueType DEF Inv
<1>16. ASSUME NEW w \in Worker, TakeHead(w)
      PROVE  TypeOK'
  BY <1>16, TakeHeadType DEF Inv
<1>17. ASSUME NEW w \in Worker, Absorb(w)
      PROVE  TypeOK'
  BY <1>17, AbsorbType DEF Inv
<1>18. ASSUME NEW w \in Worker, Mirror(w)
      PROVE  TypeOK'
  BY <1>18, MirrorType DEF Inv
<1>19. ASSUME NEW w \in Worker, Handled(w)
      PROVE  TypeOK'
  BY <1>19, HandledType DEF Inv
<1>20. ASSUME NEW w \in Worker, Start(w)
      PROVE  TypeOK'
  BY <1>20, StartType DEF Inv
<1>21. ASSUME NEW w \in Worker, Refuse(w)
      PROVE  TypeOK'
  BY <1>21, RefuseType DEF Inv
<1>22. ASSUME NEW w \in Worker, Trim(w)
      PROVE  TypeOK'
  BY <1>22, TrimType DEF Inv
<1>23. ASSUME NEW w \in Worker, BeginMonth(w)
      PROVE  TypeOK'
  BY <1>23, BeginMonthType DEF Inv
<1>24. ASSUME NEW w \in Worker, CommitMonth(w)
      PROVE  TypeOK'
  BY <1>24, CommitMonthType DEF Inv
<1>25. ASSUME NEW w \in Worker, CountMonth(w)
      PROVE  TypeOK'
  BY <1>25, CountMonthType DEF Inv
<1>26. ASSUME NEW w \in Worker, RejectMonth(w)
      PROVE  TypeOK'
  BY <1>26, RejectMonthType DEF Inv
<1>27. ASSUME NEW w \in Worker, Fail(w)
      PROVE  TypeOK'
  BY <1>27, FailType DEF Inv
<1>28. ASSUME NEW w \in Worker, Finish(w)
      PROVE  TypeOK'
  BY <1>28, FinishType DEF Inv
<1>29. ASSUME NEW w \in Worker, Health(w)
      PROVE  TypeOK'
  BY <1>29, HealthType DEF Inv
<1>30. ASSUME NEW w \in Worker, WorkerDies(w)
      PROVE  TypeOK'
  BY <1>30, WorkerDiesType DEF Inv
<1>31. ASSUME HealthCheck
      PROVE  TypeOK'
  BY <1>31, HealthCheckType DEF Inv
<1>32. ASSUME NEW r \in Request, TwoHoursPass(r)
      PROVE  TypeOK'
  BY <1>32 DEF TwoHoursPass, Inv, TypeOK, workerVars
<1>33. ASSUME NEW p \in Period, ToggleFinalized(p)
      PROVE  TypeOK'
  BY <1>33, ToggleFinalizedType DEF Inv
<1>34. ASSUME NEW m \in Month, DataArrives(m)
      PROVE  TypeOK'
  BY <1>34 DEF DataArrives, Inv, TypeOK, workerVars
<1>35. CASE UNCHANGED vars
  BY <1>35 DEF vars, workerVars, Inv, TypeOK
<1> QED
  BY <1>1, <1>2, <1>3, <1>4, <1>5, <1>6, <1>7, <1>8, <1>9, <1>10, <1>11, <1>12,
     <1>13, <1>14, <1>15, <1>16, <1>17, <1>18, <1>19, <1>20, <1>21, <1>22, <1>23,
     <1>24, <1>25, <1>26, <1>27, <1>28, <1>29, <1>30, <1>31, <1>32, <1>33, <1>34,
     <1>35, NightWorkerAssumption
  DEF Next, WebStep, WorkerStep

\* Every step keeps a request in the hands of a worker that is running one.
LEMMA HeadStep ==
  ASSUME Inv, [Next]_vars
  PROVE  HeadInv'
<1>1. ASSUME NEW u \in User, NEW ms \in SUBSET Month,
            NEW why \in Reason \cup {Plain}, SaveRecord(u, ms, why)
      PROVE  HeadInv'
  BY <1>1 DEF SaveRecord, Inv, TypeOK, HeadInv, InHand, Locked, workerVars
<1>2. ASSUME NEW u \in User, NEW p \in Period, Press(u, p)
      PROVE  HeadInv'
  BY <1>2 DEF Press, Inv, TypeOK, HeadInv, InHand, Locked, workerVars
<1>3. ASSUME NEW u \in User, RequestMonths(u)
      PROVE  HeadInv'
  BY <1>3 DEF RequestMonths, Inv, TypeOK, HeadInv, InHand, Locked, workerVars
<1>4. ASSUME NEW u \in User, CreateNext(u)
      PROVE  HeadInv'
  BY <1>4 DEF CreateNext, Inv, TypeOK, HeadInv, InHand, Locked, workerVars
<1>5. ASSUME NEW u \in User, PressCreate(u)
      PROVE  HeadInv'
  BY <1>5 DEF PressCreate, Inv, TypeOK, HeadInv, InHand, Locked, workerVars
<1>6. ASSUME NEW u \in User, NEW w \in Worker, Launch(u, w)
      PROVE  HeadInv'
  BY <1>6 DEF Launch, Inv, TypeOK, HeadInv, InHand, Locked, workerVars
<1>7. ASSUME NEW u \in User, WebDies(u)
      PROVE  HeadInv'
  BY <1>7 DEF WebDies, Inv, TypeOK, HeadInv, InHand, Locked, workerVars
<1>8. ASSUME NEW w \in Worker, Nightly(w)
      PROVE  HeadInv'
  BY <1>8 DEF Nightly, Inv, TypeOK, HeadInv, InHand, Locked, workerVars
<1>9. ASSUME NEW w \in Worker, NEW ms \in SUBSET Month, Command(w, ms)
      PROVE  HeadInv'
  BY <1>9 DEF Command, Inv, TypeOK, HeadInv, InHand, Locked, workerVars
<1>10. ASSUME NEW w \in Worker, NightlyCreate(w)
      PROVE  HeadInv'
  BY <1>10 DEF NightlyCreate, Inv, TypeOK, HeadInv, InHand, Locked, workerVars
<1>11. ASSUME NEW w \in Worker, NightlyRun(w)
      PROVE  HeadInv'
  BY <1>11 DEF NightlyRun, Inv, TypeOK, HeadInv, InHand, Locked, workerVars
<1>12. ASSUME NEW w \in Worker, TryLock(w)
      PROVE  HeadInv'
  BY <1>12 DEF TryLock, Inv, TypeOK, HeadInv, InHand, Locked, workerVars
<1>13. ASSUME NEW w \in Worker, Unlock(w)
      PROVE  HeadInv'
  BY <1>13 DEF Unlock, Inv, TypeOK, HeadInv, InHand, Locked, workerVars
<1>14. ASSUME NEW w \in Worker, Look(w)
      PROVE  HeadInv'
  BY <1>14 DEF Look, Inv, TypeOK, HeadInv, InHand, Locked, workerVars
<1>15. ASSUME NEW w \in Worker, EmptyQueue(w)
      PROVE  HeadInv'
  BY <1>15 DEF EmptyQueue, Inv, TypeOK, HeadInv, InHand, Locked, workerVars
<1>16. ASSUME NEW w \in Worker, TakeHead(w)
      PROVE  HeadInv'
  BY <1>16 DEF TakeHead, Inv, TypeOK, HeadInv, InHand, Locked
<1>17. ASSUME NEW w \in Worker, Absorb(w)
      PROVE  HeadInv'
  BY <1>17 DEF Absorb, Inv, TypeOK, HeadInv, InHand, Locked, workerVars
<1>18. ASSUME NEW w \in Worker, Mirror(w)
      PROVE  HeadInv'
  BY <1>18 DEF Mirror, Inv, TypeOK, HeadInv, InHand, Locked, workerVars
<1>19. ASSUME NEW w \in Worker, Handled(w)
      PROVE  HeadInv'
  BY <1>19 DEF Handled, Inv, TypeOK, HeadInv, InHand, Locked, workerVars
<1>20. ASSUME NEW w \in Worker, Start(w)
      PROVE  HeadInv'
  BY <1>20 DEF Start, Inv, TypeOK, HeadInv, InHand, Locked, workerVars
<1>21. ASSUME NEW w \in Worker, Refuse(w)
      PROVE  HeadInv'
  BY <1>21 DEF Refuse, Inv, TypeOK, HeadInv, InHand, Locked, workerVars, Stop
<1>22. ASSUME NEW w \in Worker, Trim(w)
      PROVE  HeadInv'
  BY <1>22 DEF Trim, Inv, TypeOK, HeadInv, InHand, Locked, workerVars
<1>23. ASSUME NEW w \in Worker, BeginMonth(w)
      PROVE  HeadInv'
  BY <1>23 DEF BeginMonth, Inv, TypeOK, HeadInv, InHand, Locked, workerVars
<1>24. ASSUME NEW w \in Worker, CommitMonth(w)
      PROVE  HeadInv'
  BY <1>24 DEF CommitMonth, Inv, TypeOK, HeadInv, InHand, Locked, workerVars
<1>25. ASSUME NEW w \in Worker, CountMonth(w)
      PROVE  HeadInv'
  BY <1>25 DEF CountMonth, Inv, TypeOK, HeadInv, InHand, Locked, workerVars
<1>26. ASSUME NEW w \in Worker, RejectMonth(w)
      PROVE  HeadInv'
  BY <1>26 DEF RejectMonth, Inv, TypeOK, HeadInv, InHand, Locked, workerVars, Stop
<1>27. ASSUME NEW w \in Worker, Fail(w)
      PROVE  HeadInv'
  BY <1>27 DEF Fail, Inv, TypeOK, HeadInv, InHand, Locked, workerVars, Stop
<1>28. ASSUME NEW w \in Worker, Finish(w)
      PROVE  HeadInv'
  BY <1>28 DEF Finish, Inv, TypeOK, HeadInv, InHand, Locked, workerVars
<1>29. ASSUME NEW w \in Worker, Health(w)
      PROVE  HeadInv'
  BY <1>29 DEF Health, Inv, TypeOK, HeadInv, InHand, Locked, workerVars
<1>30. ASSUME NEW w \in Worker, WorkerDies(w)
      PROVE  HeadInv'
  BY <1>30 DEF WorkerDies, Inv, TypeOK, HeadInv, InHand, Locked, workerVars
<1>31. ASSUME HealthCheck
      PROVE  HeadInv'
  BY <1>31 DEF HealthCheck, Inv, TypeOK, HeadInv, InHand, Locked, workerVars
<1>32. ASSUME NEW r \in Request, TwoHoursPass(r)
      PROVE  HeadInv'
  BY <1>32 DEF TwoHoursPass, Inv, TypeOK, HeadInv, InHand, Locked, workerVars
<1>33. ASSUME NEW p \in Period, ToggleFinalized(p)
      PROVE  HeadInv'
  BY <1>33 DEF ToggleFinalized, Inv, TypeOK, HeadInv, InHand, Locked, workerVars
<1>34. ASSUME NEW m \in Month, DataArrives(m)
      PROVE  HeadInv'
  BY <1>34 DEF DataArrives, Inv, TypeOK, HeadInv, InHand, Locked, workerVars
<1>35. CASE UNCHANGED vars
  BY <1>35 DEF vars, workerVars, Inv, HeadInv
<1> QED
  BY <1>1, <1>2, <1>3, <1>4, <1>5, <1>6, <1>7, <1>8, <1>9, <1>10, <1>11, <1>12,
     <1>13, <1>14, <1>15, <1>16, <1>17, <1>18, <1>19, <1>20, <1>21, <1>22, <1>23,
     <1>24, <1>25, <1>26, <1>27, <1>28, <1>29, <1>30, <1>31, <1>32, <1>33, <1>34,
     <1>35, NightWorkerAssumption
  DEF Next, WebStep, WorkerStep

\* Every step of request_for_months that comes back for another group finds one.
LEMMA WebInvStep ==
  ASSUME Inv, [Next]_vars
  PROVE  WebInv'
<1>1. ASSUME NEW u \in User, NEW ms \in SUBSET Month,
            NEW why \in Reason \cup {Plain}, SaveRecord(u, ms, why)
      PROVE  WebInv'
  BY <1>1 DEF SaveRecord, Inv, TypeOK, WebInv, workerVars, Idle
<1>2. ASSUME NEW u \in User, NEW p \in Period, Press(u, p)
      PROVE  WebInv'
  BY <1>2 DEF Press, Inv, TypeOK, WebInv, workerVars, Idle
<1>3. ASSUME NEW u \in User, RequestMonths(u)
      PROVE  WebInv'
  <2> DEFINE kept == {m \in web[u].months : web[u].reason # Plain \/ ~FinalizedMonth(m)}
             next == IF kept = {} THEN Idle
                     ELSE [web[u] EXCEPT !.pc = "create", !.months = kept]
  <2>1. web' = [web EXCEPT ![u] = next]
    BY <1>3 DEF RequestMonths
  <2>2. web[u] \in WebRequest
    BY DEF Inv, TypeOK
  <2>3. next.pc = "create" => next.months # {}
    BY <2>2 DEF Idle, WebRequest
  <2> HIDE DEF next
  <2> QED
    BY <2>1, <2>3 DEF Inv, TypeOK, WebInv
<1>4. ASSUME NEW u \in User, CreateNext(u)
      PROVE  WebInv'
  <2> DEFINE first == First(web[u].months)
             rest  == web[u].months \ {m \in web[u].months : PeriodOf[m] = PeriodOf[first]}
  <2>1. web[u] \in WebRequest /\ web' \in [User -> WebRequest]
    BY <1>4, CreateNextType DEF Inv, TypeOK
  <2>2. web' = [web EXCEPT ![u].months = rest, ![u].made = @ \cup {NewRow},
                           ![u].pc = IF rest = {} THEN "launch" ELSE "create"]
    BY <1>4 DEF CreateNext
  <2> HIDE DEF rest
  <2>3. web'[u].pc = "create" => web'[u].months # {}
    BY <2>1, <2>2 DEF Inv, TypeOK, WebRequest
  <2>4. \A v \in User \ {u} : web'[v] = web[v]
    BY <2>2 DEF Inv, TypeOK
  <2> QED
    BY <2>3, <2>4 DEF Inv, WebInv
<1>5. ASSUME NEW u \in User, PressCreate(u)
      PROVE  WebInv'
  BY <1>5 DEF PressCreate, Inv, TypeOK, WebInv, workerVars, Idle
<1>6. ASSUME NEW u \in User, NEW w \in Worker, Launch(u, w)
      PROVE  WebInv'
  BY <1>6 DEF Launch, Inv, TypeOK, WebInv, workerVars, Idle
<1>7. ASSUME NEW u \in User, WebDies(u)
      PROVE  WebInv'
  BY <1>7 DEF WebDies, Inv, TypeOK, WebInv, workerVars, Idle
<1>8. ASSUME NEW w \in Worker, Nightly(w)
      PROVE  WebInv'
  BY <1>8 DEF Nightly, Inv, TypeOK, WebInv, workerVars
<1>9. ASSUME NEW w \in Worker, NEW ms \in SUBSET Month, Command(w, ms)
      PROVE  WebInv'
  BY <1>9 DEF Command, Inv, TypeOK, WebInv, workerVars
<1>10. ASSUME NEW w \in Worker, NightlyCreate(w)
      PROVE  WebInv'
  BY <1>10 DEF NightlyCreate, Inv, TypeOK, WebInv, workerVars
<1>11. ASSUME NEW w \in Worker, NightlyRun(w)
      PROVE  WebInv'
  BY <1>11 DEF NightlyRun, Inv, TypeOK, WebInv, workerVars
<1>12. ASSUME NEW w \in Worker, TryLock(w)
      PROVE  WebInv'
  BY <1>12 DEF TryLock, Inv, TypeOK, WebInv, workerVars
<1>13. ASSUME NEW w \in Worker, Unlock(w)
      PROVE  WebInv'
  BY <1>13 DEF Unlock, Inv, TypeOK, WebInv, workerVars
<1>14. ASSUME NEW w \in Worker, Look(w)
      PROVE  WebInv'
  BY <1>14 DEF Look, Inv, TypeOK, WebInv, workerVars
<1>15. ASSUME NEW w \in Worker, EmptyQueue(w)
      PROVE  WebInv'
  BY <1>15 DEF EmptyQueue, Inv, TypeOK, WebInv, workerVars
<1>16. ASSUME NEW w \in Worker, TakeHead(w)
      PROVE  WebInv'
  BY <1>16 DEF TakeHead, Inv, TypeOK, WebInv, workerVars
<1>17. ASSUME NEW w \in Worker, Absorb(w)
      PROVE  WebInv'
  BY <1>17 DEF Absorb, Inv, TypeOK, WebInv, workerVars
<1>18. ASSUME NEW w \in Worker, Mirror(w)
      PROVE  WebInv'
  BY <1>18 DEF Mirror, Inv, TypeOK, WebInv, workerVars
<1>19. ASSUME NEW w \in Worker, Handled(w)
      PROVE  WebInv'
  BY <1>19 DEF Handled, Inv, TypeOK, WebInv, workerVars
<1>20. ASSUME NEW w \in Worker, Start(w)
      PROVE  WebInv'
  BY <1>20 DEF Start, Inv, TypeOK, WebInv, workerVars
<1>21. ASSUME NEW w \in Worker, Refuse(w)
      PROVE  WebInv'
  BY <1>21 DEF Refuse, Inv, TypeOK, WebInv, workerVars, Stop
<1>22. ASSUME NEW w \in Worker, Trim(w)
      PROVE  WebInv'
  BY <1>22 DEF Trim, Inv, TypeOK, WebInv, workerVars
<1>23. ASSUME NEW w \in Worker, BeginMonth(w)
      PROVE  WebInv'
  BY <1>23 DEF BeginMonth, Inv, TypeOK, WebInv, workerVars
<1>24. ASSUME NEW w \in Worker, CommitMonth(w)
      PROVE  WebInv'
  BY <1>24 DEF CommitMonth, Inv, TypeOK, WebInv, workerVars
<1>25. ASSUME NEW w \in Worker, CountMonth(w)
      PROVE  WebInv'
  BY <1>25 DEF CountMonth, Inv, TypeOK, WebInv, workerVars
<1>26. ASSUME NEW w \in Worker, RejectMonth(w)
      PROVE  WebInv'
  BY <1>26 DEF RejectMonth, Inv, TypeOK, WebInv, workerVars, Stop
<1>27. ASSUME NEW w \in Worker, Fail(w)
      PROVE  WebInv'
  BY <1>27 DEF Fail, Inv, TypeOK, WebInv, workerVars, Stop
<1>28. ASSUME NEW w \in Worker, Finish(w)
      PROVE  WebInv'
  BY <1>28 DEF Finish, Inv, TypeOK, WebInv, workerVars
<1>29. ASSUME NEW w \in Worker, Health(w)
      PROVE  WebInv'
  BY <1>29 DEF Health, Inv, TypeOK, WebInv, workerVars
<1>30. ASSUME NEW w \in Worker, WorkerDies(w)
      PROVE  WebInv'
  BY <1>30 DEF WorkerDies, Inv, TypeOK, WebInv, workerVars
<1>31. ASSUME HealthCheck
      PROVE  WebInv'
  BY <1>31 DEF HealthCheck, Inv, TypeOK, WebInv, workerVars
<1>32. ASSUME NEW r \in Request, TwoHoursPass(r)
      PROVE  WebInv'
  BY <1>32 DEF TwoHoursPass, Inv, TypeOK, WebInv, workerVars
<1>33. ASSUME NEW p \in Period, ToggleFinalized(p)
      PROVE  WebInv'
  BY <1>33 DEF ToggleFinalized, Inv, TypeOK, WebInv, workerVars
<1>34. ASSUME NEW m \in Month, DataArrives(m)
      PROVE  WebInv'
  BY <1>34 DEF DataArrives, Inv, TypeOK, WebInv, workerVars
<1>35. CASE UNCHANGED vars
  BY <1>35 DEF vars, workerVars, Inv, WebInv
<1> QED
  BY <1>1, <1>2, <1>3, <1>4, <1>5, <1>6, <1>7, <1>8, <1>9, <1>10, <1>11, <1>12,
     <1>13, <1>14, <1>15, <1>16, <1>17, <1>18, <1>19, <1>20, <1>21, <1>22, <1>23,
     <1>24, <1>25, <1>26, <1>27, <1>28, <1>29, <1>30, <1>31, <1>32, <1>33, <1>34,
     <1>35, NightWorkerAssumption
  DEF Next, WebStep, WorkerStep

LEMMA InvStep == Inv /\ [Next]_vars => Inv'
BY TypeStep, HeadStep, WebInvStep DEF Inv

LEMMA InvAlways == Spec => []Inv
BY InvInit, InvStep, PTL DEF Spec

\* Type correctness of the queue: rows, queue, workers and web requests never
\* hold a value the code could not have written.
THEOREM TypeCorrect == Spec => []TypeOK
BY InvAlways, PTL DEF Inv

-----------------------------------------------------------------------------
(* One calculation at a time *)

\* The lock is taken only when free and given up only by leaving the drain loop.
LEMMA LockStep ==
  ASSUME Inv, OneAtATime, [Next]_vars
  PROVE  OneAtATime'
<1>1. ASSUME NEW u \in User, NEW ms \in SUBSET Month,
            NEW why \in Reason \cup {Plain}, SaveRecord(u, ms, why)
      PROVE  OneAtATime'
  BY <1>1 DEF SaveRecord, Inv, TypeOK, OneAtATime, Locked, workerVars
<1>2. ASSUME NEW u \in User, NEW p \in Period, Press(u, p)
      PROVE  OneAtATime'
  BY <1>2 DEF Press, Inv, TypeOK, OneAtATime, Locked, workerVars
<1>3. ASSUME NEW u \in User, RequestMonths(u)
      PROVE  OneAtATime'
  BY <1>3 DEF RequestMonths, Inv, TypeOK, OneAtATime, Locked, workerVars
<1>4. ASSUME NEW u \in User, CreateNext(u)
      PROVE  OneAtATime'
  BY <1>4 DEF CreateNext, Inv, TypeOK, OneAtATime, Locked, workerVars
<1>5. ASSUME NEW u \in User, PressCreate(u)
      PROVE  OneAtATime'
  BY <1>5 DEF PressCreate, Inv, TypeOK, OneAtATime, Locked, workerVars
<1>6. ASSUME NEW u \in User, NEW w \in Worker, Launch(u, w)
      PROVE  OneAtATime'
  BY <1>6 DEF Launch, Inv, TypeOK, OneAtATime, Locked, workerVars
<1>7. ASSUME NEW u \in User, WebDies(u)
      PROVE  OneAtATime'
  BY <1>7 DEF WebDies, Inv, TypeOK, OneAtATime, Locked, workerVars
<1>8. ASSUME NEW w \in Worker, Nightly(w)
      PROVE  OneAtATime'
  BY <1>8 DEF Nightly, Inv, TypeOK, OneAtATime, Locked, workerVars
<1>9. ASSUME NEW w \in Worker, NEW ms \in SUBSET Month, Command(w, ms)
      PROVE  OneAtATime'
  BY <1>9 DEF Command, Inv, TypeOK, OneAtATime, Locked, workerVars
<1>10. ASSUME NEW w \in Worker, NightlyCreate(w)
      PROVE  OneAtATime'
  BY <1>10 DEF NightlyCreate, Inv, TypeOK, OneAtATime, Locked, workerVars
<1>11. ASSUME NEW w \in Worker, NightlyRun(w)
      PROVE  OneAtATime'
  BY <1>11 DEF NightlyRun, Inv, TypeOK, OneAtATime, Locked, workerVars
<1>12. ASSUME NEW w \in Worker, TryLock(w)
      PROVE  OneAtATime'
  BY <1>12, NobodyAssumption DEF TryLock, Inv, TypeOK, OneAtATime, Locked, workerVars
<1>13. ASSUME NEW w \in Worker, Unlock(w)
      PROVE  OneAtATime'
  BY <1>13 DEF Unlock, Inv, TypeOK, OneAtATime, Locked, workerVars
<1>14. ASSUME NEW w \in Worker, Look(w)
      PROVE  OneAtATime'
  BY <1>14 DEF Look, Inv, TypeOK, OneAtATime, Locked, workerVars
<1>15. ASSUME NEW w \in Worker, EmptyQueue(w)
      PROVE  OneAtATime'
  BY <1>15 DEF EmptyQueue, Inv, TypeOK, OneAtATime, Locked, workerVars
<1>16. ASSUME NEW w \in Worker, TakeHead(w)
      PROVE  OneAtATime'
  BY <1>16 DEF TakeHead, Inv, TypeOK, OneAtATime, Locked, workerVars
<1>17. ASSUME NEW w \in Worker, Absorb(w)
      PROVE  OneAtATime'
  BY <1>17 DEF Absorb, Inv, TypeOK, OneAtATime, Locked, workerVars
<1>18. ASSUME NEW w \in Worker, Mirror(w)
      PROVE  OneAtATime'
  BY <1>18 DEF Mirror, Inv, TypeOK, OneAtATime, Locked, workerVars
<1>19. ASSUME NEW w \in Worker, Handled(w)
      PROVE  OneAtATime'
  BY <1>19 DEF Handled, Inv, TypeOK, OneAtATime, Locked, workerVars
<1>20. ASSUME NEW w \in Worker, Start(w)
      PROVE  OneAtATime'
  BY <1>20 DEF Start, Inv, TypeOK, OneAtATime, Locked, workerVars
<1>21. ASSUME NEW w \in Worker, Refuse(w)
      PROVE  OneAtATime'
  BY <1>21 DEF Refuse, Inv, TypeOK, OneAtATime, Locked, workerVars, Stop
<1>22. ASSUME NEW w \in Worker, Trim(w)
      PROVE  OneAtATime'
  BY <1>22 DEF Trim, Inv, TypeOK, OneAtATime, Locked, workerVars
<1>23. ASSUME NEW w \in Worker, BeginMonth(w)
      PROVE  OneAtATime'
  BY <1>23 DEF BeginMonth, Inv, TypeOK, OneAtATime, Locked, workerVars
<1>24. ASSUME NEW w \in Worker, CommitMonth(w)
      PROVE  OneAtATime'
  BY <1>24 DEF CommitMonth, Inv, TypeOK, OneAtATime, Locked, workerVars
<1>25. ASSUME NEW w \in Worker, CountMonth(w)
      PROVE  OneAtATime'
  BY <1>25 DEF CountMonth, Inv, TypeOK, OneAtATime, Locked, workerVars
<1>26. ASSUME NEW w \in Worker, RejectMonth(w)
      PROVE  OneAtATime'
  BY <1>26 DEF RejectMonth, Inv, TypeOK, OneAtATime, Locked, workerVars, Stop
<1>27. ASSUME NEW w \in Worker, Fail(w)
      PROVE  OneAtATime'
  BY <1>27 DEF Fail, Inv, TypeOK, OneAtATime, Locked, workerVars, Stop
<1>28. ASSUME NEW w \in Worker, Finish(w)
      PROVE  OneAtATime'
  BY <1>28 DEF Finish, Inv, TypeOK, OneAtATime, Locked, workerVars
<1>29. ASSUME NEW w \in Worker, Health(w)
      PROVE  OneAtATime'
  BY <1>29 DEF Health, Inv, TypeOK, OneAtATime, Locked, workerVars
<1>30. ASSUME NEW w \in Worker, WorkerDies(w)
      PROVE  OneAtATime'
  BY <1>30 DEF WorkerDies, Inv, TypeOK, OneAtATime, Locked, workerVars
<1>31. ASSUME HealthCheck
      PROVE  OneAtATime'
  BY <1>31 DEF HealthCheck, Inv, TypeOK, OneAtATime, Locked, workerVars
<1>32. ASSUME NEW r \in Request, TwoHoursPass(r)
      PROVE  OneAtATime'
  BY <1>32 DEF TwoHoursPass, Inv, TypeOK, OneAtATime, Locked, workerVars
<1>33. ASSUME NEW p \in Period, ToggleFinalized(p)
      PROVE  OneAtATime'
  BY <1>33 DEF ToggleFinalized, Inv, TypeOK, OneAtATime, Locked, workerVars
<1>34. ASSUME NEW m \in Month, DataArrives(m)
      PROVE  OneAtATime'
  BY <1>34 DEF DataArrives, Inv, TypeOK, OneAtATime, Locked, workerVars
<1>35. CASE UNCHANGED vars
  BY <1>35 DEF vars, workerVars, OneAtATime
<1> QED
  BY <1>1, <1>2, <1>3, <1>4, <1>5, <1>6, <1>7, <1>8, <1>9, <1>10, <1>11, <1>12,
     <1>13, <1>14, <1>15, <1>16, <1>17, <1>18, <1>19, <1>20, <1>21, <1>22, <1>23,
     <1>24, <1>25, <1>26, <1>27, <1>28, <1>29, <1>30, <1>31, <1>32, <1>33, <1>34,
     <1>35, NightWorkerAssumption
  DEF Next, WebStep, WorkerStep

\* One calculation at a time (run_queue): the worker that reads the queue, runs
\* requests and writes their results is the one session with the advisory lock.
THEOREM OneCalculation == Spec => []OneAtATime
<1>1. Init => OneAtATime
  BY DEF Init, OneAtATime, Locked
<1>2. Inv /\ OneAtATime /\ [Next]_vars => OneAtATime'
  BY LockStep
<1> QED
  BY <1>1, <1>2, InvAlways, PTL DEF Spec

\* Two workers are never both between taking the lock and releasing it.
THEOREM NeverTwo ==
  Spec => [](\A v, w \in Worker : pc[v] \in Locked /\ pc[w] \in Locked => v = w)
<1>1. OneAtATime => \A v, w \in Worker : pc[v] \in Locked /\ pc[w] \in Locked => v = w
  BY DEF OneAtATime
<1> QED
  BY <1>1, OneCalculation, PTL

-----------------------------------------------------------------------------
(* Reasons are never mixed *)

\* A created row is nobody's: reasons of the requests in hand stay as they are.
LEMMA CreateRowReason ==
  ASSUME TypeOK, HeadInv, SameReason,
         NEW p, NEW ms, NEW why, CreateRow(p, ms, why),
         UNCHANGED <<absorbed, head>>
  PROVE  SameReason'
<1>1. NewRow \in Request /\ Unused(NewRow)
  BY NewRowUnused DEF CreateRow
<1>2. \A r \in Request : r # NewRow => row'[r] = row[r]
  BY DEF CreateRow, TypeOK
<1>3. \A w \in Worker : head[w] # NewRow /\ NewRow \notin absorbed[w]
  BY <1>1 DEF Unused
<1> QED
  BY <1>2, <1>3 DEF SameReason, TypeOK, HeadInv

\* A step that touches no reason, hands nobody a request and gives nobody more
\* to carry keeps the property.
LEMMA ReasonFrame ==
  ASSUME TypeOK, HeadInv, SameReason,
         \A r \in Request : row'[r].reason = row[r].reason,
         \A w \in Worker : \/ absorbed'[w] = {}
                           \/ absorbed'[w] \subseteq absorbed[w] /\ head'[w] = head[w]
  PROVE  SameReason'
BY DEF SameReason, TypeOK, HeadInv

\* Setting a status, months or a count leaves every reason alone.
LEMMA RowFieldReason ==
  ASSUME row \in Rows, NEW q, NEW x,
         \/ row' = [row EXCEPT ![q].status = x]
         \/ row' = [row EXCEPT ![q].months = x]
         \/ row' = [row EXCEPT ![q].done = x]
  PROVE  \A r \in Request : row'[r].reason = row[r].reason
BY DEF Rows, RequestRow

LEMMA TakeHeadReason ==
  ASSUME Inv, SameReason, NEW w \in Worker, TakeHead(w)
  PROVE  SameReason'
<1> DEFINE h == Head(queue)
<1>1. h \in Request
  BY DEF Inv, TypeOK, TakeHead
<1>2. \A r \in Request : row'[r].reason = row[r].reason
  BY RowFieldReason DEF TakeHead, Inv, TypeOK, Rows
<1>3. \A r \in Folded(h) : r \in Request /\ row[r].reason = row[h].reason
  BY FoldedCandidates DEF Candidates
<1>4. head'[w] = h /\ absorbed'[w] = Folded(h)
  BY DEF TakeHead, Inv, TypeOK
<1>5. \A v \in Worker \ {w} : head'[v] = head[v] /\ absorbed'[v] = absorbed[v]
  BY DEF TakeHead, Inv, TypeOK
<1>6. \A r \in absorbed'[w] : row'[r].reason = row'[head'[w]].reason
  BY <1>1, <1>2, <1>3, <1>4
<1>7. ASSUME NEW v \in Worker \ {w}, NEW r \in absorbed'[v]
      PROVE  row'[r].reason = row'[head'[v]].reason
  BY <1>2, <1>5, <1>7 DEF SameReason, Inv, TypeOK, HeadInv
<1> QED
  BY <1>6, <1>7 DEF SameReason

LEMMA MirrorReason ==
  ASSUME Inv, SameReason, NEW w \in Worker, Mirror(w)
  PROVE  SameReason'
<1>1. PICK q \in absorbed[w] :
        /\ row' = [row EXCEPT ![q] = [row[head[w]] EXCEPT !.period = row[q].period,
                                                          !.reason = row[q].reason]]
        /\ absorbed' = [absorbed EXCEPT ![w] = @ \ {q}]
  BY DEF Mirror
<1>2. q \in Request /\ row[head[w]] \in RequestRow
  BY <1>1 DEF Inv, TypeOK, HeadInv
<1>3. row'[q].reason = row[q].reason
  BY <1>1, <1>2 DEF Inv, TypeOK, RequestRow
<1>4. \A r \in Request : row'[r].reason = row[r].reason
  BY <1>1, <1>3 DEF Inv, TypeOK
<1>5. \A v \in Worker : absorbed'[v] \subseteq absorbed[v] /\ head'[v] = head[v]
  BY <1>1 DEF Mirror, Inv, TypeOK
<1> QED
  BY <1>4, <1>5, ReasonFrame DEF Inv

\* Every step keeps the reasons of a run alike.
LEMMA ReasonStep ==
  ASSUME Inv, SameReason, [Next]_vars
  PROVE  SameReason'
<1>1. ASSUME NEW u \in User, NEW ms \in SUBSET Month,
            NEW why \in Reason \cup {Plain}, SaveRecord(u, ms, why)
      PROVE  SameReason'
  BY <1>1, ReasonFrame DEF SaveRecord, Inv, TypeOK, workerVars
<1>2. ASSUME NEW u \in User, NEW p \in Period, Press(u, p)
      PROVE  SameReason'
  BY <1>2, ReasonFrame DEF Press, Inv, TypeOK, workerVars
<1>3. ASSUME NEW u \in User, RequestMonths(u)
      PROVE  SameReason'
  BY <1>3, ReasonFrame DEF RequestMonths, Inv, TypeOK, workerVars
<1>4. ASSUME NEW u \in User, CreateNext(u)
      PROVE  SameReason'
  BY <1>4, CreateRowReason DEF CreateNext, Inv, workerVars
<1>5. ASSUME NEW u \in User, PressCreate(u)
      PROVE  SameReason'
  BY <1>5, CreateRowReason DEF PressCreate, Inv, workerVars
<1>6. ASSUME NEW u \in User, NEW w \in Worker, Launch(u, w)
      PROVE  SameReason'
  BY <1>6, ReasonFrame DEF Launch, Inv, TypeOK, workerVars
<1>7. ASSUME NEW u \in User, WebDies(u)
      PROVE  SameReason'
  BY <1>7, ReasonFrame DEF WebDies, Inv, TypeOK, workerVars
<1>8. ASSUME NEW w \in Worker, Nightly(w)
      PROVE  SameReason'
  BY <1>8, ReasonFrame DEF Nightly, Inv, TypeOK, workerVars
<1>9. ASSUME NEW w \in Worker, NEW ms \in SUBSET Month, Command(w, ms)
      PROVE  SameReason'
  BY <1>9, CreateRowReason DEF Command, Inv, workerVars
<1>10. ASSUME NEW w \in Worker, NightlyCreate(w)
      PROVE  SameReason'
  BY <1>10, CreateRowReason DEF NightlyCreate, Inv, workerVars
<1>11. ASSUME NEW w \in Worker, NightlyRun(w)
      PROVE  SameReason'
  BY <1>11, ReasonFrame DEF NightlyRun, Inv, TypeOK, workerVars
<1>12. ASSUME NEW w \in Worker, TryLock(w)
      PROVE  SameReason'
  BY <1>12, ReasonFrame DEF TryLock, Inv, TypeOK, workerVars
<1>13. ASSUME NEW w \in Worker, Unlock(w)
      PROVE  SameReason'
  BY <1>13, ReasonFrame DEF Unlock, Inv, TypeOK, workerVars
<1>14. ASSUME NEW w \in Worker, Look(w)
      PROVE  SameReason'
  BY <1>14, ReasonFrame DEF Look, Inv, TypeOK, workerVars
<1>15. ASSUME NEW w \in Worker, EmptyQueue(w)
      PROVE  SameReason'
  BY <1>15, ReasonFrame DEF EmptyQueue, Inv, TypeOK, workerVars
<1>16. ASSUME NEW w \in Worker, TakeHead(w)
      PROVE  SameReason'
  BY <1>16, TakeHeadReason
<1>17. ASSUME NEW w \in Worker, Absorb(w)
      PROVE  SameReason'
  BY <1>17, RowFieldReason, ReasonFrame DEF Absorb, Inv, TypeOK, Rows
<1>18. ASSUME NEW w \in Worker, Mirror(w)
      PROVE  SameReason'
  BY <1>18, MirrorReason
<1>19. ASSUME NEW w \in Worker, Handled(w)
      PROVE  SameReason'
  BY <1>19, ReasonFrame DEF Handled, Inv, TypeOK, workerVars
<1>20. ASSUME NEW w \in Worker, Start(w)
      PROVE  SameReason'
  BY <1>20, ReasonFrame DEF Start, Inv, TypeOK, RequestRow
<1>21. ASSUME NEW w \in Worker, Refuse(w)
      PROVE  SameReason'
  BY <1>21, RowFieldReason, ReasonFrame DEF Refuse, Inv, TypeOK, Rows, Stop
<1>22. ASSUME NEW w \in Worker, Trim(w)
      PROVE  SameReason'
  BY <1>22, RowFieldReason, ReasonFrame DEF Trim, Inv, TypeOK, Rows
<1>23. ASSUME NEW w \in Worker, BeginMonth(w)
      PROVE  SameReason'
  BY <1>23, ReasonFrame DEF BeginMonth, Inv, TypeOK, workerVars
<1>24. ASSUME NEW w \in Worker, CommitMonth(w)
      PROVE  SameReason'
  BY <1>24, ReasonFrame DEF CommitMonth, Inv, TypeOK, workerVars
<1>25. ASSUME NEW w \in Worker, CountMonth(w)
      PROVE  SameReason'
  BY <1>25, RowFieldReason, ReasonFrame DEF CountMonth, Inv, TypeOK, Rows
<1>26. ASSUME NEW w \in Worker, RejectMonth(w)
      PROVE  SameReason'
  BY <1>26, RowFieldReason, ReasonFrame DEF RejectMonth, Inv, TypeOK, Rows, Stop
<1>27. ASSUME NEW w \in Worker, Fail(w)
      PROVE  SameReason'
  BY <1>27, RowFieldReason, ReasonFrame DEF Fail, Inv, TypeOK, Rows, Stop
<1>28. ASSUME NEW w \in Worker, Finish(w)
      PROVE  SameReason'
  BY <1>28, RowFieldReason, ReasonFrame DEF Finish, Inv, TypeOK, Rows
<1>29. ASSUME NEW w \in Worker, Health(w)
      PROVE  SameReason'
  BY <1>29, ReasonFrame DEF Health, FailLateRuns, Inv, TypeOK, RequestRow, workerVars
<1>30. ASSUME NEW w \in Worker, WorkerDies(w)
      PROVE  SameReason'
  BY <1>30, ReasonFrame DEF WorkerDies, Inv, TypeOK, workerVars
<1>31. ASSUME HealthCheck
      PROVE  SameReason'
  BY <1>31, ReasonFrame DEF HealthCheck, FailLateRuns, Inv, TypeOK, RequestRow, workerVars
<1>32. ASSUME NEW r \in Request, TwoHoursPass(r)
      PROVE  SameReason'
  BY <1>32, ReasonFrame DEF TwoHoursPass, Inv, TypeOK, workerVars
<1>33. ASSUME NEW p \in Period, ToggleFinalized(p)
      PROVE  SameReason'
  BY <1>33, ReasonFrame DEF ToggleFinalized, Inv, TypeOK, workerVars
<1>34. ASSUME NEW m \in Month, DataArrives(m)
      PROVE  SameReason'
  BY <1>34, ReasonFrame DEF DataArrives, Inv, TypeOK, workerVars
<1>35. CASE UNCHANGED vars
  BY <1>35 DEF vars, workerVars, SameReason
<1> QED
  BY <1>1, <1>2, <1>3, <1>4, <1>5, <1>6, <1>7, <1>8, <1>9, <1>10, <1>11, <1>12,
     <1>13, <1>14, <1>15, <1>16, <1>17, <1>18, <1>19, <1>20, <1>21, <1>22, <1>23,
     <1>24, <1>25, <1>26, <1>27, <1>28, <1>29, <1>30, <1>31, <1>32, <1>33, <1>34,
     <1>35, NightWorkerAssumption
  DEF Next, WebStep, WorkerStep

\* A plain request never rides through the door and a reason is never swapped
\* for another (_merge_overlapping): whatever a run carries has its own reason.
THEOREM ReasonsKept == Spec => []SameReason
<1>1. Init => SameReason
  BY DEF Init, SameReason
<1>2. Inv /\ SameReason /\ [Next]_vars => SameReason'
  BY ReasonStep
<1> QED
  BY <1>1, <1>2, InvAlways, PTL DEF Spec

-----------------------------------------------------------------------------
(* The inductive invariant of a request *)

\* What is in the hands of the worker w.  The request it took from the queue is
\* queued until the worker has marked all it folds into it, and has what they asked
\* for; then it is running, or failed for being late, and counts the months.
HandOf(w) ==
  /\ pc[w] \notin InHand => head[w] = NoRequest /\ absorbed[w] = {}
  /\ pc[w] \notin {"month", "commit", "count"} => todo[w] = {}
  /\ pc[w] = "commit" => todo[w] # {}
  /\ pc[w] # "absorb" => \A r \in absorbed[w] : row[r].status # "queued"
  /\ pc[w] \in {"absorb", "start"} =>
       /\ row[head[w]].status = "queued" /\ head[w] \notin absorbed[w]
       /\ \A r \in absorbed[w] : row[r].months \subseteq row[head[w]].months
  /\ pc[w] \in {"check", "month", "commit", "count"} => row[head[w]].status \in {"running", "failed"}
  /\ pc[w] \in {"health", "mirror"} => row[head[w]].status \in {"succeeded", "failed"}
  /\ pc[w] = "check" => row[head[w]].done = 0
  /\ pc[w] \in {"month", "commit"} =>
       row[head[w]].done + Cardinality(todo[w]) = Cardinality(row[head[w]].months)
  /\ pc[w] = "count" =>
       row[head[w]].done + Cardinality(todo[w]) + 1 = Cardinality(row[head[w]].months)
HandInv == \A w \in Worker : HandOf(w)

\* The queue holds queued rows, each once.
QueueOf(q) ==
  /\ \A i \in 1 .. Len(q) : row[q[i]].status = "queued"
  /\ \A i, j \in 1 .. Len(q) : q[i] = q[j] => i = j
QueueInv == QueueOf(queue)

\* Only a running row is late.
LateInv == \A r \in late : row[r].status = "running"

\* A web request owes months until it has created their rows.
AskedInv == \A u \in User : web[u].months # {} => web[u].pc \in {"saved", "create"}

RunInv == Inv /\ OneAtATime /\ HandInv /\ QueueInv /\ LateInv /\ AskedInv

-----------------------------------------------------------------------------
(* The queue without a row *)

\* A row that is taken out of the queue is in it no more, and the others stay.
LEMMA WithoutGone ==
  ASSUME NEW q \in Seq(Request), NEW r, \A i, j \in 1 .. Len(q) : q[i] = q[j] => i = j
  PROVE  /\ \A i \in 1 .. Len(Without(q, r)) :
              Without(q, r)[i] # r /\ \E j \in 1 .. Len(q) : Without(q, r)[i] = q[j]
         /\ \A i, j \in 1 .. Len(Without(q, r)) : Without(q, r)[i] = Without(q, r)[j] => i = j
<1> DEFINE places == {i \in 1 .. Len(q) : q[i] = r}
<1>0. Len(q) \in Nat /\ \A i \in 1 .. Len(q) : q[i] \in Request
  BY LenProperties, ElementOfSeq
<1>1. CASE places = {}
  BY <1>1 DEF Without
<1>2. CASE places # {}
  <2> DEFINE p == CHOOSE i \in places : TRUE
             n == Len(q)
             a == SubSeq(q, 1, p - 1)
             b == SubSeq(q, p + 1, n)
  <2>1. p \in 1 .. n /\ q[p] = r
    BY <1>2
  <2>2. Without(q, r) = a \o b
    BY <1>2 DEF Without, WithoutPlace
  <2> HIDE DEF p
  <2>3. /\ a \in Seq(Request) /\ Len(a) = p - 1
        /\ \A i \in 1 .. p - 1 : a[i] = q[i]
    <3>1. /\ a \in Seq(Request) /\ Len(a) = IF 1 <= p - 1 THEN p - 1 - 1 + 1 ELSE 0
          /\ \A i \in 1 .. p - 1 - 1 + 1 : a[i] = q[1 + i - 1]
      BY <1>0, <2>1, SubSeqProperties
    <3> QED
      BY <1>0, <2>1, <3>1
  <2>4. /\ b \in Seq(Request) /\ Len(b) = n - p
        /\ \A i \in 1 .. n - p : b[i] = q[p + i]
    <3>1. /\ b \in Seq(Request) /\ Len(b) = IF p + 1 <= n THEN n - (p + 1) + 1 ELSE 0
          /\ \A i \in 1 .. n - (p + 1) + 1 : b[i] = q[p + 1 + i - 1]
      BY <1>0, <2>1, SubSeqProperties
    <3> QED
      BY <1>0, <2>1, <3>1
  <2> HIDE DEF a, b
  <2>5. /\ Len(a \o b) = n - 1
        /\ \A i \in 1 .. n - 1 : (a \o b)[i] = IF i < p THEN q[i] ELSE q[i + 1]
    <3>1. /\ Len(a \o b) = Len(a) + Len(b)
          /\ \A i \in 1 .. Len(a) + Len(b) : (a \o b)[i] = IF i <= Len(a) THEN a[i] ELSE b[i - Len(a)]
      <4>1. a \in Seq(Request) /\ b \in Seq(Request)
        BY <2>3, <2>4
      <4> QED
        BY <4>1, ConcatProperties
    <3>2. Len(a \o b) = n - 1
      BY <1>0, <2>1, <2>3, <2>4, <3>1
    <3>3. ASSUME NEW i \in 1 .. n - 1, i < p PROVE (a \o b)[i] = q[i]
      BY <1>0, <2>1, <2>3, <2>4, <3>1, <3>3
    <3>4. ASSUME NEW i \in 1 .. n - 1, ~(i < p) PROVE (a \o b)[i] = q[i + 1]
      <4>1. i - (p - 1) \in 1 .. n - p /\ p + (i - (p - 1)) = i + 1 /\ ~(i <= p - 1)
        BY <1>0, <2>1, <3>4
      <4>2. (a \o b)[i] = b[i - (p - 1)]
        BY <1>0, <2>1, <2>3, <2>4, <3>1, <4>1
      <4> QED
        BY <2>4, <4>1, <4>2
    <3> QED
      BY <3>2, <3>3, <3>4
  <2> DEFINE W == Without(q, r)
  <2>6. Len(W) = n - 1 /\ \A i \in 1 .. n - 1 : W[i] = IF i < p THEN q[i] ELSE q[i + 1]
    BY <2>2, <2>5
  <2> HIDE DEF W
  <2>7. \A i \in 1 .. n - 1 : W[i] # r /\ \E j \in 1 .. n : W[i] = q[j]
    <3> TAKE i \in 1 .. n - 1
    <3>1. i \in 1 .. n /\ i + 1 \in 1 .. n /\ (i < p => i # p) /\ (~(i < p) => i + 1 # p)
      BY <1>0, <2>1
    <3>2. CASE i < p
      BY <2>1, <2>6, <3>1, <3>2
    <3>3. CASE ~(i < p)
      BY <2>1, <2>6, <3>1, <3>3
    <3> QED
      BY <3>2, <3>3
  <2>8. \A i, j \in 1 .. n - 1 : W[i] = W[j] => i = j
    <3> TAKE i, j \in 1 .. n - 1
    <3> DEFINE f(k) == IF k < p THEN k ELSE k + 1
    <3>1. f(i) \in 1 .. n /\ f(j) \in 1 .. n /\ (f(i) = f(j) => i = j)
      BY <1>0, <2>1
    <3>2. W[i] = q[f(i)] /\ W[j] = q[f(j)]
      BY <2>6
    <3> HIDE DEF f
    <3> QED
      BY <3>1, <3>2
  <2> QED
    BY <2>6, <2>7, <2>8 DEF W
<1> QED
  BY <1>1, <1>2

\* Taking out a row whose status is changed leaves a queue of queued rows.
LEMMA QueueLoses ==
  ASSUME queue \in Seq(Request), QueueInv, NEW r, queue' = Without(queue, r),
         \A q \in Request : q # r => row'[q].status = row[q].status
  PROVE  QueueInv'
<1>1. /\ queue' \in Seq(Request)
      /\ \A i \in 1 .. Len(queue') : queue'[i] # r /\ \E j \in 1 .. Len(queue) : queue'[i] = queue[j]
      /\ \A i, j \in 1 .. Len(queue') : queue'[i] = queue'[j] => i = j
  BY WithoutGone, WithoutType DEF QueueInv, QueueOf
<1>2. \A i \in 1 .. Len(queue') : queue'[i] \in Request
  BY <1>1, ElementOfSeq
<1>3. \A i \in 1 .. Len(queue') : row'[queue'[i]].status = "queued"
  BY <1>1, <1>2 DEF QueueInv, QueueOf
<1> QED
  BY <1>1, <1>3 DEF QueueInv, QueueOf

\* A queue whose rows stay queued is one still.
LEMMA QueueStands ==
  ASSUME queue \in Seq(Request), QueueInv, queue' = queue,
         \A q \in Request : row[q].status = "queued" => row'[q].status = "queued"
  PROVE  QueueInv'
<1>1. \A i \in 1 .. Len(queue) : queue[i] \in Request
  BY ElementOfSeq
<1> QED
  BY <1>1 DEF QueueInv, QueueOf

-----------------------------------------------------------------------------
(* What the actions write into the rows *)

\* Only the row r is written, and keeps its reason.
Writes(r, status, months, done) ==
  /\ row' \in Rows
  /\ row'[r].status = status /\ row'[r].months = months /\ row'[r].done = done
  /\ row'[r].reason = row[r].reason
  /\ \A q \in Request : q # r => row'[q] = row[q]

\* A row of the table is a row.
LEMMA RowIn == ASSUME row \in Rows, NEW r \in Request PROVE row[r] \in RequestRow
BY DEF Rows

\* One row is replaced by another with the same reason.
LEMMA WritesRow ==
  ASSUME row \in Rows, NEW r \in Request, NEW x \in RequestRow, row' = [row EXCEPT ![r] = x],
         x.reason = row[r].reason
  PROVE  Writes(r, x.status, x.months, x.done)
BY DEF Rows, Writes

\* A new row is one nobody has in hand, and not queued before.
LEMMA CreatesRow ==
  ASSUME RunInv, NEW p, NEW ms \in SUBSET Month, NEW why, CreateRow(p, ms, why)
  PROVE  /\ NewRow \in Request
         /\ row[NewRow].status \notin {"queued", "running"}
         /\ \A w \in Worker : head[w] # NewRow /\ NewRow \notin absorbed[w]
         /\ row'[NewRow].status = "queued" /\ row'[NewRow].months = ms
         /\ \A q \in Request : q # NewRow => row'[q] = row[q]
         /\ QueueInv'
<1>1. NewRow \in Request /\ Unused(NewRow)
  BY NewRowUnused DEF CreateRow
<1>2. /\ row[NewRow].status \notin {"queued", "running"}
      /\ \A w \in Worker : head[w] # NewRow /\ NewRow \notin absorbed[w]
  BY <1>1 DEF Unused
<1>3. /\ row'[NewRow].status = "queued" /\ row'[NewRow].months = ms
      /\ \A q \in Request : q # NewRow => row'[q] = row[q]
  BY <1>1 DEF CreateRow, RunInv, Inv, TypeOK
<1>4. queue \in Seq(Request) /\ Len(queue) \in Nat /\ \A i \in 1 .. Len(queue) : queue[i] \in Request
  BY LenProperties, ElementOfSeq DEF RunInv, Inv, TypeOK
<1>5. /\ Len(queue') = Len(queue) + 1
      /\ \A i \in 1 .. Len(queue) : queue'[i] = queue[i]
      /\ queue'[Len(queue) + 1] = NewRow
  BY <1>1, <1>4, AppendProperties DEF CreateRow
<1>6. \A i \in 1 .. Len(queue) : queue[i] # NewRow /\ row'[queue[i]].status = "queued"
  BY <1>2, <1>3, <1>4 DEF RunInv, QueueInv, QueueOf
<1>7. \A i \in 1 .. Len(queue') : i \in 1 .. Len(queue) \/ i = Len(queue) + 1
  BY <1>4, <1>5
<1>8. \A i \in 1 .. Len(queue') : row'[queue'[i]].status = "queued"
  BY <1>3, <1>5, <1>6, <1>7
<1>9. \A i, j \in 1 .. Len(queue') : queue'[i] = queue'[j] => i = j
  <2>1. \A i, j \in 1 .. Len(queue) : queue[i] = queue[j] => i = j
    BY DEF RunInv, QueueInv, QueueOf
  <2> QED
    BY <1>5, <1>6, <1>7, <2>1
<1> QED
  BY <1>1, <1>2, <1>3, <1>8, <1>9 DEF QueueInv, QueueOf

-----------------------------------------------------------------------------
(* Who has what in hand *)

Kept == HandInv /\ QueueInv /\ LateInv /\ AskedInv

\* What a worker has is what it had.
SameHand(w) ==
  pc'[w] = pc[w] /\ head'[w] = head[w] /\ absorbed'[w] = absorbed[w] /\ todo'[w] = todo[w]

\* Site Health may fail a row that is running; otherwise the row stands.
RowStands(r) ==
  /\ row'[r].months = row[r].months /\ row'[r].done = row[r].done
  /\ row'[r].status = row[r].status \/ (row[r].status = "running" /\ row'[r].status = "failed")

\* The worker inside the drain loop is alone in it.
LEMMA Alone ==
  ASSUME RunInv, NEW w \in Worker, pc[w] \in Locked
  PROVE  \A v \in Worker : v # w => pc[v] \notin Locked /\ pc[v] \notin InHand
BY DEF RunInv, OneAtATime, InHand

\* What is in hand is a row.
LEMMA HeadIsRow ==
  ASSUME RunInv, NEW w \in Worker, pc[w] \in InHand
  PROVE  head[w] \in Request /\ row[head[w]] \in RequestRow
BY DEF RunInv, Inv, TypeOK, HeadInv

\* What one worker has in hand stands while nobody writes it.
LEMMA HandStands ==
  ASSUME RunInv, NEW w \in Worker,
         head'[w] = head[w], absorbed'[w] = absorbed[w], todo'[w] = todo[w],
         pc'[w] = pc[w] \/ (pc[w] \notin InHand /\ pc'[w] \notin InHand),
         \A r \in Request : r = head[w] \/ r \in absorbed[w] => RowStands(r)
  PROVE  HandOf(w)'
<1>1. HandOf(w)
  BY DEF RunInv, HandInv
<1>2. CASE pc[w] \notin InHand
  <2>1. pc'[w] \notin InHand
    BY <1>2
  <2>2. /\ pc[w] \notin {"absorb", "start", "check", "month", "commit", "count", "health", "mirror"}
        /\ pc'[w] \notin {"absorb", "start", "check", "month", "commit", "count", "health", "mirror"}
    BY <1>2, <2>1 DEF InHand, Locked
  <2>3. head[w] = NoRequest /\ absorbed[w] = {} /\ todo[w] = {}
    BY <1>1, <1>2, <2>2 DEF HandOf
  <2> QED
    BY <2>1, <2>2, <2>3 DEF HandOf
<1>3. CASE pc[w] \in InHand
  <2>1. head[w] \in Request /\ absorbed[w] \subseteq Request
    BY <1>3, HeadIsRow DEF RunInv, Inv, TypeOK
  <2>2. pc'[w] = pc[w] /\ RowStands(head[w]) /\ \A r \in absorbed[w] : RowStands(r)
    BY <1>3, <2>1
  <2>3. /\ row'[head[w]].months = row[head[w]].months /\ row'[head[w]].done = row[head[w]].done
        /\ row[head[w]].status = "queued" => row'[head[w]].status = "queued"
        /\ row[head[w]].status \in {"running", "failed"} => row'[head[w]].status \in {"running", "failed"}
        /\ row[head[w]].status \in {"succeeded", "failed"} => row'[head[w]].status \in {"succeeded", "failed"}
        /\ \A r \in absorbed[w] : /\ row'[r].months = row[r].months
                                  /\ row[r].status # "queued" => row'[r].status # "queued"
    BY <2>2 DEF RowStands
  <2> QED
    BY <1>1, <2>2, <2>3 DEF HandOf
<1> QED
  BY <1>2, <1>3

\* A step of the worker that is in the drain loop concerns its own hands alone.
LEMMA HandsOfOthers ==
  ASSUME RunInv, NEW w \in Worker, pc[w] \in Locked, HandOf(w)',
         \A v \in Worker : v # w => SameHand(v)
  PROVE  HandInv'
<1> SUFFICES ASSUME NEW v \in Worker, v # w PROVE HandOf(v)'
  BY DEF HandInv
<1>1. HandOf(v) /\ pc[v] \notin Locked /\ pc[v] \notin InHand
  BY Alone DEF RunInv, HandInv
<1>2. pc'[v] \notin {"absorb", "start", "check", "month", "commit", "count", "health", "mirror"}
  BY <1>1 DEF SameHand, Locked
<1>3. head[v] = NoRequest /\ absorbed[v] = {} /\ todo[v] = {}
  BY <1>1, <1>2 DEF HandOf, SameHand
<1> QED
  BY <1>1, <1>2, <1>3 DEF HandOf, SameHand

\* What is asked of the worker functions after a step of one worker.
LEMMA OneWorker ==
  ASSUME TypeOK, NEW w \in Worker, NEW p, pc' = [pc EXCEPT ![w] = p]
  PROVE  pc'[w] = p /\ \A v \in Worker : v # w => pc'[v] = pc[v]
BY DEF TypeOK

-----------------------------------------------------------------------------
(* The steps of people, of the clock and of workers outside the drain loop *)

\* A step that creates no row and touches no hand.
LEMMA NobodyKeeps ==
  ASSUME RunInv, UNCHANGED <<row, queue, head, absorbed, todo, late>>,
         \A w \in Worker : pc'[w] = pc[w] \/ (pc[w] \notin InHand /\ pc'[w] \notin InHand),
         AskedInv'
  PROVE  Kept'
<1>1. HandInv'
  BY HandStands DEF RowStands, HandInv
<1>2. QueueInv' /\ LateInv'
  BY DEF RunInv, QueueInv, QueueOf, LateInv
<1> QED
  BY <1>1, <1>2 DEF Kept

\* A step that creates a row.
LEMMA CreateKeeps ==
  ASSUME RunInv, NEW p, NEW ms \in SUBSET Month, NEW why, CreateRow(p, ms, why),
         UNCHANGED <<head, absorbed, todo, late>>,
         \A w \in Worker : pc'[w] = pc[w] \/ (pc[w] \notin InHand /\ pc'[w] \notin InHand),
         AskedInv'
  PROVE  Kept'
<1>1. /\ row[NewRow].status \notin {"queued", "running"}
      /\ \A w \in Worker : head[w] # NewRow /\ NewRow \notin absorbed[w]
      /\ \A q \in Request : q # NewRow => row'[q] = row[q]
      /\ QueueInv'
  BY CreatesRow
<1>2. HandInv'
  BY <1>1, HandStands DEF RowStands, HandInv
<1>3. LateInv'
  BY <1>1 DEF RunInv, Inv, TypeOK, LateInv
<1> QED
  BY <1>1, <1>2, <1>3 DEF Kept

\* What Site Health writes.
LEMMA FailsLate ==
  ASSUME RunInv, FailLateRuns
  PROVE  /\ row' \in Rows
         /\ \A r \in Request : RowStands(r) /\ row'[r].reason = row[r].reason
         /\ \A r \in Request : row[r].status # "running" => row'[r].status = row[r].status
         /\ \A r \in Request : row'[r].status = "succeeded" => row[r].status = "succeeded"
<1>1. row' \in Rows
  BY FailLateType DEF RunInv, Inv, TypeOK, Rows
<1>2. \A r \in Request : row[r] \in RequestRow
  BY DEF RunInv, Inv, TypeOK
<1> QED
  BY <1>1, <1>2 DEF FailLateRuns, RunInv, LateInv, RowStands, RequestRow

\* A saved record owes its months to its web request.
LEMMA SaveRecordKeeps ==
  ASSUME RunInv, NEW u \in User, NEW ms \in SUBSET Month, NEW why \in Reason \cup {Plain},
         SaveRecord(u, ms, why)
  PROVE  Kept'
<1>1. web' = [web EXCEPT ![u] = [Idle EXCEPT !.pc = "saved", !.months = ms, !.reason = why]]
  BY DEF SaveRecord
<1>2. AskedInv'
  BY <1>1 DEF RunInv, Inv, TypeOK, AskedInv, Idle
<1> QED
  BY <1>2, NobodyKeeps DEF SaveRecord

\* The button owes no months.
LEMMA PressKeeps == ASSUME RunInv, NEW u \in User, NEW p \in Period, Press(u, p) PROVE Kept'
<1>1. AskedInv'
  BY DEF Press, RunInv, Inv, TypeOK, AskedInv, Idle
<1> QED
  BY <1>1, NobodyKeeps DEF Press, workerVars

\* The months that are kept are created next.
LEMMA RequestMonthsKeeps == ASSUME RunInv, NEW u \in User, RequestMonths(u) PROVE Kept'
<1> DEFINE kept == {m \in web[u].months : web[u].reason # Plain \/ ~FinalizedMonth(m)}
           x == IF kept = {} THEN Idle ELSE [web[u] EXCEPT !.pc = "create", !.months = kept]
<1>1. web' = [web EXCEPT ![u] = x]
  BY DEF RequestMonths
<1>2. web[u] \in WebRequest
  BY DEF RunInv, Inv, TypeOK
<1>3. x.months # {} => x.pc = "create"
  BY <1>2 DEF Idle, WebRequest
<1> HIDE DEF x
<1>4. AskedInv'
  BY <1>1, <1>3 DEF RunInv, Inv, TypeOK, AskedInv
<1> QED
  BY <1>4, NobodyKeeps DEF RequestMonths, workerVars

\* The months that are left are created next; when none are, workers are started.
LEMMA CreateNextKeeps == ASSUME RunInv, NEW u \in User, CreateNext(u) PROVE Kept'
<1> DEFINE first == First(web[u].months)
           group == {m \in web[u].months : PeriodOf[m] = PeriodOf[first]}
           rest == web[u].months \ group
           x == [web[u] EXCEPT !.months = rest, !.made = @ \cup {NewRow},
                               !.pc = IF rest = {} THEN "launch" ELSE "create"]
<1>1. web[u] \in WebRequest /\ web \in [User -> WebRequest]
  BY DEF RunInv, Inv, TypeOK
<1>2. web' = [web EXCEPT ![u] = x]
  BY <1>1 DEF CreateNext, WebRequest
<1>3. group \subseteq Month
  BY <1>1 DEF WebRequest
<1>4. x.months = rest /\ x.pc = IF rest = {} THEN "launch" ELSE "create"
  BY <1>1 DEF WebRequest
<1>5. CreateRow(PeriodOf[first], group, web[u].reason)
  BY DEF CreateNext
<1> HIDE DEF x, rest, group
<1>6. AskedInv'
  BY <1>1, <1>2, <1>4 DEF RunInv, AskedInv
<1> QED
  BY <1>3, <1>5, <1>6, CreateKeeps DEF CreateNext, workerVars

\* The button's row.
LEMMA PressCreateKeeps == ASSUME RunInv, NEW u \in User, PressCreate(u) PROVE Kept'
<1>1. MonthsOf(web[u].period) \subseteq Month
  BY DEF MonthsOf
<1>2. AskedInv'
  BY DEF PressCreate, RunInv, Inv, TypeOK, AskedInv, Idle
<1> QED
  BY <1>1, <1>2, CreateKeeps DEF PressCreate, workerVars

\* A worker that is started has nothing in hand.
LEMMA LaunchKeeps == ASSUME RunInv, NEW u \in User, NEW w \in Worker, Launch(u, w) PROVE Kept'
<1>1. \A v \in Worker : pc'[v] = pc[v] \/ (pc[v] \notin InHand /\ pc'[v] \notin InHand)
  BY OneWorker DEF Launch, InHand, Locked, RunInv, Inv
<1>2. AskedInv'
  <2>1. web[u] \in WebRequest /\ web[u].pc = "launch" /\ web[u].months = {}
    BY DEF Launch, RunInv, Inv, TypeOK, AskedInv
  <2>2. PICK r \in web[u].made :
          web' = [web EXCEPT ![u] = IF web[u].made = {r} THEN Idle
                                    ELSE [web[u] EXCEPT !.made = web[u].made \ {r}]]
    BY DEF Launch
  <2> DEFINE x == IF web[u].made = {r} THEN Idle ELSE [web[u] EXCEPT !.made = web[u].made \ {r}]
  <2>3. x.months = {}
    BY <2>1 DEF Idle, WebRequest
  <2> HIDE DEF x
  <2> QED
    BY <2>2, <2>3 DEF x, RunInv, Inv, TypeOK, AskedInv
<1> QED
  BY <1>1, <1>2, NobodyKeeps DEF Launch

\* A web request that dies owes nothing more.
LEMMA WebDiesKeeps == ASSUME RunInv, NEW u \in User, WebDies(u) PROVE Kept'
<1>1. AskedInv'
  BY DEF WebDies, RunInv, Inv, TypeOK, AskedInv, Idle
<1> QED
  BY <1>1, NobodyKeeps DEF WebDies, workerVars

\* A worker that is started, waits for the lock, takes it, finds nothing, lets it go.
LEMMA OutsideKeeps ==
  ASSUME RunInv, NEW w \in Worker,
         \/ Nightly(w) \/ NightlyRun(w) \/ TryLock(w) \/ Unlock(w) \/ Look(w) \/ EmptyQueue(w)
  PROVE  Kept'
<1>1. pc[w] \notin InHand /\ pc'[w] \notin InHand /\ \A v \in Worker : v # w => pc'[v] = pc[v]
  BY DEF Nightly, NightlyRun, TryLock, Unlock, Look, EmptyQueue, InHand, Locked, RunInv, Inv, TypeOK
<1>2. AskedInv'
  BY DEF Nightly, NightlyRun, TryLock, Unlock, Look, EmptyQueue, RunInv, AskedInv
<1>3. UNCHANGED <<row, queue, head, absorbed, todo, late>>
  BY DEF Nightly, NightlyRun, TryLock, Unlock, Look, EmptyQueue
<1> QED
  BY <1>1, <1>2, <1>3, NobodyKeeps

\* The nightly schedule's rows.
LEMMA NightlyCreateKeeps == ASSUME RunInv, NEW w \in Worker, NightlyCreate(w) PROVE Kept'
<1>1. \A p \in Period : MonthsOf(p) \subseteq Month
  BY DEF MonthsOf
<1>2. AskedInv'
  BY DEF NightlyCreate, RunInv, AskedInv
<1>3. PICK p \in wanted[w] : CreateRow(p, MonthsOf(p), Plain)
  BY DEF NightlyCreate
<1>4. p \in Period
  BY DEF RunInv, Inv, TypeOK
<1> QED
  BY <1>1, <1>2, <1>3, <1>4, CreateKeeps DEF NightlyCreate

\* The row of a command.
LEMMA CommandKeeps == ASSUME RunInv, NEW w \in Worker, NEW ms \in SUBSET Month, Command(w, ms) PROVE Kept'
<1>1. \A v \in Worker : pc'[v] = pc[v] \/ (pc[v] \notin InHand /\ pc'[v] \notin InHand)
  BY OneWorker DEF Command, InHand, Locked, RunInv, Inv
<1>2. AskedInv'
  BY DEF Command, RunInv, AskedInv
<1> QED
  BY <1>1, <1>2, CreateKeeps DEF Command

\* What the site does besides.
LEMMA SiteKeeps ==
  ASSUME RunInv,
         \/ \E p \in Period : ToggleFinalized(p)
         \/ \E m \in Month : DataArrives(m)
         \/ UNCHANGED vars
  PROVE  Kept'
<1>1. UNCHANGED <<row, queue, head, absorbed, todo, late, pc, web>>
  BY DEF ToggleFinalized, DataArrives, vars, workerVars
<1>2. AskedInv'
  BY <1>1 DEF RunInv, AskedInv
<1> QED
  BY <1>1, <1>2, NobodyKeeps

\* Only a running row grows late.
LEMMA TwoHoursPassKeeps == ASSUME RunInv, NEW r \in Request, TwoHoursPass(r) PROVE Kept'
<1>1. HandInv'
  BY HandStands DEF TwoHoursPass, workerVars, RowStands, HandInv
<1>2. QueueInv' /\ LateInv' /\ AskedInv'
  BY DEF TwoHoursPass, RunInv, QueueInv, QueueOf, LateInv, AskedInv
<1> QED
  BY <1>1, <1>2 DEF Kept

\* Site Health on its own schedule.
LEMMA HealthCheckKeeps == ASSUME RunInv, HealthCheck PROVE Kept'
<1>1. HandInv'
  BY FailsLate, HandStands DEF HealthCheck, workerVars, HandInv
<1>2. QueueInv'
  BY FailsLate, QueueStands DEF HealthCheck, RunInv, Inv, TypeOK
<1>3. LateInv' /\ AskedInv'
  BY DEF HealthCheck, FailLateRuns, RunInv, LateInv, AskedInv
<1> QED
  BY <1>1, <1>2, <1>3 DEF Kept

\* A worker that dies has nothing in hand.
LEMMA WorkerDiesKeeps == ASSUME RunInv, NEW w \in Worker, WorkerDies(w) PROVE Kept'
<1>1. /\ pc'[w] = "off" /\ head'[w] = NoRequest /\ absorbed'[w] = {} /\ todo'[w] = {}
      /\ \A v \in Worker : v # w => SameHand(v)
  BY DEF WorkerDies, RunInv, Inv, TypeOK, SameHand
<1>2. row' = row
  BY DEF WorkerDies
<1>3. HandOf(w)'
  BY <1>1 DEF HandOf, InHand, Locked
<1>4. \A v \in Worker : v # w => HandOf(v)'
  BY <1>1, <1>2, HandStands DEF SameHand, RowStands
<1>5. QueueInv' /\ LateInv' /\ AskedInv'
  BY DEF WorkerDies, RunInv, QueueInv, QueueOf, LateInv, AskedInv
<1> QED
  BY <1>3, <1>4, <1>5 DEF Kept, HandInv

-----------------------------------------------------------------------------
(* The steps of the worker in the drain loop *)

\* The months are finitely many, and so counted.
LEMMA MonthsCounted ==
  ASSUME NEW S \in SUBSET Month
  PROVE  /\ IsFiniteSet(S) /\ Cardinality(S) \in Nat
         /\ Cardinality(S) = 0 <=> S = {}
         /\ \A m \in S : Cardinality(S \ {m}) = Cardinality(S) - 1
<1>1. IsFiniteSet(Month)
  BY FS_Interval, NMonthsAssumption DEF Month
<1>2. IsFiniteSet(S)
  BY <1>1, FS_Subset
<1> QED
  BY <1>2, FS_CardinalityType, FS_EmptySet, FS_RemoveElement

\* The oldest request is queued until all it folds are marked.
LEMMA TakeHeadWrites ==
  ASSUME RunInv, NEW w \in Worker, TakeHead(w)
  PROVE  /\ Head(queue) \in Request /\ row[Head(queue)].status = "queued"
         /\ Writes(Head(queue), "queued", MonthsOfRows(Folded(Head(queue)) \cup {Head(queue)}),
                   row[Head(queue)].done)
         /\ head'[w] = Head(queue) /\ absorbed'[w] = Folded(Head(queue))
         /\ pc'[w] = IF Folded(Head(queue)) = {} THEN "start" ELSE "absorb"
         /\ todo'[w] = {}
         /\ \A v \in Worker : v # w => SameHand(v)
<1> DEFINE h == Head(queue)
           ms == MonthsOfRows(Folded(h) \cup {h})
           x == [row[h] EXCEPT !.months = ms]
<1>1. queue \in Seq(Request) /\ queue # <<>> /\ row \in Rows
  BY DEF TakeHead, RunInv, Inv, TypeOK, Rows
<1>2. h \in Request /\ 1 \in 1 .. Len(queue) /\ h = queue[1]
  BY <1>1, HeadTailProperties, LenProperties, EmptySeq
<1>3. row[h].status = "queued" /\ row[h] \in RequestRow
  BY <1>1, <1>2, RowIn DEF RunInv, QueueInv, QueueOf
<1>4. Folded(h) \subseteq Request
  BY FoldedCandidates DEF Candidates
<1>5. ms \in SUBSET Month
  BY <1>1, <1>2, <1>4, RowIn DEF MonthsOfRows, RequestRow
<1>6. x \in RequestRow /\ x.status = "queued" /\ x.months = ms /\ x.done = row[h].done /\ x.reason = row[h].reason
  BY <1>3, <1>5 DEF RequestRow
<1>7. row' = [row EXCEPT ![h] = x]
  BY DEF TakeHead
<1> HIDE DEF x, ms
<1>8. Writes(h, "queued", ms, row[h].done)
  BY <1>1, <1>2, <1>6, <1>7, WritesRow
<1>9. pc[w] = "drain" /\ HandOf(w)
  BY DEF TakeHead, RunInv, HandInv
<1>10. /\ head'[w] = h /\ absorbed'[w] = Folded(h) /\ todo'[w] = todo[w]
       /\ pc'[w] = IF Folded(h) = {} THEN "start" ELSE "absorb"
       /\ \A v \in Worker : v # w => SameHand(v)
  BY DEF TakeHead, RunInv, Inv, TypeOK, SameHand
<1> QED
  BY <1>2, <1>3, <1>8, <1>9, <1>10 DEF ms, HandOf

\* The request taken, and those it folds, are in hand.
LEMMA TakeHeadKeeps == ASSUME RunInv, NEW w \in Worker, TakeHead(w) PROVE Kept'
<1> DEFINE h == Head(queue)
           F == Folded(h)
<1>1. /\ h \in Request /\ row[h].status = "queued"
      /\ Writes(h, "queued", MonthsOfRows(F \cup {h}), row[h].done)
      /\ head'[w] = h /\ absorbed'[w] = F /\ pc'[w] = IF F = {} THEN "start" ELSE "absorb"
      /\ todo'[w] = {}
      /\ \A v \in Worker : v # w => SameHand(v)
  BY TakeHeadWrites
<1>2. F \subseteq Request /\ h \notin F
  BY FoldedCandidates DEF Candidates
<1> HIDE DEF h, F
<1>3. \A r \in F : row[r].months \subseteq MonthsOfRows(F \cup {h})
  BY DEF MonthsOfRows
<1>4. \A r \in F : row'[r].months \subseteq row'[h].months
  BY <1>1, <1>2, <1>3 DEF Writes
<1>5. HandOf(w)'
  BY <1>1, <1>2, <1>4 DEF HandOf, Writes, InHand, Locked
<1>6. HandInv'
  BY <1>1, <1>5, HandsOfOthers DEF TakeHead, Locked
<1>7. \A q \in Request : row'[q].status = row[q].status
  BY <1>1 DEF Writes
<1>8. QueueInv'
  BY <1>7, QueueStands DEF TakeHead, RunInv, Inv, TypeOK
<1>9. LateInv' /\ AskedInv'
  BY <1>7 DEF TakeHead, RunInv, Inv, TypeOK, LateInv, AskedInv
<1> QED
  BY <1>6, <1>8, <1>9 DEF Kept

\* A folded request is marked running.
LEMMA AbsorbWrites ==
  ASSUME RunInv, NEW w \in Worker, Absorb(w)
  PROVE  \E r \in absorbed[w] :
           /\ r \in Request /\ row[r].status = "queued"
           /\ Writes(r, "running", row[r].months, row[r].done)
           /\ queue' = Without(queue, r)
           /\ \/ pc'[w] = "absorb"
              \/ pc'[w] = "start" /\ {q \in absorbed[w] : row[q].status = "queued"} = {r}
           /\ head'[w] = head[w] /\ absorbed'[w] = absorbed[w] /\ todo'[w] = todo[w]
           /\ \A v \in Worker : v # w => SameHand(v)
<1> DEFINE left == {q \in absorbed[w] : row[q].status = "queued"}
<1>1. PICK r \in left :
        /\ row' = [row EXCEPT ![r].status = "running"]
        /\ queue' = Without(queue, r)
        /\ pc' = [pc EXCEPT ![w] = IF left = {r} THEN "start" ELSE "absorb"]
  BY DEF Absorb
<1>2. r \in absorbed[w] /\ r \in Request /\ row[r].status = "queued" /\ row \in Rows
  BY DEF RunInv, Inv, TypeOK, Rows
<1> DEFINE x == [row[r] EXCEPT !.status = "running"]
<1>3. /\ x \in RequestRow /\ x.status = "running" /\ x.months = row[r].months
      /\ x.done = row[r].done /\ x.reason = row[r].reason
  BY <1>2, RowIn DEF RequestRow, Status
<1>4. row' = [row EXCEPT ![r] = x]
  BY <1>1
<1> HIDE DEF x, left
<1>5. Writes(r, "running", row[r].months, row[r].done)
  BY <1>2, <1>3, <1>4, WritesRow
<1>6. /\ pc'[w] = IF left = {r} THEN "start" ELSE "absorb"
      /\ head'[w] = head[w] /\ absorbed'[w] = absorbed[w] /\ todo'[w] = todo[w]
      /\ \A v \in Worker : v # w => SameHand(v)
  BY <1>1 DEF Absorb, RunInv, Inv, TypeOK, SameHand
<1> QED
  BY <1>1, <1>2, <1>5, <1>6 DEF left

\* Once the last one is marked, none of the folded is queued.
LEMMA AbsorbKeeps == ASSUME RunInv, NEW w \in Worker, Absorb(w) PROVE Kept'
<1>1. PICK r \in absorbed[w] :
        /\ r \in Request /\ row[r].status = "queued"
        /\ Writes(r, "running", row[r].months, row[r].done)
        /\ queue' = Without(queue, r)
        /\ \/ pc'[w] = "absorb"
           \/ pc'[w] = "start" /\ {q \in absorbed[w] : row[q].status = "queued"} = {r}
        /\ head'[w] = head[w] /\ absorbed'[w] = absorbed[w] /\ todo'[w] = todo[w]
        /\ \A v \in Worker : v # w => SameHand(v)
  BY AbsorbWrites
<1>2. /\ pc[w] = "absorb" /\ HandOf(w) /\ head[w] \in Request /\ absorbed[w] \subseteq Request
      /\ head[w] \notin absorbed[w]
  BY HeadIsRow DEF Absorb, RunInv, Inv, TypeOK, HandInv, HandOf, InHand, Locked
<1>3. /\ row'[head[w]] = row[head[w]]
      /\ \A q \in absorbed[w] : row'[q].months = row[q].months
      /\ \A q \in absorbed[w] : q # r => row'[q].status = row[q].status
      /\ row'[r].status = "running"
  BY <1>1, <1>2 DEF Writes
<1>4. pc'[w] = "start" => \A q \in absorbed[w] : row'[q].status # "queued"
  BY <1>1, <1>3
<1>5. HandOf(w)'
  BY <1>1, <1>2, <1>3, <1>4 DEF HandOf, InHand, Locked
<1>6. HandInv'
  BY <1>1, <1>2, <1>5, HandsOfOthers DEF Locked
<1>7. QueueInv'
  BY <1>1, QueueLoses DEF RunInv, Inv, TypeOK, Writes
<1>8. LateInv' /\ AskedInv'
  BY <1>1 DEF Absorb, RunInv, Inv, TypeOK, LateInv, AskedInv, Writes
<1> QED
  BY <1>6, <1>7, <1>8 DEF Kept

\* The request itself is marked running, with nothing counted.
LEMMA StartWrites ==
  ASSUME RunInv, NEW w \in Worker, Start(w)
  PROVE  /\ head[w] \in Request /\ Writes(head[w], "running", row[head[w]].months, 0)
         /\ pc'[w] = "check"
         /\ head'[w] = head[w] /\ absorbed'[w] = absorbed[w] /\ todo'[w] = todo[w]
         /\ \A v \in Worker : v # w => SameHand(v)
<1>1. head[w] \in Request /\ row[head[w]] \in RequestRow /\ row \in Rows
  BY HeadIsRow DEF Start, InHand, Locked, RunInv, Inv, TypeOK, Rows
<1> DEFINE x == [row[head[w]] EXCEPT !.status = "running", !.done = 0]
<1>2. /\ x \in RequestRow /\ x.status = "running" /\ x.months = row[head[w]].months
      /\ x.done = 0 /\ x.reason = row[head[w]].reason
  BY <1>1 DEF RequestRow, Status
<1>3. row' = [row EXCEPT ![head[w]] = x]
  BY <1>1 DEF Start, Rows
<1> HIDE DEF x
<1>4. Writes(head[w], "running", row[head[w]].months, 0)
  BY <1>1, <1>2, <1>3, WritesRow
<1> QED
  BY <1>1, <1>4 DEF Start, RunInv, Inv, TypeOK, SameHand

\* The run begins with nothing counted.
LEMMA StartKeeps == ASSUME RunInv, NEW w \in Worker, Start(w) PROVE Kept'
<1>1. /\ head[w] \in Request /\ Writes(head[w], "running", row[head[w]].months, 0)
      /\ pc'[w] = "check"
      /\ head'[w] = head[w] /\ absorbed'[w] = absorbed[w] /\ todo'[w] = todo[w]
      /\ \A v \in Worker : v # w => SameHand(v)
  BY StartWrites
<1>2. pc[w] = "start" /\ HandOf(w) /\ absorbed[w] \subseteq Request /\ queue' = Without(queue, head[w])
  BY DEF Start, RunInv, Inv, TypeOK, HandInv
<1>3. \A q \in absorbed[w] : row'[q].status # "queued"
  BY <1>1, <1>2 DEF Writes, HandOf
<1>4. HandOf(w)'
  BY <1>1, <1>2, <1>3 DEF HandOf, Writes, InHand, Locked
<1>5. HandInv'
  BY <1>1, <1>2, <1>4, HandsOfOthers DEF Locked
<1>6. QueueInv'
  BY <1>1, <1>2, QueueLoses DEF RunInv, Inv, TypeOK, Writes
<1>7. LateInv' /\ AskedInv'
  BY <1>1 DEF Start, RunInv, Inv, TypeOK, LateInv, AskedInv, Writes
<1> QED
  BY <1>5, <1>6, <1>7 DEF Kept

\* A run's end, good or bad, is written to a row that is not queued.
LEMMA EndKeeps ==
  ASSUME RunInv, NEW w \in Worker, pc[w] \in {"check", "month", "commit"},
         NEW status \in {"failed", "succeeded"},
         Writes(head[w], status, row[head[w]].months, row[head[w]].done),
         late' = late \ {head[w]}, pc'[w] = "health", todo'[w] = {},
         head'[w] = head[w], absorbed'[w] = absorbed[w],
         \A v \in Worker : v # w => SameHand(v),
         UNCHANGED <<queue, web>>
  PROVE  Kept'
<1>1. HandOf(w) /\ absorbed[w] \subseteq Request /\ head[w] \in Request
  BY HeadIsRow DEF RunInv, Inv, TypeOK, HandInv, InHand, Locked
<1>2. row[head[w]].status # "queued" /\ \A r \in absorbed[w] : row[r].status # "queued"
  BY <1>1 DEF HandOf
<1>3. \A r \in absorbed[w] : row'[r].status # "queued"
  BY <1>1, <1>2 DEF Writes
<1>4. HandOf(w)'
  BY <1>3 DEF HandOf, Writes, InHand, Locked
<1>5. HandInv'
  BY <1>4, HandsOfOthers DEF Locked
<1>6. QueueInv'
  BY <1>1, <1>2, QueueStands DEF RunInv, Inv, TypeOK, Writes
<1>7. LateInv' /\ AskedInv'
  BY <1>1 DEF RunInv, Inv, TypeOK, LateInv, AskedInv, Writes
<1> QED
  BY <1>5, <1>6, <1>7 DEF Kept

\* A run that stops is written failed.
LEMMA StopWrites ==
  ASSUME RunInv, NEW w \in Worker, pc[w] \in {"check", "month", "commit"}, NEW undone, Stop(w, undone)
  PROVE  /\ head[w] \in Request
         /\ Writes(head[w], "failed", row[head[w]].months, row[head[w]].done)
<1>1. head[w] \in Request /\ row[head[w]] \in RequestRow /\ row \in Rows
  BY HeadIsRow DEF InHand, Locked, RunInv, Inv, TypeOK, Rows
<1> DEFINE x == [row[head[w]] EXCEPT !.status = "failed"]
<1>2. /\ x \in RequestRow /\ x.status = "failed" /\ x.months = row[head[w]].months
      /\ x.done = row[head[w]].done /\ x.reason = row[head[w]].reason
  BY <1>1 DEF RequestRow, Status
<1>3. row' = [row EXCEPT ![head[w]] = x]
  BY <1>1 DEF Stop
<1> HIDE DEF x
<1> QED
  BY <1>1, <1>2, <1>3, WritesRow

\* A refused, rejected or failed run has its end.
LEMMA StopKeeps ==
  ASSUME RunInv, NEW w \in Worker, Refuse(w) \/ RejectMonth(w) \/ Fail(w)
  PROVE  Kept'
<1>1. PICK undone : Stop(w, undone)
  BY DEF Refuse, RejectMonth, Fail
<1>2. pc[w] \in {"check", "month", "commit"}
  BY DEF Refuse, RejectMonth, Fail
<1>3. Writes(head[w], "failed", row[head[w]].months, row[head[w]].done)
  BY <1>1, <1>2, StopWrites
<1>4. /\ late' = late \ {head[w]} /\ pc'[w] = "health" /\ todo'[w] = {}
      /\ head'[w] = head[w] /\ absorbed'[w] = absorbed[w]
      /\ \A v \in Worker : v # w => SameHand(v)
      /\ UNCHANGED <<queue, web>>
  BY <1>1 DEF Stop, RunInv, Inv, TypeOK, SameHand
<1> QED
  BY <1>2, <1>3, <1>4, EndKeeps

\* A run that ends well is written so.
LEMMA FinishWrites ==
  ASSUME RunInv, NEW w \in Worker, Finish(w)
  PROVE  /\ head[w] \in Request
         /\ Writes(head[w], "succeeded", row[head[w]].months, row[head[w]].done)
<1>1. head[w] \in Request /\ row[head[w]] \in RequestRow /\ row \in Rows
  BY HeadIsRow DEF Finish, InHand, Locked, RunInv, Inv, TypeOK, Rows
<1> DEFINE x == [row[head[w]] EXCEPT !.status = "succeeded"]
<1>2. /\ x \in RequestRow /\ x.status = "succeeded" /\ x.months = row[head[w]].months
      /\ x.done = row[head[w]].done /\ x.reason = row[head[w]].reason
  BY <1>1 DEF RequestRow, Status
<1>3. row' = [row EXCEPT ![head[w]] = x]
  BY <1>1 DEF Finish
<1> HIDE DEF x
<1> QED
  BY <1>1, <1>2, <1>3, WritesRow

\* A finished run has its end.
LEMMA FinishKeeps == ASSUME RunInv, NEW w \in Worker, Finish(w) PROVE Kept'
<1>1. Writes(head[w], "succeeded", row[head[w]].months, row[head[w]].done)
  BY FinishWrites
<1>2. /\ late' = late \ {head[w]} /\ pc[w] = "month" /\ pc'[w] = "health" /\ todo'[w] = {}
      /\ head'[w] = head[w] /\ absorbed'[w] = absorbed[w]
      /\ \A v \in Worker : v # w => SameHand(v)
      /\ UNCHANGED <<queue, web>>
  BY DEF Finish, RunInv, Inv, TypeOK, SameHand
<1> QED
  BY <1>1, <1>2, EndKeeps

\* The months that are run are saved.
LEMMA TrimWrites ==
  ASSUME RunInv, NEW w \in Worker, Trim(w)
  PROVE  /\ head[w] \in Request /\ MonthsToRun(row[head[w]].months) \in SUBSET Month
         /\ Writes(head[w], row[head[w]].status, MonthsToRun(row[head[w]].months), row[head[w]].done)
<1>1. head[w] \in Request /\ row[head[w]] \in RequestRow /\ row \in Rows
  BY HeadIsRow DEF Trim, InHand, Locked, RunInv, Inv, TypeOK, Rows
<1> DEFINE ms == MonthsToRun(row[head[w]].months)
           x == [row[head[w]] EXCEPT !.months = ms]
<1>2. ms \in SUBSET Month
  BY <1>1, MonthsToRunSubset DEF RequestRow
<1>3. row' = [row EXCEPT ![head[w]] = x]
  BY <1>1 DEF Trim
<1> HIDE DEF ms
<1>4. /\ x \in RequestRow /\ x.status = row[head[w]].status /\ x.months = ms
      /\ x.done = row[head[w]].done /\ x.reason = row[head[w]].reason
  BY <1>1, <1>2 DEF RequestRow
<1> HIDE DEF x
<1>5. Writes(head[w], row[head[w]].status, ms, row[head[w]].done)
  BY <1>1, <1>3, <1>4, WritesRow
<1> QED
  BY <1>1, <1>2, <1>5 DEF ms

\* One month more is counted.
LEMMA CountMonthWrites ==
  ASSUME RunInv, NEW w \in Worker, CountMonth(w)
  PROVE  /\ head[w] \in Request
         /\ Writes(head[w], row[head[w]].status, row[head[w]].months, row[head[w]].done + 1)
<1>1. head[w] \in Request /\ row[head[w]] \in RequestRow /\ row \in Rows
  BY HeadIsRow DEF CountMonth, InHand, Locked, RunInv, Inv, TypeOK, Rows
<1> DEFINE n == row[head[w]].done + 1
           x == [row[head[w]] EXCEPT !.done = n]
<1>2. n \in Nat
  BY <1>1 DEF RequestRow
<1>3. row' = [row EXCEPT ![head[w]] = x]
  BY <1>1 DEF CountMonth
<1> HIDE DEF n
<1>4. /\ x \in RequestRow /\ x.status = row[head[w]].status /\ x.months = row[head[w]].months
      /\ x.done = n /\ x.reason = row[head[w]].reason
  BY <1>1, <1>2 DEF RequestRow
<1> HIDE DEF x
<1>5. Writes(head[w], row[head[w]].status, row[head[w]].months, n)
  BY <1>1, <1>3, <1>4, WritesRow
<1> QED
  BY <1>1, <1>5 DEF n

\* A step inside the run that leaves every status as it is.
LEMMA MonthKeeps ==
  ASSUME RunInv, NEW w \in Worker, pc[w] \in Locked, HandOf(w)',
         \A v \in Worker : v # w => SameHand(v),
         \A r \in Request : row'[r].status = row[r].status,
         UNCHANGED <<queue, late, web>>
  PROVE  Kept'
<1>1. HandInv'
  BY HandsOfOthers
<1>2. QueueInv'
  BY QueueStands DEF RunInv, Inv, TypeOK
<1>3. LateInv' /\ AskedInv'
  BY DEF RunInv, Inv, TypeOK, LateInv, AskedInv
<1> QED
  BY <1>1, <1>2, <1>3 DEF Kept

\* All the months saved are left to run, and none is counted.
LEMMA TrimKeeps == ASSUME RunInv, NEW w \in Worker, Trim(w) PROVE Kept'
<1> DEFINE ms == MonthsToRun(row[head[w]].months)
<1>1. /\ head[w] \in Request /\ ms \in SUBSET Month
      /\ Writes(head[w], row[head[w]].status, ms, row[head[w]].done)
  BY TrimWrites
<1>2. pc[w] = "check" /\ HandOf(w) /\ absorbed[w] \subseteq Request
  BY DEF Trim, RunInv, Inv, TypeOK, HandInv
<1>3. /\ pc'[w] = "month" /\ todo'[w] = ms /\ head'[w] = head[w] /\ absorbed'[w] = absorbed[w]
      /\ \A v \in Worker : v # w => SameHand(v)
  BY DEF Trim, RunInv, Inv, TypeOK, SameHand
<1> HIDE DEF ms
<1>4. \A r \in Request : row'[r].status = row[r].status
  BY <1>1 DEF Writes
<1>5. Cardinality(ms) \in Nat
  BY <1>1, MonthsCounted
<1>6. HandOf(w)'
  BY <1>1, <1>2, <1>3, <1>4, <1>5 DEF HandOf, Writes, InHand, Locked
<1> QED
  BY <1>2, <1>3, <1>4, <1>6, MonthKeeps DEF Trim, Locked

\* A month begins only if one is left.
LEMMA BeginMonthKeeps == ASSUME RunInv, NEW w \in Worker, BeginMonth(w) PROVE Kept'
<1>1. pc[w] = "month" /\ todo[w] # {} /\ HandOf(w) /\ row' = row
  BY DEF BeginMonth, RunInv, HandInv
<1>2. /\ pc'[w] = "commit" /\ todo'[w] = todo[w] /\ head'[w] = head[w] /\ absorbed'[w] = absorbed[w]
      /\ \A v \in Worker : v # w => SameHand(v)
  BY DEF BeginMonth, RunInv, Inv, TypeOK, SameHand
<1>3. HandOf(w)'
  BY <1>1, <1>2 DEF HandOf, InHand, Locked
<1> QED
  BY <1>1, <1>2, <1>3, MonthKeeps DEF BeginMonth, Locked

\* The month committed is left no more, and not counted yet.
LEMMA CommitMonthKeeps == ASSUME RunInv, NEW w \in Worker, CommitMonth(w) PROVE Kept'
<1> DEFINE m == First(todo[w])
<1>1. pc[w] = "commit" /\ todo[w] # {} /\ HandOf(w) /\ row' = row /\ todo[w] \in SUBSET Month
  BY DEF CommitMonth, RunInv, Inv, TypeOK, HandInv, HandOf
<1>2. m \in todo[w]
  BY <1>1, FirstInSet
<1>3. /\ pc'[w] = "count" /\ todo'[w] = todo[w] \ {m} /\ head'[w] = head[w] /\ absorbed'[w] = absorbed[w]
      /\ \A v \in Worker : v # w => SameHand(v)
  BY DEF CommitMonth, RunInv, Inv, TypeOK, SameHand
<1> HIDE DEF m
<1>4. Cardinality(todo[w] \ {m}) = Cardinality(todo[w]) - 1 /\ Cardinality(todo[w]) \in Nat
  BY <1>1, <1>2, MonthsCounted
<1>5. row[head[w]].done + Cardinality(todo[w]) = Cardinality(row[head[w]].months)
      /\ row[head[w]].done \in Nat
  BY <1>1, HeadIsRow DEF HandOf, InHand, Locked, RequestRow
<1>6. row'[head'[w]].done + Cardinality(todo'[w]) + 1 = Cardinality(row'[head'[w]].months)
  BY <1>1, <1>3, <1>4, <1>5
<1>7. HandOf(w)'
  BY <1>1, <1>3, <1>6 DEF HandOf, InHand, Locked
<1> QED
  BY <1>1, <1>3, <1>7, MonthKeeps DEF CommitMonth, Locked

\* It is counted.
LEMMA CountMonthKeeps == ASSUME RunInv, NEW w \in Worker, CountMonth(w) PROVE Kept'
<1>1. /\ head[w] \in Request
      /\ Writes(head[w], row[head[w]].status, row[head[w]].months, row[head[w]].done + 1)
  BY CountMonthWrites
<1>2. /\ pc[w] = "count" /\ HandOf(w) /\ absorbed[w] \subseteq Request
      /\ todo[w] \in SUBSET Month /\ row[head[w]].done \in Nat
  BY HeadIsRow DEF CountMonth, RunInv, Inv, TypeOK, HandInv, InHand, Locked, RequestRow
<1>3. /\ pc'[w] = "month" /\ todo'[w] = todo[w] /\ head'[w] = head[w] /\ absorbed'[w] = absorbed[w]
      /\ \A v \in Worker : v # w => SameHand(v)
  BY DEF CountMonth, RunInv, Inv, TypeOK, SameHand
<1>4. \A r \in Request : row'[r].status = row[r].status
  BY <1>1 DEF Writes
<1>5. row'[head'[w]].done + Cardinality(todo'[w]) = Cardinality(row'[head'[w]].months)
  <2>1. row[head[w]].done + Cardinality(todo[w]) + 1 = Cardinality(row[head[w]].months)
    BY <1>2 DEF HandOf
  <2>2. row'[head'[w]].done = row[head[w]].done + 1 /\ row'[head'[w]].months = row[head[w]].months
    BY <1>1, <1>3 DEF Writes
  <2>3. Cardinality(todo[w]) \in Nat
    BY <1>2, MonthsCounted
  <2> QED
    BY <1>2, <1>3, <2>1, <2>2, <2>3
<1>6. row'[head[w]].status \in {"running", "failed"} /\ \A r \in absorbed[w] : row'[r].status # "queued"
  BY <1>1, <1>2, <1>4 DEF HandOf
<1>7. HandOf(w)'
  BY <1>3, <1>5, <1>6 DEF HandOf, InHand, Locked
<1> QED
  BY <1>2, <1>3, <1>4, <1>7, MonthKeeps DEF CountMonth, Locked

\* Site Health at the end of a run fails no run that has ended.
LEMMA HealthKeeps == ASSUME RunInv, NEW w \in Worker, Health(w) PROVE Kept'
<1>1. /\ pc[w] = "health" /\ HandOf(w) /\ absorbed[w] \subseteq Request /\ head[w] \in Request
      /\ FailLateRuns
  BY HeadIsRow DEF Health, RunInv, Inv, TypeOK, HandInv, InHand, Locked
<1>2. /\ pc'[w] = "mirror" /\ todo'[w] = todo[w] /\ head'[w] = head[w] /\ absorbed'[w] = absorbed[w]
      /\ \A v \in Worker : v # w => SameHand(v)
  BY DEF Health, RunInv, Inv, TypeOK, SameHand
<1>3. \A r \in Request : RowStands(r)
  BY <1>1, FailsLate
<1>4. /\ row'[head[w]].status \in {"succeeded", "failed"}
      /\ \A r \in absorbed[w] : row'[r].status # "queued"
  BY <1>1, <1>3 DEF HandOf, RowStands
<1>5. HandOf(w)'
  BY <1>1, <1>2, <1>4 DEF HandOf, InHand, Locked
<1>6. HandInv'
  BY <1>1, <1>2, <1>5, HandsOfOthers DEF Locked
<1>7. QueueInv'
  BY <1>3, QueueStands DEF Health, RunInv, Inv, TypeOK, RowStands
<1>8. LateInv' /\ AskedInv'
  BY DEF Health, FailLateRuns, RunInv, LateInv, AskedInv
<1> QED
  BY <1>6, <1>7, <1>8 DEF Kept

\* A folded request is given the head's months, count and status.
LEMMA MirrorWrites ==
  ASSUME RunInv, NEW w \in Worker, Mirror(w)
  PROVE  \E r \in absorbed[w] :
           /\ r \in Request /\ head[w] \in Request
           /\ Writes(r, row[head[w]].status, row[head[w]].months, row[head[w]].done)
           /\ absorbed'[w] = absorbed[w] \ {r} /\ late' = late \ {r}
           /\ pc'[w] = "mirror" /\ todo'[w] = todo[w] /\ head'[w] = head[w]
           /\ \A v \in Worker : v # w => SameHand(v)
<1>1. PICK r \in absorbed[w] :
        /\ row' = [row EXCEPT ![r] = [row[head[w]] EXCEPT !.period = row[r].period,
                                                          !.reason = row[r].reason]]
        /\ absorbed' = [absorbed EXCEPT ![w] = @ \ {r}]
        /\ late' = late \ {r}
  BY DEF Mirror
<1>2. r \in Request /\ head[w] \in Request /\ row \in Rows
  BY HeadIsRow DEF Mirror, RunInv, Inv, TypeOK, Rows, InHand, Locked
<1> DEFINE x == [row[head[w]] EXCEPT !.period = row[r].period, !.reason = row[r].reason]
<1>3. row[r] \in RequestRow /\ row[head[w]] \in RequestRow
  BY <1>2, RowIn
<1>4. /\ x \in RequestRow /\ x.status = row[head[w]].status /\ x.months = row[head[w]].months
      /\ x.done = row[head[w]].done /\ x.reason = row[r].reason
  BY <1>3 DEF RequestRow
<1>5. row' = [row EXCEPT ![r] = x]
  BY <1>1
<1> HIDE DEF x
<1>6. Writes(r, row[head[w]].status, row[head[w]].months, row[head[w]].done)
  BY <1>2, <1>4, <1>5, WritesRow
<1> QED
  BY <1>1, <1>2, <1>6 DEF Mirror, RunInv, Inv, TypeOK, SameHand

\* A folded request is let go with an end.
LEMMA MirrorKeeps == ASSUME RunInv, NEW w \in Worker, Mirror(w) PROVE Kept'
<1>1. PICK r \in absorbed[w] :
        /\ r \in Request /\ head[w] \in Request
        /\ Writes(r, row[head[w]].status, row[head[w]].months, row[head[w]].done)
        /\ absorbed'[w] = absorbed[w] \ {r} /\ late' = late \ {r}
        /\ pc'[w] = "mirror" /\ todo'[w] = todo[w] /\ head'[w] = head[w]
        /\ \A v \in Worker : v # w => SameHand(v)
  BY MirrorWrites
<1>2. pc[w] = "mirror" /\ HandOf(w) /\ absorbed[w] \subseteq Request
  BY DEF Mirror, RunInv, Inv, TypeOK, HandInv
<1>3. /\ row[head[w]].status \in {"succeeded", "failed"} /\ row[r].status # "queued"
      /\ row'[head[w]].status = row[head[w]].status
      /\ \A q \in absorbed'[w] : row'[q].status # "queued"
  BY <1>1, <1>2 DEF HandOf, Writes
<1>4. HandOf(w)'
  BY <1>1, <1>2, <1>3 DEF HandOf, InHand, Locked
<1>5. HandInv'
  BY <1>1, <1>2, <1>4, HandsOfOthers DEF Locked
<1>6. QueueInv'
  BY <1>1, <1>3, QueueStands DEF Mirror, RunInv, Inv, TypeOK, Writes
<1>7. LateInv' /\ AskedInv'
  BY <1>1 DEF Mirror, RunInv, Inv, TypeOK, LateInv, AskedInv, Writes
<1> QED
  BY <1>5, <1>6, <1>7 DEF Kept

\* A request whose folded ones are let go is let go.
LEMMA HandledKeeps == ASSUME RunInv, NEW w \in Worker, Handled(w) PROVE Kept'
<1>1. pc[w] = "mirror" /\ absorbed[w] = {} /\ HandOf(w) /\ row' = row
  BY DEF Handled, RunInv, HandInv
<1>2. /\ pc'[w] = "drain" /\ todo'[w] = todo[w] /\ head'[w] = NoRequest /\ absorbed'[w] = absorbed[w]
      /\ \A v \in Worker : v # w => SameHand(v)
  BY DEF Handled, RunInv, Inv, TypeOK, SameHand
<1>3. HandOf(w)'
  BY <1>1, <1>2 DEF HandOf, InHand, Locked
<1> QED
  BY <1>1, <1>2, <1>3, MonthKeeps DEF Handled, Locked

\* Every step keeps the invariant.
LEMMA RunStep == RunInv /\ [Next]_vars => RunInv'
<1> SUFFICES ASSUME RunInv, [Next]_vars PROVE RunInv'
  OBVIOUS
<1>1. Inv'
  BY InvStep DEF RunInv
<1>2. OneAtATime'
  BY LockStep DEF RunInv
<1>3. Kept'
  <2>1. CASE \E u \in User, ms \in SUBSET Month, why \in Reason \cup {Plain} : SaveRecord(u, ms, why)
    BY <2>1, SaveRecordKeeps
  <2>2. CASE \E u \in User, p \in Period : Press(u, p)
    BY <2>2, PressKeeps
  <2>3. CASE \E u \in User : WebStep(u)
    BY <2>3, RequestMonthsKeeps, CreateNextKeeps, PressCreateKeeps, LaunchKeeps DEF WebStep
  <2>4. CASE \E u \in User : WebDies(u)
    BY <2>4, WebDiesKeeps
  <2>5. CASE \E w \in NightWorker : Nightly(w)
    BY <2>5, OutsideKeeps, NightWorkerAssumption
  <2>6. CASE \E w \in Worker, ms \in SUBSET Month : Command(w, ms)
    BY <2>6, CommandKeeps
  <2>7. CASE \E w \in Worker : WorkerStep(w)
    BY <2>7, OutsideKeeps, NightlyCreateKeeps, TakeHeadKeeps, AbsorbKeeps, MirrorKeeps, HandledKeeps,
       StartKeeps, StopKeeps, TrimKeeps, BeginMonthKeeps, CommitMonthKeeps, CountMonthKeeps,
       FinishKeeps, HealthKeeps
    DEF WorkerStep
  <2>8. CASE \E w \in Worker : WorkerDies(w)
    BY <2>8, WorkerDiesKeeps
  <2>9. CASE HealthCheck
    BY <2>9, HealthCheckKeeps
  <2>10. CASE \E r \in Request : TwoHoursPass(r)
    BY <2>10, TwoHoursPassKeeps
  <2>11. CASE (\E p \in Period : ToggleFinalized(p)) \/ (\E m \in Month : DataArrives(m)) \/ UNCHANGED vars
    BY <2>11, SiteKeeps
  <2> QED
    BY <2>1, <2>2, <2>3, <2>4, <2>5, <2>6, <2>7, <2>8, <2>9, <2>10, <2>11 DEF Next
<1> QED
  BY <1>1, <1>2, <1>3 DEF RunInv, Kept

\* It holds of the empty queue.
LEMMA RunInit == Init => RunInv
<1> SUFFICES ASSUME Init PROVE RunInv
  OBVIOUS
<1>1. Inv /\ OneAtATime
  BY InvInit DEF Init, OneAtATime, Locked
<1>2. HandInv
  BY DEF Init, HandInv, HandOf, InHand, Locked
<1>3. Len(queue) = 0
  BY EmptySeq DEF Init
<1>4. QueueInv
  BY <1>3 DEF QueueInv, QueueOf
<1>5. LateInv /\ AskedInv
  BY DEF Init, LateInv, AskedInv, Idle
<1> QED
  BY <1>1, <1>2, <1>4, <1>5 DEF RunInv

\* The invariant holds of every behaviour.
LEMMA RunAlways == Spec => []RunInv
BY RunInit, RunStep, PTL DEF Spec

-----------------------------------------------------------------------------
(* No saved record is forgotten *)

\* Every month that is owed, whoever owes it, is owed after the step.
LEMMA StillOwed ==
  ASSUME NoLostRecord,
         \A m \in stale' \ excused' : m \in stale \ excused,
         \A m \in stale' \ excused' : \A u \in User : m \in web[u].months => Pending(m)',
         \A m \in stale' \ excused' : \A r \in Request :
           row[r].status = "queued" /\ m \in row[r].months => Pending(m)',
         \A m \in stale' \ excused' : \A w \in Worker :
           pc[w] = "check" /\ m \in row[head[w]].months => Pending(m)',
         \A m \in stale' \ excused' : \A w \in Worker :
           m \in todo[w] /\ (pc[w] = "commit" /\ m = First(todo[w]) => fresh[w]) => Pending(m)'
  PROVE  NoLostRecord'
<1> SUFFICES ASSUME NEW m \in stale' \ excused' PROVE Pending(m)'
  BY DEF NoLostRecord
<1>1. Pending(m)
  BY DEF NoLostRecord
<1> QED
  BY <1>1 DEF Pending

\* The ways in which a month is owed after a step.
LEMMA Owing ==
  ASSUME NEW m
  PROVE  /\ \A u \in User : m \in web'[u].months => Pending(m)'
         /\ \A r \in Request : row'[r].status = "queued" /\ m \in row'[r].months => Pending(m)'
         /\ \A w \in Worker : pc'[w] = "check" /\ m \in row'[head'[w]].months => Pending(m)'
         /\ \A w \in Worker : m \in todo'[w] /\ (pc'[w] = "commit" => fresh'[w]) => Pending(m)'
         /\ \A w \in Worker : m \in todo'[w] /\ (pc'[w] = "commit" /\ m = First(todo'[w]) => fresh'[w])
                                => Pending(m)'
BY DEF Pending

\* The web requests, the queued rows, the workers about to begin and the workers
\* that have begun owe what they owed.
WebOwes == \A u \in User : web[u].months \subseteq web'[u].months
RowsOwe ==
  \A r \in Request : row[r].status = "queued" =>
    row'[r].status = "queued" /\ row[r].months \subseteq row'[r].months
ChecksOwe ==
  \A w \in Worker : pc[w] = "check" =>
    pc'[w] = "check" /\ row[head[w]].months \subseteq row'[head'[w]].months
RunsOwe ==
  \A w \in Worker :
    todo'[w] = todo[w] /\ (pc'[w] = "commit" => fresh'[w] \/ (pc[w] = "commit" /\ fresh'[w] = fresh[w]))

\* When each of them owes what it owed, nothing is forgotten.
LEMMA AllOwe ==
  ASSUME NoLostRecord, \A m \in stale' \ excused' : m \in stale \ excused,
         WebOwes, RowsOwe, ChecksOwe, RunsOwe
  PROVE  NoLostRecord'
<1> SUFFICES ASSUME NEW m \in stale' \ excused' PROVE Pending(m)'
  BY DEF NoLostRecord
<1>1. Pending(m)
  BY DEF NoLostRecord
<1> QED
  BY <1>1 DEF Pending, WebOwes, RowsOwe, ChecksOwe, RunsOwe

\* Nobody but the worker in the loop has months to begin or to run.
LEMMA OthersOwe ==
  ASSUME RunInv, NEW w \in Worker, pc[w] \in Locked
  PROVE  \A v \in Worker : v # w => pc[v] # "check" /\ todo[v] = {}
BY Alone DEF RunInv, HandInv, HandOf, Locked

\* A month saved now is owed by the web request that saved it.
LEMMA SaveRecordOwes ==
  ASSUME RunInv, NoLostRecord, NEW u \in User, NEW ms \in SUBSET Month, NEW why \in Reason \cup {Plain},
         SaveRecord(u, ms, why)
  PROVE  NoLostRecord'
<1>1. /\ stale' = stale \cup ms /\ excused' = excused \ ms
      /\ fresh' = [w \in Worker |-> fresh[w] /\ ~(todo[w] # {} /\ First(todo[w]) \in ms)]
      /\ UNCHANGED <<row, pc, head, todo>>
      /\ web[u].pc = "idle"
  BY DEF SaveRecord
<1>2. web'[u].months = ms /\ \A v \in User : v # u => web'[v] = web[v]
  BY DEF SaveRecord, RunInv, Inv, TypeOK, Idle
<1>3. web[u].months = {}
  BY <1>1 DEF RunInv, AskedInv
<1> SUFFICES ASSUME NEW m \in stale' \ excused' PROVE Pending(m)'
  BY DEF NoLostRecord
<1>4. CASE m \in ms
  BY <1>2, <1>4, Owing
<1>5. CASE m \notin ms
  <2>1. Pending(m)
    BY <1>1, <1>5 DEF NoLostRecord
  <2>2. ASSUME NEW v \in User, m \in web[v].months PROVE Pending(m)'
    BY <1>2, <1>3, <2>2, Owing
  <2>3. ASSUME NEW r \in Request, row[r].status = "queued", m \in row[r].months PROVE Pending(m)'
    BY <1>1, <2>3, Owing
  <2>4. ASSUME NEW w \in Worker, pc[w] = "check", m \in row[head[w]].months PROVE Pending(m)'
    BY <1>1, <2>4, Owing
  <2>5. ASSUME NEW w \in Worker, m \in todo[w], pc[w] = "commit" /\ m = First(todo[w]) => fresh[w]
        PROVE  Pending(m)'
    <3>1. m = First(todo[w]) => (fresh'[w] <=> fresh[w])
      BY <1>1, <1>5
    <3>2. pc'[w] = "commit" /\ m = First(todo'[w]) => fresh'[w]
      BY <1>1, <2>5, <3>1
    <3> QED
      BY <1>1, <2>5, <3>2, Owing
  <2> QED
    BY <2>1, <2>2, <2>3, <2>4, <2>5 DEF Pending
<1> QED
  BY <1>4, <1>5

\* What a web request drops or forgets is on the record.
LEMMA RequestMonthsOwes ==
  ASSUME RunInv, NoLostRecord, NEW u \in User, RequestMonths(u)
  PROVE  NoLostRecord'
<1> DEFINE kept == {m \in web[u].months : web[u].reason # Plain \/ ~FinalizedMonth(m)}
           x == IF kept = {} THEN Idle ELSE [web[u] EXCEPT !.pc = "create", !.months = kept]
<1>1. web[u] \in WebRequest /\ web' = [web EXCEPT ![u] = x] /\ excused' = excused \cup (web[u].months \ kept)
  BY DEF RequestMonths, RunInv, Inv, TypeOK
<1>2. x.months = kept
  BY <1>1 DEF Idle, WebRequest
<1> HIDE DEF x, kept
<1>3. web'[u].months = kept /\ \A v \in User : v # u => web'[v] = web[v]
  BY <1>1, <1>2 DEF RunInv, Inv, TypeOK
<1>4. UNCHANGED <<row, pc, head, todo, fresh, stale>>
  BY DEF RequestMonths, workerVars
<1>5. \A m \in stale' \ excused' : \A v \in User : m \in web[v].months => Pending(m)'
  BY <1>1, <1>3, Owing
<1> QED
  BY <1>1, <1>4, <1>5, StillOwed, Owing

\* What a web request that dies had not asked for is on the record.
LEMMA WebDiesOwes ==
  ASSUME RunInv, NoLostRecord, NEW u \in User, WebDies(u)
  PROVE  NoLostRecord'
<1>1. /\ excused' = excused \cup web[u].months
      /\ UNCHANGED <<row, pc, head, todo, fresh, stale>>
      /\ \A v \in User : v # u => web'[v] = web[v]
  BY DEF WebDies, workerVars, RunInv, Inv, TypeOK
<1>2. \A m \in stale' \ excused' : \A v \in User : m \in web[v].months => Pending(m)'
  BY <1>1, Owing
<1> QED
  BY <1>1, <1>2, StillOwed, Owing

\* A created row owes the months of its request.
LEMMA CreateNextOwes ==
  ASSUME RunInv, NoLostRecord, NEW u \in User, CreateNext(u)
  PROVE  NoLostRecord'
<1> DEFINE first == First(web[u].months)
           group == {m \in web[u].months : PeriodOf[m] = PeriodOf[first]}
           rest == web[u].months \ group
           x == [web[u] EXCEPT !.months = rest, !.made = @ \cup {NewRow},
                               !.pc = IF rest = {} THEN "launch" ELSE "create"]
<1>1. web[u] \in WebRequest /\ web \in [User -> WebRequest]
  BY DEF RunInv, Inv, TypeOK
<1>2. web' = [web EXCEPT ![u] = x] /\ x.months = rest
  BY <1>1 DEF CreateNext, WebRequest
<1>3. CreateRow(PeriodOf[first], group, web[u].reason) /\ group \in SUBSET Month
  BY <1>1 DEF CreateNext, WebRequest
<1>4. web[u].months = group \cup rest
  OBVIOUS
<1> HIDE DEF x, rest, group, first
<1>5. web'[u].months = rest /\ \A v \in User : v # u => web'[v] = web[v]
  BY <1>1, <1>2
<1>6. /\ NewRow \in Request /\ row[NewRow].status # "queued"
      /\ \A w \in Worker : head[w] # NewRow
      /\ row'[NewRow].status = "queued" /\ row'[NewRow].months = group
      /\ \A q \in Request : q # NewRow => row'[q] = row[q]
  BY <1>3, CreatesRow
<1>7. UNCHANGED <<pc, head, todo, fresh, stale, excused>>
  BY DEF CreateNext, workerVars
<1>8. \A m \in stale' \ excused' : \A v \in User : m \in web[v].months => Pending(m)'
  BY <1>4, <1>5, <1>6, Owing
<1>9. \A m \in stale' \ excused' : \A r \in Request :
        row[r].status = "queued" /\ m \in row[r].months => Pending(m)'
  BY <1>6, Owing
<1>10. \A w \in Worker : pc[w] = "check" => head[w] \in Request
  BY HeadIsRow DEF InHand, Locked
<1>11. \A m \in stale' \ excused' : \A w \in Worker :
         pc[w] = "check" /\ m \in row[head[w]].months => Pending(m)'
  BY <1>6, <1>7, <1>10, Owing
<1> QED
  BY <1>7, <1>8, <1>9, <1>11, StillOwed, Owing

\* A row created for somebody else disturbs nothing owed.
LEMMA CreateOwes ==
  ASSUME RunInv, NoLostRecord, NEW p, NEW ms \in SUBSET Month, NEW why, CreateRow(p, ms, why),
         UNCHANGED <<head, todo, fresh, stale, excused>>, WebOwes,
         \A w \in Worker : pc'[w] = pc[w] \/ (pc[w] # "check" /\ pc'[w] # "commit")
  PROVE  NoLostRecord'
<1>1. /\ row[NewRow].status # "queued"
      /\ \A w \in Worker : head[w] # NewRow
      /\ \A q \in Request : q # NewRow => row'[q] = row[q]
  BY CreatesRow
<1>2. \A w \in Worker : pc[w] = "check" => head[w] \in Request
  BY HeadIsRow DEF InHand, Locked
<1>3. RowsOwe /\ ChecksOwe /\ RunsOwe
  BY <1>1, <1>2 DEF RowsOwe, ChecksOwe, RunsOwe
<1> QED
  BY <1>3, AllOwe

\* A step of a worker, of people or of the clock that neither writes a row nor
\* changes what is asked for or left to do.
LEMMA IdlyOwes ==
  ASSUME RunInv, NoLostRecord, UNCHANGED <<row, head, todo, fresh, stale, excused>>, WebOwes,
         \A w \in Worker : pc'[w] = pc[w] \/ (pc[w] # "check" /\ pc'[w] # "commit")
  PROVE  NoLostRecord'
<1>1. RowsOwe /\ ChecksOwe /\ RunsOwe
  BY DEF RowsOwe, ChecksOwe, RunsOwe
<1> QED
  BY <1>1, AllOwe

\* A web request that starts, creates the button's row or starts workers owes no month.
LEMMA WebOwesOn ==
  ASSUME RunInv, NoLostRecord, NEW u \in User,
         \/ \E p \in Period : Press(u, p)
         \/ PressCreate(u)
         \/ \E w \in Worker : Launch(u, w)
  PROVE  NoLostRecord'
<1>1. web[u].months = {}
  BY DEF Press, PressCreate, Launch, RunInv, AskedInv
<1>2. \A v \in User : v # u => web'[v] = web[v]
  BY DEF Press, PressCreate, Launch, RunInv, Inv, TypeOK
<1>3. WebOwes
  BY <1>1, <1>2 DEF WebOwes
<1>4. CASE \E p \in Period : Press(u, p)
  BY <1>3, <1>4, IdlyOwes DEF Press, workerVars
<1>5. CASE PressCreate(u)
  BY <1>3, <1>5, CreateOwes DEF PressCreate, MonthsOf, workerVars
<1>6. CASE \E w \in Worker : Launch(u, w)
  <2>1. PICK w \in Worker : Launch(u, w)
    BY <1>6
  <2>2. \A v \in Worker : pc'[v] = pc[v] \/ (pc[v] # "check" /\ pc'[v] # "commit")
    BY <2>1, OneWorker DEF Launch, RunInv, Inv
  <2> QED
    BY <1>3, <2>1, <2>2, IdlyOwes DEF Launch
<1> QED
  BY <1>4, <1>5, <1>6

\* What a worker does outside a request's run leaves what is owed owed.
LEMMA OutsideOwes ==
  ASSUME RunInv, NoLostRecord, NEW w \in Worker,
         \/ Nightly(w) \/ NightlyRun(w) \/ TryLock(w) \/ Unlock(w) \/ Look(w) \/ EmptyQueue(w)
         \/ Handled(w) \/ NightlyCreate(w) \/ \E ms \in SUBSET Month : Command(w, ms)
  PROVE  NoLostRecord'
<1>1. WebOwes
  BY DEF WebOwes, Nightly, NightlyRun, TryLock, Unlock, Look, EmptyQueue, Handled, NightlyCreate, Command
<1>2. \A v \in Worker : pc'[v] = pc[v] \/ (pc[v] # "check" /\ pc'[v] # "commit")
  BY DEF Nightly, NightlyRun, TryLock, Unlock, Look, EmptyQueue, Handled, NightlyCreate, Command,
     RunInv, Inv, TypeOK
<1>3. CASE Nightly(w) \/ NightlyRun(w) \/ TryLock(w) \/ Unlock(w) \/ Look(w) \/ EmptyQueue(w)
  BY <1>1, <1>2, <1>3, IdlyOwes DEF Nightly, NightlyRun, TryLock, Unlock, Look, EmptyQueue
<1>4. CASE Handled(w)
  <2>1. RowsOwe /\ RunsOwe
    BY <1>2, <1>4 DEF Handled, RowsOwe, RunsOwe
  <2>2. \A v \in Worker : pc[v] = "check" => v # w /\ pc'[v] = "check" /\ head'[v] = head[v]
    BY <1>4 DEF Handled, RunInv, Inv, TypeOK
  <2>3. ChecksOwe
    BY <1>4, <2>2 DEF Handled, ChecksOwe
  <2> QED
    BY <1>1, <1>4, <2>1, <2>3, AllOwe DEF Handled
<1>5. CASE NightlyCreate(w)
  <2>1. PICK p : CreateRow(p, MonthsOf(p), Plain)
    BY <1>5 DEF NightlyCreate
  <2>2. MonthsOf(p) \in SUBSET Month
    BY DEF MonthsOf
  <2> QED
    BY <1>1, <1>2, <1>5, <2>1, <2>2, CreateOwes DEF NightlyCreate
<1>6. CASE \E ms \in SUBSET Month : Command(w, ms)
  BY <1>1, <1>2, <1>6, CreateOwes DEF Command
<1> QED
  BY <1>3, <1>4, <1>5, <1>6

\* So do a year finalized, data that arrive and time.
LEMMA SiteOwes ==
  ASSUME RunInv, NoLostRecord,
         \/ \E p \in Period : ToggleFinalized(p)
         \/ \E m \in Month : DataArrives(m)
         \/ \E r \in Request : TwoHoursPass(r)
         \/ UNCHANGED vars
  PROVE  NoLostRecord'
<1>1. UNCHANGED <<row, head, todo, fresh, stale, excused, pc, web>>
  BY DEF ToggleFinalized, DataArrives, TwoHoursPass, vars, workerVars
<1> QED
  BY <1>1, IdlyOwes DEF WebOwes

\* Site Health fails no queued row.
LEMMA HealthOwes ==
  ASSUME RunInv, NoLostRecord, HealthCheck \/ \E w \in Worker : Health(w)
  PROVE  NoLostRecord'
<1>1. /\ FailLateRuns /\ UNCHANGED <<head, todo, fresh, stale, excused, web>>
      /\ \A w \in Worker : pc'[w] = pc[w] \/ (pc[w] # "check" /\ pc'[w] # "commit")
  BY OneWorker DEF HealthCheck, Health, workerVars, RunInv, Inv
<1>2. \A r \in Request : RowStands(r)
  BY <1>1, FailsLate
<1>3. \A w \in Worker : pc[w] = "check" => head[w] \in Request
  BY HeadIsRow DEF InHand, Locked
<1>4. WebOwes /\ RowsOwe /\ ChecksOwe /\ RunsOwe
  BY <1>1, <1>2, <1>3 DEF WebOwes, RowsOwe, ChecksOwe, RunsOwe, RowStands
<1> QED
  BY <1>1, <1>4, AllOwe

\* The oldest request asks for what it folds as well.
LEMMA TakeHeadOwes ==
  ASSUME RunInv, NoLostRecord, NEW w \in Worker, TakeHead(w)
  PROVE  NoLostRecord'
<1> DEFINE h == Head(queue)
           ms == MonthsOfRows(Folded(h) \cup {h})
<1>1. /\ h \in Request /\ Writes(h, "queued", ms, row[h].done)
      /\ \A v \in Worker : v # w => SameHand(v)
  BY TakeHeadWrites
<1>2. row[h].months \subseteq ms
  BY DEF MonthsOfRows
<1> HIDE DEF h, ms
<1>3. RowsOwe
  BY <1>1, <1>2 DEF RowsOwe, Writes
<1>4. \A v \in Worker : pc[v] # "check" /\ pc'[v] # "commit" /\ todo'[v] = todo[v]
  <2>1. \A v \in Worker : pc[v] # "check" /\ pc[v] # "commit"
    BY Alone DEF TakeHead, Locked
  <2>2. pc'[w] \in {"start", "absorb"}
    BY DEF TakeHead, RunInv, Inv, TypeOK
  <2> QED
    BY <1>1, <2>1, <2>2 DEF TakeHead, SameHand
<1>5. WebOwes /\ ChecksOwe /\ RunsOwe
  BY <1>4 DEF TakeHead, WebOwes, ChecksOwe, RunsOwe
<1> QED
  BY <1>3, <1>5, AllOwe DEF TakeHead

\* A request that is folded is owed by the one that folds it.
LEMMA AbsorbOwes ==
  ASSUME RunInv, NoLostRecord, NEW w \in Worker, Absorb(w)
  PROVE  NoLostRecord'
<1>1. PICK r \in absorbed[w] :
        /\ r \in Request /\ row[r].status = "queued"
        /\ Writes(r, "running", row[r].months, row[r].done)
  BY AbsorbWrites
<1>2. /\ pc[w] = "absorb" /\ HandOf(w) /\ head[w] \in Request
      /\ row[head[w]].status = "queued" /\ head[w] # r /\ row[r].months \subseteq row[head[w]].months
  BY <1>1, HeadIsRow DEF Absorb, RunInv, HandInv, HandOf, InHand, Locked
<1>3. row'[head[w]] = row[head[w]] /\ \A q \in Request : q # r => row'[q] = row[q]
  BY <1>1, <1>2 DEF Writes
<1>4. \A v \in Worker : pc[v] # "check" /\ todo[v] = {}
  BY <1>2, OthersOwe DEF Locked, HandOf
<1>5. UNCHANGED <<web, stale, excused>>
  BY DEF Absorb
<1>6. \A m \in stale' \ excused' : \A q \in Request :
        row[q].status = "queued" /\ m \in row[q].months => Pending(m)'
  BY <1>2, <1>3, Owing
<1>7. \A m \in stale' \ excused' : \A u \in User : m \in web[u].months => Pending(m)'
  BY <1>5, Owing
<1> QED
  BY <1>4, <1>5, <1>6, <1>7, StillOwed

\* A request that leaves the queue is owed by the worker that begins it.
LEMMA StartOwes ==
  ASSUME RunInv, NoLostRecord, NEW w \in Worker, Start(w)
  PROVE  NoLostRecord'
<1>1. /\ head[w] \in Request /\ Writes(head[w], "running", row[head[w]].months, 0)
      /\ pc'[w] = "check" /\ head'[w] = head[w]
  BY StartWrites
<1>2. \A v \in Worker : pc[v] # "check" /\ todo[v] = {}
  BY OthersOwe DEF Start, Locked, RunInv, HandInv, HandOf
<1>3. UNCHANGED <<web, stale, excused>>
  BY DEF Start
<1>4. \A m \in stale' \ excused' : \A q \in Request :
        row[q].status = "queued" /\ m \in row[q].months => Pending(m)'
  BY <1>1, Owing DEF Writes
<1>5. \A m \in stale' \ excused' : \A u \in User : m \in web[u].months => Pending(m)'
  BY <1>3, Owing
<1> QED
  BY <1>2, <1>3, <1>4, <1>5, StillOwed

\* What a run leaves undone is on the record.
LEMMA StopOwes ==
  ASSUME RunInv, NoLostRecord, NEW w \in Worker, Refuse(w) \/ RejectMonth(w) \/ Fail(w)
  PROVE  NoLostRecord'
<1> DEFINE left == IF pc[w] = "check" THEN row[head[w]].months ELSE todo[w]
<1>1. Stop(w, left) /\ pc[w] \in {"check", "month", "commit"}
  BY DEF Refuse, RejectMonth, Fail
<1>2. /\ head[w] \in Request
      /\ Writes(head[w], "failed", row[head[w]].months, row[head[w]].done)
  BY <1>1, StopWrites
<1>3. row[head[w]].status # "queued" /\ (pc[w] = "check" => todo[w] = {})
  BY <1>1 DEF RunInv, HandInv, HandOf
<1>4. \A v \in Worker : v # w => pc[v] # "check" /\ todo[v] = {}
  BY <1>1, OthersOwe DEF Locked
<1>5. excused' = excused \cup left /\ UNCHANGED <<web, stale>>
  BY <1>1 DEF Stop
<1>6. \A m \in stale' \ excused' : \A q \in Request :
        row[q].status = "queued" /\ m \in row[q].months => Pending(m)'
  BY <1>2, <1>3, Owing DEF Writes
<1>7. \A m \in stale' \ excused' : \A u \in User : m \in web[u].months => Pending(m)'
  BY <1>5, Owing
<1>8. \A m \in stale' \ excused' : \A v \in Worker :
        ~(pc[v] = "check" /\ m \in row[head[v]].months) /\ m \notin todo[v]
  BY <1>3, <1>4, <1>5
<1>9. \A m \in stale' \ excused' : m \in stale \ excused
  BY <1>5
<1> HIDE DEF left
<1> QED
  BY <1>6, <1>7, <1>8, <1>9, StillOwed

\* The months without data are on the record, the others left to run.
LEMMA TrimOwes ==
  ASSUME RunInv, NoLostRecord, NEW w \in Worker, Trim(w)
  PROVE  NoLostRecord'
<1> DEFINE asked == row[head[w]].months
           ms == MonthsToRun(asked)
<1>1. /\ head[w] \in Request /\ Writes(head[w], row[head[w]].status, ms, row[head[w]].done)
  BY TrimWrites
<1>2. pc[w] = "check" /\ row[head[w]].status # "queued" /\ todo[w] = {}
  BY DEF Trim, RunInv, HandInv, HandOf
<1>3. \A v \in Worker : v # w => pc[v] # "check" /\ todo[v] = {}
  BY <1>2, OthersOwe DEF Locked
<1>4. /\ excused' = excused \cup (asked \ ms) /\ UNCHANGED <<web, stale>>
      /\ todo'[w] = ms /\ pc'[w] = "month"
  BY DEF Trim, RunInv, Inv, TypeOK
<1>5. \A m \in stale' \ excused' : \A q \in Request :
        row[q].status = "queued" /\ m \in row[q].months => Pending(m)'
  BY <1>1, <1>2, Owing DEF Writes
<1>6. \A m \in stale' \ excused' : \A u \in User : m \in web[u].months => Pending(m)'
  BY <1>4, Owing
<1> HIDE DEF ms
<1>7. \A m \in stale' \ excused' : m \in asked => Pending(m)'
  BY <1>4, Owing
<1>8. \A m \in stale' \ excused' : \A v \in Worker :
        pc[v] = "check" /\ m \in row[head[v]].months => Pending(m)'
  BY <1>3, <1>7
<1>9. \A v \in Worker : todo[v] = {}
  BY <1>2, <1>3
<1>10. \A m \in stale' \ excused' : m \in stale \ excused
  BY <1>4
<1> QED
  BY <1>5, <1>6, <1>8, <1>9, <1>10, StillOwed

\* A month that begins reads every record saved so far.
LEMMA BeginMonthOwes ==
  ASSUME RunInv, NoLostRecord, NEW w \in Worker, BeginMonth(w)
  PROVE  NoLostRecord'
<1>1. /\ pc[w] = "month" /\ pc'[w] = "commit" /\ fresh'[w] = TRUE
      /\ \A v \in Worker : v # w => pc'[v] = pc[v] /\ fresh'[v] = fresh[v]
      /\ UNCHANGED <<row, head, todo, stale, excused, web>>
  BY DEF BeginMonth, RunInv, Inv, TypeOK
<1>2. WebOwes /\ RowsOwe
  BY <1>1 DEF WebOwes, RowsOwe
<1>3. ChecksOwe
  BY <1>1 DEF ChecksOwe
<1>4. RunsOwe
  BY <1>1 DEF RunsOwe
<1> QED
  BY <1>1, <1>2, <1>3, <1>4, AllOwe

\* A month that is committed shows what it read; what it did not read is owed still.
LEMMA CommitMonthOwes ==
  ASSUME RunInv, NoLostRecord, NEW w \in Worker, CommitMonth(w)
  PROVE  NoLostRecord'
<1> DEFINE n == First(todo[w])
           shown == IF fresh[w] THEN {n} ELSE {}
<1>1. pc[w] = "commit" /\ stale' = stale \ shown /\ excused' = excused \ shown /\ UNCHANGED <<row, web>>
  BY DEF CommitMonth
<1>2. /\ todo'[w] = todo[w] \ {n} /\ pc'[w] = "count"
      /\ \A v \in Worker : v # w => pc[v] # "check" /\ todo[v] = {}
  BY <1>1, OthersOwe DEF CommitMonth, RunInv, Inv, TypeOK, Locked
<1>3. \A m \in stale' \ excused' : m \in stale \ excused
  BY <1>1
<1>4. \A m \in stale' \ excused' : \A q \in Request :
        row[q].status = "queued" /\ m \in row[q].months => Pending(m)'
  BY <1>1, Owing
<1>5. \A m \in stale' \ excused' : \A u \in User : m \in web[u].months => Pending(m)'
  BY <1>1, Owing
<1>6. \A v \in Worker : pc[v] # "check"
  BY <1>1, <1>2
<1>7. ASSUME NEW m \in stale' \ excused', NEW v \in Worker,
             m \in todo[v], pc[v] = "commit" /\ m = First(todo[v]) => fresh[v]
      PROVE  Pending(m)'
  <2>1. v = w /\ m \in todo[w]
    BY <1>2, <1>7
  <2>2. m # n
    BY <1>1, <1>7, <2>1
  <2>3. m \in todo'[w] /\ pc'[w] # "commit"
    BY <1>2, <2>1, <2>2
  <2> QED
    BY <2>3, Owing
<1> HIDE DEF n, shown
<1> QED
  BY <1>3, <1>4, <1>5, <1>6, <1>7, StillOwed

\* Counting a month changes nothing that is owed.
LEMMA CountMonthOwes ==
  ASSUME RunInv, NoLostRecord, NEW w \in Worker, CountMonth(w)
  PROVE  NoLostRecord'
<1>1. /\ head[w] \in Request
      /\ Writes(head[w], row[head[w]].status, row[head[w]].months, row[head[w]].done + 1)
  BY CountMonthWrites
<1>2. /\ pc[w] = "count" /\ pc'[w] = "month" /\ \A v \in Worker : v # w => pc'[v] = pc[v]
      /\ UNCHANGED <<head, todo, fresh, stale, excused, web>>
  BY DEF CountMonth, RunInv, Inv, TypeOK
<1>3. RowsOwe /\ WebOwes
  BY <1>1, <1>2 DEF RowsOwe, WebOwes, Writes
<1>4. \A v \in Worker : pc[v] # "check"
  BY <1>2, OthersOwe DEF Locked
<1>5. ChecksOwe
  BY <1>4 DEF ChecksOwe
<1>6. RunsOwe
  BY <1>2 DEF RunsOwe
<1> QED
  BY <1>2, <1>3, <1>5, <1>6, AllOwe

\* A run that ends well owes no month.
LEMMA FinishOwes ==
  ASSUME RunInv, NoLostRecord, NEW w \in Worker, Finish(w)
  PROVE  NoLostRecord'
<1>1. /\ head[w] \in Request
      /\ Writes(head[w], "succeeded", row[head[w]].months, row[head[w]].done)
  BY FinishWrites
<1>2. /\ pc[w] = "month" /\ pc'[w] = "health" /\ \A v \in Worker : v # w => pc'[v] = pc[v]
      /\ UNCHANGED <<head, todo, fresh, stale, excused, web>>
  BY DEF Finish, RunInv, Inv, TypeOK
<1>3. row[head[w]].status # "queued"
  BY <1>2 DEF RunInv, HandInv, HandOf
<1>4. RowsOwe /\ WebOwes
  BY <1>1, <1>2, <1>3 DEF RowsOwe, WebOwes, Writes
<1>5. \A v \in Worker : pc[v] # "check"
  BY <1>2, OthersOwe DEF Locked
<1>6. ChecksOwe
  BY <1>5 DEF ChecksOwe
<1>7. RunsOwe
  BY <1>2 DEF RunsOwe
<1> QED
  BY <1>2, <1>4, <1>6, <1>7, AllOwe

\* A folded request was owed for by the run that folded it.
LEMMA MirrorOwes ==
  ASSUME RunInv, NoLostRecord, NEW w \in Worker, Mirror(w)
  PROVE  NoLostRecord'
<1>1. PICK r \in absorbed[w] :
        /\ r \in Request
        /\ Writes(r, row[head[w]].status, row[head[w]].months, row[head[w]].done)
  BY MirrorWrites
<1>2. pc[w] = "mirror" /\ UNCHANGED <<pc, head, todo, fresh, stale, excused, web>>
  BY DEF Mirror
<1>3. row[r].status # "queued"
  BY <1>1, <1>2 DEF RunInv, HandInv, HandOf
<1>4. RowsOwe /\ WebOwes
  BY <1>1, <1>2, <1>3 DEF RowsOwe, WebOwes, Writes
<1>5. \A v \in Worker : pc[v] # "check"
  BY <1>2, OthersOwe DEF Locked
<1>6. ChecksOwe /\ RunsOwe
  BY <1>2, <1>5 DEF ChecksOwe, RunsOwe
<1> QED
  BY <1>2, <1>4, <1>6, AllOwe

\* What a worker that dies leaves is on the record, or queued still.
LEMMA WorkerDiesOwes ==
  ASSUME RunInv, NoLostRecord, NEW w \in Worker, WorkerDies(w)
  PROVE  NoLostRecord'
<1>1. /\ excused' = excused \cup Unfinished(w)
      /\ UNCHANGED <<row, stale, web>>
      /\ \A v \in Worker : v # w =>
           pc'[v] = pc[v] /\ head'[v] = head[v] /\ todo'[v] = todo[v] /\ fresh'[v] = fresh[v]
  BY DEF WorkerDies, RunInv, Inv, TypeOK
<1>2. /\ pc[w] = "check" => Unfinished(w) = row[head[w]].months
      /\ todo[w] # {} => Unfinished(w) = todo[w]
  BY DEF Unfinished, RunInv, HandInv, HandOf
<1>3. \A m \in stale' \ excused' : m \in stale \ excused
  BY <1>1
<1>4. \A m \in stale' \ excused' : \A q \in Request :
        row[q].status = "queued" /\ m \in row[q].months => Pending(m)'
  BY <1>1, Owing
<1>5. \A m \in stale' \ excused' : \A u \in User : m \in web[u].months => Pending(m)'
  BY <1>1, Owing
<1>6. \A m \in stale' \ excused' : \A v \in Worker :
        pc[v] = "check" /\ m \in row[head[v]].months => Pending(m)'
  BY <1>1, <1>2, Owing
<1>7. ASSUME NEW m \in stale' \ excused', NEW v \in Worker,
             m \in todo[v], pc[v] = "commit" /\ m = First(todo[v]) => fresh[v]
      PROVE  Pending(m)'
  <2>1. v # w
    BY <1>1, <1>2, <1>7
  <2>2. m \in todo'[v] /\ (pc'[v] = "commit" /\ m = First(todo'[v]) => fresh'[v])
    BY <1>1, <1>7, <2>1
  <2> QED
    BY <2>2, Owing
<1> QED
  BY <1>3, <1>4, <1>5, <1>6, <1>7, StillOwed

\* Every step leaves what is owed owed.
LEMMA OwedStep == RunInv /\ NoLostRecord /\ [Next]_vars => NoLostRecord'
<1> SUFFICES ASSUME RunInv, NoLostRecord, [Next]_vars PROVE NoLostRecord'
  OBVIOUS
<1>1. CASE \E u \in User, ms \in SUBSET Month, why \in Reason \cup {Plain} : SaveRecord(u, ms, why)
  BY <1>1, SaveRecordOwes
<1>2. CASE \E u \in User, p \in Period : Press(u, p)
  BY <1>2, WebOwesOn
<1>3. CASE \E u \in User : WebStep(u)
  BY <1>3, RequestMonthsOwes, CreateNextOwes, WebOwesOn DEF WebStep
<1>4. CASE \E u \in User : WebDies(u)
  BY <1>4, WebDiesOwes
<1>5. CASE \E w \in NightWorker : Nightly(w)
  BY <1>5, OutsideOwes, NightWorkerAssumption
<1>6. CASE \E w \in Worker, ms \in SUBSET Month : Command(w, ms)
  BY <1>6, OutsideOwes
<1>7. CASE \E w \in Worker : WorkerStep(w)
  BY <1>7, OutsideOwes, TakeHeadOwes, AbsorbOwes, MirrorOwes, StartOwes, StopOwes, TrimOwes,
     BeginMonthOwes, CommitMonthOwes, CountMonthOwes, FinishOwes, HealthOwes DEF WorkerStep
<1>8. CASE \E w \in Worker : WorkerDies(w)
  BY <1>8, WorkerDiesOwes
<1>9. CASE HealthCheck
  BY <1>9, HealthOwes
<1>10. CASE \/ \E p \in Period : ToggleFinalized(p)
            \/ \E m \in Month : DataArrives(m)
            \/ \E r \in Request : TwoHoursPass(r)
            \/ UNCHANGED vars
  BY <1>10, SiteOwes
<1> QED
  BY <1>1, <1>2, <1>3, <1>4, <1>5, <1>6, <1>7, <1>8, <1>9, <1>10 DEF Next

\* No lost update (request_for_months, run_queue, execute): a month whose figures
\* lack a saved record is asked for, queued or being run until it is calculated,
\* or its calculation was stopped, refused or dropped on the record.
THEOREM NothingLost == Spec => []NoLostRecord
<1>1. Init => NoLostRecord
  BY DEF Init, NoLostRecord
<1> QED
  BY <1>1, OwedStep, RunAlways, PTL DEF Spec
-----------------------------------------------------------------------------
(* What a request's row says of its run *)

\* A step that is no crash spends none.
SparesCrashes ==
  budget' = budget \/ \E f \in {"saves", "faults", "toggles", "commands"} : Spend(f)

\* What every row says after a step is what it said before, or so of itself.
LEMMA StillTold ==
  ASSUME RunInv, RequestsTold, SparesCrashes,
         \A r \in Request :
           \/ RowStands(r) /\ (row'[r].status = "running" /\ Owned(r) => Owned(r)')
           \/ row'[r].status = "running" /\ Owned(r)'
           \/ row'[r].status = "succeeded" /\ row'[r].done = Cardinality(row'[r].months)
           \/ row'[r].status \notin {"running", "succeeded"}
  PROVE  RequestsTold'
<1>1. budget \in Budget
  BY DEF RunInv, Inv, TypeOK
<1>2. budget'.crashes = budget.crashes
  BY <1>1 DEF SparesCrashes, Spend, Budget
<1> SUFFICES ASSUME NEW r \in Request
             PROVE  /\ row'[r].status = "succeeded" => row'[r].done = Cardinality(row'[r].months)
                    /\ row'[r].status = "running" => Owned(r)' \/ budget'.crashes < MaxCrashes
  BY DEF RequestsTold, FinishedIsComplete, RunningIsOwned
<1>3. /\ row[r].status = "succeeded" => row[r].done = Cardinality(row[r].months)
      /\ row[r].status = "running" => Owned(r) \/ budget.crashes < MaxCrashes
  BY DEF RequestsTold, FinishedIsComplete, RunningIsOwned
<1> QED
  BY <1>2, <1>3 DEF RowStands

\* Whoever has a request in the drain loop has it still.
LEMMA OwnsOn ==
  ASSUME \A w \in Worker : pc[w] \in Locked =>
           pc'[w] \in Locked /\ head'[w] = head[w] /\ absorbed'[w] = absorbed[w]
  PROVE  \A r \in Request : Owned(r) => Owned(r)'
BY DEF Owned

\* Nobody has a request in hand while a worker looks for the next one.
LEMMA NoneOwned ==
  ASSUME RunInv, NEW w \in Worker, pc[w] \in {"drain", "unlock"}
  PROVE  \A r \in Request : ~Owned(r)
<1>1. \A v \in Worker : v # w => pc[v] \notin Locked
  BY Alone DEF Locked
<1>2. head[w] = NoRequest /\ absorbed[w] = {}
  BY DEF RunInv, HandInv, HandOf, InHand
<1> QED
  BY <1>1, <1>2, NobodyAssumption DEF Owned

\* A step that writes no row and takes nothing from a worker's hands.
LEMMA QuietTold ==
  ASSUME RunInv, RequestsTold, SparesCrashes, row' = row,
         \A w \in Worker : pc[w] \in Locked =>
           pc'[w] \in Locked /\ head'[w] = head[w] /\ absorbed'[w] = absorbed[w]
  PROVE  RequestsTold'
BY OwnsOn, StillTold DEF RowStands

\* A created row is queued.
LEMMA CreateTold ==
  ASSUME RunInv, RequestsTold, SparesCrashes,
         NEW p, NEW ms \in SUBSET Month, NEW why, CreateRow(p, ms, why),
         \A w \in Worker : pc[w] \in Locked =>
           pc'[w] \in Locked /\ head'[w] = head[w] /\ absorbed'[w] = absorbed[w]
  PROVE  RequestsTold'
<1>1. row'[NewRow].status = "queued" /\ \A q \in Request : q # NewRow => row'[q] = row[q]
  BY CreatesRow
<1>2. \A r \in Request : Owned(r) => Owned(r)'
  BY OwnsOn
<1>3. \A r \in Request :
        \/ RowStands(r) /\ (row'[r].status = "running" /\ Owned(r) => Owned(r)')
        \/ row'[r].status \notin {"running", "succeeded"}
  BY <1>1, <1>2 DEF RowStands
<1> QED
  BY <1>3, StillTold

\* What people do, and the site.
LEMMA WebTold ==
  ASSUME RunInv, RequestsTold,
         \/ \E u \in User, ms \in SUBSET Month, why \in Reason \cup {Plain} : SaveRecord(u, ms, why)
         \/ \E u \in User, p \in Period : Press(u, p)
         \/ \E u \in User : RequestMonths(u)
         \/ \E p \in Period : ToggleFinalized(p)
         \/ \E m \in Month : DataArrives(m)
         \/ \E r \in Request : TwoHoursPass(r)
         \/ UNCHANGED vars
  PROVE  RequestsTold'
<1>1. UNCHANGED <<row, pc, head, absorbed>>
  BY DEF SaveRecord, Press, RequestMonths, ToggleFinalized, DataArrives, TwoHoursPass, vars, workerVars
<1>2. SparesCrashes
  BY DEF SparesCrashes, SaveRecord, Press, RequestMonths, ToggleFinalized, DataArrives, TwoHoursPass, vars
<1> QED
  BY <1>1, <1>2, QuietTold

\* The rows people create, and the workers they start.
LEMMA AskTold ==
  ASSUME RunInv, RequestsTold, NEW u \in User, CreateNext(u) \/ PressCreate(u) \/ \E w \in Worker : Launch(u, w)
  PROVE  RequestsTold'
<1>1. CASE CreateNext(u)
  <2> DEFINE group == {m \in web[u].months : PeriodOf[m] = PeriodOf[First(web[u].months)]}
  <2>1. group \in SUBSET Month
    BY DEF RunInv, Inv, TypeOK, WebRequest
  <2>2. CreateRow(PeriodOf[First(web[u].months)], group, web[u].reason)
    BY <1>1 DEF CreateNext
  <2> HIDE DEF group
  <2>3. SparesCrashes /\ UNCHANGED <<pc, head, absorbed>>
    BY <1>1 DEF CreateNext, workerVars, SparesCrashes
  <2> QED
    BY <2>1, <2>2, <2>3, CreateTold
<1>2. CASE PressCreate(u)
  <2>1. MonthsOf(web[u].period) \in SUBSET Month
    BY DEF MonthsOf
  <2>2. SparesCrashes /\ UNCHANGED <<pc, head, absorbed>>
    BY <1>2 DEF PressCreate, workerVars, SparesCrashes
  <2> QED
    BY <1>2, <2>1, <2>2, CreateTold DEF PressCreate
<1>3. CASE \E w \in Worker : Launch(u, w)
  <2>1. SparesCrashes /\ UNCHANGED <<row, head, absorbed>>
    BY <1>3 DEF Launch, SparesCrashes
  <2>2. \A v \in Worker : pc[v] \in Locked => pc'[v] \in Locked
    BY <1>3 DEF Launch, Locked, RunInv, Inv, TypeOK
  <2> QED
    BY <2>1, <2>2, QuietTold
<1> QED
  BY <1>1, <1>2, <1>3

\* What a worker does outside a request's run, and inside a month.
LEMMA LoopTold ==
  ASSUME RunInv, RequestsTold, NEW w \in Worker,
         \/ Nightly(w) \/ NightlyRun(w) \/ TryLock(w) \/ Look(w) \/ EmptyQueue(w)
         \/ BeginMonth(w) \/ CommitMonth(w)
  PROVE  RequestsTold'
<1>1. SparesCrashes /\ UNCHANGED <<row, head, absorbed>>
  BY DEF SparesCrashes, Nightly, NightlyRun, TryLock, Look, EmptyQueue, BeginMonth, CommitMonth
<1>2. \A v \in Worker : pc[v] \in Locked => pc'[v] \in Locked
  BY DEF Nightly, NightlyRun, TryLock, Look, EmptyQueue, BeginMonth, CommitMonth, Locked, RunInv, Inv, TypeOK
<1> QED
  BY <1>1, <1>2, QuietTold

\* The rows that workers create.
LEMMA WorkerCreateTold ==
  ASSUME RunInv, RequestsTold, NEW w \in Worker,
         NightlyCreate(w) \/ \E ms \in SUBSET Month : Command(w, ms)
  PROVE  RequestsTold'
<1>1. SparesCrashes /\ UNCHANGED <<head, absorbed>>
  BY DEF SparesCrashes, NightlyCreate, Command
<1>2. \A v \in Worker : pc[v] \in Locked => pc'[v] \in Locked
  BY DEF NightlyCreate, Command, Locked, RunInv, Inv, TypeOK
<1>3. \A p : MonthsOf(p) \in SUBSET Month
  BY DEF MonthsOf
<1>4. \E p, why : \E ms \in SUBSET Month : CreateRow(p, ms, why)
  BY <1>3 DEF NightlyCreate, Command
<1> QED
  BY <1>1, <1>2, <1>4, CreateTold

\* A row that one worker writes while it is alone in the loop.
LEMMA WritesTold ==
  ASSUME RunInv, RequestsTold, SparesCrashes, NEW w \in Worker, pc[w] \in Locked, pc'[w] \in Locked,
         NEW r \in Request, NEW status, NEW months, NEW done, Writes(r, status, months, done),
         head'[w] = head[w], absorbed[w] \ {r} \subseteq absorbed'[w],
         status = "running" => r = head[w] \/ r \in absorbed'[w],
         status = "succeeded" => done = Cardinality(months)
  PROVE  RequestsTold'
<1>1. \A v \in Worker : v # w => pc[v] \notin Locked
  BY Alone
<1>2. \A q \in Request : q # r => RowStands(q) /\ (Owned(q) => Owned(q)')
  BY <1>1 DEF Writes, RowStands, Owned
<1>3. status = "running" => Owned(r)'
  BY DEF Owned
<1>4. row'[r].status = status /\ row'[r].months = months /\ row'[r].done = done
  BY DEF Writes
<1>5. \A q \in Request :
        \/ RowStands(q) /\ (row'[q].status = "running" /\ Owned(q) => Owned(q)')
        \/ row'[q].status = "running" /\ Owned(q)'
        \/ row'[q].status = "succeeded" /\ row'[q].done = Cardinality(row'[q].months)
        \/ row'[q].status \notin {"running", "succeeded"}
  BY <1>2, <1>3, <1>4
<1> QED
  BY <1>5, StillTold

\* The oldest request is queued, and nobody has another.
LEMMA TakeHeadTold ==
  ASSUME RunInv, RequestsTold, NEW w \in Worker, TakeHead(w)
  PROVE  RequestsTold'
<1>1. /\ Head(queue) \in Request /\ row'[Head(queue)].status = "queued"
      /\ \A q \in Request : q # Head(queue) => row'[q] = row[q]
  BY TakeHeadWrites DEF Writes
<1>2. \A r \in Request : ~Owned(r)
  BY NoneOwned DEF TakeHead
<1>3. SparesCrashes
  BY DEF TakeHead, SparesCrashes
<1>4. \A r \in Request :
        \/ RowStands(r) /\ (row'[r].status = "running" /\ Owned(r) => Owned(r)')
        \/ row'[r].status \notin {"running", "succeeded"}
  BY <1>1, <1>2 DEF RowStands
<1> QED
  BY <1>3, <1>4, StillTold

\* A request that is marked is in the hands of the worker that marks it.
LEMMA MarkTold ==
  ASSUME RunInv, RequestsTold, NEW w \in Worker, Absorb(w) \/ Start(w)
  PROVE  RequestsTold'
<1>1. CASE Absorb(w)
  <2>1. PICK r \in absorbed[w] :
          /\ r \in Request /\ Writes(r, "running", row[r].months, row[r].done)
          /\ pc'[w] \in {"absorb", "start"} /\ head'[w] = head[w] /\ absorbed'[w] = absorbed[w]
    BY <1>1, AbsorbWrites
  <2>2. pc[w] \in Locked /\ pc'[w] \in Locked /\ SparesCrashes
    BY <1>1, <2>1 DEF Absorb, Locked, SparesCrashes
  <2> QED
    BY <2>1, <2>2, WritesTold
<1>2. CASE Start(w)
  <2>1. /\ head[w] \in Request /\ Writes(head[w], "running", row[head[w]].months, 0)
        /\ pc'[w] = "check" /\ head'[w] = head[w] /\ absorbed'[w] = absorbed[w]
    BY <1>2, StartWrites
  <2>2. pc[w] \in Locked /\ pc'[w] \in Locked /\ SparesCrashes
    BY <1>2, <2>1 DEF Start, Locked, SparesCrashes
  <2> QED
    BY <2>1, <2>2, WritesTold
<1> QED
  BY <1>1, <1>2

\* A run that is under way is in the hands of its worker.
LEMMA RunTold ==
  ASSUME RunInv, RequestsTold, NEW w \in Worker, Trim(w) \/ CountMonth(w)
  PROVE  RequestsTold'
<1>1. /\ pc[w] \in Locked /\ pc'[w] \in Locked /\ SparesCrashes
      /\ head'[w] = head[w] /\ absorbed'[w] = absorbed[w]
  BY DEF Trim, CountMonth, Locked, SparesCrashes, RunInv, Inv, TypeOK
<1>2. head[w] \in Request /\ row[head[w]].status # "succeeded"
  BY HeadIsRow DEF Trim, CountMonth, InHand, Locked, RunInv, HandInv, HandOf
<1>3. \E months, done : Writes(head[w], row[head[w]].status, months, done)
  BY TrimWrites, CountMonthWrites
<1> QED
  BY <1>1, <1>2, <1>3, WritesTold

\* A run that ends well has counted every month.
LEMMA EndTold ==
  ASSUME RunInv, RequestsTold, NEW w \in Worker,
         Finish(w) \/ Refuse(w) \/ RejectMonth(w) \/ Fail(w)
  PROVE  RequestsTold'
<1>1. CASE Finish(w)
  <2>1. head[w] \in Request /\ Writes(head[w], "succeeded", row[head[w]].months, row[head[w]].done)
    BY <1>1, FinishWrites
  <2>2. /\ pc[w] = "month" /\ pc'[w] = "health" /\ SparesCrashes
        /\ head'[w] = head[w] /\ absorbed'[w] = absorbed[w]
    BY <1>1 DEF Finish, SparesCrashes, RunInv, Inv, TypeOK
  <2>3. row[head[w]].done \in Nat /\ Cardinality(todo[w]) = 0
    BY <1>1, HeadIsRow, FS_EmptySet DEF Finish, InHand, Locked, RequestRow
  <2>4. row[head[w]].done = Cardinality(row[head[w]].months)
    BY <2>2, <2>3 DEF RunInv, HandInv, HandOf
  <2> QED
    BY <2>1, <2>2, <2>4, WritesTold DEF Locked
<1>2. CASE Refuse(w) \/ RejectMonth(w) \/ Fail(w)
  <2>1. pc[w] \in {"check", "month", "commit"} /\ \E undone : Stop(w, undone)
    BY <1>2 DEF Refuse, RejectMonth, Fail
  <2>2. head[w] \in Request /\ Writes(head[w], "failed", row[head[w]].months, row[head[w]].done)
    BY <2>1, StopWrites
  <2>3. pc'[w] = "health" /\ head'[w] = head[w] /\ absorbed'[w] = absorbed[w]
    BY <2>1 DEF Stop, RunInv, Inv, TypeOK
  <2>4. SparesCrashes
    BY <1>2 DEF Refuse, RejectMonth, Fail, SparesCrashes
  <2> QED
    BY <2>1, <2>2, <2>3, <2>4, WritesTold DEF Locked
<1> QED
  BY <1>1, <1>2

\* A folded request is told what the run that did its months was told.
LEMMA MirrorTold ==
  ASSUME RunInv, RequestsTold, NEW w \in Worker, Mirror(w)
  PROVE  RequestsTold'
<1>1. PICK r \in absorbed[w] :
        /\ r \in Request /\ head[w] \in Request
        /\ Writes(r, row[head[w]].status, row[head[w]].months, row[head[w]].done)
        /\ absorbed'[w] = absorbed[w] \ {r} /\ pc'[w] = "mirror" /\ head'[w] = head[w]
  BY MirrorWrites
<1>2. pc[w] = "mirror" /\ SparesCrashes
  BY DEF Mirror, SparesCrashes
<1>3. row[head[w]].status # "running"
  BY <1>2 DEF RunInv, HandInv, HandOf
<1>4. row[head[w]].status = "succeeded" => row[head[w]].done = Cardinality(row[head[w]].months)
  BY <1>1 DEF RequestsTold, FinishedIsComplete
<1> QED
  BY <1>1, <1>2, <1>3, <1>4, WritesTold DEF Locked

\* A request that is let go has its end.
LEMMA LetGoTold ==
  ASSUME RunInv, RequestsTold, NEW w \in Worker, Handled(w) \/ Unlock(w)
  PROVE  RequestsTold'
<1>1. SparesCrashes /\ row' = row
  BY DEF Handled, Unlock, SparesCrashes
<1>2. \A v \in Worker : v # w => pc[v] \notin Locked
  BY Alone DEF Handled, Unlock, Locked
<1>3. \A r \in Request : row[r].status = "running" => ~Owned(r)
  <2>1. CASE Handled(w)
    BY <1>2, <2>1 DEF Handled, Owned, RunInv, HandInv, HandOf
  <2>2. CASE Unlock(w)
    BY <2>2, NoneOwned DEF Unlock
  <2> QED
    BY <2>1, <2>2
<1>4. \A r \in Request : RowStands(r) /\ (row'[r].status = "running" /\ Owned(r) => Owned(r)')
  BY <1>1, <1>3 DEF RowStands
<1> QED
  BY <1>1, <1>4, StillTold

\* Site Health fails runs that are late, and no other.
LEMMA HealthTold ==
  ASSUME RunInv, RequestsTold, HealthCheck \/ \E w \in Worker : Health(w)
  PROVE  RequestsTold'
<1>1. /\ SparesCrashes /\ FailLateRuns /\ UNCHANGED <<head, absorbed>>
      /\ \A v \in Worker : pc[v] \in Locked => pc'[v] \in Locked
  BY DEF HealthCheck, Health, workerVars, SparesCrashes, Locked, RunInv, Inv, TypeOK
<1>2. \A r \in Request : RowStands(r) /\ (Owned(r) => Owned(r)')
  BY <1>1, FailsLate, OwnsOn
<1> QED
  BY <1>1, <1>2, StillTold

\* A crash leaves rows that read Running to nobody, and is counted.
LEMMA CrashTold ==
  ASSUME RunInv, RequestsTold, (\E w \in Worker : WorkerDies(w)) \/ \E u \in User : WebDies(u)
  PROVE  RequestsTold'
<1>1. row' = row /\ Spend("crashes")
  BY DEF WorkerDies, WebDies
<1>2. budget \in Budget /\ MaxCrashes \in Nat
  BY BoundsAssumption DEF RunInv, Inv, TypeOK
<1>3. budget'.crashes < MaxCrashes
  BY <1>1, <1>2 DEF Spend, Budget
<1>4. RunningIsOwned' /\ FinishedIsComplete'
  BY <1>1, <1>3 DEF RunningIsOwned, RequestsTold, FinishedIsComplete
<1> QED
  BY <1>4 DEF RequestsTold

\* Every step leaves what the rows say so.
LEMMA ToldStep == RunInv /\ RequestsTold /\ [Next]_vars => RequestsTold'
<1> SUFFICES ASSUME RunInv, RequestsTold, [Next]_vars PROVE RequestsTold'
  OBVIOUS
<1>1. CASE \E u \in User : WebStep(u)
  BY <1>1, WebTold, AskTold DEF WebStep
<1>2. CASE \E w \in NightWorker : Nightly(w)
  BY <1>2, LoopTold, NightWorkerAssumption
<1>3. CASE \E w \in Worker, ms \in SUBSET Month : Command(w, ms)
  BY <1>3, WorkerCreateTold
<1>4. CASE \E w \in Worker : WorkerStep(w)
  BY <1>4, LoopTold, WorkerCreateTold, TakeHeadTold, MarkTold, RunTold, EndTold, MirrorTold, LetGoTold,
     HealthTold DEF WorkerStep
<1>5. CASE (\E w \in Worker : WorkerDies(w)) \/ \E u \in User : WebDies(u)
  BY <1>5, CrashTold
<1>6. CASE HealthCheck
  BY <1>6, HealthTold
<1>7. CASE \/ \E u \in User, ms \in SUBSET Month, why \in Reason \cup {Plain} : SaveRecord(u, ms, why)
           \/ \E u \in User, p \in Period : Press(u, p)
           \/ \E p \in Period : ToggleFinalized(p)
           \/ \E m \in Month : DataArrives(m)
           \/ \E r \in Request : TwoHoursPass(r)
           \/ UNCHANGED vars
  BY <1>7, WebTold
<1> QED
  BY <1>1, <1>2, <1>3, <1>4, <1>5, <1>6, <1>7 DEF Next

\* What a request's row says of its run is so (engine_run._mirror, run_queue): it
\* reads Finished only when every month it lists was calculated and counted, by its
\* own run or the one that folded it, and while no process has died, Running only
\* while a worker that will write its end has it.
THEOREM RowsSayWhatIsSo == Spec => []RequestsTold
<1>1. Init => RequestsTold
  BY DEF Init, RequestsTold, FinishedIsComplete, RunningIsOwned
<1> QED
  BY <1>1, ToldStep, RunAlways, PTL DEF Spec
-----------------------------------------------------------------------------
(* The calculation queue implements SerialCalculation *)

\* The calculation under way, now and after a step.
RunOf(w) == [by |-> w, month |-> First(todo[w]), door |-> ~PlainRow(head[w]), complete |-> fresh[w]]

\* The refinement mapping, before and after a step.
LEMMA TheRun ==
  ASSUME NEW w \in Worker
  PROVE  /\ InMonth = {w} => CurrentRun = RunOf(w)
         /\ InMonth = {} => CurrentRun = NoWorker
         /\ InMonth' = {w} => CurrentRun' = RunOf(w)'
         /\ InMonth' = {} => CurrentRun' = NoWorker
BY DEF CurrentRun, RunOf

\* A calculation that is under way is one, of a month the worker has still to run.
LEMMA InMonthAlone ==
  ASSUME RunInv, NEW w \in Worker, pc[w] = "commit"
  PROVE  /\ InMonth = {w} /\ CurrentRun = RunOf(w) /\ CurrentRun # NoWorker
         /\ CurrentRun.month = First(todo[w]) /\ CurrentRun.complete = fresh[w]
         /\ First(todo[w]) \in todo[w] /\ todo[w] \in SUBSET Month /\ todo[w] # {}
<1>1. todo[w] \in SUBSET Month /\ fresh[w] \in BOOLEAN /\ todo[w] # {}
  BY DEF RunInv, Inv, TypeOK, HandInv, HandOf
<1>2. First(todo[w]) \in todo[w]
  BY <1>1, FirstInSet
<1>3. InMonth = {w}
  BY Alone DEF InMonth, Locked
<1>4. CurrentRun = RunOf(w)
  BY <1>3, TheRun
<1>5. RunOf(w) \in Serial!Run
  BY <1>1, <1>2 DEF RunOf, Serial!Run, PlainRow
<1> QED
  BY <1>1, <1>2, <1>3, <1>4, <1>5, NothingAssumption DEF RunOf

\* Nobody is in a month while the worker in the loop is elsewhere.
LEMMA NoMonth ==
  ASSUME RunInv, NEW w \in Worker, pc[w] \in Locked, pc[w] # "commit"
  PROVE  InMonth = {} /\ CurrentRun = NoWorker
<1>1. InMonth = {}
  BY Alone DEF InMonth, Locked
<1> QED
  BY <1>1, TheRun

\* Nobody is in a month after a step of that worker which begins none.
LEMMA NoMonthNext ==
  ASSUME RunInv, NEW w \in Worker, pc[w] \in Locked, pc'[w] # "commit",
         \A v \in Worker : v # w => pc'[v] = pc[v]
  PROVE  CurrentRun' = NoWorker
<1>1. InMonth' = {}
  BY Alone DEF InMonth, Locked
<1> QED
  BY <1>1, TheRun

\* The calculation under way stands while its worker and its row do.
LEMMA RunStands ==
  ASSUME RunInv,
         \A w \in Worker : pc'[w] = "commit" <=> pc[w] = "commit",
         \A w \in Worker : pc[w] = "commit" =>
           /\ todo'[w] = todo[w] /\ fresh'[w] = fresh[w] /\ head'[w] = head[w]
           /\ row'[head[w]].reason = row[head[w]].reason
  PROVE  CurrentRun' = CurrentRun
<1>1. InMonth' = InMonth
  BY DEF InMonth
<1>2. CASE InMonth = {}
  BY <1>1, <1>2 DEF CurrentRun
<1>3. CASE InMonth # {}
  <2>1. PICK w \in Worker : pc[w] = "commit"
    BY <1>3 DEF InMonth
  <2>2. InMonth = {w} /\ CurrentRun = RunOf(w)
    BY <2>1, InMonthAlone
  <2>3. RunOf(w)' = RunOf(w)
    BY <2>1 DEF RunOf, PlainRow
  <2> QED
    BY <1>1, <2>2, <2>3, TheRun
<1> QED
  BY <1>2, <1>3

\* Such a step is seen outside only by what it puts on the record, if anything.
LEMMA SeenAsRefuse ==
  ASSUME CurrentRun' = CurrentRun, UNCHANGED <<stale, finalized>>,
         NEW ms \in SUBSET Month, excused' = excused \cup ms
  PROVE  [Serial!Next]_Serial!vars
<1>1. Serial!Refuse(ms)
  BY DEF Serial!Refuse, FinalizedMonth
<1> QED
  BY <1>1 DEF Serial!Next

\* A step that puts nothing on the record is not seen.
LEMMA Unseen ==
  ASSUME CurrentRun' = CurrentRun, UNCHANGED <<stale, finalized, excused>>
  PROVE  [Serial!Next]_Serial!vars
BY DEF Serial!vars, FinalizedMonth

\* A record that is saved.
LEMMA SaveSeen ==
  ASSUME RunInv, NEW u \in User, NEW ms \in SUBSET Month, NEW why, SaveRecord(u, ms, why)
  PROVE  [Serial!Next]_Serial!vars
<1>1. /\ stale' = stale \cup ms /\ excused' = excused \ ms
      /\ fresh' = [w \in Worker |-> fresh[w] /\ ~(todo[w] # {} /\ First(todo[w]) \in ms)]
      /\ UNCHANGED <<row, pc, head, todo, finalized>>
  BY DEF SaveRecord
<1>2. InMonth' = InMonth
  BY <1>1 DEF InMonth
<1> DEFINE new == IF CurrentRun # NoWorker /\ CurrentRun.month \in ms
                    THEN [CurrentRun EXCEPT !.complete = FALSE] ELSE CurrentRun
<1>3. CurrentRun' = new
  <2>1. CASE InMonth = {}
    BY <1>2, <2>1 DEF CurrentRun
  <2>2. ASSUME NEW w \in Worker, pc[w] = "commit" PROVE CurrentRun' = new
    <3>1. /\ InMonth = {w} /\ CurrentRun = RunOf(w) /\ CurrentRun # NoWorker
          /\ CurrentRun.month = First(todo[w]) /\ todo[w] # {}
      BY <2>2, InMonthAlone
    <3>2. CurrentRun' = RunOf(w)'
      BY <1>2, <3>1, TheRun
    <3>3. RunOf(w)' = [RunOf(w) EXCEPT !.complete = fresh'[w]]
      BY <1>1 DEF RunOf, PlainRow
    <3>4. CASE First(todo[w]) \in ms
      <4>1. fresh'[w] = FALSE
        BY <1>1, <3>1, <3>4
      <4> QED
        BY <3>1, <3>2, <3>3, <3>4, <4>1
    <3>5. CASE First(todo[w]) \notin ms
      <4>1. fresh'[w] = fresh[w]
        BY <1>1, <3>5 DEF RunInv, Inv, TypeOK
      <4>2. RunOf(w)' = RunOf(w)
        BY <1>1, <4>1 DEF RunOf, PlainRow
      <4> QED
        BY <3>1, <3>2, <3>5, <4>2
    <3> QED
      BY <3>4, <3>5
  <2> QED
    BY <2>1, <2>2 DEF InMonth
<1> HIDE DEF new
<1>4. Serial!Save(ms)
  BY <1>1, <1>3 DEF new, Serial!Save, FinalizedMonth
<1> QED
  BY <1>4 DEF Serial!Next

\* A month that begins.
LEMMA BeginSeen ==
  ASSUME RunInv, NEW w \in Worker, BeginMonth(w)
  PROVE  [Serial!Next]_Serial!vars
<1> DEFINE m == First(todo[w])
           door == ~PlainRow(head[w])
<1>1. /\ pc[w] = "month" /\ pc'[w] = "commit" /\ fresh'[w] = TRUE /\ todo[w] # {}
      /\ \A v \in Worker : v # w => pc'[v] = pc[v]
      /\ UNCHANGED <<row, head, todo, stale, excused, finalized>>
  BY DEF BeginMonth, RunInv, Inv, TypeOK
<1>2. CurrentRun = NoWorker /\ InMonth = {}
  BY <1>1, NoMonth DEF Locked
<1>3. InMonth' = {w}
  BY <1>1, <1>2 DEF InMonth
<1>4. CurrentRun' = [by |-> w, month |-> m, door |-> door, complete |-> TRUE]
  BY <1>1, <1>3, TheRun DEF RunOf, PlainRow
<1>5. m \in Month /\ door \in BOOLEAN
  BY <1>1, FirstInSet DEF RunInv, Inv, TypeOK
<1>6. door \/ m \notin {n \in Month : FinalizedMonth(n)}
  BY DEF BeginMonth
<1> HIDE DEF m, door
<1>7. Serial!Begin(w, m, door)
  BY <1>1, <1>2, <1>4, <1>6 DEF Serial!Begin, FinalizedMonth
<1> QED
  BY <1>5, <1>7 DEF Serial!Next

\* A month that is committed.
LEMMA CommitSeen ==
  ASSUME RunInv, NEW w \in Worker, CommitMonth(w)
  PROVE  [Serial!Next]_Serial!vars
<1>1. /\ pc[w] = "commit" /\ pc'[w] = "count" /\ \A v \in Worker : v # w => pc'[v] = pc[v]
      /\ stale' = stale \ (IF fresh[w] THEN {First(todo[w])} ELSE {})
      /\ excused' = excused \ (IF fresh[w] THEN {First(todo[w])} ELSE {})
      /\ finalized' = finalized
  BY DEF CommitMonth, RunInv, Inv, TypeOK
<1>2. /\ CurrentRun # NoWorker
      /\ CurrentRun.month = First(todo[w]) /\ CurrentRun.complete = fresh[w]
  BY <1>1, InMonthAlone
<1>3. CurrentRun' = NoWorker
  BY <1>1, NoMonthNext DEF Locked
<1>4. /\ stale' = IF CurrentRun.complete THEN stale \ {CurrentRun.month} ELSE stale
      /\ excused' = IF CurrentRun.complete THEN excused \ {CurrentRun.month} ELSE excused
  BY <1>1, <1>2
<1>5. Serial!Commit
  BY <1>1, <1>2, <1>3, <1>4 DEF Serial!Commit, FinalizedMonth
<1> QED
  BY <1>5 DEF Serial!Next

\* A month that does not end, and what its run had left.
LEMMA GiveUpSeen ==
  ASSUME RunInv, NEW w \in Worker, pc[w] = "commit", pc'[w] # "commit",
         \A v \in Worker : v # w => pc'[v] = pc[v],
         excused' = excused \cup todo[w], UNCHANGED <<stale, finalized>>
  PROVE  [Serial!Next]_Serial!vars
<1>1. /\ CurrentRun # NoWorker /\ CurrentRun.month \in todo[w] /\ todo[w] \in SUBSET Month
  BY InMonthAlone
<1>2. CurrentRun' = NoWorker
  BY NoMonthNext DEF Locked
<1>3. Serial!GiveUp(todo[w])
  BY <1>1, <1>2 DEF Serial!GiveUp, FinalizedMonth
<1> QED
  BY <1>1, <1>3 DEF Serial!Next

\* What the worker in the loop does between months.
LEMMA BetweenSeen ==
  ASSUME RunInv, NEW w \in Worker, pc[w] \in Locked, pc[w] # "commit", pc'[w] # "commit",
         \A v \in Worker : v # w => pc'[v] = pc[v],
         UNCHANGED <<stale, finalized>>,
         NEW ms \in SUBSET Month, excused' = excused \cup ms
  PROVE  [Serial!Next]_Serial!vars
<1>1. CurrentRun = NoWorker /\ CurrentRun' = NoWorker
  BY NoMonth, NoMonthNext
<1> QED
  BY <1>1, SeenAsRefuse

\* A run that stops puts what it leaves undone on the record.
LEMMA StopSeen ==
  ASSUME RunInv, NEW w \in Worker, Refuse(w) \/ RejectMonth(w) \/ Fail(w)
  PROVE  [Serial!Next]_Serial!vars
<1> DEFINE left == IF pc[w] = "check" THEN row[head[w]].months ELSE todo[w]
<1>1. Stop(w, left) /\ pc[w] \in {"check", "month", "commit"}
  BY DEF Refuse, RejectMonth, Fail
<1>2. left \in SUBSET Month
  BY <1>1, HeadIsRow DEF InHand, Locked, RunInv, Inv, TypeOK, RequestRow
<1>3. /\ pc'[w] = "health" /\ \A v \in Worker : v # w => pc'[v] = pc[v]
      /\ excused' = excused \cup left /\ UNCHANGED <<stale, finalized>>
  BY <1>1 DEF Stop, RunInv, Inv, TypeOK
<1>4. pc[w] = "commit" => left = todo[w]
  OBVIOUS
<1> HIDE DEF left
<1> QED
  BY <1>1, <1>2, <1>3, <1>4, GiveUpSeen, BetweenSeen DEF Locked

\* Months without data are dropped before they begin.
LEMMA TrimSeen ==
  ASSUME RunInv, NEW w \in Worker, Trim(w)
  PROVE  [Serial!Next]_Serial!vars
<1> DEFINE ms == row[head[w]].months \ MonthsToRun(row[head[w]].months)
<1>1. ms \in SUBSET Month
  BY HeadIsRow DEF Trim, InHand, Locked, RequestRow
<1>2. /\ pc[w] = "check" /\ pc'[w] = "month" /\ \A v \in Worker : v # w => pc'[v] = pc[v]
      /\ excused' = excused \cup ms /\ UNCHANGED <<stale, finalized>>
  BY DEF Trim, RunInv, Inv, TypeOK
<1> HIDE DEF ms
<1> QED
  BY <1>1, <1>2, BetweenSeen DEF Locked

\* What else the worker in the loop does is not seen.
LEMMA LoopUnseen ==
  ASSUME RunInv, NEW w \in Worker,
         \/ Unlock(w) \/ EmptyQueue(w) \/ TakeHead(w) \/ Absorb(w) \/ Mirror(w) \/ Handled(w)
         \/ Start(w) \/ CountMonth(w) \/ Finish(w) \/ Health(w)
  PROVE  [Serial!Next]_Serial!vars
<1>1. pc[w] \in Locked /\ pc[w] # "commit"
  BY DEF Unlock, EmptyQueue, TakeHead, Absorb, Mirror, Handled, Start, CountMonth, Finish, Health, Locked
<1>2. pc'[w] # "commit" /\ \A v \in Worker : v # w => pc'[v] = pc[v]
  BY DEF Unlock, EmptyQueue, TakeHead, Absorb, Mirror, Handled, Start, CountMonth, Finish, Health,
     RunInv, Inv, TypeOK
<1>3. UNCHANGED <<stale, finalized, excused>>
  BY DEF Unlock, EmptyQueue, TakeHead, Absorb, Mirror, Handled, Start, CountMonth, Finish, Health
<1> QED
  BY <1>1, <1>2, <1>3, NoMonth, NoMonthNext, Unseen

\* Nor what other workers and people do, unless they drop months.
LEMMA OutsideUnseen ==
  ASSUME RunInv,
         \/ \E u \in User, p \in Period : Press(u, p)
         \/ \E u \in User, w \in Worker : Launch(u, w)
         \/ \E w \in Worker : Nightly(w) \/ NightlyRun(w) \/ TryLock(w) \/ Look(w)
         \/ \E m \in Month : DataArrives(m)
         \/ \E r \in Request : TwoHoursPass(r)
         \/ UNCHANGED vars
  PROVE  [Serial!Next]_Serial!vars
<1>1. UNCHANGED <<row, head, todo, fresh, stale, finalized, excused>>
  BY DEF Press, Launch, Nightly, NightlyRun, TryLock, Look, DataArrives, TwoHoursPass, vars, workerVars
<1>2. \A v \in Worker : pc'[v] = "commit" <=> pc[v] = "commit"
  BY DEF Press, Launch, Nightly, NightlyRun, TryLock, Look, DataArrives, TwoHoursPass, vars, workerVars,
     RunInv, Inv, TypeOK
<1> QED
  BY <1>1, <1>2, RunStands, Unseen

\* People's requests drop months of finalized years, and die.
LEMMA DropSeen ==
  ASSUME RunInv, NEW u \in User, RequestMonths(u) \/ WebDies(u)
  PROVE  [Serial!Next]_Serial!vars
<1>1. UNCHANGED <<row, pc, head, todo, fresh, stale, finalized>>
  BY DEF RequestMonths, WebDies, workerVars
<1>2. CurrentRun' = CurrentRun
  BY <1>1, RunStands
<1>3. web[u].months \in SUBSET Month
  BY DEF RunInv, Inv, TypeOK, WebRequest
<1>4. PICK ms \in SUBSET Month : excused' = excused \cup ms
  BY <1>3 DEF RequestMonths, WebDies
<1> QED
  BY <1>1, <1>2, <1>4, SeenAsRefuse

\* A row that is created is not the one whose month is under way.
LEMMA CreateUnseen ==
  ASSUME RunInv, NEW p, NEW ms \in SUBSET Month, NEW why, CreateRow(p, ms, why),
         UNCHANGED <<head, todo, fresh, stale, finalized, excused>>,
         \A w \in Worker : pc'[w] = "commit" <=> pc[w] = "commit"
  PROVE  [Serial!Next]_Serial!vars
<1>1. /\ \A w \in Worker : head[w] # NewRow
      /\ \A q \in Request : q # NewRow => row'[q] = row[q]
  BY CreatesRow
<1>2. \A w \in Worker : pc[w] = "commit" => head[w] \in Request
  BY HeadIsRow DEF InHand, Locked
<1>3. CurrentRun' = CurrentRun
  BY <1>1, <1>2, RunStands
<1> QED
  BY <1>3, Unseen

\* Rows are not seen.
LEMMA CreatesUnseen ==
  ASSUME RunInv,
         \/ \E u \in User : CreateNext(u) \/ PressCreate(u)
         \/ \E w \in Worker : NightlyCreate(w)
         \/ \E w \in Worker, ms \in SUBSET Month : Command(w, ms)
  PROVE  [Serial!Next]_Serial!vars
<1>1. UNCHANGED <<head, todo, fresh, stale, finalized, excused>>
  BY DEF CreateNext, PressCreate, NightlyCreate, Command, workerVars
<1>2. \A w \in Worker : pc'[w] = "commit" <=> pc[w] = "commit"
  BY DEF CreateNext, PressCreate, NightlyCreate, Command, workerVars, RunInv, Inv, TypeOK
<1>3. \A p : MonthsOf(p) \in SUBSET Month
  BY DEF MonthsOf
<1>4. \A u \in User : \A p : {m \in web[u].months : PeriodOf[m] = p} \in SUBSET Month
  BY DEF RunInv, Inv, TypeOK, WebRequest
<1>5. \E p, why : \E ms \in SUBSET Month : CreateRow(p, ms, why)
  BY <1>3, <1>4 DEF CreateNext, PressCreate, NightlyCreate, Command
<1> QED
  BY <1>1, <1>2, <1>5, CreateUnseen

\* Site Health leaves the reason of a run as it is.
LEMMA HealthUnseen ==
  ASSUME RunInv, HealthCheck
  PROVE  [Serial!Next]_Serial!vars
<1>1. UNCHANGED <<pc, head, todo, fresh, stale, finalized, excused>> /\ FailLateRuns
  BY DEF HealthCheck, workerVars
<1>2. \A r \in Request : row'[r].reason = row[r].reason
  BY <1>1, FailsLate
<1>3. \A w \in Worker : pc[w] = "commit" => head[w] \in Request
  BY HeadIsRow DEF InHand, Locked
<1>4. CurrentRun' = CurrentRun
  BY <1>1, <1>2, <1>3, RunStands
<1> QED
  BY <1>1, <1>4, Unseen

\* A process that dies in a month gives it up, elsewhere what it had not begun.
LEMMA CrashSeen ==
  ASSUME RunInv, NEW w \in Worker, WorkerDies(w)
  PROVE  [Serial!Next]_Serial!vars
<1>1. /\ pc'[w] = "off" /\ \A v \in Worker : v # w => /\ pc'[v] = pc[v] /\ head'[v] = head[v]
                                                     /\ todo'[v] = todo[v] /\ fresh'[v] = fresh[v]
      /\ excused' = excused \cup Unfinished(w) /\ UNCHANGED <<row, stale, finalized>>
  BY DEF WorkerDies, RunInv, Inv, TypeOK
<1>2. Unfinished(w) \in SUBSET Month /\ (pc[w] = "commit" => Unfinished(w) = todo[w])
  BY HeadIsRow DEF Unfinished, InHand, Locked, RunInv, Inv, TypeOK, RequestRow
<1>3. CASE pc[w] = "commit"
  BY <1>1, <1>2, <1>3, GiveUpSeen
<1>4. CASE pc[w] # "commit"
  <2>1. CurrentRun' = CurrentRun
    BY <1>1, <1>4, RunStands
  <2> QED
    BY <1>1, <1>2, <2>1, SeenAsRefuse
<1> QED
  BY <1>3, <1>4

\* A year that is finalized or opened changes no calculation under way.
LEMMA ToggleSeen ==
  ASSUME RunInv, NEW p \in Period, ToggleFinalized(p)
  PROVE  [Serial!Next]_Serial!vars
<1>1. UNCHANGED <<row, pc, head, todo, fresh, stale, excused>>
  BY DEF ToggleFinalized, workerVars
<1>2. CurrentRun' = CurrentRun
  BY <1>1, RunStands
<1> DEFINE ms == {m \in Month : FinalizedMonth(m)'}
<1>3. Serial!Finalize(ms)
  BY <1>1, <1>2 DEF Serial!Finalize
<1>4. ms \in SUBSET Month
  OBVIOUS
<1> HIDE DEF ms
<1> QED
  BY <1>3, <1>4 DEF Serial!Next

\* Every step is one of SerialCalculation, or not seen.
LEMMA SerialStep == RunInv /\ [Next]_vars => [Serial!Next]_Serial!vars
<1> SUFFICES ASSUME RunInv, [Next]_vars PROVE [Serial!Next]_Serial!vars
  OBVIOUS
<1>1. CASE \E u \in User, ms \in SUBSET Month, why \in Reason \cup {Plain} : SaveRecord(u, ms, why)
  BY <1>1, SaveSeen
<1>2. CASE (\E u \in User : WebStep(u)) \/ \E u \in User : WebDies(u)
  BY <1>2, DropSeen, CreatesUnseen, OutsideUnseen DEF WebStep
<1>3. CASE \E w \in NightWorker : Nightly(w)
  BY <1>3, OutsideUnseen, NightWorkerAssumption
<1>4. CASE \E w \in Worker, ms \in SUBSET Month : Command(w, ms)
  BY <1>4, CreatesUnseen
<1>5. CASE \E w \in Worker : WorkerStep(w)
  BY <1>5, OutsideUnseen, CreatesUnseen, LoopUnseen, StopSeen, TrimSeen, BeginSeen, CommitSeen
  DEF WorkerStep
<1>6. CASE \E w \in Worker : WorkerDies(w)
  BY <1>6, CrashSeen
<1>7. CASE HealthCheck
  BY <1>7, HealthUnseen
<1>8. CASE \E p \in Period : ToggleFinalized(p)
  BY <1>8, ToggleSeen
<1>9. CASE \/ \E u \in User, p \in Period : Press(u, p)
           \/ \E m \in Month : DataArrives(m)
           \/ \E r \in Request : TwoHoursPass(r)
           \/ UNCHANGED vars
  BY <1>9, OutsideUnseen
<1> QED
  BY <1>1, <1>2, <1>3, <1>4, <1>5, <1>6, <1>7, <1>8, <1>9 DEF Next

\* Whatever requests overlap, are folded, fail or die, whoever is turned away from
\* the lock and whenever the queue is looked at again, the site sees calculations
\* of single months one after another, each showing the records saved before it
\* began, none in a finalized year but through the door (run_queue, execute).
THEOREM QueueIsSerial == Spec => CalculatesSerially
<1>1. Init => Serial!Init
  BY DEF Init, Serial!Init, CurrentRun, InMonth, FinalizedMonth
<1> QED
  BY <1>1, SerialStep, RunAlways, PTL DEF Spec, CalculatesSerially, Serial!Spec

(* Sums, rounding and keys *)

\* The sums of the community modules are totals.
LEMMA SumsAreTotals ==
  /\ \A f : SumFunction(f) = Total(f, DOMAIN f)
  /\ \A f, S : SumFunctionOnSet(f, S) = Total(f, S)
BY DEF SumFunction, SumFunctionOnSet, FoldFunctionOnSet, Total, MapThenSumSet

\* A rounded quotient is an integer within half the divisor, and not below nothing
\* when what is divided is not.
LEMMA QuantizeIsNear ==
  ASSUME NEW n \in Int, NEW d \in Nat \ {0}
  PROVE  /\ Quantize(n, d) \in Int
         /\ 2 * (Quantize(n, d) * d - n) <= d /\ -d <= 2 * (Quantize(n, d) * d - n)
         /\ n >= 0 => Quantize(n, d) \in Nat
<1> DEFINE q == n \div d
           r == n % d
<1>1. q \in Int /\ r \in 0 .. (d - 1) /\ n = d * q + r
  OBVIOUS
<1>2. n >= 0 => q >= 0
  OBVIOUS
<1> HIDE DEF q, r
<1>3. \/ Quantize(n, d) = q /\ 2 * r <= d
      \/ Quantize(n, d) = q + 1 /\ 2 * r >= d
  <2>1. Quantize(n, d) = IF 2 * r < d \/ (2 * r = d /\ q % 2 = 0) THEN q ELSE q + 1
    BY DEF Quantize, q, r
  <2>2. 2 * r < d \/ 2 * r = d \/ 2 * r > d
    BY <1>1
  <2>3. QED
    BY <1>1, <2>1, <2>2
<1>4. CASE Quantize(n, d) = q /\ 2 * r <= d
  <2>1. q * d - n = -r
    BY <1>1
  <2>2. QED
    BY <1>1, <1>2, <1>4, <2>1
<1>5. CASE Quantize(n, d) = q + 1 /\ 2 * r >= d
  <2>1. (q + 1) * d - n = d - r
    BY <1>1
  <2>2. QED
    BY <1>1, <1>2, <1>5, <2>1
<1>6. QED
  BY <1>3, <1>4, <1>5

\* A finite set has a first member in any order that compares all of them.
LEMMA FirstInOrder ==
  ASSUME NEW A, IsFiniteSet(A), A # {}, NEW R,
         \A x, y \in A : <<x, y>> \in R \/ <<y, x>> \in R,
         \A x, y, z \in A : <<x, y>> \in R /\ <<y, z>> \in R => <<x, z>> \in R
  PROVE  \E x \in A : \A y \in A : <<x, y>> \in R
<1> DEFINE P == {S \in SUBSET A : S # {} => \E x \in S : \A y \in S : <<x, y>> \in R}
<1>1. {} \in P
  OBVIOUS
<1>2. ASSUME NEW S \in SUBSET A, S # {}, \A x \in S : S \ {x} \in P
      PROVE  S \in P
  <2>1. PICK x \in S : TRUE
    BY <1>2
  <2>2. CASE S \ {x} = {}
    <3>1. \A y \in S : y = x
      BY <2>2
    <3>2. QED
      BY <3>1
  <2>3. CASE S \ {x} # {}
    <3>1. PICK z \in S \ {x} : \A y \in S \ {x} : <<z, y>> \in R
      BY <1>2, <2>3
    <3>2. CASE <<z, x>> \in R
      <4>1. \A y \in S : <<z, y>> \in R
        BY <3>1, <3>2
      <4>2. QED
        BY <4>1
    <3>3. CASE <<x, z>> \in R
      <4>1. \A y \in S : <<x, y>> \in R
        BY <3>1, <3>3
      <4>2. QED
        BY <4>1
    <3>4. QED
      BY <3>2, <3>3
  <2>4. QED
    BY <2>2, <2>3
<1>3. A \in P
  <2> HIDE DEF P
  <2> QED
    BY <1>1, <1>2, SetBySet
<1>4. QED
  BY <1>3

\* A finite set of integers has a greatest one and a least.
LEMMA GreatestAndLeast ==
  ASSUME NEW A, IsFiniteSet(A), A # {}, A \subseteq Int
  PROVE  /\ LastKey(A) \in A /\ \A y \in A : y <= LastKey(A)
         /\ Min(A) \in A /\ \A y \in A : Min(A) <= y
         /\ Max(A) \in A /\ \A y \in A : y <= Max(A)
<1>1. Min(A) \in A /\ \A y \in A : Min(A) <= y
  BY MinIsIn
<1>2. \E x \in A : \A y \in A : y <= x
  <2> DEFINE R == {r \in A \X A : r[2] <= r[1]}
  <2>1. \A x, y \in A : <<x, y>> \in R <=> y <= x
    OBVIOUS
  <2>2. \A x, y \in A : <<x, y>> \in R \/ <<y, x>> \in R
    <3>1. \A x, y \in A : y <= x \/ x <= y
      OBVIOUS
    <3> HIDE DEF R
    <3>2. QED
      BY <2>1, <3>1
  <2>3. \A x, y, z \in A : <<x, y>> \in R /\ <<y, z>> \in R => <<x, z>> \in R
    BY <2>1
  <2> HIDE DEF R
  <2>4. \E x \in A : \A y \in A : <<x, y>> \in R
    BY <2>2, <2>3, FirstInOrder
  <2>5. QED
    BY <2>1, <2>4
<1>3. QED
  BY <1>1, <1>2 DEF LastKey, Max

\* Nothing but zeros adds up to 0.
LEMMA TotalOfZeros ==
  ASSUME NEW A, IsFiniteSet(A), NEW f, \A x \in A : f[x] = 0
  PROVE  Total(f, A) = 0
<1>1. /\ Cardinality(A) \in Nat /\ Total(f, A) \in Int
      /\ 2 * Total(f, A) <= 0 * Cardinality(A) /\ -(0 * Cardinality(A)) <= 2 * Total(f, A)
  <2>1. \A x \in A : f[x] \in Int /\ 2 * f[x] <= 0 /\ -0 <= 2 * f[x]
    OBVIOUS
  <2>2. QED
    BY <2>1, TotalOfSmall
<1>2. QED
  BY <1>1

\* Integers that are the same but for one.
SameBut(A, f, g, x) ==
  \A y \in A : f[y] \in Int /\ g[y] \in Int /\ (y # x => g[y] = f[y])

\* Changing one figure changes the sum by as much.
LEMMA TotalChanged ==
  ASSUME NEW A, IsFiniteSet(A), NEW f, NEW g, NEW x \in A, SameBut(A, f, g, x)
  PROVE  /\ Total(f, A) \in Int /\ Total(g, A) \in Int
         /\ Total(g, A) - Total(f, A) = g[x] - f[x]
<1>1. /\ Total(f, A) = f[x] + Total(f, A \ {x}) /\ Total(f, A \ {x}) \in Int
      /\ Total(g, A) = g[x] + Total(g, A \ {x}) /\ Total(g, A \ {x}) \in Int
  <2>1. (\A y \in A : f[y] \in Int) /\ (\A y \in A : g[y] \in Int)
    BY DEF SameBut
  <2>2. A \in SUBSET A
    OBVIOUS
  <2>3. QED
    BY <2>1, <2>2, TotalOfPart
<1>2. Total(f, A \ {x}) = Total(g, A \ {x})
  <2>1. IsFiniteSet(A \ {x}) /\ Alike(A \ {x}, f, g)
    BY FS_Subset DEF Alike, SameBut
  <2>2. QED
    BY <2>1, TotalAlike
<1>3. f[x] \in Int /\ g[x] \in Int
  BY DEF SameBut
<1>4. QED
  BY <1>1, <1>2, <1>3

-----------------------------------------------------------------------------
(* Shares *)

\* What is left over goes to one key, and then the shares add up to the target.
LEMMA PlacedAddsUp ==
  ASSUME NEW K, IsFiniteSet(K), K # {}, K \subseteq Int, NEW s \in [K -> Int], NEW target \in Int
  PROVE  /\ PlaceResidual(s, target) \in [K -> Int]
         /\ SumFunction(PlaceResidual(s, target)) = target
<1> DEFINE k == LastKey(K)
           sum == SumFunction(s)
           t == [s EXCEPT ![k] = s[k] + target - sum]
<1>1. k \in K
  BY GreatestAndLeast
<1>2. sum = Total(s, K)
  BY SumsAreTotals
<1>3. sum \in Int
  BY <1>2, TotalIsInt
<1>4. PlaceResidual(s, target) = t
  BY DEF PlaceResidual
<1> HIDE DEF k, sum
<1>5. t \in [K -> Int] /\ t[k] = s[k] + target - sum /\ \A y \in K : y # k => t[y] = s[y]
  BY <1>1, <1>3
<1> HIDE DEF t
<1>6. SumFunction(t) = Total(t, K)
  BY <1>5, SumsAreTotals
<1>7. Total(t, K) \in Int /\ Total(t, K) - Total(s, K) = t[k] - s[k]
  <2>1. SameBut(K, s, t, k)
    BY <1>5 DEF SameBut
  <2>2. QED
    BY <1>1, <2>1, TotalChanged
<1>8. s[k] \in Int
  BY <1>1
<1>9. QED
  BY <1>2, <1>3, <1>4, <1>5, <1>6, <1>7, <1>8

\* Shares added key by key add up to both sums.
LEMMA SharesAdded ==
  ASSUME NEW A, IsFiniteSet(A), NEW s, Amounts(s, A, Int), NEW t, Amounts(t, A, Int)
  PROVE  /\ Amounts(AddShares(s, t), A, Int)
         /\ SumFunction(s) \in Int /\ SumFunction(t) \in Int
         /\ SumFunction(AddShares(s, t)) = SumFunction(s) + SumFunction(t)
<1> DEFINE S == DOMAIN s
           T == DOMAIN t
           U == S \cup T
           p == [x \in U |-> IF x \in S THEN s[x] ELSE 0]
           q == [x \in U |-> IF x \in T THEN t[x] ELSE 0]
           a == [x \in U |-> p[x] + q[x]]
<1>0. /\ s \in [S -> Int] /\ t \in [T -> Int] /\ S \subseteq A /\ T \subseteq A
      /\ IsFiniteSet(S) /\ IsFiniteSet(T)
  <2>1. s \in [S -> Int] /\ t \in [T -> Int] /\ S \subseteq A /\ T \subseteq A
    BY DEF Amounts
  <2>2. QED
    BY <2>1, FS_Subset
<1>1. IsFiniteSet(U)
  BY <1>0, FS_Union
<1>2. AddShares(s, t) = a /\ a \in [U -> Int] /\ U \subseteq A
  BY <1>0 DEF AddShares
<1> HIDE DEF S, T
<1>3. \A x \in U : p[x] \in Int /\ q[x] \in Int /\ a[x] = p[x] + q[x]
  BY <1>0
<1>4. /\ (\A x \in S : p[x] = s[x]) /\ (\A x \in U \ S : p[x] = 0)
      /\ (\A x \in T : q[x] = t[x]) /\ (\A x \in U \ T : q[x] = 0)
  OBVIOUS
<1>5. S \in SUBSET U /\ T \in SUBSET U
  OBVIOUS
<1>6. SumFunction(s) = Total(s, S) /\ SumFunction(t) = Total(t, T) /\ SumFunction(a) = Total(a, U)
  BY <1>0, <1>2, SumsAreTotals
<1>7. Total(s, S) \in Int /\ Total(t, T) \in Int
  <2>1. (\A x \in S : s[x] \in Int) /\ (\A x \in T : t[x] \in Int)
    BY <1>0
  <2>2. QED
    BY <1>0, <2>1, TotalIsInt
<1> HIDE DEF U, p, q, a
<1>8. Total(p, U) = Total(s, S)
  <2>1. Total(p, U) = Total(p, S) + Total(p, U \ S)
    BY <1>1, <1>3, <1>5, TotalInTwo
  <2>2. Total(p, U \ S) = 0
    <3>1. IsFiniteSet(U \ S)
      BY <1>1, FS_Subset
    <3>2. QED
      BY <1>4, <3>1, TotalOfZeros
  <2>3. Total(p, S) = Total(s, S)
    BY <1>0, <1>4, TotalAlike DEF Alike
  <2>4. QED
    BY <1>7, <2>1, <2>2, <2>3
<1>9. Total(q, U) = Total(t, T)
  <2>1. Total(q, U) = Total(q, T) + Total(q, U \ T)
    BY <1>1, <1>3, <1>5, TotalInTwo
  <2>2. Total(q, U \ T) = 0
    <3>1. IsFiniteSet(U \ T)
      BY <1>1, FS_Subset
    <3>2. QED
      BY <1>4, <3>1, TotalOfZeros
  <2>3. Total(q, T) = Total(t, T)
    BY <1>0, <1>4, TotalAlike DEF Alike
  <2>4. QED
    BY <1>7, <2>1, <2>2, <2>3
<1>10. Total(a, U) = Total(p, U) + Total(q, U)
  BY <1>1, <1>3, TotalOfSums
<1>11. QED
  <2>1. Amounts(a, A, Int)
    BY <1>2 DEF Amounts
  <2>2. QED
    BY <1>2, <1>6, <1>7, <1>8, <1>9, <1>10, <2>1 DEF S, T

\* Weights of a shared source are whole parts of one whole.
LEMMA WeightsAddUp ==
  ASSUME NEW F, IsFiniteSet(F), F # {}, F \subseteq Int,
         NEW fraction \in [F -> Nat], NEW demand \in [F -> Nat]
  PROVE  ApportionSharedSupply(fraction, demand) \in [F -> Int]
<1> DEFINE even == [k \in F |-> 1]
           w == RawWeights(fraction, demand)
           all == SumFunction(w)
           part == [k \in F |-> Quantize(w[k] * Whole, all)]
<1>1. \A v \in [F -> Nat] : SumFunction(v) = Total(v, F) /\ Total(v, F) \in Nat
  <2> SUFFICES ASSUME NEW v \in [F -> Nat] PROVE SumFunction(v) = Total(v, F) /\ Total(v, F) \in Nat
    OBVIOUS
  <2>1. \A x \in F : v[x] \in Nat
    OBVIOUS
  <2>2. QED
    BY <2>1, SumsAreTotals, TotalIsNat
<1>2. even \in [F -> Nat] /\ SumFunction(even) \in Nat \ {0}
  <2>1. even \in [F -> Nat] /\ SumFunction(even) = Total(even, F)
    BY SumsAreTotals
  <2>2. \A x \in F : even[x] \in Nat /\ even[x] # 0
    OBVIOUS
  <2> HIDE DEF even
  <2>3. QED
    BY <2>1, <2>2, TotalIsNat
<1>3. w \in [F -> Nat] /\ all \in Nat \ {0}
  <2> DEFINE asked == IF \E k \in F : fraction[k] # Whole THEN fraction
                      ELSE IF SumFunction(demand) > 0 THEN demand ELSE even
  <2>1. asked \in [F -> Nat]
    BY <1>2
  <2>2. w = IF SumFunction(asked) > 0 THEN asked ELSE even
    BY DEF RawWeights
  <2>3. SumFunction(asked) \in Nat
    BY <1>1, <2>1
  <2> HIDE DEF asked, even, w
  <2>4. QED
    BY <1>2, <2>1, <2>2, <2>3
<1> HIDE DEF w, all
<1>4. part \in [F -> Int]
  <2>1. \A k \in F : w[k] * Whole \in Int
    BY <1>3 DEF Whole
  <2>2. QED
    BY <1>3, <2>1, QuantizeIsNear
<1>5. ApportionSharedSupply(fraction, demand) = PlaceResidual(part, Whole)
  BY <1>3 DEF ApportionSharedSupply, w, all
<1>6. Whole \in Int
  BY DEF Whole
<1> HIDE DEF part
<1>7. PlaceResidual(part, Whole) \in [F -> Int]
  BY <1>4, <1>6, PlacedAddsUp
<1>8. QED
  BY <1>5, <1>7

\* The caps of the use areas that need water.
LEMMA CapsAre ==
  ASSUME NEW F, NEW demand \in [F -> Int], NEW efficiency \in [F -> 1 .. FullEfficiency]
  PROVE  /\ DOMAIN DemandCaps(demand, efficiency) = {k \in F : demand[k] > 0}
         /\ DemandCaps(demand, efficiency) \in [{k \in F : demand[k] > 0} -> Nat]
<1>1. ASSUME NEW k \in F, demand[k] > 0
      PROVE  Quantize(demand[k] * FullEfficiency, efficiency[k]) \in Nat
  <2>1. /\ demand[k] * FullEfficiency \in Int /\ demand[k] * FullEfficiency >= 0
        /\ efficiency[k] \in Nat \ {0}
    BY <1>1 DEF FullEfficiency
  <2>2. QED
    BY <2>1, QuantizeIsNear
<1>2. QED
  BY <1>1 DEF DemandCaps

\* Of two products by the same number above 0, the greater has the greater factor.
LEMMA GreaterFactor ==
  ASSUME NEW a \in Nat \ {0}, NEW b \in Int, NEW c \in Int, a * b <= a * c
  PROVE  b <= c
<1>1. CASE b <= c
  BY <1>1
<1>2. CASE c + 1 <= b
  <2>1. PICK e \in Nat : b = c + 1 + e
    <3>1. b - c - 1 \in Nat /\ b = c + 1 + (b - c - 1)
      BY <1>2
    <3>2. QED
      BY <3>1
  <2>2. a * b = a * c + a + a * e
    BY <2>1
  <2>3. a * e \in Nat /\ a * c \in Int
    BY <2>1
  <2>4. QED
    BY <2>2, <2>3
<1>3. QED
  BY <1>1, <1>2

\* The caps of the keys that pass theirs are not more than what is left to divide.
LEMMA HeldLeaves ==
  ASSUME NEW A, IsFiniteSet(A), NEW O \in SUBSET A, O # {}, NEW caps, NEW demand,
         \A k \in A : caps[k] \in Nat /\ demand[k] \in Nat \ {0}, NEW rest \in Int,
         \A k \in O : rest * demand[k] > caps[k] * Total(demand, A)
  PROVE  Total(caps, O) \in Nat /\ Total(caps, O) <= rest
<1> DEFINE w == Total(demand, A)
           v == Total(demand, O)
           c == Total(caps, O)
           f == [k \in O |-> rest * demand[k]]
           g == [k \in O |-> w * caps[k]]
           e == [k \in O |-> f[k] - g[k]]
<1>1. IsFiniteSet(O) /\ IsFiniteSet(A \ O)
  BY FS_Subset
<1>2. w \in Nat /\ v \in Nat \ {0} /\ c \in Nat /\ v <= w
  <2>1. v \in Nat \ {0} /\ c \in Nat
    <3>1. /\ \A k \in O : demand[k] \in Nat /\ demand[k] # 0
          /\ \A k \in O : caps[k] \in Nat
      OBVIOUS
    <3>2. QED
      BY <1>1, <3>1, TotalIsNat
  <2>2. Total(demand, A \ O) \in Nat
    <3>1. \A k \in A \ O : demand[k] \in Nat
      OBVIOUS
    <3>2. QED
      BY <1>1, <3>1, TotalIsNat
  <2>3. w = v + Total(demand, A \ O)
    <3>1. \A k \in A : demand[k] \in Int
      OBVIOUS
    <3>2. QED
      BY <3>1, TotalInTwo
  <2> HIDE DEF w, v, c
  <2>4. QED
    BY <2>1, <2>2, <2>3
<1>3. \A k \in O : demand[k] \in Int /\ caps[k] \in Int /\ rest * demand[k] > caps[k] * w
  OBVIOUS
<1> HIDE DEF w
<1>4. \A k \in O : /\ f[k] = rest * demand[k] /\ g[k] = w * caps[k] /\ f[k] = e[k] + g[k]
                   /\ e[k] \in Nat /\ g[k] \in Int
  <2> SUFFICES ASSUME NEW k \in O
               PROVE  /\ f[k] = rest * demand[k] /\ g[k] = w * caps[k] /\ f[k] = e[k] + g[k]
                      /\ e[k] \in Nat /\ g[k] \in Int
    OBVIOUS
  <2>1. f[k] = rest * demand[k] /\ g[k] = w * caps[k] /\ e[k] = f[k] - g[k]
    OBVIOUS
  <2>2. caps[k] * w = w * caps[k] /\ w * caps[k] \in Int /\ rest * demand[k] \in Int
    BY <1>2, <1>3
  <2>3. QED
    BY <1>3, <2>1, <2>2
<1> HIDE DEF e, f, g
<1>5. Total(f, O) = rest * v /\ Total(g, O) = w * c
  <2>1. \A k \in O : demand[k] \in Int /\ f[k] = rest * demand[k]
    BY <1>3, <1>4
  <2>2. \A k \in O : caps[k] \in Int /\ g[k] = w * caps[k]
    BY <1>3, <1>4
  <2>3. w \in Int
    BY <1>2
  <2>4. Total(f, O) = rest * Total(demand, O)
    BY <1>1, <2>1, TotalOfMultiples
  <2>5. Total(g, O) = w * Total(caps, O)
    BY <1>1, <2>2, <2>3, TotalOfMultiples
  <2>6. QED
    BY <2>4, <2>5
<1>6. Total(f, O) = Total(e, O) + Total(g, O) /\ Total(e, O) \in Nat
  <2>1. \A k \in O : e[k] \in Int /\ g[k] \in Int /\ f[k] = e[k] + g[k]
    BY <1>4
  <2>2. \A k \in O : e[k] \in Nat
    BY <1>4
  <2>3. QED
    BY <1>1, <2>1, <2>2, TotalOfSums, TotalIsNat
<1> HIDE DEF v, c
<1>7. w * c \in Nat /\ rest * v \in Int /\ w * c <= rest * v
  <2>1. w * c \in Nat /\ rest * v \in Int
    BY <1>2
  <2>2. QED
    BY <1>5, <1>6, <2>1
<1>8. 0 <= rest
  <2>1. v * 0 <= v * rest
    BY <1>2, <1>7
  <2>2. QED
    BY <1>2, <2>1, GreaterFactor
<1>9. rest * v <= w * rest
  <2>1. PICK m \in Nat : w = v + m
    <3>1. w - v \in Nat /\ w = v + (w - v)
      BY <1>2
    <3>2. QED
      BY <3>1
  <2>2. w * rest = rest * v + m * rest
    BY <1>2, <2>1
  <2>3. m * rest >= 0 /\ m * rest \in Int /\ rest * v \in Int
    BY <1>2, <1>8, <2>1
  <2>4. QED
    BY <2>2, <2>3
<1>10. w * c <= w * rest /\ w \in Nat \ {0}
  <2>1. w * rest \in Int
    BY <1>2
  <2>2. QED
    BY <1>2, <1>7, <1>9, <2>1
<1>11. c <= rest
  BY <1>2, <1>10, GreaterFactor
<1>12. QED
  BY <1>2, <1>11 DEF c

\* The keys left to divide by demand are some of them, and what they divide is not
\* below nothing.
LEMMA FillingIsPart ==
  ASSUME NEW D, IsFiniteSet(D), NEW caps \in [D -> Nat], NEW demand, NEW total \in Int,
         \A k \in D : demand[k] \in Nat \ {0}
  PROVE  /\ Filling(demand, caps, total) \in SUBSET D
         /\ total >= 0 =>
              total - SumFunctionOnSet(caps, D \ Filling(demand, caps, total)) >= 0
<1> DEFINE Rest(A) == total - SumFunctionOnSet(caps, D \ A)
           Over(A) == {k \in A : Rest(A) * demand[k] > caps[k] * SumFunctionOnSet(demand, A)}
           Ends == {A \in SUBSET D : Over(A) = {}}
           less == [A \in SUBSET D |-> A \ Over(A)]
           first == [A \in SUBSET D |-> A]
           next == [r \in (SUBSET D) \X SUBSET D |-> r[2]]
           Is(u) == u = [A \in SUBSET D |-> IF Over(A) = {} THEN A ELSE u[A \ Over(A)]]
           h == CHOOSE u : Is(u)
<1>1. \A A \in SUBSET D : Over(A) \subseteq A
  OBVIOUS
<1>2. Filling(demand, caps, total) = h[D]
  BY DEF Filling
<1>a. ASSUME NEW A \in SUBSET D, Over(A) # {}, Rest(A) >= 0 PROVE Rest(A \ Over(A)) >= 0
  <2> DEFINE O == Over(A)
             rest == Rest(A)
  <2>1. IsFiniteSet(A) /\ IsFiniteSet(D \ A) /\ IsFiniteSet(D \ (A \ O)) /\ O \in SUBSET A /\ O # {}
    BY <1>a, FS_Subset
  <2>2. rest = total - Total(caps, D \ A) /\ rest \in Int
    <3>1. rest = total - Total(caps, D \ A)
      BY SumsAreTotals
    <3>2. \A k \in D \ A : caps[k] \in Int
      OBVIOUS
    <3>3. Total(caps, D \ A) \in Int
      BY <2>1, <3>2, TotalIsInt
    <3> HIDE DEF rest
    <3>4. QED
      BY <3>1, <3>3
  <2>3. \A k \in O : rest * demand[k] > caps[k] * Total(demand, A)
    BY SumsAreTotals
  <2>4. Rest(A \ O) = total - Total(caps, D \ (A \ O))
    BY SumsAreTotals
  <2> HIDE DEF O, rest
  <2>5. Total(caps, O) \in Nat /\ Total(caps, O) <= rest
    <3>1. \A k \in A : caps[k] \in Nat /\ demand[k] \in Nat \ {0}
      OBVIOUS
    <3>2. QED
      BY <2>1, <2>2, <2>3, <3>1, HeldLeaves
  <2>6. Total(caps, D \ (A \ O)) = Total(caps, O) + Total(caps, D \ A)
    <3>1. O \in SUBSET (D \ (A \ O)) /\ (D \ (A \ O)) \ O = D \ A
      BY <2>1
    <3>2. \A k \in D \ (A \ O) : caps[k] \in Int
      OBVIOUS
    <3>3. QED
      BY <2>1, <3>1, <3>2, TotalInTwo
  <2>7. Total(caps, D \ A) \in Int
    <3>1. \A k \in D \ A : caps[k] \in Int
      OBVIOUS
    <3>2. QED
      BY <2>1, <3>1, TotalIsInt
  <2> HIDE DEF Rest
  <2>8. Rest(A \ O) >= 0
    BY <2>2, <2>4, <2>5, <2>6, <2>7
  <2>9. QED
    BY <2>8 DEF O
<1>b. Rest(D) = total
  <2>1. D \ D = {}
    OBVIOUS
  <2>2. Rest(D) = total - Total(caps, {})
    BY <2>1, SumsAreTotals
  <2>3. QED
    BY <2>2, TotalOfNothing
<1> HIDE DEF Over, Rest
<1>3. /\ less \in [SUBSET D -> SUBSET D] /\ first \in [SUBSET D -> SUBSET D]
      /\ next \in [(SUBSET D) \X SUBSET D -> SUBSET D]
      /\ Shrinks(D, Ends, less)
  BY <1>1 DEF Shrinks
<1>4. PICK g \in [SUBSET D -> SUBSET D] : Recurs(g, D, Ends, first, less, next)
  <2> HIDE DEF less, first, next, Ends
  <2> QED
    BY <1>3, RecursionIsThere
<1>5. Is(g)
  <2>1. ASSUME NEW A \in SUBSET D
        PROVE  g[A] = IF Over(A) = {} THEN A ELSE g[A \ Over(A)]
    <3>1. g[A] = IF A \in Ends THEN first[A] ELSE next[<<A, g[less[A]]>>]
      BY <1>4 DEF Recurs
    <3>2. first[A] = A /\ less[A] = A \ Over(A) /\ less[A] \in SUBSET D
      OBVIOUS
    <3>3. g[less[A]] \in SUBSET D
      BY <3>2
    <3>4. next[<<A, g[less[A]]>>] = g[less[A]]
      BY <3>3
    <3>5. A \in Ends <=> Over(A) = {}
      OBVIOUS
    <3> HIDE DEF Ends, first, less, next
    <3>6. QED
      BY <3>1, <3>2, <3>4, <3>5
  <2>2. QED
    BY <2>1
<1>6. Is(h)
  <2> HIDE DEF Is
  <2> QED
    BY <1>5
<1> HIDE DEF h
<1> DEFINE P == {A \in SUBSET D : h[A] \in SUBSET D /\ (Rest(A) >= 0 => Rest(h[A]) >= 0)}
<1>7. D \in P
  <2> DEFINE Bad == {Cardinality(A) : A \in {B \in SUBSET D : B \notin P}}
  <2>1. \A A \in SUBSET D : IsFiniteSet(A) /\ Cardinality(A) \in Nat
    BY FS_Subset, FS_CardinalityType
  <2>2. ASSUME NEW m \in Bad, \A n \in Bad : m <= n PROVE FALSE
    <3>1. PICK A \in SUBSET D : A \notin P /\ m = Cardinality(A)
      OBVIOUS
    <3>2. h[A] = IF Over(A) = {} THEN A ELSE h[A \ Over(A)]
      BY <1>6
    <3>3. Over(A) # {} /\ h[A] = h[A \ Over(A)] /\ A \ Over(A) \in SUBSET D
      BY <3>1, <3>2
    <3>4. A \ Over(A) \notin P
      BY <1>a, <3>1, <3>3
    <3>5. Cardinality(A \ Over(A)) \in Bad
      BY <3>3, <3>4
    <3>6. Cardinality(A \ Over(A)) <= m /\ Cardinality(A \ Over(A)) # m
      BY <1>1, <2>1, <3>1, <3>3, FS_Subset
    <3>7. Cardinality(A \ Over(A)) \in Nat /\ m \in Nat
      BY <2>1, <3>1, <3>3
    <3>8. QED
      BY <2>2, <3>5, <3>6, <3>7
  <2>3. Bad = {}
    <3>1. Bad \subseteq Nat
      BY <2>1
    <3> HIDE DEF Bad
    <3>2. QED
      BY <3>1, <2>2, LeastOfNats
  <2>4. QED
    BY <2>3
<1>8. h[D] \in SUBSET D /\ (total >= 0 => Rest(h[D]) >= 0)
  BY <1>b, <1>7
<1>9. QED
  BY <1>2, <1>8 DEF Rest

\* No key's part of a total is more than its cap, or below nothing.
LEMMA WaterFillIsCapped ==
  ASSUME NEW D, IsFiniteSet(D), NEW caps \in [D -> Nat], NEW demand, NEW total \in Int,
         \A k \in D : demand[k] \in Nat \ {0}
  PROVE  /\ WaterFill(demand, caps, total) \in [D -> Int]
         /\ \A k \in D : WaterFill(demand, caps, total)[k] <= caps[k]
         /\ total >= 0 => \A k \in D : WaterFill(demand, caps, total)[k] >= 0
<1> DEFINE active == Filling(demand, caps, total)
           rest == total - SumFunctionOnSet(caps, D \ active)
           whole == SumFunctionOnSet(demand, active)
           fill == [k \in D |-> IF k \in active THEN Least(Quantize(rest * demand[k], whole), caps[k])
                                ELSE caps[k]]
<1>1. active \in SUBSET D /\ (total >= 0 => rest >= 0)
  BY FillingIsPart
<1>2. WaterFill(demand, caps, total) = fill
  BY DEF WaterFill
<1>3. rest \in Int
  <2>1. rest = total - Total(caps, D \ active)
    BY SumsAreTotals
  <2>2. IsFiniteSet(D \ active) /\ \A k \in D \ active : caps[k] \in Int
    BY FS_Subset
  <2>3. Total(caps, D \ active) \in Int
    BY <2>2, TotalIsInt
  <2> HIDE DEF rest
  <2>4. QED
    BY <2>1, <2>3
<1>4. active # {} => whole \in Nat \ {0}
  <2>1. whole = Total(demand, active)
    BY SumsAreTotals
  <2>2. IsFiniteSet(active) /\ \A k \in active : demand[k] \in Nat /\ demand[k] # 0
    BY <1>1, FS_Subset
  <2> HIDE DEF active, whole
  <2>3. QED
    BY <2>1, <2>2, TotalIsNat
<1> HIDE DEF active, rest, whole
<1>5. ASSUME NEW k \in D
      PROVE  fill[k] \in Int /\ fill[k] <= caps[k] /\ (total >= 0 => fill[k] >= 0)
  <2>1. caps[k] \in Nat
    OBVIOUS
  <2>2. CASE k \in active
    <3>1. rest * demand[k] \in Int /\ whole \in Nat \ {0}
      BY <1>3, <1>4, <2>2
    <3>2. /\ Quantize(rest * demand[k], whole) \in Int
          /\ total >= 0 => Quantize(rest * demand[k], whole) >= 0
      <4>1. total >= 0 => rest * demand[k] >= 0
        <5>1. demand[k] \in Nat
          OBVIOUS
        <5>2. ASSUME rest \in Nat PROVE rest * demand[k] >= 0
          BY <5>1, <5>2
        <5>3. QED
          BY <1>1, <1>3, <5>2
      <4>2. ASSUME NEW n \in Int, NEW d \in Nat \ {0}
            PROVE  Quantize(n, d) \in Int /\ (n >= 0 => Quantize(n, d) >= 0)
        BY QuantizeIsNear
      <4>3. QED
        BY <3>1, <4>1, <4>2
    <3>3. fill[k] = Least(Quantize(rest * demand[k], whole), caps[k])
      BY <2>2
    <3> HIDE DEF fill
    <3>4. QED
      BY <2>1, <3>2, <3>3 DEF Least
  <2>3. CASE k \notin active
    BY <2>1, <2>3
  <2>4. QED
    BY <2>2, <2>3
<1>6. QED
  BY <1>2, <1>5

\* One of the keys is offered the residual last.
LEMMA OfferedLastIsIn ==
  ASSUME NEW K, IsFiniteSet(K), K # {}, K \subseteq Int, NEW shares, NEW caps,
         \A k \in K : shares[k] \in Int /\ caps[k] \in Int
  PROVE  OfferedLast(shares, caps, K) \in K
<1> DEFINE room(k) == caps[k] - shares[k]
           R == {r \in K \X K :
                   room(r[1]) < room(r[2]) \/ (room(r[1]) = room(r[2]) /\ r[1] <= r[2])}
<1>1. \A k \in K : room(k) \in Int /\ k \in Int
  OBVIOUS
<1>2. \A j, k \in K : <<j, k>> \in R <=> (room(j) < room(k) \/ (room(j) = room(k) /\ j <= k))
  OBVIOUS
<1> HIDE DEF R, room
<1>3. \A j, k \in K : <<j, k>> \in R \/ <<k, j>> \in R
  <2>1. \A j, k \in K :
          (room(j) < room(k)) \/ (room(k) < room(j)) \/ (room(j) = room(k) /\ (j <= k \/ k <= j))
    BY <1>1
  <2>2. QED
    BY <1>2, <2>1
<1>4. \A i, j, k \in K : <<i, j>> \in R /\ <<j, k>> \in R => <<i, k>> \in R
  BY <1>1, <1>2
<1>5. \E k \in K : \A j \in K : <<k, j>> \in R
  BY <1>3, <1>4, FirstInOrder
<1>6. \E k \in K : \A j \in K : room(k) < room(j) \/ (room(k) = room(j) /\ k <= j)
  BY <1>2, <1>5
<1>7. QED
  BY <1>6 DEF OfferedLast, room

\* Once it is above nothing, a part of a residual is what may be added to a share under
\* its cap; else it is what may come off the share.
Placeable(left, share, cap) ==
  IF left > 0 THEN Least(left, cap - share) ELSE -Least(-left, share)

\* A residual placed under caps passes none of them; and where nothing is below
\* nothing, the shares come to the target at most.
LEMMA PlacedUnderCaps ==
  ASSUME NEW D, IsFiniteSet(D), D \subseteq Int, NEW caps \in [D -> Nat], NEW s \in [D -> Int],
         \A k \in D : s[k] <= caps[k], NEW target \in Int
  PROVE  LET placed == PlaceResidualUnderCaps(s, caps, target)
         IN /\ placed \in [D -> Int]
            /\ \A k \in D : placed[k] <= caps[k]
            /\ (target >= 0 /\ \A k \in D : s[k] >= 0) => SumFunction(placed) <= target
<1> DEFINE Amount(k, state) == Placeable(state.left, state.shares[k], caps[k])
           Move(k, state) == [left |-> state.left - Amount(k, state),
                              shares |-> [state.shares EXCEPT ![k] = state.shares[k] + Amount(k, state)]]
           start == [left |-> target - SumFunction(s), shares |-> s]
           above == target >= 0 /\ \A k \in D : s[k] >= 0
           X == {state \in [left : Int, shares : [D -> Int]] :
                   /\ \A k \in D : state.shares[k] <= caps[k]
                   /\ state.left + Total(state.shares, D) = target
                   /\ above => \A k \in D : state.shares[k] >= 0}
           c == [R \in SUBSET D |-> OfferedLast(s, caps, R)]
           next == [r \in D \X X |-> Move(r[1], r[2])]
           Is(it) == it = [R \in SUBSET D |->
                            IF R = {} THEN start
                            ELSE Move(OfferedLast(s, caps, R), it[R \ {OfferedLast(s, caps, R)}])]
           h == CHOOSE it : Is(it)
           Ends(R, state) == state.left >= 0 \/ \A k \in R : state.shares[k] = 0
<1>1. start \in X
  <2>1. SumFunction(s) = Total(s, D)
    BY SumsAreTotals
  <2>2. Total(s, D) \in Int
    BY TotalIsInt
  <2>3. start.left + Total(start.shares, D) = target /\ start.left \in Int /\ start.shares = s
    BY <2>1, <2>2
  <2> HIDE DEF start
  <2>4. start = [left |-> start.left, shares |-> start.shares]
    BY DEF start
  <2>5. QED
    BY <2>3, <2>4
<1>2. Picks(D, c)
  <2> SUFFICES ASSUME NEW R \in SUBSET D, R # {} PROVE OfferedLast(s, caps, R) \in R
    BY DEF Picks
  <2>1. IsFiniteSet(R)
    BY FS_Subset
  <2>2. R \subseteq Int /\ \A k \in R : s[k] \in Int /\ caps[k] \in Int
    OBVIOUS
  <2>3. QED
    BY <2>1, <2>2, OfferedLastIsIn
<1> HIDE DEF above
<1>3. ASSUME NEW k \in D, NEW state \in X
      PROVE  /\ Move(k, state) \in X
             /\ above => (state.left >= 0 => Move(k, state).left >= 0)
             /\ above => \A R \in SUBSET D : state.left < 0 /\ Ends(R, state) => Ends(R \cup {k}, Move(k, state))
  <2> DEFINE left == state.left
             shares == state.shares
             amount == Amount(k, state)
             after == [shares EXCEPT ![k] = shares[k] + amount]
  <2>1. /\ left \in Int /\ shares \in [D -> Int] /\ \A j \in D : shares[j] <= caps[j]
        /\ left + Total(shares, D) = target
        /\ above => \A j \in D : shares[j] >= 0
    OBVIOUS
  <2>2. amount = Placeable(left, shares[k], caps[k])
    OBVIOUS
  <2>3. Move(k, state) = [left |-> left - amount, shares |-> after]
    OBVIOUS
  <2>4. after = [shares EXCEPT ![k] = shares[k] + amount]
    OBVIOUS
  <2> HIDE DEF left, shares, amount, Move, X, after
  <2>a. amount \in Int
    BY <2>1, <2>2 DEF Placeable, Least
  <2>b. after \in [D -> Int] /\ after[k] = shares[k] + amount /\ \A j \in D : j # k => after[j] = shares[j]
    BY <2>1, <2>4, <2>a
  <2>5. /\ amount \in Int /\ after \in [D -> Int] /\ \A j \in D : after[j] <= caps[j]
        /\ (left - amount) + Total(after, D) = left + Total(shares, D)
        /\ (\A j \in D : shares[j] >= 0) =>
              /\ \A j \in D : after[j] >= 0
              /\ left >= 0 => left - amount >= 0
              /\ left < 0 => left - amount >= 0 \/ after[k] = 0
    <3>1. shares[k] \in Int /\ caps[k] \in Nat /\ shares[k] <= caps[k]
      BY <2>1
    <3>2. /\ after[k] <= caps[k]
          /\ shares[k] >= 0 =>
               /\ after[k] >= 0
               /\ left >= 0 => left - amount >= 0
               /\ left < 0 => left - amount >= 0 \/ after[k] = 0
      BY <2>1, <2>2, <2>b, <3>1 DEF Placeable, Least
    <3>3. SameBut(D, shares, after, k)
      BY <2>1, <2>b DEF SameBut
    <3>4. /\ Total(shares, D) \in Int /\ Total(after, D) \in Int
          /\ Total(after, D) - Total(shares, D) = after[k] - shares[k]
      BY <3>3, TotalChanged
    <3>5. (left - amount) + Total(after, D) = left + Total(shares, D)
      <4>1. Total(after, D) - Total(shares, D) = amount
        BY <2>a, <2>b, <3>1, <3>4
      <4>2. QED
        BY <2>1, <2>a, <3>4, <4>1
    <3>6. (\A j \in D : after[j] <= caps[j]) /\ ((\A j \in D : shares[j] >= 0) => \A j \in D : after[j] >= 0)
      BY <2>1, <2>b, <3>2
    <3>7. QED
      BY <2>a, <2>b, <3>2, <3>5, <3>6
  <2>6. Move(k, state).left = left - amount /\ Move(k, state).shares = after
        /\ Move(k, state) \in [left : Int, shares : [D -> Int]]
    BY <2>1, <2>3, <2>5
  <2>7. Move(k, state) \in X
    BY <2>1, <2>5, <2>6 DEF X
  <2>8. above => (state.left >= 0 => Move(k, state).left >= 0)
    BY <2>1, <2>5, <2>6 DEF left
  <2>9. ASSUME above, NEW R \in SUBSET D, state.left < 0, \A j \in R : state.shares[j] = 0
        PROVE  Ends(R \cup {k}, Move(k, state))
    <3>1. left - amount >= 0 \/ after[k] = 0
      BY <2>1, <2>5, <2>9 DEF left
    <3>2. ASSUME after[k] = 0, NEW j \in R \cup {k} PROVE after[j] = 0
      <4>1. CASE j = k
        BY <3>2, <4>1
      <4>2. CASE j # k
        <5>1. shares[j] = 0
          BY <2>9, <3>2, <4>2 DEF shares
        <5>2. after[j] = shares[j]
          BY <2>b, <3>2, <4>2
        <5>3. QED
          BY <5>1, <5>2
      <4>3. QED
        BY <4>1, <4>2
    <3>3. QED
      BY <2>6, <3>1, <3>2
  <2>10. \A R \in SUBSET D : state.left < 0 /\ Ends(R, state) => \A j \in R : state.shares[j] = 0
    BY <2>1 DEF left
  <2>11. above => \A R \in SUBSET D : state.left < 0 /\ Ends(R, state) => Ends(R \cup {k}, Move(k, state))
    <3> HIDE DEF Ends
    <3>1. QED
      BY <2>9, <2>10
  <2>12. QED
    BY <2>7, <2>8, <2>11
<1>4. next \in [D \X X -> X]
  <2> HIDE DEF X, Move
  <2> QED
    BY <1>3
<1>5. PICK g \in [SUBSET D -> X] : Folds(g, D, start, c, next)
  <2> HIDE DEF X, start, c, next
  <2> QED
    BY <1>1, <1>2, <1>4, FoldIsThere
<1>6. Is(g)
  <2>1. ASSUME NEW R \in SUBSET D
        PROVE  g[R] = IF R = {} THEN start ELSE Move(c[R], g[R \ {c[R]}])
    <3>1. g[R] = IF R = {} THEN start ELSE next[<<c[R], g[R \ {c[R]}]>>]
      BY <1>5 DEF Folds
    <3>2. g[R \ {c[R]}] \in X /\ (R # {} => c[R] \in D)
      BY <1>2 DEF Picks
    <3> HIDE DEF X, start, c, Move
    <3>3. QED
      BY <3>1, <3>2
  <2>2. g = [R \in SUBSET D |-> g[R]]
    OBVIOUS
  <2>3. \A R \in SUBSET D : c[R] = OfferedLast(s, caps, R)
    OBVIOUS
  <2> HIDE DEF X, start, Move, c
  <2>4. QED
    BY <2>1, <2>2, <2>3
<1>7. Is(h)
  <2> HIDE DEF Is
  <2> QED
    BY <1>6
<1>8. PlaceResidualUnderCaps(s, caps, target) = h[D].shares
  BY DEF PlaceResidualUnderCaps, MapThenFoldSet, Placeable
<1> HIDE DEF h
<1>9. h[D] \in X /\ (above => Ends(D, h[D]))
  <2> DEFINE P == {R \in SUBSET D : h[R] \in X /\ (above => Ends(R, h[R]))}
  <2>1. {} \in P
    BY <1>1, <1>7
  <2>2. ASSUME NEW R \in SUBSET D, R # {}, \A x \in R : R \ {x} \in P
        PROVE  R \in P
    <3> HIDE DEF P
    <3>1. c[R] = OfferedLast(s, caps, R) /\ c[R] \in R
      <4>1. c[R] = OfferedLast(s, caps, R)
        OBVIOUS
      <4> HIDE DEF c
      <4>2. c[R] \in R
        BY <1>2, <2>2 DEF Picks
      <4>3. QED
        BY <4>1, <4>2
    <3>2. h[R] = Move(c[R], h[R \ {c[R]}])
      <4> HIDE DEF X, Move, c
      <4>1. \A S \in SUBSET D :
              S # {} => h[S] = Move(OfferedLast(s, caps, S), h[S \ {OfferedLast(s, caps, S)}])
        BY <1>7
      <4>2. QED
        BY <2>2, <3>1, <4>1
    <3>3. h[R \ {c[R]}] \in X /\ c[R] \in D /\ (above => Ends(R \ {c[R]}, h[R \ {c[R]}]))
      BY <2>2, <3>1 DEF P
    <3>4. h[R \ {c[R]}].left \in Int
      BY <3>3
    <3>5. (R \ {c[R]}) \cup {c[R]} = R
      BY <3>1
    <3> DEFINE was == h[R \ {c[R]}]
               k == c[R]
               Q == R \ {c[R]}
    <3>6. was \in X /\ k \in D /\ (above => Ends(Q, was)) /\ was.left \in Int
          /\ Q \cup {k} = R /\ Q \in SUBSET D
      BY <3>3, <3>4, <3>5
    <3>7. h[R] = Move(k, was)
      BY <3>2
    <3> HIDE DEF X, Move, c, Is, was, Q, k
    <3>8. Move(k, was) \in X
      BY <1>3, <3>6
    <3>9. above => Ends(R, Move(k, was))
      <4>1. CASE was.left >= 0
        BY <1>3, <3>6, <4>1
      <4>2. CASE was.left < 0
        <5> HIDE DEF Ends
        <5>1. QED
          BY <1>3, <3>6, <4>2
      <4>3. was.left >= 0 \/ was.left < 0
        BY <3>4 DEF was, Q, k
      <4>4. QED
        BY <4>1, <4>2, <4>3
    <3> HIDE DEF Ends
    <3>10. QED
      BY <3>7, <3>8, <3>9 DEF P
  <2> HIDE DEF P
  <2>3. D \in P
    BY <2>1, <2>2, SetBySet
  <2>4. QED
    BY <2>3 DEF P
<1>10. /\ h[D].shares \in [D -> Int] /\ \A k \in D : h[D].shares[k] <= caps[k]
       /\ h[D].left \in Int /\ h[D].left + Total(h[D].shares, D) = target
  BY <1>9
<1>11. ASSUME above PROVE SumFunction(h[D].shares) <= target
  <2>1. SumFunction(h[D].shares) = Total(h[D].shares, D) /\ Total(h[D].shares, D) \in Int
    <3>1. \A k \in D : h[D].shares[k] \in Int
      BY <1>10
    <3>2. QED
      BY <1>10, <3>1, SumsAreTotals, TotalIsInt
  <2>2. target >= 0
    BY <1>11 DEF above
  <2>3. h[D].left >= 0 \/ Total(h[D].shares, D) = 0
    <3>1. CASE \A k \in D : h[D].shares[k] = 0
      BY <3>1, TotalOfZeros
    <3>2. QED
      BY <1>9, <1>11, <3>1
  <2>4. QED
    BY <1>10, <2>1, <2>2, <2>3
<1>12. QED
  BY <1>8, <1>10, <1>11 DEF above

-----------------------------------------------------------------------------
(* Folds of a sequence *)

\* What holds at 0 and goes on holds up to any number.
LEMMA UpTo ==
  ASSUME NEW n \in Nat, NEW P, 0 \in P, \A i \in 1 .. n : i - 1 \in P => i \in P
  PROVE  \A i \in 0 .. n : i \in P
<1> DEFINE Bad == {i \in 0 .. n : i \notin P}
<1>1. ASSUME NEW m \in Bad, \A i \in Bad : m <= i PROVE FALSE
  <2>1. m \in 1 .. n /\ m - 1 \in 0 .. n
    OBVIOUS
  <2>2. m - 1 \notin P
    BY <2>1
  <2>3. m - 1 \in Bad
    BY <2>1, <2>2
  <2>4. ~(m <= m - 1)
    BY <2>1
  <2>5. QED
    BY <1>1, <2>3, <2>4
<1>2. Bad = {}
  <2>1. Bad \subseteq Nat
    OBVIOUS
  <2> HIDE DEF Bad
  <2>2. QED
    BY <1>1, <2>1, LeastOfNats
<1>3. QED
  BY <1>2

\* The last of the first places.
LEMMA LastPlace ==
  ASSUME NEW n \in Nat
  PROVE  /\ IsFiniteSet(1 .. n) /\ 1 .. 0 = {}
         /\ \A R \in SUBSET (1 .. n) : R # {} => Max(R) \in R
         /\ \A i \in 1 .. n : /\ 1 .. i \in SUBSET (1 .. n) /\ 1 .. i # {} /\ Max(1 .. i) = i
                              /\ (1 .. i) \ {i} = 1 .. (i - 1) /\ 1 .. (i - 1) \in SUBSET (1 .. n)
<1>1. IsFiniteSet(1 .. n) /\ 1 .. 0 = {}
  BY FS_Interval
<1>2. ASSUME NEW R \in SUBSET (1 .. n), R # {} PROVE Max(R) \in R /\ \A y \in R : y <= Max(R)
  <2>1. IsFiniteSet(R)
    BY <1>1, FS_Subset
  <2>2. R \subseteq Int
    OBVIOUS
  <2>3. QED
    BY <1>2, <2>1, <2>2, GreatestAndLeast
<1>3. ASSUME NEW i \in 1 .. n
      PROVE  /\ 1 .. i \in SUBSET (1 .. n) /\ 1 .. i # {} /\ Max(1 .. i) = i
             /\ (1 .. i) \ {i} = 1 .. (i - 1) /\ 1 .. (i - 1) \in SUBSET (1 .. n)
  <2>1. 1 .. i \in SUBSET (1 .. n) /\ i \in 1 .. i
    OBVIOUS
  <2>2. Max(1 .. i) \in 1 .. i /\ i <= Max(1 .. i)
    BY <1>2, <2>1
  <2>3. Max(1 .. i) = i
    BY <2>2
  <2>4. QED
    BY <2>1, <2>3
<1>4. QED
  BY <1>1, <1>2, <1>3

\* Taken from the last place down, a fold goes on from the places before.
Latest(n) == [R \in SUBSET (1 .. n) |-> Max(R)]

\* The fold of a sequence is there, taking its last place first.
LEMMA FoldsAtPlaces ==
  ASSUME NEW n \in Nat, NEW X, NEW base \in X, NEW next \in [(1 .. n) \X X -> X]
  PROVE  \E g \in [SUBSET (1 .. n) -> X] : Folds(g, 1 .. n, base, Latest(n), next)
<1>1. IsFiniteSet(1 .. n) /\ Picks(1 .. n, Latest(n))
  BY LastPlace DEF Picks, Latest
<1>2. QED
  BY <1>1, FoldIsThere

\* Of a list of integers, the sum of the first ones goes on from the sum before.
LEMMA TotalGoesOn ==
  ASSUME NEW n \in Nat, NEW f, \A i \in 1 .. n : f[i] \in Int
  PROVE  /\ Total(f, 1 .. 0) = 0
         /\ \A i \in 1 .. n : /\ Total(f, 1 .. i) = Total(f, 1 .. (i - 1)) + f[i]
                              /\ Total(f, 1 .. (i - 1)) \in Int /\ f[i] \in Int
<1>1. Total(f, 1 .. 0) = 0
  BY TotalOfNothing, LastPlace
<1>2. ASSUME NEW i \in 1 .. n
      PROVE  /\ Total(f, 1 .. i) = Total(f, 1 .. (i - 1)) + f[i]
             /\ Total(f, 1 .. (i - 1)) \in Int /\ f[i] \in Int
  <2>1. /\ IsFiniteSet(1 .. n) /\ 1 .. i \in SUBSET (1 .. n) /\ i \in 1 .. i
        /\ (1 .. i) \ {i} = 1 .. (i - 1)
    BY LastPlace
  <2>2. Total(f, 1 .. i) = f[i] + Total(f, (1 .. i) \ {i}) /\ Total(f, (1 .. i) \ {i}) \in Int
    BY <2>1, TotalOfPart
  <2>3. Total(f, 1 .. i) = f[i] + Total(f, 1 .. (i - 1)) /\ Total(f, 1 .. (i - 1)) \in Int
    BY <2>1, <2>2
  <2>4. QED
    BY <2>3
<1>3. QED
  BY <1>1, <1>2

-----------------------------------------------------------------------------
(* What is recorded at a headgate *)

\* The records that count are records, none of them estimated; and records none of
\* which is estimated all count.
LEMMA DirectIs ==
  ASSUME NEW d, NEW p, d.records[p] \in Seq(Diversion)
  PROVE  /\ Direct(d, p) \in Seq(Diversion)
         /\ \A i \in 1 .. Len(Direct(d, p)) : ~Direct(d, p)[i].estimated
         /\ (\A i \in 1 .. Len(d.records[p]) : ~d.records[p][i].estimated)
              => Direct(d, p) = d.records[p]
<1> DEFINE s == d.records[p]
           n == Len(s)
           Counts(t) == \A i \in 1 .. Len(t) : ~t[i].estimated
           X == {t \in Seq(Diversion) : Counts(t)}
           Keep(kept, r) == IF r.estimated THEN kept ELSE Append(kept, r)
           next == [r \in (1 .. n) \X X |-> Keep(r[2], s[r[1]])]
           Is(it) == it = [R \in SUBSET (1 .. n) |->
                            IF R = {} THEN <<>> ELSE Keep(it[R \ {Max(R)}], s[Max(R)])]
           h == CHOOSE it : Is(it)
<1>1. s \in Seq(Diversion) /\ n \in Nat /\ DOMAIN s = 1 .. n /\ \A i \in 1 .. n : s[i] \in Diversion
  OBVIOUS
<1> HIDE DEF s, n
<1>2. <<>> \in X
  OBVIOUS
<1>3. \A t \in X, r \in Diversion : Keep(t, r) \in X
  <2> SUFFICES ASSUME NEW t \in X, NEW r \in Diversion, ~r.estimated PROVE Append(t, r) \in X
    OBVIOUS
  <2>1. /\ Append(t, r) \in Seq(Diversion) /\ Len(Append(t, r)) = Len(t) + 1 /\ Len(t) \in Nat
        /\ \A i \in 1 .. Len(t) : Append(t, r)[i] = t[i]
        /\ Append(t, r)[Len(t) + 1] = r
    OBVIOUS
  <2>2. \A i \in 1 .. (Len(t) + 1) : i \in 1 .. Len(t) \/ i = Len(t) + 1
    BY <2>1
  <2>3. Counts(t)
    OBVIOUS
  <2>4. ASSUME NEW i \in 1 .. (Len(t) + 1) PROVE ~Append(t, r)[i].estimated
    <3>1. CASE i \in 1 .. Len(t)
      BY <2>1, <2>3, <3>1
    <3>2. CASE i = Len(t) + 1
      BY <2>1, <3>2
    <3>3. QED
      BY <2>2, <3>1, <3>2
  <2>5. Counts(Append(t, r))
    BY <2>1, <2>4
  <2>6. QED
    BY <2>1, <2>5
<1>4. next \in [(1 .. n) \X X -> X]
  <2> HIDE DEF X, Keep
  <2> QED
    BY <1>1, <1>3
<1>5. PICK g \in [SUBSET (1 .. n) -> X] : Folds(g, 1 .. n, <<>>, Latest(n), next)
  <2> HIDE DEF X, next
  <2> QED
    BY <1>1, <1>2, <1>4, FoldsAtPlaces
<1>6. Is(g)
  <2>1. ASSUME NEW R \in SUBSET (1 .. n)
        PROVE  g[R] = IF R = {} THEN <<>> ELSE Keep(g[R \ {Max(R)}], s[Max(R)])
    <3>1. g[R] = IF R = {} THEN <<>> ELSE next[<<Latest(n)[R], g[R \ {Latest(n)[R]}]>>]
      BY <1>5 DEF Folds
    <3>2. Latest(n)[R] = Max(R) /\ (R # {} => Max(R) \in 1 .. n)
      BY <1>1, LastPlace DEF Latest
    <3>3. g[R \ {Max(R)}] \in X
      OBVIOUS
    <3> HIDE DEF X, Keep
    <3>4. R # {} => next[<<Max(R), g[R \ {Max(R)}]>>] = Keep(g[R \ {Max(R)}], s[Max(R)])
      BY <3>2, <3>3
    <3> HIDE DEF next
    <3>5. QED
      BY <3>1, <3>2, <3>4
  <2> HIDE DEF X, Keep
  <2>2. QED
    BY <2>1
<1>7. Is(h)
  <2> HIDE DEF Is
  <2> QED
    BY <1>6
<1>8. Direct(d, p) = h[1 .. n]
  BY <1>1 DEF Direct, FoldLeft, MapThenFoldSet, s
<1> HIDE DEF h
<1>9. h[1 .. 0] = <<>> /\ \A i \in 1 .. n : h[1 .. i] = Keep(h[1 .. (i - 1)], s[i])
  <2>1. ASSUME NEW R \in SUBSET (1 .. n)
        PROVE  h[R] = IF R = {} THEN <<>> ELSE Keep(h[R \ {Max(R)}], s[Max(R)])
    BY <1>7
  <2>2. 1 .. 0 \in SUBSET (1 .. n) /\ 1 .. 0 = {}
    BY <1>1, LastPlace
  <2> HIDE DEF Is, Keep
  <2>3. ASSUME NEW i \in 1 .. n PROVE h[1 .. i] = Keep(h[1 .. (i - 1)], s[i])
    <3>1. /\ 1 .. i \in SUBSET (1 .. n) /\ 1 .. i # {} /\ Max(1 .. i) = i
          /\ (1 .. i) \ {i} = 1 .. (i - 1)
      BY <1>1, LastPlace
    <3>2. h[1 .. i] = Keep(h[(1 .. i) \ {Max(1 .. i)}], s[Max(1 .. i)])
      BY <2>1, <3>1
    <3>3. QED
      BY <3>1, <3>2
  <2>4. QED
    BY <2>1, <2>2, <2>3
<1> HIDE DEF Is
<1>10. n \in 0 .. n
  BY <1>1
<1>11. h[1 .. n] \in X
  <2> DEFINE P == {i \in 0 .. n : h[1 .. i] \in X}
  <2>1. 0 \in P
    <3>1. h[1 .. 0] \in X
      BY <1>2, <1>9
    <3>2. 0 \in 0 .. n
      BY <1>1
    <3> HIDE DEF X
    <3>3. QED
      BY <3>1, <3>2
  <2>2. ASSUME NEW i \in 1 .. n, i - 1 \in P PROVE i \in P
    <3>1. h[1 .. (i - 1)] \in X /\ s[i] \in Diversion
      BY <1>1, <2>2
    <3> HIDE DEF X, Keep
    <3>2. h[1 .. i] \in X
      BY <1>3, <1>9, <3>1
    <3>3. QED
      BY <1>1, <3>2
  <2> HIDE DEF P
  <2>3. n \in P
    BY <1>1, <1>10, <2>1, <2>2, UpTo
  <2>4. QED
    BY <2>3 DEF P
<1>12. ASSUME Counts(s) PROVE h[1 .. n] = s
  <2> DEFINE P == {i \in 0 .. n : h[1 .. i] = [j \in 1 .. i |-> s[j]]}
  <2>1. 0 \in P
    BY <1>1, <1>9
  <2>2. ASSUME NEW i \in 1 .. n, i - 1 \in P PROVE i \in P
    <3> DEFINE t == [j \in 1 .. (i - 1) |-> s[j]]
    <3>1. h[1 .. (i - 1)] = t /\ ~s[i].estimated /\ i \in 0 .. n
      BY <1>1, <1>12, <2>2 DEF n
    <3>2. h[1 .. i] = Append(t, s[i])
      BY <1>9, <3>1
    <3>3. t \in Seq(Diversion) /\ Len(t) = i - 1
      <4>1. i - 1 \in Nat /\ \A j \in 1 .. (i - 1) : s[j] \in Diversion
        BY <1>1
      <4>2. QED
        BY <4>1
    <3>4. Append(t, s[i]) = [j \in 1 .. i |-> s[j]]
      <4>1. Append(t, s[i]) = [j \in 1 .. (Len(t) + 1) |-> IF j = Len(t) + 1 THEN s[i] ELSE t[j]]
        BY <3>3
      <4>2. Len(t) + 1 = i
        BY <1>1, <3>3
      <4>3. \A j \in 1 .. i : (IF j = i THEN s[i] ELSE t[j]) = s[j]
        BY <1>1
      <4>4. Append(t, s[i]) = [j \in 1 .. i |-> IF j = i THEN s[i] ELSE t[j]]
        BY <4>1, <4>2
      <4> HIDE DEF t
      <4>5. QED
        BY <4>3, <4>4
    <3>5. QED
      BY <3>1, <3>2, <3>4
  <2> HIDE DEF P
  <2>3. n \in P
    BY <1>1, <1>10, <2>1, <2>2, UpTo
  <2>4. h[1 .. n] = [j \in 1 .. n |-> s[j]]
    BY <2>3 DEF P
  <2>5. s = [j \in 1 .. n |-> s[j]]
    BY <1>1
  <2>6. QED
    BY <2>4, <2>5
<1>13. QED
  BY <1>8, <1>11, <1>12 DEF s, n

\* What is recorded is the sum of the records that count.
Brought(d, p) == [i \in 1 .. Len(Direct(d, p)) |-> Direct(d, p)[i].af]

\* What stands on record of a headgate is what its records that count brought.
LEMMA RecordedIs ==
  ASSUME NEW d, NEW p, d.records[p] \in Seq(Diversion)
  PROVE  /\ Recorded(d, p) \in Nat
         /\ Recorded(d, p) = Total(Brought(d, p), 1 .. Len(Direct(d, p)))
<1> DEFINE s == Direct(d, p)
           n == Len(s)
           f == [i \in 1 .. n |-> s[i].af]
           next == [r \in (1 .. n) \X Int |-> r[2] + s[r[1]].af]
           Is(it) == it = [R \in SUBSET (1 .. n) |->
                            IF R = {} THEN 0 ELSE it[R \ {Max(R)}] + s[Max(R)].af]
           h == CHOOSE it : Is(it)
<1>1. s \in Seq(Diversion) /\ n \in Nat /\ DOMAIN s = 1 .. n /\ \A i \in 1 .. n : s[i].af \in Nat
  <2>1. s \in Seq(Diversion)
    BY DirectIs
  <2> HIDE DEF s
  <2>2. \A i \in 1 .. n : s[i] \in Diversion
    BY <2>1
  <2>3. QED
    BY <2>1, <2>2 DEF Diversion
<1>2. Brought(d, p) = f
  BY DEF Brought
<1> HIDE DEF s, n
<1>3. next \in [(1 .. n) \X Int -> Int]
  BY <1>1
<1>4. PICK g \in [SUBSET (1 .. n) -> Int] : Folds(g, 1 .. n, 0, Latest(n), next)
  <2> HIDE DEF next
  <2>1. n \in Nat /\ 0 \in Int
    BY <1>1
  <2>2. QED
    BY <1>3, <2>1, FoldsAtPlaces
<1>5. Is(g)
  <2>1. ASSUME NEW R \in SUBSET (1 .. n)
        PROVE  g[R] = IF R = {} THEN 0 ELSE g[R \ {Max(R)}] + s[Max(R)].af
    <3>1. g[R] = IF R = {} THEN 0 ELSE next[<<Latest(n)[R], g[R \ {Latest(n)[R]}]>>]
      BY <1>4 DEF Folds
    <3>2. Latest(n)[R] = Max(R) /\ (R # {} => Max(R) \in 1 .. n)
      BY <1>1, LastPlace DEF Latest
    <3>3. g[R \ {Max(R)}] \in Int
      OBVIOUS
    <3>4. R # {} => next[<<Max(R), g[R \ {Max(R)}]>>] = g[R \ {Max(R)}] + s[Max(R)].af
      BY <3>2, <3>3
    <3> HIDE DEF next
    <3>5. QED
      BY <3>1, <3>2, <3>4
  <2>2. QED
    BY <2>1
<1>6. Is(h)
  <2> HIDE DEF Is
  <2> QED
    BY <1>5
<1>7. Recorded(d, p) = h[1 .. n]
  BY <1>1 DEF Recorded, FoldLeft, MapThenFoldSet, s
<1> HIDE DEF h
<1>8. h[1 .. 0] = 0 /\ \A i \in 1 .. n : h[1 .. i] = h[1 .. (i - 1)] + s[i].af
  <2>1. ASSUME NEW R \in SUBSET (1 .. n)
        PROVE  h[R] = IF R = {} THEN 0 ELSE h[R \ {Max(R)}] + s[Max(R)].af
    BY <1>6
  <2>2. 1 .. 0 \in SUBSET (1 .. n) /\ 1 .. 0 = {}
    BY <1>1, LastPlace
  <2> HIDE DEF Is
  <2>3. ASSUME NEW i \in 1 .. n PROVE h[1 .. i] = h[1 .. (i - 1)] + s[i].af
    <3>1. /\ 1 .. i \in SUBSET (1 .. n) /\ 1 .. i # {} /\ Max(1 .. i) = i
          /\ (1 .. i) \ {i} = 1 .. (i - 1)
      BY <1>1, LastPlace
    <3>2. h[1 .. i] = h[(1 .. i) \ {Max(1 .. i)}] + s[Max(1 .. i)].af
      BY <2>1, <3>1
    <3>3. QED
      BY <3>1, <3>2
  <2>4. QED
    BY <2>1, <2>2, <2>3
<1> HIDE DEF Is
<1>9. \A i \in 1 .. n : f[i] = s[i].af /\ f[i] \in Nat
  BY <1>1
<1> HIDE DEF f
<1>10. h[1 .. n] = Total(f, 1 .. n)
  <2> DEFINE P == {i \in 0 .. n : h[1 .. i] = Total(f, 1 .. i)}
  <2>1. 0 \in P /\ n \in 0 .. n
    <3>1. Total(f, 1 .. 0) = 0
      BY TotalOfNothing, LastPlace
    <3>2. QED
      BY <1>1, <1>8, <3>1
  <2>2. ASSUME NEW i \in 1 .. n, i - 1 \in P PROVE i \in P
    <3>1. Total(f, 1 .. i) = Total(f, 1 .. (i - 1)) + f[i]
      <4>1. n \in Nat /\ \A j \in 1 .. n : f[j] \in Int
        BY <1>1, <1>9
      <4>2. QED
        BY <4>1, TotalGoesOn
    <3>2. QED
      BY <1>1, <1>8, <1>9, <2>2, <3>1
  <2> HIDE DEF P
  <2>3. n \in P
    BY <1>1, <2>1, <2>2, UpTo
  <2>4. QED
    BY <2>3 DEF P
<1>11. Total(f, 1 .. n) \in Nat
  BY <1>1, <1>9, LastPlace, TotalIsNat
<1>12. QED
  BY <1>2, <1>7, <1>10, <1>11 DEF s, n

-----------------------------------------------------------------------------
(* What a headgate has to divide *)

\* What is on record of a headgate.
LEMMA HeadgateIs ==
  ASSUME NEW d, IsDistrict(d), NEW p \in Point
  PROVE  /\ d.records[p] \in Seq(Diversion)
         /\ d.loss[p].evaporation \in Nat /\ d.loss[p].seepage \in Nat /\ d.loss[p].spill \in Nat
         /\ Served(d, p) \subseteq Field /\ Served(d, p) \subseteq Int /\ IsFiniteSet(Served(d, p))
         /\ d.share[p] \in [Served(d, p) -> Nat]
<1>1. d.records[p] \in Seq(Diversion) /\ d.loss[p] \in Loss
  BY DEF IsDistrict
<1>2. Amounts(d.share[p], Field, Nat)
  BY DEF IsDistrict
<1>3. Field \subseteq Int /\ IsFiniteSet(Field)
  BY KeysAssumption
<1>4. Served(d, p) \subseteq Field /\ d.share[p] \in [Served(d, p) -> Nat]
  BY <1>2 DEF Amounts, Served
<1>5. IsFiniteSet(Served(d, p))
  BY <1>3, <1>4, FS_Subset
<1>6. QED
  BY <1>1, <1>3, <1>4, <1>5 DEF Loss

\* The part of a use area's own delivery that came through a headgate.
OwnHere(d, p) == OwnFields(d) \cap Served(d, p)

\* The headgates a use area is served by, and what they have on record together.
ServedBy(d, f) == {q \in Point : f \in Served(d, q)}

RecordedFor(d, f) == SumFunctionOnSet([q \in Point |-> Recorded(d, q)], ServedBy(d, f))

OwnPart(d, p, f) ==
  IF RecordedFor(d, f) > 0 THEN <<d.own[f] * Recorded(d, p), RecordedFor(d, f)>>
  ELSE <<d.own[f], Cardinality(ServedBy(d, f))>>

\* Numerator and denominator.
Fractions == Nat \X (Nat \ {0})

\* `h' is the running total of the own deliveries through a headgate, over any of them.
OwnAdds(d, p, h) ==
  \A R \in SUBSET OwnHere(d, p) :
    h[R] = IF R = {} THEN <<0, 1>> ELSE Plus(OwnPart(d, p, One(R)), h[R \ {One(R)}])

\* The own deliveries that came through a headgate, one use area after the other.
LEMMA OwnTotalAdds ==
  ASSUME NEW d, IsDistrict(d), NEW p \in Point
  PROVE  /\ IsFiniteSet(OwnHere(d, p))
         /\ \E h : /\ OwnAdds(d, p, h) /\ h[OwnHere(d, p)] \in Fractions
                   /\ OwnTotal(d, p) = Quantize(h[OwnHere(d, p)][1], h[OwnHere(d, p)][2])
<1> DEFINE Serving(f) == ServedBy(d, f)
           rec == [q \in Point |-> Recorded(d, q)]
           All(f) == RecordedFor(d, f)
           Part(f) == OwnPart(d, p, f)
           A == OwnHere(d, p)
           X == Fractions
           next == [r \in A \X X |-> Plus(Part(r[1]), r[2])]
           c == [R \in SUBSET A |-> One(R)]
           Is(it) == it = [R \in SUBSET A |->
                            IF R = {} THEN <<0, 1>> ELSE Plus(Part(One(R)), it[R \ {One(R)}])]
           h == CHOOSE it : Is(it)
<1>1. IsFiniteSet(A) /\ \A f \in A : d.own[f] \in Nat /\ f \in Served(d, p)
  <2>1. IsFiniteSet(A)
    BY HeadgateIs, FS_Subset DEF OwnHere
  <2>2. \A f \in A : d.own[f] \in Nat
    BY DEF IsDistrict, Amounts, OwnFields, OwnHere
  <2>3. QED
    BY <2>1, <2>2 DEF OwnHere
<1>2. \A q \in Point : rec[q] \in Nat /\ rec[q] = Recorded(d, q)
  BY HeadgateIs, RecordedIs
<1>3. ASSUME NEW f \in A PROVE Part(f) \in X
  <2>1. Serving(f) \subseteq Point /\ p \in Serving(f)
    BY <1>1 DEF ServedBy
  <2>2. IsFiniteSet(Serving(f)) /\ Serving(f) # {}
    BY <2>1, KeysAssumption, FS_Subset
  <2>3. Cardinality(Serving(f)) \in Nat \ {0}
    BY <2>2, FS_CardinalityType, FS_EmptySet
  <2>4. All(f) \in Nat
    <3>1. All(f) = Total(rec, Serving(f))
      BY SumsAreTotals DEF RecordedFor
    <3>2. \A q \in Serving(f) : rec[q] \in Nat
      BY <1>2, <2>1
    <3> HIDE DEF rec, Serving
    <3>3. Total(rec, Serving(f)) \in Nat
      BY <2>2, <3>2, TotalIsNat
    <3>4. QED
      BY <3>1, <3>3
  <2>5. Recorded(d, p) \in Nat /\ d.own[f] \in Nat
    BY <1>1, <1>2
  <2>6. d.own[f] * Recorded(d, p) \in Nat
    BY <2>5
  <2>7. QED
    BY <2>3, <2>4, <2>5, <2>6 DEF OwnPart, Fractions
<1> HIDE DEF A, Part
<1>4. ASSUME NEW x \in X, NEW y \in X PROVE Plus(x, y) \in X
  <2>1. /\ x[1] \in Nat /\ x[2] \in Nat \ {0} /\ y[1] \in Nat /\ y[2] \in Nat \ {0}
    BY DEF Fractions
  <2>2. x[1] * y[2] + y[1] * x[2] \in Nat /\ x[2] * y[2] \in Nat \ {0}
    BY <2>1
  <2>3. QED
    BY <2>2 DEF Plus, Fractions
<1>5. <<0, 1>> \in X
  BY DEF Fractions
<1> HIDE DEF X
<1>6. Picks(A, c) /\ next \in [A \X X -> X]
  <2>1. Picks(A, c)
    BY OneIsIn DEF Picks
  <2>2. next \in [A \X X -> X]
    BY <1>3, <1>4
  <2>3. QED
    BY <2>1, <2>2
<1>7. PICK g \in [SUBSET A -> X] : Folds(g, A, <<0, 1>>, c, next)
  <2> HIDE DEF next, c
  <2> QED
    BY <1>1, <1>5, <1>6, FoldIsThere
<1>8. Is(g)
  <2>1. ASSUME NEW R \in SUBSET A
        PROVE  g[R] = IF R = {} THEN <<0, 1>> ELSE Plus(Part(One(R)), g[R \ {One(R)}])
    <3>1. g[R] = IF R = {} THEN <<0, 1>> ELSE next[<<One(R), g[R \ {One(R)}]>>]
      BY <1>7 DEF Folds
    <3>2. (R # {} => One(R) \in A) /\ g[R \ {One(R)}] \in X
      BY OneIsIn
    <3>3. R # {} => next[<<One(R), g[R \ {One(R)}]>>] = Plus(Part(One(R)), g[R \ {One(R)}])
      BY <3>2
    <3> HIDE DEF next
    <3>4. QED
      BY <3>1, <3>3
  <2>2. QED
    BY <2>1
<1>9. Is(h)
  <2> HIDE DEF Is
  <2> QED
    BY <1>8
<1>10. OwnTotal(d, p) = Quantize(h[A][1], h[A][2])
  BY DEF OwnTotal, MapThenFoldSet, One, A, Part, OwnHere, OwnPart, RecordedFor, ServedBy
<1> HIDE DEF h
<1>11. \A R \in SUBSET A :
         h[R] = IF R = {} THEN <<0, 1>> ELSE Plus(Part(One(R)), h[R \ {One(R)}])
  BY <1>9
<1> HIDE DEF Is
<1>12. h[A] \in X
  <2> DEFINE P == {R \in SUBSET A : h[R] \in X}
  <2>1. {} \in P
    BY <1>5, <1>11
  <2>2. ASSUME NEW R \in SUBSET A, R # {}, \A x \in R : R \ {x} \in P PROVE R \in P
    <3>1. One(R) \in R /\ One(R) \in A
      BY <2>2, OneIsIn
    <3>2. h[R \ {One(R)}] \in X
      BY <2>2, <3>1
    <3>3. h[R] = Plus(Part(One(R)), h[R \ {One(R)}])
      BY <1>11, <2>2
    <3>4. h[R] \in X
      BY <1>3, <1>4, <3>1, <3>2, <3>3
    <3>5. QED
      BY <3>4
  <2> HIDE DEF P
  <2>3. A \in P
    BY <1>1, <2>1, <2>2, SetBySet
  <2>4. QED
    BY <2>3 DEF P
<1>13. OwnAdds(d, p, h)
  BY <1>11 DEF OwnAdds, A, Part
<1>14. QED
  BY <1>1, <1>10, <1>12, <1>13 DEF A, X

\* The own deliveries through a headgate are not below nothing.
LEMMA OwnTotalIs ==
  ASSUME NEW d, IsDistrict(d), NEW p \in Point
  PROVE  OwnTotal(d, p) \in Nat
<1>1. PICK h : /\ h[OwnHere(d, p)] \in Fractions
               /\ OwnTotal(d, p) = Quantize(h[OwnHere(d, p)][1], h[OwnHere(d, p)][2])
  BY OwnTotalAdds
<1>2. /\ h[OwnHere(d, p)][1] \in Int /\ h[OwnHere(d, p)][1] >= 0
      /\ h[OwnHere(d, p)][2] \in Nat \ {0}
  BY <1>1 DEF Fractions
<1>3. QED
  BY <1>1, <1>2, QuantizeIsNear

\* The canal's losses come off what was diverted, and nothing is left of nothing.
LEMMA LossesComeOff ==
  ASSUME NEW d, IsDistrict(d), NEW p \in Point
  PROVE  LET entry == MonthLosses(d, p)
         IN /\ entry \in LossRow /\ entry.diverted = Recorded(d, p)
            /\ entry.diverted = entry.evaporation + entry.seepage + entry.spill + entry.available
            /\ entry.own = 0 /\ entry.unserved = 0
            /\ entry.diverted = 0 => entry.available = 0
<1> DEFINE v == Recorded(d, p)
           e == Quantize(v * d.loss[p]["evaporation"], Whole)
           s == Quantize(v * d.loss[p]["seepage"], Whole)
           t == Quantize(v * d.loss[p]["spill"], Whole)
<1>1. /\ v \in Nat /\ d.loss[p]["evaporation"] \in Nat /\ d.loss[p]["seepage"] \in Nat
      /\ d.loss[p]["spill"] \in Nat
  BY HeadgateIs, RecordedIs
<1>2. ASSUME NEW x \in Nat
      PROVE  Quantize(v * x, Whole) \in Nat /\ (v = 0 => Quantize(v * x, Whole) = 0)
  <2>1. v * x \in Int /\ v * x >= 0 /\ Whole \in Nat \ {0} /\ (v = 0 => v * x = 0)
    BY <1>1 DEF Whole
  <2>2. /\ Quantize(v * x, Whole) \in Nat
        /\ 2 * (Quantize(v * x, Whole) * Whole - v * x) <= Whole
    BY <2>1, QuantizeIsNear
  <2>3. ASSUME v = 0 PROVE Quantize(v * x, Whole) = 0
    <3> DEFINE q == Quantize(v * x, Whole)
    <3>1. q \in Nat /\ 2 * (q * 10000 - 0) <= 10000
      BY <2>1, <2>2, <2>3 DEF Whole
    <3> HIDE DEF q
    <3>2. q = 0
      BY <3>1
    <3>3. QED
      BY <3>2 DEF q
  <2>4. QED
    BY <2>2, <2>3
<1>3. e \in Nat /\ s \in Nat /\ t \in Nat /\ (v = 0 => e = 0 /\ s = 0 /\ t = 0)
  BY <1>1, <1>2
<1>4. MonthLosses(d, p) = [diverted |-> v, evaporation |-> e, seepage |-> s, spill |-> t,
                           available |-> v - e - s - t, own |-> 0, unserved |-> 0, zone |-> Nothing]
  BY DEF MonthLosses
<1> HIDE DEF v, e, s, t
<1>5. v - e - s - t \in Int /\ v = e + s + t + (v - e - s - t)
  BY <1>1, <1>3
<1>6. Nothing \in OrNothing(Zone)
  BY DEF OrNothing
<1>7. MonthLosses(d, p).diverted = Recorded(d, p)
  BY <1>4 DEF v
<1>8. QED
  BY <1>1, <1>3, <1>4, <1>5, <1>6, <1>7 DEF LossRow

\* Parts of a rest, each of them rounded.
RoundedParts(part, rest, af, whole, I) ==
  \A i \in I : part[i] = Quantize(rest * af[i], whole)

\* They pass the rest by half a unit each at most.
LEMMA PartsAreNear ==
  ASSUME NEW m \in Nat, NEW rest \in Int, rest >= 0, NEW whole \in Int, whole > 0, NEW af,
         \A i \in 1 .. m : af[i] \in Nat, Total(af, 1 .. m) <= whole,
         NEW part, RoundedParts(part, rest, af, whole, 1 .. m)
  PROVE  /\ \A i \in 1 .. m : part[i] \in Nat
         /\ Total(part, 1 .. m) \in Nat
         /\ 2 * Total(part, 1 .. m) <= 2 * rest + m
<1> DEFINE I == 1 .. m
           big == [i \in I |-> whole * part[i]]
           exact == [i \in I |-> rest * af[i]]
           off == [i \in I |-> big[i] - exact[i]]
<1>1. IsFiniteSet(I) /\ Cardinality(I) = m
  BY FS_Interval
<1>2. \A i \in I : af[i] \in Nat
  OBVIOUS
<1> HIDE DEF I
<1>3. ASSUME NEW i \in I
      PROVE  /\ part[i] \in Nat /\ rest * af[i] \in Int /\ part[i] * whole \in Int
             /\ 2 * (part[i] * whole - rest * af[i]) <= whole
             /\ -whole <= 2 * (part[i] * whole - rest * af[i])
  <2> DEFINE n == rest * af[i]
             q == part[i]
  <2>1. n \in Int /\ n >= 0
    <3>1. af[i] \in Int /\ af[i] >= 0
      BY <1>2
    <3>2. QED
      BY <3>1
  <2>2. q = Quantize(n, whole)
    BY DEF RoundedParts, I
  <2> HIDE DEF n, q
  <2>3. q \in Nat /\ 2 * (q * whole - n) <= whole /\ -whole <= 2 * (q * whole - n)
    BY <2>1, <2>2, QuantizeIsNear
  <2>4. q * whole \in Int
    BY <2>3
  <2>5. QED
    BY <2>1, <2>3, <2>4 DEF n, q
<1>4. ASSUME NEW i \in I
      PROVE  /\ off[i] \in Int /\ 2 * off[i] <= whole /\ -whole <= 2 * off[i]
             /\ big[i] = off[i] + exact[i] /\ exact[i] \in Int
             /\ big[i] = whole * part[i] /\ exact[i] = rest * af[i]
  <2>1. big[i] = whole * part[i] /\ exact[i] = rest * af[i] /\ off[i] = big[i] - exact[i]
    OBVIOUS
  <2> HIDE DEF big, exact, off
  <2> DEFINE x == whole * part[i]
             y == rest * af[i]
  <2>2. part[i] \in Nat /\ y \in Int /\ 2 * (part[i] * whole - y) <= whole /\ -whole <= 2 * (part[i] * whole - y)
    BY <1>3
  <2>3. x = part[i] * whole /\ x \in Int
    BY <2>2
  <2>4. big[i] = x /\ exact[i] = y
    BY <2>1
  <2> HIDE DEF x, y
  <2>5. off[i] = x - y /\ x \in Int /\ y \in Int /\ 2 * (x - y) <= whole /\ -whole <= 2 * (x - y)
    BY <2>1, <2>2, <2>3, <2>4
  <2>6. off[i] \in Int /\ 2 * off[i] <= whole /\ -whole <= 2 * off[i] /\ big[i] = off[i] + exact[i]
    BY <2>4, <2>5
  <2>7. QED
    BY <2>1, <2>4, <2>5, <2>6
<1> HIDE DEF big, exact, off
<1> DEFINE q == Total(part, I)
           a == Total(af, I)
           e == Total(off, I)
<1>5. q \in Nat /\ a \in Nat
  <2>1. \A i \in I : part[i] \in Nat
    BY <1>3
  <2>2. QED
    BY <1>1, <1>2, <2>1, TotalIsNat
<1>6. e \in Int /\ 2 * e <= whole * m
  <2>1. \A i \in I : off[i] \in Int /\ 2 * off[i] <= whole /\ -whole <= 2 * off[i]
    BY <1>4
  <2>2. whole \in Nat
    OBVIOUS
  <2>3. Total(off, I) \in Int /\ 2 * Total(off, I) <= whole * Cardinality(I)
    BY <1>1, <2>1, <2>2, TotalOfSmall
  <2>4. QED
    BY <1>1, <2>3
<1>7. whole * q = e + rest * a
  <2>1. Total(big, I) = Total(off, I) + Total(exact, I)
    <3>1. \A i \in I : off[i] \in Int /\ exact[i] \in Int /\ big[i] = off[i] + exact[i]
      BY <1>4
    <3>2. QED
      BY <1>1, <3>1, TotalOfSums
  <2>2. Total(big, I) = whole * Total(part, I)
    <3>1. \A i \in I : part[i] \in Int
      BY <1>3
    <3>2. \A i \in I : big[i] = whole * part[i]
      BY <1>4
    <3>3. QED
      BY <1>1, <3>1, <3>2, TotalOfMultiples
  <2>3. Total(exact, I) = rest * Total(af, I)
    <3>1. \A i \in I : af[i] \in Int
      BY <1>2
    <3>2. \A i \in I : exact[i] = rest * af[i]
      BY <1>4
    <3>3. QED
      BY <1>1, <3>1, <3>2, TotalOfMultiples
  <2>4. QED
    BY <2>1, <2>2, <2>3
<1>8. a <= whole
  BY DEF I
<1> HIDE DEF q, a, e
<1>9. rest * a <= whole * rest
  <2>1. PICK k \in Nat : whole = a + k
    <3>1. whole - a \in Nat /\ whole = a + (whole - a)
      BY <1>5, <1>8
    <3>2. QED
      BY <3>1
  <2>2. whole * rest = rest * a + k * rest
    BY <1>5, <2>1
  <2>3. k * rest >= 0 /\ k * rest \in Int /\ rest * a \in Int
    BY <1>5, <2>1
  <2>4. QED
    BY <2>2, <2>3
<1>10. whole * (2 * q) <= whole * (2 * rest + m)
  <2> DEFINE wq == whole * q
             wr == whole * rest
             wm == whole * m
             ra == rest * a
  <2>1. whole * (2 * q) = 2 * wq /\ whole * (2 * rest + m) = 2 * wr + wm
    BY <1>5
  <2>2. wq \in Int /\ wr \in Int /\ wm \in Int /\ ra \in Int
    BY <1>5
  <2>3. wq = e + ra /\ ra <= wr /\ 2 * e <= wm /\ e \in Int
    BY <1>6, <1>7, <1>9
  <2> HIDE DEF wq, wr, wm, ra
  <2>4. 2 * wq <= 2 * wr + wm
    BY <2>2, <2>3
  <2>5. QED
    BY <2>1, <2>4
<1>11. 2 * q <= 2 * rest + m
  <2>1. 2 * q \in Int /\ 2 * rest + m \in Int /\ whole \in Nat \ {0}
    BY <1>5
  <2>2. QED
    BY <1>10, <2>1, GreaterFactor
<1>12. QED
  BY <1>3, <1>5, <1>11 DEF q, I

\* What the records bring adds up to what is left when the own deliveries are served.
\* Only what the last one brings may be below nothing, and by less than half a unit
\* for each record.
LEMMA RemaindersAddUp ==
  ASSUME NEW s \in Seq(Diversion), s # <<>>, NEW loss, NEW own \in Int,
         loss.available \in Int, loss.diverted \in Nat, own <= loss.available,
         (own = 0 /\ loss.available = loss.diverted) \/ loss.diverted # 0,
         Total([i \in 1 .. Len(s) |-> s[i].af], 1 .. Len(s)) = loss.diverted
  PROVE  /\ RecordRemainders(s, loss, own) \in Seq(Int)
         /\ Len(RecordRemainders(s, loss, own)) = Len(s)
         /\ Total(RecordRemainders(s, loss, own), 1 .. Len(s)) = loss.available - own
         /\ \A i \in 1 .. (Len(s) - 1) : RecordRemainders(s, loss, own)[i] >= 0
         /\ -Len(s) < 2 * RecordRemainders(s, loss, own)[Len(s)]
<1> DEFINE n == Len(s)
           rest == loss.available - own
           part == [i \in 1 .. (n - 1) |-> Quantize(rest * s[i].af, loss.diverted)]
           left == rest - SumFunction(part)
           all == Append(part, left)
           plain == [i \in DOMAIN s |-> s[i].af]
<1>1. n \in Nat \ {0} /\ DOMAIN s = 1 .. n /\ \A i \in 1 .. n : s[i].af \in Nat
  <2>1. n \in Nat \ {0} /\ DOMAIN s = 1 .. n /\ \A i \in 1 .. n : s[i] \in Diversion
    OBVIOUS
  <2>2. QED
    BY <2>1 DEF Diversion
<1>2. RecordRemainders(s, loss, own) = IF own = 0 /\ loss.available = loss.diverted THEN plain ELSE all
  BY DEF RecordRemainders
<1>3. CASE own = 0 /\ loss.available = loss.diverted
  <2>1. plain \in Seq(Int) /\ Len(plain) = n
    BY <1>1
  <2>2. plain = [i \in 1 .. n |-> s[i].af]
    BY <1>1
  <2>3. \A i \in 1 .. n : plain[i] \in Nat
    BY <1>1
  <2>4. n \in 1 .. n /\ \A i \in 1 .. (n - 1) : i \in 1 .. n
    BY <1>1
  <2> HIDE DEF plain
  <2>5. (\A i \in 1 .. (n - 1) : plain[i] >= 0) /\ -n < 2 * plain[n]
    <3> HIDE DEF n
    <3>1. QED
      BY <1>1, <2>3, <2>4
  <2>6. RecordRemainders(s, loss, own) = plain
    BY <1>2, <1>3
  <2>7. Total(plain, 1 .. n) = loss.available - own
    BY <1>3, <2>2
  <2>8. QED
    BY <2>1, <2>5, <2>6, <2>7
<1>4. CASE ~(own = 0 /\ loss.available = loss.diverted)
  <2>1. rest \in Int /\ rest >= 0 /\ loss.diverted \in Nat \ {0} /\ n - 1 \in Nat
    BY <1>1, <1>4
  <2>a. /\ \A i \in 1 .. (n - 1) : part[i] \in Nat
        /\ 2 * Total(part, 1 .. (n - 1)) <= 2 * rest + (n - 1)
    <3> DEFINE af == [i \in 1 .. n |-> s[i].af]
               m == n - 1
    <3>1. \A i \in 1 .. n : af[i] = s[i].af /\ af[i] \in Nat
      BY <1>1
    <3>2. Total(af, 1 .. n) = loss.diverted
      OBVIOUS
    <3>3. \A i \in 1 .. m : i \in 1 .. n
      BY <1>1
    <3>4. RoundedParts(part, rest, af, loss.diverted, 1 .. m)
      <4> HIDE DEF rest, n
      <4>1. \A i \in 1 .. m : part[i] = Quantize(rest * s[i].af, loss.diverted)
        OBVIOUS
      <4> HIDE DEF part, af, m
      <4>2. QED
        BY <3>1, <3>3, <4>1 DEF RoundedParts
    <3> HIDE DEF af, rest, part, n
    <3>5. Total(af, 1 .. n) = Total(af, 1 .. m) + af[n] /\ af[n] \in Nat
      <4>1. n \in Nat /\ n \in 1 .. n /\ \A i \in 1 .. n : af[i] \in Int
        BY <1>1, <3>1
      <4>2. QED
        BY <3>1, <4>1, TotalGoesOn
    <3>6. Total(af, 1 .. m) \in Nat
      <4>1. IsFiniteSet(1 .. m) /\ \A i \in 1 .. m : af[i] \in Nat
        BY <2>1, <3>1, <3>3, LastPlace
      <4>2. QED
        BY <4>1, TotalIsNat
    <3>7. Total(af, 1 .. m) <= loss.diverted /\ m \in Nat /\ loss.diverted \in Int /\ loss.diverted > 0
      BY <2>1, <3>2, <3>5, <3>6
    <3>8. \A i \in 1 .. m : af[i] \in Nat
      BY <3>1, <3>3
    <3> HIDE DEF m
    <3>9. /\ \A i \in 1 .. m : part[i] \in Nat
          /\ 2 * Total(part, 1 .. m) <= 2 * rest + m
      BY <2>1, <3>4, <3>7, <3>8, PartsAreNear
    <3>10. QED
      BY <3>9 DEF m
  <2>2. part \in [1 .. (n - 1) -> Int]
    <3> SUFFICES ASSUME NEW i \in 1 .. (n - 1) PROVE Quantize(rest * s[i].af, loss.diverted) \in Int
      OBVIOUS
    <3>1. s[i].af \in Nat
      BY <1>1
    <3> HIDE DEF rest
    <3>2. rest * s[i].af \in Int
      BY <2>1, <3>1
    <3>3. QED
      BY <2>1, <3>2, QuantizeIsNear
  <2> HIDE DEF part, rest, n
  <2>3. SumFunction(part) = Total(part, 1 .. (n - 1)) /\ SumFunction(part) \in Int
    <3>1. SumFunction(part) = Total(part, 1 .. (n - 1))
      BY <2>2, SumsAreTotals
    <3>2. IsFiniteSet(1 .. (n - 1)) /\ \A i \in 1 .. (n - 1) : part[i] \in Int
      BY <2>1, <2>2, LastPlace
    <3>3. QED
      BY <3>1, <3>2, TotalIsInt
  <2>4. left \in Int
    BY <2>1, <2>3
  <2> HIDE DEF left
  <2>5. part \in Seq(Int) /\ Len(part) = n - 1
    BY <2>1, <2>2
  <2>6. /\ all \in Seq(Int) /\ Len(all) = n /\ all[n] = left
        /\ \A i \in 1 .. (n - 1) : all[i] = part[i]
    BY <1>1, <2>4, <2>5
  <2>7. \A i \in 1 .. n : all[i] \in Int
    BY <2>6
  <2> HIDE DEF all
  <2>8. Total(all, 1 .. n) = Total(all, 1 .. (n - 1)) + left
    <3>1. n \in Nat /\ n \in 1 .. n
      BY <1>1
    <3>2. Total(all, 1 .. n) = Total(all, 1 .. (n - 1)) + all[n]
      BY <2>7, <3>1, TotalGoesOn
    <3>3. QED
      BY <2>6, <3>2
  <2>9. Total(all, 1 .. (n - 1)) = Total(part, 1 .. (n - 1))
    <3>1. Alike(1 .. (n - 1), all, part) /\ IsFiniteSet(1 .. (n - 1))
      BY <2>1, <2>6, LastPlace DEF Alike
    <3>2. QED
      BY <3>1, TotalAlike
  <2>10. Total(all, 1 .. n) = rest
    BY <2>1, <2>3, <2>4, <2>8, <2>9 DEF left
  <2>11. RecordRemainders(s, loss, own) = all
    BY <1>2, <1>4
  <2>12. \A i \in 1 .. (n - 1) : all[i] >= 0
    <3>1. \A i \in 1 .. (n - 1) : all[i] = part[i] /\ part[i] \in Nat
      BY <2>6, <2>a
    <3>2. QED
      BY <3>1
  <2>13. -n < 2 * all[n]
    <3> DEFINE t == Total(part, 1 .. (n - 1))
    <3>1. left = rest - t /\ t \in Int
      BY <2>3 DEF left
    <3>2. n \in Int /\ all[n] = left /\ 2 * t <= 2 * rest + (n - 1)
      BY <1>1, <2>a, <2>6
    <3> HIDE DEF t
    <3>3. QED
      BY <2>1, <3>1, <3>2
  <2>14. QED
    BY <2>6, <2>10, <2>11, <2>12, <2>13 DEF rest, n
<1>5. QED
  BY <1>3, <1>4

-----------------------------------------------------------------------------
(* One record divided, and the month *)

\* No shares are rows, and add up to 0.
LEMMA NoSharesAddUp ==
  ASSUME NEW S
  PROVE  Amounts(NoShares, S, Int) /\ SumFunction(NoShares) = 0 /\ DOMAIN NoShares = {}
<1>1. Amounts(NoShares, S, Int) /\ DOMAIN NoShares = {}
  BY DEF Amounts, NoShares
<1>2. SumFunction(NoShares) = Total(NoShares, {})
  BY <1>1, SumsAreTotals
<1>3. QED
  BY <1>1, <1>2, TotalOfNothing

\* The demand of some use areas, as the division takes it.
LEMMA DemandAllocated ==
  ASSUME NEW F, IsFiniteSet(F), F \subseteq Int, NEW demand \in [F -> Int],
         NEW efficiency \in [F -> 1 .. FullEfficiency], NEW total \in Int
  PROVE  LET rows == AllocateByDemand(total, demand, efficiency)
             caps == DemandCaps(demand, efficiency)
         IN /\ Amounts(rows, F, Int)
            /\ (SumFunction(demand) > 0 /\ total # 0) =>
                  /\ DOMAIN rows = DOMAIN caps
                  /\ \A k \in DOMAIN rows : demand[k] > 0 /\ rows[k] <= caps[k]
            /\ total >= 0 => SumFunction(rows) <= total
<1> DEFINE caps == DemandCaps(demand, efficiency)
           D == {k \in F : demand[k] > 0}
           fill == WaterFill(demand, caps, total)
           placed == PlaceResidualUnderCaps(fill, caps, total)
           zeros == [k \in F |-> 0]
           rows == AllocateByDemand(total, demand, efficiency)
<1>1. DOMAIN caps = D /\ caps \in [D -> Nat]
  BY CapsAre
<1> HIDE DEF caps
<1>2. IsFiniteSet(D) /\ D \subseteq F /\ D \subseteq Int /\ \A k \in D : demand[k] \in Nat \ {0}
  <2>1. D \subseteq F /\ \A k \in D : demand[k] \in Nat \ {0}
    OBVIOUS
  <2>2. QED
    BY <2>1, FS_Subset
<1>3. /\ fill \in [D -> Int] /\ \A k \in D : fill[k] <= caps[k]
      /\ total >= 0 => \A k \in D : fill[k] >= 0
  BY <1>1, <1>2, WaterFillIsCapped
<1> HIDE DEF fill
<1>4. /\ placed \in [D -> Int] /\ \A k \in D : placed[k] <= caps[k]
      /\ total >= 0 => SumFunction(placed) <= total
  BY <1>1, <1>2, <1>3, PlacedUnderCaps
<1> HIDE DEF placed
<1>5. rows = IF SumFunction(demand) <= 0 THEN NoShares
             ELSE IF total = 0 THEN zeros
             ELSE IF total >= SumFunction(caps) THEN caps
             ELSE placed
  BY DEF AllocateByDemand, caps, placed, fill
<1>6. SumFunction(demand) \in Int
  <2>1. SumFunction(demand) = Total(demand, F) /\ \A k \in F : demand[k] \in Int
    BY SumsAreTotals
  <2>2. Total(demand, F) \in Int
    BY <2>1, TotalIsInt
  <2>3. QED
    BY <2>1, <2>2
<1>7. Amounts(NoShares, F, Int) /\ Amounts(zeros, F, Int)
  BY DEF Amounts, NoShares
<1>a. SumFunction(NoShares) = 0 /\ SumFunction(zeros) = 0
  <2>1. SumFunction(NoShares) = 0
    BY NoSharesAddUp
  <2>2. SumFunction(zeros) = Total(zeros, F) /\ \A k \in F : zeros[k] = 0
    BY SumsAreTotals
  <2> HIDE DEF zeros
  <2>3. Total(zeros, F) = 0
    BY <2>2, TotalOfZeros
  <2>4. QED
    BY <2>1, <2>2, <2>3
<1>b. SumFunction(caps) \in Int
  <2>1. SumFunction(caps) = Total(caps, D) /\ \A k \in D : caps[k] \in Int
    BY <1>1, SumsAreTotals
  <2>2. QED
    BY <1>2, <2>1, TotalIsInt
<1>8. \A r \in [D -> Int] : Amounts(r, F, Int) /\ DOMAIN r = D
  BY <1>2 DEF Amounts
<1>9. \A k \in D : caps[k] <= caps[k] /\ demand[k] > 0
  BY <1>1
<1>10. caps \in [D -> Int]
  BY <1>1
<1> HIDE DEF rows, zeros, D
<1>11. Amounts(rows, F, Int)
  BY <1>4, <1>5, <1>7, <1>8, <1>10
<1>12. ASSUME SumFunction(demand) > 0, total # 0
       PROVE  DOMAIN rows = DOMAIN caps /\ \A k \in DOMAIN rows : demand[k] > 0 /\ rows[k] <= caps[k]
  <2>1. rows = caps \/ rows = placed
    BY <1>5, <1>6, <1>12
  <2>2. DOMAIN placed = D
    BY <1>4
  <2>3. QED
    BY <1>1, <1>4, <1>9, <2>1, <2>2
<1>13. ASSUME total >= 0 PROVE SumFunction(rows) <= total
  <2>1. CASE rows = NoShares \/ rows = zeros
    BY <1>a, <1>13, <2>1
  <2>2. CASE total >= SumFunction(caps) /\ rows = caps
    BY <1>b, <2>2
  <2>3. CASE rows = placed
    BY <1>4, <1>13, <2>3
  <2>4. QED
    BY <1>5, <1>6, <1>b, <2>1, <2>2, <2>3
<1>14. QED
  BY <1>11, <1>12, <1>13 DEF rows, caps

\* Rows of some of a finite set add up to an integer.
LEMMA RowsSum ==
  ASSUME NEW S, IsFiniteSet(S), NEW r, Amounts(r, S, Int)
  PROVE  /\ IsFiniteSet(DOMAIN r) /\ r \in [DOMAIN r -> Int]
         /\ SumFunction(r) \in Int /\ SumFunction(r) = Total(r, DOMAIN r)
<1>1. DOMAIN r \subseteq S /\ r \in [DOMAIN r -> Int]
  BY DEF Amounts
<1>2. IsFiniteSet(DOMAIN r)
  BY <1>1, FS_Subset
<1>3. SumFunction(r) = Total(r, DOMAIN r)
  BY SumsAreTotals
<1>4. \A x \in DOMAIN r : r[x] \in Int
  BY <1>1
<1>5. Total(r, DOMAIN r) \in Int
  BY <1>2, <1>4, TotalIsInt
<1>6. QED
  BY <1>1, <1>2, <1>3, <1>5

\* By shares, one record is divided to the last ten-thousandth.
LEMMA FractionsAddUp ==
  ASSUME NEW d, IsDistrict(d), NEW p \in Point, NEW total \in Int
  PROVE  /\ Amounts(FractionRows(d, p, total), Field, Int)
         /\ SumFunction(FractionRows(d, p, total)) = IF Free(d, p) = {} THEN 0 ELSE total
<1> DEFINE F == Free(d, p)
           share == [f \in F |-> d.share[p][f]]
           acres == [f \in F |-> d.acres[f]]
           weight == ApportionSharedSupply(share, acres)
           part == [f \in F |-> Quantize(total * weight[f], Whole)]
<1>1. F \subseteq Served(d, p) /\ F \subseteq Field /\ F \subseteq Int /\ IsFiniteSet(F)
  <2>1. F \subseteq Served(d, p)
    BY DEF Free
  <2>2. QED
    BY <2>1, HeadgateIs, FS_Subset
<1>2. CASE F = {}
  <2>1. FractionRows(d, p, total) = NoShares
    BY <1>2 DEF FractionRows
  <2>2. QED
    BY <1>2, <2>1, NoSharesAddUp
<1>3. CASE F # {}
  <2>1. share \in [F -> Nat] /\ acres \in [F -> Nat]
    <3>1. \A f \in F : d.share[p][f] \in Nat
      BY <1>1, HeadgateIs
    <3>2. \A f \in F : d.acres[f] \in Nat
      BY <1>1 DEF IsDistrict
    <3>3. QED
      BY <3>1, <3>2
  <2> HIDE DEF share, acres, F
  <2>2. weight \in [F -> Int]
    BY <1>1, <1>3, <2>1, WeightsAddUp
  <2> HIDE DEF weight
  <2>3. part \in [F -> Int]
    <3>1. \A f \in F : total * weight[f] \in Int /\ Whole \in Nat \ {0}
      BY <2>2 DEF Whole
    <3>2. QED
      BY <3>1, QuantizeIsNear
  <2> HIDE DEF part
  <2>4. /\ PlaceResidual(part, total) \in [F -> Int]
        /\ SumFunction(PlaceResidual(part, total)) = total
    BY <1>1, <1>3, <2>3, PlacedAddsUp
  <2>5. FractionRows(d, p, total) = PlaceResidual(part, total)
    BY <1>3 DEF FractionRows, F, share, acres, weight, part
  <2>6. Amounts(PlaceResidual(part, total), Field, Int)
    BY <1>1, <2>4 DEF Amounts
  <2>7. QED
    BY <1>3, <2>4, <2>5, <2>6 DEF F
<1>4. QED
  BY <1>2, <1>3

\* What one record brings is not refused, if it is divided by need.
NotRefused(d, need, p, total) ==
  p \in d.byNeed => Divisible(total, [f \in Free(d, p) |-> need[f]])

\* What is on record of what one record brings, once it is divided.
GivenOut(d, p, total) == IF Free(d, p) = {} THEN Most(total, 0) ELSE total

\* By need, the rows are those of free use areas, and come to no more than is divided.
LEMMA NeedRowsAre ==
  ASSUME NEW d, IsDistrict(d), NEW p \in Point, NEW total \in Int, NEW need \in [Field -> Int]
  PROVE  LET byNeed == NeedRows(d, need, p, total)
         IN /\ Amounts(byNeed, Field, Int)
            /\ Free(d, p) = {} => byNeed = NoShares
            /\ NotRefused(d, need, p, total) /\ byNeed # NoShares => SumFunction(byNeed) <= total
<1> DEFINE F == Free(d, p)
           asked == [f \in F |-> need[f]]
           efficiency == [f \in F |-> d.efficiency[f]]
<1>1. F \subseteq Field /\ F \subseteq Int /\ IsFiniteSet(F)
  <2>1. F \subseteq Served(d, p)
    BY DEF Free
  <2>2. QED
    BY <2>1, HeadgateIs, FS_Subset
<1>2. asked \in [F -> Int] /\ efficiency \in [F -> 1 .. FullEfficiency]
  BY <1>1 DEF IsDistrict
<1>3. NeedRows(d, need, p, total) = IF p \notin d.byNeed THEN NoShares
                                    ELSE AllocateByDemand(total, asked, efficiency)
  BY DEF NeedRows
<1>a. NotRefused(d, need, p, total) /\ p \in d.byNeed => total >= 0
  BY DEF NotRefused, Divisible
<1> HIDE DEF F, asked, efficiency
<1>4. /\ Amounts(AllocateByDemand(total, asked, efficiency), F, Int)
      /\ total >= 0 => SumFunction(AllocateByDemand(total, asked, efficiency)) <= total
  BY <1>1, <1>2, DemandAllocated
<1>5. \A r : Amounts(r, F, Int) => Amounts(r, Field, Int)
  BY <1>1 DEF Amounts
<1>6. ASSUME F = {} PROVE AllocateByDemand(total, asked, efficiency) = NoShares
  <2>1. SumFunction(asked) = Total(asked, {})
    BY <1>2, <1>6, SumsAreTotals
  <2>2. SumFunction(asked) <= 0
    BY <2>1, TotalOfNothing
  <2>3. QED
    BY <2>2 DEF AllocateByDemand
<1>7. QED
  BY <1>3, <1>a, <1>4, <1>5, <1>6, NoSharesAddUp DEF F

\* One record is divided to the last ten-thousandth, however it is divided; where no use
\* area divides it, it is all left over, and less than nothing is not recorded.
LEMMA RecordSplit ==
  ASSUME NEW d, IsDistrict(d), NEW p \in Point, NEW total \in Int, NEW need \in [Field -> Int]
  PROVE  LET split == SplitRecord(d, need, p, total)
         IN /\ Amounts(split.share, Field, Int) /\ split.beyond \in Int
            /\ SumFunction(split.share) \in Int
            /\ Free(d, p) = {} => split.share = NoShares
            /\ NotRefused(d, need, p, total) =>
                 SumFunction(split.share) + split.beyond = GivenOut(d, p, total)
<1> DEFINE byNeed == NeedRows(d, need, p, total)
           byShare == FractionRows(d, p, total)
           surplus == IF byNeed # NoShares THEN total - SumFunction(byNeed)
                      ELSE IF Free(d, p) = {} THEN total ELSE 0
           split == SplitRecord(d, need, p, total)
<1>1. IsFiniteSet(Field)
  BY KeysAssumption
<1>2. /\ Amounts(byNeed, Field, Int) /\ SumFunction(byNeed) \in Int
      /\ Free(d, p) = {} => byNeed = NoShares
      /\ NotRefused(d, need, p, total) /\ byNeed # NoShares => SumFunction(byNeed) <= total
  <2>1. /\ Amounts(byNeed, Field, Int)
        /\ Free(d, p) = {} => byNeed = NoShares
        /\ NotRefused(d, need, p, total) /\ byNeed # NoShares => SumFunction(byNeed) <= total
    BY NeedRowsAre
  <2> HIDE DEF byNeed
  <2>2. SumFunction(byNeed) \in Int
    BY <1>1, <2>1, RowsSum
  <2>3. QED
    BY <2>1, <2>2
<1>3. /\ Amounts(byShare, Field, Int)
      /\ SumFunction(byShare) = IF Free(d, p) = {} THEN 0 ELSE total
  BY FractionsAddUp
<1>a. Free(d, p) = {} => byShare = NoShares
  BY DEF FractionRows
<1>4. split = [share |-> IF byNeed # NoShares THEN byNeed ELSE byShare, beyond |-> Most(surplus, 0)]
  BY DEF SplitRecord, SplitRows
<1> HIDE DEF byNeed, byShare, split
<1>5. split.share = (IF byNeed # NoShares THEN byNeed ELSE byShare) /\ split.beyond = Most(surplus, 0)
  BY <1>4
<1>6. CASE byNeed # NoShares
  <2>1. /\ split.share = byNeed /\ split.beyond = Most(total - SumFunction(byNeed), 0)
        /\ Free(d, p) # {}
    BY <1>2, <1>5, <1>6
  <2>2. NotRefused(d, need, p, total) => SumFunction(byNeed) <= total
    BY <1>2, <1>6
  <2>3. /\ split.beyond \in Int
        /\ NotRefused(d, need, p, total) => SumFunction(byNeed) + split.beyond = total
    BY <1>2, <2>1, <2>2 DEF Most
  <2>4. QED
    BY <1>2, <2>1, <2>3 DEF GivenOut, split
<1>7. CASE byNeed = NoShares
  <2>1. split.share = byShare /\ split.beyond = Most(IF Free(d, p) = {} THEN total ELSE 0, 0)
    BY <1>5, <1>7
  <2>2. split.beyond \in Int /\ SumFunction(byShare) + split.beyond = GivenOut(d, p, total)
    BY <1>3, <2>1 DEF Most, GivenOut
  <2>3. SumFunction(byShare) \in Int
    BY <1>3
  <2>4. QED
    BY <1>3, <1>a, <2>1, <2>2, <2>3 DEF split
<1>8. QED
  BY <1>6, <1>7

\* Rows of a month in the making: of some use areas, with its losses.
MonthRows(loss) ==
  [share : UNION {[S -> Int] : S \in SUBSET Field}, beyond : Int, loss : {loss}]

Shared(rows) == SumFunction(rows.share) + rows.beyond

\* What the rows of a month are made of.
LEMMA MonthRowsAre ==
  ASSUME NEW loss, NEW rows \in MonthRows(loss)
  PROVE  /\ Amounts(rows.share, Field, Int) /\ IsFiniteSet(DOMAIN rows.share)
         /\ rows.share \in [DOMAIN rows.share -> Int]
         /\ SumFunction(rows.share) \in Int /\ rows.beyond \in Int /\ rows.loss = loss
<1>1. rows.share \in UNION {[S -> Int] : S \in SUBSET Field} /\ rows.beyond \in Int /\ rows.loss = loss
  BY DEF MonthRows
<1>2. PICK S \in SUBSET Field : rows.share \in [S -> Int]
  BY <1>1
<1>3. Amounts(rows.share, Field, Int)
  BY <1>2 DEF Amounts
<1>4. IsFiniteSet(Field)
  BY KeysAssumption
<1>5. QED
  BY <1>1, <1>3, <1>4, RowsSum

\* The rows of one record over those of the records before it.
LEMMA RecordAdded ==
  ASSUME NEW d, IsDistrict(d), NEW p \in Point, NEW total \in Int, NEW need \in [Field -> Int],
         NEW loss, NEW rows \in MonthRows(loss)
  PROVE  /\ AddRecord(d, need, p, rows, total) \in MonthRows(loss)
         /\ Free(d, p) = {} /\ rows.share = NoShares =>
              AddRecord(d, need, p, rows, total).share = NoShares
         /\ (total # 0 => NotRefused(d, need, p, total)) =>
              Shared(AddRecord(d, need, p, rows, total)) = Shared(rows) + GivenOut(d, p, total)
<1> DEFINE split == SplitRecord(d, need, p, total)
           share == AddShares(rows.share, split.share)
           all == AddRows(rows, split)
<1>1. /\ Amounts(rows.share, Field, Int)
      /\ SumFunction(rows.share) \in Int /\ rows.beyond \in Int /\ rows.loss = loss
  BY MonthRowsAre
<1>3. /\ Amounts(split.share, Field, Int)
      /\ SumFunction(split.share) \in Int /\ split.beyond \in Int
      /\ Free(d, p) = {} => split.share = NoShares
      /\ NotRefused(d, need, p, total) => SumFunction(split.share) + split.beyond = GivenOut(d, p, total)
  BY RecordSplit
<1> HIDE DEF split
<1>0. /\ IsFiniteSet(Field) /\ Amounts(rows.share, Field, Int) /\ Amounts(split.share, Field, Int)
  BY <1>1, <1>3, KeysAssumption
<1>4. /\ Amounts(share, Field, Int)
      /\ SumFunction(share) = SumFunction(rows.share) + SumFunction(split.share)
  BY <1>0, SharesAdded
<1>a. Free(d, p) = {} /\ rows.share = NoShares => share = NoShares
  BY <1>3 DEF AddShares, NoShares
<1> HIDE DEF share
<1>5. share \in UNION {[S -> Int] : S \in SUBSET Field}
  BY <1>4 DEF Amounts
<1>6. all = [rows EXCEPT !.share = share, !.beyond = rows.beyond + split.beyond]
  BY DEF AddRows, share
<1>7. all.share = share /\ all.beyond = rows.beyond + split.beyond /\ all \in MonthRows(loss)
  <2> DEFINE U == UNION {[S -> Int] : S \in SUBSET Field}
  <2>1. rows \in [share : U, beyond : Int, loss : {loss}]
    BY DEF MonthRows
  <2>2. share \in U /\ rows.beyond + split.beyond \in Int
    BY <1>1, <1>3, <1>5
  <2> HIDE DEF U
  <2>3. /\ all.share = share /\ all.beyond = rows.beyond + split.beyond
        /\ all \in [share : U, beyond : Int, loss : {loss}]
    BY <1>6, <2>1, <2>2
  <2>4. QED
    BY <2>3 DEF MonthRows, U
<1> HIDE DEF all
<1>b. GivenOut(d, p, total) \in Int /\ (total = 0 => GivenOut(d, p, total) = 0)
  BY DEF GivenOut, Most
<1>8. NotRefused(d, need, p, total) => Shared(all) = Shared(rows) + GivenOut(d, p, total)
  BY <1>1, <1>3, <1>4, <1>7, <1>b DEF Shared
<1>9. Shared(rows) \in Int
  BY <1>1 DEF Shared
<1>10. AddRecord(d, need, p, rows, total) = IF total = 0 THEN rows ELSE all
  BY DEF AddRecord, all, split
<1>11. CASE total = 0
  BY <1>9, <1>10, <1>11, <1>b
<1>12. CASE total # 0
  BY <1>7, <1>8, <1>10, <1>12, <1>a
<1>13. QED
  BY <1>11, <1>12

\* Nothing divided yet.
LEMMA NoRowsAre ==
  ASSUME NEW loss
  PROVE  /\ NoRows(loss) \in MonthRows(loss) /\ Shared(NoRows(loss)) = 0
         /\ NoRows(loss).share = NoShares
<1>1. Amounts(NoShares, Field, Int) /\ SumFunction(NoShares) = 0 /\ NoShares \in [{} -> Int]
  BY NoSharesAddUp DEF NoShares
<1>2. NoShares \in UNION {[S -> Int] : S \in SUBSET Field}
  <2>1. {} \in SUBSET Field
    OBVIOUS
  <2>2. QED
    BY <1>1, <2>1
<1>3. QED
  BY <1>1, <1>2 DEF NoRows, MonthRows, Shared

\* A month is divided record by record.
GoesOn(d, need, p, loss, h) ==
  LET s == ToDivide(d, p, loss)
  IN /\ h[1 .. 0] = NoRows(loss)
     /\ \A i \in 1 .. Len(s) : h[1 .. i] = AddRecord(d, need, p, h[1 .. (i - 1)], s[i])

\* The rows of a month are those of its records, each added to the ones before.
LEMMA MonthGoesOn ==
  ASSUME NEW d, IsDistrict(d), NEW p \in Point, NEW need \in [Field -> Int], NEW loss,
         ToDivide(d, p, loss) \in Seq(Int)
  PROVE  \E h : /\ GoesOn(d, need, p, loss, h)
                /\ AllocateMonth(d, need, p, loss)
                     = IF loss.own > loss.available THEN NoRows(loss)
                       ELSE h[1 .. Len(ToDivide(d, p, loss))]
<1> DEFINE s == ToDivide(d, p, loss)
           n == Len(s)
           X == MonthRows(loss)
           base == NoRows(loss)
           Add(rows, total) == AddRecord(d, need, p, rows, total)
           next == [r \in (1 .. n) \X X |-> Add(r[2], s[r[1]])]
           Is(it) == it = [R \in SUBSET (1 .. n) |->
                            IF R = {} THEN base ELSE Add(it[R \ {Max(R)}], s[Max(R)])]
           h == CHOOSE it : Is(it)
<1>1. s \in Seq(Int) /\ n \in Nat /\ DOMAIN s = 1 .. n /\ \A i \in 1 .. n : s[i] \in Int
  OBVIOUS
<1>2. base \in X
  BY NoRowsAre
<1>3. AllocateMonth(d, need, p, loss)
        = IF loss.own > loss.available THEN base ELSE FoldLeft(Add, base, s)
  BY DEF AllocateMonth
<1>4. FoldLeft(Add, base, s) = h[1 .. n]
  BY <1>1 DEF FoldLeft, MapThenFoldSet
<1> HIDE DEF s, n, base, X
<1>5. \A rows \in X, total \in Int : Add(rows, total) \in X
  BY RecordAdded DEF X
<1> HIDE DEF Add
<1>6. next \in [(1 .. n) \X X -> X]
  BY <1>1, <1>5
<1>7. PICK g \in [SUBSET (1 .. n) -> X] : Folds(g, 1 .. n, base, Latest(n), next)
  <2> HIDE DEF next
  <2>1. n \in Nat /\ base \in X
    BY <1>1, <1>2
  <2>2. QED
    BY <1>6, <2>1, FoldsAtPlaces
<1>8. Is(g)
  <2>1. ASSUME NEW R \in SUBSET (1 .. n)
        PROVE  g[R] = IF R = {} THEN base ELSE Add(g[R \ {Max(R)}], s[Max(R)])
    <3>1. g[R] = IF R = {} THEN base ELSE next[<<Latest(n)[R], g[R \ {Latest(n)[R]}]>>]
      BY <1>7 DEF Folds
    <3>2. Latest(n)[R] = Max(R) /\ (R # {} => Max(R) \in 1 .. n)
      BY <1>1, LastPlace DEF Latest
    <3>3. g[R \ {Max(R)}] \in X
      OBVIOUS
    <3>4. R # {} => next[<<Max(R), g[R \ {Max(R)}]>>] = Add(g[R \ {Max(R)}], s[Max(R)])
      BY <3>2, <3>3
    <3> HIDE DEF next
    <3>5. QED
      BY <3>1, <3>2, <3>4
  <2>2. QED
    BY <2>1
<1>9. Is(h)
  <2> HIDE DEF Is
  <2> QED
    BY <1>8
<1> HIDE DEF h
<1>10. h[1 .. 0] = base /\ \A i \in 1 .. n : h[1 .. i] = Add(h[1 .. (i - 1)], s[i])
  <2>1. ASSUME NEW R \in SUBSET (1 .. n)
        PROVE  h[R] = IF R = {} THEN base ELSE Add(h[R \ {Max(R)}], s[Max(R)])
    BY <1>9
  <2>2. 1 .. 0 \in SUBSET (1 .. n) /\ 1 .. 0 = {}
    BY <1>1, LastPlace
  <2> HIDE DEF Is
  <2>3. ASSUME NEW i \in 1 .. n PROVE h[1 .. i] = Add(h[1 .. (i - 1)], s[i])
    <3>1. /\ 1 .. i \in SUBSET (1 .. n) /\ 1 .. i # {} /\ Max(1 .. i) = i
          /\ (1 .. i) \ {i} = 1 .. (i - 1)
      BY <1>1, LastPlace
    <3>2. h[1 .. i] = Add(h[(1 .. i) \ {Max(1 .. i)}], s[Max(1 .. i)])
      BY <2>1, <3>1
    <3>3. QED
      BY <3>1, <3>2
  <2>4. QED
    BY <2>1, <2>2, <2>3
<1>11. GoesOn(d, need, p, loss, h)
  BY <1>10 DEF GoesOn, s, n, base, Add
<1>12. QED
  BY <1>3, <1>4, <1>11 DEF s, n, base

\* The records of a month one after the other: their rows add up to what they bring,
\* where a use area divides it; else to that and what is not recorded of the last.
LEMMA MonthAddsUp ==
  ASSUME NEW d, IsDistrict(d), NEW p \in Point, NEW need \in [Field -> Int], NEW loss,
         ~(loss.own > loss.available),
         ToDivide(d, p, loss) \in Seq(Int), ToDivide(d, p, loss) # <<>>,
         \A i \in 1 .. Len(ToDivide(d, p, loss)) :
            ToDivide(d, p, loss)[i] # 0 => NotRefused(d, need, p, ToDivide(d, p, loss)[i]),
         \A i \in 1 .. (Len(ToDivide(d, p, loss)) - 1) : ToDivide(d, p, loss)[i] >= 0
  PROVE  LET rows == AllocateMonth(d, need, p, loss)
             s == ToDivide(d, p, loss)
             n == Len(s)
         IN /\ rows \in MonthRows(loss)
            /\ Free(d, p) = {} => rows.share = NoShares
            /\ Shared(rows) = Total(s, 1 .. n) + GivenOut(d, p, s[n]) - s[n]
<1> DEFINE s == ToDivide(d, p, loss)
           n == Len(s)
           X == MonthRows(loss)
           kept == [i \in 1 .. n |-> GivenOut(d, p, s[i])]
           NoneShared(rows) == Free(d, p) = {} => rows.share = NoShares
<1>1. n \in Nat \ {0} /\ n \in 1 .. n /\ \A i \in 1 .. n : s[i] \in Int
  OBVIOUS
<1>2. NoRows(loss) \in X /\ Shared(NoRows(loss)) = 0 /\ NoneShared(NoRows(loss))
  BY NoRowsAre
<1>3. PICK h : GoesOn(d, need, p, loss, h) /\ AllocateMonth(d, need, p, loss) = h[1 .. n]
  BY MonthGoesOn
<1>4. /\ h[1 .. 0] = NoRows(loss)
      /\ \A i \in 1 .. n : h[1 .. i] = AddRecord(d, need, p, h[1 .. (i - 1)], s[i])
  BY <1>3 DEF GoesOn
<1>5. ASSUME NEW rows \in X, NEW total \in Int
      PROVE  /\ AddRecord(d, need, p, rows, total) \in X
             /\ NoneShared(rows) => NoneShared(AddRecord(d, need, p, rows, total))
             /\ (total # 0 => NotRefused(d, need, p, total)) =>
                  Shared(AddRecord(d, need, p, rows, total)) = Shared(rows) + GivenOut(d, p, total)
  BY RecordAdded
<1>a. \A i \in 1 .. n : s[i] # 0 => NotRefused(d, need, p, s[i])
  OBVIOUS
<1>b. \A i \in 1 .. (n - 1) : s[i] >= 0
  OBVIOUS
<1> HIDE DEF s, n, X, NoneShared
<1>c. \A i \in 1 .. n : kept[i] = GivenOut(d, p, s[i]) /\ kept[i] \in Int
  BY <1>1 DEF GivenOut, Most
<1> HIDE DEF kept
<1>6. h[1 .. n] \in X /\ NoneShared(h[1 .. n]) /\ Shared(h[1 .. n]) = Total(kept, 1 .. n)
  <2> DEFINE P == {i \in 0 .. n : /\ h[1 .. i] \in X /\ NoneShared(h[1 .. i])
                                  /\ Shared(h[1 .. i]) = Total(kept, 1 .. i)}
  <2>1. 0 \in P /\ n \in 0 .. n
    <3>1. Total(kept, 1 .. 0) = 0
      BY TotalOfNothing, LastPlace
    <3>2. QED
      BY <1>1, <1>2, <1>4, <3>1
  <2>2. ASSUME NEW i \in 1 .. n, i - 1 \in P PROVE i \in P
    <3>1. Total(kept, 1 .. i) = Total(kept, 1 .. (i - 1)) + kept[i]
      BY <1>1, <1>c, TotalGoesOn
    <3>2. /\ h[1 .. (i - 1)] \in X /\ NoneShared(h[1 .. (i - 1)])
          /\ Shared(h[1 .. (i - 1)]) = Total(kept, 1 .. (i - 1)) /\ s[i] \in Int
      BY <1>1, <2>2
    <3>3. /\ h[1 .. i] \in X /\ NoneShared(h[1 .. i])
          /\ Shared(h[1 .. i]) = Shared(h[1 .. (i - 1)]) + kept[i]
      <4> DEFINE before == h[1 .. (i - 1)]
                 total == s[i]
      <4>1. before \in X /\ NoneShared(before) /\ total \in Int /\ (total # 0 => NotRefused(d, need, p, total))
        BY <1>a, <3>2
      <4>2. h[1 .. i] = AddRecord(d, need, p, before, total) /\ kept[i] = GivenOut(d, p, total)
        BY <1>4, <1>c
      <4> HIDE DEF before, total
      <4>3. /\ AddRecord(d, need, p, before, total) \in X /\ NoneShared(AddRecord(d, need, p, before, total))
            /\ Shared(AddRecord(d, need, p, before, total)) = Shared(before) + GivenOut(d, p, total)
        BY <1>5, <4>1
      <4>4. QED
        BY <4>2, <4>3 DEF before
    <3>4. QED
      BY <1>1, <3>1, <3>2, <3>3
  <2> HIDE DEF P
  <2>3. n \in P
    BY <1>1, <2>1, <2>2, UpTo
  <2>4. QED
    BY <2>3 DEF P
<1>7. Total(kept, 1 .. n) = Total(s, 1 .. n) + kept[n] - s[n]
  <2>1. /\ Total(kept, 1 .. n) = Total(kept, 1 .. (n - 1)) + kept[n]
        /\ Total(kept, 1 .. (n - 1)) \in Int /\ kept[n] \in Int
    BY <1>1, <1>c, TotalGoesOn
  <2>2. /\ Total(s, 1 .. n) = Total(s, 1 .. (n - 1)) + s[n]
        /\ Total(s, 1 .. (n - 1)) \in Int /\ s[n] \in Int
    BY <1>1, TotalGoesOn
  <2>3. Total(kept, 1 .. (n - 1)) = Total(s, 1 .. (n - 1))
    <3>1. \A i \in 1 .. (n - 1) : i \in 1 .. n
      BY <1>1
    <3>2. \A i \in 1 .. (n - 1) : s[i] \in Int /\ s[i] >= 0 /\ kept[i] = GivenOut(d, p, s[i])
      BY <1>1, <1>b, <1>c, <3>1
    <3>3. \A i \in 1 .. (n - 1) : kept[i] = s[i]
      BY <3>2 DEF GivenOut, Most
    <3>4. Alike(1 .. (n - 1), kept, s) /\ IsFiniteSet(1 .. (n - 1))
      <4>1. n - 1 \in Nat
        BY <1>1
      <4>2. QED
        BY <3>3, <4>1, LastPlace DEF Alike
    <3>5. QED
      BY <3>4, TotalAlike
  <2> DEFINE a == Total(kept, 1 .. n)
             b == Total(s, 1 .. n)
             c == Total(s, 1 .. (n - 1))
             x == kept[n]
             y == s[n]
  <2>4. a = c + kept[n] /\ b = c + s[n] /\ c \in Int
    BY <2>1, <2>2, <2>3
  <2>a. x \in Int /\ y \in Int
    BY <2>1, <2>2
  <2>b. a = c + x /\ b = c + y /\ c \in Int
    BY <2>4
  <2> HIDE DEF a, b, c, x, y
  <2>5. a = b + x - y
    BY <2>a, <2>b
  <2>6. QED
    BY <2>5 DEF a, b, x, y
<1>8. kept[n] = GivenOut(d, p, s[n])
  BY <1>1, <1>c
<1>9. QED
  BY <1>3, <1>6, <1>7, <1>8 DEF X, NoneShared, s, n

-----------------------------------------------------------------------------
(* A division on the books *)

\* The zone that takes a canal's seepage is one on record, if any.
LEMMA SeepageZoneIs ==
  ASSUME NEW d, IsDistrict(d), NEW p \in Point, NEW share, Amounts(share, Field, Int)
  PROVE  SeepageZone(d, p, share) \in OrNothing(Zone)
<1> DEFINE D == DOMAIN share
           Ahead(f, g) == share[f] > share[g] \/ (share[f] = share[g] /\ f <= g)
           R == {r \in D \X D : Ahead(r[1], r[2])}
           biggest == CHOOSE f \in D : \A g \in D : Ahead(f, g)
<1>1. D \subseteq Field /\ D \subseteq Int /\ IsFiniteSet(D) /\ \A f \in D : share[f] \in Int
  <2>1. D \subseteq Field /\ \A f \in D : share[f] \in Int
    BY DEF Amounts
  <2>2. QED
    BY <2>1, KeysAssumption, FS_Subset
<1> HIDE DEF D
<1>2. ASSUME D # {} PROVE biggest \in D
  <2>1. \A f, g \in D : <<f, g>> \in R <=> Ahead(f, g)
    OBVIOUS
  <2>2. \A f, g \in D : Ahead(f, g) \/ Ahead(g, f)
    BY <1>1
  <2>3. \A f, g, k \in D : Ahead(f, g) /\ Ahead(g, k) => Ahead(f, k)
    BY <1>1
  <2> HIDE DEF R, Ahead
  <2>4. \E f \in D : \A g \in D : <<f, g>> \in R
    <3>1. \A f, g \in D : <<f, g>> \in R \/ <<g, f>> \in R
      <4> TAKE f, g \in D
      <4>1. Ahead(f, g) \/ Ahead(g, f)
        BY <2>2
      <4>2. QED
        BY <2>1, <4>1
    <3>2. \A f, g, k \in D : <<f, g>> \in R /\ <<g, k>> \in R => <<f, k>> \in R
      BY <2>1, <2>3
    <3>3. QED
      BY <1>1, <1>2, <3>1, <3>2, FirstInOrder
  <2>5. \E f \in D : \A g \in D : Ahead(f, g)
    BY <2>1, <2>4
  <2>6. QED
    BY <2>5
<1>3. SeepageZone(d, p, share)
        = CASE d.standsIn[p] # Nothing -> d.standsIn[p]
            [] d.standsIn[p] = Nothing /\ D = {} -> Nothing
            [] OTHER -> d.zone[biggest]
  BY DEF SeepageZone, D
<1> HIDE DEF biggest
<1>4. d.standsIn[p] \in OrNothing(Zone) /\ d.zone \in [Field -> OrNothing(Zone)]
  BY DEF IsDistrict
<1>5. CASE d.standsIn[p] # Nothing
  BY <1>3, <1>4, <1>5
<1>6. CASE d.standsIn[p] = Nothing /\ D = {}
  BY <1>3, <1>6 DEF OrNothing
<1>7. CASE d.standsIn[p] = Nothing /\ D # {}
  <2>1. SeepageZone(d, p, share) = d.zone[biggest]
    BY <1>3, <1>7
  <2>2. biggest \in Field
    BY <1>1, <1>2, <1>7
  <2>3. QED
    BY <1>4, <2>1, <2>2 DEF OrNothing
<1>8. QED
  BY <1>5, <1>6, <1>7

\* Of some of a finite set's members, at least one of them not 0, the sum is above 0.
LEMMA TotalAboveNothing ==
  ASSUME NEW A, IsFiniteSet(A), NEW f, \A x \in A : f[x] \in Nat, NEW x \in A, f[x] # 0
  PROVE  Total(f, A) \in Nat \ {0}
<1>1. IsFiniteSet(A \ {x}) /\ \A y \in A \ {x} : f[y] \in Nat
  BY FS_Subset
<1>2. Total(f, A \ {x}) \in Nat
  BY <1>1, TotalIsNat
<1>3. Total(f, A) = f[x] + Total(f, A \ {x})
  <2>1. \A y \in A : f[y] \in Int
    OBVIOUS
  <2>2. QED
    BY <2>1, TotalWithout
<1>4. QED
  BY <1>2, <1>3

\* The credits a canal's seepage earns are those of water accounts.
LEMMA SeepageCreditsAre ==
  ASSUME NEW d, IsDistrict(d), NEW p \in Point, NEW loss \in OrNothing(LossRow)
  PROVE  Amounts(SeepageCredits(d, p, loss), Account, Int)
<1> DEFINE F == Served(d, p)
           acre == IF \E f \in F : d.acres[f] # 0 THEN d.acres ELSE [f \in Field |-> 1]
           Acres(G) == SumFunctionOnSet(acre, G)
           Of(a) == {f \in F : d.account[f] = a}
           kept == loss.seepage * (1000 - d.leaveBehind)
           KeptOf(part, whole) == Quantize(loss.seepage * (1000 - d.leaveBehind) * part, 1000 * whole)
           owned == [a \in {d.owner[p]} |-> KeptOf(1, 1)]
           byAcre == [a \in {d.account[f] : f \in F} \ {Nothing} |-> KeptOf(Acres(Of(a)), Acres(F))]
           earned == CASE d.credit = "owner" /\ d.owner[p] # Nothing -> owned
                       [] d.credit = "by_acre" -> byAcre
                       [] OTHER -> NoShares
           given == [a \in {b \in DOMAIN earned : earned[b] # 0} |-> earned[a]]
<1>1. /\ F \subseteq Field /\ IsFiniteSet(F) /\ d.acres \in [Field -> Nat]
      /\ d.account \in [Field -> OrNothing(Account)] /\ d.owner[p] \in OrNothing(Account)
      /\ d.leaveBehind \in 0 .. 1000 /\ d.credit \in {"none", "owner", "by_acre"}
  <2>1. F \subseteq Field /\ IsFiniteSet(F)
    BY HeadgateIs
  <2> HIDE DEF F
  <2>2. /\ d.acres \in [Field -> Nat]
        /\ d.account \in [Field -> OrNothing(Account)] /\ d.owner \in [Point -> OrNothing(Account)]
        /\ d.leaveBehind \in 0 .. 1000 /\ d.credit \in {"none", "owner", "by_acre"}
    BY DEF IsDistrict
  <2>3. QED
    BY <2>1, <2>2
<1>2. SeepageCredits(d, p, loss) = IF loss = Nothing THEN NoShares ELSE given
  BY DEF SeepageCredits
<1>3. CASE loss = Nothing
  BY <1>2, <1>3, NoSharesAddUp
<1>4. CASE loss # Nothing
  <2>1. loss.seepage \in Nat
    BY <1>4 DEF OrNothing, LossRow
  <2>2. kept \in Int
    <3> DEFINE left == d.leaveBehind
    <3>1. left \in 0 .. 1000
      BY <1>1
    <3> HIDE DEF left
    <3>2. 1000 - left \in Int
      BY <3>1
    <3>3. loss.seepage * (1000 - left) \in Int
      BY <2>1, <3>2
    <3>4. QED
      BY <3>3 DEF left
  <2>3. ASSUME NEW part \in Int, NEW whole \in Nat \ {0} PROVE KeptOf(part, whole) \in Int
    <3>1. KeptOf(part, whole) = Quantize(kept * part, 1000 * whole)
      OBVIOUS
    <3> HIDE DEF kept
    <3>2. kept * part \in Int /\ 1000 * whole \in Nat \ {0}
      BY <2>2
    <3> HIDE DEF KeptOf
    <3>3. QED
      BY <3>1, <3>2, QuantizeIsNear
  <2> HIDE DEF kept, KeptOf
  <2>4. Amounts(owned, Account, Int) \/ d.owner[p] = Nothing
    <3>1. KeptOf(1, 1) \in Int
      BY <2>3
    <3>2. QED
      BY <1>1, <3>1 DEF Amounts, OrNothing
  <2>5. \A f \in F : acre[f] \in Nat
    BY <1>1
  <2>6. \A G \in SUBSET F : Acres(G) \in Int
    <3> SUFFICES ASSUME NEW G \in SUBSET F PROVE Acres(G) \in Int
      OBVIOUS
    <3> HIDE DEF F, acre
    <3>1. Acres(G) = Total(acre, G)
      BY SumsAreTotals
    <3>2. IsFiniteSet(G) /\ \A f \in G : acre[f] \in Int
      BY <1>1, <2>5, FS_Subset
    <3>3. Total(acre, G) \in Int
      BY <3>2, TotalIsInt
    <3> HIDE DEF Acres
    <3>4. QED
      BY <3>1, <3>3
  <2>7. F # {} => Acres(F) \in Nat \ {0}
    <3>1. Acres(F) = Total(acre, F)
      BY SumsAreTotals
    <3>2. F # {} => \E f \in F : acre[f] # 0
      BY <1>1
    <3> HIDE DEF F, acre, Acres
    <3>3. QED
      BY <1>1, <2>5, <3>1, <3>2, TotalAboveNothing
  <2>8. Amounts(byAcre, Account, Int)
    <3> DEFINE A == {d.account[f] : f \in F} \ {Nothing}
    <3>1. A \subseteq Account
      BY <1>1 DEF OrNothing
    <3>2. ASSUME NEW a \in A PROVE KeptOf(Acres(Of(a)), Acres(F)) \in Int
      <4>1. F # {} /\ Of(a) \in SUBSET F
        OBVIOUS
      <4> HIDE DEF F, Acres, Of, A
      <4>2. Acres(Of(a)) \in Int /\ Acres(F) \in Nat \ {0}
        BY <2>6, <2>7, <4>1
      <4>3. QED
        BY <2>3, <4>2
    <3> HIDE DEF F, Acres, Of
    <3>3. byAcre = [a \in A |-> KeptOf(Acres(Of(a)), Acres(F))]
      OBVIOUS
    <3> HIDE DEF byAcre, A
    <3>4. QED
      BY <3>1, <3>2, <3>3 DEF Amounts
  <2> HIDE DEF owned, byAcre, F, acre, Acres, Of
  <2>9. Amounts(earned, Account, Int)
    BY <1>1, <2>4, <2>8, NoSharesAddUp
  <2> HIDE DEF earned
  <2>10. Amounts(given, Account, Int)
    BY <2>9 DEF Amounts
  <2>11. QED
    BY <1>2, <1>4, <2>10
<1>5. QED
  BY <1>3, <1>4

\* What a division says closes the month: nothing is divided where the own deliveries
\* pass what is left, and else what is left over is less than half a ten-thousandth for
\* each record, and nothing where use areas divide it.
PlanCloses(d, p, plan) ==
  /\ Amounts(plan.share, Field, Int) /\ plan.beyond \in Int /\ SumFunction(plan.share) \in Int
  /\ \/ plan.loss = Nothing /\ plan.share = NoShares /\ plan.beyond = 0
     \/ /\ plan.loss \in LossRow /\ plan.loss.diverted = Recorded(d, p)
        /\ plan.loss.diverted = plan.loss.evaporation + plan.loss.seepage + plan.loss.spill
                                  + plan.loss.available
        /\ LET kept == plan.loss.own + SumFunction(plan.share) + plan.beyond + plan.loss.unserved
           IN IF plan.loss.own > plan.loss.available THEN kept = plan.loss.own + plan.loss.unserved
              ELSE /\ kept >= plan.loss.available
                   /\ 2 * (kept - plan.loss.available) < Len(Direct(d, p))
                   /\ plan.share # NoShares => kept = plan.loss.available

\* A headgate's losses with the own deliveries through it, and what is left of them to
\* divide.
LEMMA LossIsDivided ==
  ASSUME NEW d, IsDistrict(d), NEW p \in Point, Direct(d, p) # <<>>
  PROVE  LET loss == LossWithOwn(d, p)
             entry == MonthLosses(d, p)
             part == ToDivide(d, p, loss)
         IN /\ loss \in LossRow /\ loss.available \in Int /\ loss.diverted \in Nat
            /\ loss.own \in Nat /\ loss.own = OwnTotal(d, p)
            /\ loss.diverted = entry.diverted /\ loss.unserved = 0
            /\ loss.available = entry.available /\ loss.evaporation = entry.evaporation
            /\ loss.seepage = entry.seepage /\ loss.spill = entry.spill
            /\ ~(loss.own > loss.available) =>
                 /\ part \in Seq(Int) /\ Len(part) = Len(Direct(d, p)) /\ part # <<>>
                 /\ Total(part, 1 .. Len(part)) = loss.available - loss.own
                 /\ \A i \in 1 .. (Len(part) - 1) : part[i] >= 0
                 /\ -Len(part) < 2 * part[Len(part)]
<1> DEFINE s == Direct(d, p)
           entry == MonthLosses(d, p)
           loss == LossWithOwn(d, p)
           part == ToDivide(d, p, loss)
<1>1. /\ entry \in LossRow /\ entry.diverted = Recorded(d, p)
      /\ entry.diverted = entry.evaporation + entry.seepage + entry.spill + entry.available
      /\ entry.diverted = 0 => entry.available = 0
  BY LossesComeOff
<1>2. OwnTotal(d, p) \in Nat
  BY OwnTotalIs
<1>3. /\ loss \in LossRow /\ loss.own = OwnTotal(d, p) /\ loss.diverted = entry.diverted
      /\ loss.unserved = entry.unserved /\ loss.available = entry.available
      /\ loss.evaporation = entry.evaporation /\ loss.seepage = entry.seepage
      /\ loss.spill = entry.spill
  BY <1>1, <1>2 DEF LossRow, LossWithOwn
<1>4. entry.unserved = 0
  BY LossesComeOff
<1>5. loss.available \in Int /\ loss.diverted \in Nat /\ loss.own \in Nat
  BY <1>3 DEF LossRow
<1>6. s \in Seq(Diversion) /\ s # <<>>
  BY HeadgateIs, DirectIs
<1>7. Total([i \in 1 .. Len(s) |-> s[i].af], 1 .. Len(s)) = Recorded(d, p)
  BY HeadgateIs, RecordedIs DEF Brought
<1>8. part = RecordRemainders(s, loss, loss.own)
  BY DEF ToDivide
<1> HIDE DEF entry, loss, s, part
<1>9. ASSUME ~(loss.own > loss.available)
      PROVE  /\ part \in Seq(Int) /\ Len(part) = Len(s) /\ part # <<>>
             /\ Total(part, 1 .. Len(part)) = loss.available - loss.own
             /\ \A i \in 1 .. (Len(part) - 1) : part[i] >= 0
             /\ -Len(part) < 2 * part[Len(part)]
  <2>1. (loss.own = 0 /\ loss.available = loss.diverted) \/ loss.diverted # 0
    BY <1>1, <1>3, <1>5, <1>9
  <2>2. Total([i \in 1 .. Len(s) |-> s[i].af], 1 .. Len(s)) = loss.diverted
    BY <1>1, <1>3, <1>7
  <2>3. loss.own <= loss.available
    BY <1>5, <1>9
  <2>4. /\ part \in Seq(Int) /\ Len(part) = Len(s)
        /\ Total(part, 1 .. Len(s)) = loss.available - loss.own
        /\ \A i \in 1 .. (Len(s) - 1) : part[i] >= 0
        /\ -Len(s) < 2 * part[Len(s)]
    BY <1>5, <1>6, <1>8, <2>1, <2>2, <2>3, RemaindersAddUp
  <2>5. part # <<>>
    <3>1. Len(s) # 0 /\ Len(<<>>) = 0
      BY <1>6
    <3>2. QED
      BY <2>4, <3>1
  <2>6. QED
    BY <2>4, <2>5
<1>10. QED
  BY <1>3, <1>4, <1>5, <1>9 DEF loss, entry, part, s

\* However a headgate's month is divided, its water adds up.
LEMMA DivisionCloses ==
  ASSUME NEW d, IsDistrict(d), NEW p \in Point, NEW need \in [Field -> Int],
         ~DemandRefused(d, need, p)
  PROVE  PlanCloses(d, p, Division(d, need, p))
<1> DEFINE s == Direct(d, p)
           entry == MonthLosses(d, p)
           loss == LossWithOwn(d, p)
           part == ToDivide(d, p, loss)
           rows == AllocateMonth(d, need, p, loss)
           alone == [entry EXCEPT !.unserved = entry.available]
<1>1. Amounts(NoShares, Field, Int) /\ SumFunction(NoShares) = 0
  BY NoSharesAddUp
<1>2. /\ entry \in LossRow /\ entry.diverted = Recorded(d, p)
      /\ entry.diverted = entry.evaporation + entry.seepage + entry.spill + entry.available
      /\ entry.own = 0 /\ entry.unserved = 0 /\ (entry.diverted = 0 => entry.available = 0)
  BY LossesComeOff
<1>3. Division(d, need, p) = IF s = <<>> THEN NoRows(Nothing)
                             ELSE IF Served(d, p) = {} THEN NoRows(alone) ELSE rows
  BY DEF Division
<1>4. CASE s = <<>>
  BY <1>1, <1>3, <1>4 DEF PlanCloses, NoRows
<1>5. CASE s # <<>> /\ Served(d, p) = {}
  <2>1. /\ alone \in LossRow /\ alone.diverted = entry.diverted /\ alone.own = 0
        /\ alone.unserved = entry.available /\ alone.available = entry.available
        /\ alone.evaporation = entry.evaporation /\ alone.seepage = entry.seepage
        /\ alone.spill = entry.spill
    BY <1>2 DEF LossRow
  <2>2. entry.available \in Int
    BY <1>2 DEF LossRow
  <2>3. Division(d, need, p) = NoRows(alone)
    BY <1>3, <1>5
  <2>4. Len(Direct(d, p)) \in Nat \ {0}
    <3>1. s \in Seq(Diversion) /\ s # <<>>
      BY <1>5, HeadgateIs, DirectIs
    <3>2. QED
      BY <3>1
  <2> HIDE DEF entry, alone
  <2>5. /\ NoRows(alone).share = NoShares /\ NoRows(alone).beyond = 0 /\ NoRows(alone).loss = alone
    BY DEF NoRows
  <2>6. entry.available >= 0 \/ ~(entry.available >= 0)
    OBVIOUS
  <2>7. QED
    BY <1>1, <1>2, <2>1, <2>2, <2>3, <2>4, <2>5 DEF PlanCloses
<1>6. CASE s # <<>> /\ Served(d, p) # {}
  <2>1. /\ loss \in LossRow /\ loss.available \in Int /\ loss.own \in Nat
        /\ loss.diverted = entry.diverted /\ loss.unserved = 0 /\ loss.available = entry.available
        /\ loss.evaporation = entry.evaporation /\ loss.seepage = entry.seepage
        /\ loss.spill = entry.spill
    BY <1>6, LossIsDivided
  <2>2. ASSUME ~(loss.own > loss.available)
        PROVE  /\ part \in Seq(Int) /\ Len(part) = Len(s) /\ part # <<>>
               /\ Total(part, 1 .. Len(part)) = loss.available - loss.own
               /\ \A i \in 1 .. (Len(part) - 1) : part[i] >= 0
               /\ -Len(part) < 2 * part[Len(part)]
    BY <1>6, <2>2, LossIsDivided
  <2>3. Division(d, need, p) = rows
    BY <1>3, <1>6
  <2>4. ASSUME ~(loss.own > loss.available), NEW i \in 1 .. Len(part), part[i] # 0
        PROVE  NotRefused(d, need, p, part[i])
    <3>1. part[i] \in Range(part) \ {0}
      BY <2>2, <2>4 DEF Range
    <3>2. loss.own <= loss.available
      BY <2>1, <2>4
    <3>3. p \in d.byNeed => \A t \in Range(part) \ {0} : Divisible(t, [f \in Free(d, p) |-> need[f]])
      BY <1>6, <3>2 DEF DemandRefused
    <3>4. QED
      BY <3>1, <3>3 DEF NotRefused
  <2> HIDE DEF entry, loss, s
  <2>5. /\ rows \in MonthRows(loss)
        /\ loss.own > loss.available => Shared(rows) = 0
        /\ ~(loss.own > loss.available) =>
              /\ Free(d, p) = {} => rows.share = NoShares
              /\ Shared(rows) = loss.available - loss.own
                                 + GivenOut(d, p, part[Len(part)]) - part[Len(part)]
    <3>1. CASE loss.own > loss.available
      <4>1. rows = NoRows(loss)
        BY <3>1 DEF AllocateMonth
      <4>2. QED
        BY <3>1, <4>1, NoRowsAre
    <3>2. CASE ~(loss.own > loss.available)
      <4> HIDE DEF part, rows
      <4>1. /\ rows \in MonthRows(loss) /\ (Free(d, p) = {} => rows.share = NoShares)
            /\ Shared(rows) = Total(part, 1 .. Len(part)) + GivenOut(d, p, part[Len(part)]) - part[Len(part)]
        BY <2>2, <2>4, <3>2, MonthAddsUp DEF part, rows
      <4>2. QED
        BY <2>2, <3>2, <4>1
    <3>3. QED
      BY <3>1, <3>2
  <2> HIDE DEF rows, part
  <2>6. /\ Amounts(rows.share, Field, Int) /\ SumFunction(rows.share) \in Int /\ rows.beyond \in Int
        /\ rows.loss = loss
    BY <2>5, MonthRowsAre
  <2>7. Shared(rows) = SumFunction(rows.share) + rows.beyond
    BY DEF Shared
  <2> DEFINE last == part[Len(part)]
             kept == loss.own + SumFunction(rows.share) + rows.beyond + loss.unserved
  <2>8. IF loss.own > loss.available THEN kept = loss.own + loss.unserved
        ELSE /\ kept >= loss.available /\ 2 * (kept - loss.available) < Len(s)
             /\ rows.share # NoShares => kept = loss.available
    <3>1. loss.available \in Int /\ loss.own \in Nat /\ loss.unserved = 0
      BY <2>1
    <3>2. kept = loss.own + Shared(rows) /\ Shared(rows) \in Int
      BY <2>6, <2>7, <3>1
    <3>3. CASE loss.own > loss.available
      BY <2>5, <3>1, <3>2, <3>3
    <3>4. CASE ~(loss.own > loss.available)
      <4>1. last \in Int /\ Len(s) \in Nat \ {0} /\ -Len(s) < 2 * last
        <5>1. Len(part) \in Nat \ {0}
          BY <2>2, <3>4
        <5>2. Len(part) \in 1 .. Len(part)
          BY <5>1
        <5>3. part[Len(part)] \in Int
          BY <2>2, <3>4, <5>2, ElementOfSeq
        <5>4. QED
          BY <2>2, <3>4, <5>1, <5>3
      <4>2. Shared(rows) = loss.available - loss.own + GivenOut(d, p, last) - last
        BY <2>5, <3>4
      <4>3. GivenOut(d, p, last) = IF Free(d, p) = {} /\ last < 0 THEN 0 ELSE last
        BY <4>1 DEF GivenOut, Most
      <4>4. Free(d, p) = {} => rows.share = NoShares
        BY <2>5, <3>4
      <4> HIDE DEF last, kept
      <4>5. CASE Free(d, p) = {} /\ last < 0
        <5>1. Shared(rows) = loss.available - loss.own - last
          BY <3>1, <4>1, <4>2, <4>3, <4>5
        <5>2. kept = loss.available - last
          BY <3>1, <3>2, <4>1, <5>1
        <5>3. kept >= loss.available /\ 2 * (kept - loss.available) < Len(s)
          BY <3>1, <4>1, <4>5, <5>2
        <5>4. QED
          BY <3>4, <4>4, <4>5, <5>3
      <4>6. CASE ~(Free(d, p) = {} /\ last < 0)
        <5>1. Shared(rows) = loss.available - loss.own
          BY <3>1, <4>1, <4>2, <4>3, <4>6
        <5>2. kept = loss.available
          BY <3>1, <3>2, <5>1
        <5>3. QED
          BY <3>1, <3>4, <4>1, <5>2
      <4>7. QED
        BY <4>5, <4>6
    <3>5. QED
      BY <3>3, <3>4
  <2>9. /\ loss \in LossRow /\ loss.diverted = entry.diverted
        /\ loss.evaporation = entry.evaporation /\ loss.seepage = entry.seepage
        /\ loss.spill = entry.spill /\ loss.available = entry.available
    BY <2>1
  <2>10. QED
    BY <1>2, <2>3, <2>6, <2>8, <2>9 DEF PlanCloses, s
<1>7. QED
  BY <1>4, <1>5, <1>6

-----------------------------------------------------------------------------
(* The engine's figures *)

\* Half of a figure, rounded, is off by half at most.
LEMMA HalfIsNear ==
  ASSUME NEW x \in Int
  PROVE  /\ Quantize(x, Fine) \in Int
         /\ 2 * Quantize(x, Fine) - x <= 1 /\ -1 <= 2 * Quantize(x, Fine) - x
         /\ x >= 0 => Quantize(x, Fine) \in Nat
<1> DEFINE q == Quantize(x, Fine)
<1>1. /\ q \in Int /\ 2 * (q * Fine - x) <= Fine /\ -Fine <= 2 * (q * Fine - x)
      /\ x >= 0 => q \in Nat
  BY QuantizeIsNear DEF Fine
<1> HIDE DEF q
<1>2. 2 * q - x <= 1 /\ -1 <= 2 * q - x
  BY <1>1 DEF Fine
<1>3. QED
  BY <1>1, <1>2 DEF q

\* What a use area consumed of its canal water.
LEMMA ConsumedIs ==
  ASSUME NEW d, IsDistrict(d), NEW b, IsBooks(b), NEW f \in Field
  PROVE  Consumed(d, b, f) \in Nat
<1> DEFINE points == {p \in Point : f \in DOMAIN b.share[p]}
           part == [p \in points |-> b.share[p][f]]
           divided == SumFunctionOnSet(part, points)
           typed == IF f \in DOMAIN d.own THEN d.own[f] ELSE 0
           water == Abs(divided + typed)
<1>1. \A p \in points : part[p] \in Int
  BY DEF IsBooks, Amounts
<1>2. IsFiniteSet(points)
  BY KeysAssumption, FS_Subset
<1>3. divided \in Int
  <2>1. divided = Total(part, points)
    BY SumsAreTotals
  <2> HIDE DEF points, part, divided
  <2>2. Total(part, points) \in Int
    BY <1>1, <1>2, TotalIsInt
  <2>3. QED
    BY <2>1, <2>2
<1>4. typed \in Nat
  BY DEF IsDistrict, Amounts
<1> HIDE DEF divided, typed
<1>5. water \in Nat
  BY <1>3, <1>4 DEF Abs
<1> HIDE DEF water
<1>6. d.efficiency[f] \in Nat
  BY DEF IsDistrict
<1>7. water * d.efficiency[f] \in Int /\ water * d.efficiency[f] >= 0 /\ FullEfficiency \in Nat \ {0}
  BY <1>5, <1>6 DEF FullEfficiency
<1>8. Consumed(d, b, f) = Quantize(water * d.efficiency[f], FullEfficiency)
  BY DEF Consumed, divided, typed, water
<1>9. QED
  BY <1>7, <1>8, QuantizeIsNear

\* The run of a use area that is figured: a row the database would take, that holds
\* nothing of an old pool, and answers its canal water up to one ten-thousandth.
LEMMA RunIs ==
  ASSUME NEW d, IsDistrict(d), NEW b, IsBooks(b), NEW f \in Figured(d)
  PROVE  LET run == NewRun(d, b, f)
         IN /\ run \in RunRow /\ run.stamp = "none"
            /\ run.net >= 0 => Abs(run.net - Consumed(d, b, f) - run.final + run.over) <= 1
<1> DEFINE e == EtGross(d, f)
           r == EffectivePrecip(d, f)
           c == Consumed(d, b, f)
           running == Running(d, b, f)
           surplus == Most(0, -running)
           rain == Most(0, r - e)
           beyond == surplus - Least(surplus, rain)
           need == Most(0, running)
           net == NetUse(d, f)
           over == OverDelivery(d, b, f)
           final == FinalAf(d, b, f)
<1>1. f \in Field /\ d.et[f] \in Nat /\ d.rain[f] \in Nat
  BY DEF Figured, Current, IsDistrict, OrNothing
<1>2. e \in Nat
  BY <1>1 DEF EtGross
<1>3. r \in Nat
  BY <1>1 DEF EffectivePrecip, Least
<1>4. c \in Nat
  BY <1>1, ConsumedIs
<1>5. running = IF c > 0 /\ Abs(e - r - 2 * c) < 2 THEN 0 ELSE e - r - 2 * c
  BY DEF Running, Fine
<1>6. /\ net = Quantize(e, Fine) - Quantize(r, Fine) /\ over = Quantize(beyond, Fine)
      /\ final = Quantize(need, Fine)
  BY DEF NetUse, OverDelivery, FinalAf
<1>7. NewRun(d, b, f) = [net |-> net, over |-> over, final |-> final,
                         disposition |-> Disposition(d, f), stamp |-> "none", pooled |-> 0]
  BY DEF NewRun
<1> HIDE DEF e, r, c, running, net, over, final
<1>8. running \in Int
  BY <1>2, <1>3, <1>4, <1>5
<1>9. /\ beyond \in Int /\ beyond >= 0 /\ need \in Int /\ need >= 0
      /\ beyond = IF running >= 0 THEN 0
                  ELSE IF r <= e THEN -running
                  ELSE IF -running <= r - e THEN 0 ELSE -running - (r - e)
      /\ need = IF running > 0 THEN running ELSE 0
  BY <1>2, <1>3, <1>8 DEF Most, Least
<1> HIDE DEF beyond, need
<1>10. /\ over \in Nat /\ 2 * over - beyond <= 1 /\ -1 <= 2 * over - beyond
       /\ final \in Nat /\ 2 * final - need <= 1 /\ -1 <= 2 * final - need
  BY <1>6, <1>9, HalfIsNear
<1>11. net \in Int /\ 2 * net - (e - r) <= 2 /\ -2 <= 2 * net - (e - r)
  <2> DEFINE qe == Quantize(e, Fine)
             qr == Quantize(r, Fine)
  <2>1. /\ qe \in Int /\ 2 * qe - e <= 1 /\ -1 <= 2 * qe - e
        /\ qr \in Int /\ 2 * qr - r <= 1 /\ -1 <= 2 * qr - r
    BY <1>2, <1>3, HalfIsNear
  <2>2. net = qe - qr
    BY <1>6
  <2> HIDE DEF qe, qr
  <2>3. QED
    BY <1>2, <1>3, <2>1, <2>2
<1>12. ASSUME net >= 0 PROVE net - c - final + over <= 1 /\ -1 <= net - c - final + over
  <2>1. CASE running = 0
    <3>1. beyond = 0 /\ need = 0 /\ over = 0 /\ final = 0
      BY <1>9, <1>10, <2>1
    <3>2. -1 <= e - r - 2 * c /\ e - r - 2 * c <= 1
      BY <1>2, <1>3, <1>4, <1>5, <2>1 DEF Abs
    <3>3. QED
      BY <1>2, <1>3, <1>4, <1>11, <3>1, <3>2
  <2>2. CASE running > 0
    <3>1. beyond = 0 /\ over = 0 /\ need = running /\ running = e - r - 2 * c
      BY <1>5, <1>8, <1>9, <1>10, <2>2
    <3>2. QED
      BY <1>2, <1>3, <1>4, <1>10, <1>11, <3>1
  <2>3. CASE running < 0
    <3>1. need = 0 /\ final = 0 /\ running = e - r - 2 * c
      BY <1>5, <1>8, <1>9, <1>10, <2>3
    <3>2. CASE r <= e
      <4>1. beyond = -running
        BY <1>8, <1>9, <2>3, <3>2
      <4>2. QED
        BY <1>2, <1>3, <1>4, <1>10, <1>11, <3>1, <4>1
    <3>3. CASE r > e
      <4>1. beyond = 2 * c
        BY <1>2, <1>3, <1>4, <1>8, <1>9, <2>3, <3>1, <3>3
      <4>2. over = c
        BY <1>4, <1>10, <4>1
      <4>3. net <= 1
        BY <1>2, <1>3, <1>11, <3>3
      <4>4. QED
        BY <1>4, <1>11, <1>12, <3>1, <4>2, <4>3
    <3>4. QED
      BY <1>2, <1>3, <3>2, <3>3
  <2>4. QED
    BY <1>8, <2>1, <2>2, <2>3
<1>13. Disposition(d, f) \in {"metered", "groundwater", "unmet_demand"}
  BY DEF Disposition
<1>14. NewRun(d, b, f) \in RunRow
  BY <1>7, <1>10, <1>11, <1>13 DEF RunRow
<1>15. ASSUME net >= 0 PROVE Abs(net - c - final + over) <= 1
  <2>1. net - c - final + over \in Int
    BY <1>4, <1>10, <1>11
  <2>2. QED
    BY <1>12, <1>15, <2>1 DEF Abs
<1>16. QED
  BY <1>7, <1>14, <1>15 DEF c

\* The parts of what the wells pumped are integers, of use areas on record.
LEMMA WellSharesAre ==
  ASSUME NEW d, IsDistrict(d)
  PROVE  Amounts(WellMeterShares(d), Field, Int)
<1> DEFINE Of(f) == {w \in Divided(d) : f \in DOMAIN d.wells[w].share}
           G == {g \in Current(d) : Of(g) # {}}
<1>1. ASSUME NEW f \in G PROVE WellParts(d.wells[LastKey(Of(f))])[f] \in Int
  <2> DEFINE w == LastKey(Of(f))
             share == d.wells[w].share
             pumped == d.wells[w].pumped
             all == SumFunction(share)
             K == DOMAIN share
             part == [g \in K |-> Quantize(pumped * share[g], all)]
  <2>1. w \in Of(f)
    <3>1. Of(f) \subseteq Well /\ Of(f) # {}
      BY DEF Divided
    <3>2. IsFiniteSet(Of(f)) /\ Of(f) \subseteq Int
      BY <3>1, WellsAssumption, FS_Subset
    <3> HIDE DEF Of
    <3>3. QED
      BY <3>1, <3>2, GreatestAndLeast
  <2> HIDE DEF w
  <2>2. w \in Well /\ f \in K /\ pumped # Nothing /\ all > 0
    BY <2>1 DEF Divided
  <2>3. Amounts(share, Field, Nat) /\ pumped \in Nat
    BY <2>2 DEF IsDistrict, OrNothing
  <2> HIDE DEF share, pumped
  <2>4. K \subseteq Field /\ K \subseteq Int /\ IsFiniteSet(K) /\ K # {} /\ share \in [K -> Nat]
    <3>1. K \subseteq Field /\ share \in [K -> Nat]
      BY <2>3 DEF Amounts
    <3>2. QED
      BY <2>2, <3>1, KeysAssumption, FS_Subset
  <2>5. all \in Nat \ {0}
    <3>1. all = Total(share, K) /\ \A g \in K : share[g] \in Nat
      BY <2>4, SumsAreTotals
    <3>2. Total(share, K) \in Nat
      BY <2>4, <3>1, TotalIsNat
    <3> HIDE DEF all
    <3>3. QED
      BY <2>2, <3>1, <3>2
  <2> HIDE DEF all, K
  <2>6. part \in [K -> Int]
    <3>1. \A g \in K : pumped * share[g] \in Int
      BY <2>3, <2>4
    <3>2. QED
      BY <2>5, <3>1, QuantizeIsNear
  <2> HIDE DEF part
  <2>7. PlaceResidual(part, pumped) \in [K -> Int]
    <3>1. pumped \in Int
      BY <2>3
    <3>2. QED
      BY <2>4, <2>6, <3>1, PlacedAddsUp
  <2>8. WellParts(d.wells[w]) = PlaceResidual(part, pumped)
    BY DEF WellParts, part, pumped, share, all, K
  <2>9. QED
    BY <2>2, <2>7, <2>8 DEF w
<1>2. G \subseteq Field
  BY DEF Current
<1>3. WellMeterShares(d) = [f \in G |-> WellParts(d.wells[LastKey(Of(f))])[f]]
  BY DEF WellMeterShares
<1> HIDE DEF G, Of
<1>4. QED
  BY <1>1, <1>2, <1>3 DEF Amounts

-----------------------------------------------------------------------------
(* A pass of the engine, and a point's rows replaced *)

BookFields == {"share", "beyond", "loss", "credit", "run", "calculated", "wellShare",
               "credited", "pool", "basin"}

\* What the pass replaces, and what it leaves as it is.
Passed(d, b, n) ==
  /\ Has(n, BookFields)
  /\ n.share = b.share /\ n.beyond = b.beyond /\ n.loss = b.loss
  /\ n.credit = b.credit /\ n.pool = b.pool
  /\ n.run = [f \in Field |-> Cleared(d, f, IF f \in Figured(d) THEN NewRun(d, b, f)
                                            ELSE b.run[f])]
  /\ n.calculated = [f \in Field |-> Cleared(d, f, IF f \in Figured(d) THEN ResidualRow(d, b, f)
                                                   ELSE b.calculated[f])]
  /\ n.wellShare = [f \in Field |-> IF f \in DOMAIN WellMeterShares(d) THEN WellMeterShares(d)[f]
                                    ELSE Nothing]
  /\ n.credited = b.credited \ (Figured(d) \cup d.voided)
  /\ n.basin = AdjustBasinPool(d, b)

\* A pass is what its definition says of each field.
LEMMA PassFields ==
  ASSUME NEW d, NEW b, IsBooks(b)
  PROVE  Passed(d, b, EnginePass(d, b))
<1>1. b = [x \in BookFields |-> b[x]]
  BY DEF IsBooks, Has, BookFields
<1>2. QED
  BY <1>1 DEF EnginePass, Has, BookFields, Passed

\* An old deposit is not below nothing.
LEMMA DepositIs ==
  ASSUME NEW d, NEW run \in OrNothing(RunRow), NEW f
  PROVE  PriorPooled(d, run, f) \in Nat
BY DEF PriorPooled, OrNothing, RunRow

\* The old deposits of the use areas that a pass goes over, zone by zone.
Old(d, b) == [f \in Field |-> PriorPooled(d, b.run[f], f)]

OldOfZones(d, b, S) == [z \in Zone |-> SumFunctionOnSet(Old(d, b), {f \in S : d.zone[f] = z})]

\* The old deposits of some use areas of a zone have a sum.
LEMMA OldDepositsAre ==
  ASSUME NEW d, NEW b, IsBooks(b), NEW S \in SUBSET Field
  PROVE  /\ OldOfZones(d, b, S) \in [Zone -> Int]
         /\ \A z \in Zone : OldOfZones(d, b, S)[z] = Total(Old(d, b), {f \in S : d.zone[f] = z})
<1> DEFINE old == Old(d, b)
           Group(z) == {f \in S : d.zone[f] = z}
           part == OldOfZones(d, b, S)
<1>1. \A f \in Field : old[f] \in Int
  BY DepositIs DEF IsBooks, Old
<1>2. IsFiniteSet(S)
  BY KeysAssumption, FS_Subset
<1>3. part = [z \in Zone |-> Total(old, Group(z))]
  BY SumsAreTotals DEF OldOfZones
<1> HIDE DEF old
<1>4. \A z \in Zone : Total(old, Group(z)) \in Int
  <2> SUFFICES ASSUME NEW z \in Zone PROVE Total(old, Group(z)) \in Int
    OBVIOUS
  <2>1. IsFiniteSet(Group(z)) /\ \A f \in Group(z) : old[f] \in Int
    BY <1>1, <1>2, FS_Subset
  <2> HIDE DEF Group
  <2>2. QED
    BY <2>1, TotalIsInt
<1> HIDE DEF part, Group
<1>5. part \in [Zone -> Int] /\ \A z \in Zone : part[z] = Total(old, Group(z))
  BY <1>3, <1>4
<1>6. QED
  BY <1>5 DEF part, old, Group

\* A pass of the engine leaves books the database would take.
LEMMA PassIsBooks ==
  ASSUME NEW d, IsDistrict(d), NEW b, IsBooks(b)
  PROVE  IsBooks(EnginePass(d, b))
<1> DEFINE n == EnginePass(d, b)
           shares == WellMeterShares(d)
           F == Figured(d)
<1>0. Passed(d, b, n)
  BY PassFields
<1> HIDE DEF n
<1>1. /\ Has(n, BookFields)
      /\ n.share = b.share /\ n.beyond = b.beyond /\ n.loss = b.loss
      /\ n.credit = b.credit /\ n.pool = b.pool
  BY <1>0 DEF Passed
<1>2. n.run \in [Field -> OrNothing(RunRow)]
  <2>1. n.run = [f \in Field |-> Cleared(d, f, IF f \in F THEN NewRun(d, b, f) ELSE b.run[f])]
    BY <1>0 DEF Passed
  <2>2. \A f \in Field : Cleared(d, f, IF f \in F THEN NewRun(d, b, f) ELSE b.run[f]) \in OrNothing(RunRow)
    BY RunIs DEF Cleared, OrNothing, IsBooks
  <2>3. QED
    BY <2>1, <2>2
<1>3. n.calculated \in [Field -> OrNothing(Nat)]
  <2>1. n.calculated = [f \in Field |-> Cleared(d, f, IF f \in F THEN ResidualRow(d, b, f)
                                                      ELSE b.calculated[f])]
    BY <1>0 DEF Passed
  <2>2. ASSUME NEW f \in F PROVE ResidualRow(d, b, f) \in OrNothing(Nat)
    <3>1. NewRun(d, b, f) \in RunRow /\ NewRun(d, b, f).final = FinalAf(d, b, f)
      BY RunIs DEF NewRun
    <3>2. FinalAf(d, b, f) \in Nat
      BY <3>1 DEF RunRow
    <3>3. QED
      BY <3>2 DEF ResidualRow, OrNothing
  <2>3. \A f \in Field : b.calculated[f] \in OrNothing(Nat)
    BY DEF IsBooks
  <2>4. \A f \in Field :
          Cleared(d, f, IF f \in F THEN ResidualRow(d, b, f) ELSE b.calculated[f]) \in OrNothing(Nat)
    BY <2>2, <2>3 DEF Cleared, OrNothing
  <2>5. QED
    BY <2>1, <2>4
<1>4. n.wellShare \in [Field -> OrNothing(Int)]
  <2>1. n.wellShare = [f \in Field |-> IF f \in DOMAIN shares THEN shares[f] ELSE Nothing]
    BY <1>0 DEF Passed
  <2>2. \A f \in DOMAIN shares : shares[f] \in Int
    BY WellSharesAre DEF Amounts
  <2>3. QED
    BY <2>1, <2>2 DEF OrNothing
<1>5. n.credited \subseteq Field
  BY <1>0 DEF Passed, IsBooks
<1>6. n.basin \in [Zone -> Int]
  <2> DEFINE S == F \cup d.voided
             part == OldOfZones(d, b, S)
  <2>1. S \in SUBSET Field
    BY DEF Figured, Current, IsDistrict
  <2>2. part \in [Zone -> Int]
    BY <2>1, OldDepositsAre
  <2>3. n.basin = [z \in Zone |-> b.basin[z] - part[z]]
    BY <1>0 DEF Passed, AdjustBasinPool, OldOfZones, Old
  <2>4. b.basin \in [Zone -> Int]
    BY DEF IsBooks
  <2> HIDE DEF part
  <2>5. QED
    BY <2>2, <2>3, <2>4
<1>7. IsBooks(n)
  BY <1>1, <1>2, <1>3, <1>4, <1>5, <1>6 DEF IsBooks, BookFields
<1>8. QED
  BY <1>7 DEF n

\* And takes each old deposit of a zone out of its pool with the run it replaces.
LEMMA PassKeepsDeposits ==
  ASSUME NEW d, IsDistrict(d), NEW b, IsBooks(b), NEW z \in Zone, DepositsHeld(d, b, z)
  PROVE  DepositsHeld(d, EnginePass(d, b), z)
<1> DEFINE n == EnginePass(d, b)
           old == Old(d, b)
           new == Old(d, n)
           S == Figured(d) \cup d.voided
           In == {f \in Field : d.zone[f] = z}
           gone == {f \in S : d.zone[f] = z}
           part == OldOfZones(d, b, S)
<1>0. Passed(d, b, n)
  BY PassFields
<1> HIDE DEF n
<1>1. S \in SUBSET Field
  BY DEF Figured, Current, IsDistrict
<1>2. part \in [Zone -> Int] /\ part[z] = Total(old, gone)
  BY <1>1, OldDepositsAre
<1>3. n.basin = [y \in Zone |-> b.basin[y] - part[y]] /\ b.basin \in [Zone -> Int]
  BY <1>0 DEF Passed, AdjustBasinPool, IsBooks, OldOfZones, Old
<1>4. \A f \in Field : old[f] \in Nat
  BY DepositIs DEF IsBooks, Old
<1>5. ASSUME NEW f \in Field PROVE new[f] = IF f \in S THEN 0 ELSE old[f]
  <2>1. n.run[f] = Cleared(d, f, IF f \in Figured(d) THEN NewRun(d, b, f) ELSE b.run[f])
    BY <1>0 DEF Passed
  <2>2. f \in Figured(d) => NewRun(d, b, f).stamp = "none"
    BY DEF NewRun
  <2>3. CASE f \in d.voided
    BY <2>1, <2>3 DEF Cleared, PriorPooled, Old
  <2>4. CASE f \notin d.voided /\ f \in Figured(d)
    BY <2>1, <2>2, <2>4 DEF Cleared, PriorPooled, Old
  <2>5. CASE f \notin d.voided /\ f \notin Figured(d)
    BY <2>1, <2>5 DEF Cleared, Old
  <2>6. QED
    BY <2>3, <2>4, <2>5
<1>6. b.basin[z] = Total(old, In) /\ (DepositsHeld(d, n, z) <=> n.basin[z] = Total(new, In))
  BY SumsAreTotals DEF DepositsHeld, Old
<1>7. gone = In \cap S /\ gone \subseteq In /\ In \subseteq Field
  BY <1>1
<1> HIDE DEF old, new, S, part, In, gone
<1>8. n.basin[z] = b.basin[z] - Total(old, gone)
  BY <1>2, <1>3
<1>9. IsFiniteSet(In) /\ IsFiniteSet(gone) /\ IsFiniteSet(In \ gone)
  BY <1>7, KeysAssumption, FS_Subset
<1>10. \A f \in In : old[f] \in Int /\ new[f] \in Int
  BY <1>4, <1>5, <1>7
<1>11. /\ Total(old, In) = Total(old, gone) + Total(old, In \ gone)
       /\ Total(new, In) = Total(new, gone) + Total(new, In \ gone)
  BY <1>7, <1>9, <1>10, TotalInTwo
<1>12. Total(new, gone) = 0
  <2>1. \A f \in gone : new[f] = 0
    BY <1>5, <1>7
  <2>2. QED
    BY <1>9, <2>1, TotalOfZeros
<1>13. Total(new, In \ gone) = Total(old, In \ gone)
  <2>1. Alike(In \ gone, new, old)
    BY <1>5, <1>7 DEF Alike
  <2>2. QED
    BY <1>9, <2>1, TotalAlike
<1>14. Total(old, gone) \in Int /\ Total(old, In \ gone) \in Int
  <2>1. \A f \in gone : old[f] \in Int
    BY <1>7, <1>10
  <2>2. \A f \in In \ gone : old[f] \in Int
    BY <1>10
  <2>3. QED
    BY <1>9, <2>1, <2>2, TotalIsInt
<1>15. n.basin[z] = Total(new, In)
  <2> DEFINE x == Total(old, gone)
             y == Total(old, In \ gone)
  <2>1. n.basin[z] = x + y - x /\ Total(new, In) = 0 + y /\ x \in Int /\ y \in Int
    BY <1>6, <1>8, <1>11, <1>12, <1>13, <1>14
  <2> HIDE DEF x, y
  <2>2. QED
    BY <2>1
<1>16. QED
  BY <1>6, <1>15 DEF n

-----------------------------------------------------------------------------
(* A point's rows replaced *)

Replaced(d, b, p, plan, entry, n) ==
  /\ Has(n, BookFields)
  /\ n.share = [b.share EXCEPT ![p] = plan.share]
  /\ n.beyond = [b.beyond EXCEPT ![p] = plan.beyond]
  /\ n.loss = [b.loss EXCEPT ![p] = entry]
  /\ n.credit = [b.credit EXCEPT ![p] = SeepageCredits(d, p, entry)]
  /\ n.pool = SettleSeepage(b.pool, b.loss[p], entry)
  /\ n.run = b.run /\ n.calculated = b.calculated /\ n.wellShare = b.wellShare
  /\ n.credited = b.credited /\ n.basin = b.basin

\* Storing is what its definition says of each field.
LEMMA StoreFields ==
  ASSUME NEW d, NEW b, IsBooks(b), NEW p, NEW plan, NEW entry
  PROVE  Replaced(d, b, p, plan, entry, Store(d, b, p, plan, entry))
<1>1. b = [x \in BookFields |-> b[x]]
  BY DEF IsBooks, Has, BookFields
<1>2. QED
  BY <1>1 DEF Store, Has, BookFields, Replaced

\* The seepage of a row is not below nothing.
LEMMA SeepageInIs ==
  ASSUME NEW entry \in OrNothing(LossRow), NEW z PROVE SeepageIn(entry, z) \in Nat
BY DEF SeepageIn, OrNothing, LossRow

\* What is stored are rows the database would take.
LEMMA StoreIsBooks ==
  ASSUME NEW d, IsDistrict(d), NEW b, IsBooks(b), NEW p \in Point,
         NEW plan, Amounts(plan.share, Field, Int), plan.beyond \in Int,
         NEW entry \in OrNothing(LossRow), NEW n, Replaced(d, b, p, plan, entry, n)
  PROVE  IsBooks(n)
<1>1. Has(n, BookFields)
  BY DEF Replaced
<1>2. Has(n.share, Point) /\ \A q \in Point : Amounts(n.share[q], Field, Int)
  BY DEF Replaced, IsBooks, Has
<1>3. Has(n.credit, Point) /\ \A q \in Point : Amounts(n.credit[q], Account, Int)
  <2>1. Amounts(SeepageCredits(d, p, entry), Account, Int)
    BY SeepageCreditsAre
  <2>2. QED
    BY <2>1 DEF Replaced, IsBooks, Has
<1>4. n.beyond \in [Point -> Int] /\ n.loss \in [Point -> OrNothing(LossRow)]
  BY DEF Replaced, IsBooks
<1>5. n.pool \in [Zone -> Int]
  <2>1. b.loss[p] \in OrNothing(LossRow) /\ b.pool \in [Zone -> Int]
    BY DEF IsBooks
  <2>2. \A z \in Zone : SeepageIn(entry, z) \in Nat /\ SeepageIn(b.loss[p], z) \in Nat
    BY <2>1, SeepageInIs
  <2>3. n.pool = [z \in Zone |-> b.pool[z] + SeepageIn(entry, z) - SeepageIn(b.loss[p], z)]
    BY DEF Replaced, SettleSeepage
  <2>4. QED
    BY <2>1, <2>2, <2>3
<1>6. /\ n.run = b.run /\ n.calculated = b.calculated /\ n.wellShare = b.wellShare
      /\ n.credited = b.credited /\ n.basin = b.basin
  BY DEF Replaced
<1>7. /\ b.run \in [Field -> OrNothing(RunRow)] /\ b.calculated \in [Field -> OrNothing(Nat)]
      /\ b.wellShare \in [Field -> OrNothing(Int)] /\ b.credited \subseteq Field
      /\ b.basin \in [Zone -> Int]
  BY DEF IsBooks
<1>8. QED
  BY <1>1, <1>2, <1>3, <1>4, <1>5, <1>6, <1>7 DEF IsBooks, BookFields

\* The pools take the new row's seepage in and the old row's out.
LEMMA StoreKeepsPools ==
  ASSUME NEW d, NEW b, IsBooks(b), NEW p \in Point, NEW plan,
         NEW entry \in OrNothing(LossRow), NEW n, Replaced(d, b, p, plan, entry, n),
         NEW z \in Zone, SeepageHeld(b, z)
  PROVE  SeepageHeld(n, z)
<1> DEFINE old == [q \in Point |-> SeepageIn(b.loss[q], z)]
           new == [q \in Point |-> SeepageIn(n.loss[q], z)]
<1>1. b.loss \in [Point -> OrNothing(LossRow)] /\ n.loss = [b.loss EXCEPT ![p] = entry]
  BY DEF IsBooks, Replaced
<1>2. SameBut(Point, old, new, p)
  <2>1. \A q \in Point : n.loss[q] = IF q = p THEN entry ELSE b.loss[q]
    BY <1>1
  <2>2. \A q \in Point : old[q] \in Int /\ new[q] \in Int
    BY <1>1, <2>1, SeepageInIs
  <2>3. QED
    BY <2>1, <2>2 DEF SameBut
<1>3. old[p] = SeepageIn(b.loss[p], z) /\ new[p] = SeepageIn(entry, z) /\ old[p] \in Int /\ new[p] \in Int
  BY <1>1, SeepageInIs
<1>4. n.pool[z] = b.pool[z] + new[p] - old[p] /\ b.pool[z] \in Int
  BY <1>3 DEF Replaced, SettleSeepage, IsBooks
<1>5. b.pool[z] = SumFunction(old)
  BY DEF SeepageHeld
<1>6. SeepageHeld(n, z) <=> n.pool[z] = SumFunction(new)
  BY DEF SeepageHeld
<1>7. SumFunction(old) = Total(old, Point) /\ SumFunction(new) = Total(new, Point)
  BY SumsAreTotals
<1> HIDE DEF old, new
<1>8. /\ Total(old, Point) \in Int /\ Total(new, Point) \in Int
      /\ Total(new, Point) - Total(old, Point) = new[p] - old[p]
  BY <1>2, KeysAssumption, TotalChanged
<1>9. n.pool[z] = Total(new, Point)
  <2>1. Total(old, Point) = b.pool[z]
    BY <1>5, <1>7
  <2>2. \A s, t, u, v \in Int : t - s = u - v => s + u - v = t
    OBVIOUS
  <2>3. Total(old, Point) + new[p] - old[p] = Total(new, Point)
    BY <1>3, <1>8, <2>2
  <2>4. QED
    BY <1>4, <2>1, <2>3
<1>10. QED
  BY <1>6, <1>7, <1>9

\* What a use area needs is an integer.
LEMMA NeedsAre ==
  ASSUME NEW b, IsBooks(b) PROVE Needs(b) \in [Field -> Int]
BY DEF Needs, IsBooks, OrNothing, RunRow

\* The division that is stored closes the month of its headgate and touches no other.
LEMMA AllocationIsStored ==
  ASSUME NEW d, IsDistrict(d), NEW b, IsBooks(b), NEW p \in Point,
         ~DemandRefused(d, Needs(b), p)
  PROVE  \E plan, entry :
           /\ plan = Division(d, Needs(b), p) /\ PlanCloses(d, p, plan)
           /\ entry = LossIn(d, p, plan) /\ entry \in OrNothing(LossRow)
           /\ entry = Nothing <=> plan.loss = Nothing
           /\ entry # Nothing => \A x \in {"diverted", "evaporation", "seepage", "spill",
                                         "available", "own", "unserved"} : entry[x] = plan.loss[x]
           /\ Replaced(d, b, p, plan, entry, StoreAllocation(d, b, p))
<1> DEFINE plan == Division(d, Needs(b), p)
           entry == LossIn(d, p, plan)
<1>1. PlanCloses(d, p, plan)
  BY NeedsAre, DivisionCloses
<1>2. StoreAllocation(d, b, p) = Store(d, b, p, plan, entry)
  BY DEF StoreAllocation, StorePlan
<1> HIDE DEF plan
<1>3. Amounts(plan.share, Field, Int) /\ plan.loss \in OrNothing(LossRow)
  BY <1>1 DEF PlanCloses, OrNothing
<1>4. entry = IF plan.loss = Nothing THEN Nothing
            ELSE [plan.loss EXCEPT !.zone = SeepageZone(d, p, plan.share)]
  BY DEF LossIn
<1>5. SeepageZone(d, p, plan.share) \in OrNothing(Zone)
  BY <1>3, SeepageZoneIs
<1>6. Nothing \notin LossRow
  BY DistrictsAssumption
<1> HIDE DEF entry
<1>7. /\ entry \in OrNothing(LossRow) /\ (entry = Nothing <=> plan.loss = Nothing)
      /\ entry # Nothing => \A x \in {"diverted", "evaporation", "seepage", "spill",
                                    "available", "own", "unserved"} : entry[x] = plan.loss[x]
  <2>1. CASE plan.loss = Nothing
    BY <1>4, <2>1 DEF OrNothing
  <2>2. CASE plan.loss # Nothing
    <3>1. plan.loss \in LossRow
      BY <1>3, <2>2 DEF OrNothing
    <3>2. /\ entry \in LossRow
          /\ \A x \in {"diverted", "evaporation", "seepage", "spill", "available", "own", "unserved"} :
               entry[x] = plan.loss[x]
      BY <1>4, <1>5, <2>2, <3>1 DEF LossRow
    <3>3. QED
      BY <1>6, <2>2, <3>2 DEF OrNothing
  <2>3. QED
    BY <2>1, <2>2
<1>8. Replaced(d, b, p, plan, entry, StoreAllocation(d, b, p))
  BY <1>2, StoreFields
<1>9. QED
  BY <1>1, <1>7, <1>8 DEF plan, entry

\* What is stored of a headgate is of the water on record there.
StandsOnRecord(d, b, p) ==
  LET stored == b.loss[p]
  IN stored # Nothing =>
       /\ stored.diverted = Recorded(d, p)
       /\ stored.own <= stored.available =>
            2 * (Stored(b, p) - stored.available) < Len(Direct(d, p))

\* A division leaves books that close at its headgate, and at the others as before.
LEMMA AllocationCloses ==
  ASSUME NEW d, IsDistrict(d), NEW b, IsBooks(b), NEW p \in Point,
         ~DemandRefused(d, Needs(b), p)
  PROVE  LET n == StoreAllocation(d, b, p)
         IN /\ IsBooks(n) /\ Closes(n, p)
            /\ StandsOnRecord(d, n, p)
            /\ \A q \in Point \ {p} : /\ StandsOnRecord(d, b, q) => StandsOnRecord(d, n, q)
                                      /\ Closes(b, q) => Closes(n, q)
            /\ \A z \in Zone : SeepageHeld(b, z) => SeepageHeld(n, z)
            /\ n.run = b.run /\ n.basin = b.basin
<1> DEFINE n == StoreAllocation(d, b, p)
<1>1. PICK plan, entry :
        /\ plan = Division(d, Needs(b), p) /\ PlanCloses(d, p, plan)
        /\ entry = LossIn(d, p, plan) /\ entry \in OrNothing(LossRow)
        /\ entry = Nothing <=> plan.loss = Nothing
        /\ entry # Nothing => \A x \in {"diverted", "evaporation", "seepage", "spill",
                                      "available", "own", "unserved"} : entry[x] = plan.loss[x]
        /\ Replaced(d, b, p, plan, entry, n)
  BY AllocationIsStored
<1> HIDE DEF n
<1>2. Amounts(plan.share, Field, Int) /\ plan.beyond \in Int /\ Replaced(d, b, p, plan, entry, n)
  BY <1>1 DEF PlanCloses
<1>3. IsBooks(n)
  BY <1>1, <1>2, StoreIsBooks
<1>4. /\ n.share[p] = plan.share /\ n.beyond[p] = plan.beyond /\ n.loss[p] = entry
      /\ \A q \in Point \ {p} : n.share[q] = b.share[q] /\ n.beyond[q] = b.beyond[q] /\ n.loss[q] = b.loss[q]
  BY <1>2 DEF Replaced, IsBooks, Has
<1>5. Closes(n, p) /\ StandsOnRecord(d, n, p)
  <2>1. CASE entry = Nothing
    <3>1. plan.loss = Nothing /\ Nothing \notin LossRow
      BY <1>1, <2>1, DistrictsAssumption
    <3>2. plan.share = NoShares /\ plan.beyond = 0
      BY <1>1, <3>1 DEF PlanCloses
    <3>3. QED
      BY <1>4, <2>1, <3>2 DEF Closes, StandsOnRecord
  <2>2. CASE entry # Nothing
    <3>1. /\ entry.diverted = plan.loss.diverted /\ entry.evaporation = plan.loss.evaporation
          /\ entry.seepage = plan.loss.seepage /\ entry.spill = plan.loss.spill
          /\ entry.available = plan.loss.available /\ entry.own = plan.loss.own
          /\ entry.unserved = plan.loss.unserved
      BY <1>1, <2>2
    <3>2. plan.loss # Nothing
      BY <1>1, <2>2
    <3> DEFINE kept == plan.loss.own + SumFunction(plan.share) + plan.beyond + plan.loss.unserved
    <3>3. /\ plan.loss.diverted = Recorded(d, p) /\ plan.loss \in LossRow
          /\ plan.loss.diverted = plan.loss.evaporation + plan.loss.seepage + plan.loss.spill
                                    + plan.loss.available
          /\ IF plan.loss.own > plan.loss.available THEN kept = plan.loss.own + plan.loss.unserved
             ELSE /\ kept >= plan.loss.available
                  /\ 2 * (kept - plan.loss.available) < Len(Direct(d, p))
                  /\ plan.share # NoShares => kept = plan.loss.available
      BY <1>1, <3>2 DEF PlanCloses
    <3>4. Stored(n, p) = kept
      BY <1>4, <3>1 DEF Stored
    <3>5. ~(plan.loss.own > plan.loss.available) <=> plan.loss.own <= plan.loss.available
      BY <3>3 DEF LossRow
    <3> HIDE DEF kept
    <3>6. Closes(n, p)
      BY <1>4, <2>2, <3>1, <3>3, <3>4 DEF Closes
    <3>7. StandsOnRecord(d, n, p)
      BY <1>4, <2>2, <3>1, <3>3, <3>4, <3>5 DEF StandsOnRecord
    <3>8. QED
      BY <3>6, <3>7
  <2>3. QED
    BY <2>1, <2>2
<1>6. \A q \in Point \ {p} : /\ StandsOnRecord(d, b, q) => StandsOnRecord(d, n, q)
                             /\ Closes(b, q) => Closes(n, q)
  <2> TAKE q \in Point \ {p}
  <2>1. n.share[q] = b.share[q] /\ n.beyond[q] = b.beyond[q] /\ n.loss[q] = b.loss[q]
    BY <1>4
  <2>2. Stored(n, q) = Stored(b, q)
    BY <2>1 DEF Stored
  <2>3. QED
    BY <2>1, <2>2 DEF Closes, StandsOnRecord
<1>7. \A z \in Zone : SeepageHeld(b, z) => SeepageHeld(n, z)
  BY <1>1, <1>2, StoreKeepsPools
<1>8. n.run = b.run /\ n.basin = b.basin
  BY <1>2 DEF Replaced
<1>9. QED
  BY <1>3, <1>4, <1>5, <1>6, <1>7, <1>8 DEF n

-----------------------------------------------------------------------------
(* What the office types *)

DistrictFields ==
  {"records", "share", "byNeed", "active", "loss", "standsIn", "owner", "acres",
   "efficiency", "zone", "account", "own", "fallow", "voided", "credit",
   "leaveBehind", "et", "rain", "rainCapped", "wells", "typedMeter"}

\* A field of the district replaced by one of its kind.
LEMMA FieldTyped ==
  ASSUME NEW d, IsDistrict(d)
  PROVE  /\ \A v \in [Point -> Seq(Diversion)] : IsDistrict([d EXCEPT !.records = v])
         /\ \A v \in [Point -> Loss] : IsDistrict([d EXCEPT !.loss = v])
         /\ \A v \in SUBSET Point : IsDistrict([d EXCEPT !.byNeed = v])
         /\ \A v \in [Field -> OrNothing(Zone)] : IsDistrict([d EXCEPT !.zone = v])
         /\ \A v : Amounts(v, Field, Nat) => IsDistrict([d EXCEPT !.own = v])
         /\ \A v \in SUBSET Field : /\ IsDistrict([d EXCEPT !.fallow = v])
                                    /\ IsDistrict([d EXCEPT !.voided = v])
                                    /\ IsDistrict([d EXCEPT !.typedMeter = v])
<1>1. d = [x \in DistrictFields |-> d[x]]
  BY DEF IsDistrict, Has, DistrictFields
<1>2. ASSUME NEW v \in [Point -> Seq(Diversion)] PROVE IsDistrict([d EXCEPT !.records = v])
  <2> DEFINE n == [d EXCEPT !.records = v]
  <2>1. Has(n, DistrictFields) /\ n.records = v /\ \A y \in DistrictFields \ {"records"} : n[y] = d[y]
    BY <1>1 DEF Has, DistrictFields
  <2> HIDE DEF n
  <2>2. IsDistrict(n)
    BY <1>2, <2>1 DEF IsDistrict, DistrictFields
  <2>3. QED
    BY <2>2 DEF n
<1>3. ASSUME NEW v \in [Point -> Loss] PROVE IsDistrict([d EXCEPT !.loss = v])
  <2> DEFINE n == [d EXCEPT !.loss = v]
  <2>1. Has(n, DistrictFields) /\ n.loss = v /\ \A y \in DistrictFields \ {"loss"} : n[y] = d[y]
    BY <1>1 DEF Has, DistrictFields
  <2> HIDE DEF n
  <2>2. IsDistrict(n)
    BY <1>3, <2>1 DEF IsDistrict, DistrictFields
  <2>3. QED
    BY <2>2 DEF n
<1>4. ASSUME NEW v \in SUBSET Point PROVE IsDistrict([d EXCEPT !.byNeed = v])
  <2> DEFINE n == [d EXCEPT !.byNeed = v]
  <2>1. Has(n, DistrictFields) /\ n.byNeed = v /\ \A y \in DistrictFields \ {"byNeed"} : n[y] = d[y]
    BY <1>1 DEF Has, DistrictFields
  <2> HIDE DEF n
  <2>2. IsDistrict(n)
    BY <1>4, <2>1 DEF IsDistrict, DistrictFields
  <2>3. QED
    BY <2>2 DEF n
<1>5. ASSUME NEW v \in [Field -> OrNothing(Zone)] PROVE IsDistrict([d EXCEPT !.zone = v])
  <2> DEFINE n == [d EXCEPT !.zone = v]
  <2>1. Has(n, DistrictFields) /\ n.zone = v /\ \A y \in DistrictFields \ {"zone"} : n[y] = d[y]
    BY <1>1 DEF Has, DistrictFields
  <2> HIDE DEF n
  <2>2. IsDistrict(n)
    BY <1>5, <2>1 DEF IsDistrict, DistrictFields
  <2>3. QED
    BY <2>2 DEF n
<1>6. ASSUME NEW v, Amounts(v, Field, Nat) PROVE IsDistrict([d EXCEPT !.own = v])
  <2> DEFINE n == [d EXCEPT !.own = v]
  <2>1. Has(n, DistrictFields) /\ n.own = v /\ \A y \in DistrictFields \ {"own"} : n[y] = d[y]
    BY <1>1 DEF Has, DistrictFields
  <2> HIDE DEF n
  <2>2. IsDistrict(n)
    BY <1>6, <2>1 DEF IsDistrict, DistrictFields
  <2>3. QED
    BY <2>2 DEF n
<1>7. ASSUME NEW v \in SUBSET Field PROVE IsDistrict([d EXCEPT !.fallow = v])
  <2> DEFINE n == [d EXCEPT !.fallow = v]
  <2>1. Has(n, DistrictFields) /\ n.fallow = v /\ \A y \in DistrictFields \ {"fallow"} : n[y] = d[y]
    BY <1>1 DEF Has, DistrictFields
  <2> HIDE DEF n
  <2>2. IsDistrict(n)
    BY <1>7, <2>1 DEF IsDistrict, DistrictFields
  <2>3. QED
    BY <2>2 DEF n
<1>8. ASSUME NEW v \in SUBSET Field PROVE IsDistrict([d EXCEPT !.voided = v])
  <2> DEFINE n == [d EXCEPT !.voided = v]
  <2>1. Has(n, DistrictFields) /\ n.voided = v /\ \A y \in DistrictFields \ {"voided"} : n[y] = d[y]
    BY <1>1 DEF Has, DistrictFields
  <2> HIDE DEF n
  <2>2. IsDistrict(n)
    BY <1>8, <2>1 DEF IsDistrict, DistrictFields
  <2>3. QED
    BY <2>2 DEF n
<1>9. ASSUME NEW v \in SUBSET Field PROVE IsDistrict([d EXCEPT !.typedMeter = v])
  <2> DEFINE n == [d EXCEPT !.typedMeter = v]
  <2>1. Has(n, DistrictFields) /\ n.typedMeter = v /\ \A y \in DistrictFields \ {"typedMeter"} : n[y] = d[y]
    BY <1>1 DEF Has, DistrictFields
  <2> HIDE DEF n
  <2>2. IsDistrict(n)
    BY <1>9, <2>1 DEF IsDistrict, DistrictFields
  <2>3. QED
    BY <2>2 DEF n
<1>10. QED
  BY <1>2, <1>3, <1>4, <1>5, <1>6, <1>7, <1>8, <1>9

\* A record out of a list leaves a list of records.
LEMMA FirstRemoved ==
  ASSUME NEW S, NEW s \in Seq(S), NEW e
  PROVE  RemoveFirst(s, e) \in Seq(S)
<1> DEFINE I == {i \in 1 .. Len(s) : s[i] = e}
<1>1. CASE ~\E i \in 1 .. Len(s) : s[i] = e
  BY <1>1 DEF RemoveFirst
<1>2. CASE \E i \in 1 .. Len(s) : s[i] = e
  <2>1. Len(s) \in Nat /\ I \subseteq 1 .. Len(s) /\ I # {}
    BY <1>2
  <2>2. IsFiniteSet(I) /\ I \subseteq Int
    <3>1. IsFiniteSet(1 .. Len(s)) /\ 1 .. Len(s) \subseteq Int
      BY <2>1, FS_Interval
    <3> HIDE DEF I
    <3>2. QED
      BY <2>1, <3>1, FS_Subset
  <2>3. RemoveFirst(s, e) = RemoveAt(s, Min(I))
    BY <1>2 DEF RemoveFirst, SelectInSeq
  <2> HIDE DEF I
  <2>4. Min(I) \in 1 .. Len(s)
    BY <2>1, <2>2, MinIsIn
  <2>5. SubSeq(s, 1, Min(I) - 1) \in Seq(S) /\ SubSeq(s, Min(I) + 1, Len(s)) \in Seq(S)
    BY <2>1, <2>4
  <2>6. QED
    BY <2>3, <2>5 DEF RemoveAt
<1>3. QED
  BY <1>1, <1>2

\* A use area is in another zone, and where its deposit stood those zones are set aside.
ZoneMoved(f, z) ==
  /\ district'.zone = [district.zone EXCEPT ![f] = z]
  /\ strayed' = strayed \cup IF HoldsDeposit(f) THEN Zone \cap {z, district.zone[f]} ELSE {}

\* What typing leaves.
OfficeTyped ==
  /\ IsDistrict(district') /\ district'.et = district.et
  /\ \A w \in Well : district'.wells[w].share = district.wells[w].share
  /\ \/ district'.zone = district.zone /\ strayed' = strayed
     \/ \E f \in Field, z \in OrNothing(Zone) : ZoneMoved(f, z)
  /\ moved' = TRUE /\ upToDate' = FALSE /\ edits' \in 0 .. MaxEdits
  /\ UNCHANGED <<books, draft, stage, undivided, stopped>>

\* Whatever is typed leaves a district the program would keep, with the same wells
\* over the same use areas.
LEMMA OfficeTypes ==
  ASSUME IsDistrict(district), edits \in 0 .. MaxEdits, Office
  PROVE  OfficeTyped
<1> DEFINE d == district
           Fits(n) == /\ IsDistrict(n) /\ n.et = d.et /\ n.zone = d.zone
                      /\ \A w \in Well : n.wells[w].share = d.wells[w].share
<1>1. ASSUME NEW n, Fits(n), Type(n) PROVE OfficeTyped
  <2>1. /\ district' = n /\ edits' \in 0 .. MaxEdits /\ moved' = TRUE /\ upToDate' = FALSE
        /\ strayed' = strayed /\ UNCHANGED <<books, draft, stage, undivided, stopped>>
    BY <1>1, DistrictsAssumption DEF Type, Save
  <2>2. QED
    BY <1>1, <2>1 DEF OfficeTyped
<1>2. d = [x \in DistrictFields |-> d[x]]
  BY DEF IsDistrict, Has, DistrictFields
<1>3. /\ d.records \in [Point -> Seq(Diversion)] /\ d.loss \in [Point -> Loss]
      /\ d.byNeed \subseteq Point /\ d.zone \in [Field -> OrNothing(Zone)] /\ Amounts(d.own, Field, Nat)
      /\ d.fallow \subseteq Field /\ d.voided \subseteq Field /\ d.typedMeter \subseteq Field
  BY DEF IsDistrict
<1>4. Volumes \subseteq Nat /\ Losses \subseteq Loss
  BY DistrictsAssumption
<1>5. ASSUME NEW p \in Point, SaveDiversion(p) PROVE \E n : Fits(n) /\ Type(n)
  <2>1. PICK v \in Volumes : Type([d EXCEPT !.records[p] = Append(@, [af |-> v, estimated |-> FALSE])])
    BY <1>5 DEF SaveDiversion
  <2> DEFINE r == [d.records EXCEPT ![p] = Append(d.records[p], [af |-> v, estimated |-> FALSE])]
             n == [d EXCEPT !.records = r]
  <2>2. r \in [Point -> Seq(Diversion)]
    <3>1. [af |-> v, estimated |-> FALSE] \in Diversion
      BY <1>4 DEF Diversion
    <3>2. Append(d.records[p], [af |-> v, estimated |-> FALSE]) \in Seq(Diversion)
      BY <1>3, <3>1
    <3>3. QED
      BY <1>3, <3>2
  <2>3. n = [d EXCEPT !.records[p] = Append(@, [af |-> v, estimated |-> FALSE])]
    OBVIOUS
  <2> HIDE DEF r
  <2>4. IsDistrict(n) /\ n.wells = d.wells /\ n.et = d.et /\ n.zone = d.zone
    BY <1>2, <2>2, FieldTyped DEF DistrictFields
  <2>5. Type(n)
    BY <2>1, <2>3
  <2> HIDE DEF n, d
  <2>6. QED
    BY <2>4, <2>5
<1>6. ASSUME NEW p \in Point, VoidDiversion(p) PROVE \E n : Fits(n) /\ Type(n)
  <2> DEFINE e == Head(Direct(d, p))
             r == [d.records EXCEPT ![p] = RemoveFirst(d.records[p], e)]
             n == [d EXCEPT !.records = r]
  <2>1. Type(n)
    BY <1>6 DEF VoidDiversion
  <2> HIDE DEF e
  <2>2. r \in [Point -> Seq(Diversion)]
    <3>1. RemoveFirst(d.records[p], e) \in Seq(Diversion)
      BY <1>3, FirstRemoved
    <3>2. QED
      BY <1>3, <3>1
  <2> HIDE DEF r
  <2>3. IsDistrict(n) /\ n.wells = d.wells /\ n.et = d.et /\ n.zone = d.zone
    BY <1>2, <2>2, FieldTyped DEF DistrictFields
  <2> HIDE DEF n, d
  <2>4. QED
    BY <2>1, <2>3
<1>7. ASSUME NEW f \in Field, SaveDelivery(f) PROVE \E n : Fits(n) /\ Type(n)
  <2>1. PICK v \in Volumes : Type([d EXCEPT !.own = AddShares(@, [g \in {f} |-> v])])
    BY <1>7 DEF SaveDelivery
  <2> DEFINE r == AddShares(d.own, [g \in {f} |-> v])
             n == [d EXCEPT !.own = r]
  <2>2. Amounts(r, Field, Nat)
    <3>1. v \in Nat
      BY <1>4
    <3>2. QED
      BY <1>3, <3>1 DEF Amounts, AddShares
  <2>3. Type(n)
    BY <2>1
  <2> HIDE DEF r
  <2>4. IsDistrict(n) /\ n.wells = d.wells /\ n.et = d.et /\ n.zone = d.zone
    BY <1>2, <2>2, FieldTyped DEF DistrictFields
  <2> HIDE DEF n, d
  <2>5. QED
    BY <2>3, <2>4
<1>8. ASSUME NEW f \in Field, SaveMeterRow(f) PROVE \E n : Fits(n) /\ Type(n)
  <2> DEFINE n == [d EXCEPT !.typedMeter = d.typedMeter \cup {f}]
  <2>1. Type(n)
    BY <1>8 DEF SaveMeterRow
  <2>2. IsDistrict(n) /\ n.wells = d.wells /\ n.et = d.et /\ n.zone = d.zone
    <3>1. d.typedMeter \cup {f} \in SUBSET Field
      BY <1>3
    <3>2. QED
      BY <1>2, <3>1, FieldTyped DEF DistrictFields
  <2> HIDE DEF n, d
  <2>3. QED
    BY <2>1, <2>2
<1>9. ASSUME NEW w \in Well, ReadMeter(w) PROVE \E n : Fits(n) /\ Type(n)
  <2>1. PICK v \in Volumes : Type([d EXCEPT !.wells[w].pumped = v])
    BY <1>9 DEF ReadMeter
  <2> DEFINE r == [d.wells EXCEPT ![w] = [d.wells[w] EXCEPT !.pumped = v]]
             n == [d EXCEPT !.wells = r]
  <2>2. n = [d EXCEPT !.wells[w].pumped = v]
    OBVIOUS
  <2>3. v \in OrNothing(Nat)
    BY <1>4 DEF OrNothing
  <2>4. /\ Has(d.wells, Well)
        /\ \A u \in Well : /\ Has(d.wells[u], {"share", "pumped"})
                           /\ Amounts(d.wells[u].share, Field, Nat)
                           /\ d.wells[u].pumped \in OrNothing(Nat)
    BY DEF IsDistrict
  <2>5. /\ Has(r, Well)
        /\ \A u \in Well : /\ Has(r[u], {"share", "pumped"})
                           /\ Amounts(r[u].share, Field, Nat) /\ r[u].pumped \in OrNothing(Nat)
                           /\ r[u].share = d.wells[u].share
    BY <2>3, <2>4 DEF Has
  <2> HIDE DEF r
  <2>6. IsDistrict(n) /\ n.wells = r /\ n.et = d.et /\ n.zone = d.zone
    BY <1>2, <2>5 DEF IsDistrict, Has, DistrictFields
  <2>7. Type(n)
    BY <2>1, <2>2
  <2> HIDE DEF n, d
  <2>8. QED
    BY <2>5, <2>6, <2>7
<1>10. ASSUME NEW f \in Field, SaveFallow(f) PROVE \E n : Fits(n) /\ Type(n)
  <2> DEFINE n == [d EXCEPT !.fallow = Toggle(f, d.fallow)]
  <2>1. Type(n)
    BY <1>10 DEF SaveFallow
  <2>2. IsDistrict(n) /\ n.wells = d.wells /\ n.et = d.et /\ n.zone = d.zone
    <3>1. Toggle(f, d.fallow) \in SUBSET Field
      BY <1>3 DEF Toggle
    <3>2. QED
      BY <1>2, <3>1, FieldTyped DEF DistrictFields
  <2> HIDE DEF n, d
  <2>3. QED
    BY <2>1, <2>2
<1>11. ASSUME NEW f \in Field, VoidUseArea(f) PROVE \E n : Fits(n) /\ Type(n)
  <2> DEFINE n == [d EXCEPT !.voided = d.voided \cup {f}]
  <2>1. Type(n)
    BY <1>11 DEF VoidUseArea
  <2>2. IsDistrict(n) /\ n.wells = d.wells /\ n.et = d.et /\ n.zone = d.zone
    <3>1. d.voided \cup {f} \in SUBSET Field
      BY <1>3
    <3>2. QED
      BY <1>2, <3>1, FieldTyped DEF DistrictFields
  <2> HIDE DEF n, d
  <2>3. QED
    BY <2>1, <2>2
<1>12. ASSUME NEW p \in Point, EditPoint(p) PROVE \E n : Fits(n) /\ Type(n)
  <2>1. CASE \E l \in Losses : Type([d EXCEPT !.loss[p] = l])
    <3>1. PICK l \in Losses : Type([d EXCEPT !.loss[p] = l])
      BY <2>1
    <3> DEFINE r == [d.loss EXCEPT ![p] = l]
               n == [d EXCEPT !.loss = r]
    <3>2. Type(n) /\ r \in [Point -> Loss]
      BY <1>3, <1>4, <3>1
    <3> HIDE DEF r
    <3>3. IsDistrict(n) /\ n.wells = d.wells /\ n.et = d.et /\ n.zone = d.zone
      BY <1>2, <3>2, FieldTyped DEF DistrictFields
    <3> HIDE DEF n, d
    <3>4. QED
      BY <3>2, <3>3
  <2>2. CASE Type([d EXCEPT !.byNeed = Toggle(p, @)])
    <3> DEFINE n == [d EXCEPT !.byNeed = Toggle(p, d.byNeed)]
    <3>1. Type(n)
      BY <2>2
    <3>2. IsDistrict(n) /\ n.wells = d.wells /\ n.et = d.et /\ n.zone = d.zone
      <4>1. Toggle(p, d.byNeed) \in SUBSET Point
        BY <1>3 DEF Toggle
      <4>2. QED
        BY <1>2, <4>1, FieldTyped DEF DistrictFields
    <3> HIDE DEF n, d
    <3>3. QED
      BY <3>1, <3>2
  <2>3. QED
    BY <1>12, <2>1, <2>2 DEF EditPoint
<1>13. ASSUME NEW f \in Field, MoveUseArea(f) PROVE OfficeTyped
  <2>1. PICK z \in OrNothing(Zone) :
          Save([d EXCEPT !.zone[f] = z], IF HoldsDeposit(f) THEN Zone \cap {z, d.zone[f]} ELSE {})
    BY <1>13 DEF MoveUseArea
  <2> DEFINE r == [d.zone EXCEPT ![f] = z]
             n == [d EXCEPT !.zone = r]
  <2>2. r \in [Field -> OrNothing(Zone)]
    BY <1>3
  <2>3. /\ district' = n /\ edits' \in 0 .. MaxEdits /\ moved' = TRUE /\ upToDate' = FALSE
        /\ strayed' = strayed \cup IF HoldsDeposit(f) THEN Zone \cap {z, d.zone[f]} ELSE {}
        /\ UNCHANGED <<books, draft, stage, undivided, stopped>>
    BY <2>1, DistrictsAssumption DEF Save
  <2> HIDE DEF r
  <2>4. IsDistrict(n) /\ n.wells = d.wells /\ n.et = d.et /\ n.zone = r
    BY <1>2, <2>2, FieldTyped DEF DistrictFields
  <2> HIDE DEF n
  <2>5. ZoneMoved(f, z)
    BY <2>3, <2>4 DEF ZoneMoved, r
  <2>6. QED
    BY <2>3, <2>4, <2>5 DEF OfficeTyped
<1>14. (\E n : Fits(n) /\ Type(n)) \/ OfficeTyped
  BY <1>5, <1>6, <1>7, <1>8, <1>9, <1>10, <1>11, <1>12, <1>13 DEF Office
<1> HIDE DEF Fits
<1>15. QED
  BY <1>1, <1>14

-----------------------------------------------------------------------------
(* The invariant of the month *)

\* The losses rows of some headgates say what is recorded there.
OnRecord(d, b, S) == \A p \in S : StandsOnRecord(d, b, p)

ClosesInv == \A p \in Point : Closes(books, p) /\ Closes(draft, p)

PoolsInv == \A z \in Zone : SeepageHeld(books, z) /\ SeepageHeld(draft, z)

DepositsInv ==
  \A z \in Zone \ strayed : DepositsHeld(district, books, z) /\ DepositsHeld(district, draft, z)

RecordedInv ==
  /\ upToDate => OnRecord(district, books, Visited(district))
  /\ stage = "divide" /\ ~moved => OnRecord(district, draft, Visited(district) \ undivided)

BooksInv == ClosesInv /\ PoolsInv /\ DepositsInv /\ RecordedInv /\ RunAnswersShares

\* The retired estimates gone, the district is as it was.
Cleaned(d) == [d EXCEPT !.records = [p \in Point |-> Direct(d, p)]]

\* The retired estimates gone, the records that count are the same.
LEMMA CleanedIs ==
  ASSUME NEW d, IsDistrict(d)
  PROVE  /\ IsDistrict(Cleaned(d))
         /\ \A x \in DistrictFields \ {"records"} : Cleaned(d)[x] = d[x]
         /\ \A p \in Point : /\ Direct(Cleaned(d), p) = Direct(d, p)
                             /\ Recorded(Cleaned(d), p) = Recorded(d, p)
<1> DEFINE r == [p \in Point |-> Direct(d, p)]
           n == Cleaned(d)
<1>1. d = [x \in DistrictFields |-> d[x]]
  BY DEF IsDistrict, Has, DistrictFields
<1>2. \A p \in Point : /\ Direct(d, p) \in Seq(Diversion)
                       /\ \A i \in 1 .. Len(Direct(d, p)) : ~Direct(d, p)[i].estimated
  BY HeadgateIs, DirectIs
<1>3. r \in [Point -> Seq(Diversion)]
  BY <1>2
<1>4. n = [d EXCEPT !.records = r]
  BY DEF Cleaned
<1>5. \A p \in Point : r[p] = Direct(d, p)
  OBVIOUS
<1> HIDE DEF r, n
<1>6. IsDistrict(n)
  BY <1>3, <1>4, FieldTyped
<1>7. n.records = r /\ \A x \in DistrictFields \ {"records"} : n[x] = d[x]
  BY <1>1, <1>4 DEF DistrictFields
<1>8. ASSUME NEW p \in Point PROVE Direct(n, p) = Direct(d, p) /\ Recorded(n, p) = Recorded(d, p)
  <2>1. n.records[p] = Direct(d, p)
    BY <1>5, <1>7
  <2>2. Direct(n, p) = Direct(d, p)
    BY <1>2, <2>1, DirectIs
  <2>3. /\ Recorded(n, p) = Total(Brought(n, p), 1 .. Len(Direct(n, p)))
        /\ Recorded(d, p) = Total(Brought(d, p), 1 .. Len(Direct(d, p)))
    BY <1>2, <2>1, HeadgateIs, RecordedIs
  <2>4. Brought(n, p) = Brought(d, p)
    BY <2>2 DEF Brought
  <2>5. QED
    BY <2>2, <2>3, <2>4
<1>9. QED
  BY <1>6, <1>7, <1>8 DEF n

\* The fields of a cleaned district, by name.
LEMMA CleanedFields ==
  ASSUME NEW d, IsDistrict(d), NEW n, n = Cleaned(d)
  PROVE  /\ n.share = d.share /\ n.byNeed = d.byNeed /\ n.active = d.active /\ n.loss = d.loss
         /\ n.standsIn = d.standsIn /\ n.owner = d.owner /\ n.acres = d.acres
         /\ n.efficiency = d.efficiency /\ n.zone = d.zone /\ n.account = d.account
         /\ n.own = d.own /\ n.fallow = d.fallow /\ n.voided = d.voided /\ n.credit = d.credit
         /\ n.leaveBehind = d.leaveBehind /\ n.et = d.et /\ n.rain = d.rain
         /\ n.rainCapped = d.rainCapped /\ n.wells = d.wells /\ n.typedMeter = d.typedMeter
BY CleanedIs DEF DistrictFields

\* The same headgates are visited.
LEMMA CleanedIsVisited ==
  ASSUME NEW d, IsDistrict(d) PROVE Visited(Cleaned(d)) = Visited(d)
<1> DEFINE n == Cleaned(d)
<1>1. n.active = d.active /\ n.share = d.share
  BY CleanedFields
<1>2. \A p \in Point : Direct(n, p) = Direct(d, p)
  BY CleanedIs
<1>3. d.active \subseteq Point
  BY DEF IsDistrict
<1> HIDE DEF n
<1>4. Visited(n) = Visited(d)
  BY <1>1, <1>2, <1>3 DEF Visited, Served
<1>5. QED
  BY <1>4 DEF n

\* A pass of the engine moves no canal water.
LEMMA PassKeepsCanals ==
  ASSUME NEW d, NEW b, IsBooks(b), NEW n, n = EnginePass(d, b)
  PROVE  /\ \A p \in Point : Closes(b, p) => Closes(n, p)
         /\ \A z \in Zone : SeepageHeld(b, z) => SeepageHeld(n, z)
         /\ n.loss = b.loss /\ n.share = b.share /\ n.beyond = b.beyond
<1>1. Passed(d, b, n)
  BY PassFields
<1>2. n.loss = b.loss /\ n.share = b.share /\ n.beyond = b.beyond /\ n.pool = b.pool
  BY <1>1 DEF Passed
<1>3. \A p \in Point : Closes(b, p) => Closes(n, p)
  BY <1>2 DEF Closes, Stored
<1>4. \A z \in Zone : SeepageHeld(b, z) => SeepageHeld(n, z)
  BY <1>2 DEF SeepageHeld
<1>5. QED
  BY <1>2, <1>3, <1>4

\* The first books of the month hold.
LEMMA MonthBegins ==
  ASSUME MonthInit PROVE MonthTypeOK /\ BooksInv
<1>1. PICK start \in Districts : district = start.district /\ books = start.books
  BY DEF MonthInit
<1>2. /\ IsDistrict(district) /\ IsBooks(books)
      /\ \A p \in Point : Closes(books, p)
      /\ \A z \in Zone : SeepageHeld(books, z)
      /\ \A z \in Zone : DepositsHeld(district, books, z)
      /\ MaxEdits \in Nat
  BY <1>1, DistrictsAssumption
<1>3. MonthTypeOK
  <2>1. /\ draft = books /\ stage = "idle" /\ undivided = {} /\ moved = FALSE /\ upToDate = FALSE
        /\ stopped = "" /\ strayed = {} /\ edits = 0
    BY DEF MonthInit
  <2>2. 0 \in 0 .. MaxEdits
    BY <1>2
  <2>3. QED
    BY <1>2, <2>1, <2>2 DEF MonthTypeOK
<1>4. ~upToDate /\ stage = "idle" /\ draft = books
  BY DEF MonthInit
<1>5. ClosesInv /\ PoolsInv /\ DepositsInv
  BY <1>2, <1>4 DEF ClosesInv, PoolsInv, DepositsInv
<1>6. RecordedInv /\ RunAnswersShares
  BY <1>4 DEF RecordedInv, RunAnswersShares
<1>7. QED
  BY <1>3, <1>5, <1>6 DEF BooksInv

\* The engine's first pass.
LEMMA BeginKeeps ==
  ASSUME MonthTypeOK, BooksInv, Begin PROVE MonthTypeOK' /\ BooksInv'
<1>1. IsDistrict(district) /\ IsBooks(books)
  BY DEF MonthTypeOK
<1>2. /\ draft' = EnginePass(district, books) /\ undivided' = Visited(district) /\ stage' = "divide"
      /\ moved' = FALSE /\ stopped' = ""
      /\ district' = district /\ books' = books /\ upToDate' = upToDate
      /\ strayed' = strayed /\ edits' = edits
  BY DEF Begin
<1>3. Visited(district) \subseteq Point
  BY <1>1 DEF Visited, IsDistrict
<1>4. MonthTypeOK'
  <2>1. IsBooks(draft')
    BY <1>1, <1>2, PassIsBooks
  <2>2. QED
    BY <1>2, <1>3, <2>1 DEF MonthTypeOK
<1>5. ClosesInv' /\ PoolsInv'
  BY <1>1, <1>2, PassKeepsCanals DEF BooksInv, ClosesInv, PoolsInv
<1>6. DepositsInv'
  BY <1>1, <1>2, PassKeepsDeposits DEF BooksInv, DepositsInv
<1>7. RecordedInv'
  BY <1>2 DEF BooksInv, RecordedInv, OnRecord
<1>8. RunAnswersShares'
  BY <1>2 DEF BooksInv, RunAnswersShares
<1>9. QED
  BY <1>4, <1>5, <1>6, <1>7, <1>8 DEF BooksInv

\* One headgate divided, or the month stopped there.
LEMMA DivideKeeps ==
  ASSUME MonthTypeOK, BooksInv, DivideNext PROVE MonthTypeOK' /\ BooksInv'
<1>1. IsDistrict(district) /\ IsBooks(books) /\ IsBooks(draft) /\ undivided \subseteq Point /\ stage = "divide"
  BY DEF MonthTypeOK, DivideNext
<1>2. Min(undivided) \in undivided /\ Min(undivided) \in Point
  <2>1. undivided # {} /\ IsFiniteSet(undivided) /\ undivided \subseteq Int
    BY <1>1, KeysAssumption, FS_Subset DEF DivideNext
  <2>2. QED
    BY <1>1, <2>1, MinIsIn
<1>3. CASE StopMonth("losses") \/ StopMonth("demand")
  <2>1. /\ draft' = books /\ stage' = "idle" /\ undivided' = {} /\ stopped' \in {"losses", "demand"}
        /\ district' = district /\ books' = books /\ moved' = moved /\ upToDate' = upToDate
        /\ strayed' = strayed /\ edits' = edits
    BY <1>3 DEF StopMonth
  <2>2. MonthTypeOK'
    BY <2>1 DEF MonthTypeOK
  <2>3. ClosesInv' /\ PoolsInv' /\ DepositsInv'
    BY <2>1 DEF BooksInv, ClosesInv, PoolsInv, DepositsInv
  <2>4. RecordedInv' /\ RunAnswersShares'
    BY <2>1 DEF BooksInv, RecordedInv, RunAnswersShares
  <2>5. QED
    BY <2>2, <2>3, <2>4 DEF BooksInv
<1>4. CASE /\ ~DemandRefused(district, Needs(draft), Min(undivided))
           /\ draft' = StoreAllocation(district, draft, Min(undivided)) /\ undivided' = undivided \ {Min(undivided)}
           /\ UNCHANGED <<district, books, stage, moved, upToDate, stopped, strayed, edits>>
  <2> DEFINE p == Min(undivided)
  <2>1. /\ district' = district /\ books' = books /\ stage' = stage /\ moved' = moved /\ upToDate' = upToDate
        /\ stopped' = stopped /\ strayed' = strayed /\ edits' = edits
    BY <1>4
  <2>2. /\ IsBooks(draft') /\ Closes(draft', p)
        /\ StandsOnRecord(district, draft', p)
        /\ \A q \in Point \ {p} : /\ StandsOnRecord(district, draft, q) => StandsOnRecord(district, draft', q)
                                  /\ Closes(draft, q) => Closes(draft', q)
        /\ \A z \in Zone : SeepageHeld(draft, z) => SeepageHeld(draft', z)
        /\ draft'.run = draft.run /\ draft'.basin = draft.basin
    BY <1>1, <1>2, <1>4, AllocationCloses
  <2>3. p \in Point /\ undivided' = undivided \ {p}
    BY <1>2, <1>4
  <2> HIDE DEF p
  <2>4. MonthTypeOK'
    BY <1>1, <2>1, <2>2, <2>3 DEF MonthTypeOK
  <2>5. ClosesInv' /\ PoolsInv'
    BY <2>1, <2>2, <2>3 DEF BooksInv, ClosesInv, PoolsInv
  <2>6. DepositsInv'
    BY <2>1, <2>2 DEF BooksInv, DepositsInv, DepositsHeld
  <2>7. RecordedInv'
    <3>1. (upToDate => OnRecord(district, books, Visited(district)))'
      BY <2>1 DEF BooksInv, RecordedInv
    <3>2. ASSUME ~moved PROVE OnRecord(district, draft', Visited(district) \ undivided')
      <4>1. OnRecord(district, draft, Visited(district) \ undivided)
        BY <1>1, <3>2 DEF BooksInv, RecordedInv
      <4>2. Visited(district) \subseteq Point
        BY <1>1 DEF Visited, IsDistrict
      <4>3. QED
        BY <2>2, <2>3, <4>1, <4>2 DEF OnRecord
    <3>3. QED
      BY <2>1, <3>1, <3>2 DEF RecordedInv
  <2>8. RunAnswersShares'
    BY <2>1 DEF BooksInv, RunAnswersShares
  <2>9. QED
    BY <2>4, <2>5, <2>6, <2>7, <2>8 DEF BooksInv
<1>5. QED
  BY <1>3, <1>4 DEF DivideNext

\* The engine's second pass, and the month is committed.
LEMMA FinishMonthKeeps ==
  ASSUME MonthTypeOK, BooksInv, FinishMonth PROVE MonthTypeOK' /\ BooksInv'
<1> DEFINE d == district
           n == Cleaned(d)
           b == EnginePass(d, draft)
<1>1. IsDistrict(d) /\ IsBooks(draft) /\ stage = "divide" /\ undivided = {} /\ moved \in BOOLEAN
  BY DEF MonthTypeOK, FinishMonth
<1>2. /\ books' = b /\ draft' = b /\ district' = n /\ stage' = "idle" /\ upToDate' = ~moved
      /\ undivided' = undivided /\ moved' = moved /\ stopped' = stopped
      /\ strayed' = strayed /\ edits' = edits
  BY DEF FinishMonth, Cleaned
<1>3. IsDistrict(n) /\ IsBooks(b)
  BY <1>1, CleanedIs, PassIsBooks
<1>4. Passed(d, draft, b)
  BY <1>1, PassFields
<1>5. /\ \A p \in Point : Closes(draft, p) => Closes(b, p)
      /\ \A z \in Zone : SeepageHeld(draft, z) => SeepageHeld(b, z)
      /\ b.loss = draft.loss /\ b.share = draft.share /\ b.beyond = draft.beyond
  BY <1>1, PassKeepsCanals
<1>6. \A z \in Zone \ strayed : DepositsHeld(d, b, z)
  BY <1>1, PassKeepsDeposits DEF BooksInv, DepositsInv
<1>7. Visited(n) = Visited(d) /\ Visited(d) \subseteq Point
  BY <1>1, CleanedIsVisited DEF Visited, IsDistrict
<1>8. /\ n.own = d.own /\ n.voided = d.voided /\ n.et = d.et /\ n.wells = d.wells
      /\ n.efficiency = d.efficiency /\ n.zone = d.zone
  BY <1>1, CleanedFields
<1>9. \A p \in Point : Recorded(n, p) = Recorded(d, p) /\ Direct(n, p) = Direct(d, p)
  BY <1>1, CleanedIs
<1> HIDE DEF n, b
<1>10. MonthTypeOK'
  BY <1>1, <1>2, <1>3 DEF MonthTypeOK
<1>11. ClosesInv' /\ PoolsInv'
  BY <1>2, <1>5 DEF BooksInv, ClosesInv, PoolsInv
<1>12. DepositsInv'
  <2>1. \A f \in Field : PriorPooled(n, b.run[f], f) = PriorPooled(d, b.run[f], f)
    BY <1>8 DEF PriorPooled, HasWell
  <2>2. ASSUME NEW z \in Zone \ strayed PROVE DepositsHeld(n, b, z)
    <3>1. b.basin[z] = SumFunctionOnSet([f \in Field |-> PriorPooled(d, b.run[f], f)], {f \in Field : d.zone[f] = z})
      BY <1>6 DEF DepositsHeld
    <3>2. [f \in Field |-> PriorPooled(d, b.run[f], f)] = [f \in Field |-> PriorPooled(n, b.run[f], f)]
      BY <2>1
    <3>3. QED
      BY <1>8, <3>1, <3>2 DEF DepositsHeld
  <2>3. QED
    BY <1>2, <2>2 DEF DepositsInv
<1>13. RecordedInv'
  <2>1. ASSUME ~moved PROVE OnRecord(n, b, Visited(n))
    <3>1. OnRecord(d, draft, Visited(d) \ undivided)
      BY <1>1, <2>1 DEF BooksInv, RecordedInv
    <3>2. OnRecord(d, b, Visited(d))
      BY <1>1, <1>5, <3>1 DEF OnRecord, StandsOnRecord, Stored
    <3>3. QED
      BY <1>7, <1>9, <3>2 DEF OnRecord, StandsOnRecord
  <2>2. QED
    BY <1>2, <2>1 DEF RecordedInv
<1>14. RunAnswersShares'
  <2>1. ASSUME NEW f \in Figured(n), b.run[f].net >= 0
        PROVE  Abs(b.run[f].net - Consumed(n, b, f) - b.run[f].final + b.run[f].over) <= 1
    <3>1. f \in Figured(d) /\ f \in Field /\ f \notin d.voided
      BY <1>8, <2>1 DEF Figured, Current
    <3>2. b.run[f] = NewRun(d, draft, f)
      BY <1>4, <3>1 DEF Passed, Cleared
    <3>3. Consumed(n, b, f) = Consumed(d, draft, f)
      BY <1>5, <1>8 DEF Consumed
    <3>4. NewRun(d, draft, f).net >= 0 =>
            Abs(NewRun(d, draft, f).net - Consumed(d, draft, f) - NewRun(d, draft, f).final
                  + NewRun(d, draft, f).over) <= 1
      BY <1>1, <3>1, RunIs
    <3>5. QED
      BY <2>1, <3>2, <3>3, <3>4
  <2>2. QED
    BY <1>2, <2>1 DEF RunAnswersShares
<1>15. QED
  BY <1>10, <1>11, <1>12, <1>13, <1>14 DEF BooksInv

\* A member that brings nothing may be left out.
LEMMA TotalWithoutNothing ==
  ASSUME NEW A, IsFiniteSet(A), NEW f, \A x \in A : f[x] \in Int, NEW x, f[x] = 0
  PROVE  Total(f, A) = Total(f, A \ {x})
<1>1. CASE x \in A
  <2>1. Total(f, A) = f[x] + Total(f, A \ {x})
    BY <1>1, TotalWithout
  <2>2. Total(f, A \ {x}) \in Int
    <3>1. IsFiniteSet(A \ {x}) /\ \A y \in A \ {x} : f[y] \in Int
      BY FS_Subset
    <3>2. QED
      BY <3>1, TotalIsInt
  <2>3. QED
    BY <2>1, <2>2
<1>2. CASE x \notin A
  <2>1. A \ {x} = A
    BY <1>2
  <2>2. QED
    BY <2>1
<1>3. QED
  BY <1>1, <1>2

\* A zone that is not set aside holds the same deposits, whatever the office types.
LEMMA OfficeKeepsDeposits ==
  ASSUME IsDistrict(district), OfficeTyped, NEW b \in {books, draft}, IsBooks(b),
         NEW z \in Zone \ strayed', DepositsHeld(district, b, z)
  PROVE  DepositsHeld(district', b, z)
<1> DEFINE old == Old(district, b)
           In == {f \in Field : district.zone[f] = z}
           after == {f \in Field : district'.zone[f] = z}
<1>1. Old(district', b) = old
  <2>1. \A f : HasWell(district', f) <=> HasWell(district, f)
    BY DEF OfficeTyped, HasWell
  <2>2. QED
    BY <2>1 DEF Old, PriorPooled
<1>2. \A f \in Field : old[f] \in Int /\ old[f] = PriorPooled(district, b.run[f], f)
  BY DepositIs DEF IsBooks, Old
<1>3. /\ b.basin[z] = Total(old, In)
      /\ DepositsHeld(district', b, z) <=> b.basin[z] = Total(old, after)
  BY <1>1, SumsAreTotals DEF DepositsHeld, Old
<1>4. IsFiniteSet(In) /\ IsFiniteSet(after) /\ In \subseteq Field /\ after \subseteq Field
  BY KeysAssumption, FS_Subset
<1>5. CASE district'.zone = district.zone
  BY <1>3, <1>5
<1>6. ASSUME NEW f \in Field, NEW y \in OrNothing(Zone), ZoneMoved(f, y)
      PROVE  Total(old, after) = Total(old, In)
  <2>1. \A g \in Field : district'.zone[g] = IF g = f THEN y ELSE district.zone[g]
    BY <1>6 DEF ZoneMoved, IsDistrict
  <2>2. CASE HoldsDeposit(f)
    <3>1. y # z /\ district.zone[f] # z
      BY <1>6, <2>2 DEF ZoneMoved
    <3>2. after = In
      BY <2>1, <3>1
    <3>3. QED
      BY <3>2
  <2>3. CASE ~HoldsDeposit(f)
    <3>1. old[f] = 0
      BY <1>2, <2>3 DEF HoldsDeposit
    <3>2. after \ {f} = In \ {f}
      BY <2>1
    <3> HIDE DEF old, In, after
    <3>3. \A g \in In : old[g] \in Int
      BY <1>2, <1>4
    <3>4. \A g \in after : old[g] \in Int
      BY <1>2, <1>4
    <3>5. Total(old, In) = Total(old, In \ {f}) /\ Total(old, after) = Total(old, after \ {f})
      BY <1>4, <3>1, <3>3, <3>4, TotalWithoutNothing
    <3>6. QED
      BY <3>2, <3>5
  <2>4. QED
    BY <2>2, <2>3
<1> HIDE DEF old, In, after
<1>7. QED
  BY <1>3, <1>5, <1>6 DEF OfficeTyped

\* Whatever the office types.
LEMMA OfficeKeeps ==
  ASSUME MonthTypeOK, BooksInv, Office PROVE MonthTypeOK' /\ BooksInv'
<1>1. IsDistrict(district) /\ edits \in 0 .. MaxEdits /\ IsBooks(books) /\ IsBooks(draft) /\ strayed \subseteq Zone
  BY DEF MonthTypeOK
<1>2. OfficeTyped
  BY <1>1, OfficeTypes
<1>3. /\ IsDistrict(district') /\ moved' = TRUE /\ upToDate' = FALSE /\ edits' \in 0 .. MaxEdits
      /\ books' = books /\ draft' = draft /\ stage' = stage /\ undivided' = undivided /\ stopped' = stopped
  BY <1>2 DEF OfficeTyped
<1>4. strayed \subseteq strayed' /\ strayed' \subseteq Zone
  BY <1>1, <1>2 DEF OfficeTyped, ZoneMoved
<1>5. MonthTypeOK'
  BY <1>3, <1>4 DEF MonthTypeOK
<1>6. ClosesInv' /\ PoolsInv'
  BY <1>3 DEF BooksInv, ClosesInv, PoolsInv
<1>7. DepositsInv'
  <2>1. ASSUME NEW z \in Zone \ strayed'
        PROVE  DepositsHeld(district', books, z) /\ DepositsHeld(district', draft, z)
    <3>1. DepositsHeld(district, books, z) /\ DepositsHeld(district, draft, z)
      BY <1>4 DEF BooksInv, DepositsInv
    <3>2. QED
      BY <1>1, <1>2, <3>1, OfficeKeepsDeposits
  <2>2. QED
    BY <1>3, <2>1 DEF DepositsInv
<1>8. RecordedInv' /\ RunAnswersShares'
  BY <1>3 DEF RecordedInv, RunAnswersShares
<1>9. QED
  BY <1>5, <1>6, <1>7, <1>8 DEF BooksInv

\* The invariant of the month, at every moment.
LEMMA MonthAlways == MonthSpec => [](MonthTypeOK /\ BooksInv)
<1>1. MonthInit => MonthTypeOK /\ BooksInv
  BY MonthBegins
<1>2. MonthTypeOK /\ BooksInv /\ [MonthNext]_monthVars => (MonthTypeOK /\ BooksInv)'
  <2> SUFFICES ASSUME MonthTypeOK, BooksInv, [MonthNext]_monthVars PROVE MonthTypeOK' /\ BooksInv'
    OBVIOUS
  <2>1. CASE UNCHANGED monthVars
    BY <2>1 DEF monthVars, MonthTypeOK, BooksInv, ClosesInv, PoolsInv, DepositsInv, RecordedInv,
                RunAnswersShares
  <2>2. CASE Calculate
    BY <2>2, BeginKeeps, DivideKeeps, FinishMonthKeeps DEF Calculate
  <2>3. CASE Office
    BY <2>3, OfficeKeeps
  <2>4. QED
    BY <2>1, <2>2, <2>3 DEF MonthNext
<1>3. QED
  BY <1>1, <1>2, PTL DEF MonthSpec

\* What is on record, in the books and in the open transaction is always what the
\* database would take.
THEOREM MonthTypeCorrect == MonthSpec => []MonthTypeOK
BY MonthAlways, PTL

\* The month of a headgate always closes, to the last ten-thousandth where use areas
\* divide it, and else to less than half a ten-thousandth for each record.
THEOREM TheMonthCloses == MonthSpec => []WaterAddsUp
<1>1. MonthTypeOK /\ BooksInv => WaterAddsUp
  BY DEF BooksInv, ClosesInv, RecordedInv, OnRecord, StandsOnRecord, WaterAddsUp
<1>2. QED
  BY <1>1, MonthAlways, PTL

\* The pools of a zone always hold what the books say went into them, but for the zones
\* between which a use area was moved with its deposit.
THEOREM ThePoolsHold == MonthSpec => []PoolsAddUp
<1>1. MonthTypeOK /\ BooksInv => PoolsAddUp
  BY DEF BooksInv, PoolsInv, DepositsInv, PoolsAddUp, PoolHoldsSeepage, OldDepositTakenOnce
<1>2. QED
  BY <1>1, MonthAlways, PTL

\* A run always answers the canal water in the same books.
THEOREM RunsAnswerShares == MonthSpec => []RunAnswersShares
<1>1. MonthTypeOK /\ BooksInv => RunAnswersShares
  BY DEF BooksInv
<1>2. QED
  BY <1>1, MonthAlways, PTL

-----------------------------------------------------------------------------
(* The record once the month has run *)

\* The own deliveries through a headgate are the same on the cleaned record.
LEMMA CleanedOwnTotal ==
  ASSUME NEW d, IsDistrict(d), NEW p \in Point
  PROVE  OwnTotal(Cleaned(d), p) = OwnTotal(d, p)
<1> DEFINE n == Cleaned(d)
           A == OwnHere(d, p)
<1>1. IsDistrict(n) /\ \A q \in Point : Recorded(n, q) = Recorded(d, q)
  BY CleanedIs
<1>2. n.share = d.share /\ n.own = d.own /\ n.voided = d.voided
  BY CleanedFields
<1> HIDE DEF n
<1>3. OwnHere(n, p) = A
  BY <1>2 DEF OwnHere, OwnFields, Served
<1>4. \A f : OwnPart(n, p, f) = OwnPart(d, p, f)
  <2> TAKE f
  <2>1. ServedBy(n, f) = ServedBy(d, f)
    BY <1>2 DEF ServedBy, Served
  <2>2. [q \in Point |-> Recorded(n, q)] = [q \in Point |-> Recorded(d, q)]
    BY <1>1
  <2>3. RecordedFor(n, f) = RecordedFor(d, f)
    BY <2>1, <2>2 DEF RecordedFor
  <2>4. QED
    BY <1>1, <1>2, <2>1, <2>3 DEF OwnPart
<1>5. PICK g : /\ OwnAdds(d, p, g) /\ OwnTotal(d, p) = Quantize(g[A][1], g[A][2])
  BY OwnTotalAdds
<1>6. PICK h : /\ OwnAdds(n, p, h) /\ OwnTotal(n, p) = Quantize(h[A][1], h[A][2])
  BY <1>1, <1>3, OwnTotalAdds
<1>7. g[A] = h[A]
  <2> DEFINE P == {R \in SUBSET A : g[R] = h[R]}
  <2>1. \A R \in SUBSET A :
          /\ g[R] = IF R = {} THEN <<0, 1>> ELSE Plus(OwnPart(d, p, One(R)), g[R \ {One(R)}])
          /\ h[R] = IF R = {} THEN <<0, 1>> ELSE Plus(OwnPart(d, p, One(R)), h[R \ {One(R)}])
    BY <1>3, <1>4, <1>5, <1>6 DEF OwnAdds
  <2>2. IsFiniteSet(A)
    BY OwnTotalAdds
  <2> HIDE DEF A
  <2>3. {} \in P
    BY <2>1
  <2>4. ASSUME NEW R \in SUBSET A, R # {}, \A x \in R : R \ {x} \in P PROVE R \in P
    <3>1. One(R) \in R
      BY <2>4, OneIsIn
    <3>2. g[R \ {One(R)}] = h[R \ {One(R)}]
      BY <2>4, <3>1
    <3>3. g[R] = h[R]
      BY <2>1, <2>4, <3>2
    <3>4. QED
      BY <3>3
  <2> HIDE DEF P
  <2>5. A \in P
    BY <2>2, <2>3, <2>4, SetBySet
  <2>6. QED
    BY <2>5 DEF P
<1>8. QED
  BY <1>5, <1>6, <1>7 DEF n


\* The cleaned record is divided alike.
LEMMA CleanedSplits ==
  ASSUME NEW d, IsDistrict(d), NEW p \in Point, NEW need, NEW total, NEW rows
  PROVE  AddRecord(Cleaned(d), need, p, rows, total) = AddRecord(d, need, p, rows, total)
<1> DEFINE n == Cleaned(d)
<1>1. /\ n.share = d.share /\ n.byNeed = d.byNeed /\ n.acres = d.acres
      /\ n.efficiency = d.efficiency /\ n.own = d.own /\ n.fallow = d.fallow /\ n.voided = d.voided
  BY CleanedFields
<1> HIDE DEF n
<1>2. Free(n, p) = Free(d, p)
  BY <1>1 DEF Free, Served, OwnFields
<1>3. NeedRows(n, need, p, total) = NeedRows(d, need, p, total)
  BY <1>1, <1>2 DEF NeedRows
<1>4. FractionRows(n, p, total) = FractionRows(d, p, total)
  BY <1>1, <1>2 DEF FractionRows
<1>5. SplitRecord(n, need, p, total) = SplitRecord(d, need, p, total)
  BY <1>2, <1>3, <1>4 DEF SplitRecord, SplitRows
<1>6. QED
  BY <1>5 DEF AddRecord, n

\* And so is a month.
LEMMA CleanedDivides ==
  ASSUME NEW d, IsDistrict(d), NEW p \in Point, NEW need \in [Field -> Int]
  PROVE  Division(Cleaned(d), need, p) = Division(d, need, p)
<1> DEFINE n == Cleaned(d)
           loss == LossWithOwn(d, p)
           s == ToDivide(d, p, loss)
<1>1. IsDistrict(n) /\ Direct(n, p) = Direct(d, p) /\ Recorded(n, p) = Recorded(d, p)
  BY CleanedIs
<1>2. n.share = d.share /\ n.loss = d.loss
  BY CleanedFields
<1>3. OwnTotal(n, p) = OwnTotal(d, p)
  BY CleanedOwnTotal
<1>4. \A rows, total : AddRecord(n, need, p, rows, total) = AddRecord(d, need, p, rows, total)
  BY CleanedSplits
<1> HIDE DEF n
<1>5. MonthLosses(n, p) = MonthLosses(d, p) /\ Served(n, p) = Served(d, p)
  BY <1>1, <1>2 DEF MonthLosses, Served
<1>6. LossWithOwn(n, p) = loss
  BY <1>3, <1>5 DEF LossWithOwn
<1>7. ToDivide(n, p, loss) = s
  BY <1>1 DEF ToDivide
<1>8. ASSUME Direct(d, p) # <<>>, ~(loss.own > loss.available)
      PROVE  AllocateMonth(n, need, p, loss) = AllocateMonth(d, need, p, loss)
  <2>1. s \in Seq(Int)
    BY <1>8, LossIsDivided
  <2>2. PICK g : /\ GoesOn(d, need, p, loss, g)
                 /\ AllocateMonth(d, need, p, loss)
                      = IF loss.own > loss.available THEN NoRows(loss) ELSE g[1 .. Len(s)]
    BY <2>1, MonthGoesOn
  <2>3. PICK h : /\ GoesOn(n, need, p, loss, h)
                 /\ AllocateMonth(n, need, p, loss)
                      = IF loss.own > loss.available THEN NoRows(loss) ELSE h[1 .. Len(s)]
    BY <1>1, <1>7, <2>1, MonthGoesOn
  <2> DEFINE len == Len(s)
             P == {i \in 0 .. len : g[1 .. i] = h[1 .. i]}
  <2>4. len \in Nat /\ len \in 0 .. len
    BY <2>1
  <2>5. /\ g[1 .. 0] = NoRows(loss) /\ h[1 .. 0] = NoRows(loss)
        /\ \A i \in 1 .. len : /\ g[1 .. i] = AddRecord(d, need, p, g[1 .. (i - 1)], s[i])
                               /\ h[1 .. i] = AddRecord(d, need, p, h[1 .. (i - 1)], s[i])
    BY <1>4, <1>7, <2>2, <2>3 DEF GoesOn
  <2> HIDE DEF s, loss, len
  <2>6. 0 \in P
    BY <2>4, <2>5
  <2>7. ASSUME NEW i \in 1 .. len, i - 1 \in P PROVE i \in P
    <3>1. g[1 .. (i - 1)] = h[1 .. (i - 1)] /\ i \in 0 .. len
      BY <2>7
    <3>2. g[1 .. i] = h[1 .. i]
      BY <2>5, <3>1
    <3>3. QED
      BY <3>1, <3>2
  <2> HIDE DEF P
  <2>8. len \in P
    BY <2>4, <2>6, <2>7, UpTo
  <2>9. g[1 .. len] = h[1 .. len]
    BY <2>8 DEF P
  <2>10. QED
    BY <2>2, <2>3, <2>9 DEF len
<1>9. ASSUME loss.own > loss.available
      PROVE  AllocateMonth(n, need, p, loss) = AllocateMonth(d, need, p, loss)
  BY <1>9 DEF AllocateMonth
<1>10. Division(d, need, p) = IF Direct(d, p) = <<>> THEN NoRows(Nothing)
                            ELSE IF Served(d, p) = {}
                            THEN NoRows([MonthLosses(d, p) EXCEPT !.unserved = MonthLosses(d, p).available])
                            ELSE AllocateMonth(d, need, p, loss)
  BY DEF Division
<1>11. Division(n, need, p) = IF Direct(d, p) = <<>> THEN NoRows(Nothing)
                            ELSE IF Served(d, p) = {}
                            THEN NoRows([MonthLosses(d, p) EXCEPT !.unserved = MonthLosses(d, p).available])
                            ELSE AllocateMonth(n, need, p, loss)
  <2> HIDE DEF loss
  <2> QED
    BY <1>1, <1>5, <1>6 DEF Division
<1> HIDE DEF loss
<1>12. QED
  BY <1>8, <1>9, <1>10, <1>11 DEF n

-----------------------------------------------------------------------------
(* A month figured again *)

\* The runs are those of the satellite's figures as they stand.
RunsStand(d, b) ==
  \A f \in Field : /\ f \in d.voided => b.run[f] = Nothing
                   /\ f \in Figured(d) => b.run[f] # Nothing /\ b.run[f].net = NetUse(d, f)

\* A headgate's rows are what dividing it again would write.
Standing(d, b, p) ==
  LET plan == Division(d, Needs(b), p)
      entry == LossIn(d, p, plan)
  IN /\ b.share[p] = plan.share /\ b.beyond[p] = plan.beyond /\ b.loss[p] = entry
     /\ b.credit[p] = SeepageCredits(d, p, entry)

\* After a pass the runs are settled.
LEMMA PassSettles ==
  ASSUME NEW d, IsDistrict(d), NEW b, IsBooks(b)
  PROVE  RunsStand(d, EnginePass(d, b))
<1> DEFINE n == EnginePass(d, b)
<1>0. Passed(d, b, n)
  BY PassFields
<1> HIDE DEF n
<1>1. n.run = [f \in Field |-> Cleared(d, f, IF f \in Figured(d) THEN NewRun(d, b, f) ELSE b.run[f])]
  BY <1>0 DEF Passed
<1>2. ASSUME NEW f \in d.voided, f \in Field PROVE n.run[f] = Nothing
  BY <1>1, <1>2 DEF Cleared
<1>3. ASSUME NEW f \in Field, f \in Figured(d) PROVE n.run[f] # Nothing /\ n.run[f].net = NetUse(d, f)
  <2>1. f \notin d.voided
    BY <1>3 DEF Figured, Current
  <2>2. n.run[f] = NewRun(d, b, f)
    BY <1>1, <1>3, <2>1 DEF Cleared
  <2>3. NewRun(d, b, f) \in RunRow
    BY <1>3, RunIs
  <2>4. Nothing \notin RunRow
    BY DistrictsAssumption
  <2>5. QED
    BY <2>2, <2>3, <2>4 DEF NewRun
<1>4. QED
  BY <1>2, <1>3 DEF RunsStand, n

\* And another pass changes no use area's need.
LEMMA PassKeepsNeeds ==
  ASSUME NEW d, IsDistrict(d), NEW b, IsBooks(b), RunsStand(d, b)
  PROVE  Needs(EnginePass(d, b)) = Needs(b)
<1> DEFINE n == EnginePass(d, b)
<1>0. Passed(d, b, n)
  BY PassFields
<1>2. RunsStand(d, n)
  BY PassSettles
<1> HIDE DEF n
<1>1. n.run = [f \in Field |-> Cleared(d, f, IF f \in Figured(d) THEN NewRun(d, b, f) ELSE b.run[f])]
  BY <1>0 DEF Passed
<1>3. ASSUME NEW f \in Field
      PROVE  (IF n.run[f] = Nothing THEN 0 ELSE n.run[f].net) = IF b.run[f] = Nothing THEN 0 ELSE b.run[f].net
  <2>1. CASE f \in d.voided \/ f \in Figured(d)
    BY <1>2, <2>1 DEF RunsStand
  <2>2. CASE ~(f \in d.voided \/ f \in Figured(d))
    BY <1>1, <2>2 DEF Cleared
  <2>3. QED
    BY <2>1, <2>2
<1>4. Needs(n) = Needs(b)
  BY <1>3 DEF Needs
<1>5. QED
  BY <1>4 DEF n

\* What is written again at a key changes nothing.
LEMMA WrittenAgain ==
  ASSUME NEW A, NEW g, g = [x \in A |-> g[x]], NEW k
  PROVE  [g EXCEPT ![k] = g[k]] = g
OBVIOUS

\* What is stored stands, what stood of another headgate stands, and what stands is
\* stored again as it was.
LEMMA StoredStands ==
  ASSUME NEW d, IsDistrict(d), NEW b, IsBooks(b), NEW p \in Point,
         ~DemandRefused(d, Needs(b), p)
  PROVE  LET n == StoreAllocation(d, b, p)
         IN /\ Standing(d, n, p) /\ Needs(n) = Needs(b)
            /\ n.share[p] = Division(d, Needs(b), p).share
            /\ \A q \in Point \ {p} : /\ n.share[q] = b.share[q]
                                      /\ Standing(d, b, q) => Standing(d, n, q)
            /\ RunsStand(d, b) => RunsStand(d, n)
            /\ Standing(d, b, p) => n = b
<1> DEFINE n == StoreAllocation(d, b, p)
<1>1. PICK plan, entry :
        /\ plan = Division(d, Needs(b), p) /\ entry = LossIn(d, p, plan) /\ entry \in OrNothing(LossRow)
        /\ Replaced(d, b, p, plan, entry, n)
  BY AllocationIsStored
<1> HIDE DEF n
<1>2. /\ Has(n, BookFields)
      /\ n.share = [b.share EXCEPT ![p] = plan.share]
      /\ n.beyond = [b.beyond EXCEPT ![p] = plan.beyond]
      /\ n.loss = [b.loss EXCEPT ![p] = entry]
      /\ n.credit = [b.credit EXCEPT ![p] = SeepageCredits(d, p, entry)]
      /\ n.pool = SettleSeepage(b.pool, b.loss[p], entry)
      /\ n.run = b.run /\ n.calculated = b.calculated /\ n.wellShare = b.wellShare
      /\ n.credited = b.credited /\ n.basin = b.basin
  BY <1>1 DEF Replaced
<1>3. /\ b.share = [q \in Point |-> b.share[q]] /\ b.beyond = [q \in Point |-> b.beyond[q]]
      /\ b.loss = [q \in Point |-> b.loss[q]] /\ b.credit = [q \in Point |-> b.credit[q]]
      /\ b.pool \in [Zone -> Int]
      /\ b = [x \in BookFields |-> b[x]]
  BY DEF IsBooks, Has, BookFields
<1>4. Needs(n) = Needs(b)
  BY <1>2 DEF Needs
<1>5. /\ n.share[p] = plan.share /\ n.beyond[p] = plan.beyond /\ n.loss[p] = entry
      /\ n.credit[p] = SeepageCredits(d, p, entry)
      /\ \A q \in Point \ {p} : /\ n.share[q] = b.share[q] /\ n.beyond[q] = b.beyond[q]
                                /\ n.loss[q] = b.loss[q] /\ n.credit[q] = b.credit[q]
  BY <1>2, <1>3
<1>6. Standing(d, n, p)
  BY <1>1, <1>4, <1>5 DEF Standing
<1>7. \A q \in Point \ {p} : Standing(d, b, q) => Standing(d, n, q)
  BY <1>4, <1>5 DEF Standing
<1>8. RunsStand(d, b) => RunsStand(d, n)
  BY <1>2 DEF RunsStand
<1>9. ASSUME Standing(d, b, p) PROVE n = b
  <2>1. /\ b.share[p] = plan.share /\ b.beyond[p] = plan.beyond /\ b.loss[p] = entry
        /\ b.credit[p] = SeepageCredits(d, p, entry)
    BY <1>1, <1>9 DEF Standing
  <2>2. n.share = b.share /\ n.beyond = b.beyond /\ n.loss = b.loss /\ n.credit = b.credit
    <3>1. /\ n.share = [b.share EXCEPT ![p] = b.share[p]]
          /\ n.beyond = [b.beyond EXCEPT ![p] = b.beyond[p]]
          /\ n.loss = [b.loss EXCEPT ![p] = b.loss[p]]
          /\ n.credit = [b.credit EXCEPT ![p] = b.credit[p]]
      BY <1>2, <2>1
    <3>2. QED
      BY <1>3, <3>1, WrittenAgain
  <2>3. n.pool = b.pool
    <3>1. n.pool = [z \in Zone |-> b.pool[z] + SeepageIn(entry, z) - SeepageIn(entry, z)]
      BY <1>2, <2>1 DEF SettleSeepage
    <3>2. \A z \in Zone : b.pool[z] + SeepageIn(entry, z) - SeepageIn(entry, z) = b.pool[z]
      <4> TAKE z \in Zone
      <4>1. b.pool[z] \in Int /\ SeepageIn(entry, z) \in Nat
        BY <1>1, <1>3, SeepageInIs
      <4>2. QED
        BY <4>1
    <3>3. QED
      BY <1>3, <3>1, <3>2
  <2>4. \A x \in BookFields : n[x] = b[x]
    BY <1>2, <2>2, <2>3 DEF BookFields
  <2>5. QED
    BY <1>2, <1>3, <2>4 DEF Has
<1>10. QED
  BY <1>1, <1>4, <1>5, <1>6, <1>7, <1>8, <1>9 DEF n

\* A headgate's rows stand on the cleaned record and after the second pass.
LEMMA PassStands ==
  ASSUME NEW d, IsDistrict(d), NEW b, IsBooks(b), RunsStand(d, b), NEW p \in Point, Standing(d, b, p)
  PROVE  Standing(Cleaned(d), EnginePass(d, b), p)
<1> DEFINE c == Cleaned(d)
           n == EnginePass(d, b)
           need == Needs(b)
           plan == Division(d, need, p)
           entry == LossIn(d, p, plan)
<1>1. need \in [Field -> Int] /\ Needs(n) = need
  BY NeedsAre, PassKeepsNeeds
<1>2. Division(c, need, p) = plan
  BY <1>1, CleanedDivides
<1>0. Passed(d, b, n)
  BY PassFields
<1>4. /\ c.share = d.share /\ c.standsIn = d.standsIn /\ c.owner = d.owner /\ c.acres = d.acres
      /\ c.zone = d.zone /\ c.account = d.account /\ c.credit = d.credit
      /\ c.leaveBehind = d.leaveBehind
  BY CleanedFields
<1>5. /\ b.share[p] = plan.share /\ b.beyond[p] = plan.beyond /\ b.loss[p] = entry
      /\ b.credit[p] = SeepageCredits(d, p, entry)
  BY DEF Standing
<1> HIDE DEF c, n, need, plan
<1>3. n.share = b.share /\ n.beyond = b.beyond /\ n.loss = b.loss /\ n.credit = b.credit
  BY <1>0 DEF Passed
<1>6. SeepageZone(c, p, plan.share) = SeepageZone(d, p, plan.share)
  BY <1>4 DEF SeepageZone
<1>7. LossIn(c, p, plan) = entry
  BY <1>6 DEF LossIn
<1> HIDE DEF entry
<1>8. SeepageCredits(c, p, entry) = SeepageCredits(d, p, entry)
  BY <1>4 DEF SeepageCredits, Served
<1>9. Standing(c, n, p)
  BY <1>1, <1>2, <1>3, <1>5, <1>7, <1>8 DEF Standing
<1>10. QED
  BY <1>9 DEF c, n

\* Cleaned once, a district is clean.
LEMMA CleanedAgain ==
  ASSUME NEW d, IsDistrict(d)
  PROVE  Cleaned(Cleaned(d)) = Cleaned(d)
<1> DEFINE c == Cleaned(d)
           r == [p \in Point |-> Direct(d, p)]
<1>1. d = [x \in DistrictFields |-> d[x]]
  BY DEF IsDistrict, Has, DistrictFields
<1>2. c = [d EXCEPT !.records = r]
  BY DEF Cleaned
<1>3. \A p \in Point : Direct(c, p) = Direct(d, p)
  BY CleanedIs
<1> HIDE DEF c
<1>4. [p \in Point |-> Direct(c, p)] = r
  BY <1>3
<1> HIDE DEF r
<1>5. Cleaned(c) = [c EXCEPT !.records = r]
  BY <1>4 DEF Cleaned
<1>6. Cleaned(c) = c
  BY <1>1, <1>2, <1>5 DEF DistrictFields
<1>7. QED
  BY <1>6 DEF c

\* A pass over what a pass left, on the cleaned record, leaves it as it is.
LEMMA PassAgain ==
  ASSUME NEW d, IsDistrict(d), NEW b, IsBooks(b)
  PROVE  EnginePass(Cleaned(d), EnginePass(d, b)) = EnginePass(d, b)
<1> DEFINE c == Cleaned(d)
           n == EnginePass(d, b)
           m == EnginePass(c, n)
<1>1. IsDistrict(c) /\ IsBooks(n) /\ IsBooks(b)
  BY CleanedIs, PassIsBooks
<1>2. Passed(d, b, n)
  BY PassFields
<1>3. Passed(c, n, m)
  BY <1>1, PassFields
<1>4. /\ c.zone = d.zone /\ c.efficiency = d.efficiency
      /\ c.own = d.own /\ c.fallow = d.fallow /\ c.voided = d.voided
      /\ c.et = d.et /\ c.rain = d.rain /\ c.rainCapped = d.rainCapped
      /\ c.wells = d.wells /\ c.typedMeter = d.typedMeter
  BY CleanedFields
<1> HIDE DEF c, n, m
<1>5. Figured(c) = Figured(d)
  BY <1>4 DEF Figured, Current
<1>6. WellMeterShares(c) = WellMeterShares(d)
  <2>1. TypedRows(c) = TypedRows(d)
    BY <1>4 DEF TypedRows
  <2>2. Divided(c) = Divided(d)
    BY <1>4, <2>1 DEF Divided
  <2>3. QED
    BY <1>4, <2>2 DEF WellMeterShares, Current
<1>7. ASSUME NEW f \in Field PROVE NewRun(c, n, f) = NewRun(d, b, f) /\ ResidualRow(c, n, f) = ResidualRow(d, b, f)
  <2>1. n.share = b.share
    BY <1>2 DEF Passed
  <2>2. Consumed(c, n, f) = Consumed(d, b, f)
    BY <1>4, <2>1 DEF Consumed
  <2>3. EtGross(c, f) = EtGross(d, f) /\ EffectivePrecip(c, f) = EffectivePrecip(d, f)
    BY <1>4 DEF EtGross, EffectivePrecip
  <2>4. Running(c, n, f) = Running(d, b, f)
    BY <2>2, <2>3 DEF Running
  <2>5. FinalAf(c, n, f) = FinalAf(d, b, f) /\ OverDelivery(c, n, f) = OverDelivery(d, b, f)
    BY <2>3, <2>4 DEF FinalAf, OverDelivery
  <2>6. Metered(c) = Metered(d) /\ HasWell(c, f) = HasWell(d, f)
    BY <1>4, <1>6 DEF Metered, TypedRows, HasWell
  <2>7. Disposition(c, f) = Disposition(d, f)
    BY <2>6 DEF Disposition
  <2>8. NetUse(c, f) = NetUse(d, f)
    BY <2>3 DEF NetUse
  <2>9. QED
    BY <2>5, <2>7, <2>8 DEF NewRun, ResidualRow
<1>8. m.share = n.share /\ m.beyond = n.beyond /\ m.loss = n.loss /\ m.credit = n.credit /\ m.pool = n.pool
  BY <1>3 DEF Passed
<1>9. m.run = n.run
  <2>1. m.run = [f \in Field |-> Cleared(c, f, IF f \in Figured(c) THEN NewRun(c, n, f) ELSE n.run[f])]
    BY <1>3 DEF Passed
  <2>2. n.run = [f \in Field |-> Cleared(d, f, IF f \in Figured(d) THEN NewRun(d, b, f) ELSE b.run[f])]
    BY <1>2 DEF Passed
  <2>3. \A f \in Field : Cleared(c, f, IF f \in Figured(c) THEN NewRun(c, n, f) ELSE n.run[f]) = n.run[f]
    BY <1>4, <1>5, <1>7, <2>2 DEF Cleared
  <2>4. QED
    BY <2>1, <2>2, <2>3
<1>10. m.calculated = n.calculated
  <2>1. m.calculated = [f \in Field |-> Cleared(c, f, IF f \in Figured(c) THEN ResidualRow(c, n, f)
                                                      ELSE n.calculated[f])]
    BY <1>3 DEF Passed
  <2>2. n.calculated = [f \in Field |-> Cleared(d, f, IF f \in Figured(d) THEN ResidualRow(d, b, f)
                                                      ELSE b.calculated[f])]
    BY <1>2 DEF Passed
  <2>3. \A f \in Field : Cleared(c, f, IF f \in Figured(c) THEN ResidualRow(c, n, f)
                                       ELSE n.calculated[f]) = n.calculated[f]
    BY <1>4, <1>5, <1>7, <2>2 DEF Cleared
  <2>4. QED
    BY <2>1, <2>2, <2>3
<1>11. m.wellShare = n.wellShare
  BY <1>2, <1>3, <1>6 DEF Passed
<1>12. m.credited = n.credited
  <2>1. n.credited = b.credited \ (Figured(d) \cup d.voided)
    BY <1>2 DEF Passed
  <2>2. m.credited = n.credited \ (Figured(d) \cup d.voided)
    BY <1>3, <1>4, <1>5 DEF Passed
  <2>3. QED
    BY <2>1, <2>2
<1>13. m.basin = n.basin
  <2> DEFINE S(z) == {f \in Figured(d) \cup d.voided : d.zone[f] = z}
             old == [f \in Field |-> PriorPooled(c, n.run[f], f)]
  <2>1. n.basin \in [Zone -> Int]
    BY <1>1 DEF IsBooks
  <2>2. m.basin = [z \in Zone |-> n.basin[z] - SumFunctionOnSet(old, S(z))]
    BY <1>3, <1>4, <1>5 DEF Passed, AdjustBasinPool
  <2>3. ASSUME NEW f \in Figured(d) \cup d.voided PROVE f \in Field /\ old[f] = 0
    <3>1. f \in Field
      BY <1>1, <2>3 DEF Figured, Current, IsDistrict
    <3>2. n.run[f] = Cleared(d, f, IF f \in Figured(d) THEN NewRun(d, b, f) ELSE b.run[f])
      BY <1>2, <3>1 DEF Passed
    <3>3. n.run[f] = Nothing \/ n.run[f] = NewRun(d, b, f)
      BY <2>3, <3>2 DEF Cleared
    <3>4. NewRun(d, b, f).stamp = "none"
      BY DEF NewRun
    <3>5. PriorPooled(c, n.run[f], f) = 0
      BY <3>3, <3>4 DEF PriorPooled
    <3>6. QED
      BY <3>1, <3>5
  <2> HIDE DEF old
  <2>4. \A z \in Zone : SumFunctionOnSet(old, S(z)) = 0
    <3> TAKE z \in Zone
    <3>1. IsFiniteSet(S(z))
      <4>1. S(z) \subseteq Field
        BY <2>3
      <4>2. QED
        BY <4>1, KeysAssumption, FS_Subset
    <3>2. \A f \in S(z) : old[f] = 0
      BY <2>3
    <3> HIDE DEF S
    <3>3. Total(old, S(z)) = 0
      BY <3>1, <3>2, TotalOfZeros
    <3>4. QED
      BY <3>3, SumsAreTotals
  <2> HIDE DEF S
  <2>5. \A z \in Zone : n.basin[z] - SumFunctionOnSet(old, S(z)) = n.basin[z]
    BY <2>1, <2>4
  <2>6. QED
    BY <2>1, <2>2, <2>5
<1>14. \A x \in BookFields : m[x] = n[x]
  BY <1>8, <1>9, <1>10, <1>11, <1>12, <1>13 DEF BookFields
<1>15. m = n
  BY <1>2, <1>3, <1>14 DEF Passed, Has
<1>16. QED
  BY <1>15 DEF c, n, m

-----------------------------------------------------------------------------
(* What a headgate divides by need *)

\* The rows of one record divided by need stay within the needs.
Within(d, need, p, share) ==
  LET asked == [f \in Free(d, p) |-> need[f]]
  IN p \in d.byNeed /\ Len(Direct(d, p)) = 1 /\ (\E f \in DOMAIN asked : asked[f] > 0) =>
       \A f \in DOMAIN share : /\ f \in DOMAIN asked /\ asked[f] > 0
                               /\ share[f] <= DemandCaps(asked, d.efficiency)[f]

\* No shares but those of one record are that record's.
LEMMA SharesOfOne ==
  ASSUME NEW s, s = [f \in DOMAIN s |-> s[f]], \A f \in DOMAIN s : s[f] \in Int
  PROVE  AddShares(NoShares, s) = s
BY DEF AddShares, NoShares

\* What a record brings, once none of it is refused, is divided within the needs.
LEMMA DividedWithin ==
  ASSUME NEW d, IsDistrict(d), NEW p \in Point, NEW need \in [Field -> Int],
         ~DemandRefused(d, need, p)
  PROVE  Within(d, need, p, Division(d, need, p).share)
<1> DEFINE F == Free(d, p)
           asked == [f \in F |-> need[f]]
           efficiency == [f \in F |-> d.efficiency[f]]
           loss == LossWithOwn(d, p)
           s == ToDivide(d, p, loss)
           plan == Division(d, need, p)
<1>1. SUFFICES ASSUME p \in d.byNeed, Len(Direct(d, p)) = 1, \E f \in F : asked[f] > 0
               PROVE  \A f \in DOMAIN plan.share : /\ f \in F /\ asked[f] > 0
                                                   /\ plan.share[f] <= DemandCaps(asked, d.efficiency)[f]
  BY DEF Within
<1>2. Direct(d, p) # <<>>
  <2>1. Len(<<>>) = 0
    BY EmptySeq
  <2>2. ASSUME NEW t, t = <<>> PROVE Len(t) = 0
    BY <2>1, <2>2
  <2> HIDE DEF F, asked, efficiency, loss, s, plan
  <2>3. Direct(d, p) = <<>> => Len(Direct(d, p)) = 0
    BY <2>2
  <2>4. QED
    BY <1>1, <2>3
<1>3. F \subseteq Served(d, p) /\ F \subseteq Field /\ F \subseteq Int /\ IsFiniteSet(F) /\ Served(d, p) # {}
  <2>1. F \subseteq Served(d, p)
    BY DEF Free
  <2>2. QED
    BY <1>1, <2>1, HeadgateIs, FS_Subset
<1>4. plan = AllocateMonth(d, need, p, loss)
  BY <1>2, <1>3 DEF Division
<1>5. asked \in [F -> Int] /\ efficiency \in [F -> 1 .. FullEfficiency]
  BY <1>3 DEF IsDistrict
<1>6. \A f \in F : asked[f] = need[f] /\ efficiency[f] = d.efficiency[f]
  OBVIOUS
<1>7. DOMAIN NoShares = {} /\ NoRows(loss).share = NoShares
  BY DEF NoShares, NoRows
<1> HIDE DEF plan, asked, efficiency
<1>8. CASE loss.own > loss.available
  BY <1>4, <1>7, <1>8 DEF AllocateMonth
<1>9. CASE ~(loss.own > loss.available)
  <2>1. s \in Seq(Int) /\ Len(s) = 1 /\ loss.own \in Nat /\ loss.available \in Int
    BY <1>1, <1>2, <1>9, LossIsDivided
  <2>2. s[1] \in Int /\ 1 \in 1 .. Len(s) /\ 1 .. Len(s) = 1 .. 1 /\ 1 .. (1 - 1) = 1 .. 0
    <3> HIDE DEF s
    <3>1. \A i \in 1 .. Len(s) : s[i] \in Int
      BY <2>1, ElementOfSeq
    <3>2. 1 \in 1 .. Len(s) /\ 1 .. Len(s) = 1 .. 1
      BY <2>1
    <3>3. 1 .. (1 - 1) = 1 .. 0
      OBVIOUS
    <3>4. QED
      BY <3>1, <3>2, <3>3
  <2>3. PICK h : GoesOn(d, need, p, loss, h) /\ plan = h[1 .. Len(s)]
    BY <1>4, <1>9, <2>1, MonthGoesOn
  <2>4. plan = AddRecord(d, need, p, NoRows(loss), s[1])
    BY <2>2, <2>3 DEF GoesOn
  <2> HIDE DEF loss, s
  <2> DEFINE total == s[1]
             rows == AllocateByDemand(total, asked, efficiency)
             caps == DemandCaps(asked, efficiency)
             split == SplitRecord(d, need, p, total)
  <2>5. CASE total = 0
    BY <1>7, <2>4, <2>5 DEF AddRecord
  <2>6. CASE total # 0
    <3>1. Divisible(total, asked)
      <4>1. total \in Range(s) \ {0}
        BY <2>1, <2>2, <2>6 DEF Range
      <4>2. \A t \in Range(s) \ {0} : Divisible(t, asked)
        BY <1>1, <1>2, <1>3, <1>9, <2>1 DEF DemandRefused, asked, loss, s
      <4>3. QED
        BY <4>1, <4>2
    <3>2. SumFunction(asked) > 0
      <4>1. \A f \in F : asked[f] \in Nat
        BY <1>5, <3>1 DEF Divisible
      <4>2. PICK f \in F : asked[f] # 0
        BY <1>1
      <4>3. Total(asked, F) \in Nat \ {0}
        BY <1>3, <4>1, <4>2, TotalAboveNothing
      <4>4. SumFunction(asked) = Total(asked, F)
        BY <1>5, SumsAreTotals
      <4>5. QED
        BY <4>3, <4>4
    <3>3. DOMAIN caps = {k \in F : asked[k] > 0} /\ caps \in [{k \in F : asked[k] > 0} -> Nat]
      BY <1>5, CapsAre
    <3>4. /\ Amounts(rows, F, Int) /\ DOMAIN rows = DOMAIN caps
          /\ \A k \in DOMAIN rows : asked[k] > 0 /\ rows[k] <= caps[k]
      <4> HIDE DEF F
      <4>1. total \in Int
        BY <2>2
      <4> HIDE DEF total
      <4>2. /\ Amounts(AllocateByDemand(total, asked, efficiency), F, Int)
            /\ (SumFunction(asked) > 0 /\ total # 0) =>
                 /\ DOMAIN AllocateByDemand(total, asked, efficiency) = DOMAIN DemandCaps(asked, efficiency)
                 /\ \A k \in DOMAIN AllocateByDemand(total, asked, efficiency) :
                      /\ asked[k] > 0
                      /\ AllocateByDemand(total, asked, efficiency)[k] <= DemandCaps(asked, efficiency)[k]
        BY <1>3, <1>5, <4>1, DemandAllocated
      <4>3. QED
        BY <2>6, <3>2, <4>2
    <3>5. NeedRows(d, need, p, total) = rows
      BY <1>1 DEF NeedRows, asked, efficiency
    <3> HIDE DEF rows, caps, total
    <3>6. rows # NoShares
      BY <1>1, <1>7, <3>3, <3>4
    <3>7. split.share = rows
      BY <3>5, <3>6 DEF SplitRecord, SplitRows
    <3>8. plan.share = AddShares(NoShares, rows)
      BY <1>7, <2>4, <2>6, <3>7 DEF AddRecord, AddRows, total, NoRows
    <3>9. plan.share = rows
      <4>1. rows = [f \in DOMAIN rows |-> rows[f]] /\ \A f \in DOMAIN rows : rows[f] \in Int
        BY <3>4 DEF Amounts
      <4>2. QED
        BY <3>8, <4>1, SharesOfOne
    <3>10. \A f \in {k \in F : asked[k] > 0} : caps[f] = DemandCaps(asked, d.efficiency)[f]
      BY <1>5, <1>6 DEF DemandCaps, caps
    <3>11. QED
      BY <3>3, <3>4, <3>9, <3>10
  <2>7. QED
    BY <2>5, <2>6
<1>10. QED
  BY <1>8, <1>9

\* It is within the needs on the cleaned record too.
LEMMA CleanedWithin ==
  ASSUME NEW d, IsDistrict(d), NEW p \in Point, NEW need, NEW share, Within(d, need, p, share)
  PROVE  Within(Cleaned(d), need, p, share)
<1> DEFINE c == Cleaned(d)
<1>1. Direct(c, p) = Direct(d, p)
  BY CleanedIs
<1>2. /\ c.share = d.share /\ c.byNeed = d.byNeed /\ c.efficiency = d.efficiency
      /\ c.own = d.own /\ c.fallow = d.fallow /\ c.voided = d.voided
  BY CleanedFields
<1> HIDE DEF c
<1>3. Free(c, p) = Free(d, p)
  BY <1>2 DEF Free, Served, OwnFields
<1>4. Within(c, need, p, share)
  BY <1>1, <1>2, <1>3 DEF Within
<1>5. QED
  BY <1>4 DEF c

-----------------------------------------------------------------------------
(* The ground's water *)

\* The parts of what a well pumped add up to it.
LEMMA PartsAddUp ==
  ASSUME NEW d, IsDistrict(d), NEW w \in Divided(d)
  PROVE  LET K == DOMAIN d.wells[w].share
             parts == WellParts(d.wells[w])
         IN /\ w \in Well /\ K \subseteq Field /\ IsFiniteSet(K)
            /\ d.wells[w].pumped \in Nat
            /\ \A f \in K : parts[f] \in Int
            /\ Total(parts, K) = d.wells[w].pumped
<1> DEFINE share == d.wells[w].share
           pumped == d.wells[w].pumped
           all == SumFunction(share)
           K == DOMAIN share
           part == [g \in K |-> Quantize(pumped * share[g], all)]
<1>1. w \in Well /\ pumped # Nothing /\ all > 0
  BY DEF Divided
<1>2. Amounts(share, Field, Nat) /\ pumped \in Nat
  BY <1>1 DEF IsDistrict, OrNothing
<1>3. WellParts(d.wells[w]) = PlaceResidual(part, pumped)
  BY DEF WellParts
<1> HIDE DEF share, pumped
<1>4. K \subseteq Field /\ K \subseteq Int /\ IsFiniteSet(K) /\ share \in [K -> Nat]
  <2>1. K \subseteq Field /\ share \in [K -> Nat]
    BY <1>2 DEF Amounts
  <2>2. QED
    BY <2>1, KeysAssumption, FS_Subset
<1>5. all = Total(share, K)
  BY SumsAreTotals
<1> HIDE DEF K
<1>6. all \in Nat \ {0} /\ K # {}
  <2>1. \A g \in K : share[g] \in Nat
    BY <1>4
  <2>2. Total(share, K) \in Nat
    BY <1>4, <2>1, TotalIsNat
  <2>3. K = {} => all = 0
    BY <1>5, TotalOfNothing
  <2> HIDE DEF all
  <2>4. QED
    BY <1>1, <1>5, <2>2, <2>3
<1> HIDE DEF all
<1>7. part \in [K -> Int]
  <2>1. \A g \in K : pumped * share[g] \in Int
    BY <1>2, <1>4
  <2>2. QED
    BY <1>6, <2>1, QuantizeIsNear
<1> HIDE DEF part
<1> DEFINE parts == PlaceResidual(part, pumped)
<1>8. parts \in [K -> Int] /\ SumFunction(parts) = pumped
  <2>1. pumped \in Int
    BY <1>2
  <2>2. QED
    BY <1>4, <1>6, <1>7, <2>1, PlacedAddsUp
<1> HIDE DEF parts
<1>9. Total(parts, K) = pumped /\ \A f \in K : parts[f] \in Int
  <2>1. DOMAIN parts = K
    BY <1>8
  <2>2. QED
    BY <1>8, <2>1, SumsAreTotals
<1>10. WellParts(d.wells[w]) = parts
  BY <1>3 DEF parts
<1>11. QED
  BY <1>1, <1>2, <1>4, <1>9, <1>10 DEF K, share, pumped

\* Where no use area has two wells, what they pumped is on the ledger once.
PumpedOnce(d, b) ==
  LET W == Divided(d)
      Watered(w) == DOMAIN d.wells[w].share
      F == UNION {Watered(w) : w \in W}
      oneEach == \A v, w \in W : v # w => Watered(v) \cap Watered(w) = {}
  IN oneEach /\ F \cap d.voided = {} =>
       SumFunctionOnSet([w \in Well |-> d.wells[w].pumped], W) = SumFunctionOnSet(b.wellShare, F)

\* A pass puts what the wells pumped on the ledger once.
LEMMA PassCountsPumped ==
  ASSUME NEW d, IsDistrict(d), NEW b, IsBooks(b)
  PROVE  PumpedOnce(d, EnginePass(d, b))
<1> DEFINE n == EnginePass(d, b)
           W == Divided(d)
           Watered(w) == DOMAIN d.wells[w].share
           F == UNION {Watered(w) : w \in W}
           shares == WellMeterShares(d)
           pumped == [w \in Well |-> d.wells[w].pumped]
           ledger == n.wellShare
<1>1. ledger = [f \in Field |-> IF f \in DOMAIN shares THEN shares[f] ELSE Nothing]
  <2>1. Passed(d, b, n)
    BY PassFields
  <2> HIDE DEF n
  <2>2. QED
    BY <2>1 DEF Passed, ledger
<1> HIDE DEF n, ledger
<1>2. SUFFICES ASSUME \A v, w \in W : v # w => Watered(v) \cap Watered(w) = {}, F \cap d.voided = {}
               PROVE  SumFunctionOnSet(pumped, W) = SumFunctionOnSet(ledger, F)
  BY DEF PumpedOnce, ledger, n
<1>3. /\ \A w \in W : /\ w \in Well /\ Watered(w) \subseteq Field
                      /\ d.wells[w].pumped \in Nat
                      /\ \A f \in Watered(w) : WellParts(d.wells[w])[f] \in Int
                      /\ Total(WellParts(d.wells[w]), Watered(w)) = d.wells[w].pumped
  BY PartsAddUp
<1>4. W \subseteq Well /\ IsFiniteSet(W) /\ W \subseteq Int /\ F \subseteq Field /\ IsFiniteSet(F)
  <2>1. W \subseteq Well /\ F \subseteq Field
    BY <1>3
  <2> HIDE DEF W, F
  <2>2. QED
    BY <2>1, WellsAssumption, KeysAssumption, FS_Subset
<1> DEFINE Of(f) == {w \in W : f \in Watered(w)}
           well == [f \in F |-> LastKey(Of(f))]
<1>5. ASSUME NEW w \in W, NEW f \in Watered(w)
      PROVE  f \in F /\ well[f] = w /\ ledger[f] = WellParts(d.wells[w])[f]
  <2>1. f \in F /\ f \in Field /\ f \notin d.voided
    BY <1>2, <1>3, <1>5
  <2>2. Of(f) = {w}
    BY <1>2, <1>5
  <2>3. LastKey({w}) = w
    <3>1. IsFiniteSet({w}) /\ {w} # {} /\ {w} \subseteq Int
      BY <1>4, FS_Singleton
    <3>2. QED
      BY <3>1, GreatestAndLeast
  <2>4. well[f] = w
    BY <2>1, <2>2, <2>3
  <2>5. f \in DOMAIN shares /\ shares[f] = WellParts(d.wells[LastKey(Of(f))])[f]
    <3> DEFINE G == {g \in Current(d) : Of(g) # {}}
    <3>1. shares = [g \in G |-> WellParts(d.wells[LastKey(Of(g))])[g]]
      BY DEF WellMeterShares
    <3>2. f \in G
      BY <2>1, <2>2 DEF Current
    <3> HIDE DEF G, Of, shares
    <3>3. QED
      BY <3>1, <3>2
  <2> HIDE DEF shares, Of, F, well
  <2>6. ledger[f] = WellParts(d.wells[w])[f]
    BY <1>1, <2>1, <2>2, <2>3, <2>5
  <2>7. QED
    BY <2>1, <2>4, <2>6
<1>6. \A f \in F : ledger[f] \in Int /\ well[f] \in W
  <2> TAKE f \in F
  <2>1. PICK w \in W : f \in Watered(w)
    OBVIOUS
  <2>2. QED
    BY <1>3, <1>5, <2>1
<1>7. \A w \in W : {f \in F : well[f] = w} = Watered(w)
  <2> TAKE w \in W
  <2>1. \A f \in F : well[f] = w => f \in Watered(w)
    <3> TAKE f \in F
    <3>1. PICK v \in W : f \in Watered(v)
      OBVIOUS
    <3>2. well[f] = v
      BY <1>5, <3>1
    <3>3. QED
      BY <3>1, <3>2
  <2>2. \A f \in Watered(w) : f \in F /\ well[f] = w
    BY <1>5
  <2> HIDE DEF F, well, Watered
  <2>3. QED
    BY <2>1, <2>2
<1> HIDE DEF well, F, W
<1>8. ASSUME NEW w \in W PROVE Total(ledger, {f \in F : well[f] = w}) = pumped[w]
  <2>1. IsFiniteSet(Watered(w))
    BY <1>3, <1>8, KeysAssumption, FS_Subset
  <2>2. Alike(Watered(w), ledger, WellParts(d.wells[w]))
    BY <1>5, <1>8 DEF Alike
  <2>3. Total(ledger, Watered(w)) = Total(WellParts(d.wells[w]), Watered(w))
    <3> HIDE DEF Watered
    <3> QED
      BY <2>1, <2>2, TotalAlike
  <2>4. pumped[w] = d.wells[w].pumped
    BY <1>3, <1>8
  <2>5. QED
    BY <1>3, <1>7, <1>8, <2>3, <2>4
<1>9. Total([w \in W |-> Total(ledger, {f \in F : well[f] = w})], W) = Total(ledger, F)
  <2>1. \A f \in F : ledger[f] \in Int /\ well[f] \in W
    BY <1>6
  <2>2. IsFiniteSet(F) /\ IsFiniteSet(W)
    BY <1>4
  <2>3. QED
    BY <2>1, <2>2, TotalByGroup
<1>10. Total(pumped, W) = Total([w \in W |-> Total(ledger, {f \in F : well[f] = w})], W)
  <2> DEFINE k == [w \in W |-> Total(ledger, {f \in F : well[f] = w})]
  <2>1. Alike(W, pumped, k)
    BY <1>8 DEF Alike
  <2> HIDE DEF k, pumped
  <2>2. Total(pumped, W) = Total(k, W)
    BY <1>4, <2>1, TotalAlike
  <2>3. QED
    BY <2>2 DEF k
<1>11. QED
  BY <1>9, <1>10, SumsAreTotals

-----------------------------------------------------------------------------
(* What stands on the books of a month that is up to date *)

\* A headgate's rows stand, within the needs where it divides by need.
StandsWithin(d, b, p) == Standing(d, b, p) /\ Within(d, Needs(b), p, b.share[p])

\* What is true of books figured from the district as it stands.
Fresh(d, b) ==
  /\ d = Cleaned(d)
  /\ EnginePass(d, b) = b
  /\ \A p \in Visited(d) : StandsWithin(d, b, p)
  /\ PumpedOnce(d, b)

\* What is true of the draft of a month nothing was typed under.
OnTheWay(d, b, S) ==
  /\ RunsStand(d, b)
  /\ \A p \in S : StandsWithin(d, b, p)

AgainInv ==
  /\ upToDate => Fresh(district, books)
  /\ stage = "divide" /\ ~moved =>
       /\ undivided \subseteq Visited(district)
       /\ OnTheWay(district, draft, Visited(district) \ undivided)
       /\ upToDate => draft = books

\* What the second pass commits is fresh.
LEMMA PassIsFresh ==
  ASSUME NEW d, IsDistrict(d), NEW b, IsBooks(b), OnTheWay(d, b, Visited(d))
  PROVE  Fresh(Cleaned(d), EnginePass(d, b))
<1> DEFINE c == Cleaned(d)
           n == EnginePass(d, b)
<1>1. IsDistrict(c) /\ Visited(c) = Visited(d) /\ Visited(d) \subseteq Point
  <2>1. IsDistrict(c)
    BY CleanedIs
  <2>2. Visited(c) = Visited(d)
    BY CleanedIsVisited
  <2>3. d.active \subseteq Point
    BY DEF IsDistrict
  <2>4. Visited(d) \subseteq Point
    BY <2>3 DEF Visited
  <2>5. QED
    BY <2>1, <2>2, <2>4
<1>2. c = Cleaned(c)
  BY CleanedAgain
<1>3. EnginePass(c, n) = n
  BY PassAgain
<1>4. Needs(n) = Needs(b)
  BY PassKeepsNeeds DEF OnTheWay
<1>5. n.share = b.share
  BY PassKeepsCanals
<1>6. IsBooks(n)
  BY PassIsBooks
<1>7. \A p \in Visited(d) : Standing(c, n, p)
  BY <1>1, PassStands DEF OnTheWay, StandsWithin
<1>8. \A p \in Visited(d) : Within(c, Needs(b), p, b.share[p])
  BY <1>1, CleanedWithin DEF OnTheWay, StandsWithin
<1>9. PumpedOnce(c, n)
  <2>1. PumpedOnce(c, EnginePass(c, n))
    BY <1>1, <1>6, PassCountsPumped
  <2>2. QED
    BY <1>3, <2>1
<1> HIDE DEF c, n
<1>10. \A p \in Visited(c) : StandsWithin(c, n, p)
  BY <1>1, <1>4, <1>5, <1>7, <1>8 DEF StandsWithin
<1>11. Fresh(c, n)
  BY <1>2, <1>3, <1>9, <1>10 DEF Fresh
<1>12. QED
  BY <1>11 DEF c, n

\* One headgate divided: it stands, and on books that were fresh nothing changes.
LEMMA DividedStands ==
  ASSUME NEW d, IsDistrict(d), NEW b, IsBooks(b), NEW p \in Point, ~DemandRefused(d, Needs(b), p),
         NEW S \in SUBSET Point, OnTheWay(d, b, S)
  PROVE  /\ OnTheWay(d, StoreAllocation(d, b, p), S \cup {p})
         /\ StandsWithin(d, b, p) => StoreAllocation(d, b, p) = b
<1> DEFINE n == StoreAllocation(d, b, p)
<1>1. /\ Standing(d, n, p) /\ Needs(n) = Needs(b)
      /\ n.share[p] = Division(d, Needs(b), p).share
      /\ \A q \in Point \ {p} : /\ n.share[q] = b.share[q]
                                /\ Standing(d, b, q) => Standing(d, n, q)
      /\ RunsStand(d, b) => RunsStand(d, n)
      /\ Standing(d, b, p) => n = b
  BY StoredStands
<1>2. Within(d, Needs(b), p, Division(d, Needs(b), p).share)
  BY NeedsAre, DividedWithin
<1> HIDE DEF n
<1>3. StandsWithin(d, n, p)
  BY <1>1, <1>2 DEF StandsWithin
<1>4. \A q \in S \ {p} : StandsWithin(d, n, q)
  BY <1>1 DEF OnTheWay, StandsWithin
<1>5. OnTheWay(d, n, S \cup {p})
  BY <1>1, <1>3, <1>4 DEF OnTheWay
<1>6. QED
  BY <1>1, <1>5 DEF n, StandsWithin

\* Nothing is up to date, or under way, at first.
LEMMA AgainBegins == ASSUME MonthInit PROVE AgainInv
BY DEF MonthInit, AgainInv

\* The first pass settles the runs, and over books that are fresh changes nothing.
LEMMA BeginKeepsAgain ==
  ASSUME MonthTypeOK, AgainInv, Begin PROVE AgainInv'
<1>1. IsDistrict(district) /\ IsBooks(books)
  BY DEF MonthTypeOK
<1>2. /\ draft' = EnginePass(district, books) /\ undivided' = Visited(district) /\ stage' = "divide"
      /\ moved' = FALSE /\ district' = district /\ books' = books /\ upToDate' = upToDate
  BY DEF Begin
<1>3. RunsStand(district, draft')
  BY <1>1, <1>2, PassSettles
<1>4. OnTheWay(district', draft', Visited(district') \ undivided')
  BY <1>2, <1>3 DEF OnTheWay
<1>5. upToDate => Fresh(district, books) /\ EnginePass(district, books) = books
  BY DEF AgainInv, Fresh
<1>6. QED
  BY <1>2, <1>4, <1>5 DEF AgainInv

\* Each headgate divided stands from then on, unless something is typed.
LEMMA DivideKeepsAgain ==
  ASSUME MonthTypeOK, AgainInv, DivideNext PROVE AgainInv'
<1> DEFINE p == Min(undivided)
           d == district
<1>1. IsDistrict(d) /\ IsBooks(draft) /\ undivided \subseteq Point /\ stage = "divide"
  BY DEF MonthTypeOK, DivideNext
<1>2. p \in undivided /\ p \in Point
  <2>1. undivided # {} /\ IsFiniteSet(undivided) /\ undivided \subseteq Int
    BY <1>1, KeysAssumption, FS_Subset DEF DivideNext
  <2>2. QED
    BY <1>1, <2>1, MinIsIn
<1>3. CASE StopMonth("losses") \/ StopMonth("demand")
  <2>1. stage' = "idle" /\ district' = d /\ books' = books /\ upToDate' = upToDate
    BY <1>3 DEF StopMonth
  <2>2. QED
    BY <2>1 DEF AgainInv
<1>4. CASE /\ ~DemandRefused(d, Needs(draft), p)
           /\ draft' = StoreAllocation(d, draft, p) /\ undivided' = undivided \ {p}
           /\ UNCHANGED <<district, books, stage, moved, upToDate, stopped, strayed, edits>>
  <2>1. /\ district' = d /\ books' = books /\ stage' = stage /\ moved' = moved /\ upToDate' = upToDate
    BY <1>4
  <2>2. upToDate => Fresh(d, books)
    BY DEF AgainInv
  <2> HIDE DEF p
  <2>3. ASSUME ~moved
        PROVE  /\ undivided' \subseteq Visited(d)
               /\ OnTheWay(d, draft', Visited(d) \ undivided')
               /\ upToDate => draft' = books
    <3> DEFINE S == Visited(d) \ undivided
    <3>1. undivided \subseteq Visited(d) /\ OnTheWay(d, draft, S) /\ (upToDate => draft = books)
      BY <1>1, <2>3 DEF AgainInv
    <3>2. S \in SUBSET Point
      BY <1>1 DEF Visited, IsDistrict
    <3>3. Visited(d) \ undivided' = S \cup {p} /\ p \in Visited(d)
      BY <1>2, <1>4, <3>1
    <3> HIDE DEF S, d
    <3>4. /\ OnTheWay(d, draft', S \cup {p})
          /\ StandsWithin(d, draft, p) => draft' = draft
      BY <1>1, <1>2, <1>4, <3>1, <3>2, DividedStands
    <3>5. upToDate => StandsWithin(d, books, p)
      BY <2>2, <3>3 DEF Fresh
    <3>6. upToDate => draft' = books
      BY <3>1, <3>4, <3>5
    <3>7. undivided' \subseteq Visited(d)
      BY <1>4, <3>1
    <3>8. QED
      BY <3>3, <3>4, <3>6, <3>7
  <2>4. QED
    BY <2>1, <2>2, <2>3 DEF AgainInv
<1>5. QED
  BY <1>3, <1>4 DEF DivideNext

\* What is committed is fresh, and the same as before where that was fresh.
LEMMA FinishMonthKeepsAgain ==
  ASSUME MonthTypeOK, AgainInv, FinishMonth
  PROVE  /\ AgainInv'
         /\ upToDate /\ ~moved => books' = books /\ district' = district
<1> DEFINE d == district
<1>1. IsDistrict(d) /\ IsBooks(draft) /\ stage = "divide" /\ undivided = {}
  BY DEF MonthTypeOK, FinishMonth
<1>2. /\ books' = EnginePass(d, draft) /\ district' = Cleaned(d) /\ stage' = "idle" /\ upToDate' = ~moved
  BY DEF FinishMonth, Cleaned
<1>3. ASSUME ~moved PROVE Fresh(district', books')
  <2>1. OnTheWay(d, draft, Visited(d))
    BY <1>1, <1>3 DEF AgainInv
  <2>2. QED
    BY <1>1, <1>2, <2>1, PassIsFresh
<1>4. AgainInv'
  BY <1>2, <1>3 DEF AgainInv
<1>5. ASSUME upToDate, ~moved PROVE books' = books /\ district' = district
  <2>1. Fresh(d, books) /\ draft = books
    BY <1>1, <1>5 DEF AgainInv
  <2>2. QED
    BY <1>2, <2>1 DEF Fresh
<1>6. QED
  BY <1>4, <1>5

\* Whatever is typed, nothing is claimed any more.
LEMMA OfficeKeepsAgain ==
  ASSUME MonthTypeOK, AgainInv, Office PROVE AgainInv'
<1>1. moved' = TRUE /\ upToDate' = FALSE
  BY OfficeTypes DEF MonthTypeOK, OfficeTyped
<1>2. QED
  BY <1>1 DEF AgainInv

\* The second invariant of the month, at every moment.
LEMMA AgainAlways == MonthSpec => [](MonthTypeOK /\ AgainInv)
<1>1. MonthInit => AgainInv
  BY AgainBegins
<1>2. MonthTypeOK /\ AgainInv /\ [MonthNext]_monthVars => AgainInv'
  <2> SUFFICES ASSUME MonthTypeOK, AgainInv, [MonthNext]_monthVars PROVE AgainInv'
    OBVIOUS
  <2>1. CASE UNCHANGED monthVars
    BY <2>1 DEF monthVars, AgainInv
  <2>2. CASE Calculate
    BY <2>2, BeginKeepsAgain, DivideKeepsAgain, FinishMonthKeepsAgain DEF Calculate
  <2>3. CASE Office
    BY <2>3, OfficeKeepsAgain
  <2>4. QED
    BY <2>1, <2>2, <2>3 DEF MonthNext
<1>3. QED
  BY <1>1, <1>2, MonthAlways, PTL DEF MonthSpec

\* A headgate that divides one record by need never gives a use area more than its
\* need over its efficiency.
THEOREM NeverOverNeed == MonthSpec => []WithinNeed
<1>1. MonthTypeOK /\ AgainInv => WithinNeed
  <2> SUFFICES ASSUME MonthTypeOK, AgainInv, upToDate,
                      NEW p \in Visited(district) \cap district.byNeed
               PROVE  LET need == [f \in Free(district, p) |-> Needs(books)[f]]
                      IN Len(district.records[p]) = 1 /\ (\E f \in DOMAIN need : need[f] > 0) =>
                           \A f \in DOMAIN books.share[p] :
                             /\ need[f] > 0
                             /\ books.share[p][f] <= DemandCaps(need, district.efficiency)[f]
    BY DEF WithinNeed
  <2>1. p \in Point /\ IsDistrict(district)
    BY DEF MonthTypeOK, IsDistrict
  <2>2. Within(district, Needs(books), p, books.share[p]) /\ district = Cleaned(district)
    BY DEF AgainInv, Fresh, StandsWithin
  <2>3. Direct(district, p) = district.records[p]
    <3>1. district.records = [q \in Point |-> Direct(district, q)]
      <4> DEFINE r == [q \in Point |-> Direct(district, q)]
      <4>1. district = [x \in DistrictFields |-> district[x]] /\ "records" \in DistrictFields
        BY <2>1 DEF IsDistrict, Has, DistrictFields
      <4>2. district = [district EXCEPT !.records = r]
        BY <2>2 DEF Cleaned
      <4> HIDE DEF r
      <4>3. [district EXCEPT !.records = r].records = r
        BY <4>1
      <4>4. QED
        BY <4>2, <4>3 DEF r
    <3>2. QED
      BY <2>1, <3>1
  <2>4. QED
    BY <2>2, <2>3 DEF Within
<1>2. QED
  BY <1>1, AgainAlways, PTL

\* Figuring a month again from the same records changes no row of it.
THEOREM FiguringAgainChangesNothing == MonthSpec => RerunChangesNothing
<1>1. MonthTypeOK /\ AgainInv /\ [MonthNext]_monthVars
        => [FinishMonth /\ upToDate /\ ~moved => UNCHANGED <<books, district>>]_monthVars
  BY FinishMonthKeepsAgain
<1>2. QED
  BY <1>1, AgainAlways, PTL DEF MonthSpec, RerunChangesNothing

-----------------------------------------------------------------------------
(* The ground's water on the ledger *)

\* A calculated row is of a use area that has a satellite figure.
Seen(d, b) == \A f \in Field : b.calculated[f] # Nothing => d.et[f] # Nothing

\* No use area is both metered and calculated, and a voided one carries nothing.
Once(d, b) ==
  \A f \in Field :
    /\ b.calculated[f] # Nothing =>
         f \notin TypedRows(d) /\ b.wellShare[f] = Nothing /\ HasWell(d, f)
    /\ f \in d.voided => b.run[f] = Nothing /\ b.calculated[f] = Nothing /\ b.wellShare[f] = Nothing

OnceInv ==
  /\ Seen(district, books) /\ Seen(district, draft)
  /\ upToDate => Once(district, books)

\* A pass keeps every calculated row seen, and counts no water twice.
LEMMA PassCountsOnce ==
  ASSUME NEW d, IsDistrict(d), NEW b, IsBooks(b), Seen(d, b)
  PROVE  LET n == EnginePass(d, b)
         IN Seen(d, n) /\ Seen(Cleaned(d), n) /\ Once(Cleaned(d), n)
<1> DEFINE n == EnginePass(d, b)
           c == Cleaned(d)
<1>1. Passed(d, b, n)
  BY PassFields
<1>2. c.et = d.et /\ c.voided = d.voided /\ c.typedMeter = d.typedMeter /\ c.wells = d.wells
  BY CleanedFields
<1> HIDE DEF n, c
<1>3. /\ n.run = [f \in Field |-> Cleared(d, f, IF f \in Figured(d) THEN NewRun(d, b, f) ELSE b.run[f])]
      /\ n.calculated = [f \in Field |-> Cleared(d, f, IF f \in Figured(d) THEN ResidualRow(d, b, f)
                                                       ELSE b.calculated[f])]
      /\ n.wellShare = [f \in Field |-> IF f \in DOMAIN WellMeterShares(d) THEN WellMeterShares(d)[f]
                                        ELSE Nothing]
  BY <1>1 DEF Passed
<1>4. ASSUME NEW f \in Field, n.calculated[f] # Nothing
      PROVE  /\ d.et[f] # Nothing /\ f \notin d.voided
             /\ f \notin TypedRows(d) /\ n.wellShare[f] = Nothing /\ HasWell(d, f)
  <2>1. f \notin d.voided /\ n.calculated[f] = IF f \in Figured(d) THEN ResidualRow(d, b, f) ELSE b.calculated[f]
    BY <1>3, <1>4 DEF Cleared
  <2>2. f \in Figured(d)
    BY <1>4, <2>1 DEF Seen, Figured, Current
  <2>3. Disposition(d, f) = "groundwater"
    BY <1>4, <2>1, <2>2 DEF ResidualRow
  <2>4. f \notin Metered(d) /\ HasWell(d, f)
    BY <2>3 DEF Disposition
  <2>5. f \notin TypedRows(d) /\ f \notin DOMAIN WellMeterShares(d)
    BY <2>4 DEF Metered
  <2>6. n.wellShare[f] = Nothing
    BY <1>3, <2>5
  <2>7. QED
    BY <2>1, <2>2, <2>4, <2>5, <2>6 DEF Figured
<1>5. ASSUME NEW f \in Field, f \in d.voided
      PROVE  n.run[f] = Nothing /\ n.calculated[f] = Nothing /\ n.wellShare[f] = Nothing
  <2>1. f \notin DOMAIN WellMeterShares(d)
    BY <1>5 DEF WellMeterShares, Current
  <2>2. QED
    BY <1>3, <1>5, <2>1 DEF Cleared
<1>6. \A f : TypedRows(c) = TypedRows(d) /\ HasWell(c, f) = HasWell(d, f)
  BY <1>2 DEF TypedRows, HasWell
<1>7. Seen(d, n) /\ Seen(c, n)
  BY <1>2, <1>4 DEF Seen
<1>8. Once(c, n)
  BY <1>2, <1>4, <1>5, <1>6 DEF Once
<1>9. QED
  BY <1>7, <1>8 DEF n, c

\* What a step leaves of the calculated rows, whatever the start.
LEMMA OnceKept ==
  ASSUME MonthTypeOK, OnceInv, [MonthNext]_monthVars PROVE OnceInv'
<1> DEFINE d == district
<1>1. IsDistrict(d) /\ IsBooks(books) /\ IsBooks(draft)
  BY DEF MonthTypeOK
<1>2. CASE UNCHANGED monthVars
  BY <1>2 DEF monthVars, OnceInv
<1>3. CASE Begin
  <2>1. /\ draft' = EnginePass(d, books) /\ district' = d /\ books' = books /\ upToDate' = upToDate
    BY <1>3 DEF Begin
  <2>2. Seen(d, EnginePass(d, books))
    BY <1>1, PassCountsOnce DEF OnceInv
  <2>3. QED
    BY <2>1, <2>2 DEF OnceInv
<1>4. CASE DivideNext
  <2> DEFINE p == Min(undivided)
  <2>1. CASE StopMonth("losses") \/ StopMonth("demand")
    BY <2>1 DEF StopMonth, OnceInv
  <2>2. CASE /\ ~DemandRefused(d, Needs(draft), p)
             /\ draft' = StoreAllocation(d, draft, p)
             /\ UNCHANGED <<district, books, stage, moved, upToDate, stopped, strayed, edits>>
    <3>1. p \in Point
      <4>1. undivided # {} /\ IsFiniteSet(undivided) /\ undivided \subseteq Int /\ undivided \subseteq Point
        BY <1>4, KeysAssumption, FS_Subset DEF DivideNext, MonthTypeOK
      <4>2. QED
        BY <4>1, MinIsIn
    <3> HIDE DEF p
    <3>2. PICK plan, entry : Replaced(d, draft, p, plan, entry, StoreAllocation(d, draft, p))
      BY <1>1, <2>2, <3>1, AllocationIsStored
    <3>3. draft'.calculated = draft.calculated
      BY <2>2, <3>2 DEF Replaced
    <3>4. QED
      BY <2>2, <3>3 DEF OnceInv, Seen
  <2>3. QED
    BY <1>4, <2>1, <2>2 DEF DivideNext
<1>5. CASE FinishMonth
  <2>1. /\ books' = EnginePass(d, draft) /\ district' = Cleaned(d) /\ draft' = books'
    BY <1>5 DEF FinishMonth, Cleaned
  <2>2. Seen(Cleaned(d), EnginePass(d, draft)) /\ Once(Cleaned(d), EnginePass(d, draft))
    BY <1>1, PassCountsOnce DEF OnceInv
  <2>3. QED
    BY <2>1, <2>2 DEF OnceInv
<1>6. CASE Office
  <2>1. upToDate' = FALSE /\ books' = books /\ draft' = draft /\ district'.et = d.et
    BY <1>6, OfficeTypes DEF MonthTypeOK, OfficeTyped
  <2>2. QED
    BY <2>1 DEF OnceInv, Seen
<1>7. QED
  BY <1>2, <1>3, <1>4, <1>5, <1>6 DEF MonthNext, Calculate

\* The books at first have a calculated row only where there is a satellite figure.
SeenAtFirst ==
  \A start \in Districts : Seen(start.district, start.books)

\* No acre-foot of groundwater is counted both as metered and as calculated, and what
\* the wells pumped is on the ledger once (_write_residual_row, _well_meter_shares),
\* where the books at first have no calculated row the satellite's figures are gone of:
\* the engine passes such a use area over, and the row stands.
THEOREM GroundwaterCountedOnce == ASSUME SeenAtFirst PROVE MonthSpec => []GroundwaterOnce
<1>1. MonthInit => OnceInv
  <2> SUFFICES ASSUME MonthInit PROVE OnceInv
    OBVIOUS
  <2>1. Seen(district, books) /\ draft = books /\ upToDate = FALSE
    BY DEF MonthInit, SeenAtFirst
  <2>2. QED
    BY <2>1 DEF OnceInv
<1>2. MonthTypeOK /\ OnceInv /\ [MonthNext]_monthVars => OnceInv'
  BY OnceKept
<1>3. AgainInv /\ OnceInv => GroundwaterOnce
  <2> SUFFICES ASSUME AgainInv, OnceInv PROVE GroundwaterOnce
    OBVIOUS
  <2>1. NeverCountedTwice
    BY DEF OnceInv, Once, NeverCountedTwice
  <2>2. upToDate => PumpedOnce(district, books)
    BY DEF AgainInv, Fresh
  <2>3. PumpedIsCounted
    BY <2>2 DEF PumpedOnce, PumpedIsCounted
  <2>4. QED
    BY <2>1, <2>3 DEF GroundwaterOnce
<1>4. QED
  BY <1>1, <1>2, <1>3, MonthAlways, AgainAlways, PTL DEF MonthSpec
=============================================================================
