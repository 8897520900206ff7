------------------------------ MODULE SiteProofs ------------------------------
(***************************************************************************)
(* What a site's own commands guarantee, for any number of them.            *)
(*                                                                          *)
(* Demonstration, for any number of pages, runs and records: one run at a   *)
(* time, nothing invented beside records the site had, nothing of its own   *)
(* deleted but together with the demonstration, and a record of each run    *)
(* that says what came of it.                                               *)
(*                                                                          *)
(* SiteBackups, for any number of backups, failures and restarts and        *)
(* whatever people save: a half-built database is left alone, and the       *)
(* backups that people are told of are there and hold what was lost.        *)
(***************************************************************************)
EXTENDS Demonstration, SiteBackups, FiniteSetTheorems, SequenceTheorems, TLAPS

-----------------------------------------------------------------------------
(* The demonstration: the inductive invariant *)

State == {"running", "failed", "succeeded"}
RunRecord == [action : Action, state : State, old : BOOLEAN]
WorkerPC == {"look", "lock", "recheck", "loading", "removing", "deleted", "report", "unlock", "gone"}
WorkerRecord ==
  [action : Action, rec : Nat, pc : WorkerPC, before : Nat, doomed : SUBSET Own,
   outcome : {"none", "failed", "succeeded"}, saved : BOOLEAN]
PageRecord ==
  [pc : {"idle", "probe", "probing", "decide"}, want : Action, newest : Nat, running : BOOLEAN]

Types ==
  /\ demo \in BOOLEAN /\ mode \in BOOLEAN /\ name \in {"none", "own", "demo"}
  /\ own \subseteq Own /\ late \subseteq Own
  /\ kept \in 0 .. MaxKept /\ deaths \in 0 .. MaxDeaths
  /\ lock \in Holders
  /\ worker \in Seq(WorkerRecord) /\ Len(worker) <= MaxRuns
  /\ record \in Seq(RunRecord)
  /\ page \in [Page -> PageRecord]

\* A run's record is one of those made, and no two runs have the same.
RecordInv ==
  /\ \A w \in DOMAIN worker : worker[w].rec <= Len(record)
  /\ \A v, w \in DOMAIN worker : v # w /\ worker[v].rec = worker[w].rec => worker[v].rec = 0

\* A page that tries the lock lets go of its own.
LockInv == OneRunAtATime /\ \A p \in Page : page[p].pc = "probing" => lock = p

\* What the second look saw under the lock still stands.
LookedInv ==
  \A w \in DOMAIN worker :
    /\ worker[w].pc = "loading" => own \subseteq late
    /\ worker[w].pc \in {"removing", "deleted"} => IsLoaded

\* A run that is over knows what it did, and only it tells its record.
ToldInv ==
  \A w \in DOMAIN worker :
    /\ worker[w].pc = "report" =>
         worker[w].outcome # "none" /\ worker[w].saved = (worker[w].outcome = "succeeded")
    /\ worker[w].rec # 0 /\ record[worker[w].rec].state # "running" =>
         /\ worker[w].pc \in {"unlock", "gone"}
         /\ worker[w].saved = (record[worker[w].rec].state = "succeeded")

Inv == Types /\ RecordInv /\ LockInv /\ LookedInv /\ ToldInv /\ NeverLoadedOver /\ StampedWhileLoaded

-----------------------------------------------------------------------------
(* What a step of a process leaves *)

\* The process w is now x, and the others are what they were.
Becomes(w, x) ==
  /\ w \in DOMAIN worker /\ worker[w] \in WorkerRecord /\ x \in WorkerRecord
  /\ worker' \in Seq(WorkerRecord) /\ Len(worker') = Len(worker)
  /\ DOMAIN worker' = DOMAIN worker
  /\ worker'[w] = x
  /\ \A v \in DOMAIN worker : v # w => worker'[v] = worker[v]

\* A process started is a process record.
LEMMA WorkerIn == ASSUME Types, NEW w \in DOMAIN worker PROVE worker[w] \in WorkerRecord
BY LenProperties, ElementOfSeq DEF Types

\* Writing one process leaves the others.
LEMMA Replaced ==
  ASSUME Types, NEW w \in DOMAIN worker, NEW x \in WorkerRecord,
         worker' = [worker EXCEPT ![w] = x]
  PROVE  Becomes(w, x)
<1>1. w \in 1 .. Len(worker)
  BY LenProperties DEF Types
<1>2. /\ worker' \in Seq(WorkerRecord) /\ Len(worker') = Len(worker)
      /\ \A v \in 1 .. Len(worker) : worker'[v] = IF v = w THEN x ELSE worker[v]
  BY <1>1, ExceptSeq DEF Types
<1> QED
  BY <1>1, <1>2, LenProperties, WorkerIn DEF Becomes, Types

\* A process goes on to another place.
LEMMA GoesOn ==
  ASSUME Types, NEW w \in DOMAIN worker, NEW pc \in WorkerPC, worker' = [worker EXCEPT ![w].pc = pc]
  PROVE  Becomes(w, [worker[w] EXCEPT !.pc = pc])
<1>1. [worker[w] EXCEPT !.pc = pc] \in WorkerRecord
  BY WorkerIn DEF WorkerRecord
<1> QED
  BY <1>1, Replaced

\* A process has come to an end of its run.
Ended(w, pc, outcome) ==
  [worker[w] EXCEPT !.pc = pc, !.outcome = outcome, !.before = 0, !.doomed = {},
                    !.saved = outcome = "succeeded"]
\* The end of a run is written to its process alone.
LEMMA ComesToAnEnd ==
  ASSUME Types, NEW w \in DOMAIN worker, NEW pc \in WorkerPC,
         NEW outcome \in {"failed", "succeeded"}, worker' = After(w, pc, outcome)
  PROVE  Becomes(w, Ended(w, pc, outcome))
<1>1. Ended(w, pc, outcome) \in WorkerRecord
  <2>1. worker[w] \in WorkerRecord /\ {} \in SUBSET Own /\ 0 \in Nat
        /\ (outcome = "succeeded") \in BOOLEAN
    BY WorkerIn
  <2> QED
    BY <2>1 DEF Ended, WorkerRecord
<1>2. worker' = [worker EXCEPT ![w] = Ended(w, pc, outcome)]
  BY <1>1, WorkerIn DEF After, Ended, WorkerRecord
<1> QED
  BY <1>1, <1>2, Replaced

\* Telling the record of a run changes its state alone.
LEMMA TellsOne ==
  ASSUME Types, RecordInv, NEW w \in DOMAIN worker, NEW state \in State,
         record' = Told(w, state)
  PROVE  /\ record' \in Seq(RunRecord) /\ Len(record') = Len(record)
         /\ \A i \in 1 .. Len(record) :
              record'[i].state = IF i = worker[w].rec THEN state ELSE record[i].state
<1>1. worker[w] \in WorkerRecord /\ worker[w].rec \in Nat
  BY WorkerIn DEF WorkerRecord
<1>2. CASE worker[w].rec = 0
  BY <1>2 DEF Told, Types
<1>3. CASE worker[w].rec # 0
  <2> DEFINE i == worker[w].rec
  <2>1. i \in 1 .. Len(record)
    BY <1>1, <1>3, LenProperties DEF RecordInv, Types
  <2>2. record[i] \in RunRecord
    BY <2>1, ElementOfSeq DEF Types
  <2>3. [record[i] EXCEPT !.state = state] \in RunRecord
    BY <2>2 DEF RunRecord
  <2>4. record' = [record EXCEPT ![i] = [record[i] EXCEPT !.state = state]]
    BY <1>3 DEF Told
  <2> HIDE DEF i
  <2>5. /\ record' \in Seq(RunRecord) /\ Len(record') = Len(record)
        /\ \A j \in 1 .. Len(record) :
             record'[j] = IF j = i THEN [record[i] EXCEPT !.state = state] ELSE record[j]
    BY <2>1, <2>3, <2>4, ExceptSeq DEF Types
  <2> QED
    BY <2>1, <2>2, <2>5 DEF i, RunRecord
<1> QED
  BY <1>2, <1>3

-----------------------------------------------------------------------------
(* The parts of the invariant that a step of one process may disturb *)

InsidePC == {"recheck", "loading", "removing", "deleted", "report", "unlock"}

\* A process is one of those that may be started, and is neither a page nor nobody.
LEMMA WorkerIsWorker ==
  ASSUME Types, NEW w \in DOMAIN worker
  PROVE  w \in Worker /\ w \notin Page /\ w # Nobody
<1>1. w \in 1 .. Len(worker) /\ Len(worker) \in Nat
  BY LenProperties DEF Types
<1> QED
  BY <1>1, ConstantsAssumption DEF Types, Worker

\* Only the holder of the lock is inside, spelled out.
LEMMA InsideMeans ==
  OneRunAtATime <=> \A v \in DOMAIN worker : worker[v].pc \in InsidePC => lock = v
BY DEF OneRunAtATime, Inside, InsidePC

\* The lock is taken while it is free, or given back by its holder, or stays.
LockPasses(w, x) ==
  /\ lock' = lock \/ (lock = Nobody /\ lock' = w) \/ (lock = w /\ lock' = Nobody)
  /\ x.pc \in InsidePC => lock' = w

\* The lock passed on as above leaves one run at a time.
LEMMA LockKeeps ==
  ASSUME Types, LockInv, NEW w \in DOMAIN worker, NEW x, Becomes(w, x), LockPasses(w, x),
         page' = page
  PROVE  LockInv'
<1>1. \A v \in DOMAIN worker : worker[v].pc \in InsidePC => lock = v
  BY InsideMeans DEF LockInv
<1>2. w \notin Page /\ w # Nobody /\ Nobody \notin Page
  BY WorkerIsWorker, ConstantsAssumption
<1>3. \A v \in DOMAIN worker' : worker'[v].pc \in InsidePC => lock' = v
  <2> SUFFICES ASSUME NEW v \in DOMAIN worker', worker'[v].pc \in InsidePC PROVE lock' = v
    OBVIOUS
  <2>1. CASE v = w
    BY <2>1 DEF Becomes, LockPasses
  <2>2. CASE v # w
    <3>1. v \in DOMAIN worker /\ worker[v].pc \in InsidePC
      BY <2>2 DEF Becomes
    <3>2. lock = v /\ v # Nobody
      BY <1>1, <3>1, WorkerIsWorker
    <3> QED
      BY <2>2, <3>2 DEF LockPasses
  <2> QED
    BY <2>1, <2>2
<1>4. OneRunAtATime'
  BY <1>3 DEF OneRunAtATime, Inside, InsidePC
<1>5. \A p \in Page : page'[p].pc = "probing" => lock' = p
  BY <1>2 DEF LockInv, LockPasses
<1> QED
  BY <1>4, <1>5 DEF LockInv

\* A run that is over knows what it did.
KnowsItsEnd(x) ==
  x.pc = "report" => x.outcome # "none" /\ x.saved = (x.outcome = "succeeded")
\* What a record says of the run x.
SaysOf(x, rec) ==
  x.rec # 0 /\ rec[x.rec].state # "running" =>
    x.pc \in {"unlock", "gone"} /\ x.saved = (rec[x.rec].state = "succeeded")

\* A step that tells no record.
LEMMA UntoldKeeps ==
  ASSUME Types, RecordInv, ToldInv, NEW w \in DOMAIN worker, NEW x, Becomes(w, x),
         x.rec = worker[w].rec, KnowsItsEnd(x), SaysOf(x, record), record' = record
  PROVE  RecordInv' /\ ToldInv'
<1>1. \A v \in DOMAIN worker' : worker'[v].rec = worker[v].rec
  BY DEF Becomes
<1>2. RecordInv'
  BY <1>1 DEF Becomes, RecordInv
<1>3. ASSUME NEW v \in DOMAIN worker'
      PROVE  /\ KnowsItsEnd(worker'[v])
             /\ SaysOf(worker'[v], record')
  <2>1. CASE v = w
    BY <2>1 DEF Becomes
  <2>2. CASE v # w
    BY <2>2 DEF Becomes, ToldInv, KnowsItsEnd, SaysOf
  <2> QED
    BY <2>1, <2>2
<1>4. ToldInv'
  BY <1>3 DEF ToldInv, KnowsItsEnd, SaysOf
<1> QED
  BY <1>2, <1>4

\* A step that tells the run's own record, if it has one.
LEMMA TellingKeeps ==
  ASSUME Types, RecordInv, ToldInv, NEW w \in DOMAIN worker, NEW x, Becomes(w, x),
         x.rec = worker[w].rec, NEW state \in {"failed", "succeeded"},
         x.pc \in {"unlock", "gone"}, x.saved = (state = "succeeded"), record' = Told(w, state)
  PROVE  record' \in Seq(RunRecord) /\ RecordInv' /\ ToldInv'
<1>1. /\ record' \in Seq(RunRecord) /\ Len(record') = Len(record)
      /\ \A i \in 1 .. Len(record) :
           record'[i].state = IF i = worker[w].rec THEN state ELSE record[i].state
  BY TellsOne DEF State
<1>2. \A v \in DOMAIN worker' : worker'[v].rec = worker[v].rec
  BY DEF Becomes
<1>3. RecordInv'
  BY <1>1, <1>2 DEF Becomes, RecordInv
<1>4. ASSUME NEW v \in DOMAIN worker'
      PROVE  /\ KnowsItsEnd(worker'[v])
             /\ SaysOf(worker'[v], record')
  <2>1. CASE v = w
    <3>1. worker[w].rec # 0 => worker[w].rec \in 1 .. Len(record)
      <4>1. worker[w].rec \in Nat /\ Len(record) \in Nat
        BY WorkerIn, LenProperties DEF WorkerRecord, Types
      <4> QED
        BY <4>1 DEF RecordInv
    <3>2. worker[w].rec # 0 => record'[worker[w].rec].state = state
      BY <1>1, <3>1
    <3> QED
      BY <2>1, <3>2 DEF Becomes, KnowsItsEnd, SaysOf
  <2>2. CASE v # w
    <3>1. worker[v].rec # 0 => worker[v].rec \in 1 .. Len(record) /\ worker[v].rec # worker[w].rec
      <4>1. v \in DOMAIN worker
        BY DEF Becomes
      <4>2. worker[v].rec \in Nat /\ Len(record) \in Nat
        BY <4>1, WorkerIn, LenProperties DEF WorkerRecord, Types
      <4> QED
        BY <4>1, <4>2, <2>2 DEF RecordInv
    <3>2. worker[v].rec # 0 => record'[worker[v].rec].state = record[worker[v].rec].state
      BY <1>1, <3>1
    <3> QED
      BY <2>2, <3>2 DEF Becomes, ToldInv, KnowsItsEnd, SaysOf
  <2> QED
    BY <2>1, <2>2
<1>5. ToldInv'
  BY <1>4 DEF ToldInv, KnowsItsEnd, SaysOf
<1> QED
  BY <1>1, <1>3, <1>5

\* What the second look saw of the site stands for the others, the holder of the
\* lock being alone.
LookedAt(x, o, l, loaded) ==
  /\ x.pc = "loading" => o \subseteq l
  /\ x.pc \in {"removing", "deleted"} => loaded
\* What the second look saw stands.
LEMMA LookedKeeps ==
  ASSUME Types, LookedInv, NEW w \in DOMAIN worker, NEW x, Becomes(w, x),
         LookedAt(x, own', late', IsLoaded'),
         \/ UNCHANGED <<content, late>>
         \/ LockInv /\ lock = w
  PROVE  LookedInv'
<1>1. ASSUME NEW v \in DOMAIN worker' PROVE LookedAt(worker'[v], own', late', IsLoaded')
  <2>1. CASE v = w
    BY <2>1 DEF Becomes
  <2>2. CASE v # w
    <3>1. v \in DOMAIN worker /\ worker'[v] = worker[v]
      BY <2>2 DEF Becomes
    <3>2. CASE UNCHANGED <<content, late>>
      BY <3>1, <3>2 DEF LookedInv, LookedAt, IsLoaded, content
    <3>3. CASE LockInv /\ lock = w
      <4>1. worker[v].pc \notin InsidePC
        BY <2>2, <3>1, <3>3, InsideMeans DEF LockInv
      <4> QED
        BY <3>1, <4>1 DEF LookedAt, InsidePC
    <3> QED
      BY <3>2, <3>3
  <2> QED
    BY <2>1, <2>2
<1> QED
  BY <1>1 DEF LookedInv, LookedAt

-----------------------------------------------------------------------------
(* Each step of a process keeps the invariant *)

\* A step of one process that changes neither a record nor what is on file.
LEMMA QuietKeeps ==
  ASSUME Inv, NEW w \in DOMAIN worker, NEW x, Becomes(w, x), x.rec = worker[w].rec,
         KnowsItsEnd(x), SaysOf(x, record), LockPasses(w, x), LookedAt(x, own, late, IsLoaded),
         deaths' \in 0 .. MaxDeaths,
         UNCHANGED <<content, kept, record, page, late>>
  PROVE  Inv'
<1>1. lock' \in Holders
  BY WorkerIsWorker DEF LockPasses, Inv, Types, Holders
<1>2. Types'
  BY <1>1 DEF Inv, Types, Becomes, content
<1>3. RecordInv' /\ ToldInv'
  BY UntoldKeeps DEF Inv
<1>4. LockInv'
  BY LockKeeps DEF Inv
<1>5. LookedInv'
  BY LookedKeeps DEF Inv, IsLoaded, content
<1>6. NeverLoadedOver' /\ StampedWhileLoaded'
  BY DEF Inv, NeverLoadedOver, StampedWhileLoaded, content
<1> QED
  BY <1>2, <1>3, <1>4, <1>5, <1>6 DEF Inv

\* A process that gives up in front of its transaction.
LEMMA FailsKeeps ==
  ASSUME Inv, NEW w \in DOMAIN worker, worker[w].pc \in InsidePC \ {"report", "unlock"}, Fails(w),
         UNCHANGED <<content, kept, lock, record, page, late, deaths>>
  PROVE  Inv'
<1> DEFINE x == Ended(w, "report", "failed")
<1>1. Becomes(w, x)
  BY ComesToAnEnd DEF Inv, Fails, WorkerPC
<1>2. /\ x.pc = "report" /\ x.outcome = "failed" /\ x.saved = FALSE /\ x.rec = worker[w].rec
  BY WorkerIn DEF Ended, WorkerRecord, Inv
<1>3. KnowsItsEnd(x) /\ LookedAt(x, own, late, IsLoaded)
  BY <1>2 DEF KnowsItsEnd, LookedAt
<1>4. SaysOf(x, record)
  BY <1>2 DEF SaysOf, Inv, ToldInv, InsidePC
<1>5. LockPasses(w, x)
  BY InsideMeans DEF LockPasses, Inv, LockInv
<1> HIDE DEF x
<1> QED
  BY <1>1, <1>2, <1>3, <1>4, <1>5, QuietKeeps DEF Inv, Types

\* A process that goes on, with what it has seen.
LEMMA GoingKeeps ==
  ASSUME Inv, NEW w \in DOMAIN worker, NEW x, Becomes(w, x), x.rec = worker[w].rec,
         x.saved = worker[w].saved, x.pc \notin {"report"},
         worker[w].pc \in {"unlock", "gone"} => x.pc \in {"unlock", "gone"},
         LockPasses(w, x), LookedAt(x, own, late, IsLoaded), deaths' \in 0 .. MaxDeaths,
         UNCHANGED <<content, kept, record, page, late>>
  PROVE  Inv'
<1>1. KnowsItsEnd(x)
  BY DEF KnowsItsEnd
<1>2. SaysOf(x, record)
  BY DEF SaysOf, Inv, ToldInv
<1> QED
  BY <1>1, <1>2, QuietKeeps

\* Turned away at the first look, a run is told to have failed.
LEMMA FirstLookKeeps == ASSUME Inv, NEW w \in Worker, FirstLook(w) PROVE Inv'
<1>1. w \in DOMAIN worker /\ worker[w].pc = "look" /\ worker[w] \in WorkerRecord
  BY WorkerIn DEF FirstLook, At, Inv
<1>2. CASE Allowed(worker[w].action)
  <2> DEFINE x == [worker[w] EXCEPT !.pc = "lock"]
  <2>1. Becomes(w, x)
    BY <1>1, <1>2, GoesOn DEF FirstLook, Inv, WorkerPC
  <2>2. x.pc = "lock" /\ x.rec = worker[w].rec /\ x.saved = worker[w].saved
    BY <1>1 DEF WorkerRecord
  <2> HIDE DEF x
  <2>3. LockPasses(w, x) /\ LookedAt(x, own, late, IsLoaded)
    BY <2>2 DEF FirstLook, LockPasses, InsidePC, LookedAt
  <2> QED
    BY <1>1, <1>2, <2>1, <2>2, <2>3, GoingKeeps DEF FirstLook, Inv, Types
<1>3. CASE ~Allowed(worker[w].action)
  <2> DEFINE x == Ended(w, "gone", "failed")
  <2>1. Becomes(w, x)
    BY <1>1, <1>3, ComesToAnEnd DEF FirstLook, Inv, WorkerPC
  <2>2. x.pc = "gone" /\ x.rec = worker[w].rec /\ x.saved = FALSE
    BY <1>1 DEF Ended, WorkerRecord
  <2> HIDE DEF x
  <2>3. record' \in Seq(RunRecord) /\ RecordInv' /\ ToldInv'
    BY <1>1, <1>3, <2>1, <2>2, TellingKeeps DEF FirstLook, Inv
  <2>4. LockPasses(w, x) /\ LookedAt(x, own', late', IsLoaded')
    BY <2>2 DEF FirstLook, LockPasses, InsidePC, LookedAt
  <2>5. LockInv'
    BY <1>1, <2>1, <2>4, LockKeeps DEF FirstLook, Inv
  <2>6. LookedInv'
    BY <1>1, <2>1, <2>4, LookedKeeps DEF FirstLook, Inv
  <2>7. Types'
    BY <2>1, <2>3 DEF FirstLook, Inv, Types, Becomes, content
  <2>8. NeverLoadedOver' /\ StampedWhileLoaded'
    BY DEF FirstLook, Inv, NeverLoadedOver, StampedWhileLoaded, content
  <2> QED
    BY <2>3, <2>5, <2>6, <2>7, <2>8 DEF Inv
<1> QED
  BY <1>2, <1>3

\* The lock is taken while it is free; a run from the server makes its record then.
LEMMA TryLockKeeps == ASSUME Inv, NEW w \in Worker, TryLock(w) PROVE Inv'
<1>1. w \in DOMAIN worker /\ worker[w].pc = "lock" /\ worker[w] \in WorkerRecord
  BY WorkerIn DEF TryLock, At, Inv
<1>2. CASE lock # Nobody
  <2> DEFINE x == [worker[w] EXCEPT !.pc = "gone"]
  <2>1. Becomes(w, x)
    BY <1>1, <1>2, GoesOn DEF TryLock, Inv, WorkerPC
  <2>2. x.pc = "gone" /\ x.rec = worker[w].rec /\ x.saved = worker[w].saved
    BY <1>1 DEF WorkerRecord
  <2> HIDE DEF x
  <2>3. LockPasses(w, x) /\ LookedAt(x, own, late, IsLoaded)
    BY <1>2, <2>2 DEF TryLock, LockPasses, InsidePC, LookedAt
  <2> QED
    BY <1>1, <1>2, <2>1, <2>2, <2>3, GoingKeeps DEF TryLock, Inv, Types
<1>3. CASE lock = Nobody /\ worker[w].rec # 0
  <2> DEFINE x == [worker[w] EXCEPT !.pc = "recheck"]
  <2>1. Becomes(w, x)
    BY <1>1, <1>3, GoesOn DEF TryLock, Inv, WorkerPC
  <2>2. x.pc = "recheck" /\ x.rec = worker[w].rec /\ x.saved = worker[w].saved
    BY <1>1 DEF WorkerRecord
  <2> HIDE DEF x
  <2>3. LockPasses(w, x) /\ LookedAt(x, own, late, IsLoaded)
    BY <1>3, <2>2 DEF TryLock, LockPasses, InsidePC, LookedAt
  <2> QED
    BY <1>1, <1>3, <2>1, <2>2, <2>3, GoingKeeps DEF TryLock, Inv, Types
<1>4. CASE lock = Nobody /\ worker[w].rec = 0
  <2> DEFINE x == [worker[w] EXCEPT !.pc = "recheck", !.rec = Len(record) + 1]
             new == NewRecord(worker[w].action)
  <2>0. record \in Seq(RunRecord) /\ Len(record) \in Nat /\ new \in RunRecord
    BY <1>1, LenProperties DEF Inv, Types, NewRecord, RunRecord, State, WorkerRecord
  <2>1. Becomes(w, x)
    <3>0. Len(record) + 1 \in Nat
      BY <2>0
    <3> HIDE DEF new
    <3>1. x \in WorkerRecord
      BY <1>1, <3>0 DEF WorkerRecord, WorkerPC
    <3>2. worker' = [worker EXCEPT ![w] = x]
      BY <1>1, <1>4 DEF TryLock, WorkerRecord
    <3> QED
      BY <1>1, <3>1, <3>2, Replaced DEF Inv
  <2>2. x.pc = "recheck" /\ x.rec = Len(record) + 1
    BY <1>1 DEF WorkerRecord
  <2> HIDE DEF x
  <2>3. /\ record' \in Seq(RunRecord) /\ Len(record') = Len(record) + 1
        /\ record'[Len(record) + 1] = new
        /\ \A i \in 1 .. Len(record) : record'[i] = record[i]
    <3>1. record' = Append(record, new)
      BY <1>4 DEF TryLock
    <3> HIDE DEF new
    <3> QED
      BY <2>0, <3>1, AppendProperties
  <2>4. LockPasses(w, x) /\ LookedAt(x, own', late', IsLoaded')
    BY <1>4, <2>2 DEF TryLock, LockPasses, LookedAt
  <2>5. LockInv'
    BY <1>1, <2>1, <2>4, LockKeeps DEF TryLock, Inv
  <2>6. LookedInv'
    BY <1>1, <2>1, <2>4, LookedKeeps DEF TryLock, Inv
  <2>7. Types'
    BY <1>1, <1>4, <2>1, <2>3, WorkerIsWorker DEF TryLock, Inv, Types, Becomes, content, Holders
  <2>8. \A v \in DOMAIN worker : worker[v].rec \in Nat /\ worker[v].rec <= Len(record)
    BY WorkerIn DEF Inv, RecordInv, WorkerRecord
  <2>9. RecordInv'
    <3>1. /\ worker'[w].rec = Len(record) + 1 /\ DOMAIN worker' = DOMAIN worker
          /\ \A v \in DOMAIN worker : v # w => worker'[v].rec = worker[v].rec
      BY <2>1, <2>2 DEF Becomes
    <3>2. \A v \in DOMAIN worker' : worker'[v].rec <= Len(record')
      BY <2>0, <2>3, <2>8, <3>1
    <3>3. \A u, v \in DOMAIN worker' : u # v /\ worker'[u].rec = worker'[v].rec => worker'[u].rec = 0
      BY <2>0, <2>8, <3>1 DEF Inv, RecordInv
    <3> QED
      BY <3>2, <3>3 DEF RecordInv
  <2>10. ASSUME NEW v \in DOMAIN worker' PROVE KnowsItsEnd(worker'[v]) /\ SaysOf(worker'[v], record')
    <3>1. CASE v = w
      BY <2>1, <2>2, <2>3, <3>1 DEF Becomes, KnowsItsEnd, SaysOf, NewRecord
    <3>2. CASE v # w
      <4>1. v \in DOMAIN worker /\ worker'[v] = worker[v]
        BY <2>1, <3>2 DEF Becomes
      <4>2. worker[v].rec # 0 => record'[worker[v].rec] = record[worker[v].rec]
        BY <2>0, <2>3, <2>8, <4>1
      <4> QED
        BY <4>1, <4>2 DEF Inv, ToldInv, KnowsItsEnd, SaysOf
    <3> QED
      BY <3>1, <3>2
  <2>11. ToldInv'
    BY <2>10 DEF ToldInv, KnowsItsEnd, SaysOf
  <2>12. NeverLoadedOver' /\ StampedWhileLoaded'
    BY DEF TryLock, Inv, NeverLoadedOver, StampedWhileLoaded, content
  <2> QED
    BY <2>5, <2>6, <2>7, <2>9, <2>11, <2>12 DEF Inv
<1> QED
  BY <1>2, <1>3, <1>4

\* A load that begins finds nothing, so no record of the site is older than it.
LEMMA BeginLoadKeeps == ASSUME Inv, NEW w \in Worker, BeginLoad(w) PROVE Inv'
<1>1. w \in DOMAIN worker /\ worker[w].pc = "recheck" /\ worker[w] \in WorkerRecord /\ lock = w
  BY WorkerIn, InsideMeans DEF BeginLoad, At, Inv, LockInv, InsidePC
<1>2. CASE HasContent
  BY <1>1, <1>2, FailsKeeps DEF BeginLoad, InsidePC
<1>3. CASE ~HasContent
  <2> DEFINE x == [worker[w] EXCEPT !.pc = "loading"]
  <2>1. Becomes(w, x)
    BY <1>1, <1>3, GoesOn DEF BeginLoad, Inv, WorkerPC
  <2>2. x.pc = "loading" /\ x.rec = worker[w].rec /\ x.saved = worker[w].saved
    BY <1>1 DEF WorkerRecord
  <2> HIDE DEF x
  <2>3. LockPasses(w, x) /\ LookedAt(x, own', late', IsLoaded')
    BY <1>1, <1>3, <2>2 DEF BeginLoad, LockPasses, LookedAt, HasContent, content
  <2>4. KnowsItsEnd(x) /\ SaysOf(x, record)
    BY <1>1, <2>2 DEF KnowsItsEnd, SaysOf, Inv, ToldInv
  <2>5. RecordInv' /\ ToldInv'
    BY <1>1, <2>1, <2>2, <2>4, UntoldKeeps DEF BeginLoad, Inv
  <2>6. LockInv'
    BY <1>1, <2>1, <2>3, LockKeeps DEF BeginLoad, Inv
  <2>7. LookedInv'
    BY <1>1, <2>1, <2>3, LookedKeeps DEF BeginLoad, Inv
  <2>8. Types'
    BY <1>3, <2>1 DEF BeginLoad, Inv, Types, Becomes, content
  <2>9. NeverLoadedOver' /\ StampedWhileLoaded'
    BY <1>3 DEF BeginLoad, Inv, NeverLoadedOver, StampedWhileLoaded, HasContent, content
  <2> QED
    BY <2>5, <2>6, <2>7, <2>8, <2>9 DEF Inv
<1> QED
  BY <1>2, <1>3

\* A load that fails saves nothing.
LEMMA LoadFailsKeeps == ASSUME Inv, NEW w \in Worker, LoadFails(w) PROVE Inv'
BY FailsKeeps DEF LoadFails, At, InsidePC

\* What a load or a removal commits.
LEMMA CommitKeeps ==
  ASSUME Inv, NEW w \in DOMAIN worker, worker[w].pc \in {"loading", "deleted"},
         worker' = After(w, "report", "succeeded"),
         UNCHANGED <<kept, lock, record, page, late, deaths>>,
         demo' \in BOOLEAN, mode' \in BOOLEAN, name' \in {"none", "own", "demo"}, own' \subseteq own,
         NeverLoadedOver', StampedWhileLoaded'
  PROVE  Inv'
<1> DEFINE x == Ended(w, "report", "succeeded")
<1>1. Becomes(w, x)
  BY ComesToAnEnd DEF Inv, WorkerPC
<1>2. x.pc = "report" /\ x.outcome = "succeeded" /\ x.saved = TRUE /\ x.rec = worker[w].rec
  BY WorkerIn DEF Ended, WorkerRecord, Inv
<1>3. lock = w
  BY InsideMeans DEF Inv, LockInv, InsidePC
<1> HIDE DEF x
<1>4. LockPasses(w, x) /\ LookedAt(x, own', late', IsLoaded')
  BY <1>2, <1>3 DEF LockPasses, LookedAt
<1>5. KnowsItsEnd(x) /\ SaysOf(x, record)
  BY <1>2 DEF KnowsItsEnd, SaysOf, Inv, ToldInv
<1>6. RecordInv' /\ ToldInv'
  BY <1>1, <1>2, <1>5, UntoldKeeps DEF Inv
<1>7. LockInv'
  BY <1>1, <1>4, LockKeeps DEF Inv
<1>8. LookedInv'
  BY <1>1, <1>3, <1>4, LookedKeeps DEF Inv
<1>9. Types'
  BY <1>1 DEF Inv, Types, Becomes
<1> QED
  BY <1>6, <1>7, <1>8, <1>9 DEF Inv

\* A load that ends stamps the site it has filled.
LEMMA LoadKeeps == ASSUME Inv, NEW w \in Worker, Load(w) PROVE Inv'
<1>1. w \in DOMAIN worker /\ worker[w].pc = "loading" /\ own \subseteq late
  BY DEF Load, At, Inv, LookedInv
<1>2. name' \in {"none", "own", "demo"} /\ NeverLoadedOver' /\ StampedWhileLoaded'
  BY <1>1 DEF Load, Inv, Types, NeverLoadedOver, StampedWhileLoaded, NameOwned
<1> QED
  BY <1>1, <1>2, CommitKeeps DEF Load

\* A removal that begins finds the demonstration.
LEMMA BeginRemovalKeeps == ASSUME Inv, NEW w \in Worker, BeginRemoval(w) PROVE Inv'
<1>1. w \in DOMAIN worker /\ worker[w].pc = "recheck" /\ worker[w] \in WorkerRecord /\ lock = w
  BY WorkerIn, InsideMeans DEF BeginRemoval, At, Inv, LockInv, InsidePC
<1>2. CASE ~IsLoaded
  BY <1>1, <1>2, FailsKeeps DEF BeginRemoval, InsidePC
<1>3. CASE IsLoaded
  <2> DEFINE x == [worker[w] EXCEPT !.pc = "removing", !.before = KeptCount]
  <2>1. Becomes(w, x)
    <3>1. KeptCount \in Nat
      BY LenProperties, ConstantsAssumption DEF KeptCount, Inv, Types
    <3>2. x \in WorkerRecord
      BY <1>1, <3>1 DEF WorkerRecord, WorkerPC
    <3>3. worker' = [worker EXCEPT ![w] = x]
      BY <1>1, <1>3 DEF BeginRemoval, WorkerRecord
    <3> QED
      BY <1>1, <3>2, <3>3, Replaced DEF Inv
  <2>2. x.pc = "removing" /\ x.rec = worker[w].rec /\ x.saved = worker[w].saved
    BY <1>1 DEF WorkerRecord
  <2> HIDE DEF x
  <2>3. LockPasses(w, x) /\ LookedAt(x, own, late, IsLoaded)
    BY <1>1, <1>3, <2>2 DEF BeginRemoval, LockPasses, LookedAt
  <2> QED
    BY <1>1, <2>1, <2>2, <2>3, GoingKeeps DEF BeginRemoval, Inv, Types
<1> QED
  BY <1>2, <1>3

\* What a removal deletes is still undone until it is committed.
LEMMA DeleteKeeps == ASSUME Inv, NEW w \in Worker, Delete(w) PROVE Inv'
<1>1. /\ w \in DOMAIN worker /\ worker[w].pc = "removing" /\ worker[w] \in WorkerRecord /\ lock = w
      /\ IsLoaded
  BY WorkerIn, InsideMeans DEF Delete, At, Inv, LockInv, InsidePC, LookedInv
<1> DEFINE x == [worker[w] EXCEPT !.pc = "deleted", !.doomed = own]
<1>2. Becomes(w, x)
  <2>1. x \in WorkerRecord
    BY <1>1 DEF WorkerRecord, WorkerPC, Inv, Types
  <2>2. worker' = [worker EXCEPT ![w] = x]
    BY <1>1 DEF Delete, WorkerRecord
  <2> QED
    BY <1>1, <2>1, <2>2, Replaced DEF Inv
<1>3. x.pc = "deleted" /\ x.rec = worker[w].rec /\ x.saved = worker[w].saved
  BY <1>1 DEF WorkerRecord
<1> HIDE DEF x
<1>4. LockPasses(w, x) /\ LookedAt(x, own, late, IsLoaded)
  BY <1>1, <1>3 DEF Delete, LockPasses, LookedAt
<1> QED
  BY <1>1, <1>2, <1>3, <1>4, GoingKeeps DEF Delete, Inv, Types

\* A removal that is committed leaves no demonstration and no stamp.
LEMMA RemoveKeeps == ASSUME Inv, NEW w \in Worker, Remove(w) PROVE Inv'
<1>1. w \in DOMAIN worker /\ worker[w].pc = "deleted" /\ IsLoaded
  BY DEF Remove, At, Inv, LookedInv
<1>2. CASE own \ worker[w].doomed # {} \/ KeptCount # worker[w].before
  BY <1>1, <1>2, FailsKeeps DEF Remove, InsidePC
<1>3. CASE ~(own \ worker[w].doomed # {} \/ KeptCount # worker[w].before)
  <2>1. /\ demo' = FALSE /\ mode' = FALSE /\ own' \subseteq own
        /\ name' = IF name = "demo" THEN "none" ELSE name
        /\ worker' = After(w, "report", "succeeded")
        /\ UNCHANGED <<kept, lock, record, page, late, deaths>>
    BY <1>3 DEF Remove, ModeRemoved
  <2>2. name' \in {"none", "own", "demo"} /\ NeverLoadedOver' /\ StampedWhileLoaded'
    BY <2>1 DEF Inv, Types, NeverLoadedOver, StampedWhileLoaded
  <2> QED
    BY <1>1, <2>1, <2>2, CommitKeeps
<1> QED
  BY <1>2, <1>3

\* A run tells what it did before it lets the lock go.
LEMMA ReportKeeps == ASSUME Inv, NEW w \in Worker, Report(w) PROVE Inv'
<1>1. /\ w \in DOMAIN worker /\ worker[w].pc = "report" /\ worker[w] \in WorkerRecord /\ lock = w
      /\ worker[w].outcome \in {"failed", "succeeded"}
      /\ worker[w].saved = (worker[w].outcome = "succeeded")
  BY WorkerIn, InsideMeans DEF Report, At, Inv, LockInv, InsidePC, ToldInv, WorkerRecord
<1> DEFINE x == [worker[w] EXCEPT !.pc = "unlock"]
<1>2. Becomes(w, x)
  BY <1>1, GoesOn DEF Report, Inv, WorkerPC
<1>3. x.pc = "unlock" /\ x.rec = worker[w].rec /\ x.saved = worker[w].saved
  BY <1>1 DEF WorkerRecord
<1> HIDE DEF x
<1>4. record' \in Seq(RunRecord) /\ RecordInv' /\ ToldInv'
  BY <1>1, <1>2, <1>3, TellingKeeps DEF Report, Inv
<1>5. LockPasses(w, x) /\ LookedAt(x, own', late', IsLoaded')
  BY <1>1, <1>3 DEF Report, LockPasses, LookedAt
<1>6. LockInv'
  BY <1>1, <1>2, <1>5, LockKeeps DEF Report, Inv
<1>7. LookedInv'
  BY <1>1, <1>2, <1>5, LookedKeeps DEF Report, Inv
<1>8. Types'
  BY <1>2, <1>4 DEF Report, Inv, Types, Becomes, content
<1>9. NeverLoadedOver' /\ StampedWhileLoaded'
  BY DEF Report, Inv, NeverLoadedOver, StampedWhileLoaded, content
<1> QED
  BY <1>4, <1>6, <1>7, <1>8, <1>9 DEF Inv

\* A run lets go of its own lock.
LEMMA UnlockKeeps == ASSUME Inv, NEW w \in Worker, Unlock(w) PROVE Inv'
<1>1. w \in DOMAIN worker /\ worker[w].pc = "unlock" /\ worker[w] \in WorkerRecord /\ lock = w
  BY WorkerIn, InsideMeans DEF Unlock, At, Inv, LockInv, InsidePC
<1> DEFINE x == [worker[w] EXCEPT !.pc = "gone"]
<1>2. Becomes(w, x)
  BY <1>1, GoesOn DEF Unlock, Inv, WorkerPC
<1>3. x.pc = "gone" /\ x.rec = worker[w].rec /\ x.saved = worker[w].saved
  BY <1>1 DEF WorkerRecord
<1> HIDE DEF x
<1>4. LockPasses(w, x) /\ LookedAt(x, own, late, IsLoaded)
  BY <1>1, <1>3 DEF Unlock, LockPasses, LookedAt, InsidePC
<1> QED
  BY <1>1, <1>2, <1>3, <1>4, GoingKeeps DEF Unlock, Inv, Types

\* A process that dies leaves its record as it was and the lock free.
LEMMA DieKeeps == ASSUME Inv, NEW w \in Worker, Die(w) PROVE Inv'
<1>1. w \in DOMAIN worker /\ worker[w] \in WorkerRecord
  BY WorkerIn DEF Die, Inv
<1> DEFINE x == [worker[w] EXCEPT !.pc = "gone", !.before = 0, !.doomed = {}]
<1>2. Becomes(w, x)
  <2>1. x \in WorkerRecord
    BY <1>1 DEF WorkerRecord, WorkerPC
  <2>2. worker' = [worker EXCEPT ![w] = x]
    BY <1>1 DEF Die, WorkerRecord
  <2> QED
    BY <1>1, <2>1, <2>2, Replaced DEF Inv
<1>3. x.pc = "gone" /\ x.rec = worker[w].rec /\ x.saved = worker[w].saved
  BY <1>1 DEF WorkerRecord
<1> HIDE DEF x
<1>4. LockPasses(w, x) /\ LookedAt(x, own, late, IsLoaded)
  BY <1>1, <1>3 DEF Die, LockPasses, LookedAt, InsidePC
<1>5. deaths' \in 0 .. MaxDeaths
  BY ConstantsAssumption DEF Die, Inv, Types
<1> QED
  BY <1>1, <1>2, <1>3, <1>4, <1>5, GoingKeeps DEF Die

-----------------------------------------------------------------------------
(* Each step of a page, of people and of the clock keeps the invariant *)

\* What no process does leaves what is known of the runs as it was.
LEMMA RunsStand ==
  ASSUME Inv, UNCHANGED <<worker, record>>
  PROVE  RecordInv' /\ ToldInv'
BY DEF Inv, RecordInv, ToldInv

\* A page that looks holds nothing.
LEMMA LookKeeps == ASSUME Inv, NEW p \in Page, NEW want \in Action, Look(p, want) PROVE Inv'
<1>1. Len(record) \in Nat
  BY LenProperties DEF Inv, Types
<1>2. page' \in [Page -> PageRecord] /\ page'[p].pc = "probe" /\ \A q \in Page : q # p => page'[q] = page[q]
  BY <1>1 DEF Look, Inv, Types, PageRecord
<1>3. Types'
  BY <1>2 DEF Look, Inv, Types, content
<1>4. LockInv'
  BY <1>2 DEF Look, Inv, LockInv, OneRunAtATime, Inside
<1>5. LookedInv' /\ NeverLoadedOver' /\ StampedWhileLoaded'
  BY DEF Look, Inv, LookedInv, NeverLoadedOver, StampedWhileLoaded, IsLoaded, content
<1> QED
  BY <1>3, <1>4, <1>5, RunsStand DEF Look, Inv

\* A page that tries the lock holds it or goes back.
LEMMA ProbeKeeps == ASSUME Inv, NEW p \in Page, Probe(p) PROVE Inv'
<1>1. /\ page' \in [Page -> PageRecord] /\ lock' \in Holders
      /\ \A q \in Page : q # p => page'[q] = page[q]
      /\ page'[p].pc = "probing" => lock' = p
      /\ lock' = lock \/ lock = Nobody
  <2>1. PageIdle \in PageRecord /\ PageIdle.pc = "idle"
    BY DEF PageRecord, PageIdle, Action
  <2>2. [page[p] EXCEPT !.pc = "probing"] \in PageRecord
    BY DEF Inv, Types, PageRecord
  <2>3. CASE lock = Nobody
    BY <2>2, <2>3 DEF Probe, Inv, Types, Holders
  <2>4. CASE lock # Nobody
    BY <2>1, <2>4 DEF Probe, Inv, Types, Holders
  <2> QED
    BY <2>3, <2>4
<1>2. Types'
  BY <1>1 DEF Probe, Inv, Types, content
<1>3. Nobody \notin Page /\ \A v \in DOMAIN worker : v # Nobody
  BY WorkerIsWorker, ConstantsAssumption DEF Inv
<1>4. LockInv'
  BY <1>1, <1>3 DEF Probe, Inv, LockInv, OneRunAtATime, Inside
<1>5. LookedInv' /\ NeverLoadedOver' /\ StampedWhileLoaded'
  BY DEF Probe, Inv, LookedInv, NeverLoadedOver, StampedWhileLoaded, IsLoaded, content
<1> QED
  BY <1>2, <1>4, <1>5, RunsStand DEF Probe, Inv

\* A page lets go of its own lock.
LEMMA LetGoKeeps == ASSUME Inv, NEW p \in Page, LetGo(p) PROVE Inv'
<1>1. /\ page' \in [Page -> PageRecord] /\ lock = p /\ lock' = Nobody
      /\ page'[p].pc = "decide" /\ \A q \in Page : q # p => page'[q] = page[q]
  BY DEF LetGo, Inv, Types, PageRecord, LockInv
<1>2. Types'
  BY <1>1 DEF LetGo, Inv, Types, content, Holders
<1>3. \A v \in DOMAIN worker : v # p
  BY WorkerIsWorker DEF Inv
<1>4. LockInv'
  BY <1>1, <1>3 DEF LetGo, Inv, LockInv, OneRunAtATime, Inside
<1>5. LookedInv' /\ NeverLoadedOver' /\ StampedWhileLoaded'
  BY DEF LetGo, Inv, LookedInv, NeverLoadedOver, StampedWhileLoaded, IsLoaded, content
<1> QED
  BY <1>2, <1>4, <1>5, RunsStand DEF LetGo, Inv

\* A process that is started looks first, and knows of nothing yet.
LEMMA StartKeeps ==
  ASSUME Inv, NEW action \in Action, NEW rec \in Nat,
         Len(worker) < MaxRuns, worker' = Append(worker, NewWorker(action, rec)),
         \/ rec = 0 /\ record' = record
         \/ rec = Len(record) + 1 /\ record' = Append(record, NewRecord(action)),
         page' \in [Page -> PageRecord], \A p \in Page : page'[p].pc = "probing" => page[p].pc = "probing",
         UNCHANGED <<content, kept, lock, late, deaths>>
  PROVE  Inv'
<1> DEFINE n == Len(worker)
           x == NewWorker(action, rec)
<1>1. n \in Nat /\ Len(record) \in Nat /\ DOMAIN worker = 1 .. n
  BY LenProperties DEF Inv, Types
<1>2. x \in WorkerRecord /\ x.pc = "look" /\ x.rec = rec
  BY DEF NewWorker, WorkerRecord, WorkerPC
<1> HIDE DEF x
<1>3. /\ worker' \in Seq(WorkerRecord) /\ Len(worker') = n + 1 /\ DOMAIN worker' = 1 .. n + 1
      /\ worker'[n + 1] = x
      /\ \A v \in 1 .. n : worker'[v] = worker[v]
  BY <1>1, <1>2, AppendProperties, LenProperties DEF Inv, Types, x
<1>4. /\ record' \in Seq(RunRecord) /\ Len(record') \in Nat
      /\ Len(record') >= Len(record) /\ rec <= Len(record')
      /\ \A i \in 1 .. Len(record) : record'[i] = record[i]
      /\ rec = 0 \/ (rec = Len(record) + 1 /\ record'[rec].state = "running")
  <2> DEFINE new == NewRecord(action)
  <2>1. new \in RunRecord /\ new.state = "running"
    BY DEF NewRecord, RunRecord, State
  <2>2. record \in Seq(RunRecord)
    BY DEF Inv, Types
  <2>3. CASE rec = 0 /\ record' = record
    BY <1>1, <2>2, <2>3
  <2>4. CASE rec = Len(record) + 1 /\ record' = Append(record, new)
    <3> HIDE DEF new
    <3>1. /\ record' \in Seq(RunRecord) /\ Len(record') = Len(record) + 1
          /\ \A i \in 1 .. Len(record) : record'[i] = record[i]
          /\ record'[Len(record) + 1] = new
      BY <2>1, <2>2, <2>4, AppendProperties
    <3> QED
      BY <1>1, <2>1, <2>4, <3>1
  <2> QED
    BY <2>3, <2>4
<1>5. \A v \in 1 .. n : worker[v].rec \in Nat /\ worker[v].rec <= Len(record)
  BY <1>1, WorkerIn DEF Inv, RecordInv, WorkerRecord
<1>6. \A v \in DOMAIN worker' : v = n + 1 \/ v \in 1 .. n
  BY <1>1, <1>3
<1>7. Types'
  BY <1>1, <1>3, <1>4, ConstantsAssumption DEF Inv, Types, content
<1>8. RecordInv'
  <2>1. /\ worker'[n + 1].rec = rec /\ n + 1 \notin 1 .. n
        /\ \A v \in 1 .. n : worker'[v].rec = worker[v].rec
    BY <1>1, <1>2, <1>3
  <2>2. \A v \in DOMAIN worker' : worker'[v].rec <= Len(record')
    BY <1>1, <1>4, <1>5, <1>6, <2>1
  <2>3. \A v \in 1 .. n : worker[v].rec = rec => rec = 0
    BY <1>1, <1>4, <1>5
  <2>4. \A u, v \in 1 .. n : u # v /\ worker[u].rec = worker[v].rec => worker[u].rec = 0
    BY <1>1 DEF Inv, RecordInv
  <2>5. \A u, v \in DOMAIN worker' : u # v /\ worker'[u].rec = worker'[v].rec => worker'[u].rec = 0
    BY <1>6, <2>1, <2>3, <2>4
  <2> QED
    BY <2>2, <2>5 DEF RecordInv
<1>9. LockInv'
  <2>1. \A v \in DOMAIN worker' : worker'[v].pc \in InsidePC => lock' = v
    BY <1>1, <1>2, <1>3, <1>6, InsideMeans DEF Inv, LockInv, InsidePC
  <2>2. OneRunAtATime'
    BY <2>1 DEF OneRunAtATime, Inside, InsidePC
  <2> QED
    BY <2>2 DEF Inv, LockInv
<1>10. LookedInv'
  BY <1>1, <1>2, <1>3, <1>6 DEF Inv, LookedInv, IsLoaded, content
<1>11. ASSUME NEW v \in DOMAIN worker' PROVE KnowsItsEnd(worker'[v]) /\ SaysOf(worker'[v], record')
  <2>1. CASE v = n + 1
    BY <1>2, <1>3, <1>4, <2>1 DEF KnowsItsEnd, SaysOf
  <2>2. CASE v \in 1 .. n
    <3>1. worker'[v] = worker[v] /\ (worker[v].rec # 0 => record'[worker[v].rec] = record[worker[v].rec])
      BY <1>1, <1>3, <1>4, <1>5, <2>2
    <3> QED
      BY <1>1, <2>2, <3>1 DEF Inv, ToldInv, KnowsItsEnd, SaysOf
  <2> QED
    BY <1>6, <2>1, <2>2
<1>12. ToldInv'
  BY <1>11 DEF ToldInv, KnowsItsEnd, SaysOf
<1>13. NeverLoadedOver' /\ StampedWhileLoaded'
  BY DEF Inv, NeverLoadedOver, StampedWhileLoaded, content
<1> QED
  BY <1>7, <1>8, <1>9, <1>10, <1>12, <1>13 DEF Inv

\* A button starts one run with a record of its own, or nothing.
LEMMA DecideKeeps == ASSUME Inv, NEW p \in Page, Decide(p) PROVE Inv'
<1> DEFINE want == page[p].want
           presses == Allowed(want) /\ ~Fresh(page[p].running, page[p].newest) /\ Len(worker) < MaxRuns
<1>1. /\ page' \in [Page -> PageRecord] /\ page'[p].pc = "idle" /\ want \in Action
      /\ \A q \in Page : q # p => page'[q] = page[q]
  BY DEF Decide, Inv, Types, PageRecord, PageIdle, Action
<1>2. \A q \in Page : page'[q].pc = "probing" => page[q].pc = "probing"
  BY <1>1
<1>3. CASE presses
  <2>1. Len(record) + 1 \in Nat
    BY LenProperties DEF Inv, Types
  <2>2. Len(worker) < MaxRuns
    BY <1>3
  <2> HIDE DEF presses, want
  <2> QED
    BY <1>1, <1>2, <1>3, <2>1, <2>2, StartKeeps DEF Decide, presses, want
<1>4. CASE ~presses
  <2>1. UNCHANGED <<content, kept, lock, worker, record, late, deaths>>
    BY <1>4 DEF Decide
  <2>2. Types'
    BY <1>1, <2>1 DEF Inv, Types, content
  <2>3. LockInv'
    BY <1>2, <2>1 DEF Inv, LockInv, OneRunAtATime, Inside
  <2>4. LookedInv' /\ NeverLoadedOver' /\ StampedWhileLoaded'
    BY <2>1 DEF Inv, LookedInv, NeverLoadedOver, StampedWhileLoaded, IsLoaded, content
  <2> QED
    BY <2>1, <2>2, <2>3, <2>4, RunsStand DEF Inv
<1> QED
  BY <1>3, <1>4

\* A command at the server starts a run without a record.
LEMMA CommandKeeps == ASSUME Inv, NEW action \in Action, Command(action) PROVE Inv'
<1>1. page' \in [Page -> PageRecord] /\ \A p \in Page : page'[p].pc = "probing" => page[p].pc = "probing"
  BY DEF Command, Inv, Types
<1> QED
  BY <1>1, StartKeeps DEF Command

\* What people add and rename.
LEMMA PeopleKeep ==
  ASSUME Inv, (\E o \in Own : AddOwn(o)) \/ AddKept \/ Rename
  PROVE  Inv'
<1>1. UNCHANGED <<demo, mode, lock, worker, record, page, deaths>>
  BY DEF AddOwn, AddKept, Rename, content
<1>2. /\ own' \subseteq Own /\ late' \subseteq Own /\ kept' \in 0 .. MaxKept
      /\ name' \in {"none", "own", "demo"}
  BY ConstantsAssumption DEF AddOwn, AddKept, Rename, content, Inv, Types
<1>3. /\ name' = name \/ name' = "own"
      /\ own \subseteq late => own' \subseteq late'
  BY DEF AddOwn, AddKept, Rename, content
<1>4. Types'
  BY <1>1, <1>2 DEF Inv, Types
<1>5. LockInv'
  BY <1>1 DEF Inv, LockInv, OneRunAtATime, Inside
<1>6. LookedInv' /\ NeverLoadedOver' /\ StampedWhileLoaded'
  BY <1>1, <1>3 DEF Inv, LookedInv, NeverLoadedOver, StampedWhileLoaded, IsLoaded
<1> QED
  BY <1>1, <1>4, <1>5, <1>6, RunsStand DEF Inv

\* Time changes no outcome.
LEMMA GrowOldKeeps == ASSUME Inv, NEW i \in Worker, GrowOld(i) PROVE Inv'
<1>1. record \in Seq(RunRecord) /\ i \in 1 .. Len(record) /\ record[i] \in RunRecord
  BY LenProperties, ElementOfSeq DEF GrowOld, Inv, Types
<1> DEFINE r == [record[i] EXCEPT !.old = TRUE]
<1>2. r \in RunRecord /\ r.state = record[i].state
  BY <1>1 DEF RunRecord
<1>3. record' = [record EXCEPT ![i] = r]
  BY DEF GrowOld
<1> HIDE DEF r
<1>4. /\ record' \in Seq(RunRecord) /\ Len(record') = Len(record)
      /\ \A j \in 1 .. Len(record) : record'[j].state = record[j].state
  BY <1>1, <1>2, <1>3, ExceptSeq
<1>5. Types'
  BY <1>4 DEF GrowOld, Inv, Types, content
<1>6. RecordInv'
  BY <1>4 DEF GrowOld, Inv, RecordInv
<1>7. \A v \in DOMAIN worker : worker[v].rec # 0 => worker[v].rec \in 1 .. Len(record)
  BY WorkerIn, LenProperties DEF Inv, Types, RecordInv, WorkerRecord
<1>8. ToldInv'
  BY <1>4, <1>7 DEF GrowOld, Inv, ToldInv
<1>9. LockInv'
  BY DEF GrowOld, Inv, LockInv, OneRunAtATime, Inside
<1>10. LookedInv' /\ NeverLoadedOver' /\ StampedWhileLoaded'
  BY DEF GrowOld, Inv, LookedInv, NeverLoadedOver, StampedWhileLoaded, IsLoaded, content
<1> QED
  BY <1>5, <1>6, <1>8, <1>9, <1>10 DEF Inv

-----------------------------------------------------------------------------
(* The theorems *)

\* The invariant holds of a new site and of the demonstration site as it was built.
LEMMA Begins == Init => Inv
<1> SUFFICES ASSUME Init PROVE Inv
  OBVIOUS
<1>1. /\ worker = <<>> /\ record = <<>> /\ Len(worker) = 0
      /\ worker \in Seq(WorkerRecord) /\ record \in Seq(RunRecord) /\ DOMAIN worker = {}
  BY EmptySeq, LenProperties DEF Init
<1>2. page \in [Page -> PageRecord] /\ \A p \in Page : page[p].pc = "idle"
  BY DEF Init, PageIdle, PageRecord, Action
<1>3. Types
  <2>1. kept \in 0 .. MaxKept /\ deaths \in 0 .. MaxDeaths /\ Len(worker) <= MaxRuns
    BY <1>1, ConstantsAssumption DEF Init
  <2>2. demo \in BOOLEAN /\ mode \in BOOLEAN /\ name \in {"none", "own", "demo"}
    BY DEF Init
  <2>3. own \subseteq Own /\ late \subseteq Own /\ lock \in Holders
    BY DEF Init, Holders
  <2> QED
    BY <1>1, <1>2, <2>1, <2>2, <2>3 DEF Types
<1>4. RecordInv /\ LockInv /\ LookedInv /\ ToldInv
  BY <1>1, <1>2 DEF RecordInv, LockInv, LookedInv, ToldInv, OneRunAtATime, Inside
<1>5. NeverLoadedOver /\ StampedWhileLoaded
  BY DEF Init, NeverLoadedOver, StampedWhileLoaded
<1> QED
  BY <1>3, <1>4, <1>5 DEF Inv

\* Every step keeps the invariant.
LEMMA Keeps == Inv /\ [Next]_vars => Inv'
<1> SUFFICES ASSUME Inv, [Next]_vars PROVE Inv'
  OBVIOUS
<1>1. CASE \E p \in Page, want \in Action : Look(p, want)
  BY <1>1, LookKeeps
<1>2. CASE \E p \in Page : PageStep(p)
  BY <1>2, ProbeKeeps, LetGoKeeps, DecideKeeps DEF PageStep
<1>3. CASE \E action \in Action : Command(action)
  BY <1>3, CommandKeeps
<1>4. CASE \E w \in Worker : WorkerStep(w) \/ Die(w)
  BY <1>4, FirstLookKeeps, TryLockKeeps, BeginLoadKeeps, LoadFailsKeeps, LoadKeeps,
     BeginRemovalKeeps, DeleteKeeps, RemoveKeeps, ReportKeeps, UnlockKeeps, DieKeeps DEF
     WorkerStep
<1>5. CASE (\E o \in Own : AddOwn(o)) \/ AddKept \/ Rename
  BY <1>5, PeopleKeep
<1>6. CASE \E i \in Worker : GrowOld(i)
  BY <1>6, GrowOldKeeps
<1>7. CASE UNCHANGED vars
  BY <1>7 DEF vars, Inv, Types, RecordInv, LockInv, OneRunAtATime, Inside, LookedInv, IsLoaded,
     ToldInv, NeverLoadedOver, StampedWhileLoaded
<1> QED
  BY <1>1, <1>2, <1>3, <1>4, <1>5, <1>6, <1>7 DEF Next

\* The invariant holds throughout.
LEMMA Always == Spec => []Inv
BY Begins, Keeps, PTL DEF Spec

\* Every variable keeps to its type.
THEOREM TypeCorrect == Spec => []TypeOK
<1>1. Inv => TypeOK
  <2> SUFFICES ASSUME Inv PROVE TypeOK
    OBVIOUS
  <2>1. \A w \in DOMAIN worker : /\ worker[w].action \in Action
                                 /\ worker[w].rec \in 0 .. Len(record)
                                 /\ worker[w].outcome \in {"none", "failed", "succeeded"}
    BY WorkerIn, LenProperties DEF Inv, Types, RecordInv, WorkerRecord
  <2>2. \A i \in DOMAIN record : record[i] \in RunRecord
    BY ElementOfSeq, LenProperties DEF Inv, Types
  <2>3. \A i \in DOMAIN record : /\ record[i].action \in Action
                                 /\ record[i].state \in {"running", "failed", "succeeded"}
    BY <2>2 DEF RunRecord, State
  <2>4. \A p \in Page : page[p].pc \in {"idle", "probe", "probing", "decide"}
    BY DEF Inv, Types, PageRecord
  <2> QED
    BY <2>1, <2>3, <2>4 DEF TypeOK, Inv, Types
<1> QED
  BY <1>1, Always, PTL

\* An invented record is never taken for one of the site's own (try_lock, and
\* load_refusal and is_loaded looked at again under the lock).
THEOREM InventedNeverMistaken == Spec => []NeverMistaken
<1>1. Inv => NeverMistaken
  BY DEF Inv, LockInv, NeverMistaken
<1> QED
  BY <1>1, Always, PTL

\* The record of a run says what came of it (_RunRecord, succeeded and failed).
THEOREM RunsAreTold == Spec => []OutcomeTold
<1>1. Inv => OutcomeTold
  <2> SUFFICES ASSUME Inv, NEW w \in DOMAIN worker,
                      worker[w].rec # 0, record[worker[w].rec].state # "running"
               PROVE  (record[worker[w].rec].state = "succeeded") = worker[w].saved
    BY DEF OutcomeTold
  <2> QED
    BY DEF Inv, ToldInv
<1> QED
  BY <1>1, Always, PTL

\* A record of the site's own goes only together with the demonstration, by a
\* removal that found it there (remove).
THEOREM OwnRecordsStay == Spec => OwnRecordsStand
<1>1. ASSUME Inv, Next PROVE own \subseteq own' \/ (IsLoaded /\ ~demo')
  <2>1. ASSUME NEW w \in Worker, Remove(w) PROVE own \subseteq own' \/ (IsLoaded /\ ~demo')
    <3>1. IsLoaded
      BY <1>1, <2>1 DEF Inv, LookedInv, Remove, At
    <3> QED
      BY <2>1, <3>1 DEF Remove, content
  <2>2. ASSUME NEW w \in Worker, WorkerStep(w), ~Remove(w) PROVE own \subseteq own'
    BY <2>2 DEF WorkerStep, FirstLook, TryLock, BeginLoad, LoadFails, Load, BeginRemoval,
       Delete, Report, Unlock, content
  <2>3. ASSUME NEW p \in Page, PageStep(p) \/ \E want \in Action : Look(p, want) PROVE own' = own
    BY <2>3 DEF PageStep, Look, Probe, LetGo, Decide, content
  <2>4. ASSUME NEW w \in Worker, Die(w) \/ GrowOld(w) PROVE own' = own
    BY <2>4 DEF Die, GrowOld, content
  <2>5. ASSUME (\E action \in Action : Command(action)) \/ (\E o \in Own : AddOwn(o)) \/ AddKept \/ Rename
        PROVE  own \subseteq own'
    BY <2>5 DEF Command, AddOwn, AddKept, Rename, content
  <2> QED
    BY <1>1, <2>1, <2>2, <2>3, <2>4, <2>5 DEF Next
<1>2. Inv /\ [Next]_vars => [own \subseteq own' \/ (IsLoaded /\ ~demo')]_vars
  BY <1>1
<1> QED
  BY <1>2, Always, PTL DEF Spec, OwnRecordsStand

-----------------------------------------------------------------------------
(* The backups: the inductive invariant *)

\* A script that calls backup.sh waits for it; a backup called by nobody leaves
\* nothing behind.
PlaceInv ==
  /\ job["schedule"].pc # "done"
  /\ restore.pc = "off" => job["restore"].pc = "off"
  /\ restore.pc \notin {"off", "safety"} => job["restore"].pc = "done"
  /\ upgrade.skipped => upgrade.pc \in {"name", "build"}
  /\ upgrade.pc = "name" => upgrade.skipped
  /\ upgrade.pc = "off" \/ upgrade.skipped => job["upgrade"].pc = "off"
  /\ upgrade.pc = "build" /\ ~upgrade.skipped => job["upgrade"].pc = "done"

\* Who is at work while the marker is there had looked for it before, and a marker
\* that no restore owns was left by a restart, with nobody at work.
MarkInv ==
  /\ restore.pc # "off" => marker
  /\ marker =>
       /\ upgrade.looked = {}
       /\ job["schedule"].pc # "off" => restore.pc # "off" /\ "schedule" \in early
       /\ upgrade.pc # "off" => restore.pc # "off" /\ "upgrade" \in early
       /\ sync # "off" => restore.pc # "off" /\ "sync" \in early
  /\ restore.pc = "safety" /\ job["restore"].pc = "off" => stamps < MaxBackups

\* Where a database can be half-built, and what dumps of one are being made.
BuiltInv ==
  /\ HalfBuiltLeftAlone
  /\ db.state # "whole" /\ ~broken => marker /\ restore.pc \in {"off", "load", "fill"}
  /\ restore.pc \in {"drop", "load", "fill"} /\ web => loose
  /\ \A o \in Owner : job[o].pc = "dumping" /\ job[o].state # "whole" => job[o].stray

\* Every run of backup.sh has a stamp of its own, no later than the last one given;
\* while a restore works no other stamp is given than its own.
StampInv ==
  /\ \A d \in dumps : d.stamp <= stamps
  /\ \A s \in media : s <= stamps
  /\ recorded <= stamps
  /\ \A o \in Owner : job[o].stamp <= stamps /\ (job[o].pc # "off" => job[o].stamp > 0)
  /\ \A o, p \in Owner :
       o # p /\ job[o].pc # "off" /\ job[p].pc # "off" => job[o].stamp # job[p].stamp
  /\ \A o \in Owner : job[o].pc \notin {"off", "done"} => recorded # job[o].stamp
  /\ job["restore"].pc # "off" => job["restore"].stamp = stamps

\* A backup that no other ran beside has been alone so far.
AloneInv ==
  \A o \in {"restore", "upgrade"} : job[o].pc # "off" /\ job[o].alone =>
    /\ \A p \in Owner : p # o => job[p].pc = "off"
    /\ job[o].pc = "done" => recorded = job[o].stamp

\* What the backup of a script must hold: the safety backup what is saved until the
\* drop and what the drop takes, an upgrade's what the site held when it began.
Needs(o) ==
  IF o = "restore"
  THEN (IF restore.pc \in {"safety", "stop", "drop"} THEN db.rows ELSE gone) \ since
  ELSE IF o = "upgrade" THEN upgrade.looked ELSE {}

HeldInv ==
  /\ recorded \in media /\ \E d \in dumps : d.stamp = recorded
  /\ \A o \in Owner : job[o].pc = "record" => job[o].stamp \in media
  /\ upgrade.looked \subseteq db.rows
  /\ \A o \in Owner : job[o].pc = "dumping" => Needs(o) \subseteq job[o].rows
  /\ \A o \in Owner : job[o].pc \in {"media", "record", "done"} =>
       \E d \in dumps : d.stamp = job[o].stamp /\ Needs(o) \subseteq d.rows

\* The name a script has read is its own backup's, if that one was alone.
NamedInv ==
  /\ restore.pc \notin {"off", "safety"} /\ job["restore"].alone =>
       restore.named = job["restore"].stamp
  /\ upgrade.pc = "build" /\ ~upgrade.skipped /\ job["upgrade"].alone =>
       upgrade.named = job["upgrade"].stamp

Undisturbed == PlaceInv /\ MarkInv /\ BuiltInv /\ StampInv
KeptInv == AloneInv /\ HeldInv /\ NamedInv

\* While a script has a backup under way or to name, fewer others begin than are kept.
NotOvertaken == \A o \in Owner : job[o].pc # "off" => stamps < job[o].stamp + Keep

-----------------------------------------------------------------------------
(* Types *)

\* What stands for a script that is not at work is of its type.
LEMMA OffTypes ==
  JobOff \in Job /\ FirstDump \in Dump /\ RestoreOff \in Restore /\ UpgradeOff \in Upgrade
BY SiteBoundsAssumption DEF JobOff, Job, FirstDump, Dump, RestoreOff, Restore, UpgradeOff,
   Upgrade, Built, Stamp

-----------------------------------------------------------------------------
(* What a step of backup.sh and a start of the website do *)

\* A run of backup.sh begins: it has the next stamp, and others are as they were, but
\* alone no more if they are at work.
LEMMA StartDoes ==
  ASSUME SiteTypeOK, NEW o \in Owner, StartNow(o)
  PROVE  /\ stamps' = stamps + 1 /\ (stamps < MaxBackups \/ o = "restore")
         /\ DOMAIN job' = Owner
         /\ job'[o].pc = "dump" /\ job'[o].stamp = stamps + 1
         /\ job'[o].alone => o = "schedule" \/ \A p \in Owner : job[p].pc = "off"
         /\ \A p \in Owner : p # o =>
              /\ job'[p].pc = job[p].pc /\ job'[p].stamp = job[p].stamp
              /\ job'[p].state = job[p].state /\ job'[p].rows = job[p].rows
              /\ job'[p].stray = job[p].stray
              /\ job'[p].alone => p = "schedule" \/ (job[p].alone /\ job[p].pc = "off")
         /\ stamps' \in Stamp => job' \in [Owner -> Job]
         /\ UNCHANGED <<db, web, dumps, media, recorded, marker, restore, upgrade, sync, since,
                        gone, broken, early, loose, faults>>
<1>1. stamps' = stamps + 1 /\ (stamps < MaxBackups \/ o = "restore")
  BY DEF StartNow
<1>2. job[o] \in Job /\ \A p \in Owner : job[p] \in Job
  BY DEF SiteTypeOK
<1>3. DOMAIN job' = Owner
  BY DEF StartNow
<1>4. job'[o] = [JobOff EXCEPT !.pc = "dump", !.stamp = stamps',
                               !.alone = o = "schedule" \/ \A q \in Owner : job[q].pc = "off"]
  BY DEF StartNow
<1>5. /\ job'[o].pc = "dump" /\ job'[o].stamp = stamps + 1
      /\ job'[o].alone => o = "schedule" \/ \A p \in Owner : job[p].pc = "off"
      /\ stamps' \in Stamp => job'[o] \in Job
  <2>1. job'[o] = [pc |-> "dump", stamp |-> stamps', state |-> "bare", rows |-> {}, stray |-> FALSE,
                   alone |-> o = "schedule" \/ \A q \in Owner : job[q].pc = "off"]
    BY <1>4 DEF JobOff
  <2>2. job'[o].pc = "dump" /\ job'[o].stamp = stamps + 1
    BY <1>1, <2>1
  <2>3. job'[o].alone => o = "schedule" \/ \A p \in Owner : job[p].pc = "off"
    <3> DEFINE quiet == o = "schedule" \/ \A q \in Owner : job[q].pc = "off"
    <3>1. job'[o] = [pc |-> "dump", stamp |-> stamps', state |-> "bare", rows |-> {},
                     stray |-> FALSE, alone |-> quiet]
      BY <2>1
    <3> HIDE DEF quiet
    <3>2. job'[o].alone = quiet
      BY <3>1
    <3>3. job'[o].alone => quiet
      BY <3>2
    <3>4. QED
      BY <3>3 DEF quiet
  <2>4. stamps' \in Stamp => job'[o] \in Job
    BY <2>1 DEF Job, Built
  <2>5. QED
    BY <2>2, <2>3, <2>4
<1>6. ASSUME NEW p \in Owner, p # o
      PROVE  /\ job'[p].pc = job[p].pc /\ job'[p].stamp = job[p].stamp
             /\ job'[p].state = job[p].state /\ job'[p].rows = job[p].rows
             /\ job'[p].stray = job[p].stray
             /\ job'[p].alone => p = "schedule" \/ (job[p].alone /\ job[p].pc = "off")
             /\ job'[p] \in Job
  <2>1. job'[p] = [job[p] EXCEPT !.alone = p = "schedule" \/ (job[p].alone /\ job[p].pc = "off")]
    BY <1>6 DEF StartNow
  <2>2. QED
    BY <1>2, <2>1 DEF Job
<1>7. stamps' \in Stamp => job' \in [Owner -> Job]
  <2>1. job' = [p \in Owner |-> job'[p]]
    BY DEF StartNow
  <2>2. QED
    BY <1>5, <1>6, <2>1
<1>8. QED
  BY <1>1, <1>3, <1>5, <1>6, <1>7 DEF StartNow, site, files, history

\* backup.sh begins, or the marker makes an upgrade's own skip.
LEMMA BeginDoes ==
  ASSUME SiteTypeOK, PlaceInv, NEW o \in Owner, BeginBackup(o)
  PROVE  /\ job[o].pc = "off"
         /\ o = "restore" => restore.pc = "safety"
         /\ o = "upgrade" => upgrade.pc = "backup"
         /\ \/ (~marker \/ o = "restore") /\ StartNow(o)
            \/ /\ marker /\ o = "upgrade"
               /\ upgrade' = [upgrade EXCEPT !.pc = "name", !.skipped = TRUE]
               /\ UNCHANGED <<db, web, dumps, media, recorded, marker, job, restore, sync, stamps,
                              since, gone, broken, early, loose, faults>>
BY DEF BeginBackup, Called, Owner, site, files, history

\* The record is written: the run is over, and only a prune takes files away.
LEMMA RecordDoes ==
  ASSUME SiteTypeOK, NEW o \in Owner, KeepRecord(o)
  PROVE  /\ job[o].pc = "record" /\ recorded' = job[o].stamp
         /\ o = "schedule" => job' = [job EXCEPT ![o] = JobOff]
         /\ o # "schedule" => job' = [job EXCEPT ![o] = [job[o] EXCEPT !.pc = "done"]]
         /\ job' \in [Owner -> Job]
         /\ dumps' \subseteq dumps /\ media' \subseteq media
         /\ early' = early \ ({o} \cap {"schedule"})
         /\ UNCHANGED <<db, web, marker, restore, upgrade, sync, stamps, since, gone, broken,
                        loose, faults>>
<1>1. job[o] \in Job
  BY DEF SiteTypeOK
<1>2. /\ o = "schedule" => job' = [job EXCEPT ![o] = JobOff]
      /\ o # "schedule" => job' = [job EXCEPT ![o] = [job[o] EXCEPT !.pc = "done"]]
  BY DEF KeepRecord, Ends
<1>3. [job[o] EXCEPT !.pc = "done"] \in Job
  BY <1>1 DEF Job
<1>4. job' \in [Owner -> Job]
  BY <1>2, <1>3, OffTypes DEF SiteTypeOK
<1>5. dumps' \subseteq dumps /\ media' \subseteq media
  BY DEF KeepRecord, Newest
<1>6. QED
  BY <1>2, <1>4, <1>5 DEF KeepRecord, site

\* The website starts: records stay, and a database without tables has them.
LEMMA WebDoes ==
  ASSUME SiteTypeOK, WebStarts
  PROVE  /\ web' = TRUE /\ db' \in [state : Built, rows : SUBSET Entry]
         /\ db'.rows = db.rows
         /\ db'.state # "whole" <=> db.state # "whole"
BY DEF WebStarts, SiteTypeOK, Built

\* What a run that fails takes with it.
LEMMA FailDoes ==
  ASSUME SiteTypeOK, NEW o \in Owner, BackupFails(o)
  PROVE  /\ job[o].pc \notin {"off", "done"}
         /\ job' = [job EXCEPT ![o] = JobOff] /\ job' \in [Owner -> Job]
         /\ dumps' = {d \in dumps : d.stamp # job[o].stamp}
         /\ media' = media \ {job[o].stamp}
         /\ faults' \in 0 .. MaxFaults
         /\ IF o = "restore"
            THEN RestoreEnds
            ELSE early' = early \ {o} /\ UNCHANGED <<marker, restore, since, gone, broken, loose>>
         /\ upgrade' = IF o = "upgrade" THEN UpgradeOff ELSE upgrade
         /\ UNCHANGED <<db, web, recorded, sync, stamps>>
<1>1. job[o].pc \notin {"off", "done"}
  BY DEF BackupFails, Cannot
<1>2. faults' \in 0 .. MaxFaults
  BY SiteBoundsAssumption DEF BackupFails, SiteTypeOK
<1>3. job' \in [Owner -> Job]
  BY OffTypes DEF BackupFails, SiteTypeOK
<1>4. QED
  BY <1>1, <1>2, <1>3 DEF BackupFails, site

\* The safety backup is named, or the file to restore is gone and the restore ends.
LEMMA NameDoes ==
  ASSUME SiteTypeOK, NameSafety
  PROVE  /\ restore.pc = "safety" /\ job["restore"].pc = "done"
         /\ \/ /\ restore' = [restore EXCEPT !.pc = "stop", !.named = recorded]
               /\ UNCHANGED <<marker, job, since, gone, broken, early, loose>>
            \/ RestoreEnds /\ job' = [job EXCEPT !["restore"] = JobOff]
         /\ UNCHANGED <<db, web, dumps, media, recorded, upgrade, sync, stamps, faults>>
<1>1. CASE Readable
  BY <1>1 DEF NameSafety, RestoreAt, site, files, history
<1>2. CASE ~Readable
  BY <1>2 DEF NameSafety, RestoreAt, site, files
<1>3. QED
  BY <1>1, <1>2

-----------------------------------------------------------------------------
(* Steps keep the invariant *)

\* Every step keeps the types; the safety backup's stamp is within the bound for the
\* restore began below it.
LEMMA TypeStep ==
  ASSUME SiteTypeOK, Undisturbed, SiteNext
  PROVE  SiteTypeOK'
<1>1. ASSUME NEW r \in Entry, Save(r) PROVE SiteTypeOK'
  BY <1>1, SiteBoundsAssumption DEF Save, Undisturbed, MarkInv, Stamp, SiteTypeOK, Dump, Job,
     Restore, Upgrade, Built, Owner, files
<1>2. ASSUME NEW o \in Owner, BeginBackup(o) PROVE SiteTypeOK'
  <2>1. PlaceInv
    BY DEF Undisturbed
  <2>2. CASE (~marker \/ o = "restore") /\ StartNow(o)
    <3>1. stamps' \in Stamp
      BY <2>1, <2>2, <1>2, BeginDoes, StartDoes, SiteBoundsAssumption DEF SiteTypeOK,
         Undisturbed, MarkInv, Stamp
    <3>2. stamps' = stamps + 1 /\ job' \in [Owner -> Job]
          /\ UNCHANGED <<db, web, dumps, media, recorded, marker, restore, upgrade, sync, since,
                         gone, broken, early, loose, faults>>
      BY <3>1, <2>2, StartDoes
    <3>3. QED
      BY <3>1, <3>2 DEF SiteTypeOK
  <2>3. CASE ~((~marker \/ o = "restore") /\ StartNow(o))
    BY ZenonT(60), <2>1, <2>3, <1>2, BeginDoes DEF SiteTypeOK, Upgrade
  <2>4. QED
    BY <2>2, <2>3
<1>3. ASSUME NEW o \in Owner, DumpBegins(o) PROVE SiteTypeOK'
  BY SMTT(30), <1>3, SiteBoundsAssumption
     DEF DumpBegins, Undisturbed, MarkInv, Stamp, SiteTypeOK, Dump,
     Job, Restore, Upgrade, Built, Owner, site, files
<1>4. ASSUME NEW o \in Owner, ReadBack(o) PROVE SiteTypeOK'
  <2>1. job[o] \in Job
    BY DEF SiteTypeOK
  <2>2. [stamp |-> job[o].stamp, state |-> job[o].state, rows |-> job[o].rows,
         stray |-> job[o].stray] \in Dump
    BY <2>1 DEF Job, Dump
  <2>3. dumps' \subseteq Dump
    BY <2>2, <1>4 DEF ReadBack, SiteTypeOK
  <2>4. [job[o] EXCEPT !.pc = "media", !.state = "bare", !.rows = {}, !.stray = FALSE] \in Job
    BY <2>1 DEF Job, Built
  <2>5. job' = [job EXCEPT ![o] = [job[o] EXCEPT !.pc = "media", !.state = "bare", !.rows = {},
                                                  !.stray = FALSE]]
    BY <1>4 DEF ReadBack
  <2>6. job' \in [Owner -> Job]
    BY <2>4, <2>5 DEF SiteTypeOK
  <2>7. QED
    BY <2>3, <2>6, <1>4 DEF ReadBack, SiteTypeOK, site, history
<1>5. ASSUME NEW o \in Owner, ArchiveMedia(o) PROVE SiteTypeOK'
  BY <1>5, SiteBoundsAssumption DEF ArchiveMedia, Undisturbed, MarkInv, Stamp, SiteTypeOK, Dump,
     Job, Restore, Upgrade, Built, Owner, site, history
<1>6. ASSUME NEW o \in Owner, KeepRecord(o) PROVE SiteTypeOK'
  <2>1. job[o].stamp \in Stamp
    BY DEF SiteTypeOK, Job
  <2>2. QED
    BY <2>1, <1>6, RecordDoes DEF SiteTypeOK
<1>7. ASSUME NEW o \in Owner, BackupFails(o) PROVE SiteTypeOK'
  BY <1>7, FailDoes, OffTypes DEF RestoreEnds, SiteTypeOK
<1>8. ASSUME NEW d \in dumps, BeginRestore(d) PROVE SiteTypeOK'
  BY <1>8, SiteBoundsAssumption DEF BeginRestore, RestoreAt, Undisturbed, MarkInv, Stamp,
     SiteTypeOK, Dump, Job, Restore, Upgrade, Built, Owner, site, files
<1>9. ASSUME NameSafety PROVE SiteTypeOK'
  BY ZenonT(60), <1>9, NameDoes, OffTypes DEF RestoreEnds, SiteTypeOK, Restore
<1>10. ASSUME StopWeb PROVE SiteTypeOK'
  BY <1>10, SiteBoundsAssumption DEF StopWeb, RestoreAt, RestoreGoes, Undisturbed, MarkInv,
     Stamp, SiteTypeOK, Dump, Job, Restore, Upgrade, Built, Owner, files
<1>11. ASSUME DropDatabase PROVE SiteTypeOK'
  <2>1. job' \in [Owner -> Job]
    BY <1>11 DEF DropDatabase, SiteTypeOK, Job
  <2>2. QED
    BY <2>1, <1>11 DEF DropDatabase, RestoreAt, RestoreGoes, SiteTypeOK, Restore, Built, files
<1>12. ASSUME LoadTables PROVE SiteTypeOK'
  BY <1>12, SiteBoundsAssumption DEF LoadTables, RestoreAt, RestoreGoes, Undisturbed, MarkInv,
     Stamp, SiteTypeOK, Dump, Job, Restore, Upgrade, Built, Owner, files, history
<1>13. ASSUME LoadRows PROVE SiteTypeOK'
  BY <1>13, SiteBoundsAssumption DEF LoadRows, RestoreAt, RestoreGoes, Undisturbed, MarkInv,
     Stamp, SiteTypeOK, Dump, Job, Restore, Upgrade, Built, Owner, files
<1>14. ASSUME StartWeb PROVE SiteTypeOK'
  BY <1>14, SiteBoundsAssumption DEF StartWeb, RestoreAt, RestoreGoes, WebStarts, Undisturbed,
     MarkInv, Stamp, SiteTypeOK, Dump, Job, Restore, Upgrade, Built, Owner, files, history
<1>15. ASSUME RestoreFinishes PROVE SiteTypeOK'
  BY <1>15, OffTypes, SiteBoundsAssumption DEF RestoreFinishes, RestoreAt, RestoreEnds,
     SiteTypeOK, Restore, Built, site, files
<1>16. ASSUME RestoreStops PROVE SiteTypeOK'
  <2>1. faults' \in 0 .. MaxFaults
    BY <1>16, SiteBoundsAssumption DEF RestoreStops, SiteTypeOK
  <2>2. QED
    BY <2>1, <1>16, OffTypes DEF RestoreStops, RestoreEnds, SiteTypeOK, site, files
<1>17. ASSUME UpgradeLooks PROVE SiteTypeOK'
  <2>1. upgrade' = [pc |-> "backup", looked |-> db.rows, named |-> 0, skipped |-> FALSE]
    BY <1>17 DEF UpgradeLooks, UpgradeOff
  <2>2. upgrade' \in Upgrade
    BY <2>1, SiteBoundsAssumption DEF Upgrade, SiteTypeOK, Stamp
  <2>3. QED
    BY <2>2, <1>17 DEF UpgradeLooks, SiteTypeOK, site, files, history
<1>18. ASSUME UpgradeNames PROVE SiteTypeOK'
  <2>1. upgrade' \in Upgrade
    BY <1>18 DEF UpgradeNames, SiteTypeOK, Upgrade
  <2>2. QED
    BY <2>1, <1>18 DEF UpgradeNames, SiteTypeOK, site, files, history
<1>19. ASSUME UpgradeBuilds PROVE SiteTypeOK'
  BY <1>19, OffTypes, SiteBoundsAssumption DEF UpgradeBuilds, UpgradeEnds, WebStarts,
     SiteTypeOK, Restore, Built, files
<1>20. ASSUME UpgradeStops PROVE SiteTypeOK'
  BY <1>20, SiteBoundsAssumption DEF UpgradeStops, UpgradeEnds, Undisturbed, MarkInv, Stamp,
     SiteTypeOK, Dump, Job, Restore, Upgrade, Built, Owner, JobOff, UpgradeOff, site, files
<1>21. ASSUME SyncLooks PROVE SiteTypeOK'
  BY <1>21, SiteBoundsAssumption DEF SyncLooks, Undisturbed, MarkInv, Stamp, SiteTypeOK, Dump,
     Job, Restore, Upgrade, Built, Owner, site, files, history
<1>22. ASSUME SyncUps PROVE SiteTypeOK'
  BY <1>22, OffTypes, SiteBoundsAssumption DEF SyncUps, WebStarts, SiteTypeOK, Restore, Built,
     site, files
<1>23. ASSUME Reboot PROVE SiteTypeOK'
  BY <1>23, OffTypes, SiteBoundsAssumption DEF Reboot, SiteTypeOK, Restore, Built, site, files
<1>24. ASSUME DeleteMarker PROVE SiteTypeOK'
  BY <1>24, SiteBoundsAssumption DEF DeleteMarker, RestoreAt, Undisturbed, MarkInv, Stamp,
     SiteTypeOK, Dump, Job, Restore, Upgrade, Built, Owner, site, files
<1>25. QED
  BY <1>1, <1>2, <1>3, <1>4, <1>5, <1>6, <1>7, <1>8, <1>9, <1>10, <1>11, <1>12, <1>13, <1>14,
     <1>15, <1>16, <1>17, <1>18, <1>19, <1>20, <1>21, <1>22, <1>23, <1>24 DEF SiteNext,
     BackupStep, RestoreStep

\* No step leaves a script and the backup it called in places that do not fit.
LEMMA PlaceStep ==
  ASSUME SiteTypeOK, Undisturbed, SiteNext
  PROVE  PlaceInv'
<1>1. ASSUME NEW r \in Entry, Save(r) PROVE PlaceInv'
  BY <1>1 DEF Save, Undisturbed, PlaceInv, MarkInv, SiteTypeOK, Dump, Job, Restore, Upgrade,
     Built, Owner, files
<1>2. ASSUME NEW o \in Owner, BeginBackup(o) PROVE PlaceInv'
  <2>1. PlaceInv
    BY DEF Undisturbed
  <2>2. CASE (~marker \/ o = "restore") /\ StartNow(o)
    BY <2>1, <2>2, <1>2, BeginDoes, StartDoes DEF Undisturbed, PlaceInv, MarkInv, SiteTypeOK,
       Dump, Job, Restore, Upgrade, Built, Owner
  <2>3. CASE ~((~marker \/ o = "restore") /\ StartNow(o))
    <3>1. /\ job[o].pc = "off" /\ upgrade.pc = "backup" /\ marker /\ o = "upgrade"
          /\ upgrade' = [upgrade EXCEPT !.pc = "name", !.skipped = TRUE]
          /\ UNCHANGED <<db, web, dumps, media, recorded, marker, job, restore, sync, stamps,
                         since, gone, broken, early, loose, faults>>
      BY <2>1, <2>3, <1>2, BeginDoes
    <3>2. QED
      BY <3>1 DEF Undisturbed, PlaceInv, MarkInv, SiteTypeOK, Dump, Job, Restore, Upgrade,
         Built, Owner
  <2>4. QED
    BY <2>2, <2>3
<1>3. ASSUME NEW o \in Owner, DumpBegins(o) PROVE PlaceInv'
  BY <1>3 DEF DumpBegins, Undisturbed, PlaceInv, MarkInv, SiteTypeOK, Dump, Job, Restore,
     Upgrade, Built, Owner, site, files
<1>4. ASSUME NEW o \in Owner, ReadBack(o) PROVE PlaceInv'
  BY <1>4 DEF ReadBack, Undisturbed, PlaceInv, MarkInv, SiteTypeOK, Dump, Job, Restore, Upgrade,
     Built, Owner, site, history
<1>5. ASSUME NEW o \in Owner, ArchiveMedia(o) PROVE PlaceInv'
  BY <1>5 DEF ArchiveMedia, Undisturbed, PlaceInv, MarkInv, SiteTypeOK, Dump, Job, Restore,
     Upgrade, Built, Owner, site, history
<1>6. ASSUME NEW o \in Owner, KeepRecord(o) PROVE PlaceInv'
  <2>1. CASE o = "schedule"
    BY <2>1, <1>6, RecordDoes DEF Undisturbed, PlaceInv, MarkInv, SiteTypeOK, Dump, Job,
       Restore, Upgrade, Built, Owner, JobOff
  <2>2. CASE o # "schedule"
    BY <2>2, <1>6, RecordDoes DEF Undisturbed, PlaceInv, MarkInv, SiteTypeOK, Dump, Job,
       Restore, Upgrade, Built, Owner, JobOff
  <2>3. QED
    BY <2>1, <2>2
<1>7. ASSUME NEW o \in Owner, BackupFails(o) PROVE PlaceInv'
  <2>1. /\ job[o].pc \notin {"off", "done"}
        /\ job' = [job EXCEPT ![o] = JobOff]
        /\ dumps' = {d \in dumps : d.stamp # job[o].stamp}
        /\ media' = media \ {job[o].stamp}
        /\ upgrade' = IF o = "upgrade" THEN UpgradeOff ELSE upgrade
        /\ UNCHANGED <<db, web, recorded, sync, stamps>>
    BY <1>7, FailDoes
  <2>2. CASE o = "restore"
    <3>1. RestoreEnds
      BY <2>2, <1>7, FailDoes
    <3>2. QED
      BY <2>1, <2>2, <3>1 DEF RestoreEnds, Undisturbed, PlaceInv, MarkInv, SiteTypeOK, Dump,
         Job, Restore, Upgrade, Built, Owner, JobOff, RestoreOff, UpgradeOff
  <2>3. CASE o # "restore"
    <3>1. early' = early \ {o} /\ UNCHANGED <<marker, restore, since, gone, broken, loose>>
      BY <2>3, <1>7, FailDoes
    <3>2. QED
      BY <2>1, <2>3, <3>1 DEF Undisturbed, PlaceInv, MarkInv, SiteTypeOK, Dump, Job, Restore,
         Upgrade, Built, Owner, JobOff, UpgradeOff
  <2>4. QED
    BY <2>2, <2>3
<1>8. ASSUME NEW d \in dumps, BeginRestore(d) PROVE PlaceInv'
  BY <1>8 DEF BeginRestore, RestoreAt, Undisturbed, PlaceInv, MarkInv, SiteTypeOK, Dump, Job,
     Restore, Upgrade, Built, Owner, site, files
<1>9. ASSUME NameSafety PROVE PlaceInv'
  <2>1. /\ restore.pc = "safety" /\ job["restore"].pc = "done"
        /\ UNCHANGED <<db, web, dumps, media, recorded, upgrade, sync, stamps, faults>>
    BY <1>9, NameDoes
  <2>2. CASE /\ restore' = [restore EXCEPT !.pc = "stop", !.named = recorded]
             /\ UNCHANGED <<marker, job, since, gone, broken, early, loose>>
    BY <2>1, <2>2 DEF Undisturbed, PlaceInv, MarkInv, SiteTypeOK, Dump, Job, Restore, Upgrade,
       Built, Owner
  <2>3. CASE RestoreEnds /\ job' = [job EXCEPT !["restore"] = JobOff]
    BY <2>1, <2>3 DEF RestoreEnds, Undisturbed, PlaceInv, MarkInv, SiteTypeOK, Dump, Job,
       Restore, Upgrade, Built, Owner, JobOff, RestoreOff
  <2>4. QED
    BY <2>2, <2>3, <1>9, NameDoes
<1>10. ASSUME StopWeb PROVE PlaceInv'
  BY <1>10 DEF StopWeb, RestoreAt, RestoreGoes, Undisturbed, PlaceInv, MarkInv, SiteTypeOK,
     Dump, Job, Restore, Upgrade, Built, Owner, files
<1>11. ASSUME DropDatabase PROVE PlaceInv'
  BY <1>11 DEF DropDatabase, RestoreAt, RestoreGoes, Undisturbed, PlaceInv, MarkInv, SiteTypeOK,
     Dump, Job, Restore, Upgrade, Built, Owner, files
<1>12. ASSUME LoadTables PROVE PlaceInv'
  BY <1>12 DEF LoadTables, RestoreAt, RestoreGoes, Undisturbed, PlaceInv, MarkInv, SiteTypeOK,
     Dump, Job, Restore, Upgrade, Built, Owner, files, history
<1>13. ASSUME LoadRows PROVE PlaceInv'
  BY <1>13 DEF LoadRows, RestoreAt, RestoreGoes, Undisturbed, PlaceInv, MarkInv, SiteTypeOK,
     Dump, Job, Restore, Upgrade, Built, Owner, files
<1>14. ASSUME StartWeb PROVE PlaceInv'
  BY <1>14, WebDoes DEF StartWeb, RestoreAt, RestoreGoes, Undisturbed, PlaceInv, MarkInv,
     SiteTypeOK, Dump, Job, Restore, Upgrade, Built, Owner, files, history
<1>15. ASSUME RestoreFinishes PROVE PlaceInv'
  BY <1>15 DEF RestoreFinishes, RestoreAt, RestoreEnds, Undisturbed, PlaceInv, MarkInv,
     SiteTypeOK, Dump, Job, Restore, Upgrade, Built, Owner, JobOff, RestoreOff, site, files
<1>16. ASSUME RestoreStops PROVE PlaceInv'
  BY <1>16 DEF RestoreStops, RestoreAt, RestoreEnds, Undisturbed, PlaceInv, MarkInv, SiteTypeOK,
     Dump, Job, Restore, Upgrade, Built, Owner, JobOff, RestoreOff, site, files
<1>17. ASSUME UpgradeLooks PROVE PlaceInv'
  BY <1>17 DEF UpgradeLooks, Undisturbed, PlaceInv, MarkInv, SiteTypeOK, Dump, Job, Restore,
     Upgrade, Built, Owner, UpgradeOff, site, files, history
<1>18. ASSUME UpgradeNames PROVE PlaceInv'
  BY <1>18 DEF UpgradeNames, Undisturbed, PlaceInv, MarkInv, SiteTypeOK, Dump, Job, Restore,
     Upgrade, Built, Owner, site, files, history
<1>19. ASSUME UpgradeBuilds PROVE PlaceInv'
  BY <1>19 DEF UpgradeBuilds, UpgradeEnds, WebStarts, Undisturbed, PlaceInv, MarkInv,
     SiteTypeOK, Dump, Job, Restore, Upgrade, Built, Owner, JobOff, UpgradeOff, files
<1>20. ASSUME UpgradeStops PROVE PlaceInv'
  BY <1>20 DEF UpgradeStops, UpgradeEnds, Undisturbed, PlaceInv, MarkInv, SiteTypeOK, Dump, Job,
     Restore, Upgrade, Built, Owner, JobOff, UpgradeOff, site, files
<1>21. ASSUME SyncLooks PROVE PlaceInv'
  BY <1>21 DEF SyncLooks, Undisturbed, PlaceInv, MarkInv, SiteTypeOK, Dump, Job, Restore,
     Upgrade, Built, Owner, site, files, history
<1>22. ASSUME SyncUps PROVE PlaceInv'
  <2>1. CASE web
    BY <2>1, <1>22 DEF SyncUps, Undisturbed, PlaceInv, MarkInv, SiteTypeOK, Dump, Job, Restore,
       Upgrade, Built, Owner, site, files
  <2>2. CASE ~web
    BY <2>2, <1>22, WebDoes DEF SyncUps, Undisturbed, PlaceInv, MarkInv, SiteTypeOK, Dump, Job,
       Restore, Upgrade, Built, Owner, site, files
  <2>3. QED
    BY <2>1, <2>2
<1>23. ASSUME Reboot PROVE PlaceInv'
  BY <1>23 DEF Reboot, Undisturbed, PlaceInv, MarkInv, SiteTypeOK, Dump, Job, Restore, Upgrade,
     Built, Owner, JobOff, RestoreOff, UpgradeOff, site, files
<1>24. ASSUME DeleteMarker PROVE PlaceInv'
  BY <1>24 DEF DeleteMarker, RestoreAt, Undisturbed, PlaceInv, MarkInv, SiteTypeOK, Dump, Job,
     Restore, Upgrade, Built, Owner, site, files
<1>25. QED
  BY <1>1, <1>2, <1>3, <1>4, <1>5, <1>6, <1>7, <1>8, <1>9, <1>10, <1>11, <1>12, <1>13, <1>14,
     <1>15, <1>16, <1>17, <1>18, <1>19, <1>20, <1>21, <1>22, <1>23, <1>24 DEF SiteNext,
     BackupStep, RestoreStep

\* No script comes to work while the marker is there: they look at it first.
LEMMA MarkStep ==
  ASSUME SiteTypeOK, Undisturbed, SiteNext
  PROVE  MarkInv'
<1>1. ASSUME NEW r \in Entry, Save(r) PROVE MarkInv'
  BY <1>1 DEF Save, Undisturbed, PlaceInv, MarkInv, Stamp, SiteTypeOK, Dump, Job, Restore,
     Upgrade, Built, Owner, files
<1>2. ASSUME NEW o \in Owner, BeginBackup(o) PROVE MarkInv'
  <2>1. PlaceInv
    BY DEF Undisturbed
  <2>2. CASE (~marker \/ o = "restore") /\ StartNow(o)
    BY <2>1, <2>2, <1>2, BeginDoes, StartDoes DEF Undisturbed, PlaceInv, MarkInv, Stamp,
       SiteTypeOK, Dump, Job, Restore, Upgrade, Built, Owner
  <2>3. CASE ~((~marker \/ o = "restore") /\ StartNow(o))
    <3>1. /\ job[o].pc = "off" /\ upgrade.pc = "backup" /\ marker /\ o = "upgrade"
          /\ upgrade' = [upgrade EXCEPT !.pc = "name", !.skipped = TRUE]
          /\ UNCHANGED <<db, web, dumps, media, recorded, marker, job, restore, sync, stamps,
                         since, gone, broken, early, loose, faults>>
      BY <2>1, <2>3, <1>2, BeginDoes
    <3>2. QED
      BY <3>1 DEF Undisturbed, PlaceInv, MarkInv, Stamp, SiteTypeOK, Dump, Job, Restore,
         Upgrade, Built, Owner
  <2>4. QED
    BY <2>2, <2>3
<1>3. ASSUME NEW o \in Owner, DumpBegins(o) PROVE MarkInv'
  BY <1>3 DEF DumpBegins, Undisturbed, PlaceInv, MarkInv, Stamp, SiteTypeOK, Dump, Job, Restore,
     Upgrade, Built, Owner, site, files
<1>4. ASSUME NEW o \in Owner, ReadBack(o) PROVE MarkInv'
  BY <1>4 DEF ReadBack, Undisturbed, PlaceInv, MarkInv, Stamp, SiteTypeOK, Dump, Job, Restore,
     Upgrade, Built, Owner, site, history
<1>5. ASSUME NEW o \in Owner, ArchiveMedia(o) PROVE MarkInv'
  BY <1>5 DEF ArchiveMedia, Undisturbed, PlaceInv, MarkInv, Stamp, SiteTypeOK, Dump, Job,
     Restore, Upgrade, Built, Owner, site, history
<1>6. ASSUME NEW o \in Owner, KeepRecord(o) PROVE MarkInv'
  <2>1. CASE o = "schedule"
    BY <2>1, <1>6, RecordDoes DEF Undisturbed, PlaceInv, MarkInv, Stamp, SiteTypeOK, Dump, Job,
       Restore, Upgrade, Built, Owner, JobOff
  <2>2. CASE o # "schedule"
    BY <2>2, <1>6, RecordDoes DEF Undisturbed, PlaceInv, MarkInv, Stamp, SiteTypeOK, Dump, Job,
       Restore, Upgrade, Built, Owner, JobOff
  <2>3. QED
    BY <2>1, <2>2
<1>7. ASSUME NEW o \in Owner, BackupFails(o) PROVE MarkInv'
  <2>1. /\ job[o].pc \notin {"off", "done"}
        /\ job' = [job EXCEPT ![o] = JobOff]
        /\ dumps' = {d \in dumps : d.stamp # job[o].stamp}
        /\ media' = media \ {job[o].stamp}
        /\ upgrade' = IF o = "upgrade" THEN UpgradeOff ELSE upgrade
        /\ UNCHANGED <<db, web, recorded, sync, stamps>>
    BY <1>7, FailDoes
  <2>2. CASE o = "restore"
    <3>1. RestoreEnds
      BY <2>2, <1>7, FailDoes
    <3>2. QED
      BY <2>1, <2>2, <3>1 DEF RestoreEnds, Undisturbed, PlaceInv, MarkInv, Stamp, SiteTypeOK,
         Dump, Job, Restore, Upgrade, Built, Owner, JobOff, RestoreOff, UpgradeOff
  <2>3. CASE o # "restore"
    <3>1. early' = early \ {o} /\ UNCHANGED <<marker, restore, since, gone, broken, loose>>
      BY <2>3, <1>7, FailDoes
    <3>2. QED
      BY <2>1, <2>3, <3>1 DEF Undisturbed, PlaceInv, MarkInv, Stamp, SiteTypeOK, Dump, Job,
         Restore, Upgrade, Built, Owner, JobOff, UpgradeOff
  <2>4. QED
    BY <2>2, <2>3
<1>8. ASSUME NEW d \in dumps, BeginRestore(d) PROVE MarkInv'
  BY <1>8 DEF BeginRestore, RestoreAt, Undisturbed, PlaceInv, MarkInv, Stamp, SiteTypeOK, Dump,
     Job, Restore, Upgrade, Built, Owner, site, files
<1>9. ASSUME NameSafety PROVE MarkInv'
  <2>1. /\ restore.pc = "safety" /\ job["restore"].pc = "done"
        /\ UNCHANGED <<db, web, dumps, media, recorded, upgrade, sync, stamps, faults>>
    BY <1>9, NameDoes
  <2>2. CASE /\ restore' = [restore EXCEPT !.pc = "stop", !.named = recorded]
             /\ UNCHANGED <<marker, job, since, gone, broken, early, loose>>
    BY <2>1, <2>2 DEF Undisturbed, PlaceInv, MarkInv, Stamp, SiteTypeOK, Dump, Job, Restore,
       Upgrade, Built, Owner
  <2>3. CASE RestoreEnds /\ job' = [job EXCEPT !["restore"] = JobOff]
    BY <2>1, <2>3 DEF RestoreEnds, Undisturbed, PlaceInv, MarkInv, Stamp, SiteTypeOK, Dump, Job,
       Restore, Upgrade, Built, Owner, JobOff, RestoreOff
  <2>4. QED
    BY <2>2, <2>3, <1>9, NameDoes
<1>10. ASSUME StopWeb PROVE MarkInv'
  BY <1>10 DEF StopWeb, RestoreAt, RestoreGoes, Undisturbed, PlaceInv, MarkInv, Stamp,
     SiteTypeOK, Dump, Job, Restore, Upgrade, Built, Owner, files
<1>11. ASSUME DropDatabase PROVE MarkInv'
  BY <1>11 DEF DropDatabase, RestoreAt, RestoreGoes, Undisturbed, PlaceInv, MarkInv, Stamp,
     SiteTypeOK, Dump, Job, Restore, Upgrade, Built, Owner, files
<1>12. ASSUME LoadTables PROVE MarkInv'
  BY <1>12 DEF LoadTables, RestoreAt, RestoreGoes, Undisturbed, PlaceInv, MarkInv, Stamp,
     SiteTypeOK, Dump, Job, Restore, Upgrade, Built, Owner, files, history
<1>13. ASSUME LoadRows PROVE MarkInv'
  BY <1>13 DEF LoadRows, RestoreAt, RestoreGoes, Undisturbed, PlaceInv, MarkInv, Stamp,
     SiteTypeOK, Dump, Job, Restore, Upgrade, Built, Owner, files
<1>14. ASSUME StartWeb PROVE MarkInv'
  BY <1>14, WebDoes DEF StartWeb, RestoreAt, RestoreGoes, Undisturbed, PlaceInv, MarkInv, Stamp,
     SiteTypeOK, Dump, Job, Restore, Upgrade, Built, Owner, files, history
<1>15. ASSUME RestoreFinishes PROVE MarkInv'
  BY <1>15 DEF RestoreFinishes, RestoreAt, RestoreEnds, Undisturbed, PlaceInv, MarkInv, Stamp,
     SiteTypeOK, Dump, Job, Restore, Upgrade, Built, Owner, JobOff, RestoreOff, site, files
<1>16. ASSUME RestoreStops PROVE MarkInv'
  BY <1>16 DEF RestoreStops, RestoreAt, RestoreEnds, Undisturbed, PlaceInv, MarkInv, Stamp,
     SiteTypeOK, Dump, Job, Restore, Upgrade, Built, Owner, JobOff, RestoreOff, site, files
<1>17. ASSUME UpgradeLooks PROVE MarkInv'
  BY <1>17 DEF UpgradeLooks, Undisturbed, PlaceInv, MarkInv, Stamp, SiteTypeOK, Dump, Job,
     Restore, Upgrade, Built, Owner, UpgradeOff, site, files, history
<1>18. ASSUME UpgradeNames PROVE MarkInv'
  BY <1>18 DEF UpgradeNames, Undisturbed, PlaceInv, MarkInv, Stamp, SiteTypeOK, Dump, Job,
     Restore, Upgrade, Built, Owner, site, files, history
<1>19. ASSUME UpgradeBuilds PROVE MarkInv'
  BY <1>19 DEF UpgradeBuilds, UpgradeEnds, WebStarts, Undisturbed, PlaceInv, MarkInv, Stamp,
     SiteTypeOK, Dump, Job, Restore, Upgrade, Built, Owner, JobOff, UpgradeOff, files
<1>20. ASSUME UpgradeStops PROVE MarkInv'
  BY <1>20 DEF UpgradeStops, UpgradeEnds, Undisturbed, PlaceInv, MarkInv, Stamp, SiteTypeOK,
     Dump, Job, Restore, Upgrade, Built, Owner, JobOff, UpgradeOff, site, files
<1>21. ASSUME SyncLooks PROVE MarkInv'
  BY <1>21 DEF SyncLooks, Undisturbed, PlaceInv, MarkInv, Stamp, SiteTypeOK, Dump, Job, Restore,
     Upgrade, Built, Owner, site, files, history
<1>22. ASSUME SyncUps PROVE MarkInv'
  <2>1. CASE web
    BY <2>1, <1>22 DEF SyncUps, Undisturbed, PlaceInv, MarkInv, Stamp, SiteTypeOK, Dump, Job,
       Restore, Upgrade, Built, Owner, site, files
  <2>2. CASE ~web
    BY <2>2, <1>22, WebDoes DEF SyncUps, Undisturbed, PlaceInv, MarkInv, Stamp, SiteTypeOK,
       Dump, Job, Restore, Upgrade, Built, Owner, site, files
  <2>3. QED
    BY <2>1, <2>2
<1>23. ASSUME Reboot PROVE MarkInv'
  BY <1>23 DEF Reboot, Undisturbed, PlaceInv, MarkInv, Stamp, SiteTypeOK, Dump, Job, Restore,
     Upgrade, Built, Owner, JobOff, RestoreOff, UpgradeOff, site, files
<1>24. ASSUME DeleteMarker PROVE MarkInv'
  BY <1>24 DEF DeleteMarker, RestoreAt, Undisturbed, PlaceInv, MarkInv, Stamp, SiteTypeOK, Dump,
     Job, Restore, Upgrade, Built, Owner, site, files
<1>25. QED
  BY <1>1, <1>2, <1>3, <1>4, <1>5, <1>6, <1>7, <1>8, <1>9, <1>10, <1>11, <1>12, <1>13, <1>14,
     <1>15, <1>16, <1>17, <1>18, <1>19, <1>20, <1>21, <1>22, <1>23, <1>24 DEF SiteNext,
     BackupStep, RestoreStep

\* A half-built database is made by a restore only, behind its marker, and is served or
\* dumped by who passed the marker before.
LEMMA BuiltStep ==
  ASSUME SiteTypeOK, Undisturbed, SiteNext
  PROVE  BuiltInv'
<1>1. ASSUME NEW r \in Entry, Save(r) PROVE BuiltInv'
  BY <1>1 DEF Save, Undisturbed, PlaceInv, MarkInv, BuiltInv, HalfBuiltLeftAlone, SiteTypeOK,
     Dump, Job, Restore, Upgrade, Built, Owner, files
<1>2. ASSUME NEW o \in Owner, BeginBackup(o) PROVE BuiltInv'
  <2>1. PlaceInv
    BY DEF Undisturbed
  <2>2. CASE (~marker \/ o = "restore") /\ StartNow(o)
    BY <2>1, <2>2, <1>2, BeginDoes, StartDoes DEF Undisturbed, PlaceInv, MarkInv, BuiltInv,
       HalfBuiltLeftAlone, SiteTypeOK, Dump, Job, Restore, Upgrade, Built, Owner
  <2>3. CASE ~((~marker \/ o = "restore") /\ StartNow(o))
    <3>1. /\ job[o].pc = "off" /\ upgrade.pc = "backup" /\ marker /\ o = "upgrade"
          /\ upgrade' = [upgrade EXCEPT !.pc = "name", !.skipped = TRUE]
          /\ UNCHANGED <<db, web, dumps, media, recorded, marker, job, restore, sync, stamps,
                         since, gone, broken, early, loose, faults>>
      BY <2>1, <2>3, <1>2, BeginDoes
    <3>2. QED
      BY <3>1 DEF Undisturbed, PlaceInv, MarkInv, BuiltInv, HalfBuiltLeftAlone, SiteTypeOK,
         Dump, Job, Restore, Upgrade, Built, Owner
  <2>4. QED
    BY <2>2, <2>3
<1>3. ASSUME NEW o \in Owner, DumpBegins(o) PROVE BuiltInv'
  BY <1>3 DEF DumpBegins, Undisturbed, PlaceInv, MarkInv, BuiltInv, HalfBuiltLeftAlone,
     SiteTypeOK, Dump, Job, Restore, Upgrade, Built, Owner, site, files
<1>4. ASSUME NEW o \in Owner, ReadBack(o) PROVE BuiltInv'
  BY <1>4 DEF ReadBack, Undisturbed, PlaceInv, MarkInv, BuiltInv, HalfBuiltLeftAlone,
     SiteTypeOK, Dump, Job, Restore, Upgrade, Built, Owner, site, history
<1>5. ASSUME NEW o \in Owner, ArchiveMedia(o) PROVE BuiltInv'
  BY <1>5 DEF ArchiveMedia, Undisturbed, PlaceInv, MarkInv, BuiltInv, HalfBuiltLeftAlone,
     SiteTypeOK, Dump, Job, Restore, Upgrade, Built, Owner, site, history
<1>6. ASSUME NEW o \in Owner, KeepRecord(o) PROVE BuiltInv'
  <2>1. CASE o = "schedule"
    BY <2>1, <1>6, RecordDoes DEF Undisturbed, PlaceInv, MarkInv, BuiltInv, HalfBuiltLeftAlone,
       SiteTypeOK, Dump, Job, Restore, Upgrade, Built, Owner, JobOff
  <2>2. CASE o # "schedule"
    BY <2>2, <1>6, RecordDoes DEF Undisturbed, PlaceInv, MarkInv, BuiltInv, HalfBuiltLeftAlone,
       SiteTypeOK, Dump, Job, Restore, Upgrade, Built, Owner, JobOff
  <2>3. QED
    BY <2>1, <2>2
<1>7. ASSUME NEW o \in Owner, BackupFails(o) PROVE BuiltInv'
  <2>1. /\ job[o].pc \notin {"off", "done"}
        /\ job' = [job EXCEPT ![o] = JobOff]
        /\ dumps' = {d \in dumps : d.stamp # job[o].stamp}
        /\ media' = media \ {job[o].stamp}
        /\ upgrade' = IF o = "upgrade" THEN UpgradeOff ELSE upgrade
        /\ UNCHANGED <<db, web, recorded, sync, stamps>>
    BY <1>7, FailDoes
  <2>2. CASE o = "restore"
    <3>1. RestoreEnds
      BY <2>2, <1>7, FailDoes
    <3>2. QED
      BY <2>1, <2>2, <3>1 DEF RestoreEnds, Undisturbed, PlaceInv, MarkInv, BuiltInv,
         HalfBuiltLeftAlone, SiteTypeOK, Dump, Job, Restore, Upgrade, Built, Owner, JobOff,
         RestoreOff, UpgradeOff
  <2>3. CASE o # "restore"
    <3>1. early' = early \ {o} /\ UNCHANGED <<marker, restore, since, gone, broken, loose>>
      BY <2>3, <1>7, FailDoes
    <3>2. QED
      BY <2>1, <2>3, <3>1 DEF Undisturbed, PlaceInv, MarkInv, BuiltInv, HalfBuiltLeftAlone,
         SiteTypeOK, Dump, Job, Restore, Upgrade, Built, Owner, JobOff, UpgradeOff
  <2>4. QED
    BY <2>2, <2>3
<1>8. ASSUME NEW d \in dumps, BeginRestore(d) PROVE BuiltInv'
  BY <1>8 DEF BeginRestore, RestoreAt, Undisturbed, PlaceInv, MarkInv, BuiltInv,
     HalfBuiltLeftAlone, SiteTypeOK, Dump, Job, Restore, Upgrade, Built, Owner, site, files
<1>9. ASSUME NameSafety PROVE BuiltInv'
  <2>1. /\ restore.pc = "safety" /\ job["restore"].pc = "done"
        /\ UNCHANGED <<db, web, dumps, media, recorded, upgrade, sync, stamps, faults>>
    BY <1>9, NameDoes
  <2>2. CASE /\ restore' = [restore EXCEPT !.pc = "stop", !.named = recorded]
             /\ UNCHANGED <<marker, job, since, gone, broken, early, loose>>
    BY <2>1, <2>2 DEF Undisturbed, PlaceInv, MarkInv, BuiltInv, HalfBuiltLeftAlone, SiteTypeOK,
       Dump, Job, Restore, Upgrade, Built, Owner
  <2>3. CASE RestoreEnds /\ job' = [job EXCEPT !["restore"] = JobOff]
    BY <2>1, <2>3 DEF RestoreEnds, Undisturbed, PlaceInv, MarkInv, BuiltInv, HalfBuiltLeftAlone,
       SiteTypeOK, Dump, Job, Restore, Upgrade, Built, Owner, JobOff, RestoreOff
  <2>4. QED
    BY <2>2, <2>3, <1>9, NameDoes
<1>10. ASSUME StopWeb PROVE BuiltInv'
  BY <1>10 DEF StopWeb, RestoreAt, RestoreGoes, Undisturbed, PlaceInv, MarkInv, BuiltInv,
     HalfBuiltLeftAlone, SiteTypeOK, Dump, Job, Restore, Upgrade, Built, Owner, files
<1>11. ASSUME DropDatabase PROVE BuiltInv'
  BY <1>11 DEF DropDatabase, RestoreAt, RestoreGoes, Undisturbed, PlaceInv, MarkInv, BuiltInv,
     HalfBuiltLeftAlone, SiteTypeOK, Dump, Job, Restore, Upgrade, Built, Owner, files
<1>12. ASSUME LoadTables PROVE BuiltInv'
  BY <1>12 DEF LoadTables, RestoreAt, RestoreGoes, Undisturbed, PlaceInv, MarkInv, BuiltInv,
     HalfBuiltLeftAlone, SiteTypeOK, Dump, Job, Restore, Upgrade, Built, Owner, files, history
<1>13. ASSUME LoadRows PROVE BuiltInv'
  BY <1>13 DEF LoadRows, RestoreAt, RestoreGoes, Undisturbed, PlaceInv, MarkInv, BuiltInv,
     HalfBuiltLeftAlone, SiteTypeOK, Dump, Job, Restore, Upgrade, Built, Owner, files
<1>14. ASSUME StartWeb PROVE BuiltInv'
  BY <1>14, WebDoes DEF StartWeb, RestoreAt, RestoreGoes, Undisturbed, PlaceInv, MarkInv,
     BuiltInv, HalfBuiltLeftAlone, SiteTypeOK, Dump, Job, Restore, Upgrade, Built, Owner, files,
     history
<1>15. ASSUME RestoreFinishes PROVE BuiltInv'
  BY <1>15 DEF RestoreFinishes, RestoreAt, RestoreEnds, Undisturbed, PlaceInv, MarkInv,
     BuiltInv, HalfBuiltLeftAlone, SiteTypeOK, Dump, Job, Restore, Upgrade, Built, Owner,
     JobOff, RestoreOff, site, files
<1>16. ASSUME RestoreStops PROVE BuiltInv'
  BY <1>16 DEF RestoreStops, RestoreAt, RestoreEnds, Undisturbed, PlaceInv, MarkInv, BuiltInv,
     HalfBuiltLeftAlone, SiteTypeOK, Dump, Job, Restore, Upgrade, Built, Owner, JobOff,
     RestoreOff, site, files
<1>17. ASSUME UpgradeLooks PROVE BuiltInv'
  BY <1>17 DEF UpgradeLooks, Undisturbed, PlaceInv, MarkInv, BuiltInv, HalfBuiltLeftAlone,
     SiteTypeOK, Dump, Job, Restore, Upgrade, Built, Owner, UpgradeOff, site, files, history
<1>18. ASSUME UpgradeNames PROVE BuiltInv'
  BY <1>18 DEF UpgradeNames, Undisturbed, PlaceInv, MarkInv, BuiltInv, HalfBuiltLeftAlone,
     SiteTypeOK, Dump, Job, Restore, Upgrade, Built, Owner, site, files, history
<1>19. ASSUME UpgradeBuilds PROVE BuiltInv'
  BY <1>19 DEF UpgradeBuilds, UpgradeEnds, WebStarts, Undisturbed, PlaceInv, MarkInv, BuiltInv,
     HalfBuiltLeftAlone, SiteTypeOK, Dump, Job, Restore, Upgrade, Built, Owner, JobOff,
     UpgradeOff, files
<1>20. ASSUME UpgradeStops PROVE BuiltInv'
  BY <1>20 DEF UpgradeStops, UpgradeEnds, Undisturbed, PlaceInv, MarkInv, BuiltInv,
     HalfBuiltLeftAlone, SiteTypeOK, Dump, Job, Restore, Upgrade, Built, Owner, JobOff,
     UpgradeOff, site, files
<1>21. ASSUME SyncLooks PROVE BuiltInv'
  BY <1>21 DEF SyncLooks, Undisturbed, PlaceInv, MarkInv, BuiltInv, HalfBuiltLeftAlone,
     SiteTypeOK, Dump, Job, Restore, Upgrade, Built, Owner, site, files, history
<1>22. ASSUME SyncUps PROVE BuiltInv'
  <2>1. CASE web
    BY <2>1, <1>22 DEF SyncUps, Undisturbed, PlaceInv, MarkInv, BuiltInv, HalfBuiltLeftAlone,
       SiteTypeOK, Dump, Job, Restore, Upgrade, Built, Owner, site, files
  <2>2. CASE ~web
    BY <2>2, <1>22, WebDoes DEF SyncUps, Undisturbed, PlaceInv, MarkInv, BuiltInv,
       HalfBuiltLeftAlone, SiteTypeOK, Dump, Job, Restore, Upgrade, Built, Owner, site, files
  <2>3. QED
    BY <2>1, <2>2
<1>23. ASSUME Reboot PROVE BuiltInv'
  BY <1>23 DEF Reboot, Undisturbed, PlaceInv, MarkInv, BuiltInv, HalfBuiltLeftAlone, SiteTypeOK,
     Dump, Job, Restore, Upgrade, Built, Owner, JobOff, RestoreOff, UpgradeOff, site, files
<1>24. ASSUME DeleteMarker PROVE BuiltInv'
  BY <1>24 DEF DeleteMarker, RestoreAt, Undisturbed, PlaceInv, MarkInv, BuiltInv,
     HalfBuiltLeftAlone, SiteTypeOK, Dump, Job, Restore, Upgrade, Built, Owner, site, files
<1>25. QED
  BY <1>1, <1>2, <1>3, <1>4, <1>5, <1>6, <1>7, <1>8, <1>9, <1>10, <1>11, <1>12, <1>13, <1>14,
     <1>15, <1>16, <1>17, <1>18, <1>19, <1>20, <1>21, <1>22, <1>23, <1>24 DEF SiteNext,
     BackupStep, RestoreStep

-----------------------------------------------------------------------------
(* The files a prune keeps *)

\* Fewer stamps than are kept come after s, so a prune keeps s.
LEMMA PruneKeeps ==
  ASSUME NEW n \in Nat, NEW S \in SUBSET (0 .. n), NEW s \in S, n < s + Keep
  PROVE  s \in Newest(S)
<1>0. s \in Nat /\ s <= n /\ \A t \in S : t \in Nat /\ t <= n
  OBVIOUS
<1> DEFINE later == {t \in S : t > s}
<1>1. ASSUME NEW t \in S, t > s PROVE t \in (s + 1) .. n
  BY <1>0, <1>1
<1>2. IsFiniteSet((s + 1) .. n) /\ Cardinality((s + 1) .. n) <= n - s
  <2>1. s + 1 \in Int /\ n \in Int
    BY <1>0
  <2>2. /\ IsFiniteSet((s + 1) .. n)
        /\ Cardinality((s + 1) .. n) = IF s + 1 > n THEN 0 ELSE n - (s + 1) + 1
    BY <2>1, FS_Interval
  <2>3. QED
    BY <1>0, <2>2
<1>3. IsFiniteSet(later) /\ Cardinality(later) <= Cardinality((s + 1) .. n)
  BY <1>1, <1>2, FS_Subset
<1>4. Cardinality(later) \in Nat /\ Cardinality((s + 1) .. n) \in Nat
  BY <1>2, <1>3, FS_CardinalityType
<1>5. Cardinality(later) < Keep
  BY <1>0, <1>2, <1>3, <1>4, KeepAssumption
<1>6. QED
  BY <1>5 DEF Newest

\* While no script is overtaken, a prune takes no file of a script's backup away.
LEMMA PruneSpares ==
  ASSUME SiteTypeOK, StampInv, NotOvertaken, NEW o \in Owner, KeepRecord(o),
         NEW p \in Owner, job[p].pc # "off"
  PROVE  /\ \A d \in dumps : d.stamp = job[p].stamp => d \in dumps'
         /\ job[p].stamp \in media => job[p].stamp \in media'
<1> DEFINE stampsOf == {e.stamp : e \in dumps}
<1>1. stamps \in Nat /\ stamps < job[p].stamp + Keep
  BY SiteBoundsAssumption DEF SiteTypeOK, Stamp, NotOvertaken
<1>2. stampsOf \subseteq 0 .. stamps /\ media \subseteq 0 .. stamps
  BY SiteBoundsAssumption DEF SiteTypeOK, Dump, Stamp, StampInv
<1>3. CASE o = "restore"
  BY <1>3 DEF KeepRecord
<1>4. CASE o # "restore"
  <2>1. dumps' = {d \in dumps : d.stamp \in Newest(stampsOf)} /\ media' = Newest(media)
    BY <1>4 DEF KeepRecord
  <2>2. ASSUME NEW d \in dumps, d.stamp = job[p].stamp PROVE d \in dumps'
    <3>1. d.stamp \in stampsOf
      OBVIOUS
    <3>2. d.stamp \in Newest(stampsOf)
      BY <1>1, <1>2, <2>2, <3>1, PruneKeeps
    <3>3. QED
      BY <2>1, <3>2
  <2>3. ASSUME job[p].stamp \in media PROVE job[p].stamp \in media'
    BY <1>1, <1>2, <2>1, <2>3, PruneKeeps
  <2>4. QED
    BY <2>2, <2>3
<1>5. QED
  BY <1>3, <1>4

\* A stamp is given once, and a run that fails or ends takes no other's with it.
LEMMA StampStep ==
  ASSUME SiteTypeOK, Undisturbed, SiteNext
  PROVE  StampInv'
<1>1. ASSUME NEW r \in Entry, Save(r) PROVE StampInv'
  BY <1>1, SiteBoundsAssumption DEF Save, Undisturbed, PlaceInv, MarkInv, StampInv, Stamp,
     SiteTypeOK, Dump, Job, Restore, Upgrade, Built, Owner, files
<1>2. ASSUME NEW o \in Owner, BeginBackup(o) PROVE StampInv'
  <2>1. PlaceInv
    BY DEF Undisturbed
  <2>2. CASE (~marker \/ o = "restore") /\ StartNow(o)
    BY <2>1, <2>2, <1>2, BeginDoes, StartDoes DEF Undisturbed, PlaceInv, MarkInv, StampInv,
       Stamp, SiteTypeOK, Dump, Job, Restore, Upgrade, Built, Owner
  <2>3. CASE ~((~marker \/ o = "restore") /\ StartNow(o))
    <3>1. /\ job[o].pc = "off" /\ upgrade.pc = "backup" /\ marker /\ o = "upgrade"
          /\ upgrade' = [upgrade EXCEPT !.pc = "name", !.skipped = TRUE]
          /\ UNCHANGED <<db, web, dumps, media, recorded, marker, job, restore, sync, stamps,
                         since, gone, broken, early, loose, faults>>
      BY <2>1, <2>3, <1>2, BeginDoes
    <3>2. QED
      BY <3>1 DEF Undisturbed, PlaceInv, MarkInv, StampInv, Stamp, SiteTypeOK, Dump, Job,
         Restore, Upgrade, Built, Owner
  <2>4. QED
    BY <2>2, <2>3
<1>3. ASSUME NEW o \in Owner, DumpBegins(o) PROVE StampInv'
  <2>1. \A q \in Owner : /\ job'[q].stamp = job[q].stamp
                         /\ job'[q].pc = "off" <=> job[q].pc = "off"
                         /\ job'[q].pc = "done" <=> job[q].pc = "done"
    BY <1>3 DEF DumpBegins, SiteTypeOK, Job
  <2>2. UNCHANGED <<dumps, media, recorded, stamps>> /\ StampInv
    BY <1>3 DEF DumpBegins, files, Undisturbed
  <2>3. "restore" \in Owner
    BY DEF Owner
  <2>4. QED
    BY <2>1, <2>2, <2>3 DEF StampInv
<1>4. ASSUME NEW o \in Owner, ReadBack(o) PROVE StampInv'
  <2>1. \A q \in Owner : /\ job'[q].stamp = job[q].stamp
                         /\ job'[q].pc = "off" <=> job[q].pc = "off"
                         /\ job'[q].pc = "done" <=> job[q].pc = "done"
    BY <1>4 DEF ReadBack, SiteTypeOK, Job
  <2>2. UNCHANGED <<media, recorded, stamps>> /\ StampInv
    BY <1>4 DEF ReadBack, Undisturbed
  <2>3. \A d \in dumps' : d \in dumps \/ d.stamp = job[o].stamp
    BY <1>4 DEF ReadBack
  <2>4. \A d \in dumps' : d.stamp <= stamps
    BY <2>2, <2>3 DEF StampInv
  <2>5. "restore" \in Owner
    BY DEF Owner
  <2>6. QED
    BY <2>1, <2>2, <2>4, <2>5 DEF StampInv
<1>5. ASSUME NEW o \in Owner, ArchiveMedia(o) PROVE StampInv'
  BY <1>5, SiteBoundsAssumption DEF ArchiveMedia, Undisturbed, PlaceInv, MarkInv, StampInv,
     Stamp, SiteTypeOK, Dump, Job, Restore, Upgrade, Built, Owner, site, history
<1>6. ASSUME NEW o \in Owner, KeepRecord(o) PROVE StampInv'
  <2>1. CASE o = "schedule"
    BY <2>1, <1>6, RecordDoes DEF Undisturbed, PlaceInv, MarkInv, StampInv, Stamp, SiteTypeOK,
       Dump, Job, Restore, Upgrade, Built, Owner, JobOff
  <2>2. CASE o # "schedule"
    BY <2>2, <1>6, RecordDoes DEF Undisturbed, PlaceInv, MarkInv, StampInv, Stamp, SiteTypeOK,
       Dump, Job, Restore, Upgrade, Built, Owner, JobOff
  <2>3. QED
    BY <2>1, <2>2
<1>7. ASSUME NEW o \in Owner, BackupFails(o) PROVE StampInv'
  <2>1. /\ job[o].pc \notin {"off", "done"}
        /\ job' = [job EXCEPT ![o] = JobOff]
        /\ dumps' = {d \in dumps : d.stamp # job[o].stamp}
        /\ media' = media \ {job[o].stamp}
        /\ upgrade' = IF o = "upgrade" THEN UpgradeOff ELSE upgrade
        /\ UNCHANGED <<db, web, recorded, sync, stamps>>
    BY <1>7, FailDoes
  <2>2. CASE o = "restore"
    <3>1. RestoreEnds
      BY <2>2, <1>7, FailDoes
    <3>2. QED
      BY <2>1, <2>2, <3>1 DEF RestoreEnds, Undisturbed, PlaceInv, MarkInv, StampInv, Stamp,
         SiteTypeOK, Dump, Job, Restore, Upgrade, Built, Owner, JobOff, RestoreOff, UpgradeOff
  <2>3. CASE o # "restore"
    <3>1. early' = early \ {o} /\ UNCHANGED <<marker, restore, since, gone, broken, loose>>
      BY <2>3, <1>7, FailDoes
    <3>2. QED
      BY <2>1, <2>3, <3>1 DEF Undisturbed, PlaceInv, MarkInv, StampInv, Stamp, SiteTypeOK, Dump,
         Job, Restore, Upgrade, Built, Owner, JobOff, UpgradeOff
  <2>4. QED
    BY <2>2, <2>3
<1>8. ASSUME NEW d \in dumps, BeginRestore(d) PROVE StampInv'
  BY <1>8, SiteBoundsAssumption DEF BeginRestore, RestoreAt, Undisturbed, PlaceInv, MarkInv,
     StampInv, Stamp, SiteTypeOK, Dump, Job, Restore, Upgrade, Built, Owner, site, files
<1>9. ASSUME NameSafety PROVE StampInv'
  <2>1. /\ job["restore"].pc = "done"
        /\ UNCHANGED <<dumps, media, recorded, stamps>>
        /\ job' = job \/ job' = [job EXCEPT !["restore"] = JobOff]
    BY <1>9, NameDoes
  <2>2. ASSUME NEW o \in Owner
        PROVE  /\ job'[o] = job[o] \/ (job'[o].pc = "off" /\ job'[o].stamp = 0)
               /\ job[o].pc = "off" => job'[o].pc = "off"
    BY <2>1 DEF SiteTypeOK, JobOff
  <2>3. stamps \in Nat /\ "restore" \in Owner
    BY SiteBoundsAssumption DEF SiteTypeOK, Stamp, Owner
  <2>4. QED
    BY <2>1, <2>2, <2>3 DEF Undisturbed, StampInv
<1>10. ASSUME StopWeb PROVE StampInv'
  BY <1>10, SiteBoundsAssumption DEF StopWeb, RestoreAt, RestoreGoes, Undisturbed, PlaceInv,
     MarkInv, StampInv, Stamp, SiteTypeOK, Dump, Job, Restore, Upgrade, Built, Owner, files
<1>11. ASSUME DropDatabase PROVE StampInv'
  BY <1>11, SiteBoundsAssumption DEF DropDatabase, RestoreAt, RestoreGoes, Undisturbed,
     PlaceInv, MarkInv, StampInv, Stamp, SiteTypeOK, Dump, Job, Restore, Upgrade, Built, Owner,
     files
<1>12. ASSUME LoadTables PROVE StampInv'
  BY <1>12, SiteBoundsAssumption DEF LoadTables, RestoreAt, RestoreGoes, Undisturbed, PlaceInv,
     MarkInv, StampInv, Stamp, SiteTypeOK, Dump, Job, Restore, Upgrade, Built, Owner, files,
     history
<1>13. ASSUME LoadRows PROVE StampInv'
  BY <1>13, SiteBoundsAssumption DEF LoadRows, RestoreAt, RestoreGoes, Undisturbed, PlaceInv,
     MarkInv, StampInv, Stamp, SiteTypeOK, Dump, Job, Restore, Upgrade, Built, Owner, files
<1>14. ASSUME StartWeb PROVE StampInv'
  BY <1>14, WebDoes DEF StartWeb, RestoreAt, RestoreGoes, Undisturbed, PlaceInv, MarkInv,
     StampInv, Stamp, SiteTypeOK, Dump, Job, Restore, Upgrade, Built, Owner, files, history
<1>15. ASSUME RestoreFinishes PROVE StampInv'
  BY <1>15, SiteBoundsAssumption DEF RestoreFinishes, RestoreAt, RestoreEnds, Undisturbed,
     PlaceInv, MarkInv, StampInv, Stamp, SiteTypeOK, Dump, Job, Restore, Upgrade, Built, Owner,
     JobOff, RestoreOff, site, files
<1>16. ASSUME RestoreStops PROVE StampInv'
  BY <1>16, SiteBoundsAssumption DEF RestoreStops, RestoreAt, RestoreEnds, Undisturbed,
     PlaceInv, MarkInv, StampInv, Stamp, SiteTypeOK, Dump, Job, Restore, Upgrade, Built, Owner,
     JobOff, RestoreOff, site, files
<1>17. ASSUME UpgradeLooks PROVE StampInv'
  BY <1>17, SiteBoundsAssumption DEF UpgradeLooks, Undisturbed, PlaceInv, MarkInv, StampInv,
     Stamp, SiteTypeOK, Dump, Job, Restore, Upgrade, Built, Owner, UpgradeOff, site, files,
     history
<1>18. ASSUME UpgradeNames PROVE StampInv'
  BY <1>18, SiteBoundsAssumption DEF UpgradeNames, Undisturbed, PlaceInv, MarkInv, StampInv,
     Stamp, SiteTypeOK, Dump, Job, Restore, Upgrade, Built, Owner, site, files, history
<1>19. ASSUME UpgradeBuilds PROVE StampInv'
  BY <1>19, SiteBoundsAssumption DEF UpgradeBuilds, UpgradeEnds, WebStarts, Undisturbed,
     PlaceInv, MarkInv, StampInv, Stamp, SiteTypeOK, Dump, Job, Restore, Upgrade, Built, Owner,
     JobOff, UpgradeOff, files
<1>20. ASSUME UpgradeStops PROVE StampInv'
  BY <1>20, SiteBoundsAssumption DEF UpgradeStops, UpgradeEnds, Undisturbed, PlaceInv, MarkInv,
     StampInv, Stamp, SiteTypeOK, Dump, Job, Restore, Upgrade, Built, Owner, JobOff, UpgradeOff,
     site, files
<1>21. ASSUME SyncLooks PROVE StampInv'
  BY <1>21, SiteBoundsAssumption DEF SyncLooks, Undisturbed, PlaceInv, MarkInv, StampInv, Stamp,
     SiteTypeOK, Dump, Job, Restore, Upgrade, Built, Owner, site, files, history
<1>22. ASSUME SyncUps PROVE StampInv'
  <2>1. CASE web
    BY <2>1, <1>22 DEF SyncUps, Undisturbed, PlaceInv, MarkInv, StampInv, Stamp, SiteTypeOK,
       Dump, Job, Restore, Upgrade, Built, Owner, site, files
  <2>2. CASE ~web
    BY <2>2, <1>22, WebDoes DEF SyncUps, Undisturbed, PlaceInv, MarkInv, StampInv, Stamp,
       SiteTypeOK, Dump, Job, Restore, Upgrade, Built, Owner, site, files
  <2>3. QED
    BY <2>1, <2>2
<1>23. ASSUME Reboot PROVE StampInv'
  BY <1>23, SiteBoundsAssumption DEF Reboot, Undisturbed, PlaceInv, MarkInv, StampInv, Stamp,
     SiteTypeOK, Dump, Job, Restore, Upgrade, Built, Owner, JobOff, RestoreOff, UpgradeOff,
     site, files
<1>24. ASSUME DeleteMarker PROVE StampInv'
  BY <1>24, SiteBoundsAssumption DEF DeleteMarker, RestoreAt, Undisturbed, PlaceInv, MarkInv,
     StampInv, Stamp, SiteTypeOK, Dump, Job, Restore, Upgrade, Built, Owner, site, files
<1>25. QED
  BY <1>1, <1>2, <1>3, <1>4, <1>5, <1>6, <1>7, <1>8, <1>9, <1>10, <1>11, <1>12, <1>13, <1>14,
     <1>15, <1>16, <1>17, <1>18, <1>19, <1>20, <1>21, <1>22, <1>23, <1>24 DEF SiteNext,
     BackupStep, RestoreStep

\* A backup that no other ran beside is the last that last-backup.json named.
LEMMA AloneStep ==
  ASSUME SiteTypeOK, Undisturbed, KeptInv, SiteNext
  PROVE  AloneInv'
<1>1. ASSUME NEW r \in Entry, Save(r) PROVE AloneInv'
  BY <1>1 DEF Save, Undisturbed, PlaceInv, MarkInv, StampInv, Stamp, KeptInv, AloneInv,
     SiteTypeOK, Dump, Job, Restore, Upgrade, Built, Owner, files
<1>2. ASSUME NEW o \in Owner, BeginBackup(o) PROVE AloneInv'
  <2>1. PlaceInv
    BY DEF Undisturbed
  <2>2. CASE (~marker \/ o = "restore") /\ StartNow(o)
    BY <2>1, <2>2, <1>2, BeginDoes, StartDoes DEF Undisturbed, PlaceInv, MarkInv, StampInv,
       Stamp, KeptInv, AloneInv, SiteTypeOK, Dump, Job, Restore, Upgrade, Built, Owner
  <2>3. CASE ~((~marker \/ o = "restore") /\ StartNow(o))
    <3>1. /\ job[o].pc = "off" /\ upgrade.pc = "backup" /\ marker /\ o = "upgrade"
          /\ upgrade' = [upgrade EXCEPT !.pc = "name", !.skipped = TRUE]
          /\ UNCHANGED <<db, web, dumps, media, recorded, marker, job, restore, sync, stamps,
                         since, gone, broken, early, loose, faults>>
      BY <2>1, <2>3, <1>2, BeginDoes
    <3>2. QED
      BY <3>1 DEF Undisturbed, PlaceInv, MarkInv, StampInv, Stamp, KeptInv, AloneInv,
         SiteTypeOK, Dump, Job, Restore, Upgrade, Built, Owner
  <2>4. QED
    BY <2>2, <2>3
<1>3. ASSUME NEW o \in Owner, DumpBegins(o) PROVE AloneInv'
  BY <1>3 DEF DumpBegins, Undisturbed, PlaceInv, MarkInv, StampInv, Stamp, KeptInv, AloneInv,
     SiteTypeOK, Dump, Job, Restore, Upgrade, Built, Owner, site, files
<1>4. ASSUME NEW o \in Owner, ReadBack(o) PROVE AloneInv'
  BY <1>4 DEF ReadBack, Undisturbed, PlaceInv, MarkInv, StampInv, Stamp, KeptInv, AloneInv,
     SiteTypeOK, Dump, Job, Restore, Upgrade, Built, Owner, site, history
<1>5. ASSUME NEW o \in Owner, ArchiveMedia(o) PROVE AloneInv'
  BY <1>5 DEF ArchiveMedia, Undisturbed, PlaceInv, MarkInv, StampInv, Stamp, KeptInv, AloneInv,
     SiteTypeOK, Dump, Job, Restore, Upgrade, Built, Owner, site, history
<1>6. ASSUME NEW o \in Owner, KeepRecord(o) PROVE AloneInv'
  <2>1. CASE o = "schedule"
    BY <2>1, <1>6, RecordDoes DEF Undisturbed, PlaceInv, MarkInv, StampInv, Stamp, KeptInv,
       AloneInv, SiteTypeOK, Dump, Job, Restore, Upgrade, Built, Owner, JobOff
  <2>2. CASE o # "schedule"
    BY <2>2, <1>6, RecordDoes DEF Undisturbed, PlaceInv, MarkInv, StampInv, Stamp, KeptInv,
       AloneInv, SiteTypeOK, Dump, Job, Restore, Upgrade, Built, Owner, JobOff
  <2>3. QED
    BY <2>1, <2>2
<1>7. ASSUME NEW o \in Owner, BackupFails(o) PROVE AloneInv'
  <2>1. /\ job[o].pc \notin {"off", "done"}
        /\ job' = [job EXCEPT ![o] = JobOff]
        /\ dumps' = {d \in dumps : d.stamp # job[o].stamp}
        /\ media' = media \ {job[o].stamp}
        /\ upgrade' = IF o = "upgrade" THEN UpgradeOff ELSE upgrade
        /\ UNCHANGED <<db, web, recorded, sync, stamps>>
    BY <1>7, FailDoes
  <2>2. CASE o = "restore"
    <3>1. RestoreEnds
      BY <2>2, <1>7, FailDoes
    <3>2. QED
      BY <2>1, <2>2, <3>1 DEF RestoreEnds, Undisturbed, PlaceInv, MarkInv, StampInv, Stamp,
         KeptInv, AloneInv, SiteTypeOK, Dump, Job, Restore, Upgrade, Built, Owner, JobOff,
         RestoreOff, UpgradeOff
  <2>3. CASE o # "restore"
    <3>1. early' = early \ {o} /\ UNCHANGED <<marker, restore, since, gone, broken, loose>>
      BY <2>3, <1>7, FailDoes
    <3>2. QED
      BY <2>1, <2>3, <3>1 DEF Undisturbed, PlaceInv, MarkInv, StampInv, Stamp, KeptInv,
         AloneInv, SiteTypeOK, Dump, Job, Restore, Upgrade, Built, Owner, JobOff, UpgradeOff
  <2>4. QED
    BY <2>2, <2>3
<1>8. ASSUME NEW d \in dumps, BeginRestore(d) PROVE AloneInv'
  BY <1>8 DEF BeginRestore, RestoreAt, Undisturbed, PlaceInv, MarkInv, StampInv, Stamp, KeptInv,
     AloneInv, SiteTypeOK, Dump, Job, Restore, Upgrade, Built, Owner, site, files
<1>9. ASSUME NameSafety PROVE AloneInv'
  <2>1. /\ restore.pc = "safety" /\ job["restore"].pc = "done"
        /\ UNCHANGED <<db, web, dumps, media, recorded, upgrade, sync, stamps, faults>>
    BY <1>9, NameDoes
  <2>2. CASE /\ restore' = [restore EXCEPT !.pc = "stop", !.named = recorded]
             /\ UNCHANGED <<marker, job, since, gone, broken, early, loose>>
    BY <2>1, <2>2 DEF Undisturbed, PlaceInv, MarkInv, StampInv, Stamp, KeptInv, AloneInv,
       SiteTypeOK, Dump, Job, Restore, Upgrade, Built, Owner
  <2>3. CASE RestoreEnds /\ job' = [job EXCEPT !["restore"] = JobOff]
    BY <2>1, <2>3 DEF RestoreEnds, Undisturbed, PlaceInv, MarkInv, StampInv, Stamp, KeptInv,
       AloneInv, SiteTypeOK, Dump, Job, Restore, Upgrade, Built, Owner, JobOff, RestoreOff
  <2>4. QED
    BY <2>2, <2>3, <1>9, NameDoes
<1>10. ASSUME StopWeb PROVE AloneInv'
  BY <1>10 DEF StopWeb, RestoreAt, RestoreGoes, Undisturbed, PlaceInv, MarkInv, StampInv, Stamp,
     KeptInv, AloneInv, SiteTypeOK, Dump, Job, Restore, Upgrade, Built, Owner, files
<1>11. ASSUME DropDatabase PROVE AloneInv'
  BY <1>11 DEF DropDatabase, RestoreAt, RestoreGoes, Undisturbed, PlaceInv, MarkInv, StampInv,
     Stamp, KeptInv, AloneInv, SiteTypeOK, Dump, Job, Restore, Upgrade, Built, Owner, files
<1>12. ASSUME LoadTables PROVE AloneInv'
  BY <1>12 DEF LoadTables, RestoreAt, RestoreGoes, Undisturbed, PlaceInv, MarkInv, StampInv,
     Stamp, KeptInv, AloneInv, SiteTypeOK, Dump, Job, Restore, Upgrade, Built, Owner, files,
     history
<1>13. ASSUME LoadRows PROVE AloneInv'
  BY <1>13 DEF LoadRows, RestoreAt, RestoreGoes, Undisturbed, PlaceInv, MarkInv, StampInv,
     Stamp, KeptInv, AloneInv, SiteTypeOK, Dump, Job, Restore, Upgrade, Built, Owner, files
<1>14. ASSUME StartWeb PROVE AloneInv'
  BY <1>14, WebDoes DEF StartWeb, RestoreAt, RestoreGoes, Undisturbed, PlaceInv, MarkInv,
     StampInv, Stamp, KeptInv, AloneInv, SiteTypeOK, Dump, Job, Restore, Upgrade, Built, Owner,
     files, history
<1>15. ASSUME RestoreFinishes PROVE AloneInv'
  BY <1>15 DEF RestoreFinishes, RestoreAt, RestoreEnds, Undisturbed, PlaceInv, MarkInv,
     StampInv, Stamp, KeptInv, AloneInv, SiteTypeOK, Dump, Job, Restore, Upgrade, Built, Owner,
     JobOff, RestoreOff, site, files
<1>16. ASSUME RestoreStops PROVE AloneInv'
  BY <1>16 DEF RestoreStops, RestoreAt, RestoreEnds, Undisturbed, PlaceInv, MarkInv, StampInv,
     Stamp, KeptInv, AloneInv, SiteTypeOK, Dump, Job, Restore, Upgrade, Built, Owner, JobOff,
     RestoreOff, site, files
<1>17. ASSUME UpgradeLooks PROVE AloneInv'
  BY <1>17 DEF UpgradeLooks, Undisturbed, PlaceInv, MarkInv, StampInv, Stamp, KeptInv, AloneInv,
     SiteTypeOK, Dump, Job, Restore, Upgrade, Built, Owner, UpgradeOff, site, files, history
<1>18. ASSUME UpgradeNames PROVE AloneInv'
  BY <1>18 DEF UpgradeNames, Undisturbed, PlaceInv, MarkInv, StampInv, Stamp, KeptInv, AloneInv,
     SiteTypeOK, Dump, Job, Restore, Upgrade, Built, Owner, site, files, history
<1>19. ASSUME UpgradeBuilds PROVE AloneInv'
  BY <1>19 DEF UpgradeBuilds, UpgradeEnds, WebStarts, Undisturbed, PlaceInv, MarkInv, StampInv,
     Stamp, KeptInv, AloneInv, SiteTypeOK, Dump, Job, Restore, Upgrade, Built, Owner, JobOff,
     UpgradeOff, files
<1>20. ASSUME UpgradeStops PROVE AloneInv'
  BY <1>20 DEF UpgradeStops, UpgradeEnds, Undisturbed, PlaceInv, MarkInv, StampInv, Stamp,
     KeptInv, AloneInv, SiteTypeOK, Dump, Job, Restore, Upgrade, Built, Owner, JobOff,
     UpgradeOff, site, files
<1>21. ASSUME SyncLooks PROVE AloneInv'
  BY <1>21 DEF SyncLooks, Undisturbed, PlaceInv, MarkInv, StampInv, Stamp, KeptInv, AloneInv,
     SiteTypeOK, Dump, Job, Restore, Upgrade, Built, Owner, site, files, history
<1>22. ASSUME SyncUps PROVE AloneInv'
  <2>1. CASE web
    BY <2>1, <1>22 DEF SyncUps, Undisturbed, PlaceInv, MarkInv, StampInv, Stamp, KeptInv,
       AloneInv, SiteTypeOK, Dump, Job, Restore, Upgrade, Built, Owner, site, files
  <2>2. CASE ~web
    BY <2>2, <1>22, WebDoes DEF SyncUps, Undisturbed, PlaceInv, MarkInv, StampInv, Stamp,
       KeptInv, AloneInv, SiteTypeOK, Dump, Job, Restore, Upgrade, Built, Owner, site, files
  <2>3. QED
    BY <2>1, <2>2
<1>23. ASSUME Reboot PROVE AloneInv'
  BY <1>23 DEF Reboot, Undisturbed, PlaceInv, MarkInv, StampInv, Stamp, KeptInv, AloneInv,
     SiteTypeOK, Dump, Job, Restore, Upgrade, Built, Owner, JobOff, RestoreOff, UpgradeOff,
     site, files
<1>24. ASSUME DeleteMarker PROVE AloneInv'
  BY <1>24 DEF DeleteMarker, RestoreAt, Undisturbed, PlaceInv, MarkInv, StampInv, Stamp,
     KeptInv, AloneInv, SiteTypeOK, Dump, Job, Restore, Upgrade, Built, Owner, site, files
<1>25. QED
  BY <1>1, <1>2, <1>3, <1>4, <1>5, <1>6, <1>7, <1>8, <1>9, <1>10, <1>11, <1>12, <1>13, <1>14,
     <1>15, <1>16, <1>17, <1>18, <1>19, <1>20, <1>21, <1>22, <1>23, <1>24 DEF SiteNext,
     BackupStep, RestoreStep

\* Whoever names a backup reads the name of its own, if that one was alone.
LEMMA NamedStep ==
  ASSUME SiteTypeOK, Undisturbed, KeptInv, SiteNext
  PROVE  NamedInv'
<1>1. ASSUME NEW r \in Entry, Save(r) PROVE NamedInv'
  BY <1>1 DEF Save, Undisturbed, PlaceInv, MarkInv, StampInv, Stamp, KeptInv, AloneInv,
     NamedInv, SiteTypeOK, Dump, Job, Restore, Upgrade, Built, Owner, files
<1>2. ASSUME NEW o \in Owner, BeginBackup(o) PROVE NamedInv'
  <2>1. PlaceInv
    BY DEF Undisturbed
  <2>2. CASE (~marker \/ o = "restore") /\ StartNow(o)
    BY <2>1, <2>2, <1>2, BeginDoes, StartDoes DEF Undisturbed, PlaceInv, MarkInv, StampInv,
       Stamp, KeptInv, AloneInv, NamedInv, SiteTypeOK, Dump, Job, Restore, Upgrade, Built, Owner
  <2>3. CASE ~((~marker \/ o = "restore") /\ StartNow(o))
    <3>1. /\ job[o].pc = "off" /\ upgrade.pc = "backup" /\ marker /\ o = "upgrade"
          /\ upgrade' = [upgrade EXCEPT !.pc = "name", !.skipped = TRUE]
          /\ UNCHANGED <<db, web, dumps, media, recorded, marker, job, restore, sync, stamps,
                         since, gone, broken, early, loose, faults>>
      BY <2>1, <2>3, <1>2, BeginDoes
    <3>2. QED
      BY <3>1 DEF Undisturbed, PlaceInv, MarkInv, StampInv, Stamp, KeptInv, AloneInv, NamedInv,
         SiteTypeOK, Dump, Job, Restore, Upgrade, Built, Owner
  <2>4. QED
    BY <2>2, <2>3
<1>3. ASSUME NEW o \in Owner, DumpBegins(o) PROVE NamedInv'
  BY <1>3 DEF DumpBegins, Undisturbed, PlaceInv, MarkInv, StampInv, Stamp, KeptInv, AloneInv,
     NamedInv, SiteTypeOK, Dump, Job, Restore, Upgrade, Built, Owner, site, files
<1>4. ASSUME NEW o \in Owner, ReadBack(o) PROVE NamedInv'
  BY <1>4 DEF ReadBack, Undisturbed, PlaceInv, MarkInv, StampInv, Stamp, KeptInv, AloneInv,
     NamedInv, SiteTypeOK, Dump, Job, Restore, Upgrade, Built, Owner, site, history
<1>5. ASSUME NEW o \in Owner, ArchiveMedia(o) PROVE NamedInv'
  BY <1>5 DEF ArchiveMedia, Undisturbed, PlaceInv, MarkInv, StampInv, Stamp, KeptInv, AloneInv,
     NamedInv, SiteTypeOK, Dump, Job, Restore, Upgrade, Built, Owner, site, history
<1>6. ASSUME NEW o \in Owner, KeepRecord(o) PROVE NamedInv'
  <2>1. CASE o = "schedule"
    BY <2>1, <1>6, RecordDoes DEF Undisturbed, PlaceInv, MarkInv, StampInv, Stamp, KeptInv,
       AloneInv, NamedInv, SiteTypeOK, Dump, Job, Restore, Upgrade, Built, Owner, JobOff
  <2>2. CASE o # "schedule"
    BY <2>2, <1>6, RecordDoes DEF Undisturbed, PlaceInv, MarkInv, StampInv, Stamp, KeptInv,
       AloneInv, NamedInv, SiteTypeOK, Dump, Job, Restore, Upgrade, Built, Owner, JobOff
  <2>3. QED
    BY <2>1, <2>2
<1>7. ASSUME NEW o \in Owner, BackupFails(o) PROVE NamedInv'
  <2>1. /\ job[o].pc \notin {"off", "done"}
        /\ job' = [job EXCEPT ![o] = JobOff]
        /\ dumps' = {d \in dumps : d.stamp # job[o].stamp}
        /\ media' = media \ {job[o].stamp}
        /\ upgrade' = IF o = "upgrade" THEN UpgradeOff ELSE upgrade
        /\ UNCHANGED <<db, web, recorded, sync, stamps>>
    BY <1>7, FailDoes
  <2>2. CASE o = "restore"
    <3>1. RestoreEnds
      BY <2>2, <1>7, FailDoes
    <3>2. QED
      BY <2>1, <2>2, <3>1 DEF RestoreEnds, Undisturbed, PlaceInv, MarkInv, StampInv, Stamp,
         KeptInv, AloneInv, NamedInv, SiteTypeOK, Dump, Job, Restore, Upgrade, Built, Owner,
         JobOff, RestoreOff, UpgradeOff
  <2>3. CASE o # "restore"
    <3>1. early' = early \ {o} /\ UNCHANGED <<marker, restore, since, gone, broken, loose>>
      BY <2>3, <1>7, FailDoes
    <3>2. QED
      BY <2>1, <2>3, <3>1 DEF Undisturbed, PlaceInv, MarkInv, StampInv, Stamp, KeptInv,
         AloneInv, NamedInv, SiteTypeOK, Dump, Job, Restore, Upgrade, Built, Owner, JobOff,
         UpgradeOff
  <2>4. QED
    BY <2>2, <2>3
<1>8. ASSUME NEW d \in dumps, BeginRestore(d) PROVE NamedInv'
  BY <1>8 DEF BeginRestore, RestoreAt, Undisturbed, PlaceInv, MarkInv, StampInv, Stamp, KeptInv,
     AloneInv, NamedInv, SiteTypeOK, Dump, Job, Restore, Upgrade, Built, Owner, site, files
<1>9. ASSUME NameSafety PROVE NamedInv'
  <2>1. /\ restore.pc = "safety" /\ job["restore"].pc = "done"
        /\ UNCHANGED <<db, web, dumps, media, recorded, upgrade, sync, stamps, faults>>
    BY <1>9, NameDoes
  <2>2. CASE /\ restore' = [restore EXCEPT !.pc = "stop", !.named = recorded]
             /\ UNCHANGED <<marker, job, since, gone, broken, early, loose>>
    BY <2>1, <2>2 DEF Undisturbed, PlaceInv, MarkInv, StampInv, Stamp, KeptInv, AloneInv,
       NamedInv, SiteTypeOK, Dump, Job, Restore, Upgrade, Built, Owner
  <2>3. CASE RestoreEnds /\ job' = [job EXCEPT !["restore"] = JobOff]
    BY <2>1, <2>3 DEF RestoreEnds, Undisturbed, PlaceInv, MarkInv, StampInv, Stamp, KeptInv,
       AloneInv, NamedInv, SiteTypeOK, Dump, Job, Restore, Upgrade, Built, Owner, JobOff,
       RestoreOff
  <2>4. QED
    BY <2>2, <2>3, <1>9, NameDoes
<1>10. ASSUME StopWeb PROVE NamedInv'
  BY <1>10 DEF StopWeb, RestoreAt, RestoreGoes, Undisturbed, PlaceInv, MarkInv, StampInv, Stamp,
     KeptInv, AloneInv, NamedInv, SiteTypeOK, Dump, Job, Restore, Upgrade, Built, Owner, files
<1>11. ASSUME DropDatabase PROVE NamedInv'
  BY <1>11 DEF DropDatabase, RestoreAt, RestoreGoes, Undisturbed, PlaceInv, MarkInv, StampInv,
     Stamp, KeptInv, AloneInv, NamedInv, SiteTypeOK, Dump, Job, Restore, Upgrade, Built, Owner,
     files
<1>12. ASSUME LoadTables PROVE NamedInv'
  BY <1>12 DEF LoadTables, RestoreAt, RestoreGoes, Undisturbed, PlaceInv, MarkInv, StampInv,
     Stamp, KeptInv, AloneInv, NamedInv, SiteTypeOK, Dump, Job, Restore, Upgrade, Built, Owner,
     files, history
<1>13. ASSUME LoadRows PROVE NamedInv'
  BY <1>13 DEF LoadRows, RestoreAt, RestoreGoes, Undisturbed, PlaceInv, MarkInv, StampInv,
     Stamp, KeptInv, AloneInv, NamedInv, SiteTypeOK, Dump, Job, Restore, Upgrade, Built, Owner,
     files
<1>14. ASSUME StartWeb PROVE NamedInv'
  BY <1>14, WebDoes DEF StartWeb, RestoreAt, RestoreGoes, Undisturbed, PlaceInv, MarkInv,
     StampInv, Stamp, KeptInv, AloneInv, NamedInv, SiteTypeOK, Dump, Job, Restore, Upgrade,
     Built, Owner, files, history
<1>15. ASSUME RestoreFinishes PROVE NamedInv'
  BY <1>15 DEF RestoreFinishes, RestoreAt, RestoreEnds, Undisturbed, PlaceInv, MarkInv,
     StampInv, Stamp, KeptInv, AloneInv, NamedInv, SiteTypeOK, Dump, Job, Restore, Upgrade,
     Built, Owner, JobOff, RestoreOff, site, files
<1>16. ASSUME RestoreStops PROVE NamedInv'
  BY <1>16 DEF RestoreStops, RestoreAt, RestoreEnds, Undisturbed, PlaceInv, MarkInv, StampInv,
     Stamp, KeptInv, AloneInv, NamedInv, SiteTypeOK, Dump, Job, Restore, Upgrade, Built, Owner,
     JobOff, RestoreOff, site, files
<1>17. ASSUME UpgradeLooks PROVE NamedInv'
  BY <1>17 DEF UpgradeLooks, Undisturbed, PlaceInv, MarkInv, StampInv, Stamp, KeptInv, AloneInv,
     NamedInv, SiteTypeOK, Dump, Job, Restore, Upgrade, Built, Owner, UpgradeOff, site, files,
     history
<1>18. ASSUME UpgradeNames PROVE NamedInv'
  BY <1>18 DEF UpgradeNames, Undisturbed, PlaceInv, MarkInv, StampInv, Stamp, KeptInv, AloneInv,
     NamedInv, SiteTypeOK, Dump, Job, Restore, Upgrade, Built, Owner, site, files, history
<1>19. ASSUME UpgradeBuilds PROVE NamedInv'
  BY <1>19 DEF UpgradeBuilds, UpgradeEnds, WebStarts, Undisturbed, PlaceInv, MarkInv, StampInv,
     Stamp, KeptInv, AloneInv, NamedInv, SiteTypeOK, Dump, Job, Restore, Upgrade, Built, Owner,
     JobOff, UpgradeOff, files
<1>20. ASSUME UpgradeStops PROVE NamedInv'
  BY <1>20 DEF UpgradeStops, UpgradeEnds, Undisturbed, PlaceInv, MarkInv, StampInv, Stamp,
     KeptInv, AloneInv, NamedInv, SiteTypeOK, Dump, Job, Restore, Upgrade, Built, Owner, JobOff,
     UpgradeOff, site, files
<1>21. ASSUME SyncLooks PROVE NamedInv'
  BY <1>21 DEF SyncLooks, Undisturbed, PlaceInv, MarkInv, StampInv, Stamp, KeptInv, AloneInv,
     NamedInv, SiteTypeOK, Dump, Job, Restore, Upgrade, Built, Owner, site, files, history
<1>22. ASSUME SyncUps PROVE NamedInv'
  <2>1. CASE web
    BY <2>1, <1>22 DEF SyncUps, Undisturbed, PlaceInv, MarkInv, StampInv, Stamp, KeptInv,
       AloneInv, NamedInv, SiteTypeOK, Dump, Job, Restore, Upgrade, Built, Owner, site, files
  <2>2. CASE ~web
    BY <2>2, <1>22, WebDoes DEF SyncUps, Undisturbed, PlaceInv, MarkInv, StampInv, Stamp,
       KeptInv, AloneInv, NamedInv, SiteTypeOK, Dump, Job, Restore, Upgrade, Built, Owner, site,
       files
  <2>3. QED
    BY <2>1, <2>2
<1>23. ASSUME Reboot PROVE NamedInv'
  BY <1>23 DEF Reboot, Undisturbed, PlaceInv, MarkInv, StampInv, Stamp, KeptInv, AloneInv,
     NamedInv, SiteTypeOK, Dump, Job, Restore, Upgrade, Built, Owner, JobOff, RestoreOff,
     UpgradeOff, site, files
<1>24. ASSUME DeleteMarker PROVE NamedInv'
  BY <1>24 DEF DeleteMarker, RestoreAt, Undisturbed, PlaceInv, MarkInv, StampInv, Stamp,
     KeptInv, AloneInv, NamedInv, SiteTypeOK, Dump, Job, Restore, Upgrade, Built, Owner, site,
     files
<1>25. QED
  BY <1>1, <1>2, <1>3, <1>4, <1>5, <1>6, <1>7, <1>8, <1>9, <1>10, <1>11, <1>12, <1>13, <1>14,
     <1>15, <1>16, <1>17, <1>18, <1>19, <1>20, <1>21, <1>22, <1>23, <1>24 DEF SiteNext,
     BackupStep, RestoreStep

\* What a backup must hold it goes on holding: pruning spares it while it is among the
\* newest Keep, and no failing run has its stamp.
LEMMA HeldStep ==
  ASSUME SiteTypeOK, Undisturbed, KeptInv, NotOvertaken, SiteNext
  PROVE  HeldInv'
<1>1. ASSUME NEW r \in Entry, Save(r) PROVE HeldInv'
  BY <1>1, SiteBoundsAssumption DEF Save, Undisturbed, KeptInv, PlaceInv, MarkInv, StampInv,
     HeldInv, Needs, Stamp, SiteTypeOK, Dump, Job, Restore, Upgrade, Built, Owner, files
<1>2. ASSUME NEW o \in Owner, BeginBackup(o) PROVE HeldInv'
  <2>1. PlaceInv
    BY DEF Undisturbed
  <2>2. CASE (~marker \/ o = "restore") /\ StartNow(o)
    BY <2>1, <2>2, <1>2, BeginDoes, StartDoes DEF Undisturbed, KeptInv, PlaceInv, MarkInv,
       StampInv, HeldInv, Needs, Stamp, SiteTypeOK, Dump, Job, Restore, Upgrade, Built, Owner
  <2>3. CASE ~((~marker \/ o = "restore") /\ StartNow(o))
    <3>1. /\ job[o].pc = "off" /\ upgrade.pc = "backup" /\ marker /\ o = "upgrade"
          /\ upgrade' = [upgrade EXCEPT !.pc = "name", !.skipped = TRUE]
          /\ UNCHANGED <<db, web, dumps, media, recorded, marker, job, restore, sync, stamps,
                         since, gone, broken, early, loose, faults>>
      BY <2>1, <2>3, <1>2, BeginDoes
    <3>2. QED
      BY <3>1 DEF Undisturbed, KeptInv, PlaceInv, MarkInv, StampInv, HeldInv, Needs, Stamp,
         SiteTypeOK, Dump, Job, Restore, Upgrade, Built, Owner
  <2>4. QED
    BY <2>2, <2>3
<1>3. ASSUME NEW o \in Owner, DumpBegins(o) PROVE HeldInv'
  <2>1. /\ job[o].pc = "dump" /\ job'[o].pc = "dumping" /\ job'[o].rows = db.rows
        /\ \A p \in Owner : p # o => job'[p] = job[p]
    BY <1>3 DEF DumpBegins, SiteTypeOK
  <2>2. ASSUME NEW p \in Owner, p # o PROVE Needs(p)' \subseteq Needs(p)
    BY <2>2, <1>3 DEF Needs, DumpBegins, site, files
  <2>3. Needs(o)' \subseteq job'[o].rows
    BY <2>1, <1>3 DEF Needs, HeldInv, KeptInv, PlaceInv, Undisturbed, DumpBegins, Owner, site,
       files
  <2>4. \A p \in Owner : job'[p].pc = "dumping" => Needs(p)' \subseteq job'[p].rows
    BY <2>1, <2>2, <2>3 DEF HeldInv, KeptInv
  <2>5. ASSUME NEW p \in Owner, job'[p].pc \in {"media", "record", "done"}
        PROVE  \E d \in dumps' : d.stamp = job'[p].stamp /\ Needs(p)' \subseteq d.rows
    <3>1. p # o /\ job'[p] = job[p]
      BY <2>1, <2>5
    <3>2. PICK d \in dumps : d.stamp = job[p].stamp /\ Needs(p) \subseteq d.rows
      BY <2>5, <3>1 DEF HeldInv, KeptInv
    <3>3. Needs(p)' \subseteq d.rows
      BY <2>2, <3>1, <3>2
    <3>4. QED
      BY <3>1, <3>2, <3>3, <1>3 DEF DumpBegins, files
  <2>6. /\ recorded' \in media' /\ \E d \in dumps' : d.stamp = recorded'
        /\ upgrade'.looked \subseteq db'.rows
    BY <1>3 DEF DumpBegins, HeldInv, KeptInv, site, files
  <2>7. ASSUME NEW p \in Owner, job'[p].pc = "record" PROVE job'[p].stamp \in media'
    <3>1. job'[p] = job[p] /\ media' = media
      BY <2>1, <2>7, <1>3 DEF DumpBegins, files
    <3>2. QED
      BY <2>7, <3>1 DEF HeldInv, KeptInv
  <2>8. QED
    BY <2>4, <2>5, <2>6, <2>7 DEF HeldInv
<1>4. ASSUME NEW o \in Owner, ReadBack(o) PROVE HeldInv'
  <2> DEFINE made == [stamp |-> job[o].stamp, state |-> job[o].state, rows |-> job[o].rows,
                      stray |-> job[o].stray]
  <2>1. /\ job[o].pc = "dumping" /\ job'[o].pc = "media" /\ job'[o].stamp = job[o].stamp
        /\ \A p \in Owner : p # o => job'[p] = job[p]
        /\ dumps' = dumps \cup {made}
    BY <1>4 DEF ReadBack, SiteTypeOK
  <2>2. ASSUME NEW p \in Owner PROVE Needs(p)' \subseteq Needs(p)
    BY <2>2, <1>4 DEF Needs, ReadBack, site, history
  <2>3. made.stamp = job[o].stamp /\ made.rows = job[o].rows
    OBVIOUS
  <2> HIDE DEF made
  <2>4. ASSUME NEW p \in Owner, job'[p].pc \in {"media", "record", "done"}
        PROVE  \E d \in dumps' : d.stamp = job'[p].stamp /\ Needs(p)' \subseteq d.rows
    <3>1. CASE p = o
      <4>1. Needs(o)' \subseteq job[o].rows
        BY <2>1, <2>2 DEF HeldInv, KeptInv
      <4>2. Needs(o)' \subseteq made.rows
        BY <2>3, <4>1
      <4>3. made \in dumps' /\ made.stamp = job'[o].stamp
        BY <2>1, <2>3
      <4>4. QED
        BY <3>1, <4>2, <4>3
    <3>2. CASE p # o
      <4>1. PICK d \in dumps : d.stamp = job[p].stamp /\ Needs(p) \subseteq d.rows
        BY <2>1, <2>4, <3>2 DEF HeldInv, KeptInv
      <4>2. Needs(p)' \subseteq d.rows
        BY <2>2, <4>1
      <4>3. QED
        BY <2>1, <3>2, <4>1, <4>2
    <3>3. QED
      BY <3>1, <3>2
  <2>5. \A p \in Owner : job'[p].pc = "dumping" => Needs(p)' \subseteq job'[p].rows
    BY <2>1, <2>2 DEF HeldInv, KeptInv
  <2>6. /\ recorded' \in media' /\ \E d \in dumps' : d.stamp = recorded'
        /\ upgrade'.looked \subseteq db'.rows
    BY <2>1, <1>4 DEF ReadBack, HeldInv, KeptInv, site
  <2>7. ASSUME NEW p \in Owner, job'[p].pc = "record" PROVE job'[p].stamp \in media'
    <3>1. job'[p] = job[p] /\ media' = media
      BY <2>1, <2>7, <1>4 DEF ReadBack
    <3>2. QED
      BY <2>7, <3>1 DEF HeldInv, KeptInv
  <2>8. QED
    BY <2>4, <2>5, <2>6, <2>7 DEF HeldInv
<1>5. ASSUME NEW o \in Owner, ArchiveMedia(o) PROVE HeldInv'
  BY <1>5, SiteBoundsAssumption DEF ArchiveMedia, Undisturbed, KeptInv, PlaceInv, MarkInv,
     StampInv, HeldInv, Needs, Stamp, SiteTypeOK, Dump, Job, Restore, Upgrade, Built, Owner,
     site, history
<1>6. ASSUME NEW o \in Owner, KeepRecord(o) PROVE HeldInv'
  <2>1. /\ job[o].pc = "record" /\ recorded' = job[o].stamp
        /\ \A p \in Owner : p # o => job'[p] = job[p]
        /\ job'[o].pc \in {"off", "done"}
        /\ job'[o].pc = "done" => job'[o].stamp = job[o].stamp
        /\ UNCHANGED <<db, restore, upgrade, since, gone>>
    BY <1>6, RecordDoes DEF SiteTypeOK, JobOff, Job
  <2>2. ASSUME NEW p \in Owner PROVE Needs(p)' \subseteq Needs(p)
    BY <2>1, <2>2 DEF Needs
  <2>3. StampInv
    BY DEF Undisturbed
  <2>4. ASSUME NEW p \in Owner, job[p].pc \in {"media", "record", "done"}
        PROVE  \E d \in dumps' : d.stamp = job[p].stamp /\ Needs(p)' \subseteq d.rows
    <3>1. PICK d \in dumps : d.stamp = job[p].stamp /\ Needs(p) \subseteq d.rows
      BY <2>4 DEF HeldInv, KeptInv
    <3>2. d \in dumps'
      BY <2>3, <2>4, <3>1, <1>6, PruneSpares
    <3>3. Needs(p)' \subseteq d.rows
      BY <2>2, <3>1
    <3>4. QED
      BY <3>1, <3>2, <3>3
  <2>5. ASSUME NEW p \in Owner, job[p].pc = "record" PROVE job[p].stamp \in media'
    BY <2>3, <2>5, <1>6, PruneSpares DEF HeldInv, KeptInv
  <2>6. recorded' \in media' /\ \E d \in dumps' : d.stamp = recorded'
    BY <2>1, <2>4, <2>5
  <2>7. \A p \in Owner : job'[p].pc = "record" => job'[p].stamp \in media'
    BY <2>1, <2>5
  <2>8. ASSUME NEW p \in Owner, job'[p].pc \in {"media", "record", "done"}
        PROVE  \E d \in dumps' : d.stamp = job'[p].stamp /\ Needs(p)' \subseteq d.rows
    <3>1. job[p].pc \in {"media", "record", "done"} /\ job'[p].stamp = job[p].stamp
      BY <2>1, <2>8
    <3>2. QED
      BY <2>4, <3>1
  <2>9. ASSUME NEW p \in Owner, job'[p].pc = "dumping" PROVE Needs(p)' \subseteq job'[p].rows
    <3>1. p # o /\ job'[p] = job[p]
      BY <2>1, <2>9
    <3>2. QED
      BY <2>2, <2>9, <3>1 DEF HeldInv, KeptInv
  <2>10. upgrade'.looked \subseteq db'.rows
    BY <2>1 DEF HeldInv, KeptInv
  <2>11. QED
    BY <2>6, <2>7, <2>8, <2>9, <2>10 DEF HeldInv
<1>7. ASSUME NEW o \in Owner, BackupFails(o) PROVE HeldInv'
  <2>1. /\ job[o].pc \notin {"off", "done"} /\ job'[o].pc = "off"
        /\ \A p \in Owner : p # o => job'[p] = job[p]
        /\ dumps' = {d \in dumps : d.stamp # job[o].stamp}
        /\ media' = media \ {job[o].stamp}
        /\ UNCHANGED <<db, recorded>>
    BY <1>7, FailDoes DEF SiteTypeOK, JobOff
  <2>2. ASSUME NEW p \in Owner, p # o PROVE Needs(p)' \subseteq Needs(p)
    <3>1. CASE o = "restore"
      BY <2>1, <2>2, <3>1, <1>7, FailDoes DEF Needs
    <3>2. CASE o # "restore"
      BY <2>1, <2>2, <3>2, <1>7, FailDoes DEF Needs
    <3>3. QED
      BY <3>1, <3>2
  <2>3. ASSUME NEW p \in Owner, p # o, job[p].pc # "off" PROVE job[p].stamp # job[o].stamp
    BY <2>1, <2>3 DEF StampInv, Undisturbed
  <2>4. ASSUME NEW p \in Owner, job'[p].pc \in {"media", "record", "done"}
        PROVE  \E d \in dumps' : d.stamp = job'[p].stamp /\ Needs(p)' \subseteq d.rows
    <3>1. p # o /\ job'[p] = job[p]
      BY <2>1, <2>4
    <3>2. PICK d \in dumps : d.stamp = job[p].stamp /\ Needs(p) \subseteq d.rows
      BY <2>4, <3>1 DEF HeldInv, KeptInv
    <3>3. d \in dumps'
      BY <2>1, <2>3, <2>4, <3>1, <3>2
    <3>4. Needs(p)' \subseteq d.rows
      BY <2>2, <3>1, <3>2
    <3>5. QED
      BY <3>1, <3>2, <3>3, <3>4
  <2>5. \A p \in Owner : job'[p].pc = "dumping" => Needs(p)' \subseteq job'[p].rows
    BY <2>1, <2>2 DEF HeldInv, KeptInv
  <2>6. recorded # job[o].stamp
    BY <2>1 DEF StampInv, Undisturbed
  <2>7. /\ recorded' \in media' /\ \E d \in dumps' : d.stamp = recorded'
        /\ \A p \in Owner : job'[p].pc = "record" => job'[p].stamp \in media'
    BY <2>1, <2>3, <2>6 DEF HeldInv, KeptInv
  <2>8. upgrade'.looked \subseteq db'.rows
    BY <2>1, <1>7, FailDoes DEF HeldInv, KeptInv, UpgradeOff
  <2>9. QED
    BY <2>4, <2>5, <2>7, <2>8 DEF HeldInv
<1>8. ASSUME NEW d \in dumps, BeginRestore(d) PROVE HeldInv'
  BY <1>8, SiteBoundsAssumption DEF BeginRestore, RestoreAt, Undisturbed, KeptInv, PlaceInv,
     MarkInv, StampInv, HeldInv, Needs, Stamp, SiteTypeOK, Dump, Job, Restore, Upgrade, Built,
     Owner, site, files
<1>9. ASSUME NameSafety PROVE HeldInv'
  <2>1. /\ restore.pc = "safety" /\ job["restore"].pc = "done"
        /\ UNCHANGED <<db, web, dumps, media, recorded, upgrade, sync, stamps, faults>>
    BY <1>9, NameDoes
  <2>2. CASE /\ restore' = [restore EXCEPT !.pc = "stop", !.named = recorded]
             /\ UNCHANGED <<marker, job, since, gone, broken, early, loose>>
    BY <2>1, <2>2 DEF Undisturbed, KeptInv, PlaceInv, MarkInv, StampInv, HeldInv, Needs, Stamp,
       SiteTypeOK, Dump, Job, Restore, Upgrade, Built, Owner
  <2>3. CASE RestoreEnds /\ job' = [job EXCEPT !["restore"] = JobOff]
    BY <2>1, <2>3 DEF RestoreEnds, Undisturbed, KeptInv, PlaceInv, MarkInv, StampInv, HeldInv,
       Needs, Stamp, SiteTypeOK, Dump, Job, Restore, Upgrade, Built, Owner, JobOff, RestoreOff
  <2>4. QED
    BY <2>2, <2>3, <1>9, NameDoes
<1>10. ASSUME StopWeb PROVE HeldInv'
  BY <1>10, SiteBoundsAssumption DEF StopWeb, RestoreAt, RestoreGoes, Undisturbed, KeptInv,
     PlaceInv, MarkInv, StampInv, HeldInv, Needs, Stamp, SiteTypeOK, Dump, Job, Restore,
     Upgrade, Built, Owner, files
<1>11. ASSUME DropDatabase PROVE HeldInv'
  BY <1>11, SiteBoundsAssumption DEF DropDatabase, RestoreAt, RestoreGoes, Undisturbed, KeptInv,
     PlaceInv, MarkInv, StampInv, HeldInv, Needs, Stamp, SiteTypeOK, Dump, Job, Restore,
     Upgrade, Built, Owner, files
<1>12. ASSUME LoadTables PROVE HeldInv'
  BY <1>12, SiteBoundsAssumption DEF LoadTables, RestoreAt, RestoreGoes, Undisturbed, KeptInv,
     PlaceInv, MarkInv, StampInv, HeldInv, Needs, Stamp, SiteTypeOK, Dump, Job, Restore,
     Upgrade, Built, Owner, files, history
<1>13. ASSUME LoadRows PROVE HeldInv'
  BY <1>13, SiteBoundsAssumption DEF LoadRows, RestoreAt, RestoreGoes, Undisturbed, KeptInv,
     PlaceInv, MarkInv, StampInv, HeldInv, Needs, Stamp, SiteTypeOK, Dump, Job, Restore,
     Upgrade, Built, Owner, files
<1>14. ASSUME StartWeb PROVE HeldInv'
  BY <1>14, WebDoes DEF StartWeb, RestoreAt, RestoreGoes, Undisturbed, KeptInv, PlaceInv,
     MarkInv, StampInv, HeldInv, Needs, Stamp, SiteTypeOK, Dump, Job, Restore, Upgrade, Built,
     Owner, files, history
<1>15. ASSUME RestoreFinishes PROVE HeldInv'
  BY <1>15, SiteBoundsAssumption DEF RestoreFinishes, RestoreAt, RestoreEnds, Undisturbed,
     KeptInv, PlaceInv, MarkInv, StampInv, HeldInv, Needs, Stamp, SiteTypeOK, Dump, Job,
     Restore, Upgrade, Built, Owner, JobOff, RestoreOff, site, files
<1>16. ASSUME RestoreStops PROVE HeldInv'
  BY <1>16, SiteBoundsAssumption DEF RestoreStops, RestoreAt, RestoreEnds, Undisturbed, KeptInv,
     PlaceInv, MarkInv, StampInv, HeldInv, Needs, Stamp, SiteTypeOK, Dump, Job, Restore,
     Upgrade, Built, Owner, JobOff, RestoreOff, site, files
<1>17. ASSUME UpgradeLooks PROVE HeldInv'
  BY <1>17, SiteBoundsAssumption DEF UpgradeLooks, Undisturbed, KeptInv, PlaceInv, MarkInv,
     StampInv, HeldInv, Needs, Stamp, SiteTypeOK, Dump, Job, Restore, Upgrade, Built, Owner,
     UpgradeOff, site, files, history
<1>18. ASSUME UpgradeNames PROVE HeldInv'
  BY <1>18, SiteBoundsAssumption DEF UpgradeNames, Undisturbed, KeptInv, PlaceInv, MarkInv,
     StampInv, HeldInv, Needs, Stamp, SiteTypeOK, Dump, Job, Restore, Upgrade, Built, Owner,
     site, files, history
<1>19. ASSUME UpgradeBuilds PROVE HeldInv'
  BY <1>19, SiteBoundsAssumption DEF UpgradeBuilds, UpgradeEnds, WebStarts, Undisturbed,
     KeptInv, PlaceInv, MarkInv, StampInv, HeldInv, Needs, Stamp, SiteTypeOK, Dump, Job,
     Restore, Upgrade, Built, Owner, JobOff, UpgradeOff, files
<1>20. ASSUME UpgradeStops PROVE HeldInv'
  BY <1>20, SiteBoundsAssumption DEF UpgradeStops, UpgradeEnds, Undisturbed, KeptInv, PlaceInv,
     MarkInv, StampInv, HeldInv, Needs, Stamp, SiteTypeOK, Dump, Job, Restore, Upgrade, Built,
     Owner, JobOff, UpgradeOff, site, files
<1>21. ASSUME SyncLooks PROVE HeldInv'
  BY <1>21, SiteBoundsAssumption DEF SyncLooks, Undisturbed, KeptInv, PlaceInv, MarkInv,
     StampInv, HeldInv, Needs, Stamp, SiteTypeOK, Dump, Job, Restore, Upgrade, Built, Owner,
     site, files, history
<1>22. ASSUME SyncUps PROVE HeldInv'
  <2>1. /\ db'.rows = db.rows
        /\ UNCHANGED <<dumps, media, recorded, job, restore, upgrade, since, gone>>
    BY <1>22, WebDoes DEF SyncUps, site, files
  <2>2. QED
    BY <2>1 DEF HeldInv, KeptInv, Needs
<1>23. ASSUME Reboot PROVE HeldInv'
  BY <1>23, SiteBoundsAssumption DEF Reboot, Undisturbed, KeptInv, PlaceInv, MarkInv, StampInv,
     HeldInv, Needs, Stamp, SiteTypeOK, Dump, Job, Restore, Upgrade, Built, Owner, JobOff,
     RestoreOff, UpgradeOff, site, files
<1>24. ASSUME DeleteMarker PROVE HeldInv'
  BY <1>24, SiteBoundsAssumption DEF DeleteMarker, RestoreAt, Undisturbed, KeptInv, PlaceInv,
     MarkInv, StampInv, HeldInv, Needs, Stamp, SiteTypeOK, Dump, Job, Restore, Upgrade, Built,
     Owner, site, files
<1>25. QED
  BY <1>1, <1>2, <1>3, <1>4, <1>5, <1>6, <1>7, <1>8, <1>9, <1>10, <1>11, <1>12, <1>13, <1>14,
     <1>15, <1>16, <1>17, <1>18, <1>19, <1>20, <1>21, <1>22, <1>23, <1>24 DEF SiteNext,
     BackupStep, RestoreStep

-----------------------------------------------------------------------------
(* What holds *)

\* The invariant holds at the start.
LEMMA FirstStates == SiteInit => SiteTypeOK /\ Undisturbed /\ KeptInv
<1> SUFFICES ASSUME SiteInit PROVE SiteTypeOK /\ Undisturbed /\ KeptInv
  OBVIOUS
<1>1. SiteTypeOK
  <2>1. 0 \in Stamp /\ "whole" \in Built /\ MaxFaults \in 0 .. MaxFaults
    BY SiteBoundsAssumption DEF Built, Stamp
  <2>2. job \in [Owner -> Job] /\ restore \in Restore /\ upgrade \in Upgrade /\ dumps \subseteq Dump
    BY OffTypes DEF SiteInit
  <2>3. QED
    BY <2>1, <2>2 DEF SiteInit, SiteTypeOK
<1>2. Undisturbed
  BY DEF SiteInit, Undisturbed, PlaceInv, MarkInv, BuiltInv, StampInv, HalfBuiltLeftAlone,
     JobOff, FirstDump, RestoreOff, UpgradeOff, Owner
<1>3. KeptInv
  BY DEF SiteInit, KeptInv, AloneInv, HeldInv, NamedInv, JobOff, FirstDump, RestoreOff,
    UpgradeOff, Owner
<1>4. QED
  BY <1>1, <1>2, <1>3

\* It is about the variables of the site only.
LEMMA StutterKeeps ==
  ASSUME SiteTypeOK, Undisturbed, UNCHANGED siteVars
  PROVE  SiteTypeOK' /\ Undisturbed' /\ (KeptInv => KeptInv')
<1>1. SiteTypeOK'
  BY DEF siteVars, site, files, history, SiteTypeOK
<1>2. Undisturbed'
  BY DEF siteVars, site, files, history, Undisturbed, PlaceInv, MarkInv, BuiltInv,
    HalfBuiltLeftAlone, StampInv
<1>3. KeptInv => KeptInv'
  BY DEF siteVars, site, files, history, KeptInv, AloneInv, HeldInv, NamedInv, Needs
<1>4. QED
  BY <1>1, <1>2, <1>3

\* The part that needs no hypothesis.
LEMMA SafeInvariant == SiteSpec => [](SiteTypeOK /\ Undisturbed)
<1>1. SiteInit => SiteTypeOK /\ Undisturbed
  BY FirstStates
<1>2. SiteTypeOK /\ Undisturbed /\ [SiteNext]_siteVars => (SiteTypeOK /\ Undisturbed)'
  <2>1. ASSUME SiteTypeOK, Undisturbed, SiteNext PROVE (SiteTypeOK /\ Undisturbed)'
    BY <2>1, TypeStep, PlaceStep, MarkStep, BuiltStep, StampStep DEF Undisturbed
  <2>2. QED
    BY <2>1, StutterKeeps
<1>3. QED
  BY <1>1, <1>2, PTL DEF SiteSpec

\* Every variable of the site keeps its type, and no stamp passes the bound.
THEOREM SiteTypeCorrect == SiteSpec => []SiteTypeOK
BY SafeInvariant, PTL

\* Whatever backups, restores, upgrades and syncs meet, fail or are cut off by a restart, a
\* half-built database is neither served nor kept as a dump but by who had looked for the
\* marker before it was made, or after a restore failed (scripts/restore.sh).
THEOREM HalfBuiltIsLeftAlone == SiteSpec => []HalfBuiltLeftAlone
<1>1. Undisturbed => HalfBuiltLeftAlone
  BY DEF Undisturbed, BuiltInv
<1>2. QED
  BY <1>1, SafeInvariant, PTL

\* The part that holds while no backup is overtaken.
LEMMA KeptInvariant == SiteSpec /\ []NotOvertaken => [](SiteTypeOK /\ Undisturbed /\ KeptInv)
<1>1. SiteInit => SiteTypeOK /\ Undisturbed /\ KeptInv
  BY FirstStates
<1>2. /\ SiteTypeOK /\ Undisturbed /\ KeptInv
      /\ NotOvertaken /\ [SiteNext]_siteVars
      => (SiteTypeOK /\ Undisturbed /\ KeptInv)'
  <2>1. ASSUME SiteTypeOK, Undisturbed, KeptInv, NotOvertaken, SiteNext
        PROVE  (SiteTypeOK /\ Undisturbed /\ KeptInv)'
    <3>1. SiteTypeOK' /\ Undisturbed'
      BY <2>1, TypeStep, PlaceStep, MarkStep, BuiltStep, StampStep DEF Undisturbed
    <3>2. AloneInv' /\ NamedInv' /\ HeldInv'
      BY <2>1, AloneStep, NamedStep, HeldStep
    <3>3. QED
      BY <3>1, <3>2 DEF KeptInv
  <2>2. QED
    BY <2>1, StutterKeeps
<1>3. QED
  BY <1>1, <1>2, PTL DEF SiteSpec

\* The invariant says what people are told.
LEMMA KeptMeans == ASSUME SiteTypeOK, Undisturbed, KeptInv PROVE ToldBackupsHold
<1>1. recorded \in media /\ \E d \in dumps : d.stamp = recorded
  BY DEF KeptInv, HeldInv
<1>2. ASSUME restore.pc \in {"load", "fill", "start", "wait"}
      PROVE  /\ \E d \in dumps : d.stamp = job["restore"].stamp /\ gone \subseteq d.rows \cup since
             /\ job["restore"].alone => restore.named = job["restore"].stamp
  <2>1. job["restore"].pc = "done"
    BY <1>2 DEF Undisturbed, PlaceInv
  <2>2. PICK d \in dumps : d.stamp = job["restore"].stamp /\ Needs("restore") \subseteq d.rows
    BY <2>1 DEF KeptInv, HeldInv, Owner
  <2>3. gone \subseteq d.rows \cup since
    BY <1>2, <2>2 DEF Needs
  <2>4. job["restore"].alone => restore.named = job["restore"].stamp
    BY <1>2 DEF KeptInv, NamedInv
  <2>5. QED
    BY <2>2, <2>3, <2>4
<1>3. ASSUME upgrade.pc = "build", ~upgrade.skipped, job["upgrade"].alone
      PROVE  \E d \in dumps : d.stamp = upgrade.named /\ upgrade.looked \subseteq d.rows
  <2>1. job["upgrade"].pc = "done"
    BY <1>3 DEF Undisturbed, PlaceInv
  <2>2. PICK d \in dumps : d.stamp = job["upgrade"].stamp /\ Needs("upgrade") \subseteq d.rows
    BY <2>1 DEF KeptInv, HeldInv, Owner
  <2>3. upgrade.named = job["upgrade"].stamp
    BY <1>3 DEF KeptInv, NamedInv
  <2>4. QED
    BY <2>2, <2>3 DEF Needs
<1>4. QED
  BY <1>1, <1>2, <1>3 DEF ToldBackupsHold

\* For any number of backups: as long as fewer others begin than are kept while a script has
\* its backup under way or still to name, the backup last-backup.json names is on disk, a
\* restore's safety backup holds what the drop took, and an upgrade names what the site held
\* when it began (scripts/backup.sh, scripts/restore.sh, scripts/upgrade.sh).
THEOREM ToldBackupsAreThere == SiteSpec /\ []NotOvertaken => []ToldBackupsHold
<1>1. SiteTypeOK /\ Undisturbed /\ KeptInv => ToldBackupsHold
  BY KeptMeans
<1>2. QED
  BY <1>1, KeptInvariant, PTL
=============================================================================
