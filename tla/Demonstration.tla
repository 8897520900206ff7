---------------------------- MODULE Demonstration ----------------------------
(***************************************************************************)
(* Loading the demonstration data into a site and removing it again          *)
(* (core/demonstration.py, the two commands, and the page in                 *)
(* setup/views.py).                                                          *)
(*                                                                          *)
(* A button makes a record of the run and starts a process; a person at the  *)
(* server starts one without a record.  The process looks whether the run    *)
(* can go ahead, takes an advisory lock, looks again and does everything in  *)
(* one transaction, while people go on adding records.  The page finds out   *)
(* whether a run is going by taking that lock for a moment.  The sections    *)
(* the demonstration needs are on.                                           *)
(***************************************************************************)
EXTENDS Integers, Sequences, FiniteSets

CONSTANTS
  Page,          \* web processes showing the page
  Own,           \* the records people may add to the site
  Nobody,        \* the lock is free
  MaxRuns,       \* bound: the processes started
  MaxKept,       \* bound: the rows people add to the tables a removal keeps
  MaxDeaths      \* bound: the processes that die

ASSUME ConstantsAssumption ==
  /\ MaxRuns \in Nat \ {0} /\ MaxKept \in Nat /\ MaxDeaths \in Nat
  /\ Page \cap (1 .. MaxRuns) = {} /\ Nobody \notin Page \cup (1 .. MaxRuns)

Worker == 1 .. MaxRuns
Action == {"load", "remove"}

VARIABLES
  demo,          \* the demonstration's rows are in the content tables
  own,           \* the rows people added to them
  name,          \* the site settings: "none", "own" or the demonstration's name
  mode,          \* SiteConfig.demonstration_mode
  kept,          \* rows added to the kept tables, beside the records of runs
  lock,          \* who holds the advisory lock
  worker,        \* the processes started, in their order
  record,        \* the records of runs on Site health, in their order
  page,          \* what each page is doing
  late,          \* the people's rows added since the last load began
  deaths

content == <<demo, own, name, mode>>
vars == <<demo, own, name, mode, kept, lock, worker, record, page, late, deaths>>

Holders == Page \cup Worker \cup {Nobody}

(* ------------------------------------------------------------------------ *)
(* What may go ahead.                                                       *)

IsLoaded == name # "none" /\ mode /\ demo
HasContent == demo \/ own # {}

Allowed(action) == IF action = "load" THEN ~HasContent ELSE IsLoaded

\* The rows of the tables a removal must leave alone; a run's record is one.
KeptCount == kept + Len(record)

NewRecord(action) == [action |-> action, state |-> "running", old |-> FALSE]

PageIdle == [pc |-> "idle", want |-> "load", newest |-> 0, running |-> FALSE]

NewWorker(action, rec) ==
  [action |-> action, rec |-> rec, pc |-> "look", before |-> 0, doomed |-> {},
   outcome |-> "none", saved |-> FALSE]

\* What a process knows besides its run is forgotten with its transaction.
After(w, pc, outcome) ==
  [worker EXCEPT ![w].pc = pc, ![w].outcome = outcome, ![w].before = 0, ![w].doomed = {},
                 ![w].saved = outcome = "succeeded"]

(* ------------------------------------------------------------------------ *)
(* The page.                                                                *)

\* The page reads the newest record.  A page that is only shown does what one
\* does whose button the site's state does not have.
Look(p, want) ==
  /\ page[p].pc = "idle"
  /\ page' = [page EXCEPT ![p] = [pc |-> "probe", want |-> want, newest |-> Len(record),
                                  running |-> record # <<>> /\ record[Len(record)].state = "running"]]
  /\ UNCHANGED <<content, kept, lock, worker, record, late, deaths>>

\* It tries the lock; a lock it gets it lets go of at once.
Probe(p) ==
  /\ page[p].pc = "probe"
  /\ IF lock = Nobody
     THEN lock' = p /\ page' = [page EXCEPT ![p].pc = "probing"]
     ELSE UNCHANGED lock /\ page' = [page EXCEPT ![p] = PageIdle]
  /\ UNCHANGED <<content, kept, worker, record, late, deaths>>

LetGo(p) ==
  /\ page[p].pc = "probing"
  /\ lock' = Nobody
  /\ page' = [page EXCEPT ![p].pc = "decide"]
  /\ UNCHANGED <<content, kept, worker, record, late, deaths>>

\* MUTANT: a run recorded as running is going, however long ago.
FreshForEver(running, newest) == running

\* A run is read as going for ninety minutes after it was recorded as running.
Fresh(running, newest) == running /\ ~record[newest].old

\* Nothing is going: a button the site's state has records a run and starts it.
Decide(p) ==
  LET want == page[p].want
      presses == /\ Allowed(want)
                 /\ ~Fresh(page[p].running, page[p].newest)
                 /\ Len(worker) < MaxRuns
  IN /\ page[p].pc = "decide"
     /\ page' = [page EXCEPT ![p] = PageIdle]
     /\ IF presses
        THEN /\ record' = Append(record, NewRecord(want))
             /\ worker' = Append(worker, NewWorker(want, Len(record) + 1))
        ELSE UNCHANGED <<record, worker>>
     /\ UNCHANGED <<content, kept, lock, late, deaths>>

(* ------------------------------------------------------------------------ *)
(* The process of a run.                                                    *)

\* manage.py load_demonstration or remove_demonstration at the server.
Command(action) ==
  /\ Len(worker) < MaxRuns
  /\ worker' = Append(worker, NewWorker(action, 0))
  /\ UNCHANGED <<content, kept, lock, record, page, late, deaths>>

At(w, pc) == w \in DOMAIN worker /\ worker[w].pc = pc

Told(w, state) ==
  IF worker[w].rec = 0 THEN record
  ELSE [record EXCEPT ![worker[w].rec].state = state]

\* The first look, before the lock.
FirstLook(w) ==
  /\ At(w, "look")
  /\ IF Allowed(worker[w].action)
     THEN worker' = [worker EXCEPT ![w].pc = "lock"] /\ UNCHANGED record
     ELSE /\ worker' = After(w, "gone", "failed")
          /\ record' = Told(w, "failed")
  /\ UNCHANGED <<content, kept, lock, page, late, deaths>>

\* MUTANT: the answer of the lock is not looked at.
TryLockIgnored(w) ==
  /\ At(w, "lock")
  /\ lock' = IF lock = Nobody THEN w ELSE lock
  /\ worker' = [worker EXCEPT ![w].pc = "recheck"]
  /\ UNCHANGED <<content, kept, record, page, late, deaths>>

\* The lock; a process that does not get it ends and tells nobody.  One started
\* at the server makes its record here.
TryLock(w) ==
  /\ At(w, "lock")
  /\ IF lock # Nobody
     THEN /\ worker' = [worker EXCEPT ![w].pc = "gone"]
          /\ UNCHANGED <<lock, record>>
     ELSE /\ lock' = w
          /\ IF worker[w].rec = 0
             THEN /\ record' = Append(record, NewRecord(worker[w].action))
                  /\ worker' = [worker EXCEPT ![w].pc = "recheck", ![w].rec = Len(record) + 1]
             ELSE worker' = [worker EXCEPT ![w].pc = "recheck"] /\ UNCHANGED record
  /\ UNCHANGED <<content, kept, page, late, deaths>>

Fails(w) == worker' = After(w, "report", "failed")

\* The second look, and the transaction that seeds everything.
BeginLoad(w) ==
  /\ At(w, "recheck") /\ worker[w].action = "load"
  /\ IF HasContent
     THEN Fails(w) /\ UNCHANGED late
     ELSE worker' = [worker EXCEPT ![w].pc = "loading"] /\ late' = {}
  /\ UNCHANGED <<content, kept, lock, record, page, deaths>>

\* A step of the load fails, and nothing is saved.
LoadFails(w) ==
  /\ At(w, "loading")
  /\ Fails(w)
  /\ UNCHANGED <<content, kept, lock, record, page, late, deaths>>

\* The site settings are made where there are none; a name of one's own stays.
NameOwned == IF name = "none" THEN "demo" ELSE name

\* Everything is seeded in one transaction, and the site stamped.
Load(w) ==
  /\ At(w, "loading")
  /\ demo' = TRUE
  /\ mode' = TRUE
  /\ name' = NameOwned
  /\ worker' = After(w, "report", "succeeded")
  /\ UNCHANGED <<own, kept, lock, record, page, late, deaths>>

\* MUTANT: the second look is left out.
BeginRemovalUnlooked(w) ==
  /\ At(w, "recheck") /\ worker[w].action = "remove"
  /\ worker' = [worker EXCEPT ![w].pc = "removing", ![w].before = KeptCount]
  /\ UNCHANGED <<content, kept, lock, record, page, late, deaths>>

\* The second look, and the count of what must stay.
BeginRemoval(w) ==
  /\ At(w, "recheck") /\ worker[w].action = "remove"
  /\ IF IsLoaded
     THEN worker' = [worker EXCEPT ![w].pc = "removing", ![w].before = KeptCount]
     ELSE Fails(w)
  /\ UNCHANGED <<content, kept, lock, record, page, late, deaths>>

\* Every row of every content table is deleted, of those added until then.
Delete(w) ==
  /\ At(w, "removing")
  /\ worker' = [worker EXCEPT ![w].pc = "deleted", ![w].doomed = own]
  /\ UNCHANGED <<content, kept, lock, record, page, late, deaths>>

\* Without the demonstration's own settings row, or with its flag taken off.
ModeRemoved == FALSE

\* The removal is undone where a row is left or a kept table has changed, and
\* is committed otherwise.
Remove(w) ==
  LET left == own \ worker[w].doomed
  IN /\ At(w, "deleted")
     /\ IF left # {} \/ KeptCount # worker[w].before
        THEN Fails(w) /\ UNCHANGED content
        ELSE /\ demo' = FALSE
             /\ own' = left
             /\ mode' = ModeRemoved
             /\ name' = IF name = "demo" THEN "none" ELSE name
             /\ worker' = After(w, "report", "succeeded")
     /\ UNCHANGED <<kept, lock, record, page, late, deaths>>

\* MUTANT: the record says the run is done, whatever came of it.
ReportDone(w) ==
  /\ At(w, "report")
  /\ record' = Told(w, "succeeded")
  /\ worker' = [worker EXCEPT ![w].pc = "unlock"]
  /\ UNCHANGED <<content, kept, lock, page, late, deaths>>

Report(w) ==
  /\ At(w, "report")
  /\ record' = Told(w, worker[w].outcome)
  /\ worker' = [worker EXCEPT ![w].pc = "unlock"]
  /\ UNCHANGED <<content, kept, lock, page, late, deaths>>

Unlock(w) ==
  /\ At(w, "unlock")
  /\ lock' = IF lock = w THEN Nobody ELSE lock
  /\ worker' = [worker EXCEPT ![w].pc = "gone"]
  /\ UNCHANGED <<content, kept, record, page, late, deaths>>

\* A process dies: its transaction is undone, and its lock is free.
Die(w) ==
  /\ w \in DOMAIN worker /\ worker[w].pc # "gone"
  /\ deaths < MaxDeaths
  /\ deaths' = deaths + 1
  /\ lock' = IF lock = w THEN Nobody ELSE lock
  /\ worker' = [worker EXCEPT ![w].pc = "gone", ![w].before = 0, ![w].doomed = {}]
  /\ UNCHANGED <<content, kept, record, page, late>>

(* ------------------------------------------------------------------------ *)
(* People, and the clock.                                                   *)

AddOwn(o) ==
  /\ o \notin own
  /\ own' = own \cup {o}
  /\ late' = late \cup {o}
  /\ UNCHANGED <<demo, name, mode, kept, lock, worker, record, page, deaths>>

\* A sign-in, a piece of feedback, a line of Site health.
AddKept ==
  /\ kept < MaxKept
  /\ kept' = kept + 1
  /\ UNCHANGED <<content, lock, worker, record, page, late, deaths>>

\* The site is given a name of its own.
Rename ==
  /\ name # "own"
  /\ name' = "own"
  /\ UNCHANGED <<demo, own, mode, kept, lock, worker, record, page, late, deaths>>

\* Ninety minutes pass from the start of a run.
GrowOld(i) ==
  /\ i \in DOMAIN record /\ ~record[i].old /\ record[i].state = "running"
  /\ record' = [record EXCEPT ![i].old = TRUE]
  /\ UNCHANGED <<content, kept, lock, worker, page, late, deaths>>

\* A new site, or the demonstration site as it was built.
Init ==
  /\ \/ demo = FALSE /\ name \in {"none", "own"} /\ mode = FALSE
     \/ demo = TRUE /\ name = "demo" /\ mode = TRUE
  /\ own = {}
  /\ kept = 0
  /\ lock = Nobody
  /\ worker = <<>> /\ record = <<>>
  /\ page = [p \in Page |-> PageIdle]
  /\ late = {}
  /\ deaths = 0

PageStep(p) == Probe(p) \/ LetGo(p) \/ Decide(p)

WorkerStep(w) ==
  \/ FirstLook(w) \/ TryLock(w)
  \/ BeginLoad(w) \/ LoadFails(w) \/ Load(w)
  \/ BeginRemoval(w) \/ Delete(w) \/ Remove(w)
  \/ Report(w) \/ Unlock(w)

Next ==
  \/ \E p \in Page, want \in Action : Look(p, want)
  \/ \E p \in Page : PageStep(p)
  \/ \E action \in Action : Command(action)
  \/ \E w \in Worker : WorkerStep(w) \/ Die(w)
  \/ \E o \in Own : AddOwn(o)
  \/ AddKept \/ Rename
  \/ \E i \in Worker : GrowOld(i)

\* A page and a process go on with what they began, and time passes.
Fairness ==
  /\ \A p \in Page : WF_vars(PageStep(p))
  /\ \A w \in Worker : WF_vars(WorkerStep(w))
  /\ \A i \in Worker : WF_vars(GrowOld(i))

Spec == Init /\ [][Next]_vars /\ Fairness

(* ------------------------------------------------------------------------ *)
(* Properties.                                                              *)

Inside == {w \in DOMAIN worker : worker[w].pc \in
             {"recheck", "loading", "removing", "deleted", "report", "unlock"}}

\* Only the holder of the lock is ever between the lock and its release: a load and
\* a removal never run at once, however old a run's record has grown (try_lock).
OneRunAtATime == Inside \subseteq {lock}

TypeOK ==
  /\ demo \in BOOLEAN /\ mode \in BOOLEAN /\ name \in {"none", "own", "demo"}
  /\ own \subseteq Own /\ late \subseteq Own
  /\ kept \in 0 .. MaxKept /\ deaths \in 0 .. MaxDeaths
  /\ lock \in Holders
  /\ Len(worker) <= MaxRuns
  /\ \A w \in DOMAIN worker : /\ worker[w].action \in Action
                              /\ worker[w].rec \in 0 .. Len(record)
                              /\ worker[w].outcome \in {"none", "failed", "succeeded"}
  /\ \A i \in DOMAIN record : /\ record[i].action \in Action
                              /\ record[i].state \in {"running", "failed", "succeeded"}
  /\ \A p \in Page : page[p].pc \in {"idle", "probe", "probing", "decide"}

\* Invented records never join records a site already had: whatever people's
\* records stand beside the demonstration were added after its load began, and
\* however many pages and processes asked for a load at once
\* (load_refusal looked at again under the lock, in load).
NeverLoadedOver == demo => own \subseteq late

\* A record of the site's own is deleted only together with the demonstration,
\* by a removal: a second removal that was asked for while the demonstration was
\* still there does not empty the site the people have begun to fill since
\* (is_loaded looked at again under the lock, in remove).
OwnRecordsStand == [][own \subseteq own' \/ (IsLoaded /\ ~demo')]_vars

\* The site is stamped as a demonstration exactly while it holds one, and a site
\* the load gave its name has none after the removal (_ensure_site_config, load,
\* remove).
StampedWhileLoaded == (mode <=> demo) /\ (name = "demo" => demo)

\* An invented record is never taken for one of the site's own: one run at a time,
\* none over records of the site, and the stamp as long as they are there.
NeverMistaken == OneRunAtATime /\ NeverLoadedOver /\ StampedWhileLoaded

\* Site health says of a run what came of it: one that is said to have succeeded
\* saved its work, one that is said to have failed saved nothing.
OutcomeTold ==
  \A w \in DOMAIN worker :
    worker[w].rec # 0 /\ record[worker[w].rec].state # "running"
      => (record[worker[w].rec].state = "succeeded") = worker[w].saved

\* What the page says: a run is going.
SaysRunning == (lock # Nobody) \/ (record # <<>> /\ Fresh(record[Len(record)].state = "running", Len(record)))

\* The page never says for ever that a run is going: a process that died, or was
\* turned away at the lock, leaves a record that is read as stopped in the end,
\* and the buttons come back (status, STALE_MINUTES).
ButtonsComeBack == SaysRunning ~> ~SaysRunning
=============================================================================
