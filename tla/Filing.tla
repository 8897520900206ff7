-------------------------------- MODULE Filing --------------------------------
(***************************************************************************)
(* Finalizing and reopening a water year, the figures and the fingerprint   *)
(* kept for it, and the database lock that closes its records               *)
(* (accounting/views/periods.py, statements.py, fingerprints.py, locks.py). *)
(*                                                                          *)
(* A session is a person's press of Finalize or Reopen, or the container's  *)
(* start, which records the figures and then the fingerprint of finalized   *)
(* years that have none.  A session holds the year's row (SELECT FOR        *)
(* UPDATE) from the moment it has it until it commits.  A writer is a       *)
(* transaction that changes records: its row trigger looks at is_finalized  *)
(* as committed at that instant and holds nothing, and its changes are seen *)
(* by others when it commits.  Every query of a session takes a snapshot of *)
(* its own (READ COMMITTED), so figures are read one record at a time.      *)
(***************************************************************************)
EXTENDS Naturals, Sequences

CONSTANTS
  Year,          \* reporting periods (water years)
  Record,        \* rows of the locked tables
  Linked,        \* the ones whose reporting_period link names their year
  Value,         \* what a row may hold
  Elsewhere,     \* the year of a row outside every year, or of no row
  Blank,         \* what a year's figures show for a record that is not in it
  Unread,        \* a figure not read yet
  NoCode,        \* no fingerprint on file
  Session,       \* web requests and starts of the container
  Nobody,        \* nobody holds the year's row
  Writer,        \* transactions that change records
  MaxStatements  \* bound: no year is closed once this many are on file

ASSUME LinkedAssumption == Linked \subseteq Record
ASSUME ElsewhereAssumption == Elsewhere \notin Year
ASSUME NobodyAssumption == Nobody \notin Session
ASSUME CellAssumption == Blank \notin Value /\ Unread \notin Value /\ Blank # Unread
ASSUME MaxStatementsAssumption == MaxStatements \in Nat

VARIABLES
  rows,        \* the records, as committed
  finalized,   \* the years with is_finalized set, as committed
  statements,  \* each year's PeriodStatement rows, oldest first
  code,        \* each year's fingerprint, with the earliest kept as first
  holder,      \* the session that holds each year's row
  session,     \* where each session stands
  txn,         \* where each writer stands
  disturbed    \* history: years written to around or after their closing

filing == <<finalized, statements, code>>
vars == <<rows, filing, holder, session, txn, disturbed>>

-----------------------------------------------------------------------------
(* Types *)

Outside == [year |-> Elsewhere, value |-> Blank]
Version == [year : Year, value : Value] \cup {Outside}
Cell == Value \cup {Blank}
Figures == [Record -> Cell]
Kind == {"filed", "restated", "recorded_at_upgrade"}
Statement == [kind : Kind, figures : Figures]
Digest == [figures : Figures, filed : Nat]
Code == [digest : Digest, first : Digest \cup {NoCode}]

ASSUME NoCodeAssumption == NoCode \notin Digest /\ NoCode \notin Code

SessionPC == {"idle", "asked", "pass", "figures", "code", "save"}
Task == {"press", "record figures", "record codes"}
SessionState ==
  [pc : SessionPC, task : Task, year : Year \cup {Elsewhere}, todo : SUBSET Year,
   reopening : BOOLEAN, figures : [Record -> Cell \cup {Unread}],
   code : [Record -> Cell \cup {Unread}]]

Pending == UNION {[R -> Version] : R \in SUBSET Record}
Transaction == [open : BOOLEAN, door : BOOLEAN, writes : Pending]

TypeOK ==
  /\ rows \in [Record -> Version]
  /\ finalized \subseteq Year
  /\ statements \in [Year -> Seq(Statement)]
  /\ code \in [Year -> Code \cup {NoCode}]
  /\ holder \in [Year -> Session \cup {Nobody}]
  /\ session \in [Session -> SessionState]
  /\ txn \in [Writer -> Transaction]
  /\ disturbed \subseteq Year

NothingRead == [r \in Record |-> Unread]
NoWrites == [r \in {} |-> Outside]
Idle == [pc |-> "idle", task |-> "press", year |-> Elsewhere, todo |-> {},
         reopening |-> FALSE, figures |-> NothingRead, code |-> NothingRead]
Closed == [open |-> FALSE, door |-> FALSE, writes |-> NoWrites]

\* A site at its upgrade: years finalized before figures and codes were kept.
Init ==
  /\ rows \in [Record -> Version]
  /\ finalized \in SUBSET Year
  /\ statements = [y \in Year |-> <<>>]
  /\ code = [y \in Year |-> NoCode]
  /\ holder = [y \in Year |-> Nobody]
  /\ session = [s \in Session |-> Idle]
  /\ txn = [w \in Writer |-> Closed]
  /\ disturbed = {}

-----------------------------------------------------------------------------
(* Records and the lock *)

\* What year y prints for record r.
Figure(y, r) == IF rows[r].year = y THEN rows[r].value ELSE Blank
FiguresOf(y) == [r \in Record |-> Figure(y, r)]

\* The row as transaction w sees it, its own changes included.
Current(w, r) ==
  IF r \in DOMAIN txn[w].writes THEN txn[w].writes[r] ELSE rows[r]

\* Years a pending change of w takes a record from or puts it in.
Touched(w) ==
  UNION {{rows[r].year, txn[w].writes[r].year} : r \in DOMAIN txn[w].writes}

\* The BEFORE row trigger lets the change from old to new through.
NoOldCheck(w, old, new) == txn[w].door \/ new.year \notin finalized
LockAllows(w, old, new) ==
  txn[w].door \/ {old.year, new.year} \cap finalized = {}

\* A form, the administration pages, an import or a month of calculation.  The
\* Python checks before it (refuse_if_finalized, the guard of
\* run_calculations) read is_finalized and hold nothing, so they add nothing
\* to what the trigger refuses.
Begin(w) ==
  /\ ~txn[w].open
  /\ txn' = [txn EXCEPT ![w] = [Closed EXCEPT !.open = TRUE]]
  /\ UNCHANGED <<rows, filing, holder, session, disturbed>>

\* locks.override: a correction by an administrator inside a finalized year, or
\* run_calculations --force, whose guard opens the door only on one.
OpenDoor(w) ==
  /\ ~txn[w].open
  /\ finalized # {}
  /\ txn' = [txn EXCEPT ![w] = [Closed EXCEPT !.open = TRUE, !.door = TRUE]]
  /\ UNCHANGED <<rows, filing, holder, session, disturbed>>

\* Insert, update or delete one record.  A row another transaction has changed
\* is waited for, and the trigger runs once it has it.
Write(w, r, new) ==
  LET old == Current(w, r)
      years == {old.year, new.year} \cap Year
  IN /\ txn[w].open
     /\ new # old
     /\ \A u \in Writer \ {w} : r \notin DOMAIN txn[u].writes
     /\ LockAllows(w, old, new)
     /\ txn' = [txn EXCEPT ![w].writes =
                  [q \in DOMAIN @ \cup {r} |-> IF q = r THEN new ELSE @[q]]]
     /\ disturbed' = disturbed \cup
          {y \in years : txn[w].door \/ holder[y] # Nobody}
     /\ UNCHANGED <<rows, filing, holder, session>>

\* The reporting_period links a commit checks: deferred foreign keys take a
\* share lock on the year's row, which waits for whoever holds it for update.
LinksChecked(w) ==
  {y \in Year : \E r \in Linked \cap DOMAIN txn[w].writes :
                  txn[w].writes[r].year = y /\ rows[r].year # y}

Commit(w) ==
  /\ txn[w].open
  /\ \A y \in LinksChecked(w) : holder[y] = Nobody
  /\ rows' = [r \in Record |-> Current(w, r)]
  /\ txn' = [txn EXCEPT ![w] = Closed]
  /\ UNCHANGED <<filing, holder, session, disturbed>>

\* The trigger's refusal (the 409 page), any other error, or the process dies.
Rollback(w) ==
  /\ txn[w].open
  /\ txn' = [txn EXCEPT ![w] = Closed]
  /\ UNCHANGED <<rows, filing, holder, session, disturbed>>

-----------------------------------------------------------------------------
(* What a session writes when it commits *)

NewestStatement(y) == statements[y] # <<>>

KindOfClosing(y) == IF NewestStatement(y) THEN "restated" ELSE "filed"

\* fingerprints.take_fingerprint: the digest now, the earliest one kept.
TakeFingerprint(y, digest) ==
  [digest |-> digest,
   first |-> CASE code[y] = NoCode -> NoCode
               [] code[y] # NoCode /\ code[y].first # NoCode -> code[y].first
               [] OTHER -> code[y].digest]

\* The fingerprint covers the year's statements as well as its records.
DigestBeforeStatement(s, y) == [figures |-> session[s].code, filed |-> Len(statements[y])]
DigestRead(s, y) ==
  [figures |-> session[s].code,
   filed |-> Len(statements[y]) + IF session[s].task = "press" THEN 1 ELSE 0]

Release(y) == holder' = [holder EXCEPT ![y] = Nobody]

-----------------------------------------------------------------------------
(* A person presses Finalize or Reopen *)

\* period_finalize reads the year and validates the form.
Press(s, y) ==
  /\ session[s].pc = "idle"
  /\ y \notin finalized => Len(statements[y]) < MaxStatements
  /\ session' = [session EXCEPT ![s] = [Idle EXCEPT
       !.pc = "asked", !.year = y, !.reopening = y \in finalized]]
  /\ UNCHANGED <<rows, filing, holder, txn, disturbed>>

\* History: an open year about to be closed starts clean, unless some
\* transaction has a change to it in flight.
Settle(s, y) ==
  IF \E w \in Writer : y \in Touched(w) THEN disturbed \cup {y}
  ELSE IF session[s].reopening THEN disturbed ELSE disturbed \ {y}

\* The year's row is got, and is as it was when the form was read.
PressUnchecked(s) ==
  LET y == session[s].year IN
  /\ session[s].pc = "asked"
  /\ holder[y] = Nobody
  /\ holder' = [holder EXCEPT ![y] = s]
  /\ session' = [session EXCEPT ![s].pc =
                   IF session[s].reopening THEN "save" ELSE "figures"]
  /\ disturbed' = Settle(s, y)
  /\ UNCHANGED <<rows, filing, txn>>
PressLocks(s) ==
  LET y == session[s].year IN
  /\ session[s].pc = "asked"
  /\ holder[y] = Nobody
  /\ (y \in finalized) = session[s].reopening
  /\ holder' = [holder EXCEPT ![y] = s]
  /\ session' = [session EXCEPT ![s].pc =
                   IF session[s].reopening THEN "save" ELSE "figures"]
  /\ disturbed' = Settle(s, y)
  /\ UNCHANGED <<rows, filing, txn>>

\* Another press changed the year meanwhile: redirect, nothing written.
PressTooLate(s) ==
  LET y == session[s].year IN
  /\ session[s].pc = "asked"
  /\ holder[y] = Nobody
  /\ (y \in finalized) # session[s].reopening
  /\ session' = [session EXCEPT ![s] = Idle]
  /\ UNCHANGED <<rows, filing, holder, txn, disturbed>>

Reopen(s) ==
  LET y == session[s].year IN
  /\ session[s].pc = "save"
  /\ session[s].task = "press"
  /\ session[s].reopening
  /\ finalized' = finalized \ {y}
  /\ Release(y)
  /\ session' = [session EXCEPT ![s] = Idle]
  /\ UNCHANGED <<rows, statements, code, txn, disturbed>>

\* The statement, the mark and the fingerprint commit together.
Finalize(s) ==
  LET y == session[s].year IN
  /\ session[s].pc = "save"
  /\ session[s].task = "press"
  /\ ~session[s].reopening
  /\ statements' = [statements EXCEPT ![y] =
       Append(@, [kind |-> KindOfClosing(y), figures |-> session[s].figures])]
  /\ code' = [code EXCEPT ![y] = TakeFingerprint(y, DigestRead(s, y))]
  /\ finalized' = finalized \cup {y}
  /\ Release(y)
  /\ session' = [session EXCEPT ![s] = Idle]
  /\ UNCHANGED <<rows, txn, disturbed>>

-----------------------------------------------------------------------------
(* What every session that records a year does *)

\* collect_figures, and then fingerprint.compute, one query after another.
ReadFigure(s, r) ==
  /\ session[s].pc = "figures"
  /\ session[s].figures[r] = Unread
  /\ session' = [session EXCEPT ![s].figures[r] = Figure(session[s].year, r)]
  /\ UNCHANGED <<rows, filing, holder, txn, disturbed>>

FiguresRead(s) ==
  /\ session[s].pc = "figures"
  /\ \A r \in Record : session[s].figures[r] # Unread
  /\ session' = [session EXCEPT ![s].pc =
                   IF session[s].task = "press" THEN "code" ELSE "save"]
  /\ UNCHANGED <<rows, filing, holder, txn, disturbed>>

ReadForCode(s, r) ==
  /\ session[s].pc = "code"
  /\ session[s].code[r] = Unread
  /\ session' = [session EXCEPT ![s].code[r] = Figure(session[s].year, r)]
  /\ UNCHANGED <<rows, filing, holder, txn, disturbed>>

CodeComputed(s) ==
  /\ session[s].pc = "code"
  /\ \A r \in Record : session[s].code[r] # Unread
  /\ session' = [session EXCEPT ![s].pc = "save"]
  /\ UNCHANGED <<rows, filing, holder, txn, disturbed>>

-----------------------------------------------------------------------------
(* The container starts: record_filed_figures, then record_fingerprints *)

ListsYears(s, task) ==
  session' = [session EXCEPT ![s] = [Idle EXCEPT
    !.pc = "pass", !.task = task, !.todo = finalized]]

Start(s) ==
  /\ session[s].pc = "idle"
  /\ ListsYears(s, "record figures")
  /\ UNCHANGED <<rows, filing, holder, txn, disturbed>>

\* Looked at with the row held: an open year and one that has its record or
\* its code are passed over.
NeedsIgnoringCode(s, y) ==
  /\ y \in finalized
  /\ session[s].task = "record figures" => statements[y] = <<>>
Needs(s, y) ==
  /\ y \in finalized
  /\ IF session[s].task = "record figures"
     THEN statements[y] = <<>>
     ELSE code[y] = NoCode

PassesOver(s, y) ==
  /\ session[s].pc = "pass"
  /\ y \in session[s].todo
  /\ holder[y] = Nobody
  /\ ~Needs(s, y)
  /\ session' = [session EXCEPT ![s].todo = @ \ {y}]
  /\ UNCHANGED <<rows, filing, holder, txn, disturbed>>

TakesUp(s, y) ==
  /\ session[s].pc = "pass"
  /\ y \in session[s].todo
  /\ holder[y] = Nobody
  /\ Needs(s, y)
  /\ holder' = [holder EXCEPT ![y] = s]
  /\ session' = [session EXCEPT ![s] = [session[s] EXCEPT
       !.year = y, !.todo = session[s].todo \ {y},
       !.pc = IF session[s].task = "record figures" THEN "figures" ELSE "code"]]
  /\ UNCHANGED <<rows, filing, txn, disturbed>>

\* record_upgrade_statements writes inside the door: its year is closed.
RecordFigures(s) ==
  LET y == session[s].year IN
  /\ session[s].pc = "save"
  /\ session[s].task = "record figures"
  /\ statements' = [statements EXCEPT ![y] =
       Append(@, [kind |-> "recorded_at_upgrade", figures |-> session[s].figures])]
  /\ Release(y)
  /\ session' = [session EXCEPT ![s] = [Idle EXCEPT
       !.pc = "pass", !.task = "record figures", !.todo = session[s].todo]]
  /\ UNCHANGED <<rows, finalized, code, txn, disturbed>>

RecordCode(s) ==
  LET y == session[s].year IN
  /\ session[s].pc = "save"
  /\ session[s].task = "record codes"
  /\ code' = [code EXCEPT ![y] = TakeFingerprint(y, DigestRead(s, y))]
  /\ Release(y)
  /\ session' = [session EXCEPT ![s] = [Idle EXCEPT
       !.pc = "pass", !.task = "record codes", !.todo = session[s].todo]]
  /\ UNCHANGED <<rows, finalized, statements, txn, disturbed>>

PassEnds(s) ==
  /\ session[s].pc = "pass"
  /\ session[s].todo = {}
  /\ IF session[s].task = "record figures"
     THEN ListsYears(s, "record codes")
     ELSE session' = [session EXCEPT ![s] = Idle]
  /\ UNCHANGED <<rows, filing, holder, txn, disturbed>>

\* An error or a dead process: the transaction rolls back, the row is free.
Fails(s) ==
  /\ session[s].pc # "idle"
  /\ session' = [session EXCEPT ![s] = Idle]
  /\ holder' = [y \in Year |-> IF holder[y] = s THEN Nobody ELSE holder[y]]
  /\ UNCHANGED <<rows, filing, txn, disturbed>>

-----------------------------------------------------------------------------
WriterStep(w) ==
  \/ Begin(w) \/ OpenDoor(w) \/ Commit(w) \/ Rollback(w)
  \/ \E r \in Record, new \in Version : Write(w, r, new)

SessionStep(s) ==
  \/ \E y \in Year : Press(s, y) \/ PassesOver(s, y) \/ TakesUp(s, y)
  \/ PressLocks(s) \/ PressTooLate(s) \/ Reopen(s) \/ Finalize(s)
  \/ \E r \in Record : ReadFigure(s, r) \/ ReadForCode(s, r)
  \/ FiguresRead(s) \/ CodeComputed(s)
  \/ Start(s) \/ RecordFigures(s) \/ RecordCode(s) \/ PassEnds(s) \/ Fails(s)

Next == (\E w \in Writer : WriterStep(w)) \/ (\E s \in Session : SessionStep(s))

Spec == Init /\ [][Next]_vars

-----------------------------------------------------------------------------
(* Properties *)

Closes(y) == y \notin finalized /\ y \in finalized'

\* The first record of a year is the one filed or the upgrade's, and every
\* later one restates it (KIND_CHOICES).
KindsInOrder(y) ==
  \A i \in DOMAIN statements[y] : (statements[y][i].kind = "restated") <=> (i > 1)
LaterRecordsRestate == \A y \in Year : KindsInOrder(y)

\* A filed or restated record is written exactly by the step that closes its
\* open year, one for each closing, and nothing else but the upgrade's one
\* record is ever written or taken away: two presses of Finalize at once cannot
\* each write a statement, nor one that says it was filed after a restart has
\* recorded the year (period_finalize, views/periods.py:277).
OneStatementEach ==
  [][\A y \in Year :
       LET kinds == {"filed", "restated"} IN
       /\ Closes(y) => Len(statements'[y]) = Len(statements[y]) + 1
       /\ statements'[y] # statements[y] =>
            /\ statements[y] = SubSeq(statements'[y], 1, Len(statements[y]))
            /\ statements'[y][Len(statements'[y])].kind \in kinds <=> Closes(y)
       /\ KindsInOrder(y)']_vars

\* A year's code is taken only by finalizing it, or where it had none yet, and
\* the first code it was given stays on file for good: no restart and no press
\* that comes too late hides a change between two closings (take_fingerprint).
Earliest(c) == IF c.first = NoCode THEN c.digest ELSE c.first
CodeKept ==
  [][\A y \in Year :
       /\ code'[y] # code[y] => Closes(y) \/ code[y] = NoCode
       /\ code[y] # NoCode =>
            /\ code'[y] # NoCode
            /\ Earliest(code'[y]) = Earliest(code[y])]_vars

\* The code of a finalized year covers every statement on file for it, so
\* checking the year never answers "differs" on the records the site itself
\* keeps of it (entrypoint.sh:29-31, period_finalize).
CodeCoversStatements ==
  \A y \in finalized :
    code[y] # NoCode => code[y].digest.filed = Len(statements[y])

\* A year finalized while no transaction had changes to it in flight, and not
\* written through the door since, reads as its newest statement and as its
\* code: no sequence of writes, moves between years and closings of other years
\* gets past the row trigger (locks.finalized_period_lock).
FiledAsRead ==
  \A y \in finalized \ disturbed :
    /\ statements[y] # <<>> =>
         statements[y][Len(statements[y])].figures = FiguresOf(y)
    /\ code[y] # NoCode => code[y].digest.figures = FiguresOf(y)

\* "A finalized water year is closed to change, on every path" (locks.py:2):
\* a record in it changes only through the door.
ClosedToChange ==
  [][\A y \in finalized \cap finalized' :
       [r \in Record |-> Figure(y, r)]' # FiguresOf(y) =>
         \E w \in Writer : txn[w].door /\ ~txn'[w].open]_vars
=============================================================================
