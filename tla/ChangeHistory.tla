--------------------------- MODULE ChangeHistory ---------------------------
(***************************************************************************)
(* The change history of the tracked tables and the two readers of it: the *)
(* change pages and the pages read "as of" a day.                          *)
(*                                                                         *)
(* Triggers write an event with every row inserted, updated or deleted     *)
(* (core/history.py).  An event carries NOW(), the start of the            *)
(* transaction that wrote it, and a key taken when it was written; it is   *)
(* seen when the transaction commits.  core/as_of.py rebuilds the rows of  *)
(* a past moment from these events; core/changes.py groups the events of   *)
(* one request on one record into one line before -> after.                *)
(*                                                                         *)
(* Time is a counter.  What happens while now = n happens after the moment *)
(* n - 1 and before the moment n, the moments a page can be read as of.    *)
(***************************************************************************)
EXTENDS Integers, FiniteSets

CONSTANTS Session,     \* requests and commands, each a history context
          MaxRow,      \* bound: keys the table's sequence gives out
          Figure,      \* what a row says
          Absent,      \* no row
          MaxTime,     \* bound: the last moment
          MaxWrites    \* bound: statements that write a row

ASSUME BoundsAreCounts == MaxTime \in Nat /\ MaxWrites \in Nat /\ MaxRow \in Nat

Row == 1..MaxRow

VARIABLES
  now,         \* the clock
  live,        \* the committed row of each key, or Absent
  event,       \* the committed events
  open,        \* the sessions in a transaction
  start,       \* NOW() of a session's transaction
  mine,        \* what a session's transaction has made of the rows it holds
  written,     \* the events its transaction has written
  used,        \* the last key the table's sequence has given out
  writes,      \* statements so far; gives events their keys
  past,        \* history variable: the committed rows at each moment
  straddled,   \* history variable: the rows changed by a transaction that was
               \*   open at that moment
  forgotten    \* history variable: when a change of a row that was there was last
               \*   committed without its events, or Never

vars ==
  <<now, live, event, open, start, mine, written, used, writes, past, straddled, forgotten>>

Never == -1

Record == [figure : Figure, created : 0..MaxTime]
Label == {"insert", "before_update", "update", "delete"}
Event == [id : Nat, row : Row, label : Label, value : Record,
          stamp : 0..MaxTime, by : Session]

NoRows == [r \in Row |-> Absent]

Init ==
  /\ now = 0
  /\ live = NoRows
  /\ event = {}
  /\ open = {}
  /\ start = [s \in Session |-> 0]
  /\ mine = [s \in Session |-> << >>]
  /\ written = [s \in Session |-> {}]
  /\ used = 0
  /\ writes = 0
  /\ past = [t \in 0..MaxTime |-> NoRows]
  /\ straddled = [t \in 0..MaxTime |-> {}]
  /\ forgotten = [r \in Row |-> Never]

-----------------------------------------------------------------------------
(* Transactions that change rows.                                           *)

\* The rows a transaction has written stay locked until it ends.
Held(s) == DOMAIN mine[s]
Free(r) == \A s \in open : r \notin Held(s)

\* READ COMMITTED: its own rows, and otherwise what is committed.
Current(s, r) == IF r \in Held(s) THEN mine[s][r] ELSE live[r]

Writable(s, r) == r \in Held(s) \/ Free(r)

With(f, r, v) == [x \in DOMAIN f \cup {r} |-> IF x = r THEN v ELSE f[x]]

\* pghistory's InsertEvent, UpdateEvent("before_update", row="OLD"),
\* UpdateEvent and DeleteEvent; the triggers of an update run in the order of
\* their names.  A statement takes two keys so that its events are in order.
EventOf(s, r, label, value, nth) ==
  [id |-> 2 * writes + nth, row |-> r, label |-> label, value |-> value,
   stamp |-> start[s], by |-> s]

\* Mutant: both events of an update copy the row as it became.
EventsOfNewOnly(s, r, old, new) ==
  IF old = Absent THEN {EventOf(s, r, "insert", new, 0)}
  ELSE IF new = Absent THEN {EventOf(s, r, "delete", old, 0)}
  ELSE {EventOf(s, r, "before_update", new, 0), EventOf(s, r, "update", new, 1)}

EventsOf(s, r, old, new) ==
  IF old = Absent THEN {EventOf(s, r, "insert", new, 0)}
  ELSE IF new = Absent THEN {EventOf(s, r, "delete", old, 0)}
  ELSE {EventOf(s, r, "before_update", old, 0), EventOf(s, r, "update", new, 1)}

Write(s, r, new) ==
  /\ writes < MaxWrites
  /\ mine' = [mine EXCEPT ![s] = With(@, r, new)]
  /\ written' = [written EXCEPT ![s] = @ \cup EventsOf(s, r, Current(s, r), new)]
  /\ writes' = writes + 1
  /\ UNCHANGED <<now, live, event, open, start, past, straddled,
                 forgotten>>

Begin(s) ==
  /\ s \notin open
  /\ open' = open \cup {s}
  /\ start' = [start EXCEPT ![s] = now]
  /\ UNCHANGED <<now, live, event, mine, written, used, writes, past, straddled,
                 forgotten>>

\* created_at is auto_now_add: the clock when the row is saved.
Insert(s, f) ==
  /\ s \in open
  /\ used < MaxRow
  /\ used' = used + 1
  /\ Write(s, used + 1, [figure |-> f, created |-> now])

\* The trigger's condition: OLD.* IS DISTINCT FROM NEW.*
Update(s, r, f) ==
  /\ s \in open
  /\ Writable(s, r)
  /\ Current(s, r) # Absent
  /\ Current(s, r).figure # f
  /\ Write(s, r, [Current(s, r) EXCEPT !.figure = f])
  /\ UNCHANGED used

Delete(s, r) ==
  /\ s \in open
  /\ Writable(s, r)
  /\ Current(s, r) # Absent
  /\ Write(s, r, Absent)
  /\ UNCHANGED used

Ended(s) ==
  /\ open' = open \ {s}
  /\ mine' = [mine EXCEPT ![s] = << >>]
  /\ written' = [written EXCEPT ![s] = {}]
  /\ start' = [start EXCEPT ![s] = 0]
  /\ UNCHANGED <<now, used, writes, past>>

Kept(s) ==
  /\ live' = [r \in Row |-> Current(s, r)]
  /\ straddled' = [t \in 0..MaxTime |->
                     IF start[s] <= t /\ t < now THEN straddled[t] \cup Held(s)
                     ELSE straddled[t]]

Commit(s) ==
  /\ s \in open
  /\ event' = event \cup written[s]
  /\ Kept(s)
  /\ Ended(s)
  /\ UNCHANGED forgotten

\* A load of the demonstration and its removal, each one transaction, end by deleting
\* what their own context recorded (core/demonstration.py forget_events): of the rows
\* a load adds, and of rows that were there, as the site's own record, which both
\* change, and all that a removal deletes.
CommitForgetting(s) ==
  /\ s \in open
  /\ written[s] # {}
  /\ \A e \in event : e.by # s
  /\ event' = event
  /\ forgotten' = [r \in Row |-> IF r \in Held(s) /\ live[r] # Absent THEN now
                                 ELSE forgotten[r]]
  /\ Kept(s)
  /\ Ended(s)

Abort(s) ==
  /\ s \in open
  /\ UNCHANGED <<live, event, straddled, forgotten>>
  /\ Ended(s)

Tick ==
  /\ now < MaxTime
  /\ now' = now + 1
  /\ past' = [past EXCEPT ![now] = live]
  /\ UNCHANGED <<live, event, open, start, mine, written, used, writes, straddled,
                 forgotten>>

Next ==
  \/ Tick
  \/ \E s \in Session :
       \/ Begin(s)
       \/ Commit(s)
       \/ CommitForgetting(s)
       \/ Abort(s)
       \/ \E f \in Figure : Insert(s, f)
       \/ \E r \in Row : Delete(s, r) \/ \E f \in Figure : Update(s, r, f)

Spec == Init /\ [][Next]_vars

-----------------------------------------------------------------------------
(* Reading the rows of a past moment.                                       *)

First(E) == CHOOSE e \in E : \A d \in E : e.id <= d.id
Last(E) == CHOOSE e \in E : \A d \in E : d.id <= e.id

EventsAfter(t, r) == {e \in event : e.row = r /\ e.stamp > t}

\* Mutant: created_at is not looked at.
ExistingWhenever(value, t) == value

Existing(value, t) == IF value # Absent /\ value.created <= t THEN value ELSE Absent

\* THE RULE (core/as_of.py _select_sql): the first event after the moment says
\* what the row was; a row with none stands as it is.
AsOf(t) ==
  [r \in Row |->
    IF EventsAfter(t, r) = {} THEN Existing(live[r], t)
    ELSE LET e == First(EventsAfter(t, r)) IN
         IF e.label \in {"before_update", "delete"} THEN Existing(e.value, t)
         ELSE Absent]

-----------------------------------------------------------------------------
(* The lines of the change pages.                                           *)

Group(r, s) == {e \in event : e.row = r /\ e.by = s}

\* Mutant: a line's before is that of its last statement.
BeforeOfLast(E) == LET e == Last({d \in E : d.label # "update"}) IN
                   IF e.label = "insert" THEN Absent ELSE e.value

Before(E) == LET e == First(E) IN
             IF e.label = "insert" THEN Absent ELSE e.value

After(E) == LET e == Last(E) IN IF e.label = "delete" THEN Absent ELSE e.value

-----------------------------------------------------------------------------
(* Properties.                                                              *)

TypeOK ==
  /\ now \in 0..MaxTime
  /\ live \in [Row -> Record \cup {Absent}]
  /\ event \subseteq Event
  /\ open \subseteq Session
  /\ start \in [Session -> 0..MaxTime]
  /\ \A s \in Session :
       /\ Held(s) \subseteq Row
       /\ \A r \in Held(s) : mine[s][r] \in Record \cup {Absent}
       /\ written[s] \subseteq Event
  /\ used \in 0..MaxRow
  /\ writes \in 0..MaxWrites
  /\ past \in [0..MaxTime -> [Row -> Record \cup {Absent}]]
  /\ straddled \in [0..MaxTime -> SUBSET Row]
  /\ forgotten \in [Row -> 0..MaxTime \cup {Never}]

\* The promise of the "as of" pages: the records as they stood at that moment.
\* Whatever was added, corrected, deleted or loaded since, and in whatever
\* order transactions ended, every row reads as it was committed then, but for
\* rows changed by a transaction that was open at the moment itself, and for rows
\* of which a change after the moment was forgotten: in the tables these pages
\* read, what a removal of the demonstration deleted.
AsOfIsThen ==
  \A t \in 0..(now - 1) : \A r \in Row :
    r \in straddled[t] \/ t < forgotten[r] \/ AsOf(t)[r] = past[t][r]

\* What a page once said of a moment it says for ever: when no transaction
\* begun before the moment is still open, no step changes the reading of a row
\* then, but one that forgets how it changed a row that was there.
PastStands ==
  [][\A t \in 0..(now - 1) :
       (\A s \in open : start[s] > t) =>
         \A r \in Row : t < forgotten'[r] \/ AsOf(t)[r]' = AsOf(t)[r]]_vars

\* The change pages add up: of two lines of a record with nothing between
\* them the later starts from what the earlier left, and the newest ends at the
\* row as it is.  A request of several transactions may have another's change
\* between its own; the lines of such records are excused, and those of a record
\* of which a change was forgotten, which no line tells of: the site's own record
\* once the demonstration was loaded or removed.
PageAddsUp ==
  \A r \in Row :
    LET lines == {Group(r, s) : s \in Session} \ {{}}
        Precedes(A, B) == Last(A).id < First(B).id
        apart == \A A, B \in lines : A # B => Precedes(A, B) \/ Precedes(B, A)
    IN  lines # {} /\ apart /\ forgotten[r] = Never =>
          /\ \A A, B \in lines :
               (Precedes(A, B) /\ ~ \E C \in lines : Precedes(A, C) /\ Precedes(C, B))
                 => Before(B) = After(A)
          /\ \E B \in lines :
               /\ \A A \in lines \ {B} : Precedes(A, B)
               /\ After(B) = live[r]
=============================================================================
