---------------------------- MODULE StationReadings ----------------------------
(***************************************************************************)
(* Readings a person types at a monitoring station read by hand             *)
(* (datasync/typed_readings.py), voided and corrected (core/corrections.py).*)
(* Every typed reading has two rows: the record of who typed what           *)
(* (TypedReading) and the published copy the chart reads                    *)
(* (DataRecordStaging), of which the database holds one for each day.       *)
(* One station, one parameter.                                              *)
(*                                                                          *)
(* A request is one transaction whose queries see what is committed then    *)
(* and its own changes; a row it changed, and a day it gave to or took from *)
(* a published copy, stay with it until it ends (PostgreSQL's unique index  *)
(* waits for such a day and then decides).                                  *)
(***************************************************************************)
EXTENDS Transactions, FiniteSetsExt

CONSTANTS
  NReadings,  \* primary keys are 1 .. NReadings: a bound on readings ever made
  NDays,      \* days a reading may be dated
  Value       \* what the gauge may read

ASSUME BoundsAssumption == NReadings \in Nat /\ NDays \in Nat

Reading == 1 .. NReadings
Copy == Reading   \* a published copy goes by the reading it was made for
Day == 1 .. NDays
None == 0

VARIABLES
  typed,   \* TypedReading, as committed
  copy,    \* DataRecordStaging, published
  newest,  \* MonitoredStation.last_data_at
  req      \* where each request stands

vars == <<typed, copy, newest, req>>

-----------------------------------------------------------------------------
(* Types *)

Typed == [state : {"unused", "current", "voided", "replaced"},
          day : Day \cup {0}, value : Value \cup {0}, copy : Copy \cup {None}]
Unused == [state |-> "unused", day |-> 0, value |-> 0, copy |-> None]
Published == [day : Day \cup {0}, value : Value \cup {0}]
Off == [day |-> 0, value |-> 0]   \* no such row

PC == {"idle", "insert", "move", "newest", "station", "commit"}
Idle == [pc |-> "idle", day |-> 0, value |-> 0, old |-> None, new |-> None, newest |-> 0,
         typed |-> Nothing, copies |-> Nothing, station |-> {}]

IsRequest(r) ==
  /\ r \in [pc : PC, day : Day \cup {0}, value : Value \cup {0},
            old : Reading \cup {None}, new : Reading \cup {None}, newest : Day \cup {0},
            typed : {r.typed}, copies : {r.copies}, station : SUBSET Day]
  /\ IsChanges(r.typed, Reading, Typed)
  /\ IsChanges(r.copies, Copy, Published)

TypeOK ==
  /\ typed \in [Reading -> Typed]
  /\ copy \in [Copy -> Published]
  /\ newest \in Day \cup {0}
  /\ req = [s \in Session |-> req[s]]
  /\ \A s \in Session : IsRequest(req[s])

Init ==
  /\ typed = [r \in Reading |-> Unused]
  /\ copy = [c \in Copy |-> Off]
  /\ newest = 0
  /\ req = [s \in Session |-> Idle]

-----------------------------------------------------------------------------
(* Transactions *)

CopiesSeen(s) == Over(copy, req[s].copies)
DaysOf(copies) == {copies[c].day : c \in DOMAIN copies} \ {0}

TypedHeld(s, r) == \E u \in Session \ {s} : r \in DOMAIN req[u].typed

\* Another request, not committed, has given day d to a copy or taken it away.
DayHeld(s, d) ==
  \E u \in Session \ {s} : \E c \in DOMAIN req[u].copies :
    d \in {copy[c].day, req[u].copies[c].day}

StationHeld(s) == \E u \in Session \ {s} : req[u].station # {}

\* The next primary key.
NewReading ==
  {r \in Reading : /\ typed[r].state = "unused"
                   /\ \A u \in Session : r \notin DOMAIN req[u].typed
                   /\ \A q \in 1 .. r - 1 : \/ typed[q].state # "unused"
                                            \/ \E u \in Session : q \in DOMAIN req[u].typed}

-----------------------------------------------------------------------------
(* Typing a reading: save_reading *)

\* A day with a published copy is refused (DuplicateReading).
Type(s, d, v) ==
  /\ req[s].pc = "idle"
  /\ d \notin DaysOf(copy)
  /\ req' = [req EXCEPT ![s] = [Idle EXCEPT !.pc = "insert", !.day = d, !.value = v]]
  /\ UNCHANGED <<typed, copy, newest>>

\* Both rows are written, or the unique index refuses the second of two presses.
Insert(s) ==
  LET r == req[s] IN
  /\ r.pc = "insert"
  /\ ~DayHeld(s, r.day)
  /\ IF r.day \in DaysOf(copy) THEN req' = [req EXCEPT ![s] = Idle]
     ELSE \E n \in NewReading :
       req' = [req EXCEPT ![s] = [r EXCEPT !.pc = "newest",
         !.copies = With(r.copies, n, [day |-> r.day, value |-> r.value]),
         !.typed = With(r.typed, n, [state |-> "current", day |-> r.day, value |-> r.value,
                                     copy |-> n])]]
  /\ UNCHANGED <<typed, copy, newest>>

\* The newest reading on file is looked up, and then kept on the station.
LookNewest(s) ==
  /\ req[s].pc = "newest"
  /\ req' = [req EXCEPT ![s].pc = "station", ![s].newest = Max(DaysOf(CopiesSeen(s)))]
  /\ UNCHANGED <<typed, copy, newest>>

KeepNewest(s) ==
  /\ req[s].pc = "station"
  /\ ~StationHeld(s)
  /\ req' = [req EXCEPT ![s].pc = "commit", ![s].station = {req[s].newest}]
  /\ UNCHANGED <<typed, copy, newest>>

-----------------------------------------------------------------------------
(* Voiding and correcting: core/corrections.py *)

\* The row is locked and read again: only the newest of a chain, not voided.
Changeable(s, r) == ~TypedHeld(s, r) /\ typed[r].state = "current"

\* void, and _station_reading_on_void: the published copy is deleted.
VoidLeavesCopy(s, r) ==
  /\ req[s].pc = "idle"
  /\ Changeable(s, r)
  /\ req' = [req EXCEPT ![s] = [Idle EXCEPT !.pc = "commit", !.old = r,
       !.typed = With(Nothing, r, [typed[r] EXCEPT !.state = "voided", !.copy = None])]]
  /\ UNCHANGED <<typed, copy, newest>>
Void(s, r) ==
  /\ req[s].pc = "idle"
  /\ Changeable(s, r)
  /\ req' = [req EXCEPT ![s] = [Idle EXCEPT !.pc = "commit", !.old = r,
       !.typed = With(Nothing, r, [typed[r] EXCEPT !.state = "voided", !.copy = None]),
       !.copies = IF typed[r].copy = None THEN Nothing ELSE With(Nothing, typed[r].copy, Off)]]
  /\ UNCHANGED <<typed, copy, newest>>

\* correct: the old row is marked, the new one written beside it, without the copy.
Correct(s, r, d, v) ==
  /\ req[s].pc = "idle"
  /\ Changeable(s, r)
  /\ \E n \in NewReading :
       req' = [req EXCEPT ![s] = [Idle EXCEPT
         !.pc = IF typed[r].copy = None THEN "commit" ELSE "move",
         !.old = r, !.new = n, !.day = d, !.value = v,
         !.typed = With(With(Nothing, r, [typed[r] EXCEPT !.state = "replaced"]), n,
                        [state |-> "current", day |-> d, value |-> v, copy |-> None])]]
  /\ UNCHANGED <<typed, copy, newest>>

\* _station_reading_on_correct: the copy moves to the new row in place, unless
\* another copy has the day, found by the query or by the unique index.
MoveCopy(s) ==
  LET r == req[s]
      c == typed[r.old].copy
  IN /\ r.pc = "move"
     /\ ~DayHeld(s, r.day)
     /\ IF \E other \in Copy \ {c} : copy[other].day = r.day
          THEN req' = [req EXCEPT ![s] = Idle]
          ELSE req' = [req EXCEPT ![s] = [r EXCEPT !.pc = "newest",
                 !.copies = With(r.copies, c, [day |-> r.day, value |-> r.value]),
                 !.typed = With(With(r.typed, r.old, [r.typed[r.old] EXCEPT !.copy = None]),
                                r.new, [r.typed[r.new] EXCEPT !.copy = c])]]
     /\ UNCHANGED <<typed, copy, newest>>

Commit(s) ==
  LET r == req[s] IN
  /\ r.pc = "commit"
  /\ typed' = Over(typed, r.typed)
  /\ copy' = Over(copy, r.copies)
  /\ newest' = IF r.station = {} THEN newest ELSE r.newest
  /\ req' = [req EXCEPT ![s] = Idle]

\* A refusal, an error or a crash: nothing is kept.
Rollback(s) ==
  /\ req[s].pc # "idle"
  /\ req' = [req EXCEPT ![s] = Idle]
  /\ UNCHANGED <<typed, copy, newest>>

-----------------------------------------------------------------------------
Step(s) ==
  \/ \E d \in Day, v \in Value : Type(s, d, v) \/ \E r \in Reading : Correct(s, r, d, v)
  \/ \E r \in Reading : Void(s, r)
  \/ Insert(s) \/ LookNewest(s) \/ KeepNewest(s) \/ MoveCopy(s) \/ Commit(s) \/ Rollback(s)

Next == \E s \in Session : Step(s)

Spec == Init /\ [][Next]_vars

-----------------------------------------------------------------------------
(* Properties *)

\* However typing, voiding and correcting interleave, what the chart reads is
\* what was typed: every reading that counts has a published copy of its own
\* with its day and its value, a struck one has none, no copy stands without
\* its reading, and no day is published twice ("the published copy off the
\* chart, so the day can be typed again", core/corrections.py:413; "Move the
\* published copy to the new row, in place", core/corrections.py:479).
ChartReadsWhatWasTyped ==
  /\ \A r \in Reading :
       IF typed[r].state = "current"
         THEN /\ typed[r].copy # None
              /\ copy[typed[r].copy] = [day |-> typed[r].day, value |-> typed[r].value]
         ELSE typed[r].copy = None
  /\ \A c \in Copy : copy[c] # Off =>
       \E r \in Reading : /\ typed[r].copy = c
                          /\ \A q \in Reading \ {r} : typed[q].copy # c
  /\ \A c, o \in Copy : copy[c] # Off /\ copy[c].day = copy[o].day => c = o

=============================================================================
