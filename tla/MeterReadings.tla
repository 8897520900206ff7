----------------------------- MODULE MeterReadings -----------------------------
(***************************************************************************)
(* Voiding and correcting records (core/corrections.py), for the readings   *)
(* of one meter, whose stored figures depend on one another: a reading      *)
(* stores the value of the reading before it (previous_value) and the       *)
(* volume between them.  Nothing is deleted: a voided reading stays, and a  *)
(* correction writes a new reading that replaces the old one.               *)
(*                                                                          *)
(* A reading's stored figures are written together and follow from the      *)
(* reading they were figured from, so that reading stands for both.  The    *)
(* typed value never changes.  A person's request is one transaction whose  *)
(* queries each see what is committed then and its own changes (READ        *)
(* COMMITTED); it holds the rows it has changed.                            *)
(***************************************************************************)
EXTENDS Naturals

CONSTANTS
  NMeterReadings,  \* primary keys are 1 .. NMeterReadings: a bound on readings ever made
  NMeterDays,      \* days a reading may be dated
  Person,          \* people's requests in progress
  Typist,          \* the ones of them that may type a reading
  InOrder          \* BOOLEAN, a bound: a reading is typed only after the last one in use

ASSUME MeterBoundsAssumption == NMeterReadings \in Nat /\ NMeterDays \in Nat

MeterReading == 1 .. NMeterReadings
MeterDay == 1 .. NMeterDays
NoReading == 0     \* no reading

VARIABLES
  table,     \* the meter's readings, as committed
  meterReq   \* where each request stands

meterVars == <<table, meterReq>>

-----------------------------------------------------------------------------
(* Types *)

RowState == {"unused", "current", "voided", "replaced"}
MeterRow == [state : RowState, day : MeterDay \cup {0}, from : MeterReading \cup {NoReading},
             replaces : MeterReading \cup {NoReading}]
UnusedReading == [state |-> "unused", day |-> 0, from |-> NoReading, replaces |-> NoReading]

MeterPC == {"idle", "typed", "figure", "follow", "earlier", "update", "commit"}
IsMeterRequest(r) ==
  /\ r \in [pc : MeterPC, old : MeterReading \cup {NoReading},
            new : MeterReading \cup {NoReading},
            around : SUBSET MeterReading,    \* readings whose place is still to be looked at
            day : MeterDay \cup {0}, from : MeterReading \cup {NoReading},
            follow : MeterReading \cup {NoReading}, months : SUBSET MeterDay,
            pending : {r.pending}]
  /\ DOMAIN r.pending \subseteq MeterReading
  /\ r.pending \in [DOMAIN r.pending -> MeterRow]

MeterTypeOK ==
  /\ table \in [MeterReading -> MeterRow]
  /\ meterReq = [s \in Person |-> meterReq[s]]
  /\ \A s \in Person : IsMeterRequest(meterReq[s])

\* The rows a request has changed and not committed.
Pending(s) == meterReq[s].pending

NoChanges == [r \in {} |-> UnusedReading]
MeterIdle == [pc |-> "idle", old |-> NoReading, new |-> NoReading, around |-> {},
              day |-> 0, from |-> NoReading, follow |-> NoReading, months |-> {},
              pending |-> NoChanges]

\* A meter read in order on its first days.
MeterInit ==
  /\ \E n \in 0 .. NMeterDays :
       /\ n <= NMeterReadings
       /\ table = [r \in MeterReading |->
            IF r <= n
            THEN [state |-> "current", day |-> r, from |-> r - 1, replaces |-> NoReading]
            ELSE UnusedReading]
  /\ meterReq = [s \in Person |-> MeterIdle]

-----------------------------------------------------------------------------
(* What a query answers *)

Seen(s, r) ==
  IF r \in DOMAIN Pending(s) THEN Pending(s)[r] ELSE table[r]

\* CorrectableQuerySet.current: not voided and not replaced.
Current(s) == {r \in MeterReading : Seen(s, r).state = "current"}

\* The last readings in use before a day and the first after it: one, unless
\* two were dated the same day.
LastBefore(s, d) ==
  LET before == {r \in Current(s) : Seen(s, r).day < d}
  IN {r \in before : \A q \in before : Seen(s, q).day <= Seen(s, r).day}
FirstAfter(s, d) ==
  LET after == {r \in Current(s) : Seen(s, r).day > d}
  IN {r \in after : \A q \in after : Seen(s, q).day >= Seen(s, r).day}
OrNone(found) == IF found = {} THEN {NoReading} ELSE found

\* The months a change to reading r moves: its own and the next reading's.
OwnMonth(s, r) == {Seen(s, r).day}
MonthsOf(s, r) ==
  {Seen(s, r).day} \cup {Seen(s, q).day : q \in FirstAfter(s, Seen(s, r).day)}

\* Another request has changed r and not committed.
HeldByOther(s, r) == \E u \in Person \ {s} : r \in DOMAIN Pending(u)

Put(s, r, row) == [q \in DOMAIN Pending(s) \cup {r} |->
                     IF q = r THEN row ELSE Pending(s)[q]]

\* The next primary key.
NewMeterReading ==
  {r \in MeterReading :
     /\ table[r].state = "unused"
     /\ \A u \in Person : r \notin DOMAIN Pending(u)
     /\ \A q \in 1 .. r - 1 : \/ table[q].state # "unused"
                              \/ \E u \in Person : q \in DOMAIN Pending(u)}

\* Bounds: one reading in use per day, typed in order where InOrder says so.
DayFree(s, d) == \A r \in Current(s) : Seen(s, r).day # d

-----------------------------------------------------------------------------
(* Typing a reading: MeterReadingForm *)

\* clean looks up the reading before it.
TypeReading(s, d) ==
  /\ meterReq[s].pc = "idle"
  /\ s \in Typist
  /\ DayFree(s, d)
  /\ InOrder => \A r \in Current(s) : Seen(s, r).day < d
  /\ \E e \in OrNone(LastBefore(s, d)) :
       meterReq' = [meterReq EXCEPT
                      ![s] = [MeterIdle EXCEPT !.pc = "typed", !.day = d, !.from = e]]
  /\ UNCHANGED table

\* save stores it; no other reading is touched.
SaveReading(s) ==
  /\ meterReq[s].pc = "typed"
  /\ \E r \in NewMeterReading :
       table' = [table EXCEPT ![r] = [state |-> "current", day |-> meterReq[s].day,
                                      from |-> meterReq[s].from, replaces |-> NoReading]]
  /\ meterReq' = [meterReq EXCEPT ![s] = MeterIdle]

-----------------------------------------------------------------------------
(* Voiding and correcting *)

\* The row is locked and read again: only the newest of a chain, not voided.
MeterChangeable(s, r) == ~HeldByOther(s, r) /\ table[r].state = "current"

VoidReading(s, r) ==
  /\ meterReq[s].pc = "idle"
  /\ MeterChangeable(s, r)
  /\ meterReq' = [meterReq EXCEPT ![s] = [MeterIdle EXCEPT
       !.pc = "follow", !.old = r, !.around = {r},
       !.months = MonthsOf(s, r),
       !.pending = [q \in {r} |-> [table[r] EXCEPT !.state = "voided"]]]]
  /\ UNCHANGED table

\* The old row is marked first, then the new one is written beside it.
CorrectReading(s, r, d) ==
  /\ meterReq[s].pc = "idle"
  /\ MeterChangeable(s, r)
  /\ d # table[r].day => DayFree(s, d)
  /\ \E n \in NewMeterReading :
       meterReq' = [meterReq EXCEPT ![s] = [MeterIdle EXCEPT
         !.pc = "figure", !.old = r, !.new = n, !.around = {r, n},
         !.months = MonthsOf(s, r),
         !.pending = [q \in {r, n} |->
            IF q = r THEN [table[r] EXCEPT !.state = "replaced"]
            ELSE [table[r] EXCEPT !.day = d, !.replaces = r]]]]
  /\ UNCHANGED table

\* _meter_reading_on_correct: the new reading is figured from the one before it.
FigureNew(s) ==
  LET n == meterReq[s].new IN
  /\ meterReq[s].pc = "figure"
  /\ \E e \in OrNone(LastBefore(s, Seen(s, n).day)) :
       meterReq' = [meterReq EXCEPT ![s] = [meterReq[s] EXCEPT
                      !.pc = "follow",
                      !.pending = Put(s, n, [Seen(s, n) EXCEPT !.from = e])]]
  /\ UNCHANGED table

\* _meter_reading_on_void, at the old row's place and then at the new row's.
Place(s) == IF meterReq[s].old \in meterReq[s].around THEN meterReq[s].old ELSE meterReq[s].new

FollowOldOnly(s) ==
  LET p == meterReq[s].old IN
  /\ meterReq[s].pc = "follow"
  /\ meterReq[s].around # {}
  /\ \E f \in OrNone(FirstAfter(s, Seen(s, p).day)) :
       meterReq' = [meterReq EXCEPT ![s] = [meterReq[s] EXCEPT !.around = {}, !.follow = f,
                      !.pc = IF f = NoReading THEN "follow" ELSE "earlier"]]
  /\ UNCHANGED table
Follow(s) ==
  LET p == Place(s) IN
  /\ meterReq[s].pc = "follow"
  /\ meterReq[s].around # {}
  /\ \E f \in OrNone(FirstAfter(s, Seen(s, p).day)) :
       meterReq' = [meterReq EXCEPT ![s] = [meterReq[s] EXCEPT
                      !.around = meterReq[s].around \ {p}, !.follow = f,
                      !.pc = IF f = NoReading THEN "follow" ELSE "earlier"]]
  /\ UNCHANGED table

LookEarlier(s) ==
  /\ meterReq[s].pc = "earlier"
  /\ \E e \in OrNone(LastBefore(s, Seen(s, meterReq[s].follow).day)) :
       meterReq' = [meterReq EXCEPT ![s].from = e, ![s].pc = "update"]
  /\ UNCHANGED table

\* The update waits for the row, and writes it whatever became of it.
Refigure(s) ==
  LET f == meterReq[s].follow IN
  /\ meterReq[s].pc = "update"
  /\ ~HeldByOther(s, f)
  /\ meterReq' = [meterReq EXCEPT ![s] = [meterReq[s] EXCEPT
               !.pc = "follow", !.follow = NoReading, !.from = NoReading,
               !.pending = Put(s, f, [Seen(s, f) EXCEPT !.from = meterReq[s].from])]]
  /\ UNCHANGED table

\* correct adds the months of the new row, its next reading's among them.
LooksAtMonths(s) ==
  /\ meterReq[s].pc = "follow"
  /\ meterReq[s].around = {}
  /\ meterReq' = [meterReq EXCEPT ![s] = [meterReq[s] EXCEPT !.pc = "commit",
       !.months = meterReq[s].months \cup
                    IF meterReq[s].new = NoReading THEN {} ELSE MonthsOf(s, meterReq[s].new)]]
  /\ UNCHANGED table

CommitReading(s) ==
  /\ meterReq[s].pc = "commit"
  /\ table' = [r \in MeterReading |-> Seen(s, r)]
  /\ meterReq' = [meterReq EXCEPT ![s] = MeterIdle]

\* A refusal, an error or a deadlock PostgreSQL breaks: nothing is kept.
RollbackReading(s) ==
  /\ meterReq[s].pc # "idle"
  /\ meterReq' = [meterReq EXCEPT ![s] = MeterIdle]
  /\ UNCHANGED table

-----------------------------------------------------------------------------
MeterStep(s) ==
  \/ \E d \in MeterDay : TypeReading(s, d) \/ \E r \in MeterReading : CorrectReading(s, r, d)
  \/ \E r \in MeterReading : VoidReading(s, r)
  \/ SaveReading(s) \/ FigureNew(s) \/ Follow(s) \/ LookEarlier(s) \/ Refigure(s)
  \/ LooksAtMonths(s) \/ CommitReading(s) \/ RollbackReading(s)

MeterNext == \E s \in Person : MeterStep(s)

MeterSpec == MeterInit /\ [][MeterNext]_meterVars

-----------------------------------------------------------------------------
(* Properties *)

InUse == {r \in MeterReading : table[r].state = "current"}
Before(r) == {q \in InUse : table[q].day < table[r].day}

\* Every reading in use is figured from the last reading in use before it:
\* whatever was voided, corrected or moved to another day, no water is counted
\* twice and none is lost ("A reading stores its previous_value and
\* calculated_volume from the reading before it", core/corrections.py:363).
FiguredFromLast ==
  \A r \in InUse :
    IF Before(r) = {} THEN table[r].from = NoReading
    ELSE /\ table[r].from \in Before(r)
         /\ \A q \in Before(r) : table[q].day <= table[table[r].from].day

\* Every reading whose pumped volume a void or a correction moves, begins or
\* ends, has its month among those the caller recalculates (void, correct:
\* "the months to recalculate", core/corrections.py:937 and 1052).
MonthsCoverWhatMoved ==
  [][\A s \in Person : meterReq[s].pc = "commit" /\ meterReq'[s].pc = "idle" =>
       \A r \in MeterReading : table'[r] # table[r] =>
         {q.day : q \in {x \in {table[r], table'[r]} : x.state = "current"}}
           \subseteq meterReq[s].months]_meterVars

=============================================================================
