--------------------------- MODULE CorrectionsProofs ---------------------------
(***************************************************************************)
(* Records that are voided and corrected, for every number of records, days *)
(* and people.  The published copies of a station are what was typed        *)
(* (StationReadings).  The readings of a meter stay figured from the last   *)
(* one before them, and the months whose volumes move are told to the       *)
(* caller (MeterReadings), while one person at a time is at work on the     *)
(* meter.  The pool of a zone and year holds the water of the events put    *)
(* in for it, and each event's credit is its own (RechargeCredits).         *)
(***************************************************************************)
EXTENDS MeterReadings, StationReadings, RechargeCredits, Sums

-----------------------------------------------------------------------------
(* Readings of a station: the inductive invariant *)

\* A request that typed a reading: both its rows are new.
Typing(s) ==
  \E n \in Reading :
    /\ typed[n].state = "unused"
    /\ DOMAIN req[s].typed = {n} /\ DOMAIN req[s].copies = {n}
    /\ req[s].typed[n] = [state |-> "current", day |-> req[s].day, value |-> req[s].value,
                          copy |-> n]
    /\ req[s].copies[n] = [day |-> req[s].day, value |-> req[s].value]
    /\ req[s].day \in Day

\* A request that voided a reading and took its copy off the chart.
Voiding(s) ==
  LET o == req[s].old IN
  /\ o \in Reading /\ typed[o].state = "current"
  /\ DOMAIN req[s].typed = {o} /\ DOMAIN req[s].copies = {typed[o].copy}
  /\ req[s].typed[o].state = "voided" /\ req[s].typed[o].copy = None
  /\ req[s].copies[typed[o].copy] = Off

\* A request that wrote a corrected reading beside the old one.
Correcting(s) ==
  LET o == req[s].old
      n == req[s].new
  IN /\ o \in Reading /\ typed[o].state = "current"
     /\ n \in Reading /\ typed[n].state = "unused"
     /\ DOMAIN req[s].typed = {o, n}
     /\ req[s].typed[o].state = "replaced"
     /\ req[s].typed[n].state = "current"
     /\ req[s].typed[n].day = req[s].day /\ req[s].typed[n].value = req[s].value
     /\ req[s].day \in Day

\* And then moved the copy to it.
Moved(s) ==
  LET o == req[s].old
      n == req[s].new
      c == typed[o].copy
  IN /\ Correcting(s)
     /\ req[s].typed[o].copy = None /\ req[s].typed[n].copy = c
     /\ DOMAIN req[s].copies = {c}
     /\ req[s].copies[c] = [day |-> req[s].day, value |-> req[s].value]

\* What a request holds at each place.
Standing(s) ==
  /\ req[s].pc \in {"idle", "insert"} => DOMAIN req[s].typed = {} /\ DOMAIN req[s].copies = {}
  /\ req[s].pc = "insert" => req[s].day \in Day
  /\ req[s].pc = "move" => Correcting(s) /\ DOMAIN req[s].copies = {}
  /\ req[s].pc \in {"newest", "station"} => Typing(s) \/ Moved(s)
  /\ req[s].pc = "station" => req[s].newest \in Day
  /\ req[s].pc = "commit" => Typing(s) \/ Moved(s) \/ Voiding(s)
  /\ req[s].station # {} => req[s].newest \in Day

\* A row has one request at most that changes it.
RowsApart ==
  \A s, u \in Session : s # u => DOMAIN req[s].typed \cap DOMAIN req[u].typed = {}

\* A day a request gives to a copy is no other copy's, committed or to be.
DaysApart ==
  \A s \in Session : \A c \in DOMAIN req[s].copies :
    req[s].copies[c].day # 0 =>
      /\ \A x \in Copy \ {c} : copy[x].day # req[s].copies[c].day
      /\ \A u \in Session \ {s} : \A e \in DOMAIN req[u].copies :
           req[u].copies[e].day # req[s].copies[c].day

\* A copy on the chart is of a reading that was made, and readings have a day.
CopiesMade == \A c \in Copy : copy[c] # Off => typed[c].state # "unused"
ReadingsDated == \A r \in Reading : typed[r].state = "current" => typed[r].day \in Day

StationInv ==
  /\ TypeOK
  /\ ChartReadsWhatWasTyped /\ CopiesMade /\ ReadingsDated
  /\ \A s \in Session : Standing(s)
  /\ RowsApart /\ DaysApart

-----------------------------------------------------------------------------
(* Numbers *)

\* Nobody's copy is none, and no day is not a day.
LEMMA NoneIsNoRow ==
  None \notin Reading /\ None \notin Copy /\ 0 \notin Day /\ Day \subseteq Nat
BY BoundsAssumption DEF None, Reading, Copy, Day

\* The newest of some days is a day.
LEMMA NewestIsDay ==
  ASSUME NEW S, S \subseteq Day, S # {}
  PROVE  Max(S) \in Day
<1> DEFINE left == {x \in Nat : \E d \in S : x = NDays - d}
<1>1. \A d \in S : NDays - d \in left
  BY BoundsAssumption DEF Day
<1>2. left # {} /\ left \subseteq Nat
  BY <1>1
<1>3. PICK x \in left : \A y \in left : x <= y
  <2> HIDE DEF left
  <2> QED BY <1>2, LeastOfNats
<1>4. PICK e \in S : x = NDays - e
  BY <1>3
<1>5. \A d \in S : e >= d
  BY <1>1, <1>3, <1>4, BoundsAssumption DEF Day
<1>6. Max(S) \in S
  BY <1>5 DEF Max
<1> QED
  BY <1>6

-----------------------------------------------------------------------------
(* Requests before they commit *)

\* No changes are changes of any rows.
LEMMA NothingIsChanges ==
  ASSUME NEW keys, NEW rows
  PROVE  IsChanges(Nothing, keys, rows) /\ DOMAIN Nothing = {}
BY DEF IsChanges, Nothing

\* One row changed.
LEMMA OneChange ==
  ASSUME NEW keys, NEW rows, NEW k \in keys, NEW row \in rows
  PROVE  /\ IsChanges(With(Nothing, k, row), keys, rows)
         /\ DOMAIN With(Nothing, k, row) = {k} /\ With(Nothing, k, row)[k] = row
<1>1. IsChanges(Nothing, keys, rows) /\ DOMAIN Nothing = {}
  BY NothingIsChanges
<1> HIDE DEF Nothing
<1> QED
  BY <1>1 DEF With, IsChanges

\* A request that is not under way, or only begun, changes nothing.
LEMMA IdleIsRequest == IsRequest(Idle)
<1>1. IsChanges(Nothing, Reading, Typed) /\ IsChanges(Nothing, Copy, Published)
  BY NothingIsChanges
<1> HIDE DEF Nothing
<1> QED
  BY <1>1 DEF IsRequest, Idle, PC

\* What a request did stays so while its rows are its own.
LEMMA KindStays ==
  ASSUME NEW s \in Session,
         req'[s].typed = req[s].typed, req'[s].copies = req[s].copies,
         req'[s].day = req[s].day, req'[s].value = req[s].value,
         req'[s].old = req[s].old, req'[s].new = req[s].new,
         \A x \in DOMAIN req[s].typed : typed'[x] = typed[x]
  PROVE  /\ Typing(s) => Typing(s)'
         /\ Correcting(s) => Correcting(s)'
         /\ Moved(s) => Moved(s)'
         /\ Voiding(s) => Voiding(s)'
<1>1. Typing(s) => Typing(s)'
  BY DEF Typing
<1>2. Correcting(s) => Correcting(s)'
  BY DEF Correcting
<1>3. ASSUME Moved(s) PROVE Moved(s)'
  <2>1. Correcting(s)' /\ typed'[req[s].old] = typed[req[s].old]
    BY <1>2, <1>3 DEF Moved, Correcting
  <2> QED
    BY <1>3, <2>1 DEF Moved
<1>4. Voiding(s) => Voiding(s)'
  BY DEF Voiding
<1> QED
  BY <1>1, <1>2, <1>3, <1>4

\* A step that only moves one request keeps the invariant when what the request
\* comes to hold is apart from what the others hold.
LEMMA Uncommitted ==
  ASSUME StationInv, UNCHANGED <<typed, copy, newest>>,
         NEW s \in Session, NEW q, IsRequest(q), req' = [req EXCEPT ![s] = q], Standing(s)',
         \A u \in Session \ {s} : DOMAIN q.typed \cap DOMAIN req[u].typed = {},
         \A c \in DOMAIN q.copies : q.copies[c].day # 0 =>
           /\ \A x \in Copy \ {c} : copy[x].day # q.copies[c].day
           /\ \A u \in Session \ {s} : \A e \in DOMAIN req[u].copies :
                req[u].copies[e].day # q.copies[c].day
  PROVE  StationInv'
<1>1. /\ req' = [u \in Session |-> req'[u]] /\ req'[s] = q
      /\ \A u \in Session \ {s} : req'[u] = req[u]
  BY DEF StationInv, TypeOK
<1>2. TypeOK'
  BY <1>1 DEF StationInv, TypeOK
<1>3. ChartReadsWhatWasTyped' /\ CopiesMade' /\ ReadingsDated'
  BY DEF StationInv, ChartReadsWhatWasTyped, CopiesMade, ReadingsDated
<1>4. ASSUME NEW u \in Session PROVE Standing(u)'
  <2>1. CASE u # s
    <3>1. Standing(u) /\ req'[u] = req[u]
      BY <1>1, <2>1 DEF StationInv
    <3> QED
      BY <3>1, KindStays DEF Standing
  <2> QED
    BY <2>1
<1>5. RowsApart'
  BY <1>1 DEF StationInv, RowsApart
<1>6. DaysApart'
  BY <1>1 DEF StationInv, DaysApart
<1> QED
  BY <1>2, <1>3, <1>4, <1>5, <1>6 DEF StationInv

\* A request that ends without a trace.
LEMMA GivenUp ==
  ASSUME StationInv, NEW s \in Session, req' = [req EXCEPT ![s] = Idle],
         UNCHANGED <<typed, copy, newest>>
  PROVE  StationInv'
<1>1. Standing(s)'
  BY NothingIsChanges DEF StationInv, TypeOK, Standing, Idle
<1>2. DOMAIN Idle.typed = {} /\ DOMAIN Idle.copies = {}
  BY NothingIsChanges DEF Idle
<1> HIDE DEF Idle
<1> QED
  BY <1>1, <1>2, IdleIsRequest, Uncommitted

\* Type keeps the invariant.
LEMMA TypeKeeps ==
  ASSUME StationInv, NEW s \in Session, NEW d \in Day, NEW v \in Value, Type(s, d, v)
  PROVE  StationInv'
<1> DEFINE q == [Idle EXCEPT !.pc = "insert", !.day = d, !.value = v]
<1>1. req' = [req EXCEPT ![s] = q] /\ UNCHANGED <<typed, copy, newest>>
  BY DEF Type
<1>2. q.typed = Nothing /\ q.copies = Nothing /\ q.pc = "insert" /\ q.day = d /\ q.station = {}
  BY DEF Idle
<1>3. IsRequest(q)
  BY IdleIsRequest DEF IsRequest, Idle, PC
<1> HIDE DEF q
<1>4. req'[s] = q
  BY <1>1 DEF StationInv, TypeOK
<1>5. Standing(s)'
  BY <1>2, <1>4, NothingIsChanges DEF Standing
<1> QED
  BY <1>1, <1>2, <1>3, <1>5, NothingIsChanges, Uncommitted

\* Insert keeps the invariant.
LEMMA InsertKeeps ==
  ASSUME StationInv, NEW s \in Session, Insert(s)
  PROVE  StationInv'
<1> DEFINE r == req[s]
           day == r.day
           published == [day |-> r.day, value |-> r.value]
<1>1. /\ r.pc = "insert" /\ ~DayHeld(s, day) /\ UNCHANGED <<typed, copy, newest>>
      /\ day \in DaysOf(copy) => req' = [req EXCEPT ![s] = Idle]
  BY DEF Insert
<1>2. CASE day \in DaysOf(copy)
  BY <1>1, <1>2, GivenUp
<1>3. CASE day \notin DaysOf(copy)
  <2>1. PICK n \in NewReading : req' = [req EXCEPT ![s] =
          [r EXCEPT !.pc = "newest",
             !.copies = With(r.copies, n, [day |-> r.day, value |-> r.value]),
             !.typed = With(r.typed, n, [state |-> "current", day |-> r.day,
                                         value |-> r.value, copy |-> n])]]
    BY <1>3 DEF Insert
  <2> DEFINE row == [state |-> "current", day |-> r.day, value |-> r.value, copy |-> n]
             ts == With(r.typed, n, row)
             cs == With(r.copies, n, published)
             q == [r EXCEPT !.pc = "newest", !.copies = cs, !.typed = ts]
  <2>2. /\ IsRequest(r) /\ DOMAIN r.typed = {} /\ DOMAIN r.copies = {} /\ day \in Day
        /\ r.station # {} => r.newest \in Day
    BY <1>1 DEF StationInv, TypeOK, Standing
  <2>3. n \in Reading /\ n \in Copy /\ typed[n].state = "unused"
    BY DEF NewReading, Copy
  <2>4. row \in Typed /\ published \in Published
    BY <2>2, <2>3 DEF IsRequest, Typed, Published
  <2>5. IsChanges(ts, Reading, Typed) /\ DOMAIN ts = {n} /\ ts[n] = row
    <3> HIDE DEF row
    <3>1. IsChanges(r.typed, Reading, Typed)
      BY <2>2 DEF IsRequest
    <3> QED
      BY <2>2, <2>3, <2>4, <3>1 DEF With, IsChanges
  <2>6. IsChanges(cs, Copy, Published) /\ DOMAIN cs = {n} /\ cs[n] = published
    <3> HIDE DEF row, published
    <3>1. IsChanges(r.copies, Copy, Published)
      BY <2>2 DEF IsRequest
    <3>2. /\ IsChanges(With(r.copies, n, published), Copy, Published)
          /\ DOMAIN With(r.copies, n, published) = DOMAIN r.copies \cup {n}
          /\ With(r.copies, n, published)[n] = published
      BY <2>3, <2>4, <3>1 DEF With, IsChanges
    <3> QED
      BY <2>2, <3>2
  <2> HIDE DEF ts, cs
  <2>7. /\ IsRequest(q) /\ q.typed = ts /\ q.copies = cs /\ q.pc = "newest"
        /\ q.day = r.day /\ q.value = r.value /\ q.station = r.station /\ q.newest = r.newest
    BY <2>2, <2>5, <2>6 DEF IsRequest, PC
  <2>8. req' = [req EXCEPT ![s] = q]
    BY <2>1 DEF ts, cs
  <2> HIDE DEF q
  <2>9. req'[s] = q
    BY <2>8 DEF StationInv, TypeOK
  <2>10. Standing(s)'
    <3>1. Typing(s)'
      BY <1>1, <2>2, <2>3, <2>5, <2>6, <2>7, <2>9 DEF Typing
    <3> QED
      BY <2>2, <2>7, <2>9, <3>1 DEF Standing
  <2>11. \A u \in Session \ {s} : DOMAIN q.typed \cap DOMAIN req[u].typed = {}
    BY <2>5, <2>7 DEF NewReading
  <2>12. \A c \in DOMAIN q.copies : q.copies[c].day # 0 =>
           /\ \A x \in Copy \ {c} : copy[x].day # q.copies[c].day
           /\ \A u \in Session \ {s} : \A e \in DOMAIN req[u].copies :
                req[u].copies[e].day # q.copies[c].day
    <3>1. \A c \in DOMAIN q.copies : q.copies[c].day = day
      BY <2>6, <2>7
    <3>2. \A x \in Copy : copy[x].day # day
      BY <1>3, <2>2, NoneIsNoRow DEF DaysOf, StationInv, TypeOK
    <3>3. \A u \in Session \ {s} : \A e \in DOMAIN req[u].copies : req[u].copies[e].day # day
      BY <1>1 DEF DayHeld
    <3> QED
      BY <3>1, <3>2, <3>3
  <2> QED
    BY <1>1, <2>7, <2>8, <2>10, <2>11, <2>12, Uncommitted
<1> QED
  BY <1>2, <1>3

\* LookNewest keeps the invariant: the newest day is one.
LEMMA LookNewestKeeps ==
  ASSUME StationInv, NEW s \in Session, LookNewest(s)
  PROVE  StationInv'
<1> DEFINE r == req[s]
           m == Max(DaysOf(CopiesSeen(s)))
           q == [r EXCEPT !.pc = "station", !.newest = m]
<1>1. r.pc = "newest" /\ UNCHANGED <<typed, copy, newest>>
  BY DEF LookNewest
<1>2. IsRequest(r) /\ (Typing(s) \/ Moved(s))
  BY <1>1 DEF StationInv, TypeOK, Standing
<1>3. m \in Day
  <2>1. \A x \in Copy : CopiesSeen(s)[x].day \in Day \cup {0}
    BY <1>2 DEF StationInv, TypeOK, IsRequest, IsChanges, CopiesSeen, Over, Published
  <2>2. DaysOf(CopiesSeen(s)) \subseteq Day
    BY <2>1 DEF DaysOf, CopiesSeen, Over, StationInv, TypeOK
  <2>3. PICK c \in Copy : c \in DOMAIN r.copies /\ r.copies[c].day \in Day
    <3>1. DOMAIN r.copies \subseteq Copy
      BY <1>2 DEF IsRequest, IsChanges
    <3>2. CASE Typing(s)
      BY <3>1, <3>2 DEF Typing
    <3>3. CASE Moved(s)
      BY <3>1, <3>3 DEF Moved, Correcting
    <3> QED
      BY <1>2, <3>2, <3>3
  <2>4. c \in DOMAIN CopiesSeen(s) /\ CopiesSeen(s)[c].day \in Day
    BY <2>3 DEF CopiesSeen, Over, StationInv, TypeOK
  <2>5. DaysOf(CopiesSeen(s)) # {}
    BY <2>4, NoneIsNoRow DEF DaysOf
  <2> QED
    BY <2>2, <2>5, NewestIsDay
<1> HIDE DEF m
<1>4. req' = [req EXCEPT ![s] = q] /\ req'[s] = q
  BY DEF LookNewest, StationInv, TypeOK, m
<1>5. /\ IsRequest(q) /\ q.typed = r.typed /\ q.copies = r.copies /\ q.pc = "station"
      /\ q.day = r.day /\ q.value = r.value /\ q.old = r.old /\ q.new = r.new /\ q.newest = m
  BY <1>2, <1>3 DEF IsRequest, PC
<1> HIDE DEF q
<1>6. Standing(s)'
  <2>1. Typing(s)' \/ Moved(s)'
    BY <1>1, <1>2, <1>4, <1>5, KindStays
  <2> QED
    BY <1>3, <1>4, <1>5, <2>1 DEF Standing
<1>7. \A u \in Session \ {s} : DOMAIN q.typed \cap DOMAIN req[u].typed = {}
  BY <1>5 DEF StationInv, RowsApart
<1>8. \A c \in DOMAIN q.copies : q.copies[c].day # 0 =>
        /\ \A x \in Copy \ {c} : copy[x].day # q.copies[c].day
        /\ \A u \in Session \ {s} : \A e \in DOMAIN req[u].copies :
             req[u].copies[e].day # q.copies[c].day
  BY <1>5 DEF StationInv, DaysApart
<1> QED
  BY <1>1, <1>4, <1>5, <1>6, <1>7, <1>8, Uncommitted

\* KeepNewest keeps the invariant.
LEMMA KeepNewestKeeps ==
  ASSUME StationInv, NEW s \in Session, KeepNewest(s)
  PROVE  StationInv'
<1> DEFINE r == req[s]
           q == [r EXCEPT !.pc = "commit", !.station = {r.newest}]
<1>1. r.pc = "station" /\ UNCHANGED <<typed, copy, newest>>
  BY DEF KeepNewest
<1>2. IsRequest(r) /\ (Typing(s) \/ Moved(s)) /\ r.newest \in Day
  BY <1>1 DEF StationInv, TypeOK, Standing
<1>3. req' = [req EXCEPT ![s] = q] /\ req'[s] = q
  BY DEF KeepNewest, StationInv, TypeOK
<1>4. /\ IsRequest(q) /\ q.typed = r.typed /\ q.copies = r.copies /\ q.pc = "commit"
      /\ q.day = r.day /\ q.value = r.value /\ q.old = r.old /\ q.new = r.new
      /\ q.newest = r.newest
  BY <1>2 DEF IsRequest, PC
<1> HIDE DEF q
<1>5. Standing(s)'
  <2>1. Typing(s)' \/ Moved(s)'
    BY <1>1, <1>2, <1>3, <1>4, KindStays
  <2> QED
    BY <1>2, <1>3, <1>4, <2>1 DEF Standing
<1>6. \A u \in Session \ {s} : DOMAIN q.typed \cap DOMAIN req[u].typed = {}
  BY <1>4 DEF StationInv, RowsApart
<1>7. \A c \in DOMAIN q.copies : q.copies[c].day # 0 =>
        /\ \A x \in Copy \ {c} : copy[x].day # q.copies[c].day
        /\ \A u \in Session \ {s} : \A e \in DOMAIN req[u].copies :
             req[u].copies[e].day # q.copies[c].day
  BY <1>4 DEF StationInv, DaysApart
<1> QED
  BY <1>1, <1>3, <1>4, <1>5, <1>6, <1>7, Uncommitted

\* Void keeps the invariant: the copy is the reading's own.
LEMMA VoidKeeps ==
  ASSUME StationInv, NEW s \in Session, NEW r \in Reading, Void(s, r)
  PROVE  StationInv'
<1> DEFINE c == typed[r].copy
           row == [typed[r] EXCEPT !.state = "voided", !.copy = None]
           ts == With(Nothing, r, row)
           cs == With(Nothing, c, Off)
           q == [Idle EXCEPT !.pc = "commit", !.old = r, !.typed = ts, !.copies = cs]
<1>1. /\ typed[r].state = "current" /\ ~TypedHeld(s, r) /\ UNCHANGED <<typed, copy, newest>>
  BY DEF Void, Changeable
<1>2. c # None /\ c \in Copy
  BY <1>1, NoneIsNoRow DEF StationInv, TypeOK, Typed, ChartReadsWhatWasTyped
<1>3. /\ row \in Typed /\ row.state = "voided" /\ row.copy = None
      /\ Off \in Published /\ Off.day = 0
  BY DEF StationInv, TypeOK, Typed, Off, Published
<1>4. req' = [req EXCEPT ![s] = q]
  BY <1>2 DEF Void
<1>5. IsChanges(ts, Reading, Typed) /\ DOMAIN ts = {r} /\ ts[r] = row
  <2> HIDE DEF row, cs
  <2> QED
    BY <1>3, OneChange, Zenon
<1>6. IsChanges(cs, Copy, Published) /\ DOMAIN cs = {c} /\ cs[c] = Off
  <2>1. Off \in Published /\ c \in Copy
    BY <1>2, <1>3
  <2> HIDE DEF c
  <2> QED
    BY <2>1, OneChange, Zenon
<1> HIDE DEF row, ts, cs
<1>7. /\ IsRequest(q) /\ q.typed = ts /\ q.copies = cs /\ q.pc = "commit" /\ q.old = r
      /\ q.station = {}
  BY <1>5, <1>6 DEF IsRequest, Idle, PC
<1> HIDE DEF q
<1>8. req'[s] = q
  BY <1>4 DEF StationInv, TypeOK
<1>9. Standing(s)'
  BY <1>1, <1>3, <1>5, <1>6, <1>7, <1>8 DEF Standing, Voiding
<1>10. \A u \in Session \ {s} : DOMAIN q.typed \cap DOMAIN req[u].typed = {}
  BY <1>1, <1>5, <1>7 DEF TypedHeld
<1>11. \A x \in DOMAIN q.copies : q.copies[x].day = 0
  BY <1>3, <1>6, <1>7
<1> QED
  BY <1>1, <1>4, <1>7, <1>9, <1>10, <1>11, Uncommitted

\* Correct keeps the invariant: the new row is beside the old one, the copy where it was.
LEMMA CorrectKeeps ==
  ASSUME StationInv, NEW s \in Session, NEW r \in Reading, NEW d \in Day, NEW v \in Value,
         Correct(s, r, d, v)
  PROVE  StationInv'
<1>1. /\ typed[r].state = "current" /\ ~TypedHeld(s, r) /\ UNCHANGED <<typed, copy, newest>>
  BY DEF Correct, Changeable
<1>2. typed[r].copy # None
  BY <1>1 DEF StationInv, ChartReadsWhatWasTyped
<1>3. PICK n \in NewReading : req' = [req EXCEPT ![s] = [Idle EXCEPT
         !.pc = IF typed[r].copy = None THEN "commit" ELSE "move",
         !.old = r, !.new = n, !.day = d, !.value = v,
         !.typed = With(With(Nothing, r, [typed[r] EXCEPT !.state = "replaced"]), n,
                        [state |-> "current", day |-> d, value |-> v, copy |-> None])]]
  BY DEF Correct
<1>4. n \in Reading /\ typed[n].state = "unused" /\ n # r
  BY <1>1 DEF NewReading
<1> DEFINE was == [typed[r] EXCEPT !.state = "replaced"]
           row == [state |-> "current", day |-> d, value |-> v, copy |-> None]
           os == With(Nothing, r, was)
           ts == With(os, n, row)
           q == [Idle EXCEPT !.pc = "move", !.old = r, !.new = n, !.day = d, !.value = v,
                             !.typed = ts]
<1>5. was \in Typed /\ was.state = "replaced" /\ row \in Typed
  BY DEF StationInv, TypeOK, Typed
<1>7. IsChanges(ts, Reading, Typed) /\ DOMAIN ts = {r, n} /\ ts[r] = was /\ ts[n] = row
  <2>1. IsChanges(Nothing, Reading, Typed) /\ DOMAIN Nothing \subseteq {r, n}
    BY NothingIsChanges
  <2> HIDE DEF was, row
  <2> QED
    BY <1>4, <1>5, <2>1 DEF With, IsChanges
<1>8. req' = [req EXCEPT ![s] = q]
  BY <1>2, <1>3
<1>9. row.state = "current" /\ row.day = d /\ row.value = v
  OBVIOUS
<1> HIDE DEF was, row, os, ts
<1>10. /\ IsRequest(q) /\ q.typed = ts /\ q.copies = Nothing /\ q.pc = "move"
       /\ q.old = r /\ q.new = n /\ q.day = d /\ q.value = v /\ q.station = {}
  BY <1>4, <1>7, IdleIsRequest DEF IsRequest, Idle, PC
<1> HIDE DEF q
<1>11. req'[s] = q
  BY <1>8 DEF StationInv, TypeOK
<1>12. Standing(s)'
  <2>1. Correcting(s)'
    BY <1>1, <1>4, <1>5, <1>7, <1>9, <1>10, <1>11 DEF Correcting
  <2> QED
    BY <1>10, <1>11, <2>1, NothingIsChanges DEF Standing
<1>13. \A u \in Session \ {s} : DOMAIN q.typed \cap DOMAIN req[u].typed = {}
  BY <1>1, <1>7, <1>10 DEF TypedHeld, NewReading
<1> QED
  BY <1>1, <1>8, <1>10, <1>12, <1>13, NothingIsChanges, Uncommitted

\* MoveCopy keeps the invariant: no other copy has the day it gives.
LEMMA MoveCopyKeeps ==
  ASSUME StationInv, NEW s \in Session, MoveCopy(s)
  PROVE  StationInv'
<1> DEFINE r == req[s]
           c == typed[r.old].copy
           taken == \E other \in Copy \ {c} : copy[other].day = r.day
<1>1. /\ r.pc = "move" /\ ~DayHeld(s, r.day) /\ UNCHANGED <<typed, copy, newest>>
      /\ taken => req' = [req EXCEPT ![s] = Idle]
  BY DEF MoveCopy
<1>2. CASE taken
  BY <1>1, <1>2, GivenUp
<1>3. CASE ~taken
  <2> DEFINE was == [r.typed[r.old] EXCEPT !.copy = None]
             row == [r.typed[r.new] EXCEPT !.copy = c]
             published == [day |-> r.day, value |-> r.value]
             os == With(r.typed, r.old, was)
             ts == With(os, r.new, row)
             cs == With(r.copies, c, published)
             q == [r EXCEPT !.pc = "newest", !.copies = cs, !.typed = ts]
  <2>1. req' = [req EXCEPT ![s] = q]
    BY <1>3 DEF MoveCopy
  <2>2. /\ IsRequest(r) /\ Correcting(s) /\ DOMAIN r.copies = {}
        /\ r.station # {} => r.newest \in Day
    BY <1>1 DEF StationInv, TypeOK, Standing
  <2>3. c # None /\ c \in Copy /\ r.old # r.new
    BY <2>2 DEF Correcting, StationInv, TypeOK, Typed, ChartReadsWhatWasTyped
  <2>4. /\ r.typed[r.old] \in Typed /\ r.typed[r.new] \in Typed
        /\ r.day \in Day \cup {0} /\ r.value \in Value \cup {0}
    BY <2>2 DEF Correcting, IsRequest, IsChanges
  <2>5. /\ was \in Typed /\ was.state = "replaced" /\ was.copy = None
        /\ row \in Typed /\ row.state = "current" /\ row.copy = c
        /\ row.day = r.day /\ row.value = r.value /\ published \in Published
    BY <2>2, <2>3, <2>4 DEF Correcting, Typed, Published
  <2>7. /\ IsChanges(ts, Reading, Typed) /\ DOMAIN ts = {r.old, r.new}
        /\ ts[r.old] = was /\ ts[r.new] = row
    <3>1. /\ r.old \in Reading /\ r.new \in Reading
          /\ IsChanges(r.typed, Reading, Typed) /\ DOMAIN r.typed \subseteq {r.old, r.new}
      BY <2>2 DEF IsRequest, Correcting
    <3> HIDE DEF r, was, row, published
    <3> QED
      BY <2>3, <2>5, <3>1 DEF With, IsChanges
  <2>8. IsChanges(cs, Copy, Published) /\ DOMAIN cs = {c} /\ cs[c] = published
    <3>1. IsChanges(r.copies, Copy, Published)
      BY <2>2 DEF IsRequest
    <3>2. DOMAIN r.copies = {} /\ c \in Copy /\ published \in Published
      BY <2>2, <2>3, <2>5
    <3> HIDE DEF r, c, published
    <3> QED
      BY <3>1, <3>2 DEF With, IsChanges
  <2> HIDE DEF was, row, os, ts, cs
  <2>9. /\ IsRequest(q) /\ q.typed = ts /\ q.copies = cs /\ q.pc = "newest"
        /\ q.old = r.old /\ q.new = r.new /\ q.day = r.day /\ q.value = r.value
        /\ q.station = r.station /\ q.newest = r.newest
    BY <2>2, <2>7, <2>8 DEF IsRequest, PC
  <2> HIDE DEF q
  <2>10. req'[s] = q
    BY <2>1 DEF StationInv, TypeOK
  <2>11. Standing(s)'
    <3>1. Correcting(s)'
      BY <1>1, <2>2, <2>5, <2>7, <2>9, <2>10 DEF Correcting
    <3>2. Moved(s)'
      BY <1>1, <2>5, <2>7, <2>8, <2>9, <2>10, <3>1 DEF Moved
    <3> QED
      BY <2>2, <2>9, <2>10, <3>2 DEF Standing
  <2>12. \A u \in Session \ {s} : DOMAIN q.typed \cap DOMAIN req[u].typed = {}
    BY <2>2, <2>7, <2>9 DEF Correcting, StationInv, RowsApart
  <2>13. \A x \in DOMAIN q.copies : q.copies[x].day # 0 =>
           /\ \A y \in Copy \ {x} : copy[y].day # q.copies[x].day
           /\ \A u \in Session \ {s} : \A e \in DOMAIN req[u].copies :
                req[u].copies[e].day # q.copies[x].day
    <3>1. \A x \in DOMAIN q.copies : x = c /\ q.copies[x].day = r.day
      BY <2>8, <2>9
    <3>2. \A u \in Session \ {s} : \A e \in DOMAIN req[u].copies : req[u].copies[e].day # r.day
      BY <1>1 DEF DayHeld
    <3> QED
      BY <1>3, <3>1, <3>2
  <2> QED
    BY <1>1, <2>1, <2>9, <2>11, <2>12, <2>13, Uncommitted
<1> QED
  BY <1>2, <1>3

-----------------------------------------------------------------------------
(* A request commits *)

\* What commits is one copy, and the readings ds with it: those that count have
\* the copy, the others none, and no reading left alone had it.
Takes(c, p, ds) ==
  /\ c \in Copy /\ ds \subseteq Reading
  /\ copy' = [copy EXCEPT ![c] = p]
  /\ \A x \in Reading \ ds : typed'[x] = typed[x] /\ typed[x].copy # c
  /\ \A x \in ds :
       /\ typed[x].copy \in {None, c}
       /\ typed'[x].state # "unused"
       /\ IF typed'[x].state = "current"
            THEN /\ typed'[x].copy = c /\ typed'[x].day \in Day
                 /\ p = [day |-> typed'[x].day, value |-> typed'[x].value]
            ELSE typed'[x].copy = None
  /\ p # Off => /\ p.day # 0 /\ \A x \in Copy \ {c} : copy[x].day # p.day
                /\ typed'[c].state # "unused"
                /\ \E x \in ds : typed'[x].copy = c /\ \A y \in ds \ {x} : typed'[y].copy # c

\* A copy on the chart has a day.
LEMMA CopiesDated ==
  ASSUME StationInv, NEW c \in Copy, copy[c] # Off
  PROVE  copy[c].day # 0
<1>1. PICK r \in Reading : typed[r].copy = c
  BY DEF StationInv, ChartReadsWhatWasTyped
<1>2. typed[r].state = "current"
  BY <1>1, NoneIsNoRow DEF StationInv, ChartReadsWhatWasTyped
<1>3. typed[r].day \in Day /\ copy[c] = [day |-> typed[r].day, value |-> typed[r].value]
  BY <1>1, <1>2 DEF StationInv, ChartReadsWhatWasTyped, ReadingsDated
<1> QED
  BY <1>3, NoneIsNoRow

\* A reading that counts has its copy for itself.
LEMMA CopyIsOwn ==
  ASSUME StationInv, NEW o \in Reading, typed[o].state = "current"
  PROVE  /\ typed[o].copy \in Copy /\ copy[typed[o].copy] # Off
         /\ \A x \in Reading \ {o} : typed[x].copy # typed[o].copy
<1>1. typed[o].copy \in Copy
  BY NoneIsNoRow DEF StationInv, TypeOK, Typed, ChartReadsWhatWasTyped
<1>2. /\ copy[typed[o].copy] = [day |-> typed[o].day, value |-> typed[o].value]
      /\ typed[o].day \in Day
  BY DEF StationInv, ChartReadsWhatWasTyped, ReadingsDated
<1>3. copy[typed[o].copy] # Off
  BY <1>2, NoneIsNoRow DEF Off
<1>4. PICK r \in Reading : /\ typed[r].copy = typed[o].copy
                           /\ \A q \in Reading \ {r} : typed[q].copy # typed[o].copy
  BY <1>1, <1>3 DEF StationInv, ChartReadsWhatWasTyped
<1> QED
  BY <1>1, <1>3, <1>4

\* What commits so leaves the chart as it should be.
LEMMA TakesKeepsChart ==
  ASSUME StationInv, NEW c, NEW p, NEW ds, Takes(c, p, ds)
  PROVE  ChartReadsWhatWasTyped' /\ CopiesMade' /\ ReadingsDated'
<1>1. /\ c \in Copy /\ copy'[c] = p /\ \A x \in Copy \ {c} : copy'[x] = copy[x]
  BY DEF Takes, StationInv, TypeOK
<1>2. ASSUME NEW r \in Reading
      PROVE  IF typed'[r].state = "current"
               THEN /\ typed'[r].copy # None /\ typed'[r].day \in Day
                    /\ copy'[typed'[r].copy] = [day |-> typed'[r].day, value |-> typed'[r].value]
               ELSE typed'[r].copy = None
  <2>1. CASE r \in ds
    BY <1>1, <2>1, NoneIsNoRow DEF Takes
  <2>2. CASE r \notin ds
    <3>1. typed'[r] = typed[r] /\ typed[r].copy # c
      BY <2>2 DEF Takes
    <3>2. CASE typed[r].state = "current"
      <4>1. typed[r].copy \in Copy \ {c}
        BY <3>1, <3>2, CopyIsOwn
      <4>2. /\ copy[typed[r].copy] = [day |-> typed[r].day, value |-> typed[r].value]
            /\ typed[r].day \in Day /\ typed[r].copy # None
        BY <3>2 DEF StationInv, ChartReadsWhatWasTyped, ReadingsDated
      <4>3. copy'[typed[r].copy] = copy[typed[r].copy]
        BY <1>1, <4>1
      <4> QED
        BY <3>1, <3>2, <4>2, <4>3
    <3>3. CASE typed[r].state # "current"
      BY <3>1, <3>3 DEF StationInv, ChartReadsWhatWasTyped
    <3> QED
      BY <3>2, <3>3
  <2> QED
    BY <2>1, <2>2
<1>3. ASSUME NEW x \in Copy, copy'[x] # Off
      PROVE  /\ typed'[x].state # "unused"
             /\ \E r \in Reading : /\ typed'[r].copy = x
                                   /\ \A q \in Reading \ {r} : typed'[q].copy # x
  <2>1. CASE x = c
    <3>1. p # Off /\ \A y \in Reading \ ds : typed'[y].copy # c
      BY <1>1, <1>3, <2>1 DEF Takes
    <3>2. PICK r \in ds : typed'[r].copy = c /\ \A y \in ds \ {r} : typed'[y].copy # c
      BY <3>1 DEF Takes
    <3>3. r \in Reading /\ \A q \in Reading \ {r} : typed'[q].copy # c
      BY <3>1, <3>2 DEF Takes
    <3>4. typed'[c].state # "unused"
      BY <3>1 DEF Takes
    <3> QED
      BY <2>1, <3>2, <3>3, <3>4
  <2>2. CASE x # c
    <3>1. copy[x] # Off
      BY <1>1, <1>3, <2>2
    <3>2. PICK r \in Reading : typed[r].copy = x /\ \A q \in Reading \ {r} : typed[q].copy # x
      BY <3>1 DEF StationInv, ChartReadsWhatWasTyped
    <3>3. x # None /\ r \notin ds
      BY <2>2, <3>2, NoneIsNoRow DEF Takes
    <3>4. \A q \in ds : typed'[q].copy # x
      BY <2>2, <3>3 DEF Takes
    <3>5. \A q \in Reading \ ds : typed'[q] = typed[q]
      BY DEF Takes
    <3>6. typed'[x].state # "unused"
      <4>1. typed[x].state # "unused" /\ x \in Reading
        BY <3>1 DEF StationInv, CopiesMade, Copy
      <4> QED
        BY <4>1 DEF Takes
    <3> QED
      BY <3>2, <3>3, <3>4, <3>5, <3>6
  <2> QED
    BY <2>1, <2>2
<1>4. ASSUME NEW x \in Copy, NEW y \in Copy, copy'[x] # Off, copy'[x].day = copy'[y].day
      PROVE  x = y
  <2>1. CASE x # c /\ y # c
    BY <1>1, <1>4, <2>1 DEF StationInv, ChartReadsWhatWasTyped
  <2>2. CASE x = c /\ y # c
    BY <1>1, <1>4, <2>2 DEF Takes
  <2>3. CASE x # c /\ y = c
    <3>1. copy[x] # Off /\ copy[x].day # 0
      BY <1>1, <1>4, <2>3, CopiesDated
    <3>2. p # Off
      BY <1>1, <1>4, <2>3, <3>1 DEF Off
    <3> QED
      BY <1>1, <1>4, <2>3, <3>2 DEF Takes
  <2> QED
    BY <2>1, <2>2, <2>3
<1> QED
  BY <1>2, <1>3, <1>4 DEF ChartReadsWhatWasTyped, CopiesMade, ReadingsDated

\* A request that is ready to commit does so.
LEMMA CommitTakes ==
  ASSUME StationInv, NEW s \in Session, Commit(s)
  PROVE  \E c \in Copy : /\ DOMAIN req[s].copies = {c}
                         /\ Takes(c, req[s].copies[c], DOMAIN req[s].typed)
<1> DEFINE r == req[s]
           ds == DOMAIN r.typed
<1>1. /\ r.pc = "commit" /\ typed' = Over(typed, r.typed) /\ copy' = Over(copy, r.copies)
      /\ Typing(s) \/ Moved(s) \/ Voiding(s)
  BY DEF Commit, StationInv, Standing
<1>2. /\ ds \subseteq Reading
      /\ \A x \in Reading \ ds : typed'[x] = typed[x]
      /\ \A x \in ds : typed'[x] = r.typed[x]
  BY <1>1 DEF StationInv, TypeOK, IsRequest, IsChanges, Over
<1>3. ASSUME NEW c \in Copy, DOMAIN r.copies = {c}
      PROVE  /\ copy' = [copy EXCEPT ![c] = r.copies[c]]
             /\ r.copies[c].day # 0 => \A x \in Copy \ {c} : copy[x].day # r.copies[c].day
  <2>1. copy' = [copy EXCEPT ![c] = r.copies[c]]
    BY <1>1, <1>3 DEF StationInv, TypeOK, Over
  <2> QED
    BY <1>3, <2>1 DEF StationInv, DaysApart
<1>4. CASE Typing(s)
  <2>1. PICK n \in Reading :
          /\ typed[n].state = "unused" /\ ds = {n} /\ DOMAIN r.copies = {n}
          /\ r.typed[n] = [state |-> "current", day |-> r.day, value |-> r.value, copy |-> n]
          /\ r.copies[n] = [day |-> r.day, value |-> r.value] /\ r.day \in Day
    BY <1>4 DEF Typing
  <2>2. n \in Copy /\ n # None /\ r.day # 0
    BY <2>1, NoneIsNoRow DEF Copy
  <2>3. copy[n] = Off /\ typed[n].copy = None
    BY <2>1, <2>2 DEF StationInv, CopiesMade, ChartReadsWhatWasTyped
  <2>4. \A x \in Reading : typed[x].copy # n
    <3>1. ASSUME NEW x \in Reading, typed[x].copy = n PROVE FALSE
      <4>1. typed[x].state = "current"
        BY <2>2, <3>1 DEF StationInv, ChartReadsWhatWasTyped
      <4> QED
        BY <2>3, <3>1, <4>1, CopyIsOwn
    <3> QED
      BY <3>1
  <2>5. Takes(n, r.copies[n], ds)
    BY <1>2, <1>3, <2>1, <2>2, <2>3, <2>4 DEF Takes
  <2> QED
    BY <2>1, <2>2, <2>5
<1>5. CASE Moved(s)
  <2> DEFINE o == r.old
             n == r.new
             c == typed[o].copy
  <2>1. /\ o \in Reading /\ typed[o].state = "current"
        /\ n \in Reading /\ typed[n].state = "unused" /\ ds = {o, n}
        /\ r.typed[o].state = "replaced" /\ r.typed[o].copy = None
        /\ r.typed[n].state = "current" /\ r.typed[n].copy = c
        /\ r.typed[n].day = r.day /\ r.typed[n].value = r.value /\ r.day \in Day
        /\ DOMAIN r.copies = {c} /\ r.copies[c] = [day |-> r.day, value |-> r.value]
    BY <1>5 DEF Moved, Correcting
  <2>2. /\ c \in Copy /\ c # None /\ \A x \in Reading \ {o} : typed[x].copy # c
        /\ copy[c] # Off /\ o # n /\ r.day # 0
    BY <2>1, CopyIsOwn, NoneIsNoRow
  <2>3. c \in Reading /\ typed[c].state # "unused" /\ typed[n].copy = None
    BY <2>1, <2>2 DEF StationInv, CopiesMade, ChartReadsWhatWasTyped, Copy
  <2>4. typed'[c].state # "unused"
    BY <1>2, <2>1, <2>3
  <2> HIDE DEF c
  <2>5. c = typed[o].copy
    BY DEF c
  <2> HIDE DEF o, n
  <2>6. Takes(c, r.copies[c], ds)
    BY <1>2, <1>3, <2>1, <2>2, <2>3, <2>4, <2>5 DEF Takes
  <2> QED
    BY <2>1, <2>2, <2>6
<1>6. CASE Voiding(s)
  <2> DEFINE o == r.old
             c == typed[o].copy
  <2>1. /\ o \in Reading /\ typed[o].state = "current" /\ ds = {o}
        /\ r.typed[o].state = "voided" /\ r.typed[o].copy = None
        /\ DOMAIN r.copies = {c} /\ r.copies[c] = Off
    BY <1>6 DEF Voiding
  <2>2. c \in Copy /\ \A x \in Reading \ {o} : typed[x].copy # c
    BY <2>1, CopyIsOwn
  <2>3. c = typed[o].copy
    OBVIOUS
  <2> HIDE DEF o, c
  <2>4. Takes(c, r.copies[c], ds)
    BY <1>2, <1>3, <2>1, <2>2, <2>3 DEF Takes
  <2> QED
    BY <2>1, <2>2, <2>4
<1> QED
  BY <1>1, <1>4, <1>5, <1>6

\* Commit keeps the invariant.
LEMMA CommitKeeps ==
  ASSUME StationInv, NEW s \in Session, Commit(s)
  PROVE  StationInv'
<1> DEFINE r == req[s]
<1>1. PICK c \in Copy : DOMAIN r.copies = {c} /\ Takes(c, r.copies[c], DOMAIN r.typed)
  BY CommitTakes
<1>2. ChartReadsWhatWasTyped' /\ CopiesMade' /\ ReadingsDated'
  BY <1>1, TakesKeepsChart
<1>3. /\ req' = [req EXCEPT ![s] = Idle] /\ req'[s] = Idle
      /\ \A u \in Session \ {s} : req'[u] = req[u]
  BY DEF Commit, StationInv, TypeOK
<1>4. TypeOK'
  <2>1. typed' \in [Reading -> Typed] /\ copy' \in [Copy -> Published]
    BY DEF Commit, Over, StationInv, TypeOK, IsRequest, IsChanges
  <2>2. newest' \in Day \cup {0}
    BY DEF Commit, StationInv, TypeOK, Standing
  <2> QED
    BY <1>3, <2>1, <2>2, IdleIsRequest DEF StationInv, TypeOK
<1>5. ASSUME NEW u \in Session PROVE Standing(u)'
  <2>1. CASE u = s
    BY <1>3, <2>1, NothingIsChanges DEF Standing, Idle
  <2>2. CASE u # s
    <3>1. Standing(u) /\ req'[u] = req[u]
      BY <1>3, <2>2 DEF StationInv
    <3>2. \A x \in DOMAIN req[u].typed : typed'[x] = typed[x]
      BY <1>1, <2>2 DEF Takes, StationInv, RowsApart, TypeOK, IsRequest, IsChanges
    <3> QED
      BY <3>1, <3>2, KindStays DEF Standing
  <2> QED
    BY <2>1, <2>2
<1>6. DOMAIN Idle.typed = {} /\ DOMAIN Idle.copies = {}
  BY NothingIsChanges DEF Idle
<1> HIDE DEF Idle
<1>7. RowsApart'
  BY <1>3, <1>6 DEF StationInv, RowsApart
<1>8. DaysApart'
  <2>1. ASSUME NEW u \in Session, NEW e \in DOMAIN req'[u].copies,
               req'[u].copies[e].day # 0
        PROVE  /\ \A x \in Copy \ {e} : copy'[x].day # req'[u].copies[e].day
               /\ \A v \in Session \ {u} : \A f \in DOMAIN req'[v].copies :
                    req'[v].copies[f].day # req'[u].copies[e].day
    <3>1. u # s /\ req'[u] = req[u]
      BY <1>3, <1>6, <2>1
    <3>2. r.copies[c].day # req[u].copies[e].day
      BY <1>1, <2>1, <3>1 DEF StationInv, DaysApart
    <3>3. \A x \in Copy \ {e} : copy'[x].day # req[u].copies[e].day
      BY <1>1, <2>1, <3>1, <3>2 DEF Takes, StationInv, TypeOK, DaysApart
    <3>4. \A v \in Session \ {u} : \A f \in DOMAIN req'[v].copies :
             req'[v].copies[f].day # req[u].copies[e].day
      BY <1>3, <1>6, <2>1, <3>1 DEF StationInv, DaysApart
    <3> QED
      BY <3>1, <3>3, <3>4
  <2> QED
    BY <2>1 DEF DaysApart
<1> QED
  BY <1>2, <1>4, <1>5, <1>7, <1>8 DEF StationInv

-----------------------------------------------------------------------------
(* Theorems *)

\* Every step keeps the invariant.
LEMMA StationStep == ASSUME StationInv, [Next]_vars PROVE StationInv'
<1>1. CASE UNCHANGED vars
  <2>1. TypeOK' /\ ChartReadsWhatWasTyped' /\ CopiesMade' /\ ReadingsDated'
    BY <1>1 DEF vars, StationInv, TypeOK, ChartReadsWhatWasTyped, CopiesMade, ReadingsDated
  <2>2. RowsApart' /\ DaysApart'
    BY <1>1 DEF vars, StationInv, RowsApart, DaysApart
  <2>3. ASSUME NEW s \in Session PROVE Standing(s)'
    <3>1. Standing(s) /\ UNCHANGED <<req, typed>>
      BY <1>1 DEF vars, StationInv
    <3> QED
      BY <3>1, KindStays DEF Standing
  <2> QED
    BY <2>1, <2>2, <2>3 DEF StationInv
<1>2. ASSUME NEW s \in Session, Step(s) PROVE StationInv'
  <2>1. ASSUME NEW d \in Day, NEW v \in Value, Type(s, d, v) PROVE StationInv'
    BY <2>1, TypeKeeps
  <2>2. ASSUME NEW d \in Day, NEW v \in Value, NEW r \in Reading, Correct(s, r, d, v)
        PROVE  StationInv'
    BY <2>2, CorrectKeeps
  <2>3. ASSUME NEW r \in Reading, Void(s, r) PROVE StationInv'
    BY <2>3, VoidKeeps
  <2>4. ASSUME Rollback(s) PROVE StationInv'
    BY <2>4, GivenUp DEF Rollback
  <2> QED
    BY <1>2, <2>1, <2>2, <2>3, <2>4, InsertKeeps, LookNewestKeeps, KeepNewestKeeps,
       MoveCopyKeeps, CommitKeeps DEF Step
<1> QED
  BY <1>1, <1>2 DEF Next

\* And the initial states have it.
LEMMA StationInit == ASSUME Init PROVE StationInv
<1>1. TypeOK
  BY IdleIsRequest DEF Init, TypeOK, Unused, Typed, Off, Published
<1>2. ChartReadsWhatWasTyped /\ CopiesMade /\ ReadingsDated
  BY DEF Init, Unused, Off, ChartReadsWhatWasTyped, CopiesMade, ReadingsDated
<1>3. \A s \in Session : req[s] = Idle
  BY DEF Init
<1>4. Idle.pc = "idle" /\ Idle.station = {} /\ DOMAIN Idle.typed = {} /\ DOMAIN Idle.copies = {}
  BY NothingIsChanges DEF Idle
<1> HIDE DEF Idle
<1>5. \A s \in Session : Standing(s)
  BY <1>3, <1>4 DEF Standing
<1>6. RowsApart /\ DaysApart
  BY <1>3, <1>4 DEF RowsApart, DaysApart
<1> QED
  BY <1>1, <1>2, <1>5, <1>6 DEF StationInv

\* The invariant holds in every behaviour.
LEMMA StationAlways == Spec => []StationInv
<1>1. Init => StationInv
  BY StationInit
<1>2. StationInv /\ [Next]_vars => StationInv'
  BY StationStep
<1> QED
  BY <1>1, <1>2, PTL DEF Spec

\* Whatever the number of readings and of days, the rows have their types: the
\* station's newest day is a day on file or none (datasync/typed_readings.py).
THEOREM StationTypeCorrect == Spec => []TypeOK
<1>1. StationInv => TypeOK
  BY DEF StationInv
<1> QED
  BY <1>1, StationAlways, PTL

\* Whatever the number of readings, of days and of people's requests: the chart
\* reads what was typed. No two readings share a published copy, none is left
\* without one and none is published twice on a day, however typing, voiding and
\* correcting interleave (save_reading, _station_reading_on_void,
\* _station_reading_on_correct).
THEOREM ChartIsTyped == Spec => []ChartReadsWhatWasTyped
<1>1. StationInv => ChartReadsWhatWasTyped
  BY DEF StationInv
<1> QED
  BY <1>1, StationAlways, PTL

-----------------------------------------------------------------------------
(* Readings of a meter: the inductive invariants *)

\* One request at a time is at work on the meter.
OneRequest ==
  \A s, u \in Person : s # u => meterReq[s].pc = "idle" \/ meterReq[u].pc = "idle"

\* Readings in use are dated, each on a day of its own.
DatesInv ==
  /\ \A r \in InUse : table[r].day \in MeterDay
  /\ \A r, q \in InUse : table[r].day = table[q].day => r = q

\* The first readings in use after the day of a reading, as committed.
NextOf(r) ==
  LET after == {q \in InUse : table[q].day > table[r].day}
  IN {q \in after : \A p \in after : table[p].day >= table[q].day}

\* A request at work on a void or a correction.
AtWorkOn(s) == meterReq[s].pc \notin {"idle", "typed"}

\* The places where a void or a correction changes what follows.
Places(s) == {meterReq[s].old, meterReq[s].new} \ {NoReading}

\* The reading a request struck.
StruckInv(s) ==
  LET o == meterReq[s].old IN
  /\ o \in InUse /\ o \in DOMAIN Pending(s)
  /\ Pending(s)[o].state # "current" /\ Pending(s)[o].day = table[o].day

\* The reading it wrote in its place, if it corrects.
WrittenInv(s) ==
  LET n == meterReq[s].new IN
  n # NoReading =>
    /\ n \in MeterReading /\ table[n].state = "unused" /\ n \in DOMAIN Pending(s)
    /\ Pending(s)[n].state = "current" /\ Pending(s)[n].day \in MeterDay
    /\ \A q \in InUse \ {meterReq[s].old} : table[q].day # Pending(s)[n].day

\* What else it changed are readings in use, first after one of the two.
FollowedInv(s) ==
  /\ \A q \in DOMAIN Pending(s) \ Places(s) :
       /\ q \in InUse /\ Pending(s)[q].state = "current" /\ Pending(s)[q].day = table[q].day
       /\ \E p \in Places(s) : q \in FirstAfter(s, Seen(s, p).day)
  /\ meterReq[s].pc \in {"earlier", "update"} =>
       \E p \in Places(s) : meterReq[s].follow \in FirstAfter(s, Seen(s, p).day)

\* Where it stands, and the months it has noted.
WayInv(s) ==
  /\ meterReq[s].around \subseteq Places(s)
  /\ meterReq[s].pc = "figure" =>
       meterReq[s].new # NoReading /\ meterReq[s].around = Places(s)
  /\ meterReq[s].pc = "commit" => meterReq[s].around = {}
  /\ {table[meterReq[s].old].day} \cup {table[q].day : q \in NextOf(meterReq[s].old)}
       \subseteq meterReq[s].months
  /\ meterReq[s].pc = "commit" /\ meterReq[s].new # NoReading =>
       MonthsOf(s, meterReq[s].new) \subseteq meterReq[s].months

RequestInv(s) ==
  /\ ~AtWorkOn(s) => DOMAIN Pending(s) = {}
  /\ meterReq[s].pc = "typed" =>
       meterReq[s].day \in MeterDay /\ \A q \in InUse : table[q].day # meterReq[s].day
  /\ AtWorkOn(s) => StruckInv(s) /\ WrittenInv(s) /\ FollowedInv(s) /\ WayInv(s)

PlacesInv == MeterTypeOK /\ DatesInv /\ \A s \in Person : RequestInv(s)

\* A reading is figured from the last one in use before it, as a request sees them.
Figured(s, r) == Seen(s, r).from \in OrNone(LastBefore(s, Seen(s, r).day))

\* A reading the request has still to figure.
Due(s, r) ==
  \/ meterReq[s].pc = "figure" /\ r = meterReq[s].new
  \/ meterReq[s].pc \in {"earlier", "update"} /\ r = meterReq[s].follow
  \/ \E p \in meterReq[s].around : r \in FirstAfter(s, Seen(s, p).day)

\* Every reading in use is figured or due, and what was looked up still stands.
FiguresInv(s) ==
  /\ AtWorkOn(s) => \A r \in Current(s) : Figured(s, r) \/ Due(s, r)
  /\ meterReq[s].pc = "update" =>
       meterReq[s].from \in OrNone(LastBefore(s, Seen(s, meterReq[s].follow).day))
  /\ meterReq[s].pc = "typed" =>
       /\ \A q \in InUse : table[q].day < meterReq[s].day
       /\ meterReq[s].from \in OrNone(LastBefore(s, meterReq[s].day))

LastInv == FiguredFromLast /\ \A s \in Person : FiguresInv(s)

-----------------------------------------------------------------------------
(* What a request on a meter sees *)

\* Days and keys are numbers, and no reading is none of them.
LEMMA MeterNumbers ==
  /\ NoReading \notin MeterReading /\ MeterDay \subseteq Nat
  /\ \A d \in MeterDay : 1 <= d /\ d <= NMeterDays
BY MeterBoundsAssumption DEF NoReading, MeterReading, MeterDay

\* What a request sees of a reading is a row.
LEMMA SeenIsRow ==
  ASSUME MeterTypeOK, NEW s \in Person, NEW r \in MeterReading
  PROVE  Seen(s, r) \in MeterRow
<1>1. DOMAIN Pending(s) \subseteq MeterReading /\ Pending(s) \in [DOMAIN Pending(s) -> MeterRow]
  BY DEF MeterTypeOK, IsMeterRequest, Pending
<1>2. table[r] \in MeterRow
  BY DEF MeterTypeOK
<1>3. QED
  BY <1>1, <1>2 DEF Seen

\* The day of a row is a number.
LEMMA SeenDays ==
  ASSUME MeterTypeOK, NEW s \in Person, NEW r \in MeterReading
  PROVE  /\ Seen(s, r).day \in 0 .. NMeterDays
         /\ Seen(s, r).from \in MeterReading \cup {NoReading}
BY SeenIsRow, MeterBoundsAssumption DEF MeterRow, MeterDay

\* Without changes of its own a request sees what is committed.
LEMMA SeesCommitted ==
  ASSUME NEW s, DOMAIN Pending(s) = {}
  PROVE  /\ \A r : Seen(s, r) = table[r]
         /\ Current(s) = InUse
         /\ \A r : FirstAfter(s, table[r].day) = NextOf(r)
<1>1. \A r : Seen(s, r) = table[r]
  BY DEF Seen
<1>2. Current(s) = InUse
  BY <1>1 DEF Current, InUse
<1>3. QED
  BY <1>1, <1>2 DEF FirstAfter, NextOf

\* Where one reading lies before a day there is a last one before it.
LEMMA LastIsThere ==
  ASSUME MeterTypeOK, NEW s \in Person, NEW d \in Nat, NEW q \in Current(s), Seen(s, q).day < d
  PROVE  LastBefore(s, d) # {}
<1> DEFINE before == {r \in Current(s) : Seen(s, r).day < d}
           T == {NMeterDays - Seen(s, r).day : r \in before}
<1>1. \A r \in before : r \in MeterReading /\ Seen(s, r).day \in 0 .. NMeterDays
  BY SeenDays DEF Current
<1>2. T \subseteq Nat /\ T # {}
  BY <1>1, MeterBoundsAssumption
<1>3. PICK x \in T : \A y \in T : x <= y
  <2> HIDE DEF T
  <2> QED
    BY <1>2, LeastOfNats
<1>4. PICK r \in before : x = NMeterDays - Seen(s, r).day
  BY <1>3
<1>5. \A p \in before : Seen(s, p).day <= Seen(s, r).day
  <2> SUFFICES ASSUME NEW p \in before PROVE Seen(s, p).day <= Seen(s, r).day
    OBVIOUS
  <2>1. NMeterDays - Seen(s, r).day <= NMeterDays - Seen(s, p).day
    BY <1>3, <1>4
  <2>2. QED
    BY <1>1, <2>1, MeterBoundsAssumption
<1>6. QED
  BY <1>4, <1>5 DEF LastBefore

\* Where no reading moves from its day or in or out of use, the same lie before and
\* after a day.
LEMMA StayInPlace ==
  ASSUME NEW s,
         \A r \in MeterReading : Seen(s, r)'.state = Seen(s, r).state
                                 /\ Seen(s, r)'.day = Seen(s, r).day
  PROVE  /\ Current(s)' = Current(s)
         /\ \A d : FirstAfter(s, d)' = FirstAfter(s, d) /\ LastBefore(s, d)' = LastBefore(s, d)
<1>1. Current(s)' = Current(s)
  BY DEF Current
<1>2. \A r \in Current(s) : Seen(s, r)'.day = Seen(s, r).day
  BY DEF Current
<1>3. ASSUME NEW d PROVE FirstAfter(s, d)' = FirstAfter(s, d)
  BY <1>1, <1>2 DEF FirstAfter
<1>4. ASSUME NEW d PROVE LastBefore(s, d)' = LastBefore(s, d)
  BY <1>1, <1>2 DEF LastBefore
<1>5. QED
  BY <1>1, <1>3, <1>4

\* The days of readings in use differ for a request at work too.
LEMMA SeenApart ==
  ASSUME MeterTypeOK, DatesInv, NEW s \in Person, RequestInv(s)
  PROVE  /\ \A r \in Current(s) : Seen(s, r).day \in MeterDay
         /\ \A r, q \in Current(s) : Seen(s, r).day = Seen(s, q).day => r = q
<1>1. CASE ~AtWorkOn(s)
  BY <1>1, SeesCommitted DEF RequestInv, DatesInv
<1>2. CASE AtWorkOn(s)
  <2> DEFINE o == meterReq[s].old
             n == meterReq[s].new
  <2>1. StruckInv(s) /\ WrittenInv(s) /\ FollowedInv(s)
    BY <1>2 DEF RequestInv
  <2>2. Seen(s, o).state # "current"
    BY <2>1 DEF StruckInv, Seen
  <2>3. ASSUME NEW r \in Current(s), r # n
        PROVE  r \in InUse /\ r # o /\ Seen(s, r).day = table[r].day
    <3>1. r \in MeterReading /\ Seen(s, r).state = "current" /\ r # o
      BY <2>2 DEF Current
    <3>2. CASE r \in DOMAIN Pending(s)
      BY <2>1, <2>3, <3>1, <3>2 DEF FollowedInv, Places, Seen
    <3>3. CASE r \notin DOMAIN Pending(s)
      BY <3>1, <3>3 DEF Seen, InUse
    <3>4. QED
      BY <3>1, <3>2, <3>3
  <2>4. ASSUME n \in Current(s)
        PROVE  /\ Seen(s, n).day \in MeterDay
               /\ \A r \in Current(s) : r # n => Seen(s, r).day # Seen(s, n).day
    <3>1. n # NoReading
      BY <2>4, MeterNumbers DEF Current
    <3>2. Seen(s, n) = Pending(s)[n]
      BY <2>1, <3>1 DEF WrittenInv, Seen
    <3>3. QED
      BY <2>1, <2>3, <3>1, <3>2 DEF WrittenInv
  <2>5. QED
    BY <2>3, <2>4 DEF DatesInv
<1>3. QED
  BY <1>1, <1>2

\* So the first after a day is one reading.
LEMMA FirstIsOne ==
  ASSUME MeterTypeOK, DatesInv, NEW s \in Person, RequestInv(s), NEW d,
         NEW f \in FirstAfter(s, d), NEW g \in FirstAfter(s, d)
  PROVE  f = g
<1>1. f \in Current(s) /\ g \in Current(s)
      /\ Seen(s, g).day >= Seen(s, f).day /\ Seen(s, f).day >= Seen(s, g).day
  BY DEF FirstAfter
<1>2. Seen(s, f).day \in Nat /\ Seen(s, g).day \in Nat
  BY <1>1, SeenApart, MeterNumbers
<1>3. QED
  BY <1>1, <1>2, SeenApart

-----------------------------------------------------------------------------
(* Steps of a request on a meter keep PlacesInv *)

\* What a request holds, when its changes are empty.
LEMMA MeterIdleIsRequest == IsMeterRequest(MeterIdle) /\ DOMAIN MeterIdle.pending = {}
<1>1. NoChanges \in [{} -> MeterRow] /\ DOMAIN NoChanges = {}
  BY DEF NoChanges
<1>2. MeterIdle.pending = NoChanges
  BY DEF MeterIdle
<1> HIDE DEF NoChanges
<1>3. MeterIdle \in [pc : MeterPC, old : MeterReading \cup {NoReading},
            new : MeterReading \cup {NoReading}, around : SUBSET MeterReading,
            day : MeterDay \cup {0}, from : MeterReading \cup {NoReading},
            follow : MeterReading \cup {NoReading}, months : SUBSET MeterDay,
            pending : {MeterIdle.pending}]
  BY DEF MeterIdle, MeterPC
<1>4. QED
  BY <1>1, <1>2, <1>3 DEF IsMeterRequest

\* Every reading in use that a request did not write is as it is committed.
LEMMA CurrentIs ==
  ASSUME MeterTypeOK, NEW s \in Person, RequestInv(s), AtWorkOn(s),
         NEW r \in Current(s), r # meterReq[s].new
  PROVE  /\ r \in InUse /\ r # meterReq[s].old
         /\ Seen(s, r).day = table[r].day
<1>1. StruckInv(s) /\ FollowedInv(s)
  BY DEF RequestInv
<1>2. r \in MeterReading /\ Seen(s, r).state = "current"
  BY DEF Current
<1>3. r # meterReq[s].old
  BY <1>1, <1>2 DEF StruckInv, Seen
<1>4. CASE r \in DOMAIN Pending(s)
  BY <1>1, <1>3, <1>4 DEF FollowedInv, Places, Seen
<1>5. CASE r \notin DOMAIN Pending(s)
  BY <1>2, <1>3, <1>5 DEF Seen, InUse
<1>6. QED
  BY <1>3, <1>4, <1>5

\* While a request is at work the others are idle, before its step and after it.
LEMMA OthersRest ==
  ASSUME PlacesInv, OneRequest, OneRequest', NEW s \in Person, NEW X, IsMeterRequest(X),
         meterReq' = [meterReq EXCEPT ![s] = X], meterReq[s].pc # "idle" \/ X.pc # "idle"
  PROVE  /\ meterReq'[s] = X
         /\ \A u \in Person \ {s} :
              meterReq'[u] = meterReq[u] /\ RequestInv(u)' /\ FiguresInv(u)'
         /\ meterReq' = [u \in Person |-> meterReq'[u]]
         /\ \A u \in Person : IsMeterRequest(meterReq'[u])
<1>1. meterReq = [u \in Person |-> meterReq[u]] /\ \A u \in Person : IsMeterRequest(meterReq[u])
  BY DEF PlacesInv, MeterTypeOK
<1>2. meterReq'[s] = X /\ meterReq' = [u \in Person |-> meterReq'[u]]
      /\ \A u \in Person \ {s} : meterReq'[u] = meterReq[u]
  BY <1>1
<1>3. ASSUME NEW u \in Person \ {s} PROVE meterReq[u].pc = "idle"
  BY <1>2 DEF OneRequest
<1>4. ASSUME NEW u \in Person \ {s} PROVE RequestInv(u)' /\ FiguresInv(u)'
  <2>1. meterReq'[u].pc = "idle" /\ DOMAIN Pending(u)' = {}
    BY <1>2, <1>3 DEF PlacesInv, RequestInv, AtWorkOn, Pending
  <2>2. ~AtWorkOn(u)'
    BY <2>1 DEF AtWorkOn
  <2>3. QED
    BY <2>1, <2>2 DEF RequestInv, FiguresInv
<1>5. \A u \in Person : IsMeterRequest(meterReq'[u])
  BY <1>1, <1>2
<1>6. QED
  BY <1>2, <1>4, <1>5

\* A step of a request that keeps the table.
LEMMA TableStays ==
  ASSUME PlacesInv, OneRequest, OneRequest', NEW s \in Person, NEW X, IsMeterRequest(X),
         meterReq' = [meterReq EXCEPT ![s] = X], meterReq[s].pc # "idle" \/ X.pc # "idle",
         table' = table, RequestInv(s)'
  PROVE  PlacesInv'
<1>1. MeterTypeOK'
  BY OthersRest DEF PlacesInv, MeterTypeOK
<1>2. DatesInv'
  BY DEF PlacesInv, DatesInv, InUse
<1>3. \A u \in Person : RequestInv(u)'
  BY OthersRest
<1>4. QED
  BY <1>1, <1>2, <1>3 DEF PlacesInv

\* A reading is typed.
LEMMA TypeReadingPlaces ==
  ASSUME PlacesInv, OneRequest, OneRequest', NEW s \in Person, NEW d \in MeterDay,
         TypeReading(s, d)
  PROVE  PlacesInv'
<1>1. PICK e \in OrNone(LastBefore(s, d)) :
        meterReq' = [meterReq EXCEPT
                       ![s] = [MeterIdle EXCEPT !.pc = "typed", !.day = d, !.from = e]]
  BY DEF TypeReading
<1> DEFINE X == [MeterIdle EXCEPT !.pc = "typed", !.day = d, !.from = e]
<1>2. e \in MeterReading \cup {NoReading}
  BY DEF OrNone, LastBefore, Current
<1>3. X.pc = "typed" /\ X.day = d /\ X.pending = MeterIdle.pending
  BY DEF MeterIdle
<1>4. IsMeterRequest(X)
  BY <1>2, MeterIdleIsRequest DEF IsMeterRequest, MeterPC, MeterIdle
<1>5. meterReq' = [meterReq EXCEPT ![s] = X] /\ table' = table
  BY <1>1 DEF TypeReading
<1> HIDE DEF X
<1>6. meterReq'[s] = X
  BY <1>3, <1>4, <1>5, OthersRest
<1>7. meterReq[s].pc = "idle" /\ RequestInv(s)
  BY DEF TypeReading, PlacesInv
<1>8. \A q \in InUse : table[q].day # d
  BY <1>7, SeesCommitted DEF TypeReading, DayFree, RequestInv, AtWorkOn
<1>9. RequestInv(s)'
  BY <1>3, <1>5, <1>6, <1>8, MeterIdleIsRequest DEF RequestInv, AtWorkOn, Pending, InUse
<1>10. QED
  BY <1>3, <1>4, <1>5, <1>9, TableStays

\* A step that leaves a request idle changes nothing else of it.
LEMMA LeavesIdle ==
  ASSUME PlacesInv, OneRequest, OneRequest', NEW s \in Person, meterReq[s].pc # "idle",
         meterReq' = [meterReq EXCEPT ![s] = MeterIdle]
  PROVE  /\ meterReq'[s] = MeterIdle
         /\ \A u \in Person : RequestInv(u)' /\ FiguresInv(u)'
         /\ meterReq' = [u \in Person |-> meterReq'[u]]
         /\ \A u \in Person : IsMeterRequest(meterReq'[u])
<1>1. /\ meterReq'[s] = MeterIdle
      /\ \A u \in Person \ {s} : RequestInv(u)' /\ FiguresInv(u)'
      /\ meterReq' = [u \in Person |-> meterReq'[u]]
      /\ \A u \in Person : IsMeterRequest(meterReq'[u])
  BY OthersRest, MeterIdleIsRequest
<1>2. meterReq'[s].pc = "idle" /\ DOMAIN Pending(s)' = {}
  BY <1>1, MeterIdleIsRequest DEF MeterIdle, Pending
<1>3. RequestInv(s)' /\ FiguresInv(s)'
  BY <1>2 DEF RequestInv, FiguresInv, AtWorkOn
<1>4. QED
  BY <1>1, <1>3

\* It is saved.
LEMMA SaveReadingPlaces ==
  ASSUME PlacesInv, OneRequest, OneRequest', NEW s \in Person, SaveReading(s)
  PROVE  PlacesInv'
<1>1. PICK n \in NewMeterReading :
        table' = [table EXCEPT ![n] = [state |-> "current", day |-> meterReq[s].day,
                                       from |-> meterReq[s].from, replaces |-> NoReading]]
  BY DEF SaveReading
<1>2. n \in MeterReading /\ table[n].state = "unused" /\ table \in [MeterReading -> MeterRow]
  BY DEF NewMeterReading, PlacesInv, MeterTypeOK
<1>3. /\ meterReq[s].pc = "typed" /\ IsMeterRequest(meterReq[s]) /\ RequestInv(s)
      /\ meterReq' = [meterReq EXCEPT ![s] = MeterIdle]
  BY DEF SaveReading, PlacesInv, MeterTypeOK
<1>4. /\ meterReq' = [u \in Person |-> meterReq'[u]]
      /\ \A u \in Person : IsMeterRequest(meterReq'[u]) /\ RequestInv(u)'
  BY <1>3, LeavesIdle
<1>5. /\ table'[n].state = "current" /\ table'[n].day = meterReq[s].day
      /\ \A r \in MeterReading \ {n} : table'[r] = table[r]
  BY <1>1, <1>2
<1>6. table' \in [MeterReading -> MeterRow]
  BY <1>1, <1>2, <1>3 DEF IsMeterRequest, MeterRow, RowState
<1>7. InUse' = InUse \cup {n} /\ n \notin InUse
  BY <1>2, <1>5 DEF InUse
<1>8. DatesInv'
  BY <1>3, <1>5, <1>7 DEF DatesInv, RequestInv, InUse, PlacesInv
<1>9. QED
  BY <1>4, <1>6, <1>8 DEF PlacesInv, MeterTypeOK

\* The months that a change to a committed reading moves.
LEMMA CommittedMonths ==
  ASSUME PlacesInv, NEW s \in Person, meterReq[s].pc = "idle", NEW r \in InUse
  PROVE  /\ MonthsOf(s, r) = {table[r].day} \cup {table[q].day : q \in NextOf(r)}
         /\ MonthsOf(s, r) \subseteq MeterDay
<1>1. DOMAIN Pending(s) = {}
  BY DEF PlacesInv, RequestInv, AtWorkOn
<1>2. MonthsOf(s, r) = {table[r].day} \cup {table[q].day : q \in NextOf(r)}
  BY <1>1, SeesCommitted DEF MonthsOf
<1>3. NextOf(r) \subseteq InUse
  BY DEF NextOf
<1>4. QED
  BY <1>2, <1>3 DEF PlacesInv, DatesInv

\* A reading is voided.
LEMMA VoidReadingPlaces ==
  ASSUME PlacesInv, OneRequest, OneRequest', NEW s \in Person, NEW r \in MeterReading,
         VoidReading(s, r)
  PROVE  PlacesInv'
<1> DEFINE C == [q \in {r} |-> [table[r] EXCEPT !.state = "voided"]]
           X == [MeterIdle EXCEPT !.pc = "follow", !.old = r, !.around = {r},
                   !.months = MonthsOf(s, r), !.pending = C]
<1>1. r \in InUse /\ meterReq[s].pc = "idle" /\ table[r] \in MeterRow
  BY DEF VoidReading, MeterChangeable, InUse, PlacesInv, MeterTypeOK
<1>2. meterReq' = [meterReq EXCEPT ![s] = X] /\ table' = table
  BY DEF VoidReading
<1>3. DOMAIN C = {r} /\ C[r] = [table[r] EXCEPT !.state = "voided"]
  OBVIOUS
<1>4. C[r] \in MeterRow /\ C[r].state = "voided" /\ C[r].day = table[r].day
  BY <1>1, <1>3 DEF MeterRow, RowState
<1>5. C \in [DOMAIN C -> MeterRow]
  BY <1>3, <1>4
<1> HIDE DEF C
<1>6. /\ X.pc = "follow" /\ X.old = r /\ X.new = NoReading /\ X.around = {r}
      /\ X.months = MonthsOf(s, r) /\ X.pending = C
  BY DEF MeterIdle
<1>7. IsMeterRequest(X)
  <2>1. X \in [pc : MeterPC, old : MeterReading \cup {NoReading},
              new : MeterReading \cup {NoReading}, around : SUBSET MeterReading,
              day : MeterDay \cup {0}, from : MeterReading \cup {NoReading},
              follow : MeterReading \cup {NoReading}, months : SUBSET MeterDay,
              pending : {C}]
    BY <1>1, CommittedMonths DEF MeterIdle, MeterPC
  <2>2. QED
    BY <2>1, <1>3, <1>5, <1>6 DEF IsMeterRequest
<1> HIDE DEF X
<1>8. meterReq'[s] = X
  BY <1>2, <1>6, <1>7, OthersRest
<1>9. /\ meterReq'[s].pc = "follow" /\ meterReq'[s].old = r /\ meterReq'[s].new = NoReading
      /\ meterReq'[s].around = {r} /\ meterReq'[s].months = MonthsOf(s, r)
      /\ Pending(s)' = C
  BY <1>6, <1>8 DEF Pending
<1>10. InUse' = InUse /\ NextOf(r)' = NextOf(r)
  BY <1>2 DEF InUse, NextOf
<1>11. Places(s)' = {r}
  BY <1>9, MeterNumbers DEF Places
<1>12. StruckInv(s)'
  BY <1>1, <1>2, <1>3, <1>4, <1>9, <1>10 DEF StruckInv
<1>13. WrittenInv(s)' /\ FollowedInv(s)'
  BY <1>3, <1>9, <1>11 DEF WrittenInv, FollowedInv
<1>14. WayInv(s)'
  <2>1. MonthsOf(s, r) = {table[r].day} \cup {table[q].day : q \in NextOf(r)}
    BY <1>1, CommittedMonths
  <2>2. QED
    BY <2>1, <1>2, <1>9, <1>10, <1>11 DEF WayInv
<1>15. RequestInv(s)'
  BY <1>9, <1>12, <1>13, <1>14 DEF RequestInv, AtWorkOn
<1>16. QED
  BY <1>2, <1>6, <1>7, <1>15, TableStays

\* A reading is corrected.
LEMMA CorrectReadingPlaces ==
  ASSUME PlacesInv, OneRequest, OneRequest', NEW s \in Person, NEW r \in MeterReading,
         NEW d \in MeterDay, CorrectReading(s, r, d)
  PROVE  PlacesInv'
<1> DEFINE C(n) == [q \in {r, n} |-> IF q = r THEN [table[r] EXCEPT !.state = "replaced"]
                                     ELSE [table[r] EXCEPT !.day = d, !.replaces = r]]
           X(n) == [MeterIdle EXCEPT !.pc = "figure", !.old = r, !.new = n, !.around = {r, n},
                      !.months = MonthsOf(s, r), !.pending = C(n)]
<1>1. r \in InUse /\ meterReq[s].pc = "idle" /\ table[r] \in MeterRow /\ table[r].state = "current"
  BY DEF CorrectReading, MeterChangeable, InUse, PlacesInv, MeterTypeOK
<1>2. PICK n \in NewMeterReading : meterReq' = [meterReq EXCEPT ![s] = X(n)]
  BY DEF CorrectReading
<1>3. n \in MeterReading /\ table[n].state = "unused" /\ n # r /\ n # NoReading /\ r # NoReading
  BY <1>1, MeterNumbers DEF NewMeterReading
<1>4. table' = table /\ (d # table[r].day => DayFree(s, d))
  BY DEF CorrectReading
<1>5. DOMAIN C(n) = {r, n} /\ C(n)[r] = [table[r] EXCEPT !.state = "replaced"]
      /\ C(n)[n] = [table[r] EXCEPT !.day = d, !.replaces = r]
  BY <1>3
<1>6. /\ C(n)[r] \in MeterRow /\ C(n)[r].state = "replaced" /\ C(n)[r].day = table[r].day
      /\ C(n)[n] \in MeterRow /\ C(n)[n].state = "current" /\ C(n)[n].day = d
  BY <1>1, <1>5 DEF MeterRow, RowState
<1>7. C(n) \in [DOMAIN C(n) -> MeterRow]
  BY <1>5, <1>6
<1> HIDE DEF C
<1>8. /\ X(n).pc = "figure" /\ X(n).old = r /\ X(n).new = n /\ X(n).around = {r, n}
      /\ X(n).months = MonthsOf(s, r) /\ X(n).pending = C(n)
  BY DEF MeterIdle
<1>9. IsMeterRequest(X(n))
  <2>1. X(n) \in [pc : MeterPC, old : MeterReading \cup {NoReading},
              new : MeterReading \cup {NoReading}, around : SUBSET MeterReading,
              day : MeterDay \cup {0}, from : MeterReading \cup {NoReading},
              follow : MeterReading \cup {NoReading}, months : SUBSET MeterDay,
              pending : {C(n)}]
    BY <1>1, <1>3, CommittedMonths DEF MeterIdle, MeterPC
  <2>2. QED
    BY <2>1, <1>3, <1>5, <1>7, <1>8 DEF IsMeterRequest
<1> HIDE DEF X
<1>10. meterReq'[s] = X(n)
  BY <1>2, <1>8, <1>9, OthersRest
<1>11. /\ meterReq'[s].pc = "figure" /\ meterReq'[s].old = r /\ meterReq'[s].new = n
       /\ meterReq'[s].around = {r, n} /\ meterReq'[s].months = MonthsOf(s, r)
       /\ Pending(s)' = C(n)
  BY <1>8, <1>10 DEF Pending
<1>12. InUse' = InUse /\ NextOf(r)' = NextOf(r)
  BY <1>4 DEF InUse, NextOf
<1>13. Places(s)' = {r, n}
  BY <1>3, <1>11 DEF Places
<1>14. StruckInv(s)'
  BY <1>1, <1>4, <1>5, <1>6, <1>11, <1>12 DEF StruckInv
<1>15. WrittenInv(s)'
  <2>1. \A q \in InUse \ {r} : table[q].day # d
    <3>1. CASE d = table[r].day
      BY <1>1, <3>1 DEF PlacesInv, DatesInv
    <3>2. CASE d # table[r].day
      <4>1. DOMAIN Pending(s) = {}
        BY <1>1 DEF PlacesInv, RequestInv, AtWorkOn
      <4>2. QED
        BY <4>1, <3>2, <1>4, SeesCommitted DEF DayFree
    <3>3. QED
      BY <3>1, <3>2
  <2>2. n \in DOMAIN Pending(s)' /\ Pending(s)'[n].state = "current" /\ Pending(s)'[n].day = d
    BY <1>5, <1>6, <1>11
  <2>3. \A q \in InUse' \ {r} : table'[q].day # d
    BY <2>1, <1>4, <1>12
  <2>4. QED
    BY <2>2, <2>3, <1>3, <1>4, <1>11 DEF WrittenInv
<1>16. FollowedInv(s)'
  BY <1>5, <1>11, <1>13 DEF FollowedInv
<1>17. WayInv(s)'
  <2>1. MonthsOf(s, r) = {table[r].day} \cup {table[q].day : q \in NextOf(r)}
    BY <1>1, CommittedMonths
  <2>2. QED
    BY <2>1, <1>3, <1>4, <1>11, <1>12, <1>13 DEF WayInv
<1>18. RequestInv(s)'
  BY <1>11, <1>14, <1>15, <1>16, <1>17 DEF RequestInv, AtWorkOn
<1>19. QED
  BY <1>2, <1>4, <1>8, <1>9, <1>18, TableStays

\* A reading is figured anew: no reading moves, and only this one's figures change.
LEMMA PutDoes ==
  ASSUME MeterTypeOK, NEW s \in Person, NEW x \in MeterReading,
         NEW e \in MeterReading \cup {NoReading},
         Pending(s)' = Put(s, x, [Seen(s, x) EXCEPT !.from = e]), table' = table
  PROVE  /\ DOMAIN Pending(s)' = DOMAIN Pending(s) \cup {x}
         /\ Pending(s)' \in [DOMAIN Pending(s)' -> MeterRow]
         /\ \A r \in DOMAIN Pending(s)' : Pending(s)'[r] = Seen(s, r)'
         /\ \A r \in MeterReading :
              /\ Seen(s, r)'.state = Seen(s, r).state /\ Seen(s, r)'.day = Seen(s, r).day
              /\ r # x => Seen(s, r)' = Seen(s, r)
         /\ Seen(s, x)'.from = e
<1> DEFINE row == [Seen(s, x) EXCEPT !.from = e]
<1>1. row \in MeterRow /\ row.from = e /\ row.state = Seen(s, x).state /\ row.day = Seen(s, x).day
  BY SeenIsRow DEF MeterRow
<1> HIDE DEF row
<1>2. Pending(s)' = [q \in DOMAIN Pending(s) \cup {x} |-> IF q = x THEN row ELSE Pending(s)[q]]
  BY DEF Put, row
<1>3. DOMAIN Pending(s) \subseteq MeterReading /\ Pending(s) \in [DOMAIN Pending(s) -> MeterRow]
  BY DEF MeterTypeOK, IsMeterRequest, Pending
<1>4. DOMAIN Pending(s)' = DOMAIN Pending(s) \cup {x}
  BY <1>2
<1>5. Pending(s)' \in [DOMAIN Pending(s)' -> MeterRow]
  BY <1>1, <1>2, <1>3
<1>6. \A r \in DOMAIN Pending(s)' : Pending(s)'[r] = Seen(s, r)'
  BY DEF Seen
<1>7. Seen(s, x)' = row
  BY <1>2, <1>4, <1>6
<1>8. \A r \in MeterReading : r # x => Seen(s, r)' = Seen(s, r)
  BY <1>2, <1>4 DEF Seen
<1>9. QED
  BY <1>1, <1>4, <1>5, <1>6, <1>7, <1>8

\* What a request has struck, written and followed stays so.
LEMMA PutKeepsPlaces ==
  ASSUME PlacesInv, NEW s \in Person, AtWorkOn(s), NEW x \in Current(s),
         NEW e \in MeterReading \cup {NoReading},
         Pending(s)' = Put(s, x, [Seen(s, x) EXCEPT !.from = e]), table' = table,
         meterReq'[s].old = meterReq[s].old, meterReq'[s].new = meterReq[s].new,
         x \in Places(s) \/ \E p \in Places(s) : x \in FirstAfter(s, Seen(s, p).day)
  PROVE  /\ Places(s)' = Places(s) /\ StruckInv(s)' /\ WrittenInv(s)'
         /\ \A q \in DOMAIN Pending(s)' \ Places(s)' :
              /\ q \in InUse' /\ Pending(s)'[q].state = "current"
              /\ Pending(s)'[q].day = table'[q].day
              /\ \E p \in Places(s)' : q \in FirstAfter(s, Seen(s, p).day)'
<1> DEFINE o == meterReq[s].old
           n == meterReq[s].new
<1>1. MeterTypeOK /\ RequestInv(s) /\ x \in MeterReading /\ Seen(s, x).state = "current"
  BY DEF PlacesInv, Current
<1>2. StruckInv(s) /\ WrittenInv(s) /\ FollowedInv(s)
  BY <1>1 DEF RequestInv
<1>3. /\ DOMAIN Pending(s)' = DOMAIN Pending(s) \cup {x}
      /\ \A r \in DOMAIN Pending(s)' : Pending(s)'[r] = Seen(s, r)'
      /\ \A r \in MeterReading :
           Seen(s, r)'.state = Seen(s, r).state /\ Seen(s, r)'.day = Seen(s, r).day
  BY <1>1, PutDoes
<1>4. \A r \in DOMAIN Pending(s) : Pending(s)[r] = Seen(s, r)
  BY DEF Seen
<1>5. DOMAIN Pending(s) \subseteq MeterReading
  BY <1>1 DEF MeterTypeOK, IsMeterRequest, Pending
<1>6. \A r \in DOMAIN Pending(s) : /\ Pending(s)'[r].state = Pending(s)[r].state
                                   /\ Pending(s)'[r].day = Pending(s)[r].day
  BY <1>3, <1>4, <1>5
<1>7. InUse' = InUse /\ Places(s)' = Places(s)
  BY DEF InUse, Places
<1>8. StruckInv(s)'
  BY <1>2, <1>3, <1>6, <1>7 DEF StruckInv
<1>9. WrittenInv(s)'
  BY <1>2, <1>3, <1>6, <1>7 DEF WrittenInv
<1>10. Places(s) \subseteq MeterReading
  BY <1>2 DEF Places, StruckInv, WrittenInv, InUse
<1>11. \A p \in Places(s) : FirstAfter(s, Seen(s, p).day)' = FirstAfter(s, Seen(s, p).day)
  <2> SUFFICES ASSUME NEW p \in Places(s)
               PROVE  FirstAfter(s, Seen(s, p).day)' = FirstAfter(s, Seen(s, p).day)
    OBVIOUS
  <2>1. Seen(s, p)'.day = Seen(s, p).day
    BY <1>3, <1>10
  <2>2. \A d : FirstAfter(s, d)' = FirstAfter(s, d)
    BY <1>3, StayInPlace
  <2>3. Current(s)' = Current(s) /\ \A r \in Current(s) : Seen(s, r)'.day = Seen(s, r).day
    BY <1>3, StayInPlace DEF Current
  <2>4. QED
    BY <2>1, <2>3 DEF FirstAfter
<1>12. ASSUME NEW q \in DOMAIN Pending(s)', q \notin Places(s)
       PROVE  /\ q \in InUse /\ Pending(s)'[q].state = "current"
              /\ Pending(s)'[q].day = table[q].day
              /\ \E p \in Places(s) : q \in FirstAfter(s, Seen(s, p).day)
  <2>1. CASE q \in DOMAIN Pending(s)
    BY <2>1, <1>2, <1>6, <1>12 DEF FollowedInv
  <2>2. CASE q = x
    <3>1. x # n
      BY <2>2, <1>12, <1>1, MeterNumbers DEF Places
    <3>2. x \in InUse /\ Seen(s, x).day = table[x].day
      BY <3>1, <1>1, CurrentIs
    <3>3. QED
      BY <3>2, <2>2, <1>1, <1>3, <1>12
  <2>3. QED
    BY <2>1, <2>2, <1>3
<1>13. QED
  BY <1>7, <1>8, <1>9, <1>11, <1>12

\* The new reading is figured.
LEMMA FigureNewPlaces ==
  ASSUME PlacesInv, OneRequest, OneRequest', NEW s \in Person, FigureNew(s)
  PROVE  PlacesInv'
<1> DEFINE n == meterReq[s].new
<1>1. PICK e \in OrNone(LastBefore(s, Seen(s, n).day)) :
        meterReq' = [meterReq EXCEPT ![s] = [meterReq[s] EXCEPT
                       !.pc = "follow", !.pending = Put(s, n, [Seen(s, n) EXCEPT !.from = e])]]
  BY DEF FigureNew
<1> DEFINE X == [meterReq[s] EXCEPT !.pc = "follow",
                                    !.pending = Put(s, n, [Seen(s, n) EXCEPT !.from = e])]
<1>2. meterReq[s].pc = "figure" /\ table' = table /\ MeterTypeOK /\ RequestInv(s)
      /\ IsMeterRequest(meterReq[s])
  BY DEF FigureNew, PlacesInv, MeterTypeOK
<1>3. AtWorkOn(s) /\ StruckInv(s) /\ WrittenInv(s) /\ WayInv(s) /\ n # NoReading
  BY <1>2 DEF AtWorkOn, RequestInv, WayInv
<1>4. n \in Current(s) /\ n \in Places(s) /\ n \in MeterReading
  BY <1>3 DEF Current, WrittenInv, Seen, Places
<1>5. e \in MeterReading \cup {NoReading}
  BY DEF OrNone, LastBefore, Current
<1>6. /\ X.pc = "follow" /\ X.old = meterReq[s].old /\ X.new = n
      /\ X.around = meterReq[s].around /\ X.months = meterReq[s].months
      /\ X.pending = Put(s, n, [Seen(s, n) EXCEPT !.from = e])
  BY <1>2 DEF IsMeterRequest
<1>7. meterReq'[s] = X
  BY <1>1 DEF PlacesInv, MeterTypeOK
<1>8. Pending(s)' = Put(s, n, [Seen(s, n) EXCEPT !.from = e])
  BY <1>6, <1>7 DEF Pending
<1>9. /\ DOMAIN Pending(s)' = DOMAIN Pending(s) \cup {n}
      /\ Pending(s)' \in [DOMAIN Pending(s)' -> MeterRow]
  BY <1>2, <1>4, <1>5, <1>8, PutDoes
<1>10. IsMeterRequest(X)
  <2>1. X \in [pc : MeterPC, old : MeterReading \cup {NoReading},
              new : MeterReading \cup {NoReading}, around : SUBSET MeterReading,
              day : MeterDay \cup {0}, from : MeterReading \cup {NoReading},
              follow : MeterReading \cup {NoReading}, months : SUBSET MeterDay,
              pending : {X.pending}]
    BY <1>2 DEF IsMeterRequest, MeterPC
  <2>2. DOMAIN X.pending \subseteq MeterReading /\ X.pending \in [DOMAIN X.pending -> MeterRow]
    BY <1>2, <1>4, <1>6, <1>8, <1>9 DEF IsMeterRequest, Pending
  <2> HIDE DEF X
  <2>3. QED
    BY <2>1, <2>2 DEF IsMeterRequest
<1>11. meterReq' = [meterReq EXCEPT ![s] = X]
  BY <1>1
<1> HIDE DEF X
<1>12. /\ Places(s)' = Places(s) /\ StruckInv(s)' /\ WrittenInv(s)'
       /\ \A q \in DOMAIN Pending(s)' \ Places(s)' :
            /\ q \in InUse' /\ Pending(s)'[q].state = "current"
            /\ Pending(s)'[q].day = table'[q].day
            /\ \E p \in Places(s)' : q \in FirstAfter(s, Seen(s, p).day)'
  BY <1>2, <1>3, <1>4, <1>5, <1>6, <1>7, <1>8, PutKeepsPlaces
<1>13. FollowedInv(s)'
  BY <1>6, <1>7, <1>12 DEF FollowedInv
<1>14. WayInv(s)'
  BY <1>2, <1>3, <1>6, <1>7, <1>12 DEF WayInv, NextOf, InUse
<1>15. RequestInv(s)'
  BY <1>6, <1>7, <1>12, <1>13, <1>14 DEF RequestInv, AtWorkOn
<1>16. QED
  BY <1>2, <1>6, <1>10, <1>11, <1>15, TableStays

\* A request that changes no row keeps what it has struck, written and followed.
LEMMA SameChanges ==
  ASSUME NEW s, Pending(s)' = Pending(s), table' = table,
         meterReq'[s].old = meterReq[s].old, meterReq'[s].new = meterReq[s].new
  PROVE  /\ \A r : Seen(s, r)' = Seen(s, r)
         /\ Current(s)' = Current(s) /\ Places(s)' = Places(s) /\ InUse' = InUse
         /\ \A r : FirstAfter(s, Seen(s, r).day)' = FirstAfter(s, Seen(s, r).day)
         /\ \A r : LastBefore(s, Seen(s, r).day)' = LastBefore(s, Seen(s, r).day)
         /\ \A r : NextOf(r)' = NextOf(r)
         /\ \A r : MonthsOf(s, r)' = MonthsOf(s, r)
         /\ StruckInv(s) => StruckInv(s)'
         /\ WrittenInv(s) => WrittenInv(s)'
         /\ \A q \in DOMAIN Pending(s) \ Places(s) :
              (q \in InUse /\ Pending(s)[q].state = "current" /\ Pending(s)[q].day = table[q].day)
              <=> (q \in InUse /\ Pending(s)[q].state = "current"
                   /\ Pending(s)[q].day = table[q].day)'
<1>1. \A r : Seen(s, r)' = Seen(s, r)
  BY DEF Seen
<1>2. Current(s)' = Current(s) /\ Places(s)' = Places(s) /\ InUse' = InUse
  BY <1>1 DEF Current, Places, InUse
<1>3. \A r : FirstAfter(s, Seen(s, r).day)' = FirstAfter(s, Seen(s, r).day)
  BY <1>1, <1>2 DEF FirstAfter
<1>4. \A r : LastBefore(s, Seen(s, r).day)' = LastBefore(s, Seen(s, r).day)
  BY <1>1, <1>2 DEF LastBefore
<1>5. \A r : NextOf(r)' = NextOf(r)
  BY <1>2 DEF NextOf
<1>6. \A r : MonthsOf(s, r)' = MonthsOf(s, r)
  BY <1>1, <1>3 DEF MonthsOf
<1>7. StruckInv(s) => StruckInv(s)'
  BY <1>2 DEF StruckInv
<1>8. WrittenInv(s) => WrittenInv(s)'
  BY <1>2 DEF WrittenInv
<1>9. QED
  BY <1>1, <1>2, <1>3, <1>4, <1>5, <1>6, <1>7, <1>8

\* The reading that follows one of the two places is looked up.
LEMMA FollowPlaces ==
  ASSUME PlacesInv, OneRequest, OneRequest', NEW s \in Person, Follow(s)
  PROVE  PlacesInv'
<1>1. PICK f \in OrNone(FirstAfter(s, Seen(s, Place(s)).day)) :
        meterReq' = [meterReq EXCEPT ![s] = [meterReq[s] EXCEPT
                       !.around = meterReq[s].around \ {Place(s)}, !.follow = f,
                       !.pc = IF f = NoReading THEN "follow" ELSE "earlier"]]
  BY DEF Follow
<1> DEFINE X == [meterReq[s] EXCEPT
                   !.around = meterReq[s].around \ {Place(s)}, !.follow = f,
                   !.pc = IF f = NoReading THEN "follow" ELSE "earlier"]
<1>2. /\ meterReq[s].pc = "follow" /\ meterReq[s].around # {} /\ table' = table
      /\ RequestInv(s) /\ IsMeterRequest(meterReq[s])
  BY DEF Follow, PlacesInv, MeterTypeOK
<1>3. StruckInv(s) /\ WrittenInv(s) /\ FollowedInv(s) /\ WayInv(s)
  BY <1>2 DEF RequestInv, AtWorkOn
<1>4. Place(s) \in Places(s)
  BY <1>2, <1>3 DEF Place, WayInv, Places
<1>5. f \in MeterReading \cup {NoReading}
      /\ (f # NoReading => f \in FirstAfter(s, Seen(s, Place(s)).day))
  BY DEF OrNone, FirstAfter, Current
<1>6. /\ X.pc = (IF f = NoReading THEN "follow" ELSE "earlier") /\ X.follow = f
      /\ X.old = meterReq[s].old /\ X.new = meterReq[s].new
      /\ X.around = meterReq[s].around \ {Place(s)} /\ X.months = meterReq[s].months
      /\ X.pending = meterReq[s].pending
  BY <1>2 DEF IsMeterRequest
<1>7. meterReq'[s] = X /\ meterReq' = [meterReq EXCEPT ![s] = X]
  BY <1>1 DEF PlacesInv, MeterTypeOK
<1>8. IsMeterRequest(X)
  BY <1>2, <1>5 DEF IsMeterRequest, MeterPC
<1> HIDE DEF X
<1>9. Pending(s)' = Pending(s)
  BY <1>6, <1>7 DEF Pending
<1>10. /\ \A r : FirstAfter(s, Seen(s, r).day)' = FirstAfter(s, Seen(s, r).day)
       /\ \A r : NextOf(r)' = NextOf(r)
       /\ Places(s)' = Places(s) /\ InUse' = InUse /\ StruckInv(s)' /\ WrittenInv(s)'
  BY <1>2, <1>3, <1>6, <1>7, <1>9, SameChanges
<1>11. FollowedInv(s)'
  <2>1. ASSUME NEW q \in DOMAIN Pending(s)' \ Places(s)'
        PROVE  /\ q \in InUse' /\ Pending(s)'[q].state = "current"
               /\ Pending(s)'[q].day = table'[q].day
               /\ \E p \in Places(s)' : q \in FirstAfter(s, Seen(s, p).day)'
    BY <1>2, <1>3, <1>9, <1>10 DEF FollowedInv
  <2>2. meterReq'[s].pc \in {"earlier", "update"} =>
          \E p \in Places(s)' : meterReq'[s].follow \in FirstAfter(s, Seen(s, p).day)'
    BY <1>4, <1>5, <1>6, <1>7, <1>10
  <2>3. QED
    BY <2>1, <2>2 DEF FollowedInv
<1>12. WayInv(s)'
  BY <1>2, <1>3, <1>6, <1>7, <1>10 DEF WayInv
<1>13. RequestInv(s)'
  BY <1>6, <1>7, <1>10, <1>11, <1>12 DEF RequestInv, AtWorkOn
<1>14. QED
  BY <1>2, <1>7, <1>8, <1>13, TableStays

\* The reading before that one is looked up.
LEMMA LookEarlierPlaces ==
  ASSUME PlacesInv, OneRequest, OneRequest', NEW s \in Person, LookEarlier(s)
  PROVE  PlacesInv'
<1>1. PICK e \in OrNone(LastBefore(s, Seen(s, meterReq[s].follow).day)) :
        meterReq' = [meterReq EXCEPT ![s].from = e, ![s].pc = "update"]
  BY DEF LookEarlier
<1> DEFINE X == [meterReq[s] EXCEPT !.from = e, !.pc = "update"]
<1>2. /\ meterReq[s].pc = "earlier" /\ table' = table
      /\ RequestInv(s) /\ IsMeterRequest(meterReq[s])
  BY DEF LookEarlier, PlacesInv, MeterTypeOK
<1>3. StruckInv(s) /\ WrittenInv(s) /\ FollowedInv(s) /\ WayInv(s)
  BY <1>2 DEF RequestInv, AtWorkOn
<1>4. e \in MeterReading \cup {NoReading}
  BY DEF OrNone, LastBefore, Current
<1>5. /\ X.pc = "update" /\ X.follow = meterReq[s].follow
      /\ X.old = meterReq[s].old /\ X.new = meterReq[s].new
      /\ X.around = meterReq[s].around /\ X.months = meterReq[s].months
      /\ X.pending = meterReq[s].pending
  BY <1>2 DEF IsMeterRequest
<1>6. meterReq'[s] = X /\ meterReq' = [meterReq EXCEPT ![s] = X]
  BY <1>1 DEF PlacesInv, MeterTypeOK
<1>7. IsMeterRequest(X)
  BY <1>2, <1>4 DEF IsMeterRequest, MeterPC
<1> HIDE DEF X
<1>8. Pending(s)' = Pending(s)
  BY <1>5, <1>6 DEF Pending
<1>9. /\ \A r : FirstAfter(s, Seen(s, r).day)' = FirstAfter(s, Seen(s, r).day)
      /\ \A r : NextOf(r)' = NextOf(r)
      /\ Places(s)' = Places(s) /\ InUse' = InUse /\ StruckInv(s)' /\ WrittenInv(s)'
  BY <1>2, <1>3, <1>5, <1>6, <1>8, SameChanges
<1>10. FollowedInv(s)'
  <2>1. ASSUME NEW q \in DOMAIN Pending(s)' \ Places(s)'
        PROVE  /\ q \in InUse' /\ Pending(s)'[q].state = "current"
               /\ Pending(s)'[q].day = table'[q].day
               /\ \E p \in Places(s)' : q \in FirstAfter(s, Seen(s, p).day)'
    BY <1>2, <1>3, <1>8, <1>9 DEF FollowedInv
  <2>2. \E p \in Places(s)' : meterReq'[s].follow \in FirstAfter(s, Seen(s, p).day)'
    BY <1>2, <1>3, <1>5, <1>6, <1>9 DEF FollowedInv
  <2>3. QED
    BY <2>1, <2>2 DEF FollowedInv
<1>11. WayInv(s)'
  BY <1>2, <1>3, <1>5, <1>6, <1>9 DEF WayInv
<1>12. RequestInv(s)'
  BY <1>5, <1>6, <1>9, <1>10, <1>11 DEF RequestInv, AtWorkOn
<1>13. QED
  BY <1>2, <1>6, <1>7, <1>12, TableStays

\* The reading that follows is figured anew.
LEMMA RefigurePlaces ==
  ASSUME PlacesInv, OneRequest, OneRequest', NEW s \in Person, Refigure(s)
  PROVE  PlacesInv'
<1> DEFINE f == meterReq[s].follow
           e == meterReq[s].from
           X == [meterReq[s] EXCEPT !.pc = "follow", !.follow = NoReading, !.from = NoReading,
                                    !.pending = Put(s, f, [Seen(s, f) EXCEPT !.from = e])]
<1>1. /\ meterReq[s].pc = "update" /\ table' = table /\ MeterTypeOK /\ RequestInv(s)
      /\ IsMeterRequest(meterReq[s]) /\ meterReq' = [meterReq EXCEPT ![s] = X]
  BY DEF Refigure, PlacesInv, MeterTypeOK
<1>2. AtWorkOn(s) /\ StruckInv(s) /\ WrittenInv(s) /\ FollowedInv(s) /\ WayInv(s)
  BY <1>1 DEF AtWorkOn, RequestInv
<1>3. PICK p \in Places(s) : f \in FirstAfter(s, Seen(s, p).day)
  BY <1>1, <1>2 DEF FollowedInv
<1>4. f \in Current(s) /\ f \in MeterReading
  BY <1>3 DEF FirstAfter, Current
<1>5. e \in MeterReading \cup {NoReading}
  BY <1>1 DEF IsMeterRequest
<1>6. /\ X.pc = "follow" /\ X.old = meterReq[s].old /\ X.new = meterReq[s].new
      /\ X.around = meterReq[s].around /\ X.months = meterReq[s].months
      /\ X.pending = Put(s, f, [Seen(s, f) EXCEPT !.from = e])
  BY <1>1 DEF IsMeterRequest
<1>7. meterReq'[s] = X
  BY <1>1 DEF PlacesInv, MeterTypeOK
<1>8. Pending(s)' = Put(s, f, [Seen(s, f) EXCEPT !.from = e])
  BY <1>6, <1>7 DEF Pending
<1>9. /\ DOMAIN Pending(s)' = DOMAIN Pending(s) \cup {f}
      /\ Pending(s)' \in [DOMAIN Pending(s)' -> MeterRow]
  BY <1>1, <1>4, <1>5, <1>8, PutDoes
<1>10. IsMeterRequest(X)
  <2>1. X \in [pc : MeterPC, old : MeterReading \cup {NoReading},
              new : MeterReading \cup {NoReading}, around : SUBSET MeterReading,
              day : MeterDay \cup {0}, from : MeterReading \cup {NoReading},
              follow : MeterReading \cup {NoReading}, months : SUBSET MeterDay,
              pending : {X.pending}]
    BY <1>1 DEF IsMeterRequest, MeterPC
  <2>2. DOMAIN X.pending \subseteq MeterReading /\ X.pending \in [DOMAIN X.pending -> MeterRow]
    BY <1>1, <1>4, <1>6, <1>8, <1>9 DEF IsMeterRequest, Pending
  <2> HIDE DEF X
  <2>3. QED
    BY <2>1, <2>2 DEF IsMeterRequest
<1> HIDE DEF X
<1>11. /\ Places(s)' = Places(s) /\ StruckInv(s)' /\ WrittenInv(s)'
       /\ \A q \in DOMAIN Pending(s)' \ Places(s)' :
            /\ q \in InUse' /\ Pending(s)'[q].state = "current"
            /\ Pending(s)'[q].day = table'[q].day
            /\ \E r \in Places(s)' : q \in FirstAfter(s, Seen(s, r).day)'
  BY <1>1, <1>2, <1>3, <1>4, <1>5, <1>6, <1>7, <1>8, PutKeepsPlaces
<1>12. FollowedInv(s)'
  BY <1>6, <1>7, <1>11 DEF FollowedInv
<1>13. WayInv(s)'
  BY <1>1, <1>2, <1>6, <1>7, <1>11 DEF WayInv, NextOf, InUse
<1>14. RequestInv(s)'
  BY <1>6, <1>7, <1>11, <1>12, <1>13 DEF RequestInv, AtWorkOn
<1>15. QED
  BY <1>1, <1>10, <1>14, TableStays

\* The months of the new reading are added.
LEMMA LooksAtMonthsPlaces ==
  ASSUME PlacesInv, OneRequest, OneRequest', NEW s \in Person, LooksAtMonths(s)
  PROVE  PlacesInv'
<1> DEFINE more == IF meterReq[s].new = NoReading THEN {} ELSE MonthsOf(s, meterReq[s].new)
           X == [meterReq[s] EXCEPT !.pc = "commit", !.months = meterReq[s].months \cup more]
<1>1. /\ meterReq[s].pc = "follow" /\ meterReq[s].around = {} /\ table' = table
      /\ RequestInv(s) /\ IsMeterRequest(meterReq[s]) /\ meterReq' = [meterReq EXCEPT ![s] = X]
  BY DEF LooksAtMonths, PlacesInv, MeterTypeOK
<1>2. StruckInv(s) /\ WrittenInv(s) /\ FollowedInv(s) /\ WayInv(s)
  BY <1>1 DEF RequestInv, AtWorkOn
<1>3. more \subseteq MeterDay
  <2>1. CASE meterReq[s].new = NoReading
    BY <2>1
  <2>2. CASE meterReq[s].new # NoReading
    <3>1. meterReq[s].new \in Current(s)
      BY <2>2, <1>2 DEF WrittenInv, Current, Seen
    <3>2. \A q \in Current(s) : Seen(s, q).day \in MeterDay
      BY <1>1, SeenApart DEF PlacesInv
    <3>3. QED
      BY <3>1, <3>2, <2>2 DEF MonthsOf, FirstAfter
  <2>3. QED
    BY <2>1, <2>2
<1> HIDE DEF more
<1>4. /\ X.pc = "commit" /\ X.around = {}
      /\ X.old = meterReq[s].old /\ X.new = meterReq[s].new
      /\ X.months = meterReq[s].months \cup more /\ X.pending = meterReq[s].pending
  BY <1>1 DEF IsMeterRequest
<1>5. meterReq'[s] = X
  BY <1>1 DEF PlacesInv, MeterTypeOK
<1>6. IsMeterRequest(X)
  BY <1>1, <1>3 DEF IsMeterRequest, MeterPC
<1> HIDE DEF X
<1>7. Pending(s)' = Pending(s)
  BY <1>4, <1>5 DEF Pending
<1>8. /\ \A r : FirstAfter(s, Seen(s, r).day)' = FirstAfter(s, Seen(s, r).day)
      /\ \A r : NextOf(r)' = NextOf(r) /\ MonthsOf(s, r)' = MonthsOf(s, r)
      /\ Places(s)' = Places(s) /\ InUse' = InUse /\ StruckInv(s)' /\ WrittenInv(s)'
  BY <1>1, <1>2, <1>4, <1>5, <1>7, SameChanges
<1>9. FollowedInv(s)'
  <2>1. ASSUME NEW q \in DOMAIN Pending(s)' \ Places(s)'
        PROVE  /\ q \in InUse' /\ Pending(s)'[q].state = "current"
               /\ Pending(s)'[q].day = table'[q].day
               /\ \E p \in Places(s)' : q \in FirstAfter(s, Seen(s, p).day)'
    BY <1>1, <1>2, <1>7, <1>8 DEF FollowedInv
  <2>2. QED
    BY <2>1, <1>4, <1>5 DEF FollowedInv
<1>10. WayInv(s)'
  <2>1. (meterReq[s].new # NoReading => MonthsOf(s, meterReq[s].new) \subseteq meterReq[s].months)'
    BY <1>4, <1>5, <1>8 DEF more
  <2>2. ({table[meterReq[s].old].day} \cup {table[q].day : q \in NextOf(meterReq[s].old)}
           \subseteq meterReq[s].months)'
    BY <1>1, <1>2, <1>4, <1>5, <1>8 DEF WayInv
  <2>3. meterReq'[s].pc = "commit" /\ meterReq'[s].around = {}
    BY <1>4, <1>5
  <2>4. QED
    BY <2>1, <2>2, <2>3 DEF WayInv
<1>11. RequestInv(s)'
  BY <1>4, <1>5, <1>8, <1>9, <1>10 DEF RequestInv, AtWorkOn
<1>12. QED
  BY <1>1, <1>4, <1>6, <1>11, TableStays

\* All of it is committed at once.
LEMMA CommitReadingPlaces ==
  ASSUME PlacesInv, OneRequest, OneRequest', NEW s \in Person, CommitReading(s)
  PROVE  PlacesInv'
<1>1. /\ meterReq[s].pc = "commit" /\ table' = [r \in MeterReading |-> Seen(s, r)]
      /\ meterReq' = [meterReq EXCEPT ![s] = MeterIdle] /\ MeterTypeOK /\ RequestInv(s)
  BY DEF CommitReading, PlacesInv
<1>2. /\ meterReq' = [u \in Person |-> meterReq'[u]]
      /\ \A u \in Person : IsMeterRequest(meterReq'[u]) /\ RequestInv(u)'
  BY <1>1, LeavesIdle
<1>3. table' \in [MeterReading -> MeterRow]
  BY <1>1, SeenIsRow
<1>4. InUse' = Current(s) /\ \A r \in Current(s) : table'[r].day = Seen(s, r).day
  BY <1>1 DEF InUse, Current
<1>5. DatesInv'
  BY <1>1, <1>4, SeenApart DEF PlacesInv, DatesInv
<1>6. QED
  BY <1>2, <1>3, <1>5 DEF PlacesInv, MeterTypeOK

\* Or nothing.
LEMMA RollbackReadingPlaces ==
  ASSUME PlacesInv, OneRequest, OneRequest', NEW s \in Person, RollbackReading(s)
  PROVE  PlacesInv'
<1>1. meterReq[s].pc # "idle" /\ meterReq' = [meterReq EXCEPT ![s] = MeterIdle] /\ table' = table
  BY DEF RollbackReading
<1>2. RequestInv(s)'
  BY <1>1, LeavesIdle
<1>3. QED
  BY <1>1, <1>2, MeterIdleIsRequest, TableStays

\* Every step of one request at a time keeps PlacesInv.
LEMMA PlacesStep ==
  ASSUME PlacesInv, OneRequest, OneRequest', [MeterNext]_meterVars
  PROVE  PlacesInv'
<1>1. ASSUME NEW s \in Person, MeterStep(s) PROVE PlacesInv'
  BY <1>1, TypeReadingPlaces, SaveReadingPlaces, VoidReadingPlaces, CorrectReadingPlaces,
     FigureNewPlaces, FollowPlaces, LookEarlierPlaces, RefigurePlaces, LooksAtMonthsPlaces,
     CommitReadingPlaces, RollbackReadingPlaces DEF MeterStep
<1>2. CASE UNCHANGED meterVars
  <2>1. table' = table /\ meterReq' = meterReq
    BY <1>2 DEF meterVars
  <2>2. MeterTypeOK' /\ DatesInv' /\ \A s \in Person : Pending(s)' = Pending(s)
    BY <2>1 DEF PlacesInv, MeterTypeOK, DatesInv, InUse, Pending
  <2>3. ASSUME NEW s \in Person PROVE RequestInv(s)'
    <3>1. RequestInv(s)
      BY DEF PlacesInv
    <3>2. CASE ~AtWorkOn(s)
      BY <3>1, <3>2, <2>1, <2>2 DEF RequestInv, AtWorkOn, InUse
    <3>3. CASE AtWorkOn(s)
      <4>1. StruckInv(s)' /\ WrittenInv(s)'
        BY <3>1, <3>3, <2>1, <2>2, SameChanges DEF RequestInv
      <4>2. FollowedInv(s)'
        <5>1. FollowedInv(s)
          BY <3>1, <3>3 DEF RequestInv
        <5>2. /\ Places(s)' = Places(s) /\ InUse' = InUse /\ Pending(s)' = Pending(s)
              /\ \A r : FirstAfter(s, Seen(s, r).day)' = FirstAfter(s, Seen(s, r).day)
          BY <2>1, <2>2, SameChanges
        <5>3. QED
          BY <5>1, <5>2, <2>1 DEF FollowedInv
      <4>3. WayInv(s)'
        BY <3>1, <3>3, <2>1, <2>2 DEF RequestInv, WayInv, Places, NextOf, InUse, MonthsOf,
           FirstAfter, Current, Seen, Pending
      <4>4. QED
        BY <3>3, <4>1, <4>2, <4>3, <2>1 DEF RequestInv, AtWorkOn
    <3>4. QED
      BY <3>2, <3>3
  <2>4. QED
    BY <2>2, <2>3 DEF PlacesInv
<1>3. QED
  BY <1>1, <1>2 DEF MeterNext

\* It holds of a meter read in order.
LEMMA PlacesStart == ASSUME MeterInit PROVE PlacesInv
<1>1. PICK n \in 0 .. NMeterDays :
        /\ n <= NMeterReadings
        /\ table = [r \in MeterReading |->
             IF r <= n
             THEN [state |-> "current", day |-> r, from |-> r - 1, replaces |-> NoReading]
             ELSE UnusedReading]
  BY DEF MeterInit
<1>2. \A r \in MeterReading : r \in Nat /\ 1 <= r /\ r <= NMeterReadings
  BY MeterBoundsAssumption DEF MeterReading
<1>3. ASSUME NEW r \in MeterReading
      PROVE  /\ table[r] \in MeterRow
             /\ table[r].state = "current" => table[r].day = r /\ r \in MeterDay
  <2>1. CASE r <= n
    <3>1. r \in MeterDay /\ r - 1 \in MeterReading \cup {NoReading}
      BY <1>2, <2>1, MeterBoundsAssumption DEF MeterDay, MeterReading, NoReading
    <3>2. QED
      BY <1>1, <2>1, <3>1 DEF MeterRow, RowState
  <2>2. CASE ~(r <= n)
    BY <1>1, <2>2 DEF UnusedReading, MeterRow, RowState
  <2>3. QED
    BY <2>1, <2>2
<1>4. table \in [MeterReading -> MeterRow]
  BY <1>1, <1>3
<1>5. DatesInv
  BY <1>3 DEF DatesInv, InUse
<1>6. \A s \in Person : meterReq[s] = MeterIdle
  BY DEF MeterInit
<1>7. \A s \in Person : RequestInv(s)
  <2>1. MeterIdle.pc = "idle"
    BY DEF MeterIdle
  <2>2. QED
    BY <2>1, <1>6, MeterIdleIsRequest DEF RequestInv, AtWorkOn, Pending
<1>8. MeterTypeOK
  BY <1>4, <1>6, MeterIdleIsRequest DEF MeterTypeOK, MeterInit
<1>9. QED
  BY <1>5, <1>7, <1>8 DEF PlacesInv

\* While one request at a time is at work on a meter, its rows and requests keep their
\* types and every place of a request is sound.
LEMMA PlacesAlways == MeterSpec /\ []OneRequest => []PlacesInv
<1>1. MeterInit => PlacesInv
  BY PlacesStart
<1>2. PlacesInv /\ OneRequest /\ OneRequest' /\ [MeterNext]_meterVars => PlacesInv'
  BY PlacesStep
<1>3. QED
  BY <1>1, <1>2, PTL DEF MeterSpec

\* A reading in use that a request has not struck is in use for it too.
LEMMA InUseIsCurrent ==
  ASSUME MeterTypeOK, NEW s \in Person, RequestInv(s), AtWorkOn(s),
         NEW r \in InUse, r # meterReq[s].old
  PROVE  r \in Current(s) /\ r # meterReq[s].new /\ Seen(s, r).day = table[r].day
<1>1. WrittenInv(s) /\ FollowedInv(s) /\ r \in MeterReading /\ table[r].state = "current"
  BY DEF RequestInv, InUse
<1>2. r # meterReq[s].new
  BY <1>1, MeterNumbers DEF WrittenInv
<1>3. r \in Current(s)
  BY <1>1, <1>2 DEF FollowedInv, Places, Current, Seen
<1>4. QED
  BY <1>2, <1>3, CurrentIs

\* What a commit changes lies in the months it has noted.
LEMMA CommitCovers ==
  ASSUME PlacesInv, NEW s \in Person, CommitReading(s), NEW r \in MeterReading,
         table'[r] # table[r]
  PROVE  {q.day : q \in {x \in {table[r], table'[r]} : x.state = "current"}}
           \subseteq meterReq[s].months
<1> DEFINE o == meterReq[s].old
           n == meterReq[s].new
<1>1. MeterTypeOK /\ RequestInv(s) /\ AtWorkOn(s) /\ meterReq[s].pc = "commit"
  BY DEF CommitReading, PlacesInv, AtWorkOn
<1>2. StruckInv(s) /\ WrittenInv(s) /\ FollowedInv(s) /\ WayInv(s)
  BY <1>1 DEF RequestInv
<1>3. table'[r] = Seen(s, r)
  BY DEF CommitReading
<1>4. r \in DOMAIN Pending(s) /\ Seen(s, r) = Pending(s)[r]
  BY <1>3 DEF Seen
<1>5. CASE r = o
  <2>1. table'[r].state # "current" /\ table[o].day \in meterReq[s].months
    BY <1>2, <1>3, <1>4, <1>5 DEF StruckInv, WayInv
  <2>2. QED
    BY <2>1, <1>5
<1>6. CASE r = n
  <2>1. n # NoReading
    BY <1>6, MeterNumbers
  <2>2. table[r].state # "current"
    BY <2>1, <1>2, <1>6 DEF WrittenInv
  <2>3. Seen(s, n).day \in meterReq[s].months
    BY <2>1, <1>1, <1>2 DEF WayInv, MonthsOf
  <2>4. QED
    BY <2>2, <2>3, <1>3, <1>6
<1>7. CASE r # o /\ r # n
  <2>1. r \notin Places(s)
    BY <1>7 DEF Places
  <2>2. r \in InUse /\ table'[r].day = table[r].day
    BY <2>1, <1>2, <1>3, <1>4 DEF FollowedInv
  <2>3. PICK p \in Places(s) : r \in FirstAfter(s, Seen(s, p).day)
    BY <2>1, <1>2, <1>4 DEF FollowedInv
  <2>4. CASE p = o
    <3>1. Seen(s, o).day = table[o].day
      BY <1>2 DEF StruckInv, Seen
    <3>2. table[r].day > table[o].day /\ Seen(s, r).day = table[r].day
      BY <2>2, <2>3, <2>4, <3>1, <1>3 DEF FirstAfter
    <3>3. ASSUME NEW q \in InUse, table[q].day > table[o].day
          PROVE  table[q].day >= table[r].day
      <4>1. q # o
        <5>1. table[o].day \in Nat
          BY <1>2, MeterNumbers DEF StruckInv, PlacesInv, DatesInv
        <5>2. QED
          BY <5>1, <3>3
      <4>2. q \in Current(s) /\ Seen(s, q).day = table[q].day
        BY <4>1, <1>1, InUseIsCurrent
      <4>3. Seen(s, q).day > Seen(s, p).day
        BY <4>2, <3>1, <3>3, <2>4
      <4>4. QED
        BY <4>2, <4>3, <2>3, <3>2 DEF FirstAfter
    <3>4. r \in NextOf(o)
      BY <2>2, <3>2, <3>3 DEF NextOf
    <3>5. table[r].day \in meterReq[s].months
      BY <3>4, <1>2 DEF WayInv
    <3>6. QED
      BY <3>5, <2>2
  <2>5. CASE p = n
    <3>1. Seen(s, r).day \in MonthsOf(s, n)
      BY <2>3, <2>5 DEF MonthsOf
    <3>2. n # NoReading
      BY <2>3, <2>5 DEF Places
    <3>3. table[r].day \in meterReq[s].months
      BY <3>1, <3>2, <1>1, <1>2, <1>3, <2>2 DEF WayInv
    <3>4. QED
      BY <3>3, <2>2
  <2>6. QED
    BY <2>3, <2>4, <2>5 DEF Places
<1>8. QED
  BY <1>5, <1>6, <1>7

\* A request that stood at its commit and is idle has committed or rolled back.
LEMMA CommitEnds ==
  ASSUME PlacesInv, NEW s \in Person, MeterNext,
         meterReq[s].pc = "commit", meterReq'[s].pc = "idle"
  PROVE  CommitReading(s) \/ table' = table
<1>1. PICK u \in Person : MeterStep(u)
  BY DEF MeterNext
<1>2. CASE u = s
  BY <1>1, <1>2 DEF MeterStep, TypeReading, CorrectReading, VoidReading, SaveReading, FigureNew,
     Follow, LookEarlier, Refigure, LooksAtMonths, RollbackReading
<1>3. CASE u # s
  <2>1. meterReq'[s] = meterReq[s]
    BY <1>1, <1>3 DEF PlacesInv, MeterTypeOK, MeterStep, TypeReading, CorrectReading, VoidReading,
       SaveReading, FigureNew, Follow, LookEarlier, Refigure, LooksAtMonths, CommitReading,
       RollbackReading
  <2>2. QED
    BY <2>1
<1>4. QED
  BY <1>2, <1>3

\* The types of a meter's rows and requests, one person at a time at work on it.
THEOREM MeterTypeCorrect == MeterSpec /\ []OneRequest => []MeterTypeOK
<1>1. PlacesInv => MeterTypeOK
  BY DEF PlacesInv
<1>2. QED
  BY <1>1, PlacesAlways, PTL

\* Whatever is typed, in any order, voided and corrected by one person at a time at a meter:
\* each reading whose volume a void or a correction moves, begins or ends has its month among
\* those the caller recalculates (core/corrections.py, void and correct).
THEOREM MovedMonthsAreCovered == MeterSpec /\ []OneRequest => MonthsCoverWhatMoved
<1> DEFINE Covered == \A s \in Person : meterReq[s].pc = "commit" /\ meterReq'[s].pc = "idle" =>
                        \A r \in MeterReading : table'[r] # table[r] =>
                          {q.day : q \in {x \in {table[r], table'[r]} : x.state = "current"}}
                            \subseteq meterReq[s].months
<1>1. PlacesInv /\ [MeterNext]_meterVars => [Covered]_meterVars
  <2>1. ASSUME PlacesInv, MeterNext, NEW s \in Person,
               meterReq[s].pc = "commit", meterReq'[s].pc = "idle",
               NEW r \in MeterReading, table'[r] # table[r]
        PROVE  {q.day : q \in {x \in {table[r], table'[r]} : x.state = "current"}}
                 \subseteq meterReq[s].months
    BY <2>1, CommitEnds, CommitCovers
  <2>2. QED
    BY <2>1
<1>2. MeterSpec => [][MeterNext]_meterVars
  BY PTL DEF MeterSpec
<1>3. MeterSpec /\ []OneRequest => [][Covered]_meterVars
  BY <1>1, <1>2, PlacesAlways, PTL
<1>4. QED
  BY <1>3 DEF MonthsCoverWhatMoved

-----------------------------------------------------------------------------
(* Readings stay figured from the last one in use *)

\* For an idle request, what is figured from the last reading in use is so as it sees it.
LEMMA FiguredAsSeen ==
  ASSUME PlacesInv, NEW s \in Person, ~AtWorkOn(s), FiguredFromLast, NEW r \in InUse
  PROVE  Figured(s, r)
<1>1. RequestInv(s)
  BY DEF PlacesInv
<1>2. (\A q : Seen(s, q) = table[q]) /\ Current(s) = InUse
  BY <1>1, SeesCommitted DEF RequestInv
<1>3. LastBefore(s, table[r].day) =
        {q \in Before(r) : \A p \in Before(r) : table[p].day <= table[q].day}
  BY <1>2 DEF LastBefore, Before
<1>4. CASE Before(r) = {}
  BY <1>2, <1>3, <1>4 DEF FiguredFromLast, Figured, OrNone
<1>5. CASE Before(r) # {}
  BY <1>2, <1>3, <1>5 DEF FiguredFromLast, Figured, OrNone
<1>6. QED
  BY <1>4, <1>5

\* What a request sees, figured throughout, is so once committed.
LEMMA SeenAsFigured ==
  ASSUME PlacesInv, NEW s \in Person, table' = [r \in MeterReading |-> Seen(s, r)],
         \A r \in Current(s) : Figured(s, r)
  PROVE  FiguredFromLast'
<1>1. InUse' = Current(s) /\ \A r \in Current(s) : table'[r] = Seen(s, r)
  BY DEF InUse, Current
<1>2. MeterTypeOK /\ \A r \in Current(s) : Seen(s, r).day \in MeterDay
  BY SeenApart DEF PlacesInv
<1>3. ASSUME NEW r \in InUse'
      PROVE  IF Before(r)' = {} THEN table'[r].from = NoReading
             ELSE /\ table'[r].from \in Before(r)'
                  /\ \A q \in Before(r)' : table'[q].day <= table'[table'[r].from].day
  <2> DEFINE d == Seen(s, r).day
  <2>1. Before(r)' = {q \in Current(s) : Seen(s, q).day < d}
    BY <1>1, <1>3 DEF Before
  <2>2. table'[r].from \in OrNone(LastBefore(s, d)) /\ d \in Nat
    BY <1>1, <1>2, <1>3, MeterNumbers DEF Figured
  <2>3. CASE Before(r)' = {}
    BY <2>1, <2>2, <2>3 DEF OrNone, LastBefore
  <2>4. CASE Before(r)' # {}
    <3>1. LastBefore(s, d) # {}
      BY <2>1, <2>2, <2>4, <1>2, LastIsThere
    <3>2. table'[r].from \in LastBefore(s, d)
      BY <3>1, <2>2 DEF OrNone
    <3>3. QED
      BY <3>2, <2>1, <2>4, <1>1 DEF LastBefore
  <2>5. QED
    BY <2>3, <2>4
<1>4. QED
  BY <1>3 DEF FiguredFromLast

\* Steps that keep the table, as far as one request's figures go.
LEMMA TableFigures ==
  ASSUME PlacesInv, LastInv, OneRequest, OneRequest', NEW s \in Person, NEW X, IsMeterRequest(X),
         meterReq' = [meterReq EXCEPT ![s] = X], meterReq[s].pc # "idle" \/ X.pc # "idle",
         table' = table, FiguresInv(s)'
  PROVE  LastInv'
<1>1. FiguredFromLast'
  BY DEF LastInv, FiguredFromLast, InUse, Before
<1>2. \A u \in Person : FiguresInv(u)'
  BY OthersRest
<1>3. QED
  BY <1>1, <1>2 DEF LastInv

\* What a step leaves of a request is of its type.
LEMMA NextIsRequest ==
  ASSUME PlacesInv, PlacesInv', NEW s \in Person, NEW X, meterReq' = [meterReq EXCEPT ![s] = X]
  PROVE  meterReq'[s] = X /\ IsMeterRequest(X)
BY DEF PlacesInv, MeterTypeOK

\* A reading typed in order.
LEMMA TypeReadingFigures ==
  ASSUME PlacesInv, PlacesInv', LastInv, OneRequest, OneRequest', InOrder,
         NEW s \in Person, NEW d \in MeterDay, TypeReading(s, d)
  PROVE  LastInv'
<1>1. PICK e \in OrNone(LastBefore(s, d)) :
        meterReq' = [meterReq EXCEPT
                       ![s] = [MeterIdle EXCEPT !.pc = "typed", !.day = d, !.from = e]]
  BY DEF TypeReading
<1> DEFINE X == [MeterIdle EXCEPT !.pc = "typed", !.day = d, !.from = e]
<1>2. X.pc = "typed" /\ X.day = d /\ X.from = e
  BY DEF MeterIdle
<1>3. meterReq' = [meterReq EXCEPT ![s] = X] /\ table' = table /\ meterReq[s].pc = "idle"
  BY <1>1 DEF TypeReading
<1> HIDE DEF X
<1>4. meterReq'[s] = X /\ IsMeterRequest(X)
  BY <1>3, NextIsRequest
<1>5. DOMAIN Pending(s) = {} /\ DOMAIN Pending(s)' = {}
  BY <1>2, <1>3, <1>4 DEF PlacesInv, RequestInv, AtWorkOn
<1>6. (\A r : Seen(s, r) = table[r]) /\ Current(s) = InUse
      /\ (\A r : Seen(s, r)' = table[r])
  BY <1>3, <1>5, SeesCommitted DEF Seen
<1>7. Current(s)' = Current(s) /\ InUse' = InUse
  BY <1>3, <1>6 DEF Current, InUse
<1>8. LastBefore(s, d)' = LastBefore(s, d)
  BY <1>6, <1>7 DEF LastBefore
<1>9. \A q \in InUse : table[q].day < d
  BY <1>6 DEF TypeReading
<1>10. FiguresInv(s)'
  <2>1. ~AtWorkOn(s)' /\ meterReq'[s].pc = "typed"
    BY <1>2, <1>4 DEF AtWorkOn
  <2>2. (\A q \in InUse : table[q].day < meterReq[s].day)'
    BY <1>2, <1>3, <1>4, <1>7, <1>9
  <2>3. meterReq'[s].from \in OrNone(LastBefore(s, d)')
    BY <1>1, <1>2, <1>4, <1>8
  <2>4. (meterReq[s].from \in OrNone(LastBefore(s, meterReq[s].day)))'
    BY <2>3, <1>2, <1>4 DEF OrNone, LastBefore
  <2>5. QED
    BY <2>1, <2>2, <2>4 DEF FiguresInv
<1>11. QED
  BY <1>2, <1>3, <1>4, <1>10, TableFigures

\* It is saved after all that are in use.
LEMMA SaveReadingFigures ==
  ASSUME PlacesInv, PlacesInv', LastInv, OneRequest, OneRequest', NEW s \in Person, SaveReading(s)
  PROVE  LastInv'
<1> DEFINE d == meterReq[s].day
           e == meterReq[s].from
<1>1. PICK n \in NewMeterReading :
        table' = [table EXCEPT ![n] = [state |-> "current", day |-> d, from |-> e,
                                       replaces |-> NoReading]]
  BY DEF SaveReading
<1>2. n \in MeterReading /\ table[n].state = "unused" /\ table \in [MeterReading -> MeterRow]
  BY DEF NewMeterReading, PlacesInv, MeterTypeOK
<1>3. /\ meterReq[s].pc = "typed" /\ MeterTypeOK /\ DatesInv /\ RequestInv(s) /\ FiguresInv(s)
      /\ meterReq' = [meterReq EXCEPT ![s] = MeterIdle]
  BY DEF SaveReading, PlacesInv, LastInv
<1>4. \A u \in Person : FiguresInv(u)'
  BY <1>3, LeavesIdle
<1>5. /\ table'[n].state = "current" /\ table'[n].day = d /\ table'[n].from = e
      /\ \A r \in MeterReading \ {n} : table'[r] = table[r]
  BY <1>1, <1>2
<1>6. InUse' = InUse \cup {n} /\ n \notin InUse
  BY <1>2, <1>5 DEF InUse
<1>7. /\ d \in MeterDay /\ (\A q \in InUse : table[q].day < d)
      /\ e \in OrNone(LastBefore(s, d))
  BY <1>3 DEF RequestInv, FiguresInv
<1>8. (\A r : Seen(s, r) = table[r]) /\ Current(s) = InUse
  BY <1>3, SeesCommitted DEF RequestInv, AtWorkOn
<1>9. Before(n)' = InUse
  <2>1. \A q \in InUse : table'[q] = table[q]
    BY <1>5, <1>6 DEF InUse
  <2>2. ~(d < d)
    <3>1. d \in Nat
      BY <1>7, MeterNumbers
    <3>2. QED
      BY <3>1
  <2>3. Before(n)' = {q \in InUse \cup {n} : table'[q].day < d}
    BY <1>5, <1>6 DEF Before
  <2>4. QED
    BY <2>1, <2>2, <2>3, <1>5, <1>7
<1>10. LastBefore(s, d) = {q \in InUse : \A p \in InUse : table[p].day <= table[q].day}
  BY <1>7, <1>8 DEF LastBefore
<1>11. IF Before(n)' = {} THEN table'[n].from = NoReading
       ELSE /\ table'[n].from \in Before(n)'
            /\ \A q \in Before(n)' : table'[q].day <= table'[table'[n].from].day
  <2>1. CASE InUse = {}
    BY <2>1, <1>5, <1>7, <1>9, <1>10 DEF OrNone
  <2>2. CASE InUse # {}
    <3>1. LastBefore(s, d) # {}
      BY <2>2, <1>3, <1>7, <1>8, MeterNumbers, LastIsThere
    <3>2. e \in InUse /\ \A p \in InUse : table[p].day <= table[e].day
      BY <3>1, <1>7, <1>10 DEF OrNone
    <3>3. QED
      BY <3>2, <2>2, <1>5, <1>6, <1>9 DEF InUse
  <2>3. QED
    BY <2>1, <2>2
<1>12. ASSUME NEW r \in InUse
       PROVE  IF Before(r)' = {} THEN table'[r].from = NoReading
              ELSE /\ table'[r].from \in Before(r)'
                   /\ \A q \in Before(r)' : table'[q].day <= table'[table'[r].from].day
  <2>1. r \in MeterReading /\ r # n /\ table'[r] = table[r]
    BY <1>5, <1>6 DEF InUse
  <2>2. ~(d < table[r].day)
    <3>1. table[r].day < d /\ table[r].day \in Nat /\ d \in Nat
      BY <1>3, <1>7, MeterNumbers DEF DatesInv
    <3>2. QED
      BY <3>1
  <2>3. \A q \in InUse : table'[q] = table[q]
    BY <1>5, <1>6 DEF InUse
  <2>4. Before(r)' = Before(r)
    BY <2>1, <2>2, <2>3, <1>5, <1>6 DEF Before
  <2>5. IF Before(r) = {} THEN table[r].from = NoReading
        ELSE /\ table[r].from \in Before(r)
             /\ \A q \in Before(r) : table[q].day <= table[table[r].from].day
    BY DEF LastInv, FiguredFromLast
  <2>6. \A q \in Before(r) : table'[q] = table[q]
    BY <2>3 DEF Before
  <2>7. QED
    BY <2>1, <2>4, <2>5, <2>6
<1>13. FiguredFromLast'
  BY <1>6, <1>11, <1>12 DEF FiguredFromLast
<1>14. QED
  BY <1>4, <1>13 DEF LastInv

\* A reading in use whose row a void or a correction leaves alone is still figured from the
\* last one before it, unless it is the first after the struck one or the one in its place.
LEMMA StruckAndWritten ==
  ASSUME PlacesInv, FiguredFromLast, NEW s \in Person, NEW o \in InUse,
         NEW W, \A p, q \in W : p = q, \A q \in W : Seen(s, q)'.day \in Nat,
         Current(s)' = (InUse \ {o}) \cup W,
         \A q \in InUse \ {o} : Seen(s, q)' = table[q],
         Seen(s, o)'.day = table[o].day, NEW g \in InUse \ {o}
  PROVE  \/ Figured(s, g)'
         \/ \E p \in {o} \cup W : g \in FirstAfter(s, Seen(s, p).day)'
<1> DEFINE d == table[g].day
           Between(p) == \E x \in Current(s)' : Seen(s, p)'.day < Seen(s, x)'.day
                                                /\ Seen(s, x)'.day < d
<1>1. \A q \in InUse : table[q].day \in Nat
  BY MeterNumbers DEF PlacesInv, DatesInv
<1>2. \A q \in Current(s)' : Seen(s, q)'.day \in Nat
  BY <1>1
<1>3. g \in Current(s)' /\ Seen(s, g)'.day = d /\ d \in Nat /\ Seen(s, o)'.day \in Nat
  BY <1>1
<1>4. ASSUME NEW p \in {o} \cup W, Seen(s, p)'.day < d, ~Between(p)
      PROVE  g \in FirstAfter(s, Seen(s, p).day)'
  <2>1. ASSUME NEW x \in Current(s)', Seen(s, p)'.day < Seen(s, x)'.day
        PROVE  Seen(s, x)'.day >= d
    <3>1. ~(Seen(s, x)'.day < d)
      BY <1>4, <2>1
    <3>2. QED
      BY <3>1, <1>2, <1>3
  <2>2. Seen(s, p)'.day \in Nat
    BY <1>3
  <2>3. \A x \in Current(s)' : Seen(s, x)'.day > Seen(s, p)'.day => Seen(s, x)'.day >= d
    BY <2>1, <2>2, <1>2
  <2>4. Seen(s, g)'.day > Seen(s, p)'.day
    BY <1>3, <1>4, <2>2
  <2>5. QED
    BY <2>3, <2>4, <1>3 DEF FirstAfter
<1>5. ASSUME \A p \in {o} \cup W : Seen(s, p)'.day < d => Between(p)
      PROVE  Figured(s, g)'
  <2>1. ASSUME NEW p \in W, Seen(s, p)'.day < d
        PROVE  \E x \in Before(g) \ {o} : Seen(s, p)'.day < table[x].day
    <3>1. PICK x \in Current(s)' : Seen(s, p)'.day < Seen(s, x)'.day /\ Seen(s, x)'.day < d
      BY <2>1, <1>5
    <3>2. x # p
      BY <3>1, <1>2
    <3>3. x \in InUse \ {o} /\ Seen(s, x)' = table[x]
      BY <3>2
    <3>4. QED
      BY <3>1, <3>3 DEF Before
  <2>2. ASSUME o \in Before(g)
        PROVE  \E x \in Before(g) \ {o} : table[o].day < table[x].day
    <3>1. Between(o)
      BY <2>2, <1>5 DEF Before
    <3>2. PICK x \in Current(s)' : table[o].day < Seen(s, x)'.day /\ Seen(s, x)'.day < d
      BY <3>1
    <3>3. CASE x \in InUse \ {o}
      BY <3>2, <3>3 DEF Before
    <3>4. CASE x \in W
      <4>1. PICK y \in Before(g) \ {o} : Seen(s, x)'.day < table[y].day
        BY <2>1, <3>2, <3>4
      <4>2. table[o].day < table[y].day
        BY <4>1, <3>2, <1>1, <1>2 DEF Before
      <4>3. QED
        BY <4>2
    <3>5. QED
      BY <3>3, <3>4
  <2>3. {q \in Current(s)' : Seen(s, q)'.day < d} =
          (Before(g) \ {o}) \cup {q \in W : Seen(s, q)'.day < d}
    BY DEF Before
  <2>4. PICK f : f = table[g].from
    OBVIOUS
  <2> DEFINE B == {q \in Current(s)' : Seen(s, q)'.day < d}
  <2>5. Seen(s, g)'.from = f
    BY <2>4
  <2>6. LastBefore(s, Seen(s, g).day)' =
          {q \in B : \A p \in B : Seen(s, p)'.day <= Seen(s, q)'.day}
    BY <1>3 DEF LastBefore
  <2>7. CASE Before(g) = {}
    <3>1. f = NoReading /\ B = {}
      BY <2>1, <2>3, <2>7, <2>4 DEF FiguredFromLast
    <3>2. QED
      BY <3>1, <2>5, <2>6 DEF Figured, OrNone
  <2>8. CASE Before(g) # {}
    <3>1. f \in Before(g) /\ \A q \in Before(g) : table[q].day <= table[f].day
      BY <2>8, <2>4 DEF FiguredFromLast
    <3>2. f # o
      <4> SUFFICES ASSUME f = o PROVE FALSE
        OBVIOUS
      <4>1. PICK x \in Before(g) \ {o} : table[o].day < table[x].day
        BY <2>2, <3>1
      <4>2. table[x].day <= table[o].day
        BY <3>1
      <4>3. QED
        BY <4>1, <4>2, <1>1 DEF Before
    <3>3. f \in B /\ f \in InUse \ {o} /\ Seen(s, f)'.day = table[f].day
      <4>1. f \in InUse \ {o}
        BY <3>1, <3>2 DEF Before
      <4>2. Seen(s, f)' = table[f]
        BY <4>1
      <4>3. QED
        BY <4>1, <4>2, <2>3, <3>1, <3>2
    <3>4. ASSUME NEW q \in B PROVE Seen(s, q)'.day <= Seen(s, f)'.day
      <4>1. CASE q \in Before(g) \ {o}
        BY <4>1, <3>1, <3>3 DEF Before
      <4>2. CASE q \in W
        <5>1. PICK x \in Before(g) \ {o} : Seen(s, q)'.day < table[x].day
          BY <2>1, <4>2
        <5>2. table[x].day <= table[f].day /\ table[x].day \in Nat /\ table[f].day \in Nat
          BY <5>1, <3>1, <3>3, <1>1 DEF Before
        <5>3. QED
          BY <5>1, <5>2, <3>3, <1>2
      <4>3. QED
        BY <2>3, <4>1, <4>2
    <3>5. f \in LastBefore(s, Seen(s, g).day)'
      BY <3>3, <3>4, <2>6
    <3>6. QED
      BY <3>5, <2>5 DEF Figured, OrNone
  <2>9. QED
    BY <2>7, <2>8
<1>6. QED
  BY <1>4, <1>5

\* A reading is voided: the one that follows is due.
LEMMA VoidReadingFigures ==
  ASSUME PlacesInv, PlacesInv', LastInv, OneRequest, OneRequest', NEW s \in Person,
         NEW r \in MeterReading, VoidReading(s, r)
  PROVE  LastInv'
<1> DEFINE C == [q \in {r} |-> [table[r] EXCEPT !.state = "voided"]]
           X == [MeterIdle EXCEPT !.pc = "follow", !.old = r, !.around = {r},
                   !.months = MonthsOf(s, r), !.pending = C]
<1>1. /\ r \in InUse /\ meterReq[s].pc = "idle" /\ table[r] \in MeterRow /\ table' = table
      /\ meterReq' = [meterReq EXCEPT ![s] = X]
  BY DEF VoidReading, MeterChangeable, InUse, PlacesInv, MeterTypeOK
<1>2. DOMAIN C = {r} /\ C[r].state = "voided" /\ C[r].day = table[r].day
  BY <1>1 DEF MeterRow
<1> HIDE DEF C
<1>3. X.pc = "follow" /\ X.around = {r} /\ X.pending = C
  BY DEF MeterIdle
<1> HIDE DEF X
<1>4. meterReq'[s] = X /\ IsMeterRequest(X)
  BY <1>1, NextIsRequest
<1>5. Pending(s)' = C
  BY <1>3, <1>4 DEF Pending
<1>6. /\ Seen(s, r)'.state = "voided" /\ Seen(s, r)'.day = table[r].day
      /\ \A q : q # r => Seen(s, q)' = table[q]
  BY <1>1, <1>2, <1>5 DEF Seen
<1>7. Current(s)' = (InUse \ {r}) \cup {}
  BY <1>6 DEF Current, InUse
<1>8. ASSUME NEW g \in Current(s)'
      PROVE  Figured(s, g)' \/ g \in FirstAfter(s, Seen(s, r).day)'
  <2>1. g \in InUse \ {r} /\ FiguredFromLast
    BY <1>7 DEF LastInv
  <2>2. \/ Figured(s, g)'
        \/ \E p \in {r} \cup {} : g \in FirstAfter(s, Seen(s, p).day)'
    BY ZenonT(60), <2>1, <1>1, <1>6, <1>7, StruckAndWritten
  <2>3. QED
    BY <2>2
<1>9. ASSUME NEW g \in Current(s)' PROVE Figured(s, g)' \/ Due(s, g)'
  BY <1>3, <1>4, <1>8 DEF Due
<1>10. FiguresInv(s)'
  BY <1>3, <1>4, <1>9 DEF FiguresInv
<1>11. QED
  BY <1>1, <1>3, <1>4, <1>10, TableFigures

\* A reading is corrected: the new one is due, and those that follow the two.
LEMMA CorrectReadingFigures ==
  ASSUME PlacesInv, PlacesInv', LastInv, OneRequest, OneRequest', NEW s \in Person,
         NEW r \in MeterReading, NEW d \in MeterDay, CorrectReading(s, r, d)
  PROVE  LastInv'
<1> DEFINE C(n) == [q \in {r, n} |-> IF q = r THEN [table[r] EXCEPT !.state = "replaced"]
                                     ELSE [table[r] EXCEPT !.day = d, !.replaces = r]]
           X(n) == [MeterIdle EXCEPT !.pc = "figure", !.old = r, !.new = n, !.around = {r, n},
                      !.months = MonthsOf(s, r), !.pending = C(n)]
<1>1. r \in InUse /\ meterReq[s].pc = "idle" /\ table[r] \in MeterRow /\ table' = table
      /\ table[r].state = "current"
  BY DEF CorrectReading, MeterChangeable, InUse, PlacesInv, MeterTypeOK
<1>2. PICK n \in NewMeterReading : meterReq' = [meterReq EXCEPT ![s] = X(n)]
  BY DEF CorrectReading
<1>3. n \in MeterReading /\ table[n].state = "unused" /\ n # r /\ n \notin InUse
  BY <1>1 DEF NewMeterReading, InUse
<1>4. /\ DOMAIN C(n) = {r, n} /\ C(n)[r].state = "replaced" /\ C(n)[r].day = table[r].day
      /\ C(n)[n].state = "current" /\ C(n)[n].day = d
  BY <1>1, <1>3 DEF MeterRow
<1> HIDE DEF C
<1>5. /\ X(n).pc = "figure" /\ X(n).new = n /\ X(n).around = {r, n} /\ X(n).pending = C(n)
  BY DEF MeterIdle
<1> HIDE DEF X
<1>6. meterReq'[s] = X(n) /\ IsMeterRequest(X(n))
  BY <1>2, NextIsRequest
<1>7. Pending(s)' = C(n)
  BY <1>5, <1>6 DEF Pending
<1>8. /\ Seen(s, r)'.state = "replaced" /\ Seen(s, r)'.day = table[r].day
      /\ Seen(s, n)'.state = "current" /\ Seen(s, n)'.day = d
      /\ \A q : q # r /\ q # n => Seen(s, q)' = table[q]
  BY <1>1, <1>4, <1>7 DEF Seen
<1>9. Current(s)' = (InUse \ {r}) \cup {n}
  BY <1>3, <1>8 DEF Current, InUse
<1>10. ASSUME NEW g \in Current(s)', g # n
       PROVE  Figured(s, g)' \/ \E p \in {r, n} : g \in FirstAfter(s, Seen(s, p).day)'
  <2>1. g \in InUse \ {r} /\ FiguredFromLast
    BY <1>9, <1>10 DEF LastInv
  <2> DEFINE W == {n}
  <2>2. (\A q \in W : Seen(s, q)'.day \in Nat) /\ \A p, q \in W : p = q
    BY <1>8, MeterNumbers
  <2>3. Current(s)' = (InUse \ {r}) \cup W
    BY <1>9
  <2>4. \A q \in InUse \ {r} : Seen(s, q)' = table[q]
    BY <1>3, <1>8
  <2>5. \/ Figured(s, g)'
        \/ \E p \in {r} \cup W : g \in FirstAfter(s, Seen(s, p).day)'
    <3> HIDE DEF W
    <3> QED
      BY <2>1, <2>2, <2>4, <2>3, <1>1, <1>8, StruckAndWritten
  <2>6. QED
    BY <2>5
<1>11. ASSUME NEW g \in Current(s)' PROVE Figured(s, g)' \/ Due(s, g)'
  BY <1>5, <1>6, <1>10 DEF Due
<1>12. FiguresInv(s)'
  BY <1>5, <1>6, <1>11 DEF FiguresInv
<1>13. QED
  BY <1>1, <1>2, <1>5, <1>6, <1>12, TableFigures

\* A reading figured anew leaves the others as they were.
LEMMA PutFigures ==
  ASSUME PlacesInv, NEW s \in Person, NEW x \in Current(s),
         NEW e \in OrNone(LastBefore(s, Seen(s, x).day)),
         Pending(s)' = Put(s, x, [Seen(s, x) EXCEPT !.from = e]), table' = table,
         NEW A \in SUBSET MeterReading,
         \A g \in Current(s) : \/ g = x \/ Figured(s, g)
                               \/ \E p \in A : g \in FirstAfter(s, Seen(s, p).day)
  PROVE  \A g \in Current(s)' : \/ Figured(s, g)'
                                \/ \E p \in A : g \in FirstAfter(s, Seen(s, p).day)'
<1>1. MeterTypeOK /\ x \in MeterReading
  BY DEF PlacesInv, Current
<1>2. e \in MeterReading \cup {NoReading}
  BY DEF OrNone, LastBefore, Current
<1>3. /\ \A r \in MeterReading :
           /\ Seen(s, r)'.state = Seen(s, r).state /\ Seen(s, r)'.day = Seen(s, r).day
           /\ r # x => Seen(s, r)' = Seen(s, r)
      /\ Seen(s, x)'.from = e
  <2>1. /\ DOMAIN Pending(s)' = DOMAIN Pending(s) \cup {x}
        /\ Pending(s)' \in [DOMAIN Pending(s)' -> MeterRow]
        /\ \A r \in DOMAIN Pending(s)' : Pending(s)'[r] = Seen(s, r)'
        /\ \A r \in MeterReading :
             /\ Seen(s, r)'.state = Seen(s, r).state /\ Seen(s, r)'.day = Seen(s, r).day
             /\ r # x => Seen(s, r)' = Seen(s, r)
        /\ Seen(s, x)'.from = e
    BY SMTT(30), <1>1, <1>2, PutDoes
  <2>2. QED
    BY <2>1
<1>4. Current(s)' = Current(s) /\ Current(s) \subseteq MeterReading
      /\ \A r \in Current(s) : Seen(s, r)'.day = Seen(s, r).day
  BY <1>3, StayInPlace DEF Current
<1>5. ASSUME NEW r \in MeterReading
      PROVE  /\ FirstAfter(s, Seen(s, r).day)' = FirstAfter(s, Seen(s, r).day)
             /\ LastBefore(s, Seen(s, r).day)' = LastBefore(s, Seen(s, r).day)
  BY <1>3, <1>4 DEF FirstAfter, LastBefore
<1>6. Figured(s, x)'
  <2>1. LastBefore(s, Seen(s, x).day)' = LastBefore(s, Seen(s, x).day)
    BY <1>1, <1>5
  <2>2. QED
    BY <2>1, <1>3 DEF Figured, OrNone
<1>7. ASSUME NEW g \in Current(s), g # x, Figured(s, g) PROVE Figured(s, g)'
  <2>1. LastBefore(s, Seen(s, g).day)' = LastBefore(s, Seen(s, g).day)
        /\ Seen(s, g)' = Seen(s, g)
    BY <1>3, <1>4, <1>5, <1>7
  <2>2. QED
    BY <2>1, <1>7 DEF Figured, OrNone
<1>8. QED
  BY <1>4, <1>5, <1>6, <1>7

\* The new reading is figured.
LEMMA FigureNewFigures ==
  ASSUME PlacesInv, PlacesInv', LastInv, OneRequest, OneRequest', NEW s \in Person, FigureNew(s)
  PROVE  LastInv'
<1> DEFINE n == meterReq[s].new
<1>1. PICK e \in OrNone(LastBefore(s, Seen(s, n).day)) :
        meterReq' = [meterReq EXCEPT ![s] = [meterReq[s] EXCEPT
                       !.pc = "follow", !.pending = Put(s, n, [Seen(s, n) EXCEPT !.from = e])]]
  BY DEF FigureNew
<1> DEFINE X == [meterReq[s] EXCEPT !.pc = "follow",
                                    !.pending = Put(s, n, [Seen(s, n) EXCEPT !.from = e])]
<1>2. /\ meterReq[s].pc = "figure" /\ table' = table /\ RequestInv(s) /\ FiguresInv(s)
      /\ IsMeterRequest(meterReq[s])
  BY DEF FigureNew, PlacesInv, MeterTypeOK, LastInv
<1>3. WrittenInv(s) /\ n # NoReading
  BY <1>2 DEF AtWorkOn, RequestInv, WayInv
<1>4. n \in Current(s)
  BY <1>3 DEF Current, WrittenInv, Seen
<1>5. /\ X.pc = "follow" /\ X.around = meterReq[s].around
      /\ X.pending = Put(s, n, [Seen(s, n) EXCEPT !.from = e])
  BY <1>2 DEF IsMeterRequest
<1>6. meterReq' = [meterReq EXCEPT ![s] = X]
  BY <1>1
<1> HIDE DEF X
<1>7. meterReq'[s] = X /\ IsMeterRequest(X)
  BY <1>6, NextIsRequest
<1>8. Pending(s)' = Put(s, n, [Seen(s, n) EXCEPT !.from = e])
  BY <1>5, <1>7 DEF Pending
<1>9. \A g \in Current(s) : \/ g = n \/ Figured(s, g)
                            \/ \E p \in meterReq[s].around : g \in FirstAfter(s, Seen(s, p).day)
  BY <1>2 DEF FiguresInv, AtWorkOn, Due
<1>10. meterReq[s].around \in SUBSET MeterReading
  BY <1>2 DEF IsMeterRequest
<1>11. \A g \in Current(s)' :
         \/ Figured(s, g)'
         \/ \E p \in meterReq[s].around : g \in FirstAfter(s, Seen(s, p).day)'
  BY <1>2, <1>4, <1>8, <1>9, <1>10, PutFigures
<1>12. \A g \in Current(s)' : Figured(s, g)' \/ Due(s, g)'
  BY <1>5, <1>7, <1>11 DEF Due
<1>13. FiguresInv(s)'
  BY <1>5, <1>7, <1>12 DEF FiguresInv
<1>14. QED
  BY <1>2, <1>5, <1>6, <1>7, <1>13, TableFigures

\* The reading that follows one of the two places becomes the one to figure.
LEMMA FollowFigures ==
  ASSUME PlacesInv, PlacesInv', LastInv, OneRequest, OneRequest', NEW s \in Person, Follow(s)
  PROVE  LastInv'
<1> DEFINE p == Place(s)
<1>1. PICK f \in OrNone(FirstAfter(s, Seen(s, p).day)) :
        meterReq' = [meterReq EXCEPT ![s] = [meterReq[s] EXCEPT
                       !.around = meterReq[s].around \ {p}, !.follow = f,
                       !.pc = IF f = NoReading THEN "follow" ELSE "earlier"]]
  BY DEF Follow
<1> DEFINE X == [meterReq[s] EXCEPT
                   !.around = meterReq[s].around \ {p}, !.follow = f,
                   !.pc = IF f = NoReading THEN "follow" ELSE "earlier"]
<1>2. /\ meterReq[s].pc = "follow" /\ table' = table /\ RequestInv(s) /\ FiguresInv(s)
      /\ IsMeterRequest(meterReq[s]) /\ MeterTypeOK /\ DatesInv
  BY DEF Follow, PlacesInv, MeterTypeOK, LastInv
<1>3. /\ X.pc = (IF f = NoReading THEN "follow" ELSE "earlier") /\ X.follow = f
      /\ X.old = meterReq[s].old /\ X.new = meterReq[s].new
      /\ X.around = meterReq[s].around \ {p} /\ X.pending = meterReq[s].pending
  BY <1>2 DEF IsMeterRequest
<1>4. meterReq' = [meterReq EXCEPT ![s] = X]
  BY <1>1
<1> HIDE DEF X
<1>5. meterReq'[s] = X /\ IsMeterRequest(X)
  BY <1>4, NextIsRequest
<1>6. Pending(s)' = Pending(s)
  BY <1>3, <1>5 DEF Pending
<1>7. /\ \A r : Seen(s, r)' = Seen(s, r)
      /\ Current(s)' = Current(s)
      /\ \A r : FirstAfter(s, Seen(s, r).day)' = FirstAfter(s, Seen(s, r).day)
      /\ \A r : LastBefore(s, Seen(s, r).day)' = LastBefore(s, Seen(s, r).day)
  BY <1>2, <1>3, <1>5, <1>6, SameChanges
<1>8. ASSUME NEW g \in Current(s)' PROVE Figured(s, g)' \/ Due(s, g)'
  <2>1. CASE Figured(s, g)
    BY <2>1, <1>7 DEF Figured, OrNone
  <2>2. CASE ~Figured(s, g)
    <3>1. Due(s, g)
      BY <2>2, <1>2, <1>7 DEF FiguresInv, AtWorkOn
    <3>2. PICK q \in meterReq[s].around : g \in FirstAfter(s, Seen(s, q).day)
      BY <3>1, <1>2 DEF Due
    <3>3. CASE q = p
      <4>1. f \in FirstAfter(s, Seen(s, p).day)
        BY <3>2, <3>3 DEF OrNone
      <4>2. g = f
        BY <4>1, <3>2, <3>3, <1>2, FirstIsOne
      <4>3. f # NoReading
        BY <4>1, MeterNumbers DEF FirstAfter, Current
      <4>4. QED
        BY <4>2, <4>3, <1>3, <1>5 DEF Due
    <3>4. CASE q # p
      <4>1. q \in meterReq'[s].around /\ g \in FirstAfter(s, Seen(s, q).day)'
        BY <3>2, <3>4, <1>3, <1>5, <1>7
      <4>2. QED
        BY <4>1 DEF Due
    <3>5. QED
      BY <3>3, <3>4
  <2>3. QED
    BY <2>1, <2>2
<1>9. FiguresInv(s)'
  BY <1>3, <1>5, <1>8 DEF FiguresInv
<1>10. QED
  BY <1>2, <1>4, <1>5, <1>9, TableFigures

\* What that one is figured from is looked up.
LEMMA LookEarlierFigures ==
  ASSUME PlacesInv, PlacesInv', LastInv, OneRequest, OneRequest', NEW s \in Person,
         LookEarlier(s)
  PROVE  LastInv'
<1> DEFINE f == meterReq[s].follow
<1>1. PICK e \in OrNone(LastBefore(s, Seen(s, f).day)) :
        meterReq' = [meterReq EXCEPT ![s].from = e, ![s].pc = "update"]
  BY DEF LookEarlier
<1> DEFINE X == [meterReq[s] EXCEPT !.from = e, !.pc = "update"]
<1>2. /\ meterReq[s].pc = "earlier" /\ table' = table /\ FiguresInv(s)
      /\ IsMeterRequest(meterReq[s])
  BY DEF LookEarlier, PlacesInv, MeterTypeOK, LastInv
<1>3. /\ X.pc = "update" /\ X.follow = f /\ X.from = e
      /\ X.old = meterReq[s].old /\ X.new = meterReq[s].new
      /\ X.around = meterReq[s].around /\ X.pending = meterReq[s].pending
  BY <1>2 DEF IsMeterRequest
<1>4. meterReq' = [meterReq EXCEPT ![s] = X]
  BY <1>1 DEF PlacesInv, MeterTypeOK
<1> HIDE DEF X
<1>5. meterReq'[s] = X /\ IsMeterRequest(X)
  BY <1>4, NextIsRequest
<1>6. Pending(s)' = Pending(s)
  BY <1>3, <1>5 DEF Pending
<1>7. /\ Current(s)' = Current(s) /\ \A r : Seen(s, r)' = Seen(s, r)
      /\ \A r : FirstAfter(s, Seen(s, r).day)' = FirstAfter(s, Seen(s, r).day)
      /\ \A r : LastBefore(s, Seen(s, r).day)' = LastBefore(s, Seen(s, r).day)
  BY <1>2, <1>3, <1>5, <1>6, SameChanges
<1>8. ASSUME NEW g \in Current(s)' PROVE Figured(s, g)' \/ Due(s, g)'
  <2>1. CASE Figured(s, g)
    BY <2>1, <1>7 DEF Figured, OrNone
  <2>2. CASE ~Figured(s, g)
    <3>1. Due(s, g)
      BY <2>2, <1>2, <1>7 DEF FiguresInv, AtWorkOn
    <3>2. CASE g = f
      BY <3>2, <1>3, <1>5 DEF Due
    <3>3. CASE \E q \in meterReq[s].around : g \in FirstAfter(s, Seen(s, q).day)
      <4>1. PICK q \in meterReq[s].around : g \in FirstAfter(s, Seen(s, q).day)
        BY <3>3
      <4>2. q \in meterReq'[s].around /\ g \in FirstAfter(s, Seen(s, q).day)'
        BY <4>1, <1>3, <1>5, <1>7
      <4>3. QED
        BY <4>2 DEF Due
    <3>4. QED
      BY <3>1, <3>2, <3>3, <1>2 DEF Due
  <2>3. QED
    BY <2>1, <2>2
<1>9. (meterReq[s].from \in OrNone(LastBefore(s, Seen(s, meterReq[s].follow).day)))'
  <2>1. PICK g : g = f
    OBVIOUS
  <2>2. e \in OrNone(LastBefore(s, Seen(s, g).day))
    BY <1>1, <2>1
  <2>3. LastBefore(s, Seen(s, g).day)' = LastBefore(s, Seen(s, g).day)
    BY <1>7
  <2>4. meterReq'[s].follow = g /\ meterReq'[s].from = e
    BY <1>3, <1>5, <2>1
  <2>5. QED
    BY <2>2, <2>3, <2>4 DEF OrNone, LastBefore
<1>10. FiguresInv(s)'
  BY <1>3, <1>5, <1>8, <1>9 DEF FiguresInv
<1>11. QED
  BY <1>2, <1>4, <1>5, <1>10, TableFigures

\* The reading that follows is figured from it.
LEMMA RefigureFigures ==
  ASSUME PlacesInv, PlacesInv', LastInv, OneRequest, OneRequest', NEW s \in Person, Refigure(s)
  PROVE  LastInv'
<1> DEFINE f == meterReq[s].follow
           e == meterReq[s].from
           X == [meterReq[s] EXCEPT !.pc = "follow", !.follow = NoReading, !.from = NoReading,
                                    !.pending = Put(s, f, [Seen(s, f) EXCEPT !.from = e])]
<1>1. /\ meterReq[s].pc = "update" /\ table' = table /\ RequestInv(s) /\ FiguresInv(s)
      /\ IsMeterRequest(meterReq[s]) /\ meterReq' = [meterReq EXCEPT ![s] = X]
  BY DEF Refigure, PlacesInv, MeterTypeOK, LastInv
<1>2. f \in Current(s)
  <2>1. PICK p \in Places(s) : f \in FirstAfter(s, Seen(s, p).day)
    BY <1>1 DEF RequestInv, AtWorkOn, FollowedInv
  <2>2. QED
    BY <2>1 DEF FirstAfter
<1>3. e \in OrNone(LastBefore(s, Seen(s, f).day))
  BY <1>1 DEF FiguresInv
<1>4. /\ X.pc = "follow" /\ X.around = meterReq[s].around
      /\ X.pending = Put(s, f, [Seen(s, f) EXCEPT !.from = e])
  BY <1>1 DEF IsMeterRequest
<1> HIDE DEF X
<1>5. meterReq'[s] = X /\ IsMeterRequest(X)
  BY <1>1, NextIsRequest
<1>6. Pending(s)' = Put(s, f, [Seen(s, f) EXCEPT !.from = e])
  BY <1>4, <1>5 DEF Pending
<1>7. \A g \in Current(s) : \/ g = f \/ Figured(s, g)
                            \/ \E p \in meterReq[s].around : g \in FirstAfter(s, Seen(s, p).day)
  BY <1>1 DEF FiguresInv, AtWorkOn, Due
<1>8. meterReq[s].around \in SUBSET MeterReading
  BY <1>1 DEF IsMeterRequest
<1>9. \A g \in Current(s)' :
        \/ Figured(s, g)'
        \/ \E p \in meterReq[s].around : g \in FirstAfter(s, Seen(s, p).day)'
  BY <1>1, <1>2, <1>3, <1>6, <1>7, <1>8, PutFigures
<1>10. \A g \in Current(s)' : Figured(s, g)' \/ Due(s, g)'
  BY <1>4, <1>5, <1>9 DEF Due
<1>11. FiguresInv(s)'
  BY <1>4, <1>5, <1>10 DEF FiguresInv
<1>12. QED
  BY <1>1, <1>4, <1>5, <1>11, TableFigures

\* Once the months are noted nothing is due.
LEMMA LooksAtMonthsFigures ==
  ASSUME PlacesInv, PlacesInv', LastInv, OneRequest, OneRequest', NEW s \in Person,
         LooksAtMonths(s)
  PROVE  LastInv'
<1> DEFINE X == [meterReq[s] EXCEPT !.pc = "commit",
                   !.months = meterReq[s].months \cup
                     IF meterReq[s].new = NoReading THEN {} ELSE MonthsOf(s, meterReq[s].new)]
<1>1. /\ meterReq[s].pc = "follow" /\ meterReq[s].around = {} /\ table' = table
      /\ FiguresInv(s) /\ IsMeterRequest(meterReq[s]) /\ meterReq' = [meterReq EXCEPT ![s] = X]
  BY DEF LooksAtMonths, PlacesInv, MeterTypeOK, LastInv
<1>2. /\ X.pc = "commit" /\ X.old = meterReq[s].old /\ X.new = meterReq[s].new
      /\ X.pending = meterReq[s].pending
  BY <1>1 DEF IsMeterRequest
<1> HIDE DEF X
<1>3. meterReq'[s] = X /\ IsMeterRequest(X)
  BY <1>1, NextIsRequest
<1>4. Pending(s)' = Pending(s)
  BY <1>2, <1>3 DEF Pending
<1>5. /\ Current(s)' = Current(s) /\ \A r : Seen(s, r)' = Seen(s, r)
      /\ \A r : LastBefore(s, Seen(s, r).day)' = LastBefore(s, Seen(s, r).day)
  BY <1>1, <1>2, <1>3, <1>4, SameChanges
<1>6. \A g \in Current(s) : Figured(s, g)
  BY <1>1 DEF FiguresInv, AtWorkOn, Due
<1>7. \A g \in Current(s)' : Figured(s, g)'
  BY <1>5, <1>6 DEF Figured, OrNone
<1>8. FiguresInv(s)'
  BY <1>2, <1>3, <1>7 DEF FiguresInv
<1>9. QED
  BY <1>1, <1>2, <1>3, <1>8, TableFigures

\* What is committed is figured throughout.
LEMMA CommitReadingFigures ==
  ASSUME PlacesInv, LastInv, OneRequest, OneRequest', NEW s \in Person, CommitReading(s)
  PROVE  LastInv'
<1>1. /\ meterReq[s].pc = "commit" /\ table' = [r \in MeterReading |-> Seen(s, r)]
      /\ meterReq' = [meterReq EXCEPT ![s] = MeterIdle] /\ RequestInv(s) /\ FiguresInv(s)
  BY DEF CommitReading, PlacesInv, LastInv
<1>2. meterReq[s].around = {}
  BY <1>1 DEF RequestInv, AtWorkOn, WayInv
<1>3. \A g \in Current(s) : Figured(s, g)
  BY <1>1, <1>2 DEF FiguresInv, AtWorkOn, Due
<1>4. FiguredFromLast'
  BY <1>1, <1>3, SeenAsFigured
<1>5. \A u \in Person : FiguresInv(u)'
  BY <1>1, LeavesIdle
<1>6. QED
  BY <1>4, <1>5 DEF LastInv

\* What is given up leaves the table as it was.
LEMMA RollbackReadingFigures ==
  ASSUME PlacesInv, LastInv, OneRequest, OneRequest', NEW s \in Person, RollbackReading(s)
  PROVE  LastInv'
<1>1. meterReq[s].pc # "idle" /\ meterReq' = [meterReq EXCEPT ![s] = MeterIdle] /\ table' = table
  BY DEF RollbackReading
<1>2. \A u \in Person : FiguresInv(u)'
  BY <1>1, LeavesIdle
<1>3. FiguredFromLast'
  BY <1>1 DEF LastInv, FiguredFromLast, InUse, Before
<1>4. QED
  BY <1>2, <1>3 DEF LastInv

\* Every step of one request at a time, typing in order, keeps the readings figured.
LEMMA LastStep ==
  ASSUME PlacesInv, PlacesInv', LastInv, OneRequest, OneRequest', InOrder, [MeterNext]_meterVars
  PROVE  LastInv'
<1>1. ASSUME NEW s \in Person, MeterStep(s) PROVE LastInv'
  BY <1>1, TypeReadingFigures, SaveReadingFigures, VoidReadingFigures, CorrectReadingFigures,
     FigureNewFigures, FollowFigures, LookEarlierFigures, RefigureFigures, LooksAtMonthsFigures,
     CommitReadingFigures, RollbackReadingFigures DEF MeterStep
<1>2. CASE UNCHANGED meterVars
  <2>1. table' = table /\ meterReq' = meterReq
    BY <1>2 DEF meterVars
  <2>2. FiguredFromLast'
    BY <2>1 DEF LastInv, FiguredFromLast, InUse, Before
  <2>3. ASSUME NEW s \in Person PROVE FiguresInv(s)'
    <3>1. FiguresInv(s)
      BY DEF LastInv
    <3>2. Pending(s)' = Pending(s)
      BY <2>1 DEF Pending
    <3>3. /\ Current(s)' = Current(s) /\ \A r : Seen(s, r)' = Seen(s, r)
          /\ \A r : FirstAfter(s, Seen(s, r).day)' = FirstAfter(s, Seen(s, r).day)
          /\ \A r : LastBefore(s, Seen(s, r).day)' = LastBefore(s, Seen(s, r).day)
      BY <2>1, <3>2, SameChanges
    <3>4. \A r : (Figured(s, r) => Figured(s, r)') /\ (Due(s, r) => Due(s, r)')
      BY <2>1, <3>3 DEF Figured, OrNone, Due
    <3>5. (AtWorkOn(s) => \A r \in Current(s) : Figured(s, r) \/ Due(s, r))'
      BY <3>1, <3>3, <3>4, <2>1 DEF FiguresInv, AtWorkOn
    <3>6. (meterReq[s].pc = "update" =>
             meterReq[s].from \in OrNone(LastBefore(s, Seen(s, meterReq[s].follow).day)))'
      BY <3>1, <3>3, <2>1 DEF FiguresInv, OrNone, LastBefore
    <3>7. (meterReq[s].pc = "typed" =>
             /\ \A q \in InUse : table[q].day < meterReq[s].day
             /\ meterReq[s].from \in OrNone(LastBefore(s, meterReq[s].day)))'
      BY <3>1, <3>3, <2>1 DEF FiguresInv, OrNone, LastBefore, InUse
    <3>8. QED
      BY <3>5, <3>6, <3>7 DEF FiguresInv
  <2>4. QED
    BY <2>2, <2>3 DEF LastInv
<1>3. QED
  BY <1>1, <1>2 DEF MeterNext

\* A meter read in order is figured.
LEMMA LastStart == ASSUME MeterInit PROVE LastInv
<1>1. PICK n \in 0 .. NMeterDays :
        /\ n <= NMeterReadings
        /\ table = [r \in MeterReading |->
             IF r <= n
             THEN [state |-> "current", day |-> r, from |-> r - 1, replaces |-> NoReading]
             ELSE UnusedReading]
  BY DEF MeterInit
<1>2. MeterReading = 1 .. NMeterReadings /\ NoReading = 0 /\ n \in Nat
  BY <1>1, MeterBoundsAssumption DEF MeterReading, NoReading
<1>3. \A r \in MeterReading : r <= n =>
        table[r].state = "current" /\ table[r].day = r /\ table[r].from = r - 1
  BY <1>1
<1>4. \A r \in MeterReading : ~(r <= n) => table[r].state = "unused"
  BY <1>1 DEF UnusedReading
<1>5. \A r : r \in InUse <=> r \in MeterReading /\ r <= n
  BY <1>3, <1>4 DEF InUse
<1>6. ASSUME NEW r \in InUse
      PROVE  IF Before(r) = {} THEN table[r].from = NoReading
             ELSE /\ table[r].from \in Before(r)
                  /\ \A q \in Before(r) : table[q].day <= table[table[r].from].day
  <2>1. r \in Nat /\ 1 <= r /\ r <= n /\ r <= NMeterReadings /\ table[r].day = r
        /\ table[r].from = r - 1
    BY <1>2, <1>3, <1>5, <1>6, MeterBoundsAssumption
  <2>2. \A q \in Before(r) : q \in Nat /\ 1 <= q /\ q < r /\ table[q].day = q
    BY <2>1, <1>2, <1>3, <1>5 DEF Before
  <2>3. CASE r = 1
    BY <2>1, <2>2, <2>3, <1>2
  <2>4. CASE r # 1
    <3>1. r - 1 \in Nat /\ 1 <= r - 1 /\ r - 1 <= n /\ r - 1 \in MeterReading
      BY <2>1, <2>4, <1>2, MeterBoundsAssumption
    <3>2. r - 1 \in InUse /\ table[r - 1].day = r - 1
      BY <3>1, <1>3, <1>5
    <3>3. r - 1 \in Before(r)
      BY <3>2, <2>1 DEF Before
    <3>4. QED
      BY <2>1, <2>2, <3>2, <3>3
  <2>5. QED
    BY <2>3, <2>4
<1>7. FiguredFromLast
  BY <1>6 DEF FiguredFromLast
<1>8. \A s \in Person : meterReq[s].pc = "idle"
  BY DEF MeterInit, MeterIdle
<1>9. QED
  BY <1>7, <1>8 DEF LastInv, FiguresInv, AtWorkOn

\* Readings typed in order and voided and corrected by one person at a time are each figured
\* from the last reading in use before it, whatever was voided or moved to another day: no
\* water is counted twice and none is lost (_meter_reading_on_void, _meter_reading_on_correct).
THEOREM FiguredFromLastStays ==
  ASSUME InOrder
  PROVE  MeterSpec /\ []OneRequest => []FiguredFromLast
<1>1. MeterInit => LastInv
  BY LastStart
<1>2. PlacesInv /\ PlacesInv' /\ LastInv /\ OneRequest /\ OneRequest' /\ [MeterNext]_meterVars
        => LastInv'
  BY LastStep
<1>3. LastInv => FiguredFromLast
  BY DEF LastInv
<1>4. QED
  BY <1>1, <1>2, <1>3, PlacesAlways, PTL DEF MeterSpec

-----------------------------------------------------------------------------
(* The water of a set of events: a sum over a finite set *)

\* A function that adds up the water of every set of D.
AddsVolumes(g, D, ev) ==
  \A S \in D : g[S] = IF S = {} THEN 0 ELSE ev[One(S)].volume + g[S \ {One(S)}]

SameVolumes(S, ev, ew) == \A e \in S : ev[e].volume = ew[e].volume

Water(ev, S) == MapThenSumSet(LAMBDA e : ev[e].volume, S)

\* The subsets of a finite set can be added up.
LEMMA VolumesAdd ==
  ASSUME NEW S, IsFiniteSet(S), NEW ev, \A e \in S : ev[e].volume \in Nat
  PROVE  \E g \in [SUBSET S -> Nat] : AddsVolumes(g, SUBSET S, ev)
<1> DEFINE D(n) == {R \in SUBSET S : Cardinality(R) <= n}
           Bad == {n \in Nat : ~\E g \in [D(n) -> Nat] : AddsVolumes(g, D(n), ev)}
<1>1. \A R \in SUBSET S : IsFiniteSet(R) /\ Cardinality(R) \in Nat
  BY FS_Subset, FS_CardinalityType
<1>2. ASSUME NEW m \in Bad, \A n \in Bad : m <= n PROVE FALSE
  <2>1. m # 0
    <3> SUFFICES \E g \in [D(0) -> Nat] : AddsVolumes(g, D(0), ev)
      OBVIOUS
    <3> DEFINE g == [R \in D(0) |-> 0]
    <3>1. \A R \in D(0) : R = {}
      BY <1>1, FS_EmptySet
    <3>2. g \in [D(0) -> Nat] /\ AddsVolumes(g, D(0), ev)
      BY <3>1 DEF AddsVolumes
    <3>3. QED
      BY <3>2
  <2>2. m - 1 \in Nat /\ m - 1 \notin Bad
    <3>1. m \in Nat
      OBVIOUS
    <3>2. m - 1 \in Nat /\ ~(m <= m - 1)
      BY <3>1, <2>1
    <3> HIDE DEF Bad
    <3>3. QED
      BY <3>2, <1>2
  <2>3. PICK g \in [D(m - 1) -> Nat] : AddsVolumes(g, D(m - 1), ev)
    BY <2>2
  <2>4. ASSUME NEW R \in D(m), R # {}
        PROVE  R \ {One(R)} \in D(m - 1) /\ One(R) \in S
    <3>1. One(R) \in R
      BY <2>4, OneIsIn
    <3>2. Cardinality(R \ {One(R)}) = Cardinality(R) - 1 /\ Cardinality(R) \in Nat
      BY <3>1, <1>1, OneLess
    <3>3. QED
      BY <3>1, <3>2
  <2> DEFINE h == [R \in D(m) |-> IF R = {} THEN 0 ELSE ev[One(R)].volume + g[R \ {One(R)}]]
  <2>5. h \in [D(m) -> Nat]
    BY <2>4
  <2>6. D(m - 1) \subseteq D(m)
    BY <1>1
  <2>7. \A R \in D(m - 1) : h[R] = g[R]
    <3> SUFFICES ASSUME NEW R \in D(m - 1) PROVE h[R] = g[R]
      OBVIOUS
    <3>1. g[R] = IF R = {} THEN 0 ELSE ev[One(R)].volume + g[R \ {One(R)}]
      <4> HIDE DEF D
      <4> QED
        BY <2>3 DEF AddsVolumes
    <3>2. R \in D(m)
      BY <2>6
    <3>3. QED
      BY <3>1, <3>2
  <2>8. AddsVolumes(h, D(m), ev)
    <3> SUFFICES ASSUME NEW R \in D(m)
                 PROVE  h[R] = IF R = {} THEN 0 ELSE ev[One(R)].volume + h[R \ {One(R)}]
      BY DEF AddsVolumes
    <3>1. R # {} => h[R \ {One(R)}] = g[R \ {One(R)}]
      BY <2>4, <2>7
    <3>2. h[R] = IF R = {} THEN 0 ELSE ev[One(R)].volume + g[R \ {One(R)}]
      OBVIOUS
    <3> HIDE DEF h, D
    <3>3. QED
      BY <3>1, <3>2
  <2>9. QED
    BY <2>5, <2>8
<1>3. Bad = {}
  <2>1. Bad \subseteq Nat
    OBVIOUS
  <2> HIDE DEF Bad
  <2>2. QED
    BY <2>1, <1>2, LeastOfNats
<1>4. Cardinality(S) \in Nat /\ \A R \in SUBSET S : Cardinality(R) <= Cardinality(S)
  BY FS_Subset, FS_CardinalityType
<1>5. D(Cardinality(S)) = SUBSET S
  BY <1>4
<1>6. Cardinality(S) \notin Bad
  BY <1>3
<1> HIDE DEF D
<1>7. QED
  BY <1>4, <1>5, <1>6

\* In one way, for a smaller set too, whatever the events of it are but for their volumes.
LEMMA VolumesAddAlike ==
  ASSUME NEW S, IsFiniteSet(S), NEW R, NEW ev, NEW ew, SameVolumes(R, ev, ew), R \subseteq S,
         NEW g, NEW h, AddsVolumes(g, SUBSET S, ev), AddsVolumes(h, SUBSET R, ew)
  PROVE  \A T \in SUBSET R : g[T] = h[T]
<1> DEFINE Bad == {Cardinality(T) : T \in {U \in SUBSET R : g[U] # h[U]}}
<1>1. \A T \in SUBSET R : IsFiniteSet(T) /\ Cardinality(T) \in Nat
  BY FS_Subset, FS_CardinalityType
<1>2. ASSUME NEW m \in Bad, \A n \in Bad : m <= n PROVE FALSE
  <2>1. PICK T \in SUBSET R : g[T] # h[T] /\ m = Cardinality(T)
    OBVIOUS
  <2>2. /\ g[T] = IF T = {} THEN 0 ELSE ev[One(T)].volume + g[T \ {One(T)}]
        /\ h[T] = IF T = {} THEN 0 ELSE ew[One(T)].volume + h[T \ {One(T)}]
    <3>1. T \in SUBSET S
      OBVIOUS
    <3>2. QED
      BY <3>1 DEF AddsVolumes
  <2>3. T # {}
    BY <2>1, <2>2
  <2>4. One(T) \in T /\ T \ {One(T)} \in SUBSET R
    BY <2>3, OneIsIn
  <2>5. g[T \ {One(T)}] # h[T \ {One(T)}]
    BY <2>1, <2>2, <2>3, <2>4 DEF SameVolumes
  <2>6. Cardinality(T \ {One(T)}) \in Bad
    BY <2>4, <2>5
  <2>7. m \in Nat /\ Cardinality(T \ {One(T)}) = m - 1
    BY <2>1, <2>4, <1>1, OneLess
  <2>8. m <= m - 1
    BY <2>6, <2>7, <1>2
  <2>9. QED
    BY <2>7, <2>8
<1>3. Bad = {}
  <2>1. Bad \subseteq Nat
    BY <1>1
  <2> HIDE DEF Bad
  <2>2. QED
    BY <2>1, <1>2, LeastOfNats
<1>4. QED
  BY <1>3

\* The water of a set is what adding up its subsets gives for it.
LEMMA WaterIsAdded ==
  ASSUME NEW S, IsFiniteSet(S), NEW ev, \A e \in S : ev[e].volume \in Nat
  PROVE  \E g \in [SUBSET S -> Nat] : AddsVolumes(g, SUBSET S, ev) /\ Water(ev, S) = g[S]
<1> DEFINE Is(it) == it = [R \in SUBSET S |->
                 IF R = {} THEN 0
                 ELSE ev[CHOOSE x \in R : TRUE].volume + it[R \ {CHOOSE x \in R : TRUE}]]
           h == CHOOSE it : Is(it)
<1>1. PICK f \in [SUBSET S -> Nat] : AddsVolumes(f, SUBSET S, ev)
  BY VolumesAdd
<1>2. Is(f)
  BY <1>1 DEF AddsVolumes, One
<1>3. Is(h)
  BY <1>2
<1>4. AddsVolumes(h, SUBSET S, ev)
  BY <1>3 DEF AddsVolumes, One
<1>5. Water(ev, S) = h[S]
  BY DEF Water, MapThenSumSet, MapThenFoldSet
<1> HIDE DEF h
<1>6. \A T \in SUBSET S : f[T] = h[T]
  <2>1. SameVolumes(S, ev, ev) /\ S \subseteq S
    BY DEF SameVolumes
  <2>2. QED
    BY <1>1, <1>4, <2>1, VolumesAddAlike
<1>7. S \in SUBSET S
  OBVIOUS
<1>8. QED
  BY <1>1, <1>5, <1>6, <1>7

\* Water is a volume, and none for no events.
LEMMA WaterIsVolume ==
  ASSUME NEW S, IsFiniteSet(S), NEW ev, \A e \in S : ev[e].volume \in Nat
  PROVE  Water(ev, S) \in Nat /\ (S = {} => Water(ev, S) = 0)
<1>1. PICK g \in [SUBSET S -> Nat] : AddsVolumes(g, SUBSET S, ev) /\ Water(ev, S) = g[S]
  BY WaterIsAdded
<1>2. S \in SUBSET S
  OBVIOUS
<1>3. QED
  BY ZenonT(60), <1>1, <1>2 DEF AddsVolumes

\* It depends on the volumes of the events only.
LEMMA WaterAlike ==
  ASSUME NEW S, IsFiniteSet(S), NEW ev, NEW ew, \A e \in S : ev[e].volume \in Nat,
         SameVolumes(S, ev, ew)
  PROVE  Water(ev, S) = Water(ew, S)
<1>1. PICK g \in [SUBSET S -> Nat] : AddsVolumes(g, SUBSET S, ev) /\ Water(ev, S) = g[S]
  BY WaterIsAdded
<1>2. PICK h \in [SUBSET S -> Nat] : AddsVolumes(h, SUBSET S, ew) /\ Water(ew, S) = h[S]
  <2>1. \A e \in S : ew[e].volume \in Nat
    BY DEF SameVolumes
  <2>2. QED
    BY <2>1, WaterIsAdded
<1>3. S \in SUBSET S
  OBVIOUS
<1>4. \A T \in SUBSET S : g[T] = h[T]
  <2>1. AddsVolumes(g, SUBSET S, ev) /\ AddsVolumes(h, SUBSET S, ew) /\ S \subseteq S
    BY <1>1, <1>2
  <2>2. QED
    BY <2>1, VolumesAddAlike
<1>5. QED
  BY <1>1, <1>2, <1>3, <1>4

\* Without the one a sum takes first it is that one's volume less.
LEMMA WaterOfFirst ==
  ASSUME NEW S, IsFiniteSet(S), S # {}, NEW ev, \A e \in S : ev[e].volume \in Nat
  PROVE  Water(ev, S) = ev[One(S)].volume + Water(ev, S \ {One(S)})
<1> DEFINE R == S \ {One(S)}
<1>1. One(S) \in S /\ R \in SUBSET S /\ S \in SUBSET S /\ IsFiniteSet(R)
  BY OneIsIn, FS_RemoveElement
<1>2. PICK g \in [SUBSET S -> Nat] : AddsVolumes(g, SUBSET S, ev) /\ Water(ev, S) = g[S]
  BY WaterIsAdded
<1>3. PICK h \in [SUBSET R -> Nat] : AddsVolumes(h, SUBSET R, ev) /\ Water(ev, R) = h[R]
  BY <1>1, WaterIsAdded
<1>4. g[R] = h[R]
  <2>1. R \in SUBSET R
    OBVIOUS
  <2> HIDE DEF R
  <2>2. \A T \in SUBSET R : g[T] = h[T]
    <3>1. AddsVolumes(g, SUBSET S, ev) /\ AddsVolumes(h, SUBSET R, ev)
      BY <1>2, <1>3
    <3>2. SameVolumes(R, ev, ev) /\ R \subseteq S
      BY <1>1 DEF SameVolumes
    <3>3. QED
      BY <1>1, <3>1, <3>2, VolumesAddAlike
  <2>3. QED
    BY <2>1, <2>2
<1>5. g[S] = ev[One(S)].volume + g[R]
  BY <1>1, <1>2 DEF AddsVolumes
<1>6. QED
  BY <1>2, <1>3, <1>4, <1>5

\* Without any other one too: the order does not matter.
LEMMA WaterWithout ==
  ASSUME NEW A, IsFiniteSet(A), NEW ev, \A e \in A : ev[e].volume \in Nat, NEW x \in A
  PROVE  Water(ev, A) = ev[x].volume + Water(ev, A \ {x})
<1> DEFINE Fails(S) == \E y \in S : Water(ev, S) # ev[y].volume + Water(ev, S \ {y})
           Bad == {Cardinality(S) : S \in {T \in SUBSET A : Fails(T)}}
<1>1. \A S \in SUBSET A : IsFiniteSet(S) /\ Cardinality(S) \in Nat
                          /\ (\A e \in S : ev[e].volume \in Nat) /\ Water(ev, S) \in Nat
  BY FS_Subset, FS_CardinalityType, WaterIsVolume
<1>2. ASSUME NEW m \in Bad, \A n \in Bad : m <= n PROVE FALSE
  <2>1. PICK S \in SUBSET A : Fails(S) /\ m = Cardinality(S)
    OBVIOUS
  <2>2. PICK y \in S : Water(ev, S) # ev[y].volume + Water(ev, S \ {y})
    BY <2>1
  <2> DEFINE c == One(S)
  <2>3. c \in S /\ Water(ev, S) = ev[c].volume + Water(ev, S \ {c})
    BY <2>2, <1>1, OneIsIn, WaterOfFirst
  <2>4. y # c
    BY <2>2, <2>3
  <2> HIDE DEF c
  <2>5. ASSUME NEW z \in S PROVE ~Fails(S \ {z})
    <3>1. m \in Nat /\ Cardinality(S \ {z}) = m - 1
      BY <2>1, <1>1, OneLess
    <3>2. ~(m <= m - 1)
      BY <3>1
    <3>3. Cardinality(S \ {z}) \notin Bad
      BY <3>1, <3>2, <1>2
    <3>4. S \ {z} \in SUBSET A
      OBVIOUS
    <3> HIDE DEF Fails
    <3>5. QED
      BY <3>3, <3>4
  <2>6. Water(ev, S \ {c}) = ev[y].volume + Water(ev, (S \ {c}) \ {y})
    <3>1. y \in S \ {c}
      BY <2>4
    <3>2. QED
      BY <2>3, <2>5, <3>1
  <2>7. Water(ev, S \ {y}) = ev[c].volume + Water(ev, (S \ {y}) \ {c})
    <3>1. c \in S \ {y}
      BY <2>3, <2>4
    <3>2. QED
      BY <2>5, <3>1
  <2>8. (S \ {c}) \ {y} = (S \ {y}) \ {c}
    OBVIOUS
  <2>9. /\ Water(ev, (S \ {y}) \ {c}) \in Nat /\ ev[y].volume \in Nat /\ ev[c].volume \in Nat
    <3>1. (S \ {y}) \ {c} \in SUBSET A
      OBVIOUS
    <3>2. QED
      BY <3>1, <1>1, <2>3
  <2>10. Water(ev, S) = ev[y].volume + Water(ev, S \ {y})
    <3> HIDE DEF Bad, Fails
    <3>1. /\ Water(ev, S \ {c}) = ev[y].volume + Water(ev, (S \ {y}) \ {c})
          /\ Water(ev, S \ {y}) = ev[c].volume + Water(ev, (S \ {y}) \ {c})
      BY <2>6, <2>7, <2>8
    <3>2. QED
      BY <3>1, <2>3, <2>9
  <2>11. QED
    BY <2>2, <2>10
<1>3. Bad = {}
  <2>1. Bad \subseteq Nat
    BY <1>1
  <2> HIDE DEF Bad
  <2>2. QED
    BY <2>1, <1>2, LeastOfNats
<1>4. ~Fails(A)
  <2>1. A \in SUBSET A
    OBVIOUS
  <2> HIDE DEF Fails
  <2>2. QED
    BY <1>3, <2>1
<1>5. QED
  BY <1>4

-----------------------------------------------------------------------------
(* Recharge events: the inductive invariant *)

\* A row an event was saved with.
Given(row) == row.state # "unused" /\ row.volume \in Volume /\ row.year \in Year

\* The requests that change an event take back what it put in.
Changing(s) == eventReq[s].pc \in {"takeback", "save", "putin", "commit"}
Logging(s) == eventReq[s].pc \in {"deposit", "credit"}

\* What a request works with.
HasInv(s) ==
  /\ eventReq[s].pc = "idle" => eventReq[s] = EventIdle
  /\ Logging(s) => eventReq[s].for \in Event /\ eventReq[s].new = 0 /\ Given(eventReq[s].now)
  /\ Changing(s) =>
       /\ eventReq[s].for \in Event /\ Given(eventReq[s].was)
       /\ eventReq[s].new # 0 => Given(eventReq[s].now)
       /\ eventReq[s].pc \in {"save", "putin"} => eventReq[s].new # 0
       /\ eventReq[s].pc = "save" => eventReq[s].new = eventReq[s].for
  /\ \A e \in DOMAIN eventReq[s].events : Given(eventReq[s].events[e])

GivenInv ==
  /\ \A e \in Event : event[e].state = "unused" \/ Given(event[e])
  /\ \A s \in Session : HasInv(s)

TypesInv == RechargeTypeOK /\ GivenInv

\* The events a request is at work on.
Of(s) == {eventReq[s].for, eventReq[s].new} \ {0}

\* Before anything is put in under an event nothing stands under its key.
UnusedInv == \A e \in Event : event[e].state = "unused" => put[e] = Nowhere /\ credit[e] = {}

\* No two requests are at work on one event, or hold one pool.
ApartInv ==
  \A s, u \in Session : s # u =>
    Of(s) \cap Of(u) = {} /\ DOMAIN eventReq[s].pools \cap DOMAIN eventReq[u].pools = {}

\* A request that logs an event: what it has committed so far.
LogInv(s) ==
  LET r == eventReq[s] IN
  /\ event[r.for] = r.now /\ r.now.state = "current" /\ credit[r.for] = {}
  /\ r.site.zone \in Zone /\ put[r.for] = IF r.pc = "deposit" THEN Nowhere ELSE r.site
  /\ DOMAIN r.events = {} /\ DOMAIN r.pools = {}

\* The rows a request that changes an event has marked and written.
RowsInv(s) ==
  LET r == eventReq[s] IN
  /\ event[r.for] = r.was /\ r.was.state = "current"
  /\ r.new # 0 => r.now.state = "current"
  /\ r.new \notin {0, r.for} => event[r.new].state = "unused"
  /\ DOMAIN r.events =
       IF r.new # r.for THEN Of(s) ELSE IF r.pc \in {"putin", "commit"} THEN {r.for} ELSE {}
  /\ r.new # r.for => r.events[r.for].state # "current"
  /\ r.new \in DOMAIN r.events => r.events[r.new] = r.now

\* The credits and places it has taken away and given.
PlacesGivenInv(s) ==
  LET r == eventReq[s] IN
  /\ DOMAIN r.puts \subseteq Of(s) /\ DOMAIN r.credits \subseteq Of(s)
  /\ r.pc # "takeback" => r.for \in DOMAIN r.puts \cap DOMAIN r.credits
  /\ r.pc # "takeback" /\ (r.pc # "commit" \/ r.new # r.for) =>
       r.puts[r.for] = Nowhere /\ r.credits[r.for] = {}
  /\ r.pc = "commit" /\ r.new # 0 =>
       Over(credit, r.credits)[r.new] = CreditOf(r.now, Over(put, r.puts)[r.new])
  /\ r.pc # "commit" /\ r.new # r.for => r.new \notin DOMAIN r.puts \cup DOMAIN r.credits

\* The water it takes out of a pool and puts into one.
Left(s, p) ==
  LET r == eventReq[s] IN
  IF r.pc # "takeback" /\ <<put[r.for].zone, r.was.year>> = p THEN r.was.volume ELSE 0
Joined(s, p) ==
  LET r == eventReq[s] IN
  IF r.pc = "commit" /\ r.new # 0 /\ <<Over(put, r.puts)[r.new].zone, r.now.year>> = p
  THEN r.now.volume ELSE 0
PoolsInv(s) ==
  \A p \in Pool : Over(pool, eventReq[s].pools)[p] = pool[p] - Left(s, p) + Joined(s, p)

WorkInv(s) ==
  /\ Logging(s) => LogInv(s)
  /\ Changing(s) => RowsInv(s) /\ PlacesGivenInv(s) /\ PoolsInv(s)

BooksInv ==
  /\ \A p \in Pool : pool[p] = PutInFor(p)
  /\ \A e \in Event : Credited(e) =>
       credit[e] = IF event[e].state = "current" THEN CreditOf(event[e], put[e]) ELSE {}

\* What holds of a state that nothing led astray.
InOrderInv == UnusedInv /\ ApartInv /\ (\A s \in Session : WorkInv(s)) /\ BooksInv

PoolInv == TypesInv /\ (~astray => InOrderInv)
-----------------------------------------------------------------------------
(* Types of events and their requests *)

\* One row more is changed.
LEMMA ChangeMore ==
  ASSUME NEW keys, NEW rows, NEW ch, IsChanges(ch, keys, rows), NEW k \in keys, NEW row \in rows
  PROVE  IsChanges(With(ch, k, row), keys, rows)
BY DEF With, IsChanges

\* Changes laid over a table.
LEMMA OverIs ==
  ASSUME NEW keys, NEW rows, NEW tab \in [keys -> rows], NEW ch, IsChanges(ch, keys, rows)
  PROVE  /\ Over(tab, ch) \in [keys -> rows]
         /\ \A k \in keys : Over(tab, ch)[k] = IF k \in DOMAIN ch THEN ch[k] ELSE tab[k]
BY DEF Over, IsChanges

\* What an event is given.
LEMMA FigureGiven ==
  ASSUME NEW f \in Figure
  PROVE  /\ Counts(f) \in EventRow /\ Given(Counts(f)) /\ Counts(f).state = "current"
BY DEF Counts, EventRow, Given, Volume, Year

\* Zero is no event, volumes and years are numbers, and nobody is no zone and no account.
LEMMA NumbersOfEvents ==
  /\ 0 \notin Event /\ Volume \subseteq Nat /\ Year \subseteq Nat /\ IsFiniteSet(Event)
  /\ Nobody \notin Zone /\ Nobody \notin Account
<1>1. Volume \subseteq Nat /\ Year \subseteq Nat
  BY EventsAssumption DEF Volume, Year
<1>2. IsFiniteSet(Event)
  BY EventsAssumption, FS_Interval DEF Event
<1>3. QED
  BY <1>1, <1>2, EventsAssumption, NobodyAssumption DEF Event

\* No request, with no changes.
LEMMA EventIdleIsRequest ==
  /\ IsRechargeRequest(EventIdle) /\ EventIdle.pc = "idle" /\ EventIdle.for = 0
  /\ EventIdle.new = 0 /\ EventIdle.looked = FALSE /\ EventIdle.events = Nothing
  /\ EventIdle.pools = Nothing /\ EventIdle.credits = Nothing /\ EventIdle.puts = Nothing
<1>1. /\ IsChanges(Nothing, Event, EventRow) /\ IsChanges(Nothing, Pool, Int)
      /\ IsChanges(Nothing, Event, SUBSET Credit) /\ IsChanges(Nothing, Event, Site)
  BY NothingIsChanges
<1>2. NoEvent \in EventRow /\ Nowhere \in Site
  BY DEF NoEvent, EventRow, Nowhere, Site
<1> HIDE DEF Nothing
<1>3. EventIdle \in [pc : EventPC, for : Event \cup {0}, new : Event \cup {0},
        was : EventRow, now : EventRow, site : Site, looked : BOOLEAN,
        events : {Nothing}, pools : {Nothing}, credits : {Nothing}, puts : {Nothing}]
  BY <1>2 DEF EventIdle, EventPC
<1>4. /\ EventIdle.pc = "idle" /\ EventIdle.for = 0 /\ EventIdle.new = 0
      /\ EventIdle.looked = FALSE /\ EventIdle.events = Nothing /\ EventIdle.pools = Nothing
      /\ EventIdle.credits = Nothing /\ EventIdle.puts = Nothing
  BY DEF EventIdle
<1>5. QED
  BY <1>1, <1>3, <1>4 DEF IsRechargeRequest

\* A step of one request.
LEMMA OneMoves ==
  ASSUME RechargeTypeOK, NEW s \in Session, NEW X, eventReq' = [eventReq EXCEPT ![s] = X]
  PROVE  /\ eventReq'[s] = X /\ \A u \in Session \ {s} : eventReq'[u] = eventReq[u]
         /\ eventReq' = [u \in Session |-> eventReq'[u]]
BY DEF RechargeTypeOK

\* A step of one request keeps the types when its request and the tables have theirs.
LEMMA RequestsTyped ==
  ASSUME TypesInv, NEW s \in Session, NEW X, IsRechargeRequest(X),
         eventReq' = [eventReq EXCEPT ![s] = X], HasInv(s)',
         event' \in [Event -> EventRow], site' \in Site, pool' \in [Pool -> Int],
         credit' \in [Event -> SUBSET Credit], put' \in [Event -> Site],
         moves' \in 0 .. MaxMoves, astray' \in BOOLEAN,
         \A e \in Event : event'[e].state = "unused" \/ Given(event'[e])
  PROVE  TypesInv'
<1>1. /\ eventReq'[s] = X /\ \A u \in Session \ {s} : eventReq'[u] = eventReq[u]
      /\ eventReq' = [u \in Session |-> eventReq'[u]]
  BY OneMoves DEF TypesInv
<1>2. \A u \in Session : IsRechargeRequest(eventReq'[u])
  BY <1>1 DEF TypesInv, RechargeTypeOK
<1>3. ASSUME NEW u \in Session PROVE HasInv(u)'
  <2>1. CASE u = s
    BY <2>1
  <2>2. CASE u # s
    <3>1. eventReq'[u] = eventReq[u] /\ HasInv(u)
      BY <1>1, <2>2 DEF TypesInv, GivenInv
    <3>2. QED
      BY <3>1 DEF HasInv, Logging, Changing
  <2>3. QED
    BY <2>1, <2>2
<1>4. RechargeTypeOK'
  BY <1>1, <1>2 DEF RechargeTypeOK
<1>5. GivenInv'
  BY <1>3 DEF GivenInv
<1>6. QED
  BY <1>4, <1>5 DEF TypesInv

\* The same where the tables keep.
LEMMA TablesKept ==
  ASSUME TypesInv, NEW s \in Session, NEW X, IsRechargeRequest(X),
         eventReq' = [eventReq EXCEPT ![s] = X], HasInv(s)', astray' \in BOOLEAN,
         event' = event, site' = site, pool' = pool, credit' = credit, put' = put, moves' = moves
  PROVE  TypesInv'
<1>1. /\ event' \in [Event -> EventRow] /\ site' \in Site /\ pool' \in [Pool -> Int]
      /\ credit' \in [Event -> SUBSET Credit] /\ put' \in [Event -> Site]
      /\ moves' \in 0 .. MaxMoves
      /\ \A e \in Event : event'[e].state = "unused" \/ Given(event'[e])
  BY DEF TypesInv, RechargeTypeOK, GivenInv
<1>2. QED
  BY <1>1, RequestsTyped

\* A request that ends is idle and has nothing.
LEMMA IdleHas ==
  ASSUME RechargeTypeOK, NEW s \in Session, eventReq' = [eventReq EXCEPT ![s] = EventIdle]
  PROVE  eventReq'[s] = EventIdle /\ HasInv(s)' /\ ~Logging(s)' /\ ~Changing(s)'
         /\ Of(s)' = {} /\ DOMAIN eventReq'[s].pools = {}
<1>1. eventReq'[s] = EventIdle
  BY OneMoves
<1>2. EventIdle.pc = "idle" /\ DOMAIN EventIdle.events = {} /\ DOMAIN EventIdle.pools = {}
      /\ EventIdle.for = 0 /\ EventIdle.new = 0
  BY EventIdleIsRequest, NothingIsChanges
<1>3. QED
  BY <1>1, <1>2 DEF HasInv, Logging, Changing, Of

\* The fields of a request.
LEMMA RequestHas ==
  ASSUME TypesInv, NEW s \in Session
  PROVE  /\ IsRechargeRequest(eventReq[s]) /\ HasInv(s)
         /\ eventReq[s].for \in Event \cup {0} /\ eventReq[s].new \in Event \cup {0}
         /\ eventReq[s].was \in EventRow /\ eventReq[s].now \in EventRow
         /\ eventReq[s].site \in Site
         /\ IsChanges(eventReq[s].events, Event, EventRow)
         /\ IsChanges(eventReq[s].pools, Pool, Int)
         /\ IsChanges(eventReq[s].credits, Event, SUBSET Credit)
         /\ IsChanges(eventReq[s].puts, Event, Site)
<1>1. IsRechargeRequest(eventReq[s]) /\ HasInv(s)
  BY DEF TypesInv, RechargeTypeOK, GivenInv
<1>2. QED
  BY <1>1 DEF IsRechargeRequest

\* Logging an event keeps the types.
LEMMA LogTyped ==
  ASSUME TypesInv, NEW s \in Session, NEW row \in EventRow, Given(row), Log(s, row)
  PROVE  TypesInv'
<1>1. PICK e \in NewEvent :
        /\ event' = [event EXCEPT ![e] = row]
        /\ eventReq' = [eventReq EXCEPT ![s] =
             IF site.zone = Nobody THEN EventIdle
             ELSE [EventIdle EXCEPT !.pc = "deposit", !.for = e, !.now = row, !.site = site]]
  BY DEF Log
<1>2. UNCHANGED <<site, pool, credit, moves, put, astray>>
  BY DEF Log
<1>3. e \in Event /\ RechargeTypeOK /\ GivenInv
  BY DEF NewEvent, TypesInv
<1>4. /\ event' \in [Event -> EventRow]
      /\ \A x \in Event : event'[x].state = "unused" \/ Given(event'[x])
  BY <1>1, <1>3 DEF RechargeTypeOK, GivenInv
<1>5. /\ site' \in Site /\ pool' \in [Pool -> Int] /\ credit' \in [Event -> SUBSET Credit]
      /\ put' \in [Event -> Site] /\ moves' \in 0 .. MaxMoves /\ astray' \in BOOLEAN
  BY <1>2, <1>3 DEF RechargeTypeOK
<1>6. CASE site.zone = Nobody
  <2>1. eventReq' = [eventReq EXCEPT ![s] = EventIdle]
    BY <1>1, <1>6
  <2>2. HasInv(s)' /\ IsRechargeRequest(EventIdle)
    BY <2>1, <1>3, IdleHas, EventIdleIsRequest
  <2>3. QED
    BY <2>1, <2>2, <1>4, <1>5, RequestsTyped
<1>7. CASE site.zone # Nobody
  <2> DEFINE X == [EventIdle EXCEPT !.pc = "deposit", !.for = e, !.now = row, !.site = site]
  <2>1. eventReq' = [eventReq EXCEPT ![s] = X]
    BY <1>1, <1>7
  <2>2. IsRechargeRequest(X)
    <3>1. X.events = Nothing /\ X.pools = Nothing /\ X.credits = Nothing /\ X.puts = Nothing
      BY DEF EventIdle
    <3>2. X \in [pc : EventPC, for : Event \cup {0}, new : Event \cup {0},
            was : EventRow, now : EventRow, site : Site, looked : BOOLEAN,
            events : {X.events}, pools : {X.pools}, credits : {X.credits}, puts : {X.puts}]
      BY <1>3, EventIdleIsRequest DEF IsRechargeRequest, RechargeTypeOK, EventPC
    <3> HIDE DEF X
    <3>3. QED
      BY <3>1, <3>2, NothingIsChanges DEF IsRechargeRequest
  <2>3. /\ X.pc = "deposit" /\ X.for = e /\ X.new = 0 /\ X.now = row /\ X.events = Nothing
    BY DEF EventIdle
  <2> HIDE DEF X
  <2>4. eventReq'[s] = X
    BY <2>1, <1>3, OneMoves
  <2>5. HasInv(s)'
    BY <2>3, <2>4, <1>3, NothingIsChanges DEF HasInv, Logging, Changing
  <2>6. QED
    BY <2>1, <2>2, <2>5, <1>4, <1>5, RequestsTyped
<1>8. QED
  BY <1>6, <1>7

\* The deposit that follows keeps them.
LEMMA DepositTyped ==
  ASSUME TypesInv, NEW s \in Session, Deposit(s)
  PROVE  TypesInv'
<1> DEFINE r == eventReq[s]
           X == [r EXCEPT !.pc = "credit"]
           p == <<r.site.zone, r.now.year>>
<1>1. /\ r.pc = "deposit" /\ pool' = [pool EXCEPT ![p] = @ + r.now.volume]
      /\ put' = [put EXCEPT ![r.for] = r.site] /\ eventReq' = [eventReq EXCEPT ![s] = X]
      /\ UNCHANGED <<event, site, credit, moves, astray>>
  BY DEF Deposit
<1>2. RechargeTypeOK /\ GivenInv /\ IsRechargeRequest(r) /\ HasInv(s)
  BY RequestHas DEF TypesInv
<1>3. r.now.volume \in Nat /\ r.site \in Site
  BY <1>1, <1>2, RequestHas, NumbersOfEvents DEF HasInv, Logging, Given
<1>4. pool' \in [Pool -> Int] /\ put' \in [Event -> Site]
  <2> HIDE DEF p, r
  <2>1. pool \in [Pool -> Int] /\ put \in [Event -> Site]
    BY <1>2 DEF RechargeTypeOK
  <2>2. put' \in [Event -> Site]
    BY <1>1, <1>3, <2>1
  <2>3. p \in Pool => pool[p] + r.now.volume \in Int
    BY <1>3, <2>1
  <2>4. QED
    BY <1>1, <2>1, <2>2, <2>3
<1>5. /\ event' \in [Event -> EventRow] /\ site' \in Site /\ credit' \in [Event -> SUBSET Credit]
      /\ moves' \in 0 .. MaxMoves /\ astray' \in BOOLEAN
      /\ \A x \in Event : event'[x].state = "unused" \/ Given(event'[x])
  BY <1>1, <1>2 DEF RechargeTypeOK, GivenInv
<1>6. /\ IsRechargeRequest(X) /\ X.pc = "credit" /\ X.for = r.for /\ X.new = r.new
      /\ X.now = r.now /\ X.events = r.events
  BY <1>2 DEF IsRechargeRequest, EventPC
<1> HIDE DEF X
<1>7. eventReq'[s] = X
  BY <1>1, <1>2, OneMoves
<1>8. HasInv(s)'
  BY <1>1, <1>2, <1>6, <1>7 DEF HasInv, Logging, Changing
<1> HIDE DEF p, r
<1>9. eventReq' = [eventReq EXCEPT ![s] = X]
  BY <1>1
<1>10. QED
  BY <1>9, <1>4, <1>5, <1>6, <1>8, RequestsTyped

\* A credit is of the account the site names.
LEMMA CreditTyped ==
  ASSUME NEW row, Given(row), NEW under \in Site
  PROVE  CreditOf(row, under) \in SUBSET Credit
BY DEF CreditOf, Given, Site, Credit

\* Replacing the credits keeps them.
LEMMA ReplaceCreditsTyped ==
  ASSUME TypesInv, NEW s \in Session, ReplaceCredits(s)
  PROVE  TypesInv'
<1> DEFINE r == eventReq[s]
<1>1. /\ r.pc = "credit" /\ credit' = [credit EXCEPT ![r.for] = CreditOf(r.now, r.site)]
      /\ eventReq' = [eventReq EXCEPT ![s] = EventIdle]
      /\ UNCHANGED <<event, site, pool, moves, put, astray>>
  BY DEF ReplaceCredits
<1>2. RechargeTypeOK /\ GivenInv
  BY DEF TypesInv
<1>3. CreditOf(r.now, r.site) \in SUBSET Credit
  BY <1>1, RequestHas, CreditTyped DEF HasInv, Logging
<1>4. credit' \in [Event -> SUBSET Credit]
  BY <1>1, <1>2, <1>3 DEF RechargeTypeOK
<1>5. /\ event' \in [Event -> EventRow] /\ site' \in Site /\ pool' \in [Pool -> Int]
      /\ put' \in [Event -> Site] /\ moves' \in 0 .. MaxMoves /\ astray' \in BOOLEAN
      /\ \A x \in Event : event'[x].state = "unused" \/ Given(event'[x])
  BY <1>1, <1>2 DEF RechargeTypeOK, GivenInv
<1>6. HasInv(s)' /\ IsRechargeRequest(EventIdle)
  BY <1>1, <1>2, IdleHas, EventIdleIsRequest
<1>7. QED
  BY <1>1, <1>4, <1>5, <1>6, RequestsTyped

\* A request that ends without a commit keeps them.
LEMMA EndsTyped ==
  ASSUME TypesInv, NEW s \in Session, eventReq' = [eventReq EXCEPT ![s] = EventIdle],
         astray' \in BOOLEAN, UNCHANGED <<event, site, pool, credit, moves, put>>
  PROVE  TypesInv'
<1>1. HasInv(s)' /\ IsRechargeRequest(EventIdle)
  BY IdleHas, EventIdleIsRequest DEF TypesInv
<1>2. QED
  BY <1>1, TablesKept

\* A request that begins on event e, with the rows ch marked and written.
Begun(X, e, n, was, now, at, looked, ch) ==
  X \in [pc : {"takeback"}, for : {e}, new : {n}, was : {was}, now : {now}, site : {at},
         looked : {looked}, events : {ch}, pools : {Nothing}, credits : {Nothing},
         puts : {Nothing}]

\* A person opens an event that is there: the changes of an edit, a void or a correction.
LEMMA BegunTyped ==
  ASSUME TypesInv, NEW s \in Session, NEW e \in Event, NEW n \in Event \cup {0},
         NEW now \in EventRow, n # 0 => Given(now), NEW at \in Site, NEW looked \in BOOLEAN,
         event[e].state # "unused",
         NEW ch, IsChanges(ch, Event, EventRow), \A x \in DOMAIN ch : Given(ch[x]),
         NEW X, Begun(X, e, n, event[e], now, at, looked, ch),
         eventReq' = [eventReq EXCEPT ![s] = X],
         astray' \in BOOLEAN, UNCHANGED <<event, site, pool, credit, moves, put>>
  PROVE  TypesInv'
<1>1. RechargeTypeOK /\ event[e] \in EventRow /\ Given(event[e])
  BY DEF TypesInv, RechargeTypeOK, GivenInv
<1>2. X.events = ch /\ X.pools = Nothing /\ X.credits = Nothing /\ X.puts = Nothing
  BY DEF Begun
<1>3. X \in [pc : EventPC, for : Event \cup {0}, new : Event \cup {0},
        was : EventRow, now : EventRow, site : Site, looked : BOOLEAN,
        events : {X.events}, pools : {X.pools}, credits : {X.credits}, puts : {X.puts}]
  BY <1>1 DEF Begun, EventPC
<1>4. X.pc = "takeback" /\ X.for = e /\ X.new = n /\ X.was = event[e] /\ X.now = now
  BY DEF Begun
<1>6. IsRechargeRequest(X)
  BY <1>2, <1>3, NothingIsChanges DEF IsRechargeRequest
<1>7. eventReq'[s] = X
  BY <1>1, OneMoves
<1>8. HasInv(s)'
  BY <1>1, <1>2, <1>4, <1>7 DEF HasInv, Logging, Changing
<1>9. QED
  BY <1>6, <1>8, TablesKept

\* Another state makes another row.
LEMMA Restated ==
  ASSUME NEW row \in EventRow, Given(row), NEW st \in {"current", "voided", "replaced"}
  PROVE  /\ [row EXCEPT !.state = st] \in EventRow /\ Given([row EXCEPT !.state = st])
         /\ [row EXCEPT !.state = st].state = st
BY DEF EventRow, Given

\* One row, or two, changed.
LEMMA RowChanged ==
  ASSUME NEW keys, NEW rows, NEW k \in keys, NEW row \in rows
  PROVE  /\ IsChanges(With(Nothing, k, row), keys, rows)
         /\ DOMAIN With(Nothing, k, row) = {k} /\ With(Nothing, k, row)[k] = row
<1>1. IsChanges(Nothing, keys, rows)
  BY NothingIsChanges
<1>2. IsChanges(With(Nothing, k, row), keys, rows)
  BY <1>1, ChangeMore
<1>3. DOMAIN With(Nothing, k, row) = DOMAIN Nothing \cup {k} /\ With(Nothing, k, row)[k] = row
  BY DEF With
<1>4. DOMAIN Nothing = {}
  BY NothingIsChanges
<1>5. QED
  BY <1>2, <1>3, <1>4

\* What an edit makes of its request.
LEMMA EditMakes ==
  ASSUME NEW s \in Session, NEW e \in Event, NEW row, Edit(s, e, row)
  PROVE  \E X : /\ eventReq' = [eventReq EXCEPT ![s] = X]
               /\ Begun(X, e, e, event[e], [row EXCEPT !.state = event[e].state], site, TRUE,
                        Nothing)
<1> DEFINE X == [EventIdle EXCEPT
       !.pc = "takeback", !.for = e, !.new = e, !.was = event[e],
       !.now = [row EXCEPT !.state = event[e].state], !.site = site, !.looked = TRUE]
<1>1. eventReq' = [eventReq EXCEPT ![s] = X]
  BY DEF Edit
<1>2. Begun(X, e, e, event[e], [row EXCEPT !.state = event[e].state], site, TRUE, Nothing)
  BY DEF Begun, EventIdle
<1> HIDE DEF X
<1>3. QED
  BY <1>1, <1>2

\* A void.
LEMMA VoidMakes ==
  ASSUME NEW s \in Session, NEW e \in Event, VoidEvent(s, e)
  PROVE  \E X : /\ eventReq' = [eventReq EXCEPT ![s] = X]
               /\ Begun(X, e, 0, event[e], NoEvent, Nowhere, FALSE,
                        With(Nothing, e, [event[e] EXCEPT !.state = "voided"]))
<1> DEFINE ch == With(Nothing, e, [event[e] EXCEPT !.state = "voided"])
           X == [EventIdle EXCEPT !.pc = "takeback", !.for = e, !.was = event[e], !.events = ch]
<1>1. eventReq' = [eventReq EXCEPT ![s] = X]
  BY DEF VoidEvent
<1> HIDE DEF ch
<1>2. Begun(X, e, 0, event[e], NoEvent, Nowhere, FALSE, ch)
  BY DEF Begun, EventIdle
<1> HIDE DEF X
<1> USE DEF ch
<1>3. QED
  BY <1>1, <1>2

\* A correction.
LEMMA CorrectMakes ==
  ASSUME NEW s \in Session, NEW e \in Event, NEW row, CorrectEvent(s, e, row)
  PROVE  \E n \in NewEvent : \E X :
           /\ eventReq' = [eventReq EXCEPT ![s] = X]
           /\ Begun(X, e, n, event[e], row, Nowhere, FALSE,
                    With(With(Nothing, e, [event[e] EXCEPT !.state = "replaced"]), n, row))
<1> DEFINE ch(n) == With(With(Nothing, e, [event[e] EXCEPT !.state = "replaced"]), n, row)
           X(n) == [EventIdle EXCEPT !.pc = "takeback", !.for = e, !.new = n,
                      !.was = event[e], !.now = row, !.events = ch(n)]
<1>1. PICK n \in NewEvent : eventReq' = [eventReq EXCEPT ![s] = X(n)]
  BY DEF CorrectEvent
<1> HIDE DEF ch
<1>2. Begun(X(n), e, n, event[e], row, Nowhere, FALSE, ch(n))
  BY DEF Begun, EventIdle
<1> HIDE DEF X
<1> USE DEF ch
<1>3. QED
  BY <1>1, <1>2

\* An edit keeps the types.
LEMMA EditTyped ==
  ASSUME TypesInv, NEW s \in Session, NEW e \in Event, NEW row \in EventRow, Given(row),
         Edit(s, e, row)
  PROVE  TypesInv'
<1>1. RechargeTypeOK /\ event[e] \in EventRow /\ event[e].state # "unused" /\ Given(event[e])
      /\ event[e].state \in {"current", "voided", "replaced"}
  BY DEF Edit, TypesInv, RechargeTypeOK, GivenInv, EventRow
<1>2. PICK now : now = [row EXCEPT !.state = event[e].state]
  OBVIOUS
<1>3. now \in EventRow /\ Given(now)
  BY <1>1, <1>2, Restated
<1>4. PICK X : /\ eventReq' = [eventReq EXCEPT ![s] = X]
               /\ Begun(X, e, e, event[e], now, site, TRUE, Nothing)
  BY <1>2, EditMakes
<1>5. /\ UNCHANGED <<event, site, pool, credit, moves, put>>
      /\ astray' = (astray \/ AtWork(s, e) \/ event[e].state # "current")
  BY DEF Edit
<1>6. astray' \in BOOLEAN /\ site \in Site
  BY <1>1, <1>5 DEF RechargeTypeOK
<1>7. IsChanges(Nothing, Event, EventRow) /\ \A x \in DOMAIN Nothing : Given(Nothing[x])
  BY NothingIsChanges
<1>8. e \in Event \cup {0}
  OBVIOUS
<1>9. QED
  BY <1>1, <1>3, <1>4, <1>5, <1>6, <1>7, <1>8, BegunTyped

\* A void.
LEMMA VoidTyped ==
  ASSUME TypesInv, NEW s \in Session, NEW e \in Event, VoidEvent(s, e)
  PROVE  TypesInv'
<1>1. RechargeTypeOK /\ event[e] \in EventRow /\ event[e].state = "current" /\ Given(event[e])
  BY DEF VoidEvent, TypesInv, RechargeTypeOK, GivenInv
<1>2. PICK row : row = [event[e] EXCEPT !.state = "voided"]
  OBVIOUS
<1>3. PICK ch : ch = With(Nothing, e, row)
  OBVIOUS
<1>4. row \in EventRow /\ Given(row)
  BY <1>1, <1>2, Restated
<1>5. IsChanges(ch, Event, EventRow) /\ \A x \in DOMAIN ch : Given(ch[x])
  <2>1. IsChanges(ch, Event, EventRow) /\ DOMAIN ch = {e} /\ ch[e] = row
    BY <1>3, <1>4, RowChanged
  <2>2. QED
    BY <2>1, <1>4
<1>6. PICK X : /\ eventReq' = [eventReq EXCEPT ![s] = X]
               /\ Begun(X, e, 0, event[e], NoEvent, Nowhere, FALSE, ch)
  BY <1>2, <1>3, VoidMakes
<1>7. UNCHANGED <<event, site, pool, credit, moves, put>> /\ astray' = (astray \/ AtWork(s, e))
  BY DEF VoidEvent
<1>8. astray' \in BOOLEAN /\ NoEvent \in EventRow /\ Nowhere \in Site
  BY <1>1, <1>7 DEF RechargeTypeOK, NoEvent, EventRow, Nowhere, Site
<1>9. 0 \in Event \cup {0} /\ FALSE \in BOOLEAN /\ event[e].state # "unused"
  BY <1>1
<1>10. QED
  BY <1>4, <1>5, <1>6, <1>7, <1>8, <1>9, BegunTyped

\* A correction.
LEMMA CorrectTyped ==
  ASSUME TypesInv, NEW s \in Session, NEW e \in Event, NEW row \in EventRow, Given(row),
         CorrectEvent(s, e, row)
  PROVE  TypesInv'
<1>1. RechargeTypeOK /\ event[e] \in EventRow /\ event[e].state = "current" /\ Given(event[e])
  BY DEF CorrectEvent, TypesInv, RechargeTypeOK, GivenInv
<1>2. PICK old : old = [event[e] EXCEPT !.state = "replaced"]
  OBVIOUS
<1>3. PICK n \in NewEvent : \E X :
        /\ eventReq' = [eventReq EXCEPT ![s] = X]
        /\ Begun(X, e, n, event[e], row, Nowhere, FALSE, With(With(Nothing, e, old), n, row))
  BY <1>2, CorrectMakes
<1>4. n \in Event
  BY DEF NewEvent
<1>5. PICK ch : ch = With(With(Nothing, e, old), n, row)
  OBVIOUS
<1>6. old \in EventRow /\ Given(old)
  BY <1>1, <1>2, Restated
<1>7. IsChanges(ch, Event, EventRow) /\ \A x \in DOMAIN ch : Given(ch[x])
  <2>1. PICK c1 : c1 = With(Nothing, e, old)
    OBVIOUS
  <2>2. IsChanges(c1, Event, EventRow) /\ DOMAIN c1 = {e} /\ c1[e] = old
    BY <2>1, <1>6, RowChanged
  <2>3. IsChanges(c1, Event, EventRow) /\ ch = With(c1, n, row)
    BY <2>1, <2>2, <1>5
  <2>4. /\ IsChanges(ch, Event, EventRow) /\ DOMAIN ch = DOMAIN c1 \cup {n}
        /\ ch[n] = row /\ \A x \in DOMAIN c1 : x # n => ch[x] = c1[x]
    <3>1. IsChanges(With(c1, n, row), Event, EventRow)
      BY <2>3, <1>4, ChangeMore
    <3>2. QED
      BY <2>3, <3>1 DEF With
  <2>5. QED
    BY <2>2, <2>4, <1>6
<1>8. PICK X : /\ eventReq' = [eventReq EXCEPT ![s] = X]
               /\ Begun(X, e, n, event[e], row, Nowhere, FALSE, ch)
  BY <1>3, <1>5
<1>9. UNCHANGED <<event, site, pool, credit, moves, put>> /\ astray' = (astray \/ AtWork(s, e))
  BY DEF CorrectEvent
<1>10. astray' \in BOOLEAN /\ Nowhere \in Site
  BY <1>1, <1>9 DEF RechargeTypeOK, Nowhere, Site
<1>11. n \in Event \cup {0} /\ FALSE \in BOOLEAN /\ event[e].state # "unused"
  BY <1>1, <1>4
<1>12. QED
  BY <1>7, <1>8, <1>9, <1>10, <1>11, BegunTyped

\* A request q that goes on from r at step pc, with its changes as they are then.
GoneOn(q, r, pc, events, pools, credits, puts) ==
  q \in [pc : {pc}, for : {r.for}, new : {r.new}, was : {r.was}, now : {r.now},
         site : {r.site}, looked : {r.looked}, events : {events}, pools : {pools},
         credits : {credits}, puts : {puts}]

\* Its fields.
LEMMA GoneOnIs ==
  ASSUME NEW q, NEW r, NEW pc, NEW events, NEW pools, NEW credits, NEW puts,
         GoneOn(q, r, pc, events, pools, credits, puts)
  PROVE  /\ q.pc = pc /\ q.for = r.for /\ q.new = r.new /\ q.was = r.was /\ q.now = r.now
         /\ q.site = r.site /\ q.looked = r.looked /\ q.events = events /\ q.pools = pools
         /\ q.credits = credits /\ q.puts = puts
BY DEF GoneOn

\* It keeps the types when its changes have theirs.
LEMMA GoneOnTyped ==
  ASSUME TypesInv, NEW s \in Session, Changing(s), NEW X, NEW pc,
         pc \in {"save", "putin", "commit"},
         NEW events, NEW pools, NEW credits, NEW puts,
         GoneOn(X, eventReq[s], pc, events, pools, credits, puts),
         IsChanges(events, Event, EventRow), IsChanges(pools, Pool, Int),
         IsChanges(credits, Event, SUBSET Credit), IsChanges(puts, Event, Site),
         \A x \in DOMAIN events : Given(events[x]),
         pc \in {"save", "putin"} => eventReq[s].new # 0,
         pc = "save" => eventReq[s].new = eventReq[s].for,
         eventReq' = [eventReq EXCEPT ![s] = X],
         astray' \in BOOLEAN, UNCHANGED <<event, site, pool, credit, moves, put>>
  PROVE  TypesInv'
<1> DEFINE r == eventReq[s]
<1>1. IsRechargeRequest(r) /\ HasInv(s)
  BY RequestHas
<1>2. IsRechargeRequest(X)
  <2>1. X.events = events /\ X.pools = pools /\ X.credits = credits /\ X.puts = puts
    BY GoneOnIs
  <2>2. X \in [pc : EventPC, for : Event \cup {0}, new : Event \cup {0},
          was : EventRow, now : EventRow, site : Site, looked : BOOLEAN,
          events : {X.events}, pools : {X.pools}, credits : {X.credits}, puts : {X.puts}]
    <3> HIDE DEF r
    <3>1. GoneOn(X, r, pc, events, pools, credits, puts)
      BY DEF r
    <3>2. QED
      BY <1>1, <2>1, <3>1 DEF GoneOn, IsRechargeRequest, EventPC
  <2>3. QED
    BY <2>1, <2>2 DEF IsRechargeRequest
<1>3. /\ X.pc = pc /\ X.for = r.for /\ X.new = r.new /\ X.was = r.was /\ X.now = r.now
      /\ X.events = events
  BY GoneOnIs
<1>4. eventReq'[s] = X
  BY OneMoves DEF TypesInv
<1>5. HasInv(s)'
  BY <1>1, <1>3, <1>4 DEF HasInv, Logging, Changing
<1>6. QED
  BY <1>2, <1>5, TablesKept

\* A request X that took back, from the pool of zone z, what was put in.
TakenBack(s, z, X) ==
  LET r == eventReq[s] IN
  /\ z = IF r.looked THEN r.site.zone ELSE site.zone
  /\ eventReq' = [eventReq EXCEPT ![s] = X]
  /\ GoneOn(X, r, IF r.new = 0 THEN "commit" ELSE IF r.new = r.for THEN "save" ELSE "putin",
            r.events,
            IF z = Nobody THEN r.pools ELSE Deposited(s, <<z, r.was.year>>, -r.was.volume),
            With(r.credits, r.for, {}), With(r.puts, r.for, Nowhere))

\* The request of TakeBack is such a one.
LEMMA TakeBackMakes ==
  ASSUME TypesInv, NEW s \in Session, TakeBack(s)
  PROVE  \E z \in Zone \cup {Nobody} : \E X : TakenBack(s, z, X)
<1>1. PICK r : r = eventReq[s]
  OBVIOUS
<1>2. PICK z : z = IF r.looked THEN r.site.zone ELSE site.zone
  OBVIOUS
<1>3. z \in Zone \cup {Nobody}
  <2>1. r.site \in Site /\ site \in Site
    BY <1>1, RequestHas DEF TypesInv, RechargeTypeOK
  <2>2. QED
    BY <1>2, <2>1 DEF Site
<1> DEFINE p == IF z = Nobody THEN r.pools ELSE Deposited(s, <<z, r.was.year>>, -r.was.volume)
           X == [r EXCEPT
                  !.pc = IF r.new = 0 THEN "commit" ELSE IF r.new = r.for THEN "save" ELSE "putin",
                  !.credits = With(r.credits, r.for, {}), !.puts = With(r.puts, r.for, Nowhere),
                  !.pools = p]
<1>4. eventReq' = [eventReq EXCEPT ![s] = X]
  BY <1>1, <1>2 DEF TakeBack
<1>5. IsRechargeRequest(r)
  BY <1>1, RequestHas
<1> HIDE DEF p
<1>6. GoneOn(X, r, IF r.new = 0 THEN "commit" ELSE IF r.new = r.for THEN "save" ELSE "putin",
             r.events, p, With(r.credits, r.for, {}), With(r.puts, r.for, Nowhere))
  BY <1>5 DEF GoneOn, IsRechargeRequest
<1> HIDE DEF X
<1>7. GoneOn(X, r, IF r.new = 0 THEN "commit" ELSE IF r.new = r.for THEN "save" ELSE "putin",
             r.events, IF z = Nobody THEN r.pools
                       ELSE Deposited(s, <<z, r.was.year>>, -r.was.volume),
             With(r.credits, r.for, {}), With(r.puts, r.for, Nowhere))
  BY <1>6 DEF p
<1>8. TakenBack(s, z, X)
  BY <1>1, <1>2, <1>4, <1>7 DEF TakenBack
<1>9. QED
  BY <1>3, <1>8

\* What a pool reads for a request, and what it writes of it.
LEMMA DepositedTyped ==
  ASSUME TypesInv, NEW s \in Session, NEW p \in Pool, NEW amount \in Int
  PROVE  IsChanges(Deposited(s, p, amount), Pool, Int)
<1>1. IsChanges(eventReq[s].pools, Pool, Int) /\ pool \in [Pool -> Int]
  BY RequestHas DEF TypesInv, RechargeTypeOK
<1>2. Over(pool, eventReq[s].pools)[p] + amount \in Int
  BY <1>1 DEF Over, IsChanges
<1>3. QED
  BY <1>1, <1>2, ChangeMore DEF Deposited

\* So taking back keeps the types.
LEMMA TakeBackTyped ==
  ASSUME TypesInv, NEW s \in Session, TakeBack(s)
  PROVE  TypesInv'
<1>1. PICK r : r = eventReq[s]
  OBVIOUS
<1>2. PICK z \in Zone \cup {Nobody} : \E X : TakenBack(s, z, X)
  BY TakeBackMakes
<1>3. PICK X : TakenBack(s, z, X)
  BY <1>2
<1>4. PICK pc : pc = IF r.new = 0 THEN "commit" ELSE IF r.new = r.for THEN "save" ELSE "putin"
  OBVIOUS
<1>5. PICK pools : pools = IF z = Nobody THEN r.pools
                           ELSE Deposited(s, <<z, r.was.year>>, -r.was.volume)
  OBVIOUS
<1>6. Changing(s) /\ HasInv(s) /\ r.for \in Event /\ Given(r.was)
  BY <1>1, RequestHas DEF TakeBack, Changing, HasInv
<1>7. IsChanges(pools, Pool, Int)
  <2>1. CASE z = Nobody
    BY <1>1, <1>5, <2>1, RequestHas
  <2>2. CASE z # Nobody
    <3>1. <<z, r.was.year>> \in Pool /\ -r.was.volume \in Int
      <4>1. z \in Zone /\ r.was.year \in Year
        BY <1>2, <1>6, <2>2 DEF Given
      <4>2. r.was.volume \in Nat
        BY <1>6, NumbersOfEvents DEF Given
      <4>3. QED
        BY <4>1, <4>2 DEF Pool
    <3>2. IsChanges(Deposited(s, <<z, r.was.year>>, -r.was.volume), Pool, Int)
      BY <3>1, DepositedTyped
    <3>3. QED
      BY <1>5, <2>2, <3>2
  <2>3. QED
    BY <2>1, <2>2
<1>8. /\ IsChanges(With(r.credits, r.for, {}), Event, SUBSET Credit)
      /\ IsChanges(With(r.puts, r.for, Nowhere), Event, Site)
  <2>1. IsChanges(r.credits, Event, SUBSET Credit) /\ IsChanges(r.puts, Event, Site)
    BY <1>1, RequestHas
  <2>2. {} \in SUBSET Credit /\ Nowhere \in Site
    BY DEF Nowhere, Site
  <2>3. QED
    BY <2>1, <2>2, <1>6, ChangeMore
<1>9. /\ IsChanges(r.events, Event, EventRow) /\ \A x \in DOMAIN r.events : Given(r.events[x])
  BY <1>1, <1>6, RequestHas DEF HasInv
<1>10. UNCHANGED <<event, site, pool, credit, moves, put>> /\ astray' \in BOOLEAN
  BY DEF TakeBack, TypesInv, RechargeTypeOK
<1>11. /\ pc \in {"save", "putin", "commit"} /\ (pc \in {"save", "putin"} => r.new # 0)
       /\ (pc = "save" => r.new = r.for)
  BY <1>4
<1>12. PICK credits, puts : /\ credits = With(r.credits, r.for, {})
                          /\ puts = With(r.puts, r.for, Nowhere)
  OBVIOUS
<1>13. GoneOn(X, eventReq[s], pc, r.events, pools, credits, puts)
  BY <1>3, <1>1, <1>4, <1>5, <1>12 DEF TakenBack
<1>14. IsChanges(credits, Event, SUBSET Credit) /\ IsChanges(puts, Event, Site)
  BY <1>8, <1>12
<1>15. eventReq' = [eventReq EXCEPT ![s] = X]
  BY <1>3 DEF TakenBack
<1>16. QED
  BY <1>6, <1>7, <1>9, <1>10, <1>11, <1>13, <1>14, <1>15, <1>1, GoneOnTyped

\* A request X that saved an edit, and one that put the new figures in.
Saved(s, X) ==
  LET r == eventReq[s] IN
  /\ eventReq' = [eventReq EXCEPT ![s] = X]
  /\ GoneOn(X, r, "putin", With(r.events, r.for, r.now), r.pools, r.credits, r.puts)
HasPutIn(s, X) ==
  LET r == eventReq[s]
      there == site.zone # Nobody
  IN /\ eventReq' = [eventReq EXCEPT ![s] = X]
     /\ GoneOn(X, r, "commit", r.events,
               IF there THEN Deposited(s, <<site.zone, r.now.year>>, r.now.volume) ELSE r.pools,
               IF there THEN With(r.credits, r.new, CreditOf(r.now, site)) ELSE r.credits,
               IF there THEN With(r.puts, r.new, site) ELSE r.puts)

\* The requests of SaveEdit and PutIn are such ones.
LEMMA SaveEditMakes ==
  ASSUME TypesInv, NEW s \in Session, SaveEdit(s)
  PROVE  \E X : Saved(s, X)
<1>1. PICK r : r = eventReq[s]
  OBVIOUS
<1>2. IsRechargeRequest(r)
  BY <1>1, RequestHas
<1> DEFINE X == [r EXCEPT !.pc = "putin", !.events = With(r.events, r.for, r.now)]
<1>3. eventReq' = [eventReq EXCEPT ![s] = X]
  BY <1>1 DEF SaveEdit
<1>4. GoneOn(X, r, "putin", With(r.events, r.for, r.now), r.pools, r.credits, r.puts)
  BY <1>2 DEF GoneOn, IsRechargeRequest
<1> HIDE DEF X
<1>5. Saved(s, X)
  BY <1>1, <1>3, <1>4 DEF Saved
<1>6. QED
  BY <1>5

\* The other one.
LEMMA PutInMakes ==
  ASSUME TypesInv, NEW s \in Session, PutIn(s)
  PROVE  \E X : HasPutIn(s, X)
<1>1. PICK r : r = eventReq[s]
  OBVIOUS
<1>2. IsRechargeRequest(r)
  BY <1>1, RequestHas
<1>3. CASE site.zone = Nobody
  <2> DEFINE X == [r EXCEPT !.pc = "commit"]
  <2>1. eventReq' = [eventReq EXCEPT ![s] = X]
    BY <1>1, <1>3 DEF PutIn
  <2>2. GoneOn(X, r, "commit", r.events, r.pools, r.credits, r.puts)
    BY <1>2 DEF GoneOn, IsRechargeRequest
  <2> HIDE DEF X
  <2>3. HasPutIn(s, X)
    BY <1>1, <1>3, <2>1, <2>2 DEF HasPutIn
  <2>4. QED
    BY <2>3
<1>4. CASE site.zone # Nobody
  <2> DEFINE po == Deposited(s, <<site.zone, r.now.year>>, r.now.volume)
             X == [r EXCEPT !.pc = "commit", !.pools = po,
                     !.credits = With(r.credits, r.new, CreditOf(r.now, site)),
                     !.puts = With(r.puts, r.new, site)]
  <2>1. eventReq' = [eventReq EXCEPT ![s] = X]
    BY <1>1, <1>4 DEF PutIn
  <2> HIDE DEF po
  <2>2. GoneOn(X, r, "commit", r.events, po,
               With(r.credits, r.new, CreditOf(r.now, site)), With(r.puts, r.new, site))
    BY <1>2 DEF GoneOn, IsRechargeRequest
  <2> HIDE DEF X
  <2>3. HasPutIn(s, X)
    BY <1>1, <1>4, <2>1, <2>2 DEF HasPutIn, po
  <2>4. QED
    BY <2>3
<1>5. QED
  BY <1>3, <1>4

\* So the types keep when an edit is saved, and when the new figures go in.
LEMMA SaveEditTyped ==
  ASSUME TypesInv, NEW s \in Session, SaveEdit(s)
  PROVE  TypesInv'
<1>1. PICK r : r = eventReq[s]
  OBVIOUS
<1>2. PICK X : Saved(s, X)
  BY SaveEditMakes
<1>3. /\ Changing(s) /\ HasInv(s) /\ r.for \in Event /\ Given(r.now) /\ r.new # 0
      /\ r.now \in EventRow
  BY <1>1, RequestHas DEF SaveEdit, Changing, HasInv
<1>4. PICK events : events = With(r.events, r.for, r.now)
  OBVIOUS
<1>5. IsChanges(r.events, Event, EventRow) /\ \A x \in DOMAIN r.events : Given(r.events[x])
  BY <1>1, <1>3 , RequestHas DEF HasInv
<1>6. IsChanges(events, Event, EventRow) /\ \A x \in DOMAIN events : Given(events[x])
  <2>1. IsChanges(events, Event, EventRow)
    BY <1>3, <1>4, <1>5, ChangeMore
  <2>2. QED
    BY <1>3, <1>4, <1>5, <2>1 DEF With
<1>7. /\ IsChanges(r.pools, Pool, Int)
      /\ IsChanges(r.credits, Event, SUBSET Credit) /\ IsChanges(r.puts, Event, Site)
  BY <1>1, RequestHas
<1>8. UNCHANGED <<event, site, pool, credit, moves, put>> /\ astray' \in BOOLEAN
  BY DEF SaveEdit, TypesInv, RechargeTypeOK
<1>9. /\ GoneOn(X, eventReq[s], "putin", events, r.pools, r.credits, r.puts)
      /\ eventReq' = [eventReq EXCEPT ![s] = X]
  BY <1>1, <1>2, <1>4 DEF Saved
<1>10. eventReq[s].new # 0
  BY <1>1, <1>3
<1>11. QED
  BY <1>3, <1>6, <1>7, <1>8, <1>9, <1>10, GoneOnTyped

\* The other one.
LEMMA PutInTyped ==
  ASSUME TypesInv, NEW s \in Session, PutIn(s)
  PROVE  TypesInv'
<1>1. PICK r : r = eventReq[s]
  OBVIOUS
<1>2. PICK X : HasPutIn(s, X)
  BY PutInMakes
<1>3. /\ Changing(s) /\ HasInv(s) /\ r.new \in Event /\ Given(r.now)
      /\ r.now \in EventRow
  BY <1>1, RequestHas DEF PutIn, Changing, HasInv
<1>4. PICK po : po = IF site.zone # Nobody
                     THEN Deposited(s, <<site.zone, r.now.year>>, r.now.volume) ELSE r.pools
  OBVIOUS
<1>5. PICK cr : cr = IF site.zone # Nobody
                     THEN With(r.credits, r.new, CreditOf(r.now, site)) ELSE r.credits
  OBVIOUS
<1>6. PICK pu : pu = IF site.zone # Nobody THEN With(r.puts, r.new, site) ELSE r.puts
  OBVIOUS
<1>7. /\ IsChanges(r.events, Event, EventRow) /\ IsChanges(r.pools, Pool, Int)
      /\ IsChanges(r.credits, Event, SUBSET Credit) /\ IsChanges(r.puts, Event, Site)
      /\ \A x \in DOMAIN r.events : Given(r.events[x])
  BY <1>1, <1>3, RequestHas DEF HasInv
<1>8. IsChanges(po, Pool, Int) /\ IsChanges(cr, Event, SUBSET Credit) /\ IsChanges(pu, Event, Site)
  <2>1. CASE site.zone = Nobody
    BY <1>4, <1>5, <1>6, <1>7, <2>1
  <2>2. CASE site.zone # Nobody
    <3>1. site \in Site /\ site.zone \in Zone
      BY <2>2 DEF TypesInv, RechargeTypeOK, Site
    <3>2. <<site.zone, r.now.year>> \in Pool /\ r.now.volume \in Int
      <4>1. r.now.year \in Year
        BY <1>3 DEF Given
      <4>2. r.now.volume \in Nat
        BY <1>3, NumbersOfEvents DEF Given
      <4>3. QED
        BY <3>1, <4>1, <4>2 DEF Pool
    <3>3. IsChanges(po, Pool, Int)
      BY <1>4, <2>2, <3>2, DepositedTyped
    <3>4. CreditOf(r.now, site) \in SUBSET Credit
      BY <1>3, <3>1, CreditTyped
    <3>5. cr = With(r.credits, r.new, CreditOf(r.now, site)) /\ pu = With(r.puts, r.new, site)
      BY <1>5, <1>6, <2>2
    <3>6. IsChanges(With(r.puts, r.new, site), Event, Site)
      BY <1>3, <1>7, <3>1, ChangeMore
    <3>7. IsChanges(With(r.credits, r.new, CreditOf(r.now, site)), Event, SUBSET Credit)
      BY <1>3, <1>7, <3>4, ChangeMore
    <3>8. QED
      BY <3>3, <3>5, <3>6, <3>7
  <2>3. QED
    BY <2>1, <2>2
<1>9. UNCHANGED <<event, site, pool, credit, moves, put>> /\ astray' \in BOOLEAN
  BY DEF PutIn, TypesInv, RechargeTypeOK
<1>10. /\ GoneOn(X, eventReq[s], "commit", r.events, po, cr, pu)
       /\ eventReq' = [eventReq EXCEPT ![s] = X]
  BY <1>1, <1>2, <1>4, <1>5, <1>6 DEF HasPutIn
<1>11. QED
  BY <1>3, <1>7, <1>8, <1>9, <1>10, GoneOnTyped

\* So do they at a commit.
LEMMA CommitTyped ==
  ASSUME TypesInv, NEW s \in Session, CommitEvent(s)
  PROVE  TypesInv'
<1>1. PICK r : r = eventReq[s]
  OBVIOUS
<1>2. /\ event' = Over(event, r.events) /\ pool' = Over(pool, r.pools)
      /\ credit' = Over(credit, r.credits) /\ put' = Over(put, r.puts)
      /\ eventReq' = [eventReq EXCEPT ![s] = EventIdle] /\ UNCHANGED <<site, moves, astray>>
  BY <1>1 DEF CommitEvent
<1>3. RechargeTypeOK /\ GivenInv
  BY DEF TypesInv
<1>4. /\ IsChanges(r.events, Event, EventRow) /\ IsChanges(r.pools, Pool, Int)
      /\ IsChanges(r.credits, Event, SUBSET Credit) /\ IsChanges(r.puts, Event, Site)
      /\ \A x \in DOMAIN r.events : Given(r.events[x])
  BY <1>1, RequestHas DEF HasInv
<1>5. event' \in [Event -> EventRow]
  BY <1>2, <1>3, <1>4 DEF RechargeTypeOK, Over, IsChanges
<1>6. \A x \in Event : event'[x].state = "unused" \/ Given(event'[x])
  <2>1. \A x \in Event : event'[x] = IF x \in DOMAIN r.events THEN r.events[x] ELSE event[x]
    BY <1>2, <1>3 DEF RechargeTypeOK, Over
  <2>2. QED
    BY <1>3, <1>4, <2>1 DEF GivenInv
<1>7. pool' \in [Pool -> Int]
  BY <1>2, <1>3, <1>4 DEF RechargeTypeOK, Over, IsChanges
<1>8. credit' \in [Event -> SUBSET Credit]
  BY <1>2, <1>3, <1>4 DEF RechargeTypeOK, Over, IsChanges
<1>9. put' \in [Event -> Site]
  BY <1>2, <1>3, <1>4 DEF RechargeTypeOK, Over, IsChanges
<1>10. site' \in Site /\ moves' \in 0 .. MaxMoves /\ astray' \in BOOLEAN
  BY <1>2, <1>3 DEF RechargeTypeOK
<1>11. HasInv(s)' /\ IsRechargeRequest(EventIdle)
  BY <1>2, <1>3, IdleHas, EventIdleIsRequest
<1>12. QED
  BY <1>2, <1>5, <1>6, <1>7, <1>8, <1>9, <1>10, <1>11, RequestsTyped

\* So do they when the site is moved.
LEMMA SetTyped ==
  ASSUME TypesInv,
         \/ \E z \in Zone \cup {Nobody} : SetZone(z)
         \/ \E k \in Account \cup {Nobody} : SetAccount(k)
  PROVE  TypesInv' /\ UNCHANGED <<event, pool, credit, eventReq, put, astray>>
<1>1. /\ moves < MaxMoves /\ moves' = moves + 1
      /\ UNCHANGED <<event, pool, credit, eventReq, put, astray>>
  BY DEF SetZone, SetAccount
<1>2. RechargeTypeOK /\ GivenInv
  BY DEF TypesInv
<1>3. site' \in Site
  BY <1>2 DEF SetZone, SetAccount, RechargeTypeOK, Site
<1>4. moves' \in 0 .. MaxMoves
  BY <1>1, <1>2, EventsAssumption DEF RechargeTypeOK
<1>5. RechargeTypeOK'
  BY <1>1, <1>2, <1>3, <1>4 DEF RechargeTypeOK
<1>6. GivenInv'
  BY <1>1, <1>2 DEF GivenInv, HasInv, Logging, Changing
<1>7. QED
  BY <1>1, <1>5, <1>6 DEF TypesInv

\* Every step of a request keeps the types.
LEMMA RechargeTypesStep ==
  ASSUME TypesInv, [RechargeNext]_rechargeVars
  PROVE  TypesInv'
<1>1. ASSUME NEW s \in Session, RechargeStep(s) PROVE TypesInv'
  <2>1. ASSUME NEW f \in Figure, Log(s, Counts(f)) PROVE TypesInv'
    BY <2>1, FigureGiven, LogTyped
  <2>2. ASSUME NEW f \in Figure, NEW e \in Event, Edit(s, e, Counts(f)) PROVE TypesInv'
    BY <2>2, FigureGiven, EditTyped
  <2>3. ASSUME NEW f \in Figure, NEW e \in Event, CorrectEvent(s, e, Counts(f)) PROVE TypesInv'
    BY <2>3, FigureGiven, CorrectTyped
  <2>4. ASSUME NEW e \in Event, VoidEvent(s, e) PROVE TypesInv'
    BY <2>4, VoidTyped
  <2>5. CASE Deposit(s)
    BY <2>5, DepositTyped
  <2>6. CASE ReplaceCredits(s)
    BY <2>6, ReplaceCreditsTyped
  <2>7. CASE Dies(s)
    BY <2>7, EndsTyped DEF Dies
  <2>8. CASE TakeBack(s)
    BY <2>8, TakeBackTyped
  <2>9. CASE SaveEdit(s)
    BY <2>9, SaveEditTyped
  <2>10. CASE PutIn(s)
    BY <2>10, PutInTyped
  <2>11. CASE CommitEvent(s)
    BY <2>11, CommitTyped
  <2>12. CASE RollbackEvent(s)
    BY <2>12, EndsTyped DEF RollbackEvent, TypesInv, RechargeTypeOK
  <2>13. QED
    BY <1>1, <2>1, <2>2, <2>3, <2>4, <2>5, <2>6, <2>7, <2>8, <2>9, <2>10, <2>11, <2>12
       DEF RechargeStep
<1>2. CASE \/ \E z \in Zone \cup {Nobody} : SetZone(z)
           \/ \E k \in Account \cup {Nobody} : SetAccount(k)
  BY <1>2, SetTyped
<1>3. CASE UNCHANGED rechargeVars
  BY <1>3 DEF rechargeVars, TypesInv, RechargeTypeOK, GivenInv, HasInv, Logging, Changing
<1>4. QED
  BY <1>1, <1>2, <1>3 DEF RechargeNext

\* A site with nothing recorded has them.
LEMMA RechargeTypesInit ==
  ASSUME RechargeInit
  PROVE  TypesInv
<1>1. IsRechargeRequest(EventIdle) /\ DOMAIN EventIdle.events = {} /\ EventIdle.pc = "idle"
  BY EventIdleIsRequest, NothingIsChanges
<1>2. /\ \A s \in Session : eventReq[s] = EventIdle
      /\ eventReq = [s \in Session |-> eventReq[s]]
  BY DEF RechargeInit
<1>3. /\ event \in [Event -> EventRow] /\ site \in Site /\ credit \in [Event -> SUBSET Credit]
      /\ put \in [Event -> Site]
  BY DEF RechargeInit, NoEvent, EventRow, Site, Nowhere
<1>4. pool \in [Pool -> Int]
  BY DEF RechargeInit
<1>5. moves \in 0 .. MaxMoves /\ astray \in BOOLEAN
  <2>1. moves = 0 /\ astray = FALSE
    BY DEF RechargeInit
  <2>2. MaxMoves \in Nat
    BY EventsAssumption
  <2>3. moves \in 0 .. MaxMoves
    BY <2>1, <2>2
  <2>4. QED
    BY <2>1, <2>3
<1> HIDE DEF EventIdle
<1>6. RechargeTypeOK
  BY <1>1, <1>2, <1>3, <1>4, <1>5 DEF RechargeTypeOK
<1>7. \A s \in Session : HasInv(s)
  BY <1>1, <1>2 DEF HasInv, Logging, Changing
<1>8. \A e \in Event : event[e].state = "unused"
  BY DEF RechargeInit, NoEvent
<1>9. QED
  BY <1>6, <1>7, <1>8 DEF TypesInv, GivenInv

-----------------------------------------------------------------------------
(* What the requests at work leave and what stands in the pools *)

\* The events whose water stands for zone and year p.
There(ev, at, p) ==
  {e \in Event : ev[e].state = "current" /\ <<at[e].zone, ev[e].year>> = p}

\* What is put in for p is their water.
LEMMA PutInIsWater ==
  ASSUME NEW p
  PROVE  /\ PutInFor(p) = Water(event, There(event, put, p))
         /\ PutInFor(p)' = Water(event', There(event', put', p))
<1>1. PutInFor(p) = Water(event, There(event, put, p))
  BY DEF PutInFor, Water, There
<1>2. PutInFor(p)' = Water(event', There(event', put', p))
  BY DEF PutInFor, Water, There, MapThenSumSet, MapThenFoldSet
<1>3. QED
  BY <1>1, <1>2

\* A table of events has finitely many events of volumes that are numbers.
LEMMA ThereIsSummed ==
  ASSUME NEW ev \in [Event -> EventRow], NEW at, NEW p, NEW S, S \subseteq There(ev, at, p)
  PROVE  IsFiniteSet(S) /\ (\A e \in S : ev[e].volume \in Nat) /\ Water(ev, S) \in Nat
<1>1. IsFiniteSet(S)
  <2>1. S \subseteq Event
    BY DEF There
  <2>2. QED
    BY <2>1, NumbersOfEvents, FS_Subset
<1>2. \A e \in Event : ev[e].volume \in Nat
  <2>1. \A e \in Event : ev[e].volume \in Volume \cup {0}
    BY DEF EventRow
  <2>2. Volume \cup {0} \subseteq Nat
    BY NumbersOfEvents
  <2>3. QED
    BY <2>1, <2>2
<1>3. \A e \in S : ev[e].volume \in Nat
  BY <1>2 DEF There
<1>4. QED
  BY <1>1, <1>3, WaterIsVolume

\* One event's part in the water of p, and that of the others.
Part(ev, at, p, x) == IF x \in There(ev, at, p) THEN ev[x].volume ELSE 0
Others(ev, at, p, x) == There(ev, at, p) \ {x}

\* Their water is the two together.
LEMMA WaterInParts ==
  ASSUME NEW ev \in [Event -> EventRow], NEW at, NEW p, NEW x
  PROVE  /\ Water(ev, There(ev, at, p)) = Part(ev, at, p, x) + Water(ev, Others(ev, at, p, x))
         /\ Water(ev, Others(ev, at, p, x)) \in Nat
<1>1. There(ev, at, p) \subseteq There(ev, at, p)
  OBVIOUS
<1>2. Others(ev, at, p, x) \subseteq There(ev, at, p)
  BY DEF Others
<1>3. /\ IsFiniteSet(There(ev, at, p)) /\ (\A e \in There(ev, at, p) : ev[e].volume \in Nat)
      /\ Water(ev, There(ev, at, p)) \in Nat /\ Water(ev, Others(ev, at, p, x)) \in Nat
  BY <1>1, <1>2, ThereIsSummed
<1>4. CASE x \in There(ev, at, p)
  <2>1. Water(ev, There(ev, at, p)) = ev[x].volume + Water(ev, There(ev, at, p) \ {x})
    BY <1>3, <1>4, WaterWithout
  <2>2. QED
    BY <2>1, <1>3, <1>4 DEF Part, Others
<1>5. CASE x \notin There(ev, at, p)
  <2>1. Others(ev, at, p, x) = There(ev, at, p)
    BY <1>5 DEF Others
  <2>2. QED
    BY <2>1, <1>3, <1>5 DEF Part
<1>6. QED
  BY <1>4, <1>5

\* Where the others are the same, with the same volumes, only the two parts differ.
LEMMA PartsMove ==
  ASSUME NEW ev \in [Event -> EventRow], NEW at, NEW ew \in [Event -> EventRow], NEW as, NEW p,
         NEW x, NEW y, Others(ev, at, p, x) = Others(ew, as, p, y),
         SameVolumes(Others(ev, at, p, x), ev, ew)
  PROVE  /\ Water(ev, There(ev, at, p)) \in Nat
         /\ Water(ew, There(ew, as, p))
            = Water(ev, There(ev, at, p)) - Part(ev, at, p, x) + Part(ew, as, p, y)
<1>1. Others(ev, at, p, x) \subseteq There(ev, at, p)
  BY DEF Others
<1>2. IsFiniteSet(Others(ev, at, p, x)) /\ \A e \in Others(ev, at, p, x) : ev[e].volume \in Nat
  BY <1>1, ThereIsSummed
<1>3. Water(ev, Others(ev, at, p, x)) = Water(ew, Others(ew, as, p, y))
  BY <1>2, WaterAlike
<1>4. /\ Water(ev, There(ev, at, p)) = Part(ev, at, p, x) + Water(ev, Others(ev, at, p, x))
      /\ Water(ew, There(ew, as, p)) = Part(ew, as, p, y) + Water(ew, Others(ew, as, p, y))
      /\ Water(ew, Others(ew, as, p, y)) \in Nat
  BY ZenonT(60), WaterInParts
<1>5. Part(ev, at, p, x) \in Nat /\ Part(ew, as, p, y) \in Nat
  <2>1. There(ev, at, p) \subseteq There(ev, at, p) /\ There(ew, as, p) \subseteq There(ew, as, p)
    OBVIOUS
  <2>2. /\ \A e \in There(ev, at, p) : ev[e].volume \in Nat
        /\ \A e \in There(ew, as, p) : ew[e].volume \in Nat
    BY <2>1, ThereIsSummed
  <2>3. QED
    BY <2>2 DEF Part
<1>6. PICK w \in Nat : w = Water(ev, Others(ev, at, p, x)) /\ w = Water(ew, Others(ew, as, p, y))
  BY <1>3, <1>4
<1>7. PICK a \in Nat, b \in Nat : a = Part(ev, at, p, x) /\ b = Part(ew, as, p, y)
  BY <1>5
<1>8. Water(ev, There(ev, at, p)) = a + w /\ Water(ew, There(ew, as, p)) = b + w
  BY <1>4, <1>6, <1>7
<1>9. a + w \in Nat /\ b + w = (a + w) - a + b
  OBVIOUS
<1>10. QED
  BY <1>7, <1>8, <1>9

\* A new event is nobody's, with nothing under its key.
LEMMA NewIsNobodys ==
  ASSUME TypesInv, InOrderInv, NEW n \in NewEvent
  PROVE  /\ n \in Event /\ n # 0 /\ event[n].state = "unused" /\ put[n] = Nowhere /\ credit[n] = {}
         /\ \A u \in Session : n \notin Of(u)
<1>1. /\ n \in Event /\ event[n].state = "unused"
      /\ \A u \in Session : n \notin DOMAIN eventReq[u].events
  BY DEF NewEvent
<1>2. put[n] = Nowhere /\ credit[n] = {} /\ n # 0
  BY <1>1, NumbersOfEvents DEF InOrderInv, UnusedInv
<1>3. ASSUME NEW u \in Session, n \in Of(u) PROVE FALSE
  <2>1. IsRechargeRequest(eventReq[u]) /\ HasInv(u) /\ WorkInv(u)
    BY RequestHas DEF InOrderInv
  <2>2. eventReq[u].pc \in EventPC
    BY <2>1 DEF IsRechargeRequest
  <2>3. eventReq[u].pc # "idle"
    BY <2>1, <1>2, <1>3, EventIdleIsRequest DEF HasInv, Of
  <2>4. CASE Logging(u)
    <3>1. eventReq[u].new = 0 /\ n = eventReq[u].for
      BY <2>1, <2>4, <1>3 DEF HasInv, Of
    <3>2. event[n].state = "current"
      BY <2>1, <2>4, <3>1 DEF WorkInv, LogInv
    <3>3. QED
      BY <3>2, <1>1
  <2>5. CASE Changing(u)
    <3>1. RowsInv(u)
      BY <2>1, <2>5 DEF WorkInv
    <3>2. n # eventReq[u].for
      BY <3>1, <1>1 DEF RowsInv
    <3>3. n = eventReq[u].new /\ n # 0
      BY <3>2, <1>3 DEF Of
    <3>4. DOMAIN eventReq[u].events = Of(u)
      BY <3>1, <3>2, <3>3 DEF RowsInv
    <3>5. QED
      BY <3>4, <1>1, <1>3
  <2>6. QED
    BY <2>2, <2>3, <2>4, <2>5 DEF EventPC, Logging, Changing
<1>4. QED
  BY <1>1, <1>2, <1>3

\* The types of the tables, and what lies over them.
LEMMA TablesTyped ==
  ASSUME TypesInv
  PROVE  /\ event \in [Event -> EventRow] /\ pool \in [Pool -> Int]
         /\ credit \in [Event -> SUBSET Credit] /\ put \in [Event -> Site] /\ site \in Site
         /\ \A e \in Event : event[e].state = "unused" \/ Given(event[e])
BY DEF TypesInv, RechargeTypeOK, GivenInv

\* A request's part in the pools is a number.
LEMMA LeftJoined ==
  ASSUME TypesInv, NEW s \in Session, Changing(s), NEW p
  PROVE  Left(s, p) \in Int /\ Joined(s, p) \in Int
<1>1. HasInv(s)
  BY RequestHas
<1>2. eventReq[s].was.volume \in Nat /\ (eventReq[s].new # 0 => eventReq[s].now.volume \in Nat)
  BY <1>1, NumbersOfEvents DEF HasInv, Given
<1>3. QED
  BY <1>2 DEF Left, Joined

\* Nobody's work is disturbed by what leaves the request's own events and pools alone.
LEMMA OthersStay ==
  ASSUME TypesInv, TypesInv', NEW u \in Session, WorkInv(u), eventReq'[u] = eventReq[u],
         \A e \in Of(u) : event'[e] = event[e] /\ put'[e] = put[e] /\ credit'[e] = credit[e],
         \A p \in DOMAIN eventReq[u].pools : pool'[p] = pool[p]
  PROVE  WorkInv(u)'
<1>1. PICK r : r = eventReq[u]
  OBVIOUS
<1>2. /\ IsChanges(r.pools, Pool, Int) /\ IsChanges(r.credits, Event, SUBSET Credit)
      /\ IsChanges(r.puts, Event, Site) /\ r.for \in Event \cup {0} /\ r.new \in Event \cup {0}
      /\ HasInv(u)
  BY <1>1, RequestHas
<1>3. /\ pool \in [Pool -> Int] /\ credit \in [Event -> SUBSET Credit] /\ put \in [Event -> Site]
  BY TablesTyped
<1>4. /\ pool' \in [Pool -> Int] /\ credit' \in [Event -> SUBSET Credit] /\ put' \in [Event -> Site]
  BY DEF TypesInv, RechargeTypeOK
<1>5. /\ Logging(u)' = Logging(u) /\ Changing(u)' = Changing(u) /\ Of(u)' = Of(u)
  BY DEF Logging, Changing, Of
<1>6. ASSUME Logging(u) PROVE LogInv(u)'
  <2>1. r.for \in Of(u)
    BY <1>1, <1>2, <1>6, NumbersOfEvents DEF HasInv, Of
  <2>2. /\ event'[r.for] = event[r.for] /\ put'[r.for] = put[r.for]
        /\ credit'[r.for] = credit[r.for]
    BY <2>1
  <2>3. LogInv(u)
    BY <1>6 DEF WorkInv
  <2>4. eventReq'[u] = r
    BY <1>1
  <2>5. QED
    BY <1>1, <2>2, <2>3, <2>4 DEF LogInv
<1>7. ASSUME Changing(u) PROVE RowsInv(u)' /\ PlacesGivenInv(u)' /\ PoolsInv(u)'
  <2>1. r.for \in Of(u) /\ r.for \in Event /\ (r.new # 0 => r.new \in Of(u) /\ r.new \in Event)
    BY <1>1, <1>2, <1>7, NumbersOfEvents DEF HasInv, Of
  <2>2. /\ event'[r.for] = event[r.for] /\ put'[r.for] = put[r.for]
        /\ credit'[r.for] = credit[r.for]
        /\ r.new # 0 => /\ event'[r.new] = event[r.new] /\ put'[r.new] = put[r.new]
                        /\ credit'[r.new] = credit[r.new]
    BY <2>1
  <2>3. RowsInv(u) /\ PlacesGivenInv(u) /\ PoolsInv(u)
    BY <1>7 DEF WorkInv
  <2>4. eventReq'[u] = r
    BY <1>1
  <2>5. RowsInv(u)'
    BY <1>1, <1>5, <2>2, <2>3, <2>4 DEF RowsInv
  <2>6. r.new # 0 => /\ Over(credit', r.credits)[r.new] = Over(credit, r.credits)[r.new]
                     /\ Over(put', r.puts)[r.new] = Over(put, r.puts)[r.new]
    BY <1>3, <1>4, <2>1, <2>2 DEF Over
  <2>7. PlacesGivenInv(u)'
    BY <1>1, <1>5, <2>3, <2>4, <2>6 DEF PlacesGivenInv
  <2>8. \A p \in Pool : Left(u, p)' = Left(u, p) /\ Joined(u, p)' = Joined(u, p)
    BY <1>1, <2>2, <2>4, <2>6 DEF Left, Joined
  <2>9. PoolsInv(u)'
    <3> SUFFICES ASSUME NEW p \in Pool
                 PROVE  Over(pool', r.pools)[p] = pool'[p] - Left(u, p) + Joined(u, p)
      BY <2>4, <2>8 DEF PoolsInv
    <3>1. Over(pool, r.pools)[p] = pool[p] - Left(u, p) + Joined(u, p)
      BY <1>1, <2>3 DEF PoolsInv
    <3>2. Left(u, p) \in Int /\ Joined(u, p) \in Int /\ pool[p] \in Int /\ pool'[p] \in Int
      BY <1>3, <1>4, <1>7, LeftJoined
    <3>3. CASE p \in DOMAIN r.pools
      <4>1. pool'[p] = pool[p] /\ Over(pool', r.pools)[p] = Over(pool, r.pools)[p]
        BY <1>1, <1>3, <1>4, <3>3 DEF Over
      <4>2. QED
        BY <4>1, <3>1
    <3>4. CASE p \notin DOMAIN r.pools
      <4>1. Over(pool', r.pools)[p] = pool'[p] /\ Over(pool, r.pools)[p] = pool[p]
        BY <1>3, <1>4, <3>4 DEF Over
      <4>2. QED
        BY <4>1, <3>1, <3>2
    <3>5. QED
      BY <3>3, <3>4
  <2>10. QED
    BY <2>5, <2>7, <2>9
<1>8. QED
  BY <1>5, <1>6, <1>7 DEF WorkInv

\* Requests stay apart when the one that moves takes nothing of another's.
LEMMA ApartStays ==
  ASSUME TypesInv, ApartInv, NEW s \in Session,
         \A u \in Session \ {s} : eventReq'[u] = eventReq[u],
         \A u \in Session \ {s} : /\ Of(s)' \cap Of(u) = {}
                                  /\ DOMAIN eventReq'[s].pools \cap DOMAIN eventReq[u].pools = {}
  PROVE  ApartInv'
<1> SUFFICES ASSUME NEW t \in Session, NEW u \in Session, t # u
             PROVE  /\ Of(t)' \cap Of(u)' = {}
                    /\ DOMAIN eventReq'[t].pools \cap DOMAIN eventReq'[u].pools = {}
  BY DEF ApartInv
<1>1. \A v \in Session \ {s} : Of(v)' = Of(v)
  BY DEF Of
<1>2. CASE t # s /\ u # s
  <2>1. Of(t) \cap Of(u) = {} /\ DOMAIN eventReq[t].pools \cap DOMAIN eventReq[u].pools = {}
    BY DEF ApartInv
  <2>2. Of(t)' = Of(t) /\ Of(u)' = Of(u) /\ eventReq'[t] = eventReq[t] /\ eventReq'[u] = eventReq[u]
    BY <1>1, <1>2
  <2>3. QED
    BY <2>1, <2>2
<1>3. CASE t = s
  <2>1. Of(u)' = Of(u) /\ eventReq'[u] = eventReq[u]
    BY <1>1, <1>3
  <2>2. Of(s)' \cap Of(u) = {} /\ DOMAIN eventReq'[s].pools \cap DOMAIN eventReq[u].pools = {}
    BY <1>3
  <2>3. QED
    BY <1>3, <2>1, <2>2
<1>4. CASE u = s
  <2>1. Of(t)' = Of(t) /\ eventReq'[t] = eventReq[t]
    BY <1>1, <1>4
  <2>2. Of(s)' \cap Of(t) = {} /\ DOMAIN eventReq'[s].pools \cap DOMAIN eventReq[t].pools = {}
    BY <1>4
  <2>3. QED
    BY <1>4, <2>1, <2>2
<1>5. QED
  BY <1>2, <1>3, <1>4

\* A step within a transaction, or its begin or its end without a commit, leaves the books.
LEMMA QuietStep ==
  ASSUME TypesInv, TypesInv', InOrderInv, NEW s \in Session,
         \A u \in Session \ {s} : eventReq'[u] = eventReq[u],
         ~Logging(s), ~Logging(s)', WorkInv(s)', UNCHANGED <<event, pool, credit, put>>,
         \A u \in Session \ {s} : /\ Of(s)' \cap Of(u) = {}
                                  /\ DOMAIN eventReq'[s].pools \cap DOMAIN eventReq[u].pools = {}
  PROVE  InOrderInv'
<1>1. UnusedInv'
  BY DEF InOrderInv, UnusedInv
<1>2. ApartInv'
  BY ApartStays DEF InOrderInv
<1>3. ASSUME NEW u \in Session PROVE WorkInv(u)'
  <2>1. CASE u = s
    BY <2>1
  <2>2. CASE u # s
    <3>1. eventReq'[u] = eventReq[u] /\ WorkInv(u)
      BY <2>2 DEF InOrderInv
    <3>2. QED
      BY <3>1, OthersStay
  <2>3. QED
    BY <2>1, <2>2
<1>4. BooksInv'
  <2>1. \A p \in Pool : pool'[p] = PutInFor(p)'
    <3>1. \A p \in Pool : pool[p] = PutInFor(p)
      BY DEF InOrderInv, BooksInv
    <3>2. \A p \in Pool : PutInFor(p)' = PutInFor(p)
      BY PutInIsWater
    <3>3. QED
      BY <3>1, <3>2
  <2>2. \A e \in Event : Credited(e)' => Credited(e)
    BY DEF Credited, Logging
  <2>3. \A e \in Event : Credited(e)' =>
         credit'[e] = IF event'[e].state = "current" THEN CreditOf(event'[e], put'[e]) ELSE {}
    BY <2>2 DEF InOrderInv, BooksInv
  <2>4. QED
    BY <2>1, <2>3 DEF BooksInv
<1>5. QED
  BY <1>1, <1>2, <1>3, <1>4 DEF InOrderInv

\* The fields of a request that begins.
LEMMA BegunIs ==
  ASSUME NEW X, NEW e, NEW n, NEW was, NEW now, NEW at, NEW looked, NEW ch,
         Begun(X, e, n, was, now, at, looked, ch)
  PROVE  /\ X.pc = "takeback" /\ X.for = e /\ X.new = n /\ X.was = was /\ X.now = now
         /\ X.site = at /\ X.looked = looked /\ X.events = ch /\ X.pools = Nothing
         /\ X.credits = Nothing /\ X.puts = Nothing
BY DEF Begun

\* A request that begins alone on an event that counts finds the books in order.
LEMMA BegunWorks ==
  ASSUME TypesInv, TypesInv', InOrderInv, NEW s \in Session, eventReq[s].pc = "idle",
         NEW e \in Event, event[e].state = "current", NEW n, NEW now, NEW at, NEW looked, NEW ch,
         NEW X, Begun(X, e, n, event[e], now, at, looked, ch),
         eventReq' = [eventReq EXCEPT ![s] = X],
         \A u \in Session \ {s} : e \notin Of(u) /\ (n # 0 => n \notin Of(u)),
         n # 0 => now.state = "current", n \notin {0, e} => event[n].state = "unused",
         DOMAIN ch = IF n # e THEN {e, n} \ {0} ELSE {},
         n # e => ch[e].state # "current", n \in DOMAIN ch => ch[n] = now,
         UNCHANGED <<event, pool, credit, put>>
  PROVE  InOrderInv'
<1>1. /\ X.pc = "takeback" /\ X.for = e /\ X.new = n /\ X.was = event[e] /\ X.now = now
      /\ X.events = ch /\ X.pools = Nothing /\ X.credits = Nothing /\ X.puts = Nothing
  BY BegunIs
<1>2. eventReq'[s] = X /\ \A u \in Session \ {s} : eventReq'[u] = eventReq[u]
  BY OneMoves DEF TypesInv
<1>3. Of(s)' = {e, n} \ {0} /\ Changing(s)' /\ ~Logging(s)' /\ ~Logging(s)
  BY <1>1, <1>2 DEF Of, Changing, Logging
<1>4. RowsInv(s)'
  BY <1>1, <1>2, <1>3, NumbersOfEvents DEF RowsInv
<1>5. DOMAIN Nothing = {}
  BY NothingIsChanges
<1>6. PlacesGivenInv(s)'
  BY <1>1, <1>2, <1>3, <1>5 DEF PlacesGivenInv
<1>7. PoolsInv(s)'
  <2> SUFFICES ASSUME NEW p \in Pool
               PROVE  Over(pool', X.pools)[p] = pool'[p] - Left(s, p)' + Joined(s, p)'
    BY <1>2 DEF PoolsInv
  <2>1. Left(s, p)' = 0 /\ Joined(s, p)' = 0
    BY <1>1, <1>2 DEF Left, Joined
  <2>2. pool' \in [Pool -> Int]
    BY TablesTyped
  <2>3. Over(pool', X.pools)[p] = pool'[p] /\ pool'[p] \in Int
    BY <1>1, <1>5, <2>2 DEF Over
  <2>4. QED
    BY <2>1, <2>3
<1>8. WorkInv(s)'
  BY <1>3, <1>4, <1>6, <1>7 DEF WorkInv
<1>9. \A u \in Session \ {s} : /\ Of(s)' \cap Of(u) = {}
                               /\ DOMAIN eventReq'[s].pools \cap DOMAIN eventReq[u].pools = {}
  <2> SUFFICES ASSUME NEW u \in Session \ {s}
               PROVE  /\ Of(s)' \cap Of(u) = {}
                      /\ DOMAIN eventReq'[s].pools \cap DOMAIN eventReq[u].pools = {}
    OBVIOUS
  <2>1. e \notin Of(u) /\ (n # 0 => n \notin Of(u))
    OBVIOUS
  <2>2. DOMAIN eventReq'[s].pools = {}
    BY <1>1, <1>2, <1>5
  <2>3. QED
    BY <1>3, <2>1, <2>2
<1>10. QED
  BY <1>2, <1>3, <1>8, <1>9, QuietStep

\* Nobody else is at work on an event that AtWork does not find.
LEMMA NotAtWork ==
  ASSUME NEW s \in Session, NEW e, ~AtWork(s, e)
  PROVE  \A u \in Session \ {s} : e \notin Of(u)
BY DEF AtWork, Of

\* An edit begins in order.
LEMMA EditWorks ==
  ASSUME TypesInv, TypesInv', InOrderInv, NEW s \in Session, NEW e \in Event, NEW row,
         row \in EventRow, row.state = "current", Edit(s, e, row), ~astray'
  PROVE  InOrderInv'
<1>1. /\ eventReq[s].pc = "idle" /\ ~AtWork(s, e) /\ event[e].state = "current"
      /\ UNCHANGED <<event, pool, credit, put>>
  BY DEF Edit, Free
<1>2. [row EXCEPT !.state = event[e].state] = row
  BY <1>1 DEF EventRow
<1>3. PICK X : /\ eventReq' = [eventReq EXCEPT ![s] = X]
               /\ Begun(X, e, e, event[e], row, site, TRUE, Nothing)
  <2>1. PICK now : now = [row EXCEPT !.state = event[e].state]
    OBVIOUS
  <2>2. PICK X : /\ eventReq' = [eventReq EXCEPT ![s] = X]
                 /\ Begun(X, e, e, event[e], now, site, TRUE, Nothing)
    BY <2>1, EditMakes
  <2>3. now = row
    BY <2>1, <1>2
  <2>4. QED
    BY <2>2, <2>3
<1>4. \A u \in Session \ {s} : e \notin Of(u)
  BY <1>1, NotAtWork
<1>5. DOMAIN Nothing = {}
  BY NothingIsChanges
<1>6. PICK n, ch : n = e /\ ch = Nothing
  OBVIOUS
<1>7. /\ Begun(X, e, n, event[e], row, site, TRUE, ch)
      /\ DOMAIN ch = IF n # e THEN {e, n} \ {0} ELSE {}
      /\ n \notin {0, e} => event[n].state = "unused"
      /\ n # e => ch[e].state # "current"
      /\ n \in DOMAIN ch => ch[n] = row
      /\ \A u \in Session \ {s} : e \notin Of(u) /\ (n # 0 => n \notin Of(u))
  BY <1>3, <1>4, <1>5, <1>6
<1>8. QED
  BY <1>1, <1>3, <1>7, BegunWorks

\* A void.
LEMMA VoidWorks ==
  ASSUME TypesInv, TypesInv', InOrderInv, NEW s \in Session, NEW e \in Event,
         VoidEvent(s, e), ~astray'
  PROVE  InOrderInv'
<1>1. /\ eventReq[s].pc = "idle" /\ ~AtWork(s, e) /\ event[e].state = "current"
      /\ UNCHANGED <<event, pool, credit, put>>
  BY DEF VoidEvent, Free
<1>2. PICK row : row = [event[e] EXCEPT !.state = "voided"]
  OBVIOUS
<1>3. row.state = "voided"
  BY <1>2, TablesTyped DEF EventRow
<1>4. PICK ch : ch = With(Nothing, e, row)
  OBVIOUS
<1>5. PICK X : /\ eventReq' = [eventReq EXCEPT ![s] = X]
               /\ Begun(X, e, 0, event[e], NoEvent, Nowhere, FALSE, ch)
  BY <1>2, <1>4, VoidMakes
<1>6. \A u \in Session \ {s} : e \notin Of(u)
  BY <1>1, NotAtWork
<1>7. DOMAIN Nothing = {}
  BY NothingIsChanges
<1>8. DOMAIN ch = {e} /\ ch[e] = row
  BY <1>4, <1>7 DEF With
<1>9. PICK n : n = 0
  OBVIOUS
<1>10. /\ Begun(X, e, n, event[e], NoEvent, Nowhere, FALSE, ch)
       /\ DOMAIN ch = IF n # e THEN {e, n} \ {0} ELSE {}
       /\ n \notin {0, e} => event[n].state = "unused"
       /\ n # 0 => NoEvent.state = "current"
       /\ n # e => ch[e].state # "current"
       /\ n \in DOMAIN ch => ch[n] = NoEvent
       /\ \A u \in Session \ {s} : e \notin Of(u) /\ (n # 0 => n \notin Of(u))
  BY <1>3, <1>5, <1>6, <1>8, <1>9, NumbersOfEvents
<1>11. QED
  BY <1>1, <1>5, <1>10, BegunWorks

\* A correction.
LEMMA CorrectWorks ==
  ASSUME TypesInv, TypesInv', InOrderInv, NEW s \in Session, NEW e \in Event, NEW row,
         row.state = "current", CorrectEvent(s, e, row), ~astray'
  PROVE  InOrderInv'
<1>1. /\ eventReq[s].pc = "idle" /\ ~AtWork(s, e) /\ event[e].state = "current"
      /\ UNCHANGED <<event, pool, credit, put>>
  BY DEF CorrectEvent, Free
<1>2. PICK old : old = [event[e] EXCEPT !.state = "replaced"]
  OBVIOUS
<1>3. old.state = "replaced"
  BY <1>2, TablesTyped DEF EventRow
<1>4. PICK n \in NewEvent : \E X :
        /\ eventReq' = [eventReq EXCEPT ![s] = X]
        /\ Begun(X, e, n, event[e], row, Nowhere, FALSE, With(With(Nothing, e, old), n, row))
  BY <1>2, CorrectMakes
<1>5. PICK ch : ch = With(With(Nothing, e, old), n, row)
  OBVIOUS
<1>6. PICK X : /\ eventReq' = [eventReq EXCEPT ![s] = X]
               /\ Begun(X, e, n, event[e], row, Nowhere, FALSE, ch)
  BY <1>4, <1>5
<1>7. /\ n \in Event /\ n # 0 /\ event[n].state = "unused"
      /\ \A u \in Session : n \notin Of(u)
  BY NewIsNobodys
<1>8. \A u \in Session \ {s} : e \notin Of(u)
  BY <1>1, NotAtWork
<1>9. DOMAIN Nothing = {} /\ n # e
  BY <1>1, <1>7, NothingIsChanges
<1>10. DOMAIN ch = {e, n} /\ ch[e] = old /\ ch[n] = row
  BY <1>5, <1>9 DEF With
<1>11. /\ DOMAIN ch = IF n # e THEN {e, n} \ {0} ELSE {}
       /\ n \notin {0, e} => event[n].state = "unused"
       /\ n # e => ch[e].state # "current"
       /\ n \in DOMAIN ch => ch[n] = row
       /\ \A u \in Session \ {s} : e \notin Of(u) /\ (n # 0 => n \notin Of(u))
  BY <1>3, <1>7, <1>8, <1>10, NumbersOfEvents
<1>12. QED
  BY <1>1, <1>6, <1>11, BegunWorks

\* What holds of a request that changes an event.
LEMMA ChangingHas ==
  ASSUME TypesInv, InOrderInv, NEW s \in Session, Changing(s)
  PROVE  /\ RowsInv(s) /\ PlacesGivenInv(s) /\ PoolsInv(s) /\ HasInv(s)
         /\ eventReq[s].for \in Event /\ eventReq[s].for # 0 /\ eventReq[s].for \in Of(s)
         /\ Given(eventReq[s].was) /\ (eventReq[s].new # 0 => Given(eventReq[s].now))
         /\ eventReq[s].was.volume \in Nat
         /\ (eventReq[s].new # 0 => eventReq[s].now.volume \in Nat)
<1>1. HasInv(s) /\ WorkInv(s)
  BY RequestHas DEF InOrderInv
<1>2. /\ eventReq[s].for \in Event /\ Given(eventReq[s].was)
      /\ (eventReq[s].new # 0 => Given(eventReq[s].now))
  BY <1>1 DEF HasInv
<1>3. eventReq[s].for # 0 /\ eventReq[s].for \in Of(s)
  BY <1>2, NumbersOfEvents DEF Of
<1>4. RowsInv(s) /\ PlacesGivenInv(s) /\ PoolsInv(s)
  BY <1>1 DEF WorkInv
<1>5. /\ eventReq[s].was.volume \in Nat
      /\ (eventReq[s].new # 0 => eventReq[s].now.volume \in Nat)
  BY <1>2, NumbersOfEvents DEF Given
<1>6. QED
  BY <1>1, <1>2, <1>3, <1>4, <1>5

\* A request that goes on takes no other's pool.
PoolsApart(s) ==
  \A p \in DOMAIN eventReq'[s].pools : p \in DOMAIN eventReq[s].pools \/ ~PoolHeld(s, p)

\* It keeps the books in order when what it has done stays in order.
LEMMA GoneOnWorks ==
  ASSUME TypesInv, TypesInv', InOrderInv, NEW s \in Session, Changing(s), Changing(s)',
         eventReq'[s].for = eventReq[s].for, eventReq'[s].new = eventReq[s].new,
         \A u \in Session \ {s} : eventReq'[u] = eventReq[u],
         UNCHANGED <<event, pool, credit, put>>, PoolsApart(s),
         RowsInv(s)', PlacesGivenInv(s)', PoolsInv(s)'
  PROVE  InOrderInv'
<1>1. ~Logging(s) /\ ~Logging(s)' /\ Of(s)' = Of(s)
  BY DEF Changing, Logging, Of
<1>2. WorkInv(s)'
  BY <1>1 DEF WorkInv
<1>3. ASSUME NEW u \in Session \ {s}
      PROVE  /\ Of(s)' \cap Of(u) = {}
             /\ DOMAIN eventReq'[s].pools \cap DOMAIN eventReq[u].pools = {}
  <2>1. Of(s) \cap Of(u) = {} /\ DOMAIN eventReq[s].pools \cap DOMAIN eventReq[u].pools = {}
    BY DEF InOrderInv, ApartInv
  <2>2. \A p \in DOMAIN eventReq'[s].pools : p \notin DOMAIN eventReq[u].pools
    BY <2>1 DEF PoolHeld, PoolsApart
  <2>3. QED
    BY <2>1, <2>2, <1>1
<1>4. QED
  BY <1>1, <1>2, <1>3, QuietStep

\* The pools a request has changed once an amount is deposited.
DepositedIn(s, pools, p, amount) ==
  /\ DOMAIN pools = DOMAIN eventReq[s].pools \cup {p}
  /\ \A q \in Pool : Over(pool, pools)[q]
       = IF q = p THEN Over(pool, eventReq[s].pools)[q] + amount
         ELSE Over(pool, eventReq[s].pools)[q]

\* They are those it had and the one deposited in.
LEMMA DepositedReads ==
  ASSUME TypesInv, NEW s \in Session, NEW p \in Pool, NEW amount \in Int
  PROVE  DepositedIn(s, Deposited(s, p, amount), p, amount)
<1>1. PICK changed : changed = Deposited(s, p, amount)
  OBVIOUS
<1>2. pool \in [Pool -> Int]
  BY TablesTyped
<1>3. PICK read : read = Over(pool, eventReq[s].pools)[p] + amount
  OBVIOUS
<1>4. /\ DOMAIN changed = DOMAIN eventReq[s].pools \cup {p} /\ changed[p] = read
      /\ \A q \in DOMAIN eventReq[s].pools : q # p => changed[q] = eventReq[s].pools[q]
  BY <1>1, <1>3 DEF Deposited, With
<1>5. \A q \in Pool : Over(pool, changed)[q] = IF q \in DOMAIN changed THEN changed[q] ELSE pool[q]
  BY <1>2 DEF Over
<1>6. \A q \in Pool : Over(pool, eventReq[s].pools)[q]
        = IF q \in DOMAIN eventReq[s].pools THEN eventReq[s].pools[q] ELSE pool[q]
  BY <1>2 DEF Over
<1>7. DepositedIn(s, changed, p, amount)
  BY <1>3, <1>4, <1>5, <1>6 DEF DepositedIn
<1>8. QED
  BY <1>1, <1>7

\* Taking back from the zone that was put in is in order.
LEMMA TakeBackWorks ==
  ASSUME TypesInv, TypesInv', InOrderInv, NEW s \in Session, TakeBack(s), ~astray'
  PROVE  InOrderInv'
<1>1. PICK r : r = eventReq[s]
  OBVIOUS
<1>2. PICK z \in Zone \cup {Nobody} : \E X : TakenBack(s, z, X)
  BY TakeBackMakes
<1>3. PICK X : TakenBack(s, z, X)
  BY <1>2
<1>4. /\ r.pc = "takeback" /\ z = put[r.for].zone /\ UNCHANGED <<event, pool, credit, put>>
      /\ z # Nobody => ~PoolHeld(s, <<z, r.was.year>>)
  BY <1>1, <1>3 DEF TakeBack, TakenBack
<1>5. /\ Changing(s) /\ RowsInv(s) /\ PlacesGivenInv(s) /\ PoolsInv(s)
      /\ r.for \in Event /\ r.for # 0 /\ Given(r.was) /\ r.was.volume \in Nat
      /\ r.for \in Of(s)
  <2>1. Changing(s)
    BY <1>1, <1>4 DEF Changing
  <2>2. QED
    BY <2>1, <1>1, ChangingHas
<1>6. PICK pc : pc = IF r.new = 0 THEN "commit" ELSE IF r.new = r.for THEN "save" ELSE "putin"
  OBVIOUS
<1>7. PICK pools : pools = IF z = Nobody THEN r.pools
                           ELSE Deposited(s, <<z, r.was.year>>, -r.was.volume)
  OBVIOUS
<1>8. PICK credits, puts : /\ credits = With(r.credits, r.for, {})
                         /\ puts = With(r.puts, r.for, Nowhere)
  OBVIOUS
<1>9. /\ GoneOn(X, r, pc, r.events, pools, credits, puts)
      /\ eventReq' = [eventReq EXCEPT ![s] = X]
  BY <1>1, <1>3, <1>6, <1>7, <1>8 DEF TakenBack
<1>10. eventReq'[s] = X
  BY <1>9, OneMoves DEF TypesInv
<1>11. /\ X.pc = pc /\ X.for = r.for /\ X.new = r.new /\ X.was = r.was /\ X.now = r.now
       /\ X.events = r.events /\ X.pools = pools /\ X.credits = credits /\ X.puts = puts
  BY <1>9, GoneOnIs
<1>12. /\ pc \in {"save", "putin", "commit"} /\ (pc = "commit" <=> r.new = 0)
       /\ (r.new # 0 => (pc = "save" <=> r.new = r.for))
  BY <1>6
<1>13. Of(s)' = Of(s)
  BY <1>1, <1>10, <1>11 DEF Of
<1>14. RowsInv(s)'
  <2>1. /\ event[r.for] = r.was /\ r.was.state = "current"
        /\ (r.new # 0 => r.now.state = "current")
        /\ (r.new \notin {0, r.for} => event[r.new].state = "unused")
        /\ DOMAIN r.events = IF r.new # r.for THEN Of(s) ELSE {}
        /\ (r.new # r.for => r.events[r.for].state # "current")
        /\ (r.new \in DOMAIN r.events => r.events[r.new] = r.now)
    BY <1>1, <1>4, <1>5 DEF RowsInv
  <2>2. DOMAIN r.events =
          IF r.new # r.for THEN Of(s) ELSE IF pc \in {"putin", "commit"} THEN {r.for} ELSE {}
    BY <2>1, <1>5, <1>12
  <2>3. QED
    BY <2>1, <2>2, <1>4, <1>10, <1>11, <1>13 DEF RowsInv
<1>15. /\ DOMAIN puts = DOMAIN r.puts \cup {r.for} /\ puts[r.for] = Nowhere
       /\ DOMAIN credits = DOMAIN r.credits \cup {r.for} /\ credits[r.for] = {}
  BY <1>8 DEF With
<1>16. PlacesGivenInv(s)'
  <2>1. /\ DOMAIN r.puts \subseteq Of(s) /\ DOMAIN r.credits \subseteq Of(s)
        /\ r.new # r.for => r.new \notin DOMAIN r.puts \cup DOMAIN r.credits
    BY <1>1, <1>4, <1>5 DEF PlacesGivenInv
  <2>2. DOMAIN puts \subseteq Of(s) /\ DOMAIN credits \subseteq Of(s)
    BY <2>1, <1>5, <1>15
  <2>3. r.new # r.for => r.new \notin DOMAIN puts \cup DOMAIN credits
    BY <2>1, <1>15
  <2>4. r.for \in DOMAIN puts \cap DOMAIN credits
    BY <1>15
  <2>5. ~(pc = "commit" /\ r.new # 0)
    BY <1>12
  <2>6. QED
    BY <2>2, <2>3, <2>4, <2>5, <1>10, <1>11, <1>13, <1>15 DEF PlacesGivenInv
<1>17. z # Nobody => /\ <<z, r.was.year>> \in Pool /\ -r.was.volume \in Int
                     /\ pools = Deposited(s, <<z, r.was.year>>, -r.was.volume)
  <2>1. z # Nobody => z \in Zone /\ r.was.year \in Year
    BY <1>2, <1>5 DEF Given
  <2>2. -r.was.volume \in Int
    BY <1>5
  <2>3. QED
    BY <2>1, <2>2, <1>7 DEF Pool
<1>18. PICK own, amount : own = <<z, r.was.year>> /\ amount = -r.was.volume
  OBVIOUS
<1>19. z # Nobody => DepositedIn(s, pools, own, amount)
  <2> SUFFICES ASSUME z # Nobody PROVE DepositedIn(s, pools, own, amount)
    OBVIOUS
  <2>1. own \in Pool /\ amount \in Int /\ pools = Deposited(s, own, amount)
    BY <1>17, <1>18
  <2>2. DepositedIn(s, Deposited(s, own, amount), own, amount)
    BY <2>1, DepositedReads
  <2>3. QED
    BY <2>1, <2>2
<1>20. PoolsInv(s)'
  <2> SUFFICES ASSUME NEW p \in Pool
               PROVE  Over(pool, pools)[p] = pool[p] - Left(s, p)' + Joined(s, p)'
    BY <1>4, <1>10, <1>11 DEF PoolsInv
  <2>1. Joined(s, p)' = 0
    BY <1>10, <1>11, <1>12 DEF Joined
  <2>2. Left(s, p)' = IF <<z, r.was.year>> = p THEN r.was.volume ELSE 0
    BY <1>4, <1>10, <1>11, <1>12 DEF Left
  <2>3. Over(pool, r.pools)[p] = pool[p] /\ pool[p] \in Int
    <3>1. Over(pool, r.pools)[p] = pool[p] - Left(s, p) + Joined(s, p)
      BY <1>1, <1>5 DEF PoolsInv
    <3>2. Left(s, p) = 0 /\ Joined(s, p) = 0
      BY <1>1, <1>4 DEF Left, Joined
    <3>3. pool[p] \in Int
      BY TablesTyped
    <3>4. QED
      BY <3>1, <3>2, <3>3
  <2>4. CASE z = Nobody
    <3>1. <<z, r.was.year>> # p /\ pools = r.pools
      BY <2>4, <1>7, NumbersOfEvents DEF Pool
    <3>2. QED
      BY <2>1, <2>2, <2>3, <3>1
  <2>5. CASE z # Nobody
    <3>1. Over(pool, pools)[p]
            = IF p = <<z, r.was.year>> THEN Over(pool, r.pools)[p] + (-r.was.volume)
              ELSE Over(pool, r.pools)[p]
      BY <1>1, <1>18, <1>19, <2>5 DEF DepositedIn
    <3>2. QED
      BY <2>1, <2>2, <2>3, <3>1, <1>5
  <2>6. QED
    BY <2>4, <2>5
<1>21. \A p \in DOMAIN pools : p \in DOMAIN eventReq[s].pools \/ ~PoolHeld(s, p)
  <2>1. CASE z = Nobody
    BY <2>1, <1>1, <1>7
  <2>2. CASE z # Nobody
    <3>1. DOMAIN pools = DOMAIN eventReq[s].pools \cup {<<z, r.was.year>>}
      BY <2>2, <1>18, <1>19 DEF DepositedIn
    <3>2. QED
      BY <2>2, <3>1, <1>4
  <2>3. QED
    BY <2>1, <2>2
<1>22. PoolsApart(s)
  BY <1>10, <1>11, <1>21 DEF PoolsApart
<1>23. /\ Changing(s)' /\ eventReq'[s].for = eventReq[s].for /\ eventReq'[s].new = eventReq[s].new
       /\ \A u \in Session \ {s} : eventReq'[u] = eventReq[u]
  <2>1. \A u \in Session \ {s} : eventReq'[u] = eventReq[u]
    BY <1>9, OneMoves DEF TypesInv
  <2>2. QED
    BY <2>1, <1>1, <1>10, <1>11, <1>12 DEF Changing
<1>24. QED
  BY <1>4, <1>5, <1>14, <1>16, <1>20, <1>22, <1>23, GoneOnWorks

\* Saving an edit is in order.
LEMMA SaveEditWorks ==
  ASSUME TypesInv, TypesInv', InOrderInv, NEW s \in Session, SaveEdit(s)
  PROVE  InOrderInv'
<1>1. PICK r : r = eventReq[s]
  OBVIOUS
<1>2. PICK X : Saved(s, X)
  BY SaveEditMakes
<1>3. r.pc = "save" /\ UNCHANGED <<event, pool, credit, put>>
  BY <1>1 DEF SaveEdit
<1>4. /\ Changing(s) /\ RowsInv(s) /\ PlacesGivenInv(s) /\ PoolsInv(s)
      /\ r.for \in Event /\ r.for # 0 /\ r.new = r.for /\ r.for \in Of(s)
  <2>1. Changing(s)
    BY <1>1, <1>3 DEF Changing
  <2>2. QED
    BY <2>1, <1>1, <1>3, ChangingHas DEF HasInv
<1>5. PICK events : events = With(r.events, r.for, r.now)
  OBVIOUS
<1>6. /\ GoneOn(X, r, "putin", events, r.pools, r.credits, r.puts)
      /\ eventReq' = [eventReq EXCEPT ![s] = X]
  BY <1>1, <1>2, <1>5 DEF Saved
<1>7. eventReq'[s] = X /\ \A u \in Session \ {s} : eventReq'[u] = eventReq[u]
  BY <1>6, OneMoves DEF TypesInv
<1>8. /\ X.pc = "putin" /\ X.for = r.for /\ X.new = r.new /\ X.was = r.was /\ X.now = r.now
      /\ X.events = events /\ X.pools = r.pools /\ X.credits = r.credits /\ X.puts = r.puts
  BY <1>6, GoneOnIs
<1>9. Of(s)' = Of(s) /\ Changing(s)'
  BY <1>1, <1>7, <1>8 DEF Of, Changing
<1>10. RowsInv(s)'
  <2>1. /\ event[r.for] = r.was /\ r.was.state = "current" /\ r.now.state = "current"
        /\ DOMAIN r.events = {}
    BY <1>1, <1>3, <1>4 DEF RowsInv
  <2>2. DOMAIN events = {r.for} /\ events[r.for] = r.now
    BY <1>5, <2>1 DEF With
  <2>3. QED
    BY <2>1, <2>2, <1>3, <1>4, <1>7, <1>8 DEF RowsInv
<1>11. PlacesGivenInv(s)'
  BY <1>1, <1>3, <1>4, <1>7, <1>8, <1>9 DEF PlacesGivenInv
<1>12. PoolsInv(s)'
  <2>1. \A p \in Pool : Left(s, p)' = Left(s, p) /\ Joined(s, p)' = Joined(s, p)
    BY <1>1, <1>3, <1>7, <1>8 DEF Left, Joined
  <2>2. QED
    BY <2>1, <1>1, <1>3, <1>4, <1>7, <1>8 DEF PoolsInv
<1>13. PoolsApart(s)
  BY <1>1, <1>7, <1>8 DEF PoolsApart
<1>14. eventReq'[s].for = eventReq[s].for /\ eventReq'[s].new = eventReq[s].new
  BY <1>1, <1>7, <1>8
<1>15. QED
  BY <1>3, <1>4, <1>7, <1>9, <1>10, <1>11, <1>12, <1>13, <1>14, GoneOnWorks

\* So is putting the new figures in where the site is now.
LEMMA PutInWorks ==
  ASSUME TypesInv, TypesInv', InOrderInv, NEW s \in Session, PutIn(s)
  PROVE  InOrderInv'
<1>1. PICK r : r = eventReq[s]
  OBVIOUS
<1>2. PICK X : HasPutIn(s, X)
  BY PutInMakes
<1>3. /\ r.pc = "putin" /\ UNCHANGED <<event, pool, credit, put>>
      /\ site.zone # Nobody => ~PoolHeld(s, <<site.zone, r.now.year>>)
  BY <1>1 DEF PutIn
<1>4. /\ Changing(s) /\ RowsInv(s) /\ PlacesGivenInv(s) /\ PoolsInv(s)
      /\ r.for \in Event /\ r.for # 0 /\ r.for \in Of(s)
      /\ r.new # 0 /\ r.new \in Event /\ r.new \in Of(s)
      /\ Given(r.now) /\ r.now.volume \in Nat
  <2>1. Changing(s)
    BY <1>1, <1>3 DEF Changing
  <2>2. r.new # 0 /\ r.new \in Event
    BY <2>1, <1>1, <1>3, ChangingHas, RequestHas DEF HasInv
  <2>3. QED
    BY <2>1, <2>2, <1>1, ChangingHas DEF Of
<1>5. PICK pools : pools = IF site.zone # Nobody
                           THEN Deposited(s, <<site.zone, r.now.year>>, r.now.volume) ELSE r.pools
  OBVIOUS
<1>6. PICK credits : credits = IF site.zone # Nobody
                               THEN With(r.credits, r.new, CreditOf(r.now, site)) ELSE r.credits
  OBVIOUS
<1>7. PICK puts : puts = IF site.zone # Nobody THEN With(r.puts, r.new, site) ELSE r.puts
  OBVIOUS
<1>8. /\ GoneOn(X, r, "commit", r.events, pools, credits, puts)
      /\ eventReq' = [eventReq EXCEPT ![s] = X]
  BY <1>1, <1>2, <1>5, <1>6, <1>7 DEF HasPutIn
<1>9. eventReq'[s] = X /\ \A u \in Session \ {s} : eventReq'[u] = eventReq[u]
  BY <1>8, OneMoves DEF TypesInv
<1>10. /\ X.pc = "commit" /\ X.for = r.for /\ X.new = r.new /\ X.was = r.was /\ X.now = r.now
       /\ X.events = r.events /\ X.pools = pools /\ X.credits = credits /\ X.puts = puts
  BY <1>8, GoneOnIs
<1>11. Of(s)' = Of(s) /\ Changing(s)'
  BY <1>1, <1>9, <1>10 DEF Of, Changing
<1>12. RowsInv(s)'
  BY <1>1, <1>3, <1>4, <1>9, <1>10, <1>11 DEF RowsInv
<1>13. /\ DOMAIN r.puts \subseteq Of(s) /\ DOMAIN r.credits \subseteq Of(s)
       /\ r.for \in DOMAIN r.puts \cap DOMAIN r.credits
       /\ r.puts[r.for] = Nowhere /\ r.credits[r.for] = {}
       /\ r.new # r.for => r.new \notin DOMAIN r.puts \cup DOMAIN r.credits
  BY <1>1, <1>3, <1>4 DEF PlacesGivenInv
<1>14. credit \in [Event -> SUBSET Credit] /\ put \in [Event -> Site] /\ site \in Site
  BY TablesTyped
<1>15. Over(put, puts)[r.new] = IF site.zone # Nobody THEN site ELSE Nowhere
  <2>1. CASE site.zone # Nobody
    <3>1. r.new \in DOMAIN puts /\ puts[r.new] = site
      BY <2>1, <1>7 DEF With
    <3>2. QED
      BY <3>1, <2>1, <1>4, <1>14 DEF Over
  <2>2. CASE site.zone = Nobody
    <3>1. puts = r.puts
      BY <2>2, <1>7
    <3>2. CASE r.new = r.for
      BY <3>1, <3>2, <2>2, <1>4, <1>13, <1>14 DEF Over
    <3>3. CASE r.new # r.for
      <4>1. event[r.new].state = "unused"
        BY <3>3, <1>1, <1>4 DEF RowsInv
      <4>2. put[r.new] = Nowhere
        BY <4>1, <1>4 DEF InOrderInv, UnusedInv
      <4>3. QED
        BY <4>2, <3>1, <3>3, <2>2, <1>4, <1>13, <1>14 DEF Over
    <3>4. QED
      BY <3>2, <3>3
  <2>3. QED
    BY <2>1, <2>2
<1>16. Over(credit, credits)[r.new] = CreditOf(r.now, Over(put, puts)[r.new])
  <2>1. CASE site.zone # Nobody
    <3>1. r.new \in DOMAIN credits /\ credits[r.new] = CreditOf(r.now, site)
      BY <2>1, <1>6 DEF With
    <3>2. QED
      BY <3>1, <2>1, <1>4, <1>14, <1>15 DEF Over
  <2>2. CASE site.zone = Nobody
    <3>1. credits = r.credits /\ Over(put, puts)[r.new] = Nowhere
      BY <2>2, <1>6, <1>15
    <3>2. CreditOf(r.now, Nowhere) = {}
      BY DEF CreditOf, Nowhere
    <3>3. Over(credit, credits)[r.new] = {}
      <4>1. CASE r.new = r.for
        BY <4>1, <3>1, <1>4, <1>13, <1>14 DEF Over
      <4>2. CASE r.new # r.for
        <5>1. event[r.new].state = "unused"
          BY <4>2, <1>1, <1>4 DEF RowsInv
        <5>2. credit[r.new] = {}
          BY <5>1, <1>4 DEF InOrderInv, UnusedInv
        <5>3. QED
          BY <5>2, <3>1, <4>2, <1>4, <1>13, <1>14 DEF Over
      <4>3. QED
        BY <4>1, <4>2
    <3>4. QED
      BY <3>1, <3>2, <3>3
  <2>3. QED
    BY <2>1, <2>2
<1>17. /\ DOMAIN puts \subseteq Of(s) /\ DOMAIN credits \subseteq Of(s)
       /\ r.for \in DOMAIN puts \cap DOMAIN credits
       /\ r.new # r.for => puts[r.for] = Nowhere /\ credits[r.for] = {}
  <2>1. CASE site.zone # Nobody
    <3>1. /\ puts = With(r.puts, r.new, site)
          /\ credits = With(r.credits, r.new, CreditOf(r.now, site))
      BY <2>1, <1>6, <1>7
    <3>2. QED
      BY <3>1, <1>4, <1>13 DEF With
  <2>2. CASE site.zone = Nobody
    BY <2>2, <1>6, <1>7, <1>13
  <2>3. QED
    BY <2>1, <2>2
<1>18. PlacesGivenInv(s)'
  BY <1>3, <1>9, <1>10, <1>11, <1>16, <1>17 DEF PlacesGivenInv
<1>19. PICK own, amount : own = <<site.zone, r.now.year>> /\ amount = r.now.volume
  OBVIOUS
<1>20. site.zone # Nobody => own \in Pool /\ DepositedIn(s, pools, own, amount)
  <2> SUFFICES ASSUME site.zone # Nobody PROVE own \in Pool /\ DepositedIn(s, pools, own, amount)
    OBVIOUS
  <2>1. site.zone \in Zone /\ r.now.year \in Year
    BY <1>4, <1>14 DEF Site, Given
  <2>2. own \in Pool /\ amount \in Int /\ pools = Deposited(s, own, amount)
    BY <2>1, <1>4, <1>5, <1>19 DEF Pool
  <2>3. DepositedIn(s, Deposited(s, own, amount), own, amount)
    BY <2>2, DepositedReads
  <2>4. QED
    BY <2>2, <2>3
<1>21. PoolsInv(s)'
  <2> SUFFICES ASSUME NEW p \in Pool
               PROVE  Over(pool, pools)[p] = pool[p] - Left(s, p)' + Joined(s, p)'
    BY <1>3, <1>9, <1>10 DEF PoolsInv
  <2>1. Left(s, p)' = Left(s, p) /\ Left(s, p) \in Int
    BY <1>1, <1>3, <1>4, <1>9, <1>10, LeftJoined DEF Left
  <2>2. Over(pool, r.pools)[p] = pool[p] - Left(s, p) /\ pool[p] \in Int
    <3>1. Over(pool, r.pools)[p] = pool[p] - Left(s, p) + Joined(s, p)
      BY <1>1, <1>4 DEF PoolsInv
    <3>2. Joined(s, p) = 0
      BY <1>1, <1>3 DEF Joined
    <3>3. pool[p] \in Int
      BY TablesTyped
    <3>4. QED
      BY <3>1, <3>2, <3>3, <2>1
  <2>3. CASE site.zone = Nobody
    <3>1. pools = r.pools /\ Over(put, puts)[r.new].zone = Nobody
      BY <2>3, <1>5, <1>15 DEF Nowhere
    <3>2. <<Over(put, puts)[r.new].zone, r.now.year>> # p
      BY <3>1, NumbersOfEvents DEF Pool
    <3>3. Joined(s, p)' = 0
      BY <3>2, <1>3, <1>9, <1>10 DEF Joined
    <3>4. QED
      BY <2>1, <2>2, <3>1, <3>3
  <2>4. CASE site.zone # Nobody
    <3>1. Joined(s, p)' = IF own = p THEN amount ELSE 0
      BY <2>4, <1>3, <1>4, <1>9, <1>10, <1>15, <1>19 DEF Joined
    <3>2. Over(pool, pools)[p] = IF p = own THEN Over(pool, r.pools)[p] + amount
                                 ELSE Over(pool, r.pools)[p]
      BY <2>4, <1>1, <1>20 DEF DepositedIn
    <3>3. amount \in Int
      BY <1>4, <1>19
    <3>4. QED
      BY <2>1, <2>2, <3>1, <3>2, <3>3
  <2>5. QED
    BY <2>3, <2>4
<1>22. PoolsApart(s)
  <2>1. CASE site.zone = Nobody
    BY <2>1, <1>1, <1>5, <1>9, <1>10 DEF PoolsApart
  <2>2. CASE site.zone # Nobody
    <3>1. DOMAIN pools = DOMAIN eventReq[s].pools \cup {own} /\ ~PoolHeld(s, own)
      BY <2>2, <1>3, <1>19, <1>20 DEF DepositedIn
    <3>2. QED
      BY <3>1, <1>9, <1>10 DEF PoolsApart
  <2>3. QED
    BY <2>1, <2>2
<1>23. eventReq'[s].for = eventReq[s].for /\ eventReq'[s].new = eventReq[s].new
  BY <1>1, <1>9, <1>10
<1>24. QED
  BY <1>3, <1>4, <1>9, <1>11, <1>12, <1>18, <1>21, <1>22, <1>23, GoneOnWorks

\* A transaction rolled back leaves what was committed.
LEMMA RollbackWorks ==
  ASSUME TypesInv, TypesInv', InOrderInv, NEW s \in Session, RollbackEvent(s)
  PROVE  InOrderInv'
<1>1. /\ Changing(s) /\ eventReq' = [eventReq EXCEPT ![s] = EventIdle]
      /\ UNCHANGED <<event, pool, credit, put>>
  BY DEF RollbackEvent, Changing
<1>2. /\ ~Logging(s)' /\ ~Changing(s)' /\ Of(s)' = {} /\ DOMAIN eventReq'[s].pools = {}
      /\ \A u \in Session \ {s} : eventReq'[u] = eventReq[u]
  BY <1>1, IdleHas, OneMoves DEF TypesInv
<1>3. WorkInv(s)' /\ ~Logging(s)
  BY <1>1, <1>2 DEF WorkInv, Changing, Logging
<1>4. QED
  BY <1>1, <1>2, <1>3, QuietStep

\* What a commit makes of the event's own rows, and of the others'.
Committed(s) ==
  LET r == eventReq[s] IN
  /\ \A e \in Event \ Of(s) : event'[e] = event[e] /\ put'[e] = put[e] /\ credit'[e] = credit[e]
  /\ event[r.for] = r.was /\ r.was.state = "current"
  /\ r.new # r.for => /\ event'[r.for].state # "current"
                      /\ put'[r.for] = Nowhere /\ credit'[r.for] = {}
  /\ r.new # 0 => /\ r.new \in Event /\ event'[r.new] = r.now /\ r.now.state = "current"
                  /\ put'[r.new] = Over(put, r.puts)[r.new]
                  /\ credit'[r.new] = CreditOf(r.now, put'[r.new])
  /\ r.new \notin {0, r.for} => event[r.new].state = "unused"
  /\ \A p \in Pool : pool'[p] = pool[p] - Left(s, p) + Joined(s, p)
  /\ \A p \in Pool : p \notin DOMAIN r.pools => pool'[p] = pool[p]

\* The step CommitEvent makes that of them.
LEMMA CommitMakes ==
  ASSUME TypesInv, InOrderInv, NEW s \in Session, CommitEvent(s)
  PROVE  Committed(s) /\ Changing(s)
<1>1. PICK r : r = eventReq[s]
  OBVIOUS
<1>2. /\ r.pc = "commit" /\ event' = Over(event, r.events) /\ pool' = Over(pool, r.pools)
      /\ credit' = Over(credit, r.credits) /\ put' = Over(put, r.puts)
  BY <1>1 DEF CommitEvent
<1>3. /\ Changing(s) /\ RowsInv(s) /\ PlacesGivenInv(s) /\ PoolsInv(s)
      /\ r.for \in Event /\ r.for # 0 /\ r.for \in Of(s)
  <2>1. Changing(s)
    BY <1>1, <1>2 DEF Changing
  <2>2. QED
    BY <2>1, <1>1, ChangingHas
<1>4. /\ event \in [Event -> EventRow] /\ pool \in [Pool -> Int]
      /\ credit \in [Event -> SUBSET Credit] /\ put \in [Event -> Site]
  BY TablesTyped
<1>5. /\ \A e \in Event : event'[e] = IF e \in DOMAIN r.events THEN r.events[e] ELSE event[e]
      /\ \A e \in Event : put'[e] = IF e \in DOMAIN r.puts THEN r.puts[e] ELSE put[e]
      /\ \A e \in Event : credit'[e] = IF e \in DOMAIN r.credits THEN r.credits[e] ELSE credit[e]
      /\ \A p \in Pool : pool'[p] = IF p \in DOMAIN r.pools THEN r.pools[p] ELSE pool[p]
  BY <1>2, <1>4 DEF Over
<1>6. r.new \in Event \cup {0} /\ (r.new # 0 => r.new \in Event /\ r.new \in Of(s))
  BY <1>1, RequestHas DEF Of
<1>7. /\ event[r.for] = r.was /\ r.was.state = "current" /\ (r.new # 0 => r.now.state = "current")
      /\ (r.new \notin {0, r.for} => event[r.new].state = "unused")
      /\ DOMAIN r.events = IF r.new # r.for THEN Of(s) ELSE {r.for}
      /\ (r.new # r.for => r.events[r.for].state # "current")
      /\ (r.new \in DOMAIN r.events => r.events[r.new] = r.now)
  BY <1>1, <1>2, <1>3 DEF RowsInv
<1>8. /\ DOMAIN r.puts \subseteq Of(s) /\ DOMAIN r.credits \subseteq Of(s)
      /\ r.for \in DOMAIN r.puts \cap DOMAIN r.credits
      /\ (r.new # r.for => r.puts[r.for] = Nowhere /\ r.credits[r.for] = {})
      /\ (r.new # 0 =>
            Over(credit, r.credits)[r.new] = CreditOf(r.now, Over(put, r.puts)[r.new]))
  BY <1>1, <1>2, <1>3 DEF PlacesGivenInv
<1>9. \A e \in Event \ Of(s) : event'[e] = event[e] /\ put'[e] = put[e] /\ credit'[e] = credit[e]
  BY <1>3, <1>5, <1>7, <1>8
<1>10. r.new # r.for => /\ event'[r.for].state # "current"
                        /\ put'[r.for] = Nowhere /\ credit'[r.for] = {}
  BY <1>3, <1>5, <1>7, <1>8
<1>11. r.new # 0 => /\ r.new \in Event /\ event'[r.new] = r.now /\ r.now.state = "current"
                    /\ put'[r.new] = Over(put, r.puts)[r.new]
                    /\ credit'[r.new] = CreditOf(r.now, put'[r.new])
  <2>1. r.new # 0 => r.new \in DOMAIN r.events
    BY <1>6, <1>7
  <2>2. r.new # 0 => event'[r.new] = r.now
    BY <2>1, <1>5, <1>6, <1>7
  <2>3. r.new # 0 => put'[r.new] = Over(put, r.puts)[r.new]
    BY <1>2
  <2>4. r.new # 0 => credit'[r.new] = CreditOf(r.now, put'[r.new])
    BY <1>2, <1>8
  <2>5. QED
    BY <2>2, <2>3, <2>4, <1>6, <1>7
<1>12. \A p \in Pool : pool'[p] = pool[p] - Left(s, p) + Joined(s, p)
  BY <1>1, <1>2, <1>3 DEF PoolsInv
<1>13. \A p \in Pool : p \notin DOMAIN r.pools => pool'[p] = pool[p]
  BY <1>5
<1>14. Committed(s)
  BY <1>1, <1>7, <1>9, <1>10, <1>11, <1>12, <1>13 DEF Committed
<1>15. QED
  BY <1>3, <1>14

\* The pools hold the water that counts then.
LEMMA CommitPools ==
  ASSUME TypesInv, TypesInv', InOrderInv, NEW s \in Session, Changing(s), Committed(s),
         eventReq[s].pc = "commit", NEW p \in Pool
  PROVE  pool'[p] = PutInFor(p)'
<1>1. PICK r : r = eventReq[s]
  OBVIOUS
<1>2. event \in [Event -> EventRow] /\ event' \in [Event -> EventRow]
  BY DEF TypesInv, RechargeTypeOK
<1>3. r.for \in Event /\ r.for # 0 /\ r.pc = "commit"
  BY <1>1, ChangingHas
<1>4. /\ \A e \in Event \ Of(s) : event'[e] = event[e] /\ put'[e] = put[e]
      /\ event[r.for] = r.was /\ r.was.state = "current"
      /\ r.new # r.for => event'[r.for].state # "current"
      /\ r.new # 0 => /\ r.new \in Event /\ event'[r.new] = r.now /\ r.now.state = "current"
                      /\ put'[r.new] = Over(put, r.puts)[r.new]
      /\ r.new \notin {0, r.for} => event[r.new].state = "unused"
      /\ pool'[p] = pool[p] - Left(s, p) + Joined(s, p)
  BY <1>1 DEF Committed
<1>5. Of(s) = {r.for, r.new} \ {0} /\ 0 \notin Event
  BY <1>1, NumbersOfEvents DEF Of
<1>6. PICK A, B : /\ A = Others(event, put, p, r.for) /\ B = Others(event', put', p, r.new)
  OBVIOUS
<1>7. \A e \in Event : e \in A <=>
        e # r.for /\ event[e].state = "current" /\ <<put[e].zone, event[e].year>> = p
  BY <1>6 DEF Others, There
<1>8. \A e \in Event : e \in B <=>
        e # r.new /\ event'[e].state = "current" /\ <<put'[e].zone, event'[e].year>> = p
  BY <1>6 DEF Others, There
<1>9. A \subseteq Event /\ B \subseteq Event
  BY <1>6 DEF Others, There
<1>10. \A e \in Event : e \in A => e \notin Of(s)
  <2>1. \A e \in Event : e \in A => e # r.for
    BY <1>7
  <2>2. \A e \in Event : e \in A => e # r.new \/ r.new = 0
    BY <1>4, <1>7
  <2>3. QED
    BY <2>1, <2>2, <1>5
<1>11. \A e \in Event : e \in B => e \notin Of(s)
  <2>1. \A e \in Event : e \in B => e # r.new
    BY <1>8
  <2>2. \A e \in Event : e \in B => e # r.for
    BY <1>4, <1>8, <2>1
  <2>3. QED
    BY <2>1, <2>2, <1>5
<1>12. A = B
  <2>1. \A e \in Event : e \in A => e \in B
    BY <1>4, <1>5, <1>7, <1>8, <1>10
  <2>2. \A e \in Event : e \in B => e \in A
    BY <1>4, <1>5, <1>7, <1>8, <1>11
  <2>3. QED
    BY <2>1, <2>2, <1>9
<1>13. SameVolumes(A, event, event')
  BY <1>4, <1>9, <1>10 DEF SameVolumes
<1>14. /\ Water(event, There(event, put, p)) \in Nat
       /\ Water(event', There(event', put', p))
          = Water(event, There(event, put, p)) - Part(event, put, p, r.for)
            + Part(event', put', p, r.new)
  <2>1. Others(event, put, p, r.for) = Others(event', put', p, r.new)
    BY <1>6, <1>12
  <2>2. SameVolumes(Others(event, put, p, r.for), event, event')
    BY <1>6, <1>13
  <2>3. QED
    BY <2>1, <2>2, <1>2, PartsMove
<1>15. Part(event, put, p, r.for) = Left(s, p)
  BY <1>1, <1>3, <1>4 DEF Part, There, Left
<1>16. Part(event', put', p, r.new) = Joined(s, p)
  <2>1. CASE r.new = 0
    BY <2>1, <1>1, <1>5 DEF Part, There, Joined
  <2>2. CASE r.new # 0
    BY <2>2, <1>1, <1>3, <1>4 DEF Part, There, Joined
  <2>3. QED
    BY <2>1, <2>2
<1>17. pool[p] = PutInFor(p)
  BY DEF InOrderInv, BooksInv
<1>18. /\ PutInFor(p) = Water(event, There(event, put, p))
       /\ PutInFor(p)' = Water(event', There(event', put', p))
  BY PutInIsWater
<1>19. QED
  BY <1>4, <1>14, <1>15, <1>16, <1>17, <1>18

\* A commit leaves the books in order.
LEMMA CommitWorks ==
  ASSUME TypesInv, TypesInv', InOrderInv, NEW s \in Session, CommitEvent(s)
  PROVE  InOrderInv'
<1>1. PICK r : r = eventReq[s]
  OBVIOUS
<1>2. Committed(s) /\ Changing(s) /\ r.pc = "commit"
  BY <1>1, CommitMakes DEF CommitEvent
<1>3. eventReq' = [eventReq EXCEPT ![s] = EventIdle]
  BY DEF CommitEvent
<1>4. /\ ~Logging(s)' /\ ~Changing(s)' /\ Of(s)' = {} /\ DOMAIN eventReq'[s].pools = {}
      /\ \A u \in Session \ {s} : eventReq'[u] = eventReq[u]
  BY <1>3, IdleHas, OneMoves DEF TypesInv
<1>5. /\ \A e \in Event \ Of(s) : event'[e] = event[e] /\ put'[e] = put[e] /\ credit'[e] = credit[e]
      /\ r.new # r.for => /\ event'[r.for].state # "current"
                          /\ put'[r.for] = Nowhere /\ credit'[r.for] = {}
      /\ r.new # 0 => /\ r.new \in Event /\ event'[r.new] = r.now /\ r.now.state = "current"
                      /\ credit'[r.new] = CreditOf(r.now, put'[r.new])
      /\ \A p \in Pool : p \notin DOMAIN r.pools => pool'[p] = pool[p]
  BY <1>1, <1>2 DEF Committed
<1>6. /\ r.for \in Event /\ Of(s) = {r.for, r.new} \ {0} /\ 0 \notin Event
  BY <1>1, <1>2, ChangingHas, NumbersOfEvents DEF Of
<1>7. UnusedInv'
  <2> SUFFICES ASSUME NEW e \in Event, event'[e].state = "unused"
               PROVE  put'[e] = Nowhere /\ credit'[e] = {}
    BY DEF UnusedInv
  <2>1. CASE e \notin Of(s)
    <3>1. event'[e] = event[e] /\ put'[e] = put[e] /\ credit'[e] = credit[e]
      BY <2>1, <1>5
    <3>2. QED
      BY <3>1 DEF InOrderInv, UnusedInv
  <2>2. CASE e \in Of(s)
    <3>1. e # r.new
      BY <1>5, <1>6
    <3>2. e = r.for
      BY <2>2, <3>1, <1>6
    <3>3. QED
      BY <3>1, <3>2, <1>5
  <2>3. QED
    BY <2>1, <2>2
<1>8. ApartInv'
  <2>1. \A u \in Session \ {s} : /\ Of(s)' \cap Of(u) = {}
                                 /\ DOMAIN eventReq'[s].pools \cap DOMAIN eventReq[u].pools = {}
    BY <1>4
  <2>2. QED
    BY <2>1, <1>4, ApartStays DEF InOrderInv
<1>9. ASSUME NEW u \in Session PROVE WorkInv(u)'
  <2>1. CASE u = s
    BY <2>1, <1>4 DEF WorkInv
  <2>2. CASE u # s
    <3>1. /\ eventReq'[u] = eventReq[u] /\ WorkInv(u) /\ Of(u) \cap Of(s) = {}
          /\ DOMAIN eventReq[u].pools \cap DOMAIN eventReq[s].pools = {}
      BY <2>2, <1>4 DEF InOrderInv, ApartInv
    <3>2. Of(u) \subseteq Event /\ DOMAIN eventReq[u].pools \subseteq Pool
      BY RequestHas DEF Of, IsChanges
    <3>3. \A e \in Of(u) : event'[e] = event[e] /\ put'[e] = put[e] /\ credit'[e] = credit[e]
      BY <3>1, <3>2, <1>5
    <3>4. \A p \in DOMAIN eventReq[u].pools : pool'[p] = pool[p]
      BY <3>1, <3>2, <1>1, <1>5
    <3>5. QED
      BY <3>1, <3>3, <3>4, OthersStay
  <2>3. QED
    BY <2>1, <2>2
<1>10. \A p \in Pool : pool'[p] = PutInFor(p)'
  BY <1>1, <1>2, CommitPools
<1>11. ASSUME NEW e \in Event, Credited(e)'
       PROVE  credit'[e] = IF event'[e].state = "current" THEN CreditOf(event'[e], put'[e]) ELSE {}
  <2>1. Credited(e)
    <3>1. ~Logging(s)
      BY <1>2 DEF Logging, Changing
    <3>2. QED
      BY <3>1, <1>4, <1>11 DEF Credited, Logging
  <2>2. CASE e \notin Of(s)
    <3>1. event'[e] = event[e] /\ put'[e] = put[e] /\ credit'[e] = credit[e]
      BY <2>2, <1>5
    <3>2. credit[e] = IF event[e].state = "current" THEN CreditOf(event[e], put[e]) ELSE {}
      BY <2>1 DEF InOrderInv, BooksInv
    <3>3. QED
      BY <3>1, <3>2
  <2>3. CASE e \in Of(s)
    <3>1. CASE e = r.new
      BY <3>1, <1>5, <1>6
    <3>2. CASE e # r.new
      <4>1. e = r.for
        BY <2>3, <3>2, <1>6
      <4>2. QED
        BY <4>1, <3>2, <1>5
    <3>3. QED
      BY <3>1, <3>2
  <2>4. QED
    BY <2>2, <2>3
<1>12. BooksInv'
  BY <1>10, <1>11 DEF BooksInv
<1>13. QED
  BY <1>7, <1>8, <1>9, <1>12 DEF InOrderInv

\* An event is logged with nothing put in yet.
LEMMA LogWorks ==
  ASSUME TypesInv, TypesInv', InOrderInv, NEW s \in Session, NEW row, row.state = "current",
         Log(s, row)
  PROVE  InOrderInv'
<1>1. PICK n \in NewEvent :
        /\ event' = [event EXCEPT ![n] = row]
        /\ eventReq' = [eventReq EXCEPT ![s] =
             IF site.zone = Nobody THEN EventIdle
             ELSE [EventIdle EXCEPT !.pc = "deposit", !.for = n, !.now = row, !.site = site]]
  BY DEF Log
<1>2. eventReq[s].pc = "idle" /\ UNCHANGED <<pool, credit, put>>
  BY DEF Log, Free
<1>3. /\ n \in Event /\ n # 0 /\ event[n].state = "unused" /\ put[n] = Nowhere /\ credit[n] = {}
      /\ \A u \in Session : n \notin Of(u)
  BY NewIsNobodys
<1>4. event \in [Event -> EventRow] /\ event' \in [Event -> EventRow] /\ site \in Site
  BY DEF TypesInv, RechargeTypeOK
<1>5. event'[n] = row /\ \A e \in Event : e # n => event'[e] = event[e]
  BY <1>1, <1>3, <1>4
<1>6. PICK X : X = IF site.zone = Nobody THEN EventIdle
             ELSE [EventIdle EXCEPT !.pc = "deposit", !.for = n, !.now = row, !.site = site]
  OBVIOUS
<1>7. eventReq'[s] = X /\ \A u \in Session \ {s} : eventReq'[u] = eventReq[u]
  <2>1. eventReq' = [eventReq EXCEPT ![s] = X]
    BY <1>1, <1>6
  <2>2. QED
    BY <2>1, OneMoves DEF TypesInv
<1>8. /\ X.new = 0 /\ X.events = Nothing /\ X.pools = Nothing
      /\ X.pc \in {"idle", "deposit"} /\ X.for \in {0, n}
      /\ X.pc = "deposit" => X.for = n /\ X.now = row /\ X.site = site /\ site.zone # Nobody
  <2>1. CASE site.zone = Nobody
    <3>1. X = EventIdle
      BY <2>1, <1>6
    <3>2. QED
      BY <3>1, EventIdleIsRequest
  <2>2. CASE site.zone # Nobody
    <3>1. X = [EventIdle EXCEPT !.pc = "deposit", !.for = n, !.now = row, !.site = site]
      BY <2>2, <1>6
    <3>2. /\ X.new = 0 /\ X.events = Nothing /\ X.pools = Nothing /\ X.pc = "deposit"
          /\ X.for = n /\ X.now = row /\ X.site = site
      BY <3>1 DEF EventIdle
    <3>3. QED
      BY <3>2, <2>2
  <2>3. QED
    BY <2>1, <2>2
<1>9. DOMAIN Nothing = {}
  BY NothingIsChanges
<1>10. Of(s)' \subseteq {n} /\ DOMAIN eventReq'[s].pools = {} /\ DOMAIN eventReq'[s].events = {}
  BY <1>7, <1>8, <1>9 DEF Of
<1>11. UnusedInv'
  BY <1>2, <1>3, <1>5 DEF InOrderInv, UnusedInv
<1>12. ApartInv'
  <2>1. \A u \in Session \ {s} : /\ Of(s)' \cap Of(u) = {}
                                 /\ DOMAIN eventReq'[s].pools \cap DOMAIN eventReq[u].pools = {}
    BY <1>3, <1>10
  <2>2. QED
    BY <2>1, <1>7, ApartStays DEF InOrderInv
<1>13. WorkInv(s)'
  <2>1. ~Changing(s)'
    BY <1>7, <1>8 DEF Changing
  <2>2. Logging(s)' => LogInv(s)'
    <3> SUFFICES ASSUME X.pc = "deposit" PROVE LogInv(s)'
      BY <1>7, <1>8 DEF Logging
    <3>1. site.zone \in Zone /\ put'[n] = Nowhere /\ credit'[n] = {} /\ event'[n] = row
      BY <1>2, <1>3, <1>4, <1>5, <1>8 DEF Site
    <3>2. X.for = n /\ X.now = row /\ X.site = site
      BY <1>8
    <3>3. QED
      BY <3>1, <3>2, <1>7, <1>10 DEF LogInv
  <2>3. QED
    BY <2>1, <2>2 DEF WorkInv
<1>14. ASSUME NEW u \in Session PROVE WorkInv(u)'
  <2>1. CASE u = s
    BY <2>1, <1>13
  <2>2. CASE u # s
    <3>1. eventReq'[u] = eventReq[u] /\ WorkInv(u) /\ Of(u) \subseteq Event
      BY <2>2, <1>7, RequestHas DEF InOrderInv, Of
    <3>2. /\ \A e \in Of(u) : event'[e] = event[e] /\ put'[e] = put[e] /\ credit'[e] = credit[e]
          /\ \A p \in DOMAIN eventReq[u].pools : pool'[p] = pool[p]
      BY <3>1, <1>2, <1>3, <1>5
    <3>3. QED
      BY <3>1, <3>2, OthersStay
  <2>3. QED
    BY <2>1, <2>2
<1>15. ASSUME NEW p \in Pool PROVE pool'[p] = PutInFor(p)'
  <2>1. PICK A : A = There(event, put, p)
    OBVIOUS
  <2>2. There(event', put', p) = A
    <3>1. \A e \in Event : e # n => (e \in There(event', put', p) <=> e \in A)
      BY <1>2, <1>5, <2>1 DEF There
    <3>2. n \notin A /\ n \notin There(event', put', p)
      <4>1. put'[n].zone = Nobody
        BY <1>2, <1>3 DEF Nowhere
      <4>2. <<put'[n].zone, event'[n].year>> # p
        BY <4>1, NumbersOfEvents DEF Pool
      <4>3. QED
        BY <4>2, <1>3, <2>1 DEF There
    <3>3. A \subseteq Event /\ There(event', put', p) \subseteq Event
      BY <2>1 DEF There
    <3>4. QED
      BY <3>1, <3>2, <3>3
  <2>3. SameVolumes(A, event, event')
    <3>1. \A e \in A : e \in Event /\ e # n
      BY <1>3, <2>1 DEF There
    <3>2. QED
      BY <3>1, <1>5 DEF SameVolumes
  <2>4. IsFiniteSet(A) /\ \A e \in A : event[e].volume \in Nat
    <3>1. A \subseteq There(event, put, p)
      BY <2>1
    <3>2. QED
      BY <3>1, <1>4, ThereIsSummed
  <2>5. Water(event, A) = Water(event', A)
    BY <2>3, <2>4, WaterAlike
  <2>6. PutInFor(p) = Water(event, A) /\ PutInFor(p)' = Water(event', A)
    BY <2>1, <2>2, PutInIsWater
  <2>7. QED
    BY <2>5, <2>6, <1>2 DEF InOrderInv, BooksInv
<1>16. ASSUME NEW e \in Event, Credited(e)'
       PROVE  credit'[e] = IF event'[e].state = "current" THEN CreditOf(event'[e], put'[e]) ELSE {}
  <2>1. CASE e = n
    <3>1. CreditOf(event'[e], put'[e]) = {} /\ credit'[e] = {}
      BY <2>1, <1>2, <1>3 DEF CreditOf, Nowhere
    <3>2. QED
      BY <3>1
  <2>2. CASE e # n
    <3>1. Credited(e)
      BY <1>2, <1>7, <1>16 DEF Credited
    <3>2. credit[e] = IF event[e].state = "current" THEN CreditOf(event[e], put[e]) ELSE {}
      BY <3>1 DEF InOrderInv, BooksInv
    <3>3. QED
      BY <3>2, <2>2, <1>2, <1>5
  <2>3. QED
    BY <2>1, <2>2
<1>17. BooksInv'
  BY <1>15, <1>16 DEF BooksInv
<1>18. QED
  BY <1>11, <1>12, <1>14, <1>17 DEF InOrderInv

\* What holds of a request that logs an event.
LEMMA LoggingHas ==
  ASSUME TypesInv, InOrderInv, NEW s \in Session, Logging(s)
  PROVE  /\ LogInv(s) /\ eventReq[s].for \in Event /\ eventReq[s].for # 0
         /\ Of(s) = {eventReq[s].for} /\ Given(eventReq[s].now)
         /\ eventReq[s].now.volume \in Nat /\ eventReq[s].site \in Site
         /\ <<eventReq[s].site.zone, eventReq[s].now.year>> \in Pool
<1>1. HasInv(s) /\ WorkInv(s) /\ eventReq[s].site \in Site
  BY RequestHas DEF InOrderInv
<1>2. /\ eventReq[s].for \in Event /\ eventReq[s].new = 0 /\ Given(eventReq[s].now)
      /\ LogInv(s)
  BY <1>1 DEF HasInv, WorkInv
<1>3. eventReq[s].for # 0 /\ Of(s) = {eventReq[s].for}
  BY <1>2, NumbersOfEvents DEF Of
<1>4. eventReq[s].now.volume \in Nat
  BY <1>2, NumbersOfEvents DEF Given
<1>5. eventReq[s].now.year \in Year /\ eventReq[s].site.zone \in Zone
  BY <1>2 DEF Given, LogInv
<1>6. <<eventReq[s].site.zone, eventReq[s].now.year>> \in Pool
  BY <1>5 DEF Pool
<1>7. QED
  BY <1>1, <1>2, <1>3, <1>4, <1>6

\* The deposit puts the event's water in.
LEMMA DepositWorks ==
  ASSUME TypesInv, TypesInv', InOrderInv, NEW s \in Session, Deposit(s)
  PROVE  InOrderInv'
<1>1. PICK r : r = eventReq[s]
  OBVIOUS
<1>2. PICK own : own = <<r.site.zone, r.now.year>>
  OBVIOUS
<1>3. /\ r.pc = "deposit" /\ ~PoolHeld(s, own)
      /\ pool' = [pool EXCEPT ![own] = @ + r.now.volume]
      /\ put' = [put EXCEPT ![r.for] = r.site]
      /\ eventReq' = [eventReq EXCEPT ![s].pc = "credit"]
      /\ UNCHANGED <<event, credit>>
  BY <1>1, <1>2 DEF Deposit
<1>4. /\ Logging(s) /\ LogInv(s) /\ r.for \in Event /\ r.for # 0 /\ Of(s) = {r.for}
      /\ r.now.volume \in Nat /\ own \in Pool
  <2>1. Logging(s)
    BY <1>1, <1>3 DEF Logging
  <2>2. QED
    BY <2>1, <1>1, <1>2, LoggingHas
<1>5. /\ event \in [Event -> EventRow] /\ pool \in [Pool -> Int] /\ put \in [Event -> Site]
  BY TablesTyped
<1>6. PICK X : X = [r EXCEPT !.pc = "credit"]
  OBVIOUS
<1>7. eventReq'[s] = X /\ \A u \in Session \ {s} : eventReq'[u] = eventReq[u]
  <2>1. eventReq' = [eventReq EXCEPT ![s] = X]
    BY <1>1, <1>3, <1>6
  <2>2. QED
    BY <2>1, OneMoves DEF TypesInv
<1>8. /\ X.pc = "credit" /\ X.for = r.for /\ X.new = r.new /\ X.now = r.now /\ X.site = r.site
      /\ X.events = r.events /\ X.pools = r.pools
  BY <1>1, <1>6, RequestHas DEF IsRechargeRequest
<1>9. Of(s)' = Of(s)
  BY <1>1, <1>7, <1>8 DEF Of
<1>10. /\ event[r.for] = r.now /\ r.now.state = "current" /\ credit[r.for] = {}
       /\ r.site.zone \in Zone /\ put[r.for] = Nowhere
       /\ DOMAIN r.events = {} /\ DOMAIN r.pools = {}
  BY <1>1, <1>3, <1>4 DEF LogInv
<1>11. put'[r.for] = r.site /\ \A e \in Event : e # r.for => put'[e] = put[e]
  BY <1>3, <1>4, <1>5
<1>12. \A p \in Pool : pool'[p] = IF p = own THEN pool[p] + r.now.volume ELSE pool[p]
  BY <1>3, <1>4, <1>5
<1>13. UnusedInv'
  BY <1>3, <1>10, <1>11 DEF InOrderInv, UnusedInv
<1>14. ApartInv'
  <2>1. \A u \in Session \ {s} : /\ Of(s)' \cap Of(u) = {}
                                 /\ DOMAIN eventReq'[s].pools \cap DOMAIN eventReq[u].pools = {}
    BY <1>7, <1>8, <1>9, <1>10 DEF InOrderInv, ApartInv
  <2>2. QED
    BY <2>1, <1>7, ApartStays DEF InOrderInv
<1>15. WorkInv(s)'
  <2>1. ~Changing(s)'
    BY <1>7, <1>8 DEF Changing
  <2>2. LogInv(s)'
    BY <1>3, <1>7, <1>8, <1>10, <1>11 DEF LogInv
  <2>3. QED
    BY <2>1, <2>2 DEF WorkInv
<1>16. ASSUME NEW u \in Session PROVE WorkInv(u)'
  <2>1. CASE u = s
    BY <2>1, <1>15
  <2>2. CASE u # s
    <3>1. /\ eventReq'[u] = eventReq[u] /\ WorkInv(u) /\ Of(u) \subseteq Event
          /\ r.for \notin Of(u)
      <4>1. eventReq'[u] = eventReq[u] /\ WorkInv(u) /\ Of(u) \cap Of(s) = {}
        BY <2>2, <1>7 DEF InOrderInv, ApartInv
      <4>2. Of(u) \subseteq Event
        BY RequestHas DEF Of
      <4>3. QED
        BY <4>1, <4>2, <1>4
    <3>2. DOMAIN eventReq[u].pools \subseteq Pool /\ own \notin DOMAIN eventReq[u].pools
      BY <2>2, <1>3, RequestHas DEF PoolHeld, IsChanges
    <3>3. \A e \in Of(u) : event'[e] = event[e] /\ put'[e] = put[e] /\ credit'[e] = credit[e]
      BY <3>1, <1>3, <1>11
    <3>4. \A p \in DOMAIN eventReq[u].pools : pool'[p] = pool[p]
      BY <3>2, <1>12
    <3>5. QED
      BY <3>1, <3>3, <3>4, OthersStay
  <2>3. QED
    BY <2>1, <2>2
<1>17. ASSUME NEW p \in Pool PROVE pool'[p] = PutInFor(p)'
  <2>1. PICK A : A = Others(event, put, p, r.for)
    OBVIOUS
  <2>2. Others(event', put', p, r.for) = A
    BY <1>3, <1>11, <2>1 DEF Others, There
  <2>3. SameVolumes(A, event, event')
    BY <1>3 DEF SameVolumes
  <2>4. /\ Water(event, There(event, put, p)) \in Nat
        /\ Water(event', There(event', put', p))
           = Water(event, There(event, put, p)) - Part(event, put, p, r.for)
             + Part(event', put', p, r.for)
    <3>1. event' \in [Event -> EventRow]
      BY <1>3, <1>5
    <3>2. Others(event, put, p, r.for) = Others(event', put', p, r.for)
      BY <2>1, <2>2
    <3>3. SameVolumes(Others(event, put, p, r.for), event, event')
      BY <2>1, <2>3
    <3>4. QED
      BY <3>1, <3>2, <3>3, <1>5, PartsMove
  <2>5. Part(event, put, p, r.for) = 0
    <3>1. <<put[r.for].zone, event[r.for].year>> # p
      BY <1>10, NumbersOfEvents DEF Pool, Nowhere
    <3>2. QED
      BY <3>1 DEF Part, There
  <2>6. Part(event', put', p, r.for) = IF p = own THEN r.now.volume ELSE 0
    BY <1>2, <1>3, <1>4, <1>10, <1>11 DEF Part, There
  <2>7. pool[p] = Water(event, There(event, put, p))
    BY PutInIsWater DEF InOrderInv, BooksInv
  <2>8. PutInFor(p)' = Water(event', There(event', put', p))
    BY PutInIsWater
  <2>9. QED
    BY <2>4, <2>5, <2>6, <2>7, <2>8, <1>4, <1>12
<1>18. ASSUME NEW e \in Event, Credited(e)'
       PROVE  credit'[e] = IF event'[e].state = "current" THEN CreditOf(event'[e], put'[e]) ELSE {}
  <2>1. e # r.for
    BY <1>7, <1>8, <1>18 DEF Credited
  <2>2. Credited(e)
    BY <1>1, <1>7, <1>18, <2>1 DEF Credited
  <2>3. credit[e] = IF event[e].state = "current" THEN CreditOf(event[e], put[e]) ELSE {}
    BY <2>2 DEF InOrderInv, BooksInv
  <2>4. QED
    BY <2>1, <2>3, <1>3, <1>11
<1>19. BooksInv'
  BY <1>17, <1>18 DEF BooksInv
<1>20. QED
  BY <1>13, <1>14, <1>16, <1>19 DEF InOrderInv

\* The credit follows.
LEMMA ReplaceCreditsWorks ==
  ASSUME TypesInv, TypesInv', InOrderInv, NEW s \in Session, ReplaceCredits(s)
  PROVE  InOrderInv'
<1>1. PICK r : r = eventReq[s]
  OBVIOUS
<1>2. /\ r.pc = "credit" /\ credit' = [credit EXCEPT ![r.for] = CreditOf(r.now, r.site)]
      /\ eventReq' = [eventReq EXCEPT ![s] = EventIdle] /\ UNCHANGED <<event, pool, put>>
  BY <1>1 DEF ReplaceCredits
<1>3. /\ Logging(s) /\ LogInv(s) /\ r.for \in Event /\ r.for # 0 /\ Of(s) = {r.for}
  <2>1. Logging(s)
    BY <1>1, <1>2 DEF Logging
  <2>2. QED
    BY <2>1, <1>1, LoggingHas
<1>4. /\ ~Logging(s)' /\ ~Changing(s)' /\ Of(s)' = {} /\ DOMAIN eventReq'[s].pools = {}
      /\ \A u \in Session \ {s} : eventReq'[u] = eventReq[u]
  BY <1>2, IdleHas, OneMoves DEF TypesInv
<1>5. /\ event[r.for] = r.now /\ r.now.state = "current" /\ put[r.for] = r.site
  BY <1>1, <1>2, <1>3 DEF LogInv
<1>6. /\ credit'[r.for] = CreditOf(r.now, r.site)
      /\ \A e \in Event : e # r.for => credit'[e] = credit[e]
  <2>1. credit \in [Event -> SUBSET Credit]
    BY TablesTyped
  <2>2. QED
    BY <2>1, <1>2, <1>3
<1>7. UnusedInv'
  BY <1>2, <1>5, <1>6 DEF InOrderInv, UnusedInv
<1>8. ApartInv'
  <2>1. \A u \in Session \ {s} : /\ Of(s)' \cap Of(u) = {}
                                 /\ DOMAIN eventReq'[s].pools \cap DOMAIN eventReq[u].pools = {}
    BY <1>4
  <2>2. QED
    BY <2>1, <1>4, ApartStays DEF InOrderInv
<1>9. ASSUME NEW u \in Session PROVE WorkInv(u)'
  <2>1. CASE u = s
    BY <2>1, <1>4 DEF WorkInv
  <2>2. CASE u # s
    <3>1. /\ eventReq'[u] = eventReq[u] /\ WorkInv(u) /\ Of(u) \subseteq Event
          /\ r.for \notin Of(u)
      <4>1. eventReq'[u] = eventReq[u] /\ WorkInv(u) /\ Of(u) \cap Of(s) = {}
        BY <2>2, <1>4 DEF InOrderInv, ApartInv
      <4>2. Of(u) \subseteq Event
        BY RequestHas DEF Of
      <4>3. QED
        BY <4>1, <4>2, <1>3
    <3>2. /\ \A e \in Of(u) : event'[e] = event[e] /\ put'[e] = put[e] /\ credit'[e] = credit[e]
          /\ \A p \in DOMAIN eventReq[u].pools : pool'[p] = pool[p]
      BY <3>1, <1>2, <1>6
    <3>3. QED
      BY <3>1, <3>2, OthersStay
  <2>3. QED
    BY <2>1, <2>2
<1>10. \A p \in Pool : pool'[p] = PutInFor(p)'
  <2>1. \A p \in Pool : PutInFor(p)' = PutInFor(p)
    BY <1>2, PutInIsWater
  <2>2. QED
    BY <2>1, <1>2 DEF InOrderInv, BooksInv
<1>11. ASSUME NEW e \in Event, Credited(e)'
       PROVE  credit'[e] = IF event'[e].state = "current" THEN CreditOf(event'[e], put'[e]) ELSE {}
  <2>1. CASE e = r.for
    BY <2>1, <1>2, <1>5, <1>6
  <2>2. CASE e # r.for
    <3>1. Credited(e)
      BY <2>2, <1>1, <1>4, <1>11 DEF Credited
    <3>2. credit[e] = IF event[e].state = "current" THEN CreditOf(event[e], put[e]) ELSE {}
      BY <3>1 DEF InOrderInv, BooksInv
    <3>3. QED
      BY <3>2, <2>2, <1>2, <1>6
  <2>3. QED
    BY <2>1, <2>2
<1>12. BooksInv'
  BY <1>10, <1>11 DEF BooksInv
<1>13. QED
  BY <1>7, <1>8, <1>9, <1>12 DEF InOrderInv

\* Moving the site leaves what was put in.
LEMMA SetWorks ==
  ASSUME TypesInv, TypesInv', InOrderInv, UNCHANGED <<event, pool, credit, eventReq, put>>
  PROVE  InOrderInv'
<1>1. UnusedInv' /\ ApartInv'
  BY DEF InOrderInv, UnusedInv, ApartInv, Of
<1>2. ASSUME NEW u \in Session PROVE WorkInv(u)'
  BY OthersStay DEF InOrderInv
<1>3. \A p \in Pool : pool'[p] = PutInFor(p)'
  BY PutInIsWater DEF InOrderInv, BooksInv
<1>4. BooksInv'
  BY <1>3 DEF InOrderInv, BooksInv, Credited
<1>5. QED
  BY <1>1, <1>2, <1>4 DEF InOrderInv

\* Every step keeps the books in order, unless it leads them astray.
LEMMA RechargeStepWorks ==
  ASSUME TypesInv, TypesInv', ~astray => InOrderInv, [RechargeNext]_rechargeVars, ~astray'
  PROVE  InOrderInv'
<1>1. ASSUME NEW s \in Session, RechargeStep(s) PROVE InOrderInv'
  <2>1. ~astray
    BY <1>1 DEF RechargeStep, Log, Edit, CorrectEvent, VoidEvent, Deposit, ReplaceCredits, Dies,
                TakeBack, SaveEdit, PutIn, CommitEvent, RollbackEvent
  <2>2. ASSUME NEW f \in Figure, Log(s, Counts(f)) PROVE InOrderInv'
    BY <2>1, <2>2, FigureGiven, LogWorks
  <2>3. ASSUME NEW f \in Figure, NEW e \in Event, Edit(s, e, Counts(f)) PROVE InOrderInv'
    BY <2>1, <2>3, FigureGiven, EditWorks
  <2>4. ASSUME NEW f \in Figure, NEW e \in Event, CorrectEvent(s, e, Counts(f)) PROVE InOrderInv'
    BY <2>1, <2>4, FigureGiven, CorrectWorks
  <2>5. ASSUME NEW e \in Event, VoidEvent(s, e) PROVE InOrderInv'
    BY <2>1, <2>5, VoidWorks
  <2>6. CASE Deposit(s)
    BY <2>1, <2>6, DepositWorks
  <2>7. CASE ReplaceCredits(s)
    BY <2>1, <2>7, ReplaceCreditsWorks
  <2>8. CASE Dies(s)
    BY <2>8 DEF Dies
  <2>9. CASE TakeBack(s)
    BY <2>1, <2>9, TakeBackWorks
  <2>10. CASE SaveEdit(s)
    BY <2>1, <2>10, SaveEditWorks
  <2>11. CASE PutIn(s)
    BY <2>1, <2>11, PutInWorks
  <2>12. CASE CommitEvent(s)
    BY <2>1, <2>12, CommitWorks
  <2>13. CASE RollbackEvent(s)
    BY <2>1, <2>13, RollbackWorks
  <2>14. QED
    BY <1>1, <2>2, <2>3, <2>4, <2>5, <2>6, <2>7, <2>8, <2>9, <2>10, <2>11, <2>12, <2>13
       DEF RechargeStep
<1>2. CASE \/ \E z \in Zone \cup {Nobody} : SetZone(z)
           \/ \E k \in Account \cup {Nobody} : SetAccount(k)
  <2>1. UNCHANGED <<event, pool, credit, eventReq, put, astray>>
    BY <1>2, SetTyped
  <2>2. QED
    BY <2>1, SetWorks
<1>3. CASE UNCHANGED rechargeVars
  <2>1. UNCHANGED <<event, pool, credit, eventReq, put, astray>>
    BY <1>3 DEF rechargeVars
  <2>2. QED
    BY <2>1, SetWorks
<1>4. QED
  BY <1>1, <1>2, <1>3 DEF RechargeNext

\* With nothing recorded they are in order.
LEMMA NothingRecorded ==
  ASSUME RechargeInit, TypesInv
  PROVE  InOrderInv
<1>1. /\ \A e \in Event : event[e] = NoEvent /\ put[e] = Nowhere /\ credit[e] = {}
      /\ \A p \in Pool : pool[p] = 0
      /\ \A s \in Session : eventReq[s] = EventIdle
  BY DEF RechargeInit
<1>2. NoEvent.state = "unused"
  BY DEF NoEvent
<1>3. \A s \in Session : eventReq[s].pc = "idle" /\ Of(s) = {} /\ DOMAIN eventReq[s].pools = {}
  BY <1>1, EventIdleIsRequest, NothingIsChanges DEF Of
<1>4. UnusedInv /\ ApartInv /\ \A s \in Session : WorkInv(s)
  BY <1>1, <1>3 DEF UnusedInv, ApartInv, WorkInv, Logging, Changing
<1>5. ASSUME NEW p \in Pool PROVE pool[p] = PutInFor(p)
  <2>1. There(event, put, p) = {}
    BY <1>1, <1>2 DEF There
  <2>2. event \in [Event -> EventRow] /\ There(event, put, p) \subseteq There(event, put, p)
    BY TablesTyped
  <2>3. IsFiniteSet(There(event, put, p)) /\ \A e \in There(event, put, p) : event[e].volume \in Nat
    BY <2>2, ThereIsSummed
  <2>4. Water(event, There(event, put, p)) = 0
    BY <2>1, <2>3, WaterIsVolume
  <2>5. QED
    BY <2>4, <1>1, PutInIsWater
<1>6. \A e \in Event :
        credit[e] = IF event[e].state = "current" THEN CreditOf(event[e], put[e]) ELSE {}
  BY <1>1, <1>2
<1>7. BooksInv
  BY <1>5, <1>6 DEF BooksInv
<1>8. QED
  BY <1>4, <1>7 DEF InOrderInv

\* Recharge events, their pools, their credits and the requests that log, edit,
\* void and correct them have the types they are declared with.
THEOREM RechargeTypeCorrect == RechargeSpec => []RechargeTypeOK
<1>1. RechargeInit => TypesInv
  BY RechargeTypesInit
<1>2. TypesInv /\ [RechargeNext]_rechargeVars => TypesInv'
  BY RechargeTypesStep
<1>3. TypesInv => RechargeTypeOK
  BY DEF TypesInv
<1>4. QED
  BY <1>1, <1>2, <1>3, PTL DEF RechargeSpec

\* However the requests of any number of people on any number of events
\* interleave, and wherever the site is put meanwhile, the pool of a zone and
\* year holds the water of the events that count and were put in there, and
\* every event has the one credit that is its own, until the books are led
\* astray in one of the ways PoolHoldsWhatCounts names.
THEOREM PoolHoldsWhatCountsAlways == RechargeSpec => []PoolHoldsWhatCounts
<1>1. RechargeInit => PoolInv
  BY RechargeTypesInit, NothingRecorded DEF PoolInv
<1>2. PoolInv /\ [RechargeNext]_rechargeVars => PoolInv'
  <2> SUFFICES ASSUME PoolInv, [RechargeNext]_rechargeVars PROVE PoolInv'
    OBVIOUS
  <2>1. TypesInv /\ (~astray => InOrderInv)
    BY DEF PoolInv
  <2>2. TypesInv'
    BY <2>1, RechargeTypesStep
  <2>3. ~astray' => InOrderInv'
    BY <2>1, <2>2, RechargeStepWorks
  <2>4. QED
    BY <2>2, <2>3 DEF PoolInv
<1>3. PoolInv => PoolHoldsWhatCounts
  BY DEF PoolInv, InOrderInv, BooksInv, PoolHoldsWhatCounts
<1>4. QED
  BY <1>1, <1>2, <1>3, PTL DEF RechargeSpec
=============================================================================
