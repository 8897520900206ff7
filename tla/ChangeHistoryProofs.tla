------------------------ MODULE ChangeHistoryProofs ------------------------
(***************************************************************************)
(* What the readers of the change history say, for any number of requests, *)
(* rows, figures and moments: a page read as of a moment shows the rows     *)
(* committed then and goes on showing them, and the lines of the change     *)
(* pages join up to the row as it is, but for rows of which a change was    *)
(* forgotten.                                                               *)
(***************************************************************************)
EXTENDS ChangeHistory, FiniteSetTheorems, WellFoundedInduction, TLAPS

Value == Record \cup {Absent}

-----------------------------------------------------------------------------
(* The inductive invariant *)

\* One table of changes and one of events for each session.
TableInv == mine = [s \in Session |-> mine[s]] /\ written = [s \in Session |-> written[s]]

\* Nothing committed is of the future.
ClockInv ==
  /\ \A s \in open : start[s] <= now
  /\ \A e \in event : e.stamp <= now /\ e.id < 2 * writes
  /\ \A r \in Row : live[r] # Absent => live[r].created <= now

\* A key not given out yet has no row.
KeyInv ==
  /\ \A r \in Row : live[r] # Absent => r <= used
  /\ \A s \in Session : \A r \in Held(s) : r <= used

\* A row is held by one transaction, and only while that is open.
LockInv ==
  /\ \A s \in Session \ open : Held(s) = {} /\ written[s] = {}
  /\ \A s, u \in Session : s # u => Held(s) \cap Held(u) = {}

\* A transaction's events are of rows it holds, and carry its start.
WrittenInv ==
  \A s \in Session : \A e \in written[s] :
    e.row \in Held(s) /\ e.stamp = start[s] /\ e.by = s /\ e.id < 2 * writes

\* The events of a row are in order.
IdsInv ==
  /\ \A d, e \in event : d.row = e.row /\ d.id = e.id => d = e
  /\ \A s \in Session : \A d, e \in written[s] : d.row = e.row /\ d.id = e.id => d = e

EventsOn(r) == {e \in event : e.row = r}
WrittenOn(s, r) == {e \in written[s] : e.row = r}

\* The first of the events E says that the row was v before it.
Says(e, v) ==
  IF v = Absent THEN e.label = "insert"
  ELSE e.label \in {"before_update", "delete"} /\ e.value = v
Begins(E, v) == \E e \in E : Says(e, v) /\ \A d \in E \ {e} : e.id < d.id

\* What a transaction has written of a row follows what is committed of it, begins
\* with the row as it is committed, and leaves a row no older than its first trace.
HeldInv ==
  \A s \in Session : \A r \in Held(s) :
    /\ mine[s][r] # Absent =>
         mine[s][r].created <= now /\ (live[r] = Absent => start[s] <= mine[s][r].created)
    /\ Begins(WrittenOn(s, r), live[r])
    /\ \A d \in EventsOn(r) : \A e \in WrittenOn(s, r) : d.id < e.id

HistoryInv ==
  /\ TypeOK /\ TableInv /\ ClockInv /\ KeyInv /\ LockInv /\ WrittenInv /\ IdsInv /\ HeldInv
-----------------------------------------------------------------------------
(* First and last events *)

\* Numbers that are not many have a least one.
LEMMA LeastOf ==
  ASSUME NEW E, E # {}, \A e \in E : e.id \in Nat
  PROVE  \E e \in E : \A d \in E : e.id <= d.id
<1> DEFINE R == OpToRel(<, Nat)
           S == {e.id : e \in E}
<1>1. IsWellFoundedOn(R, Nat)
  BY NatLessThanWellFounded
<1>2. S \subseteq Nat /\ S # {}
  OBVIOUS
<1>3. \A x, y \in Nat : <<y, x>> \in R <=> y < x
  BY DEF OpToRel
<1> HIDE DEF R, S
<1>4. PICK x \in S : \A y \in S : <<y, x>> \notin R
  BY <1>1, <1>2, WFMin, Zenon
<1>5. \A y \in S : ~ (y < x)
  BY <1>2, <1>3, <1>4
<1>6. \A y \in S : x <= y
  BY <1>2, <1>5
<1> QED
  BY <1>6 DEF S

\* The event that comes before all others is the first.
LEMMA FirstIs ==
  ASSUME NEW E, NEW e \in E, \A d \in E : d.id \in Nat, \A d \in E \ {e} : e.id < d.id
  PROVE  First(E) = e
<1>1. \A d \in E : e.id <= d.id
  OBVIOUS
<1>2. First(E) \in E /\ \A d \in E : First(E).id <= d.id
  BY <1>1 DEF First
<1> QED
  BY <1>2

\* Events in order have a first one.
LEMMA FirstOf ==
  ASSUME NEW E, E # {}, \A d \in E : d.id \in Nat, \A d, e \in E : d.id = e.id => d = e
  PROVE  First(E) \in E /\ \A d \in E \ {First(E)} : First(E).id < d.id
<1>1. PICK e \in E : \A d \in E : e.id <= d.id
  BY LeastOf
<1>2. First(E) \in E /\ \A d \in E : First(E).id <= d.id
  BY <1>1 DEF First
<1> QED
  BY <1>2

-----------------------------------------------------------------------------
(* A statement that writes a row *)

\* The events of one statement, in order, say what the row was.
LEMMA NewEvents ==
  ASSUME TypeOK, NEW s \in Session, NEW r \in Row, NEW old \in Value, NEW new \in Value,
         old = Absent => new \in Record, old # Absent /\ new # Absent => old \in Record
  PROVE  /\ EventsOf(s, r, old, new) \subseteq Event
         /\ \A e \in EventsOf(s, r, old, new) :
              e.row = r /\ e.stamp = start[s] /\ e.by = s /\ e.id \in {2 * writes, 2 * writes + 1}
         /\ \A d, e \in EventsOf(s, r, old, new) : d.id = e.id => d = e
         /\ Begins(EventsOf(s, r, old, new), old)
<1> DEFINE E == EventsOf(s, r, old, new)
<1>1. writes \in Nat /\ start[s] \in 0 .. MaxTime /\ 2 * writes \in Nat
  BY BoundsAreCounts DEF TypeOK
<1>2. \A label \in Label : \A v \in Record : \A n \in {0, 1} :
        /\ EventOf(s, r, label, v, n) \in Event
        /\ EventOf(s, r, label, v, n).row = r /\ EventOf(s, r, label, v, n).stamp = start[s]
        /\ EventOf(s, r, label, v, n).by = s /\ EventOf(s, r, label, v, n).id = 2 * writes + n
        /\ EventOf(s, r, label, v, n).label = label /\ EventOf(s, r, label, v, n).value = v
  BY <1>1 DEF EventOf, Event
<1>3. {"insert", "before_update", "update", "delete"} = Label
  BY DEF Label
<1>4. CASE old = Absent
  <2> DEFINE i == EventOf(s, r, "insert", new, 0)
  <2>1. E = {i}
    BY <1>4 DEF EventsOf
  <2>2. /\ i \in Event /\ i.row = r /\ i.stamp = start[s] /\ i.by = s /\ i.id = 2 * writes
        /\ i.label = "insert"
    <3>1. new \in Record /\ "insert" \in Label
      BY <1>3, <1>4
    <3> QED
      BY <1>1, <1>2, <3>1
  <2> HIDE DEF i
  <2>3. Begins(E, old)
    BY <1>4, <2>1, <2>2 DEF Begins, Says
  <2> HIDE DEF E
  <2>4. /\ E \subseteq Event
        /\ \A e \in E : e.row = r /\ e.stamp = start[s] /\ e.by = s /\ e.id \in {2 * writes, 2 * writes + 1}
        /\ \A d, e \in E : d.id = e.id => d = e
    BY <2>1, <2>2
  <2> QED
    BY <2>3, <2>4 DEF E
<1>5. CASE old # Absent /\ new = Absent
  <2> DEFINE i == EventOf(s, r, "delete", old, 0)
  <2>1. E = {i}
    BY <1>5 DEF EventsOf
  <2>2. /\ i \in Event /\ i.row = r /\ i.stamp = start[s] /\ i.by = s /\ i.id = 2 * writes
        /\ i.label = "delete" /\ i.value = old
    BY <1>1, <1>2, <1>3, <1>5 DEF Value
  <2> HIDE DEF i
  <2>3. Begins(E, old)
    BY <1>5, <2>1, <2>2 DEF Begins, Says
  <2> HIDE DEF E
  <2>4. /\ E \subseteq Event
        /\ \A e \in E : e.row = r /\ e.stamp = start[s] /\ e.by = s /\ e.id \in {2 * writes, 2 * writes + 1}
        /\ \A d, e \in E : d.id = e.id => d = e
    BY <2>1, <2>2
  <2> QED
    BY <2>3, <2>4 DEF E
<1>6. CASE old # Absent /\ new # Absent
  <2> DEFINE i == EventOf(s, r, "before_update", old, 0)
             j == EventOf(s, r, "update", new, 1)
  <2>1. E = {i, j}
    BY <1>6 DEF EventsOf
  <2>2. /\ i \in Event /\ i.row = r /\ i.stamp = start[s] /\ i.by = s /\ i.id = 2 * writes
        /\ i.label = "before_update" /\ i.value = old
        /\ j \in Event /\ j.row = r /\ j.stamp = start[s] /\ j.by = s /\ j.id = 2 * writes + 1
    BY <1>1, <1>2, <1>3, <1>6 DEF Value
  <2> HIDE DEF i, j
  <2>3. Begins(E, old)
    BY <1>1, <1>6, <2>1, <2>2 DEF Begins, Says
  <2> HIDE DEF E
  <2>4. /\ E \subseteq Event
        /\ \A e \in E : e.row = r /\ e.stamp = start[s] /\ e.by = s /\ e.id \in {2 * writes, 2 * writes + 1}
        /\ \A d, e \in E : d.id = e.id => d = e
    BY <1>1, <2>1, <2>2
  <2> QED
    BY <2>3, <2>4 DEF E
<1> QED
  BY <1>4, <1>5, <1>6

\* What the session has of the row r before it writes it.
LEMMA CurrentIs ==
  ASSUME HistoryInv, NEW s \in Session, NEW r \in Row
  PROVE  /\ Current(s, r) \in Value
         /\ r \in Held(s) => Current(s, r) = mine[s][r]
         /\ r \notin Held(s) => Current(s, r) = live[r]
BY DEF HistoryInv, TypeOK, Current, Value

\* A statement changes one row of its own session.
LEMMA WriteFacts ==
  ASSUME TableInv, NEW s \in Session, NEW r \in Row, NEW new, Write(s, r, new)
  PROVE  /\ Held(s)' = Held(s) \cup {r}
         /\ mine'[s][r] = new /\ \A q \in Held(s) \ {r} : mine'[s][q] = mine[s][q]
         /\ \A u \in Session \ {s} :
              mine'[u] = mine[u] /\ written'[u] = written[u] /\ Held(u)' = Held(u)
         /\ written'[s] = written[s] \cup EventsOf(s, r, Current(s, r), new)
         /\ writes' = writes + 1
         /\ TableInv'
<1> DEFINE f == With(mine[s], r, new)
           g == written[s] \cup EventsOf(s, r, Current(s, r), new)
<1>1. DOMAIN mine = Session /\ DOMAIN written = Session
  BY DEF TableInv
<1>2. mine' = [mine EXCEPT ![s] = f] /\ written' = [written EXCEPT ![s] = g] /\ writes' = writes + 1
  BY DEF Write
<1>3. DOMAIN f = DOMAIN mine[s] \cup {r} /\ f[r] = new /\ \A q \in DOMAIN mine[s] \ {r} : f[q] = mine[s][q]
  BY DEF With
<1> HIDE DEF f, g
<1>4. mine'[s] = f /\ written'[s] = g /\ \A u \in Session \ {s} : mine'[u] = mine[u] /\ written'[u] = written[u]
  BY <1>1, <1>2
<1>5. TableInv'
  BY <1>1, <1>2 DEF TableInv
<1> QED
  BY <1>2, <1>3, <1>4, <1>5 DEF g, Held

\* A statement keeps the invariant when its row is free for it and no older than
\* its transaction, or was there before.
LEMMA WriteKeeps ==
  ASSUME HistoryInv, NEW s \in open, NEW r \in Row, NEW new \in Value, Write(s, r, new),
         Current(s, r) = Absent => new \in Record,
         Current(s, r) # Absent /\ new # Absent => Current(s, r) \in Record,
         \A u \in Session \ {s} : r \notin Held(u),
         used' \in 0 .. MaxRow, used <= used', r <= used',
         new # Absent => new.created <= now /\ (live[r] = Absent => start[s] <= new.created)
  PROVE  HistoryInv'
<1> DEFINE E == EventsOf(s, r, Current(s, r), new)
<1>1. /\ TypeOK /\ TableInv /\ ClockInv /\ KeyInv /\ LockInv /\ WrittenInv /\ IdsInv /\ HeldInv
      /\ s \in Session /\ writes \in Nat
  BY BoundsAreCounts DEF HistoryInv, TypeOK
<1>2. /\ Held(s)' = Held(s) \cup {r}
      /\ mine'[s][r] = new /\ \A q \in Held(s) \ {r} : mine'[s][q] = mine[s][q]
      /\ \A u \in Session \ {s} :
           mine'[u] = mine[u] /\ written'[u] = written[u] /\ Held(u)' = Held(u)
      /\ written'[s] = written[s] \cup E
      /\ writes' = writes + 1
      /\ TableInv'
  BY <1>1, WriteFacts
<1>3. Current(s, r) \in Value
  BY <1>1, CurrentIs
<1>4. /\ E \subseteq Event
      /\ \A e \in E :
           e.row = r /\ e.stamp = start[s] /\ e.by = s /\ e.id \in {2 * writes, 2 * writes + 1}
      /\ \A d, e \in E : d.id = e.id => d = e
      /\ Begins(E, Current(s, r))
  BY <1>1, <1>3, NewEvents
<1>5. UNCHANGED <<now, live, event, open, start, past, straddled, forgotten>> /\ writes < MaxWrites
  BY DEF Write
<1> HIDE DEF E
<1>6. TypeOK'
  <2>1. \A u \in Session : Held(u)' \subseteq Row /\ written'[u] \subseteq Event
    BY <1>1, <1>2, <1>4 DEF TypeOK
  <2>2. \A u \in Session : \A q \in Held(u)' : mine'[u][q] \in Record \cup {Absent}
    BY <1>1, <1>2 DEF TypeOK, Value
  <2>3. writes' \in 0 .. MaxWrites
    BY <1>1, <1>2, <1>5, BoundsAreCounts
  <2> QED
    BY <1>1, <1>5, <2>1, <2>2, <2>3 DEF TypeOK
<1>7. ClockInv'
  BY <1>1, <1>2, <1>5 DEF ClockInv, TypeOK, Event
<1>8. KeyInv'
  <2>1. used \in Nat /\ used' \in Nat /\ \A q \in Row : q \in Nat
    BY <1>1, BoundsAreCounts DEF TypeOK, Row
  <2>2. \A u \in Session : Held(u) \subseteq Row
    BY <1>1 DEF TypeOK
  <2>3. \A q \in Row : live'[q] # Absent => q <= used'
    BY <1>1, <1>5, <2>1 DEF KeyInv
  <2>4. \A u \in Session : \A q \in Held(u)' : q <= used'
    BY <1>1, <1>2, <2>1, <2>2 DEF KeyInv
  <2> QED
    BY <2>3, <2>4 DEF KeyInv
<1>9. LockInv'
  BY <1>1, <1>2, <1>5 DEF LockInv
<1>10. WrittenInv'
  <2> SUFFICES ASSUME NEW u \in Session, NEW e \in written'[u]
               PROVE  e.row \in Held(u)' /\ e.stamp = start'[u] /\ e.by = u /\ e.id < 2 * writes'
    BY DEF WrittenInv
  <2>1. CASE u = s /\ e \in E
    BY <1>1, <1>2, <1>4, <1>5, <2>1
  <2>2. CASE e \in written[u]
    <3>1. e.row \in Held(u) /\ e.stamp = start[u] /\ e.by = u /\ e.id < 2 * writes /\ e.id \in Nat
      BY <1>1, <2>2 DEF WrittenInv, TypeOK, Event
    <3> QED
      BY <1>1, <1>2, <1>5, <3>1
  <2> QED
    BY <1>2, <2>1, <2>2
<1>11. IdsInv'
  <2>1. \A d \in written[s] : d.id \in Nat /\ d.id < 2 * writes
    BY <1>1 DEF WrittenInv, TypeOK, Event
  <2>2. \A d \in written[s], e \in E : d.id # e.id
    BY <1>1, <1>4, <2>1
  <2>3. \A d, e \in written'[s] : d.row = e.row /\ d.id = e.id => d = e
    BY <1>1, <1>2, <1>4, <2>2 DEF IdsInv
  <2> QED
    BY <1>1, <1>2, <1>5, <2>3 DEF IdsInv
<1>12. HeldInv'
  <2>1. ASSUME NEW u \in Session, NEW q \in Held(u), u # s \/ q # r
        PROVE  WrittenOn(u, q)' = WrittenOn(u, q) /\ mine'[u][q] = mine[u][q]
    <3>1. CASE u # s
      BY <1>2, <3>1 DEF WrittenOn
    <3>2. CASE u = s
      BY <1>2, <1>4, <2>1, <3>2 DEF WrittenOn
    <3> QED
      BY <3>1, <3>2
  <2>2. ASSUME NEW u \in Session, NEW q \in Held(u)', u # s \/ q # r
        PROVE  /\ mine'[u][q] # Absent =>
                    mine'[u][q].created <= now' /\ (live'[q] = Absent => start'[u] <= mine'[u][q].created)
               /\ Begins(WrittenOn(u, q)', live'[q])
               /\ \A d \in EventsOn(q)' : \A e \in WrittenOn(u, q)' : d.id < e.id
    <3>1. q \in Held(u)
      BY <1>2, <2>2
    <3>2. WrittenOn(u, q)' = WrittenOn(u, q) /\ mine'[u][q] = mine[u][q] /\ EventsOn(q)' = EventsOn(q)
      BY <1>5, <2>1, <2>2, <3>1 DEF EventsOn
    <3> QED
      BY <1>1, <1>5, <3>1, <3>2 DEF HeldInv
  <2>3. WrittenOn(s, r)' = WrittenOn(s, r) \cup E
    BY <1>2, <1>4 DEF WrittenOn
  <2>4. Begins(WrittenOn(s, r)', live'[r])
    <3>1. CASE r \in Held(s)
      <4>1. PICK e \in WrittenOn(s, r) : Says(e, live[r]) /\ \A d \in WrittenOn(s, r) \ {e} : e.id < d.id
        BY <1>1, <3>1 DEF HeldInv, Begins
      <4>2. e.id \in Nat /\ e.id < 2 * writes
        BY <1>1, <4>1 DEF WrittenOn, WrittenInv, TypeOK, Event
      <4>3. \A d \in E : e.id < d.id
        BY <1>1, <1>4, <4>2
      <4>4. \A d \in WrittenOn(s, r)' \ {e} : e.id < d.id
        BY <2>3, <4>1, <4>3
      <4> QED
        BY <1>5, <2>3, <4>1, <4>4 DEF Begins
    <3>2. CASE r \notin Held(s)
      <4>1. WrittenOn(s, r) = {}
        BY <1>1, <3>2 DEF WrittenInv, WrittenOn
      <4>2. Current(s, r) = live[r]
        BY <1>1, <3>2, CurrentIs
      <4> QED
        BY <1>4, <1>5, <2>3, <4>1, <4>2
    <3> QED
      BY <3>1, <3>2
  <2>5. \A d \in EventsOn(r)' : \A e \in WrittenOn(s, r)' : d.id < e.id
    <3>1. ASSUME NEW d \in EventsOn(r), NEW e \in E PROVE d.id < e.id
      <4>1. d.id \in Nat /\ d.id < 2 * writes
        BY <1>1 DEF EventsOn, ClockInv, TypeOK, Event
      <4> QED
        BY <1>1, <1>4, <4>1
    <3>2. ASSUME NEW d \in EventsOn(r), NEW e \in WrittenOn(s, r) PROVE d.id < e.id
      <4>1. r \in Held(s)
        BY <1>1, <3>2 DEF WrittenInv, WrittenOn
      <4> QED
        BY <1>1, <4>1 DEF HeldInv
    <3> QED
      BY <1>5, <2>3, <3>1, <3>2 DEF EventsOn
  <2>6. mine'[s][r] # Absent =>
          mine'[s][r].created <= now' /\ (live'[r] = Absent => start'[s] <= mine'[s][r].created)
    BY <1>2, <1>5
  <2> QED
    BY <2>2, <2>4, <2>5, <2>6 DEF HeldInv
<1> QED
  BY <1>2, <1>6, <1>7, <1>8, <1>9, <1>10, <1>11, <1>12 DEF HistoryInv
\* A row inserted has a key of its own.
LEMMA InsertKeeps ==
  ASSUME HistoryInv, NEW s \in Session, NEW f \in Figure, Insert(s, f)
  PROVE  HistoryInv'
<1> DEFINE r == used + 1
           new == [figure |-> f, created |-> now]
<1>1. /\ s \in open /\ used < MaxRow /\ used' = r /\ Write(s, r, new)
  BY DEF Insert
<1>2. used \in Nat /\ MaxRow \in Nat /\ now \in 0 .. MaxTime /\ r \in Row
  BY <1>1, BoundsAreCounts DEF HistoryInv, TypeOK, Row
<1>3. \A u \in Session : r \notin Held(u)
  BY <1>2 DEF HistoryInv, KeyInv
<1>4. live[r] = Absent
  BY <1>2 DEF HistoryInv, KeyInv
<1>5. new \in Record /\ new.created = now
  BY <1>2 DEF Record
<1>6. start[s] <= now /\ now <= now
  BY <1>1, <1>2 DEF HistoryInv, ClockInv
<1>7. Current(s, r) = Absent
  BY <1>2, <1>3, <1>4, CurrentIs
<1>8. used' \in 0 .. MaxRow /\ used <= used' /\ r <= used'
  BY <1>1, <1>2
<1> HIDE DEF r, new
<1> QED
  BY <1>1, <1>2, <1>3, <1>5, <1>6, <1>7, <1>8, WriteKeeps DEF Value

\* A row that is there was given a key, and is held by nobody else.
LEMMA WritableIs ==
  ASSUME HistoryInv, NEW s \in open, NEW r \in Row, Writable(s, r), Current(s, r) # Absent
  PROVE  /\ \A u \in Session \ {s} : r \notin Held(u)
         /\ r <= used /\ used \in 0 .. MaxRow /\ used \in Nat
         /\ Current(s, r) \in Record
         /\ Current(s, r).created <= now
         /\ live[r] = Absent => start[s] <= Current(s, r).created
<1>1. s \in Session /\ used \in 0 .. MaxRow /\ used \in Nat
  BY BoundsAreCounts DEF HistoryInv, TypeOK
<1>2. \A u \in Session \ {s} : r \notin Held(u)
  BY <1>1 DEF HistoryInv, LockInv, Writable, Free
<1>3. Current(s, r) \in Record
  BY <1>1, CurrentIs DEF Value
<1>4. CASE r \in Held(s)
  <2>1. Current(s, r) = mine[s][r]
    BY <1>1, <1>4, CurrentIs
  <2> QED
    BY <1>1, <1>2, <1>3, <1>4, <2>1 DEF HistoryInv, HeldInv, KeyInv
<1>5. CASE r \notin Held(s)
  <2>1. Current(s, r) = live[r]
    BY <1>1, <1>5, CurrentIs
  <2> QED
    BY <1>1, <1>2, <1>3, <1>5, <2>1 DEF HistoryInv, ClockInv, KeyInv
<1> QED
  BY <1>4, <1>5

\* An update writes a row that was there.
LEMMA UpdateKeeps ==
  ASSUME HistoryInv, NEW s \in Session, NEW r \in Row, NEW f \in Figure, Update(s, r, f)
  PROVE  HistoryInv'
<1> DEFINE new == [Current(s, r) EXCEPT !.figure = f]
<1>1. /\ s \in open /\ Writable(s, r) /\ Current(s, r) # Absent /\ Write(s, r, new) /\ used' = used
  BY DEF Update
<1>2. /\ \A u \in Session \ {s} : r \notin Held(u)
      /\ r <= used /\ used \in 0 .. MaxRow /\ used \in Nat
      /\ Current(s, r) \in Record
      /\ Current(s, r).created <= now
      /\ live[r] = Absent => start[s] <= Current(s, r).created
  BY <1>1, WritableIs
<1>3. new \in Record /\ new.created = Current(s, r).created
  BY <1>2 DEF Record
<1> HIDE DEF new
<1> QED
  BY <1>1, <1>2, <1>3, WriteKeeps DEF Value

\* A delete writes a row that was there.
LEMMA DeleteKeeps ==
  ASSUME HistoryInv, NEW s \in Session, NEW r \in Row, Delete(s, r)
  PROVE  HistoryInv'
<1>1. /\ s \in open /\ Writable(s, r) /\ Current(s, r) # Absent /\ Write(s, r, Absent) /\ used' = used
  BY DEF Delete
<1>2. /\ \A u \in Session \ {s} : r \notin Held(u)
      /\ r <= used /\ used \in 0 .. MaxRow /\ used \in Nat
  BY <1>1, WritableIs
<1> QED
  BY <1>1, <1>2, WriteKeeps DEF Value

-----------------------------------------------------------------------------
(* A transaction's begin and end, and the clock *)

\* A transaction begins with nothing written.
LEMMA BeginKeeps ==
  ASSUME HistoryInv, NEW s \in Session, Begin(s)
  PROVE  HistoryInv'
<1>1. /\ TypeOK /\ TableInv /\ ClockInv /\ KeyInv /\ LockInv /\ WrittenInv /\ IdsInv /\ HeldInv
  BY DEF HistoryInv
<1>2. /\ s \notin open /\ open' = open \cup {s} /\ start' = [start EXCEPT ![s] = now]
      /\ UNCHANGED <<now, live, event, mine, written, used, writes, past, straddled, forgotten>>
  BY DEF Begin
<1>3. Held(s) = {} /\ written[s] = {}
  BY <1>1, <1>2 DEF LockInv
<1>4. start'[s] = now /\ \A u \in Session \ {s} : start'[u] = start[u]
  BY <1>1, <1>2 DEF TypeOK
<1>5. \A u \in Session : Held(u)' = Held(u)
  BY <1>2 DEF Held
<1>6. TypeOK'
  BY <1>1, <1>2, <1>5 DEF TypeOK
<1>7. ClockInv'
  <2>1. \A u \in open' : start'[u] <= now'
    BY <1>1, <1>2, <1>4 DEF ClockInv, TypeOK
  <2> QED
    BY <1>1, <1>2, <2>1 DEF ClockInv
<1>8. KeyInv' /\ LockInv' /\ IdsInv' /\ TableInv'
  BY <1>1, <1>2, <1>5 DEF KeyInv, LockInv, IdsInv, TableInv
<1>9. WrittenInv'
  BY <1>1, <1>2, <1>3, <1>4, <1>5 DEF WrittenInv
<1>10. HeldInv'
  <2>1. ASSUME NEW u \in Session, NEW q \in Held(u)'
        PROVE  u # s /\ q \in Held(u) /\ start'[u] = start[u]
    BY <1>3, <1>4, <1>5, <2>1
  <2>2. \A u, q : WrittenOn(u, q)' = WrittenOn(u, q) /\ EventsOn(q)' = EventsOn(q)
    BY <1>2 DEF WrittenOn, EventsOn
  <2> QED
    BY <1>1, <1>2, <2>1, <2>2 DEF HeldInv
<1> QED
  BY <1>6, <1>7, <1>8, <1>9, <1>10 DEF HistoryInv

\* Time passing makes nothing of the future.
LEMMA TickKeeps ==
  ASSUME HistoryInv, Tick
  PROVE  HistoryInv'
<1>1. /\ TypeOK /\ TableInv /\ ClockInv /\ KeyInv /\ LockInv /\ WrittenInv /\ IdsInv /\ HeldInv
  BY DEF HistoryInv
<1>2. /\ now < MaxTime /\ now' = now + 1 /\ past' = [past EXCEPT ![now] = live]
      /\ UNCHANGED <<live, event, open, start, mine, written, used, writes, straddled, forgotten>>
  BY DEF Tick
<1>3. \A u \in Session : Held(u)' = Held(u)
  BY <1>2 DEF Held
<1>4. now \in Nat /\ now' \in 0 .. MaxTime
  BY <1>1, <1>2, BoundsAreCounts DEF TypeOK
<1>5. TypeOK'
  <2>1. past' \in [0 .. MaxTime -> [Row -> Record \cup {Absent}]]
    BY <1>1, <1>2 DEF TypeOK
  <2> QED
    BY <1>1, <1>2, <1>3, <1>4, <2>1 DEF TypeOK
<1>6. ClockInv'
  <2>1. \A u \in open : start[u] \in Nat
    BY <1>1, BoundsAreCounts DEF TypeOK
  <2>2. \A e \in event : e.stamp \in Nat
    BY <1>1, BoundsAreCounts DEF TypeOK, Event
  <2>3. \A r \in Row : live[r] # Absent => live[r].created \in Nat
    BY <1>1, BoundsAreCounts DEF TypeOK, Record
  <2> QED
    BY <1>1, <1>2, <1>4, <2>1, <2>2, <2>3 DEF ClockInv
<1>7. KeyInv' /\ LockInv' /\ IdsInv' /\ TableInv' /\ WrittenInv'
  BY <1>1, <1>2, <1>3 DEF KeyInv, LockInv, IdsInv, TableInv, WrittenInv
<1>8. HeldInv'
  <2>1. \A u, q : WrittenOn(u, q)' = WrittenOn(u, q) /\ EventsOn(q)' = EventsOn(q)
    BY <1>2 DEF WrittenOn, EventsOn
  <2>2. \A u \in Session : \A q \in Held(u) : mine[u][q] # Absent =>
          mine[u][q].created <= now' /\ (live[q] = Absent => start[u] <= mine[u][q].created)
    <3>1. \A u \in Session : \A q \in Held(u) : mine[u][q] # Absent => mine[u][q].created \in Nat
      BY <1>1, BoundsAreCounts DEF TypeOK, Record
    <3> QED
      BY <1>1, <1>2, <1>4, <3>1 DEF HeldInv
  <2> QED
    BY <1>1, <1>2, <1>3, <2>1, <2>2 DEF HeldInv
<1> QED
  BY <1>5, <1>6, <1>7, <1>8 DEF HistoryInv

\* A transaction that ends holds nothing; the others hold what they held.
LEMMA EndFacts ==
  ASSUME HistoryInv, NEW s \in Session, Ended(s)
  PROVE  /\ Held(s)' = {} /\ written'[s] = {}
         /\ \A u \in Session \ {s} : /\ mine'[u] = mine[u] /\ written'[u] = written[u]
                                     /\ Held(u)' = Held(u) /\ start'[u] = start[u]
         /\ TableInv'
         /\ open' \subseteq Session /\ start' \in [Session -> 0 .. MaxTime]
         /\ \A u \in Session : Held(u)' \subseteq Row /\ written'[u] \subseteq Event
         /\ \A u \in Session : \A r \in Held(u)' : mine'[u][r] \in Value
         /\ LockInv' /\ WrittenInv'
<1>1. /\ TypeOK /\ TableInv /\ LockInv /\ WrittenInv
  BY DEF HistoryInv
<1>2. /\ open' = open \ {s} /\ mine' = [mine EXCEPT ![s] = << >>]
      /\ written' = [written EXCEPT ![s] = {}] /\ start' = [start EXCEPT ![s] = 0]
      /\ writes' = writes
  BY DEF Ended
<1>3. DOMAIN mine = Session /\ DOMAIN written = Session
  BY <1>1 DEF TableInv
<1>4. mine'[s] = << >> /\ written'[s] = {}
  BY <1>2, <1>3
<1>5. Held(s)' = {}
  BY <1>4 DEF Held
<1>6. \A u \in Session \ {s} : /\ mine'[u] = mine[u] /\ written'[u] = written[u]
                               /\ Held(u)' = Held(u) /\ start'[u] = start[u]
  BY <1>1, <1>2, <1>3 DEF TypeOK, Held
<1>7. TableInv'
  BY <1>2, <1>3 DEF TableInv
<1>8. open' \subseteq Session /\ start' \in [Session -> 0 .. MaxTime]
  BY <1>1, <1>2, BoundsAreCounts DEF TypeOK
<1>9. \A u \in Session : Held(u)' \subseteq Row /\ written'[u] \subseteq Event
  BY <1>1, <1>4, <1>5, <1>6 DEF TypeOK
<1>10. \A u \in Session : \A r \in Held(u)' : mine'[u][r] \in Value
  BY <1>1, <1>5, <1>6 DEF TypeOK, Value
<1>11. LockInv'
  BY <1>1, <1>2, <1>4, <1>5, <1>6 DEF LockInv
<1>12. WrittenInv'
  BY <1>1, <1>2, <1>4, <1>6 DEF WrittenInv
<1> QED
  BY <1>4, <1>5, <1>6, <1>7, <1>8, <1>9, <1>10, <1>11, <1>12

\* What a transaction leaves: its rows, and its events or none of them.
LEMMA CommitKeeps ==
  ASSUME HistoryInv, NEW s \in Session, s \in open, Kept(s), Ended(s),
         event' = event \cup written[s] \/ event' = event,
         \/ forgotten' = forgotten
         \/ forgotten' = [r \in Row |-> IF r \in Held(s) /\ live[r] # Absent THEN now
                                        ELSE forgotten[r]]
  PROVE  HistoryInv'
<1>1. /\ TypeOK /\ TableInv /\ ClockInv /\ KeyInv /\ LockInv /\ WrittenInv /\ IdsInv /\ HeldInv
  BY DEF HistoryInv
<1>2. /\ Held(s)' = {} /\ written'[s] = {}
      /\ \A u \in Session \ {s} : /\ mine'[u] = mine[u] /\ written'[u] = written[u]
                                  /\ Held(u)' = Held(u) /\ start'[u] = start[u]
      /\ TableInv'
      /\ open' \subseteq Session /\ start' \in [Session -> 0 .. MaxTime]
      /\ \A u \in Session : Held(u)' \subseteq Row /\ written'[u] \subseteq Event
      /\ \A u \in Session : \A r \in Held(u)' : mine'[u][r] \in Value
      /\ LockInv' /\ WrittenInv'
  BY EndFacts
<1>3. UNCHANGED <<now, used, writes, past>> /\ open' = open \ {s}
  BY DEF Ended
<1>4. /\ live' = [r \in Row |-> Current(s, r)]
      /\ straddled' = [t \in 0 .. MaxTime |->
                         IF start[s] <= t /\ t < now THEN straddled[t] \cup Held(s) ELSE straddled[t]]
  BY DEF Kept
<1>5. /\ \A r \in Row : live'[r] = Current(s, r) /\ Current(s, r) \in Value
      /\ \A r \in Held(s) : live'[r] = mine[s][r]
      /\ \A r \in Row \ Held(s) : live'[r] = live[r]
      /\ Held(s) \subseteq Row
  BY <1>1, <1>4, CurrentIs DEF TypeOK
<1>6. \A e \in event' : e \in event \/ (e \in written[s] /\ e.row \in Held(s))
  BY <1>1 DEF WrittenInv
<1>7. TypeOK'
  <2>1. live' \in [Row -> Record \cup {Absent}]
    BY <1>4, <1>5 DEF Value
  <2>2. event' \subseteq Event
    BY <1>1, <1>6 DEF TypeOK
  <2>3. straddled' \in [0 .. MaxTime -> SUBSET Row]
    BY <1>1, <1>4, <1>5 DEF TypeOK
  <2>4. forgotten' \in [Row -> 0 .. MaxTime \cup {Never}]
    BY <1>1 DEF TypeOK
  <2> QED
    BY <1>1, <1>2, <1>3, <2>1, <2>2, <2>3, <2>4 DEF TypeOK, Value
<1>8. ClockInv'
  <2>1. \A u \in open' : start'[u] <= now'
    BY <1>1, <1>2, <1>3 DEF ClockInv
  <2>2. \A e \in event' : e.stamp <= now' /\ e.id < 2 * writes'
    BY <1>1, <1>3, <1>6 DEF ClockInv, WrittenInv
  <2>3. \A r \in Row : live'[r] # Absent => live'[r].created <= now'
    BY <1>1, <1>3, <1>5 DEF ClockInv, HeldInv
  <2> QED
    BY <2>1, <2>2, <2>3 DEF ClockInv
<1>9. KeyInv'
  BY <1>1, <1>2, <1>3, <1>5 DEF KeyInv
<1>10. IdsInv'
  <2>1. ASSUME NEW d \in event, NEW e \in written[s], d.row = e.row PROVE d.id # e.id
    <3>1. d.id < e.id
      BY <1>1, <2>1 DEF WrittenInv, HeldInv, EventsOn, WrittenOn
    <3>2. d.id \in Nat /\ e.id \in Nat
      BY <1>1 DEF TypeOK, Event
    <3> QED
      BY <3>1, <3>2
  <2>2. \A d, e \in event' : d.row = e.row /\ d.id = e.id => d = e
    BY <1>1, <1>6, <2>1 DEF IdsInv
  <2>3. \A u \in Session : \A d, e \in written'[u] : d.row = e.row /\ d.id = e.id => d = e
    BY <1>1, <1>2 DEF IdsInv
  <2> QED
    BY <2>2, <2>3 DEF IdsInv
<1>11. HeldInv'
  <2> SUFFICES ASSUME NEW u \in Session, NEW q \in Held(u)'
               PROVE  /\ mine'[u][q] # Absent =>
                           mine'[u][q].created <= now' /\ (live'[q] = Absent => start'[u] <= mine'[u][q].created)
                      /\ Begins(WrittenOn(u, q)', live'[q])
                      /\ \A d \in EventsOn(q)' : \A e \in WrittenOn(u, q)' : d.id < e.id
    BY DEF HeldInv
  <2>1. u # s /\ q \in Held(u) /\ q \notin Held(s) /\ q \in Row
    BY <1>1, <1>2 DEF LockInv, TypeOK
  <2>2. mine'[u] = mine[u] /\ start'[u] = start[u] /\ live'[q] = live[q]
    BY <1>2, <1>5, <2>1
  <2>3. WrittenOn(u, q)' = WrittenOn(u, q)
    BY <1>2, <2>1 DEF WrittenOn
  <2>4. EventsOn(q)' = EventsOn(q)
    BY <1>6, <2>1 DEF EventsOn
  <2> QED
    BY <1>1, <1>3, <2>1, <2>2, <2>3, <2>4 DEF HeldInv
<1> QED
  BY <1>2, <1>7, <1>8, <1>9, <1>10, <1>11 DEF HistoryInv

\* A transaction that is rolled back leaves nothing.
LEMMA AbortKeeps ==
  ASSUME HistoryInv, NEW s \in Session, Abort(s)
  PROVE  HistoryInv'
<1>1. /\ TypeOK /\ TableInv /\ ClockInv /\ KeyInv /\ LockInv /\ WrittenInv /\ IdsInv /\ HeldInv
  BY DEF HistoryInv
<1>2. UNCHANGED <<live, event, straddled, forgotten>> /\ Ended(s)
  BY DEF Abort
<1>3. /\ Held(s)' = {} /\ written'[s] = {}
      /\ \A u \in Session \ {s} : /\ mine'[u] = mine[u] /\ written'[u] = written[u]
                                  /\ Held(u)' = Held(u) /\ start'[u] = start[u]
      /\ TableInv'
      /\ open' \subseteq Session /\ start' \in [Session -> 0 .. MaxTime]
      /\ \A u \in Session : Held(u)' \subseteq Row /\ written'[u] \subseteq Event
      /\ \A u \in Session : \A r \in Held(u)' : mine'[u][r] \in Value
      /\ LockInv' /\ WrittenInv'
  BY <1>2, EndFacts
<1>4. UNCHANGED <<now, used, writes, past>> /\ open' = open \ {s}
  BY <1>2 DEF Ended
<1>5. TypeOK'
  BY <1>1, <1>2, <1>3, <1>4 DEF TypeOK, Value
<1>6. ClockInv' /\ KeyInv' /\ IdsInv'
  <2>1. open \subseteq Session
    BY <1>1 DEF TypeOK
  <2> QED
    BY <1>1, <1>2, <1>3, <1>4, <2>1 DEF ClockInv, KeyInv, IdsInv
<1>7. HeldInv'
  <2>1. ASSUME NEW u \in Session, NEW q \in Held(u)'
        PROVE  /\ q \in Held(u) /\ mine'[u] = mine[u] /\ start'[u] = start[u]
               /\ WrittenOn(u, q)' = WrittenOn(u, q) /\ EventsOn(q)' = EventsOn(q)
    BY <1>2, <1>3, <2>1 DEF WrittenOn, EventsOn
  <2> QED
    BY <1>1, <1>2, <1>4, <2>1 DEF HeldInv
<1> QED
  BY <1>3, <1>5, <1>6, <1>7 DEF HistoryInv

\* A load that forgets leaves the events as they were.
LEMMA ForgetsNone ==
  ASSUME NEW s, CommitForgetting(s)
  PROVE  event' = event
BY DEF CommitForgetting

\* Every step keeps the invariant.
LEMMA HistoryStep == HistoryInv /\ [Next]_vars => HistoryInv'
<1> SUFFICES ASSUME HistoryInv, [Next]_vars PROVE HistoryInv'
  OBVIOUS
<1>1. CASE Tick
  BY <1>1, TickKeeps
<1>2. ASSUME NEW s \in Session, Commit(s) \/ CommitForgetting(s) PROVE HistoryInv'
  BY <1>2, CommitKeeps, ForgetsNone DEF Commit, CommitForgetting
<1>3. ASSUME NEW s \in Session,
             \/ Begin(s) \/ Abort(s)
             \/ \E f \in Figure : Insert(s, f)
             \/ \E r \in Row : Delete(s, r) \/ \E f \in Figure : Update(s, r, f)
      PROVE  HistoryInv'
  BY <1>3, BeginKeeps, AbortKeeps, InsertKeeps, DeleteKeeps, UpdateKeeps
<1>4. CASE UNCHANGED vars
  <2>1. \A u, q : Held(u)' = Held(u) /\ WrittenOn(u, q)' = WrittenOn(u, q) /\ EventsOn(q)' = EventsOn(q)
    BY <1>4 DEF vars, Held, WrittenOn, EventsOn
  <2> QED
    BY <1>4, <2>1 DEF vars, HistoryInv, TypeOK, TableInv, ClockInv, KeyInv, LockInv, WrittenInv, IdsInv, HeldInv
<1> QED
  BY <1>1, <1>2, <1>3, <1>4 DEF Next

\* At first there are no rows and no events.
LEMMA HistoryInit == Init => HistoryInv
<1> SUFFICES ASSUME Init PROVE HistoryInv
  OBVIOUS
<1>1. \A s \in Session : Held(s) = {} /\ written[s] = {}
  BY DEF Init, Held
<1>2. TypeOK
  BY <1>1, BoundsAreCounts DEF Init, TypeOK, NoRows
<1>3. TableInv
  BY DEF Init, TableInv
<1>4. ClockInv /\ KeyInv /\ LockInv /\ WrittenInv /\ IdsInv /\ HeldInv
  BY <1>1 DEF Init, NoRows, ClockInv, KeyInv, LockInv, WrittenInv, IdsInv, HeldInv
<1> QED
  BY <1>2, <1>3, <1>4 DEF HistoryInv

\* The invariant of the table, its events and the transactions open on it.
LEMMA HistoryAlways == Spec => []HistoryInv
BY HistoryInit, HistoryStep, PTL DEF Spec

\* The variables have their types.
THEOREM TypeCorrect == Spec => []TypeOK
BY HistoryAlways, PTL DEF HistoryInv
-----------------------------------------------------------------------------
(* A page read as of a moment *)

\* What the rule makes of the events E after the moment t and the row v as it is.
Reads(E, v, t) ==
  IF E = {} THEN Existing(v, t)
  ELSE IF First(E).label \in {"before_update", "delete"} THEN Existing(First(E).value, t)
  ELSE Absent

\* A row is read from its own later events and what it is.
LEMMA AsOfReads ==
  ASSUME NEW t, NEW r \in Row
  PROVE  /\ AsOf(t)[r] = Reads(EventsAfter(t, r), live[r], t)
         /\ AsOf(t)'[r] = Reads(EventsAfter(t, r)', live'[r], t)
BY DEF AsOf, Reads, Existing

\* Later events do not change what the first says.
LEMMA LaterUnread ==
  ASSUME HistoryInv, NEW t, NEW r \in Row, EventsAfter(t, r) # {},
         NEW W, \A e \in W : e.id \in Nat, \A d \in EventsAfter(t, r) : \A e \in W : d.id < e.id
  PROVE  First(EventsAfter(t, r) \cup W) = First(EventsAfter(t, r))
<1> DEFINE E == EventsAfter(t, r)
<1>1. \A d \in E : d.id \in Nat
  BY DEF EventsAfter, HistoryInv, TypeOK, Event
<1>2. \A d, e \in E : d.id = e.id => d = e
  BY DEF EventsAfter, HistoryInv, IdsInv
<1> HIDE DEF E
<1>3. First(E) \in E /\ \A d \in E \ {First(E)} : First(E).id < d.id
  BY <1>1, <1>2, FirstOf DEF E
<1>4. \A d \in (E \cup W) \ {First(E)} : First(E).id < d.id
  BY <1>3 DEF E
<1>5. First(E) \in E \cup W /\ \A d \in E \cup W : d.id \in Nat
  BY <1>1, <1>3
<1>6. First(E \cup W) = First(E)
  BY <1>4, <1>5, FirstIs
<1> QED
  BY <1>6 DEF E

\* A transaction begun after a past moment changes nothing of what is read of it, but
\* of a row of which it forgets the change.
LEMMA LaterCommit ==
  ASSUME HistoryInv, NEW s \in Session, Commit(s) \/ CommitForgetting(s),
         NEW t \in Nat, t < now, start[s] > t, NEW r \in Row, ~ (t < forgotten'[r])
  PROVE  AsOf(t)'[r] = AsOf(t)[r]
<1>1. /\ TypeOK /\ LockInv /\ WrittenInv /\ IdsInv /\ HeldInv
  BY DEF HistoryInv
<1>2. live'[r] = Current(s, r)
  BY DEF Commit, CommitForgetting, Kept
<1> DEFINE E == EventsAfter(t, r)
           W == WrittenOn(s, r)
<1>3. /\ Commit(s) => EventsAfter(t, r)' = E \cup W
      /\ CommitForgetting(s) => EventsAfter(t, r)' = E
  <2>1. \A e \in written[s] : e.stamp > t
    BY <1>1 DEF WrittenInv
  <2>2. Commit(s) => EventsAfter(t, r)' = E \cup W
    BY <2>1 DEF Commit, EventsAfter, WrittenOn
  <2>3. CommitForgetting(s) => EventsAfter(t, r)' = E
    BY ForgetsNone DEF EventsAfter
  <2> QED
    BY <2>2, <2>3
<1>4. CASE r \notin Held(s)
  <2>1. W = {}
    BY <1>1, <1>4 DEF WrittenInv, WrittenOn
  <2>2. live'[r] = live[r]
    BY <1>2, <1>4, CurrentIs
  <2>3. EventsAfter(t, r)' = E
    BY <1>3, <2>1
  <2> QED
    BY <2>2, <2>3, AsOfReads
<1>5. CASE r \in Held(s) /\ E # {}
  <2>1. \A e \in W : e.id \in Nat
    BY <1>1 DEF WrittenOn, TypeOK, Event
  <2>2. \A d \in E : \A e \in W : d.id < e.id
    BY <1>1, <1>5 DEF HeldInv, EventsAfter, EventsOn
  <2>3. First(E \cup W) = First(E)
    BY <1>5, <2>1, <2>2, LaterUnread
  <2>4. EventsAfter(t, r)' # {} /\ First(EventsAfter(t, r)') = First(E)
    BY <1>3, <1>5, <2>3
  <2> HIDE DEF E, W
  <2>5. Reads(EventsAfter(t, r)', live'[r], t) = Reads(E, live[r], t)
    BY <1>5, <2>4 DEF Reads
  <2> QED
    BY <2>5, AsOfReads DEF E
<1>6. CASE r \in Held(s) /\ E = {} /\ Commit(s)
  <2>1. PICK e \in W : Says(e, live[r]) /\ \A d \in W \ {e} : e.id < d.id
    BY <1>1, <1>6 DEF HeldInv, Begins
  <2>2. \A d \in W : d.id \in Nat
    BY <1>1 DEF WrittenOn, TypeOK, Event
  <2>3. First(W) = e
    BY <2>1, <2>2, FirstIs
  <2>4. EventsAfter(t, r)' = W
    BY <1>3, <1>6
  <2> HIDE DEF E, W
  <2>5. Reads(W, live'[r], t) = Reads({}, live[r], t)
    <3>1. CASE live[r] = Absent
      BY <2>1, <2>3, <3>1 DEF Reads, Says, Existing
    <3>2. CASE live[r] # Absent
      BY <2>1, <2>3, <3>2 DEF Reads, Says
    <3> QED
      BY <3>1, <3>2
  <2> QED
    BY <1>6, <2>4, <2>5, AsOfReads DEF E
<1>7. CASE r \in Held(s) /\ E = {} /\ CommitForgetting(s)
  <2>1. live[r] = Absent /\ EventsAfter(t, r)' = E
    <3>1. live[r] # Absent => forgotten'[r] = now
      BY <1>7 DEF CommitForgetting
    <3> QED
      BY <1>7, <3>1, ForgetsNone DEF EventsAfter
  <2>2. live'[r] # Absent => ~ (live'[r].created <= t)
    <3>1. live'[r] = mine[s][r]
      BY <1>2, <1>7, CurrentIs
    <3>2. live'[r] # Absent => live'[r].created \in Nat /\ start[s] <= live'[r].created
      BY <1>1, <1>7, <2>1, <3>1, BoundsAreCounts DEF HeldInv, TypeOK, Record
    <3>3. start[s] \in Nat
      BY <1>1, BoundsAreCounts DEF TypeOK
    <3> QED
      BY <3>2, <3>3
  <2>3. Reads({}, live'[r], t) = Reads({}, live[r], t)
    BY <2>1, <2>2 DEF Reads, Existing
  <2> QED
    BY <1>7, <2>1, <2>3, AsOfReads
<1> QED
  BY <1>3, <1>4, <1>5, <1>6, <1>7

\* No other step changes what is read.
LEMMA OtherSteps ==
  ASSUME [Next]_vars
  PROVE  \/ \E s \in open : Commit(s) \/ CommitForgetting(s)
         \/ UNCHANGED <<live, event, straddled, forgotten>>
<1>1. CASE Tick \/ UNCHANGED vars
  BY <1>1 DEF Tick, vars
<1>2. ASSUME NEW s \in Session,
             \/ Begin(s) \/ Abort(s)
             \/ \E f \in Figure : Insert(s, f)
             \/ \E r \in Row : Delete(s, r) \/ \E f \in Figure : Update(s, r, f)
      PROVE  UNCHANGED <<live, event, straddled, forgotten>>
  BY <1>2 DEF Begin, Abort, Insert, Update, Delete, Write
<1>3. ASSUME NEW s \in Session, Commit(s) \/ CommitForgetting(s) PROVE s \in open
  BY <1>3 DEF Commit, CommitForgetting
<1> QED
  BY <1>1, <1>2, <1>3 DEF Next

\* The reading is of the committed rows and events only.
LEMMA SameReading ==
  ASSUME UNCHANGED <<live, event>>, NEW t
  PROVE  AsOf(t)' = AsOf(t)
BY DEF AsOf, EventsAfter

\* What a page says of a moment it says for ever, once the transactions begun
\* before the moment have ended: no later statement, commit, load or removal
\* changes the reading of a row, but one that forgets how it changed it
\* (core/as_of.py reading_as_of, core/history.py, core/demonstration.py
\* forget_events).
THEOREM PastReadsForEver == Spec => PastStands
<1>1. ASSUME HistoryInv, [Next]_vars, NEW t \in 0 .. (now - 1), \A s \in open : start[s] > t,
             NEW r \in Row
      PROVE  t < forgotten'[r] \/ AsOf(t)'[r] = AsOf(t)[r]
  <2>1. t \in Nat /\ t < now /\ open \subseteq Session
    BY <1>1, BoundsAreCounts DEF HistoryInv, TypeOK
  <2>2. CASE UNCHANGED <<live, event, straddled, forgotten>>
    BY <2>2, SameReading
  <2>3. CASE \E s \in open : Commit(s) \/ CommitForgetting(s)
    BY <1>1, <2>1, <2>3, LaterCommit
  <2> QED
    BY <1>1, <2>2, <2>3, OtherSteps
<1>2. HistoryInv /\ [Next]_vars =>
        [\A t \in 0 .. (now - 1) :
           (\A s \in open : start[s] > t) =>
             \A r \in Row : t < forgotten'[r] \/ AsOf(t)[r]' = AsOf(t)[r]]_vars
  BY <1>1
<1> QED
  BY <1>2, HistoryAlways, PTL DEF Spec, PastStands

\* Moments that are past stay past, as they were.
LEMMA PastOn ==
  ASSUME HistoryInv, [Next]_vars
  PROVE  /\ now' = now /\ past' = past
         \/ Tick
<1>1. CASE UNCHANGED vars
  BY <1>1 DEF vars
<1>2. ASSUME NEW s \in Session,
             \/ Begin(s) \/ Abort(s) \/ Commit(s) \/ CommitForgetting(s)
             \/ \E f \in Figure : Insert(s, f)
             \/ \E r \in Row : Delete(s, r) \/ \E f \in Figure : Update(s, r, f)
      PROVE  now' = now /\ past' = past
  BY <1>2 DEF Begin, Abort, Insert, Update, Delete, Write, Commit, CommitForgetting, Ended
<1> QED
  BY <1>1, <1>2 DEF Next

\* What is forgotten is forgotten now.
LEMMA ForgottenNow ==
  ASSUME [Next]_vars, NEW r \in Row
  PROVE  forgotten'[r] \in {forgotten[r], now}
<1>1. CASE \E s \in open : Commit(s) \/ CommitForgetting(s)
  BY <1>1 DEF Commit, CommitForgetting
<1> QED
  BY <1>1, OtherSteps

\* A moment goes on reading as it did, and the newest reads as the rows are.
LEMMA AsOfStep == HistoryInv /\ AsOfIsThen /\ [Next]_vars => AsOfIsThen'
<1> SUFFICES ASSUME HistoryInv, AsOfIsThen, [Next]_vars,
                    NEW t \in 0 .. (now' - 1), NEW r \in Row,
                    r \notin straddled'[t], ~ (t < forgotten'[r])
             PROVE  AsOf(t)'[r] = past'[t][r]
  BY DEF AsOfIsThen
<1>1. TypeOK /\ ClockInv /\ WrittenInv /\ now \in Nat /\ MaxTime \in Nat /\ now <= MaxTime
  BY BoundsAreCounts DEF HistoryInv, TypeOK
<1>2. CASE Tick
  <2>1. /\ now' = now + 1 /\ past' = [past EXCEPT ![now] = live]
        /\ UNCHANGED <<live, event, straddled, forgotten>>
    BY <1>2 DEF Tick
  <2>2. AsOf(t)' = AsOf(t)
    BY <2>1, SameReading
  <2>3. CASE t = now
    <3>1. EventsAfter(t, r) = {}
      BY <1>1, <2>3 DEF ClockInv, EventsAfter, TypeOK, Event
    <3>2. Existing(live[r], t) = live[r]
      BY <1>1, <2>3 DEF ClockInv, Existing
    <3>3. past'[t] = live
      BY <1>1, <2>1, <2>3 DEF TypeOK
    <3> QED
      BY <2>2, <3>1, <3>2, <3>3, AsOfReads DEF Reads
  <2>4. CASE t # now
    <3>1. t \in 0 .. (now - 1) /\ past'[t] = past[t]
      BY <1>1, <2>1, <2>4 DEF TypeOK
    <3> QED
      BY <2>1, <2>2, <3>1 DEF AsOfIsThen
  <2> QED
    BY <2>3, <2>4
<1>3. CASE ~ Tick
  <2>1. now' = now /\ past' = past /\ t \in 0 .. (now - 1) /\ t \in 0 .. MaxTime /\ t \in Nat
    BY <1>1, <1>3, PastOn
  <2>2. CASE UNCHANGED <<live, event, straddled, forgotten>>
    BY <2>1, <2>2, SameReading DEF AsOfIsThen
  <2>3. CASE \E s \in open : Commit(s) \/ CommitForgetting(s)
    <3>1. PICK s \in open : Commit(s) \/ CommitForgetting(s)
      BY <2>3
    <3>2. s \in Session /\ start[s] \in Nat
      BY <1>1, <3>1 DEF TypeOK
    <3>3. straddled'[t] = IF start[s] <= t /\ t < now THEN straddled[t] \cup Held(s) ELSE straddled[t]
      BY <2>1, <3>1 DEF Commit, CommitForgetting, Kept
    <3>4. r \notin straddled[t] /\ (start[s] <= t => r \notin Held(s))
      BY <1>1, <2>1, <3>2, <3>3
    <3>5. AsOf(t)[r] = past[t][r]
      <4>1. ~ (t < forgotten[r])
        <5>1. t < now
          BY <1>1, <2>1
        <5> QED
          BY <5>1, ForgottenNow
      <4> QED
        BY <2>1, <3>4, <4>1 DEF AsOfIsThen
    <3>6. AsOf(t)'[r] = AsOf(t)[r]
      <4>1. CASE start[s] > t
        <5>1. t < now
          BY <1>1, <2>1
        <5> QED
          BY <2>1, <3>1, <3>2, <4>1, <5>1, LaterCommit
      <4>2. CASE start[s] <= t
        <5>1. live'[r] = live[r]
          BY <3>1, <3>2, <3>4, <4>2, CurrentIs DEF Commit, CommitForgetting, Kept
        <5>2. EventsAfter(t, r)' = EventsAfter(t, r)
          BY <1>1, <3>1, <3>2, <3>4, <4>2, ForgetsNone DEF Commit, WrittenInv, EventsAfter
        <5> QED
          BY <5>1, <5>2, AsOfReads
      <4> QED
        BY <2>1, <3>2, <4>1, <4>2
    <3> QED
      BY <2>1, <3>5, <3>6
  <2> QED
    BY <2>2, <2>3, OtherSteps
<1> QED
  BY <1>2, <1>3

\* The promise of the "as of" pages (core/as_of.py): whatever was added,
\* corrected, deleted or loaded since, and in whatever order transactions ended,
\* every row reads as it was committed at the moment, but for rows changed by a
\* transaction that was open at the moment itself and rows of which a change after
\* the moment was forgotten.
THEOREM PageShowsThen == Spec => []AsOfIsThen
<1>1. Init => AsOfIsThen
  BY DEF Init, AsOfIsThen
<1> QED
  BY <1>1, AsOfStep, HistoryAlways, PTL DEF Spec
-----------------------------------------------------------------------------
(* The lines of the change pages *)

\* What a row is after the event e; an event "before_update" changes nothing yet.
StateAfter(e) == IF e.label = "delete" THEN Absent ELSE e.value

Follows(E, d, e) == d.id < e.id /\ \A c \in E : ~(d.id < c.id /\ c.id < e.id)

\* Each event starts from what the one before it left; an update comes right after
\* its own "before_update".
Chain(E) ==
  \A d, e \in E : Follows(E, d, e) =>
    IF e.label = "update" THEN d.label = "before_update" /\ d.by = e.by
    ELSE Says(e, StateAfter(d))

\* The events E leave the row as v.
Ends(E, v) ==
  \E e \in E : e.label # "before_update" /\ StateAfter(e) = v /\ \A d \in E \ {e} : d.id < e.id

\* What is recorded of a row none of whose changes was forgotten is a chain that ends
\* with the row as it is; so is what a transaction has written of it.  A row that was
\* never committed has no events.
LinesInv ==
  /\ \A e \in event : e.row <= used
  /\ \A r \in Row : forgotten[r] = Never /\ EventsOn(r) # {} =>
       Chain(EventsOn(r)) /\ Ends(EventsOn(r), live[r])
  /\ \A s \in Session : \A r \in Held(s) :
       /\ Chain(WrittenOn(s, r)) /\ Ends(WrittenOn(s, r), mine[s][r])
       /\ live[r] = Absent => EventsOn(r) = {}

\* Two chains join when the later begins with what the earlier left.
LEMMA ChainsJoin ==
  ASSUME NEW E, NEW W, \A e \in E \cup W : e.id \in Nat,
         \A d \in E : \A e \in W : d.id < e.id,
         NEW v, Chain(E), Chain(W), Ends(E, v), Begins(W, v)
  PROVE  Chain(E \cup W)
<1>1. PICK l \in E : StateAfter(l) = v /\ \A d \in E \ {l} : d.id < l.id
  BY DEF Ends
<1>2. PICK f \in W : Says(f, v) /\ \A d \in W \ {f} : f.id < d.id
  BY DEF Begins
<1> SUFFICES ASSUME NEW d \in E \cup W, NEW e \in E \cup W, Follows(E \cup W, d, e)
             PROVE  IF e.label = "update" THEN d.label = "before_update" /\ d.by = e.by
                    ELSE Says(e, StateAfter(d))
  BY DEF Chain
<1>3. d.id < e.id /\ \A c \in E \cup W : ~(d.id < c.id /\ c.id < e.id)
  BY DEF Follows
<1>4. CASE d \in E /\ e \in E
  BY <1>3, <1>4 DEF Chain, Follows
<1>5. CASE d \in W /\ e \in W
  BY <1>3, <1>5 DEF Chain, Follows
<1>6. CASE d \in W /\ e \in E
  <2>1. d.id \in Nat /\ e.id \in Nat /\ e.id < d.id
    BY <1>6
  <2> QED
    BY <1>3, <2>1
<1>7. CASE d \in E /\ e \in W
  <2>1. e = f
    <3>1. d.id < f.id
      BY <1>7
    <3> QED
      BY <1>2, <1>3, <1>7, <3>1
  <2>2. d = l
    <3>1. l.id < e.id
      BY <1>7
    <3> QED
      BY <1>1, <1>3, <1>7, <3>1
  <2>3. f.label # "update"
    BY <1>2 DEF Says
  <2> QED
    BY <1>1, <1>2, <2>1, <2>2, <2>3
<1> QED
  BY <1>4, <1>5, <1>6, <1>7

\* The joined chain ends where the later does.
LEMMA JoinEnds ==
  ASSUME NEW E, NEW W, \A d \in E : \A e \in W : d.id < e.id, NEW v, Ends(W, v)
  PROVE  Ends(E \cup W, v)
BY DEF Ends

\* The events of one statement are a chain to what the row becomes.
LEMMA NewChain ==
  ASSUME TypeOK, NEW s \in Session, NEW r \in Row, NEW old \in Value, NEW new \in Value,
         old = Absent => new \in Record
  PROVE  Chain(EventsOf(s, r, old, new)) /\ Ends(EventsOf(s, r, old, new), new)
<1> DEFINE E == EventsOf(s, r, old, new)
<1>1. 2 * writes \in Nat
  BY BoundsAreCounts DEF TypeOK
<1>2. CASE old = Absent
  <2> DEFINE i == EventOf(s, r, "insert", new, 0)
  <2>1. E = {i}
    BY <1>2 DEF EventsOf
  <2>2. i.label = "insert" /\ i.value = new /\ i.id \in Nat
    BY <1>1 DEF EventOf
  <2> HIDE DEF i, E
  <2>3. Chain(E) /\ Ends(E, new)
    BY <2>1, <2>2 DEF Chain, Ends, Follows, StateAfter
  <2> QED
    BY <2>3 DEF E
<1>3. CASE old # Absent /\ new = Absent
  <2> DEFINE i == EventOf(s, r, "delete", old, 0)
  <2>1. E = {i}
    BY <1>3 DEF EventsOf
  <2>2. i.label = "delete" /\ i.id \in Nat
    BY <1>1 DEF EventOf
  <2> HIDE DEF i, E
  <2>3. Chain(E) /\ Ends(E, new)
    BY <1>3, <2>1, <2>2 DEF Chain, Ends, Follows, StateAfter
  <2> QED
    BY <2>3 DEF E
<1>4. CASE old # Absent /\ new # Absent
  <2> DEFINE i == EventOf(s, r, "before_update", old, 0)
             j == EventOf(s, r, "update", new, 1)
  <2>1. E = {i, j}
    BY <1>4 DEF EventsOf
  <2>2. /\ i.label = "before_update" /\ i.id = 2 * writes /\ i.by = s
        /\ j.label = "update" /\ j.value = new /\ j.id = 2 * writes + 1 /\ j.by = s
    BY <1>1 DEF EventOf
  <2> HIDE DEF i, j, E
  <2>3. i.id < j.id /\ ~(j.id < i.id) /\ ~(i.id < i.id) /\ ~(j.id < j.id)
    BY <1>1, <2>2
  <2>4. Chain(E)
    BY <2>1, <2>2, <2>3 DEF Chain, Follows
  <2>5. Ends(E, new)
    BY <2>1, <2>2, <2>3 DEF Ends, StateAfter
  <2> QED
    BY <2>4, <2>5 DEF E
<1> QED
  BY <1>2, <1>3, <1>4

\* A statement adds its events to the chain of its transaction.
LEMMA WriteLines ==
  ASSUME HistoryInv, LinesInv, NEW s \in open, NEW r \in Row, NEW new \in Value, Write(s, r, new),
         Current(s, r) = Absent => new \in Record,
         Current(s, r) # Absent /\ new # Absent => Current(s, r) \in Record,
         r \notin Held(s) /\ live[r] = Absent => EventsOn(r) = {},
         used' \in 0 .. MaxRow, used <= used'
  PROVE  LinesInv'
<1> DEFINE E == EventsOf(s, r, Current(s, r), new)
<1>1. /\ TypeOK /\ TableInv /\ WrittenInv /\ s \in Session /\ writes \in Nat
      /\ used \in Nat /\ used' \in Nat
  BY BoundsAreCounts DEF HistoryInv, TypeOK
<1>2. /\ Held(s)' = Held(s) \cup {r}
      /\ mine'[s][r] = new /\ \A q \in Held(s) \ {r} : mine'[s][q] = mine[s][q]
      /\ \A u \in Session \ {s} :
           mine'[u] = mine[u] /\ written'[u] = written[u] /\ Held(u)' = Held(u)
      /\ written'[s] = written[s] \cup E
  BY <1>1, WriteFacts
<1>3. Current(s, r) \in Value
  BY <1>1, CurrentIs
<1>4. /\ E \subseteq Event
      /\ \A e \in E : e.row = r /\ e.id \in {2 * writes, 2 * writes + 1}
      /\ Begins(E, Current(s, r))
  BY <1>1, <1>3, NewEvents
<1>5. Chain(E) /\ Ends(E, new)
  BY <1>1, <1>3, NewChain
<1>6. UNCHANGED <<live, event, forgotten>>
  BY DEF Write
<1> HIDE DEF E
<1>7. \A e \in event' : e.row <= used'
  <2>1. \A e \in event : e.row \in Nat
    BY <1>1 DEF TypeOK, Event, Row
  <2> QED
    BY <1>1, <1>6, <2>1 DEF LinesInv
<1>8. \A q \in Row : forgotten'[q] = Never /\ EventsOn(q)' # {} =>
        Chain(EventsOn(q)') /\ Ends(EventsOn(q)', live'[q])
  BY <1>6 DEF LinesInv, EventsOn
<1>9. ASSUME NEW u \in Session, NEW q \in Held(u)', u # s \/ q # r
      PROVE  /\ Chain(WrittenOn(u, q)') /\ Ends(WrittenOn(u, q)', mine'[u][q])
             /\ live'[q] = Absent => EventsOn(q)' = {}
  <2>1. q \in Held(u) /\ mine'[u][q] = mine[u][q]
    BY <1>2, <1>9
  <2>2. WrittenOn(u, q)' = WrittenOn(u, q)
    BY <1>2, <1>4, <1>9 DEF WrittenOn
  <2>3. EventsOn(q)' = EventsOn(q)
    BY <1>6 DEF EventsOn
  <2> QED
    BY <1>6, <2>1, <2>2, <2>3 DEF LinesInv
<1>10. WrittenOn(s, r)' = WrittenOn(s, r) \cup E
  BY <1>2, <1>4 DEF WrittenOn
<1>11. \A d \in WrittenOn(s, r) : \A e \in E : d.id \in Nat /\ e.id \in Nat /\ d.id < e.id
  <2>1. \A d \in WrittenOn(s, r) : d.id \in Nat /\ d.id < 2 * writes
    BY <1>1 DEF WrittenOn, WrittenInv, TypeOK, Event
  <2> QED
    BY <1>1, <1>4, <2>1
<1>12. Ends(WrittenOn(s, r)', mine'[s][r])
  <2>1. \A d \in WrittenOn(s, r) : \A e \in E : d.id < e.id
    BY <1>11
  <2>2. \A D, F, v : Ends(F, v) /\ (\A d \in D : \A e \in F : d.id < e.id) => Ends(D \cup F, v)
    BY JoinEnds
  <2>3. Ends(WrittenOn(s, r) \cup E, new)
    BY <1>5, <2>1, <2>2
  <2> QED
    BY <1>2, <1>10, <2>3
<1>13. Chain(WrittenOn(s, r)')
  <2>1. CASE r \in Held(s)
    <3>1. Chain(WrittenOn(s, r)) /\ Ends(WrittenOn(s, r), Current(s, r))
      BY <1>1, <2>1, CurrentIs DEF LinesInv
    <3>2. \A e \in WrittenOn(s, r) \cup E : e.id \in Nat
      BY <1>1, <1>4 DEF WrittenOn, TypeOK, Event
    <3> QED
      BY <1>4, <1>5, <1>10, <1>11, <3>1, <3>2, ChainsJoin
  <2>2. CASE r \notin Held(s)
    <3>1. WrittenOn(s, r) = {}
      BY <1>1, <2>2 DEF WrittenOn, WrittenInv
    <3> QED
      BY <1>5, <1>10, <3>1
  <2> QED
    BY <2>1, <2>2
<1>14. live'[r] = Absent => EventsOn(r)' = {}
  BY <1>1, <1>6 DEF LinesInv, EventsOn
<1> QED
  BY <1>7, <1>8, <1>9, <1>12, <1>13, <1>14 DEF LinesInv

\* What each statement writes of.
LEMMA StatementLines ==
  ASSUME HistoryInv, LinesInv, NEW s \in Session,
         \/ \E f \in Figure : Insert(s, f)
         \/ \E r \in Row : Delete(s, r) \/ \E f \in Figure : Update(s, r, f)
  PROVE  LinesInv'
<1>1. used \in Nat /\ MaxRow \in Nat /\ used \in 0 .. MaxRow /\ now \in 0 .. MaxTime
  BY BoundsAreCounts DEF HistoryInv, TypeOK
<1>2. CASE \E f \in Figure : Insert(s, f)
  <2>1. PICK f \in Figure : Insert(s, f)
    BY <1>2
  <2> DEFINE r == used + 1
             new == [figure |-> f, created |-> now]
  <2>2. s \in open /\ used < MaxRow /\ used' = r /\ Write(s, r, new)
    BY <2>1 DEF Insert
  <2>3. r \in Row /\ new \in Record
    BY <1>1, <2>2 DEF Row, Record
  <2>4. EventsOn(r) = {}
    <3>1. \A e \in event : e.row \in Nat /\ e.row <= used
      BY DEF LinesInv, HistoryInv, TypeOK, Event, Row
    <3> QED
      BY <1>1, <3>1 DEF EventsOn
  <2>5. r \notin Held(s) /\ live[r] = Absent
    BY <1>1, <2>3 DEF HistoryInv, KeyInv
  <2>6. Current(s, r) = Absent
    BY <2>3, <2>5, CurrentIs
  <2>7. used' \in 0 .. MaxRow /\ used <= used'
    BY <1>1, <2>2
  <2> HIDE DEF r, new
  <2> QED
    BY <2>2, <2>3, <2>4, <2>6, <2>7, WriteLines DEF Value
<1>3. ASSUME NEW r \in Row, NEW new \in Value, s \in open, Current(s, r) # Absent, Write(s, r, new),
             used' = used
      PROVE  LinesInv'
  <2>1. Current(s, r) \in Record
    BY <1>3, CurrentIs DEF Value
  <2>2. r \notin Held(s) => live[r] # Absent
    BY <1>3, CurrentIs
  <2> QED
    BY <1>1, <1>3, <2>1, <2>2, WriteLines
<1>4. ASSUME NEW r \in Row, Delete(s, r) PROVE LinesInv'
  BY <1>3, <1>4 DEF Delete, Value
<1>5. ASSUME NEW r \in Row, NEW f \in Figure, Update(s, r, f) PROVE LinesInv'
  <2>1. s \in open /\ Current(s, r) # Absent /\ used' = used /\ Write(s, r, [Current(s, r) EXCEPT !.figure = f])
    BY <1>5 DEF Update
  <2>2. Current(s, r) \in Record
    BY <2>1, CurrentIs DEF Value
  <2>3. [Current(s, r) EXCEPT !.figure = f] \in Value
    BY <2>2 DEF Record, Value
  <2> QED
    BY <1>3, <2>1, <2>3
<1> QED
  BY <1>2, <1>4, <1>5

\* A transaction that commits adds its chain to that of the row.
LEMMA CommitLines ==
  ASSUME HistoryInv, LinesInv, NEW s \in Session, Commit(s) \/ CommitForgetting(s)
  PROVE  LinesInv'
<1>1. /\ TypeOK /\ LockInv /\ WrittenInv /\ HeldInv /\ KeyInv
  BY DEF HistoryInv
<1>2. Kept(s) /\ Ended(s) /\ used' = used
  BY DEF Commit, CommitForgetting, Ended
<1>3. /\ Held(s)' = {}
      /\ \A u \in Session \ {s} : mine'[u] = mine[u] /\ written'[u] = written[u] /\ Held(u)' = Held(u)
  BY <1>2, EndFacts
<1>4. /\ \A r \in Held(s) : live'[r] = mine[s][r]
      /\ \A r \in Row \ Held(s) : live'[r] = live[r]
      /\ Held(s) \subseteq Row
  BY <1>1, <1>2, CurrentIs DEF Kept, TypeOK
<1>5. \A e \in event' : e \in event \/ (e \in written[s] /\ e.row \in Held(s))
  BY <1>1, ForgetsNone DEF WrittenInv, Commit
<1>6. \A e \in event' : e.row <= used'
  BY <1>1, <1>2, <1>5 DEF LinesInv, KeyInv
<1>7. \A q : q \notin Held(s) => EventsOn(q)' = EventsOn(q)
  BY <1>1, <1>5, ForgetsNone DEF EventsOn, Commit
<1>8. ASSUME NEW r \in Row, forgotten'[r] = Never, EventsOn(r)' # {}
      PROVE  Chain(EventsOn(r)') /\ Ends(EventsOn(r)', live'[r])
  <2>1. CASE r \notin Held(s)
    <3>1. forgotten'[r] = forgotten[r]
      BY <2>1 DEF Commit, CommitForgetting
    <3> QED
      BY <1>4, <1>7, <1>8, <2>1, <3>1 DEF LinesInv
  <2>2. CASE r \in Held(s) /\ CommitForgetting(s)
    <3>1. EventsOn(r)' = EventsOn(r)
      BY <2>2, ForgetsNone DEF EventsOn
    <3>2. live[r] # Absent => forgotten'[r] = now
      BY <2>2 DEF CommitForgetting
    <3>3. now # Never
      BY <1>1 DEF TypeOK, Never
    <3> QED
      BY <1>8, <2>2, <3>1, <3>2, <3>3 DEF LinesInv
  <2>3. CASE r \in Held(s) /\ Commit(s)
    <3> DEFINE E == EventsOn(r)
               W == WrittenOn(s, r)
    <3>1. EventsOn(r)' = E \cup W
      BY <2>3 DEF Commit, EventsOn, WrittenOn
    <3>2. \A d \in E : \A e \in W : d.id < e.id
      BY <1>1, <2>3 DEF HeldInv
    <3>3. \A e \in E \cup W : e.id \in Nat
      BY <1>1 DEF EventsOn, WrittenOn, TypeOK, Event
    <3>4. Chain(W) /\ Ends(W, live'[r]) /\ Begins(W, live[r])
      BY <1>1, <1>4, <2>3 DEF LinesInv, HeldInv
    <3>5. E # {} => Chain(E) /\ Ends(E, live[r])
      BY <1>8, <2>3 DEF LinesInv, Commit
    <3> HIDE DEF E, W
    <3>6. CASE E = {}
      BY <3>1, <3>4, <3>6
    <3>7. CASE E # {}
      BY <3>1, <3>2, <3>3, <3>4, <3>5, <3>7, ChainsJoin, JoinEnds
    <3> QED
      BY <3>6, <3>7
  <2> QED
    BY <2>1, <2>2, <2>3
<1>9. ASSUME NEW u \in Session, NEW q \in Held(u)'
      PROVE  /\ Chain(WrittenOn(u, q)') /\ Ends(WrittenOn(u, q)', mine'[u][q])
             /\ live'[q] = Absent => EventsOn(q)' = {}
  <2>1. u # s /\ q \in Held(u) /\ q \notin Held(s) /\ q \in Row
    BY <1>1, <1>3, <1>9 DEF LockInv, TypeOK
  <2>2. WrittenOn(u, q)' = WrittenOn(u, q) /\ mine'[u] = mine[u]
    BY <1>3, <2>1 DEF WrittenOn
  <2> QED
    BY <1>4, <1>7, <2>1, <2>2 DEF LinesInv
<1> QED
  BY <1>6, <1>8, <1>9 DEF LinesInv

\* What else happens writes nothing.
LEMMA QuietLines ==
  ASSUME HistoryInv, LinesInv, Tick \/ UNCHANGED vars \/ \E s \in Session : Begin(s) \/ Abort(s)
  PROVE  LinesInv'
<1>1. UNCHANGED <<live, event, used, forgotten>>
  BY DEF Tick, vars, Begin, Abort, Ended
<1>2. \A u \in Session : \/ Held(u)' = {}
                         \/ Held(u)' = Held(u) /\ mine'[u] = mine[u] /\ written'[u] = written[u]
  <2>1. CASE \E s \in Session : Abort(s)
    <3>1. PICK s \in Session : Ended(s)
      BY <2>1 DEF Abort
    <3> QED
      BY <3>1, EndFacts
  <2>2. CASE Tick \/ UNCHANGED vars \/ \E s \in Session : Begin(s)
    BY <2>2 DEF Tick, vars, Begin, Held
  <2> QED
    BY <2>1, <2>2
<1>3. \A q : EventsOn(q)' = EventsOn(q)
  BY <1>1 DEF EventsOn
<1>4. ASSUME NEW u \in Session, NEW q \in Held(u)'
      PROVE  /\ Chain(WrittenOn(u, q)') /\ Ends(WrittenOn(u, q)', mine'[u][q])
             /\ live'[q] = Absent => EventsOn(q)' = {}
  <2>1. q \in Held(u) /\ mine'[u] = mine[u] /\ WrittenOn(u, q)' = WrittenOn(u, q)
    BY <1>2, <1>4 DEF WrittenOn
  <2> QED
    BY <1>1, <1>3, <2>1 DEF LinesInv
<1> QED
  BY <1>1, <1>3, <1>4 DEF LinesInv

\* Every step keeps the chains.
LEMMA LinesStep == HistoryInv /\ LinesInv /\ [Next]_vars => LinesInv'
<1> SUFFICES ASSUME HistoryInv, LinesInv, [Next]_vars PROVE LinesInv'
  OBVIOUS
<1> QED
  BY StatementLines, CommitLines, QuietLines DEF Next

\* The chains are kept throughout.
LEMMA LinesAlways == Spec => [](HistoryInv /\ LinesInv)
<1>1. Init => LinesInv
  <2> SUFFICES ASSUME Init PROVE LinesInv
    OBVIOUS
  <2>1. event = {} /\ \A s \in Session : Held(s) = {}
    BY DEF Init, Held
  <2>2. \A r : EventsOn(r) = {}
    BY <2>1 DEF EventsOn
  <2> QED
    BY <2>1, <2>2 DEF LinesInv
<1> QED
  BY <1>1, LinesStep, HistoryAlways, PTL DEF Spec
\* Numbers below a bound that are not none have a greatest one.
LEMMA GreatestOf ==
  ASSUME NEW E, E # {}, NEW n \in Nat, \A e \in E : e.id \in Nat /\ e.id < n
  PROVE  \E e \in E : \A d \in E : d.id <= e.id
<1> DEFINE S == {n - e.id : e \in E}
           R == OpToRel(<, Nat)
<1>1. S \subseteq Nat /\ S # {}
  <2>1. ASSUME NEW e \in E PROVE n - e.id \in Nat
    BY <2>1
  <2> QED
    BY <2>1
<1>2. IsWellFoundedOn(R, Nat)
  BY NatLessThanWellFounded
<1>3. \A x, y \in Nat : <<y, x>> \in R <=> y < x
  BY DEF OpToRel
<1>4. PICK x \in S : \A y \in S : <<y, x>> \notin R
  <2> HIDE DEF R, S
  <2> QED
    BY <1>1, <1>2, WFMin, Zenon
<1>5. PICK e \in E : x = n - e.id
  OBVIOUS
<1>6. ASSUME NEW d \in E PROVE d.id <= e.id
  <2>1. ~ (n - d.id < n - e.id)
    <3>1. n - d.id \in S
      OBVIOUS
    <3> HIDE DEF R, S
    <3> QED
      BY <1>1, <1>3, <1>4, <1>5, <3>1
  <2>2. n \in Nat /\ d.id \in Nat /\ e.id \in Nat
    OBVIOUS
  <2> QED
    BY <2>1, <2>2
<1> QED
  BY <1>6

-----------------------------------------------------------------------------
(* The lines add up *)

Lines(r) == {Group(r, s) : s \in Session} \ {{}}
Precedes(A, B) == Last(A).id < First(B).id
Apart(r) == \A A, B \in Lines(r) : A # B => Precedes(A, B) \/ Precedes(B, A)

\* A line has a first and a last event, and lies between them.
LEMMA LineSpan ==
  ASSUME HistoryInv, NEW r \in Row, NEW A \in Lines(r)
  PROVE  /\ A \subseteq EventsOn(r)
         /\ First(A) \in A /\ Last(A) \in A
         /\ \A d \in A : /\ d.id \in Nat /\ First(A).id <= d.id /\ d.id <= Last(A).id
                         /\ A = Group(r, d.by)
<1>1. TypeOK /\ ClockInv /\ 2 * writes \in Nat
  BY BoundsAreCounts DEF HistoryInv, TypeOK
<1>2. PICK s \in Session : A = Group(r, s) /\ A # {}
  BY DEF Lines
<1>3. A \subseteq EventsOn(r) /\ \A d \in A : d.by = s
  BY <1>2 DEF Group, EventsOn
<1>4. \A d \in A : d.id \in Nat /\ d.id < 2 * writes
  BY <1>1, <1>2 DEF Group, TypeOK, ClockInv, Event
<1>5. First(A) \in A /\ \A d \in A : First(A).id <= d.id
  BY <1>2, <1>4, LeastOf DEF First
<1>6. Last(A) \in A /\ \A d \in A : d.id <= Last(A).id
  BY <1>1, <1>2, <1>4, GreatestOf DEF Last
<1> QED
  BY <1>2, <1>3, <1>4, <1>5, <1>6

\* Every event of a row is in the line of its context.
LEMMA LineOf ==
  ASSUME HistoryInv, NEW r \in Row, NEW c \in EventsOn(r)
  PROVE  Group(r, c.by) \in Lines(r) /\ c \in Group(r, c.by) /\ c.id \in Nat
BY DEF HistoryInv, TypeOK, Event, EventsOn, Group, Lines

\* A line that follows another without one between starts where that ended.
LEMMA LinesJoin ==
  ASSUME HistoryInv, LinesInv, NEW r \in Row, forgotten[r] = Never, Apart(r),
         NEW A \in Lines(r), NEW B \in Lines(r),
         Precedes(A, B), ~ \E C \in Lines(r) : Precedes(A, C) /\ Precedes(C, B)
  PROVE  Before(B) = After(A)
<1> DEFINE d == Last(A)
           e == First(B)
<1>1. /\ d \in A /\ e \in B /\ d \in EventsOn(r) /\ e \in EventsOn(r)
      /\ d.id \in Nat /\ e.id \in Nat /\ d.id < e.id
      /\ A = Group(r, d.by) /\ B = Group(r, e.by)
  BY LineSpan DEF Precedes
<1>2. A # B
  BY <1>1, LineSpan
<1>3. ASSUME NEW c \in EventsOn(r), d.id < c.id, c.id < e.id PROVE FALSE
  <2> DEFINE C == Group(r, c.by)
  <2>1. C \in Lines(r) /\ c \in C /\ c.id \in Nat
    BY <1>3, LineOf
  <2> HIDE DEF C
  <2>2. First(C).id <= c.id /\ c.id <= Last(C).id /\ First(C).id \in Nat /\ Last(C).id \in Nat
    BY <2>1, LineSpan
  <2>3. C # A /\ C # B
    BY <1>1, <1>3, <2>1, LineSpan
  <2>4. ~ Precedes(C, A)
    <3>1. First(A).id <= d.id /\ First(A).id \in Nat
      BY LineSpan
    <3> QED
      BY <1>1, <1>3, <2>1, <2>2, <3>1 DEF Precedes
  <2>5. ~ Precedes(B, C)
    <3>1. e.id <= Last(B).id /\ Last(B).id \in Nat
      BY LineSpan
    <3> QED
      BY <1>1, <1>3, <2>1, <2>2, <3>1 DEF Precedes
  <2>6. Precedes(A, C) /\ Precedes(C, B)
    BY <2>1, <2>3, <2>4, <2>5 DEF Apart
  <2> QED
    BY <2>1, <2>6
<1>4. Chain(EventsOn(r))
  BY <1>1 DEF LinesInv
<1>5. Follows(EventsOn(r), d, e)
  BY <1>1, <1>3 DEF Follows
<1>6. Says(e, StateAfter(d))
  BY <1>1, <1>2, <1>4, <1>5 DEF Chain
<1>7. Before(B) = StateAfter(d)
  BY <1>6 DEF Says, Before
<1> QED
  BY <1>7 DEF After, StateAfter

\* The newest line ends at the row as it is.
LEMMA NewestLine ==
  ASSUME HistoryInv, LinesInv, NEW r \in Row, forgotten[r] = Never, Apart(r), Lines(r) # {}
  PROVE  \E B \in Lines(r) : /\ \A A \in Lines(r) \ {B} : Precedes(A, B)
                             /\ After(B) = live[r]
<1>1. EventsOn(r) # {}
  BY LineSpan
<1>2. PICK l \in EventsOn(r) : StateAfter(l) = live[r] /\ \A c \in EventsOn(r) \ {l} : c.id < l.id
  BY <1>1 DEF LinesInv, Ends
<1> DEFINE B == Group(r, l.by)
<1>3. B \in Lines(r) /\ l \in B /\ l.id \in Nat
  BY LineOf
<1> HIDE DEF B
<1>4. Last(B) = l
  <2>1. Last(B) \in EventsOn(r) /\ l.id <= Last(B).id /\ Last(B).id \in Nat
    BY <1>3, LineSpan
  <2> QED
    BY <1>2, <1>3, <2>1
<1>5. ASSUME NEW A \in Lines(r) \ {B} PROVE Precedes(A, B)
  <2>1. /\ First(A).id \in Nat /\ First(A).id <= l.id
    <3>1. First(A) \in EventsOn(r) /\ First(A).id \in Nat
      BY LineSpan
    <3> QED
      BY <1>2, <1>3, <3>1
  <2>2. ~ Precedes(B, A)
    BY <1>3, <1>4, <2>1 DEF Precedes
  <2> QED
    BY <1>3, <1>5, <2>2 DEF Apart
<1>6. After(B) = live[r]
  BY <1>2, <1>4 DEF After, StateAfter
<1> QED
  BY <1>3, <1>5, <1>6

\* The change pages add up (core/changes.py): of two lines of a record with nothing
\* between them the later starts from what the earlier left, and the newest ends
\* at the row as it is, where no other request's change came between a line's own and
\* no change of the record was forgotten (core/demonstration.py forget_events).
THEOREM LinesAddUp == Spec => []PageAddsUp
<1>1. HistoryInv /\ LinesInv => PageAddsUp
  <2> SUFFICES ASSUME HistoryInv, LinesInv, NEW r \in Row, Lines(r) # {}, Apart(r),
                      forgotten[r] = Never
               PROVE  /\ \A A, B \in Lines(r) :
                           (Precedes(A, B) /\ ~ \E C \in Lines(r) : Precedes(A, C) /\ Precedes(C, B))
                             => Before(B) = After(A)
                      /\ \E B \in Lines(r) : /\ \A A \in Lines(r) \ {B} : Precedes(A, B)
                                             /\ After(B) = live[r]
    BY Zenon DEF PageAddsUp, Lines, Precedes, Apart
  <2> QED
    BY LinesJoin, NewestLine
<1> QED
  BY <1>1, LinesAlways, PTL
=============================================================================
