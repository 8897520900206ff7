---------------------------- MODULE FilingProofs ----------------------------
(***************************************************************************)
(* What Filing guarantees for any number of years, records, sessions and    *)
(* transactions: type correctness, one statement for each closing, the      *)
(* first fingerprint kept, and that a year closed quietly reads as it was   *)
(* filed.                                                                   *)
(***************************************************************************)
EXTENDS Filing, SequenceTheorems, TLAPS

-----------------------------------------------------------------------------
(* The inductive invariant *)

Busy == {"figures", "code", "save"}
Taking(s) == session[s].pc \in Busy

\* A session that is past the row lock holds its year's row, and only it does.
HoldInv ==
  \A s \in Session :
    /\ Taking(s) => session[s].year \in Year /\ holder[session[s].year] = s
    /\ \A y \in Year : holder[y] = s => Taking(s) /\ session[s].year = y

\* What a session saw under the row lock still stands.
PressInv(s) ==
  Taking(s) /\ session[s].task = "press" =>
    /\ session[s].reopening <=> session[s].year \in finalized
    /\ session[s].reopening => session[s].pc = "save"
FiguresInv(s) ==
  Taking(s) /\ session[s].task = "record figures" =>
    /\ session[s].year \in finalized
    /\ statements[session[s].year] = <<>>
    /\ session[s].pc # "code"
CodesInv(s) ==
  Taking(s) /\ session[s].task = "record codes" =>
    /\ session[s].year \in finalized
    /\ code[session[s].year] = NoCode
    /\ session[s].pc # "figures"
StandsInv == \A s \in Session : PressInv(s) /\ FiguresInv(s) /\ CodesInv(s)

\* Nothing is read before the row lock, and everything before it is saved.
FreshInv(s) ==
  session[s].pc \in {"idle", "asked", "pass"} =>
    session[s].figures = NothingRead /\ session[s].code = NothingRead
AskedInv(s) ==
  /\ session[s].pc = "asked" => session[s].year \in Year /\ session[s].task = "press"
  /\ session[s].pc = "pass" => session[s].task # "press"
Closing(s) == session[s].task = "press" /\ ~session[s].reopening
ReadInv(s) ==
  /\ \/ session[s].pc = "code" /\ session[s].task = "press"
     \/ session[s].pc = "save" /\ (Closing(s) \/ session[s].task = "record figures")
     => session[s].figures \in Figures
  /\ session[s].pc = "save" /\ (Closing(s) \/ session[s].task = "record codes")
     => session[s].code \in Figures
ReadyInv == \A s \in Session : FreshInv(s) /\ AskedInv(s) /\ ReadInv(s)

Inv == TypeOK /\ HoldInv /\ StandsInv /\ ReadyInv

\* No two transactions hold the same row.
Apart == \A u, w \in Writer :
           u # w => DOMAIN txn[u].writes \cap DOMAIN txn[w].writes = {}
Untouched(y) ==
  \A w \in Writer : \A r \in DOMAIN txn[w].writes :
    rows[r].year # y /\ txn[w].writes[r].year # y

\* Nothing in flight reaches a year closed quietly, or one about to be.
QuietInv == \A y \in finalized \ disturbed : Untouched(y)
ReadSoFar(s) ==
  \A r \in Record :
    /\ session[s].figures[r] \in {Unread, Figure(session[s].year, r)}
    /\ session[s].code[r] \in {Unread, Figure(session[s].year, r)}
Reopening(s) == session[s].task = "press" /\ session[s].reopening
SteadyInv ==
  \A s \in Session :
    Taking(s) /\ session[s].year \notin disturbed /\ ~Reopening(s) =>
      Untouched(session[s].year) /\ ReadSoFar(s)

FiledInv == Apart /\ QuietInv /\ SteadyInv /\ FiledAsRead

-----------------------------------------------------------------------------
(* Types *)

\* Where sessions and transactions begin is well typed.
LEMMA IdleType ==
  /\ Idle \in SessionState
  /\ Closed \in Transaction
  /\ NothingRead \in [Record -> Cell \cup {Unread}]
<1>1. NoWrites \in Pending
  <2>1. NoWrites \in [{} -> Version]
    BY DEF NoWrites
  <2> QED
    BY <2>1 DEF Pending
<1>2. NothingRead \in [Record -> Cell \cup {Unread}]
  BY DEF NothingRead
<1> QED
  BY <1>1, <1>2 DEF Idle, Closed, SessionState, Transaction, SessionPC, Task

\* What a transaction sees of a record, and the change it makes to it.
LEMMA CurrentType ==
  ASSUME TypeOK, NEW w \in Writer, NEW r \in Record
  PROVE  Current(w, r) \in Version
<1>1. txn[w].writes \in Pending
  BY DEF TypeOK, Transaction
<1>2. PICK R \in SUBSET Record : txn[w].writes \in [R -> Version]
  BY <1>1 DEF Pending
<1> QED
  BY <1>2 DEF Current, TypeOK

\* The changes in flight are versions of records.
LEMMA PendingType ==
  ASSUME TypeOK, NEW w \in Writer
  PROVE  /\ DOMAIN txn[w].writes \subseteq Record
         /\ txn[w].writes \in [DOMAIN txn[w].writes -> Version]
<1>1. txn[w].writes \in Pending
  BY DEF TypeOK, Transaction
<1>2. PICK R \in SUBSET Record : txn[w].writes \in [R -> Version]
  BY <1>1 DEF Pending
<1> QED
  BY <1>2

\* One more change in flight is still a set of changes.
LEMMA PutType ==
  ASSUME NEW f \in Pending, NEW r \in Record, NEW new \in Version
  PROVE  [q \in DOMAIN f \cup {r} |-> IF q = r THEN new ELSE f[q]] \in Pending
<1>1. PICK R \in SUBSET Record : f \in [R -> Version]
  BY DEF Pending
<1>2. [q \in DOMAIN f \cup {r} |-> IF q = r THEN new ELSE f[q]] \in [R \cup {r} -> Version]
  BY <1>1
<1>3. R \cup {r} \in SUBSET Record
  OBVIOUS
<1> QED
  BY <1>2, <1>3 DEF Pending

\* What a year prints of a record is a cell.
LEMMA FigureType ==
  ASSUME TypeOK, NEW y \in Year, NEW r \in Record
  PROVE  Figure(y, r) \in Cell
BY ElsewhereAssumption DEF TypeOK, Figure, Version, Outside, Cell

\* A digest of a reading that is complete is a digest.
LEMMA DigestType ==
  ASSUME TypeOK, NEW s \in Session, NEW y \in Year, session[s].code \in Figures
  PROVE  DigestRead(s, y) \in Digest
<1>1. Len(statements[y]) \in Nat /\ Len(statements[y]) + 1 \in Nat
  BY DEF TypeOK
<1>2. CASE session[s].task = "press"
  <2>1. DigestRead(s, y) = [figures |-> session[s].code, filed |-> Len(statements[y]) + 1]
    BY <1>2 DEF DigestRead
  <2> QED
    BY <1>1, <2>1 DEF Digest
<1>3. CASE session[s].task # "press"
  <2>1. DigestRead(s, y) = [figures |-> session[s].code, filed |-> Len(statements[y]) + 0]
    BY <1>3 DEF DigestRead
  <2> QED
    BY <1>1, <2>1 DEF Digest
<1> QED
  BY <1>2, <1>3

\* So is the code that keeps it.
LEMMA FingerprintType ==
  ASSUME TypeOK, NEW y \in Year, NEW d \in Digest
  PROVE  TakeFingerprint(y, d) \in Code
BY DEF TypeOK, TakeFingerprint, Code

\* Every action keeps the types; saving needs a reading that is complete.
LEMMA TypeStep ==
  ASSUME TypeOK, HoldInv, ReadyInv, [Next]_vars
  PROVE  TypeOK'
<1>1. ASSUME NEW w \in Writer, Begin(w)
      PROVE  TypeOK'
  BY <1>1, IdleType DEF Begin, TypeOK, filing, Transaction
<1>2. ASSUME NEW w \in Writer, OpenDoor(w)
      PROVE  TypeOK'
  BY <1>2, IdleType DEF OpenDoor, TypeOK, filing, Transaction
<1>3. ASSUME NEW w \in Writer, NEW r \in Record, NEW new \in Version, Write(w, r, new)
      PROVE  TypeOK'
  <2>1. txn[w] \in Transaction /\ txn[w].writes \in Pending
    BY DEF TypeOK, Transaction
  <2> DEFINE put == [q \in DOMAIN txn[w].writes \cup {r} |->
                       IF q = r THEN new ELSE txn[w].writes[q]]
  <2>4. put \in Pending
    BY <2>1, PutType
  <2>5. txn' = [txn EXCEPT ![w] = [txn[w] EXCEPT !.writes = put]]
    BY <1>3 DEF Write
  <2>6. [txn[w] EXCEPT !.writes = put] \in Transaction
    BY <2>1, <2>4 DEF Transaction
  <2>2. txn' \in [Writer -> Transaction]
    BY <2>5, <2>6 DEF TypeOK
  <2>3. disturbed' \subseteq Year
    BY <1>3 DEF Write, TypeOK
  <2> QED
    BY <1>3, <2>2, <2>3 DEF Write, TypeOK, filing
<1>4. ASSUME NEW w \in Writer, Commit(w)
      PROVE  TypeOK'
  BY <1>4, IdleType, CurrentType DEF Commit, TypeOK, filing
<1>5. ASSUME NEW w \in Writer, Rollback(w)
      PROVE  TypeOK'
  BY <1>5, IdleType DEF Rollback, TypeOK, filing, Transaction
<1>6. ASSUME NEW s \in Session, NEW y \in Year, Press(s, y)
      PROVE  TypeOK'
  <2> DEFINE closed == y \in finalized
  <2>1. closed \in BOOLEAN
    OBVIOUS
  <2> HIDE DEF closed
  <2>2. [Idle EXCEPT !.pc = "asked", !.year = y, !.reopening = closed] \in SessionState
    BY <2>1, IdleType DEF SessionState, SessionPC
  <2>3. session' = [session EXCEPT ![s] =
           [Idle EXCEPT !.pc = "asked", !.year = y, !.reopening = closed]]
    BY <1>6 DEF Press, closed
  <2> QED
    BY <1>6, <2>2, <2>3 DEF Press, TypeOK, filing
<1>7. ASSUME NEW s \in Session, PressLocks(s)
      PROVE  TypeOK'
  <2>1. session[s] \in SessionState /\ session[s].year \in Year
    BY <1>7 DEF PressLocks, TypeOK, ReadyInv, AskedInv
  <2>2. disturbed' \subseteq Year
    BY <1>7, <2>1 DEF PressLocks, TypeOK, Settle
  <2> QED
    BY <1>7, <2>1, <2>2 DEF PressLocks, TypeOK, filing, SessionState, SessionPC, Task
<1>8. ASSUME NEW s \in Session, PressTooLate(s)
      PROVE  TypeOK'
  BY <1>8, IdleType DEF PressTooLate, TypeOK, filing, SessionState, SessionPC, Task, ListsYears
<1>9. ASSUME NEW s \in Session, Reopen(s)
      PROVE  TypeOK'
  BY <1>9, IdleType DEF Reopen, TypeOK, filing, Release
<1>10. ASSUME NEW s \in Session, Finalize(s)
      PROVE  TypeOK'
  <2> DEFINE y == session[s].year
             filed == [kind |-> KindOfClosing(y), figures |-> session[s].figures]
  <2>1. y \in Year /\ session[s].figures \in Figures /\ session[s].code \in Figures
    BY <1>10 DEF Finalize, HoldInv, Taking, Busy, ReadyInv, ReadInv, Closing
  <2>2. filed \in Statement
    BY <2>1 DEF Statement, Kind, KindOfClosing
  <2>3. statements' \in [Year -> Seq(Statement)]
    BY <1>10, <2>1, <2>2 DEF Finalize, TypeOK
  <2>4. TakeFingerprint(y, DigestRead(s, y)) \in Code
    BY <2>1, DigestType, FingerprintType
  <2>5. code' \in [Year -> Code \cup {NoCode}]
    BY <1>10, <2>1, <2>4 DEF Finalize, TypeOK
  <2> QED
    BY <1>10, <2>1, <2>3, <2>5, IdleType DEF Finalize, TypeOK, Release
<1>11. ASSUME NEW s \in Session, NEW r \in Record, ReadFigure(s, r)
      PROVE  TypeOK'
  <2>1. session[s].year \in Year /\ session[s] \in SessionState
    BY <1>11 DEF ReadFigure, TypeOK, HoldInv, Taking, Busy
  <2>2. Figure(session[s].year, r) \in Cell
    BY <2>1, FigureType
  <2> QED
    BY <1>11, <2>1, <2>2 DEF ReadFigure, TypeOK, filing, SessionState
<1>12. ASSUME NEW s \in Session, FiguresRead(s)
      PROVE  TypeOK'
  <2>1. \A pc \in SessionPC : [session[s] EXCEPT !.pc = pc] \in SessionState
    BY DEF TypeOK, SessionState
  <2>2. \A pc \in SessionPC : [session EXCEPT ![s].pc = pc] \in [Session -> SessionState]
    BY <2>1 DEF TypeOK
  <2> QED
    BY <1>12, <2>2 DEF FiguresRead, TypeOK, filing, SessionPC
<1>13. ASSUME NEW s \in Session, NEW r \in Record, ReadForCode(s, r)
      PROVE  TypeOK'
  <2>1. session[s].year \in Year /\ session[s] \in SessionState
    BY <1>13 DEF ReadForCode, TypeOK, HoldInv, Taking, Busy
  <2>2. Figure(session[s].year, r) \in Cell
    BY <2>1, FigureType
  <2> QED
    BY <1>13, <2>1, <2>2 DEF ReadForCode, TypeOK, filing, SessionState
<1>14. ASSUME NEW s \in Session, CodeComputed(s)
      PROVE  TypeOK'
  <2>1. [session[s] EXCEPT !.pc = "save"] \in SessionState
    BY DEF TypeOK, SessionState, SessionPC
  <2>2. [session EXCEPT ![s].pc = "save"] \in [Session -> SessionState]
    BY <2>1 DEF TypeOK
  <2> QED
    BY <1>14, <2>2 DEF CodeComputed, TypeOK, filing
<1>15. ASSUME NEW s \in Session, Start(s)
      PROVE  TypeOK'
  BY <1>15, IdleType DEF Start, TypeOK, filing, SessionState, SessionPC, Task, ListsYears
<1>16. ASSUME NEW s \in Session, NEW y \in Year, PassesOver(s, y)
      PROVE  TypeOK'
  <2>1. [session[s] EXCEPT !.todo = @ \ {y}] \in SessionState
    BY DEF TypeOK, SessionState
  <2>2. [session EXCEPT ![s].todo = @ \ {y}] \in [Session -> SessionState]
    BY <2>1 DEF TypeOK
  <2> QED
    BY <1>16, <2>2 DEF PassesOver, TypeOK, filing
<1>17. ASSUME NEW s \in Session, NEW y \in Year, TakesUp(s, y)
      PROVE  TypeOK'
  <2>1. session[s] \in SessionState
    BY DEF TypeOK
  <2>2. [session[s] EXCEPT !.year = y, !.todo = session[s].todo \ {y}, !.pc = "figures"] \in SessionState
    BY <2>1 DEF SessionState, SessionPC
  <2>3. [session[s] EXCEPT !.year = y, !.todo = session[s].todo \ {y}, !.pc = "code"] \in SessionState
    BY <2>1 DEF SessionState, SessionPC
  <2>4. CASE session[s].task = "record figures"
    <3>1. session' = [session EXCEPT ![s] =
            [session[s] EXCEPT !.year = y, !.todo = session[s].todo \ {y}, !.pc = "figures"]]
      BY <1>17, <2>4 DEF TakesUp
    <3> QED
      BY <1>17, <2>2, <3>1 DEF TakesUp, TypeOK, filing
  <2>5. CASE session[s].task # "record figures"
    <3>1. session' = [session EXCEPT ![s] =
            [session[s] EXCEPT !.year = y, !.todo = session[s].todo \ {y}, !.pc = "code"]]
      BY <1>17, <2>5 DEF TakesUp
    <3> QED
      BY <1>17, <2>3, <3>1 DEF TakesUp, TypeOK, filing
  <2> QED
    BY <2>4, <2>5
<1>18. ASSUME NEW s \in Session, RecordFigures(s)
      PROVE  TypeOK'
  <2> DEFINE y == session[s].year
             filed == [kind |-> "recorded_at_upgrade", figures |-> session[s].figures]
  <2>1. y \in Year /\ session[s].figures \in Figures /\ session[s] \in SessionState
    BY <1>18 DEF RecordFigures, HoldInv, Taking, Busy, ReadyInv, ReadInv, Closing, TypeOK
  <2>2. filed \in Statement
    BY <2>1 DEF Statement, Kind
  <2> HIDE DEF filed
  <2>4. statements' = [statements EXCEPT ![y] = Append(statements[y], filed)]
    BY <1>18 DEF RecordFigures, filed
  <2>3. statements' \in [Year -> Seq(Statement)]
    BY <2>1, <2>2, <2>4 DEF TypeOK
  <2> QED
    BY <1>18, <2>1, <2>3, IdleType DEF RecordFigures, TypeOK, Release, SessionState,
       SessionPC, Task
<1>19. ASSUME NEW s \in Session, RecordCode(s)
      PROVE  TypeOK'
  <2> DEFINE y == session[s].year
  <2>1. y \in Year /\ session[s].code \in Figures /\ session[s] \in SessionState
    BY <1>19 DEF RecordCode, HoldInv, Taking, Busy, ReadyInv, ReadInv, Closing, TypeOK
  <2>2. TakeFingerprint(y, DigestRead(s, y)) \in Code
    BY <2>1, DigestType, FingerprintType
  <2> QED
    BY <1>19, <2>1, <2>2, IdleType DEF RecordCode, TypeOK, Release, SessionState, SessionPC,
       Task
<1>20. ASSUME NEW s \in Session, PassEnds(s)
      PROVE  TypeOK'
  <2>1. [Idle EXCEPT !.pc = "pass", !.task = "record codes", !.todo = finalized] \in SessionState
    BY IdleType DEF SessionState, SessionPC, Task, TypeOK
  <2>2. session' \in [Session -> SessionState]
    BY <1>20, <2>1, IdleType DEF PassEnds, ListsYears, TypeOK
  <2> QED
    BY <1>20, <2>2 DEF PassEnds, TypeOK, filing
<1>21. ASSUME NEW s \in Session, Fails(s)
      PROVE  TypeOK'
  BY <1>21, IdleType DEF Fails, TypeOK, filing, SessionState, SessionPC, Task, ListsYears
<1>22. CASE UNCHANGED vars
  BY <1>22 DEF TypeOK, vars, filing
<1> QED
  BY <1>1, <1>2, <1>3, <1>4, <1>5, <1>6, <1>7, <1>8, <1>9, <1>10, <1>11, <1>12, <1>13, <1>14,
     <1>15, <1>16, <1>17, <1>18, <1>19, <1>20, <1>21, <1>22 DEF Next, WriterStep, SessionStep

-----------------------------------------------------------------------------
(* Who holds a year's row *)

\* Every action keeps a year's row with the session that holds it.
LEMMA HoldStep ==
  ASSUME TypeOK, HoldInv, ReadyInv, [Next]_vars
  PROVE  HoldInv'
<1>1. ASSUME NEW w \in Writer, Begin(w)
      PROVE  HoldInv'
  BY <1>1 DEF Begin, HoldInv, Taking, filing
<1>2. ASSUME NEW w \in Writer, OpenDoor(w)
      PROVE  HoldInv'
  BY <1>2 DEF OpenDoor, HoldInv, Taking, filing
<1>3. ASSUME NEW w \in Writer, NEW r \in Record, NEW new \in Version, Write(w, r, new)
      PROVE  HoldInv'
  BY <1>3 DEF Write, HoldInv, Taking, filing
<1>4. ASSUME NEW w \in Writer, Commit(w)
      PROVE  HoldInv'
  BY <1>4 DEF Commit, HoldInv, Taking, filing
<1>5. ASSUME NEW w \in Writer, Rollback(w)
      PROVE  HoldInv'
  BY <1>5 DEF Rollback, HoldInv, Taking, filing
<1>6. ASSUME NEW s \in Session, NEW y \in Year, Press(s, y)
      PROVE  HoldInv'
  BY <1>6, NobodyAssumption DEF Press, TypeOK, SessionState, HoldInv, Taking, Busy, Idle,
     Release, filing
<1>7. ASSUME NEW s \in Session, PressLocks(s)
      PROVE  HoldInv'
  BY <1>7, NobodyAssumption DEF PressLocks, TypeOK, SessionState, HoldInv, Taking, Busy, Idle,
     Release, filing, ReadyInv, AskedInv
<1>8. ASSUME NEW s \in Session, PressTooLate(s)
      PROVE  HoldInv'
  BY <1>8, NobodyAssumption DEF PressTooLate, TypeOK, SessionState, HoldInv, Taking, Busy,
     Idle, Release, filing
<1>9. ASSUME NEW s \in Session, Reopen(s)
      PROVE  HoldInv'
  BY <1>9, NobodyAssumption DEF Reopen, TypeOK, SessionState, HoldInv, Taking, Busy, Idle,
     Release, filing
<1>10. ASSUME NEW s \in Session, Finalize(s)
      PROVE  HoldInv'
  BY <1>10, NobodyAssumption DEF Finalize, TypeOK, SessionState, HoldInv, Taking, Busy, Idle,
     Release, filing
<1>11. ASSUME NEW s \in Session, NEW r \in Record, ReadFigure(s, r)
      PROVE  HoldInv'
  BY <1>11, NobodyAssumption DEF ReadFigure, TypeOK, SessionState, HoldInv, Taking, Busy,
     Idle, Release, filing
<1>12. ASSUME NEW s \in Session, FiguresRead(s)
      PROVE  HoldInv'
  BY <1>12, NobodyAssumption DEF FiguresRead, TypeOK, SessionState, HoldInv, Taking, Busy,
     Idle, Release, filing
<1>13. ASSUME NEW s \in Session, NEW r \in Record, ReadForCode(s, r)
      PROVE  HoldInv'
  BY <1>13, NobodyAssumption DEF ReadForCode, TypeOK, SessionState, HoldInv, Taking, Busy,
     Idle, Release, filing
<1>14. ASSUME NEW s \in Session, CodeComputed(s)
      PROVE  HoldInv'
  BY <1>14, NobodyAssumption DEF CodeComputed, TypeOK, SessionState, HoldInv, Taking, Busy,
     Idle, Release, filing
<1>15. ASSUME NEW s \in Session, Start(s)
      PROVE  HoldInv'
  BY <1>15, NobodyAssumption DEF Start, TypeOK, SessionState, HoldInv, Taking, Busy, Idle,
     Release, filing, ListsYears
<1>16. ASSUME NEW s \in Session, NEW y \in Year, PassesOver(s, y)
      PROVE  HoldInv'
  BY <1>16, NobodyAssumption DEF PassesOver, TypeOK, SessionState, HoldInv, Taking, Busy,
     Idle, Release, filing
<1>17. ASSUME NEW s \in Session, NEW y \in Year, TakesUp(s, y)
      PROVE  HoldInv'
  BY <1>17, NobodyAssumption DEF TakesUp, TypeOK, SessionState, HoldInv, Taking, Busy, Idle,
     Release, filing
<1>18. ASSUME NEW s \in Session, RecordFigures(s)
      PROVE  HoldInv'
  <2>1. session'[s].pc = "pass" \/ session'[s].pc = "idle"
    BY <1>18, IdleType DEF RecordFigures, TypeOK, SessionState, Idle, ListsYears
  <2>2. \A u \in Session \ {s} : session'[u] = session[u]
    BY <1>18 DEF RecordFigures, TypeOK, ListsYears
  <2>3. \A y \in Year : /\ holder[y] # s => holder'[y] = holder[y]
                        /\ holder[y] = s => holder'[y] = Nobody
    BY <1>18 DEF RecordFigures, TypeOK, Release, HoldInv, Taking, Busy
  <2>4. \A y \in Year : holder'[y] # s
    BY <1>18, NobodyAssumption DEF RecordFigures, TypeOK, Release, HoldInv, Taking, Busy
  <2> QED
    BY <2>1, <2>2, <2>3, <2>4, NobodyAssumption DEF HoldInv, Taking, Busy
<1>19. ASSUME NEW s \in Session, RecordCode(s)
      PROVE  HoldInv'
  <2>1. session'[s].pc = "pass" \/ session'[s].pc = "idle"
    BY <1>19, IdleType DEF RecordCode, TypeOK, SessionState, Idle, ListsYears
  <2>2. \A u \in Session \ {s} : session'[u] = session[u]
    BY <1>19 DEF RecordCode, TypeOK, ListsYears
  <2>3. \A y \in Year : /\ holder[y] # s => holder'[y] = holder[y]
                        /\ holder[y] = s => holder'[y] = Nobody
    BY <1>19 DEF RecordCode, TypeOK, Release, HoldInv, Taking, Busy
  <2>4. \A y \in Year : holder'[y] # s
    BY <1>19, NobodyAssumption DEF RecordCode, TypeOK, Release, HoldInv, Taking, Busy
  <2> QED
    BY <2>1, <2>2, <2>3, <2>4, NobodyAssumption DEF HoldInv, Taking, Busy
<1>20. ASSUME NEW s \in Session, PassEnds(s)
      PROVE  HoldInv'
  <2>1. session[s].pc = "pass" /\ session[s] \in SessionState /\ holder' = holder
    BY <1>20 DEF PassEnds, TypeOK
  <2>2. PICK x \in SessionState : x.pc \in {"pass", "idle"} /\ session' = [session EXCEPT ![s] = x]
    <3>1. CASE session[s].task = "record figures"
      <4> DEFINE x == [Idle EXCEPT !.pc = "pass", !.task = "record codes", !.todo = finalized]
      <4>1. x \in SessionState /\ x.pc = "pass"
        BY IdleType DEF SessionState, SessionPC, Task, TypeOK
      <4>2. session' = [session EXCEPT ![s] = x]
        BY <1>20, <3>1 DEF PassEnds, ListsYears
      <4> QED
        BY <4>1, <4>2
    <3>2. CASE session[s].task # "record figures"
      BY <1>20, <3>2, IdleType DEF PassEnds, Idle
    <3> QED
      BY <3>1, <3>2
  <2> QED
    BY <2>1, <2>2 DEF HoldInv, Taking, Busy, TypeOK
<1>21. ASSUME NEW s \in Session, Fails(s)
      PROVE  HoldInv'
  BY <1>21, NobodyAssumption DEF Fails, TypeOK, SessionState, HoldInv, Taking, Busy, Idle,
     Release, filing
<1>22. CASE UNCHANGED vars
  BY <1>22 DEF HoldInv, Taking, vars
<1> QED
  BY <1>1, <1>2, <1>3, <1>4, <1>5, <1>6, <1>7, <1>8, <1>9, <1>10, <1>11, <1>12, <1>13, <1>14,
     <1>15, <1>16, <1>17, <1>18, <1>19, <1>20, <1>21, <1>22 DEF Next, WriterStep, SessionStep

-----------------------------------------------------------------------------
(* What a session saw under the lock still stands *)

\* A step of one session leaves the others where they stand.
LEMMA OthersStay ==
  ASSUME TypeOK, NEW s \in Session, SessionStep(s)
  PROVE  \A u \in Session \ {s} : session'[u] = session[u]
<1>1. ASSUME NEW y \in Year, Press(s, y)
      PROVE  \A u \in Session \ {s} : session'[u] = session[u]
  BY <1>1 DEF Press, TypeOK, filing
<1>2. CASE PressLocks(s)
  BY <1>2 DEF PressLocks, TypeOK, filing
<1>3. CASE PressTooLate(s)
  BY <1>3 DEF PressTooLate, TypeOK, filing
<1>4. CASE Reopen(s)
  BY <1>4 DEF Reopen, TypeOK, filing
<1>5. CASE Finalize(s)
  BY <1>5 DEF Finalize, TypeOK, filing
<1>6. ASSUME NEW r \in Record, ReadFigure(s, r)
      PROVE  \A u \in Session \ {s} : session'[u] = session[u]
  BY <1>6 DEF ReadFigure, TypeOK, filing
<1>7. CASE FiguresRead(s)
  BY <1>7 DEF FiguresRead, TypeOK, filing
<1>8. ASSUME NEW r \in Record, ReadForCode(s, r)
      PROVE  \A u \in Session \ {s} : session'[u] = session[u]
  BY <1>8 DEF ReadForCode, TypeOK, filing
<1>9. CASE CodeComputed(s)
  BY <1>9 DEF CodeComputed, TypeOK, filing
<1>10. CASE Start(s)
  BY <1>10 DEF Start, TypeOK, filing, ListsYears
<1>11. ASSUME NEW y \in Year, PassesOver(s, y)
      PROVE  \A u \in Session \ {s} : session'[u] = session[u]
  BY <1>11 DEF PassesOver, TypeOK, filing
<1>12. ASSUME NEW y \in Year, TakesUp(s, y)
      PROVE  \A u \in Session \ {s} : session'[u] = session[u]
  BY <1>12 DEF TakesUp, TypeOK, filing
<1>13. CASE RecordFigures(s)
  BY <1>13 DEF RecordFigures, TypeOK, filing
<1>14. CASE RecordCode(s)
  BY <1>14 DEF RecordCode, TypeOK, filing
<1>15. CASE PassEnds(s)
  BY <1>15 DEF PassEnds, TypeOK, filing, ListsYears
<1>16. CASE Fails(s)
  BY <1>16 DEF Fails, TypeOK, filing
<1> QED
  BY <1>1, <1>2, <1>3, <1>4, <1>5, <1>6, <1>7, <1>8, <1>9, <1>10, <1>11, <1>12, <1>13, <1>14,
     <1>15, <1>16 DEF SessionStep

\* What is kept of a year: whether it is closed, its statements, its code.
SameKept(y) ==
  /\ y \in finalized' <=> y \in finalized
  /\ statements'[y] = statements[y]
  /\ code'[y] = code[y]

\* A step of one session leaves the years the others hold as they are kept.
LEMMA OthersKept ==
  ASSUME TypeOK, HoldInv, NEW s \in Session, SessionStep(s),
         NEW z \in Year, holder[z] # s
  PROVE  SameKept(z)
<1>1. ASSUME NEW y \in Year, Press(s, y)
      PROVE  SameKept(z)
  BY <1>1 DEF Press, TypeOK, filing, HoldInv, Taking, Busy, SameKept
<1>2. CASE PressLocks(s)
  BY <1>2 DEF PressLocks, TypeOK, filing, HoldInv, Taking, Busy, SameKept
<1>3. CASE PressTooLate(s)
  BY <1>3 DEF PressTooLate, TypeOK, filing, HoldInv, Taking, Busy, SameKept
<1>4. CASE Reopen(s)
  BY <1>4 DEF Reopen, TypeOK, filing, HoldInv, Taking, Busy, SameKept
<1>5. CASE Finalize(s)
  BY <1>5 DEF Finalize, TypeOK, filing, HoldInv, Taking, Busy, SameKept
<1>6. ASSUME NEW r \in Record, ReadFigure(s, r)
      PROVE  SameKept(z)
  BY <1>6 DEF ReadFigure, TypeOK, filing, HoldInv, Taking, Busy, SameKept
<1>7. CASE FiguresRead(s)
  BY <1>7 DEF FiguresRead, TypeOK, filing, HoldInv, Taking, Busy, SameKept
<1>8. ASSUME NEW r \in Record, ReadForCode(s, r)
      PROVE  SameKept(z)
  BY <1>8 DEF ReadForCode, TypeOK, filing, HoldInv, Taking, Busy, SameKept
<1>9. CASE CodeComputed(s)
  BY <1>9 DEF CodeComputed, TypeOK, filing, HoldInv, Taking, Busy, SameKept
<1>10. CASE Start(s)
  BY <1>10 DEF Start, TypeOK, filing, HoldInv, Taking, Busy, SameKept
<1>11. ASSUME NEW y \in Year, PassesOver(s, y)
      PROVE  SameKept(z)
  BY <1>11 DEF PassesOver, TypeOK, filing, HoldInv, Taking, Busy, SameKept
<1>12. ASSUME NEW y \in Year, TakesUp(s, y)
      PROVE  SameKept(z)
  BY <1>12 DEF TakesUp, TypeOK, filing, HoldInv, Taking, Busy, SameKept
<1>13. CASE RecordFigures(s)
  BY <1>13 DEF RecordFigures, TypeOK, filing, HoldInv, Taking, Busy, SameKept
<1>14. CASE RecordCode(s)
  BY <1>14 DEF RecordCode, TypeOK, filing, HoldInv, Taking, Busy, SameKept
<1>15. CASE PassEnds(s)
  BY <1>15 DEF PassEnds, TypeOK, filing, HoldInv, Taking, Busy, SameKept
<1>16. CASE Fails(s)
  BY <1>16 DEF Fails, TypeOK, filing, HoldInv, Taking, Busy, SameKept
<1> QED
  BY <1>1, <1>2, <1>3, <1>4, <1>5, <1>6, <1>7, <1>8, <1>9, <1>10, <1>11, <1>12, <1>13, <1>14,
     <1>15, <1>16 DEF SessionStep

\* What another session saw under its year's row lock still stands, ...
LEMMA OthersStand ==
  ASSUME TypeOK, HoldInv, StandsInv, NEW s \in Session, SessionStep(s),
         NEW u \in Session \ {s}
  PROVE  PressInv(u)' /\ FiguresInv(u)' /\ CodesInv(u)'
<1>1. session'[u] = session[u]
  BY OthersStay
<1>2. CASE Taking(u)
  <2>1. session[u].year \in Year /\ holder[session[u].year] # s
    BY <1>2 DEF HoldInv
  <2>2. SameKept(session[u].year)
    BY <2>1, OthersKept
  <2> QED
    BY <1>1, <2>2 DEF StandsInv, PressInv, FiguresInv, CodesInv, Taking, SameKept
<1>3. CASE ~Taking(u)
  BY <1>1, <1>3 DEF PressInv, FiguresInv, CodesInv, Taking
<1> QED
  BY <1>2, <1>3

\* ... and so does what the session itself saw or has just looked up.
LEMMA OwnStands ==
  ASSUME TypeOK, HoldInv, StandsInv, ReadyInv, NEW s \in Session, SessionStep(s)
  PROVE  PressInv(s)' /\ FiguresInv(s)' /\ CodesInv(s)'
<1>1. ASSUME NEW y \in Year, Press(s, y)
      PROVE  PressInv(s)' /\ FiguresInv(s)' /\ CodesInv(s)'
  BY <1>1 DEF Press, TypeOK, SessionState, PressInv, FiguresInv, CodesInv, Taking, Busy, Idle
<1>2. CASE PressLocks(s)
  <2>1. session[s].task = "press" /\ session[s] \in SessionState
    BY <1>2 DEF PressLocks, ReadyInv, AskedInv, TypeOK
  <2>2. /\ session'[s].year = session[s].year /\ session'[s].task = session[s].task
        /\ session'[s].reopening = session[s].reopening
        /\ session[s].reopening => session'[s].pc = "save"
    BY <1>2, <2>1 DEF PressLocks, TypeOK, SessionState
  <2>3. (session[s].year \in finalized') = session[s].reopening
    BY <1>2 DEF PressLocks, filing
  <2> QED
    BY <2>1, <2>2, <2>3 DEF PressInv, FiguresInv, CodesInv, Taking, Busy
<1>3. CASE PressTooLate(s)
  BY <1>3 DEF PressTooLate, TypeOK, SessionState, PressInv, FiguresInv, CodesInv, Taking,
     Busy, Idle
<1>4. CASE Reopen(s)
  BY <1>4 DEF Reopen, TypeOK, SessionState, PressInv, FiguresInv, CodesInv, Taking, Busy, Idle
<1>5. CASE Finalize(s)
  BY <1>5 DEF Finalize, TypeOK, SessionState, PressInv, FiguresInv, CodesInv, Taking, Busy, Idle
<1>6. ASSUME NEW r \in Record, ReadFigure(s, r)
      PROVE  PressInv(s)' /\ FiguresInv(s)' /\ CodesInv(s)'
  <2>1. session[s].pc = "figures" /\ session[s] \in SessionState
    BY <1>6 DEF ReadFigure, TypeOK
  <2>2. /\ session'[s].year = session[s].year /\ session'[s].task = session[s].task
        /\ session'[s].reopening = session[s].reopening
        /\ session'[s].pc = session[s].pc
    BY <1>6, <2>1 DEF ReadFigure, TypeOK, SessionState
  <2>3. finalized' = finalized /\ statements' = statements /\ code' = code
    BY <1>6 DEF ReadFigure, filing
  <2> QED
    BY <2>1, <2>2, <2>3 DEF StandsInv, PressInv, FiguresInv, CodesInv, Taking, Busy
<1>7. CASE FiguresRead(s)
  <2>1. session[s].pc = "figures" /\ session[s] \in SessionState
    BY <1>7 DEF FiguresRead, TypeOK
  <2>2. /\ session'[s].year = session[s].year /\ session'[s].task = session[s].task
        /\ session'[s].reopening = session[s].reopening
        /\ session'[s].pc = IF session[s].task = "press" THEN "code" ELSE "save"
    BY <1>7, <2>1 DEF FiguresRead, TypeOK, SessionState
  <2>3. finalized' = finalized /\ statements' = statements /\ code' = code
    BY <1>7 DEF FiguresRead, filing
  <2> QED
    BY <2>1, <2>2, <2>3 DEF StandsInv, PressInv, FiguresInv, CodesInv, Taking, Busy
<1>8. ASSUME NEW r \in Record, ReadForCode(s, r)
      PROVE  PressInv(s)' /\ FiguresInv(s)' /\ CodesInv(s)'
  <2>1. session[s].pc = "code" /\ session[s] \in SessionState
    BY <1>8 DEF ReadForCode, TypeOK
  <2>2. /\ session'[s].year = session[s].year /\ session'[s].task = session[s].task
        /\ session'[s].reopening = session[s].reopening
        /\ session'[s].pc = session[s].pc
    BY <1>8, <2>1 DEF ReadForCode, TypeOK, SessionState
  <2>3. finalized' = finalized /\ statements' = statements /\ code' = code
    BY <1>8 DEF ReadForCode, filing
  <2> QED
    BY <2>1, <2>2, <2>3 DEF StandsInv, PressInv, FiguresInv, CodesInv, Taking, Busy
<1>9. CASE CodeComputed(s)
  <2>1. session[s].pc = "code" /\ session[s] \in SessionState
    BY <1>9 DEF CodeComputed, TypeOK
  <2>2. /\ session'[s].year = session[s].year /\ session'[s].task = session[s].task
        /\ session'[s].reopening = session[s].reopening
        /\ session'[s].pc = "save"
    BY <1>9, <2>1 DEF CodeComputed, TypeOK, SessionState
  <2>3. finalized' = finalized /\ statements' = statements /\ code' = code
    BY <1>9 DEF CodeComputed, filing
  <2> QED
    BY <2>1, <2>2, <2>3 DEF StandsInv, PressInv, FiguresInv, CodesInv, Taking, Busy
<1>10. CASE Start(s)
  BY <1>10 DEF Start, TypeOK, SessionState, PressInv, FiguresInv, CodesInv, Taking, Busy,
     Idle, ListsYears
<1>11. ASSUME NEW y \in Year, PassesOver(s, y)
      PROVE  PressInv(s)' /\ FiguresInv(s)' /\ CodesInv(s)'
  BY <1>11 DEF PassesOver, TypeOK, SessionState, PressInv, FiguresInv, CodesInv, Taking, Busy,
     Idle
<1>12. ASSUME NEW y \in Year, TakesUp(s, y)
      PROVE  PressInv(s)' /\ FiguresInv(s)' /\ CodesInv(s)'
  <2>1. session[s].task # "press" /\ session[s] \in SessionState
    BY <1>12 DEF TakesUp, ReadyInv, AskedInv, TypeOK
  <2>2. /\ session'[s].year = y /\ session'[s].task = session[s].task
        /\ session[s].task = "record figures" => session'[s].pc = "figures"
        /\ session[s].task # "record figures" => session'[s].pc = "code"
    BY <1>12, <2>1 DEF TakesUp, TypeOK, SessionState
  <2>3. finalized' = finalized /\ statements' = statements /\ code' = code
    BY <1>12 DEF TakesUp, filing
  <2>4. Needs(s, y)
    BY <1>12 DEF TakesUp
  <2> QED
    BY <2>1, <2>2, <2>3, <2>4 DEF PressInv, FiguresInv, CodesInv, Taking, Busy, Needs
<1>13. CASE RecordFigures(s)
  <2>1. session'[s].pc = "pass"
    BY <1>13 DEF RecordFigures, TypeOK, Idle
  <2> QED
    BY <2>1 DEF PressInv, FiguresInv, CodesInv, Taking, Busy
<1>14. CASE RecordCode(s)
  <2>1. session'[s].pc = "pass"
    BY <1>14 DEF RecordCode, TypeOK, Idle
  <2> QED
    BY <2>1 DEF PressInv, FiguresInv, CodesInv, Taking, Busy
<1>15. CASE PassEnds(s)
  <2>1. session'[s].pc \in {"pass", "idle"}
    <3>1. CASE session[s].task = "record figures"
      <4> DEFINE x == [Idle EXCEPT !.pc = "pass", !.task = "record codes", !.todo = finalized]
      <4>1. x.pc = "pass"
        BY DEF Idle
      <4>2. session' = [session EXCEPT ![s] = x]
        BY <1>15, <3>1 DEF PassEnds, ListsYears
      <4> HIDE DEF x
      <4> QED
        BY <4>1, <4>2 DEF TypeOK
    <3>2. CASE session[s].task # "record figures"
      <4>1. session' = [session EXCEPT ![s] = Idle]
        BY <1>15, <3>2 DEF PassEnds
      <4>2. Idle.pc = "idle"
        BY DEF Idle
      <4> QED
        BY <4>1, <4>2 DEF TypeOK
    <3> QED
      BY <3>1, <3>2
  <2> QED
    BY <2>1 DEF PressInv, FiguresInv, CodesInv, Taking, Busy
<1>16. CASE Fails(s)
  BY <1>16 DEF Fails, TypeOK, SessionState, PressInv, FiguresInv, CodesInv, Taking, Busy, Idle
<1> QED
  BY <1>1, <1>2, <1>3, <1>4, <1>5, <1>6, <1>7, <1>8, <1>9, <1>10, <1>11, <1>12, <1>13, <1>14,
     <1>15, <1>16 DEF SessionStep

\* Transactions of writers leave every session, year and row lock alone.
LEMMA WriterKeeps ==
  ASSUME NEW w \in Writer, WriterStep(w)
  PROVE  UNCHANGED <<filing, holder, session>>
BY DEF WriterStep, Begin, OpenDoor, Commit, Rollback, Write, filing

\* Every step keeps what sessions saw under their locks.
LEMMA StandsStep ==
  ASSUME TypeOK, HoldInv, StandsInv, ReadyInv, [Next]_vars
  PROVE  StandsInv'
<1>1. ASSUME NEW s \in Session, SessionStep(s)
      PROVE  StandsInv'
  BY <1>1, OwnStands, OthersStand DEF StandsInv
<1>2. CASE UNCHANGED <<filing, holder, session>>
  BY <1>2 DEF StandsInv, PressInv, FiguresInv, CodesInv, Taking, filing
<1>3. CASE UNCHANGED vars
  BY <1>2, <1>3 DEF vars
<1> QED
  BY <1>1, <1>2, <1>3, WriterKeeps DEF Next

-----------------------------------------------------------------------------
(* What a session has read *)

\* A session saves only what it has read to the end.
LEMMA OwnReady ==
  ASSUME TypeOK, HoldInv, StandsInv, ReadyInv, NEW s \in Session, SessionStep(s)
  PROVE  FreshInv(s)' /\ AskedInv(s)' /\ ReadInv(s)'
<1>1. ASSUME NEW y \in Year, Press(s, y)
      PROVE  FreshInv(s)' /\ AskedInv(s)' /\ ReadInv(s)'
  <2>1. /\ session'[s].pc = "asked" /\ session'[s].year = y /\ session'[s].task = "press"
        /\ session'[s].figures = NothingRead /\ session'[s].code = NothingRead
    BY <1>1, IdleType DEF Press, TypeOK, SessionState, Idle
  <2> QED
    BY <2>1 DEF FreshInv, AskedInv, ReadInv, Closing
<1>2. CASE PressLocks(s)
  <2>1. session[s].task = "press" /\ session[s] \in SessionState
    BY <1>2 DEF PressLocks, ReadyInv, AskedInv, TypeOK
  <2>2. /\ session'[s].task = "press"
        /\ session'[s].reopening = session[s].reopening
        /\ session'[s].pc = IF session[s].reopening THEN "save" ELSE "figures"
    BY <1>2, <2>1 DEF PressLocks, TypeOK, SessionState
  <2> QED
    BY <2>2 DEF FreshInv, AskedInv, ReadInv, Closing
<1>3. CASE PressTooLate(s)
  BY <1>3, IdleType DEF PressTooLate, TypeOK, SessionState, FreshInv, AskedInv, ReadInv,
     Closing, Idle
<1>4. CASE Reopen(s)
  BY <1>4, IdleType DEF Reopen, TypeOK, SessionState, FreshInv, AskedInv, ReadInv, Closing, Idle
<1>5. CASE Finalize(s)
  BY <1>5, IdleType DEF Finalize, TypeOK, SessionState, FreshInv, AskedInv, ReadInv, Closing,
     Idle
<1>6. ASSUME NEW r \in Record, ReadFigure(s, r)
      PROVE  FreshInv(s)' /\ AskedInv(s)' /\ ReadInv(s)'
  <2>1. session[s].pc = "figures" /\ session[s] \in SessionState
    BY <1>6 DEF ReadFigure, TypeOK
  <2>2. /\ session'[s].pc = "figures" /\ session'[s].task = session[s].task
        /\ session'[s].code = session[s].code
    BY <1>6, <2>1 DEF ReadFigure, TypeOK, SessionState
  <2> QED
    BY <2>1, <2>2 DEF ReadyInv, FreshInv, AskedInv, ReadInv, Closing
<1>7. CASE FiguresRead(s)
  <2>1. session[s].pc = "figures" /\ session[s] \in SessionState
    BY <1>7 DEF FiguresRead, TypeOK
  <2>2. /\ session'[s].task = session[s].task /\ session'[s].figures = session[s].figures
        /\ session'[s].pc = IF session[s].task = "press" THEN "code" ELSE "save"
    BY <1>7, <2>1 DEF FiguresRead, TypeOK, SessionState
  <2>3. session[s].figures \in Figures
    BY <1>7, <2>1, CellAssumption DEF FiguresRead, SessionState, Figures, Cell
  <2>4. session[s].task # "record codes"
    BY <2>1, <1>7 DEF StandsInv, CodesInv, Taking, Busy
  <2>5. session[s].task \in Task
    BY <2>1 DEF SessionState
  <2> QED
    BY <2>2, <2>3, <2>4, <2>5 DEF FreshInv, AskedInv, ReadInv, Closing, Task
<1>8. ASSUME NEW r \in Record, ReadForCode(s, r)
      PROVE  FreshInv(s)' /\ AskedInv(s)' /\ ReadInv(s)'
  <2>1. session[s].pc = "code" /\ session[s] \in SessionState
    BY <1>8 DEF ReadForCode, TypeOK
  <2>2. /\ session'[s].pc = "code" /\ session'[s].task = session[s].task
        /\ session'[s].figures = session[s].figures
    BY <1>8, <2>1 DEF ReadForCode, TypeOK, SessionState
  <2> QED
    BY <2>1, <2>2 DEF ReadyInv, FreshInv, AskedInv, ReadInv, Closing
<1>9. CASE CodeComputed(s)
  <2>1. session[s].pc = "code" /\ session[s] \in SessionState
    BY <1>9 DEF CodeComputed, TypeOK
  <2>2. /\ session'[s].task = session[s].task /\ session'[s].figures = session[s].figures
        /\ session'[s].code = session[s].code /\ session'[s].pc = "save"
    BY <1>9, <2>1 DEF CodeComputed, TypeOK, SessionState
  <2>3. session[s].code \in Figures
    BY <1>9, <2>1, CellAssumption DEF CodeComputed, SessionState, Figures, Cell
  <2>4. session[s].task # "record figures"
    BY <2>1, <1>9 DEF StandsInv, FiguresInv, Taking, Busy
  <2>5. session[s].task = "press" => session[s].figures \in Figures
    BY <2>1 DEF ReadyInv, ReadInv
  <2> QED
    BY <2>1, <2>2, <2>3, <2>4, <2>5 DEF FreshInv, AskedInv, ReadInv, Closing
<1>10. CASE Start(s)
  BY <1>10, IdleType DEF Start, TypeOK, SessionState, FreshInv, AskedInv, ReadInv, Closing,
     Idle, ListsYears
<1>11. ASSUME NEW y \in Year, PassesOver(s, y)
      PROVE  FreshInv(s)' /\ AskedInv(s)' /\ ReadInv(s)'
  BY <1>11, IdleType DEF PassesOver, TypeOK, SessionState, FreshInv, AskedInv, ReadInv,
     Closing, Idle, ReadyInv
<1>12. ASSUME NEW y \in Year, TakesUp(s, y)
      PROVE  FreshInv(s)' /\ AskedInv(s)' /\ ReadInv(s)'
  <2>1. session[s].task # "press" /\ session[s] \in SessionState
    BY <1>12 DEF TakesUp, ReadyInv, AskedInv, TypeOK
  <2>2. /\ session'[s].task = session[s].task
        /\ session'[s].pc \in {"figures", "code"}
    BY <1>12, <2>1 DEF TakesUp, TypeOK, SessionState
  <2> QED
    BY <2>1, <2>2 DEF FreshInv, AskedInv, ReadInv, Closing
<1>13. CASE RecordFigures(s)
  <2>1. /\ session'[s].pc = "pass" /\ session'[s].task # "press"
        /\ session'[s].figures = NothingRead /\ session'[s].code = NothingRead
    BY <1>13 DEF RecordFigures, TypeOK, Idle
  <2> QED
    BY <2>1 DEF FreshInv, AskedInv, ReadInv, Closing
<1>14. CASE RecordCode(s)
  <2>1. /\ session'[s].pc = "pass" /\ session'[s].task # "press"
        /\ session'[s].figures = NothingRead /\ session'[s].code = NothingRead
    BY <1>14 DEF RecordCode, TypeOK, Idle
  <2> QED
    BY <2>1 DEF FreshInv, AskedInv, ReadInv, Closing
<1>15. CASE PassEnds(s)
  <2>1. CASE session[s].task = "record figures"
    <3> DEFINE x == [Idle EXCEPT !.pc = "pass", !.task = "record codes", !.todo = finalized]
    <3>1. x.pc = "pass" /\ x.task = "record codes" /\ x.figures = NothingRead /\ x.code = NothingRead
      BY DEF Idle
    <3>2. session' = [session EXCEPT ![s] = x]
      BY <1>15, <2>1 DEF PassEnds, ListsYears
    <3> HIDE DEF x
    <3> QED
      BY <3>1, <3>2 DEF TypeOK, FreshInv, AskedInv, ReadInv, Closing
  <2>2. CASE session[s].task # "record figures"
    <3>1. session' = [session EXCEPT ![s] = Idle]
      BY <1>15, <2>2 DEF PassEnds
    <3>2. Idle.pc = "idle" /\ Idle.figures = NothingRead /\ Idle.code = NothingRead
      BY DEF Idle
    <3>3. session'[s] = Idle
      BY <3>1 DEF TypeOK
    <3> QED
      BY <3>2, <3>3 DEF FreshInv, AskedInv, ReadInv, Closing
  <2> QED
    BY <2>1, <2>2
<1>16. CASE Fails(s)
  BY <1>16, IdleType DEF Fails, TypeOK, SessionState, FreshInv, AskedInv, ReadInv, Closing, Idle
<1> QED
  BY <1>1, <1>2, <1>3, <1>4, <1>5, <1>6, <1>7, <1>8, <1>9, <1>10, <1>11, <1>12, <1>13, <1>14,
     <1>15, <1>16 DEF SessionStep

\* Every step keeps readings complete before they are saved.
LEMMA ReadyStep ==
  ASSUME TypeOK, HoldInv, StandsInv, ReadyInv, [Next]_vars
  PROVE  ReadyInv'
<1>1. ASSUME NEW s \in Session, SessionStep(s)
      PROVE  ReadyInv'
  BY <1>1, OwnReady, OthersStay DEF ReadyInv, FreshInv, AskedInv, ReadInv, Closing
<1>2. CASE UNCHANGED session
  BY <1>2 DEF ReadyInv, FreshInv, AskedInv, ReadInv, Closing
<1>3. CASE UNCHANGED vars
  BY <1>2, <1>3 DEF vars
<1> QED
  BY <1>1, <1>2, <1>3, WriterKeeps DEF Next

\* The inductive invariant holds at the start, ...
LEMMA InvInit == Init => Inv
<1> SUFFICES ASSUME Init PROVE Inv
  OBVIOUS
<1>1. TypeOK
  BY IdleType DEF Init, TypeOK
<1>2. \A s \in Session : session[s] = Idle
  BY DEF Init
<1>3. \A s \in Session :
        /\ ~Taking(s) /\ session[s].pc = "idle"
        /\ session[s].figures = NothingRead /\ session[s].code = NothingRead
  BY <1>2 DEF Taking, Busy, Idle
<1>4. HoldInv
  BY <1>3, NobodyAssumption DEF HoldInv, Init
<1>5. StandsInv
  BY <1>3 DEF StandsInv, PressInv, FiguresInv, CodesInv
<1>6. ReadyInv
  BY <1>3 DEF ReadyInv, FreshInv, AskedInv, ReadInv
<1> QED
  BY <1>1, <1>4, <1>5, <1>6 DEF Inv

\* ... is kept by every step, ...
LEMMA InvStep == Inv /\ [Next]_vars => Inv'
BY TypeStep, HoldStep, StandsStep, ReadyStep DEF Inv

\* ... and so always holds.
LEMMA InvAlways == Spec => []Inv
BY InvInit, InvStep, PTL DEF Spec

\* Every variable keeps its type.
THEOREM TypeCorrect == Spec => []TypeOK
<1>1. Inv => TypeOK
  BY DEF Inv
<1> QED
  BY InvAlways, <1>1, PTL

-----------------------------------------------------------------------------
(* What is written on closing a year *)

\* Appending keeps what was there and adds one.
LEMMA AppendKeeps ==
  ASSUME NEW S, NEW q \in Seq(S), NEW x \in S
  PROVE  /\ Append(q, x) \in Seq(S)
         /\ Append(q, x) # q
         /\ Append(q, x) # <<>>
         /\ Len(Append(q, x)) = Len(q) + 1
         /\ DOMAIN Append(q, x) = 1 .. Len(q) + 1
         /\ Append(q, x)[Len(q) + 1] = x
         /\ \A i \in 1 .. Len(q) : Append(q, x)[i] = q[i]
         /\ SubSeq(Append(q, x), 1, Len(q)) = q
<1>1. /\ Append(q, x) \in Seq(S) /\ Len(q) \in Nat
      /\ Len(Append(q, x)) = Len(q) + 1
      /\ Append(q, x)[Len(q) + 1] = x
      /\ \A i \in 1 .. Len(q) : Append(q, x)[i] = q[i]
  OBVIOUS
<1>2. SubSeq(Append(q, x), 1, Len(q)) = q
  <2> DEFINE p == SubSeq(Append(q, x), 1, Len(q))
  <2>1. p \in Seq(S) /\ Len(p) = Len(q)
    BY <1>1
  <2>2. \A i \in 1 .. Len(q) : p[i] = q[i]
    BY <1>1
  <2> QED
    BY <2>1, <2>2, SeqEqual
<1>3. DOMAIN Append(q, x) = 1 .. Len(q) + 1
  BY <1>1
<1>4. Append(q, x) # q /\ Append(q, x) # <<>>
  BY <1>1
<1> QED
  BY <1>1, <1>2, <1>3, <1>4

\* Only four actions touch what is filed.
LEMMA FilingSteps ==
  ASSUME [Next]_vars
  PROVE  \/ UNCHANGED filing
         \/ \E s \in Session : Reopen(s) \/ Finalize(s) \/ RecordFigures(s) \/ RecordCode(s)
<1>1. CASE UNCHANGED vars
  BY <1>1 DEF vars
<1>2. ASSUME NEW s \in Session, SessionStep(s)
      PROVE  \/ UNCHANGED filing
             \/ Reopen(s) \/ Finalize(s) \/ RecordFigures(s) \/ RecordCode(s)
  BY <1>2 DEF SessionStep, Press, PassesOver, TakesUp, PressLocks, PressTooLate, ReadFigure,
       ReadForCode, FiguresRead, CodeComputed, Start, PassEnds, Fails
<1> QED
  BY <1>1, <1>2, WriterKeeps DEF Next

\* What each of them writes: Finalize closes the year with one statement and a code, ...
LEMMA FinalizeWrites ==
  ASSUME Inv, NEW s \in Session, Finalize(s), NEW y, y = session[s].year
  PROVE  /\ y \in Year /\ y \notin finalized
         /\ finalized' = finalized \cup {y}
         /\ \E x \in Statement :
              /\ x.kind = KindOfClosing(y) /\ x.figures = session[s].figures
              /\ statements' = [statements EXCEPT ![y] = Append(statements[y], x)]
         /\ DigestRead(s, y) \in Digest
         /\ DigestRead(s, y).figures = session[s].code
         /\ DigestRead(s, y).filed = Len(statements[y]) + 1
         /\ code' = [code EXCEPT ![y] = TakeFingerprint(y, DigestRead(s, y))]
<1> USE DEF Inv
<1>1. /\ y \in Year /\ session[s].figures \in Figures /\ session[s].code \in Figures
      /\ y \notin finalized
  BY DEF Finalize, HoldInv, Taking, Busy, ReadyInv, ReadInv, Closing, StandsInv, PressInv
<1> DEFINE x == [kind |-> KindOfClosing(y), figures |-> session[s].figures]
<1>2. x \in Statement
  BY <1>1 DEF Statement, Kind, KindOfClosing
<1>3. x.kind = KindOfClosing(y) /\ x.figures = session[s].figures
  OBVIOUS
<1>4. /\ statements' = [statements EXCEPT ![y] = Append(statements[y], x)]
      /\ finalized' = finalized \cup {y}
      /\ code' = [code EXCEPT ![y] = TakeFingerprint(y, DigestRead(s, y))]
  BY DEF Finalize
<1>5. DigestRead(s, y) \in Digest
  BY <1>1, DigestType
<1>6. session[s].task = "press"
  BY DEF Finalize
<1>7. DigestRead(s, y).figures = session[s].code /\ DigestRead(s, y).filed = Len(statements[y]) + 1
  BY <1>6 DEF DigestRead
<1> HIDE DEF x
<1> QED
  BY <1>1, <1>2, <1>3, <1>4, <1>5, <1>7

\* ... the upgrade's statement is the first of a closed year, ...
LEMMA RecordFiguresWrites ==
  ASSUME Inv, NEW s \in Session, RecordFigures(s), NEW y, y = session[s].year
  PROVE  /\ y \in Year /\ y \in finalized /\ statements[y] = <<>>
         /\ finalized' = finalized /\ code' = code
         /\ \E x \in Statement :
              /\ x.kind = "recorded_at_upgrade" /\ x.figures = session[s].figures
              /\ statements' = [statements EXCEPT ![y] = Append(statements[y], x)]
<1> USE DEF Inv
<1>1. /\ y \in Year /\ session[s].figures \in Figures
      /\ y \in finalized /\ statements[y] = <<>>
  BY DEF RecordFigures, HoldInv, Taking, Busy, ReadyInv, ReadInv, StandsInv, FiguresInv
<1> DEFINE x == [kind |-> "recorded_at_upgrade", figures |-> session[s].figures]
<1>2. x \in Statement
  BY <1>1 DEF Statement, Kind
<1>3. x.kind = "recorded_at_upgrade" /\ x.figures = session[s].figures
  OBVIOUS
<1>4. /\ statements' = [statements EXCEPT ![y] = Append(statements[y], x)]
      /\ finalized' = finalized /\ code' = code
  BY DEF RecordFigures
<1> HIDE DEF x
<1> QED
  BY <1>1, <1>2, <1>3, <1>4

\* ... the upgrade's code the first of a closed year, ...
LEMMA RecordCodeWrites ==
  ASSUME Inv, NEW s \in Session, RecordCode(s), NEW y, y = session[s].year
  PROVE  /\ y \in Year /\ y \in finalized /\ code[y] = NoCode
         /\ finalized' = finalized /\ statements' = statements
         /\ DigestRead(s, y) \in Digest
         /\ DigestRead(s, y).figures = session[s].code
         /\ DigestRead(s, y).filed = Len(statements[y])
         /\ code' = [code EXCEPT ![y] = TakeFingerprint(y, DigestRead(s, y))]
<1> USE DEF Inv
<1>1. /\ y \in Year /\ session[s].code \in Figures
      /\ y \in finalized /\ code[y] = NoCode
  BY DEF RecordCode, HoldInv, Taking, Busy, ReadyInv, ReadInv, StandsInv, CodesInv
<1>2. DigestRead(s, y) \in Digest
  BY <1>1, DigestType
<1>3. session[s].task # "press" /\ Len(statements[y]) \in Nat
  <2>1. session[s].task # "press"
    BY DEF RecordCode
  <2>2. statements[y] \in Seq(Statement)
    BY <1>1 DEF TypeOK
  <2> QED
    BY <2>1, <2>2
<1>4. DigestRead(s, y) = [figures |-> session[s].code, filed |-> Len(statements[y]) + 0]
  BY <1>3 DEF DigestRead
<1>5. DigestRead(s, y).figures = session[s].code /\ DigestRead(s, y).filed = Len(statements[y])
  BY <1>3, <1>4
<1>6. /\ finalized' = finalized /\ statements' = statements
      /\ code' = [code EXCEPT ![y] = TakeFingerprint(y, DigestRead(s, y))]
  BY DEF RecordCode
<1> QED
  BY <1>1, <1>2, <1>5, <1>6

\* ... and Reopen writes neither.
LEMMA ReopenWrites ==
  ASSUME NEW s \in Session, Reopen(s)
  PROVE  finalized' \subseteq finalized /\ statements' = statements /\ code' = code
BY DEF Reopen

-----------------------------------------------------------------------------
(* One statement each, and the first code kept *)

\* The facts each of the four writing steps is read from below.
StatementStep(y) ==
  LET kinds == {"filed", "restated"} IN
  /\ Closes(y) => Len(statements'[y]) = Len(statements[y]) + 1
  /\ statements'[y] # statements[y] =>
       /\ statements[y] = SubSeq(statements'[y], 1, Len(statements[y]))
       /\ statements'[y][Len(statements'[y])].kind \in kinds <=> Closes(y)

\* A statement is written by the step that closes its year, or is the upgrade's.
LEMMA StatementSteps ==
  ASSUME Inv, [Next]_vars, NEW z \in Year
  PROVE  StatementStep(z)
<1>1. CASE UNCHANGED filing
  BY <1>1 DEF filing, StatementStep, Closes
<1>2. ASSUME NEW s \in Session, Reopen(s)
      PROVE  StatementStep(z)
  BY <1>2, ReopenWrites DEF StatementStep, Closes
<1>3. ASSUME NEW s \in Session, RecordCode(s)
      PROVE  StatementStep(z)
  BY <1>3, RecordCodeWrites DEF StatementStep, Closes
<1>4. ASSUME NEW s \in Session, RecordFigures(s)
      PROVE  StatementStep(z)
  <2> DEFINE y == session[s].year
  <2>1. PICK x \in Statement :
          /\ x.kind = "recorded_at_upgrade"
          /\ statements' = [statements EXCEPT ![y] = Append(statements[y], x)]
    BY <1>4, RecordFiguresWrites
  <2>2. finalized' = finalized /\ y \in Year
    BY <1>4, RecordFiguresWrites
  <2>3. CASE z = y
    <3>1. statements[z] \in Seq(Statement)
      BY DEF Inv, TypeOK
    <3>2. statements'[z] = Append(statements[z], x)
      BY <2>1, <2>3 DEF Inv, TypeOK
    <3> QED
      BY <2>1, <2>2, <3>1, <3>2, AppendKeeps DEF StatementStep, Closes
  <2>4. CASE z # y
    BY <2>1, <2>2, <2>4 DEF StatementStep, Closes, Inv, TypeOK
  <2> QED
    BY <2>3, <2>4
<1>5. ASSUME NEW s \in Session, Finalize(s)
      PROVE  StatementStep(z)
  <2> DEFINE y == session[s].year
  <2>1. PICK x \in Statement :
          /\ x.kind = KindOfClosing(y)
          /\ statements' = [statements EXCEPT ![y] = Append(statements[y], x)]
    BY <1>5, FinalizeWrites
  <2>2. finalized' = finalized \cup {y} /\ y \in Year /\ y \notin finalized
    BY <1>5, FinalizeWrites
  <2>3. CASE z = y
    <3>1. statements[z] \in Seq(Statement)
      BY DEF Inv, TypeOK
    <3>2. statements'[z] = Append(statements[z], x)
      BY <2>1, <2>3 DEF Inv, TypeOK
    <3>3. x.kind \in {"filed", "restated"}
      BY <2>1 DEF KindOfClosing
    <3>4. Closes(z)
      BY <2>2, <2>3 DEF Closes
    <3> HIDE DEF y
    <3>5. /\ Len(statements'[z]) = Len(statements[z]) + 1
          /\ statements[z] = SubSeq(statements'[z], 1, Len(statements[z]))
          /\ statements'[z][Len(statements'[z])] = x
      BY <3>1, <3>2, AppendKeeps
    <3> QED
      BY <3>3, <3>4, <3>5 DEF StatementStep
  <2>4. CASE z # y
    BY <2>1, <2>2, <2>4 DEF StatementStep, Closes, Inv, TypeOK
  <2> QED
    BY <2>3, <2>4
<1> QED
  BY <1>1, <1>2, <1>3, <1>4, <1>5, FilingSteps

\* Every step keeps the kinds of statements in order.
LEMMA KindStep ==
  ASSUME Inv, [Next]_vars, LaterRecordsRestate
  PROVE  LaterRecordsRestate'
<1>1. CASE UNCHANGED filing
  BY <1>1 DEF filing, LaterRecordsRestate, KindsInOrder
<1>2. ASSUME NEW s \in Session, Reopen(s)
      PROVE  LaterRecordsRestate'
  BY <1>2, ReopenWrites DEF LaterRecordsRestate, KindsInOrder
<1>3. ASSUME NEW s \in Session, RecordCode(s)
      PROVE  LaterRecordsRestate'
  BY <1>3, RecordCodeWrites DEF LaterRecordsRestate, KindsInOrder
<1>4. ASSUME NEW y \in Year, NEW x \in Statement,
             x.kind = "restated" <=> statements[y] # <<>>,
             statements' = [statements EXCEPT ![y] = Append(statements[y], x)]
      PROVE  LaterRecordsRestate'
  <2> SUFFICES ASSUME NEW z \in Year, NEW i \in DOMAIN statements'[z]
               PROVE  statements'[z][i].kind = "restated" <=> i > 1
    BY DEF LaterRecordsRestate, KindsInOrder
  <2>1. statements[y] \in Seq(Statement)
    BY DEF Inv, TypeOK
  <2>2. CASE z # y
    BY <1>4, <2>2 DEF LaterRecordsRestate, KindsInOrder, Inv, TypeOK
  <2>3. CASE z = y
    <3>1. statements'[z] = Append(statements[y], x)
      BY <1>4, <2>3 DEF Inv, TypeOK
    <3>2. CASE i \in 1 .. Len(statements[y])
      BY <2>1, <2>3, <3>1, <3>2, AppendKeeps DEF LaterRecordsRestate, KindsInOrder
    <3>3. CASE i = Len(statements[y]) + 1
      <4>1. statements'[z][i] = x
        BY <2>1, <3>1, <3>3, AppendKeeps
      <4>2. statements[y] # <<>> <=> i > 1
        BY <2>1, <3>3, EmptySeq
      <4> QED
        BY <1>4, <4>1, <4>2
    <3>4. i \in 1 .. Len(statements[y]) + 1
      BY <2>1, <3>1, AppendKeeps
    <3>5. Len(statements[y]) \in Nat
      BY <2>1
    <3> QED
      BY <3>2, <3>3, <3>4, <3>5
  <2> QED
    BY <2>2, <2>3
<1>5. ASSUME NEW s \in Session, RecordFigures(s)
      PROVE  LaterRecordsRestate'
  <2>1. PICK x \in Statement :
          /\ x.kind = "recorded_at_upgrade"
          /\ statements' = [statements EXCEPT ![session[s].year] =
                              Append(statements[session[s].year], x)]
    BY <1>5, RecordFiguresWrites
  <2>2. session[s].year \in Year /\ statements[session[s].year] = <<>>
    BY <1>5, RecordFiguresWrites
  <2>3. x.kind = "restated" <=> statements[session[s].year] # <<>>
    BY <2>1, <2>2
  <2> QED
    BY <1>4, <2>1, <2>2, <2>3
<1>6. ASSUME NEW s \in Session, Finalize(s)
      PROVE  LaterRecordsRestate'
  <2>1. PICK x \in Statement :
          /\ x.kind = KindOfClosing(session[s].year)
          /\ statements' = [statements EXCEPT ![session[s].year] =
                              Append(statements[session[s].year], x)]
    BY <1>6, FinalizeWrites
  <2>2. session[s].year \in Year
    BY <1>6, FinalizeWrites
  <2>3. x.kind = "restated" <=> statements[session[s].year] # <<>>
    BY <2>1 DEF KindOfClosing, NewestStatement
  <2> QED
    BY <1>4, <2>1, <2>2, <2>3
<1> QED
  BY <1>1, <1>2, <1>3, <1>5, <1>6, FilingSteps

\* Of the records of a year, the first is the one filed or the upgrade's and
\* every later one restates it, however presses and starts interleave.
THEOREM LaterRecordsAlwaysRestate == Spec => []LaterRecordsRestate
<1>1. Init => LaterRecordsRestate
  BY DEF Init, LaterRecordsRestate, KindsInOrder
<1>2. LaterRecordsRestate /\ Inv /\ [Next]_vars => LaterRecordsRestate'
  BY KindStep
<1> QED
  BY <1>1, <1>2, InvAlways, PTL DEF Spec

\* A filed or restated record is written by the step that closes its open year
\* and by no other, and says so, whoever presses Finalize or restarts at the same
\* time.
THEOREM OneStatementForEachClosing == Spec => OneStatementEach
<1>1. Inv /\ LaterRecordsRestate /\ [Next]_vars =>
        [\A y \in Year :
           LET kinds == {"filed", "restated"} IN
           /\ Closes(y) => Len(statements'[y]) = Len(statements[y]) + 1
           /\ statements'[y] # statements[y] =>
                /\ statements[y] = SubSeq(statements'[y], 1, Len(statements[y]))
                /\ statements'[y][Len(statements'[y])].kind \in kinds <=> Closes(y)
           /\ KindsInOrder(y)']_vars
  <2> SUFFICES ASSUME Inv, LaterRecordsRestate, [Next]_vars, NEW y \in Year
               PROVE  StatementStep(y) /\ KindsInOrder(y)'
    BY DEF StatementStep
  <2> QED
    BY StatementSteps, KindStep DEF LaterRecordsRestate
<1> QED
  BY <1>1, InvAlways, LaterRecordsAlwaysRestate, PTL DEF Spec, OneStatementEach

\* What a step may do to a year's code.
CodeStep(y) ==
  /\ code'[y] # code[y] => Closes(y) \/ code[y] = NoCode
  /\ code[y] # NoCode => code'[y] # NoCode /\ Earliest(code'[y]) = Earliest(code[y])

\* A new code keeps the earliest one.
LEMMA TakingKeepsFirst ==
  ASSUME TypeOK, NEW y \in Year, NEW d \in Digest
  PROVE  /\ TakeFingerprint(y, d) # NoCode
         /\ TakeFingerprint(y, d).digest = d
         /\ code[y] # NoCode => Earliest(TakeFingerprint(y, d)) = Earliest(code[y])
<1>1. TakeFingerprint(y, d) # NoCode
  BY FingerprintType, NoCodeAssumption
<1>2. TakeFingerprint(y, d).digest = d
  BY DEF TakeFingerprint
<1>3. ASSUME code[y] # NoCode
      PROVE  Earliest(TakeFingerprint(y, d)) = Earliest(code[y])
  <2>1. code[y].digest # NoCode
    BY <1>3, NoCodeAssumption DEF TypeOK, Code
  <2>2. CASE code[y].first # NoCode
    BY <1>3, <2>2 DEF Earliest, TakeFingerprint
  <2>3. CASE code[y].first = NoCode
    BY <1>3, <2>1, <2>3 DEF Earliest, TakeFingerprint
  <2> QED
    BY <2>2, <2>3
<1> QED
  BY <1>1, <1>2, <1>3

\* A code is taken on closing or where there is none, and keeps the earliest.
LEMMA CodeSteps ==
  ASSUME Inv, [Next]_vars, NEW z \in Year
  PROVE  CodeStep(z)
<1>1. CASE code' = code
  BY <1>1 DEF CodeStep
<1>2. ASSUME NEW s \in Session, RecordCode(s)
      PROVE  CodeStep(z)
  <2> DEFINE y == session[s].year
  <2>1. /\ y \in Year /\ code[y] = NoCode
        /\ code' = [code EXCEPT ![y] = TakeFingerprint(y, DigestRead(s, y))]
    BY <1>2, RecordCodeWrites
  <2> HIDE DEF y
  <2> QED
    BY <2>1 DEF CodeStep, Inv, TypeOK
<1>3. ASSUME NEW s \in Session, Finalize(s)
      PROVE  CodeStep(z)
  <2> DEFINE y == session[s].year
             d == DigestRead(s, y)
  <2>1. /\ y \in Year /\ d \in Digest /\ y \notin finalized
        /\ finalized' = finalized \cup {y}
        /\ code' = [code EXCEPT ![y] = TakeFingerprint(y, d)]
    BY <1>3, FinalizeWrites
  <2> HIDE DEF y, d
  <2>2. CASE z = y
    <3>1. code'[z] = TakeFingerprint(z, d)
      BY <2>1, <2>2 DEF Inv, TypeOK
    <3> QED
      BY <2>1, <2>2, <3>1, TakingKeepsFirst DEF CodeStep, Closes, Inv
  <2>3. CASE z # y
    BY <2>1, <2>3 DEF CodeStep, Inv, TypeOK
  <2> QED
    BY <2>2, <2>3
<1>4. UNCHANGED filing => code' = code
  BY DEF filing
<1>5. \A s \in Session : Reopen(s) \/ RecordFigures(s) => code' = code
  BY ReopenWrites, RecordFiguresWrites
<1> QED
  BY <1>1, <1>2, <1>3, <1>4, <1>5, FilingSteps

\* A year's code is taken only by finalizing it or where it had none, and the
\* first code it was given stays on file as its earliest.
THEOREM CodeAlwaysKept == Spec => CodeKept
<1>1. Inv /\ [Next]_vars =>
        [\A y \in Year :
           /\ code'[y] # code[y] => Closes(y) \/ code[y] = NoCode
           /\ code[y] # NoCode =>
                /\ code'[y] # NoCode
                /\ Earliest(code'[y]) = Earliest(code[y])]_vars
  BY CodeSteps DEF CodeStep
<1> QED
  BY <1>1, InvAlways, PTL DEF Spec, CodeKept

-----------------------------------------------------------------------------
(* Every statement is covered by the code *)

\* A start first sees to the statements of the closed years it listed, so the
\* years it then gives codes to have one.
InHand(s, y) == Taking(s) /\ session[s].year = y
FiguresPass(s) ==
  session[s].task = "record figures" =>
    \A y \in finalized : statements[y] # <<>> \/ y \in session[s].todo \/ InHand(s, y)
CodesPass(s) ==
  session[s].task = "record codes" =>
    \A y \in Year : y \in session[s].todo \/ InHand(s, y) => statements[y] # <<>>
PassInv == \A s \in Session : FiguresPass(s) /\ CodesPass(s)
CoverInv == \A y \in Year : code[y] # NoCode => statements[y] # <<>>
CoveredInv == PassInv /\ CoverInv /\ CodeCoversStatements

\* Statements are never taken away, and a year that closes has one.
LEMMA Grows ==
  ASSUME Inv, [Next]_vars, NEW z \in Year
  PROVE  /\ statements[z] # <<>> => statements'[z] # <<>>
         /\ Closes(z) => statements'[z] # <<>>
<1>1. CASE UNCHANGED filing
  BY <1>1 DEF filing, Closes
<1>2. ASSUME NEW s \in Session, Reopen(s) \/ RecordCode(s)
      PROVE  /\ statements[z] # <<>> => statements'[z] # <<>>
             /\ Closes(z) => statements'[z] # <<>>
  BY <1>2, ReopenWrites, RecordCodeWrites DEF Closes
<1>3. ASSUME NEW s \in Session, RecordFigures(s) \/ Finalize(s)
      PROVE  /\ statements[z] # <<>> => statements'[z] # <<>>
             /\ Closes(z) => statements'[z] # <<>>
  <2> DEFINE y == session[s].year
  <2>1. PICK x \in Statement : statements' = [statements EXCEPT ![y] = Append(statements[y], x)]
    BY <1>3, RecordFiguresWrites, FinalizeWrites
  <2>2. y \in Year /\ (finalized' = finalized \/ finalized' = finalized \cup {y})
    BY <1>3, RecordFiguresWrites, FinalizeWrites
  <2> HIDE DEF y
  <2>3. statements[y] \in Seq(Statement)
    BY <2>2 DEF Inv, TypeOK
  <2>4. Append(statements[y], x) # <<>>
    BY <2>3, AppendKeeps
  <2> QED
    BY <2>1, <2>2, <2>4 DEF Closes, Inv, TypeOK
<1> QED
  BY <1>1, <1>2, <1>3, FilingSteps

\* A session's own step keeps its pass over the years in order.
LEMMA OwnPass ==
  ASSUME TypeOK, HoldInv, StandsInv, ReadyInv, PassInv, NEW s \in Session, SessionStep(s)
  PROVE  FiguresPass(s)' /\ CodesPass(s)'
<1>1. ASSUME NEW y \in Year, Press(s, y)
      PROVE  FiguresPass(s)' /\ CodesPass(s)'
  <2>1. session'[s].task = "press"
    BY <1>1, IdleType DEF Press, TypeOK, SessionState, Idle
  <2> QED
    BY <2>1 DEF FiguresPass, CodesPass
<1>2. CASE PressLocks(s)
  <2>1. session'[s].task = "press"
    BY <1>2 DEF PressLocks, TypeOK, SessionState, ReadyInv, AskedInv
  <2> QED
    BY <2>1 DEF FiguresPass, CodesPass
<1>3. CASE PressTooLate(s)
  <2>1. session'[s].task = "press"
    BY <1>3, IdleType DEF PressTooLate, TypeOK, SessionState, Idle
  <2> QED
    BY <2>1 DEF FiguresPass, CodesPass
<1>4. CASE Reopen(s)
  <2>1. session'[s].task = "press"
    BY <1>4, IdleType DEF Reopen, TypeOK, SessionState, Idle
  <2> QED
    BY <2>1 DEF FiguresPass, CodesPass
<1>5. CASE Finalize(s)
  <2>1. session'[s].task = "press"
    BY <1>5, IdleType DEF Finalize, TypeOK, SessionState, Idle
  <2> QED
    BY <2>1 DEF FiguresPass, CodesPass
<1>6. ASSUME NEW r \in Record, ReadFigure(s, r)
      PROVE  FiguresPass(s)' /\ CodesPass(s)'
  <2>1. /\ session'[s].year = session[s].year /\ session'[s].task = session[s].task
        /\ session'[s].todo = session[s].todo
        /\ session[s].pc \in Busy /\ session'[s].pc \in Busy
    BY <1>6 DEF ReadFigure, TypeOK, SessionState, Busy
  <2>2. UNCHANGED filing
    BY <1>6 DEF ReadFigure, filing
  <2> QED
    BY <2>1, <2>2 DEF PassInv, FiguresPass, CodesPass, InHand, Taking, filing
<1>7. CASE FiguresRead(s)
  <2>1. /\ session'[s].year = session[s].year /\ session'[s].task = session[s].task
        /\ session'[s].todo = session[s].todo
        /\ session[s].pc \in Busy /\ session'[s].pc \in Busy
    BY <1>7 DEF FiguresRead, TypeOK, SessionState, Busy
  <2>2. UNCHANGED filing
    BY <1>7 DEF FiguresRead, filing
  <2> QED
    BY <2>1, <2>2 DEF PassInv, FiguresPass, CodesPass, InHand, Taking, filing
<1>8. ASSUME NEW r \in Record, ReadForCode(s, r)
      PROVE  FiguresPass(s)' /\ CodesPass(s)'
  <2>1. /\ session'[s].year = session[s].year /\ session'[s].task = session[s].task
        /\ session'[s].todo = session[s].todo
        /\ session[s].pc \in Busy /\ session'[s].pc \in Busy
    BY <1>8 DEF ReadForCode, TypeOK, SessionState, Busy
  <2>2. UNCHANGED filing
    BY <1>8 DEF ReadForCode, filing
  <2> QED
    BY <2>1, <2>2 DEF PassInv, FiguresPass, CodesPass, InHand, Taking, filing
<1>9. CASE CodeComputed(s)
  <2>1. /\ session'[s].year = session[s].year /\ session'[s].task = session[s].task
        /\ session'[s].todo = session[s].todo
        /\ session[s].pc \in Busy /\ session'[s].pc \in Busy
    BY <1>9 DEF CodeComputed, TypeOK, SessionState, Busy
  <2>2. UNCHANGED filing
    BY <1>9 DEF CodeComputed, filing
  <2> QED
    BY <2>1, <2>2 DEF PassInv, FiguresPass, CodesPass, InHand, Taking, filing
<1>10. CASE Start(s)
  <2>1. session'[s].task = "record figures" /\ session'[s].todo = finalized
    BY <1>10, IdleType DEF Start, ListsYears, TypeOK, SessionState, Idle
  <2>2. finalized' = finalized
    BY <1>10 DEF Start, filing
  <2> QED
    BY <2>1, <2>2 DEF FiguresPass, CodesPass
<1>11. ASSUME NEW y \in Year, PassesOver(s, y)
      PROVE  FiguresPass(s)' /\ CodesPass(s)'
  <2>1. /\ session'[s].task = session[s].task /\ session'[s].todo = session[s].todo \ {y}
        /\ session'[s].pc = "pass"
    BY <1>11 DEF PassesOver, TypeOK, SessionState, Busy
  <2>2. UNCHANGED filing
    BY <1>11 DEF PassesOver, filing
  <2>3. session[s].pc = "pass" /\ y \in session[s].todo /\ ~Needs(s, y)
    BY <1>11 DEF PassesOver
  <2> QED
    BY <2>1, <2>2, <2>3 DEF PassInv, FiguresPass, CodesPass, InHand, Taking, Busy, filing, Needs
<1>12. ASSUME NEW y \in Year, TakesUp(s, y)
      PROVE  FiguresPass(s)' /\ CodesPass(s)'
  <2>1. /\ session'[s].task = session[s].task /\ session'[s].todo = session[s].todo \ {y}
        /\ session'[s].year = y /\ session'[s].pc \in Busy
    BY <1>12 DEF TakesUp, TypeOK, SessionState, Busy
  <2>2. UNCHANGED filing
    BY <1>12 DEF TakesUp, filing
  <2>3. session[s].pc = "pass" /\ y \in session[s].todo /\ Needs(s, y)
    BY <1>12 DEF TakesUp
  <2> QED
    BY <2>1, <2>2, <2>3 DEF PassInv, FiguresPass, CodesPass, InHand, Taking, Busy, filing, Needs
<1>13. CASE RecordFigures(s)
  <2>1. /\ session'[s].pc = "pass" /\ session'[s].task = "record figures"
        /\ session'[s].todo = session[s].todo
    BY <1>13 DEF RecordFigures, TypeOK, Idle
  <2> DEFINE y == session[s].year
  <2>2. PICK x \in Statement : statements' = [statements EXCEPT ![y] = Append(statements[y], x)]
    BY <1>13, RecordFiguresWrites DEF Inv
  <2>3. y \in Year /\ finalized' = finalized
    BY <1>13, RecordFiguresWrites DEF Inv
  <2>7. statements[y] \in Seq(Statement)
    BY <2>3 DEF TypeOK
  <2>4. Append(statements[y], x) # <<>>
    BY <2>7, AppendKeeps
  <2>5. \A z \in Year : statements'[z] = <<>> => statements[z] = <<>> /\ z # y
    BY <2>2, <2>3, <2>4 DEF TypeOK
  <2>6. finalized \subseteq Year /\ session[s].task = "record figures"
    BY <1>13 DEF RecordFigures, TypeOK
  <2> QED
    BY <2>1, <2>3, <2>5, <2>6 DEF PassInv, FiguresPass, CodesPass, InHand, Taking
<1>14. CASE RecordCode(s)
  <2>1. /\ session'[s].pc = "pass" /\ session'[s].task = "record codes"
        /\ session'[s].todo = session[s].todo /\ session[s].task = "record codes"
    BY <1>14 DEF RecordCode, TypeOK, Idle
  <2>2. statements' = statements
    BY <1>14 DEF RecordCode
  <2> QED
    BY <2>1, <2>2 DEF PassInv, FiguresPass, CodesPass, InHand, Taking, Busy
<1>15. CASE PassEnds(s)
  <2>1. CASE session[s].task = "record figures"
    <3> DEFINE x == [Idle EXCEPT !.pc = "pass", !.task = "record codes", !.todo = finalized]
    <3>1. x.pc = "pass" /\ x.task = "record codes" /\ x.todo = finalized
      BY DEF Idle
    <3>2. session' = [session EXCEPT ![s] = x]
      BY <1>15, <2>1 DEF PassEnds, ListsYears
    <3> HIDE DEF x
    <3>3. session'[s] = x
      BY <3>2 DEF TypeOK
    <3>4. session[s].pc = "pass" /\ session[s].todo = {} /\ statements' = statements
      BY <1>15 DEF PassEnds, filing
    <3> QED
      BY <2>1, <3>1, <3>3, <3>4 DEF PassInv, FiguresPass, CodesPass, InHand, Taking, Busy
  <2>2. CASE session[s].task # "record figures"
    <3>1. session' = [session EXCEPT ![s] = Idle]
      BY <1>15, <2>2 DEF PassEnds
    <3>2. Idle.task = "press"
      BY DEF Idle
    <3>3. session'[s] = Idle
      BY <3>1 DEF TypeOK
    <3> QED
      BY <3>2, <3>3 DEF FiguresPass, CodesPass
  <2> QED
    BY <2>1, <2>2
<1>16. CASE Fails(s)
  <2>1. session'[s].task = "press"
    BY <1>16, IdleType DEF Fails, TypeOK, SessionState, Idle
  <2> QED
    BY <2>1 DEF FiguresPass, CodesPass
<1> QED
  BY <1>1, <1>2, <1>3, <1>4, <1>5, <1>6, <1>7, <1>8, <1>9, <1>10, <1>11, <1>12, <1>13, <1>14,
     <1>15, <1>16 DEF SessionStep

\* Every step keeps every start's pass in order.
LEMMA PassStep ==
  ASSUME Inv, PassInv, [Next]_vars
  PROVE  PassInv'
<1>1. \A y \in Year : /\ statements[y] # <<>> => statements'[y] # <<>>
                      /\ y \in finalized' \ finalized => statements'[y] # <<>>
  BY Grows DEF Closes
<1>2. finalized' \subseteq Year
  BY TypeStep DEF Inv, TypeOK
<1>3. ASSUME NEW u \in Session, session'[u] = session[u]
      PROVE  FiguresPass(u)' /\ CodesPass(u)'
  BY <1>1, <1>2, <1>3 DEF PassInv, FiguresPass, CodesPass, InHand, Taking
<1>4. ASSUME NEW s \in Session, SessionStep(s)
      PROVE  PassInv'
  BY <1>3, <1>4, OwnPass, OthersStay DEF PassInv, Inv
<1>5. CASE UNCHANGED session
  BY <1>3, <1>5 DEF PassInv
<1>6. CASE UNCHANGED vars
  BY <1>5, <1>6 DEF vars
<1> QED
  BY <1>4, <1>5, <1>6, WriterKeeps DEF Next

\* Every step leaves the code of a closed year covering its statements.
LEMMA CoverStep ==
  ASSUME Inv, CoveredInv, [Next]_vars
  PROVE  CoverInv' /\ CodeCoversStatements'
<1> DEFINE Covered(y) ==
      /\ code'[y] # NoCode => statements'[y] # <<>>
      /\ y \in finalized' /\ code'[y] # NoCode => code'[y].digest.filed = Len(statements'[y])
<1> SUFFICES ASSUME NEW z \in Year PROVE Covered(z)
  <2>1. finalized' \subseteq Year
    BY TypeStep DEF Inv, TypeOK
  <2> QED
    BY <2>1 DEF CoverInv, CodeCoversStatements
<1>1. ASSUME statements'[z] = statements[z], code'[z] = code[z],
             z \in finalized' => z \in finalized
      PROVE  Covered(z)
  BY <1>1 DEF CoveredInv, CoverInv, CodeCoversStatements
<1>2. CASE UNCHANGED filing
  BY <1>1, <1>2 DEF filing
<1>3. ASSUME NEW s \in Session, Reopen(s)
      PROVE  Covered(z)
  BY <1>1, <1>3, ReopenWrites
<1>4. ASSUME NEW s \in Session, RecordCode(s)
      PROVE  Covered(z)
  <2> DEFINE y == session[s].year
             d == DigestRead(s, y)
  <2>1. /\ y \in Year /\ d \in Digest /\ d.filed = Len(statements[y])
        /\ finalized' = finalized /\ statements' = statements
        /\ code' = [code EXCEPT ![y] = TakeFingerprint(y, d)]
    BY <1>4, RecordCodeWrites
  <2>2. statements[y] # <<>>
    BY <1>4, <2>1 DEF RecordCode, CoveredInv, PassInv, CodesPass, InHand, Taking, Busy
  <2> HIDE DEF y, d
  <2>3. CASE z = y
    <3>1. code'[z] = TakeFingerprint(z, d)
      BY <2>1, <2>3 DEF Inv, TypeOK
    <3> QED
      BY <2>1, <2>2, <2>3, <3>1, TakingKeepsFirst DEF Inv
  <2>4. CASE z # y
    BY <1>1, <2>1, <2>4 DEF Inv, TypeOK
  <2> QED
    BY <2>3, <2>4
<1>5. ASSUME NEW s \in Session, RecordFigures(s)
      PROVE  Covered(z)
  <2> DEFINE y == session[s].year
  <2>1. PICK x \in Statement : statements' = [statements EXCEPT ![y] = Append(statements[y], x)]
    BY <1>5, RecordFiguresWrites
  <2>2. y \in Year /\ finalized' = finalized /\ code' = code /\ statements[y] = <<>>
    BY <1>5, RecordFiguresWrites
  <2> HIDE DEF y
  <2>3. CASE z = y
    BY <2>2, <2>3 DEF CoveredInv, CoverInv
  <2>4. CASE z # y
    BY <1>1, <2>1, <2>2, <2>4 DEF Inv, TypeOK
  <2> QED
    BY <2>3, <2>4
<1>6. ASSUME NEW s \in Session, Finalize(s)
      PROVE  Covered(z)
  <2> DEFINE y == session[s].year
             d == DigestRead(s, y)
  <2>1. PICK x \in Statement : statements' = [statements EXCEPT ![y] = Append(statements[y], x)]
    BY <1>6, FinalizeWrites
  <2>2. /\ y \in Year /\ d \in Digest /\ d.filed = Len(statements[y]) + 1
        /\ finalized' = finalized \cup {y}
        /\ code' = [code EXCEPT ![y] = TakeFingerprint(y, d)]
    BY <1>6, FinalizeWrites
  <2> HIDE DEF y, d
  <2>3. CASE z = y
    <3>1. code'[z] = TakeFingerprint(z, d)
      BY <2>2, <2>3 DEF Inv, TypeOK
    <3>2. statements[z] \in Seq(Statement) /\ statements'[z] = Append(statements[z], x)
      BY <2>1, <2>3 DEF Inv, TypeOK
    <3>3. Len(statements'[z]) = Len(statements[z]) + 1 /\ statements'[z] # <<>>
      BY <3>2, AppendKeeps
    <3> QED
      BY <2>2, <2>3, <3>1, <3>3, TakingKeepsFirst DEF Inv
  <2>4. CASE z # y
    BY <1>1, <2>1, <2>2, <2>4 DEF Inv, TypeOK
  <2> QED
    BY <2>3, <2>4
<1> QED
  BY <1>2, <1>3, <1>4, <1>5, <1>6, FilingSteps

\* The code of a finalized year covers every statement on file for it: the
\* records of the site's own upgrade never make the year read as changed.
THEOREM CodeAlwaysCovers == Spec => []CodeCoversStatements
<1>1. Init => CoveredInv
  <2> SUFFICES ASSUME Init PROVE CoveredInv
    OBVIOUS
  <2>1. \A s \in Session : session[s].task = "press"
    BY DEF Init, Idle
  <2>2. \A y \in Year : code[y] = NoCode
    BY DEF Init
  <2>3. finalized \subseteq Year
    BY DEF Init
  <2> QED
    BY <2>1, <2>2, <2>3 DEF CoveredInv, PassInv, FiguresPass, CodesPass, CoverInv,
         CodeCoversStatements
<1>2. CoveredInv /\ Inv /\ [Next]_vars => CoveredInv'
  BY PassStep, CoverStep DEF CoveredInv
<1>3. CoveredInv => CodeCoversStatements
  BY DEF CoveredInv
<1> QED
  BY <1>1, <1>2, <1>3, InvAlways, PTL DEF Spec

-----------------------------------------------------------------------------
(* A year closed quietly reads as it was filed *)

\* No change in flight takes a record from year y or puts one in.
LEMMA UntouchedMeans ==
  ASSUME NEW y, Untouched(y), NEW w \in Writer
  PROVE  y \notin Touched(w)
BY DEF Untouched, Touched

\* A year no transaction touches is untouched.
LEMMA TouchedMeans ==
  ASSUME NEW y, \A w \in Writer : y \notin Touched(w)
  PROVE  Untouched(y)
BY DEF Untouched, Touched

\* Nothing about records changes while the records and what is in flight stay.
LEMMA SameRecords ==
  ASSUME UNCHANGED <<rows, txn>>
  PROVE  /\ \A y : Untouched(y)' <=> Untouched(y)
         /\ \A y, r : Figure(y, r)' = Figure(y, r)
         /\ Apart' <=> Apart
BY DEF Untouched, Figure, Apart

\* A write the trigger lets through stays out of the years closed quietly, ...
LEMMA WriteFiled ==
  ASSUME Inv, FiledInv, NEW w \in Writer, NEW r \in Record, NEW new \in Version,
         Write(w, r, new)
  PROVE  FiledInv'
<1> DEFINE old == Current(w, r)
           put == [q \in DOMAIN txn[w].writes \cup {r} |->
                     IF q = r THEN new ELSE txn[w].writes[q]]
<1>1. /\ \A u \in Writer \ {w} : r \notin DOMAIN txn[u].writes
      /\ LockAllows(w, old, new)
      /\ disturbed' = disturbed \cup
           {y \in {old.year, new.year} \cap Year : txn[w].door \/ holder[y] # Nobody}
      /\ rows' = rows /\ UNCHANGED <<filing, holder, session>>
  BY DEF Write
<1>2. txn' = [txn EXCEPT ![w] = [txn[w] EXCEPT !.writes = put]]
  BY DEF Write
<1>3. /\ DOMAIN put = DOMAIN txn[w].writes \cup {r}
      /\ put[r] = new
      /\ \A q \in DOMAIN txn[w].writes : q # r => put[q] = txn[w].writes[q]
  OBVIOUS
<1>4. old = IF r \in DOMAIN txn[w].writes THEN txn[w].writes[r] ELSE rows[r]
  BY DEF Current
<1> HIDE DEF put, old
<1>5. /\ txn'[w].writes = put
      /\ \A u \in Writer \ {w} : txn'[u] = txn[u]
  BY <1>2 DEF Inv, TypeOK, Transaction
<1>6. Apart'
  BY <1>1, <1>3, <1>5 DEF FiledInv, Apart
<1>7. ASSUME NEW z \in Year, Untouched(z), z \notin {old.year, new.year}
      PROVE  Untouched(z)'
  <2> SUFFICES ASSUME NEW u \in Writer, NEW q \in DOMAIN txn'[u].writes
               PROVE  rows[q].year # z /\ txn'[u].writes[q].year # z
    BY <1>1 DEF Untouched
  <2>1. CASE u # w
    BY <1>5, <1>7, <2>1 DEF Untouched
  <2>2. CASE u = w /\ q # r
    BY <1>3, <1>5, <1>7, <2>2 DEF Untouched
  <2>3. CASE u = w /\ q = r
    BY <1>3, <1>4, <1>5, <1>7, <2>3 DEF Untouched
  <2> QED
    BY <2>1, <2>2, <2>3
<1>8. ASSUME NEW z \in Year, z \notin disturbed', z \in finalized \/ holder[z] # Nobody
      PROVE  z \notin disturbed /\ z \notin {old.year, new.year}
  BY <1>1, <1>8 DEF LockAllows
<1>9. finalized' = finalized /\ finalized \subseteq Year
  BY <1>1 DEF filing, Inv, TypeOK
<1>10. QuietInv'
  <2> SUFFICES ASSUME NEW z \in finalized, z \notin disturbed' PROVE Untouched(z)'
    BY <1>9 DEF QuietInv
  <2> QED
    BY <1>7, <1>8, <1>9 DEF FiledInv, QuietInv
<1>11. SteadyInv'
  <2> SUFFICES ASSUME NEW s \in Session, Taking(s), session[s].year \notin disturbed',
                      ~Reopening(s)
               PROVE  Untouched(session[s].year)' /\ ReadSoFar(s)'
    BY <1>1 DEF SteadyInv, Taking, Reopening
  <2>1. session[s].year \in Year /\ holder[session[s].year] # Nobody
    BY NobodyAssumption DEF Inv, HoldInv
  <2>2. session[s].year \notin disturbed /\ session[s].year \notin {old.year, new.year}
    BY <1>8, <2>1
  <2>3. Untouched(session[s].year) /\ ReadSoFar(s)
    BY <2>2 DEF FiledInv, SteadyInv
  <2> QED
    BY <1>1, <1>7, <2>1, <2>2, <2>3 DEF ReadSoFar, Figure
<1>12. FiledAsRead'
  BY <1>1 DEF FiledInv, FiledAsRead, FiguresOf, Figure, filing
<1> QED
  BY <1>6, <1>10, <1>11, <1>12 DEF FiledInv

\* ... so committing it leaves them as filed, ...
LEMMA CommitFiled ==
  ASSUME Inv, FiledInv, NEW w \in Writer, Commit(w)
  PROVE  FiledInv'
<1>1. /\ rows' = [r \in Record |-> Current(w, r)]
      /\ txn' = [txn EXCEPT ![w] = Closed]
      /\ UNCHANGED <<filing, holder, session, disturbed>>
  BY DEF Commit
<1>2. /\ DOMAIN txn'[w].writes = {}
      /\ \A u \in Writer \ {w} : txn'[u] = txn[u]
  BY <1>1 DEF Inv, TypeOK, Closed, NoWrites
<1>3. \A u \in Writer : DOMAIN txn[u].writes \subseteq Record
  BY PendingType DEF Inv
<1>4. Apart'
  BY <1>2 DEF FiledInv, Apart
<1>5. ASSUME NEW u \in Writer \ {w}, NEW q \in DOMAIN txn[u].writes
      PROVE  rows'[q] = rows[q]
  BY <1>1, <1>3 DEF FiledInv, Apart, Current
<1>6. ASSUME NEW z \in Year, Untouched(z)
      PROVE  Untouched(z)'
  BY <1>2, <1>5, <1>6 DEF Untouched
<1>7. ASSUME NEW z \in Year, Untouched(z), NEW r \in Record
      PROVE  Figure(z, r)' = Figure(z, r)
  <2>1. rows'[r] = Current(w, r)
    BY <1>1
  <2>2. CASE r \in DOMAIN txn[w].writes
    BY <1>7, <2>1, <2>2 DEF Current, Figure, Untouched
  <2>3. CASE r \notin DOMAIN txn[w].writes
    BY <2>1, <2>3 DEF Current, Figure
  <2> QED
    BY <2>2, <2>3
<1>8. finalized' = finalized /\ finalized \subseteq Year
  BY <1>1 DEF filing, Inv, TypeOK
<1>9. QuietInv'
  BY <1>1, <1>6, <1>8 DEF FiledInv, QuietInv
<1>10. SteadyInv'
  <2> SUFFICES ASSUME NEW s \in Session, Taking(s), session[s].year \notin disturbed,
                      ~Reopening(s)
               PROVE  Untouched(session[s].year)' /\ ReadSoFar(s)'
    BY <1>1 DEF SteadyInv, Taking, Reopening
  <2>1. session[s].year \in Year
    BY DEF Inv, HoldInv
  <2>2. Untouched(session[s].year) /\ ReadSoFar(s)
    BY DEF FiledInv, SteadyInv
  <2> QED
    BY <1>1, <1>6, <1>7, <2>1, <2>2 DEF ReadSoFar
<1>11. FiledAsRead'
  <2> SUFFICES ASSUME NEW z \in finalized, z \notin disturbed
               PROVE  /\ statements[z] # <<>> =>
                           statements[z][Len(statements[z])].figures = FiguresOf(z)'
                      /\ code[z] # NoCode => code[z].digest.figures = FiguresOf(z)'
    BY <1>1 DEF FiledAsRead, filing
  <2>1. Untouched(z) /\ z \in Year
    BY <1>8 DEF FiledInv, QuietInv
  <2>2. FiguresOf(z)' = FiguresOf(z)
    BY <1>7, <2>1 DEF FiguresOf
  <2> QED
    BY <2>2 DEF FiledInv, FiledAsRead
<1> QED
  BY <1>4, <1>9, <1>10, <1>11 DEF FiledInv

\* ... as does everything a transaction does.
LEMMA WriterFiled ==
  ASSUME Inv, FiledInv, NEW w \in Writer, WriterStep(w)
  PROVE  FiledInv'
<1>1. ASSUME Begin(w) \/ OpenDoor(w) \/ Rollback(w)
      PROVE  FiledInv'
  <2>1. /\ UNCHANGED <<rows, filing, holder, session, disturbed>>
        /\ DOMAIN txn'[w].writes = {}
        /\ \A u \in Writer \ {w} : txn'[u] = txn[u]
    <3>1. DOMAIN NoWrites = {}
      BY DEF NoWrites
    <3>2. /\ UNCHANGED <<rows, filing, holder, session, disturbed>>
          /\ txn'[w].writes = NoWrites
          /\ \A u \in Writer \ {w} : txn'[u] = txn[u]
      <4>1. CASE Begin(w)
        BY <4>1 DEF Begin, Inv, TypeOK, Closed
      <4>2. CASE OpenDoor(w)
        BY <4>2 DEF OpenDoor, Inv, TypeOK, Closed
      <4>3. CASE Rollback(w)
        BY <4>3 DEF Rollback, Inv, TypeOK, Closed
      <4> QED
        BY <1>1, <4>1, <4>2, <4>3
    <3> QED
      BY <3>1, <3>2
  <2>2. Apart'
    BY <2>1 DEF FiledInv, Apart
  <2>3. \A z : Untouched(z) => Untouched(z)'
    BY <2>1 DEF Untouched
  <2>4. QuietInv'
    BY <2>1, <2>3 DEF FiledInv, QuietInv, filing
  <2>5. SteadyInv'
    BY <2>1, <2>3 DEF FiledInv, SteadyInv, Taking, Reopening, ReadSoFar, Figure
  <2>6. FiledAsRead'
    BY <2>1 DEF FiledInv, FiledAsRead, FiguresOf, Figure, filing
  <2> QED
    BY <2>2, <2>4, <2>5, <2>6 DEF FiledInv
<1> QED
  BY <1>1, CommitFiled, WriteFiled DEF WriterStep

\* A session's step reads what is there, or closes a year as it was read.
LEMMA SessionSame ==
  ASSUME NEW s \in Session, SessionStep(s)
  PROVE  UNCHANGED <<rows, txn>>
BY DEF SessionStep, Press, PressLocks, PressTooLate, Reopen, Finalize, ReadFigure, FiguresRead,
     ReadForCode, CodeComputed, Start, PassesOver, TakesUp, RecordFigures, RecordCode, PassEnds,
     Fails

\* Only the step that gets a year's row looks again at what is in flight.
LEMMA DisturbedStep ==
  ASSUME Inv, NEW s \in Session, SessionStep(s), NEW z \in Year, z \notin disturbed'
  PROVE  \/ z \notin disturbed
         \/ /\ PressLocks(s) /\ z = session[s].year /\ z \notin finalized
            /\ ~session[s].reopening /\ holder[z] = Nobody /\ Untouched(z)
<1>1. CASE PressLocks(s)
  <2> DEFINE y == session[s].year
  <2>1. /\ disturbed' = Settle(s, y) /\ holder[y] = Nobody
        /\ (y \in finalized) = session[s].reopening
    BY <1>1 DEF PressLocks
  <2>2. CASE \E w \in Writer : y \in Touched(w)
    BY <2>1, <2>2 DEF Settle
  <2>3. CASE (\A w \in Writer : y \notin Touched(w)) /\ ~session[s].reopening
    BY <1>1, <2>1, <2>3, TouchedMeans DEF Settle
  <2>4. CASE (\A w \in Writer : y \notin Touched(w)) /\ session[s].reopening
    BY <2>1, <2>4 DEF Settle
  <2> QED
    BY <2>2, <2>3, <2>4
<1>2. CASE ~PressLocks(s)
  <2>1. disturbed' = disturbed
    BY <1>2 DEF SessionStep, Press, PressTooLate, Reopen, Finalize, ReadFigure, FiguresRead,
         ReadForCode, CodeComputed, Start, PassesOver, TakesUp, RecordFigures, RecordCode,
         PassEnds, Fails
  <2> QED
    BY <2>1
<1> QED
  BY <1>1, <1>2

Steady(s) ==
  Taking(s) /\ session[s].year \notin disturbed /\ ~Reopening(s) =>
    Untouched(session[s].year) /\ ReadSoFar(s)

\* What a session has read so far is what the year holds, when nothing is in flight.
LEMMA OwnSteady ==
  ASSUME Inv, FiledInv, NEW s \in Session, SessionStep(s)
  PROVE  Steady(s)'
<1>1. ASSUME NEW y \in Year, Press(s, y)
      PROVE  Steady(s)'
  <2>1. session'[s].pc \notin Busy
    BY <1>1 DEF Press, Inv, TypeOK, Idle, Busy
  <2> QED
    BY <2>1 DEF Steady, Taking
<1>2. CASE PressLocks(s)
  <2>1. /\ session'[s].year = session[s].year /\ session[s].year \in Year
        /\ session'[s].figures = NothingRead /\ session'[s].code = NothingRead
        /\ session'[s].task = "press" /\ session'[s].reopening = session[s].reopening
    BY <1>2 DEF PressLocks, Inv, TypeOK, SessionState, ReadyInv, FreshInv, AskedInv
  <2>2. ASSUME session[s].year \notin disturbed', ~session[s].reopening
        PROVE  Untouched(session[s].year)
    <3>1. CASE \E w \in Writer : session[s].year \in Touched(w)
      BY <1>2, <2>2, <3>1 DEF PressLocks, Settle
    <3> QED
      BY <3>1, TouchedMeans
  <2> QED
    BY <2>1, <2>2, SessionSame, SameRecords DEF Steady, Reopening, ReadSoFar, NothingRead
<1>3. CASE PressTooLate(s)
  <2>1. session'[s].pc \notin Busy
    BY <1>3 DEF PressTooLate, Inv, TypeOK, Idle, Busy
  <2> QED
    BY <2>1 DEF Steady, Taking
<1>4. CASE Reopen(s)
  <2>1. session'[s].pc \notin Busy
    BY <1>4 DEF Reopen, Inv, TypeOK, Idle, Busy
  <2> QED
    BY <2>1 DEF Steady, Taking
<1>5. CASE Finalize(s)
  <2>1. session'[s].pc \notin Busy
    BY <1>5 DEF Finalize, Inv, TypeOK, Idle, Busy
  <2> QED
    BY <2>1 DEF Steady, Taking
<1>6. ASSUME NEW r \in Record, ReadFigure(s, r)
      PROVE  Steady(s)'
  <2>1. /\ session'[s].year = session[s].year /\ session'[s].task = session[s].task
        /\ session'[s].reopening = session[s].reopening
        /\ session'[s].code = session[s].code
        /\ disturbed' = disturbed /\ Taking(s)
    BY <1>6 DEF ReadFigure, Inv, TypeOK, SessionState, Taking, Busy
  <2>2. \A q \in Record : session'[s].figures[q] =
          IF q = r THEN Figure(session[s].year, r) ELSE session[s].figures[q]
    BY <1>6 DEF ReadFigure, Inv, TypeOK, SessionState
  <2>3. Steady(s)
    BY DEF FiledInv, SteadyInv, Steady
  <2> QED
    BY <2>1, <2>2, <2>3, SessionSame, SameRecords DEF Steady, Reopening, ReadSoFar
<1>7. CASE FiguresRead(s)
  <2>1. /\ session'[s].year = session[s].year /\ session'[s].task = session[s].task
        /\ session'[s].reopening = session[s].reopening
        /\ session'[s].figures = session[s].figures /\ session'[s].code = session[s].code
        /\ disturbed' = disturbed /\ Taking(s)
    BY <1>7 DEF FiguresRead, Inv, TypeOK, SessionState, Taking, Busy
  <2> QED
    BY <2>1, SessionSame, SameRecords DEF FiledInv, SteadyInv, Steady, Reopening, ReadSoFar
<1>8. ASSUME NEW r \in Record, ReadForCode(s, r)
      PROVE  Steady(s)'
  <2>1. /\ session'[s].year = session[s].year /\ session'[s].task = session[s].task
        /\ session'[s].reopening = session[s].reopening
        /\ session'[s].figures = session[s].figures
        /\ disturbed' = disturbed /\ Taking(s)
    BY <1>8 DEF ReadForCode, Inv, TypeOK, SessionState, Taking, Busy
  <2>2. \A q \in Record : session'[s].code[q] =
          IF q = r THEN Figure(session[s].year, r) ELSE session[s].code[q]
    BY <1>8 DEF ReadForCode, Inv, TypeOK, SessionState
  <2>3. Steady(s)
    BY DEF FiledInv, SteadyInv, Steady
  <2> QED
    BY <2>1, <2>2, <2>3, SessionSame, SameRecords DEF Steady, Reopening, ReadSoFar
<1>9. CASE CodeComputed(s)
  <2>1. /\ session'[s].year = session[s].year /\ session'[s].task = session[s].task
        /\ session'[s].reopening = session[s].reopening
        /\ session'[s].figures = session[s].figures /\ session'[s].code = session[s].code
        /\ disturbed' = disturbed /\ Taking(s)
    BY <1>9 DEF CodeComputed, Inv, TypeOK, SessionState, Taking, Busy
  <2> QED
    BY <2>1, SessionSame, SameRecords DEF FiledInv, SteadyInv, Steady, Reopening, ReadSoFar
<1>10. CASE Start(s)
  <2>1. session'[s].pc \notin Busy
    BY <1>10 DEF Start, Inv, TypeOK, Idle, Busy, ListsYears
  <2> QED
    BY <2>1 DEF Steady, Taking
<1>11. ASSUME NEW y \in Year, PassesOver(s, y)
      PROVE  Steady(s)'
  <2>1. session'[s].pc \notin Busy
    BY <1>11 DEF PassesOver, Inv, TypeOK, Idle, Busy, SessionState
  <2> QED
    BY <2>1 DEF Steady, Taking
<1>12. ASSUME NEW y \in Year, TakesUp(s, y)
      PROVE  Steady(s)'
  <2>1. /\ session'[s].year = y
        /\ session'[s].figures = NothingRead /\ session'[s].code = NothingRead
        /\ disturbed' = disturbed /\ y \in finalized
    BY <1>12 DEF TakesUp, Needs, Inv, TypeOK, SessionState, ReadyInv, FreshInv
  <2>2. y \notin disturbed => Untouched(y)
    BY <2>1 DEF FiledInv, QuietInv
  <2> QED
    BY <2>1, <2>2, SessionSame, SameRecords DEF Steady, ReadSoFar, NothingRead
<1>13. CASE RecordFigures(s)
  <2>1. session'[s].pc \notin Busy
    <3>1. session'[s].pc = "pass"
      BY <1>13 DEF RecordFigures, Inv, TypeOK, Idle
    <3> QED
      BY <3>1 DEF Busy
  <2> QED
    BY <2>1 DEF Steady, Taking
<1>14. CASE RecordCode(s)
  <2>1. session'[s].pc \notin Busy
    <3>1. session'[s].pc = "pass"
      BY <1>14 DEF RecordCode, Inv, TypeOK, Idle
    <3> QED
      BY <3>1 DEF Busy
  <2> QED
    BY <2>1 DEF Steady, Taking
<1>15. CASE PassEnds(s)
  <2>1. session'[s].pc \notin Busy
    <3>1. CASE session[s].task = "record figures"
      <4> DEFINE x == [Idle EXCEPT !.pc = "pass", !.task = "record codes", !.todo = finalized]
      <4>1. x.pc = "pass"
        BY DEF Idle
      <4>2. session' = [session EXCEPT ![s] = x]
        BY <1>15, <3>1 DEF PassEnds, ListsYears
      <4> HIDE DEF x
      <4> QED
        BY <4>1, <4>2 DEF Inv, TypeOK, Busy
    <3>2. CASE session[s].task # "record figures"
      <4>1. session' = [session EXCEPT ![s] = Idle]
        BY <1>15, <3>2 DEF PassEnds
      <4>2. Idle.pc = "idle"
        BY DEF Idle
      <4> QED
        BY <4>1, <4>2 DEF Inv, TypeOK, Busy
    <3> QED
      BY <3>1, <3>2
  <2> QED
    BY <2>1 DEF Steady, Taking
<1>16. CASE Fails(s)
  <2>1. session'[s].pc \notin Busy
    BY <1>16 DEF Fails, Inv, TypeOK, Idle, Busy
  <2> QED
    BY <2>1 DEF Steady, Taking
<1> QED
  BY <1>1, <1>2, <1>3, <1>4, <1>5, <1>6, <1>7, <1>8, <1>9, <1>10, <1>11, <1>12, <1>13, <1>14,
     <1>15, <1>16 DEF SessionStep

\* A session's step leaves what the others have read as it is.
LEMMA OtherSteady ==
  ASSUME Inv, FiledInv, NEW s \in Session, SessionStep(s), NEW u \in Session \ {s}
  PROVE  Steady(u)'
<1>1. session'[u] = session[u]
  BY OthersStay DEF Inv
<1>2. SUFFICES ASSUME Taking(u), session[u].year \notin disturbed', ~Reopening(u)
               PROVE  Untouched(session[u].year) /\ ReadSoFar(u)
  BY <1>1, SessionSame, SameRecords DEF Steady, Taking, Reopening, ReadSoFar
<1>3. session[u].year \in Year /\ holder[session[u].year] # Nobody
  BY <1>2, NobodyAssumption DEF Inv, HoldInv
<1>4. session[u].year \notin disturbed
  BY <1>2, <1>3, DisturbedStep
<1> QED
  BY <1>2, <1>4 DEF FiledInv, SteadyInv

\* What a session saves of a year that was quiet is what the year holds.
LEMMA SavedAsRead ==
  ASSUME Inv, FiledInv, NEW s \in Session, session[s].pc = "save",
         session[s].year \notin disturbed, ~Reopening(s)
  PROVE  /\ session[s].figures \in Figures => session[s].figures = FiguresOf(session[s].year)
         /\ session[s].code \in Figures => session[s].code = FiguresOf(session[s].year)
<1>1. ReadSoFar(s)
  BY DEF FiledInv, SteadyInv, Taking, Busy
<1>2. ASSUME NEW f \in Figures,
             \A r \in Record : f[r] \in {Unread, Figure(session[s].year, r)}
      PROVE  f = FiguresOf(session[s].year)
  <2>1. \A r \in Record : f[r] # Unread
    BY CellAssumption DEF Figures, Cell
  <2> QED
    BY <1>2, <2>1 DEF Figures, FiguresOf
<1> QED
  BY <1>1, <1>2 DEF ReadSoFar

\* Whatever a session does, years closed quietly read as filed.
LEMMA SessionFiled ==
  ASSUME Inv, FiledInv, NEW s \in Session, SessionStep(s)
  PROVE  FiledInv'
<1>1. UNCHANGED <<rows, txn>>
  BY SessionSame
<1>2. Apart'
  BY <1>1, SameRecords DEF FiledInv
<1>3. SteadyInv'
  <2>1. \A u \in Session : Steady(u)'
    BY OwnSteady, OtherSteady
  <2> QED
    BY <2>1 DEF SteadyInv, Steady
<1>4. [Next]_vars
  BY DEF Next
<1>5. ASSUME NEW z \in Year, z \notin disturbed', z \in finalized
      PROVE  z \notin disturbed
  BY <1>5, DisturbedStep
<1>6. ASSUME Finalize(s)
      PROVE  /\ disturbed' = disturbed /\ session[s].pc = "save" /\ ~Reopening(s)
             /\ session[s].figures \in Figures /\ session[s].code \in Figures
  BY <1>6 DEF Finalize, Reopening, Inv, ReadyInv, ReadInv, Closing
<1>7. QuietInv'
  <2> SUFFICES ASSUME NEW z \in finalized', z \notin disturbed' PROVE Untouched(z)
    BY <1>1, SameRecords DEF QuietInv
  <2>1. z \in Year
    BY <1>4, TypeStep DEF Inv, TypeOK
  <2>2. CASE z \in finalized
    BY <1>5, <2>1, <2>2 DEF FiledInv, QuietInv
  <2>3. CASE z \notin finalized
    <3>1. Finalize(s) /\ z = session[s].year
      <4>1. ~UNCHANGED filing
        BY <2>3 DEF filing
      <4>2. \E u \in Session : Finalize(u) /\ z = session[u].year
        BY <1>4, <2>3, <4>1, FilingSteps, FinalizeWrites, ReopenWrites, RecordCodeWrites,
           RecordFiguresWrites
      <4>3. PICK u \in Session : Finalize(u) /\ z = session[u].year
        BY <4>2
      <4>4. session'[u] = Idle /\ session[u].pc = "save" /\ Idle.pc = "idle"
        BY <4>3 DEF Finalize, Inv, TypeOK, Idle
      <4>5. u = s
        BY <4>4, OthersStay DEF Inv
      <4> QED
        BY <4>3, <4>5
    <3> QED
      BY <1>6, <3>1 DEF FiledInv, SteadyInv, Taking, Busy
  <2> QED
    BY <2>2, <2>3
<1> DEFINE AsRead(z) ==
      /\ statements'[z] # <<>> =>
           statements'[z][Len(statements'[z])].figures = FiguresOf(z)
      /\ code'[z] # NoCode => code'[z].digest.figures = FiguresOf(z)
<1>8. ASSUME NEW z \in Year, z \notin disturbed', z \in finalized,
             statements'[z] = statements[z], code'[z] = code[z]
      PROVE  AsRead(z)
  BY <1>5, <1>8 DEF FiledInv, FiledAsRead
<1>9. ASSUME NEW z \in Year, z \notin disturbed', z \in finalized'
      PROVE  AsRead(z)
  <2>1. CASE UNCHANGED filing
    BY <1>8, <1>9, <2>1 DEF filing
  <2>2. ASSUME NEW u \in Session, Reopen(u)
        PROVE  AsRead(z)
    BY <1>8, <1>9, <2>2, ReopenWrites
  <2>3. ASSUME NEW u \in Session, RecordCode(u)
        PROVE  AsRead(z)
    <3> DEFINE y == session[u].year
               d == DigestRead(u, y)
    <3>1. /\ y \in Year /\ d \in Digest /\ d.figures = session[u].code
          /\ finalized' = finalized /\ statements' = statements
          /\ code' = [code EXCEPT ![y] = TakeFingerprint(y, d)]
      BY <2>3, RecordCodeWrites
    <3>2. /\ session[u].pc = "save" /\ disturbed' = disturbed /\ ~Reopening(u)
          /\ session[u].code \in Figures
      BY <2>3 DEF RecordCode, Reopening, Inv, ReadyInv, ReadInv
    <3>3. z \notin disturbed /\ session[u].year = z => session[u].code = FiguresOf(z)
      BY <3>2, SavedAsRead
    <3> HIDE DEF d
    <3>4. CASE z = y
      <4>1. code'[z].digest = d
        BY <3>1, <3>4, TakingKeepsFirst DEF Inv, TypeOK
      <4> QED
        BY <1>9, <3>1, <3>2, <3>3, <3>4, <4>1 DEF FiledInv, FiledAsRead
    <3>5. CASE z # y
      BY <1>8, <1>9, <3>1, <3>5 DEF Inv, TypeOK
    <3> QED
      BY <3>4, <3>5
  <2>4. ASSUME NEW u \in Session, RecordFigures(u)
        PROVE  AsRead(z)
    <3> DEFINE y == session[u].year
    <3>1. PICK x \in Statement :
            /\ x.figures = session[u].figures
            /\ statements' = [statements EXCEPT ![y] = Append(statements[y], x)]
      BY <2>4, RecordFiguresWrites
    <3>2. y \in Year /\ finalized' = finalized /\ code' = code
      BY <2>4, RecordFiguresWrites
    <3>3. /\ session[u].pc = "save" /\ disturbed' = disturbed /\ ~Reopening(u)
          /\ session[u].figures \in Figures
      BY <2>4 DEF RecordFigures, Reopening, Inv, ReadyInv, ReadInv
    <3>4. z \notin disturbed /\ y = z => session[u].figures = FiguresOf(z)
      BY <3>3, SavedAsRead
    <3> HIDE DEF y
    <3>5. CASE z = y
      <4>1. statements[z] \in Seq(Statement) /\ statements'[z] = Append(statements[z], x)
        BY <3>1, <3>2, <3>5 DEF Inv, TypeOK
      <4>2. statements'[z][Len(statements'[z])] = x
        BY <4>1, AppendKeeps
      <4> QED
        BY <1>9, <3>1, <3>2, <3>3, <3>4, <3>5, <4>2 DEF FiledInv, FiledAsRead
    <3>6. CASE z # y
      BY <1>8, <1>9, <3>1, <3>2, <3>6 DEF Inv, TypeOK
    <3> QED
      BY <3>5, <3>6
  <2>5. ASSUME NEW u \in Session, Finalize(u)
        PROVE  AsRead(z)
    <3> DEFINE y == session[u].year
               d == DigestRead(u, y)
    <3>1. PICK x \in Statement :
            /\ x.figures = session[u].figures
            /\ statements' = [statements EXCEPT ![y] = Append(statements[y], x)]
      BY <2>5, FinalizeWrites
    <3>2. /\ y \in Year /\ d \in Digest /\ d.figures = session[u].code
          /\ finalized' = finalized \cup {y}
          /\ code' = [code EXCEPT ![y] = TakeFingerprint(y, d)]
      BY <2>5, FinalizeWrites
    <3>3. /\ session[u].pc = "save" /\ disturbed' = disturbed /\ ~Reopening(u)
          /\ session[u].figures \in Figures /\ session[u].code \in Figures
      BY <2>5 DEF Finalize, Reopening, Inv, ReadyInv, ReadInv, Closing
    <3>4. z \notin disturbed /\ y = z =>
            session[u].figures = FiguresOf(z) /\ session[u].code = FiguresOf(z)
      BY <3>3, SavedAsRead
    <3> HIDE DEF y, d
    <3>5. CASE z = y
      <4>1. statements[z] \in Seq(Statement) /\ statements'[z] = Append(statements[z], x)
        BY <3>1, <3>2, <3>5 DEF Inv, TypeOK
      <4>2. statements'[z][Len(statements'[z])] = x
        BY <4>1, AppendKeeps
      <4>3. code'[z].digest = d
        BY <3>2, <3>5, TakingKeepsFirst DEF Inv, TypeOK
      <4> QED
        BY <1>9, <3>1, <3>2, <3>3, <3>4, <3>5, <4>2, <4>3
    <3>6. CASE z # y
      BY <1>8, <1>9, <3>1, <3>2, <3>6 DEF Inv, TypeOK
    <3> QED
      BY <3>5, <3>6
  <2> QED
    BY <1>4, <2>1, <2>2, <2>3, <2>4, <2>5, FilingSteps
<1>10. FiledAsRead'
  <2>1. \A z : FiguresOf(z)' = FiguresOf(z)
    BY <1>1 DEF FiguresOf, Figure
  <2>2. finalized' \subseteq Year
    BY <1>4, TypeStep DEF Inv, TypeOK
  <2> QED
    BY <1>9, <2>1, <2>2 DEF FiledAsRead
<1> QED
  BY <1>2, <1>3, <1>7, <1>10 DEF FiledInv

\* Every step keeps the years closed quietly as filed.
LEMMA FiledStep == Inv /\ FiledInv /\ [Next]_vars => FiledInv'
<1> SUFFICES ASSUME Inv, FiledInv, [Next]_vars PROVE FiledInv'
  OBVIOUS
<1>1. CASE UNCHANGED vars
  BY <1>1 DEF vars, filing, FiledInv, Apart, QuietInv, Untouched, SteadyInv, Taking, Reopening,
       ReadSoFar, Figure, FiledAsRead, FiguresOf
<1> QED
  BY <1>1, WriterFiled, SessionFiled DEF Next

\* Whatever is written, moved between years, closed and reopened, and in what
\* order: a year finalized with nothing in flight, and not written through the
\* door since, reads as its newest statement and as its code.
THEOREM FiledAlwaysAsRead == Spec => []FiledAsRead
<1>1. Init => FiledInv
  <2> SUFFICES ASSUME Init PROVE FiledInv
    OBVIOUS
  <2>1. \A w \in Writer : DOMAIN txn[w].writes = {}
    BY DEF Init, Closed, NoWrites
  <2>2. \A s \in Session : ~Taking(s)
    BY DEF Init, Idle, Taking, Busy
  <2>3. finalized \subseteq Year
    BY DEF Init
  <2>4. FiledAsRead
    BY <2>3 DEF Init, FiledAsRead
  <2> QED
    BY <2>1, <2>2, <2>4 DEF FiledInv, Apart, QuietInv, Untouched, SteadyInv
<1>2. FiledInv => FiledAsRead
  BY DEF FiledInv
<1> QED
  BY <1>1, <1>2, FiledStep, InvAlways, PTL DEF Spec

=============================================================================
