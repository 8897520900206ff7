-------------------------- MODULE OutsideDataProofs --------------------------
(***************************************************************************)
(* What holds of data that reaches the site from outside.                   *)
(*                                                                          *)
(* Fetching, for any number of stations, presses, scheduled syncs,          *)
(* versions, failures and deaths: revising a station's readings is sound, a *)
(* run's log tells what the run did, and a station's page never starts a    *)
(* second fetch beside a running one.                                       *)
(*                                                                          *)
(* PendingImports, for any number of uploads, web requests and workers: no  *)
(* file is left once its row is gone, and a result is shown only of a file  *)
(* that was written.  Where Import is pressed once at a time, the page says *)
(* exactly what became of the file.                                         *)
(***************************************************************************)
EXTENDS Fetching, PendingImports, SequenceTheorems, FiniteSetTheorems,
        WellFoundedInduction, TLAPS

ProcessState ==
  [pc : PC, station : Station \cup {NoStation}, left : SUBSET Station,
   window : SUBSET Station, answer : 0 .. Versions, seen : Nat, error : BOOLEAN,
   failures : Nat, fetched : BOOLEAN, staged : BOOLEAN, counted : Nat,
   answered : SUBSET Station, heard : BOOLEAN, wrote : Nat]
RunLog == [by : Sync \cup {Nobody}, status : LogStatus]

-----------------------------------------------------------------------------
(* The inductive invariant *)

\* The stations of the run of p when it stands as me.
MineOf(p, me) == IF p \in Press THEN {me.station} ELSE Station

\* What a process keeps in memory: an answer is of a station it is still to do, and a
\* station is done without an answer exactly when the run has an error.  From the first
\* error on every station counts as failed, so the failures and what is left make up
\* the whole run exactly when no answer came before it.
Standing(p, me) ==
  /\ me.pc \in {"lock", "write"} => me.answer # 0 /\ me.station \in me.left
  /\ me.pc \in {"looked", "launch"} => me.station \in Station
  /\ me.pc \in {"looked", "launch", "create"} =>
       /\ ~me.error /\ me.failures = 0 /\ me.answered = {} /\ ~me.heard
       /\ me.counted = me.wrote
  /\ me.pc \in {"ask", "lock", "write"} =>
       /\ p \in Press => me.station \in Station
       /\ me.left \cup me.answered \subseteq MineOf(p, me)
       /\ me.left \cap me.answered = {}
       /\ me.counted = me.wrote
       /\ IF me.error
          THEN /\ me.failures > 0
               /\ me.left \cup me.answered # MineOf(p, me)
               /\ me.failures + Cardinality(me.left) = Cardinality(MineOf(p, me)) <=> ~me.heard
          ELSE /\ me.failures = 0
               /\ me.left \cup me.answered = MineOf(p, me)
               /\ me.heard <=> me.answered # {}
StandingInv == \A p \in Process : Standing(p, process[p])

\* Who writes, or has looked for a running log, holds the station's row; and who
\* writes has seen the chain as it still is.
Holds(p, me) ==
  /\ me.pc = "write" => lock[me.station] = p /\ me.seen = Len(chain[me.station])
  /\ me.pc = "looked" => lock[me.station] = p
LockInv == \A p \in Process : Holds(p, process[p])

\* No two young logs are of one station, and who has looked found none.
GoingInv ==
  /\ \A p \in young : process[p].pc \notin {"idle", "looked", "done"}
  /\ \A p, q \in young : process[p].station = process[q].station => p = q
  /\ \A p \in Press : process[p].pc = "looked" =>
       \A q \in young : process[q].station # process[p].station

FetchInv == TypeOK /\ StandingInv /\ LockInv /\ GoingInv /\ ChainsSound

-----------------------------------------------------------------------------
(* One process moves *)

\* A station that is through leaves the run in order: it was answered, or the run
\* has an error now.
LEMMA ThroughStands ==
  ASSUME NEW p \in Process, NEW me \in ProcessState, Standing(p, me),
         me.pc \in {"ask", "lock", "write"}, NEW s \in me.left,
         NEW m \in ProcessState,
         m.left = me.left, m.station = me.station, m.failures = me.failures,
         m.counted = m.wrote,
         \/ /\ m.error = me.error /\ m.answered = me.answered \cup {s}
            /\ m.heard = (me.heard \/ ~me.error)
         \/ m.error = TRUE /\ m.answered = me.answered /\ m.heard = me.heard
  PROVE  /\ Through(p, m, s) \in ProcessState
         /\ Standing(p, Through(p, m, s))
         /\ Through(p, m, s).pc = "ask"
         /\ p \in Press => Through(p, m, s).station = me.station
<1> DEFINE t == Through(p, m, s)
<1>1. s \in Station /\ (p \in Press => s = me.station)
  BY DEF Standing, MineOf, ProcessState
<1>2. /\ t.pc = "ask" /\ t.left = me.left \ {s} /\ t.answered = m.answered
      /\ t.error = m.error /\ t.counted = m.counted /\ t.wrote = m.wrote /\ t.heard = m.heard
      /\ t.failures = IF m.error THEN me.failures + 1 ELSE me.failures
      /\ p \in Press => t.station = s
  BY DEF Through, ProcessState
<1>3. t \in ProcessState
  <2>1. /\ "ask" \in PC /\ m.left \ {s} \in SUBSET Station /\ 0 \in 0 .. Versions
        /\ (IF p \in Press THEN s ELSE NoStation) \in Station \cup {NoStation}
        /\ (IF m.error THEN m.failures + 1 ELSE m.failures) \in Nat
    BY <1>1, VersionsAssumption DEF ProcessState, PC
  <2> QED
    BY <2>1 DEF Through, ProcessState
<1>4. MineOf(p, t) = MineOf(p, me)
  BY <1>1, <1>2 DEF MineOf
<1> HIDE DEF t
<1>5. Standing(p, t)
  <2> DEFINE M == MineOf(p, me)
             A == m.error = me.error /\ m.answered = me.answered \cup {s}
                    /\ m.heard = (me.heard \/ ~me.error)
             B == m.error = TRUE /\ m.answered = me.answered /\ m.heard = me.heard
  <2>1. /\ me.failures \in Nat /\ me.error \in BOOLEAN /\ me.heard \in BOOLEAN
        /\ m.error \in BOOLEAN /\ m.heard \in BOOLEAN /\ (A \/ B)
    BY DEF ProcessState
  <2>2. /\ p \in Press => me.station \in Station
        /\ me.left \cup me.answered \subseteq M
        /\ me.left \cap me.answered = {}
        /\ me.counted = me.wrote
        /\ me.error => /\ me.failures > 0 /\ me.left \cup me.answered # M
                       /\ me.failures + Cardinality(me.left) = Cardinality(M) <=> ~me.heard
        /\ ~me.error => /\ me.failures = 0 /\ me.left \cup me.answered = M
                        /\ me.heard <=> me.answered # {}
    BY DEF Standing
  <2>3. /\ Cardinality(me.left) \in Nat /\ Cardinality(M) \in Nat
        /\ Cardinality(t.left) \in Nat /\ Cardinality(t.left) = Cardinality(me.left) - 1
        /\ me.left = M <=> Cardinality(me.left) = Cardinality(M)
    <3>1. IsFiniteSet(M) /\ IsFiniteSet(me.left) /\ me.left \subseteq M
      <4>1. IsFiniteSet(M)
        BY StationAssumption, FS_Singleton DEF MineOf
      <4> QED
        BY <2>2, <4>1, FS_Subset
    <3> HIDE DEF M
    <3> QED
      BY <1>2, <3>1, FS_CardinalityType, FS_RemoveElement, FS_Subset
  <2>4. (me.left = M <=> me.answered = {}) \/ me.error
    BY <2>2
  <2> DEFINE l == Cardinality(me.left)
             c == Cardinality(M)
             k == Cardinality(t.left)
  <2> HIDE DEF l, c, k
  <2>5. /\ t.left \cup t.answered \subseteq M /\ t.left \cap t.answered = {}
        /\ p \in Press => t.station \in Station
        /\ t.counted = t.wrote
    BY <1>1, <1>2, <2>1, <2>2
  <2>6. CASE m.error
    <3>1. t.failures > 0 /\ t.failures + k = me.failures + l
      BY <1>2, <2>1, <2>3, <2>6 DEF k, l
    <3>2. t.left \cup t.answered # M
      BY <1>2, <2>1, <2>2, <2>6
    <3>3. t.failures + k = c <=> ~t.heard
      <4>1. CASE me.error
        <5>1. t.heard = me.heard /\ (me.failures + l = c <=> ~me.heard)
          BY <1>2, <2>1, <2>2, <4>1 DEF l, c
        <5> QED
          BY <3>1, <5>1
      <4>2. CASE ~me.error
        <5>1. t.heard = me.heard /\ me.failures = 0 /\ (me.heard <=> me.answered # {})
          BY <1>2, <2>1, <2>2, <2>6, <4>2
        <5>2. l = c <=> me.answered = {}
          BY <2>3, <2>4, <4>2 DEF l, c
        <5>3. l \in Nat
          BY <2>3 DEF l
        <5> QED
          BY <3>1, <5>1, <5>2, <5>3
      <4> QED
        BY <4>1, <4>2
    <3> HIDE DEF M
    <3>4. /\ t.failures > 0 /\ t.left \cup t.answered # MineOf(p, t)
          /\ t.failures + Cardinality(t.left) = Cardinality(MineOf(p, t)) <=> ~t.heard
      BY <1>4, <3>1, <3>2, <3>3 DEF k, c, M
    <3> QED
      BY <1>2, <1>4, <2>5, <2>6, <3>4 DEF Standing, M
  <2>7. CASE ~m.error
    <3>1. /\ ~me.error /\ ~t.error /\ t.failures = 0 /\ t.heard
          /\ t.answered = me.answered \cup {s} /\ t.left \cup t.answered = M
      BY <1>2, <2>1, <2>2, <2>7
    <3>2. t.heard <=> t.answered # {}
      BY <3>1
    <3> QED
      BY <1>2, <1>4, <2>5, <3>1, <3>2 DEF Standing
  <2> QED
    BY <2>6, <2>7
<1> QED
  BY <1>1, <1>2, <1>3, <1>5 DEF t

\* A process that moves, touching only the row lock and the chain it holds, leaves the
\* others as they stand.
LEMMA OneMoves ==
  ASSUME FetchInv, NEW p \in Process, NEW new \in ProcessState,
         process' = [process EXCEPT ![p] = new], Standing(p, new),
         \A s \in Station : lock'[s] # lock[s] => lock[s] \in {p, Nobody},
         \A s \in Station : chain'[s] # chain[s] => lock[s] = p,
         new.pc = "write" => lock'[new.station] = p /\ new.seen = Len(chain'[new.station]),
         new.pc = "looked" => lock'[new.station] = p
  PROVE  process' \in [Process -> ProcessState] /\ StandingInv' /\ LockInv'
<1>1. process \in [Process -> ProcessState]
  BY DEF FetchInv, TypeOK, ProcessState
<1>2. process'[p] = new /\ \A q \in Process \ {p} : process'[q] = process[q]
  BY <1>1
<1>3. process' \in [Process -> ProcessState]
  BY <1>1
<1>4. StandingInv'
  <2>1. ASSUME NEW q \in Process PROVE Standing(q, process'[q])
    BY <1>2 DEF StandingInv, FetchInv
  <2> QED
    BY <2>1, Zenon DEF StandingInv
<1>5. ASSUME NEW q \in Process PROVE Holds(q, process[q])'
  <2>1. CASE q = p
    BY <1>2, <2>1 DEF Holds
  <2>2. CASE q # p
    <3>1. process'[q] = process[q] /\ Holds(q, process[q]) /\ Standing(q, process[q])
      BY <1>2, <2>2 DEF FetchInv, LockInv, StandingInv
    <3>2. process[q].pc \in {"write", "looked"} => process[q].station \in Station
      BY <1>1, <3>1 DEF Standing, ProcessState
    <3> QED
      BY <2>2, <3>1, <3>2, ProcessAssumption DEF Holds
  <2> QED
    BY <2>1, <2>2
<1> QED
  BY <1>3, <1>4, <1>5 DEF LockInv

\* A press that does not look or start a fetch begins no other of its station.
LEMMA GoesOn ==
  ASSUME FetchInv, NEW p \in Process, NEW new \in ProcessState,
         process' = [process EXCEPT ![p] = new],
         new.pc # "looked", young' \subseteq young,
         p \in young' => new.station = process[p].station /\ new.pc \notin {"idle", "done"}
  PROVE  GoingInv'
<1>1. process \in [Process -> ProcessState] /\ young \subseteq Press /\ Press \subseteq Process
  BY DEF FetchInv, TypeOK, ProcessState, Process
<1>2. process'[p] = new /\ \A q \in Process \ {p} : process'[q] = process[q]
  BY <1>1
<1>3. \A q \in young' : q \in young /\ process'[q].station = process[q].station
  BY <1>1, <1>2
<1>4. \A q \in Press : process'[q].pc = "looked" => process'[q] = process[q]
  BY <1>1, <1>2
<1>5. \A q \in young' : process'[q].pc \notin {"idle", "looked", "done"}
  BY <1>1, <1>2 DEF FetchInv, GoingInv
<1> QED
  BY <1>3, <1>4, <1>5 DEF FetchInv, GoingInv
\* What the invariant says of a process.
LEMMA ProcessIs ==
  ASSUME FetchInv, NEW p \in Process
  PROVE  process[p] \in ProcessState /\ Standing(p, process[p]) /\ Holds(p, process[p])
BY DEF FetchInv, TypeOK, ProcessState, StandingInv, LockInv

\* A process that has done nothing yet.
LEMMA FreshIs ==
  /\ Fresh \in ProcessState
  /\ Fresh.left = {} /\ Fresh.error = FALSE /\ Fresh.failures = 0 /\ Fresh.answered = {}
  /\ Fresh.heard = FALSE
  /\ Fresh.counted = 0 /\ Fresh.wrote = 0 /\ Fresh.station = NoStation
<1>1. 0 \in 0 .. Versions /\ "idle" \in PC
  BY VersionsAssumption DEF PC
<1> QED
  BY <1>1 DEF Fresh, ProcessState

\* What a process lets go of was its own.
LEMMA UnlockedIs ==
  ASSUME TypeOK, NEW p \in Process
  PROVE  /\ Unlocked(p) \in [Station -> Process \cup {Nobody}]
         /\ \A s \in Station : Unlocked(p)[s] # lock[s] => lock[s] \in {p, Nobody}
BY DEF Unlocked, TypeOK

-----------------------------------------------------------------------------
(* Every step keeps the invariant *)

\* What the source does, and time.
LEMMA SourceKeeps ==
  ASSUME FetchInv,
         \/ \E s \in Station : Revise(s) \/ Ages(s) \/ Settles(s)
         \/ GoesDown \/ ComesUp \/ UNCHANGED vars
         \/ \E p \in Press : TenMinutes(p)
  PROVE  FetchInv'
<1>1. /\ UNCHANGED <<chain, lock, process, log, runs, alarm, deaths>>
      /\ young' \subseteq young
  BY DEF Revise, Ages, Settles, GoesDown, ComesUp, TenMinutes, vars, sourceVars, logVars
<1>2. /\ said' \in [Station -> 0 .. Versions] /\ up' \in BOOLEAN /\ faults' \in 0 .. MaxFaults
      /\ asksWhatChanged' \in BOOLEAN /\ aged' \subseteq Station /\ settled' \subseteq Station
  <2>1. TypeOK /\ MaxFaults \in Nat /\ Versions \in Nat
    BY BoundsAssumption, VersionsAssumption DEF FetchInv
  <2>2. CASE \E s \in Station : Revise(s) \/ Ages(s) \/ Settles(s)
    BY <2>1, <2>2 DEF Revise, Ages, Settles, TypeOK
  <2>3. CASE GoesDown \/ ComesUp
    <3>1. faults' = faults \/ (faults > 0 /\ faults' = faults - 1)
      BY <2>3 DEF GoesDown, ComesUp
    <3>2. /\ UNCHANGED <<said, asksWhatChanged, aged, settled>> /\ up' \in BOOLEAN
      BY <2>3 DEF GoesDown, ComesUp
    <3>3. faults \in 0 .. MaxFaults
      BY <2>1 DEF TypeOK
    <3> QED
      BY <2>1, <3>1, <3>2, <3>3 DEF TypeOK
  <2>4. CASE UNCHANGED vars \/ \E p \in Press : TenMinutes(p)
    BY <2>1, <2>4 DEF TenMinutes, vars, sourceVars, TypeOK
  <2> QED
    BY <2>2, <2>3, <2>4
<1>3. TypeOK'
  BY <1>1, <1>2 DEF FetchInv, TypeOK
<1>4. StandingInv' /\ LockInv' /\ ChainsSound' /\ GoingInv'
  BY <1>1 DEF FetchInv, StandingInv, Standing, MineOf, LockInv, Holds, ChainsSound, GoingInv
<1> QED
  BY <1>3, <1>4 DEF FetchInv

\* A press looks for a running log of the station it holds.
LEMMA PressLooksKeeps ==
  ASSUME FetchInv, NEW p \in Press, NEW s \in Station, PressLooks(p, s)
  PROVE  FetchInv'
<1> DEFINE new == [Fresh EXCEPT !.pc = "looked", !.station = s]
<1>1. /\ process[p].pc = "idle" /\ lock[s] = Nobody
      /\ ~\E q \in Press : Going(q, s)
      /\ lock' = [lock EXCEPT ![s] = p]
      /\ process' = [process EXCEPT ![p] = new]
      /\ UNCHANGED <<said, up, asksWhatChanged, aged, settled, chain, log, young, runs, alarm, faults, deaths>>
  BY DEF PressLooks, sourceVars, logVars
<1>2. new \in ProcessState /\ Standing(p, new) /\ new.pc = "looked" /\ new.station = s
  <2>1. Fresh \in ProcessState /\ "looked" \in PC
    BY FreshIs DEF PC
  <2>2. new \in ProcessState
    BY <2>1 DEF ProcessState
  <2> QED
    BY <2>1, <2>2, FreshIs DEF Standing
<1>3. TypeOK /\ p \in Process /\ process \in [Process -> ProcessState]
  BY DEF FetchInv, TypeOK, Process, ProcessState
<1> HIDE DEF new
<1>4. /\ lock' \in [Station -> Process \cup {Nobody}] /\ lock'[s] = p
      /\ \A x \in Station : lock'[x] # lock[x] => lock[x] \in {p, Nobody}
  BY <1>1, <1>3 DEF TypeOK
<1>5. process' \in [Process -> ProcessState] /\ StandingInv' /\ LockInv'
  BY <1>1, <1>2, <1>3, <1>4, OneMoves
<1>6. TypeOK'
  BY <1>1, <1>3, <1>4, <1>5 DEF TypeOK, ProcessState
<1>7. GoingInv'
  <2>1. /\ p \notin young /\ young' = young /\ young \subseteq Press
        /\ \A q \in young : process[q].station # s
    BY <1>1, <1>3 DEF FetchInv, GoingInv, Going, TypeOK
  <2>2. process'[p] = new /\ \A q \in Process \ {p} : process'[q] = process[q]
    BY <1>1, <1>3
  <2>3. \A q \in young : process'[q] = process[q]
    BY <2>1, <2>2 DEF Process
  <2>4. \A q \in Press : process'[q].pc = "looked" => q = p \/ process'[q] = process[q]
    BY <2>2 DEF Process
  <2> QED
    BY <1>2, <2>1, <2>2, <2>3, <2>4 DEF FetchInv, GoingInv
<1> QED
  BY <1>1, <1>5, <1>6, <1>7 DEF FetchInv, ChainsSound

\* Its log is made under the same lock.
LEMMA PressCreatesKeeps ==
  ASSUME FetchInv, NEW p \in Press, PressCreates(p)
  PROVE  FetchInv'
<1> DEFINE me == process[p]
           new == [me EXCEPT !.pc = "launch"]
<1>1. /\ me.pc = "looked"
      /\ log' = [log EXCEPT ![p] = "running"]
      /\ young' = young \cup {p}
      /\ lock' = Unlocked(p)
      /\ process' = [process EXCEPT ![p] = new]
      /\ UNCHANGED <<said, up, asksWhatChanged, aged, settled, chain, runs, alarm, faults, deaths>>
  BY DEF PressCreates, sourceVars
<1>2. TypeOK /\ p \in Process /\ process \in [Process -> ProcessState]
  BY DEF FetchInv, TypeOK, Process, ProcessState
<1>3. me \in ProcessState /\ Standing(p, me) /\ Holds(p, me)
  BY <1>2, ProcessIs
<1> HIDE DEF me
<1>4. new \in ProcessState /\ Standing(p, new) /\ new.pc = "launch" /\ new.station = me.station
  BY <1>1, <1>3 DEF ProcessState, PC, Standing
<1> HIDE DEF new
<1>5. process' \in [Process -> ProcessState] /\ StandingInv' /\ LockInv'
  BY <1>1, <1>2, <1>4, UnlockedIs, OneMoves
<1>6. TypeOK'
  <2>1. log' \in [Press -> LogStatus \cup {"none"}] /\ young' \subseteq Press
    BY <1>1, <1>2 DEF TypeOK, LogStatus
  <2> QED
    BY <1>1, <1>2, <1>5, <2>1, UnlockedIs DEF TypeOK, ProcessState
<1>7. GoingInv'
  <2>1. process'[p] = new /\ \A q \in Process \ {p} : process'[q] = process[q]
    BY <1>1, <1>2
  <2>2. \A q \in Press : q # p => process'[q] = process[q]
    BY <2>1 DEF Process
  <2>3. /\ young \subseteq Press
        /\ \A q \in young : process[q].station # me.station /\ q # p
    BY <1>1, <1>2 DEF FetchInv, GoingInv, TypeOK, me
  <2>4. ASSUME NEW q \in Press, process'[q].pc = "looked"
        PROVE  process'[q].station # me.station
    <3>1. q # p /\ process'[q] = process[q] /\ q \in Process
      BY <1>4, <2>1, <2>2, <2>4 DEF Process
    <3>2. Holds(q, process[q]) /\ Standing(q, process[q])
      BY <3>1, ProcessIs
    <3> QED
      BY <1>1, <1>3, <2>4, <3>1, <3>2 DEF Holds
  <2> QED
    BY <1>1, <1>4, <2>1, <2>2, <2>3, <2>4 DEF FetchInv, GoingInv
<1> QED
  BY <1>1, <1>5, <1>6, <1>7 DEF FetchInv, ChainsSound
\* A process that moves without writing or looking keeps the invariant.
LEMMA QuietMove ==
  ASSUME FetchInv, NEW p \in Process, NEW new \in ProcessState,
         process' = [process EXCEPT ![p] = new], Standing(p, new),
         new.pc \notin {"write", "looked"},
         lock' \in {lock, Unlocked(p)},
         UNCHANGED <<said, up, asksWhatChanged, aged, settled, chain>>,
         young' \subseteq young,
         p \in young' => new.station = process[p].station /\ new.pc \notin {"idle", "done"},
         log' \in [Press -> LogStatus \cup {"none"}], runs' \in Seq(RunLog),
         alarm' \in BOOLEAN, faults' \in 0 .. MaxFaults, deaths' \in 0 .. MaxDeaths
  PROVE  FetchInv'
<1>1. TypeOK
  BY DEF FetchInv
<1>2. /\ lock' \in [Station -> Process \cup {Nobody}]
      /\ \A s \in Station : lock'[s] # lock[s] => lock[s] \in {p, Nobody}
  BY <1>1, UnlockedIs DEF TypeOK
<1>3. process' \in [Process -> ProcessState] /\ StandingInv' /\ LockInv'
  BY <1>2, OneMoves
<1>4. GoingInv'
  BY GoesOn
<1>5. TypeOK'
  BY <1>1, <1>2, <1>3 DEF TypeOK, ProcessState, RunLog
<1> QED
  BY <1>3, <1>4, <1>5 DEF FetchInv, ChainsSound

\* The types the other steps start from.
LEMMA Typed ==
  ASSUME FetchInv
  PROVE  /\ log \in [Press -> LogStatus \cup {"none"}] /\ runs \in Seq(RunLog)
         /\ alarm \in BOOLEAN /\ deaths \in 0 .. MaxDeaths /\ faults \in 0 .. MaxFaults
         /\ faults > 0 => faults - 1 \in 0 .. MaxFaults
         /\ deaths > 0 => deaths - 1 \in 0 .. MaxDeaths
<1>1. TypeOK /\ MaxFaults \in Nat /\ MaxDeaths \in Nat
  BY BoundsAssumption DEF FetchInv
<1>2. deaths \in 0 .. MaxDeaths /\ faults \in 0 .. MaxFaults
  BY <1>1 DEF TypeOK
<1>3. (faults > 0 => faults - 1 \in 0 .. MaxFaults) /\ (deaths > 0 => deaths - 1 \in 0 .. MaxDeaths)
  BY <1>1, <1>2
<1> QED
  BY <1>1, <1>2, <1>3 DEF TypeOK, RunLog

\* A run that is over, or not begun.
LEMMA OverIs ==
  ASSUME NEW p \in Process
  PROVE  /\ Over \in ProcessState /\ Over.pc = "done" /\ Standing(p, Over)
         /\ [Fresh EXCEPT !.pc = "create", !.window = InWindow] \in ProcessState
         /\ Standing(p, [Fresh EXCEPT !.pc = "create", !.window = InWindow])
<1>1. Fresh \in ProcessState /\ "done" \in PC /\ "create" \in PC
  BY FreshIs DEF PC
<1>2. Over \in ProcessState /\ [Fresh EXCEPT !.pc = "create", !.window = InWindow] \in ProcessState
  BY <1>1 DEF ProcessState, Over, InWindow
<1> QED
  BY <1>1, <1>2, FreshIs DEF Standing, Over, ProcessState

\* The press starts its process, or cannot.
LEMMA LaunchKeeps ==
  ASSUME FetchInv, NEW p \in Press, Launch(p) \/ NotRun(p)
  PROVE  FetchInv'
<1>1. p \in Process
  BY DEF Process
<1>2. CASE Launch(p)
  <2> DEFINE me == process[p]
             new == [me EXCEPT !.pc = "ask", !.left = {me.station}, !.window = InWindow]
  <2>1. /\ me.pc = "launch" /\ process' = [process EXCEPT ![p] = new]
        /\ UNCHANGED <<said, up, asksWhatChanged, aged, settled, chain, lock, log, young, runs, alarm, faults, deaths>>
    BY <1>2 DEF Launch, sourceVars, logVars
  <2>2. me \in ProcessState /\ Standing(p, me)
    BY <1>1, ProcessIs
  <2> HIDE DEF me
  <2>3. me.station \in Station
    BY <2>1, <2>2 DEF Standing
  <2>4. new \in ProcessState /\ Standing(p, new) /\ new.pc = "ask" /\ new.station = me.station
    BY <2>1, <2>2, <2>3 DEF ProcessState, PC, Standing, MineOf, InWindow
  <2> HIDE DEF new
  <2> QED
    BY <1>1, <2>1, <2>4, Typed, QuietMove DEF me
<1>3. CASE NotRun(p)
  <2>1. log' = [log EXCEPT ![p] = "failed"] /\ log' \in [Press -> LogStatus \cup {"none"}]
    BY <1>3, Typed DEF NotRun, LogStatus
  <2>2. /\ young' = young \ {p} /\ process' = [process EXCEPT ![p] = Over]
        /\ faults > 0 /\ faults' = faults - 1
        /\ UNCHANGED <<said, up, asksWhatChanged, aged, settled, chain, lock, runs, alarm, deaths>>
    BY <1>3 DEF NotRun, sourceVars
  <2> QED
    BY <1>1, <2>1, <2>2, OverIs, Typed, QuietMove
<1> QED
  BY <1>2, <1>3

\* Closing, forgetting and marking leave the logs of the runs what they are.
LEMMA RunsStay ==
  ASSUME NEW rs \in Seq(RunLog), NEW new,
         DOMAIN new = DOMAIN rs, new = [i \in DOMAIN rs |-> new[i]],
         \A i \in DOMAIN rs : new[i] \in RunLog
  PROVE  new \in Seq(RunLog)
<1>1. Len(rs) \in Nat /\ DOMAIN rs = 1 .. Len(rs)
  BY LenProperties
<1>2. new \in [1 .. Len(rs) -> RunLog]
  BY <1>1
<1> QED
  BY <1>1, <1>2, SeqDef

\* Places of a sequence that are not none have a first.
LEMMA FirstPlace ==
  ASSUME NEW S, S \subseteq Nat, S # {}
  PROVE  Min(S) \in S
<1> DEFINE R == OpToRel(<, Nat)
<1>1. IsWellFoundedOn(R, Nat)
  BY NatLessThanWellFounded
<1>2. \A x, y \in Nat : <<y, x>> \in R <=> y < x
  BY DEF OpToRel
<1> HIDE DEF R
<1>3. PICK x \in S : \A y \in S : <<y, x>> \notin R
  BY <1>1, WFMin, Zenon
<1>4. ASSUME NEW y \in S PROVE x <= y
  <2>1. x \in Nat /\ y \in Nat /\ ~ (y < x)
    BY <1>2, <1>3
  <2> QED
    BY <2>1
<1> QED
  BY <1>3, <1>4 DEF Min

\* The logs remembered are logs.
LEMMA RememberedTyped ==
  ASSUME NEW rs \in Seq(RunLog)
  PROVE  Remembered(rs) \in Seq(RunLog)
<1> DEFINE ended == {i \in DOMAIN rs : Ended(rs[i])}
<1>1. Len(rs) \in Nat /\ DOMAIN rs = 1 .. Len(rs)
  BY LenProperties
<1>2. CASE ~ (Cardinality(ended) <= AlertAfter)
  <2>1. ended # {}
    <3>1. Cardinality({}) = 0 /\ AlertAfter \in Nat
      BY FS_EmptySet, BoundsAssumption
    <3> HIDE DEF ended
    <3> SUFFICES ASSUME ended = {} PROVE FALSE
      OBVIOUS
    <3>2. Cardinality(ended) = 0
      BY <3>1, Zenon
    <3> QED
      BY <1>2, <3>1, <3>2
  <2>2. ended \subseteq Nat /\ ended \subseteq 1 .. Len(rs)
    BY <1>1
  <2> DEFINE i == Min(ended)
  <2> HIDE DEF ended
  <2>3. i \in 1 .. Len(rs)
    BY <2>1, <2>2, FirstPlace
  <2> HIDE DEF i
  <2>4. \A j \in 1 .. Len(rs) : rs[j] \in RunLog
    BY <1>1, ElementOfSeq
  <2>5. SubSeq(rs, 1, i - 1) \in Seq(RunLog)
    BY <1>1, <2>3, <2>4, SubSeqProperties
  <2>6. SubSeq(rs, i + 1, Len(rs)) \in Seq(RunLog)
    BY <1>1, <2>3, <2>4, SubSeqProperties
  <2>7. Remembered(rs) = SubSeq(rs, 1, i - 1) \o SubSeq(rs, i + 1, Len(rs))
    BY <1>2 DEF Remembered, RemoveAt, i, ended
  <2> QED
    BY <2>5, <2>6, <2>7, ConcatProperties
<1>3. CASE Cardinality(ended) <= AlertAfter
  BY <1>3 DEF Remembered
<1> QED
  BY <1>2, <1>3
\* The schedule starts a sync: what it closes and forgets keeps its form.
LEMMA ReapsKeeps ==
  ASSUME FetchInv, NEW y \in Sync, Reaps(y)
  PROVE  FetchInv'
<1> DEFINE new == [Fresh EXCEPT !.pc = "create", !.window = InWindow]
<1>1. y \in Process /\ y \notin Press
  BY ProcessAssumption DEF Process
<1>2. /\ runs' = [i \in DOMAIN runs |->
           [by |-> Forgotten(y, runs[i]), status |-> Closed(runs[i].status)]]
      /\ log' = [p \in Press |-> IF Orphaned(p) THEN "failed" ELSE log[p]]
      /\ process' = [process EXCEPT ![y] = new]
      /\ alarm' = FALSE
      /\ UNCHANGED <<said, up, asksWhatChanged, aged, settled, chain, lock, young, faults, deaths>>
  BY DEF Reaps, sourceVars
<1>3. runs' \in Seq(RunLog)
  <2>1. \A i \in DOMAIN runs : runs[i] \in RunLog
    BY Typed, LenProperties, ElementOfSeq
  <2>2. \A i \in DOMAIN runs :
          [by |-> Forgotten(y, runs[i]), status |-> Closed(runs[i].status)] \in RunLog
    BY <2>1 DEF RunLog, Forgotten, Closed, LogStatus
  <2> QED
    BY <1>2, <2>2, Typed, RunsStay
<1>4. log' \in [Press -> LogStatus \cup {"none"}]
  BY <1>2, Typed DEF LogStatus
<1>5. new \in ProcessState /\ Standing(y, new) /\ new.pc = "create"
  BY <1>1, OverIs, FreshIs DEF ProcessState
<1>6. y \notin young
  BY <1>1 DEF FetchInv, TypeOK
<1> HIDE DEF new
<1> QED
  BY <1>1, <1>2, <1>3, <1>4, <1>5, <1>6, Typed, QuietMove

\* The sync makes its log and begins with every station to do.
LEMMA CreatesLogKeeps ==
  ASSUME FetchInv, NEW y \in Sync, CreatesLog(y)
  PROVE  FetchInv'
<1> DEFINE me == process[y]
           new == [me EXCEPT !.pc = "ask", !.left = Station]
           run == [by |-> y, status |-> "running"]
<1>1. y \in Process /\ y \notin Press /\ y \notin young
  BY ProcessAssumption DEF Process, FetchInv, TypeOK
<1>2. /\ me.pc = "create"
      /\ runs' = Remembered(Append(runs, run))
      /\ process' = [process EXCEPT ![y] = new]
      /\ UNCHANGED <<said, up, asksWhatChanged, aged, settled, chain, lock, log, young, alarm, faults, deaths>>
  BY DEF CreatesLog, sourceVars
<1>3. runs' \in Seq(RunLog)
  <2>1. run \in RunLog
    BY DEF RunLog, LogStatus
  <2> HIDE DEF run
  <2>2. Append(runs, run) \in Seq(RunLog)
    BY <2>1, Typed, AppendProperties
  <2> QED
    BY <1>2, <2>2, RememberedTyped
<1>4. me \in ProcessState /\ Standing(y, me)
  BY <1>1, ProcessIs
<1> HIDE DEF me
<1>5. new \in ProcessState /\ Standing(y, new) /\ new.pc = "ask"
  BY <1>1, <1>2, <1>4 DEF ProcessState, PC, Standing, MineOf
<1> HIDE DEF new
<1> QED
  BY <1>1, <1>2, <1>3, <1>5, Typed, QuietMove

\* A run that asks for a station of its own, and gets an answer, none or one it
\* cannot read.
LEMMA AsksKeeps ==
  ASSUME FetchInv, NEW p \in Process, NEW s \in Station,
         Asks(p, s) \/ NoAnswer(p, s) \/ Unreadable(p, s)
  PROVE  FetchInv'
<1> DEFINE me == process[p]
<1>1. /\ me.pc = "ask" /\ s \in me.left
      /\ UNCHANGED <<said, up, asksWhatChanged, aged, settled, chain, lock, log, young, runs, alarm, deaths>>
      /\ faults' \in 0 .. MaxFaults
  BY Typed DEF Asks, NoAnswer, Unreadable, sourceVars, logVars
<1>2. me \in ProcessState /\ Standing(p, me)
  BY ProcessIs
<1>3. p \in Press => me.station = s
  BY <1>1, <1>2 DEF Standing, MineOf
<1> SUFFICES ASSUME NEW new \in ProcessState, Standing(p, new), new.pc \in {"ask", "lock"},
                    p \in Press => new.station = me.station,
                    process' = [process EXCEPT ![p] = new]
             PROVE  FetchInv'
  <2>1. ASSUME NEW m \in ProcessState,
               m.left = me.left, m.station = me.station, m.failures = me.failures,
               m.counted = m.wrote,
               \/ /\ m.error = me.error /\ m.answered = me.answered \cup {s}
                  /\ m.heard = (me.heard \/ ~me.error)
               \/ m.error = TRUE /\ m.answered = me.answered /\ m.heard = me.heard,
               process' = [process EXCEPT ![p] = Through(p, m, s)]
        PROVE  \E new \in ProcessState :
                 /\ Standing(p, new) /\ new.pc \in {"ask", "lock"}
                 /\ p \in Press => new.station = me.station
                 /\ process' = [process EXCEPT ![p] = new]
    <3> HIDE DEF me
    <3>1. /\ Through(p, m, s) \in ProcessState /\ Standing(p, Through(p, m, s))
          /\ Through(p, m, s).pc = "ask"
          /\ p \in Press => Through(p, m, s).station = me.station
      BY <1>1, <1>2, <2>1, ThroughStands
    <3> QED
      BY <2>1, <3>1
  <2>2. me.counted = me.wrote
    BY <1>1, <1>2 DEF Standing
  <2>3. CASE Asks(p, s) /\ ~HasAnswer(me, s)
    <3> DEFINE m == Answered(me, s)
    <3>1. process' = [process EXCEPT ![p] = Through(p, m, s)]
      BY <2>3 DEF Asks
    <3>2. /\ m \in ProcessState /\ m.left = me.left /\ m.station = me.station
          /\ m.failures = me.failures /\ m.counted = m.wrote
          /\ m.error = me.error /\ m.answered = me.answered \cup {s}
          /\ m.heard = (me.heard \/ ~me.error)
      BY <1>2, <2>2 DEF ProcessState, Answered
    <3> HIDE DEF m, me
    <3> QED
      BY <2>1, <3>1, <3>2
  <2>4. CASE Asks(p, s) /\ HasAnswer(me, s)
    <3> DEFINE new == [me EXCEPT !.pc = "lock", !.station = s, !.answer = said[s], !.fetched = TRUE]
    <3>1. process' = [process EXCEPT ![p] = new]
      BY <2>4 DEF Asks
    <3>2. said[s] \in 0 .. Versions /\ said[s] # 0
      BY <2>4 DEF FetchInv, TypeOK, HasAnswer
    <3> HIDE DEF me
    <3>3. new \in ProcessState /\ new.pc = "lock" /\ (p \in Press => new.station = me.station)
      BY <1>2, <1>3, <3>2 DEF ProcessState, PC
    <3>4. Standing(p, new)
      BY <1>1, <1>2, <1>3, <3>2, <3>3 DEF Standing, MineOf, ProcessState
    <3> QED
      BY <3>1, <3>3, <3>4
  <2>5. CASE NoAnswer(p, s)
    <3> DEFINE m == [me EXCEPT !.error = TRUE]
    <3>1. process' = [process EXCEPT ![p] = Through(p, m, s)]
      BY <2>5 DEF NoAnswer
    <3>2. /\ m \in ProcessState /\ m.left = me.left /\ m.station = me.station
          /\ m.failures = me.failures /\ m.counted = m.wrote
          /\ m.error = TRUE /\ m.answered = me.answered /\ m.heard = me.heard
      BY <1>2, <2>2 DEF ProcessState
    <3> HIDE DEF m, me
    <3> QED
      BY <2>1, <3>1, <3>2
  <2>6. CASE Unreadable(p, s)
    <3> DEFINE m == [Answered(me, s) EXCEPT !.fetched = TRUE]
    <3>1. process' = [process EXCEPT ![p] = Through(p, m, s)]
      BY <2>6 DEF Unreadable
    <3>2. /\ m \in ProcessState /\ m.left = me.left /\ m.station = me.station
          /\ m.failures = me.failures /\ m.counted = m.wrote
          /\ m.error = me.error /\ m.answered = me.answered \cup {s}
          /\ m.heard = (me.heard \/ ~me.error)
      BY <1>2, <2>2 DEF ProcessState, Answered
    <3> HIDE DEF m, me
    <3> QED
      BY <2>1, <3>1, <3>2
  <2> QED
    BY <2>3, <2>4, <2>5, <2>6
<1>4. p \in young' => p \in Press /\ new.station = process[p].station
  BY <1>1 DEF FetchInv, TypeOK
<1> HIDE DEF me
<1> QED
  BY <1>1, <1>4, Typed, QuietMove
\* Who locks the row sees the chain as it is.
LEMMA LocksKeeps ==
  ASSUME FetchInv, NEW p \in Process, Locks(p)
  PROVE  FetchInv'
<1> DEFINE me == process[p]
           s == me.station
           new == [me EXCEPT !.pc = "write", !.seen = Len(chain[s])]
<1>1. /\ me.pc = "lock" /\ lock[s] = Nobody /\ lock' = [lock EXCEPT ![s] = p]
      /\ process' = [process EXCEPT ![p] = new]
      /\ UNCHANGED <<said, up, asksWhatChanged, aged, settled, chain, log, young, runs, alarm, faults, deaths>>
  BY DEF Locks, sourceVars, logVars
<1>2. TypeOK /\ me \in ProcessState /\ Standing(p, me)
  BY ProcessIs DEF FetchInv
<1>3. s \in Station
  BY <1>1, <1>2 DEF Standing, ProcessState
<1>4. Len(chain[s]) \in Nat
  BY <1>2, <1>3, LenProperties DEF TypeOK
<1> HIDE DEF me
<1>5. /\ new \in ProcessState /\ Standing(p, new) /\ new.pc = "write" /\ new.station = s
      /\ new.seen = Len(chain[s])
  BY <1>1, <1>2, <1>4 DEF ProcessState, PC, Standing, MineOf
<1> HIDE DEF new, s
<1>6. /\ lock' \in [Station -> Process \cup {Nobody}] /\ lock'[s] = p
      /\ \A x \in Station : lock'[x] # lock[x] => lock[x] \in {p, Nobody}
  BY <1>1, <1>2, <1>3 DEF TypeOK
<1>7. process' \in [Process -> ProcessState] /\ StandingInv' /\ LockInv'
  BY <1>1, <1>5, <1>6, OneMoves
<1>8. GoingInv'
  BY <1>1, <1>5, GoesOn DEF me, s
<1>9. TypeOK'
  BY <1>1, <1>2, <1>6, <1>7 DEF TypeOK, ProcessState
<1> QED
  BY <1>1, <1>7, <1>8, <1>9 DEF FetchInv, ChainsSound

\* A row is added to the chain only where it says something else than the row it
\* replaces, which is still the last.
LEMMA WritesKeeps ==
  ASSUME FetchInv, NEW p \in Process, Writes(p)
  PROVE  FetchInv'
<1> DEFINE me == process[p]
           s == me.station
           row == IsNew(me) \/ IsRevision(me)
           rows == IF row THEN 1 ELSE 0
           m == [Answered(me, s) EXCEPT !.staged = TRUE,
                           !.counted = me.counted + rows, !.wrote = me.wrote + rows]
           new == Through(p, m, s)
<1>1. /\ me.pc = "write" /\ lock' = Unlocked(p)
      /\ chain' = IF row THEN [chain EXCEPT ![s] = Append(@, me.answer)] ELSE chain
      /\ process' = [process EXCEPT ![p] = new]
      /\ UNCHANGED <<said, up, asksWhatChanged, aged, settled, log, young, runs, alarm, faults, deaths>>
  BY DEF Writes, sourceVars, logVars
<1>2. TypeOK /\ me \in ProcessState /\ Standing(p, me) /\ Holds(p, me)
  BY ProcessIs DEF FetchInv
<1>3. /\ s \in me.left /\ s \in Station /\ lock[s] = p /\ me.seen = Len(chain[s])
      /\ me.answer \in 1 .. Versions /\ me.counted = me.wrote
  BY <1>1, <1>2, VersionsAssumption DEF Standing, Holds, ProcessState
<1>4. chain[s] \in Seq(1 .. Versions)
  BY <1>2, <1>3 DEF TypeOK
<1> HIDE DEF me, s, row
<1>5. new \in ProcessState /\ Standing(p, new) /\ new.pc = "ask" /\ (p \in Press => new.station = s)
  <2>1. rows \in Nat
    OBVIOUS
  <2> HIDE DEF rows
  <2>2. /\ m.left = me.left /\ m.station = me.station
        /\ m.failures = me.failures /\ m.counted = m.wrote
        /\ m.error = me.error /\ m.answered = me.answered \cup {s}
        /\ m.heard = (me.heard \/ ~me.error)
    BY <1>2, <1>3 DEF ProcessState, Answered
  <2>3. m \in ProcessState
    <3>1. /\ me.answered \cup {s} \in SUBSET Station
          /\ me.counted + rows \in Nat /\ me.wrote + rows \in Nat
      BY <1>2, <1>3, <2>1 DEF ProcessState
    <3> QED
      BY <1>2, <3>1 DEF ProcessState, Answered
  <2> HIDE DEF m
  <2> QED
    BY <1>1, <1>2, <1>3, <2>2, <2>3, ThroughStands DEF s
<1> HIDE DEF new
<1>6. /\ lock' \in [Station -> Process \cup {Nobody}]
      /\ \A x \in Station : lock'[x] # lock[x] => lock[x] \in {p, Nobody}
  BY <1>1, <1>2, UnlockedIs
<1>7. /\ chain' \in [Station -> Seq(1 .. Versions)]
      /\ \A x \in Station : chain'[x] # chain[x] => x = s /\ row
      /\ row => chain'[s] = Append(chain[s], me.answer)
  <2>1. Append(chain[s], me.answer) \in Seq(1 .. Versions)
    BY <1>3, <1>4, AppendProperties
  <2> QED
    BY <1>1, <1>2, <1>3, <2>1 DEF TypeOK
<1>8. process' \in [Process -> ProcessState] /\ StandingInv' /\ LockInv'
  BY <1>1, <1>3, <1>5, <1>6, <1>7, OneMoves
<1>9. GoingInv'
  <2>1. p \in young' => p \in Press
    BY <1>1, <1>2 DEF TypeOK
  <2> QED
    BY <1>1, <1>5, <2>1, GoesOn DEF s, me
<1>10. TypeOK'
  BY <1>1, <1>2, <1>6, <1>7, <1>8 DEF TypeOK, ProcessState
<1>11. ChainsSound'
  <2> SUFFICES ASSUME NEW x \in Station, NEW i \in 2 .. Len(chain'[x])
               PROVE  Value(chain'[x][i]) \notin {0, Value(chain'[x][i - 1])}
    BY DEF ChainsSound
  <2>1. CASE chain'[x] = chain[x]
    BY <2>1 DEF FetchInv, ChainsSound
  <2>2. CASE chain'[x] # chain[x]
    <3>1. x = s /\ row /\ chain'[x] = Append(chain[s], me.answer)
      BY <1>7, <2>2
    <3>2. /\ Len(chain[s]) \in Nat /\ Len(chain'[x]) = Len(chain[s]) + 1
          /\ \A j \in 1 .. Len(chain[s]) : chain'[x][j] = chain[s][j]
          /\ chain'[x][Len(chain[s]) + 1] = me.answer
      BY <1>3, <1>4, <3>1, AppendProperties, LenProperties
    <3>3. CASE i \in 2 .. Len(chain[s])
      <4>1. chain'[x][i] = chain[s][i] /\ chain'[x][i - 1] = chain[s][i - 1]
        BY <3>2, <3>3
      <4> QED
        BY <1>3, <3>3, <4>1 DEF FetchInv, ChainsSound
    <3>4. CASE i = Len(chain[s]) + 1
      <4>1. Len(chain[s]) > 0 /\ i - 1 = me.seen
        BY <1>3, <3>2, <3>4
      <4>2. IsRevision(me)
        BY <1>3, <3>1, <4>1 DEF IsNew, row
      <4>3. chain'[x][i] = me.answer /\ chain'[x][i - 1] = chain[s][me.seen]
        BY <1>3, <3>2, <3>4, <4>1
      <4> QED
        BY <4>2, <4>3 DEF IsRevision, s
    <3> QED
      BY <3>2, <3>3, <3>4
  <2> QED
    BY <2>1, <2>2
<1> QED
  BY <1>8, <1>9, <1>10, <1>11 DEF FetchInv

\* What is rolled back leaves the run with an error.
LEMMA WriteFailsKeeps ==
  ASSUME FetchInv, NEW p \in Process, WriteFails(p)
  PROVE  FetchInv'
<1> DEFINE me == process[p]
           m == [me EXCEPT !.error = TRUE]
           new == Through(p, m, me.station)
<1>1. /\ me.pc = "write" /\ lock' = Unlocked(p)
      /\ process' = [process EXCEPT ![p] = new]
      /\ faults > 0 /\ faults' = faults - 1
      /\ UNCHANGED <<said, up, asksWhatChanged, aged, settled, chain, log, young, runs, alarm, deaths>>
  BY DEF WriteFails, sourceVars, logVars
<1>2. me \in ProcessState /\ Standing(p, me)
  BY ProcessIs
<1>3. p \in young' => p \in Press
  BY <1>1 DEF FetchInv, TypeOK
<1> HIDE DEF me
<1>4. new \in ProcessState /\ Standing(p, new) /\ new.pc = "ask"
      /\ (p \in Press => new.station = me.station)
  <2>1. me.station \in me.left /\ me.counted = me.wrote
    BY <1>1, <1>2 DEF Standing
  <2>2. /\ m \in ProcessState /\ m.left = me.left /\ m.station = me.station
        /\ m.failures = me.failures /\ m.counted = m.wrote
        /\ m.error = TRUE /\ m.answered = me.answered /\ m.heard = me.heard
    BY <1>2, <2>1 DEF ProcessState
  <2> HIDE DEF m
  <2>3. me \in ProcessState /\ Standing(p, me) /\ me.pc \in {"ask", "lock", "write"}
    BY <1>1, <1>2
  <2> HIDE DEF me
  <2>4. ASSUME NEW s \in me.left, s = me.station
        PROVE  /\ Through(p, m, s) \in ProcessState /\ Standing(p, Through(p, m, s))
               /\ Through(p, m, s).pc = "ask"
               /\ p \in Press => Through(p, m, s).station = me.station
    BY <2>2, <2>3, ThroughStands
  <2> QED
    BY <2>1, <2>4
<1> HIDE DEF new
<1> QED
  BY <1>1, <1>3, <1>4, Typed, QuietMove DEF me

\* A run that ends.
LEMMA FinishesKeeps ==
  ASSUME FetchInv, NEW p \in Process,
         \/ p \in Press /\ PressFinishes(p)
         \/ p \in Sync /\ (SyncFinishes(p) \/ CountsFailures(p))
  PROVE  FetchInv'
<1>1. p \in young => p \in Press
  BY DEF FetchInv, TypeOK
<1>2. FinalStatus(p) \in LogStatus
  BY DEF FinalStatus, LogStatus
<1>3. CASE p \in Press /\ PressFinishes(p)
  <2>1. /\ log' = [log EXCEPT ![p] = FinalStatus(p)] /\ young' = young \ {p}
        /\ process' = [process EXCEPT ![p] = Over]
        /\ UNCHANGED <<said, up, asksWhatChanged, aged, settled, chain, lock, runs, alarm, faults, deaths>>
    BY <1>3 DEF PressFinishes, sourceVars
  <2>2. log' \in [Press -> LogStatus \cup {"none"}]
    BY <1>2, <2>1, Typed
  <2> QED
    BY <2>1, <2>2, OverIs, Typed, QuietMove
<1>4. CASE p \in Sync /\ SyncFinishes(p)
  <2> DEFINE new == [Fresh EXCEPT !.pc = "count", !.failures = process[p].failures]
  <2>1. /\ runs' = [i \in DOMAIN runs |->
             IF runs[i].by = p THEN [runs[i] EXCEPT !.status = FinalStatus(p)] ELSE runs[i]]
        /\ process' = [process EXCEPT ![p] = new]
        /\ UNCHANGED <<said, up, asksWhatChanged, aged, settled, chain, lock, log, young, alarm, faults, deaths>>
    BY <1>4 DEF SyncFinishes, sourceVars
  <2>2. runs' \in Seq(RunLog)
    <3>1. \A i \in DOMAIN runs : runs[i] \in RunLog
      BY Typed, LenProperties, ElementOfSeq
    <3>2. \A i \in DOMAIN runs :
            (IF runs[i].by = p THEN [runs[i] EXCEPT !.status = FinalStatus(p)] ELSE runs[i]) \in RunLog
      BY <1>2, <3>1 DEF RunLog
    <3> QED
      BY <2>1, <3>2, Typed, RunsStay
  <2>3. Fresh \in ProcessState /\ process[p].failures \in Nat /\ "count" \in PC
    BY FreshIs, ProcessIs DEF ProcessState, PC
  <2>4. new \in ProcessState /\ new.pc = "count"
    BY <2>3 DEF ProcessState
  <2>5. Standing(p, new)
    BY <2>4 DEF Standing
  <2>6. p \notin young
    BY <1>1, <1>4, ProcessAssumption
  <2> HIDE DEF new
  <2> QED
    BY <2>1, <2>2, <2>4, <2>5, <2>6, Typed, QuietMove
<1>5. CASE p \in Sync /\ CountsFailures(p)
  <2>1. /\ alarm' \in BOOLEAN /\ process' = [process EXCEPT ![p] = Over]
        /\ UNCHANGED <<said, up, asksWhatChanged, aged, settled, chain, lock, log, young, runs, faults, deaths>>
    BY <1>5 DEF CountsFailures, sourceVars, logVars
  <2>2. p \notin young
    BY <1>1, <1>5, ProcessAssumption
  <2> QED
    BY <2>1, <2>2, OverIs, Typed, QuietMove
<1> QED
  BY <1>3, <1>4, <1>5

\* A process that dies lets go of its rows and leaves its log as it is.
LEMMA DiesKeeps ==
  ASSUME FetchInv, NEW p \in Process, Dies(p)
  PROVE  FetchInv'
<1> DEFINE new == [Fresh EXCEPT !.pc = "dead", !.station = process[p].station]
<1>1. /\ lock' = Unlocked(p) /\ process' = [process EXCEPT ![p] = new]
      /\ deaths > 0 /\ deaths' = deaths - 1
      /\ UNCHANGED <<said, up, asksWhatChanged, aged, settled, chain, log, young, runs, alarm, faults>>
  BY DEF Dies, sourceVars, logVars
<1>2. Fresh \in ProcessState /\ process[p].station \in Station \cup {NoStation} /\ "dead" \in PC
  BY FreshIs, ProcessIs DEF ProcessState, PC
<1>3. new \in ProcessState /\ new.pc = "dead" /\ new.station = process[p].station
  BY <1>2 DEF ProcessState
<1>4. Standing(p, new)
  BY <1>3 DEF Standing
<1> HIDE DEF new
<1> QED
  BY <1>1, <1>3, <1>4, Typed, QuietMove
-----------------------------------------------------------------------------
(* The theorems *)

\* Every step keeps the invariant.
LEMMA FetchStep == FetchInv /\ [Next]_vars => FetchInv'
<1> SUFFICES ASSUME FetchInv, [Next]_vars PROVE FetchInv'
  OBVIOUS
<1>1. CASE UNCHANGED vars \/ \E p \in Press : TenMinutes(p)
  BY <1>1, SourceKeeps
<1>2. CASE Environment
  BY <1>2, SourceKeeps, PressLooksKeeps, LaunchKeeps, AsksKeeps, WriteFailsKeeps, DiesKeeps
     DEF Environment
<1>3. ASSUME NEW p \in Process, Step(p) PROVE FetchInv'
  BY <1>3, AsksKeeps, LocksKeeps, WritesKeeps, PressCreatesKeeps, LaunchKeeps, FinishesKeeps,
     ReapsKeeps, CreatesLogKeeps DEF Step
<1> QED
  BY <1>1, <1>2, <1>3 DEF Next

\* At first nothing is fetched.
LEMMA FetchInit == Init => FetchInv
<1> SUFFICES ASSUME Init PROVE FetchInv
  OBVIOUS
<1>1. /\ Fresh \in ProcessState /\ Fresh.pc = "idle"
      /\ 0 \in 0 .. Versions /\ MaxFaults \in 0 .. MaxFaults /\ MaxDeaths \in 0 .. MaxDeaths
  BY FreshIs, VersionsAssumption, BoundsAssumption DEF Fresh
<1>2. chain \in [Station -> Seq(1 .. Versions)] /\ runs \in Seq(RunLog)
  BY EmptySeq DEF Init
<1>3. process \in [Process -> ProcessState] /\ \A p \in Process : process[p] = Fresh
  BY <1>1 DEF Init
<1>4. TypeOK
  BY <1>1, <1>2, <1>3 DEF Init, TypeOK, ProcessState, RunLog
<1>5. StandingInv /\ LockInv
  BY <1>1, <1>3 DEF StandingInv, Standing, LockInv, Holds
<1>6. GoingInv
  BY <1>1, <1>3 DEF Init, GoingInv, Process
<1>7. ChainsSound
  <2>1. \A s \in Station : Len(chain[s]) = 0
    BY EmptySeq DEF Init
  <2> QED
    BY <2>1 DEF ChainsSound
<1> QED
  BY <1>4, <1>5, <1>6, <1>7 DEF FetchInv

\* What holds of the fetching throughout.
LEMMA FetchAlways == Spec => []FetchInv
BY FetchInit, FetchStep, PTL DEF Spec

\* The variables have their types.
THEOREM TypeCorrect == Spec => []TypeOK
<1>1. FetchInv => TypeOK
  BY DEF FetchInv
<1> QED
  BY <1>1, FetchAlways, PTL

\* However many processes fetch a station at once, the row a transaction replaces is
\* still the current one, and a row replaces only one that said something else,
\* never with a blank (datasync/revisions.py record_readings).
THEOREM RevisingIsSound == Spec => []RevisionsSound
<1>1. FetchInv => RevisionsSound
  BY DEF FetchInv, LockInv, Holds, RevisionsSound, ReadStillStands, IndexAdmits
<1> QED
  BY <1>1, FetchAlways, PTL

\* A station has one running log inside the limit, however many press "Update
\* readings now" (datasync/fetch_now.py start_fetch).
OneFetchGoes == \A s \in Station : \A p, q \in Press : Going(p, s) /\ Going(q, s) => p = q

\* A press never starts a fetch beside a running one of the same station.
THEOREM OneFetchAtATime == Spec => []OneFetchGoes
<1>1. FetchInv => OneFetchGoes
  BY DEF FetchInv, GoingInv, OneFetchGoes, Going
<1> QED
  BY <1>1, FetchAlways, PTL

\* A run that ends does so in its own last step.
LEMMA EndsItself ==
  ASSUME FetchInv, Next, NEW p \in Process, Finishes(p)
  PROVE  \/ p \in Press /\ PressFinishes(p)
         \/ p \in Sync /\ SyncFinishes(p)
<1>1. process \in [Process -> ProcessState] /\ process[p].pc = "ask" /\ process'[p].pc \in {"count", "done"}
  BY DEF FetchInv, TypeOK, ProcessState, Finishes
<1>2. process' # process
  BY <1>1
<1>3. ASSUME NEW q \in Process, NEW new, process' = [process EXCEPT ![q] = new]
      PROVE  q = p /\ process'[p] = new
  BY <1>1, <1>3
<1>4. ASSUME NEW q \in Process, NEW s \in Station, Asks(q, s) \/ NoAnswer(q, s) \/ Unreadable(q, s)
      PROVE  FALSE
  <2>1. /\ process[q] \in ProcessState
        /\ \A m \in ProcessState : Through(q, m, s).pc = "ask"
    BY ProcessIs DEF Through, ProcessState
  <2>2. PICK new : process' = [process EXCEPT ![q] = new] /\ new.pc \in {"ask", "lock"}
    <3> DEFINE me == process[q]
    <3>1. [me EXCEPT !.pc = "lock", !.station = s, !.answer = said[s], !.fetched = TRUE].pc = "lock"
      BY <2>1 DEF ProcessState
    <3>2. /\ Answered(me, s) \in ProcessState
          /\ [me EXCEPT !.error = TRUE] \in ProcessState
          /\ [Answered(me, s) EXCEPT !.fetched = TRUE] \in ProcessState
      BY <2>1 DEF ProcessState, Answered
    <3> QED
      BY <1>4, <2>1, <3>1, <3>2 DEF Asks, NoAnswer, Unreadable
  <2> QED
    BY <1>1, <1>3, <2>2
<1>5. ASSUME NEW q \in Process, Dies(q) PROVE FALSE
  <2> DEFINE new == [Fresh EXCEPT !.pc = "dead", !.station = process[q].station]
  <2>1. new.pc = "dead"
    BY FreshIs DEF ProcessState
  <2>2. process' = [process EXCEPT ![q] = new]
    BY <1>5 DEF Dies
  <2> HIDE DEF new
  <2> QED
    BY <1>1, <1>3, <2>1, <2>2
<1>6. ASSUME NEW q \in Process, NEW new, process' = [process EXCEPT ![q] = new], process[q].pc # "ask"
      PROVE  FALSE
  BY <1>1, <1>3, <1>6
<1>7. \A q \in Press, s \in Station : ~ PressLooks(q, s)
  BY <1>6 DEF PressLooks, Process
<1>8. \A q \in Press : ~ NotRun(q) /\ ~ PressCreates(q) /\ ~ Launch(q)
  BY <1>6 DEF NotRun, PressCreates, Launch, Process
<1>9. \A q \in Process : ~ WriteFails(q) /\ ~ Locks(q) /\ ~ Writes(q)
  BY <1>6 DEF WriteFails, Locks, Writes
<1>10. \A q \in Sync : ~ Reaps(q) /\ ~ CreatesLog(q) /\ ~ CountsFailures(q)
  BY <1>6 DEF Reaps, CreatesLog, CountsFailures, Process
<1>11. /\ \A s \in Station : ~ Revise(s) /\ ~ Ages(s) /\ ~ Settles(s)
       /\ ~ GoesDown /\ ~ ComesUp /\ \A q \in Press : ~ TenMinutes(q)
  BY <1>2 DEF Revise, Ages, Settles, GoesDown, ComesUp, TenMinutes
<1>12. ~ Environment
  BY <1>4, <1>5, <1>7, <1>8, <1>9, <1>11 DEF Environment
<1>13. PICK q \in Process : \/ q \in Press /\ PressFinishes(q)
                            \/ q \in Sync /\ SyncFinishes(q)
  BY <1>4, <1>8, <1>9, <1>10, <1>11, <1>12 DEF Next, Step
<1>14. q = p
  BY <1>3, <1>13 DEF PressFinishes, SyncFinishes
<1> QED
  BY <1>13, <1>14

\* A run's log tells what the run did, whatever closed it before: "success" when every
\* station answered and something of what came could be read, "failed" when none
\* answered before the first that failed, "partial" otherwise, and the readings it
\* counts are the rows it committed (sync_source.py _finalize_sync_log,
\* _sync_stations).
THEOREM LogsTell == Spec => LogTellsWhatHappened
<1>1. ASSUME FetchInv, Next, NEW p \in Process, Finishes(p)
      PROVE  LET me == process[p]
                 unread == me.fetched /\ ~me.staged
             IN /\ me.counted = me.wrote
                /\ \A told \in StatusSaved(p) :
                     /\ told \in {"success", "partial", "failed"}
                     /\ told = "success" <=> me.answered = Mine(p) /\ ~unread
                     /\ told = "failed" <=> ~me.heard
                     /\ p \in Press /\ told = "failed" => me.answered = {}
  <2> DEFINE me == process[p]
             unread == me.fetched /\ ~me.staged
             told == FinalStatus(p)
  <2>1. me \in ProcessState /\ Standing(p, me) /\ me.pc = "ask" /\ me.left = {}
    BY <1>1, ProcessIs, EndsItself DEF PressFinishes, SyncFinishes
  <2>2. Mine(p) = MineOf(p, me)
    BY DEF Mine, MineOf
  <2>3. Mine(p) # {} /\ Cardinality(Mine(p)) \in Nat \ {0} /\ Cardinality({}) = 0
    <3>1. IsFiniteSet(Mine(p)) /\ Mine(p) # {}
      BY StationAssumption, FS_Singleton DEF Mine
    <3> QED
      BY <3>1, FS_EmptySet, FS_CardinalityType
  <2>4. me.failures \in Nat /\ me.heard \in BOOLEAN /\ me.error \in BOOLEAN
    BY <2>1 DEF ProcessState
  <2>5. /\ me.counted = me.wrote /\ me.answered \subseteq Mine(p)
        /\ me.error => /\ me.failures > 0 /\ me.answered # Mine(p)
                       /\ me.failures = Cardinality(Mine(p)) <=> ~me.heard
        /\ ~me.error => me.failures = 0 /\ me.answered = Mine(p) /\ me.heard
    <3> HIDE DEF me
    <3>1. /\ me.error => me.failures + Cardinality(me.left) = Cardinality(Mine(p)) <=> ~me.heard
          /\ me.error => me.failures > 0 /\ me.left \cup me.answered # Mine(p)
          /\ ~me.error => /\ me.failures = 0 /\ me.left \cup me.answered = Mine(p)
                          /\ me.heard <=> me.answered # {}
          /\ me.counted = me.wrote /\ me.left \cup me.answered \subseteq Mine(p)
      BY <2>1, <2>2 DEF Standing
    <3>2. me.failures + Cardinality(me.left) = me.failures
      BY <2>1, <2>3, <2>4
    <3> QED
      BY <2>1, <2>3, <3>1, <3>2
  <2>6. told = IF me.failures = Cardinality(Mine(p)) THEN "failed"
               ELSE IF me.failures > 0 \/ unread THEN "partial" ELSE "success"
    BY DEF FinalStatus
  <2>7. /\ told \in {"success", "partial", "failed"}
        /\ told = "success" <=> me.answered = Mine(p) /\ ~unread
        /\ told = "failed" <=> ~me.heard
    <3> HIDE DEF me, told, unread
    <3> QED
      BY <2>3, <2>4, <2>5, <2>6
  <2>8. p \in Press /\ told = "failed" => me.answered = {}
    <3>1. p \in Press => Mine(p) = {me.station}
      BY DEF Mine
    <3> HIDE DEF me, told, unread
    <3> QED
      BY <2>5, <2>7, <3>1
  <2>9. \A saved \in StatusSaved(p) : saved = told
    <3>1. CASE p \in Press /\ PressFinishes(p)
      BY <1>1, <3>1, Typed DEF PressFinishes, StatusSaved
    <3>2. CASE p \in Sync /\ SyncFinishes(p)
      <4>1. runs' = [i \in DOMAIN runs |->
               IF runs[i].by = p THEN [runs[i] EXCEPT !.status = FinalStatus(p)] ELSE runs[i]]
        BY <3>2 DEF SyncFinishes
      <4>2. \A i \in DOMAIN runs : runs[i] \in RunLog
        BY <1>1, Typed, LenProperties, ElementOfSeq
      <4>3. ASSUME NEW i \in DOMAIN runs', runs'[i].by = p PROVE runs'[i].status = FinalStatus(p)
        BY <4>1, <4>2, <4>3 DEF RunLog
      <4>4. p \notin Press
        BY <3>2, ProcessAssumption
      <4> QED
        BY <4>3, <4>4 DEF StatusSaved
    <3> QED
      BY <1>1, <3>1, <3>2, EndsItself
  <2> HIDE DEF told
  <2> QED
    BY <2>5, <2>7, <2>8, <2>9
<1>2. FetchInv /\ [Next]_vars =>
        [\A p \in Process : Finishes(p) =>
           LET me == process[p]
               unread == me.fetched /\ ~me.staged
           IN /\ me.counted = me.wrote
              /\ \A told \in StatusSaved(p) :
                   /\ told \in {"success", "partial", "failed"}
                   /\ told = "success" <=> me.answered = Mine(p) /\ ~unread
                   /\ told = "failed" <=> ~me.heard
                   /\ p \in Press /\ told = "failed" => me.answered = {}]_vars
  BY <1>1
<1> QED
  BY <1>2, FetchAlways, PTL DEF Spec, LogTellsWhatHappened

-----------------------------------------------------------------------------
(* The inductive invariant *)

SessionRecord == [pc : SessionPC, upload : Upload \cup {NoUpload}]
WorkerRecord == [pc : WorkerPC, upload : Upload \cup {NoUpload},
                 fresh : BOOLEAN, outcome : Result]
Sessions == [Session -> SessionRecord]
Workers == [Worker -> WorkerRecord]

\* What is done with an upload is done after its row was there.
RefersInv ==
  /\ \A s \in Session : session[s].pc # "idle" =>
       session[s].upload \in Upload /\ status[session[s].upload] # "none"
  /\ \A w \in Worker : worker[w].pc # "off" =>
       worker[w].upload \in Upload /\ status[worker[w].upload] # "none"
  /\ \A u \in expired : status[u] # "none"

\* A worker that has come to its end knows how it ended, and so does the row.
Outcome == {"saved", "nothing"}
OutcomeInv ==
  /\ \A w \in Worker : worker[w].pc \in {"delete", "save"} => worker[w].outcome \in Outcome
  /\ \A u \in Upload : status[u] \in {"finished", "failed"} => result[u] \in Outcome

\* The file goes before the row tells the end, and never comes back.
FileInv ==
  /\ \A w \in Worker : At(w, "save") => ~file[worker[w].upload]
  /\ \A u \in Upload : status[u] \in {"finished", "failed", "gone"} => ~file[u]

\* A worker that saved something, or found everything on file, leaves it written.
WrittenInv ==
  /\ \A w \in Worker :
       \/ worker[w].pc = "write" /\ ~worker[w].fresh
       \/ worker[w].pc = "after"
       \/ worker[w].pc \in {"delete", "save"} /\ worker[w].outcome = "saved"
       => written[worker[w].upload] > 0
  /\ \A u \in Upload : result[u] = "saved" \/ page[u] = "saved" => written[u] > 0

Inv == ImportTypeOK /\ RefersInv /\ OutcomeInv /\ FileInv /\ WrittenInv

-----------------------------------------------------------------------------
(* Types *)

\* One worker's record is replaced by another.
LEMMA WorkerType ==
  ASSUME worker \in Workers, NEW w, NEW x \in WorkerRecord
  PROVE  [worker EXCEPT ![w] = x] \in Workers
BY DEF Workers

\* A worker goes on to another place.
LEMMA GoesType ==
  ASSUME worker \in Workers, NEW w \in Worker, NEW pc \in WorkerPC, Goes(w, pc)
  PROVE  worker' \in Workers
<1>1. worker[w] \in WorkerRecord
  BY DEF Workers
<1>2. [worker[w] EXCEPT !.pc = pc] \in WorkerRecord
  BY <1>1 DEF WorkerRecord
<1> QED
  BY <1>2, WorkerType DEF Goes

\* A worker ends.
LEMMA EndsType ==
  ASSUME worker \in Workers, NEW w \in Worker, Ends(w)
  PROVE  worker' \in Workers
<1>1. Off \in WorkerRecord
  BY DEF Off, WorkerRecord, WorkerPC, Result
<1> QED
  BY <1>1, WorkerType DEF Ends

\* Every step keeps the types.
LEMMA TypeStep ==
  ASSUME Inv, [ImportNext]_importVars
  PROVE  ImportTypeOK'
<1> USE DEF Inv, ImportTypeOK, Sessions, Workers, SessionRecord, WorkerRecord
<1>1. ASSUME NEW u \in Upload, Preview(u) PROVE ImportTypeOK'
  <2>1. status' \in [Upload -> Status]
    BY <1>1 DEF Preview, FilesKept, RowsKept, Status
  <2>2. file' \in [Upload -> BOOLEAN]
    BY <1>1 DEF Preview, FilesKept, RowsKept
  <2>3. page' \in [Upload -> Page]
    BY <1>1 DEF Preview, FilesKept, RowsKept, Page, OutcomeInv, Outcome
  <2> QED
    BY <1>1, <2>1, <2>2, <2>3 DEF Preview
<1>2. ASSUME NEW u \in Upload, PreviewDies(u) PROVE ImportTypeOK'
  <2>1. status' \in [Upload -> Status]
    BY <1>2 DEF PreviewDies, FilesKept, RowsKept, Status
  <2>2. file' \in [Upload -> BOOLEAN]
    BY <1>2 DEF PreviewDies, FilesKept, RowsKept
  <2>3. crashes' \in 0 .. MaxCrashes
    BY <1>2, ErrorBounds DEF PreviewDies
  <2> QED
    BY <1>2, <2>1, <2>2, <2>3 DEF PreviewDies
<1>3. ASSUME NEW u \in Upload, Poll(u) PROVE ImportTypeOK'
  <2>1. status' \in [Upload -> Status]
    BY <1>3 DEF Poll, Found, Live, Status
  <2>2. page' \in [Upload -> Page]
    BY <1>3 DEF Poll, Found, Live, Page, OutcomeInv, Outcome
  <2> QED
    BY <1>3, <2>1, <2>2 DEF Poll
<1>4. ASSUME NEW u \in Upload, Expires(u) PROVE ImportTypeOK'
  <2>1. expired' \subseteq Upload
    BY <1>4 DEF Expires, Live
  <2> QED
    BY <1>4, <2>1 DEF Expires, rowVars
<1>5. ASSUME NEW s \in Session, NEW u \in Upload, PressImport(s, u) PROVE ImportTypeOK'
  <2>1. page' \in [Upload -> Page]
    BY <1>5 DEF PressImport, Found, Live, Idle, Page, OutcomeInv, Outcome
  <2>2. session' \in Sessions
    BY <1>5 DEF PressImport, Found, Live, Idle, SessionPC
  <2> QED
    BY <1>5, <2>1, <2>2 DEF PressImport, rowVars
<1>6. ASSUME NEW s \in Session, MarkWaiting(s) PROVE ImportTypeOK'
  <2>1. status' \in [Upload -> Status]
    BY <1>6 DEF MarkWaiting, rowVars, RefersInv, Idle, Saves, Live, Status
  <2>2. result' \in [Upload -> Result]
    BY <1>6 DEF MarkWaiting, rowVars, RefersInv, Idle, Saves, Live, Result, OutcomeInv, Outcome
  <2>3. session' \in Sessions
    BY <1>6 DEF MarkWaiting, Saves, Live, Idle, SessionPC
  <2> QED
    BY <1>6, <2>1, <2>2, <2>3 DEF MarkWaiting, rowVars
<1>7. ASSUME NEW s \in Session, LaunchFails(s) PROVE ImportTypeOK'
  <2>1. status' \in [Upload -> Status]
    BY <1>7 DEF LaunchFails, rowVars, RefersInv, Idle, Saves, Live, Status
  <2>2. result' \in [Upload -> Result]
    BY <1>7 DEF LaunchFails, rowVars, RefersInv, Idle, Saves, Live, Result, OutcomeInv, Outcome
  <2>3. file' \in [Upload -> BOOLEAN]
    BY <1>7 DEF LaunchFails, Saves, Live, Idle
  <2>4. session' \in Sessions
    BY <1>7 DEF LaunchFails, Saves, Live, Idle, SessionPC
  <2>5. errors' \in 0 .. MaxErrors
    BY <1>7, ErrorBounds DEF LaunchFails
  <2> QED
    BY <1>7, <2>1, <2>2, <2>3, <2>4, <2>5 DEF LaunchFails, rowVars
<1>8. ASSUME NEW s \in Session, PressDies(s) PROVE ImportTypeOK'
  <2>1. session' \in Sessions
    BY <1>8 DEF PressDies, Idle, SessionPC
  <2>2. crashes' \in 0 .. MaxCrashes
    BY <1>8, ErrorBounds DEF PressDies
  <2> QED
    BY <1>8, <2>1, <2>2 DEF PressDies, rowVars
<1>9. ASSUME NEW s \in Session, NEW w \in Worker, LaunchImport(s, w) PROVE ImportTypeOK'
  <2>1. session' \in Sessions
    BY <1>9 DEF LaunchImport, Idle, SessionPC
  <2>2. worker' \in Workers
    BY <1>9, WorkerType DEF LaunchImport, Off, WorkerPC, Result
  <2> QED
    BY <1>9, <2>1, <2>2 DEF LaunchImport, rowVars
<1>10. ASSUME NEW w \in Worker, Look(w) PROVE ImportTypeOK'
  <2>1. worker' \in Workers
    BY <1>10, GoesType, EndsType DEF Look, WorkerPC
  <2> QED
    BY <1>10, <2>1 DEF Look, rowVars
<1>11. ASSUME NEW w \in Worker, MarkRunning(w) PROVE ImportTypeOK'
  <2>1. status' \in [Upload -> Status]
    BY <1>11 DEF MarkRunning, rowVars, RefersInv, At, Saves, Live, Status
  <2>2. result' \in [Upload -> Result]
    BY <1>11 DEF MarkRunning, rowVars, RefersInv, At, Saves, Live, Result, OutcomeInv, Outcome
  <2>3. worker' \in Workers
    BY <1>11, GoesType, EndsType DEF MarkRunning, WorkerPC
  <2> QED
    BY <1>11, <2>1, <2>2, <2>3 DEF MarkRunning, rowVars
<1>12. ASSUME NEW w \in Worker, Plan(w) PROVE ImportTypeOK'
  <2>1. [worker[w] EXCEPT !.pc = "write", !.fresh = written[worker[w].upload] = 0] \in WorkerRecord
    BY DEF WorkerPC
  <2>2. [worker[w] EXCEPT !.pc = "delete", !.outcome = "nothing"] \in WorkerRecord
    BY DEF WorkerPC, Result
  <2>3. worker' \in Workers
    BY <1>12, <2>1, <2>2, WorkerType DEF Plan
  <2> QED
    BY <1>12, <2>3 DEF Plan, rowVars
<1>13. ASSUME NEW w \in Worker, Write(w) PROVE ImportTypeOK'
  <2>1. \A n \in Nat : n + (IF worker[w].fresh THEN 1 ELSE 0) \in Nat
    OBVIOUS
  <2>2. written' \in [Upload -> Nat]
    BY <1>13, <2>1 DEF Write
  <2>3. worker' \in Workers
    BY <1>13, GoesType DEF Write, WorkerPC
  <2> QED
    BY <1>13, <2>2, <2>3 DEF Write, rowVars
<1>14. ASSUME NEW w \in Worker, Done(w) PROVE ImportTypeOK'
  <2>1. [worker[w] EXCEPT !.pc = "delete", !.outcome = "saved"] \in WorkerRecord
    BY DEF WorkerPC, Result
  <2>2. worker' \in Workers
    BY <1>14, <2>1, WorkerType DEF Done
  <2> QED
    BY <1>14, <2>2 DEF Done, rowVars
<1>15. ASSUME NEW w \in Worker, Raises(w) PROVE ImportTypeOK'
  <2>1. [worker[w] EXCEPT !.pc = "delete", !.outcome = "nothing"] \in WorkerRecord
    BY DEF WorkerPC, Result
  <2>2. worker' \in Workers
    BY <1>15, <2>1, WorkerType DEF Raises
  <2>3. raised' \subseteq Upload
    BY <1>15 DEF Raises, RefersInv, At
  <2>4. errors' \in 0 .. MaxErrors
    BY <1>15, ErrorBounds DEF Raises
  <2> QED
    BY <1>15, <2>2, <2>3, <2>4 DEF Raises, rowVars
<1>16. ASSUME NEW w \in Worker, DeleteFile(w) PROVE ImportTypeOK'
  <2>1. file' \in [Upload -> BOOLEAN]
    BY <1>16 DEF DeleteFile
  <2>2. worker' \in Workers
    BY <1>16, GoesType DEF DeleteFile, WorkerPC
  <2> QED
    BY <1>16, <2>1, <2>2 DEF DeleteFile, rowVars
<1>17. ASSUME NEW w \in Worker, SaveResult(w) PROVE ImportTypeOK'
  <2>1. status' \in [Upload -> Status]
    BY <1>17 DEF SaveResult, rowVars, RefersInv, At, Saves, Live, Status
  <2>2. result' \in [Upload -> Result]
    BY <1>17 DEF SaveResult, rowVars, RefersInv, At, Saves, Live, Result, OutcomeInv, Outcome
  <2>3. worker' \in Workers
    BY <1>17, EndsType DEF SaveResult
  <2> QED
    BY <1>17, <2>1, <2>2, <2>3 DEF SaveResult, rowVars
<1>18. ASSUME NEW w \in Worker, WorkerDies(w) PROVE ImportTypeOK'
  <2>1. worker' \in Workers
    BY <1>18, EndsType DEF WorkerDies
  <2>2. crashes' \in 0 .. MaxCrashes
    BY <1>18, ErrorBounds DEF WorkerDies
  <2> QED
    BY <1>18, <2>1, <2>2 DEF WorkerDies, rowVars
<1>19. CASE Purge
  <2>1. status' \in [Upload -> Status]
    BY <1>19 DEF Purge, FilesKept, RowsKept, Status, Live
  <2>2. file' \in [Upload -> BOOLEAN]
    BY <1>19 DEF Purge, FilesKept, RowsKept
  <2> QED
    BY <1>19, <2>1, <2>2 DEF Purge
<1>20. CASE UNCHANGED importVars
  BY <1>20 DEF importVars, rowVars
<1> QED
  BY <1>1, <1>2, <1>3, <1>4, <1>5, <1>6, <1>7, <1>8, <1>9, <1>10, <1>11, <1>12, <1>13, <1>14,
     <1>15, <1>16, <1>17, <1>18, <1>19, <1>20 DEF ImportNext, WorkerStep

-----------------------------------------------------------------------------
(* The other parts of the invariant *)

\* What is in hand keeps referring to uploads that were there.
LEMMA RefersStep ==
  ASSUME Inv, [ImportNext]_importVars
  PROVE  RefersInv'
<1>1. ASSUME NEW u \in Upload, Preview(u) PROVE RefersInv'
  BY <1>1 DEF Preview, FilesKept, RowsKept, ImportTypeOK, Status, Result, Page, SessionPC, WorkerPC,
     Inv, RefersInv
<1>2. ASSUME NEW u \in Upload, PreviewDies(u) PROVE RefersInv'
  BY <1>2 DEF PreviewDies, FilesKept, RowsKept, ImportTypeOK, Status, Result, Page, SessionPC,
     WorkerPC, Inv, RefersInv
<1>3. ASSUME NEW u \in Upload, Poll(u) PROVE RefersInv'
  BY <1>3 DEF Poll, Found, Live, ImportTypeOK, Status, Result, Page, SessionPC, WorkerPC, Inv,
     RefersInv
<1>4. ASSUME NEW u \in Upload, Expires(u) PROVE RefersInv'
  BY <1>4 DEF Expires, Live, rowVars, ImportTypeOK, Status, Result, Page, SessionPC, WorkerPC, Inv,
     RefersInv
<1>5. ASSUME NEW s \in Session, NEW u \in Upload, PressImport(s, u) PROVE RefersInv'
  BY <1>5 DEF PressImport, Found, Live, Idle, rowVars, ImportTypeOK, Status, Result, Page, SessionPC,
     WorkerPC, Inv, RefersInv
<1>6. ASSUME NEW s \in Session, MarkWaiting(s) PROVE RefersInv'
  BY <1>6 DEF MarkWaiting, Saves, Live, Idle, rowVars, ImportTypeOK, Status, Result, Page, SessionPC,
     WorkerPC, Inv, RefersInv
<1>7. ASSUME NEW s \in Session, LaunchFails(s) PROVE RefersInv'
  BY <1>7 DEF LaunchFails, Saves, Live, Idle, rowVars, ImportTypeOK, Status, Result, Page, SessionPC,
     WorkerPC, Inv, RefersInv
<1>8. ASSUME NEW s \in Session, PressDies(s) PROVE RefersInv'
  BY <1>8 DEF PressDies, Idle, rowVars, ImportTypeOK, Status, Result, Page, SessionPC, WorkerPC, Inv,
     RefersInv
<1>9. ASSUME NEW s \in Session, NEW w \in Worker, LaunchImport(s, w) PROVE RefersInv'
  BY <1>9 DEF LaunchImport, Off, Idle, rowVars, ImportTypeOK, Status, Result, Page, SessionPC, WorkerPC,
     Inv, RefersInv
<1>10. ASSUME NEW w \in Worker, Look(w) PROVE RefersInv'
  BY <1>10 DEF Look, At, Goes, Ends, Off, rowVars, ImportTypeOK, Status, Result, Page, SessionPC,
     WorkerPC, Inv, RefersInv
<1>11. ASSUME NEW w \in Worker, MarkRunning(w) PROVE RefersInv'
  BY <1>11 DEF MarkRunning, At, Goes, Ends, Off, Saves, Live, rowVars, ImportTypeOK, Status, Result,
     Page, SessionPC, WorkerPC, Inv, RefersInv
<1>12. ASSUME NEW w \in Worker, Plan(w) PROVE RefersInv'
  BY <1>12 DEF Plan, At, rowVars, ImportTypeOK, Status, Result, Page, SessionPC, WorkerPC, Inv,
     RefersInv
<1>13. ASSUME NEW w \in Worker, Write(w) PROVE RefersInv'
  BY <1>13 DEF Write, At, Goes, rowVars, ImportTypeOK, Status, Result, Page, SessionPC, WorkerPC, Inv,
     RefersInv
<1>14. ASSUME NEW w \in Worker, Done(w) PROVE RefersInv'
  BY <1>14 DEF Done, At, rowVars, ImportTypeOK, Status, Result, Page, SessionPC, WorkerPC, Inv,
     RefersInv
<1>15. ASSUME NEW w \in Worker, Raises(w) PROVE RefersInv'
  BY <1>15 DEF Raises, At, rowVars, ImportTypeOK, Status, Result, Page, SessionPC, WorkerPC, Inv,
     RefersInv
<1>16. ASSUME NEW w \in Worker, DeleteFile(w) PROVE RefersInv'
  BY <1>16 DEF DeleteFile, At, Goes, rowVars, ImportTypeOK, Status, Result, Page, SessionPC, WorkerPC,
     Inv, RefersInv
<1>17. ASSUME NEW w \in Worker, SaveResult(w) PROVE RefersInv'
  BY <1>17 DEF SaveResult, At, Ends, Off, Saves, Live, rowVars, ImportTypeOK, Status, Result, Page,
     SessionPC, WorkerPC, Inv, RefersInv
<1>18. ASSUME NEW w \in Worker, WorkerDies(w) PROVE RefersInv'
  BY <1>18 DEF WorkerDies, At, Ends, Off, rowVars, ImportTypeOK, Status, Result, Page, SessionPC,
     WorkerPC, Inv, RefersInv
<1>19. CASE Purge
  BY <1>19 DEF Purge, FilesKept, RowsKept, ImportTypeOK, Status, Result, Page, SessionPC, WorkerPC,
     Inv, RefersInv
<1>20. CASE UNCHANGED importVars
  BY <1>20 DEF importVars, rowVars, ImportTypeOK, Status, Result, Page, SessionPC, WorkerPC, Inv, RefersInv
<1> QED
  BY <1>1, <1>2, <1>3, <1>4, <1>5, <1>6, <1>7, <1>8, <1>9, <1>10, <1>11, <1>12, <1>13, <1>14,
     <1>15, <1>16, <1>17, <1>18, <1>19, <1>20 DEF ImportNext, WorkerStep

\* A worker that ends knows how.
LEMMA OutcomeStep ==
  ASSUME Inv, [ImportNext]_importVars
  PROVE  OutcomeInv'
<1>1. ASSUME NEW u \in Upload, Preview(u) PROVE OutcomeInv'
  BY <1>1 DEF Preview, FilesKept, RowsKept, ImportTypeOK, Status, Result, Page, SessionPC, WorkerPC,
     Inv, RefersInv, OutcomeInv, Outcome
<1>2. ASSUME NEW u \in Upload, PreviewDies(u) PROVE OutcomeInv'
  BY <1>2 DEF PreviewDies, FilesKept, RowsKept, ImportTypeOK, Status, Result, Page, SessionPC,
     WorkerPC, Inv, RefersInv, OutcomeInv, Outcome
<1>3. ASSUME NEW u \in Upload, Poll(u) PROVE OutcomeInv'
  BY <1>3 DEF Poll, Found, Live, ImportTypeOK, Status, Result, Page, SessionPC, WorkerPC, Inv,
     RefersInv, OutcomeInv, Outcome
<1>4. ASSUME NEW u \in Upload, Expires(u) PROVE OutcomeInv'
  BY <1>4 DEF Expires, Live, rowVars, ImportTypeOK, Status, Result, Page, SessionPC, WorkerPC, Inv,
     RefersInv, OutcomeInv, Outcome
<1>5. ASSUME NEW s \in Session, NEW u \in Upload, PressImport(s, u) PROVE OutcomeInv'
  BY <1>5 DEF PressImport, Found, Live, Idle, rowVars, ImportTypeOK, Status, Result, Page, SessionPC,
     WorkerPC, Inv, RefersInv, OutcomeInv, Outcome
<1>6. ASSUME NEW s \in Session, MarkWaiting(s) PROVE OutcomeInv'
  BY <1>6 DEF MarkWaiting, Saves, Live, Idle, rowVars, ImportTypeOK, Status, Result, Page, SessionPC,
     WorkerPC, Inv, RefersInv, OutcomeInv, Outcome
<1>7. ASSUME NEW s \in Session, LaunchFails(s) PROVE OutcomeInv'
  BY <1>7 DEF LaunchFails, Saves, Live, Idle, rowVars, ImportTypeOK, Status, Result, Page, SessionPC,
     WorkerPC, Inv, RefersInv, OutcomeInv, Outcome
<1>8. ASSUME NEW s \in Session, PressDies(s) PROVE OutcomeInv'
  BY <1>8 DEF PressDies, Idle, rowVars, ImportTypeOK, Status, Result, Page, SessionPC, WorkerPC, Inv,
     RefersInv, OutcomeInv, Outcome
<1>9. ASSUME NEW s \in Session, NEW w \in Worker, LaunchImport(s, w) PROVE OutcomeInv'
  BY <1>9 DEF LaunchImport, Off, Idle, rowVars, ImportTypeOK, Status, Result, Page, SessionPC, WorkerPC,
     Inv, RefersInv, OutcomeInv, Outcome
<1>10. ASSUME NEW w \in Worker, Look(w) PROVE OutcomeInv'
  <2>1. \A x \in Worker : worker'[x].pc \in {"delete", "save"} => worker'[x] = worker[x]
    BY <1>10 DEF Look, Goes, Ends, Off, Inv, ImportTypeOK
  <2> QED
    BY <1>10, <2>1 DEF Look, rowVars, Inv, OutcomeInv
<1>11. ASSUME NEW w \in Worker, MarkRunning(w) PROVE OutcomeInv'
  BY <1>11 DEF MarkRunning, At, Goes, Ends, Off, Saves, Live, rowVars, ImportTypeOK, Status, Result,
     Page, SessionPC, WorkerPC, Inv, RefersInv, OutcomeInv, Outcome
<1>12. ASSUME NEW w \in Worker, Plan(w) PROVE OutcomeInv'
  BY <1>12 DEF Plan, At, rowVars, ImportTypeOK, Status, Result, Page, SessionPC, WorkerPC, Inv,
     RefersInv, OutcomeInv, Outcome
<1>13. ASSUME NEW w \in Worker, Write(w) PROVE OutcomeInv'
  BY <1>13 DEF Write, At, Goes, rowVars, ImportTypeOK, Status, Result, Page, SessionPC, WorkerPC, Inv,
     RefersInv, OutcomeInv, Outcome
<1>14. ASSUME NEW w \in Worker, Done(w) PROVE OutcomeInv'
  BY <1>14 DEF Done, At, rowVars, ImportTypeOK, Status, Result, Page, SessionPC, WorkerPC, Inv,
     RefersInv, OutcomeInv, Outcome
<1>15. ASSUME NEW w \in Worker, Raises(w) PROVE OutcomeInv'
  BY <1>15 DEF Raises, At, rowVars, ImportTypeOK, Status, Result, Page, SessionPC, WorkerPC, Inv,
     RefersInv, OutcomeInv, Outcome
<1>16. ASSUME NEW w \in Worker, DeleteFile(w) PROVE OutcomeInv'
  BY <1>16 DEF DeleteFile, At, Goes, rowVars, ImportTypeOK, Status, Result, Page, SessionPC, WorkerPC,
     Inv, RefersInv, OutcomeInv, Outcome
<1>17. ASSUME NEW w \in Worker, SaveResult(w) PROVE OutcomeInv'
  BY <1>17 DEF SaveResult, At, Ends, Off, Saves, Live, rowVars, ImportTypeOK, Status, Result, Page,
     SessionPC, WorkerPC, Inv, RefersInv, OutcomeInv, Outcome
<1>18. ASSUME NEW w \in Worker, WorkerDies(w) PROVE OutcomeInv'
  BY <1>18 DEF WorkerDies, At, Ends, Off, rowVars, ImportTypeOK, Status, Result, Page, SessionPC,
     WorkerPC, Inv, RefersInv, OutcomeInv, Outcome
<1>19. CASE Purge
  BY <1>19 DEF Purge, FilesKept, RowsKept, ImportTypeOK, Status, Result, Page, SessionPC, WorkerPC,
     Inv, RefersInv, OutcomeInv, Outcome
<1>20. CASE UNCHANGED importVars
  BY <1>20 DEF importVars, rowVars, ImportTypeOK, Status, Result, Page, SessionPC, WorkerPC, Inv, RefersInv,
     OutcomeInv, Outcome
<1> QED
  BY <1>1, <1>2, <1>3, <1>4, <1>5, <1>6, <1>7, <1>8, <1>9, <1>10, <1>11, <1>12, <1>13, <1>14,
     <1>15, <1>16, <1>17, <1>18, <1>19, <1>20 DEF ImportNext, WorkerStep

\* A file that is gone stays gone.
LEMMA FileStep ==
  ASSUME Inv, [ImportNext]_importVars
  PROVE  FileInv'
<1>1. ASSUME NEW u \in Upload, Preview(u) PROVE FileInv'
  BY <1>1 DEF Preview, FilesKept, RowsKept, ImportTypeOK, Status, Result, Page, SessionPC, WorkerPC,
     Inv, RefersInv, FileInv, At
<1>2. ASSUME NEW u \in Upload, PreviewDies(u) PROVE FileInv'
  <2>1. \A v \in Upload : file'[v] => v = u \/ (file[v] /\ v \notin expired)
    <3>1. \A v \in Upload : FilesKept[v] <=> (file[v] /\ v \notin expired)
      BY DEF FilesKept
    <3>2. \A v \in Upload : v # u => (file'[v] <=> FilesKept[v])
      BY <1>2, Zenon DEF PreviewDies, FilesKept
    <3> QED
      BY <3>1, <3>2, Zenon
  <2>2. \A v \in Upload : v \notin expired => status'[v] = status[v]
    BY <1>2 DEF PreviewDies, RowsKept
  <2>3. worker' = worker /\ status[u] = "none" /\ u \notin expired
    BY <1>2 DEF PreviewDies, Inv, RefersInv
  <2> QED
    BY <2>1, <2>2, <2>3 DEF Inv, RefersInv, FileInv, At
<1>3. ASSUME NEW u \in Upload, Poll(u) PROVE FileInv'
  BY <1>3 DEF Poll, Found, Live, ImportTypeOK, Status, Result, Page, SessionPC, WorkerPC, Inv,
     RefersInv, FileInv, At
<1>4. ASSUME NEW u \in Upload, Expires(u) PROVE FileInv'
  BY <1>4 DEF Expires, Live, rowVars, ImportTypeOK, Status, Result, Page, SessionPC, WorkerPC, Inv,
     RefersInv, FileInv, At
<1>5. ASSUME NEW s \in Session, NEW u \in Upload, PressImport(s, u) PROVE FileInv'
  BY <1>5 DEF PressImport, Found, Live, Idle, rowVars, ImportTypeOK, Status, Result, Page, SessionPC,
     WorkerPC, Inv, RefersInv, FileInv, At
<1>6. ASSUME NEW s \in Session, MarkWaiting(s) PROVE FileInv'
  BY <1>6 DEF MarkWaiting, Saves, Live, Idle, rowVars, ImportTypeOK, Status, Result, Page, SessionPC,
     WorkerPC, Inv, RefersInv, FileInv, At
<1>7. ASSUME NEW s \in Session, LaunchFails(s) PROVE FileInv'
  <2>1. session[s].upload \in Upload /\ worker' = worker
    BY <1>7 DEF LaunchFails, Inv, RefersInv
  <2>2. \A u \in Upload : file'[u] => file[u]
    BY <1>7, Zenon DEF LaunchFails, Inv, ImportTypeOK
  <2>3. ASSUME NEW u \in Upload, status'[u] # status[u] PROVE ~file'[u]
    <3>1. status[session[s].upload] \in Live
      BY <1>7, <2>3 DEF LaunchFails, rowVars
    <3>2. u = session[s].upload
      BY <1>7, <2>1, <2>3, <3>1 DEF LaunchFails, Saves, Inv, ImportTypeOK
    <3> QED
      BY <1>7, <3>1, <3>2, Zenon DEF LaunchFails, Inv, ImportTypeOK
  <2>4. \A w \in Worker : At(w, "save") => ~file'[worker[w].upload]
    <3> SUFFICES ASSUME NEW w \in Worker, At(w, "save") PROVE ~file'[worker[w].upload]
      OBVIOUS
    <3>1. worker[w].upload \in Upload
      BY DEF At, Inv, RefersInv
    <3> QED
      BY <2>2, <3>1, Zenon DEF Inv, FileInv
  <2>5. \A u \in Upload : status'[u] \in {"finished", "failed", "gone"} => ~file'[u]
    BY <2>2, <2>3, Zenon DEF Inv, FileInv
  <2> QED
    BY <2>1, <2>4, <2>5, Zenon DEF FileInv, At
<1>8. ASSUME NEW s \in Session, PressDies(s) PROVE FileInv'
  BY <1>8 DEF PressDies, Idle, rowVars, ImportTypeOK, Status, Result, Page, SessionPC, WorkerPC, Inv,
     RefersInv, FileInv, At
<1>9. ASSUME NEW s \in Session, NEW w \in Worker, LaunchImport(s, w) PROVE FileInv'
  BY <1>9 DEF LaunchImport, Off, Idle, rowVars, ImportTypeOK, Status, Result, Page, SessionPC, WorkerPC,
     Inv, RefersInv, FileInv, At
<1>10. ASSUME NEW w \in Worker, Look(w) PROVE FileInv'
  BY <1>10 DEF Look, At, Goes, Ends, Off, rowVars, ImportTypeOK, Status, Result, Page, SessionPC,
     WorkerPC, Inv, RefersInv, FileInv
<1>11. ASSUME NEW w \in Worker, MarkRunning(w) PROVE FileInv'
  BY <1>11 DEF MarkRunning, At, Goes, Ends, Off, Saves, Live, rowVars, ImportTypeOK, Status, Result,
     Page, SessionPC, WorkerPC, Inv, RefersInv, FileInv
<1>12. ASSUME NEW w \in Worker, Plan(w) PROVE FileInv'
  BY <1>12 DEF Plan, At, rowVars, ImportTypeOK, Status, Result, Page, SessionPC, WorkerPC, Inv,
     RefersInv, FileInv
<1>13. ASSUME NEW w \in Worker, Write(w) PROVE FileInv'
  BY <1>13 DEF Write, At, Goes, rowVars, ImportTypeOK, Status, Result, Page, SessionPC, WorkerPC, Inv,
     RefersInv, FileInv
<1>14. ASSUME NEW w \in Worker, Done(w) PROVE FileInv'
  BY <1>14 DEF Done, At, rowVars, ImportTypeOK, Status, Result, Page, SessionPC, WorkerPC, Inv,
     RefersInv, FileInv
<1>15. ASSUME NEW w \in Worker, Raises(w) PROVE FileInv'
  BY <1>15 DEF Raises, At, rowVars, ImportTypeOK, Status, Result, Page, SessionPC, WorkerPC, Inv,
     RefersInv, FileInv
<1>16. ASSUME NEW w \in Worker, DeleteFile(w) PROVE FileInv'
  BY <1>16 DEF DeleteFile, At, Goes, rowVars, ImportTypeOK, Status, Result, Page, SessionPC, WorkerPC,
     Inv, RefersInv, FileInv
<1>17. ASSUME NEW w \in Worker, SaveResult(w) PROVE FileInv'
  BY <1>17 DEF SaveResult, At, Ends, Off, Saves, Live, rowVars, ImportTypeOK, Status, Result, Page,
     SessionPC, WorkerPC, Inv, RefersInv, FileInv
<1>18. ASSUME NEW w \in Worker, WorkerDies(w) PROVE FileInv'
  BY <1>18 DEF WorkerDies, At, Ends, Off, rowVars, ImportTypeOK, Status, Result, Page, SessionPC,
     WorkerPC, Inv, RefersInv, FileInv
<1>19. CASE Purge
  <2>1. \A u \in Upload : file'[u] => file[u] /\ u \notin expired
    BY <1>19 DEF Purge, FilesKept
  <2>2. \A u \in Upload : u \notin expired => status'[u] = status[u]
    BY <1>19 DEF Purge, RowsKept
  <2>3. worker' = worker
    BY <1>19 DEF Purge
  <2> QED
    BY <2>1, <2>2, <2>3, Zenon DEF Inv, RefersInv, FileInv, At
<1>20. CASE UNCHANGED importVars
  BY <1>20 DEF importVars, rowVars, ImportTypeOK, Status, Result, Page, SessionPC, WorkerPC, Inv, RefersInv,
     FileInv, At
<1> QED
  BY <1>1, <1>2, <1>3, <1>4, <1>5, <1>6, <1>7, <1>8, <1>9, <1>10, <1>11, <1>12, <1>13, <1>14,
     <1>15, <1>16, <1>17, <1>18, <1>19, <1>20 DEF ImportNext, WorkerStep

\* What is told as saved is written.
LEMMA WrittenStep ==
  ASSUME Inv, [ImportNext]_importVars
  PROVE  WrittenInv'
<1>1. ASSUME NEW u \in Upload, Preview(u) PROVE WrittenInv'
  BY <1>1 DEF Preview, FilesKept, RowsKept, ImportTypeOK, Status, Result, Page, SessionPC, WorkerPC,
     Inv, RefersInv, OutcomeInv, Outcome, WrittenInv
<1>2. ASSUME NEW u \in Upload, PreviewDies(u) PROVE WrittenInv'
  BY <1>2 DEF PreviewDies, FilesKept, RowsKept, ImportTypeOK, Status, Result, Page, SessionPC,
     WorkerPC, Inv, RefersInv, OutcomeInv, Outcome, WrittenInv
<1>3. ASSUME NEW u \in Upload, Poll(u) PROVE WrittenInv'
  BY <1>3 DEF Poll, Found, Live, ImportTypeOK, Status, Result, Page, SessionPC, WorkerPC, Inv,
     RefersInv, OutcomeInv, Outcome, WrittenInv
<1>4. ASSUME NEW u \in Upload, Expires(u) PROVE WrittenInv'
  BY <1>4 DEF Expires, Live, rowVars, ImportTypeOK, Status, Result, Page, SessionPC, WorkerPC, Inv,
     RefersInv, OutcomeInv, Outcome, WrittenInv
<1>5. ASSUME NEW s \in Session, NEW u \in Upload, PressImport(s, u) PROVE WrittenInv'
  BY <1>5 DEF PressImport, Found, Live, Idle, rowVars, ImportTypeOK, Status, Result, Page, SessionPC,
     WorkerPC, Inv, RefersInv, OutcomeInv, Outcome, WrittenInv
<1>6. ASSUME NEW s \in Session, MarkWaiting(s) PROVE WrittenInv'
  BY <1>6 DEF MarkWaiting, Saves, Live, Idle, rowVars, ImportTypeOK, Status, Result, Page, SessionPC,
     WorkerPC, Inv, RefersInv, OutcomeInv, Outcome, WrittenInv
<1>7. ASSUME NEW s \in Session, LaunchFails(s) PROVE WrittenInv'
  BY <1>7 DEF LaunchFails, Saves, Live, Idle, rowVars, ImportTypeOK, Status, Result, Page, SessionPC,
     WorkerPC, Inv, RefersInv, OutcomeInv, Outcome, WrittenInv
<1>8. ASSUME NEW s \in Session, PressDies(s) PROVE WrittenInv'
  BY <1>8 DEF PressDies, Idle, rowVars, ImportTypeOK, Status, Result, Page, SessionPC, WorkerPC, Inv,
     RefersInv, OutcomeInv, Outcome, WrittenInv
<1>9. ASSUME NEW s \in Session, NEW w \in Worker, LaunchImport(s, w) PROVE WrittenInv'
  BY <1>9 DEF LaunchImport, Off, Idle, rowVars, ImportTypeOK, Status, Result, Page, SessionPC, WorkerPC,
     Inv, RefersInv, OutcomeInv, Outcome, WrittenInv
<1>10. ASSUME NEW w \in Worker, Look(w) PROVE WrittenInv'
  <2>1. \A x \in Worker : worker'[x] # worker[x] => worker'[x].pc \in {"mark", "off"}
    BY <1>10 DEF Look, At, Goes, Ends, Off, Inv, ImportTypeOK
  <2> QED
    BY <1>10, <2>1 DEF Look, Inv, WrittenInv, rowVars
<1>11. ASSUME NEW w \in Worker, MarkRunning(w) PROVE WrittenInv'
  BY <1>11 DEF MarkRunning, At, Goes, Ends, Off, Saves, Live, rowVars, ImportTypeOK, Status, Result,
     Page, SessionPC, WorkerPC, Inv, RefersInv, OutcomeInv, Outcome, WrittenInv
<1>12. ASSUME NEW w \in Worker, Plan(w) PROVE WrittenInv'
  BY <1>12 DEF Plan, At, rowVars, ImportTypeOK, Status, Result, Page, SessionPC, WorkerPC, Inv,
     RefersInv, OutcomeInv, Outcome, WrittenInv
<1>13. ASSUME NEW w \in Worker, Write(w) PROVE WrittenInv'
  BY <1>13 DEF Write, At, Goes, rowVars, ImportTypeOK, Status, Result, Page, SessionPC, WorkerPC, Inv,
     RefersInv, OutcomeInv, Outcome, WrittenInv
<1>14. ASSUME NEW w \in Worker, Done(w) PROVE WrittenInv'
  BY <1>14 DEF Done, At, rowVars, ImportTypeOK, Status, Result, Page, SessionPC, WorkerPC, Inv,
     RefersInv, OutcomeInv, Outcome, WrittenInv
<1>15. ASSUME NEW w \in Worker, Raises(w) PROVE WrittenInv'
  BY <1>15 DEF Raises, At, rowVars, ImportTypeOK, Status, Result, Page, SessionPC, WorkerPC, Inv,
     RefersInv, OutcomeInv, Outcome, WrittenInv
<1>16. ASSUME NEW w \in Worker, DeleteFile(w) PROVE WrittenInv'
  BY <1>16 DEF DeleteFile, At, Goes, rowVars, ImportTypeOK, Status, Result, Page, SessionPC, WorkerPC,
     Inv, RefersInv, OutcomeInv, Outcome, WrittenInv
<1>17. ASSUME NEW w \in Worker, SaveResult(w) PROVE WrittenInv'
  BY <1>17 DEF SaveResult, At, Ends, Off, Saves, Live, rowVars, ImportTypeOK, Status, Result, Page,
     SessionPC, WorkerPC, Inv, RefersInv, OutcomeInv, Outcome, WrittenInv
<1>18. ASSUME NEW w \in Worker, WorkerDies(w) PROVE WrittenInv'
  BY <1>18 DEF WorkerDies, At, Ends, Off, rowVars, ImportTypeOK, Status, Result, Page, SessionPC,
     WorkerPC, Inv, RefersInv, OutcomeInv, Outcome, WrittenInv
<1>19. CASE Purge
  BY <1>19 DEF Purge, FilesKept, RowsKept, ImportTypeOK, Status, Result, Page, SessionPC, WorkerPC,
     Inv, RefersInv, OutcomeInv, Outcome, WrittenInv
<1>20. CASE UNCHANGED importVars
  BY <1>20 DEF importVars, rowVars, ImportTypeOK, Status, Result, Page, SessionPC, WorkerPC, Inv, RefersInv,
     OutcomeInv, Outcome, WrittenInv
<1> QED
  BY <1>1, <1>2, <1>3, <1>4, <1>5, <1>6, <1>7, <1>8, <1>9, <1>10, <1>11, <1>12, <1>13, <1>14,
     <1>15, <1>16, <1>17, <1>18, <1>19, <1>20 DEF ImportNext, WorkerStep

-----------------------------------------------------------------------------
(* Theorems *)

\* The inductive invariant holds at the start, is kept and so always holds.
LEMMA InvInit == ImportInit => Inv
BY ErrorBounds DEF ImportInit, Inv, ImportTypeOK, RefersInv, OutcomeInv, FileInv, WrittenInv, Idle,
   Off, At, Status, Result, Page, SessionPC, WorkerPC

\* The invariant holds throughout.
LEMMA InvAlways == ImportSpec => []Inv
<1>1. Inv /\ [ImportNext]_importVars => Inv'
  BY TypeStep, RefersStep, OutcomeStep, FileStep, WrittenStep DEF Inv
<1> QED
  BY <1>1, InvInit, PTL DEF ImportSpec

\* Every variable keeps its type.
THEOREM ImportTypeCorrect == ImportSpec => []ImportTypeOK
<1>1. Inv => ImportTypeOK
  BY DEF Inv
<1> QED
  BY <1>1, InvAlways, PTL

\* However many presses, workers, polls and cleanups meet, and wherever they die:
\* once an upload's row is gone its file is gone and stays gone (_finish,
\* purge_expired, status_response).
THEOREM NoFileIsLeft == ImportSpec => []NoFileLeft
<1>1. Inv => NoFileLeft
  BY DEF Inv, FileInv, NoFileLeft
<1> QED
  BY <1>1, InvAlways, PTL

\* Even where presses of Import meet and several workers take up one upload, the
\* page shows a result only of a file whose rows are on file (run, _finish).
SavedIsWritten == \A u \in Upload : page[u] = "saved" => written[u] > 0

\* Nobody is told of a result that is not in the records, however often Import was
\* pressed (core/pending_imports.py run).
THEOREM SavedIsAlwaysWritten == ImportSpec => []SavedIsWritten
<1>1. Inv => SavedIsWritten
  BY DEF Inv, WrittenInv, SavedIsWritten
<1> QED
  BY <1>1, InvAlways, PTL

-----------------------------------------------------------------------------
(* One press at a time *)

InHand(s, u) == session[s].pc # "idle" /\ session[s].upload = u
NoWorker(u) == \A w \in Worker : worker[w].pc # "off" => worker[w].upload # u

\* Nothing is written yet, and no worker is at it.
Untouched(u) == NoWorker(u) /\ written[u] = 0 /\ result[u] = "empty"

\* A press finds the upload untouched and launches its only worker.
PressInv ==
  \A u \in Upload :
    /\ status[u] \in {"none", "previewed"} => Untouched(u)
    /\ \A s \in Session : InHand(s, u) =>
         /\ Untouched(u)
         /\ session[s].pc = "pressed" => status[u] \in {"previewed", "gone"}
         /\ session[s].pc = "launch" => status[u] # "previewed"

LoneWorkerInv ==
  \A w, x \in Worker :
    worker[w].pc # "off" /\ worker[x].pc # "off" /\ worker[w].upload = worker[x].upload => w = x

\* How far the only worker is, what is written.
WorkInv ==
  \A w \in Worker :
    LET u == worker[w].upload IN
    /\ worker[w].pc # "off" => result[u] = "empty"
    /\ worker[w].pc \in {"look", "mark", "read", "write"} => written[u] = 0
    /\ worker[w].pc = "write" => worker[w].fresh
    /\ worker[w].pc = "after" => written[u] = 1
    /\ worker[w].pc \in {"delete", "save"} =>
         /\ worker[w].outcome = "saved" => written[u] = 1
         /\ worker[w].outcome = "nothing" => written[u] = 0 \/ u \in raised

\* Once the row says how the import ended, nothing is done with it any more.
ResultInv ==
  \A u \in Upload :
    /\ result[u] # "empty" => NoWorker(u)
    /\ result[u] = "saved" => written[u] = 1
    /\ result[u] = "nothing" => written[u] = 0 \/ u \in raised
    /\ page[u] \in Outcome => result[u] = page[u]

\* Import is pressed once at a time.
OnePress == \A s, t \in Session : s = t

ToldInv == PressInv /\ LoneWorkerInv /\ WorkInv /\ ResultInv

\* Every step keeps presses before workers, ...
LEMMA PressStep ==
  ASSUME OnePress, Inv, ToldInv, [ImportNext]_importVars
  PROVE  PressInv'
<1>1. ASSUME NEW u \in Upload, Preview(u) PROVE PressInv'
  BY <1>1 DEF Preview, FilesKept, RowsKept, ImportTypeOK, Status, Result, Page, SessionPC, WorkerPC,
     Inv, RefersInv, OutcomeInv, Outcome, OnePress, ToldInv, PressInv, InHand, NoWorker,
     Untouched, ResultInv
<1>2. ASSUME NEW u \in Upload, PreviewDies(u) PROVE PressInv'
  BY <1>2 DEF PreviewDies, FilesKept, RowsKept, ImportTypeOK, Status, Result, Page, SessionPC,
     WorkerPC, Inv, RefersInv, OutcomeInv, Outcome, OnePress, ToldInv, PressInv, InHand,
     NoWorker, Untouched, ResultInv
<1>3. ASSUME NEW u \in Upload, Poll(u) PROVE PressInv'
  BY <1>3 DEF Poll, Found, Live, ImportTypeOK, Status, Result, Page, SessionPC, WorkerPC, Inv,
     RefersInv, OutcomeInv, Outcome, OnePress, ToldInv, PressInv, InHand, NoWorker, Untouched,
     ResultInv
<1>4. ASSUME NEW u \in Upload, Expires(u) PROVE PressInv'
  BY <1>4 DEF Expires, Live, rowVars, ImportTypeOK, Status, Result, Page, SessionPC, WorkerPC, Inv,
     RefersInv, OutcomeInv, Outcome, OnePress, ToldInv, PressInv, InHand, NoWorker, Untouched,
     ResultInv
<1>5. ASSUME NEW s \in Session, NEW u \in Upload, PressImport(s, u) PROVE PressInv'
  BY <1>5 DEF PressImport, Found, Live, Idle, rowVars, ImportTypeOK, Status, Result, Page, SessionPC,
     WorkerPC, Inv, RefersInv, OutcomeInv, Outcome, OnePress, ToldInv, PressInv, InHand,
     NoWorker, Untouched, ResultInv
<1>6. ASSUME NEW s \in Session, MarkWaiting(s) PROVE PressInv'
  BY <1>6 DEF MarkWaiting, Saves, Live, Idle, rowVars, ImportTypeOK, Status, Result, Page, SessionPC,
     WorkerPC, Inv, RefersInv, OutcomeInv, Outcome, OnePress, ToldInv, PressInv, InHand,
     NoWorker, Untouched, ResultInv
<1>7. ASSUME NEW s \in Session, LaunchFails(s) PROVE PressInv'
  BY <1>7 DEF LaunchFails, Saves, Live, Idle, rowVars, ImportTypeOK, Status, Result, Page, SessionPC,
     WorkerPC, Inv, RefersInv, OutcomeInv, Outcome, OnePress, ToldInv, PressInv, InHand,
     NoWorker, Untouched, ResultInv
<1>8. ASSUME NEW s \in Session, PressDies(s) PROVE PressInv'
  BY <1>8 DEF PressDies, Idle, rowVars, ImportTypeOK, Status, Result, Page, SessionPC, WorkerPC, Inv,
     RefersInv, OutcomeInv, Outcome, OnePress, ToldInv, PressInv, InHand, NoWorker, Untouched,
     ResultInv
<1>9. ASSUME NEW s \in Session, NEW w \in Worker, LaunchImport(s, w) PROVE PressInv'
  BY <1>9 DEF LaunchImport, Off, Idle, rowVars, ImportTypeOK, Status, Result, Page, SessionPC, WorkerPC,
     Inv, RefersInv, OutcomeInv, Outcome, OnePress, ToldInv, PressInv, InHand, NoWorker,
     Untouched, ResultInv
<1>10. ASSUME NEW w \in Worker, Look(w) PROVE PressInv'
  <2>1. /\ Goes(w, "mark") \/ Ends(w)
        /\ worker[w].pc = "look"
    BY <1>10 DEF Look, At
  <2>2. \A x \in Worker : worker'[x].pc # "off" => worker[x].pc # "off" /\ worker'[x].upload = worker[x].upload
    BY <2>1 DEF Goes, Ends, Off, Inv, ImportTypeOK
  <2> QED
    BY <1>10, <2>2 DEF Look, ToldInv, PressInv, InHand, NoWorker, Untouched, rowVars
<1>11. ASSUME NEW w \in Worker, MarkRunning(w) PROVE PressInv'
  <2>1. \A x \in Worker : worker'[x].pc # "off" => worker[x].pc # "off" /\ worker'[x].upload = worker[x].upload
    BY <1>11 DEF MarkRunning, At, Goes, Ends, Off, Inv, ImportTypeOK
  <2>2. \A v \in Upload : result'[v] = result[v]
    BY <1>11 DEF MarkRunning, Saves, Inv, ImportTypeOK, rowVars
  <2>3. \A v \in Upload : status'[v] # status[v] => v = worker[w].upload /\ status'[v] = "running"
    BY <1>11 DEF MarkRunning, Saves, Inv, ImportTypeOK, rowVars
  <2>4. ~NoWorker(worker[w].upload)
    BY <1>11 DEF MarkRunning, NoWorker, At
  <2> QED
    BY <1>11, <2>1, <2>2, <2>3, <2>4 DEF MarkRunning, ToldInv, PressInv, InHand, NoWorker,
       Untouched
<1>12. ASSUME NEW w \in Worker, Plan(w) PROVE PressInv'
  BY <1>12 DEF Plan, At, rowVars, ImportTypeOK, Status, Result, Page, SessionPC, WorkerPC, Inv,
     RefersInv, OutcomeInv, Outcome, OnePress, ToldInv, PressInv, InHand, NoWorker, Untouched,
     ResultInv
<1>13. ASSUME NEW w \in Worker, Write(w) PROVE PressInv'
  BY <1>13 DEF Write, At, Goes, rowVars, ImportTypeOK, Status, Result, Page, SessionPC, WorkerPC, Inv,
     RefersInv, OutcomeInv, Outcome, OnePress, ToldInv, PressInv, InHand, NoWorker, Untouched,
     ResultInv
<1>14. ASSUME NEW w \in Worker, Done(w) PROVE PressInv'
  BY <1>14 DEF Done, At, rowVars, ImportTypeOK, Status, Result, Page, SessionPC, WorkerPC, Inv,
     RefersInv, OutcomeInv, Outcome, OnePress, ToldInv, PressInv, InHand, NoWorker, Untouched,
     ResultInv
<1>15. ASSUME NEW w \in Worker, Raises(w) PROVE PressInv'
  BY <1>15 DEF Raises, At, rowVars, ImportTypeOK, Status, Result, Page, SessionPC, WorkerPC, Inv,
     RefersInv, OutcomeInv, Outcome, OnePress, ToldInv, PressInv, InHand, NoWorker, Untouched,
     ResultInv
<1>16. ASSUME NEW w \in Worker, DeleteFile(w) PROVE PressInv'
  BY <1>16 DEF DeleteFile, At, Goes, rowVars, ImportTypeOK, Status, Result, Page, SessionPC, WorkerPC,
     Inv, RefersInv, OutcomeInv, Outcome, OnePress, ToldInv, PressInv, InHand, NoWorker,
     Untouched, ResultInv
<1>17. ASSUME NEW w \in Worker, SaveResult(w) PROVE PressInv'
  BY <1>17 DEF SaveResult, At, Ends, Off, Saves, Live, rowVars, ImportTypeOK, Status, Result, Page,
     SessionPC, WorkerPC, Inv, RefersInv, OutcomeInv, Outcome, OnePress, ToldInv, PressInv,
     InHand, NoWorker, Untouched, ResultInv
<1>18. ASSUME NEW w \in Worker, WorkerDies(w) PROVE PressInv'
  BY <1>18 DEF WorkerDies, At, Ends, Off, rowVars, ImportTypeOK, Status, Result, Page, SessionPC,
     WorkerPC, Inv, RefersInv, OutcomeInv, Outcome, OnePress, ToldInv, PressInv, InHand,
     NoWorker, Untouched, ResultInv
<1>19. CASE Purge
  BY <1>19 DEF Purge, FilesKept, RowsKept, ImportTypeOK, Status, Result, Page, SessionPC, WorkerPC,
     Inv, RefersInv, OutcomeInv, Outcome, OnePress, ToldInv, PressInv, InHand, NoWorker,
     Untouched, ResultInv
<1>20. CASE UNCHANGED importVars
  BY <1>20 DEF importVars, rowVars, ImportTypeOK, Status, Result, Page, SessionPC, WorkerPC, Inv, RefersInv,
     OutcomeInv, Outcome, OnePress, ToldInv, PressInv, InHand, NoWorker, Untouched, ResultInv
<1> QED
  BY <1>1, <1>2, <1>3, <1>4, <1>5, <1>6, <1>7, <1>8, <1>9, <1>10, <1>11, <1>12, <1>13, <1>14,
     <1>15, <1>16, <1>17, <1>18, <1>19, <1>20 DEF ImportNext, WorkerStep

\* ... one worker to an upload, ...
LEMMA LoneWorkerStep ==
  ASSUME OnePress, Inv, ToldInv, [ImportNext]_importVars
  PROVE  LoneWorkerInv'
<1>1. ASSUME NEW u \in Upload, Preview(u) PROVE LoneWorkerInv'
  BY <1>1 DEF Preview, FilesKept, RowsKept, ImportTypeOK, Status, Result, Page, SessionPC, WorkerPC,
     Inv, RefersInv, OutcomeInv, Outcome, ToldInv, PressInv, LoneWorkerInv, InHand, NoWorker,
     Untouched
<1>2. ASSUME NEW u \in Upload, PreviewDies(u) PROVE LoneWorkerInv'
  BY <1>2 DEF PreviewDies, FilesKept, RowsKept, ImportTypeOK, Status, Result, Page, SessionPC,
     WorkerPC, Inv, RefersInv, OutcomeInv, Outcome, ToldInv, PressInv, LoneWorkerInv, InHand,
     NoWorker, Untouched
<1>3. ASSUME NEW u \in Upload, Poll(u) PROVE LoneWorkerInv'
  BY <1>3 DEF Poll, Found, Live, ImportTypeOK, Status, Result, Page, SessionPC, WorkerPC, Inv,
     RefersInv, OutcomeInv, Outcome, ToldInv, PressInv, LoneWorkerInv, InHand, NoWorker,
     Untouched
<1>4. ASSUME NEW u \in Upload, Expires(u) PROVE LoneWorkerInv'
  BY <1>4 DEF Expires, Live, rowVars, ImportTypeOK, Status, Result, Page, SessionPC, WorkerPC, Inv,
     RefersInv, OutcomeInv, Outcome, ToldInv, PressInv, LoneWorkerInv, InHand, NoWorker,
     Untouched
<1>5. ASSUME NEW s \in Session, NEW u \in Upload, PressImport(s, u) PROVE LoneWorkerInv'
  BY <1>5 DEF PressImport, Found, Live, Idle, rowVars, ImportTypeOK, Status, Result, Page, SessionPC,
     WorkerPC, Inv, RefersInv, OutcomeInv, Outcome, ToldInv, PressInv, LoneWorkerInv, InHand,
     NoWorker, Untouched
<1>6. ASSUME NEW s \in Session, MarkWaiting(s) PROVE LoneWorkerInv'
  BY <1>6 DEF MarkWaiting, Saves, Live, Idle, rowVars, ImportTypeOK, Status, Result, Page, SessionPC,
     WorkerPC, Inv, RefersInv, OutcomeInv, Outcome, ToldInv, PressInv, LoneWorkerInv, InHand,
     NoWorker, Untouched
<1>7. ASSUME NEW s \in Session, LaunchFails(s) PROVE LoneWorkerInv'
  BY <1>7 DEF LaunchFails, Saves, Live, Idle, rowVars, ImportTypeOK, Status, Result, Page, SessionPC,
     WorkerPC, Inv, RefersInv, OutcomeInv, Outcome, ToldInv, PressInv, LoneWorkerInv, InHand,
     NoWorker, Untouched
<1>8. ASSUME NEW s \in Session, PressDies(s) PROVE LoneWorkerInv'
  BY <1>8 DEF PressDies, Idle, rowVars, ImportTypeOK, Status, Result, Page, SessionPC, WorkerPC, Inv,
     RefersInv, OutcomeInv, Outcome, ToldInv, PressInv, LoneWorkerInv, InHand, NoWorker,
     Untouched
<1>9. ASSUME NEW s \in Session, NEW w \in Worker, LaunchImport(s, w) PROVE LoneWorkerInv'
  BY <1>9 DEF LaunchImport, Off, Idle, rowVars, ImportTypeOK, Status, Result, Page, SessionPC, WorkerPC,
     Inv, RefersInv, OutcomeInv, Outcome, ToldInv, PressInv, LoneWorkerInv, InHand, NoWorker,
     Untouched
<1>10. ASSUME NEW w \in Worker, Look(w) PROVE LoneWorkerInv'
  BY <1>10 DEF Look, At, Goes, Ends, Off, rowVars, ImportTypeOK, Status, Result, Page, SessionPC,
     WorkerPC, Inv, RefersInv, OutcomeInv, Outcome, ToldInv, PressInv, LoneWorkerInv, InHand,
     NoWorker, Untouched
<1>11. ASSUME NEW w \in Worker, MarkRunning(w) PROVE LoneWorkerInv'
  BY <1>11 DEF MarkRunning, At, Goes, Ends, Off, Saves, Live, rowVars, ImportTypeOK, Status, Result,
     Page, SessionPC, WorkerPC, Inv, RefersInv, OutcomeInv, Outcome, ToldInv, PressInv,
     LoneWorkerInv, InHand, NoWorker, Untouched
<1>12. ASSUME NEW w \in Worker, Plan(w) PROVE LoneWorkerInv'
  BY <1>12 DEF Plan, At, rowVars, ImportTypeOK, Status, Result, Page, SessionPC, WorkerPC, Inv,
     RefersInv, OutcomeInv, Outcome, ToldInv, PressInv, LoneWorkerInv, InHand, NoWorker,
     Untouched
<1>13. ASSUME NEW w \in Worker, Write(w) PROVE LoneWorkerInv'
  BY <1>13 DEF Write, At, Goes, rowVars, ImportTypeOK, Status, Result, Page, SessionPC, WorkerPC, Inv,
     RefersInv, OutcomeInv, Outcome, ToldInv, PressInv, LoneWorkerInv, InHand, NoWorker,
     Untouched
<1>14. ASSUME NEW w \in Worker, Done(w) PROVE LoneWorkerInv'
  BY <1>14 DEF Done, At, rowVars, ImportTypeOK, Status, Result, Page, SessionPC, WorkerPC, Inv,
     RefersInv, OutcomeInv, Outcome, ToldInv, PressInv, LoneWorkerInv, InHand, NoWorker,
     Untouched
<1>15. ASSUME NEW w \in Worker, Raises(w) PROVE LoneWorkerInv'
  BY <1>15 DEF Raises, At, rowVars, ImportTypeOK, Status, Result, Page, SessionPC, WorkerPC, Inv,
     RefersInv, OutcomeInv, Outcome, ToldInv, PressInv, LoneWorkerInv, InHand, NoWorker,
     Untouched
<1>16. ASSUME NEW w \in Worker, DeleteFile(w) PROVE LoneWorkerInv'
  BY <1>16 DEF DeleteFile, At, Goes, rowVars, ImportTypeOK, Status, Result, Page, SessionPC, WorkerPC,
     Inv, RefersInv, OutcomeInv, Outcome, ToldInv, PressInv, LoneWorkerInv, InHand, NoWorker,
     Untouched
<1>17. ASSUME NEW w \in Worker, SaveResult(w) PROVE LoneWorkerInv'
  BY <1>17 DEF SaveResult, At, Ends, Off, Saves, Live, rowVars, ImportTypeOK, Status, Result, Page,
     SessionPC, WorkerPC, Inv, RefersInv, OutcomeInv, Outcome, ToldInv, PressInv, LoneWorkerInv,
     InHand, NoWorker, Untouched
<1>18. ASSUME NEW w \in Worker, WorkerDies(w) PROVE LoneWorkerInv'
  BY <1>18 DEF WorkerDies, At, Ends, Off, rowVars, ImportTypeOK, Status, Result, Page, SessionPC,
     WorkerPC, Inv, RefersInv, OutcomeInv, Outcome, ToldInv, PressInv, LoneWorkerInv, InHand,
     NoWorker, Untouched
<1>19. CASE Purge
  BY <1>19 DEF Purge, FilesKept, RowsKept, ImportTypeOK, Status, Result, Page, SessionPC, WorkerPC,
     Inv, RefersInv, OutcomeInv, Outcome, ToldInv, PressInv, LoneWorkerInv, InHand, NoWorker,
     Untouched
<1>20. CASE UNCHANGED importVars
  BY <1>20 DEF importVars, rowVars, ImportTypeOK, Status, Result, Page, SessionPC, WorkerPC, Inv, RefersInv,
     OutcomeInv, Outcome, ToldInv, PressInv, LoneWorkerInv, InHand, NoWorker, Untouched
<1> QED
  BY <1>1, <1>2, <1>3, <1>4, <1>5, <1>6, <1>7, <1>8, <1>9, <1>10, <1>11, <1>12, <1>13, <1>14,
     <1>15, <1>16, <1>17, <1>18, <1>19, <1>20 DEF ImportNext, WorkerStep

\* ... what it has written, ...
LEMMA WorkStep ==
  ASSUME OnePress, Inv, ToldInv, [ImportNext]_importVars
  PROVE  WorkInv'
<1>1. ASSUME NEW u \in Upload, Preview(u) PROVE WorkInv'
  BY <1>1 DEF Preview, FilesKept, RowsKept, ImportTypeOK, Status, Result, Page, SessionPC, WorkerPC,
     Inv, RefersInv, OutcomeInv, Outcome, ToldInv, PressInv, LoneWorkerInv, InHand, NoWorker,
     Untouched, WorkInv
<1>2. ASSUME NEW u \in Upload, PreviewDies(u) PROVE WorkInv'
  BY <1>2 DEF PreviewDies, FilesKept, RowsKept, ImportTypeOK, Status, Result, Page, SessionPC,
     WorkerPC, Inv, RefersInv, OutcomeInv, Outcome, ToldInv, PressInv, LoneWorkerInv, InHand,
     NoWorker, Untouched, WorkInv
<1>3. ASSUME NEW u \in Upload, Poll(u) PROVE WorkInv'
  BY <1>3 DEF Poll, Found, Live, ImportTypeOK, Status, Result, Page, SessionPC, WorkerPC, Inv,
     RefersInv, OutcomeInv, Outcome, ToldInv, PressInv, LoneWorkerInv, InHand, NoWorker,
     Untouched, WorkInv
<1>4. ASSUME NEW u \in Upload, Expires(u) PROVE WorkInv'
  BY <1>4 DEF Expires, Live, rowVars, ImportTypeOK, Status, Result, Page, SessionPC, WorkerPC, Inv,
     RefersInv, OutcomeInv, Outcome, ToldInv, PressInv, LoneWorkerInv, InHand, NoWorker,
     Untouched, WorkInv
<1>5. ASSUME NEW s \in Session, NEW u \in Upload, PressImport(s, u) PROVE WorkInv'
  BY <1>5 DEF PressImport, Found, Live, Idle, rowVars, ImportTypeOK, Status, Result, Page, SessionPC,
     WorkerPC, Inv, RefersInv, OutcomeInv, Outcome, ToldInv, PressInv, LoneWorkerInv, InHand,
     NoWorker, Untouched, WorkInv
<1>6. ASSUME NEW s \in Session, MarkWaiting(s) PROVE WorkInv'
  BY <1>6 DEF MarkWaiting, Saves, Live, Idle, rowVars, ImportTypeOK, Status, Result, Page, SessionPC,
     WorkerPC, Inv, RefersInv, OutcomeInv, Outcome, ToldInv, PressInv, LoneWorkerInv, InHand,
     NoWorker, Untouched, WorkInv
<1>7. ASSUME NEW s \in Session, LaunchFails(s) PROVE WorkInv'
  BY <1>7 DEF LaunchFails, Saves, Live, Idle, rowVars, ImportTypeOK, Status, Result, Page, SessionPC,
     WorkerPC, Inv, RefersInv, OutcomeInv, Outcome, ToldInv, PressInv, LoneWorkerInv, InHand,
     NoWorker, Untouched, WorkInv
<1>8. ASSUME NEW s \in Session, PressDies(s) PROVE WorkInv'
  BY <1>8 DEF PressDies, Idle, rowVars, ImportTypeOK, Status, Result, Page, SessionPC, WorkerPC, Inv,
     RefersInv, OutcomeInv, Outcome, ToldInv, PressInv, LoneWorkerInv, InHand, NoWorker,
     Untouched, WorkInv
<1>9. ASSUME NEW s \in Session, NEW w \in Worker, LaunchImport(s, w) PROVE WorkInv'
  BY <1>9 DEF LaunchImport, Off, Idle, rowVars, ImportTypeOK, Status, Result, Page, SessionPC, WorkerPC,
     Inv, RefersInv, OutcomeInv, Outcome, ToldInv, PressInv, LoneWorkerInv, InHand, NoWorker,
     Untouched, WorkInv
<1>10. ASSUME NEW w \in Worker, Look(w) PROVE WorkInv'
  BY <1>10 DEF Look, At, Goes, Ends, Off, rowVars, ImportTypeOK, Status, Result, Page, SessionPC,
     WorkerPC, Inv, RefersInv, OutcomeInv, Outcome, ToldInv, PressInv, LoneWorkerInv, InHand,
     NoWorker, Untouched, WorkInv
<1>11. ASSUME NEW w \in Worker, MarkRunning(w) PROVE WorkInv'
  BY <1>11 DEF MarkRunning, At, Goes, Ends, Off, Saves, Live, rowVars, ImportTypeOK, Status, Result,
     Page, SessionPC, WorkerPC, Inv, RefersInv, OutcomeInv, Outcome, ToldInv, PressInv,
     LoneWorkerInv, InHand, NoWorker, Untouched, WorkInv
<1>12. ASSUME NEW w \in Worker, Plan(w) PROVE WorkInv'
  BY <1>12 DEF Plan, At, rowVars, ImportTypeOK, Status, Result, Page, SessionPC, WorkerPC, Inv,
     RefersInv, OutcomeInv, Outcome, ToldInv, PressInv, LoneWorkerInv, InHand, NoWorker,
     Untouched, WorkInv
<1>13. ASSUME NEW w \in Worker, Write(w) PROVE WorkInv'
  BY <1>13 DEF Write, At, Goes, rowVars, ImportTypeOK, Status, Result, Page, SessionPC, WorkerPC, Inv,
     RefersInv, OutcomeInv, Outcome, ToldInv, PressInv, LoneWorkerInv, InHand, NoWorker,
     Untouched, WorkInv
<1>14. ASSUME NEW w \in Worker, Done(w) PROVE WorkInv'
  BY <1>14 DEF Done, At, rowVars, ImportTypeOK, Status, Result, Page, SessionPC, WorkerPC, Inv,
     RefersInv, OutcomeInv, Outcome, ToldInv, PressInv, LoneWorkerInv, InHand, NoWorker,
     Untouched, WorkInv
<1>15. ASSUME NEW w \in Worker, Raises(w) PROVE WorkInv'
  BY <1>15 DEF Raises, At, rowVars, ImportTypeOK, Status, Result, Page, SessionPC, WorkerPC, Inv,
     RefersInv, OutcomeInv, Outcome, ToldInv, PressInv, LoneWorkerInv, InHand, NoWorker,
     Untouched, WorkInv
<1>16. ASSUME NEW w \in Worker, DeleteFile(w) PROVE WorkInv'
  BY <1>16 DEF DeleteFile, At, Goes, rowVars, ImportTypeOK, Status, Result, Page, SessionPC, WorkerPC,
     Inv, RefersInv, OutcomeInv, Outcome, ToldInv, PressInv, LoneWorkerInv, InHand, NoWorker,
     Untouched, WorkInv
<1>17. ASSUME NEW w \in Worker, SaveResult(w) PROVE WorkInv'
  BY <1>17 DEF SaveResult, At, Ends, Off, Saves, Live, rowVars, ImportTypeOK, Status, Result, Page,
     SessionPC, WorkerPC, Inv, RefersInv, OutcomeInv, Outcome, ToldInv, PressInv, LoneWorkerInv,
     InHand, NoWorker, Untouched, WorkInv
<1>18. ASSUME NEW w \in Worker, WorkerDies(w) PROVE WorkInv'
  BY <1>18 DEF WorkerDies, At, Ends, Off, rowVars, ImportTypeOK, Status, Result, Page, SessionPC,
     WorkerPC, Inv, RefersInv, OutcomeInv, Outcome, ToldInv, PressInv, LoneWorkerInv, InHand,
     NoWorker, Untouched, WorkInv
<1>19. CASE Purge
  BY <1>19 DEF Purge, FilesKept, RowsKept, ImportTypeOK, Status, Result, Page, SessionPC, WorkerPC,
     Inv, RefersInv, OutcomeInv, Outcome, ToldInv, PressInv, LoneWorkerInv, InHand, NoWorker,
     Untouched, WorkInv
<1>20. CASE UNCHANGED importVars
  BY <1>20 DEF importVars, rowVars, ImportTypeOK, Status, Result, Page, SessionPC, WorkerPC, Inv, RefersInv,
     OutcomeInv, Outcome, ToldInv, PressInv, LoneWorkerInv, InHand, NoWorker, Untouched, WorkInv
<1> QED
  BY <1>1, <1>2, <1>3, <1>4, <1>5, <1>6, <1>7, <1>8, <1>9, <1>10, <1>11, <1>12, <1>13, <1>14,
     <1>15, <1>16, <1>17, <1>18, <1>19, <1>20 DEF ImportNext, WorkerStep

\* ... and what the row tells of it.
LEMMA ResultStep ==
  ASSUME OnePress, Inv, ToldInv, [ImportNext]_importVars
  PROVE  ResultInv'
<1>1. ASSUME NEW u \in Upload, Preview(u) PROVE ResultInv'
  BY <1>1 DEF Preview, FilesKept, RowsKept, ImportTypeOK, Status, Result, Page, SessionPC, WorkerPC,
     Inv, RefersInv, OutcomeInv, Outcome, ToldInv, PressInv, LoneWorkerInv, InHand, NoWorker,
     Untouched, WorkInv, ResultInv
<1>2. ASSUME NEW u \in Upload, PreviewDies(u) PROVE ResultInv'
  BY <1>2 DEF PreviewDies, FilesKept, RowsKept, ImportTypeOK, Status, Result, Page, SessionPC,
     WorkerPC, Inv, RefersInv, OutcomeInv, Outcome, ToldInv, PressInv, LoneWorkerInv, InHand,
     NoWorker, Untouched, WorkInv, ResultInv
<1>3. ASSUME NEW u \in Upload, Poll(u) PROVE ResultInv'
  BY <1>3 DEF Poll, Found, Live, ImportTypeOK, Status, Result, Page, SessionPC, WorkerPC, Inv,
     RefersInv, OutcomeInv, Outcome, ToldInv, PressInv, LoneWorkerInv, InHand, NoWorker,
     Untouched, WorkInv, ResultInv
<1>4. ASSUME NEW u \in Upload, Expires(u) PROVE ResultInv'
  BY <1>4 DEF Expires, Live, rowVars, ImportTypeOK, Status, Result, Page, SessionPC, WorkerPC, Inv,
     RefersInv, OutcomeInv, Outcome, ToldInv, PressInv, LoneWorkerInv, InHand, NoWorker,
     Untouched, WorkInv, ResultInv
<1>5. ASSUME NEW s \in Session, NEW u \in Upload, PressImport(s, u) PROVE ResultInv'
  BY <1>5 DEF PressImport, Found, Live, Idle, rowVars, ImportTypeOK, Status, Result, Page, SessionPC,
     WorkerPC, Inv, RefersInv, OutcomeInv, Outcome, ToldInv, PressInv, LoneWorkerInv, InHand,
     NoWorker, Untouched, WorkInv, ResultInv
<1>6. ASSUME NEW s \in Session, MarkWaiting(s) PROVE ResultInv'
  BY <1>6 DEF MarkWaiting, Saves, Live, Idle, rowVars, ImportTypeOK, Status, Result, Page, SessionPC,
     WorkerPC, Inv, RefersInv, OutcomeInv, Outcome, ToldInv, PressInv, LoneWorkerInv, InHand,
     NoWorker, Untouched, WorkInv, ResultInv
<1>7. ASSUME NEW s \in Session, LaunchFails(s) PROVE ResultInv'
  BY <1>7 DEF LaunchFails, Saves, Live, Idle, rowVars, ImportTypeOK, Status, Result, Page, SessionPC,
     WorkerPC, Inv, RefersInv, OutcomeInv, Outcome, ToldInv, PressInv, LoneWorkerInv, InHand,
     NoWorker, Untouched, WorkInv, ResultInv
<1>8. ASSUME NEW s \in Session, PressDies(s) PROVE ResultInv'
  BY <1>8 DEF PressDies, Idle, rowVars, ImportTypeOK, Status, Result, Page, SessionPC, WorkerPC, Inv,
     RefersInv, OutcomeInv, Outcome, ToldInv, PressInv, LoneWorkerInv, InHand, NoWorker,
     Untouched, WorkInv, ResultInv
<1>9. ASSUME NEW s \in Session, NEW w \in Worker, LaunchImport(s, w) PROVE ResultInv'
  BY <1>9 DEF LaunchImport, Off, Idle, rowVars, ImportTypeOK, Status, Result, Page, SessionPC, WorkerPC,
     Inv, RefersInv, OutcomeInv, Outcome, ToldInv, PressInv, LoneWorkerInv, InHand, NoWorker,
     Untouched, WorkInv, ResultInv
<1>10. ASSUME NEW w \in Worker, Look(w) PROVE ResultInv'
  BY <1>10 DEF Look, At, Goes, Ends, Off, rowVars, ImportTypeOK, Status, Result, Page, SessionPC,
     WorkerPC, Inv, RefersInv, OutcomeInv, Outcome, ToldInv, PressInv, LoneWorkerInv, InHand,
     NoWorker, Untouched, WorkInv, ResultInv
<1>11. ASSUME NEW w \in Worker, MarkRunning(w) PROVE ResultInv'
  <2>1. \A x \in Worker : worker'[x].pc # "off" => worker[x].pc # "off" /\ worker'[x].upload = worker[x].upload
    BY <1>11 DEF MarkRunning, At, Goes, Ends, Off, Inv, ImportTypeOK
  <2>2. \A v \in Upload : result'[v] = result[v]
    BY <1>11 DEF MarkRunning, Saves, Inv, ImportTypeOK, rowVars
  <2>3. \A v \in Upload : status'[v] # status[v] => v = worker[w].upload /\ status'[v] = "running"
    BY <1>11 DEF MarkRunning, Saves, Inv, ImportTypeOK, rowVars
  <2>4. ~NoWorker(worker[w].upload)
    BY <1>11 DEF MarkRunning, NoWorker, At
  <2> QED
    BY <1>11, <2>1, <2>2, <2>3, <2>4 DEF MarkRunning, ToldInv, ResultInv, NoWorker
<1>12. ASSUME NEW w \in Worker, Plan(w) PROVE ResultInv'
  BY <1>12 DEF Plan, At, rowVars, ImportTypeOK, Status, Result, Page, SessionPC, WorkerPC, Inv,
     RefersInv, OutcomeInv, Outcome, ToldInv, PressInv, LoneWorkerInv, InHand, NoWorker,
     Untouched, WorkInv, ResultInv
<1>13. ASSUME NEW w \in Worker, Write(w) PROVE ResultInv'
  BY <1>13 DEF Write, At, Goes, rowVars, ImportTypeOK, Status, Result, Page, SessionPC, WorkerPC, Inv,
     RefersInv, OutcomeInv, Outcome, ToldInv, PressInv, LoneWorkerInv, InHand, NoWorker,
     Untouched, WorkInv, ResultInv
<1>14. ASSUME NEW w \in Worker, Done(w) PROVE ResultInv'
  BY <1>14 DEF Done, At, rowVars, ImportTypeOK, Status, Result, Page, SessionPC, WorkerPC, Inv,
     RefersInv, OutcomeInv, Outcome, ToldInv, PressInv, LoneWorkerInv, InHand, NoWorker,
     Untouched, WorkInv, ResultInv
<1>15. ASSUME NEW w \in Worker, Raises(w) PROVE ResultInv'
  BY <1>15 DEF Raises, At, rowVars, ImportTypeOK, Status, Result, Page, SessionPC, WorkerPC, Inv,
     RefersInv, OutcomeInv, Outcome, ToldInv, PressInv, LoneWorkerInv, InHand, NoWorker,
     Untouched, WorkInv, ResultInv
<1>16. ASSUME NEW w \in Worker, DeleteFile(w) PROVE ResultInv'
  BY <1>16 DEF DeleteFile, At, Goes, rowVars, ImportTypeOK, Status, Result, Page, SessionPC, WorkerPC,
     Inv, RefersInv, OutcomeInv, Outcome, ToldInv, PressInv, LoneWorkerInv, InHand, NoWorker,
     Untouched, WorkInv, ResultInv
<1>17. ASSUME NEW w \in Worker, SaveResult(w) PROVE ResultInv'
  BY <1>17 DEF SaveResult, At, Ends, Off, Saves, Live, rowVars, ImportTypeOK, Status, Result, Page,
     SessionPC, WorkerPC, Inv, RefersInv, OutcomeInv, Outcome, ToldInv, PressInv, LoneWorkerInv,
     InHand, NoWorker, Untouched, WorkInv, ResultInv
<1>18. ASSUME NEW w \in Worker, WorkerDies(w) PROVE ResultInv'
  BY <1>18 DEF WorkerDies, At, Ends, Off, rowVars, ImportTypeOK, Status, Result, Page, SessionPC,
     WorkerPC, Inv, RefersInv, OutcomeInv, Outcome, ToldInv, PressInv, LoneWorkerInv, InHand,
     NoWorker, Untouched, WorkInv, ResultInv
<1>19. CASE Purge
  BY <1>19 DEF Purge, FilesKept, RowsKept, ImportTypeOK, Status, Result, Page, SessionPC, WorkerPC,
     Inv, RefersInv, OutcomeInv, Outcome, ToldInv, PressInv, LoneWorkerInv, InHand, NoWorker,
     Untouched, WorkInv, ResultInv
<1>20. CASE UNCHANGED importVars
  BY <1>20 DEF importVars, rowVars, ImportTypeOK, Status, Result, Page, SessionPC, WorkerPC, Inv, RefersInv,
     OutcomeInv, Outcome, ToldInv, PressInv, LoneWorkerInv, InHand, NoWorker, Untouched,
     WorkInv, ResultInv
<1> QED
  BY <1>1, <1>2, <1>3, <1>4, <1>5, <1>6, <1>7, <1>8, <1>9, <1>10, <1>11, <1>12, <1>13, <1>14,
     <1>15, <1>16, <1>17, <1>18, <1>19, <1>20 DEF ImportNext, WorkerStep

\* Where presses of Import come one at a time: a result the page shows is of a file
\* whose rows were written once, and one that says nothing was saved is of a file
\* nothing was written from, unless its worker met an error after writing
\* (start_import, run, _finish).
THEOREM ToldWhenPressedOnce ==
  ASSUME OnePress
  PROVE  ImportSpec => []ToldAsSaved
<1>1. ImportInit => ToldInv
  BY DEF ImportInit, ToldInv, PressInv, LoneWorkerInv, WorkInv, ResultInv, InHand, NoWorker, Untouched,
     Idle, Off, Outcome
<1>2. Inv /\ ToldInv /\ [ImportNext]_importVars => ToldInv'
  BY PressStep, LoneWorkerStep, WorkStep, ResultStep DEF ToldInv
<1>3. ToldInv => ToldAsSaved
  BY DEF ToldInv, ResultInv, ToldAsSaved, Outcome
<1> QED
  BY <1>1, <1>2, <1>3, InvAlways, PTL DEF ImportSpec

=============================================================================
