---------------------------- MODULE RechargeCredits ----------------------------
(***************************************************************************)
(* The recharge events of one site (recharge/views.py) and what follows     *)
(* from each of them (accounting/services.py): a deposit in the basin       *)
(* recharge pool of the site's zone for the event's water year, and a       *)
(* credit to the water account the site names.  Logging an event is three   *)
(* commits of their own; an edit, a void or a correction is one             *)
(* transaction that takes back what the event put in and puts in anew.      *)
(*                                                                          *)
(* A pool is one row per zone and year that every event of the zone adds    *)
(* to and takes from, read and written under its row lock.  A transaction's *)
(* queries see what is committed then and its own changes (READ COMMITTED). *)
(* A credit is kept with the volume it was figured from; the share of it    *)
(* left in the basin is one figure for the site and left out.               *)
(***************************************************************************)
EXTENDS Transactions, Integers, FiniteSetsExt

CONSTANTS
  NEvents,   \* primary keys are 1 .. NEvents: a bound on events ever made
  Figure,    \* the pairs of volume (acre-feet) and water year an event may be given
  Zone,      \* zones the site may be put in
  Account,   \* water accounts the site may name
  Nobody,    \* no zone, no account: neither a zone nor an account
  MaxMoves   \* bound: how often the site is put in another zone or account

ASSUME NobodyAssumption == Nobody \notin Zone /\ Nobody \notin Account
ASSUME EventsAssumption == NEvents \in Nat /\ MaxMoves \in Nat /\ Figure \subseteq Nat \X Nat

Event == 1 .. NEvents
Volume == {f[1] : f \in Figure}
Year == {f[2] : f \in Figure}
Pool == Zone \X Year

VARIABLES
  event,    \* RechargeEvent, as committed
  site,     \* RechargeSite: its zone and its account
  pool,     \* AllocationCarryover of origin basin_recharge_pool; no row reads 0
  credit,   \* AccountCredit rows under each event's source key
  eventReq,      \* where each request stands
  moves,    \* how often the site was moved
  put,      \* history: the zone and account an event's water was put in under
  astray    \* history: something happened after which the pool is not claimed

rechargeVars == <<event, site, pool, credit, eventReq, moves, put, astray>>

-----------------------------------------------------------------------------
(* Types *)

EventRow == [state : {"unused", "current", "voided", "replaced"},
        volume : Volume \cup {0}, year : Year \cup {0}]
NoEvent == [state |-> "unused", volume |-> 0, year |-> 0]
Site == [zone : Zone \cup {Nobody}, account : Account \cup {Nobody}]
Nowhere == [zone |-> Nobody, account |-> Nobody]
Credit == [account : Account, year : Year, volume : Volume]

EventPC == {"idle", "deposit", "credit", "takeback", "save", "putin", "commit"}
EventIdle == [pc |-> "idle", for |-> 0, new |-> 0, was |-> NoEvent, now |-> NoEvent,
              site |-> Nowhere, looked |-> FALSE,
              events |-> Nothing, pools |-> Nothing, credits |-> Nothing, puts |-> Nothing]

IsRechargeRequest(r) ==
  /\ r \in [pc : EventPC, for : Event \cup {0}, new : Event \cup {0},
            was : EventRow, now : EventRow, site : Site, looked : BOOLEAN,
            events : {r.events}, pools : {r.pools}, credits : {r.credits}, puts : {r.puts}]
  /\ IsChanges(r.events, Event, EventRow)
  /\ IsChanges(r.pools, Pool, Int)
  /\ IsChanges(r.credits, Event, SUBSET Credit)
  /\ IsChanges(r.puts, Event, Site)

RechargeTypeOK ==
  /\ event \in [Event -> EventRow]
  /\ site \in Site
  /\ pool \in [Pool -> Int]
  /\ credit \in [Event -> SUBSET Credit]
  /\ put \in [Event -> Site]
  /\ moves \in 0 .. MaxMoves
  /\ astray \in BOOLEAN
  /\ eventReq = [s \in Session |-> eventReq[s]]
  /\ \A s \in Session : IsRechargeRequest(eventReq[s])

\* A site with its zone and its account named and nothing recorded.
RechargeInit ==
  /\ event = [e \in Event |-> NoEvent]
  /\ site \in [zone : Zone, account : Account]
  /\ pool = [p \in Pool |-> 0]
  /\ credit = [e \in Event |-> {}]
  /\ eventReq = [s \in Session |-> EventIdle]
  /\ moves = 0
  /\ put = [e \in Event |-> Nowhere]
  /\ astray = FALSE

-----------------------------------------------------------------------------
(* Transactions *)

EventHeld(s, e) == \E u \in Session \ {s} : e \in DOMAIN eventReq[u].events
CreditsHeld(s, e) == \E u \in Session \ {s} : e \in DOMAIN eventReq[u].credits
PoolHeldUnlocked(s, p) == FALSE
PoolHeld(s, p) == \E u \in Session \ {s} : p \in DOMAIN eventReq[u].pools

\* Bound: once astray, no further request begins.
Free(s) == eventReq[s].pc = "idle" /\ ~astray

\* Somebody else's request is at work on event e.
AtWork(s, e) == \E u \in Session \ {s} : e \in {eventReq[u].for, eventReq[u].new} \ {0}

\* The next primary key.
NewEvent ==
  {e \in Event :
     /\ event[e].state = "unused"
     /\ \A u \in Session : e \notin DOMAIN eventReq[u].events
     /\ \A f \in 1 .. e - 1 : \/ event[f].state # "unused"
                              \/ \E u \in Session : f \in DOMAIN eventReq[u].events}

\* deposit_to_basin_pool: the row is read under its lock and written.
Deposited(s, p, amount) == With(eventReq[s].pools, p, Over(pool, eventReq[s].pools)[p] + amount)

\* The credit of a row, to the account the site names.
CreditOf(row, under) ==
  IF under.account = Nobody THEN {}
  ELSE {[account |-> under.account, year |-> row.year, volume |-> row.volume]}

-----------------------------------------------------------------------------
(* Logging an event: recharge_event_create *)

\* The event is saved.  A site without a zone raises, and nothing follows.
Log(s, row) ==
  /\ Free(s)
  /\ \E e \in NewEvent :
       /\ event' = [event EXCEPT ![e] = row]
       /\ eventReq' = [eventReq EXCEPT ![s] =
            IF site.zone = Nobody THEN EventIdle
            ELSE [EventIdle EXCEPT !.pc = "deposit", !.for = e, !.now = row, !.site = site]]
  /\ UNCHANGED <<site, pool, credit, moves, put, astray>>

\* The deposit commits by itself.
Deposit(s) ==
  LET r == eventReq[s]
      p == <<r.site.zone, r.now.year>>
  IN /\ r.pc = "deposit"
     /\ ~PoolHeld(s, p)
     /\ pool' = [pool EXCEPT ![p] = @ + r.now.volume]
     /\ put' = [put EXCEPT ![r.for] = r.site]
     /\ eventReq' = [eventReq EXCEPT ![s].pc = "credit"]
     /\ UNCHANGED <<event, site, credit, moves, astray>>

\* So does the credit: replace_account_credits.
ReplaceCredits(s) ==
  LET r == eventReq[s] IN
  /\ r.pc = "credit"
  /\ ~CreditsHeld(s, r.for)
  /\ credit' = [credit EXCEPT ![r.for] = CreditOf(r.now, r.site)]
  /\ eventReq' = [eventReq EXCEPT ![s] = EventIdle]
  /\ UNCHANGED <<event, site, pool, moves, put, astray>>

\* The web worker dies, or a query fails, between the three commits.
Dies(s) ==
  /\ eventReq[s].pc \in {"deposit", "credit"}
  /\ eventReq' = [eventReq EXCEPT ![s] = EventIdle]
  /\ astray' = TRUE
  /\ UNCHANGED <<event, site, pool, credit, moves, put>>

-----------------------------------------------------------------------------
(* Changing an event *)

\* recharge_event_edit reads the event and its site before its transaction.
\* A struck event has no Edit on the page, but a page opened before still does.
Edit(s, e, row) ==
  /\ Free(s)
  /\ event[e].state # "unused"
  /\ eventReq' = [eventReq EXCEPT ![s] = [EventIdle EXCEPT
       !.pc = "takeback", !.for = e, !.new = e, !.was = event[e],
       !.now = [row EXCEPT !.state = event[e].state], !.site = site, !.looked = TRUE]]
  /\ astray' = (astray \/ AtWork(s, e) \/ event[e].state # "current")
  /\ UNCHANGED <<event, site, pool, credit, moves, put>>

\* void: the row is locked, read again and marked.
VoidEvent(s, e) ==
  /\ Free(s)
  /\ ~EventHeld(s, e)
  /\ event[e].state = "current"
  /\ eventReq' = [eventReq EXCEPT ![s] = [EventIdle EXCEPT
       !.pc = "takeback", !.for = e, !.was = event[e],
       !.events = With(Nothing, e, [event[e] EXCEPT !.state = "voided"])]]
  /\ astray' = (astray \/ AtWork(s, e))
  /\ UNCHANGED <<event, site, pool, credit, moves, put>>

\* correct: the old row is marked and the new one written beside it.
CorrectEvent(s, e, row) ==
  /\ Free(s)
  /\ ~EventHeld(s, e)
  /\ event[e].state = "current"
  /\ \E n \in NewEvent :
       eventReq' = [eventReq EXCEPT ![s] = [EventIdle EXCEPT
         !.pc = "takeback", !.for = e, !.new = n, !.was = event[e], !.now = row,
         !.events = With(With(Nothing, e, [event[e] EXCEPT !.state = "replaced"]), n, row)]]
  /\ astray' = (astray \/ AtWork(s, e))
  /\ UNCHANGED <<event, site, pool, credit, moves, put>>

\* remove_recharge_ledger_entries: the credit goes, and the volume comes out of
\* the pool of the zone the site is in NOW, which an edit looked up before.
TakeBack(s) ==
  LET r == eventReq[s]
      z == IF r.looked THEN r.site.zone ELSE site.zone
      p == <<z, r.was.year>>
  IN /\ r.pc = "takeback"
     /\ ~CreditsHeld(s, r.for)
     /\ z # Nobody => ~PoolHeld(s, p)
     /\ eventReq' = [eventReq EXCEPT ![s] = [r EXCEPT
          !.pc = IF r.new = 0 THEN "commit" ELSE IF r.new = r.for THEN "save" ELSE "putin",
          !.credits = With(r.credits, r.for, {}),
          !.puts = With(r.puts, r.for, Nowhere),
          !.pools = IF z = Nobody THEN r.pools ELSE Deposited(s, p, -r.was.volume)]]
     /\ astray' = (astray \/ z # put[r.for].zone)
     /\ UNCHANGED <<event, site, pool, credit, moves, put>>

\* form.save writes every column, the marks of a void as they were read.
SaveEdit(s) ==
  LET r == eventReq[s] IN
  /\ r.pc = "save"
  /\ ~EventHeld(s, r.for)
  /\ eventReq' = [eventReq EXCEPT ![s] = [r EXCEPT
                     !.pc = "putin", !.events = With(r.events, r.for, r.now)]]
  /\ UNCHANGED <<event, site, pool, credit, moves, put, astray>>

\* create_recharge_ledger_entries, at the site as it is now.
PutIn(s) ==
  LET r == eventReq[s]
      p == <<site.zone, r.now.year>>
  IN /\ r.pc = "putin"
     /\ site.zone # Nobody => ~PoolHeld(s, p) /\ ~CreditsHeld(s, r.new)
     /\ eventReq' = [eventReq EXCEPT ![s] =
          IF site.zone = Nobody THEN [r EXCEPT !.pc = "commit"]
          ELSE [r EXCEPT !.pc = "commit",
                  !.pools = Deposited(s, p, r.now.volume),
                  !.credits = With(r.credits, r.new, CreditOf(r.now, site)),
                  !.puts = With(r.puts, r.new, site)]]
     /\ UNCHANGED <<event, site, pool, credit, moves, put, astray>>

CommitEvent(s) ==
  LET r == eventReq[s] IN
  /\ r.pc = "commit"
  /\ event' = Over(event, r.events)
  /\ pool' = Over(pool, r.pools)
  /\ credit' = Over(credit, r.credits)
  /\ put' = Over(put, r.puts)
  /\ eventReq' = [eventReq EXCEPT ![s] = EventIdle]
  /\ UNCHANGED <<site, moves, astray>>

\* A refusal, an error, a crash or a deadlock PostgreSQL breaks.
RollbackEvent(s) ==
  /\ eventReq[s].pc \in {"takeback", "save", "putin", "commit"}
  /\ eventReq' = [eventReq EXCEPT ![s] = EventIdle]
  /\ UNCHANGED <<event, site, pool, credit, moves, put, astray>>

-----------------------------------------------------------------------------
(* The site *)

\* recharge_site_zone, set or cleared.
SetZone(z) ==
  /\ moves < MaxMoves
  /\ z # site.zone
  /\ site' = [site EXCEPT !.zone = z]
  /\ moves' = moves + 1
  /\ UNCHANGED <<event, pool, credit, eventReq, put, astray>>

\* recharge_site_account, named or cleared.
SetAccount(k) ==
  /\ moves < MaxMoves
  /\ k # site.account
  /\ site' = [site EXCEPT !.account = k]
  /\ moves' = moves + 1
  /\ UNCHANGED <<event, pool, credit, eventReq, put, astray>>

-----------------------------------------------------------------------------
Counts(f) == [state |-> "current", volume |-> f[1], year |-> f[2]]

RechargeStep(s) ==
  \/ \E f \in Figure : Log(s, Counts(f))
  \/ \E f \in Figure, e \in Event : Edit(s, e, Counts(f)) \/ CorrectEvent(s, e, Counts(f))
  \/ \E e \in Event : VoidEvent(s, e)
  \/ Deposit(s) \/ ReplaceCredits(s) \/ Dies(s)
  \/ TakeBack(s) \/ SaveEdit(s) \/ PutIn(s) \/ CommitEvent(s) \/ RollbackEvent(s)

RechargeNext ==
  \/ \E s \in Session : RechargeStep(s)
  \/ \E z \in Zone \cup {Nobody} : SetZone(z)
  \/ \E k \in Account \cup {Nobody} : SetAccount(k)

RechargeSpec == RechargeInit /\ [][RechargeNext]_rechargeVars

-----------------------------------------------------------------------------
(* Properties *)

\* The water of the events that count, put in for zone and year p.
PutInFor(p) ==
  LET there == {e \in Event : /\ event[e].state = "current"
                              /\ <<put[e].zone, event[e].year>> = p}
  IN MapThenSumSet(LAMBDA e : event[e].volume, there)

\* No request still has the credit of event e to write.
Credited(e) ==
  \A s \in Session : ~(eventReq[s].pc \in {"deposit", "credit"} /\ eventReq[s].for = e)

\* However the requests of several people on several events interleave, the
\* pool of a zone and year holds exactly the water of the events that count
\* and were put in there, and the account credited with an event is credited
\* once, with the event's own year and volume; a voided or replaced event has
\* no credit ("its credit and its basin pool entry move with it",
\* recharge/views.py:505).  Not claimed once a request died between its
\* commits, two worked on one event at once, a struck event was edited from a
\* page opened before, or an event was taken back after its site had been put
\* in another zone: the code takes it from the zone the site is in by then.
PoolHoldsWhatCounts ==
  ~astray =>
    /\ \A p \in Pool : pool[p] = PutInFor(p)
    /\ \A e \in Event : Credited(e) =>
         credit[e] = IF event[e].state = "current" THEN CreditOf(event[e], put[e]) ELSE {}

=============================================================================
