------------------------------ MODULE Rollover ------------------------------
(***************************************************************************)
(* What a water year leaves over, or owes, rolled into the next one          *)
(* (accounting/management/commands/rollover_allocations.py).                 *)
(*                                                                          *)
(* The command reads each zone's budget, then replaces the next year's       *)
(* carry-over rows in one transaction; it then reads each water account's    *)
(* budget and replaces the next year's credits in a second one.  It may die  *)
(* anywhere, and every read sees what the office and the engine have changed *)
(* by then.  A zone has at most one row of an origin in a year (the table's  *)
(* unique_together); a water account may have any number of credits.  The    *)
(* row trigger refuses every change to a row of a finalized year             *)
(* (accounting/locks.py).  One reporting period to a water year, groundwater *)
(* only: plans and pumping of other waters are left out, as the command      *)
(* leaves them.  Amounts are integers, so many of the ledger's last place.   *)
(***************************************************************************)
EXTENDS Integers, FiniteSets, Bags, FiniteSetsExt

CONSTANTS
  Zone,          \* integers: a zone stands for its primary key
  Account,       \* integers: a water account for its number
  Field,
  Openings,      \* the plans and the charges there may be at first
  ZoneOf,        \* the zone of each use area
  AccountOf,     \* the water account of each
  Acres,         \* the acres of each
  LastYear,      \* bound: the water years 1 .. LastYear can be rolled
  Budgets,       \* the allocations a zone may be given in a year
  Charges,       \* the groundwater a use area may be charged in a year
  Additions,     \* what a recharge or a seepage credit or deposit may add
  Nothing,       \* no allocation plan
  MaxEdits,      \* bound: the changes typed or calculated
  MaxToggles,    \* bound: the times a year is finalized or reopened
  MaxDeaths      \* bound: the commands that die

ASSUME ConstantsAssumption ==
  /\ Zone \subseteq Int /\ Account \subseteq Int
  /\ IsFiniteSet(Zone) /\ IsFiniteSet(Account) /\ IsFiniteSet(Field)
  /\ Openings \subseteq [plan : [Zone \X (1 .. LastYear) -> Budgets \cup {Nothing}],
                          charged : [Field \X (1 .. LastYear) -> Charges]]
  /\ \A f \in Field : ZoneOf[f] \in Zone /\ AccountOf[f] \in Account
  /\ Acres \in [Field -> Nat \ {0}]
  /\ LastYear \in Nat \ {0}
  /\ Budgets \subseteq Nat /\ Charges \subseteq Nat /\ Additions \subseteq Int
  /\ Nothing \notin Int
  /\ MaxEdits \in Nat /\ MaxToggles \in Nat /\ MaxDeaths \in Nat

Year == 1 .. LastYear               \* the years with a reporting period
AnyYear == 1 .. LastYear + 1        \* and the one the last is rolled into
Horizon == {"carry_forward", "same_water_year"}

VARIABLES
  plan,          \* AllocationPlan: the groundwater allocation, or Nothing
  charged,       \* the groundwater charged to a use area in a year by rows
                 \* that carry the year's reporting period
  loose,         \* the same by rows without one (gross crop water use)
  horizon,       \* Zone.recovery_horizon, "" where the agency's default holds
  default,       \* SiteConfig.default_recovery_horizon
  finalized,     \* the years finalized
  book,          \* AllocationCarryover: the rows of each year
  credit,        \* AccountCredit: the rows of each year
  run,           \* the command running
  fresh,         \* the years rolled on the figures as they stand
  edits, toggles, deaths

figures == <<plan, charged, loose, horizon, default>>
vars == <<plan, charged, loose, horizon, default, finalized, book, credit, run,
          fresh, edits, toggles, deaths>>

(* ------------------------------------------------------------------------ *)
(* What is left of a year.                                                  *)

\* n / d to the nearest integer, a tie to the even one, as Decimal.quantize.
Quantized(n, d) ==
  LET q == n \div d
      r == n % d
  IN IF 2 * r < d \/ (2 * r = d /\ q % 2 = 0) THEN q ELSE q + 1

Planned(y) == {z \in Zone : plan[<<z, y>>] # Nothing}
FieldsIn(z) == {f \in Field : ZoneOf[f] = z}
FieldsOf(a) == {f \in Field : AccountOf[f] = a}
AcresOf(F) == MapThenSumSet(LAMBDA f : Acres[f], F)

\* The zone's own choice, or else the agency's.
RecoveryHorizon(z) == IF horizon[z] = "" THEN default ELSE horizon[z]

\* What was rolled into a zone's year.
CarriedIn(z, y) ==
  MapThenSumSet(LAMBDA row : row.amount,
        {row \in book[y] : row.zone = z /\ row.origin = "allocation_carryover"})

\* The zone's pumping of the year, by the day of the rows.
UsageOf(z, y) == MapThenSumSet(LAMBDA f : charged[<<f, y>>] + loose[<<f, y>>], FieldsIn(z))

\* MUTANT: a debt carried into the year is not carried on.
ZoneNetForgiving(z, y, allocation) ==
  allocation + (IF CarriedIn(z, y) > 0 THEN CarriedIn(z, y) ELSE 0) - UsageOf(z, y)

\* A zone's remainder: what it was allocated and carried in, less what it used.
ZoneNet(z, y, allocation) == allocation + CarriedIn(z, y) - UsageOf(z, y)

\* The account's part, by acres, of the allocations of the planned zones it has
\* use areas in.
BudgetZones(a, y) == {z \in Planned(y) : FieldsOf(a) \cap FieldsIn(z) # {}}

AccountAllocation(a, y) ==
  LET acres == MapThenFoldSet(LAMBDA m, n : m * n, 1, LAMBDA z : AcresOf(FieldsIn(z)),
                              LAMBDA S : CHOOSE z \in S : TRUE, BudgetZones(a, y))
      PartOf(z) == plan[<<z, y>>] * AcresOf(FieldsOf(a) \cap FieldsIn(z))
                     * (acres \div AcresOf(FieldsIn(z)))
  IN Quantized(MapThenSumSet(PartOf, BudgetZones(a, y)), acres)

\* The account's credits of a year, whatever wrote them.
CreditsOf(a, y) ==
  MapThenSumSet(LAMBDA row : row.amount * credit[y][row],
                {row \in DOMAIN credit[y] : row.account = a})

\* The account's pumping of the year, by the reporting period of the rows.
ChargedTo(a, y) == MapThenSumSet(LAMBDA f : charged[<<f, y>>], FieldsOf(a))

\* MUTANT: what was credited to the account beside the carried amount is left out.
AccountNetCarried(a, y) ==
  AccountAllocation(a, y) - ChargedTo(a, y)
    + MapThenSumSet(LAMBDA row : row.amount * credit[y][row],
                    {row \in DOMAIN credit[y] : row.account = a /\ row.origin = "carried_forward"})

AccountNet(a, y) == AccountAllocation(a, y) + CreditsOf(a, y) - ChargedTo(a, y)

(* ------------------------------------------------------------------------ *)
(* The command.                                                             *)

Idle == [pc |-> "idle"]

Refused(old, new, y) == y \in finalized /\ (old # {} \/ new # {})

\* The command looks for a plan, and reads the plans of the year and the zones.
Begin(y) ==
  /\ run = Idle
  /\ Planned(y) # {}
  /\ run' = [pc |-> "zones", year |-> y, todo |-> Planned(y), results |-> {},
             budget |-> [z \in Planned(y) |-> plan[<<z, y>>]], own |-> horizon, clean |-> TRUE]
  /\ UNCHANGED <<figures, finalized, book, credit, fresh, edits, toggles, deaths>>

\* The pumping of the next zone is read, and what was carried into its year.
ReadZone ==
  /\ run.pc = "zones" /\ run.todo # {}
  /\ LET z == Min(run.todo)
         net == ZoneNet(z, run.year, run.budget[z])
     IN run' = [run EXCEPT !.todo = @ \ {z},
                           !.results = @ \cup {[zone |-> z, net |-> net]}]
  /\ UNCHANGED <<figures, finalized, book, credit, fresh, edits, toggles, deaths>>

OwnRows(y) == {row \in book[y] : row.origin = "allocation_carryover"}

\* A surplus that a zone lets expire is not carried; a debt always is.
CarriedRows(agency) ==
  LET Kept(z) == (IF run.own[z] = "" THEN agency ELSE run.own[z]) # "same_water_year"
  IN {[zone |-> r.zone, origin |-> "allocation_carryover", amount |-> r.net] :
        r \in {r \in run.results : Kept(r.zone) \/ r.net <= 0}}

Replaced(rows, own, new) == (rows \ own) \cup new

\* The next year's rows, replaced in one transaction.
StoreZones ==
  LET next == run.year + 1
      rows == Replaced(book[next], OwnRows(next), CarriedRows(default))
  IN /\ run.pc = "zones" /\ run.todo = {}
     /\ IF Refused(OwnRows(next), CarriedRows(default), next)
        THEN run' = Idle /\ UNCHANGED <<book, fresh>>
        ELSE /\ book' = [book EXCEPT ![next] = rows]
             /\ run' = [pc |-> "zonesStored", year |-> run.year, clean |-> run.clean]
             /\ fresh' = IF rows = book[next] THEN fresh ELSE fresh \ {next}
     /\ UNCHANGED <<figures, finalized, credit, edits, toggles, deaths>>

\* The command goes on to the water accounts.
BeginAccounts ==
  /\ run.pc = "zonesStored"
  /\ run' = [pc |-> "accounts", year |-> run.year, todo |-> Account, results |-> {},
             agency |-> default, clean |-> run.clean]
  /\ UNCHANGED <<figures, finalized, book, credit, fresh, edits, toggles, deaths>>

\* The next account is read.  It is left out where none of its zones has a plan.
ReadAccount ==
  LET a == Min(run.todo)
      zones == BudgetZones(a, run.year)
      Lets(z) == (IF horizon[z] = "" THEN run.agency ELSE horizon[z]) = "same_water_year"
      net == AccountNet(a, run.year)
      expires == net > 0 /\ \A z \in zones : Lets(z)
  IN /\ run.pc = "accounts" /\ run.todo # {}
     /\ run' = [run EXCEPT
                  !.todo = @ \ {a},
                  !.results = IF zones = {} \/ expires THEN @
                              ELSE @ \cup {[account |-> a, origin |-> "carried_forward",
                                            source |-> run.year, amount |-> net]}]
     /\ UNCHANGED <<figures, finalized, book, credit, fresh, edits, toggles, deaths>>

\* The credits an earlier run of the command wrote for the year.
OwnCredits(y, source) ==
  {row \in DOMAIN credit[y] : row.origin = "carried_forward" /\ row.source = source}

\* MUTANT: the credits of the last run stay.
WithoutNothing(rows, own) == rows

Without(rows, own) == [row \in DOMAIN rows \ own |-> rows[row]]

\* The next year's credits, replaced in a transaction of their own.
StoreAccounts ==
  LET next == run.year + 1
      own == OwnCredits(next, run.year)
      rows == Without(credit[next], own) (+) SetToBag(run.results)
  IN /\ run.pc = "accounts" /\ run.todo = {}
     /\ run' = Idle
     /\ IF Refused(own, run.results, next)
        THEN UNCHANGED <<credit, fresh>>
        ELSE /\ credit' = [credit EXCEPT ![next] = rows]
             /\ fresh' = (IF run.clean THEN fresh \cup {run.year} ELSE fresh)
                           \ (IF rows = credit[next] THEN {} ELSE {next})
     /\ UNCHANGED <<figures, finalized, book, edits, toggles, deaths>>

Die ==
  /\ run # Idle /\ deaths < MaxDeaths
  /\ run' = Idle
  /\ deaths' = deaths + 1
  /\ UNCHANGED <<figures, finalized, book, credit, fresh, edits, toggles>>

(* ------------------------------------------------------------------------ *)
(* The office, the engine and the recharge and canal screens.               *)

\* A change to the figures of these years: what was rolled on them is stale.
Change(years) ==
  /\ edits < MaxEdits
  /\ edits' = edits + 1
  /\ fresh' = fresh \ years
  /\ run' = IF run # Idle /\ run.year \in years THEN [run EXCEPT !.clean = FALSE] ELSE run
  /\ UNCHANGED <<finalized, toggles, deaths>>

SetPlan(z, y, v) ==
  /\ y \notin finalized
  /\ v # plan[<<z, y>>]
  /\ plan' = [plan EXCEPT ![<<z, y>>] = v]
  /\ Change({y})
  /\ UNCHANGED <<charged, loose, horizon, default, book, credit>>

Charge(f, y, v) ==
  /\ y \notin finalized
  /\ v # charged[<<f, y>>]
  /\ charged' = [charged EXCEPT ![<<f, y>>] = v]
  /\ Change({y})
  /\ UNCHANGED <<plan, loose, horizon, default, book, credit>>

ChargeLoose(f, y, v) ==
  /\ y \notin finalized
  /\ v # loose[<<f, y>>]
  /\ loose' = [loose EXCEPT ![<<f, y>>] = v]
  /\ Change({y})
  /\ UNCHANGED <<plan, charged, horizon, default, book, credit>>

\* The horizons belong to no year and are never closed.
SetHorizon(z, h) ==
  /\ h # horizon[z]
  /\ horizon' = [horizon EXCEPT ![z] = h]
  /\ Change(Year)
  /\ UNCHANGED <<plan, charged, loose, default, book, credit>>

SetDefault(h) ==
  /\ h # default
  /\ default' = h
  /\ Change(Year)
  /\ UNCHANGED <<plan, charged, loose, horizon, book, credit>>

\* Water that belongs to no account goes to the zone's pool: added to the row of
\* its origin.
DepositToPool(z, y, amount) ==
  LET old == {row \in book[y] : row.zone = z /\ row.origin = "pool"}
      held == MapThenSumSet(LAMBDA row : row.amount, old)
      new == [zone |-> z, origin |-> "pool", amount |-> held + amount]
  IN /\ y \notin finalized
     /\ book' = [book EXCEPT ![y] = (@ \ old) \cup {new}]
     /\ Change({})
     /\ UNCHANGED <<figures, credit>>

\* A recharge or a seepage credit for one account.
CreditAccount(a, y, amount) ==
  LET row == [account |-> a, origin |-> "other", source |-> 0, amount |-> amount]
  IN /\ y \notin finalized
     /\ credit' = [credit EXCEPT ![y] = @ (+) SetToBag({row})]
     /\ Change({y})
     /\ UNCHANGED <<figures, book>>

\* A year is finalized, or reopened.
Toggle(y) ==
  /\ toggles < MaxToggles
  /\ finalized' = IF y \in finalized THEN finalized \ {y} ELSE finalized \cup {y}
  /\ toggles' = toggles + 1
  /\ UNCHANGED <<figures, book, credit, run, fresh, edits, deaths>>

Office ==
  \/ \E z \in Zone, y \in Year, v \in Budgets \cup {Nothing} : SetPlan(z, y, v)
  \/ \E f \in Field, y \in Year, v \in Charges : Charge(f, y, v) \/ ChargeLoose(f, y, v)
  \/ \E z \in Zone, h \in Horizon \cup {""} : SetHorizon(z, h)
  \/ \E h \in Horizon : SetDefault(h)
  \/ \E z \in Zone, y \in AnyYear, v \in Additions : DepositToPool(z, y, v)
  \/ \E a \in Account, y \in AnyYear, v \in Additions : CreditAccount(a, y, v)
  \/ \E y \in Year : Toggle(y)

Init ==
  /\ \E opening \in Openings : plan = opening.plan /\ charged = opening.charged
  /\ loose = [c \in Field \X Year |-> 0]
  /\ horizon \in [Zone -> {"", "same_water_year"}]
  /\ default = "carry_forward"
  /\ finalized = {}
  /\ book = [y \in AnyYear |-> {}]
  /\ credit = [y \in AnyYear |-> EmptyBag]
  /\ run = Idle
  /\ fresh = {}
  /\ edits = 0 /\ toggles = 0 /\ deaths = 0

Next ==
  \/ \E y \in Year : Begin(y)
  \/ ReadZone
  \/ StoreZones
  \/ BeginAccounts
  \/ ReadAccount
  \/ StoreAccounts
  \/ Die
  \/ Office

Spec == Init /\ [][Next]_vars

(* ------------------------------------------------------------------------ *)
(* Properties.                                                              *)

CarriedCredit == [account : Account, origin : {"carried_forward"}, source : Year, amount : Int]
OtherCredit == [account : Account, origin : {"other"}, source : {0}, amount : Int]

RunOK ==
  \/ run = Idle
  \/ /\ run.pc \in {"zones", "zonesStored", "accounts"}
     /\ run.year \in Year /\ run.clean \in BOOLEAN
     /\ run.pc = "zones" => run.todo \subseteq Zone
     /\ run.pc = "accounts" => /\ run.todo \subseteq Account
                               /\ run.results \subseteq CarriedCredit

\* Every variable has its type, and a zone never has two rows of one origin in a
\* year: the roll that replaces its rows never meets the table's unique_together.
TypeOK ==
  /\ plan \in [Zone \X Year -> Budgets \cup {Nothing}]
  /\ charged \in [Field \X Year -> Charges \cup {0}]
  /\ loose \in [Field \X Year -> Charges \cup {0}]
  /\ horizon \in [Zone -> Horizon \cup {""}] /\ default \in Horizon
  /\ finalized \subseteq Year /\ fresh \subseteq Year
  /\ \A y \in AnyYear :
       /\ book[y] \subseteq [zone : Zone, origin : {"allocation_carryover", "pool"}, amount : Int]
       /\ \A r, s \in book[y] : r.zone = s.zone /\ r.origin = s.origin => r = s
       /\ DOMAIN credit[y] \subseteq CarriedCredit \cup OtherCredit
       /\ IsABag(credit[y])
  /\ RunOK
  /\ edits \in 0 .. MaxEdits /\ toggles \in 0 .. MaxToggles /\ deaths \in 0 .. MaxDeaths

RolledUpTo(y) == 1 .. y \subseteq fresh

\* What years first .. y leave together.
LeftBetween(z, first, y) == MapThenSumSet(LAMBDA i : plan[<<z, i>>] - UsageOf(z, i), first .. y)

\* The books of a zone, without the command: all it was ever allocated less all
\* it ever used; and where its surplus expires, the deepest debt that no later
\* year has worked off.
Standing(z, y) ==
  IF RecoveryHorizon(z) = "carry_forward" THEN LeftBetween(z, 1, y)
  ELSE Min({0} \cup {LeftBetween(z, first, y) : first \in 1 .. y})

\* Once the years up to y are rolled on the figures as they stand, in whatever
\* order and through whatever deaths and half-read changes, the next year opens
\* with the standing of the zone: a surplus is there once, a debt is carried in
\* full until it is worked off, an expired surplus is gone, and no pool of the
\* basin is in it (_budget_results, _decide_expiring_surplus,
\* _replace_carryover_rows).  A zone without a plan in one of the years is left
\* out: the command drops what such a zone owed.
CarryIsStanding ==
  \A y \in Year, z \in Zone :
    RolledUpTo(y) /\ (\A i \in 1 .. y : plan[<<z, i>>] # Nothing)
      => CarriedIn(z, y + 1) = Standing(z, y)

\* All the water added to the accounts' credits beside what was carried.
OtherCredits(y) ==
  MapThenSumSet(LAMBDA row : row.amount * credit[y][row],
                {row \in DOMAIN credit[y] : row.origin = "other"})

\* What the accounts open a year with that was not added to them.
AccountsOpen(y) == MapThenSumSet(LAMBDA a : CreditsOf(a, y), Account) - OtherCredits(y)

ZonesOpen(y) == MapThenSumSet(LAMBDA z : CarriedIn(z, y), Zone)

\* What only the accounts count, in years 1 .. y: the credits added to them, and
\* the pumping no reporting period is on.
OnlyInAccounts(y) ==
  MapThenSumSet(LAMBDA i : OtherCredits(i) + MapThenSumSet(LAMBDA f : loose[<<f, i>>], Field),
                1 .. y)

\* The two books are rolled in two transactions and from different figures, yet
\* where every surplus is carried they tell one story: once the years up to y
\* are rolled, what the water accounts carry is what the zones carry, what was
\* credited to accounts, and the pumping that carries no reporting period and so
\* was charged to the zones alone, to within half a unit an account and a year
\* of rounding (_account_results beside _budget_results).
AccountsAddUp ==
  \A y \in Year :
    RolledUpTo(y) /\ (\A z \in Zone : RecoveryHorizon(z) = "carry_forward")
      /\ (\A i \in 1 .. y, z \in Zone : plan[<<z, i>>] # Nothing)
      => LET off == AccountsOpen(y + 1) - ZonesOpen(y + 1) - OnlyInAccounts(y)
         IN 2 * (IF off < 0 THEN -off ELSE off) <= y * Cardinality(Account)

\* Rolling a year once more on the same figures leaves every row of the next one
\* as it was: nothing is banked twice.
RerollChangesNothing ==
  [][run # Idle /\ run.clean /\ run.year \in fresh /\ run'.pc # run.pc
       => book' = book /\ credit' = credit]_vars
=============================================================================
