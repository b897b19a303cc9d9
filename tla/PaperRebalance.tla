--------------------------- MODULE PaperRebalance ---------------------------
(***************************************************************************)
(* DynamicPaperRebalanceService.run on one paper portfolio: runs of the    *)
(* scheduled job, which the portfolio's lease keeps apart, and runs of the *)
(* HTTP route POST /dynamic-rebalance, which takes no lease and whose      *)
(* as_of the client chooses.                                               *)
(*                                                                         *)
(* A run reads the portfolio in two statements, decides and plans, submits *)
(* its orders one transaction at a time, and saves its decision.  Scores,  *)
(* guards and overlays are the market's choice: the selection may be any   *)
(* set that the rules on holdings, cooldown and confirmations allow.       *)
(* Quantities are cut to whole units.                                      *)
(***************************************************************************)
EXTENDS PaperLedger

CONSTANTS
  Runs,                    \* calls of run
  Account,                 \* the portfolio that is rebalanced
  Identity,                \* its purpose and cash asset
  InitialCash,             \* its initial cash
  Levels,                  \* prices an asset may have
  MaximumPositions,        \* policy.maximum_positions
  InvestedPercent,         \* policy.invested_fraction
  AssetPercent,            \* policy.maximum_asset_weight
  MinimumOrderNotional,    \* policy.minimum_order_notional
  RebalancePercent,        \* policy.minimum_rebalance_fraction
  FeePercent,              \* policy.exchange_fee_rate
  SlippagePercent,         \* slippage of paper-fill-v2, 0 for paper-fill-v1
  RequiredConfirmations,   \* policy.required_entry_confirmations
  Cooldown,                \* policy.reentry_cooldown
  MaximumHolding,          \* policy.maximum_holding_period
  DayLength,               \* ticks of a UTC day
  SellWeightPercent,       \* policy.turnover_sell_weight
  TurnoverPercent,         \* policy.maximum_daily_turnover_fraction
  DailyFeePercent,         \* policy.maximum_daily_fee_fraction
  LossPercent,             \* policy.maximum_daily_realized_loss_fraction
  JobExecutes,             \* settings.runtime_dynamic_paper_execute
  Deadline,                \* planned end of the observed experiment
  ClientAsOf,              \* as_of values that clients of the route send
  MaxClock,                \* bound on the clock
  MaxCrashes               \* bound on crashed runs

ASSUME RebalanceAssumption ==
  /\ Account \in Portfolios
  /\ Identity \in Identities
  /\ InitialCash \in Nat
  /\ Levels \subseteq Nat \ {0}
  /\ \A l \in Levels : l <= MinimumOrderNotional
  /\ {MaximumPositions, RequiredConfirmations, DayLength} \subseteq Nat \ {0}
  /\ {InvestedPercent, AssetPercent, RebalancePercent, FeePercent} \subseteq 0 .. 100
  /\ SlippagePercent \in 0 .. 99
  /\ {MinimumOrderNotional, Cooldown, MaximumHolding, SellWeightPercent, TurnoverPercent,
      DailyFeePercent, LossPercent, Deadline, MaxClock, MaxCrashes} \subseteq Nat
  /\ JobExecutes \in BOOLEAN
  /\ ClientAsOf \subseteq Nat
  /\ ((0 .. MaxClock) \cup ClientAsOf) \X Assets \X Sides \subseteq IntentIds

VARIABLES
  clock,      \* the time
  at,         \* run -> where it stands
  command,    \* run -> its DynamicPaperRebalanceCommand
  seen,       \* run -> the PaperPortfolioSnapshot it read
  equity,     \* run -> the equity it computed
  todo,       \* run -> planned orders not yet submitted
  planned,    \* run -> all planned orders
  passing,    \* run -> assets whose score exceeds the entry hurdle
  decisions,  \* rows of paper_rebalance_decision
  crashes     \* runs lost to a crash

runVars == <<at, command, seen, equity, todo, planned, passing>>

vars == <<ledgerVars, clock, runVars, decisions, crashes>>
----------------------------------------------------------------------------
Points == {"idle", "reading", "read", "executing", "saving", "done", "failed", "rejected",
           "crashed"}

Active == {"reading", "read", "executing", "saving"}

Commands == [origin : {"job", "route"}, asOf : Nat, execute : BOOLEAN]

NoCommand == [origin |-> "job", asOf |-> 0, execute |-> FALSE]

Snapshots == [cash : Nat, quantity : [Assets -> Nat]]

Orders == [asset : Assets, side : Sides, quantity : Nat, price : Nat, notional : Nat]

Decisions == [asOf : Nat, status : {"EXECUTED", "DRY_RUN"}, orders : SUBSET Orders,
              passing : SUBSET Assets]
----------------------------------------------------------------------------
(* Reading the market and the history *)

Held(s) == {a \in Assets : s.quantity[a] > 0}

\* price is a function on the assets that have 15-minute data.
EquityAt(s, price) == s.cash + MapThenSumSet(LAMBDA a : s.quantity[a] * price[a], Held(s))

\* Mutant of _recent_exits: the cooldown ends one tick early.
RecentExitsShort(asOf) ==
  {executions[n].asset : n \in {m \in DOMAIN executions :
     /\ executions[m].side = "SELL"
     /\ asOf - Cooldown + 1 < executions[m].at
     /\ executions[m].at <= asOf}}

\* _recent_exits
RecentExits(asOf) ==
  {executions[n].asset : n \in {m \in DOMAIN executions :
     /\ executions[m].side = "SELL"
     /\ asOf - Cooldown < executions[m].at
     /\ executions[m].at <= asOf}}

\* Quantity of an asset after the first n executions.
QuantityAfter(a, n) ==
  Running([m \in DOMAIN executions |-> QuantityFlow(executions[m], a)])[n]

\* The n-th execution opens a position.
Opens(n) == executions[n].side = "BUY" /\ QuantityAfter(executions[n].asset, n - 1) = 0

\* _expired_holdings: the open position was opened maximum_holding_period ago.
Expired(asOf) ==
  {a \in Assets :
     /\ QuantityAfter(a, Len(executions)) > 0
     /\ LET opens == {n \in DOMAIN executions : executions[n].asset = a /\ Opens(n)}
        IN  asOf - executions[Max(opens)].at >= MaximumHolding}

\* list_rebalance_decisions, as_of descending, cut to the first n.
LatestDecisions(n) ==
  {d \in decisions : Cardinality({e \in decisions : e.asOf > d.asOf}) < n}

\* Mutant of _prior_confirmation_counts: a decision that is missing counts.
ConfirmedByDefault(a) ==
  \A d \in LatestDecisions(RequiredConfirmations - 1) : a \in d.passing

\* _prior_confirmation_counts reaches RequiredConfirmations - 1.
Confirmed(a) ==
  LET prior == LatestDecisions(RequiredConfirmations - 1)
  IN  /\ Cardinality(prior) = RequiredConfirmations - 1
      /\ \A d \in prior : a \in d.passing

\* _select_detailed: any selection the rules allow, the scores being what they are.
Selections(s, asOf, data, pass) ==
  LET entrants == {a \in (data \cap pass) \ (Held(s) \cup RecentExits(asOf)) : Confirmed(a)}
      retained == (Held(s) \cap data) \ Expired(asOf)
  IN  {c \in SUBSET (retained \cup entrants) : Cardinality(c) <= MaximumPositions}

\* Mutant of the target weight: invested_fraction is not applied.
TargetNotionalUncapped(total, n) == (Min({100, AssetPercent * n}) * total) \div (100 * n)

\* target_weight times equity
TargetNotional(total, n) ==
  (Min({InvestedPercent, AssetPercent * n}) * total) \div (100 * n)

Today(asOf) ==
  {n \in DOMAIN executions : executions[n].at >= (asOf \div DayLength) * DayLength}

\* Notional as it counts for the turnover budget, in hundredths.
Turnover(x) == Notional(x) * (IF x.side = "SELL" THEN SellWeightPercent ELSE 100)

\* _daily_risk_violations is not empty.
BudgetExhausted(total, asOf) ==
  LET today(f(_)) == MapThenSumSet(LAMBDA n : f(executions[n]), Today(asOf))
  IN  \/ today(Turnover) >= total * TurnoverPercent
      \/ 100 * today(LAMBDA x : x.fee) >= total * DailyFeePercent
      \/ 100 * today(LAMBDA x : x.pnl) <= -(total * LossPercent)

Abs(n) == IF n < 0 THEN -n ELSE n

\* Mutant of the threshold: the minimum order notional is not part of it.
WorthTradingByFraction(total, difference) == 100 * Abs(difference) >= total * RebalancePercent

\* The threshold below which an asset is left as it is.
WorthTrading(total, difference) ==
  /\ Abs(difference) >= MinimumOrderNotional
  /\ 100 * Abs(difference) >= total * RebalancePercent

\* _plan: one order for every asset whose target differs enough from what is held,
\* no BUY where it is blocked, and the exact position where the target is zero.
Plan(s, price, total, chosen, blocked) ==
  LET target(a) == IF a \in chosen THEN TargetNotional(total, Cardinality(chosen)) ELSE 0
      diff(a) == target(a) - s.quantity[a] * price[a]
      rows == {a \in Held(s) \cup chosen :
                 WorthTrading(total, diff(a)) /\ ~(diff(a) > 0 /\ a \in blocked)}
      part(a) == Abs(diff(a)) \div price[a]
  IN  {[asset |-> a,
        side |-> IF diff(a) > 0 THEN "BUY" ELSE "SELL",
        quantity |-> IF diff(a) > 0 THEN part(a)
                     ELSE IF target(a) = 0 THEN s.quantity[a] ELSE Min({part(a), s.quantity[a]}),
        price |-> price[a],
        notional |-> Abs(diff(a))] : a \in rows}
----------------------------------------------------------------------------
(* Submitting an order *)

\* The intent id is a hash of the portfolio, as_of, the pair and the side.
Intent(r, o) ==
  [id |-> <<command[r].asOf, o.asset, o.side>>, portfolio |-> Account, identity |-> Identity,
   asset |-> o.asset, side |-> o.side, quantity |-> o.quantity]

\* DeterministicRiskEngine.approve_order, the largest order being the equity.  The
\* notional is the planned one, before the quantity is cut to whole units.
Approves(r, o) == MinimumOrderNotional <= o.notional /\ o.notional <= equity[r]

\* PaperExchangeGateway.submit fills the whole quantity at the slipped price.
Report(o) ==
  LET slip == IF o.side = "BUY" THEN SlippagePercent ELSE -SlippagePercent
      price == (o.price * (100 + slip)) \div 100
  IN  [side |-> o.side, quantity |-> o.quantity, price |-> price,
       fee |-> (o.quantity * price * FeePercent) \div 100]
----------------------------------------------------------------------------
Init ==
  /\ LedgerInit
  /\ clock = 0
  /\ at = [r \in Runs |-> "idle"]
  /\ command = [r \in Runs |-> NoCommand]
  /\ seen = [r \in Runs |-> [cash |-> 0, quantity |-> [a \in Assets |-> 0]]]
  /\ equity = [r \in Runs |-> 0]
  /\ todo = [r \in Runs |-> {}]
  /\ planned = [r \in Runs |-> {}]
  /\ passing = [r \in Runs |-> {}]
  /\ decisions = {}
  /\ crashes = 0

Goto(r, point) == at' = [at EXCEPT ![r] = point]

Tick ==
  /\ clock < MaxClock
  /\ clock' = clock + 1
  /\ UNCHANGED <<ledgerVars, runVars, decisions, crashes>>

\* The engine starts: it creates the portfolio, unless it exists.
Bootstrap ==
  /\ Create(Account, Identity, InitialCash)
  /\ UNCHANGED <<clock, runVars, decisions, crashes>>

\* run begins; get reads the row of the portfolio, which must exist.
Begin(r, c) ==
  /\ at[r] = "idle"
  /\ portfolio[Account] # NoPortfolio
  /\ command' = [command EXCEPT ![r] = c]
  /\ Goto(r, "reading")
  /\ seen' = [seen EXCEPT ![r].cash = portfolio[Account].cash]
  /\ UNCHANGED <<ledgerVars, clock, equity, todo, planned, passing, decisions, crashes>>

\* Mutant of the scheduled lane: a minute may run twice.
BeginJobAgain(r) ==
  /\ \A q \in Runs : command[q].origin = "job" => at[q] \notin Active
  /\ Begin(r, [origin |-> "job", asOf |-> clock, execute |-> JobExecutes])

\* The scheduled lane: as_of is the current time, one run at a time, each with an
\* as_of of its own.
BeginJob(r) ==
  /\ \A q \in Runs : command[q].origin = "job" /\ at[q] # "idle" =>
       at[q] \notin Active /\ command[q].asOf < clock
  /\ Begin(r, [origin |-> "job", asOf |-> clock, execute |-> JobExecutes])

\* The HTTP route, with the as_of of the request.
BeginRoute(r, asOf, execute) ==
  Begin(r, [origin |-> "route", asOf |-> asOf, execute |-> execute])

\* get reads the positions, in a statement of its own.
ReadPositions(r) ==
  /\ at[r] = "reading"
  /\ Goto(r, "read")
  /\ seen' = [seen EXCEPT ![r].quantity = [a \in Assets |-> positions[Account][a].quantity]]
  /\ UNCHANGED <<ledgerVars, clock, command, equity, todo, planned, passing, decisions,
                 crashes>>

\* No universe snapshot, or no 15-minute data for a held asset: run raises.
CannotValue(r) ==
  /\ at[r] = "read"
  /\ Goto(r, "failed")
  /\ UNCHANGED <<ledgerVars, clock, command, seen, equity, todo, planned, passing, decisions,
                 crashes>>

\* The decision on a market and its plan.  Before the first order an observed job
\* raises once its experiment has reached its planned end, and the risk policy raises
\* when the equity is below the minimum order notional.
DecideOn(r, data, price, pass) ==
  LET c == command[r]
      total == EquityAt(seen[r], price)
  IN  /\ Held(seen[r]) \subseteq data
      /\ passing' = [passing EXCEPT ![r] = pass]
      /\ equity' = [equity EXCEPT ![r] = total]
      /\ \E chosen \in Selections(seen[r], c.asOf, data, pass),
            lossBlocked \in SUBSET Held(seen[r]) :
           planned' = [planned EXCEPT ![r] = Plan(seen[r], price, total, chosen,
             IF BudgetExhausted(total, c.asOf) THEN Assets ELSE lossBlocked)]
      /\ IF ~c.execute THEN Goto(r, "saving") /\ UNCHANGED todo
         ELSE IF total < MinimumOrderNotional \/ (c.origin = "job" /\ clock >= Deadline)
         THEN Goto(r, "failed") /\ UNCHANGED todo
         ELSE Goto(r, "executing") /\ todo' = [todo EXCEPT ![r] = planned'[r]]

\* Some assets have data, at some prices, and some of them pass the entry hurdle.
Decide(r) ==
  /\ at[r] = "read"
  /\ \E data \in SUBSET Assets : \E price \in [data -> Levels] : \E pass \in SUBSET data :
       DecideOn(r, data, price, pass)
  /\ UNCHANGED <<ledgerVars, clock, command, seen, decisions, crashes>>

\* The next order, sells before buys.
NextOrders(r) ==
  {o \in todo[r] : o.side = "BUY" => \A q \in todo[r] : q.side = "BUY"}

\* Mutant of the error path: the order is skipped and the loop goes on.
SkipRejected(r, o) == todo' = [todo EXCEPT ![r] = @ \ {o}] /\ UNCHANGED <<ledgerVars, at>>

\* The exception leaves run: the rest of the plan is abandoned, no decision saved.
Abandon(r, o) == Goto(r, "rejected") /\ UNCHANGED <<ledgerVars, todo>>

\* One pass of the loop of _execute: the order is applied, or it was applied before
\* and apply_execution returns False, which nobody looks at; or the risk engine or
\* the ledger raises, and the rest of the plan is abandoned.
ExecuteOrder(r) ==
  /\ at[r] = "executing"
  /\ \E o \in NextOrders(r) :
       LET i == Intent(r, o)
       IN  \/ /\ Approves(r, o)
              /\ \/ ApplyExecution(i, Report(o), clock)
                 \/ Duplicate(i) /\ UNCHANGED ledgerVars
              /\ todo' = [todo EXCEPT ![r] = @ \ {o}]
              /\ UNCHANGED at
           \/ /\ ~Approves(r, o) \/ (~Duplicate(i) /\ ~Accepts(i, Report(o)))
              /\ Abandon(r, o)
  /\ UNCHANGED <<clock, command, seen, equity, planned, passing, decisions, crashes>>

\* All orders have been submitted: every plan is marked PAPER_FILLED.
Executed(r) ==
  /\ at[r] = "executing"
  /\ todo[r] = {}
  /\ Goto(r, "saving")
  /\ UNCHANGED <<ledgerVars, clock, command, seen, equity, todo, planned, passing, decisions,
                 crashes>>

\* persist_decision: the job always persists, the route only when it executes.
Persists(c) == c.origin = "job" \/ c.execute

Decision(r) ==
  [asOf |-> command[r].asOf, status |-> IF command[r].execute THEN "EXECUTED" ELSE "DRY_RUN",
   orders |-> planned[r], passing |-> passing[r]]

\* _save_decision: INSERT OR IGNORE, the id being a hash of the portfolio, as_of and
\* the strategy version.
SaveDecision(r) ==
  /\ at[r] = "saving"
  /\ decisions' = IF Persists(command[r]) /\ \A d \in decisions : d.asOf # command[r].asOf
                  THEN decisions \cup {Decision(r)} ELSE decisions
  /\ Goto(r, "done")
  /\ UNCHANGED <<ledgerVars, clock, command, seen, equity, todo, planned, passing, crashes>>

\* The process of the run dies; the ledger keeps what was committed.
Crash(r) ==
  /\ at[r] \in Active
  /\ crashes < MaxCrashes
  /\ crashes' = crashes + 1
  /\ Goto(r, "crashed")
  /\ UNCHANGED <<ledgerVars, clock, command, seen, equity, todo, planned, passing, decisions>>

Next ==
  \/ Tick
  \/ Bootstrap
  \/ \E r \in Runs :
       \/ \E asOf \in ClientAsOf, execute \in BOOLEAN : BeginRoute(r, asOf, execute)
       \/ BeginJob(r) \/ ReadPositions(r) \/ CannotValue(r) \/ Decide(r)
       \/ ExecuteOrder(r) \/ Executed(r) \/ SaveDecision(r) \/ Crash(r)

Spec == Init /\ [][Next]_vars
----------------------------------------------------------------------------
(* Properties *)

RunsTypeOK ==
  /\ clock \in Nat
  /\ at \in [Runs -> Points]
  /\ command \in [Runs -> Commands]
  /\ seen \in [Runs -> Snapshots]
  /\ equity \in [Runs -> Nat]
  /\ todo \in [Runs -> SUBSET Orders]
  /\ planned \in [Runs -> SUBSET Orders]
  /\ passing \in [Runs -> SUBSET Assets]
  /\ decisions \in SUBSET Decisions
  /\ crashes \in Nat

\* The rows of the ledger and the state of the runs are well formed; in particular
\* no interleaving of runs leaves a negative balance or position.
TypeOK == LedgerTypeOK /\ RunsTypeOK

\* The planner and the risk engine agree: every order of a plan is at least the
\* minimum notional and at most the equity, so that approve_order never raises in
\* the middle of a plan, however stale the snapshot the plan was made from.
PlansAreApproved ==
  \A r \in Runs : at[r] = "executing" => \A o \in todo[r] : Approves(r, o)

\* A run that no other run interferes with is funded to the end: its sells and the
\* uninvested part of the equity pay for its buys, fees and slippage, so that no
\* plan is abandoned half way.  (Scheduled runs only.)
PlansAreFunded == \A r \in Runs : at[r] # "rejected"

\* An order's intent has been executed.
Backed(asOf, o) ==
  \E n \in DOMAIN executions : executions[n].intent = <<asOf, o.asset, o.side>>

\* Every order of a saved EXECUTED decision is backed by the execution of its
\* intent, though _execute never looks at what apply_execution returned and a
\* retried as_of plans its orders anew.
AuditIsBacked ==
  \A d \in decisions : d.status = "EXECUTED" =>
    \A o \in d.orders : Backed(d.asOf, o)

\* A PAPER_FILLED order of a saved decision was filled with the quantity that the
\* decision shows.  (Scheduled runs only: each has an as_of of its own.)
AuditTellsFills ==
  \A d \in decisions : d.status = "EXECUTED" =>
    \A o \in d.orders : \E n \in DOMAIN executions :
      /\ executions[n].intent = <<d.asOf, o.asset, o.side>>
      /\ executions[n].quantity = o.quantity

AsOf(x) == x.intent[1]

\* ADR 0026: a new asset must exceed the score hurdle in two consecutive decisions.
\* A BUY that opens a position follows enough earlier decisions it had passed.
EntryIsConfirmed ==
  \A n \in DOMAIN executions : Opens(n) =>
    Cardinality({d \in decisions : /\ d.asOf < AsOf(executions[n])
                                   /\ executions[n].asset \in d.passing})
      >= RequiredConfirmations - 1

\* README: a sold asset cannot be re-entered for one hour.
CooldownHolds ==
  \A m, n \in DOMAIN executions :
    /\ m < n
    /\ executions[m].side = "SELL"
    /\ Opens(n)
    /\ executions[m].asset = executions[n].asset
    => executions[n].at - executions[m].at >= Cooldown
----------------------------------------------------------------------------
(* The account that the portfolio is to the runs *)

\* What a row of paper_execution says of the account.
FillOf(x) ==
  [intent |-> x.intent, asset |-> x.asset, side |-> x.side, quantity |-> x.quantity,
   cost |-> Notional(x), fee |-> x.fee]

Book == INSTANCE PaperAccount WITH
  Deposit <- InitialCash,
  opened <- portfolio[Account] # NoPortfolio,
  cash <- portfolio[Account].cash,
  held <- [a \in Assets |-> positions[Account][a].quantity],
  fills <- {FillOf(executions[n]) : n \in DOMAIN executions}

\* To whoever trades on it the portfolio is a PaperAccount: all that scheduled runs,
\* route calls, retries and crashes do to cash, positions and executions is to fill
\* intents one after the other, each once, out of what is there at that moment,
\* though every plan was made from a snapshot that may be stale (apply_execution).
ImplementsAccount == Book!Spec
=============================================================================
