----------------------------- MODULE PaperLedger -----------------------------
(***************************************************************************)
(* The SQLite paper ledger: SqlitePaperPortfolioRepository.                *)
(*                                                                         *)
(* Every write is one SQLite transaction and so one step, whichever        *)
(* process makes it.  Amounts are natural numbers of a smallest unit; the  *)
(* average cost is rounded to the unit as Decimal rounds to its last       *)
(* digit.  The paper order id is "paper:" followed by the intent id, so    *)
(* one identity stands for both unique columns.                            *)
(***************************************************************************)
EXTENDS Integers, Sequences, SequencesExt, FiniteSetsExt

CONSTANTS
  Portfolios,  \* portfolio ids
  Assets,      \* base assets
  Identities,  \* pairs of a purpose and a cash asset
  IntentIds,   \* intent ids
  Quantities,  \* order quantities
  Prices,      \* fill prices
  Fees,        \* fees of a fill
  Deposits,    \* initial cash balances
  Times        \* execution times

ASSUME LedgerAssumption ==
  /\ Quantities \subseteq Nat \ {0}
  /\ Prices \subseteq Nat
  /\ Fees \subseteq Nat
  /\ Deposits \subseteq Nat
  /\ Times \subseteq Nat
  /\ "none" \notin Identities
  /\ IsFiniteSet(Assets)

VARIABLES
  portfolio,   \* portfolio id -> row of paper_portfolio
  positions,   \* portfolio id -> asset -> row of paper_position
  executions,  \* rows of paper_execution, in the order of their insertion
  deposited    \* portfolio id -> the cash it was created with (history)

ledgerVars == <<portfolio, positions, executions, deposited>>
----------------------------------------------------------------------------
(* Rows *)

Sides == {"BUY", "SELL"}

PortfolioRow == [identity : Identities \cup {"none"}, cash : Nat]

\* No row in paper_portfolio.
NoPortfolio == [identity |-> "none", cash |-> 0]

PaperPosition == [quantity : Nat, average : Nat]

\* No row in paper_position.
NoPosition == [quantity |-> 0, average |-> 0]

OrderIntent == [id : IntentIds, portfolio : Portfolios, identity : Identities,
                asset : Assets, side : Sides, quantity : Quantities]

ExecutionReport == [side : Sides, quantity : Quantities, price : Prices, fee : Fees]

PaperExecution ==
  [intent : IntentIds, portfolio : Portfolios, asset : Assets, side : Sides,
   quantity : Nat, price : Nat, fee : Nat, pnl : Int, at : Nat]

Notional(r) == r.quantity * r.price

\* Half-even division, the rounding of the default decimal context.
RoundDiv(a, b) ==
  LET q == a \div b
      r == a % b
  IN  IF 2 * r > b \/ (2 * r = b /\ q % 2 = 1) THEN q + 1 ELSE q
----------------------------------------------------------------------------
(* apply_execution *)

\* Mutant of the duplicate check: the identity of the whole row is compared.
DuplicateOrder(i) ==
  \E n \in DOMAIN executions :
    /\ executions[n].intent = i.id
    /\ executions[n].quantity = i.quantity

\* SELECT 1 FROM paper_execution WHERE order_id = ? OR intent_id = ?
Duplicate(i) == \E n \in DOMAIN executions : executions[n].intent = i.id

\* Mutant of the checks: neither the cash nor the position need cover the fill.
AcceptsUncovered(i, r) ==
  /\ r.side = i.side
  /\ r.quantity > 0
  /\ r.quantity <= i.quantity
  /\ portfolio[i.portfolio].identity = i.identity

\* The checks that raise before anything is written: the report fits the intent,
\* the portfolio exists with the intent's purpose and quote asset, and the cash or
\* the position covers the fill.
Accepts(i, r) ==
  /\ r.side = i.side
  /\ r.quantity > 0
  /\ r.quantity <= i.quantity
  /\ portfolio[i.portfolio].identity = i.identity
  /\ IF i.side = "BUY"
     THEN Notional(r) + r.fee <= portfolio[i.portfolio].cash
     ELSE r.quantity <= positions[i.portfolio][i.asset].quantity

\* Mutant of the average cost: the fee of a BUY is left out.
FilledWithoutFee(old, i, r) ==
  IF i.side = "BUY"
  THEN [quantity |-> old.quantity + r.quantity,
        average  |-> RoundDiv(old.quantity * old.average + Notional(r),
                              old.quantity + r.quantity)]
  ELSE [quantity |-> old.quantity - r.quantity,
        average  |-> IF r.quantity = old.quantity THEN 0 ELSE old.average]

\* The position after the fill; a position of quantity zero is deleted.
Filled(old, i, r) ==
  IF i.side = "BUY"
  THEN [quantity |-> old.quantity + r.quantity,
        average  |-> RoundDiv(old.quantity * old.average + Notional(r) + r.fee,
                              old.quantity + r.quantity)]
  ELSE [quantity |-> old.quantity - r.quantity,
        average  |-> IF r.quantity = old.quantity THEN 0 ELSE old.average]

\* Mutant of the cash update: the fee of a SELL is not charged.
CashAfterFreeSell(cash, i, r) ==
  IF i.side = "BUY" THEN cash - (Notional(r) + r.fee) ELSE cash + Notional(r)

CashAfter(cash, i, r) ==
  IF i.side = "BUY" THEN cash - (Notional(r) + r.fee) ELSE cash + Notional(r) - r.fee

RealizedPnl(old, i, r) ==
  IF i.side = "BUY" THEN 0 ELSE (r.price - old.average) * r.quantity - r.fee

\* The row that apply_execution inserts.
ExecutionRow(i, r, now) ==
  [intent |-> i.id, portfolio |-> i.portfolio, asset |-> i.asset, side |-> i.side,
   quantity |-> r.quantity, price |-> r.price, fee |-> r.fee,
   pnl |-> RealizedPnl(positions[i.portfolio][i.asset], i, r), at |-> now]

\* apply_execution returns True: position, cash and execution in one transaction.
\* Where the intent is a duplicate it returns False, and where a check fails it
\* raises; both leave the ledger as it is.
ApplyExecution(i, r, now) ==
  /\ ~Duplicate(i)
  /\ Accepts(i, r)
  /\ positions' = [positions EXCEPT ![i.portfolio][i.asset] = Filled(@, i, r)]
  /\ portfolio' = [portfolio EXCEPT ![i.portfolio].cash = CashAfter(@, i, r)]
  /\ executions' = Append(executions, ExecutionRow(i, r, now))
  /\ UNCHANGED deposited
----------------------------------------------------------------------------
(* create *)

\* create inserts the portfolio unless a row with its id exists.  An existing row
\* keeps its cash, and one with another purpose or cash asset raises.
Create(p, identity, cash) ==
  /\ portfolio[p] = NoPortfolio
  /\ portfolio' = [portfolio EXCEPT ![p] = [identity |-> identity, cash |-> cash]]
  /\ deposited' = [deposited EXCEPT ![p] = cash]
  /\ UNCHANGED <<positions, executions>>

LedgerInit ==
  /\ portfolio = [p \in Portfolios |-> NoPortfolio]
  /\ positions = [p \in Portfolios |-> [a \in Assets |-> NoPosition]]
  /\ executions = <<>>
  /\ deposited = [p \in Portfolios |-> 0]

LedgerNext ==
  \/ \E p \in Portfolios, identity \in Identities, cash \in Deposits :
       Create(p, identity, cash)
  \/ \E i \in OrderIntent, r \in ExecutionReport, now \in Times :
       r.fee <= Notional(r) /\ ApplyExecution(i, r, now)

\* Any caller, of any process, may submit any approved order with any report whose
\* fee is a fraction of its notional, as the fee of PaperExchangeGateway is.
LedgerSpec == LedgerInit /\ [][LedgerNext]_ledgerVars
----------------------------------------------------------------------------
(* Properties *)

\* The rows are well formed; in particular the stored cash balance and quantities
\* are never negative, though the columns are text and no constraint says so.
LedgerTypeOK ==
  /\ portfolio \in [Portfolios -> PortfolioRow]
  /\ positions \in [Portfolios -> [Assets -> PaperPosition]]
  /\ executions \in Seq(PaperExecution)
  /\ deposited \in [Portfolios -> Nat]

\* n -> the sum of the first n elements of a sequence of integers.
Running(v) ==
  LET sum[n \in 0 .. Len(v)] == IF n = 0 THEN 0 ELSE sum[n - 1] + v[n]
  IN  sum

SumOf(v) == Running(v)[Len(v)]

\* The sum of f over the executions of a portfolio.
Total(p, f(_)) ==
  SumOf([n \in DOMAIN executions |->
           IF executions[n].portfolio = p THEN f(executions[n]) ELSE 0])

CashFlow(x) == IF x.side = "BUY" THEN -(Notional(x) + x.fee) ELSE Notional(x) - x.fee

QuantityFlow(x, a) ==
  IF x.asset # a THEN 0 ELSE IF x.side = "BUY" THEN x.quantity ELSE -x.quantity

\* Replaying the execution rows on the deposit gives the balance and the positions
\* that the ledger stores, so that no retry, crash or interleaving applied a fill
\* twice, in part, or to one table only.
LedgerReconciles ==
  \A p \in Portfolios :
    /\ portfolio[p].cash = deposited[p] + Total(p, CashFlow)
    /\ \A a \in Assets :
         positions[p][a].quantity = Total(p, LAMBDA x : QuantityFlow(x, a))

\* Cash and positions at cost are worth the deposit and the realized P&L of the
\* execution rows, up to the rounding of the average cost: half a unit for every
\* unit held after a BUY.
CostBasisReconciles ==
  \A p \in Portfolios :
    LET cost == MapThenSumSet(LAMBDA a : positions[p][a].quantity * positions[p][a].average,
                              Assets)
        drift == portfolio[p].cash + cost - deposited[p] - Total(p, LAMBDA x : x.pnl)
        bought == Total(p, LAMBDA x : IF x.side = "BUY" THEN x.quantity ELSE 0)
        buys == Total(p, LAMBDA x : IF x.side = "BUY" THEN 1 ELSE 0)
    IN  2 * drift \in -(buys * bought) .. (buys * bought)

\* A fill is final: rows are only added to paper_execution, at most one for an
\* intent, whatever a later submission of the same intent asks for.
FillsAreFinal ==
  [][/\ IsPrefix(executions, executions')
     /\ \A m, n \in DOMAIN executions' :
          executions'[m].intent = executions'[n].intent => m = n]_ledgerVars
=============================================================================
