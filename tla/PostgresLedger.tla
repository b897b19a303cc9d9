--------------------------- MODULE PostgresLedger ---------------------------
(***************************************************************************)
(* The paper ledger on PostgreSQL: the repository of PaperLedger over the   *)
(* connection adapter.  The adapter turns BEGIN IMMEDIATE into BEGIN, so a   *)
(* fill is no longer one step: each statement of apply_execution sees what   *)
(* was committed when it began, a write waits for the row that another       *)
(* transaction has written, and what is written is seen at the commit.       *)
(***************************************************************************)
EXTENDS PaperLedger

CONSTANTS
    Callers,       \* threads and processes, each with a connection of its own
    Orders,        \* approved orders with the reports of their fills
    None           \* no transaction

VARIABLES
    txn,           \* the transaction each caller is in
    raced          \* history: a fill was committed that had read old balances

vars == <<ledgerVars, txn, raced>>

OnLedger == UNCHANGED <<ledgerVars, raced>>
Goes(c, t) == txn' = [txn EXCEPT ![c] = t]
At(c, point) == txn[c] # None /\ txn[c].at = point

\* What other callers have written and not yet committed.
Holders(points) == {txn[d] : d \in {d \in Callers : txn[d] # None /\ txn[d].at \in points}}

PostgresInit ==
    /\ portfolio \in [Portfolios -> [identity : Identities, cash : Deposits]]
    /\ positions = [p \in Portfolios |-> [a \in Assets |-> NoPosition]]
    /\ executions = <<>>
    /\ deposited = [p \in Portfolios |-> portfolio[p].cash]
    /\ txn = [c \in Callers |-> None]
    /\ raced = FALSE

\* SELECT the duplicate: with one, apply_execution returns False.
SelectDuplicate(c, o) ==
    /\ txn[c] = None
    /\ ~Duplicate(o.intent)
    /\ o.report.side = o.intent.side
    /\ o.report.quantity \in 1 .. o.intent.quantity
    /\ Goes(c, [at |-> "portfolio", intent |-> o.intent, report |-> o.report, cash |-> 0,
                old |-> NoPosition, writes |-> FALSE, stale |-> FALSE])
    /\ OnLedger

\* SELECT the portfolio: a missing or another one raises, and so rolls back.
SelectPortfolio(c) ==
    LET i == txn[c].intent
        row == portfolio[i.portfolio]
    IN /\ At(c, "portfolio")
       /\ Goes(c, IF row.identity # i.identity THEN None
                  ELSE [txn[c] EXCEPT !.at = "position", !.cash = row.cash])
       /\ OnLedger

\* SELECT the position: a fill that what was read does not cover raises.
SelectPosition(c) ==
    LET i == txn[c].intent
        r == txn[c].report
        old == positions[i.portfolio][i.asset]
        covered == IF i.side = "BUY" THEN Notional(r) + r.fee <= txn[c].cash
                   ELSE r.quantity <= old.quantity
    IN /\ At(c, "position")
       /\ Goes(c, IF covered THEN [txn[c] EXCEPT !.at = "upsert", !.old = old] ELSE None)
       /\ OnLedger

\* The row of the position after the fill.
Written(c) == Filled(txn[c].old, txn[c].intent, txn[c].report)

\* _upsert_position waits for the row; a DELETE that finds none writes nothing.
UpsertPosition(c) ==
    LET i == txn[c].intent
        same(t) == t.intent.portfolio = i.portfolio /\ t.intent.asset = i.asset
    IN /\ At(c, "upsert")
       /\ \A t \in Holders({"cash", "insert", "commit"}) : ~(same(t) /\ t.writes)
       /\ Goes(c, [txn[c] EXCEPT !.at = "cash",
                   !.writes = (Written(c).quantity # 0
                               \/ positions[i.portfolio][i.asset] # NoPosition)])
       /\ OnLedger

\* Mutant of UpdateCash: the connection was left in autocommit.
UpdateCashAtOnce(c) ==
    LET i == txn[c].intent
    IN /\ At(c, "cash")
       /\ \A t \in Holders({"insert", "commit"}) : t.intent.portfolio # i.portfolio
       /\ Goes(c, [txn[c] EXCEPT !.at = "insert"])
       /\ portfolio' = [portfolio EXCEPT ![i.portfolio].cash =
                          CashAfter(txn[c].cash, i, txn[c].report)]
       /\ UNCHANGED <<positions, executions, deposited, raced>>

\* UPDATE the balance, which waits for the row of the portfolio.
UpdateCash(c) ==
    /\ At(c, "cash")
    /\ \A t \in Holders({"insert", "commit"}) : t.intent.portfolio # txn[c].intent.portfolio
    /\ Goes(c, [txn[c] EXCEPT !.at = "insert"])
    /\ OnLedger

\* INSERT the execution: intent_id is unique, and a second row of it raises.
InsertExecution(c) ==
    /\ At(c, "insert")
    /\ Goes(c, IF Duplicate(txn[c].intent) THEN None ELSE [txn[c] EXCEPT !.at = "commit"])
    /\ OnLedger

\* The end of the with block.  Whoever has read this portfolio before is stale now.
Commit(c) ==
    LET i == txn[c].intent
        r == txn[c].report
        reads(d) == /\ d # c /\ txn[d] # None /\ txn[d].at # "portfolio"
                    /\ txn[d].intent.portfolio = i.portfolio
    IN /\ At(c, "commit")
       /\ positions' = IF txn[c].writes
                       THEN [positions EXCEPT ![i.portfolio][i.asset] = Written(c)]
                       ELSE positions
       /\ portfolio' = [portfolio EXCEPT ![i.portfolio].cash = CashAfter(txn[c].cash, i, r)]
       /\ \E now \in Times : executions' =
            Append(executions, [ExecutionRow(i, r, now) EXCEPT !.pnl = RealizedPnl(txn[c].old, i, r)])
       /\ txn' = [d \in Callers |-> IF d = c THEN None
                                    ELSE IF reads(d) THEN [txn[d] EXCEPT !.stale = TRUE]
                                    ELSE txn[d]]
       /\ raced' = (raced \/ txn[c].stale)
       /\ UNCHANGED deposited

\* The caller or its connection is lost: the transaction is rolled back.
Rollback(c) ==
    /\ txn[c] # None
    /\ Goes(c, None)
    /\ OnLedger

PostgresNext ==
    \E c \in Callers :
        \/ \E o \in Orders : SelectDuplicate(c, o)
        \/ SelectPortfolio(c) \/ SelectPosition(c) \/ UpsertPosition(c)
        \/ UpdateCash(c) \/ InsertExecution(c) \/ Commit(c) \/ Rollback(c)

PostgresSpec == PostgresInit /\ [][PostgresNext]_vars

\* What apply_execution keeps on PostgreSQL.  However transactions overlap, retry or
\* are lost, an intent is filled once and no balance or position is negative; and as
\* long as no fill is committed over balances that it read before another fill of
\* the portfolio was, replaying the executions gives the balances.
FillsHoldOnPostgres ==
    /\ \A m, n \in DOMAIN executions : executions[m].intent = executions[n].intent => m = n
    /\ \A p \in Portfolios : /\ portfolio[p].cash >= 0
                             /\ \A a \in Assets : positions[p][a].quantity >= 0
    /\ ~raced => LedgerReconciles /\ CostBasisReconciles
=============================================================================
