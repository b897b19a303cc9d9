------------------------ MODULE PostgresLedgerProofs ------------------------
(***************************************************************************)
(* Proofs about the paper ledger on PostgreSQL, for any number of callers   *)
(* whose transactions overlap, any orders and any lost connection.          *)
(***************************************************************************)
EXTENDS PostgresLedger, PaperLedgerProofs

\* What callers submit: an order with the report of its fill, the fee being a part of
\* the notional.  The intent id is a hash over the portfolio, among other things.
OrdersAreFills ==
    /\ \A o \in Orders : /\ o.intent \in OrderIntent /\ o.report \in ExecutionReport
                         /\ o.report.fee <= Notional(o.report)
    /\ \A o, p \in Orders : o.intent.id = p.intent.id => o.intent.portfolio = p.intent.portfolio

(***************************************************************************)
(* The inductive invariant                                                  *)
(***************************************************************************)
Txns ==
    [at : {"portfolio", "position", "upsert", "cash", "insert", "commit"}, intent : Intents,
     report : Reports, cash : Nat, old : PaperPosition, writes : BOOLEAN, stale : BOOLEAN]

PostgresTypeOK ==
    /\ LedgerTypeOK
    /\ txn \in [Callers -> Txns \cup {None}]
    /\ raced \in BOOLEAN

\* What a transaction has read covers its fill.
Covered(t) ==
    IF t.intent.side = "BUY" THEN Notional(t.report) + t.report.fee <= t.cash
    ELSE t.report.quantity <= t.old.quantity

\* An order as apply_execution checked it before its first read of a balance.
Submitted(t) ==
    /\ \E o \in Orders : t.intent = o.intent /\ t.report = o.report
    /\ t.report.side = t.intent.side
    /\ t.report.quantity > 0 /\ t.report.quantity <= t.intent.quantity

\* What a transaction that has read rows knows of them: the portfolio is its own, and
\* unless another fill of the portfolio was committed since, balance and position are
\* what it has read, and its write of the position is not an empty one.
Knows(t, rows, held) ==
    LET i == t.intent
    IN  /\ t.at # "portfolio" => rows[i.portfolio].identity = i.identity
        /\ t.at \notin {"portfolio", "position"} => Covered(t)
        /\ ~t.stale =>
             /\ t.at # "portfolio" => t.cash = rows[i.portfolio].cash
             /\ t.at \notin {"portfolio", "position"} => t.old = held[i.portfolio][i.asset]
             /\ t.at \in {"cash", "insert", "commit"} => t.writes

\* No execution of the intent is committed.
Unfilled(t, fills) == \A n \in DOMAIN fills : fills[n].intent # t.intent.id

TxnsHold ==
    \A c \in Callers : txn[c] # None =>
        /\ Submitted(txn[c])
        /\ Knows(txn[c], portfolio, positions)
        /\ txn[c].at = "commit" => Unfilled(txn[c], executions)

\* A transaction that has updated the balance holds the row of its portfolio.
InsertsOn(t, p) == t # None /\ t.at \in {"insert", "commit"} /\ t.intent.portfolio = p

RowsAreLocked ==
    \A c, d \in Callers : \A p \in Portfolios :
        InsertsOn(txn[c], p) /\ InsertsOn(txn[d], p) => c = d

\* Every portfolio was opened.
PortfoliosExist == \A p \in Portfolios : portfolio[p].identity \in Identities

BooksHold == ~raced => LedgerReconciles /\ CostBasisReconciles /\ HeldWasBought

IInv == PostgresTypeOK /\ TxnsHold /\ RowsAreLocked /\ PortfoliosExist /\ IntentsAreUnique
        /\ BooksHold

(***************************************************************************)
(* Initially                                                                *)
(***************************************************************************)
LEMMA PostgresInitInv == PostgresInit => IInv
<1> SUFFICES ASSUME PostgresInit PROVE IInv
  OBVIOUS
<1>1. Deposits \subseteq Nat /\ "none" \notin Identities
  BY LedgerAssumption, Zenon
<1>2. /\ \A p \in Portfolios : /\ portfolio[p].identity \in Identities
                               /\ portfolio[p].cash \in Nat /\ deposited[p] = portfolio[p].cash
                               /\ portfolio[p] \in PortfolioRow
                               /\ \A a \in Assets : positions[p][a] = NoPosition
      /\ executions = <<>> /\ txn = [c \in Callers |-> None] /\ raced = FALSE
  <2>1. ASSUME NEW p \in Portfolios
        PROVE  /\ portfolio[p].identity \in Identities /\ portfolio[p].cash \in Nat
               /\ portfolio[p] \in PortfolioRow
    <3>1. portfolio[p] \in [identity : Identities, cash : Deposits]
      BY DEF PostgresInit
    <3>2. portfolio[p].identity \in Identities /\ portfolio[p].cash \in Nat
      BY <1>1, <3>1
    <3> QED BY <3>1, <3>2 DEF PortfolioRow
  <2> QED BY <2>1 DEF PostgresInit
<1>3. LedgerTypeOK
  <2>1. portfolio \in [Portfolios -> PortfolioRow] /\ deposited \in [Portfolios -> Nat]
    BY <1>2 DEF PostgresInit
  <2>2. positions \in [Portfolios -> [Assets -> PaperPosition]]
    BY DEF PostgresInit, NoPosition, PaperPosition
  <2> QED BY <1>2, <2>1, <2>2 DEF LedgerTypeOK
<1>4. PostgresTypeOK /\ TxnsHold /\ RowsAreLocked /\ PortfoliosExist /\ IntentsAreUnique
  <2>1. \A c \in Callers : txn[c] = None
    BY <1>2
  <2>2. PostgresTypeOK
    BY <1>2, <1>3 DEF PostgresTypeOK
  <2>3. TxnsHold /\ RowsAreLocked
    BY <2>1 DEF TxnsHold, RowsAreLocked, InsertsOn
  <2>4. DOMAIN executions = {}
    BY <1>2
  <2> QED BY <1>2, <2>2, <2>3, <2>4 DEF PortfoliosExist, IntentsAreUnique
<1>5. /\ \A p : CashTotal(<<>>, p) = 0 /\ \A a : QuantityTotal(<<>>, p, a) = 0
      /\ \A p : PnlTotal(<<>>, p) = 0 /\ BoughtTotal(<<>>, p) = 0 /\ BuysTotal(<<>>, p) = 0
  BY NoTotals
<1>6. LedgerReconciles
  BY <1>2, <1>5, ReconcilesAsTotals DEF NoPosition
<1>7. HeldWasBought
  BY <1>2, <1>5 DEF HeldWasBought, NoPosition
<1>8. ASSUME NEW p \in Portfolios
      PROVE  CostIsKept(portfolio[p], positions[p], deposited[p], executions, p)
  <2>1. Cost(positions[p]) = 0
    <3>1. \A a \in Assets : CostOf(positions[p][a]) = 0
      BY <1>2 DEF CostOf, NoPosition
    <3> QED BY <3>1, NothingCosts
  <2>2. Drift(portfolio[p], positions[p], deposited[p], executions, p) = 0
    BY <1>2, <1>5, <2>1 DEF Drift
  <2> QED BY <1>2, <1>5, <2>2 DEF CostIsKept
<1>9. CostBasisReconciles
  BY <1>8, CostBasisAsTotals
<1> QED BY <1>4, <1>6, <1>7, <1>9 DEF IInv, BooksHold

(***************************************************************************)
(* Steps that write no row                                                  *)
(***************************************************************************)
\* A caller goes on to a state in which its transaction holds what it must.
LEMMA OnlyMoves ==
  ASSUME IInv, NEW c \in Callers, NEW t \in Txns \cup {None}, Goes(c, t), OnLedger,
         t # None =>
            /\ Submitted(t) /\ Knows(t, portfolio, positions)
            /\ t.at = "commit" => Unfilled(t, executions),
         \A p \in Portfolios : InsertsOn(t, p) =>
            \A d \in Callers : d # c => ~InsertsOn(txn[d], p)
  PROVE  IInv'
<1>1. /\ txn' = [txn EXCEPT ![c] = t] /\ txn \in [Callers -> Txns \cup {None}]
      /\ UNCHANGED <<portfolio, positions, executions, deposited, raced>>
  BY DEF Goes, OnLedger, ledgerVars, IInv, PostgresTypeOK
<1>2. txn'[c] = t /\ \A d \in Callers : d # c => txn'[d] = txn[d]
  BY <1>1
<1>3. PostgresTypeOK'
  BY <1>1 DEF IInv, PostgresTypeOK, LedgerTypeOK
<1>4. TxnsHold'
  <2> SUFFICES ASSUME NEW d \in Callers, txn'[d] # None
               PROVE  /\ Submitted(txn'[d])
                      /\ Knows(txn'[d], portfolio, positions)
                      /\ txn'[d].at = "commit" => Unfilled(txn'[d], executions)
    BY <1>1 DEF TxnsHold, Submitted, Knows, Unfilled, Covered
  <2>1. CASE d = c
    BY <1>2, <2>1
  <2>2. CASE d # c
    BY <1>2, <2>2 DEF IInv, TxnsHold
  <2> QED BY <2>1, <2>2
<1>5. RowsAreLocked'
  <2> SUFFICES ASSUME NEW d \in Callers, NEW e \in Callers, NEW p \in Portfolios,
                      InsertsOn(txn'[d], p), InsertsOn(txn'[e], p)
               PROVE  d = e
    BY DEF RowsAreLocked, InsertsOn
  <2> QED BY <1>2 DEF IInv, RowsAreLocked
<1>6. PortfoliosExist' /\ IntentsAreUnique'
  BY <1>1 DEF IInv, PortfoliosExist, IntentsAreUnique
<1>7. BooksHold'
  BY <1>1, ReconcilesAsTotals, CostBasisAsTotals DEF IInv, BooksHold, HeldWasBought
<1> QED BY <1>3, <1>4, <1>5, <1>6, <1>7 DEF IInv

\* A transaction that ends without a commit leaves everything as it was.
LEMMA EndsTxn ==
  ASSUME IInv, NEW c \in Callers, Goes(c, None), OnLedger
  PROVE  IInv'
  BY OnlyMoves DEF InsertsOn

\* What a transaction that is somewhere holds.
LEMMA TxnAt ==
  ASSUME IInv, NEW c \in Callers, txn[c] # None
  PROVE  /\ txn[c] \in Txns /\ Submitted(txn[c]) /\ Knows(txn[c], portfolio, positions)
         /\ txn[c].at = "commit" => Unfilled(txn[c], executions)
         /\ txn[c].intent \in Intents /\ txn[c].intent.portfolio \in Portfolios
         /\ txn[c].intent.asset \in Assets /\ txn[c].report \in Reports
<1>1. txn[c] \in Txns
  BY DEF IInv, PostgresTypeOK
<1>2. txn[c].intent \in Intents /\ txn[c].report \in Reports
  BY <1>1 DEF Txns
<1> QED BY <1>1, <1>2 DEF IInv, TxnsHold, Intents

\* SELECT the duplicate.
LEMMA SelectDuplicateKeeps ==
  ASSUME OrdersAreFills, IInv, NEW c \in Callers, NEW o \in Orders, SelectDuplicate(c, o)
  PROVE  IInv'
<1> DEFINE t == [at |-> "portfolio", intent |-> o.intent, report |-> o.report, cash |-> 0,
                 old |-> NoPosition, writes |-> FALSE, stale |-> FALSE]
<1>1. o.intent \in Intents /\ o.report \in Reports
  BY OrdersAreIntents DEF OrdersAreFills
<1>2. t \in Txns
  BY <1>1 DEF Txns, NoPosition, PaperPosition
<1>3. o.report.quantity \in Nat /\ o.intent.quantity \in Nat
  BY <1>1 DEF Reports, Intents
<1>4. Submitted(t)
  BY <1>3 DEF SelectDuplicate, Submitted
<1>5. Knows(t, portfolio, positions) /\ t.at # "commit" /\ \A p : ~InsertsOn(t, p)
  BY DEF Knows, InsertsOn
<1>6. Goes(c, t) /\ OnLedger
  BY DEF SelectDuplicate
<1> HIDE DEF t
<1> QED BY <1>2, <1>4, <1>5, <1>6, OnlyMoves

\* SELECT the portfolio.
LEMMA SelectPortfolioKeeps ==
  ASSUME IInv, NEW c \in Callers, SelectPortfolio(c)
  PROVE  IInv'
<1> DEFINE s == txn[c]
           row == portfolio[s.intent.portfolio]
           t == [s EXCEPT !.at = "position", !.cash = row.cash]
<1>1. s # None /\ s.at = "portfolio" /\ OnLedger
  BY DEF SelectPortfolio, At
<1>2. s \in Txns /\ Submitted(s) /\ s.intent.portfolio \in Portfolios
  BY <1>1, TxnAt
<1>3. row.cash \in Nat
  BY <1>2 DEF IInv, PostgresTypeOK, LedgerTypeOK, PortfolioRow
<1>4. CASE row.identity # s.intent.identity
  BY <1>1, <1>4, EndsTxn DEF SelectPortfolio
<1>5. CASE row.identity = s.intent.identity
  <2>1. Goes(c, t)
    BY <1>5 DEF SelectPortfolio
  <2>2. t \in Txns
    BY <1>2, <1>3 DEF Txns
  <2>3. /\ t.at = "position" /\ t.cash = row.cash /\ t.intent = s.intent
        /\ t.report = s.report /\ t.stale = s.stale
    BY <1>2 DEF Txns
  <2>4. row = portfolio[t.intent.portfolio]
    BY <2>3
  <2> HIDE DEF t, row
  <2>5. Submitted(t)
    BY <1>2, <2>3 DEF Submitted
  <2>6. Knows(t, portfolio, positions) /\ t.at # "commit" /\ \A p : ~InsertsOn(t, p)
    BY <1>5, <2>3, <2>4 DEF Knows, InsertsOn
  <2> QED BY <1>1, <2>1, <2>2, <2>5, <2>6, OnlyMoves
<1> QED BY <1>4, <1>5

\* SELECT the position.
LEMMA SelectPositionKeeps ==
  ASSUME IInv, NEW c \in Callers, SelectPosition(c)
  PROVE  IInv'
<1> DEFINE s == txn[c]
           i == s.intent
           r == s.report
           row == positions[i.portfolio][i.asset]
           covered == IF i.side = "BUY" THEN Notional(r) + r.fee <= s.cash
                      ELSE r.quantity <= row.quantity
           t == [s EXCEPT !.at = "upsert", !.old = row]
<1>1. s # None /\ s.at = "position" /\ OnLedger
  BY DEF SelectPosition, At
<1>2. s \in Txns /\ Submitted(s) /\ Knows(s, portfolio, positions)
  BY <1>1, TxnAt
<1>3. row \in PaperPosition
  <2>1. i.portfolio \in Portfolios /\ i.asset \in Assets
    BY <1>1, TxnAt
  <2> QED BY <2>1 DEF IInv, PostgresTypeOK, LedgerTypeOK
<1>4. CASE ~covered
  BY <1>1, <1>4, EndsTxn DEF SelectPosition
<1>5. CASE covered
  <2>1. Goes(c, t)
    BY <1>5 DEF SelectPosition
  <2>2. t \in Txns
    BY <1>2, <1>3 DEF Txns
  <2>3. /\ t.at = "upsert" /\ t.old = row /\ t.intent = i /\ t.report = r
        /\ t.stale = s.stale /\ t.cash = s.cash
    BY <1>2 DEF Txns
  <2>4. row = positions[t.intent.portfolio][t.intent.asset]
    BY <2>3
  <2>5. Covered(t)
    BY <1>5, <2>3 DEF Covered
  <2> HIDE DEF t, row
  <2>6. Submitted(t)
    BY <1>2, <2>3 DEF Submitted
  <2>7. Knows(t, portfolio, positions) /\ t.at # "commit" /\ \A p : ~InsertsOn(t, p)
    BY <1>1, <1>2, <2>3, <2>4, <2>5 DEF Knows, InsertsOn
  <2> QED BY <1>1, <2>1, <2>2, <2>6, <2>7, OnlyMoves
<1> QED BY <1>4, <1>5

\* A fill out of the position that is there writes its row: a BUY leaves one, and a
\* SELL finds one.
LEMMA FreshFillWrites ==
  ASSUME NEW i \in Intents, NEW r \in Reports, NEW old \in PaperPosition,
         r.quantity > 0, i.side # "BUY" => r.quantity <= old.quantity
  PROVE  Filled(old, i, r).quantity # 0 \/ old # NoPosition
<1>1. r.quantity \in Nat /\ old.quantity \in Nat
  BY DEF Reports, PaperPosition
<1>2. CASE i.side = "BUY"
  <2>1. Filled(old, i, r).quantity = old.quantity + r.quantity
    BY <1>2 DEF Filled
  <2> QED BY <1>1, <2>1
<1>3. CASE i.side # "BUY"
  <2>1. old.quantity # 0
    BY <1>1, <1>3
  <2> QED BY <2>1 DEF NoPosition
<1> QED BY <1>2, <1>3

\* _upsert_position.
LEMMA UpsertKeeps ==
  ASSUME IInv, NEW c \in Callers, UpsertPosition(c)
  PROVE  IInv'
<1> DEFINE s == txn[c]
           i == s.intent
           writes == Written(c).quantity # 0 \/ positions[i.portfolio][i.asset] # NoPosition
           t == [s EXCEPT !.at = "cash", !.writes = writes]
<1>1. s # None /\ s.at = "upsert" /\ OnLedger /\ Goes(c, t)
  BY DEF UpsertPosition, At
<1>2. /\ s \in Txns /\ Submitted(s) /\ Knows(s, portfolio, positions)
      /\ i \in Intents /\ s.report \in Reports /\ s.old \in PaperPosition
  BY <1>1, TxnAt DEF Txns
<1>3. Covered(s) /\ (~s.stale => s.old = positions[i.portfolio][i.asset])
  BY <1>1, <1>2 DEF Knows
<1>4. ~s.stale => writes
  <2>1. s.report.quantity > 0
    BY <1>2 DEF Submitted
  <2>2. i.side # "BUY" => s.report.quantity <= s.old.quantity
    BY <1>3 DEF Covered
  <2>3. Filled(s.old, i, s.report).quantity # 0 \/ s.old # NoPosition
    BY <1>2, <2>1, <2>2, FreshFillWrites
  <2> QED BY <1>3, <2>3 DEF Written
<1>5. writes \in BOOLEAN
  OBVIOUS
<1> HIDE DEF writes
<1>6. t \in Txns
  BY <1>2, <1>5 DEF Txns
<1>7. /\ t.at = "cash" /\ t.writes = writes /\ t.intent = i /\ t.report = s.report
      /\ t.stale = s.stale /\ t.cash = s.cash /\ t.old = s.old
  BY <1>2 DEF Txns
<1> HIDE DEF t
<1>8. Submitted(t) /\ Covered(t)
  BY <1>2, <1>3, <1>7 DEF Submitted, Covered
<1>9. Knows(t, portfolio, positions) /\ t.at # "commit" /\ \A p : ~InsertsOn(t, p)
  BY <1>1, <1>2, <1>4, <1>7, <1>8 DEF Knows, InsertsOn
<1> QED BY <1>1, <1>6, <1>8, <1>9, OnlyMoves

\* UPDATE the balance: the row is free, and locked from now on.
LEMMA UpdateCashKeeps ==
  ASSUME IInv, NEW c \in Callers, UpdateCash(c)
  PROVE  IInv'
<1> DEFINE s == txn[c]
           t == [s EXCEPT !.at = "insert"]
<1>1. s # None /\ s.at = "cash" /\ OnLedger /\ Goes(c, t)
  BY DEF UpdateCash, At
<1>2. s \in Txns /\ Submitted(s) /\ Knows(s, portfolio, positions)
  BY <1>1, TxnAt
<1>3. ASSUME NEW d \in Callers, NEW p, InsertsOn(txn[d], p)
      PROVE  s.intent.portfolio # p
  BY <1>3 DEF UpdateCash, Holders, InsertsOn
<1>4. t \in Txns
  BY <1>2 DEF Txns
<1>5. /\ t.at = "insert" /\ t.writes = s.writes /\ t.intent = s.intent /\ t.report = s.report
      /\ t.stale = s.stale /\ t.cash = s.cash /\ t.old = s.old
  BY <1>2 DEF Txns
<1> HIDE DEF t
<1>6. Submitted(t)
  BY <1>2, <1>5 DEF Submitted
<1>7. Knows(t, portfolio, positions) /\ t.at # "commit"
  BY <1>1, <1>2, <1>5 DEF Knows, Covered
<1>8. \A p \in Portfolios : InsertsOn(t, p) => \A d \in Callers : d # c => ~InsertsOn(txn[d], p)
  BY <1>3, <1>5 DEF InsertsOn
<1> QED BY <1>1, <1>4, <1>6, <1>7, <1>8, OnlyMoves

\* INSERT the execution: a second row of the intent raises.
LEMMA InsertKeeps ==
  ASSUME IInv, NEW c \in Callers, InsertExecution(c)
  PROVE  IInv'
<1> DEFINE s == txn[c]
           t == [s EXCEPT !.at = "commit"]
<1>1. s # None /\ s.at = "insert" /\ OnLedger
  BY DEF InsertExecution, At
<1>2. s \in Txns /\ Submitted(s) /\ Knows(s, portfolio, positions)
  BY <1>1, TxnAt
<1>3. CASE Duplicate(s.intent)
  BY <1>1, <1>3, EndsTxn DEF InsertExecution
<1>4. CASE ~Duplicate(s.intent)
  <2>1. Goes(c, t)
    BY <1>4 DEF InsertExecution
  <2>2. t \in Txns
    BY <1>2 DEF Txns
  <2>3. /\ t.at = "commit" /\ t.writes = s.writes /\ t.intent = s.intent /\ t.report = s.report
        /\ t.stale = s.stale /\ t.cash = s.cash /\ t.old = s.old
    BY <1>2 DEF Txns
  <2> HIDE DEF t
  <2>4. Submitted(t)
    BY <1>2, <2>3 DEF Submitted
  <2>5. Knows(t, portfolio, positions)
    BY <1>1, <1>2, <2>3 DEF Knows, Covered
  <2>6. Unfilled(t, executions)
    BY <1>4, <2>3 DEF Unfilled, Duplicate
  <2>7. \A p \in Portfolios : InsertsOn(t, p) =>
          \A d \in Callers : d # c => ~InsertsOn(txn[d], p)
    <3>1. \A p : InsertsOn(t, p) => InsertsOn(s, p)
      BY <1>1, <2>3 DEF InsertsOn
    <3> QED BY <3>1 DEF IInv, RowsAreLocked
  <2> QED BY <1>1, <2>1, <2>2, <2>4, <2>5, <2>6, <2>7, OnlyMoves
<1> QED BY <1>3, <1>4

(***************************************************************************)
(* The commit                                                               *)
(***************************************************************************)
\* The balance and the row that a fill leaves are well formed, whatever it has read.
LEMMA CommitWrites ==
  ASSUME OrdersAreFills, IInv, NEW c \in Callers, At(c, "commit"), NEW now \in Times
  PROVE  LET t == txn[c]
         IN  /\ Written(c) \in PaperPosition
             /\ CashAfter(t.cash, t.intent, t.report) \in Nat
             /\ [ExecutionRow(t.intent, t.report, now) EXCEPT
                   !.pnl = RealizedPnl(t.old, t.intent, t.report)] \in PaperExecution
<1> DEFINE t == txn[c]
           i == t.intent
           r == t.report
<1>1. t # None /\ t.at = "commit"
  BY DEF At
<1>2. /\ t \in Txns /\ i \in Intents /\ r \in Reports /\ t.cash \in Nat
      /\ t.old \in PaperPosition /\ Submitted(t) /\ Knows(t, portfolio, positions)
  BY <1>1, TxnAt DEF Txns
<1>3. Covered(t)
  BY <1>1, <1>2 DEF Knows
<1>4. r.quantity > 0 /\ r.fee <= Notional(r)
  BY <1>2 DEF Submitted, OrdersAreFills
<1> HIDE DEF t
<1>5. Filled(t.old, i, r) \in PaperPosition
  BY <1>2, <1>3, <1>4, FilledType DEF Covered
<1>6. CashAfter(t.cash, i, r) \in Nat
  BY <1>2, <1>3, <1>4, CashAfterType DEF Covered
<1>7. RealizedPnl(t.old, i, r) \in Int
  <2>1. r.price \in Nat /\ r.quantity \in Nat /\ r.fee \in Nat /\ t.old.average \in Nat
    BY <1>2 DEF Reports, PaperPosition
  <2>2. (r.price - t.old.average) * r.quantity \in Int
    BY <2>1
  <2> QED BY <2>1, <2>2 DEF RealizedPnl
<1>8. now \in Nat
  BY OrdersAreIntents
<1>9. [ExecutionRow(i, r, now) EXCEPT !.pnl = RealizedPnl(t.old, i, r)] \in PaperExecution
  <2>1. i.portfolio \in Portfolios /\ i.asset \in Assets
    BY <1>2 DEF Intents
  <2>2. positions[i.portfolio][i.asset] \in PaperPosition
    BY <2>1 DEF IInv, PostgresTypeOK, LedgerTypeOK
  <2>3. ExecutionRow(i, r, now) \in PaperExecution
    BY <1>2, <1>8, <2>2, RowType
  <2> QED BY <1>7, <2>3 DEF PaperExecution
<1> QED BY <1>5, <1>6, <1>9 DEF Written, t

\* What another transaction knows stays true: the commit makes it stale, or is of
\* another portfolio, or it has read nothing yet.
LEMMA OthersStillKnow ==
  ASSUME IInv, NEW c \in Callers, Commit(c), NEW d \in Callers, d # c, txn[d] # None
  PROVE  /\ txn'[d] \in Txns /\ Submitted(txn'[d]) /\ Knows(txn'[d], portfolio', positions')
         /\ txn'[d].at = txn[d].at /\ txn'[d].intent = txn[d].intent
<1> DEFINE s == txn[d]
           t == txn'[d]
           P == txn[c].intent.portfolio
           reads == s.at # "portfolio" /\ s.intent.portfolio = P
<1>1. t = IF reads THEN [s EXCEPT !.stale = TRUE] ELSE s
  BY DEF Commit
<1>2. s \in Txns /\ Submitted(s) /\ Knows(s, portfolio, positions)
  BY TxnAt
<1>3. /\ t \in Txns /\ t.at = s.at /\ t.intent = s.intent /\ t.report = s.report
      /\ t.cash = s.cash /\ t.old = s.old /\ t.writes = s.writes
      /\ t.stale = (s.stale \/ reads)
  <2>1. s.stale \in BOOLEAN
    BY <1>2 DEF Txns
  <2> QED BY <1>1, <1>2, <2>1 DEF Txns
<1>4. s.intent.portfolio \in Portfolios /\ P \in Portfolios
  BY TxnAt DEF Commit, At
<1>5. portfolio'[s.intent.portfolio].identity = portfolio[s.intent.portfolio].identity
  <2>1. portfolio \in [Portfolios -> PortfolioRow]
    BY DEF IInv, PostgresTypeOK, LedgerTypeOK
  <2>2. PICK new : portfolio' = [portfolio EXCEPT ![P].cash = new]
    BY DEF Commit
  <2> QED BY <1>4, <2>1, <2>2 DEF PortfolioRow
<1>6. s.intent.portfolio # P =>
        /\ portfolio'[s.intent.portfolio] = portfolio[s.intent.portfolio]
        /\ positions'[s.intent.portfolio] = positions[s.intent.portfolio]
  BY <1>4 DEF Commit, IInv, PostgresTypeOK, LedgerTypeOK
<1> HIDE DEF s, t, P
<1>7. Submitted(t) /\ (Covered(t) <=> Covered(s))
  BY <1>2, <1>3 DEF Submitted, Covered
<1>8. Knows(t, portfolio', positions')
  <2>1. CASE s.at = "portfolio"
    BY <1>3, <2>1 DEF Knows
  <2>2. CASE reads
    BY <1>2, <1>3, <1>5, <1>7, <2>2 DEF Knows
  <2>3. CASE s.intent.portfolio # P
    BY <1>2, <1>3, <1>6, <1>7, <2>3 DEF Knows
  <2> QED BY <2>1, <2>2, <2>3
<1> QED BY <1>3, <1>7, <1>8 DEF s, t

\* A commit over balances that are still those it has read is the one step of the
\* ledger's own specification.
LEMMA FreshCommitApplies ==
  ASSUME IInv, NEW c \in Callers, Commit(c), ~txn[c].stale
  PROVE  \E now \in Times : ApplyExecution(txn[c].intent, txn[c].report, now)
<1> DEFINE t == txn[c]
           i == t.intent
           r == t.report
           P == i.portfolio
           A == i.asset
<1>1. t # None /\ t.at = "commit"
  BY DEF Commit, At
<1>2. /\ t \in Txns /\ P \in Portfolios /\ A \in Assets
      /\ Submitted(t) /\ Knows(t, portfolio, positions) /\ Unfilled(t, executions)
  BY <1>1, TxnAt
<1>3. /\ portfolio[P].identity = i.identity /\ t.cash = portfolio[P].cash
      /\ t.old = positions[P][A] /\ t.writes /\ Covered(t)
  BY <1>1, <1>2 DEF Knows
<1>4. PICK now \in Times : executions' =
        Append(executions, [ExecutionRow(i, r, now) EXCEPT !.pnl = RealizedPnl(t.old, i, r)])
  BY DEF Commit
<1>5. positions' = [positions EXCEPT ![P][A] = Filled(t.old, i, r)]
  BY <1>3 DEF Commit, Written
<1>6. portfolio' = [portfolio EXCEPT ![P].cash = CashAfter(t.cash, i, r)] /\ deposited' = deposited
  BY DEF Commit
<1>7. ~Duplicate(i) /\ Accepts(i, r)
  BY <1>2, <1>3 DEF Unfilled, Duplicate, Accepts, Submitted, Covered
<1>8. [ExecutionRow(i, r, now) EXCEPT !.pnl = RealizedPnl(t.old, i, r)] = ExecutionRow(i, r, now)
  BY <1>3 DEF ExecutionRow
<1>9. positions' = [positions EXCEPT ![P][A] = Filled(@, i, r)]
  BY <1>3, <1>5
<1>10. portfolio' = [portfolio EXCEPT ![P].cash = CashAfter(@, i, r)]
  BY <1>3, <1>6
<1> QED BY <1>4, <1>6, <1>7, <1>8, <1>9, <1>10 DEF ApplyExecution

\* The commit: the only step that others see.
LEMMA CommitKeeps ==
  ASSUME OrdersAreFills, IInv, NEW c \in Callers, Commit(c)
  PROVE  IInv'
<1> DEFINE t == txn[c]
           i == t.intent
           r == t.report
           P == i.portfolio
           A == i.asset
<1>1. t # None /\ t.at = "commit" /\ At(c, "commit")
  BY DEF Commit, At
<1>2. /\ t \in Txns /\ P \in Portfolios /\ A \in Assets /\ i \in Intents /\ r \in Reports
      /\ Submitted(t) /\ Unfilled(t, executions)
  BY <1>1, TxnAt
<1>3. PICK now \in Times : executions' =
        Append(executions, [ExecutionRow(i, r, now) EXCEPT !.pnl = RealizedPnl(t.old, i, r)])
  BY DEF Commit
<1> DEFINE x == [ExecutionRow(i, r, now) EXCEPT !.pnl = RealizedPnl(t.old, i, r)]
           cash == CashAfter(t.cash, i, r)
<1>4. Written(c) \in PaperPosition /\ cash \in Nat /\ x \in PaperExecution
  BY <1>1, CommitWrites
<1>5. x.intent = i.id
  BY DEF ExecutionRow
<1>6. /\ portfolio' = [portfolio EXCEPT ![P].cash = cash] /\ deposited' = deposited
      /\ positions' = IF t.writes THEN [positions EXCEPT ![P][A] = Written(c)] ELSE positions
      /\ raced' = (raced \/ t.stale)
  BY DEF Commit
<1> HIDE DEF x, cash
<1>7. /\ executions \in Seq(PaperExecution) /\ executions' = Append(executions, x)
      /\ portfolio \in [Portfolios -> PortfolioRow]
      /\ positions \in [Portfolios -> [Assets -> PaperPosition]]
      /\ t.stale \in BOOLEAN /\ raced \in BOOLEAN
  BY <1>2, <1>3 DEF IInv, PostgresTypeOK, LedgerTypeOK, Txns, x
<1>8. /\ DOMAIN executions = 1 .. Len(executions) /\ Len(executions) \in Nat
      /\ DOMAIN executions' = 1 .. Len(executions) + 1
      /\ \A n \in 1 .. Len(executions) : executions'[n] = executions[n]
      /\ executions'[Len(executions) + 1] = x
  BY <1>4, <1>7
<1>9. txn' \in [Callers -> Txns \cup {None}] /\ txn'[c] = None
  <2>1. txn'[c] = None /\ \A d \in Callers : txn[d] = None => txn'[d] = None
    BY DEF Commit
  <2>2. \A d \in Callers : txn'[d] \in Txns \cup {None}
    BY <2>1, OthersStillKnow
  <2>3. txn' = [d \in Callers |-> txn'[d]]
    BY DEF Commit
  <2> QED BY <2>1, <2>2, <2>3
<1>10. PostgresTypeOK'
  <2>1. portfolio' \in [Portfolios -> PortfolioRow]
    BY <1>2, <1>4, <1>6, <1>7 DEF PortfolioRow
  <2>2. positions' \in [Portfolios -> [Assets -> PaperPosition]]
    BY <1>2, <1>4, <1>6, <1>7
  <2>3. executions' \in Seq(PaperExecution)
    BY <1>4, <1>7
  <2>4. deposited' \in [Portfolios -> Nat]
    BY <1>6 DEF IInv, PostgresTypeOK, LedgerTypeOK
  <2>5. raced' \in BOOLEAN
    BY <1>6, <1>7
  <2> QED BY <1>9, <2>1, <2>2, <2>3, <2>4, <2>5 DEF PostgresTypeOK, LedgerTypeOK
<1>11. ASSUME NEW d \in Callers, txn'[d] # None
       PROVE  d # c /\ txn[d] # None
  <2>1. txn[d] = None => txn'[d] = None
    BY DEF Commit
  <2> QED BY <1>9, <1>11, <2>1
<1>12. TxnsHold'
  <2> SUFFICES ASSUME NEW d \in Callers, txn'[d] # None
               PROVE  /\ Submitted(txn'[d])
                      /\ Knows(txn'[d], portfolio', positions')
                      /\ txn'[d].at = "commit" => Unfilled(txn'[d], executions')
    BY DEF TxnsHold, Submitted, Knows, Unfilled, Covered
  <2>1. d # c /\ txn[d] # None
    BY <1>11
  <2>2. /\ Submitted(txn'[d]) /\ Knows(txn'[d], portfolio', positions')
        /\ txn'[d].at = txn[d].at /\ txn'[d].intent = txn[d].intent
    BY <2>1, OthersStillKnow
  <2>3. ASSUME txn[d].at = "commit" PROVE Unfilled(txn'[d], executions')
    <3>1. Unfilled(txn[d], executions) /\ Submitted(txn[d])
      BY <2>1, <2>3, TxnAt
    <3>2. txn[d].intent.portfolio # P
      BY <1>1, <1>2, <2>1, <2>3 DEF IInv, RowsAreLocked, InsertsOn
    <3>3. txn[d].intent.id # i.id
      BY <1>2, <3>1, <3>2 DEF Submitted, OrdersAreFills
    <3> QED BY <1>5, <1>8, <2>2, <3>1, <3>3 DEF Unfilled
  <2> QED BY <2>2, <2>3
<1>13. RowsAreLocked'
  <2> SUFFICES ASSUME NEW d \in Callers, NEW e \in Callers, NEW p \in Portfolios,
                      InsertsOn(txn'[d], p), InsertsOn(txn'[e], p)
               PROVE  d = e
    BY DEF RowsAreLocked, InsertsOn
  <2>1. InsertsOn(txn[d], p) /\ InsertsOn(txn[e], p)
    BY <1>11, OthersStillKnow DEF InsertsOn
  <2> QED BY <2>1 DEF IInv, RowsAreLocked
<1>14. PortfoliosExist'
  <2>1. \A p \in Portfolios : portfolio'[p].identity = portfolio[p].identity
    BY <1>2, <1>6, <1>7 DEF PortfolioRow
  <2> QED BY <2>1 DEF IInv, PortfoliosExist
<1>15. IntentsAreUnique'
  <2>1. \A n \in 1 .. Len(executions) : executions[n].intent # i.id
    BY <1>2, <1>8 DEF Unfilled
  <2>2. \A m, n \in 1 .. Len(executions) : executions[m].intent = executions[n].intent => m = n
    BY <1>8 DEF IInv, IntentsAreUnique
  <2> QED BY <1>5, <1>8, <2>1, <2>2 DEF IntentsAreUnique
<1>16. BooksHold'
  <2> SUFFICES ASSUME ~raced'
               PROVE  LedgerReconciles' /\ CostBasisReconciles' /\ HeldWasBought'
    BY DEF BooksHold
  <2>1. ~raced /\ ~t.stale
    BY <1>6, <1>7
  <2>2. LedgerTypeOK /\ LedgerReconciles /\ CostBasisReconciles /\ HeldWasBought
    BY <2>1 DEF IInv, BooksHold, PostgresTypeOK
  <2>3. NoneDeposited
    <3>1. "none" \notin Identities
      BY LedgerAssumption, Zenon
    <3> QED BY <3>1 DEF NoneDeposited, NoPortfolio, IInv, PortfoliosExist
  <2>4. PICK then \in Times : ApplyExecution(i, r, then)
    BY <2>1, FreshCommitApplies
  <2>5. then \in Nat /\ r.fee <= Notional(r)
    BY <1>2, OrdersAreIntents DEF Submitted, OrdersAreFills
  <2>6. ExecutionRow(i, r, then) \in PaperExecution
    BY <1>2, <2>2, <2>4, <2>5, ApplyKeepsTypes
  <2>7. LedgerReconciles'
    BY <1>2, <2>2, <2>3, <2>4, <2>5, <2>6, ApplyReconciles
  <2>8. CostBasisReconciles' /\ HeldWasBought'
    BY <1>2, <2>2, <2>4, <2>5, <2>6, ApplyKeepsCost
  <2> QED BY <2>7, <2>8
<1> QED BY <1>10, <1>12, <1>13, <1>14, <1>15, <1>16 DEF IInv

(***************************************************************************)
(* The theorem                                                              *)
(***************************************************************************)
\* Every step keeps the invariant.
LEMMA PostgresKeeps ==
  ASSUME OrdersAreFills, IInv, [PostgresNext]_vars
  PROVE  IInv'
<1>1. CASE UNCHANGED vars
  <2>1. UNCHANGED <<portfolio, positions, executions, deposited, txn, raced>>
    BY <1>1 DEF vars, ledgerVars
  <2>2. /\ LedgerReconciles => LedgerReconciles'
        /\ CostBasisReconciles => CostBasisReconciles'
    BY <2>1, ReconcilesAsTotals, CostBasisAsTotals
  <2> QED BY <2>1, <2>2 DEF IInv, PostgresTypeOK, LedgerTypeOK, TxnsHold, Submitted, Knows,
      Covered, Unfilled, RowsAreLocked, InsertsOn, PortfoliosExist, IntentsAreUnique,
      BooksHold, HeldWasBought
<1>2. ASSUME NEW c \in Callers, Rollback(c) PROVE IInv'
  BY <1>2, EndsTxn DEF Rollback
<1> QED BY <1>1, <1>2, SelectDuplicateKeeps, SelectPortfolioKeeps, SelectPositionKeeps,
        UpsertKeeps, UpdateCashKeeps, InsertKeeps, CommitKeeps DEF PostgresNext

\* What the invariant says of the tables.
LEMMA BooksAreSound == IInv => FillsHoldOnPostgres
<1> SUFFICES ASSUME IInv PROVE FillsHoldOnPostgres
  OBVIOUS
<1>1. \A p \in Portfolios : portfolio[p].cash >= 0 /\ \A a \in Assets : positions[p][a].quantity >= 0
  <2>1. \A p \in Portfolios : portfolio[p].cash \in Nat
    BY DEF IInv, PostgresTypeOK, LedgerTypeOK, PortfolioRow
  <2>2. \A p \in Portfolios, a \in Assets : positions[p][a].quantity \in Nat
    BY DEF IInv, PostgresTypeOK, LedgerTypeOK, PaperPosition
  <2> QED BY <2>1, <2>2
<1> QED BY <1>1 DEF IInv, IntentsAreUnique, BooksHold, FillsHoldOnPostgres

\* apply_execution on PostgreSQL, for any callers, orders and lost connections: an
\* intent is filled once, no balance or position is negative, and as long as no fill
\* was committed over balances that it read before another fill of the portfolio, the
\* execution rows replay to the balances.
THEOREM FillsAlwaysHoldOnPostgres ==
  ASSUME OrdersAreFills
  PROVE  PostgresSpec => []FillsHoldOnPostgres
<1>1. PostgresInit => IInv
  BY PostgresInitInv
<1>2. IInv /\ [PostgresNext]_vars => IInv'
  BY PostgresKeeps
<1>3. IInv => FillsHoldOnPostgres
  BY BooksAreSound
<1> QED BY <1>1, <1>2, <1>3, PTL DEF PostgresSpec
=============================================================================
