------------------------ MODULE PaperRebalanceProofs ------------------------
(* Theorems about rebalancing runs, for any runs, clients, prices and policy. *)
EXTENDS PaperRebalance, PaperLedgerProofs

\* The rows of paper_execution are a sequence.
ExecutionsAreRows == \E S : executions \in Seq(S)

\* The parts of the state of the runs that the proofs look at are functions.
RunsAreTyped ==
  /\ clock \in Nat
  /\ at \in [Runs -> Points]
  /\ command \in [Runs -> Commands]
  /\ todo = [r \in Runs |-> todo[r]]
  /\ planned = [r \in Runs |-> planned[r]]

\* What a run has submitted of its plan is backed by executions.
PlanIsBacked ==
  \A r \in Runs :
    /\ at[r] = "executing" => \A o \in planned[r] \ todo[r] : Backed(command[r].asOf, o)
    /\ at[r] = "saving" /\ command[r].execute =>
         \A o \in planned[r] : Backed(command[r].asOf, o)

\* An executed intent stays executed when a fill is applied, and the intent that
\* was applied is executed.
LEMMA ApplyBacks ==
  ASSUME NEW S, executions \in Seq(S), NEW i, NEW r, NEW now, ApplyExecution(i, r, now)
  PROVE  /\ ExecutionsAreRows'
         /\ \A id : (\E n \in DOMAIN executions : executions[n].intent = id)
              => \E n \in DOMAIN executions' : executions'[n].intent = id
         /\ \E n \in DOMAIN executions' : executions'[n].intent = i.id
<1> DEFINE x == ExecutionRow(i, r, now)
           T == S \cup {x}
<1>1. x.intent = i.id
  BY DEF ExecutionRow
<1>2. executions' = Append(executions, x)
  BY DEF ApplyExecution
<1> HIDE DEF x
<1>3. executions \in Seq(T) /\ x \in T
  OBVIOUS
<1> HIDE DEF T
<1>4. /\ executions' \in Seq(T)
      /\ DOMAIN executions = 1 .. Len(executions)
      /\ DOMAIN executions' = 1 .. Len(executions) + 1
      /\ \A n \in 1 .. Len(executions) : executions'[n] = executions[n]
      /\ executions'[Len(executions) + 1] = x
      /\ Len(executions) \in Nat
  BY <1>2, <1>3
<1>5. ExecutionsAreRows'
  BY <1>4 DEF ExecutionsAreRows
<1>6. Len(executions) + 1 \in DOMAIN executions' /\ DOMAIN executions \subseteq DOMAIN executions'
  BY <1>4
<1>7. \A id : (\E n \in DOMAIN executions : executions[n].intent = id)
        => \E n \in DOMAIN executions' : executions'[n].intent = id
  BY <1>4, <1>6
<1>8. \E n \in DOMAIN executions' : executions'[n].intent = i.id
  BY <1>1, <1>4, <1>6
<1> QED BY <1>5, <1>7, <1>8

\* What a step does to the rows of paper_execution: nothing, or one fill.
LEMMA StepOfExecutions ==
  ASSUME [Next]_vars
  PROVE  \/ UNCHANGED executions
         \/ \E i, r, now : ApplyExecution(i, r, now)
<1>1. CASE UNCHANGED vars
  BY <1>1 DEF vars, ledgerVars
<1>2. CASE Tick \/ Bootstrap
  BY <1>2 DEF Tick, Bootstrap, Create, ledgerVars
<1>3. ASSUME NEW r \in Runs, NEW c, Begin(r, c)
      PROVE  UNCHANGED executions
  BY <1>3 DEF Begin, ledgerVars
<1>4. ASSUME NEW r \in Runs, ExecuteOrder(r)
      PROVE  UNCHANGED executions \/ \E i, t, now : ApplyExecution(i, t, now)
  BY <1>4 DEF ExecuteOrder, Abandon, ledgerVars
<1>5. ASSUME NEW r \in Runs,
             \/ ReadPositions(r) \/ CannotValue(r) \/ Decide(r) \/ Executed(r)
             \/ SaveDecision(r) \/ Crash(r)
      PROVE  UNCHANGED executions
  BY <1>5 DEF ReadPositions, CannotValue, Decide, Executed, SaveDecision, Crash, ledgerVars
<1> QED BY <1>1, <1>2, <1>3, <1>4, <1>5 DEF Next, BeginJob, BeginRoute
----------------------------------------------------------------------------
(* Fills are final *)

\* No interleaving of scheduled runs, route calls and crashes fills an intent
\* twice or rewrites a fill.
THEOREM RebalanceFillsAreFinal == Spec => FillsAreFinal
<1>1. Init => ExecutionsAreRows /\ IntentsAreUnique
  <2> SUFFICES ASSUME Init PROVE ExecutionsAreRows /\ IntentsAreUnique
    OBVIOUS
  <2>1. executions = <<>>
    BY DEF Init, LedgerInit
  <2>2. executions \in Seq({})
    BY <2>1
  <2> QED BY <2>1, <2>2 DEF ExecutionsAreRows, IntentsAreUnique
<1>2. ExecutionsAreRows /\ IntentsAreUnique /\ [Next]_vars =>
      /\ ExecutionsAreRows' /\ IntentsAreUnique'
      /\ IsPrefix(executions, executions')
  <2> SUFFICES ASSUME ExecutionsAreRows, IntentsAreUnique, [Next]_vars
               PROVE  /\ ExecutionsAreRows' /\ IntentsAreUnique'
                      /\ IsPrefix(executions, executions')
    OBVIOUS
  <2>1. PICK S : executions \in Seq(S)
    BY DEF ExecutionsAreRows
  <2>2. CASE UNCHANGED executions
    BY <2>1, <2>2, PrefixOfSelf DEF ExecutionsAreRows, IntentsAreUnique
  <2>3. ASSUME NEW i, NEW r, NEW now, ApplyExecution(i, r, now)
        PROVE  /\ ExecutionsAreRows' /\ IntentsAreUnique'
               /\ IsPrefix(executions, executions')
    <3> DEFINE T == S \cup {ExecutionRow(i, r, now)}
    <3>1. executions \in Seq(T) /\ ExecutionRow(i, r, now) \in T
      BY <2>1
    <3> HIDE DEF T
    <3>2. IntentsAreUnique' /\ IsPrefix(executions, executions')
      BY <2>3, <3>1, ApplyKeepsIntentsUnique
    <3>3. ExecutionsAreRows'
      BY <2>1, <2>3, ApplyBacks
    <3> QED BY <3>2, <3>3
  <2> QED BY <2>2, <2>3, StepOfExecutions
<1>3. ExecutionsAreRows /\ IntentsAreUnique /\ [Next]_vars =>
      [/\ IsPrefix(executions, executions')
       /\ \A m, n \in DOMAIN executions' :
            executions'[m].intent = executions'[n].intent => m = n]_ledgerVars
  BY <1>2 DEF IntentsAreUnique
<1>4. Spec => [](ExecutionsAreRows /\ IntentsAreUnique)
  BY <1>1, <1>2, PTL DEF Spec
<1> QED BY <1>3, <1>4, PTL DEF Spec, FillsAreFinal
----------------------------------------------------------------------------
(* The audit trail is backed by fills *)

\* The state of the runs stays well formed.
LEMMA RunsStayTyped ==
  ASSUME RunsAreTyped, [Next]_vars
  PROVE  RunsAreTyped'
<1> USE DEF RunsAreTyped, Goto, Points
<1>1. CASE UNCHANGED vars
  BY <1>1 DEF vars, runVars
<1>2. CASE Tick \/ Bootstrap
  BY <1>2 DEF Tick, Bootstrap, runVars
<1>3. ASSUME NEW r \in Runs, NEW c \in Commands, Begin(r, c)
      PROVE  RunsAreTyped'
  BY <1>3 DEF Begin
<1>4. ASSUME NEW r \in Runs, BeginJob(r)
      PROVE  RunsAreTyped'
  <2>1. [origin |-> "job", asOf |-> clock, execute |-> JobExecutes] \in Commands
    BY RebalanceAssumption DEF Commands
  <2> QED BY <1>3, <1>4, <2>1 DEF BeginJob
<1>5. ASSUME NEW r \in Runs, NEW asOf \in ClientAsOf, NEW execute \in BOOLEAN,
             BeginRoute(r, asOf, execute)
      PROVE  RunsAreTyped'
  <2>1. asOf \in Nat
    BY RebalanceAssumption, Zenon
  <2>2. [origin |-> "route", asOf |-> asOf, execute |-> execute] \in Commands
    BY <2>1 DEF Commands
  <2> QED BY <1>3, <1>5, <2>2 DEF BeginRoute
<1>6. ASSUME NEW r \in Runs, ReadPositions(r) \/ CannotValue(r) \/ Executed(r) \/ SaveDecision(r)
                             \/ Crash(r)
      PROVE  RunsAreTyped'
  BY <1>6 DEF ReadPositions, CannotValue, Executed, SaveDecision, Crash
<1>7. ASSUME NEW r \in Runs, Decide(r)
      PROVE  RunsAreTyped'
  <2>1. /\ UNCHANGED <<clock, command>>
        /\ \E plan : planned' = [planned EXCEPT ![r] = plan]
        /\ UNCHANGED todo \/ todo' = [todo EXCEPT ![r] = planned'[r]]
        /\ \E point \in {"saving", "failed", "executing"} : at' = [at EXCEPT ![r] = point]
    BY <1>7 DEF Decide, DecideOn
  <2> QED BY <2>1
<1>8. ASSUME NEW r \in Runs, ExecuteOrder(r)
      PROVE  RunsAreTyped'
  <2>1. /\ UNCHANGED <<clock, command, planned>>
        /\ UNCHANGED todo \/ \E o : todo' = [todo EXCEPT ![r] = @ \ {o}]
        /\ UNCHANGED at \/ at' = [at EXCEPT ![r] = "rejected"]
    BY <1>8 DEF ExecuteOrder, Abandon
  <2> QED BY <2>1
<1> QED BY <1>1, <1>2, <1>4, <1>5, <1>6, <1>7, <1>8 DEF Next

\* No step takes an executed intent back.
LEMMA BackedPersists ==
  ASSUME ExecutionsAreRows, [Next]_vars
  PROVE  /\ ExecutionsAreRows'
         /\ \A asOf, o : Backed(asOf, o) => Backed(asOf, o)'
<1>1. PICK S : executions \in Seq(S)
  BY DEF ExecutionsAreRows
<1>2. CASE UNCHANGED executions
  BY <1>2 DEF ExecutionsAreRows, Backed
<1>3. ASSUME NEW i, NEW r, NEW now, ApplyExecution(i, r, now)
      PROVE  /\ ExecutionsAreRows'
             /\ \A asOf, o : Backed(asOf, o) => Backed(asOf, o)'
  BY <1>1, <1>3, ApplyBacks DEF Backed
<1> QED BY <1>2, <1>3, StepOfExecutions

\* After one pass of the loop of _execute the order it took is backed, whether it
\* was applied now or had been applied before.
LEMMA SubmittedOrderIsBacked ==
  ASSUME ExecutionsAreRows, NEW r \in Runs, ExecuteOrder(r)
  PROVE  \/ /\ UNCHANGED at
            /\ \E o : todo' = [todo EXCEPT ![r] = @ \ {o}] /\ Backed(command[r].asOf, o)'
         \/ Goto(r, "rejected") /\ UNCHANGED todo
<1>1. PICK S : executions \in Seq(S)
  BY DEF ExecutionsAreRows
<1>2. PICK o \in NextOrders(r) :
        \/ /\ \/ ApplyExecution(Intent(r, o), Report(o), clock)
              \/ Duplicate(Intent(r, o)) /\ UNCHANGED ledgerVars
           /\ todo' = [todo EXCEPT ![r] = @ \ {o}]
           /\ UNCHANGED at
        \/ Abandon(r, o)
  BY DEF ExecuteOrder
<1>3. Intent(r, o).id = <<command[r].asOf, o.asset, o.side>>
  BY DEF Intent
<1>4. UNCHANGED command
  BY DEF ExecuteOrder
<1>5. CASE ApplyExecution(Intent(r, o), Report(o), clock) /\ UNCHANGED at
           /\ todo' = [todo EXCEPT ![r] = @ \ {o}]
  <2>1. \E n \in DOMAIN executions' : executions'[n].intent = Intent(r, o).id
    BY <1>1, <1>5, ApplyBacks
  <2>2. Backed(command[r].asOf, o)'
    BY <1>3, <1>4, <2>1 DEF Backed
  <2> QED BY <1>5, <2>2
<1>6. CASE Duplicate(Intent(r, o)) /\ UNCHANGED ledgerVars /\ UNCHANGED at
           /\ todo' = [todo EXCEPT ![r] = @ \ {o}]
  <2>1. Backed(command[r].asOf, o)'
    BY <1>3, <1>4, <1>6 DEF Backed, Duplicate, ledgerVars
  <2> QED BY <1>6, <2>1
<1>7. CASE Abandon(r, o)
  BY <1>7 DEF Abandon
<1> QED BY <1>2, <1>5, <1>6, <1>7

\* Every order of a saved EXECUTED decision was executed, for every interleaving of
\* runs, retried as_of values and crashes: the decision is saved after the last
\* order, and a run that is rejected half way saves none.
THEOREM RebalanceAuditIsBacked == Spec => []AuditIsBacked
<1> DEFINE Inv == ExecutionsAreRows /\ RunsAreTyped /\ PlanIsBacked /\ AuditIsBacked
<1>1. Init => Inv
  <2> SUFFICES ASSUME Init PROVE Inv
    OBVIOUS
  <2>1. executions \in Seq({})
    BY DEF Init, LedgerInit
  <2>2. ExecutionsAreRows
    BY <2>1 DEF ExecutionsAreRows
  <2>3. RunsAreTyped
    BY DEF Init, RunsAreTyped, Points, NoCommand, Commands
  <2>4. PlanIsBacked /\ AuditIsBacked
    BY DEF Init, PlanIsBacked, AuditIsBacked
  <2> QED BY <2>2, <2>3, <2>4
<1>2. Inv /\ [Next]_vars => Inv'
  <2> SUFFICES ASSUME Inv, [Next]_vars PROVE Inv'
    OBVIOUS
  <2>1. RunsAreTyped'
    BY RunsStayTyped
  <2>2. /\ ExecutionsAreRows'
        /\ \A asOf, o : Backed(asOf, o) => Backed(asOf, o)'
    BY BackedPersists
  <2>3. UNCHANGED decisions => AuditIsBacked'
    BY <2>2 DEF AuditIsBacked, Backed
  <2>4. ASSUME UNCHANGED <<at, command, todo, planned, decisions>>
        PROVE  (PlanIsBacked /\ AuditIsBacked)'
    <3>1. PlanIsBacked'
      BY <2>2, <2>4 DEF PlanIsBacked
    <3> QED BY <2>3, <2>4, <3>1
  <2>5. ASSUME UNCHANGED vars
        PROVE  (PlanIsBacked /\ AuditIsBacked)'
    BY <2>4, <2>5 DEF vars, runVars
  <2>6. ASSUME Tick \/ Bootstrap
        PROVE  (PlanIsBacked /\ AuditIsBacked)'
    BY <2>4, <2>6 DEF Tick, Bootstrap, runVars
  <2>7. ASSUME NEW r \in Runs, NEW c, Begin(r, c)
        PROVE  (PlanIsBacked /\ AuditIsBacked)'
    <3>1. /\ at' = [at EXCEPT ![r] = "reading"]
          /\ command' = [command EXCEPT ![r] = c]
          /\ UNCHANGED <<todo, planned, decisions>>
      BY <2>7 DEF Begin, Goto
    <3> QED BY <2>2, <2>3, <3>1 DEF PlanIsBacked, RunsAreTyped
  <2>8. ASSUME NEW r \in Runs, ReadPositions(r) \/ CannotValue(r) \/ Crash(r)
        PROVE  (PlanIsBacked /\ AuditIsBacked)'
    <3>1. /\ \E point \in {"read", "failed", "crashed"} : at' = [at EXCEPT ![r] = point]
          /\ UNCHANGED <<command, todo, planned, decisions>>
      BY <2>8 DEF ReadPositions, CannotValue, Crash, Goto
    <3> QED BY <2>2, <2>3, <3>1 DEF PlanIsBacked, RunsAreTyped
  <2>9. ASSUME NEW r \in Runs, Decide(r)
        PROVE  (PlanIsBacked /\ AuditIsBacked)'
    <3>1. /\ UNCHANGED <<command, decisions>>
          /\ \E plan : planned' = [planned EXCEPT ![r] = plan]
          /\ \/ ~command[r].execute /\ Goto(r, "saving") /\ UNCHANGED todo
             \/ Goto(r, "failed") /\ UNCHANGED todo
             \/ Goto(r, "executing") /\ todo' = [todo EXCEPT ![r] = planned'[r]]
      BY <2>9 DEF Decide, DecideOn
    <3> QED BY <2>2, <2>3, <3>1 DEF PlanIsBacked, RunsAreTyped, Goto
  <2>10. ASSUME NEW r \in Runs, ExecuteOrder(r)
         PROVE  (PlanIsBacked /\ AuditIsBacked)'
    <3>1. UNCHANGED <<command, planned, decisions>> /\ at[r] = "executing"
      BY <2>10 DEF ExecuteOrder
    <3>2. \/ /\ UNCHANGED at
             /\ \E o : todo' = [todo EXCEPT ![r] = @ \ {o}] /\ Backed(command[r].asOf, o)'
          \/ Goto(r, "rejected") /\ UNCHANGED todo
      BY <2>10, SubmittedOrderIsBacked
    <3> QED BY <2>2, <2>3, <3>1, <3>2 DEF PlanIsBacked, RunsAreTyped, Goto
  <2>11. ASSUME NEW r \in Runs, Executed(r)
         PROVE  (PlanIsBacked /\ AuditIsBacked)'
    <3>1. /\ at[r] = "executing" /\ todo[r] = {}
          /\ at' = [at EXCEPT ![r] = "saving"]
          /\ UNCHANGED <<command, todo, planned, decisions>>
      BY <2>11 DEF Executed, Goto
    <3> QED BY <2>2, <2>3, <3>1 DEF PlanIsBacked, RunsAreTyped
  <2>12. ASSUME NEW r \in Runs, SaveDecision(r)
         PROVE  (PlanIsBacked /\ AuditIsBacked)'
    <3>1. /\ at[r] = "saving"
          /\ at' = [at EXCEPT ![r] = "done"]
          /\ UNCHANGED <<command, todo, planned>>
          /\ \A d \in decisions' : d \in decisions \/ d = Decision(r)
      BY <2>12 DEF SaveDecision, Goto
    <3>2. PlanIsBacked'
      BY <2>2, <3>1 DEF PlanIsBacked, RunsAreTyped
    <3>3. Decision(r).status = "EXECUTED" => command[r].execute
      BY DEF Decision
    <3>4. Decision(r).orders = planned[r] /\ Decision(r).asOf = command[r].asOf
      BY DEF Decision
    <3>5. AuditIsBacked'
      BY <2>2, <3>1, <3>3, <3>4 DEF PlanIsBacked, AuditIsBacked
    <3> QED BY <3>2, <3>5
  <2>13. (PlanIsBacked /\ AuditIsBacked)'
    BY <2>5, <2>6, <2>7, <2>8, <2>9, <2>10, <2>11, <2>12 DEF Next, BeginJob, BeginRoute
  <2> QED BY <2>1, <2>2, <2>13
<1>3. Inv => AuditIsBacked
  OBVIOUS
<1> HIDE DEF Inv
<1> QED BY <1>1, <1>2, <1>3, PTL DEF Spec
----------------------------------------------------------------------------
(* The portfolio is an account *)

\* The rows the account is read from are functions, and the orders that wait to be
\* submitted name assets.
RowsAreShaped ==
  /\ portfolio = [p \in Portfolios |-> portfolio[p]]
  /\ portfolio[Account] =
       [identity |-> portfolio[Account].identity, cash |-> portfolio[Account].cash]
  /\ positions = [p \in Portfolios |-> positions[p]]
  /\ positions[Account] = [a \in Assets |-> positions[Account][a]]

OrdersNameAssets == \A r \in Runs : \A o \in todo[r] \cup planned[r] : o.asset \in Assets

\* A plan orders held or chosen assets only.
LEMMA PlanNamesAssets ==
  ASSUME NEW s, NEW price, NEW total, NEW blocked, NEW asOf, NEW data \in SUBSET Assets,
         NEW pass, NEW chosen \in Selections(s, asOf, data, pass),
         NEW o \in Plan(s, price, total, chosen, blocked)
  PROVE  o.asset \in Assets
<1>1. chosen \subseteq Assets
  BY DEF Selections, Held
<1>2. \E a \in Held(s) \cup chosen : o.asset = a
  <2> DEFINE target(a) == IF a \in chosen THEN TargetNotional(total, Cardinality(chosen)) ELSE 0
             diff(a) == target(a) - s.quantity[a] * price[a]
             rows == {a \in Held(s) \cup chosen :
                        WorthTrading(total, diff(a)) /\ ~(diff(a) > 0 /\ a \in blocked)}
             part(a) == Abs(diff(a)) \div price[a]
             side(a) == IF diff(a) > 0 THEN "BUY" ELSE "SELL"
             quantity(a) == IF diff(a) > 0 THEN part(a)
                            ELSE IF target(a) = 0 THEN s.quantity[a]
                            ELSE Min({part(a), s.quantity[a]})
             notional(a) == Abs(diff(a))
  <2>1. Plan(s, price, total, chosen, blocked) =
          {[asset |-> a, side |-> side(a), quantity |-> quantity(a), price |-> price[a],
            notional |-> notional(a)] : a \in rows}
    BY DEF Plan
  <2>2. rows \subseteq Held(s) \cup chosen
    OBVIOUS
  <2> HIDE DEF rows, side, quantity, notional
  <2> QED BY <2>1, <2>2
<1> QED BY <1>1, <1>2 DEF Held

LEMMA OrdersStayNamed ==
  ASSUME OrdersNameAssets, RunsAreTyped, [Next]_vars
  PROVE  OrdersNameAssets'
<1> USE DEF OrdersNameAssets, RunsAreTyped
<1>1. ASSUME UNCHANGED <<todo, planned>>
      PROVE  OrdersNameAssets'
  BY <1>1
<1>2. CASE UNCHANGED vars \/ Tick \/ Bootstrap
  BY <1>1, <1>2 DEF vars, runVars, Tick, Bootstrap
<1>3. ASSUME NEW r \in Runs,
             \/ \E c : Begin(r, c)
             \/ ReadPositions(r) \/ CannotValue(r) \/ Executed(r) \/ SaveDecision(r) \/ Crash(r)
      PROVE  OrdersNameAssets'
  BY <1>1, <1>3 DEF Begin, ReadPositions, CannotValue, Executed, SaveDecision, Crash
<1>4. ASSUME NEW r \in Runs, Decide(r)
      PROVE  OrdersNameAssets'
  <2>1. /\ \E plan : /\ planned' = [planned EXCEPT ![r] = plan]
                     /\ \A o \in plan : o.asset \in Assets
        /\ UNCHANGED todo \/ todo' = [todo EXCEPT ![r] = planned'[r]]
    <3>1. PICK data, price, pass, total, chosen, blocked :
            /\ data \in SUBSET Assets
            /\ chosen \in Selections(seen[r], command[r].asOf, data, pass)
            /\ planned' = [planned EXCEPT ![r] = Plan(seen[r], price, total, chosen, blocked)]
      BY <1>4 DEF Decide, DecideOn
    <3>2. \A o \in Plan(seen[r], price, total, chosen, blocked) : o.asset \in Assets
      BY <3>1, PlanNamesAssets
    <3>3. UNCHANGED todo \/ todo' = [todo EXCEPT ![r] = planned'[r]]
      BY <1>4 DEF Decide, DecideOn
    <3> QED BY <3>1, <3>2, <3>3
  <2> QED BY <2>1
<1>5. ASSUME NEW r \in Runs, ExecuteOrder(r)
      PROVE  OrdersNameAssets'
  <2>1. /\ UNCHANGED planned
        /\ UNCHANGED todo \/ \E o : todo' = [todo EXCEPT ![r] = @ \ {o}]
    BY <1>5 DEF ExecuteOrder, Abandon
  <2> QED BY <2>1
<1> QED BY <1>2, <1>3, <1>4, <1>5 DEF Next, BeginJob, BeginRoute

\* What a step does to the ledger: nothing, the creation of the portfolio, or the
\* fill of one order of a run.
LEMMA StepOfLedger ==
  ASSUME OrdersNameAssets, [Next]_vars
  PROVE  \/ UNCHANGED ledgerVars
         \/ Create(Account, Identity, InitialCash)
         \/ \E i, t, now :
              /\ ApplyExecution(i, t, now)
              /\ i.portfolio = Account /\ i.identity = Identity /\ i.asset \in Assets
<1>1. CASE UNCHANGED vars \/ Tick \/ Bootstrap
  BY <1>1 DEF vars, Tick, Bootstrap
<1>2. ASSUME NEW r \in Runs,
             \/ \E c : Begin(r, c)
             \/ ReadPositions(r) \/ CannotValue(r) \/ Decide(r) \/ Executed(r)
             \/ SaveDecision(r) \/ Crash(r)
      PROVE  UNCHANGED ledgerVars
  BY <1>2 DEF Begin, ReadPositions, CannotValue, Decide, Executed, SaveDecision, Crash
<1>3. ASSUME NEW r \in Runs, ExecuteOrder(r)
      PROVE  \/ UNCHANGED ledgerVars
             \/ \E i, t, now :
                  /\ ApplyExecution(i, t, now)
                  /\ i.portfolio = Account /\ i.identity = Identity /\ i.asset \in Assets
  <2>1. CASE UNCHANGED ledgerVars
    BY <2>1
  <2>2. ASSUME NEW o \in NextOrders(r), ApplyExecution(Intent(r, o), Report(o), clock)
        PROVE  \E i, t, now :
                  /\ ApplyExecution(i, t, now)
                  /\ i.portfolio = Account /\ i.identity = Identity /\ i.asset \in Assets
    <3>1. o.asset \in Assets
      BY DEF NextOrders, OrdersNameAssets
    <3>2. /\ Intent(r, o).portfolio = Account /\ Intent(r, o).identity = Identity
          /\ Intent(r, o).asset = o.asset
      BY DEF Intent
    <3> QED BY <2>2, <3>1, <3>2
  <2> QED BY <1>3, <2>1, <2>2 DEF ExecuteOrder, Abandon
<1> QED BY <1>1, <1>2, <1>3 DEF Next, BeginJob, BeginRoute

\* A fill of the ledger is a fill of the account.
LEMMA ApplyIsFill ==
  ASSUME RowsAreShaped, NEW S, executions \in Seq(S), NEW i, NEW t, NEW now,
         ApplyExecution(i, t, now),
         i.portfolio = Account, i.identity = Identity, i.asset \in Assets
  PROVE  Book!Fill /\ RowsAreShaped'
<1> DEFINE x == ExecutionRow(i, t, now)
           f == FillOf(x)
           before == {FillOf(executions[n]) : n \in DOMAIN executions}
           old == positions[Account][i.asset]
<1>1. /\ f.intent = i.id /\ f.asset = i.asset /\ f.side = i.side /\ f.quantity = t.quantity
      /\ f.cost = Notional(t) /\ f.fee = t.fee
  BY DEF FillOf, ExecutionRow, Notional
<1>2. before' = before \cup {f}
  <2>1. executions' = Append(executions, x)
    BY DEF ApplyExecution
  <2> DEFINE T == S \cup {x}
  <2>2. executions \in Seq(T) /\ x \in T
    OBVIOUS
  <2> HIDE DEF x, T
  <2>3. /\ DOMAIN executions = 1 .. Len(executions)
        /\ DOMAIN executions' = 1 .. Len(executions) + 1
        /\ \A n \in 1 .. Len(executions) : executions'[n] = executions[n]
        /\ executions'[Len(executions) + 1] = x
        /\ Len(executions) \in Nat
    BY <2>1, <2>2
  <2>4. DOMAIN executions' = DOMAIN executions \cup {Len(executions) + 1}
    BY <2>3
  <2>5. before' = {FillOf(executions'[n]) : n \in DOMAIN executions'}
    BY DEF FillOf, Notional
  <2> QED BY <2>3, <2>4, <2>5
<1>3. \A g \in before : g.intent # f.intent
  <2>1. ASSUME NEW n \in DOMAIN executions
        PROVE  FillOf(executions[n]).intent # i.id
    BY <2>1 DEF ApplyExecution, Duplicate, FillOf
  <2> HIDE DEF f
  <2> QED BY <1>1, <2>1
<1>4. /\ portfolio'[Account].cash = CashAfter(portfolio[Account].cash, i, t)
      /\ portfolio'[Account].identity = Identity
      /\ portfolio' = [p \in Portfolios |-> portfolio'[p]]
      /\ portfolio'[Account] =
           [identity |-> portfolio'[Account].identity, cash |-> portfolio'[Account].cash]
      /\ portfolio[Account].identity = Identity
  BY RebalanceAssumption DEF ApplyExecution, Accepts, RowsAreShaped
<1>5. /\ positions' = [p \in Portfolios |-> positions'[p]]
      /\ positions'[Account] = [positions[Account] EXCEPT ![i.asset] = Filled(old, i, t)]
  BY RebalanceAssumption DEF ApplyExecution, RowsAreShaped
<1>6. /\ positions'[Account] = [a \in Assets |-> positions'[Account][a]]
      /\ positions'[Account][i.asset].quantity = Filled(old, i, t).quantity
      /\ \A a \in Assets \ {i.asset} : positions'[Account][a] = positions[Account][a]
  BY <1>5 DEF RowsAreShaped
<1>7. portfolio[Account] # NoPortfolio /\ portfolio'[Account] # NoPortfolio
  BY <1>4, LedgerAssumption, RebalanceAssumption DEF NoPortfolio
<1>8. Filled(old, i, t).quantity = IF i.side = "BUY" THEN old.quantity + t.quantity
                                   ELSE old.quantity - t.quantity
  BY DEF Filled
<1> DEFINE held == [a \in Assets |-> positions[Account][a].quantity]
<1>9. [a \in Assets |-> positions'[Account][a].quantity] =
        [held EXCEPT ![f.asset] = IF f.side = "BUY" THEN @ + f.quantity ELSE @ - f.quantity]
  <2> HIDE DEF f
  <2> QED BY <1>1, <1>6, <1>8
<1>10. IF f.side = "BUY"
       THEN /\ f.cost + f.fee <= portfolio[Account].cash
            /\ portfolio'[Account].cash = portfolio[Account].cash - (f.cost + f.fee)
            /\ [a \in Assets |-> positions'[Account][a].quantity] =
                 [held EXCEPT ![f.asset] = @ + f.quantity]
       ELSE /\ f.quantity <= held[f.asset]
            /\ portfolio'[Account].cash = portfolio[Account].cash + f.cost - f.fee
            /\ [a \in Assets |-> positions'[Account][a].quantity] =
                 [held EXCEPT ![f.asset] = @ - f.quantity]
  <2>1. IF f.side = "BUY" THEN f.cost + f.fee <= portfolio[Account].cash
        ELSE f.quantity <= held[f.asset]
    <3> HIDE DEF f
    <3> QED BY <1>1 DEF ApplyExecution, Accepts
  <2>2. portfolio'[Account].cash =
          IF f.side = "BUY" THEN portfolio[Account].cash - (f.cost + f.fee)
          ELSE portfolio[Account].cash + f.cost - f.fee
    <3> HIDE DEF f
    <3> QED BY <1>1, <1>4 DEF CashAfter
  <2> HIDE DEF f, held
  <2> QED BY <1>9, <2>1, <2>2
<1>11. f \in before' \ before
  <2> HIDE DEF f, before
  <2> QED BY <1>2, <1>3
<1>12. Book!Fill
  <2> HIDE DEF f
  <2> QED BY <1>2, <1>3, <1>7, <1>10, <1>11 DEF Book!Fill, Book!Buy, Book!Sell
<1>13. RowsAreShaped'
  BY <1>4, <1>5, <1>6 DEF RowsAreShaped
<1> QED BY <1>12, <1>13

\* The creation of the portfolio opens the account.
LEMMA CreateIsOpen ==
  ASSUME RowsAreShaped, Create(Account, Identity, InitialCash)
  PROVE  Book!Open /\ RowsAreShaped'
<1>1. /\ portfolio[Account] = NoPortfolio
      /\ portfolio' = [portfolio EXCEPT ![Account] = [identity |-> Identity, cash |-> InitialCash]]
      /\ UNCHANGED <<positions, executions>>
  BY DEF Create
<1>2. portfolio'[Account] = [identity |-> Identity, cash |-> InitialCash]
  BY <1>1, RebalanceAssumption DEF RowsAreShaped
<1>3. portfolio'[Account] # NoPortfolio
  BY <1>2, LedgerAssumption, RebalanceAssumption DEF NoPortfolio
<1>4. Book!Open
  BY <1>1, <1>2, <1>3 DEF Book!Open, FillOf, Notional
<1>5. RowsAreShaped'
  BY <1>1, <1>2 DEF RowsAreShaped
<1> QED BY <1>4, <1>5

\* The portfolio is an account to all runs, route calls, retries and crashes: the
\* inductive invariant is only that the rows are functions and that orders name
\* assets; freshness and cover come from the transaction of apply_execution itself.
THEOREM RebalanceImplementsAccount == Spec => ImplementsAccount
<1> DEFINE Inv == ExecutionsAreRows /\ RunsAreTyped /\ RowsAreShaped /\ OrdersNameAssets
<1>1. Init => Inv /\ Book!Init
  <2> SUFFICES ASSUME Init PROVE Inv /\ Book!Init
    OBVIOUS
  <2>1. executions = <<>> /\ executions \in Seq({})
    BY DEF Init, LedgerInit
  <2>2. ExecutionsAreRows
    BY <2>1 DEF ExecutionsAreRows
  <2>3. RunsAreTyped
    BY DEF Init, RunsAreTyped, Points, NoCommand, Commands
  <2>4. portfolio[Account] = NoPortfolio /\ positions[Account] = [a \in Assets |-> NoPosition]
    BY RebalanceAssumption DEF Init, LedgerInit
  <2>5. RowsAreShaped
    BY <2>4 DEF Init, LedgerInit, RowsAreShaped, NoPortfolio
  <2>6. OrdersNameAssets
    BY DEF Init, OrdersNameAssets
  <2>7. Book!Init
    BY <2>1, <2>4 DEF Book!Init, NoPortfolio, NoPosition
  <2> QED BY <2>2, <2>3, <2>5, <2>6, <2>7
<1>2. Inv /\ [Next]_vars => Inv' /\ [Book!Open \/ Book!Fill]_(Book!accountVars)
  <2> SUFFICES ASSUME Inv, [Next]_vars
               PROVE  Inv' /\ [Book!Open \/ Book!Fill]_(Book!accountVars)
    OBVIOUS
  <2>1. RunsAreTyped' /\ ExecutionsAreRows' /\ OrdersNameAssets'
    BY RunsStayTyped, BackedPersists, OrdersStayNamed
  <2>2. CASE UNCHANGED ledgerVars
    <3>1. RowsAreShaped'
      BY <2>2 DEF ledgerVars, RowsAreShaped
    <3>2. UNCHANGED Book!accountVars
      BY <2>2 DEF ledgerVars, Book!accountVars, FillOf, Notional
    <3> QED BY <2>1, <3>1, <3>2
  <2>3. CASE Create(Account, Identity, InitialCash)
    BY <2>1, <2>3, CreateIsOpen
  <2>4. ASSUME NEW i, NEW t, NEW now, ApplyExecution(i, t, now),
               i.portfolio = Account, i.identity = Identity, i.asset \in Assets
        PROVE  RowsAreShaped' /\ Book!Fill
    <3>1. PICK S : executions \in Seq(S)
      BY DEF ExecutionsAreRows
    <3> QED BY <2>4, <3>1, ApplyIsFill
  <2> QED BY <2>1, <2>2, <2>3, <2>4, StepOfLedger
<1> HIDE DEF Inv
<1> QED BY <1>1, <1>2, PTL DEF Spec, ImplementsAccount, Book!Spec
----------------------------------------------------------------------------
(* What a plan asks for *)

\* The smaller of two numbers.
LEMMA MinOfTwo ==
  ASSUME NEW a \in Nat, NEW b \in Nat
  PROVE  Min({a, b}) \in Nat /\ Min({a, b}) <= a /\ Min({a, b}) <= b
<1>1. \E x \in {a, b} : \A y \in {a, b} : x <= y
  OBVIOUS
<1>2. Min({a, b}) \in {a, b} /\ \A y \in {a, b} : Min({a, b}) <= y
  BY <1>1 DEF Min
<1> QED BY <1>2

\* Division of natural numbers.
LEMMA Quotient ==
  ASSUME NEW x \in Nat, NEW d \in Nat, d > 0
  PROVE  x \div d \in Nat /\ \A z \in Nat : x <= d * z => x \div d <= z
<1>1. x \div d \in Nat /\ d * (x \div d) <= x
  OBVIOUS
<1>2. ASSUME NEW z \in Nat, x <= d * z, x \div d > z
      PROVE  FALSE
  <2> DEFINE k == x \div d
  <2>1. k \in Nat /\ k >= z + 1 /\ d * k <= x
    BY <1>1, <1>2
  <2> HIDE DEF k
  <2>2. d * k >= d * (z + 1)
    BY <2>1
  <2>3. d * (z + 1) = d * z + d
    OBVIOUS
  <2>4. d * k \in Nat /\ d * z \in Nat
    BY <2>1, ProductType
  <2> QED BY <1>2, <2>1, <2>2, <2>3, <2>4
<1> QED BY <1>1, <1>2

\* The target of an asset is at most the whole equity.
LEMMA TargetBounds ==
  ASSUME NEW total \in Nat, NEW n \in Nat, n > 0
  PROVE  TargetNotional(total, n) \in Nat /\ TargetNotional(total, n) <= total
<1>1. InvestedPercent \in 0 .. 100 /\ AssetPercent \in 0 .. 100
  BY RebalanceAssumption
<1> DEFINE m == Min({InvestedPercent, AssetPercent * n})
<1>2. m \in Nat /\ m <= 100
  <2>1. AssetPercent * n \in Nat
    BY <1>1, ProductType
  <2> QED BY <1>1, <2>1, MinOfTwo
<1> HIDE DEF m
<1>3. m * total \in Nat /\ 100 * n \in Nat /\ 100 * n > 0
  BY <1>2, ProductType
<1>4. m * total <= (100 * n) * total
  <2>1. m <= 100 * n
    BY <1>2
  <2> QED BY <1>2, <1>3, <2>1
<1>5. (m * total) \div (100 * n) \in Nat /\ (m * total) \div (100 * n) <= total
  BY <1>3, <1>4, Quotient
<1> QED BY <1>5 DEF TargetNotional, m

\* The equity is a natural number, and no holding is worth more than it.
LEMMA EquityBounds ==
  ASSUME NEW s \in Snapshots, NEW data \in SUBSET Assets, NEW price \in [data -> Levels],
         Held(s) \subseteq data
  PROVE  /\ EquityAt(s, price) \in Nat
         /\ \A a \in Held(s) : s.quantity[a] * price[a] <= EquityAt(s, price)
<1>1. s.cash \in Nat /\ \A a \in Assets : s.quantity[a] \in Nat
  BY DEF Snapshots
<1>2. \A a \in data : price[a] \in Nat
  BY RebalanceAssumption
<1>3. IsFiniteSet(Held(s))
  BY LedgerAssumption, FS_Subset DEF Held
<1>4. \A a \in Held(s) : s.quantity[a] * price[a] \in Nat
  BY <1>1, <1>2, ProductType DEF Held
<1> DEFINE S == Held(s)
           v == [a \in S |-> s.quantity[a] * price[a]]
           G(g) == g = [t \in SUBSET S |->
                          IF t = {} THEN 0
                          ELSE s.quantity[First(t)] * price[First(t)] + g[t \ {First(t)}]]
           sums == CHOOSE g : G(g)
<1>5. EquityAt(s, price) = s.cash + sums[S]
  BY Zenon DEF EquityAt, MapThenSumSet, MapThenFoldSet, First
<1>6. sums[S] = SumOver(S, v)
  <2>1. PICK g : SetSums(SUBSET S, v, g)
    BY <1>3, FoldsExist
  <2>2. ASSUME NEW t \in SUBSET S, t # {}
        PROVE  v[First(t)] = s.quantity[First(t)] * price[First(t)]
    <3>1. First(t) \in S
      BY <2>2 DEF First
    <3> QED BY <3>1
  <2> HIDE DEF v
  <2>3. ASSUME NEW h
        PROVE  G(h) <=> SetSums(SUBSET S, v, h)
    BY <2>2 DEF SetSums
  <2>4. G(g)
    BY <2>1, <2>3
  <2>5. G(sums)
    BY <2>4, Zenon
  <2>6. SetSums(SUBSET S, v, sums)
    BY <2>3, <2>5
  <2> QED BY <1>3, <2>6, SumOverIs
<1> HIDE DEF sums
<1>7. \A a \in S : v[a] = s.quantity[a] * price[a]
  OBVIOUS
<1> HIDE DEF v
<1>8. SumOver(S, v) \in Nat /\ \A a \in S : v[a] <= SumOver(S, v)
  BY <1>3, <1>4, <1>7, SumOverBounds
<1> QED BY <1>1, <1>4, <1>5, <1>6, <1>7, <1>8

\* A plan has one order for an asset, worth at least the minimum and at most the
\* equity, and buys chosen assets only.
LEMMA PlanBounds ==
  ASSUME NEW s \in Snapshots, NEW data \in SUBSET Assets, NEW price \in [data -> Levels],
         Held(s) \subseteq data, NEW chosen \in SUBSET data, NEW blocked,
         NEW o \in Plan(s, price, EquityAt(s, price), chosen, blocked)
  PROVE  /\ o \in Orders
         /\ MinimumOrderNotional <= o.notional
         /\ o.notional <= EquityAt(s, price)
         /\ o.side = "BUY" => o.asset \in chosen
         /\ \A q \in Plan(s, price, EquityAt(s, price), chosen, blocked) :
              q.asset = o.asset => q = o
<1> DEFINE total == EquityAt(s, price)
<1>1. total \in Nat /\ \A a \in Held(s) : s.quantity[a] * price[a] <= total
  BY EquityBounds
<1> HIDE DEF total
<1> DEFINE target(a) == IF a \in chosen THEN TargetNotional(total, Cardinality(chosen)) ELSE 0
           worth(a) == s.quantity[a] * price[a]
           diff(a) == target(a) - worth(a)
           rows == {a \in Held(s) \cup chosen :
                      WorthTrading(total, diff(a)) /\ ~(diff(a) > 0 /\ a \in blocked)}
           part(a) == Abs(diff(a)) \div price[a]
           side(a) == IF diff(a) > 0 THEN "BUY" ELSE "SELL"
           quantity(a) == IF diff(a) > 0 THEN part(a)
                          ELSE IF target(a) = 0 THEN s.quantity[a]
                          ELSE Min({part(a), s.quantity[a]})
           order(a) == [asset |-> a, side |-> side(a), quantity |-> quantity(a),
                        price |-> price[a], notional |-> Abs(diff(a))]
<1>2. Plan(s, price, EquityAt(s, price), chosen, blocked) = {order(a) : a \in rows}
  BY DEF Plan, total
<1>3. \A a : order(a).asset = a
  OBVIOUS
<1>4. PICK a \in rows : o = order(a)
  BY <1>2
<1>5. a \in Assets /\ a \in data
  BY <1>4
<1>6. /\ s.quantity[a] \in Nat /\ price[a] \in Nat /\ price[a] > 0
  <2>1. price[a] \in Levels /\ Levels \subseteq Nat \ {0}
    BY <1>5, RebalanceAssumption, Zenon
  <2>2. price[a] \in Nat \ {0}
    BY <2>1, Zenon
  <2> QED BY <1>5, <2>2 DEF Snapshots
<1>7. target(a) \in Nat /\ target(a) <= total
  <2>1. CASE a \in chosen
    <3>1. IsFiniteSet(chosen)
      BY LedgerAssumption, FS_Subset
    <3>2. Cardinality(chosen) \in Nat /\ Cardinality(chosen) > 0
      BY <2>1, <3>1, FS_CardinalityType, FS_EmptySet
    <3> QED BY <1>1, <2>1, <3>2, TargetBounds
  <2>2. CASE a \notin chosen
    BY <1>1, <2>2
  <2> QED BY <2>1, <2>2
<1>8. worth(a) \in Nat /\ worth(a) <= total
  <2>1. worth(a) \in Nat
    BY <1>6, ProductType
  <2>2. CASE a \in Held(s)
    BY <1>1, <2>1, <2>2
  <2>3. CASE a \notin Held(s)
    BY <1>1, <1>5, <1>6, <2>3 DEF Held
  <2> QED BY <2>1, <2>2, <2>3
<1>9. /\ diff(a) \in Int /\ Abs(diff(a)) \in Nat /\ Abs(diff(a)) <= total
      /\ diff(a) > 0 => a \in chosen
  <2>1. target(a) - worth(a) \in Int /\ Abs(target(a) - worth(a)) \in Nat
        /\ Abs(target(a) - worth(a)) <= total
    <3> HIDE DEF target, worth
    <3> QED BY <1>1, <1>7, <1>8 DEF Abs
  <2>2. diff(a) > 0 => target(a) # 0
    <3> HIDE DEF target, worth
    <3> QED BY <1>7, <1>8
  <2> QED BY <2>1, <2>2
<1>10. MinimumOrderNotional <= Abs(diff(a))
  <2>1. WorthTrading(total, diff(a)) /\ MinimumOrderNotional \in Nat
    BY <1>4, RebalanceAssumption
  <2> HIDE DEF diff
  <2> QED BY <1>9, <2>1 DEF WorthTrading
<1> HIDE DEF diff, target
<1>11. part(a) \in Nat
  BY <1>6, <1>9, Quotient
<1>12. quantity(a) \in Nat
  <2> HIDE DEF part
  <2> QED BY <1>6, <1>11, MinOfTwo
<1>13. side(a) \in Sides
  BY DEF Sides
<1> HIDE DEF quantity
<1>14. order(a) \in Orders
  <2> HIDE DEF side
  <2> QED BY <1>5, <1>6, <1>9, <1>12, <1>13 DEF Orders
<1>15. order(a).side = "BUY" => order(a).asset \in chosen
  BY <1>9
<1>16. order(a).notional = Abs(diff(a))
  OBVIOUS
<1> HIDE DEF order
<1>17. \A q \in {order(b) : b \in rows} : q.asset = o.asset => q = o
  <2> HIDE DEF rows
  <2> QED BY <1>3, <1>4
<1> QED BY <1>2, <1>4, <1>9, <1>10, <1>14, <1>15, <1>16, <1>17 DEF total
----------------------------------------------------------------------------
(* Types, books and approval *)

\* The as_of of a run is a time of the clock or of a client.
AsOfs == (0 .. MaxClock) \cup ClientAsOf

AsOfInRange == clock \in 0 .. MaxClock /\ \A r \in Runs : command[r].asOf \in AsOfs

\* The report of an order: its fee is a fraction of its notional.
LEMMA ReportType ==
  ASSUME NEW o \in Orders
  PROVE  Report(o) \in Reports /\ Report(o).fee <= Notional(Report(o))
<1>1. o.side \in Sides /\ o.quantity \in Nat /\ o.price \in Nat
  BY DEF Orders
<1>2. SlippagePercent \in 0 .. 99 /\ FeePercent \in 0 .. 100
  BY RebalanceAssumption
<1> DEFINE slip == IF o.side = "BUY" THEN SlippagePercent ELSE -SlippagePercent
           price == (o.price * (100 + slip)) \div 100
           gross == o.quantity * price
           fee == (gross * FeePercent) \div 100
<1>3. 100 + slip \in Nat
  BY <1>2
<1> HIDE DEF slip
<1>4. o.price * (100 + slip) \in Nat
  BY <1>1, <1>3, ProductType
<1>5. price \in Nat
  BY <1>4, Quotient
<1> HIDE DEF price
<1>6. gross \in Nat
  BY <1>1, <1>5, ProductType
<1> HIDE DEF gross
<1>7. gross * FeePercent \in Nat /\ gross * FeePercent <= 100 * gross
  BY <1>2, <1>6, ProductType
<1>8. fee \in Nat /\ fee <= gross
  BY <1>6, <1>7, Quotient
<1> HIDE DEF fee
<1>9. Report(o) = [side |-> o.side, quantity |-> o.quantity, price |-> price, fee |-> fee]
  BY DEF Report, fee, gross, price, slip
<1>10. Report(o) \in Reports
  BY <1>1, <1>5, <1>8, <1>9 DEF Reports
<1>11. Notional(Report(o)) = gross /\ Report(o).fee = fee
  BY <1>9 DEF Notional, gross
<1> QED BY <1>8, <1>10, <1>11

\* The intent of an order.
LEMMA IntentType ==
  ASSUME TypeOK, AsOfInRange, NEW r \in Runs, NEW o \in Orders
  PROVE  Intent(r, o) \in Intents
<1>1. o.asset \in Assets /\ o.side \in Sides /\ o.quantity \in Nat
  BY DEF Orders
<1>2. command[r].asOf \in AsOfs
  BY DEF AsOfInRange
<1>3. <<command[r].asOf, o.asset, o.side>> \in AsOfs \X Assets \X Sides
  BY <1>1, <1>2
<1>4. <<command[r].asOf, o.asset, o.side>> \in IntentIds
  BY <1>3, RebalanceAssumption DEF AsOfs
<1>5. Account \in Portfolios /\ Identity \in Identities
  BY RebalanceAssumption
<1> QED BY <1>1, <1>4, <1>5 DEF Intent, Intents

\* What a step does to the ledger, with the types of what is filled.
LEMMA TypedStepOfLedger ==
  ASSUME TypeOK, AsOfInRange, [Next]_vars
  PROVE  \/ UNCHANGED ledgerVars
         \/ Create(Account, Identity, InitialCash)
         \/ \E i \in Intents, t \in Reports :
              t.fee <= Notional(t) /\ ApplyExecution(i, t, clock)
<1>1. CASE UNCHANGED vars \/ Tick \/ Bootstrap
  BY <1>1 DEF vars, Tick, Bootstrap
<1>2. ASSUME NEW r \in Runs,
             \/ \E c : Begin(r, c)
             \/ ReadPositions(r) \/ CannotValue(r) \/ Decide(r) \/ Executed(r)
             \/ SaveDecision(r) \/ Crash(r)
      PROVE  UNCHANGED ledgerVars
  BY <1>2 DEF Begin, ReadPositions, CannotValue, Decide, Executed, SaveDecision, Crash
<1>3. ASSUME NEW r \in Runs, ExecuteOrder(r)
      PROVE  \/ UNCHANGED ledgerVars
             \/ \E i \in Intents, t \in Reports :
                  t.fee <= Notional(t) /\ ApplyExecution(i, t, clock)
  <2>1. CASE UNCHANGED ledgerVars
    BY <2>1
  <2>2. ASSUME NEW o \in NextOrders(r), ApplyExecution(Intent(r, o), Report(o), clock)
        PROVE  \E i \in Intents, t \in Reports :
                 t.fee <= Notional(t) /\ ApplyExecution(i, t, clock)
    <3>1. o \in Orders
      BY DEF NextOrders, TypeOK, RunsTypeOK
    <3>2. Intent(r, o) \in Intents /\ Report(o) \in Reports
          /\ Report(o).fee <= Notional(Report(o))
      BY <3>1, IntentType, ReportType
    <3> QED BY <2>2, <3>2
  <2> QED BY <1>3, <2>1, <2>2 DEF ExecuteOrder, Abandon
<1> QED BY <1>1, <1>2, <1>3 DEF Next, BeginJob, BeginRoute

\* The ledger of the runs stays typed and reconciled.
LEMMA LedgerStaysSound ==
  ASSUME TypeOK, AsOfInRange, LedgerReconciles, NoneDeposited, [Next]_vars
  PROVE  LedgerTypeOK' /\ LedgerReconciles' /\ NoneDeposited'
<1>0. LedgerTypeOK /\ clock \in Nat
  BY DEF TypeOK, RunsTypeOK
<1>1. CASE UNCHANGED ledgerVars
  BY <1>0, <1>1, ReconcilesAsTotals DEF ledgerVars, NoneDeposited, LedgerTypeOK
<1>2. CASE Create(Account, Identity, InitialCash)
  <2>1. Account \in Portfolios /\ Identity \in Identities /\ InitialCash \in Nat
    BY RebalanceAssumption
  <2> QED BY <1>0, <1>2, <2>1, CreateKeepsTypes, CreateReconciles
<1>3. ASSUME NEW i \in Intents, NEW t \in Reports,
             t.fee <= Notional(t), ApplyExecution(i, t, clock)
      PROVE  LedgerTypeOK' /\ LedgerReconciles' /\ NoneDeposited'
  BY <1>0, <1>3, ApplyKeepsTypes, ApplyReconciles
<1> QED BY <1>1, <1>2, <1>3, TypedStepOfLedger

\* What Decide stores: the plan of a selection, worth at most the equity.
DecidesPlan(r, data, price, pass, chosen, blocked) ==
  /\ data \in SUBSET Assets /\ price \in [data -> Levels] /\ Held(seen[r]) \subseteq data
  /\ chosen \in Selections(seen[r], command[r].asOf, data, pass) /\ chosen \in SUBSET data
  /\ equity' = [equity EXCEPT ![r] = EquityAt(seen[r], price)]
  /\ planned' = [planned EXCEPT ![r] =
                   Plan(seen[r], price, EquityAt(seen[r], price), chosen, blocked)]

LEMMA DecideStoresPlan ==
  ASSUME NEW r \in Runs, Decide(r)
  PROVE  \E data, price, pass, chosen, blocked :
           DecidesPlan(r, data, price, pass, chosen, blocked)
<1>1. PICK data, price, pass :
        data \in SUBSET Assets /\ price \in [data -> Levels] /\ DecideOn(r, data, price, pass)
  BY DEF Decide
<1>2. /\ Held(seen[r]) \subseteq data
      /\ equity' = [equity EXCEPT ![r] = EquityAt(seen[r], price)]
  BY <1>1 DEF DecideOn
<1>3. PICK chosen, blocked :
        /\ chosen \in Selections(seen[r], command[r].asOf, data, pass)
        /\ planned' = [planned EXCEPT ![r] =
                         Plan(seen[r], price, EquityAt(seen[r], price), chosen, blocked)]
  BY <1>1, Zenon DEF DecideOn
<1>4. chosen \in SUBSET data
  BY <1>3 DEF Selections
<1> QED BY <1>1, <1>2, <1>3, <1>4, Zenon DEF DecidesPlan

\* The runs stay typed, their as_of in range and their plans approved.
LEMMA RunsStaySound ==
  ASSUME TypeOK, AsOfInRange, PlansAreApproved, [Next]_vars
  PROVE  RunsTypeOK' /\ AsOfInRange' /\ PlansAreApproved'
<1> USE DEF Goto
<1>0. RunsTypeOK /\ LedgerTypeOK /\ MaxClock \in Nat
  BY RebalanceAssumption DEF TypeOK
<1>1. ASSUME UNCHANGED <<command, at, equity, todo>>, clock' \in 0 .. MaxClock, RunsTypeOK'
      PROVE  RunsTypeOK' /\ AsOfInRange' /\ PlansAreApproved'
  BY <1>1 DEF AsOfInRange, PlansAreApproved, Approves
<1>2. ASSUME UNCHANGED vars \/ Tick \/ Bootstrap
      PROVE  RunsTypeOK' /\ AsOfInRange' /\ PlansAreApproved'
  <2>1. UNCHANGED <<runVars, decisions, crashes>> /\ clock' \in 0 .. MaxClock
    BY <1>0, <1>2 DEF vars, Tick, Bootstrap, AsOfInRange
  <2>2. clock' \in Nat
    BY <1>0, <2>1
  <2> QED BY <1>0, <1>1, <2>1, <2>2 DEF runVars, RunsTypeOK
<1>3. ASSUME NEW r \in Runs, NEW c \in Commands, c.asOf \in AsOfs, Begin(r, c)
      PROVE  RunsTypeOK' /\ AsOfInRange' /\ PlansAreApproved'
  <2>1. portfolio[Account].cash \in Nat
    BY <1>0, RebalanceAssumption DEF LedgerTypeOK, PortfolioRow
  <2>2. seen' \in [Runs -> Snapshots]
    BY <1>0, <1>3, <2>1 DEF Begin, RunsTypeOK, Snapshots
  <2>3. RunsTypeOK'
    BY <1>0, <1>3, <2>2 DEF Begin, RunsTypeOK, Points
  <2>4. AsOfInRange'
    BY <1>0, <1>3 DEF Begin, RunsTypeOK, AsOfInRange
  <2>5. PlansAreApproved'
    BY <1>0, <1>3 DEF Begin, RunsTypeOK, PlansAreApproved, Approves
  <2> QED BY <2>3, <2>4, <2>5
<1>4. ASSUME NEW r \in Runs, BeginJob(r)
      PROVE  RunsTypeOK' /\ AsOfInRange' /\ PlansAreApproved'
  <2>1. clock \in AsOfs /\ clock \in Nat
    BY <1>0 DEF AsOfInRange, AsOfs
  <2> DEFINE c == [origin |-> "job", asOf |-> clock, execute |-> JobExecutes]
  <2>2. c \in Commands /\ c.asOf \in AsOfs
    BY <2>1, RebalanceAssumption DEF Commands
  <2>3. Begin(r, c)
    BY <1>4 DEF BeginJob
  <2> HIDE DEF c
  <2> QED BY <1>3, <2>2, <2>3
<1>5. ASSUME NEW r \in Runs, NEW asOf \in ClientAsOf, NEW execute \in BOOLEAN,
             BeginRoute(r, asOf, execute)
      PROVE  RunsTypeOK' /\ AsOfInRange' /\ PlansAreApproved'
  <2>1. asOf \in Nat
    BY RebalanceAssumption, Zenon
  <2> DEFINE c == [origin |-> "route", asOf |-> asOf, execute |-> execute]
  <2>2. c \in Commands /\ c.asOf \in AsOfs
    BY <2>1 DEF Commands, AsOfs
  <2>3. Begin(r, c)
    BY <1>5 DEF BeginRoute
  <2> HIDE DEF c
  <2> QED BY <1>3, <2>2, <2>3
<1>6. ASSUME NEW r \in Runs, ReadPositions(r)
      PROVE  RunsTypeOK' /\ AsOfInRange' /\ PlansAreApproved'
  <2> DEFINE held == [a \in Assets |-> positions[Account][a].quantity]
  <2>1. held \in [Assets -> Nat]
    BY <1>0, RebalanceAssumption DEF LedgerTypeOK, PaperPosition
  <2>2. seen' \in [Runs -> Snapshots]
    <3>1. seen' = [seen EXCEPT ![r] = [seen[r] EXCEPT !.quantity = held]]
      BY <1>6 DEF ReadPositions
    <3> HIDE DEF held
    <3>2. seen[r] \in Snapshots
      BY <1>0 DEF RunsTypeOK
    <3>3. [seen[r] EXCEPT !.quantity = held] \in Snapshots
      BY <2>1, <3>2 DEF Snapshots
    <3> QED BY <1>0, <3>1, <3>3 DEF RunsTypeOK
  <2>3. RunsTypeOK'
    BY <1>0, <1>6, <2>2 DEF ReadPositions, RunsTypeOK, Points
  <2>4. AsOfInRange' /\ PlansAreApproved'
    BY <1>0, <1>6 DEF ReadPositions, RunsTypeOK, AsOfInRange, PlansAreApproved, Approves
  <2> QED BY <2>3, <2>4
<1>7. ASSUME NEW r \in Runs, CannotValue(r) \/ Executed(r) \/ Crash(r)
      PROVE  RunsTypeOK' /\ AsOfInRange' /\ PlansAreApproved'
  <2>1. RunsTypeOK'
    BY <1>0, <1>7 DEF CannotValue, Executed, Crash, RunsTypeOK, Points
  <2>2. AsOfInRange' /\ PlansAreApproved'
    BY <1>0, <1>7 DEF CannotValue, Executed, Crash, RunsTypeOK, AsOfInRange,
                      PlansAreApproved, Approves
  <2> QED BY <2>1, <2>2
<1>8. ASSUME NEW r \in Runs, SaveDecision(r)
      PROVE  RunsTypeOK' /\ AsOfInRange' /\ PlansAreApproved'
  <2>1. Decision(r) \in Decisions
    BY <1>0 DEF Decision, Decisions, RunsTypeOK, Commands
  <2>2. decisions' \in SUBSET Decisions
    BY <1>0, <1>8, <2>1 DEF SaveDecision, RunsTypeOK
  <2>3. RunsTypeOK'
    BY <1>0, <1>8, <2>2 DEF SaveDecision, RunsTypeOK, Points
  <2>4. AsOfInRange' /\ PlansAreApproved'
    BY <1>0, <1>8 DEF SaveDecision, RunsTypeOK, AsOfInRange, PlansAreApproved, Approves
  <2> QED BY <2>3, <2>4
<1>9. ASSUME NEW r \in Runs, Decide(r)
      PROVE  RunsTypeOK' /\ AsOfInRange' /\ PlansAreApproved'
  <2>1. PICK data, price, pass, chosen, blocked :
          DecidesPlan(r, data, price, pass, chosen, blocked)
    BY <1>9, DecideStoresPlan
  <2> DEFINE total == EquityAt(seen[r], price)
             plan == Plan(seen[r], price, total, chosen, blocked)
  <2>2. seen[r] \in Snapshots
    BY <1>0 DEF RunsTypeOK
  <2>3. total \in Nat
    BY <2>1, <2>2, EquityBounds DEF DecidesPlan
  <2>4. \A o \in plan : o \in Orders /\ MinimumOrderNotional <= o.notional /\ o.notional <= total
    BY <2>1, <2>2, PlanBounds DEF DecidesPlan
  <2>5. /\ equity' = [equity EXCEPT ![r] = total] /\ planned' = [planned EXCEPT ![r] = plan]
        /\ UNCHANGED <<clock, command, seen, decisions, crashes>>
        /\ \E p \in SUBSET Assets : passing' = [passing EXCEPT ![r] = p]
        /\ \/ \E point \in {"saving", "failed"} : at' = [at EXCEPT ![r] = point] /\ UNCHANGED todo
           \/ at' = [at EXCEPT ![r] = "executing"] /\ todo' = [todo EXCEPT ![r] = planned'[r]]
    <3>1. /\ equity' = [equity EXCEPT ![r] = total] /\ planned' = [planned EXCEPT ![r] = plan]
      BY <2>1 DEF DecidesPlan
    <3> HIDE DEF total, plan
    <3>2. \E p \in SUBSET Assets : passing' = [passing EXCEPT ![r] = p]
      BY <1>9 DEF Decide, DecideOn
    <3>3. \/ \E point \in {"saving", "failed"} : at' = [at EXCEPT ![r] = point] /\ UNCHANGED todo
          \/ at' = [at EXCEPT ![r] = "executing"] /\ todo' = [todo EXCEPT ![r] = planned'[r]]
      BY <1>9 DEF Decide, DecideOn
    <3> QED BY <1>9, <3>1, <3>2, <3>3 DEF Decide
  <2> HIDE DEF total, plan
  <2>6. plan \in SUBSET Orders /\ planned'[r] = plan
    BY <1>0, <2>4, <2>5 DEF RunsTypeOK
  <2>7. RunsTypeOK'
    BY <1>0, <2>3, <2>5, <2>6 DEF RunsTypeOK, Points
  <2>8. AsOfInRange'
    BY <2>5 DEF AsOfInRange
  <2>9. PlansAreApproved'
    <3> SUFFICES ASSUME NEW q \in Runs, at'[q] = "executing", NEW o \in todo'[q]
                 PROVE  MinimumOrderNotional <= o.notional /\ o.notional <= equity'[q]
      BY DEF PlansAreApproved, Approves
    <3>1. CASE q = r
      BY <1>0, <2>4, <2>5, <2>6, <3>1 DEF RunsTypeOK
    <3>2. CASE q # r
      BY <1>0, <2>5, <3>2 DEF RunsTypeOK, PlansAreApproved, Approves
    <3> QED BY <3>1, <3>2
  <2> QED BY <2>7, <2>8, <2>9
<1>10. ASSUME NEW r \in Runs, ExecuteOrder(r)
       PROVE  RunsTypeOK' /\ AsOfInRange' /\ PlansAreApproved'
  <2>1. /\ UNCHANGED <<clock, command, seen, equity, planned, passing, decisions, crashes>>
        /\ UNCHANGED todo \/ \E o : todo' = [todo EXCEPT ![r] = @ \ {o}]
        /\ UNCHANGED at \/ at' = [at EXCEPT ![r] = "rejected"]
    BY <1>10 DEF ExecuteOrder, Abandon
  <2>2. RunsTypeOK'
    BY <1>0, <2>1 DEF RunsTypeOK, Points
  <2>3. AsOfInRange' /\ PlansAreApproved'
    BY <1>0, <2>1 DEF RunsTypeOK, AsOfInRange, PlansAreApproved, Approves
  <2> QED BY <2>2, <2>3
<1> QED BY <1>2, <1>4, <1>5, <1>6, <1>7, <1>8, <1>9, <1>10 DEF Next

\* What holds in every state of the runs and the ledger.
Sound == TypeOK /\ AsOfInRange /\ LedgerReconciles /\ NoneDeposited /\ PlansAreApproved

LEMMA AlwaysSound == Spec => []Sound
<1>1. Init => Sound
  <2> SUFFICES ASSUME Init PROVE Sound
    OBVIOUS
  <2>1. LedgerReconciles /\ NoneDeposited
    BY InitReconciles DEF Init
  <2>2. LedgerTypeOK
    BY DEF Init, LedgerInit, LedgerTypeOK, NoPortfolio, NoPosition, PortfolioRow, PaperPosition
  <2>3. [cash |-> 0, quantity |-> [a \in Assets |-> 0]] \in Snapshots
    BY DEF Snapshots
  <2>4. NoCommand \in Commands /\ NoCommand.asOf = 0
    BY DEF Commands, NoCommand
  <2>5. RunsTypeOK
    BY <2>3, <2>4 DEF Init, RunsTypeOK, Points
  <2>6. AsOfInRange
    <3>1. 0 \in 0 .. MaxClock
      BY RebalanceAssumption
    <3> QED BY <2>4, <3>1 DEF Init, AsOfInRange, AsOfs
  <2>7. PlansAreApproved
    BY DEF Init, PlansAreApproved
  <2> QED BY <2>1, <2>2, <2>5, <2>6, <2>7 DEF Sound, TypeOK
<1>2. Sound /\ [Next]_vars => Sound'
  BY LedgerStaysSound, RunsStaySound DEF Sound, TypeOK
<1> QED BY <1>1, <1>2, PTL DEF Spec

\* No interleaving of runs, route calls, retries and crashes leaves a malformed row,
\* a negative balance or a negative position.
THEOREM RebalanceTypeCorrect == Spec => []TypeOK
  BY AlwaysSound, PTL DEF Sound

\* However runs and route calls interleave, balance and positions are what the
\* execution rows replay to.
THEOREM RebalanceReconciles == Spec => []LedgerReconciles
  BY AlwaysSound, PTL DEF Sound

\* However runs and route calls interleave, the account's books balance at cost: what
\* a retry, a crash between two orders or a stale plan does to cash, positions and
\* realized P&L, it does to all three.
THEOREM RebalanceKeepsCostBasis == Spec => []CostBasisReconciles
<1>1. Init => CostBasisReconciles /\ HeldWasBought
  BY InitKeepsCost DEF Init
<1>2. Sound /\ CostBasisReconciles /\ HeldWasBought /\ [Next]_vars =>
      CostBasisReconciles' /\ HeldWasBought'
  <2> SUFFICES ASSUME Sound, CostBasisReconciles, HeldWasBought, [Next]_vars
               PROVE  CostBasisReconciles' /\ HeldWasBought'
    OBVIOUS
  <2>0. TypeOK /\ AsOfInRange /\ LedgerTypeOK /\ NoneDeposited /\ clock \in Nat
    BY DEF Sound, TypeOK, RunsTypeOK
  <2>1. CASE UNCHANGED ledgerVars
    BY <2>1, CostBasisAsTotals DEF ledgerVars, HeldWasBought
  <2>2. CASE Create(Account, Identity, InitialCash)
    <3>1. Account \in Portfolios /\ Identity \in Identities /\ InitialCash \in Nat
      BY RebalanceAssumption
    <3> QED BY <2>0, <2>2, <3>1, CreateKeepsCost
  <2>3. ASSUME NEW i \in Intents, NEW t \in Reports,
               t.fee <= Notional(t), ApplyExecution(i, t, clock)
        PROVE  CostBasisReconciles' /\ HeldWasBought'
    BY <2>0, <2>3, ApplyKeepsTypes, ApplyKeepsCost
  <2> QED BY <2>0, <2>1, <2>2, <2>3, TypedStepOfLedger
<1> QED BY <1>1, <1>2, AlwaysSound, PTL DEF Spec

\* The risk engine never refuses an order of a plan, for any prices, policy and
\* snapshot: a target is at most the equity, and so is every holding.
THEOREM RebalancePlansAreApproved == Spec => []PlansAreApproved
  BY AlwaysSound, PTL DEF Sound
----------------------------------------------------------------------------
(* The scheduled lane alone: audit, cooldown and confirmations *)

\* Runs of the job follow one another, each with an as_of of its own, the active one
\* with the latest.
JobsFollow ==
  /\ \A r \in Runs : command[r].origin = "job" /\ (at[r] # "idle" => command[r].asOf <= clock)
  /\ \A q, r \in Runs : at[q] # "idle" /\ at[r] # "idle" /\ q # r =>
       /\ command[q].asOf # command[r].asOf
       /\ at[r] \in Active => command[q].asOf < command[r].asOf

\* Every execution is of the account and of a run that began.
ExecutionsOfRuns ==
  \A n \in DOMAIN executions :
    /\ executions[n].portfolio = Account
    /\ executions[n].at <= clock
    /\ \E q \in Runs : at[q] # "idle" /\ AsOf(executions[n]) = command[q].asOf

\* Every decision is of a run that is done.
DecisionsOfRuns ==
  /\ IsFiniteSet(decisions)
  /\ \A d \in decisions : \E q \in Runs : at[q] = "done" /\ command[q].asOf = d.asOf

\* A run that has not decided has executed nothing, and nothing is executed after
\* its as_of; what it has read of the positions is still so.
NothingYet ==
  \A r \in Runs :
    /\ at[r] \in {"reading", "read"} =>
         \A n \in DOMAIN executions :
           AsOf(executions[n]) # command[r].asOf /\ executions[n].at <= command[r].asOf
    /\ at[r] = "read" =>
         \A a \in Assets : seen[r].quantity[a] = positions[Account][a].quantity

\* An order was filled with its own quantity.
Told(asOf, o) ==
  \E n \in DOMAIN executions :
    /\ executions[n].intent = <<asOf, o.asset, o.side>>
    /\ executions[n].quantity = o.quantity

\* A running plan has one order for an asset; those submitted are filled as planned,
\* those to do are not filled yet and find the position as the run has seen it.
PlanIsTold ==
  \A r \in Runs :
    /\ at[r] = "executing" =>
         /\ todo[r] \subseteq planned[r]
         /\ \A o, q \in planned[r] : o.asset = q.asset => o = q
         /\ \A o \in planned[r] \ todo[r] : Told(command[r].asOf, o)
         /\ \A o \in todo[r] :
              /\ \A n \in DOMAIN executions :
                   executions[n].intent # <<command[r].asOf, o.asset, o.side>>
              /\ positions[Account][o.asset].quantity = seen[r].quantity[o.asset]
    /\ at[r] = "saving" /\ command[r].execute =>
         \A o \in planned[r] : Told(command[r].asOf, o)

\* Decisions before asOf that an asset had passed.
PassedBefore(a, asOf) == {d \in decisions : d.asOf < asOf /\ a \in d.passing}

\* A BUY to do of an asset that the run does not hold is past its cooldown and has
\* its confirmations.
EntriesAreAllowed ==
  \A r \in Runs : at[r] = "executing" =>
    \A o \in todo[r] : o.side = "BUY" /\ seen[r].quantity[o.asset] = 0 =>
      /\ \A m \in DOMAIN executions :
           executions[m].side = "SELL" /\ executions[m].asset = o.asset =>
             executions[m].at + Cooldown <= command[r].asOf
      /\ Cardinality(PassedBefore(o.asset, command[r].asOf)) >= RequiredConfirmations - 1

\* What holds in every state that scheduled runs alone reach.
Scheduled ==
  /\ JobsFollow /\ ExecutionsOfRuns /\ DecisionsOfRuns /\ NothingYet /\ PlanIsTold
  /\ EntriesAreAllowed /\ AuditTellsFills /\ CooldownHolds /\ EntryIsConfirmed

\* The rows after one more.
LEMMA RowsAfterAppend ==
  ASSUME NEW S, NEW rows \in Seq(S), NEW x \in S
  PROVE  /\ Len(rows) \in Nat
         /\ DOMAIN rows = 1 .. Len(rows) /\ DOMAIN Append(rows, x) = 1 .. Len(rows) + 1
         /\ \A n \in 1 .. Len(rows) : Append(rows, x)[n] = rows[n]
         /\ Append(rows, x)[Len(rows) + 1] = x
         /\ \A n \in 1 .. Len(rows) + 1 : n \in 1 .. Len(rows) \/ n = Len(rows) + 1
  OBVIOUS

\* Opens, of any table of executions.
FlowsOf(rows, a) == [m \in DOMAIN rows |-> QuantityFlow(rows[m], a)]

OpensIn(rows, n) ==
  rows[n].side = "BUY" /\ Running(FlowsOf(rows, rows[n].asset))[n - 1] = 0

LEMMA OpensAsRows ==
  /\ \A n : Opens(n) <=> OpensIn(executions, n)
  /\ \A n : Opens(n)' <=> OpensIn(executions', n)
<1>1. \A n : Opens(n) <=> OpensIn(executions, n)
  BY DEF Opens, OpensIn, QuantityAfter, FlowsOf
<1>2. \A n : Opens(n)' <=> OpensIn(executions', n)
  BY DEF Opens, OpensIn, QuantityAfter, FlowsOf
<1> QED BY <1>1, <1>2

\* The flows of one more row.
LEMMA QuantitiesAppend ==
  ASSUME NEW rows \in Seq(PaperExecution), NEW x \in PaperExecution, NEW a
  PROVE  /\ FlowsOf(rows, a) \in Seq(Int) /\ Len(FlowsOf(rows, a)) = Len(rows)
         /\ QuantityFlow(x, a) \in Int
         /\ FlowsOf(Append(rows, x), a) = Append(FlowsOf(rows, a), QuantityFlow(x, a))
<1> DEFINE n == Len(rows)
           more == Append(rows, x)
           v == FlowsOf(rows, a)
           w == FlowsOf(more, a)
           u == Append(v, QuantityFlow(x, a))
<1>1. /\ n \in Nat /\ DOMAIN rows = 1 .. n /\ DOMAIN more = 1 .. n + 1
      /\ \A k \in 1 .. n : more[k] = rows[k] /\ rows[k] \in PaperExecution
      /\ more[n + 1] = x
  OBVIOUS
<1> HIDE DEF n, more
<1>2. QuantityFlow(x, a) \in Int /\ \A k \in 1 .. n : QuantityFlow(rows[k], a) \in Int
  BY <1>1, FlowType
<1>3. /\ v \in [1 .. n -> Int] /\ \A k \in 1 .. n : v[k] = QuantityFlow(rows[k], a)
      /\ w = [k \in 1 .. n + 1 |-> QuantityFlow(more[k], a)]
  BY <1>1, <1>2 DEF FlowsOf
<1>4. v \in Seq(Int) /\ Len(v) = n
  BY <1>1, <1>3
<1> HIDE DEF v, w
<1>5. /\ u \in Seq(Int) /\ Len(u) = n + 1 /\ \A k \in 1 .. n : u[k] = v[k]
      /\ u[n + 1] = QuantityFlow(x, a)
  BY <1>2, <1>4
<1> HIDE DEF u
<1>6. u = [k \in 1 .. n + 1 |-> u[k]]
  BY <1>5
<1>7. ASSUME NEW k \in 1 .. n + 1
      PROVE  u[k] = QuantityFlow(more[k], a)
  <2>1. k \in 1 .. n \/ k = n + 1
    BY <1>1
  <2> QED BY <1>1, <1>3, <1>5, <2>1
<1>8. u = w
  BY <1>3, <1>6, <1>7
<1> QED BY <1>2, <1>4, <1>8 DEF u, v, w, n, more

\* An earlier execution opens after a fill what it opened before, and the fill opens
\* a position only where none was held.
LEMMA OpensAfterFill ==
  ASSUME NEW rows \in Seq(PaperExecution), NEW x \in PaperExecution,
         \A n \in DOMAIN rows : rows[n].portfolio = Account
  PROVE  /\ \A n \in 1 .. Len(rows) : OpensIn(Append(rows, x), n) => OpensIn(rows, n)
         /\ OpensIn(Append(rows, x), Len(rows) + 1) =>
              x.side = "BUY" /\ QuantityTotal(rows, Account, x.asset) = 0
<1> DEFINE N == Len(rows)
           more == Append(rows, x)
<1>1. /\ N \in Nat /\ DOMAIN rows = 1 .. N
      /\ \A n \in 1 .. N : more[n] = rows[n]
      /\ more[N + 1] = x
  OBVIOUS
<1>2. \A a : \A k \in 0 .. N : Running(FlowsOf(more, a))[k] = Running(FlowsOf(rows, a))[k]
  <2> SUFFICES ASSUME NEW a, NEW k \in 0 .. N
               PROVE  Running(FlowsOf(more, a))[k] = Running(FlowsOf(rows, a))[k]
    OBVIOUS
  <2> DEFINE v == FlowsOf(rows, a)
  <2>1. /\ v \in Seq(Int) /\ Len(v) = N /\ QuantityFlow(x, a) \in Int
        /\ FlowsOf(more, a) = Append(v, QuantityFlow(x, a))
    BY QuantitiesAppend
  <2> HIDE DEF v, N, more
  <2>2. \A j \in 0 .. Len(v) : Running(Append(v, QuantityFlow(x, a)))[j] = Running(v)[j]
    BY <2>1, RunningAppend
  <2> QED BY <2>1, <2>2 DEF v
<1> HIDE DEF N, more
<1>3. ASSUME NEW n \in 1 .. N, OpensIn(more, n)
      PROVE  OpensIn(rows, n)
  <2>1. n - 1 \in 0 .. N
    BY <1>1
  <2> QED BY <1>1, <1>2, <1>3, <2>1 DEF OpensIn
<1>4. ASSUME OpensIn(more, N + 1)
      PROVE  x.side = "BUY" /\ QuantityTotal(rows, Account, x.asset) = 0
  <2>1. N \in 0 .. N /\ (N + 1) - 1 = N
    BY <1>1
  <2>2. x.side = "BUY" /\ Running(FlowsOf(rows, x.asset))[N] = 0
    BY <1>1, <1>2, <1>4, <2>1 DEF OpensIn
  <2>3. [k \in DOMAIN rows |-> IF rows[k].portfolio = Account THEN QuantityFlow(rows[k], x.asset)
                               ELSE 0] = FlowsOf(rows, x.asset)
    BY DEF FlowsOf
  <2>4. QuantityTotal(rows, Account, x.asset) = SumOf(FlowsOf(rows, x.asset))
    BY <2>3 DEF QuantityTotal
  <2>5. Len(FlowsOf(rows, x.asset)) = N
    BY QuantitiesAppend DEF N
  <2> QED BY <2>2, <2>4, <2>5 DEF SumOf
<1> QED BY <1>3, <1>4 DEF N, more

\* The types that the proofs about scheduled runs use.
LEMMA ScheduledTypes ==
  ASSUME Sound
  PROVE  /\ at \in [Runs -> Points] /\ command \in [Runs -> Commands]
         /\ seen \in [Runs -> Snapshots] /\ clock \in Nat
         /\ todo \in [Runs -> SUBSET Orders] /\ planned \in [Runs -> SUBSET Orders]
         /\ \A r \in Runs : command[r].asOf \in Nat
         /\ executions \in Seq(PaperExecution)
         /\ \A n \in DOMAIN executions : executions[n].at \in Nat
         /\ \A d \in decisions : d.asOf \in Nat
<1>1. executions \in Seq(PaperExecution)
  BY DEF Sound, TypeOK, LedgerTypeOK
<1>2. \A n \in DOMAIN executions : executions[n] \in PaperExecution
  BY <1>1
<1>3. \A n \in DOMAIN executions : executions[n].at \in Nat
  BY <1>2 DEF PaperExecution
<1>4. \A d \in decisions : d.asOf \in Nat
  BY DEF Sound, TypeOK, RunsTypeOK, Decisions
<1>5. \A r \in Runs : command[r].asOf \in Nat
  BY DEF Sound, TypeOK, RunsTypeOK, Commands
<1> QED BY <1>1, <1>3, <1>4, <1>5 DEF Sound, TypeOK, RunsTypeOK

\* Only one run is active.
LEMMA OneActive ==
  ASSUME Sound, JobsFollow, NEW q \in Runs, NEW r \in Runs, at[q] \in Active, at[r] \in Active
  PROVE  q = r
<1>1. command[q].asOf \in Nat /\ command[r].asOf \in Nat
  BY ScheduledTypes
<1>2. at[q] # "idle" /\ at[r] # "idle"
  BY DEF Active
<1> QED BY <1>1, <1>2 DEF JobsFollow

\* Neither executions nor decisions: the history says what it said.
LEMMA HistoryUnchanged ==
  ASSUME AuditTellsFills, CooldownHolds, EntryIsConfirmed, UNCHANGED <<executions, decisions>>
  PROVE  AuditTellsFills' /\ CooldownHolds' /\ EntryIsConfirmed'
<1>1. AuditTellsFills'
  BY DEF AuditTellsFills
<1>2. \A n : Opens(n)' <=> Opens(n)
  BY OpensAsRows
<1>3. CooldownHolds'
  BY <1>2 DEF CooldownHolds
<1>4. EntryIsConfirmed'
  BY <1>2 DEF EntryIsConfirmed, AsOf
<1> QED BY <1>1, <1>3, <1>4

\* The clock, the creation of the portfolio and stuttering.
LEMMA QuietKeepsScheduled ==
  ASSUME Sound, Scheduled, UNCHANGED <<runVars, positions, executions, decisions>>,
         clock' \in Nat, clock <= clock'
  PROVE  Scheduled'
<1> USE ScheduledTypes DEF Scheduled, runVars
<1>1. JobsFollow'
  BY DEF JobsFollow
<1>2. ExecutionsOfRuns'
  BY DEF ExecutionsOfRuns, AsOf
<1>3. DecisionsOfRuns'
  BY DEF DecisionsOfRuns
<1>4. NothingYet'
  BY DEF NothingYet, AsOf
<1>5. PlanIsTold'
  <2>1. \A asOf, o : Told(asOf, o)' <=> Told(asOf, o)
    BY DEF Told
  <2>2. UNCHANGED <<at, command, seen, todo, planned, positions, executions>>
    OBVIOUS
  <2> QED BY <2>1, <2>2 DEF PlanIsTold
<1>6. EntriesAreAllowed'
  BY DEF EntriesAreAllowed, PassedBefore
<1> QED BY <1>1, <1>2, <1>3, <1>4, <1>5, <1>6, HistoryUnchanged

\* A run leaves without saving, or has submitted its last order.
LEMMA MoveKeepsScheduled ==
  ASSUME Sound, Scheduled, NEW r \in Runs, at[r] \in Active,
         NEW point \in {"failed", "crashed", "rejected", "saving"},
         point = "saving" => at[r] = "executing" /\ todo[r] = {},
         at' = [at EXCEPT ![r] = point],
         UNCHANGED <<clock, command, seen, todo, planned, positions, executions, decisions>>
  PROVE  Scheduled'
<1> USE ScheduledTypes DEF Scheduled
<1>1. JobsFollow'
  BY DEF JobsFollow, Active
<1>2. ExecutionsOfRuns'
  BY DEF ExecutionsOfRuns, AsOf, Active
<1>3. DecisionsOfRuns'
  BY DEF DecisionsOfRuns, Active
<1>4. NothingYet'
  BY DEF NothingYet, AsOf
<1>5. PlanIsTold'
  <2>1. \A asOf, o : Told(asOf, o)' <=> Told(asOf, o)
    BY DEF Told
  <2> QED BY <2>1 DEF PlanIsTold
<1>6. EntriesAreAllowed'
  BY DEF EntriesAreAllowed, PassedBefore
<1> QED BY <1>1, <1>2, <1>3, <1>4, <1>5, <1>6, HistoryUnchanged

\* A scheduled run begins, with the clock as its as_of.
LEMMA BeginKeepsScheduled ==
  ASSUME Sound, Scheduled, NEW r \in Runs, BeginJob(r)
  PROVE  Scheduled'
<1> DEFINE c == [origin |-> "job", asOf |-> clock, execute |-> JobExecutes]
<1>1. /\ at[r] = "idle" /\ at' = [at EXCEPT ![r] = "reading"]
      /\ command' = [command EXCEPT ![r] = c]
      /\ UNCHANGED <<clock, todo, planned, positions, executions, decisions>>
      /\ \A q \in Runs \ {r} : seen'[q] = seen[q]
  BY ScheduledTypes DEF BeginJob, Begin, Goto, ledgerVars
<1>2. c.origin = "job" /\ c.asOf = clock
  OBVIOUS
<1> HIDE DEF c
<1>3. \A q \in Runs : at[q] # "idle" => at[q] \notin Active /\ command[q].asOf < clock
  BY DEF BeginJob, Scheduled, JobsFollow
<1>4. /\ at'[r] = "reading" /\ command'[r] = c
      /\ \A q \in Runs \ {r} : at'[q] = at[q] /\ command'[q] = command[q]
  BY <1>1, ScheduledTypes
<1>5. \A q \in Runs \ {r} : at'[q] \notin Active
  BY <1>3, <1>4 DEF Active
<1> USE ScheduledTypes DEF Scheduled
<1>6. JobsFollow'
  <2>1. ASSUME NEW q \in Runs
        PROVE  command'[q].origin = "job" /\ (at'[q] # "idle" => command'[q].asOf <= clock')
    <3>1. CASE q = r
      BY <1>1, <1>2, <1>4, <3>1
    <3>2. CASE q # r
      BY <1>1, <1>4, <3>2 DEF JobsFollow
    <3> QED BY <3>1, <3>2
  <2>2. ASSUME NEW p \in Runs, NEW q \in Runs, at'[p] # "idle", at'[q] # "idle", p # q
        PROVE  /\ command'[p].asOf # command'[q].asOf
               /\ at'[q] \in Active => command'[p].asOf < command'[q].asOf
    <3>1. CASE p = r
      BY <1>2, <1>3, <1>4, <1>5, <2>2, <3>1
    <3>2. CASE q = r
      BY <1>2, <1>3, <1>4, <2>2, <3>2
    <3>3. CASE p # r /\ q # r
      BY <1>4, <1>5, <2>2, <3>3 DEF JobsFollow
    <3> QED BY <3>1, <3>2, <3>3
  <2> QED BY <2>1, <2>2 DEF JobsFollow
<1>7. ExecutionsOfRuns'
  <2> SUFFICES ASSUME NEW n \in DOMAIN executions
               PROVE  /\ executions[n].portfolio = Account /\ executions[n].at <= clock
                      /\ \E q \in Runs : at'[q] # "idle" /\ AsOf(executions[n]) = command'[q].asOf
    BY <1>1 DEF ExecutionsOfRuns, AsOf
  <2>1. PICK q \in Runs : at[q] # "idle" /\ AsOf(executions[n]) = command[q].asOf
    BY DEF ExecutionsOfRuns
  <2>2. q # r
    BY <1>1, <2>1
  <2> QED BY <1>4, <2>1, <2>2 DEF ExecutionsOfRuns
<1>8. DecisionsOfRuns'
  <2>1. ASSUME NEW d \in decisions
        PROVE  \E q \in Runs : at'[q] = "done" /\ command'[q].asOf = d.asOf
    <3>1. PICK q \in Runs : at[q] = "done" /\ command[q].asOf = d.asOf
      BY DEF DecisionsOfRuns
    <3>2. q # r
      BY <1>1, <3>1
    <3> QED BY <1>4, <3>1, <3>2
  <2> QED BY <1>1, <2>1 DEF DecisionsOfRuns
<1>9. NothingYet'
  <2>1. ASSUME NEW n \in DOMAIN executions
        PROVE  AsOf(executions[n]) # clock /\ executions[n].at <= clock
    <3>1. PICK q \in Runs : at[q] # "idle" /\ AsOf(executions[n]) = command[q].asOf
      BY DEF ExecutionsOfRuns
    <3>2. command[q].asOf \in Nat /\ command[q].asOf < clock
      BY <1>3, <3>1
    <3> QED BY <3>1, <3>2 DEF ExecutionsOfRuns
  <2>2. \A q \in Runs \ {r} : at'[q] \notin {"reading", "read"}
    BY <1>5 DEF Active
  <2> QED BY <1>1, <1>2, <1>4, <2>1, <2>2 DEF NothingYet, AsOf
<1>10. PlanIsTold' /\ EntriesAreAllowed'
  <2>1. \A q \in Runs : at'[q] # "executing" /\ at'[q] # "saving"
    BY <1>4, <1>5 DEF Active
  <2> QED BY <2>1 DEF PlanIsTold, EntriesAreAllowed
<1> QED BY <1>1, <1>6, <1>7, <1>8, <1>9, <1>10, HistoryUnchanged

\* The run reads the positions.
LEMMA ReadKeepsScheduled ==
  ASSUME Sound, Scheduled, NEW r \in Runs, ReadPositions(r)
  PROVE  Scheduled'
<1> DEFINE held == [a \in Assets |-> positions[Account][a].quantity]
<1>1. /\ at[r] = "reading" /\ at' = [at EXCEPT ![r] = "read"]
      /\ seen' = [seen EXCEPT ![r] = [seen[r] EXCEPT !.quantity = held]]
      /\ UNCHANGED <<clock, command, todo, planned, positions, executions, decisions>>
  BY DEF ReadPositions, Goto, ledgerVars
<1>2. \A a \in Assets : held[a] = positions[Account][a].quantity
  OBVIOUS
<1> HIDE DEF held
<1> USE ScheduledTypes DEF Scheduled
<1>3. /\ at'[r] = "read" /\ \A q \in Runs \ {r} : at'[q] = at[q] /\ seen'[q] = seen[q]
  BY <1>1
<1>4. seen'[r].quantity = held
  <2>1. seen[r] \in Snapshots
    OBVIOUS
  <2>2. seen'[r] = [seen[r] EXCEPT !.quantity = held]
    BY <1>1
  <2> QED BY <2>1, <2>2 DEF Snapshots
<1>5. JobsFollow'
  BY <1>1, <1>3 DEF JobsFollow, Active
<1>6. ExecutionsOfRuns'
  BY <1>1 DEF ExecutionsOfRuns, AsOf
<1>7. DecisionsOfRuns'
  BY <1>1 DEF DecisionsOfRuns
<1>8. NothingYet'
  <2> SUFFICES ASSUME NEW q \in Runs
               PROVE  /\ at'[q] \in {"reading", "read"} =>
                           \A n \in DOMAIN executions :
                             /\ AsOf(executions[n]) # command[q].asOf
                             /\ executions[n].at <= command[q].asOf
                      /\ at'[q] = "read" =>
                           \A a \in Assets : seen'[q].quantity[a] = positions[Account][a].quantity
    BY <1>1 DEF NothingYet, AsOf
  <2>1. CASE q = r
    BY <1>1, <1>2, <1>4, <2>1 DEF NothingYet
  <2>2. CASE q # r
    BY <1>3, <2>2 DEF NothingYet
  <2> QED BY <2>1, <2>2
<1>9. \A q \in Runs : at'[q] # "executing" /\ at'[q] # "saving"
  <2>1. \A q \in Runs \ {r} : at[q] \notin Active
    BY <1>1, OneActive DEF Active
  <2> QED BY <1>3, <2>1 DEF Active
<1>10. PlanIsTold' /\ EntriesAreAllowed'
  BY <1>9 DEF PlanIsTold, EntriesAreAllowed
<1> QED BY <1>1, <1>5, <1>6, <1>7, <1>8, <1>10, HistoryUnchanged

\* What the selection rules say of an entrant: it is past its cooldown, and enough
\* of the latest decisions had passed it.
LEMMA EntrantIsAllowed ==
  ASSUME Sound, Scheduled, NEW r \in Runs, at[r] = "read", NEW data, NEW pass,
         NEW chosen \in Selections(seen[r], command[r].asOf, data, pass),
         NEW a \in chosen, seen[r].quantity[a] = 0
  PROVE  /\ \A m \in DOMAIN executions :
              executions[m].side = "SELL" /\ executions[m].asset = a =>
                executions[m].at + Cooldown <= command[r].asOf
         /\ Cardinality(PassedBefore(a, command[r].asOf)) >= RequiredConfirmations - 1
<1> USE ScheduledTypes DEF Scheduled
<1>1. a \notin Held(seen[r])
  BY DEF Held
<1>2. a \notin RecentExits(command[r].asOf) /\ Confirmed(a)
  BY <1>1 DEF Selections
<1>3. Cooldown \in Nat /\ RequiredConfirmations \in Nat \ {0}
  BY RebalanceAssumption
<1>4. ASSUME NEW m \in DOMAIN executions, executions[m].side = "SELL", executions[m].asset = a
      PROVE  executions[m].at + Cooldown <= command[r].asOf
  <2>1. executions[m].at <= command[r].asOf
    BY DEF NothingYet
  <2>2. ~(command[r].asOf - Cooldown < executions[m].at)
    BY <1>2, <1>4, <2>1 DEF RecentExits
  <2>3. executions[m].at \in Nat /\ command[r].asOf \in Nat
    OBVIOUS
  <2> QED BY <1>3, <2>2, <2>3
<1>5. ASSUME NEW d \in decisions
      PROVE  d.asOf < command[r].asOf
  <2>1. PICK q \in Runs : at[q] = "done" /\ command[q].asOf = d.asOf
    BY DEF DecisionsOfRuns
  <2> QED BY <2>1 DEF JobsFollow, Active
<1> DEFINE prior == LatestDecisions(RequiredConfirmations - 1)
<1>6. /\ prior \subseteq decisions /\ Cardinality(prior) = RequiredConfirmations - 1
      /\ \A d \in prior : a \in d.passing
  BY <1>2 DEF Confirmed, LatestDecisions
<1> HIDE DEF prior
<1>7. prior \subseteq PassedBefore(a, command[r].asOf)
  BY <1>5, <1>6 DEF PassedBefore
<1>8. IsFiniteSet(PassedBefore(a, command[r].asOf))
  BY FS_Subset DEF DecisionsOfRuns, PassedBefore
<1>9. Cardinality(prior) <= Cardinality(PassedBefore(a, command[r].asOf))
  BY <1>7, <1>8, FS_Subset
<1>10. Cardinality(PassedBefore(a, command[r].asOf)) \in Nat
  BY <1>8, FS_CardinalityType
<1>11. Cardinality(PassedBefore(a, command[r].asOf)) >= RequiredConfirmations - 1
  BY <1>3, <1>6, <1>9, <1>10
<1> QED BY <1>4, <1>11

\* The decision and its plan.
LEMMA DecideKeepsScheduled ==
  ASSUME Sound, Scheduled, NEW r \in Runs, Decide(r)
  PROVE  Scheduled'
<1>1. /\ at[r] = "read"
      /\ UNCHANGED <<clock, command, seen, positions, executions, decisions>>
  BY DEF Decide, ledgerVars
<1>2. PICK data, price, pass, chosen, blocked :
        DecidesPlan(r, data, price, pass, chosen, blocked)
  BY DecideStoresPlan
<1> DEFINE plan == Plan(seen[r], price, EquityAt(seen[r], price), chosen, blocked)
<1>3. planned' = [planned EXCEPT ![r] = plan]
  BY <1>2 DEF DecidesPlan
<1>4. ASSUME NEW o \in plan
      PROVE  /\ o.asset \in Assets
             /\ o.side = "BUY" => o.asset \in chosen
             /\ \A q \in plan : q.asset = o.asset => q = o
  <2>1. /\ seen[r] \in Snapshots /\ data \in SUBSET Assets /\ price \in [data -> Levels]
        /\ Held(seen[r]) \subseteq data /\ chosen \in SUBSET data
    BY <1>2, ScheduledTypes DEF DecidesPlan
  <2>2. /\ o \in Orders /\ (o.side = "BUY" => o.asset \in chosen)
        /\ \A q \in plan : q.asset = o.asset => q = o
    BY <2>1, PlanBounds
  <2> HIDE DEF plan
  <2> QED BY <2>2 DEF Orders
<1> HIDE DEF plan
<1> USE ScheduledTypes DEF Scheduled
<1>5. \/ ~command[r].execute /\ at' = [at EXCEPT ![r] = "saving"] /\ UNCHANGED todo
      \/ at' = [at EXCEPT ![r] = "failed"] /\ UNCHANGED todo
      \/ at' = [at EXCEPT ![r] = "executing"] /\ todo' = [todo EXCEPT ![r] = planned'[r]]
  BY DEF Decide, DecideOn, Goto
<1>6. /\ planned'[r] = plan
      /\ \A q \in Runs \ {r} : at'[q] = at[q] /\ at[q] \notin Active
      /\ \/ at'[r] = "saving" /\ ~command[r].execute
         \/ at'[r] = "failed"
         \/ at'[r] = "executing" /\ todo'[r] = plan
  <2>1. \A q \in Runs \ {r} : at[q] \notin Active
    BY <1>1, OneActive DEF Active
  <2> QED BY <1>3, <1>5, <2>1
<1>7. JobsFollow'
  BY <1>1, <1>6 DEF JobsFollow, Active
<1>8. ExecutionsOfRuns'
  BY <1>1, <1>6 DEF ExecutionsOfRuns, AsOf
<1>9. DecisionsOfRuns'
  BY <1>1, <1>6 DEF DecisionsOfRuns
<1>10. NothingYet'
  <2>1. \A q \in Runs : at'[q] \notin {"reading", "read"}
    BY <1>6 DEF Active
  <2> QED BY <2>1 DEF NothingYet
<1>11. PlanIsTold'
  <2>1. \A q \in Runs \ {r} : at'[q] # "executing" /\ at'[q] # "saving"
    BY <1>6 DEF Active
  <2>2. CASE at'[r] = "executing"
    <3>1. todo'[r] = plan /\ planned'[r] = plan
      BY <1>6, <2>2
    <3>2. ASSUME NEW o \in plan
          PROVE  /\ \A n \in DOMAIN executions :
                      executions[n].intent # <<command[r].asOf, o.asset, o.side>>
                 /\ positions[Account][o.asset].quantity = seen[r].quantity[o.asset]
      BY <1>1, <1>4 DEF NothingYet, AsOf
    <3> QED BY <1>1, <1>4, <2>1, <2>2, <3>1, <3>2 DEF PlanIsTold
  <2>3. CASE at'[r] # "executing"
    BY <1>1, <1>6, <2>1, <2>3 DEF PlanIsTold
  <2> QED BY <2>2, <2>3
<1>12. EntriesAreAllowed'
  <2> SUFFICES ASSUME NEW q \in Runs, at'[q] = "executing", NEW o \in todo'[q],
                      o.side = "BUY", seen[q].quantity[o.asset] = 0
               PROVE  /\ \A m \in DOMAIN executions :
                           executions[m].side = "SELL" /\ executions[m].asset = o.asset =>
                             executions[m].at + Cooldown <= command[q].asOf
                      /\ Cardinality(PassedBefore(o.asset, command[q].asOf))
                           >= RequiredConfirmations - 1
    BY <1>1 DEF EntriesAreAllowed, PassedBefore
  <2>1. q = r /\ o \in plan
    BY <1>6 DEF Active
  <2>2. o.asset \in chosen /\ chosen \in Selections(seen[r], command[r].asOf, data, pass)
    BY <1>2, <1>4, <2>1 DEF DecidesPlan
  <2> QED BY <1>1, <2>1, <2>2, EntrantIsAllowed
<1> QED BY <1>1, <1>7, <1>8, <1>9, <1>10, <1>11, <1>12, HistoryUnchanged

\* A decision is saved.
LEMMA SaveKeepsScheduled ==
  ASSUME Sound, Scheduled, NEW r \in Runs, SaveDecision(r)
  PROVE  Scheduled'
<1> USE ScheduledTypes DEF Scheduled
<1>1. /\ at[r] = "saving" /\ at' = [at EXCEPT ![r] = "done"]
      /\ UNCHANGED <<clock, command, seen, todo, planned, positions, executions>>
      /\ decisions' \in {decisions, decisions \cup {Decision(r)}}
  BY DEF SaveDecision, Goto, ledgerVars
<1>2. /\ at'[r] = "done" /\ \A q \in Runs \ {r} : at'[q] = at[q] /\ at[q] \notin Active
  BY <1>1, OneActive DEF Active
<1>3. JobsFollow'
  BY <1>1, <1>2 DEF JobsFollow, Active
<1>4. ExecutionsOfRuns'
  BY <1>1, <1>2 DEF ExecutionsOfRuns, AsOf
<1>5. Decision(r).asOf = command[r].asOf /\ Decision(r).orders = planned[r]
      /\ (Decision(r).status = "EXECUTED" => command[r].execute)
  BY DEF Decision
<1>6. DecisionsOfRuns'
  <2>1. IsFiniteSet(decisions')
    BY <1>1, FS_AddElement DEF DecisionsOfRuns
  <2>2. ASSUME NEW d \in decisions'
        PROVE  \E q \in Runs : at'[q] = "done" /\ command[q].asOf = d.asOf
    BY <1>1, <1>2, <1>5, <2>2 DEF DecisionsOfRuns
  <2> QED BY <1>1, <2>1, <2>2 DEF DecisionsOfRuns
<1>7. \A q \in Runs : at'[q] \notin Active
  BY <1>2 DEF Active
<1>8. NothingYet' /\ PlanIsTold' /\ EntriesAreAllowed'
  BY <1>7 DEF NothingYet, PlanIsTold, EntriesAreAllowed, Active
<1>9. AuditTellsFills'
  <2>1. ASSUME NEW d \in decisions', d.status = "EXECUTED", NEW o \in d.orders
        PROVE  Told(d.asOf, o)
    <3>1. CASE d \in decisions
      BY <2>1, <3>1 DEF AuditTellsFills, Told
    <3>2. CASE d = Decision(r)
      BY <1>1, <1>5, <2>1, <3>2 DEF PlanIsTold
    <3> QED BY <1>1, <3>1, <3>2
  <2> QED BY <1>1, <2>1 DEF AuditTellsFills, Told
<1>10. \A n : Opens(n)' <=> Opens(n)
  BY <1>1, OpensAsRows
<1>11. CooldownHolds'
  BY <1>1, <1>10 DEF CooldownHolds
<1>12. EntryIsConfirmed'
  <2> SUFFICES ASSUME NEW n \in DOMAIN executions, Opens(n)
               PROVE  Cardinality({d \in decisions' : /\ d.asOf < AsOf(executions[n])
                                                      /\ executions[n].asset \in d.passing})
                        >= RequiredConfirmations - 1
    BY <1>1, <1>10 DEF EntryIsConfirmed, AsOf
  <2> DEFINE before == {d \in decisions : /\ d.asOf < AsOf(executions[n])
                                          /\ executions[n].asset \in d.passing}
             after == {d \in decisions' : /\ d.asOf < AsOf(executions[n])
                                          /\ executions[n].asset \in d.passing}
  <2>1. before \subseteq after /\ after \subseteq decisions' /\ before \subseteq decisions
    BY <1>1
  <2>2. Cardinality(before) >= RequiredConfirmations - 1
    BY DEF EntryIsConfirmed
  <2>3. IsFiniteSet(decisions') /\ IsFiniteSet(decisions)
    BY <1>6 DEF DecisionsOfRuns
  <2> HIDE DEF before, after
  <2>4. IsFiniteSet(after) /\ IsFiniteSet(before)
    BY <2>1, <2>3, FS_Subset
  <2>5. /\ Cardinality(before) <= Cardinality(after)
        /\ Cardinality(before) \in Nat /\ Cardinality(after) \in Nat
    BY <2>1, <2>4, FS_Subset, FS_CardinalityType
  <2>6. RequiredConfirmations \in Nat
    BY RebalanceAssumption
  <2>7. Cardinality(after) >= RequiredConfirmations - 1
    BY <2>2, <2>5, <2>6
  <2> QED BY <2>7 DEF after
<1> QED BY <1>3, <1>4, <1>6, <1>8, <1>9, <1>11, <1>12

\* One order of the plan is filled.
LEMMA FillKeepsScheduled ==
  ASSUME Sound, Scheduled, NEW r \in Runs, at[r] = "executing", NEW o \in todo[r],
         ApplyExecution(Intent(r, o), Report(o), clock),
         todo' = [todo EXCEPT ![r] = @ \ {o}],
         UNCHANGED <<clock, at, command, seen, planned, decisions>>
  PROVE  Scheduled'
<1> DEFINE i == Intent(r, o)
           t == Report(o)
           x == ExecutionRow(i, t, clock)
           N == Len(executions)
<1>1. /\ o \in Orders /\ o.asset \in Assets /\ clock \in Nat
      /\ executions \in Seq(PaperExecution) /\ LedgerTypeOK
  <2>1. o \in Orders
    BY ScheduledTypes
  <2> QED BY <2>1, ScheduledTypes DEF Orders, Sound, TypeOK
<1>2. i \in Intents /\ t \in Reports /\ t.fee <= Notional(t)
  BY <1>1, IntentType, ReportType DEF Sound
<1>3. x \in PaperExecution
  BY <1>1, <1>2, ApplyKeepsTypes
<1>4. /\ x.intent = <<command[r].asOf, o.asset, o.side>> /\ x.portfolio = Account
      /\ x.asset = o.asset /\ x.side = o.side /\ x.quantity = o.quantity /\ x.at = clock
  BY DEF ExecutionRow, Intent, Report
<1>5. executions' = Append(executions, x)
  BY DEF ApplyExecution
<1>6. \A a \in Assets \ {o.asset} : positions'[Account][a] = positions[Account][a]
  BY <1>1, RebalanceAssumption DEF ApplyExecution, Intent, LedgerTypeOK
<1> HIDE DEF i, t, x
<1>7. /\ N \in Nat /\ DOMAIN executions = 1 .. N /\ DOMAIN executions' = 1 .. N + 1
      /\ \A n \in 1 .. N : executions'[n] = executions[n]
      /\ executions'[N + 1] = x
      /\ \A n \in 1 .. N + 1 : n \in 1 .. N \/ n = N + 1
  BY <1>1, <1>3, <1>5, RowsAfterAppend
<1> HIDE DEF N
<1>8. /\ todo'[r] = todo[r] \ {o}
      /\ \A q \in Runs \ {r} : at[q] \notin Active
  BY OneActive, ScheduledTypes DEF Active, Scheduled
<1> USE ScheduledTypes DEF Scheduled
<1>9. JobsFollow'
  BY DEF JobsFollow
<1>10. ExecutionsOfRuns'
  <2> SUFFICES ASSUME NEW n \in 1 .. N + 1
               PROVE  /\ executions'[n].portfolio = Account /\ executions'[n].at <= clock
                      /\ \E q \in Runs : at[q] # "idle" /\ AsOf(executions'[n]) = command[q].asOf
    BY <1>7 DEF ExecutionsOfRuns, AsOf
  <2>1. CASE n \in 1 .. N
    BY <1>7, <2>1 DEF ExecutionsOfRuns
  <2>2. CASE n = N + 1
    <3>1. executions'[n] = x /\ x.portfolio = Account /\ x.at <= clock
      BY <1>1, <1>4, <1>7, <2>2
    <3>2. AsOf(x) = command[r].asOf /\ at[r] # "idle"
      BY <1>4 DEF AsOf
    <3> QED BY <3>1, <3>2
  <2> QED BY <1>7, <2>1, <2>2
<1>11. DecisionsOfRuns'
  BY DEF DecisionsOfRuns
<1>12. NothingYet'
  <2>1. \A q \in Runs : at[q] \notin {"reading", "read"}
    BY <1>8 DEF Active
  <2> QED BY <2>1 DEF NothingYet
<1>13. /\ todo[r] \subseteq planned[r] /\ \A p, q \in planned[r] : p.asset = q.asset => p = q
       /\ \A q \in planned[r] \ todo[r] : Told(command[r].asOf, q)
  BY DEF PlanIsTold
<1>14. \A q \in todo[r] \ {o} : q.asset \in Assets \ {o.asset}
  <2>1. \A q \in todo[r] : q \in Orders
    OBVIOUS
  <2>2. \A q \in todo[r] : q.asset \in Assets
    BY <2>1 DEF Orders
  <2> QED BY <1>13, <2>2
<1>15. /\ \A asOf, q : Told(asOf, q) => Told(asOf, q)'
       /\ Told(command[r].asOf, o)'
  <2>1. \A n \in 1 .. N : n \in 1 .. N + 1
    BY <1>7
  <2>2. \A asOf, q : Told(asOf, q) => Told(asOf, q)'
    BY <1>7, <2>1 DEF Told
  <2>3. N + 1 \in 1 .. N + 1
    BY <1>7
  <2>4. Told(command[r].asOf, o)'
    BY <1>4, <1>7, <2>3 DEF Told
  <2> QED BY <2>2, <2>4
<1>16. PlanIsTold'
  <2>1. \A q \in Runs \ {r} : at[q] # "executing" /\ at[q] # "saving"
    BY <1>8 DEF Active
  <2>2. \A q \in planned[r] \ todo'[r] : Told(command[r].asOf, q)'
    BY <1>8, <1>13, <1>15
  <2>3. ASSUME NEW q \in todo'[r]
        PROVE  /\ \A n \in DOMAIN executions' :
                    executions'[n].intent # <<command[r].asOf, q.asset, q.side>>
               /\ positions'[Account][q.asset].quantity = seen[r].quantity[q.asset]
    <3>1. q \in todo[r] /\ q.asset \in Assets \ {o.asset}
      BY <1>8, <1>14
    <3>2. positions'[Account][q.asset].quantity = seen[r].quantity[q.asset]
      BY <1>6, <3>1 DEF PlanIsTold
    <3>3. x.intent # <<command[r].asOf, q.asset, q.side>>
      BY <1>4, <3>1
    <3>4. \A n \in 1 .. N : executions[n].intent # <<command[r].asOf, q.asset, q.side>>
      BY <1>7, <3>1 DEF PlanIsTold
    <3> QED BY <1>7, <3>2, <3>3, <3>4
  <2>4. todo'[r] \subseteq planned[r]
    BY <1>8, <1>13
  <2> QED BY <1>13, <2>1, <2>2, <2>3, <2>4 DEF PlanIsTold
<1>17. EntriesAreAllowed'
  <2>0. \A a, asOf : PassedBefore(a, asOf)' = PassedBefore(a, asOf)
    BY DEF PassedBefore
  <2> SUFFICES ASSUME NEW q \in Runs, at[q] = "executing", NEW b \in todo'[q],
                      b.side = "BUY", seen[q].quantity[b.asset] = 0
               PROVE  /\ \A m \in 1 .. N + 1 :
                           executions'[m].side = "SELL" /\ executions'[m].asset = b.asset =>
                             executions'[m].at + Cooldown <= command[q].asOf
                      /\ Cardinality(PassedBefore(b.asset, command[q].asOf))
                           >= RequiredConfirmations - 1
    BY <1>7, <2>0 DEF EntriesAreAllowed
  <2>1. q = r
    BY <1>8 DEF Active
  <2>2. b \in todo[r] /\ b.asset # o.asset
    BY <1>8, <1>14, <2>1
  <2>3. /\ \A m \in 1 .. N :
             executions[m].side = "SELL" /\ executions[m].asset = b.asset =>
               executions[m].at + Cooldown <= command[r].asOf
        /\ Cardinality(PassedBefore(b.asset, command[r].asOf)) >= RequiredConfirmations - 1
    BY <1>7, <2>1, <2>2 DEF EntriesAreAllowed
  <2> QED BY <1>4, <1>7, <2>1, <2>2, <2>3
<1>18. AuditTellsFills'
  <2>1. ASSUME NEW d \in decisions, d.status = "EXECUTED", NEW q \in d.orders
        PROVE  Told(d.asOf, q)'
    <3>1. Told(d.asOf, q)
      BY <2>1 DEF AuditTellsFills, Told
    <3> QED BY <1>15, <3>1
  <2> QED BY <2>1 DEF AuditTellsFills, Told
<1>19. /\ \A n \in 1 .. N : OpensIn(executions', n) => Opens(n)
       /\ OpensIn(executions', N + 1) => o.side = "BUY" /\ seen[r].quantity[o.asset] = 0
  <2>1. \A n \in DOMAIN executions : executions[n].portfolio = Account
    BY DEF ExecutionsOfRuns
  <2>2. /\ \A n \in 1 .. N : OpensIn(executions', n) => OpensIn(executions, n)
        /\ OpensIn(executions', N + 1) =>
             x.side = "BUY" /\ QuantityTotal(executions, Account, x.asset) = 0
    BY <1>1, <1>3, <1>5, <2>1, OpensAfterFill DEF N
  <2>3. QuantityTotal(executions, Account, o.asset) = positions[Account][o.asset].quantity
    BY <1>1, RebalanceAssumption, ReconcilesAsTotals DEF Sound
  <2>4. positions[Account][o.asset].quantity = seen[r].quantity[o.asset]
    BY DEF PlanIsTold
  <2>5. \A n \in 1 .. N : OpensIn(executions', n) => Opens(n)
    BY <2>2, OpensAsRows
  <2> QED BY <1>4, <2>2, <2>3, <2>4, <2>5
<1>20. CooldownHolds'
  <2> SUFFICES ASSUME NEW m \in 1 .. N + 1, NEW n \in 1 .. N + 1, m < n,
                      executions'[m].side = "SELL", OpensIn(executions', n),
                      executions'[m].asset = executions'[n].asset
               PROVE  executions'[n].at - executions'[m].at >= Cooldown
    BY <1>7, OpensAsRows DEF CooldownHolds
  <2>1. m \in 1 .. N
    BY <1>7
  <2>2. CASE n \in 1 .. N
    BY <1>7, <1>19, <2>1, <2>2 DEF CooldownHolds
  <2>3. CASE n = N + 1
    <3>1. executions[m].at + Cooldown <= command[r].asOf
      <4>1. o.side = "BUY" /\ seen[r].quantity[o.asset] = 0
        BY <1>19, <2>3
      <4>2. executions[m].side = "SELL" /\ executions[m].asset = o.asset
        BY <1>4, <1>7, <2>1, <2>3
      <4> QED BY <1>7, <2>1, <4>1, <4>2 DEF EntriesAreAllowed
    <3>2. command[r].asOf <= clock
      BY DEF JobsFollow
    <3>3. executions'[n].at = clock /\ executions'[m].at = executions[m].at
      BY <1>4, <1>7, <2>1, <2>3
    <3>4. executions[m].at \in Nat /\ command[r].asOf \in Nat /\ Cooldown \in Nat
      BY <1>7, <2>1, RebalanceAssumption
    <3> QED BY <1>1, <3>1, <3>2, <3>3, <3>4
  <2> QED BY <1>7, <2>2, <2>3
<1>21. EntryIsConfirmed'
  <2> SUFFICES ASSUME NEW n \in 1 .. N + 1, OpensIn(executions', n)
               PROVE  Cardinality(PassedBefore(executions'[n].asset, AsOf(executions'[n])))
                        >= RequiredConfirmations - 1
    BY <1>7, OpensAsRows DEF EntryIsConfirmed, PassedBefore, AsOf
  <2>1. CASE n \in 1 .. N
    BY <1>7, <1>19, <2>1 DEF EntryIsConfirmed, PassedBefore
  <2>2. CASE n = N + 1
    <3>1. executions'[n].asset = o.asset /\ AsOf(executions'[n]) = command[r].asOf
      BY <1>4, <1>7, <2>2 DEF AsOf
    <3>2. o.side = "BUY" /\ seen[r].quantity[o.asset] = 0
      BY <1>19, <2>2
    <3>3. Cardinality(PassedBefore(o.asset, command[r].asOf)) >= RequiredConfirmations - 1
      BY <3>2 DEF EntriesAreAllowed
    <3> QED BY <3>1, <3>3
  <2> QED BY <1>7, <2>1, <2>2
<1> QED BY <1>9, <1>10, <1>11, <1>12, <1>16, <1>17, <1>18, <1>20, <1>21

\* One pass of the loop of _execute: a scheduled run never meets a fill of its own
\* as_of, so that the order is applied or the plan abandoned.
LEMMA ExecuteKeepsScheduled ==
  ASSUME Sound, Scheduled, NEW r \in Runs, ExecuteOrder(r)
  PROVE  Scheduled'
<1>1. PICK o \in NextOrders(r) :
        \/ /\ \/ ApplyExecution(Intent(r, o), Report(o), clock)
              \/ Duplicate(Intent(r, o)) /\ UNCHANGED ledgerVars
           /\ todo' = [todo EXCEPT ![r] = @ \ {o}]
           /\ UNCHANGED at
        \/ Abandon(r, o)
  BY DEF ExecuteOrder
<1>2. /\ at[r] = "executing" /\ o \in todo[r]
      /\ UNCHANGED <<clock, command, seen, planned, decisions>>
  BY DEF ExecuteOrder, NextOrders
<1>3. ~Duplicate(Intent(r, o))
  <2>1. Intent(r, o).id = <<command[r].asOf, o.asset, o.side>>
    BY DEF Intent
  <2> QED BY <1>2, <2>1 DEF Duplicate, Scheduled, PlanIsTold
<1>4. CASE ApplyExecution(Intent(r, o), Report(o), clock) /\ UNCHANGED at
           /\ todo' = [todo EXCEPT ![r] = @ \ {o}]
  BY <1>2, <1>4, FillKeepsScheduled
<1>5. CASE Abandon(r, o)
  <2>1. at' = [at EXCEPT ![r] = "rejected"] /\ UNCHANGED <<todo, positions, executions>>
    BY <1>5 DEF Abandon, Goto, ledgerVars
  <2>2. at[r] \in Active
    BY <1>2 DEF Active
  <2> QED BY <1>2, <2>1, <2>2, MoveKeepsScheduled
<1> QED BY <1>1, <1>3, <1>4, <1>5

\* Where no client calls the route, the scheduled lane keeps its invariant.
LEMMA AlwaysScheduled ==
  ASSUME ClientAsOf = {}
  PROVE  Spec => []Scheduled
<1>1. Init => Scheduled
  <2> SUFFICES ASSUME Init PROVE Scheduled
    OBVIOUS
  <2>1. /\ executions = <<>> /\ decisions = {} /\ clock = 0
        /\ \A r \in Runs : at[r] = "idle" /\ command[r].origin = "job"
    BY DEF Init, LedgerInit, NoCommand
  <2>2. JobsFollow /\ ExecutionsOfRuns /\ NothingYet /\ PlanIsTold /\ EntriesAreAllowed
    BY <2>1 DEF JobsFollow, ExecutionsOfRuns, NothingYet, PlanIsTold, EntriesAreAllowed
  <2>3. DecisionsOfRuns
    BY <2>1, FS_EmptySet DEF DecisionsOfRuns
  <2>4. AuditTellsFills /\ CooldownHolds /\ EntryIsConfirmed
    BY <2>1 DEF AuditTellsFills, CooldownHolds, EntryIsConfirmed
  <2> QED BY <2>2, <2>3, <2>4 DEF Scheduled
<1>2. Sound /\ Scheduled /\ [Next]_vars => Scheduled'
  <2> SUFFICES ASSUME Sound, Scheduled, [Next]_vars PROVE Scheduled'
    OBVIOUS
  <2>1. ASSUME UNCHANGED vars \/ Tick \/ Bootstrap PROVE Scheduled'
    <3>1. /\ UNCHANGED <<runVars, positions, executions, decisions>>
          /\ clock' = clock \/ clock' = clock + 1
      BY <2>1 DEF vars, Tick, Bootstrap, Create, ledgerVars
    <3>2. clock' \in Nat /\ clock <= clock'
      BY <3>1, ScheduledTypes
    <3> QED BY <3>1, <3>2, QuietKeepsScheduled
  <2>2. ASSUME NEW r \in Runs, CannotValue(r) \/ Executed(r) \/ Crash(r) PROVE Scheduled'
    <3>1. PICK point \in {"failed", "crashed", "rejected", "saving"} :
            /\ at[r] \in Active /\ at' = [at EXCEPT ![r] = point]
            /\ point = "saving" => at[r] = "executing" /\ todo[r] = {}
            /\ UNCHANGED <<clock, command, seen, todo, planned, positions, executions, decisions>>
      BY <2>2 DEF CannotValue, Executed, Crash, Goto, Active, ledgerVars
    <3> QED BY <3>1, MoveKeepsScheduled
  <2>3. ASSUME NEW r \in Runs,
               \/ BeginJob(r) \/ ReadPositions(r) \/ Decide(r) \/ ExecuteOrder(r)
               \/ SaveDecision(r)
        PROVE  Scheduled'
    BY <2>3, BeginKeepsScheduled, ReadKeepsScheduled, DecideKeepsScheduled,
       ExecuteKeepsScheduled, SaveKeepsScheduled
  <2> QED BY <2>1, <2>2, <2>3 DEF Next
<1> QED BY <1>1, <1>2, AlwaysSound, PTL DEF Spec

\* A PAPER_FILLED order of a saved decision was filled with the quantity that the
\* decision shows, for any number of scheduled runs, crashes and prices.  Without
\* route calls no intent is a duplicate of another run's; with one, a duplicate is
\* reported as filled with the quantity of the new plan.
THEOREM ScheduledAuditTellsFills ==
  ASSUME ClientAsOf = {}
  PROVE  Spec => []AuditTellsFills
  BY AlwaysScheduled, PTL DEF Scheduled

\* A sold asset is not entered again within the cooldown by scheduled runs, however
\* late they execute: no fill lies after the as_of at which _recent_exits looks back.
\* A route call looks back from a time of the client's choice.
THEOREM ScheduledCooldownHolds ==
  ASSUME ClientAsOf = {}
  PROVE  Spec => []CooldownHolds
  BY AlwaysScheduled, PTL DEF Scheduled

\* A BUY of a scheduled run that opens a position follows enough earlier decisions
\* that the asset had passed: a run never counts its own, and a decision once saved
\* stays.  A repeated route call may count itself.
THEOREM ScheduledEntryIsConfirmed ==
  ASSUME ClientAsOf = {}
  PROVE  Spec => []EntryIsConfirmed
  BY AlwaysScheduled, PTL DEF Scheduled
----------------------------------------------------------------------------
(* More laws of sums over sets *)

\* The sum of two.
LEMMA SumOfBoth ==
  ASSUME NEW S, IsFiniteSet(S), NEW v, NEW w, NEW u,
         \A a \in S : v[a] \in Int /\ w[a] \in Int /\ u[a] = v[a] + w[a]
  PROVE  SumOver(S, u) = SumOver(S, v) + SumOver(S, w)
<1>1. PICK g : SetSums(SUBSET S, v, g)
  BY FoldsExist
<1>2. PICK h : SetSums(SUBSET S, w, h)
  BY FoldsExist
<1> DEFINE k == [t \in SUBSET S |-> g[t] + h[t]]
<1>3. \A t \in SUBSET S : g[t] \in Int /\ h[t] \in Int
  BY <1>1, <1>2, AnyElementFirst
<1>4. ASSUME NEW t \in SUBSET S
      PROVE  k[t] = IF t = {} THEN 0 ELSE u[First(t)] + k[t \ {First(t)}]
  <2>1. CASE t = {}
    BY <1>1, <1>2, <2>1 DEF SetSums
  <2>2. CASE t # {}
    <3> DEFINE f == First(t)
               r == t \ {f}
    <3>1. f \in S /\ r \in SUBSET S
      BY <2>2 DEF First
    <3>2. g[t] = v[f] + g[r] /\ h[t] = w[f] + h[r]
      BY <1>1, <1>2, <2>2 DEF SetSums
    <3>3. k[t] = g[t] + h[t] /\ k[r] = g[r] + h[r]
      BY <3>1
    <3>4. g[r] \in Int /\ h[r] \in Int /\ v[f] \in Int /\ w[f] \in Int /\ u[f] = v[f] + w[f]
      BY <1>3, <3>1
    <3> HIDE DEF f, r, k
    <3>5. k[t] = u[f] + k[r]
      BY <3>2, <3>3, <3>4
    <3> QED BY <2>2, <3>5 DEF f, r
  <2> QED BY <2>1, <2>2
<1>5. SetSums(SUBSET S, u, k)
  <2>1. k = [t \in SUBSET S |-> k[t]]
    OBVIOUS
  <2> HIDE DEF k
  <2> QED BY <1>4, <2>1 DEF SetSums
<1>6. k[S] = g[S] + h[S]
  OBVIOUS
<1> HIDE DEF k
<1> QED BY <1>1, <1>2, <1>5, <1>6, SumOverIs

\* A multiple of a sum.
LEMMA SumOfMultiple ==
  ASSUME NEW S, IsFiniteSet(S), NEW v, NEW c \in Int, NEW u,
         \A a \in S : v[a] \in Int /\ u[a] = c * v[a]
  PROVE  SumOver(S, u) = c * SumOver(S, v)
<1>0. \A a \in S : v[a] \in Int
  OBVIOUS
<1>1. PICK g : SetSums(SUBSET S, v, g)
  BY FoldsExist
<1>2. \A t \in SUBSET S : g[t] \in Int
  BY <1>0, <1>1, AnyElementFirst
<1> DEFINE k == [t \in SUBSET S |-> c * g[t]]
<1>3. \A x, y \in Int : c * (x + y) = c * x + c * y
  OBVIOUS
<1>4. ASSUME NEW t \in SUBSET S
      PROVE  k[t] = IF t = {} THEN 0 ELSE u[First(t)] + k[t \ {First(t)}]
  <2>1. CASE t = {}
    <3>1. g[t] = 0
      BY <1>1, <2>1 DEF SetSums
    <3> QED BY <2>1, <3>1
  <2>2. CASE t # {}
    <3> DEFINE f == First(t)
               r == t \ {f}
    <3>1. f \in S /\ r \in SUBSET S
      BY <2>2 DEF First
    <3>2. g[t] = v[f] + g[r]
      BY <1>1, <2>2 DEF SetSums
    <3>3. k[t] = c * g[t] /\ k[r] = c * g[r]
      BY <3>1
    <3>4. g[r] \in Int /\ v[f] \in Int /\ u[f] = c * v[f]
      BY <1>2, <3>1
    <3> HIDE DEF f, r, k
    <3>5. k[t] = u[f] + k[r]
      BY <1>3, <3>2, <3>3, <3>4
    <3> QED BY <2>2, <3>5 DEF f, r
  <2> QED BY <2>1, <2>2
<1>5. SetSums(SUBSET S, u, k)
  <2>1. k = [t \in SUBSET S |-> k[t]]
    OBVIOUS
  <2> HIDE DEF k
  <2> QED BY <1>4, <2>1 DEF SetSums
<1>6. k[S] = c * g[S]
  OBVIOUS
<1> HIDE DEF k
<1> QED BY <1>1, <1>5, <1>6, SumOverIs

\* Summands that are 0 may be left out, by the smallest set for which they may not.
LEMMA SumOfPart ==
  ASSUME NEW S, IsFiniteSet(S), NEW T \in SUBSET S, NEW v, \A a \in S : v[a] \in Int,
         \A a \in S \ T : v[a] = 0
  PROVE  SumOver(S, v) = SumOver(T, v)
<1> DEFINE Bad == {k \in Nat : \E t \in SUBSET S : /\ T \subseteq t /\ Cardinality(t) = k
                                                   /\ SumOver(t, v) # SumOver(T, v)}
<1>0. \A t \in SUBSET S : IsFiniteSet(t) /\ Cardinality(t) \in Nat
  BY FS_Subset, FS_CardinalityType
<1>1. Bad = {}
  <2> SUFFICES ASSUME Bad # {} PROVE FALSE
    OBVIOUS
  <2>1. PICK k \in Bad : \A j \in Bad : k <= j
    BY LeastNat
  <2>2. PICK t \in SUBSET S : /\ T \subseteq t /\ Cardinality(t) = k
                              /\ SumOver(t, v) # SumOver(T, v)
    BY <2>1
  <2>3. PICK x \in t : x \notin T
    BY <2>2
  <2> DEFINE u == t \ {x}
  <2>4. u \in SUBSET S /\ T \subseteq u /\ v[x] = 0 /\ \A a \in t : v[a] \in Int
    BY <2>2, <2>3
  <2>5. Cardinality(u) = k - 1 /\ k - 1 \in Nat
    <3>1. Cardinality(u) = Cardinality(t) - 1
      BY <1>0, <2>3, FS_RemoveElement
    <3>2. Cardinality(u) \in Nat
      BY <1>0, <2>4
    <3> QED BY <2>2, <3>1, <3>2
  <2>6. SumOver(t, v) = v[x] + SumOver(u, v)
    BY <1>0, <2>3, <2>4, SumOverLaws
  <2>7. SumOver(u, v) \in Int
    BY <1>0, <2>4, SumOverLaws
  <2> HIDE DEF u
  <2>8. k - 1 \notin Bad
    BY <2>1, <2>5
  <2> QED BY <2>2, <2>4, <2>5, <2>6, <2>7, <2>8
<1>2. Cardinality(S) \notin Bad
  BY <1>1
<1> QED BY <1>0, <1>2

\* Equal summands over a part of a set, and 0 elsewhere.
LEMMA SumOfEqual ==
  ASSUME NEW S, IsFiniteSet(S), NEW T \in SUBSET S, NEW c \in Int, NEW v,
         \A a \in S : v[a] = IF a \in T THEN c ELSE 0
  PROVE  SumOver(S, v) = c * Cardinality(T) /\ Cardinality(T) \in Nat
<1>0. IsFiniteSet(T) /\ \A t \in SUBSET T : IsFiniteSet(t) /\ Cardinality(t) \in Nat
  BY FS_Subset, FS_CardinalityType
<1> DEFINE k == [t \in SUBSET T |-> c * Cardinality(t)]
<1>1. ASSUME NEW t \in SUBSET T
      PROVE  k[t] = IF t = {} THEN 0 ELSE v[First(t)] + k[t \ {First(t)}]
  <2>1. CASE t = {}
    BY <2>1, FS_EmptySet
  <2>2. CASE t # {}
    <3> DEFINE f == First(t)
               r == t \ {f}
    <3>1. f \in T /\ r \in SUBSET T /\ v[f] = c
      BY <2>2 DEF First
    <3>2. Cardinality(t) \in Nat /\ Cardinality(r) = Cardinality(t) - 1
      BY <1>0, <2>2, FirstIsRemoved
    <3>3. k[t] = c * Cardinality(t) /\ k[r] = c * Cardinality(r)
      BY <3>1
    <3> HIDE DEF f, r, k
    <3>4. \A n \in Nat : c * n = c + c * (n - 1)
      OBVIOUS
    <3>5. k[t] = v[f] + k[r]
      BY <3>1, <3>2, <3>3, <3>4
    <3> QED BY <2>2, <3>5 DEF f, r
  <2> QED BY <2>1, <2>2
<1>2. SetSums(SUBSET T, v, k)
  <2>1. k = [t \in SUBSET T |-> k[t]]
    OBVIOUS
  <2> HIDE DEF k
  <2> QED BY <1>1, <2>1 DEF SetSums
<1>3. k[T] = c * Cardinality(T)
  OBVIOUS
<1> HIDE DEF k
<1>4. SumOver(T, v) = k[T]
  BY <1>0, <1>2, SumOverIs
<1>5. SumOver(S, v) = SumOver(T, v)
  BY SumOfPart
<1> QED BY <1>0, <1>3, <1>4, <1>5
----------------------------------------------------------------------------
(* What an order costs or brings *)

\* A round of trading loses at most this percentage on either side: what is bought
\* costs that much more than it is worth, what is sold brings that much less.
TradingLoses(percent) ==
  /\ (100 + SlippagePercent) * (100 + FeePercent) <= 100 * (100 + percent)
  /\ \A l \in Levels :
       l * (100 - percent) <= ((l * (100 - SlippagePercent)) \div 100) * (100 - FeePercent)

\* Products of natural numbers grow with their factors.
LEMMA ProductGrows ==
  \A a, b, c \in Nat : a <= b => c * a <= c * b /\ a * c <= b * c
<1> SUFFICES ASSUME NEW a \in Nat, NEW b \in Nat, NEW c \in Nat, a <= b
             PROVE  c * a <= c * b /\ a * c <= b * c
  OBVIOUS
<1>1. PICK d \in Nat : b = a + d
  <2>1. b - a \in Nat /\ b = a + (b - a)
    OBVIOUS
  <2> QED BY <2>1
<1>2. c * b = c * a + c * d /\ b * c = a * c + d * c
  BY <1>1
<1>3. c * d \in Nat /\ d * c \in Nat /\ c * a \in Nat /\ a * c \in Nat
  BY ProductType
<1> QED BY <1>2, <1>3

\* Rounding down loses less than one.
LEMMA QuotientRounds ==
  ASSUME NEW x \in Nat, NEW d \in Nat, d > 0
  PROVE  x \div d \in Nat /\ d * (x \div d) <= x /\ x < d * (x \div d) + d
  OBVIOUS

\* A fee that is cut to whole units is at most its percentage.
LEMMA FeeBounds ==
  ASSUME NEW gross \in Nat
  PROVE  /\ (gross * FeePercent) \div 100 \in Nat
         /\ 100 * ((gross * FeePercent) \div 100) <= gross * FeePercent
  BY QuotientRounds, ProductType, RebalanceAssumption

\* What a BUY of d at a price takes from the cash.
LEMMA BuyCosts ==
  ASSUME NEW percent \in 0 .. 100, TradingLoses(percent),
         NEW o \in Orders, o.side = "BUY", NEW d \in Nat, o.price * o.quantity <= d
  PROVE  /\ CashFlow(Report(o)) \in Int
         /\ CashFlow(Report(o)) <= 0
         /\ -(100 * CashFlow(Report(o))) <= (100 + percent) * d
<1>1. o.quantity \in Nat /\ o.price \in Nat
  BY DEF Orders
<1>2. SlippagePercent \in Nat /\ FeePercent \in Nat
  BY RebalanceAssumption
<1> DEFINE q == o.quantity
           p == o.price
           slipped == 100 + SlippagePercent
           charged == 100 + FeePercent
           price == (p * slipped) \div 100
           gross == q * price
           fee == (gross * FeePercent) \div 100
<1>3. CashFlow(Report(o)) = -(gross + fee)
  BY DEF CashFlow, Report, Notional
<1>4. p * slipped \in Nat /\ slipped \in Nat /\ charged \in Nat
  BY <1>1, <1>2, ProductType
<1>5. price \in Nat /\ 100 * price <= p * slipped
  BY <1>4, QuotientRounds
<1>6. p * q <= d
  OBVIOUS
<1> HIDE DEF price
<1>7. gross \in Nat
  BY <1>1, <1>5, ProductType
<1>8. 100 * gross <= d * slipped
  <2>1. q * (100 * price) <= q * (p * slipped)
    BY <1>1, <1>4, <1>5, ProductGrows, ProductType
  <2>2. q * (100 * price) = 100 * gross
    BY <1>1, <1>5
  <2>3. q * (p * slipped) = (p * q) * slipped
    BY <1>1, <1>4
  <2>4. (p * q) * slipped <= d * slipped
    BY <1>1, <1>4, <1>6, ProductGrows, ProductType
  <2> HIDE DEF gross, p, q, slipped
  <2>5. (p * q) * slipped \in Nat /\ d * slipped \in Nat
    BY <1>1, <1>4, ProductType DEF p, q
  <2> QED BY <1>7, <2>1, <2>2, <2>3, <2>4, <2>5
<1> HIDE DEF gross
<1>9. fee \in Nat /\ 100 * fee <= gross * FeePercent
  BY <1>7, FeeBounds
<1> HIDE DEF fee
<1>10. 100 * (gross + fee) <= gross * charged
  <2>1. gross * charged = 100 * gross + gross * FeePercent
    BY <1>2, <1>7
  <2> QED BY <1>2, <1>7, <1>9, <2>1, ProductType
<1>11. 100 * (gross * charged) <= 100 * ((100 + percent) * d)
  <2>1. (100 * gross) * charged <= (d * slipped) * charged
    BY <1>4, <1>7, <1>8, ProductGrows, ProductType
  <2>2. slipped * charged <= 100 * (100 + percent)
    BY DEF TradingLoses
  <2>3. d * (slipped * charged) <= d * (100 * (100 + percent))
    BY <1>4, <2>2, ProductGrows, ProductType
  <2> HIDE DEF slipped, charged
  <2>4. (d * slipped) * charged = d * (slipped * charged)
    BY <1>4
  <2>5. (100 * gross) * charged = 100 * (gross * charged)
    BY <1>4, <1>7
  <2>6. d * (100 * (100 + percent)) = 100 * ((100 + percent) * d)
    OBVIOUS
  <2>7. d * (slipped * charged) \in Nat /\ gross * charged \in Nat /\ (100 + percent) * d \in Nat
    BY <1>4, <1>7, ProductType
  <2> QED BY <2>1, <2>3, <2>4, <2>5, <2>6, <2>7
<1>12. gross * charged \in Nat /\ (100 + percent) * d \in Nat
  BY <1>4, <1>7, ProductType
<1> HIDE DEF charged, slipped
<1>13. 100 * (gross + fee) <= (100 + percent) * d
  <2> DEFINE x == gross * charged
             y == (100 + percent) * d
  <2>1. x \in Nat /\ y \in Nat /\ 100 * (gross + fee) <= x /\ 100 * x <= 100 * y
    BY <1>10, <1>11, <1>12
  <2> HIDE DEF x, y
  <2>2. 100 * (gross + fee) <= y
    BY <1>7, <1>9, <2>1
  <2> QED BY <2>2 DEF y
<1> QED BY <1>3, <1>7, <1>9, <1>13

\* What a SELL brings.
LEMMA SellBrings ==
  ASSUME NEW percent \in 0 .. 100, TradingLoses(percent),
         NEW o \in Orders, o.side = "SELL", o.price \in Levels
  PROVE  /\ CashFlow(Report(o)) \in Nat
         /\ (100 - percent) * (o.price * o.quantity) <= 100 * CashFlow(Report(o))
<1>1. o.quantity \in Nat /\ o.price \in Nat
  BY DEF Orders
<1>2. SlippagePercent \in 0 .. 99 /\ FeePercent \in 0 .. 100
  BY RebalanceAssumption
<1> DEFINE q == o.quantity
           p == o.price
           slipped == 100 - SlippagePercent
           kept == 100 - FeePercent
           price == (p * slipped) \div 100
           gross == q * price
           fee == (gross * FeePercent) \div 100
<1>3. CashFlow(Report(o)) = gross - fee
  <2>1. Report(o).side = "SELL" /\ Report(o).quantity = q /\ Report(o).price = price
        /\ Report(o).fee = fee
    <3>1. 100 + (-SlippagePercent) = 100 - SlippagePercent
      BY <1>2
    <3> QED BY <3>1 DEF Report
  <2> QED BY <2>1 DEF CashFlow, Notional
<1>4. p * slipped \in Nat /\ slipped \in Nat /\ kept \in Nat
  BY <1>1, <1>2, ProductType
<1>5. price \in Nat
  BY <1>4, QuotientRounds
<1>6. p * (100 - percent) <= price * kept
  BY DEF TradingLoses
<1> HIDE DEF price
<1>7. gross \in Nat
  BY <1>1, <1>5, ProductType
<1>8. q * (p * (100 - percent)) <= q * (price * kept)
  BY <1>1, <1>4, <1>5, <1>6, ProductGrows, ProductType
<1>9. q * (price * kept) = gross * kept
  BY <1>1, <1>4, <1>5
<1>10. q * (p * (100 - percent)) = (100 - percent) * (p * q)
  BY <1>1
<1> HIDE DEF gross
<1>11. fee \in Nat /\ 100 * fee <= gross * FeePercent
  BY <1>7, FeeBounds
<1> HIDE DEF fee
<1>12. gross * kept = 100 * gross - gross * FeePercent
  BY <1>2, <1>7
<1>13. gross * FeePercent \in Nat /\ gross * FeePercent <= 100 * gross
  <2>1. gross * FeePercent <= gross * 100
    BY <1>2, <1>7, ProductGrows
  <2> QED BY <1>2, <1>7, <2>1, ProductType
<1>14. gross * kept <= 100 * (gross - fee)
  BY <1>7, <1>11, <1>12, <1>13
<1>15. gross - fee \in Nat
  BY <1>7, <1>11, <1>13
<1>16. (100 - percent) * (p * q) \in Nat /\ gross * kept \in Nat
  BY <1>1, <1>4, <1>7, ProductType
<1> HIDE DEF kept, p, q
<1>17. (100 - percent) * (p * q) <= 100 * (gross - fee)
  BY <1>8, <1>9, <1>10, <1>14, <1>15, <1>16
<1> QED BY <1>3, <1>15, <1>17 DEF p, q
----------------------------------------------------------------------------
(* What a plan costs and brings *)

\* The notional of an asset that a decision aims at, and what a snapshot holds of it.
Target(total, chosen, a) == IF a \in chosen THEN TargetNotional(total, Cardinality(chosen)) ELSE 0

Worth(s, price, a) == IF a \in Held(s) THEN s.quantity[a] * price[a] ELSE 0

\* Holdings that a plan leaves as they are or cuts.
KeptBy(s, plan) ==
  {a \in Held(s) : \A o \in plan :
     o.asset = a => o.side = "SELL" /\ o.quantity < s.quantity[a]}

\* What the data of a decision is.
DecisionData(s, data, price, chosen) ==
  /\ s \in Snapshots
  /\ data \in SUBSET Assets
  /\ price \in [data -> Levels]
  /\ Held(s) \subseteq data
  /\ chosen \in SUBSET data

\* The numbers of one asset.
LEMMA AssetNumbers ==
  ASSUME NEW s, NEW data, NEW price, NEW chosen, DecisionData(s, data, price, chosen),
         NEW a \in Assets
  PROVE  /\ EquityAt(s, price) \in Nat
         /\ Target(EquityAt(s, price), chosen, a) \in Nat
         /\ Worth(s, price, a) \in Nat
         /\ s.quantity[a] \in Nat
         /\ a \in data => /\ price[a] \in Levels /\ price[a] \in Nat /\ price[a] > 0
                          /\ price[a] <= MinimumOrderNotional
                          /\ Worth(s, price, a) = s.quantity[a] * price[a]
         /\ a \notin Held(s) => s.quantity[a] = 0
<1> DEFINE total == EquityAt(s, price)
<1>1. total \in Nat
  BY EquityBounds DEF DecisionData
<1> HIDE DEF total
<1>2. Target(total, chosen, a) \in Nat
  <2>1. CASE a \in chosen
    <3>1. IsFiniteSet(chosen)
      BY LedgerAssumption, FS_Subset DEF DecisionData
    <3>2. Cardinality(chosen) \in Nat /\ Cardinality(chosen) > 0
      BY <2>1, <3>1, FS_CardinalityType, FS_EmptySet
    <3> QED BY <1>1, <2>1, <3>2, TargetBounds DEF Target
  <2>2. CASE a \notin chosen
    BY <2>2 DEF Target
  <2> QED BY <2>1, <2>2
<1>3. s.quantity[a] \in Nat
  BY DEF DecisionData, Snapshots
<1>4. a \notin Held(s) => s.quantity[a] = 0
  BY <1>3 DEF Held
<1>5. ASSUME a \in data
      PROVE  /\ price[a] \in Levels /\ price[a] \in Nat /\ price[a] > 0
             /\ price[a] <= MinimumOrderNotional
  <2>1. price[a] \in Levels /\ Levels \subseteq Nat \ {0}
    BY <1>5, RebalanceAssumption DEF DecisionData
  <2>2. price[a] \in Nat \ {0}
    BY <2>1, Zenon
  <2>3. price[a] <= MinimumOrderNotional
    BY <2>1, RebalanceAssumption
  <2> QED BY <2>1, <2>2, <2>3
<1>6. Worth(s, price, a) \in Nat
  <2>1. CASE a \in Held(s)
    <3>1. a \in data
      BY <2>1 DEF DecisionData
    <3> QED BY <1>3, <1>5, <2>1, <3>1, ProductType DEF Worth
  <2> QED BY <2>1 DEF Worth
<1>7. a \in data => Worth(s, price, a) = s.quantity[a] * price[a]
  BY <1>4, <1>5 DEF Worth
<1> QED BY <1>1, <1>2, <1>3, <1>4, <1>5, <1>6, <1>7 DEF total

\* The order of an asset: it makes up the difference between its target and its worth,
\* but for what is cut to whole units, and exits a position exactly.
LEMMA OrderFits ==
  ASSUME NEW s, NEW data, NEW price, NEW chosen, DecisionData(s, data, price, chosen),
         NEW blocked, NEW o \in Plan(s, price, EquityAt(s, price), chosen, blocked),
         NEW target, target = Target(EquityAt(s, price), chosen, o.asset),
         NEW worth, worth = Worth(s, price, o.asset)
  PROVE  /\ o \in Orders /\ o.asset \in data /\ o.price = price[o.asset] /\ o.quantity > 0
         /\ o.side = "BUY" => /\ worth < target
                              /\ o.price * o.quantity <= target - worth
         /\ o.side = "SELL" => /\ target < worth
                               /\ o.quantity <= s.quantity[o.asset]
                               /\ \/ o.quantity = s.quantity[o.asset]
                                  \/ worth - target < o.price * o.quantity + o.price
<1> DEFINE total == EquityAt(s, price)
           plan == Plan(s, price, total, chosen, blocked)
<1>1. o \in Orders /\ o.asset \in Assets
  <2>1. o \in Orders
    BY PlanBounds DEF DecisionData
  <2> QED BY <2>1 DEF Orders
<1> DEFINE tgt(a) == IF a \in chosen THEN TargetNotional(total, Cardinality(chosen)) ELSE 0
           diff(a) == tgt(a) - s.quantity[a] * price[a]
           rows == {a \in Held(s) \cup chosen :
                      WorthTrading(total, diff(a)) /\ ~(diff(a) > 0 /\ a \in blocked)}
           part(a) == Abs(diff(a)) \div price[a]
           side(a) == IF diff(a) > 0 THEN "BUY" ELSE "SELL"
           quantity(a) == IF diff(a) > 0 THEN part(a)
                          ELSE IF tgt(a) = 0 THEN s.quantity[a]
                          ELSE Min({part(a), s.quantity[a]})
           order(a) == [asset |-> a, side |-> side(a), quantity |-> quantity(a),
                        price |-> price[a], notional |-> Abs(diff(a))]
<1>2. plan = {order(a) : a \in rows}
  BY DEF Plan
<1>3. PICK a \in rows : o = order(a)
  BY <1>2
<1>4. /\ o.asset = a /\ o.side = side(a) /\ o.quantity = quantity(a) /\ o.price = price[a]
  BY <1>3
<1>5. a \in data /\ a \in Assets
  BY DEF DecisionData
<1>6. /\ target \in Nat /\ worth \in Nat /\ s.quantity[a] \in Nat
      /\ price[a] \in Nat /\ price[a] > 0 /\ price[a] <= MinimumOrderNotional
      /\ worth = s.quantity[a] * price[a]
  BY <1>4, <1>5, AssetNumbers
<1>7. tgt(a) = target /\ diff(a) = target - worth
  BY <1>4, <1>6 DEF Target
<1>8. MinimumOrderNotional <= Abs(target - worth) /\ MinimumOrderNotional \in Nat
  BY <1>7, RebalanceAssumption DEF WorthTrading
<1>9. /\ o.side = IF target > worth THEN "BUY" ELSE "SELL"
      /\ o.quantity = IF target > worth THEN Abs(target - worth) \div price[a]
                      ELSE IF target = 0 THEN s.quantity[a]
                      ELSE Min({Abs(target - worth) \div price[a], s.quantity[a]})
  <2>1. diff(a) > 0 <=> target > worth
    BY <1>6, <1>7
  <2> HIDE DEF diff, tgt
  <2> QED BY <1>4, <1>7, <2>1
<1> HIDE DEF order, quantity, part, side, rows, diff, tgt, plan
<1> DEFINE gap == Abs(target - worth)
           units == gap \div price[a]
<1>10. /\ gap \in Nat /\ gap >= price[a]
       /\ target > worth => gap = target - worth
       /\ ~(target > worth) => gap = worth - target
  BY <1>6, <1>8 DEF Abs
<1> HIDE DEF gap
<1>11. units \in Nat /\ price[a] * units <= gap /\ gap < price[a] * units + price[a]
  BY <1>6, <1>10, QuotientRounds
<1>12. units > 0
  <2>1. units = 0 => price[a] * units = 0
    BY <1>6
  <2> HIDE DEF units
  <2> QED BY <1>6, <1>10, <1>11, <2>1
<1>13. Min({units, s.quantity[a]}) \in {units, s.quantity[a]}
       /\ Min({units, s.quantity[a]}) <= s.quantity[a]
  <2> HIDE DEF units
  <2>1. \E x \in {units, s.quantity[a]} : \A y \in {units, s.quantity[a]} : x <= y
    BY <1>6, <1>11
  <2>2. LET m == Min({units, s.quantity[a]})
        IN  m \in {units, s.quantity[a]} /\ \A y \in {units, s.quantity[a]} : m <= y
    BY <2>1 DEF Min
  <2> QED BY <2>2
<1> HIDE DEF units
<1>14. CASE target > worth
  BY <1>1, <1>4, <1>5, <1>6, <1>9, <1>10, <1>11, <1>12, <1>14 DEF gap, units
<1>15. CASE ~(target > worth)
  <2>1. o.side = "SELL" /\ target < worth /\ gap = worth - target
    <3>1. o.side = "SELL"
      BY <1>9, <1>15, Zenon
    <3>2. target < worth /\ gap = worth - target
      BY <1>6, <1>10, <1>15
    <3> QED BY <3>1, <3>2
  <2>2. s.quantity[a] > 0
    <3>1. s.quantity[a] = 0 => s.quantity[a] * price[a] = 0
      BY <1>6
    <3> QED BY <1>6, <2>1, <3>1
  <2>3. /\ o.quantity \in {units, s.quantity[a]} /\ o.quantity <= s.quantity[a]
    <3>1. o.quantity = IF target = 0 THEN s.quantity[a] ELSE Min({units, s.quantity[a]})
      BY <1>9, <1>15 DEF gap, units
    <3> QED BY <1>6, <1>13, <3>1
  <2>4. o.quantity > 0
    BY <1>12, <2>2, <2>3
  <2>5. o.quantity = s.quantity[a] \/ worth - target < o.price * o.quantity + o.price
    BY <1>4, <1>11, <2>1, <2>3
  <2> QED BY <1>1, <1>4, <1>5, <2>1, <2>3, <2>4, <2>5
<1> QED BY <1>14, <1>15

\* An asset without an order is not traded, not worth it, or wanted more than held.
LEMMA LeftAlone ==
  ASSUME NEW s, NEW data, NEW price, NEW chosen, DecisionData(s, data, price, chosen),
         NEW blocked, NEW a \in Assets,
         \A o \in Plan(s, price, EquityAt(s, price), chosen, blocked) : o.asset # a,
         NEW target, target = Target(EquityAt(s, price), chosen, a),
         NEW worth, worth = Worth(s, price, a)
  PROVE  worth <= target \/ ~WorthTrading(EquityAt(s, price), target - worth)
<1> DEFINE total == EquityAt(s, price)
           tgt(b) == IF b \in chosen THEN TargetNotional(total, Cardinality(chosen)) ELSE 0
           diff(b) == tgt(b) - s.quantity[b] * price[b]
           rows == {b \in Held(s) \cup chosen :
                      WorthTrading(total, diff(b)) /\ ~(diff(b) > 0 /\ b \in blocked)}
           part(b) == Abs(diff(b)) \div price[b]
           side(b) == IF diff(b) > 0 THEN "BUY" ELSE "SELL"
           quantity(b) == IF diff(b) > 0 THEN part(b)
                          ELSE IF tgt(b) = 0 THEN s.quantity[b]
                          ELSE Min({part(b), s.quantity[b]})
           order(b) == [asset |-> b, side |-> side(b), quantity |-> quantity(b),
                        price |-> price[b], notional |-> Abs(diff(b))]
<1>1. Plan(s, price, total, chosen, blocked) = {order(b) : b \in rows}
  BY DEF Plan
<1>2. order(a).asset = a
  OBVIOUS
<1>3. a \notin rows
  <2> HIDE DEF rows, order
  <2> QED BY <1>1, <1>2
<1>4. target \in Nat /\ worth \in Nat
  BY AssetNumbers
<1>5. CASE a \notin Held(s) \cup chosen
  BY <1>4, <1>5 DEF Worth
<1>6. CASE a \in Held(s) \cup chosen
  <2>1. a \in data
    BY <1>6 DEF DecisionData
  <2>2. worth = s.quantity[a] * price[a] /\ tgt(a) = target
    BY <2>1, AssetNumbers DEF Target
  <2>3. diff(a) = target - worth
    BY <2>2
  <2> HIDE DEF diff, tgt
  <2> QED BY <1>3, <1>4, <1>6, <2>3
<1> QED BY <1>5, <1>6
----------------------------------------------------------------------------
(* What is due for the orders that are left *)

\* What the order of an asset will bring, negative if it costs.
Due(orders, a) ==
  IF \E o \in orders : o.asset = a THEN CashFlow(Report(CHOOSE o \in orders : o.asset = a)) ELSE 0

Dues(orders) == SumOver(Assets, [a \in Assets |-> Due(orders, a)])

OnePerAsset(orders) == \A o, q \in orders : o.asset = q.asset => o = q

LEMMA DueOf ==
  ASSUME NEW orders, OnePerAsset(orders), NEW o \in orders
  PROVE  Due(orders, o.asset) = CashFlow(Report(o))
<1> DEFINE q == CHOOSE x \in orders : x.asset = o.asset
<1>1. q \in orders /\ q.asset = o.asset
  OBVIOUS
<1> HIDE DEF q
<1>2. q = o
  BY <1>1 DEF OnePerAsset
<1>3. Due(orders, o.asset) = CashFlow(Report(q))
  BY DEF Due, q
<1> QED BY <1>2, <1>3

\* A SELL brings something, a BUY costs something.
LEMMA OrderFlow ==
  ASSUME NEW o \in Orders
  PROVE  /\ CashFlow(Report(o)) \in Int
         /\ o.side = "SELL" => CashFlow(Report(o)) >= 0
         /\ o.side = "BUY" => CashFlow(Report(o)) = -(Notional(Report(o)) + Report(o).fee)
         /\ o.side = "BUY" => CashFlow(Report(o)) <= 0
<1>1. Report(o) \in Reports /\ Report(o).fee <= Notional(Report(o)) /\ Report(o).side = o.side
  BY ReportType DEF Report
<1>2. Notional(Report(o)) \in Nat /\ Report(o).fee \in Nat
  <2>1. Report(o).quantity \in Nat /\ Report(o).price \in Nat /\ Report(o).fee \in Nat
    BY <1>1 DEF Reports
  <2> QED BY <2>1, ProductType DEF Notional
<1>3. CashFlow(Report(o)) = IF o.side = "BUY" THEN -(Notional(Report(o)) + Report(o).fee)
                            ELSE Notional(Report(o)) - Report(o).fee
  BY <1>1 DEF CashFlow
<1>4. o.side = "SELL" => o.side # "BUY"
  OBVIOUS
<1> QED BY <1>1, <1>2, <1>3, <1>4

LEMMA DueType ==
  ASSUME NEW orders \in SUBSET Orders, NEW a
  PROVE  Due(orders, a) \in Int
<1>1. CASE \E o \in orders : o.asset = a
  <2> DEFINE q == CHOOSE o \in orders : o.asset = a
  <2>1. q \in Orders
    BY <1>1
  <2> HIDE DEF q
  <2>2. CashFlow(Report(q)) \in Int
    BY <2>1, OrderFlow
  <2> QED BY <1>1, <2>2 DEF Due, q
<1> QED BY <1>1 DEF Due

\* An order that is taken from the list takes its own part of the dues along.
LEMMA DuesMove ==
  ASSUME NEW orders \in SUBSET Orders, OnePerAsset(orders), NEW o \in orders
  PROVE  /\ Dues(orders) \in Int /\ Dues(orders \ {o}) \in Int
         /\ Dues(orders) = CashFlow(Report(o)) + Dues(orders \ {o})
<1> DEFINE left == orders \ {o}
           v == [a \in Assets |-> Due(orders, a)]
           w == [a \in Assets |-> Due(left, a)]
           b == o.asset
           R == Assets \ {b}
<1>1. IsFiniteSet(Assets) /\ b \in Assets /\ IsFiniteSet(R)
  BY LedgerAssumption, FS_Subset DEF Orders
<1>2. left \in SUBSET Orders /\ OnePerAsset(left)
  BY DEF OnePerAsset
<1>3. \A a \in Assets : v[a] \in Int /\ w[a] \in Int
  BY <1>2, DueType
<1>4. v[b] = CashFlow(Report(o))
  BY <1>1, DueOf
<1>5. w[b] = 0
  <2>1. ~ \E q \in left : q.asset = b
    BY DEF OnePerAsset
  <2> HIDE DEF left
  <2> QED BY <1>1, <2>1 DEF Due
<1>6. ASSUME NEW a \in R PROVE v[a] = w[a]
  <2>1. CASE \E q \in left : q.asset = a
    <3>1. PICK q \in left : q.asset = a
      BY <2>1
    <3>2. q \in orders
      OBVIOUS
    <3> HIDE DEF left
    <3>3. Due(orders, q.asset) = CashFlow(Report(q)) /\ Due(left, q.asset) = CashFlow(Report(q))
      BY <1>2, <3>1, <3>2, DueOf
    <3> QED BY <3>1, <3>3
  <2>2. CASE ~ \E q \in left : q.asset = a
    <3>1. ~ \E q \in orders : q.asset = a
      BY <2>2
    <3> HIDE DEF left
    <3> QED BY <2>2, <3>1 DEF Due
  <2> QED BY <2>1, <2>2
<1>7. Dues(orders) = SumOver(Assets, v) /\ Dues(left) = SumOver(Assets, w)
  BY DEF Dues
<1> HIDE DEF v, w, left
<1>8. /\ SumOver(Assets, v) \in Int /\ SumOver(Assets, w) \in Int
      /\ SumOver(Assets, v) = v[b] + SumOver(R, v) /\ SumOver(Assets, w) = w[b] + SumOver(R, w)
  BY <1>1, <1>3, SumOverLaws
<1>9. SumOver(R, v) \in Int /\ SumOver(R, w) = SumOver(R, v)
  <2>1. (\A a \in R : v[a] \in Int) /\ \A a \in R : w[a] = v[a]
    BY <1>3, <1>6
  <2> HIDE DEF R
  <2> QED BY <1>1, <2>1, SumOverLaws
<1>10. v[b] \in Int
  BY <1>1, <1>3
<1> HIDE DEF R, b
<1>11. Dues(orders) = CashFlow(Report(o)) + Dues(left)
  BY <1>4, <1>5, <1>7, <1>8, <1>9, <1>10
<1> QED BY <1>7, <1>8, <1>11 DEF left

\* Where only purchases are left nothing more will come in; where none is, nothing
\* will go out.
LEMMA DuesSign ==
  ASSUME NEW orders \in SUBSET Orders
  PROVE  /\ Dues(orders) \in Int
         /\ (\A o \in orders : o.side = "BUY") => Dues(orders) <= 0
         /\ (\A o \in orders : o.side = "SELL") => Dues(orders) >= 0
<1> DEFINE v == [a \in Assets |-> Due(orders, a)]
           w == [a \in Assets |-> -Due(orders, a)]
<1>0. IsFiniteSet(Assets)
  BY LedgerAssumption
<1>1. \A a \in Assets : v[a] \in Int /\ w[a] = (-1) * v[a]
  BY DueType
<1>2. Dues(orders) = SumOver(Assets, v)
  BY DEF Dues
<1>3. ASSUME NEW a \in Assets
      PROVE  /\ (\A o \in orders : o.side = "BUY") => v[a] <= 0
             /\ (\A o \in orders : o.side = "SELL") => v[a] >= 0
  <2>1. CASE \E o \in orders : o.asset = a
    <3> DEFINE q == CHOOSE o \in orders : o.asset = a
    <3>1. q \in orders
      BY <2>1
    <3>2. v[a] = CashFlow(Report(q))
      BY <2>1 DEF Due
    <3> HIDE DEF q, v
    <3> QED BY <3>1, <3>2, OrderFlow
  <2>2. CASE ~ \E o \in orders : o.asset = a
    <3>1. v[a] = 0
      BY <2>2 DEF Due
    <3> HIDE DEF v
    <3> QED BY <3>1
  <2> QED BY <2>1, <2>2
<1> HIDE DEF v, w
<1>4. SumOver(Assets, v) \in Int
  BY <1>0, <1>1, SumOverLaws
<1>5. SumOver(Assets, w) = (-1) * SumOver(Assets, v)
  <2>1. -1 \in Int
    OBVIOUS
  <2> QED BY <1>0, <1>1, <2>1, SumOfMultiple
<1>6. ASSUME \A o \in orders : o.side = "BUY" PROVE Dues(orders) <= 0
  <2>1. \A a \in Assets : w[a] \in Nat
    BY <1>1, <1>3, <1>6
  <2>2. SumOver(Assets, w) \in Nat
    BY <1>0, <2>1, SumOverBounds
  <2> QED BY <1>2, <1>4, <1>5, <2>2
<1>7. ASSUME \A o \in orders : o.side = "SELL" PROVE Dues(orders) >= 0
  <2>1. \A a \in Assets : v[a] \in Nat
    BY <1>1, <1>3, <1>7
  <2>2. SumOver(Assets, v) \in Nat
    BY <1>0, <2>1, SumOverBounds
  <2> QED BY <1>2, <2>2
<1> QED BY <1>2, <1>4, <1>6, <1>7
----------------------------------------------------------------------------
(* A covered plan is funded *)

\* A plan that buys is covered if what the policy leaves uninvested, less the loss of
\* trading everything, is worth one threshold for an order for each holding it keeps.
CoveredBy(s, plan, total, percent) ==
  LET reserve == (100 * (100 - percent) - (100 + percent) * InvestedPercent) * total
      kept == Cardinality(KeptBy(s, plan))
  IN  (\E o \in plan : o.side = "BUY") =>
        /\ 100 * kept * (100 * MinimumOrderNotional) <= reserve
        /\ 100 * kept * (RebalancePercent * total) <= reserve

\* What the order of an asset brings, against the difference between its worth and
\* its target; a holding that is kept may be off by the threshold.
LEMMA AssetPays ==
  ASSUME NEW percent \in 0 .. 100, TradingLoses(percent),
         NEW s, NEW data, NEW price, NEW chosen, DecisionData(s, data, price, chosen),
         NEW blocked, NEW total, total = EquityAt(s, price),
         NEW plan, plan = Plan(s, price, total, chosen, blocked),
         NEW room \in Nat, 100 * MinimumOrderNotional <= room, RebalancePercent * total <= room,
         NEW a \in Assets,
         NEW target, target = Target(total, chosen, a),
         NEW worth, worth = Worth(s, price, a),
         NEW off, off = IF a \in KeptBy(s, plan) THEN room ELSE 0
  PROVE  0 <= 100 * Due(plan, a) - (100 - percent) * worth + (100 + percent) * target + off
<1>1. /\ total \in Nat /\ target \in Nat /\ worth \in Nat /\ s.quantity[a] \in Nat /\ off \in Nat
      /\ a \notin Held(s) => worth = 0
  BY AssetNumbers DEF Worth
<1>2. plan \in SUBSET Orders /\ OnePerAsset(plan)
  BY PlanBounds DEF DecisionData, OnePerAsset
<1> DEFINE lw == percent * worth
           lt == percent * target
<1>3. /\ lw \in Nat /\ lt \in Nat
      /\ (100 - percent) * worth = 100 * worth - lw
      /\ (100 + percent) * target = 100 * target + lt
      /\ (100 + percent) * (target - worth) = 100 * target + lt - 100 * worth - lw
      /\ (100 - percent) * (worth - target) = 100 * worth - lw - 100 * target + lt
  <2>1. lw \in Nat /\ lt \in Nat
    BY <1>1, ProductType
  <2> QED BY <1>1, <2>1
<1> HIDE DEF lw, lt
<1>4. MinimumOrderNotional \in Nat /\ RebalancePercent \in Nat
  BY RebalanceAssumption
<1>5. ASSUME NEW o \in plan, o.asset = a, o.side = "BUY"
      PROVE  0 <= 100 * Due(plan, a) - (100 - percent) * worth + (100 + percent) * target + off
  <2>1. worth < target /\ o.price * o.quantity <= target - worth
    BY <1>5, OrderFits
  <2>2. /\ Due(plan, a) \in Int
        /\ -(100 * Due(plan, a)) <= (100 + percent) * (target - worth)
    <3>1. target - worth \in Nat /\ o \in Orders
      BY <1>1, <1>2, <2>1
    <3>2. Due(plan, a) = CashFlow(Report(o))
      BY <1>2, <1>5, DueOf
    <3> QED BY <1>5, <2>1, <3>1, <3>2, BuyCosts
  <2> QED BY <1>1, <1>3, <2>2
<1>6. ASSUME NEW o \in plan, o.asset = a, o.side = "SELL"
      PROVE  0 <= 100 * Due(plan, a) - (100 - percent) * worth + (100 + percent) * target + off
  <2>1. /\ a \in data /\ o.price = price[a] /\ target < worth
        /\ o.quantity <= s.quantity[a]
        /\ \/ o.quantity = s.quantity[a]
           \/ worth - target < o.price * o.quantity + o.price
    BY <1>6, OrderFits
  <2>2. /\ o.price \in Levels /\ o.price \in Nat /\ o.price <= MinimumOrderNotional
        /\ worth = s.quantity[a] * o.price
    BY <2>1, AssetNumbers
  <2> DEFINE value == o.price * o.quantity
  <2>3. /\ o.quantity \in Nat /\ value \in Nat
        /\ Due(plan, a) \in Nat /\ (100 - percent) * value <= 100 * Due(plan, a)
    <3>1. o \in Orders /\ o.quantity \in Nat
      BY <1>2 DEF Orders
    <3>2. Due(plan, a) = CashFlow(Report(o))
      BY <1>2, <1>6, DueOf
    <3>3. /\ CashFlow(Report(o)) \in Nat
          /\ (100 - percent) * (o.price * o.quantity) <= 100 * CashFlow(Report(o))
      BY <1>6, <2>2, <3>1, SellBrings
    <3>4. value \in Nat
      BY <2>2, <3>1, ProductType
    <3> QED BY <3>1, <3>2, <3>3, <3>4
  <2>4. CASE o.quantity = s.quantity[a]
    <3>1. value = worth
      BY <1>1, <2>2, <2>4
    <3> HIDE DEF value
    <3> QED BY <1>1, <1>3, <2>3, <3>1
  <2>5. CASE o.quantity # s.quantity[a]
    <3>1. o.quantity < s.quantity[a] /\ a \in Held(s)
      <4>1. o.quantity \in Nat /\ o.quantity <= s.quantity[a]
        BY <2>1, <2>3
      <4> QED BY <1>1, <2>5, <4>1 DEF Held
    <3>2. a \in KeptBy(s, plan)
      <4>1. \A q \in plan : q.asset = a => q = o
        BY <1>2, <1>6 DEF OnePerAsset
      <4> QED BY <1>6, <3>1, <4>1 DEF KeptBy
    <3>3. worth - target <= value + o.price /\ worth - target \in Nat
      BY <1>1, <2>1, <2>2, <2>3, <2>5
    <3> HIDE DEF value
    <3>4. (100 - percent) * (worth - target) <= (100 - percent) * (value + o.price)
      BY <2>2, <2>3, <3>3, ProductGrows
    <3>5. (100 - percent) * (value + o.price) = (100 - percent) * value + (100 - percent) * o.price
      BY <2>2, <2>3
    <3>6. (100 - percent) * o.price <= 100 * o.price
      BY <2>2, ProductGrows
    <3>7. (100 - percent) * value \in Nat /\ (100 - percent) * o.price \in Nat
      BY <2>2, <2>3, ProductType
    <3>8. 100 * o.price <= room
      BY <1>4, <2>2
    <3> QED BY <1>1, <1>3, <2>2, <2>3, <3>2, <3>4, <3>5, <3>6, <3>7, <3>8
  <2> QED BY <2>4, <2>5
<1>7. ASSUME \A o \in plan : o.asset # a
      PROVE  0 <= 100 * Due(plan, a) - (100 - percent) * worth + (100 + percent) * target + off
  <2>1. Due(plan, a) = 0
    BY <1>7 DEF Due
  <2>2. worth <= target \/ ~WorthTrading(total, target - worth)
    BY <1>7, LeftAlone
  <2>3. CASE worth <= target
    BY <1>1, <1>3, <2>1, <2>3
  <2>4. CASE target < worth
    <3>1. a \in KeptBy(s, plan)
      BY <1>1, <1>7, <2>4 DEF KeptBy
    <3>2. Abs(target - worth) = worth - target
      BY <1>1, <2>4 DEF Abs
    <3>3. worth - target < MinimumOrderNotional \/ 100 * (worth - target) < total * RebalancePercent
      BY <1>1, <1>4, <2>2, <2>4, <3>2, ProductType DEF WorthTrading
    <3>4. total * RebalancePercent = RebalancePercent * total /\ RebalancePercent * total \in Nat
      BY <1>1, <1>4, ProductType
    <3>5. 100 * (worth - target) <= room
      BY <1>1, <1>4, <3>3, <3>4
    <3> QED BY <1>1, <1>3, <2>1, <3>1, <3>5
  <2> QED BY <1>1, <2>3, <2>4
<1>8. \A o \in plan : o.side = "BUY" \/ o.side = "SELL"
  BY <1>2 DEF Orders, Sides
<1> QED BY <1>5, <1>6, <1>7, <1>8

\* The equity is the cash and what the assets are worth.
LEMMA EquityIs ==
  ASSUME NEW s, NEW data, NEW price, NEW chosen, DecisionData(s, data, price, chosen)
  PROVE  EquityAt(s, price) = s.cash + SumOver(Assets, [a \in Assets |-> Worth(s, price, a)])
<1> DEFINE S == Held(s)
           w == [a \in Assets |-> Worth(s, price, a)]
           G(g) == g = [t \in SUBSET S |->
                          IF t = {} THEN 0
                          ELSE s.quantity[First(t)] * price[First(t)] + g[t \ {First(t)}]]
           sums == CHOOSE g : G(g)
<1>1. IsFiniteSet(Assets) /\ S \in SUBSET Assets /\ IsFiniteSet(S)
  BY LedgerAssumption, FS_Subset DEF Held
<1>2. EquityAt(s, price) = s.cash + sums[S]
  BY Zenon DEF EquityAt, MapThenSumSet, MapThenFoldSet, First
<1>3. \A a \in Assets : w[a] \in Int
  BY AssetNumbers
<1>4. \A a \in Assets \ S : w[a] = 0
  BY DEF Worth
<1>5. \A a \in S : w[a] = s.quantity[a] * price[a]
  BY <1>1 DEF Worth
<1> HIDE DEF w
<1>6. sums[S] = SumOver(S, w)
  <2>1. PICK g : SetSums(SUBSET S, w, g)
    BY <1>1, FoldsExist
  <2>2. ASSUME NEW t \in SUBSET S, t # {}
        PROVE  w[First(t)] = s.quantity[First(t)] * price[First(t)]
    <3>1. First(t) \in S
      BY <2>2 DEF First
    <3> QED BY <1>5, <3>1
  <2> HIDE DEF S
  <2>3. ASSUME NEW h
        PROVE  G(h) <=> SetSums(SUBSET S, w, h)
    BY <2>2 DEF SetSums
  <2>4. G(g)
    BY <2>1, <2>3
  <2>5. G(sums)
    BY <2>4, Zenon
  <2>6. SetSums(SUBSET S, w, sums)
    BY <2>3, <2>5
  <2> HIDE DEF sums
  <2> QED BY <1>1, <2>6, SumOverIs
<1> HIDE DEF sums
<1>7. SumOver(Assets, w) = SumOver(S, w)
  <2> HIDE DEF S
  <2> QED BY <1>1, <1>3, <1>4, SumOfPart
<1> QED BY <1>2, <1>6, <1>7 DEF w

Targets(total, chosen) == SumOver(Assets, [a \in Assets |-> Target(total, chosen, a)])

\* The targets add up to the invested fraction of the equity at most.
LEMMA TargetsAddUp ==
  ASSUME NEW s, NEW data, NEW price, NEW chosen, DecisionData(s, data, price, chosen),
         NEW total, total = EquityAt(s, price)
  PROVE  Targets(total, chosen) \in Nat /\ 100 * Targets(total, chosen) <= InvestedPercent * total
<1> DEFINE v == [a \in Assets |-> Target(total, chosen, a)]
           n == Cardinality(chosen)
           t == TargetNotional(total, n)
<1>1. IsFiniteSet(Assets) /\ chosen \in SUBSET Assets /\ IsFiniteSet(chosen) /\ total \in Nat
  BY LedgerAssumption, FS_Subset, EquityBounds DEF DecisionData
<1>2. n \in Nat /\ (n = 0 <=> chosen = {})
  BY <1>1, FS_CardinalityType, FS_EmptySet
<1>3. InvestedPercent \in Nat /\ AssetPercent \in Nat
  BY RebalanceAssumption
<1>0. Targets(total, chosen) = SumOver(Assets, v)
  BY DEF Targets
<1>4. CASE n = 0
  <2>1. \A a \in Assets : v[a] = IF a \in {} THEN 0 ELSE 0
    BY <1>2, <1>4 DEF Target
  <2>2. SumOver(Assets, v) = 0 * Cardinality({}) /\ Cardinality({}) \in Nat
    BY <1>1, <2>1, SumOfEqual
  <2>3. InvestedPercent * total \in Nat
    BY <1>1, <1>3, ProductType
  <2> QED BY <1>0, <2>2, <2>3
<1>5. CASE n > 0
  <2> DEFINE m == Min({InvestedPercent, AssetPercent * n})
  <2>1. m \in Nat /\ m <= InvestedPercent
    <3>1. AssetPercent * n \in Nat
      BY <1>2, <1>3, ProductType
    <3> QED BY <1>3, <3>1, MinOfTwo
  <2>2. t = (m * total) \div (100 * n)
    BY DEF TargetNotional
  <2> HIDE DEF m, n, t
  <2>3. m * total \in Nat /\ 100 * n \in Nat /\ 100 * n > 0
    BY <1>1, <1>2, <1>5, <2>1, ProductType
  <2>4. t \in Nat /\ (100 * n) * t <= m * total
    BY <2>2, <2>3, QuotientRounds
  <2>5. m * total <= InvestedPercent * total
    BY <1>1, <1>3, <2>1, ProductGrows
  <2>6. \A a \in Assets : v[a] = IF a \in chosen THEN t ELSE 0
    BY DEF Target, t, n
  <2>7. SumOver(Assets, v) = t * n
    BY <1>1, <2>4, <2>6, SumOfEqual DEF n
  <2>8. (100 * n) * t = 100 * (t * n) /\ t * n \in Nat
    BY <1>2, <2>4, ProductType
  <2>9. InvestedPercent * total \in Nat
    BY <1>1, <1>3, ProductType
  <2> HIDE DEF v
  <2> QED BY <1>0, <2>3, <2>4, <2>5, <2>7, <2>8, <2>9
<1> QED BY <1>2, <1>4, <1>5

\* The dues of a plan against its equity.
LEMMA DuesBound ==
  ASSUME NEW percent \in 0 .. 100, TradingLoses(percent),
         NEW s, NEW data, NEW price, NEW chosen, DecisionData(s, data, price, chosen),
         NEW blocked, NEW total, total = EquityAt(s, price),
         NEW plan, plan = Plan(s, price, total, chosen, blocked),
         NEW room \in Nat, 100 * MinimumOrderNotional <= room, RebalancePercent * total <= room
  PROVE  /\ Cardinality(KeptBy(s, plan)) \in Nat /\ total - s.cash \in Nat /\ Dues(plan) \in Int
         /\ 0 <= 100 * Dues(plan) - (100 - percent) * (total - s.cash)
                 + (100 + percent) * Targets(total, chosen) + room * Cardinality(KeptBy(s, plan))
<1> SUFFICES ASSUME NEW kept, kept = Cardinality(KeptBy(s, plan)),
                    NEW worth, worth = total - s.cash,
                    NEW targets, targets = Targets(total, chosen)
             PROVE  /\ kept \in Nat /\ worth \in Nat /\ Dues(plan) \in Int
                    /\ 0 <= 100 * Dues(plan) - (100 - percent) * worth + (100 + percent) * targets
                            + room * kept
  OBVIOUS
<1> DEFINE due == [a \in Assets |-> Due(plan, a)]
           has == [a \in Assets |-> Worth(s, price, a)]
           aim == [a \in Assets |-> Target(total, chosen, a)]
           off == [a \in Assets |-> IF a \in KeptBy(s, plan) THEN room ELSE 0]
           due100 == [a \in Assets |-> 100 * due[a]]
           less == [a \in Assets |-> (percent - 100) * has[a]]
           more == [a \in Assets |-> (100 + percent) * aim[a]]
           first == [a \in Assets |-> due100[a] + less[a]]
           second == [a \in Assets |-> more[a] + off[a]]
           all == [a \in Assets |-> first[a] + second[a]]
<1>1. /\ IsFiniteSet(Assets) /\ KeptBy(s, plan) \in SUBSET Assets
      /\ plan \in SUBSET Orders /\ total \in Nat /\ s.cash \in Nat
  BY LedgerAssumption, PlanBounds, EquityBounds DEF DecisionData, KeptBy, Held, Snapshots
<1>2. ASSUME NEW a \in Assets
      PROVE  /\ due[a] \in Int /\ has[a] \in Nat /\ aim[a] \in Nat /\ off[a] \in Nat
             /\ due100[a] = 100 * due[a] /\ less[a] = (percent - 100) * has[a]
             /\ more[a] = (100 + percent) * aim[a]
             /\ off[a] = IF a \in KeptBy(s, plan) THEN room ELSE 0
             /\ 0 <= 100 * due[a] - (100 - percent) * has[a] + (100 + percent) * aim[a] + off[a]
  <2>1. due[a] \in Int /\ has[a] \in Nat /\ aim[a] \in Nat
    BY <1>1, DueType, AssetNumbers
  <2>2. 0 <= 100 * Due(plan, a) - (100 - percent) * Worth(s, price, a)
             + (100 + percent) * Target(total, chosen, a)
             + (IF a \in KeptBy(s, plan) THEN room ELSE 0)
    BY AssetPays
  <2> QED BY <2>1, <2>2
<1>3. \A a \in Assets : /\ first[a] = due100[a] + less[a] /\ second[a] = more[a] + off[a]
                        /\ all[a] = first[a] + second[a]
  OBVIOUS
<1>4. /\ Dues(plan) = SumOver(Assets, due) /\ targets = SumOver(Assets, aim)
      /\ total = s.cash + SumOver(Assets, has)
  BY EquityIs DEF Dues, Targets
<1> HIDE DEF due, has, aim, off, due100, less, more, first, second, all
<1>5. /\ SumOver(Assets, due) \in Int /\ SumOver(Assets, has) \in Nat
      /\ SumOver(Assets, aim) \in Nat
  BY <1>1, <1>2, SumOverLaws, SumOverBounds
<1>6. SumOver(Assets, due100) = 100 * SumOver(Assets, due)
  BY <1>1, <1>2, SumOfMultiple
<1>7. SumOver(Assets, less) = (percent - 100) * SumOver(Assets, has)
  <2>1. percent - 100 \in Int
    OBVIOUS
  <2> QED BY <1>1, <1>2, <2>1, SumOfMultiple
<1>8. SumOver(Assets, more) = (100 + percent) * SumOver(Assets, aim)
  <2>1. 100 + percent \in Int
    OBVIOUS
  <2> QED BY <1>1, <1>2, <2>1, SumOfMultiple
<1>9. SumOver(Assets, off) = room * kept /\ kept \in Nat
  BY <1>1, <1>2, SumOfEqual
<1>10. \A a \in Assets : /\ due100[a] \in Int /\ less[a] \in Int /\ more[a] \in Int
                         /\ off[a] \in Int /\ first[a] \in Int /\ second[a] \in Int
  <2>1. \A x, y \in Int : x * y \in Int
    OBVIOUS
  <2>2. \A a \in Assets : due100[a] \in Int /\ less[a] \in Int /\ more[a] \in Int /\ off[a] \in Int
    BY <1>2, <2>1
  <2> QED BY <1>3, <2>2
<1>11. SumOver(Assets, first) = SumOver(Assets, due100) + SumOver(Assets, less)
  BY <1>1, <1>3, <1>10, SumOfBoth
<1>12. SumOver(Assets, second) = SumOver(Assets, more) + SumOver(Assets, off)
  BY <1>1, <1>3, <1>10, SumOfBoth
<1>13. SumOver(Assets, all) = SumOver(Assets, first) + SumOver(Assets, second)
  BY <1>1, <1>3, <1>10, SumOfBoth
<1>14. SumOver(Assets, all) \in Nat
  <2>1. ASSUME NEW a \in Assets PROVE all[a] \in Nat
    <3> DEFINE x == (100 - percent) * has[a]
               y == (100 + percent) * aim[a]
    <3>1. x \in Nat /\ y \in Nat /\ (percent - 100) * has[a] = -x
      BY <1>2, ProductType
    <3>2. all[a] = 100 * due[a] + (-x) + (y + off[a])
      BY <1>2, <1>3, <3>1
    <3>3. 0 <= 100 * due[a] - x + y + off[a]
      BY <1>2
    <3> HIDE DEF x, y
    <3> QED BY <1>2, <3>1, <3>2, <3>3
  <2> QED BY <1>1, <2>1, SumOverBounds
<1>15. worth = SumOver(Assets, has)
  BY <1>1, <1>4, <1>5
<1>16. (percent - 100) * worth = -((100 - percent) * worth) /\ (100 - percent) * worth \in Nat
       /\ (100 + percent) * targets \in Nat /\ room * kept \in Nat
  BY <1>4, <1>5, <1>9, <1>15, ProductType
<1> DEFINE w == (100 - percent) * worth
           t == (100 + percent) * targets
           k == room * kept
<1>17. /\ SumOver(Assets, less) = -w /\ SumOver(Assets, more) = t /\ SumOver(Assets, off) = k
       /\ w \in Nat /\ t \in Nat /\ k \in Nat
  BY <1>4, <1>7, <1>8, <1>9, <1>15, <1>16
<1> HIDE DEF w, t, k
<1>18. 0 <= 100 * Dues(plan) - w + t + k
  BY <1>4, <1>5, <1>6, <1>11, <1>12, <1>13, <1>14, <1>17
<1> QED BY <1>4, <1>5, <1>9, <1>15, <1>18 DEF w, t, k

\* The cash of a covered plan pays for all its orders.
LEMMA PlanIsFunded ==
  ASSUME NEW percent \in 0 .. 100, TradingLoses(percent),
         NEW s, NEW data, NEW price, NEW chosen, DecisionData(s, data, price, chosen),
         NEW blocked, NEW total, total = EquityAt(s, price),
         NEW plan, plan = Plan(s, price, total, chosen, blocked),
         CoveredBy(s, plan, total, percent)
  PROVE  s.cash + Dues(plan) \in Nat
<1>1. plan \in SUBSET Orders /\ s.cash \in Nat /\ total \in Nat
  BY PlanBounds, EquityBounds DEF DecisionData, Snapshots
<1>2. CASE \A o \in plan : o.side = "SELL"
  <2>1. Dues(plan) \in Int /\ Dues(plan) >= 0
    BY <1>1, <1>2, DuesSign
  <2> QED BY <1>1, <2>1
<1>3. CASE \E o \in plan : o.side = "BUY"
  <2> DEFINE kept == Cardinality(KeptBy(s, plan))
             lowest == 100 * MinimumOrderNotional
             share == RebalancePercent * total
             room == IF lowest <= share THEN share ELSE lowest
             reserve == (100 * (100 - percent) - (100 + percent) * InvestedPercent) * total
             worth == total - s.cash
             targets == Targets(total, chosen)
             dues == Dues(plan)
  <2>1. 100 * kept * lowest <= reserve /\ 100 * kept * share <= reserve
    BY <1>3 DEF CoveredBy
  <2>2. lowest \in Nat /\ share \in Nat /\ InvestedPercent \in Nat
    BY <1>1, RebalanceAssumption, ProductType
  <2>3. room \in Nat /\ lowest <= room /\ share <= room /\ room \in {lowest, share}
    <3> HIDE DEF lowest, share
    <3> QED BY <2>2
  <2>4. targets \in Nat /\ 100 * targets <= InvestedPercent * total
    BY TargetsAddUp
  <2> HIDE DEF room
  <2>5. /\ kept \in Nat /\ worth \in Nat /\ dues \in Int
        /\ 0 <= 100 * dues - (100 - percent) * worth + (100 + percent) * targets + room * kept
    BY <2>3, DuesBound
  <2>6. 100 * kept * room <= reserve
    BY <2>1, <2>3
  <2>7. total = s.cash + worth
    BY <1>1
  <2> HIDE DEF kept, lowest, share, reserve, worth, targets, dues
  <2> DEFINE t == (100 + percent) * targets
             i == (100 + percent) * (InvestedPercent * total)
             k == room * kept
             w == (100 - percent) * worth
             c == (100 - percent) * s.cash
  <2>8. t \in Nat /\ i \in Nat /\ k \in Nat /\ w \in Nat /\ c \in Nat
    BY <1>1, <2>2, <2>3, <2>4, <2>5, ProductType
  <2>9. 100 * t <= i
    <3>1. (100 + percent) * (100 * targets) <= (100 + percent) * (InvestedPercent * total)
      BY <1>1, <2>2, <2>4, ProductGrows, ProductType
    <3>2. (100 + percent) * (100 * targets) = 100 * t
      BY <2>4
    <3> QED BY <3>1, <3>2
  <2>10. 100 * kept * room = 100 * k
    BY <2>3, <2>5
  <2>11. reserve = 100 * (c + w) - i
    <3>1. (100 - percent) * total = c + w
      <4>1. \A x, y \in Nat : (100 - percent) * (x + y) = (100 - percent) * x + (100 - percent) * y
        OBVIOUS
      <4>2. (100 - percent) * (s.cash + worth) = c + w
        BY <1>1, <2>5, <4>1, Zenon
      <4> QED BY <2>7, <4>2, Zenon
    <3>2. (100 * (100 - percent)) * total = 100 * ((100 - percent) * total)
      BY <1>1
    <3>3. ((100 + percent) * InvestedPercent) * total = i
      BY <1>1, <2>2
    <3>4. reserve = (100 * (100 - percent)) * total - ((100 + percent) * InvestedPercent) * total
      BY <1>1, <2>2 DEF reserve
    <3> QED BY <3>1, <3>2, <3>3, <3>4
  <2>12. c <= 100 * s.cash
    BY <1>1, ProductGrows
  <2>13. 0 <= 100 * dues - w + t + k
    BY <2>5
  <2> HIDE DEF t, i, k, w, c
  <2>14. 0 <= s.cash + dues
    BY <1>1, <2>5, <2>6, <2>8, <2>9, <2>10, <2>11, <2>12, <2>13
  <2> QED BY <1>1, <2>5, <2>14 DEF dues
<1>4. \A o \in plan : o.side = "BUY" \/ o.side = "SELL"
  BY <1>1 DEF Orders, Sides
<1> QED BY <1>2, <1>3, <1>4
----------------------------------------------------------------------------
(* The scheduled lane alone: covered plans are funded to the end *)

\* The plan of a run is covered.
Covered(r, percent) == CoveredBy(seen[r], planned[r], equity[r], percent)

\* The account exists for whoever runs on it.
AccountIsThere ==
  /\ portfolio[Account] = NoPortfolio \/ portfolio[Account].identity = Identity
  /\ \A r \in Runs : at[r] # "idle" => portfolio[Account].identity = Identity

\* The cash that a run has read is still there when it decides.
CashIsAsSeen ==
  \A r \in Runs : at[r] \in {"reading", "read"} => seen[r].cash = portfolio[Account].cash

\* The orders to do of a covered plan are funded by the cash and one another, and a
\* SELL is of a position that the run has seen.
OrdersAreFunded(percent) ==
  \A r \in Runs : at[r] = "executing" =>
    /\ \A o \in todo[r] : /\ o.quantity > 0
                          /\ o.side = "SELL" => o.quantity <= seen[r].quantity[o.asset]
    /\ Covered(r, percent) => portfolio[Account].cash + Dues(todo[r]) \in Nat

\* A plan that was rejected was not covered.
RejectedUncovered(percent) == \A r \in Runs : at[r] = "rejected" => ~Covered(r, percent)

Funded(percent) ==
  /\ AccountIsThere /\ CashIsAsSeen /\ OrdersAreFunded(percent) /\ RejectedUncovered(percent)

\* A run moves on where it neither reads nor plans nor trades.
LEMMA MoveKeepsFunded ==
  ASSUME NEW percent, Sound, Scheduled, Funded(percent), NEW r \in Runs, at[r] \in Active,
         NEW point \in {"failed", "crashed", "saving", "done"},
         at' = [at EXCEPT ![r] = point],
         UNCHANGED <<portfolio, seen, planned, todo, equity>>
  PROVE  Funded(percent)'
<1>1. \A q \in Runs : at'[q] = IF q = r THEN point ELSE at[q]
  BY ScheduledTypes
<1>2. AccountIsThere'
  BY <1>1 DEF Funded, AccountIsThere, Active
<1>3. CashIsAsSeen'
  BY <1>1 DEF Funded, CashIsAsSeen
<1>4. OrdersAreFunded(percent)'
  BY <1>1 DEF Funded, OrdersAreFunded, Covered
<1>5. RejectedUncovered(percent)'
  BY <1>1 DEF Funded, RejectedUncovered, Covered
<1> QED BY <1>2, <1>3, <1>4, <1>5 DEF Funded

\* The clock, the creation of the portfolio and stuttering.
LEMMA QuietKeepsFunded ==
  ASSUME NEW percent, Sound, Funded(percent),
         UNCHANGED runVars,
         UNCHANGED portfolio \/ Create(Account, Identity, InitialCash)
  PROVE  Funded(percent)'
<1> USE DEF runVars
<1>1. CASE UNCHANGED portfolio
  <2>1. AccountIsThere' /\ CashIsAsSeen'
    BY <1>1 DEF Funded, AccountIsThere, CashIsAsSeen
  <2>2. OrdersAreFunded(percent)'
    BY <1>1 DEF Funded, OrdersAreFunded, Covered
  <2>3. RejectedUncovered(percent)'
    BY DEF Funded, RejectedUncovered, Covered
  <2> QED BY <2>1, <2>2, <2>3 DEF Funded
<1>2. CASE Create(Account, Identity, InitialCash)
  <2>1. Identity # "none"
    BY RebalanceAssumption, LedgerAssumption
  <2>2. \A r \in Runs : at[r] = "idle"
    BY <1>2, <2>1 DEF Funded, AccountIsThere, Create, NoPortfolio
  <2>3. portfolio'[Account].identity = Identity
    BY <1>2, RebalanceAssumption DEF Create, Sound, TypeOK, LedgerTypeOK
  <2>4. AccountIsThere' /\ CashIsAsSeen'
    BY <2>2, <2>3 DEF AccountIsThere, CashIsAsSeen
  <2>5. OrdersAreFunded(percent)' /\ RejectedUncovered(percent)'
    BY <2>2 DEF OrdersAreFunded, RejectedUncovered
  <2> QED BY <2>4, <2>5 DEF Funded
<1> QED BY <1>1, <1>2

\* A run that begins reads the cash of the account, which exists.
LEMMA BeginKeepsFunded ==
  ASSUME NEW percent, Sound, Scheduled, Funded(percent), NEW r \in Runs, BeginJob(r)
  PROVE  Funded(percent)'
<1>1. /\ at[r] = "idle" /\ at' = [at EXCEPT ![r] = "reading"]
      /\ portfolio[Account] # NoPortfolio
      /\ seen' = [seen EXCEPT ![r].cash = portfolio[Account].cash]
      /\ UNCHANGED <<portfolio, todo, planned, equity>>
  BY DEF BeginJob, Begin, Goto, ledgerVars
<1>2. \A q \in Runs : at[q] \notin Active
  BY <1>1 DEF BeginJob, Scheduled, JobsFollow, Active
<1>3. /\ \A q \in Runs \ {r} : at'[q] = at[q] /\ seen'[q] = seen[q]
      /\ at'[r] = "reading" /\ seen'[r].cash = portfolio[Account].cash
  BY <1>1, ScheduledTypes DEF Snapshots
<1>4. AccountIsThere'
  BY <1>1, <1>3 DEF Funded, AccountIsThere
<1>5. CashIsAsSeen'
  BY <1>1, <1>2, <1>3 DEF CashIsAsSeen, Active
<1>6. OrdersAreFunded(percent)'
  <2>1. \A q \in Runs : at'[q] # "executing"
    BY <1>2, <1>3 DEF Active
  <2> QED BY <2>1 DEF OrdersAreFunded
<1>7. RejectedUncovered(percent)'
  BY <1>1, <1>3 DEF Funded, RejectedUncovered, Covered
<1> QED BY <1>4, <1>5, <1>6, <1>7 DEF Funded

\* A run reads the positions.
LEMMA ReadKeepsFunded ==
  ASSUME NEW percent, Sound, Scheduled, Funded(percent), NEW r \in Runs, ReadPositions(r)
  PROVE  Funded(percent)'
<1>1. /\ at[r] = "reading" /\ at' = [at EXCEPT ![r] = "read"]
      /\ \E f : seen' = [seen EXCEPT ![r].quantity = f]
      /\ UNCHANGED <<portfolio, todo, planned, equity>>
  BY DEF ReadPositions, Goto, ledgerVars
<1>2. \A q \in Runs \ {r} : at[q] \notin Active
  BY <1>1, OneActive DEF Active, Scheduled
<1>3. /\ \A q \in Runs \ {r} : at'[q] = at[q] /\ seen'[q] = seen[q]
      /\ at'[r] = "read" /\ seen'[r].cash = seen[r].cash
  BY <1>1, ScheduledTypes DEF Snapshots
<1>4. AccountIsThere'
  BY <1>1, <1>3 DEF Funded, AccountIsThere
<1>5. CashIsAsSeen'
  BY <1>1, <1>2, <1>3 DEF Funded, CashIsAsSeen, Active
<1>6. OrdersAreFunded(percent)'
  <2>1. \A q \in Runs : at'[q] # "executing"
    BY <1>2, <1>3 DEF Active
  <2> QED BY <2>1 DEF OrdersAreFunded
<1>7. RejectedUncovered(percent)'
  BY <1>1, <1>3 DEF Funded, RejectedUncovered, Covered
<1> QED BY <1>4, <1>5, <1>6, <1>7 DEF Funded

\* A run decides: the cash it has read is the account's, and so its plan is funded.
LEMMA DecideKeepsFunded ==
  ASSUME NEW percent \in 0 .. 100, TradingLoses(percent),
         Sound, Scheduled, Funded(percent), NEW r \in Runs, Decide(r)
  PROVE  Funded(percent)'
<1>1. /\ at[r] = "read" /\ UNCHANGED <<portfolio, seen>>
      /\ \/ at' = [at EXCEPT ![r] = "saving"] /\ UNCHANGED todo
         \/ at' = [at EXCEPT ![r] = "failed"] /\ UNCHANGED todo
         \/ at' = [at EXCEPT ![r] = "executing"] /\ todo' = [todo EXCEPT ![r] = planned'[r]]
  BY DEF Decide, DecideOn, Goto, ledgerVars
<1>2. PICK data, price, pass, chosen, blocked :
        DecidesPlan(r, data, price, pass, chosen, blocked)
  BY DecideStoresPlan
<1> DEFINE s == seen[r]
           total == EquityAt(s, price)
           plan == Plan(s, price, total, chosen, blocked)
<1>3. DecisionData(s, data, price, chosen)
  BY <1>2, ScheduledTypes DEF DecidesPlan, DecisionData
<1>4. equity' = [equity EXCEPT ![r] = total] /\ planned' = [planned EXCEPT ![r] = plan]
  BY <1>2 DEF DecidesPlan
<1>5. \A q \in Runs \ {r} : at[q] \notin Active
  BY <1>1, OneActive DEF Active, Scheduled
<1>6. \A o \in plan : /\ o.quantity > 0
                      /\ o.side = "SELL" => o.quantity <= s.quantity[o.asset]
  BY <1>3, OrderFits
<1>7. CoveredBy(s, plan, total, percent) => s.cash + Dues(plan) \in Nat
  BY <1>3, PlanIsFunded
<1>8. s.cash = portfolio[Account].cash
  BY <1>1 DEF Funded, CashIsAsSeen
<1> HIDE DEF s, plan, total
<1>9. /\ \A q \in Runs \ {r} : /\ at'[q] = at[q] /\ todo'[q] = todo[q]
                               /\ planned'[q] = planned[q] /\ equity'[q] = equity[q]
      /\ planned'[r] = plan /\ equity'[r] = total
      /\ at'[r] \in {"saving", "failed", "executing"}
      /\ at'[r] = "executing" => todo'[r] = plan
  <2>1. equity \in [Runs -> Nat]
    BY DEF Sound, TypeOK, RunsTypeOK
  <2> QED BY <1>1, <1>4, <2>1, ScheduledTypes
<1>10. AccountIsThere'
  BY <1>1, <1>9 DEF Funded, AccountIsThere
<1>11. CashIsAsSeen'
  BY <1>5, <1>9 DEF CashIsAsSeen, Active
<1>12. OrdersAreFunded(percent)'
  <2>1. \A q \in Runs : at'[q] = "executing" => q = r
    BY <1>5, <1>9 DEF Active
  <2>2. ASSUME at'[r] = "executing"
        PROVE  /\ \A o \in todo'[r] : /\ o.quantity > 0
                                      /\ o.side = "SELL" => o.quantity <= seen'[r].quantity[o.asset]
               /\ Covered(r, percent)' => portfolio'[Account].cash + Dues(todo'[r]) \in Nat
    <3>1. todo'[r] = plan /\ seen'[r] = s /\ portfolio'[Account].cash = s.cash
      BY <1>1, <1>8, <1>9, <2>2 DEF s
    <3>2. Covered(r, percent)' => CoveredBy(s, plan, total, percent)
      BY <1>9, <3>1 DEF Covered
    <3> QED BY <1>6, <1>7, <3>1, <3>2
  <2> QED BY <2>1, <2>2 DEF OrdersAreFunded
<1>13. RejectedUncovered(percent)'
  BY <1>1, <1>9 DEF Funded, RejectedUncovered, Covered
<1> QED BY <1>10, <1>11, <1>12, <1>13 DEF Funded

\* An order of a covered plan is accepted.
LEMMA CoveredIsAccepted ==
  ASSUME NEW percent, Sound, Scheduled, Funded(percent), NEW r \in Runs, at[r] = "executing",
         Covered(r, percent), NEW o \in NextOrders(r)
  PROVE  Accepts(Intent(r, o), Report(o))
<1>1. o \in todo[r] /\ todo[r] \in SUBSET Orders /\ OnePerAsset(todo[r])
  BY ScheduledTypes DEF NextOrders, Scheduled, PlanIsTold, OnePerAsset
<1>2. /\ o.quantity > 0 /\ portfolio[Account].cash + Dues(todo[r]) \in Nat
      /\ o.side = "SELL" => o.quantity <= positions[Account][o.asset].quantity
  BY <1>1 DEF Funded, OrdersAreFunded, Scheduled, PlanIsTold
<1>3. portfolio[Account].identity = Identity
  BY DEF Funded, AccountIsThere
<1>4. o \in Orders /\ o.quantity \in Nat /\ o.side \in Sides
  BY <1>1 DEF Orders
<1>5. /\ Intent(r, o).side = o.side /\ Intent(r, o).quantity = o.quantity
      /\ Intent(r, o).portfolio = Account /\ Intent(r, o).identity = Identity
      /\ Intent(r, o).asset = o.asset
      /\ Report(o).side = o.side /\ Report(o).quantity = o.quantity
  BY DEF Intent, Report
<1>6. CASE o.side = "BUY"
  <2>1. \A q \in todo[r] \ {o} : q.side = "BUY"
    BY <1>6 DEF NextOrders
  <2>2. Dues(todo[r] \ {o}) \in Int /\ Dues(todo[r] \ {o}) <= 0
    <3> DEFINE left == todo[r] \ {o}
    <3>1. left \in SUBSET Orders /\ \A q \in left : q.side = "BUY"
      BY <1>1, <2>1
    <3> HIDE DEF left
    <3>2. Dues(left) \in Int /\ Dues(left) <= 0
      BY <3>1, DuesSign
    <3> QED BY <3>2 DEF left
  <2>3. Dues(todo[r]) = CashFlow(Report(o)) + Dues(todo[r] \ {o})
    BY <1>1, DuesMove
  <2>4. /\ CashFlow(Report(o)) \in Int
        /\ CashFlow(Report(o)) = -(Notional(Report(o)) + Report(o).fee)
    BY <1>4, <1>6, OrderFlow
  <2>5. Notional(Report(o)) + Report(o).fee \in Int
    <3>1. Report(o) \in Reports
      BY <1>4, ReportType
    <3>2. Report(o).quantity \in Nat /\ Report(o).price \in Nat /\ Report(o).fee \in Nat
      BY <3>1 DEF Reports
    <3> QED BY <3>2, ProductType DEF Notional
  <2>6. portfolio[Account].cash \in Nat
    BY RebalanceAssumption DEF Sound, TypeOK, LedgerTypeOK, PortfolioRow
  <2>7. Notional(Report(o)) + Report(o).fee <= portfolio[Account].cash
    BY <1>2, <2>2, <2>3, <2>4, <2>5, <2>6
  <2> QED BY <1>2, <1>3, <1>4, <1>5, <1>6, <2>7 DEF Accepts
<1>7. CASE o.side = "SELL"
  BY <1>2, <1>3, <1>4, <1>5, <1>7 DEF Accepts
<1> QED BY <1>4, <1>6, <1>7 DEF Sides

\* A fill takes its part from what is due; an order that is refused was not covered.
LEMMA ExecuteKeepsFunded ==
  ASSUME NEW percent, Sound, Scheduled, Funded(percent), NEW r \in Runs, ExecuteOrder(r)
  PROVE  Funded(percent)'
<1>1. PICK o \in NextOrders(r) :
        \/ /\ \/ ApplyExecution(Intent(r, o), Report(o), clock)
              \/ Duplicate(Intent(r, o)) /\ UNCHANGED ledgerVars
           /\ todo' = [todo EXCEPT ![r] = @ \ {o}]
           /\ UNCHANGED at
        \/ /\ ~Approves(r, o) \/ ~Accepts(Intent(r, o), Report(o))
           /\ Abandon(r, o)
  BY DEF ExecuteOrder
<1>2. /\ at[r] = "executing" /\ o \in todo[r]
      /\ UNCHANGED <<seen, planned, equity>>
  BY DEF ExecuteOrder, NextOrders
<1>3. ~Duplicate(Intent(r, o))
  <2>1. Intent(r, o).id = <<command[r].asOf, o.asset, o.side>>
    BY DEF Intent
  <2> QED BY <1>2, <2>1 DEF Duplicate, Scheduled, PlanIsTold
<1>4. \A q \in Runs \ {r} : at[q] \notin Active
  BY <1>2, OneActive DEF Active, Scheduled
<1>5. todo[r] \in SUBSET Orders /\ OnePerAsset(todo[r])
  BY <1>2, ScheduledTypes DEF Scheduled, PlanIsTold, OnePerAsset
<1>6. CASE ApplyExecution(Intent(r, o), Report(o), clock) /\ UNCHANGED at
           /\ todo' = [todo EXCEPT ![r] = @ \ {o}]
  <2>1. portfolio' = [portfolio EXCEPT ![Account].cash = CashAfter(@, Intent(r, o), Report(o))]
    BY <1>6 DEF ApplyExecution, Intent
  <2>2. portfolio \in [Portfolios -> PortfolioRow] /\ Account \in Portfolios
    BY RebalanceAssumption DEF Sound, TypeOK, LedgerTypeOK
  <2>3. /\ portfolio'[Account].identity = portfolio[Account].identity
        /\ portfolio'[Account].cash =
             CashAfter(portfolio[Account].cash, Intent(r, o), Report(o))
        /\ portfolio[Account].cash \in Nat
    BY <2>1, <2>2 DEF PortfolioRow
  <2>4. portfolio'[Account].cash = portfolio[Account].cash + CashFlow(Report(o))
    <3>1. Report(o) \in Reports /\ Report(o).side = o.side /\ Intent(r, o).side = o.side
      BY <1>2, <1>5, ReportType DEF Report, Intent
    <3>2. Notional(Report(o)) \in Nat /\ Report(o).fee \in Nat
      <4>1. Report(o).quantity \in Nat /\ Report(o).price \in Nat /\ Report(o).fee \in Nat
        BY <3>1 DEF Reports
      <4> QED BY <4>1, ProductType DEF Notional
    <3> QED BY <2>3, <3>1, <3>2 DEF CashAfter, CashFlow
  <2>5. AccountIsThere'
    BY <1>2, <1>6, <2>3 DEF Funded, AccountIsThere
  <2>6. CashIsAsSeen'
    BY <1>2, <1>4, <1>6 DEF CashIsAsSeen, Active
  <2>7. OrdersAreFunded(percent)'
    <3>1. todo'[r] = todo[r] \ {o}
      BY <1>6, ScheduledTypes
    <3>2. \A q \in todo[r] : /\ q.quantity > 0
                             /\ q.side = "SELL" => q.quantity <= seen[r].quantity[q.asset]
      BY <1>2 DEF Funded, OrdersAreFunded
    <3>3. ASSUME Covered(r, percent)
          PROVE  portfolio'[Account].cash + Dues(todo[r] \ {o}) \in Nat
      <4>1. portfolio[Account].cash + Dues(todo[r]) \in Nat
        BY <1>2, <3>3 DEF Funded, OrdersAreFunded
      <4>2. /\ Dues(todo[r]) \in Int /\ Dues(todo[r] \ {o}) \in Int
            /\ Dues(todo[r]) = CashFlow(Report(o)) + Dues(todo[r] \ {o})
        BY <1>2, <1>5, DuesMove
      <4>3. CashFlow(Report(o)) \in Int
        BY <1>2, <1>5, OrderFlow
      <4> QED BY <2>3, <2>4, <4>1, <4>2, <4>3
    <3>4. Covered(r, percent)' <=> Covered(r, percent)
      BY <1>2 DEF Covered
    <3>5. \A q \in Runs : at'[q] = "executing" => q = r
      BY <1>4, <1>6 DEF Active
    <3> QED BY <1>2, <3>1, <3>2, <3>3, <3>4, <3>5 DEF OrdersAreFunded
  <2>8. RejectedUncovered(percent)'
    BY <1>2, <1>6 DEF Funded, RejectedUncovered, Covered
  <2> QED BY <2>5, <2>6, <2>7, <2>8 DEF Funded
<1>7. CASE /\ ~Approves(r, o) \/ ~Accepts(Intent(r, o), Report(o))
           /\ Abandon(r, o)
  <2>1. Approves(r, o)
    BY <1>2 DEF Sound, PlansAreApproved
  <2>2. ~Covered(r, percent)
    BY <1>2, <1>7, <2>1, CoveredIsAccepted
  <2>3. at' = [at EXCEPT ![r] = "rejected"] /\ UNCHANGED <<portfolio, todo>>
    BY <1>7 DEF Abandon, Goto, ledgerVars
  <2>4. \A q \in Runs : at'[q] = IF q = r THEN "rejected" ELSE at[q]
    BY <2>3, ScheduledTypes
  <2>5. AccountIsThere'
    BY <1>2, <2>3, <2>4 DEF Funded, AccountIsThere
  <2>6. CashIsAsSeen'
    BY <1>2, <2>3, <2>4 DEF Funded, CashIsAsSeen
  <2>7. OrdersAreFunded(percent)'
    BY <1>2, <2>3, <2>4 DEF Funded, OrdersAreFunded, Covered
  <2>8. RejectedUncovered(percent)'
    BY <1>2, <2>2, <2>4 DEF Funded, RejectedUncovered, Covered
  <2> QED BY <2>5, <2>6, <2>7, <2>8 DEF Funded
<1> QED BY <1>1, <1>3, <1>6, <1>7

\* In the scheduled lane alone every rejected plan was one that is not covered.
LEMMA AlwaysFunded ==
  ASSUME ClientAsOf = {}, NEW percent \in 0 .. 100, TradingLoses(percent)
  PROVE  Spec => []Funded(percent)
<1>1. Init => Funded(percent)
  <2> SUFFICES ASSUME Init PROVE Funded(percent)
    OBVIOUS
  <2>1. portfolio[Account] = NoPortfolio /\ \A r \in Runs : at[r] = "idle"
    BY RebalanceAssumption DEF Init, LedgerInit
  <2>2. AccountIsThere /\ CashIsAsSeen
    BY <2>1 DEF AccountIsThere, CashIsAsSeen
  <2>3. OrdersAreFunded(percent) /\ RejectedUncovered(percent)
    BY <2>1 DEF OrdersAreFunded, RejectedUncovered
  <2> QED BY <2>2, <2>3 DEF Funded
<1>2. Sound /\ Scheduled /\ Funded(percent) /\ [Next]_vars => Funded(percent)'
  <2> SUFFICES ASSUME Sound, Scheduled, Funded(percent), [Next]_vars PROVE Funded(percent)'
    OBVIOUS
  <2>1. ASSUME UNCHANGED vars \/ Tick \/ Bootstrap PROVE Funded(percent)'
    <3>1. /\ UNCHANGED runVars
          /\ UNCHANGED portfolio \/ Create(Account, Identity, InitialCash)
      BY <2>1 DEF vars, Tick, Bootstrap, ledgerVars
    <3> QED BY <3>1, QuietKeepsFunded
  <2>2. ASSUME NEW r \in Runs, CannotValue(r) \/ Executed(r) \/ SaveDecision(r) \/ Crash(r)
        PROVE  Funded(percent)'
    <3>1. PICK point \in {"failed", "crashed", "saving", "done"} :
            /\ at[r] \in Active /\ at' = [at EXCEPT ![r] = point]
            /\ UNCHANGED <<portfolio, seen, planned, todo, equity>>
      BY <2>2 DEF CannotValue, Executed, SaveDecision, Crash, Goto, Active, ledgerVars
    <3> QED BY <3>1, MoveKeepsFunded
  <2>3. ASSUME NEW r \in Runs, BeginJob(r) \/ ReadPositions(r) \/ Decide(r) \/ ExecuteOrder(r)
        PROVE  Funded(percent)'
    BY <2>3, BeginKeepsFunded, ReadKeepsFunded, DecideKeepsFunded, ExecuteKeepsFunded
  <2> QED BY <2>1, <2>2, <2>3 DEF Next
<1> QED BY <1>1, <1>2, AlwaysSound, AlwaysScheduled, PTL DEF Spec

\* A run is rejected only in the middle of its plan, which the step leaves as it is.
LEMMA RejectedWhileExecuting ==
  ASSUME Sound, Scheduled, [Next]_vars, NEW r \in Runs, at'[r] = "rejected",
         at[r] # "rejected"
  PROVE  at[r] = "executing" /\ UNCHANGED <<seen, planned, equity>>
<1>1. at \in [Runs -> Points]
  BY ScheduledTypes
<1>2. CASE UNCHANGED vars \/ Tick \/ Bootstrap
  BY <1>2 DEF vars, runVars, Tick, Bootstrap
<1>3. ASSUME NEW q \in Runs, NEW asOf \in ClientAsOf, NEW execute \in BOOLEAN,
             BeginRoute(q, asOf, execute)
      PROVE  FALSE
  BY <1>1, <1>3 DEF BeginRoute, Begin, Goto
<1>4. ASSUME NEW q \in Runs,
             \/ BeginJob(q) \/ ReadPositions(q) \/ CannotValue(q) \/ Executed(q)
             \/ SaveDecision(q) \/ Crash(q)
      PROVE  FALSE
  BY <1>1, <1>4 DEF BeginJob, Begin, ReadPositions, CannotValue, Executed, SaveDecision, Crash,
                    Goto
<1>5. ASSUME NEW q \in Runs, Decide(q)
      PROVE  FALSE
  <2>1. \E point \in {"saving", "failed", "executing"} : at' = [at EXCEPT ![q] = point]
    BY <1>5 DEF Decide, DecideOn, Goto
  <2> QED BY <1>1, <2>1
<1>6. ASSUME NEW q \in Runs, ExecuteOrder(q)
      PROVE  at[r] = "executing" /\ UNCHANGED <<seen, planned, equity>>
  <2>1. /\ at[q] = "executing" /\ UNCHANGED <<seen, planned, equity>>
        /\ UNCHANGED at \/ at' = [at EXCEPT ![q] = "rejected"]
    BY <1>6 DEF ExecuteOrder, Abandon, Goto
  <2> QED BY <1>1, <2>1
<1> QED BY <1>2, <1>3, <1>4, <1>5, <1>6 DEF Next

\* No plan of a scheduled run is abandoned half way, as long as every plan that it
\* executes is covered: _plan leaves enough of the equity uninvested for what the
\* fees and the slippage take and for the holdings that stay above their target, and
\* so the ledger accepts every order of _execute.
THEOREM CoveredPlansAreFunded ==
  ASSUME ClientAsOf = {}, NEW percent \in 0 .. 100, TradingLoses(percent)
  PROVE  Spec /\ [](\A r \in Runs : at[r] = "executing" => Covered(r, percent))
           => []PlansAreFunded
<1> DEFINE AllCovered == \A r \in Runs : at[r] = "executing" => Covered(r, percent)
<1>1. Init => PlansAreFunded
  BY DEF Init, PlansAreFunded
<1>2. Sound /\ Scheduled /\ Funded(percent) /\ AllCovered /\ PlansAreFunded /\ [Next]_vars
        /\ Funded(percent)' => PlansAreFunded'
  <2> SUFFICES ASSUME Sound, Scheduled, AllCovered, PlansAreFunded, [Next]_vars,
                      Funded(percent)', NEW r \in Runs, at'[r] = "rejected"
               PROVE  FALSE
    BY DEF PlansAreFunded
  <2>1. at[r] = "executing" /\ UNCHANGED <<seen, planned, equity>>
    BY RejectedWhileExecuting DEF PlansAreFunded
  <2>2. ~Covered(r, percent)'
    BY DEF Funded, RejectedUncovered
  <2> QED BY <2>1, <2>2 DEF Covered
<1> QED BY <1>1, <1>2, AlwaysSound, AlwaysScheduled, AlwaysFunded, PTL DEF Spec
=============================================================================
