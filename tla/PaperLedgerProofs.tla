-------------------------- MODULE PaperLedgerProofs --------------------------
(* Theorems about the paper ledger, for any portfolios, amounts and callers. *)
EXTENDS PaperLedger, WellFoundedInduction, FiniteSetTheorems, TLAPS

\* The rounded average cost is a natural number.
LEMMA RoundDivType ==
  ASSUME NEW a \in Nat, NEW b \in Nat, b > 0
  PROVE  RoundDiv(a, b) \in Nat
<1>1. a \div b \in Nat
  OBVIOUS
<1> QED BY <1>1 DEF RoundDiv

\* Products of natural numbers are natural numbers.
LEMMA ProductType == \A a, b \in Nat : a * b \in Nat
  OBVIOUS

\* Intents and reports of any caller: what apply_execution is given, its amounts
\* being natural numbers.
Intents == [id : IntentIds, portfolio : Portfolios, identity : Identities, asset : Assets,
            side : Sides, quantity : Nat]

Reports == [side : Sides, quantity : Nat, price : Nat, fee : Nat]

\* The orders of the ledger's own specification are among them.
LEMMA OrdersAreIntents ==
  /\ OrderIntent \subseteq Intents
  /\ ExecutionReport \subseteq Reports
  /\ Times \subseteq Nat
<1>1. Quantities \subseteq Nat /\ Prices \subseteq Nat /\ Fees \subseteq Nat /\ Times \subseteq Nat
  BY LedgerAssumption, Zenon
<1>2. ASSUME NEW i \in OrderIntent PROVE i \in Intents
  BY <1>1 DEF OrderIntent, Intents
<1>3. ASSUME NEW r \in ExecutionReport PROVE r \in Reports
  BY <1>1 DEF ExecutionReport, Reports
<1> QED BY <1>1, <1>2, <1>3

\* The notional of a report is a natural number.
LEMMA NotionalType ==
  ASSUME NEW r \in Reports
  PROVE  Notional(r) \in Nat
<1>1. r.quantity \in Nat /\ r.price \in Nat
  BY DEF Reports
<1> QED BY <1>1, ProductType DEF Notional

\* The position that a fill leaves behind is well formed: an accepted SELL never
\* takes more than is held.
LEMMA FilledType ==
  ASSUME NEW i \in Intents, NEW r \in Reports, NEW old \in PaperPosition,
         r.quantity > 0,
         i.side = "SELL" => r.quantity <= old.quantity
  PROVE  Filled(old, i, r) \in PaperPosition
<1>1. /\ r.quantity \in Nat /\ r.quantity > 0 /\ r.fee \in Nat
      /\ old.quantity \in Nat /\ old.average \in Nat
      /\ i.side \in {"BUY", "SELL"}
  BY DEF Reports, PaperPosition, Intents, Sides
<1>2. CASE i.side = "BUY"
  <2>1. Notional(r) \in Nat
    BY NotionalType
  <2>2. old.quantity * old.average \in Nat
    BY <1>1, ProductType
  <2>3. old.quantity + r.quantity \in Nat /\ old.quantity + r.quantity > 0
    BY <1>1
  <2>4. old.quantity * old.average + Notional(r) + r.fee \in Nat
    BY <1>1, <2>1, <2>2
  <2>5. RoundDiv(old.quantity * old.average + Notional(r) + r.fee,
                 old.quantity + r.quantity) \in Nat
    BY <2>3, <2>4, RoundDivType
  <2> QED BY <1>2, <2>3, <2>5 DEF Filled, PaperPosition
<1>3. CASE i.side = "SELL"
  <2>1. old.quantity - r.quantity \in Nat
    BY <1>1, <1>3
  <2> QED BY <1>1, <1>3, <2>1 DEF Filled, PaperPosition
<1> QED BY <1>1, <1>2, <1>3

\* The cash of an accepted fill never becomes negative: a BUY is covered, and the
\* fee of a SELL is taken from its proceeds.
LEMMA CashAfterType ==
  ASSUME NEW i, NEW r \in Reports, NEW cash \in Nat,
         i.side = "BUY" => Notional(r) + r.fee <= cash,
         r.fee <= Notional(r)
  PROVE  CashAfter(cash, i, r) \in Nat
<1>1. r.fee \in Nat /\ Notional(r) \in Nat
  BY NotionalType DEF Reports
<1> QED BY <1>1 DEF CashAfter

\* The execution row of a report is well formed.
LEMMA RowType ==
  ASSUME NEW i \in Intents, NEW r \in Reports, NEW now \in Nat,
         positions[i.portfolio][i.asset] \in PaperPosition
  PROVE  ExecutionRow(i, r, now) \in PaperExecution
<1> DEFINE old == positions[i.portfolio][i.asset]
<1>1. /\ i.id \in IntentIds /\ i.portfolio \in Portfolios /\ i.asset \in Assets
      /\ i.side \in Sides
  BY DEF Intents
<1>2. r.quantity \in Nat /\ r.price \in Nat /\ r.fee \in Nat
  BY DEF Reports
<1>3. old.average \in Nat
  BY DEF PaperPosition
<1>4. RealizedPnl(old, i, r) \in Int
  <2>1. (r.price - old.average) * r.quantity \in Int
    BY <1>2, <1>3
  <2> QED BY <1>2, <2>1 DEF RealizedPnl
<1> HIDE DEF old
<1>5. [intent |-> i.id, portfolio |-> i.portfolio, asset |-> i.asset, side |-> i.side,
       quantity |-> r.quantity, price |-> r.price, fee |-> r.fee,
       pnl |-> RealizedPnl(old, i, r), at |-> now] \in PaperExecution
  BY <1>1, <1>2, <1>4 DEF PaperExecution
<1> QED BY <1>5 DEF ExecutionRow, old

\* create leaves well-formed rows.
LEMMA CreateKeepsTypes ==
  ASSUME LedgerTypeOK, NEW p \in Portfolios, NEW identity \in Identities, NEW cash \in Nat,
         Create(p, identity, cash)
  PROVE  LedgerTypeOK'
<1>1. [identity |-> identity, cash |-> cash] \in PortfolioRow
  BY DEF PortfolioRow
<1> QED BY <1>1 DEF Create, LedgerTypeOK

\* apply_execution leaves well-formed rows.
LEMMA ApplyKeepsTypes ==
  ASSUME LedgerTypeOK, NEW i \in Intents, NEW r \in Reports, NEW now \in Nat,
         r.fee <= Notional(r), ApplyExecution(i, r, now)
  PROVE  LedgerTypeOK' /\ ExecutionRow(i, r, now) \in PaperExecution
<1>1. /\ i.id \in IntentIds /\ i.portfolio \in Portfolios /\ i.asset \in Assets
      /\ i.side \in Sides
  BY DEF Intents
<1>2. positions[i.portfolio][i.asset] \in PaperPosition
  BY <1>1 DEF LedgerTypeOK
<1>3. Filled(positions[i.portfolio][i.asset], i, r) \in PaperPosition
  BY <1>2, FilledType DEF ApplyExecution, Accepts
<1>4. positions' \in [Portfolios -> [Assets -> PaperPosition]]
  BY <1>1, <1>3 DEF ApplyExecution, LedgerTypeOK
<1>5. portfolio[i.portfolio] \in PortfolioRow /\ portfolio[i.portfolio].cash \in Nat
  BY <1>1 DEF LedgerTypeOK, PortfolioRow
<1>6. CashAfter(portfolio[i.portfolio].cash, i, r) \in Nat
  BY <1>5, CashAfterType DEF ApplyExecution, Accepts
<1>7. portfolio' \in [Portfolios -> PortfolioRow]
  BY <1>1, <1>5, <1>6 DEF ApplyExecution, LedgerTypeOK, PortfolioRow
<1>8. ExecutionRow(i, r, now) \in PaperExecution
  BY <1>1, <1>2, RowType
<1>9. executions' \in Seq(PaperExecution)
  BY <1>8 DEF ApplyExecution, LedgerTypeOK
<1> QED BY <1>4, <1>7, <1>8, <1>9 DEF ApplyExecution, LedgerTypeOK

\* No step makes a balance or a position negative or stores a malformed row.
THEOREM LedgerTypeCorrect == LedgerSpec => []LedgerTypeOK
<1>1. LedgerInit => LedgerTypeOK
  BY DEF LedgerInit, LedgerTypeOK, NoPortfolio, NoPosition, PortfolioRow, PaperPosition
<1>2. LedgerTypeOK /\ [LedgerNext]_ledgerVars => LedgerTypeOK'
  <2> SUFFICES ASSUME LedgerTypeOK, [LedgerNext]_ledgerVars
               PROVE  LedgerTypeOK'
    OBVIOUS
  <2>1. CASE UNCHANGED ledgerVars
    BY <2>1 DEF LedgerTypeOK, ledgerVars
  <2>2. ASSUME NEW p \in Portfolios, NEW identity \in Identities, NEW cash \in Deposits,
               Create(p, identity, cash)
        PROVE  LedgerTypeOK'
    <3>1. cash \in Nat
      BY LedgerAssumption, Zenon
    <3> QED BY <2>2, <3>1, CreateKeepsTypes
  <2>3. ASSUME NEW i \in OrderIntent, NEW r \in ExecutionReport, NEW now \in Times,
               r.fee <= Notional(r), ApplyExecution(i, r, now)
        PROVE  LedgerTypeOK'
    <3>1. i \in Intents /\ r \in Reports /\ now \in Nat
      BY OrdersAreIntents
    <3> QED BY <2>3, <3>1, ApplyKeepsTypes
  <2> QED BY <2>1, <2>2, <2>3 DEF LedgerNext
<1> QED BY <1>1, <1>2, PTL DEF LedgerSpec

----------------------------------------------------------------------------
(* Fills are final *)

\* No two rows of paper_execution are of the same intent.
IntentsAreUnique ==
  \A m, n \in DOMAIN executions : executions[m].intent = executions[n].intent => m = n

\* A sequence is a prefix of itself.
LEMMA PrefixOfSelf ==
  ASSUME NEW S, NEW s \in Seq(S)
  PROVE  IsPrefix(s, s)
  BY DEF IsPrefix

\* A sequence is a prefix of what Append makes of it.
LEMMA PrefixOfAppend ==
  ASSUME NEW S, NEW s \in Seq(S), NEW x \in S
  PROVE  IsPrefix(s, Append(s, x))
<1> DEFINE t == Append(s, x)
<1>1. t \in Seq(S) /\ Len(t) = Len(s) + 1 /\ \A n \in 1 .. Len(s) : t[n] = s[n]
  OBVIOUS
<1>2. Len(s) \in Nat /\ Len(s) <= Len(t)
  BY <1>1
<1> HIDE DEF t
<1>3. SubSeq(s, 1, Len(s)) = SubSeq(t, 1, Len(s))
  BY <1>1, <1>2
<1> QED BY <1>2, <1>3 DEF IsPrefix, t

\* Applying an execution keeps the intents of the rows distinct: the duplicate
\* check and the insert are one transaction.
LEMMA ApplyKeepsIntentsUnique ==
  ASSUME NEW S, executions \in Seq(S), NEW i, NEW r, NEW now,
         ExecutionRow(i, r, now) \in S, IntentsAreUnique, ApplyExecution(i, r, now)
  PROVE  IntentsAreUnique' /\ IsPrefix(executions, executions')
<1> DEFINE x == ExecutionRow(i, r, now)
<1>1. x.intent = i.id
  BY DEF ExecutionRow
<1>2. executions' = Append(executions, x)
  BY DEF ApplyExecution
<1>3. \A n \in DOMAIN executions : executions[n].intent # i.id
  BY DEF ApplyExecution, Duplicate
<1> HIDE DEF x
<1>4. x \in S
  BY DEF x
<1>5. /\ DOMAIN executions = 1 .. Len(executions)
      /\ DOMAIN executions' = 1 .. Len(executions) + 1
      /\ \A n \in 1 .. Len(executions) : executions'[n] = executions[n]
      /\ executions'[Len(executions) + 1] = x
      /\ Len(executions) \in Nat
  BY <1>2, <1>4
<1>6. IntentsAreUnique'
  <2> SUFFICES ASSUME NEW m \in DOMAIN executions', NEW n \in DOMAIN executions',
                      executions'[m].intent = executions'[n].intent
               PROVE  m = n
    BY DEF IntentsAreUnique
  <2>1. CASE m \in DOMAIN executions /\ n \in DOMAIN executions
    BY <2>1, <1>5 DEF IntentsAreUnique
  <2>2. CASE m \notin DOMAIN executions
    <3>1. m = Len(executions) + 1
      BY <2>2, <1>5
    <3> QED BY <3>1, <1>1, <1>3, <1>5
  <2>3. CASE n \notin DOMAIN executions
    <3>1. n = Len(executions) + 1
      BY <2>3, <1>5
    <3> QED BY <3>1, <1>1, <1>3, <1>5
  <2> QED BY <2>1, <2>2, <2>3
<1>7. IsPrefix(executions, executions')
  BY <1>2, <1>4, PrefixOfAppend
<1> QED BY <1>6, <1>7

\* A fill is final and each intent is filled at most once, whoever submits what.
THEOREM LedgerFillsAreFinal == LedgerSpec => FillsAreFinal
<1>1. LedgerInit => IntentsAreUnique
  BY DEF LedgerInit, IntentsAreUnique
<1>2. LedgerTypeOK /\ IntentsAreUnique /\ [LedgerNext]_ledgerVars =>
      IntentsAreUnique' /\ IsPrefix(executions, executions')
  <2> SUFFICES ASSUME LedgerTypeOK, IntentsAreUnique, [LedgerNext]_ledgerVars
               PROVE  IntentsAreUnique' /\ IsPrefix(executions, executions')
    OBVIOUS
  <2>1. executions \in Seq(PaperExecution)
    BY DEF LedgerTypeOK
  <2>2. CASE UNCHANGED executions
    BY <2>1, <2>2, PrefixOfSelf DEF IntentsAreUnique
  <2>3. ASSUME NEW i \in OrderIntent, NEW r \in ExecutionReport, NEW now \in Times,
               ApplyExecution(i, r, now)
        PROVE  IntentsAreUnique' /\ IsPrefix(executions, executions')
    <3>1. i \in Intents /\ r \in Reports /\ now \in Nat
      BY OrdersAreIntents
    <3>2. positions[i.portfolio][i.asset] \in PaperPosition
      BY <3>1 DEF LedgerTypeOK, Intents
    <3>3. ExecutionRow(i, r, now) \in PaperExecution
      BY <3>1, <3>2, RowType
    <3> QED BY <2>1, <2>3, <3>3, ApplyKeepsIntentsUnique
  <2> QED BY <2>2, <2>3 DEF LedgerNext, Create, ledgerVars
<1>3. LedgerTypeOK /\ IntentsAreUnique /\ [LedgerNext]_ledgerVars =>
      [/\ IsPrefix(executions, executions')
       /\ \A m, n \in DOMAIN executions' :
            executions'[m].intent = executions'[n].intent => m = n]_ledgerVars
  BY <1>2 DEF IntentsAreUnique
<1>4. LedgerSpec => []IntentsAreUnique
  BY <1>1, <1>2, LedgerTypeCorrect, PTL DEF LedgerSpec
<1> QED BY <1>3, <1>4, LedgerTypeCorrect, PTL DEF LedgerSpec, FillsAreFinal

----------------------------------------------------------------------------
(* Sums over sequences *)

\* A nonempty set of natural numbers has a least element.
LEMMA LeastNat ==
  ASSUME NEW T, T \subseteq Nat, T # {}
  PROVE  \E x \in T : \A y \in T : x <= y
<1>1. PICK x \in T : \A y \in T : ~ (<<y, x>> \in OpToRel(<, Nat))
  BY WFMin, NatLessThanWellFounded
<1>2. \A y \in T : ~(y < x)
  BY <1>1 DEF OpToRel
<1> QED
  BY <1>2

\* g holds the sums of the first 0 .. n elements.
Sums(v, n, g) == g = [k \in 0 .. n |-> IF k = 0 THEN 0 ELSE g[k - 1] + v[k]]

\* The running sums of a sequence exist, by the least length without them.
LEMMA SumsExist ==
  ASSUME NEW v, NEW n \in Nat
  PROVE  \E g : Sums(v, n, g)
<1> DEFINE T == {k \in Nat : ~ \E g : Sums(v, k, g)}
<1> SUFFICES ASSUME T # {} PROVE FALSE
  OBVIOUS
<1>1. PICK x \in T : \A y \in T : x <= y
  BY LeastNat
<1>2. CASE x = 0
  <2>1. Sums(v, 0, [k \in 0 .. 0 |-> 0])
    BY DEF Sums
  <2> QED
    BY <1>2, <2>1
<1>3. CASE x # 0
  <2>1. PICK g : Sums(v, x - 1, g)
    BY <1>1, <1>3
  <2> DEFINE h == [k \in 0 .. x |-> IF k = x THEN g[x - 1] + v[x] ELSE g[k]]
  <2>2. ASSUME NEW k \in 0 .. x
        PROVE  h[k] = IF k = 0 THEN 0 ELSE h[k - 1] + v[k]
    <3>1. CASE k = x
      BY <1>3, <3>1
    <3>2. CASE k # x
      <4>1. k \in 0 .. (x - 1)
        BY <3>2
      <4>2. g[k] = IF k = 0 THEN 0 ELSE g[k - 1] + v[k]
        BY <2>1, <4>1 DEF Sums
      <4> QED
        BY <1>3, <3>2, <4>1, <4>2
    <3> QED
      BY <3>1, <3>2
  <2>3. Sums(v, x, h)
    BY <2>2 DEF Sums
  <2> QED
    BY <2>3
<1> QED
  BY <1>2, <1>3

\* Running computes what its recursive definition says.
LEMMA RunningStep ==
  ASSUME NEW v \in Seq(Int)
  PROVE  /\ Len(v) \in Nat
         /\ Running(v)[0] = 0
         /\ \A k \in 1 .. Len(v) : Running(v)[k] = Running(v)[k - 1] + v[k]
<1>0. Len(v) \in Nat
  OBVIOUS
<1>1. \E g : Sums(v, Len(v), g)
  BY <1>0, SumsExist
<1>2. Sums(v, Len(v), Running(v))
  <2> DEFINE G(g) == g = [n \in 0 .. Len(v) |-> IF n = 0 THEN 0 ELSE g[n - 1] + v[n]]
  <2>1. PICK g : G(g)
    BY <1>1 DEF Sums
  <2>2. G(CHOOSE s : G(s))
    BY <2>1, Zenon
  <2>3. Running(v) = CHOOSE s : G(s)
    BY Zenon DEF Running
  <2> QED
    BY <2>2, <2>3 DEF Sums
<1> DEFINE s == Running(v)
<1>3. s = [k \in 0 .. Len(v) |-> IF k = 0 THEN 0 ELSE s[k - 1] + v[k]]
  BY <1>2 DEF Sums
<1> HIDE DEF s
<1>4. s[0] = 0
  <2>1. 0 \in 0 .. Len(v)
    BY <1>0
  <2> QED BY <1>3, <2>1
<1>5. ASSUME NEW k \in 1 .. Len(v) PROVE s[k] = s[k - 1] + v[k]
  <2>1. k \in 0 .. Len(v) /\ k # 0
    BY <1>0
  <2> QED BY <1>3, <2>1
<1> QED BY <1>0, <1>4, <1>5 DEF s

\* The empty sequence sums to zero.
LEMMA SumEmpty == SumOf(<<>>) = 0
<1>1. <<>> \in Seq(Int) /\ Len(<<>>) = 0
  OBVIOUS
<1> QED BY <1>1, RunningStep DEF SumOf

\* Appending an element leaves the earlier sums as they are.
LEMMA RunningAppend ==
  ASSUME NEW v \in Seq(Int), NEW x \in Int
  PROVE  \A k \in 0 .. Len(v) : Running(Append(v, x))[k] = Running(v)[k]
<1> DEFINE w == Append(v, x)
           r == Running(v)
           s == Running(w)
           T == {k \in 0 .. Len(v) : r[k] # s[k]}
<1>1. /\ w \in Seq(Int) /\ Len(v) \in Nat /\ Len(w) = Len(v) + 1
      /\ \A k \in 1 .. Len(v) : w[k] = v[k]
  OBVIOUS
<1>2. r[0] = 0 /\ \A k \in 1 .. Len(v) : r[k] = r[k - 1] + v[k]
  BY RunningStep
<1>3. s[0] = 0 /\ \A k \in 1 .. Len(w) : s[k] = s[k - 1] + w[k]
  BY <1>1, RunningStep
<1> HIDE DEF w, r, s
<1>4. T = {}
  <2> SUFFICES ASSUME T # {} PROVE FALSE
    OBVIOUS
  <2>1. T \subseteq Nat
    BY <1>1
  <2>2. PICK k \in T : \A j \in T : k <= j
    BY <2>1, LeastNat
  <2>3. k \in 1 .. Len(v) /\ k \in 1 .. Len(w) /\ k - 1 \in 0 .. Len(v)
    BY <1>1, <1>2, <1>3
  <2>4. r[k - 1] = s[k - 1]
    BY <2>2, <2>3
  <2> QED BY <1>1, <1>2, <1>3, <2>3, <2>4
<1>5. \A k \in 0 .. Len(v) : s[k] = r[k]
  BY <1>4
<1> QED BY <1>5 DEF r, s, w

\* Appending an element adds it to the sum.
LEMMA SumAppend ==
  ASSUME NEW v \in Seq(Int), NEW x \in Int
  PROVE  SumOf(Append(v, x)) = SumOf(v) + x
<1> DEFINE w == Append(v, x)
<1>1. w \in Seq(Int) /\ Len(v) \in Nat /\ Len(w) = Len(v) + 1 /\ w[Len(w)] = x
  OBVIOUS
<1>2. Running(w)[Len(v)] = Running(v)[Len(v)]
  <2>1. Len(v) \in 0 .. Len(v)
    BY <1>1
  <2> QED BY <2>1, RunningAppend
<1> HIDE DEF w
<1>3. Running(w)[Len(w)] = Running(w)[Len(v)] + x
  <2>1. Len(w) \in 1 .. Len(w) /\ Len(w) - 1 = Len(v)
    BY <1>1
  <2>2. \A k \in 1 .. Len(w) : Running(w)[k] = Running(w)[k - 1] + w[k]
    BY <1>1, RunningStep
  <2> QED BY <1>1, <2>1, <2>2
<1> QED BY <1>2, <1>3 DEF SumOf, w

\* A sequence of integers has an integer sum.
LEMMA SumType ==
  ASSUME NEW v \in Seq(Int)
  PROVE  SumOf(v) \in Int
<1> DEFINE r == Running(v)
           T == {k \in 0 .. Len(v) : r[k] \notin Int}
<1>1. Len(v) \in Nat /\ r[0] = 0 /\ \A k \in 1 .. Len(v) : r[k] = r[k - 1] + v[k]
  BY RunningStep
<1>2. \A k \in 1 .. Len(v) : v[k] \in Int
  OBVIOUS
<1> HIDE DEF r
<1>3. r[Len(v)] \in Int
  <2> SUFFICES ASSUME T # {} PROVE FALSE
    BY <1>1
  <2>1. T \subseteq Nat
    BY <1>1
  <2>2. PICK k \in T : \A j \in T : k <= j
    BY <2>1, LeastNat
  <2>3. k \in 1 .. Len(v) /\ k - 1 \in 0 .. Len(v)
    BY <1>1
  <2>4. r[k - 1] \in Int
    BY <2>2, <2>3
  <2>5. r[k] = r[k - 1] + v[k] /\ v[k] \in Int
    BY <1>1, <1>2, <2>3
  <2>6. r[k] \in Int
    BY <2>4, <2>5
  <2> QED BY <2>6
<1> QED BY <1>3 DEF SumOf, r

----------------------------------------------------------------------------
(* Sums over sets *)

\* The element that MapThenSumSet takes from a set.
First(t) == CHOOSE x \in t : TRUE

\* g holds the sums of v over the subsets in D.
SetSums(D, v, g) ==
  g = [t \in D |-> IF t = {} THEN 0 ELSE v[First(t)] + g[t \ {First(t)}]]

\* Taking that element leaves a smaller set.
LEMMA FirstIsRemoved ==
  ASSUME NEW t, IsFiniteSet(t), t # {}
  PROVE  /\ First(t) \in t
         /\ IsFiniteSet(t \ {First(t)})
         /\ Cardinality(t) \in Nat /\ Cardinality(t) > 0
         /\ Cardinality(t \ {First(t)}) = Cardinality(t) - 1
<1>1. First(t) \in t
  BY DEF First
<1>2. Cardinality(t) \in Nat /\ Cardinality(t) # 0
  BY FS_CardinalityType, FS_EmptySet
<1>3. IsFiniteSet(t \ {First(t)}) /\ Cardinality(t \ {First(t)}) = Cardinality(t) - 1
  BY <1>1, FS_RemoveElement
<1> QED BY <1>1, <1>2, <1>3

\* The subsets of at most n elements.
Small(S, n) == {t \in SUBSET S : Cardinality(t) <= n}

\* The sums over the subsets of a finite set exist, by the least size without them.
LEMMA FoldsExist ==
  ASSUME NEW S, IsFiniteSet(S), NEW v
  PROVE  \E g : SetSums(SUBSET S, v, g)
<1> DEFINE T == {k \in Nat : ~ \E g : SetSums(Small(S, k), v, g)}
<1>0. \A t \in SUBSET S : IsFiniteSet(t) /\ Cardinality(t) \in Nat
  BY FS_Subset, FS_CardinalityType
<1>1. T = {}
  <2> SUFFICES ASSUME T # {} PROVE FALSE
    OBVIOUS
  <2>1. PICK k \in T : \A j \in T : k <= j
    BY LeastNat
  <2>2. CASE k = 0
    <3>1. \A t \in Small(S, 0) : t = {}
      BY <1>0, FS_EmptySet DEF Small
    <3>2. SetSums(Small(S, 0), v, [t \in Small(S, 0) |-> 0])
      BY <3>1 DEF SetSums
    <3> QED BY <2>2, <3>2
  <2>3. CASE k # 0
    <3>1. PICK g : SetSums(Small(S, k - 1), v, g)
      BY <2>1, <2>3
    <3> DEFINE h == [t \in Small(S, k) |->
                       IF t \in Small(S, k - 1) THEN g[t]
                       ELSE v[First(t)] + g[t \ {First(t)}]]
    <3>2. ASSUME NEW t \in Small(S, k)
          PROVE  h[t] = IF t = {} THEN 0 ELSE v[First(t)] + h[t \ {First(t)}]
      <4>1. CASE t = {}
        <5>1. t \in Small(S, k - 1)
          BY <4>1, <2>3, FS_EmptySet DEF Small
        <5> QED BY <3>1, <4>1, <5>1 DEF SetSums
      <4>2. CASE t # {}
        <5> DEFINE u == t \ {First(t)}
        <5>1. u \in Small(S, k - 1) /\ u \in Small(S, k)
          <6>1. t \in SUBSET S /\ Cardinality(t) \in Nat /\ Cardinality(t) <= k
            BY <1>0 DEF Small
          <6>2. Cardinality(u) = Cardinality(t) - 1 /\ u \in SUBSET S
            BY <1>0, <4>2, <6>1, FirstIsRemoved
          <6> HIDE DEF u
          <6> QED BY <6>1, <6>2 DEF Small
        <5>2. h[u] = g[u]
          BY <5>1
        <5>3. t \in Small(S, k - 1) => g[t] = v[First(t)] + g[u]
          BY <3>1, <4>2 DEF SetSums
        <5> HIDE DEF u
        <5> QED BY <4>2, <5>2, <5>3 DEF u
      <4> QED BY <4>1, <4>2
    <3>3. SetSums(Small(S, k), v, h)
      <4>1. h = [t \in Small(S, k) |-> h[t]]
        OBVIOUS
      <4> HIDE DEF h
      <4> QED BY <3>2, <4>1 DEF SetSums
    <3> QED BY <3>3
  <2> QED BY <2>2, <2>3
<1>2. Cardinality(S) \in Nat /\ Small(S, Cardinality(S)) = SUBSET S
  <2>1. \A t \in SUBSET S : Cardinality(t) <= Cardinality(S)
    BY FS_Subset
  <2> QED BY <2>1, FS_CardinalityType DEF Small
<1>3. \E g : SetSums(Small(S, Cardinality(S)), v, g)
  BY <1>1, <1>2
<1> QED BY <1>2, <1>3

\* Sums of integers are integers, and any element may be taken first: by the smallest
\* set for which that fails.
LEMMA AnyElementFirst ==
  ASSUME NEW S, IsFiniteSet(S), NEW v, NEW g, SetSums(SUBSET S, v, g),
         \A a \in S : v[a] \in Int
  PROVE  \A t \in SUBSET S : g[t] \in Int /\ \A x \in t : g[t] = v[x] + g[t \ {x}]
<1> DEFINE Good(t) == g[t] \in Int /\ \A x \in t : g[t] = v[x] + g[t \ {x}]
           T == {k \in Nat : \E t \in SUBSET S : Cardinality(t) = k /\ ~Good(t)}
<1>0. \A t \in SUBSET S : IsFiniteSet(t) /\ Cardinality(t) \in Nat
  BY FS_Subset, FS_CardinalityType
<1>1. T = {}
  <2> SUFFICES ASSUME T # {} PROVE FALSE
    OBVIOUS
  <2>1. PICK k \in T : \A j \in T : k <= j
    BY LeastNat
  <2>2. PICK t \in SUBSET S : Cardinality(t) = k /\ ~Good(t)
    BY <2>1
  <2>3. ASSUME NEW u \in SUBSET S, Cardinality(u) = k - 1, k - 1 \in Nat
        PROVE  Good(u)
    <3>1. k - 1 \notin T
      BY <2>1, <2>3
    <3> QED BY <2>3, <3>1
  <2>4. t # {}
    <3>1. ASSUME t = {} PROVE FALSE
      <4>1. g[{}] = 0
        BY DEF SetSums
      <4> QED BY <2>2, <3>1, <4>1
    <3> QED BY <3>1
  <2> DEFINE f == First(t)
             u == t \ {f}
  <2>5. f \in t /\ u \in SUBSET S /\ Cardinality(u) = k - 1 /\ k - 1 \in Nat
    BY <1>0, <2>2, <2>4, FirstIsRemoved
  <2>6. g[t] = v[f] + g[u]
    BY <2>4 DEF SetSums
  <2>7. u = t \ {f}
    OBVIOUS
  <2> HIDE DEF u, f
  <2>8. g[u] \in Int /\ \A x \in u : g[u] = v[x] + g[u \ {x}]
    BY <2>3, <2>5
  <2>9. f \in S /\ v[f] \in Int /\ g[t] \in Int
    BY <2>5, <2>6, <2>8
  <2>10. ASSUME NEW x \in t, x # f
         PROVE  g[t] = v[x] + g[t \ {x}]
    <3> DEFINE w == t \ {x}
    <3>1. x \in S /\ w \in SUBSET S /\ f \in w /\ w \ {f} = u \ {x} /\ x \in u
      BY <2>5, <2>7, <2>10
    <3>2. Cardinality(w) = k - 1
      BY <1>0, <2>2, FS_RemoveElement
    <3> DEFINE z == u \ {x}
    <3> HIDE DEF w
    <3>3. g[w] \in Int /\ g[w] = v[f] + g[z]
      BY <2>3, <2>5, <3>1, <3>2
    <3>4. g[u] = v[x] + g[z] /\ v[x] \in Int
      BY <2>8, <3>1
    <3>5. g[z] \in Int
      <4>1. Cardinality(z) = k - 2 /\ k - 2 \in Nat /\ z \in SUBSET S
        BY <1>0, <2>5, <3>1, FS_RemoveElement
      <4> HIDE DEF z
      <4>2. k - 2 \notin T
        BY <2>1, <4>1
      <4> QED BY <4>1, <4>2
    <3> HIDE DEF z
    <3>6. g[t] = v[x] + g[w]
      BY <2>6, <2>9, <3>3, <3>4, <3>5
    <3> QED BY <3>6 DEF w
  <2>11. Good(t)
    BY <2>6, <2>7, <2>9, <2>10
  <2> QED BY <2>2, <2>11
<1>2. ASSUME NEW t \in SUBSET S PROVE Good(t)
  <2>1. Cardinality(t) \notin T
    BY <1>1
  <2> QED BY <1>0, <2>1
<1> QED BY <1>2

\* Sums depend on the values over the set only.
LEMMA SumsAgree ==
  ASSUME NEW R, NEW S, NEW v, NEW w, NEW g, NEW h,
         SetSums(SUBSET R, v, g), SetSums(SUBSET S, w, h),
         NEW U, IsFiniteSet(U), U \subseteq R, U \subseteq S, \A a \in U : v[a] = w[a]
  PROVE  g[U] = h[U]
<1> DEFINE T == {k \in Nat : \E t \in SUBSET U : Cardinality(t) = k /\ g[t] # h[t]}
<1>0. \A t \in SUBSET U : IsFiniteSet(t) /\ Cardinality(t) \in Nat
  BY FS_Subset, FS_CardinalityType
<1>1. T = {}
  <2> SUFFICES ASSUME T # {} PROVE FALSE
    OBVIOUS
  <2>1. PICK k \in T : \A j \in T : k <= j
    BY LeastNat
  <2>2. PICK t \in SUBSET U : Cardinality(t) = k /\ g[t] # h[t]
    BY <2>1
  <2>3. t \in SUBSET R /\ t \in SUBSET S
    OBVIOUS
  <2>4. t # {}
    <3>1. ASSUME t = {} PROVE FALSE
      <4>1. g[{}] = 0 /\ h[{}] = 0
        BY DEF SetSums
      <4> QED BY <2>2, <3>1, <4>1
    <3> QED BY <3>1
  <2> DEFINE f == First(t)
             u == t \ {f}
  <2>5. f \in t /\ u \in SUBSET U /\ Cardinality(u) = k - 1 /\ k - 1 \in Nat
    BY <1>0, <2>2, <2>4, FirstIsRemoved
  <2>6. g[t] = v[f] + g[u] /\ h[t] = w[f] + h[u]
    BY <2>3, <2>4 DEF SetSums
  <2> HIDE DEF u, f
  <2>7. g[u] = h[u]
    <3>1. k - 1 \notin T
      BY <2>1, <2>5
    <3> QED BY <2>5, <3>1
  <2> QED BY <2>2, <2>5, <2>6, <2>7
<1> QED BY <1>0, <1>1

\* The sum of v over a finite set.
SumOver(S, v) == (CHOOSE g : SetSums(SUBSET S, v, g))[S]

\* It is what any table of the sums says.
LEMMA SumOverIs ==
  ASSUME NEW S, IsFiniteSet(S), NEW v, NEW g, SetSums(SUBSET S, v, g)
  PROVE  SumOver(S, v) = g[S]
<1> DEFINE h == CHOOSE s : SetSums(SUBSET S, v, s)
<1>1. SetSums(SUBSET S, v, h)
  BY Zenon
<1>2. SumOver(S, v) = h[S]
  BY Zenon DEF SumOver
<1> HIDE DEF h
<1>3. h[S] = g[S]
  BY <1>1, SumsAgree
<1> QED BY <1>2, <1>3

\* The laws of sums over a set.
LEMMA SumOverLaws ==
  ASSUME NEW S, IsFiniteSet(S), NEW v, \A a \in S : v[a] \in Int
  PROVE  /\ SumOver(S, v) \in Int
         /\ S = {} => SumOver(S, v) = 0
         /\ \A x \in S : SumOver(S, v) = v[x] + SumOver(S \ {x}, v)
         /\ \A w : (\A a \in S : w[a] = v[a]) => SumOver(S, w) = SumOver(S, v)
<1>1. PICK g : SetSums(SUBSET S, v, g)
  BY FoldsExist
<1>2. g[S] \in Int /\ \A x \in S : g[S] = v[x] + g[S \ {x}]
  BY <1>1, AnyElementFirst
<1>3. SumOver(S, v) = g[S]
  BY <1>1, SumOverIs
<1>4. S = {} => g[S] = 0
  BY <1>1 DEF SetSums
<1>5. ASSUME NEW x \in S
      PROVE  SumOver(S \ {x}, v) = g[S \ {x}]
  <2> DEFINE R == S \ {x}
  <2>1. IsFiniteSet(R) /\ R \subseteq S /\ R \subseteq R
    BY FS_Subset
  <2> HIDE DEF R
  <2>2. PICK h : SetSums(SUBSET R, v, h)
    BY <2>1, FoldsExist
  <2>3. h[R] = g[R]
    BY <1>1, <2>1, <2>2, SumsAgree
  <2>4. SumOver(R, v) = h[R]
    BY <2>1, <2>2, SumOverIs
  <2> QED BY <2>3, <2>4 DEF R
<1>6. ASSUME NEW w, \A a \in S : w[a] = v[a]
      PROVE  SumOver(S, w) = g[S]
  <2>1. PICK h : SetSums(SUBSET S, w, h)
    BY FoldsExist
  <2>2. h[S] = g[S]
    BY <1>1, <1>6, <2>1, SumsAgree
  <2> QED BY <2>1, <2>2, SumOverIs
<1> QED BY <1>2, <1>3, <1>4, <1>5, <1>6

\* Sums of natural numbers are natural numbers and at least each summand, by the
\* smallest set for which they are not.
LEMMA SumOverBounds ==
  ASSUME NEW S, IsFiniteSet(S), NEW v, \A a \in S : v[a] \in Nat
  PROVE  SumOver(S, v) \in Nat /\ \A a \in S : v[a] <= SumOver(S, v)
<1> DEFINE Good(t) == SumOver(t, v) \in Nat
           T == {k \in Nat : \E t \in SUBSET S : Cardinality(t) = k /\ ~Good(t)}
<1>0. \A t \in SUBSET S : IsFiniteSet(t) /\ Cardinality(t) \in Nat
  BY FS_Subset, FS_CardinalityType
<1>1. ASSUME NEW t \in SUBSET S
      PROVE  /\ t = {} => SumOver(t, v) = 0
             /\ \A x \in t : SumOver(t, v) = v[x] + SumOver(t \ {x}, v)
  <2>1. IsFiniteSet(t) /\ \A a \in t : v[a] \in Int
    BY <1>0
  <2> QED BY <2>1, SumOverLaws
<1>2. T = {}
  <2> SUFFICES ASSUME T # {} PROVE FALSE
    OBVIOUS
  <2>1. PICK k \in T : \A j \in T : k <= j
    BY LeastNat
  <2>2. PICK t \in SUBSET S : Cardinality(t) = k /\ ~Good(t)
    BY <2>1
  <2>3. PICK x \in t : TRUE
    <3>1. t # {}
      BY <1>1, <2>2
    <3> QED BY <3>1
  <2> DEFINE u == t \ {x}
  <2>4. u \in SUBSET S /\ Cardinality(u) = k - 1 /\ k - 1 \in Nat
    <3>1. u \in SUBSET S
      OBVIOUS
    <3>2. Cardinality(u) = Cardinality(t) - 1
      BY <1>0, <2>3, FS_RemoveElement
    <3> QED BY <1>0, <2>2, <3>1, <3>2
  <2>5. SumOver(t, v) = v[x] + SumOver(u, v) /\ v[x] \in Nat
    BY <1>1, <2>3
  <2> HIDE DEF u
  <2>6. Good(u)
    <3>1. k - 1 \notin T
      BY <2>1, <2>4
    <3> QED BY <2>4, <3>1
  <2> QED BY <2>2, <2>5, <2>6
<1>3. ASSUME NEW t \in SUBSET S PROVE SumOver(t, v) \in Nat
  <2>1. Cardinality(t) \notin T
    BY <1>2
  <2> QED BY <1>0, <2>1
<1>4. ASSUME NEW a \in S PROVE v[a] <= SumOver(S, v)
  <2>1. SumOver(S, v) = v[a] + SumOver(S \ {a}, v)
    BY <1>1
  <2>2. SumOver(S \ {a}, v) \in Nat /\ v[a] \in Nat
    BY <1>3
  <2> QED BY <2>1, <2>2
<1> QED BY <1>3, <1>4
----------------------------------------------------------------------------
(* The books reconcile *)

\* A portfolio that does not exist has no deposit.
NoneDeposited == \A p \in Portfolios : portfolio[p] = NoPortfolio => deposited[p] = 0

\* What the rows of one longer table add to a total: the flow of the new row.
LEMMA SumGrows ==
  ASSUME NEW n \in Nat, NEW v, NEW w,
         v = [k \in 1 .. n |-> v[k]], w = [k \in 1 .. n + 1 |-> w[k]],
         \A k \in 1 .. n : v[k] \in Int /\ w[k] = v[k],
         w[n + 1] \in Int
  PROVE  SumOf(v) \in Int /\ SumOf(w) = SumOf(v) + w[n + 1]
<1>1. v \in Seq(Int) /\ Len(v) = n
  <2>1. v \in [1 .. n -> Int]
    OBVIOUS
  <2> QED BY <2>1
<1>2. w = Append(v, w[n + 1])
  <2> DEFINE u == Append(v, w[n + 1])
  <2>1. /\ u \in Seq(Int) /\ Len(u) = n + 1
        /\ \A k \in 1 .. n : u[k] = v[k]
        /\ u[n + 1] = w[n + 1]
    BY <1>1
  <2>2. u = [k \in 1 .. n + 1 |-> u[k]]
    BY <2>1
  <2> HIDE DEF u
  <2>3. ASSUME NEW k \in 1 .. n + 1
        PROVE  u[k] = w[k]
    <3>1. k \in 1 .. n \/ k = n + 1
      OBVIOUS
    <3> QED BY <2>1, <3>1
  <2>4. u = w
    BY <2>2, <2>3
  <2> QED BY <2>4 DEF u
<1> QED BY <1>1, <1>2, SumAppend, SumType

\* The flows of a row are integers.
LEMMA FlowType ==
  ASSUME NEW x \in PaperExecution, NEW a
  PROVE  CashFlow(x) \in Int /\ QuantityFlow(x, a) \in Int
<1>1. x.quantity \in Nat /\ x.price \in Nat /\ x.fee \in Nat
  BY DEF PaperExecution
<1>2. Notional(x) \in Nat
  BY <1>1, ProductType DEF Notional
<1> QED BY <1>1, <1>2 DEF CashFlow, QuantityFlow

\* The totals of a table of executions.
CashTotal(rows, p) ==
  SumOf([n \in DOMAIN rows |-> IF rows[n].portfolio = p THEN CashFlow(rows[n]) ELSE 0])

QuantityTotal(rows, p, a) ==
  SumOf([n \in DOMAIN rows |-> IF rows[n].portfolio = p THEN QuantityFlow(rows[n], a) ELSE 0])

\* LedgerReconciles in terms of them.
LEMMA ReconcilesAsTotals ==
  /\ LedgerReconciles <=>
       \A p \in Portfolios :
         /\ portfolio[p].cash = deposited[p] + CashTotal(executions, p)
         /\ \A a \in Assets : positions[p][a].quantity = QuantityTotal(executions, p, a)
  /\ LedgerReconciles' <=>
       \A p \in Portfolios :
         /\ portfolio'[p].cash = deposited'[p] + CashTotal(executions', p)
         /\ \A a \in Assets : positions'[p][a].quantity = QuantityTotal(executions', p, a)
<1>1. LedgerReconciles <=>
       \A p \in Portfolios :
         /\ portfolio[p].cash = deposited[p] + CashTotal(executions, p)
         /\ \A a \in Assets : positions[p][a].quantity = QuantityTotal(executions, p, a)
  BY DEF LedgerReconciles, Total, CashTotal, QuantityTotal
<1>2. LedgerReconciles' <=>
       \A p \in Portfolios :
         /\ portfolio'[p].cash = deposited'[p] + CashTotal(executions', p)
         /\ \A a \in Assets : positions'[p][a].quantity = QuantityTotal(executions', p, a)
  BY DEF LedgerReconciles, Total, CashTotal, QuantityTotal
<1> QED BY <1>1, <1>2

\* A fill moves each total by the flow of its row.
LEMMA TotalsGrow ==
  ASSUME NEW rows \in Seq(PaperExecution), NEW x \in PaperExecution, NEW p, NEW a
  PROVE  /\ CashTotal(rows, p) \in Int
         /\ CashTotal(Append(rows, x), p) =
              CashTotal(rows, p) + (IF x.portfolio = p THEN CashFlow(x) ELSE 0)
         /\ QuantityTotal(rows, p, a) \in Int
         /\ QuantityTotal(Append(rows, x), p, a) = QuantityTotal(rows, p, a)
              + (IF x.portfolio = p THEN QuantityFlow(x, a) ELSE 0)
<1> DEFINE n == Len(rows)
           more == Append(rows, x)
<1>1. /\ n \in Nat /\ DOMAIN rows = 1 .. n /\ DOMAIN more = 1 .. n + 1
      /\ \A k \in 1 .. n : rows[k] \in PaperExecution /\ more[k] = rows[k]
      /\ more[n + 1] = x /\ n + 1 \in 1 .. n + 1
  OBVIOUS
<1> HIDE DEF n, more
<1>2. /\ CashTotal(rows, p) \in Int
      /\ CashTotal(more, p) = CashTotal(rows, p) + (IF x.portfolio = p THEN CashFlow(x) ELSE 0)
  <2> DEFINE Flow(y) == IF y.portfolio = p THEN CashFlow(y) ELSE 0
             v == [k \in DOMAIN rows |-> Flow(rows[k])]
             w == [k \in DOMAIN more |-> Flow(more[k])]
  <2>1. \A y \in PaperExecution : Flow(y) \in Int
    BY FlowType
  <2>2. CashTotal(rows, p) = SumOf(v) /\ CashTotal(more, p) = SumOf(w)
    BY DEF CashTotal
  <2>3. Flow(x) = IF x.portfolio = p THEN CashFlow(x) ELSE 0
    OBVIOUS
  <2> HIDE DEF Flow
  <2>4. /\ v = [k \in 1 .. n |-> v[k]] /\ w = [k \in 1 .. n + 1 |-> w[k]]
        /\ \A k \in 1 .. n : v[k] \in Int /\ w[k] = v[k]
        /\ w[n + 1] = Flow(x) /\ w[n + 1] \in Int
    BY <1>1, <2>1
  <2> HIDE DEF v, w
  <2>5. SumOf(v) \in Int /\ SumOf(w) = SumOf(v) + w[n + 1]
    BY <1>1, <2>4, SumGrows
  <2> QED BY <2>2, <2>3, <2>4, <2>5
<1>3. /\ QuantityTotal(rows, p, a) \in Int
      /\ QuantityTotal(more, p, a) = QuantityTotal(rows, p, a)
           + (IF x.portfolio = p THEN QuantityFlow(x, a) ELSE 0)
  <2> DEFINE Flow(y) == IF y.portfolio = p THEN QuantityFlow(y, a) ELSE 0
             v == [k \in DOMAIN rows |-> Flow(rows[k])]
             w == [k \in DOMAIN more |-> Flow(more[k])]
  <2>1. \A y \in PaperExecution : Flow(y) \in Int
    BY FlowType
  <2>2. QuantityTotal(rows, p, a) = SumOf(v) /\ QuantityTotal(more, p, a) = SumOf(w)
    BY DEF QuantityTotal
  <2>3. Flow(x) = IF x.portfolio = p THEN QuantityFlow(x, a) ELSE 0
    OBVIOUS
  <2> HIDE DEF Flow
  <2>4. /\ v = [k \in 1 .. n |-> v[k]] /\ w = [k \in 1 .. n + 1 |-> w[k]]
        /\ \A k \in 1 .. n : v[k] \in Int /\ w[k] = v[k]
        /\ w[n + 1] = Flow(x) /\ w[n + 1] \in Int
    BY <1>1, <2>1
  <2> HIDE DEF v, w
  <2>5. SumOf(v) \in Int /\ SumOf(w) = SumOf(v) + w[n + 1]
    BY <1>1, <2>4, SumGrows
  <2> QED BY <2>2, <2>3, <2>4, <2>5
<1> QED BY <1>2, <1>3 DEF more

\* apply_execution writes cash, position and row so that they still agree.
LEMMA ApplyReconciles ==
  ASSUME LedgerTypeOK, LedgerReconciles, NoneDeposited,
         NEW i \in Intents, NEW r \in Reports, NEW now \in Nat,
         ExecutionRow(i, r, now) \in PaperExecution, ApplyExecution(i, r, now)
  PROVE  LedgerReconciles' /\ NoneDeposited'
<1> DEFINE x == ExecutionRow(i, r, now)
           old == positions[i.portfolio][i.asset]
<1>1. /\ x.portfolio = i.portfolio /\ x.asset = i.asset /\ x.side = i.side
      /\ x.quantity = r.quantity /\ x.fee = r.fee /\ Notional(x) = Notional(r)
  BY DEF ExecutionRow, Notional
<1>2. /\ r.quantity \in Nat /\ r.fee \in Nat /\ Notional(r) \in Nat
      /\ i.portfolio \in Portfolios /\ i.asset \in Assets
  BY NotionalType DEF Reports, Intents
<1>3. executions' = Append(executions, x) /\ deposited' = deposited
  BY DEF ApplyExecution
<1> HIDE DEF x
<1>4. x \in PaperExecution /\ executions \in Seq(PaperExecution)
  BY DEF x, LedgerTypeOK
<1>5. ASSUME NEW p \in Portfolios
      PROVE  portfolio'[p].cash = deposited'[p] + CashTotal(executions', p)
  <2>1. portfolio[p].cash = deposited[p] + CashTotal(executions, p)
    BY ReconcilesAsTotals
  <2>2. portfolio[p].cash \in Nat /\ deposited[p] \in Nat
    BY DEF LedgerTypeOK, PortfolioRow
  <2>3. /\ CashTotal(executions, p) \in Int
        /\ CashTotal(executions', p) =
             CashTotal(executions, p) + (IF x.portfolio = p THEN CashFlow(x) ELSE 0)
    BY <1>3, <1>4, TotalsGrow
  <2>4. CASE p = i.portfolio
    <3>1. portfolio'[p].cash = CashAfter(portfolio[p].cash, i, r)
      BY <2>4 DEF ApplyExecution, LedgerTypeOK, PortfolioRow
    <3>2. CashAfter(portfolio[p].cash, i, r) = portfolio[p].cash + CashFlow(x)
      BY <1>1, <1>2, <2>2 DEF CashAfter, CashFlow
    <3>3. CashFlow(x) \in Int
      BY <1>4, FlowType
    <3> QED BY <1>1, <1>3, <2>1, <2>2, <2>3, <2>4, <3>1, <3>2, <3>3
  <2>5. CASE p # i.portfolio
    <3>1. portfolio'[p] = portfolio[p]
      BY <2>5 DEF ApplyExecution, LedgerTypeOK
    <3> QED BY <1>1, <1>3, <2>1, <2>2, <2>3, <2>5, <3>1
  <2> QED BY <2>4, <2>5
<1>6. ASSUME NEW p \in Portfolios, NEW a \in Assets
      PROVE  positions'[p][a].quantity = QuantityTotal(executions', p, a)
  <2>1. positions[p][a].quantity = QuantityTotal(executions, p, a)
    BY ReconcilesAsTotals
  <2>2. positions[p][a].quantity \in Nat
    BY DEF LedgerTypeOK, PaperPosition
  <2>3. QuantityTotal(executions', p, a) = QuantityTotal(executions, p, a)
          + (IF x.portfolio = p THEN QuantityFlow(x, a) ELSE 0)
    BY <1>3, <1>4, TotalsGrow
  <2>4. CASE p = i.portfolio /\ a = i.asset
    <3>1. positions'[p][a] = Filled(positions[p][a], i, r)
      BY <2>4 DEF ApplyExecution, LedgerTypeOK
    <3>2. Filled(positions[p][a], i, r).quantity = positions[p][a].quantity + QuantityFlow(x, a)
      BY <1>1, <1>2, <2>2, <2>4 DEF Filled, QuantityFlow
    <3> QED BY <1>1, <2>1, <2>3, <2>4, <3>1, <3>2
  <2>5. CASE ~(p = i.portfolio /\ a = i.asset)
    <3>1. positions'[p][a] = positions[p][a]
      BY <2>5 DEF ApplyExecution, LedgerTypeOK
    <3>2. x.portfolio = p => QuantityFlow(x, a) = 0
      BY <1>1, <2>5 DEF QuantityFlow
    <3> QED BY <2>1, <2>2, <2>3, <3>1, <3>2
  <2> QED BY <2>4, <2>5
<1>7. LedgerReconciles'
  BY <1>5, <1>6, ReconcilesAsTotals
<1>8. NoneDeposited'
  <2> SUFFICES ASSUME NEW p \in Portfolios, portfolio'[p] = NoPortfolio
               PROVE  deposited[p] = 0
    BY <1>3 DEF NoneDeposited
  <2>1. portfolio[i.portfolio].identity = i.identity /\ i.identity # "none"
    BY LedgerAssumption DEF ApplyExecution, Accepts, Intents
  <2>2. portfolio'[i.portfolio].identity = i.identity
    BY <1>2, <2>1 DEF ApplyExecution, LedgerTypeOK, PortfolioRow
  <2>3. p # i.portfolio
    BY <2>1, <2>2 DEF NoPortfolio
  <2>4. portfolio'[p] = portfolio[p]
    BY <2>3 DEF ApplyExecution, LedgerTypeOK
  <2> QED BY <2>4 DEF NoneDeposited
<1> QED BY <1>7, <1>8

\* create stores the deposit as the balance of a portfolio without executions.
LEMMA CreateReconciles ==
  ASSUME LedgerTypeOK, LedgerReconciles, NoneDeposited,
         NEW q \in Portfolios, NEW identity \in Identities, NEW cash \in Nat,
         Create(q, identity, cash)
  PROVE  LedgerReconciles' /\ NoneDeposited'
<1>1. /\ portfolio[q] = NoPortfolio /\ UNCHANGED <<positions, executions>>
      /\ portfolio' = [portfolio EXCEPT ![q] = [identity |-> identity, cash |-> cash]]
      /\ deposited' = [deposited EXCEPT ![q] = cash]
  BY DEF Create
<1>2. /\ portfolio'[q] = [identity |-> identity, cash |-> cash] /\ deposited'[q] = cash
      /\ \A p \in Portfolios \ {q} : portfolio'[p] = portfolio[p] /\ deposited'[p] = deposited[p]
  BY <1>1 DEF LedgerTypeOK
<1>3. CashTotal(executions, q) = 0
  <2>1. 0 = 0 + CashTotal(executions, q)
    BY <1>1, ReconcilesAsTotals DEF NoneDeposited, NoPortfolio
  <2>2. CashTotal(executions, q) \in Int
    <3> DEFINE v == [n \in DOMAIN executions |->
                       IF executions[n].portfolio = q THEN CashFlow(executions[n]) ELSE 0]
    <3>1. /\ Len(executions) \in Nat /\ DOMAIN executions = 1 .. Len(executions)
          /\ \A n \in DOMAIN executions : executions[n] \in PaperExecution
      BY DEF LedgerTypeOK
    <3>2. \A n \in DOMAIN executions : CashFlow(executions[n]) \in Int
      BY <3>1, FlowType
    <3>3. v \in Seq(Int)
      BY <3>1, <3>2
    <3> HIDE DEF v
    <3>4. SumOf(v) \in Int
      BY <3>3, SumType
    <3> QED BY <3>4 DEF v, CashTotal
  <2> QED BY <2>1, <2>2
<1>4. LedgerReconciles'
  <2>1. ASSUME NEW p \in Portfolios
        PROVE  portfolio'[p].cash = deposited'[p] + CashTotal(executions', p)
    <3>1. CASE p = q
      BY <1>1, <1>2, <1>3, <3>1
    <3>2. CASE p # q
      <4>1. portfolio[p].cash = deposited[p] + CashTotal(executions, p)
        BY ReconcilesAsTotals
      <4> QED BY <1>1, <1>2, <3>2, <4>1
    <3> QED BY <3>1, <3>2
  <2>2. ASSUME NEW p \in Portfolios, NEW a \in Assets
        PROVE  positions'[p][a].quantity = QuantityTotal(executions', p, a)
    BY <1>1, ReconcilesAsTotals
  <2> QED BY <2>1, <2>2, ReconcilesAsTotals
<1>5. NoneDeposited'
  <2>1. portfolio'[q] # NoPortfolio
    BY <1>2, LedgerAssumption DEF NoPortfolio
  <2> QED BY <1>2, <2>1 DEF NoneDeposited
<1> QED BY <1>4, <1>5

\* The initial ledger is empty, and so are all sums.
LEMMA InitReconciles ==
  ASSUME LedgerInit
  PROVE  LedgerReconciles /\ NoneDeposited
<1>1. \A p : CashTotal(<<>>, p) = 0 /\ \A a : QuantityTotal(<<>>, p, a) = 0
  <2>1. ASSUME NEW p
        PROVE  [n \in DOMAIN <<>> |->
                  IF <<>>[n].portfolio = p THEN CashFlow(<<>>[n]) ELSE 0] = <<>>
    OBVIOUS
  <2>2. ASSUME NEW p, NEW a
        PROVE  [n \in DOMAIN <<>> |->
                  IF <<>>[n].portfolio = p THEN QuantityFlow(<<>>[n], a) ELSE 0] = <<>>
    OBVIOUS
  <2> QED BY <2>1, <2>2, SumEmpty DEF CashTotal, QuantityTotal
<1>2. executions = <<>>
  BY DEF LedgerInit
<1>3. \A p \in Portfolios :
        /\ portfolio[p].cash = 0 /\ deposited[p] = 0
        /\ \A a \in Assets : positions[p][a].quantity = 0
  BY DEF LedgerInit, NoPortfolio, NoPosition
<1>4. LedgerReconciles
  BY <1>1, <1>2, <1>3, ReconcilesAsTotals
<1>5. NoneDeposited
  BY <1>3 DEF NoneDeposited
<1> QED BY <1>4, <1>5

\* Whoever submits what, the stored balance and positions are what the rows of
\* paper_execution replay to.
THEOREM LedgerAlwaysReconciles == LedgerSpec => []LedgerReconciles
<1>1. LedgerInit => LedgerReconciles /\ NoneDeposited
  BY InitReconciles
<1>2. LedgerTypeOK /\ LedgerReconciles /\ NoneDeposited /\ [LedgerNext]_ledgerVars =>
      LedgerReconciles' /\ NoneDeposited'
  <2> SUFFICES ASSUME LedgerTypeOK, LedgerReconciles, NoneDeposited, [LedgerNext]_ledgerVars
               PROVE  LedgerReconciles' /\ NoneDeposited'
    OBVIOUS
  <2>1. CASE UNCHANGED ledgerVars
    BY <2>1, ReconcilesAsTotals DEF ledgerVars, NoneDeposited
  <2>2. ASSUME NEW p \in Portfolios, NEW identity \in Identities, NEW cash \in Deposits,
               Create(p, identity, cash)
        PROVE  LedgerReconciles' /\ NoneDeposited'
    <3>1. cash \in Nat
      BY LedgerAssumption, Zenon
    <3> QED BY <2>2, <3>1, CreateReconciles
  <2>3. ASSUME NEW i \in OrderIntent, NEW r \in ExecutionReport, NEW now \in Times,
               r.fee <= Notional(r), ApplyExecution(i, r, now)
        PROVE  LedgerReconciles' /\ NoneDeposited'
    <3>1. i \in Intents /\ r \in Reports /\ now \in Nat
      BY OrdersAreIntents
    <3>2. ExecutionRow(i, r, now) \in PaperExecution
      BY <2>3, <3>1, ApplyKeepsTypes
    <3> QED BY <2>3, <3>1, <3>2, ApplyReconciles
  <2> QED BY <2>1, <2>2, <2>3 DEF LedgerNext
<1> QED BY <1>1, <1>2, LedgerTypeCorrect, PTL DEF LedgerSpec
----------------------------------------------------------------------------
(* The cost basis *)

\* Rounding to the unit is off by at most half a unit for each unit held.
LEMMA RoundDivBounds ==
  ASSUME NEW a \in Nat, NEW b \in Nat, b > 0
  PROVE  2 * (b * RoundDiv(a, b) - a) \in -b .. b
<1> DEFINE q == a \div b
           m == a % b
<1>1. q \in Nat /\ m \in Nat /\ m < b /\ a = b * q + m
  OBVIOUS
<1>2. RoundDiv(a, b) = IF 2 * m > b \/ (2 * m = b /\ q % 2 = 1) THEN q + 1 ELSE q
  BY DEF RoundDiv
<1> HIDE DEF q, m
<1>3. b * q \in Nat /\ b * (q + 1) = b * q + b
  BY <1>1, ProductType
<1>4. CASE 2 * m > b \/ (2 * m = b /\ q % 2 = 1)
  <2>1. b * RoundDiv(a, b) - a = b - m
    BY <1>1, <1>2, <1>3, <1>4
  <2> QED BY <1>1, <1>4, <2>1
<1>5. CASE ~(2 * m > b \/ (2 * m = b /\ q % 2 = 1))
  <2>1. b * RoundDiv(a, b) - a = -m
    BY <1>1, <1>2, <1>3, <1>5
  <2>2. 2 * m <= b
    BY <1>1, <1>5
  <2> QED BY <1>1, <2>1, <2>2
<1> QED BY <1>4, <1>5

\* Further totals of a table of executions: realized P&L, units bought, BUY rows.
PnlTotal(rows, p) ==
  SumOf([n \in DOMAIN rows |-> IF rows[n].portfolio = p THEN rows[n].pnl ELSE 0])

BoughtTotal(rows, p) ==
  SumOf([n \in DOMAIN rows |->
           IF rows[n].portfolio = p THEN IF rows[n].side = "BUY" THEN rows[n].quantity ELSE 0
           ELSE 0])

BuysTotal(rows, p) ==
  SumOf([n \in DOMAIN rows |->
           IF rows[n].portfolio = p THEN IF rows[n].side = "BUY" THEN 1 ELSE 0 ELSE 0])

\* A fill moves these totals by what its row says.
LEMMA CostTotalsGrow ==
  ASSUME NEW rows \in Seq(PaperExecution), NEW x \in PaperExecution, NEW p
  PROVE  /\ PnlTotal(rows, p) \in Int
         /\ PnlTotal(Append(rows, x), p) =
              PnlTotal(rows, p) + (IF x.portfolio = p THEN x.pnl ELSE 0)
         /\ BoughtTotal(Append(rows, x), p) = BoughtTotal(rows, p) +
              (IF x.portfolio = p THEN IF x.side = "BUY" THEN x.quantity ELSE 0 ELSE 0)
         /\ BuysTotal(Append(rows, x), p) = BuysTotal(rows, p) +
              (IF x.portfolio = p THEN IF x.side = "BUY" THEN 1 ELSE 0 ELSE 0)
<1> DEFINE n == Len(rows)
           more == Append(rows, x)
<1>1. /\ n \in Nat /\ DOMAIN rows = 1 .. n /\ DOMAIN more = 1 .. n + 1
      /\ \A k \in 1 .. n : rows[k] \in PaperExecution /\ more[k] = rows[k]
      /\ more[n + 1] = x /\ n + 1 \in 1 .. n + 1
  OBVIOUS
<1>0. \A y \in PaperExecution : y.pnl \in Int /\ y.quantity \in Nat
  BY DEF PaperExecution
<1> HIDE DEF n, more
<1>2. /\ PnlTotal(rows, p) \in Int
      /\ PnlTotal(more, p) = PnlTotal(rows, p) + (IF x.portfolio = p THEN x.pnl ELSE 0)
  <2> DEFINE Flow(y) == IF y.portfolio = p THEN y.pnl ELSE 0
             v == [k \in DOMAIN rows |-> Flow(rows[k])]
             w == [k \in DOMAIN more |-> Flow(more[k])]
  <2>1. \A y \in PaperExecution : Flow(y) \in Int
    BY <1>0
  <2>2. PnlTotal(rows, p) = SumOf(v) /\ PnlTotal(more, p) = SumOf(w)
    BY DEF PnlTotal
  <2>3. Flow(x) = IF x.portfolio = p THEN x.pnl ELSE 0
    OBVIOUS
  <2> HIDE DEF Flow
  <2>4. /\ v = [k \in 1 .. n |-> v[k]] /\ w = [k \in 1 .. n + 1 |-> w[k]]
        /\ \A k \in 1 .. n : v[k] \in Int /\ w[k] = v[k]
        /\ w[n + 1] = Flow(x) /\ w[n + 1] \in Int
    BY <1>1, <2>1
  <2> HIDE DEF v, w
  <2>5. SumOf(v) \in Int /\ SumOf(w) = SumOf(v) + w[n + 1]
    BY <1>1, <2>4, SumGrows
  <2> QED BY <2>2, <2>3, <2>4, <2>5
<1>3. BoughtTotal(more, p) = BoughtTotal(rows, p) +
        (IF x.portfolio = p THEN IF x.side = "BUY" THEN x.quantity ELSE 0 ELSE 0)
  <2> DEFINE Flow(y) == IF y.portfolio = p THEN IF y.side = "BUY" THEN y.quantity ELSE 0 ELSE 0
             v == [k \in DOMAIN rows |-> Flow(rows[k])]
             w == [k \in DOMAIN more |-> Flow(more[k])]
  <2>1. \A y \in PaperExecution : Flow(y) \in Int
    BY <1>0
  <2>2. BoughtTotal(rows, p) = SumOf(v) /\ BoughtTotal(more, p) = SumOf(w)
    BY DEF BoughtTotal
  <2>3. Flow(x) = IF x.portfolio = p THEN IF x.side = "BUY" THEN x.quantity ELSE 0 ELSE 0
    OBVIOUS
  <2> HIDE DEF Flow
  <2>4. /\ v = [k \in 1 .. n |-> v[k]] /\ w = [k \in 1 .. n + 1 |-> w[k]]
        /\ \A k \in 1 .. n : v[k] \in Int /\ w[k] = v[k]
        /\ w[n + 1] = Flow(x) /\ w[n + 1] \in Int
    BY <1>1, <2>1
  <2> HIDE DEF v, w
  <2>5. SumOf(v) \in Int /\ SumOf(w) = SumOf(v) + w[n + 1]
    BY <1>1, <2>4, SumGrows
  <2> QED BY <2>2, <2>3, <2>4, <2>5
<1>4. BuysTotal(more, p) = BuysTotal(rows, p) +
        (IF x.portfolio = p THEN IF x.side = "BUY" THEN 1 ELSE 0 ELSE 0)
  <2> DEFINE Flow(y) == IF y.portfolio = p THEN IF y.side = "BUY" THEN 1 ELSE 0 ELSE 0
             v == [k \in DOMAIN rows |-> Flow(rows[k])]
             w == [k \in DOMAIN more |-> Flow(more[k])]
  <2>1. \A y \in PaperExecution : Flow(y) \in Int
    OBVIOUS
  <2>2. BuysTotal(rows, p) = SumOf(v) /\ BuysTotal(more, p) = SumOf(w)
    BY DEF BuysTotal
  <2>3. Flow(x) = IF x.portfolio = p THEN IF x.side = "BUY" THEN 1 ELSE 0 ELSE 0
    OBVIOUS
  <2> HIDE DEF Flow
  <2>4. /\ v = [k \in 1 .. n |-> v[k]] /\ w = [k \in 1 .. n + 1 |-> w[k]]
        /\ \A k \in 1 .. n : v[k] \in Int /\ w[k] = v[k]
        /\ w[n + 1] = Flow(x) /\ w[n + 1] \in Int
    BY <1>1, <2>1
  <2> HIDE DEF v, w
  <2>5. SumOf(v) \in Int /\ SumOf(w) = SumOf(v) + w[n + 1]
    BY <1>1, <2>4, SumGrows
  <2> QED BY <2>2, <2>3, <2>4, <2>5
<1> QED BY <1>2, <1>3, <1>4 DEF more

\* The realized P&L is an integer.
LEMMA PnlType ==
  ASSUME NEW rows \in Seq(PaperExecution), NEW p
  PROVE  PnlTotal(rows, p) \in Int
<1> DEFINE v == [n \in DOMAIN rows |-> IF rows[n].portfolio = p THEN rows[n].pnl ELSE 0]
<1>1. /\ Len(rows) \in Nat /\ DOMAIN rows = 1 .. Len(rows)
      /\ \A n \in DOMAIN rows : rows[n] \in PaperExecution
  OBVIOUS
<1>2. \A n \in DOMAIN rows : rows[n].pnl \in Int
  BY <1>1 DEF PaperExecution
<1>3. v \in Seq(Int)
  BY <1>1, <1>2
<1> HIDE DEF v
<1> QED BY <1>3, SumType DEF PnlTotal, v

\* What a position and all positions of a portfolio cost.
CostOf(position) == position.quantity * position.average

Cost(held) == SumOver(Assets, [a \in Assets |-> CostOf(held[a])])

\* The cost that CostBasisReconciles computes.
CostFold(held) == MapThenSumSet(LAMBDA a : held[a].quantity * held[a].average, Assets)

\* It is the sum over the assets.
LEMMA CostIsSum ==
  ASSUME NEW held
  PROVE  CostFold(held) = Cost(held)
<1>0. IsFiniteSet(Assets)
  BY LedgerAssumption
<1> DEFINE v == [a \in Assets |-> CostOf(held[a])]
           G(g) == g = [t \in SUBSET Assets |->
                          IF t = {} THEN 0
                          ELSE held[First(t)].quantity * held[First(t)].average
                               + g[t \ {First(t)}]]
           sums == CHOOSE g : G(g)
<1>1. CostFold(held) = sums[Assets]
  BY Zenon DEF CostFold, MapThenSumSet, MapThenFoldSet, First
<1>2. PICK g : SetSums(SUBSET Assets, v, g)
  BY <1>0, FoldsExist
<1>3. ASSUME NEW t \in SUBSET Assets, t # {}
      PROVE  v[First(t)] = held[First(t)].quantity * held[First(t)].average
  <2>1. First(t) \in Assets
    BY <1>3 DEF First
  <2> QED BY <2>1 DEF CostOf
<1> HIDE DEF v
<1>4. ASSUME NEW h
      PROVE  G(h) <=> SetSums(SUBSET Assets, v, h)
  BY <1>3 DEF SetSums
<1>5. G(g)
  BY <1>2, <1>4
<1>6. G(sums)
  BY <1>5, Zenon
<1>7. SetSums(SUBSET Assets, v, sums)
  BY <1>4, <1>6
<1> HIDE DEF sums
<1> QED BY <1>0, <1>1, <1>7, SumOverIs DEF Cost, v

\* The value that the books of a portfolio are off by.
Drift(row, held, deposit, rows, p) == row.cash + Cost(held) - deposit - PnlTotal(rows, p)

\* CostBasisReconciles for one portfolio.
CostIsKept(row, held, deposit, rows, p) ==
  2 * Drift(row, held, deposit, rows, p)
    \in -(BuysTotal(rows, p) * BoughtTotal(rows, p)) .. (BuysTotal(rows, p) * BoughtTotal(rows, p))

LEMMA CostBasisAsTotals ==
  /\ CostBasisReconciles <=>
       \A p \in Portfolios :
         CostIsKept(portfolio[p], positions[p], deposited[p], executions, p)
  /\ CostBasisReconciles' <=>
       \A p \in Portfolios :
         CostIsKept(portfolio'[p], positions'[p], deposited'[p], executions', p)
<1>1. CostBasisReconciles <=>
       \A p \in Portfolios :
         2 * (portfolio[p].cash + CostFold(positions[p]) - deposited[p] - PnlTotal(executions, p))
           \in -(BuysTotal(executions, p) * BoughtTotal(executions, p))
               .. (BuysTotal(executions, p) * BoughtTotal(executions, p))
  BY Zenon DEF CostBasisReconciles, Total, PnlTotal, BoughtTotal, BuysTotal, CostFold
<1>2. CostBasisReconciles' <=>
       \A p \in Portfolios :
         2 * (portfolio'[p].cash + CostFold(positions'[p]) - deposited'[p]
              - PnlTotal(executions', p))
           \in -(BuysTotal(executions', p) * BoughtTotal(executions', p))
               .. (BuysTotal(executions', p) * BoughtTotal(executions', p))
  BY Zenon DEF CostBasisReconciles, Total, PnlTotal, BoughtTotal, BuysTotal, CostFold,
               MapThenSumSet, MapThenFoldSet
<1> QED BY <1>1, <1>2, CostIsSum, Zenon DEF CostIsKept, Drift

\* The totals of the bought are natural numbers, and no more is held than was bought.
HeldWasBought ==
  \A p \in Portfolios :
    /\ BoughtTotal(executions, p) \in Nat /\ BuysTotal(executions, p) \in Nat
    /\ \A a \in Assets : positions[p][a].quantity <= BoughtTotal(executions, p)

\* A fill of one position moves the cost by that of the position.
LEMMA CostMoves ==
  ASSUME NEW held \in [Assets -> PaperPosition], NEW a \in Assets, NEW new \in PaperPosition
  PROVE  /\ Cost(held) \in Int
         /\ Cost([held EXCEPT ![a] = new]) = Cost(held) - CostOf(held[a]) + CostOf(new)
<1> DEFINE after == [held EXCEPT ![a] = new]
           v == [b \in Assets |-> CostOf(held[b])]
           w == [b \in Assets |-> CostOf(after[b])]
<1>1. IsFiniteSet(Assets)
  BY LedgerAssumption
<1>2. ASSUME NEW x \in PaperPosition PROVE CostOf(x) \in Int
  <2>1. x.quantity \in Nat /\ x.average \in Nat
    BY DEF PaperPosition
  <2> QED BY <2>1, ProductType DEF CostOf
<1>3. /\ after \in [Assets -> PaperPosition] /\ after[a] = new
      /\ \A b \in Assets \ {a} : after[b] = held[b]
  OBVIOUS
<1> HIDE DEF after
<1>4. v[a] = CostOf(held[a]) /\ w[a] = CostOf(new)
  BY <1>3
<1>5. \A b \in Assets : v[b] \in Int /\ w[b] \in Int
  BY <1>2, <1>3
<1>6. \A b \in Assets : b # a => v[b] = w[b]
  BY <1>3
<1>7. Cost(held) = SumOver(Assets, v) /\ Cost(after) = SumOver(Assets, w)
  BY DEF Cost
<1> HIDE DEF v, w
<1>8. SumOver(Assets, v) \in Int /\ SumOver(Assets, w) = SumOver(Assets, v) - v[a] + w[a]
  <2> DEFINE R == Assets \ {a}
  <2>1. SumOver(Assets, v) = v[a] + SumOver(R, v) /\ SumOver(Assets, w) = w[a] + SumOver(R, w)
    BY <1>1, <1>5, SumOverLaws
  <2>2. IsFiniteSet(R) /\ (\A b \in R : v[b] \in Int) /\ \A b \in R : w[b] = v[b]
    BY <1>1, <1>5, <1>6, FS_Subset
  <2> HIDE DEF R
  <2>3. SumOver(R, v) \in Int /\ SumOver(R, w) = SumOver(R, v)
    BY <2>2, SumOverLaws
  <2>4. v[a] \in Int /\ w[a] \in Int
    BY <1>5
  <2> QED BY <2>1, <2>3, <2>4
<1> QED BY <1>4, <1>7, <1>8 DEF after

\* The cost of positions is an integer.
LEMMA CostType ==
  ASSUME NEW held \in [Assets -> PaperPosition]
  PROVE  Cost(held) \in Int
<1> DEFINE v == [a \in Assets |-> CostOf(held[a])]
<1>1. \A a \in Assets : v[a] \in Int
  <2>1. \A a \in Assets : held[a].quantity \in Nat /\ held[a].average \in Nat
    BY DEF PaperPosition
  <2> QED BY <2>1, ProductType DEF CostOf
<1> HIDE DEF v
<1> QED BY <1>1, LedgerAssumption, SumOverLaws DEF Cost, v

\* Positions that cost nothing cost nothing together.
LEMMA NothingCosts ==
  ASSUME NEW held, \A a \in Assets : CostOf(held[a]) = 0
  PROVE  Cost(held) = 0
<1> DEFINE v == [a \in Assets |-> CostOf(held[a])]
           g == [t \in SUBSET Assets |-> 0]
<1>1. \A a \in Assets : v[a] = 0
  OBVIOUS
<1> HIDE DEF v
<1>2. SetSums(SUBSET Assets, v, g)
  <2>1. ASSUME NEW t \in SUBSET Assets, t # {}
        PROVE  v[First(t)] + g[t \ {First(t)}] = 0
    <3>1. First(t) \in Assets
      BY <2>1 DEF First
    <3> QED BY <1>1, <3>1
  <2> QED BY <2>1 DEF SetSums
<1>3. g[Assets] = 0
  OBVIOUS
<1> HIDE DEF g
<1>4. SumOver(Assets, v) = 0
  BY <1>2, <1>3, LedgerAssumption, SumOverIs
<1> QED BY <1>4 DEF Cost, v

\* Cash and cost move by no more than the rounding of a BUY; a SELL takes cost and
\* realized P&L out exactly.
LEMMA FillKeepsCost ==
  ASSUME NEW i \in Intents, NEW r \in Reports, NEW old \in PaperPosition, NEW cash \in Nat,
         r.quantity > 0, i.side = "SELL" => r.quantity <= old.quantity
  PROVE  LET moved == CashAfter(cash, i, r) - cash + CostOf(Filled(old, i, r)) - CostOf(old)
                      - RealizedPnl(old, i, r)
         IN  /\ i.side = "BUY" =>
                  2 * moved \in -(old.quantity + r.quantity) .. (old.quantity + r.quantity)
             /\ i.side = "SELL" => moved = 0
<1> DEFINE q == old.quantity
           avg == old.average
           n == r.quantity
           moved == CashAfter(cash, i, r) - cash + CostOf(Filled(old, i, r)) - CostOf(old)
                    - RealizedPnl(old, i, r)
<1>1. q \in Nat /\ avg \in Nat /\ n \in Nat /\ n > 0 /\ r.fee \in Nat /\ r.price \in Nat
  BY DEF PaperPosition, Reports
<1>2. CostOf(old) = q * avg /\ q * avg \in Nat
  BY <1>1, ProductType DEF CostOf
<1>3. Notional(r) = n * r.price /\ n * r.price \in Nat
  BY <1>1, ProductType DEF Notional
<1>4. CASE i.side = "BUY"
  <2> DEFINE X == q * avg + Notional(r) + r.fee
             R == RoundDiv(X, q + n)
  <2>1. X \in Nat /\ q + n \in Nat /\ q + n > 0
    BY <1>1, <1>2, <1>3
  <2>2. Filled(old, i, r) = [quantity |-> q + n, average |-> R]
    BY <1>4 DEF Filled
  <2>3. CashAfter(cash, i, r) = cash - (Notional(r) + r.fee) /\ RealizedPnl(old, i, r) = 0
    BY <1>4 DEF CashAfter, RealizedPnl
  <2>4. X = q * avg + Notional(r) + r.fee
    OBVIOUS
  <2> HIDE DEF X
  <2>5. R \in Nat /\ 2 * ((q + n) * R - X) \in -(q + n) .. (q + n)
    BY <2>1, RoundDivType, RoundDivBounds
  <2> HIDE DEF R
  <2>6. CostOf(Filled(old, i, r)) = (q + n) * R /\ (q + n) * R \in Nat
    BY <2>1, <2>2, <2>5, ProductType DEF CostOf
  <2> HIDE DEF q, avg, n
  <2>7. moved = (q + n) * R - X
    BY <1>1, <1>2, <1>3, <2>3, <2>4, <2>6
  <2>8. 2 * moved \in -(q + n) .. (q + n)
    BY <2>5, <2>7
  <2> QED BY <1>4, <2>8 DEF q, n
<1>5. CASE i.side = "SELL"
  <2>1. n <= q /\ i.side # "BUY"
    BY <1>5
  <2>2. Filled(old, i, r) = [quantity |-> q - n, average |-> IF n = q THEN 0 ELSE avg]
    BY <2>1 DEF Filled
  <2>3. CashAfter(cash, i, r) = cash + Notional(r) - r.fee
    BY <2>1 DEF CashAfter
  <2>4. RealizedPnl(old, i, r) = (r.price - avg) * n - r.fee
    BY <2>1 DEF RealizedPnl
  <2>5. CostOf(Filled(old, i, r)) = (q - n) * avg
    <3>1. CASE n = q
      BY <1>1, <2>2, <3>1 DEF CostOf
    <3>2. CASE n # q
      BY <2>2, <3>2 DEF CostOf
    <3> QED BY <3>1, <3>2
  <2> HIDE DEF q, avg, n
  <2>6. (q - n) * avg = q * avg - n * avg /\ n * avg \in Nat
    BY <1>1, ProductType
  <2>7. (r.price - avg) * n = n * r.price - n * avg
    BY <1>1
  <2>8. moved = 0
    BY <1>1, <1>2, <1>3, <2>3, <2>4, <2>5, <2>6, <2>7
  <2> QED BY <1>5, <2>8
<1> QED BY <1>4, <1>5 DEF Intents, Sides

\* The room that one more BUY makes for its rounding.
LEMMA RoomGrows ==
  ASSUME NEW buys \in Nat, NEW bought \in Nat, NEW q \in Nat, NEW n \in Nat, q <= bought,
         NEW d \in Int, 2 * d \in -(buys * bought) .. (buys * bought),
         NEW m \in Int, 2 * m \in -(q + n) .. (q + n)
  PROVE  2 * (d + m) \in -((buys + 1) * (bought + n)) .. ((buys + 1) * (bought + n))
<1>1. (buys + 1) * (bought + n) = buys * bought + buys * n + bought + n
  OBVIOUS
<1>2. buys * bought \in Nat /\ buys * n \in Nat
  BY ProductType
<1> DEFINE e == buys * bought
           f == buys * n
<1> HIDE DEF e, f
<1>3. e \in Nat /\ f \in Nat /\ (buys + 1) * (bought + n) = e + f + bought + n
  BY <1>1, <1>2 DEF e, f
<1>4. 2 * d \in -e .. e
  BY DEF e
<1>5. 2 * (d + m) \in -(e + f + bought + n) .. (e + f + bought + n)
  BY <1>3, <1>4
<1> QED BY <1>3, <1>5

\* apply_execution keeps the cost basis.
LEMMA ApplyKeepsCost ==
  ASSUME LedgerTypeOK, CostBasisReconciles, HeldWasBought,
         NEW i \in Intents, NEW r \in Reports, NEW now \in Nat,
         ExecutionRow(i, r, now) \in PaperExecution, ApplyExecution(i, r, now)
  PROVE  CostBasisReconciles' /\ HeldWasBought'
<1> DEFINE x == ExecutionRow(i, r, now)
           P == i.portfolio
           A == i.asset
           old == positions[P][A]
           new == Filled(old, i, r)
<1>1. /\ x.portfolio = P /\ x.side = i.side /\ x.quantity = r.quantity
      /\ x.pnl = RealizedPnl(old, i, r)
  BY DEF ExecutionRow
<1>2. r.quantity \in Nat /\ P \in Portfolios /\ A \in Assets /\ i.side \in {"BUY", "SELL"}
  BY DEF Reports, Intents, Sides
<1>3. executions' = Append(executions, x) /\ deposited' = deposited
  BY DEF ApplyExecution
<1> HIDE DEF x
<1>4. x \in PaperExecution /\ executions \in Seq(PaperExecution) /\ x.pnl \in Int
  BY DEF x, LedgerTypeOK, PaperExecution
<1>5. old \in PaperPosition /\ positions[P] \in [Assets -> PaperPosition]
  BY <1>2 DEF LedgerTypeOK
<1>6. r.quantity > 0 /\ (i.side = "SELL" => r.quantity <= old.quantity)
  BY DEF ApplyExecution, Accepts
<1>7. new \in PaperPosition
  BY <1>5, <1>6, FilledType
<1>8. positions'[P] = [positions[P] EXCEPT ![A] = new]
  BY <1>2 DEF ApplyExecution, LedgerTypeOK
<1>9. portfolio'[P].cash = CashAfter(portfolio[P].cash, i, r)
  BY <1>2 DEF ApplyExecution, LedgerTypeOK, PortfolioRow
<1>10. \A p \in Portfolios \ {P} : portfolio'[p] = portfolio[p] /\ positions'[p] = positions[p]
  BY DEF ApplyExecution, LedgerTypeOK
<1>11. new.quantity = old.quantity + (IF i.side = "BUY" THEN r.quantity ELSE -r.quantity)
  BY <1>2, <1>5 DEF Filled, PaperPosition
<1> HIDE DEF new
<1>12. ASSUME NEW p \in Portfolios
       PROVE  /\ PnlTotal(executions, p) \in Int
              /\ PnlTotal(executions', p) =
                   PnlTotal(executions, p) + (IF P = p THEN x.pnl ELSE 0)
              /\ BoughtTotal(executions', p) = BoughtTotal(executions, p) +
                   (IF P = p THEN IF i.side = "BUY" THEN r.quantity ELSE 0 ELSE 0)
              /\ BuysTotal(executions', p) = BuysTotal(executions, p) +
                   (IF P = p THEN IF i.side = "BUY" THEN 1 ELSE 0 ELSE 0)
  BY <1>1, <1>3, <1>4, CostTotalsGrow
<1>13. ASSUME NEW p \in Portfolios
       PROVE  /\ BoughtTotal(executions, p) \in Nat /\ BuysTotal(executions, p) \in Nat
              /\ \A a \in Assets : /\ positions[p][a].quantity <= BoughtTotal(executions, p)
                                   /\ positions[p][a].quantity \in Nat
  BY DEF HeldWasBought, LedgerTypeOK, PaperPosition
<1>14. HeldWasBought'
  <2> SUFFICES ASSUME NEW p \in Portfolios
               PROVE  /\ BoughtTotal(executions', p) \in Nat /\ BuysTotal(executions', p) \in Nat
                      /\ \A a \in Assets :
                           positions'[p][a].quantity <= BoughtTotal(executions', p)
    BY DEF HeldWasBought
  <2>1. BoughtTotal(executions', p) \in Nat /\ BuysTotal(executions', p) \in Nat
    BY <1>2, <1>12, <1>13
  <2>2. ASSUME NEW a \in Assets
        PROVE  positions'[p][a].quantity <= BoughtTotal(executions', p)
    <3>1. CASE p = P /\ a = A
      <4>1. positions'[p][a].quantity = new.quantity
        BY <1>5, <1>8, <3>1
      <4>2. old.quantity <= BoughtTotal(executions, p) /\ old.quantity \in Nat
        BY <1>13, <3>1
      <4> HIDE DEF old
      <4> QED BY <1>2, <1>11, <1>12, <1>13, <3>1, <4>1, <4>2
    <3>2. CASE ~(p = P /\ a = A)
      <4>1. positions'[p][a] = positions[p][a]
        BY <1>5, <1>8, <1>10, <3>2
      <4> QED BY <1>2, <1>12, <1>13, <4>1
    <3> QED BY <3>1, <3>2
  <2> QED BY <2>1, <2>2
<1>15. ASSUME NEW p \in Portfolios
       PROVE  CostIsKept(portfolio'[p], positions'[p], deposited'[p], executions', p)
  <2> DEFINE d == Drift(portfolio[p], positions[p], deposited[p], executions, p)
             e == Drift(portfolio'[p], positions'[p], deposited'[p], executions', p)
             buys == BuysTotal(executions, p)
             bought == BoughtTotal(executions, p)
  <2>1. 2 * d \in -(buys * bought) .. (buys * bought)
    BY CostBasisAsTotals DEF CostIsKept
  <2>2. portfolio[p].cash \in Nat /\ deposited[p] \in Nat
    BY DEF LedgerTypeOK, PortfolioRow
  <2>3. positions[p] \in [Assets -> PaperPosition]
    BY DEF LedgerTypeOK
  <2>4. Cost(positions[p]) \in Int
    BY <1>2, <1>7, <2>3, CostMoves
  <2>5. d \in Int
    BY <1>12, <2>2, <2>4 DEF Drift
  <2>6. CASE p # P
    <3>1. /\ e = d /\ BuysTotal(executions', p) = buys
          /\ BoughtTotal(executions', p) = bought
      BY <1>3, <1>10, <1>12, <1>13, <2>6 DEF Drift
    <3> QED BY <2>1, <3>1 DEF CostIsKept
  <2>7. CASE p = P
    <3> DEFINE m == CashAfter(portfolio[p].cash, i, r) - portfolio[p].cash
                    + CostOf(new) - CostOf(old) - RealizedPnl(old, i, r)
    <3>1. Cost(positions'[p]) = Cost(positions[p]) - CostOf(old) + CostOf(new)
      BY <1>2, <1>7, <1>8, <2>3, <2>7, CostMoves
    <3>2. CostOf(old) \in Int /\ CostOf(new) \in Int
      <4>1. /\ old.quantity \in Nat /\ old.average \in Nat
            /\ new.quantity \in Nat /\ new.average \in Nat
        BY <1>5, <1>7 DEF PaperPosition
      <4> QED BY <4>1, ProductType DEF CostOf
    <3>3. portfolio'[p].cash \in Int
      <4>1. Notional(r) \in Nat /\ r.fee \in Nat
        BY NotionalType DEF Reports
      <4> QED BY <1>9, <2>2, <2>7, <4>1 DEF CashAfter
    <3>4. RealizedPnl(old, i, r) \in Int
      BY <1>1, <1>4
    <3> HIDE DEF old
    <3>5. e = d + m /\ m \in Int
      <4>1. portfolio'[p].cash = CashAfter(portfolio[p].cash, i, r) /\ deposited'[p] = deposited[p]
        BY <1>3, <1>9, <2>7
      <4>2. /\ PnlTotal(executions', p) = PnlTotal(executions, p) + RealizedPnl(old, i, r)
            /\ PnlTotal(executions, p) \in Int
        BY <1>1, <1>12, <2>7
      <4>3. e = portfolio'[p].cash + (Cost(positions[p]) - CostOf(old) + CostOf(new))
                - deposited[p] - (PnlTotal(executions, p) + RealizedPnl(old, i, r))
        BY <3>1, <4>1, <4>2 DEF Drift
      <4>4. d = portfolio[p].cash + Cost(positions[p]) - deposited[p] - PnlTotal(executions, p)
        BY DEF Drift
      <4>5. m = portfolio'[p].cash - portfolio[p].cash + CostOf(new) - CostOf(old)
                - RealizedPnl(old, i, r)
        BY <4>1
      <4> HIDE DEF d, e, m
      <4> QED BY <2>2, <2>4, <3>2, <3>3, <3>4, <4>2, <4>3, <4>4, <4>5
    <3>6. /\ i.side = "BUY" => 2 * m \in -(old.quantity + r.quantity) .. (old.quantity + r.quantity)
          /\ i.side = "SELL" => m = 0
      BY <1>5, <1>6, <2>2, FillKeepsCost DEF new
    <3> HIDE DEF m, d, e
    <3>7. CASE i.side = "BUY"
      <4>1. BuysTotal(executions', p) = buys + 1 /\ BoughtTotal(executions', p) = bought + r.quantity
        BY <1>12, <2>7, <3>7
      <4>2. old.quantity <= bought /\ old.quantity \in Nat /\ bought \in Nat /\ buys \in Nat
        BY <1>2, <1>13, <2>7 DEF old
      <4> HIDE DEF buys, bought
      <4>3. 2 * (d + m) \in -((buys + 1) * (bought + r.quantity))
                             .. ((buys + 1) * (bought + r.quantity))
        BY <1>2, <2>1, <2>5, <3>5, <3>6, <3>7, <4>2, RoomGrows
      <4> QED BY <3>5, <4>1, <4>3 DEF CostIsKept, e
    <3>8. CASE i.side = "SELL"
      <4>1. BuysTotal(executions', p) = buys /\ BoughtTotal(executions', p) = bought
        BY <1>12, <1>13, <2>7, <3>8
      <4>2. e = d
        BY <2>5, <3>5, <3>6, <3>8
      <4> QED BY <2>1, <4>1, <4>2 DEF CostIsKept, e
    <3> QED BY <1>2, <3>7, <3>8
  <2> QED BY <2>6, <2>7
<1>16. CostBasisReconciles'
  BY <1>15, CostBasisAsTotals
<1> QED BY <1>14, <1>16

\* create deposits what it stores.
LEMMA CreateKeepsCost ==
  ASSUME LedgerTypeOK, CostBasisReconciles, HeldWasBought, NoneDeposited,
         NEW q \in Portfolios, NEW identity \in Identities, NEW cash \in Nat,
         Create(q, identity, cash)
  PROVE  CostBasisReconciles' /\ HeldWasBought'
<1>1. /\ portfolio[q] = NoPortfolio /\ UNCHANGED <<positions, executions>>
      /\ portfolio'[q] = [identity |-> identity, cash |-> cash] /\ deposited'[q] = cash
      /\ \A p \in Portfolios \ {q} : portfolio'[p] = portfolio[p] /\ deposited'[p] = deposited[p]
  BY DEF Create, LedgerTypeOK
<1>2. HeldWasBought'
  BY <1>1 DEF HeldWasBought
<1>3. ASSUME NEW p \in Portfolios
      PROVE  CostIsKept(portfolio'[p], positions'[p], deposited'[p], executions', p)
  <2>1. CostIsKept(portfolio[p], positions[p], deposited[p], executions, p)
    BY CostBasisAsTotals
  <2>2. CASE p # q
    BY <1>1, <2>1, <2>2
  <2>3. CASE p = q
    <3>1. portfolio[p].cash = 0 /\ deposited[p] = 0
      BY <1>1, <2>3 DEF NoPortfolio, NoneDeposited
    <3>2. portfolio'[p].cash = cash /\ deposited'[p] = cash
      BY <1>1, <2>3
    <3>3. Cost(positions[p]) \in Int
      <4>1. positions[p] \in [Assets -> PaperPosition]
        BY DEF LedgerTypeOK
      <4> QED BY <4>1, CostType
    <3>4. PnlTotal(executions, p) \in Int
      BY PnlType DEF LedgerTypeOK
    <3>5. Drift(portfolio'[p], positions'[p], deposited'[p], executions', p)
            = Drift(portfolio[p], positions[p], deposited[p], executions, p)
      BY <1>1, <3>1, <3>2, <3>3, <3>4 DEF Drift
    <3> QED BY <1>1, <2>1, <3>5 DEF CostIsKept
  <2> QED BY <2>2, <2>3
<1> QED BY <1>2, <1>3, CostBasisAsTotals

\* An empty table has no totals.
LEMMA NoTotals ==
  /\ \A p : CashTotal(<<>>, p) = 0 /\ \A a : QuantityTotal(<<>>, p, a) = 0
  /\ \A p : PnlTotal(<<>>, p) = 0 /\ BoughtTotal(<<>>, p) = 0 /\ BuysTotal(<<>>, p) = 0
<1>1. ASSUME NEW p
      PROVE  /\ CashTotal(<<>>, p) = 0 /\ PnlTotal(<<>>, p) = 0
             /\ BoughtTotal(<<>>, p) = 0 /\ BuysTotal(<<>>, p) = 0
  <2>1. /\ [n \in DOMAIN <<>> |-> IF <<>>[n].portfolio = p THEN CashFlow(<<>>[n]) ELSE 0] = <<>>
        /\ [n \in DOMAIN <<>> |-> IF <<>>[n].portfolio = p THEN <<>>[n].pnl ELSE 0] = <<>>
        /\ [n \in DOMAIN <<>> |->
              IF <<>>[n].portfolio = p
              THEN IF <<>>[n].side = "BUY" THEN <<>>[n].quantity ELSE 0 ELSE 0] = <<>>
        /\ [n \in DOMAIN <<>> |->
              IF <<>>[n].portfolio = p
              THEN IF <<>>[n].side = "BUY" THEN 1 ELSE 0 ELSE 0] = <<>>
    OBVIOUS
  <2> QED BY <2>1, SumEmpty DEF CashTotal, PnlTotal, BoughtTotal, BuysTotal
<1>2. ASSUME NEW p, NEW a PROVE QuantityTotal(<<>>, p, a) = 0
  <2>1. [n \in DOMAIN <<>> |->
           IF <<>>[n].portfolio = p THEN QuantityFlow(<<>>[n], a) ELSE 0] = <<>>
    OBVIOUS
  <2> QED BY <2>1, SumEmpty DEF QuantityTotal
<1> QED BY <1>1, <1>2

\* The empty ledger.
LEMMA InitKeepsCost ==
  ASSUME LedgerInit
  PROVE  CostBasisReconciles /\ HeldWasBought
<1>1. \A p : PnlTotal(<<>>, p) = 0 /\ BoughtTotal(<<>>, p) = 0 /\ BuysTotal(<<>>, p) = 0
  BY NoTotals
<1>2. executions = <<>>
  BY DEF LedgerInit
<1>3. \A p \in Portfolios :
        /\ portfolio[p].cash = 0 /\ deposited[p] = 0
        /\ \A a \in Assets : positions[p][a] = NoPosition
        /\ positions[p] \in [Assets -> PaperPosition]
  BY DEF LedgerInit, NoPortfolio, NoPosition, PaperPosition
<1>4. HeldWasBought
  BY <1>1, <1>2, <1>3 DEF HeldWasBought, NoPosition
<1>5. ASSUME NEW p \in Portfolios
      PROVE  CostIsKept(portfolio[p], positions[p], deposited[p], executions, p)
  <2>1. Cost(positions[p]) = 0
    <3>1. \A a \in Assets : CostOf(positions[p][a]) = 0
      BY <1>3 DEF CostOf, NoPosition
    <3> QED BY <3>1, NothingCosts
  <2>2. Drift(portfolio[p], positions[p], deposited[p], executions, p) = 0
    BY <1>1, <1>2, <1>3, <2>1 DEF Drift
  <2> QED BY <1>1, <1>2, <2>2 DEF CostIsKept
<1> QED BY <1>4, <1>5, CostBasisAsTotals

\* Whoever submits what, cash and positions at cost are worth the deposit and the
\* realized P&L, up to half a unit for every unit held after a BUY.
THEOREM LedgerKeepsCostBasis == LedgerSpec => []CostBasisReconciles
<1>1. LedgerInit => NoneDeposited /\ CostBasisReconciles /\ HeldWasBought
  BY InitReconciles, InitKeepsCost
<1>2. LedgerTypeOK /\ LedgerReconciles /\ NoneDeposited /\ CostBasisReconciles /\ HeldWasBought
      /\ [LedgerNext]_ledgerVars => NoneDeposited' /\ CostBasisReconciles' /\ HeldWasBought'
  <2> SUFFICES ASSUME LedgerTypeOK, LedgerReconciles, NoneDeposited, CostBasisReconciles,
                      HeldWasBought, [LedgerNext]_ledgerVars
               PROVE  NoneDeposited' /\ CostBasisReconciles' /\ HeldWasBought'
    OBVIOUS
  <2>1. CASE UNCHANGED ledgerVars
    BY <2>1, CostBasisAsTotals DEF ledgerVars, NoneDeposited, HeldWasBought
  <2>2. ASSUME NEW p \in Portfolios, NEW identity \in Identities, NEW cash \in Deposits,
               Create(p, identity, cash)
        PROVE  NoneDeposited' /\ CostBasisReconciles' /\ HeldWasBought'
    <3>1. cash \in Nat
      BY LedgerAssumption, Zenon
    <3> QED BY <2>2, <3>1, CreateReconciles, CreateKeepsCost
  <2>3. ASSUME NEW i \in OrderIntent, NEW r \in ExecutionReport, NEW now \in Times,
               r.fee <= Notional(r), ApplyExecution(i, r, now)
        PROVE  NoneDeposited' /\ CostBasisReconciles' /\ HeldWasBought'
    <3>1. i \in Intents /\ r \in Reports /\ now \in Nat
      BY OrdersAreIntents
    <3>2. ExecutionRow(i, r, now) \in PaperExecution
      BY <2>3, <3>1, ApplyKeepsTypes
    <3> QED BY <2>3, <3>1, <3>2, ApplyReconciles, ApplyKeepsCost
  <2> QED BY <2>1, <2>2, <2>3 DEF LedgerNext
<1> QED BY <1>1, <1>2, LedgerTypeCorrect, LedgerAlwaysReconciles, PTL DEF LedgerSpec
=============================================================================
