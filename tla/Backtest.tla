------------------------------ MODULE Backtest ------------------------------
(***************************************************************************)
(* The backtest: market data known at a time, the market regime, the        *)
(* universe that was eligible, the momentum strategy, the allocation, the   *)
(* risk check, and the engine that walks the timeline with them.            *)
(*                                                                          *)
(* A market maps each asset to its candles, a function on the days it has   *)
(* one; the candle of day d opens at d and is available at d + 1 (the bars  *)
(* of an intraday backtest are such days).  An asset is a number, one of    *)
(* them BTC; prices are powers of two, so that the logarithm of a price is  *)
(* exact.  Weights and rates are in parts of Unit, a quotient rounds down.  *)
(***************************************************************************)
EXTENDS Integers, FiniteSetsExt, SequencesExt, Functions

CONSTANTS
    None,
    BTC,          \* the market's reference asset
    Unit,         \* parts of one in a weight, a rate or an equity
    Log           \* the logarithm of each price

(***************************************************************************)
(* What is known                                                            *)
(***************************************************************************)
AvailableAt(d) == d + 1

\* A set of numbers, the smallest first.
Sorted(S) ==
    LET low == Min(S)
    IN IF S = {} THEN <<>>
       ELSE SelectSeq([i \in 1 .. Max(S) - low + 1 |-> low + i - 1], LAMBDA d : d \in S)

\* A plausible bug: a candle counts as known once it has opened.
KnownOnceOpen(candles, asOf) ==
    LET known == Sorted({d \in DOMAIN candles : d <= asOf})
    IN [i \in DOMAIN known |-> candles[known[i]]]

KnownAt(candles, asOf) ==
    LET known == Sorted({d \in DOMAIN candles : AvailableAt(d) <= asOf})
    IN [i \in DOMAIN known |-> candles[known[i]]]

Fetch(market, start, end) ==
    [a \in DOMAIN market |->
       Restrict(market[a], {d \in DOMAIN market[a] : start <= d /\ d < end})]

Latest(seq, n) == SubSeq(seq, Len(seq) - n + 1, Len(seq))
Total(seq) == FoldLeft(LAMBDA x, y : x + y, 0, seq)
Closes(candles) == [i \in DOMAIN candles |-> candles[i].close]

QuoteVolume(candles, n) ==
    Total([i \in 1 .. n |-> Latest(candles, n)[i].close * Latest(candles, n)[i].volume])

(***************************************************************************)
(* Regime: daily closes, or the closes of completed periods of several bars *)
(***************************************************************************)
PeriodCloses(candles, asOf, bars) ==
    LET complete == {d \in DOMAIN candles :
                       AvailableAt(d) <= asOf /\ (d \div bars) * bars + bars <= asOf}
        periods == Sorted({d \div bars : d \in complete})
    IN [i \in DOMAIN periods |->
          candles[Max({d \in complete : d \div bars = periods[i]})].close]

\* The deviation of the last returns, squared and scaled, is at most the limit.
CalmEnough(closes, short, limit) ==
    LET r == [i \in 1 .. short |->
                Log[Latest(closes, short)[i]] - Log[Latest(closes, short + 1)[i]]]
        squares == Total([i \in 1 .. short |-> r[i] * r[i]])
    IN short * squares - Total(r) * Total(r) <= limit * short * (short - 1)

Trend(closes, model) ==
    LET latest == closes[Len(closes)]
        long == Total(Latest(closes, model.long))
        short == Total(Latest(closes, model.short))
    IN CASE Len(closes) < model.long -> "NEUTRAL"
         [] /\ latest * model.long > long /\ short * model.long > long * model.short
            /\ CalmEnough(closes, model.short, model.volatility) -> "RISK_ON"
         [] latest * model.long < long -> "RISK_OFF"
         [] OTHER -> "NEUTRAL"

Regime(market, asOf, model) ==
    IF BTC \notin DOMAIN market THEN "NEUTRAL"
    ELSE Trend(IF model.bars = 1 THEN Closes(KnownAt(market[BTC], asOf))
               ELSE PeriodCloses(market[BTC], asOf, model.bars), model)

(***************************************************************************)
(* Universe: the latest snapshot known, warnings, history and liquidity     *)
(***************************************************************************)
SnapshotKnownAt(history, asOf) ==
    LET known == {s \in history : s.observedAt <= asOf}
    IN IF known = {} THEN None ELSE CHOOSE s \in known : \A o \in known : o.observedAt <= s.observedAt

Eligible(market, history, asOf, u) ==
    LET snapshot == SnapshotKnownAt(history, asOf)
        known == [a \in DOMAIN market |-> KnownAt(market[a], asOf)]
        liquid == {a \in DOMAIN market :
                     /\ a \in DOMAIN snapshot.warning /\ ~snapshot.warning[a]
                     /\ Len(known[a]) >= u.lookback
                     /\ QuoteVolume(known[a], u.lookback) >= u.minimumVolume * u.lookback}
        volume(a) == QuoteVolume(known[a], u.lookback)
        ranked == SetToSortSeq(liquid, LAMBDA a, b :
                     volume(a) > volume(b) \/ (volume(a) = volume(b) /\ a < b))
        selected == SubSeq(ranked, 1, Min({u.maximumAssets, Len(ranked)}))
    IN IF snapshot = None THEN {}
       ELSE IF BTC \in liquid \ Range(selected)
            THEN Range(Front(selected)) \cup {BTC}
            ELSE Range(selected)

(***************************************************************************)
(* Strategy, allocation and risk                                            *)
(***************************************************************************)
\* The assets that rose over the lookback, the largest rise first.
Momentum(market, asOf, regime, eligible, c) ==
    LET known == [a \in DOMAIN market |-> KnownAt(market[a], asOf)]
        last(a) == known[a][Len(known[a])].close
        first(a) == known[a][Len(known[a]) - c.lookback].close
        rising == {a \in DOMAIN market :
                     /\ eligible # None => a \in eligible
                     /\ Len(known[a]) > c.lookback
                     /\ QuoteVolume(known[a], c.lookback) >= c.minimumVolume * c.lookback
                     /\ last(a) > first(a)}
        ranked == SetToSortSeq(rising, LAMBDA a, b :
                     \/ last(a) * first(b) > last(b) * first(a)
                     \/ last(a) * first(b) = last(b) * first(a) /\ a < b)
    IN IF regime = "RISK_OFF" THEN <<>>
       ELSE SubSeq(ranked, 1, Min({c.maximumPositions, Len(ranked)}))

\* Equal weights within the regime's budget; the last one takes the remainder.
Construct(signals, regime, maximumPositions, maximumWeight) ==
    LET n == Min({maximumPositions, Len(signals)})
        budget == IF regime = "RISK_ON" THEN Unit ELSE Unit \div 2
        invested == Min({budget, maximumWeight * n})
        each == invested \div n
    IN IF regime = "RISK_OFF" \/ n = 0 THEN [weights |-> <<>>, cash |-> Unit]
       ELSE [weights |-> [a \in {signals[i] : i \in 1 .. n} |->
                            IF a = signals[n] THEN invested - (n - 1) * each ELSE each],
             cash |-> Unit - invested]

Approved(allocation, maximumPositions, maximumWeight) ==
    /\ Cardinality(DOMAIN allocation.weights) <= maximumPositions
    /\ Unit - allocation.cash <= Unit
    /\ \A a \in DOMAIN allocation.weights : allocation.weights[a] <= maximumWeight

(***************************************************************************)
(* The engine                                                               *)
(***************************************************************************)
Timeline(market, start, end) ==
    Sorted({d \in {d \in DOMAIN market[BTC] : start <= d /\ d < end} :
              \A a \in DOMAIN market : d \in DOMAIN market[a]})

Weight(weights, a) == IF a \in DOMAIN weights THEN weights[a] ELSE 0
Turnover(old, new) ==
    MapThenSumSet(LAMBDA a : LET change == Weight(new, a) - Weight(old, a)
                             IN IF change < 0 THEN -change ELSE change,
                  DOMAIN old \cup DOMAIN new)

Grow(equity, rate) == equity + (equity * rate) \div Unit

\* The weights decided at a time, from what is known then.
Decide(market, history, c, asOf) ==
    LET regime == Regime(market, asOf, c.model)
        eligible == IF history = None THEN None ELSE Eligible(market, history, asOf, c.universe)
        signals == Momentum(market, asOf, regime, eligible, c)
    IN Construct(signals, regime, c.maximumPositions, c.maximumWeight)

\* A proposal is traded at its costs, or the risk check turns it down.
Rebalanced(s, proposal, c) ==
    LET turnover == Turnover(s.weights, proposal.weights)
        fee == (turnover * c.fee) \div Unit
        slippage == (turnover * c.slippage) \div Unit
    IN IF Approved(proposal, c.maximumPositions, c.maximumWeight)
       THEN [s EXCEPT !.equity = Grow(@, -fee - slippage), !.feeOnly = Grow(@, -fee),
                      !.weights = proposal.weights, !.rebalances = @ + 1]
       ELSE [s EXCEPT !.rejected = @ + 1]

\* Rebalance on every c.rebalance-th time, at that time's open, then hold to the next open.
Walk(market, history, c, timeline) ==
    LET hold(s, t, next) ==
            LET gain == MapThenSumSet(LAMBDA a :
                           (s.weights[a] * (market[a][next].open - market[a][t].open))
                             \div market[a][t].open, DOMAIN s.weights)
                grown == [s EXCEPT !.equity = Grow(@, gain), !.feeOnly = Grow(@, gain),
                                   !.gross = Grow(@, gain)]
            IN [grown EXCEPT !.curve = Append(@,
                  [at |-> next, equity |-> grown.equity, gross |-> grown.gross,
                   cash |-> Unit - MapThenSumSet(LAMBDA a : s.weights[a], DOMAIN s.weights)])]
        step(s, i) ==
            hold(IF (i - 1) % c.rebalance = 0
                 THEN Rebalanced(s, Decide(market, history, c, timeline[i]), c) ELSE s,
                 timeline[i], timeline[i + 1])
    IN FoldLeft(step,
                [equity |-> Unit, feeOnly |-> Unit, gross |-> Unit, weights |-> <<>>,
                 rebalances |-> 0, rejected |-> 0,
                 curve |-> <<[at |-> timeline[1], equity |-> Unit, gross |-> Unit,
                              cash |-> Unit]>>],
                [i \in 1 .. Len(timeline) - 1 |-> i])

\* The service fetches what the lookbacks need; None is a refusal.
RunBacktest(stored, history, c) ==
    LET warmup == 2 * (Max({c.lookback, c.model.long}) + 1)
        market == Fetch(stored, c.start - warmup, c.end)
        timeline == Timeline(market, c.start, c.end)
    IN IF Len(timeline) < 2 THEN None ELSE Walk(market, history, c, timeline)
=============================================================================
