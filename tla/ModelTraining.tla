---------------------------- MODULE ModelTraining ----------------------------
(***************************************************************************)
(* The machine learning research: the dataset of point-in-time features and  *)
(* forward labels, the purged walk-forward folds, the choice of a model, a   *)
(* prediction, and the paper job that turns one into target weights.        *)
(*                                                                          *)
(* A feature is the window of candles it is computed from.  The estimators  *)
(* are external: a fold's information coefficients and the score a model    *)
(* gives to an asset are data.                                              *)
(***************************************************************************)
EXTENDS Backtest

CONSTANTS
    FeatureLookback,   \* candles an asset needs before it has features
    Score(_, _)        \* what a fitted model gives an asset with its features

(***************************************************************************)
(* Dataset                                                                  *)
(***************************************************************************)
\* Each feature's window: momenta and drawdowns, volume, correlation and trend.
Features(candles, btc) ==
    [momentum |-> Closes(Latest(candles, FeatureLookback)),
     volume |-> [i \in 1 .. FeatureLookback |-> Latest(candles, FeatureLookback)[i].volume],
     reference |-> Closes(Latest(btc, FeatureLookback))]

EligibleSymbols(market, history, asOf, u) ==
    IF history = None THEN DOMAIN market ELSE Eligible(market, history, asOf, u)

CurrentFeatures(market, history, asOf, u) ==
    LET known == [a \in DOMAIN market |-> KnownAt(market[a], asOf)]
    IN IF Len(known[BTC]) < FeatureLookback THEN <<>>
       ELSE [a \in {a \in EligibleSymbols(market, history, asOf, u) :
                      Len(known[a]) >= FeatureLookback} |-> Features(known[a], known[BTC])]

\* One row per time and asset; its label ends a horizon of times later.
Dataset(market, history, start, end, horizon, u) ==
    LET timeline == Timeline(market, Min(DOMAIN market[BTC]), Max(DOMAIN market[BTC]) + 1)
        used == {i \in DOMAIN timeline : /\ start <= timeline[i] /\ timeline[i] < end
                                         /\ i + horizon <= Len(timeline)}
        features == [i \in used |-> CurrentFeatures(market, history, timeline[i], u)]
        row(i, a) ==
            LET entry == market[a][timeline[i]].open
                exit == market[a][timeline[i + horizon]].open
            IN [asOf |-> timeline[i], asset |-> a, exit |-> timeline[i + horizon],
                features |-> features[i][a], label |-> ((exit - entry) * Unit) \div entry]
    IN UNION {{row(i, a) : a \in DOMAIN features[i]} : i \in used}

(***************************************************************************)
(* Folds                                                                    *)
(***************************************************************************)
Rows(dataset, from, to) == {r \in dataset : from <= r.asOf /\ r.asOf < to}

Fold(dataset, s, first, k) ==
    LET offset == k * s.step
        trainEnd == first + s.train + offset
        validationFrom == trainEnd + s.purge
        testFrom == validationFrom + s.validation + s.purge
    IN [train |-> Rows(dataset, IF s.expanding THEN first ELSE first + offset, trainEnd),
        validation |-> Rows(dataset, validationFrom, validationFrom + s.validation),
        test |-> Rows(dataset, testFrom, testFrom + s.test), end |-> testFrom + s.test]

\* Folds from the first on, up to one that is empty or ends after the data.
Split(dataset, s) ==
    LET first == Min({r.asOf : r \in dataset})
        last == Max({r.asOf : r \in dataset})
        \* each step is a day at least, so that no fold after this one fits
        folds == [k \in 1 .. last - first + 1 |-> Fold(dataset, s, first, k - 1)]
        stops == {k \in DOMAIN folds :
                    \/ folds[k].end > last + 1
                    \/ {} \in {folds[k].train, folds[k].validation, folds[k].test}}
    IN IF dataset = {} THEN <<>> ELSE SubSeq(folds, 1, Min(stops) - 1)

(***************************************************************************)
(* Training, prediction and the paper job                                   *)
(***************************************************************************)
\* The mean of the coefficients that exist, as a sum and a count.
MeanIc(ics) ==
    LET known == SelectSeq(ics, LAMBDA v : v # None)
    IN IF known = <<>> THEN None ELSE <<Total(known), Len(known)>>

\* The first of the kinds with the largest mean; no mean is the smallest.
BestOf(kinds, mean) ==
    LET atLeast(a, b) == \/ mean[b] = None
                         \/ mean[a] # None /\ mean[a][1] * mean[b][2] >= mean[b][1] * mean[a][2]
    IN kinds[Min({i \in DOMAIN kinds : \A j \in DOMAIN kinds : atLeast(kinds[i], kinds[j])})]

\* ic[kind][part][k] is the coefficient a kind reaches on a part of fold k.
Train(dataset, s, horizon, kinds, ic) ==
    LET folds == Split(dataset, s)
        mean(part) == [m \in Range(kinds) |->
                         MeanIc([k \in DOMAIN folds |-> ic[m][part][k]])]
    IN IF dataset = {} \/ s.purge < horizon \/ folds = <<>> THEN None
       ELSE [folds |-> folds, selected |-> BestOf(kinds, mean("validation")),
             mean_validation_ic |-> mean("validation"), mean_test_ic |-> mean("test"),
             fitted |-> dataset]

TrainModel(stored, history, c, kinds, ic) ==
    LET market == Fetch(stored, c.start - 2 * FeatureLookback, c.end + 2 * c.horizon + 2)
    IN Train(Dataset(market, history, c.start, c.end, c.horizon, c.universe),
             c.split, c.horizon, kinds, ic)

\* The assets with features, the best score first.
Predict(stored, history, asOf, c) ==
    LET market == Fetch(stored, asOf - 2 * FeatureLookback, asOf + 1)
        features == CurrentFeatures(market, history, asOf, c.universe)
    IN SetToSortSeq({<<a, Score(a, features[a])>> : a \in DOMAIN features},
                    LAMBDA x, y : x[2] > y[2] \/ (x[2] = y[2] /\ x[1] < y[1]))

\* MLRankingStrategy: the assets with the best of the predictions above the minimum.
Ranking(predictions, c) ==
    LET positive == SelectSeq(predictions, LAMBDA x : x[2] > c.minimumReturn)
    IN [i \in 1 .. Min({c.maximumPositions, Len(positive)}) |-> positive[i][1]]

\* What the job reports of an allocation, with the risk decision.
Targets(allocation, c) ==
    [targets |-> allocation.weights, cash |-> allocation.cash,
     approved |-> Approved(allocation, c.maximumPositions, Unit \div 2)]

\* A dry run: target weights and the risk decision, and nothing is traded.
MLPaperJob(stored, history, asOf, c, regime) ==
    Targets(Construct(Ranking(Predict(stored, history, asOf, c), c), regime,
                      c.maximumPositions, Unit \div 2), c)

(***************************************************************************)
(* No fold learns from what it is evaluated on: where the data has no gap,  *)
(* every label a fold is trained on has ended before the first row it is    *)
(* validated on, and every label of the validation before the first of the  *)
(* test; the selection reads validation coefficients alone.                 *)
(***************************************************************************)
FoldsArePurged(stored, history, c, kinds, ic, otherIc) ==
    LET ended(earlier, later) ==
            \A r \in earlier : \A o \in later :
               r.exit = r.asOf + c.horizon => r.exit <= o.asOf
    IN \A trained \in {TrainModel(stored, history, c, kinds, ic)} : trained # None =>
         /\ \A k \in DOMAIN trained.folds :
              /\ ended(trained.folds[k].train, trained.folds[k].validation)
              /\ ended(trained.folds[k].validation, trained.folds[k].test)
         /\ TrainModel(stored, history, c, kinds, otherIc).selected = trained.selected

(***************************************************************************)
(* Nothing looks ahead of its time.  Change the open of a day, its close or *)
(* the snapshot taken on it: the points of a backtest's curve, the features *)
(* of the dataset's rows and the targets of a paper job that come before    *)
(* the change could be known stay what they were.                           *)
(***************************************************************************)
NoLookAhead(stored, history, c, e, regime) ==
    LET edited == IF e.kind = "snapshot" THEN stored
                  ELSE [stored EXCEPT ![e.asset][e.day][e.kind] = e.value]
        then == IF e.kind = "snapshot"
                THEN history \cup {[observedAt |-> e.day, warning |-> [a \in {e.asset} |-> FALSE]]}
                ELSE history
        known == IF e.kind = "close" THEN AvailableAt(e.day) ELSE e.day
        before(run) ==
            IF run = None THEN None
            ELSE SelectSeq(run.curve, LAMBDA p : p.at < known \/ (p.at = known /\ e.kind # "open"))
        rows(dataset) ==
            {<<r.asOf, r.asset, r.features>> : r \in {r \in dataset : r.asOf < known}}
        worlds == {<<stored, history>>, <<edited, then>>}
        same(S) == Cardinality(S) = 1
    IN /\ same({before(RunBacktest(w[1], w[2], c)) : w \in worlds})
       /\ same({rows(Dataset(w[1], w[2], c.start, c.end, c.horizon, c.universe)) : w \in worlds})
       /\ \A t \in c.start .. known - 1 :
            same({MLPaperJob(w[1], w[2], t, c, regime) : w \in worlds})
=============================================================================
