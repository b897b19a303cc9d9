--------------------------- MODULE SelectionRules ---------------------------
(***************************************************************************)
(* What a dynamic strategy selects: the published versions of its policy,   *)
(* the assessment and the scoring of the universe, the gates on new         *)
(* entries, the selection and the controls selected beside it.              *)
(*                                                                          *)
(* Scores, momenta and returns are in ten-thousandths, derivatives rates in *)
(* millionths, weights and fractions in hundredths, times in minutes; each  *)
(* division rounds down.  A feature of a market (momentum, volatility,      *)
(* volume) is data; None is a limit that is not set or a value not known.   *)
(***************************************************************************)
EXTENDS Integers, FiniteSetsExt, SequencesExt, Functions

CONSTANTS None, Raised

(***************************************************************************)
(* Policies                                                                 *)
(***************************************************************************)
DynamicUniversePolicy ==
    [version |-> "v2.1", minimum_history_bars |-> 672, maximum_candidates |-> 20,
     maximum_positions |-> 3, invested_fraction |-> 90, maximum_asset_weight |-> 40,
     cost |-> 20,
     entry_score_hurdle |-> 50, exit_score_hurdle |-> -20, maximum_hold_rank |-> 8,
     required_entry_confirmations |-> 2, reentry_cooldown |-> 60,
     minimum_replacement_score_advantage |-> 100,
     maximum_daily_turnover_fraction |-> 600, turnover_sell_weight |-> 100,
     turnover_budget_mode |-> "FIXED", bullish_daily_turnover_fraction |-> None,
     bullish_btc_minimum_momentum_4h |-> 0, bullish_btc_minimum_momentum_24h |-> 0,
     bullish_market_breadth_minimum |-> 100, bullish_market_breadth_minimum_candidates |-> 10,
     scoring_method |-> "RAW_MOMENTUM", score_scale |-> "EXPECTED_RETURN",
     weights |-> [m1 |-> 45, m4 |-> 35, m24 |-> 20, vol |-> -10],
     entry |-> [m1 |-> <<None, None>>, m4 |-> <<None, None>>, m24 |-> <<None, None>>],
     maximum_entry_volatility |-> None, maximum_entry_volatility_quantile |-> None,
     minimum_hold_momentum_1h |-> None, minimum_hold_momentum_24h |-> None,
     maximum_hold_volatility |-> None, maximum_holding_period |-> None,
     excluded_base_assets |-> {}, maximum_market_data_age |-> None,
     extreme_score_penalty_threshold |-> None, extreme_score_maximum_penalty |-> 0,
     calibration |-> None,   \* intercept and slope for one and for four hours
     minimum_fee_adjusted_entry_return |-> 0, minimum_expected_hold_return |-> 0,
     minimum_fee_adjusted_replacement_advantage |-> 0,
     selection_concentration_lookback |-> None, maximum_selection_concentration |-> None,
     selection_concentration_minimum_cohorts |-> 20,
     rolling_asset_performance_lookback |-> None, rolling_asset_minimum_sells |-> 2,
     maximum_rolling_asset_realized_loss_fraction |-> None,
     derivatives_overlay_mode |-> "DISABLED", derivatives_feature_version |-> "squeeze-v1",
     minimum |-> [funding |-> None, basis |-> None, longShort |-> None],
     crowding_overlay_mode |-> "DISABLED",
     crowding_maximum_long_score |-> None, crowding_maximum_bearish_unwind_score |-> None,
     maximum_entry_market_data_age |-> None]

V22 == [DynamicUniversePolicy EXCEPT
    !.version = "v2.2", !.maximum_positions = 2, !.invested_fraction = 50,
    !.maximum_asset_weight = 25, !.entry_score_hurdle = 6000, !.exit_score_hurdle = 4500,
    !.maximum_hold_rank = 6, !.required_entry_confirmations = 3, !.reentry_cooldown = 120,
    !.minimum_replacement_score_advantage = 1500, !.maximum_daily_turnover_fraction = 200,
    !.scoring_method = "CALM_PULLBACK_RANK", !.score_scale = "UNIT_INTERVAL",
    !.weights = [m1 |-> 45, m4 |-> 20, m24 |-> 10, vol |-> 25],
    !.entry = [m1 |-> <<-150, 50>>, m4 |-> <<-300, 150>>, m24 |-> <<-800, 800>>],
    !.maximum_entry_volatility = 120, !.maximum_entry_volatility_quantile = 80,
    !.minimum_hold_momentum_1h = -400, !.minimum_hold_momentum_24h = -800,
    !.maximum_hold_volatility = 120, !.maximum_holding_period = 240,
    !.excluded_base_assets = {"stable"}]

V23 == [V22 EXCEPT
    !.version = "v2.3", !.turnover_sell_weight = 50, !.turnover_budget_mode = "BULLISH_REGIME",
    !.bullish_daily_turnover_fraction = 300, !.bullish_btc_minimum_momentum_4h = 100,
    !.bullish_btc_minimum_momentum_24h = 300, !.bullish_market_breadth_minimum = 65]

V24 == [V23 EXCEPT
    !.version = "v2.4", !.maximum_market_data_age = 30,
    !.extreme_score_penalty_threshold = 8000, !.extreme_score_maximum_penalty = 2500,
    !.calibration = <<[at |-> -50, slope |-> 100], [at |-> -80, slope |-> 160]>>,
    !.minimum_fee_adjusted_replacement_advantage = 10,
    !.selection_concentration_lookback = 1440, !.maximum_selection_concentration = 25,
    !.rolling_asset_performance_lookback = 4320,
    !.maximum_rolling_asset_realized_loss_fraction = 5,
    !.derivatives_overlay_mode = "SHADOW", !.derivatives_feature_version = "squeeze-v2"]

V25 == [V24 EXCEPT
    !.version = "v2.5", !.entry.m4 = <<0, 150>>, !.derivatives_feature_version = "squeeze-v3"]

V26 == [V25 EXCEPT
    !.version = "v2.6", !.entry.m4 = <<-300, 50>>, !.maximum_entry_volatility = 30,
    !.maximum_entry_volatility_quantile = 50, !.maximum_holding_period = 60,
    !.extreme_score_penalty_threshold = 7000, !.extreme_score_maximum_penalty = 3500,
    !.derivatives_overlay_mode = "ENTRY_GATE",
    !.minimum = [funding |-> 50, basis |-> -500, longShort |-> 1000000]]

V27 == [V26 EXCEPT
    !.version = "v2.7", !.entry.m1 = <<-70, 50>>, !.reentry_cooldown = 240,
    !.crowding_overlay_mode = "ENTRY_GATE", !.crowding_maximum_long_score = 70,
    !.crowding_maximum_bearish_unwind_score = 55]

V27Accuracy == [V27 EXCEPT
    !.version = "v2.7-accuracy-v1", !.maximum_entry_market_data_age = 20]

\* Four arms run side by side; the first is the production control.
V28(name, mode) == [V27Accuracy EXCEPT
    !.version = name, !.derivatives_overlay_mode = mode,
    !.minimum = IF mode = "SHADOW"
                THEN [funding |-> None, basis |-> None, longShort |-> None] ELSE @,
    !.crowding_overlay_mode = "SHADOW",
    !.crowding_maximum_long_score = None, !.crowding_maximum_bearish_unwind_score = None]

V28Suite ==
    {[V27Accuracy EXCEPT !.version = "v2.8-production-control"],
     V28("v2.8-momentum", "SHADOW"), V28("v2.8-long-short", "LONG_SHORT_GATE"),
     V28("v2.8-soft-penalty", "SOFT_PENALTY")}

\* One change at a time from the production control.
V29Suite ==
    {[V27Accuracy EXCEPT !.version = "v2.9-production-control"],
     [V27Accuracy EXCEPT !.version = "v2.9-volatility-relaxed",
        !.maximum_entry_volatility = 180, !.maximum_entry_volatility_quantile = None],
     [V27Accuracy EXCEPT !.version = "v2.9-pullback-window",
        !.entry.m1 = <<-300, -70>>, !.entry.m4 = <<-300, -80>>],
     [V27Accuracy EXCEPT !.version = "v2.9-concentration-relaxed",
        !.maximum_selection_concentration = 50]}

\* The policies with a published version; any other version is an error.
DynamicPolicies ==
    {DynamicUniversePolicy, V22, V23, V24, V25, V26, V27, V27Accuracy}
    \cup V28Suite \cup V29Suite

EntryHurdle(p) ==
    IF p.score_scale = "EXPECTED_RETURN" THEN Max({p.entry_score_hurdle, p.cost})
    ELSE p.entry_score_hurdle

(***************************************************************************)
(* The derivatives context, and what it keeps from being bought             *)
(***************************************************************************)
MissingOverlay == [availability |-> "MISSING", funding |-> None, basis |-> None,
                   longShort |-> None, crowdingAvailability |-> "MISSING",
                   crowding |-> None, long |-> None, bearish |-> None]

\* A provider that is absent or cannot be read leaves the context missing.
DerivativesOverlay(p, known) ==
    IF p.derivatives_overlay_mode = "DISABLED" THEN None
    ELSE IF known = None THEN MissingOverlay
    ELSE IF p.crowding_overlay_mode # "DISABLED" THEN known
    ELSE [known EXCEPT !.crowdingAvailability = "MISSING", !.crowding = None,
                       !.long = None, !.bearish = None]

Unavailable == "NEW_ENTRY_BLOCKED_BY_DERIVATIVES_DATA_UNAVAILABLE"
CrowdingUnavailable == "NEW_ENTRY_BLOCKED_BY_CROWDING_DATA_UNAVAILABLE"

OverlayInputs == {"funding", "basis", "longShort"}

Breached(p, o) ==
    {i \in OverlayInputs : p.minimum[i] # None /\ (IF o[i] = None THEN TRUE ELSE o[i] < p.minimum[i])}

RawDerivativesEntryBlock(p, o) ==
    LET mode == p.derivatives_overlay_mode
        considered == IF mode = "LONG_SHORT_GATE" THEN {"longShort"} ELSE OverlayInputs
        breached == Breached(p, o) \cap considered
    IN IF mode \notin {"ENTRY_GATE", "LONG_SHORT_GATE", "SOFT_PENALTY"} THEN None
       ELSE IF o = None \/ o.availability # "AVAILABLE" THEN Unavailable
       ELSE IF mode = "SOFT_PENALTY"
       THEN IF \E i \in OverlayInputs : o[i] = None THEN Unavailable ELSE None
       ELSE CASE "funding" \in breached -> "NEW_ENTRY_BLOCKED_BY_LOW_BTC_FUNDING_REGIME"
              [] "basis" \in breached -> "NEW_ENTRY_BLOCKED_BY_NEGATIVE_BTC_BASIS_REGIME"
              [] "longShort" \in breached -> "NEW_ENTRY_BLOCKED_BY_LOW_BTC_LONG_SHORT_REGIME"
              [] OTHER -> None

\* Crowded and turning, by the numbers of the policy.
CrowdedByPolicy(p, o) ==
    /\ o.long # None /\ o.bearish # None
    /\ p.crowding_maximum_long_score # None /\ p.crowding_maximum_bearish_unwind_score # None
    /\ o.long >= p.crowding_maximum_long_score
    /\ o.bearish >= p.crowding_maximum_bearish_unwind_score

CrowdingEntryBlock(p, o) ==
    IF p.crowding_overlay_mode # "ENTRY_GATE" THEN None
    ELSE IF o = None \/ o.crowdingAvailability # "AVAILABLE" \/ o.long = None \/ o.bearish = None
    THEN CrowdingUnavailable
    ELSE IF o.crowding = "LONG_UNWIND" THEN "NEW_ENTRY_BLOCKED_BY_LONG_CROWDING_UNWIND"
    ELSE IF CrowdedByPolicy(p, o)
    THEN "NEW_ENTRY_BLOCKED_BY_LONG_CROWDING_AND_BEARISH_TRIGGER"
    ELSE None

DerivativesEntryBlock(p, o) ==
    IF RawDerivativesEntryBlock(p, o) # None THEN RawDerivativesEntryBlock(p, o)
    ELSE CrowdingEntryBlock(p, o)

\* A missing context is blocked and never scored as neutral.
DerivativesCostPenalty(p, o) ==
    IF p.derivatives_overlay_mode # "SOFT_PENALTY" \/ o = None THEN 0
    ELSE IF o.availability # "AVAILABLE" THEN 0
    ELSE 20 * Cardinality({i \in Breached(p, o) : o[i] # None})

CrowdingGateDisagreement(p, o) ==
    (CrowdingEntryBlock(p, o) # None) # (o # None /\ CrowdedByPolicy(p, o))

(***************************************************************************)
(* Assessment and scores                                                    *)
(***************************************************************************)
Unscored(m, reason) ==
    [pair |-> m.pair, eligible |-> FALSE, reason |-> reason, volume |-> 0,
     m1 |-> None, m4 |-> None, m24 |-> None, vol |-> None,
     score |-> None, raw |-> None, expected |-> None, feeAdjusted |-> None]

\* A held market that cannot be valued stops the rebalance.
AssessMember(p, m, held) ==
    LET isHeld == m.pair \in held
        entryAge == IF p.maximum_entry_market_data_age # None
                    THEN p.maximum_entry_market_data_age ELSE p.maximum_market_data_age
        limit == IF isHeld THEN p.maximum_market_data_age ELSE entryAge
        stale == limit # None /\ m.bars > 0 /\ m.age > limit
    IN CASE m.base \in p.excluded_base_assets /\ ~isHeld ->
                Unscored(m, "DIRECTIONAL_ASSET_EXCLUDED")
         [] m.warning /\ ~isHeld -> Unscored(m, "MARKET_WARNING")
         [] m.bars = None -> Unscored(m, "DATA_UNAVAILABLE")
         [] stale /\ isHeld -> Raised
         [] stale -> Unscored(m, "STALE_MARKET_DATA")
         [] m.warning -> Unscored(m, "MARKET_WARNING")
         [] m.bars < p.minimum_history_bars -> Unscored(m, "INSUFFICIENT_HISTORY")
         [] OTHER -> [pair |-> m.pair, eligible |-> TRUE, reason |-> "ELIGIBLE",
                      volume |-> m.volume, m1 |-> m.m1, m4 |-> m.m4, m24 |-> m.m24,
                      vol |-> m.vol, score |-> None, raw |-> None, expected |-> None,
                      feeAdjusted |-> None]

\* The most traded eligible candidates; a tie goes to the earlier pair.
Liquid(p, A) ==
    LET eligible == {a \in A : a.eligible}
        ahead(a) == {b \in eligible : b.volume > a.volume
                                      \/ (b.volume = a.volume /\ b.pair < a.pair)}
    IN {a \in eligible : Cardinality(ahead(a)) < p.maximum_candidates}

\* One minus the average rank of a value among the candidates, in ten-thousandths.
Calmness(S, a, feature) ==
    LET below == Cardinality({b \in S : b[feature] < a[feature]})
        equal == Cardinality({b \in S : b[feature] = a[feature]})
        last == Cardinality(S) - 1
    IN IF last = 0 THEN 5000
       ELSE 10000 - ((2 * below + equal - 1) * 10000) \div (2 * last)

RawScore(p, A, a) ==
    LET S == Liquid(p, A) w == p.weights
    IN IF p.scoring_method = "RAW_MOMENTUM"
       THEN IF ~a.eligible THEN None
            ELSE (w.m1 * a.m1 + w.m4 * a.m4 + w.m24 * a.m24 + w.vol * a.vol) \div 100
       ELSE IF a \notin S THEN None
            ELSE (w.m1 * Calmness(S, a, "m1") + w.m4 * Calmness(S, a, "m4")
                  + w.m24 * Calmness(S, a, "m24") + w.vol * Calmness(S, a, "vol")) \div 100

\* The lower of the returns a score promises after one and after four hours.
ExpectedRelativeReturn(p, score) ==
    IF p.calibration = None THEN None
    ELSE Min({p.calibration[i].at + (p.calibration[i].slope * score) \div 10000 : i \in {1, 2}})

\* An extreme score is cut by the square of its excess.
WithScoreEvidence(p, a, raw) ==
    LET threshold == p.extreme_score_penalty_threshold
        excess == Min({100, ((raw - threshold) * 100) \div (10000 - threshold)})
        penalty == (p.extreme_score_maximum_penalty * excess * excess) \div 10000
        extreme == threshold # None /\ raw > threshold
        score == IF extreme THEN Max({0, raw - penalty}) ELSE raw
        expected == ExpectedRelativeReturn(p, score)
    IN IF raw = None THEN a
       ELSE [a EXCEPT !.score = score, !.raw = raw, !.expected = expected,
                      !.feeAdjusted = IF expected = None THEN None ELSE expected - p.cost]

ScoreAssessments(p, A) == {WithScoreEvidence(p, a, RawScore(p, A, a)) : a \in A}

Assess(p, members, held) ==
    LET A == {AssessMember(p, m, held) : m \in {m \in members : m.quote = "KRW"}}
    IN IF Raised \in A THEN Raised ELSE ScoreAssessments(p, A)

(***************************************************************************)
(* Rules for entries, holdings and replacements                             *)
(***************************************************************************)
EntryVolatilityCap(p, S) ==
    LET absolute == p.maximum_entry_volatility
        quantile == p.maximum_entry_volatility_quantile
        rank == ((Cardinality(S) - 1) * quantile) \div 100
        below(v, strict) == Cardinality({a \in S : a.vol < v \/ (~strict /\ a.vol = v)})
        relative == CHOOSE v \in {a.vol : a \in S} : below(v, TRUE) <= rank /\ rank < below(v, FALSE)
    IN IF quantile = None \/ S = {} THEN absolute
       ELSE IF absolute = None THEN relative ELSE Min({absolute, relative})

\* The first feature outside its window, short horizons first.
EntryGuardReason(p, a, cap) ==
    LET low(w, v) == w[1] # None /\ v < w[1]
        high(w, v) == w[2] # None /\ v > w[2]
    IN CASE low(p.entry.m1, a.m1) -> "NEW_ENTRY_BLOCKED_BY_FALLING_KNIFE_GUARD"
         [] high(p.entry.m1, a.m1) -> "NEW_ENTRY_BLOCKED_BY_SHORT_TERM_SPIKE_GUARD"
         [] low(p.entry.m4, a.m4) -> "NEW_ENTRY_BLOCKED_BY_4H_FALLING_KNIFE_GUARD"
         [] high(p.entry.m4, a.m4) -> "NEW_ENTRY_BLOCKED_BY_4H_SPIKE_GUARD"
         [] low(p.entry.m24, a.m24) -> "NEW_ENTRY_BLOCKED_BY_24H_TREND_GUARD"
         [] high(p.entry.m24, a.m24) -> "NEW_ENTRY_BLOCKED_BY_24H_SPIKE_GUARD"
         [] cap # None /\ a.vol > cap -> "NEW_ENTRY_BLOCKED_BY_VOLATILITY_GUARD"
         [] OTHER -> None

HoldGuardReason(p, a) ==
    CASE p.minimum_hold_momentum_1h # None /\ a.m1 < p.minimum_hold_momentum_1h ->
            "HOLD_BLOCKED_BY_FALLING_KNIFE_GUARD"
      [] p.minimum_hold_momentum_24h # None /\ a.m24 < p.minimum_hold_momentum_24h ->
            "HOLD_BLOCKED_BY_24H_TREND_GUARD"
      [] p.maximum_hold_volatility # None /\ a.vol > p.maximum_hold_volatility ->
            "HOLD_BLOCKED_BY_VOLATILITY_GUARD"
      [] OTHER -> None

FeeAdjustedEntryPasses(p, a) ==
    \/ p.calibration = None
    \/ a.feeAdjusted # None /\ a.feeAdjusted >= p.minimum_fee_adjusted_entry_return

\* Missing evidence does not force a liquidation.
ExpectedHoldPasses(p, a) ==
    \/ p.calibration = None \/ a.expected = None
    \/ a.expected >= p.minimum_expected_hold_return

FeeAdjustedReplacementPasses(p, entrant, weakest) ==
    \/ p.calibration = None
    \/ /\ entrant.expected # None /\ weakest.expected # None
       /\ entrant.expected - weakest.expected - p.cost
            >= p.minimum_fee_adjusted_replacement_advantage

(***************************************************************************)
(* Selection.  i is the input: candidates, held, recent exits, expired       *)
(* holdings, prior confirmations and the pairs two other rules block.       *)
(***************************************************************************)
When(condition, reason) == IF condition THEN {reason} ELSE {}

Ahead(a, b) == a.score > b.score \/ (a.score = b.score /\ a.pair < b.pair)

\* Among the liquid candidates, which are all scored.
RankOf(p, i, a) == Cardinality({b \in Liquid(p, i.candidates) : Ahead(b, a)}) + 1

\* Mutant: a blocked context is applied to what is held.
RetainedUnlessBlocked(p, i, block) ==
    {a \in Liquid(p, i.candidates) :
        /\ a.pair \in i.held \ i.expired
        /\ block = None /\ a.score > p.exit_score_hurdle}

Retained(p, i, block) ==
    {a \in Liquid(p, i.candidates) :
        /\ a.pair \in i.held \ i.expired
        /\ a.score > p.exit_score_hurdle
        /\ RankOf(p, i, a) <= p.maximum_hold_rank
        /\ HoldGuardReason(p, a) = None
        /\ ExpectedHoldPasses(p, a)}

\* What the market alone says of an entry.
EntrySignal(p, S, a) ==
    /\ a.score > EntryHurdle(p)
    /\ EntryGuardReason(p, a, EntryVolatilityCap(p, S)) = None
    /\ FeeAdjustedEntryPasses(p, a)

EntrySignalEligibility(p, i, block) ==
    LET S == Liquid(p, i.candidates)
    IN IF block # None THEN {} ELSE {a.pair : a \in {a \in S : EntrySignal(p, S, a)}}

Entrants(p, i, block) ==
    {a \in Liquid(p, i.candidates) :
        /\ a.pair \notin i.held \cup i.recentExits \cup i.concentrated \cup i.losing
        /\ a.pair \in EntrySignalEligibility(p, i, block)
        /\ i.confirmations[a.pair] >= p.required_entry_confirmations - 1}

\* What is against a scored candidate before it is compared with another.
CandidateReasons(p, i, block, a) ==
    LET cap == EntryVolatilityCap(p, Liquid(p, i.candidates))
    IN (IF a.pair \in i.held
        THEN When(a.pair \in i.expired, "HOLD_EXITED_BY_MAXIMUM_HOLDING_PERIOD")
             \cup When(a.score <= p.exit_score_hurdle, "HOLD_SCORE_BELOW_EXIT_HURDLE")
             \cup When(RankOf(p, i, a) > p.maximum_hold_rank, "HOLD_RANK_BELOW_LIMIT")
             \cup {HoldGuardReason(p, a)}
             \cup When(~ExpectedHoldPasses(p, a), "HOLD_EXPECTED_RELATIVE_RETURN_INSUFFICIENT")
        ELSE When(a.pair \in i.recentExits, "NEW_ENTRY_BLOCKED_BY_REENTRY_COOLDOWN")
             \cup When(a.score <= EntryHurdle(p), "NEW_ENTRY_SCORE_BELOW_HURDLE")
             \cup {EntryGuardReason(p, a, cap), block}
             \cup When(~FeeAdjustedEntryPasses(p, a),
                       "NEW_ENTRY_FEE_ADJUSTED_RETURN_INSUFFICIENT")
             \cup When(a.pair \in i.concentrated, "NEW_ENTRY_BLOCKED_BY_SELECTION_CONCENTRATION")
             \cup When(a.pair \in i.losing, "NEW_ENTRY_BLOCKED_BY_ROLLING_ASSET_LOSS")
             \cup When(i.confirmations[a.pair] < p.required_entry_confirmations - 1,
                       "NEW_ENTRY_WAITING_FOR_CONFIRMATIONS")) \ {None}

Confirmed == "REPLACEMENT_FEE_ADJUSTED_ADVANTAGE_CONFIRMED"
ReplacedByStronger == "REPLACED_BY_STRONGER_FEE_ADJUSTED_CANDIDATE"
ScoreInsufficient == "REPLACEMENT_SCORE_ADVANTAGE_INSUFFICIENT"
ReturnInsufficient == "REPLACEMENT_FEE_ADJUSTED_RETURN_INSUFFICIENT"

Weakest(ranked) ==
    CHOOSE a \in ranked : \A b \in ranked \ {a} :
        a.score < b.score \/ (a.score = b.score /\ a.pair < b.pair)

\* Mutant: nothing is recorded of the asset that loses its place.
AdmitSilently(p, s, entrant) ==
    LET weakest == Weakest(s.ranked)
        scorePasses == entrant.score >= weakest.score + p.minimum_replacement_score_advantage
        returnPasses == FeeAdjustedReplacementPasses(p, entrant, weakest)
    IN IF Cardinality(s.ranked) < p.maximum_positions THEN [s EXCEPT !.ranked = @ \cup {entrant}]
       ELSE IF scorePasses /\ returnPasses
       THEN [ranked |-> (s.ranked \ {weakest}) \cup {entrant},
             evidence |-> [s.evidence EXCEPT ![entrant] = @ \cup {Confirmed}]]
       ELSE [s EXCEPT !.evidence[entrant] = @ \cup When(~scorePasses, ScoreInsufficient)
                                              \cup When(~returnPasses, ReturnInsufficient)]

\* An entrant takes a free place, or the place of the weakest if it is clearly
\* better; which of the two it was is added to what is recorded of both.
Admit(p, s, entrant) ==
    LET weakest == Weakest(s.ranked)
        scorePasses == entrant.score >= weakest.score + p.minimum_replacement_score_advantage
        returnPasses == FeeAdjustedReplacementPasses(p, entrant, weakest)
    IN IF Cardinality(s.ranked) < p.maximum_positions THEN [s EXCEPT !.ranked = @ \cup {entrant}]
       ELSE IF scorePasses /\ returnPasses
       THEN [ranked |-> (s.ranked \ {weakest}) \cup {entrant},
             evidence |-> [s.evidence EXCEPT ![entrant] = @ \cup {Confirmed},
                                             ![weakest] = @ \cup {ReplacedByStronger}]]
       ELSE [s EXCEPT !.evidence[entrant] = @ \cup When(~scorePasses, ScoreInsufficient)
                                              \cup When(~returnPasses, ReturnInsufficient)]

\* The selected candidates, and the reasons recorded of each liquid one.  Holdings
\* beyond the number of positions are let go without one.
SelectWithEvidence(p, i, block) ==
    LET retained == Retained(p, i, block)
        first == {a \in retained :
                    Cardinality({b \in retained : Ahead(b, a)}) < p.maximum_positions}
        order == SetToSortSeq(Entrants(p, i, block), Ahead)
    IN FoldLeft(LAMBDA s, a : Admit(p, s, a),
                [ranked |-> first,
                 evidence |-> [a \in Liquid(p, i.candidates) |-> CandidateReasons(p, i, block, a)]],
                order)

SelectDetailed(p, i, block) == SelectWithEvidence(p, i, block).ranked

\* What the decision says of its selection: fewer things than are recorded of the
\* candidates.
SelectionReasons(p, i, block, evidence) ==
    LET S == Liquid(p, i.candidates)
        cap == EntryVolatilityCap(p, S)
        said == UNION Range(evidence)
    IN ({EntryGuardReason(p, a, cap) : a \in {a \in S : a.pair \notin i.held}}
          \cup {HoldGuardReason(p, a) : a \in {a \in S : a.pair \in i.held}}
          \cup When(i.expired # {}, "HOLD_EXITED_BY_MAXIMUM_HOLDING_PERIOD")
          \cup When(\E a \in S : a.pair \in i.recentExits /\ a.score > EntryHurdle(p),
                    "NEW_ENTRY_BLOCKED_BY_REENTRY_COOLDOWN")
          \cup (said \cap {ScoreInsufficient, ReturnInsufficient,
                           "NEW_ENTRY_FEE_ADJUSTED_RETURN_INSUFFICIENT"})
          \cup When(i.concentrated # {}, "NEW_ENTRY_BLOCKED_BY_SELECTION_CONCENTRATION")
          \cup When(i.losing # {}, "NEW_ENTRY_BLOCKED_BY_ROLLING_ASSET_LOSS")
          \cup {block}) \ {None}

\* The target weight of each of n selected assets, in hundredths of a percent.
TargetWeight(p, n) ==
    (Min({p.invested_fraction, p.maximum_asset_weight * n}) * 100) \div n

(***************************************************************************)
(* The controls selected beside it, from the same input                     *)
(***************************************************************************)
ControlPolicy(p) ==
    CASE p.version = "v2.5" -> [p EXCEPT !.entry.m4 = <<-300, @[2]>>]
      [] p.version = "v2.6" ->
            [p EXCEPT !.entry.m4 = <<0, 150>>, !.maximum_entry_volatility = 120,
                      !.maximum_entry_volatility_quantile = 80, !.maximum_holding_period = 240,
                      !.extreme_score_penalty_threshold = 8000,
                      !.extreme_score_maximum_penalty = 2500,
                      !.derivatives_overlay_mode = "SHADOW",
                      !.minimum = [funding |-> None, basis |-> None, longShort |-> None]]
      [] p.version = "v2.7" -> V26

SelectionVariants(p, i, o) ==
    LET control == ControlPolicy(p)
        \* Only the penalty of the score changed in v2.6.
        rescored == IF p.version = "v2.6"
                    THEN [i EXCEPT !.candidates =
                            {WithScoreEvidence(control, a, a.raw) : a \in @}] ELSE i
    IN IF p.version = "v2.7-accuracy-v1"
       THEN << <<"v2.7a-momentum-only", SelectDetailed(p, i, None)>>,
               <<"v2.7b-raw-derivatives", SelectDetailed(p, i, RawDerivativesEntryBlock(p, o))>>,
               <<"v2.7c-crowding-only", SelectDetailed(p, i, CrowdingEntryBlock(p, o))>>,
               <<"v2.7d-production-gates", SelectDetailed(p, i, DerivativesEntryBlock(p, o))>> >>
       ELSE IF p.version \in {"v2.5", "v2.6", "v2.7"}
       THEN << <<control.version,
                 SelectDetailed(control, rescored, DerivativesEntryBlock(control, o))>> >>
       ELSE <<>>

(***************************************************************************)
(* What the history of the portfolio blocks, and its turnover budget.  Its  *)
(* executions are in the order of their times.                              *)
(***************************************************************************)
SellsWithin(i, span) ==
    {x \in Range(i.executions) : x.side = "SELL" /\ i.asOf - span < x.at /\ x.at <= i.asOf}

RecentExits(p, i) == {x.pair : x \in SellsWithin(i, p.reentry_cooldown)}

\* Since when an asset is held is told by its fills: a sale of all of it ends a
\* holding, one of a part does not.
HeldSince(executions) ==
    FoldLeft(LAMBDA h, x :
        LET before == h[x.pair].quantity
            left == Max({0, before - x.quantity})
        IN IF x.side = "BUY"
           THEN [h EXCEPT ![x.pair] = [quantity |-> before + x.quantity,
                                       at |-> IF before = 0 THEN x.at ELSE @.at]]
           ELSE [h EXCEPT ![x.pair] = [quantity |-> left,
                                       at |-> IF left = 0 THEN None ELSE @.at]],
        [pair \in {x.pair : x \in Range(executions)} |-> [quantity |-> 0, at |-> None]],
        executions)

ExpiredHoldings(p, i) ==
    LET h == HeldSince(i.executions)
    IN IF p.maximum_holding_period = None THEN {}
       ELSE {pair \in i.held \cap DOMAIN h :
                IF h[pair].at = None THEN FALSE ELSE i.asOf - h[pair].at >= p.maximum_holding_period}

\* Pairs that one more selection would make too frequent among recent cohorts.
SelectionConcentrationBlocked(p, cohorts, asOf) ==
    LET recent == {c \in cohorts : c.asOf > asOf - p.selection_concentration_lookback
                                   /\ c.asOf < asOf /\ c.selected # {}}
        n == Cardinality(recent)
    IN IF p.selection_concentration_lookback = None \/ p.maximum_selection_concentration = None
          \/ n < p.selection_concentration_minimum_cohorts THEN {}
       ELSE {pair \in UNION {c.selected : c \in recent} :
                (Cardinality({c \in recent : pair \in c.selected}) + 1) * 100
                  > p.maximum_selection_concentration * (n + 1)}

\* The loss limit is in thousandths of equity.
RollingLossBlocked(p, i) ==
    LET of(pair) == {x \in SellsWithin(i, p.rolling_asset_performance_lookback) : x.pair = pair}
    IN IF p.rolling_asset_performance_lookback = None
          \/ p.maximum_rolling_asset_realized_loss_fraction = None THEN {}
       ELSE {pair \in {x.pair : x \in Range(i.executions)} :
                /\ Cardinality(of(pair)) >= p.rolling_asset_minimum_sells
                /\ MapThenSumSet(LAMBDA x : x.pnl, of(pair)) * 1000
                     <= -(i.equity * p.maximum_rolling_asset_realized_loss_fraction)}

\* A broad rise led by bitcoin widens the daily turnover.
TurnoverBudget(p, A) ==
    LET S == Liquid(p, A)
        btc == {a \in S : a.pair = 1}
        rising == {a \in S : a.m4 > 0 /\ a.m24 > 0}
        bullish == /\ Cardinality(S) >= p.bullish_market_breadth_minimum_candidates
                   /\ \E a \in btc : /\ a.m4 >= p.bullish_btc_minimum_momentum_4h
                                     /\ a.m24 >= p.bullish_btc_minimum_momentum_24h
                   /\ Cardinality(rising) * 100
                        >= p.bullish_market_breadth_minimum * Cardinality(S)
        base == p.maximum_daily_turnover_fraction
        expanded == p.bullish_daily_turnover_fraction
    IN IF p.turnover_budget_mode = "FIXED" \/ expanded = None THEN base
       ELSE IF expanded > base /\ bullish THEN expanded ELSE base

TurnoverReasons(p, A) ==
    When(p.turnover_budget_mode # "FIXED",
         IF TurnoverBudget(p, A) > p.maximum_daily_turnover_fraction
         THEN "DYNAMIC_TURNOVER_BULLISH_REGIME_ACTIVE" ELSE "DYNAMIC_TURNOVER_BASE_REGIME_ACTIVE")

\* What a decision says of itself; what the context adds to it is left out.
DecisionReasons(p, i, selected, ordered, budgetExhausted, reasons) ==
    LET budget == TurnoverReasons(p, i.candidates)
        waiting == \E a \in i.candidates :
                /\ a.eligible /\ a.pair \notin i.held
                /\ (IF a.score = None THEN FALSE ELSE a.score > EntryHurdle(p))
                /\ i.confirmations[a.pair] < p.required_entry_confirmations - 1
        onlyHeld == selected # {} /\ \A a \in selected : a.pair \in i.held
        said == reasons \cup budget
                \cup When(budgetExhausted, "NEW_BUYS_BLOCKED_BY_DAILY_RISK_BUDGET")
                \cup When(onlyHeld, "HELD_ASSETS_REMAIN_WITHIN_EXIT_HYSTERESIS")
                \cup When(onlyHeld, "TARGET_WEIGHT_CHANGES_BELOW_REBALANCE_THRESHOLD")
                \cup When(waiting, "NEW_ENTRY_WAITING_FOR_SECOND_CONFIRMATION")
                \cup When(selected = {}, "NO_ASSET_PASSED_ENTRY_OR_HOLD_RULES")
    IN IF ordered THEN budget \cup {"ORDERS_CREATED_FOR_TARGET_WEIGHT_CHANGES"}
       ELSE IF said = {} THEN {"NO_ACTION_REQUIRED"} ELSE said

(***************************************************************************)
(* A decision: i gives the members of the universe, what is held, the       *)
(* confirmations, the executions and earlier cohorts, today's turnover and   *)
(* whether another daily limit is hit; known is the context the provider     *)
(* reads.                                                                    *)
(***************************************************************************)
\* What the selection is given: the assessed candidates, penalized for the context.
AssessedInput(p, i, A, o) ==
    [candidates |-> {[a EXCEPT !.feeAdjusted =
                        IF @ = None THEN None ELSE @ - DerivativesCostPenalty(p, o)] : a \in A},
     held |-> i.held, recentExits |-> RecentExits(p, i),
     expired |-> ExpiredHoldings(p, i), confirmations |-> i.confirmations,
     concentrated |-> SelectionConcentrationBlocked(p, i.cohorts, i.asOf),
     losing |-> RollingLossBlocked(p, i)]

\* The decision on an input j, and what is recorded of it.
Decision(p, i, j, o, block, s) ==
    [input |-> j, block |-> block, selected |-> s.ranked, evidence |-> s.evidence,
     weight |-> IF s.ranked = {} THEN 0 ELSE TargetWeight(p, Cardinality(s.ranked)),
     variants |-> SelectionVariants(p, j, o),
     disagreement |-> CrowdingGateDisagreement(p, o),
     reasons |-> DecisionReasons(p, j, s.ranked, i.ordered,
                    i.overLimit \/ i.turnover * 100 >= i.equity * TurnoverBudget(p, j.candidates),
                    SelectionReasons(p, j, block, s.evidence))]

DecideOn(p, i, j, o, block) == Decision(p, i, j, o, block, SelectWithEvidence(p, j, block))

Decide(p, i, known) ==
    LET o == DerivativesOverlay(p, known)
        A == Assess(p, i.members, i.held)
    IN IF A = Raised THEN Raised
       ELSE DecideOn(p, i, AssessedInput(p, i, A, o), o, DerivativesEntryBlock(p, o))

\* A derivatives outage sells nothing: whatever the context would have said, each
\* holding that is kept with it is kept without it, with no smaller a target
\* weight (_derivatives_entry_block_reason: "avoids turning a derivatives outage
\* into a forced liquidation").
OutageSellsNothing(p, i, known) ==
    LET kept(d) == {a.pair : a \in d.selected} \cap i.held
    IN \A with \in {Decide(p, i, known)}, without \in {Decide(p, i, None)} : with # Raised =>
        /\ kept(with) \subseteq kept(without)
        /\ kept(with) # {} => with.weight <= without.weight

\* The recorded reasons tell the selection, also where an entrant took the place
\* of a weaker asset: an asset is selected exactly when nothing is recorded against
\* it, except that of the held ones against which nothing was at first only the
\* best are, as many as there are positions.  The reasons and the selection are two
\* separate lists of conditions in the code, and reviews read the reasons.
EvidenceTellsSelection(p, i, known) ==
    \A d \in {Decide(p, i, known)} : d # Raised =>
        LET unopposed(a) == d.evidence[a] \subseteq {Confirmed}
            kept(a) == a.pair \in i.held /\ d.evidence[a] \subseteq {ReplacedByStronger}
            cut(a) == /\ a.pair \in i.held
                      /\ Cardinality({b \in DOMAIN d.evidence : kept(b) /\ Ahead(b, a)})
                           >= p.maximum_positions
        IN d.selected = {a \in DOMAIN d.evidence : unopposed(a) /\ ~cut(a)}

\* The control recorded beside a decision is what the previous published version
\* would have decided from the same market and history, and the four arms of
\* the accuracy patch end in the decision itself.  The control policies are written
\* out by hand.  Where a holding is expired, or an exit recent, for one of the two
\* versions only, the code lets the control see what the deciding version
\* sees, and it may select another set.
ControlIsThePreviousVersion(p, i, known) ==
    LET before == CASE p.version = "v2.5" -> V24 [] p.version = "v2.6" -> V25
                    [] p.version = "v2.7" -> V26
        names(S) == {a.pair : a \in S}
    IN \A d \in {Decide(p, i, known)} : d # Raised /\ d.variants # <<>> =>
        IF p.version = "v2.7-accuracy-v1" THEN d.variants[4][2] = d.selected
        ELSE \/ RecentExits(p, i) # RecentExits(before, i)
             \/ ExpiredHoldings(p, i) # ExpiredHoldings(before, i)
             \/ names(d.variants[1][2]) = names(Decide(before, i, known).selected)
=============================================================================
