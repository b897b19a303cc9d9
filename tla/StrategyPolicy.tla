--------------------------- MODULE StrategyPolicy ---------------------------
(***************************************************************************)
(* A strategy policy as a document of the registry: the schemas, the        *)
(* conversion of a policy to a document and back, the validation both apply, *)
(* and the patch that turns a parent's policy into a candidate's.           *)
(*                                                                          *)
(* A policy has one field per field of DynamicUniversePolicy.  A duration is *)
(* in half seconds, so that one can be finer than the second a document     *)
(* holds.  A value of a document has the kind TOML gives it; a value of a   *)
(* patch has the type the caller gave it.  Raised is a refusal.             *)
(***************************************************************************)
EXTENDS SelectionRules

(***************************************************************************)
(* Fields, their types and the schemas that know them                       *)
(***************************************************************************)
DecimalFields ==
    {"invested_fraction", "maximum_asset_weight", "minimum_order_notional",
     "minimum_rebalance_fraction", "exchange_fee_rate", "estimated_slippage_rate",
     "maximum_daily_turnover_fraction", "turnover_sell_weight",
     "bullish_daily_turnover_fraction", "maximum_daily_fee_fraction",
     "maximum_daily_realized_loss_fraction", "maximum_rolling_asset_realized_loss_fraction",
     "derivatives_minimum_funding_rate", "derivatives_minimum_basis_input_rate",
     "derivatives_minimum_global_long_short_ratio"}

DurationFields ==
    {"reentry_cooldown", "maximum_holding_period", "maximum_market_data_age",
     "selection_concentration_lookback", "rolling_asset_performance_lookback",
     "derivatives_maximum_age", "crowding_maximum_age", "maximum_entry_market_data_age"}

StringFields ==
    {"turnover_budget_mode", "scoring_method", "score_scale",
     "expected_return_calibration_mode", "derivatives_overlay_mode",
     "derivatives_feature_version", "crowding_overlay_mode", "crowding_feature_version"}

Counts ==
    {"minimum_history_bars", "liquidity_lookback_bars", "maximum_candidates",
     "maximum_positions", "maximum_hold_rank", "required_entry_confirmations",
     "bullish_market_breadth_minimum_candidates",
     "selection_concentration_minimum_cohorts", "rolling_asset_minimum_sells"}

TypeOf(f) ==
    CASE f \in DecimalFields -> "decimal"
      [] f \in DurationFields -> "duration"
      [] f \in StringFields -> "string"
      [] f \in Counts -> "integer"
      [] f = "excluded_base_assets" -> "tuple"
      [] OTHER -> "float"

Kind(f) ==
    CASE TypeOf(f) \in {"decimal", "string"} -> "string"
      [] TypeOf(f) \in {"duration", "integer"} -> "integer"
      [] TypeOf(f) = "tuple" -> "array"
      [] OTHER -> "float"

EntryBands == {"minimum_entry_momentum_1h", "maximum_entry_momentum_1h",
               "minimum_entry_momentum_4h", "maximum_entry_momentum_4h",
               "minimum_entry_momentum_24h", "maximum_entry_momentum_24h"}

RegimeThresholds == {"derivatives_minimum_funding_rate", "derivatives_minimum_basis_input_rate",
                     "derivatives_minimum_global_long_short_ratio"}
CrowdingThresholds == {"crowding_maximum_long_score", "crowding_maximum_bearish_unwind_score"}

OptionalFields ==
    EntryBands \cup RegimeThresholds \cup CrowdingThresholds \cup
    {"bullish_daily_turnover_fraction", "maximum_entry_volatility",
     "maximum_entry_volatility_quantile", "minimum_hold_momentum_1h",
     "minimum_hold_momentum_24h", "maximum_hold_volatility", "maximum_holding_period",
     "maximum_market_data_age", "extreme_score_penalty_threshold",
     "selection_concentration_lookback", "maximum_selection_concentration",
     "rolling_asset_performance_lookback", "maximum_rolling_asset_realized_loss_fraction",
     "maximum_entry_market_data_age"}

\* What schema 2, 3 and 4 added; schema 5 knows every field.
Schema2Fields ==
    {"maximum_market_data_age", "extreme_score_penalty_threshold",
     "extreme_score_maximum_penalty", "expected_return_calibration_mode",
     "expected_return_1h_intercept", "expected_return_1h_score_slope",
     "expected_return_4h_intercept", "expected_return_4h_score_slope",
     "minimum_fee_adjusted_entry_return", "minimum_expected_hold_return",
     "minimum_fee_adjusted_replacement_advantage", "selection_concentration_lookback",
     "maximum_selection_concentration", "selection_concentration_minimum_cohorts",
     "rolling_asset_performance_lookback", "rolling_asset_minimum_sells",
     "maximum_rolling_asset_realized_loss_fraction", "derivatives_overlay_mode",
     "derivatives_feature_version", "derivatives_maximum_age"}
Schema3Fields == RegimeThresholds
Schema4Fields == CrowdingThresholds \cup
    {"crowding_overlay_mode", "crowding_feature_version", "crowding_maximum_age"}
Schema5Fields == {"maximum_entry_market_data_age"}

\* The policy of SelectionRules with each field under its own name.
Policy(q) ==
    LET calm == q.version # DynamicUniversePolicy.version
        at(h, part) == IF q.calibration = None THEN 0 ELSE q.calibration[h][part]
        grouped == {"cost", "weights", "entry", "calibration", "minimum"}
    IN [f \in DOMAIN q \ grouped |->
          CASE f = "excluded_base_assets" -> IF q[f] = {} THEN <<>> ELSE <<"stable">>
            [] f \in DurationFields -> IF q[f] = None THEN None ELSE 120 * q[f]
            [] OTHER -> q[f]]
       @@ [liquidity_lookback_bars |-> 96, minimum_order_notional |-> 5000,
           minimum_rebalance_fraction |-> 2, exchange_fee_rate |-> 5,
           estimated_slippage_rate |-> 5, hold_score_hurdle |-> IF calm THEN 4500 ELSE 10,
           maximum_daily_fee_fraction |-> IF calm THEN 30 ELSE 50,
           maximum_daily_realized_loss_fraction |-> IF calm THEN 100 ELSE 200,
           momentum_1h_weight |-> q.weights.m1, momentum_4h_weight |-> q.weights.m4,
           momentum_24h_weight |-> q.weights.m24, volatility_weight |-> q.weights.vol,
           minimum_entry_momentum_1h |-> q.entry.m1[1],
           maximum_entry_momentum_1h |-> q.entry.m1[2],
           minimum_entry_momentum_4h |-> q.entry.m4[1],
           maximum_entry_momentum_4h |-> q.entry.m4[2],
           minimum_entry_momentum_24h |-> q.entry.m24[1],
           maximum_entry_momentum_24h |-> q.entry.m24[2],
           expected_return_calibration_mode |->
              IF q.calibration = None THEN "DISABLED" ELSE "SCORE_LINEAR",
           expected_return_1h_intercept |-> at(1, "at"),
           expected_return_1h_score_slope |-> at(1, "slope"),
           expected_return_4h_intercept |-> at(2, "at"),
           expected_return_4h_score_slope |-> at(2, "slope"),
           derivatives_maximum_age |-> 1200, crowding_maximum_age |-> 1200,
           crowding_feature_version |-> "crowding-v1",
           derivatives_minimum_funding_rate |-> q.minimum.funding,
           derivatives_minimum_basis_input_rate |-> q.minimum.basis,
           derivatives_minimum_global_long_short_ratio |-> q.minimum.longShort]

Default == Policy(DynamicUniversePolicy)
Fields == DOMAIN Default \ {"version"}

PolicyFieldsForSchema(schema) ==
    Fields \ UNION {IF schema < 2 THEN Schema2Fields ELSE {},
                    IF schema < 3 THEN Schema3Fields ELSE {},
                    IF schema < 4 THEN Schema4Fields ELSE {},
                    IF schema < 5 THEN Schema5Fields ELSE {}}

\* The schema a version has to keep; versions published later have the last one.
ReservedSchema(version) ==
    CASE version \in {"v2.1", "v2.2", "v2.3"} -> 1
      [] version \in {"v2.4", "v2.5"} -> 2
      [] version = "v2.6" -> 3
      [] version = "v2.7" -> 4
      [] OTHER -> 5

\* A plausible bug: fields the schema does not know are dropped in silence.
SchemaOfItsVersion(p) == ReservedSchema(p.version)

\* A version published under an older schema may not use a newer field.
SchemaVersionForPolicy(p) ==
    LET schema == ReservedSchema(p.version)
    IN IF \E f \in Fields \ PolicyFieldsForSchema(schema) : p[f] # Default[f]
       THEN Raised ELSE schema

(***************************************************************************)
(* Validation                                                               *)
(***************************************************************************)
Unset(p, fields) == \A f \in fields : p[f] = None
Set(p, fields) == \A f \in fields : p[f] # None
Within(v, low, high) == low <= v /\ v <= high

ValidCounts(p) ==
    /\ \A f \in Counts : p[f] > 0
    /\ p.liquidity_lookback_bars <= p.minimum_history_bars
    /\ p.maximum_positions <= p.maximum_candidates
    /\ p.maximum_hold_rank <= p.maximum_candidates
    /\ p.bullish_market_breadth_minimum_candidates <= p.maximum_candidates

ValidFractions(p) ==
    /\ Within(p.invested_fraction, 1, 100) /\ Within(p.maximum_asset_weight, 1, 100)
    /\ p.maximum_asset_weight * p.maximum_positions >= p.invested_fraction
    /\ p.minimum_order_notional > 0
    /\ Within(p.minimum_rebalance_fraction, 0, 100)
    /\ \A f \in {"exchange_fee_rate", "estimated_slippage_rate", "maximum_daily_fee_fraction",
                 "maximum_daily_realized_loss_fraction"} : Within(p[f], 0, 9999)
    /\ p.maximum_daily_turnover_fraction > 0
    /\ Within(p.turnover_sell_weight, 0, 100)

ValidTurnover(p) ==
    /\ p.turnover_budget_mode \in {"FIXED", "BULLISH_REGIME"}
    /\ IF p.turnover_budget_mode = "FIXED" THEN p.bullish_daily_turnover_fraction = None
       ELSE /\ p.bullish_daily_turnover_fraction # None
            /\ p.bullish_daily_turnover_fraction >= p.maximum_daily_turnover_fraction
    /\ Within(p.bullish_market_breadth_minimum, 0, 100)

ValidModes(p) ==
    /\ p.scoring_method \in {"RAW_MOMENTUM", "CALM_PULLBACK_RANK"}
    /\ p.score_scale \in {"EXPECTED_RETURN", "UNIT_INTERVAL"}
    /\ p.expected_return_calibration_mode \in {"DISABLED", "SCORE_LINEAR"}
    /\ p.crowding_overlay_mode \in {"DISABLED", "SHADOW", "ENTRY_GATE"}
    /\ p.derivatives_overlay_mode \in
         {"DISABLED", "SHADOW", "ENTRY_GATE", "LONG_SHORT_GATE", "SOFT_PENALTY"}
    /\ p.derivatives_feature_version # "" /\ p.crowding_feature_version # ""

\* A gate has all of its thresholds, and without the gate there are none.
ValidGates(p) ==
    /\ IF p.derivatives_overlay_mode \in {"ENTRY_GATE", "LONG_SHORT_GATE", "SOFT_PENALTY"}
       THEN Set(p, RegimeThresholds) /\ p.derivatives_minimum_global_long_short_ratio > 0
       ELSE Unset(p, RegimeThresholds)
    /\ IF p.crowding_overlay_mode = "ENTRY_GATE"
       THEN \A f \in CrowdingThresholds : p[f] # None /\ Within(p[f], 0, 100)
       ELSE Unset(p, CrowdingThresholds)

ValidScores(p) ==
    /\ p.score_scale = "UNIT_INTERVAL" =>
         \A f \in {"entry_score_hurdle", "hold_score_hurdle", "exit_score_hurdle",
                   "minimum_replacement_score_advantage"} : Within(p[f], 0, 10000)
    /\ IF p.extreme_score_penalty_threshold = None THEN p.extreme_score_maximum_penalty = 0
       ELSE /\ Within(p.extreme_score_penalty_threshold, 0, 9999)
            /\ Within(p.extreme_score_maximum_penalty, 1, 10000)
    /\ IF p.expected_return_calibration_mode = "DISABLED"
       THEN \A f \in {"expected_return_1h_intercept", "expected_return_1h_score_slope",
                      "expected_return_4h_intercept", "expected_return_4h_score_slope"} :
               p[f] = 0
       ELSE p.expected_return_1h_score_slope > 0 /\ p.expected_return_4h_score_slope > 0
    /\ \A f \in {"minimum_fee_adjusted_entry_return", "minimum_expected_hold_return",
                 "minimum_fee_adjusted_replacement_advantage"} : p[f] >= 0

ValidLimits(p) ==
    /\ (p.selection_concentration_lookback = None) = (p.maximum_selection_concentration = None)
    /\ p.maximum_selection_concentration # None => Within(p.maximum_selection_concentration, 1, 100)
    /\ (p.rolling_asset_performance_lookback = None)
         = (p.maximum_rolling_asset_realized_loss_fraction = None)
    /\ p.maximum_rolling_asset_realized_loss_fraction # None =>
         Within(p.maximum_rolling_asset_realized_loss_fraction, 1, 999)
    /\ \A f \in {"maximum_entry_volatility", "maximum_hold_volatility"} :
         p[f] # None => p[f] >= 0
    /\ p.maximum_entry_volatility_quantile # None =>
         Within(p.maximum_entry_volatility_quantile, 0, 100)
    /\ \A band \in {<<"minimum_entry_momentum_1h", "maximum_entry_momentum_1h">>,
                    <<"minimum_entry_momentum_4h", "maximum_entry_momentum_4h">>,
                    <<"minimum_entry_momentum_24h", "maximum_entry_momentum_24h">>} :
         (p[band[1]] # None /\ p[band[2]] # None) => p[band[1]] <= p[band[2]]

ValidDurationsAndAssets(p) ==
    /\ \A f \in DurationFields : p[f] # None => p[f] > 0
    /\ IsInjective(p.excluded_base_assets)
    /\ \A i \in DOMAIN p.excluded_base_assets : p.excluded_base_assets[i] # "not an asset"

ValidRuntimeTypes(p) == \A f \in Fields : p[f] = None => f \in OptionalFields

ValidPolicy(p) ==
    /\ ValidRuntimeTypes(p) /\ ValidCounts(p) /\ ValidFractions(p) /\ ValidTurnover(p)
    /\ ValidModes(p) /\ ValidGates(p) /\ ValidScores(p) /\ ValidLimits(p)
    /\ ValidDurationsAndAssets(p)

(***************************************************************************)
(* A policy written and read                                                *)
(***************************************************************************)
EncodeValue(f, v) ==
    [kind |-> Kind(f), value |-> IF f \in DurationFields THEN v \div 2 ELSE v]

Encodable(f, v) == f \in DurationFields => v % 2 = 0

DecodeValue(f, raw) == IF f \in DurationFields THEN 2 * raw.value ELSE raw.value

SerializeStrategyPolicy(p) ==
    LET schema == SchemaVersionForPolicy(p)
        known == PolicyFieldsForSchema(schema)
        null == {f \in known : p[f] = None}
    IN IF \/ ~ValidPolicy(p) \/ schema = Raised
          \/ \E f \in known \ null : ~Encodable(f, p[f])
       THEN Raised
       ELSE [schema_version |-> schema, strategy_version |-> p.version, null_fields |-> null,
             policy |-> [f \in known \ null |-> EncodeValue(f, p[f])]]

\* The values the frozen configuration hash is taken of.
StrategyPolicyConfigValues(p) ==
    [f \in PolicyFieldsForSchema(SchemaVersionForPolicy(p)) \cup {"version"} |-> p[f]]

PolicyFromDocument(d, expected) ==
    LET known == PolicyFieldsForSchema(d.schema_version)
        supplied == DOMAIN d.policy
        loaded == [f \in Fields \cup {"version"} |->
                     CASE f = "version" -> d.strategy_version
                       [] f \in supplied -> DecodeValue(f, d.policy[f])
                       [] f \in d.null_fields -> None
                       [] OTHER -> Default[f]]
    IN IF /\ d.schema_version \in 1 .. 5
          /\ d.strategy_version = expected
          /\ d.schema_version = ReservedSchema(d.strategy_version)
          /\ supplied \cap d.null_fields = {}
          /\ supplied \cup d.null_fields = known
          /\ d.null_fields \subseteq OptionalFields
          /\ \A f \in supplied : d.policy[f].kind = Kind(f)
          /\ ValidPolicy(loaded)
       THEN loaded ELSE Raised

(***************************************************************************)
(* A candidate: the parent's policy with a patch                            *)
(***************************************************************************)
\* The venue's costs and the smallest order are no hypothesis of a strategy.
PatchablePolicyFields ==
    Fields \ {"minimum_order_notional", "exchange_fee_rate", "estimated_slippage_rate",
              "maximum_entry_market_data_age"}

RequireTypedValue(f, v) ==
    (v.value = None /\ f \in OptionalFields) \/ (v.value # None /\ v.type = TypeOf(f))

ValidatePatch(patch) ==
    /\ DOMAIN patch # {} /\ DOMAIN patch \subseteq PatchablePolicyFields
    /\ \A f \in DOMAIN patch : RequireTypedValue(f, patch[f])

RequirePaperSafety(p) ==
    /\ p.maximum_positions <= 3 /\ p.invested_fraction <= 90 /\ p.maximum_asset_weight <= 40
    /\ p.maximum_daily_turnover_fraction <= 600
    /\ p.maximum_daily_fee_fraction <= 50 /\ p.maximum_daily_realized_loss_fraction <= 200
    /\ p.bullish_daily_turnover_fraction = None \/ p.bullish_daily_turnover_fraction <= 800
    /\ p.turnover_sell_weight >= 50

ChangedPolicyFields(parent, p) == {f \in Fields : parent[f] # p[f]}

PatchAudit(parent, p, names) ==
    [f \in names |->
      [declaredType |-> TypeOf(f), optional |-> f \in OptionalFields,
       old |-> IF f \in DurationFields /\ parent[f] # None THEN parent[f] \div 2 ELSE parent[f],
       new |-> IF f \in DurationFields /\ p[f] # None THEN p[f] \div 2 ELSE p[f]]]

\* The candidate's document and the audit the proposal keeps, or a refusal.
ProposeCandidate(parent, version, patch) ==
    LET p == [f \in DOMAIN parent |->
                IF f = "version" THEN version
                ELSE IF f \in DOMAIN patch THEN patch[f].value ELSE parent[f]]
        changed == ChangedPolicyFields(parent, p)
    IN IF ~ValidatePatch(patch) THEN Raised
       ELSE IF changed # DOMAIN patch \/ ~RequirePaperSafety(p) THEN Raised
       ELSE IF SerializeStrategyPolicy(p) = Raised THEN Raised
       ELSE [document |-> SerializeStrategyPolicy(p), policy |-> p,
             hashed |-> StrategyPolicyConfigValues(p),
             audit |-> PatchAudit(parent, p, changed)]

\* What every later command checks again from the files.
VerifyProposal(parent, version, proposal) ==
    LET p == PolicyFromDocument(proposal.document, version)
        changed == ChangedPolicyFields(parent, p)
    IN /\ p # Raised
       /\ StrategyPolicyConfigValues(p) = proposal.hashed
       /\ changed # {} /\ changed \subseteq PatchablePolicyFields
       /\ RequirePaperSafety(p)
       /\ proposal.audit = PatchAudit(parent, p, changed)

(***************************************************************************)
(* A proposal that was accepted holds for good: the document it wrote loads *)
(* into the very policy proposed, whatever schema its version has to keep,  *)
(* and the verification of every later command, which hashes, compares and  *)
(* audits what it reads, accepts it.                                        *)
(***************************************************************************)
AcceptedProposalHolds(parent, version, patch) ==
    \A proposal \in {ProposeCandidate(parent, version, patch)} : proposal # Raised =>
          /\ PolicyFromDocument(proposal.document, version) = proposal.policy
          /\ VerifyProposal(parent, version, proposal)

(***************************************************************************)
(* The registry's loader reads a document as nothing but the policy it      *)
(* tells: a document it accepts, edited or not, is the one the policy it    *)
(* loads would be published as; nothing is defaulted, dropped or converted. *)
(***************************************************************************)
DocumentTellsPolicy(document, version) ==
    \A p \in {PolicyFromDocument(document, version)} : p # Raised => SerializeStrategyPolicy(p) = document
=============================================================================
