---------------------------- MODULE MCAlgorithms ----------------------------
\* The computations of the engine, each on its own inputs: the analysis of a
\* review, the rules of a selection, policy documents, derivatives signals,
\* backtests and training.
\* They share no state here, so a behaviour picks one of them: an input is judged
\* where it is picked, and those that are state machines take their own steps.
EXTENDS ReviewAnalysis, DerivativesSignals

CONSTANT Raised
VARIABLE input

MCMinutes == ("15" :> 1) @@ ("60" :> 2) @@ ("240" :> 3)
MCDayOf == [t \in 0 .. 20 |-> t \div 4]

(***************************************************************************)
(* The analysis of a review                                                 *)
(***************************************************************************)
Row(a, score, selected, reasons) ==
    [asset |-> a, score |-> score, selected |-> selected, reasons |-> reasons]
Variant(a, v, selected) == [asset |-> a, variant |-> v, selected |-> selected]
MCCohorts ==
    {[rows |-> {Row(1, 3, TRUE, {}), Row(2, 2, FALSE, {}), Row(3, 1, FALSE, {Guard})},
      variants |-> {Variant(a, v, a = 1) : a \in 1 .. 3,
                        v \in {"v2.6-rule-control"} \cup Range(Arms)}],
     [rows |-> {Row(1, 1, FALSE, {Guard}), Row(2, 2, TRUE, {}), Row(3, None, FALSE, {})},
      variants |-> {Variant(a, v, a # 2) : a \in 1 .. 2,
                        v \in {"v2.6-rule-control", Arms[1], Arms[2]}}]}
MCContexts ==
    {[availability |-> "AVAILABLE", version |-> "v3", source |-> "OFFICIAL", rate |-> TRUE,
      official |-> TRUE, proxy |-> TRUE, disagreement |-> TRUE]}
Ended(r) == [status |-> "COMPLETED", ret |-> r, mfe |-> r, mae |-> None]
MCSettlements ==
    {<<Ended(3), Ended(1), [status |-> "MISSING", ret |-> None, mfe |-> None, mae |-> None]>>}
MCTrades == {{[side |-> "SELL", pnl |-> 1, fee |-> 1, quantity |-> 1, price |-> 2]}}
MCHashRank == [d \in 1 .. 4 |-> 5 - d]
MCThresholds ==
    [minimum_calendar_days |-> <<1, 1>>, minimum_mature_1h_cohorts |-> <<1, 1>>,
     minimum_mature_4h_cohorts |-> <<1, 1>>, minimum_decision_coverage |-> <<1, 9>>,
     maximum_outcome_missing_rate |-> <<1, 2>>, minimum_selected_gross_return |-> <<0, 1>>,
     minimum_selected_spread |-> <<0, 1>>, minimum_score_ic |-> <<0, 1>>,
     minimum_paper_net_return |-> <<0, 1>>, minimum_profit_factor |-> <<1, 1>>,
     maximum_drawdown |-> <<1, 2>>, maximum_selection_concentration |-> <<1, 1>>,
     minimum_derivatives_context_coverage |-> <<1, 1>>,
     minimum_derivatives_available_rate |-> <<1, 1>>,
     required_derivatives_feature_version |-> "v3",
     required_derivatives_basis_input_source |-> "OFFICIAL",
     minimum_derivatives_basis_input_source_match_rate |-> <<1, 1>>,
     selection_control_variant_id |-> "v2.6-rule-control",
     minimum_selection_control_variant_coverage |-> <<1, 1>>,
     minimum_selection_control_paired_4h_cohorts |-> <<1, 1>>,
     minimum_selection_control_changed_cohorts |-> <<0, 1>>,
     minimum_selection_control_outcome_coverage |-> <<1, 2>>,
     maximum_selection_control_outcome_coverage_gap |-> <<1, 2>>,
     minimum_selection_control_actual_minus_control |-> <<0, 1>>,
     economic_round_trip_cost |-> <<1, 10>>]

(***************************************************************************)
(* Selection                                                                *)
(***************************************************************************)
Rules == INSTANCE StrategyPolicy

Rising == [m1 |-> 60, m4 |-> 80, m24 |-> 100, vol |-> 20]
Pullback == [m1 |-> -60, m4 |-> -40, m24 |-> -10, vol |-> 10]
Dip == [m1 |-> -30, m4 |-> 0, m24 |-> 20, vol |-> 15]
Surge == [m1 |-> 200, m4 |-> 300, m24 |-> 500, vol |-> 25]
Kinds == {Pullback, Dip, Rising, [m1 |-> 0, m4 |-> 0, m24 |-> -50, vol |-> 12]}
Member(n, k) == [pair |-> n, base |-> "coin", quote |-> "KRW", warning |-> FALSE, bars |-> 700,
                 age |-> 5, volume |-> 100 - n] @@ k
Calm == [availability |-> "AVAILABLE", funding |-> 100, basis |-> 0, longShort |-> 2000000,
         crowdingAvailability |-> "AVAILABLE", crowding |-> "NEUTRAL", long |-> 10,
         bearish |-> 10]
Selections(policies) ==
    [case : {"selection"}, policy : policies,
     known : {Calm, [Calm EXCEPT !.funding = 0], None}, universe : [1 .. 3 -> Kinds],
     fifth : {Pullback, Surge}, held : {{}, {1}, {1, 2}, {1, 2, 3}, {1, 2, 5}}]

Fill(pair, side, quantity, at, pnl) ==
    [pair |-> pair, side |-> side, quantity |-> quantity, at |-> at, pnl |-> pnl]

\* It is minute 400.  What is held was bought in minute 300, 380, 150 or 385, the
\* second pair after an earlier round and the third once more than is left; else
\* the first was sold in minute 330 and the third in 220.  The fourth lost twice, and
\* the sixth is selected in every fourth cohort.
SelectionInput(x) ==
    [members |-> {Member(n, x.universe[n]) : n \in 1 .. 3}
                 \cup {Member(4, Dip), Member(5, x.fifth), Member(6, Dip)},
     held |-> x.held,
     executions |->
        <<Fill(2, "BUY", 1, 100, 0), Fill(2, "SELL", 1, 105, 0),
          Fill(4, "BUY", 2, 110, 0), Fill(4, "SELL", 1, 115, -1), Fill(4, "SELL", 1, 120, -1),
          Fill(3, "BUY", 2, 150, 0), Fill(3, "SELL", 1, 160, 0)>>
        \o (IF 3 \in x.held THEN <<>> ELSE <<Fill(3, "SELL", 1, 220, 0)>>)
        \o <<Fill(1, "BUY", 1, 300, 0)>>
        \o (IF 1 \in x.held THEN <<>> ELSE <<Fill(1, "SELL", 1, 330, 0)>>)
        \o (IF 2 \in x.held THEN <<Fill(2, "BUY", 1, 380, 0)>> ELSE <<>>)
        \o (IF 5 \in x.held THEN <<Fill(5, "BUY", 1, 385, 0)>> ELSE <<>>),
     cohorts |-> {[asOf |-> 15 * n, selected |-> {IF n % 4 = 0 THEN 6 ELSE 7}] : n \in 1 .. 20},
     confirmations |-> [n \in 1 .. 6 |-> IF n = 2 THEN 1 ELSE 2], asOf |-> 400,
     turnover |-> 10, equity |-> 100, ordered |-> FALSE, overLimit |-> FALSE]

\* Rules!OutageSellsNothing over these inputs: a derivatives outage sells nothing
\* (_derivatives_entry_block_reason).
OutageSellsNothing ==
    input.case = "selection" =>
        Rules!OutageSellsNothing(input.policy, SelectionInput(input), input.known)

\* Rules!EvidenceTellsSelection and Rules!ControlIsThePreviousVersion over these
\* inputs: what is recorded beside a decision, its reasons and its control
\* selection, is what the rules did and what the version before would have done, but
\* for holdings and exits that only one of the two versions takes for expired or recent.
SelectionIsExplained ==
    input.case = "selection" =>
        /\ Rules!EvidenceTellsSelection(input.policy, SelectionInput(input), input.known)
        /\ Rules!ControlIsThePreviousVersion(input.policy, SelectionInput(input), input.known)

(***************************************************************************)
(* Policy documents and proposals                                           *)
(***************************************************************************)
Typed(f, v) == f :> [type |-> Rules!TypeOf(f), value |-> v]
Values(f) ==
    CASE f \in Rules!DurationFields -> {0, 121, 3600}
      [] f \in Rules!Counts -> {0, 3, 25}
      [] f = "excluded_base_assets" ->
            {<<>>, <<"stable", "stable">>, <<"not an asset">>, <<"stable", "other">>}
      [] f \in Rules!StringFields ->
            {"", "DISABLED", "SHADOW", "ENTRY_GATE", "FIXED", "UNIT_INTERVAL"}
      [] OTHER -> {-1, 0, 25, 95, 900}
Patches ==
    UNION {{Typed(f, v) : v \in Values(f) \cup (IF f \in Rules!OptionalFields THEN {None} ELSE {})} :
             f \in Rules!Fields}
    \cup {Typed("derivatives_overlay_mode", "SHADOW")
            @@ Typed("derivatives_minimum_funding_rate", None)
            @@ Typed("derivatives_minimum_basis_input_rate", None)
            @@ Typed("derivatives_minimum_global_long_short_ratio", None),
          Typed("crowding_overlay_mode", "SHADOW")
            @@ Typed("crowding_maximum_long_score", None)
            @@ Typed("crowding_maximum_bearish_unwind_score", None),
          Typed("exchange_fee_rate", 0) @@ Typed("maximum_positions", 1),
          "maximum_positions" :> [type |-> "float", value |-> 1]}
Parents == {Rules!Policy(q) : q \in {Rules!V23, Rules!V26, Rules!V27Accuracy}}
Proposals(parents) ==
    [case : {"proposal"}, parent : parents, version : {"v2.1", "v2.6", "v3.0"}, patch : Patches]

\* A document that was edited: its schema, a field left out, put in, nulled or retyped.
Edits(d) ==
    LET without(g) == [d EXCEPT !.policy = Restrict(@, DOMAIN @ \ {g})]
        absent == {f \in Rules!Fields \ DOMAIN d.policy : Rules!Default[f] # None}
    IN {d} \cup {[d EXCEPT !.schema_version = n] : n \in 1 .. 6}
       \cup {without(g) : g \in DOMAIN d.policy}
       \cup {[without(g) EXCEPT !.null_fields = @ \cup {g}] : g \in DOMAIN d.policy}
       \cup {[d EXCEPT !.policy = @ @@ (g :> Rules!EncodeValue(g, Rules!Default[g]))] : g \in absent}
       \cup UNION {{[d EXCEPT !.policy[g] = Rules!EncodeValue(g, v)] : v \in Values(g)} :
                     g \in DOMAIN d.policy}
       \cup {[d EXCEPT !.policy[g].kind = k] :
               g \in {"invested_fraction", "entry_score_hurdle", "maximum_positions"},
               k \in {"string", "integer", "float"}}
Documents(parents) ==
    UNION {[case : {"document"}, document : Edits(d), version : {d.strategy_version}] :
             d \in {Rules!SerializeStrategyPolicy(p) : p \in parents}}

\* Rules!AcceptedProposalHolds and Rules!DocumentTellsPolicy over these inputs: a
\* candidate that is accepted is one the registry serves unchanged, and a document
\* that loads has each of its fields (propose, PolicyFromDocument).
PoliciesSurvive ==
    /\ input.case = "proposal" =>
          Rules!AcceptedProposalHolds(input.parent, input.version, input.patch)
    /\ input.case = "document" => Rules!DocumentTellsPolicy(input.document, input.version)

(***************************************************************************)
(* Backtests and training                                                   *)
(***************************************************************************)
MCLog == [p \in {1, 2, 4, 8} |-> CASE p = 1 -> 0 [] p = 2 -> 1 [] p = 4 -> 2 [] OTHER -> 3]
MCScore(a, f) ==
    f.momentum[Len(f.momentum)] - f.momentum[1] + (IF f.reference[1] = 2 THEN 1 ELSE 0)
Models == INSTANCE ModelTraining
            WITH BTC <- 1, Unit <- 1200, Log <- MCLog, FeatureLookback <- 2, Score <- MCScore

Days == 0 .. 10
Daily(close) == [d \in Days |-> [open |-> IF d = 0 THEN 2 ELSE close[d - 1], close |-> close[d],
                                 volume |-> 1]]
Course(q) == [d \in Days |-> q[d + 1]]
PriceEdits ==
    [kind : {"open"}, asset : {1, 2}, day : {4, 6}, value : {1}]
    \cup [kind : {"close"}, asset : {1, 2}, day : {4, 5}, value : {8}]
    \cup [kind : {"snapshot"}, asset : {3}, day : {5}, value : {0}]
Courses == {<<1, 2, 2, 4, 4, 4, 8, 8, 8, 4, 4>>, <<4, 2, 4, 2, 4, 2, 2, 1, 2, 2, 4>>}
Histories(courses) ==
    {x \in [case : {"history"},
            btc : courses,
            high : SUBSET {3, 4, 5}, universe : BOOLEAN, bars : {1, 2}, edit : PriceEdits] :
        x.edit.kind = "snapshot" => x.universe}
Stored(x) ==
    (1 :> Daily(Course(x.btc)))
    @@ (2 :> Daily([d \in Days |-> IF d \notin 2 .. 6 THEN 2 ELSE IF d \in x.high THEN 4 ELSE 1]))
    @@ (3 :> Daily([d \in Days |-> IF d % 3 = 0 THEN 4 ELSE 2]))
UniverseHistory(x) ==
    IF ~x.universe THEN None
    ELSE {[observedAt |-> 0, warning |-> [a \in 1 .. 3 |-> FALSE]],
          [observedAt |-> 4, warning |-> [a \in 1 .. 3 |-> a = 3]]}
Configuration(x) ==
    [start |-> 2, end |-> 11, lookback |-> 1, minimumVolume |-> 0, rebalance |-> 1, fee |-> 6,
     slippage |-> 12, maximumPositions |-> 2, maximumWeight |-> 600,
     model |-> [short |-> 2, long |-> 3, bars |-> x.bars, volatility |-> 1],
     universe |-> [lookback |-> 2, minimumVolume |-> 1, maximumAssets |-> 2], horizon |-> 2,
     split |-> [train |-> 1, validation |-> 1, test |-> 1, step |-> 1, purge |-> x.bars,
                expanding |-> FALSE],
     minimumReturn |-> 0]
Ic == [m \in {"a", "b"} |-> [part \in {"validation", "test"} |->
         [k \in 1 .. 9 |-> IF m = "a" THEN k ELSE IF k = 1 THEN None ELSE 2]]]
WorseTest == [Ic EXCEPT !["a"].test = [k \in 1 .. 9 |-> -5]]

\* Models!NoLookAhead and Models!FoldsArePurged over these inputs: nothing that
\* was unknown at a decision reaches it, and no training row sees the period that
\* judges the model (known_at, split).
NothingLeaks ==
    input.case = "history" =>
        /\ Models!NoLookAhead(Stored(input), UniverseHistory(input), Configuration(input),
                              input.edit, "NEUTRAL")
        /\ input.edit.kind = "open" /\ input.edit.asset = 1 =>
              Models!FoldsArePurged(Stored(input), UniverseHistory(input), Configuration(input),
                                    <<"a", "b">>, Ic, WorseTest)

(***************************************************************************)
(* Signals                                                                  *)
(***************************************************************************)
MCMarkets ==
    {[t \in 0 .. 4 |->
        [mark |-> <<100, 99, 100, 98, 98>>[t + 1], index |-> 101, funding |-> -300, basis |-> 0,
         interest |-> <<9, 10, 12, 11, 13>>[t + 1], global |-> 700000, top |-> 1600000,
         taker |-> 1400000]]}
MCCandles == {[open |-> i - 5, available |-> i - 4, close |-> 100 + 2 * i, high |-> 100 + 2 * i,
               volume |-> 10 + i * i] : i \in 0 .. 6}
MCLiquidated == {[position |-> "SHORT", notional |-> 1]}
MCLogShare == [n \in 0 .. 3 |-> n * 30]

(***************************************************************************)
(* One of them                                                              *)
(***************************************************************************)
MCInit ==
    /\ AnalysisInit /\ SignalsInit
    /\ input \in [case : {"analysis", "signals"}]
                 \cup [case : {"select"}, of : Rules!DynamicPolicies]
                 \cup [case : {"propose", "load"}, of : Parents]
                 \cup [case : {"train"}, of : Courses]

\* The inputs are picked a policy, a parent or a course at a time.
Pick ==
    /\ \/ input.case = "select" /\ input' \in Selections({input.of})
       \/ input.case = "propose" /\ input' \in Proposals({input.of})
       \/ input.case = "load" /\ input' \in Documents({input.of})
       \/ input.case = "train" /\ input' \in Histories({input.of})
    /\ UNCHANGED <<analysisVars, signalVars>>

MCNext ==
    \/ Pick
    \/ /\ input.case = "analysis" /\ AnalysisNext
       /\ UNCHANGED <<input, signalVars>>
    \/ /\ input.case = "signals" /\ SignalsNext
       /\ UNCHANGED <<input, analysisVars>>

MCSpec == MCInit /\ [][MCNext]_<<analysisVars, input, signalVars>>
=============================================================================
