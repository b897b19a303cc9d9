--------------------------- MODULE ReviewAnalysis ---------------------------
(***************************************************************************)
(* The automated review of a frozen experiment: what it reads from the      *)
(* observation and from the paper database while the scheduler goes on      *)
(* writing both, the cutoff it selects, the statistics it computes from     *)
(* what lies before the cutoff, its gates and its decision.                 *)
(*                                                                          *)
(* A cycle of the lane trades, saves its paper decision and then its        *)
(* snapshots; an evaluation settles outcomes with the time at which its     *)
(* batch began.  The analyzer reads the observation database first and the  *)
(* paper database later, each in a transaction of its own.  Every write     *)
(* advances the clock.                                                      *)
(***************************************************************************)
EXTENDS Statistics

CONSTANTS
    Decisions,      \* decision identifiers, in the order of their cycles: 1..n
    HashRank,       \* where the identifier, a hash, sorts among the others
    Minutes,        \* the ticks of the horizons "15", "60" and "240"
    Grace,          \* outcome_settlement_grace_minutes
    Interval,       \* decision_interval_minutes
    DayOf,          \* the Asia/Seoul date of a tick
    Cohorts,        \* what the snapshots of one decision may look like
    Contexts,       \* what a market context may hold
    Settlements,    \* what the outcomes of one decision may be
    Trades,         \* what a cycle may execute
    Equities,       \* what a portfolio may be worth
    Thresholds,     \* StrategyReviewThresholds of the version under review
    StartingEquity,
    MaxTime         \* how far the clock is explored

ASSUME AnalysisAssumption ==
    /\ DOMAIN Minutes = {"15", "60", "240"} /\ Grace \in Nat /\ Interval \in Nat \ {0}
    /\ Decisions \subseteq Nat /\ IsInjective(HashRank)
    /\ \A d \in Decisions : d \in DOMAIN HashRank /\ HashRank[d] \in Int

VARIABLES
    now,
    cycle,          \* the cycle in flight: its decision and how far it is
    obs,            \* tables of the observation database
    paper,          \* tables of the paper database
    view,           \* the observation tables the analyzer has read
    filed           \* what an earlier report was made of, None before one is filed

analysisVars == <<now, cycle, obs, paper, view, filed>>

Id(s) == <<s.decision, s.asset>>

(***************************************************************************)
(* Reading: one cutoff for all the evidence                                 *)
(***************************************************************************)
CompleteStatuses == {"EXECUTED", "DRY_RUN"}

LoadDecisions(p) == {d \in p.decisions : d.status \in CompleteStatuses}

\* The newest complete decision that both databases hold, by created_at.
SelectCutoff(o, p) ==
    LET common == {d \in LoadDecisions(p) : \E s \in o.snapshots : s.decision = d.id}
        latest == CHOOSE d \in common : \A other \in common :
                    \/ other.created < d.created
                    \/ other.created = d.created /\ HashRank[other.id] <= HashRank[d.id]
    IN IF common = {} THEN None
       ELSE [id |-> latest.id, completed |-> latest.created,
             time |-> Max({s.time : s \in {s \in o.snapshots : s.decision = latest.id}})]

\* A snapshot is a candidate when it was scored or selected.
LoadSnapshots(o, cutoff) ==
    {s \in o.snapshots : s.time <= cutoff.time /\ (s.score # None \/ s.selected)}

Ids(S) == {Id(s) : s \in S}

\* Mutant: every outcome that is there is read.
LoadAnyOutcomes(o, cutoff) ==
    {r \in o.outcomes : r.snapshot \in Ids(LoadSnapshots(o, cutoff))}

LoadOutcomes(o, cutoff) ==
    {r \in o.outcomes : r.snapshot \in Ids(LoadSnapshots(o, cutoff))
                        /\ r.at <= cutoff.completed}

LoadSelectionVariants(o, cutoff) ==
    {v \in o.variants : v.snapshot \in Ids(LoadSnapshots(o, cutoff))}

LoadMarketContexts(o, cutoff) == {c \in o.contexts : c.time <= cutoff.time}

FilterPaperDecisions(p, cutoff) ==
    {d \in LoadDecisions(p) : d.asOf <= cutoff.time /\ d.created <= cutoff.completed}

LoadExecutions(p, cutoff) == {x \in p.executions : x.at <= cutoff.completed}

\* Everything a report is built from.
Evidence(o, p) ==
    LET cutoff == SelectCutoff(o, p)
    IN IF cutoff = None
       THEN [cutoff |-> None, snapshots |-> {}, outcomes |-> {}, variants |-> {},
             contexts |-> {}, decisions |-> {}, executions |-> {}]
       ELSE [cutoff |-> cutoff, snapshots |-> LoadSnapshots(o, cutoff),
             outcomes |-> LoadOutcomes(o, cutoff),
             variants |-> LoadSelectionVariants(o, cutoff),
             contexts |-> LoadMarketContexts(o, cutoff),
             decisions |-> FilterPaperDecisions(p, cutoff),
             executions |-> LoadExecutions(p, cutoff)]

(***************************************************************************)
(* Cohorts and their returns                                                *)
(***************************************************************************)
\* A snapshot takes part once its horizon and the grace lie before the cutoff.
MatureSnapshots(e, h) ==
    {s \in e.snapshots : s.time + Minutes[h] + Grace <= e.cutoff.completed}

Settled(e, s, h) == {r \in e.outcomes : r.snapshot = Id(s) /\ r.horizon = h
                                        /\ r.status = "COMPLETED" /\ r.ret # None}

\* The completed ones of S, and what they returned.
Completed(e, S, h) == {s \in S : Settled(e, s, h) # {}}

OutcomeOf(e, s, h) == CHOOSE r \in Settled(e, s, h) : TRUE

ForwardReturns(e, S, h) ==
    [s \in Completed(e, S, h) |-> Whole(OutcomeOf(e, s, h).ret)]

DecisionsOf(S) == {s.decision : s \in S}

\* Each decision counts once: the mean of its own completed snapshots.
CohortMeans(e, S, h) ==
    [d \in DecisionsOf(Completed(e, S, h)) |->
        MeanOrNone(ForwardReturns(e, {s \in S : s.decision = d}, h))]

\* The decisions on both sides, and by how much the left one is ahead.
Spreads(left, right) ==
    [d \in DOMAIN left \cap DOMAIN right |-> Minus(left[d], right[d])]

Among(values, Test(_)) == {k \in DOMAIN values : Test(values[k])}
Negative(q) == q[1] < 0
Positive(q) == q[1] > 0
Nonnegative(q) == q[1] >= 0
Share(values, Test(_)) ==
    Rate(Cardinality(Among(values, Test)), Cardinality(DOMAIN values))

TimeOf(e, d) == (CHOOSE s \in e.snapshots : s.decision = d).time

\* The values of decisions in the order of their times.
ByTime(e, values) ==
    LET keys == SetToSortSeq(DOMAIN values, LAMBDA a, b :
                    \/ TimeOf(e, a) < TimeOf(e, b)
                    \/ TimeOf(e, a) = TimeOf(e, b) /\ HashRank[a] < HashRank[b])
    IN [i \in DOMAIN keys |-> values[keys[i]]]

ByHash(values) ==
    LET keys == SetToSortSeq(DOMAIN values, LAMBDA a, b : HashRank[a] < HashRank[b])
    IN [i \in DOMAIN keys |-> values[keys[i]]]

(***************************************************************************)
(* One horizon                                                              *)
(***************************************************************************)
Scored(S) == {s \in S : s.score # None}
Chosen(S) == {s \in S : s.selected}
Passed(S) == {s \in S : ~s.selected}

HorizonQuality(e, h) ==
    LET mature == MatureSnapshots(e, h)
        Missing(S) == MissingRate(Cardinality(S), Cardinality(Completed(e, S, h)))
    IN [cohorts |-> Cardinality(DecisionsOf(Scored(mature))),
        scoredMissing |-> Missing(Scored(mature)),
        selectedMissing |-> Missing(Chosen(mature))]

\* What the recorded paths of completed outcomes reached, at best or at worst.
Excursion(e, S, h, part) ==
    LET known == {s \in Completed(e, S, h) : OutcomeOf(e, s, h)[part] # None}
        values == [s \in known |-> Whole(OutcomeOf(e, s, h)[part])]
    IN [rate |-> Rate(Cardinality(known), Cardinality(Completed(e, S, h))),
        mean |-> MeanOrNone(values), median |-> MedianOrNone(values)]

Excursions(e, S, h) ==
    <<Excursion(e, S, h, "mfe"), Excursion(e, S, h, "mae")>>

\* How often values are losses, and how large those are.
Losses(values) ==
    [rate |-> Share(values, Negative),
     mean |-> MeanOrNone(Restrict(values, Among(values, Negative)))]

\* Whether a loss is the market's or the selection's.
SelectionLossValidation(e, scored, h) ==
    LET chosen == CohortMeans(e, Chosen(scored), h)
        passed == CohortMeans(e, Passed(scored), h)
        paired == Spreads(chosen, passed)
    IN [observations |-> <<Losses(ForwardReturns(e, Chosen(scored), h)),
                           Losses(ForwardReturns(e, Passed(scored), h))>>,
        cohorts |-> <<Share(chosen, Negative), Share(passed, Negative)>>,
        underperformed |-> Share(paired, Negative),
        both |-> Rate(Cardinality(Among(paired, Negative) \cap Among(chosen, Negative)),
                      Cardinality(DOMAIN paired)),
        excursions |-> Excursions(e, Chosen(scored), h)]

OutcomeGroupSummary(e, S, h) ==
    LET values == ForwardReturns(e, S, h)
    IN [missing |-> MissingRate(Cardinality(S), Cardinality(DOMAIN values)),
        mean |-> MeanOrNone(values), losses |-> Losses(values)]

Guard == "NEW_ENTRY_BLOCKED_BY_4H_FALLING_KNIFE_GUARD"

FourHourGuardCounterfactual(e, scored) ==
    LET guarded == {s \in scored : Guard \in s.reasons}
    IN [recorded |-> \E s \in scored : s.reasons # {},
        selected |-> OutcomeGroupSummary(e, Chosen(scored), "240"),
        guarded |-> OutcomeGroupSummary(e, guarded, "240"),
        only |-> OutcomeGroupSummary(e, {s \in guarded : s.reasons = {Guard}}, "240")]

\* The rank correlation of score and return inside each decision of three or more.
ScoreIcs(e, scored, h) ==
    LET of(d) == {s \in Completed(e, scored, h) : s.decision = d}
        ic == [d \in {d \in DecisionsOf(scored) : Cardinality(of(d)) >= 3} |->
                  Spearman([s \in of(d) |-> Whole(s.score)], ForwardReturns(e, of(d), h))]
    IN Restrict(ic, {d \in DOMAIN ic : ic[d] # None})

HorizonSignal(e, h) ==
    LET scored == Scored(MatureSnapshots(e, h))
        chosen == CohortMeans(e, Chosen(scored), h)
        passed == CohortMeans(e, Passed(scored), h)
    IN [selectedMean |-> MeanOrNone(chosen), passedMean |-> MeanOrNone(passed),
        pooled |-> <<MeanOrNone(ForwardReturns(e, Chosen(scored), h)),
                     MeanOrNone(ForwardReturns(e, Passed(scored), h))>>,
        pairedSpread |-> MeanOrNone(Spreads(chosen, passed)),
        scoreIc |-> MeanOrNone(ScoreIcs(e, scored, h)),
        losses |-> SelectionLossValidation(e, scored, h),
        guard |-> IF h = "240" THEN FourHourGuardCounterfactual(e, scored) ELSE None]

\* The selection was ahead in both halves of the time.
TemporalStability(e, h) ==
    LET scored == Scored(MatureSnapshots(e, h))
        paired == Spreads(CohortMeans(e, Chosen(scored), h), CohortMeans(e, Passed(scored), h))
        worse == WorseHalf(ChronologicalHalves(ByTime(e, paired)))
    IN IF worse = None THEN None ELSE Positive(worse)

(***************************************************************************)
(* Economic value, and the selections of other rules on the same input      *)
(***************************************************************************)
Cost == Thresholds.economic_round_trip_cost
NetOf(mean) == IF mean = None THEN None ELSE Minus(mean, Cost)
AboveCost(q) == Below(Cost, q)

\* Each completed scored snapshot falls in a tenth of its own decision's ranking.
Decile(e, S, s, h) ==
    LET rank == Cardinality({t \in Scored(Completed(e, S, h)) : t.decision = s.decision
                               /\ (t.score < s.score \/ (t.score = s.score /\ t.asset < s.asset))})
        size == Cardinality({t \in Scored(Completed(e, S, h)) : t.decision = s.decision})
    IN Min({10, (rank * 10) \div size + 1})

EconomicAlphaBaseline(e, h) ==
    LET mature == MatureSnapshots(e, h)
        chosen == CohortMeans(e, Chosen(mature), h)
        passed == CohortMeans(e, Passed(mature), h)
        tenth(n) == {s \in Scored(Completed(e, mature, h)) : Decile(e, mature, s, h) = n}
    IN [gross |-> MeanOrNone(chosen), median |-> MedianOrNone(chosen),
        low |-> FifthPercentile(chosen), net |-> NetOf(MeanOrNone(chosen)),
        positive |-> <<Share(chosen, Positive), Share(chosen, AboveCost)>>,
        passed |-> MeanOrNone(passed), paired |-> MeanOrNone(Spreads(chosen, passed)),
        excursions |-> Excursions(e, Chosen(mature), h),
        deciles |-> [n \in 1 .. 10 |-> MeanOrNone(ForwardReturns(e, tenth(n), h))]]

Arms == <<"v2.7a-momentum-only", "v2.7b-raw-derivatives", "v2.7c-crowding-only",
          "v2.7d-production-gates">>

RecordedBy(e, variant) == {v.snapshot : v \in {v \in e.variants : v.variant = variant}}
SelectedBy(e, variant) ==
    {v.snapshot : v \in {v \in e.variants : v.variant = variant /\ v.selected}}

\* What an arm gained in each opportunity (a decision in which the first arm selects):
\* nothing where it abstains; an opportunity it took without an outcome is left out.
Utilities(e, arm, h) ==
    LET mature == MatureSnapshots(e, h)
        opportunities == DecisionsOf({s \in mature : Id(s) \in SelectedBy(e, Arms[1])})
        took == {s \in mature : Id(s) \in SelectedBy(e, arm)}
        gross == CohortMeans(e, took, h)
    IN [d \in {d \in opportunities : d \notin DecisionsOf(took) \/ d \in DOMAIN gross} |->
            IF d \in DOMAIN gross THEN Minus(gross[d], Cost) ELSE Whole(0)]

IncrementalAlphaArm(e, arm, h) ==
    LET utility == Utilities(e, arm, h)
        halves == ChronologicalHalves(ByHash(utility))
        took == {s \in MatureSnapshots(e, h) : Id(s) \in SelectedBy(e, arm)}
        accepted == Restrict(CohortMeans(e, took, h),
                             DOMAIN utility \cap DOMAIN CohortMeans(e, took, h))
    IN [accepted |-> <<MeanOrNone(accepted), MedianOrNone(accepted), FifthPercentile(accepted),
                       Share(accepted, AboveCost)>>,
        utility |-> <<MeanOrNone(utility), MedianOrNone(utility), FifthPercentile(utility)>>,
        halves |-> <<MeanOrNone(halves[1]), MeanOrNone(halves[2])>>]

\* What each arm adds to the one before it.
IncrementalComparison(e, k, h) ==
    LET added == Spreads(Utilities(e, Arms[k + 1], h), Utilities(e, Arms[k], h))
    IN <<MeanOrNone(added), Share(added, Positive)>>

IncrementalAlphaVariants(e) ==
    [availability |->
        IF e.variants = {} THEN "NOT_RECORDED"
        ELSE IF e.snapshots # {}
                /\ \A k \in 1 .. 4 : RecordedBy(e, Arms[k]) = Ids(e.snapshots)
        THEN "AVAILABLE" ELSE "PARTIAL",
     horizons |-> [h \in DOMAIN Minutes |->
        <<[k \in 1 .. 4 |-> IncrementalAlphaArm(e, Arms[k], h)],
          [k \in 1 .. 3 |-> IncrementalComparison(e, k, h)]>>]]

\* What was selected where the crowding gates of state and of policy disagreed.
CrowdingGateDisagreement(e, h) ==
    LET disagreed == {c.decision : c \in {c \in e.contexts : c.disagreement}}
        mature == {s \in MatureSnapshots(e, h) : s.decision \in disagreed}
        values == CohortMeans(e, Chosen(mature), h)
    IN [cohorts |-> Cardinality(DecisionsOf(mature)), gross |-> MeanOrNone(values),
        low |-> FifthPercentile(values), net |-> NetOf(MeanOrNone(values)),
        positive |-> Share(values, AboveCost)]

(***************************************************************************)
(* The control: the selection the earlier rule makes of the same input      *)
(***************************************************************************)
ControlVariant ==
    IF Thresholds.selection_control_variant_id = None THEN "v2.4-rule-control"
    ELSE Thresholds.selection_control_variant_id

SelectionControlOutcomeSummary(e, S) ==
    LET means == CohortMeans(e, S, "240") pooled == ForwardReturns(e, S, "240")
    IN [missing |-> MissingRate(Cardinality(S), Cardinality(DOMAIN pooled)),
        missingCohorts |-> Cardinality(DecisionsOf(S)) - Cardinality(DOMAIN means),
        mean |-> MeanOrNone(means), pooled |-> MeanOrNone(pooled),
        losses |-> <<Losses(means), Losses(pooled)>>]

SameInputRuleControl(e) ==
    LET mature == MatureSnapshots(e, "240")
        rows == RecordedBy(e, ControlVariant) \cap Ids(mature)
        of(d) == {s \in mature : s.decision = d}
        complete == {d \in DecisionsOf(mature) : Ids(of(d)) \subseteq rows}
        comparable == {s \in mature : s.decision \in complete}
        actual == Chosen(comparable)
        control == {s \in comparable : Id(s) \in SelectedBy(e, ControlVariant)}
        changed == {d \in complete : actual \cap of(d) # control \cap of(d)}
        paired == Spreads(CohortMeans(e, actual, "240"), CohortMeans(e, control, "240"))
        halves == ChronologicalHalves(ByTime(e, paired))
        coverage == Rate(Cardinality(rows), Cardinality(mature))
    IN [availability |->
            IF RecordedBy(e, ControlVariant) = {} THEN "NOT_RECORDED"
            ELSE IF mature = {} THEN "PENDING_OUTCOMES"
            ELSE IF rows # Ids(mature) THEN "INCOMPLETE_CONTROL"
            ELSE IF paired = <<>> THEN "PENDING_OUTCOMES" ELSE "AVAILABLE",
        coverage |-> coverage,
        complete |-> Cardinality(complete),
        jaccard |-> Rate(Cardinality(actual \cap control), Cardinality(actual \cup control)),
        changed |-> Cardinality(changed),
        actual |-> SelectionControlOutcomeSummary(e, actual),
        control |-> SelectionControlOutcomeSummary(e, control),
        paired |-> Cardinality(DOMAIN paired),
        spread |-> MeanOrNone(paired),
        nonnegative |-> Share(paired, Nonnegative),
        bothHalves |-> IF WorseHalf(halves) = None THEN None
                       ELSE Nonnegative(WorseHalf(halves))]

(***************************************************************************)
(* The market context and the paper account                                 *)
(***************************************************************************)
BasisSources == {"OFFICIAL", "MARK_INDEX_PROXY"}
BasisComplete(c) == c.source \in BasisSources /\ c.rate

\* A raw basis may be missing where the input of the signal is complete.
BasisCoverage(cohorts, S) ==
    LET of(Test(_)) == Cardinality({c \in S : Test(c)})
    IN [official |-> Rate(of(LAMBDA c : c.official), Cardinality(S)),
        proxy |-> Rate(of(LAMBDA c : c.proxy), Cardinality(S)),
        rateMissing |-> of(LAMBDA c : ~c.rate),
        sources |-> [k \in BasisSources |->
                        Rate(of(LAMBDA c : c.source = k /\ c.rate), cohorts)],
        coverage |-> Rate(of(BasisComplete), cohorts)]

DerivativesContextQuality(e) ==
    LET cohorts == DecisionsOf(e.snapshots)
        matched == {c \in e.contexts : c.decision \in cohorts}
        available == {c \in matched : c.availability = "AVAILABLE"}
        required == Thresholds.required_derivatives_basis_input_source
        share(S) == Rate(Cardinality(S), Cardinality(cohorts))
    IN [coverage |-> share(matched), available |-> share(available),
        version |-> share({c \in matched :
                             c.version = Thresholds.required_derivatives_feature_version}),
        source |-> IF required = None THEN None
                   ELSE Rate(Cardinality({c \in available : c.source = required /\ c.rate}),
                             Cardinality(available)),
        basis |-> BasisCoverage(Cardinality(cohorts), matched)]

PaperMetrics(e) ==
    LET order == SetToSortSeq(e.decisions, LAMBDA a, b : a.created < b.created)
        equity == <<StartingEquity>> \o [i \in DOMAIN order |-> order[i].equity]
        sells == {x \in e.executions : x.side = "SELL"}
        gained(S) == MapThenSumSet(LAMBDA x : x.pnl, S)
        profit == gained({x \in sells : x.pnl > 0})
        loss == -gained({x \in sells : x.pnl < 0})
    IN [netReturn |-> IF order = <<>> THEN None
                      ELSE <<Last(equity) - StartingEquity, StartingEquity>>,
        fees |-> MapThenSumSet(LAMBDA x : x.fee, e.executions),
        turnover |-> MapThenSumSet(LAMBDA x : x.quantity * x.price, e.executions),
        winRate |-> Rate(Cardinality({x \in sells : x.pnl > 0}), Cardinality(sells)),
        profitFactor |-> Rate(profit, loss),
        unbounded |-> profit > 0 /\ loss = 0,
        drawdown |-> IF order = <<>> THEN None ELSE MaximumDrawdown(equity)]

(***************************************************************************)
(* Gates and decision                                                       *)
(***************************************************************************)
\* The experiment starts at tick zero.
ExpectedCycles(e) == IF e.cutoff = None THEN 0 ELSE Max({1, e.cutoff.completed \div Interval})

DecisionCoverage(e) ==
    LET actual == Cardinality({s.time : s \in e.snapshots}) expected == ExpectedCycles(e)
    IN Rate(Min({actual, expected}), expected)

CalendarDays(e) == Cardinality({DayOf[s.time] : s \in e.snapshots})

\* The share of the selecting decisions that contain the most selected asset.
SelectionConcentration(e) ==
    LET chosen == Chosen(e.snapshots)
        count(a) == Cardinality({s.decision : s \in {s \in chosen : s.asset = a}})
    IN IF chosen = {} THEN None
       ELSE Rate(Max({count(s.asset) : s \in chosen}), Cardinality(DecisionsOf(chosen)))

AtLeast(actual, threshold) == NumericGate(actual, ">=", threshold)
Over(actual, threshold) == NumericGate(actual, ">", threshold)
AtMost(actual, threshold) == NumericGate(actual, "<=", threshold)

ReviewedStages == {"PAPER", "SHADOW_TO_PAPER"}

\* Everything that is measured on the evidence.
Measures(e) ==
    [days |-> CalendarDays(e), coverage |-> DecisionCoverage(e),
     concentration |-> SelectionConcentration(e),
     quality |-> [h \in DOMAIN Minutes |-> HorizonQuality(e, h)],
     signal |-> [h \in DOMAIN Minutes |-> HorizonSignal(e, h)],
     stability |-> [h \in DOMAIN Minutes |-> TemporalStability(e, h)],
     economic |-> [h \in DOMAIN Minutes |-> EconomicAlphaBaseline(e, h)],
     incremental |-> IncrementalAlphaVariants(e),
     disagreement |-> [h \in DOMAIN Minutes |-> CrowdingGateDisagreement(e, h)],
     control |-> SameInputRuleControl(e),
     derivatives |-> DerivativesContextQuality(e),
     account |-> PaperMetrics(e)]

ReadinessGates(m) ==
    <<AtLeast(Whole(m.days), Thresholds.minimum_calendar_days),
      AtLeast(Whole(m.quality["60"].cohorts), Thresholds.minimum_mature_1h_cohorts),
      AtLeast(Whole(m.quality["240"].cohorts), Thresholds.minimum_mature_4h_cohorts)>>

HorizonGates(quality, signal, stable) ==
    <<AtMost(quality.scoredMissing, Thresholds.maximum_outcome_missing_rate),
      AtMost(quality.selectedMissing, Thresholds.maximum_outcome_missing_rate),
      Over(signal.selectedMean, Thresholds.minimum_selected_gross_return),
      Over(signal.pairedSpread, Thresholds.minimum_selected_spread),
      Over(signal.scoreIc, Thresholds.minimum_score_ic),
      TruthGate(stable)>>

PaperGates(account) ==
    <<Over(account.netReturn, Thresholds.minimum_paper_net_return),
      IF account.unbounded THEN "passed"
      ELSE AtLeast(account.profitFactor, Thresholds.minimum_profit_factor),
      AtMost(account.drawdown, Thresholds.maximum_drawdown)>>

DerivativesGates(quality) ==
    <<AtLeast(quality.coverage, Thresholds.minimum_derivatives_context_coverage),
      AtLeast(quality.available, Thresholds.minimum_derivatives_available_rate),
      AtLeast(quality.version, Whole(1))>>
    \o IF Thresholds.required_derivatives_basis_input_source = None THEN <<>>
       ELSE <<AtLeast(quality.source,
                      Thresholds.minimum_derivatives_basis_input_source_match_rate)>>

\* Only for a version that registered a control.
SelectionControlGates(control) ==
    LET actualCoverage == OutcomeCompletion(control.actual.missing)
        controlCoverage == OutcomeCompletion(control.control.missing)
    IN IF Thresholds.selection_control_variant_id = None THEN <<>>
       ELSE <<CASE control.availability = "AVAILABLE" -> "passed"
                [] control.availability = "PENDING_OUTCOMES" -> "pending"
                [] OTHER -> "failed",
              AtLeast(control.coverage, Thresholds.minimum_selection_control_variant_coverage),
              AtLeast(Whole(control.paired),
                      Thresholds.minimum_selection_control_paired_4h_cohorts),
              AtLeast(Whole(control.changed),
                      Thresholds.minimum_selection_control_changed_cohorts),
              AtLeast(actualCoverage, Thresholds.minimum_selection_control_outcome_coverage),
              AtLeast(controlCoverage, Thresholds.minimum_selection_control_outcome_coverage),
              AtMost(AbsoluteDifference(actualCoverage, controlCoverage),
                     Thresholds.maximum_selection_control_outcome_coverage_gap),
              AtLeast(control.spread, Thresholds.minimum_selection_control_actual_minus_control),
              TruthGate(control.bothHalves)>>

\* The gates that are required; a shadow has no account of its own to judge.
RequiredGates(m, stage) ==
    ReadinessGates(m)
    \o <<AtLeast(m.coverage, Thresholds.minimum_decision_coverage)>>
    \o HorizonGates(m.quality["60"], m.signal["60"], m.stability["60"])
    \o HorizonGates(m.quality["240"], m.signal["240"], m.stability["240"])
    \o (IF stage = "PAPER" THEN PaperGates(m.account)
        ELSE DerivativesGates(m.derivatives) \o SelectionControlGates(m.control))
    \o <<AtMost(m.concentration, Thresholds.maximum_selection_concentration)>>

\* The first three gates say whether there is enough to judge.
ReviewDecision(gates, stage) ==
    IF \E i \in 1 .. 3 : gates[i] # "passed" THEN "COLLECTING"
    ELSE IF Range(gates) = {"passed"}
    THEN IF stage = "SHADOW_TO_PAPER" THEN "SHADOW_READY_FOR_PAPER" ELSE "PROMOTION_READY"
    ELSE "REJECTED"

Judged(m) ==
    [measures |-> m, gates |-> [stage \in ReviewedStages |-> RequiredGates(m, stage)],
     decision |-> [stage \in ReviewedStages |-> ReviewDecision(RequiredGates(m, stage), stage)]]

BuildReport(e) == Judged(Measures(e))

(***************************************************************************)
(* The writers and the reader                                               *)
(***************************************************************************)
Empty == [snapshots |-> {}, outcomes |-> {}, variants |-> {}, contexts |-> {}]

AnalysisInit ==
    /\ now = 0
    /\ cycle = [id |-> 1, at |-> "idle", asOf |-> 0]
    /\ obs = Empty
    /\ paper = [decisions |-> {}, executions |-> {}]
    /\ view = Empty
    /\ filed = None

Advance == now < MaxTime /\ now' = now + 1

\* What a row holds, with the columns its writer fills in.
Stamped(stamp, row) ==
    [k \in DOMAIN stamp \cup DOMAIN row |-> IF k \in DOMAIN stamp THEN stamp[k] ELSE row[k]]

\* A cycle fixes the time of its decision and trades.
Execute(trade) ==
    /\ cycle.at = "idle" /\ cycle.id \in Decisions
    /\ Advance
    /\ cycle' = [cycle EXCEPT !.at = "executed", !.asOf = now]
    /\ paper' = [paper EXCEPT !.executions = @ \cup {Stamped([at |-> now + 1], x) : x \in trade}]
    /\ UNCHANGED <<obs, view, filed>>

SaveDecision(equity) ==
    /\ cycle.at = "executed"
    /\ Advance
    /\ cycle' = [cycle EXCEPT !.at = "decided"]
    /\ paper' = [paper EXCEPT !.decisions = @ \cup
                    {[id |-> cycle.id, asOf |-> cycle.asOf, equity |-> equity,
                      status |-> IF \E x \in paper.executions : x.at > cycle.asOf
                                 THEN "EXECUTED" ELSE "DRY_RUN",
                      created |-> now + 1]}]
    /\ UNCHANGED <<obs, view, filed>>

\* Snapshots, variants and context are one transaction.
SaveBundle(cohort, context) ==
    /\ cycle.at = "decided"
    /\ Advance
    /\ cycle' = [cycle EXCEPT !.at = "idle", !.id = @ + 1]
    /\ LET stamp == [decision |-> cycle.id, time |-> cycle.asOf]
       IN obs' = [obs EXCEPT
            !.snapshots = @ \cup {Stamped(stamp, s) : s \in cohort.rows},
            !.variants = @ \cup {[snapshot |-> <<cycle.id, v.asset>>, variant |-> v.variant,
                                  selected |-> v.selected] : v \in cohort.variants},
            !.contexts = @ \cup {Stamped(stamp, context)}]
    /\ UNCHANGED <<paper, view, filed>>

\* The process dies: a cycle that had not saved its snapshots never will.
Crash ==
    /\ cycle.at # "idle"
    /\ cycle' = [cycle EXCEPT !.at = "idle", !.id = @ + 1]
    /\ UNCHANGED <<now, obs, paper, view, filed>>

\* A batch that began at e settles what a decision left open at a horizon.
Settle(d, h, e, settlement) ==
    LET open == {s \in obs.snapshots : s.decision = d /\ \A r \in obs.outcomes :
                    ~(r.snapshot = Id(s) /\ r.horizon = h)}
    IN /\ open # {}
       /\ \A s \in open : s.time + Minutes[h] <= e
       /\ Advance
       /\ obs' = [obs EXCEPT !.outcomes = @ \cup
                    {Stamped([snapshot |-> Id(s), horizon |-> h, at |-> e], settlement[s.asset]) :
                        s \in open}]
       /\ UNCHANGED <<cycle, paper, view, filed>>

\* An analysis begins: it reads the observation database.
ReadObservation ==
    /\ view # obs
    /\ view' = obs
    /\ UNCHANGED <<now, cycle, obs, paper, filed>>

\* It reads the paper database, and its report is filed.
FileReport ==
    /\ filed = None /\ SelectCutoff(view, paper) # None
    /\ filed' = Evidence(view, paper)
    /\ UNCHANGED <<now, cycle, obs, paper, view>>

AnalysisNext ==
    \/ \E trade \in Trades : Execute(trade)
    \/ \E equity \in Equities : SaveDecision(equity)
    \/ \E cohort \in Cohorts, context \in Contexts : SaveBundle(cohort, context)
    \/ Crash
    \/ \E d \in Decisions, h \in DOMAIN Minutes, e \in {now - 1, now} \cap Nat,
         settlement \in Settlements : Settle(d, h, e, settlement)
    \/ ReadObservation
    \/ FileReport

AnalysisSpec == AnalysisInit /\ [][AnalysisNext]_analysisVars

\* Two reports of one cutoff are the same report: no trade, decision, bundle or
\* outcome that the scheduler writes in either database, before, between or after
\* the two reads of an analysis, reaches a single statistic, gate or decision
\* (analyze's "a concurrent scheduler cycle cannot produce a mixed report").  The
\* one exception the code leaves open is an outcome whose batch straddles the cutoff.
ReportIsFixed ==
    filed # None =>
        LET e == Evidence(view, paper)
        IN e.cutoff = filed.cutoff =>
              \/ \E r \in e.outcomes \ filed.outcomes : r.at <= e.cutoff.completed
              \/ Cardinality({BuildReport(x) : x \in {e, filed}}) = 1

=============================================================================
