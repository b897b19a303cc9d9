-------------------------- MODULE MCStrategyReview --------------------------
(* An instance of StrategyReview for TLC. *)
EXTENDS StrategyReview, TLC

CONSTANTS c1, c2, tight, loose, q1, q2, w1, w2, m1

Gates(readiness, quality, paper) ==
    [g \in Groups |-> CASE g = "readiness" -> readiness
                        [] g = "quality" -> quality
                        [] g = "paper" -> paper]

\* Evidence that passes at every stage, and evidence that is rejected.
MCGateResults == {Gates("passed", "passed", "passed"), Gates("passed", "failed", "pending")}

MCReviews == {<<ParentExp, "PAPER">>, <<ShadowExp, "SHADOW_TO_PAPER">>}

MCMaxCutoff == [e \in Experiments |-> IF e = ShadowExp THEN 1 ELSE 0]

MCSymmetry ==
    Permutations(Callers) \cup Permutations(ProposalIds) \cup Permutations(Patches)
=============================================================================
