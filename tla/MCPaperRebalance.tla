-------------------------- MODULE MCPaperRebalance --------------------------
(* Instances of PaperRebalance for TLC. *)
EXTENDS PaperRebalance

CONSTANTS main, btc, eth, r1, r2, r3, r4, paperKrw

MCIntentIds == (0 .. MaxClock) \X Assets \X Sides

MCAmounts == 1 .. 20000

MCTimes == 0 .. MaxClock

MCSymmetry == Permutations(Runs)
=============================================================================
