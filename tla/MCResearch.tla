----------------------------- MODULE MCResearch -----------------------------
(* Instances of Stores for TLC. *)
EXTENDS Stores, TLC

CONSTANTS c1, c2, r1, r2, m1, m2

MCMethodOf == r1 :> "HOLDOUT" @@ r2 :> "WALK_FORWARD"
MCGapOf == r1 :> 0 @@ r2 :> 0
MCMetrics == {[sharpe |-> None, drawdown |-> -2, feeAdjusted |-> 1],
              [sharpe |-> 1, drawdown |-> -1, feeAdjusted |-> 1],
              [sharpe |-> 2, drawdown |-> -1, feeAdjusted |-> 0]}

MCComparisons == {[validation |-> 1, test |-> 1], [validation |-> 1, test |-> 0]}

Fill(id, a, side, q, price) ==
    [intent |-> [id |-> id, portfolio |-> "main", identity |-> "krw", asset |-> a, side |-> side,
                 quantity |-> q],
     report |-> [side |-> side, quantity |-> q, price |-> price, fee |-> 1]]
MCIntentIds == 1 .. 4
MCQuantities == 1 .. 3
MCPrices == 1 .. 4
MCOrders == {Fill(1, "x", "BUY", 2, 3), Fill(2, "x", "SELL", 2, 4),
             Fill(3, "y", "BUY", 1, 4), Fill(4, "x", "BUY", 1, 2)}

MCDatabases == <<"paper", "observation">>
MCTablesOf ==
    ("paper" :> <<"portfolio", "execution">>) @@ ("observation" :> <<"decision">>)

MCByVolume == <<"a", "b">>
\* Nothing has been traded of b yet.
MCTraded == ("a" :> {0, 1}) @@ ("b" :> {})

Symmetry == Permutations(Callers) \cup Permutations(Models)
=============================================================================
