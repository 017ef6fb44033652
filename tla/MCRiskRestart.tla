--------------------------- MODULE MCRiskRestart ---------------------------
(* RiskRestart on a small instance. *)
EXTENDS RiskRestart, TLC

CONSTANTS btc, eth

OnePair  == {btc}
TwoPairs == {btc, eth}
Long     == {"long"}
Results  == {-2, 1}
Whole    == {Len(SaveOrder)}
Nothing  == {0}
NoFaults == {}
\* A write to the database and the adoption of positions may fail; the database
\* answers at startup, and a handler's two clock readings fall in one second.
DeployedFaults == {"dbWrite", "sync"}
Symmetric == Permutations({btc, eth})
=============================================================================
