----------------------------- MODULE MCRiskGate -----------------------------
(* RiskGate on a small instance. *)
EXTENDS RiskGate, TLC

CONSTANTS btc, eth, smc, quick

TwoPairs  == {btc, eth}
OnePair   == {btc}
OneKey    == {smc}
NoKey     == {}
TwoKeys   == {smc, quick}
OneQuick  == {quick}
TwoHeats  == {1, 2}
UnitHeat  == {1}
Results   == {-1, 1}
Symmetric == Permutations(TwoPairs)
=============================================================================
