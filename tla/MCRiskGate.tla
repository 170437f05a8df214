---------------------------- MODULE MCRiskGate -----------------------------
(* Instances of RiskGate: one symbol, gains and losses of one unit. *)
EXTENDS RiskGate
OneSymbol   == {"s1"}
OneUpOrDown == {-1, 1}
=============================================================================
