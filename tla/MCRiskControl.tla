------------------------------- MODULE MCRiskControl -------------------------------
(* TLC instance of RiskControl: equities around the limits of 3% and 2%. *)
EXTENDS RiskControl, TLC

Equities == {99, 100, 102}
Workers == {"worker"}
Operators == {"reset", "activate"}
====================================================================================
