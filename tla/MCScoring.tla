----------------------------- MODULE MCScoring -----------------------------
(* Model checking of Scoring.  One measurement, in units in which rows are   *)
(* one step apart: 1 is normal, 5 is anomalous, a step of 4 in one unit is   *)
(* faster than the rate limit, and three equal values are stuck.             *)
EXTENDS Scoring

T(v) == [m \in Metric |-> v]
MCValue == {T(NoValue), T(1), T(5)}
MCOdd == {T(5)}
MCLow == T(0)
MCHigh == T(9)
MCStuck == T(0)
MCNoise == T(9)
MCRate == T(2)
=============================================================================
