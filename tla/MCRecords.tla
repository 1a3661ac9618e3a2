----------------------------- MODULE MCRecords -----------------------------
(* Model checking of Records; the configuration gives the bounds.           *)
EXTENDS Records, TLC

\* Requests, sensors, coefficients and states of work are alike.
RecordSymmetry ==
    Permutations(Thread) \cup Permutations(Sensor) \cup Permutations(Coefficients)
        \cup Permutations(Status)
=============================================================================
