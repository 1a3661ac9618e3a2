---------------------------- MODULE MCIngestion ----------------------------
EXTENDS Ingestion, TLC

\* r2 and r3 share a sequence number; h1 names another site; r4 has no
\* value; r5 lies between the warning threshold and its hysteresis.
CONSTANTS r1, r2, r3, r4, r5, h1

Thresholds(w, c) == [warning |-> w, critical |-> c, hysteresis |-> 10]

MCReading == {r1, r2, r3, r4, r5}
MCHealth == {h1}
MCSequence == r1 :> 1 @@ r2 :> 2 @@ r3 :> 2 @@ r4 :> 3 @@ r5 :> 4
MCValue == r1 :> 85 @@ r2 :> 40 @@ r3 :> 55 @@ r4 :> Absent @@ r5 :> 47
MCSite == [m \in MCReading |-> "north"] @@ h1 :> "south"
MCDefault == Thresholds(50, 80)
MCRequest == {Thresholds(60, 80)}
MCRequests == {Thresholds(70, 80), Thresholds(50, 60)}

Symmetry == Permutations(Writer)
=============================================================================
