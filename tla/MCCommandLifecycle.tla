------------------------- MODULE MCCommandLifecycle -------------------------
(* Model checking of CommandLifecycle.  The commands are interchangeable.   *)
EXTENDS CommandLifecycle, TLC

MCSymmetry == Permutations(Command)
=============================================================================
