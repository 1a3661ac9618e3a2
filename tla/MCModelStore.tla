---------------------------- MODULE MCModelStore ----------------------------
(* Model checking of ModelStore; the configuration gives the bounds.         *)
EXTENDS ModelStore
=============================================================================
