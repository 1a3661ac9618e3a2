---------------------------- MODULE MCLiveEvents ----------------------------
(* Model checking of LiveEvents; the configuration gives the bounds.         *)
EXTENDS LiveEvents
=============================================================================
