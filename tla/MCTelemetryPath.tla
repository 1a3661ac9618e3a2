-------------------------- MODULE MCTelemetryPath --------------------------
(* Model checking of TelemetryPath; the configuration gives the bounds.     *)
EXTENDS TelemetryPath
=============================================================================
