--------------------------- MODULE MCGatewayAgent ---------------------------
(* Model checking of GatewayAgent: two ON commands, one of which may come    *)
(* too late, an OFF command and one whose parameters are not valid.          *)
EXTENDS GatewayAgent, TLC

CONSTANTS on1, on2, off1, bad1

MCCommand == {on1, on2, off1, bad1}
MCClass == on1 :> "on" @@ on2 :> "on" @@ off1 :> "off" @@ bad1 :> "malformed"
MCExpires == on1 :> 9 @@ on2 :> 2 @@ off1 :> 9 @@ bad1 :> 2
=============================================================================
