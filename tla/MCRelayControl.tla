--------------------------- MODULE MCRelayControl ---------------------------
(* The commands of the runs of RelayControl: the two valid forms.  The other *)
(* forms end at CommandTaken as an expired command does.                     *)
EXTENDS RelayControl

MCSwitching == <<"on", "off">>
=============================================================================
