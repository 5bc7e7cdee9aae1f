-------------------------- MODULE MCDeviceSettings --------------------------
(* Two calls for DeviceSettings: one sets the options x and y of two packages  *)
(* and the power, the other the name x of the network.                         *)
EXTENDS DeviceSettings, TLC

CONSTANTS c1, c2, x, y, radio

MCTarget == (c1 :> <<x, radio, y>>) @@ (c2 :> <<x>>)
MCKind == (c1 :> <<"uci", "txpower", "uci">>) @@ (c2 :> <<"uci">>)
MCPackage == (x :> "wireless") @@ (y :> "network")
=============================================================================
