------------------------- MODULE MCDeviceSelection --------------------------
(* DeviceSelection for TLC *)
EXTENDS DeviceSelection

MCBuses == {<<0, 0>>, <<0, 1>>, <<1, 0>>}
=============================================================================
