----------------------------- MODULE MCSessions -----------------------------
(* Connections over two listeners that hold two clients each, one CDC port   *)
(* and two devices.                                                          *)
EXTENDS Sessions

CONSTANTS com, d1, d2

MCPorts   == {com}
MCDevices == {d1, d2}
=============================================================================
