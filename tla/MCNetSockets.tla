---------------------------- MODULE MCNetSockets ----------------------------
(* Instances of NetSockets for TLC: three workers, ports below 4 inside the  *)
(* port map, port 4 (NET_PORT_MAX) behind it.                                *)
EXTENDS NetSockets

InsidePorts == 0 .. NET_PORT_MAX - 1
=============================================================================
