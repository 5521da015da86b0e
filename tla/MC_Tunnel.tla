----------------------------- MODULE MC_Tunnel -----------------------------
(* Tunnel with the windows, sockets and requests its cfg names.            *)
EXTENDS Tunnel
=============================================================================
