------------------------------ MODULE MC_Spaces ------------------------------
(* Spaces with the ids, tenants and threads its cfg names.                 *)
EXTENDS Spaces
==============================================================================
