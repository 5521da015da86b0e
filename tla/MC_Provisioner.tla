-------------------------- MODULE MC_Provisioner --------------------------
(* Provisioner with the requests, polls and worker slots its cfg names.    *)
EXTENDS Provisioner
============================================================================
