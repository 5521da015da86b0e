-------------------------- MODULE MC_Ec2Instances --------------------------
(* Bounds for Ec2Instances. *)
EXTENDS Ec2Instances
=============================================================================
