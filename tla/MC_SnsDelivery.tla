--------------------------- MODULE MC_SnsDelivery ---------------------------
(* SnsDelivery with the bounds its cfg gives.                              *)
EXTENDS SnsDelivery
=============================================================================
