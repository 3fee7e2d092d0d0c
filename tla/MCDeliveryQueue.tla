-------------------------- MODULE MCDeliveryQueue --------------------------
(* The instance of DeliveryQueue for TLC. *)
EXTENDS DeliveryQueue
=============================================================================
