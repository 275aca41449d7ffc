---------------------------- MODULE MCProducerWs ----------------------------
(* Instances of the earlier producer for TLC. *)
EXTENDS ProducerWs
=============================================================================
