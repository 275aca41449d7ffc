----------------------------- MODULE MCProducer -----------------------------
(* Instances of the producer for TLC. *)
EXTENDS Producer

NoFaults     == [k \in FaultKind |-> 0]
RedisAndRestart == [NoFaults EXCEPT !["redis"] = 1, !["restart"] = 1]
RedisAndKafka   == [NoFaults EXCEPT !["redis"] = 1, !["kafka"] = 1]
OneRestart      == [NoFaults EXCEPT !["restart"] = 1]
AllFaults       == [k \in FaultKind |-> 1]

=============================================================================
