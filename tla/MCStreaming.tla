---------------------------- MODULE MCStreaming ----------------------------
(* Instances of the streaming job for TLC. *)
EXTENDS Streaming

NoFaults   == [k \in FaultKind |-> 0]
OneCrash   == [NoFaults EXCEPT !["crash"] = 1]
OneAppend  == [NoFaults EXCEPT !["append"] = 1]
AllFaults  == [k \in FaultKind |-> 1]

=============================================================================
