--------------------------- MODULE MCProducerTrades ---------------------------
(* The behaviours of the producer in which nothing fails or restarts, and the *)
(* flusher is fair.                                                           *)
EXTENDS MCProducer

UndisturbedNext == Next /\ UNCHANGED faults

UndisturbedSpec ==
    /\ Init /\ [][UndisturbedNext]_vars
    /\ WF_vars(FlushStart) /\ WF_vars(FlushRedis)
    /\ WF_vars(FlushKafka) /\ WF_vars(FlushDone)
=============================================================================
