--------------------------- MODULE MCProducerStores ---------------------------
(* Three instances of the producer that one run of TLC checks: an initial     *)
(* state chooses the instance.  The constants of this module's own Producer   *)
(* cover those of all, so that its properties can be asked of each.           *)
EXTENDS MCProducer

CONSTANTS BatchChannels, DailyChannels

VARIABLE instance

\* The speed layer, the flusher and the batch layer, with failing stores.
Batch == INSTANCE Producer WITH
    Channels <- BatchChannels, SecDefs <- {}, RestPrices <- {1},
    DailyRefresh <- 5, MaxFaults <- RedisAndKafka

\* Reference prices: security definitions against REST refreshes of two prices,
\* where no schema was registered for Kafka.
Daily == INSTANCE Producer WITH
    Channels <- DailyChannels, Quantities <- {}, SecDefs <- {1},
    DailyRefresh <- 1, KafkaEnabled <- FALSE, MaxFaults <- NoFaults

\* The same with one price, and a restart.
Restarted == INSTANCE Producer WITH
    Channels <- DailyChannels, Quantities <- {}, SecDefs <- {2}, RestPrices <- {1},
    DailyRefresh <- 1, KafkaEnabled <- FALSE, MaxFaults <- OneRestart

StoresInit ==
    \/ instance = "batch" /\ Batch!Init
    \/ instance = "daily" /\ Daily!Init
    \/ instance = "restarted" /\ Restarted!Init

StoresNext ==
    /\ \/ instance = "batch" /\ Batch!Next
       \/ instance = "daily" /\ Daily!Next
       \/ instance = "restarted" /\ Restarted!Next
    /\ UNCHANGED instance

StoresSpec == StoresInit /\ [][StoresNext]_<<vars, instance>>
=============================================================================
