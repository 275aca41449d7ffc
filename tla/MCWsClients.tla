---------------------------- MODULE MCWsClients -----------------------------
(* The clients of both producers for one run of TLC: an initial state chooses *)
(* the producer.  producer_ws.py has one client here: those that it leaves    *)
(* behind share nothing but the callbacks.                                    *)
EXTENDS MCWsClient

VARIABLE producer

\* producer.py: no automatic reconnection, a watch.
Watched == INSTANCE WsClient WITH AutoReconnect <- FALSE, Watch <- TRUE

\* producer_ws.py: automatic reconnection, and no watch.
SelfHealing == INSTANCE WsClient WITH
    AutoReconnect <- TRUE, Watch <- FALSE, MaxFaults <- SdkFaults

\* ws_speed_layer of producer_ws.py subscribes once, and waits to be stopped.
UnwatchedNext == SelfHealing!Next /\ current' <= 1

IsWatched == producer = "producer.py"

ClientsInit == Init /\ producer \in {"producer.py", "producer_ws.py"}

ClientsNext ==
    /\ \/ IsWatched /\ Watched!Next
       \/ ~IsWatched /\ UnwatchedNext
    /\ UNCHANGED producer

\* The fairness of WsClient, where the clients are watched.
ClientsSpec ==
    /\ ClientsInit /\ [][ClientsNext]_<<vars, producer>>
    /\ WF_vars(IsWatched /\ Watched!SpeedLayer)
    /\ \A c \in ClientIds :
          /\ WF_vars(IsWatched /\ Watched!Connecting(c))
          /\ WF_vars(IsWatched /\ Watched!Handling(c))

\* Reconnects of WsClient, for producer.py: with automatic reconnection the feed
\* may be lost for good (ws_speed_layer, "Auto-reconnects on failure").
WatchReconnects == IsWatched => Reconnects
=============================================================================
