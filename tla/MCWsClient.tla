----------------------------- MODULE MCWsClient -----------------------------
(* Instances of the WebSocket client for TLC. *)
EXTENDS WsClient

Call(channel, chunk, event) == [channel |-> channel, chunk |-> chunk, event |-> event]

\* One chunk of symbols, two channels.
TwoChannels == <<Call("ohlc", "s1", "ohlc"), Call("tick", "s1", "trade")>>

\* The bars of two resolutions, which have one event.
TwoResolutions == <<Call("ohlc.1", "s1", "ohlc"), Call("ohlc.1D", "s1", "ohlc")>>

\* More symbols than a chunk holds.
TwoChunks == <<Call("ohlc", "s1", "ohlc"), Call("ohlc", "s2", "ohlc")>>

\* Trades of two boards.
TwoBoards == <<Call("tick.G1", "s1", "trade"), Call("tick.G2", "s2", "trade")>>

NoFaults   == [k \in FaultKind |-> 0]
AllKinds   == [k \in FaultKind |-> IF k = "dial" THEN 2 ELSE 1]
TwoDials   == [NoFaults EXCEPT !["dial"] = 2, !["drop"] = 1]
OneDrop    == [NoFaults EXCEPT !["drop"] = 1]
OneBad     == [NoFaults EXCEPT !["bad"] = 1]
LateWelcome == [NoFaults EXCEPT !["drop"] = 1, !["welcome"] = 1]
SdkFaults  == [NoFaults EXCEPT !["dial"] = 2, !["welcome"] = 1, !["auth"] = 1,
                               !["drop"] = 2]

=============================================================================
