------------------------------ MODULE WsClient ------------------------------
(***************************************************************************)
(* The market-data WebSocket: the SDK of infra/vnstock/trading_websocket   *)
(* (TradingClient over WebSocketConnection) and the task ws_speed_layer    *)
(* that creates clients, subscribes and watches over them.                 *)
(*                                                                         *)
(* Two producers use the SDK differently:                                  *)
(*   producer.py     auto_reconnect=False, and a watch that replaces a     *)
(*                   client whose handler died or connection was lost;     *)
(*   producer_ws.py  auto_reconnect=True, and no watch.                    *)
(*                                                                         *)
(* A client object is created per attempt of ws_speed_layer.  Its field pc *)
(* is where the coroutine that owns the socket stands: connect() until the *)
(* client runs, the task _message_handler afterwards.  An action is what   *)
(* runs between two suspension points.                                     *)
(*                                                                         *)
(* Message contents, encodings, signatures and delays are left out; so is  *)
(* the shutdown, which module Producer has as Restart.                     *)
(***************************************************************************)
EXTENDS Integers, Sequences, FiniteSets

CONSTANTS
    Subs,           \* the subscribe calls of ws_speed_layer, in their order
    AutoReconnect,  \* auto_reconnect
    Watch,          \* ws_speed_layer monitors the connection health
    MaxRetries,     \* max_retries
    None,           \* no chunk of symbols
    MaxFaults,      \* bound: how often each kind of fault may happen
    MaxClients      \* bound: client objects; each but the first takes a fault

FaultKind == {"dial", "welcome", "auth", "drop", "bad"}
Calls    == {Subs[i] : i \in DOMAIN Subs}
Channels == {s.channel : s \in Calls}
Chunks   == {s.chunk : s \in Calls}
Events   == {s.event : s \in Calls}
ClientIds == 1..MaxClients

ASSUME WsClientAssumption ==
    /\ Subs \in Seq([channel: Channels, chunk: Chunks, event: Events])
    /\ Subs # <<>>
    /\ AutoReconnect \in BOOLEAN /\ Watch \in BOOLEAN
    /\ MaxRetries \in Nat \ {0}
    /\ MaxFaults \in [FaultKind -> Nat] /\ MaxClients \in Nat \ {0}
    /\ None \notin Chunks

VARIABLES
    client,     \* the TradingClient objects, with the server's end of theirs
    current,    \* the client of ws_speed_layer's present attempt
    layer,      \* where ws_speed_layer stands
    nextcall,   \* the index of its next subscribe call
    faults,     \* how many faults of each kind have happened
    delivered   \* the callbacks that the last published event caused

vars == <<client, current, layer, nextcall, faults, delivered>>

Subscription(s) == [channel |-> s.channel, chunk |-> s.chunk]
Subscriptions == {Subscription(s) : s \in Calls}
NoChunks == [ch \in Channels |-> None]

\* TradingClient.__init__ and WebSocketConnection.__init__.
NewClient ==
    [pc |-> "new",
     sock |-> "none",           \* _ws: "open", or "lost" when the peer is gone
     connected |-> FALSE,       \* _is_connected, what the SDK believes of it
     normal |-> FALSE,          \* closed with a normal code
     retry |-> 0,               \* _retry_count
     attempt |-> 0,             \* reconnect_attempt
     authed |-> FALSE,          \* _is_authenticated
     running |-> FALSE,         \* _is_running, and the handler task exists
     heartbeat |-> "off",       \* _heartbeat_task
     subs |-> NoChunks,         \* _subscriptions
     todo |-> NoChunks,         \* previous_subscriptions, not yet renewed
     handlers |-> [e \in Events |-> 0],     \* _event_handlers, their number
     granted |-> FALSE,         \* the server authenticated this session
     session |-> {},            \* the server's subscriptions of this session
     made |-> {}]               \* all the subscribe calls so far (auxiliary)

Init ==
    /\ client = [c \in ClientIds |-> NewClient]
    /\ current = 0 /\ layer = "start" /\ nextcall = 1
    /\ faults = [k \in FaultKind |-> 0]
    /\ delivered = {}

\* Client c becomes r.
Becomes(c, r) == client' = [client EXCEPT ![c] = r]

Fault(k) == /\ faults[k] < MaxFaults[k]
            /\ faults' = [faults EXCEPT ![k] = @ + 1]
NoFault == UNCHANGED faults

\* A send or a receive works on an open socket only.  On a lost one a receive
\* clears _is_connected and a send does not.
Sendable(r) == r.connected /\ r.sock = "open"
AfterError(r) == {[r EXCEPT !.connected = b] : b \in {FALSE, r.connected}}

\* A step of connecting raises.  The message handler logs it and goes back to
\* reading; connect() leaves the object to ws_speed_layer, which drops it.
Raise(c, r) ==
    IF r.running THEN Becomes(c, [r EXCEPT !.pc = "recv"]) /\ UNCHANGED layer
    ELSE Becomes(c, [r EXCEPT !.pc = "dead"]) /\ layer' = "wait"

-----------------------------------------------------------------------------
(* Connecting: connect() and _handle_reconnection() *)

\* WebSocketConnection.connect: the loop is not entered again once
\* _retry_count has reached its limit, and then connect just returns.
Dial(c) ==
    LET r == client[c] IN
    /\ r.pc = "dial"
    /\ \/ /\ r.retry >= MaxRetries
          /\ NoFault /\ UNCHANGED layer
          /\ Becomes(c, [r EXCEPT !.pc = "welcome"])
       \/ /\ r.retry < MaxRetries
          /\ NoFault /\ UNCHANGED layer
          /\ Becomes(c, [r EXCEPT !.sock = "open", !.connected = TRUE,
                 !.retry = 0, !.normal = FALSE, !.granted = FALSE,
                 !.session = {}, !.pc = "welcome"])
       \/ /\ r.retry < MaxRetries
          /\ Fault("dial")
          /\ IF r.retry + 1 >= MaxRetries
             THEN Raise(c, [r EXCEPT !.retry = @ + 1])
             ELSE Becomes(c, [r EXCEPT !.retry = @ + 1]) /\ UNCHANGED layer
    /\ UNCHANGED <<current, nextcall, delivered>>

\* The welcome message, or a timeout that leaves the socket open.
Welcome(c) ==
    LET r == client[c] IN
    /\ r.pc = "welcome"
    /\ \/ /\ Sendable(r) /\ NoFault /\ UNCHANGED layer
          /\ Becomes(c, [r EXCEPT !.pc = "auth"])
       \/ /\ Sendable(r) /\ Fault("welcome")
          /\ Raise(c, r)
       \/ /\ ~Sendable(r) /\ NoFault
          /\ Raise(c, [r EXCEPT !.connected = FALSE])
    /\ UNCHANGED <<current, nextcall, delivered>>

\* _authenticate, and, the first time, the start of the background tasks.
Authenticated(r) ==
    IF r.running THEN [r EXCEPT !.authed = TRUE, !.granted = TRUE, !.pc = "resub"]
    ELSE [r EXCEPT !.authed = TRUE, !.granted = TRUE, !.pc = "recv",
                   !.running = TRUE, !.heartbeat = "on"]

Authenticate(c) ==
    LET r == client[c] IN
    /\ r.pc = "auth"
    /\ \/ /\ Sendable(r) /\ NoFault
          /\ Becomes(c, Authenticated(r))
          /\ layer' = IF r.running THEN layer ELSE "subscribe"
       \/ /\ Sendable(r) /\ Fault("auth")
          /\ Raise(c, r)
       \/ /\ ~Sendable(r) /\ NoFault
          /\ \E e \in AfterError(r) : Raise(c, e)
    /\ UNCHANGED <<current, nextcall, delivered>>

\* _subscribe_channel: the stored subscription of the channel is replaced.
Subscribed(r, s) ==
    [r EXCEPT !.session = @ \cup {s}, !.subs[s.channel] = s.chunk]

\* _handle_reconnection renews the subscriptions it copied.
Resubscribe(c, ch) ==
    LET r == client[c]
        s == [channel |-> ch, chunk |-> r.todo[ch]]
    IN  /\ r.pc = "resub" /\ r.todo[ch] # None
        /\ IF Sendable(r)
           THEN /\ Becomes(c, [Subscribed(r, s) EXCEPT !.todo[ch] = None])
                /\ UNCHANGED layer
           ELSE \E e \in AfterError(r) : Raise(c, e)
        /\ UNCHANGED <<current, nextcall, faults, delivered>>

\* The bug: the renewal stops after one channel.
ResubscribedOne(c) ==
    LET r == client[c] IN
    /\ r.pc = "resub" /\ r.session # {}
    /\ Becomes(c, [r EXCEPT !.attempt = 0, !.todo = NoChunks, !.pc = "recv"])
    /\ UNCHANGED <<current, layer, nextcall, faults, delivered>>

Resubscribed(c) ==
    LET r == client[c] IN
    /\ r.pc = "resub" /\ r.todo = NoChunks
    /\ Becomes(c, [r EXCEPT !.attempt = 0, !.pc = "recv"])
    /\ UNCHANGED <<current, layer, nextcall, faults, delivered>>

-----------------------------------------------------------------------------
(* The task _message_handler *)

\* The bug: a client without auto_reconnect reconnects.
AfterReadErrorAlways(r) ==
    [r EXCEPT !.attempt = @ + 1,
              !.pc = IF r.attempt + 1 > MaxRetries THEN "dead" ELSE "backoff"]

\* The iteration ends on a closed connection, whatever its code, and the next
\* read raises "Not connected": a connection error.
AfterReadError(r) ==
    IF AutoReconnect
    THEN [r EXCEPT !.attempt = @ + 1,
              !.pc = IF r.attempt + 1 > MaxRetries THEN "dead" ELSE "backoff"]
    ELSE [r EXCEPT !.pc = "dead"]

\* A message, also one that came too late for _handle_reconnection.
ReadMessage(c) ==
    LET r == client[c] IN
    /\ r.pc = "recv" /\ Sendable(r)
    /\ r.attempt # 0
    /\ Becomes(c, [r EXCEPT !.attempt = 0])
    /\ UNCHANGED <<current, layer, nextcall, faults, delivered>>

\* Reading, or answering a ping, on a connection that is gone.
ReadError(c) ==
    LET r == client[c] IN
    /\ r.pc = "recv" /\ ~Sendable(r)
    /\ \E e \in AfterError(r) : Becomes(c, AfterReadError(e))
    /\ UNCHANGED <<current, layer, nextcall, faults, delivered>>

\* A message that cannot be decoded ends the task: it is no connection error.
BadMessage(c) ==
    LET r == client[c] IN
    /\ r.pc = "recv" /\ Sendable(r)
    /\ Fault("bad")
    /\ Becomes(c, [r EXCEPT !.pc = "dead"])
    /\ UNCHANGED <<current, layer, nextcall, delivered>>

\* The bug: the authentication of the old session is still believed.
ReconnectAuthed(c) ==
    LET r == client[c] IN
    /\ r.pc = "backoff"
    /\ Becomes(c, [r EXCEPT !.todo = r.subs, !.pc = "dial"])
    /\ UNCHANGED <<current, layer, nextcall, faults, delivered>>

\* The delay is over: _handle_reconnection begins.
Reconnect(c) ==
    LET r == client[c] IN
    /\ r.pc = "backoff"
    /\ Becomes(c, [r EXCEPT !.todo = r.subs, !.authed = FALSE, !.pc = "dial"])
    /\ UNCHANGED <<current, layer, nextcall, faults, delivered>>

\* _heartbeat_loop wakes up on a connection that is gone, and ends.
HeartbeatEnds(c) ==
    LET r == client[c] IN
    /\ r.heartbeat = "on" /\ ~Sendable(r)
    /\ Becomes(c, [r EXCEPT !.heartbeat = "dead"])
    /\ UNCHANGED <<current, layer, nextcall, faults, delivered>>

-----------------------------------------------------------------------------
(* The server and the network *)

Drop(c, normal) ==
    LET r == client[c] IN
    /\ r.sock = "open"
    /\ Fault("drop")
    /\ Becomes(c, [r EXCEPT !.sock = "lost", !.normal = normal,
                            !.granted = FALSE, !.session = {}])
    /\ UNCHANGED <<current, layer, nextcall, delivered>>

\* The callbacks that an event of subscription s causes: _dispatch_message and
\* _emit, in every client that reads a session with that subscription.
Callbacks(s) ==
    {p \in ClientIds \X (1..Len(Subs)) :
        LET r == client[p[1]] IN
        /\ r.pc = "recv" /\ Sendable(r)
        /\ Subscription(s) \in r.session
        /\ p[2] <= r.handlers[s.event]}

Publish(s) ==
    /\ delivered' = Callbacks(s)
    /\ UNCHANGED <<client, current, layer, nextcall, faults>>

-----------------------------------------------------------------------------
(* The task ws_speed_layer *)

StartClient ==
    /\ layer = "start" /\ current < MaxClients
    /\ current' = current + 1
    /\ client' = [client EXCEPT ![current + 1] = [NewClient EXCEPT !.pc = "dial"]]
    /\ layer' = "connect" /\ nextcall' = 1
    /\ UNCHANGED <<faults, delivered>>

\* The bug: one call too many.
SubscribePast ==
    LET r == client[current]
        s == Subs[nextcall]
    IN  /\ layer = "subscribe"
        /\ r.authed /\ Sendable(r)
        /\ Becomes(current, [Subscribed(r, Subscription(s)) EXCEPT
               !.handlers[s.event] = @ + 1, !.made = @ \cup {Subscription(s)}])
        /\ IF nextcall > Len(Subs)
           THEN layer' = "watch" /\ UNCHANGED nextcall
           ELSE nextcall' = nextcall + 1 /\ UNCHANGED layer
        /\ UNCHANGED <<current, faults, delivered>>

\* A subscribe call of the SDK: the channel, then the callback.
SubscribeCall ==
    LET r == client[current]
        s == Subs[nextcall]
    IN  /\ layer = "subscribe"
        /\ r.authed /\ Sendable(r)
        /\ Becomes(current, [Subscribed(r, Subscription(s)) EXCEPT
               !.handlers[s.event] = @ + 1, !.made = @ \cup {Subscription(s)}])
        /\ IF nextcall = Len(Subs)
           THEN layer' = "watch" /\ UNCHANGED nextcall
           ELSE nextcall' = nextcall + 1 /\ UNCHANGED layer
        /\ UNCHANGED <<current, faults, delivered>>

\* The call raises: the client is left as it is, and another one is created.
SubscribeRaises ==
    /\ layer = "subscribe"
    /\ ~(client[current].authed /\ Sendable(client[current]))
    /\ layer' = "wait"
    /\ UNCHANGED <<client, current, nextcall, faults, delivered>>

\* disconnect: the tasks are cancelled wherever they wait, the connection closed.
Disconnected(r) ==
    [r EXCEPT !.pc = "dead", !.running = FALSE, !.heartbeat = "off",
              !.sock = "none", !.connected = FALSE, !.authed = FALSE,
              !.granted = FALSE, !.session = {}]

\* The bug: only the connection is watched, not the handler.
ReplaceLost ==
    LET r == client[current] IN
    /\ Watch /\ layer = "watch"
    /\ ~r.connected
    /\ Becomes(current, Disconnected(r))
    /\ layer' = "start"
    /\ UNCHANGED <<current, nextcall, faults, delivered>>

\* The health check finds the handler dead or the connection lost: the client
\* is disconnected and replaced.
ReplaceClient ==
    LET r == client[current] IN
    /\ Watch /\ layer = "watch"
    /\ r.pc = "dead" \/ ~r.connected
    /\ Becomes(current, Disconnected(r))
    /\ layer' = "start"
    /\ UNCHANGED <<current, nextcall, faults, delivered>>

WaitedFiveSeconds ==
    /\ layer = "wait"
    /\ layer' = "start"
    /\ UNCHANGED <<client, current, nextcall, faults, delivered>>

-----------------------------------------------------------------------------
Connecting(c) == Dial(c) \/ Welcome(c) \/ Authenticate(c) \/ Resubscribed(c)
                 \/ \E ch \in Channels : Resubscribe(c, ch)
Handling(c) == ReadError(c) \/ Reconnect(c)
SpeedLayer == \/ StartClient \/ SubscribeCall \/ SubscribeRaises
              \/ ReplaceClient \/ WaitedFiveSeconds
Network(c) == \/ \E normal \in BOOLEAN : Drop(c, normal)
              \/ ReadMessage(c) \/ BadMessage(c)

Next == \/ SpeedLayer
        \/ \E c \in ClientIds :
              Connecting(c) \/ Handling(c) \/ HeartbeatEnds(c) \/ Network(c)
        \/ \E s \in Calls : Publish(s)

Spec == Init /\ [][Next]_vars

\* The event loop runs every coroutine that is ready, connection attempts and
\* answers end or time out, and every sleep is over at some time.
FairSpec == /\ Spec
            /\ WF_vars(SpeedLayer)
            /\ \A c \in ClientIds : WF_vars(Connecting(c)) /\ WF_vars(Handling(c))

-----------------------------------------------------------------------------
(* Properties *)

ClientType ==
    [pc: {"new", "dial", "welcome", "auth", "resub", "recv", "backoff", "dead"},
     sock: {"none", "open", "lost"}, connected: BOOLEAN, normal: BOOLEAN,
     retry: 0..MaxRetries, attempt: 0..(MaxRetries + 1),
     authed: BOOLEAN, running: BOOLEAN, heartbeat: {"off", "on", "dead"},
     subs: [Channels -> Chunks \cup {None}],
     todo: [Channels -> Chunks \cup {None}],
     handlers: [Events -> Nat], granted: BOOLEAN,
     session: SUBSET Subscriptions, made: SUBSET Subscriptions]

\* Every variable has its type; in particular the retry counters keep to their
\* limits.
TypeOK ==
    /\ client \in [ClientIds -> ClientType]
    /\ current \in 0..MaxClients
    /\ layer \in {"start", "connect", "subscribe", "watch", "wait"}
    /\ nextcall \in DOMAIN Subs
    /\ faults \in [FaultKind -> Nat]
    /\ delivered \in SUBSET (ClientIds \X (1..Len(Subs)))

\* No two clients call back for the same event: the client that is replaced is
\* deaf before the next one listens (producer.py:564, "Reconnecting with fresh
\* TradingClient").
OneClientDelivers == \A p, q \in delivered : p[1] = q[1]

\* A published event causes one callback at most: no two clients call back, and
\* no callback is registered twice (producer.py:19, 484-485, "builds live 1m
\* candle from individual trades").
HandledOnce == Cardinality(delivered) <= 1

\* A subscription is only ever sent on a session that the server has
\* authenticated, although ws_speed_layer may be subscribing while the message
\* handler reconnects underneath it (client.py:308-309, "Must authenticate
\* before subscribing").
SubscribesAuthenticated ==
    \A c \in ClientIds : client[c].session # {} => client[c].granted

\* A client that reads an authenticated session has on it every subscription
\* it was asked for, also after a reconnection (client.py:583, "Re-subscribe
\* to all previous channels").
RestoresSubscriptions ==
    \A c \in ClientIds :
        LET r == client[c] IN
        r.pc = "recv" /\ r.authed /\ r.sock = "open" => r.made \subseteq r.session

Streaming(c) ==
    LET r == client[c] IN
    r.pc = "recv" /\ r.authed /\ r.sock = "open" /\ r.heartbeat = "on"
    /\ r.session = Subscriptions

\* Whatever fails, as long as failures end, the feed is there again in the
\* end, with all its subscriptions and a heartbeat (ws_speed_layer,
\* "Auto-reconnects on failure").
Reconnects == <>[](\E c \in ClientIds : Streaming(c))

\* When connect() returns there is a connection (connection.py:62-66, "Raises
\* ConnectionError: Failed to connect after max retries").
ConnectConnects ==
    [][\A c \in ClientIds :
        client[c].pc = "dial" /\ client'[c].pc = "welcome" => client'[c].connected
      ]_vars

\* A client reconnects after a recoverable closure only, not after a normal
\* one (client.py:365, "if enabled and error is recoverable").
OnlyRecoverable ==
    [][\A c \in ClientIds :
        client[c].pc = "recv" /\ client'[c].pc = "backoff" => ~client[c].normal
      ]_vars

\* A client that failed to reconnect tries again (client.py:425, "Continue
\* loop to retry with increased backoff").
RetriesReconnection ==
    \A c \in ClientIds :
        client[c].running /\ client[c].pc = "recv" /\ ~client[c].authed
        ~> client[c].pc \in {"backoff", "dead"}

=============================================================================
