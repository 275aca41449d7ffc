--------------------------- MODULE WsClient_proofs ---------------------------
(***************************************************************************)
(* Proofs about module WsClient, for every list of subscriptions, number   *)
(* of clients, limit of retries and number of faults:                      *)
(*   the types, and that subscriptions are sent on authenticated sessions  *)
(*   only (the invariant of one client, ClientInv, is inductive on its     *)
(*   own);                                                                 *)
(*   that never two clients of producer.py call back for the same event,   *)
(*   since they do not reconnect by themselves: every client but the       *)
(*   current one is deaf for good.  It follows that an event is handled    *)
(*   once if every subscription has an event of its own;                   *)
(*   that a client which reads an authenticated session has on it all that *)
(*   it was asked for, if no channel is subscribed in two different calls. *)
(***************************************************************************)
EXTENDS WsClient, FiniteSetTheorems, TLAPS

\* Where a client stands says whether it is authenticated, and what it
\* believes of the session agrees with the server as long as it is open.
ClientInv(r) ==
    /\ r.pc # "dead" => r.attempt <= MaxRetries
    /\ r.pc \in {"new", "dial", "welcome", "auth"} => ~r.authed
    /\ r.pc = "resub" => r.authed
    /\ r.authed /\ r.sock = "open" => r.granted
    /\ r.session # {} => r.granted
    /\ \A ch \in Channels :
          /\ r.subs[ch] # None => [channel |-> ch, chunk |-> r.subs[ch]] \in Subscriptions
          /\ r.todo[ch] # None => [channel |-> ch, chunk |-> r.todo[ch]] \in Subscriptions

Good == {r \in ClientType : ClientInv(r)}

ClientsInv == TypeOK /\ \A c \in ClientIds : ClientInv(client[c])

-----------------------------------------------------------------------------

LEMMA SubsFacts ==
    /\ \A i \in DOMAIN Subs : /\ Subs[i].channel \in Channels
                              /\ Subs[i].chunk \in Chunks
                              /\ Subs[i].event \in Events
                              /\ Subscription(Subs[i]) \in Subscriptions
    /\ DOMAIN Subs = 1..Len(Subs) /\ Len(Subs) \in Nat /\ 1 \in DOMAIN Subs
    /\ MaxRetries \in Nat \ {0} /\ MaxClients \in Nat \ {0}
    /\ MaxFaults \in [FaultKind -> Nat]
<1>1. Len(Subs) \in Nat /\ DOMAIN Subs = 1..Len(Subs) /\ Len(Subs) # 0
  BY WsClientAssumption
<1>2. \A i \in DOMAIN Subs : Subs[i] \in Calls
  BY DEF Calls
<1>3. \A s \in Calls : /\ s.channel \in Channels /\ s.chunk \in Chunks
                       /\ s.event \in Events /\ Subscription(s) \in Subscriptions
  BY DEF Channels, Chunks, Events, Subscriptions
<1> QED BY <1>1, <1>2, <1>3, WsClientAssumption

\* The values that reset a field are of its type.
LEMMA Resets ==
    /\ 0 \in 0..MaxRetries /\ 0 \in 0..(MaxRetries + 1) /\ 0 <= MaxRetries
    /\ {} \in SUBSET Subscriptions
    /\ NoChunks \in [Channels -> Chunks \cup {None}]
BY SubsFacts DEF NoChunks

LEMMA NewClientGood == NewClient \in Good
BY SubsFacts DEF NewClient, NoChunks, Good, ClientType, ClientInv

\* An action that makes a good client out of one client keeps them all good.
LEMMA BecomesGood ==
    ASSUME ClientsInv, NEW c \in ClientIds, NEW r \in Good, Becomes(c, r)
    PROVE  /\ client' \in [ClientIds -> ClientType]
           /\ \A d \in ClientIds : ClientInv(client[d])'
BY DEF ClientsInv, TypeOK, Good, Becomes

Layers == {"start", "connect", "subscribe", "watch", "wait"}

\* A fault is counted, or none happens.
LEMMA FaultType ==
    ASSUME TypeOK, NEW k \in FaultKind, Fault(k) \/ NoFault
    PROVE  faults' \in [FaultKind -> Nat]
BY DEF TypeOK, Fault, NoFault

\* What raises leaves a good client.
LEMMA RaiseGood ==
    ASSUME ClientsInv, NEW c \in ClientIds, NEW r \in Good, r.pc # "dead",
           Raise(c, r)
    PROVE  /\ client' \in [ClientIds -> ClientType]
           /\ \A d \in ClientIds : ClientInv(client[d])'
           /\ layer' \in Layers
<1>1. [r EXCEPT !.pc = "recv"] \in Good /\ [r EXCEPT !.pc = "dead"] \in Good
  BY DEF Good, ClientType, ClientInv
<1>2. layer \in Layers
  BY DEF ClientsInv, TypeOK, Layers
<1>3. QED
  BY <1>1, <1>2, BecomesGood DEF Raise, Layers

\* A client after a failed send or receive is a good client.
LEMMA AfterErrorGood ==
    ASSUME NEW r \in Good, NEW e \in AfterError(r)
    PROVE  e \in Good /\ e.pc = r.pc /\ e.attempt = r.attempt
<1>1. PICK b \in {FALSE, r.connected} : e = [r EXCEPT !.connected = b]
  BY DEF AfterError
<1>2. r \in ClientType /\ b \in BOOLEAN
  BY <1>1 DEF Good, ClientType
<1>3. e \in ClientType /\ \A f \in DOMAIN r \ {"connected"} : e[f] = r[f]
  BY <1>1, <1>2 DEF ClientType
<1>4. DOMAIN r = DOMAIN NewClient
  BY <1>2 DEF ClientType, NewClient
<1>5. QED
  BY <1>1, <1>2, <1>3, <1>4, SMTT(30) DEF Good, ClientInv, ClientType

\* A client of an invariant state is a good one.
LEMMA ClientGood ==
    ASSUME ClientsInv, NEW c \in ClientIds
    PROVE  client[c] \in Good
BY DEF ClientsInv, TypeOK, Good

-----------------------------------------------------------------------------
(* Each action keeps the invariant *)

LEMMA DialGood ==
    ASSUME ClientsInv, NEW c \in ClientIds, Dial(c)
    PROVE  ClientsInv'
<1> DEFINE r == client[c]
<1>1. r \in Good /\ r.pc = "dial" /\ TypeOK
  BY ClientGood DEF Dial, ClientsInv
<1>2. r.retry \in Nat /\ r.retry <= MaxRetries /\ MaxRetries \in Nat
  BY <1>1, SubsFacts DEF Good, ClientType
<1>3. faults' \in [FaultKind -> Nat]
  BY <1>1, FaultType DEF Dial, FaultKind
<1>4. CASE Becomes(c, [r EXCEPT !.pc = "welcome"]) /\ UNCHANGED layer
  <2>1. [r EXCEPT !.pc = "welcome"] \in Good
    BY <1>1 DEF Good, ClientType, ClientInv
  <2>2. QED
    <3>1. /\ client' \in [ClientIds -> ClientType]
          /\ \A d \in ClientIds : ClientInv(client[d])'
      BY <1>4, <2>1, BecomesGood
    <3>2. QED
      BY <1>1, <1>3, <1>4, <3>1 DEF Dial, ClientsInv, TypeOK
<1>5. CASE /\ Becomes(c, [r EXCEPT !.sock = "open", !.connected = TRUE,
                 !.retry = 0, !.normal = FALSE, !.granted = FALSE,
                 !.session = {}, !.pc = "welcome"])
           /\ UNCHANGED layer
  <2> DEFINE x == [r EXCEPT !.sock = "open", !.connected = TRUE,
                 !.retry = 0, !.normal = FALSE, !.granted = FALSE,
                 !.session = {}, !.pc = "welcome"]
  <2>1. x \in Good
    <3>1. r \in ClientType /\ ClientInv(r)
      BY <1>1 DEF Good
    <3>2. x \in ClientType
      BY <3>1, Resets DEF ClientType
    <3>3. /\ x.pc = "welcome" /\ x.session = {}
          /\ x.attempt = r.attempt /\ x.authed = r.authed
          /\ x.subs = r.subs /\ x.todo = r.todo
      BY <3>1 DEF ClientType
    <3>4. QED
      BY <1>1, <3>1, <3>2, <3>3 DEF Good, ClientInv
  <2> HIDE DEF x
  <2>2. Becomes(c, x)
    BY <1>5 DEF x
  <2>3. QED
    BY <1>1, <1>3, <1>5, <2>1, <2>2, BecomesGood DEF Dial, ClientsInv, TypeOK
<1>6. CASE /\ r.retry < MaxRetries
           /\ IF r.retry + 1 >= MaxRetries
              THEN Raise(c, [r EXCEPT !.retry = @ + 1])
              ELSE Becomes(c, [r EXCEPT !.retry = @ + 1]) /\ UNCHANGED layer
  <2>1. [r EXCEPT !.retry = @ + 1] \in Good /\ [r EXCEPT !.retry = @ + 1].pc = "dial"
    BY <1>1, <1>2, <1>6 DEF Good, ClientType, ClientInv
  <2>2. /\ client' \in [ClientIds -> ClientType]
        /\ \A d \in ClientIds : ClientInv(client[d])'
        /\ layer' \in Layers
    BY <1>1, <1>6, <2>1, RaiseGood, BecomesGood DEF TypeOK, Layers
  <2>3. QED
    BY <1>1, <1>3, <2>2 DEF Dial, ClientsInv, TypeOK, Layers
<1>7. QED
  BY <1>4, <1>5, <1>6 DEF Dial

LEMMA WelcomeGood ==
    ASSUME ClientsInv, NEW c \in ClientIds, Welcome(c)
    PROVE  ClientsInv'
<1> DEFINE r == client[c]
<1>1. r \in Good /\ r.pc = "welcome" /\ TypeOK
  BY ClientGood DEF Welcome, ClientsInv
<1>2. faults' \in [FaultKind -> Nat]
  BY <1>1, FaultType DEF Welcome, FaultKind
<1>3. [r EXCEPT !.pc = "auth"] \in Good /\ [r EXCEPT !.connected = FALSE] \in Good
      /\ [r EXCEPT !.connected = FALSE].pc # "dead"
  BY <1>1 DEF Good, ClientType, ClientInv
<1>4. /\ client' \in [ClientIds -> ClientType]
      /\ \A d \in ClientIds : ClientInv(client[d])'
      /\ layer' \in Layers
  BY <1>1, <1>3, RaiseGood, BecomesGood DEF Welcome, TypeOK, Layers
<1>5. QED
  BY <1>1, <1>2, <1>4 DEF Welcome, ClientsInv, TypeOK, Layers

LEMMA AuthenticateGood ==
    ASSUME ClientsInv, NEW c \in ClientIds, Authenticate(c)
    PROVE  ClientsInv'
<1> DEFINE r == client[c]
<1>1. r \in Good /\ r.pc = "auth" /\ TypeOK
  BY ClientGood DEF Authenticate, ClientsInv
<1>2. faults' \in [FaultKind -> Nat]
  BY <1>1, FaultType DEF Authenticate, FaultKind
<1>3. Authenticated(r) \in Good
  BY <1>1 DEF Authenticated, Good, ClientType, ClientInv
<1>4. \A e \in AfterError(r) : e \in Good /\ e.pc # "dead"
  BY <1>1, AfterErrorGood
<1>5. /\ client' \in [ClientIds -> ClientType]
      /\ \A d \in ClientIds : ClientInv(client[d])'
      /\ layer' \in Layers
  BY <1>1, <1>3, <1>4, RaiseGood, BecomesGood DEF Authenticate, TypeOK, Layers
<1>6. QED
  BY <1>1, <1>2, <1>5 DEF Authenticate, ClientsInv, TypeOK, Layers

LEMMA ResubscribeGood ==
    ASSUME ClientsInv, NEW c \in ClientIds, NEW ch \in Channels, Resubscribe(c, ch)
    PROVE  ClientsInv'
<1> DEFINE r == client[c]
           s == [channel |-> ch, chunk |-> r.todo[ch]]
           x == [Subscribed(r, s) EXCEPT !.todo[ch] = None]
<1>1. r \in Good /\ r \in ClientType /\ ClientInv(r) /\ r.pc = "resub" /\ TypeOK
  BY ClientGood DEF Resubscribe, ClientsInv, Good
<1>2. s \in Subscriptions /\ r.todo[ch] \in Chunks
  BY <1>1 DEF Resubscribe, ClientInv, ClientType
<1>3. ASSUME Sendable(r)
      PROVE  x \in Good
  <2>1. /\ [r.subs EXCEPT ![ch] = r.todo[ch]] \in [Channels -> Chunks \cup {None}]
        /\ [r.todo EXCEPT ![ch] = None] \in [Channels -> Chunks \cup {None}]
        /\ r.session \cup {s} \in SUBSET Subscriptions
    BY <1>1, <1>2 DEF ClientType
  <2>2. x = [r EXCEPT !.session = r.session \cup {s},
                     !.subs = [r.subs EXCEPT ![ch] = r.todo[ch]],
                     !.todo = [r.todo EXCEPT ![ch] = None]]
    BY <1>1 DEF Subscribed, ClientType
  <2>3. x \in ClientType
    BY <1>1, <2>1, <2>2 DEF ClientType
  <2>4. /\ x.pc = r.pc /\ x.attempt = r.attempt /\ x.authed = r.authed
        /\ x.sock = r.sock /\ x.granted = r.granted
        /\ x.subs = [r.subs EXCEPT ![ch] = r.todo[ch]]
        /\ x.todo = [r.todo EXCEPT ![ch] = None]
    BY <1>1, <2>2 DEF ClientType
  <2>5. r.granted
    BY <1>1, <1>3 DEF Sendable, ClientInv
  <2>6. \A k \in Channels :
          /\ x.subs[k] # None => [channel |-> k, chunk |-> x.subs[k]] \in Subscriptions
          /\ x.todo[k] # None => [channel |-> k, chunk |-> x.todo[k]] \in Subscriptions
    BY <1>1, <1>2, <2>4 DEF ClientInv, ClientType
  <2>7. QED
    BY <1>1, <2>3, <2>4, <2>5, <2>6 DEF Good, ClientInv
<1>4. \A e \in AfterError(r) : e \in Good /\ e.pc # "dead"
  BY <1>1, AfterErrorGood
<1> HIDE DEF x
<1>5. /\ client' \in [ClientIds -> ClientType]
      /\ \A d \in ClientIds : ClientInv(client[d])'
      /\ layer' \in Layers
  <2>1. CASE Sendable(r)
    <3>1. Becomes(c, x) /\ UNCHANGED layer
      BY <2>1 DEF Resubscribe, x
    <3>2. QED
      BY <1>1, <1>3, <2>1, <3>1, BecomesGood DEF TypeOK, Layers
  <2>2. CASE ~Sendable(r)
    <3>1. PICK e \in AfterError(r) : Raise(c, e)
      BY <2>2 DEF Resubscribe
    <3>2. QED
      BY <1>4, <3>1, RaiseGood
  <2>3. QED
    BY <2>1, <2>2
<1>6. QED
  BY <1>1, <1>5 DEF Resubscribe, ClientsInv, TypeOK, Layers

\* The actions that only change one client, and only to a good one.
LEMMA BecomesKeeps ==
    ASSUME ClientsInv, NEW c \in ClientIds, NEW r \in Good, Becomes(c, r),
           UNCHANGED <<current, layer, nextcall, delivered>>,
           faults' \in [FaultKind -> Nat]
    PROVE  ClientsInv'
BY BecomesGood DEF ClientsInv, TypeOK

LEMMA ResubscribedGood ==
    ASSUME ClientsInv, NEW c \in ClientIds, Resubscribed(c)
    PROVE  ClientsInv'
<1> DEFINE r == client[c]
<1>1. r \in Good /\ r.pc = "resub" /\ TypeOK
  BY ClientGood DEF Resubscribed, ClientsInv
<1>2. [r EXCEPT !.attempt = 0, !.pc = "recv"] \in Good
  BY <1>1, Resets DEF Good, ClientType, ClientInv
<1>3. QED
  BY <1>1, <1>2, BecomesKeeps DEF Resubscribed, TypeOK

LEMMA ReadMessageGood ==
    ASSUME ClientsInv, NEW c \in ClientIds, ReadMessage(c)
    PROVE  ClientsInv'
<1> DEFINE r == client[c]
<1>1. r \in Good /\ r.pc = "recv" /\ TypeOK
  BY ClientGood DEF ReadMessage, ClientsInv
<1>2. [r EXCEPT !.attempt = 0] \in Good
  BY <1>1, Resets DEF Good, ClientType, ClientInv
<1>3. QED
  BY <1>1, <1>2, BecomesKeeps DEF ReadMessage, TypeOK

LEMMA ReadErrorGood ==
    ASSUME ClientsInv, NEW c \in ClientIds, ReadError(c)
    PROVE  ClientsInv'
<1> DEFINE r == client[c]
<1>1. r \in Good /\ r.pc = "recv" /\ TypeOK
  BY ClientGood DEF ReadError, ClientsInv
<1>2. PICK e \in AfterError(r) : Becomes(c, AfterReadError(e))
  BY DEF ReadError
<1>3. e \in Good /\ e.pc = "recv"
  BY <1>1, <1>2, AfterErrorGood
<1>4. AfterReadError(e) \in Good
  <2>1. e \in ClientType /\ e.attempt \in Nat /\ e.attempt <= MaxRetries
    BY <1>3, SubsFacts DEF Good, ClientType, ClientInv
  <2>2. e.attempt + 1 \in 0..(MaxRetries + 1) /\ e.attempt + 1 \in Nat
    BY <2>1, SubsFacts
  <2>3. AfterReadError(e) \in ClientType
    BY <2>1, <2>2 DEF AfterReadError, ClientType
  <2> DEFINE x == AfterReadError(e)
  <2>4. /\ x.authed = e.authed /\ x.sock = e.sock /\ x.granted = e.granted
        /\ x.session = e.session /\ x.subs = e.subs /\ x.todo = e.todo
        /\ x.pc \in {"dead", "backoff"}
    BY <2>1 DEF AfterReadError, ClientType
  <2>5. x.pc # "dead" => x.attempt <= MaxRetries
    BY <2>1, <2>2, SubsFacts DEF AfterReadError, ClientType
  <2> HIDE DEF x
  <2>6. x \in Good
    BY <1>3, <2>3, <2>4, <2>5 DEF Good, ClientInv, x
  <2>7. QED
    BY <2>6 DEF x
<1>5. QED
  BY <1>1, <1>2, <1>4, BecomesKeeps DEF ReadError, TypeOK

LEMMA BadMessageGood ==
    ASSUME ClientsInv, NEW c \in ClientIds, BadMessage(c)
    PROVE  ClientsInv'
<1> DEFINE r == client[c]
<1>1. r \in Good /\ TypeOK
  BY ClientGood DEF BadMessage, ClientsInv
<1>2. [r EXCEPT !.pc = "dead"] \in Good
  BY <1>1 DEF Good, ClientType, ClientInv
<1>3. faults' \in [FaultKind -> Nat]
  BY <1>1, FaultType DEF BadMessage, FaultKind
<1>4. QED
  BY <1>1, <1>2, <1>3, BecomesKeeps DEF BadMessage

LEMMA ReconnectGood ==
    ASSUME ClientsInv, NEW c \in ClientIds, Reconnect(c)
    PROVE  ClientsInv'
<1> DEFINE r == client[c]
<1>1. r \in Good /\ r.pc = "backoff" /\ TypeOK
  BY ClientGood DEF Reconnect, ClientsInv
<1>2. [r EXCEPT !.todo = r.subs, !.authed = FALSE, !.pc = "dial"] \in Good
  BY <1>1 DEF Good, ClientType, ClientInv
<1>3. QED
  BY <1>1, <1>2, BecomesKeeps DEF Reconnect, TypeOK

LEMMA HeartbeatEndsGood ==
    ASSUME ClientsInv, NEW c \in ClientIds, HeartbeatEnds(c)
    PROVE  ClientsInv'
<1> DEFINE r == client[c]
<1>1. r \in Good /\ TypeOK
  BY ClientGood DEF HeartbeatEnds, ClientsInv
<1>2. [r EXCEPT !.heartbeat = "dead"] \in Good
  BY <1>1 DEF Good, ClientType, ClientInv
<1>3. QED
  BY <1>1, <1>2, BecomesKeeps DEF HeartbeatEnds, TypeOK

LEMMA DropGood ==
    ASSUME ClientsInv, NEW c \in ClientIds, NEW normal \in BOOLEAN, Drop(c, normal)
    PROVE  ClientsInv'
<1> DEFINE r == client[c]
<1>1. r \in Good /\ TypeOK
  BY ClientGood DEF Drop, ClientsInv
<1> DEFINE x == [r EXCEPT !.sock = "lost", !.normal = normal, !.granted = FALSE,
                         !.session = {}]
<1>2. x \in Good
  <2>1. r \in ClientType /\ ClientInv(r)
    BY <1>1 DEF Good
  <2>2. x \in ClientType
    BY <2>1, Resets DEF ClientType
  <2>3. /\ x.pc = r.pc /\ x.attempt = r.attempt /\ x.authed = r.authed
        /\ x.sock = "lost" /\ x.session = {} /\ x.subs = r.subs /\ x.todo = r.todo
    BY <2>1 DEF ClientType
  <2>4. QED
    BY <2>1, <2>2, <2>3 DEF Good, ClientInv
<1>3. faults' \in [FaultKind -> Nat]
  BY <1>1, FaultType DEF Drop, FaultKind
<1>4. QED
  BY <1>1, <1>2, <1>3, BecomesKeeps DEF Drop

LEMMA StartClientGood ==
    ASSUME ClientsInv, StartClient
    PROVE  ClientsInv'
<1>1. current + 1 \in ClientIds /\ TypeOK
  BY SubsFacts DEF StartClient, ClientsInv, TypeOK, ClientIds
<1>2. [NewClient EXCEPT !.pc = "dial"] \in Good
  BY NewClientGood DEF Good, ClientType, ClientInv, NewClient
<1>3. /\ client' \in [ClientIds -> ClientType]
      /\ \A d \in ClientIds : ClientInv(client[d])'
  BY <1>1, <1>2, BecomesGood DEF StartClient, Becomes
<1>4. current' \in 0..MaxClients /\ nextcall' \in DOMAIN Subs
  BY <1>1, SubsFacts DEF StartClient, TypeOK, ClientIds
<1>5. QED
  BY <1>1, <1>3, <1>4 DEF StartClient, ClientsInv, TypeOK

\* A subscription and a callback more keep the type of a client.
LEMMA SubscribedType ==
    ASSUME NEW r \in ClientType, NEW open \in SUBSET Subscriptions,
           NEW stored \in [Channels -> Chunks \cup {None}],
           NEW callbacks \in [Events -> Nat], NEW made \in SUBSET Subscriptions
    PROVE  [r EXCEPT !.session = open, !.subs = stored, !.handlers = callbacks,
                     !.made = made] \in ClientType
BY DEF ClientType

\* A subscribe call on an authenticated client, whatever the message handler
\* made of it since the last one.
LEMMA SubscribeCallGood ==
    ASSUME ClientsInv, current \in ClientIds, SubscribeCall
    PROVE  ClientsInv'
<1> DEFINE r == client[current]
           s == Subs[nextcall]
           x == [Subscribed(r, Subscription(s)) EXCEPT
                    !.handlers[s.event] = @ + 1, !.made = @ \cup {Subscription(s)}]
<1>1. r \in Good /\ r \in ClientType /\ ClientInv(r) /\ TypeOK
  BY ClientGood DEF ClientsInv, Good
<1>2. /\ s.channel \in Channels /\ s.chunk \in Chunks /\ s.event \in Events
      /\ Subscription(s) \in Subscriptions
  BY <1>1, SubsFacts DEF TypeOK
<1>3. r.granted
  BY <1>1 DEF SubscribeCall, Sendable, ClientInv
<1>4. x \in Good
  <2>1. /\ [r.subs EXCEPT ![s.channel] = s.chunk] \in [Channels -> Chunks \cup {None}]
        /\ r.session \cup {Subscription(s)} \in SUBSET Subscriptions
        /\ r.made \cup {Subscription(s)} \in SUBSET Subscriptions
    BY <1>1, <1>2 DEF ClientType
  <2>2. [r.handlers EXCEPT ![s.event] = @ + 1] \in [Events -> Nat]
    BY <1>1, <1>2 DEF ClientType
  <2>3. x = [r EXCEPT !.session = r.session \cup {Subscription(s)},
                     !.subs = [r.subs EXCEPT ![s.channel] = s.chunk],
                     !.handlers = [r.handlers EXCEPT ![s.event] = @ + 1],
                     !.made = r.made \cup {Subscription(s)}]
    <3> DEFINE y == [r EXCEPT !.session = r.session \cup {Subscription(s)},
                             !.subs = [r.subs EXCEPT ![s.channel] = s.chunk]]
    <3>1. Subscribed(r, Subscription(s)) = y
      BY DEF Subscribed, Subscription
    <3>2. y.handlers = r.handlers /\ y.made = r.made
      BY <1>1 DEF ClientType
    <3>3. x = [y EXCEPT !.handlers = [r.handlers EXCEPT ![s.event] = @ + 1],
                       !.made = r.made \cup {Subscription(s)}]
      BY <3>1, <3>2
    <3>4. QED
      BY <1>1, <3>3 DEF ClientType
  <2> HIDE DEF x
  <2>4. x \in ClientType
    BY <1>1, <2>1, <2>2, <2>3, SubscribedType
  <2>5. /\ x.pc = r.pc /\ x.attempt = r.attempt /\ x.authed = r.authed
        /\ x.sock = r.sock /\ x.granted = r.granted /\ x.todo = r.todo
        /\ x.subs = [r.subs EXCEPT ![s.channel] = s.chunk]
    BY <1>1, <2>3 DEF ClientType
  <2>6. \A k \in Channels : x.subs[k] # None =>
                [channel |-> k, chunk |-> x.subs[k]] \in Subscriptions
    <3>1. /\ r.subs \in [Channels -> Chunks \cup {None}]
          /\ \A k \in Channels : r.subs[k] # None =>
                [channel |-> k, chunk |-> r.subs[k]] \in Subscriptions
      BY <1>1 DEF ClientInv, ClientType
    <3>2. [channel |-> s.channel, chunk |-> s.chunk] \in Subscriptions
      BY <1>2 DEF Subscription
    <3>3. TAKE k \in Channels
    <3>4. CASE k = s.channel
      BY <2>5, <3>1, <3>2, <3>4
    <3>5. CASE k # s.channel
      BY <2>5, <3>1, <3>5
    <3>6. QED
      BY <3>4, <3>5
  <2>7. QED
    BY <1>1, <1>3, <2>4, <2>5, <2>6 DEF Good, ClientInv
<1>5. Becomes(current, x)
  BY DEF SubscribeCall
<1> HIDE DEF x
<1>6. /\ client' \in [ClientIds -> ClientType]
      /\ \A d \in ClientIds : ClientInv(client[d])'
  BY <1>4, <1>5, BecomesGood
<1>7. nextcall' \in DOMAIN Subs /\ layer' \in Layers
  BY <1>1, SubsFacts DEF SubscribeCall, TypeOK, Layers
<1>8. QED
  BY <1>1, <1>6, <1>7 DEF SubscribeCall, ClientsInv, TypeOK, Layers

LEMMA ReplaceClientGood ==
    ASSUME ClientsInv, current \in ClientIds, ReplaceClient
    PROVE  ClientsInv'
<1> DEFINE r == client[current]
           x == [r EXCEPT !.pc = "dead", !.running = FALSE,
                   !.sock = "none", !.connected = FALSE, !.authed = FALSE,
                   !.heartbeat = "off", !.granted = FALSE, !.session = {}]
<1>1. r \in ClientType /\ ClientInv(r) /\ TypeOK
  BY ClientGood DEF ClientsInv, Good
<1>2. x \in Good
  <2>1. x \in ClientType
    BY <1>1, Resets DEF ClientType
  <2>2. /\ x.pc = "dead" /\ x.session = {} /\ x.sock = "none"
        /\ x.subs = r.subs /\ x.todo = r.todo
    BY <1>1 DEF ClientType
  <2>3. QED
    BY <1>1, <2>1, <2>2 DEF Good, ClientInv
<1>3. Becomes(current, x)
  BY DEF ReplaceClient, Disconnected
<1> HIDE DEF x
<1>4. /\ client' \in [ClientIds -> ClientType]
      /\ \A d \in ClientIds : ClientInv(client[d])'
  BY <1>2, <1>3, BecomesGood
<1>5. QED
  BY <1>1, <1>4 DEF ReplaceClient, Disconnected, ClientsInv, TypeOK

-----------------------------------------------------------------------------
(* All actions together *)

\* Before ws_speed_layer has created a client, there is none.
NoneYet == current = 0 => layer = "start" /\ \A c \in ClientIds : client[c] = NewClient

WsInv == ClientsInv /\ NoneYet

LEMMA WsInit == Init => WsInv
<1> SUFFICES ASSUME Init PROVE WsInv
  OBVIOUS
<1>1. client \in [ClientIds -> ClientType] /\ \A c \in ClientIds : ClientInv(client[c])
  BY NewClientGood DEF Init, Good
<1>2. TypeOK
  BY <1>1, SubsFacts DEF Init, TypeOK
<1>3. QED
  BY <1>1, <1>2 DEF Init, WsInv, ClientsInv, NoneYet

\* What the clients, their messages and the network do.
ClientStep == \E c \in ClientIds :
    Connecting(c) \/ Handling(c) \/ HeartbeatEnds(c) \/ Network(c)

LEMMA ClientStepGood ==
    ASSUME WsInv, ClientStep
    PROVE  ClientsInv' /\ UNCHANGED current /\ current # 0
<1>1. PICK c \in ClientIds :
        Connecting(c) \/ Handling(c) \/ HeartbeatEnds(c) \/ Network(c)
  BY DEF ClientStep
<1>2. current # 0
  <2>1. client[c] # NewClient
    <3>1. SUFFICES ASSUME client[c] = NewClient PROVE FALSE
      OBVIOUS
    <3>2. /\ client[c].pc = "new" /\ client[c].heartbeat = "off"
          /\ client[c].sock = "none"
      BY <3>1 DEF NewClient
    <3>3. QED
      BY <1>1, <3>2 DEF Connecting, Dial, Welcome, Authenticate, Resubscribe,
         Resubscribed, Handling, ReadError, Reconnect, HeartbeatEnds, Network,
         Drop, ReadMessage, BadMessage
  <2>2. QED
    BY <2>1 DEF WsInv, NoneYet
<1>3. ClientsInv' /\ UNCHANGED current
  <2>1. ClientsInv
    BY DEF WsInv
  <2>2. CASE Dial(c)
    BY <2>1, <2>2, DialGood DEF Dial
  <2>3. CASE Welcome(c)
    BY <2>1, <2>3, WelcomeGood DEF Welcome
  <2>4. CASE Authenticate(c)
    BY <2>1, <2>4, AuthenticateGood DEF Authenticate
  <2>5. CASE \E ch \in Channels : Resubscribe(c, ch)
    BY <2>1, <2>5, ResubscribeGood DEF Resubscribe
  <2>6. CASE Resubscribed(c)
    BY <2>1, <2>6, ResubscribedGood DEF Resubscribed
  <2>7. CASE ReadError(c)
    BY <2>1, <2>7, ReadErrorGood DEF ReadError
  <2>8. CASE Reconnect(c)
    BY <2>1, <2>8, ReconnectGood DEF Reconnect
  <2>9. CASE HeartbeatEnds(c)
    BY <2>1, <2>9, HeartbeatEndsGood DEF HeartbeatEnds
  <2>10. CASE \E normal \in BOOLEAN : Drop(c, normal)
    BY <2>1, <2>10, DropGood DEF Drop
  <2>11. CASE ReadMessage(c)
    BY <2>1, <2>11, ReadMessageGood DEF ReadMessage
  <2>12. CASE BadMessage(c)
    BY <2>1, <2>12, BadMessageGood DEF BadMessage
  <2>13. QED
    BY <1>1, <2>2, <2>3, <2>4, <2>5, <2>6, <2>7, <2>8, <2>9, <2>10, <2>11, <2>12
       DEF Connecting, Handling, Network
<1>4. QED
  BY <1>2, <1>3

LEMMA WsStep == WsInv /\ [Next]_vars => WsInv'
<1> SUFFICES ASSUME WsInv, [Next]_vars PROVE WsInv'
  OBVIOUS
<1>1. ClientsInv /\ NoneYet /\ TypeOK
  BY DEF WsInv, ClientsInv
<1>2. current \in Nat /\ (current # 0 => current \in ClientIds)
  BY <1>1, SubsFacts DEF TypeOK, ClientIds
<1>3. CASE ClientStep
  <2>1. ClientsInv' /\ UNCHANGED current /\ current # 0
    BY <1>3, ClientStepGood
  <2>2. QED
    BY <2>1 DEF WsInv, NoneYet
<1>4. CASE StartClient
  BY <1>1, <1>2, <1>4, StartClientGood DEF StartClient, WsInv, NoneYet
<1>5. CASE SubscribeCall
  <2>1. current # 0
    BY <1>1, <1>5 DEF SubscribeCall, NoneYet
  <2>2. ClientsInv' /\ UNCHANGED current
    BY <1>1, <1>2, <1>5, <2>1, SubscribeCallGood DEF SubscribeCall
  <2>3. QED
    BY <2>1, <2>2 DEF WsInv, NoneYet
<1>6. CASE ReplaceClient
  <2>1. current # 0
    BY <1>1, <1>6 DEF ReplaceClient, Disconnected, NoneYet
  <2>2. ClientsInv' /\ UNCHANGED current
    BY <1>1, <1>2, <1>6, <2>1, ReplaceClientGood DEF ReplaceClient, Disconnected
  <2>3. QED
    BY <2>1, <2>2 DEF WsInv, NoneYet
<1>7. CASE SubscribeRaises
  BY <1>1, <1>7 DEF SubscribeRaises, WsInv, ClientsInv, NoneYet, TypeOK
<1>8. CASE WaitedFiveSeconds
  BY <1>1, <1>8 DEF WaitedFiveSeconds, WsInv, ClientsInv, NoneYet, TypeOK
<1>9. CASE \E s \in Calls : Publish(s)
  <2>1. delivered' \in SUBSET (ClientIds \X (1..Len(Subs)))
    BY <1>9 DEF Publish, Callbacks
  <2>2. QED
    BY <1>1, <1>9, <2>1 DEF Publish, WsInv, ClientsInv, NoneYet, TypeOK
<1>10. CASE UNCHANGED vars
  BY <1>1, <1>10 DEF vars, WsInv, ClientsInv, NoneYet, TypeOK
<1>11. QED
  BY <1>3, <1>4, <1>5, <1>6, <1>7, <1>8, <1>9, <1>10 DEF Next, SpeedLayer, ClientStep

LEMMA WsAlways == Spec => []WsInv
BY WsInit, WsStep, PTL DEF Spec

\* The types: the retry counters, in particular, keep to their limits, and
\* what a reconnection renews was subscribed before (client.py:576-622).
THEOREM WsTypeCorrect == Spec => []TypeOK
<1>1. WsInv => TypeOK
  BY DEF WsInv, ClientsInv
<1>2. QED
  BY <1>1, WsAlways, PTL

\* Whatever the message handler does to the connection while ws_speed_layer
\* subscribes, no subscription reaches the server on a session that it did
\* not authenticate (client.py:305-322 and 576-622).
THEOREM SubscribesAuthenticatedCorrect == Spec => []SubscribesAuthenticated
<1>1. WsInv => SubscribesAuthenticated
  BY DEF WsInv, ClientsInv, ClientInv, SubscribesAuthenticated
<1>2. QED
  BY <1>1, WsAlways, PTL

-----------------------------------------------------------------------------
(* One client delivers *)

DistinctEvents ==
    \A i, j \in DOMAIN Subs : Subs[i].event = Subs[j].event => i = j

Attempting == {"dial", "welcome", "auth"}
Connected  == {"recv", "dead"}

\* A client that will never call back again.
Deaf(r) == r.pc = "dead" \/ (r.pc = "recv" /\ ~Sendable(r))

\* Every client but the current one is unused or deaf, and the current one has
\* registered a callback once for each call it made.
ClientSingle(c) ==
    LET r == client[c] IN
    /\ r.pc \in {"new"} \cup Attempting \cup Connected
    /\ r.pc = "recv" => r.authed
    /\ r.pc \in Attempting => c = current /\ layer = "connect" /\ ~r.running
    /\ c > current \/ r.pc = "new" => r = NewClient
    /\ c < current => Deaf(r)
    /\ DistinctEvents => \A e \in Events : r.handlers[e] <= 1

LayerSingle ==
    LET r == client[current] IN
    /\ layer \in {"start", "wait"} /\ current # 0 => Deaf(r)
    /\ layer \in {"subscribe", "watch"} => r.pc \in Connected
    /\ layer = "connect" => \A e \in Events : r.handlers[e] = 0
    /\ DistinctEvents /\ layer = "subscribe" =>
          \A i \in DOMAIN Subs : i >= nextcall => r.handlers[Subs[i].event] = 0

DeliveredOnce ==
    /\ OneClientDelivers
    /\ DistinctEvents => HandledOnce

SingleInv ==
    /\ \A c \in ClientIds : ClientSingle(c)
    /\ LayerSingle
    /\ DeliveredOnce

-----------------------------------------------------------------------------

\* Only the publication of an event calls back.
LEMMA NothingDelivered ==
    ASSUME SingleInv, UNCHANGED delivered
    PROVE  DeliveredOnce'
BY DEF SingleInv, DeliveredOnce, OneClientDelivers, HandledOnce, DistinctEvents

\* A step of client c that leaves its place in the list of clients alone.
LEMMA QuietStep ==
    ASSUME WsInv, SingleInv, NEW c \in ClientIds, NEW x \in ClientType, Becomes(c, x),
           client[c] # NewClient,
           x.handlers = client[c].handlers, x.running = client[c].running,
           Deaf(client[c]) => Deaf(x),
           x.pc \in Attempting \cup Connected,
           x.pc = "recv" => x.authed,
           x.pc \in Attempting => client[c].pc \in Attempting,
           client[c].pc \in Connected => x.pc \in Connected,
           UNCHANGED <<current, layer, nextcall, delivered>>
    PROVE  SingleInv'
<1>1. /\ client' = [client EXCEPT ![c] = x] /\ client \in [ClientIds -> ClientType]
      /\ current \in Nat /\ c \in Nat
  BY SubsFacts DEF Becomes, WsInv, ClientsInv, TypeOK, ClientIds
<1>2. \A d \in ClientIds : ClientSingle(d)'
  <2>1. TAKE d \in ClientIds
  <2>2. CASE d = c
    <3>1. client'[d] = x
      BY <1>1, <2>2
    <3>2. ClientSingle(c)
      BY DEF SingleInv
    <3>3. QED
      BY <2>2, <3>1, <3>2 DEF ClientSingle, Attempting, Connected
  <2>3. CASE d # c
    <3>1. client'[d] = client[d]
      BY <1>1, <2>3
    <3>2. ClientSingle(d)
      BY DEF SingleInv
    <3>3. QED
      BY <3>1, <3>2 DEF ClientSingle
  <2>4. QED
    BY <2>2, <2>3
<1>3. LayerSingle'
  <2>1. CASE current = c
    <3>1. client'[current] = x
      BY <1>1, <2>1
    <3>2. QED
      BY <2>1, <3>1 DEF SingleInv, LayerSingle
  <2>2. CASE current # c
    <3>1. client'[current] = client[current]
      BY <1>1, <2>2
    <3>2. QED
      BY <3>1 DEF SingleInv, LayerSingle
  <2>3. QED
    BY <2>1, <2>2
<1>4. QED
  BY <1>2, <1>3, NothingDelivered DEF SingleInv

\* A connection attempt that raises leaves the current client dead.
LEMMA RaiseSingle ==
    ASSUME WsInv, SingleInv, NEW c \in ClientIds, client[c].pc \in Attempting,
           NEW r \in ClientType, Raise(c, r),
           r.handlers = client[c].handlers, r.running = client[c].running,
           UNCHANGED <<current, nextcall, delivered>>
    PROVE  SingleInv'
<1>1. ClientSingle(c)
  BY DEF SingleInv
<1>2. c = current /\ ~r.running
  BY <1>1 DEF ClientSingle
<1> DEFINE x == [r EXCEPT !.pc = "dead"]
<1>3. Becomes(c, x) /\ layer' = "wait"
  BY <1>2 DEF Raise
<1>4. x.pc = "dead" /\ x.handlers = client[c].handlers
  BY DEF ClientType
<1> HIDE DEF x
<1>5. client' = [client EXCEPT ![c] = x] /\ client \in [ClientIds -> ClientType]
  BY <1>3 DEF Becomes, WsInv, ClientsInv, TypeOK
<1>6. \A d \in ClientIds : ClientSingle(d)'
  <2>1. TAKE d \in ClientIds
  <2>2. CASE d = c
    <3>1. client'[d] = x
      BY <1>5, <2>2
    <3>2. ~(c > current)
      BY <1>2, SubsFacts DEF ClientIds
    <3>3. QED
      BY <1>1, <1>2, <1>4, <2>2, <3>1, <3>2 DEF ClientSingle, Attempting, Connected, Deaf
  <2>3. CASE d # c
    <3>1. client'[d] = client[d]
      BY <1>5, <2>3
    <3>2. ClientSingle(d)
      BY DEF SingleInv
    <3>3. client[d].pc \notin Attempting
      BY <1>2, <2>3, <3>2 DEF ClientSingle
    <3>4. QED
      BY <3>1, <3>2, <3>3 DEF ClientSingle
  <2>4. QED
    BY <2>2, <2>3
<1>7. LayerSingle'
  BY <1>2, <1>3, <1>4, <1>5 DEF LayerSingle, Deaf
<1>8. QED
  BY <1>6, <1>7, NothingDelivered DEF SingleInv

-----------------------------------------------------------------------------
(* Each action keeps the invariant *)

LEMMA SingleFacts ==
    ASSUME WsInv, SingleInv, NEW c \in ClientIds
    PROVE  /\ client[c] \in ClientType /\ client[c] \in Good
           /\ ClientSingle(c) /\ TypeOK /\ ClientsInv
           /\ current \in Nat /\ c \in Nat
BY ClientGood, SubsFacts DEF WsInv, ClientsInv, TypeOK, SingleInv, ClientIds

LEMMA DialSingle ==
    ASSUME WsInv, SingleInv, NEW c \in ClientIds, Dial(c)
    PROVE  SingleInv'
<1> DEFINE r == client[c]
<1>1. /\ r \in ClientType /\ r \in Good /\ ClientSingle(c)
      /\ ClientInv(r) /\ r.pc = "dial"
  BY SingleFacts DEF Dial, Good
<1>2. r # NewClient /\ r.pc \in Attempting
  BY <1>1 DEF NewClient, Attempting
<1>3. r.retry \in Nat /\ r.retry <= MaxRetries /\ MaxRetries \in Nat
  BY <1>1, SubsFacts DEF ClientType
<1>4. CASE Becomes(c, [r EXCEPT !.pc = "welcome"]) /\ UNCHANGED layer
  <2> DEFINE x == [r EXCEPT !.pc = "welcome"]
  <2>1. /\ x \in ClientType /\ x.pc = "welcome" /\ x.handlers = r.handlers
        /\ x.running = r.running
    BY <1>1 DEF ClientType
  <2>2. Becomes(c, x)
    BY <1>4
  <2> HIDE DEF x
  <2>3. QED
    BY <1>1, <1>2, <1>4, <2>1, <2>2, QuietStep DEF Dial, Deaf, Attempting, Connected
<1>5. CASE /\ Becomes(c, [r EXCEPT !.sock = "open", !.connected = TRUE,
                 !.retry = 0, !.normal = FALSE, !.granted = FALSE,
                 !.session = {}, !.pc = "welcome"])
           /\ UNCHANGED layer
  <2> DEFINE x == [r EXCEPT !.sock = "open", !.connected = TRUE,
                 !.retry = 0, !.normal = FALSE, !.granted = FALSE,
                 !.session = {}, !.pc = "welcome"]
  <2>1. x \in ClientType
    BY <1>1, Resets DEF ClientType
  <2>2. x.pc = "welcome" /\ x.handlers = r.handlers /\ x.running = r.running
    BY <1>1 DEF ClientType
  <2>3. Becomes(c, x)
    BY <1>5
  <2> HIDE DEF x
  <2>4. QED
    BY <1>1, <1>2, <1>5, <2>1, <2>2, <2>3, QuietStep
       DEF Dial, Deaf, Attempting, Connected
<1>6. CASE r.retry < MaxRetries /\ Raise(c, [r EXCEPT !.retry = @ + 1])
  <2> DEFINE x == [r EXCEPT !.retry = @ + 1]
  <2>1. x \in ClientType /\ x.handlers = r.handlers /\ x.running = r.running
    BY <1>1, <1>3, <1>6 DEF ClientType
  <2>2. Raise(c, x)
    BY <1>6
  <2> HIDE DEF x
  <2>3. QED
    BY <1>2, <2>1, <2>2, RaiseSingle DEF Dial
<1>7. CASE /\ r.retry < MaxRetries
           /\ Becomes(c, [r EXCEPT !.retry = @ + 1]) /\ UNCHANGED layer
  <2> DEFINE x == [r EXCEPT !.retry = @ + 1]
  <2>1. /\ x \in ClientType /\ x.pc = "dial" /\ x.handlers = r.handlers
        /\ x.running = r.running
    BY <1>1, <1>3, <1>7 DEF ClientType
  <2>2. Becomes(c, x)
    BY <1>7
  <2> HIDE DEF x
  <2>3. QED
    BY <1>1, <1>2, <1>7, <2>1, <2>2, QuietStep DEF Dial, Deaf, Attempting, Connected
<1>8. QED
  BY <1>4, <1>5, <1>6, <1>7 DEF Dial

LEMMA WelcomeSingle ==
    ASSUME WsInv, SingleInv, NEW c \in ClientIds, Welcome(c)
    PROVE  SingleInv'
<1> DEFINE r == client[c]
<1>1. r \in ClientType /\ ClientSingle(c) /\ r.pc = "welcome"
  BY SingleFacts DEF Welcome
<1>2. r # NewClient /\ r.pc \in Attempting
  BY <1>1 DEF NewClient, Attempting
<1>3. CASE Becomes(c, [r EXCEPT !.pc = "auth"]) /\ UNCHANGED layer
  <2> DEFINE x == [r EXCEPT !.pc = "auth"]
  <2>1. /\ x \in ClientType /\ x.pc = "auth" /\ x.handlers = r.handlers
        /\ x.running = r.running
    BY <1>1 DEF ClientType
  <2>2. Becomes(c, x)
    BY <1>3
  <2> HIDE DEF x
  <2>3. QED
    BY <1>1, <1>2, <1>3, <2>1, <2>2, QuietStep DEF Welcome, Deaf, Attempting, Connected
<1>4. CASE Raise(c, r)
  BY <1>1, <1>2, <1>4, RaiseSingle DEF Welcome
<1>5. CASE Raise(c, [r EXCEPT !.connected = FALSE])
  <2> DEFINE x == [r EXCEPT !.connected = FALSE]
  <2>1. x \in ClientType /\ x.handlers = r.handlers /\ x.running = r.running
    BY <1>1 DEF ClientType
  <2>2. Raise(c, x)
    BY <1>5
  <2> HIDE DEF x
  <2>3. QED
    BY <1>2, <2>1, <2>2, RaiseSingle DEF Welcome
<1>6. QED
  BY <1>3, <1>4, <1>5 DEF Welcome

\* What an error leaves of a client.
LEMMA AfterErrorFields ==
    ASSUME NEW r \in ClientType, NEW e \in AfterError(r)
    PROVE  /\ e \in ClientType /\ e.handlers = r.handlers /\ e.running = r.running
           /\ e.pc = r.pc /\ e.authed = r.authed /\ e.sock = r.sock
<1>1. PICK b \in {FALSE, r.connected} : e = [r EXCEPT !.connected = b]
  BY DEF AfterError
<1>2. b \in BOOLEAN
  BY <1>1 DEF ClientType
<1>3. QED
  BY <1>1, <1>2 DEF ClientType

\* The first authentication starts the subscriptions: no callback is
\* registered yet.
LEMMA AuthenticateSingle ==
    ASSUME WsInv, SingleInv, NEW c \in ClientIds, Authenticate(c)
    PROVE  SingleInv'
<1> DEFINE r == client[c]
<1>1. r \in ClientType /\ ClientSingle(c) /\ r.pc = "auth" /\ TypeOK
  BY SingleFacts DEF Authenticate
<1>2. r.pc \in Attempting /\ ~r.running /\ c = current /\ layer = "connect"
  BY <1>1 DEF ClientSingle, Attempting
<1>3. CASE Becomes(c, Authenticated(r)) /\ layer' = "subscribe"
  <2> DEFINE x == Authenticated(r)
  <2>1. x.pc = "recv" /\ x.authed /\ x.handlers = r.handlers
    BY <1>1, <1>2 DEF Authenticated, ClientType
  <2>2. client' = [client EXCEPT ![c] = x] /\ client \in [ClientIds -> ClientType]
    BY <1>1, <1>3 DEF Becomes, TypeOK
  <2> HIDE DEF x
  <2>3. UNCHANGED <<current, nextcall, delivered>>
    BY DEF Authenticate
  <2>4. \A d \in ClientIds : ClientSingle(d)'
    <3>1. TAKE d \in ClientIds
    <3>2. CASE d = c
      <4>1. client'[d] = x
        BY <2>2, <3>2
      <4>2. d = current /\ ~(d > current) /\ ~(d < current)
        BY <1>2, <3>2, SubsFacts DEF ClientIds
      <4>3. QED
        BY <1>1, <2>1, <2>3, <3>2, <4>1, <4>2 DEF ClientSingle, Attempting, Connected
    <3>3. CASE d # c
      <4>1. client'[d] = client[d]
        BY <2>2, <3>3
      <4>2. ClientSingle(d)
        BY DEF SingleInv
      <4>3. client[d].pc \notin Attempting
        BY <1>2, <3>3, <4>2 DEF ClientSingle
      <4>4. QED
        BY <2>3, <4>1, <4>2, <4>3 DEF ClientSingle
    <3>4. QED
      BY <3>2, <3>3
  <2>5. \A e \in Events : x.handlers[e] = 0
    BY <1>2, <2>1 DEF SingleInv, LayerSingle
  <2>6. LayerSingle'
    BY <1>2, <1>3, <2>1, <2>2, <2>3, <2>5, SubsFacts DEF LayerSingle, Connected
  <2>7. QED
    BY <2>3, <2>4, <2>6, NothingDelivered DEF SingleInv
<1>4. CASE Raise(c, r)
  BY <1>1, <1>2, <1>4, RaiseSingle DEF Authenticate
<1>5. CASE \E e \in AfterError(r) : Raise(c, e)
  BY <1>1, <1>2, <1>5, AfterErrorFields, RaiseSingle DEF Authenticate
<1>6. QED
  BY <1>2, <1>3, <1>4, <1>5 DEF Authenticate

LEMMA ReadSingle ==
    ASSUME WsInv, SingleInv, NEW c \in ClientIds, ReadMessage(c)
    PROVE  SingleInv'
<1> DEFINE r == client[c]
           x == [r EXCEPT !.attempt = 0]
<1>1. r \in ClientType /\ ClientSingle(c) /\ r.pc = "recv"
  BY SingleFacts DEF ReadMessage
<1>2. /\ x \in ClientType /\ x.pc = "recv" /\ x.handlers = r.handlers
      /\ x.running = r.running /\ x.authed = r.authed
      /\ x.sock = r.sock /\ x.connected = r.connected
  BY <1>1, Resets DEF ClientType
<1>3. Becomes(c, x) /\ r # NewClient
  BY <1>1 DEF ReadMessage, NewClient
<1> HIDE DEF x
<1>4. QED
  BY <1>1, <1>2, <1>3, QuietStep
     DEF ReadMessage, ClientSingle, Deaf, Sendable, Attempting, Connected

\* Without auto_reconnect the handler that fails to read ends for good.
LEMMA ReadErrorSingle ==
    ASSUME WsInv, SingleInv, ~AutoReconnect, NEW c \in ClientIds, ReadError(c)
    PROVE  SingleInv'
<1> DEFINE r == client[c]
<1>1. r \in ClientType /\ ClientSingle(c) /\ r.pc = "recv"
  BY SingleFacts DEF ReadError
<1>2. PICK e \in AfterError(r) : Becomes(c, AfterReadError(e))
  BY DEF ReadError
<1> DEFINE x == AfterReadError(e)
<1>3. e \in ClientType /\ e.handlers = r.handlers /\ e.running = r.running
  BY <1>1, <1>2, AfterErrorFields
<1>4. x \in ClientType /\ x.pc = "dead" /\ x.handlers = r.handlers /\ x.running = r.running
  BY <1>3 DEF AfterReadError, ClientType
<1>5. Becomes(c, x) /\ r # NewClient
  BY <1>1, <1>2 DEF NewClient
<1> HIDE DEF x
<1>6. QED
  BY <1>1, <1>4, <1>5, QuietStep DEF ReadError, Deaf, Attempting, Connected

LEMMA BadMessageSingle ==
    ASSUME WsInv, SingleInv, NEW c \in ClientIds, BadMessage(c)
    PROVE  SingleInv'
<1> DEFINE r == client[c]
           x == [r EXCEPT !.pc = "dead"]
<1>1. r \in ClientType /\ ClientSingle(c) /\ r.pc = "recv"
  BY SingleFacts DEF BadMessage
<1>2. x \in ClientType /\ x.pc = "dead" /\ x.handlers = r.handlers /\ x.running = r.running
  BY <1>1 DEF ClientType
<1>3. Becomes(c, x) /\ r # NewClient
  BY <1>1 DEF BadMessage, NewClient
<1> HIDE DEF x
<1>4. QED
  BY <1>1, <1>2, <1>3, QuietStep DEF BadMessage, Deaf, Attempting, Connected

LEMMA HeartbeatSingle ==
    ASSUME WsInv, SingleInv, NEW c \in ClientIds, HeartbeatEnds(c)
    PROVE  SingleInv'
<1> DEFINE r == client[c]
           x == [r EXCEPT !.heartbeat = "dead"]
<1>1. r \in ClientType /\ ClientSingle(c)
  BY SingleFacts
<1>2. /\ x \in ClientType /\ x.pc = r.pc /\ x.handlers = r.handlers
      /\ x.running = r.running /\ x.authed = r.authed
      /\ x.sock = r.sock /\ x.connected = r.connected
  BY <1>1 DEF ClientType
<1>3. Becomes(c, x) /\ r # NewClient
  BY DEF HeartbeatEnds, NewClient
<1>4. r.pc # "new"
  BY <1>1, <1>3 DEF ClientSingle
<1> HIDE DEF x
<1>5. QED
  BY <1>1, <1>2, <1>3, <1>4, QuietStep
     DEF HeartbeatEnds, ClientSingle, Deaf, Sendable, Attempting, Connected

\* A connection that is lost does not come back.
LEMMA DropSingle ==
    ASSUME WsInv, SingleInv, NEW c \in ClientIds, NEW normal \in BOOLEAN, Drop(c, normal)
    PROVE  SingleInv'
<1> DEFINE r == client[c]
           x == [r EXCEPT !.sock = "lost", !.normal = normal, !.granted = FALSE,
                          !.session = {}]
<1>1. r \in ClientType /\ ClientSingle(c)
  BY SingleFacts
<1>2. x \in ClientType
  BY <1>1, Resets DEF ClientType
<1>3. /\ x.pc = r.pc /\ x.handlers = r.handlers /\ x.sock = "lost"
      /\ x.running = r.running /\ x.authed = r.authed
  BY <1>1 DEF ClientType
<1>4. Becomes(c, x) /\ r # NewClient
  BY DEF Drop, NewClient
<1>5. r.pc # "new"
  BY <1>1, <1>4 DEF ClientSingle
<1> HIDE DEF x
<1>6. QED
  BY <1>1, <1>2, <1>3, <1>4, <1>5, QuietStep
     DEF Drop, ClientSingle, Deaf, Sendable, Attempting, Connected

\* A new client is created when the one before is deaf.
LEMMA StartClientSingle ==
    ASSUME WsInv, SingleInv, StartClient
    PROVE  SingleInv'
<1> DEFINE x == [NewClient EXCEPT !.pc = "dial"]
<1>1. /\ TypeOK /\ current \in Nat /\ current + 1 \in ClientIds
      /\ current' = current + 1 /\ layer' = "connect" /\ UNCHANGED delivered
      /\ layer = "start" /\ (current # 0 => current \in ClientIds)
  BY SubsFacts DEF StartClient, WsInv, ClientsInv, TypeOK, ClientIds
<1>2. /\ x.pc = "dial" /\ ~x.running /\ \A e \in Events : x.handlers[e] = 0
  BY DEF NewClient
<1>3. client' = [client EXCEPT ![current + 1] = x] /\ client \in [ClientIds -> ClientType]
  BY <1>1 DEF StartClient, TypeOK
<1> HIDE DEF x
<1>4. \A d \in ClientIds : ClientSingle(d)'
  <2>1. TAKE d \in ClientIds
  <2>2. d \in Nat
    BY DEF ClientIds
  <2>3. CASE d = current + 1
    <3>1. client'[d] = x
      BY <1>3, <2>3
    <3>2. d = current' /\ ~(d > current') /\ ~(d < current')
      BY <1>1, <2>3
    <3>3. QED
      BY <1>1, <1>2, <3>1, <3>2 DEF ClientSingle, Attempting, Connected
  <2>4. CASE d # current + 1
    <3>1. client'[d] = client[d]
      BY <1>3, <2>4
    <3>2. ClientSingle(d)
      BY DEF SingleInv
    <3>3. client[d].pc \notin Attempting
      BY <1>1, <3>2 DEF ClientSingle
    <3>4. d < current' => d < current \/ d = current
      BY <1>1, <2>2
    <3>5. d = current => Deaf(client[d])
      BY <1>1, <2>2 DEF SingleInv, LayerSingle, ClientIds
    <3>6. d > current' => d > current
      BY <1>1, <2>2
    <3>7. d < current' => Deaf(client[d])
      BY <3>2, <3>4, <3>5 DEF ClientSingle
    <3>8. QED
      BY <3>1, <3>2, <3>3, <3>6, <3>7 DEF ClientSingle, Deaf, Sendable
  <2>5. QED
    BY <2>3, <2>4
<1>5. client'[current'] = x
  BY <1>1, <1>3
<1>6. LayerSingle'
  BY <1>1, <1>2, <1>5 DEF LayerSingle
<1>7. QED
  BY <1>1, <1>4, <1>6, NothingDelivered DEF SingleInv

\* A subscribe call registers the first callback of its event.
LEMMA SubscribeCallSingle ==
    ASSUME WsInv, SingleInv, current \in ClientIds, SubscribeCall
    PROVE  SingleInv'
<1> DEFINE r == client[current]
           s == Subs[nextcall]
           y == Subscribed(r, Subscription(s))
           x == [y EXCEPT !.handlers[s.event] = @ + 1,
                          !.made = @ \cup {Subscription(s)}]
<1>1. r \in ClientType /\ ClientSingle(current) /\ TypeOK /\ layer = "subscribe"
  BY SingleFacts DEF SubscribeCall
<1>2. nextcall \in DOMAIN Subs /\ s.event \in Events /\ nextcall \in Nat
      /\ Len(Subs) \in Nat /\ DOMAIN Subs = 1..Len(Subs)
  BY <1>1, SubsFacts DEF TypeOK
<1>3. /\ r.pc \in Connected
      /\ DistinctEvents =>
            \A i \in DOMAIN Subs : i >= nextcall => r.handlers[Subs[i].event] = 0
  BY <1>1 DEF SingleInv, LayerSingle
<1>4. /\ y.pc = r.pc /\ y.handlers = r.handlers /\ y.authed = r.authed
      /\ DOMAIN y = DOMAIN r
  BY <1>1 DEF Subscribed, ClientType
<1> HIDE DEF y
<1>5. /\ x.pc = r.pc /\ x.authed = r.authed
      /\ x.handlers = [r.handlers EXCEPT ![s.event] = @ + 1]
  BY <1>1, <1>4 DEF ClientType
<1>6. r.handlers \in [Events -> Nat]
  BY <1>1 DEF ClientType
<1>7. Becomes(current, x) /\ UNCHANGED <<current, delivered>>
  BY DEF SubscribeCall, y
<1> HIDE DEF x
<1>8. client' = [client EXCEPT ![current] = x] /\ client \in [ClientIds -> ClientType]
  BY <1>1, <1>7 DEF Becomes, TypeOK
<1>9. ASSUME DistinctEvents
      PROVE  /\ \A e \in Events : x.handlers[e] <= 1
             /\ \A i \in DOMAIN Subs : i > nextcall => x.handlers[Subs[i].event] = 0
  <2>0. r.handlers[s.event] = 0
    BY <1>2, <1>3, <1>9
  <2>1. \A e \in Events : x.handlers[e] <= 1
    BY <1>1, <1>2, <1>5, <1>6, <1>9, <2>0 DEF ClientSingle
  <2>2. \A i \in DOMAIN Subs : i > nextcall =>
            Subs[i].event # s.event /\ r.handlers[Subs[i].event] = 0
    BY <1>2, <1>3, <1>9 DEF DistinctEvents
  <2>3. QED
    BY <1>2, <1>5, <1>6, <2>1, <2>2
<1>10. \A d \in ClientIds : ClientSingle(d)'
  <2>1. TAKE d \in ClientIds
  <2>2. CASE d = current
    <3>1. client'[d] = x
      BY <1>8, <2>2
    <3>2. ~(d > current) /\ ~(d < current)
      BY <2>2, SubsFacts DEF ClientIds
    <3>3. QED
      BY <1>1, <1>3, <1>5, <1>7, <1>9, <2>2, <3>1, <3>2
         DEF ClientSingle, Attempting, Connected
  <2>3. CASE d # current
    <3>1. client'[d] = client[d]
      BY <1>8, <2>3
    <3>2. ClientSingle(d)
      BY DEF SingleInv
    <3>3. client[d].pc \notin Attempting
      BY <1>1, <3>2 DEF ClientSingle
    <3>4. QED
      BY <1>7, <3>1, <3>2, <3>3 DEF ClientSingle
  <2>4. QED
    BY <2>2, <2>3
<1>11. client'[current'] = x
  BY <1>7, <1>8
<1>12. CASE layer' = "watch"
  BY <1>3, <1>5, <1>7, <1>10, <1>11, <1>12, NothingDelivered
     DEF SingleInv, LayerSingle, DistinctEvents
<1>13. CASE nextcall' = nextcall + 1 /\ layer' = "subscribe"
  <2>1. DistinctEvents =>
            \A i \in DOMAIN Subs : i >= nextcall' => x.handlers[Subs[i].event] = 0
    BY <1>2, <1>9, <1>13
  <2>2. QED
    BY <1>3, <1>5, <1>7, <1>10, <1>11, <1>13, <2>1, NothingDelivered
       DEF SingleInv, LayerSingle, DistinctEvents
<1>14. QED
  BY <1>1, <1>12, <1>13 DEF SubscribeCall

\* The call raises on a client that is deaf: it is authenticated as long as it
\* reads, so it is the socket that failed.
LEMMA SubscribeRaisesSingle ==
    ASSUME WsInv, SingleInv, current \in ClientIds, SubscribeRaises
    PROVE  SingleInv'
<1>1. /\ layer = "subscribe" /\ layer' = "wait"
      /\ UNCHANGED <<client, current, nextcall, delivered>>
  BY DEF SubscribeRaises
<1>2. Deaf(client[current])
  <2>1. ClientSingle(current) /\ client[current].pc \in Connected
    BY <1>1 DEF SingleInv, LayerSingle
  <2>2. QED
    BY <2>1 DEF SubscribeRaises, ClientSingle, Deaf, Connected
<1>3. \A d \in ClientIds : ClientSingle(d)'
  BY <1>1 DEF SingleInv, ClientSingle, DistinctEvents
<1>4. QED
  BY <1>1, <1>2, <1>3, NothingDelivered DEF SingleInv, LayerSingle

\* The watch ends the client before it lets another one be created.
LEMMA ReplaceClientSingle ==
    ASSUME WsInv, SingleInv, current \in ClientIds, ReplaceClient
    PROVE  SingleInv'
<1> DEFINE r == client[current]
           x == [r EXCEPT !.pc = "dead", !.running = FALSE,
                   !.sock = "none", !.connected = FALSE, !.authed = FALSE,
                   !.heartbeat = "off", !.granted = FALSE, !.session = {}]
<1>1. /\ r \in ClientType /\ ClientSingle(current) /\ TypeOK
      /\ layer = "watch" /\ layer' = "start"
      /\ UNCHANGED <<current, nextcall, delivered>>
  BY SingleFacts DEF ReplaceClient, Disconnected
<1>2. x.pc = "dead" /\ x.handlers = r.handlers
  BY <1>1 DEF ClientType
<1>3. client' = [client EXCEPT ![current] = x] /\ client \in [ClientIds -> ClientType]
  BY <1>1 DEF ReplaceClient, Disconnected, Becomes, TypeOK
<1> HIDE DEF x
<1>4. \A d \in ClientIds : ClientSingle(d)'
  <2>1. TAKE d \in ClientIds
  <2>2. CASE d = current
    <3>1. client'[d] = x
      BY <1>3, <2>2
    <3>2. ~(d > current)
      BY <2>2, SubsFacts DEF ClientIds
    <3>3. QED
      BY <1>1, <1>2, <2>2, <3>1, <3>2 DEF ClientSingle, Attempting, Connected, Deaf
  <2>3. CASE d # current
    <3>1. client'[d] = client[d]
      BY <1>3, <2>3
    <3>2. ClientSingle(d)
      BY DEF SingleInv
    <3>3. client[d].pc \notin Attempting
      BY <1>1, <3>2 DEF ClientSingle
    <3>4. QED
      BY <1>1, <3>1, <3>2, <3>3 DEF ClientSingle
  <2>4. QED
    BY <2>2, <2>3
<1>5. client'[current'] = x
  BY <1>1, <1>3
<1>6. QED
  BY <1>1, <1>2, <1>4, <1>5, NothingDelivered DEF SingleInv, LayerSingle, Deaf

\* The callbacks of an event: all are of the current client, and, if no two
\* subscriptions share the event, of its first registration.
LEMMA PublishSingle ==
    ASSUME WsInv, SingleInv, NEW s \in Calls, Publish(s)
    PROVE  SingleInv'
<1>1. /\ delivered' = Callbacks(s)
      /\ UNCHANGED <<client, current, layer, nextcall>>
  BY DEF Publish
<1>2. ASSUME NEW p \in Callbacks(s)
      PROVE  p[1] = current /\ (DistinctEvents => p = <<current, 1>>)
  <2>1. /\ p[1] \in ClientIds /\ p[2] \in 1..Len(Subs) /\ p = <<p[1], p[2]>>
        /\ client[p[1]].pc = "recv" /\ Sendable(client[p[1]])
        /\ p[2] <= client[p[1]].handlers[s.event]
    BY DEF Callbacks
  <2>2. ClientSingle(p[1]) /\ p[1] \in Nat /\ current \in Nat
    BY <2>1, SingleFacts
  <2>3. p[1] = current
    BY <2>1, <2>2 DEF ClientSingle, Deaf, NewClient
  <2>4. s.event \in Events
    BY DEF Events
  <2>5. client[p[1]].handlers[s.event] \in Nat
    BY <2>1, <2>4, SingleFacts DEF ClientType
  <2>6. DistinctEvents => client[p[1]].handlers[s.event] <= 1
    BY <2>2, <2>4 DEF ClientSingle
  <2>7. DistinctEvents => p[2] = 1
    BY <2>1, <2>5, <2>6, SubsFacts
  <2>8. QED
    BY <2>1, <2>3, <2>7
<1>3. OneClientDelivers'
  BY <1>1, <1>2 DEF OneClientDelivers
<1>4. DistinctEvents => HandledOnce'
  <2>1. SUFFICES ASSUME DistinctEvents PROVE HandledOnce'
    OBVIOUS
  <2>2. Callbacks(s) \subseteq {<<current, 1>>}
    BY <1>2, <2>1
  <2>3. IsFiniteSet({<<current, 1>>}) /\ Cardinality({<<current, 1>>}) = 1
    BY FS_Singleton
  <2>4. Cardinality(Callbacks(s)) <= 1
    BY <2>2, <2>3, FS_Subset
  <2>5. QED
    BY <1>1, <2>4 DEF HandledOnce
<1>5. (\A d \in ClientIds : ClientSingle(d)') /\ LayerSingle'
  BY <1>1 DEF SingleInv, ClientSingle, LayerSingle, DistinctEvents
<1>6. QED
  BY <1>3, <1>4, <1>5 DEF SingleInv, DeliveredOnce, DistinctEvents

LEMMA SingleInit == Init => SingleInv
<1> SUFFICES ASSUME Init PROVE SingleInv
  OBVIOUS
<1>1. \A c \in ClientIds : client[c] = NewClient /\ ~(c < current)
  BY SubsFacts DEF Init, ClientIds
<1>2. NewClient.pc = "new" /\ \A e \in Events : NewClient.handlers[e] = 0
  BY DEF NewClient
<1>3. \A c \in ClientIds : ClientSingle(c)
  BY <1>1, <1>2 DEF ClientSingle, Attempting
<1>4. QED
  <2>1. current = 0 /\ layer = "start" /\ delivered = {}
    BY DEF Init
  <2>2. OneClientDelivers /\ HandledOnce
    BY <2>1, FS_EmptySet DEF OneClientDelivers, HandledOnce
  <2>3. QED
    BY <1>3, <2>1, <2>2 DEF SingleInv, LayerSingle, DeliveredOnce

LEMMA SingleStep ==
    ASSUME ~AutoReconnect, WsInv, SingleInv, [Next]_vars
    PROVE  SingleInv'
<1>1. CASE ClientStep
  <2>1. PICK c \in ClientIds :
          Connecting(c) \/ Handling(c) \/ HeartbeatEnds(c) \/ Network(c)
    BY <1>1 DEF ClientStep
  <2>2. client[c].pc \notin {"resub", "backoff"}
    BY DEF SingleInv, ClientSingle, Attempting, Connected
  <2>3. /\ ~Resubscribed(c) /\ ~Reconnect(c)
        /\ \A ch \in Channels : ~Resubscribe(c, ch)
    BY <2>2 DEF Resubscribed, Reconnect, Resubscribe
  <2>4. CASE Dial(c) \/ Welcome(c) \/ Authenticate(c)
    BY <2>4, DialSingle, WelcomeSingle, AuthenticateSingle
  <2>5. CASE ReadError(c)
    BY <2>5, ReadErrorSingle
  <2>6. CASE HeartbeatEnds(c)
    BY <2>6, HeartbeatSingle
  <2>7. CASE \E normal \in BOOLEAN : Drop(c, normal)
    BY <2>7, DropSingle
  <2>8. CASE ReadMessage(c) \/ BadMessage(c)
    BY <2>8, ReadSingle, BadMessageSingle
  <2>9. QED
    BY <2>1, <2>3, <2>4, <2>5, <2>6, <2>7, <2>8 DEF Connecting, Handling, Network
<1>2. current # 0 => current \in ClientIds
  BY SubsFacts DEF WsInv, ClientsInv, TypeOK, ClientIds
<1>3. layer # "start" => current \in ClientIds
  BY <1>2 DEF WsInv, NoneYet
<1>4. CASE StartClient
  BY <1>4, StartClientSingle
<1>5. CASE SubscribeCall
  BY <1>3, <1>5, SubscribeCallSingle DEF SubscribeCall
<1>6. CASE SubscribeRaises
  BY <1>3, <1>6, SubscribeRaisesSingle DEF SubscribeRaises
<1>7. CASE ReplaceClient
  BY <1>3, <1>7, ReplaceClientSingle DEF ReplaceClient, Disconnected
<1>8. CASE WaitedFiveSeconds
  BY <1>8, NothingDelivered
     DEF WaitedFiveSeconds, SingleInv, ClientSingle, LayerSingle
<1>9. CASE \E s \in Calls : Publish(s)
  BY <1>9, PublishSingle
<1>10. CASE UNCHANGED vars
  BY <1>10, NothingDelivered DEF vars, SingleInv, ClientSingle, LayerSingle
<1>11. QED
  BY <1>1, <1>4, <1>5, <1>6, <1>7, <1>8, <1>9, <1>10
     DEF Next, SpeedLayer, ClientStep

LEMMA SingleAlways ==
    ASSUME ~AutoReconnect
    PROVE  Spec => []SingleInv
<1>1. WsInv /\ SingleInv /\ [Next]_vars => SingleInv'
  BY SingleStep
<1>2. QED
  BY <1>1, SingleInit, WsAlways, PTL DEF Spec

\* However often connections are lost, refused or replaced, never two clients
\* of producer.py call back for the same event (producer.py:546-569, the watch
\* of ws_speed_layer).
THEOREM OneClientDeliversCorrect ==
    ASSUME ~AutoReconnect
    PROVE  Spec => []OneClientDelivers
<1>1. SingleInv => OneClientDelivers
  BY DEF SingleInv, DeliveredOnce
<1>2. QED
  BY <1>1, SingleAlways, PTL

\* If, moreover, each subscription has an event of its own, no event is handled
\* twice.  (The subscriptions of producer.py have not: its boards share their events.)
THEOREM HandledOnceCorrect ==
    ASSUME ~AutoReconnect, DistinctEvents
    PROVE  Spec => []HandledOnce
<1>1. SingleInv => HandledOnce
  BY DEF SingleInv, DeliveredOnce
<1>2. QED
  BY <1>1, SingleAlways, PTL

-----------------------------------------------------------------------------
(* Subscriptions are restored *)

\* Each channel is subscribed in one call, or in calls of the same symbols: the
\* stored subscription of a channel is then all of it.
OneChunk == \A s, t \in Calls : s.channel = t.channel => s.chunk = t.chunk

\* Whatever a client was asked for is stored; a reconnection that is under way
\* has it left to renew, or has renewed it; a client that reads has it.
Restored(r) ==
    /\ r.sock = "open" => r.connected
    /\ (r.authed /\ r.pc # "dead") => r.running
    /\ (~r.running /\ r.pc # "dead") => r.made = {}
    /\ \A s \in r.made :
          /\ r.subs[s.channel] = s.chunk
          /\ r.pc \in Attempting => r.todo[s.channel] = s.chunk
          /\ (r.pc = "resub" /\ r.sock = "open")
                => s \in r.session \/ r.todo[s.channel] = s.chunk
          /\ (r.pc = "recv" /\ r.authed /\ r.sock = "open") => s \in r.session

RestoredInv == \A c \in ClientIds : Restored(client[c])

LEMMA BecomesRestored ==
    ASSUME TypeOK, RestoredInv, NEW c \in ClientIds, NEW x, Becomes(c, x), Restored(x)
    PROVE  RestoredInv'
BY DEF TypeOK, RestoredInv, Becomes

\* A client that gives up connecting, or renewing on a lost connection.
LEMMA RaiseRestored ==
    ASSUME TypeOK, RestoredInv, NEW c \in ClientIds, NEW r \in ClientType, Restored(r),
           r.pc \in Attempting \/ (r.pc = "resub" /\ r.sock # "open"),
           r.pc \in Attempting => ~r.authed,
           Raise(c, r)
    PROVE  RestoredInv'
<1>1. CASE r.running
  <2> DEFINE x == [r EXCEPT !.pc = "recv"]
  <2>1. Becomes(c, x)
    BY <1>1 DEF Raise
  <2>2. /\ x.pc = "recv" /\ x.sock = r.sock /\ x.connected = r.connected
        /\ x.authed = r.authed /\ x.running = r.running /\ x.made = r.made
        /\ x.subs = r.subs
    BY DEF ClientType
  <2> HIDE DEF x
  <2>3. Restored(x)
    BY <1>1, <2>2 DEF Restored, Attempting
  <2>4. QED
    BY <2>1, <2>3, BecomesRestored
<1>2. CASE ~r.running
  <2> DEFINE x == [r EXCEPT !.pc = "dead"]
  <2>1. Becomes(c, x)
    BY <1>2 DEF Raise
  <2>2. /\ x.pc = "dead" /\ x.sock = r.sock /\ x.connected = r.connected
        /\ x.made = r.made /\ x.subs = r.subs
    BY DEF ClientType
  <2> HIDE DEF x
  <2>3. Restored(x)
    BY <2>2 DEF Restored, Attempting
  <2>4. QED
    BY <2>1, <2>3, BecomesRestored
<1>3. QED
  BY <1>1, <1>2

\* A failed send or receive is one on a connection that is gone.
LEMMA AfterErrorRestored ==
    ASSUME NEW r \in ClientType, Restored(r), ~Sendable(r), NEW e \in AfterError(r)
    PROVE  /\ e \in ClientType /\ Restored(e) /\ e.sock # "open"
           /\ e.pc = r.pc /\ e.authed = r.authed /\ e.running = r.running
           /\ e.made = r.made /\ e.subs = r.subs
<1>1. PICK b \in BOOLEAN : e = [r EXCEPT !.connected = b]
  BY DEF AfterError, ClientType
<1>2. /\ e \in ClientType /\ e.pc = r.pc /\ e.sock = r.sock /\ e.authed = r.authed
      /\ e.running = r.running /\ e.made = r.made /\ e.subs = r.subs
      /\ e.todo = r.todo /\ e.session = r.session
  BY <1>1 DEF ClientType
<1>3. r.sock # "open"
  BY DEF Sendable, Restored
<1>4. QED
  BY <1>2, <1>3 DEF Restored

LEMMA ClientFacts ==
    ASSUME WsInv, RestoredInv, NEW c \in ClientIds
    PROVE  /\ TypeOK /\ client[c] \in ClientType /\ ClientInv(client[c])
           /\ Restored(client[c])
BY DEF WsInv, ClientsInv, TypeOK, RestoredInv

LEMMA DialRestored ==
    ASSUME WsInv, RestoredInv, NEW c \in ClientIds, Dial(c)
    PROVE  RestoredInv'
<1> DEFINE r == client[c]
<1>1. /\ TypeOK /\ r \in ClientType /\ Restored(r) /\ r.pc = "dial" /\ ~r.authed
  BY ClientFacts DEF Dial, ClientInv
<1>2. CASE Becomes(c, [r EXCEPT !.pc = "welcome"])
  <2> DEFINE x == [r EXCEPT !.pc = "welcome"]
  <2>1. /\ x.pc = "welcome" /\ x.sock = r.sock /\ x.connected = r.connected
        /\ x.authed = r.authed /\ x.running = r.running /\ x.made = r.made
        /\ x.subs = r.subs /\ x.todo = r.todo
    BY <1>1 DEF ClientType
  <2> HIDE DEF x
  <2>2. Restored(x)
    BY <1>1, <2>1 DEF Restored, Attempting
  <2>3. Becomes(c, x)
    BY <1>2 DEF x
  <2>4. QED
    BY <1>1, <2>2, <2>3, BecomesRestored
<1>3. CASE Becomes(c, [r EXCEPT !.sock = "open", !.connected = TRUE,
                 !.retry = 0, !.normal = FALSE, !.granted = FALSE,
                 !.session = {}, !.pc = "welcome"])
  <2> DEFINE x == [r EXCEPT !.sock = "open", !.connected = TRUE,
                 !.retry = 0, !.normal = FALSE, !.granted = FALSE,
                 !.session = {}, !.pc = "welcome"]
  <2>1. /\ x.pc = "welcome" /\ x.sock = "open" /\ x.connected
        /\ x.authed = r.authed /\ x.running = r.running /\ x.made = r.made
        /\ x.subs = r.subs /\ x.todo = r.todo
    BY <1>1 DEF ClientType
  <2> HIDE DEF x
  <2>2. Restored(x)
    BY <1>1, <2>1 DEF Restored, Attempting
  <2>3. Becomes(c, x)
    BY <1>3 DEF x
  <2>4. QED
    BY <1>1, <2>2, <2>3, BecomesRestored
<1>4. CASE /\ r.retry < MaxRetries
           /\ IF r.retry + 1 >= MaxRetries
              THEN Raise(c, [r EXCEPT !.retry = @ + 1])
              ELSE Becomes(c, [r EXCEPT !.retry = @ + 1])
  <2> DEFINE x == [r EXCEPT !.retry = @ + 1]
  <2>1. r.retry + 1 \in 0..MaxRetries
    BY <1>1, <1>4, SubsFacts DEF ClientType
  <2>2. /\ x \in ClientType
        /\ x.pc = "dial" /\ x.sock = r.sock /\ x.connected = r.connected
        /\ x.authed = r.authed /\ x.running = r.running /\ x.made = r.made
        /\ x.subs = r.subs /\ x.todo = r.todo
    BY <1>1, <2>1 DEF ClientType
  <2>3. Raise(c, x) \/ Becomes(c, x)
    BY <1>4
  <2> HIDE DEF x
  <2>4. Restored(x) /\ x.pc \in Attempting
    BY <1>1, <2>2 DEF Restored, Attempting
  <2>5. QED
    BY <1>1, <2>2, <2>3, <2>4, BecomesRestored, RaiseRestored
<1>5. QED
  BY <1>2, <1>3, <1>4 DEF Dial

LEMMA WelcomeRestored ==
    ASSUME WsInv, RestoredInv, NEW c \in ClientIds, Welcome(c)
    PROVE  RestoredInv'
<1> DEFINE r == client[c]
           x == [r EXCEPT !.pc = "auth"]
           y == [r EXCEPT !.connected = FALSE]
<1>1. /\ TypeOK /\ r \in ClientType /\ Restored(r) /\ r.pc = "welcome" /\ ~r.authed
  BY ClientFacts DEF Welcome, ClientInv
<1>2. Becomes(c, x) \/ Raise(c, r) \/ (~Sendable(r) /\ Raise(c, y))
  BY DEF Welcome
<1>3. /\ x.pc = "auth" /\ x.sock = r.sock /\ x.connected = r.connected
      /\ x.authed = r.authed /\ x.running = r.running /\ x.made = r.made
      /\ x.subs = r.subs /\ x.todo = r.todo
  BY <1>1 DEF ClientType
<1>4. /\ y \in ClientType /\ y.pc = "welcome" /\ y.sock = r.sock
      /\ y.authed = r.authed /\ y.running = r.running /\ y.made = r.made
      /\ y.subs = r.subs /\ y.todo = r.todo
  BY <1>1 DEF ClientType
<1> HIDE DEF x, y
<1>5. Restored(x)
  BY <1>1, <1>3 DEF Restored, Attempting
<1>6. ~Sendable(r) => Restored(y)
  BY <1>1, <1>4 DEF Restored, Attempting, Sendable
<1>7. CASE Becomes(c, x)
  BY <1>1, <1>5, <1>7, BecomesRestored
<1>8. CASE Raise(c, r)
  BY <1>1, <1>8, RaiseRestored DEF Attempting
<1>9. CASE ~Sendable(r) /\ Raise(c, y)
  BY <1>1, <1>4, <1>6, <1>9, RaiseRestored DEF Attempting
<1>10. QED
  BY <1>2, <1>7, <1>8, <1>9

LEMMA AuthenticateRestored ==
    ASSUME WsInv, RestoredInv, NEW c \in ClientIds, Authenticate(c)
    PROVE  RestoredInv'
<1> DEFINE r == client[c]
           x == Authenticated(r)
<1>1. /\ TypeOK /\ r \in ClientType /\ Restored(r) /\ r.pc = "auth" /\ ~r.authed
  BY ClientFacts DEF Authenticate, ClientInv
<1>2. Becomes(c, x) \/ Raise(c, r) \/ (~Sendable(r) /\ \E e \in AfterError(r) : Raise(c, e))
  BY DEF Authenticate
<1>3. /\ x.pc = (IF r.running THEN "resub" ELSE "recv")
      /\ x.sock = r.sock /\ x.connected = r.connected
      /\ x.running /\ x.made = r.made
      /\ x.subs = r.subs /\ x.todo = r.todo
  BY <1>1 DEF ClientType, Authenticated
<1> HIDE DEF x
<1>4. Restored(x)
  BY <1>1, <1>3 DEF Restored, Attempting
<1>5. CASE Becomes(c, x)
  BY <1>1, <1>4, <1>5, BecomesRestored
<1>6. CASE Raise(c, r)
  BY <1>1, <1>6, RaiseRestored DEF Attempting
<1>7. ASSUME ~Sendable(r), NEW e \in AfterError(r), Raise(c, e)
      PROVE  RestoredInv'
  BY <1>1, <1>7, AfterErrorRestored, RaiseRestored DEF Attempting
<1>8. QED
  BY <1>2, <1>5, <1>6, <1>7

\* Two subscriptions of a channel are the same, if it has one chunk.
LEMMA SameChunk ==
    ASSUME OneChunk, NEW s \in Subscriptions, NEW t \in Subscriptions,
           s.channel = t.channel
    PROVE  s = t /\ s.chunk = t.chunk /\ s = [channel |-> s.channel, chunk |-> s.chunk]
<1>1. PICK x \in Calls, y \in Calls : s = Subscription(x) /\ t = Subscription(y)
  BY DEF Subscriptions
<1>2. x.channel = y.channel
  BY <1>1 DEF Subscription
<1>3. x.chunk = y.chunk
  BY <1>2 DEF OneChunk
<1>4. QED
  BY <1>1, <1>2, <1>3 DEF Subscription

\* A subscription more on the session, as SubscribeCall and Resubscribe have it.
LEMMA AddRestored ==
    ASSUME OneChunk, NEW r \in ClientType, Restored(r), Sendable(r),
           NEW s \in Subscriptions, NEW x,
           r.pc \in Attempting => r.made = {} /\ x.made = {},
           x.sock = r.sock, x.connected = r.connected, x.authed = r.authed,
           x.running = r.running, x.pc = r.pc,
           x.session = r.session \cup {s},
           x.subs = [r.subs EXCEPT ![s.channel] = s.chunk],
           x.made \in {r.made, r.made \cup {s}},
           r.running \/ r.pc = "dead" \/ x.made = {},
           \A t \in r.made : (r.pc = "resub" /\ t.channel # s.channel)
                                 => x.todo[t.channel] = r.todo[t.channel]
    PROVE  Restored(x)
<1>1. r.subs \in [Channels -> Chunks \cup {None}] /\ r.made \subseteq Subscriptions
  BY DEF ClientType
<1>2. s.channel \in Channels
  BY DEF Subscriptions, Subscription, Channels
<1>3. SUFFICES ASSUME NEW t \in x.made
               PROVE  /\ x.subs[t.channel] = t.chunk
                      /\ x.pc \in Attempting => x.todo[t.channel] = t.chunk
                      /\ (x.pc = "resub" /\ x.sock = "open")
                            => t \in x.session \/ x.todo[t.channel] = t.chunk
                      /\ (x.pc = "recv" /\ x.authed /\ x.sock = "open") => t \in x.session
  BY DEF Restored
<1>4. t \in Subscriptions /\ (t = s \/ t \in r.made)
  BY <1>1
<1>5. CASE t.channel = s.channel
  <2>1. t = s /\ t.chunk = s.chunk
    BY <1>4, <1>5, SameChunk
  <2>2. QED
    BY <1>1, <1>2, <2>1
<1>6. CASE t.channel # s.channel
  <2>1. t \in r.made
    BY <1>4, <1>6
  <2>2. x.subs[t.channel] = r.subs[t.channel]
    BY <1>1, <1>6
  <2>3. QED
    BY <1>6, <2>1, <2>2 DEF Restored
<1>7. QED
  BY <1>5, <1>6

LEMMA ResubscribeRestored ==
    ASSUME OneChunk, WsInv, RestoredInv, NEW c \in ClientIds, NEW ch \in Channels,
           Resubscribe(c, ch)
    PROVE  RestoredInv'
<1> DEFINE r == client[c]
           s == [channel |-> ch, chunk |-> r.todo[ch]]
           x == [Subscribed(r, s) EXCEPT !.todo[ch] = None]
<1>1. /\ TypeOK /\ r \in ClientType /\ ClientInv(r) /\ Restored(r) /\ r.pc = "resub"
      /\ r.authed /\ r.running
  BY ClientFacts DEF Resubscribe, ClientInv, Restored
<1>2. s \in Subscriptions
  BY <1>1 DEF Resubscribe, ClientInv
<1>3. CASE Sendable(r) /\ Becomes(c, x)
  <2>1. x = [r EXCEPT !.session = r.session \cup {s},
                     !.subs = [r.subs EXCEPT ![ch] = r.todo[ch]],
                     !.todo = [r.todo EXCEPT ![ch] = None]]
    BY <1>1 DEF Subscribed, ClientType
  <2>2. /\ x.pc = r.pc /\ x.sock = r.sock /\ x.connected = r.connected
        /\ x.authed = r.authed /\ x.running = r.running /\ x.made = r.made
        /\ x.session = r.session \cup {s}
        /\ x.subs = [r.subs EXCEPT ![ch] = r.todo[ch]]
        /\ x.todo = [r.todo EXCEPT ![ch] = None]
    BY <1>1, <2>1 DEF ClientType
  <2>3. r.todo \in [Channels -> Chunks \cup {None}] /\ s.channel = ch /\ s.chunk = r.todo[ch]
    BY <1>1 DEF ClientType
  <2>4. Becomes(c, x) /\ Sendable(r)
    BY <1>3
  <2> HIDE DEF x
  <2>5. x.subs = [r.subs EXCEPT ![s.channel] = s.chunk]
    BY <2>2, <2>3
  <2>6. \A t \in r.made : (r.pc = "resub" /\ t.channel # s.channel)
                               => x.todo[t.channel] = r.todo[t.channel]
    BY <2>2, <2>3
  <2>7. Restored(x)
    <3>1. r.pc \in Attempting => r.made = {} /\ x.made = {}
      BY <1>1 DEF Attempting
    <3>2. r.running \/ r.pc = "dead" \/ x.made = {}
      BY <1>1
    <3>3. x.made \in {r.made, r.made \cup {s}}
      BY <2>2
    <3>4. r \in ClientType /\ Restored(r) /\ Sendable(r) /\ OneChunk
      BY <1>1, <2>4
    <3> HIDE DEF s, r
    <3>5. QED
      BY <1>2, <2>2, <2>5, <2>6, <3>1, <3>2, <3>3, <3>4, AddRestored
  <2>8. QED
    BY <1>1, <2>4, <2>7, BecomesRestored
<1>4. ASSUME ~Sendable(r), NEW e \in AfterError(r), Raise(c, e)
      PROVE  RestoredInv'
  BY <1>1, <1>4, AfterErrorRestored, RaiseRestored DEF Attempting
<1>5. QED
  BY <1>3, <1>4 DEF Resubscribe

LEMMA ResubscribedRestored ==
    ASSUME WsInv, RestoredInv, NEW c \in ClientIds, Resubscribed(c)
    PROVE  RestoredInv'
<1> DEFINE r == client[c]
           x == [r EXCEPT !.attempt = 0, !.pc = "recv"]
<1>1. /\ TypeOK /\ r \in ClientType /\ Restored(r) /\ r.pc = "resub" /\ r.todo = NoChunks
      /\ r.authed
  BY ClientFacts DEF Resubscribed, ClientInv
<1>2. /\ x.pc = "recv" /\ x.sock = r.sock /\ x.connected = r.connected
      /\ x.authed = r.authed /\ x.running = r.running /\ x.made = r.made
      /\ x.subs = r.subs /\ x.session = r.session
  BY <1>1 DEF ClientType
<1>3. Becomes(c, x)
  BY DEF Resubscribed
<1> HIDE DEF x
<1>4. \A s \in Subscriptions : NoChunks[s.channel] # s.chunk
  BY WsClientAssumption DEF Subscriptions, Subscription, NoChunks, Channels, Chunks
<1>5. r.made \subseteq Subscriptions
  BY <1>1 DEF ClientType
<1>6. Restored(x)
  BY <1>1, <1>2, <1>4, <1>5 DEF Restored, Attempting
<1>7. QED
  BY <1>1, <1>3, <1>6, BecomesRestored

LEMMA ReadErrorRestored ==
    ASSUME WsInv, RestoredInv, NEW c \in ClientIds, ReadError(c)
    PROVE  RestoredInv'
<1> DEFINE r == client[c]
<1>1. TypeOK /\ r \in ClientType /\ Restored(r) /\ r.pc = "recv" /\ ~Sendable(r)
  BY ClientFacts DEF ReadError
<1>2. PICK e \in AfterError(r) : Becomes(c, AfterReadError(e))
  BY DEF ReadError
<1>3. e \in ClientType /\ Restored(e) /\ e.pc = "recv"
  BY <1>1, AfterErrorRestored
<1> DEFINE x == AfterReadError(e)
<1>4. /\ x.pc \in {"dead", "backoff"} /\ x.sock = e.sock /\ x.connected = e.connected
      /\ x.authed = e.authed /\ x.running = e.running /\ x.made = e.made
      /\ x.subs = e.subs
  BY <1>3 DEF ClientType, AfterReadError
<1>5. Becomes(c, x)
  BY <1>2
<1> HIDE DEF x
<1>6. Restored(x)
  BY <1>3, <1>4 DEF Restored, Attempting
<1>7. QED
  BY <1>1, <1>5, <1>6, BecomesRestored

LEMMA ReconnectRestored ==
    ASSUME WsInv, RestoredInv, NEW c \in ClientIds, Reconnect(c)
    PROVE  RestoredInv'
<1> DEFINE r == client[c]
           x == [r EXCEPT !.todo = r.subs, !.authed = FALSE, !.pc = "dial"]
<1>1. TypeOK /\ r \in ClientType /\ Restored(r) /\ r.pc = "backoff"
  BY ClientFacts DEF Reconnect
<1>2. /\ x.pc = "dial" /\ x.sock = r.sock /\ x.connected = r.connected
      /\ ~x.authed /\ x.running = r.running /\ x.made = r.made
      /\ x.subs = r.subs /\ x.todo = r.subs
  BY <1>1 DEF ClientType
<1>3. Becomes(c, x)
  BY DEF Reconnect
<1> HIDE DEF x
<1>4. Restored(x)
  BY <1>1, <1>2 DEF Restored, Attempting
<1>5. QED
  BY <1>1, <1>3, <1>4, BecomesRestored

\* Messages, the heartbeat and the network.
LEMMA NetworkRestored ==
    ASSUME WsInv, RestoredInv, NEW c \in ClientIds, Network(c) \/ HeartbeatEnds(c)
    PROVE  RestoredInv'
<1> DEFINE r == client[c]
<1>1. TypeOK /\ r \in ClientType /\ Restored(r)
  BY ClientFacts
<1>2. CASE ReadMessage(c)
  <2> DEFINE x == [r EXCEPT !.attempt = 0]
  <2>1. \A f \in DOMAIN r \ {"attempt"} : x[f] = r[f]
    OBVIOUS
  <2>2. Restored(x)
    BY <1>1 DEF Restored, ClientType
  <2>3. Becomes(c, x)
    BY <1>2 DEF ReadMessage
  <2> HIDE DEF x
  <2>4. QED
    BY <1>1, <2>2, <2>3, BecomesRestored
<1>3. CASE BadMessage(c)
  <2> DEFINE x == [r EXCEPT !.pc = "dead"]
  <2>1. Restored(x)
    BY <1>1 DEF Restored, ClientType, Attempting
  <2>2. Becomes(c, x)
    BY <1>3 DEF BadMessage
  <2> HIDE DEF x
  <2>3. QED
    BY <1>1, <2>1, <2>2, BecomesRestored
<1>4. CASE HeartbeatEnds(c)
  <2> DEFINE x == [r EXCEPT !.heartbeat = "dead"]
  <2>1. Restored(x)
    BY <1>1 DEF Restored, ClientType
  <2>2. Becomes(c, x)
    BY <1>4 DEF HeartbeatEnds
  <2> HIDE DEF x
  <2>3. QED
    BY <1>1, <2>1, <2>2, BecomesRestored
<1>5. ASSUME NEW normal \in BOOLEAN, Drop(c, normal)
      PROVE  RestoredInv'
  <2> DEFINE x == [r EXCEPT !.sock = "lost", !.normal = normal,
                            !.granted = FALSE, !.session = {}]
  <2>1. /\ x.pc = r.pc /\ x.sock = "lost" /\ x.connected = r.connected
        /\ x.authed = r.authed /\ x.running = r.running /\ x.made = r.made
        /\ x.subs = r.subs /\ x.todo = r.todo
    BY <1>1 DEF ClientType
  <2>2. Becomes(c, x)
    BY <1>5 DEF Drop
  <2> HIDE DEF x
  <2>3. Restored(x)
    BY <1>1, <2>1 DEF Restored
  <2>4. QED
    BY <1>1, <2>2, <2>3, BecomesRestored
<1>6. QED
  BY <1>2, <1>3, <1>4, <1>5 DEF Network

LEMMA StartClientRestored ==
    ASSUME WsInv, RestoredInv, StartClient
    PROVE  RestoredInv'
<1> DEFINE x == [NewClient EXCEPT !.pc = "dial"]
<1>1. current + 1 \in ClientIds /\ TypeOK
  BY SubsFacts DEF StartClient, WsInv, ClientsInv, TypeOK, ClientIds
<1>2. Restored(x)
  BY DEF Restored, NewClient
<1>3. Becomes(current + 1, x)
  BY DEF StartClient, Becomes
<1> HIDE DEF x
<1>4. QED
  BY <1>1, <1>2, <1>3, BecomesRestored

LEMMA SubscribeCallRestored ==
    ASSUME OneChunk, WsInv, RestoredInv, current \in ClientIds, SubscribeCall
    PROVE  RestoredInv'
<1> DEFINE r == client[current]
           call == Subs[nextcall]
           s == Subscription(call)
           y == [r EXCEPT !.session = r.session \cup {s},
                          !.subs = [r.subs EXCEPT ![s.channel] = s.chunk]]
           x == [Subscribed(r, s) EXCEPT
                    !.handlers[call.event] = @ + 1, !.made = @ \cup {s}]
<1>1. /\ TypeOK /\ r \in ClientType /\ ClientInv(r) /\ Restored(r)
      /\ r.authed /\ Sendable(r)
  BY ClientFacts DEF SubscribeCall
<1>2. s \in Subscriptions
  BY <1>1, SubsFacts DEF TypeOK
<1>3. Subscribed(r, s) = y
  BY DEF Subscribed
<1>4. /\ DOMAIN y = DOMAIN r
      /\ y.made = r.made /\ y.pc = r.pc /\ y.sock = r.sock /\ y.connected = r.connected
      /\ y.authed = r.authed /\ y.running = r.running /\ y.todo = r.todo
      /\ y.session = r.session \cup {s}
      /\ y.subs = [r.subs EXCEPT ![s.channel] = s.chunk]
  BY <1>1 DEF ClientType
<1>5. {"made", "pc", "sock", "connected", "authed", "running", "todo", "session",
       "subs"} \subseteq DOMAIN y
  BY <1>1, <1>4 DEF ClientType
<1>6. Becomes(current, x)
  BY DEF SubscribeCall
<1>7. x = [y EXCEPT !.handlers = [y.handlers EXCEPT ![call.event] = @ + 1],
                    !.made = y.made \cup {s}]
  BY <1>3
<1> HIDE DEF y, x, s, call
<1>8. /\ x.made = r.made \cup {s} /\ x.pc = r.pc /\ x.sock = r.sock
      /\ x.connected = r.connected /\ x.authed = r.authed /\ x.running = r.running
      /\ x.todo = r.todo /\ x.session = r.session \cup {s}
      /\ x.subs = [r.subs EXCEPT ![s.channel] = s.chunk]
  BY <1>4, <1>5, <1>7
<1>9. r.pc \notin Attempting
  BY <1>1 DEF ClientInv, Attempting
<1>10. r.running \/ r.pc = "dead"
  BY <1>1 DEF Restored
<1>11. Restored(x)
  <2>1. r.pc \in Attempting => r.made = {} /\ x.made = {}
    BY <1>9
  <2>2. r.running \/ r.pc = "dead" \/ x.made = {}
    BY <1>10
  <2>3. x.made \in {r.made, r.made \cup {s}}
    BY <1>8
  <2>4. \A t \in r.made : (r.pc = "resub" /\ t.channel # s.channel)
                              => x.todo[t.channel] = r.todo[t.channel]
    BY <1>8
  <2>5. r \in ClientType /\ Restored(r) /\ Sendable(r) /\ OneChunk
    BY <1>1
  <2> HIDE DEF r
  <2>6. QED
    BY <1>2, <1>8, <2>1, <2>2, <2>3, <2>4, <2>5, AddRestored
<1>12. QED
  BY <1>1, <1>6, <1>11, BecomesRestored

LEMMA ReplaceClientRestored ==
    ASSUME WsInv, RestoredInv, current \in ClientIds, ReplaceClient
    PROVE  RestoredInv'
<1> DEFINE r == client[current]
           x == Disconnected(r)
<1>1. TypeOK /\ r \in ClientType /\ Restored(r)
  BY ClientFacts
<1>2. /\ x.pc = "dead" /\ x.sock = "none" /\ x.made = r.made /\ x.subs = r.subs
  BY <1>1 DEF ClientType, Disconnected
<1>3. Becomes(current, x)
  BY DEF ReplaceClient
<1> HIDE DEF x
<1>4. Restored(x)
  BY <1>1, <1>2 DEF Restored, Attempting
<1>5. QED
  BY <1>1, <1>3, <1>4, BecomesRestored

LEMMA RestoredInit == Init => RestoredInv
BY DEF Init, RestoredInv, Restored, NewClient

LEMMA RestoredStep ==
    ASSUME OneChunk, WsInv, RestoredInv, [Next]_vars
    PROVE  RestoredInv'
<1>1. CASE ClientStep
  <2>1. PICK c \in ClientIds :
          Connecting(c) \/ Handling(c) \/ HeartbeatEnds(c) \/ Network(c)
    BY <1>1 DEF ClientStep
  <2>2. CASE Connecting(c)
    BY <2>2, DialRestored, WelcomeRestored, AuthenticateRestored, ResubscribedRestored,
       ResubscribeRestored DEF Connecting
  <2>3. CASE Handling(c)
    BY <2>3, ReadErrorRestored, ReconnectRestored DEF Handling
  <2>4. QED
    BY <2>1, <2>2, <2>3, NetworkRestored
<1>2. layer # "start" => current \in ClientIds
  BY SubsFacts DEF WsInv, NoneYet, ClientsInv, TypeOK, ClientIds
<1>3. CASE StartClient
  BY <1>3, StartClientRestored
<1>4. CASE SubscribeCall
  BY <1>2, <1>4, SubscribeCallRestored DEF SubscribeCall
<1>5. CASE ReplaceClient
  BY <1>2, <1>5, ReplaceClientRestored DEF ReplaceClient
<1>6. CASE UNCHANGED client
  BY <1>6 DEF RestoredInv
<1>7. QED
  BY <1>1, <1>3, <1>4, <1>5, <1>6
     DEF Next, SpeedLayer, ClientStep, SubscribeRaises, WaitedFiveSeconds, Publish, vars

\* Whichever connections are lost and whichever renewals fail, and also when
\* ws_speed_layer subscribes while the message handler reconnects, a client
\* that reads an authenticated session has on it every subscription it was
\* asked for (client.py:583), if no channel is subscribed in several calls of
\* different symbols.
THEOREM RestoresSubscriptionsCorrect ==
    ASSUME OneChunk
    PROVE  Spec => []RestoresSubscriptions
<1>1. RestoredInv => RestoresSubscriptions
  BY DEF RestoredInv, Restored, RestoresSubscriptions
<1>2. WsInv /\ RestoredInv /\ [Next]_vars => RestoredInv'
  BY RestoredStep
<1>3. QED
  BY <1>1, <1>2, RestoredInit, WsAlways, PTL DEF Spec

=============================================================================
