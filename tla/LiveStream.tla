----------------------------- MODULE LiveStream -----------------------------
(***************************************************************************)
(* The WebSocket of the chart: the endpoint /api/ws/stream of              *)
(* vnstock-api/app/routers/ws.py and subscribeRealtime of                  *)
(* vnstock-frontend/src/services/api.js, over one connection at a time.    *)
(*                                                                         *)
(* A session of the endpoint is two asyncio tasks that share sym and       *)
(* last_sent_data: the listener takes commands, the sender polls Redis and *)
(* sends what has changed.  An action of the sender is what runs between   *)
(* two of its awaits; the listener may run between any two.                *)
(*                                                                         *)
(* A candle is abstracted to a value: its candle_key, which names no       *)
(* symbol, so that candles of two symbols may have one key.  Pings and     *)
(* pongs change nothing on either side and are left out; they are sent     *)
(* every 60 cycles, a multiple of 6, so that the cycle counter is kept     *)
(* modulo QuoteEvery.                                                      *)
(***************************************************************************)
EXTENDS Api, Naturals, Sequences

CONSTANTS
    Values,         \* the candles and prices of a symbol
    Quotes,         \* the quotes of a symbol
    FirstTicks,     \* the ticks in Redis at first: symbol -> value
    QuoteEvery      \* quotes are polled every sixth cycle

CONSTANTS           \* bounds of the model, none of them in the code
    MaxEvents,      \* how many changes of keys, choices, losses and failures
    MaxFrames       \* frames the sockets hold before a send has to wait

ASSUME StreamAssumption ==
    /\ Symbols # {} /\ None \notin Symbols \cup Values \cup Quotes
    /\ FirstTicks \in [Symbols -> Values \cup {None}]
    /\ QuoteEvery \in Nat \ {0}
    /\ MaxEvents \in Nat /\ MaxFrames \in Nat \ {0}

VARIABLES
    redis,          \* vnstock:tick, :quote and todayClose of :daily, per symbol
    session,        \* the endpoint's session: its local variables, or None
    conn,           \* the client's connection: the URL's symbol, readyState
    frames,         \* sent by the server, not yet received
    commands,       \* subscribe commands sent by the client, not yet received
    events          \* counted for the bound

VARIABLE            \* auxiliary: never read by the code
    stale           \* ticks of another symbol sent since the last command

streamVars == <<redis, session, conn, frames, commands, events, stale>>

Family == {"tick", "quote", "close"}
Steps == {"sleep", "tick", "tick_sent", "quote", "quote_sent"}
States == {"none", "connecting", "open", "waiting"}

Contents(f) == IF f = "quote" THEN Quotes ELSE Values
Reading == [sym: Symbols, val: Maybe(Values \cup Quotes)]
Session == [sym: Symbols, last: Maybe(Values), hash: Maybe(Reading),
            cycle: 0..(QuoteEvery - 1), pc: Steps, read: Maybe(Reading)]
Frame == [type: {"tick", "quote"}, sym: Symbols, val: Values \cup Quotes]

StreamTypeOK ==
    /\ DOMAIN redis = Family
    /\ \A f \in Family : redis[f] \in [Symbols -> Maybe(Contents(f))]
    /\ session = None \/ session \in Session
    /\ conn \in [url: Maybe(Symbols), state: States]
    /\ frames \in Seq(Frame) /\ Len(frames) <= MaxFrames
    /\ commands \in Seq(Symbols)
    /\ events \in 0..MaxEvents
    /\ stale \in Nat

NoConn == [url |-> None, state |-> "none"]

StreamInit ==
    /\ redis = [f \in Family |-> IF f = "tick" THEN FirstTicks
                                  ELSE [s \in Symbols |-> None]]
    /\ session = None /\ conn = NoConn
    /\ frames = <<>> /\ commands = <<>>
    /\ events = 0 /\ stale = 0

\* What happens a bounded number of times.
Happens == events < MaxEvents /\ events' = events + 1

-----------------------------------------------------------------------------
(* The producer and the batch layer change keys of Redis. *)
RedisWrite(f, s, v) ==
    /\ Happens /\ redis[f][s] # v
    /\ redis' = [redis EXCEPT ![f][s] = v]
    /\ UNCHANGED <<session, conn, frames, commands, stale>>

-----------------------------------------------------------------------------
(* The endpoint *)

NewSession(s) ==
    [sym |-> s, last |-> None, hash |-> None, cycle |-> 0, pc |-> "sleep",
     read |-> None]

\* The bug: the symbol of the URL is read, not that of the last command.
ReadKeyOfUrl(f) == [sym |-> conn.url, val |-> redis[f][conn.url]]

ReadKey(f) == [sym |-> session.sym, val |-> redis[f][session.sym]]

\* The part of a step that is common: the sender's variables change, and
\* perhaps a frame is sent.
Sender(from, s, fs) ==
    /\ session # None /\ session.pc = from
    /\ session' = s /\ frames' = fs
    /\ UNCHANGED <<redis, conn, commands, events>>

\* What was read is not read again: sleeping, the sender has nothing.
NextCycle(s) == [s EXCEPT !.pc = "sleep", !.read = None,
                          !.cycle = (@ + 1) % QuoteEvery]

\* The quote is asked for every QuoteEvery cycles, for the symbol of then.
AfterTick(s) ==
    IF s.cycle = 0
    THEN [s EXCEPT !.read = ReadKey("quote"), !.pc = "quote"]
    ELSE NextCycle(s)

\* tick_raw = await r.get(...): Redis answers for the symbol of the call.
ReadTick ==
    /\ session # None
    /\ Sender("sleep", [session EXCEPT !.read = ReadKey("tick"), !.pc = "tick"], frames)
    /\ UNCHANGED stale

\* A tick whose key is not the last one sent is sent.  last_sent_data is
\* assigned after the send's await, in TickSent.
SendTick ==
    LET r == session.read IN
    /\ session # None /\ session.pc = "tick"
    /\ r.val # None /\ r.val # session.last
    /\ Len(frames) < MaxFrames
    /\ Sender("tick", [session EXCEPT !.pc = "tick_sent"],
              Append(frames, [type |-> "tick", sym |-> r.sym, val |-> r.val]))
    /\ stale' = IF r.sym = session.sym THEN stale ELSE stale + 1

SkipTick ==
    /\ session # None /\ session.pc = "tick"
    /\ session.read.val \in {None, session.last}
    /\ Sender("tick", AfterTick(session), frames)
    /\ UNCHANGED stale

TickSent ==
    /\ session # None /\ session.pc = "tick_sent"
    /\ Sender("tick_sent", AfterTick([session EXCEPT !.last = session.read.val]), frames)
    /\ UNCHANGED stale

\* The hash is of the whole quote, which names its symbol.
SendQuote ==
    LET r == session.read IN
    /\ session # None /\ session.pc = "quote"
    /\ r.val # None /\ r # session.hash
    /\ Len(frames) < MaxFrames
    /\ Sender("quote", [session EXCEPT !.pc = "quote_sent"],
              Append(frames, [type |-> "quote", sym |-> r.sym, val |-> r.val]))
    /\ UNCHANGED stale

SkipQuote ==
    /\ session # None /\ session.pc = "quote"
    /\ session.read.val = None \/ session.read = session.hash
    /\ Sender("quote", NextCycle(session), frames)
    /\ UNCHANGED stale

QuoteSent ==
    /\ session # None /\ session.pc = "quote_sent"
    /\ Sender("quote_sent", NextCycle([session EXCEPT !.hash = session.read]), frames)
    /\ UNCHANGED stale

\* listen_for_commands: the symbol changes and last_sent_data is reset; the
\* hash of the last quote is not.
TakeCommand ==
    /\ session # None /\ commands # <<>>
    /\ session' = [session EXCEPT !.sym = Head(commands), !.last = None]
    /\ commands' = Tail(commands)
    /\ stale' = 0
    /\ UNCHANGED <<redis, conn, frames, events>>

SenderStep ==
    \/ ReadTick \/ SendTick \/ SkipTick \/ TickSent
    \/ SendQuote \/ SkipQuote \/ QuoteSent

-----------------------------------------------------------------------------
(* The client *)

\* connect(): the URL keeps the symbol that subscribeRealtime was called with.
Subscribe(s) ==
    /\ conn' = [url |-> s, state |-> "connecting"]
    /\ UNCHANGED commands

\* switchSymbol: a command is sent if the socket is OPEN, and lost if the
\* peer is gone; otherwise nothing happens.
SwitchSymbol(s) ==
    /\ commands' = IF conn.state = "open" /\ session # None
                   THEN Append(commands, s) ELSE commands
    /\ UNCHANGED conn

Open ==
    /\ conn.state = "connecting"
    /\ conn' = [conn EXCEPT !.state = "open"]
    /\ session' = NewSession(conn.url)
    /\ stale' = 0
    /\ UNCHANGED <<redis, frames, commands, events>>

Disconnected(state) ==
    /\ conn' = [conn EXCEPT !.state = state]
    /\ session' = None /\ frames' = <<>> /\ commands' = <<>> /\ stale' = 0
    /\ UNCHANGED redis

\* A connection that cannot be opened, that is lost, or whose session fails:
\* the client's onclose starts the timer.
Drop ==
    /\ conn.state \in {"connecting", "open"} /\ Happens
    /\ Disconnected("waiting")

\* The peer is gone and the client is not told.
DropSilently ==
    /\ session # None /\ Happens
    /\ Disconnected("open")

Reconnect ==
    /\ conn.state = "waiting"
    /\ conn' = [conn EXCEPT !.state = "connecting"]
    /\ UNCHANGED <<redis, session, frames, commands, events, stale>>

\* onmessage: the callbacks of the chart are conjoined where it is received.
Receive(f) ==
    /\ conn.state = "open" /\ frames # <<>> /\ f = Head(frames)
    /\ frames' = Tail(frames)
    /\ UNCHANGED <<redis, session, conn, commands, events, stale>>

StreamStep ==
    \/ SenderStep \/ TakeCommand
    \/ Open \/ Drop \/ DropSilently \/ Reconnect
    \/ \E f \in Family, s \in Symbols : \E v \in Contents(f) : RedisWrite(f, s, v)

\* After a switch the session sends at most one more tick of the symbol
\* before it: the one whose Redis answer was awaited when the command came
\* (the sender and the listener of ws_stream share sym).
OneStaleTick == stale <= 1

=============================================================================
