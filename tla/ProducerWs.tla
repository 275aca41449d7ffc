----------------------------- MODULE ProducerWs -----------------------------
(***************************************************************************)
(* The earlier producer, infra/vnstock/producer_ws.py: every callback of   *)
(* the WebSocket creates an asyncio task, which writes to Redis and then   *)
(* to Kafka on its own; there is no buffer and no flusher.  Any number of  *)
(* tasks are under way at once, each waiting for an answer of Redis, and   *)
(* their commands may take effect in any order.  The REST cycle runs       *)
(* beside them.                                                            *)
(*                                                                         *)
(* An action is what a task does between two awaits, or what a store does  *)
(* with its command.  Candles are mutable dictionaries: a task of an OHLC  *)
(* event publishes the dictionary it made, which trades change as long as  *)
(* it is the live one; a task of a trade publishes whatever is the live    *)
(* one by then.                                                            *)
(*                                                                         *)
(* _handle_secdef does nothing, quotes are independent of all else, the    *)
(* client and its reconnections are module WsClient (without a watch).     *)
(* Ceiling and floor prices follow basicPrice and are left out.            *)
(***************************************************************************)
EXTENDS Integers, FiniteSets

CONSTANTS
    Symbols,
    Prices,         \* of trades and bars
    Volumes,        \* of the bars of OHLC events
    References,     \* previous closes that the REST API answers
    KafkaEnabled,   \* _avro_schema_id >= 0
    DailyRefresh,   \* REST cycles from one daily refresh to the next
    None            \* an absent value

CONSTANTS           \* bounds of the model, none of them in the code
    MaxMinute,      \* the last minute
    MaxTrades,      \* the trades and OHLC events delivered
    MaxBars,        \* the daily bars delivered
    MaxFaults       \* failures of a store or an API, restarts

ASSUME ProducerWsAssumption ==
    /\ Prices \subseteq Nat \ {0} /\ References \subseteq Nat \ {0}
    /\ Volumes \subseteq Nat \ {0} /\ KafkaEnabled \in BOOLEAN
    /\ DailyRefresh \in Nat \ {0} /\ None \notin Nat
    /\ {MaxMinute, MaxTrades, MaxBars, MaxFaults} \subseteq Nat

VARIABLES
    now,            \* the wall clock, in minutes
    live_candles,   \* _live_candles: the candle of a symbol, or None
    ticks,          \* the tasks of _handle_trade and _handle_ohlc_1m under way
    dailies,        \* the tasks of _handle_ohlc_1d under way
    rest,           \* the task rest_batch_layer
    redis,          \* vnstock:tick, vnstock:daily and vnstock:secdef
    topic,          \* the last record that the Kafka client took from each layer
    count           \* counted for the bounds

VARIABLE            \* auxiliary: never read by the code
    lost            \* symbols whose live candle was lost with a fault, or passed
                    \* by the late task of an older bar

vars == <<now, live_candles, ticks, dailies, rest, redis, topic, count, lost>>

Maybe(S) == S \cup {None}
Candle == [sym: Symbols, time: 0..MaxMinute, close: Prices, vol: Nat]
Daily == [prev: Maybe(References), close: Prices \cup References, pct: Maybe(Int)]
Kinds == {"trades", "bars", "faults"}

\* A task of a tick: the candle it writes to Redis, then what it publishes:
\* the live candle (None here), or a dictionary that is no longer the live one.
Tick == [writes: Candle, publishes: Maybe(Candle), pc: {"write", "publish"},
         trade: BOOLEAN]
DailyTask == [sym: Symbols, close: Prices, record: Maybe(Daily)]
Rest == [pc: {"sleep", "daily", "candles"}, age: 0..DailyRefresh,
         fetched: [Symbols -> Maybe(References \X (Prices \cup References))]]

TypeOK ==
    /\ now \in 0..MaxMinute
    /\ live_candles \in [Symbols -> Maybe(Candle)]
    /\ ticks \subseteq Tick /\ dailies \subseteq DailyTask
    /\ rest \in Rest
    /\ redis \in [tick: [Symbols -> Maybe(Candle)], daily: [Symbols -> Maybe(Daily)],
                  secdef: [Symbols -> Maybe(References)]]
    /\ topic \in [speed: [Symbols -> Maybe(Candle)], batch: [Symbols -> Maybe(Candle)]]
    /\ count \in [trades: 0..MaxTrades, bars: 0..MaxBars, faults: 0..MaxFaults]
    /\ lost \subseteq Symbols

Nothing == [s \in Symbols |-> None]

\* last_daily_fetch = 0 is so long ago that the first cycle refreshes.
FirstCycle == [pc |-> "sleep", age |-> DailyRefresh, fetched |-> Nothing]

Init ==
    /\ now = 0
    /\ live_candles = Nothing
    /\ ticks = {} /\ dailies = {}
    /\ rest = FirstCycle
    /\ redis = [tick |-> Nothing, daily |-> Nothing, secdef |-> Nothing]
    /\ topic = [speed |-> Nothing, batch |-> Nothing]
    /\ count = [trades |-> 0, bars |-> 0, faults |-> 0]
    /\ lost = {}

Counted(kind, max) == /\ count[kind] < max
                      /\ count' = [count EXCEPT ![kind] = @ + 1]
Fault == Counted("faults", MaxFaults)

Minute ==
    /\ now < MaxMinute
    /\ now' = now + 1
    /\ UNCHANGED <<live_candles, ticks, dailies, rest, redis, topic, count, lost>>

-----------------------------------------------------------------------------
(* The callbacks of the WebSocket, up to their first await *)

\* Another dictionary becomes the live one: tasks keep the one they have.
Kept(s) ==
    {IF t.writes.sym = s /\ ~t.trade /\ t.publishes = None
     THEN [t EXCEPT !.publishes = live_candles[s]] ELSE t : t \in ticks}

TickTask(candle, trade) ==
    [writes |-> candle, publishes |-> None, pc |-> "write", trade |-> trade]

\* _handle_trade: the dictionary of the minute is changed in place, or another
\* one is made.
HandleTrade(s, price) ==
    LET c   == live_candles[s]
        old == c # None /\ c.time = now
        new == IF old THEN [c EXCEPT !.close = price, !.vol = @ + 1]
               ELSE [sym |-> s, time |-> now, close |-> price, vol |-> 1]
    IN  /\ Counted("trades", MaxTrades)
        /\ live_candles' = [live_candles EXCEPT ![s] = new]
        /\ ticks' = (IF old THEN ticks ELSE Kept(s)) \cup {TickTask(new, TRUE)}
        /\ lost' = lost \ {s}
        /\ UNCHANGED <<now, dailies, rest, redis, topic>>

\* _handle_ohlc_1m: the bar of any minute replaces the live candle.
HandleOhlc1m(s, time, price, vol) ==
    LET new == [sym |-> s, time |-> time, close |-> price, vol |-> vol] IN
    /\ Counted("trades", MaxTrades)
    /\ time <= now
    /\ live_candles' = [live_candles EXCEPT ![s] = new]
    /\ ticks' = Kept(s) \cup {TickTask(new, FALSE)}
    /\ lost' = lost \ {s}
    /\ UNCHANGED <<now, dailies, rest, redis, topic>>

\* _handle_ohlc_1d: it has nothing before it has read the record of Redis.
HandleOhlc1d(s, close) ==
    /\ Counted("bars", MaxBars)
    /\ dailies' = dailies \cup {[sym |-> s, close |-> close, record |-> None]}
    /\ UNCHANGED <<now, live_candles, ticks, rest, redis, topic, lost>>

-----------------------------------------------------------------------------
(* The tasks of the callbacks *)

\* The pipeline takes effect; it was built before the await.
WriteTick(t) ==
    /\ t.pc = "write"
    /\ redis' = [redis EXCEPT !.tick[t.writes.sym] = t.writes]
    /\ ticks' = (ticks \ {t}) \cup {[t EXCEPT !.pc = "publish"]}
    /\ UNCHANGED <<now, live_candles, dailies, rest, topic, count, lost>>

\* The pipeline raises: the handler logs it, and does not publish.
WriteTickFails(t) ==
    /\ t.pc = "write" /\ Fault
    /\ ticks' = ticks \ {t}
    /\ lost' = lost \cup {t.writes.sym}
    /\ UNCHANGED <<now, live_candles, dailies, rest, redis, topic>>

\* The bug: what was written to Redis is published.
PublishedWritten(t) == t.writes

Published(t) == IF t.publishes = None THEN live_candles[t.writes.sym] ELSE t.publishes

\* _publish_kafka: the record is made after the await, and dropped if there is
\* no schema or the send fails.
PublishTick(t) ==
    /\ t.pc = "publish"
    /\ ticks' = ticks \ {t}
    /\ \/ /\ topic' = IF KafkaEnabled
                      THEN [topic EXCEPT !.speed[t.writes.sym] = Published(t)] ELSE topic
          /\ lost' = IF t.publishes = None THEN lost ELSE lost \cup {t.writes.sym}
          /\ UNCHANGED count
       \/ /\ KafkaEnabled /\ Fault
          /\ lost' = lost \cup {t.writes.sym}
          /\ UNCHANGED topic
    /\ UNCHANGED <<now, live_candles, dailies, rest, redis>>

\* ((close - ref) / ref) * 100 to four decimals, in units of 0.0001 %.
ChangePct(close, ref) == ((close - ref) * 1000000) \div ref

\* The bug: the change is not computed anew.
UpdatedOldPct(old, close) ==
    IF old = None THEN [prev |-> None, close |-> close, pct |-> None]
    ELSE [old EXCEPT !.close = close]

\* The record of Redis with the values of the bar.
Updated(old, close) ==
    LET prev == IF old = None THEN None ELSE old.prev
    IN  [prev |-> prev, close |-> close,
         pct |-> IF prev = None THEN None ELSE ChangePct(close, prev)]

\* r.get answers.
ReadDaily(d) ==
    /\ d.record = None
    /\ dailies' = (dailies \ {d}) \cup
                  {[d EXCEPT !.record = Updated(redis.daily[d.sym], d.close)]}
    /\ UNCHANGED <<now, live_candles, ticks, rest, redis, topic, count, lost>>

\* r.set takes effect, whatever was written since the record was read.
SetDaily(d) ==
    /\ d.record # None
    /\ redis' = [redis EXCEPT !.daily[d.sym] = d.record]
    /\ dailies' = dailies \ {d}
    /\ UNCHANGED <<now, live_candles, ticks, rest, topic, count, lost>>

DailyFails(d) ==
    /\ Fault
    /\ dailies' = dailies \ {d}
    /\ UNCHANGED <<now, live_candles, ticks, rest, redis, topic, lost>>

-----------------------------------------------------------------------------
(* rest_batch_layer *)

Rested(r) == /\ rest' = r
             /\ UNCHANGED <<now, live_candles, ticks, dailies, lost>>

\* A cycle starts.  The daily candles are fetched when they are due: the
\* answers come, and with them the previous close and the last one.
StartCycle ==
    /\ rest.pc = "sleep"
    /\ IF rest.age < DailyRefresh
       THEN Rested([rest EXCEPT !.pc = "candles"])
       ELSE \E prev \in References, close \in Prices \cup References :
               Rested([rest EXCEPT !.pc = "daily",
                                   !.fetched = [s \in Symbols |-> <<prev, close>>]])
    /\ UNCHANGED <<redis, topic, count>>

\* A symbol whose request fails is left out.
FetchFails(s) ==
    /\ rest.pc = "daily" /\ rest.fetched[s] # None /\ Fault
    /\ Rested([rest EXCEPT !.fetched[s] = None])
    /\ UNCHANGED <<redis, topic>>

\* The bug: the records of REST have no previous close.
FetchedRecordBare(f) == [prev |-> None, close |-> f[2], pct |-> ChangePct(f[2], f[1])]

FetchedRecord(f) == [prev |-> f[1], close |-> f[2], pct |-> ChangePct(f[2], f[1])]

\* One pipeline sets the reference prices and the daily records.
SetDailies ==
    LET f == rest.fetched IN
    /\ rest.pc = "daily"
    /\ redis' = [redis EXCEPT
         !.secdef = [s \in Symbols |-> IF f[s] = None THEN @[s] ELSE f[s][1]],
         !.daily  = [s \in Symbols |-> IF f[s] = None THEN @[s] ELSE FetchedRecord(f[s])]]
    /\ Rested([pc |-> "candles", age |-> 0, fetched |-> Nothing])
    /\ UNCHANGED <<topic, count>>

\* Cycles are counted up to the one that refreshes.
NextAge == IF rest.age < DailyRefresh THEN rest.age + 1 ELSE rest.age

\* The candles of the last minute that is over go to Kafka, each unless its
\* request or its send fails.
SendCandles ==
    /\ rest.pc = "candles"
    /\ \E c \in [Symbols -> Maybe(Prices)], vol \in Volumes :
          topic' = IF KafkaEnabled /\ now > 0
                   THEN [topic EXCEPT !.batch = [s \in Symbols |->
                           IF c[s] = None THEN @[s]
                           ELSE [sym |-> s, time |-> now - 1, close |-> c[s], vol |-> vol]]]
                   ELSE topic
    /\ Rested([rest EXCEPT !.pc = "sleep", !.age = NextAge])
    /\ UNCHANGED <<redis, count>>

\* The pipeline raises: the cycle is over, and the next one fetches again.
CycleFails ==
    /\ rest.pc = "daily" /\ Fault
    /\ Rested([rest EXCEPT !.pc = "sleep", !.fetched = Nothing])
    /\ UNCHANGED <<redis, topic>>

-----------------------------------------------------------------------------
\* The process dies or is stopped, and starts again.
Restart ==
    /\ Fault
    /\ live_candles' = Nothing /\ ticks' = {} /\ dailies' = {}
    /\ rest' = FirstCycle
    /\ UNCHANGED <<now, redis, topic, lost>>

TaskStep ==
    \/ \E t \in ticks : WriteTick(t) \/ PublishTick(t)
    \/ \E d \in dailies : ReadDaily(d) \/ SetDaily(d)

RestStep == StartCycle \/ SetDailies \/ SendCandles

Next ==
    \/ Minute
    \/ \E s \in Symbols, p \in Prices :
          \/ HandleTrade(s, p) \/ HandleOhlc1d(s, p)
          \/ \E time \in 0..MaxMinute, v \in Volumes : HandleOhlc1m(s, time, p, v)
    \/ TaskStep
    \/ \E t \in ticks : WriteTickFails(t)
    \/ \E d \in dailies : DailyFails(d)
    \/ RestStep
    \/ \E s \in Symbols : FetchFails(s)
    \/ CycleFails \/ Restart

Spec == Init /\ [][Next]_vars

\* The event loop runs every task, Redis answers, and the market is open.
FairSpec == Spec /\ WF_vars(TaskStep) /\ WF_vars(RestStep)

-----------------------------------------------------------------------------
(* Properties *)

Quiet(s) == \A t \in ticks : t.writes.sym # s

\* Once no task of a symbol is under way, the last record of its topic is the
\* live candle, in whatever order the tasks of its trades ran: each publishes
\* what the candle is by then, not what it wrote to Redis (_handle_trade, the
\* second await).  Stores that fail and late tasks of older bars are excused.
LastIsLive ==
    \A s \in Symbols :
        KafkaEnabled /\ Quiet(s) /\ live_candles[s] # None /\ s \notin lost
            => topic.speed[s] = live_candles[s]

\* The change of a daily record is that of its own prices, although bars and
\* the REST cycle write the record over each other (_handle_ohlc_1d).
PctOfRecord ==
    \A s \in Symbols :
        redis.daily[s] # None /\ redis.daily[s].prev # None
            => redis.daily[s].pct = ChangePct(redis.daily[s].close, redis.daily[s].prev)

\* A previous close that a bar has overwritten with an older one comes back
\* with the next refresh: in the end the daily record has the reference price
\* (rest_batch_layer, the daily refresh).
ReferencesConverge ==
    <>[](\A s \in Symbols :
            redis.daily[s] # None /\ redis.daily[s].prev = redis.secdef[s])

\* _handle_ohlc_1d's comment: the fields of the reference are preserved.
ReferenceIsKept ==
    \A s \in Symbols : redis.daily[s] # None => redis.daily[s].prev = redis.secdef[s]

\* The module's doc: a trade tick goes to Redis and to Kafka, so that Redis
\* ends with the live candle.
TickShown ==
    \A s \in Symbols :
        Quiet(s) /\ live_candles[s] # None /\ s \notin lost
            => redis.tick[s] = live_candles[s]

=============================================================================
