------------------------------ MODULE Producer ------------------------------
(***************************************************************************)
(* The market-data producer, infra/vnstock/producer.py: one asyncio        *)
(* process in which WebSocket callbacks (speed layer), a buffer flusher    *)
(* and a REST cycle (batch layer) share in-memory dictionaries, a Redis    *)
(* database and a Kafka topic.                                             *)
(*                                                                         *)
(* An action is what runs between two suspension points of the event loop. *)
(* A Redis pipeline is MULTI/EXEC on a pooled connection: it is built in   *)
(* one step from the memory of that step and takes effect in a later step, *)
(* and two tasks' pipelines may take effect in either order.               *)
(*                                                                         *)
(* Candles are mutable Python dictionaries that the tick buffer and the    *)
(* Kafka buffer hold by reference: "cells" is the heap, the buffers hold   *)
(* cell numbers, and a pipeline or a Kafka record holds a value.           *)
(*                                                                         *)
(* Time is counted in minutes, the width of a candle.  Ceiling and floor   *)
(* prices follow basicPrice everywhere and are left out, as are todayOpen, *)
(* todayVol and a candle's open, which nothing reads back, and the sorted  *)
(* set vnstock:ticks:all, always written with the tick.                    *)
(***************************************************************************)
EXTENDS Integers, Sequences, FiniteSets

CONSTANTS
    Symbols,        \* the symbols the producer is configured with
    Channels,       \* the sources that deliver: WebSocket channels, the REST API
    Prices,         \* the prices a trade, a bar or a reference can have
    Quantities,     \* the quantities of a trade
    Volumes,        \* the volumes of a bar
    Quotes,         \* the bid/ask snapshots of the quote channel
    SecDefs,        \* the basicPrice values of security-definition events
    RestPrices,     \* the prices the REST chart API returns
    KafkaEnabled,   \* _avro_schema_id >= 0: the schema was registered
    MaxAge,         \* how far from now an OHLC 1m bar may lie (300 s)
    DailyRefresh,   \* DAILY_REFRESH_INTERVAL
    None            \* an absent key, an absent value

CONSTANTS           \* bounds of the model, none of them in the code
    MaxMinute,      \* the last minute of the model
    MaxVolume,      \* the largest volume of a live candle
    MaxTraded,      \* the largest quantity traded in a minute
    MaxQueue,       \* the longest _kafka_buffer
    MaxCells,       \* the number of candle dictionaries in use at once
    MaxFaults       \* how often each kind of fault may happen

FaultKind == {"redis", "kafka", "restart"}
ChannelNames == {"trade", "ohlc_1m", "ohlc_1d", "secdef", "quote", "rest"}

ASSUME ProducerAssumption ==
    /\ Symbols # {} /\ Channels \subseteq ChannelNames
    /\ Prices \subseteq Nat \ {0} /\ SecDefs \subseteq Nat \ {0}
    /\ RestPrices \subseteq Nat \ {0} /\ Volumes \subseteq Nat
    /\ Quantities \subseteq Nat /\ MaxTraded \in Nat
    /\ KafkaEnabled \in BOOLEAN
    /\ MaxAge \in Nat /\ DailyRefresh \in Nat \ {0}
    /\ MaxMinute \in Nat /\ MaxVolume \in Nat /\ MaxQueue \in Nat
    /\ MaxCells \in Nat
    /\ MaxFaults \in [FaultKind -> Nat]
    /\ None \notin Nat /\ None \notin Quotes

VARIABLES
    now,            \* the wall clock, in minutes
    cells,          \* the candle dictionaries
    live_candles,   \* _live_candles: symbol -> cell, 0 when absent
    tick_buffer,    \* _tick_buffer: symbol -> cell, 0 when absent
    kafka_buffer,   \* _kafka_buffer: list of cells
    daily_persist,  \* _daily_persist: symbol -> prevClose, basicPrice (0: absent)
    daily_buffer,   \* _daily_buffer: symbol -> intraday values
    quote_buffer,   \* _quote_buffer: symbol -> quote
    secdef_sets,    \* the r.set calls of _handle_secdef under way
    flush,          \* the task _buffer_flusher
    rest,           \* the task rest_batch_layer
    redis,          \* the database: one function per key family
    topic,          \* the last record the Kafka client accepted for each key
    faults          \* how many faults of each kind have happened

VARIABLES           \* auxiliary: never read by the code
    trade_vol,      \* quantity traded in the current minute since start-up
    rest_prev       \* prevClose of the last REST daily refresh since start-up

memory == <<cells, live_candles, tick_buffer, kafka_buffer,
            daily_persist, daily_buffer, quote_buffer>>
aux == <<trade_vol, rest_prev>>
vars == <<now, memory, secdef_sets, flush, rest, redis, topic, faults, aux>>

-----------------------------------------------------------------------------
(* Values *)

CellIds == 1..MaxCells

Bars(S) == {b \in [high: S, low: S, close: S] :
               b.low <= b.close /\ b.close <= b.high}

Candles == [sym: Symbols, time: Nat, high: Nat, low: Nat, close: Nat,
            vol: Nat, src: {"DNSE_WS", "DNSE"}]

\* None is the absence of a candle.
ASSUME NoneAssumption == None \notin Candles

Dailies == [prev: Nat, basic: Nat, close: Nat, high: Nat, low: Nat,
            pct: Int \cup {None}]

Intraday == [close: Nat, high: Nat, low: Nat, pct: Int \cup {None}]

Candle(s, t, bar, v, src) ==
    [sym |-> s, time |-> t, high |-> bar.high, low |-> bar.low,
     close |-> bar.close, vol |-> v, src |-> src]

Max2(a, b) == IF a >= b THEN a ELSE b
Min2(a, b) == IF a <= b THEN a ELSE b

\* ((close - ref) / ref) * 100 to four decimals: in units of 0.0001 %, rounded down.
ChangePct(close, ref) == ((close - ref) * 1000000) \div ref

Nothing == [s \in Symbols |-> None]
NoCell  == [s \in Symbols |-> 0]
Zero    == [s \in Symbols |-> 0]
NoRef   == [s \in Symbols |-> [prev |-> 0, basic |-> 0]]

\* A pipeline says, for every key, the value it sets, if it sets one.
EmptyPipe == [tick |-> Nothing, daily |-> Nothing, quote |-> Nothing,
              secdef |-> Nothing]

Overlay(old, new) ==
    [s \in Symbols |-> IF new[s] = None THEN old[s] ELSE new[s]]

Execute(p) == [tick   |-> Overlay(redis.tick, p.tick),
               daily  |-> Overlay(redis.daily, p.daily),
               quote  |-> Overlay(redis.quote, p.quote),
               secdef |-> Overlay(redis.secdef, p.secdef)]

\* What an attempt to execute a pipeline can do: take effect, or raise
\* before or after it took effect (a reply lost with the connection).  An empty
\* pipeline is not sent.
Executed(p) == redis' = Execute(p) /\ UNCHANGED faults

Raised(p) ==
    /\ p # EmptyPipe
    /\ faults["redis"] < MaxFaults["redis"]
    /\ faults' = [faults EXCEPT !["redis"] = @ + 1]
    /\ redis' \in {redis, Execute(p)}

\* kafka.send: a failed send is counted and its record is dropped.
Send(candle) ==
    \/ /\ topic' = [topic EXCEPT ![candle.sym] = candle]
       /\ UNCHANGED faults
    \/ /\ faults["kafka"] < MaxFaults["kafka"]
       /\ faults' = [faults EXCEPT !["kafka"] = @ + 1]
       /\ UNCHANGED topic

-----------------------------------------------------------------------------
IdleFlush == [pc |-> "sleep", pipe |-> EmptyPipe, kafkas |-> <<>>]

\* last_daily_fetch = 0 is so long ago that the first cycle always refreshes.
FirstCycle == [pc |-> "top", first_run |-> TRUE, cycle_start |-> 0,
               last_daily_fetch |-> -DailyRefresh, candles |-> Nothing,
               pipe |-> EmptyPipe, unsent |-> {}]

UnusedCell == Candle(CHOOSE s \in Symbols : TRUE, 0,
                     [high |-> 0, low |-> 0, close |-> 0], 0, "DNSE_WS")

Init ==
    /\ now = 0
    /\ cells = [c \in CellIds |-> UnusedCell]
    /\ live_candles = NoCell /\ tick_buffer = NoCell /\ kafka_buffer = <<>>
    /\ daily_persist = NoRef /\ daily_buffer = Nothing
    /\ quote_buffer = Nothing
    /\ secdef_sets = {}
    /\ flush = IdleFlush
    /\ rest = FirstCycle
    /\ redis = EmptyPipe
    /\ topic = Nothing
    /\ faults = [k \in FaultKind |-> 0]
    /\ trade_vol = Zero /\ rest_prev = Zero

\* The clock moves on by itself.
Minute ==
    /\ now < MaxMinute
    /\ now' = now + 1
    /\ trade_vol' = Zero
    /\ UNCHANGED <<memory, secdef_sets, flush, rest, redis, topic, faults,
                   rest_prev>>

-----------------------------------------------------------------------------
(* Speed layer: the WebSocket callbacks.  None of them but _handle_secdef *)
(* suspends, so each is one step.                                         *)

Referenced == {live_candles[s] : s \in Symbols}
              \cup {tick_buffer[s] : s \in Symbols}
              \cup {kafka_buffer[i] : i \in DOMAIN kafka_buffer}
              \cup {flush.kafkas[i] : i \in DOMAIN flush.kafkas}

FreeCells == CellIds \ Referenced
FreshCell == CHOOSE c \in FreeCells : TRUE

\* _write_tick_redis: the last candle of a symbol wins.
WriteTick(s, c) == tick_buffer' = [tick_buffer EXCEPT ![s] = c]

\* _publish_kafka: drops the tick when there is no schema.
PublishKafka(c) ==
    IF KafkaEnabled
    THEN /\ Len(kafka_buffer) < MaxQueue
         /\ kafka_buffer' = Append(kafka_buffer, c)
    ELSE UNCHANGED kafka_buffer

\* A new dictionary becomes the live candle of its symbol.  Dictionaries that
\* nothing refers to are gone.
StartCandle(s, candle) ==
    /\ FreeCells # {}
    /\ cells' = [c \in CellIds |-> IF c = FreshCell THEN candle
                                   ELSE IF c \in FreeCells THEN UnusedCell
                                   ELSE cells[c]]
    /\ live_candles' = [live_candles EXCEPT ![s] = FreshCell]
    /\ WriteTick(s, FreshCell)
    /\ PublishKafka(FreshCell)

CurrentCandle(s) == live_candles[s] # 0 /\ cells[live_candles[s]].time = now

\* The bug: the volume of the last trade only.
TradedLast(candle, p, q) ==
    [candle EXCEPT !.high = Max2(@, p), !.low = Min2(@, p),
                   !.close = p, !.vol = q]

\* The bug: the sign of a trade's quantity.
TradedMinus(candle, p, q) ==
    [candle EXCEPT !.high = Max2(@, p), !.low = Min2(@, p),
                   !.close = p, !.vol = @ - q]

Traded(candle, p, q) ==
    [candle EXCEPT !.high = Max2(@, p), !.low = Min2(@, p),
                   !.close = p, !.vol = @ + q]

\* The live candle is updated in place, seen through every reference to it.
ExtendCandle(s, p, q) ==
    LET c == live_candles[s] IN
    /\ cells[c].vol + q <= MaxVolume
    /\ cells' = [cells EXCEPT ![c] = Traded(@, p, q)]
    /\ WriteTick(s, c)
    /\ PublishKafka(c)
    /\ UNCHANGED live_candles

HandleTrade(s, p, q) ==
    /\ trade_vol[s] + q <= MaxTraded
    /\ IF CurrentCandle(s)
       THEN ExtendCandle(s, p, q)
       ELSE StartCandle(s, Candle(s, now, [high |-> p, low |-> p, close |-> p],
                                  q, "DNSE_WS"))
    /\ trade_vol' = [trade_vol EXCEPT ![s] = @ + q]
    /\ UNCHANGED <<now, daily_persist, daily_buffer, quote_buffer, secdef_sets,
                   flush, rest, redis, topic, faults, rest_prev>>

\* The bar replaces the live candle, whichever minute that is in.
HandleOhlc1m(s, t, bar, v) ==
    /\ now - t \in -MaxAge..MaxAge
    /\ StartCandle(s, Candle(s, t, bar, v, "DNSE_WS"))
    /\ UNCHANGED <<now, daily_persist, daily_buffer, quote_buffer, secdef_sets,
                   flush, rest, redis, topic, faults, aux>>

HandleOhlc1d(s, bar) ==
    LET ref == daily_persist[s].prev
        old == IF daily_buffer[s] = None THEN None ELSE daily_buffer[s].pct
        pct == IF ref > 0 THEN ChangePct(bar.close, ref) ELSE old
    IN  /\ daily_buffer' = [daily_buffer EXCEPT ![s] =
               [close |-> bar.close, high |-> bar.high, low |-> bar.low,
                pct |-> pct]]
        /\ UNCHANGED <<now, cells, live_candles, tick_buffer, kafka_buffer,
                       daily_persist, quote_buffer, secdef_sets, flush, rest,
                       redis, topic, faults, aux>>

\* The bug: every event is taken for the reference price.
HandleSecdefAlways(s, basic) ==
    /\ daily_persist' = [daily_persist EXCEPT ![s] =
           [prev |-> basic, basic |-> basic]]
    /\ secdef_sets' = secdef_sets \cup {[sym |-> s, basic |-> basic]}
    /\ UNCHANGED <<now, cells, live_candles, tick_buffer, kafka_buffer,
                   daily_buffer, quote_buffer, flush, rest, redis, topic,
                   faults, aux>>

\* The memory is updated before the r.set is sent.
HandleSecdef(s, basic) ==
    /\ daily_persist' = [daily_persist EXCEPT ![s] =
           [prev |-> IF @.prev = 0 THEN basic ELSE @.prev, basic |-> basic]]
    /\ secdef_sets' = secdef_sets \cup {[sym |-> s, basic |-> basic]}
    /\ UNCHANGED <<now, cells, live_candles, tick_buffer, kafka_buffer,
                   daily_buffer, quote_buffer, flush, rest, redis, topic,
                   faults, aux>>

SetSecdef(w) ==
    LET pipe == [EmptyPipe EXCEPT !.secdef[w.sym] = w.basic] IN
    /\ secdef_sets' = secdef_sets \ {w}
    /\ Executed(pipe) \/ Raised(pipe)
    /\ UNCHANGED <<now, memory, flush, rest, topic, aux>>

HandleQuote(s, q) ==
    /\ quote_buffer' = [quote_buffer EXCEPT ![s] = q]
    /\ UNCHANGED <<now, cells, live_candles, tick_buffer, kafka_buffer,
                   daily_persist, daily_buffer, secdef_sets, flush, rest,
                   redis, topic, faults, aux>>

-----------------------------------------------------------------------------
(* The buffer flusher: every 200 ms, forever. *)

\* The persistent reference data, updated with the intraday values.
Merged(s) ==
    LET d == daily_buffer[s] IN
    [prev |-> daily_persist[s].prev, basic |-> daily_persist[s].basic,
     close |-> d.close, high |-> d.high, low |-> d.low, pct |-> d.pct]

FlushPipe ==
    [tick   |-> [s \in Symbols |-> IF tick_buffer[s] = 0 THEN None
                                   ELSE cells[tick_buffer[s]]],
     daily  |-> [s \in Symbols |-> IF daily_buffer[s] = None THEN None
                                   ELSE Merged(s)],
     quote  |-> quote_buffer,
     secdef |-> Nothing]

\* The bug: one empty buffer is enough to return early.
SomethingMissing ==
    tick_buffer = NoCell \/ daily_buffer = Nothing \/ quote_buffer = Nothing

NothingToFlush ==
    tick_buffer = NoCell /\ daily_buffer = Nothing /\ quote_buffer = Nothing

\* All four buffers are swapped, then the early return does not look at the
\* Kafka buffer.
FlushStart ==
    /\ flush.pc = "sleep"
    /\ tick_buffer' = NoCell /\ kafka_buffer' = <<>>
    /\ daily_buffer' = Nothing /\ quote_buffer' = Nothing
    /\ IF NothingToFlush
       THEN UNCHANGED flush
       ELSE flush' = [pc |-> "redis", pipe |-> FlushPipe,
                      kafkas |-> kafka_buffer]
    /\ UNCHANGED <<now, cells, live_candles, daily_persist, secdef_sets, rest,
                   redis, topic, faults, aux>>

\* The bug: the tick buffer is cleared after the await.
FlushRedisClears ==
    /\ flush.pc = "redis"
    /\ Executed(flush.pipe) \/ Raised(flush.pipe)
    /\ flush' = [flush EXCEPT !.pc = "kafka", !.pipe = EmptyPipe]
    /\ tick_buffer' = NoCell
    /\ UNCHANGED <<now, cells, live_candles, kafka_buffer, daily_persist,
                   daily_buffer, quote_buffer, secdef_sets, rest, topic, aux>>

\* The bug: a Redis error skips the Kafka part.
FlushRedisReturns ==
    /\ flush.pc = "redis"
    /\ \/ /\ Executed(flush.pipe)
          /\ flush' = [flush EXCEPT !.pc = "kafka", !.pipe = EmptyPipe]
       \/ /\ Raised(flush.pipe)
          /\ flush' = IdleFlush
    /\ UNCHANGED <<now, memory, secdef_sets, rest, topic, aux>>

\* The pipeline takes effect, or raises: the swapped data is not kept.
FlushRedis ==
    /\ flush.pc = "redis"
    /\ Executed(flush.pipe) \/ Raised(flush.pipe)
    /\ flush' = [flush EXCEPT !.pc = "kafka", !.pipe = EmptyPipe]
    /\ UNCHANGED <<now, memory, secdef_sets, rest, topic, aux>>

\* A candle is encoded when it is sent, not when it was buffered.
FlushKafka ==
    /\ flush.pc = "kafka"
    /\ flush.kafkas # <<>>
    /\ flush' = [flush EXCEPT !.kafkas = Tail(@)]
    /\ Send(cells[Head(flush.kafkas)])
    /\ UNCHANGED <<now, memory, secdef_sets, rest, redis, aux>>

FlushDone ==
    /\ flush.pc = "kafka"
    /\ flush.kafkas = <<>>
    /\ flush' = IdleFlush
    /\ UNCHANGED <<now, memory, secdef_sets, rest, redis, topic, faults, aux>>

-----------------------------------------------------------------------------
(* Batch layer: the REST cycle. *)

RestGoto(pc) == rest' = [rest EXCEPT !.pc = pc, !.pipe = EmptyPipe]

\* Everything the cycle does not touch while it moves along.
RestOnly == UNCHANGED <<now, memory, secdef_sets, flush, redis, topic, faults,
                        aux>>

RestTop ==
    /\ rest.pc = "top"
    /\ rest' = [rest EXCEPT
           !.cycle_start = now,
           !.pc = IF now - rest.last_daily_fetch >= DailyRefresh
                  THEN "gather" ELSE "market"]
    /\ RestOnly

\* _fetch_daily: an intraday or completed session against the close before
\* it, or, when today's bar is not published, a placeholder at that close.
DailyOf(p, bar) ==
    [prev |-> p, basic |-> p, close |-> bar.close, high |-> bar.high,
     low |-> bar.low, pct |-> ChangePct(bar.close, p)]

FetchDaily == {DailyOf(p, b) : p \in RestPrices, b \in Bars(RestPrices)}

\* The answers are in: memory is updated at once, Redis by the pipeline.
RestDaily ==
    /\ rest.pc = "gather"
    /\ \E d \in [Symbols -> FetchDaily \cup {None}] :
        /\ daily_persist' = [s \in Symbols |->
               IF d[s] = None THEN daily_persist[s]
               ELSE [prev |-> d[s].prev, basic |-> d[s].basic]]
        /\ rest_prev' = [s \in Symbols |->
               IF d[s] = None THEN rest_prev[s] ELSE d[s].prev]
        /\ IF d = Nothing
           THEN rest' = [rest EXCEPT !.pc = "market",
                                     !.last_daily_fetch = rest.cycle_start]
           ELSE rest' = [rest EXCEPT !.pc = "daily_exec", !.pipe =
                    [EmptyPipe EXCEPT
                       !.daily = d,
                       !.secdef = [s \in Symbols |->
                           IF d[s] = None THEN None ELSE d[s].basic]]]
    /\ UNCHANGED <<now, cells, live_candles, tick_buffer, kafka_buffer,
                   daily_buffer, quote_buffer, secdef_sets, flush, redis,
                   topic, faults, trade_vol>>

\* An exception leaves last_daily_fetch alone and ends the cycle.
RestDailyExec ==
    /\ rest.pc = "daily_exec"
    /\ \/ /\ Executed(rest.pipe)
          /\ rest' = [rest EXCEPT !.pc = "market", !.pipe = EmptyPipe,
                                  !.last_daily_fetch = rest.cycle_start]
       \/ /\ Raised(rest.pipe)
          /\ RestGoto("sleep")
    /\ UNCHANGED <<now, memory, secdef_sets, flush, topic, aux>>

RestMarket(open) ==
    /\ rest.pc = "market"
    /\ IF ~open /\ ~rest.first_run
       THEN RestGoto("sleep")
       ELSE rest' = [rest EXCEPT !.pc = "fetch", !.first_run = FALSE]
    /\ RestOnly

\* _fetch_finalized_candle: a minute that is over.
FinalCandles(s) ==
    {Candle(s, t, b, v, "DNSE") :
        t \in 0..(now - 1), b \in Bars(RestPrices), v \in Volumes}

RestFetch ==
    /\ rest.pc = "fetch"
    /\ \E c \in [Symbols -> UNION {FinalCandles(s) : s \in Symbols}
                            \cup {None}] :
        /\ \A s \in Symbols : c[s] \in FinalCandles(s) \cup {None}
        /\ IF c = Nothing
           THEN RestGoto("sleep")
           ELSE rest' = [rest EXCEPT !.pc = "mget", !.candles = c]
    /\ RestOnly

\* A tick is written only where Redis has none or an older one.
Newer(s) == /\ rest.candles[s] # None
            /\ redis.tick[s] = None \/ rest.candles[s].time > redis.tick[s].time

RestMgetTicks ==
    /\ rest.pc = "mget"
    /\ rest' = [rest EXCEPT !.pc = "exec", !.pipe = [EmptyPipe EXCEPT
           !.tick = [s \in Symbols |-> IF Newer(s) THEN rest.candles[s]
                                       ELSE None]]]
    /\ RestOnly

\* Either mget raises: the cycle ends.
RestMgetRaises ==
    /\ rest.pc \in {"mget", "mget_daily"}
    /\ faults["redis"] < MaxFaults["redis"]
    /\ faults' = [faults EXCEPT !["redis"] = @ + 1]
    /\ RestGoto("sleep")
    /\ UNCHANGED <<now, memory, secdef_sets, flush, redis, topic, aux>>

RestExecTicks ==
    /\ rest.pc = "exec"
    /\ \/ Executed(rest.pipe) /\ RestGoto("mget_daily")
       \/ Raised(rest.pipe) /\ RestGoto("sleep")
    /\ UNCHANGED <<now, memory, secdef_sets, flush, topic, aux>>

\* The day's values, moved by the finalized candle.
Patched(d, c) ==
    LET high == Max2(d.high, c.high)
        low  == IF d.low = 0 THEN c.low ELSE Min2(d.low, c.low)
        ref  == IF d.prev = 0 THEN d.basic ELSE d.prev
    IN  [d EXCEPT !.close = c.close, !.high = high, !.low = low,
                  !.pct = IF ref > 0 THEN ChangePct(c.close, ref) ELSE @]

Moves(d, c) == c.close # d.close \/ c.high > d.high
               \/ d.low = 0 \/ c.low < d.low

RestMgetDailies ==
    /\ rest.pc = "mget_daily"
    /\ rest' = [rest EXCEPT !.pc = "patch", !.pipe = [EmptyPipe EXCEPT
           !.daily = [s \in Symbols |->
               IF /\ rest.candles[s] # None /\ redis.daily[s] # None
                  /\ Moves(redis.daily[s], rest.candles[s])
               THEN Patched(redis.daily[s], rest.candles[s]) ELSE None]]]
    /\ RestOnly

RestPatchDailies ==
    /\ rest.pc = "patch"
    /\ \/ /\ Executed(rest.pipe)
          /\ rest' = [rest EXCEPT !.pc = "kafka", !.pipe = EmptyPipe,
                 !.unsent = IF KafkaEnabled
                            THEN {s \in Symbols : rest.candles[s] # None}
                            ELSE {}]
       \/ Raised(rest.pipe) /\ RestGoto("sleep")
    /\ UNCHANGED <<now, memory, secdef_sets, flush, topic, aux>>

RestKafka(s) ==
    /\ rest.pc = "kafka" /\ s \in rest.unsent
    /\ rest' = [rest EXCEPT !.unsent = @ \ {s}]
    /\ Send(rest.candles[s])
    /\ UNCHANGED <<now, memory, secdef_sets, flush, redis, aux>>

RestKafkaDone ==
    /\ rest.pc = "kafka" /\ rest.unsent = {}
    /\ RestGoto("sleep")
    /\ RestOnly

\* REST_INTERVAL is a minute from the start of the cycle.
RestWake ==
    /\ rest.pc = "sleep"
    /\ now > rest.cycle_start
    /\ rest' = [rest EXCEPT !.pc = "top", !.candles = Nothing]
    /\ RestOnly

-----------------------------------------------------------------------------
(* The container is restarted: by a signal, whose handler cancels the tasks *)
(* without a last flush, or by a crash.  Redis and Kafka keep their data.   *)
Restart ==
    /\ faults["restart"] < MaxFaults["restart"]
    /\ faults' = [faults EXCEPT !["restart"] = @ + 1]
    /\ live_candles' = NoCell /\ tick_buffer' = NoCell /\ kafka_buffer' = <<>>
    /\ daily_persist' = NoRef /\ daily_buffer' = Nothing
    /\ quote_buffer' = Nothing
    /\ secdef_sets' = {}
    /\ flush' = IdleFlush
    /\ rest' = FirstCycle
    /\ trade_vol' = Zero /\ rest_prev' = Zero
    /\ UNCHANGED <<now, cells, redis, topic>>

SpeedLayer ==
    \E s \in Symbols :
        \/ /\ "trade" \in Channels
           /\ \E p \in Prices, q \in Quantities : HandleTrade(s, p, q)
        \/ /\ "ohlc_1m" \in Channels
           /\ \E t \in 0..now, b \in Bars(Prices), v \in Volumes :
                  HandleOhlc1m(s, t, b, v)
        \/ /\ "ohlc_1d" \in Channels
           /\ \E b \in Bars(Prices) : HandleOhlc1d(s, b)
        \/ /\ "secdef" \in Channels
           /\ \E basic \in SecDefs : HandleSecdef(s, basic)
        \/ /\ "quote" \in Channels
           /\ \E q \in Quotes : HandleQuote(s, q)

Flusher == FlushStart \/ FlushRedis \/ FlushKafka \/ FlushDone

BatchLayer ==
    \/ RestTop \/ RestDaily \/ RestDailyExec
    \/ \E open \in BOOLEAN : RestMarket(open)
    \/ RestFetch \/ RestMgetTicks \/ RestMgetRaises \/ RestExecTicks
    \/ RestMgetDailies \/ RestPatchDailies
    \/ \E s \in Symbols : RestKafka(s)
    \/ RestKafkaDone \/ RestWake

Next == \/ Minute
        \/ SpeedLayer
        \/ \E w \in secdef_sets : SetSecdef(w)
        \/ Flusher
        \/ "rest" \in Channels /\ BatchLayer
        \/ Restart

Spec == Init /\ [][Next]_vars

\* The flusher sleeps 0.2 s and flushes for as long as the process runs, and
\* each of its awaits ends: with an answer, or with an exception.
FairSpec == /\ Spec
            /\ WF_vars(FlushStart) /\ WF_vars(FlushRedis)
            /\ WF_vars(FlushKafka) /\ WF_vars(FlushDone)

-----------------------------------------------------------------------------
(* Properties *)

Keyed(S) == [Symbols -> S \cup {None}]
Pipes == [tick: Keyed(Candles), daily: Keyed(Dailies), quote: Keyed(Quotes),
          secdef: Keyed(Nat)]

RestPcs == {"top", "gather", "daily_exec", "market", "fetch", "mget", "exec",
            "mget_daily", "patch", "kafka", "sleep"}

\* Every variable has the type of the Python value it stands for.
TypeOK ==
    /\ now \in Nat
    /\ cells \in [CellIds -> Candles]
    /\ live_candles \in [Symbols -> CellIds \cup {0}]
    /\ tick_buffer \in [Symbols -> CellIds \cup {0}]
    /\ kafka_buffer \in Seq(CellIds)
    /\ daily_persist \in [Symbols -> [prev: Nat, basic: Nat]]
    /\ daily_buffer \in Keyed(Intraday)
    /\ quote_buffer \in Keyed(Quotes)
    /\ secdef_sets \subseteq [sym: Symbols, basic: Nat]
    /\ flush \in [pc: {"sleep", "redis", "kafka"}, pipe: Pipes,
                  kafkas: Seq(CellIds)]
    /\ rest \in [pc: RestPcs, first_run: BOOLEAN, cycle_start: Nat,
                 last_daily_fetch: Int, candles: Keyed(Candles),
                 pipe: Pipes, unsent: SUBSET Symbols]
    /\ redis \in Pipes
    /\ topic \in Keyed(Candles)
    /\ faults \in [FaultKind -> Nat]
    /\ trade_vol \in [Symbols -> Nat]
    /\ rest_prev \in [Symbols -> Nat]

\* What waits in the tick buffer is the live candle itself and never one that
\* was replaced, so a flush always shows the latest state of a symbol
\* (producer.py:232, "latest wins").
TickBufferIsLive ==
    \A s \in Symbols : tick_buffer[s] \in {0, live_candles[s]}

\* A Kafka record never waits alone: its symbol's tick waits with it.  The
\* early return of _flush_buffers looks at the other three buffers only,
\* after all four were swapped (producer.py:253).
KafkaRidesWithTicks ==
    \A i \in DOMAIN kafka_buffer : tick_buffer[cells[kafka_buffer[i]].sym] # 0

\* A reference to cell c waits to be encoded and sent.
Unsent(c) == \/ \E i \in DOMAIN kafka_buffer : kafka_buffer[i] = c
             \/ \E i \in DOMAIN flush.kafkas : flush.kafkas[i] = c

\* As long as no send fails, whatever happens to Redis, a live candle that no
\* record waits for is the last one its key has on the topic, in its current
\* state, unless the batch layer sent a candle of its own after it
\* (producer.py:275-284, 303-307).
KafkaCaughtUp ==
    KafkaEnabled /\ faults["kafka"] = 0 =>
        \A s \in Symbols :
            live_candles[s] # 0 /\ ~Unsent(live_candles[s])
            => /\ topic[s] # None
               /\ topic[s].src = "DNSE_WS" => topic[s] = cells[live_candles[s]]

\* As long as Redis answers, a symbol with nothing waiting to be flushed shows
\* its live candle in Redis, unless the batch layer put a candle of its own
\* there (producer.py:239-273).
RedisCaughtUp ==
    faults["redis"] = 0 =>
        \A s \in Symbols :
            live_candles[s] # 0 /\ tick_buffer[s] = 0 /\ flush.pipe.tick[s] = None
            => /\ redis.tick[s] # None
               /\ redis.tick[s].src = "DNSE_WS" =>
                      redis.tick[s] = cells[live_candles[s]]

\* Once the batch layer has set a symbol's prevClose, security-definition
\* events do not override it (producer.py:396-400, 418-424).
PrevCloseAuthority ==
    \A s \in Symbols : rest_prev[s] # 0 => daily_persist[s].prev = rest_prev[s]

\* The live candle of the current minute holds every trade of the minute
\* (producer.py:19, "builds live 1m candle from individual trades").
TradesCounted ==
    \A s \in Symbols : CurrentCandle(s) =>
        cells[live_candles[s]].vol >= trade_vol[s]

\* A buffered tick reaches Redis, in its latest state, unless the process is
\* restarted first (producer.py:229-232, 287-291).
BufferedTickShown ==
    \A s \in Symbols : tick_buffer[s] # 0 ~>
        (live_candles[s] = 0 \/ redis.tick[s] = cells[live_candles[s]])

\* The batch layer never replaces a tick in Redis by an older candle
\* (producer.py:753-754, "WS data is newer, skip").
RestKeepsNewerTick ==
    [][rest.pc = "exec" /\ rest'.pc # "exec" =>
        \A s \in Symbols :
            redis.tick[s] # None => redis.tick[s].time <= redis'.tick[s].time]_vars

\* A flush of intraday values never wipes prevClose from a symbol's daily
\* record in Redis (producer.py:262-263).
FlushKeepsPrevClose ==
    [][flush.pc = "redis" /\ flush'.pc = "kafka" =>
        \A s \in Symbols :
            redis.daily[s] # None /\ redis.daily[s].prev # 0
            => redis'.daily[s].prev # 0]_vars

\* The changePct of a daily record is that of the prevClose it stands next to
\* (producer.py:225-226, "so _handle_ohlc_1d can always compute changePct
\* correctly").
ChangePctMatches ==
    \A s \in Symbols :
        LET d == redis.daily[s] IN
        d # None => (d.prev # 0 /\ d.pct # None => d.pct = ChangePct(d.close, d.prev))

=============================================================================
