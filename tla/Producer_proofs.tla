-------------------------- MODULE Producer_proofs --------------------------
(***************************************************************************)
(* Theorems about the producer, for every set of symbols, prices, volumes, *)
(* channels and bounds that ProducerAssumption allows: the types; and what *)
(* reaches Redis and Kafka, of the buffers, which share candles with the   *)
(* speed layer, and of the two stores behind them.                         *)
(***************************************************************************)
EXTENDS Producer, TLAPS

-----------------------------------------------------------------------------
(* Types of the operators *)

\* Later values over earlier ones keep the type of both (a Redis SET).
LEMMA OverlayType ==
    ASSUME NEW S, NEW old \in Keyed(S), NEW new \in Keyed(S)
    PROVE  Overlay(old, new) \in Keyed(S)
BY DEF Keyed, Overlay

\* A pipeline that sets nothing is a pipeline (r.pipeline()).
LEMMA EmptyPipeType == EmptyPipe \in Pipes
BY DEF EmptyPipe, Nothing, Pipes, Keyed

\* A pipeline applied to the database gives a database (pipe.execute()).
LEMMA ExecuteType ==
    ASSUME redis \in Pipes, NEW p \in Pipes
    PROVE  Execute(p) \in Pipes
<1>1. /\ Overlay(redis.tick, p.tick) \in Keyed(Candles)
      /\ Overlay(redis.daily, p.daily) \in Keyed(Dailies)
      /\ Overlay(redis.quote, p.quote) \in Keyed(Quotes)
      /\ Overlay(redis.secdef, p.secdef) \in Keyed(Nat)
  BY OverlayType DEF Pipes
<1>2. QED
  BY <1>1 DEF Execute, Pipes

\* An attempt to execute a pipeline, failed or not, keeps the types.
LEMMA AttemptType ==
    ASSUME TypeOK, NEW p \in Pipes, Executed(p) \/ Raised(p)
    PROVE  redis' \in Pipes /\ faults' \in [FaultKind -> Nat]
<1>1. redis \in Pipes /\ faults \in [FaultKind -> Nat]
  BY DEF TypeOK
<1>2. Execute(p) \in Pipes
  BY <1>1, ExecuteType
<1>3. CASE Executed(p)
  BY <1>1, <1>2, <1>3 DEF Executed
<1>4. CASE Raised(p)
  <2>1. [faults EXCEPT !["redis"] = @ + 1] \in [FaultKind -> Nat]
    BY <1>1 DEF FaultKind
  <2>2. QED
    BY <1>1, <1>2, <1>4, <2>1 DEF Raised
<1>5. QED
  BY <1>3, <1>4

\* A send, failed or not, keeps the types (kafka.send).
LEMMA SendType ==
    ASSUME TypeOK, NEW c \in Candles, Send(c)
    PROVE  topic' \in Keyed(Candles) /\ faults' \in [FaultKind -> Nat]
<1>1. topic \in Keyed(Candles) /\ faults \in [FaultKind -> Nat]
  BY DEF TypeOK
<1>2. [topic EXCEPT ![c.sym] = c] \in Keyed(Candles)
  BY <1>1 DEF Keyed
<1>3. [faults EXCEPT !["kafka"] = @ + 1] \in [FaultKind -> Nat]
  BY <1>1 DEF FaultKind
<1>4. QED
  BY <1>1, <1>2, <1>3 DEF Send

\* The fresh cell is a cell that nothing refers to.
LEMMA FreshCellType ==
    ASSUME FreeCells # {}
    PROVE  FreshCell \in CellIds /\ FreshCell \notin Referenced
BY DEF FreshCell, FreeCells

\* A candle made of a symbol, a minute, a bar and a volume is a candle.
LEMMA CandleType ==
    ASSUME NEW s \in Symbols, NEW t \in Nat,
           NEW b \in [high: Nat, low: Nat, close: Nat], NEW v \in Nat,
           NEW src \in {"DNSE_WS", "DNSE"}
    PROVE  Candle(s, t, b, v, src) \in Candles
BY DEF Candle, Candles

\* The numbers the producer is given are natural numbers.
LEMMA ConstantTypes ==
    /\ Prices \subseteq Nat /\ RestPrices \subseteq Nat
    /\ SecDefs \subseteq Nat /\ Volumes \subseteq Nat /\ Quantities \subseteq Nat
    /\ \A p \in RestPrices : p > 0
BY ProducerAssumption

\* Bars over a set of numbers are records of numbers.
LEMMA BarType ==
    ASSUME NEW S, S \subseteq Nat, NEW b \in Bars(S)
    PROVE  b \in [high: Nat, low: Nat, close: Nat]
BY DEF Bars

\* A trade keeps a candle a candle (producer.py:332-336).
LEMMA TradedType ==
    ASSUME NEW c \in Candles, NEW p \in Nat, NEW q \in Nat
    PROVE  Traded(c, p, q) \in Candles /\ Traded(c, p, q).sym = c.sym
<1>1. Max2(c.high, p) \in Nat /\ Min2(c.low, p) \in Nat /\ c.vol + q \in Nat
  BY DEF Candles, Max2, Min2
<1>2. Traded(c, p, q) = [c EXCEPT !.high = Max2(c.high, p),
                                  !.low = Min2(c.low, p),
                                  !.close = p, !.vol = c.vol + q]
  BY DEF Traded, Candles
<1>3. QED
  BY <1>1, <1>2 DEF Candles

\* An unused dictionary has the type of a candle.
LEMMA UnusedCellType == UnusedCell \in Candles
<1>1. (CHOOSE s \in Symbols : TRUE) \in Symbols
  BY ProducerAssumption
<1>2. QED
  BY <1>1, CandleType DEF UnusedCell

\* changePct is a number.
LEMMA ChangePctType ==
    ASSUME NEW c \in Nat, NEW r \in Nat, r > 0
    PROVE  ChangePct(c, r) \in Int
BY DEF ChangePct

\* What the daily endpoint of the REST API gives is a daily record.
LEMMA FetchDailyType ==
    ASSUME NEW d \in FetchDaily
    PROVE  d \in Dailies
<1>1. PICK p \in RestPrices, b \in Bars(RestPrices) : d = DailyOf(p, b)
  BY DEF FetchDaily
<1>2. p \in Nat /\ p > 0 /\ b \in [high: Nat, low: Nat, close: Nat]
  BY BarType, ConstantTypes
<1>3. ChangePct(b.close, p) \in Int
  BY <1>2, ChangePctType
<1>4. QED
  BY <1>1, <1>2, <1>3 DEF DailyOf, Dailies

\* A finalized candle of a symbol is a candle of the batch layer.
LEMMA FinalCandlesType ==
    ASSUME now \in Nat, NEW s \in Symbols, NEW c \in FinalCandles(s)
    PROVE  c \in Candles /\ c.sym = s /\ c.src = "DNSE"
<1>1. PICK t \in 0..(now - 1), b \in Bars(RestPrices), v \in Volumes :
          c = Candle(s, t, b, v, "DNSE")
  BY DEF FinalCandles
<1>2. t \in Nat
  OBVIOUS
<1>3. v \in Nat /\ b \in [high: Nat, low: Nat, close: Nat]
  BY BarType, ConstantTypes
<1>4. c \in Candles
  BY <1>1, <1>2, <1>3, CandleType
<1>5. QED
  BY <1>1, <1>4 DEF Candle

\* A daily record moved by a candle is a daily record (producer.py:768-785).
LEMMA PatchedType ==
    ASSUME NEW d \in Dailies, NEW c \in Candles
    PROVE  Patched(d, c) \in Dailies
<1> DEFINE ref == IF d.prev = 0 THEN d.basic ELSE d.prev
<1>1. /\ d.prev \in Nat /\ d.basic \in Nat /\ d.high \in Nat /\ d.low \in Nat
      /\ d.pct \in Int \cup {None}
      /\ c.close \in Nat /\ c.high \in Nat /\ c.low \in Nat
  BY DEF Dailies, Candles
<1>2. ref > 0 => ChangePct(c.close, ref) \in Int
  BY <1>1, ChangePctType
<1>3. /\ Max2(d.high, c.high) \in Nat
      /\ (IF d.low = 0 THEN c.low ELSE Min2(d.low, c.low)) \in Nat
  BY <1>1 DEF Max2, Min2
<1>4. QED
  BY <1>1, <1>2, <1>3 DEF Patched, Dailies

-----------------------------------------------------------------------------
(* Type correctness *)

\* The producer starts with values of the right type.
LEMMA TypeInit == Init => TypeOK
<1> SUFFICES ASSUME Init PROVE TypeOK
  OBVIOUS
<1>1. EmptyPipe \in Pipes /\ UnusedCell \in Candles
  BY EmptyPipeType, UnusedCellType
<1>2. /\ NoCell \in [Symbols -> CellIds \cup {0}]
      /\ Nothing \in Keyed(Intraday) /\ Nothing \in Keyed(Quotes)
      /\ Nothing \in Keyed(Candles)
      /\ Zero \in [Symbols -> Nat]
      /\ NoRef \in [Symbols -> [prev: Nat, basic: Nat]]
      /\ <<>> \in Seq(CellIds)
  BY DEF NoCell, Nothing, Keyed, Zero, NoRef
<1>3. IdleFlush \in [pc: {"sleep", "redis", "kafka"}, pipe: Pipes,
                     kafkas: Seq(CellIds)]
  BY <1>1, <1>2 DEF IdleFlush
<1>4. FirstCycle \in [pc: RestPcs, first_run: BOOLEAN, cycle_start: Nat,
                      last_daily_fetch: Int, candles: Keyed(Candles),
                      pipe: Pipes, unsent: SUBSET Symbols]
  <2>1. -DailyRefresh \in Int
    BY ProducerAssumption
  <2>2. QED
    BY <1>1, <1>2, <2>1 DEF FirstCycle, RestPcs
<1>5. QED
  BY <1>1, <1>2, <1>3, <1>4 DEF Init, TypeOK

\* The publication of a cell appends it to the buffer or leaves the buffer.
LEMMA PublishType ==
    ASSUME TypeOK, NEW c \in CellIds, PublishKafka(c)
    PROVE  kafka_buffer' \in Seq(CellIds)
<1>1. kafka_buffer \in Seq(CellIds)
  BY DEF TypeOK
<1>2. QED
  BY <1>1 DEF PublishKafka

\* A new live candle keeps the types of the four variables it changes.
LEMMA StartCandleType ==
    ASSUME TypeOK, NEW s \in Symbols, NEW candle \in Candles,
           StartCandle(s, candle)
    PROVE  /\ cells' \in [CellIds -> Candles]
           /\ live_candles' \in [Symbols -> CellIds \cup {0}]
           /\ tick_buffer' \in [Symbols -> CellIds \cup {0}]
           /\ kafka_buffer' \in Seq(CellIds)
<1>1. FreshCell \in CellIds
  BY FreshCellType DEF StartCandle
<1>2. kafka_buffer' \in Seq(CellIds)
  BY <1>1, PublishType DEF StartCandle
<1>3. cells' \in [CellIds -> Candles]
  BY UnusedCellType DEF StartCandle, TypeOK
<1>4. QED
  BY <1>1, <1>2, <1>3 DEF StartCandle, WriteTick, TypeOK

\* A trade in the live candle keeps the types of the variables it changes.
LEMMA ExtendCandleType ==
    ASSUME TypeOK, NEW s \in Symbols, NEW p \in Nat, NEW q \in Nat,
           CurrentCandle(s), ExtendCandle(s, p, q)
    PROVE  /\ cells' \in [CellIds -> Candles]
           /\ live_candles' \in [Symbols -> CellIds \cup {0}]
           /\ tick_buffer' \in [Symbols -> CellIds \cup {0}]
           /\ kafka_buffer' \in Seq(CellIds)
<1>1. live_candles[s] \in CellIds
  BY DEF TypeOK, CurrentCandle
<1>2. kafka_buffer' \in Seq(CellIds)
  BY <1>1, PublishType DEF ExtendCandle
<1>3. cells[live_candles[s]] \in Candles /\ cells \in [CellIds -> Candles]
  BY <1>1 DEF TypeOK
<1>4. cells' = [cells EXCEPT ![live_candles[s]] =
                   Traded(cells[live_candles[s]], p, q)]
  BY <1>1, <1>3 DEF ExtendCandle
<1>5. cells' \in [CellIds -> Candles]
  BY <1>3, <1>4, TradedType
<1>6. QED
  BY <1>1, <1>2, <1>5 DEF ExtendCandle, WriteTick, TypeOK

\* A callback of the speed layer keeps the types.
LEMMA SpeedLayerType ==
    ASSUME TypeOK, SpeedLayer
    PROVE  TypeOK'
<1>1. PICK s \in Symbols :
         \/ \E p \in Prices, q \in Quantities : HandleTrade(s, p, q)
         \/ \E t \in 0..now, b \in Bars(Prices), v \in Volumes :
                HandleOhlc1m(s, t, b, v)
         \/ \E b \in Bars(Prices) : HandleOhlc1d(s, b)
         \/ \E basic \in SecDefs : HandleSecdef(s, basic)
         \/ \E q \in Quotes : HandleQuote(s, q)
  BY DEF SpeedLayer
<1>2. ASSUME NEW p \in Prices, NEW q \in Quantities, HandleTrade(s, p, q)
      PROVE  TypeOK'
  <2>1. p \in Nat /\ q \in Nat /\ now \in Nat
    BY ConstantTypes DEF TypeOK
  <2>2. /\ cells' \in [CellIds -> Candles]
        /\ live_candles' \in [Symbols -> CellIds \cup {0}]
        /\ tick_buffer' \in [Symbols -> CellIds \cup {0}]
        /\ kafka_buffer' \in Seq(CellIds)
    <3>1. CASE CurrentCandle(s)
      <4>1. ExtendCandle(s, p, q)
        BY <1>2, <3>1 DEF HandleTrade
      <4>2. QED
        BY <2>1, <3>1, <4>1, ExtendCandleType
    <3>2. CASE ~CurrentCandle(s)
      <4> DEFINE candle == Candle(s, now, [high |-> p, low |-> p, close |-> p],
                                  q, "DNSE_WS")
      <4>1. candle \in Candles
        BY <2>1, CandleType
      <4>2. StartCandle(s, candle)
        BY <1>2, <3>2 DEF HandleTrade
      <4> HIDE DEF candle
      <4>3. QED
        BY <4>1, <4>2, StartCandleType
    <3>3. QED
      BY <3>1, <3>2
  <2>3. trade_vol' \in [Symbols -> Nat]
    BY <1>2, <2>1 DEF HandleTrade, TypeOK
  <2>4. QED
    BY <1>2, <2>2, <2>3 DEF HandleTrade, TypeOK
<1>3. ASSUME NEW t \in 0..now, NEW b \in Bars(Prices), NEW v \in Volumes,
             HandleOhlc1m(s, t, b, v)
      PROVE  TypeOK'
  <2>1. t \in Nat /\ v \in Nat /\ b \in [high: Nat, low: Nat, close: Nat]
    <3>1. t \in Nat
      BY DEF TypeOK
    <3>2. QED
      BY <3>1, BarType, ConstantTypes
  <2>2. Candle(s, t, b, v, "DNSE_WS") \in Candles
    BY <2>1, CandleType
  <2>3. QED
    BY <1>3, <2>2, StartCandleType DEF HandleOhlc1m, TypeOK, aux
<1>4. ASSUME NEW b \in Bars(Prices), HandleOhlc1d(s, b)
      PROVE  TypeOK'
  <2>1. b \in [high: Nat, low: Nat, close: Nat]
    BY BarType, ConstantTypes
  <2> DEFINE ref == daily_persist[s].prev
             old == IF daily_buffer[s] = None THEN None ELSE daily_buffer[s].pct
             pct == IF ref > 0 THEN ChangePct(b.close, ref) ELSE old
  <2>2. ref \in Nat /\ old \in Int \cup {None}
    BY DEF TypeOK, Keyed, Intraday
  <2>3. pct \in Int \cup {None}
    BY <2>1, <2>2, ChangePctType
  <2>4. [close |-> b.close, high |-> b.high, low |-> b.low, pct |-> pct]
           \in Intraday
    BY <2>1, <2>3 DEF Intraday
  <2>5. daily_buffer' \in Keyed(Intraday)
    BY <1>4, <2>4 DEF HandleOhlc1d, TypeOK, Keyed
  <2>6. QED
    BY <1>4, <2>5 DEF HandleOhlc1d, TypeOK, aux
<1>5. ASSUME NEW basic \in SecDefs, HandleSecdef(s, basic)
      PROVE  TypeOK'
  <2>1. basic \in Nat
    BY ConstantTypes
  <2>2. daily_persist' \in [Symbols -> [prev: Nat, basic: Nat]]
    BY <1>5, <2>1 DEF HandleSecdef, TypeOK
  <2>3. secdef_sets' \subseteq [sym: Symbols, basic: Nat]
    BY <1>5, <2>1 DEF HandleSecdef, TypeOK
  <2>4. QED
    BY <1>5, <2>2, <2>3 DEF HandleSecdef, TypeOK, aux
<1>6. ASSUME NEW q \in Quotes, HandleQuote(s, q)
      PROVE  TypeOK'
  <2>1. quote_buffer' \in Keyed(Quotes)
    BY <1>6 DEF HandleQuote, TypeOK, Keyed
  <2>2. QED
    BY <1>6, <2>1 DEF HandleQuote, TypeOK, aux
<1>7. QED
  BY <1>1, <1>2, <1>3, <1>4, <1>5, <1>6

\* The pipeline that a flush builds is a pipeline.
LEMMA FlushPipeType ==
    ASSUME TypeOK
    PROVE  FlushPipe \in Pipes
<1>1. ASSUME NEW s \in Symbols, daily_buffer[s] # None
      PROVE  Merged(s) \in Dailies
  <2>1. daily_buffer[s] \in Intraday /\ daily_persist[s] \in [prev: Nat, basic: Nat]
    BY <1>1 DEF TypeOK, Keyed
  <2>2. QED
    BY <2>1 DEF Merged, Intraday, Dailies
<1>2. [s \in Symbols |-> IF daily_buffer[s] = None THEN None ELSE Merged(s)]
         \in Keyed(Dailies)
  BY <1>1 DEF Keyed
<1>3. [s \in Symbols |-> IF tick_buffer[s] = 0 THEN None
                        ELSE cells[tick_buffer[s]]] \in Keyed(Candles)
  BY DEF TypeOK, Keyed
<1>4. quote_buffer \in Keyed(Quotes) /\ Nothing \in Keyed(Nat)
  BY DEF TypeOK, Keyed, Nothing
<1>5. QED
  BY <1>2, <1>3, <1>4 DEF FlushPipe, Pipes

\* A step of the flusher keeps the types.
LEMMA FlusherType ==
    ASSUME TypeOK, Flusher
    PROVE  TypeOK'
<1>1. flush \in [pc: {"sleep", "redis", "kafka"}, pipe: Pipes,
                kafkas: Seq(CellIds)]
  BY DEF TypeOK
<1>2. CASE FlushStart
  <2>1. /\ NoCell \in [Symbols -> CellIds \cup {0}] /\ <<>> \in Seq(CellIds)
        /\ Nothing \in Keyed(Intraday) /\ Nothing \in Keyed(Quotes)
    BY DEF NoCell, Nothing, Keyed
  <2>2. flush' \in [pc: {"sleep", "redis", "kafka"}, pipe: Pipes,
                   kafkas: Seq(CellIds)]
    <3>1. kafka_buffer \in Seq(CellIds)
      BY DEF TypeOK
    <3>2. QED
      BY <1>1, <1>2, <3>1, FlushPipeType DEF FlushStart
  <2>3. QED
    BY <1>2, <2>1, <2>2 DEF FlushStart, TypeOK, aux
<1>3. CASE FlushRedis
  <2>1. redis' \in Pipes /\ faults' \in [FaultKind -> Nat]
    BY <1>1, <1>3, AttemptType DEF FlushRedis
  <2>2. flush' \in [pc: {"sleep", "redis", "kafka"}, pipe: Pipes,
                   kafkas: Seq(CellIds)]
    BY <1>1, <1>3, EmptyPipeType DEF FlushRedis
  <2>3. QED
    BY <1>3, <2>1, <2>2 DEF FlushRedis, TypeOK, memory, aux
<1>4. CASE FlushKafka
  <2>1. Head(flush.kafkas) \in CellIds /\ Tail(flush.kafkas) \in Seq(CellIds)
    BY <1>1, <1>4 DEF FlushKafka
  <2>2. cells[Head(flush.kafkas)] \in Candles
    BY <2>1 DEF TypeOK
  <2>3. topic' \in Keyed(Candles) /\ faults' \in [FaultKind -> Nat]
    BY <1>4, <2>2, SendType DEF FlushKafka
  <2>4. flush' \in [pc: {"sleep", "redis", "kafka"}, pipe: Pipes,
                   kafkas: Seq(CellIds)]
    BY <1>1, <1>4, <2>1 DEF FlushKafka
  <2>5. QED
    BY <1>4, <2>3, <2>4 DEF FlushKafka, TypeOK, memory, aux
<1>5. CASE FlushDone
  <2>1. IdleFlush \in [pc: {"sleep", "redis", "kafka"}, pipe: Pipes,
                      kafkas: Seq(CellIds)]
    BY EmptyPipeType DEF IdleFlush
  <2>2. QED
    BY <1>5, <2>1 DEF FlushDone, TypeOK, memory, aux
<1>6. QED
  BY <1>2, <1>3, <1>4, <1>5 DEF Flusher

\* The batch layer has candles to send only after it fetched them.
UnsentFetched ==
    /\ rest.pc # "kafka" => rest.unsent = {}
    /\ \A s \in rest.unsent : rest.candles[s] # None

RestType == [pc: RestPcs, first_run: BOOLEAN, cycle_start: Nat,
             last_daily_fetch: Int, candles: Keyed(Candles),
             pipe: Pipes, unsent: SUBSET Symbols]

\* Moving to another step of the cycle keeps its type.
LEMMA RestGotoType ==
    ASSUME rest \in RestType, NEW pc \in RestPcs, RestGoto(pc)
    PROVE  rest' \in RestType
BY EmptyPipeType DEF RestGoto, RestType

\* A step of the cycle that only reads keeps the types if it keeps its own.
LEMMA RestOnlyType ==
    ASSUME TypeOK, rest' \in RestType, RestOnly
    PROVE  TypeOK'
BY DEF TypeOK, RestType, RestOnly, memory, aux

\* The daily refresh keeps the types (producer.py:696-717).
LEMMA RestDailyType ==
    ASSUME TypeOK, RestDaily
    PROVE  TypeOK'
<1>1. PICK d \in [Symbols -> FetchDaily \cup {None}] :
        /\ daily_persist' = [s \in Symbols |->
               IF d[s] = None THEN daily_persist[s]
               ELSE [prev |-> d[s].prev, basic |-> d[s].basic]]
        /\ rest_prev' = [s \in Symbols |->
               IF d[s] = None THEN rest_prev[s] ELSE d[s].prev]
        /\ IF d = Nothing
           THEN rest' = [rest EXCEPT !.pc = "market",
                                     !.last_daily_fetch = rest.cycle_start]
           ELSE rest' = [rest EXCEPT !.pc = "daily_exec", !.pipe =
                    [EmptyPipe EXCEPT
                       !.daily = d,
                       !.secdef = [s \in Symbols |->
                           IF d[s] = None THEN None ELSE d[s].basic]]]
  BY DEF RestDaily
<1>2. ASSUME NEW s \in Symbols, d[s] # None
      PROVE  d[s] \in Dailies /\ d[s].prev \in Nat /\ d[s].basic \in Nat
  <2>1. d[s] \in Dailies
    BY <1>2, FetchDailyType
  <2>2. QED
    BY <2>1 DEF Dailies
<1>3. daily_persist' \in [Symbols -> [prev: Nat, basic: Nat]]
  BY <1>1, <1>2 DEF TypeOK
<1>4. rest_prev' \in [Symbols -> Nat]
  BY <1>1, <1>2 DEF TypeOK
<1>5. rest \in RestType /\ rest.cycle_start \in Int
  BY DEF TypeOK, RestType
<1>6. [EmptyPipe EXCEPT !.daily = d,
                        !.secdef = [s \in Symbols |->
                            IF d[s] = None THEN None ELSE d[s].basic]] \in Pipes
  <2>1. d \in Keyed(Dailies)
    BY <1>2 DEF Keyed
  <2>2. [s \in Symbols |-> IF d[s] = None THEN None ELSE d[s].basic] \in Keyed(Nat)
    BY <1>2 DEF Keyed
  <2>3. QED
    BY <2>1, <2>2, EmptyPipeType DEF Pipes
<1>7. rest' \in RestType
  <2>1. CASE d = Nothing
    BY <1>1, <1>5, <2>1 DEF RestType, RestPcs
  <2>2. CASE d # Nothing
    BY <1>1, <1>5, <1>6, <2>2 DEF RestType, RestPcs
  <2>3. QED
    BY <2>1, <2>2
<1>8. QED
  BY <1>3, <1>4, <1>7 DEF RestDaily, TypeOK, RestType

\* A step of the batch layer keeps the types.
LEMMA BatchLayerType ==
    ASSUME TypeOK, UnsentFetched, BatchLayer
    PROVE  TypeOK'
<1>1. /\ rest \in RestType /\ rest.pipe \in Pipes
      /\ rest.candles \in Keyed(Candles) /\ rest.cycle_start \in Int
  BY DEF TypeOK, RestType
<1>2. CASE RestTop
  <2>1. rest' \in RestType
    BY <1>1, <1>2 DEF RestTop, RestType, RestPcs, TypeOK
  <2>2. QED
    BY <1>2, <2>1, RestOnlyType DEF RestTop
<1>3. CASE RestDaily
  BY <1>3, RestDailyType
<1>4. CASE RestDailyExec
  <2>1. redis' \in Pipes /\ faults' \in [FaultKind -> Nat]
    BY <1>1, <1>4, AttemptType DEF RestDailyExec
  <2>2. rest' \in RestType
    <3>1. [rest EXCEPT !.pc = "market", !.pipe = EmptyPipe,
                       !.last_daily_fetch = rest.cycle_start] \in RestType
      BY <1>1, EmptyPipeType DEF RestType, RestPcs
    <3>2. CASE RestGoto("sleep")
      BY <1>1, <3>2, RestGotoType DEF RestPcs
    <3>3. QED
      BY <1>4, <3>1, <3>2 DEF RestDailyExec
  <2>3. QED
    BY <1>4, <2>1, <2>2 DEF RestDailyExec, TypeOK, RestType, memory, aux
<1>5. ASSUME NEW open \in BOOLEAN, RestMarket(open)
      PROVE  TypeOK'
  <2>1. [rest EXCEPT !.pc = "fetch", !.first_run = FALSE] \in RestType
    BY <1>1 DEF RestType, RestPcs
  <2>2. rest' \in RestType
    BY <1>1, <1>5, <2>1, RestGotoType DEF RestMarket, RestPcs
  <2>3. QED
    BY <1>5, <2>2, RestOnlyType DEF RestMarket
<1>6. CASE RestFetch
  <2>1. PICK c \in [Symbols -> UNION {FinalCandles(s) : s \in Symbols} \cup {None}] :
          /\ \A s \in Symbols : c[s] \in FinalCandles(s) \cup {None}
          /\ IF c = Nothing
             THEN RestGoto("sleep")
             ELSE rest' = [rest EXCEPT !.pc = "mget", !.candles = c]
    BY <1>6 DEF RestFetch
  <2>2. now \in Nat
    BY DEF TypeOK
  <2>3. c \in Keyed(Candles)
    BY <2>1, <2>2, FinalCandlesType DEF Keyed
  <2>4. [rest EXCEPT !.pc = "mget", !.candles = c] \in RestType
    BY <1>1, <2>3 DEF RestType, RestPcs
  <2>5. rest' \in RestType
    BY <1>1, <2>1, <2>4, RestGotoType DEF RestPcs
  <2>6. QED
    BY <1>6, <2>5, RestOnlyType DEF RestFetch
<1>7. CASE RestMgetTicks
  <2>1. [s \in Symbols |-> IF Newer(s) THEN rest.candles[s] ELSE None]
           \in Keyed(Candles)
    BY <1>1 DEF Keyed
  <2>2. [EmptyPipe EXCEPT !.tick = [s \in Symbols |->
            IF Newer(s) THEN rest.candles[s] ELSE None]] \in Pipes
    BY <2>1, EmptyPipeType DEF Pipes
  <2>3. rest' \in RestType
    BY <1>1, <1>7, <2>2 DEF RestMgetTicks, RestType, RestPcs
  <2>4. QED
    BY <1>7, <2>3, RestOnlyType DEF RestMgetTicks
<1>8. CASE RestMgetRaises
  <2>1. rest' \in RestType
    BY <1>1, <1>8, RestGotoType DEF RestMgetRaises, RestPcs
  <2>2. faults' \in [FaultKind -> Nat]
    <3>1. faults \in [FaultKind -> Nat]
      BY DEF TypeOK
    <3>2. QED
      BY <1>8, <3>1 DEF RestMgetRaises, FaultKind
  <2>3. QED
    BY <1>8, <2>1, <2>2 DEF RestMgetRaises, TypeOK, RestType, memory, aux
<1>9. CASE RestExecTicks
  <2>1. redis' \in Pipes /\ faults' \in [FaultKind -> Nat]
    BY <1>1, <1>9, AttemptType DEF RestExecTicks
  <2>2. rest' \in RestType
    BY <1>1, <1>9, RestGotoType DEF RestExecTicks, RestPcs
  <2>3. QED
    BY <1>9, <2>1, <2>2 DEF RestExecTicks, TypeOK, RestType, memory, aux
<1>10. CASE RestMgetDailies
  <2> DEFINE new == [s \in Symbols |->
               IF /\ rest.candles[s] # None /\ redis.daily[s] # None
                  /\ Moves(redis.daily[s], rest.candles[s])
               THEN Patched(redis.daily[s], rest.candles[s]) ELSE None]
  <2>1. redis.daily \in Keyed(Dailies)
    BY DEF TypeOK, Pipes
  <2>2. ASSUME NEW s \in Symbols, rest.candles[s] # None, redis.daily[s] # None
        PROVE  Patched(redis.daily[s], rest.candles[s]) \in Dailies
    BY <1>1, <2>1, <2>2, PatchedType DEF Keyed
  <2>3. new \in Keyed(Dailies)
    BY <2>2 DEF Keyed
  <2> HIDE DEF new
  <2>4. [EmptyPipe EXCEPT !.daily = new] \in Pipes
    BY <2>3, EmptyPipeType DEF Pipes
  <2>5. rest' = [rest EXCEPT !.pc = "patch", !.pipe = [EmptyPipe EXCEPT !.daily = new]]
    BY <1>10 DEF RestMgetDailies, new
  <2>6. rest' \in RestType
    BY <1>1, <2>4, <2>5 DEF RestType, RestPcs
  <2>7. QED
    BY <1>10, <2>6, RestOnlyType DEF RestMgetDailies
<1>11. CASE RestPatchDailies
  <2>1. redis' \in Pipes /\ faults' \in [FaultKind -> Nat]
    BY <1>1, <1>11, AttemptType DEF RestPatchDailies
  <2>2. rest' \in RestType
    <3>1. [rest EXCEPT !.pc = "kafka", !.pipe = EmptyPipe,
              !.unsent = IF KafkaEnabled
                         THEN {s \in Symbols : rest.candles[s] # None}
                         ELSE {}] \in RestType
      BY <1>1, EmptyPipeType DEF RestType, RestPcs
    <3>2. CASE RestGoto("sleep")
      BY <1>1, <3>2, RestGotoType DEF RestPcs
    <3>3. QED
      BY <1>11, <3>1, <3>2 DEF RestPatchDailies
  <2>3. QED
    BY <1>11, <2>1, <2>2 DEF RestPatchDailies, TypeOK, RestType, memory, aux
<1>12. ASSUME NEW s \in Symbols, RestKafka(s)
       PROVE  TypeOK'
  <2>1. rest.candles[s] \in Candles
    BY <1>1, <1>12 DEF Keyed, RestKafka, UnsentFetched
  <2>2. topic' \in Keyed(Candles) /\ faults' \in [FaultKind -> Nat]
    BY <1>12, <2>1, SendType DEF RestKafka
  <2>3. rest' \in RestType
    BY <1>1, <1>12 DEF RestKafka, RestType
  <2>4. QED
    BY <1>12, <2>2, <2>3 DEF RestKafka, TypeOK, RestType, memory, aux
<1>13. CASE RestKafkaDone
  BY <1>1, <1>13, RestGotoType, RestOnlyType DEF RestKafkaDone, RestPcs
<1>14. CASE RestWake
  <2>1. Nothing \in Keyed(Candles)
    BY DEF Nothing, Keyed
  <2>2. rest' \in RestType
    BY <1>1, <1>14, <2>1 DEF RestWake, RestType, RestPcs
  <2>3. QED
    BY <1>14, <2>2, RestOnlyType DEF RestWake
<1>15. QED
  BY <1>2, <1>3, <1>4, <1>5, <1>6, <1>7, <1>8, <1>9, <1>10, <1>11, <1>12,
     <1>13, <1>14 DEF BatchLayer

\* The end of an r.set of _handle_secdef keeps the types.
LEMMA SetSecdefType ==
    ASSUME TypeOK, NEW w \in secdef_sets, SetSecdef(w)
    PROVE  TypeOK'
<1> DEFINE pipe == [EmptyPipe EXCEPT !.secdef[w.sym] = w.basic]
<1>1. w.sym \in Symbols /\ w.basic \in Nat
  BY DEF TypeOK
<1>2. Nothing \in Keyed(Nat) /\ EmptyPipe.secdef = Nothing
  BY DEF Nothing, Keyed, EmptyPipe
<1>3. [Nothing EXCEPT ![w.sym] = w.basic] \in Keyed(Nat)
  BY <1>1, <1>2 DEF Keyed
<1>4. pipe = [EmptyPipe EXCEPT !.secdef = [Nothing EXCEPT ![w.sym] = w.basic]]
  BY <1>2 DEF EmptyPipe
<1>5. pipe \in Pipes
  BY <1>3, <1>4, EmptyPipeType DEF Pipes
<1>6. Executed(pipe) \/ Raised(pipe)
  BY DEF SetSecdef
<1> HIDE DEF pipe
<1>7. redis' \in Pipes /\ faults' \in [FaultKind -> Nat]
  BY <1>5, <1>6, AttemptType
<1>8. secdef_sets' \subseteq [sym: Symbols, basic: Nat]
  BY DEF SetSecdef, TypeOK
<1>9. QED
  BY <1>7, <1>8 DEF SetSecdef, TypeOK, memory, aux

\* The clock and a restart keep the types.
LEMMA MinuteRestartType ==
    ASSUME TypeOK, Minute \/ Restart
    PROVE  TypeOK'
<1>1. EmptyPipe \in Pipes
  BY EmptyPipeType
<1>2. /\ NoCell \in [Symbols -> CellIds \cup {0}]
      /\ Nothing \in Keyed(Intraday) /\ Nothing \in Keyed(Quotes)
      /\ Nothing \in Keyed(Candles)
      /\ Zero \in [Symbols -> Nat]
      /\ NoRef \in [Symbols -> [prev: Nat, basic: Nat]]
      /\ <<>> \in Seq(CellIds)
  BY DEF NoCell, Nothing, Keyed, Zero, NoRef
<1>3. CASE Minute
  <2>1. now' \in Nat
    BY <1>3 DEF Minute, TypeOK
  <2>2. QED
    BY <1>2, <1>3, <2>1 DEF Minute, TypeOK, memory
<1>4. CASE Restart
  <2>1. IdleFlush \in [pc: {"sleep", "redis", "kafka"}, pipe: Pipes,
                      kafkas: Seq(CellIds)]
    BY <1>1, <1>2 DEF IdleFlush
  <2>2. FirstCycle \in RestType
    <3>1. -DailyRefresh \in Int
      BY ProducerAssumption
    <3>2. QED
      BY <1>1, <1>2, <3>1 DEF FirstCycle, RestType, RestPcs
  <2>3. faults' \in [FaultKind -> Nat]
    <3>1. faults \in [FaultKind -> Nat]
      BY DEF TypeOK
    <3>2. QED
      BY <1>4, <3>1 DEF Restart, FaultKind
  <2>4. QED
    BY <1>2, <1>4, <2>1, <2>2, <2>3 DEF Restart, TypeOK, RestType
<1>5. QED
  BY <1>3, <1>4

\* Steps that leave the batch layer alone.
LEMMA RestUnchanged ==
    ASSUME SpeedLayer \/ Flusher \/ Minute \/ \E w \in secdef_sets : SetSecdef(w)
    PROVE  UNCHANGED rest
<1>1. CASE SpeedLayer
  BY <1>1 DEF SpeedLayer, HandleTrade, HandleOhlc1m, HandleOhlc1d,
              HandleSecdef, HandleQuote
<1>2. CASE Flusher
  BY <1>2 DEF Flusher, FlushStart, FlushRedis, FlushKafka, FlushDone
<1>3. CASE Minute \/ \E w \in secdef_sets : SetSecdef(w)
  BY <1>3 DEF Minute, SetSecdef
<1>4. QED
  BY <1>1, <1>2, <1>3

\* UnsentFetched is kept by the steps of the batch layer.
LEMMA BatchLayerUnsent ==
    ASSUME TypeOK, UnsentFetched, BatchLayer
    PROVE  UnsentFetched'
<1>1. rest \in RestType
  BY DEF TypeOK, RestType
<1>2. CASE RestPatchDailies
  <2>1. \/ rest'.pc # "kafka" /\ rest'.unsent = rest.unsent
        \/ /\ rest'.candles = rest.candles
           /\ rest'.pc = "kafka"
           /\ rest'.unsent \in {{s \in Symbols : rest.candles[s] # None}, {}}
    BY <1>1, <1>2 DEF RestPatchDailies, RestGoto, RestType
  <2>2. rest.unsent = {}
    BY <1>2 DEF RestPatchDailies, UnsentFetched
  <2>3. QED
    BY <2>1, <2>2 DEF UnsentFetched
<1>3. CASE \E s \in Symbols : RestKafka(s)
  <2>1. /\ rest'.candles = rest.candles /\ rest'.unsent \subseteq rest.unsent
        /\ rest'.pc = "kafka"
    BY <1>1, <1>3 DEF RestKafka, RestType
  <2>2. QED
    BY <2>1 DEF UnsentFetched
<1>4. ASSUME rest.unsent = {}, rest'.unsent = rest.unsent PROVE UnsentFetched'
  BY <1>4 DEF UnsentFetched
<1>5. CASE RestTop \/ RestMgetTicks \/ RestMgetDailies \/ RestDaily
  <2>1. rest'.unsent = rest.unsent /\ rest.pc # "kafka"
    BY <1>1, <1>5 DEF RestTop, RestMgetTicks, RestMgetDailies, RestDaily,
                      RestType
  <2>2. QED
    BY <1>4, <2>1 DEF UnsentFetched
<1>6. CASE RestDailyExec \/ RestMgetRaises \/ RestExecTicks
  <2>1. rest'.unsent = rest.unsent /\ rest.pc # "kafka"
    BY <1>1, <1>6 DEF RestDailyExec, RestMgetRaises, RestExecTicks, RestGoto,
                      RestType
  <2>2. QED
    BY <1>4, <2>1 DEF UnsentFetched
<1>7. CASE RestKafkaDone
  <2>1. rest'.unsent = rest.unsent /\ rest.unsent = {}
    BY <1>1, <1>7 DEF RestKafkaDone, RestGoto, RestType
  <2>2. QED
    BY <1>4, <2>1
<1>8. CASE (\E open \in BOOLEAN : RestMarket(open)) \/ RestFetch \/ RestWake
  <2>1. rest'.unsent = rest.unsent /\ rest.pc # "kafka"
    BY <1>1, <1>8 DEF RestMarket, RestFetch, RestWake, RestGoto, RestType
  <2>2. QED
    BY <1>4, <2>1 DEF UnsentFetched
<1>9. QED
  BY <1>2, <1>3, <1>5, <1>6, <1>7, <1>8 DEF BatchLayer

TypeInv == TypeOK /\ UnsentFetched

\* A step of the producer keeps TypeInv.
LEMMA TypeNext == TypeInv /\ [Next]_vars => TypeInv'
<1> SUFFICES ASSUME TypeInv, [Next]_vars PROVE TypeInv'
  OBVIOUS
<1> USE DEF TypeInv
<1>1. CASE SpeedLayer
  BY <1>1, SpeedLayerType, RestUnchanged DEF UnsentFetched
<1>2. CASE Flusher
  BY <1>2, FlusherType, RestUnchanged DEF UnsentFetched
<1>3. CASE BatchLayer
  BY <1>3, BatchLayerType, BatchLayerUnsent
<1>4. CASE \E w \in secdef_sets : SetSecdef(w)
  BY <1>4, SetSecdefType, RestUnchanged DEF UnsentFetched
<1>5. CASE Minute
  BY <1>5, MinuteRestartType, RestUnchanged DEF UnsentFetched
<1>6. CASE Restart
  BY <1>6, MinuteRestartType DEF UnsentFetched, Restart, FirstCycle
<1>7. CASE UNCHANGED vars
  BY <1>7 DEF vars, memory, aux, TypeOK, UnsentFetched
<1>8. QED
  BY <1>1, <1>2, <1>3, <1>4, <1>5, <1>6, <1>7 DEF Next

\* TypeInv holds in every reachable state.
LEMMA TypeInvCorrect == Spec => []TypeInv
<1>1. Init => TypeInv
  BY TypeInit DEF TypeInv, UnsentFetched, Init, FirstCycle
<1>2. QED
  BY <1>1, TypeNext, PTL DEF Spec

\* Every variable of the producer always has its type (TypeOK).
THEOREM TypeCorrect == Spec => []TypeOK
<1>1. TypeInv => TypeOK
  BY DEF TypeInv
<1>2. QED
  BY <1>1, TypeInvCorrect, PTL

-----------------------------------------------------------------------------
(* The reference price *)

\* prevClose of the batch layer survives every step (PrevCloseAuthority).
LEMMA PrevCloseNext ==
    TypeInv /\ PrevCloseAuthority /\ [Next]_vars => PrevCloseAuthority'
<1> SUFFICES ASSUME TypeInv, PrevCloseAuthority, [Next]_vars
             PROVE  PrevCloseAuthority'
  OBVIOUS
<1>1. /\ daily_persist \in [Symbols -> [prev: Nat, basic: Nat]]
      /\ rest_prev \in [Symbols -> Nat]
  BY DEF TypeInv, TypeOK
<1>2. ASSUME UNCHANGED <<daily_persist, rest_prev>> PROVE PrevCloseAuthority'
  BY <1>2 DEF PrevCloseAuthority
<1>3. CASE \E s \in Symbols, basic \in SecDefs : HandleSecdef(s, basic)
  <2>1. PICK s \in Symbols, basic \in SecDefs : HandleSecdef(s, basic)
    BY <1>3
  <2>2. rest_prev' = rest_prev
    BY <2>1 DEF HandleSecdef, aux
  <2>3. \A r \in Symbols : daily_persist[r].prev # 0
                           => daily_persist'[r].prev = daily_persist[r].prev
    BY <1>1, <2>1 DEF HandleSecdef
  <2>4. QED
    BY <1>1, <2>2, <2>3 DEF PrevCloseAuthority
<1>4. CASE RestDaily
  <2>1. PICK d \in [Symbols -> FetchDaily \cup {None}] :
           /\ daily_persist' = [s \in Symbols |->
                  IF d[s] = None THEN daily_persist[s]
                  ELSE [prev |-> d[s].prev, basic |-> d[s].basic]]
           /\ rest_prev' = [s \in Symbols |->
                  IF d[s] = None THEN rest_prev[s] ELSE d[s].prev]
    BY <1>4 DEF RestDaily
  <2>2. QED
    BY <2>1 DEF PrevCloseAuthority
<1>5. CASE Restart
  BY <1>5 DEF Restart, PrevCloseAuthority, Zero
<1>6. CASE SpeedLayer /\ ~(\E s \in Symbols, basic \in SecDefs :
                              HandleSecdef(s, basic))
  BY <1>2, <1>6 DEF SpeedLayer, HandleTrade, HandleOhlc1m, HandleOhlc1d,
                    HandleQuote, aux
<1>7. CASE Minute \/ (\E w \in secdef_sets : SetSecdef(w)) \/ Flusher
  BY <1>2, <1>7 DEF Minute, SetSecdef, Flusher, FlushStart, FlushRedis,
                    FlushKafka, FlushDone, memory, aux
<1>8. CASE BatchLayer /\ ~RestDaily
  BY <1>2, <1>8 DEF BatchLayer, RestTop, RestDailyExec, RestMarket, RestFetch,
                    RestMgetTicks, RestMgetRaises, RestExecTicks,
                    RestMgetDailies, RestPatchDailies, RestKafka,
                    RestKafkaDone, RestWake, RestOnly, memory, aux
<1>9. CASE UNCHANGED vars
  BY <1>2, <1>9 DEF vars, memory, aux
<1>10. QED
  BY <1>3, <1>4, <1>5, <1>6, <1>7, <1>8, <1>9 DEF Next

\* Whatever the order of REST refreshes and security-definition events, the
\* prevClose of the last refresh stays (_handle_secdef, _fetch_daily).
THEOREM PrevCloseCorrect == Spec => []PrevCloseAuthority
<1>1. Init => PrevCloseAuthority
  BY DEF Init, PrevCloseAuthority, Zero
<1>2. QED
  BY <1>1, TypeInvCorrect, PrevCloseNext, PTL DEF Spec

-----------------------------------------------------------------------------
(* The buffers *)

\* A live candle is its symbol's.
LiveSymbol ==
    \A s \in Symbols : live_candles[s] # 0 => cells[live_candles[s]].sym = s

\* The live candle of the symbol of cell c.
LiveOf(c) == live_candles[cells[c].sym]

\* A candle waits in the Kafka buffer with its symbol's live one, at its
\* place or after it.
BufferOrder ==
    KafkaEnabled => \A i \in DOMAIN kafka_buffer :
        \E j \in DOMAIN kafka_buffer :
            j >= i /\ kafka_buffer[j] = LiveOf(kafka_buffer[i])

\* So does a candle that the flusher took out.
SendOrder ==
    KafkaEnabled => \A i \in DOMAIN flush.kafkas :
        \/ \E j \in DOMAIN flush.kafkas :
               j >= i /\ flush.kafkas[j] = LiveOf(flush.kafkas[i])
        \/ \E j \in DOMAIN kafka_buffer :
               kafka_buffer[j] = LiveOf(flush.kafkas[i])

\* The flusher keeps nothing from one flush to the next.
FlushIdle == /\ flush.pc # "redis" => flush.pipe = EmptyPipe
             /\ flush.pc = "sleep" => flush.kafkas = <<>>

\* The buffers and the speed layer agree.
BufferInv == /\ TickBufferIsLive /\ LiveSymbol /\ KafkaRidesWithTicks
             /\ BufferOrder /\ SendOrder /\ FlushIdle

\* A trade or a bar: c becomes, or stays, the live candle of s.
Ticked(s, c) ==
    /\ c \in CellIds
    /\ c = live_candles[s] \/ c \notin Referenced
    /\ live_candles' = [live_candles EXCEPT ![s] = c]
    /\ tick_buffer' = [tick_buffer EXCEPT ![s] = c]
    /\ cells'[c].sym = s
    /\ \A d \in (Referenced \cap CellIds) \ {c} : cells'[d] = cells[d]
    /\ IF KafkaEnabled THEN kafka_buffer' = Append(kafka_buffer, c)
                       ELSE kafka_buffer' = kafka_buffer
    /\ UNCHANGED <<flush, rest, redis, topic, faults>>

\* What BufferInv and the stores depend on.
shared == <<cells, live_candles, tick_buffer, kafka_buffer, flush, rest, redis,
            topic, faults>>

\* A new candle is a tick of its symbol (_handle_trade, _handle_ohlc_1m).
LEMMA StartTicked ==
    ASSUME TypeOK, NEW s \in Symbols, NEW candle \in Candles, candle.sym = s,
           StartCandle(s, candle),
           UNCHANGED <<flush, rest, redis, topic, faults>>
    PROVE  \E c \in CellIds : Ticked(s, c)
<1> DEFINE c == FreshCell
<1>1. c \in CellIds /\ c \notin Referenced
  BY FreshCellType DEF StartCandle, FreshCell, FreeCells
<1>2. cells'[c] = candle
  BY <1>1 DEF StartCandle
<1>3. \A d \in (Referenced \cap CellIds) \ {c} : cells'[d] = cells[d]
  BY DEF StartCandle, FreeCells
<1>4. IF KafkaEnabled THEN kafka_buffer' = Append(kafka_buffer, c)
                      ELSE kafka_buffer' = kafka_buffer
  BY DEF StartCandle, PublishKafka
<1>5. QED
  BY <1>1, <1>2, <1>3, <1>4 DEF StartCandle, WriteTick, Ticked

\* An extended candle is a tick of its symbol (_handle_trade).
LEMMA ExtendTicked ==
    ASSUME TypeOK, LiveSymbol, NEW s \in Symbols, live_candles[s] # 0,
           NEW p, NEW q, ExtendCandle(s, p, q),
           UNCHANGED <<flush, rest, redis, topic, faults>>
    PROVE  \E c \in CellIds : Ticked(s, c)
<1> DEFINE c == live_candles[s]
<1>1. c \in CellIds /\ cells \in [CellIds -> Candles] /\ cells[c].sym = s
  BY DEF TypeOK, LiveSymbol
<1>2. live_candles' = [live_candles EXCEPT ![s] = c]
  BY DEF ExtendCandle, TypeOK
<1>3. cells' = [cells EXCEPT ![c] = Traded(cells[c], p, q)]
  BY DEF ExtendCandle
<1>4. Traded(cells[c], p, q).sym = s
  <2>1. cells[c] \in Candles
    BY <1>1
  <2>2. QED
    BY <1>1, <2>1 DEF Traded, Candles
<1>5. cells'[c].sym = s
  BY <1>1, <1>3, <1>4
<1>6. \A d \in (Referenced \cap CellIds) \ {c} : cells'[d] = cells[d]
  BY <1>1, <1>3
<1>7. IF KafkaEnabled THEN kafka_buffer' = Append(kafka_buffer, c)
                      ELSE kafka_buffer' = kafka_buffer
  BY DEF ExtendCandle, PublishKafka
<1>8. QED
  BY <1>1, <1>2, <1>5, <1>6, <1>7 DEF ExtendCandle, WriteTick, Ticked

\* A callback ticks one symbol, or leaves ticks alone.
LEMMA SpeedLayerTicks ==
    ASSUME TypeOK, LiveSymbol, SpeedLayer
    PROVE  \/ \E s \in Symbols, c \in CellIds : Ticked(s, c)
           \/ UNCHANGED shared
<1>1. CASE \E s \in Symbols, p \in Prices, q \in Quantities : HandleTrade(s, p, q)
  <2>1. PICK s \in Symbols, p \in Prices, q \in Quantities : HandleTrade(s, p, q)
    BY <1>1
  <2>2. CASE CurrentCandle(s)
    BY <2>1, <2>2, ExtendTicked DEF HandleTrade, CurrentCandle
  <2>3. CASE ~CurrentCandle(s)
    <3> DEFINE candle == Candle(s, now, [high |-> p, low |-> p, close |-> p],
                                q, "DNSE_WS")
    <3>1. candle \in Candles /\ candle.sym = s
      <4>1. now \in Nat /\ p \in Nat /\ q \in Nat
        BY ConstantTypes DEF TypeOK
      <4>2. QED
        BY <4>1 DEF Candle, Candles
    <3>2. StartCandle(s, candle)
      BY <2>1, <2>3 DEF HandleTrade
    <3>3. UNCHANGED <<flush, rest, redis, topic, faults>>
      BY <2>1 DEF HandleTrade
    <3>4. \E c \in CellIds : Ticked(s, c)
      <4> HIDE DEF candle
      <4>1. QED
        BY <3>1, <3>2, <3>3, StartTicked
    <3>5. QED
      BY <3>4
  <2>4. QED
    BY <2>2, <2>3
<1>2. CASE \E s \in Symbols, t \in 0..now, b \in Bars(Prices), v \in Volumes :
              HandleOhlc1m(s, t, b, v)
  <2>1. PICK s \in Symbols, t \in 0..now, b \in Bars(Prices), v \in Volumes :
              HandleOhlc1m(s, t, b, v)
    BY <1>2
  <2> DEFINE candle == Candle(s, t, b, v, "DNSE_WS")
  <2>2. candle \in Candles /\ candle.sym = s
    <3>1. /\ t \in Nat /\ v \in Nat
          /\ b \in [high: Nat, low: Nat, close: Nat]
      <4>1. now \in Nat
        BY DEF TypeOK
      <4>2. b \in [high: Nat, low: Nat, close: Nat]
        BY BarType, ConstantTypes
      <4>3. QED
        BY <4>1, <4>2, ConstantTypes
    <3>2. QED
      BY <3>1 DEF Candle, Candles
  <2>3. StartCandle(s, candle)
    BY <2>1 DEF HandleOhlc1m
  <2>4. UNCHANGED <<flush, rest, redis, topic, faults>>
    BY <2>1 DEF HandleOhlc1m
  <2>5. \E c \in CellIds : Ticked(s, c)
    <3> HIDE DEF candle
    <3>1. QED
      BY <2>2, <2>3, <2>4, StartTicked
  <2>6. QED
    BY <2>5
<1>3. CASE \/ \E s \in Symbols, b \in Bars(Prices) : HandleOhlc1d(s, b)
           \/ \E s \in Symbols, basic \in SecDefs : HandleSecdef(s, basic)
           \/ \E s \in Symbols, q \in Quotes : HandleQuote(s, q)
  BY <1>3 DEF HandleOhlc1d, HandleSecdef, HandleQuote, shared
<1>4. QED
  BY <1>1, <1>2, <1>3 DEF SpeedLayer

\* What a tick does to the buffers.
LEMMA TickedBuffers ==
    ASSUME TypeOK, BufferInv, NEW s \in Symbols, NEW c \in CellIds, Ticked(s, c)
    PROVE  BufferInv'
<1>1. /\ cells \in [CellIds -> Candles] /\ kafka_buffer \in Seq(CellIds)
      /\ live_candles \in [Symbols -> CellIds \cup {0}]
      /\ tick_buffer \in [Symbols -> CellIds \cup {0}]
      /\ flush.kafkas \in Seq(CellIds)
      /\ \A d \in CellIds : d # 0
  BY DEF TypeOK, CellIds
<1>2. \A r \in Symbols : /\ r # s => live_candles'[r] = live_candles[r]
                         /\ live_candles'[s] = c
                         /\ r # s => tick_buffer'[r] = tick_buffer[r]
                         /\ tick_buffer'[s] = c
  BY <1>1 DEF Ticked
<1>3. \A d \in Referenced \cap CellIds :
          /\ d # c => cells'[d] = cells[d]
          /\ cells'[d].sym = cells[d].sym
  <2>1. c \in Referenced => cells[c].sym = s
    BY <1>1 DEF Ticked, BufferInv, LiveSymbol
  <2>2. QED
    BY <2>1 DEF Ticked
<1>4. \A d \in Referenced \cap CellIds :
          (LiveOf(d))' = IF cells[d].sym = s THEN c ELSE LiveOf(d)
  <2> SUFFICES ASSUME NEW d \in Referenced \cap CellIds
               PROVE  (LiveOf(d))' = IF cells[d].sym = s THEN c ELSE LiveOf(d)
    OBVIOUS
  <2>1. cells[d].sym \in Symbols
    BY <1>1 DEF Candles
  <2>2. QED
    BY <1>2, <1>3, <2>1 DEF LiveOf
<1>5. \A i \in DOMAIN kafka_buffer : kafka_buffer[i] \in Referenced \cap CellIds
  BY <1>1 DEF Referenced
<1>6. \A i \in DOMAIN flush.kafkas : flush.kafkas[i] \in Referenced \cap CellIds
  BY <1>1 DEF Referenced
<1>7. TickBufferIsLive'
  BY <1>1, <1>2 DEF BufferInv, TickBufferIsLive
<1>8. LiveSymbol'
  <2>1. \A r \in Symbols : live_candles[r] \in Referenced
    BY DEF Referenced
  <2>2. QED
    BY <1>1, <1>2, <1>3, <2>1 DEF BufferInv, LiveSymbol, Ticked
<1>9. KafkaRidesWithTicks'
  <2> SUFFICES ASSUME NEW i \in DOMAIN kafka_buffer'
               PROVE  tick_buffer'[cells'[kafka_buffer'[i]].sym] # 0
    BY DEF KafkaRidesWithTicks
  <2>1. CASE i \in DOMAIN kafka_buffer /\ kafka_buffer'[i] = kafka_buffer[i]
    <3> DEFINE d == kafka_buffer[i]
    <3>1. d \in Referenced \cap CellIds /\ tick_buffer[cells[d].sym] # 0
      BY <1>5, <2>1 DEF BufferInv, KafkaRidesWithTicks
    <3>2. cells'[d].sym = cells[d].sym /\ cells[d].sym \in Symbols
      BY <1>1, <1>3, <3>1 DEF Candles
    <3> HIDE DEF d
    <3>3. tick_buffer'[cells'[d].sym] # 0
      BY <1>1, <1>2, <3>1, <3>2
    <3>4. QED
      BY <2>1, <3>3 DEF d
  <2>2. CASE kafka_buffer'[i] = c
    BY <1>1, <1>2, <2>2 DEF Ticked
  <2>3. QED
    BY <1>1, <2>1, <2>2 DEF Ticked
<1>10. BufferOrder'
  <2> SUFFICES ASSUME KafkaEnabled, NEW i \in DOMAIN kafka_buffer'
               PROVE  \E j \in DOMAIN kafka_buffer' :
                          j >= i /\ kafka_buffer'[j] = (LiveOf(kafka_buffer[i]))'
    BY DEF BufferOrder
  <2> DEFINE n == Len(kafka_buffer) + 1
  <2>1. /\ kafka_buffer' = Append(kafka_buffer, c) /\ n \in DOMAIN kafka_buffer'
        /\ kafka_buffer'[n] = c /\ n >= i
        /\ \A j \in DOMAIN kafka_buffer : /\ kafka_buffer'[j] = kafka_buffer[j]
                                          /\ j \in DOMAIN kafka_buffer'
        /\ i # n => i \in DOMAIN kafka_buffer
        /\ i \in Nat
    BY <1>1 DEF Ticked
  <2>2. CASE i = n
    <3>1. (LiveOf(kafka_buffer[i]))' = c
      BY <1>2, <2>1, <2>2 DEF LiveOf, Ticked
    <3>2. QED
      BY <2>1, <3>1
  <2>3. CASE i # n
    <3> DEFINE d == kafka_buffer[i]
    <3>1. PICK j \in DOMAIN kafka_buffer :
               j >= i /\ kafka_buffer[j] = LiveOf(d)
      BY <2>1, <2>3 DEF BufferInv, BufferOrder
    <3>2. d \in Referenced \cap CellIds /\ kafka_buffer'[i] = d
      BY <1>5, <2>1, <2>3
    <3>3. (LiveOf(kafka_buffer[i]))' = IF cells[d].sym = s THEN c ELSE LiveOf(d)
      BY <1>4, <3>2 DEF LiveOf
    <3>4. QED
      BY <2>1, <3>1, <3>3
  <2>4. QED
    BY <2>2, <2>3
<1>11. SendOrder'
  <2> SUFFICES ASSUME KafkaEnabled, NEW i \in DOMAIN flush.kafkas
        PROVE  \/ \E j \in DOMAIN flush.kafkas :
                   j >= i /\ flush.kafkas[j] = (LiveOf(flush.kafkas[i]))'
               \/ \E j \in DOMAIN kafka_buffer' :
                   kafka_buffer'[j] = (LiveOf(flush.kafkas[i]))'
    BY DEF SendOrder, Ticked
  <2> DEFINE n == Len(kafka_buffer) + 1
             d == flush.kafkas[i]
  <2>1. /\ n \in DOMAIN kafka_buffer' /\ kafka_buffer'[n] = c
        /\ \A j \in DOMAIN kafka_buffer : /\ kafka_buffer'[j] = kafka_buffer[j]
                                          /\ j \in DOMAIN kafka_buffer'
    BY <1>1 DEF Ticked
  <2>2. (LiveOf(flush.kafkas[i]))' = IF cells[d].sym = s THEN c ELSE LiveOf(d)
    <3>1. d \in Referenced \cap CellIds /\ flush' = flush
      BY <1>6 DEF Ticked
    <3>2. QED
      BY <1>4, <3>1 DEF LiveOf
  <2>3. \/ \E j \in DOMAIN flush.kafkas :
               j >= i /\ flush.kafkas[j] = LiveOf(d)
        \/ \E j \in DOMAIN kafka_buffer : kafka_buffer[j] = LiveOf(d)
    BY DEF BufferInv, SendOrder
  <2>4. QED
    BY <2>1, <2>2, <2>3
<1>12. FlushIdle'
  BY DEF BufferInv, FlushIdle, Ticked
<1>13. QED
  BY <1>7, <1>8, <1>9, <1>10, <1>11, <1>12 DEF BufferInv

\* When nothing has a tick waiting, no candle waits for Kafka: the early
\* return of _flush_buffers loses nothing.
LEMMA NothingUnsent ==
    ASSUME TypeOK, KafkaRidesWithTicks, tick_buffer = NoCell
    PROVE  kafka_buffer = <<>>
<1>1. kafka_buffer \in Seq(CellIds) /\ cells \in [CellIds -> Candles]
  BY DEF TypeOK
<1>2. \A i \in DOMAIN kafka_buffer : FALSE
  <2> SUFFICES ASSUME NEW i \in DOMAIN kafka_buffer PROVE FALSE
    OBVIOUS
  <2>1. cells[kafka_buffer[i]].sym \in Symbols
    BY <1>1 DEF Candles
  <2>2. QED
    BY <2>1 DEF KafkaRidesWithTicks, NoCell
<1>3. Len(kafka_buffer) \in Nat /\ DOMAIN kafka_buffer = 1..Len(kafka_buffer)
  BY <1>1
<1>4. Len(kafka_buffer) = 0
  BY <1>2, <1>3
<1>5. QED
  BY <1>1, <1>4

\* A flush takes every waiting candle out of the Kafka buffer, and nothing
\* of an earlier flush is left (_flush_buffers).
LEMMA FlushStartKafkas ==
    ASSUME TypeOK, BufferInv, FlushStart
    PROVE  flush.kafkas = <<>> /\ flush'.kafkas = kafka_buffer /\ FlushIdle'
<1>1. flush.kafkas = <<>>
  BY DEF FlushStart, BufferInv, FlushIdle
<1>2. CASE NothingToFlush
  BY <1>1, <1>2, NothingUnsent
     DEF FlushStart, NothingToFlush, BufferInv, FlushIdle
<1>3. CASE ~NothingToFlush
  BY <1>1, <1>3 DEF FlushStart, FlushIdle
<1>4. QED
  BY <1>2, <1>3

\* A flush keeps BufferInv (_flush_buffers).
LEMMA FlusherBuffers ==
    ASSUME TypeOK, BufferInv, Flusher
    PROVE  BufferInv'
<1>1. /\ cells \in [CellIds -> Candles] /\ kafka_buffer \in Seq(CellIds)
      /\ live_candles \in [Symbols -> CellIds \cup {0}]
      /\ flush \in [pc: {"sleep", "redis", "kafka"}, pipe: Pipes,
                    kafkas: Seq(CellIds)]
  BY DEF TypeOK
<1>2. CASE FlushStart
  <2>1. /\ tick_buffer' = NoCell /\ kafka_buffer' = <<>>
        /\ UNCHANGED <<cells, live_candles>>
    BY <1>2 DEF FlushStart
  <2>2. flush'.kafkas = kafka_buffer /\ FlushIdle'
    BY <1>2, FlushStartKafkas
  <2>3. TickBufferIsLive' /\ LiveSymbol' /\ KafkaRidesWithTicks' /\ BufferOrder'
    BY <2>1 DEF TickBufferIsLive, NoCell, LiveSymbol, KafkaRidesWithTicks,
                BufferOrder, BufferInv
  <2>4. SendOrder'
    BY <2>1, <2>2 DEF BufferInv, BufferOrder, SendOrder, LiveOf
  <2>5. QED
    BY <2>2, <2>3, <2>4 DEF BufferInv
<1>3. CASE FlushRedis \/ FlushDone
  <2>1. UNCHANGED <<cells, live_candles, tick_buffer, kafka_buffer>>
    BY <1>3 DEF FlushRedis, FlushDone, memory
  <2>2. flush'.kafkas = flush.kafkas /\ FlushIdle'
    <3>1. CASE FlushRedis
      <4>1. flush' = [flush EXCEPT !.pc = "kafka", !.pipe = EmptyPipe]
        BY <3>1 DEF FlushRedis
      <4>2. /\ flush'.pc = "kafka" /\ flush'.pipe = EmptyPipe
            /\ flush'.kafkas = flush.kafkas
        BY <1>1, <4>1
      <4>3. QED
        BY <4>2 DEF FlushIdle
    <3>2. CASE FlushDone
      BY <3>2 DEF FlushDone, IdleFlush, FlushIdle
    <3>3. QED
      BY <1>3, <3>1, <3>2
  <2>3. SendOrder'
    BY <2>1, <2>2 DEF BufferInv, SendOrder, LiveOf
  <2>4. QED
    BY <2>1, <2>2, <2>3 DEF BufferInv, TickBufferIsLive, LiveSymbol,
       KafkaRidesWithTicks, BufferOrder, LiveOf
<1>4. CASE FlushKafka
  <2>1. /\ UNCHANGED <<cells, live_candles, tick_buffer, kafka_buffer>>
        /\ flush.kafkas # <<>>
        /\ flush'.kafkas = Tail(flush.kafkas)
        /\ flush'.pc = "kafka" /\ flush'.pipe = flush.pipe /\ flush.pc = "kafka"
    BY <1>1, <1>4 DEF FlushKafka, memory
  <2>2. FlushIdle'
    BY <2>1 DEF FlushIdle, BufferInv
  <2>3. SendOrder'
    <3> SUFFICES ASSUME KafkaEnabled, NEW i \in DOMAIN Tail(flush.kafkas)
          PROVE  \/ \E j \in DOMAIN Tail(flush.kafkas) : j >= i
                     /\ Tail(flush.kafkas)[j] = LiveOf(Tail(flush.kafkas)[i])
                 \/ \E j \in DOMAIN kafka_buffer :
                     kafka_buffer[j] = LiveOf(Tail(flush.kafkas)[i])
      BY <2>1 DEF SendOrder, LiveOf
    <3>1. /\ i + 1 \in DOMAIN flush.kafkas
          /\ Tail(flush.kafkas)[i] = flush.kafkas[i + 1]
          /\ i \in Nat
      BY <1>1, <2>1
    <3>2. CASE \E j \in DOMAIN flush.kafkas :
                   j >= i + 1 /\ flush.kafkas[j] = LiveOf(flush.kafkas[i + 1])
      <4>1. PICK j \in DOMAIN flush.kafkas :
                   j >= i + 1 /\ flush.kafkas[j] = LiveOf(flush.kafkas[i + 1])
        BY <3>2
      <4>2. /\ j - 1 \in DOMAIN Tail(flush.kafkas) /\ j - 1 >= i
            /\ Tail(flush.kafkas)[j - 1] = flush.kafkas[j]
        BY <1>1, <2>1, <3>1, <4>1
      <4>3. QED
        BY <3>1, <4>1, <4>2
    <3>3. QED
      BY <3>1, <3>2 DEF BufferInv, SendOrder
  <2>4. QED
    BY <2>1, <2>2, <2>3 DEF BufferInv, TickBufferIsLive, LiveSymbol,
       KafkaRidesWithTicks, BufferOrder, LiveOf
<1>5. QED
  BY <1>2, <1>3, <1>4 DEF Flusher

\* What BufferInv speaks of.
buffers == <<cells, live_candles, tick_buffer, kafka_buffer, flush>>

\* The batch layer and the r.set calls share no buffer with the rest.
LEMMA OthersBuffers ==
    ASSUME BatchLayer \/ Minute \/ \E w \in secdef_sets : SetSecdef(w)
    PROVE  UNCHANGED buffers
<1>1. CASE BatchLayer
  BY <1>1 DEF BatchLayer, RestTop, RestDaily, RestDailyExec, RestMarket,
     RestFetch, RestMgetTicks, RestMgetRaises, RestExecTicks, RestMgetDailies,
     RestPatchDailies, RestKafka, RestKafkaDone, RestWake, RestOnly, memory,
     buffers
<1>2. CASE Minute \/ \E w \in secdef_sets : SetSecdef(w)
  BY <1>2 DEF Minute, SetSecdef, memory, buffers
<1>3. QED
  BY <1>1, <1>2

\* Buffers that nobody touches keep BufferInv.
LEMMA BufferFrame ==
    ASSUME BufferInv, UNCHANGED buffers
    PROVE  BufferInv'
BY DEF BufferInv, buffers, TickBufferIsLive, LiveSymbol, KafkaRidesWithTicks,
       BufferOrder, SendOrder, LiveOf, FlushIdle

\* A step of the producer keeps BufferInv.
LEMMA BufferNext == TypeInv /\ BufferInv /\ [Next]_vars => BufferInv'
<1> SUFFICES ASSUME TypeInv, BufferInv, [Next]_vars PROVE BufferInv'
  OBVIOUS
<1>1. TypeOK /\ LiveSymbol
  BY DEF TypeInv, BufferInv
<1>2. CASE SpeedLayer
  BY <1>1, <1>2, SpeedLayerTicks, TickedBuffers, BufferFrame DEF shared, buffers
<1>3. CASE Flusher
  BY <1>1, <1>3, FlusherBuffers
<1>4. CASE BatchLayer \/ Minute \/ \E w \in secdef_sets : SetSecdef(w)
  BY <1>4, OthersBuffers, BufferFrame
<1>5. CASE Restart
  BY <1>5 DEF Restart, BufferInv, NoCell, IdleFlush, TickBufferIsLive,
     LiveSymbol, KafkaRidesWithTicks, BufferOrder, SendOrder, FlushIdle
<1>6. CASE UNCHANGED vars
  BY <1>6, BufferFrame DEF vars, memory, buffers
<1>7. QED
  BY <1>2, <1>3, <1>4, <1>5, <1>6 DEF Next

\* BufferInv holds in every reachable state.
LEMMA BufferCorrect == Spec => []BufferInv
<1>1. Init => BufferInv
  BY DEF Init, BufferInv, NoCell, IdleFlush, TickBufferIsLive, LiveSymbol,
     KafkaRidesWithTicks, BufferOrder, SendOrder, FlushIdle
<1>2. QED
  BY <1>1, TypeInvCorrect, BufferNext, PTL DEF Spec

\* The tick buffer never holds a candle that was replaced (_tick_buffer).
THEOREM TickBufferCorrect == Spec => []TickBufferIsLive
<1>1. BufferInv => TickBufferIsLive
  BY DEF BufferInv
<1>2. QED
  BY <1>1, BufferCorrect, PTL

\* No candle waits for Kafka while its symbol has no tick waiting, so the
\* early return of _flush_buffers never drops one (producer.py:253).
THEOREM KafkaRidesCorrect == Spec => []KafkaRidesWithTicks
<1>1. BufferInv => KafkaRidesWithTicks
  BY DEF BufferInv
<1>2. QED
  BY <1>1, BufferCorrect, PTL

-----------------------------------------------------------------------------
(* The stores *)

\* The candles of the batch layer say that they are its own.
FromRest(t) == \A s \in Symbols : t[s] # None => t[s].src = "DNSE"
RestSource == FromRest(rest.pipe.tick) /\ FromRest(rest.candles)

\* The tick that the flusher is writing is the live candle, unless a later
\* one waits in the tick buffer.
PipeIsLive ==
    \A s \in Symbols :
        live_candles[s] # 0 /\ tick_buffer[s] = 0 /\ flush.pipe.tick[s] # None
        => flush.pipe.tick[s] = cells[live_candles[s]]

StoreInv == PipeIsLive /\ RedisCaughtUp /\ KafkaCaughtUp

\* Redis and Kafka keep what they have, or take a candle of the batch layer.
Kept(old, new) ==
    \A s \in Symbols : new[s] # old[s] => new[s] # None /\ new[s].src = "DNSE"

NoNewFault == \A k \in FaultKind : faults'[k] = 0 => faults[k] = 0

\* Faults are only counted up.
LEMMA AttemptFaults ==
    ASSUME TypeOK, NEW p, Executed(p) \/ Raised(p)
    PROVE  NoNewFault /\ (faults'["redis"] = 0 => redis' = Execute(p))
<1>1. faults \in [FaultKind -> Nat] /\ "redis" \in FaultKind
  BY DEF TypeOK, FaultKind
<1>2. CASE Executed(p)
  BY <1>2 DEF Executed, NoNewFault
<1>3. CASE Raised(p)
  <2>1. faults' = [faults EXCEPT !["redis"] = faults["redis"] + 1]
    BY <1>3 DEF Raised
  <2>2. faults["redis"] + 1 # 0
    BY <1>1
  <2>3. QED
    BY <1>1, <2>1, <2>2 DEF NoNewFault
<1>4. QED
  BY <1>2, <1>3

\* A send stores its candle or counts a fault.
LEMMA SendFaults ==
    ASSUME TypeOK, NEW c, Send(c)
    PROVE  /\ NoNewFault
           /\ faults'["kafka"] = 0 => topic' = [topic EXCEPT ![c.sym] = c]
           /\ topic' \in {topic, [topic EXCEPT ![c.sym] = c]}
<1>1. faults \in [FaultKind -> Nat] /\ "kafka" \in FaultKind
  BY DEF TypeOK, FaultKind
<1>2. CASE topic' = [topic EXCEPT ![c.sym] = c] /\ UNCHANGED faults
  BY <1>2 DEF NoNewFault
<1>3. CASE faults' = [faults EXCEPT !["kafka"] = faults["kafka"] + 1]
           /\ UNCHANGED topic
  <2>1. faults["kafka"] + 1 # 0
    BY <1>1
  <2>2. QED
    BY <1>1, <1>3, <2>1 DEF NoNewFault
<1>4. QED
  BY <1>2, <1>3 DEF Send

\* A pipeline of the batch layer keeps or renews the ticks of Redis.
LEMMA AttemptKept ==
    ASSUME NEW p, FromRest(p.tick), Executed(p) \/ Raised(p)
    PROVE  Kept(redis.tick, redis'.tick)
<1>1. Kept(redis.tick, Execute(p).tick)
  BY DEF Kept, Execute, Overlay, FromRest
<1>2. redis' \in {redis, Execute(p)}
  BY DEF Executed, Raised
<1>3. QED
  BY <1>1, <1>2 DEF Kept

\* A step that leaves the buffers alone and gives the stores candles of the
\* batch layer only keeps StoreInv.
LEMMA StoreFrame ==
    ASSUME StoreInv, UNCHANGED buffers, NoNewFault,
           Kept(redis.tick, redis'.tick), Kept(topic, topic')
    PROVE  StoreInv'
<1>1. "redis" \in FaultKind /\ "kafka" \in FaultKind
  BY DEF FaultKind
<1>2. PipeIsLive'
  BY DEF StoreInv, PipeIsLive, buffers
<1>3. RedisCaughtUp'
  <2> SUFFICES ASSUME faults'["redis"] = 0, NEW s \in Symbols,
                      live_candles[s] # 0, tick_buffer[s] = 0,
                      flush.pipe.tick[s] = None
               PROVE  /\ redis'.tick[s] # None
                      /\ redis'.tick[s].src = "DNSE_WS"
                         => redis'.tick[s] = cells[live_candles[s]]
    BY DEF RedisCaughtUp, buffers
  <2>1. /\ redis.tick[s] # None
        /\ redis.tick[s].src = "DNSE_WS"
           => redis.tick[s] = cells[live_candles[s]]
    BY <1>1 DEF StoreInv, RedisCaughtUp, NoNewFault
  <2>2. QED
    BY <2>1 DEF Kept
<1>4. KafkaCaughtUp'
  <2> SUFFICES ASSUME KafkaEnabled, faults'["kafka"] = 0, NEW s \in Symbols,
                      live_candles[s] # 0, ~Unsent(live_candles[s])
               PROVE  /\ topic'[s] # None
                      /\ topic'[s].src = "DNSE_WS"
                         => topic'[s] = cells[live_candles[s]]
    BY DEF KafkaCaughtUp, buffers, Unsent
  <2>1. /\ topic[s] # None
        /\ topic[s].src = "DNSE_WS" => topic[s] = cells[live_candles[s]]
    BY <1>1 DEF StoreInv, KafkaCaughtUp, NoNewFault
  <2>2. QED
    BY <2>1 DEF Kept
<1>5. QED
  BY <1>2, <1>3, <1>4 DEF StoreInv

\* A tick keeps StoreInv: its symbol has something waiting, the others are
\* left as they are.
LEMMA TickedStores ==
    ASSUME TypeOK, BufferInv, StoreInv, NEW s \in Symbols, NEW c \in CellIds,
           Ticked(s, c)
    PROVE  StoreInv'
<1>1. /\ cells \in [CellIds -> Candles] /\ kafka_buffer \in Seq(CellIds)
      /\ live_candles \in [Symbols -> CellIds \cup {0}]
      /\ tick_buffer \in [Symbols -> CellIds \cup {0}]
      /\ c # 0
  BY DEF TypeOK, CellIds
<1>2. /\ live_candles'[s] = c /\ tick_buffer'[s] = c
      /\ \A r \in Symbols \ {s} : /\ live_candles'[r] = live_candles[r]
                                  /\ tick_buffer'[r] = tick_buffer[r]
      /\ UNCHANGED <<flush, redis, topic, faults>>
  BY <1>1 DEF Ticked
<1>3. \A r \in Symbols \ {s} :
          live_candles[r] # 0
          => cells'[live_candles[r]] = cells[live_candles[r]]
  <2> SUFFICES ASSUME NEW r \in Symbols \ {s}, live_candles[r] # 0
               PROVE  cells'[live_candles[r]] = cells[live_candles[r]]
    OBVIOUS
  <2>1. live_candles[r] \in Referenced \cap CellIds
    BY <1>1 DEF Referenced
  <2>2. live_candles[r] # c
    BY <1>1, <2>1 DEF Ticked, BufferInv, LiveSymbol
  <2>3. QED
    BY <2>1, <2>2 DEF Ticked
<1>4. PipeIsLive'
  BY <1>1, <1>2, <1>3 DEF StoreInv, PipeIsLive
<1>5. RedisCaughtUp'
  BY <1>1, <1>2, <1>3 DEF StoreInv, RedisCaughtUp
<1>6. KafkaCaughtUp'
  <2> SUFFICES ASSUME KafkaEnabled, faults["kafka"] = 0, NEW r \in Symbols,
                      live_candles'[r] # 0, ~Unsent(live_candles[r])'
               PROVE  /\ topic[r] # None
                      /\ topic[r].src = "DNSE_WS"
                         => topic[r] = cells'[live_candles'[r]]
    BY <1>2 DEF KafkaCaughtUp
  <2>1. /\ \A d \in CellIds : Unsent(d) => Unsent(d)'
        /\ Unsent(c)'
    <3> DEFINE n == Len(kafka_buffer) + 1
    <3>1. /\ n \in DOMAIN kafka_buffer' /\ kafka_buffer'[n] = c
          /\ \A j \in DOMAIN kafka_buffer : /\ kafka_buffer'[j] = kafka_buffer[j]
                                            /\ j \in DOMAIN kafka_buffer'
      BY <1>1 DEF Ticked
    <3>2. QED
      BY <1>2, <3>1 DEF Unsent
  <2>2. r # s
    <3>1. r = s => (Unsent(live_candles[r]))'
      BY <1>2, <2>1 DEF Unsent
    <3>2. QED
      BY <3>1
  <2>3. live_candles[r] # 0 /\ ~Unsent(live_candles[r])
    BY <1>1, <1>2, <2>1, <2>2
  <2>4. QED
    BY <1>2, <1>3, <2>2, <2>3 DEF StoreInv, KafkaCaughtUp
<1>7. QED
  BY <1>4, <1>5, <1>6 DEF StoreInv

\* A flush that starts takes the live candles with it.
LEMMA FlushStartStores ==
    ASSUME TypeOK, BufferInv, StoreInv, FlushStart
    PROVE  StoreInv'
<1>1. /\ cells \in [CellIds -> Candles]
      /\ live_candles \in [Symbols -> CellIds \cup {0}]
      /\ tick_buffer \in [Symbols -> CellIds \cup {0}]
      /\ UNCHANGED <<cells, live_candles, redis, topic, faults>>
  BY DEF TypeOK, FlushStart
<1>2. \A s \in Symbols :
          IF tick_buffer[s] = 0
          THEN flush'.pipe.tick[s] = None /\ flush.pipe.tick[s] = None
          ELSE /\ flush'.pipe.tick[s] = cells[live_candles[s]]
               /\ flush'.pipe.tick[s] # None
  <2>1. flush.pipe = EmptyPipe
    BY DEF FlushStart, BufferInv, FlushIdle
  <2>2. CASE NothingToFlush
    BY <2>1, <2>2 DEF FlushStart, NothingToFlush, NoCell, EmptyPipe, Nothing
  <2>3. CASE ~NothingToFlush
    <3>1. flush'.pipe.tick = [s \in Symbols |->
              IF tick_buffer[s] = 0 THEN None ELSE cells[tick_buffer[s]]]
      BY <2>3 DEF FlushStart, FlushPipe
    <3>2. \A s \in Symbols : tick_buffer[s] # 0 => cells[tick_buffer[s]] # None
      BY <1>1, NoneAssumption
    <3>3. QED
      BY <2>1, <3>1, <3>2 DEF EmptyPipe, Nothing, BufferInv, TickBufferIsLive
  <2>4. QED
    BY <2>2, <2>3
<1>3. PipeIsLive'
  BY <1>1, <1>2 DEF PipeIsLive
<1>4. RedisCaughtUp'
  BY <1>1, <1>2 DEF RedisCaughtUp, StoreInv
<1>5. KafkaCaughtUp'
  <2>1. \A c \in CellIds : Unsent(c) => Unsent(c)'
    BY FlushStartKafkas DEF Unsent
  <2>2. QED
    BY <1>1, <2>1 DEF KafkaCaughtUp, StoreInv
<1>6. QED
  BY <1>3, <1>4, <1>5 DEF StoreInv

\* A flush's pipeline brings Redis up to date, when it does not fail.
LEMMA FlushRedisStores ==
    ASSUME TypeOK, BufferInv, StoreInv, FlushRedis
    PROVE  StoreInv'
<1>1. /\ flush \in [pc: {"sleep", "redis", "kafka"}, pipe: Pipes,
                    kafkas: Seq(CellIds)]
      /\ faults \in [FaultKind -> Nat]
  BY DEF TypeOK
<1>2. /\ UNCHANGED <<cells, live_candles, tick_buffer, kafka_buffer, topic>>
      /\ Executed(flush.pipe) \/ Raised(flush.pipe)
  BY DEF FlushRedis, memory
<1>3. NoNewFault /\ (faults'["redis"] = 0 => redis' = Execute(flush.pipe))
  BY <1>2, AttemptFaults
<1>4. flush'.kafkas = flush.kafkas /\ flush'.pipe = EmptyPipe
  <2>1. flush' = [flush EXCEPT !.pc = "kafka", !.pipe = EmptyPipe]
    BY DEF FlushRedis
  <2>2. QED
    BY <1>1, <2>1
<1>5. PipeIsLive'
  BY <1>4 DEF PipeIsLive, EmptyPipe, Nothing
<1>6. RedisCaughtUp'
  <2> SUFFICES ASSUME faults'["redis"] = 0, NEW s \in Symbols,
                      live_candles[s] # 0, tick_buffer[s] = 0
               PROVE  /\ redis'.tick[s] # None
                      /\ redis'.tick[s].src = "DNSE_WS"
                         => redis'.tick[s] = cells[live_candles[s]]
    BY <1>2 DEF RedisCaughtUp
  <2>1. redis'.tick[s] = IF flush.pipe.tick[s] = None THEN redis.tick[s]
                         ELSE flush.pipe.tick[s]
    BY <1>3 DEF Execute, Overlay
  <2>2. faults["redis"] = 0
    BY <1>3 DEF NoNewFault, FaultKind
  <2>3. QED
    BY <2>1, <2>2 DEF StoreInv, PipeIsLive, RedisCaughtUp
<1>7. KafkaCaughtUp'
  <2>1. faults'["kafka"] = 0 => faults["kafka"] = 0
    BY <1>3 DEF NoNewFault, FaultKind
  <2>2. QED
    BY <1>2, <1>4, <2>1 DEF StoreInv, KafkaCaughtUp, Unsent
<1>8. QED
  BY <1>5, <1>6, <1>7 DEF StoreInv

\* A sent candle is the last of its key, or its symbol's live one follows.
LEMMA FlushKafkaStores ==
    ASSUME TypeOK, BufferInv, StoreInv, FlushKafka
    PROVE  StoreInv'
<1> DEFINE h == Head(flush.kafkas)
<1>1. /\ flush \in [pc: {"sleep", "redis", "kafka"}, pipe: Pipes,
                    kafkas: Seq(CellIds)]
      /\ flush.kafkas \in Seq(CellIds) /\ flush.kafkas # <<>>
      /\ cells \in [CellIds -> Candles] /\ topic \in Keyed(Candles)
      /\ live_candles \in [Symbols -> CellIds \cup {0}]
      /\ UNCHANGED <<cells, live_candles, tick_buffer, kafka_buffer, redis>>
  BY DEF TypeOK, FlushKafka, memory
<1>2. flush'.kafkas = Tail(flush.kafkas) /\ flush'.pipe = flush.pipe
  <2>1. flush' = [flush EXCEPT !.kafkas = Tail(flush.kafkas)]
    BY DEF FlushKafka
  <2>2. QED
    BY <1>1, <2>1
<1>3. h \in CellIds /\ h = flush.kafkas[1] /\ 1 \in DOMAIN flush.kafkas
  BY <1>1
<1>4. /\ NoNewFault
      /\ faults'["kafka"] = 0 => topic' = [topic EXCEPT ![cells[h].sym] = cells[h]]
  <2>1. Send(cells[h])
    BY DEF FlushKafka
  <2> HIDE DEF h
  <2>2. QED
    BY <2>1, SendFaults
<1>5. PipeIsLive' /\ RedisCaughtUp'
  BY <1>1, <1>2, <1>4
     DEF StoreInv, PipeIsLive, RedisCaughtUp, NoNewFault, FaultKind
<1>6. KafkaCaughtUp'
  <2> SUFFICES ASSUME KafkaEnabled, faults'["kafka"] = 0, NEW s \in Symbols,
                      live_candles[s] # 0, ~Unsent(live_candles[s])'
               PROVE  /\ topic'[s] # None
                      /\ topic'[s].src = "DNSE_WS"
                         => topic'[s] = cells[live_candles[s]]
    BY <1>1 DEF KafkaCaughtUp, Unsent
  <2> DEFINE c == live_candles[s]
  <2>1. c \in CellIds /\ cells[c].sym = s /\ cells[c] # None
    BY <1>1, NoneAssumption DEF BufferInv, LiveSymbol
  <2>2. /\ \A j \in DOMAIN kafka_buffer : kafka_buffer[j] # c
        /\ \A j \in DOMAIN Tail(flush.kafkas) : Tail(flush.kafkas)[j] # c
    BY <1>1, <1>2 DEF Unsent
  <2>3. \A j \in DOMAIN flush.kafkas : j # 1 => flush.kafkas[j] # c
    <3> SUFFICES ASSUME NEW j \in DOMAIN flush.kafkas, j # 1
                 PROVE  flush.kafkas[j] # c
      OBVIOUS
    <3>1. /\ j - 1 \in DOMAIN Tail(flush.kafkas)
          /\ Tail(flush.kafkas)[j - 1] = flush.kafkas[j]
      BY <1>1
    <3>2. QED
      BY <2>2, <3>1
  <2>4. CASE h = c
    <3>1. topic'[s] = cells[c]
      BY <1>1, <1>4, <2>1, <2>4 DEF Keyed
    <3>2. QED
      BY <2>1, <3>1
  <2>5. CASE h # c
    <3>1. cells[h].sym # s
      <4>1. LiveOf(h) # c
        BY <1>3, <2>2, <2>3, <2>5 DEF BufferInv, SendOrder
      <4>2. QED
        BY <4>1 DEF LiveOf
    <3>2. ~Unsent(c)
      BY <1>3, <2>2, <2>3, <2>5 DEF Unsent
    <3>3. topic'[s] = topic[s]
      BY <1>1, <1>4, <3>1 DEF Keyed
    <3>4. faults["kafka"] = 0
      BY <1>4 DEF NoNewFault, FaultKind
    <3>5. QED
      BY <3>2, <3>3, <3>4 DEF StoreInv, KafkaCaughtUp
  <2>6. QED
    BY <2>4, <2>5
<1>7. QED
  BY <1>5, <1>6 DEF StoreInv

\* Nothing of it when the flusher has sent everything.
LEMMA FlushDoneStores ==
    ASSUME TypeOK, BufferInv, StoreInv, FlushDone
    PROVE  StoreInv'
<1>1. /\ UNCHANGED <<cells, live_candles, tick_buffer, kafka_buffer, redis,
                     topic, faults>>
      /\ flush.pipe = EmptyPipe /\ flush'.pipe = EmptyPipe
      /\ flush.kafkas = <<>> /\ flush'.kafkas = <<>>
  BY DEF FlushDone, IdleFlush, BufferInv, FlushIdle, memory
<1>2. QED
  BY <1>1 DEF StoreInv, PipeIsLive, RedisCaughtUp, KafkaCaughtUp, Unsent

\* Fetched candles are marked as such (_fetch_finalized_candle, source).
LEMMA FinalCandlesSource ==
    ASSUME NEW s, NEW c \in FinalCandles(s)
    PROVE  c.src = "DNSE"
BY DEF FinalCandles, Candle

\* The batch layer keeps RestSource.
LEMMA BatchLayerSource ==
    ASSUME TypeOK, RestSource, BatchLayer
    PROVE  RestSource'
<1>1. /\ rest \in RestType
      /\ FromRest(Nothing) /\ EmptyPipe.tick = Nothing
  BY DEF TypeOK, RestType, FromRest, Nothing, EmptyPipe
<1>2. ASSUME NEW pc, RestGoto(pc) PROVE RestSource'
  <2>1. rest' = [rest EXCEPT !.pc = pc, !.pipe = EmptyPipe]
    BY <1>2 DEF RestGoto
  <2>2. rest'.pipe = EmptyPipe /\ rest'.candles = rest.candles
    BY <1>1, <2>1 DEF RestType
  <2>3. QED
    BY <1>1, <2>2 DEF RestSource
<1>3. ASSUME rest'.candles = rest.candles,
             rest'.pipe.tick \in {rest.pipe.tick, Nothing}
      PROVE  RestSource'
  BY <1>1, <1>3 DEF RestSource
<1>4. CASE RestTop \/ \E s \in Symbols : RestKafka(s)
  <2>1. rest'.candles = rest.candles /\ rest'.pipe = rest.pipe
    BY <1>1, <1>4 DEF RestTop, RestKafka, RestType
  <2>2. QED
    BY <1>3, <2>1
<1>5. CASE RestDaily
  <2>1. PICK d \in [Symbols -> FetchDaily \cup {None}] :
          IF d = Nothing
          THEN rest' = [rest EXCEPT !.pc = "market",
                                    !.last_daily_fetch = rest.cycle_start]
          ELSE rest' = [rest EXCEPT !.pc = "daily_exec", !.pipe =
                   [EmptyPipe EXCEPT
                      !.daily = d,
                      !.secdef = [s \in Symbols |->
                          IF d[s] = None THEN None ELSE d[s].basic]]]
    BY <1>5 DEF RestDaily
  <2>2. /\ rest'.candles = rest.candles
        /\ rest'.pipe.tick \in {rest.pipe.tick, Nothing}
    BY <1>1, <2>1 DEF RestType, EmptyPipe
  <2>3. QED
    BY <1>3, <2>2
<1>6. CASE RestDailyExec
  <2>1. \/ RestGoto("sleep")
        \/ rest' = [rest EXCEPT !.pc = "market", !.pipe = EmptyPipe,
                                !.last_daily_fetch = rest.cycle_start]
    BY <1>6 DEF RestDailyExec
  <2>2. \/ RestGoto("sleep")
        \/ rest'.candles = rest.candles /\ rest'.pipe = EmptyPipe
    BY <1>1, <2>1 DEF RestType
  <2>3. QED
    BY <1>1, <1>2, <1>3, <2>2
<1>7. CASE \E open \in BOOLEAN : RestMarket(open)
  <2>1. \/ RestGoto("sleep")
        \/ rest'.candles = rest.candles /\ rest'.pipe = rest.pipe
    BY <1>1, <1>7 DEF RestMarket, RestType
  <2>2. QED
    BY <1>2, <1>3, <2>1
<1>8. CASE RestFetch
  <2>1. PICK c \in [Symbols -> UNION {FinalCandles(s) : s \in Symbols}
                               \cup {None}] :
          /\ \A s \in Symbols : c[s] \in FinalCandles(s) \cup {None}
          /\ \/ RestGoto("sleep")
             \/ rest' = [rest EXCEPT !.pc = "mget", !.candles = c]
    BY <1>8 DEF RestFetch
  <2>2. FromRest(c)
    BY <2>1, FinalCandlesSource DEF FromRest
  <2>3. CASE rest' = [rest EXCEPT !.pc = "mget", !.candles = c]
    <3>1. rest'.candles = c /\ rest'.pipe = rest.pipe
      BY <1>1, <2>3 DEF RestType
    <3>2. QED
      BY <2>2, <3>1 DEF RestSource
  <2>4. QED
    BY <1>2, <2>1, <2>3
<1>9. CASE RestMgetTicks
  <2>1. /\ rest'.candles = rest.candles
        /\ rest'.pipe.tick = [s \in Symbols |->
               IF Newer(s) THEN rest.candles[s] ELSE None]
    BY <1>1, <1>9 DEF RestMgetTicks, RestType, EmptyPipe
  <2>2. FromRest(rest'.pipe.tick)
    BY <2>1 DEF RestSource, FromRest
  <2>3. QED
    BY <2>1, <2>2 DEF RestSource
<1>10. CASE RestMgetRaises \/ RestExecTicks \/ RestKafkaDone
  BY <1>2, <1>10 DEF RestMgetRaises, RestExecTicks, RestKafkaDone
<1>11. CASE RestMgetDailies
  <2>1. /\ rest'.candles = rest.candles
        /\ rest'.pipe.tick = Nothing
    BY <1>1, <1>11 DEF RestMgetDailies, RestType, EmptyPipe
  <2>2. QED
    BY <1>3, <2>1
<1>12. CASE RestPatchDailies
  <2>1. \/ RestGoto("sleep")
        \/ rest'.candles = rest.candles /\ rest'.pipe = EmptyPipe
    BY <1>1, <1>12 DEF RestPatchDailies, RestType
  <2>2. QED
    BY <1>1, <1>2, <1>3, <2>1
<1>13. CASE RestWake
  <2>1. rest'.candles = Nothing /\ rest'.pipe = rest.pipe
    BY <1>1, <1>13 DEF RestWake, RestType
  <2>2. QED
    BY <1>1, <2>1 DEF RestSource
<1>14. QED
  BY <1>4, <1>5, <1>6, <1>7, <1>8, <1>9, <1>10, <1>11, <1>12, <1>13
     DEF BatchLayer

\* The batch layer gives the stores candles of its own only.
LEMMA BatchLayerStores ==
    ASSUME TypeInv, RestSource, StoreInv, BatchLayer
    PROVE  StoreInv'
<1>1. TypeOK /\ UnsentFetched /\ FromRest(rest.pipe.tick) /\ UNCHANGED buffers
  BY OthersBuffers DEF TypeInv, RestSource
<1>2. CASE /\ Executed(rest.pipe) \/ Raised(rest.pipe)
           /\ UNCHANGED topic
  <2>1. NoNewFault /\ Kept(redis.tick, redis'.tick)
    BY <1>1, <1>2, AttemptFaults, AttemptKept
  <2>2. QED
    BY <1>1, <1>2, <2>1, StoreFrame DEF Kept
<1>3. CASE UNCHANGED <<redis, topic, faults>>
  BY <1>1, <1>3, StoreFrame DEF Kept, NoNewFault
<1>4. CASE RestMgetRaises
  <2>1. /\ UNCHANGED <<redis, topic>>
        /\ faults' = [faults EXCEPT !["redis"] = faults["redis"] + 1]
        /\ faults \in [FaultKind -> Nat]
    BY <1>1, <1>4 DEF RestMgetRaises, TypeOK
  <2>2. faults["redis"] + 1 # 0
    BY <2>1 DEF FaultKind
  <2>3. NoNewFault
    BY <2>1, <2>2 DEF NoNewFault
  <2>4. QED
    BY <1>1, <2>1, <2>3, StoreFrame DEF Kept
<1>5. CASE \E s \in Symbols : RestKafka(s)
  <2>1. PICK s \in Symbols : RestKafka(s)
    BY <1>5
  <2> DEFINE c == rest.candles[s]
  <2>2. /\ Send(c) /\ UNCHANGED redis
        /\ rest.candles \in Keyed(Candles) /\ topic \in Keyed(Candles)
        /\ s \in rest.unsent /\ FromRest(rest.candles)
    BY <1>1, <2>1 DEF RestKafka, TypeOK, RestSource
  <2>3. c \in Candles /\ c.src = "DNSE" /\ c # None
    BY <1>1, <2>2 DEF UnsentFetched, Keyed, FromRest
  <2> HIDE DEF c
  <2>4. NoNewFault /\ topic' \in {topic, [topic EXCEPT ![c.sym] = c]}
    BY <1>1, <2>2, SendFaults
  <2>5. Kept(topic, topic')
    BY <2>2, <2>3, <2>4 DEF Kept, Keyed
  <2>6. QED
    BY <1>1, <2>2, <2>4, <2>5, StoreFrame DEF Kept
<1>6. CASE RestDailyExec \/ RestExecTicks \/ RestPatchDailies
  BY <1>2, <1>6 DEF RestDailyExec, RestExecTicks, RestPatchDailies
<1>7. CASE \/ RestTop \/ RestDaily \/ RestFetch \/ RestMgetTicks
           \/ RestMgetDailies \/ RestKafkaDone \/ RestWake
           \/ \E open \in BOOLEAN : RestMarket(open)
  BY <1>3, <1>7 DEF RestTop, RestDaily, RestFetch, RestMgetTicks,
     RestMgetDailies, RestKafkaDone, RestWake, RestMarket, RestOnly
<1>8. QED
  BY <1>4, <1>5, <1>6, <1>7 DEF BatchLayer

\* So do the r.set calls, which set no tick.
LEMMA SetSecdefStores ==
    ASSUME TypeOK, StoreInv, NEW w \in secdef_sets, SetSecdef(w)
    PROVE  StoreInv'
<1> DEFINE p == [EmptyPipe EXCEPT !.secdef[w.sym] = w.basic]
<1>1. (Executed(p) \/ Raised(p)) /\ UNCHANGED topic
  BY DEF SetSecdef
<1>2. FromRest(p.tick)
  BY DEF EmptyPipe, FromRest, Nothing
<1> HIDE DEF p
<1>3. NoNewFault /\ Kept(redis.tick, redis'.tick)
  BY <1>1, <1>2, AttemptFaults, AttemptKept
<1>4. QED
  BY <1>1, <1>3, OthersBuffers, StoreFrame DEF Kept

ProducerInv == TypeInv /\ BufferInv /\ RestSource /\ StoreInv

\* A step of the producer keeps the stores up to date.
LEMMA StoreNext ==
    ProducerInv /\ [Next]_vars => RestSource' /\ StoreInv'
<1> SUFFICES ASSUME ProducerInv, [Next]_vars PROVE RestSource' /\ StoreInv'
  OBVIOUS
<1>1. TypeInv /\ TypeOK /\ BufferInv /\ LiveSymbol /\ RestSource /\ StoreInv
  BY DEF ProducerInv, TypeInv, BufferInv
<1>2. ASSUME UNCHANGED rest PROVE RestSource'
  BY <1>1, <1>2 DEF RestSource, FromRest
<1>3. ASSUME UNCHANGED shared PROVE StoreInv'
  <2>1. UNCHANGED <<buffers, redis, topic, faults>>
    BY <1>3 DEF shared, buffers
  <2>2. NoNewFault /\ Kept(redis.tick, redis'.tick) /\ Kept(topic, topic')
    BY <2>1 DEF NoNewFault, Kept
  <2>3. QED
    BY <1>1, <2>1, <2>2, StoreFrame
<1>4. CASE SpeedLayer
  BY <1>1, <1>2, <1>3, <1>4, SpeedLayerTicks, TickedStores, RestUnchanged
<1>5. CASE Flusher
  BY <1>1, <1>2, <1>5, RestUnchanged, FlushStartStores, FlushRedisStores,
     FlushKafkaStores, FlushDoneStores DEF Flusher
<1>6. CASE BatchLayer
  BY <1>1, <1>6, BatchLayerSource, BatchLayerStores
<1>7. CASE \E w \in secdef_sets : SetSecdef(w)
  BY <1>1, <1>2, <1>7, RestUnchanged, SetSecdefStores
<1>8. CASE Minute
  BY <1>2, <1>3, <1>8 DEF Minute, shared, memory
<1>9. CASE Restart
  <2>1. /\ live_candles' = NoCell /\ rest' = FirstCycle
    BY <1>9 DEF Restart
  <2>2. QED
    BY <2>1 DEF NoCell, FirstCycle, RestSource, FromRest, EmptyPipe, Nothing,
       StoreInv, PipeIsLive, RedisCaughtUp, KafkaCaughtUp
<1>10. CASE UNCHANGED vars
  BY <1>2, <1>3, <1>10 DEF vars, shared, memory
<1>11. QED
  BY <1>4, <1>5, <1>6, <1>7, <1>8, <1>9, <1>10 DEF Next

\* ProducerInv holds in every reachable state.
LEMMA ProducerCorrect == Spec => []ProducerInv
<1>1. Init => RestSource /\ StoreInv
  BY DEF Init, NoCell, FirstCycle, RestSource, FromRest, EmptyPipe, Nothing,
     StoreInv, PipeIsLive, RedisCaughtUp, KafkaCaughtUp
<1>2. TypeInv /\ BufferInv /\ (RestSource /\ StoreInv) <=> ProducerInv
  BY DEF ProducerInv
<1>3. QED
  BY <1>1, <1>2, TypeInvCorrect, BufferCorrect, StoreNext, PTL DEF Spec

\* As long as Redis answers, Redis shows the live candle of every symbol that
\* has nothing waiting (_flush_buffers, _handle_trade, _handle_ohlc_1m).
THEOREM RedisCorrect == Spec => []RedisCaughtUp
<1>1. ProducerInv => RedisCaughtUp
  BY DEF ProducerInv, StoreInv
<1>2. QED
  BY <1>1, ProducerCorrect, PTL

\* As long as no send fails, the topic ends with the live candle of every
\* symbol that has nothing waiting, although intermediate states of a candle
\* are never sent (_flush_buffers, _publish_kafka).
THEOREM KafkaCorrect == Spec => []KafkaCaughtUp
<1>1. ProducerInv => KafkaCaughtUp
  BY DEF ProducerInv, StoreInv
<1>2. QED
  BY <1>1, ProducerCorrect, PTL

-----------------------------------------------------------------------------
(* Trades *)

\* A symbol with trades of this minute has a candle of this minute, which
\* counts them.
TradesInv ==
    \A s \in Symbols :
        /\ trade_vol[s] # 0 => CurrentCandle(s)
        /\ CurrentCandle(s) => cells[live_candles[s]].vol >= trade_vol[s]

\* A trade leaves the live candles of other symbols alone.
LEMMA TradeFrame ==
    ASSUME TypeOK, LiveSymbol, NEW s \in Symbols, NEW p \in Prices, NEW q \in Quantities,
           HandleTrade(s, p, q), NEW x \in Symbols \ {s}
    PROVE  /\ live_candles'[x] = live_candles[x]
           /\ live_candles[x] # 0 => cells'[live_candles[x]] = cells[live_candles[x]]
<1>1. /\ live_candles \in [Symbols -> CellIds \cup {0}]
      /\ cells \in [CellIds -> Candles]
  BY DEF TypeOK
<1>2. CASE CurrentCandle(s)
  <2>1. UNCHANGED live_candles
        /\ cells' = [cells EXCEPT ![live_candles[s]] = Traded(@, p, q)]
    BY <1>2 DEF HandleTrade, ExtendCandle
  <2>2. live_candles[x] # 0 => live_candles[x] # live_candles[s]
    BY <1>2 DEF LiveSymbol, CurrentCandle
  <2>3. QED
    BY <1>1, <2>1, <2>2
<1>3. CASE ~ CurrentCandle(s)
  <2> DEFINE candle == Candle(s, now, [high |-> p, low |-> p, close |-> p], q, "DNSE_WS")
  <2>1. StartCandle(s, candle)
    BY <1>3 DEF HandleTrade
  <2> HIDE DEF candle
  <2>2. live_candles' = [live_candles EXCEPT ![s] = FreshCell]
    BY <2>1 DEF StartCandle
  <2>3. FreshCell \notin Referenced
    BY <2>1, FreshCellType DEF StartCandle, FreshCell, FreeCells
  <2>4. live_candles[x] \in Referenced
    BY DEF Referenced
  <2>5. live_candles[x] # 0 => cells'[live_candles[x]] = cells[live_candles[x]]
    BY <1>1, <2>1, <2>3, <2>4 DEF StartCandle, FreeCells
  <2>6. QED
    BY <1>1, <2>2, <2>5
<1>4. QED
  BY <1>2, <1>3

\* A trade is added to the live candle of its minute, or starts it.
LEMMA TradeCounts ==
    ASSUME TypeOK, TradesInv, NEW s \in Symbols, NEW p \in Prices, NEW q \in Quantities,
           HandleTrade(s, p, q)
    PROVE  CurrentCandle(s)' /\ cells'[live_candles'[s]].vol >= trade_vol'[s]
<1>1. /\ live_candles \in [Symbols -> CellIds \cup {0}]
      /\ cells \in [CellIds -> Candles] /\ now \in Nat
      /\ trade_vol \in [Symbols -> Nat] /\ q \in Nat
  BY ConstantTypes DEF TypeOK
<1>2. trade_vol'[s] = trade_vol[s] + q /\ now' = now
  BY <1>1 DEF HandleTrade
<1>3. CASE CurrentCandle(s)
  <2> DEFINE c == live_candles[s]
  <2>1. c \in CellIds /\ cells[c] \in Candles
    BY <1>1, <1>3 DEF CurrentCandle
  <2>2. live_candles' = live_candles /\ cells'[c] = Traded(cells[c], p, q)
    BY <1>1, <1>3, <2>1 DEF HandleTrade, ExtendCandle
  <2>3. /\ Traded(cells[c], p, q).time = cells[c].time
        /\ Traded(cells[c], p, q).vol = cells[c].vol + q
    BY <2>1 DEF Traded, Candles
  <2>4. cells[c].vol >= trade_vol[s] /\ cells[c].vol \in Nat
    BY <1>3, <2>1 DEF TradesInv, Candles
  <2>5. CurrentCandle(s)'
    BY <1>2, <1>3, <2>2, <2>3 DEF CurrentCandle
  <2>6. cells'[live_candles'[s]].vol >= trade_vol'[s]
    BY <1>1, <1>2, <2>2, <2>3, <2>4
  <2>7. QED
    BY <2>5, <2>6
<1>4. CASE ~ CurrentCandle(s)
  <2> DEFINE candle == Candle(s, now, [high |-> p, low |-> p, close |-> p], q, "DNSE_WS")
  <2>1. StartCandle(s, candle)
    BY <1>4 DEF HandleTrade
  <2>2. candle.time = now /\ candle.vol = q
    BY DEF Candle
  <2> HIDE DEF candle
  <2>3. FreshCell \in CellIds /\ FreshCell # 0
    BY <2>1, FreshCellType DEF StartCandle, FreshCell, FreeCells, CellIds
  <2>4. live_candles'[s] = FreshCell /\ cells'[FreshCell] = candle
    BY <1>1, <2>1, <2>3 DEF StartCandle
  <2>5. trade_vol[s] = 0
    BY <1>4 DEF TradesInv
  <2>6. QED
    BY <1>1, <1>2, <2>2, <2>3, <2>4, <2>5 DEF CurrentCandle
<1>5. QED
  BY <1>3, <1>4

\* Trades are counted whoever else runs, if no bar of a minute replaces a
\* candle that trades have built.
LEMMA TradesNext ==
    ASSUME "ohlc_1m" \notin Channels, TypeOK, LiveSymbol, TradesInv, [Next]_vars
    PROVE  TradesInv'
<1>1. ASSUME NEW s \in Symbols, NEW p \in Prices, NEW q \in Quantities,
             HandleTrade(s, p, q)
      PROVE  TradesInv'
  <2> SUFFICES ASSUME NEW x \in Symbols
               PROVE  /\ trade_vol'[x] # 0 => CurrentCandle(x)'
                      /\ CurrentCandle(x)' => cells'[live_candles'[x]].vol >= trade_vol'[x]
    BY DEF TradesInv, CurrentCandle
  <2>1. CASE x = s
    BY <1>1, <2>1, TradeCounts
  <2>2. CASE x # s
    <3>1. /\ live_candles'[x] = live_candles[x]
          /\ live_candles[x] # 0 => cells'[live_candles[x]] = cells[live_candles[x]]
      BY <1>1, <2>2, TradeFrame
    <3>2. trade_vol'[x] = trade_vol[x] /\ now' = now
      BY <1>1, <2>2 DEF HandleTrade, TypeOK
    <3>3. CurrentCandle(x)' <=> CurrentCandle(x)
      BY <3>1, <3>2 DEF CurrentCandle
    <3>4. CurrentCandle(x) => live_candles[x] # 0
      BY DEF CurrentCandle
    <3>5. QED
      BY <3>1, <3>2, <3>3, <3>4 DEF TradesInv
  <2>3. QED
    BY <2>1, <2>2
<1>2. CASE UNCHANGED <<now, cells, live_candles, trade_vol>>
  BY <1>2 DEF TradesInv, CurrentCandle
<1>3. CASE SpeedLayer
  <2>1. CASE \/ \E s \in Symbols, b \in Bars(Prices) : HandleOhlc1d(s, b)
             \/ \E s \in Symbols, basic \in SecDefs : HandleSecdef(s, basic)
             \/ \E s \in Symbols, q \in Quotes : HandleQuote(s, q)
    BY <1>2, <2>1 DEF HandleOhlc1d, HandleSecdef, HandleQuote, aux
  <2>2. QED
    BY <1>1, <1>3, <2>1 DEF SpeedLayer
<1>4. CASE Flusher
  BY <1>2, <1>4 DEF Flusher, FlushStart, FlushRedis, FlushKafka, FlushDone, memory, aux
<1>5. CASE BatchLayer
  BY <1>2, <1>5 DEF BatchLayer, RestTop, RestDaily, RestDailyExec, RestMarket,
     RestFetch, RestMgetTicks, RestMgetRaises, RestExecTicks, RestMgetDailies,
     RestPatchDailies, RestKafka, RestKafkaDone, RestWake, RestOnly, memory, aux
<1>6. CASE \E w \in secdef_sets : SetSecdef(w)
  BY <1>2, <1>6 DEF SetSecdef, memory, aux
<1>7. CASE Minute
  <2>1. trade_vol' = Zero /\ UNCHANGED <<cells, live_candles>>
    BY <1>7 DEF Minute, memory
  <2>2. \A s \in Symbols : live_candles[s] # 0 => cells[live_candles[s]].vol \in Nat
    BY DEF TypeOK, Candles
  <2>3. QED
    BY <2>1, <2>2 DEF TradesInv, CurrentCandle, Zero
<1>8. CASE Restart
  BY <1>8 DEF Restart, TradesInv, CurrentCandle, NoCell, Zero
<1>9. CASE UNCHANGED vars
  BY <1>2, <1>9 DEF vars, memory, aux
<1>10. QED
  BY <1>3, <1>4, <1>5, <1>6, <1>7, <1>8, <1>9 DEF Next

\* No trade of the minute is lost from the live candle, for any number of
\* symbols, failures and restarts, as long as no bar of a minute replaces what
\* trades have built (_handle_trade).
THEOREM TradesCountedCorrect ==
    ASSUME "ohlc_1m" \notin Channels
    PROVE  Spec => []TradesCounted
<1>1. Init => TradesInv
  BY DEF Init, TradesInv, CurrentCandle, NoCell, Zero
<1>2. TypeInv /\ BufferInv /\ TradesInv /\ [Next]_vars => TradesInv'
  BY TradesNext DEF TypeInv, BufferInv
<1>3. TradesInv => TradesCounted
  BY DEF TradesInv, TradesCounted
<1>4. QED
  BY <1>1, <1>2, <1>3, TypeInvCorrect, BufferCorrect, PTL DEF Spec

=============================================================================
