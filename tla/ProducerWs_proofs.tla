------------------------- MODULE ProducerWs_proofs --------------------------
(***************************************************************************)
(* Proofs about module ProducerWs, for any symbols, prices and number of   *)
(* tasks under way, restarts and failures: the types; that the change of a *)
(* daily record is that of its own prices; and that the topic ends with    *)
(* the live candle, in whatever order tasks run.                           *)
(***************************************************************************)
EXTENDS ProducerWs, TLAPS

LEMMA ConstantTypes ==
    /\ Prices \subseteq Nat \ {0} /\ References \subseteq Nat \ {0}
    /\ Volumes \subseteq Nat \ {0} /\ KafkaEnabled \in BOOLEAN
    /\ DailyRefresh \in Nat \ {0} /\ None \notin Nat
    /\ MaxMinute \in Nat /\ MaxTrades \in Nat /\ MaxBars \in Nat /\ MaxFaults \in Nat
BY ProducerWsAssumption

-----------------------------------------------------------------------------
(* The types, as far as the proofs need them *)

Stores == [tick: [Symbols -> Maybe(Candle)], daily: [Symbols -> Maybe(Daily)],
           secdef: [Symbols -> Maybe(References)]]
Topics == [speed: [Symbols -> Maybe(Candle)], batch: [Symbols -> Maybe(Candle)]]

Cycles == [pc: {"sleep", "daily", "candles"}, age: Nat,
           fetched: [Symbols -> Maybe(References \X (Prices \cup References))]]

TypeInv ==
    /\ now \in 0..MaxMinute
    /\ live_candles \in [Symbols -> Maybe(Candle)]
    /\ \A s \in Symbols : live_candles[s] # None => live_candles[s].sym = s
    /\ ticks \subseteq Tick /\ dailies \subseteq DailyTask
    /\ rest \in Cycles
    /\ redis \in Stores /\ topic \in Topics

LEMMA ChangePctType ==
    ASSUME NEW close \in Prices \cup References, NEW ref \in References
    PROVE  ChangePct(close, ref) \in Int
BY ConstantTypes DEF ChangePct

LEMMA FetchedType ==
    ASSUME NEW f \in References \X (Prices \cup References)
    PROVE  FetchedRecord(f) \in Daily
BY ChangePctType DEF FetchedRecord, Daily, Maybe

LEMMA UpdatedType ==
    ASSUME NEW old \in Maybe(Daily), NEW close \in Prices
    PROVE  Updated(old, close) \in Daily
<1>1. (IF old = None THEN None ELSE old.prev) \in Maybe(References)
  BY DEF Maybe, Daily
<1>2. QED
  BY <1>1, ChangePctType DEF Updated, Daily, Maybe

LEMMA KeptType ==
    ASSUME TypeInv, NEW s \in Symbols
    PROVE  Kept(s) \subseteq Tick
<1>1. ASSUME NEW t \in Tick, NEW c \in Maybe(Candle)
      PROVE  [t EXCEPT !.publishes = c] \in Tick
  BY DEF Tick
<1>2. QED
  BY <1>1 DEF Kept, TypeInv

LEMMA TickTaskType ==
    ASSUME NEW c \in Candle, NEW trade \in BOOLEAN
    PROVE  TickTask(c, trade) \in Tick
BY DEF TickTask, Tick, Maybe

LEMMA InitType ==
    ASSUME Init
    PROVE  TypeInv
BY ConstantTypes DEF Init, TypeInv, Nothing, FirstCycle, Maybe, Stores, Topics, Cycles

LEMMA TradedCandle ==
    ASSUME NEW c \in Candle, NEW p \in Prices
    PROVE  /\ [c EXCEPT !.close = p, !.vol = @ + 1] \in Candle
           /\ [c EXCEPT !.close = p, !.vol = @ + 1].sym = c.sym
<1> DEFINE d == [c EXCEPT !.close = p]
<1>1. d \in Candle /\ d.sym = c.sym /\ d.vol = c.vol /\ d.vol + 1 \in Nat
  BY DEF Candle
<1> HIDE DEF d
<1>2. [d EXCEPT !.vol = d.vol + 1] \in Candle /\ [d EXCEPT !.vol = d.vol + 1].sym = d.sym
  BY <1>1 DEF Candle
<1>3. QED
  BY <1>1, <1>2 DEF d

\* The candle that a trade makes.
LEMMA TradeType ==
    ASSUME TypeInv, NEW s \in Symbols, NEW p \in Prices, HandleTrade(s, p)
    PROVE  \E new \in Candle :
              /\ new.sym = s
              /\ live_candles' = [live_candles EXCEPT ![s] = new]
              /\ ticks' = ticks \cup {TickTask(new, TRUE)}
                 \/ ticks' = Kept(s) \cup {TickTask(new, TRUE)}
              /\ lost' = lost \ {s}
              /\ UNCHANGED <<now, dailies, rest, redis, topic>>
<1> DEFINE c == live_candles[s]
           new == IF c # None /\ c.time = now THEN [c EXCEPT !.close = p, !.vol = @ + 1]
                  ELSE [sym |-> s, time |-> now, close |-> p, vol |-> 1]
<1>1. new \in Candle /\ new.sym = s
  <2>1. CASE c # None /\ c.time = now
    <3>1. c \in Candle /\ c.sym = s
      BY <2>1 DEF TypeInv, Maybe
    <3>2. new = [c EXCEPT !.close = p, !.vol = @ + 1]
      BY <2>1
    <3> HIDE DEF new, c
    <3>3. QED
      BY <3>1, <3>2, TradedCandle
  <2>2. CASE ~(c # None /\ c.time = now)
    BY <2>2 DEF Candle, TypeInv
  <2>3. QED
    BY <2>1, <2>2
<1>2. /\ live_candles' = [live_candles EXCEPT ![s] = new]
      /\ ticks' = ticks \cup {TickTask(new, TRUE)} \/ ticks' = Kept(s) \cup {TickTask(new, TRUE)}
      /\ lost' = lost \ {s}
      /\ UNCHANGED <<now, dailies, rest, redis, topic>>
  BY DEF HandleTrade
<1> HIDE DEF new
<1>3. QED
  BY <1>1, <1>2

LEMMA NextType ==
    ASSUME TypeInv, [Next]_vars
    PROVE  TypeInv'
<1> USE ConstantTypes
<1>1. CASE Minute
  <2>1. now' \in 0..MaxMinute
    BY <1>1 DEF Minute, TypeInv
  <2>2. QED
    BY <1>1, <2>1 DEF Minute, TypeInv
<1>2. ASSUME NEW s \in Symbols, NEW p \in Prices, HandleTrade(s, p)
      PROVE  TypeInv'
  <2>1. PICK new \in Candle :
          /\ new.sym = s
          /\ live_candles' = [live_candles EXCEPT ![s] = new]
          /\ ticks' = ticks \cup {TickTask(new, TRUE)}
             \/ ticks' = Kept(s) \cup {TickTask(new, TRUE)}
          /\ UNCHANGED <<now, dailies, rest, redis, topic>>
    BY <1>2, TradeType
  <2>2. ticks' \subseteq Tick
    BY <2>1, KeptType, TickTaskType DEF TypeInv
  <2>3. QED
    BY <2>1, <2>2 DEF TypeInv, Maybe
<1>3. ASSUME NEW s \in Symbols, NEW p \in Prices, HandleOhlc1d(s, p)
      PROVE  TypeInv'
  BY <1>3 DEF HandleOhlc1d, TypeInv, DailyTask, Maybe
<1>4. ASSUME NEW s \in Symbols, NEW time \in 0..MaxMinute, NEW p \in Prices, NEW v \in Volumes,
             HandleOhlc1m(s, time, p, v)
      PROVE  TypeInv'
  <2> DEFINE new == [sym |-> s, time |-> time, close |-> p, vol |-> v]
  <2>1. new \in Candle /\ new.sym = s
    BY DEF Candle
  <2>2. /\ live_candles' = [live_candles EXCEPT ![s] = new]
        /\ ticks' = Kept(s) \cup {TickTask(new, FALSE)}
        /\ UNCHANGED <<now, dailies, rest, redis, topic>>
    BY <1>4 DEF HandleOhlc1m
  <2> HIDE DEF new
  <2>3. QED
    BY <2>1, <2>2, KeptType, TickTaskType DEF TypeInv, Maybe
<1>5. ASSUME NEW t \in ticks, WriteTick(t)
      PROVE  TypeInv'
  <2>1. t \in Tick /\ t.writes \in Candle /\ t.writes.sym \in Symbols
        /\ [t EXCEPT !.pc = "publish"] \in Tick
    BY DEF TypeInv, Tick, Candle
  <2>2. redis' \in Stores
    BY <1>5, <2>1 DEF WriteTick, TypeInv, Stores, Maybe
  <2>3. QED
    BY <1>5, <2>1, <2>2 DEF WriteTick, TypeInv
<1>6. ASSUME NEW t \in ticks, WriteTickFails(t)
      PROVE  TypeInv'
  BY <1>6 DEF WriteTickFails, TypeInv
<1>7. ASSUME NEW t \in ticks, PublishTick(t)
      PROVE  TypeInv'
  <2>1. t.writes.sym \in Symbols /\ t.publishes \in Maybe(Candle)
    BY DEF TypeInv, Tick, Candle
  <2>2. Published(t) \in Maybe(Candle)
    BY <2>1 DEF Published, TypeInv
  <2>3. topic' \in Topics
    BY <1>7, <2>1, <2>2 DEF PublishTick, TypeInv, Topics
  <2>4. QED
    BY <1>7, <2>3 DEF PublishTick, TypeInv
<1>8. ASSUME NEW d \in dailies, ReadDaily(d)
      PROVE  TypeInv'
  <2>1. d \in DailyTask /\ d.sym \in Symbols /\ d.close \in Prices
    BY DEF TypeInv, DailyTask
  <2>2. redis.daily[d.sym] \in Maybe(Daily)
    BY <2>1 DEF TypeInv, Stores
  <2>3. Updated(redis.daily[d.sym], d.close) \in Daily
    BY <2>1, <2>2, UpdatedType
  <2>4. [d EXCEPT !.record = Updated(redis.daily[d.sym], d.close)] \in DailyTask
    BY <2>1, <2>3 DEF DailyTask, Maybe
  <2>5. QED
    BY <1>8, <2>4 DEF ReadDaily, TypeInv
<1>9. ASSUME NEW d \in dailies, SetDaily(d) \/ DailyFails(d)
      PROVE  TypeInv'
  <2>1. d.sym \in Symbols /\ d.record \in Maybe(Daily)
    BY DEF TypeInv, DailyTask
  <2>2. redis' \in Stores
    BY <1>9, <2>1 DEF SetDaily, DailyFails, TypeInv, Stores
  <2>3. QED
    BY <1>9, <2>2 DEF SetDaily, DailyFails, TypeInv
<1>10. CASE StartCycle
  <2>1. ASSUME rest' = [rest EXCEPT !.pc = "candles"]
        PROVE  rest' \in Cycles
    BY <2>1 DEF TypeInv, Cycles
  <2>2. ASSUME NEW prev \in References, NEW close \in Prices \cup References,
               rest' = [rest EXCEPT !.pc = "daily",
                                    !.fetched = [s \in Symbols |-> <<prev, close>>]]
        PROVE  rest' \in Cycles
    <3> DEFINE fetched == [s \in Symbols |-> <<prev, close>>]
    <3>1. fetched \in [Symbols -> Maybe(References \X (Prices \cup References))]
      BY DEF Maybe
    <3>2. rest' = [[rest EXCEPT !.pc = "daily"] EXCEPT !.fetched = fetched]
      BY <2>2
    <3> HIDE DEF fetched
    <3>3. QED
      BY <3>1, <3>2 DEF TypeInv, Cycles
  <2>3. \/ rest' = [rest EXCEPT !.pc = "candles"]
        \/ \E prev \in References, close \in Prices \cup References :
              rest' = [rest EXCEPT !.pc = "daily",
                                   !.fetched = [s \in Symbols |-> <<prev, close>>]]
    BY <1>10 DEF StartCycle, Rested
  <2>4. QED
    BY <1>10, <2>1, <2>2, <2>3 DEF StartCycle, Rested, TypeInv
<1>11. ASSUME NEW s \in Symbols, FetchFails(s)
       PROVE  TypeInv'
  <2>1. rest' \in Cycles
    BY <1>11 DEF FetchFails, Rested, TypeInv, Maybe, Cycles
  <2>2. QED
    BY <1>11, <2>1 DEF FetchFails, Rested, TypeInv
<1>12. CASE SetDailies
  <2> DEFINE f == rest.fetched
             secdef == [s \in Symbols |-> IF f[s] = None THEN redis.secdef[s] ELSE f[s][1]]
             daily == [s \in Symbols |-> IF f[s] = None THEN redis.daily[s]
                                         ELSE FetchedRecord(f[s])]
  <2>1. secdef \in [Symbols -> Maybe(References)] /\ daily \in [Symbols -> Maybe(Daily)]
    BY FetchedType DEF TypeInv, Maybe, Stores, Cycles
  <2>2. redis' = [[redis EXCEPT !.secdef = secdef] EXCEPT !.daily = daily]
    BY <1>12 DEF SetDailies
  <2> HIDE DEF secdef, daily
  <2>3. redis' \in Stores
    BY <2>1, <2>2 DEF Stores, TypeInv
  <2>4. rest' \in Cycles
    BY <1>12 DEF SetDailies, Rested, Nothing, Maybe, Cycles
  <2>5. QED
    BY <1>12, <2>3, <2>4 DEF SetDailies, Rested, TypeInv
<1>13. CASE SendCandles
  <2>1. topic' \in Topics
    <3>1. PICK c \in [Symbols -> Maybe(Prices)], vol \in Volumes :
            topic' = IF KafkaEnabled /\ now > 0
                     THEN [topic EXCEPT !.batch = [s \in Symbols |->
                             IF c[s] = None THEN topic.batch[s]
                             ELSE [sym |-> s, time |-> now - 1, close |-> c[s], vol |-> vol]]]
                     ELSE topic
      BY <1>13 DEF SendCandles
    <3>2. [s \in Symbols |-> IF c[s] = None THEN topic.batch[s]
             ELSE [sym |-> s, time |-> now - 1, close |-> c[s], vol |-> vol]]
             \in [Symbols -> Maybe(Candle)] \/ ~(now > 0)
      BY DEF Candle, Maybe, TypeInv, Topics
    <3>3. QED
      BY <3>1, <3>2 DEF Topics, TypeInv
  <2>2. NextAge \in Nat
    BY DEF NextAge, TypeInv, Cycles
  <2>3. rest' \in Cycles
    BY <1>13, <2>2 DEF SendCandles, Rested, TypeInv, Cycles
  <2>4. QED
    BY <1>13, <2>1, <2>3 DEF SendCandles, Rested, TypeInv
<1>14. CASE CycleFails
  <2>1. rest' \in Cycles
    BY <1>14 DEF CycleFails, Rested, TypeInv, Nothing, Maybe, Cycles
  <2>2. QED
    BY <1>14, <2>1 DEF CycleFails, Rested, TypeInv
<1>15. CASE Restart
  BY <1>15 DEF Restart, FirstCycle, TypeInv, Nothing, Maybe, Cycles
<1>16. CASE UNCHANGED vars
  BY <1>16 DEF vars, TypeInv
<1>17. QED
  BY <1>1, <1>2, <1>3, <1>4, <1>5, <1>6, <1>7, <1>8, <1>9, <1>10, <1>11, <1>12, <1>13, <1>14,
     <1>15, <1>16 DEF Next, TaskStep, RestStep

LEMMA TypeCorrect == Spec => []TypeInv
BY InitType, NextType, PTL DEF Spec

-----------------------------------------------------------------------------
(* The change of a daily record *)

Matches(r) == r.prev # None => r.pct = ChangePct(r.close, r.prev)

\* Records that a task has made and not yet set match as well.
PctInv ==
    /\ \A s \in Symbols : redis.daily[s] # None => Matches(redis.daily[s])
    /\ \A d \in dailies : d.record # None => Matches(d.record)

LEMMA FetchedMatches == ASSUME NEW f PROVE Matches(FetchedRecord(f))
BY DEF Matches, FetchedRecord

LEMMA UpdatedMatches == ASSUME NEW old, NEW close PROVE Matches(Updated(old, close))
BY DEF Matches, Updated

LEMMA InitPct ==
    ASSUME Init
    PROVE  PctInv
BY DEF Init, PctInv, Nothing

LEMMA NextPct ==
    ASSUME TypeInv, PctInv, [Next]_vars
    PROVE  PctInv'
<1>1. ASSUME UNCHANGED dailies, redis'.daily = redis.daily
      PROVE  PctInv'
  BY <1>1 DEF PctInv
<1>2. ASSUME dailies' \subseteq dailies, redis' = redis
      PROVE  PctInv'
  BY <1>2 DEF PctInv
<1>3. ASSUME NEW s \in Symbols, NEW p \in Prices, HandleTrade(s, p)
      PROVE  PctInv'
  BY <1>1, <1>3 DEF HandleTrade
<1>4. ASSUME NEW s \in Symbols, NEW p \in Prices, HandleOhlc1d(s, p)
      PROVE  PctInv'
  BY <1>4 DEF HandleOhlc1d, PctInv
<1>5. ASSUME NEW s \in Symbols, NEW time \in 0..MaxMinute, NEW p \in Prices, NEW v \in Volumes,
             HandleOhlc1m(s, time, p, v)
      PROVE  PctInv'
  BY <1>1, <1>5 DEF HandleOhlc1m
<1>6. ASSUME NEW t \in ticks, WriteTick(t) \/ WriteTickFails(t) \/ PublishTick(t)
      PROVE  PctInv'
  <2>1. UNCHANGED dailies /\ redis'.daily = redis.daily
    BY <1>6 DEF WriteTick, WriteTickFails, PublishTick, TypeInv, Stores
  <2>2. QED
    BY <1>1, <2>1
<1>7. ASSUME NEW d \in dailies, ReadDaily(d)
      PROVE  PctInv'
  <2> DEFINE r == Updated(redis.daily[d.sym], d.close)
  <2>1. d \in DailyTask
    BY DEF TypeInv
  <2>2. [d EXCEPT !.record = r].record = r
    BY <2>1 DEF DailyTask
  <2>3. Matches(r)
    BY UpdatedMatches
  <2>4. dailies' = (dailies \ {d}) \cup {[d EXCEPT !.record = r]} /\ redis' = redis
    BY <1>7 DEF ReadDaily
  <2> HIDE DEF r
  <2>5. QED
    BY <2>2, <2>3, <2>4 DEF PctInv
<1>8. ASSUME NEW d \in dailies, SetDaily(d)
      PROVE  PctInv'
  <2>1. Matches(d.record) /\ dailies' \subseteq dailies
    BY <1>8 DEF SetDaily, PctInv
  <2>2. \A s \in Symbols : redis'.daily[s] = redis.daily[s] \/ redis'.daily[s] = d.record
    BY <1>8 DEF SetDaily, TypeInv, Stores
  <2>3. QED
    BY <2>1, <2>2 DEF PctInv
<1>9. ASSUME NEW d \in dailies, DailyFails(d)
      PROVE  PctInv'
  BY <1>2, <1>9 DEF DailyFails
<1>10. CASE StartCycle \/ SendCandles \/ CycleFails
  BY <1>1, <1>10 DEF StartCycle, SendCandles, CycleFails, Rested
<1>11. ASSUME NEW s \in Symbols, FetchFails(s)
       PROVE  PctInv'
  BY <1>1, <1>11 DEF FetchFails, Rested
<1>12. CASE SetDailies
  <2> DEFINE f == rest.fetched
             secdef == [s \in Symbols |-> IF f[s] = None THEN redis.secdef[s] ELSE f[s][1]]
             daily == [s \in Symbols |-> IF f[s] = None THEN redis.daily[s]
                                         ELSE FetchedRecord(f[s])]
  <2>1. redis' = [[redis EXCEPT !.secdef = secdef] EXCEPT !.daily = daily]
    BY <1>12 DEF SetDailies
  <2>2. \A s \in Symbols : daily[s] = redis.daily[s] \/ Matches(daily[s])
    BY FetchedMatches
  <2> HIDE DEF secdef, daily
  <2>3. redis'.daily = daily /\ UNCHANGED dailies
    BY <1>12, <2>1 DEF SetDailies, Rested, TypeInv, Stores
  <2>4. QED
    BY <2>2, <2>3 DEF PctInv
<1>13. CASE Minute \/ Restart \/ UNCHANGED vars
  BY <1>13 DEF Minute, Restart, vars, PctInv
<1>14. QED
  BY <1>3, <1>4, <1>5, <1>6, <1>7, <1>8, <1>9, <1>10, <1>11, <1>12, <1>13
     DEF Next, TaskStep, RestStep

\* However bars, their tasks and the REST cycle write a daily record over each
\* other, its change is that of its own prices (_handle_ohlc_1d).
THEOREM PctOfRecordCorrect == Spec => []PctOfRecord
<1>1. PctInv => PctOfRecord
  BY DEF PctInv, PctOfRecord, Matches
<1>2. QED
  BY InitPct, NextPct, TypeCorrect, <1>1, PTL DEF Spec

-----------------------------------------------------------------------------
(* The last record of the topic *)

\* A task that publishes the live candle of s is under way.
Coming(s) == \E t \in ticks : t.writes.sym = s /\ t.publishes = None

Current(s) == topic.speed[s] = live_candles[s] \/ Coming(s)

LiveInv ==
    \A s \in Symbols : KafkaEnabled /\ live_candles[s] # None /\ s \notin lost => Current(s)

\* A candle that a task was made for comes with it, and the tasks of other
\* symbols are left as they are.
LEMMA HandledLive ==
    ASSUME LiveInv, NEW s \in Symbols, NEW new \in Candle, NEW trade \in BOOLEAN,
           new.sym = s, live_candles \in [Symbols -> Maybe(Candle)],
           live_candles' = [live_candles EXCEPT ![s] = new],
           \/ ticks' = ticks \cup {TickTask(new, trade)}
           \/ ticks' = Kept(s) \cup {TickTask(new, trade)},
           lost' = lost \ {s}, UNCHANGED topic
    PROVE  LiveInv'
<1>1. TickTask(new, trade) \in ticks'
      /\ TickTask(new, trade).writes.sym = s /\ TickTask(new, trade).publishes = None
  BY DEF TickTask
<1>2. Coming(s)'
  BY <1>1 DEF Coming
<1>3. ASSUME NEW z \in Symbols, z # s
      PROVE  \A t \in ticks : t.writes.sym = z => t \in ticks'
  BY <1>3 DEF Kept
<1>4. ASSUME NEW z \in Symbols, z # s
      PROVE  /\ Current(z) => Current(z)'
             /\ live_candles'[z] = live_candles[z] /\ (z \in lost <=> z \in lost')
  BY <1>3, <1>4 DEF Current, Coming
<1>5. QED
  BY <1>2, <1>4 DEF LiveInv, Current

LEMMA InitLive ==
    ASSUME Init
    PROVE  LiveInv
BY DEF Init, LiveInv, Nothing

LEMMA NextLive ==
    ASSUME TypeInv, LiveInv, [Next]_vars
    PROVE  LiveInv'
<1>1. ASSUME UNCHANGED <<live_candles, ticks, lost>>, topic'.speed = topic.speed
      PROVE  LiveInv'
  BY <1>1 DEF LiveInv, Current, Coming
<1>2. ASSUME NEW s \in Symbols, NEW p \in Prices, HandleTrade(s, p)
      PROVE  LiveInv'
  <2>1. PICK new \in Candle :
          /\ new.sym = s
          /\ live_candles' = [live_candles EXCEPT ![s] = new]
          /\ ticks' = ticks \cup {TickTask(new, TRUE)}
             \/ ticks' = Kept(s) \cup {TickTask(new, TRUE)}
          /\ lost' = lost \ {s}
          /\ UNCHANGED <<now, dailies, rest, redis, topic>>
    BY <1>2, TradeType
  <2>2. QED
    BY <2>1, HandledLive DEF TypeInv
<1>3. ASSUME NEW s \in Symbols, NEW time \in 0..MaxMinute, NEW p \in Prices, NEW v \in Volumes,
             HandleOhlc1m(s, time, p, v)
      PROVE  LiveInv'
  <2> DEFINE new == [sym |-> s, time |-> time, close |-> p, vol |-> v]
  <2>1. new \in Candle /\ new.sym = s
    BY ConstantTypes DEF Candle
  <2>2. /\ live_candles' = [live_candles EXCEPT ![s] = new]
        /\ ticks' = Kept(s) \cup {TickTask(new, FALSE)}
        /\ lost' = lost \ {s} /\ UNCHANGED topic
    BY <1>3 DEF HandleOhlc1m
  <2> HIDE DEF new
  <2>3. QED
    BY <2>1, <2>2, HandledLive DEF TypeInv
<1>4. ASSUME NEW t \in ticks, WriteTick(t)
      PROVE  LiveInv'
  <2> DEFINE u == [t EXCEPT !.pc = "publish"]
  <2>1. u.writes = t.writes /\ u.publishes = t.publishes
    BY DEF TypeInv, Tick
  <2>2. /\ ticks' = (ticks \ {t}) \cup {u}
        /\ UNCHANGED <<live_candles, topic, lost>>
    BY <1>4 DEF WriteTick
  <2> HIDE DEF u
  <2>3. \A s \in Symbols : Coming(s) => Coming(s)'
    BY <2>1, <2>2 DEF Coming
  <2>4. QED
    BY <2>2, <2>3 DEF LiveInv, Current
<1>5. ASSUME NEW t \in ticks,
             /\ ticks' = ticks \ {t}
             /\ lost' = lost \cup {t.writes.sym}
             /\ UNCHANGED live_candles
             /\ \A s \in Symbols : s # t.writes.sym => topic'.speed[s] = topic.speed[s]
      PROVE  LiveInv'
  <2>1. ASSUME NEW s \in Symbols, s # t.writes.sym
        PROVE  Current(s) => Current(s)'
    BY <1>5, <2>1 DEF Current, Coming
  <2>2. QED
    BY <1>5, <2>1 DEF LiveInv
<1>6. ASSUME NEW t \in ticks, WriteTickFails(t)
      PROVE  LiveInv'
  BY <1>5, <1>6 DEF WriteTickFails
<1>7. ASSUME NEW t \in ticks, PublishTick(t)
      PROVE  LiveInv'
  <2>1. /\ ticks' = ticks \ {t} /\ UNCHANGED live_candles
        /\ \A s \in Symbols : s # t.writes.sym => topic'.speed[s] = topic.speed[s]
    BY <1>7 DEF PublishTick, TypeInv, Topics
  <2>2. CASE lost' = lost \cup {t.writes.sym}
    BY <1>5, <2>1, <2>2
  <2>3. CASE lost' # lost \cup {t.writes.sym}
    <3>1. t.writes.sym \in Symbols
      BY DEF TypeInv, Tick, Candle
    <3>2. /\ lost' = lost
          /\ KafkaEnabled => topic'.speed[t.writes.sym] = live_candles[t.writes.sym]
      BY <1>7, <2>3, <3>1 DEF PublishTick, Published, TypeInv, Topics
    <3>3. ASSUME NEW s \in Symbols, KafkaEnabled
          PROVE  Current(s) => Current(s)'
      BY <2>1, <3>2, <3>3 DEF Current, Coming
    <3>4. QED
      BY <2>1, <3>2, <3>3 DEF LiveInv
  <2>4. QED
    BY <2>2, <2>3
<1>8. ASSUME NEW s \in Symbols, NEW p \in Prices, HandleOhlc1d(s, p)
      PROVE  LiveInv'
  BY <1>1, <1>8 DEF HandleOhlc1d
<1>9. ASSUME NEW d \in dailies, ReadDaily(d) \/ SetDaily(d) \/ DailyFails(d)
      PROVE  LiveInv'
  BY <1>1, <1>9 DEF ReadDaily, SetDaily, DailyFails
<1>10. CASE StartCycle \/ SetDailies \/ CycleFails \/ Minute
  BY <1>1, <1>10 DEF StartCycle, SetDailies, CycleFails, Minute, Rested
<1>11. ASSUME NEW s \in Symbols, FetchFails(s)
       PROVE  LiveInv'
  BY <1>1, <1>11 DEF FetchFails, Rested
<1>12. CASE SendCandles
  <2>1. topic'.speed = topic.speed /\ UNCHANGED <<live_candles, ticks, lost>>
    BY <1>12 DEF SendCandles, Rested, TypeInv, Topics
  <2>2. QED
    BY <1>1, <2>1
<1>13. CASE Restart
  BY <1>13 DEF Restart, LiveInv, Nothing
<1>14. CASE UNCHANGED vars
  BY <1>1, <1>14 DEF vars
<1>15. QED
  BY <1>2, <1>3, <1>4, <1>6, <1>7, <1>8, <1>9, <1>10, <1>11, <1>12, <1>13, <1>14
     DEF Next, TaskStep, RestStep

\* When no task of a symbol is under way, the topic ends with its live candle,
\* in whatever order the tasks ran (_handle_trade, _publish_kafka).
THEOREM LastIsLiveCorrect == Spec => []LastIsLive
<1>1. LiveInv => LastIsLive
  BY DEF LiveInv, LastIsLive, Current, Coming, Quiet
<1>2. QED
  BY InitLive, NextLive, TypeCorrect, <1>1, PTL DEF Spec

=============================================================================
