----------------------------- MODULE Api_proofs -----------------------------
(***************************************************************************)
(* Proofs about the market-data API and its page.                          *)
(*                                                                         *)
(* Module RestApi, for any number of symbols, requests and faults, and for *)
(* all times to live: the types; that a tick of the fallback cache is no   *)
(* older than its time to live; and how far a cached history may be behind *)
(*                                                                         *)
(* Modules LiveStream and LiveChart, for any symbols, values, timeframes   *)
(* and bounds: the types of the stream, of the session and of the page,    *)
(* and that a switch of symbols lets one stale tick through at most.       *)
(***************************************************************************)
EXTENDS RestApi, LiveChart, SequenceTheorems, TLAPS

LEMMA ConstantTypes ==
    /\ Charted \subseteq Symbols
    /\ TRINO_CACHE_TTL \in Nat \ {0} /\ SECDEF_ICEBERG_TTL \in Nat \ {0}
    /\ CACHE_TTL \in Nat \ {0}
    /\ Gap \in Nat /\ Delay \in Nat /\ MaxTime \in Nat /\ MaxFaults \in Nat
    /\ None \notin Nat \cup History
BY RestApiAssumption, NoneAssumption

-----------------------------------------------------------------------------
(* RestApi: the types *)

\* A handler that is under way knows its symbol.
Asked == \A r \in Requests : requests[r].pc # "idle" => requests[r].sym \in Charted

TypeInv == RestTypeOK /\ Asked

LEMMA InitType ==
    ASSUME RestInit
    PROVE  TypeInv
BY ConstantTypes DEF RestInit, TypeInv, Asked, RestTypeOK, Nothing, Idle, Handler, Maybe, Time

\* The parts that a step of a handler leaves alone keep their types.
LEMMA FaultsType ==
    ASSUME RestTypeOK, Fault \/ UNCHANGED faults
    PROVE  faults' \in 0..MaxFaults
BY ConstantTypes DEF RestTypeOK, Fault

LEMMA RequestType ==
    ASSUME TypeInv, NEW r \in Requests, NEW h \in Handler,
           h.pc = "write" <=> h.history # None,
           h.pc # "idle" => h.sym \in Charted,
           requests' = [requests EXCEPT ![r] = h]
    PROVE  /\ requests' \in [Requests -> Handler]
           /\ \A q \in Requests : (requests'[q].pc = "write") <=> (requests'[q].history # None)
           /\ Asked'
BY DEF TypeInv, Asked, RestTypeOK

LEMMA IdleType == Idle \in Handler /\ Idle.pc = "idle" /\ Idle.history = None
BY DEF Idle, Handler, Maybe

LEMMA NextType ==
    ASSUME TypeInv, [RestNext]_restVars
    PROVE  TypeInv'
<1> USE ConstantTypes
<1>1. CASE Second
  BY <1>1 DEF Second, TypeInv, Asked, RestTypeOK, Time, Maybe, Entry
<1>2. ASSUME NEW s \in Symbols, Ingest(s)
      PROVE  TypeInv'
  BY <1>2 DEF Ingest, TypeInv, Asked, RestTypeOK, Maybe
<1>3. CASE RedisRestarts
  BY <1>3, FaultsType DEF RedisRestarts, TypeInv, Asked, RestTypeOK, Maybe
<1>4. ASSUME NEW s \in Symbols, LatestTick(s)
      PROVE  TypeInv'
  BY <1>4 DEF LatestTick, World, TypeInv, Asked, RestTypeOK, Maybe
<1>5. ASSUME NEW s \in Symbols, SecdefFromIceberg(s)
      PROVE  TypeInv'
  BY <1>5 DEF SecdefFromIceberg, World, TypeInv, Asked, RestTypeOK, Maybe
<1>6. CASE LatestTicks
  <2>1. Remembered \in [Symbols -> Maybe(Time)]
    BY DEF Remembered, TypeInv, Asked, RestTypeOK, Maybe
  <2>2. QED
    BY <1>6, <2>1 DEF LatestTicks, World, TypeInv, Asked, RestTypeOK, Maybe
<1>7. ASSUME NEW r \in Requests, NEW s \in Charted, GetHistory(r, s)
      PROVE  TypeInv'
  <2>1. [Idle EXCEPT !.pc = "query", !.sym = s] \in Handler
    BY DEF Idle, Handler, Maybe
  <2>2. QED
    BY <1>7, <2>1, FaultsType, RequestType DEF GetHistory, Handles, TypeInv, Asked, RestTypeOK, Idle
<1>8. ASSUME NEW r \in Requests, Query(r)
      PROVE  TypeInv'
  <2>1. requests[r].sym \in Charted /\ table[requests[r].sym] \in Time
    BY <1>8 DEF Query, TypeInv, Asked, RestTypeOK, Maybe, Handler
  <2> DEFINE h(filled) ==
               [asof |-> now, filled |-> filled,
                upto |-> IF Behind(table[requests[r].sym])
                         THEN Live(table[requests[r].sym], filled)
                         ELSE table[requests[r].sym]]
             q(filled) == [pc |-> "write", sym |-> requests[r].sym, history |-> h(filled)]
  <2>2. PICK filled \in BOOLEAN :
          /\ requests' = [requests EXCEPT ![r] = q(filled)]
          /\ IF filled THEN UNCHANGED faults ELSE Behind(table[requests[r].sym]) /\ Fault
    BY <1>8 DEF Query
  <2>3. h(filled) \in History
    BY <2>1 DEF History, Live, TypeInv, Asked, RestTypeOK
  <2> HIDE DEF h
  <2>4. /\ q(filled) \in Handler /\ q(filled).sym \in Charted
        /\ q(filled).pc = "write" /\ q(filled).history # None
    BY <2>1, <2>3, ConstantTypes DEF Handler, Maybe
  <2> HIDE DEF q
  <2>5. QED
    BY <1>8, <2>2, <2>4, FaultsType, RequestType
       DEF Query, Handles, TypeInv, Asked, RestTypeOK
<1>9. ASSUME NEW r \in Requests, QueryEmpty(r) \/ QueryFallback(r) \/ QueryFails(r)
      PROVE  TypeInv'
  BY <1>9, FaultsType, RequestType, IdleType
     DEF QueryEmpty, QueryFallback, QueryFails, Handles, TypeInv, Asked, RestTypeOK
<1>10. ASSUME NEW r \in Requests, WriteCache(r)
       PROVE  TypeInv'
  <2>1. requests[r].history \in History /\ requests[r].sym \in Maybe(Charted)
    BY <1>10 DEF WriteCache, TypeInv, Asked, RestTypeOK, Maybe, Handler
  <2>2. [history |-> requests[r].history, expires |-> Expires(requests[r].sym)] \in Entry
    BY <2>1 DEF Entry, Expires, TypeInv, Asked, RestTypeOK, Time
  <2>3. cached' \in [Charted -> Maybe(Entry)]
    BY <1>10, <2>2 DEF WriteCache, TypeInv, Asked, RestTypeOK, Maybe
  <2>4. QED
    BY <1>10, <2>3, FaultsType, RequestType, IdleType DEF WriteCache, Handles, TypeInv, Asked, RestTypeOK
<1>11. CASE UNCHANGED restVars
  BY <1>11 DEF restVars, TypeInv, Asked, RestTypeOK
<1>12. QED
  BY <1>1, <1>2, <1>3, <1>4, <1>5, <1>6, <1>7, <1>8, <1>9, <1>10, <1>11
     DEF RestNext, HistoryStep, Realtime, GetRealtime, GetRealtimeAll, GetSummary, GetDaily

\* Every variable of the API keeps its type.
THEOREM RestApiTypeCorrect == RestSpec => []RestTypeOK
<1>1. RestSpec => []TypeInv
  BY InitType, NextType, PTL DEF RestSpec
<1>2. TypeInv => RestTypeOK
  BY DEF TypeInv
<1>3. QED
  BY <1>1, <1>2, PTL

-----------------------------------------------------------------------------
(* Ticks *)

\* A tick that is remembered is of the table, and is no older than the last
\* batch: what a batch does not find was not remembered before it either.
TicksInv ==
    /\ ticks.ts # None => ticks.ts <= now
    /\ \A s \in Symbols : ticks.of[s] # None =>
          /\ table[s] # None
          /\ ticks.ts # None => ticks.ts <= ticks.of[s]

LEMMA TicksNext ==
    ASSUME TypeInv, TicksInv, [RestNext]_restVars
    PROVE  TicksInv'
<1> USE ConstantTypes DEF TypeInv, RestTypeOK
<1>1. CASE Second
  BY <1>1 DEF Second, TicksInv, Time, Maybe
<1>2. ASSUME NEW s \in Symbols, Ingest(s)
      PROVE  TicksInv'
  BY <1>2 DEF Ingest, TicksInv, Time
<1>3. CASE RedisRestarts
  BY <1>3 DEF RedisRestarts, TicksInv
<1>4. ASSUME NEW s \in Symbols, LatestTick(s)
      PROVE  TicksInv'
  BY <1>4 DEF LatestTick, World, TicksInv, Time, Maybe
<1>5. ASSUME NEW s \in Symbols, SecdefFromIceberg(s)
      PROVE  TicksInv'
  BY <1>5 DEF SecdefFromIceberg, World, TicksInv
<1>6. CASE LatestTicks
  BY <1>6 DEF LatestTicks, Remembered, World, TicksInv, Time, Maybe
<1>7. ASSUME UNCHANGED <<now, table, ticks>>
      PROVE  TicksInv'
  BY <1>7 DEF TicksInv
<1>8. QED
  BY <1>1, <1>2, <1>3, <1>4, <1>5, <1>6, <1>7
     DEF RestNext, HistoryStep, Realtime, GetRealtime, GetRealtimeAll, GetSummary, GetDaily,
         GetHistory, Query, QueryEmpty, QueryFallback, QueryFails, WriteCache,
         Handles, restVars

LEMMA TicksFresh ==
    ASSUME TypeInv, TicksInv
    PROVE  TicksAreFresh
BY ConstantTypes DEF TypeInv, RestTypeOK, TicksInv, TicksAreFresh, TickOf, Fresh, Time, Maybe

\* A tick that the fallback serves was read no longer ago than the time to
\* live, in whatever order lookups and batches of all symbols come.
THEOREM TicksAreFreshCorrect == RestSpec => []TicksAreFresh
<1>1. RestInit => TicksInv
  BY ConstantTypes DEF RestInit, TicksInv, Nothing
<1>2. QED
  BY <1>1, InitType, NextType, TicksNext, TicksFresh, PTL DEF RestSpec

-----------------------------------------------------------------------------
(* Histories *)

\* An answer in which the gap was filled was not behind by more than the gap
\* when it was made.
UpToDate(h) == h.filled => h.asof - h.upto <= Gap

\* A handler that writes has been at it for less than the time Redis takes, or
\* just as long; an entry expires its time to live after it was written.
HistoryInv ==
    /\ \A r \in Requests : requests[r].pc = "write" =>
          /\ requests[r].history.asof <= now
          /\ now <= requests[r].history.asof + Delay
          /\ UpToDate(requests[r].history)
    /\ \A s \in Charted : cached[s] # None =>
          /\ now < cached[s].expires
          /\ cached[s].expires <= cached[s].history.asof + Delay + CACHE_TTL
          /\ UpToDate(cached[s].history)

LEMMA WritingType ==
    ASSUME TypeInv, NEW r \in Requests, requests[r].pc = "write"
    PROVE  requests[r].sym \in Charted /\ requests[r].history \in History
BY DEF TypeInv, Asked, RestTypeOK, Handler, Maybe

LEMMA CachedType ==
    ASSUME TypeInv, NEW s \in Charted, cached[s] # None
    PROVE  cached[s] \in Entry
BY DEF TypeInv, RestTypeOK, Maybe

LEMMA HistoryNext ==
    ASSUME TypeInv, HistoryInv, [RestNext]_restVars
    PROVE  HistoryInv'
<1> USE ConstantTypes
<1>t. now \in Nat
  BY DEF TypeInv, RestTypeOK, Time
<1>1. CASE Second
  <2>1. ASSUME NEW r \in Requests, requests'[r].pc = "write"
        PROVE  /\ requests'[r].history.asof <= now'
               /\ now' <= requests'[r].history.asof + Delay
               /\ UpToDate(requests'[r].history)
    BY <1>1, <1>t, <2>1, WritingType DEF Second, InTime, HistoryInv, History, Time
  <2>2. ASSUME NEW s \in Charted, cached'[s] # None
        PROVE  /\ now' < cached'[s].expires
               /\ cached'[s].expires <= cached'[s].history.asof + Delay + CACHE_TTL
               /\ UpToDate(cached'[s].history)
    <3>1. cached[s] # None /\ cached'[s] = cached[s] /\ ~(cached[s].expires <= now + 1)
      BY <1>1, <2>2 DEF Second
    <3>2. QED
      BY <1>1, <1>t, <3>1, CachedType DEF Second, HistoryInv, Entry
  <2>3. QED
    BY <2>1, <2>2 DEF HistoryInv, UpToDate
<1>2. CASE RedisRestarts
  BY <1>2 DEF RedisRestarts, HistoryInv, UpToDate
<1>3. ASSUME NEW r \in Requests, NEW s \in Charted, GetHistory(r, s)
      PROVE  HistoryInv'
  BY <1>3 DEF GetHistory, Handles, HistoryInv, UpToDate, Idle, TypeInv, RestTypeOK
<1>4. ASSUME NEW r \in Requests, Query(r)
      PROVE  HistoryInv'
  <2>1. /\ requests' \in [Requests -> Handler] /\ UNCHANGED <<now, cached>>
        /\ \A q \in Requests \ {r} : requests'[q] = requests[q]
        /\ requests'[r].history.asof = now
    BY <1>4, NextType DEF Query, Handles, TypeInv, RestTypeOK
  <2>2. UpToDate(requests'[r].history)
    <3>1. table[requests[r].sym] \in Nat
      BY <1>4 DEF Query, TypeInv, Asked, RestTypeOK, Maybe, Time
    <3>2. QED
      BY <1>4, <1>t, <3>1 DEF Query, Behind, Live, UpToDate, TypeInv, RestTypeOK
  <2>3. QED
    BY <1>t, <2>1, <2>2 DEF HistoryInv, UpToDate
<1>5. ASSUME NEW r \in Requests, QueryEmpty(r) \/ QueryFallback(r) \/ QueryFails(r)
      PROVE  HistoryInv'
  BY <1>5 DEF QueryEmpty, QueryFallback, QueryFails, Handles, HistoryInv, UpToDate, Idle, TypeInv, RestTypeOK
<1>6. ASSUME NEW r \in Requests, WriteCache(r)
      PROVE  HistoryInv'
  <2>1. ASSUME NEW q \in Requests, requests'[q].pc = "write"
        PROVE  requests'[q] = requests[q] /\ now' = now
    BY <1>6, <2>1 DEF WriteCache, Handles, Idle, TypeInv, RestTypeOK
  <2>2. ASSUME NEW s \in Charted, cached'[s] # None
        PROVE  /\ now' < cached'[s].expires
               /\ cached'[s].expires <= cached'[s].history.asof + Delay + CACHE_TTL
               /\ UpToDate(cached'[s].history)
    <3>1. CASE cached'[s] = cached[s]
      BY <1>6, <2>2, <3>1 DEF WriteCache, Handles, HistoryInv
    <3>2. CASE cached'[s] # cached[s]
      <4>1. cached'[s] = [history |-> requests[r].history, expires |-> now + CACHE_TTL]
        BY <1>6, <3>2 DEF WriteCache, Expires, TypeInv, RestTypeOK
      <4>2. requests[r].history \in History
        BY <1>6, WritingType DEF WriteCache
      <4>3. QED
        BY <1>6, <1>t, <4>1, <4>2 DEF WriteCache, Handles, HistoryInv, History, Time
    <3>3. QED
      BY <3>1, <3>2
  <2>3. QED
    BY <2>1, <2>2 DEF HistoryInv, UpToDate
<1>7. ASSUME UNCHANGED <<now, cached, requests>>
      PROVE  HistoryInv'
  BY <1>7 DEF HistoryInv, UpToDate
<1>8. QED
  BY <1>1, <1>2, <1>3, <1>4, <1>5, <1>6, <1>7
     DEF RestNext, HistoryStep, Realtime, GetRealtime, GetRealtimeAll, GetSummary, GetDaily,
         Ingest, LatestTick, SecdefFromIceberg, LatestTicks, World, restVars

LEMMA HistoryRecent ==
    ASSUME TypeInv, HistoryInv
    PROVE  HistoryIsRecent
<1> SUFFICES ASSUME NEW s \in Charted, cached[s] # None, cached[s].history.filled
             PROVE  now - cached[s].history.upto < Gap + CACHE_TTL + Delay
  BY DEF HistoryIsRecent
<1>1. cached[s].expires \in Nat /\ cached[s].history.asof \in Nat
      /\ cached[s].history.upto \in Nat
  BY ConstantTypes, CachedType DEF Entry, History, Time
<1> DEFINE expires == cached[s].expires
           asof    == cached[s].history.asof
           upto    == cached[s].history.upto
<1>2. now < expires /\ expires <= asof + Delay + CACHE_TTL /\ asof - upto <= Gap
  BY DEF HistoryInv, UpToDate
<1>3. now \in Nat
  BY ConstantTypes DEF TypeInv, RestTypeOK, Time
<1> HIDE DEF expires, asof, upto
<1>4. now - upto < Gap + CACHE_TTL + Delay
  <2>1. expires \in Nat /\ asof \in Nat /\ upto \in Nat
    BY <1>1 DEF expires, asof, upto
  <2>2. QED
    BY <1>2, <1>3, <2>1, ConstantTypes
<1>5. QED
  BY <1>4 DEF upto

\* A history that the cache serves reaches up to now but for the gap that is
\* left, its time to live, and the time that Redis took to take it, whichever
\* of several requests wrote last.
THEOREM HistoryIsRecentCorrect == RestSpec => []HistoryIsRecent
<1>1. RestInit => HistoryInv
  BY DEF RestInit, HistoryInv, Idle
<1>2. QED
  BY <1>1, InitType, NextType, HistoryNext, HistoryRecent, PTL DEF RestSpec

-----------------------------------------------------------------------------
(* LiveStream: the invariant of the stream *)

\* What the sender has read is of the kind that its step asks for.
Holds(s) ==
    /\ s \in Session
    /\ s.pc \in {"tick", "tick_sent"} => s.read \in Reading /\ s.read.val \in Maybe(Values)
    /\ s.pc \in {"quote", "quote_sent"} => s.read \in Reading /\ s.read.val \in Maybe(Quotes)

\* A frame is of the kind it says.
Kind == {f \in Frame : f.type = "tick" => f.val \in Values}

\* Redis and the connection.
Ends ==
    /\ DOMAIN redis = Family
    /\ \A f \in Family : redis[f] \in [Symbols -> Maybe(Contents(f))]
    /\ conn \in [url: Maybe(Symbols), state: States]
    /\ conn.state # "none" => conn.url \in Symbols
    /\ commands \in Seq(Symbols)
    /\ events \in 0..MaxEvents

Held == session = None \/ Holds(session)

Sent == frames \in Seq(Kind) /\ Len(frames) <= MaxFrames

\* The sender holds a tick of another symbol only if it has sent none since
\* the last command.
StaleInv ==
    /\ stale \in Nat /\ stale <= 1
    /\ session # None /\ session.pc = "tick" /\ session.read.sym # session.sym => stale = 0

StreamInv == Ends /\ Held /\ Sent /\ StaleInv

LEMMA Bounds ==
    /\ None \notin Symbols /\ None \notin Values /\ None \notin Quotes
    /\ QuoteEvery \in Nat \ {0} /\ MaxEvents \in Nat /\ MaxFrames \in Nat \ {0}
    /\ FirstTicks \in [Symbols -> Maybe(Values)]
BY StreamAssumption DEF Maybe

\* The types of LiveStream follow from the invariant.
LEMMA StreamTyped ==
    ASSUME StreamInv
    PROVE  StreamTypeOK
<1>1. frames \in Seq(Frame)
  <2>1. Kind \subseteq Frame
    BY DEF Kind
  <2>2. QED
    BY <2>1 DEF StreamInv, Sent
<1>2. QED
  BY <1>1 DEF StreamInv, Ends, Held, Holds, Sent, StaleInv, StreamTypeOK

LEMMA StreamInitially ==
    ASSUME StreamInit
    PROVE  StreamInv
<1> USE Bounds
<1>1. Ends
  BY DEF StreamInit, Ends, NoConn, Family, Contents, Maybe, States
<1>2. Sent
  BY DEF StreamInit, Sent
<1>3. QED
  BY <1>1, <1>2 DEF StreamInit, StreamInv, Held, StaleInv

-----------------------------------------------------------------------------
(* The sender *)

LEMMA NextCycleHolds ==
    ASSUME NEW s \in Session
    PROVE  Holds(NextCycle(s)) /\ NextCycle(s).pc = "sleep"
<1> DEFINE x == (s.cycle + 1) % QuoteEvery
           n == [s EXCEPT !.pc = "sleep", !.read = None, !.cycle = x]
<1>1. x \in 0..(QuoteEvery - 1)
  BY Bounds DEF Session
<1>2. NextCycle(s) = n
  BY DEF NextCycle
<1> HIDE DEF x
<1>3. n \in Session /\ n.pc = "sleep"
  BY <1>1, Bounds DEF Session, Steps, Maybe
<1> HIDE DEF n
<1>4. QED
  BY <1>2, <1>3 DEF Holds

LEMMA ReadKeyType ==
    ASSUME Ends, session \in Session, NEW f \in Family
    PROVE  /\ ReadKey(f) \in Reading /\ ReadKey(f).sym = session.sym
           /\ ReadKey(f).val \in Maybe(Contents(f))
BY DEF ReadKey, Reading, Ends, Session, Contents, Maybe

LEMMA AfterTickHolds ==
    ASSUME Ends, session \in Session, NEW s \in Session
    PROVE  Holds(AfterTick(s)) /\ AfterTick(s).pc \in {"sleep", "quote"}
<1>1. CASE s.cycle = 0
  <2> DEFINE k == ReadKey("quote")
  <2>1. k \in Reading /\ k.val \in Maybe(Quotes)
    BY ReadKeyType DEF Family, Contents
  <2> HIDE DEF k
  <2>2. AfterTick(s) = [sym |-> s.sym, last |-> s.last, hash |-> s.hash,
                        cycle |-> s.cycle, pc |-> "quote", read |-> k]
    BY <1>1 DEF AfterTick, Session, k
  <2>3. QED
    BY <2>1, <2>2 DEF Holds, Session, Steps, Maybe
<1>2. CASE s.cycle # 0
  BY <1>2, NextCycleHolds DEF AfterTick
<1>3. QED
  BY <1>1, <1>2

\* A step of the sender that reads or sends no tick.
LEMMA SenderQuiet ==
    ASSUME StreamInv, NEW from, NEW s, Sender(from, s, frames), Holds(s),
           s.pc # "tick", UNCHANGED stale
    PROVE  StreamInv'
BY DEF StreamInv, Sender, Ends, Held, Holds, Sent, StaleInv, Kind

\* A frame is appended where there is room.
LEMMA FrameSent ==
    ASSUME Sent, Len(frames) < MaxFrames, NEW f \in Kind, frames' = Append(frames, f)
    PROVE  Sent'
<1>1. /\ Append(frames, f) \in Seq(Kind)
      /\ Len(Append(frames, f)) = Len(frames) + 1
  BY AppendProperties DEF Sent
<1>2. Len(frames) \in Nat
  BY LenProperties DEF Sent
<1>3. QED
  BY <1>1, <1>2, Bounds DEF Sent, Kind

LEMMA SenderNext ==
    ASSUME StreamInv, SenderStep
    PROVE  StreamInv'
<1> USE Bounds
<1>0. session \in Session /\ Holds(session) /\ session # None
  BY DEF SenderStep, ReadTick, SendTick, SkipTick, TickSent, SendQuote, SkipQuote,
         QuoteSent, StreamInv, Held, Holds
<1>1. CASE ReadTick
  <2> DEFINE k == ReadKey("tick")
  <2>1. k \in Reading /\ k.val \in Maybe(Values) /\ k.sym = session.sym
    BY <1>0, ReadKeyType DEF StreamInv, Family, Contents
  <2>2. session' = [session EXCEPT !.read = k, !.pc = "tick"]
    BY <1>1 DEF ReadTick, Sender
  <2> HIDE DEF k
  <2>3. session'.sym = session.sym /\ session'.pc = "tick" /\ session'.read = k
    BY <1>0, <2>2 DEF Session
  <2>4. Holds(session')
    BY <1>0, <2>1, <2>2 DEF Holds, Session, Steps, Maybe
  <2>5. QED
    BY <1>1, <2>1, <2>3, <2>4
       DEF StreamInv, ReadTick, Sender, Ends, Held, Holds, Sent, StaleInv, Kind
<1>2. CASE SendTick
  <2> DEFINE f == [type |-> "tick", sym |-> session.read.sym, val |-> session.read.val]
  <2>1. /\ session' = [session EXCEPT !.pc = "tick_sent"]
        /\ frames' = Append(frames, f) /\ Len(frames) < MaxFrames
        /\ UNCHANGED <<redis, conn, commands, events>>
        /\ session.pc = "tick" /\ session.read.val # None
    BY <1>2 DEF SendTick, Sender
  <2>2. f \in Kind
    BY <1>0, <2>1 DEF Holds, Kind, Frame, Reading, Maybe
  <2> HIDE DEF f
  <2>3. Sent'
    BY <2>1, <2>2, FrameSent DEF StreamInv
  <2>4. Holds(session') /\ session'.pc = "tick_sent"
    BY <1>0, <2>1 DEF Holds, Session, Steps
  <2>5. stale' \in Nat /\ stale' <= 1
    BY <1>0, <1>2, <2>1 DEF SendTick, StreamInv, StaleInv
  <2>6. QED
    BY <2>1, <2>3, <2>4, <2>5 DEF StreamInv, Ends, Held, Holds, StaleInv
<1>3. CASE SkipTick
  BY <1>0, <1>3, AfterTickHolds, SenderQuiet DEF SkipTick, StreamInv
<1>4. CASE TickSent
  <2> DEFINE s == [session EXCEPT !.last = session.read.val]
  <2>1. s \in Session
    BY <1>0, <1>4 DEF TickSent, Holds, Session
  <2>2. Sender("tick_sent", AfterTick(s), frames)
    BY <1>4 DEF TickSent
  <2> HIDE DEF s
  <2>3. QED
    BY <1>0, <1>4, <2>1, <2>2, AfterTickHolds, SenderQuiet DEF TickSent, StreamInv
<1>5. CASE SendQuote
  <2> DEFINE f == [type |-> "quote", sym |-> session.read.sym, val |-> session.read.val]
  <2>1. /\ session' = [session EXCEPT !.pc = "quote_sent"]
        /\ frames' = Append(frames, f) /\ Len(frames) < MaxFrames
        /\ UNCHANGED <<redis, conn, commands, events, stale>>
        /\ session.pc = "quote" /\ session.read.val # None
    BY <1>5 DEF SendQuote, Sender
  <2>2. f \in Kind
    BY <1>0, <2>1 DEF Holds, Kind, Frame, Reading, Maybe
  <2> HIDE DEF f
  <2>3. Sent'
    BY <2>1, <2>2, FrameSent DEF StreamInv
  <2>4. Holds(session') /\ session'.pc = "quote_sent"
    BY <1>0, <2>1 DEF Holds, Session, Steps
  <2>5. QED
    BY <2>1, <2>3, <2>4 DEF StreamInv, Ends, Held, Holds, StaleInv
<1>6. CASE SkipQuote
  BY <1>0, <1>6, NextCycleHolds, SenderQuiet DEF SkipQuote
<1>7. CASE QuoteSent
  <2> DEFINE s == [session EXCEPT !.hash = session.read]
  <2>1. s \in Session
    BY <1>0, <1>7 DEF QuoteSent, Holds, Session, Maybe
  <2>2. Sender("quote_sent", NextCycle(s), frames)
    BY <1>7 DEF QuoteSent
  <2> HIDE DEF s
  <2>3. QED
    BY <1>7, <2>1, <2>2, NextCycleHolds, SenderQuiet DEF QuoteSent
<1>8. QED
  BY <1>1, <1>2, <1>3, <1>4, <1>5, <1>6, <1>7 DEF SenderStep

-----------------------------------------------------------------------------
(* The listener, the connection and the page's end of it *)

\* A step that the session does not see.
LEMMA SessionUnseen ==
    ASSUME StreamInv, Ends', frames' = frames, UNCHANGED <<session, stale>>
    PROVE  StreamInv'
BY DEF StreamInv, Held, Holds, Sent, StaleInv, Kind

LEMMA HappensType ==
    ASSUME Ends, Happens \/ UNCHANGED events
    PROVE  events' \in 0..MaxEvents
BY Bounds DEF Ends, Happens

LEMMA RedisWriteNext ==
    ASSUME StreamInv, NEW f \in Family, NEW s \in Symbols, NEW v \in Contents(f),
           RedisWrite(f, s, v)
    PROVE  StreamInv'
<1>1. redis' = [redis EXCEPT ![f][s] = v] /\ UNCHANGED <<conn, commands>>
  BY DEF RedisWrite
<1>2. DOMAIN redis' = Family
  BY <1>1 DEF StreamInv, Ends
<1>3. \A g \in Family : redis'[g] \in [Symbols -> Maybe(Contents(g))]
  BY <1>1 DEF StreamInv, Ends, Maybe
<1>4. Ends'
  BY <1>1, <1>2, <1>3, HappensType DEF RedisWrite, StreamInv, Ends
<1>5. QED
  BY <1>4, SessionUnseen DEF RedisWrite

LEMMA TakeCommandNext ==
    ASSUME StreamInv, TakeCommand
    PROVE  StreamInv'
<1> DEFINE h == Head(commands)
<1>1. h \in Symbols /\ commands' \in Seq(Symbols)
  BY HeadTailProperties DEF TakeCommand, StreamInv, Ends
<1>2. Holds(session) /\ session' = [session EXCEPT !.sym = h, !.last = None]
  BY DEF TakeCommand, StreamInv, Held
<1> HIDE DEF h
<1>3. Holds(session')
  BY <1>1, <1>2 DEF Holds, Session, Maybe
<1>4. QED
  BY <1>1, <1>3 DEF TakeCommand, StreamInv, Ends, Held, Holds, Sent, StaleInv, Kind

LEMMA OpenNext ==
    ASSUME StreamInv, Open
    PROVE  StreamInv'
<1> USE Bounds
<1>1. conn' \in [url: Maybe(Symbols), state: States] /\ conn'.url \in Symbols
  BY DEF Open, StreamInv, Ends, States
<1>2. conn.url \in Symbols
  BY DEF Open, StreamInv, Ends
<1>3. Holds(NewSession(conn.url)) /\ NewSession(conn.url).pc = "sleep"
  BY <1>2 DEF NewSession, Holds, Session, Steps, Maybe
<1>4. Ends'
  BY <1>1 DEF Open, StreamInv, Ends
<1>5. QED
  BY <1>3, <1>4 DEF Open, StreamInv, Held, Holds, Sent, StaleInv, Kind

LEMMA DisconnectedNext ==
    ASSUME StreamInv, NEW state \in States, Disconnected(state), conn.state # "none",
           Happens
    PROVE  StreamInv'
<1>1. conn' \in [url: Maybe(Symbols), state: States] /\ conn'.url \in Symbols
  BY DEF Disconnected, StreamInv, Ends
<1>2. commands' \in Seq(Symbols) /\ frames' \in Seq(Kind) /\ Len(frames') = 0
  BY EmptySeq DEF Disconnected
<1>3. Ends'
  BY <1>1, <1>2, HappensType DEF Disconnected, StreamInv, Ends
<1>4. QED
  BY <1>2, <1>3, Bounds DEF Disconnected, StreamInv, Held, Sent, StaleInv, Kind

LEMMA ReconnectNext ==
    ASSUME StreamInv, Reconnect
    PROVE  StreamInv'
<1>1. Ends'
  BY DEF Reconnect, StreamInv, Ends, States
<1>2. QED
  BY <1>1, SessionUnseen DEF Reconnect

LEMMA ReceiveNext ==
    ASSUME StreamInv, NEW f, Receive(f)
    PROVE  StreamInv' /\ f \in Kind
<1>1. /\ f \in Kind /\ frames' \in Seq(Kind)
      /\ Len(frames') = Len(frames) - 1 /\ Len(frames) \in Nat
  BY HeadTailProperties, LenProperties DEF Receive, StreamInv, Sent
<1>2. QED
  BY <1>1, Bounds DEF Receive, StreamInv, Ends, Held, Holds, Sent, StaleInv, Kind

\* A session is there only where there is a connection.
Connected == session # None => conn.state # "none"

LEMMA StreamNext ==
    ASSUME StreamInv, Connected, StreamStep
    PROVE  StreamInv' /\ Connected'
<1>1. CASE SenderStep
  <2>1. UNCHANGED conn
    BY <1>1 DEF SenderStep, ReadTick, SendTick, SkipTick, TickSent, SendQuote, SkipQuote,
                QuoteSent, Sender
  <2>2. session # None
    BY <1>1 DEF SenderStep, ReadTick, SendTick, SkipTick, TickSent, SendQuote, SkipQuote,
                QuoteSent
  <2>3. QED
    BY <1>1, <2>1, <2>2, SenderNext DEF Connected
<1>2. CASE TakeCommand
  BY <1>2, TakeCommandNext DEF TakeCommand, Connected
<1>3. CASE Open
  BY <1>3, OpenNext DEF Open, Connected, StreamInv, Ends
<1>4. CASE Drop
  BY <1>4, DisconnectedNext DEF Drop, Disconnected, Connected, States
<1>5. CASE DropSilently
  BY <1>5, DisconnectedNext DEF DropSilently, Disconnected, Connected, States
<1>6. CASE Reconnect
  BY <1>6, ReconnectNext DEF Reconnect, Connected, StreamInv, Ends
<1>7. CASE \E f \in Family, s \in Symbols : \E v \in Contents(f) : RedisWrite(f, s, v)
  BY <1>7, RedisWriteNext DEF RedisWrite, Connected
<1>8. QED
  BY <1>1, <1>2, <1>3, <1>4, <1>5, <1>6, <1>7 DEF StreamStep

-----------------------------------------------------------------------------
(* The page *)

PageInv ==
    /\ view \in Views /\ candles \in Maybe(Views)
    /\ live \in Maybe(Values) /\ header \in Maybe(Values)
    /\ loading \in BOOLEAN /\ prev \in Maybe(Symbols)
    /\ loads \subseteq Load
    /\ polls \in Seq(Values) /\ Len(polls) <= MaxPolls

ChartInv == StreamInv /\ Connected /\ PageInv

LEMMA PageBounds == FirstView \in Views /\ MaxPolls \in Nat \ {0}
BY ChartAssumption DEF Views

LEMMA NewLoadType ==
    ASSUME NEW id \in 0..MaxEvents, NEW v \in Views
    PROVE  NewLoad(id, v) \in Load
BY DEF NewLoad, Load, Maybe

LEMMA LivePriceType ==
    ASSUME Ends, NEW s \in Symbols
    PROVE  LivePrice(s) \in Maybe(Values)
BY DEF LivePrice, Ends, Family, Contents, Maybe

\* The page subscribes, or sends a command, for a symbol of its own.
LEMMA CommandType ==
    ASSUME StreamInv, NEW s \in Symbols, SwitchSymbol(s) \/ Subscribe(s),
           UNCHANGED redis, Happens \/ UNCHANGED events
    PROVE  Ends' /\ (Connected /\ session # None => conn'.state # "none")
<1>1. commands' \in Seq(Symbols)
  BY AppendProperties DEF SwitchSymbol, Subscribe, StreamInv, Ends
<1>2. /\ conn' \in [url: Maybe(Symbols), state: States]
      /\ conn'.state # "none" => conn'.url \in Symbols
      /\ Connected /\ session # None => conn'.state # "none"
  BY DEF SwitchSymbol, Subscribe, StreamInv, Ends, States, Maybe, Connected
<1>3. QED
  BY <1>1, <1>2, HappensType DEF StreamInv, Ends

LEMMA StartLoadNext ==
    ASSUME ChartInv, NEW v \in Views, StartLoad(v), prev' \in Maybe(Symbols),
           UNCHANGED <<conn, commands>> \/ \E s \in Symbols : SwitchSymbol(s)
    PROVE  ChartInv'
<1>1. Ends' /\ Connected'
  <2>1. CASE UNCHANGED <<conn, commands>>
    BY <2>1, HappensType DEF StartLoad, ChartInv, StreamInv, Ends, Connected
  <2>2. CASE \E s \in Symbols : SwitchSymbol(s)
    BY <2>2, CommandType DEF StartLoad, ChartInv, SwitchSymbol, Connected
  <2>3. QED
    BY <2>1, <2>2
<1>2. StreamInv'
  BY <1>1, SessionUnseen DEF StartLoad, ChartInv
<1>3. events + 1 \in 0..MaxEvents
  BY Bounds DEF StartLoad, Happens, ChartInv, StreamInv, Ends
<1>4. loads' \subseteq Load
  BY <1>3, NewLoadType DEF StartLoad, ChartInv, PageInv
<1>5. QED
  BY <1>1, <1>2, <1>4 DEF StartLoad, shown, ChartInv, PageInv

\* The end of a load, with whatever it shows.
LEMMA FinishNext ==
    ASSUME ChartInv, NEW l \in loads, Finish(l), Happens \/ UNCHANGED events,
           candles' \in Maybe(Views), live' \in Maybe(Values), header' \in Maybe(Values)
    PROVE  ChartInv'
<1>1. l.view.sym \in Symbols
  BY DEF ChartInv, PageInv, Load, Views
<1>2. UNCHANGED <<conn, commands>> \/ SwitchSymbol(l.view.sym) \/ Subscribe(l.view.sym)
  BY DEF Finish
<1>3. Ends' /\ Connected'
  <2>1. CASE UNCHANGED <<conn, commands>>
    BY <2>1, HappensType DEF Finish, ChartInv, StreamInv, Ends, Connected
  <2>2. CASE SwitchSymbol(l.view.sym) \/ Subscribe(l.view.sym)
    BY <1>1, <2>2, CommandType DEF Finish, ChartInv, Connected
  <2>3. QED
    BY <1>2, <2>1, <2>2
<1>4. StreamInv'
  BY <1>3, SessionUnseen DEF Finish, ChartInv
<1>5. QED
  BY <1>1, <1>3, <1>4 DEF Finish, ChartInv, PageInv, Maybe

LEMMA LoadNext ==
    ASSUME ChartInv, NEW l \in loads, LoadStep(l)
    PROVE  ChartInv'
<1>0. l \in Load
  BY DEF ChartInv, PageInv
<1>1. ASSUME NEW last \in Values, HistoryAnswer(l, last)
      PROVE  ChartInv'
  <2>1. [l EXCEPT !.phase = "summary", !.last = last] \in Load
    BY <1>0 DEF Load, Maybe
  <2>2. StreamInv' /\ Connected'
    BY <1>1 DEF HistoryAnswer, streamVars, ChartInv, StreamInv, Ends, Held, Holds, Sent,
                StaleInv, Kind, Connected
  <2>3. QED
    BY <1>0, <1>1, <2>1, <2>2 DEF HistoryAnswer, ChartInv, PageInv, Load, Maybe
<1>2. CASE HistoryEmpty(l)
  BY <1>2, FinishNext DEF HistoryEmpty, ChartInv, PageInv, Maybe
<1>3. CASE HistoryFails(l)
  BY <1>3, FinishNext DEF HistoryFails, shown, ChartInv, PageInv
<1>4. CASE SummaryRead(l)
  <2> DEFINE p == LivePrice(l.view.sym)
  <2>1. p \in Maybe(Values)
    BY <1>0, LivePriceType DEF ChartInv, StreamInv, Load, Views
  <2>2. loads' = (loads \ {l}) \cup {[l EXCEPT !.phase = "answered", !.price = p]}
    BY <1>4 DEF SummaryRead
  <2> HIDE DEF p
  <2>3. [l EXCEPT !.phase = "answered", !.price = p] \in Load
    BY <1>0, <2>1 DEF Load
  <2>4. StreamInv' /\ Connected'
    BY <1>4 DEF SummaryRead, streamVars, ChartInv, StreamInv, Ends, Held, Holds, Sent,
                StaleInv, Kind, Connected
  <2>5. QED
    BY <1>4, <2>2, <2>3, <2>4 DEF SummaryRead, shown, ChartInv, PageInv
<1>5. ASSUME NEW price \in Maybe(Values), LoadEnds(l, price), Happens \/ UNCHANGED events
      PROVE  ChartInv'
  BY <1>0, <1>5, FinishNext DEF LoadEnds, ChartInv, PageInv, Load, Maybe
<1>6. CASE SummaryAnswer(l)
  BY <1>0, <1>5, <1>6 DEF SummaryAnswer, Load
<1>7. CASE SummaryFails(l)
  BY <1>5, <1>7 DEF SummaryFails, Maybe
<1>8. QED
  BY <1>1, <1>2, <1>3, <1>4, <1>6, <1>7 DEF LoadStep

LEMMA FrameNext ==
    ASSUME ChartInv, OnFrame
    PROVE  ChartInv'
<1>1. PICK f \in Frame : OnTick(f) \/ OnQuote(f)
  BY DEF OnFrame
<1>2. StreamInv' /\ f \in Kind /\ Connected'
  BY <1>1, ReceiveNext DEF OnTick, OnQuote, Receive, ChartInv, Connected
<1>3. PageInv'
  BY <1>1, <1>2 DEF OnTick, OnQuote, chartVars, shown, Kind, ChartInv, PageInv, Maybe
<1>4. QED
  BY <1>2, <1>3 DEF ChartInv

\* The queue of answers without one of them.
LEMMA PollRemoved ==
    ASSUME PageInv, NEW i \in DOMAIN polls
    PROVE  RemoveAt(polls, i) \in Seq(Values) /\ Len(RemoveAt(polls, i)) <= MaxPolls
<1>1. i \in 1..Len(polls) /\ Len(polls) \in Nat
  BY LenProperties DEF PageInv
<1>2. /\ SubSeq(polls, 1, i - 1) \in Seq(Values) /\ Len(SubSeq(polls, 1, i - 1)) = i - 1
      /\ SubSeq(polls, i + 1, Len(polls)) \in Seq(Values)
      /\ Len(SubSeq(polls, i + 1, Len(polls))) = Len(polls) - i
  BY <1>1, SubSeqProperties DEF PageInv
<1>3. RemoveAt(polls, i) = SubSeq(polls, 1, i - 1) \o SubSeq(polls, i + 1, Len(polls))
  BY DEF RemoveAt
<1>4. /\ RemoveAt(polls, i) \in Seq(Values)
      /\ Len(RemoveAt(polls, i)) = (i - 1) + (Len(polls) - i)
  BY <1>2, <1>3, ConcatProperties
<1>5. QED
  BY <1>1, <1>4, PageBounds DEF PageInv

LEMMA ChartNext ==
    ASSUME ChartInv, [Next]_vars
    PROVE  ChartInv'
<1>1. CASE StreamStep /\ UNCHANGED chartVars
  BY <1>1, StreamNext DEF chartVars, shown, ChartInv, PageInv
<1>2. ASSUME NEW s \in Symbols, SelectSymbol(s)
      PROVE  ChartInv'
  <2>1. [view EXCEPT !.sym = s] \in Views
    BY DEF ChartInv, PageInv, Views
  <2>2. QED
    BY <1>2, <2>1, StartLoadNext DEF SelectSymbol, ChartInv, PageInv, Maybe
<1>3. ASSUME NEW t \in Timeframes, Reload(t)
      PROVE  ChartInv'
  <2>1. [view EXCEPT !.tf = t] \in Views
    BY DEF ChartInv, PageInv, Views
  <2>2. QED
    BY <1>3, <2>1, StartLoadNext DEF Reload, ChartInv, PageInv
<1>4. CASE \E l \in loads : LoadStep(l)
  BY <1>4, LoadNext
<1>5. CASE OnFrame
  BY <1>5, FrameNext
<1>6. CASE Poll
  <2>1. LivePrice(view.sym) \in Values
    BY <1>6, LivePriceType DEF Poll, ChartInv, StreamInv, PageInv, Views, Maybe
  <2>2. polls' \in Seq(Values) /\ Len(polls') <= MaxPolls
    BY <1>6, <2>1, AppendProperties, LenProperties, PageBounds DEF Poll, ChartInv, PageInv
  <2>3. StreamInv' /\ Connected'
    BY <1>6 DEF Poll, streamVars, ChartInv, StreamInv, Ends, Held, Holds, Sent,
                StaleInv, Kind, Connected
  <2>4. QED
    BY <1>6, <2>2, <2>3 DEF Poll, shown, ChartInv, PageInv
<1>7. ASSUME NEW i \in 1..MaxPolls, PollAnswer(i) \/ PollFails(i)
      PROVE  ChartInv'
  <2>1. /\ i \in DOMAIN polls /\ polls' = RemoveAt(polls, i)
        /\ UNCHANGED <<redis, session, conn, frames, commands, stale>>
        /\ Happens \/ UNCHANGED events
    BY <1>7 DEF PollAnswer, PollFails, streamVars
  <2>2. Ends' /\ Connected'
    BY <2>1, HappensType DEF ChartInv, StreamInv, Ends, Connected
  <2>3. StreamInv'
    BY <2>1, <2>2, SessionUnseen DEF ChartInv
  <2>4. polls[i] \in Values
    BY <2>1, ElementOfSeq, LenProperties DEF ChartInv, PageInv
  <2>5. /\ view' \in Views /\ candles' \in Maybe(Views) /\ live' \in Maybe(Values)
        /\ header' \in Maybe(Values) /\ loading' \in BOOLEAN
        /\ prev' \in Maybe(Symbols) /\ loads' \subseteq Load
    BY <1>7, <2>4 DEF PollAnswer, PollFails, shown, ChartInv, PageInv, Maybe
  <2>6. QED
    BY <2>1, <2>2, <2>3, <2>5, PollRemoved DEF ChartInv, PageInv
<1>8. CASE UNCHANGED vars
  BY <1>8 DEF vars, streamVars, chartVars, shown, ChartInv, StreamInv, Ends, Held, Holds,
              Sent, StaleInv, Kind, Connected, PageInv
<1>9. QED
  BY <1>1, <1>2, <1>3, <1>4, <1>5, <1>6, <1>7, <1>8 DEF Next

LEMMA ChartInitially ==
    ASSUME Init
    PROVE  ChartInv
<1>1. StreamInv /\ Connected
  BY StreamInitially DEF Init, StreamInit, Connected
<1>2. NewLoad(0, view) \in Load
  BY NewLoadType, Bounds, PageBounds DEF Init
<1>3. polls \in Seq(Values) /\ Len(polls) = 0
  BY EmptySeq DEF Init
<1>4. QED
  BY <1>1, <1>2, <1>3, PageBounds DEF Init, ChartInv, PageInv, Maybe

\* Every variable of the stream and of the page keeps its type; a socket
\* holds no more frames than it has room for.
THEOREM ChartTypeCorrect == Spec => []TypeOK
<1>1. ChartInv => TypeOK
  BY StreamTyped DEF ChartInv, PageInv, TypeOK
<1>2. QED
  BY <1>1, ChartInitially, ChartNext, PTL DEF Spec

\* After a switch of symbols the session sends one tick of another symbol at
\* most, wherever the sender was when the command came, and over any number of
\* lost and reopened connections.
THEOREM OneStaleTickCorrect == Spec => []OneStaleTick
<1>1. ChartInv => OneStaleTick
  BY DEF ChartInv, StreamInv, StaleInv, OneStaleTick
<1>2. QED
  BY <1>1, ChartInitially, ChartNext, PTL DEF Spec

=============================================================================
