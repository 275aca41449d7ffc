------------------------------ MODULE RestApi ------------------------------
(***************************************************************************)
(* The REST endpoints of infra/vnstock-api that keep something: the        *)
(* fallbacks of routers/realtime.py, which remember answers of Trino in    *)
(* variables of the worker, and routers/history.py, which remembers its    *)
(* answers in Redis for all workers.                                       *)
(*                                                                         *)
(* Handlers are coroutines of one event loop: they interleave where they   *)
(* await Redis, while a query of Trino or DNSE blocks the loop, so that    *)
(* what runs from one await to the next is one action.  Another worker     *)
(* has variables of its own and is, for Redis, just more requests.         *)
(*                                                                         *)
(* Of an answer only its age is kept: asof, when the data was read, and    *)
(* upto, its newest bar.  The keys of the producer are inputs: held are    *)
(* those that a request finds.  A request that finds what it asks for      *)
(* copies it, and changes nothing.                                         *)
(***************************************************************************)
EXTENDS Api, Integers

CONSTANTS
    Charted,            \* the symbols whose history is asked for
    Requests,           \* the requests for histories that may be under way
    TRINO_CACHE_TTL,
    SECDEF_ICEBERG_TTL,
    CACHE_TTL,          \* of the histories in Redis
    Gap,                \* a history that is further behind is filled from DNSE
    Delay               \* socket_timeout of Redis, with its retry

CONSTANTS               \* bounds of the model
    Holdings,           \* the keys that requests may find
    MaxTime, MaxFaults

ASSUME RestApiAssumption ==
    /\ Charted \subseteq Symbols
    /\ {TRINO_CACHE_TTL, SECDEF_ICEBERG_TTL, CACHE_TTL} \subseteq Nat \ {0}
    /\ {Gap, Delay, MaxTime, MaxFaults} \subseteq Nat
    /\ None \notin Nat

\* vnstock:tick of a symbol, vnstock:ticks:all, vnstock:daily, vnstock:secdef,
\* and the basicPrice of a record of vnstock:daily.
ASSUME HoldingsAssumption ==
    Holdings \subseteq SUBSET {"tick", "ticks", "daily", "secdef", "basicPrice"}

VARIABLES
    now,                \* time.time()
    table,              \* the newest bar of each symbol in Iceberg, or None
    cached,             \* the histories in Redis
    ticks,              \* _trino_cache, whether _trino_cache_all is empty, _trino_cache_ts
    secdefs,            \* _secdef_iceberg_cache and _secdef_iceberg_ts
    requests,           \* the handlers of get_history under way
    faults              \* counted for the bound

restVars == <<now, table, cached, ticks, secdefs, requests, faults>>

Time == 0..MaxTime

\* A history: filled says that the gap was filled, or that there was none.
History == [asof: Time, upto: Time, filled: BOOLEAN]

ASSUME NoneAssumption == None \notin History

Entry == [history: History, expires: Nat]
Handler == [pc: {"idle", "query", "write"}, sym: Maybe(Charted), history: Maybe(History)]

RestTypeOK ==
    /\ now \in Time
    /\ table \in [Symbols -> Maybe(Time)]
    /\ cached \in [Charted -> Maybe(Entry)]
    /\ ticks \in [of: [Symbols -> Maybe(Time)], all: BOOLEAN, ts: Maybe(Time)]
    /\ secdefs \in [of: [Symbols -> Maybe(Time)], ts: Maybe(Time)]
    /\ requests \in [Requests -> Handler]
    /\ \A r \in Requests : (requests[r].pc = "write") <=> (requests[r].history # None)
    /\ faults \in 0..MaxFaults

Idle == [pc |-> "idle", sym |-> None, history |-> None]
Nothing == [s \in Symbols |-> None]

\* The time of a cache that was never filled is 0, long ago.
RestInit ==
    /\ now = 0
    /\ table = Nothing
    /\ cached = [s \in Charted |-> None]
    /\ ticks = [of |-> Nothing, all |-> FALSE, ts |-> None]
    /\ secdefs = [of |-> Nothing, ts |-> None]
    /\ requests = [r \in Requests |-> Idle]
    /\ faults = 0

Fault == faults < MaxFaults /\ faults' = faults + 1

-----------------------------------------------------------------------------
(* What the handlers do not do *)

\* A command of Redis is answered within its timeout.
InTime(r) == requests[r].pc = "write" => now < requests[r].history.asof + Delay

Second ==
    /\ now < MaxTime
    /\ \A r \in Requests : InTime(r)
    /\ now' = now + 1
    /\ cached' = [s \in Charted |->
                    IF cached[s] # None /\ cached[s].expires <= now + 1
                    THEN None ELSE cached[s]]
    /\ UNCHANGED <<table, ticks, secdefs, requests, faults>>

\* A stream or a backfill appends the bar of now.
Ingest(s) ==
    /\ table' = [table EXCEPT ![s] = now]
    /\ UNCHANGED <<now, cached, ticks, secdefs, requests, faults>>

RedisRestarts ==
    /\ Fault
    /\ cached' = [s \in Charted |-> None]
    /\ UNCHANGED <<now, table, ticks, secdefs, requests>>

-----------------------------------------------------------------------------
(* realtime.py: the fallbacks.  A query that fails changes nothing. *)

World == UNCHANGED <<now, table, cached, requests, faults>>

Fresh(ts, ttl) == ts # None /\ now - ts < ttl

\* What is remembered of a symbol, and answered while it is fresh.
TickOf(s) == IF Fresh(ticks.ts, TRINO_CACHE_TTL) THEN ticks.of[s] ELSE None
SecdefOf(s) == IF Fresh(secdefs.ts, SECDEF_ICEBERG_TTL) THEN secdefs.of[s] ELSE None

\* _trino_latest_tick: a lookup is remembered, its time is not.
LatestTick(s) ==
    /\ TickOf(s) = None /\ table[s] # None
    /\ ticks' = [ticks EXCEPT !.of[s] = now]
    /\ World /\ UNCHANGED secdefs

\* The bug: the ticks of the batch are not remembered one by one.
RememberedAll == ticks.of

Remembered == [s \in Symbols |-> IF table[s] # None THEN now ELSE ticks.of[s]]

\* _trino_latest_ticks_batch: all symbols of the table at once; what it keeps
\* is fresh unless it is empty.
LatestTicks ==
    /\ ~(ticks.all /\ Fresh(ticks.ts, TRINO_CACHE_TTL))
    /\ ticks' = [of |-> Remembered, ts |-> now, all |-> \E s \in Symbols : table[s] # None]
    /\ World /\ UNCHANGED secdefs

\* _secdef_from_iceberg: there is one time for the references of all symbols.
SecdefFromIceberg(s) ==
    /\ SecdefOf(s) = None /\ table[s] # None
    /\ secdefs' = [of |-> [secdefs.of EXCEPT ![s] = now], ts |-> now]
    /\ World /\ UNCHANGED ticks

\* get_realtime of a symbol: Iceberg, if Redis has no tick.
GetRealtime(s, held) == "tick" \notin held /\ LatestTick(s)

\* get_realtime of all symbols: the daily records of Redis come before Iceberg.
GetRealtimeAll(held) == {"ticks", "daily"} \cap held = {} /\ LatestTicks

\* get_summary: all keys of a symbol; one of them has a fallback.
GetSummary(s, held) == "secdef" \notin held /\ SecdefFromIceberg(s)

\* get_daily of a symbol: without a record there is no answer, and the record
\* may have its own reference.  Of all symbols, it reads Redis alone.
GetDaily(s, held) ==
    /\ "daily" \in held /\ {"secdef", "basicPrice"} \cap held = {}
    /\ SecdefFromIceberg(s)

Realtime(s, held) == GetRealtime(s, held) \/ GetSummary(s, held) \/ GetDaily(s, held)

-----------------------------------------------------------------------------
(* history.py: get_history *)

Handles == UNCHANGED <<now, table, ticks, secdefs>>

\* A request asks Redis, and is answered at once if the history is there.  A
\* Redis that fails counts as a miss.
GetHistory(r, s) ==
    /\ requests[r].pc = "idle"
    /\ \/ cached[s] = None /\ UNCHANGED faults
       \/ cached[s] # None /\ Fault
    /\ requests' = [requests EXCEPT ![r] = [Idle EXCEPT !.pc = "query", !.sym = s]]
    /\ UNCHANGED cached /\ Handles

\* The bug: the gap is filled only for a history that has no bar at all.
BehindNothing(upto) == FALSE

Behind(upto) == now - upto > Gap

\* _fetch_live_candles: the bars up to now, or none if DNSE fails.
Live(upto, answers) == IF answers THEN now ELSE upto

\* Trino, and DNSE for the gap, while nothing else runs.
Query(r) ==
    LET s == requests[r].sym
        upto == table[s]
    IN
    /\ requests[r].pc = "query" /\ upto # None
    /\ \E filled \in BOOLEAN :
          /\ requests' = [requests EXCEPT ![r] = [pc |-> "write", sym |-> s,
                history |-> [asof |-> now, filled |-> filled,
                             upto |-> IF Behind(upto) THEN Live(upto, filled) ELSE upto]]]
          /\ IF filled THEN UNCHANGED faults ELSE Behind(upto) /\ Fault
    /\ UNCHANGED cached /\ Handles

\* Without rows the handler returns an empty history, before it fills anything.
QueryEmpty(r) ==
    /\ requests[r].pc = "query" /\ table[requests[r].sym] = None
    /\ requests' = [requests EXCEPT ![r] = Idle]
    /\ UNCHANGED <<cached, faults>> /\ Handles

\* _query_fallback: a table that is missing is replaced by that of the stream;
\* the answer is not cached.
QueryFallback(r) ==
    /\ requests[r].pc = "query" /\ table = Nothing
    /\ requests' = [requests EXCEPT ![r] = Idle]
    /\ UNCHANGED <<cached, faults>> /\ Handles

\* Trino fails, and with it the request.
QueryFails(r) ==
    /\ requests[r].pc = "query" /\ Fault
    /\ requests' = [requests EXCEPT ![r] = Idle]
    /\ UNCHANGED cached /\ Handles

\* The bug: an entry that is there keeps its time, and the new one adds to it.
ExpiresLate(s) == (IF cached[s] = None THEN now ELSE cached[s].expires) + CACHE_TTL

Expires(s) == now + CACHE_TTL

\* setex, whatever another request has written since the query.
WriteCache(r) ==
    LET s == requests[r].sym IN
    /\ requests[r].pc = "write"
    /\ \/ /\ cached' = [cached EXCEPT ![s] =
                          [history |-> requests[r].history, expires |-> Expires(s)]]
          /\ UNCHANGED faults
       \/ Fault /\ UNCHANGED cached
    /\ requests' = [requests EXCEPT ![r] = Idle]
    /\ Handles

HistoryStep(r) ==
    \/ Query(r) \/ QueryEmpty(r) \/ QueryFallback(r) \/ QueryFails(r)
    \/ WriteCache(r)

RestNext ==
    \/ Second
    \/ \E s \in Symbols : Ingest(s)
    \/ RedisRestarts
    \/ \E held \in Holdings :
          GetRealtimeAll(held) \/ \E s \in Symbols : Realtime(s, held)
    \/ \E r \in Requests : HistoryStep(r) \/ \E s \in Charted : GetHistory(r, s)

RestSpec == RestInit /\ [][RestNext]_restVars

-----------------------------------------------------------------------------
(* Properties *)

\* A fallback tick is at most the time to live behind Iceberg, although single
\* lookups are remembered without their time and only batches set it: a batch
\* replaces every tick that was remembered before it (_trino_latest_tick).
TicksAreFresh ==
    \A s \in Symbols : TickOf(s) # None => now - TickOf(s) < TRINO_CACHE_TTL

\* A cached history reaches up to now, short of the gap that is not filled, the
\* time to live in Redis and a slow write, although requests overwrite each
\* other's entries with older ones; a failure of DNSE is excused (get_history).
HistoryIsRecent ==
    \A s \in Charted :
        cached[s] # None /\ cached[s].history.filled
            => now - cached[s].history.upto < Gap + CACHE_TTL + Delay

\* SECDEF_ICEBERG_TTL's comment: "refresh every 5 minutes".
SecdefsAreFresh ==
    \A s \in Symbols : SecdefOf(s) # None => now - SecdefOf(s) < SECDEF_ICEBERG_TTL

\* The history that Redis holds is never replaced by an older one.
CacheMovesOn ==
    [][\A s \in Charted :
          cached[s] # None /\ cached'[s] # None
              => cached'[s].history.asof >= cached[s].history.asof]_restVars

=============================================================================
