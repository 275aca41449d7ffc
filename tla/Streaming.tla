------------------------------ MODULE Streaming ------------------------------
(***************************************************************************)
(* The Spark job streaming.py: micro-batches of the topic                  *)
(* vnstock.ohlc.realtime go into the table bronze.vnstock_ohlc_1m and into *)
(* the Redis keys vnstock:tick:*, with the hash vnstock:stream:last_ts to  *)
(* tell what was written already.                                          *)
(*                                                                         *)
(* write_batch is split where it calls a store: after each of its steps    *)
(* the process may die, and Spark then runs the same batch again, because  *)
(* it writes the range of a batch down before it starts it and commits it  *)
(* after write_batch returned.                                             *)
(*                                                                         *)
(* A row is a symbol, a minute and a revision of the candle: the producer  *)
(* sends the live candle of a minute again and again while it grows, and   *)
(* its final revision comes from the REST layer.  The rows of a batch are  *)
(* a set: dropDuplicates shuffles them, so that any row of a minute may be *)
(* kept and any row of a symbol may come last, and each use of the lazy    *)
(* DataFrame may choose anew.                                              *)
(***************************************************************************)
EXTENDS Integers, Sequences, FiniteSets

CONSTANTS
    Symbols,
    LastTime,   \* bound: minutes are 1..LastTime, and 0 is none
    Final,      \* bound: the revision of a finalized candle; lower ones are live
    MaxRecords, \* bound: records of the topic
    MaxFaults,  \* bound: how often each kind of fault may happen
    None        \* no tick in Redis

Times == 1..LastTime
Rows  == [sym: Symbols, time: Times, rev: 1..Final]
FaultKind == {"redis", "append", "crash"}

ASSUME StreamingAssumption ==
    /\ LastTime \in Nat \ {0} /\ Final \in Nat \ {0} /\ MaxRecords \in Nat
    /\ MaxFaults \in [FaultKind -> Nat]
    /\ None \notin Rows

VARIABLES
    topic,      \* the records of the topic, in their order
    planned,    \* the checkpoint: the end of the batch that was started last
    committed,  \* the checkpoint: the end of the batch that was committed last
    job,        \* where write_batch stands, and its local variables
    bronze,     \* how often the table has each row
    lastts,     \* vnstock:stream:last_ts
    tick,       \* vnstock:tick:*
    faults,     \* how many faults of each kind have happened
    unsaved     \* auxiliary: the records whose batch was not appended

vars == <<topic, planned, committed, job, bronze, lastts, tick, faults, unsaved>>

Idle == [pc |-> "idle", rows |-> {}, tracked |-> FALSE]

Init ==
    /\ topic = <<>> /\ planned = 0 /\ committed = 0
    /\ job = Idle
    /\ bronze = [r \in Rows |-> 0]
    /\ lastts = [s \in Symbols |-> 0]
    /\ tick = [s \in Symbols |-> None]
    /\ faults = [k \in FaultKind |-> 0]
    /\ unsaved = {}

Minute(r) == [sym |-> r.sym, time |-> r.time]
OlderRow(r, q) == r.time < q.time \/ (r.time = q.time /\ r.rev < q.rev)

\* The rows of the batch that was planned.
BatchRange == (committed + 1)..planned
Batch == {topic[i] : i \in BatchRange}

\* dropDuplicates: one row of each minute.
Dedups(rows) ==
    {q \in SUBSET rows :
        \A r \in rows : Cardinality({x \in q : Minute(x) = Minute(r)}) = 1}

\* Keyed writes, row by row: for each symbol the row that comes last stays.
LastRows(rows) ==
    {f \in [{r.sym : r \in rows} -> rows] : \A s \in DOMAIN f : f[s].sym = s}

Fault(k) == /\ faults[k] < MaxFaults[k]
            /\ faults' = [faults EXCEPT ![k] = @ + 1]
NoFault == UNCHANGED faults

At(pc) == job.pc = pc
\* The next step uses the rows, or none of the local variables.
Goto(pc)  == job' = [job EXCEPT !.pc = pc]
Leave(pc) == job' = [Idle EXCEPT !.pc = pc]

-----------------------------------------------------------------------------
(* The producer *)

\* A live candle: to Redis, then to the topic.
PublishLive ==
    /\ Len(topic) < MaxRecords
    /\ \E r \in Rows :
          /\ r.rev < Final
          /\ \A i \in DOMAIN topic : Minute(topic[i]) = Minute(r) => topic[i].rev < r.rev
          /\ topic' = Append(topic, r)
          /\ tick' = [tick EXCEPT ![r.sym] = r]
    /\ UNCHANGED <<planned, committed, job, bronze, lastts, faults, unsaved>>

\* A finalized candle: to Redis unless there is a newer one, and to the topic.
PublishFinal ==
    /\ Len(topic) < MaxRecords
    /\ \E r \in Rows :
          /\ r.rev = Final
          /\ topic' = Append(topic, r)
          /\ tick' = [tick EXCEPT ![r.sym] =
                         IF @ # None /\ r.time <= @.time THEN @ ELSE r]
    /\ UNCHANGED <<planned, committed, job, bronze, lastts, faults, unsaved>>

-----------------------------------------------------------------------------
(* Spark *)

\* The trigger: the next batch takes all there is.
PlanBatch ==
    /\ At("idle") /\ planned = committed
    /\ committed < Len(topic)
    /\ planned' = Len(topic)
    /\ UNCHANGED <<topic, committed, job, bronze, lastts, tick, faults, unsaved>>

CommitBatch ==
    /\ At("done")
    /\ committed' = planned
    /\ job' = Idle
    /\ UNCHANGED <<topic, planned, bronze, lastts, tick, faults, unsaved>>

\* The process dies, or write_batch raises what it does not catch.
Crash ==
    /\ ~At("dead") /\ Fault("crash")
    /\ Leave("dead")
    /\ UNCHANGED <<topic, planned, committed, bronze, lastts, tick, unsaved>>

Restart ==
    /\ At("dead")
    /\ job' = Idle
    /\ UNCHANGED <<topic, planned, committed, bronze, lastts, tick, faults, unsaved>>

-----------------------------------------------------------------------------
(* write_batch *)

\* The bug: one timestamp for all symbols.
NewRowsGlobal(rows) == {r \in rows : \A s \in Symbols : r.time > lastts[s]}

\* The rows that are newer than what was written of their symbol.
NewRows(rows) == {r \in rows : r.time > lastts[r.sym]}

\* The hash after the last timestamps of f were written to it.
Tracked(f) == [s \in Symbols |-> IF s \in DOMAIN f THEN f[s].time ELSE lastts[s]]

\* The bug: the rows are tracked before they are in the table.
FilterRowsTracking ==
    /\ At("idle") /\ committed < planned
    /\ \E rows \in Dedups(Batch) :
          /\ job' = IF NewRows(rows) = {}
                    THEN [Idle EXCEPT !.pc = "ticks"]
                    ELSE [pc |-> "append", rows |-> NewRows(rows), tracked |-> TRUE]
          /\ \E f \in LastRows(NewRows(rows)) : lastts' = Tracked(f)
    /\ UNCHANGED <<topic, planned, committed, bronze, tick, faults, unsaved>>

\* Redis tells which rows are new; if none is, only the ticks are updated.
FilterRows ==
    /\ At("idle") /\ committed < planned
    /\ \E rows \in Dedups(Batch) :
          job' = IF NewRows(rows) = {}
                 THEN [Idle EXCEPT !.pc = "ticks"]
                 ELSE [pc |-> "append", rows |-> NewRows(rows), tracked |-> TRUE]
    /\ UNCHANGED <<topic, planned, committed, bronze, lastts, tick, faults, unsaved>>

\* Redis does not answer: all rows are written, and none is tracked.
FilterFails ==
    /\ At("idle") /\ committed < planned
    /\ Fault("redis")
    /\ \E rows \in Dedups(Batch) :
          job' = [pc |-> "append", rows |-> rows, tracked |-> FALSE]
    /\ UNCHANGED <<topic, planned, committed, bronze, lastts, tick, unsaved>>

Appended(rows) == [r \in Rows |-> bronze[r] + IF r \in rows THEN 1 ELSE 0]

AppendRows ==
    /\ At("append")
    /\ bronze' = Appended(job.rows)
    /\ unsaved' = unsaved \ BatchRange
    /\ Goto("track")
    /\ UNCHANGED <<topic, planned, committed, lastts, tick, faults>>

\* The append raises, before or after the table changed; write_batch returns.
AppendFails ==
    /\ At("append")
    /\ Fault("append")
    /\ bronze' \in {bronze, Appended(job.rows)}
    /\ unsaved' = unsaved \cup BatchRange
    /\ Leave("done")
    /\ UNCHANGED <<topic, planned, committed, lastts, tick>>

\* The bug: no new connection to Redis after the first one failed.
TrackRowsConnected ==
    /\ At("track")
    /\ job.tracked
    /\ \E f \in LastRows(job.rows) : lastts' = Tracked(f)
    /\ Leave("ticks")
    /\ UNCHANGED <<topic, planned, committed, bronze, tick, faults, unsaved>>

TrackRows ==
    /\ At("track")
    /\ IF job.tracked
       THEN \E f \in LastRows(job.rows) : lastts' = Tracked(f)
       ELSE UNCHANGED lastts
    /\ Leave("ticks")
    /\ UNCHANGED <<topic, planned, committed, bronze, tick, faults, unsaved>>

\* Redis fails, before or after the hash changed: the ticks are left out.
TrackFails ==
    /\ At("track") /\ job.tracked
    /\ Fault("redis")
    /\ \/ UNCHANGED lastts
       \/ \E f \in LastRows(job.rows) : lastts' = Tracked(f)
    /\ Leave("done")
    /\ UNCHANGED <<topic, planned, committed, bronze, tick, unsaved>>

\* _update_redis_ticks: no comparison with what Redis has.
Ticks(f) == [s \in Symbols |-> IF s \in DOMAIN f THEN f[s] ELSE tick[s]]

WriteTicks ==
    /\ At("ticks")
    /\ \E rows \in Dedups(Batch) : \E f \in LastRows(rows) : tick' = Ticks(f)
    /\ Leave("done")
    /\ UNCHANGED <<topic, planned, committed, bronze, lastts, faults, unsaved>>

TicksFail ==
    /\ At("ticks")
    /\ Fault("redis")
    /\ \/ UNCHANGED tick
       \/ \E rows \in Dedups(Batch) : \E f \in LastRows(rows) : tick' = Ticks(f)
    /\ Leave("done")
    /\ UNCHANGED <<topic, planned, committed, bronze, lastts, unsaved>>

-----------------------------------------------------------------------------
Producer == PublishLive \/ PublishFinal
Steps == \/ PlanBatch \/ CommitBatch \/ FilterRows \/ AppendRows
         \/ TrackRows \/ WriteTicks
Failures == FilterFails \/ AppendFails \/ TrackFails \/ TicksFail \/ Crash

Next == Producer \/ Steps \/ Failures \/ Restart

Spec == Init /\ [][Next]_vars

\* Spark triggers a batch every ten seconds and runs it to its end; the task
\* of the DAG is retried (vnstock_bronze_dag.py:33).
FairSpec == Spec /\ WF_vars(Steps) /\ WF_vars(Restart)

-----------------------------------------------------------------------------
(* Properties *)

Jobs == [pc: {"idle", "append", "track", "ticks", "done", "dead"},
         rows: SUBSET Rows, tracked: BOOLEAN]

TypeOK ==
    /\ topic \in Seq(Rows)
    /\ planned \in 0..Len(topic) /\ committed \in 0..planned
    /\ job \in Jobs
    /\ bronze \in [Rows -> Nat]
    /\ lastts \in [Symbols -> Nat]
    /\ tick \in [Symbols -> Rows \cup {None}]
    /\ faults \in [FaultKind -> Nat]
    /\ unsaved \subseteq 1..planned

\* The rows of the table.
Stored == {r \in Rows : bronze[r] > 0}

\* The hash never claims a minute that the table does not have: whatever fails,
\* and whenever the job dies, no row is filtered out in vain
\* (streaming.py:123-147, the append comes before the hset).
TracksStored ==
    \A s \in Symbols :
        lastts[s] # 0 => \E r \in Stored : r.sym = s /\ r.time = lastts[s]

\* The table has the minute of record r, or a later one of its symbol.
InTable(r) == \E q \in Stored : q.sym = r.sym /\ q.time >= r.time

\* A record of a committed batch has its minute, or a later one of its symbol,
\* in the table (streaming.py:7, "Writes to Iceberg (bronze.vnstock_ohlc_1m)
\* for durability").
CommittedStored == \A i \in 1..committed : InTable(topic[i])

\* So it has, unless the append of the batch failed: it is only a failed append
\* that loses a record, and neither Redis nor a crash does.
CommittedSaved == \A i \in (1..committed) \ unsaved : InTable(topic[i])

\* A minute of a symbol is in the table once (streaming.py:75-76, "Filter out
\* rows already written", "Append only NEW rows").
StoredOnce ==
    \A r \in Stored :
        /\ bronze[r] = 1
        /\ \A q \in Stored : Minute(q) = Minute(r) => q = r

\* A finalized candle of a committed batch is in the table (producer.py:25,
\* "Finalized 1m candles -> Kafka -> Spark -> Iceberg").
FinalsStored ==
    \A i \in 1..committed : topic[i].rev = Final => topic[i] \in Stored

\* The job never replaces a tick by an older one (streaming.py:157, "Write
\* latest tick per symbol to Redis").
TicksAdvance ==
    [][\A s \in Symbols :
          job' # job /\ tick[s] # None => ~OlderRow(tick'[s], tick[s])]_vars

PublishedMinutes == {Minute(topic[i]) : i \in DOMAIN topic}
StoredMinutes    == {Minute(r) : r \in Stored}
SettledMinutes   == {Minute(topic[i]) : i \in (1..committed) \ unsaved}

Bronze == INSTANCE BronzeTable WITH
    published <- PublishedMinutes, stored <- StoredMinutes, settled <- SettledMinutes

\* The job implements the promise of BronzeTable, through crashes, replayed
\* batches and Redis failures; a failed append excuses its own batch only.
KeepsPromise == Bronze!Spec

\* Every record of the topic is committed at some time, although Redis and
\* appends may fail and the job may die on the way: whenever the producer
\* pauses, as it does at the end of the topic, the job catches up.
Commits == []<>(committed = Len(topic))

=============================================================================
