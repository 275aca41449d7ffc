------------------------------ MODULE Lakehouse ------------------------------
(***************************************************************************)
(* The Spark jobs on the minute bars of the lakehouse: backfill_1m.py and  *)
(* dedup_1m.py, which share the Iceberg table bronze.vnstock_ohlc_1m with  *)
(* each other and with the streaming job (module Streaming), and the       *)
(* tables of longer bars.                                                  *)
(*                                                                         *)
(* A job is split where it reads or commits a table.  A commit is atomic:  *)
(* an append is added to whatever the table has by then, a createOrReplace *)
(* puts the job's rows in its place, whatever was appended since.  A job   *)
(* may die between two steps; Airflow then runs it again, from the start.  *)
(*                                                                         *)
(* A row is a symbol, a minute and a revision: the bar of a minute that is *)
(* not over is "live", and the table may keep it for ever.  Each minute    *)
(* that passes is traded for every symbol.  A table of longer bars is      *)
(* abstracted to the contents of 1m that it was computed from, and of the  *)
(* rows that are equal only their presence is kept.                        *)
(***************************************************************************)
EXTENDS Integers, Sequences, FiniteSets

CONSTANTS
    Symbols,
    Chunks,     \* the symbols in the batches of --batch-size
    Window,     \* --days: minutes fetched for a symbol without a mark
    Depth,      \* minutes of history that the fallback source has
    Intervals   \* how many tables of longer bars there are

CONSTANTS       \* bounds of the model, none of them in the code
    LastTime,   \* minutes are 1..LastTime
    MaxEvents   \* stream batches, failures, initial loads, dedups

ASSUME LakehouseAssumption ==
    /\ IsFiniteSet(Symbols)
    /\ Chunks \in Seq(SUBSET Symbols)
    /\ Symbols = UNION {Chunks[c] : c \in DOMAIN Chunks}
    /\ {Window, Depth, Intervals, LastTime} \subseteq Nat \ {0}
    /\ MaxEvents \in Nat

VARIABLES
    now,        \* the minute that is traded
    bronze,     \* bronze.vnstock_ohlc_1m
    coarse,     \* bronze.vnstock_ohlc_5m, ...: the rows they were made from
    lastts,     \* the last minute of each symbol that the stream wrote
    jobs,       \* the local variables of the jobs
    events      \* counted for the bound

VARIABLE        \* auxiliary: never read by the code
    excused     \* minutes that others than a backfill with a mark saw to

vars == <<now, bronze, coarse, lastts, jobs, events, excused>>

Times    == 1..LastTime
Minutes  == Symbols \X Times
Revs     == {"live", "final"}
Rows     == Minutes \X Revs
Table    == [rows: SUBSET Rows, twice: BOOLEAN]
Empty    == [rows |-> {}, twice |-> FALSE]
None     == 0               \* no mark

MinutesOf(table) == {r[1] : r \in table.rows}
Final(table)     == {r[1] : r \in {q \in table.rows : q[2] = "final"}}

\* MAX(time) of a symbol.
Mark(table, s) ==
    LET ts == {t \in Times : <<s, t>> \in MinutesOf(table)}
    IN  IF ts = {} THEN None ELSE CHOOSE t \in ts : \A u \in ts : u <= t

Plus(table, rows) ==
    [rows  |-> table.rows \cup rows,
     twice |-> table.twice \/ table.rows \cap rows # {}]

Of(rows) == Plus(Empty, rows)

Happens == events < MaxEvents /\ events' = events + 1

-----------------------------------------------------------------------------
Idle == [pc |-> "idle"]
Job == {"backfill", "dedup"}
Backfill == [pc: {"chunk"}, mode: {"init", "daily"}, to: Times, wrote: BOOLEAN,
             chunk: 1..(Len(Chunks) + 1), mark: [Symbols -> Times \cup {None}]]
Holding == [pc: {"replace"}, rows: Table]
Aggregating == [pc: {"aggregate"}, rows: Table, next: 1..Intervals]

TypeOK ==
    /\ now \in Times
    /\ bronze \in Table /\ coarse \in [1..Intervals -> Table]
    /\ lastts \in [Symbols -> Times \cup {None}]
    /\ jobs \in [Job -> {Idle, [pc |-> "reread"]} \cup Backfill \cup Holding \cup Aggregating]
    /\ events \in 0..MaxEvents
    /\ excused \in SUBSET Minutes

Init ==
    /\ now = 1
    /\ bronze = Empty /\ coarse = [k \in 1..Intervals |-> Empty]
    /\ lastts = [s \in Symbols |-> None]
    /\ jobs = [j \in Job |-> Idle]
    /\ events = 0 /\ excused = {}

At(j, pc) == jobs[j].pc = pc
Goto(j, job) == jobs' = [jobs EXCEPT ![j] = job]

-----------------------------------------------------------------------------
(* The market and the stream *)

Tick ==
    /\ now < LastTime
    /\ now' = now + 1
    /\ UNCHANGED <<bronze, coarse, lastts, jobs, events, excused>>

Between(s, a, b) == {<<s, t>> : t \in {u \in Times : a <= u /\ u <= b}}

\* The minutes before t whose final bar the table does not have.
Passed(s, t) == Between(s, 1, t - 1) \ Final(bronze)

\* A batch of the stream has a minute of a symbol, as a live bar or as a final
\* one, and passes over the minutes before it.  A batch that is run again
\* appends its rows again.
StreamAppend(s, t, rev) ==
    /\ Happens
    /\ t <= now /\ t >= lastts[s] /\ (rev = "final" => t < now)
    /\ bronze' = Plus(bronze, {<<<<s, t>>, rev>>})
    /\ lastts' = [lastts EXCEPT ![s] = t]
    /\ excused' = excused \cup {<<s, t>>} \cup Passed(s, t)
    /\ UNCHANGED <<now, coarse, jobs>>

-----------------------------------------------------------------------------
(* backfill_1m.py *)

\* The bug: one mark for all symbols.
ReadMarksOfAll ==
    LET marks == {Mark(bronze, s) : s \in Symbols}
    IN  [s \in Symbols |-> CHOOSE t \in marks : \A u \in marks : u <= t]

\* The bug: the minute of the mark is not fetched again.
ReadMarksAfter ==
    [s \in Symbols |-> IF Mark(bronze, s) = None THEN None ELSE Mark(bronze, s) + 1]

ReadMarks == [s \in Symbols |-> Mark(bronze, s)]
NoMarks   == [s \in Symbols |-> None]

Start(mode, mark) ==
    /\ At("backfill", "idle")
    /\ Goto("backfill", [pc |-> "chunk", mode |-> mode, to |-> now, chunk |-> 1,
                         wrote |-> FALSE, mark |-> mark])
    /\ UNCHANGED <<now, bronze, coarse, lastts, excused>>

\* The DAG of every day.
StartDaily == Start("daily", ReadMarks) /\ UNCHANGED events

\* The marks cannot be read, or --ignore-hwm: the whole window is fetched.
StartWithoutMarks == Start("daily", NoMarks) /\ Happens

\* By hand: the table is loaded anew.
StartInit == Start("init", NoMarks) /\ Happens

\* The first minute asked for.  A mark is asked for again.
From(job, s) ==
    IF job.mark[s] # None THEN job.mark[s]
    ELSE IF job.to >= Window THEN job.to - Window + 1 ELSE 1

\* The first minute answered by a source.
Answered(job, s, source) ==
    IF source = "dnse" /\ job.to - Depth + 1 > From(job, s)
    THEN job.to - Depth + 1 ELSE From(job, s)

\* The rows of the answer.  The minute that is traded is not over.
Fetched(job, s, source) ==
    IF source = "none" THEN {}
    ELSE {<<m, IF m[2] < now THEN "final" ELSE "live">> :
             m \in Between(s, Answered(job, s, source), job.to)}

\* What the answer passes over without having been asked from a mark on.
PassedOver(job, s, source) ==
    IF source = "none" \/ (job.mark[s] # None /\ Answered(job, s, source) = job.mark[s])
    THEN {}
    ELSE Passed(s, Answered(job, s, source))

\* Minutes of rows that a replacement of the table drops.
Dropped(new) == {r[1] : r \in bronze.rows \ new.rows}

\* One batch of symbols: each is answered by the first source, by the second
\* or by none; the rows that came are written, and in an initial load the
\* first rows replace the table.
WriteChunk ==
    LET job == jobs["backfill"] IN
    /\ At("backfill", "chunk") /\ job.chunk <= Len(Chunks)
    /\ \E source \in [Chunks[job.chunk] -> {"vci", "dnse", "none"}] :
          LET syms == Chunks[job.chunk]
              rows == UNION {Fetched(job, s, source[s]) : s \in syms}
              new  == IF rows = {} THEN bronze
                      ELSE IF job.mode = "init" /\ ~job.wrote THEN Of(rows)
                      ELSE Plus(bronze, rows)
          IN  /\ IF \A s \in syms : source[s] = "vci" THEN UNCHANGED events ELSE Happens
              /\ bronze' = new
              /\ Goto("backfill", [job EXCEPT !.chunk = @ + 1, !.wrote = @ \/ rows # {}])
              /\ excused' = excused \cup Dropped(new)
                            \cup UNION {PassedOver(job, s, source[s]) : s \in syms}
    /\ UNCHANGED <<now, coarse, lastts>>

ChunksDone == At("backfill", "chunk") /\ jobs["backfill"].chunk > Len(Chunks)

NothingWritten ==
    /\ ChunksDone /\ ~jobs["backfill"].wrote
    /\ Goto("backfill", Idle)
    /\ UNCHANGED <<now, bronze, coarse, lastts, events, excused>>

\* Both jobs that write the table of minutes then read it as a whole.
ReadTable(j) ==
    /\ \/ j = "backfill" /\ ChunksDone /\ jobs[j].wrote
       \/ j = "dedup" /\ At(j, "reread")
    /\ Goto(j, [pc |-> "aggregate", rows |-> bronze, next |-> 1])
    /\ UNCHANGED <<now, bronze, coarse, lastts, events, excused>>

\* The tables of longer bars are replaced one after the other.
Aggregate(j) ==
    LET job == jobs[j] IN
    /\ At(j, "aggregate")
    /\ coarse' = [coarse EXCEPT ![job.next] = job.rows]
    /\ Goto(j, IF job.next = Intervals THEN Idle ELSE [job EXCEPT !.next = @ + 1])
    /\ UNCHANGED <<now, bronze, lastts, events, excused>>

Backfilling ==
    \/ WriteChunk \/ NothingWritten \/ ReadTable("backfill") \/ Aggregate("backfill")

-----------------------------------------------------------------------------
(* dedup_1m.py, run by hand *)

\* The bug: of the rows of a minute the one of the lowest volume is kept.
BestLowest(table) ==
    Of({r \in table.rows : r[2] = "live" \/ <<r[1], "live">> \notin table.rows})

\* One row of each minute, that of the highest volume: the final one.
Best(table) ==
    Of({r \in table.rows : r[2] = "final" \/ r[1] \notin Final(table)})

\* Without duplicates there is nothing to do.
DedupRead ==
    /\ At("dedup", "idle") /\ Happens
    /\ Best(bronze) # bronze
    /\ Goto("dedup", [pc |-> "replace", rows |-> bronze])
    /\ UNCHANGED <<now, bronze, coarse, lastts, excused>>

\* Of the rows that were read the best ones stay; those appended since are lost.
DedupReplace ==
    LET read == jobs["dedup"].rows IN
    /\ At("dedup", "replace")
    /\ bronze' = Best(read)
    /\ excused' = excused \cup {r[1] : r \in bronze.rows \ read.rows}
    /\ Goto("dedup", [pc |-> "reread"])
    /\ UNCHANGED <<now, coarse, lastts, events>>

Deduplicating == DedupReplace \/ ReadTable("dedup") \/ Aggregate("dedup")

-----------------------------------------------------------------------------
\* A job dies, and what it has committed stays.
JobFails(j) ==
    /\ ~At(j, "idle") /\ Happens
    /\ Goto(j, Idle)
    /\ UNCHANGED <<now, bronze, coarse, lastts, excused>>

Next ==
    \/ Tick
    \/ \E s \in Symbols, t \in Times, rev \in Revs : StreamAppend(s, t, rev)
    \/ StartDaily \/ StartWithoutMarks \/ StartInit
    \/ Backfilling
    \/ DedupRead \/ Deduplicating
    \/ \E j \in Job : JobFails(j)

Spec == Init /\ [][Next]_vars

\* Airflow starts the jobs of every day, and a job that runs goes on.
FairSpec ==
    /\ Spec
    /\ WF_vars(StartDaily) /\ WF_vars(Backfilling) /\ WF_vars(Deduplicating)

-----------------------------------------------------------------------------
(* Properties *)

\* What a symbol misses before its last minute, or has there as a live bar
\* only, has a reason: the stream, the fallback source or a run without marks
\* passed over it, or a replacement of the table dropped it.  A backfill from
\* its marks leaves neither a hole nor a live bar behind, whichever symbols
\* failed before and wherever it died (the high-water mark of backfill_1m.py,
\* which is fetched again).
GapsAreExcused ==
    \A s \in Symbols, t \in Times :
        t < Mark(bronze, s) => <<s, t>> \in Final(bronze) \cup excused

\* The final bar of a minute, once there, stays (the volume order of
\* dedup_1m.py), unless the table is replaced by a job that did not read it.
FinalBarsStay ==
    [][Final(bronze) \subseteq (Final(bronze) \cup excused)']_vars

\* The tables of longer bars end as the aggregates of the table of minutes,
\* although they are replaced one by one, from a read that may be old, by a
\* job that may die in between (backfill_1m.py, the last part of main).
CoarseConverges == <>[](\A k \in 1..Intervals : coarse[k] = bronze)

\* Every symbol gets its last minute, whichever runs failed.
BronzeReachesNow == <>[](\A s \in Symbols : Mark(bronze, s) = now)

\* The comment of backfill_1m.py: only candles newer than those of the table
\* are fetched.
NoMinuteTwice == Best(bronze) = bronze

\* The doc of the DAG: the candles since the last run are fetched, so that the
\* minutes that the stream did not write come in by and by.
HolesAreFilled ==
    <>[](\A s \in Symbols, t, u \in Times :
            (u < t /\ t < Mark(bronze, s) /\ <<s, u>> \in MinutesOf(bronze))
                => <<s, t>> \in MinutesOf(bronze))

\* The doc of dedup_1m.py: duplicates are what it removes.
DedupKeepsMinutes == [][DedupReplace => MinutesOf(bronze) \subseteq MinutesOf(bronze')]_vars

=============================================================================
