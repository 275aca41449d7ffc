-------------------------------- MODULE Daily --------------------------------
(***************************************************************************)
(* Daily candles, from the chart API to the top movers: backfill_1d.py     *)
(* fills bronze.vnstock_ohlc_1d, gold_daily_summary.py builds              *)
(* gold.vnstock_daily_summary from it, and routers/gold.py serves that     *)
(* through a cache in Redis.  The three run at times of their own, and     *)
(* read what the one before them has committed by then.                    *)
(*                                                                         *)
(* Days are calendar days, TradingDays those with candles.  A candle is a  *)
(* symbol and a day; of equal candles in the table two are told apart from *)
(* one.  Of a row of the summary only prev_close is kept, as the day whose *)
(* close it is.  The chart API counts in seconds, the table in Milli of    *)
(* them; a model second is a day.                                          *)
(***************************************************************************)
EXTENDS Integers, FiniteSets, FiniteSetsExt

CONSTANTS
    Symbols, TradingDays,
    BatchSize,      \* --batch-size
    Modes,          \* of --mode, those that the summary is run with
    Window,         \* --days of the summary
    None

CONSTANTS           \* bounds of the model, none of them in the code
    LastDay, MaxLoads, MaxFaults

Milli == 1000
Days == 1..LastDay
Never == 0          \* no mark, and no previous day

VARIABLES
    today,
    ohlc_1d,        \* bronze.vnstock_ohlc_1d, or None: copies of each candle
    job,            \* a run of backfill_1d.py, or None
    gold,           \* gold.vnstock_daily_summary, or None
    build,          \* a run of gold_daily_summary.py that read, or None
    movers,         \* the cached answer of /api/gold/top-movers, or None
    request,        \* the day of the gainers of a request under way, or None
    counts          \* counted for the bounds

vars == <<today, ohlc_1d, job, gold, build, movers, request, counts>>

Maybe(S) == S \cup {None}
Table == [Symbols -> [Days -> 0..2]]
NoRows == [s \in Symbols |-> [d \in Days |-> 0]]
Summary == SUBSET [sym: Symbols, day: Days, prev: Days \cup {Never}]
Fetching == [pc: {"fetch"}, mode: {"init", "daily"}, left: SUBSET Symbols,
             marks: [Symbols -> {Never} \cup {d * Milli : d \in Days}],
             got: [Symbols -> SUBSET Days]]
Writing == [pc: {"write"}, mode: {"init", "daily"}, left: SUBSET Symbols,
            wrote: BOOLEAN, got: [Symbols -> SUBSET Days]]

TypeOK ==
    /\ today \in Days
    /\ ohlc_1d \in Maybe(Table)
    /\ job = None \/ job \in Fetching \/ job \in Writing
    /\ gold = None \/ gold \in Summary
    /\ build # None => build.mode \in Modes /\ build.rows \in Summary
    /\ movers \in Maybe([gainers: Days, losers: Days, expires: BOOLEAN])
    /\ request \in Maybe(Days)
    /\ counts \in [loads: 0..MaxLoads, faults: 0..MaxFaults]

\* There is no table yet, or an earlier load has left all of the first day.
Init ==
    /\ today = 1
    /\ ohlc_1d \in {None, [s \in Symbols |-> [d \in Days |-> IF d = 1 THEN 1 ELSE 0]]}
    /\ job = None
    /\ gold = None /\ build = None
    /\ movers = None /\ request = None
    /\ counts = [loads |-> 0, faults |-> 0]

Count(what, max) == counts[what] < max /\ counts' = [counts EXCEPT ![what] = @ + 1]

Day ==
    /\ today < LastDay /\ today' = today + 1
    /\ UNCHANGED <<ohlc_1d, job, gold, build, movers, request, counts>>

-----------------------------------------------------------------------------
(* backfill_1d.py *)

Gold == UNCHANGED <<today, gold, build, movers, request>>

DaysOf(table, s) == {d \in Days : table[s][d] > 0}

NoMarks == [s \in Symbols |-> Never]

\* The bug: the newest candle of all symbols is everybody's mark.
MarksOfAll ==
    LET days == UNION {DaysOf(ohlc_1d, s) : s \in Symbols}
    IN  [s \in Symbols |-> IF days = {} THEN Never ELSE Max(days) * Milli]

\* MAX(time) of each symbol that has candles, in the unit of the table.
Marks ==
    [s \in Symbols |->
        IF DaysOf(ohlc_1d, s) = {} THEN Never ELSE Max(DaysOf(ohlc_1d, s)) * Milli]

Start(mode, marks) ==
    /\ job = None
    /\ job' = [pc |-> "fetch", mode |-> mode, left |-> Symbols, marks |-> marks,
               got |-> [s \in Symbols |-> {}]]
    /\ UNCHANGED ohlc_1d /\ Gold

\* Without its table a daily run has no marks, and neither if the query fails.
StartDaily ==
    Start("daily", IF ohlc_1d = None THEN NoMarks ELSE Marks) /\ UNCHANGED counts
StartWithoutMarks ==
    ohlc_1d # None /\ Start("daily", NoMarks) /\ Count("faults", MaxFaults)
StartInit == Start("init", NoMarks) /\ Count("loads", MaxLoads)

\* The bug: a symbol without a mark starts today.
FromToday(mark) == IF mark # Never THEN mark ELSE today

\* The mark goes to the API as it is.
From(mark) == IF mark # Never THEN mark ELSE 1

\* The candles from `from' to now, or an error, or no data.
FetchAnswers(s) ==
    /\ job # None /\ job.pc = "fetch" /\ s \in job.left
    /\ job' = [job EXCEPT !.left = @ \ {s},
                 !.got[s] = {d \in TradingDays : From(job.marks[s]) <= d /\ d <= today}]
    /\ UNCHANGED <<ohlc_1d, counts>> /\ Gold

FetchFails(s) ==
    /\ job # None /\ job.pc = "fetch" /\ s \in job.left
    /\ job' = [job EXCEPT !.left = @ \ {s}]
    /\ UNCHANGED <<ohlc_1d, counts>> /\ Gold

\* Without results there is nothing to write.
Fetched ==
    /\ job # None /\ job.pc = "fetch" /\ job.left = {}
    /\ LET found == {s \in Symbols : job.got[s] # {}}
       IN  job' = IF found = {} THEN None
                  ELSE [pc |-> "write", mode |-> job.mode, left |-> found,
                        wrote |-> FALSE, got |-> job.got]
    /\ UNCHANGED <<ohlc_1d, counts>> /\ Gold

Plus(table, chunk) ==
    [s \in Symbols |-> [d \in Days |->
        IF s \in chunk /\ d \in job.got[s] THEN Min({2, table[s][d] + 1}) ELSE table[s][d]]]

\* The first batch of an initial load replaces the table, and creates it; the
\* others are appended, which takes a table to append to.
WriteBatch ==
    /\ job # None /\ job.pc = "write"
    /\ \E chunk \in kSubset(Min({BatchSize, Cardinality(job.left)}), job.left) :
          /\ ohlc_1d' = IF job.mode = "init" /\ ~job.wrote THEN Plus(NoRows, chunk)
                       ELSE IF ohlc_1d # None THEN Plus(ohlc_1d, chunk)
                       ELSE None
          /\ job' = IF ohlc_1d' = None \/ chunk = job.left THEN None
                    ELSE [job EXCEPT !.left = @ \ chunk, !.wrote = TRUE]
    /\ UNCHANGED counts /\ Gold

JobDies ==
    /\ job # None /\ Count("faults", MaxFaults)
    /\ job' = None
    /\ UNCHANGED ohlc_1d /\ Gold

Backfill ==
    \/ StartDaily \/ StartWithoutMarks \/ StartInit
    \/ \E s \in Symbols : FetchAnswers(s) \/ FetchFails(s)
    \/ Fetched \/ WriteBatch \/ JobDies

-----------------------------------------------------------------------------
(* gold_daily_summary.py *)

Bronze == UNCHANGED <<today, ohlc_1d, job, movers, request>>

\* The bug: equal candles stay.
DeduplicatedNot(table) == table

\* row_number over (symbol, trade_date)
Deduplicated(table) == [s \in Symbols |-> [d \in Days |-> Min({1, table[s][d]})]]

\* lag("close", 1) over the days of the symbol; a candle's copy follows it.
Lag(days, d) ==
    LET before == {e \in days : e < d} IN IF before = {} THEN Never ELSE Max(before)

RowsOf(table, s, window) ==
    LET days == DaysOf(table, s) \cap window
    IN  {[sym |-> s, day |-> d, prev |-> Lag(days, d)] : d \in days}
        \cup {[sym |-> s, day |-> d, prev |-> d] : d \in {e \in days : table[s][e] = 2}}

\* Time of day decides whether the candle at the cutoff is read.
Windows(mode) ==
    IF mode = "full" THEN {Days}
    ELSE {{d \in Days : d >= today - (Window + 2)}, {d \in Days : d > today - (Window + 2)}}

Written(mode, row) == mode = "full" \/ row.day >= today - Window

\* Without a table, or with an empty one, the job ends.
ReadBronze(mode) ==
    /\ build = None /\ ohlc_1d # None
    /\ \E window \in Windows(mode) :
          LET rows == UNION {RowsOf(Deduplicated(ohlc_1d), s, window) : s \in Symbols}
          IN  build' = [mode |-> mode, rows |-> {row \in rows : Written(mode, row)}]
    /\ UNCHANGED <<gold, counts>> /\ Bronze

\* createOrReplace, or overwritePartitions, which takes a table to overwrite.
WriteGold ==
    /\ build # None
    /\ gold' = IF build.mode = "full" THEN build.rows
               ELSE IF gold = None THEN None
               ELSE {g \in gold : \A b \in build.rows : b.day # g.day} \cup build.rows
    /\ build' = None
    /\ UNCHANGED counts /\ Bronze

BuildDies ==
    /\ build # None /\ Count("faults", MaxFaults)
    /\ build' = None
    /\ UNCHANGED gold /\ Bronze

-----------------------------------------------------------------------------
(* routers/gold.py: /api/gold/top-movers without a date *)

Tables == UNCHANGED <<today, ohlc_1d, job, gold, build, counts>>

LatestDay == Max({g.day : g \in gold})

\* Unless the answer is cached, the gainers are queried, and then the losers.
QueryGainers ==
    /\ movers = None /\ request = None
    /\ gold # None /\ gold # {}
    /\ request' = LatestDay
    /\ UNCHANGED movers /\ Tables

\* The bug: the answer is cached without ex.
AnswerKept == [gainers |-> request, losers |-> LatestDay, expires |-> FALSE]

Answer == [gainers |-> request, losers |-> LatestDay, expires |-> TRUE]

QueryLosers ==
    /\ request # None
    /\ movers' = Answer
    /\ request' = None
    /\ Tables

Expire ==
    /\ movers # None /\ movers.expires
    /\ movers' = None
    /\ UNCHANGED request /\ Tables

\* Of each of these, one step at a time is possible.
Works == Fetched \/ WriteBatch \/ \E s \in Symbols : FetchAnswers(s) \/ FetchFails(s)
Serves == QueryGainers \/ QueryLosers \/ Expire

Next ==
    \/ Day \/ Backfill
    \/ (\E mode \in Modes : ReadBronze(mode)) \/ WriteGold \/ BuildDies
    \/ QueryGainers \/ QueryLosers \/ Expire

\* Airflow runs the jobs every day, and a run goes on; the chart API answers a
\* request in the end; clients ask again and again.
Fairness ==
    /\ WF_vars(StartDaily) /\ WF_vars(Works)
    /\ \A s \in Symbols : SF_vars(FetchAnswers(s))
    /\ WF_vars(WriteGold \/ \E mode \in Modes : ReadBronze(mode))
    /\ WF_vars(Serves)

Spec == Init /\ [][Next]_vars
FairSpec == Spec /\ Fairness

-----------------------------------------------------------------------------
(* Properties *)

Has(s, d) == ohlc_1d # None /\ ohlc_1d[s][d] > 0

\* The history of a symbol has no holes, however initial loads, daily runs with
\* and without marks and failures follow each other (backfill_1d.py).
NoHoles ==
    \A s \in Symbols : \A c, d \in TradingDays : c < d /\ Has(s, d) => Has(s, c)

\* prev_close is the close of the trading day before, although the summary is
\* built of whatever the backfill has written by then, candles twice included
\* (gold_daily_summary.py: "prev_close (LAG window)").
PrevIsPreviousDay ==
    gold # None => \A g \in gold : g.prev = Lag(TradingDays, g.day)

\* A symbol that an initial load left out, because its fetch failed or the load
\* died, comes back with a daily run: it has no mark, so all of it is fetched.
SymbolsComeBack ==
    \A s \in Symbols : ohlc_1d # None ~> \E d \in Days : Has(s, d)

\* A day that the table has is served in the end, through the summary and the
\* cache (routers/gold.py).
DayIsServed ==
    \A d \in TradingDays :
        (\E s \in Symbols : Has(s, d)) ~> (movers # None /\ movers.losers >= d)

\* backfill_1d.py: a daily run "only fetches candles newer than that timestamp".
DaysArrive ==
    \A s \in Symbols : \A d \in TradingDays :
        (ohlc_1d # None /\ today >= d) ~> Has(s, d)

\* routers/gold.py: "Top gainers + losers for a given date".
MoversOfOneDay == movers # None => movers.gainers = movers.losers

=============================================================================
