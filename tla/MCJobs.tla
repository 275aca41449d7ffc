------------------------------- MODULE MCJobs -------------------------------
(* The jobs of the candles of minutes and of those of days, for one run of   *)
(* TLC.  They share no table and no key, so that interleaving them adds no   *)
(* behaviour to either: an initial state chooses which ones move.            *)
EXTENDS MCLakehouse

CONSTANTS
    Absent,         \* None of Daily
    TradingDays, BatchSize, Modes, LastDay, MaxLoads, MaxFaults

\* The table of an earlier load, where there is one, has the first day.  Marks
\* of the table, taken for seconds, are beyond every day.
ASSUME JobsAssumption ==
    /\ LastDay \in Nat /\ LastDay < 1000
    /\ TradingDays \subseteq 1..LastDay /\ 1 \in TradingDays

VARIABLES
    part,
    today, ohlc_1d, job, gold, build, movers, request, counts       \* of Daily

daily == <<today, ohlc_1d, job, gold, build, movers, request, counts>>

D == INSTANCE Daily WITH Window <- 1, None <- Absent

JobsInit ==
    /\ part \in {"minutes", "days"}
    /\ Init /\ D!Init
    /\ part = "minutes" => ohlc_1d = Absent

JobsNext ==
    /\ \/ part = "minutes" /\ Next /\ UNCHANGED daily
       \/ part = "days" /\ D!Next /\ UNCHANGED vars
    /\ UNCHANGED part

\* FairSpec of Lakehouse and of Daily, where they move.
JobsSpec ==
    /\ JobsInit /\ [][JobsNext]_<<vars, daily, part>>
    /\ WF_vars(part = "minutes" /\ StartDaily)
    /\ WF_vars(part = "minutes" /\ Backfilling)
    /\ WF_vars(part = "minutes" /\ Deduplicating)
    /\ WF_daily(part = "days" /\ D!StartDaily)
    /\ WF_daily(part = "days" /\ D!Works)
    /\ \A s \in Symbols : SF_daily(part = "days" /\ D!FetchAnswers(s))
    /\ WF_daily(part = "days" /\ (D!WriteGold \/ \E mode \in Modes : D!ReadBronze(mode)))
    /\ WF_daily(part = "days" /\ D!Serves)

\* The properties of Daily of the same names (backfill_1d.py,
\* gold_daily_summary.py, routers/gold.py).
NoHoles == D!NoHoles
PrevIsPreviousDay == D!PrevIsPreviousDay
SymbolsComeBack == D!SymbolsComeBack
DayIsServed == D!DayIsServed

=============================================================================
