----------------------------- MODULE Jobs_proofs -----------------------------
(***************************************************************************)
(* Proofs about the jobs of the lakehouse.                                 *)
(*                                                                         *)
(* Module Lakehouse, the candles of minutes, for any symbols, batches of   *)
(* symbols, window, depth of the fallback source and number of events: the *)
(* types; that whatever a symbol misses before its last minute has a       *)
(* reason; and that a final bar stays.                                     *)
(*                                                                         *)
(* Module Daily, the candles of days, for any symbols, trading days, loads *)
(* and faults: that a history has no holes, and that a full summary has    *)
(* the trading day before.                                                 *)
(***************************************************************************)
EXTENDS MCJobs, WellFoundedInduction, TLAPS

LEMMA Bounds ==
    /\ Window \in Nat \ {0} /\ Depth \in Nat \ {0} /\ Intervals \in Nat \ {0}
    /\ LastTime \in Nat \ {0} /\ MaxEvents \in Nat
    /\ Chunks \in Seq(SUBSET Symbols)
BY LakehouseAssumption

-----------------------------------------------------------------------------
(* Tables *)

LEMMA InMinutes ==
    ASSUME NEW table, table.rows \subseteq Rows, NEW m
    PROVE  m \in MinutesOf(table) <=> \E rev \in Revs : <<m, rev>> \in table.rows
<1>1. \A r \in table.rows : r = <<r[1], r[2]>> /\ r[2] \in Revs
  BY DEF Rows
<1>2. QED
  BY <1>1 DEF MinutesOf

LEMMA InFinal ==
    ASSUME NEW table, table.rows \subseteq Rows, NEW m
    PROVE  m \in Final(table) <=> <<m, "final">> \in table.rows
<1>1. \A r \in table.rows : r = <<r[1], r[2]>>
  BY DEF Rows
<1>2. QED
  BY <1>1 DEF Final

\* A set of minutes that is not empty has a last one.
LEMMA LastOfTimes ==
    ASSUME NEW ts \in SUBSET Times, ts # {}
    PROVE  \E t \in ts : \A u \in ts : u <= t
<1> DEFINE R == OpToRel(<, Nat)
           T == {LastTime - t : t \in ts}
<1>1. T \subseteq Nat /\ T # {}
  <2>1. \A t \in ts : LastTime - t \in Nat
    BY Bounds DEF Times
  <2>2. QED
    BY <2>1
<1>2. IsWellFoundedOn(R, Nat)
  BY NatLessThanWellFounded
<1>3. PICK x \in T : \A y \in T : ~ (<<y, x>> \in R)
  <2> HIDE DEF R, T
  <2>1. QED
    BY <1>1, <1>2, WFMin
<1>4. PICK t \in ts : x = LastTime - t
  BY <1>3
<1>5. ASSUME NEW u \in ts
      PROVE  u <= t
  <2>1. LastTime - u \in T /\ LastTime - u \in Nat /\ x \in Nat
    BY <1>1, <1>3
  <2>2. ~ (<<LastTime - u, x>> \in R)
    BY <1>3, <2>1
  <2>3. ~ (LastTime - u < x)
    BY <2>1, <2>2 DEF OpToRel
  <2>4. QED
    BY <1>4, <2>3, Bounds DEF Times
<1>6. QED
  BY <1>5

\* What a mark says, without CHOOSE.
LEMMA MarkType ==
    ASSUME NEW table, NEW s
    PROVE  Mark(table, s) \in Times \cup {None}
<1> DEFINE ts == {t \in Times : <<s, t>> \in MinutesOf(table)}
<1>1. CASE ts = {}
  BY <1>1 DEF Mark
<1>2. CASE ts # {}
  <2>1. \E t \in ts : \A u \in ts : u <= t
    <3>1. ts \in SUBSET Times
      OBVIOUS
    <3>2. QED
      BY <1>2, <3>1, LastOfTimes
  <2>2. QED
    BY <1>2, <2>1 DEF Mark
<1>3. QED
  BY <1>1, <1>2

LEMMA BeforeMark ==
    ASSUME NEW table, NEW s, NEW t \in Times
    PROVE  t < Mark(table, s)
           <=> \E u \in Times : t < u /\ <<s, u>> \in MinutesOf(table)
<1> DEFINE ts == {u \in Times : <<s, u>> \in MinutesOf(table)}
<1>1. CASE ts = {}
  <2>1. Mark(table, s) = 0
    BY <1>1 DEF Mark, None
  <2>2. ~ (t < Mark(table, s))
    BY <2>1, Bounds DEF Times
  <2>3. QED
    BY <1>1, <2>2
<1>2. CASE ts # {}
  <2>1. \E v \in ts : \A u \in ts : u <= v
    <3>1. ts \in SUBSET Times
      OBVIOUS
    <3>2. QED
      BY <1>2, <3>1, LastOfTimes
  <2>2. Mark(table, s) \in ts /\ \A u \in ts : u <= Mark(table, s)
    BY <1>2, <2>1 DEF Mark
  <2>3. \A u \in ts : t < u => t < Mark(table, s)
    BY <2>2, Bounds DEF Times
  <2>4. QED
    BY <2>2, <2>3
<1>3. QED
  BY <1>1, <1>2

\* Every minute before one that the table has is there as a final bar, or
\* excused.
Complete(table) ==
    \A s \in Symbols, t, u \in Times :
        (t < u /\ <<s, u>> \in MinutesOf(table))
            => <<s, t>> \in Final(table) \cup excused

LEMMA GapsMeaning == GapsAreExcused <=> Complete(bronze)
BY BeforeMark DEF GapsAreExcused, Complete

LEMMA PlusFacts ==
    ASSUME NEW table \in Table, NEW rows \in SUBSET Rows
    PROVE  /\ Plus(table, rows) \in Table
           /\ Plus(table, rows).rows = table.rows \cup rows
           /\ Of(rows) \in Table
           /\ Of(rows).rows = rows
BY DEF Plus, Of, Table, Empty

\* A row of each minute stays, and the final one if there is one.
LEMMA BestFacts ==
    ASSUME NEW table \in Table
    PROVE  /\ Best(table) \in Table
           /\ Final(Best(table)) = Final(table)
           /\ MinutesOf(Best(table)) \subseteq MinutesOf(table)
<1> DEFINE best == {r \in table.rows : r[2] = "final" \/ r[1] \notin Final(table)}
<1>1. table.rows \subseteq Rows /\ best \in SUBSET Rows
  BY DEF Table
<1>2. Best(table) \in Table /\ Best(table).rows = best
  BY <1>1, PlusFacts DEF Best
<1>3. QED
  BY <1>2 DEF Final, MinutesOf

-----------------------------------------------------------------------------
(* Types *)

JobStates == {Idle, [pc |-> "reread"]} \cup Backfill \cup Holding \cup Aggregating

\* What a job is between two steps of its own.
LEMMA JobFacts ==
    ASSUME NEW own \in JobStates
    PROVE  /\ own.pc = "chunk" => own \in Backfill
           /\ own.pc = "replace" => own \in Holding
           /\ own.pc = "aggregate" => own \in Aggregating
BY DEF JobStates, Idle, Backfill, Holding, Aggregating

LEMMA GotoType ==
    ASSUME TypeOK, NEW j \in Job, NEW own \in JobStates, Goto(j, own)
    PROVE  /\ jobs' \in [Job -> JobStates]
           /\ jobs'[j] = own
           /\ \A k \in Job \ {j} : jobs'[k] = jobs[k]
BY DEF TypeOK, Goto, JobStates

LEMMA HappensType == ASSUME TypeOK, Happens PROVE events' \in 0..MaxEvents
BY Bounds DEF TypeOK, Happens

LEMMA StartType ==
    ASSUME TypeOK, NEW mode \in {"init", "daily"},
           NEW mark \in [Symbols -> Times \cup {None}], Start(mode, mark)
    PROVE  jobs' \in [Job -> JobStates]
<1> DEFINE own == [pc |-> "chunk", mode |-> mode, to |-> now, chunk |-> 1,
                   wrote |-> FALSE, mark |-> mark]
<1>1. own \in JobStates
  <2>1. 1 \in 1..(Len(Chunks) + 1) /\ now \in Times
    BY Bounds DEF TypeOK
  <2>2. own \in Backfill
    BY <2>1 DEF Backfill
  <2>3. QED
    BY <2>2 DEF JobStates
<1>2. Goto("backfill", own) /\ "backfill" \in Job
  BY DEF Start, Job
<1> HIDE DEF own
<1>3. QED
  BY <1>1, <1>2, GotoType

LEMMA MarksType ==
    /\ ReadMarks \in [Symbols -> Times \cup {None}]
    /\ NoMarks \in [Symbols -> Times \cup {None}]
BY MarkType DEF ReadMarks, NoMarks

\* The symbols of a batch, and the rows that come for them.
LEMMA FetchedType ==
    ASSUME TypeOK, NEW own, NEW s \in Symbols, NEW source
    PROVE  Fetched(own, s, source) \in SUBSET Rows
BY DEF Fetched, Between, Rows, Minutes, Revs

LEMMA PassedType ==
    ASSUME NEW s \in Symbols, NEW t
    PROVE  Passed(s, t) \in SUBSET Minutes
BY DEF Passed, Between, Minutes

LEMMA MinutesType ==
    ASSUME NEW rows \in SUBSET Rows
    PROVE  {r[1] : r \in rows} \in SUBSET Minutes
BY DEF Rows

LEMMA ChunkFacts ==
    ASSUME TypeOK, At("backfill", "chunk"), jobs["backfill"].chunk <= Len(Chunks)
    PROVE  /\ jobs["backfill"] \in Backfill
           /\ jobs["backfill"].chunk \in DOMAIN Chunks
           /\ Chunks[jobs["backfill"].chunk] \in SUBSET Symbols
<1>1. jobs["backfill"] \in Backfill
  BY JobFacts DEF TypeOK, At, Job, JobStates
<1>2. jobs["backfill"].chunk \in 1..(Len(Chunks) + 1)
  BY <1>1 DEF Backfill
<1>3. QED
  BY <1>1, <1>2, Bounds

\* The rows of a batch of symbols, and the table that they make.
ChunkRows(own, source) ==
    UNION {Fetched(own, s, source[s]) : s \in Chunks[own.chunk]}

ChunkTable(own, rows) ==
    IF rows = {} THEN bronze
    ELSE IF own.mode = "init" /\ ~own.wrote THEN Of(rows)
    ELSE Plus(bronze, rows)

ChunkJob(own, rows) == [own EXCEPT !.chunk = @ + 1, !.wrote = @ \/ rows # {}]

LEMMA WriteChunkSteps ==
    ASSUME WriteChunk
    PROVE  LET own == jobs["backfill"] IN
           /\ At("backfill", "chunk") /\ own.chunk <= Len(Chunks)
           /\ \E source \in [Chunks[own.chunk] -> {"vci", "dnse", "none"}] :
                 LET rows == ChunkRows(own, source)
                     new  == ChunkTable(own, rows)
                 IN  /\ UNCHANGED events \/ Happens
                     /\ bronze' = new
                     /\ Goto("backfill", ChunkJob(own, rows))
                     /\ excused' = excused \cup Dropped(new)
                                   \cup UNION {PassedOver(own, s, source[s]) :
                                                  s \in Chunks[own.chunk]}
           /\ UNCHANGED <<now, coarse, lastts>>
BY DEF WriteChunk, ChunkRows, ChunkTable, ChunkJob

LEMMA ChunkTypes ==
    ASSUME TypeOK, At("backfill", "chunk"), jobs["backfill"].chunk <= Len(Chunks),
           NEW source
    PROVE  LET own  == jobs["backfill"]
               rows == ChunkRows(own, source)
           IN  /\ rows \in SUBSET Rows
               /\ ChunkTable(own, rows) \in Table
               /\ ChunkJob(own, rows) \in Backfill
               /\ ChunkJob(own, rows).to = own.to
               /\ ChunkJob(own, rows).mark = own.mark
               /\ UNION {PassedOver(own, s, source[s]) : s \in Chunks[own.chunk]}
                     \in SUBSET Minutes
<1> DEFINE own == jobs["backfill"]
           rows == ChunkRows(own, source)
<1>1. /\ own \in Backfill /\ own.chunk \in DOMAIN Chunks
      /\ Chunks[own.chunk] \in SUBSET Symbols
  BY ChunkFacts
<1>2. rows \in SUBSET Rows
  BY <1>1, FetchedType DEF ChunkRows
<1>3. ChunkTable(own, rows) \in Table
  BY <1>2, PlusFacts DEF ChunkTable, TypeOK
<1>4. ChunkJob(own, rows) \in Backfill /\ ChunkJob(own, rows).to = own.to
      /\ ChunkJob(own, rows).mark = own.mark
  <2>1. own.chunk + 1 \in 1..(Len(Chunks) + 1)
    BY <1>1, Bounds
  <2>2. (own.wrote \/ rows # {}) \in BOOLEAN
    OBVIOUS
  <2> HIDE DEF rows
  <2>3. QED
    BY <1>1, <2>1, <2>2 DEF ChunkJob, Backfill
<1>5. \A s \in Chunks[own.chunk] : PassedOver(own, s, source[s]) \in SUBSET Minutes
  BY <1>1, PassedType DEF PassedOver
<1>6. QED
  BY <1>2, <1>3, <1>4, <1>5

LEMMA DroppedType ==
    ASSUME TypeOK, NEW new
    PROVE  Dropped(new) \in SUBSET Minutes
BY MinutesType DEF Dropped, TypeOK, Table

LEMMA WriteChunkType == ASSUME TypeOK, WriteChunk PROVE TypeOK'
<1> DEFINE own == jobs["backfill"]
<1>1. /\ At("backfill", "chunk") /\ own.chunk <= Len(Chunks)
      /\ UNCHANGED <<now, coarse, lastts>>
  BY WriteChunkSteps
<1>2. PICK source \in [Chunks[own.chunk] -> {"vci", "dnse", "none"}] :
          LET rows == ChunkRows(own, source)
              new  == ChunkTable(own, rows)
          IN  /\ UNCHANGED events \/ Happens
              /\ bronze' = new
              /\ Goto("backfill", ChunkJob(own, rows))
              /\ excused' = excused \cup Dropped(new)
                            \cup UNION {PassedOver(own, s, source[s]) :
                                           s \in Chunks[own.chunk]}
  BY WriteChunkSteps
<1> DEFINE rows == ChunkRows(own, source)
           new  == ChunkTable(own, rows)
           passed == UNION {PassedOver(own, s, source[s]) : s \in Chunks[own.chunk]}
<1>3. /\ new \in Table /\ ChunkJob(own, rows) \in Backfill
      /\ passed \in SUBSET Minutes
  BY <1>1, ChunkTypes
<1>4. Dropped(new) \in SUBSET Minutes
  BY DroppedType
<1>5. bronze' \in Table
  BY <1>2, <1>3
<1>6. jobs' \in [Job -> JobStates]
  BY <1>2, <1>3, GotoType DEF Job, JobStates
<1>7. excused' \in SUBSET Minutes
  BY <1>2, <1>3, <1>4 DEF TypeOK
<1>8. events' \in 0..MaxEvents
  BY <1>2, HappensType DEF TypeOK
<1>9. QED
  BY <1>1, <1>5, <1>6, <1>7, <1>8 DEF TypeOK, JobStates

LEMMA AggregateType ==
    ASSUME TypeOK, NEW j \in Job, Aggregate(j)
    PROVE  /\ coarse' \in [1..Intervals -> Table]
           /\ jobs' \in [Job -> JobStates]
<1> DEFINE own == jobs[j]
           next == IF own.next = Intervals THEN Idle ELSE [own EXCEPT !.next = @ + 1]
<1>1. own \in Aggregating
  BY JobFacts DEF TypeOK, Aggregate, At, JobStates
<1>2. coarse' \in [1..Intervals -> Table]
  BY <1>1 DEF Aggregate, Aggregating, TypeOK
<1>3. next \in JobStates
  <2>1. CASE own.next = Intervals
    BY <2>1 DEF JobStates
  <2>2. CASE own.next # Intervals
    <3>1. own.next + 1 \in 1..Intervals
      BY <1>1, <2>2, Bounds DEF Aggregating
    <3>2. [own EXCEPT !.next = @ + 1] \in Aggregating
      BY <1>1, <3>1 DEF Aggregating
    <3>3. QED
      BY <2>2, <3>2 DEF JobStates
  <2>3. QED
    BY <2>1, <2>2
<1>4. Goto(j, next)
  BY DEF Aggregate
<1> HIDE DEF next
<1>5. QED
  BY <1>2, <1>3, <1>4, GotoType

LEMMA StreamType ==
    ASSUME TypeOK, NEW s \in Symbols, NEW t \in Times, NEW rev \in Revs,
           StreamAppend(s, t, rev)
    PROVE  TypeOK'
<1>1. {<<<<s, t>>, rev>>} \in SUBSET Rows /\ <<s, t>> \in Minutes
  BY DEF Rows, Minutes
<1>2. bronze' \in Table
  BY <1>1, PlusFacts DEF StreamAppend, TypeOK
<1>3. lastts' \in [Symbols -> Times \cup {None}]
  BY DEF StreamAppend, TypeOK
<1>4. excused' \in SUBSET Minutes
  BY <1>1, PassedType DEF StreamAppend, TypeOK
<1>5. events' \in 0..MaxEvents
  BY HappensType DEF StreamAppend
<1>6. UNCHANGED <<now, coarse, jobs>>
  BY DEF StreamAppend
<1>7. QED
  BY <1>2, <1>3, <1>4, <1>5, <1>6 DEF TypeOK

LEMMA TypeStep == ASSUME TypeOK, [Next]_vars PROVE TypeOK'
<1>1. CASE Tick
  <2>1. now' \in Times
    BY <1>1, Bounds DEF Tick, TypeOK, Times
  <2>2. QED
    BY <1>1, <2>1 DEF Tick, TypeOK
<1>2. ASSUME NEW s \in Symbols, NEW t \in Times, NEW rev \in Revs, StreamAppend(s, t, rev)
      PROVE  TypeOK'
  BY <1>2, StreamType
<1>3. CASE StartDaily
  <2>1. jobs' \in [Job -> JobStates]
    BY <1>3, StartType, MarksType DEF StartDaily
  <2>2. QED
    BY <1>3, <2>1 DEF StartDaily, Start, TypeOK, JobStates
<1>4. CASE StartWithoutMarks
  <2>1. jobs' \in [Job -> JobStates]
    BY <1>4, StartType, MarksType DEF StartWithoutMarks
  <2>2. events' \in 0..MaxEvents
    BY <1>4, HappensType DEF StartWithoutMarks
  <2>3. QED
    BY <1>4, <2>1, <2>2 DEF StartWithoutMarks, Start, TypeOK, JobStates
<1>5. CASE StartInit
  <2>1. jobs' \in [Job -> JobStates]
    BY <1>5, StartType, MarksType DEF StartInit
  <2>2. events' \in 0..MaxEvents
    BY <1>5, HappensType DEF StartInit
  <2>3. QED
    BY <1>5, <2>1, <2>2 DEF StartInit, Start, TypeOK, JobStates
<1>6. CASE WriteChunk
  BY <1>6, WriteChunkType
<1>7. CASE NothingWritten
  <2>1. jobs' \in [Job -> JobStates]
    BY <1>7, GotoType DEF NothingWritten, Job, JobStates
  <2>2. QED
    BY <1>7, <2>1 DEF NothingWritten, TypeOK, JobStates
<1>8. ASSUME NEW j \in Job, ReadTable(j)
      PROVE  TypeOK'
  <2>1. [pc |-> "aggregate", rows |-> bronze, next |-> 1] \in JobStates
    BY Bounds DEF JobStates, Aggregating, TypeOK
  <2>2. jobs' \in [Job -> JobStates]
    BY <1>8, <2>1, GotoType DEF ReadTable
  <2>3. QED
    BY <1>8, <2>2 DEF ReadTable, TypeOK, JobStates
<1>9. ASSUME NEW j \in Job, Aggregate(j)
      PROVE  TypeOK'
  <2>1. /\ coarse' \in [1..Intervals -> Table]
        /\ jobs' \in [Job -> JobStates]
    BY <1>9, AggregateType
  <2>2. QED
    BY <1>9, <2>1 DEF Aggregate, TypeOK, JobStates
<1>10. CASE DedupRead
  <2>1. [pc |-> "replace", rows |-> bronze] \in JobStates
    BY DEF JobStates, Holding, TypeOK
  <2>2. jobs' \in [Job -> JobStates]
    BY <1>10, <2>1, GotoType DEF DedupRead, Job
  <2>3. events' \in 0..MaxEvents
    BY <1>10, HappensType DEF DedupRead
  <2>4. QED
    BY <1>10, <2>2, <2>3 DEF DedupRead, TypeOK, JobStates
<1>11. CASE DedupReplace
  <2>1. jobs["dedup"].rows \in Table
    BY <1>11, JobFacts DEF DedupReplace, At, TypeOK, Job, Holding, JobStates
  <2>2. bronze' \in Table
    BY <1>11, <2>1, BestFacts DEF DedupReplace
  <2>3. jobs' \in [Job -> JobStates]
    BY <1>11, GotoType DEF DedupReplace, Job, JobStates
  <2>4. {r[1] : r \in bronze.rows \ jobs["dedup"].rows.rows} \in SUBSET Minutes
    BY MinutesType DEF TypeOK, Table
  <2>5. excused' \in SUBSET Minutes
    BY <1>11, <2>4 DEF DedupReplace, TypeOK
  <2>6. QED
    BY <1>11, <2>2, <2>3, <2>5 DEF DedupReplace, TypeOK, JobStates
<1>12. ASSUME NEW j \in Job, JobFails(j)
       PROVE  TypeOK'
  <2>1. jobs' \in [Job -> JobStates]
    BY <1>12, GotoType DEF JobFails, JobStates
  <2>2. events' \in 0..MaxEvents
    BY <1>12, HappensType DEF JobFails
  <2>3. QED
    BY <1>12, <2>1, <2>2 DEF JobFails, TypeOK, JobStates
<1>13. CASE UNCHANGED vars
  BY <1>13 DEF vars, TypeOK
<1>14. QED
  BY <1>1, <1>2, <1>3, <1>4, <1>5, <1>6, <1>7, <1>8, <1>9, <1>10, <1>11, <1>12, <1>13
     DEF Next, Backfilling, Deduplicating, Job

LEMMA TypeInit == Init => TypeOK
BY Bounds DEF Init, TypeOK, Times, Table, Empty, Job, Idle

\* The tables have rows of the model, and the jobs are between two of their
\* steps, whatever fails.
THEOREM LakehouseTypeCorrect == Spec => []TypeOK
<1>1. QED
  BY TypeInit, TypeStep, PTL DEF Spec

-----------------------------------------------------------------------------
(* What is covered stays covered *)

Covered == Final(bronze) \cup excused

LEMMA PlusKeepsFinal ==
    ASSUME NEW table \in Table, NEW rows \in SUBSET Rows
    PROVE  Final(table) \subseteq Final(Plus(table, rows))
BY PlusFacts DEF Final

\* Either a row stays in the table, or its minute is excused.
LEMMA ReplacedIsDropped ==
    ASSUME TypeOK, NEW new \in Table
    PROVE  Final(bronze) \subseteq Final(new) \cup Dropped(new)
<1> SUFFICES ASSUME NEW m \in Final(bronze), m \notin Final(new)
             PROVE  m \in Dropped(new)
  OBVIOUS
<1>1. bronze.rows \subseteq Rows /\ new.rows \subseteq Rows
  BY DEF TypeOK, Table
<1>2. <<m, "final">> \in bronze.rows \ new.rows
  BY <1>1, InFinal
<1>3. <<m, "final">>[1] = m
  OBVIOUS
<1>4. QED
  BY <1>2, <1>3 DEF Dropped

LEMMA CoveredGrows ==
    ASSUME TypeOK, [Next]_vars
    PROVE  Covered \subseteq Covered'
<1>1. ASSUME NEW s \in Symbols, NEW t \in Times, NEW rev \in Revs, StreamAppend(s, t, rev)
      PROVE  Covered \subseteq Covered'
  <2>1. {<<<<s, t>>, rev>>} \in SUBSET Rows /\ bronze \in Table
    BY DEF Rows, Minutes, TypeOK
  <2>2. Final(bronze) \subseteq Final(bronze)'
    BY <1>1, <2>1, PlusKeepsFinal DEF StreamAppend, Final
  <2>3. QED
    BY <1>1, <2>2 DEF StreamAppend, Covered
<1>2. CASE WriteChunk
  <2> DEFINE own == jobs["backfill"]
  <2>1. At("backfill", "chunk") /\ own.chunk <= Len(Chunks)
    BY <1>2, WriteChunkSteps
  <2>2. PICK source \in [Chunks[own.chunk] -> {"vci", "dnse", "none"}] :
            /\ bronze' = ChunkTable(own, ChunkRows(own, source))
            /\ excused \cup Dropped(ChunkTable(own, ChunkRows(own, source)))
                  \subseteq excused'
    BY <1>2, WriteChunkSteps
  <2> DEFINE new == ChunkTable(own, ChunkRows(own, source))
  <2>3. new \in Table
    BY <2>1, ChunkTypes
  <2>4. Final(bronze) \subseteq Final(new) \cup Dropped(new)
    BY <2>3, ReplacedIsDropped
  <2>5. Final(new) = Final(bronze)'
    BY <2>2 DEF Final
  <2>6. QED
    BY <2>2, <2>4, <2>5 DEF Covered
<1>3. CASE DedupReplace
  <2> DEFINE read == jobs["dedup"].rows
  <2>1. read \in Table
    BY <1>3, JobFacts DEF DedupReplace, At, TypeOK, Job, Holding, JobStates
  <2>2. Final(bronze) \subseteq Final(read) \cup Dropped(read)
    BY <2>1, ReplacedIsDropped
  <2>3. Final(bronze)' = Final(read)
    BY <1>3, <2>1, BestFacts DEF DedupReplace, Final
  <2>4. excused' = excused \cup Dropped(read)
    BY <1>3 DEF DedupReplace, Dropped
  <2>5. QED
    BY <2>2, <2>3, <2>4 DEF Covered
<1>4. CASE UNCHANGED <<bronze, excused>>
  BY <1>4 DEF Covered, Final
<1>5. QED
  BY <1>1, <1>2, <1>3, <1>4
     DEF Next, Tick, StartDaily, StartWithoutMarks, StartInit, Start, Backfilling,
         NothingWritten, ReadTable, Aggregate, DedupRead, Deduplicating, JobFails, vars

\* A final bar, once there, stays unless the table is replaced by a job that
\* did not read it, whatever is interleaved and whatever dies (the volume order
\* of dedup_1m.py, the appends of backfill_1m.py and of the stream).
THEOREM FinalBarsStayCorrect == Spec => FinalBarsStay
<1>1. ASSUME TypeOK, [Next]_vars
      PROVE  [Final(bronze) \subseteq (Final(bronze) \cup excused)']_vars
  BY <1>1, CoveredGrows DEF Covered
<1>2. QED
  BY <1>1, LakehouseTypeCorrect, PTL DEF Spec, FinalBarsStay

-----------------------------------------------------------------------------
(* What a symbol misses has a reason *)

\* What a backfill asks from a mark on is covered before the mark.
MarksHold ==
    At("backfill", "chunk") =>
        /\ jobs["backfill"].to <= now
        /\ \A s \in Symbols, t \in Times :
               t < jobs["backfill"].mark[s] => <<s, t>> \in Covered

\* The table that replaces the one of now is as complete.
ReadIsComplete == At("dedup", "replace") => Complete(jobs["dedup"].rows)

GapsInv == TypeOK /\ Complete(bronze) /\ MarksHold /\ ReadIsComplete

\* The answer of a source, from its first minute to its last: final bars of
\* all minutes but the last, and what it passes over is excused.
LEMMA AnswerCovers ==
    ASSUME TypeOK, MarksHold,
           At("backfill", "chunk"), jobs["backfill"].chunk <= Len(Chunks),
           NEW s \in Symbols, NEW source \in {"vci", "dnse", "none"},
           NEW t \in Times, NEW u \in Times, t < u,
           NEW rev, <<<<s, u>>, rev>> \in Fetched(jobs["backfill"], s, source)
    PROVE  \/ <<s, t>> \in Covered \cup PassedOver(jobs["backfill"], s, source)
           \/ <<<<s, t>>, "final">> \in Fetched(jobs["backfill"], s, source)
<1> DEFINE own == jobs["backfill"]
           first == Answered(own, s, source)
<1>1. own \in Backfill /\ own.to <= now /\ own.to \in Int /\ now \in Int
  BY ChunkFacts DEF MarksHold, Backfill, Times, TypeOK
<1>2. source # "none" /\ u <= own.to
  BY DEF Fetched, Between
<1>3. first \in Int
  BY <1>1, Bounds DEF Answered, From, Backfill, Times, None
<1>4. CASE first <= t
  <2>1. t < now /\ t <= own.to
    BY <1>1, <1>2 DEF Times
  <2>2. <<s, t>> \in Between(s, first, own.to)
    BY <1>4, <2>1 DEF Between
  <2>3. QED
    BY <1>2, <2>1, <2>2 DEF Fetched
<1>5. CASE ~ (first <= t)
  <2>1. t < first /\ 1 <= t /\ t <= first - 1
    BY <1>3, <1>5 DEF Times
  <2>2. CASE own.mark[s] # None /\ first = own.mark[s]
    BY <2>1, <2>2 DEF MarksHold
  <2>3. CASE ~ (own.mark[s] # None /\ first = own.mark[s])
    <3>1. PassedOver(own, s, source) = Passed(s, first)
      BY <1>2, <2>3 DEF PassedOver
    <3>2. <<s, t>> \in Passed(s, first) \cup Final(bronze)
      BY <2>1 DEF Passed, Between
    <3>3. QED
      BY <3>1, <3>2 DEF Covered
  <2>4. QED
    BY <2>2, <2>3
<1>6. QED
  BY <1>4, <1>5

\* A row of a batch of symbols is of the answer for its symbol.
LEMMA RowOfAnswer ==
    ASSUME NEW own, NEW source, NEW s, NEW u, NEW rev,
           <<<<s, u>>, rev>> \in ChunkRows(own, source)
    PROVE  /\ s \in Chunks[own.chunk]
           /\ <<<<s, u>>, rev>> \in Fetched(own, s, source[s])
<1>1. PICK x \in Chunks[own.chunk] : <<<<s, u>>, rev>> \in Fetched(own, x, source[x])
  BY DEF ChunkRows
<1>2. <<s, u>> \in Between(x, Answered(own, x, source[x]), own.to)
  BY <1>1 DEF Fetched
<1>3. s = x
  BY <1>2 DEF Between
<1>4. QED
  BY <1>1, <1>3

LEMMA WriteChunkGaps ==
    ASSUME GapsInv, WriteChunk
    PROVE  Complete(bronze)'
<1> DEFINE own == jobs["backfill"]
<1> USE DEF GapsInv
<1>1. /\ At("backfill", "chunk") /\ own.chunk <= Len(Chunks)
  BY WriteChunkSteps
<1>2. PICK source \in [Chunks[own.chunk] -> {"vci", "dnse", "none"}] :
          LET rows == ChunkRows(own, source)
              new  == ChunkTable(own, rows)
          IN  /\ bronze' = new
              /\ excused' = excused \cup Dropped(new)
                            \cup UNION {PassedOver(own, s, source[s]) :
                                           s \in Chunks[own.chunk]}
  BY WriteChunkSteps
<1> DEFINE rows == ChunkRows(own, source)
           new  == ChunkTable(own, rows)
<1>3. /\ rows \in SUBSET Rows /\ new \in Table /\ new.rows \subseteq Rows
      /\ bronze \in Table /\ bronze.rows \subseteq Rows
  BY <1>1, ChunkTypes DEF TypeOK, Table
<1>4. Covered \subseteq Final(new) \cup excused'
  BY <1>2, <1>3, ReplacedIsDropped DEF Covered
<1>5. SUFFICES ASSUME NEW s \in Symbols, NEW t \in Times, NEW u \in Times, t < u,
                      <<s, u>> \in MinutesOf(new)
               PROVE  <<s, t>> \in Final(new) \cup excused'
  BY <1>2 DEF Complete, MinutesOf, Final
<1>6. PICK rev \in Revs : <<<<s, u>>, rev>> \in new.rows
  BY <1>3, <1>5, InMinutes
<1>7. CASE <<<<s, u>>, rev>> \in bronze.rows
  <2>1. <<s, u>> \in MinutesOf(bronze)
    BY <1>3, <1>7, InMinutes
  <2>2. <<s, t>> \in Covered
    BY <1>5, <2>1 DEF Complete, Covered
  <2>3. QED
    BY <1>4, <2>2
<1>8. CASE <<<<s, u>>, rev>> \notin bronze.rows
  <2>1. new # bronze /\ rows \subseteq new.rows /\ <<<<s, u>>, rev>> \in rows
    BY <1>3, <1>6, <1>8, PlusFacts DEF ChunkTable
  <2>2. s \in Chunks[own.chunk] /\ <<<<s, u>>, rev>> \in Fetched(own, s, source[s])
    BY <2>1, RowOfAnswer
  <2>3. \/ <<s, t>> \in Covered \cup PassedOver(own, s, source[s])
        \/ <<<<s, t>>, "final">> \in Fetched(own, s, source[s])
    BY <1>1, <1>2, <1>5, <2>2, AnswerCovers
  <2>4. CASE <<s, t>> \in Covered
    BY <1>4, <2>4
  <2>5. CASE <<s, t>> \in PassedOver(own, s, source[s])
    BY <1>2, <2>2, <2>5
  <2>6. CASE <<<<s, t>>, "final">> \in Fetched(own, s, source[s])
    <3>1. <<<<s, t>>, "final">> \in rows
      BY <2>2, <2>6 DEF ChunkRows
    <3>2. <<s, t>> \in Final(new)
      BY <1>3, <2>1, <3>1, InFinal
    <3>3. QED
      BY <3>2
  <2>7. QED
    BY <2>3, <2>4, <2>5, <2>6
<1>9. QED
  BY <1>7, <1>8

LEMMA StreamGaps ==
    ASSUME GapsInv, NEW x \in Symbols, NEW n \in Times, NEW rev \in Revs,
           StreamAppend(x, n, rev)
    PROVE  Complete(bronze)'
<1> USE DEF GapsInv
<1> DEFINE new == Plus(bronze, {<<<<x, n>>, rev>>})
<1>1. /\ bronze' = new /\ bronze \in Table /\ new \in Table
      /\ new.rows = bronze.rows \cup {<<<<x, n>>, rev>>}
      /\ bronze.rows \subseteq Rows /\ new.rows \subseteq Rows
  <2>1. {<<<<x, n>>, rev>>} \in SUBSET Rows
    BY DEF Rows, Minutes
  <2>2. QED
    BY <2>1, PlusFacts DEF StreamAppend, TypeOK, Table
<1>2. Covered \subseteq Covered'
  BY CoveredGrows DEF Next
<1>3. Passed(x, n) \subseteq excused'
  BY DEF StreamAppend
<1>4. SUFFICES ASSUME NEW s \in Symbols, NEW t \in Times, NEW u \in Times, t < u,
                      <<s, u>> \in MinutesOf(new)
               PROVE  <<s, t>> \in Covered'
  BY <1>1 DEF Complete, MinutesOf, Final, Covered
<1>5. CASE <<s, u>> \in MinutesOf(bronze)
  BY <1>2, <1>4, <1>5 DEF Complete, Covered
<1>6. CASE <<s, u>> \notin MinutesOf(bronze)
  <2>1. <<s, u>> = <<x, n>>
    BY <1>1, <1>4, <1>6, InMinutes
  <2>2. <<s, t>> \in Between(x, 1, n - 1)
    BY <1>4, <2>1 DEF Between, Times
  <2>3. <<s, t>> \in Passed(x, n) \cup Final(bronze)
    BY <2>2 DEF Passed
  <2>4. QED
    BY <1>2, <1>3, <2>3 DEF Covered
<1>7. QED
  BY <1>5, <1>6

LEMMA DedupGaps == ASSUME GapsInv, DedupReplace PROVE Complete(bronze)'
<1> DEFINE read == jobs["dedup"].rows
<1>1. read \in Table
  BY JobFacts DEF GapsInv, DedupReplace, At, TypeOK, Job, Holding, JobStates
<1>2. Complete(read)
  BY DEF GapsInv, ReadIsComplete, DedupReplace
<1>3. /\ bronze' = Best(read) /\ excused \subseteq excused'
  BY DEF DedupReplace
<1>4. /\ Final(Best(read)) = Final(read) /\ MinutesOf(Best(read)) \subseteq MinutesOf(read)
  BY <1>1, BestFacts
<1>5. \A s \in Symbols, t, u \in Times :
          (t < u /\ <<s, u>> \in MinutesOf(Best(read)))
              => <<s, t>> \in Final(Best(read)) \cup excused'
  BY <1>2, <1>3, <1>4 DEF Complete
<1>6. QED
  BY <1>3, <1>5 DEF Complete, MinutesOf, Final

\* A table that was complete stays so, as long as no minute loses its excuse.
LEMMA CompleteStays ==
    ASSUME NEW table, Complete(table), excused \subseteq excused'
    PROVE  \A s \in Symbols, t, u \in Times :
               (t < u /\ <<s, u>> \in MinutesOf(table))
                   => <<s, t>> \in Final(table) \cup excused'
BY DEF Complete

LEMMA ExcusedGrows == ASSUME TypeOK, [Next]_vars PROVE excused \subseteq excused'
<1>1. CASE WriteChunk
  <2>1. \E source \in [Chunks[jobs["backfill"].chunk] -> {"vci", "dnse", "none"}] :
            excused \subseteq excused'
    BY <1>1, WriteChunkSteps
  <2>2. QED
    BY <2>1
<1>2. CASE ~ WriteChunk
  BY <1>2 DEF Next, Tick, StreamAppend, StartDaily, StartWithoutMarks, StartInit, Start,
         Backfilling, NothingWritten, ReadTable, Aggregate, DedupRead, Deduplicating,
         DedupReplace, JobFails, vars
<1>3. QED
  BY <1>1, <1>2

LEMMA TableGaps == ASSUME GapsInv, [Next]_vars PROVE Complete(bronze)'
<1>1. ASSUME NEW s \in Symbols, NEW t \in Times, NEW rev \in Revs, StreamAppend(s, t, rev)
      PROVE  Complete(bronze)'
  BY <1>1, StreamGaps
<1>2. CASE WriteChunk
  BY <1>2, WriteChunkGaps
<1>3. CASE DedupReplace
  BY <1>3, DedupGaps
<1>4. CASE UNCHANGED <<bronze, excused>>
  BY <1>4 DEF GapsInv, Complete, MinutesOf, Final
<1>5. QED
  BY <1>1, <1>2, <1>3, <1>4
     DEF Next, Tick, StartDaily, StartWithoutMarks, StartInit, Start, Backfilling,
         NothingWritten, ReadTable, Aggregate, DedupRead, Deduplicating, JobFails, vars

\* A backfill keeps its marks, and starts with those of the table.
LEMMA StartMarks ==
    ASSUME GapsInv, [Next]_vars, NEW mode, NEW mark, Start(mode, mark),
           \A s \in Symbols, t \in Times : t < mark[s] => <<s, t>> \in Covered
    PROVE  MarksHold'
<1> USE DEF GapsInv
<1> DEFINE own == [pc |-> "chunk", mode |-> mode, to |-> now, chunk |-> 1,
                   wrote |-> FALSE, mark |-> mark]
<1>1. jobs'["backfill"] = own
  BY DEF Start, Goto, TypeOK, Job
<1>2. own.to = now /\ own.mark = mark /\ now <= now' /\ now \in Int
  BY DEF Start, TypeOK, Times
<1>3. Covered \subseteq Covered'
  BY CoveredGrows
<1>4. QED
  BY <1>1, <1>2, <1>3 DEF MarksHold

LEMMA TimePasses == ASSUME TypeOK, [Next]_vars PROVE now <= now'
<1>1. now \in Int
  BY DEF TypeOK, Times
<1>2. CASE Tick
  BY <1>1, <1>2 DEF Tick
<1>3. CASE WriteChunk
  BY <1>1, <1>3 DEF WriteChunk
<1>4. CASE UNCHANGED now
  BY <1>1, <1>4
<1>5. QED
  BY <1>2, <1>3, <1>4
     DEF Next, StreamAppend, StartDaily, StartWithoutMarks, StartInit, Start, Backfilling,
         NothingWritten, ReadTable, Aggregate, DedupRead, Deduplicating, DedupReplace,
         JobFails, vars

LEMMA MarksStep == ASSUME GapsInv, [Next]_vars PROVE MarksHold'
<1> USE DEF GapsInv
<1>1. Covered \subseteq Covered'
  BY CoveredGrows
<1>2. now <= now'
  BY TimePasses
<1>3. CASE StartDaily
  <2>1. \A s \in Symbols, t \in Times : t < ReadMarks[s] => <<s, t>> \in Covered
    BY BeforeMark DEF ReadMarks, Complete, Covered
  <2>2. QED
    BY <1>3, <2>1, StartMarks DEF StartDaily
<1>4. CASE StartWithoutMarks \/ StartInit
  <2>1. \A s \in Symbols, t \in Times : ~ (t < NoMarks[s])
    BY DEF NoMarks, None, Times
  <2>2. PICK mode \in {"daily", "init"} : Start(mode, NoMarks)
    BY <1>4 DEF StartWithoutMarks, StartInit
  <2>3. QED
    BY <2>1, <2>2, StartMarks
<1>5. CASE WriteChunk
  <2> DEFINE own == jobs["backfill"]
  <2>1. At("backfill", "chunk") /\ own.chunk <= Len(Chunks) /\ now' = now
    BY <1>5, WriteChunkSteps
  <2>2. PICK source : Goto("backfill", ChunkJob(own, ChunkRows(own, source)))
    BY <1>5, WriteChunkSteps
  <2> DEFINE next == ChunkJob(own, ChunkRows(own, source))
  <2>3. next.to = own.to /\ next.mark = own.mark
    BY <2>1, ChunkTypes
  <2>4. jobs'["backfill"] = next
    BY <2>2 DEF Goto, TypeOK, Job
  <2>5. own.to <= now /\ \A s \in Symbols, t \in Times : t < own.mark[s] => <<s, t>> \in Covered
    BY <2>1 DEF MarksHold
  <2> HIDE DEF next
  <2>6. QED
    BY <1>1, <2>1, <2>3, <2>4, <2>5 DEF MarksHold
<1>6. ASSUME jobs'["backfill"] = jobs["backfill"] \/ jobs'["backfill"].pc # "chunk"
      PROVE  MarksHold'
  <2>1. CASE jobs'["backfill"].pc # "chunk"
    BY <2>1 DEF MarksHold, At
  <2>2. CASE At("backfill", "chunk") /\ jobs'["backfill"] = jobs["backfill"]
    <3>1. jobs["backfill"] \in Backfill
      BY <2>2, JobFacts DEF TypeOK, At, Job, JobStates
    <3>2. jobs["backfill"].to <= now'
      BY <1>2, <2>2, <3>1, TypeStep DEF MarksHold, Backfill, TypeOK, Times
    <3>3. QED
      BY <1>1, <2>2, <3>2 DEF MarksHold, At
  <2>3. CASE ~ At("backfill", "chunk") /\ jobs'["backfill"] = jobs["backfill"]
    BY <2>3 DEF MarksHold, At
  <2>4. QED
    BY <1>6, <2>1, <2>2, <2>3
<1>7. CASE NothingWritten
  BY <1>6, <1>7 DEF NothingWritten, Goto, TypeOK, Job, Idle
<1>8. ASSUME NEW j \in Job, ReadTable(j)
      PROVE  MarksHold'
  BY <1>6, <1>8 DEF ReadTable, Goto, TypeOK, Job
<1>9. ASSUME NEW j \in Job, Aggregate(j)
      PROVE  MarksHold'
  <2>1. jobs[j] \in Aggregating
    BY <1>9, JobFacts DEF TypeOK, Aggregate, At, JobStates
  <2>2. jobs'["backfill"] = jobs["backfill"] \/ jobs'["backfill"].pc # "chunk"
    BY <1>9, <2>1 DEF Aggregate, Goto, TypeOK, Job, Idle, Aggregating
  <2>3. QED
    BY <1>6, <2>2
<1>10. ASSUME NEW j \in Job, JobFails(j)
       PROVE  MarksHold'
  BY <1>6, <1>10 DEF JobFails, Goto, TypeOK, Job, Idle
<1>11. CASE Tick \/ UNCHANGED vars
           \/ \E s \in Symbols, t \in Times, rev \in Revs : StreamAppend(s, t, rev)
  BY <1>6, <1>11 DEF Tick, StreamAppend, vars
<1>12. CASE DedupRead \/ DedupReplace
  BY <1>6, <1>12 DEF DedupRead, DedupReplace, Goto, TypeOK, Job
<1>13. QED
  BY <1>3, <1>4, <1>5, <1>7, <1>8, <1>9, <1>10, <1>11, <1>12
     DEF Next, Backfilling, Deduplicating, Job

LEMMA ReadStep == ASSUME GapsInv, [Next]_vars PROVE ReadIsComplete'
<1> USE DEF GapsInv
<1>1. excused \subseteq excused'
  BY ExcusedGrows
<1>2. CASE DedupRead
  <2>1. jobs'["dedup"] = [pc |-> "replace", rows |-> bronze] /\ UNCHANGED <<bronze, excused>>
    BY <1>2 DEF DedupRead, Goto, TypeOK, Job
  <2>2. QED
    BY <2>1 DEF ReadIsComplete, Complete
<1>3. CASE jobs'["dedup"].pc # "replace"
  BY <1>3 DEF ReadIsComplete, At
<1>4. CASE jobs'["dedup"] = jobs["dedup"]
  <2>1. CASE At("dedup", "replace")
    <3>1. Complete(jobs["dedup"].rows)
      BY <2>1 DEF ReadIsComplete
    <3>2. QED
      BY <1>1, <1>4, <3>1, CompleteStays DEF ReadIsComplete, Complete
  <2>2. CASE ~ At("dedup", "replace")
    BY <1>4, <2>2 DEF ReadIsComplete, At
  <2>3. QED
    BY <2>1, <2>2
<1>5. CASE DedupReplace
  BY <1>3, <1>5 DEF DedupReplace, Goto, TypeOK, Job
<1>6. ASSUME NEW j \in Job, ReadTable(j)
      PROVE  ReadIsComplete'
  BY <1>3, <1>4, <1>6 DEF ReadTable, Goto, TypeOK, Job
<1>7. ASSUME NEW j \in Job, Aggregate(j)
      PROVE  ReadIsComplete'
  <2>1. jobs[j] \in Aggregating
    BY <1>7, JobFacts DEF TypeOK, Aggregate, At, JobStates
  <2>2. jobs'["dedup"] = jobs["dedup"] \/ jobs'["dedup"].pc # "replace"
    BY <1>7, <2>1 DEF Aggregate, Goto, TypeOK, Job, Idle, Aggregating
  <2>3. QED
    BY <1>3, <1>4, <2>2
<1>8. ASSUME NEW j \in Job, JobFails(j)
      PROVE  ReadIsComplete'
  BY <1>3, <1>4, <1>8 DEF JobFails, Goto, TypeOK, Job, Idle
<1>9. CASE WriteChunk
  <2>1. PICK own : Goto("backfill", own)
    BY <1>9, WriteChunkSteps
  <2>2. QED
    BY <1>4, <2>1 DEF Goto, TypeOK, Job
<1>10. CASE NothingWritten \/ StartDaily \/ StartWithoutMarks \/ StartInit
  BY <1>4, <1>10 DEF NothingWritten, StartDaily, StartWithoutMarks, StartInit, Start, Goto,
         TypeOK, Job
<1>11. CASE Tick \/ UNCHANGED vars
           \/ \E s \in Symbols, t \in Times, rev \in Revs : StreamAppend(s, t, rev)
  BY <1>4, <1>11 DEF Tick, StreamAppend, vars
<1>12. QED
  BY <1>2, <1>5, <1>6, <1>7, <1>8, <1>9, <1>10, <1>11
     DEF Next, Backfilling, Deduplicating, Job

LEMMA GapsInit == Init => GapsInv
BY TypeInit DEF Init, GapsInv, Complete, MarksHold, ReadIsComplete, MinutesOf, Empty, At,
      Job, Idle

\* Whatever a symbol misses before its last minute, or has there as a live bar
\* only, has a reason other than a backfill from its marks, whichever symbols
\* fail and wherever the jobs die (the high-water mark of backfill_1m.py).
THEOREM GapsAreExcusedCorrect == Spec => []GapsAreExcused
<1>1. GapsInv /\ [Next]_vars => GapsInv'
  BY TypeStep, TableGaps, MarksStep, ReadStep DEF GapsInv
<1>2. GapsInv => GapsAreExcused
  BY GapsMeaning DEF GapsInv
<1>3. QED
  BY GapsInit, <1>1, <1>2, PTL DEF Spec


-----------------------------------------------------------------------------
(* Daily: the table of days *)


\* The candles of a symbol are those of the first trading days.
Prefix(S) ==
    /\ S \subseteq TradingDays
    /\ \A d \in S, c \in TradingDays : c < d => c \in S

GoodTable(table) ==
    /\ table \in D!Table
    /\ \A s \in Symbols : Prefix(D!DaysOf(table, s))

GoodJob(run) ==
    /\ run \in D!Fetching \cup D!Writing
    /\ \A s \in Symbols : Prefix(run.got[s])

DaysInv ==
    /\ today \in D!Days
    /\ ohlc_1d # Absent => GoodTable(ohlc_1d)
    /\ job # Absent => GoodJob(job)

\* What the summary is made of, and what is in it.
GoodRows(rows) == \A g \in rows : g.prev = D!Lag(TradingDays, g.day)

GoldInv ==
    /\ build # Absent => build.mode \in Modes /\ GoodRows(build.rows)
    /\ gold # Absent => GoodRows(gold)

LEMMA DayFacts ==
    /\ D!Days = 1..LastDay /\ LastDay \in Nat /\ TradingDays \subseteq D!Days
    /\ D!Days \subseteq Nat /\ 1 \in D!Days
    /\ \A d \in D!Days : d >= 1 /\ d <= LastDay /\ d < D!Milli
BY JobsAssumption DEF D!Days, D!Milli

LEMMA MinOfTwo ==
    ASSUME NEW a \in Nat, NEW b \in Nat
    PROVE  D!Min({a, b}) = IF a <= b THEN a ELSE b
<1>1. \A x \in {a, b} : (\A y \in {a, b} : x <= y) <=> x = IF a <= b THEN a ELSE b
  OBVIOUS
<1>2. QED
  BY <1>1 DEF D!Min


LEMMA Rounded ==
    ASSUME NEW n \in 0..2
    PROVE  /\ D!Min({2, n + 1}) \in 1..2
           /\ D!Min({1, n}) = IF n = 0 THEN 0 ELSE 1
<1>1. n + 1 \in Nat /\ n \in Nat
  OBVIOUS
<1>2. D!Min({2, n + 1}) = IF 2 <= n + 1 THEN 2 ELSE n + 1
  BY <1>1, MinOfTwo
<1>3. D!Min({1, n}) = IF 1 <= n THEN 1 ELSE n
  BY <1>1, MinOfTwo
<1>4. QED
  BY <1>2, <1>3

\* A set of days that is not empty has a last one.
LEMMA LastDayOf ==
    ASSUME NEW S \in SUBSET D!Days, S # {}
    PROVE  D!Max(S) \in S
<1> DEFINE R == OpToRel(<, Nat)
           T == {LastDay - d : d \in S}
<1>1. T \subseteq Nat /\ T # {}
  <2>1. \A d \in S : LastDay - d \in Nat
    BY DayFacts
  <2>2. QED
    BY <2>1
<1>2. IsWellFoundedOn(R, Nat)
  BY NatLessThanWellFounded
<1>3. PICK x \in T : \A y \in T : ~ (<<y, x>> \in R)
  <2> HIDE DEF R, T
  <2>1. QED
    BY <1>1, <1>2, WFMin
<1>4. PICK d \in S : x = LastDay - d
  BY <1>3
<1>5. ASSUME NEW e \in S
      PROVE  d >= e
  <2>1. LastDay - e \in T /\ LastDay - e \in Nat /\ x \in Nat
    BY <1>1, <1>3
  <2>2. ~ (<<LastDay - e, x>> \in R)
    BY <1>3, <2>1
  <2>3. ~ (LastDay - e < x)
    BY <2>1, <2>2 DEF OpToRel
  <2>4. QED
    BY <1>4, <2>1, <2>3, DayFacts
<1>6. QED
  BY <1>4, <1>5 DEF D!Max

LEMMA DaysInit == D!Init => DaysInv
<1> SUFFICES ASSUME D!Init PROVE DaysInv
  OBVIOUS
<1> DEFINE loaded == [s \in Symbols |-> [d \in D!Days |-> IF d = 1 THEN 1 ELSE 0]]
<1>1. today = 1 /\ job = Absent /\ ohlc_1d \in {Absent, loaded}
  BY DEF D!Init
<1>2. loaded \in D!Table
  BY DEF D!Table
<1>3. ASSUME NEW s \in Symbols
      PROVE  Prefix(D!DaysOf(loaded, s))
  <2>1. D!DaysOf(loaded, s) = {1}
    BY DayFacts DEF D!DaysOf
  <2>2. QED
    BY <2>1, DayFacts, JobsAssumption DEF Prefix
<1>4. QED
  BY <1>1, <1>2, <1>3, DayFacts DEF DaysInv, GoodTable

\* A run that starts has fetched nothing.
LEMMA StartDays ==
    ASSUME DaysInv, NEW mode \in {"init", "daily"},
           NEW marks \in [Symbols -> {0} \cup {d * D!Milli : d \in D!Days}],
           D!Start(mode, marks)
    PROVE  DaysInv'
<1> DEFINE run == [pc |-> "fetch", mode |-> mode, left |-> Symbols, marks |-> marks,
                   got |-> [s \in Symbols |-> {}]]
<1>1. job' = run /\ UNCHANGED <<today, ohlc_1d>>
  BY DEF D!Start, D!Gold
<1>2. run \in D!Fetching
  BY DEF D!Fetching, D!Never
<1>3. \A s \in Symbols : run.got[s] = {}
  OBVIOUS
<1>4. GoodJob(run)
  BY <1>2, <1>3 DEF GoodJob, Prefix
<1>5. QED
  BY <1>1, <1>4 DEF DaysInv

LEMMA DailyMarksType ==
    /\ D!NoMarks \in [Symbols -> {0} \cup {d * D!Milli : d \in D!Days}]
    /\ DaysInv /\ ohlc_1d # Absent
         => D!Marks \in [Symbols -> {0} \cup {d * D!Milli : d \in D!Days}]
<1>1. D!NoMarks \in [Symbols -> {0} \cup {d * D!Milli : d \in D!Days}]
  BY DEF D!NoMarks, D!Never
<1>2. ASSUME DaysInv, ohlc_1d # Absent, NEW s \in Symbols, D!DaysOf(ohlc_1d, s) # {}
      PROVE  D!Max(D!DaysOf(ohlc_1d, s)) \in D!Days
  <2>1. D!DaysOf(ohlc_1d, s) \subseteq D!Days
    BY DEF D!DaysOf
  <2>2. QED
    BY <1>2, <2>1, LastDayOf
<1>3. QED
  BY <1>1, <1>2 DEF D!Marks, D!Never

LEMMA FetchAnswersDays ==
    ASSUME DaysInv, NEW s \in Symbols, D!FetchAnswers(s)
    PROVE  DaysInv'
<1> DEFINE days == {d \in TradingDays : D!From(job.marks[s]) <= d /\ d <= today}
           run == [job EXCEPT !.left = @ \ {s}, !.got[s] = days]
<1>1. job # Absent /\ job.pc = "fetch" /\ GoodJob(job) /\ job' = run
      /\ UNCHANGED <<today, ohlc_1d>>
  BY DEF D!FetchAnswers, D!Gold, DaysInv
<1>2. job \in D!Fetching
  BY <1>1 DEF GoodJob, D!Writing
<1>3. Prefix(days)
  <2>1. job.marks[s] = 0 \/ \E d \in D!Days : job.marks[s] = d * D!Milli
    BY <1>2 DEF D!Fetching, D!Never
  <2>2. CASE job.marks[s] = 0
    BY <2>2, DayFacts DEF D!From, D!Never, Prefix, DaysInv
  <2>3. ASSUME NEW d \in D!Days, job.marks[s] = d * D!Milli
        PROVE  days = {}
    <3>1. D!From(job.marks[s]) = d * D!Milli /\ d * D!Milli >= D!Milli
      BY <2>3, DayFacts DEF D!From, D!Never, D!Milli
    <3>2. \A c \in TradingDays : c < D!Milli /\ c \in Nat
      BY DayFacts
    <3>3. D!Milli \in Nat /\ d * D!Milli \in Nat
      BY DayFacts DEF D!Milli
    <3>4. QED
      BY <3>1, <3>2, <3>3
  <2>4. QED
    BY <2>1, <2>2, <2>3 DEF Prefix
<1>4. run \in D!Fetching /\ run.got = [job.got EXCEPT ![s] = days]
  <2>1. days \in SUBSET D!Days
    BY DayFacts
  <2> HIDE DEF days
  <2>2. [job.got EXCEPT ![s] = days] \in [Symbols -> SUBSET D!Days]
    BY <1>2, <2>1 DEF D!Fetching
  <2>3. QED
    BY <1>2, <2>2 DEF D!Fetching
<1> HIDE DEF days, run
<1>5. GoodJob(run)
  BY <1>1, <1>2, <1>3, <1>4 DEF GoodJob, D!Fetching
<1>6. QED
  BY <1>1, <1>5 DEF DaysInv

LEMMA FetchFailsDays ==
    ASSUME DaysInv, NEW s \in Symbols, D!FetchFails(s)
    PROVE  DaysInv'
<1>1. job # Absent /\ job.pc = "fetch" /\ GoodJob(job)
      /\ job' = [job EXCEPT !.left = @ \ {s}] /\ UNCHANGED <<today, ohlc_1d>>
  BY DEF D!FetchFails, D!Gold, DaysInv
<1>2. job \in D!Fetching
  BY <1>1 DEF GoodJob, D!Writing
<1>3. job' \in D!Fetching /\ job'.got = job.got
  BY <1>1, <1>2 DEF D!Fetching
<1>4. QED
  BY <1>1, <1>3 DEF DaysInv, GoodJob

LEMMA FetchedDays ==
    ASSUME DaysInv, D!Fetched
    PROVE  DaysInv'
<1> DEFINE found == {s \in Symbols : job.got[s] # {}}
           run == [pc |-> "write", mode |-> job.mode, left |-> found,
                   wrote |-> FALSE, got |-> job.got]
<1>1. job # Absent /\ job.pc = "fetch" /\ GoodJob(job)
      /\ job' \in {Absent, run} /\ UNCHANGED <<today, ohlc_1d>>
  BY DEF D!Fetched, D!Gold, DaysInv
<1>2. job \in D!Fetching
  BY <1>1 DEF GoodJob, D!Writing
<1>3. run \in D!Writing /\ run.got = job.got
  BY <1>2 DEF D!Fetching, D!Writing
<1> HIDE DEF run
<1>4. GoodJob(run)
  BY <1>1, <1>3 DEF GoodJob
<1>5. QED
  BY <1>1, <1>4 DEF DaysInv

\* What a batch appends joins the first days of each symbol to first days.
LEMMA PlusGood ==
    ASSUME DaysInv, job # Absent, NEW table \in D!Table, NEW chunk,
           \A s \in Symbols : Prefix(D!DaysOf(table, s))
    PROVE  GoodTable(D!Plus(table, chunk))
<1> DEFINE new == D!Plus(table, chunk)
<1>1. GoodJob(job)
  BY DEF DaysInv
<1>2. \A s \in Symbols : job.got[s] \subseteq D!Days
  BY <1>1 DEF GoodJob, D!Fetching, D!Writing
<1>3. \A s \in Symbols, d \in D!Days : table[s][d] \in 0..2
  BY DEF D!Table
<1>4. new = [s \in Symbols |-> [d \in D!Days |->
                IF s \in chunk /\ d \in job.got[s] THEN D!Min({2, table[s][d] + 1})
                ELSE table[s][d]]]
  BY DEF D!Plus
<1>5. \A s \in Symbols, d \in D!Days :
          /\ new[s][d] = IF s \in chunk /\ d \in job.got[s]
                         THEN D!Min({2, table[s][d] + 1}) ELSE table[s][d]
          /\ D!Min({2, table[s][d] + 1}) \in 1..2
  BY <1>3, <1>4, Rounded
<1>6. new \in D!Table
  <2>1. ASSUME NEW s \in Symbols, NEW d \in D!Days
        PROVE  new[s][d] \in 0..2
    <3> HIDE DEF new
    <3>1. D!Min({2, table[s][d] + 1}) \in 0..2
      BY <1>5
    <3>2. QED
      BY <1>3, <1>5, <3>1
  <2>2. \A s \in Symbols : new[s] = [d \in D!Days |-> new[s][d]]
    BY <1>4
  <2>3. new = [s \in Symbols |-> new[s]]
    BY <1>4
  <2> HIDE DEF new
  <2>4. \A s \in Symbols : new[s] \in [D!Days -> 0..2]
    BY <2>1, <2>2
  <2>5. QED
    BY <2>3, <2>4 DEF D!Table
<1>7. ASSUME NEW s \in Symbols
      PROVE  Prefix(D!DaysOf(new, s))
  <2> HIDE DEF new
  <2>1. ASSUME NEW d \in D!Days
        PROVE  new[s][d] > 0 <=> table[s][d] > 0 \/ (s \in chunk /\ d \in job.got[s])
    <3>1. D!Min({2, table[s][d] + 1}) > 0
      BY <1>5
    <3>2. QED
      BY <1>5, <3>1
  <2>2. D!DaysOf(new, s) = D!DaysOf(table, s) \/
        D!DaysOf(new, s) = D!DaysOf(table, s) \cup job.got[s]
    BY <1>2, <2>1 DEF D!DaysOf
  <2>3. Prefix(D!DaysOf(table, s)) /\ Prefix(job.got[s])
    BY <1>1 DEF GoodJob
  <2>4. QED
    BY <2>2, <2>3 DEF Prefix
<1>8. QED
  BY <1>6, <1>7 DEF GoodTable

LEMMA WriteBatchDays ==
    ASSUME DaysInv, D!WriteBatch
    PROVE  DaysInv'
<1>1. job # Absent /\ job.pc = "write" /\ GoodJob(job) /\ UNCHANGED today
  BY DEF D!WriteBatch, D!Gold, DaysInv
<1>2. PICK chunk :
        /\ ohlc_1d' = IF job.mode = "init" /\ ~job.wrote THEN D!Plus(D!NoRows, chunk)
                      ELSE IF ohlc_1d # Absent THEN D!Plus(ohlc_1d, chunk)
                      ELSE Absent
        /\ job' \in {Absent, [job EXCEPT !.left = @ \ chunk, !.wrote = TRUE]}
  BY DEF D!WriteBatch
<1>3. job \in D!Writing
  BY <1>1 DEF GoodJob, D!Fetching
<1>4. /\ [job EXCEPT !.left = @ \ chunk, !.wrote = TRUE] \in D!Writing
      /\ [job EXCEPT !.left = @ \ chunk, !.wrote = TRUE].got = job.got
  BY <1>3 DEF D!Writing
<1>5. job' # Absent => GoodJob(job')
  BY <1>1, <1>2, <1>4 DEF GoodJob
<1>6. D!NoRows \in D!Table /\ \A s \in Symbols : D!DaysOf(D!NoRows, s) = {}
  BY DEF D!NoRows, D!Table, D!DaysOf
<1>7. GoodTable(D!Plus(D!NoRows, chunk))
  BY <1>1, <1>6, PlusGood DEF Prefix
<1>8. ohlc_1d # Absent => GoodTable(D!Plus(ohlc_1d, chunk))
  BY <1>1, PlusGood DEF DaysInv, GoodTable
<1>9. ohlc_1d' # Absent => GoodTable(ohlc_1d')
  BY <1>2, <1>7, <1>8
<1>10. QED
  BY <1>1, <1>5, <1>9 DEF DaysInv

LEMMA DaysStep ==
    ASSUME DaysInv, [D!Next]_daily
    PROVE  DaysInv'
<1>1. CASE D!Day
  <2>1. today' \in D!Days /\ UNCHANGED <<ohlc_1d, job>>
    BY <1>1, DayFacts DEF D!Day, DaysInv
  <2>2. QED
    BY <2>1 DEF DaysInv
<1>2. CASE D!StartDaily
  BY <1>2, DailyMarksType, StartDays DEF D!StartDaily
<1>3. CASE D!StartWithoutMarks
  BY <1>3, DailyMarksType, StartDays DEF D!StartWithoutMarks
<1>4. CASE D!StartInit
  BY <1>4, DailyMarksType, StartDays DEF D!StartInit
<1>5. CASE \E s \in Symbols : D!FetchAnswers(s) \/ D!FetchFails(s)
  BY <1>5, FetchAnswersDays, FetchFailsDays
<1>6. CASE D!Fetched \/ D!WriteBatch
  BY <1>6, FetchedDays, WriteBatchDays
<1>7. CASE D!JobDies
  BY <1>7 DEF D!JobDies, D!Gold, DaysInv
<1>8. CASE UNCHANGED <<today, ohlc_1d, job>>
  BY <1>8 DEF DaysInv
<1>9. QED
  BY <1>1, <1>2, <1>3, <1>4, <1>5, <1>6, <1>7, <1>8
     DEF D!Next, D!Backfill, D!ReadBronze, D!WriteGold, D!BuildDies, D!QueryGainers,
         D!QueryLosers, D!Expire, D!Bronze, D!Tables, daily

\* However initial loads, daily runs and failures follow each other, the
\* history of a symbol has no holes (backfill_1d.py).
THEOREM NoHolesCorrect == D!Spec => []NoHoles
<1>1. DaysInv => NoHoles
  <2>1. SUFFICES ASSUME DaysInv, NEW s \in Symbols, NEW c \in TradingDays,
                        NEW d \in TradingDays, c < d, D!Has(s, d)
                 PROVE  D!Has(s, c)
    BY DEF NoHoles, D!NoHoles
  <2>2. d \in D!DaysOf(ohlc_1d, s) /\ Prefix(D!DaysOf(ohlc_1d, s)) /\ ohlc_1d # Absent
    BY <2>1, DayFacts DEF D!Has, D!DaysOf, DaysInv, GoodTable
  <2>3. c \in D!DaysOf(ohlc_1d, s)
    BY <2>1, <2>2 DEF Prefix
  <2>4. QED
    BY <2>2, <2>3 DEF D!Has, D!DaysOf
<1>2. DaysInv /\ [D!Next]_daily => DaysInv'
  BY DaysStep
<1>3. QED
  BY <1>1, <1>2, DaysInit, PTL DEF D!Spec, D!vars, daily

-----------------------------------------------------------------------------

\* Of the first trading days, the day before one is the trading day before it.
LEMMA LagOfPrefix ==
    ASSUME NEW S, Prefix(S), NEW d \in S
    PROVE  D!Lag(S, d) = D!Lag(TradingDays, d)
<1>1. {e \in S : e < d} = {e \in TradingDays : e < d}
  BY DEF Prefix
<1>2. QED
  BY <1>1 DEF D!Lag

LEMMA ReadBronzeGold ==
    ASSUME Modes = {"full"}, DaysInv, GoldInv, NEW mode \in Modes, D!ReadBronze(mode)
    PROVE  GoldInv'
<1> DEFINE table == D!Deduplicated(ohlc_1d)
           rows == UNION {D!RowsOf(table, s, D!Days) : s \in Symbols}
<1>1. /\ ohlc_1d # Absent /\ GoodTable(ohlc_1d) /\ UNCHANGED gold
      /\ build' = [mode |-> mode, rows |-> {row \in rows : D!Written(mode, row)}]
  BY DEF D!ReadBronze, D!Windows, DaysInv
<1>2. \A s \in Symbols, d \in D!Days : ohlc_1d[s][d] \in 0..2
  BY <1>1 DEF GoodTable, D!Table
<1>3. \A s \in Symbols, d \in D!Days :
          table[s][d] = IF ohlc_1d[s][d] = 0 THEN 0 ELSE 1
  BY <1>2, Rounded DEF D!Deduplicated
<1> HIDE DEF table
<1>4. ASSUME NEW s \in Symbols, NEW g \in D!RowsOf(table, s, D!Days)
      PROVE  g.prev = D!Lag(TradingDays, g.day)
  <2>1. D!DaysOf(table, s) = D!DaysOf(ohlc_1d, s)
    BY <1>2, <1>3 DEF D!DaysOf
  <2>2. D!DaysOf(table, s) \cap D!Days = D!DaysOf(table, s)
    BY DEF D!DaysOf
  <2>3. \A e \in D!DaysOf(table, s) : table[s][e] # 2
    BY <1>3 DEF D!DaysOf
  <2>4. PICK d \in D!DaysOf(table, s) :
          g = [sym |-> s, day |-> d, prev |-> D!Lag(D!DaysOf(table, s), d)]
    BY <2>2, <2>3 DEF D!RowsOf
  <2>5. Prefix(D!DaysOf(table, s))
    BY <1>1, <2>1 DEF GoodTable
  <2>6. QED
    BY <2>4, <2>5, LagOfPrefix
<1>5. GoodRows(build'.rows) /\ build'.mode = mode
  BY <1>1, <1>4 DEF GoodRows
<1>6. QED
  BY <1>1, <1>5 DEF GoldInv

LEMMA GoldStep ==
    ASSUME Modes = {"full"}, DaysInv, GoldInv, [D!Next]_daily
    PROVE  GoldInv'
<1>1. CASE \E mode \in Modes : D!ReadBronze(mode)
  BY <1>1, ReadBronzeGold
<1>2. CASE D!WriteGold
  BY <1>2 DEF D!WriteGold, GoldInv
<1>3. CASE D!BuildDies
  BY <1>3 DEF D!BuildDies, GoldInv
<1>4. CASE UNCHANGED <<build, gold>>
  BY <1>4 DEF GoldInv
<1>5. QED
  BY <1>1, <1>2, <1>3, <1>4
     DEF D!Next, D!Day, D!Backfill, D!StartDaily, D!StartWithoutMarks, D!StartInit,
         D!Start, D!FetchAnswers, D!FetchFails, D!Fetched, D!WriteBatch, D!JobDies,
         D!QueryGainers, D!QueryLosers, D!Expire, D!Gold, D!Tables, daily

\* Whatever the table has by the time a full summary is built, candles twice
\* included, prev_close is the close of the trading day before
\* (gold_daily_summary.py).
THEOREM PrevIsPreviousDayCorrect ==
    ASSUME Modes = {"full"}
    PROVE  D!Spec => []PrevIsPreviousDay
<1>1. D!Init => GoldInv
  BY DEF D!Init, GoldInv
<1>2. GoldInv => PrevIsPreviousDay
  BY DEF GoldInv, GoodRows, PrevIsPreviousDay, D!PrevIsPreviousDay
<1>3. DaysInv /\ GoldInv /\ [D!Next]_daily => DaysInv' /\ GoldInv'
  BY DaysStep, GoldStep
<1>4. QED
  BY <1>1, <1>2, <1>3, DaysInit, PTL DEF D!Spec, D!vars, daily

=============================================================================
