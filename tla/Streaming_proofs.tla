-------------------------- MODULE Streaming_proofs --------------------------
(***************************************************************************)
(* Proofs about module Streaming, for every set of symbols, length of the  *)
(* topic and number of faults: the types; that the hash last_ts tracks     *)
(* stored minutes only; and that the job implements the promise of module  *)
(* BronzeTable.                                                            *)
(***************************************************************************)
EXTENDS Streaming, FiniteSetTheorems, TLAPS

TopicRows == {topic[i] : i \in DOMAIN topic}

-----------------------------------------------------------------------------
(* The types *)

LEMMA BoundFacts ==
    /\ LastTime \in Nat \ {0} /\ Final \in Nat \ {0} /\ MaxRecords \in Nat
    /\ MaxFaults \in [FaultKind -> Nat] /\ None \notin Rows
    /\ \A r \in Rows : r.sym \in Symbols /\ r.time \in Nat /\ r.time > 0
BY StreamingAssumption DEF Rows, Times

LEMMA FaultType ==
    ASSUME TypeOK, NEW k \in FaultKind, Fault(k)
    PROVE  faults' \in [FaultKind -> Nat]
BY DEF TypeOK, Fault

\* The batch is a set of records of the topic.
LEMMA BatchRows ==
    ASSUME TypeOK
    PROVE  Batch \subseteq TopicRows /\ TopicRows \subseteq Rows
<1>1. /\ topic \in Seq(Rows) /\ Len(topic) \in Nat
      /\ planned \in Nat /\ planned <= Len(topic) /\ committed \in Nat
      /\ DOMAIN topic = 1..Len(topic)
  BY DEF TypeOK
<1>2. \A i \in (committed + 1)..planned : i \in DOMAIN topic
  BY <1>1
<1>3. \A i \in DOMAIN topic : topic[i] \in Rows
  BY <1>1
<1>4. QED
  BY <1>2, <1>3 DEF Batch, BatchRange, TopicRows

LEMMA TrackedType ==
    ASSUME TypeOK, NEW rows \in SUBSET Rows, NEW f \in LastRows(rows)
    PROVE  Tracked(f) \in [Symbols -> Nat] /\ Ticks(f) \in [Symbols -> Rows \cup {None}]
<1>1. \A s \in DOMAIN f : f[s] \in Rows
  BY DEF LastRows
<1>2. \A s \in DOMAIN f : f[s].time \in Nat
  BY <1>1, BoundFacts
<1>3. QED
  BY <1>1, <1>2 DEF Tracked, Ticks, TypeOK

\* A record more on the topic.
LEMMA PublishType ==
    ASSUME TypeOK, NEW r \in Rows, topic' = Append(topic, r),
           UNCHANGED <<planned, committed>>
    PROVE  /\ topic' \in Seq(Rows)
           /\ planned' \in 0..Len(topic') /\ committed' \in 0..planned'
           /\ Len(topic') = Len(topic) + 1
           /\ \A i \in 1..Len(topic) : topic'[i] = topic[i]
           /\ topic'[Len(topic) + 1] = r
BY DEF TypeOK

\* What write_batch leaves of its local variables has their type.
LEMMA JobTypes ==
    /\ Idle \in Jobs
    /\ \A pc \in {"ticks", "done", "dead"} : [Idle EXCEPT !.pc = pc] \in Jobs
    /\ \A rows \in SUBSET Rows, b \in BOOLEAN :
          [pc |-> "append", rows |-> rows, tracked |-> b] \in Jobs
    /\ \A j \in Jobs : [j EXCEPT !.pc = "track"] \in Jobs
BY DEF Idle, Jobs

LEMMA TypeInit == Init => TypeOK
<1> SUFFICES ASSUME Init PROVE TypeOK
  OBVIOUS
<1>1. <<>> \in Seq(Rows) /\ Len(<<>>) = 0
  OBVIOUS
<1>2. topic \in Seq(Rows) /\ planned \in 0..Len(topic) /\ committed \in 0..planned
  BY <1>1 DEF Init
<1>3. job \in Jobs
  BY JobTypes DEF Init
<1>4. tick \in [Symbols -> Rows \cup {None}]
  BY DEF Init
<1>5. bronze \in [Rows -> Nat] /\ lastts \in [Symbols -> Nat] /\ faults \in [FaultKind -> Nat]
  BY DEF Init
<1>6. QED
  BY <1>2, <1>3, <1>4, <1>5 DEF TypeOK, Init

LEMMA TypeStep == TypeOK /\ [Next]_vars => TypeOK'
<1> SUFFICES ASSUME TypeOK, [Next]_vars PROVE TypeOK'
  OBVIOUS
<1>1. CASE PublishLive
  BY <1>1, PublishType DEF PublishLive, TypeOK
<1>2. CASE PublishFinal
  BY <1>2, PublishType DEF PublishFinal, TypeOK
<1>3. CASE PlanBatch
  <2>1. planned' \in 0..Len(topic) /\ committed \in 0..planned'
    BY <1>3 DEF PlanBatch, TypeOK
  <2>2. unsaved' \subseteq 1..planned'
    BY <1>3, <2>1 DEF PlanBatch, TypeOK
  <2>3. QED
    BY <1>3, <2>1, <2>2 DEF PlanBatch, TypeOK
<1>4. CASE CommitBatch
  BY JobTypes, <1>4 DEF CommitBatch, TypeOK
<1>5. CASE Crash
  BY JobTypes, <1>5, FaultType DEF Crash, Leave, TypeOK, FaultKind
<1>6. CASE Restart
  BY JobTypes, <1>6 DEF Restart, TypeOK
<1>7. \A rows \in Dedups(Batch) : rows \subseteq Rows /\ NewRows(rows) \subseteq Rows
  BY BatchRows DEF Dedups, NewRows
<1>8. CASE FilterRows
  BY JobTypes, <1>7, <1>8 DEF FilterRows, TypeOK
<1>9. CASE FilterFails
  BY JobTypes, <1>7, <1>9, FaultType DEF FilterFails, TypeOK, FaultKind
<1>10. job.rows \in SUBSET Rows /\ Appended(job.rows) \in [Rows -> Nat]
  BY DEF Appended, TypeOK, Jobs
<1>11. CASE AppendRows
  BY JobTypes, <1>10, <1>11 DEF AppendRows, Goto, TypeOK
<1>12. CASE AppendFails
  <2>1. BatchRange \subseteq 1..planned
    BY DEF BatchRange, TypeOK
  <2>2. QED
    BY JobTypes, <1>10, <1>12, <2>1, FaultType
       DEF AppendFails, Leave, TypeOK, FaultKind
<1>13. \A f \in LastRows(job.rows) : Tracked(f) \in [Symbols -> Nat]
  BY <1>10, TrackedType
<1>14. CASE TrackRows
  BY JobTypes, <1>13, <1>14 DEF TrackRows, Leave, TypeOK
<1>15. CASE TrackFails
  BY JobTypes, <1>13, <1>15, FaultType DEF TrackFails, Leave, TypeOK, FaultKind
<1>16. \A rows \in Dedups(Batch) : \A f \in LastRows(rows) :
          Ticks(f) \in [Symbols -> Rows \cup {None}]
  BY <1>7, TrackedType
<1>17. CASE WriteTicks
  BY JobTypes, <1>16, <1>17 DEF WriteTicks, Leave, TypeOK
<1>18. CASE TicksFail
  BY JobTypes, <1>16, <1>18, FaultType DEF TicksFail, Leave, TypeOK, FaultKind
<1>19. CASE UNCHANGED vars
  BY <1>19 DEF vars, TypeOK
<1>20. QED
  BY <1>1, <1>2, <1>3, <1>4, <1>5, <1>6, <1>8, <1>9, <1>11, <1>12, <1>14, <1>15,
     <1>17, <1>18, <1>19 DEF Next, Producer, Steps, Failures

\* Every variable of the streaming job keeps its type; in particular the
\* offsets of the checkpoint stay in their order.
THEOREM StreamingTypeCorrect == Spec => []TypeOK
BY TypeInit, TypeStep, PTL DEF Spec

-----------------------------------------------------------------------------
(* The hash tracks stored minutes *)

\* The rows that are tracked next are in the table.
TracksInv == TracksStored /\ (At("track") => job.rows \subseteq Stored)

\* The table only grows: by the rows that are appended.
LEMMA StoredGrows ==
    ASSUME TypeOK, NEW rows \in SUBSET Rows, bronze' = Appended(rows)
    PROVE  Stored' = Stored \cup rows
BY DEF Stored, Appended, TypeOK

\* A minute in the table stays there.
LEMMA TracksKept ==
    ASSUME TypeOK, TracksStored, Stored \subseteq Stored', UNCHANGED lastts
    PROVE  TracksStored'
BY DEF TracksStored

\* Rows of the table may be tracked.
LEMMA TracksTracked ==
    ASSUME TypeOK, TracksInv, At("track"), NEW f \in LastRows(job.rows),
           lastts' = Tracked(f), UNCHANGED bronze
    PROVE  TracksStored'
<1>1. \A s \in DOMAIN f : f[s] \in Stored /\ f[s].sym = s
  BY DEF LastRows, TracksInv
<1>2. Stored' = Stored
  BY DEF Stored
<1>3. \A s \in Symbols : lastts'[s] = IF s \in DOMAIN f THEN f[s].time ELSE lastts[s]
  BY DEF Tracked
<1>4. QED
  BY <1>1, <1>2, <1>3 DEF TracksInv, TracksStored

LEMMA TracksInit == Init => TracksInv
BY DEF Init, TracksInv, TracksStored, At, Idle

LEMMA TracksStep == TypeOK /\ TracksInv /\ [Next]_vars => TracksInv'
<1> SUFFICES ASSUME TypeOK, TracksInv, [Next]_vars PROVE TracksInv'
  OBVIOUS
<1>1. job \in Jobs /\ job.rows \in SUBSET Rows
  BY DEF TypeOK, Jobs
<1>2. CASE AppendRows
  <2>1. Stored' = Stored \cup job.rows
    BY <1>1, <1>2, StoredGrows DEF AppendRows
  <2>2. TracksStored'
    BY <1>2, <2>1, TracksKept DEF AppendRows, TracksInv
  <2>3. job'.rows = job.rows
    BY <1>1, <1>2 DEF AppendRows, Goto, Jobs
  <2>4. QED
    BY <2>1, <2>2, <2>3 DEF TracksInv
<1>3. CASE AppendFails
  <2>1. Stored' = Stored \/ Stored' = Stored \cup job.rows
    BY <1>1, <1>3, StoredGrows DEF AppendFails, Stored
  <2>2. TracksStored'
    BY <1>3, <2>1, TracksKept DEF AppendFails, TracksInv
  <2>3. job'.pc = "done"
    BY <1>3 DEF AppendFails, Leave, Idle
  <2>4. QED
    BY <2>2, <2>3 DEF TracksInv, At
<1>4. CASE TrackRows \/ TrackFails
  <2>1. At("track") /\ UNCHANGED bronze /\ job'.pc \in {"ticks", "done"}
    BY <1>4 DEF TrackRows, TrackFails, Leave, Idle
  <2>2. Stored' = Stored
    BY <2>1 DEF Stored
  <2>3. CASE UNCHANGED lastts
    BY <2>1, <2>2, <2>3, TracksKept DEF TracksInv, At
  <2>4. CASE \E f \in LastRows(job.rows) : lastts' = Tracked(f)
    <3>1. TracksStored'
      BY <2>1, <2>4, TracksTracked
    <3>2. QED
      BY <2>1, <3>1 DEF TracksInv, At
  <2>5. QED
    BY <1>4, <2>3, <2>4 DEF TrackRows, TrackFails
<1>5. CASE \/ PublishLive \/ PublishFinal \/ PlanBatch \/ CommitBatch \/ Crash \/ Restart
           \/ FilterRows \/ FilterFails \/ WriteTicks \/ TicksFail \/ UNCHANGED vars
  <2>1. /\ UNCHANGED <<bronze, lastts>>
        /\ UNCHANGED job \/ job'.pc # "track"
    BY <1>5 DEF PublishLive, PublishFinal, PlanBatch, CommitBatch, Crash, Restart,
       FilterRows, FilterFails, WriteTicks, TicksFail, vars, Leave, Idle
  <2>2. Stored' = Stored
    BY <2>1 DEF Stored
  <2>3. QED
    BY <2>1, <2>2, TracksKept DEF TracksInv, At
<1>6. QED
  BY <1>2, <1>3, <1>4, <1>5 DEF Next, Producer, Steps, Failures

\* Whenever the job dies and whatever fails, the hash claims no minute that the
\* table does not have (streaming.py:123-147).
THEOREM TracksStoredCorrect == Spec => []TracksStored
<1>1. TypeOK /\ TracksInv /\ [Next]_vars => TypeOK' /\ TracksInv'
  BY TypeStep, TracksStep
<1>2. Init => TypeOK /\ TracksInv
  BY TypeInit, TracksInit
<1>3. TracksInv => TracksStored
  BY DEF TracksInv
<1>4. QED
  BY <1>1, <1>2, <1>3, PTL DEF Spec

-----------------------------------------------------------------------------
(* The promise of BronzeTable *)

\* What the rest of write_batch will append, or what the table has, covers the
\* batch, except for an append that failed; and nothing is appended that is not
\* on the topic.
PromiseInv ==
    /\ CommittedSaved
    /\ job.rows \subseteq TopicRows /\ Stored \subseteq TopicRows
    /\ At("append") =>
          \A b \in Batch : InTable(b) \/ \E r \in job.rows : Minute(r) = Minute(b)
    /\ job.pc \in {"track", "ticks", "done"} =>
          \A i \in BatchRange \ unsaved : InTable(topic[i])

StreamInv == TypeOK /\ TracksInv /\ PromiseInv

\* The topic keeps its records.
LEMMA TopicGrows ==
    ASSUME TypeOK, NEW r \in Rows, topic' = Append(topic, r),
           UNCHANGED <<planned, committed, unsaved>>
    PROVE  /\ Batch' = Batch /\ BatchRange' = BatchRange /\ TopicRows' = TopicRows \cup {r}
           /\ SettledMinutes' = SettledMinutes
           /\ PublishedMinutes' = PublishedMinutes \cup {Minute(r)}
           /\ \A i \in (1..committed) \cup BatchRange : topic'[i] = topic[i]
<1>1. /\ Len(topic) \in Nat /\ planned \in Nat /\ planned <= Len(topic)
      /\ committed \in Nat /\ committed <= planned
      /\ DOMAIN topic = 1..Len(topic) /\ DOMAIN topic' = 1..(Len(topic) + 1)
  BY DEF TypeOK
<1>2. /\ \A i \in 1..Len(topic) : topic'[i] = topic[i]
      /\ topic'[Len(topic) + 1] = r
  BY PublishType
<1>3. \A i \in BatchRange : i \in 1..Len(topic)
  BY <1>1 DEF BatchRange
<1>4. \A i \in 1..committed : i \in 1..Len(topic)
  BY <1>1
<1>5. DOMAIN topic' = DOMAIN topic \cup {Len(topic) + 1}
  BY <1>1
<1>6. BatchRange' = BatchRange /\ Batch' = Batch
  BY <1>2, <1>3 DEF BatchRange, Batch
<1>7. SettledMinutes' = SettledMinutes
  BY <1>2, <1>4 DEF SettledMinutes
<1>8. TopicRows' = TopicRows \cup {r} /\ PublishedMinutes' = PublishedMinutes \cup {Minute(r)}
  BY <1>1, <1>2, <1>5 DEF TopicRows, PublishedMinutes
<1>9. QED
  BY <1>2, <1>3, <1>4, <1>6, <1>7, <1>8

\* dropDuplicates keeps a row of every minute of the batch.
LEMMA DedupsCover ==
    ASSUME NEW rows, NEW q \in Dedups(rows), NEW r \in rows
    PROVE  q \subseteq rows /\ \E x \in q : Minute(x) = Minute(r)
<1>1. Cardinality({x \in q : Minute(x) = Minute(r)}) = 1 /\ q \subseteq rows
  BY DEF Dedups
<1>2. {x \in q : Minute(x) = Minute(r)} # {}
  BY <1>1, FS_EmptySet
<1>3. QED
  BY <1>1, <1>2

\* A row that is filtered out is in the table, or a later one is.
LEMMA FilteredInTable ==
    ASSUME TypeOK, TracksStored, NEW rows \in SUBSET Rows, NEW x \in rows,
           x \notin NewRows(rows)
    PROVE  InTable(x)
<1>1. /\ x.sym \in Symbols /\ x.time \in Nat /\ x.time > 0
      /\ lastts[x.sym] \in Nat /\ ~(x.time > lastts[x.sym])
  BY BoundFacts DEF NewRows, TypeOK
<1>2. PICK r \in Stored : r.sym = x.sym /\ r.time = lastts[x.sym]
  BY <1>1 DEF TracksStored
<1>3. QED
  BY <1>1, <1>2 DEF InTable

\* Rows of the same minute are in the table together.
LEMMA SameMinute ==
    ASSUME NEW r, NEW q, Minute(r) = Minute(q), InTable(r)
    PROVE  InTable(q)
BY DEF Minute, InTable

LEMMA PromiseInit == Init => PromiseInv
<1> SUFFICES ASSUME Init PROVE PromiseInv
  OBVIOUS
<1>1. Stored = {} /\ committed = 0 /\ job = Idle
  BY DEF Init, Stored
<1>2. QED
  BY <1>1 DEF PromiseInv, CommittedSaved, At, Idle

\* A record of the batch that the table covers is covered by its place.
LEMMA BatchCovered ==
    ASSUME \A b \in Batch : InTable(b)
    PROVE  \A i \in BatchRange : InTable(topic[i])
BY DEF Batch

LEMMA FilterPromise ==
    ASSUME StreamInv, FilterRows \/ FilterFails
    PROVE  PromiseInv'
<1>1. TypeOK /\ TracksStored /\ PromiseInv
  BY DEF StreamInv, TracksInv
<1>2. Batch \subseteq TopicRows /\ Batch \subseteq Rows
  BY <1>1, BatchRows
<1>3. /\ UNCHANGED <<topic, planned, committed, bronze, unsaved>>
      /\ Stored' = Stored /\ Batch' = Batch /\ TopicRows' = TopicRows
      /\ BatchRange' = BatchRange
  BY DEF FilterRows, FilterFails, Stored, Batch, BatchRange, TopicRows
<1>4. \A b : InTable(b)' <=> InTable(b)
  BY <1>3 DEF InTable
<1>5. CommittedSaved' /\ Stored' \subseteq TopicRows'
  BY <1>1, <1>3, <1>4 DEF PromiseInv, CommittedSaved
<1>6. PICK rows \in Dedups(Batch) :
        \/ NewRows(rows) = {} /\ job' = [Idle EXCEPT !.pc = "ticks"]
        \/ job' = [pc |-> "append", rows |-> NewRows(rows), tracked |-> TRUE]
        \/ job' = [pc |-> "append", rows |-> rows, tracked |-> FALSE]
  BY DEF FilterRows, FilterFails
<1>7. /\ rows \subseteq Batch
      /\ \A b \in Batch : \E x \in rows : Minute(x) = Minute(b)
  BY DedupsCover DEF Dedups
<1>8. \A x \in rows : x \notin NewRows(rows) => InTable(x)
  BY <1>1, <1>2, <1>7, FilteredInTable
<1>9. \A b \in Batch : InTable(b) \/ \E x \in NewRows(rows) : Minute(x) = Minute(b)
  BY <1>7, <1>8, SameMinute
<1>11. CASE NewRows(rows) = {} /\ job' = [Idle EXCEPT !.pc = "ticks"]
  <2>1. job'.pc = "ticks" /\ job'.rows = {}
    BY <1>11 DEF Idle
  <2>2. \A b \in Batch : InTable(b)
    BY <1>9, <1>11
  <2>3. QED
    BY <1>3, <1>4, <1>5, <2>1, <2>2, BatchCovered DEF PromiseInv, At
<1>12. CASE job' = [pc |-> "append", rows |-> NewRows(rows), tracked |-> TRUE]
  <2>1. NewRows(rows) \subseteq TopicRows
    BY <1>2, <1>7 DEF NewRows
  <2>2. QED
    BY <1>3, <1>4, <1>5, <1>9, <1>12, <2>1 DEF PromiseInv, At
<1>13. CASE job' = [pc |-> "append", rows |-> rows, tracked |-> FALSE]
  <2>1. rows \subseteq TopicRows
    BY <1>2, <1>7
  <2>2. QED
    BY <1>3, <1>4, <1>5, <1>7, <1>13, <2>1 DEF PromiseInv, At
<1>14. QED
  BY <1>6, <1>11, <1>12, <1>13

LEMMA PublishPromise ==
    ASSUME StreamInv, PublishLive \/ PublishFinal
    PROVE  PromiseInv'
<1>1. /\ TypeOK /\ PromiseInv
      /\ UNCHANGED <<planned, committed, job, bronze, unsaved>>
  BY DEF StreamInv, PublishLive, PublishFinal
<1>2. PICK r \in Rows : topic' = Append(topic, r)
  BY DEF PublishLive, PublishFinal
<1>3. /\ Batch' = Batch /\ BatchRange' = BatchRange /\ TopicRows \subseteq TopicRows'
      /\ \A i \in (1..committed) \cup BatchRange : topic'[i] = topic[i]
  BY <1>1, <1>2, TopicGrows
<1>4. Stored' = Stored /\ \A b : InTable(b)' <=> InTable(b)
  BY <1>1 DEF Stored, InTable
<1>5. CommittedSaved'
  BY <1>1, <1>3, <1>4 DEF PromiseInv, CommittedSaved
<1>6. QED
  BY <1>1, <1>3, <1>4, <1>5 DEF PromiseInv, At

\* A batch is committed when the table covers it.
LEMMA CommitPromise ==
    ASSUME StreamInv, CommitBatch
    PROVE  PromiseInv'
<1>1. /\ TypeOK /\ PromiseInv /\ At("done") /\ committed' = planned
      /\ UNCHANGED <<topic, planned, bronze, unsaved>>
      /\ job'.pc = "idle" /\ job'.rows = {}
  BY DEF StreamInv, CommitBatch, Idle
<1>2. committed \in Nat /\ planned \in Nat
  BY <1>1 DEF TypeOK
<1>3. \A i \in 1..planned : i \in 1..committed \/ i \in BatchRange
  BY <1>2 DEF BatchRange
<1>4. \A i \in (1..planned) \ unsaved : InTable(topic[i])
  BY <1>1, <1>3 DEF PromiseInv, CommittedSaved, At
<1>5. Stored' = Stored /\ TopicRows' = TopicRows /\ \A b : InTable(b)' <=> InTable(b)
  BY <1>1 DEF Stored, TopicRows, InTable
<1>6. CommittedSaved'
  BY <1>1, <1>4, <1>5 DEF CommittedSaved
<1>7. QED
  BY <1>1, <1>5, <1>6 DEF PromiseInv, At

LEMMA AppendPromise ==
    ASSUME StreamInv, AppendRows
    PROVE  PromiseInv'
<1>1. /\ TypeOK /\ PromiseInv /\ job \in Jobs /\ job.rows \in SUBSET Rows
  BY DEF StreamInv, TypeOK, Jobs
<1>2. /\ At("append") /\ bronze' = Appended(job.rows)
      /\ UNCHANGED <<topic, planned, committed>> /\ unsaved' = unsaved \ BatchRange
      /\ job'.pc = "track" /\ job'.rows = job.rows
  BY <1>1 DEF AppendRows, Goto, Jobs
<1>3. /\ Stored' = Stored \cup job.rows /\ Batch' = Batch /\ TopicRows' = TopicRows
      /\ BatchRange' = BatchRange
  BY <1>1, <1>2, StoredGrows DEF Batch, BatchRange, TopicRows
<1>4. \A b : InTable(b) => InTable(b)'
  BY <1>3 DEF InTable
<1>5. \A b \in Batch : InTable(b)'
  <2>1. TAKE b \in Batch
  <2>2. CASE InTable(b)
    BY <1>4, <2>2
  <2>3. CASE \E r \in job.rows : Minute(r) = Minute(b)
    <3>1. PICK r \in job.rows : r.sym = b.sym /\ r.time = b.time
      BY <2>3 DEF Minute
    <3>2. r \in Stored' /\ r.time \in Nat
      BY <1>1, <1>3, BoundFacts
    <3>3. r.time >= b.time
      BY <3>1, <3>2
    <3>4. QED
      BY <3>1, <3>2, <3>3 DEF InTable
  <2>4. QED
    BY <1>1, <1>2, <2>2, <2>3 DEF PromiseInv
<1>6. CommittedSaved'
  <2>1. \A i \in (1..committed) \ unsaved' : i \notin BatchRange
    BY <1>1 DEF BatchRange, TypeOK
  <2>2. QED
    BY <1>1, <1>2, <1>4, <2>1 DEF PromiseInv, CommittedSaved
<1>7. \A i \in BatchRange : InTable(topic[i])'
  BY <1>2, <1>5 DEF Batch, InTable
<1>8. QED
  BY <1>1, <1>2, <1>3, <1>6, <1>7 DEF PromiseInv, At

\* The batch of an append that fails is excused.
LEMMA AppendFailsPromise ==
    ASSUME StreamInv, AppendFails
    PROVE  PromiseInv'
<1>1. /\ TypeOK /\ PromiseInv /\ job.rows \in SUBSET Rows
  BY DEF StreamInv, TypeOK, Jobs
<1>2. /\ bronze' \in {bronze, Appended(job.rows)}
      /\ UNCHANGED <<topic, planned, committed>> /\ unsaved' = unsaved \cup BatchRange
      /\ job'.pc = "done" /\ job'.rows = {}
  BY DEF AppendFails, Leave, Idle
<1>3. /\ Stored' \in {Stored, Stored \cup job.rows}
      /\ BatchRange' = BatchRange /\ TopicRows' = TopicRows
  BY <1>1, <1>2, StoredGrows DEF Stored, BatchRange, TopicRows
<1>4. \A b : InTable(b) => InTable(b)'
  BY <1>3 DEF InTable
<1>5. CommittedSaved'
  BY <1>1, <1>2, <1>4 DEF PromiseInv, CommittedSaved
<1>6. QED
  BY <1>1, <1>2, <1>3, <1>5 DEF PromiseInv, At

\* The rest of write_batch does not touch the table.
LEMMA RedisPromise ==
    ASSUME StreamInv, TrackRows \/ TrackFails \/ WriteTicks \/ TicksFail
    PROVE  PromiseInv'
<1>1. /\ TypeOK /\ PromiseInv /\ job.pc \in {"track", "ticks"}
      /\ UNCHANGED <<topic, planned, committed, bronze, unsaved>>
      /\ job'.pc \in {"ticks", "done"} /\ job'.rows = {}
  BY DEF StreamInv, TrackRows, TrackFails, WriteTicks, TicksFail, At, Leave, Idle
<1>2. /\ Stored' = Stored /\ BatchRange' = BatchRange /\ TopicRows' = TopicRows
      /\ \A b : InTable(b)' <=> InTable(b)
  BY <1>1 DEF Stored, BatchRange, TopicRows, InTable
<1>3. CommittedSaved'
  BY <1>1, <1>2 DEF PromiseInv, CommittedSaved
<1>4. QED
  BY <1>1, <1>2, <1>3 DEF PromiseInv, At

\* Planning, dying and coming back change nothing that was promised.
LEMMA SparkPromise ==
    ASSUME StreamInv, PlanBatch \/ Crash \/ Restart
    PROVE  PromiseInv'
<1>1. /\ TypeOK /\ PromiseInv /\ UNCHANGED <<topic, committed, bronze, unsaved>>
      /\ job'.pc \in {"idle", "dead"} /\ job'.rows \in {job.rows, {}}
  BY DEF StreamInv, PlanBatch, Crash, Restart, At, Leave, Idle
<1>2. Stored' = Stored /\ TopicRows' = TopicRows /\ \A b : InTable(b)' <=> InTable(b)
  BY <1>1 DEF Stored, TopicRows, InTable
<1>3. CommittedSaved'
  BY <1>1, <1>2 DEF PromiseInv, CommittedSaved
<1>4. QED
  BY <1>1, <1>2, <1>3 DEF PromiseInv, At

LEMMA PromiseStep == StreamInv /\ [Next]_vars => PromiseInv'
<1> SUFFICES ASSUME StreamInv, [Next]_vars PROVE PromiseInv'
  OBVIOUS
<1>1. CASE UNCHANGED vars
  BY <1>1 DEF vars, StreamInv, PromiseInv, CommittedSaved, InTable, Stored, TopicRows,
     Batch, BatchRange, At
<1>2. QED
  BY <1>1, PublishPromise, SparkPromise, CommitPromise, FilterPromise, AppendPromise,
     AppendFailsPromise, RedisPromise DEF Next, Producer, Steps, Failures

LEMMA StreamAlways == Spec => []StreamInv
<1>1. Init => StreamInv
  BY TypeInit, TracksInit, PromiseInit DEF StreamInv
<1>2. StreamInv /\ [Next]_vars => StreamInv'
  BY TypeStep, TracksStep, PromiseStep DEF StreamInv
<1>3. QED
  BY <1>1, <1>2, PTL DEF Spec

\* A record of a committed batch has its minute, or a later one of its symbol, in
\* the table, unless the append of its batch failed, although Redis fails and the
\* job dies and replays its batches (streaming.py:72-153).
THEOREM CommittedSavedCorrect == Spec => []CommittedSaved
<1>1. StreamInv => CommittedSaved
  BY DEF StreamInv, PromiseInv
<1>2. QED
  BY <1>1, StreamAlways, PTL

-----------------------------------------------------------------------------
(* The refinement *)

LEMMA RefineInit == Init => Bronze!Init
<1> SUFFICES ASSUME Init PROVE Bronze!Init
  OBVIOUS
<1>1. DOMAIN topic = {} /\ 1..committed = {} /\ Stored = {}
  BY DEF Init, Stored
<1>2. QED
  BY <1>1 DEF Bronze!Init, PublishedMinutes, StoredMinutes, SettledMinutes

LEMMA RefineStep == StreamInv /\ [Next]_vars => [Bronze!Next]_Bronze!vars
<1> SUFFICES ASSUME StreamInv, [Next]_vars
             PROVE  [Bronze!Next]_Bronze!vars
  OBVIOUS
<1>1. TypeOK /\ PromiseInv
  BY DEF StreamInv
<1>2. CASE PublishLive \/ PublishFinal
  <2>1. PICK r \in Rows : topic' = Append(topic, r)
    BY <1>2 DEF PublishLive, PublishFinal
  <2>2. UNCHANGED <<planned, committed, bronze, unsaved>>
    BY <1>2 DEF PublishLive, PublishFinal
  <2>3. /\ PublishedMinutes' = PublishedMinutes \cup {Minute(r)}
        /\ SettledMinutes' = SettledMinutes
    BY <1>1, <2>1, <2>2, TopicGrows
  <2>4. StoredMinutes' = StoredMinutes
    BY <2>2 DEF StoredMinutes, Stored
  <2>5. Minute(r) \in Bronze!Minutes
    BY DEF Minute, Rows, Bronze!Minutes
  <2>6. QED
    BY <2>3, <2>4, <2>5 DEF Bronze!Next, Bronze!Publish
<1>3. \A i \in 1..committed : i \notin BatchRange
  BY <1>1 DEF BatchRange, TypeOK
<1>4. CASE AppendRows \/ AppendFails
  <2>1. job.rows \in SUBSET Rows /\ job.rows \subseteq TopicRows
    BY <1>1 DEF TypeOK, Jobs, PromiseInv
  <2>2. bronze' \in {bronze, Appended(job.rows)} /\ UNCHANGED <<topic, committed>>
        /\ unsaved' \in {unsaved \cup BatchRange, unsaved \ BatchRange}
    BY <1>4 DEF AppendRows, AppendFails
  <2>3. Stored' \in {Stored, Stored \cup job.rows}
    BY <1>1, <2>1, <2>2, StoredGrows DEF Stored
  <2> DEFINE new == {Minute(r) : r \in job.rows}
  <2>4. StoredMinutes' \in {StoredMinutes, StoredMinutes \cup new}
    BY <2>3 DEF StoredMinutes
  <2>5. new \in SUBSET PublishedMinutes
    BY <2>1 DEF TopicRows, PublishedMinutes
  <2>6. (1..committed) \ unsaved' = (1..committed) \ unsaved
    BY <1>3, <2>2
  <2>7. UNCHANGED <<PublishedMinutes, SettledMinutes>>
    BY <2>2, <2>6 DEF PublishedMinutes, SettledMinutes
  <2> HIDE DEF new
  <2>8. QED
    BY <2>4, <2>5, <2>7 DEF Bronze!Next, Bronze!Store, Bronze!vars
<1>5. CASE CommitBatch
  <2>1. /\ At("done") /\ committed' = planned /\ UNCHANGED <<topic, bronze, unsaved>>
        /\ committed \in Nat /\ planned \in Nat /\ committed <= planned
    BY <1>1, <1>5 DEF CommitBatch, TypeOK
  <2> DEFINE done == {Minute(topic[i]) : i \in BatchRange \ unsaved}
  <2>2. SettledMinutes' = SettledMinutes \cup done
    <3>1. 1..planned = (1..committed) \cup BatchRange
      BY <2>1 DEF BatchRange
    <3>2. QED
      BY <2>1, <3>1 DEF SettledMinutes
  <2>3. done \in SUBSET PublishedMinutes
    <3>1. BatchRange \subseteq DOMAIN topic
      BY <1>1 DEF BatchRange, TypeOK
    <3>2. QED
      BY <3>1 DEF PublishedMinutes
  <2>4. \A m \in done : Bronze!CoveredBy(m, StoredMinutes)
    <3>1. SUFFICES ASSUME NEW i \in BatchRange \ unsaved
                   PROVE  Bronze!CoveredBy(Minute(topic[i]), StoredMinutes)
      OBVIOUS
    <3> DEFINE b == topic[i]
    <3>2. PICK q \in Stored : q.sym = b.sym /\ q.time >= b.time
      BY <1>1, <2>1 DEF PromiseInv, At, InTable
    <3>3. Minute(q) \in StoredMinutes
      BY DEF StoredMinutes
    <3>4. Minute(q).sym = Minute(b).sym /\ Minute(q).time >= Minute(b).time
      BY <3>2 DEF Minute
    <3>5. QED
      BY <3>3, <3>4 DEF Bronze!CoveredBy
  <2>5. UNCHANGED <<PublishedMinutes, StoredMinutes>>
    BY <2>1 DEF PublishedMinutes, StoredMinutes, Stored
  <2> HIDE DEF done
  <2>6. QED
    BY <2>2, <2>3, <2>4, <2>5 DEF Bronze!Next, Bronze!Settle
<1>6. CASE UNCHANGED <<topic, committed, bronze, unsaved>>
  <2>1. UNCHANGED <<PublishedMinutes, StoredMinutes, SettledMinutes>>
    BY <1>6 DEF PublishedMinutes, StoredMinutes, SettledMinutes, Stored
  <2>2. QED
    BY <2>1 DEF Bronze!vars
<1>7. QED
  BY <1>2, <1>4, <1>5, <1>6 DEF Next, Producer, Steps, Failures, PlanBatch,
     Crash, Restart, FilterRows, FilterFails, TrackRows, TrackFails, WriteTicks,
     TicksFail, vars

\* The streaming job implements the promise of BronzeTable: minutes of the topic
\* are stored for good, and a record whose append did not fail is passed over only
\* for a stored minute that is not earlier (streaming.py:72-153).
THEOREM KeepsPromiseCorrect == Spec => KeepsPromise
<1>1. StreamInv /\ [Next]_vars => [Bronze!Next]_Bronze!vars
  BY RefineStep
<1>2. QED
  BY <1>1, RefineInit, StreamAlways, PTL DEF Spec, KeepsPromise, Bronze!Spec

=============================================================================
