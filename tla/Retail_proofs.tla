---------------------------- MODULE Retail_proofs ----------------------------
(***************************************************************************)
(* Proofs about modules Retail and Silver, for any deployments, segments,  *)
(* quantities and numbers of events, starts and failures: the types; that  *)
(* what is reserved is there; that events are appended once and none is    *)
(* skipped; that one version of a dimension is valid at a time; and that   *)
(* the keys of the product stay.                                           *)
(***************************************************************************)
EXTENDS Retail, SequenceTheorems, FiniteSetTheorems, WellFoundedInduction, TLAPS

-----------------------------------------------------------------------------
(* Orders *)

\* A finite set has a first element in a total order.
LEMMA FirstElement ==
    ASSUME NEW S, IsFiniteSet(S), S # {}, NEW R,
           \A x, y \in S : x # y => <<x, y>> \in R \/ <<y, x>> \in R,
           \A x, y, z \in S : <<x, y>> \in R /\ <<y, z>> \in R => <<x, z>> \in R
    PROVE  \E x \in S : \A y \in S \ {x} : <<x, y>> \in R
<1> DEFINE First(T) == \E x \in T : \A y \in T \ {x} : <<x, y>> \in R
           Bad == {T \in SUBSET S : T # {} /\ ~ First(T)}
           O == StrictSubsetOrdering(S)
<1>1. SUFFICES ASSUME Bad # {} PROVE FALSE
  <2>1. S \notin Bad => First(S)
    OBVIOUS
  <2>2. QED
    BY <1>1, <2>1
<1>2. PICK T \in Bad : \A U \in Bad : ~ (<<U, T>> \in O)
  <2>1. IsWellFoundedOn(O, SUBSET S)
    BY FS_StrictSubsetOrderingWellFounded, FS_FiniteSubsetsOfFinite
  <2>2. Bad \subseteq SUBSET S
    OBVIOUS
  <2> HIDE DEF Bad, O
  <2>3. QED
    BY <1>1, <2>1, <2>2, WFMin
<1>3. PICK a \in T : TRUE
  OBVIOUS
<1>4. T \ {a} \notin Bad
  <2>1. T \ {a} \in SUBSET S /\ T \in SUBSET S /\ T \ {a} \subseteq T /\ T \ {a} # T
    BY <1>3
  <2>2. <<T \ {a}, T>> \in O
    BY <2>1 DEF StrictSubsetOrdering
  <2>3. QED
    BY <1>2, <2>2
<1>5. CASE T \ {a} = {}
  <2>1. \A y \in T \ {a} : <<a, y>> \in R
    BY <1>5
  <2>2. First(T)
    BY <1>3, <2>1
  <2>3. QED
    BY <2>2
<1>6. CASE T \ {a} # {}
  <2>1. PICK b \in T \ {a} : \A y \in (T \ {a}) \ {b} : <<b, y>> \in R
    BY <1>4, <1>6
  <2>2. a \in S /\ b \in S /\ a # b /\ T \subseteq S
    BY <1>3, <2>1
  <2>3. CASE <<a, b>> \in R
    <3>1. \A y \in T \ {a} : <<a, y>> \in R
      BY <2>1, <2>2, <2>3
    <3>2. QED
      BY <1>3, <3>1
  <2>4. CASE <<b, a>> \in R
    <3>1. \A y \in T \ {b} : <<b, y>> \in R
      BY <2>1, <2>2, <2>4
    <3>2. QED
      BY <2>1, <3>1
  <2>5. QED
    BY <2>2, <2>3, <2>4
<1>7. QED
  BY <1>5, <1>6

\* Numbers.
LEMMA MinOfTwo ==
    ASSUME NEW a \in Int, NEW b \in Int
    PROVE  Min({a, b}) = IF a <= b THEN a ELSE b
<1>1. \A x \in {a, b} : (\A y \in {a, b} : x <= y) <=> x = IF a <= b THEN a ELSE b
  OBVIOUS
<1>2. QED
  BY <1>1 DEF Min

LEMMA MaxOfTwo ==
    ASSUME NEW a \in Int, NEW b \in Int
    PROVE  Max({a, b}) = IF a >= b THEN a ELSE b
<1>1. \A x \in {a, b} : (\A y \in {a, b} : x >= y) <=> x = IF a >= b THEN a ELSE b
  OBVIOUS
<1>2. QED
  BY <1>1 DEF Max

-----------------------------------------------------------------------------
(* Slowly changing dimensions *)

\* The rows a dimension is made of have a time and an offset.
Timed(rows) ==
    /\ DOMAIN rows \subseteq Nat /\ IsFiniteSet(DOMAIN rows)
    /\ \A i \in DOMAIN rows : rows[i].ts \in Nat /\ rows[i].off \in Nat

LEMMA EarlierOrders ==
    ASSUME NEW rows, Timed(rows), NEW i \in DOMAIN rows, NEW j \in DOMAIN rows, NEW k \in DOMAIN rows
    PROVE  /\ i # j => Earlier(rows, i, j) \/ Earlier(rows, j, i)
           /\ ~ Earlier(rows, i, i)
           /\ ~ (Earlier(rows, i, j) /\ Earlier(rows, j, i))
           /\ Earlier(rows, i, j) /\ Earlier(rows, j, k) => Earlier(rows, i, k)
BY DEF Timed, Earlier

LEMMA OldestOf ==
    ASSUME NEW rows, Timed(rows), NEW S \in SUBSET DOMAIN rows, S # {}
    PROVE  /\ Oldest(rows, S) \in S
           /\ \A k \in S \ {Oldest(rows, S)} : Earlier(rows, Oldest(rows, S), k)
<1> DEFINE R == {p \in S \X S : Earlier(rows, p[1], p[2])}
<1>1. /\ \A x, y \in S : x # y => <<x, y>> \in R \/ <<y, x>> \in R
      /\ \A x, y, z \in S : <<x, y>> \in R /\ <<y, z>> \in R => <<x, z>> \in R
  BY EarlierOrders
<1>2. IsFiniteSet(S)
  BY FS_Subset DEF Timed
<1>3. PICK m \in S : \A y \in S \ {m} : <<m, y>> \in R
  <2> HIDE DEF R
  <2>1. QED
    BY <1>1, <1>2, FirstElement
<1>4. \A y \in S \ {m} : Earlier(rows, m, y)
  BY <1>3
<1>5. QED
  BY <1>4 DEF Oldest

LEMMA NewestOf ==
    ASSUME NEW rows, Timed(rows), NEW S \in SUBSET DOMAIN rows, S # {}
    PROVE  /\ Newest(rows, S) \in S
           /\ \A k \in S \ {Newest(rows, S)} : Earlier(rows, k, Newest(rows, S))
<1> DEFINE R == {p \in S \X S : Earlier(rows, p[2], p[1])}
<1>1. /\ \A x, y \in S : x # y => <<x, y>> \in R \/ <<y, x>> \in R
      /\ \A x, y, z \in S : <<x, y>> \in R /\ <<y, z>> \in R => <<x, z>> \in R
  BY EarlierOrders
<1>2. IsFiniteSet(S)
  BY FS_Subset DEF Timed
<1>3. PICK m \in S : \A y \in S \ {m} : <<m, y>> \in R
  <2> HIDE DEF R
  <2>1. QED
    BY <1>1, <1>2, FirstElement
<1>4. \A y \in S \ {m} : Earlier(rows, y, m)
  BY <1>3
<1>5. QED
  BY <1>4 DEF Newest

\* The greatest number, as the newest of the rows that have it as their time.
LEMMA MaxOf ==
    ASSUME NEW S \in SUBSET Nat, IsFiniteSet(S), S # {}
    PROVE  Max(S) \in S /\ \A x \in S : x <= Max(S)
<1> DEFINE rows == [n \in S |-> [ts |-> n, off |-> 0]]
           m == Newest(rows, S)
<1>1. Timed(rows) /\ DOMAIN rows = S
  BY DEF Timed
<1>2. m \in S /\ \A k \in S \ {m} : Earlier(rows, k, m)
  <2> HIDE DEF rows
  <2>1. QED
    BY <1>1, NewestOf
<1> HIDE DEF m
<1>3. ASSUME NEW k \in S PROVE m >= k
  <2>1. m \in Nat /\ k \in Nat /\ rows[k].ts = k /\ rows[m].ts = m /\ rows[k].off = 0 /\ rows[m].off = 0
    BY <1>2
  <2>2. k = m \/ Earlier(rows, k, m)
    BY <1>2
  <2> HIDE DEF rows
  <2>3. QED
    BY <2>1, <2>2 DEF Earlier
<1>4. Max(S) \in S /\ \A y \in S : Max(S) >= y
  BY <1>2, <1>3 DEF Max
<1>5. QED
  BY <1>4

\* A version ends no later than a later one starts.
LEMMA Scd2NoOverlap ==
    ASSUME NEW rows, Timed(rows)
    PROVE  NoOverlap(Scd2(rows))
<1> DEFINE deltas == Deltas(rows)
           next(j) == {i \in deltas : Earlier(rows, j, i)}
           dim == Scd2(rows)
<1>1. /\ deltas \subseteq DOMAIN rows
      /\ DOMAIN dim = deltas
      /\ \A j \in deltas :
            /\ dim[j].from = rows[j].ts
            /\ next(j) # {} => dim[j].to = rows[Oldest(rows, next(j))].ts
  BY DEF Scd2, Deltas
<1>2. ASSUME NEW j \in deltas, NEW k \in deltas, Earlier(rows, j, k)
      PROVE  dim[j].to <= dim[k].from
  <2>1. k \in next(j) /\ next(j) \in SUBSET DOMAIN rows
    BY <1>1, <1>2
  <2>2. dim[j].to = rows[Oldest(rows, next(j))].ts /\ dim[k].from = rows[k].ts
    BY <1>1, <2>1
  <2> HIDE DEF next, deltas, dim
  <2>3. /\ Oldest(rows, next(j)) \in DOMAIN rows
        /\ Oldest(rows, next(j)) = k \/ Earlier(rows, Oldest(rows, next(j)), k)
    BY <2>1, OldestOf
  <2>4. k \in DOMAIN rows
    BY <2>1
  <2>5. QED
    BY <2>2, <2>3, <2>4 DEF Earlier, Timed
<1>3. \A j, k \in deltas : j # k => Earlier(rows, j, k) \/ Earlier(rows, k, j)
  BY <1>1, EarlierOrders
<1>4. QED
  BY <1>1, <1>2, <1>3 DEF NoOverlap

\* Versions begin and end at a second, one after the other.
Versions(dim) ==
    /\ NoOverlap(dim)
    /\ \A j \in DOMAIN dim : dim[j].from \in Nat /\ dim[j].to \in Nat

LEMMA Scd2Versions ==
    ASSUME NEW rows, Timed(rows)
    PROVE  Versions(Scd2(rows))
<1> DEFINE deltas == Deltas(rows)
           next(j) == {i \in deltas : Earlier(rows, j, i)}
           dim == Scd2(rows)
<1>1. /\ deltas \subseteq DOMAIN rows
      /\ DOMAIN dim = deltas
      /\ \A j \in deltas :
            /\ dim[j].from = rows[j].ts
            /\ dim[j].to = IF next(j) = {} THEN Forever ELSE rows[Oldest(rows, next(j))].ts
  BY DEF Scd2, Deltas
<1>2. ASSUME NEW j \in deltas
      PROVE  dim[j].from \in Nat /\ dim[j].to \in Nat
  <2>1. next(j) \in SUBSET DOMAIN rows
    BY <1>1
  <2>2. j \in DOMAIN rows /\ dim[j].from = rows[j].ts
        /\ dim[j].to = IF next(j) = {} THEN Forever ELSE rows[Oldest(rows, next(j))].ts
    BY <1>1
  <2> HIDE DEF next, deltas, dim
  <2>3. next(j) # {} => Oldest(rows, next(j)) \in DOMAIN rows
    BY <2>1, OldestOf
  <2>4. QED
    BY <2>2, <2>3, SilverAssumption DEF Timed
<1>3. NoOverlap(dim)
  BY Scd2NoOverlap
<1> HIDE DEF dim, deltas, next
<1>4. QED
  BY <1>1, <1>2, <1>3 DEF Versions, dim

\* The key of a version is the time and the offset of the row that it starts with.
LEMMA KeysOfDeltas ==
    ASSUME NEW rows
    PROVE  Keys(Scd2(rows)) = {<<rows[j].ts, rows[j].off>> : j \in Deltas(rows)}
<1> DEFINE dim == Scd2(rows)
<1>1. /\ DOMAIN dim = Deltas(rows)
      /\ \A j \in Deltas(rows) : dim[j].from = rows[j].ts /\ dim[j].off = rows[j].off
  BY DEF Scd2
<1> HIDE DEF dim
<1>2. Keys(dim) = {<<dim[j].from, dim[j].off>> : j \in Deltas(rows)}
  BY <1>1 DEF Keys, Key
<1>3. QED
  BY <1>1, <1>2 DEF dim

\* The rows of the bronze tables and the events of the topics.
Row == [topic: Events \cup Cdc, off: Nat, ts: Nat, val: Maybe(Nat), id: Nat]

In(e, rows) == \E i \in DOMAIN rows : rows[i] = e

\* In the order of time and offset.
Before(e, f) == e.ts < f.ts \/ (e.ts = f.ts /\ e.off < f.off)

\* Rows with one time and offset are of one value.
Functional(rows) ==
    \A i, j \in DOMAIN rows :
        rows[i].ts = rows[j].ts /\ rows[i].off = rows[j].off => rows[i].val = rows[j].val

LEMMA SequenceTimed ==
    ASSUME NEW rows \in Seq(Row)
    PROVE  Timed(rows)
<1>1. DOMAIN rows = 1..Len(rows) /\ Len(rows) \in Nat
      /\ \A i \in 1..Len(rows) : rows[i] \in Row
  BY LenProperties, ElementOfSeq
<1>2. IsFiniteSet(1..Len(rows))
  BY <1>1, FS_Interval
<1>3. QED
  BY <1>1, <1>2 DEF Timed, Row

\* Of rows with one time and offset, the first alone can start a version.
LEMMA Scd2UniqueKeys ==
    ASSUME NEW rows, Timed(rows), Functional(rows)
    PROVE  UniqueKeys(Scd2(rows))
<1> DEFINE dim == Scd2(rows)
<1>1. /\ DOMAIN dim = Deltas(rows)
      /\ \A j \in Deltas(rows) : dim[j].from = rows[j].ts /\ dim[j].off = rows[j].off
  BY DEF Scd2
<1>2. ASSUME NEW j \in Deltas(rows), NEW k \in Deltas(rows),
             rows[j].ts = rows[k].ts, rows[j].off = rows[k].off, Earlier(rows, j, k)
      PROVE  FALSE
  <2> DEFINE before == Until(rows, DOMAIN rows, k)
             m == Newest(rows, before)
  <2>1. j \in before /\ before \in SUBSET DOMAIN rows /\ k \in DOMAIN rows
    BY <1>2 DEF Deltas, Until
  <2>2. rows[m].val # rows[k].val
    BY <1>2, <2>1 DEF Deltas
  <2>3. \A i \in before : Earlier(rows, i, k)
    BY DEF Until
  <2> HIDE DEF before
  <2>4. m \in before /\ (j = m \/ Earlier(rows, j, m))
    BY <2>1, NewestOf
  <2> HIDE DEF m
  <2>5. rows[m].ts = rows[k].ts /\ rows[m].off = rows[k].off
    BY <1>2, <2>1, <2>3, <2>4 DEF Timed, Earlier
  <2>6. QED
    BY <2>1, <2>2, <2>4, <2>5 DEF Functional
<1>3. \A j, k \in Deltas(rows) : j # k => Earlier(rows, j, k) \/ Earlier(rows, k, j)
  BY EarlierOrders DEF Deltas
<1> HIDE DEF dim
<1>4. ASSUME NEW j \in DOMAIN dim, NEW k \in DOMAIN dim, Key(dim[j]) = Key(dim[k])
      PROVE  j = k
  <2>1. rows[j].ts = rows[k].ts /\ rows[j].off = rows[k].off
    BY <1>1, <1>4 DEF Key
  <2>2. QED
    BY <1>1, <1>2, <1>3, <2>1
<1>5. QED
  BY <1>4 DEF UniqueKeys, dim

\* Rows that are appended later than all others, or again, change no version
\* that there is.
LEMMA Scd2KeysStay ==
    ASSUME NEW rows \in Seq(Row), NEW new \in Seq(Row), Functional(rows),
           \A i \in DOMAIN new :
               In(new[i], rows) \/ (\A k \in DOMAIN rows : Before(rows[k], new[i]))
    PROVE  Keys(Scd2(rows)) \subseteq Keys(Scd2(rows \o new))
<1> DEFINE all == rows \o new
<1>1. Timed(rows) /\ Timed(all)
  BY SequenceTimed, ConcatProperties
<1>2. /\ \A i \in DOMAIN rows : i \in DOMAIN all /\ all[i] = rows[i]
      /\ \A i \in DOMAIN all \ DOMAIN rows :
            /\ \A k \in DOMAIN rows : k < i
            /\ In(all[i], rows) \/ (\A k \in DOMAIN rows : Before(rows[k], all[i]))
  <2>1. /\ DOMAIN rows = 1..Len(rows) /\ DOMAIN new = 1..Len(new)
        /\ Len(rows) \in Nat /\ Len(new) \in Nat
        /\ DOMAIN all = 1..Len(rows) + Len(new)
        /\ \A i \in 1..Len(rows) + Len(new) :
              all[i] = IF i <= Len(rows) THEN rows[i] ELSE new[i - Len(rows)]
    BY LenProperties, ConcatProperties
  <2> HIDE DEF all
  <2>2. \A i \in DOMAIN all \ DOMAIN rows :
            i > Len(rows) /\ i - Len(rows) \in DOMAIN new /\ all[i] = new[i - Len(rows)]
    BY <2>1
  <2>3. QED
    BY <2>1, <2>2
<1> HIDE DEF all
<1>3. ASSUME NEW j \in Deltas(rows)
      PROVE  j \in Deltas(all)
  <2> DEFINE before == Until(rows, DOMAIN rows, j)
             before2 == Until(all, DOMAIN all, j)
  <2>1. j \in DOMAIN rows /\ j \in DOMAIN all
        /\ (before # {} => rows[Newest(rows, before)].val # rows[j].val)
    BY <1>2 DEF Deltas
  <2>2. before \subseteq before2 /\ before \subseteq DOMAIN rows /\ before2 \subseteq DOMAIN all
    BY <1>2, <2>1 DEF Until, Earlier
  <2>3. \A i \in before2 : \E k \in before : rows[k] = all[i]
    <3>1. TAKE i \in before2
    <3>2. CASE i \in DOMAIN rows
      BY <1>2, <2>1, <3>1, <3>2 DEF Until, Earlier
    <3>3. CASE i \notin DOMAIN rows
      <4>1. i \in DOMAIN all /\ Earlier(all, i, j) /\ j < i /\ i \in Nat /\ j \in Nat
        BY <1>1, <1>2, <2>1, <3>1, <3>3 DEF Until, Timed
      <4>2. Before(all[i], rows[j])
        <5>1. all[j] = rows[j]
          BY <1>2, <2>1
        <5>2. QED
          BY <4>1, <5>1 DEF Earlier, Before
      <4>3. ~ Before(rows[j], all[i])
        BY <1>1, <2>1, <4>1, <4>2 DEF Before, Timed
      <4>4. PICK k \in DOMAIN rows : rows[k] = all[i]
        BY <1>2, <2>1, <3>3, <4>1, <4>3 DEF In
      <4>5. Earlier(rows, k, j)
        BY <4>2, <4>4 DEF Earlier, Before
      <4>6. QED
        BY <4>4, <4>5 DEF Until
    <3>4. QED
      BY <3>2, <3>3
  <2>4. ASSUME before2 # {}
        PROVE  all[Newest(all, before2)].val # all[j].val
    <3> DEFINE m == Newest(rows, before)
               n == Newest(all, before2)
    <3>1. before # {}
      BY <2>3, <2>4
    <3>2. m \in before /\ \A k \in before \ {m} : Earlier(rows, k, m)
      <4> HIDE DEF before, before2
      <4>1. QED
        BY <1>1, <2>2, <3>1, NewestOf
    <3>3. n \in before2 /\ \A k \in before2 \ {n} : Earlier(all, k, n)
      <4> HIDE DEF before, before2
      <4>1. QED
        BY <1>1, <2>2, <2>4, NewestOf
    <3>4. PICK k \in before : rows[k] = all[n]
      BY <2>3, <3>3
    <3> HIDE DEF m, n
    <3>5. m \in DOMAIN rows /\ k \in DOMAIN rows /\ n \in DOMAIN all /\ all[m] = rows[m]
          /\ m \in before2
      BY <1>2, <2>2, <3>2, <3>3, <3>4
    <3>6. (m = n \/ Earlier(all, m, n)) /\ (k = m \/ Earlier(rows, k, m))
      BY <3>2, <3>3, <3>4, <3>5
    <3>7. rows[k].ts = rows[m].ts /\ rows[k].off = rows[m].off
      BY <1>1, <3>4, <3>5, <3>6 DEF Earlier, Timed
    <3>8. rows[k].val = rows[m].val
      BY <3>5, <3>7 DEF Functional
    <3>9. QED
      BY <1>2, <2>1, <3>1, <3>4, <3>8 DEF m, n
  <2>5. QED
    BY <2>1, <2>4 DEF Deltas
<1>4. QED
  <2>1. \A j \in Deltas(rows) : j \in DOMAIN rows
    BY DEF Deltas
  <2>2. \A j \in Deltas(rows) : j \in Deltas(all) /\ all[j] = rows[j]
    BY <1>2, <1>3, <2>1
  <2>3. Keys(Scd2(rows)) \subseteq Keys(Scd2(all))
    BY <2>2, KeysOfDeltas
  <2>4. QED
    BY <2>3 DEF all


-----------------------------------------------------------------------------
(* Dimensions of what changed in a second *)

\* A finite set of seconds has an n-th one, and n of them are up to it.
LEMMA NthOf ==
    ASSUME NEW S \in SUBSET Nat, IsFiniteSet(S), NEW n \in 1..Cardinality(S)
    PROVE  Nth(S, n) \in S /\ Cardinality({u \in S : u <= Nth(S, n)}) = n
<1> DEFINE upTo(t) == {u \in S : u <= t}
           G == {t \in S : Cardinality(upTo(t)) >= n}
<1>1. \A T \in SUBSET S : IsFiniteSet(T) /\ Cardinality(T) \in Nat /\ T \in SUBSET Nat
  BY FS_Subset, FS_CardinalityType
<1>2. n \in Nat /\ n >= 1 /\ n <= Cardinality(S) /\ Cardinality(S) \in Nat
  BY FS_CardinalityType
<1>3. G # {}
  <2>1. S # {}
    BY <1>2, FS_EmptySet
  <2>2. Max(S) \in S /\ \A x \in S : x <= Max(S)
    BY <2>1, MaxOf
  <2>3. upTo(Max(S)) = S
    BY <2>2
  <2>4. QED
    BY <1>2, <2>2, <2>3
<1>4. PICK t \in G : \A k \in G : t <= k
  <2> DEFINE rows == [k \in S |-> [ts |-> k, off |-> 0]]
             m == Oldest(rows, G)
  <2>1. Timed(rows) /\ DOMAIN rows = S /\ G \in SUBSET S
    BY DEF Timed
  <2>2. m \in G /\ \A k \in G \ {m} : Earlier(rows, m, k)
    <3> HIDE DEF rows, G
    <3>1. QED
      BY <1>3, <2>1, OldestOf
  <2> HIDE DEF m, G
  <2>3. ASSUME NEW k \in G PROVE m <= k
    <3>1. m \in Nat /\ k \in Nat /\ rows[k].ts = k /\ rows[m].ts = m /\ rows[k].off = 0 /\ rows[m].off = 0
      BY <2>1, <2>2
    <3>2. k = m \/ Earlier(rows, m, k)
      BY <2>2
    <3> HIDE DEF rows
    <3>3. QED
      BY <3>1, <3>2 DEF Earlier
  <2>4. QED
    BY <2>2, <2>3
<1> DEFINE less == {u \in S : u < t}
<1>5. /\ t \in S /\ t \in Nat /\ Cardinality(upTo(t)) >= n
      /\ Cardinality(upTo(t)) = Cardinality(less) + 1
  <2>1. t \in S /\ t \in Nat
    BY <1>4
  <2>2. upTo(t) = less \cup {t} /\ t \notin less /\ less \in SUBSET S
    <3>1. \A u \in S : u \in Nat /\ (u <= t <=> u < t \/ u = t)
      BY <2>1
    <3>2. t \notin less /\ less \in SUBSET S
      BY <2>1
    <3>3. QED
      BY <2>1, <3>1, <3>2
  <2>3. IsFiniteSet(less)
    BY <1>1, <2>2
  <2>4. Cardinality(upTo(t)) = Cardinality(less) + 1
    BY <2>2, <2>3, FS_AddElement
  <2>5. QED
    BY <1>4, <2>1, <2>4
<1>6. Cardinality(less) < n
  <2>1. CASE less = {}
    BY <1>2, <2>1, FS_EmptySet
  <2>2. CASE less # {}
    <3>1. less \in SUBSET Nat /\ IsFiniteSet(less)
      BY <1>1
    <3>2. Max(less) \in less /\ \A x \in less : x <= Max(less)
      <4> HIDE DEF less
      <4>1. QED
        BY <2>2, <3>1, MaxOf
    <3> DEFINE m == Max(less)
    <3>3. m \in less /\ \A x \in less : x <= m
      BY <3>2
    <3> HIDE DEF m
    <3>4. m \in S /\ m < t /\ upTo(m) = less /\ m \in Nat
      <4>1. m \in S /\ m < t /\ m \in Nat
        BY <3>3
      <4>2. \A u \in S : u <= m => u < t
        BY <1>5, <4>1
      <4>3. \A u \in S : u < t => u <= m
        BY <3>3
      <4>4. QED
        BY <4>1, <4>2, <4>3
    <3>5. m \notin G
      BY <1>4, <1>5, <3>4
    <3>6. Cardinality(less) \in Nat
      BY <1>1
    <3>7. QED
      BY <1>2, <3>4, <3>5, <3>6
  <2>3. QED
    BY <2>1, <2>2
<1>7. Cardinality(upTo(t)) = n
  <2>1. less \in SUBSET S
    OBVIOUS
  <2>2. Cardinality(less) \in Nat
    BY <1>1, <2>1
  <2>3. QED
    BY <1>2, <1>5, <1>6, <2>2
<1>8. \E u \in S : Cardinality({v \in S : v <= u}) = n
  BY <1>5, <1>7
<1>9. QED
  BY <1>8 DEF Nth

LEMMA ImageFinite ==
    ASSUME NEW S, IsFiniteSet(S), NEW f
    PROVE  IsFiniteSet({f[x] : x \in S})
<1> DEFINE T == {f[x] : x \in S}
           g == [x \in S |-> f[x]]
<1>1. g \in Surjection(S, T)
  BY DEF Surjection
<1>2. QED
  BY <1>1, FS_Surjection

\* The rows of one second.
LEMMA SecondsOf ==
    ASSUME NEW rows, Timed(rows)
    PROVE  /\ Seconds(rows) \in SUBSET Nat /\ IsFiniteSet(Seconds(rows))
           /\ \A t : LET offs == {rows[i].off : i \in Within(rows, t)}
                     IN /\ offs \in SUBSET Nat /\ IsFiniteSet(offs)
                        /\ t \in Seconds(rows) => offs # {}
<1> DEFINE ts == [i \in DOMAIN rows |-> rows[i].ts]
           off == [i \in DOMAIN rows |-> rows[i].off]
<1>1. IsFiniteSet(DOMAIN rows) /\ \A i \in DOMAIN rows : rows[i].ts \in Nat /\ rows[i].off \in Nat
  BY DEF Timed
<1>2. Seconds(rows) = {ts[i] : i \in DOMAIN rows}
  BY DEF Seconds
<1>3. \A t : {rows[i].off : i \in Within(rows, t)} = {off[i] : i \in Within(rows, t)}
  BY DEF Within
<1>4. IsFiniteSet({ts[i] : i \in DOMAIN rows})
  <2> HIDE DEF ts
  <2>1. QED
    BY <1>1, ImageFinite
<1>5. \A t : IsFiniteSet({off[i] : i \in Within(rows, t)})
  <2> TAKE t
  <2>1. IsFiniteSet(Within(rows, t))
    BY <1>1, FS_Subset DEF Within
  <2> HIDE DEF off
  <2>2. QED
    BY <2>1, ImageFinite
<1>6. \A t : {rows[i].off : i \in Within(rows, t)} \in SUBSET Nat
  BY <1>1 DEF Within
<1>7. \A t \in Seconds(rows) : {rows[i].off : i \in Within(rows, t)} # {}
  BY DEF Seconds, Within
<1>8. Seconds(rows) \in SUBSET Nat
  BY <1>1 DEF Seconds
<1>9. QED
  BY <1>2, <1>3, <1>4, <1>5, <1>6, <1>7, <1>8

\* The versions of the three dimensions.  Those that merge the rows of a second
\* have one row for each, so that their keys are unique whatever the rows are.
LEMMA ProductVersions ==
    ASSUME NEW rows, Timed(rows)
    PROVE  /\ Versions(DimProductCatalog(rows))
           /\ Functional(rows) => UniqueKeys(DimProductCatalog(rows))
BY Scd2Versions, Scd2UniqueKeys DEF DimProductCatalog

LEMMA WarehouseVersions ==
    ASSUME NEW rows, Timed(rows)
    PROVE  Versions(DimWarehouse(rows)) /\ UniqueKeys(DimWarehouse(rows))
<1> DEFINE seconds == Seconds(rows)
           total(t) == MapThenSumSet(LAMBDA i : rows[i].val, Within(rows, t))
           merged == [n \in 1..Cardinality(seconds) |->
                        LET t == Nth(seconds, n)
                        IN [ts |-> t, off |-> Max({rows[i].off : i \in Within(rows, t)}),
                            val |-> total(t)]]
<1>1. DimWarehouse(rows) = Scd2(merged)
  BY DEF DimWarehouse
<1> HIDE DEF total
<1>2. seconds \in SUBSET Nat /\ IsFiniteSet(seconds)
  BY SecondsOf
<1>3. ASSUME NEW n \in 1..Cardinality(seconds)
      PROVE  merged[n].ts \in Nat /\ merged[n].off \in Nat
  <2> DEFINE t == Nth(seconds, n)
             offs == {rows[i].off : i \in Within(rows, t)}
  <2>1. t \in seconds /\ t \in Nat
    BY <1>2, NthOf
  <2>2. merged[n].ts = t /\ merged[n].off = Max(offs)
    OBVIOUS
  <2> HIDE DEF merged, t
  <2>3. offs \in SUBSET Nat /\ IsFiniteSet(offs) /\ offs # {}
    BY <2>1, SecondsOf
  <2> HIDE DEF offs
  <2>4. Max(offs) \in Nat
    BY <2>3, MaxOf
  <2>5. QED
    BY <2>1, <2>2, <2>4
<1>4. Timed(merged)
  <2>1. Cardinality(seconds) \in Nat
    BY <1>2, FS_CardinalityType
  <2>2. DOMAIN merged = 1..Cardinality(seconds)
    OBVIOUS
  <2> HIDE DEF merged, seconds
  <2>3. IsFiniteSet(1..Cardinality(seconds)) /\ 1..Cardinality(seconds) \subseteq Nat
    BY <2>1, FS_Interval
  <2>4. QED
    BY <1>3, <2>2, <2>3 DEF Timed
<1>5. Functional(merged)
  <2>1. DOMAIN merged = 1..Cardinality(seconds)
        /\ \A n \in 1..Cardinality(seconds) : merged[n].ts = Nth(seconds, n)
    OBVIOUS
  <2> HIDE DEF merged, seconds
  <2>2. \A n \in 1..Cardinality(seconds) : Cardinality({u \in seconds : u <= Nth(seconds, n)}) = n
    BY <1>2, NthOf
  <2>3. \A n, k \in DOMAIN merged : merged[n].ts = merged[k].ts => n = k
    BY <2>1, <2>2
  <2>4. QED
    BY <2>3 DEF Functional
<1> HIDE DEF merged
<1>6. QED
  BY <1>1, <1>4, <1>5, Scd2Versions, Scd2UniqueKeys

LEMMA CustomerVersions ==
    ASSUME NEW users, Timed(users), NEW segments, Timed(segments), NEW pick
    PROVE  /\ Versions(DimCustomerProfile(users, segments, pick))
           /\ UniqueKeys(DimCustomerProfile(users, segments, pick))
<1> DEFINE seconds == Seconds(users) \cup Seconds(segments)
           offsets(t) == {users[i].off : i \in Within(users, t)}
                         \cup {segments[i].off : i \in Within(segments, t)}
           user == [t \in seconds |-> LastOf(users, Within(users, t), pick)]
           segment == [t \in seconds |-> LastOf(segments, Within(segments, t), pick)]
           merged == [n \in 1..Cardinality(seconds) |->
                        LET t == Nth(seconds, n)
                        IN [ts |-> t, off |-> Max(offsets(t)),
                            val |-> <<Filled(seconds, user, n), Filled(seconds, segment, n)>>]]
<1>1. DimCustomerProfile(users, segments, pick) = Scd2(merged)
  BY DEF DimCustomerProfile
<1> HIDE DEF user, segment
<1>2. seconds \in SUBSET Nat /\ IsFiniteSet(seconds)
  BY SecondsOf, FS_Union
<1>3. ASSUME NEW n \in 1..Cardinality(seconds)
      PROVE  merged[n].ts \in Nat /\ merged[n].off \in Nat
  <2> DEFINE t == Nth(seconds, n)
             offs == offsets(t)
  <2>1. t \in seconds /\ t \in Nat
    BY <1>2, NthOf
  <2>2. merged[n].ts = t /\ merged[n].off = Max(offs)
    OBVIOUS
  <2> HIDE DEF merged, t
  <2>3. offs \in SUBSET Nat /\ IsFiniteSet(offs) /\ offs # {}
    BY <2>1, SecondsOf, FS_Union
  <2> HIDE DEF offs
  <2>4. Max(offs) \in Nat
    BY <2>3, MaxOf
  <2>5. QED
    BY <2>1, <2>2, <2>4
<1>4. Timed(merged)
  <2>1. Cardinality(seconds) \in Nat
    BY <1>2, FS_CardinalityType
  <2>2. DOMAIN merged = 1..Cardinality(seconds)
    OBVIOUS
  <2> HIDE DEF merged, seconds
  <2>3. IsFiniteSet(1..Cardinality(seconds)) /\ 1..Cardinality(seconds) \subseteq Nat
    BY <2>1, FS_Interval
  <2>4. QED
    BY <1>3, <2>2, <2>3 DEF Timed
<1>5. Functional(merged)
  <2>1. DOMAIN merged = 1..Cardinality(seconds)
        /\ \A n \in 1..Cardinality(seconds) : merged[n].ts = Nth(seconds, n)
    OBVIOUS
  <2> HIDE DEF merged, seconds
  <2>2. \A n \in 1..Cardinality(seconds) : Cardinality({u \in seconds : u <= Nth(seconds, n)}) = n
    BY <1>2, NthOf
  <2>3. \A n, k \in DOMAIN merged : merged[n].ts = merged[k].ts => n = k
    BY <2>1, <2>2
  <2>4. QED
    BY <2>3 DEF Functional
<1> HIDE DEF merged
<1>6. QED
  BY <1>1, <1>4, <1>5, Scd2Versions, Scd2UniqueKeys

-----------------------------------------------------------------------------
(* Types *)

Counters == {"events", "updates", "starts", "faults"}

\* The generator, and what it has written to Postgres.
WriterType ==
    /\ streams \in Deployments
    /\ now \in Time
    /\ pg \in [product: Maybe(Nat), user: Maybe({0}), segment: Maybe(Segments),
               stock: Maybe(Stock)]
    /\ app \in [pc: {"off", "loop", "payment", "shipment", "upsert"}, running: BOOLEAN,
                order: Maybe(Nat), stock: Maybe(Stock)]
    /\ app.pc = "upsert" <=> app.stock # NULL
    /\ app.pc \in {"payment", "shipment"} <=> app.order # NULL
    /\ counts \in [Counters -> Nat]
    /\ \A what \in Counters : counts[what] <= Limit(what)

LEMMA LimitType ==
    ASSUME streams \in Deployments
    PROVE  /\ \A what \in Counters \cup {"qty", "segments"} : Limit(what) \in Nat
           /\ Stock \subseteq [qty: Nat, reserved: Nat]
           /\ Segments \subseteq Nat /\ Qty \subseteq Nat
           /\ NULL \notin Stock /\ NULL \notin Nat
<1>1. Limits[streams] \in [events: Nat, updates: Nat, starts: Nat, faults: Nat,
                           qty: Nat, segments: Nat]
  BY RetailAssumption
<1>2. \A what \in Counters \cup {"qty", "segments"} : Limit(what) \in Nat
  BY <1>1 DEF Limit, Counters
<1>3. Segments \subseteq Nat /\ Qty \subseteq Nat
  BY <1>2 DEF Segments, Qty
<1>4. Stock \subseteq [qty: Nat, reserved: Nat]
  BY <1>3 DEF Stock
<1>5. QED
  BY <1>2, <1>3, <1>4, RetailAssumption

LEMMA SameStreams ==
    ASSUME streams' = streams
    PROVE  /\ Topics' = Topics /\ Segments' = Segments /\ Stock' = Stock
           /\ \A what : Limit(what)' = Limit(what)
BY DEF Topics, Segments, Stock, Qty, Limit

\* What is taken from a stock is taken from the reserved stock first: what
\* stays reserved is still there.
LEMMA ReservedFirstCovers ==
    ASSUME NEW stock \in [qty: Nat, reserved: Nat], stock.reserved <= stock.qty, NEW d \in Int
    PROVE  ReservedFirst(stock, d).reserved <= ReservedFirst(stock, d).qty
<1> DEFINE used == IF d < 0 THEN Min({stock.reserved, -d}) ELSE 0
<1>1. stock.qty \in Nat /\ stock.reserved \in Nat
  OBVIOUS
<1>2. used = IF d < 0 THEN (IF stock.reserved <= -d THEN stock.reserved ELSE -d) ELSE 0
  <2>1. Min({stock.reserved, -d}) = IF stock.reserved <= -d THEN stock.reserved ELSE -d
    BY <1>1, MinOfTwo
  <2>2. QED
    BY <2>1
<1>3. /\ ReservedFirst(stock, d).qty = Max({0, stock.qty + d + used})
      /\ ReservedFirst(stock, d).reserved = stock.reserved - used
  BY DEF ReservedFirst
<1> HIDE DEF used
<1>4. used \in Int
  BY <1>1, <1>2
<1>5. Max({0, stock.qty + d + used}) = IF 0 >= stock.qty + d + used THEN 0 ELSE stock.qty + d + used
  BY <1>1, <1>4, MaxOfTwo
<1>6. QED
  BY <1>1, <1>2, <1>3, <1>5

-----------------------------------------------------------------------------
(* What the generator does to the topics *)

\* The id that the next event of a topic has at least: an order comes first,
\* then its payment and its shipment.
NextId(t) ==
    IF \/ t = "payments.v1" /\ app.pc # "payment"
       \/ t = "shipments.v1" /\ app.pc \notin {"payment", "shipment"}
    THEN counts.events + 1 ELSE counts.events

\* Nothing else than events at the end of topics, with new ids.
Grown ==
    /\ Lake
    /\ topics' = [t \in Topics |-> topics'[t]]
    /\ \A t \in Topics : \/ topics'[t] = topics[t]
                         \/ \E val \in Maybe(Nat) : topics'[t] = Append(topics[t], Event(t, val))
    /\ \A t \in Events : NextId(t) <= NextId(t)'
    /\ \A t \in Topics \cap Events : topics'[t] # topics[t] =>
            NextId(t) <= counts.events /\ counts.events < NextId(t)'

Function == topics = [t \in Topics |-> topics[t]]

LEMMA PublishGrows ==
    ASSUME Function, NEW t0 \in Events, NEW val \in Maybe(Nat), Publish(t0, val)
    PROVE  /\ topics' = [t \in Topics |-> topics'[t]]
           /\ \A t \in Topics : \/ topics'[t] = topics[t]
                                \/ t = t0 /\ topics'[t] = Append(topics[t], Event(t, val))
<1>1. CASE t0 \in Topics
  <2>1. topics' = [topics EXCEPT ![t0] = Append(@, Event(t0, val))]
    BY <1>1 DEF Publish
  <2>2. DOMAIN topics = Topics
    BY DEF Function
  <2>3. \A t \in Topics : topics'[t] = IF t = t0 THEN Append(topics[t0], Event(t0, val)) ELSE topics[t]
    BY <2>1, <2>2
  <2>4. topics' = [t \in Topics |-> topics'[t]]
    BY <2>1, <2>2
  <2>5. QED
    BY <2>3, <2>4
<1>2. CASE t0 \notin Topics
  BY <1>2 DEF Publish, Function
<1>3. QED
  BY <1>1, <1>2

LEMMA CaptureGrows ==
    ASSUME NEW changes, DOMAIN changes \subseteq Cdc, \A t \in DOMAIN changes : changes[t] \in Nat,
           Capture(changes)
    PROVE  /\ topics' = [t \in Topics |-> topics'[t]]
           /\ \A t \in Topics : \/ topics'[t] = topics[t]
                                \/ \E val \in Maybe(Nat) : topics'[t] = Append(topics[t], Event(t, val))
           /\ \A t \in Topics \cap Events : topics'[t] = topics[t]
<1>1. \A t \in Topics : topics'[t] = IF t \in DOMAIN changes THEN Append(topics[t], Event(t, changes[t]))
                                     ELSE topics[t]
  BY DEF Capture
<1>2. topics' = [t \in Topics |-> topics'[t]]
  BY DEF Capture
<1>3. \A t \in Events : t \notin DOMAIN changes
  BY DEF Events, Cdc
<1>4. \A t \in DOMAIN changes : changes[t] \in Maybe(Nat)
  BY DEF Maybe
<1>5. QED
  BY <1>1, <1>2, <1>3, <1>4

Covered == /\ ReservedIsCovered
           /\ app.stock # NULL => app.stock.reserved <= app.stock.qty

LEMMA CountType ==
    ASSUME WriterType, NEW what \in Counters, Count(what), streams' = streams
    PROVE  /\ counts' \in [Counters -> Nat]
           /\ \A k \in Counters : counts'[k] <= Limit(k)'
           /\ \A k \in Counters : counts'[k] = IF k = what THEN counts[k] + 1 ELSE counts[k]
<1>1. counts \in [Counters -> Nat] /\ \A k \in Counters : counts[k] <= Limit(k) /\ Limit(k) \in Nat
  BY LimitType DEF WriterType
<1>2. counts' = [counts EXCEPT ![what] = @ + 1] /\ counts[what] < Limit(what)
  BY DEF Count
<1>3. \A k : Limit(k)' = Limit(k)
  BY SameStreams
<1>4. \A k \in Counters : counts'[k] = IF k = what THEN counts[k] + 1 ELSE counts[k]
  BY <1>1, <1>2
<1>5. \A k \in Counters : counts'[k] <= Limit(k)
  BY <1>1, <1>2, <1>4
<1>6. counts' \in [Counters -> Nat]
  BY <1>1, <1>2
<1>7. QED
  BY <1>3, <1>4, <1>5, <1>6

\* What the step of an action of the generator is made of.
Wrote == WriterType' /\ Covered' /\ Grown

LEMMA SetupWrites ==
    ASSUME WriterType, Covered, Function, Setup
    PROVE  Wrote
<1>1. /\ app.pc = "off" /\ Count("starts") /\ Lake
      /\ app' = [Off EXCEPT !.pc = "loop", !.running = TRUE]
  BY DEF Setup
<1>2. streams' = streams /\ now' = now
  BY <1>1 DEF Lake
<1>3. PICK segment \in Segments, stock \in {s \in Stock : s.reserved <= s.qty} \cup {pg.stock} :
          LET product == IF pg.product = NULL THEN 0 ELSE pg.product
              row == [products |-> product, users |-> 0, customer_segments |-> segment,
                      warehouse_inventory |-> IF stock = NULL THEN 0 ELSE stock.qty]
              kept == (IF pg.product = NULL THEN {} ELSE {"products", "users"})
                      \cup (IF stock = pg.stock THEN {"warehouse_inventory"} ELSE {})
          IN /\ pg' = [product |-> product, user |-> 0, segment |-> segment, stock |-> stock]
             /\ Capture([t \in Cdc \ kept |-> row[t]])
  BY DEF Setup
<1> DEFINE product == IF pg.product = NULL THEN 0 ELSE pg.product
           row == [products |-> product, users |-> 0, customer_segments |-> segment,
                   warehouse_inventory |-> IF stock = NULL THEN 0 ELSE stock.qty]
           kept == (IF pg.product = NULL THEN {} ELSE {"products", "users"})
                   \cup (IF stock = pg.stock THEN {"warehouse_inventory"} ELSE {})
           changes == [t \in Cdc \ kept |-> row[t]]
<1>4. Capture(changes) /\ pg' = [product |-> product, user |-> 0, segment |-> segment, stock |-> stock]
  BY <1>3
<1>5. /\ stock \in Maybe(Stock) /\ (stock # NULL => stock \in [qty: Nat, reserved: Nat])
      /\ (stock # NULL => stock.reserved <= stock.qty)
      /\ product \in Nat /\ segment \in Nat
  BY LimitType DEF WriterType, Maybe, Covered, ReservedIsCovered
<1>6. \A t \in Cdc : row[t] \in Nat
  BY <1>5 DEF Cdc
<1>7. DOMAIN changes \subseteq Cdc /\ \A t \in DOMAIN changes : changes[t] \in Nat
  BY <1>6
<1> HIDE DEF changes, row, kept
<1>8. /\ topics' = [t \in Topics |-> topics'[t]]
      /\ \A t \in Topics : \/ topics'[t] = topics[t]
                           \/ \E val \in Maybe(Nat) : topics'[t] = Append(topics[t], Event(t, val))
      /\ \A t \in Topics \cap Events : topics'[t] = topics[t]
  BY <1>4, <1>7, CaptureGrows
<1> HIDE DEF product
<1>9. /\ app' = [pc |-> "loop", running |-> TRUE, order |-> NULL, stock |-> NULL]
      /\ pg'.stock = stock
  BY <1>1, <1>4 DEF Off
<1>10. /\ counts' \in [Counters -> Nat] /\ (\A k \in Counters : counts'[k] <= Limit(k)')
       /\ counts'.events = counts.events
  <2>1. "starts" \in Counters /\ "events" \in Counters
    BY DEF Counters
  <2>2. QED
    BY <1>1, <1>2, <2>1, CountType
<1>11. WriterType'
  <2>1. Maybe(Nat)' = Maybe(Nat) /\ Maybe({0})' = Maybe({0}) /\ Maybe(Segments)' = Maybe(Segments)
        /\ Maybe(Stock)' = Maybe(Stock)
    BY <1>2, SameStreams DEF Maybe
  <2>2. pg' \in [product: Maybe(Nat), user: Maybe({0}), segment: Maybe(Segments), stock: Maybe(Stock)]
    BY <1>4, <1>5 DEF Maybe
  <2>3. app' \in [pc: {"off", "loop", "payment", "shipment", "upsert"}, running: BOOLEAN,
                  order: Maybe(Nat), stock: Maybe(Stock)]
    BY <1>9 DEF Maybe
  <2>4. streams' \in Deployments /\ now' \in Time'
    BY <1>2 DEF WriterType, Time
  <2>5. QED
    BY <1>9, <1>10, <2>1, <2>2, <2>3, <2>4 DEF WriterType
<1>12. Covered'
  BY <1>5, <1>9 DEF Covered, ReservedIsCovered
<1>13. \A t \in Events : NextId(t) <= NextId(t)'
  <2>1. counts.events \in Nat
    BY DEF WriterType, Counters
  <2>2. QED
    BY <1>1, <1>9, <1>10, <2>1 DEF NextId
<1>14. QED
  BY <1>1, <1>8, <1>11, <1>12, <1>13 DEF Wrote, Grown

LEMMA WriterStays ==
    ASSUME WriterType, streams' = streams, now' \in Time,
           pg' \in [product: Maybe(Nat), user: Maybe({0}), segment: Maybe(Segments),
                    stock: Maybe(Stock)],
           app' \in [pc: {"off", "loop", "payment", "shipment", "upsert"}, running: BOOLEAN,
                     order: Maybe(Nat), stock: Maybe(Stock)],
           app'.pc = "upsert" <=> app'.stock # NULL,
           app'.pc \in {"payment", "shipment"} <=> app'.order # NULL,
           counts' = counts \/ \E what \in Counters : Count(what)
    PROVE  WriterType'
<1>2. Maybe(Nat)' = Maybe(Nat) /\ Maybe({0})' = Maybe({0}) /\ Maybe(Segments)' = Maybe(Segments)
      /\ Maybe(Stock)' = Maybe(Stock)
  BY SameStreams DEF Maybe
<1>3. counts' \in [Counters -> Nat] /\ (\A k \in Counters : counts'[k] <= Limit(k)')
  <2>1. CASE counts' = counts
    <3>1. \A k : Limit(k)' = Limit(k)
      BY SameStreams
    <3>2. QED
      BY <2>1, <3>1 DEF WriterType
  <2>2. CASE \E what \in Counters : Count(what)
    BY <2>2, CountType
  <2>3. QED
    BY <2>1, <2>2
<1>4. streams' \in Deployments /\ now' \in Time'
  BY DEF WriterType, Time
<1>5. QED
  BY <1>2, <1>3, <1>4 DEF WriterType

LEMMA WriterKept ==
    ASSUME WriterType, Lake,
           pg' \in [product: Maybe(Nat), user: Maybe({0}), segment: Maybe(Segments),
                    stock: Maybe(Stock)],
           app' \in [pc: {"off", "loop", "payment", "shipment", "upsert"}, running: BOOLEAN,
                     order: Maybe(Nat), stock: Maybe(Stock)],
           app'.pc = "upsert" <=> app'.stock # NULL,
           app'.pc \in {"payment", "shipment"} <=> app'.order # NULL,
           counts' = counts \/ \E what \in Counters : Count(what)
    PROVE  WriterType'
<1>1. streams' = streams /\ now' \in Time
  BY DEF Lake, WriterType
<1>2. QED
  BY <1>1, WriterStays

\* The stock that a change leaves.
LEMMA ChangedStock ==
    ASSUME WriterType, Covered, NEW stock \in ReadStock, NEW changed \in Changed(stock)
    PROVE  /\ changed \in Stock /\ changed # NULL /\ changed.reserved <= changed.qty
           /\ changed.qty \in Nat
<1>1. /\ Stock \subseteq [qty: Nat, reserved: Nat] /\ NULL \notin Stock /\ Limit("qty") \in Nat
      /\ Qty \subseteq Nat
  BY LimitType DEF WriterType, Counters
<1>2. stock \in [qty: Nat, reserved: Nat] /\ stock.reserved <= stock.qty
  <2>1. CASE pg.stock # NULL
    <3>1. stock = pg.stock /\ pg.stock \in Stock
      BY <2>1 DEF ReadStock, WriterType, Maybe
    <3>2. QED
      BY <1>1, <2>1, <3>1 DEF Covered, ReservedIsCovered
  <2>2. CASE pg.stock = NULL
    <3>1. PICK q \in Qty : stock = [qty |-> q, reserved |-> 0]
      BY <2>2 DEF ReadStock
    <3>2. QED
      BY <1>1, <3>1
  <2>3. QED
    BY <2>1, <2>2
<1>3. PICK d \in -Limit("qty") - 1..Limit("qty") : changed = ReservedFirst(stock, d) /\ changed \in Stock
  BY DEF Changed
<1>4. d \in Int
  BY <1>1
<1>5. changed.reserved <= changed.qty
  BY <1>2, <1>3, <1>4, ReservedFirstCovers
<1>6. QED
  BY <1>1, <1>3, <1>5

\* An action that leaves the topics of events alone.
LEMMA CaptureWrites ==
    ASSUME WriterType, Covered, Function, Lake, WriterType', Covered',
           counts'.events = counts.events, NextId("payments.v1") <= NextId("payments.v1")',
           NextId("shipments.v1") <= NextId("shipments.v1")',
           topics' = topics \/ \E changes : /\ DOMAIN changes \subseteq Cdc
                                            /\ \A t \in DOMAIN changes : changes[t] \in Nat
                                            /\ Capture(changes)
    PROVE  Wrote
<1>1. /\ topics' = [t \in Topics |-> topics'[t]]
      /\ \A t \in Topics : \/ topics'[t] = topics[t]
                           \/ \E val \in Maybe(Nat) : topics'[t] = Append(topics[t], Event(t, val))
      /\ \A t \in Topics \cap Events : topics'[t] = topics[t]
  <2>1. CASE topics' = topics
    BY <2>1 DEF Function
  <2>2. CASE topics' # topics
    <3>1. PICK changes : /\ DOMAIN changes \subseteq Cdc
                         /\ \A t \in DOMAIN changes : changes[t] \in Nat
                         /\ Capture(changes)
      BY <2>2
    <3>2. QED
      BY <3>1, CaptureGrows
  <2>3. QED
    BY <2>1, <2>2
<1>2. \A t \in Events : NextId(t) <= NextId(t)'
  <2>1. counts.events \in Nat
    BY DEF WriterType, Counters
  <2>2. \A t \in Events \ {"payments.v1", "shipments.v1"} :
            NextId(t) = counts.events /\ NextId(t)' = counts'.events
    BY DEF NextId
  <2>3. QED
    BY <2>1, <2>2
<1>3. QED
  BY <1>1, <1>2 DEF Wrote, Grown

LEMMA ExitWrites ==
    ASSUME WriterType, Covered, Function, Exit
    PROVE  Wrote
<1>1. /\ app' = Off /\ pg' = pg /\ topics' = topics /\ Lake
      /\ counts' = counts \/ Count("faults")
  BY DEF Exit
<1>2. "faults" \in Counters /\ "events" \in Counters
  BY DEF Counters
<1>3. counts'.events = counts.events /\ counts.events \in Nat
  BY <1>1, <1>2, CountType DEF WriterType, Lake
<1>4. app' = [pc |-> "off", running |-> FALSE, order |-> NULL, stock |-> NULL]
  BY <1>1 DEF Off
<1>5. WriterType'
  <2>1. app' \in [pc: {"off", "loop", "payment", "shipment", "upsert"}, running: BOOLEAN,
                  order: Maybe(Nat), stock: Maybe(Stock)]
    BY <1>4 DEF Maybe
  <2>2. pg' \in [product: Maybe(Nat), user: Maybe({0}), segment: Maybe(Segments), stock: Maybe(Stock)]
    BY <1>1 DEF WriterType
  <2>3. QED
    BY <1>1, <1>2, <1>4, <2>1, <2>2, WriterKept
<1>6. Covered'
  BY <1>1, <1>4 DEF Covered, ReservedIsCovered
<1>7. NextId("payments.v1") <= NextId("payments.v1")' /\ NextId("shipments.v1") <= NextId("shipments.v1")'
  BY <1>3, <1>4 DEF NextId
<1>8. QED
  BY <1>1, <1>3, <1>5, <1>6, <1>7, CaptureWrites

LEMMA UpdatePriceWrites ==
    ASSUME WriterType, Covered, Function, UpdatePrice
    PROVE  Wrote
<1>1. /\ app' = app /\ pg' = [pg EXCEPT !.product = @ + 1] /\ pg.product # NULL
      /\ Count("updates") /\ Lake /\ Capture([products |-> pg.product + 1])
  BY DEF UpdatePrice
<1>2. "updates" \in Counters /\ "events" \in Counters
  BY DEF Counters
<1>3. counts'.events = counts.events /\ counts.events \in Nat
  BY <1>1, <1>2, CountType DEF WriterType, Lake
<1>4. pg.product \in Nat
  BY <1>1 DEF WriterType, Maybe
<1>5. WriterType'
  <2>1. pg' \in [product: Maybe(Nat), user: Maybe({0}), segment: Maybe(Segments), stock: Maybe(Stock)]
    BY <1>1, <1>4 DEF WriterType, Maybe
  <2>2. app' \in [pc: {"off", "loop", "payment", "shipment", "upsert"}, running: BOOLEAN,
                  order: Maybe(Nat), stock: Maybe(Stock)]
        /\ (app'.pc = "upsert" <=> app'.stock # NULL)
        /\ (app'.pc \in {"payment", "shipment"} <=> app'.order # NULL)
    BY <1>1 DEF WriterType
  <2>3. QED
    BY <1>1, <1>2, <2>1, <2>2, WriterKept
<1>6. Covered'
  BY <1>1 DEF Covered, ReservedIsCovered, WriterType
<1>7. NextId("payments.v1") <= NextId("payments.v1")' /\ NextId("shipments.v1") <= NextId("shipments.v1")'
  BY <1>1, <1>3 DEF NextId
<1>8. \E changes : /\ DOMAIN changes \subseteq Cdc
                   /\ \A t \in DOMAIN changes : changes[t] \in Nat
                   /\ Capture(changes)
  <2> DEFINE changes == [products |-> pg.product + 1]
  <2>1. DOMAIN changes \subseteq Cdc /\ \A t \in DOMAIN changes : changes[t] \in Nat
    BY <1>4 DEF Cdc
  <2>2. Capture(changes)
    BY <1>1
  <2>3. QED
    BY <2>1, <2>2
<1>9. QED
  BY <1>1, <1>3, <1>5, <1>6, <1>7, <1>8, CaptureWrites

LEMMA UpdateInventoryWrites ==
    ASSUME WriterType, Covered, Function, UpdateInventory
    PROVE  Wrote
<1>1. PICK stock \in ReadStock : \E changed \in Changed(stock) :
          /\ pg' = [pg EXCEPT !.stock = changed]
          /\ Capture([warehouse_inventory |-> changed.qty])
  BY DEF UpdateInventory
<1>2. PICK changed \in Changed(stock) :
          /\ pg' = [pg EXCEPT !.stock = changed]
          /\ Capture([warehouse_inventory |-> changed.qty])
  BY <1>1
<1>3. app' = app /\ Count("updates") /\ Lake
  BY DEF UpdateInventory
<1>4. changed \in Stock /\ changed # NULL /\ changed.reserved <= changed.qty /\ changed.qty \in Nat
  BY ChangedStock
<1>5. "updates" \in Counters /\ "events" \in Counters
  BY DEF Counters
<1>6. counts'.events = counts.events /\ counts.events \in Nat
  BY <1>3, <1>5, CountType DEF WriterType, Lake
<1>7. pg'.stock = changed
  BY <1>2 DEF WriterType
<1>8. WriterType'
  <2>1. pg' \in [product: Maybe(Nat), user: Maybe({0}), segment: Maybe(Segments), stock: Maybe(Stock)]
    BY <1>2, <1>4 DEF WriterType, Maybe
  <2>2. app' \in [pc: {"off", "loop", "payment", "shipment", "upsert"}, running: BOOLEAN,
                  order: Maybe(Nat), stock: Maybe(Stock)]
        /\ (app'.pc = "upsert" <=> app'.stock # NULL)
        /\ (app'.pc \in {"payment", "shipment"} <=> app'.order # NULL)
    BY <1>3 DEF WriterType
  <2>3. QED
    BY <1>3, <1>5, <2>1, <2>2, WriterKept
<1>9. Covered'
  BY <1>3, <1>4, <1>7 DEF Covered, ReservedIsCovered
<1>10. NextId("payments.v1") <= NextId("payments.v1")' /\ NextId("shipments.v1") <= NextId("shipments.v1")'
  BY <1>3, <1>6 DEF NextId
<1>11. \E changes : /\ DOMAIN changes \subseteq Cdc
                    /\ \A t \in DOMAIN changes : changes[t] \in Nat
                    /\ Capture(changes)
  <2> DEFINE changes == [warehouse_inventory |-> changed.qty]
  <2>1. DOMAIN changes \subseteq Cdc /\ \A t \in DOMAIN changes : changes[t] \in Nat
    BY <1>4 DEF Cdc
  <2>2. Capture(changes)
    BY <1>2
  <2>3. QED
    BY <2>1, <2>2
<1>12. QED
  BY <1>3, <1>6, <1>8, <1>9, <1>10, <1>11, CaptureWrites

LEMMA UpsertInventoryWrites ==
    ASSUME WriterType, Covered, Function, UpsertInventory
    PROVE  Wrote
<1>1. app.pc = "upsert" /\ counts' = counts /\ Lake /\ counts.events \in Nat
  BY DEF UpsertInventory, WriterType, Counters
<1>2. app.stock \in Stock /\ app.stock # NULL /\ app.stock.qty \in Nat
      /\ app.stock.reserved <= app.stock.qty /\ app.order = NULL
  BY <1>1, LimitType DEF WriterType, Maybe, Covered
<1>3. CASE pg.product = NULL
  <2>1. /\ app' = [pc |-> "off", running |-> FALSE, order |-> NULL, stock |-> NULL]
        /\ pg' = pg /\ topics' = topics
    BY <1>3 DEF UpsertInventory, Off
  <2>2. app' \in [pc: {"off", "loop", "payment", "shipment", "upsert"}, running: BOOLEAN,
                  order: Maybe(Nat), stock: Maybe(Stock)]
    BY <2>1 DEF Maybe
  <2>3. pg' \in [product: Maybe(Nat), user: Maybe({0}), segment: Maybe(Segments), stock: Maybe(Stock)]
    BY <2>1 DEF WriterType
  <2>4. WriterType'
    BY <1>1, <2>1, <2>2, <2>3, WriterKept
  <2>5. Covered'
    BY <2>1 DEF Covered, ReservedIsCovered
  <2>6. NextId("payments.v1") <= NextId("payments.v1")' /\ NextId("shipments.v1") <= NextId("shipments.v1")'
    BY <1>1, <2>1 DEF NextId
  <2>7. QED
    BY <1>1, <2>1, <2>4, <2>5, <2>6, CaptureWrites
<1>4. CASE pg.product # NULL
  <2>1. /\ pg' = [pg EXCEPT !.stock = app.stock]
        /\ Capture([warehouse_inventory |-> app.stock.qty])
        /\ app' = [app EXCEPT !.pc = "loop", !.stock = NULL]
    BY <1>4 DEF UpsertInventory
  <2>2. app'.pc = "loop" /\ app'.stock = NULL /\ app'.order = NULL /\ pg'.stock = app.stock
    BY <1>2, <2>1 DEF WriterType
  <2>3. app' \in [pc: {"off", "loop", "payment", "shipment", "upsert"}, running: BOOLEAN,
                  order: Maybe(Nat), stock: Maybe(Stock)]
    BY <2>1 DEF WriterType, Maybe
  <2>4. pg' \in [product: Maybe(Nat), user: Maybe({0}), segment: Maybe(Segments), stock: Maybe(Stock)]
    BY <1>2, <2>1 DEF WriterType, Maybe
  <2>5. WriterType'
    BY <1>1, <2>2, <2>3, <2>4, WriterKept
  <2>6. Covered'
    BY <1>2, <2>2 DEF Covered, ReservedIsCovered
  <2>7. NextId("payments.v1") <= NextId("payments.v1")' /\ NextId("shipments.v1") <= NextId("shipments.v1")'
    BY <1>1, <2>2 DEF NextId
  <2>8. \E changes : /\ DOMAIN changes \subseteq Cdc
                     /\ \A t \in DOMAIN changes : changes[t] \in Nat
                     /\ Capture(changes)
    <3> DEFINE changes == [warehouse_inventory |-> app.stock.qty]
    <3>1. DOMAIN changes \subseteq Cdc /\ \A t \in DOMAIN changes : changes[t] \in Nat
      BY <1>2 DEF Cdc
    <3>2. Capture(changes)
      BY <2>1
    <3>3. QED
      BY <3>1, <3>2
  <2>9. QED
    BY <1>1, <2>5, <2>6, <2>7, <2>8, CaptureWrites
<1>5. QED
  BY <1>3, <1>4

\* An action that publishes an event.
LEMMA PublishWrites ==
    ASSUME WriterType, Covered, Function, Lake, WriterType', Covered',
           \A t \in Events : NextId(t) <= NextId(t)',
           NEW t0 \in Events, NEW val \in Maybe(Nat),
           topics' = topics \/ Publish(t0, val),
           NextId(t0) <= counts.events, counts.events < NextId(t0)'
    PROVE  Wrote
<1>1. CASE topics' = topics
  BY <1>1 DEF Function, Wrote, Grown
<1>2. CASE Publish(t0, val)
  <2>1. /\ topics' = [t \in Topics |-> topics'[t]]
        /\ \A t \in Topics : \/ topics'[t] = topics[t]
                             \/ t = t0 /\ topics'[t] = Append(topics[t], Event(t, val))
    BY <1>2, PublishGrows
  <2>2. QED
    BY <2>1 DEF Wrote, Grown
<1>3. QED
  BY <1>1, <1>2

\* One more event than before.
LEMMA OneMore ==
    ASSUME WriterType, Lake, Count("events")
    PROVE  /\ counts.events \in Nat /\ counts'.events = counts.events + 1
           /\ \E what \in Counters : Count(what)
<1>1. "events" \in Counters
  BY DEF Counters
<1>2. QED
  BY <1>1, CountType DEF WriterType, Lake

LEMMA EmitInventoryWrites ==
    ASSUME WriterType, Covered, Function, EmitInventory
    PROVE  Wrote
<1>1. app.pc = "loop" /\ Count("events") /\ Lake /\ pg' = pg /\ Publish("inventory-changes.v1", NULL)
  BY DEF EmitInventory, Loop
<1>2. PICK stock \in ReadStock : \E changed \in Changed(stock) :
          app' = [app EXCEPT !.pc = "upsert", !.stock = changed]
  BY DEF EmitInventory
<1>3. PICK changed \in Changed(stock) : app' = [app EXCEPT !.pc = "upsert", !.stock = changed]
  BY <1>2
<1>4. changed \in Stock /\ changed # NULL /\ changed.reserved <= changed.qty
  BY ChangedStock
<1>5. app'.pc = "upsert" /\ app'.stock = changed /\ app'.order = NULL
  BY <1>1, <1>3 DEF WriterType
<1>6. /\ counts.events \in Nat /\ counts'.events = counts.events + 1
      /\ \E what \in Counters : Count(what)
  BY <1>1, OneMore
<1>7. WriterType'
  <2>1. app' \in [pc: {"off", "loop", "payment", "shipment", "upsert"}, running: BOOLEAN,
                  order: Maybe(Nat), stock: Maybe(Stock)]
    BY <1>3, <1>4 DEF WriterType, Maybe
  <2>2. pg' \in [product: Maybe(Nat), user: Maybe({0}), segment: Maybe(Segments), stock: Maybe(Stock)]
    BY <1>1 DEF WriterType
  <2>3. QED
    BY <1>1, <1>4, <1>5, <1>6, <2>1, <2>2, WriterKept
<1>8. Covered'
  BY <1>1, <1>4, <1>5 DEF Covered, ReservedIsCovered
<1>9. /\ \A t \in Events : NextId(t) <= NextId(t)'
      /\ NextId("inventory-changes.v1") <= counts.events
      /\ counts.events < NextId("inventory-changes.v1")'
  BY <1>1, <1>5, <1>6 DEF NextId, Events
<1>10. NULL \in Maybe(Nat) /\ "inventory-changes.v1" \in Events
  BY DEF Maybe, Events
<1>11. QED
  BY <1>1, <1>7, <1>8, <1>9, <1>10, PublishWrites

LEMMA EmitInteractionWrites ==
    ASSUME WriterType, Covered, Function, EmitInteraction
    PROVE  Wrote
<1>1. /\ app.pc = "loop" /\ Count("events") /\ Lake /\ pg' = pg /\ app' = app
      /\ Publish("customer-interactions.v1", NULL)
  BY DEF EmitInteraction, Loop
<1>2. /\ counts.events \in Nat /\ counts'.events = counts.events + 1
      /\ \E what \in Counters : Count(what)
  BY <1>1, OneMore
<1>3. WriterType'
  <2>1. /\ pg' \in [product: Maybe(Nat), user: Maybe({0}), segment: Maybe(Segments), stock: Maybe(Stock)]
        /\ app' \in [pc: {"off", "loop", "payment", "shipment", "upsert"}, running: BOOLEAN,
                     order: Maybe(Nat), stock: Maybe(Stock)]
        /\ (app'.pc = "upsert" <=> app'.stock # NULL)
        /\ (app'.pc \in {"payment", "shipment"} <=> app'.order # NULL)
    BY <1>1 DEF WriterType
  <2>2. QED
    BY <1>1, <1>2, <2>1, WriterKept
<1>4. Covered'
  BY <1>1 DEF Covered, ReservedIsCovered
<1>5. /\ \A t \in Events : NextId(t) <= NextId(t)'
      /\ NextId("customer-interactions.v1") <= counts.events
      /\ counts.events < NextId("customer-interactions.v1")'
  BY <1>1, <1>2 DEF NextId, Events
<1>6. NULL \in Maybe(Nat) /\ "customer-interactions.v1" \in Events
  BY DEF Maybe, Events
<1>7. QED
  BY <1>1, <1>3, <1>4, <1>5, <1>6, PublishWrites

LEMMA EmitOrderWrites ==
    ASSUME WriterType, Covered, Function, EmitOrder
    PROVE  Wrote
<1>1. /\ app.pc = "loop" /\ Count("events") /\ Lake /\ pg' = pg
      /\ app' = [app EXCEPT !.pc = "payment", !.order = counts.events]
      /\ Publish("orders.v1", NULL)
  BY DEF EmitOrder, Loop
<1>2. /\ counts.events \in Nat /\ counts'.events = counts.events + 1
      /\ \E what \in Counters : Count(what)
  BY <1>1, OneMore
<1>3. app'.pc = "payment" /\ app'.order = counts.events /\ app'.stock = NULL /\ counts.events # NULL
  BY <1>1, <1>2, RetailAssumption DEF WriterType
<1>4. WriterType'
  <2>1. app' \in [pc: {"off", "loop", "payment", "shipment", "upsert"}, running: BOOLEAN,
                  order: Maybe(Nat), stock: Maybe(Stock)]
    BY <1>1, <1>2 DEF WriterType, Maybe
  <2>2. pg' \in [product: Maybe(Nat), user: Maybe({0}), segment: Maybe(Segments), stock: Maybe(Stock)]
    BY <1>1 DEF WriterType
  <2>3. QED
    BY <1>1, <1>2, <1>3, <2>1, <2>2, WriterKept
<1>5. Covered'
  BY <1>1, <1>3 DEF Covered, ReservedIsCovered
<1>6. /\ \A t \in Events : NextId(t) <= NextId(t)'
      /\ NextId("orders.v1") <= counts.events
      /\ counts.events < NextId("orders.v1")'
  BY <1>1, <1>2, <1>3 DEF NextId, Events
<1>7. NULL \in Maybe(Nat) /\ "orders.v1" \in Events
  BY DEF Maybe, Events
<1>8. QED
  BY <1>1, <1>4, <1>5, <1>6, <1>7, PublishWrites

LEMMA EmitPaymentWrites ==
    ASSUME WriterType, Covered, Function, EmitPayment
    PROVE  Wrote
<1>1. /\ app.pc = "payment" /\ pg' = pg /\ counts' = counts /\ Lake
      /\ topics' = topics \/ Publish("payments.v1", app.order)
      /\ Done \/ app' = [app EXCEPT !.pc = "shipment"]
  BY DEF EmitPayment
<1>2. counts.events \in Nat /\ app.order \in Nat /\ app.order # NULL /\ app.stock = NULL
  BY <1>1 DEF WriterType, Counters, Maybe
<1>3. /\ app' \in [pc: {"off", "loop", "payment", "shipment", "upsert"}, running: BOOLEAN,
                   order: Maybe(Nat), stock: Maybe(Stock)]
      /\ app'.stock = NULL
      /\ \/ app'.pc = "loop" /\ app'.order = NULL
         \/ app'.pc = "shipment" /\ app'.order = app.order
  BY <1>1, <1>2 DEF WriterType, Done, Maybe
<1>4. WriterType'
  <2>1. pg' \in [product: Maybe(Nat), user: Maybe({0}), segment: Maybe(Segments), stock: Maybe(Stock)]
    BY <1>1 DEF WriterType
  <2>2. QED
    BY <1>1, <1>2, <1>3, <2>1, WriterKept
<1>5. Covered'
  BY <1>1, <1>3 DEF Covered, ReservedIsCovered
<1>6. /\ \A t \in Events : NextId(t) <= NextId(t)'
      /\ NextId("payments.v1") <= counts.events
      /\ counts.events < NextId("payments.v1")'
  BY <1>1, <1>2, <1>3 DEF NextId, Events
<1>7. app.order \in Maybe(Nat) /\ "payments.v1" \in Events
  BY <1>2 DEF Maybe, Events
<1>8. QED
  BY <1>1, <1>4, <1>5, <1>6, <1>7, PublishWrites

LEMMA EmitShipmentWrites ==
    ASSUME WriterType, Covered, Function, EmitShipment
    PROVE  Wrote
<1>1. /\ app.pc = "shipment" /\ pg' = pg /\ counts' = counts /\ Lake
      /\ topics' = topics \/ Publish("shipments.v1", app.order)
      /\ app' = [app EXCEPT !.pc = "loop", !.order = NULL]
  BY DEF EmitShipment, Done
<1>2. counts.events \in Nat /\ app.order \in Nat /\ app.stock = NULL
  BY <1>1 DEF WriterType, Counters, Maybe
<1>3. /\ app' \in [pc: {"off", "loop", "payment", "shipment", "upsert"}, running: BOOLEAN,
                   order: Maybe(Nat), stock: Maybe(Stock)]
      /\ app'.stock = NULL /\ app'.pc = "loop" /\ app'.order = NULL
  BY <1>1, <1>2 DEF WriterType, Maybe
<1>4. WriterType'
  <2>1. pg' \in [product: Maybe(Nat), user: Maybe({0}), segment: Maybe(Segments), stock: Maybe(Stock)]
    BY <1>1 DEF WriterType
  <2>2. QED
    BY <1>1, <1>3, <2>1, WriterKept
<1>5. Covered'
  BY <1>1, <1>3 DEF Covered, ReservedIsCovered
<1>6. /\ \A t \in Events : NextId(t) <= NextId(t)'
      /\ NextId("shipments.v1") <= counts.events
      /\ counts.events < NextId("shipments.v1")'
  BY <1>1, <1>2, <1>3 DEF NextId, Events
<1>7. app.order \in Maybe(Nat) /\ "shipments.v1" \in Events
  BY <1>2 DEF Maybe, Events
<1>8. QED
  BY <1>1, <1>4, <1>5, <1>6, <1>7, PublishWrites

-----------------------------------------------------------------------------
(* Types of the topics and of the lake *)

\* The events of a topic are in the order of their time, and have new ids.
TopicsType ==
    /\ topics \in [Topics -> Seq(Row)]
    /\ \A t \in Topics : \A o \in DOMAIN topics[t] :
          /\ topics[t][o].topic = t /\ topics[t][o].off = o - 1 /\ topics[t][o].ts <= now
          /\ t \in Events => topics[t][o].id < NextId(t)
    /\ \A t \in Topics : \A o, p \in DOMAIN topics[t] : o < p =>
          /\ topics[t][o].ts <= topics[t][p].ts
          /\ t \in Events => topics[t][o].id < topics[t][p].id

JobOf(s) == [stream: {s}, offset: Offsets(s), plan: Offsets(s), written: BOOLEAN,
             phase: {"append", "commit"}]

TableType ==
    /\ bronze \in [streams -> Seq(Row)]
    /\ \A s \in streams : \A i \in DOMAIN bronze[s] :
          LET e == bronze[s][i]
          IN /\ e.topic \in Input(s) /\ e.ts <= now
             /\ \A t \in Events : e.topic = t => e.id < NextId(t)

\* The checkpoint of a running job, unless it was removed, is of its batch.
Rel ==
    LET point == checkpoint[job.stream]
    IN point # NULL => /\ point.offset = job.offset /\ point.plan = job.plan
                       /\ point.written <=> job.written \/ job.phase = "commit"

PointType ==
    /\ checkpoint = [s \in streams |-> checkpoint[s]]
    /\ \A s \in streams : checkpoint[s] # NULL =>
          checkpoint[s] \in Checkpoint(s) /\ (checkpoint[s].written => checkpoint[s].plan # NULL)
    /\ job # NULL => job.stream \in streams /\ job \in JobOf(job.stream) /\ Rel
    /\ outlived \subseteq streams

\* What the handler of the signal leaves.
Cleaned(replaced) ==
    /\ streams' = streams /\ bronze' = bronze /\ job' = job
    /\ now' = IF replaced THEN now + 1 ELSE now
    /\ topics' = IF replaced THEN [t \in Topics |-> <<>>] ELSE topics
    /\ \A t \in Events : NextId(t)' = NextId(t)
    /\ checkpoint' = [s \in streams |-> checkpoint'[s]]
    /\ \A s \in streams : checkpoint'[s] # NULL =>
          /\ checkpoint[s] # NULL
          /\ checkpoint'[s] = [checkpoint[s] EXCEPT !.stale = @ \/ replaced]
    /\ outlived' = outlived \cup
           {s \in streams : replaced /\ (checkpoint'[s] # NULL \/ Runs(s))}

LEMMA SignalCleans ==
    ASSUME WriterType, Covered, Signal
    PROVE  WriterType' /\ Covered' /\ \E replaced \in BOOLEAN : Cleaned(replaced)
<1>1. PICK truncated, replaced, removed \in BOOLEAN :
          /\ IF truncated /\ replaced /\ removed THEN UNCHANGED counts ELSE Count("faults")
          /\ clear_postgres(truncated)
          /\ clear_kafka(replaced)
          /\ clear_checkpoints(removed, replaced)
  BY DEF Signal
<1>2. /\ app' = [app EXCEPT !.running = FALSE] /\ streams' = streams /\ bronze' = bronze /\ job' = job
  BY DEF Signal
<1>3. counts' = counts \/ Count("faults")
  BY <1>1
<1>4. "faults" \in Counters /\ "events" \in Counters
  BY DEF Counters
<1>5. counts'.events = counts.events
  BY <1>2, <1>3, <1>4, CountType
<1>6. /\ app' \in [pc: {"off", "loop", "payment", "shipment", "upsert"}, running: BOOLEAN,
                   order: Maybe(Nat), stock: Maybe(Stock)]
      /\ app'.pc = app.pc /\ app'.order = app.order /\ app'.stock = app.stock
  BY <1>2 DEF WriterType
<1>7. pg' = Nobody \/ pg' = pg
  BY <1>1 DEF clear_postgres
<1>8. WriterType'
  <2>1. pg' \in [product: Maybe(Nat), user: Maybe({0}), segment: Maybe(Segments), stock: Maybe(Stock)]
    BY <1>7 DEF WriterType, Nobody, Maybe
  <2>2. now' \in Time
    <3>1. (replaced => now < MaxTime) /\ now' = IF replaced THEN now + 1 ELSE now
      BY <1>1 DEF clear_kafka
    <3>2. now \in 0..MaxTime /\ MaxTime \in Nat
      BY RetailAssumption DEF WriterType, Time
    <3>3. QED
      BY <3>1, <3>2 DEF Time
  <2>3. (app'.pc = "upsert" <=> app'.stock # NULL)
        /\ (app'.pc \in {"payment", "shipment"} <=> app'.order # NULL)
    BY <1>6 DEF WriterType
  <2>4. QED
    BY <1>2, <1>3, <1>4, <1>6, <2>1, <2>2, <2>3, WriterStays
<1>9. Covered'
  BY <1>6, <1>7 DEF Covered, ReservedIsCovered, Nobody
<1>10. Cleaned(replaced)
  <2>1. \A t \in Events : NextId(t)' = NextId(t)
    BY <1>5, <1>6 DEF NextId
  <2>2. /\ now' = IF replaced THEN now + 1 ELSE now
        /\ topics' = IF replaced THEN [t \in Topics |-> <<>>] ELSE topics
    BY <1>1 DEF clear_kafka
  <2>3. /\ checkpoint' = [s \in streams |->
               IF removed \/ checkpoint[s] = NULL THEN NULL
               ELSE [checkpoint[s] EXCEPT !.stale = @ \/ replaced]]
        /\ outlived' = outlived \cup
               {s \in streams : replaced /\ (checkpoint'[s] # NULL \/ Runs(s))}
    BY <1>1 DEF clear_checkpoints
  <2>4. checkpoint' = [s \in streams |-> checkpoint'[s]]
    BY <2>3
  <2>5. \A s \in streams : checkpoint'[s] # NULL =>
          /\ checkpoint[s] # NULL
          /\ checkpoint'[s] = [checkpoint[s] EXCEPT !.stale = @ \/ replaced]
    BY <2>3
  <2>6. QED
    BY <1>2, <2>1, <2>2, <2>3, <2>4, <2>5 DEF Cleaned
<1>11. QED
  BY <1>8, <1>9, <1>10

LEMMA StreamsAre ==
    ASSUME streams \in Deployments
    PROVE  /\ streams \subseteq Cdc \cup {"raw_events"} /\ Topics \subseteq Events \cup Cdc
           /\ \A s \in streams : Input(s) \subseteq Topics
           /\ \A s \in Cdc : Input(s) = {s} /\ s \notin Events
           /\ Input("raw_events") = Events
           /\ \A s \in streams : (Input(s) \subseteq Events /\ s = "raw_events")
                                 \/ (Input(s) = {s} /\ s \in Cdc /\ s \notin Events)
<1>1. streams \subseteq Cdc \cup {"raw_events"}
  BY RetailAssumption
<1>2. "raw_events" \notin Cdc /\ \A s \in Cdc : s \notin Events
  BY DEF Cdc, Events
<1>3. /\ \A s \in Cdc : Input(s) = {s}
      /\ Input("raw_events") = Events
  BY <1>2 DEF Input
<1>4. Topics \subseteq Events \cup Cdc /\ \A s \in streams : Input(s) \subseteq Topics
  BY <1>1, <1>3 DEF Topics
<1>5. QED
  BY <1>1, <1>2, <1>3, <1>4

\* Each topic of before is the beginning of one of after, and what is new has
\* the time of now.
LEMMA TopicGrows ==
    ASSUME WriterType, TopicsType, Grown, NEW t \in Topics
    PROVE  /\ topics'[t] \in Seq(Row)
           /\ Len(topics[t]) \in Nat /\ DOMAIN topics[t] = 1..Len(topics[t])
           /\ \A o \in DOMAIN topics[t] : o \in DOMAIN topics'[t] /\ topics'[t][o] = topics[t][o]
           /\ \A o \in DOMAIN topics'[t] \ DOMAIN topics[t] :
                /\ o = Len(topics[t]) + 1 /\ topics'[t][o].topic = t
                /\ topics'[t][o].off = o - 1 /\ topics'[t][o].ts = now
                /\ t \in Events => NextId(t) <= topics'[t][o].id /\ topics'[t][o].id < NextId(t)'
<1>1. topics[t] \in Seq(Row) /\ DOMAIN topics[t] = 1..Len(topics[t]) /\ Len(topics[t]) \in Nat
  BY LenProperties DEF TopicsType
<1>2. CASE topics'[t] = topics[t]
  BY <1>1, <1>2
<1>3. CASE topics'[t] # topics[t]
  <2>1. PICK val \in Maybe(Nat) : topics'[t] = Append(topics[t], Event(t, val))
    BY <1>3 DEF Grown
  <2> DEFINE e == Event(t, val)
  <2>2. e.topic = t /\ e.off = Len(topics[t]) /\ e.ts = now /\ e.id = counts.events
    BY DEF Event
  <2>3. e \in Row
    <3>1. t \in Events \cup Cdc
      BY StreamsAre DEF WriterType
    <3>2. now \in Nat /\ counts.events \in Nat
      BY RetailAssumption DEF WriterType, Time, Counters
    <3>3. QED
      BY <1>1, <3>1, <3>2 DEF Event, Row
  <2>4. t \in Events => NextId(t) <= e.id /\ e.id < NextId(t)'
    BY <1>3, <2>2 DEF Grown
  <2> HIDE DEF e
  <2>5. /\ topics'[t] \in Seq(Row) /\ Len(topics'[t]) = Len(topics[t]) + 1
        /\ \A o \in 1..Len(topics[t]) : topics'[t][o] = topics[t][o]
        /\ topics'[t][Len(topics[t]) + 1] = e
    BY <1>1, <2>1, <2>3, AppendProperties DEF e
  <2>6. DOMAIN topics'[t] = 1..Len(topics[t]) + 1
    BY <2>5, LenProperties
  <2>7. \A o \in DOMAIN topics'[t] \ DOMAIN topics[t] : o = Len(topics[t]) + 1
    BY <1>1, <2>6
  <2>8. \A o \in DOMAIN topics[t] : o \in DOMAIN topics'[t] /\ topics'[t][o] = topics[t][o]
    BY <1>1, <2>5, <2>6
  <2>9. QED
    BY <1>1, <2>2, <2>4, <2>5, <2>7, <2>8
<1>4. QED
  BY <1>2, <1>3

LEMMA IdType ==
    ASSUME WriterType
    PROVE  now \in Nat /\ \A t : NextId(t) \in Nat
BY RetailAssumption DEF WriterType, Time, Counters, NextId

LEMMA GrownTopics ==
    ASSUME WriterType, TopicsType, Grown, WriterType'
    PROVE  TopicsType'
<1>1. streams' = streams /\ now' = now /\ Topics' = Topics
  BY SameStreams DEF Grown, Lake
<1>2. topics' \in [Topics -> Seq(Row)]
  <2>1. topics' = [t \in Topics |-> topics'[t]] /\ \A t \in Topics : topics'[t] \in Seq(Row)
    BY TopicGrows DEF Grown
  <2>2. QED
    BY <2>1
<1>3. now \in Nat /\ (\A t : NextId(t) \in Nat) /\ (\A t : NextId(t)' \in Nat)
  <2>1. now \in Nat /\ (\A t : NextId(t) \in Nat)
    BY IdType
  <2>2. \A t : NextId(t)' \in Nat
    BY DEF WriterType, Counters, NextId
  <2>3. QED
    BY <2>1, <2>2
<1>4. \A t \in Events : NextId(t) <= NextId(t)'
  BY DEF Grown
<1>5. \A t \in Topics : \A o \in DOMAIN topics[t] :
         topics[t][o].id \in Nat /\ topics[t][o].ts \in Nat
  <2>1. ASSUME NEW t \in Topics, NEW o \in DOMAIN topics[t]
        PROVE  topics[t][o] \in Row
    BY ElementOfSeq, LenProperties DEF TopicsType
  <2>2. QED
    BY <2>1 DEF Row
<1>6. ASSUME NEW t \in Topics, NEW o \in DOMAIN topics'[t]
      PROVE  /\ topics'[t][o].topic = t /\ topics'[t][o].off = o - 1 /\ topics'[t][o].ts <= now
             /\ t \in Events => topics'[t][o].id < NextId(t)'
  <2>1. CASE o \in DOMAIN topics[t]
    <3>1. topics'[t][o] = topics[t][o]
      BY <2>1, TopicGrows
    <3>2. /\ topics[t][o].topic = t /\ topics[t][o].off = o - 1 /\ topics[t][o].ts <= now
          /\ t \in Events => topics[t][o].id < NextId(t)
      BY <2>1 DEF TopicsType
    <3>3. t \in Events => topics[t][o].id < NextId(t)'
      BY <1>3, <1>4, <1>5, <2>1, <3>2
    <3>4. QED
      BY <3>1, <3>2, <3>3
  <2>2. CASE o \notin DOMAIN topics[t]
    BY <1>3, <2>2, TopicGrows
  <2>3. QED
    BY <2>1, <2>2
<1>7. ASSUME NEW t \in Topics, NEW o \in DOMAIN topics'[t], NEW p \in DOMAIN topics'[t], o < p
      PROVE  /\ topics'[t][o].ts <= topics'[t][p].ts
             /\ t \in Events => topics'[t][o].id < topics'[t][p].id
  <2>1. CASE p \in DOMAIN topics[t]
    <3>1. o \in DOMAIN topics[t]
      <4>1. /\ DOMAIN topics[t] = 1..Len(topics[t]) /\ Len(topics[t]) \in Nat
            /\ topics'[t] \in Seq(Row)
        BY TopicGrows
      <4>2. o \in Nat /\ 1 <= o
        BY <4>1, LenProperties
      <4>3. QED
        BY <1>7, <2>1, <4>1, <4>2
    <3>2. topics'[t][o] = topics[t][o] /\ topics'[t][p] = topics[t][p]
      BY <2>1, <3>1, TopicGrows
    <3>3. QED
      BY <1>7, <2>1, <3>1, <3>2 DEF TopicsType
  <2>2. CASE p \notin DOMAIN topics[t]
    <3>1. /\ p = Len(topics[t]) + 1 /\ topics'[t][p].ts = now
          /\ t \in Events => NextId(t) <= topics'[t][p].id
      BY <2>2, TopicGrows
    <3>2. o \in DOMAIN topics[t]
      <4>1. Len(topics[t]) \in Nat /\ \A q \in DOMAIN topics'[t] \ DOMAIN topics[t] : q = Len(topics[t]) + 1
        BY TopicGrows
      <4>2. QED
        BY <1>7, <3>1, <4>1
    <3>3. /\ topics'[t][o] = topics[t][o] /\ topics[t][o].ts <= now
          /\ t \in Events => topics[t][o].id < NextId(t)
      BY <3>2, TopicGrows DEF TopicsType
    <3>4. topics'[t][p].id \in Nat
      <4>1. topics'[t][p] \in Row
        BY TopicGrows, ElementOfSeq, LenProperties
      <4>2. QED
        BY <4>1 DEF Row
    <3>5. QED
      BY <1>3, <1>5, <3>1, <3>2, <3>3, <3>4
  <2>3. QED
    BY <2>1, <2>2
<1>8. QED
  BY <1>1, <1>2, <1>6, <1>7 DEF TopicsType

LEMMA CleanedTopics ==
    ASSUME WriterType, TopicsType, NEW replaced \in BOOLEAN, Cleaned(replaced)
    PROVE  TopicsType'
<1>1. Topics' = Topics /\ \A t \in Events : NextId(t)' = NextId(t)
  BY SameStreams DEF Cleaned
<1>2. CASE replaced
  <2>1. topics' = [t \in Topics |-> <<>>]
    BY <1>2 DEF Cleaned
  <2>2. topics' \in [Topics -> Seq(Row)] /\ \A t \in Topics : DOMAIN topics'[t] = {}
    BY <2>1
  <2>3. QED
    BY <1>1, <2>2 DEF TopicsType
<1>3. CASE ~ replaced
  <2>1. topics' = topics /\ now' = now
    BY <1>3 DEF Cleaned
  <2>2. QED
    BY <1>1, <2>1 DEF TopicsType
<1>4. QED
  BY <1>2, <1>3

\* The steps of the clock and of the jobs leave the generator and the topics.
Elsewhere == UNCHANGED <<streams, pg, app, topics>> /\ now' \in {now, now + 1} \cap Time
             /\ (counts' = counts \/ Count("faults"))

LEMMA ElsewhereWriter ==
    ASSUME WriterType, Covered, TopicsType, Elsewhere
    PROVE  WriterType' /\ Covered' /\ TopicsType' /\ \A t : NextId(t)' = NextId(t)
<1>1. "faults" \in Counters /\ "events" \in Counters
  BY DEF Counters
<1>2. counts'.events = counts.events
  BY <1>1, CountType DEF Elsewhere
<1>3. WriterType'
  <2>1. /\ pg' \in [product: Maybe(Nat), user: Maybe({0}), segment: Maybe(Segments), stock: Maybe(Stock)]
        /\ app' \in [pc: {"off", "loop", "payment", "shipment", "upsert"}, running: BOOLEAN,
                     order: Maybe(Nat), stock: Maybe(Stock)]
        /\ (app'.pc = "upsert" <=> app'.stock # NULL)
        /\ (app'.pc \in {"payment", "shipment"} <=> app'.order # NULL)
    BY DEF WriterType, Elsewhere
  <2>2. streams' = streams /\ now' \in Time
    BY DEF Elsewhere
  <2>3. counts' = counts \/ \E what \in Counters : Count(what)
    BY <1>1 DEF Elsewhere
  <2>4. QED
    BY <2>1, <2>2, <2>3, WriterStays
<1>4. Covered'
  BY DEF Covered, ReservedIsCovered, Elsewhere
<1>5. \A t : NextId(t)' = NextId(t)
  BY <1>2 DEF NextId, Elsewhere
<1>6. TopicsType'
  <2>1. Topics' = Topics /\ topics' = topics
    BY SameStreams DEF Elsewhere
  <2>2. \A t \in Topics : \A o \in DOMAIN topics[t] : topics[t][o].ts <= now'
    <3>1. TAKE t \in Topics
    <3>2. TAKE o \in DOMAIN topics[t]
    <3>3. topics[t][o] \in Row /\ topics[t][o].ts <= now
      BY ElementOfSeq, LenProperties DEF TopicsType
    <3>4. now \in Nat /\ topics[t][o].ts \in Nat
      BY <3>3, IdType DEF Row
    <3>5. QED
      BY <3>3, <3>4 DEF Elsewhere
  <2>3. QED
    BY <1>5, <2>1, <2>2 DEF TopicsType
<1>7. QED
  BY <1>3, <1>4, <1>5, <1>6

-----------------------------------------------------------------------------
(* Batches *)

Types == WriterType /\ Covered /\ TopicsType /\ TableType /\ PointType

\* The offsets of a topic that are in the batch of the job.
Span(t) == job.offset[t] + 1..Min({job.plan[t], Len(topics[t])})

\* No event is there twice.
Differ(rows) ==
    \A i, j \in DOMAIN rows :
        rows[i].topic \in Events /\ rows[i].topic = rows[j].topic /\ rows[i].id = rows[j].id => i = j

\* The rows are those of the batch, of some topics.
BatchOf(rows, T) ==
    /\ rows \in Seq(Row) /\ Differ(rows)
    /\ \A i \in DOMAIN rows : \E t \in T : \E o \in Span(t) : rows[i] = topics[t][o]
    /\ \A t \in T : \A o \in Span(t) : In(topics[t][o], rows)

LEMMA SpanType ==
    ASSUME TopicsType, PointType, job # NULL, NEW t \in Input(job.stream), t \in Topics
    PROVE  /\ job.offset[t] \in Nat /\ job.plan[t] \in Nat /\ Len(topics[t]) \in Nat
           /\ topics[t] \in Seq(Row) /\ DOMAIN topics[t] = 1..Len(topics[t])
           /\ Span(t) = job.offset[t] + 1..(IF job.plan[t] <= Len(topics[t]) THEN job.plan[t]
                                            ELSE Len(topics[t]))
           /\ \A o : o \in Span(t) <=> /\ o \in DOMAIN topics[t] /\ o > job.offset[t]
                                       /\ o <= job.plan[t]
           /\ \A o \in Span(t) : topics[t][o] \in Row /\ topics[t][o].topic = t
<1>1. job.offset[t] \in Nat /\ job.plan[t] \in Nat
  BY DEF PointType, JobOf, Offsets
<1>2. topics[t] \in Seq(Row) /\ Len(topics[t]) \in Nat /\ DOMAIN topics[t] = 1..Len(topics[t])
  BY LenProperties DEF TopicsType
<1>3. Min({job.plan[t], Len(topics[t])}) = IF job.plan[t] <= Len(topics[t]) THEN job.plan[t]
                                           ELSE Len(topics[t])
  BY <1>1, <1>2, MinOfTwo
<1>4. \A o : o \in Span(t) <=> /\ o \in DOMAIN topics[t] /\ o > job.offset[t] /\ o <= job.plan[t]
  BY <1>1, <1>2, <1>3 DEF Span
<1>5. \A o \in Span(t) : topics[t][o] \in Row /\ topics[t][o].topic = t
  BY <1>2, <1>4, ElementOfSeq DEF TopicsType
<1>6. QED
  BY <1>1, <1>2, <1>3, <1>4, <1>5 DEF Span

LEMMA BatchOfTopic ==
    ASSUME TopicsType, PointType, job # NULL, NEW t \in Input(job.stream), t \in Topics
    PROVE  BatchOf(Batch(t), {t})
<1> DEFINE m == job.offset[t] + 1
           n == IF job.plan[t] <= Len(topics[t]) THEN job.plan[t] ELSE Len(topics[t])
           rows == Batch(t)
<1>1. /\ job.offset[t] \in Nat /\ job.plan[t] \in Nat /\ Len(topics[t]) \in Nat
      /\ topics[t] \in Seq(Row) /\ DOMAIN topics[t] = 1..Len(topics[t])
      /\ Span(t) = m..n
      /\ \A o \in Span(t) : o \in DOMAIN topics[t] /\ topics[t][o] \in Row /\ topics[t][o].topic = t
  BY SpanType
<1>2. m \in Int /\ n \in Int /\ m >= 1
  BY <1>1
<1>3. rows = SubSeq(topics[t], m, n)
  <2>1. Min({job.plan[t], Len(topics[t])}) = n
    BY <1>1, MinOfTwo
  <2>2. QED
    BY <2>1 DEF Batch
<1> HIDE DEF m, n, rows
<1>4. /\ rows \in Seq(Row) /\ Len(rows) = IF m <= n THEN n - m + 1 ELSE 0
      /\ \A i \in 1..n - m + 1 : rows[i] = topics[t][m + i - 1]
  <2>1. \A i \in m..n : topics[t][i] \in Row
    BY <1>1
  <2>2. QED
    BY <1>2, <1>3, <2>1, SubSeqProperties
<1>5. DOMAIN rows = 1..n - m + 1
  <2>1. DOMAIN rows = 1..Len(rows)
    BY <1>4, LenProperties
  <2>2. QED
    BY <1>2, <1>4, <2>1
<1>6. \A i \in DOMAIN rows : m + i - 1 \in Span(t) /\ rows[i] = topics[t][m + i - 1]
  BY <1>1, <1>2, <1>4, <1>5
<1>7. ASSUME NEW o \in Span(t) PROVE In(topics[t][o], rows)
  <2>1. o - m + 1 \in DOMAIN rows /\ m + (o - m + 1) - 1 = o
    BY <1>1, <1>2, <1>5
  <2>2. rows[o - m + 1] = topics[t][o]
    BY <1>6, <2>1
  <2>3. QED
    BY <2>1, <2>2 DEF In
<1>8. Differ(rows)
  <2> SUFFICES ASSUME NEW i \in DOMAIN rows, NEW j \in DOMAIN rows,
                      rows[i].topic \in Events, rows[i].id = rows[j].id
               PROVE  i = j
    BY DEF Differ
  <2> DEFINE o == m + i - 1
             p == m + j - 1
  <2>1. /\ o \in DOMAIN topics[t] /\ p \in DOMAIN topics[t]
        /\ rows[i] = topics[t][o] /\ rows[j] = topics[t][p] /\ topics[t][o].topic = t
        /\ topics[t][o] \in Row /\ topics[t][p] \in Row
    BY <1>1, <1>6
  <2>2. i \in Int /\ j \in Int /\ o \in Int /\ p \in Int /\ (o = p => i = j)
    BY <1>2, <1>5
  <2> HIDE DEF o, p
  <2>3. t \in Events /\ topics[t][o].id = topics[t][p].id /\ topics[t][o].id \in Nat
    BY <2>1 DEF Row
  <2>4. ~ o < p /\ ~ p < o
    BY <2>1, <2>3 DEF TopicsType
  <2>5. QED
    BY <2>2, <2>4
<1>9. QED
  BY <1>4, <1>6, <1>7, <1>8 DEF BatchOf, rows

LEMMA InBoth ==
    ASSUME NEW a \in Seq(Row), NEW b \in Seq(Row)
    PROVE  /\ a \o b \in Seq(Row)
           /\ \A e : In(e, a \o b) <=> In(e, a) \/ In(e, b)
           /\ DOMAIN a = 1..Len(a) /\ DOMAIN b = 1..Len(b) /\ Len(a) \in Nat /\ Len(b) \in Nat
           /\ DOMAIN (a \o b) = 1..Len(a) + Len(b)
           /\ \A i \in DOMAIN (a \o b) :
                 \/ i \in DOMAIN a /\ (a \o b)[i] = a[i]
                 \/ i \notin DOMAIN a /\ i - Len(a) \in DOMAIN b /\ (a \o b)[i] = b[i - Len(a)]
<1> DEFINE c == a \o b
<1>1. /\ c \in Seq(Row) /\ Len(c) = Len(a) + Len(b)
      /\ \A i \in 1..Len(a) + Len(b) : c[i] = IF i <= Len(a) THEN a[i] ELSE b[i - Len(a)]
      /\ DOMAIN a = 1..Len(a) /\ DOMAIN b = 1..Len(b) /\ Len(a) \in Nat /\ Len(b) \in Nat
      /\ DOMAIN c = 1..Len(a) + Len(b)
  BY ConcatProperties, LenProperties
<1> HIDE DEF c
<1>2. \A i \in DOMAIN c :
         \/ i \in DOMAIN a /\ c[i] = a[i]
         \/ i \notin DOMAIN a /\ i - Len(a) \in DOMAIN b /\ c[i] = b[i - Len(a)]
  BY <1>1
<1>3. \A i \in DOMAIN a : i \in DOMAIN c /\ c[i] = a[i]
  BY <1>1
<1>4. \A i \in DOMAIN b : i + Len(a) \in DOMAIN c /\ c[i + Len(a)] = b[i]
  BY <1>1
<1>5. \A e : In(e, c) <=> In(e, a) \/ In(e, b)
  BY <1>2, <1>3, <1>4 DEF In
<1>6. QED
  BY <1>1, <1>2, <1>5 DEF c

\* What is of different topics, or is new, makes no event appear twice.
LEMMA DifferBoth ==
    ASSUME NEW a \in Seq(Row), NEW b \in Seq(Row), Differ(a), Differ(b),
           \A i \in DOMAIN a, j \in DOMAIN b :
               a[i].topic \in Events /\ a[i].topic = b[j].topic => a[i].id # b[j].id
    PROVE  Differ(a \o b)
<1> DEFINE c == a \o b
<1>1. /\ DOMAIN a = 1..Len(a) /\ DOMAIN b = 1..Len(b) /\ Len(a) \in Nat /\ Len(b) \in Nat
      /\ DOMAIN c = 1..Len(a) + Len(b)
      /\ \A i \in DOMAIN c :
            \/ i \in DOMAIN a /\ c[i] = a[i]
            \/ i \notin DOMAIN a /\ i - Len(a) \in DOMAIN b /\ c[i] = b[i - Len(a)]
  BY InBoth
<1> HIDE DEF c
<1>2. SUFFICES ASSUME NEW i \in DOMAIN c, NEW j \in DOMAIN c,
                      c[i].topic \in Events, c[i].topic = c[j].topic, c[i].id = c[j].id
               PROVE  i = j
  BY DEF Differ, c
<1>3. CASE i \in DOMAIN a /\ j \in DOMAIN a
  BY <1>1, <1>2, <1>3 DEF Differ
<1>4. CASE i \notin DOMAIN a /\ j \notin DOMAIN a
  <2>1. i - Len(a) = j - Len(a)
    BY <1>1, <1>2, <1>4 DEF Differ
  <2>2. QED
    BY <1>1, <2>1
<1>5. CASE i \in DOMAIN a /\ j \notin DOMAIN a
  BY <1>1, <1>2, <1>5
<1>6. CASE i \notin DOMAIN a /\ j \in DOMAIN a
  BY <1>1, <1>2, <1>6
<1>7. QED
  BY <1>3, <1>4, <1>5, <1>6

LEMMA BatchOfBoth ==
    ASSUME TopicsType, PointType, job # NULL, NEW A, NEW B,
           A \subseteq Input(job.stream) \cap Topics, B \subseteq Input(job.stream) \cap Topics,
           A \cap B = {}, NEW a, NEW b, BatchOf(a, A), BatchOf(b, B)
    PROVE  BatchOf(a \o b, A \cup B)
<1> DEFINE c == a \o b
<1>1. a \in Seq(Row) /\ b \in Seq(Row) /\ Differ(a) /\ Differ(b)
  BY DEF BatchOf
<1>2. /\ c \in Seq(Row) /\ \A e : In(e, c) <=> In(e, a) \/ In(e, b)
      /\ \A i \in DOMAIN c :
            \/ i \in DOMAIN a /\ c[i] = a[i]
            \/ i - Len(a) \in DOMAIN b /\ c[i] = b[i - Len(a)]
  BY <1>1, InBoth
<1>3. \A t \in A \cup B : \A o \in Span(t) : topics[t][o].topic = t
  BY SpanType
<1>4. \A i \in DOMAIN a, j \in DOMAIN b : a[i].topic # b[j].topic
  <2>1. \A i \in DOMAIN a : a[i].topic \in A
    BY <1>3 DEF BatchOf
  <2>2. \A j \in DOMAIN b : b[j].topic \in B
    BY <1>3 DEF BatchOf
  <2>3. QED
    BY <2>1, <2>2
<1>5. Differ(c)
  BY <1>1, <1>4, DifferBoth
<1> HIDE DEF c
<1>6. ASSUME NEW i \in DOMAIN c
      PROVE  \E t \in A \cup B : \E o \in Span(t) : c[i] = topics[t][o]
  <2>1. CASE i \in DOMAIN a /\ c[i] = a[i]
    BY <2>1 DEF BatchOf
  <2>2. CASE i - Len(a) \in DOMAIN b /\ c[i] = b[i - Len(a)]
    BY <2>2 DEF BatchOf
  <2>3. QED
    BY <1>2, <2>1, <2>2
<1>7. \A t \in A \cup B : \A o \in Span(t) : In(topics[t][o], c)
  BY <1>2 DEF BatchOf
<1>8. QED
  BY <1>2, <1>5, <1>6, <1>7 DEF BatchOf, c

LEMMA RowsOfBatch ==
    ASSUME WriterType, TopicsType, PointType, job # NULL
    PROVE  BatchOf(Rows(job.stream), Input(job.stream))
<1> DEFINE s == job.stream
<1>1. s \in streams /\ Input(s) \subseteq Topics
  BY StreamsAre DEF PointType, WriterType
<1>2. \A t \in Input(s) : BatchOf(Batch(t), {t})
  BY <1>1, BatchOfTopic
<1>3. CASE s = "raw_events"
  <2> DEFINE o == "orders.v1"
             p == "payments.v1"
             h == "shipments.v1"
             v == "inventory-changes.v1"
             c == "customer-interactions.v1"
  <2>1. Input(s) = {o, p, h, v, c}
    BY <1>3 DEF Input, Events
  <2>2. {o, p, h, v, c} \subseteq Input(job.stream) \cap Topics
    BY <1>1, <2>1
  <2>3. BatchOf(Batch(o) \o Batch(p), {o, p})
    <3>1. {o} \cap {p} = {} /\ {o, p} = {o} \cup {p}
      OBVIOUS
    <3>2. BatchOf(Batch(o) \o Batch(p), {o} \cup {p})
      BY <1>2, <2>1, <2>2, <3>1, BatchOfBoth
    <3>3. QED
      BY <3>1, <3>2
  <2>4. BatchOf(Batch(o) \o Batch(p) \o Batch(h), {o, p, h})
    <3>1. {o, p} \cap {h} = {} /\ {o, p, h} = {o, p} \cup {h}
      OBVIOUS
    <3>2. BatchOf(Batch(o) \o Batch(p) \o Batch(h), {o, p} \cup {h})
      BY <1>2, <2>1, <2>2, <2>3, <3>1, BatchOfBoth
    <3>3. QED
      BY <3>1, <3>2
  <2>5. BatchOf(Batch(o) \o Batch(p) \o Batch(h) \o Batch(v), {o, p, h, v})
    <3>1. {o, p, h} \cap {v} = {} /\ {o, p, h, v} = {o, p, h} \cup {v}
      OBVIOUS
    <3>2. BatchOf(Batch(o) \o Batch(p) \o Batch(h) \o Batch(v), {o, p, h} \cup {v})
      BY <1>2, <2>1, <2>2, <2>4, <3>1, BatchOfBoth
    <3>3. QED
      BY <3>1, <3>2
  <2>6. BatchOf(Batch(o) \o Batch(p) \o Batch(h) \o Batch(v) \o Batch(c), {o, p, h, v, c})
    <3>1. {o, p, h, v} \cap {c} = {} /\ {o, p, h, v, c} = {o, p, h, v} \cup {c}
      OBVIOUS
    <3>2. BatchOf(Batch(o) \o Batch(p) \o Batch(h) \o Batch(v) \o Batch(c), {o, p, h, v} \cup {c})
      BY <1>2, <2>1, <2>2, <2>5, <3>1, BatchOfBoth
    <3>3. QED
      BY <3>1, <3>2
  <2>7. Rows(s) = Batch(o) \o Batch(p) \o Batch(h) \o Batch(v) \o Batch(c)
    BY <1>3 DEF Rows
  <2>8. QED
    BY <2>1, <2>6, <2>7
<1>4. CASE s # "raw_events"
  BY <1>2, <1>4 DEF Rows, Input
<1>5. QED
  BY <1>3, <1>4

-----------------------------------------------------------------------------
(* Steps of the jobs *)

PointOf(s) == IF checkpoint[s] # NULL THEN checkpoint[s]
              ELSE [from |-> Starts(s), offset |-> Starts(s), plan |-> NULL,
                    written |-> FALSE, stale |-> FALSE]
PlanOf(s) == IF PointOf(s).plan # NULL THEN PointOf(s).plan ELSE Ends(s)

LEMMA PlanNotNull ==
    ASSUME WriterType, NEW s \in streams, NEW plan \in Offsets(s)
    PROVE  plan # NULL
BY StreamsAre, RetailAssumption DEF WriterType, Offsets

LEMMA EndsType ==
    ASSUME WriterType, TopicsType, NEW s \in streams
    PROVE  Ends(s) \in Offsets(s) /\ Starts(s) \in Offsets(s)
<1>1. \A t \in Input(s) : Len(topics[t]) \in Nat
  <2>1. Input(s) \subseteq Topics
    BY StreamsAre DEF WriterType
  <2>2. QED
    BY <2>1, LenProperties DEF TopicsType
<1>2. QED
  BY <1>1 DEF Ends, Starts, Offsets

LEMMA Started ==
    ASSUME WriterType, TopicsType, PointType, NEW s \in streams, StartJob(s)
    PROVE  /\ Elsewhere /\ now' = now /\ bronze' = bronze /\ outlived' = outlived /\ job = NULL
           /\ PointOf(s) \in Checkpoint(s) /\ PlanOf(s) \in Offsets(s)
           /\ PointOf(s).written => PointOf(s).plan # NULL
           /\ checkpoint' = [q \in streams |-> checkpoint'[q]]
           /\ \A q \in streams \ {s} : checkpoint'[q] = checkpoint[q]
           /\ checkpoint'[s] \in Checkpoint(s)
           /\ checkpoint'[s].from = PointOf(s).from /\ checkpoint'[s].offset = PointOf(s).offset
           /\ checkpoint'[s].written = PointOf(s).written /\ checkpoint'[s].stale = PointOf(s).stale
           /\ \/ /\ job' = NULL /\ checkpoint[s] = NULL /\ checkpoint'[s].plan = NULL
                 /\ PlanOf(s) = PointOf(s).offset
              \/ /\ job' = Job(s, PointOf(s), PlanOf(s)) /\ checkpoint'[s].plan = PlanOf(s)
<1> DEFINE point == PointOf(s)
           plan == PlanOf(s)
           empty == plan = point.offset
<1>1. /\ job = NULL
      /\ checkpoint[s] # NULL => ~empty
      /\ checkpoint' = [checkpoint EXCEPT ![s] = [point EXCEPT !.plan = IF empty THEN NULL ELSE plan]]
      /\ job' = IF empty THEN NULL ELSE Job(s, point, plan)
      /\ UNCHANGED <<bronze, counts>> /\ Sources
  BY DEF StartJob, PointOf, PlanOf
<1>2. /\ Elsewhere /\ now' = now /\ bronze' = bronze /\ outlived' = outlived
  <2>1. now \in Time
    BY DEF WriterType
  <2>2. QED
    BY <1>1, <2>1 DEF Sources, Elsewhere
<1>3. Ends(s) \in Offsets(s) /\ Starts(s) \in Offsets(s)
  BY EndsType
<1>4. point \in Checkpoint(s) /\ (point.written => point.plan # NULL)
  BY <1>3 DEF PointOf, PointType, Checkpoint, Maybe
<1>5. plan \in Offsets(s)
  <2>1. point.plan \in Maybe(Offsets(s))
    BY <1>4 DEF Checkpoint
  <2>2. QED
    BY <1>3, <2>1 DEF PlanOf, Maybe
<1> DEFINE new == [point EXCEPT !.plan = IF empty THEN NULL ELSE plan]
<1> HIDE DEF point, plan
<1>6. /\ new \in Checkpoint(s) /\ new.from = point.from /\ new.offset = point.offset
      /\ new.written = point.written /\ new.stale = point.stale
      /\ new.plan = IF empty THEN NULL ELSE plan
  BY <1>4, <1>5 DEF Checkpoint, Maybe
<1>7. /\ checkpoint' = [q \in streams |-> checkpoint'[q]]
      /\ \A q \in streams \ {s} : checkpoint'[q] = checkpoint[q]
      /\ checkpoint'[s] = new
  <2>1. checkpoint' = [checkpoint EXCEPT ![s] = new] /\ DOMAIN checkpoint = streams
    BY <1>1 DEF PointType
  <2> HIDE DEF new
  <2>2. QED
    BY <2>1
<1> HIDE DEF new
<1>8. QED
  BY <1>1, <1>2, <1>4, <1>5, <1>6, <1>7 DEF point, plan

LEMMA Appends ==
    ASSUME WriterType, TopicsType, TableType, PointType, AppendBatch
    PROVE  LET s == job.stream
           IN /\ Elsewhere /\ now' = now /\ outlived' = outlived
              /\ job # NULL /\ job.phase = "append" /\ s \in streams /\ job \in JobOf(s)
              /\ bronze' = [q \in streams |-> IF q = s /\ ~ job.written THEN bronze[q] \o Rows(s)
                                              ELSE bronze[q]]
              /\ checkpoint' = [q \in streams |-> checkpoint'[q]]
              /\ \A q \in streams \ {s} : checkpoint'[q] = checkpoint[q]
              /\ checkpoint'[s] # NULL => /\ checkpoint[s] # NULL
                                          /\ checkpoint'[s] = [checkpoint[s] EXCEPT !.written = TRUE]
              /\ job' \in JobOf(s) /\ job'.stream = s /\ job'.offset = job.offset
              /\ job'.plan = job.plan /\ job'.written = job.written /\ job'.phase = "commit"
<1> DEFINE s == job.stream
<1>1. /\ job # NULL /\ job.phase = "append"
      /\ bronze' = IF job.written THEN bronze ELSE [bronze EXCEPT ![s] = @ \o Rows(s)]
      /\ checkpoint' = IF checkpoint[s] = NULL THEN checkpoint
                       ELSE [checkpoint EXCEPT ![s].written = TRUE]
      /\ job' = [job EXCEPT !.phase = "commit"]
      /\ UNCHANGED counts /\ Sources
  BY DEF AppendBatch
<1>2. Elsewhere /\ now' = now /\ outlived' = outlived
  BY <1>1 DEF Sources, Elsewhere, WriterType
<1>3. s \in streams /\ job \in JobOf(s)
  BY <1>1 DEF PointType
<1>4. /\ job' \in JobOf(s) /\ job'.stream = s /\ job'.offset = job.offset
      /\ job'.plan = job.plan /\ job'.written = job.written /\ job'.phase = "commit"
  BY <1>1, <1>3 DEF JobOf
<1>5. bronze' = [q \in streams |-> IF q = s /\ ~ job.written THEN bronze[q] \o Rows(s) ELSE bronze[q]]
  <2>1. bronze = [q \in streams |-> bronze[q]]
    BY DEF TableType
  <2>2. QED
    BY <1>1, <1>3, <2>1
<1>6. /\ checkpoint' = [q \in streams |-> checkpoint'[q]]
      /\ \A q \in streams \ {s} : checkpoint'[q] = checkpoint[q]
      /\ checkpoint'[s] # NULL => /\ checkpoint[s] # NULL
                                  /\ checkpoint'[s] = [checkpoint[s] EXCEPT !.written = TRUE]
  <2>1. checkpoint = [q \in streams |-> checkpoint[q]]
    BY DEF PointType
  <2>2. CASE checkpoint[s] = NULL
    BY <1>1, <2>1, <2>2
  <2>3. CASE checkpoint[s] # NULL
    <3>1. checkpoint' = [checkpoint EXCEPT ![s].written = TRUE] /\ DOMAIN checkpoint = streams
      BY <1>1, <2>1, <2>3
    <3>2. QED
      BY <1>3, <2>3, <3>1
  <2>4. QED
    BY <2>2, <2>3
<1>7. QED
  BY <1>1, <1>2, <1>3, <1>4, <1>5, <1>6

LEMMA Commits ==
    ASSUME WriterType, TopicsType, TableType, PointType, CommitBatch
    PROVE  LET s == job.stream
           IN /\ Elsewhere /\ now' = now /\ outlived' = outlived /\ bronze' = bronze
              /\ job # NULL /\ job.phase = "commit" /\ s \in streams /\ job \in JobOf(s)
              /\ job' = NULL
              /\ checkpoint' = [q \in streams |-> checkpoint'[q]]
              /\ \A q \in streams \ {s} : checkpoint'[q] = checkpoint[q]
              /\ checkpoint'[s] # NULL =>
                    /\ checkpoint[s] # NULL /\ checkpoint'[s] \in Checkpoint(s)
                    /\ checkpoint'[s].from = checkpoint[s].from
                    /\ checkpoint'[s].stale = checkpoint[s].stale
                    /\ checkpoint'[s].offset = job.plan
                    /\ checkpoint'[s].plan = NULL /\ ~ checkpoint'[s].written
<1> DEFINE s == job.stream
<1>1. /\ job # NULL /\ job.phase = "commit" /\ job' = NULL
      /\ checkpoint' = IF checkpoint[s] = NULL THEN checkpoint
                       ELSE [checkpoint EXCEPT ![s].offset = Planned, ![s].plan = NULL,
                                ![s].written = FALSE]
      /\ UNCHANGED <<bronze, counts>> /\ Sources
  BY DEF CommitBatch
<1>2. Elsewhere /\ now' = now /\ outlived' = outlived /\ bronze' = bronze
  BY <1>1 DEF Sources, Elsewhere, WriterType
<1>3. s \in streams /\ job \in JobOf(s)
  BY <1>1 DEF PointType
<1>4. checkpoint = [q \in streams |-> checkpoint[q]]
  BY DEF PointType
<1>5. CASE checkpoint[s] = NULL
  BY <1>1, <1>2, <1>3, <1>4, <1>5
<1>6. CASE checkpoint[s] # NULL
  <2> DEFINE new == [[[checkpoint[s] EXCEPT !.offset = Planned] EXCEPT !.plan = NULL] EXCEPT !.written = FALSE]
  <2>1. checkpoint' = [checkpoint EXCEPT ![s] = new]
    BY <1>1, <1>3, <1>4, <1>6
  <2>2. checkpoint[s] \in Checkpoint(s) /\ Planned = job.plan /\ job.plan \in Offsets(s)
    BY <1>3, <1>6 DEF PointType, Planned, JobOf
  <2>3. /\ new \in Checkpoint(s) /\ new.from = checkpoint[s].from /\ new.stale = checkpoint[s].stale
        /\ new.offset = job.plan /\ new.plan = NULL /\ new.written = FALSE
    BY <2>2 DEF Checkpoint, Maybe
  <2> HIDE DEF new
  <2>4. /\ checkpoint' = [q \in streams |-> checkpoint'[q]]
        /\ \A q \in streams \ {s} : checkpoint'[q] = checkpoint[q]
        /\ checkpoint'[s] = new
    BY <1>3, <1>4, <2>1
  <2>5. QED
    BY <1>1, <1>2, <1>3, <1>6, <2>3, <2>4
<1>7. QED
  BY <1>5, <1>6

LEMMA Crashes ==
    ASSUME WriterType, CrashJob
    PROVE  /\ Elsewhere /\ now' = now /\ outlived' = outlived /\ bronze' = bronze
           /\ checkpoint' = checkpoint /\ job' = NULL
BY DEF CrashJob, Sources, Elsewhere, WriterType

LEMMA Ticks ==
    ASSUME WriterType, Second
    PROVE  /\ Elsewhere /\ outlived' = outlived /\ bronze' = bronze
           /\ checkpoint' = checkpoint /\ job' = job
<1>1. now' = now + 1 /\ now' \in Time
  BY RetailAssumption DEF Second, WriterType, Time
<1>2. QED
  BY <1>1 DEF Second, Elsewhere

\* The rows of a batch are typed like those of the table.
LEMMA RowsType ==
    ASSUME WriterType, TopicsType, PointType, job # NULL
    PROVE  /\ Rows(job.stream) \in Seq(Row)
           /\ \A i \in DOMAIN Rows(job.stream) :
                LET e == Rows(job.stream)[i]
                IN /\ e.topic \in Input(job.stream) /\ e.ts <= now
                   /\ \A t \in Events : e.topic = t => e.id < NextId(t)
<1> DEFINE s == job.stream
           rows == Rows(s)
<1>1. BatchOf(rows, Input(s)) /\ Input(s) \subseteq Topics
  BY RowsOfBatch, StreamsAre DEF PointType, WriterType
<1>2. ASSUME NEW i \in DOMAIN rows
      PROVE  /\ rows[i].topic \in Input(s) /\ rows[i].ts <= now
             /\ \A t \in Events : rows[i].topic = t => rows[i].id < NextId(t)
  <2>1. PICK t \in Input(s) : \E o \in Span(t) : rows[i] = topics[t][o]
    BY <1>1 DEF BatchOf
  <2>2. PICK o \in Span(t) : rows[i] = topics[t][o]
    BY <2>1
  <2>3. o \in DOMAIN topics[t] /\ t \in Topics
    BY <1>1, SpanType
  <2>4. /\ rows[i].topic = t /\ rows[i].ts <= now
        /\ t \in Events => rows[i].id < NextId(t)
    BY <2>2, <2>3 DEF TopicsType
  <2>5. QED
    BY <2>4
<1>3. QED
  BY <1>1, <1>2 DEF BatchOf

\* A table that is left alone stays typed when time passes and ids are given.
LEMMA TableKept ==
    ASSUME WriterType, TableType, streams' = streams, bronze' = bronze,
           now' \in {now, now + 1}, WriterType', \A t \in Events : NextId(t) <= NextId(t)'
    PROVE  TableType'
<1>1. ASSUME NEW s \in streams, NEW i \in DOMAIN bronze[s]
      PROVE  LET e == bronze[s][i]
             IN /\ e.topic \in Input(s) /\ e.ts <= now'
                /\ \A t \in Events : e.topic = t => e.id < NextId(t)'
  <2> DEFINE e == bronze[s][i]
  <2>1. e \in Row
    BY ElementOfSeq, LenProperties DEF TableType
  <2>2. /\ e.topic \in Input(s) /\ e.ts <= now
        /\ \A t \in Events : e.topic = t => e.id < NextId(t)
    BY DEF TableType
  <2>3. e.ts \in Nat /\ e.id \in Nat
    BY <2>1 DEF Row
  <2>4. now \in Nat /\ \A t : NextId(t) \in Nat
    BY IdType
  <2>5. \A t : NextId(t)' \in Nat
    BY DEF WriterType, Counters, NextId
  <2> HIDE DEF e
  <2>6. \A t \in Events : e.topic = t => e.id < NextId(t)'
    BY <2>2, <2>3, <2>4, <2>5
  <2>7. e.ts <= now'
    BY <2>2, <2>3, <2>4
  <2>8. QED
    BY <2>2, <2>6, <2>7 DEF e
<1>2. QED
  BY <1>1 DEF TableType

LEMMA GrownTypes ==
    ASSUME Types, Wrote
    PROVE  Types'
<1>1. WriterType' /\ Covered' /\ TopicsType'
  BY GrownTopics DEF Types, Wrote
<1>2. TableType'
  <2>1. streams' = streams /\ bronze' = bronze /\ now' = now
    BY DEF Wrote, Grown, Lake
  <2>2. \A t \in Events : NextId(t) <= NextId(t)'
    BY DEF Wrote, Grown
  <2>3. QED
    BY <1>1, <2>1, <2>2, TableKept DEF Types
<1>3. PointType'
  <2>1. streams' = streams /\ checkpoint' = checkpoint /\ job' = job /\ outlived' = outlived
    BY DEF Wrote, Grown, Lake
  <2>2. QED
    BY <2>1 DEF Types, PointType, Rel
<1>4. QED
  BY <1>1, <1>2, <1>3 DEF Types

LEMMA CleanedTypes ==
    ASSUME Types, WriterType', Covered', NEW replaced \in BOOLEAN, Cleaned(replaced)
    PROVE  Types'
<1>1. TopicsType'
  BY CleanedTopics DEF Types
<1>2. TableType'
  <2>1. streams' = streams /\ bronze' = bronze /\ now' \in {now, now + 1}
    BY DEF Cleaned
  <2>2. \A t \in Events : NextId(t) <= NextId(t)'
    <3>1. \A t \in Events : NextId(t)' = NextId(t) /\ NextId(t) \in Nat
      BY IdType DEF Cleaned, Types
    <3>2. QED
      BY <3>1
  <2>3. QED
    BY <2>1, <2>2, TableKept DEF Types
<1>3. PointType'
  <2>1. /\ streams' = streams /\ job' = job /\ outlived' \subseteq streams
        /\ checkpoint' = [s \in streams |-> checkpoint'[s]]
    BY DEF Cleaned, Types, PointType
  <2>2. ASSUME NEW s \in streams, checkpoint'[s] # NULL
        PROVE  checkpoint'[s] \in Checkpoint(s) /\ (checkpoint'[s].written => checkpoint'[s].plan # NULL)
    <3>1. /\ checkpoint[s] \in Checkpoint(s) /\ (checkpoint[s].written => checkpoint[s].plan # NULL)
          /\ checkpoint'[s] = [checkpoint[s] EXCEPT !.stale = @ \/ replaced]
      BY <2>2 DEF Cleaned, Types, PointType
    <3>2. (checkpoint[s].stale \/ replaced) \in BOOLEAN
      OBVIOUS
    <3>3. QED
      BY <3>1, <3>2 DEF Checkpoint
  <2>3. job # NULL => Rel'
    <3> SUFFICES ASSUME job # NULL, checkpoint'[job.stream] # NULL
                 PROVE  LET point == checkpoint'[job.stream]
                        IN /\ point.offset = job.offset /\ point.plan = job.plan
                           /\ point.written <=> job.written \/ job.phase = "commit"
      BY <2>1 DEF Rel
    <3> DEFINE s == job.stream
    <3>1. s \in streams /\ Rel
      BY DEF Types, PointType
    <3>2. /\ checkpoint[s] # NULL /\ checkpoint[s] \in Checkpoint(s)
          /\ checkpoint'[s] = [checkpoint[s] EXCEPT !.stale = @ \/ replaced]
      BY <3>1 DEF Cleaned, Types, PointType
    <3>3. /\ checkpoint'[s].offset = checkpoint[s].offset /\ checkpoint'[s].plan = checkpoint[s].plan
          /\ checkpoint'[s].written = checkpoint[s].written
      BY <3>2 DEF Checkpoint
    <3>4. QED
      BY <3>1, <3>2, <3>3 DEF Rel
  <2>4. QED
    BY <2>1, <2>2, <2>3 DEF Types, PointType
<1>4. QED
  BY <1>1, <1>2, <1>3 DEF Types

LEMMA ElsewhereTypes ==
    ASSUME Types, Elsewhere
    PROVE  /\ WriterType' /\ Covered' /\ TopicsType' /\ streams' = streams
           /\ \A t : NextId(t)' = NextId(t)
           /\ bronze' = bronze => TableType'
<1>1. WriterType' /\ Covered' /\ TopicsType' /\ \A t : NextId(t)' = NextId(t)
  BY ElsewhereWriter DEF Types
<1>2. streams' = streams /\ now' \in {now, now + 1}
  BY DEF Elsewhere
<1>3. \A t \in Events : NextId(t) <= NextId(t)'
  <2>1. \A t \in Events : NextId(t) \in Nat
    BY IdType DEF Types
  <2>2. QED
    BY <1>1, <2>1
<1>4. bronze' = bronze => TableType'
  BY <1>1, <1>2, <1>3, TableKept DEF Types
<1>5. QED
  BY <1>1, <1>2, <1>4

LEMMA StartedTypes ==
    ASSUME Types, NEW s \in streams, StartJob(s)
    PROVE  Types'
<1>1. /\ Elsewhere /\ bronze' = bronze /\ outlived' = outlived
      /\ PointOf(s) \in Checkpoint(s) /\ PlanOf(s) \in Offsets(s)
      /\ PointOf(s).written => PointOf(s).plan # NULL
      /\ checkpoint' = [q \in streams |-> checkpoint'[q]]
      /\ \A q \in streams \ {s} : checkpoint'[q] = checkpoint[q]
      /\ checkpoint'[s] \in Checkpoint(s) /\ checkpoint'[s].written = PointOf(s).written
      /\ checkpoint'[s].offset = PointOf(s).offset
      /\ \/ job' = NULL /\ checkpoint[s] = NULL
         \/ job' = Job(s, PointOf(s), PlanOf(s)) /\ checkpoint'[s].plan = PlanOf(s)
  BY Started DEF Types
<1>2. WriterType' /\ Covered' /\ TopicsType' /\ TableType' /\ streams' = streams
  BY <1>1, ElsewhereTypes
<1>3. checkpoint'[s].written => checkpoint'[s].plan # NULL
  <2>1. checkpoint[s] = NULL => ~ PointOf(s).written
    BY DEF PointOf
  <2>2. PointOf(s).written => PlanOf(s) = PointOf(s).plan
    BY <1>1 DEF PlanOf
  <2>3. QED
    BY <1>1, <2>1, <2>2
<1>4. job' # NULL => job'.stream = s /\ job' \in JobOf(s)
  <2> DEFINE j == Job(s, PointOf(s), PlanOf(s))
  <2>1. j \in JobOf(s) /\ j.stream = s
    BY <1>1 DEF Job, JobOf, Checkpoint
  <2>2. QED
    BY <1>1, <2>1
<1>5. job' # NULL => Rel'
  <2> DEFINE j == Job(s, PointOf(s), PlanOf(s))
  <2>1. /\ j.stream = s /\ j.offset = PointOf(s).offset /\ j.plan = PlanOf(s)
        /\ j.written = PointOf(s).written /\ j.phase = "append"
    BY DEF Job
  <2> HIDE DEF j
  <2>2. QED
    BY <1>1, <2>1 DEF Rel, j
<1>6. PointType'
  <2>1. \A q \in streams : checkpoint'[q] # NULL =>
            checkpoint'[q] \in Checkpoint(q) /\ (checkpoint'[q].written => checkpoint'[q].plan # NULL)
    BY <1>1, <1>3 DEF Types, PointType
  <2>2. outlived' \subseteq streams
    BY <1>1 DEF Types, PointType
  <2>3. QED
    BY <1>1, <1>2, <1>4, <1>5, <2>1, <2>2 DEF PointType
<1>7. QED
  BY <1>2, <1>6 DEF Types

LEMMA AppendsTypes ==
    ASSUME Types, AppendBatch
    PROVE  Types'
<1> DEFINE s == job.stream
<1>1. /\ Elsewhere /\ now' = now /\ outlived' = outlived
      /\ job # NULL /\ s \in streams
      /\ bronze' = [q \in streams |-> IF q = s /\ ~ job.written THEN bronze[q] \o Rows(s)
                                      ELSE bronze[q]]
      /\ checkpoint' = [q \in streams |-> checkpoint'[q]]
      /\ \A q \in streams \ {s} : checkpoint'[q] = checkpoint[q]
      /\ checkpoint'[s] # NULL => /\ checkpoint[s] # NULL
                                  /\ checkpoint'[s] = [checkpoint[s] EXCEPT !.written = TRUE]
      /\ job' \in JobOf(s) /\ job'.stream = s /\ job'.offset = job.offset
      /\ job'.plan = job.plan /\ job'.phase = "commit"
  BY Appends DEF Types
<1>2. /\ WriterType' /\ Covered' /\ TopicsType' /\ streams' = streams
      /\ \A t : NextId(t)' = NextId(t)
  BY <1>1, ElsewhereTypes
<1>3. PointType'
  <2>1. ASSUME NEW q \in streams, checkpoint'[q] # NULL
        PROVE  checkpoint'[q] \in Checkpoint(q) /\ (checkpoint'[q].written => checkpoint'[q].plan # NULL)
    <3>1. CASE q # s
      BY <1>1, <2>1, <3>1 DEF Types, PointType
    <3>2. CASE q = s
      <4>1. /\ checkpoint[s] \in Checkpoint(s)
            /\ checkpoint'[s] = [checkpoint[s] EXCEPT !.written = TRUE]
        BY <1>1, <2>1, <3>2 DEF Types, PointType
      <4>2. checkpoint'[s] \in Checkpoint(s) /\ checkpoint'[s].plan = checkpoint[s].plan
        BY <4>1 DEF Checkpoint
      <4>3. checkpoint[s].plan # NULL
        <5>1. checkpoint[s].plan = job.plan /\ job.plan \in Offsets(s)
          BY <1>1, <2>1, <3>2 DEF Types, PointType, Rel, JobOf
        <5>2. QED
          BY <1>1, <5>1, PlanNotNull DEF Types
      <4>4. QED
        BY <3>2, <4>2, <4>3
    <3>3. QED
      BY <3>1, <3>2
  <2>2. Rel'
    <3> SUFFICES ASSUME checkpoint'[s] # NULL
                 PROVE  /\ checkpoint'[s].offset = job'.offset /\ checkpoint'[s].plan = job'.plan
                        /\ checkpoint'[s].written <=> job'.written \/ job'.phase = "commit"
      BY <1>1 DEF Rel
    <3>1. /\ checkpoint[s] # NULL /\ checkpoint[s] \in Checkpoint(s)
          /\ checkpoint'[s] = [checkpoint[s] EXCEPT !.written = TRUE]
          /\ checkpoint[s].offset = job.offset /\ checkpoint[s].plan = job.plan
      BY <1>1 DEF Types, PointType, Rel
    <3>2. /\ checkpoint'[s].offset = checkpoint[s].offset /\ checkpoint'[s].plan = checkpoint[s].plan
          /\ checkpoint'[s].written
      BY <3>1 DEF Checkpoint
    <3>3. QED
      BY <1>1, <3>1, <3>2
  <2>3. outlived' \subseteq streams
    BY <1>1 DEF Types, PointType
  <2>4. QED
    BY <1>1, <1>2, <2>1, <2>2, <2>3 DEF PointType
<1>4. TableType'
  <2> DEFINE rows == Rows(s)
  <2>1. /\ rows \in Seq(Row)
        /\ \A i \in DOMAIN rows : /\ rows[i].topic \in Input(s) /\ rows[i].ts <= now
                                  /\ \A t \in Events : rows[i].topic = t => rows[i].id < NextId(t)
    BY <1>1, RowsType DEF Types
  <2> HIDE DEF rows
  <2>2. ASSUME NEW q \in streams
        PROVE  /\ bronze'[q] \in Seq(Row)
               /\ \A i \in DOMAIN bronze'[q] :
                    LET e == bronze'[q][i]
                    IN /\ e.topic \in Input(q) /\ e.ts <= now
                       /\ \A t \in Events : e.topic = t => e.id < NextId(t)
    <3>1. /\ bronze[q] \in Seq(Row)
          /\ \A i \in DOMAIN bronze[q] :
                LET e == bronze[q][i]
                IN /\ e.topic \in Input(q) /\ e.ts <= now
                   /\ \A t \in Events : e.topic = t => e.id < NextId(t)
      BY DEF Types, TableType
    <3>2. CASE q = s /\ ~ job.written
      <4>1. bronze'[q] = bronze[q] \o rows
        BY <1>1, <3>2 DEF rows
      <4>2. /\ bronze[q] \o rows \in Seq(Row)
            /\ \A i \in DOMAIN (bronze[q] \o rows) :
                  \/ i \in DOMAIN bronze[q] /\ (bronze[q] \o rows)[i] = bronze[q][i]
                  \/ i - Len(bronze[q]) \in DOMAIN rows
                     /\ (bronze[q] \o rows)[i] = rows[i - Len(bronze[q])]
        BY <2>1, <3>1, InBoth
      <4>3. ASSUME NEW i \in DOMAIN bronze'[q]
            PROVE  LET e == bronze'[q][i]
                   IN /\ e.topic \in Input(q) /\ e.ts <= now
                      /\ \A t \in Events : e.topic = t => e.id < NextId(t)
        <5>1. CASE i \in DOMAIN bronze[q] /\ bronze'[q][i] = bronze[q][i]
          BY <3>1, <5>1
        <5>2. CASE i - Len(bronze[q]) \in DOMAIN rows /\ bronze'[q][i] = rows[i - Len(bronze[q])]
          BY <2>1, <3>2, <5>2
        <5>3. QED
          BY <4>1, <4>2, <5>1, <5>2
      <4>4. QED
        BY <4>1, <4>2, <4>3
    <3>3. CASE ~ (q = s /\ ~ job.written)
      BY <1>1, <3>1, <3>3
    <3>4. QED
      BY <3>2, <3>3
  <2>3. bronze' \in [streams -> Seq(Row)]
    BY <1>1, <2>2
  <2>4. \A q \in streams : \A i \in DOMAIN bronze'[q] :
            LET e == bronze'[q][i]
            IN /\ e.topic \in Input(q) /\ e.ts <= now'
               /\ \A t \in Events : e.topic = t => e.id < NextId(t)'
    BY <1>1, <1>2, <2>2
  <2>5. QED
    BY <1>2, <2>3, <2>4 DEF TableType
<1>5. QED
  BY <1>2, <1>3, <1>4 DEF Types

LEMMA CommitsTypes ==
    ASSUME Types, CommitBatch
    PROVE  Types'
<1> DEFINE s == job.stream
<1>1. /\ Elsewhere /\ outlived' = outlived /\ bronze' = bronze /\ s \in streams
      /\ job' = NULL
      /\ checkpoint' = [q \in streams |-> checkpoint'[q]]
      /\ \A q \in streams \ {s} : checkpoint'[q] = checkpoint[q]
      /\ checkpoint'[s] # NULL => checkpoint'[s] \in Checkpoint(s) /\ ~ checkpoint'[s].written
  BY Commits DEF Types
<1>2. WriterType' /\ Covered' /\ TopicsType' /\ TableType' /\ streams' = streams
  BY <1>1, ElsewhereTypes
<1>3. \A q \in streams : checkpoint'[q] # NULL =>
         checkpoint'[q] \in Checkpoint(q) /\ (checkpoint'[q].written => checkpoint'[q].plan # NULL)
  BY <1>1 DEF Types, PointType
<1>4. QED
  BY <1>1, <1>2, <1>3 DEF Types, PointType

LEMMA OtherTypes ==
    ASSUME Types, Second \/ CrashJob
    PROVE  Types'
<1>1. /\ Elsewhere /\ outlived' = outlived /\ bronze' = bronze /\ checkpoint' = checkpoint
      /\ job' = job \/ job' = NULL
  BY Ticks, Crashes DEF Types
<1>2. WriterType' /\ Covered' /\ TopicsType' /\ TableType' /\ streams' = streams
  BY <1>1, ElsewhereTypes
<1>3. PointType'
  BY <1>1, <1>2 DEF Types, PointType, Rel
<1>4. QED
  BY <1>2, <1>3 DEF Types

LEMMA GeneratorWrites ==
    ASSUME Types, Generator, ~ Signal
    PROVE  Wrote
<1>1. Function
  BY DEF Types, TopicsType, Function
<1>2. QED
  BY <1>1, SetupWrites, ExitWrites, UpdatePriceWrites, UpdateInventoryWrites, EmitInventoryWrites,
     UpsertInventoryWrites, EmitInteractionWrites, EmitOrderWrites, EmitPaymentWrites,
     EmitShipmentWrites DEF Generator, Types

LEMMA StutterTypes ==
    ASSUME Types, UNCHANGED vars
    PROVE  Types'
<1>1. Elsewhere /\ outlived' = outlived /\ bronze' = bronze /\ checkpoint' = checkpoint /\ job' = job
  BY DEF vars, Elsewhere, Types, WriterType
<1>2. WriterType' /\ Covered' /\ TopicsType' /\ TableType' /\ streams' = streams
  BY <1>1, ElsewhereTypes
<1>3. PointType'
  BY <1>1, <1>2 DEF Types, PointType, Rel
<1>4. QED
  BY <1>2, <1>3 DEF Types

LEMMA InitTypes ==
    ASSUME Init
    PROVE  Types
<1>1. WriterType
  <2>1. \A what \in Counters : Limit(what) \in Nat
    BY LimitType DEF Init
  <2>2. counts \in [Counters -> Nat] /\ \A what \in Counters : counts[what] <= Limit(what)
    BY <2>1 DEF Init, Counters
  <2>3. now \in Time
    BY RetailAssumption DEF Init, Time
  <2>4. pg \in [product: Maybe(Nat), user: Maybe({0}), segment: Maybe(Segments), stock: Maybe(Stock)]
    BY DEF Init, Nobody, Maybe
  <2>5. /\ app \in [pc: {"off", "loop", "payment", "shipment", "upsert"}, running: BOOLEAN,
                    order: Maybe(Nat), stock: Maybe(Stock)]
        /\ app.pc = "off" /\ app.stock = NULL /\ app.order = NULL
    BY DEF Init, Off, Maybe
  <2>6. QED
    BY <2>2, <2>3, <2>4, <2>5 DEF Init, WriterType
<1>2. Covered
  BY DEF Init, Covered, ReservedIsCovered, Nobody, Off
<1>3. TopicsType
  <2>1. topics \in [Topics -> Seq(Row)] /\ \A t \in Topics : DOMAIN topics[t] = {}
    BY DEF Init
  <2>2. QED
    BY <2>1 DEF TopicsType
<1>4. TableType
  <2>1. bronze \in [streams -> Seq(Row)] /\ \A s \in streams : DOMAIN bronze[s] = {}
    BY DEF Init
  <2>2. QED
    BY <2>1 DEF TableType
<1>5. PointType
  BY DEF Init, PointType
<1>6. QED
  BY <1>1, <1>2, <1>3, <1>4, <1>5 DEF Types

LEMMA NextTypes ==
    ASSUME Types, [Next]_vars
    PROVE  Types'
<1>1. CASE Second
  BY <1>1, OtherTypes
<1>2. CASE Generator /\ ~ Signal
  BY <1>2, GeneratorWrites, GrownTypes
<1>3. CASE Signal
  BY <1>3, SignalCleans, CleanedTypes DEF Types
<1>4. CASE \E s \in streams : StartJob(s)
  BY <1>4, StartedTypes
<1>5. CASE AppendBatch
  BY <1>5, AppendsTypes
<1>6. CASE CommitBatch
  BY <1>6, CommitsTypes
<1>7. CASE CrashJob
  BY <1>7, OtherTypes
<1>8. CASE UNCHANGED vars
  BY <1>8, StutterTypes
<1>9. QED
  BY <1>1, <1>2, <1>3, <1>4, <1>5, <1>6, <1>7, <1>8 DEF Next, Jobs, vars

\* Rows of Postgres, events, tables, checkpoints and jobs have their types.
THEOREM RetailTypeCorrect == Spec => []TypeOK
<1>1. Init => Types
  BY InitTypes
<1>2. Types /\ [Next]_vars => Types'
  BY NextTypes
<1>3. Types => TypeOK
  <2> SUFFICES ASSUME Types PROVE TypeOK
    OBVIOUS
  <2>1. \A t \in Topics : \A i \in DOMAIN topics[t] :
           topics[t][i].off = i - 1 /\ topics[t][i].ts \in Time
    <3>1. TAKE t \in Topics
    <3>2. TAKE i \in DOMAIN topics[t]
    <3>3. topics[t][i] \in Row /\ topics[t][i].off = i - 1 /\ topics[t][i].ts <= now
      BY ElementOfSeq, LenProperties DEF Types, TopicsType
    <3>4. topics[t][i].ts \in Nat /\ now \in 0..MaxTime /\ MaxTime \in Nat
      BY <3>3, RetailAssumption DEF Row, Types, WriterType, Time
    <3>5. QED
      BY <3>3, <3>4 DEF Time
  <2>2. \A what \in DOMAIN counts : counts[what] \in 0..Limit(what)
    <3>1. \A what \in Counters : Limit(what) \in Nat
      BY LimitType DEF Types, WriterType
    <3>2. DOMAIN counts = Counters /\ \A what \in Counters : counts[what] \in Nat /\ counts[what] <= Limit(what)
      BY DEF Types, WriterType
    <3>3. QED
      BY <3>1, <3>2
  <2>3. job # NULL => job.stream \in streams /\ job.phase \in {"append", "commit"}
    BY DEF Types, PointType, JobOf
  <2>4. /\ streams \in Deployments /\ now \in Time
        /\ pg \in [product: Maybe(Nat), user: Maybe({0}), segment: Maybe(Segments),
                   stock: Maybe(Stock)]
        /\ app.pc \in {"off", "loop", "payment", "shipment", "upsert"} /\ app.running \in BOOLEAN
        /\ app.pc = "upsert" <=> app.stock # NULL
        /\ app.pc \in {"payment", "shipment"} <=> app.order # NULL
    BY DEF Types, WriterType
  <2>5. /\ \A s \in streams : checkpoint[s] # NULL => checkpoint[s] \in Checkpoint(s)
        /\ outlived \subseteq streams
    BY DEF Types, PointType
  <2>6. QED
    BY <2>1, <2>2, <2>3, <2>4, <2>5 DEF TypeOK
<1>4. QED
  BY <1>1, <1>2, <1>3, PTL DEF Spec

\* Whatever takes from a warehouse, what is reserved there is there: legacy
\* updates, events and the writes of an event that come between two of them.
THEOREM ReservedIsCoveredCorrect == Spec => []ReservedIsCovered
<1>1. Init => Types
  BY InitTypes
<1>2. Types /\ [Next]_vars => Types'
  BY NextTypes
<1>3. Types => ReservedIsCovered
  BY DEF Types, Covered
<1>4. QED
  BY <1>1, <1>2, <1>3, PTL DEF Spec

\* One version of a product, a customer or a warehouse is valid at a time, for
\* any rows that the bronze tables get.
THEOREM OneVersionAtATimeCorrect == Spec => []OneVersionAtATime
<1>1. Init => Types
  BY InitTypes
<1>2. Types /\ [Next]_vars => Types'
  BY NextTypes
<1>3. Types => OneVersionAtATime
  <2> SUFFICES ASSUME Types PROVE OneVersionAtATime
    OBVIOUS
  <2>1. \A s : Table(s) \in Seq(Row)
    BY DEF Types, TableType, Table
  <2>2. \A s : Timed(Table(s))
    BY <2>1, SequenceTimed
  <2>3. NoOverlap(Products) /\ NoOverlap(Warehouses)
    BY <2>2, ProductVersions, WarehouseVersions DEF Products, Warehouses, Versions
  <2>4. \A p \in Picks : NoOverlap(Customers(p))
    BY <2>2, CustomerVersions DEF Customers, Versions
  <2>5. QED
    BY <2>3, <2>4 DEF OneVersionAtATime
<1>4. QED
  BY <1>1, <1>2, <1>3, PTL DEF Spec

-----------------------------------------------------------------------------
(* No event twice *)

\* A stream with a checkpoint, or a job, is past an offset.
Past(point, t, o) ==
    /\ point.plan # NULL => o <= point.plan[t]
    /\ ~ point.written => o <= point.offset[t]

JobPast(t, o) ==
    /\ o <= job.plan[t]
    /\ ~ job.written /\ job.phase = "append" => o <= job.offset[t]

Raw == "raw_events"

\* The event at an offset is in raw_events: whoever goes on does so behind it.
Passed ==
    \A i \in DOMAIN bronze[Raw] : \A t \in Events : \A o \in DOMAIN topics[t] :
        bronze[Raw][i].topic = t /\ bronze[Raw][i].id = topics[t][o].id =>
            /\ checkpoint[Raw] # NULL => Past(checkpoint[Raw], t, o)
            /\ Runs(Raw) => JobPast(t, o)

OnceInv == Raw \in streams => Differ(bronze[Raw]) /\ Passed

LEMMA RawFacts ==
    ASSUME Types, Raw \in streams
    PROVE  /\ Events \subseteq Topics /\ Input(Raw) = Events
           /\ bronze[Raw] \in Seq(Row)
           /\ \A i \in DOMAIN bronze[Raw] : /\ bronze[Raw][i] \in Row
                                            /\ bronze[Raw][i].topic \in Events
                                            /\ bronze[Raw][i].id < NextId(bronze[Raw][i].topic)
           /\ \A t \in Events : /\ topics[t] \in Seq(Row) /\ Len(topics[t]) \in Nat
                                /\ DOMAIN topics[t] = 1..Len(topics[t])
                                /\ \A o \in DOMAIN topics[t] : topics[t][o] \in Row
<1>1. Events \subseteq Topics /\ Input(Raw) = Events
  BY StreamsAre DEF Types, WriterType, Raw
<1>2. bronze[Raw] \in Seq(Row)
  BY DEF Types, TableType
<1>3. \A i \in DOMAIN bronze[Raw] : /\ bronze[Raw][i] \in Row
                                    /\ bronze[Raw][i].topic \in Events
                                    /\ bronze[Raw][i].id < NextId(bronze[Raw][i].topic)
  BY <1>1, <1>2, ElementOfSeq, LenProperties DEF Types, TableType
<1>4. \A t \in Events : /\ topics[t] \in Seq(Row) /\ Len(topics[t]) \in Nat
                        /\ DOMAIN topics[t] = 1..Len(topics[t])
  BY <1>1, LenProperties DEF Types, TopicsType
<1>5. ASSUME NEW t \in Events, NEW o \in DOMAIN topics[t]
      PROVE  topics[t][o] \in Row
  BY <1>4, ElementOfSeq
<1>6. QED
  BY <1>1, <1>2, <1>3, <1>4, <1>5

LEMMA GrownOnce ==
    ASSUME Types, OnceInv, Grown
    PROVE  OnceInv'
<1>1. UNCHANGED <<streams, bronze, checkpoint, job>>
  BY DEF Grown, Lake
<1>2. SUFFICES ASSUME Raw \in streams
               PROVE  Passed'
  BY <1>1 DEF OnceInv
<1>3. ASSUME NEW i \in DOMAIN bronze[Raw], NEW t \in Events, NEW o \in DOMAIN topics'[t],
             bronze[Raw][i].topic = t, bronze[Raw][i].id = topics'[t][o].id
      PROVE  o \in DOMAIN topics[t] /\ bronze[Raw][i].id = topics[t][o].id
  <2>1. t \in Topics
    BY <1>2, RawFacts
  <2>2. o \in DOMAIN topics[t]
    <3>1. SUFFICES ASSUME o \notin DOMAIN topics[t] PROVE FALSE
      OBVIOUS
    <3>2. NextId(t) <= topics'[t][o].id
      BY <2>1, <3>1, TopicGrows DEF Types
    <3>3. bronze[Raw][i].id < NextId(t) /\ bronze[Raw][i].id \in Nat
      BY <1>2, <1>3, RawFacts DEF Row
    <3>4. NextId(t) \in Nat
      BY IdType DEF Types
    <3>5. QED
      BY <1>3, <3>2, <3>3, <3>4
  <2>3. topics'[t][o] = topics[t][o]
    BY <2>1, <2>2, TopicGrows DEF Types
  <2>4. QED
    BY <1>3, <2>2, <2>3
<1>4. Passed
  BY <1>2 DEF OnceInv
<1>5. QED
  BY <1>1, <1>3, <1>4 DEF Passed, JobPast, Runs

LEMMA CleanedOnce ==
    ASSUME Types, OnceInv, NEW replaced \in BOOLEAN, Cleaned(replaced)
    PROVE  OnceInv'
<1>1. /\ streams' = streams /\ bronze' = bronze /\ job' = job
      /\ topics' = IF replaced THEN [t \in Topics |-> <<>>] ELSE topics
  BY DEF Cleaned
<1>2. SUFFICES ASSUME Raw \in streams
               PROVE  Passed'
  BY <1>1 DEF OnceInv
<1>3. CASE replaced
  <2>1. \A t \in Events : DOMAIN topics'[t] = {}
    BY <1>1, <1>2, <1>3, RawFacts
  <2>2. QED
    BY <2>1 DEF Passed
<1>4. CASE ~ replaced
  <2>1. topics' = topics /\ Passed
    BY <1>1, <1>2, <1>4 DEF OnceInv
  <2>2. checkpoint'[Raw] # NULL =>
            /\ checkpoint[Raw] # NULL /\ checkpoint'[Raw].plan = checkpoint[Raw].plan
            /\ checkpoint'[Raw].written = checkpoint[Raw].written
            /\ checkpoint'[Raw].offset = checkpoint[Raw].offset
    BY <1>2 DEF Cleaned, Types, PointType, Checkpoint
  <2>3. QED
    BY <1>1, <2>1, <2>2 DEF Passed, Past, JobPast, Runs
<1>5. QED
  BY <1>3, <1>4

LEMMA StartedOnce ==
    ASSUME Types, OnceInv, NEW s \in streams, StartJob(s)
    PROVE  OnceInv'
<1>1. /\ Elsewhere /\ bronze' = bronze
      /\ PointOf(s).written => PointOf(s).plan # NULL
      /\ \A q \in streams \ {s} : checkpoint'[q] = checkpoint[q]
      /\ checkpoint'[s].offset = PointOf(s).offset
      /\ checkpoint'[s].written = PointOf(s).written
      /\ \/ job' = NULL /\ checkpoint'[s].plan = NULL
         \/ job' = Job(s, PointOf(s), PlanOf(s)) /\ checkpoint'[s].plan = PlanOf(s)
  BY Started DEF Types
<1>2. streams' = streams /\ topics' = topics
  BY <1>1 DEF Elsewhere
<1>3. SUFFICES ASSUME Raw \in streams
               PROVE  Passed'
  BY <1>1, <1>2 DEF OnceInv
<1>4. Passed
  BY <1>3 DEF OnceInv
<1> DEFINE j == Job(s, PointOf(s), PlanOf(s))
<1>5. /\ j.stream = s /\ j.plan = PlanOf(s) /\ j.offset = PointOf(s).offset
      /\ j.written = PointOf(s).written /\ j.phase = "append"
  BY DEF Job
<1> HIDE DEF j
<1>6. CASE s # Raw
  BY <1>1, <1>2, <1>3, <1>4, <1>5, <1>6 DEF Passed, Runs, j
<1>7. CASE s = Raw
  <2> SUFFICES ASSUME NEW i \in DOMAIN bronze[Raw], NEW t \in Events, NEW o \in DOMAIN topics[t],
                      bronze[Raw][i].topic = t, bronze[Raw][i].id = topics[t][o].id
               PROVE  /\ Past(checkpoint'[Raw], t, o)
                      /\ job' # NULL => /\ o <= job'.plan[t]
                                        /\ ~ job'.written => o <= job'.offset[t]
    BY <1>1, <1>2 DEF Passed, JobPast, Runs
  <2>1. o <= Ends(s)[t]
    BY <1>3, <1>7, RawFacts DEF Ends
  <2>2. o <= PlanOf(s)[t] /\ (~ PointOf(s).written => o <= PointOf(s).offset[t])
    <3>1. CASE checkpoint[s] # NULL
      <4>1. PointOf(s) = checkpoint[s] /\ Past(checkpoint[s], t, o)
        BY <1>4, <1>7, <3>1 DEF PointOf, Passed
      <4>2. QED
        BY <2>1, <4>1 DEF Past, PlanOf
    <3>2. CASE checkpoint[s] = NULL
      <4>1. PointOf(s).plan = NULL /\ PointOf(s).offset = Ends(s)
        BY <1>7, <3>2 DEF PointOf, Starts, Raw
      <4>2. QED
        BY <2>1, <4>1 DEF PlanOf
    <3>3. QED
      BY <3>1, <3>2
  <2>3. QED
    BY <1>1, <1>5, <1>7, <2>2 DEF Past, j
<1>8. QED
  BY <1>6, <1>7

LEMMA AppendsOnce ==
    ASSUME Types, OnceInv, AppendBatch
    PROVE  OnceInv'
<1> DEFINE s == job.stream
<1>1. /\ Elsewhere /\ job # NULL /\ job.phase = "append" /\ s \in streams /\ job \in JobOf(s)
      /\ bronze' = [q \in streams |-> IF q = s /\ ~ job.written THEN bronze[q] \o Rows(s)
                                      ELSE bronze[q]]
      /\ \A q \in streams \ {s} : checkpoint'[q] = checkpoint[q]
      /\ checkpoint'[s] # NULL => /\ checkpoint[s] # NULL
                                  /\ checkpoint'[s] = [checkpoint[s] EXCEPT !.written = TRUE]
      /\ job'.stream = s /\ job'.offset = job.offset
      /\ job'.plan = job.plan /\ job'.written = job.written /\ job'.phase = "commit"
  BY Appends DEF Types
<1>2. streams' = streams /\ topics' = topics
  BY <1>1 DEF Elsewhere
<1>3. SUFFICES ASSUME Raw \in streams
               PROVE  Differ(bronze'[Raw]) /\ Passed'
  BY <1>2 DEF OnceInv
<1>4. Passed /\ Differ(bronze[Raw])
  BY <1>3 DEF OnceInv
<1>5. CASE s # Raw
  <2>1. bronze'[Raw] = bronze[Raw] /\ checkpoint'[Raw] = checkpoint[Raw] /\ ~ Runs(Raw)'
    BY <1>1, <1>3, <1>5 DEF Runs
  <2>2. QED
    BY <1>2, <1>4, <2>1 DEF Passed
<1>6. CASE s = Raw
  <2> DEFINE rows == Rows(s)
  <2>1. BatchOf(rows, Events) /\ \A t \in Events : t \in Topics /\ t \in Input(s)
    BY <1>1, <1>3, <1>6, RowsOfBatch, RawFacts DEF Types
  <2> HIDE DEF rows
  <2>2. \A t \in Events : \A o : o \in Span(t) <=> /\ o \in DOMAIN topics[t] /\ o > job.offset[t]
                                                  /\ o <= job.plan[t]
    BY <1>1, <2>1, SpanType DEF Types
  <2>3. \A t \in Events : \A o \in Span(t) : topics[t][o].topic = t
    BY <1>1, <2>1, SpanType DEF Types
  <2>4. \A t \in Events : \A o, p \in DOMAIN topics[t] : topics[t][o].id = topics[t][p].id => o = p
    <3> SUFFICES ASSUME NEW t \in Events, NEW o \in DOMAIN topics[t], NEW p \in DOMAIN topics[t],
                        topics[t][o].id = topics[t][p].id
                 PROVE  o = p
      OBVIOUS
    <3>1. o \in Int /\ p \in Int /\ topics[t][o].id \in Nat
      <4>1. topics[t][o] \in Row /\ DOMAIN topics[t] = 1..Len(topics[t])
        BY <1>3, RawFacts
      <4>2. QED
        BY <4>1 DEF Row
    <3>2. ~ o < p /\ ~ p < o
      BY <2>1, <3>1 DEF Types, TopicsType
    <3>3. QED
      BY <3>1, <3>2
  <2>5. \A i \in DOMAIN bronze[Raw] : \A t \in Events : \A o \in DOMAIN topics[t] :
           bronze[Raw][i].topic = t /\ bronze[Raw][i].id = topics[t][o].id => JobPast(t, o)
    BY <1>1, <1>4, <1>6 DEF Passed, Runs
  <2>6. \A j \in DOMAIN rows : \A t \in Events : \A o \in DOMAIN topics[t] :
           rows[j].topic = t /\ rows[j].id = topics[t][o].id => o \in Span(t)
    BY <2>1, <2>2, <2>3, <2>4 DEF BatchOf
  <2>7. \A q \in DOMAIN bronze'[Raw] : \A t \in Events : \A o \in DOMAIN topics[t] :
           bronze'[Raw][q].topic = t /\ bronze'[Raw][q].id = topics[t][o].id => o <= job.plan[t]
    <3>1. CASE job.written
      <4>1. bronze'[Raw] = bronze[Raw]
        BY <1>1, <1>3, <3>1
      <4>2. QED
        BY <2>5, <4>1 DEF JobPast
    <3>2. CASE ~ job.written
      <4>1. bronze'[Raw] = bronze[Raw] \o rows
        BY <1>1, <1>3, <1>6, <3>2 DEF rows
      <4>2. /\ bronze[Raw] \in Seq(Row) /\ rows \in Seq(Row)
        BY <1>3, <2>1, RawFacts DEF BatchOf
      <4>3. \A q \in DOMAIN (bronze[Raw] \o rows) :
               \/ q \in DOMAIN bronze[Raw] /\ (bronze[Raw] \o rows)[q] = bronze[Raw][q]
               \/ q - Len(bronze[Raw]) \in DOMAIN rows
                  /\ (bronze[Raw] \o rows)[q] = rows[q - Len(bronze[Raw])]
        BY <4>2, InBoth
      <4>4. QED
        BY <2>2, <2>5, <2>6, <4>1, <4>3 DEF JobPast
    <3>3. QED
      BY <3>1, <3>2
  <2>8. Differ(bronze'[Raw])
    <3>1. CASE job.written
      BY <1>1, <1>3, <1>4, <3>1
    <3>2. CASE ~ job.written
      <4>1. bronze'[Raw] = bronze[Raw] \o rows
        BY <1>1, <1>3, <1>6, <3>2 DEF rows
      <4>2. /\ bronze[Raw] \in Seq(Row) /\ rows \in Seq(Row) /\ Differ(rows)
        BY <1>3, <2>1, RawFacts DEF BatchOf
      <4>3. ASSUME NEW i \in DOMAIN bronze[Raw], NEW j \in DOMAIN rows,
                   bronze[Raw][i].topic = rows[j].topic, bronze[Raw][i].id = rows[j].id
            PROVE  FALSE
        <5>1. PICK t \in Events : \E o \in Span(t) : rows[j] = topics[t][o]
          BY <2>1 DEF BatchOf
        <5>2. PICK o \in Span(t) : rows[j] = topics[t][o]
          BY <5>1
        <5>3. /\ o \in DOMAIN topics[t] /\ o > job.offset[t] /\ topics[t][o].topic = t
          BY <2>2, <2>3
        <5>4. JobPast(t, o)
          BY <2>5, <4>3, <5>2, <5>3
        <5>5. o <= job.offset[t]
          BY <1>1, <3>2, <5>4 DEF JobPast
        <5>6. o \in Nat /\ job.offset[t] \in Nat
          <6>1. o \in Nat
            BY <1>3, <5>3, RawFacts
          <6>2. QED
            BY <1>1, <2>1, <6>1, SpanType DEF Types
        <5>7. QED
          BY <5>3, <5>5, <5>6
      <4>4. QED
        BY <1>4, <4>1, <4>2, <4>3, DifferBoth
    <3>3. QED
      BY <3>1, <3>2
  <2>9. checkpoint'[Raw] # NULL => checkpoint'[Raw].written /\ checkpoint'[Raw].plan = job.plan
    <3> SUFFICES ASSUME checkpoint'[Raw] # NULL
                 PROVE  checkpoint'[Raw].written /\ checkpoint'[Raw].plan = job.plan
      OBVIOUS
    <3>1. /\ checkpoint[s] # NULL /\ checkpoint'[s] = [checkpoint[s] EXCEPT !.written = TRUE]
          /\ checkpoint[s] \in Checkpoint(s) /\ checkpoint[s].plan = job.plan
      BY <1>1, <1>6 DEF Types, PointType, Rel
    <3>2. QED
      BY <1>6, <3>1 DEF Checkpoint
  <2>10. Passed'
    <3>1. \A t, o : o <= job.plan[t] =>
              /\ checkpoint'[Raw] # NULL => Past(checkpoint'[Raw], t, o)
              /\ JobPast(t, o)'
      BY <1>1, <2>9 DEF Past, JobPast
    <3>2. QED
      BY <1>2, <2>7, <3>1 DEF Passed
  <2>11. QED
    BY <2>8, <2>10
<1>7. QED
  BY <1>5, <1>6

LEMMA CommitsOnce ==
    ASSUME Types, OnceInv, CommitBatch
    PROVE  OnceInv'
<1> DEFINE s == job.stream
<1>1. /\ Elsewhere /\ bronze' = bronze /\ job # NULL /\ job.phase = "commit" /\ s \in streams
      /\ job' = NULL
      /\ \A q \in streams \ {s} : checkpoint'[q] = checkpoint[q]
      /\ checkpoint'[s] # NULL =>
            /\ checkpoint'[s].offset = job.plan
            /\ checkpoint'[s].plan = NULL /\ ~ checkpoint'[s].written
  BY Commits DEF Types
<1>2. streams' = streams /\ topics' = topics
  BY <1>1 DEF Elsewhere
<1>3. SUFFICES ASSUME Raw \in streams
               PROVE  Passed'
  BY <1>1, <1>2 DEF OnceInv
<1>4. Passed
  BY <1>3 DEF OnceInv
<1>5. CASE s # Raw
  BY <1>1, <1>2, <1>3, <1>4, <1>5 DEF Passed, Runs
<1>6. CASE s = Raw
  BY <1>1, <1>2, <1>4, <1>6 DEF Passed, Past, JobPast, Runs
<1>7. QED
  BY <1>5, <1>6

LEMMA OtherOnce ==
    ASSUME OnceInv, UNCHANGED <<streams, topics, bronze, checkpoint>>, job' = job \/ job' = NULL
    PROVE  OnceInv'
<1>1. Raw \in streams => Passed'
  BY DEF OnceInv, Passed, Past, JobPast, Runs
<1>2. QED
  BY <1>1 DEF OnceInv

-----------------------------------------------------------------------------
(* No event lost *)

\* What a checkpoint promises of one topic, as long as the topics are those it
\* was made for.
KeptOf(s, point, t) ==
    /\ point.offset[t] <= Len(topics[t])
    /\ point.plan # NULL => point.plan[t] <= Len(topics[t])
    /\ \A o \in point.from[t] + 1..point.offset[t] : In(topics[t][o], bronze[s])
    /\ point.written => \A o \in point.from[t] + 1..point.plan[t] : In(topics[t][o], bronze[s])

Kept == \A s \in streams : checkpoint[s] # NULL /\ ~ checkpoint[s].stale =>
            \A t \in Input(s) : KeptOf(s, checkpoint[s], t)

LEMMA PointFacts ==
    ASSUME Types, NEW s \in streams, NEW t \in Input(s)
    PROVE  /\ t \in Topics /\ topics[t] \in Seq(Row) /\ Len(topics[t]) \in Nat
           /\ DOMAIN topics[t] = 1..Len(topics[t])
           /\ checkpoint[s] # NULL =>
                 /\ checkpoint[s] \in Checkpoint(s)
                 /\ checkpoint[s].from[t] \in Nat /\ checkpoint[s].offset[t] \in Nat
                 /\ checkpoint[s].plan # NULL => checkpoint[s].plan[t] \in Nat
                 /\ checkpoint[s].written => checkpoint[s].plan # NULL
<1>1. t \in Topics
  BY StreamsAre DEF Types, WriterType
<1>2. topics[t] \in Seq(Row) /\ Len(topics[t]) \in Nat /\ DOMAIN topics[t] = 1..Len(topics[t])
  BY <1>1, LenProperties DEF Types, TopicsType
<1>3. checkpoint[s] # NULL =>
        /\ checkpoint[s] \in Checkpoint(s)
        /\ checkpoint[s].from[t] \in Nat /\ checkpoint[s].offset[t] \in Nat
        /\ checkpoint[s].plan # NULL => checkpoint[s].plan[t] \in Nat
        /\ checkpoint[s].written => checkpoint[s].plan # NULL
  BY DEF Types, PointType, Checkpoint, Offsets, Maybe
<1>4. QED
  BY <1>1, <1>2, <1>3

LEMMA GrownKept ==
    ASSUME Types, Kept, Grown
    PROVE  Kept'
<1>1. UNCHANGED <<streams, bronze, checkpoint>>
  BY DEF Grown, Lake
<1>2. ASSUME NEW s \in streams, checkpoint[s] # NULL, ~ checkpoint[s].stale, NEW t \in Input(s)
      PROVE  KeptOf(s, checkpoint[s], t)'
  <2> DEFINE point == checkpoint[s]
  <2>1. KeptOf(s, point, t)
    BY <1>2 DEF Kept
  <2>2. /\ t \in Topics /\ Len(topics[t]) \in Nat /\ DOMAIN topics[t] = 1..Len(topics[t])
        /\ point.from[t] \in Nat /\ point.offset[t] \in Nat
        /\ point.plan # NULL => point.plan[t] \in Nat
        /\ point.written => point.plan # NULL
    BY <1>2, PointFacts
  <2>3. /\ topics'[t] \in Seq(Row)
        /\ \A o \in DOMAIN topics[t] : o \in DOMAIN topics'[t] /\ topics'[t][o] = topics[t][o]
    BY <2>2, TopicGrows DEF Types
  <2>4. Len(topics'[t]) \in Nat /\ Len(topics[t]) <= Len(topics'[t])
    <3>1. DOMAIN topics'[t] = 1..Len(topics'[t]) /\ Len(topics'[t]) \in Nat
      BY <2>3, LenProperties
    <3>2. Len(topics[t]) = 0 \/ Len(topics[t]) \in 1..Len(topics'[t])
      BY <2>2, <2>3, <3>1
    <3>3. QED
      BY <2>2, <3>1, <3>2
  <2>5. point.offset[t] <= Len(topics'[t])
    BY <2>1, <2>2, <2>4 DEF KeptOf
  <2>6. point.plan # NULL => point.plan[t] <= Len(topics'[t])
    BY <2>1, <2>2, <2>4 DEF KeptOf
  <2>7. \A o \in point.from[t] + 1..point.offset[t] : In(topics'[t][o], bronze[s])
    <3>1. \A o \in point.from[t] + 1..point.offset[t] : o \in DOMAIN topics[t] /\ In(topics[t][o], bronze[s])
      BY <2>1, <2>2 DEF KeptOf
    <3>2. QED
      BY <2>3, <3>1
  <2>8. point.written => \A o \in point.from[t] + 1..point.plan[t] : In(topics'[t][o], bronze[s])
    <3>1. point.written => \A o \in point.from[t] + 1..point.plan[t] :
                               o \in DOMAIN topics[t] /\ In(topics[t][o], bronze[s])
      BY <2>1, <2>2 DEF KeptOf
    <3>2. QED
      BY <2>3, <3>1
  <2>9. QED
    BY <1>1, <2>5, <2>6, <2>7, <2>8 DEF KeptOf, In
<1>3. QED
  BY <1>1, <1>2 DEF Kept

LEMMA CleanedKept ==
    ASSUME Types, Kept, NEW replaced \in BOOLEAN, Cleaned(replaced)
    PROVE  Kept'
<1>1. /\ streams' = streams /\ bronze' = bronze
      /\ topics' = IF replaced THEN [t \in Topics |-> <<>>] ELSE topics
  BY DEF Cleaned
<1>2. ASSUME NEW s \in streams, checkpoint'[s] # NULL, ~ checkpoint'[s].stale, NEW t \in Input(s)
      PROVE  KeptOf(s, checkpoint[s], t)'
  <2>1. /\ checkpoint[s] # NULL /\ checkpoint[s] \in Checkpoint(s)
        /\ checkpoint'[s] = [checkpoint[s] EXCEPT !.stale = @ \/ replaced]
    BY <1>2 DEF Cleaned, Types, PointType
  <2>2. /\ checkpoint'[s].stale = (checkpoint[s].stale \/ replaced)
        /\ checkpoint'[s].from = checkpoint[s].from /\ checkpoint'[s].plan = checkpoint[s].plan
        /\ checkpoint'[s].offset = checkpoint[s].offset
        /\ checkpoint'[s].written = checkpoint[s].written
    BY <2>1 DEF Checkpoint
  <2>3. ~ replaced /\ KeptOf(s, checkpoint[s], t)
    BY <1>2, <2>1, <2>2 DEF Kept
  <2>4. QED
    BY <1>1, <2>2, <2>3 DEF KeptOf
<1>3. QED
  BY <1>1, <1>2 DEF Kept

LEMMA StartedKept ==
    ASSUME Types, Kept, NEW s \in streams, StartJob(s)
    PROVE  Kept'
<1>1. /\ Elsewhere /\ bronze' = bronze
      /\ \A q \in streams \ {s} : checkpoint'[q] = checkpoint[q]
      /\ checkpoint'[s].from = PointOf(s).from /\ checkpoint'[s].offset = PointOf(s).offset
      /\ checkpoint'[s].written = PointOf(s).written /\ checkpoint'[s].stale = PointOf(s).stale
      /\ PointOf(s).written => PointOf(s).plan # NULL
      /\ \/ checkpoint'[s].plan = NULL /\ checkpoint[s] = NULL
         \/ checkpoint'[s].plan = PlanOf(s)
  BY Started DEF Types
<1>2. streams' = streams /\ topics' = topics
  BY <1>1 DEF Elsewhere
<1>3. ASSUME ~ PointOf(s).stale, NEW t \in Input(s)
      PROVE  KeptOf(s, checkpoint'[s], t)
  <2>1. Ends(s)[t] = Len(topics[t]) /\ Len(topics[t]) \in Nat
    BY PointFacts DEF Ends
  <2>2. CASE checkpoint[s] # NULL
    <3>1. PointOf(s) = checkpoint[s] /\ KeptOf(s, checkpoint[s], t)
      BY <1>3, <2>2 DEF PointOf, Kept
    <3>2. PlanOf(s)[t] <= Len(topics[t]) /\ (checkpoint[s].plan # NULL => PlanOf(s) = checkpoint[s].plan)
      BY <2>1, <3>1 DEF PlanOf, KeptOf
    <3>3. QED
      BY <1>1, <2>2, <3>1, <3>2 DEF KeptOf
  <2>3. CASE checkpoint[s] = NULL
    <3>1. /\ PointOf(s).from = Starts(s) /\ PointOf(s).offset = Starts(s) /\ ~ PointOf(s).written
          /\ PlanOf(s) = Ends(s)
      BY <2>3 DEF PointOf, PlanOf
    <3>2. Starts(s)[t] = 0 \/ Starts(s)[t] = Len(topics[t])
      BY <2>1 DEF Starts
    <3>3. Starts(s)[t] \in Nat /\ Starts(s)[t] <= Len(topics[t])
      BY <2>1, <3>2
    <3>4. Starts(s)[t] + 1..Starts(s)[t] = {}
      BY <3>3
    <3>5. QED
      BY <1>1, <2>1, <3>1, <3>3, <3>4 DEF KeptOf
  <2>4. QED
    BY <2>2, <2>3
<1>4. \A t \in Input(s) : ~ checkpoint'[s].stale => KeptOf(s, checkpoint[s], t)'
  BY <1>1, <1>2, <1>3 DEF KeptOf
<1>5. \A q \in streams \ {s} : \A t \in Input(q) : checkpoint[q] # NULL /\ ~ checkpoint[q].stale =>
          KeptOf(q, checkpoint[q], t)'
  BY <1>1, <1>2 DEF Kept, KeptOf
<1>6. QED
  BY <1>1, <1>2, <1>4, <1>5 DEF Kept

LEMMA AppendsKept ==
    ASSUME Types, Kept, AppendBatch
    PROVE  Kept'
<1>0. PICK s \in streams : s = job.stream
  BY Appends DEF Types
<1>1. /\ Elsewhere /\ job # NULL /\ job.phase = "append" /\ s \in streams /\ job \in JobOf(s)
      /\ bronze' = [q \in streams |-> IF q = s /\ ~ job.written THEN bronze[q] \o Rows(s)
                                      ELSE bronze[q]]
      /\ \A q \in streams \ {s} : checkpoint'[q] = checkpoint[q]
      /\ checkpoint'[s] # NULL => /\ checkpoint[s] # NULL
                                  /\ checkpoint'[s] = [checkpoint[s] EXCEPT !.written = TRUE]
  BY <1>0, Appends DEF Types
<1>2. streams' = streams /\ topics' = topics
  BY <1>1 DEF Elsewhere
<1>3. BatchOf(Rows(s), Input(s))
  BY <1>0, <1>1, RowsOfBatch DEF Types
<1>4. bronze[s] \in Seq(Row) /\ Rows(s) \in Seq(Row)
  BY <1>1, <1>3 DEF Types, TableType, BatchOf
<1>5. \A e : In(e, bronze[s]) \/ (~ job.written /\ In(e, Rows(s))) => In(e, bronze'[s])
  <2>1. \A e : In(e, bronze[s]) \/ In(e, Rows(s)) => In(e, bronze[s] \o Rows(s))
    BY <1>4, InBoth
  <2>2. QED
    BY <1>1, <2>1
<1>6. ASSUME checkpoint'[s] # NULL, ~ checkpoint'[s].stale, NEW t \in Input(s)
      PROVE  KeptOf(s, checkpoint[s], t)'
  <2> DEFINE point == checkpoint[s]
             new == checkpoint'[s]
  <2>1. /\ point # NULL /\ point \in Checkpoint(s) /\ new = [point EXCEPT !.written = TRUE]
        /\ point.offset = job.offset /\ point.plan = job.plan /\ (point.written <=> job.written)
    BY <1>0, <1>1, <1>6 DEF Types, PointType, Rel
  <2>2. /\ new.from = point.from /\ new.offset = point.offset /\ new.plan = point.plan
        /\ new.stale = point.stale /\ new.written
    BY <2>1 DEF Checkpoint
  <2>3. KeptOf(s, point, t)
    BY <1>1, <1>6, <2>1, <2>2 DEF Kept
  <2>4. /\ point.from[t] \in Nat /\ point.offset[t] \in Nat /\ t \in Topics
        /\ Len(topics[t]) \in Nat /\ DOMAIN topics[t] = 1..Len(topics[t])
    BY <1>1, <2>1, PointFacts
  <2>5. point.plan # NULL /\ job.plan[t] \in Nat
    <3>1. job.plan \in Offsets(s)
      BY <1>1 DEF JobOf
    <3>2. QED
      BY <1>1, <2>1, <3>1, PlanNotNull DEF Types, Offsets
  <2>6. ASSUME NEW o \in point.from[t] + 1..point.plan[t]
        PROVE  In(topics[t][o], bronze'[s])
    <3>1. CASE job.written
      BY <1>5, <2>1, <2>3, <3>1 DEF KeptOf
    <3>2. CASE ~ job.written /\ o <= point.offset[t]
      <4>1. o \in point.from[t] + 1..point.offset[t]
        BY <2>1, <2>4, <2>5, <3>2
      <4>2. QED
        BY <1>5, <2>3, <4>1 DEF KeptOf
    <3>3. CASE ~ job.written /\ ~ o <= point.offset[t]
      <4>1. o \in DOMAIN topics[t] /\ o > job.offset[t] /\ o <= job.plan[t]
        BY <2>1, <2>3, <2>4, <2>5, <3>3 DEF KeptOf
      <4>2. o \in Span(t)
        BY <1>0, <1>1, <2>4, <4>1, SpanType DEF Types
      <4>3. QED
        BY <1>3, <1>5, <3>3, <4>2 DEF BatchOf
    <3>4. QED
      BY <3>1, <3>2, <3>3
  <2>7. \A o \in point.from[t] + 1..point.offset[t] : In(topics[t][o], bronze'[s])
    BY <1>5, <2>3 DEF KeptOf
  <2>8. QED
    BY <1>2, <2>2, <2>3, <2>6, <2>7 DEF KeptOf
<1>7. \A q \in streams \ {s} : \A t \in Input(q) : checkpoint[q] # NULL /\ ~ checkpoint[q].stale =>
          KeptOf(q, checkpoint[q], t)'
  BY <1>1, <1>2 DEF Kept, KeptOf
<1>8. QED
  BY <1>1, <1>2, <1>6, <1>7 DEF Kept

LEMMA CommitsKept ==
    ASSUME Types, Kept, CommitBatch
    PROVE  Kept'
<1>0. PICK s \in streams : s = job.stream
  BY Commits DEF Types
<1>1. /\ Elsewhere /\ bronze' = bronze /\ job # NULL /\ job.phase = "commit" /\ s \in streams
      /\ \A q \in streams \ {s} : checkpoint'[q] = checkpoint[q]
      /\ checkpoint'[s] # NULL =>
            /\ checkpoint[s] # NULL
            /\ checkpoint'[s].from = checkpoint[s].from
            /\ checkpoint'[s].stale = checkpoint[s].stale
            /\ checkpoint'[s].offset = job.plan
            /\ checkpoint'[s].plan = NULL /\ ~ checkpoint'[s].written
  BY <1>0, Commits DEF Types
<1>2. streams' = streams /\ topics' = topics
  BY <1>1 DEF Elsewhere
<1>3. ASSUME checkpoint'[s] # NULL, ~ checkpoint'[s].stale, NEW t \in Input(s)
      PROVE  KeptOf(s, checkpoint[s], t)'
  <2>1. checkpoint[s].plan = job.plan /\ checkpoint[s].written
    BY <1>0, <1>1, <1>3 DEF Types, PointType, Rel
  <2>2. KeptOf(s, checkpoint[s], t) /\ checkpoint[s].plan # NULL
    BY <1>1, <1>3, <2>1 DEF Kept, Types, PointType
  <2>3. QED
    BY <1>1, <1>2, <1>3, <2>1, <2>2 DEF KeptOf
<1>4. \A q \in streams \ {s} : \A t \in Input(q) : checkpoint[q] # NULL /\ ~ checkpoint[q].stale =>
          KeptOf(q, checkpoint[q], t)'
  BY <1>1, <1>2 DEF Kept, KeptOf
<1>5. QED
  BY <1>1, <1>2, <1>3, <1>4 DEF Kept

LEMMA OtherKept ==
    ASSUME Kept, UNCHANGED <<streams, topics, bronze, checkpoint>>
    PROVE  Kept'
BY DEF Kept, KeptOf

ExactInv == Types /\ OnceInv /\ Kept

LEMMA NextExact ==
    ASSUME ExactInv, [Next]_vars
    PROVE  ExactInv'
<1>1. Types'
  BY NextTypes DEF ExactInv
<1>2. CASE Second \/ CrashJob \/ UNCHANGED vars
  <2>1. UNCHANGED <<streams, topics, bronze, checkpoint>> /\ (job' = job \/ job' = NULL)
    BY <1>2, Ticks, Crashes DEF ExactInv, Types, Elsewhere, vars
  <2>2. QED
    BY <1>1, <2>1, OtherOnce, OtherKept DEF ExactInv
<1>3. CASE Generator /\ ~ Signal
  BY <1>1, <1>3, GeneratorWrites, GrownOnce, GrownKept DEF ExactInv, Wrote
<1>4. CASE Signal
  BY <1>1, <1>4, SignalCleans, CleanedOnce, CleanedKept DEF ExactInv, Types
<1>5. CASE \E s \in streams : StartJob(s)
  BY <1>1, <1>5, StartedOnce, StartedKept DEF ExactInv
<1>6. CASE AppendBatch
  BY <1>1, <1>6, AppendsOnce, AppendsKept DEF ExactInv
<1>7. CASE CommitBatch
  BY <1>1, <1>7, CommitsOnce, CommitsKept DEF ExactInv
<1>8. QED
  BY <1>2, <1>3, <1>4, <1>5, <1>6, <1>7 DEF Next, Jobs

LEMMA InitExact ==
    ASSUME Init
    PROVE  ExactInv
<1>1. Types
  BY InitTypes
<1>2. \A s \in streams : DOMAIN bronze[s] = {} /\ checkpoint[s] = NULL
  BY DEF Init
<1>3. OnceInv /\ Kept
  BY <1>2 DEF OnceInv, Differ, Passed, Kept
<1>4. QED
  BY <1>1, <1>3 DEF ExactInv

LEMMA ExactOnce ==
    ASSUME ExactInv
    PROVE  ExactlyOnce
<1>1. EventsOnce
  <2>1. CASE Raw \in streams
    <3>1. Table("raw_events") = bronze[Raw] /\ Differ(bronze[Raw])
          /\ \A i \in DOMAIN bronze[Raw] : bronze[Raw][i].topic \in Events
      BY <2>1, RawFacts DEF ExactInv, OnceInv, Table, Raw
    <3>2. QED
      BY <3>1 DEF EventsOnce, Differ
  <2>2. CASE Raw \notin streams
    BY <2>2 DEF EventsOnce, Table, Raw
  <2>3. QED
    BY <2>1, <2>2
<1>2. NothingSkipped
  BY DEF ExactInv, Kept, KeptOf, NothingSkipped, In
<1>3. QED
  BY <1>1, <1>2 DEF ExactlyOnce

\* Events are appended to raw_events once, and no stream skips one, whatever
\* crashes, starts and clean-ups that fail come in between.
THEOREM ExactlyOnceCorrect == Spec => []ExactlyOnce
<1>1. Init => ExactInv
  BY InitExact
<1>2. ExactInv /\ [Next]_vars => ExactInv'
  BY NextExact
<1>3. ExactInv => ExactlyOnce
  BY ExactOnce
<1>4. QED
  BY <1>1, <1>2, <1>3, PTL DEF Spec

-----------------------------------------------------------------------------
(* The keys of the product *)

P == "products"

\* The table of the product, while no offsets outlive their topic.
Ordered ==
    /\ \A o, p \in DOMAIN topics[P] :
          o < p /\ In(topics[P][p], bronze[P]) => In(topics[P][o], bronze[P])
    /\ checkpoint[P] # NULL => ~ checkpoint[P].stale /\ checkpoint[P].from[P] = 0
    /\ Runs(P) => /\ job.offset[P] <= Len(topics[P]) /\ job.plan[P] <= Len(topics[P])
                  /\ \A o \in 1..job.offset[P] : In(topics[P][o], bronze[P])
                  /\ job.written \/ job.phase = "commit" =>
                        \A o \in 1..job.plan[P] : In(topics[P][o], bronze[P])

\* A row is of the topic that there is, or older than all of it.
Dated ==
    \A i \in DOMAIN bronze[P] :
        \/ In(bronze[P][i], topics[P])
        \/ /\ bronze[P][i].ts < now
           /\ \A o \in DOMAIN topics[P] : bronze[P][i].ts < topics[P][o].ts

KeysInv ==
    P \in streams => /\ Functional(bronze[P]) /\ Dated
                     /\ P \notin outlived => Ordered

LEMMA ProductFacts ==
    ASSUME Types, P \in streams
    PROVE  /\ P \in Topics /\ P \notin Events /\ Input(P) = {P} /\ P # Raw
           /\ topics[P] \in Seq(Row) /\ Len(topics[P]) \in Nat
           /\ DOMAIN topics[P] = 1..Len(topics[P])
           /\ bronze[P] \in Seq(Row)
           /\ \A o \in DOMAIN topics[P] : /\ topics[P][o].ts \in Nat /\ topics[P][o].off = o - 1
                                          /\ topics[P][o].ts <= now
           /\ \A o, p \in DOMAIN topics[P] : o < p => topics[P][o].ts <= topics[P][p].ts
           /\ \A i \in DOMAIN bronze[P] : /\ bronze[P][i].ts \in Nat /\ bronze[P][i].ts <= now
                                          /\ bronze[P][i].off \in Nat
           /\ now \in Nat
<1>1. P \in Cdc /\ P # Raw
  BY DEF P, Cdc, Raw
<1>2. P \in Topics /\ P \notin Events /\ Input(P) = {P}
  BY <1>1, StreamsAre DEF Types, WriterType
<1>3. topics[P] \in Seq(Row) /\ Len(topics[P]) \in Nat /\ DOMAIN topics[P] = 1..Len(topics[P])
  BY <1>2, LenProperties DEF Types, TopicsType
<1>4. bronze[P] \in Seq(Row)
  BY DEF Types, TableType
<1>5. ASSUME NEW o \in DOMAIN topics[P]
      PROVE  topics[P][o].ts \in Nat /\ topics[P][o].off = o - 1 /\ topics[P][o].ts <= now
  <2>1. topics[P][o] \in Row
    BY <1>3, ElementOfSeq
  <2>2. QED
    BY <1>2, <2>1 DEF Row, Types, TopicsType
<1>6. \A o, p \in DOMAIN topics[P] : o < p => topics[P][o].ts <= topics[P][p].ts
  BY <1>2 DEF Types, TopicsType
<1>7. ASSUME NEW i \in DOMAIN bronze[P]
      PROVE  bronze[P][i].ts \in Nat /\ bronze[P][i].off \in Nat /\ bronze[P][i].ts <= now
  <2>1. bronze[P][i] \in Row
    BY <1>4, ElementOfSeq, LenProperties
  <2>2. QED
    BY <2>1 DEF Row, Types, TableType
<1>8. now \in Nat
  BY IdType DEF Types
<1>9. QED
  BY <1>1, <1>2, <1>3, <1>4, <1>5, <1>6, <1>7, <1>8

LEMMA GrownKeys ==
    ASSUME Types, KeysInv, Grown
    PROVE  KeysInv'
<1>1. UNCHANGED <<streams, now, bronze, checkpoint, job, outlived>>
  BY DEF Grown, Lake
<1>2. SUFFICES ASSUME P \in streams
               PROVE  Dated' /\ (P \notin outlived => Ordered')
  BY <1>1 DEF KeysInv
<1>3. Dated /\ (P \notin outlived => Ordered)
  BY <1>2 DEF KeysInv
<1>4. /\ Len(topics[P]) \in Nat /\ DOMAIN topics[P] = 1..Len(topics[P]) /\ P \in Topics
      /\ \A o \in DOMAIN topics[P] : topics[P][o].off = o - 1
      /\ \A i \in DOMAIN bronze[P] : bronze[P][i].ts \in Nat /\ bronze[P][i].off \in Nat
      /\ now \in Nat
  BY <1>2, ProductFacts
<1>5. /\ topics'[P] \in Seq(Row)
      /\ \A o \in DOMAIN topics[P] : o \in DOMAIN topics'[P] /\ topics'[P][o] = topics[P][o]
      /\ \A o \in DOMAIN topics'[P] \ DOMAIN topics[P] :
            /\ o = Len(topics[P]) + 1
            /\ topics'[P][o].off = o - 1 /\ topics'[P][o].ts = now
  BY <1>4, TopicGrows DEF Types
<1>6. DOMAIN topics'[P] = 1..Len(topics'[P]) /\ Len(topics'[P]) \in Nat
  BY <1>5, LenProperties
<1>7. Len(topics[P]) <= Len(topics'[P])
  <2>1. Len(topics[P]) = 0 \/ Len(topics[P]) \in 1..Len(topics'[P])
    BY <1>4, <1>5, <1>6
  <2>2. QED
    BY <1>4, <1>6, <2>1
<1>8. Dated'
  <2> SUFFICES ASSUME NEW i \in DOMAIN bronze[P]
               PROVE  \/ In(bronze[P][i], topics'[P])
                      \/ /\ bronze[P][i].ts < now
                         /\ \A o \in DOMAIN topics'[P] : bronze[P][i].ts < topics'[P][o].ts
    BY <1>1 DEF Dated
  <2>1. CASE In(bronze[P][i], topics[P])
    BY <1>5, <2>1 DEF In
  <2>2. CASE ~ In(bronze[P][i], topics[P])
    <3>1. /\ bronze[P][i].ts < now
          /\ \A o \in DOMAIN topics[P] : bronze[P][i].ts < topics[P][o].ts
      BY <1>3, <2>2 DEF Dated
    <3>2. QED
      BY <1>5, <3>1
  <2>3. QED
    BY <2>1, <2>2
<1>9. ASSUME P \notin outlived PROVE Ordered'
  <2>1. Ordered
    BY <1>3, <1>9
  <2>2. ASSUME NEW p \in DOMAIN topics'[P], In(topics'[P][p], bronze[P])
        PROVE  p \in DOMAIN topics[P]
    <3>1. SUFFICES ASSUME p \notin DOMAIN topics[P] PROVE FALSE
      OBVIOUS
    <3>2. p = Len(topics[P]) + 1 /\ topics'[P][p].off = p - 1 /\ topics'[P][p].ts = now
      BY <1>5, <3>1
    <3>3. PICK i \in DOMAIN bronze[P] : bronze[P][i] = topics'[P][p]
      BY <2>2 DEF In
    <3>4. ~ In(bronze[P][i], topics[P])
      BY <1>4, <3>2, <3>3 DEF In
    <3>5. bronze[P][i].ts < now
      BY <1>3, <3>4 DEF Dated
    <3>6. QED
      BY <1>4, <3>2, <3>3, <3>5
  <2>3. \A o, p \in DOMAIN topics'[P] :
            o < p /\ In(topics'[P][p], bronze[P]) => In(topics'[P][o], bronze[P])
    <3> SUFFICES ASSUME NEW o \in DOMAIN topics'[P], NEW p \in DOMAIN topics'[P], o < p,
                        In(topics'[P][p], bronze[P])
                 PROVE  In(topics'[P][o], bronze[P])
      OBVIOUS
    <3>1. p \in DOMAIN topics[P]
      BY <2>2
    <3>2. o \in DOMAIN topics[P]
      BY <1>4, <1>6, <3>1
    <3>3. QED
      BY <1>5, <2>1, <3>1, <3>2 DEF Ordered
  <2>4. ASSUME Runs(P)
        PROVE  /\ job.offset[P] <= Len(topics'[P]) /\ job.plan[P] <= Len(topics'[P])
               /\ \A o \in 1..job.offset[P] : In(topics'[P][o], bronze[P])
               /\ job.written \/ job.phase = "commit" =>
                     \A o \in 1..job.plan[P] : In(topics'[P][o], bronze[P])
    <3>1. /\ job.offset[P] <= Len(topics[P]) /\ job.plan[P] <= Len(topics[P])
          /\ \A o \in 1..job.offset[P] : In(topics[P][o], bronze[P])
          /\ job.written \/ job.phase = "commit" =>
                \A o \in 1..job.plan[P] : In(topics[P][o], bronze[P])
      BY <2>1, <2>4 DEF Ordered
    <3>2. job.offset[P] \in Nat /\ job.plan[P] \in Nat
      <4>1. job # NULL /\ job.stream = P /\ P \in Input(P)
        BY <1>2, <2>4, ProductFacts DEF Runs
      <4>2. QED
        BY <1>4, <4>1, SpanType DEF Types
    <3>3. \A o \in 1..job.offset[P] : topics'[P][o] = topics[P][o]
      BY <1>4, <1>5, <3>1, <3>2
    <3>4. \A o \in 1..job.plan[P] : topics'[P][o] = topics[P][o]
      BY <1>4, <1>5, <3>1, <3>2
    <3>5. QED
      BY <1>4, <1>6, <1>7, <3>1, <3>2, <3>3, <3>4
  <2>5. checkpoint[P] # NULL => ~ checkpoint[P].stale /\ checkpoint[P].from[P] = 0
    BY <2>1 DEF Ordered
  <2>6. QED
    BY <1>1, <2>3, <2>4, <2>5 DEF Ordered, Runs
<1>10. QED
  BY <1>8, <1>9

LEMMA CleanedKeys ==
    ASSUME Types, KeysInv, NEW replaced \in BOOLEAN, Cleaned(replaced)
    PROVE  KeysInv'
<1>1. /\ streams' = streams /\ bronze' = bronze /\ job' = job
      /\ now' = IF replaced THEN now + 1 ELSE now
      /\ topics' = IF replaced THEN [t \in Topics |-> <<>>] ELSE topics
      /\ outlived' = outlived \cup {s \in streams : replaced /\ (checkpoint'[s] # NULL \/ Runs(s))}
  BY DEF Cleaned
<1>2. SUFFICES ASSUME P \in streams
               PROVE  Dated' /\ (P \notin outlived' => Ordered')
  BY <1>1 DEF KeysInv
<1>3. Dated /\ (P \notin outlived => Ordered)
  BY <1>2 DEF KeysInv
<1>4. CASE replaced
  <2>1. DOMAIN topics'[P] = {} /\ now' = now + 1
    BY <1>1, <1>2, <1>4, ProductFacts
  <2>2. \A i \in DOMAIN bronze[P] : bronze[P][i].ts < now + 1
    <3>1. \A i \in DOMAIN bronze[P] : bronze[P][i].ts \in Nat /\ bronze[P][i].ts <= now /\ now \in Nat
      BY <1>2, ProductFacts
    <3>2. QED
      BY <3>1
  <2>3. Dated'
    BY <1>1, <2>1, <2>2 DEF Dated
  <2>4. ASSUME P \notin outlived' PROVE checkpoint'[P] = NULL /\ ~ Runs(P)'
    BY <1>1, <1>2, <1>4, <2>4 DEF Runs
  <2>5. QED
    BY <2>1, <2>3, <2>4 DEF Ordered
<1>5. CASE ~ replaced
  <2>1. topics' = topics /\ now' = now /\ outlived' = outlived
    BY <1>1, <1>5
  <2>2. checkpoint'[P] # NULL =>
            /\ checkpoint[P] # NULL /\ checkpoint'[P].from = checkpoint[P].from
            /\ checkpoint'[P].stale = checkpoint[P].stale
    BY <1>2, <1>5 DEF Cleaned, Types, PointType, Checkpoint
  <2>3. QED
    BY <1>1, <1>3, <2>1, <2>2 DEF Dated, Ordered, Runs
<1>6. QED
  BY <1>4, <1>5

LEMMA StartedKeys ==
    ASSUME Types, Kept, KeysInv, NEW s \in streams, StartJob(s)
    PROVE  KeysInv'
<1>1. /\ Elsewhere /\ now' = now /\ bronze' = bronze /\ outlived' = outlived /\ job = NULL
      /\ \A q \in streams \ {s} : checkpoint'[q] = checkpoint[q]
      /\ checkpoint'[s].from = PointOf(s).from /\ checkpoint'[s].stale = PointOf(s).stale
      /\ PointOf(s).written => PointOf(s).plan # NULL
      /\ job' = NULL \/ job' = Job(s, PointOf(s), PlanOf(s))
  BY Started DEF Types
<1>2. streams' = streams /\ topics' = topics
  BY <1>1 DEF Elsewhere
<1>3. SUFFICES ASSUME P \in streams, P \notin outlived
               PROVE  Ordered'
  BY <1>1, <1>2 DEF KeysInv, Dated
<1>4. Ordered
  BY <1>3 DEF KeysInv
<1> DEFINE j == Job(s, PointOf(s), PlanOf(s))
<1>5. /\ j.stream = s /\ j.plan = PlanOf(s) /\ j.offset = PointOf(s).offset
      /\ j.written = PointOf(s).written /\ j.phase = "append"
  BY DEF Job
<1> HIDE DEF j
<1>6. CASE s # P
  BY <1>1, <1>2, <1>3, <1>4, <1>5, <1>6 DEF Ordered, Runs, j
<1>7. CASE s = P
  <2>1. P \in Input(P) /\ Input(P) = {P} /\ Len(topics[P]) \in Nat /\ Ends(P)[P] = Len(topics[P])
    BY <1>3, ProductFacts DEF Ends
  <2>2. /\ ~ PointOf(P).stale /\ PointOf(P).from[P] = 0
        /\ PointOf(P).offset[P] <= Len(topics[P]) /\ PlanOf(P)[P] <= Len(topics[P])
        /\ \A o \in 1..PointOf(P).offset[P] : In(topics[P][o], bronze[P])
        /\ PointOf(P).written => \A o \in 1..PlanOf(P)[P] : In(topics[P][o], bronze[P])
    <3>1. CASE checkpoint[P] # NULL
      <4>1. PointOf(P) = checkpoint[P] /\ ~ checkpoint[P].stale /\ checkpoint[P].from[P] = 0
        BY <1>4, <3>1 DEF PointOf, Ordered
      <4>2. KeptOf(P, checkpoint[P], P)
        BY <1>3, <2>1, <3>1, <4>1 DEF Kept
      <4>3. 0 + 1 = 1
        OBVIOUS
      <4>4. checkpoint[P].plan # NULL => PlanOf(P) = checkpoint[P].plan
        BY <4>1 DEF PlanOf
      <4>5. checkpoint[P].plan = NULL => PlanOf(P) = Ends(P)
        BY <4>1 DEF PlanOf
      <4>6. checkpoint[P].written => checkpoint[P].plan # NULL
        BY <1>1, <1>7, <4>1
      <4>7. QED
        BY <2>1, <4>1, <4>2, <4>3, <4>4, <4>5, <4>6 DEF KeptOf
    <3>2. CASE checkpoint[P] = NULL
      <4>1. /\ PointOf(P).from = Starts(P) /\ PointOf(P).offset = Starts(P) /\ ~ PointOf(P).written
            /\ ~ PointOf(P).stale /\ PlanOf(P) = Ends(P)
        BY <3>2 DEF PointOf, PlanOf
      <4>2. Starts(P)[P] = 0
        BY <2>1 DEF Starts, P
      <4>3. QED
        BY <2>1, <4>1, <4>2
    <3>3. QED
      BY <3>1, <3>2
  <2>3. ASSUME Runs(P)'
        PROVE  /\ job'.offset[P] <= Len(topics[P]) /\ job'.plan[P] <= Len(topics[P])
               /\ \A o \in 1..job'.offset[P] : In(topics[P][o], bronze[P])
               /\ job'.written \/ job'.phase = "commit" =>
                     \A o \in 1..job'.plan[P] : In(topics[P][o], bronze[P])
    <3>1. job' = j
      BY <1>1, <2>3 DEF Runs, j
    <3>2. QED
      BY <1>5, <1>7, <2>2, <3>1
  <2>4. \A o, p \in DOMAIN topics[P] :
            o < p /\ In(topics[P][p], bronze[P]) => In(topics[P][o], bronze[P])
    BY <1>4 DEF Ordered
  <2>5. QED
    BY <1>1, <1>2, <1>7, <2>2, <2>3, <2>4 DEF Ordered
<1>8. QED
  BY <1>6, <1>7

\* What a job appends to the table of the product: the events up to its plan,
\* of which those up to its offset are there.
LEMMA ProductBatch ==
    ASSUME Types, KeysInv, AppendBatch, job.stream = P
    PROVE  /\ P \in streams /\ Runs(P) /\ job.phase = "append" /\ Rows(P) \in Seq(Row)
           /\ job.offset[P] \in Nat /\ job.plan[P] \in Nat
           /\ \A i \in DOMAIN Rows(P) : \E o \in DOMAIN topics[P] :
                  o > job.offset[P] /\ o <= job.plan[P] /\ Rows(P)[i] = topics[P][o]
           /\ \A o \in DOMAIN topics[P] :
                  o > job.offset[P] /\ o <= job.plan[P] => In(topics[P][o], Rows(P))
<1>1. job # NULL /\ job.phase = "append" /\ P \in streams
  BY Appends DEF Types
<1>2. Runs(P) /\ P \in Input(P) /\ Input(P) = {P} /\ P \in Topics
  BY <1>1, ProductFacts DEF Runs
<1>3. BatchOf(Rows(P), {P})
  BY <1>1, <1>2, RowsOfBatch DEF Types
<1>4. /\ job.offset[P] \in Nat /\ job.plan[P] \in Nat
      /\ \A o : o \in Span(P) <=> /\ o \in DOMAIN topics[P] /\ o > job.offset[P] /\ o <= job.plan[P]
  BY <1>1, <1>2, SpanType DEF Types
<1>5. \A i \in DOMAIN Rows(P) : \E o \in Span(P) : Rows(P)[i] = topics[P][o]
  BY <1>3 DEF BatchOf
<1>6. \A o \in Span(P) : In(topics[P][o], Rows(P)) /\ Rows(P) \in Seq(Row)
  BY <1>3 DEF BatchOf
<1>7. Rows(P) \in Seq(Row)
  BY <1>3 DEF BatchOf
<1>8. QED
  BY <1>1, <1>2, <1>4, <1>5, <1>6, <1>7

\* A row of the topic that the table does not have is later than all it has.
LEMMA NewIsLater ==
    ASSUME Types, KeysInv, P \in streams, P \notin outlived, NEW o \in DOMAIN topics[P],
           ~ In(topics[P][o], bronze[P]), NEW k \in DOMAIN bronze[P]
    PROVE  Before(bronze[P][k], topics[P][o])
<1>1. /\ DOMAIN topics[P] = 1..Len(topics[P]) /\ Len(topics[P]) \in Nat
      /\ \A q \in DOMAIN topics[P] : topics[P][q].ts \in Nat /\ topics[P][q].off = q - 1
      /\ \A q, p \in DOMAIN topics[P] : q < p => topics[P][q].ts <= topics[P][p].ts
  BY ProductFacts
<1>2. CASE In(bronze[P][k], topics[P])
  <2>1. PICK p \in DOMAIN topics[P] : topics[P][p] = bronze[P][k]
    BY <1>2 DEF In
  <2>2. In(topics[P][p], bronze[P])
    BY <2>1 DEF In
  <2>3. ~ o < p /\ o # p
    BY <2>2 DEF KeysInv, Ordered
  <2>4. p < o
    BY <1>1, <2>3
  <2>5. QED
    BY <1>1, <2>1, <2>4 DEF Before
<1>3. CASE ~ In(bronze[P][k], topics[P])
  BY <1>3 DEF KeysInv, Dated, Before
<1>4. QED
  BY <1>2, <1>3

LEMMA AppendsKeys ==
    ASSUME Types, KeysInv, AppendBatch
    PROVE  KeysInv'
<1>0. PICK s \in streams : s = job.stream
  BY Appends DEF Types
<1>1. /\ Elsewhere /\ now' = now /\ outlived' = outlived /\ job # NULL /\ job.phase = "append"
      /\ bronze' = [q \in streams |-> IF q = s /\ ~ job.written THEN bronze[q] \o Rows(s)
                                      ELSE bronze[q]]
      /\ \A q \in streams \ {s} : checkpoint'[q] = checkpoint[q]
      /\ checkpoint'[s] # NULL => /\ checkpoint[s] # NULL
                                  /\ checkpoint'[s] = [checkpoint[s] EXCEPT !.written = TRUE]
      /\ job'.stream = s /\ job'.offset = job.offset /\ job'.plan = job.plan
      /\ job'.written = job.written /\ job'.phase = "commit"
  BY <1>0, Appends DEF Types
<1>2. streams' = streams /\ topics' = topics
  BY <1>1 DEF Elsewhere
<1>3. SUFFICES ASSUME P \in streams
               PROVE  Functional(bronze'[P]) /\ Dated' /\ (P \notin outlived => Ordered')
  BY <1>1, <1>2 DEF KeysInv
<1>4. Functional(bronze[P]) /\ Dated /\ (P \notin outlived => Ordered)
  BY <1>3 DEF KeysInv
<1>5. CASE s # P
  <2>1. bronze'[P] = bronze[P] /\ checkpoint'[P] = checkpoint[P] /\ ~ Runs(P)'
    BY <1>1, <1>3, <1>5 DEF Runs
  <2>2. QED
    BY <1>1, <1>2, <1>4, <2>1 DEF Dated, Ordered
<1>6. CASE s = P
  <2> DEFINE rows == Rows(P)
             b == bronze'[P]
  <2>1. /\ Runs(P) /\ rows \in Seq(Row)
        /\ job.offset[P] \in Nat /\ job.plan[P] \in Nat
        /\ \A i \in DOMAIN rows : \E o \in DOMAIN topics[P] :
               o > job.offset[P] /\ o <= job.plan[P] /\ rows[i] = topics[P][o]
        /\ \A o \in DOMAIN topics[P] :
               o > job.offset[P] /\ o <= job.plan[P] => In(topics[P][o], rows)
    BY <1>0, <1>6, ProductBatch
  <2>2. /\ bronze[P] \in Seq(Row)
        /\ DOMAIN topics[P] = 1..Len(topics[P]) /\ Len(topics[P]) \in Nat
        /\ \A o \in DOMAIN topics[P] : topics[P][o].ts \in Nat /\ topics[P][o].off = o - 1
        /\ \A i \in DOMAIN bronze[P] : bronze[P][i].ts \in Nat
    BY <1>3, ProductFacts
  <2>3. b = IF job.written THEN bronze[P] ELSE bronze[P] \o rows
    BY <1>1, <1>3, <1>6
  <2> HIDE DEF rows, b
  <2>4. /\ \A e : In(e, b) <=> In(e, bronze[P]) \/ (~ job.written /\ In(e, rows))
        /\ \A q \in DOMAIN b : (\E i \in DOMAIN bronze[P] : b[q] = bronze[P][i])
                               \/ (\E j \in DOMAIN rows : b[q] = rows[j])
    <3>1. CASE job.written
      BY <2>3, <3>1
    <3>2. CASE ~ job.written
      <4>1. /\ \A e : In(e, bronze[P] \o rows) <=> In(e, bronze[P]) \/ In(e, rows)
            /\ \A q \in DOMAIN (bronze[P] \o rows) :
                  \/ q \in DOMAIN bronze[P] /\ (bronze[P] \o rows)[q] = bronze[P][q]
                  \/ q - Len(bronze[P]) \in DOMAIN rows
                     /\ (bronze[P] \o rows)[q] = rows[q - Len(bronze[P])]
        BY <2>1, <2>2, InBoth
      <4>2. QED
        BY <2>3, <3>2, <4>1
    <3>3. QED
      BY <3>1, <3>2
  <2>5. \A q \in DOMAIN b : \/ In(b[q], topics[P])
                            \/ (\E i \in DOMAIN bronze[P] : b[q] = bronze[P][i])
                               /\ b[q].ts < now
                               /\ \A o \in DOMAIN topics[P] : b[q].ts < topics[P][o].ts
    <3> SUFFICES ASSUME NEW q \in DOMAIN b, ~ In(b[q], topics[P])
                 PROVE  /\ \E i \in DOMAIN bronze[P] : b[q] = bronze[P][i]
                        /\ b[q].ts < now
                        /\ \A o \in DOMAIN topics[P] : b[q].ts < topics[P][o].ts
      OBVIOUS
    <3>1. ~ \E j \in DOMAIN rows : b[q] = rows[j]
      BY <2>1 DEF In
    <3>2. PICK i \in DOMAIN bronze[P] : b[q] = bronze[P][i]
      BY <2>4, <3>1
    <3>3. QED
      BY <1>4, <3>2 DEF Dated
  <2>6. Dated'
    BY <1>1, <1>2, <2>5 DEF Dated, b
  <2>7. Functional(b)
    <3> SUFFICES ASSUME NEW q \in DOMAIN b, NEW r \in DOMAIN b, b[q].ts = b[r].ts, b[q].off = b[r].off
                 PROVE  b[q].val = b[r].val
      BY DEF Functional
    <3>1. CASE In(b[q], topics[P]) /\ In(b[r], topics[P])
      <4>1. PICK o \in DOMAIN topics[P] : topics[P][o] = b[q]
        BY <3>1 DEF In
      <4>2. PICK p \in DOMAIN topics[P] : topics[P][p] = b[r]
        BY <3>1 DEF In
      <4>3. o = p
        BY <2>2, <4>1, <4>2
      <4>4. QED
        BY <4>1, <4>2, <4>3
    <3>2. CASE In(b[q], topics[P]) /\ ~ In(b[r], topics[P])
      <4>1. PICK o \in DOMAIN topics[P] : topics[P][o] = b[q]
        BY <3>2 DEF In
      <4>2. b[r].ts < b[q].ts /\ b[q].ts \in Nat
        BY <2>2, <2>5, <3>2, <4>1
      <4>3. QED
        BY <4>2
    <3>3. CASE ~ In(b[q], topics[P]) /\ In(b[r], topics[P])
      <4>1. PICK o \in DOMAIN topics[P] : topics[P][o] = b[r]
        BY <3>3 DEF In
      <4>2. b[q].ts < b[r].ts /\ b[r].ts \in Nat
        BY <2>2, <2>5, <3>3, <4>1
      <4>3. QED
        BY <4>2
    <3>4. CASE ~ In(b[q], topics[P]) /\ ~ In(b[r], topics[P])
      <4>1. PICK i \in DOMAIN bronze[P] : b[q] = bronze[P][i]
        BY <2>5, <3>4
      <4>2. PICK k \in DOMAIN bronze[P] : b[r] = bronze[P][k]
        BY <2>5, <3>4
      <4>3. QED
        BY <1>4, <4>1, <4>2 DEF Functional
    <3>5. QED
      BY <3>1, <3>2, <3>3, <3>4
  <2>8. ASSUME P \notin outlived PROVE Ordered'
    <3>1. /\ \A o, p \in DOMAIN topics[P] :
                o < p /\ In(topics[P][p], bronze[P]) => In(topics[P][o], bronze[P])
          /\ checkpoint[P] # NULL => ~ checkpoint[P].stale /\ checkpoint[P].from[P] = 0
          /\ job.offset[P] <= Len(topics[P]) /\ job.plan[P] <= Len(topics[P])
          /\ \A o \in 1..job.offset[P] : In(topics[P][o], bronze[P])
          /\ job.written => \A o \in 1..job.plan[P] : In(topics[P][o], bronze[P])
      BY <1>4, <2>1, <2>8 DEF Ordered
    <3>2. \A o \in 1..job.plan[P] : In(topics[P][o], b)
      <4>1. TAKE o \in 1..job.plan[P]
      <4>2. o \in DOMAIN topics[P] /\ o <= job.plan[P] /\ o \in Nat /\ 1 <= o
        BY <2>1, <2>2, <3>1, <4>1
      <4>3. CASE job.written \/ o <= job.offset[P]
        <5>1. o \in 1..job.offset[P] \/ job.written
          BY <2>1, <4>2, <4>3
        <5>2. QED
          BY <2>4, <3>1, <4>1, <5>1
      <4>4. CASE ~ job.written /\ ~ o <= job.offset[P]
        BY <2>1, <2>4, <4>2, <4>4
      <4>5. QED
        BY <4>3, <4>4
    <3>3. \A o, p \in DOMAIN topics[P] : o < p /\ In(topics[P][p], b) => In(topics[P][o], b)
      <4> SUFFICES ASSUME NEW o \in DOMAIN topics[P], NEW p \in DOMAIN topics[P], o < p,
                          In(topics[P][p], b)
                   PROVE  In(topics[P][o], b)
        OBVIOUS
      <4>1. CASE In(topics[P][p], bronze[P])
        BY <2>4, <3>1, <4>1
      <4>2. CASE ~ In(topics[P][p], bronze[P])
        <5>1. In(topics[P][p], rows)
          BY <2>4, <4>2
        <5>2. PICK j \in DOMAIN rows : rows[j] = topics[P][p]
          BY <5>1 DEF In
        <5>3. PICK q \in DOMAIN topics[P] : q <= job.plan[P] /\ topics[P][q] = topics[P][p]
          BY <2>1, <5>2
        <5>4. q = p
          BY <2>2, <5>3
        <5>5. o \in 1..job.plan[P]
          BY <2>1, <2>2, <5>3, <5>4
        <5>6. QED
          BY <3>2, <5>5
      <4>3. QED
        BY <4>1, <4>2
    <3>4. checkpoint'[P] # NULL => ~ checkpoint'[P].stale /\ checkpoint'[P].from[P] = 0
      <4> SUFFICES ASSUME checkpoint'[P] # NULL
                   PROVE  ~ checkpoint'[P].stale /\ checkpoint'[P].from[P] = 0
        OBVIOUS
      <4>1. /\ checkpoint[P] # NULL /\ checkpoint[P] \in Checkpoint(P)
            /\ checkpoint'[P] = [checkpoint[P] EXCEPT !.written = TRUE]
        BY <1>1, <1>3, <1>6 DEF Types, PointType
      <4>2. checkpoint'[P].stale = checkpoint[P].stale /\ checkpoint'[P].from = checkpoint[P].from
        BY <4>1 DEF Checkpoint
      <4>3. QED
        BY <3>1, <4>1, <4>2
    <3>5. \A o \in 1..job.offset[P] : In(topics[P][o], b)
      BY <2>4, <3>1
    <3>6. QED
      BY <1>1, <1>2, <3>1, <3>2, <3>3, <3>4, <3>5 DEF Ordered, b
  <2>9. QED
    BY <2>6, <2>7, <2>8 DEF b
<1>7. QED
  BY <1>5, <1>6

LEMMA CommitsKeys ==
    ASSUME Types, KeysInv, CommitBatch
    PROVE  KeysInv'
<1>0. PICK s \in streams : s = job.stream
  BY Commits DEF Types
<1>1. /\ Elsewhere /\ now' = now /\ outlived' = outlived /\ bronze' = bronze /\ job' = NULL
      /\ \A q \in streams \ {s} : checkpoint'[q] = checkpoint[q]
      /\ checkpoint'[s] # NULL => /\ checkpoint[s] # NULL
                                  /\ checkpoint'[s].from = checkpoint[s].from
                                  /\ checkpoint'[s].stale = checkpoint[s].stale
  BY <1>0, Commits DEF Types
<1>2. streams' = streams /\ topics' = topics
  BY <1>1 DEF Elsewhere
<1>3. P \in streams /\ checkpoint'[P] # NULL =>
         checkpoint[P] # NULL /\ checkpoint'[P].from = checkpoint[P].from
         /\ checkpoint'[P].stale = checkpoint[P].stale
  BY <1>1
<1>4. QED
  BY <1>1, <1>2, <1>3 DEF KeysInv, Dated, Ordered, Runs

LEMMA OtherKeys ==
    ASSUME Types, KeysInv, UNCHANGED <<streams, topics, bronze, checkpoint, outlived>>,
           now' \in {now, now + 1}, job' = job \/ job' = NULL
    PROVE  KeysInv'
<1>1. P \in streams =>
         \A i \in DOMAIN bronze[P] : bronze[P][i].ts < now => bronze[P][i].ts < now'
  <2>1. P \in streams => now \in Nat /\ \A i \in DOMAIN bronze[P] : bronze[P][i].ts \in Nat
    BY ProductFacts
  <2>2. QED
    BY <2>1
<1>2. KeysInv /\ P \in streams => Dated'
  BY <1>1 DEF KeysInv, Dated
<1>3. KeysInv /\ P \in streams /\ P \notin outlived => Ordered'
  BY DEF KeysInv, Ordered, Runs
<1>4. QED
  BY <1>2, <1>3 DEF KeysInv

ProductInv == Types /\ Kept /\ KeysInv

LEMMA NextProduct ==
    ASSUME ProductInv, [Next]_vars
    PROVE  ProductInv'
<1>1. Types'
  BY NextTypes DEF ProductInv
<1>2. CASE Second \/ CrashJob \/ UNCHANGED vars
  <2>1. /\ UNCHANGED <<streams, topics, bronze, checkpoint, outlived>>
        /\ now' \in {now, now + 1} /\ (job' = job \/ job' = NULL)
    BY <1>2, Ticks, Crashes DEF ProductInv, Types, Elsewhere, vars
  <2>2. QED
    BY <1>1, <2>1, OtherKept, OtherKeys DEF ProductInv
<1>3. CASE Generator /\ ~ Signal
  BY <1>1, <1>3, GeneratorWrites, GrownKept, GrownKeys DEF ProductInv, Wrote
<1>4. CASE Signal
  BY <1>1, <1>4, SignalCleans, CleanedKept, CleanedKeys DEF ProductInv, Types
<1>5. CASE \E s \in streams : StartJob(s)
  BY <1>1, <1>5, StartedKept, StartedKeys DEF ProductInv
<1>6. CASE AppendBatch
  BY <1>1, <1>6, AppendsKept, AppendsKeys DEF ProductInv
<1>7. CASE CommitBatch
  BY <1>1, <1>7, CommitsKept, CommitsKeys DEF ProductInv
<1>8. QED
  BY <1>2, <1>3, <1>4, <1>5, <1>6, <1>7 DEF Next, Jobs

\* A batch leaves the keys of the product that there are.
LEMMA AppendKeepsKeys ==
    ASSUME Types, KeysInv, AppendBatch, P \notin outlived
    PROVE  Keys(Scd2(Table(P))) \subseteq Keys(Scd2(Table(P)'))
<1>0. PICK s \in streams : s = job.stream
  BY Appends DEF Types
<1>1. /\ streams' = streams
      /\ bronze' = [q \in streams |-> IF q = s /\ ~ job.written THEN bronze[q] \o Rows(s)
                                      ELSE bronze[q]]
  BY <1>0, Appends DEF Types, Elsewhere
<1>2. CASE s = P /\ ~ job.written
  <2> DEFINE rows == Rows(P)
  <2>1. Table(P) = bronze[P] /\ Table(P)' = bronze[P] \o rows /\ P \in streams
    BY <1>1, <1>2 DEF Table
  <2>2. /\ rows \in Seq(Row)
        /\ \A i \in DOMAIN rows : \E o \in DOMAIN topics[P] : rows[i] = topics[P][o]
    BY <1>0, <1>2, ProductBatch
  <2> HIDE DEF rows
  <2>3. bronze[P] \in Seq(Row) /\ Functional(bronze[P])
    BY <2>1 DEF Types, TableType, KeysInv
  <2>4. ASSUME NEW i \in DOMAIN rows
        PROVE  In(rows[i], bronze[P]) \/ (\A k \in DOMAIN bronze[P] : Before(bronze[P][k], rows[i]))
    <3>1. PICK o \in DOMAIN topics[P] : rows[i] = topics[P][o]
      BY <2>2
    <3>2. QED
      BY <2>1, <3>1, NewIsLater
  <2>5. Keys(Scd2(bronze[P])) \subseteq Keys(Scd2(bronze[P] \o rows))
    BY <2>2, <2>3, <2>4, Scd2KeysStay
  <2>6. QED
    BY <2>1, <2>5
<1>3. CASE ~ (s = P /\ ~ job.written)
  <2>1. Table(P)' = Table(P)
    BY <1>1, <1>3 DEF Table
  <2>2. QED
    BY <2>1
<1>4. QED
  BY <1>2, <1>3

LEMMA InitProduct ==
    ASSUME Init
    PROVE  ProductInv
<1>1. Types
  BY InitTypes
<1>2. \A s \in streams : DOMAIN bronze[s] = {} /\ checkpoint[s] = NULL
  BY DEF Init
<1>3. job = NULL
  BY DEF Init
<1>4. Kept
  BY <1>2 DEF Kept
<1>5. KeysInv
  BY <1>2, <1>3 DEF KeysInv, Functional, Dated, Ordered, Runs, In
<1>6. QED
  BY <1>1, <1>4, <1>5 DEF ProductInv

\* The key of a product, once a build of the dimension has it, is in every later
\* one, also when changes are ingested again: crashes, clean-ups and restarts
\* come at any time, but no offsets may outlive their topic.
THEOREM ProductKeysStayCorrect == Spec => ProductKeysStay
<1>1. Init => ProductInv
  BY InitProduct
<1>2. ProductInv /\ [Next]_vars => ProductInv'
  BY NextProduct
<1>3. ProductInv /\ [Next]_vars =>
          [Table("products") # Table("products")' /\ "products" \notin outlived
              => Keys(Products) \subseteq Keys(Products)']_bronze
  <2> SUFFICES ASSUME ProductInv, [Next]_vars, bronze' # bronze, "products" \notin outlived,
                      Table("products") # Table("products")'
               PROVE  Keys(Products) \subseteq Keys(Products)'
    OBVIOUS
  <2>1. AppendBatch
    <3>1. ~ UNCHANGED vars /\ ~ Second /\ ~ CrashJob
      BY Ticks, Crashes DEF vars, ProductInv, Types
    <3>2. ~ Generator
      BY GeneratorWrites, SignalCleans DEF Wrote, Grown, Lake, Cleaned, ProductInv, Types
    <3>3. ~ CommitBatch /\ ~ \E s \in streams : StartJob(s)
      BY Commits, Started DEF ProductInv, Types
    <3>4. QED
      BY <3>1, <3>2, <3>3 DEF Next, Jobs, vars
  <2>2. Keys(Scd2(Table(P))) \subseteq Keys(Scd2(Table(P)'))
    BY <2>1, AppendKeepsKeys DEF ProductInv, P
  <2>3. Keys(Products) = Keys(Scd2(Table(P))) /\ Keys(Products)' = Keys(Scd2(Table(P)'))
    BY DEF Products, DimProductCatalog, P
  <2>4. QED
    BY <2>2, <2>3
<1>4. QED
  BY <1>1, <1>2, <1>3, PTL DEF Spec, ProductKeysStay

-----------------------------------------------------------------------------
(* The keys of the facts *)

\* A temporal join finds one version, or none.
LEMMA ValidAtOne ==
    ASSUME NEW dim, Versions(dim), NEW ts \in Int
    PROVE  \E key : ValidAt(dim, ts) = {key}
<1> DEFINE valid == {j \in DOMAIN dim : dim[j].from <= ts /\ ts < dim[j].to}
<1>1. \A j, k \in valid : j = k
  BY DEF Versions, NoOverlap
<1>2. ValidAt(dim, ts) = IF valid = {} THEN {NULL} ELSE {Key(dim[j]) : j \in valid}
  BY DEF ValidAt
<1>3. CASE valid = {}
  BY <1>2, <1>3
<1>4. CASE valid # {}
  <2>1. PICK j \in valid : TRUE
    BY <1>4
  <2>2. valid = {j}
    BY <1>1, <2>1
  <2> HIDE DEF valid
  <2>3. ValidAt(dim, ts) = {Key(dim[j])}
    BY <1>2, <2>2
  <2>4. QED
    BY <2>3
<1>5. QED
  BY <1>3, <1>4

\* A fact has the columns of one event: an order or a change that comes once
\* has one row.
LEMMA OneRowOfAnOrder ==
    ASSUME NEW raw, NEW customers, NEW products, Versions(customers), Versions(products),
           \A i \in DOMAIN raw : raw[i].ts \in Int,
           \A i, j \in Of(raw, "orders.v1") : raw[i].id = raw[j].id => i = j,
           NEW f \in FactOrderService(raw, customers, products),
           NEW g \in FactOrderService(raw, customers, products), f.order = g.order
    PROVE  f = g
<1> DEFINE Fact(i) == [order: {raw[i].id}, row: {i},
                       payment: LatestOf(raw, "payments.v1", raw[i].id),
                       shipment: LatestOf(raw, "shipments.v1", raw[i].id),
                       customer: ValidAt(customers, raw[i].ts),
                       product: ValidAt(products, raw[i].ts)]
<1>1. PICK i \in Of(raw, "orders.v1") : f \in Fact(i)
  BY DEF FactOrderService
<1>2. PICK j \in Of(raw, "orders.v1") : g \in Fact(j)
  BY DEF FactOrderService
<1>3. i = j
  <2>1. f.order = raw[i].id /\ g.order = raw[j].id
    BY <1>1, <1>2
  <2>2. QED
    BY <1>1, <1>2, <2>1
<1>4. raw[i].ts \in Int
  BY <1>1 DEF Of
<1>5. PICK c : ValidAt(customers, raw[i].ts) = {c}
  BY <1>4, ValidAtOne
<1>6. PICK p : ValidAt(products, raw[i].ts) = {p}
  BY <1>4, ValidAtOne
<1>7. PICK q : LatestOf(raw, "payments.v1", raw[i].id) = {q}
  BY DEF LatestOf
<1>8. PICK r : LatestOf(raw, "shipments.v1", raw[i].id) = {r}
  BY DEF LatestOf
<1>9. f \in [order: {raw[i].id}, row: {i}, payment: {q}, shipment: {r}, customer: {c}, product: {p}]
      /\ g \in [order: {raw[i].id}, row: {i}, payment: {q}, shipment: {r}, customer: {c}, product: {p}]
  BY <1>1, <1>2, <1>3, <1>5, <1>6, <1>7, <1>8
<1>10. QED
  BY <1>9

LEMMA OneRowOfAChange ==
    ASSUME NEW raw, NEW warehouses, NEW products, Versions(warehouses), Versions(products),
           \A i \in DOMAIN raw : raw[i].ts \in Int,
           \A i, j \in Of(raw, "inventory-changes.v1") : raw[i].id = raw[j].id => i = j,
           NEW f \in FactInventoryPosition(raw, warehouses, products),
           NEW g \in FactInventoryPosition(raw, warehouses, products), f.change = g.change
    PROVE  f = g
<1> DEFINE Fact(i) == [change: {raw[i].id}, row: {i},
                       warehouse: ValidAt(warehouses, raw[i].ts),
                       product: ValidAt(products, raw[i].ts)]
<1>1. PICK i \in Of(raw, "inventory-changes.v1") : f \in Fact(i)
  BY DEF FactInventoryPosition
<1>2. PICK j \in Of(raw, "inventory-changes.v1") : g \in Fact(j)
  BY DEF FactInventoryPosition
<1>3. i = j
  <2>1. f.change = raw[i].id /\ g.change = raw[j].id
    BY <1>1, <1>2
  <2>2. QED
    BY <1>1, <1>2, <2>1
<1>4. raw[i].ts \in Int
  BY <1>1 DEF Of
<1>5. PICK w : ValidAt(warehouses, raw[i].ts) = {w}
  BY <1>4, ValidAtOne
<1>6. PICK p : ValidAt(products, raw[i].ts) = {p}
  BY <1>4, ValidAtOne
<1>7. f \in [change: {raw[i].id}, row: {i}, warehouse: {w}, product: {p}]
      /\ g \in [change: {raw[i].id}, row: {i}, warehouse: {w}, product: {p}]
  BY <1>1, <1>2, <1>3, <1>5, <1>6
<1>8. QED
  BY <1>7

\* A finite set of rows with times has a last one.
LEMMA LastInTime ==
    ASSUME NEW raw, Timed(raw), NEW S \in SUBSET DOMAIN raw, S # {}
    PROVE  (CHOOSE i \in S : \A k \in S : raw[k].ts <= raw[i].ts) \in S
<1> DEFINE m == Newest(raw, S)
<1>1. m \in S /\ \A k \in S \ {m} : Earlier(raw, k, m)
  BY NewestOf
<1> HIDE DEF m
<1>2. \A k \in S : raw[k].ts <= raw[m].ts
  BY <1>1 DEF Timed, Earlier
<1>3. QED
  BY <1>1, <1>2

LEMMA OneRowOfADay ==
    ASSUME NEW raw, Timed(raw), NEW customers, NEW products, Versions(customers), Versions(products)
    PROVE  Cardinality(FactCustomerEngagement(raw, customers, products)) <= 1
<1> DEFINE rows == Of(raw, "customer-interactions.v1")
           last == CHOOSE i \in rows : \A k \in rows : raw[k].ts <= raw[i].ts
           n == Cardinality({raw[i].id : i \in rows})
           facts == FactCustomerEngagement(raw, customers, products)
<1>1. facts = IF rows = {} THEN {}
              ELSE [interactions: {n}, customer: ValidAt(customers, raw[last].ts),
                    product: ValidAt(products, raw[last].ts)]
  BY DEF FactCustomerEngagement
<1>2. rows \in SUBSET DOMAIN raw
  BY DEF Of
<1>3. CASE rows = {}
  BY <1>1, <1>3, FS_EmptySet
<1>4. CASE rows # {}
  <2>1. last \in DOMAIN raw
    <3> HIDE DEF rows
    <3>1. QED
      BY <1>2, <1>4, LastInTime
  <2> HIDE DEF last, n, rows
  <2>2. raw[last].ts \in Int
    BY <2>1 DEF Timed
  <2>3. PICK c : ValidAt(customers, raw[last].ts) = {c}
    BY <2>2, ValidAtOne
  <2>4. PICK p : ValidAt(products, raw[last].ts) = {p}
    BY <2>2, ValidAtOne
  <2>5. facts = [interactions: {n}, customer: {c}, product: {p}]
    BY <1>1, <1>4, <2>3, <2>4
  <2> HIDE DEF facts
  <2>6. PICK row \in facts : \A other \in facts : other = row
    <3> DEFINE row == [interactions |-> n, customer |-> c, product |-> p]
    <3>1. row \in facts
      BY <2>5
    <3>2. \A other \in facts : other = row
      BY <2>5
    <3>3. QED
      BY <3>1, <3>2
  <2>7. Cardinality(facts) = 1
    <3>1. facts = {row}
      BY <2>6
    <3>2. QED
      BY <3>1, FS_Singleton
  <2>8. QED
    BY <2>7 DEF facts
<1>5. QED
  BY <1>3, <1>4

\* enforce_primary_key passes every table: the keys of versions are unique, also
\* of a product whose changes were ingested again; an order, a change of the
\* stock and a day have one row each in the facts.
THEOREM KeysAreUniqueCorrect == Spec => []KeysAreUnique
<1>1. ExactInv /\ ProductInv => KeysAreUnique
  <2> SUFFICES ASSUME ExactInv, ProductInv PROVE KeysAreUnique
    OBVIOUS
  <2> DEFINE raw == Table("raw_events")
  <2>1. \A s : Table(s) \in Seq(Row) /\ Timed(Table(s))
    <3>1. \A s : Table(s) \in Seq(Row)
      BY DEF ExactInv, Types, TableType, Table
    <3>2. QED
      BY <3>1, SequenceTimed
  <2>2. Functional(Table("products"))
    BY DEF ProductInv, KeysInv, Functional, Table, P
  <2>3. /\ Versions(Products) /\ UniqueKeys(Products)
        /\ Versions(Warehouses) /\ UniqueKeys(Warehouses)
        /\ \A p \in Picks : Versions(Customers(p)) /\ UniqueKeys(Customers(p))
    BY <2>1, <2>2, ProductVersions, WarehouseVersions, CustomerVersions
       DEF Products, Warehouses, Customers
  <2>4. EventsOnce
    BY ExactOnce DEF ExactlyOnce
  <2>5. \A topic : \A i, j \in Of(raw, topic) : raw[i].id = raw[j].id => i = j
    BY <2>4 DEF EventsOnce, Of
  <2>6. Timed(raw) /\ \A i \in DOMAIN raw : raw[i].ts \in Int
    BY <2>1 DEF Timed
  <2> HIDE DEF raw
  <2>7. ASSUME NEW p \in Picks
        PROVE  /\ \A f, g \in FactOrderService(raw, Customers(p), Products) : f.order = g.order => f = g
               /\ \A f, g \in FactInventoryPosition(raw, Warehouses, Products) :
                     f.change = g.change => f = g
               /\ Cardinality(FactCustomerEngagement(raw, Customers(p), Products)) <= 1
    BY <2>3, <2>5, <2>6, OneRowOfAnOrder, OneRowOfAChange, OneRowOfADay
  <2>8. QED
    BY <2>3, <2>7 DEF KeysAreUnique, raw
<1>2. Init => ExactInv /\ ProductInv
  BY InitExact, InitProduct
<1>3. ExactInv /\ ProductInv /\ [Next]_vars => ExactInv' /\ ProductInv'
  BY NextExact, NextProduct
<1>4. QED
  BY <1>1, <1>2, <1>3, PTL DEF Spec

=============================================================================
