------------------------------- MODULE Silver -------------------------------
(***************************************************************************)
(* The tables that infra/airflow/processing/spark/jobs/silver builds from  *)
(* the bronze tables of the retail demo, as functions of their rows.  A    *)
(* bronze table is a sequence: rows are appended, and may repeat each      *)
(* other.  One product, one customer, one warehouse and one day are enough *)
(* because every builder groups, partitions or joins by them.              *)
(*                                                                         *)
(* A row has the second of its change (unix_ms_to_ts cuts it off), its     *)
(* offset in Kafka and a value; columns that are only copied are left out. *)
(***************************************************************************)
EXTENDS Integers, Sequences, FiniteSets, FiniteSetsExt

CONSTANTS Forever, NULL

ASSUME SilverAssumption == Forever \in Nat

-----------------------------------------------------------------------------
(* common.py: slowly changing dimensions *)

\* Rows in the order of their change and offset; equal ones in any order.
Earlier(rows, i, j) ==
    \/ rows[i].ts < rows[j].ts
    \/ rows[i].ts = rows[j].ts /\ rows[i].off < rows[j].off
    \/ rows[i].ts = rows[j].ts /\ rows[i].off = rows[j].off /\ i < j

Until(rows, S, j) == {i \in S : Earlier(rows, i, j)}
Newest(rows, S) == CHOOSE i \in S : \A k \in S \ {i} : Earlier(rows, k, i)
Oldest(rows, S) == CHOOSE i \in S : \A k \in S \ {i} : Earlier(rows, i, k)

\* The rows that change something: F.lag of the state.
Deltas(rows) ==
    {j \in DOMAIN rows :
        LET before == Until(rows, DOMAIN rows, j)
        IN before # {} => rows[Newest(rows, before)].val # rows[j].val}

\* The bug: a version stays open when the next one starts.
Scd2Open(rows) ==
    [j \in Deltas(rows) |->
        [from |-> rows[j].ts, off |-> rows[j].off, val |-> rows[j].val, to |-> Forever]]

\* scd2_from_events: a version ends when the next one starts: F.lead.
Scd2(rows) ==
    LET deltas == Deltas(rows)
        next(j) == {i \in deltas : Earlier(rows, j, i)}
    IN [j \in deltas |->
           [from |-> rows[j].ts, off |-> rows[j].off, val |-> rows[j].val,
            to |-> IF next(j) = {} THEN Forever ELSE rows[Oldest(rows, next(j))].ts]]

\* The bug: versions of one second have one key.
KeyOfSecond(version) == <<version.from>>

\* The bug: the end of the version is part of its key.
KeyOfSpan(version) == <<version.from, version.to, version.off>>

\* surrogate_key: a hash of the key, the start of the version and the offset.
Key(version) == <<version.from, version.off>>
Keys(dim) == {Key(dim[j]) : j \in DOMAIN dim}

-----------------------------------------------------------------------------
(* builders: dimensions *)

DimProductCatalog(products) == Scd2(products)

Seconds(rows) == {rows[i].ts : i \in DOMAIN rows}
Within(rows, ts) == {i \in DOMAIN rows : rows[i].ts = ts}

\* The n-th second in the order of time.
Nth(S, n) == CHOOSE t \in S : Cardinality({u \in S : u <= t}) = n

\* F.last of a group that a shuffle has brought together is any of its values;
\* pick tells which, the one of the first or of the last row.
LastOf(rows, S, pick) ==
    IF S = {} THEN NULL
    ELSE rows[IF pick = "first" THEN Min(S) ELSE Max(S)].val

\* The last value that is not null up to the n-th second.
Filled(seconds, value, n) ==
    LET known == {k \in 1..n : value[Nth(seconds, k)] # NULL}
    IN IF known = {} THEN NULL ELSE value[Nth(seconds, Max(known))]

\* dim_customer_profile: the changes of both tables within a second become one
\* row, with the greater of their offsets, and values are filled forward.
DimCustomerProfile(users, segments, pick) ==
    LET seconds == Seconds(users) \cup Seconds(segments)
        offsets(t) == {users[i].off : i \in Within(users, t)}
                      \cup {segments[i].off : i \in Within(segments, t)}
        user == [t \in seconds |-> LastOf(users, Within(users, t), pick)]
        segment == [t \in seconds |-> LastOf(segments, Within(segments, t), pick)]
    IN Scd2([n \in 1..Cardinality(seconds) |->
               LET t == Nth(seconds, n)
               IN [ts |-> t, off |-> Max(offsets(t)),
                   val |-> <<Filled(seconds, user, n), Filled(seconds, segment, n)>>]])

\* dim_warehouse: what is summed up are the rows that changed in a second.
DimWarehouse(stock) ==
    LET seconds == Seconds(stock)
        total(t) == MapThenSumSet(LAMBDA i : stock[i].val, Within(stock, t))
    IN Scd2([n \in 1..Cardinality(seconds) |->
               LET t == Nth(seconds, n)
               IN [ts |-> t, off |-> Max({stock[i].off : i \in Within(stock, t)}),
                   val |-> total(t)]])

-----------------------------------------------------------------------------
(* builders: facts *)

Of(raw, topic) == {i \in DOMAIN raw : raw[i].topic = topic}

\* The temporal join: the versions that are valid at a time, as a left join.
ValidAt(dim, ts) ==
    LET valid == {j \in DOMAIN dim : dim[j].from <= ts /\ ts < dim[j].to}
    IN IF valid = {} THEN {NULL} ELSE {Key(dim[j]) : j \in valid}

\* extract_latest_by_topic: the latest payment or shipment of an order.
LatestOf(raw, topic, order) ==
    LET rows == {i \in Of(raw, topic) : raw[i].val = order}
    IN IF rows = {} THEN {NULL}
       ELSE {CHOOSE i \in rows : \A k \in rows : raw[k].ts <= raw[i].ts}

\* fact_order_service
FactOrderService(raw, customers, products) ==
    UNION {[order: {raw[i].id}, row: {i},
            payment: LatestOf(raw, "payments.v1", raw[i].id),
            shipment: LatestOf(raw, "shipments.v1", raw[i].id),
            customer: ValidAt(customers, raw[i].ts),
            product: ValidAt(products, raw[i].ts)] : i \in Of(raw, "orders.v1")}

\* fact_inventory_position
FactInventoryPosition(raw, warehouses, products) ==
    UNION {[change: {raw[i].id}, row: {i},
            warehouse: ValidAt(warehouses, raw[i].ts),
            product: ValidAt(products, raw[i].ts)] : i \in Of(raw, "inventory-changes.v1")}

\* fact_customer_engagement: one row for the day, at the time of the last event.
FactCustomerEngagement(raw, customers, products) ==
    LET rows == Of(raw, "customer-interactions.v1")
        last == CHOOSE i \in rows : \A k \in rows : raw[k].ts <= raw[i].ts
    IN IF rows = {} THEN {}
       ELSE [interactions: {Cardinality({raw[i].id : i \in rows})},
             customer: ValidAt(customers, raw[last].ts),
             product: ValidAt(products, raw[last].ts)]

=============================================================================
