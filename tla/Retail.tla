------------------------------- MODULE Retail -------------------------------
(***************************************************************************)
(* The retail demo: infra/data-generator writes Postgres and Kafka,        *)
(* Debezium copies the changes of Postgres to Kafka, the jobs of           *)
(* bronze_events_kafka_stream.py and bronze_cdc_stream.py append topics to *)
(* bronze tables, and Silver builds its tables from those.                 *)
(*                                                                         *)
(* The generator is one thread: what it does between two publications or   *)
(* statements is a step, and the handler of SIGTERM runs between any two   *)
(* of them, after which the loop goes on until it sees running.  Jobs of   *)
(* different streams share nothing, so one job at a time is enough.        *)
(***************************************************************************)
EXTENDS Silver

CONSTANTS
    Deployments         \* the sets of bronze streams that may be deployed

CONSTANTS               \* bounds of the model, those of each deployment
    MaxTime, Limits

Events == {"orders.v1", "payments.v1", "shipments.v1", "inventory-changes.v1",
           "customer-interactions.v1"}
Cdc == {"users", "products", "customer_segments", "warehouse_inventory"}
Input(s) == IF s = "raw_events" THEN Events ELSE {s}

ASSUME RetailAssumption ==
    /\ NULL \notin Nat \cup [qty: Nat, reserved: Nat]
    /\ \A s \in Cdc \cup {"raw_events"} : NULL \notin [Input(s) -> Nat]
    /\ Deployments \subseteq SUBSET (Cdc \cup {"raw_events"})
    /\ MaxTime \in Nat
    /\ Limits \in [Deployments -> [events: Nat, updates: Nat, starts: Nat,
                                   faults: Nat, qty: Nat, segments: Nat]]

VARIABLES
    streams,            \* the bronze streams that are deployed
    now,                \* in seconds
    pg,                 \* the rows of Postgres: one of each table, or NULL
    app,                \* the generator, and what it has read of the stock
    topics,             \* Kafka: the events of each topic
    bronze,             \* the rows of each bronze table
    checkpoint,         \* of each stream, or NULL
    job,                \* the bronze job that runs, or NULL
    counts              \* counted for the bounds

VARIABLE                \* auxiliary: never read by the code
    outlived            \* the streams with offsets of topics that were replaced

vars == <<streams, now, pg, app, topics, bronze, checkpoint, job, counts, outlived>>

Time == 0..MaxTime
Maybe(S) == S \cup {NULL}
Limit(what) == Limits[streams][what]
Qty == 0..Limit("qty")
Segments == 1..Limit("segments")        \* customer_segments
Stock == [qty: Qty, reserved: Qty]

\* A checkpoint: where the stream began, the next offsets, the end of the batch
\* that is planned, whether the table has it, and whether the topics were
\* replaced under it.
Offsets(s) == [Input(s) -> Nat]
Checkpoint(s) == [from: Offsets(s), offset: Offsets(s), plan: Maybe(Offsets(s)),
                  written: BOOLEAN, stale: BOOLEAN]

Topics == UNION {Input(s) : s \in streams}

TypeOK ==
    /\ streams \in Deployments
    /\ now \in Time
    /\ pg \in [product: Maybe(Nat), user: Maybe({0}), segment: Maybe(Segments),
               stock: Maybe(Stock)]
    /\ app.pc \in {"off", "loop", "payment", "shipment", "upsert"}
    /\ app.running \in BOOLEAN
    /\ app.pc = "upsert" <=> app.stock # NULL
    /\ app.pc \in {"payment", "shipment"} <=> app.order # NULL
    /\ \A t \in Topics : \A i \in DOMAIN topics[t] :
          topics[t][i].off = i - 1 /\ topics[t][i].ts \in Time
    /\ \A s \in streams : checkpoint[s] # NULL => checkpoint[s] \in Checkpoint(s)
    /\ job # NULL => job.stream \in streams /\ job.phase \in {"append", "commit"}
    /\ \A what \in DOMAIN counts : counts[what] \in 0..Limit(what)
    /\ outlived \subseteq streams

Nobody == [product |-> NULL, user |-> NULL, segment |-> NULL, stock |-> NULL]
Off == [pc |-> "off", running |-> FALSE, order |-> NULL, stock |-> NULL]

Init ==
    /\ streams \in Deployments
    /\ now = 0
    /\ pg = Nobody
    /\ app = Off
    /\ topics = [t \in Topics |-> <<>>]
    /\ bronze = [s \in streams |-> <<>>]
    /\ checkpoint = [s \in streams |-> NULL]
    /\ job = NULL
    /\ counts = [events |-> 0, updates |-> 0, starts |-> 0, faults |-> 0]
    /\ outlived = {}

Count(what) == counts[what] < Limit(what) /\ counts' = [counts EXCEPT ![what] = @ + 1]

Second ==
    /\ now < MaxTime /\ now' = now + 1
    /\ UNCHANGED <<streams, pg, app, topics, bronze, checkpoint, job, counts, outlived>>

-----------------------------------------------------------------------------
(* The generator *)

Lake == UNCHANGED <<streams, now, bronze, checkpoint, job, outlived>>

\* An event gets the next offset; the id tells the events of a topic apart.
Event(t, val) ==
    [topic |-> t, off |-> Len(topics[t]), ts |-> now, val |-> val, id |-> counts.events]

\* publish: produce until there is room; Kafka gets it once and in order.
Publish(t, val) ==
    topics' = IF t \in Topics THEN [topics EXCEPT ![t] = Append(@, Event(t, val))]
              ELSE topics

\* Debezium writes what a commit has changed to the topics of the tables.
Capture(changes) ==
    topics' = [t \in Topics |->
        IF t \in DOMAIN changes THEN Append(topics[t], Event(t, changes[t])) ELSE topics[t]]

\* _setup: the seeds are one transaction; users and products keep their rows, a
\* segment is drawn again, and so is the stock of four warehouses in five.
Setup ==
    /\ app.pc = "off" /\ Count("starts")
    /\ \E segment \in Segments, stock \in {s \in Stock : s.reserved <= s.qty} \cup {pg.stock} :
          LET product == IF pg.product = NULL THEN 0 ELSE pg.product
              row == [products |-> product, users |-> 0, customer_segments |-> segment,
                      warehouse_inventory |-> IF stock = NULL THEN 0 ELSE stock.qty]
              kept == (IF pg.product = NULL THEN {} ELSE {"products", "users"})
                      \cup (IF stock = pg.stock THEN {"warehouse_inventory"} ELSE {})
          IN /\ pg' = [product |-> product, user |-> 0, segment |-> segment, stock |-> stock]
             /\ Capture([t \in Cdc \ kept |-> row[t]])
    /\ app' = [Off EXCEPT !.pc = "loop", !.running = TRUE]
    /\ Lake

Loop == app.pc = "loop" /\ counts.events < Limit("events")

\* The loop ends, or SIGKILL or an exception ends it anywhere.
Exit ==
    /\ app.pc # "off"
    /\ \/ app.pc = "loop" /\ ~app.running /\ UNCHANGED counts
       \/ Count("faults")
    /\ app' = Off
    /\ UNCHANGED <<pg, topics>> /\ Lake

\* maybe_update_random_price; without a product nothing is updated.
UpdatePrice ==
    /\ app.pc = "loop" /\ pg.product # NULL
    /\ Count("updates")
    /\ pg' = [pg EXCEPT !.product = @ + 1]
    /\ Capture([products |-> pg.product + 1])
    /\ UNCHANGED app /\ Lake

\* The bug: what was reserved is sold and stays reserved.
ReservedFirstKept(stock, delta) ==
    [qty |-> Max({0, stock.qty + delta}), reserved |-> stock.reserved]

\* _apply_reserved_first: what is taken is taken from the reserved stock first.
ReservedFirst(stock, delta) ==
    LET used == IF delta < 0 THEN Min({stock.reserved, -delta}) ELSE 0
    IN [qty |-> Max({0, stock.qty + delta + used}), reserved |-> stock.reserved - used]

\* A row that is missing is taken to have any quantity, and none reserved.
ReadStock == IF pg.stock # NULL THEN {pg.stock} ELSE {[qty |-> q, reserved |-> 0] : q \in Qty}

\* What the model bounds is the quantity, not how much is taken or restocked.
Changed(stock) == {ReservedFirst(stock, d) : d \in -Limit("qty") - 1..Limit("qty")} \cap Stock

\* maybe_update_random_inventory
UpdateInventory ==
    /\ app.pc = "loop" /\ pg.product # NULL
    /\ Count("updates")
    /\ \E stock \in ReadStock : \E changed \in Changed(stock) :
          /\ pg' = [pg EXCEPT !.stock = changed]
          /\ Capture([warehouse_inventory |-> changed.qty])
    /\ UNCHANGED app /\ Lake

\* InventoryService.emit: the event is published, and then the row is written.
EmitInventory ==
    /\ Loop /\ Count("events")
    /\ \E stock \in ReadStock : \E changed \in Changed(stock) :
          app' = [app EXCEPT !.pc = "upsert", !.stock = changed]
    /\ Publish("inventory-changes.v1", NULL)
    /\ UNCHANGED pg /\ Lake

\* upsert_qty_reserved; without the product its foreign key ends the generator.
UpsertInventory ==
    /\ app.pc = "upsert"
    /\ IF pg.product = NULL
       THEN app' = Off /\ UNCHANGED <<pg, topics>>
       ELSE /\ pg' = [pg EXCEPT !.stock = app.stock]
            /\ Capture([warehouse_inventory |-> app.stock.qty])
            /\ app' = [app EXCEPT !.pc = "loop", !.stock = NULL]
    /\ UNCHANGED counts /\ Lake

\* InteractionService.emit
EmitInteraction ==
    /\ Loop /\ Count("events")
    /\ Publish("customer-interactions.v1", NULL)
    /\ UNCHANGED <<pg, app>> /\ Lake

\* OrderService.emit: the order, for most orders a payment, and for most
\* payments that are settled a shipment.
EmitOrder ==
    /\ Loop /\ Count("events")
    /\ Publish("orders.v1", NULL)
    /\ app' = [app EXCEPT !.pc = "payment", !.order = counts.events]
    /\ UNCHANGED pg /\ Lake

Done == app' = [app EXCEPT !.pc = "loop", !.order = NULL]

EmitPayment ==
    /\ app.pc = "payment"
    /\ \/ Done /\ UNCHANGED topics
       \/ /\ Publish("payments.v1", app.order)
          /\ Done \/ app' = [app EXCEPT !.pc = "shipment"]
    /\ UNCHANGED <<pg, counts>> /\ Lake

EmitShipment ==
    /\ app.pc = "shipment"
    /\ Done
    /\ \/ UNCHANGED topics
       \/ Publish("shipments.v1", app.order)
    /\ UNCHANGED <<pg, counts>> /\ Lake

\* TRUNCATE of all tables.
clear_postgres(succeeds) == pg' = IF succeeds THEN Nobody ELSE pg

Runs(s) == job # NULL /\ job.stream = s

\* The topics are deleted and created, which takes until the next second.
clear_kafka(succeeds) ==
    /\ succeeds => now < MaxTime
    /\ now' = IF succeeds THEN now + 1 ELSE now
    /\ topics' = IF succeeds THEN [t \in Topics |-> <<>>] ELSE topics

\* What is under the prefixes is deleted; a checkpoint that stays is of other
\* topics once these are replaced, and so is what a running job has planned.
clear_checkpoints(succeeds, replaced) ==
    /\ checkpoint' = [s \in streams |->
           IF succeeds \/ checkpoint[s] = NULL THEN NULL
           ELSE [checkpoint[s] EXCEPT !.stale = @ \/ replaced]]
    /\ outlived' = outlived \cup
           {s \in streams : replaced /\ (checkpoint'[s] # NULL \/ Runs(s))}

\* _sig: what fails is reported and left.
Signal ==
    /\ app.pc # "off" /\ app.running
    /\ app' = [app EXCEPT !.running = FALSE]
    /\ \E truncated, replaced, removed \in BOOLEAN :
          /\ IF truncated /\ replaced /\ removed THEN UNCHANGED counts
             ELSE Count("faults")
          /\ clear_postgres(truncated)
          /\ clear_kafka(replaced)
          /\ clear_checkpoints(removed, replaced)
    /\ UNCHANGED <<streams, bronze, job>>

Generator ==
    \/ Setup \/ Exit \/ UpdatePrice \/ UpdateInventory
    \/ EmitInventory \/ UpsertInventory \/ EmitInteraction
    \/ EmitOrder \/ EmitPayment \/ EmitShipment
    \/ Signal

-----------------------------------------------------------------------------
(* The bronze jobs *)

Sources == UNCHANGED <<streams, now, pg, app, topics, outlived>>

Ends(s) == [t \in Input(s) |-> Len(topics[t])]

\* The bug: the events are read from the start as well.
StartsEarliest(s) == [t \in Input(s) |-> 0]

\* starting_offsets of a stream that has no checkpoint.
Starts(s) == IF s = "raw_events" THEN Ends(s) ELSE [t \in Input(s) |-> 0]

\* A query keeps its id, by which the sink knows the batches that it has, also
\* when its checkpoint is removed under it.
Job(s, point, plan) ==
    [stream |-> s, offset |-> point.offset, plan |-> plan, written |-> point.written,
     phase |-> "append"]

\* A batch that was planned is done again; else one is planned up to the end of
\* the topics, of which a first one of the newest offsets is empty.
StartJob(s) ==
    LET point == IF checkpoint[s] # NULL THEN checkpoint[s]
                 ELSE [from |-> Starts(s), offset |-> Starts(s), plan |-> NULL,
                       written |-> FALSE, stale |-> FALSE]
        plan == IF point.plan # NULL THEN point.plan ELSE Ends(s)
        empty == plan = point.offset
    IN /\ job = NULL
       /\ checkpoint[s] # NULL => ~empty
       /\ checkpoint' = [checkpoint EXCEPT ![s] =
                            [point EXCEPT !.plan = IF empty THEN NULL ELSE plan]]
       /\ job' = IF empty THEN NULL ELSE Job(s, point, plan)
       /\ UNCHANGED <<bronze, counts>> /\ Sources

\* failOnDataLoss is false: what a topic no longer has is passed over.
Batch(t) ==
    SubSeq(topics[t], job.offset[t] + 1, Min({job.plan[t], Len(topics[t])}))

\* The rows of a batch; those of different topics come in any order.
Rows(s) ==
    IF s = "raw_events"
    THEN Batch("orders.v1") \o Batch("payments.v1") \o Batch("shipments.v1")
         \o Batch("inventory-changes.v1") \o Batch("customer-interactions.v1")
    ELSE Batch(s)

\* The commit of a batch that Iceberg has already is dropped by the sink.
AppendBatch ==
    /\ job # NULL /\ job.phase = "append"
    /\ LET s == job.stream
       IN /\ bronze' = IF job.written THEN bronze
                       ELSE [bronze EXCEPT ![s] = @ \o Rows(s)]
          /\ checkpoint' = IF checkpoint[s] = NULL THEN checkpoint
                           ELSE [checkpoint EXCEPT ![s].written = TRUE]
    /\ job' = [job EXCEPT !.phase = "commit"]
    /\ UNCHANGED counts /\ Sources

\* The bug: the checkpoint goes to the end of the topics, not of the batch.
Committed == Ends(job.stream)

Planned == job.plan

CommitBatch ==
    /\ job # NULL /\ job.phase = "commit"
    /\ LET s == job.stream
       IN checkpoint' = IF checkpoint[s] = NULL THEN checkpoint
                        ELSE [checkpoint EXCEPT ![s].offset = Planned,
                                 ![s].plan = NULL, ![s].written = FALSE]
    /\ job' = NULL
    /\ UNCHANGED <<bronze, counts>> /\ Sources

CrashJob ==
    /\ job # NULL /\ Count("faults")
    /\ job' = NULL
    /\ UNCHANGED <<bronze, checkpoint>> /\ Sources

Jobs == (\E s \in streams : StartJob(s)) \/ AppendBatch \/ CommitBatch \/ CrashJob

Next == Second \/ Generator \/ Jobs

Spec == Init /\ [][Next]_vars

-----------------------------------------------------------------------------
(* Properties *)

Table(s) == IF s \in streams THEN bronze[s] ELSE <<>>

Products == DimProductCatalog(Table("products"))
Customers(pick) == DimCustomerProfile(Table("users"), Table("customer_segments"), pick)
Warehouses == DimWarehouse(Table("warehouse_inventory"))
Picks == {"first", "last"}

\* What is reserved in a warehouse is there, whatever sequence of events,
\* legacy updates, restarts and truncations wrote the row: _apply_reserved_first
\* takes from the stock only when nothing is reserved any more.
ReservedIsCovered == pg.stock # NULL => pg.stock.reserved <= pg.stock.qty

\* raw_events has no event twice, although its jobs crash between the table
\* and the checkpoint, and the checkpoint may be removed under a topic that is
\* kept: it starts again from the newest offsets.
EventsOnce ==
    \A i, j \in DOMAIN Table("raw_events") :
        LET e == Table("raw_events")[i] f == Table("raw_events")[j]
        IN e.topic = f.topic /\ e.id = f.id => i = j

\* A bronze table has every event between where its stream began and its
\* checkpoint, unless the topics were replaced and the checkpoint was not.
NothingSkipped ==
    \A s \in streams : checkpoint[s] # NULL /\ ~checkpoint[s].stale =>
        \A t \in Input(s) : \A o \in checkpoint[s].from[t] + 1..checkpoint[s].offset[t] :
            o \in DOMAIN topics[t] => \E i \in DOMAIN bronze[s] : bronze[s][i] = topics[t][o]

\* Both: no event is lost and raw_events has none twice.
ExactlyOnce == EventsOnce /\ NothingSkipped

\* A batch has just been appended: only then is anything new to be built.
Appended == job # NULL /\ job.phase = "commit"

NoOverlap(dim) ==
    \A j, k \in DOMAIN dim : j # k => dim[j].to <= dim[k].from \/ dim[k].to <= dim[j].from

UniqueKeys(dim) == \A j, k \in DOMAIN dim : Key(dim[j]) = Key(dim[k]) => j = k

\* At any time one version of a product, a customer or a warehouse is valid,
\* from its first change on: the temporal joins find one row (scd2_from_events).
OneVersionAtATime ==
    Appended =>
    /\ NoOverlap(Products) /\ NoOverlap(Warehouses)
    /\ \A p \in Picks : NoOverlap(Customers(p))

\* enforce_primary_key lets every table pass, also when a removed checkpoint
\* had a topic of changes ingested again.
KeysAreUnique ==
    Appended =>
    /\ UniqueKeys(Products) /\ UniqueKeys(Warehouses)
    /\ \A p \in Picks :
          LET raw == Table("raw_events")
              orders == FactOrderService(raw, Customers(p), Products)
              positions == FactInventoryPosition(raw, Warehouses, Products)
          IN /\ UniqueKeys(Customers(p))
             /\ \A f, g \in orders : f.order = g.order => f = g
             /\ \A f, g \in positions : f.change = g.change => f = g
             /\ Cardinality(FactCustomerEngagement(raw, Customers(p), Products)) <= 1

\* surrogate_key is "stable": a key of a product, which facts refer to, is in
\* every later build of the dimension, although a removed checkpoint has changes
\* ingested again.  Where offsets outlive their topic, changes are passed over,
\* and come late when the checkpoint is removed after all.
ProductKeysStay ==
    [][Table("products") # Table("products")' /\ "products" \notin outlived
            => Keys(Products) \subseteq Keys(Products)']_bronze

\* The same of customers, whose rows merge two tables.
CustomerKeysStay ==
    [][\A p \in Picks : Keys(Customers(p)) \subseteq Keys(Customers(p))']_bronze

\* dim_warehouse: "compute total qty/reserved per warehouse per timestamp".
TotalsAreStock ==
    \A j \in DOMAIN Warehouses :
        \E i \in DOMAIN Table("warehouse_inventory") :
            Table("warehouse_inventory")[i].val = Warehouses[j].val

=============================================================================
