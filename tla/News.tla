-------------------------------- MODULE News --------------------------------
(***************************************************************************)
(* news_crawler.py: a crawl scrapes the front pages, appends the articles  *)
(* that are new to bronze.vnstock_news, and then writes those that are new *)
(* to Redis, from where routers/news.py serves them.  What is new is       *)
(* decided twice: by the ids the table has, and by the sorted set          *)
(* vnstock:news:seen_ids, in which ZADD NX marks an id at once while the   *)
(* article waits in a pipeline until all ids are marked.                   *)
(*                                                                         *)
(* Airflow lets runs of a DAG overlap, and runs one again that failed.     *)
(* An article is its id; a member of a list is an id with the title of the *)
(* time.  A sorted set maps the members it has to their scores, the time   *)
(* of the crawl.                                                           *)
(***************************************************************************)
EXTENDS Integers, FiniteSets, FiniteSetsExt, Functions

CONSTANTS
    Crawls,         \* runs that may overlap
    Sites,          \* the articles of each of SOURCES
    SeenMax,        \* VNSTOCK_NEWS_SEEN_IDS_MAX
    AllMax,         \* 500: the length of vnstock:news:all
    SiteMax,        \* 200: the length of vnstock:news:{source}
    Absent

CONSTANTS           \* bounds of the model, none of them in the code
    Titles, LastHour, MaxLosses

Articles == UNION {Sites[s] : s \in DOMAIN Sites}
Time == 1..LastHour

ASSUME NewsAssumption ==
    /\ Articles \subseteq Int /\ IsFiniteSet(Articles) /\ "all" \notin DOMAIN Sites
    /\ {SeenMax, AllMax, SiteMax, MaxLosses} \subseteq Nat /\ LastHour \in Nat \ {0}
    /\ Titles # {} /\ Absent \notin Titles /\ Absent \notin [Articles -> 0..2]

VARIABLES
    hour,
    front,          \* the title of each article that is linked, or Absent
    crawls,         \* the local variables of each run, or Absent
    table,          \* bronze.vnstock_news, or Absent: copies of each id
    seen_ids,       \* vnstock:news:seen_ids: id -> score
    news_lists,     \* vnstock:news:all and vnstock:news:{source}
    articles,       \* vnstock:news:article:{id}: the time of the crawl
    faults          \* counted for the bound

VARIABLES           \* auxiliary: never read by the code
    lost,           \* ids that a run had marked when it died
    returned        \* ids marked again, after they were trimmed from seen_ids

newsVars == <<hour, front, crawls, table, seen_ids, news_lists, articles, faults, lost, returned>>

Maybe(S) == S \cup {Absent}
Some(S, T) == UNION {[R -> T] : R \in SUBSET S}
Partial(f, S, T) == DOMAIN f \subseteq S /\ \A x \in DOMAIN f : f[x] \in T
Lists == {"all"} \cup DOMAIN Sites
Members == Articles \X Titles
Nothing == [x \in {} |-> 0]

\* The new values of keys, or members, over the old ones.
Over(new, old) ==
    [x \in DOMAIN new \cup DOMAIN old |-> IF x \in DOMAIN new THEN new[x] ELSE old[x]]

FirstTitle == CHOOSE t \in Titles : TRUE

\* batch: what was scraped; known: the ids the table had; todo: the articles to
\* mark; pipe: those marked.
Crawl == [pc: {"scraped", "read", "redis"}, at: Time, batch: Some(Articles, Titles),
          known: Maybe(SUBSET Articles), todo: SUBSET Articles, pipe: SUBSET Articles]

ASSUME CrawlAssumption == Absent \notin Crawl

NewsTypeOK ==
    /\ hour \in Time
    /\ front \in [Articles -> Maybe(Titles)]
    /\ crawls \in [Crawls -> Maybe(Crawl)]
    /\ table \in Maybe([Articles -> 0..2])
    /\ Partial(seen_ids, Articles, Time)
    /\ \A l \in Lists : Partial(news_lists[l], Members, Time)
    /\ Partial(articles, Articles, Time)
    /\ faults \in 0..MaxLosses
    /\ lost \subseteq Articles /\ returned \subseteq Articles

NewsInit ==
    /\ hour = 1
    /\ front \in [Articles -> {Absent, FirstTitle}]
    /\ crawls = [c \in Crawls |-> Absent]
    /\ table = Absent
    /\ seen_ids = Nothing /\ news_lists = [l \in Lists |-> Nothing] /\ articles = Nothing
    /\ faults = 0 /\ lost = {} /\ returned = {}

Redis == <<seen_ids, news_lists, articles>>
Aux == <<lost, returned>>

-----------------------------------------------------------------------------
(* The sites *)

\* The time of a crawl; the sites publish, and change titles, as it passes.
Hour ==
    /\ hour < LastHour /\ hour' = hour + 1
    /\ \E a \in Articles, title \in Maybe(Titles) : front' = [front EXCEPT ![a] = title]
    /\ UNCHANGED <<crawls, table, Redis, faults, Aux>>

-----------------------------------------------------------------------------
(* A run *)

At(c, pc) == crawls[c] # Absent /\ crawls[c].pc = pc
Becomes(c, run) == crawls' = [crawls EXCEPT ![c] = run]
Run(at, batch) ==
    [pc |-> "scraped", at |-> at, batch |-> batch, known |-> Absent,
     todo |-> DOMAIN batch, pipe |-> {}]

\* scrape_source: a page that fails is the last of its site.  A run without
\* articles writes nothing.
Scrape(c) ==
    LET linked == {a \in Articles : front[a] # Absent}
    IN /\ crawls[c] = Absent
       /\ \E got \in SUBSET linked :
             /\ got # {}
             /\ faults' = IF got = linked THEN faults ELSE faults + 1
             /\ Becomes(c, Run(hour, [a \in got |-> front[a]]))
       /\ faults' <= MaxLosses
       /\ UNCHANGED <<hour, front, table, Redis, Aux>>

\* write_to_lakehouse looks at what is there ...
ReadTable(c) ==
    /\ At(c, "scraped")
    /\ Becomes(c, [crawls[c] EXCEPT !.pc = "read",
                  !.known = IF table = Absent THEN Absent
                            ELSE {a \in Articles : table[a] > 0}])
    /\ UNCHANGED <<hour, front, table, Redis, faults, Aux>>

AfterTable(c) == [crawls[c] EXCEPT !.pc = "redis", !.known = Absent]

\* ... appends what is not, or creates the table, which ends the run if there
\* is one by now.
WriteTable(c) ==
    /\ At(c, "read")
    /\ LET known == crawls[c].known
           new == DOMAIN crawls[c].batch \ (IF known = Absent THEN {} ELSE known)
           rows == IF table = Absent THEN [a \in Articles |-> 0] ELSE table
       IN IF known = Absent /\ table # Absent
          THEN Becomes(c, Absent) /\ UNCHANGED table
          ELSE /\ table' = [a \in Articles |->
                              IF a \in new /\ rows[a] < 2 THEN rows[a] + 1 ELSE rows[a]]
               /\ Becomes(c, AfterTable(c))
    /\ UNCHANGED <<hour, front, Redis, faults, Aux>>

\* The articles come in the order of their sites and pages.
IsFirst(c, a) == a \in crawls[c].todo /\ \A b \in crawls[c].todo : a <= b

\* A run has written it, or is going to.
Written(a) ==
    a \in DOMAIN articles \/ \E c \in Crawls : crawls[c] # Absent /\ a \in crawls[c].pipe

\* The bug: an id is marked without NX.
MarkAgain(c, a) ==
    /\ At(c, "redis") /\ IsFirst(c, a)
    /\ seen_ids' = Over([n \in {a} |-> crawls[c].at], seen_ids)
    /\ Becomes(c, [crawls[c] EXCEPT !.todo = @ \ {a}, !.pipe = @ \cup {a}])
    /\ UNCHANGED <<hour, front, table, news_lists, articles, faults, Aux>>

\* The bug: each article has a pipeline of its own.
MarkFresh(c, a) ==
    /\ At(c, "redis") /\ IsFirst(c, a)
    /\ LET new == IF a \in DOMAIN seen_ids THEN {} ELSE {a}
       IN /\ seen_ids' = Over([n \in new |-> crawls[c].at], seen_ids)
          /\ Becomes(c, [crawls[c] EXCEPT !.todo = @ \ {a}, !.pipe = new])
          /\ returned' = returned \cup {n \in new : Written(n)}
    /\ UNCHANGED <<hour, front, table, news_lists, articles, faults, lost>>

\* write_to_redis: ZADD NX says whether the id is new.
Mark(c, a) ==
    /\ At(c, "redis") /\ IsFirst(c, a)
    /\ LET new == IF a \in DOMAIN seen_ids THEN {} ELSE {a}
       IN /\ seen_ids' = Over([n \in new |-> crawls[c].at], seen_ids)
          /\ Becomes(c, [crawls[c] EXCEPT !.todo = @ \ {a}, !.pipe = @ \cup new])
          /\ returned' = returned \cup {n \in new : Written(n)}
    /\ UNCHANGED <<hour, front, table, news_lists, articles, faults, lost>>

\* The bug: zremrangebyrank from the wrong end.
TrimNewest(set, max) ==
    {Restrict(set, R) : R \in {Q \in SUBSET DOMAIN set :
        /\ Cardinality(Q) = Min({max, Cardinality(DOMAIN set)})
        /\ \A m \in Q, n \in DOMAIN set \ Q : set[m] <= set[n]}}

\* zremrangebyrank(key, 0, -(max + 1)): the max members of the highest scores
\* stay; which of equal scores, their text decides.
Trim(set, max) ==
    {Restrict(set, R) : R \in {Q \in SUBSET DOMAIN set :
        /\ Cardinality(Q) = Min({max, Cardinality(DOMAIN set)})
        /\ \A m \in Q, n \in DOMAIN set \ Q : set[m] >= set[n]}}

Length(l) == IF l = "all" THEN AllMax ELSE SiteMax
Of(l) == IF l = "all" THEN Articles ELSE Sites[l]

\* pipe.execute(): all of it, or nothing.
Execute(c) ==
    /\ At(c, "redis") /\ crawls[c].todo = {}
    /\ LET run == crawls[c]
           added(l) == [m \in {<<a, run.batch[a]>> : a \in run.pipe \cap Of(l)} |-> run.at]
           kept(l) == Trim(Over(added(l), news_lists[l]), Length(l))
       IN /\ news_lists' \in {f \in [Lists -> UNION {kept(l) : l \in Lists}] :
                                \A l \in Lists : f[l] \in kept(l)}
          /\ articles' = Over([a \in run.pipe |-> run.at], articles)
    /\ seen_ids' \in Trim(seen_ids, SeenMax)
    /\ Becomes(c, Absent)
    /\ UNCHANGED <<hour, front, table, faults, Aux>>

\* A run dies, or Redis does not answer: the pipeline is gone.
Dies(c) ==
    /\ crawls[c] # Absent
    /\ faults < MaxLosses /\ faults' = faults + 1
    /\ lost' = lost \cup crawls[c].pipe
    /\ Becomes(c, Absent)
    /\ UNCHANGED <<hour, front, table, Redis, returned>>

NewsNext ==
    \/ Hour
    \/ \E c \in Crawls :
          \/ Scrape(c) \/ ReadTable(c) \/ WriteTable(c)
          \/ \E a \in Articles : Mark(c, a)
          \/ Execute(c) \/ Dies(c)

NewsSpec == NewsInit /\ [][NewsNext]_newsVars

-----------------------------------------------------------------------------
(* Properties *)

\* A list has an article once, although runs overlap and titles change, unless
\* seen_ids had forgotten it and it came back (write_to_redis: "Cross-run dedup").
ListedOnce ==
    \A l \in Lists : \A m, n \in DOMAIN news_lists[l] :
        m[1] = n[1] /\ m[1] \notin returned => m = n

\* An id that is marked has its article, or a run that is going to write it,
\* unless that run died.
MarkedIsWritten ==
    \A a \in DOMAIN seen_ids :
        \/ a \in DOMAIN articles \cup lost
        \/ \E c \in Crawls : crawls[c] # Absent /\ a \in crawls[c].pipe

\* Redis shows nothing that the lakehouse does not have, wherever a run dies.
LakehouseHasAll ==
    \A a \in DOMAIN articles : table # Absent /\ table[a] > 0

\* Both: what one store has, the store that is written before it has too.
StoresAgree == MarkedIsWritten /\ LakehouseHasAll

\* What a list has lost was no newer than all that it shows, in whatever order
\* overlapping runs execute their pipelines, as long as no article of the list
\* came back: it may do so with the time of an older run (write_to_redis).
ListsKeepNewest ==
    \A l \in Lists : Of(l) \cap returned = {} =>
        \A a \in Of(l) \cap DOMAIN articles :
            \/ \E m \in DOMAIN news_lists[l] : m[1] = a
            \/ /\ Cardinality(DOMAIN news_lists[l]) = Length(l)
               /\ \A m \in DOMAIN news_lists[l] : news_lists[l][m] >= articles[a]

\* write_to_lakehouse: "skip ids that already exist".
StoredOnce == table # Absent => \A a \in Articles : table[a] <= 1

\* write_to_redis: "only first time an article id is seen gets written".
FirstTimeIsWritten ==
    \A a \in DOMAIN seen_ids :
        \/ a \in DOMAIN articles
        \/ \E c \in Crawls : crawls[c] # Absent /\ a \in crawls[c].pipe

=============================================================================
