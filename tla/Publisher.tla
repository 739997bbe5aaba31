----------------------------- MODULE Publisher -----------------------------
(***************************************************************************)
(* skeet-publish and the readers of what it publishes.  The publisher      *)
(* polls the versions of three tables of the store; when one has moved, or *)
(* a list is missing from redis, it reads the tables again, probes what is *)
(* still on Bluesky and replaces every list, one redis command at a time.  *)
(* skeet-feed reads the lists over connections of its own, falling back to *)
(* wider windows when a list is blank.  Nothing here is a transaction:     *)
(* versions, tables, lists and companion keys are read and written one by  *)
(* one while others write them.                                            *)
(*                                                                         *)
(* A feed is an (order, limit) spec.  Feeds of one order are named by the  *)
(* width of their window, and the ranking inside a list is left to the     *)
(* module on ranks: a publication is the set of items it holds.            *)
(***************************************************************************)
EXTENDS Integers, Sequences, FiniteSets

CONSTANTS
    Item,           \* published pairs: an image and the skeet it belongs to
    Feed,           \* the published windows, each named by its width
    Publisher,      \* skeet-publish processes: the worker, a manual --once
    Reader,         \* requests to skeet-feed, each with its own connections
    None,           \* Rust's Option::None
    MaxClock,       \* bound: later instants are not told apart
    MaxVersions,    \* bound: table versions beyond the first, all tables
    MaxAge,         \* bound: how far an item ages
    MaxFaults,      \* bound: failed cycles, restarts and lost redis keys
    MaxDeletions,   \* bound: items deleted from Bluesky
    StaleProbes     \* whether an existence verdict may be inconclusive or cached

\* RELEVANT_TABLES.
Table == {"scores", "skeet_appraisal", "image_appraisal"}

ASSUME PublisherAssumption ==
    /\ Feed \subseteq Nat /\ Feed # {} /\ IsFiniteSet(Feed)
    /\ IsFiniteSet(Item)
    /\ None \notin Nat \cup [Table -> Nat]
    /\ {MaxClock, MaxVersions, MaxAge, MaxFaults, MaxDeletions} \subseteq Nat
    /\ StaleProbes \in BOOLEAN

VARIABLES
    \* the store: RELEVANT_TABLES only
    content,        \* content[t][i]: what table t says of item i
    version,
    \* the world
    clock,
    age,            \* in window widths: an item is in feed f while age < f
    gone,           \* items deleted from Bluesky
    faults,
    \* skeet-publish
    stage,
    cycle,          \* the locals of publish_if_changed, dropped when it returns
    gate,           \* last_relevant: the version key of the last publish
    scoresCache,    \* the store handle's cache of the scores table
    \* redis
    list,           \* the list keys; a list is the publications pushed to it
    building,       \* the scratch keys
    refreshedAt,
    statistics,
    catalog,
    \* skeet-feed
    rstage,
    chain,          \* the feeds this request has still to try
    page,           \* what has been read for the answer
    \* history
    solid           \* feeds with something to show ever since the request began

storeVars  == <<content, version>>
worldVars  == <<clock, age, gone>>
procVars   == <<stage, cycle, gate, scoresCache>>
listVars   == <<list, building>>
otherKeys  == <<refreshedAt, statistics>>
redisVars  == <<listVars, otherKeys, catalog>>
readerVars == <<rstage, chain, page>>
vars == <<storeVars, worldVars, faults, procVars, redisVars, readerVars, solid>>

Verdict == {"none", "hide", "show"}
Rows    == [Item -> Verdict]
NoRows  == [i \in Item |-> "none"]

\* An image's band is its appraisal if it has one, else its score's; the skeet's
\* is the lowest of its own appraisal and its image's; without a score, nothing.
Visible(c) ==
    {i \in Item :
        /\ c["scores"][i] # "none"
        /\ c["skeet_appraisal"][i] # "hide"
        /\ "show" = IF c["image_appraisal"][i] = "none"
                    THEN c["scores"][i] ELSE c["image_appraisal"][i]}

Within(a, f) == {i \in Item : a[i] < f}

Publication == [items : SUBSET Item, live : SUBSET Item, at : Nat]
Summary     == [exists : Nat, at : Nat]

Shown(l)   == UNION {l[k].items : k \in 1 .. Len(l)}
IsLive(l)  == UNION {l[k].live : k \in 1 .. Len(l)}

NoCycle == [now    |-> 0,
            aged   |-> [i \in Item |-> 0],
            key    |-> [t \in Table |-> 0],
            tag    |-> None,
            rows   |-> [t \in Table |-> NoRows],
            alive  |-> {},
            tables |-> {},
            feeds  |-> {},
            feed   |-> None]

BlankPage == [feed |-> None, list |-> <<>>, at |-> None, stats |-> None]

Stage == {"starting", "advertising", "idle", "gating", "presence", "reading",
          "probing", "clearing", "pushing", "swapping", "stamping", "summing"}

TypeOK ==
    /\ content \in [Table -> Rows]
    /\ version \in [Table -> Nat]
    /\ clock \in Nat
    /\ age \in [Item -> Nat]
    /\ gone \in SUBSET Item
    /\ faults \in Nat
    /\ stage \in [Publisher -> Stage]
    /\ cycle \in [Publisher ->
          [now : Nat, aged : [Item -> Nat], key : [Table -> Nat],
           tag : Nat \cup {None}, rows : [Table -> Rows], alive : SUBSET Item,
           tables : SUBSET Table, feeds : SUBSET Feed, feed : Feed \cup {None}]]
    /\ gate \in [Publisher -> [Table -> Nat] \cup {None}]
    /\ scoresCache \in [Publisher -> [version : Nat, rows : Rows] \cup {None}]
    /\ list \in [Feed -> Seq(Publication)]
    /\ building \in [Feed -> Seq(Publication)]
    /\ refreshedAt \in [Feed -> Nat \cup {None}]
    /\ statistics \in [Feed -> Summary \cup {None}]
    /\ catalog \in SUBSET Feed
    /\ rstage \in [Reader -> {"resting", "listing", "dating", "counting"}]
    /\ chain \in [Reader -> SUBSET Feed]
    /\ page \in [Reader -> [feed : Feed \cup {None}, list : Seq(Publication),
                            at : Nat \cup {None}, stats : Summary \cup {None}]]
    /\ solid \in [Reader -> SUBSET Feed]

Init ==
    /\ content = [t \in Table |-> NoRows]
    /\ version = [t \in Table |-> 0]
    /\ clock = 0
    /\ age = [i \in Item |-> 0]
    /\ gone = {}
    /\ faults = 0
    /\ stage = [p \in Publisher |-> "starting"]
    /\ cycle = [p \in Publisher |-> NoCycle]
    /\ gate = [p \in Publisher |-> None]
    /\ scoresCache = [p \in Publisher |-> None]
    /\ list = [f \in Feed |-> <<>>]
    /\ building = [f \in Feed |-> <<>>]
    /\ refreshedAt = [f \in Feed |-> None]
    /\ statistics = [f \in Feed |-> None]
    /\ catalog = {}
    /\ rstage = [r \in Reader |-> "resting"]
    /\ chain = [r \in Reader |-> {}]
    /\ page = [r \in Reader |-> BlankPage]
    /\ solid = [r \in Reader |-> {}]

-----------------------------------------------------------------------------
(* The other programs and the world.                                       *)

VersionsMoved == version["scores"] + version["skeet_appraisal"] + version["image_appraisal"]

\* live-refine upserts a score, an appraiser sets or clears a band.
Write(t, i, v) ==
    /\ VersionsMoved < MaxVersions
    /\ v = "none" => t # "scores"
    /\ content' = [content EXCEPT ![t][i] = v]
    /\ version' = [version EXCEPT ![t] = @ + 1]
    /\ UNCHANGED <<worldVars, faults, procVars, redisVars, readerVars>>

\* The optimise job rewrites a table: a new version of the same rows.
Compact(t) ==
    /\ VersionsMoved < MaxVersions
    /\ version' = [version EXCEPT ![t] = @ + 1]
    /\ UNCHANGED <<content, worldVars, faults, procVars, redisVars, readerVars>>

\* Time passes an item out of its narrowest window.
Grow(i) ==
    /\ age[i] < MaxAge
    /\ age' = [age EXCEPT ![i] = @ + 1]
    /\ UNCHANGED <<storeVars, clock, gone, faults, procVars, redisVars, readerVars>>

\* The author deletes the post.
Delete(i) ==
    /\ Cardinality(gone) < MaxDeletions
    /\ gone' = gone \cup {i}
    /\ UNCHANGED <<storeVars, clock, age, faults, procVars, redisVars, readerVars>>

\* A list, a scratch key or the catalog is evicted, flushed or deleted out-of-band.
LoseList(f) ==
    /\ faults < MaxFaults
    /\ faults' = faults + 1
    /\ list' = [list EXCEPT ![f] = <<>>]
    /\ UNCHANGED <<storeVars, worldVars, procVars, building, otherKeys, catalog, readerVars>>

LoseScratch(f) ==
    /\ faults < MaxFaults
    /\ building[f] # <<>>
    /\ faults' = faults + 1
    /\ building' = [building EXCEPT ![f] = <<>>]
    /\ UNCHANGED <<storeVars, worldVars, procVars, list, otherKeys, catalog, readerVars>>

LoseCatalog ==
    /\ faults < MaxFaults
    /\ faults' = faults + 1
    /\ catalog' = {}
    /\ UNCHANGED <<storeVars, worldVars, procVars, listVars, otherKeys, readerVars>>

-----------------------------------------------------------------------------
(* skeet-publish: main, then one publish_if_changed per tick.              *)

GoTo(p, s) == stage' = [stage EXCEPT ![p] = s]
Note(p, c) == cycle' = [cycle EXCEPT ![p] = c]

\* PublishedListCatalog::write, once per process: a DEL and a SADD.
ClearCatalog(p) ==
    /\ stage[p] = "starting"
    /\ catalog' = {}
    /\ GoTo(p, "advertising")
    /\ UNCHANGED <<storeVars, worldVars, faults, cycle, gate, scoresCache,
                   listVars, otherKeys, readerVars>>

Advertise(p) ==
    /\ stage[p] = "advertising"
    /\ catalog' = catalog \cup Feed
    /\ GoTo(p, "idle")
    /\ UNCHANGED <<storeVars, worldVars, faults, cycle, gate, scoresCache,
                   listVars, otherKeys, readerVars>>

\* A tick: the cycle's time is taken before anything is read.
Begin(p) ==
    /\ stage[p] = "idle"
    /\ clock' = IF clock < MaxClock THEN clock + 1 ELSE clock
    /\ Note(p, [NoCycle EXCEPT !.now = clock', !.aged = age, !.tables = Table])
    /\ GoTo(p, "gating")
    /\ UNCHANGED <<storeVars, age, gone, faults, gate, scoresCache, redisVars, readerVars>>

\* version_snapshot reads the tables' versions one after the other.  The last
\* one read, an unchanged key leads to the presence check, any other to publish.
ReadVersion(p, t) ==
    LET c    == cycle[p]
        read == [c EXCEPT !.key[t] = version[t], !.tables = @ \ {t}]
    IN  /\ stage[p] = "gating"
        /\ t \in c.tables
        /\ IF read.tables # {}
           THEN Note(p, read) /\ UNCHANGED stage
           ELSE IF gate[p] = read.key
           THEN Note(p, [read EXCEPT !.feeds = Feed]) /\ GoTo(p, "presence")
           ELSE Note(p, [read EXCEPT !.tables = Table]) /\ GoTo(p, "reading")
        /\ UNCHANGED <<storeVars, worldVars, faults, gate, scoresCache, redisVars, readerVars>>

\* all_lists_present: a missing list sends the cycle on to publish; with all of
\* them present it is over.
BadIsMissing(f) == FALSE
IsMissing(f) == list[f] = <<>>

CheckPresence(p, f) ==
    LET c == cycle[p]
    IN  /\ stage[p] = "presence"
        /\ f \in c.feeds
        /\ IF IsMissing(f)
           THEN Note(p, [c EXCEPT !.feeds = {}, !.tables = Table]) /\ GoTo(p, "reading")
           ELSE IF c.feeds = {f}
           THEN Note(p, NoCycle) /\ GoTo(p, "idle")
           ELSE Note(p, [c EXCEPT !.feeds = @ \ {f}]) /\ UNCHANGED stage
        /\ UNCHANGED <<storeVars, worldVars, faults, gate, scoresCache, redisVars, readerVars>>

\* fetch reads the tables concurrently, in no particular order.
Fetched(p, t, rows) ==
    LET c == cycle[p]
    IN  /\ Note(p, [c EXCEPT !.rows[t] = rows, !.tables = @ \ {t},
                            !.tag = IF t = "scores" THEN None ELSE @])
        /\ IF c.tables = {t} THEN GoTo(p, "probing") ELSE UNCHANGED stage

ReadAppraisals(p, t) ==
    /\ stage[p] = "reading"
    /\ t \in cycle[p].tables \ {"scores"}
    /\ Fetched(p, t, content[t])
    /\ UNCHANGED <<storeVars, worldVars, faults, gate, scoresCache, redisVars, readerVars>>

\* cached_scores: the version is read, and the cache serves if it has that one.
CheckScoresCache(p) ==
    LET c      == cycle[p]
        cached == scoresCache[p]
    IN  /\ stage[p] = "reading"
        /\ "scores" \in c.tables /\ c.tag = None
        /\ IF cached # None /\ cached.version = version["scores"]
           THEN Fetched(p, "scores", cached.rows)
           ELSE Note(p, [c EXCEPT !.tag = version["scores"]]) /\ UNCHANGED stage
        /\ UNCHANGED <<storeVars, worldVars, faults, gate, scoresCache, redisVars, readerVars>>

\* Else the table is scanned, and cached under the version read before the scan.
BadTag(p) == version["scores"] + 1
Tag(p) == cycle[p].tag

ScanScores(p) ==
    /\ stage[p] = "reading"
    /\ "scores" \in cycle[p].tables /\ cycle[p].tag # None
    /\ Fetched(p, "scores", content["scores"])
    /\ scoresCache' = [scoresCache EXCEPT ![p] =
                          [version |-> Tag(p), rows |-> content["scores"]]]
    /\ UNCHANGED <<storeVars, worldVars, faults, gate, redisVars, readerVars>>

\* The existence check: what is not found to be gone counts as there, and a
\* verdict may be as old as the checker's TTL or not conclude at all.
Probe(p) ==
    /\ stage[p] = "probing"
    /\ \E missed \in SUBSET gone :
          /\ missed # {} => StaleProbes
          /\ Note(p, [cycle[p] EXCEPT !.alive = (Item \ gone) \cup missed, !.feeds = Feed])
    /\ GoTo(p, "clearing")
    /\ UNCHANGED <<storeVars, worldVars, faults, gate, scoresCache, redisVars, readerVars>>

\* The time a publication and its companion keys carry.
PublishedAt(p, f) == cycle[p].now

\* published_for_spec and enrich: what feed f is to show.
NextPublication(p, f) ==
    LET c     == cycle[p]
        items == Visible(c.rows) \cap Within(c.aged, f)
    IN  [items |-> items, live |-> items \cap c.alive, at |-> PublishedAt(p, f)]

\* PublishedList::replace, command by command: DEL of the scratch key.
BadScratch(f) == building[f]
Scratch(f) == <<>>

ClearScratch(p, f) ==
    /\ stage[p] = "clearing"
    /\ f \in cycle[p].feeds
    /\ building' = [building EXCEPT ![f] = Scratch(f)]
    /\ Note(p, [cycle[p] EXCEPT !.feed = f])
    /\ GoTo(p, "pushing")
    /\ UNCHANGED <<storeVars, worldVars, faults, gate, scoresCache, list,
                   otherKeys, catalog, readerVars>>

\* RPUSH of the pairs to the scratch key; without pairs, DEL of the list.
Push(p) ==
    LET f == cycle[p].feed
        u == NextPublication(p, f)
    IN  /\ stage[p] = "pushing"
        /\ IF u.items = {}
           THEN /\ list' = [list EXCEPT ![f] = <<>>]
                /\ GoTo(p, "stamping")
                /\ UNCHANGED building
           ELSE /\ building' = [building EXCEPT ![f] = Append(@, u)]
                /\ GoTo(p, "swapping")
                /\ UNCHANGED list
        /\ UNCHANGED <<storeVars, worldVars, faults, cycle, gate, scoresCache,
                       otherKeys, catalog, readerVars>>

\* RENAME, an error if the scratch key is gone, to another publisher or to redis.
Swap(p) ==
    LET f == cycle[p].feed
    IN  /\ stage[p] = "swapping"
        /\ building[f] # <<>>
        /\ list' = [list EXCEPT ![f] = building[f]]
        /\ building' = [building EXCEPT ![f] = <<>>]
        /\ GoTo(p, "stamping")
        /\ UNCHANGED <<storeVars, worldVars, faults, cycle, gate, scoresCache,
                       otherKeys, catalog, readerVars>>

SwapFails(p) ==
    /\ stage[p] = "swapping"
    /\ building[cycle[p].feed] = <<>>
    /\ Note(p, NoCycle)
    /\ GoTo(p, "idle")
    /\ UNCHANGED <<storeVars, worldVars, faults, gate, scoresCache, redisVars, readerVars>>

\* SET of the refreshed-at key.
Stamp(p) ==
    /\ stage[p] = "stamping"
    /\ refreshedAt' = [refreshedAt EXCEPT
                          ![cycle[p].feed] = PublishedAt(p, cycle[p].feed)]
    /\ GoTo(p, "summing")
    /\ UNCHANGED <<storeVars, worldVars, faults, cycle, gate, scoresCache,
                   listVars, statistics, catalog, readerVars>>

\* write_statistics; after the last feed the key read at the start is cached.
Key(p) == cycle[p].key

Summarise(p) ==
    LET c == cycle[p]
    IN  /\ stage[p] = "summing"
        /\ statistics' = [statistics EXCEPT ![c.feed] =
              [exists |-> Cardinality(NextPublication(p, c.feed).live),
               at     |-> PublishedAt(p, c.feed)]]
        /\ IF c.feeds = {c.feed}
           THEN /\ gate' = [gate EXCEPT ![p] = Key(p)]
                /\ Note(p, NoCycle)
                /\ GoTo(p, "idle")
           ELSE /\ Note(p, [c EXCEPT !.feeds = @ \ {c.feed}, !.feed = None])
                /\ GoTo(p, "clearing")
                /\ UNCHANGED gate
        /\ UNCHANGED <<storeVars, worldVars, faults, scoresCache, listVars,
                       refreshedAt, catalog, readerVars>>

\* Any store or redis error ends the cycle; the loop counts it and ticks on.
Fail(p) ==
    /\ stage[p] \notin {"starting", "advertising", "idle"}
    /\ faults < MaxFaults
    /\ faults' = faults + 1
    /\ Note(p, NoCycle)
    /\ GoTo(p, "idle")
    /\ UNCHANGED <<storeVars, worldVars, gate, scoresCache, redisVars, readerVars>>

\* The process ends at any point, and is started again.
Restart(p) ==
    /\ faults < MaxFaults
    /\ faults' = faults + 1
    /\ Note(p, NoCycle)
    /\ GoTo(p, "starting")
    /\ gate' = [gate EXCEPT ![p] = None]
    /\ scoresCache' = [scoresCache EXCEPT ![p] = None]
    /\ UNCHANGED <<storeVars, worldVars, redisVars, readerVars>>

Publish(p) ==
    \/ ClearCatalog(p) \/ Advertise(p) \/ Begin(p) \/ CheckScoresCache(p)
    \/ ScanScores(p) \/ Probe(p) \/ Push(p) \/ Swap(p) \/ SwapFails(p)
    \/ Stamp(p) \/ Summarise(p)
    \/ \E t \in Table : ReadVersion(p, t) \/ ReadAppraisals(p, t)
    \/ \E f \in Feed : CheckPresence(p, f) \/ ClearScratch(p, f)

-----------------------------------------------------------------------------
(* skeet-feed: FallbackFeedSource::published_images, once per request.     *)

publishSide == <<storeVars, worldVars, faults, procVars, redisVars>>

\* The chain: every advertised feed at least as wide as the preferred one.
ReadCatalog(r, preferred) ==
    /\ rstage[r] = "resting"
    /\ chain' = [chain EXCEPT ![r] = {f \in catalog : f >= preferred}]
    /\ page' = [page EXCEPT ![r] = BlankPage]
    /\ rstage' = [rstage EXCEPT ![r] = IF chain'[r] = {} THEN "resting" ELSE "listing"]
    /\ UNCHANGED publishSide

\* read_with_refreshed_at pipelines LRANGE and GET; others may come between.
ReadList(r, f) ==
    /\ rstage[r] = "listing"
    /\ f \in chain[r] /\ \A g \in chain[r] : f <= g
    /\ page' = [page EXCEPT ![r] = [BlankPage EXCEPT !.feed = f, !.list = list[f]]]
    /\ rstage' = [rstage EXCEPT ![r] = "dating"]
    /\ UNCHANGED <<publishSide, chain>>

ReadRefreshedAt(r) ==
    /\ rstage[r] = "dating"
    /\ page' = [page EXCEPT ![r].at = refreshedAt[page[r].feed]]
    /\ rstage' = [rstage EXCEPT ![r] = "counting"]
    /\ UNCHANGED <<publishSide, chain>>

\* A transient redis failure in between: read_with_retry connects and reads again.
Retry(r) ==
    /\ rstage[r] = "dating"
    /\ page' = [page EXCEPT ![r] = BlankPage]
    /\ rstage' = [rstage EXCEPT ![r] = "listing"]
    /\ UNCHANGED <<publishSide, chain>>

\* The statistics come over another connection.  A page without live items gives
\* way to the next wider feed, unless there is none.
BadGivesWay(r) == FALSE
GivesWay(r) == IsLive(page[r].list) = {} /\ chain[r] # {page[r].feed}

ReadStatistics(r) ==
    /\ rstage[r] = "counting"
    /\ page' = [page EXCEPT ![r].stats = statistics[page[r].feed]]
    /\ IF GivesWay(r)
       THEN /\ chain' = [chain EXCEPT ![r] = @ \ {page[r].feed}]
            /\ rstage' = [rstage EXCEPT ![r] = "listing"]
       ELSE /\ chain' = [chain EXCEPT ![r] = {}]
            /\ rstage' = [rstage EXCEPT ![r] = "resting"]
    /\ UNCHANGED publishSide

Read(r) ==
    \/ \E f \in Feed : ReadCatalog(r, f) \/ ReadList(r, f)
    \/ ReadRefreshedAt(r) \/ Retry(r) \/ ReadStatistics(r)

-----------------------------------------------------------------------------

Others ==
    \/ \E t \in Table, i \in Item, v \in Verdict : Write(t, i, v)
    \/ \E t \in Table : Compact(t)
    \/ \E i \in Item : Grow(i) \/ Delete(i)
    \/ \E f \in Feed : LoseList(f) \/ LoseScratch(f)
    \/ LoseCatalog

\* History: the feeds of a request's chain with a live item at every moment since.
Watch ==
    solid' = [r \in Reader |->
        {f \in IF rstage[r] = "resting" THEN chain'[r] ELSE solid[r] :
            IsLive(list'[f]) # {}}]

Next ==
    /\ \/ Others
       \/ \E p \in Publisher : Publish(p) \/ Fail(p) \/ Restart(p)
       \/ \E r \in Reader : Read(r)
    /\ Watch

Spec == Init /\ [][Next]_vars

\* The interval timer of skeet-publish ticks for ever, and a cycle that does not
\* fail goes on.  Nothing is assumed of the store, of redis or of readers.
FairSpec == Spec /\ \A p \in Publisher : WF_vars(Publish(p) /\ Watch)

-----------------------------------------------------------------------------
(* Properties.                                                             *)

\* With one publisher, redis implements the register that consumers rely on:
\* whole publications, swapped in one step, never back in time -- across failed
\* cycles, restarts and leftovers in the scratch key (PublishedList::replace).
Register == INSTANCE PublishedRegister WITH served <- list
ListsAreARegister == Register!Spec

\* A concurrent reader sees an entire list, old or new, never a partial or mixed
\* one (the claim of PublishedList::replace).
ListsAreWhole == \A f \in Feed : Len(list[f]) <= 1

\* What is in the tables now, in the windows of now, is what list f shows.
Reflects(f) == Shown(list[f]) \cap Within(age, f) = Visible(content) \cap Within(age, f)

\* When a worker rests on a current key, its lists show the tables as they are:
\* no write between the version reads, the table reads and the list swaps is
\* lost, although neither gate nor scores cache reads a snapshot
\* (publish_if_changed, cached_scores).
CurrentGateMeansCurrentLists ==
    \A p \in Publisher :
        stage[p] = "idle" /\ gate[p] = version =>
            \A f \in Feed : list[f] # <<>> => Reflects(f)

\* Every list ends up showing the tables, evicted lists and failed cycles
\* included, once the store stops changing (publish_if_changed).
ListsConverge == \A f \in Feed : <>[]Reflects(f)

\* A request is answered from the narrowest feed of its chain, or a narrower one
\* if it fills up in time, that had something to show all along: skeet-feed is
\* never blank, and never falls back further than it must
\* (FallbackFeedSource::published_images).
AnswerIsNarrowestStanding ==
    \A r \in Reader :
        rstage[r] = "resting" =>
            \A f \in solid[r] : /\ IsLive(page[r].list) # {}
                                /\ page[r].feed <= f
=============================================================================
