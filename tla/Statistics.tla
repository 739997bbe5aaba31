------------------------------- MODULE Statistics -------------------------------
(***************************************************************************)
(* The numbers on the home page, from the pruner to the reader.  The       *)
(* content statistics stage tallies what passes through the pipeline,      *)
(* exports it (status.rs, metrics.rs) and persists it by intervals         *)
(* (statistics_persister.rs); the publisher sums the intervals of a        *)
(* window, counts the live entries of the list it publishes and predicts   *)
(* the next match (publisher.rs, prediction.rs); skeet-feed renders the    *)
(* grid, its banner and its countdown, and serves the skeleton to Bluesky  *)
(* (handlers.rs).                                                          *)
(*                                                                         *)
(* Time goes by in ticks.  Of the published lists there is one, which the  *)
(* publisher finds reason to publish at any time: its gate, the scratch    *)
(* key and the fallback over several lists are Publisher's.                *)
(***************************************************************************)
EXTENDS Integers, Sequences, FiniteSets, SequencesExt, FiniteSetsExt, Functions

CONSTANTS
    Message,        \* what a candidate may contribute: [posts, images, rejected]
    RecordInterval, \* of a log line too
    FlushInterval,
    LogEvery,       \* posts between two log lines
    Window,         \* what the list goes back
    Lists,          \* what may be published: sequences of [post, live]
    Columns,        \* HOME_GRID_COLUMNS
    MaxEntries,
    Traffic,        \* bounds, for each kind of behaviour: ticks, messages,
                    \*   cycles, visits and faults
    None

\* Waits are quantiles of the exponential distribution, -ln(1 - p) times the
\* mean: instants here are in thousandths of a tick.
Milli == 1000
Quantile == [lower |-> 25, middle |-> 693, upper |-> 3689]

\* What the publisher works out for a list.
Figures == [pub : Nat, start : Int, end : Nat, until : Nat, examined : Nat, found : Nat,
            exists : Nat, prediction : {None} \cup [DOMAIN Quantile -> Int]]

\* Lists are not so long that the shortest wait rounds to nothing
\* (prediction.rs:77-79).
StatisticsConstants ==
    /\ {RecordInterval, FlushInterval, LogEvery, Window, Columns} \subseteq Nat \ {0}
    /\ MaxEntries \in Nat
    /\ Message \subseteq [{"posts", "images", "rejected"} -> Nat]
    /\ \A l \in Lists : l \in Seq(Range(l)) /\ Len(l) <= Quantile.lower * Window
    /\ None \notin Figures
    /\ Traffic \subseteq [{"ticks", "messages", "cycles", "visits", "faults"} -> Nat]

VARIABLES
    clock,        \* the wall clock, which all share
    stage,      \* the stage's two recorders: Status and StatisticsPersister
    meters,     \* the counters the pruner has exported
    rows,       \* the table prune_stats
    list,       \* the list key: its entries, and which publication wrote it
    stamp,      \* its refreshed-at key
    stats,      \* its statistics key
    cycle,      \* a publication under way, or None
    visit,      \* a request under way: what it has read of the list, or None
    answer,     \* what the last request was told
    left,       \* what is left of the traffic
    started,    \* publications begun so far: each has a number
    told,       \* history: images the stage was told of, one number a tick
    lost,       \* history: images a crash or a shutdown took from memory
    twice,      \* history: images whose row stands twice
    whole       \* history: the last publication that wrote both keys

pruner  == <<stage, meters>>
publisher == <<cycle, started>>
redis   == <<list, stamp, stats>>
reader  == <<visit, answer>>
history == <<told, lost, twice, whole>>
vars    == <<clock, pruner, rows, redis, publisher, reader, left, history>>

Left(bound) == left[bound] > 0
Spend(bound) == left' = [left EXCEPT ![bound] = @ - 1]

----------------------------------------------------------------------------
(* The content statistics stage.  Its loop waits for the append it makes.  *)

NoCounts == [posts |-> 0, images |-> 0, rejected |-> 0]

\* ContentCounts add component by component.
Plus(a, b) == [k \in DOMAIN a |-> a[k] + b[k]]
Minus(a, b) == [k \in DOMAIN a |-> a[k] - b[k]]

NewStage == [phase |-> "receiving",
             total |-> NoCounts, lastLog |-> clock, emitted |-> NoCounts,
             open |-> NoCounts, since |-> clock, buffer |-> <<>>, lastFlush |-> clock]

\* Only a message that has a post in it may bring a log line.
Logs(m, total) ==
    /\ m.posts > 0
    /\ total.posts = 1 \/ total.posts % LogEvery = 0 \/ clock - stage.lastLog >= RecordInterval

\* Counters are exported as the difference to what was exported before.
Emit(total) == meters' = Plus(meters, Minus(total, stage.emitted))

Close(open) == NoCounts

\* Both recorders hear of a message: Status first, then the persister, whose
\* interval ends when it is old enough, and whose batch may be due.
Record(m) ==
    LET total == Plus(stage.total, m)
        open  == Plus(stage.open, m)
        logs  == Logs(m, total)
        ends  == clock - stage.since >= RecordInterval
        buffer == IF ends THEN Append(stage.buffer, [start |-> stage.since, end |-> clock,
                                                     images |-> open.images])
                  ELSE stage.buffer
    IN  /\ stage.phase = "receiving" /\ Left("messages")
        /\ IF logs THEN Emit(total) ELSE UNCHANGED meters
        /\ stage' = [stage EXCEPT
               !.total = total,
               !.lastLog = IF logs THEN clock ELSE @,
               !.emitted = IF logs THEN total ELSE @,
               !.open = IF ends THEN Close(open) ELSE open,
               !.since = IF ends THEN clock ELSE @,
               !.buffer = buffer,
               !.phase = IF clock - stage.lastFlush >= FlushInterval /\ buffer # <<>>
                         THEN "flushing" ELSE @]
        /\ told' = [told EXCEPT ![clock + 1] = @ + m.images]
        /\ Spend("messages")
        /\ UNCHANGED <<clock, rows, redis, publisher, reader, lost, twice, whole>>

\* The channel has closed or the token is cancelled: the buffer is flushed,
\* once, and the open interval is not recorded.
StopStage ==
    /\ stage.phase = "receiving"
    /\ stage' = [stage EXCEPT !.phase = IF @ = "receiving" THEN "stopping" ELSE @]
    /\ UNCHANGED <<clock, meters, rows, redis, publisher, reader, left, history>>

InMemory == stage.open.images + MapThenSumSet(LAMBDA i : stage.buffer[i].images, DOMAIN stage.buffer)
InTable  == MapThenSumSet(LAMBDA i : rows[i].images, DOMAIN rows)

Down == [NewStage EXCEPT !.phase = "down", !.lastLog = 0, !.since = 0, !.lastFlush = 0]

\* A successful append empties the buffer.
Flushed == [stage EXCEPT !.buffer = <<>>, !.lastFlush = clock, !.phase = "receiving"]

\* Faulty: the buffer is emptied whatever came of the append.
ForgetBatch == [stage EXCEPT !.buffer = <<>>, !.phase = "receiving"]

\* A failed one keeps it for the next flush.
KeepBatch == [stage EXCEPT !.phase = "receiving"]

WriteBatch ==
    /\ stage.phase = "flushing"
    /\ rows' = rows \o stage.buffer
    /\ stage' = Flushed
    /\ UNCHANGED <<clock, meters, redis, publisher, reader, left, history>>

\* The append fails, perhaps after the rows were committed.
WriteBatchFails(committed) ==
    /\ stage.phase = "flushing" /\ Left("faults")
    /\ rows' = IF committed THEN rows \o stage.buffer ELSE rows
    /\ twice' = IF committed THEN twice + InMemory - stage.open.images ELSE twice
    /\ stage' = KeepBatch
    /\ Spend("faults")
    /\ UNCHANGED <<clock, meters, redis, publisher, reader, told, lost, whole>>

\* The last flush, of an empty buffer too, and then the process is gone.
WriteLastBatch ==
    /\ stage.phase = "stopping"
    /\ rows' = rows \o stage.buffer
    /\ lost' = lost + stage.open.images
    /\ stage' = Down /\ meters' = NoCounts
    /\ UNCHANGED <<clock, redis, publisher, reader, left, told, twice, whole>>

\* A crash, or a last flush that fails.
Crash ==
    /\ stage.phase # "down" /\ Left("faults")
    /\ lost' = lost + InMemory
    /\ stage' = Down /\ meters' = NoCounts
    /\ Spend("faults")
    /\ UNCHANGED <<clock, rows, redis, publisher, reader, told, twice, whole>>

\* A pruner starts: with an opened and validated store.
Start ==
    /\ stage.phase = "down"
    /\ stage' = NewStage
    /\ UNCHANGED <<clock, meters, rows, redis, publisher, reader, left, history>>

----------------------------------------------------------------------------
(* The publisher's cycle, its probes done.                                 *)

\* Faulty: the rows whose interval ends in the window.
EndsInWindow(row, start, end) == start <= row.end /\ row.end < end

\* prune_stats_for_interval: the rows whose interval starts in the window.
InWindow(row, start, end) == start <= row.start /\ row.start < end

Examined(start, end) ==
    MapThenSumSet(LAMBDA i : rows[i].images, {i \in DOMAIN rows : InWindow(rows[i], start, end)})

Compute(entries) ==
    /\ cycle = None /\ Left("cycles")
    /\ cycle' = [phase |-> "checked", pub |-> started + 1, at |-> clock, entries |-> entries,
                 examined |-> 0, until |-> 0]
    /\ started' = started + 1
    /\ Spend("cycles")
    /\ UNCHANGED <<clock, pruner, rows, redis, reader, history>>

Examine ==
    /\ cycle # None /\ cycle.phase = "checked"
    /\ cycle' = [cycle EXCEPT !.phase = "counted", !.until = clock,
                               !.examined = Examined(cycle.at - Window, cycle.at)]
    /\ UNCHANGED <<clock, pruner, rows, redis, started, reader, left, history>>

\* The swap; an empty list is an absent one.
Replace ==
    /\ cycle # None /\ cycle.phase = "counted"
    /\ list' = [pub |-> cycle.pub, entries |-> cycle.entries]
    /\ cycle' = [cycle EXCEPT !.phase = "replaced"]
    /\ UNCHANGED <<clock, pruner, rows, stamp, stats, started, reader, left, history>>

SetRefreshedAt ==
    /\ cycle # None /\ cycle.phase = "replaced"
    /\ stamp' = cycle.at
    /\ cycle' = [cycle EXCEPT !.phase = "stamped"]
    /\ UNCHANGED <<clock, pruner, rows, list, stats, started, reader, left, history>>

Live(entries) == SelectSeq(entries, LAMBDA e : e.live)

PredictNextMatch(at, start, count) ==
    IF count = 0 \/ at <= start THEN None
    ELSE [q \in DOMAIN Quantile |-> Milli * at + (Quantile[q] * (at - start)) \div count]

ListStatistics ==
    LET start == cycle.at - Window
        exists == Cardinality({i \in DOMAIN cycle.entries : cycle.entries[i].live})
    IN  [pub |-> cycle.pub, start |-> start, end |-> cycle.at, until |-> cycle.until,
         examined |-> cycle.examined, found |-> Len(cycle.entries), exists |-> exists,
         prediction |-> PredictNextMatch(cycle.at, start, exists)]

WriteStatistics ==
    /\ cycle # None /\ cycle.phase = "stamped"
    /\ stats' = ListStatistics
    /\ whole' = cycle.pub
    /\ cycle' = None
    /\ UNCHANGED <<clock, pruner, rows, list, stamp, started, reader, left, told, lost, twice>>

\* The store or redis fails, or the process dies: what has been written
\* stays, and the gate, which is not moved, lets the next cycle try again.
CycleFails ==
    /\ cycle # None /\ Left("faults")
    /\ cycle' = None
    /\ Spend("faults")
    /\ UNCHANGED <<clock, pruner, rows, redis, started, reader, history>>

----------------------------------------------------------------------------
(* skeet-feed.                                                             *)

\* Items are dealt round-robin into the columns, and the columns laid end to
\* end.
BiasTopByColumns(items) ==
    FlattenSeq([c \in 1 .. Columns |->
        [k \in 1 .. ((Len(items) - c) \div Columns) + 1 |-> items[c + (k - 1) * Columns]]])

StatisticsBanner(st) == [examined |-> st.examined, exists |-> st.exists, window |-> st.end - st.start]

\* Faulty: the wait is counted from the time of publication.
AsPublished(st) == st.prediction

\* It is counted from the time of rendering.
BuildNextArrival(st) ==
    IF st.prediction = None THEN None
    ELSE [q \in DOMAIN Quantile |-> Milli * clock + st.prediction[q] - Milli * st.end]

\* Faulty: the statistics are read with the catalog.
Early == stats

Later == None

\* A request begins with the catalog, over a connection of its own.
AskHome ==
    /\ visit = None /\ Left("visits")
    /\ visit' = [phase |-> "asked", stats |-> Later]
    /\ Spend("visits")
    /\ UNCHANGED <<clock, pruner, rows, redis, publisher, answer, history>>

\* Over the next, the list and its time in one round trip.  What is gone from
\* Bluesky is not shown.
ReadList ==
    /\ visit # None /\ visit.phase = "asked"
    /\ visit' = [phase |-> "listed", entries |-> Live(list.entries), at |-> stamp,
                 stats |-> visit.stats, done |-> whole]
    /\ UNCHANGED <<clock, pruner, rows, redis, publisher, answer, left, history>>

\* Over the last, the statistics; then the page is rendered.
AnswerHome ==
    LET st == IF visit.stats = None THEN stats ELSE visit.stats
    IN  /\ visit # None /\ visit.phase = "listed"
        /\ answer' = [kind |-> "home", cards |-> BiasTopByColumns(visit.entries),
                      modified |-> visit.at, done |-> visit.done, rendered |-> clock,
                      pub     |-> IF st = None THEN 0 ELSE st.pub,
                      banner  |-> IF st = None THEN None ELSE StatisticsBanner(st),
                      arrival |-> IF st = None THEN None ELSE BuildNextArrival(st)]
        /\ visit' = None
        /\ UNCHANGED <<clock, pruner, rows, redis, publisher, left, history>>

\* A read fails more often than it is retried: 500.
VisitFails ==
    /\ visit # None /\ Left("faults")
    /\ visit' = None /\ answer' = [kind |-> "error"]
    /\ Spend("faults")
    /\ UNCHANGED <<clock, pruner, rows, redis, publisher, history>>

Distinct(posts) == FoldLeft(LAMBDA seen, p : IF p \in ToSet(seen) THEN seen ELSE Append(seen, p),
                            <<>>, posts)

AtMost(n, posts) == SubSeq(posts, 1, IF Len(posts) < n THEN Len(posts) ELSE n)

\* getFeedSkeleton: the live posts, each once, in the order of the list.
GetFeedSkeleton(known, limit) ==
    LET posts == Distinct([i \in DOMAIN Live(list.entries) |-> Live(list.entries)[i].post])
    IN  /\ visit = None /\ Left("visits")
        /\ answer' = IF ~known THEN [kind |-> "unknown"]
                     ELSE [kind |-> "skeleton", modified |-> stamp,
                           posts |-> AtMost(MaxEntries, IF limit = None THEN posts ELSE AtMost(limit, posts))]
        /\ Spend("visits")
        /\ UNCHANGED <<clock, pruner, rows, redis, publisher, visit, history>>

----------------------------------------------------------------------------
Pass ==
    /\ Left("ticks")
    /\ clock' = clock + 1
    /\ told' = Append(told, 0)
    /\ Spend("ticks")
    /\ UNCHANGED <<pruner, rows, redis, publisher, reader, lost, twice, whole>>

Init ==
    /\ clock = 0
    /\ stage = NewStage /\ meters = NoCounts
    /\ rows = <<>>
    /\ list = [pub |-> 0, entries |-> <<>>] /\ stamp = None /\ stats = None
    /\ cycle = None /\ visit = None /\ answer = [kind |-> "none"]
    /\ left \in Traffic /\ started = 0
    /\ told = <<0>>
    /\ lost = 0 /\ twice = 0 /\ whole = 0

Next ==
    \/ Pass
    \/ \E m \in Message : Record(m)
    \/ StopStage \/ WriteBatch \/ WriteLastBatch \/ Crash \/ Start
    \/ \E committed \in BOOLEAN : WriteBatchFails(committed)
    \/ \E entries \in Lists : Compute(entries)
    \/ Examine \/ Replace \/ SetRefreshedAt \/ WriteStatistics \/ CycleFails
    \/ AskHome \/ ReadList \/ AnswerHome \/ VisitFails
    \/ \E known \in BOOLEAN, limit \in {None, 1, MaxEntries + 1} : GetFeedSkeleton(known, limit)

Spec == Init /\ [][Next]_vars
----------------------------------------------------------------------------
(* Properties                                                              *)

Sum(f, S) == MapThenSumSet(LAMBDA i : f[i], S)

\* Every image the stage was told of is, once, in the open interval, in the
\* buffer or in the table, but for what a crash or a shutdown took and what
\* an append that failed after its commit wrote again; and what the pruner
\* exports is what it had tallied at its last log line
\* (statistics_persister.rs:73-74, metrics.rs:91-92).
CountsAreKept ==
    /\ Sum(told, DOMAIN told) + twice = InTable + InMemory + lost
    /\ meters = stage.emitted
    /\ \A k \in DOMAIN meters : meters[k] <= stage.total[k]

\* A published count of examined images is of images seen between the start
\* of the list's window and the time the publisher asked, whatever was
\* batched, retried or written late (list_statistics.rs:13-18).
ExaminedWasSeen ==
    stats # None =>
        stats.examined <= Sum(told, {t \in DOMAIN told : stats.start < t /\ t <= stats.until + 1}) + twice

\* The numbers on a page are not older than the last publication that was
\* complete when the page read its list, and its countdown does not start
\* already expired, however late the page is served (handlers.rs:356-360).
NumbersAreFresh ==
    answer.kind = "home" =>
        /\ answer.done <= answer.pub
        /\ answer.arrival # None =>
            \A q \in DOMAIN Quantile : answer.arrival[q] > Milli * answer.rendered

\* The match count always agrees with the grid (handlers.rs:379-380).
BannerAgreesWithGrid ==
    answer.kind = "home" /\ answer.banner # None => answer.banner.exists = Len(answer.cards)
================================================================================
