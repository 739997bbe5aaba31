------------------------------- MODULE Exporters -------------------------------
(***************************************************************************)
(* The three jobs that copy what other services counted into the metrics   *)
(* store (cloudflare-exporter's sync_operations and sync_storage,          *)
(* openai-exporter's sync_costs).  Cron starts them, one of a kind at a    *)
(* time; each run fetches, pushes and ends, and its first error ends it.   *)
(*                                                                         *)
(* A tick is half a minute, so that a run may begin in the middle of the   *)
(* minutes of another and its last window may be cut short.                *)
(* The metrics store keeps one value per series and time; whether a second *)
(* one replaces it or is dropped is its own choice.                        *)
(***************************************************************************)
EXTENDS Integers, Sequences, SequencesExt, FiniteSets, FiniteSetsExt, Functions

CONSTANTS
    Bucket, OddBucket,  \* those of OddBucket have names BucketName refuses
    BucketsOnPage,      \* on the first page of the listing, which is the only one read
    CostLine,           \* line items and projects as OpenAI groups them
    Lookbacks,          \* what --from and --to are, counted back from the start of a run
    Lag,                \* for how long Cloudflare may not yet count an operation
    StartTime, MaxTime, MaxOperations, MaxRuns, MaxFaults,   \* bounds
    None

ExportersConstants ==
    /\ {BucketsOnPage, Lag, StartTime, MaxTime, MaxOperations, MaxRuns, MaxFaults} \subseteq Nat
    /\ StartTime <= MaxTime
    /\ Lookbacks \subseteq [from : Nat, to : Nat] /\ \A l \in Lookbacks : l.from > l.to
    /\ None \notin {"operations", "storage", "costs"}

VARIABLES
    now,
    operations,     \* how many operations each tick and bucket had
    buckets,        \* the buckets that exist
    costs,          \* what each line cost yesterday
    job,            \* the run under way
    store,          \* the metrics store: values by series and time
    runs, faults    \* what has been run (with how it ended), what has failed

world == <<now, operations, buckets, costs>>
vars == <<world, job, store, runs, faults>>

Minute == 2
Hour == 120
NoJob == [kind |-> None]

----------------------------------------------------------------------------
Start(fresh) ==
    /\ job = NoJob /\ Len(runs) < MaxRuns
    /\ job' = fresh
    /\ UNCHANGED <<world, store, runs, faults>>

\* Success or failure is what SyncMetrics counts.
End(outcome) == job' = NoJob /\ runs' = Append(runs, [job |-> job, outcome |-> outcome])

\* The store takes samples; of two for one series and time it keeps either.
Take(samples) ==
    \E kept \in SUBSET {k \in DOMAIN samples \cap DOMAIN store : samples[k] # store[k]} :
        store' = [k \in DOMAIN store \cup DOMAIN samples |->
                    IF k \in kept \/ k \notin DOMAIN samples THEN store[k] ELSE samples[k]]

----------------------------------------------------------------------------
(* sync_operations.                                                        *)

\* The range cut into minutes, the last of which may be shorter.
OneMinuteWindows(from, to) ==
    [n \in 1 .. ((to - from + Minute - 1) \div Minute) |->
        [from |-> from + (n - 1) * Minute, to |-> Min({from + n * Minute, to})]]

\* Faulty: a sample is stamped when it is pushed.
PushTime(window) == 2 * now

\* The middle of a window, in halves of a tick.
Timestamp(window) == window.from + window.to

StartOperations ==
    \E back \in Lookbacks :
        /\ now >= back.from
        /\ LET from == now - back.from
               to   == now - back.to
           IN  Start([kind |-> "operations", start |-> now, from |-> from, to |-> to,
                      samples |-> None, windows |-> OneMinuteWindows(from, to)])

Happened(b, ticks) == MapThenSumSet(LAMBDA t : operations[<<t, b>>], ticks)

\* datetime_geq and datetime_lt.
Sum(b, window) == Happened(b, window.from .. window.to - 1)

\* A bucket without operations has no group.  A name that is refused fails the
\* run.
FetchOperations ==
    /\ job.kind = "operations" /\ job.samples = None
    /\ IF job.windows = <<>> THEN End("success")
       ELSE LET window == Head(job.windows)
                active == {b \in Bucket : Sum(b, window) > 0}
            IN  IF active \cap OddBucket # {} THEN End("failure")
                ELSE /\ job' = [job EXCEPT !.samples =
                        [k \in {<<"operations", b, Timestamp(window)>> : b \in active} |-> Sum(k[2], window)]]
                     /\ UNCHANGED runs
    /\ UNCHANGED <<world, store, faults>>

PushOperations ==
    /\ job.kind = "operations" /\ job.samples # None
    /\ Take(job.samples)
    /\ job' = [job EXCEPT !.samples = None, !.windows = Tail(@)]
    /\ UNCHANGED <<world, runs, faults>>

----------------------------------------------------------------------------
(* sync_storage: the list, then each bucket, then one push.  Of the        *)
(* listing only the first page is read.                                    *)

StartStorage ==
    Start([kind |-> "storage", start |-> now, listed |-> None, left |-> {}, usage |-> <<>>])

ListBuckets ==
    /\ job.kind = "storage" /\ job.listed = None
    /\ \E page \in kSubset(Min({BucketsOnPage, Cardinality(buckets)}), buckets) :
        IF page \cap OddBucket # {} THEN End("failure")
        ELSE job' = [job EXCEPT !.listed = page, !.left = page] /\ UNCHANGED runs
    /\ UNCHANGED <<world, store, faults>>

FetchUsage ==
    /\ job.kind = "storage" /\ job.listed # None
    /\ \E b \in job.left :
        IF b \in buckets
        THEN /\ job' = [job EXCEPT !.left = @ \ {b},
                    !.usage = [k \in DOMAIN @ \cup {b} |-> IF k = b THEN now ELSE @[k]]]
             /\ UNCHANGED runs
        ELSE End("failure")
    /\ UNCHANGED <<world, store, faults>>

\* Bytes and objects of each bucket, stamped alike.
Gauges == [k \in {"bytes", "objects"} \X (DOMAIN job.usage) \X {now} |-> job.usage[k[2]]]

PushStorage ==
    /\ job.kind = "storage" /\ job.listed # None /\ job.left = {}
    /\ Take(Gauges) /\ End("success")
    /\ UNCHANGED <<world, faults>>

----------------------------------------------------------------------------
(* sync_costs: yesterday, a day's bucket with pages of entries.            *)

StartCosts == Start([kind |-> "costs", start |-> now, entries |-> <<>>, more |-> TRUE])

\* Faulty: what a page says about further pages is ignored.
NoMore(rest) == FALSE

HasMore(rest) == rest # {}

FetchPage ==
    /\ job.kind = "costs" /\ job.more
    /\ LET rest == DOMAIN costs \ DOMAIN job.entries
       IN  \E page \in SUBSET rest :
            /\ page # {} \/ rest = {}
            /\ job' = [job EXCEPT !.entries = [c \in DOMAIN @ \cup page |->
                                                IF c \in DOMAIN @ THEN @[c] ELSE costs[c]],
                                  !.more = HasMore(rest \ page)]
    /\ UNCHANGED <<world, store, runs, faults>>

\* Without entries there is no push.  The stamp is the hour's start.
Costs == [k \in {"cost"} \X (DOMAIN job.entries) \X {now - (now % Hour)} |-> job.entries[k[2]]]

PushCosts ==
    /\ job.kind = "costs" /\ ~job.more
    /\ Take(Costs) /\ End("success")
    /\ UNCHANGED <<world, faults>>

\* A request fails, or the answer to a push that was taken gets lost.
Fail ==
    /\ job # NoJob /\ faults < MaxFaults
    /\ faults' = faults + 1
    /\ \/ UNCHANGED store
       \/ job.kind = "operations" /\ job.samples # None /\ Take(job.samples)
       \/ job.kind = "storage" /\ job.listed # None /\ job.left = {} /\ Take(Gauges)
       \/ job.kind = "costs" /\ ~job.more /\ Take(Costs)
    /\ End("failure")
    /\ UNCHANGED world

----------------------------------------------------------------------------
(* The world.                                                              *)

Tick ==
    /\ now < MaxTime /\ now' = now + 1
    /\ UNCHANGED <<operations, buckets, costs, job, store, runs, faults>>

\* Cloudflare counts an operation when it happens or up to Lag later.
Operation ==
    /\ FoldFunction(LAMBDA m, n : m + n, 0, operations) < MaxOperations
    /\ \E b \in Bucket, t \in (now - Lag) .. now :
        t >= 0 /\ operations' = [operations EXCEPT ![<<t, b>>] = @ + 1]
    /\ UNCHANGED <<now, buckets, costs, job, store, runs, faults>>

DropBucket ==
    /\ faults < MaxFaults /\ faults' = faults + 1
    /\ \E b \in buckets : buckets' = buckets \ {b}
    /\ UNCHANGED <<now, operations, costs, job, store, runs>>

----------------------------------------------------------------------------
Init ==
    /\ now = StartTime
    /\ \E counted \in kSubset(1, (0 .. StartTime) \X Bucket) \cup {{}} :
        operations = [k \in (0 .. MaxTime) \X Bucket |-> IF k \in counted THEN 1 ELSE 0]
    /\ buckets = Bucket /\ costs \in UNION {[lines -> {1}] : lines \in SUBSET CostLine}
    /\ job = NoJob /\ store = <<>> /\ runs = <<>> /\ faults = 0

Next ==
    \/ StartOperations \/ FetchOperations \/ PushOperations
    \/ StartStorage \/ ListBuckets \/ FetchUsage \/ PushStorage
    \/ StartCosts \/ FetchPage \/ PushCosts
    \/ Fail \/ Tick \/ Operation \/ DropBucket

Spec == Init /\ [][Next]_vars

----------------------------------------------------------------------------
(* Properties                                                              *)

Succeeded == {n \in DOMAIN runs : runs[n].outcome = "success"}
Of(kind) == {n \in Succeeded : runs[n].job.kind = kind}

Stored(k) == IF k \in DOMAIN store THEN store[k] ELSE 0

\* The ticks of the minute, or the rest of one, whose middle this is.
Around(middle) == {t \in 0 .. MaxTime : 2 * t + 1 \in middle - 1 .. middle + 1}

\* Of a window the ticks that no late figure reaches any more when a run can
\* read it, which is as soon as it looks back to the window's end.
Firm(window) ==
    {t \in window.from .. window.to - 1 : \A l \in Lookbacks : t + Lag < window.to + l.to}

\* Every run may overlap others, start at a second of its own, read minutes
\* that are not complete, be repeated or fail half-way; whichever of two values
\* the store keeps, no sample has more than what happened in the minute around
\* its stamp, so that samples whose minutes do not meet count no operation
\* twice; and each minute of a run that succeeded has a sample in its middle
\* with at least what was firm (sync_operations.rs:46-92).
OperationsAreCounted ==
    /\ \A k \in DOMAIN store : k[1] = "operations" => store[k] <= Happened(k[2], Around(k[3]))
    /\ \A n \in Of("operations"), b \in Bucket :
        \A w \in Range(OneMinuteWindows(runs[n].job.from, runs[n].job.to)) :
            Happened(b, Firm(w)) <= Stored(<<"operations", b, w.from + w.to>>)

\* A run that reports success has written all there was, whatever came on
\* which page or went meanwhile: both gauges of each bucket on the page it
\* listed, at one time, and every line of the day's costs.
SuccessMeansAllOfIt ==
    /\ \A n \in Of("storage") : \E at \in runs[n].job.start .. now :
        \A b \in runs[n].job.listed, series \in {"bytes", "objects"} : <<series, b, at>> \in DOMAIN store
    /\ \A n \in Of("costs"), c \in DOMAIN costs : \E k \in DOMAIN store : k[1] = "cost" /\ k[2] = c
===============================================================================
