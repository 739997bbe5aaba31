-------------------------------- MODULE MCTools --------------------------------
(* The jobs that run beside the services, one kind in a behaviour: training  *)
(* with its registry, on two images of a visible band and two of a hidden    *)
(* one, so that each side of a split has one of either kind; the exporters;  *)
(* the processes that open, write and maintain the store; the batches of     *)
(* live-refine and what they count; and the prices of the models.            *)
EXTENDS ModelRegistry

CONSTANTS
    a1, a2, b1, b2,
    Bucket, OddBucket, BucketsOnPage, CostLine, Lookbacks, Lag, StartTime, MaxTime, MaxOperations,
    Process, Tables, Indexed, SmallFragments, PageSize, MaxUploads, MaxRows, MaxSweeps,
    MaxFaults, Nothing,
    Scorable, Concurrency, MaxBatches, MaxRestarts,
    Priced, Labels, Amounts, Usages, MaxStamp

VARIABLES
    machine,
    now, operations, buckets, costs, job, store, runs,
    table, proc, uploads, next, sweep, sweeps,
    faults,
    phase, open, calls, tick, totals, meters, written, metered, ended, batches,
    file, baked, stamp, fetched, quoted, rows

Exports == INSTANCE Exporters WITH None <- Nothing
Lake == INSTANCE Storage WITH None <- Nothing
Batch == INSTANCE Scoring WITH Image <- Scorable
Costs == INSTANCE Prices WITH Model <- Priced, Label <- Labels, Price <- Amounts, Usage <- Usages,
                              Image <- Scorable, MaxClock <- MaxStamp, clock <- stamp

ASSUME Exports!ExportersConstants /\ Lake!StorageConstants
ASSUME Batch!ScoringConstants /\ Costs!PricesConstants
ASSUME SharesTruncate(63)

MCItems == [i \in {a1, a2, b1, b2} |-> IF i \in {b1, b2} THEN "Low" ELSE "HighQuality"]
Half == [num |-> 1, den |-> 2]
OnePercent == [num |-> 1, den |-> 100]
ImageSymmetry == Permutations({a1, a2}) \cup Permutations({b1, b2})

Backs == {[from |-> 5, to |-> 2], [from |-> 5, to |-> 1]}

SomeTables == <<"images", "validate">>
SomeIndices == [images |-> {"image_id", "discovered_at"}, validate |-> {}]

TwoAmounts == {[input |-> 1, output |-> 1], [input |-> 2, output |-> 3]}
OneUsage == {[input |-> 1, output |-> 2]}

exportVars == <<now, operations, buckets, costs, job, store, runs>>
storeVars == <<table, proc, uploads, next, sweep, sweeps>>
batchVars == <<phase, open, calls, tick, totals, meters, written, metered, ended, batches>>
priceVars == <<file, baked, stamp, fetched, quoted, rows>>

\* A machine that does not run rests in one of its initial states.
ToolsInit ==
    /\ machine \in {"training", "exporters", "store", "batches", "prices"}
    /\ Init /\ Exports!Init /\ Lake!Init /\ Batch!Init /\ Costs!Init
    /\ machine = "exporters" \/ (costs = <<>> /\ \A k \in DOMAIN operations : operations[k] = 0)

ToolsNext ==
    /\ UNCHANGED machine
    /\ \/ /\ machine = "training"  /\ Next
          /\ UNCHANGED <<exportVars, storeVars, faults, batchVars, priceVars>>
       \/ /\ machine = "exporters" /\ Exports!Next
          /\ UNCHANGED <<vars, storeVars, batchVars, priceVars>>
       \/ /\ machine = "store"     /\ Lake!Next
          /\ UNCHANGED <<vars, exportVars, batchVars, priceVars>>
       \/ /\ machine = "batches"   /\ Batch!Next
          /\ UNCHANGED <<vars, exportVars, storeVars, faults, priceVars>>
       \/ /\ machine = "prices"    /\ Costs!Next
          /\ UNCHANGED <<vars, exportVars, storeVars, faults, batchVars>>

ToolsSpec ==
    ToolsInit /\ [][ToolsNext]_<<vars, machine, exportVars, storeVars, faults, batchVars, priceVars>>

----------------------------------------------------------------------------
\* Exporters: no sample has more than its minute, and the minutes of a run that
\* succeeded are in the store (sync_operations.rs:46-92).
OperationsAreCounted == Exports!OperationsAreCounted

\* Exporters: a run that reports success has written all there was
\* (sync_storage.rs:38-70, sync_costs.rs:69-107).
SuccessMeansAllOfIt == Exports!SuccessMeansAllOfIt

\* Storage: an opened store has every table and index of its spec
\* (open.rs:46-48).
OpenedIsComplete == Lake!OpenedIsComplete

\* Storage: a sweep leaves nothing it saw when it began but its failures
\* (abort-multipart-uploads.rs:80-133).
SweptIsGone == Lake!SweptIsGone
================================================================================
