-------------------------------- MODULE Storage --------------------------------
(***************************************************************************)
(* The store as its processes open and keep it (skeet-store's open.rs,     *)
(* schema.rs, maintenance.rs, health.rs): each creates, opens and indexes  *)
(* the tables that are missing, several at once on a store nobody has      *)
(* opened before; the optimise job compacts them; and                      *)
(* abort-multipart-uploads sweeps what crashed writers left in the bucket. *)
(***************************************************************************)
EXTENDS Integers, Sequences, SequencesExt, FiniteSets, FiniteSetsExt

CONSTANTS
    Process,
    Tables,         \* a sequence, in the order of TableName
    Indexed,        \* the columns to index of each
    SmallFragments, \* how many small fragments are too many
    PageSize,       \* uploads on a page of a listing
    MaxUploads, MaxRows, MaxFaults, MaxSweeps,  \* bounds
    None

\* What there is of a table that exists: its rows, its small fragments, and of
\* each index how many of the rows it covers.
Column == UNION {Indexed[t] : t \in DOMAIN Indexed}
Existing == [rows : Nat, small : Nat, covered : UNION {[columns -> Nat] : columns \in SUBSET Column}]

StorageConstants ==
    /\ Tables \in Seq(DOMAIN Indexed) /\ ToSet(Tables) = DOMAIN Indexed
    /\ SmallFragments \in Nat /\ PageSize \in Nat \ {0}
    /\ None \notin Existing

VARIABLES
    table,      \* what there is of each table
    proc,       \* what each process does
    uploads,    \* multipart uploads under way or left behind, by number
    next,       \* the number of the next one
    sweep,      \* a run of abort-multipart-uploads
    faults, sweeps

vars == <<table, proc, uploads, next, sweep, faults, sweeps>>

Down == [at |-> "down"]
NoSweep == [at |-> "idle"]

----------------------------------------------------------------------------
(* Opening.                                                                *)

Unchanged == UNCHANGED <<uploads, next, sweep, sweeps>>

\* The names of the tables are listed once.
Open(p) ==
    /\ proc[p] = Down
    /\ proc' = [proc EXCEPT ![p] = [at |-> "tables", todo |-> Tables,
                                    existing |-> {t \in ToSet(Tables) : table[t] # None}]]
    /\ UNCHANGED <<table, faults>> /\ Unchanged

\* Then table by table: one that was not there is created, which fails if it
\* is by now, ...
CreateTable(p) ==
    /\ proc[p].at = "tables" /\ proc[p].todo # <<>>
    /\ LET t == Head(proc[p].todo)
           found == [proc[p] EXCEPT !.at = "indices"]
       IN  IF t \in proc[p].existing THEN proc' = [proc EXCEPT ![p] = found] /\ UNCHANGED table
           ELSE IF table[t] # None THEN proc' = [proc EXCEPT ![p] = Down] /\ UNCHANGED table
           ELSE /\ table' = [table EXCEPT ![t] = [rows |-> 0, small |-> 0, covered |-> <<>>]]
                /\ proc' = [proc EXCEPT ![p] = found]
    /\ UNCHANGED faults /\ Unchanged

\* The indices of a table, each with how many of the rows it covers.
Indices(t) == DOMAIN table[t].covered

\* Faulty: a table that was there has its indices.
MissingOfNew(p, t) == IF t \in proc[p].existing THEN {} ELSE Indexed[t] \ Indices(t)

Missing(p, t) == Indexed[t] \ Indices(t)

\* ... and whatever index it lacks is made, one by one; one that has been made
\* meanwhile is made again.
EnsureIndices(p) ==
    /\ proc[p].at = "indices"
    /\ proc' = [proc EXCEPT ![p] = [at |-> "indexing", todo |-> @.todo, existing |-> @.existing,
                                    missing |-> Missing(p, Head(@.todo))]]
    /\ UNCHANGED <<table, faults>> /\ Unchanged

CreateIndex(p) ==
    /\ proc[p].at = "indexing" /\ proc[p].missing # {}
    /\ \E column \in proc[p].missing :
        /\ LET t == Head(proc[p].todo)
           IN  table' = [table EXCEPT ![t].covered = [c \in {column} \cup DOMAIN @ |->
                                                        IF c = column THEN table[t].rows ELSE @[c]]]
        /\ proc' = [proc EXCEPT ![p].missing = @ \ {column}]
    /\ UNCHANGED faults /\ Unchanged

Opened(p) ==
    /\ \/ /\ proc[p].at = "indexing" /\ proc[p].missing = {}
          /\ proc' = [proc EXCEPT ![p] = [at |-> "tables", todo |-> Tail(@.todo), existing |-> @.existing]]
       \/ /\ proc[p].at = "tables" /\ proc[p].todo = <<>>
          /\ proc' = [proc EXCEPT ![p] = [at |-> "open"]]
    /\ UNCHANGED <<table, faults>> /\ Unchanged

----------------------------------------------------------------------------
(* Writing and maintenance.                                                *)

\* A row, whose image may take a multipart upload first.
Insert(p, t) ==
    /\ proc[p].at \in {"open", "uploading"} /\ table[t].rows < MaxRows
    /\ table' = [table EXCEPT ![t].rows = @ + 1, ![t].small = @ + 1]
    /\ proc' = [proc EXCEPT ![p] = [at |-> "open"]]
    /\ IF proc[p].at = "uploading"
       THEN proc[p].upload \in uploads /\ uploads' = uploads \ {proc[p].upload}
       ELSE UNCHANGED uploads
    /\ UNCHANGED <<next, sweep, faults, sweeps>>

BeginUpload(p) ==
    /\ proc[p].at = "open" /\ next < MaxUploads
    /\ uploads' = uploads \cup {next} /\ next' = next + 1
    /\ proc' = [proc EXCEPT ![p] = [at |-> "uploading", upload |-> next]]
    /\ UNCHANGED <<table, sweep, faults, sweeps>>

\* The upload of a writer was swept away: its write fails.
LoseUpload(p) ==
    /\ proc[p].at = "uploading" /\ proc[p].upload \notin uploads
    /\ proc' = [proc EXCEPT ![p] = [at |-> "open"]]
    /\ UNCHANGED <<table, faults>> /\ Unchanged

NeedsCompaction(t) == table[t].small > SmallFragments
NeedsIndexRebuild(t) ==
    \E column \in Indices(t) : 10 * (table[t].rows - table[t].covered[column]) > table[t].rows
NeedsAction == \E t \in ToSet(Tables) : NeedsCompaction(t) \/ NeedsIndexRebuild(t)

\* storage_health, and every table in turn if one needs it.
Optimise(p) ==
    /\ proc[p].at = "open"
    /\ proc' = [proc EXCEPT ![p] = [at |-> "pruning", todo |-> IF NeedsAction THEN Tables ELSE <<>>]]
    /\ UNCHANGED <<table, faults>> /\ Unchanged

CompactAndReindex(p) ==
    /\ proc[p].at = "pruning" /\ proc[p].todo # <<>>
    /\ table' = [table EXCEPT ![Head(proc[p].todo)].small = Min({@, 1}),
                              ![Head(proc[p].todo)].covered = [c \in DOMAIN @ |-> table[Head(proc[p].todo)].rows]]
    /\ proc' = [proc EXCEPT ![p].todo = Tail(@)]
    /\ UNCHANGED faults /\ Unchanged

PruneOldVersions(p) ==
    /\ proc[p].at = "pruning" /\ proc[p].todo = <<>>
    /\ proc' = [proc EXCEPT ![p] = [at |-> "open"]]
    /\ UNCHANGED <<table, faults>> /\ Unchanged

Crash(p) ==
    /\ proc[p] # Down /\ faults < MaxFaults
    /\ faults' = faults + 1
    /\ proc' = [proc EXCEPT ![p] = Down]
    /\ UNCHANGED table /\ Unchanged

----------------------------------------------------------------------------
(* abort-multipart-uploads.                                                *)

\* With --abort; without, it only counts.
BeginSweep ==
    /\ sweep.at = "idle" /\ sweeps < MaxSweeps
    /\ sweeps' = sweeps + 1
    /\ sweep' = [at |-> "listing", marker |-> -1, there |-> uploads, failed |-> {}]
    /\ UNCHANGED <<table, proc, uploads, next, faults>>

\* Faulty: one page is all.
Alone(page, rest) == FALSE

Truncated(page, rest) == rest # page

\* The uploads after the marker; the marker is the last of a page.
ListPage ==
    /\ sweep.at = "listing"
    /\ LET rest == {u \in uploads : u > sweep.marker}
           page == {u \in rest : Cardinality({v \in rest : v < u}) < PageSize}
       IN  sweep' = IF page = {} THEN [sweep EXCEPT !.at = "done"]
                    ELSE [at |-> "aborting", page |-> page, marker |-> Max(page),
                          more |-> Truncated(page, rest), there |-> sweep.there, failed |-> sweep.failed]
    /\ UNCHANGED <<table, proc, uploads, next, faults, sweeps>>

\* An abort that fails is logged.
AbortUpload ==
    /\ sweep.at = "aborting"
    /\ \E u \in sweep.page :
        LET left == [sweep EXCEPT !.page = @ \ {u}]
        IN  \/ uploads' = uploads \ {u} /\ sweep' = left /\ UNCHANGED faults
            \/ /\ faults < MaxFaults /\ faults' = faults + 1
               /\ sweep' = [left EXCEPT !.failed = @ \cup {u}] /\ UNCHANGED uploads
    /\ UNCHANGED <<table, proc, next, sweeps>>

PageDone ==
    /\ sweep.at = "aborting" /\ sweep.page = {}
    /\ sweep' = [sweep EXCEPT !.at = IF sweep.more THEN "listing" ELSE "done"]
    /\ UNCHANGED <<table, proc, uploads, next, faults, sweeps>>

EndSweep ==
    /\ sweep.at = "done" /\ sweep' = NoSweep
    /\ UNCHANGED <<table, proc, uploads, next, faults, sweeps>>

----------------------------------------------------------------------------
Init ==
    /\ table = [t \in ToSet(Tables) |-> None] /\ proc = [p \in Process |-> Down]
    /\ uploads = {} /\ next = 0 /\ sweep = NoSweep
    /\ faults = 0 /\ sweeps = 0

Next ==
    \/ \E p \in Process :
        \/ Open(p) \/ CreateTable(p) \/ EnsureIndices(p) \/ CreateIndex(p) \/ Opened(p)
        \/ BeginUpload(p) \/ LoseUpload(p) \/ Optimise(p) \/ CompactAndReindex(p)
        \/ PruneOldVersions(p) \/ Crash(p)
        \/ \E t \in ToSet(Tables) : Insert(p, t)
    \/ BeginSweep \/ ListPage \/ AbortUpload \/ PageDone \/ EndSweep

Spec == Init /\ [][Next]_vars
----------------------------------------------------------------------------
(* Properties                                                              *)

\* Whoever has opened the store finds every table with every index of its
\* spec, also when several opened it first and some crashed in between
\* (open.rs:46-48).
OpenedIsComplete ==
    \A p \in Process : proc[p].at \in {"open", "uploading", "pruning"} =>
        \A t \in ToSet(Tables) : table[t] # None /\ Indices(t) = Indexed[t]

\* A sweep that is done has left nothing that was there when it began but
\* what it reported as failed, while writers begin and end uploads
\* (abort-multipart-uploads.rs:80-133).
SweptIsGone ==
    sweep.at = "done" => uploads \cap sweep.there \subseteq sweep.failed
===============================================================================
