------------------------------ MODULE Refiner ------------------------------
(***************************************************************************)
(* live-refine (crates/skeet-refine): the single process that polls the    *)
(* images table, scores what has no score yet and remembers how far it     *)
(* got.  Two memories make a tick cheap, and each can lose an image:       *)
(*                                                                         *)
(*   gate       the images-table version of the last listing; a tick that  *)
(*              reads the same version does nothing at all;                *)
(*   watermark  the discovered_at below which a listing no longer looks.   *)
(*                                                                         *)
(* The images table is written by the pruner, whose image workers stamp    *)
(* discovered_at when they accept an image (Classify) and hand it over a   *)
(* channel to the save stage (Save), so rows need not arrive in the order  *)
(* of their stamps.  The maintenance job moves versions and no row         *)
(* (Compact).  No program of the repository deletes a row.                 *)
(***************************************************************************)
EXTENDS Integers, FiniteSets

CONSTANTS
    Image,          \* the content ids of images
    None,           \* Rust's Option::None
    MaxInFlight,    \* accepted images the pruner may hold before they are saved
    MaxClock,       \* bound: the last instant at which an image is accepted
    MaxVersion,     \* bound: the last version of the images table
    MaxRestarts,    \* bound: how often live-refine is restarted
    StoreFaults,    \* whether the pruner's exists() and add() may return errors
    ScorerFaults    \* whether an image may stay without a score after retries

ASSUME RefinerAssumption ==
    /\ None \notin Nat
    /\ MaxInFlight \in Nat
    /\ MaxClock \in Nat
    /\ MaxVersion \in Nat
    /\ MaxRestarts \in Nat
    /\ StoreFaults \in BOOLEAN
    /\ ScorerFaults \in BOOLEAN

VARIABLES
    \* the pruner and the store
    clock,          \* the time of day, as far as stamps can tell
    pending,        \* rows accepted and stamped, not yet handled by the save stage
    rows,           \* the images table; an id has several rows if exists() failed
    imagesVersion,  \* its version, which any write and any compaction moves
    scored,         \* the ids that have a row in the scores table
    \* live-refine
    stage,          \* where its loop stands
    seen,           \* the version read at the start of the tick
    gate,           \* images_gate: the version cached by the last listing
    watermark,      \* last_discovered_at
    listed,         \* the ids list_unscored_image_ids returned in this tick
    batch,          \* one row per listed id: Batch's discovered_at_by_id
    completed,      \* the ids of the batch that got a score
    restarts,
    \* history, read by properties only
    lastScan,       \* the images table as the last listing of this process saw it
    considered,     \* the rows at or above the watermark in some listing
    leftover,       \* the ids the last finished tick left without a score
    inOrder         \* each row was saved under a new id, with no older stamp than another

pruneVars   == <<clock, pending>>
storeVars   == <<rows, imagesVersion, scored>>
refineVars  == <<stage, seen, gate, watermark, listed, batch, completed, restarts>>
historyVars == <<lastScan, considered, leftover, inOrder>>
vars == <<pruneVars, storeVars, refineVars, historyVars>>

Row == [id : Image, at : Nat]
Stage == {"idle", "listing", "fetching", "scoring", "saving", "committing"}

IdsOf(S) == {r.id : r \in S}

TypeOK ==
    /\ clock \in Nat
    /\ pending \in SUBSET Row
    /\ rows \in SUBSET Row
    /\ imagesVersion \in Nat
    /\ scored \in SUBSET Image
    /\ stage \in Stage
    /\ seen \in Nat
    /\ gate \in Nat \cup {None}
    /\ watermark \in Nat \cup {None}
    /\ listed \in SUBSET Image
    /\ batch \in SUBSET Row
    /\ completed \in SUBSET Image
    /\ restarts \in Nat
    /\ lastScan \in SUBSET Row
    /\ considered \in SUBSET Row
    /\ leftover \in SUBSET Image
    /\ inOrder \in BOOLEAN

Init ==
    /\ clock = 0
    /\ pending = {}
    /\ rows = {}
    /\ imagesVersion = 0
    /\ scored = {}
    /\ stage = "idle"
    /\ seen = 0
    /\ gate = None
    /\ watermark = None
    /\ listed = {}
    /\ batch = {}
    /\ completed = {}
    /\ restarts = 0
    /\ lastScan = {}
    /\ considered = {}
    /\ leftover = {}
    /\ inOrder = TRUE

-----------------------------------------------------------------------------
(* The pruner and the maintenance job, as far as the images table shows.   *)

\* An image worker accepts image i and stamps the record DiscoveredAt::now().
Classify(i) ==
    /\ Cardinality(pending) < MaxInFlight
    /\ \E t \in {clock, clock + 1} :
          /\ t <= MaxClock
          /\ clock' = t
          /\ pending' = pending \cup {[id |-> i, at |-> t]}
    /\ UNCHANGED <<storeVars, refineVars, historyVars>>

\* The save stage appends the row: exists() answered false, or failed.
SaveAdds(r) ==
    /\ r \in pending
    /\ r.id \in IdsOf(rows) => StoreFaults
    /\ imagesVersion < MaxVersion
    /\ pending' = pending \ {r}
    /\ rows' = rows \cup {r}
    /\ imagesVersion' = imagesVersion + 1
    /\ inOrder' = (inOrder /\ \A q \in rows : q.id # r.id /\ q.at <= r.at)
    /\ UNCHANGED <<clock, scored, refineVars, lastScan, considered, leftover>>

\* The save stage drops the record: exists() answered true, or add() failed.
SaveSkips(r) ==
    /\ r \in pending
    /\ r.id \in IdsOf(rows) \/ StoreFaults
    /\ pending' = pending \ {r}
    /\ UNCHANGED <<clock, storeVars, refineVars, historyVars>>

\* The optimise job rewrites fragments and indices: a new version, no new row.
Compact ==
    /\ imagesVersion < MaxVersion
    /\ imagesVersion' = imagesVersion + 1
    /\ UNCHANGED <<pruneVars, rows, scored, refineVars, historyVars>>

-----------------------------------------------------------------------------
(* One tick of live-refine: fetch, dispatch, save, commit.                 *)

\* Definitions named Bad... are faulty variants of the one that follows them; no
\* specification uses them.  They record which slip each property would expose.

\* list_all_image_ids_by_most_recent(since): everything, or at or above since.
BadInWindow(r) == watermark = None \/ r.at > watermark
InWindow(r) == watermark = None \/ r.at >= watermark

\* list_unscored_image_ids: a full or windowed scan of images, less scored ones.
BadListing == {r.id : r \in {q \in rows : InWindow(q)}}
Listing == {r.id : r \in {q \in rows : InWindow(q)}} \ scored

\* is_cached_current: some version is cached, and it is the table's.
BadGateIsCurrent == gate # None
GateIsCurrent == gate = imagesVersion

\* fetch reads the version it has cached: an empty batch, and the tick is over.
SkipTick ==
    /\ stage = "idle"
    /\ GateIsCurrent
    /\ UNCHANGED vars

\* fetch reads a version it has not cached, and goes on to list.
Poll ==
    /\ stage = "idle"
    /\ ~GateIsCurrent
    /\ seen' = imagesVersion
    /\ stage' = "listing"
    /\ UNCHANGED <<pruneVars, storeVars, gate, watermark, listed, batch,
                   completed, restarts, historyVars>>

\* fetch lists the unscored ids, and caches the version read by Poll, not the
\* one the listing happened to see.  Only live-refine writes scores, so the two
\* concurrent reads of the listing act as one.
List ==
    /\ stage = "listing"
    /\ listed' = Listing
    /\ gate' = seen
    /\ stage' = IF listed' = {} THEN "idle" ELSE "fetching"
    /\ lastScan' = rows
    /\ considered' = considered \cup {r \in rows : InWindow(r)}
    /\ UNCHANGED <<pruneVars, storeVars, seen, watermark, batch, completed,
                   restarts, leftover, inOrder>>

\* get_originals_by_ids reads all rows of the listed ids and keeps, in a map by
\* id, whichever row of an id the scan returned last.
Fetch ==
    /\ stage = "fetching"
    /\ \E b \in SUBSET {r \in rows : r.id \in listed} :
          /\ IdsOf(b) = listed
          /\ \A r, q \in b : r.id = q.id => r = q
          /\ batch' = b
    /\ stage' = "scoring"
    /\ UNCHANGED <<pruneVars, storeVars, seen, gate, watermark, listed,
                   completed, restarts, historyVars>>

\* score_with: each image is scored, or falls back after its retries and is not
\* marked completed.  The outcomes are collected before anything else happens.
Score ==
    /\ stage = "scoring"
    /\ \E done \in SUBSET IdsOf(batch) :
          /\ ~ScorerFaults => done = IdsOf(batch)
          /\ completed' = done
    /\ stage' = "saving"
    /\ UNCHANGED <<pruneVars, storeVars, seen, gate, watermark, listed, batch,
                   restarts, historyVars>>

\* batch_upsert_scores of the successes, one merge; nothing to do without any.
SaveScores ==
    /\ stage = "saving"
    /\ scored' = scored \cup completed
    /\ stage' = "committing"
    /\ UNCHANGED <<pruneVars, rows, imagesVersion, seen, gate, watermark, listed,
                   batch, completed, restarts, historyVars>>

BadIsBatchWatermark(w) == \E r \in batch : w = r.at /\ \A q \in batch : q.at <= w

\* Batch::watermark: the oldest uncompleted discovered_at, else the newest one.
IsBatchWatermark(w) ==
    LET uncompleted == {r \in batch : r.id \notin completed}
    IN  IF uncompleted # {}
        THEN \E r \in uncompleted : w = r.at /\ \A q \in uncompleted : w <= q.at
        ELSE \E r \in batch : w = r.at /\ \A q \in batch : q.at <= w

\* The watermark moves up to the batch's, and never back.
Advance(w) == IF watermark # None /\ watermark >= w THEN watermark ELSE w

\* commit consumes the batch.
Commit ==
    /\ stage = "committing"
    /\ \E w \in {r.at : r \in batch} :
          /\ IsBatchWatermark(w)
          /\ watermark' = Advance(w)
    /\ leftover' = IdsOf(batch) \ completed
    /\ listed' = {}
    /\ batch' = {}
    /\ completed' = {}
    /\ stage' = "idle"
    /\ UNCHANGED <<pruneVars, storeVars, seen, gate, restarts, lastScan, considered,
                   inOrder>>

\* The process ends -- any store error ends it, as does a deployment -- and a
\* new one starts with an empty PollingBatchSource.
Restart ==
    /\ restarts < MaxRestarts
    /\ restarts' = restarts + 1
    /\ stage' = "idle"
    /\ seen' = 0
    /\ gate' = None
    /\ watermark' = None
    /\ listed' = {}
    /\ batch' = {}
    /\ completed' = {}
    /\ lastScan' = {}
    /\ leftover' = {}
    /\ UNCHANGED <<pruneVars, storeVars, considered, inOrder>>

Tick == SkipTick \/ Poll \/ List \/ Fetch \/ Score \/ SaveScores \/ Commit

Save(r) == SaveAdds(r) \/ SaveSkips(r)

Next ==
    \/ \E i \in Image : Classify(i)
    \/ \E r \in pending : Save(r)
    \/ Compact
    \/ Tick
    \/ Restart

Spec == Init /\ [][Next]_vars

\* The interval timer calls the loop again and again: each enabled step of a
\* tick is eventually taken.  Nothing is assumed of the pruner.
FairSpec == Spec /\ WF_vars(Tick)

-----------------------------------------------------------------------------
(* Properties.                                                             *)

\* The id of row r has a score, or the next listing will return it.
StillReachable(r) ==
    r.id \in scored \/ \E q \in rows : q.id = r.id /\ InWindow(q)

\* An image that a listing has once taken in stays reachable until it is scored,
\* whatever failed since: the watermark never passes a straggler of a batch, nor
\* an image of a batch that was lost to a restart (Batch::watermark, commit).
StragglersStayReachable == \A r \in considered : StillReachable(r)

\* The gate closes only on a table whose every row the last listing has read: a
\* row saved between the version read and the listing, or after it, reopens the
\* gate (PollingBatchSource::fetch caches the version it read first).
GateNeverHidesARow ==
    stage = "idle" /\ GateIsCurrent => rows \subseteq lastScan

\* The watermark never moves back while the process lives (commit).
WatermarkMonotone ==
    [][\/ restarts' # restarts
       \/ watermark = None
       \/ watermark' \in Nat /\ watermark' >= watermark]_vars

\* An image is never sent to the model again once its score is saved: what a
\* tick lists, fetches and scores stays disjoint from the scores table, a
\* restart in the middle of a tick included (list_unscored_image_ids).
NoScoredImageIsRescored ==
    stage \in {"fetching", "scoring", "saving"} =>
        (listed \cup IdsOf(batch)) \cap scored = {}

\* The oldest unscored straggler is always re-included: no unscored image lies
\* behind the watermark (the claim of PollingBatchSource::fetch).
NoUnscoredImageBehindWatermark == \A r \in rows : StillReachable(r)

\* The claim holds for as long as rows are saved in the order of their stamps,
\* one per id, whatever a tick lists, fails or loses meanwhile.
NoneBehindWatermarkInOrder == inOrder => NoUnscoredImageBehindWatermark

\* Every saved image is eventually scored, or tried and put aside after a failed
\* scoring: no image waits for ever without an attempt (gate, watermark, listing).
EveryImageTried ==
    \A i \in Image : i \in IdsOf(rows) ~> i \in scored \cup leftover
=============================================================================
