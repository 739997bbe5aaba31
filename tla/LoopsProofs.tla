----------------------------- MODULE LoopsProofs -----------------------------
(***************************************************************************)
(* What the two services that catch up promise, for every set of images,   *)
(* clients and publications and every bound: live-refine (Refiner), and    *)
(* the home page of skeet-feed (Feed).                                     *)
(***************************************************************************)
EXTENDS MCLoops, TLAPS

-----------------------------------------------------------------------------
(* Type correctness.                                                       *)

LEMMA InitTypeOK == Init => TypeOK
  BY RefinerAssumption DEF Init, TypeOK, Stage

LEMMA PruneTypeOK ==
  ASSUME TypeOK, NEW i \in Image, Classify(i)
  PROVE  TypeOK'
  <1>1. PICK t \in {clock, clock + 1} :
          clock' = t /\ pending' = pending \cup {[id |-> i, at |-> t]}
    BY DEF Classify
  <1>2. t \in Nat /\ [id |-> i, at |-> t] \in Row
    BY <1>1 DEF TypeOK, Row
  <1>3. clock' \in Nat /\ pending' \in SUBSET Row
    BY <1>1, <1>2 DEF TypeOK
  <1>4. QED
    BY <1>3 DEF TypeOK, Classify, storeVars, refineVars, historyVars

LEMMA StoreTypeOK ==
  ASSUME TypeOK, Compact \/ \E r \in pending : Save(r)
  PROVE  TypeOK'
  <1>1. inOrder' \in BOOLEAN
    <2>1. ASSUME NEW r \in pending, SaveAdds(r) PROVE inOrder' \in BOOLEAN
      BY <2>1, Zenon DEF SaveAdds
    <2>2. QED
      BY <2>1, Zenon DEF TypeOK, Compact, Save, SaveSkips, historyVars
  <1>2. QED
    BY <1>1 DEF TypeOK, Compact, Save, SaveAdds, SaveSkips, pruneVars, storeVars,
                refineVars, historyVars

LEMMA TickTypeOK ==
  ASSUME TypeOK, Tick
  PROVE  TypeOK'
  <1> USE DEF TypeOK, Stage, pruneVars, storeVars, historyVars, IdsOf
  <1>1. CASE SkipTick
    BY <1>1 DEF SkipTick, vars, refineVars
  <1>2. CASE Poll
    BY <1>2 DEF Poll
  <1>3. CASE List
    <2>1. Listing \in SUBSET Image
      BY DEF Listing, Row
    <2>2. QED
      BY <1>3, <2>1 DEF List
  <1>4. CASE Fetch
    <2>1. batch' \in SUBSET Row
      BY <1>4 DEF Fetch
    <2>2. QED
      BY <1>4, <2>1 DEF Fetch
  <1>5. CASE Score
    <2>1. completed' \in SUBSET Image
      BY <1>5 DEF Score, Row
    <2>2. QED
      BY <1>5, <2>1 DEF Score
  <1>6. CASE SaveScores
    BY <1>6 DEF SaveScores
  <1>7. CASE Commit
    <2>1. watermark' \in Nat
      BY <1>7, RefinerAssumption DEF Commit, Advance, Row
    <2>2. leftover' \in SUBSET Image
      BY <1>7 DEF Commit, Row
    <2>3. QED
      BY <1>7, <2>1, <2>2 DEF Commit
  <1>8. QED
    BY <1>1, <1>2, <1>3, <1>4, <1>5, <1>6, <1>7 DEF Tick

LEMMA RestartTypeOK ==
  ASSUME TypeOK, Restart
  PROVE  TypeOK'
  BY RefinerAssumption DEF TypeOK, Restart, Stage, pruneVars, storeVars

\* Every state live-refine, its store and the pruner reach is well typed: stamps
\* and versions are numbers, gate and watermark are absent or numbers, and what a
\* tick carries are images and rows.
THEOREM TypeCorrect == Spec => []TypeOK
  <1>1. TypeOK /\ [Next]_vars => TypeOK'
    <2> SUFFICES ASSUME TypeOK, [Next]_vars PROVE TypeOK'
      OBVIOUS
    <2>1. CASE UNCHANGED vars
      BY <2>1 DEF TypeOK, vars, pruneVars, storeVars, refineVars, historyVars
    <2>2. CASE Next
      BY <2>2, PruneTypeOK, StoreTypeOK, TickTypeOK, RestartTypeOK DEF Next
    <2>3. QED
      BY <2>1, <2>2
  <1>2. QED
    BY <1>1, InitTypeOK, PTL DEF Spec

-----------------------------------------------------------------------------
(* The gate.  GateNeverHidesARow says nothing of the middle of a tick, so it *)
(* is not inductive: the version must be known never to run behind the gate. *)

GateInv ==
    /\ gate # None => gate <= imagesVersion
    /\ seen <= imagesVersion
    /\ GateIsCurrent => rows \subseteq lastScan

LEMMA GateStep ==
  ASSUME TypeOK, GateInv, [Next]_vars
  PROVE  GateInv'
  <1> USE RefinerAssumption DEF TypeOK, GateInv, GateIsCurrent
  <1>1. CASE UNCHANGED vars
    BY <1>1 DEF vars, storeVars, refineVars, historyVars
  <1>2. ASSUME NEW i \in Image, Classify(i) PROVE GateInv'
    BY <1>2 DEF Classify, storeVars, refineVars, historyVars
  <1>3. ASSUME NEW r \in pending, Save(r) PROVE GateInv'
    <2>1. CASE SaveAdds(r)
      <3>1. imagesVersion' = imagesVersion + 1 /\ gate' = gate /\ seen' = seen
        BY <2>1 DEF SaveAdds, refineVars
      <3>2. gate' # imagesVersion'
        BY <3>1
      <3>3. QED
        BY <3>1, <3>2
    <2>2. CASE SaveSkips(r)
      BY <2>2 DEF SaveSkips, storeVars, refineVars, historyVars
    <2>3. QED
      BY <1>3, <2>1, <2>2 DEF Save
  <1>4. CASE Compact
    <2>1. imagesVersion' = imagesVersion + 1 /\ gate' = gate /\ seen' = seen
      BY <1>4 DEF Compact, refineVars
    <2>2. gate' # imagesVersion'
      BY <2>1
    <2>3. QED
      BY <2>1, <2>2
  <1>5. CASE List
    BY <1>5 DEF List, storeVars
  <1>6. CASE Poll
    BY <1>6 DEF Poll, storeVars, historyVars
  <1>7. CASE SkipTick \/ Fetch \/ Score \/ SaveScores \/ Commit
    BY <1>7 DEF SkipTick, Fetch, Score, SaveScores, Commit, vars, storeVars,
                refineVars, historyVars
  <1>8. CASE Restart
    BY <1>8 DEF Restart, storeVars
  <1>9. QED
    BY <1>1, <1>2, <1>3, <1>4, <1>5, <1>6, <1>7, <1>8 DEF Next, Tick

\* A closed gate never hides a row: when a tick is skipped, the last listing has
\* read every row there is, whatever was saved or compacted during the tick.
THEOREM GateSafe == Spec => []GateNeverHidesARow
  <1>1. Init => GateInv
    BY RefinerAssumption DEF Init, GateInv, GateIsCurrent
  <1>2. GateInv => GateNeverHidesARow
    BY DEF GateInv, GateNeverHidesARow
  <1>3. QED
    BY <1>1, <1>2, GateStep, TypeCorrect, PTL DEF Spec

-----------------------------------------------------------------------------
(* Stragglers.  Inside a tick an image is reachable because the tick carries *)
(* it, so the invariant follows the ids from the listing to the commit.      *)

InTick == stage \in {"fetching", "scoring", "saving", "committing"}
HoldsBatch == stage \in {"scoring", "saving", "committing"}

TickInv ==
    /\ InTick => \A r \in considered : r.id \in scored \cup listed
    /\ HoldsBatch => batch \subseteq rows /\ IdsOf(batch) = listed
    /\ stage \in {"idle", "listing", "fetching"} => batch = {}
    /\ stage = "committing" => completed \subseteq scored
    /\ stage \in {"fetching", "scoring", "saving"} => listed \cap scored = {}

StragglerInv == StragglersStayReachable /\ TickInv

LEMMA StragglerCommit ==
  ASSUME TypeOK, StragglerInv, Commit
  PROVE  StragglerInv'
  <1> USE DEF TypeOK, StragglerInv
  <1>1. PICK w \in {r.at : r \in batch} : IsBatchWatermark(w) /\ watermark' = Advance(w)
    BY DEF Commit
  <1>2. TickInv'
    BY DEF Commit, TickInv, InTick, HoldsBatch
  <1>3. ASSUME NEW r \in considered PROVE StillReachable(r)'
    <2>1. UNCHANGED <<rows, scored>>
      BY DEF Commit, storeVars
    <2>2. CASE r.id \in scored
      BY <2>1, <2>2 DEF StillReachable
    <2>3. CASE r.id \notin scored
      <3>1. PICK b \in batch : b.id = r.id
        BY <2>3, <1>3 DEF TickInv, InTick, HoldsBatch, Commit, IdsOf
      <3>2. b \in rows /\ b.id \notin completed
        BY <3>1, <2>3 DEF TickInv, HoldsBatch, Commit
      <3>3. w \in Nat /\ b.at \in Nat /\ w <= b.at
        BY <1>1, <3>1, <3>2 DEF IsBatchWatermark, Row
      <3>4. PICK q \in rows : q.id = r.id /\ InWindow(q)
        BY <2>3, <1>3 DEF StragglersStayReachable, StillReachable
      <3>5. CASE watermark' = w
        BY <3>1, <3>2, <3>3, <3>5, <2>1 DEF StillReachable, InWindow
      <3>6. CASE watermark' = watermark
        BY <3>4, <3>6, <2>1 DEF StillReachable, InWindow
      <3>7. QED
        BY <1>1, <3>5, <3>6 DEF Advance
    <2>4. QED
      BY <2>2, <2>3
  <1>4. considered' = considered
    BY DEF Commit
  <1>5. QED
    BY <1>2, <1>3, <1>4 DEF StragglersStayReachable

LEMMA StragglerList ==
  ASSUME TypeOK, StragglerInv, List
  PROVE  StragglerInv'
  <1> USE DEF TypeOK, StragglerInv
  <1>1. UNCHANGED <<rows, scored, watermark, batch>> /\ batch = {}
    BY DEF List, storeVars, TickInv
  <1>2. ASSUME NEW r \in considered' PROVE StillReachable(r)
    BY <1>2 DEF List, StillReachable, StragglersStayReachable
  <1>3. ASSUME NEW r \in considered' PROVE r.id \in scored \cup listed'
    BY <1>2, <1>3 DEF List, Listing, StillReachable
  <1>4. listed' \cap scored = {}
    BY DEF List, Listing
  <1>5. stage' \in {"idle", "fetching"}
    BY DEF List
  <1>6. TickInv'
    BY <1>1, <1>3, <1>4, <1>5 DEF TickInv, InTick, HoldsBatch
  <1>7. StragglersStayReachable'
    BY <1>1, <1>2 DEF StragglersStayReachable, StillReachable, InWindow
  <1>8. QED
    BY <1>6, <1>7

LEMMA StragglerStep ==
  ASSUME TypeOK, StragglerInv, [Next]_vars
  PROVE  StragglerInv'
  <1> USE DEF TypeOK, StragglerInv
  <1>1. CASE UNCHANGED vars
    BY <1>1 DEF vars, storeVars, refineVars, historyVars, TickInv, InTick,
                HoldsBatch, IdsOf, StragglersStayReachable, StillReachable, InWindow
  <1>2. ASSUME rows \subseteq rows', UNCHANGED <<scored, refineVars, considered>>
        PROVE  StragglerInv'
    BY <1>2 DEF refineVars, TickInv, InTick, HoldsBatch, IdsOf,
                StragglersStayReachable, StillReachable, InWindow
  <1>3. ASSUME NEW i \in Image, Classify(i) PROVE StragglerInv'
    BY <1>2, <1>3 DEF Classify, storeVars, historyVars
  <1>4. ASSUME NEW r \in pending, Save(r) PROVE StragglerInv'
    BY <1>2, <1>4 DEF Save, SaveAdds, SaveSkips, storeVars, historyVars
  <1>5. CASE Compact
    BY <1>2, <1>5 DEF Compact, historyVars
  <1>6. ASSUME UNCHANGED <<rows, scored, watermark, considered>>, TickInv'
        PROVE  StragglerInv'
    BY <1>6 DEF StragglersStayReachable, StillReachable, InWindow
  <1>7. CASE SkipTick \/ Poll
    BY <1>1, <1>6, <1>7 DEF SkipTick, Poll, storeVars, historyVars, TickInv, InTick,
                            HoldsBatch
  <1>8. CASE Fetch
    <2>1. batch' \subseteq rows /\ IdsOf(batch') = listed
      BY <1>8 DEF Fetch
    <2>2. IdsOf(batch)' = IdsOf(batch')
      BY DEF IdsOf
    <2>3. TickInv'
      BY <1>8, <2>1, <2>2 DEF Fetch, storeVars, historyVars, TickInv, InTick, HoldsBatch
    <2>4. QED
      BY <1>6, <1>8, <2>3 DEF Fetch, storeVars, historyVars
  <1>9. CASE Score
    BY <1>6, <1>9 DEF Score, storeVars, historyVars, TickInv, InTick, HoldsBatch, IdsOf
  <1>10. CASE SaveScores
    <2>1. TickInv'
      BY <1>10 DEF SaveScores, historyVars, TickInv, InTick, HoldsBatch, IdsOf
    <2>2. StragglersStayReachable'
      BY <1>10 DEF SaveScores, historyVars, StragglersStayReachable, StillReachable,
                   InWindow
    <2>3. QED
      BY <2>1, <2>2
  <1>11. CASE Restart
    <2>1. TickInv'
      BY <1>11 DEF Restart, TickInv, InTick, HoldsBatch
    <2>2. StragglersStayReachable'
      BY <1>11 DEF Restart, storeVars, StragglersStayReachable, StillReachable, InWindow
    <2>3. QED
      BY <2>1, <2>2
  <1>12. QED
    BY <1>1, <1>3, <1>4, <1>5, <1>7, <1>8, <1>9, <1>10, <1>11, StragglerList,
       StragglerCommit DEF Next, Tick

LEMMA StragglerInvariant == Spec => []StragglerInv
  <1>1. Init => StragglerInv
    BY DEF Init, StragglerInv, TickInv, InTick, HoldsBatch, StragglersStayReachable
  <1>2. QED
    BY <1>1, StragglerStep, TypeCorrect, PTL DEF Spec

\* An image a listing has taken in stays reachable until it has a score: the
\* watermark never passes a straggler, at any number of failures and restarts.
THEOREM StragglersKept == Spec => []StragglersStayReachable
  <1>1. StragglerInv => StragglersStayReachable
    BY DEF StragglerInv
  <1>2. QED
    BY <1>1, StragglerInvariant, PTL

\* A scored image is never listed, fetched or scored again.
THEOREM NoRescoring == Spec => []NoScoredImageIsRescored
  <1>1. StragglerInv => NoScoredImageIsRescored
    BY DEF StragglerInv, TickInv, HoldsBatch, NoScoredImageIsRescored, IdsOf
  <1>2. QED
    BY <1>1, StragglerInvariant, PTL

\* Between two restarts the watermark only moves forward.
THEOREM WatermarkOnlyAdvances == Spec => WatermarkMonotone
  <1> DEFINE Forward == \/ restarts' # restarts
                        \/ watermark = None
                        \/ watermark' \in Nat /\ watermark' >= watermark
  <1>1. ASSUME TypeOK, [Next]_vars PROVE [Forward]_vars
    <2> USE DEF TypeOK
    <2>1. ASSUME UNCHANGED watermark PROVE Forward
      BY <1>1, <2>1
    <2>2. ASSUME Commit PROVE Forward
      <3>1. PICK w \in {r.at : r \in batch} : watermark' = Advance(w)
        BY <2>2 DEF Commit
      <3>2. w \in Nat
        BY <1>1, <3>1 DEF Row
      <3>3. QED
        BY <1>1, <3>1, <3>2 DEF Advance
    <2>3. ASSUME Restart PROVE Forward
      BY <2>3 DEF Restart
    <2>4. ASSUME \E i \in Image : Classify(i) PROVE Forward
      BY <2>1, <2>4 DEF Classify, refineVars
    <2>5. ASSUME \E r \in pending : Save(r) PROVE Forward
      BY <2>1, <2>5 DEF Save, SaveAdds, SaveSkips, refineVars
    <2>6. ASSUME Compact \/ SkipTick \/ Poll \/ List \/ Fetch \/ Score \/ SaveScores
          PROVE  Forward
      BY <2>1, <2>6 DEF Compact, SkipTick, Poll, List, Fetch, Score, SaveScores, vars,
                        refineVars
    <2>7. CASE Next
      BY <2>2, <2>3, <2>4, <2>5, <2>6, <2>7 DEF Next, Tick
    <2>8. QED
      BY <1>1, <2>7
  <1>2. QED
    BY <1>1, TypeCorrect, PTL DEF Spec, WatermarkMonotone

-----------------------------------------------------------------------------
(* Rows in order.  While every row has come under a new id and with no older *)
(* stamp than the rows before it, the watermark is the stamp of some row and *)
(* what a tick has not listed is no older than anything it lists.            *)

LaterThanListed(r) == \A q \in rows : q.id \in listed => q.at <= r.at

OrderInv ==
    /\ watermark # None => \E q \in rows : q.at = watermark
    /\ listed \subseteq IdsOf(rows)
    /\ inOrder => /\ \A r \in rows : StillReachable(r)
                  /\ InTick => \A r \in rows :
                        r.id \in scored \cup listed \/ LaterThanListed(r)

LEMMA OrderSave ==
  ASSUME TypeOK, OrderInv, NEW r \in pending, SaveAdds(r)
  PROVE  OrderInv'
  <1> USE DEF TypeOK
  <1>1. /\ UNCHANGED <<scored, stage, watermark, listed>> /\ rows' = rows \cup {r}
        /\ inOrder' = (inOrder /\ \A q \in rows : q.id # r.id /\ q.at <= r.at)
        /\ InTick' = InTick
    BY DEF SaveAdds, refineVars, InTick
  <1>2. listed' \subseteq IdsOf(rows)' /\ (watermark' # None => \E q \in rows' : q.at = watermark')
    BY <1>1 DEF OrderInv, IdsOf
  <1>3. ASSUME inOrder' PROVE \A q \in rows' : StillReachable(q)'
    <2>1. inOrder /\ \A q \in rows : q.at <= r.at
      BY <1>1, <1>3
    <2>2. \A q \in rows : StillReachable(q)'
      BY <1>1, <2>1 DEF OrderInv, StillReachable, InWindow
    <2>3. InWindow(r)
      <3>1. CASE watermark = None
        BY <3>1 DEF InWindow
      <3>2. ASSUME NEW q \in rows, q.at = watermark PROVE InWindow(r)
        BY <2>1, <3>2 DEF InWindow, Row
      <3>3. QED
        BY <3>1, <3>2 DEF OrderInv
    <2>4. StillReachable(r)'
      BY <1>1, <2>3 DEF StillReachable, InWindow
    <2>5. QED
      BY <1>1, <2>2, <2>4
  <1>4. ASSUME inOrder', InTick', NEW q \in rows'
        PROVE  q.id \in scored' \cup listed' \/ LaterThanListed(q)'
    <2>1. inOrder /\ InTick /\ \A p \in rows : p.id # r.id /\ p.at <= r.at
      BY <1>1, <1>4
    <2>2. r.id \notin listed
      BY <2>1 DEF OrderInv, IdsOf
    <2>3. CASE q = r
      BY <1>1, <2>1, <2>2, <2>3 DEF LaterThanListed
    <2>4. CASE q \in rows
      BY <1>1, <2>1, <2>2, <2>4 DEF OrderInv, LaterThanListed
    <2>5. QED
      BY <1>1, <2>3, <2>4
  <1>5. QED
    BY <1>2, <1>3, <1>4 DEF OrderInv

LEMMA OrderList ==
  ASSUME TypeOK, OrderInv, List
  PROVE  OrderInv'
  <1>1. /\ UNCHANGED <<rows, scored, watermark, inOrder>>
        /\ listed' = Listing
    BY DEF List, storeVars
  <1>2. listed' \subseteq IdsOf(rows')
    BY <1>1 DEF Listing, IdsOf
  <1>3. \A r \in rows : StillReachable(r) => r.id \in scored \cup listed'
    BY <1>1 DEF StillReachable, Listing
  <1>4. \A r \in rows : StillReachable(r)' <=> StillReachable(r)
    BY <1>1 DEF StillReachable, InWindow
  <1>5. IdsOf(rows)' = IdsOf(rows')
    BY DEF IdsOf
  <1>6. QED
    BY <1>1, <1>2, <1>3, <1>4, <1>5 DEF OrderInv

\* The batch's watermark is the stamp of a row of the batch, at or below every
\* row of the batch that is still without a score.
LEMMA OrderCommit ==
  ASSUME TypeOK, TickInv, OrderInv, Commit
  PROVE  OrderInv'
  <1> USE DEF TypeOK
  <1>1. PICK w \in {r.at : r \in batch} : IsBatchWatermark(w) /\ watermark' = Advance(w)
    BY DEF Commit
  <1>2. PICK b \in batch : b.at = w
    BY <1>1
  <1>3. /\ UNCHANGED <<rows, scored, inOrder>> /\ listed' = {} /\ stage = "committing"
        /\ ~InTick' /\ batch \subseteq rows /\ IdsOf(batch) = listed /\ completed \subseteq scored
    BY DEF Commit, storeVars, TickInv, HoldsBatch, InTick
  <1>4. w \in Nat /\ b \in rows /\ b.id \in listed
    BY <1>2, <1>3 DEF Row, IdsOf
  <1>5. watermark' # None => \E q \in rows' : q.at = watermark'
    BY <1>1, <1>2, <1>3, <1>4 DEF Advance, OrderInv
  <1>6. ASSUME inOrder, NEW r \in rows, r.id \notin scored
        PROVE  \E q \in rows : q.id = r.id /\ (watermark' = None \/ q.at >= watermark')
    <2>1. CASE watermark' = watermark
      <3>1. StillReachable(r)
        BY <1>6 DEF OrderInv
      <3>2. QED
        BY <1>6, <2>1, <3>1 DEF StillReachable, InWindow
    <2>2. CASE watermark' = w /\ r.id \in listed
      <3>1. PICK q \in batch : q.id = r.id
        BY <1>3, <2>2 DEF IdsOf
      <3>2. q \in rows /\ q.id \notin completed /\ q.at \in Nat
        BY <1>3, <1>6, <3>1 DEF Row
      <3>3. w <= q.at
        BY <1>1, <3>1, <3>2 DEF IsBatchWatermark
      <3>4. QED
        BY <1>4, <2>2, <3>1, <3>2, <3>3
    <2>3. CASE watermark' = w /\ r.id \notin listed
      <3>1. b.at <= r.at /\ r.at \in Nat
        BY <1>3, <1>4, <1>6, <2>3 DEF OrderInv, InTick, LaterThanListed, Row
      <3>2. QED
        BY <1>2, <1>4, <1>6, <2>3, <3>1
    <2>4. QED
      BY <1>1, <2>1, <2>2, <2>3 DEF Advance
  <1>7. inOrder' => \A r \in rows' : StillReachable(r)'
    BY <1>3, <1>6 DEF StillReachable, InWindow
  <1>8. QED
    BY <1>3, <1>5, <1>7 DEF OrderInv, IdsOf

LEMMA OrderStep ==
  ASSUME TypeOK, TickInv, OrderInv, [Next]_vars
  PROVE  OrderInv'
  <1> USE DEF TypeOK
  <1>1. ASSUME UNCHANGED <<rows, scored, watermark, listed, inOrder>>, InTick' => InTick
        PROVE  OrderInv'
    BY <1>1 DEF OrderInv, StillReachable, InWindow, IdsOf, LaterThanListed
  <1>2. CASE UNCHANGED vars
    BY <1>1, <1>2 DEF vars, storeVars, refineVars, historyVars, InTick
  <1>3. ASSUME NEW i \in Image, Classify(i) PROVE OrderInv'
    BY <1>1, <1>3 DEF Classify, storeVars, refineVars, historyVars, InTick
  <1>4. ASSUME NEW r \in pending, Save(r) PROVE OrderInv'
    <2>1. CASE SaveAdds(r)
      BY <2>1, OrderSave
    <2>2. CASE SaveSkips(r)
      BY <1>1, <2>2 DEF SaveSkips, storeVars, refineVars, historyVars, InTick
    <2>3. QED
      BY <1>4, <2>1, <2>2 DEF Save
  <1>5. CASE Compact
    BY <1>1, <1>5 DEF Compact, refineVars, historyVars, InTick
  <1>6. CASE SkipTick \/ Poll \/ Fetch \/ Score
    <2>1. UNCHANGED <<rows, scored, watermark, listed, inOrder>>
      BY <1>6 DEF SkipTick, Poll, Fetch, Score, vars, storeVars, refineVars, historyVars
    <2>2. InTick' => InTick
      BY <1>6 DEF SkipTick, Poll, Fetch, Score, vars, refineVars, InTick
    <2>3. QED
      BY <1>1, <2>1, <2>2
  <1>7. CASE SaveScores
    <2>1. /\ UNCHANGED <<rows, watermark, listed, inOrder>> /\ scored \subseteq scored' /\ InTick
      BY <1>7 DEF SaveScores, historyVars, InTick
    <2>2. QED
      BY <2>1 DEF OrderInv, StillReachable, InWindow, IdsOf, LaterThanListed
  <1>8. CASE Restart
    <2>1. /\ UNCHANGED <<rows, scored, inOrder>> /\ watermark' = None /\ listed' = {} /\ ~InTick'
      BY <1>8 DEF Restart, storeVars, InTick
    <2>2. QED
      BY <2>1 DEF OrderInv, StillReachable, InWindow, IdsOf
  <1>9. QED
    BY <1>2, <1>3, <1>4, <1>5, <1>6, <1>7, <1>8, OrderList, OrderCommit DEF Next, Tick

\* As long as rows are saved in the order of their stamps, one per id, no image
\* without a score lies behind the watermark, with any number of images in
\* flight, failed scorings and restarts (polling.rs, Batch::watermark).
THEOREM NoneBehindWatermark == Spec => []NoneBehindWatermarkInOrder
  <1>1. Init => OrderInv
    BY DEF Init, OrderInv, IdsOf
  <1>2. OrderInv => NoneBehindWatermarkInOrder
    BY DEF OrderInv, NoneBehindWatermarkInOrder, NoUnscoredImageBehindWatermark
  <1>3. StragglerInv => TickInv
    BY DEF StragglerInv
  <1>4. QED
    BY <1>1, <1>2, <1>3, OrderStep, StragglerInvariant, TypeCorrect, PTL DEF Spec

-----------------------------------------------------------------------------
(* The home page of skeet-feed.                                            *)

\* Publications are counted; the time beside a list is that of the one it says,
\* or of the one before while a publication is under way.
StampInv ==
    /\ visit \in Visits
    /\ list.pub \in 0 .. Len(visit.at) /\ stamp.pub \in 0 .. list.pub
    /\ DOMAIN list = {"pub", "entries"}
    /\ stamp.at # None => stamp.at = Web!MadeAt(stamp.pub)
    /\ publisher # None => publisher = Web!MadeAt(list.pub)

\* A copy with a date was made when that date was beside the list, so it is no
\* newer than the date that is.
CopyInv ==
    /\ DOMAIN grid = Browser /\ DOMAIN page = Browser
    /\ \A b \in Browser : DOMAIN grid[b] = {"list", "stamp", "modified"}
    /\ \A b \in Browser : grid[b].modified # None =>
        /\ stamp.at # None
        /\ grid[b].stamp \in 0 .. stamp.pub
        /\ grid[b].modified = Web!Second(Web!MadeAt(grid[b].stamp))

HomeInv == StampInv /\ CopyInv

\* A later publication is not made earlier.
LEMMA MadeInOrder ==
    ASSUME Web!FeedConstants, StampInv, NEW p \in 0 .. Len(visit.at), NEW q \in p .. Len(visit.at)
    PROVE  /\ Web!MadeAt(p) \in Nat /\ Web!MadeAt(q) \in Nat
           /\ Web!MadeAt(p) <= Web!MadeAt(q)
           /\ Web!Second(Web!MadeAt(p)) \in Nat
           /\ Web!Second(Web!MadeAt(p)) <= Web!Second(Web!MadeAt(q))
<1>1. visit.at \in Seq(Nat) /\ \A m, n \in DOMAIN visit.at : m <= n => visit.at[m] <= visit.at[n]
  BY DEF Web!FeedConstants, StampInv
<1>2. DOMAIN visit.at = 1 .. Len(visit.at) /\ Len(visit.at) \in Nat
      /\ \A n \in 1 .. Len(visit.at) : visit.at[n] \in Nat
  BY <1>1
<1>3. Web!MadeAt(p) \in Nat /\ Web!MadeAt(q) \in Nat /\ Web!MadeAt(p) <= Web!MadeAt(q)
  <2>1. CASE p = 0
    BY <1>2, <2>1 DEF Web!MadeAt
  <2>2. CASE p # 0
    <3>1. p \in DOMAIN visit.at /\ q \in DOMAIN visit.at /\ p <= q /\ q # 0
      BY <1>2, <2>2
    <3>2. visit.at[p] <= visit.at[q] /\ visit.at[p] \in Nat /\ visit.at[q] \in Nat
      BY <1>1, <1>2, <3>1
    <3>3. QED
      BY <2>2, <3>1, <3>2 DEF Web!MadeAt
  <2>3. QED
    BY <2>1, <2>2
<1>4. QED
  BY <1>3 DEF Web!Second

LEMMA HomeInit == ASSUME Web!FeedConstants, Web!Init PROVE HomeInv
<1>1. StampInv
  <2>1. visit \in Visits /\ Len(visit.at) \in Nat
    BY DEF Web!Init, Web!FeedConstants
  <2>2. PICK entries : /\ list = [pub |-> 0, entries |-> entries]
                       /\ stamp = [pub |-> 0, at |-> IF entries = <<>> THEN None ELSE 0]
    BY DEF Web!Init
  <2>3. publisher = None
    BY DEF Web!Init
  <2>4. QED
    BY <2>1, <2>2, <2>3 DEF StampInv, Web!MadeAt
<1>2. CopyInv
  BY DEF Web!Init, CopyInv
<1>3. QED
  BY <1>1, <1>2 DEF HomeInv

\* What the previews do, and publications, leave the copies alone.
LEMMA CopiesStay ==
    ASSUME CopyInv, StampInv, visit' = visit, grid' = grid, DOMAIN page' = DOMAIN page,
           \/ stamp' = stamp
           \/ stamp'.at # None /\ stamp'.pub \in Nat /\ stamp.pub <= stamp'.pub
    PROVE  CopyInv'
<1>1. \A n : Web!MadeAt(n)' = Web!MadeAt(n) /\ Web!Second(n)' = Web!Second(n)
  BY DEF Web!MadeAt, Web!Second
<1>2. stamp.pub \in Nat
  BY DEF StampInv
<1>3. ASSUME NEW b \in Browser, grid[b].modified # None
      PROVE  /\ stamp'.at # None
             /\ grid[b].stamp \in 0 .. stamp'.pub
             /\ grid[b].modified = Web!Second(Web!MadeAt(grid[b].stamp))'
  BY <1>1, <1>2, <1>3 DEF CopyInv, Web!MadeAt, Web!Second
<1>4. QED
  BY <1>3 DEF CopyInv

LEMMA HomeNext == ASSUME Web!FeedConstants, HomeInv, [Web!Next]_(Web!vars) PROVE HomeInv'
<1> USE DEF HomeInv
<1>0. /\ visit \in Visits /\ Len(visit.at) \in Nat /\ None \notin Nat
      /\ list.pub \in Nat /\ stamp.pub \in Nat /\ stamp.pub <= list.pub
  BY DEF StampInv, Web!FeedConstants
<1>1. ASSUME UNCHANGED <<visit, list, stamp, publisher, grid>>, DOMAIN page' = DOMAIN page
      PROVE  HomeInv'
  <2>1. StampInv'
    BY <1>1 DEF StampInv, Web!MadeAt
  <2>2. QED
    BY <1>1, <2>1, CopiesStay
<1>2. ASSUME NEW entries \in Edition, Web!Swap(entries) PROVE HomeInv'
  <2>1. /\ list.pub < Len(visit.at) /\ list' = [pub |-> list.pub + 1, entries |-> entries]
        /\ publisher' = visit.at[list.pub + 1]
        /\ visit' = visit /\ stamp' = stamp /\ grid' = grid /\ page' = page
    BY <1>2 DEF Web!Swap, Web!home
  <2>2. StampInv'
    <3>1. stamp.at # None => stamp.at = Web!MadeAt(stamp.pub)'
      BY <2>1 DEF StampInv, Web!MadeAt
    <3>2. publisher' = Web!MadeAt(list.pub)'
      BY <1>0, <2>1 DEF Web!MadeAt
    <3>3. list'.pub \in 0 .. Len(visit.at) /\ stamp.pub \in 0 .. list'.pub
      BY <1>0, <2>1
    <3>4. QED
      BY <1>0, <2>1, <3>1, <3>2, <3>3 DEF StampInv
  <2>3. QED
    BY <2>1, <2>2, CopiesStay
<1>3. CASE Web!SetRefreshedAt
  <2>1. /\ publisher # None /\ stamp' = [pub |-> list.pub, at |-> publisher] /\ publisher' = None
        /\ visit' = visit /\ list' = list /\ grid' = grid /\ page' = page
    BY <1>3 DEF Web!SetRefreshedAt, Web!home
  <2>2. StampInv'
    BY <1>0, <2>1 DEF StampInv, Web!MadeAt
  <2>3. QED
    BY <1>0, <2>1, <2>2, CopiesStay
<1>4. ASSUME NEW b \in Browser, Web!ReadList(b) PROVE HomeInv'
  BY <1>1, <1>4 DEF Web!ReadList, CopyInv
<1>5. ASSUME NEW b \in Browser, Web!AnswerHome(b) PROVE HomeInv'
  <2>1. /\ visit' = visit /\ list' = list /\ stamp' = stamp /\ publisher' = publisher
        /\ page' = [page EXCEPT ![b] = None]
    BY <1>5 DEF Web!AnswerHome
  <2>2. StampInv'
    BY <2>1 DEF StampInv, Web!MadeAt
  <2>3. \A n : Web!MadeAt(n)' = Web!MadeAt(n) /\ Web!Second(n)' = Web!Second(n)
    BY <2>1 DEF Web!MadeAt, Web!Second
  <2> DEFINE copy == grid'[b]
  <2>4. /\ DOMAIN grid' = Browser
        /\ \A c \in Browser \ {b} : grid'[c] = grid[c]
        /\ DOMAIN copy = {"list", "stamp", "modified"}
        /\ copy.modified # None =>
            /\ stamp.at # None
            /\ copy.stamp \in 0 .. stamp.pub
            /\ copy.modified = Web!Second(Web!MadeAt(copy.stamp))
    <3>1. CASE stamp.at = None
      <4>1. grid' = [grid EXCEPT ![b] = [list |-> page[b].pub, stamp |-> 0, modified |-> None]]
        BY <1>5, <3>1 DEF Web!AnswerHome
      <4>2. QED
        BY <4>1 DEF CopyInv
    <3>2. CASE stamp.at # None /\ Web!NotModifiedSince(grid[b].modified, stamp.at)
      <4>1. grid' = [grid EXCEPT ![b] = [@ EXCEPT !.modified = Web!Second(stamp.at)]]
        BY <1>5, <3>2 DEF Web!AnswerHome
      <4>2. /\ grid[b].modified = Web!Second(Web!MadeAt(grid[b].stamp))
            /\ grid[b].stamp \in 0 .. stamp.pub
            /\ Web!Second(stamp.at) <= grid[b].modified
        BY <3>2 DEF CopyInv, Web!NotModifiedSince
      <4>3. stamp.at = Web!MadeAt(stamp.pub) /\ stamp.pub \in 0 .. Len(visit.at)
        BY <1>0, <3>2 DEF StampInv
      <4>4. /\ Web!Second(Web!MadeAt(grid[b].stamp)) \in Nat
            /\ Web!Second(Web!MadeAt(grid[b].stamp)) <= Web!Second(Web!MadeAt(stamp.pub))
            /\ Web!Second(Web!MadeAt(stamp.pub)) \in Nat
        <5>1. grid[b].stamp \in 0 .. Len(visit.at) /\ stamp.pub \in grid[b].stamp .. Len(visit.at)
              /\ stamp.pub \in stamp.pub .. Len(visit.at)
          BY <1>0, <4>2, <4>3
        <5>2. QED
          BY <4>3, <5>1, MadeInOrder
      <4>5. Web!Second(stamp.at) = Web!Second(Web!MadeAt(grid[b].stamp))
        BY <4>2, <4>3, <4>4
      <4>6. copy = [grid[b] EXCEPT !.modified = Web!Second(stamp.at)] /\ DOMAIN grid' = Browser
            /\ \A c \in Browser \ {b} : grid'[c] = grid[c]
        BY <4>1 DEF CopyInv
      <4>7. copy.stamp = grid[b].stamp /\ copy.modified = Web!Second(stamp.at)
            /\ DOMAIN copy = {"list", "stamp", "modified"}
        BY <4>6 DEF CopyInv
      <4>8. QED
        BY <3>2, <4>2, <4>5, <4>6, <4>7
    <3>3. CASE stamp.at # None /\ ~Web!NotModifiedSince(grid[b].modified, stamp.at)
      <4>1. grid' = [grid EXCEPT ![b] = [list |-> page[b].pub, stamp |-> stamp.pub,
                                         modified |-> Web!Second(stamp.at)]]
        BY <1>5, <3>3 DEF Web!AnswerHome
      <4>2. stamp.at = Web!MadeAt(stamp.pub)
        BY <3>3 DEF StampInv
      <4>3. QED
        BY <1>0, <3>3, <4>1, <4>2 DEF CopyInv
    <3>4. QED
      BY <3>1, <3>2, <3>3
  <2> HIDE DEF copy
  <2>5. CopyInv'
    <3>1. ASSUME NEW c \in Browser, grid'[c].modified # None
          PROVE  /\ stamp.at # None
                 /\ grid'[c].stamp \in 0 .. stamp.pub
                 /\ grid'[c].modified = Web!Second(Web!MadeAt(grid'[c].stamp))
      BY <2>4, <3>1 DEF CopyInv, copy
    <3>2. \A c \in Browser : DOMAIN grid'[c] = {"list", "stamp", "modified"}
      BY <2>4 DEF CopyInv, copy
    <3>3. \A c \in Browser : Web!Second(Web!MadeAt(grid[c].stamp))' = Web!Second(Web!MadeAt(grid'[c].stamp))
      BY <2>1 DEF Web!MadeAt, Web!Second
    <3>4. QED
      BY <2>1, <2>4, <3>1, <3>2, <3>3 DEF CopyInv
  <2>6. QED
    BY <2>2, <2>5
<1>6. CASE Web!Fetch
  BY <1>1, <1>6 DEF Web!Fetch, Web!FetchTile, Web!home
<1>7. ASSUME NEW s \in Scraper,
             Web!Ask(s) \/ Web!Join(s) \/ Web!FinishRefresh(s) \/ Web!AnswerStale(s) \/ Web!Forget(s)
      PROVE  HomeInv'
  BY <1>1, <1>7 DEF Web!Ask, Web!Join, Web!FinishRefresh, Web!AnswerStale, Web!Forget, Web!home
<1>8. ASSUME NEW sig \in DOMAIN making, Web!Compose(sig) \/ Web!ComposeFails(sig) PROVE HomeInv'
  BY <1>1, <1>8 DEF Web!Compose, Web!ComposeFails, Web!home
<1>9. CASE UNCHANGED Web!vars
  BY <1>1, <1>9 DEF Web!vars, Web!home
<1>10. QED
  BY <1>2, <1>3, <1>4, <1>5, <1>6, <1>7, <1>8, <1>9 DEF Web!Next

\* A 304 for the home page is true, though dates have whole seconds and a list
\* is written apart from its date: a copy that was made whole is never held to
\* be of a publication of another second.
THEOREM NotModifiedHolds == ASSUME Web!FeedConstants PROVE Web!Spec => NotModifiedIsTrue
<1>1. ASSUME HomeInv, NEW b \in Browser, Web!AnswerHome(b), grid'[b].list = grid[b].list,
             Web!Whole(grid[b]), page[b].pub = stamp.pub
      PROVE  \/ grid[b].list = page[b].pub
             \/ Web!Second(Web!MadeAt(grid[b].list)) = Web!Second(Web!MadeAt(page[b].pub))
  <2>1. CASE stamp.at # None /\ Web!NotModifiedSince(grid[b].modified, stamp.at)
    <3>1. /\ grid[b].modified = Web!Second(Web!MadeAt(grid[b].stamp))
          /\ grid[b].stamp \in 0 .. stamp.pub
          /\ Web!Second(stamp.at) <= grid[b].modified
      BY <1>1, <2>1 DEF HomeInv, CopyInv, Web!NotModifiedSince
    <3>2. stamp.at = Web!MadeAt(stamp.pub) /\ stamp.pub \in 0 .. Len(visit.at)
          /\ Len(visit.at) \in Nat
      BY <1>1, <2>1 DEF HomeInv, StampInv, Web!FeedConstants
    <3>3. grid[b].stamp \in 0 .. Len(visit.at) /\ stamp.pub \in grid[b].stamp .. Len(visit.at)
      BY <3>1, <3>2
    <3>4. /\ Web!Second(Web!MadeAt(grid[b].stamp)) \in Nat
          /\ Web!Second(Web!MadeAt(grid[b].stamp)) <= Web!Second(Web!MadeAt(stamp.pub))
      BY <1>1, <3>3, MadeInOrder DEF HomeInv
    <3>5. Web!Second(Web!MadeAt(stamp.pub)) \in Nat
      BY <1>1, <3>2, MadeInOrder DEF HomeInv
    <3>6. Web!Second(Web!MadeAt(grid[b].stamp)) = Web!Second(Web!MadeAt(stamp.pub))
      BY <3>1, <3>2, <3>4, <3>5
    <3>7. QED
      BY <1>1, <3>6 DEF Web!Whole
  <2>2. CASE ~(stamp.at # None /\ Web!NotModifiedSince(grid[b].modified, stamp.at))
    <3>1. grid'[b].list = page[b].pub
      BY <1>1, <2>2 DEF Web!AnswerHome, HomeInv, CopyInv
    <3>2. QED
      BY <1>1, <3>1
  <2>3. QED
    BY <2>1, <2>2
<1>2. HomeInv /\ [Web!Next]_(Web!vars) =>
        [\A b \in Browser :
            Web!AnswerHome(b) /\ grid'[b].list = grid[b].list /\ Web!Whole(grid[b])
            /\ page[b].pub = stamp.pub
                => \/ grid[b].list = page[b].pub
                   \/ Web!Second(Web!MadeAt(grid[b].list)) = Web!Second(Web!MadeAt(page[b].pub))]_(Web!vars)
  BY <1>1
<1>3. QED
  BY <1>2, HomeInit, HomeNext, PTL DEF Web!Spec, NotModifiedIsTrue, Web!NotModifiedIsTrue
=============================================================================
