------------------------------- MODULE Candidate -------------------------------
(***************************************************************************)
(* Posts on their way through skeet-prune as far as each one is concerned: *)
(* extraction from an event (firehose.rs), the metadata check that fails   *)
(* closed (pipeline/prune_meta_stage.rs), the concurrent downloads and the *)
(* classification (pipeline/prune_image_stage.rs), the save that skips     *)
(* what the store has (persistence.rs), and the counts folded on the way.  *)
(* The resume cursor's rewind delivers a post again.  Channels, drain and  *)
(* shutdown are PrunePipeline's.                                           *)
(***************************************************************************)
EXTENDS Classification, FiniteSetsExt

CONSTANTS
    Post, Blob,
    Images,         \* the blobs of a post's images, in order
    Picture,        \* what each blob may show: a set of pictures
    ImageWorkers,   \* how many image workers there are
    MaxReplays,     \* bound: how many events are delivered again
    MaxLabelled,    \* bound: posts labelled from the start
    MaxFaults       \* bound: failed calls to the store

ASSUME CandidateConstants ==
    /\ IsFiniteSet(Post) /\ IsFiniteSet(Blob)
    /\ Images \in [Post -> Seq(Blob)]
    /\ \A b \in Blob : Picture[b] \subseteq Pictures
    /\ {ImageWorkers, MaxReplays, MaxLabelled, MaxFaults} \subseteq Nat

VARIABLES
    picture,    \* what each blob shows
    labels,     \* where an excluded label stands now
    late,       \* history: posts whose label came after they were created
    delivered,  \* how often each post's event was delivered
    job,        \* each delivery on its way
    queue,      \* the channel to the save stage
    rows,       \* the images table: the post of every row of an image
    total,      \* the counts that reached the statistics stage
    unseen,     \* history: rows written although the check for them failed
    failures    \* history: images whose write failed

vars == <<picture, labels, late, delivered, job, queue, rows, total, unseen, failures>>

\* An excluded label is part of the record, or in its thread: on the post, its
\* author or a quoted record's author, which are looked up.
Place == {"self", "thread"}
DetectionCategory == {"Face", "Text", "Metadata"}

Job == Post \X (1 .. 1 + MaxReplays)
Absent == [stage |-> "absent"]
At(stage) == {j \in Job : job[j].stage = stage}

----------------------------------------------------------------------------
(* ContentCounts: a commutative monoid (reasons are not told apart).        *)

NoCounts == [posts |-> 0, images |-> 0, saved |-> 0, rejected |-> 0,
             category |-> [c \in DetectionCategory |-> 0],
             sole |-> [c \in DetectionCategory |-> 0]]

Plus(a, b) ==
    [posts    |-> a.posts + b.posts,
     images   |-> a.images + b.images,
     saved    |-> a.saved + b.saved,
     rejected |-> a.rejected + b.rejected,
     category |-> [c \in DetectionCategory |-> a.category[c] + b.category[c]],
     sole     |-> [c \in DetectionCategory |-> a.sole[c] + b.sole[c]]]

Observed(images) == [NoCounts EXCEPT !.posts = 1, !.images = images]
SavedOne         == [NoCounts EXCEPT !.saved = 1]

\* by_category counts each category seen, by_sole_category one seen alone.
Rejected(reasons) ==
    LET seen == {Category(r) : r \in reasons}
        one(c, p) == IF c \in seen /\ p THEN 1 ELSE 0
    IN  [NoCounts EXCEPT !.rejected = 1,
            !.category = [c \in DetectionCategory |-> one(c, TRUE)],
            !.sole = [c \in DetectionCategory |-> one(c, seen = {c})]]

----------------------------------------------------------------------------
(* The firehose and the AppView.                                           *)

Replays == MapThenSumSet(LAMBDA p : IF delivered[p] = 0 THEN 0 ELSE delivered[p] - 1, Post)

\* extract_skeet_candidate: no candidate for a self-labelled post or one
\* without usable images.
Deliver(p) ==
    /\ delivered[p] = 0 \/ Replays < MaxReplays
    /\ delivered' = [delivered EXCEPT ![p] = @ + 1]
    /\ IF "self" \in labels[p] \/ Images[p] = <<>> THEN UNCHANGED job
       ELSE job' = [job EXCEPT ![<<p, delivered[p] + 1>>] = [stage |-> "checking"]]
    /\ UNCHANGED <<picture, labels, late, queue, rows, total, unseen, failures>>

\* A moderator or the author labels a post that is already out.
Moderate(p) ==
    /\ labels[p] = {}
    /\ labels' = [labels EXCEPT ![p] = {"thread"}]
    /\ late' = late \cup {p}
    /\ UNCHANGED <<picture, delivered, job, queue, rows, total, unseen, failures>>

----------------------------------------------------------------------------
(* The metadata stage.                                                     *)

\* Faulty: a post that cannot be looked up passes.
FailOpen(p, fetched) == ~fetched \/ "thread" \notin labels[p]

Passes(p, fetched) == fetched /\ "thread" \notin labels[p]

CheckMeta(j, fetched) ==
    /\ job[j].stage = "checking"
    /\ job' = [job EXCEPT ![j] =
            IF Passes(j[1], fetched)
            THEN [stage |-> "passed", counts |-> Observed(Len(Images[j[1]]))]
            ELSE [stage |-> "refused", counts |-> Plus(Observed(0), Rejected({"BlockedByMetadata"}))]]
    /\ UNCHANGED <<picture, labels, late, delivered, queue, rows, total, unseen, failures>>

----------------------------------------------------------------------------
(* The image stage.                                                        *)

\* A refused post has nothing to classify: its counts go straight on.
PassOn(j) ==
    /\ job[j].stage = "refused" /\ Cardinality(At("downloading")) < ImageWorkers
    /\ job' = [job EXCEPT ![j] = [stage |-> "saving", counts |-> job[j].counts,
                                  got |-> <<>>, records |-> {}, whole |-> FALSE]]
    /\ queue' = Append(queue, j)
    /\ UNCHANGED <<picture, labels, late, delivered, rows, total, unseen, failures>>

StartDownloads(j) ==
    /\ job[j].stage = "passed" /\ Cardinality(At("downloading")) < ImageWorkers
    /\ job' = [job EXCEPT ![j] = [stage |-> "downloading", counts |-> job[j].counts,
                                  pending |-> DOMAIN Images[j[1]], got |-> <<>>, whole |-> TRUE]]
    /\ UNCHANGED <<picture, labels, late, delivered, queue, rows, total, unseen, failures>>

\* join_next in the order in which downloads end.  The loop ends with the
\* first failed one: what is still under way is dropped with the JoinSet.
Downloaded(j, i, ok) ==
    /\ job[j].stage = "downloading" /\ i \in job[j].pending
    /\ job' = [job EXCEPT
            ![j].pending = IF ok THEN @ \ {i} ELSE {},
            ![j].got     = IF ok THEN Append(@, Images[j[1]][i]) ELSE @,
            ![j].whole   = ok]
    /\ UNCHANGED <<picture, labels, late, delivered, queue, rows, total, unseen, failures>>

\* What classify says of each picture a blob may show.
Verdicts == {[shown |-> p, reasons |-> Classify(p)] : p \in UNION {Picture[b] : b \in Blob}}

Reasons(b) == (CHOOSE v \in Verdicts : v.shown = picture[b]).reasons
Fit(b)     == Reasons(b) = {}

\* Faulty: nothing of a post is kept unless all of it is fit.
AllOrNothing(got) == IF \A i \in DOMAIN got : Fit(got[i]) THEN DOMAIN got ELSE {}

Survivors(got) == {i \in DOMAIN got : Fit(got[i])}

\* What the others add to the counts.
Refusals(got) ==
    LET refused == DOMAIN got \ Survivors(got)
        of(i)   == Rejected(Reasons(got[i]))
    IN  [NoCounts EXCEPT
            !.rejected = MapThenSumSet(LAMBDA i : of(i).rejected, refused),
            !.category = [c \in DetectionCategory |-> MapThenSumSet(LAMBDA i : of(i).category[c], refused)],
            !.sole     = [c \in DetectionCategory |-> MapThenSumSet(LAMBDA i : of(i).sole[c], refused)]]

\* Images are classified one after the other on a blocking thread; records
\* and counts go on as one message.
ClassifyImages(j) ==
    LET got == job[j].got
    IN  /\ job[j].stage = "downloading" /\ job[j].pending = {}
        /\ job' = [job EXCEPT ![j] =
                [stage |-> "saving", counts |-> Plus(job[j].counts, Refusals(got)),
                 got |-> got, records |-> Survivors(got), whole |-> job[j].whole]]
        /\ queue' = Append(queue, j)
        /\ UNCHANGED <<picture, labels, late, delivered, rows, total, unseen, failures>>

\* A panic in a classification ends the worker; the post goes with it.
ClassifyPanics(j) ==
    /\ job[j].stage = "downloading" /\ job[j].pending = {} /\ job[j].got # <<>>
    /\ job' = [job EXCEPT ![j] = [stage |-> "lost"]]
    /\ UNCHANGED <<picture, labels, late, delivered, queue, rows, total, unseen, failures>>

----------------------------------------------------------------------------
(* The save stage: one worker, one record after the other.                 *)

\* Faulty: the table is asked for a row of this very post.
KnownAsIs(b, p) == \E i \in DOMAIN rows[b] : rows[b][i] = p

\* exists: images are told apart by their content alone.
Known(b, p) == rows[b] # <<>>

Saving(j) == queue # <<>> /\ j = Head(queue) /\ job[j].records # {}
Upcoming(j) == job[j].got[Min(job[j].records)]
Rest(j) == job[j].records \ {Min(job[j].records)}
StoreMayFail == Cardinality(failures) + Cardinality(unseen) < MaxFaults

Skip(j) ==
    /\ Saving(j) /\ Known(Upcoming(j), j[1])
    /\ job' = [job EXCEPT ![j].records = Rest(j)]
    /\ UNCHANGED <<picture, labels, late, delivered, queue, rows, total, unseen, failures>>

\* When the existence check fails the record is written all the same.
Save(j, checked) ==
    LET b == Upcoming(j)
    IN  /\ Saving(j)
        /\ IF checked THEN ~Known(b, j[1]) ELSE StoreMayFail /\ b \notin unseen
        /\ rows' = [rows EXCEPT ![b] = Append(@, j[1])]
        /\ unseen' = IF checked THEN unseen ELSE unseen \cup {b}
        /\ job' = [job EXCEPT ![j].records = Rest(j), ![j].counts = Plus(@, SavedOne)]
        /\ UNCHANGED <<picture, labels, late, delivered, queue, total, failures>>

\* A failed write counts as skipped and is not tried again.
WriteFails(j) ==
    /\ Saving(j) /\ ~Known(Upcoming(j), j[1]) /\ StoreMayFail
    /\ failures' = failures \cup {Upcoming(j)}
    /\ job' = [job EXCEPT ![j].records = Rest(j)]
    /\ UNCHANGED <<picture, labels, late, delivered, queue, rows, total, unseen>>

RecordCounts(j) ==
    /\ queue # <<>> /\ j = Head(queue) /\ job[j].records = {}
    /\ queue' = Tail(queue)
    /\ total' = Plus(total, job[j].counts)
    /\ job' = [job EXCEPT ![j] = [stage |-> "done", whole |-> job[j].whole]]
    /\ UNCHANGED <<picture, labels, late, delivered, rows, unseen, failures>>

----------------------------------------------------------------------------
Init ==
    /\ picture \in [Blob -> UNION {Picture[b] : b \in Blob}]
    /\ \A b \in Blob : picture[b] \in Picture[b]
    /\ labels \in [Post -> {{}} \cup {{place} : place \in Place}]
    /\ Cardinality({p \in Post : labels[p] # {}}) <= MaxLabelled
    /\ late = {} /\ delivered = [p \in Post |-> 0]
    /\ job = [j \in Job |-> Absent] /\ queue = <<>>
    /\ rows = [b \in Blob |-> <<>>] /\ total = NoCounts
    /\ unseen = {} /\ failures = {}

Next ==
    \/ \E p \in Post : Deliver(p) \/ Moderate(p)
    \/ \E j \in Job :
        \/ \E fetched \in BOOLEAN : CheckMeta(j, fetched)
        \/ PassOn(j) \/ StartDownloads(j) \/ ClassifyImages(j) \/ ClassifyPanics(j)
        \/ \E i \in DOMAIN Images[j[1]], ok \in BOOLEAN : Downloaded(j, i, ok)
        \/ Skip(j) \/ WriteFails(j) \/ RecordCounts(j)
        \/ \E checked \in BOOLEAN : Save(j, checked)

Spec == Init /\ [][Next]_vars
----------------------------------------------------------------------------
(* Properties                                                              *)

\* Whatever is stored is fit: the post's label, if it has one by now, came
\* after it was created, and the picture is an off-centre selfie.  No failed
\* lookup lets a post through (prune_meta_stage.rs:21-22).
StoredIsFit ==
    \A b \in Blob : rows[b] # <<>> =>
        /\ \A i \in DOMAIN rows[b] : labels[rows[b][i]] = {} \/ rows[b][i] \in late
        /\ IsOffCentreSelfie(picture[b])

\* No count claims more decisions than images and refused posts, and each
\* rejection has a category, and at most one as its only one.
CountsMakeSense(c) ==
    /\ DOMAIN c = DOMAIN NoCounts
    /\ c.saved + c.rejected <= c.images + c.category["Metadata"]
    /\ MapThenSumSet(LAMBDA k : c.sole[k], DetectionCategory) <= c.rejected
    /\ c.rejected <= MapThenSumSet(LAMBDA k : c.category[k], DetectionCategory)

InHand == MapThenSumSet(LAMBDA j : job[j].counts.saved, At("saving"))
Rows   == MapThenSumSet(LAMBDA b : Len(rows[b]), Blob)

\* Delivering posts again, which the rewound cursor does at every reconnect
\* (firehose.rs:12-14), writes no image twice unless the check for it failed,
\* and "saved" counts the rows that were written and nothing else; counts make
\* sense whatever is replayed (pipeline/mod.rs:112-114).
ReplayAddsNoRow ==
    /\ \A b \in Blob : Len(rows[b]) <= IF b \in unseen THEN 2 ELSE 1
    /\ total.saved + InHand = Rows
    /\ CountsMakeSense(total)

\* An accepted image of a post that came through is in the table, unless a
\* download of this post or a write of this image failed.
NothingFitIsDropped ==
    \A j \in At("done") : job[j].whole =>
        \A i \in DOMAIN Images[j[1]] :
            LET b == Images[j[1]][i]
            IN  rows[b] = <<>> /\ b \notin failures => ~Fit(b)
=============================================================================
