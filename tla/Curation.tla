------------------------------- MODULE Curation -------------------------------
(***************************************************************************)
(* What decides which posts stand in a list and how people tend it: the    *)
(* publisher's ranking (Ranking), its existence checker with a verdict     *)
(* cached for a TTL (bluesky/existence.rs), the manual appraisals and the  *)
(* admin pages of skeet-appraise (admin.rs, feed_snapshot.rs).  Redis      *)
(* commands, table versions and readers one by one are Publisher's; here a *)
(* cycle reads at once, then probes posts, then images, then writes.       *)
(*                                                                         *)
(* Images and posts are numbers, ordered as their ids.                     *)
(***************************************************************************)
EXTENDS Ranking

CONSTANTS
    Image, Skeet,
    Models,         \* model versions scores may be of, registered or not
    Order,          \* the order of the published list
    Window,         \* its limit, in ticks
    Ttl,            \* the existence TTL, in ticks
    ProbeTime,      \* how long a batch of probes may take, in ticks
    PageSize,
    Scene           \* bounds: rows and scores (a set) a behaviour starts with, and
                    \* how often each event may happen in it

VARIABLES
    left,       \* how often each event may still happen
    now,
    images,     \* rows of the images table, in the order of a scan
    scores,     \* the scores table
    imageManual, skeetManual,   \* the appraisal tables
    version,    \* counts changes of scores and appraisals
    goneAt,     \* when a post or an image went from Bluesky
    checked,    \* the checker's caches, of posts and of images
    cycle,      \* a publication under way
    published,  \* the list, and the version it is of
    gate,       \* the version at the last publication
    walk        \* a walk through the admin pages

store == <<images, scores, imageManual, skeetManual, version>>
publishing == <<checked, cycle, published, gate>>
vars == <<left, now, store, goneAt, publishing, walk>>

Post(s) == <<"skeet", s>>
Url(i) == <<"image", i>>
Target == {Post(s) : s \in Skeet} \cup {Url(i) : i \in Image}

Row == [image : Image, skeet : Skeet, discovered : Nat, original : Nat]
Verdict == [exists : BOOLEAN, sure : BOOLEAN]

\* Probes take time, and image ids are keys of the table.
ASSUME CurationConstants ==
    /\ Image \subseteq Nat /\ Skeet \subseteq Nat
    /\ {Window, Ttl, ProbeTime} \subseteq Nat /\ Ttl + ProbeTime > 0
    /\ PageSize \in Nat \ {0} /\ Order \in {"recency", "quality", "quality,recency"}
    /\ None \notin Verdict \cup [at : Nat, exists : BOOLEAN, sure : BOOLEAN]
    /\ \A scene \in Scene :
        /\ scene.images \in Seq(Row)
        /\ \A k, l \in DOMAIN scene.images :
            scene.images[k].image = scene.images[l].image => k = l
        /\ scene.scores \subseteq [Image -> {None} \cup [score : 0 .. Scale, model : Models]]

NoCycle == [phase |-> "idle"]
NoWalk == [phase |-> "closed"]

\* An event of which there are some left.
Spend(event) == left[event] > 0 /\ left' = [left EXCEPT ![event] = @ - 1]

----------------------------------------------------------------------------
(* The store and the world.                                                *)

Stored == {images[k].image : k \in DOMAIN images}

\* No time passes but between cycles and while probes are out.
Tick ==
    /\ \/ cycle = NoCycle
       \/ /\ cycle # NoCycle /\ DOMAIN cycle.answers # {}
          /\ now - cycle.since < ProbeTime
    /\ Spend("tick") /\ now' = now + 1
    /\ UNCHANGED <<store, goneAt, publishing, walk>>

\* A new row; its stamp is of its detection, which may be before others'.
Save(i, s, stamp) ==
    /\ Spend("save") /\ i \notin Stored /\ stamp <= now
    /\ images' = Append(images, [image |-> i, skeet |-> s, discovered |-> stamp, original |-> now])
    /\ UNCHANGED <<now, scores, imageManual, skeetManual, version, goneAt, publishing, walk>>

\* live-refine, or a revalidation with another model.
Score(i, score, model) ==
    /\ Spend("score") /\ i \in Stored
    /\ scores' = [scores EXCEPT ![i] = [score |-> score, model |-> model]]
    /\ version' = version + 1
    /\ UNCHANGED <<now, images, imageManual, skeetManual, goneAt, publishing, walk>>

\* A band, or None to clear it.
AppraiseImage(i, band) ==
    /\ Spend("appraise") /\ i \in Stored /\ imageManual[i] # band
    /\ imageManual' = [imageManual EXCEPT ![i] = band]
    /\ version' = version + 1
    /\ UNCHANGED <<now, images, scores, skeetManual, goneAt, publishing, walk>>

AppraiseSkeet(s, band) ==
    /\ Spend("appraise") /\ skeetManual[s] # band
    /\ skeetManual' = [skeetManual EXCEPT ![s] = band]
    /\ version' = version + 1
    /\ UNCHANGED <<now, images, scores, imageManual, goneAt, publishing, walk>>

Delete(t) ==
    /\ Spend("delete") /\ goneAt[t] = None
    /\ goneAt' = [goneAt EXCEPT ![t] = now]
    /\ UNCHANGED <<now, store, publishing, walk>>

----------------------------------------------------------------------------
(* A publication.                                                          *)

Windowed == {k \in DOMAIN images : images[k].original >= now - Window}

\* Scores of models that are no longer registered are left out.
IsScored(k) ==
    /\ scores[images[k].image] # None
    /\ scores[images[k].image].model \in DOMAIN Threshold

\* fetch_summaries_for_scores: rows with their scores.
Joined(rows) ==
    [k \in rows |->
        [image |-> images[k].image, skeet |-> images[k].skeet, original |-> images[k].original,
         score |-> scores[images[k].image].score, model |-> scores[images[k].image].model]]

Fetched == Joined({k \in Windowed : IsScored(k)})

\* publish_if_changed: something has changed or the list is missing.  An empty
\* list has no key.
Begin ==
    /\ cycle = NoCycle /\ Spend("publish")
    /\ gate # version \/ published.list = <<>>
    /\ \E list \in PublishedForSpec(Order, now - Window, Fetched, imageManual, skeetManual) :
           cycle' = [phase |-> "skeets", version |-> version, since |-> now, lost |-> {}, answers |-> <<>>,
                     list |-> [n \in DOMAIN list |-> [image |-> list[n].image, skeet |-> list[n].skeet]]]
    /\ UNCHANGED <<now, store, goneAt, checked, published, gate, walk>>

Wanted(phase) ==
    {IF phase = "skeets" THEN Post(cycle.list[n].skeet) ELSE Url(cycle.list[n].image) :
        n \in DOMAIN cycle.list}

\* Faulty: a verdict of exactly that age is still used.
StaleLater(t) == checked[t] = None \/ now - checked[t].at > Ttl

Stale(t) == checked[t] = None \/ now - checked[t].at >= Ttl

\* What a probe of t may say: an inconclusive one says that it exists, one
\* whose task panics says nothing.
Outcome(t) ==
    {[exists |-> goneAt[t] = None, sure |-> TRUE]} \cup
    (IF left["doubt"] > 0 THEN {[exists |-> TRUE, sure |-> FALSE], None} ELSE {})

Answers(stale) == {f \in [stale -> UNION {Outcome(t) : t \in stale}] :
                    \A t \in stale : f[t] \in Outcome(t)}

Doubtful(answers) == {t \in DOMAIN answers : answers[t] = None \/ ~answers[t].sure}

Probing(phase) == IF phase = "skeets" THEN "probing skeets" ELSE "probing images"

\* The probes of a batch go out ...
Probe(phase) ==
    LET stale == {t \in Wanted(phase) : Stale(t)}
    IN  /\ cycle.phase = phase
        /\ \E answers \in Answers(stale) :
            /\ Cardinality(Doubtful(answers)) <= left["doubt"]
            /\ left' = [left EXCEPT !["doubt"] = @ - Cardinality(Doubtful(answers))]
            /\ cycle' = [cycle EXCEPT !.phase = Probing(phase), !.answers = answers, !.since = now]
        /\ UNCHANGED <<now, store, goneAt, checked, published, gate, walk>>

\* ... and all are back.
Told(phase) ==
    /\ cycle.phase = Probing(phase)
    /\ LET told == {t \in DOMAIN cycle.answers : cycle.answers[t] # None}
       IN  /\ checked' = [t \in Target |->
                IF t \in told
                THEN [at |-> now, exists |-> cycle.answers[t].exists, sure |-> cycle.answers[t].sure]
                ELSE checked[t]]
           /\ cycle' = [cycle EXCEPT !.phase = IF phase = "skeets" THEN "images" ELSE "writing",
                                     !.answers = <<>>, !.lost = @ \cup (DOMAIN cycle.answers \ told)]
    /\ UNCHANGED <<left, now, store, goneAt, published, gate, walk>>

Exists(t) == checked[t] = None \/ checked[t].exists

Write ==
    /\ cycle.phase = "writing"
    /\ published' = [version |-> cycle.version,
                     list |-> [n \in DOMAIN cycle.list |->
                        LET item == cycle.list[n]
                        IN  [image |-> item.image, skeet |-> item.skeet,
                             live |-> Exists(Post(item.skeet)) /\ Exists(Url(item.image))]]]
    /\ gate' = cycle.version
    /\ cycle' = NoCycle
    /\ UNCHANGED <<left, now, store, goneAt, checked, walk>>

\* Redis drops the key.
Lose ==
    /\ Spend("lose")
    /\ published' = [version |-> None, list |-> <<>>]
    /\ UNCHANGED <<now, store, goneAt, checked, cycle, gate, walk>>

Restart ==
    /\ Spend("restart")
    /\ cycle' = NoCycle /\ gate' = None
    /\ checked' = [t \in Target |-> None]
    /\ UNCHANGED <<now, store, goneAt, published, walk>>
----------------------------------------------------------------------------
(* skeet-appraise.                                                         *)

\* The band in force that a row of the admin pages shows, whatever its view.
AdminBand(i, s) ==
    LET image == IF scores[i] = None THEN imageManual[i] ELSE ImageBand(scores[i], imageManual[i])
    IN  IF image = None THEN skeetManual[s] ELSE SkeetBand(skeetManual[s], {image})

\* build_rows: a row is of an image, and appraises it or its post.
AdminRow(k, view) ==
    LET row == images[k]
    IN  [image  |-> row.image,
         item   |-> IF view = "image" THEN Url(row.image) ELSE Post(row.skeet),
         manual |-> IF view = "image" THEN imageManual[row.image] ELSE skeetManual[row.skeet],
         band   |-> AdminBand(row.image, row.skeet)]

\* render_updated_row: after an appraisal, the first row with the item.
UpdatedRow(item) ==
    LET view == item[1]
        of   == {k \in DOMAIN images : AdminRow(k, view).item = item}
    IN  AdminRow(Min(of), view)

\* The handler of the table: its rows with the scores and both tables of
\* appraisals as they are by then.
AdminPage(page) == {AdminRow(k, "skeet") : k \in page}

OpenAdmin ==
    /\ walk = NoWalk /\ Spend("walk")
    /\ walk' = [phase |-> "open", before |-> None, pages |-> <<>>, edges |-> {}, start |-> Stored]
    /\ UNCHANGED <<now, store, goneAt, publishing>>

\* Faulty: the next page starts with what ties with the last row.
NotAfter(stamp, cursor) == stamp <= cursor

Before(stamp, cursor) == stamp < cursor

\* list_summaries_page: the newest rows before the cursor, which is the stamp
\* of the last row of the page before.  Rows of one stamp come in any order.
NextPage ==
    LET rows  == {k \in DOMAIN images :
                    walk.before = None \/ Before(images[k].discovered, walk.before)}
        newest(page) == \A k \in page, l \in rows \ page : images[k].discovered >= images[l].discovered
        shown(page)  == Append(walk.pages, AdminPage(page))
        last(page)   == Min({images[k].discovered : k \in page})
    IN  /\ walk.phase = "open"
        /\ IF Cardinality(rows) <= PageSize
           THEN walk' = [walk EXCEPT !.phase = "done", !.pages = shown(rows)]
           ELSE \E page \in kSubset(PageSize, rows) :
                    /\ newest(page)
                    /\ walk' = [walk EXCEPT !.before = last(page), !.pages = shown(page),
                                            !.edges = @ \cup {last(page)}]
        /\ UNCHANGED <<left, now, store, goneAt, publishing>>

\* The home page shows the list without what has no score any more ...
HomeItems == {n \in DOMAIN published.list : scores[published.list[n].image] # None}

\* ... and the band of each entry.
HomeBand(item) ==
    SkeetBand(skeetManual[item.skeet], {ImageBand(scores[item.image], imageManual[item.image])})

----------------------------------------------------------------------------
Init ==
    /\ \E scene \in Scene :
        /\ left = scene.left /\ images = scene.images
        /\ scores \in scene.scores
    /\ now = 0 /\ version = 0 /\ gate = None
    /\ imageManual = [i \in Image |-> None] /\ skeetManual = [s \in Skeet |-> None]
    /\ goneAt = [t \in Target |-> None] /\ checked = [t \in Target |-> None]
    /\ cycle = NoCycle /\ published = [version |-> None, list |-> <<>>]
    /\ walk = NoWalk

Appraise ==
    \E band \in Band \cup {None} :
        (\E i \in Image : AppraiseImage(i, band)) \/ (\E s \in Skeet : AppraiseSkeet(s, band))

Next ==
    \/ Tick \/ Begin \/ Write \/ Lose \/ Restart \/ OpenAdmin \/ NextPage \/ Appraise
    \/ \E i \in Image, s \in Skeet, stamp \in 0 .. now : Save(i, s, stamp)
    \/ \E i \in Image, x \in 0 .. Scale, model \in Models : Score(i, x, model)
    \/ \E t \in Target : Delete(t)
    \/ \E phase \in {"skeets", "images"} : Probe(phase) \/ Told(phase)

Spec == Init /\ [][Next]_vars
----------------------------------------------------------------------------
(* Properties                                                              *)

\* A list that is written does not show for longer than the TTL and the
\* batches of probes take what has gone before, unless its last probe was
\* inconclusive or got lost (existence.rs:85-89, "at most one TTL late").
DeletionIsSeen ==
    [][Write =>
        LET seen(t, batches) ==
                \/ t \in cycle.lost \/ ~checked[t].sure
                \/ goneAt[t] = None \/ now - goneAt[t] < Ttl + batches * ProbeTime
        IN  \A n \in {k \in DOMAIN cycle.list : published'.list[k].live} :
                seen(Post(cycle.list[n].skeet), 3) /\ seen(Url(cycle.list[n].image), 2)]_vars

\* A walk through the admin pages shows each image that was there at its
\* start on one page, whatever is saved meanwhile; only images that tie with
\* the last one of a page may be missing (images.rs:197-217).
PagesCoverTheTable ==
    walk # NoWalk =>
        LET on(page) == {row.image : row \in page}
            shown == on(UNION ToSet(walk.pages))
            tied  == {images[k].image : k \in {k \in DOMAIN images : images[k].discovered \in walk.edges}}
        IN  /\ walk.phase = "done" => walk.start \subseteq shown \cup tied
            /\ \A p, q \in DOMAIN walk.pages : p # q => on(walk.pages[p]) \cap on(walk.pages[q]) = {}

\* While nothing has changed since, the pages of skeet-appraise agree with the
\* list the publisher wrote: every entry is in a visible band, the same on
\* both pages, and a list by quality goes from better bands to worse
\* (feed_snapshot.rs:142-144, admin.rs:195-197).
PagesAgreeWithTheList ==
    published.version = version =>
        LET item(n) == published.list[n]
        IN  /\ \A n \in HomeItems :
                /\ IsVisibleInFeed(HomeBand(item(n)))
                /\ UpdatedRow(Url(item(n).image)).band = HomeBand(item(n))
                /\ UpdatedRow(Post(item(n).skeet)).manual = skeetManual[item(n).skeet]
            /\ Order # "recency" => \A m, n \in HomeItems :
                m < n => HomeBand(item(m)) >= HomeBand(item(n))
===============================================================================
