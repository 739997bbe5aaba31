---------------------------------- MODULE Feed ----------------------------------
(***************************************************************************)
(* skeet-feed beside the publisher: the home page with its conditional GET *)
(* by Last-Modified (handlers.rs, web-support/conditional_get.rs), and the *)
(* preview picture with its montage cache and conditional GET by ETag      *)
(* (preview/mod.rs, montage.rs, selection.rs, tiles.rs).                   *)
(*                                                                         *)
(* A picture is the sequence of the tiles on it.  Of the published lists   *)
(* there is one; the fallback over several is Publisher's.                 *)
(***************************************************************************)
EXTENDS Integers, Sequences, SequencesExt, FiniteSets, Functions

CONSTANTS
    Browser,        \* clients of the home page
    Scraper,        \* clients of the preview
    Visits,         \* the traffic of a behaviour: who comes, and when a list
                    \* is published (half seconds, ascending)
    Edition,        \* what may be published: sequences of [tile, live]
    TileCount,      \* MONTAGE_TILE_COUNT
    CacheCapacity,  \* MONTAGE_CACHE_CAPACITY
    Placeholder,    \* the picture of placeholder_png
    Fallback,       \* the picture of FALLBACK_PNG
    None

FeedConstants ==
    /\ TileCount \in Nat \ {0} /\ CacheCapacity \in Nat \ {0} /\ None \notin Nat
    /\ \A v \in Visits :
        /\ v.who \subseteq Browser \cup Scraper /\ v.at \in Seq(Nat)
        /\ \A m, n \in DOMAIN v.at : m <= n => v.at[m] <= v.at[n]

VARIABLES
    visit,      \* the visit this behaviour is of
    list,       \* the list key: its entries and which publication wrote it
    stamp,      \* its refreshed-at key: when, and by which publication
    publisher,  \* a publication between RENAME and SET, or None
    page,       \* a home request between its two reads, or None
    grid,       \* each browser's copy: publications read, Last-Modified
    montages,   \* moka: the montage of a signature
    making,     \* regenerations under way: tiles still to come, tiles there
    tileCache,  \* decoded tiles
    lastGood,   \* last_good
    request,    \* each scraper's request
    refresh,    \* the refresh task a request has spawned
    picture     \* each scraper's copy: ETag and picture

home    == <<page, grid>>
server  == <<montages, making, tileCache, lastGood, request, refresh>>
vars    == <<visit, list, stamp, publisher, home, server, picture>>

Idle == [phase |-> "idle"]

----------------------------------------------------------------------------
(* The publisher: RENAME, then SET refreshed-at, with one time for both.    *)

Swap(entries) ==
    /\ publisher = None /\ list.pub < Len(visit.at)
    /\ list' = [pub |-> list.pub + 1, entries |-> entries]
    /\ publisher' = visit.at[list.pub + 1]
    /\ UNCHANGED <<visit, stamp, home, server, picture>>

SetRefreshedAt ==
    /\ publisher # None
    /\ stamp' = [pub |-> list.pub, at |-> publisher]
    /\ publisher' = None
    /\ UNCHANGED <<visit, list, home, server, picture>>

----------------------------------------------------------------------------
(* The home page.                                                          *)

\* HTTP dates have whole seconds.
Second(at) == at \div 2

\* LRANGE and GET are one round trip of two commands.
ReadList(b) ==
    /\ b \in visit.who /\ page[b] = None
    /\ page' = [page EXCEPT ![b] = list]
    /\ UNCHANGED <<visit, list, stamp, publisher, grid, server, picture>>

\* Faulty: the comparison the other way round.
NotModifiedUntil(since, at) == since # None /\ since <= Second(at)

NotModifiedSince(since, at) == since # None /\ Second(at) <= since

\* A 304 renews the date of the copy, a 200 replaces it.
AnswerHome(b) ==
    /\ page[b] # None
    /\ IF stamp.at = None
       THEN grid' = [grid EXCEPT ![b] = [list |-> page[b].pub, stamp |-> 0, modified |-> None]]
       ELSE grid' = [grid EXCEPT ![b] =
            IF NotModifiedSince(grid[b].modified, stamp.at)
            THEN [@ EXCEPT !.modified = Second(stamp.at)]
            ELSE [list |-> page[b].pub, stamp |-> stamp.pub, modified |-> Second(stamp.at)]]
    /\ page' = [page EXCEPT ![b] = None]
    /\ UNCHANGED <<visit, list, stamp, publisher, server, picture>>

----------------------------------------------------------------------------
(* The preview.                                                            *)

\* select_tiles: the signature is that of the ordered ids, so it stands for
\* them.
Selection(entries) ==
    LET live == SelectSeq(entries, LAMBDA e : e.live)
    IN  [i \in 1 .. (IF Len(live) < TileCount THEN Len(live) ELSE TileCount) |-> live[i].tile]

Signature == Selection(list.entries)

\* A montage that is served, made or warmed becomes the last good one.
Remember(png) == lastGood' = png

\* What there is without waiting.
LastGood == IF lastGood = None THEN Placeholder ELSE lastGood

Answered(s, sig, body) ==
    /\ picture' = [picture EXCEPT ![s] = [tag |-> sig, body |-> body]]
    /\ request' = [request EXCEPT ![s] = Idle]

\* The list is read, and then: 304, the committed fallback, a hit, or a
\* refresh spawned and waited for.
Ask(s) ==
    LET sig == Signature
    IN  /\ s \in visit.who /\ request[s] = Idle
        /\ \/ /\ picture[s].tag = sig
              /\ UNCHANGED <<picture, request, refresh, lastGood>>
           \/ /\ picture[s].tag # sig /\ sig = <<>>
              /\ Answered(s, sig, Fallback)
              /\ UNCHANGED <<refresh, lastGood>>
           \/ /\ picture[s].tag # sig /\ sig # <<>> /\ sig \in DOMAIN montages
              /\ Answered(s, sig, montages[sig])
              /\ Remember(montages[sig])
              /\ UNCHANGED refresh
           \/ /\ picture[s].tag # sig /\ sig # <<>> /\ sig \notin DOMAIN montages
              /\ refresh[s] = Idle
              /\ request' = [request EXCEPT ![s] = [phase |-> "waiting", sig |-> sig]]
              /\ refresh' = [refresh EXCEPT ![s] = [phase |-> "spawned", sig |-> sig]]
              /\ UNCHANGED <<picture, lastGood>>
        /\ UNCHANGED <<visit, list, stamp, publisher, home, montages, making, tileCache>>

\* try_get_with: what is cached, the regeneration under way, or a new one.
Join(s) ==
    LET sig == refresh[s].sig
    IN  /\ refresh[s].phase = "spawned"
        /\ IF sig \in DOMAIN montages
           THEN /\ refresh' = [refresh EXCEPT ![s] = [phase |-> "made", sig |-> sig, png |-> montages[sig]]]
                /\ UNCHANGED making
           ELSE /\ refresh' = [refresh EXCEPT ![s].phase = "joined"]
                /\ making' = IF sig \in DOMAIN making THEN making
                             ELSE [k \in DOMAIN making \cup {sig} |->
                                    IF k = sig THEN [pending |-> ToSet(sig), there |-> {}] ELSE making[k]]
        /\ UNCHANGED <<visit, list, stamp, publisher, home, montages, tileCache, lastGood,
                       request, picture>>

\* fetch_one: a cached tile is there at once; a failed one is not cached.
FetchTile(sig, tile, ok) ==
    /\ sig \in DOMAIN making /\ tile \in making[sig].pending
    /\ ok \/ tile \notin tileCache
    /\ making' = [making EXCEPT ![sig].pending = @ \ {tile},
                                ![sig].there = IF ok THEN @ \cup {tile} ELSE @]
    /\ tileCache' = IF ok THEN tileCache \cup {tile} ELSE tileCache
    /\ UNCHANGED <<visit, list, stamp, publisher, home, montages, lastGood, request, refresh,
                   picture>>

Composed(sig, there) == SelectSeq(sig, LAMBDA t : t \in there)

Finished(sig) == sig \in DOMAIN making /\ making[sig].pending = {}
Joined(sig) == {s \in Scraper : refresh[s].phase = "joined" /\ refresh[s].sig = sig}
Without(f, k) == Restrict(f, DOMAIN f \ {k})

\* A montage is cached even when tiles are missing.  An entry beyond the
\* capacity pushes out another or itself.
Compose(sig) ==
    LET png == Composed(sig, making[sig].there)
        all == [k \in DOMAIN montages \cup {sig} |-> IF k = sig THEN png ELSE montages[k]]
    IN  /\ Finished(sig)
        /\ IF Cardinality(DOMAIN all) <= CacheCapacity THEN montages' = all
           ELSE \E k \in DOMAIN all : montages' = Without(all, k)
        /\ making' = Without(making, sig)
        /\ refresh' = [s \in Scraper |->
                IF s \in Joined(sig) THEN [phase |-> "made", sig |-> sig, png |-> png] ELSE refresh[s]]
        /\ UNCHANGED <<visit, list, stamp, publisher, home, tileCache, lastGood, request,
                       picture>>

\* The encoder fails: every task that waits is told, nothing is cached.
ComposeFails(sig) ==
    /\ Finished(sig)
    /\ making' = Without(making, sig)
    /\ refresh' = [s \in Scraper |-> IF s \in Joined(sig) THEN Idle ELSE refresh[s]]
    /\ UNCHANGED <<visit, list, stamp, publisher, home, montages, tileCache, lastGood, request,
                   picture>>

\* Each refresh task ends on its own, in any order, and overwrites last_good.
\* The request takes the montage if it still waits.
FinishRefresh(s) ==
    /\ refresh[s].phase = "made"
    /\ Remember(refresh[s].png)
    /\ refresh' = [refresh EXCEPT ![s] = Idle]
    /\ IF request[s].phase = "waiting" THEN Answered(s, request[s].sig, refresh[s].png)
       ELSE UNCHANGED <<request, picture>>
    /\ UNCHANGED <<visit, list, stamp, publisher, home, montages, making, tileCache>>

\* Faulty: the work ends with the request that waits for it.
DropRefresh(s) ==
    /\ refresh' = [refresh EXCEPT ![s] = Idle]
    /\ making' = IF refresh[s].phase = "joined" /\ Joined(refresh[s].sig) = {s}
                 THEN Without(making, refresh[s].sig) ELSE making

LeaveRefresh(s) == UNCHANGED <<refresh, making>>

\* 200 ms are over, or the refresh has failed: the last good picture under
\* the tag of the wanted one.
AnswerStale(s) ==
    /\ request[s].phase = "waiting"
    /\ Answered(s, request[s].sig, LastGood)
    /\ LeaveRefresh(s)
    /\ UNCHANGED <<visit, list, stamp, publisher, home, montages, tileCache, lastGood>>

\* The copy of a scraper goes: another one, without a copy, comes.
Forget(s) ==
    /\ request[s] = Idle /\ picture[s].tag # None
    /\ picture' = [picture EXCEPT ![s] = [tag |-> None, body |-> None]]
    /\ UNCHANGED <<visit, list, stamp, publisher, home, server>>

----------------------------------------------------------------------------
\* warm: one generation awaited at startup, tiles missing or not; one that
\* fails or takes too long leaves the tiles it got.
Warmed ==
    \/ montages = << >> /\ lastGood = None /\ tileCache \in SUBSET ToSet(Signature)
    \/ \E there \in SUBSET ToSet(Signature) :
        /\ lastGood = Composed(Signature, there) /\ tileCache = there
        /\ montages = [sig \in {Signature} |-> lastGood]

\* A process starts with the list that stands.
Init ==
    /\ visit \in Visits
    /\ \E entries \in Edition \cup {<<>>} :
        /\ list = [pub |-> 0, entries |-> entries]
        /\ stamp = [pub |-> 0, at |-> IF entries = <<>> THEN None ELSE 0]
    /\ publisher = None
    /\ page = [b \in Browser |-> None]
    /\ grid = [b \in Browser |-> [list |-> 0, stamp |-> 0, modified |-> None]]
    /\ Warmed
    /\ making = << >>
    /\ request = [s \in Scraper |-> Idle] /\ refresh = [s \in Scraper |-> Idle]
    /\ picture = [s \in Scraper |-> [tag |-> None, body |-> None]]

Fetch == \E sig \in DOMAIN making : \E tile \in making[sig].pending, ok \in BOOLEAN : FetchTile(sig, tile, ok)

Next ==
    \/ SetRefreshedAt \/ Fetch
    \/ \E entries \in Edition : Swap(entries)
    \/ \E b \in Browser : ReadList(b) \/ AnswerHome(b)
    \/ \E s \in Scraper : Ask(s) \/ Join(s) \/ FinishRefresh(s) \/ AnswerStale(s) \/ Forget(s)
    \/ \E sig \in DOMAIN making : Compose(sig) \/ ComposeFails(sig)

Spec == Init /\ [][Next]_vars

\* Downloads end, tasks are polled, the encoder works some time and moka
\* admits what is asked for often, and the site is asked again and again by
\* clients without a copy.
Fairness ==
    /\ WF_vars(SetRefreshedAt) /\ WF_vars(Fetch)
    /\ \A s \in Scraper :
        WF_vars(Ask(s)) /\ WF_vars(Join(s)) /\ WF_vars(FinishRefresh(s)) /\ WF_vars(AnswerStale(s))
        /\ SF_vars(Forget(s))
    /\ SF_vars(\E sig \in DOMAIN making : Compose(sig) /\ sig \in DOMAIN montages')

FairSpec == Spec /\ Fairness
----------------------------------------------------------------------------
(* Properties                                                              *)

\* A list and a date that are of one publication.
Whole(copy) == copy.list = copy.stamp

\* When a publication was made; what a process starts with was there at 0.
MadeAt(pub) == IF pub = 0 THEN 0 ELSE visit.at[pub]

\* A 304 for the home page is true: the browser's copy is of the publication
\* that stands, unless list and date were torn apart, when the copy was made
\* or now, or the two publications share a second (conditional_get.rs:36-42).
NotModifiedIsTrue ==
    [][\A b \in Browser :
        AnswerHome(b) /\ grid'[b].list = grid[b].list /\ Whole(grid[b]) /\ page[b].pub = stamp.pub
            => \/ grid[b].list = page[b].pub
               \/ Second(MadeAt(grid[b].list)) = Second(MadeAt(page[b].pub))]_vars

\* The preview catches up with the feed: again and again the cache has the
\* montage of the list that stands, or there is nothing to show.
PictureCatchesUp ==
    []<>(visit.who \cap Scraper = {} \/ Signature = <<>> \/ Signature \in DOMAIN montages)

\* Equal signatures mean an identical montage (selection.rs:12-14): two
\* copies under one ETag are one picture.
EqualTagsMeanEqualPictures ==
    \A s, t \in Scraper : picture[s].tag = picture[t].tag => picture[s].body = picture[t].body
=============================================================================
