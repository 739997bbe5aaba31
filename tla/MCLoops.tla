------------------------------- MODULE MCLoops -------------------------------
(* Two services that catch up with a table or a list, one in a behaviour:    *)
(* live-refine with the rows of two images saved in the order of their       *)
(* stamps, and skeet-feed with two tiles that are both there, or only one.   *)
(* A browser sees publications in different seconds and in one; two scrapers *)
(* see one.                                                                  *)
EXTENDS Refiner, Sequences

CONSTANTS Browser, Scraper, Visits, Edition, TileCount, CacheCapacity, Placeholder, Fallback,
          b1, s1, s2, t1, t2

VARIABLES
    machine,
    visit, list, stamp, publisher, page, grid,
    montages, making, tileCache, lastGood, request, refresh, picture

Web == INSTANCE Feed

ASSUME Web!FeedConstants

Pair(first, second) == <<[tile |-> t1, live |-> first], [tile |-> t2, live |-> second]>>
Editions == {Pair(TRUE, TRUE), Pair(FALSE, TRUE)}
BrowserAndScrapers == {[who |-> {b1}, at |-> <<1, 2, 3>>], [who |-> {s1, s2}, at |-> <<1>>]}

webVars == <<visit, list, stamp, publisher, page, grid, montages, making, tileCache,
             lastGood, request, refresh, picture>>

\* Scrapers come to no list or to one with both tiles, which another replaces.
\* While live-refine runs the site rests, without a list or a scraper.
LoopsInit ==
    /\ machine \in {"feed", "refiner"}
    /\ Init /\ Web!Init
    /\ visit.who = Browser \/ Web!Signature \in {<<>>, <<t1, t2>>}
    /\ machine = "feed" \/ (visit.who = Browser /\ Web!Signature = <<>> /\ montages = << >>)

LoopsNext ==
    /\ UNCHANGED machine
    /\ \/ machine = "feed"    /\ Web!Next /\ UNCHANGED vars
       \/ machine = "refiner" /\ Next     /\ UNCHANGED webVars

LoopsSpec ==
    /\ LoopsInit /\ [][LoopsNext]_<<machine, vars, webVars>>
    /\ Web!Fairness
    /\ WF_vars(machine = "refiner" /\ Tick)

----------------------------------------------------------------------------
(* The properties of the site; EveryImageTried is Refiner's.                *)

\* Feed: a 304 for the home page is true.
NotModifiedIsTrue == Web!NotModifiedIsTrue

\* Feed: the preview catches up with the list.
PictureCatchesUp == Web!PictureCatchesUp
=============================================================================
