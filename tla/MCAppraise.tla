------------------------------ MODULE MCAppraise ------------------------------
(* Small instances of what the admin pages change and show, and of the site  *)
(* they are part of.  Curation has a scene for each of its parts: appraisals *)
(* and scores of a post with two images and another one; deletions and       *)
(* probes; a walk through the admin pages while images are saved.            *)
EXTENDS Curation

CONSTANTS Tab, Account, Allowed, Path, Catalogs, MaxLogins, MaxVisits, MaxFaults

VARIABLES
    part,       \* "curation" or "site"
    mode, session, tab, catalog, logins, visits, faults

Site == INSTANCE AppraiseSite

ASSUME Site!AppraiseSiteConstants

Thresholds == [v \in {"old", "new"} |-> IF v = "old" THEN 2 ELSE 1]

Line(i, s, stamp) == [image |-> i, skeet |-> s, discovered |-> stamp, original |-> 0]
Nothing == [e \in {"tick", "save", "score", "appraise", "delete", "publish", "doubt",
                   "lose", "restart", "walk"} |-> 0]
Scored(x, v) == [score |-> x, model |-> v]

Appraising ==
    [images |-> <<Line(1, 1, 0), Line(2, 1, 0), Line(3, 2, 0)>>,
     scores |-> {[i \in Image |-> IF i = 3 THEN Scored(3, "old") ELSE
                                  IF i \in {1, 2} THEN pair[i] ELSE None] :
                    pair \in {<<Scored(2, "old"), Scored(4, "new")>>, <<Scored(2, "old"), None>>,
                             <<Scored(4, "new"), Scored(4, "new")>>, <<None, None>>}},
     left |-> [Nothing EXCEPT !["score"] = 1, !["appraise"] = 2, !["publish"] = 1]]

Deleting ==
    [images |-> <<Line(1, 1, 0), Line(2, 2, 0)>>,
     scores |-> {[i \in Image |-> IF i \in {1, 2} THEN Scored(4, "old") ELSE None]},
     left |-> [Nothing EXCEPT !["tick"] = 4, !["delete"] = 1, !["publish"] = 2,
                             !["doubt"] = 1, !["restart"] = 1, !["lose"] = 1]]

Walking ==
    [images |-> <<Line(1, 1, 0), Line(2, 1, 0), Line(3, 2, 0)>>,
     scores |-> {[i \in Image |-> None]},
     left |-> [Nothing EXCEPT !["tick"] = 2, !["save"] = 2, !["walk"] = 1]]

Resting ==
    [images |-> <<>>, scores |-> {[i \in Image |-> None]}, left |-> Nothing]

Scenes == {Appraising, Deleting, Walking, Resting}

Feed(o, c, u) == [order |-> o, count |-> c, unit |-> u]
Shelves == {{}, {Feed("recency", 48, "h"), Feed("quality,recency", 48, "h"),
                 Feed("quality", 24, "h"), Feed("quality", 1, "d")}}
Paths == {[page |-> p, feed |-> None] : p \in {"admin", "home", "logout", "static"}}
   \cup {[page |-> "home", feed |-> <<"recency", h, "h">>] : h \in {0, 48}}

siteVars == <<mode, session, tab, catalog, logins, visits, faults>>

\* The part that does not run rests in an initial state.
AppraiseInit ==
    /\ Init /\ Site!Init
    /\ \/ part = "curation" /\ images # <<>> /\ catalog = {} /\ mode = Site!Mode(TRUE, {}, FALSE)
       \/ part = "site" /\ images = <<>>

AppraiseNext ==
    /\ UNCHANGED part
    /\ \/ part = "curation" /\ Next /\ UNCHANGED siteVars
       \/ part = "site" /\ Site!Next /\ UNCHANGED vars

AppraiseSpec == AppraiseInit /\ [][AppraiseNext]_<<vars, part, siteVars>>

----------------------------------------------------------------------------
\* AppraiseSite: pages that are not public show to the list only
\* (require_auth.rs:12-22).
OnlyTheListIsServed == Site!OnlyTheListIsServed

\* AppraiseSite: a sign-in goes on to the page it was opened for
\* (auth.rs:180-187).
LandsWhereItAsked == Site!LandsWhereItAsked

\* AppraiseSite: the feed that was picked is shown, and marked in the dropdown
\* (available_feeds.rs:91-111).
PickedFeedIsShown == Site!PickedFeedIsShown
===============================================================================
