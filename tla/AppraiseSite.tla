----------------------------- MODULE AppraiseSite -----------------------------
(***************************************************************************)
(* skeet-appraise as its visitors meet it: every page but a few is behind  *)
(* a sign-in with GitHub (require_auth.rs, auth.rs), and the home page     *)
(* shows one of the feeds in the publisher's catalog (available_feeds.rs). *)
(*                                                                         *)
(* One browser with several tabs shares one session.  The session library  *)
(* reads a session's record when a request first touches it and writes all *)
(* of it back when the request is answered, so that requests which overlap *)
(* overwrite each other; an error answer writes nothing.                   *)
(***************************************************************************)
EXTENDS Integers, Sequences, SequencesExt, FiniteSets, FiniteSetsExt

CONSTANTS
    Tab,
    Account,    \* GitHub accounts the person at the browser may use
    Allowed,    \* those in --admin-users
    Path,       \* what a tab may ask for: [page |-> ..., feed |-> a name or None]
    Catalogs,   \* the sets of feeds the publisher may advertise
    None,
    MaxLogins, MaxVisits, MaxFaults     \* bounds

VARIABLES
    mode,       \* how the server was started
    session,    \* the stored record of the browser's session
    tab,
    catalog,
    logins, visits, faults      \* counters, the first of which numbers csrf states

vars == <<mode, session, tab, catalog, logins, visits, faults>>

\* Nobody signed in, no sign-in under way.  oauth_redirect_url comes and goes
\* with csrf_state.
NoSession == [csrfState |-> None, returnTo |-> None, appraiser |-> None]
Idle == [at |-> "idle"]

LocalAdmin == "local:admin"

----------------------------------------------------------------------------
(* The feeds of the home page.                                             *)

Orders == <<"quality,recency", "quality", "recency">>
Units == {"h", "d", "w", "y"}
HoursOf(unit) == CASE unit = "h" -> 1 [] unit = "d" -> 24 [] unit = "w" -> 168 [] unit = "y" -> 8760

\* A feed is an order and a limit, which keeps its unit; its name is written
\* out in the order, the count and the unit.
SpecValue(feed) == <<feed.order, feed.count, feed.unit>>

\* The publisher advertises what it was given to publish, all of which parsed.
Feeds == [order : ToSet(Orders), count : Nat \ {0}, unit : Units]

AppraiseSiteConstants ==
    /\ Allowed \subseteq Account
    /\ {MaxLogins, MaxVisits, MaxFaults} \subseteq Nat
    /\ \A feeds \in Catalogs : IsFiniteSet(feeds) /\ feeds \subseteq Feeds
    /\ None \notin Account \cup Nat \cup Feeds
    /\ \A feed \in UNION Catalogs : SpecValue(feed) # None

\* Faulty: a limit is read back in its shortest form.
ParseShortest(name) ==
    LET feed == [order |-> name[1], count |-> name[2], unit |-> name[3]]
    IN  IF Len(name) # 3 THEN None
        ELSE IF feed.unit = "h" /\ feed.count % 24 = 0
             THEN [feed EXCEPT !.count = @ \div 24, !.unit = "d"] ELSE feed

ParseSpec(name) ==
    IF /\ Len(name) = 3
       /\ name[1] \in ToSet(Orders) /\ name[2] > 0 /\ name[3] \in Units
    THEN [order |-> name[1], count |-> name[2], unit |-> name[3]]
    ELSE None

WindowHours(feed) == feed.count * HoursOf(feed.unit)

\* The orders as listed, shorter windows first.
DropdownKey(feed) ==
    <<CHOOSE n \in DOMAIN Orders : Orders[n] = feed.order, WindowHours(feed)>>

\* Sorted by that key; 24h and 1d tie, and come as redis gives them.
Sorted(specs) ==
    \A m, n \in DOMAIN specs :
        LET k == DropdownKey(specs[m])
            l == DropdownKey(specs[n])
        IN  m < n => k[1] < l[1] \/ (k[1] = l[1] /\ k[2] <= l[2])

PreferredDefault == [order |-> "quality,recency", count |-> 48, unit |-> "h"]

DefaultSpec(specs) == IF PreferredDefault \in ToSet(specs) THEN PreferredDefault ELSE specs[1]

\* None is an unknown feed: 400.
Resolve(specs, requested) ==
    IF requested = None THEN DefaultSpec(specs)
    ELSE LET feed == IF ParseSpec(requested) \in ToSet(specs) THEN ParseSpec(requested) ELSE None
         IN  feed

\* The home page for some order of the catalog; without feeds it is a 404.
Home(requested) ==
    IF catalog = {} THEN {[feed |-> None, options |-> <<>>]}
    ELSE {LET feed == Resolve(specs, requested)
          IN  [feed |-> feed,
               options |-> IF feed = None THEN <<>> ELSE
                   [n \in DOMAIN specs |-> [value |-> SpecValue(specs[n]), selected |-> specs[n] = feed]]] :
              specs \in {s \in SetToSeqs(catalog) : Sorted(s)}}

----------------------------------------------------------------------------
(* A request, behind RequireAuthLayer.                                     *)

IsPublic(path) == path.page \in {"health", "favicon", "static"}

\* The one of --local-admin comes before the one of the session.
ResolveAppraiser == IF mode.localAdmin THEN LocalAdmin ELSE session.appraiser

Ask(t, path) ==
    /\ tab' = [tab EXCEPT ![t] = [at |-> "asking", path |-> path]]
    /\ UNCHANGED <<mode, session, catalog, logins, faults>>

\* Someone types an address or follows a link ...
Visit(t, path) ==
    /\ tab[t].at \in {"idle", "page"} /\ visits < MaxVisits
    /\ visits' = visits + 1
    /\ Ask(t, path)

\* ... or picks a feed from the dropdown of the home page.
Pick(t) ==
    /\ tab[t].at = "page" /\ tab[t].path.page = "home" /\ visits < MaxVisits
    /\ visits' = visits + 1
    /\ \E n \in DOMAIN tab[t].home.options :
        tab' = [tab EXCEPT ![t] = [at |-> "asking", from |-> tab[t].home,
                    path |-> [page |-> "home", feed |-> tab[t].home.options[n].value]]]
    /\ UNCHANGED <<mode, session, catalog, logins, faults>>

Page(t) == [at |-> "page", as |-> ResolveAppraiser, path |-> tab[t].path]
HomePage(t, home) ==
    [at |-> "page", as |-> ResolveAppraiser, path |-> tab[t].path, home |-> home]

\* Without an appraiser a tab is sent to the sign-in, with where it was going.
Answer(t) ==
    /\ tab[t].at = "asking"
    /\ LET path == tab[t].path
           allowed == IsPublic(path) \/ ResolveAppraiser # None
       IN  \/ ~allowed /\ tab' = [tab EXCEPT ![t] = [at |-> "login", asked |-> path]] /\ UNCHANGED session
           \/ /\ allowed /\ path.page = "logout"
              /\ session' = NoSession
              /\ tab' = [tab EXCEPT ![t] = [at |-> "asking", path |-> [page |-> "home", feed |-> None]]]
           \/ /\ allowed /\ path.page = "home"
              /\ \E home \in Home(path.feed) : tab' = [tab EXCEPT ![t] = HomePage(t, home)]
              /\ UNCHANGED session
           \/ /\ allowed /\ path.page \notin {"home", "logout"}
              /\ tab' = [tab EXCEPT ![t] = Page(t)] /\ UNCHANGED session
    /\ UNCHANGED <<mode, catalog, logins, visits, faults>>

----------------------------------------------------------------------------
(* The sign-in.                                                            *)

\* /auth/login, opened without saying where to go on.
OpenLogin(t) ==
    /\ tab[t].at = "idle" /\ visits < MaxVisits
    /\ visits' = visits + 1
    /\ tab' = [tab EXCEPT ![t] = [at |-> "login", asked |-> None]]
    /\ UNCHANGED <<mode, session, catalog, logins, faults>>

BeginLogin(t) ==
    /\ tab[t].at = "login" /\ logins < MaxLogins
    /\ IF mode.oauth
       THEN /\ logins' = logins + 1
            /\ tab' = [tab EXCEPT ![t] = [at |-> "opening", asked |-> tab[t].asked,
                                          state |-> logins, record |-> session]]
       ELSE tab' = [tab EXCEPT ![t] = Idle] /\ UNCHANGED logins
    /\ UNCHANGED <<mode, session, catalog, visits, faults>>

\* The record keeps the return_to of an earlier sign-in if this one has none.
EndLogin(t) ==
    /\ tab[t].at = "opening"
    /\ session' = [tab[t].record EXCEPT !.csrfState = tab[t].state,
                                        !.returnTo = IF tab[t].asked = None THEN @ ELSE tab[t].asked]
    /\ tab' = [tab EXCEPT ![t] = [at |-> "github", asked |-> tab[t].asked, state |-> tab[t].state]]
    /\ UNCHANGED <<mode, catalog, logins, visits, faults>>

\* Faulty: that a sign-in is under way is enough.
AnySignIn(t) == session.csrfState # None

StateMatches(t) == session.csrfState = tab[t].state

\* GitHub sends the tab back; the callback checks the state it brings and goes
\* on to ask GitHub who this is, with the record as it is now.
BeginCallback(t) ==
    /\ tab[t].at = "github"
    /\ tab' = [tab EXCEPT ![t] =
                IF StateMatches(t)
                THEN [at |-> "exchanging", asked |-> tab[t].asked,
                      record |-> [session EXCEPT !.csrfState = None]]
                ELSE Idle]
    /\ UNCHANGED <<mode, session, catalog, logins, visits, faults>>

\* The exchange of the code or the request for the user fails: an error.
FailExchange(t) ==
    /\ tab[t].at = "exchanging" /\ faults < MaxFaults
    /\ faults' = faults + 1
    /\ tab' = [tab EXCEPT ![t] = Idle]
    /\ UNCHANGED <<mode, session, catalog, logins, visits>>

\* Faulty: whoever has an account.
IsKnown(account) == account \in Account

IsAllowed(account) == account \in Allowed

\* GitHub names an account, or refuses to (None): 403 unless it is allowed.
EndCallback(t, account) ==
    /\ tab[t].at = "exchanging"
    /\ LET record == tab[t].record
           home == [page |-> "admin", feed |-> None]
       IN  IF account # None /\ IsAllowed(account)
           THEN /\ session' = [record EXCEPT !.appraiser = account, !.returnTo = None]
                /\ tab' = [tab EXCEPT ![t] = [at |-> "asking", path |->
                            IF record.returnTo = None THEN home ELSE record.returnTo]]
           ELSE /\ session' = record
                /\ tab' = [tab EXCEPT ![t] = Idle]
    /\ UNCHANGED <<mode, catalog, logins, visits, faults>>

\* A restart ends the requests under way; only sessions in redis survive.
Restart ==
    /\ faults < MaxFaults
    /\ faults' = faults + 1
    /\ session' = IF mode.useRedis THEN session ELSE NoSession
    /\ tab' = [t \in Tab |-> IF tab[t].at \in {"opening", "exchanging", "asking"} THEN Idle ELSE tab[t]]
    /\ UNCHANGED <<mode, catalog, logins, visits>>

\* The publisher starts with other --publish arguments.
Readvertise ==
    /\ faults < MaxFaults
    /\ faults' = faults + 1
    /\ catalog' \in Catalogs \ {catalog}
    /\ UNCHANGED <<mode, session, tab, logins, visits>>

----------------------------------------------------------------------------
\* OAuth is there if client id, secret and users all are given.
Mode(localAdmin, given, useRedis) ==
    [localAdmin |-> localAdmin, oauth |-> given = {"id", "secret", "users"}, useRedis |-> useRedis]

Init ==
    /\ \E localAdmin, useRedis \in BOOLEAN, given \in {{}, {"id"}, {"id", "secret", "users"}} :
        mode = Mode(localAdmin, given, useRedis)
    /\ session = NoSession /\ tab = [t \in Tab |-> Idle] /\ catalog \in Catalogs
    /\ logins = 0 /\ visits = 0 /\ faults = 0

Next ==
    \/ \E t \in Tab :
        \/ \E path \in Path : Visit(t, path)
        \/ \E account \in Account \cup {None} : EndCallback(t, account)
        \/ Pick(t) \/ Answer(t) \/ OpenLogin(t) \/ BeginLogin(t) \/ EndLogin(t)
        \/ BeginCallback(t) \/ FailExchange(t)
    \/ Restart \/ Readvertise

Spec == Init /\ [][Next]_vars

----------------------------------------------------------------------------
(* Properties                                                              *)

\* However requests overlap, fail or restart, a page that is not public shows
\* only to an account on the list, or to everyone in --local-admin mode, and
\* an unanswered sign-in shows nothing (require_auth.rs:12-22).
OnlyTheListIsServed ==
    \A t \in Tab : tab[t].at = "page" /\ ~IsPublic(tab[t].path) =>
        tab[t].as \in Allowed \/ (mode.localAdmin /\ tab[t].as = LocalAdmin)

\* A sign-in that was opened for a page goes on to that page, also when tabs
\* sign in at the same time and overwrite each other's session
\* (require_auth.rs:26-28, auth.rs:180-187).
LandsWhereItAsked ==
    [][\A t \in Tab, account \in Allowed :
        EndCallback(t, account) /\ tab[t].asked # None => tab'[t].path = tab[t].asked]_vars

\* The home page shows the feed that was picked from an earlier page while the
\* publisher still advertises it, and marks it and no other in the dropdown
\* (available_feeds.rs:91-111).
PickedFeedIsShown ==
    [][\A t \in Tab : Answer(t) /\ tab'[t].at = "page" /\ tab[t].path.page = "home" =>
        LET home == tab'[t].home
            offers(page) == {page.options[n].value : n \in DOMAIN page.options}
            selected == {n \in DOMAIN home.options : home.options[n].selected}
        IN  /\ home.feed # None => \E n \in DOMAIN home.options :
                selected = {n} /\ home.options[n].value = SpecValue(home.feed)
            /\ ("from" \in DOMAIN tab[t] /\ offers(tab[t].from) = {SpecValue(feed) : feed \in catalog}) =>
                home.feed # None /\ SpecValue(home.feed) = tab[t].path.feed]_vars
===============================================================================
