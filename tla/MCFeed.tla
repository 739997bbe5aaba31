-------------------------------- MODULE MCFeed --------------------------------
(* Small instances of Feed: two tiles that are both there, or only one.  A   *)
(* browser sees publications in different seconds and in one; two scrapers   *)
(* see one.                                                                  *)
EXTENDS Feed

CONSTANTS b1, s1, s2, t1, t2

Entries(first, second) == <<[tile |-> t1, live |-> first], [tile |-> t2, live |-> second]>>
Editions == {Entries(TRUE, TRUE), Entries(FALSE, TRUE)}
BrowserAndScrapers == {[who |-> {b1}, at |-> <<1, 2, 3>>], [who |-> {s1, s2}, at |-> <<1>>]}
=============================================================================
