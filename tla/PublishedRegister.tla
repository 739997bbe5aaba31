------------------------- MODULE PublishedRegister -------------------------
(***************************************************************************)
(* What PublishedList promises its consumers: for every feed a register    *)
(* that holds one whole publication or nothing, changes from one to the    *)
(* other in a single step, and never goes back to an earlier publication   *)
(* than the one it shows.  How the publisher builds the next publication,  *)
(* and what becomes of it when a cycle fails, does not show.               *)
(***************************************************************************)
EXTENDS Integers, Sequences

CONSTANT Feed           \* the (order, limit) specs that are published

VARIABLE served         \* per feed: <<>>, or the sequence of one publication

Init == served = [f \in Feed |-> <<>>]

\* The next publication takes the place of the one served, or of nothing.
Replace(f) ==
    /\ served' = [served EXCEPT ![f] = served'[f]]
    /\ Len(served'[f]) = 1
    /\ served[f] # <<>> => served[f][1].at <= served'[f][1].at

\* An empty publication, or an eviction, leaves nothing to serve.
Clear(f) == served' = [served EXCEPT ![f] = <<>>]

Next == \E f \in Feed : Replace(f) \/ Clear(f)

Spec == Init /\ [][Next]_served
=============================================================================
