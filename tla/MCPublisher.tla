---------------------------- MODULE MCPublisher ----------------------------
(* Small instances of Publisher for TLC; see the README for the bounds.    *)
EXTENDS Publisher

\* Windows are named by their width: the last day, and the last two.
Days == {1, 2}
=============================================================================
