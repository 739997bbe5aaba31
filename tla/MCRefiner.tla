----------------------------- MODULE MCRefiner -----------------------------
(* Small instances of Refiner for TLC; see the README for the bounds.      *)
EXTENDS Refiner, TLC

\* Images are interchangeable: only the safety runs use this.
ImageSymmetry == Permutations(Image)
=============================================================================
