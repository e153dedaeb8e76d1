------------------------------ MODULE MCTraffic -----------------------------
(* Traffic with interchangeable threads and elements.                       *)
EXTENDS Traffic, TLC

Symmetry == Permutations(Threads) \cup Permutations(Elements)
=============================================================================
