--------------------------- MODULE MCNetworkWakeup --------------------------
(* NetworkWakeup with interchangeable thread ids, CPUs and elements.         *)
EXTENDS NetworkWakeup, TLC

Symmetry == Permutations(Tids) \cup Permutations(CPU) \cup Permutations(Elements)
=============================================================================
