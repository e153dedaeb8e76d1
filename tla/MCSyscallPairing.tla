-------------------------- MODULE MCSyscallPairing --------------------------
(* SyscallPairing with interchangeable rings and threads.                           *)
EXTENDS SyscallPairing, TLC

Symmetry == Permutations(CPU) \cup Permutations(Threads)
=============================================================================
