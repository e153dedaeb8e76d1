--------------------------- MODULE MCNativeExport ---------------------------
(* NativeExport with all packets in one slot and interchangeable sockets.    *)
(* Sizes 1 meet the limit on events, 3 the one on bytes; 4 fits nowhere.     *)
EXTENDS NativeExport, TLC

CONSTANTS p1, p2, p3

OneSlot == [p \in Packets |-> 1]
MCSizesOf == (p1 :> {1}) @@ (p2 :> {3}) @@ (p3 :> {1, 4})
OneSize == [p \in Packets |-> {1}]
Symmetry == Permutations(Sockets)
=============================================================================
