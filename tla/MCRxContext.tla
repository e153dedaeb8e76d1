---------------------------- MODULE MCRxContext ----------------------------
(* RxContext with one skb address in two generations that share the only   *)
(* slot of the owner table, a window of one tick, and room for two entries *)
(* or three units of memory.                                               *)
EXTENDS RxContext

MCHash == [k \in Keys \X Generations |-> 0]
===========================================================================
