------------------------- MODULE MCCapturePipeline -------------------------
(* CapturePipeline with a ring that holds two records: a third output in a  *)
(* row is lost, and a loss needs both slots of an empty ring to be written  *)
(* with the output that follows it.                                         *)
EXTENDS CapturePipeline
===========================================================================
