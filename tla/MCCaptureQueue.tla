-------------------------- MODULE MCCaptureQueue --------------------------
(* CaptureQueue on rings of 5 and 7 cells, with a header of 2: a ring holds *)
(* one to three records, frames wrap at every offset, and offers are        *)
(* refused for size (4 > MaxSample) as well as for space.                   *)
EXTENDS CaptureQueue

MCCapacities == {2, 5, 7}
MCSizes == {1, 3, 4}
MCLostCounts == {2}
===========================================================================
