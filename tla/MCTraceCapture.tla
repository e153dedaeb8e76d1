--------------------------- MODULE MCTraceCapture ---------------------------
(* TraceCapture with a grace period of three polls and an idle limit of two, *)
(* so that a write near the end of the grace period defers the kill.         *)
EXTENDS TraceCapture
=============================================================================
