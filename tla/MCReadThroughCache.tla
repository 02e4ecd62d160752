------------------------- MODULE MCReadThroughCache -------------------------
(* ReadThroughCache for TLC. *)
EXTENDS ReadThroughCache
=============================================================================
