------------------------- MODULE MCTimedEventQueue -------------------------
(* TimedEventQueue, for TLC. *)
EXTENDS TimedEventQueue, TLC
=============================================================================
