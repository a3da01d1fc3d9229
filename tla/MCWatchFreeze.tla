--------------------------- MODULE MCWatchFreeze ---------------------------
(* Two watches, two values, and room for one write in a tick. *)
EXTENDS WatchFreeze

MCVal == 0..1
=============================================================================
