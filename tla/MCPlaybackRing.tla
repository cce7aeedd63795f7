--------------------------- MODULE MCPlaybackRing ---------------------------
(* PlaybackRing on a small instance: the values are in the cfg files.       *)
EXTENDS PlaybackRing
=============================================================================
