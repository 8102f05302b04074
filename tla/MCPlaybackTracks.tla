------------------------- MODULE MCPlaybackTracks -------------------------
(* PlaybackTracks with a fast and a normal track. *)
EXTENDS PlaybackTracks

CONSTANTS f1, f2, n1, n2
MCFast == {f1, f2}
MCNormal == {n1, n2}
MCStatic == {f2, n2}
=============================================================================
