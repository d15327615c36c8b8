----------------------------- MODULE MCPlaylist -----------------------------
(* Playlist with model values for the videos.  The playable ones are       *)
(* interchangeable.                                                        *)
EXTENDS Playlist, TLC

Symmetry == Permutations(Videos \ Broken)
=============================================================================
