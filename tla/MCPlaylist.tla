----------------------------- MODULE MCPlaylist -----------------------------
(* TLC instances of Playlist. *)
EXTENDS Playlist, TLC

CONSTANTS a, b, s

TwoIds  == {a, b}
Recommended == {s}

SymTwo  == Permutations({a, b})
=============================================================================
