------------------------------ MODULE MCPlayer ------------------------------
(***************************************************************************)
(* Player.tla for TLC: the pipelines of one kind are interchangeable, and  *)
(* so are the workers.                                                     *)
(***************************************************************************)
EXTENDS Player, TLC

Plain == Pipes \ (Ffmpeg \cup Ytdl)

Symmetry == Permutations(Ffmpeg) \cup Permutations(Ytdl) \cup Permutations(Plain)
              \cup Permutations(Workers)
=============================================================================
