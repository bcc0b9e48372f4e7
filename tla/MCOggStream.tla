----------------------------- MODULE MCOggStream -----------------------------
(* OggStream with two titles to tell apart and threads of the pool that    *)
(* could run two pushes of the dock at once.                               *)
EXTENDS OggStream, TLC

StreamSymmetry == Permutations(Titles) \union Permutations(Pool)
=============================================================================
