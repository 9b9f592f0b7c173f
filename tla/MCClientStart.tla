--------------------------- MODULE MCClientStart ---------------------------
(* The default instance and one with a profile. *)
EXTENDS ClientStart, TLC

StartSymmetry == Permutations(Launchers) \cup Permutations(Bridges)

=============================================================================
