--------------------------- MODULE MCNodeAnalysis ---------------------------
(* Two callers on one channel, a local model's or an API worker's, whose     *)
(* child may be replaced once.  The callers are interchangeable.            *)
EXTENDS NodeAnalysis, TLC

CallerSymmetry == Permutations(Callers)

=============================================================================
