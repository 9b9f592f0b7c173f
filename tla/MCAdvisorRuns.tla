--------------------------- MODULE MCAdvisorRuns ---------------------------
(* Two requests in up to two conversations; the settings may change and     *)
(* change back, the source and the history change once each.                *)
EXTENDS AdvisorRuns, TLC

AdvisorSymmetry == Permutations(Runs) \cup Permutations(Threads) \cup Permutations(Settings)

=============================================================================
