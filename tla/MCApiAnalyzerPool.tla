-------------------------- MODULE MCApiAnalyzerPool --------------------------
(* Instances of ApiAnalyzerPool for TLC. *)
EXTENDS ApiAnalyzerPool, TLC

=============================================================================
