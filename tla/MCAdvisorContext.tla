--------------------------- MODULE MCAdvisorContext ---------------------------
(* A source of up to three messages, one of them not rendered, and a second  *)
(* source behind the next binding.                                           *)
EXTENDS AdvisorContext, TLC

=============================================================================
