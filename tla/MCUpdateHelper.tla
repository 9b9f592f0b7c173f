-------------------------- MODULE MCUpdateHelper --------------------------
(* An install, a rollback and a rollback of the rollback, in one work        *)
(* directory, with crashes and failures at every step.                      *)
EXTENDS UpdateHelper

=============================================================================
