---------------------------- MODULE MCLocalQueue ----------------------------
(* One conversation, all five requests, two workers.  Of the requests that a *)
(* disturbance overtakes, only those for the new messages are followed.      *)
EXTENDS LocalQueue

OvertakenScan == call.mode \in {"none", "incremental"}
=============================================================================
