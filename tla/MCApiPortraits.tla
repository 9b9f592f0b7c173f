--------------------------- MODULE MCApiPortraits ---------------------------
(* Four messages: the second one is long, the third one our own. *)
EXTENDS ApiPortraits

MCMessages == 1..4
MCLong == {2}
MCTheirs == {1, 2, 4}
MCPresent == {2, 3}

\* The context starts small and grows only with a switch.
Bounded == budget = Min(Budgets) \/ faults > 0

=============================================================================
