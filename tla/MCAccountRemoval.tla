-------------------------- MODULE MCAccountRemoval --------------------------
(* Two bridges of one installation and an account either may read. *)
EXTENDS AccountRemoval, TLC

\* What a refresh does that outlived its lease is not followed further; a fault, a
\* login or logout and a removal each take the place of another.
LeaseCovers == ~outlived /\ faults + logins + asked <= 3
RemovalSymmetry == Permutations(Bridges)

=============================================================================
