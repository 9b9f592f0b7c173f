---------------------------- MODULE BoundedLeases ----------------------------
(***************************************************************************)
(* What the shared lane of the API analyzer pool promises its callers,     *)
(* with every mechanism left out: a caller either holds a lease or it does *)
(* not, and a lease is only handed out below a capacity that may itself be *)
(* moved at any time.  Lowering the capacity never takes a lease away, so  *)
(* the number of leases may exceed it until holders return theirs.         *)
(***************************************************************************)
EXTENDS Integers, FiniteSets

CONSTANTS Clients,     \* the threads that ask for a lease
          MaxWorkers   \* the largest capacity there can ever be

VARIABLES holders,     \* the clients that hold a lease
          cap          \* the capacity in force

aVars == <<holders, cap>>

AInit == holders = {} /\ cap \in 1..MaxWorkers

\* A lease is granted only below the capacity in force.
Acquire(c) ==
    /\ c \notin holders
    /\ Cardinality(holders) < cap
    /\ holders' = holders \cup {c}
    /\ UNCHANGED cap

Return(c) ==
    /\ c \in holders
    /\ holders' = holders \ {c}
    /\ UNCHANGED cap

Resize ==
    /\ cap' \in 1..MaxWorkers
    /\ UNCHANGED holders

ANext == Resize \/ \E c \in Clients : Acquire(c) \/ Return(c)

ASpec == AInit /\ [][ANext]_aVars

=============================================================================
