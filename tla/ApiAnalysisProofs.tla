-------------------------- MODULE ApiAnalysisProofs --------------------------
(***************************************************************************)
(* Proofs about the analysis of conversations through the API: the pool    *)
(* its calls are made from (ApiAnalyzerPool), for any finite set of        *)
(* clients, any size of the pool and any number of model source switches,  *)
(* and the portraits built with it (ApiPortraits), for any finite history, *)
(* any page size and budget and any number of requests, moves and faults.  *)
(***************************************************************************)
EXTENDS ApiAnalyzerPool, ApiPortraits, FiniteSetTheorems, SequenceTheorems,
        WellFoundedInduction, TLAPS

\* What makes the accounting inductive: the number of leases is also the
\* number of busy slots, and the last generation belongs to close_extras.
BusyCounted == active = Cardinality(busy)
GenerationBound == ~closed => generation <= MaxGeneration

AccountInv ==
    /\ TypeOK /\ GenerationBound
    /\ LeaseAccounting /\ BusyCounted /\ LaneAccounting /\ ClosedPoolShrinks

-----------------------------------------------------------------------------
(* Facts about sets *)

\* A nonempty finite set of natural numbers has a least element: the one with
\* the fewest elements below it.
LEMMA LeastElement ==
    ASSUME NEW S \in SUBSET Nat, S # {}, IsFiniteSet(S)
    PROVE  \E i \in S : \A j \in S : i <= j
<1> DEFINE Below(i) == {j \in S : j < i}
           T == {Below(i) : i \in S}
<1>1. T \subseteq FiniteSubsetsOf(S)
    BY FS_Subset DEF FiniteSubsetsOf
<1>2. T # {}
    OBVIOUS
<1>3. IsWellFoundedOn(StrictSubsetOrdering(S), FiniteSubsetsOf(S))
    BY FS_StrictSubsetOrderingWellFounded
<1>4. PICK X \in T : \A Y \in T : <<Y, X>> \notin StrictSubsetOrdering(S)
    <2> HIDE DEF T
    <2> QED  BY <1>1, <1>2, <1>3, WFMin
<1>5. PICK i \in S : X = Below(i)
    BY <1>4
<1>6. ASSUME NEW j \in S, j < i  PROVE FALSE
    <2>1. Below(j) \in SUBSET S /\ Below(i) \in SUBSET S
        OBVIOUS
    <2>2. Below(j) \subseteq Below(i)
        <3>1. \A k \in S : k < j => k < i
            <4>1. \A k \in S : k \in Int  OBVIOUS
            <4> QED  BY <1>6, <4>1
        <3> QED  BY <3>1
    <2>3. j \in Below(i) /\ j \notin Below(j)
        <3>1. j \in Int  OBVIOUS
        <3> QED  BY <1>6, <3>1
    <2>4. <<Below(j), Below(i)>> \in StrictSubsetOrdering(S)
        BY <2>1, <2>2, <2>3 DEF StrictSubsetOrdering
    <2> QED  BY <1>4, <1>5, <2>4
<1> QED  BY <1>6

\* There are finitely many holders, busy slots and analyzers.
LEMMA FiniteHolders ==
    ASSUME TypeOK
    PROVE  /\ IsFiniteSet(Holders) /\ Cardinality(Holders) \in Nat
           /\ IsFiniteSet(busy) /\ Cardinality(busy) \in Nat
<1>1. IsFiniteSet(Holders)
    BY PoolAssumption, FS_Subset DEF Holders, HoldersOf
<1>2. IsFiniteSet(0..(MaxWorkers - 1))
    BY PoolAssumption, FS_Interval
<1>3. IsFiniteSet(busy)
    BY <1>2, FS_Subset DEF TypeOK
<1> QED  BY <1>1, <1>3, FS_CardinalityType

\* The slot of a grant exists, is free, and is in the list after the grant.
LEMMA SlotForIsFree ==
    ASSUME AccountInv, CanGrantShared
    PROVE  /\ SlotFor \in 0..(MaxWorkers - 1)
           /\ SlotFor \notin busy
           /\ SlotFor < IF FreeSlots = {} THEN slots + 1 ELSE slots
<1>1. CASE FreeSlots # {}
    <2>1. FreeSlots \in SUBSET Nat /\ IsFiniteSet(FreeSlots)
        <3>1. FreeSlots \in SUBSET (0..(slots - 1)) /\ slots \in Int
            BY PoolAssumption DEF FreeSlots, AccountInv, TypeOK
        <3>2. IsFiniteSet(0..(slots - 1))
            BY <3>1, FS_Interval
        <3>3. IsFiniteSet(FreeSlots)
            BY <3>1, <3>2, FS_Subset
        <3> QED  BY <3>1, <3>3
    <2>2. SlotFor \in FreeSlots
        <3>1. \E i \in FreeSlots : \A j \in FreeSlots : i <= j
            BY <1>1, <2>1, LeastElement
        <3> QED  BY <1>1, <3>1 DEF SlotFor
    <2> QED  BY <1>1, <2>2, PoolAssumption DEF FreeSlots, AccountInv, TypeOK
<1>2. CASE FreeSlots = {}
    <2>1. SlotFor = slots /\ slots < limit
        BY <1>2 DEF SlotFor, CanGrantShared
    <2>2. slots \notin busy
        BY DEF AccountInv, TypeOK, LeaseAccounting, Holders, HoldersOf
    <2> QED  BY <1>2, <2>1, <2>2, PoolAssumption DEF AccountInv, TypeOK
<1> QED  BY <1>1, <1>2

-----------------------------------------------------------------------------
(* Type correctness *)

\* Every step keeps the types, the sizes of the pool and the bound on the
\* generation.
LEMMA TypeNext ==
    ASSUME AccountInv, [Next]_vars
    PROVE  TypeOK' /\ GenerationBound'
<1> USE PoolAssumption
<1>1. TypeOK /\ GenerationBound  BY DEF AccountInv
<1> USE DEF TypeOK, GenerationBound, Lanes
<1>2. ASSUME NEW c \in Clients, NEW l \in Lanes, Request(c, l)  PROVE TypeOK' /\ GenerationBound'
    BY <1>1, <1>2 DEF Request, Waiting, poolVars, tuneVars, epochVars
<1>3. ASSUME NEW c \in Clients, Leave(c)  PROVE TypeOK' /\ GenerationBound'
    BY <1>1, <1>3 DEF Leave, Forget, Dequeued, poolVars, tuneVars, epochVars
<1>4. ASSUME NEW c \in Clients, GrantShared(c)  PROVE TypeOK' /\ GenerationBound'
    <2>1. SlotFor \in 0..(MaxWorkers - 1)  BY <1>4, SlotForIsFree DEF GrantShared
    <2>2. slots' \in 1..MaxWorkers  BY <1>1, <1>4 DEF GrantShared, CanGrantShared
    <2>3. active' \in 0..MaxWorkers  BY <1>1, <1>4 DEF GrantShared, CanGrantShared
    <2>4. UNCHANGED <<maximum, limit, dedicated_active, tuneVars, epochVars, lane, ticketGen, beganIn, killed>>
        BY <1>4 DEF GrantShared
    <2>5. /\ busy' \in SUBSET (0..(MaxWorkers - 1))
          /\ index' \in [Clients -> 0..(MaxWorkers - 1)]
        BY <1>1, <1>4, <2>1 DEF GrantShared
    <2>6. /\ pc' \in [Clients -> {"idle", "waiting", "granted", "leased", "turn", "report"}]
          /\ ahead' \in [Clients -> SUBSET Clients]
        BY <1>1, <1>4 DEF GrantShared, Dequeued
    <2> QED  BY <1>1, <2>2, <2>3, <2>4, <2>5, <2>6 DEF tuneVars, epochVars
<1>5. ASSUME NEW c \in Clients, GrantDedicated(c)  PROVE TypeOK' /\ GenerationBound'
    BY <1>1, <1>5 DEF GrantDedicated, Dequeued, tuneVars, epochVars
<1>6a. ASSUME NEW c \in Clients, Confirm(c)  PROVE TypeOK' /\ GenerationBound'
    BY <1>1, <1>6a DEF Confirm, poolVars, tuneVars, epochVars
<1>6b. ASSUME NEW c \in Clients, BeginTurn(c)  PROVE TypeOK' /\ GenerationBound'
    BY <1>1, <1>6b DEF BeginTurn, poolVars, tuneVars, epochVars
<1>7. ASSUME NEW c \in Clients, Abandon(c) \/ EndTurn(c)  PROVE TypeOK' /\ GenerationBound'
    <2>1. PICK next \in {"idle", "report"} : Forget(c, next)
        BY <1>7 DEF Abandon, EndTurn
    <2>2. pc[c] \in HoldingPc /\ Release(c) /\ UNCHANGED <<tuneVars, epochVars, ahead>>
        BY <1>7 DEF Abandon, EndTurn, HoldingPc
    <2>3. /\ UNCHANGED <<maximum, limit>>
          /\ slots' \in 1..MaxWorkers /\ busy' \in SUBSET (0..(MaxWorkers - 1))
          /\ active' \in 0..MaxWorkers /\ dedicated_active' \in [Dedicated -> 0..1]
        <3>1. CASE lane[c] = "shared"
            <4>1. c \in Holders  BY <2>2, <3>1 DEF Holders, HoldersOf
            <4>2. active > 0
                BY <4>1, FS_EmptySet, FiniteHolders, <1>1 DEF AccountInv, LeaseAccounting
            <4>3. /\ active' = active - 1 /\ slots' = SlotsLeft(active - 1, closed)
                  /\ busy' = busy \ {index[c]} /\ UNCHANGED <<maximum, limit, dedicated_active>>
                BY <2>2, <3>1 DEF Release
            <4>4. slots' \in 1..MaxWorkers  BY <1>1, <4>3 DEF SlotsLeft
            <4>5. active' \in 0..MaxWorkers  BY <1>1, <4>2, <4>3
            <4>6. busy' \in SUBSET (0..(MaxWorkers - 1))  BY <1>1, <4>3
            <4> QED  BY <1>1, <4>3, <4>4, <4>5, <4>6
        <3>2. CASE lane[c] # "shared"
            <4>1. /\ dedicated_active' = [dedicated_active EXCEPT ![lane[c]] = 0]
                  /\ UNCHANGED <<maximum, limit, slots, busy, active>>
                BY <2>2, <3>2 DEF Release
            <4>2. dedicated_active \in [Dedicated -> 0..1]  BY <1>1
            <4>3. dedicated_active' \in [Dedicated -> 0..1]
                <5> HIDE DEF TypeOK, Lanes
                <5>1. 0 \in 0..1  OBVIOUS
                <5> QED  BY <4>1, <4>2, <5>1
            <4> QED  BY <1>1, <4>1, <4>3
        <3> QED  BY <3>1, <3>2
    <2> QED  BY <1>1, <2>1, <2>2, <2>3 DEF Forget, tuneVars, epochVars
<1>8. ASSUME NEW c \in Clients, note_rate_limited(c)  PROVE TypeOK' /\ GenerationBound'
    BY <1>1, <1>8 DEF note_rate_limited, Reported, Forget, StepDown, epochVars
<1>9. ASSUME NEW c \in Clients, note_success(c)  PROVE TypeOK' /\ GenerationBound'
    BY <1>1, <1>9 DEF note_success, Reported, Forget, StepUp, CleanTurns, epochVars
<1>10. ASSUME NEW c \in Clients, NoReport(c)  PROVE TypeOK' /\ GenerationBound'
    BY <1>1, <1>10 DEF NoReport, Reported, Forget, tuneVars, epochVars
<1>11. ASSUME NEW n \in 1..MaxWorkers, configure(n)  PROVE TypeOK' /\ GenerationBound'
    BY <1>1, <1>11 DEF configure, tuneVars, epochVars, clientVars
<1>12. CASE invalidate
    BY <1>1, <1>12 DEF invalidate, Analyzers, poolVars, tuneVars, clientVars
<1>13. ASSUME NEW i \in cancelling, Cancel(i)  PROVE TypeOK' /\ GenerationBound'
    BY <1>1, <1>13 DEF Cancel, poolVars, tuneVars
<1>14. CASE close_extras
    BY <1>1, <1>14 DEF close_extras, SlotsLeft, tuneVars, clientVars
<1>15. CASE UNCHANGED vars
    BY <1>1, <1>15 DEF vars, poolVars, tuneVars, epochVars, clientVars
<1> QED
    BY <1>2, <1>3, <1>4, <1>5, <1>6a, <1>6b, <1>7, <1>8, <1>9, <1>10, <1>11, <1>12, <1>13, <1>14, <1>15
    DEF Next, Owner, Client, Grant, Expire, GiveUp

-----------------------------------------------------------------------------
(* Leases: who holds what before and after a step *)

\* The steps that neither give nor take a lease.
Quiet ==
    /\ UNCHANGED <<slots, busy, active, dedicated_active>>
    /\ closed' = closed
    /\ \A l \in Lanes : HoldersOf(l)' = HoldersOf(l)
    /\ \A c \in Clients : c \in Holders => index'[c] = index[c]

Accounts == LeaseAccounting /\ BusyCounted /\ LaneAccounting /\ ClosedPoolShrinks

\* A step that leaves the counters alone keeps the accounting.
LEMMA QuietAccounts ==
    ASSUME AccountInv, Quiet
    PROVE  Accounts'
<1>1. Holders' = Holders  BY DEF Quiet, Holders, Lanes
<1>2. LeaseAccounting'
    BY <1>1 DEF Quiet, AccountInv, LeaseAccounting, Holders, HoldersOf
<1>3. BusyCounted' /\ ClosedPoolShrinks'
    BY DEF Quiet, AccountInv, BusyCounted, ClosedPoolShrinks
<1>4. LaneAccounting'
    <2>1. \A l \in Dedicated : HoldersOf(l)' = HoldersOf(l)  BY DEF Quiet, Lanes
    <2> QED  BY <2>1 DEF Quiet, AccountInv, LaneAccounting
<1> QED  BY <1>2, <1>3, <1>4 DEF Accounts

\* Requests, waits that end, confirmations, turns that begin, reports, resizes,
\* invalidations and cancellations are such steps.
LEMMA QuietSteps ==
    ASSUME TypeOK,
           \/ \E c \in Clients :
                 \/ \E l \in Lanes : Request(c, l)
                 \/ Leave(c) \/ Confirm(c) \/ BeginTurn(c)
                 \/ note_rate_limited(c) \/ note_success(c) \/ NoReport(c)
           \/ \E n \in 1..MaxWorkers : configure(n)
           \/ invalidate
           \/ \E i \in cancelling : Cancel(i)
           \/ UNCHANGED vars
    PROVE  Quiet
<1> USE DEF Quiet, Holders, HoldersOf, HoldingPc, TypeOK, poolVars, epochVars, clientVars
<1>1. ASSUME NEW c \in Clients, NEW l \in Lanes, Request(c, l)  PROVE Quiet
    BY <1>1 DEF Request
<1>2. ASSUME NEW c \in Clients, Leave(c)  PROVE Quiet
    BY <1>2 DEF Leave, Forget
<1>3. ASSUME NEW c \in Clients, Confirm(c)  PROVE Quiet
    BY <1>3 DEF Confirm
<1>4. ASSUME NEW c \in Clients, BeginTurn(c)  PROVE Quiet
    BY <1>4 DEF BeginTurn
<1>5. ASSUME NEW c \in Clients, Reported(c)  PROVE Quiet
    BY <1>5 DEF Reported, Forget
<1>6. ASSUME NEW n \in 1..MaxWorkers, configure(n)  PROVE Quiet
    BY <1>6 DEF configure
<1>7. CASE invalidate
    BY <1>7 DEF invalidate
<1>8. ASSUME NEW i \in cancelling, Cancel(i)  PROVE Quiet
    BY <1>8 DEF Cancel
<1>9. CASE UNCHANGED vars
    BY <1>9 DEF vars
<1> QED
    BY <1>1, <1>2, <1>3, <1>4, <1>5, <1>6, <1>7, <1>8, <1>9
    DEF note_rate_limited, note_success, NoReport

\* A shared grant takes a free slot and adds one holder.
LEMMA GrantSharedAccounts ==
    ASSUME AccountInv, NEW c \in Clients, GrantShared(c)
    PROVE  Accounts'
<1> USE PoolAssumption
<1>1. TypeOK /\ SlotFor \notin busy /\ SlotFor < slots' /\ slots <= slots'
    BY SlotForIsFree DEF GrantShared, AccountInv, TypeOK
<1>2. Holders' = Holders \cup {c} /\ c \notin Holders
    BY <1>1 DEF GrantShared, Holders, HoldersOf, HoldingPc, TypeOK
<1>3. /\ index'[c] = SlotFor
      /\ \A d \in Clients : d # c => index'[d] = index[d]
      /\ busy' = busy \cup {SlotFor} /\ active' = active + 1
    BY <1>1 DEF GrantShared, TypeOK
<1>4. /\ Cardinality(Holders') = Cardinality(Holders) + 1
      /\ Cardinality(busy') = Cardinality(busy) + 1
    BY <1>1, <1>2, <1>3, FiniteHolders, FS_AddElement
<1>5. LeaseAccounting'
    <2>1. Holders \subseteq Clients  BY DEF Holders, HoldersOf
    <2>2. \A d \in Holders' : index'[d] \in busy' /\ index'[d] < slots'
        <3>1. ASSUME NEW d \in Holders
              PROVE  index'[d] \in busy' /\ index'[d] < slots'
            <4>1. index[d] \in busy /\ index[d] < slots /\ index[d] \in Int
                BY <1>1, <2>1 DEF AccountInv, LeaseAccounting, TypeOK
            <4>2. slots \in Int /\ slots' \in Int
                BY <1>1 DEF GrantShared, TypeOK
            <4>3. index'[d] = index[d]
                BY <1>2, <1>3, <2>1
            <4> QED  BY <1>1, <1>3, <4>1, <4>2, <4>3
        <3>2. index'[c] \in busy' /\ index'[c] < slots'
            BY <1>1, <1>3
        <3> QED  BY <1>2, <3>1, <3>2
    <2>3. \A i \in busy' : \E d \in Holders' : index'[d] = i
        BY <1>2, <1>3, <2>1 DEF AccountInv, LeaseAccounting
    <2>4. \A d, e \in Holders' : index'[d] = index'[e] => d = e
        BY <1>1, <1>2, <1>3, <2>1 DEF AccountInv, LeaseAccounting
    <2>5. active' = Cardinality(Holders')
        BY <1>3, <1>4 DEF AccountInv, LeaseAccounting
    <2> QED  BY <2>2, <2>3, <2>4, <2>5 DEF LeaseAccounting
<1>6. BusyCounted'
    BY <1>3, <1>4 DEF AccountInv, BusyCounted
<1>7. LaneAccounting'
    <2>1. \A l \in Dedicated : HoldersOf(l)' = HoldersOf(l)
        BY <1>1 DEF GrantShared, HoldersOf, HoldingPc, TypeOK
    <2>2. dedicated_active' = dedicated_active  BY DEF GrantShared
    <2> QED  BY <2>1, <2>2 DEF AccountInv, LaneAccounting
<1>8. ClosedPoolShrinks'
    BY DEF GrantShared, Stale, ClosedPoolShrinks, epochVars
<1> QED  BY <1>5, <1>6, <1>7, <1>8 DEF Accounts

\* A dedicated grant gives the lane to its only holder.
LEMMA GrantDedicatedAccounts ==
    ASSUME AccountInv, NEW c \in Clients, GrantDedicated(c)
    PROVE  Accounts'
<1> USE PoolAssumption
<1>1. TypeOK  BY DEF AccountInv
<1>2. /\ Holders' = Holders
      /\ UNCHANGED <<slots, busy, active, closed, index>>
    BY <1>1 DEF GrantDedicated, Holders, HoldersOf, HoldingPc, TypeOK, epochVars
<1>3. LeaseAccounting' /\ BusyCounted' /\ ClosedPoolShrinks'
    BY <1>2 DEF AccountInv, LeaseAccounting, BusyCounted, ClosedPoolShrinks
<1>4. LaneAccounting'
    <2> SUFFICES ASSUME NEW l \in Dedicated
                 PROVE  /\ \A d, e \in HoldersOf(l)' : d = e
                        /\ dedicated_active'[l] = 1 <=> HoldersOf(l)' # {}
        BY DEF LaneAccounting
    <2>1. CASE l = lane[c]
        <3>1. HoldersOf(l) = {}
            BY <2>1 DEF GrantDedicated, LaneFree, AccountInv, LaneAccounting
        <3>2. HoldersOf(l)' = HoldersOf(l) \cup {c}
            BY <1>1, <2>1 DEF GrantDedicated, HoldersOf, HoldingPc, TypeOK
        <3>3. dedicated_active'[l] = 1
            BY <1>1, <2>1 DEF GrantDedicated, TypeOK
        <3> QED  BY <3>1, <3>2, <3>3
    <2>2. CASE l # lane[c]
        <3>1. HoldersOf(l)' = HoldersOf(l)
            BY <1>1, <2>2 DEF GrantDedicated, HoldersOf, HoldingPc, TypeOK
        <3>2. dedicated_active'[l] = dedicated_active[l]
            BY <1>1, <2>2 DEF GrantDedicated, TypeOK
        <3> QED  BY <3>1, <3>2 DEF AccountInv, LaneAccounting
    <2> QED  BY <2>1, <2>2
<1> QED  BY <1>3, <1>4 DEF Accounts

\* A release gives back exactly the slot, or the lane, of its holder; the last
\* one out of a closed pool leaves the primary analyzer only.
LEMMA ReleaseAccounts ==
    ASSUME AccountInv, NEW c \in Clients, Abandon(c) \/ EndTurn(c)
    PROVE  Accounts'
<1> USE PoolAssumption
<1>1. TypeOK  BY DEF AccountInv
<1>2. /\ Release(c) /\ pc[c] \in HoldingPc /\ closed' = closed
      /\ \E next \in {"idle", "report"} : Forget(c, next)
    BY DEF Abandon, EndTurn, HoldingPc, epochVars
<1>3. \A l \in Lanes : HoldersOf(l)' = HoldersOf(l) \ {c}
    BY <1>1, <1>2 DEF Forget, HoldersOf, HoldingPc, TypeOK
<1>4. \A d \in Clients : d # c => index'[d] = index[d]
    BY <1>1, <1>2 DEF Forget, TypeOK
<1>5. Holders' = Holders \ {c}  BY <1>3 DEF Holders, Lanes
<1>6. Holders \subseteq Clients  BY DEF Holders, HoldersOf
<1>7. CASE lane[c] = "shared"
    <2>1. /\ active' = active - 1 /\ slots' = SlotsLeft(active - 1, closed)
          /\ busy' = busy \ {index[c]} /\ UNCHANGED <<maximum, limit, dedicated_active>>
        BY <1>2, <1>7 DEF Release
    <2>2. c \in Holders /\ index[c] \in busy
        BY <1>2, <1>7 DEF Holders, HoldersOf, AccountInv, LeaseAccounting
    <2>3. /\ Cardinality(Holders') = active' /\ IsFiniteSet(Holders')
          /\ Cardinality(busy') = active' /\ IsFiniteSet(busy')
        BY <1>1, <1>5, <2>1, <2>2, FiniteHolders, FS_RemoveElement
        DEF AccountInv, LeaseAccounting, BusyCounted
    <2>4. ASSUME closed, active' = 0  PROVE slots' = 1 /\ busy' = {} /\ Holders' = {}
        BY <2>1, <2>3, <2>4, FS_EmptySet DEF SlotsLeft
    <2>5. ASSUME ~(closed /\ active' = 0)  PROVE slots' = slots
        BY <2>1, <2>5 DEF SlotsLeft
    <2>6. LeaseAccounting'
        <3>1. \A d \in Holders' : index'[d] \in busy' /\ index'[d] < slots'
            BY <1>4, <1>5, <1>6, <2>1, <2>2, <2>4, <2>5 DEF AccountInv, LeaseAccounting
        <3>2. \A i \in busy' : \E d \in Holders' : index'[d] = i
            BY <1>4, <1>5, <1>6, <2>1 DEF AccountInv, LeaseAccounting
        <3>3. \A d, e \in Holders' : index'[d] = index'[e] => d = e
            BY <1>4, <1>5, <1>6 DEF AccountInv, LeaseAccounting
        <3> QED  BY <2>3, <3>1, <3>2, <3>3 DEF LeaseAccounting
    <2>7. BusyCounted'  BY <2>3 DEF BusyCounted
    <2>8. LaneAccounting'
        <3>1. \A l \in Dedicated : HoldersOf(l)' = HoldersOf(l)
            BY <1>3, <1>7 DEF HoldersOf, Lanes
        <3> QED  BY <2>1, <3>1 DEF AccountInv, LaneAccounting
    <2>9. ClosedPoolShrinks'  BY <1>2, <2>4 DEF ClosedPoolShrinks
    <2> QED  BY <2>6, <2>7, <2>8, <2>9 DEF Accounts
<1>8. CASE lane[c] # "shared"
    <2>1. /\ dedicated_active' = [dedicated_active EXCEPT ![lane[c]] = 0]
          /\ UNCHANGED <<slots, busy, active>>
        BY <1>2, <1>8 DEF Release
    <2>2. c \notin Holders  BY <1>8 DEF Holders, HoldersOf
    <2>3. LeaseAccounting' /\ BusyCounted' /\ ClosedPoolShrinks'
        BY <1>2, <1>4, <1>5, <1>6, <2>1, <2>2
        DEF AccountInv, LeaseAccounting, BusyCounted, ClosedPoolShrinks
    <2>4. LaneAccounting'
        <3> SUFFICES ASSUME NEW l \in Dedicated
                     PROVE  /\ \A d, e \in HoldersOf(l)' : d = e
                            /\ dedicated_active'[l] = 1 <=> HoldersOf(l)' # {}
            BY DEF LaneAccounting
        <3>1. HoldersOf(l)' = HoldersOf(l) \ {c}  BY <1>3 DEF Lanes
        <3>2. CASE l = lane[c]
            <4>1. c \in HoldersOf(l)  BY <1>2, <3>2 DEF HoldersOf
            <4>2. \A d, e \in HoldersOf(l) : d = e  BY DEF AccountInv, LaneAccounting
            <4>3. HoldersOf(l)' = {}  BY <3>1, <4>1, <4>2
            <4>4. dedicated_active'[l] = 0  BY <1>1, <2>1, <3>2 DEF TypeOK
            <4> QED  BY <4>3, <4>4
        <3>3. CASE l # lane[c]
            <4>1. c \notin HoldersOf(l)  BY <3>3 DEF HoldersOf
            <4>2. dedicated_active'[l] = dedicated_active[l]
                BY <1>1, <2>1, <3>3 DEF TypeOK
            <4> QED  BY <3>1, <4>1, <4>2 DEF AccountInv, LaneAccounting
        <3> QED  BY <3>2, <3>3
    <2> QED  BY <2>3, <2>4 DEF Accounts
<1> QED  BY <1>7, <1>8

\* Closing an idle pool forgets its extra analyzers, and none of them is out.
LEMMA CloseAccounts ==
    ASSUME AccountInv, close_extras
    PROVE  Accounts'
<1>1. /\ \A l \in Lanes : HoldersOf(l)' = HoldersOf(l)
      /\ Holders' = Holders
      /\ UNCHANGED <<busy, active, dedicated_active, index>>
      /\ slots' = SlotsLeft(active, TRUE)
    BY DEF close_extras, HoldersOf, Holders, clientVars
<1>2. ASSUME active = 0  PROVE Holders = {} /\ busy = {} /\ slots' = 1
    BY <1>1, <1>2, FiniteHolders, FS_EmptySet
    DEF AccountInv, LeaseAccounting, BusyCounted, SlotsLeft
<1>3. ASSUME active # 0  PROVE slots' = slots
    BY <1>1, <1>3 DEF SlotsLeft
<1>4. LeaseAccounting'
    BY <1>1, <1>2, <1>3 DEF AccountInv, LeaseAccounting
<1>5. BusyCounted' /\ ClosedPoolShrinks'
    BY <1>1, <1>2 DEF AccountInv, BusyCounted, ClosedPoolShrinks
<1>6. LaneAccounting'
    BY <1>1 DEF AccountInv, LaneAccounting, Lanes
<1> QED  BY <1>4, <1>5, <1>6 DEF Accounts

-----------------------------------------------------------------------------
(* The accounting invariant *)

\* The accounting holds at the start.
LEMMA AccountInit == Init => AccountInv
<1> SUFFICES ASSUME Init  PROVE AccountInv
    OBVIOUS
<1> USE PoolAssumption DEF Init
<1>1. TypeOK /\ GenerationBound
    <2>1. /\ maximum \in 1..MaxWorkers /\ limit \in 1..maximum /\ slots \in 1..MaxWorkers
          /\ active \in 0..MaxWorkers
          /\ rate_limit_streak \in 0..(RateStreak - 1) /\ clean_streak \in 0..(Recover - 1)
          /\ generation \in 0..(MaxGeneration + 1)
          /\ 0 \in 0..(MaxWorkers - 1) /\ 0 \in 0..(MaxGeneration + 1)
          /\ GenerationBound
        BY DEF GenerationBound
    <2>2. /\ busy \in SUBSET (0..(MaxWorkers - 1)) /\ cancelling \in SUBSET (0..(MaxWorkers - 1))
          /\ closed \in BOOLEAN
          /\ pc \in [Clients -> {"idle", "waiting", "granted", "leased", "turn", "report"}]
          /\ lane \in [Clients -> Lanes] /\ ahead \in [Clients -> SUBSET Clients]
          /\ killed \in [Clients -> BOOLEAN]
        BY DEF Lanes
    <2>3. /\ ticketGen \in [Clients -> 0..(MaxGeneration + 1)]
          /\ beganIn \in [Clients -> 0..(MaxGeneration + 1)]
          /\ index \in [Clients -> 0..(MaxWorkers - 1)]
        BY <2>1
    <2>4. dedicated_active \in [Dedicated -> 0..1]
        <3>1. 0 \in 0..1  OBVIOUS
        <3> QED  BY <3>1
    <2> QED  BY <2>1, <2>2, <2>3, <2>4 DEF TypeOK
<1>2. \A l \in Lanes : HoldersOf(l) = {}
    BY DEF HoldersOf, HoldingPc
<1>3. Holders = {}
    BY <1>2 DEF Holders, Lanes
<1>4. LeaseAccounting /\ BusyCounted /\ ClosedPoolShrinks
    BY <1>3, FS_EmptySet DEF LeaseAccounting, BusyCounted, ClosedPoolShrinks
<1>5. LaneAccounting
    <2>1. \A l \in Dedicated : HoldersOf(l) = {} /\ dedicated_active[l] = 0
        BY <1>2 DEF Lanes
    <2> QED  BY <2>1 DEF LaneAccounting
<1> QED  BY <1>1, <1>4, <1>5 DEF AccountInv

\* Every step keeps the accounting.
LEMMA AccountNext == AccountInv /\ [Next]_vars => AccountInv'
<1> SUFFICES ASSUME AccountInv, [Next]_vars  PROVE AccountInv'
    OBVIOUS
<1>1. TypeOK' /\ GenerationBound'  BY TypeNext
<1>2. Accounts'
    <2>1. ASSUME NEW c \in Clients, GrantShared(c)  PROVE Accounts'
        BY <2>1, GrantSharedAccounts
    <2>2. ASSUME NEW c \in Clients, GrantDedicated(c)  PROVE Accounts'
        BY <2>2, GrantDedicatedAccounts
    <2>3. ASSUME NEW c \in Clients, Abandon(c) \/ EndTurn(c)  PROVE Accounts'
        BY <2>3, ReleaseAccounts
    <2>4. ASSUME close_extras  PROVE Accounts'
        BY <2>4, CloseAccounts
    <2>5. ASSUME Quiet  PROVE Accounts'
        BY <2>5, QuietAccounts
    <2> QED
        BY <2>1, <2>2, <2>3, <2>4, <2>5, QuietSteps
        DEF Next, Owner, Client, Grant, Expire, GiveUp, AccountInv
<1> QED  BY <1>1, <1>2 DEF AccountInv, Accounts

\* Every reachable state satisfies the accounting invariant.
THEOREM AccountInvariant == Spec => []AccountInv
BY AccountInit, AccountNext, PTL DEF Spec

\* The counters, slots, queues and streaks of api_pool.py keep their types: in
\* particular the adapted limit stays between one and the configured ceiling,
\* and the list of analyzers never grows past MAX_API_WORKERS.
THEOREM TypeCorrect == Spec => []TypeOK
<1>1. AccountInv => TypeOK  BY DEF AccountInv
<1> QED  BY <1>1, AccountInvariant, PTL

\* lease() never hands one analyzer to two callers, and the counter that gates
\* its grants is exact.
THEOREM LeasesExclusive == Spec => []LeaseAccounting
<1>1. AccountInv => LeaseAccounting  BY DEF AccountInv
<1> QED  BY <1>1, AccountInvariant, PTL

\* dedicated() serves one caller per lane, and the lane is free without one.
THEOREM LanesExclusive == Spec => []LaneAccounting
<1>1. AccountInv => LaneAccounting  BY DEF AccountInv
<1> QED  BY <1>1, AccountInvariant, PTL

\* lease and dedicated together: every grant is accounted for.
THEOREM Accounted == Spec => []Accounting
BY TypeCorrect, LeasesExclusive, LanesExclusive, PTL DEF Accounting

\* close_extras, or the last release after it, leaves the primary analyzer only.
THEOREM ClosedPoolIsSmall == Spec => []ClosedPoolShrinks
<1>1. AccountInv => ClosedPoolShrinks  BY DEF AccountInv
<1> QED  BY <1>1, AccountInvariant, PTL

\* Below the limit a slot can always be given: were every slot under the limit
\* busy, as many leases as the limit would be out.
THEOREM CapacityUsable == Spec => []CapacityIsUsable
<1>1. ASSUME AccountInv  PROVE CapacityIsUsable
    <2> SUFFICES ASSUME active < limit, FreeSlots = {}, ~(slots < limit)  PROVE FALSE
        BY DEF CapacityIsUsable, CanGrantShared
    <2>1. limit \in Nat /\ slots \in Nat /\ limit <= slots
        BY <1>1, PoolAssumption DEF AccountInv, TypeOK
    <2>2. 0..(limit - 1) \in SUBSET busy
        BY <2>1 DEF FreeSlots
    <2>3. Cardinality(0..(limit - 1)) = limit
        BY <1>1, <2>1, FS_Interval, PoolAssumption DEF AccountInv, TypeOK
    <2>4. limit <= Cardinality(busy)
        BY <1>1, <2>2, <2>3, FiniteHolders, FS_Subset DEF AccountInv
    <2> QED  BY <1>1, <2>1, <2>4, FiniteHolders DEF AccountInv, BusyCounted
<1> QED  BY <1>1, AccountInvariant, PTL

-----------------------------------------------------------------------------
(* Switching the model source: which turns a cancellation reaches *)

TicketsPast == \A c \in Clients : ticketGen[c] <= generation /\ beganIn[c] <= generation

KilledInTurn == \A c \in Clients : killed[c] => pc[c] \in {"turn", "report"}

\* While analyzers are still being cancelled, whoever has a lease asked before.
OldWhileCancelling ==
    cancelling # {} =>
        \A c \in Holders : pc[c] \in {"leased", "turn"} => ticketGen[c] < generation

\* A turn of an older generation is cancelled, or is about to be, or began only in
\* this one.
OldTurnsMarked ==
    ~closed =>
        \A c \in Holders :
            OldTurn(c) => killed[c] \/ index[c] \in cancelling \/ Slipped(c)

TurnInv ==
    TicketsPast /\ KilledInTurn /\ OldWhileCancelling /\ OldTurnsMarked /\ NewTurnsUndisturbed

\* At the start nobody has a turn.
LEMMA TurnInit == Init => TurnInv
BY PoolAssumption
   DEF Init, TurnInv, TicketsPast, KilledInTurn, OldWhileCancelling, OldTurnsMarked,
       NewTurnsUndisturbed, OldTurn, Slipped, Holders, HoldersOf, HoldingPc

\* A switch makes every ticket there is old, and marks every analyzer.
LEMMA TurnInvalidate == AccountInv /\ TurnInv /\ invalidate => TurnInv'
<1> SUFFICES ASSUME AccountInv, TurnInv, invalidate  PROVE TurnInv'
    OBVIOUS
<1> USE PoolAssumption DEF clientVars, poolVars
<1>1. /\ generation' = generation + 1 /\ generation \in Nat
      /\ cancelling' = 0..(slots - 1) /\ closed' = closed
      /\ UNCHANGED <<pc, lane, ticketGen, index, beganIn, killed>> /\ Holders' = Holders
    BY DEF invalidate, Analyzers, AccountInv, TypeOK, Holders, HoldersOf
<1>2. \A c \in Clients : /\ ticketGen[c] \in Nat /\ beganIn[c] \in Nat
                          /\ ticketGen[c] <= generation /\ beganIn[c] <= generation
    BY DEF TurnInv, TicketsPast, AccountInv, TypeOK
<1>3. Holders \subseteq Clients  BY DEF Holders, HoldersOf
<1>4. TicketsPast'  BY <1>1, <1>2 DEF TicketsPast
<1>5. KilledInTurn'  BY <1>1 DEF TurnInv, KilledInTurn
<1>6. OldWhileCancelling'  BY <1>1, <1>2, <1>3 DEF OldWhileCancelling
<1>7. OldTurnsMarked'
    <2>1. \A c \in Holders : index[c] \in 0..(slots - 1)
        BY <1>3 DEF AccountInv, LeaseAccounting, TypeOK
    <2> QED  BY <1>1, <2>1 DEF OldTurnsMarked, OldTurn
<1>8. NewTurnsUndisturbed'
    BY <1>1, <1>2 DEF TurnInv, NewTurnsUndisturbed, OldTurn
<1> QED  BY <1>4, <1>5, <1>6, <1>7, <1>8 DEF TurnInv

\* What a cancellation hits is old, because nobody could confirm meanwhile.
LEMMA TurnCancel ==
    ASSUME AccountInv, TurnInv, NEW i \in cancelling, Cancel(i)
    PROVE  TurnInv'
<1>1. /\ cancelling' = cancelling \ {i}
      /\ UNCHANGED <<generation, closed, pc, lane, ticketGen, index, beganIn>>
      /\ Holders' = Holders
      /\ \A c \in Clients : killed'[c] = (killed[c] \/ (c \in Holders /\ pc[c] = "turn" /\ index[c] = i))
    BY DEF Cancel, Holders, HoldersOf, HoldingPc
<1>2. Holders \subseteq Clients  BY DEF Holders, HoldersOf
<1>3. TicketsPast'  BY <1>1 DEF TurnInv, TicketsPast
<1>4. KilledInTurn'  BY <1>1 DEF TurnInv, KilledInTurn
<1>5. OldWhileCancelling'  BY <1>1 DEF TurnInv, OldWhileCancelling
<1>6. OldTurnsMarked'  BY <1>1, <1>2 DEF TurnInv, OldTurnsMarked, OldTurn, Slipped
<1>7. NewTurnsUndisturbed'
    BY <1>1, <1>2 DEF TurnInv, NewTurnsUndisturbed, OldWhileCancelling, OldTurn
<1> QED  BY <1>3, <1>4, <1>5, <1>6, <1>7 DEF TurnInv

\* A caller that leaves takes its generations and its lease along.
LEMMA TurnForget ==
    ASSUME AccountInv, TurnInv, NEW c \in Clients, NEW next \in {"idle", "report"},
           Forget(c, next), UNCHANGED epochVars
    PROVE  TurnInv'
<1>1. UNCHANGED <<generation, closed, cancelling>> /\ generation \in Nat
    BY PoolAssumption DEF epochVars, AccountInv, TypeOK
<1>2. /\ pc'[c] \notin HoldingPc /\ ticketGen'[c] = 0 /\ beganIn'[c] = 0
      /\ killed'[c] => pc'[c] = "report"
    BY DEF Forget, HoldingPc, AccountInv, TypeOK
<1>3. \A d \in Clients \ {c} :
        /\ pc'[d] = pc[d] /\ lane'[d] = lane[d] /\ ticketGen'[d] = ticketGen[d]
        /\ index'[d] = index[d] /\ beganIn'[d] = beganIn[d] /\ killed'[d] = killed[d]
    BY DEF Forget, AccountInv, TypeOK
<1>4. Holders' \subseteq Holders /\ Holders \subseteq Clients /\ c \notin Holders'
    BY <1>2, <1>3 DEF Holders, HoldersOf
<1>5. TicketsPast'  BY <1>1, <1>2, <1>3 DEF TurnInv, TicketsPast
<1>6. KilledInTurn'  BY <1>2, <1>3 DEF TurnInv, KilledInTurn
<1>7. OldWhileCancelling'  BY <1>1, <1>3, <1>4 DEF TurnInv, OldWhileCancelling
<1>8. OldTurnsMarked'  BY <1>1, <1>3, <1>4 DEF TurnInv, OldTurnsMarked, OldTurn, Slipped
<1>9. NewTurnsUndisturbed'
    BY <1>1, <1>2, <1>3 DEF TurnInv, NewTurnsUndisturbed, OldTurn, HoldingPc
<1> QED  BY <1>5, <1>6, <1>7, <1>8, <1>9 DEF TurnInv

\* A step of one client keeps TurnInv.
LEMMA TurnClient ==
    ASSUME AccountInv, TurnInv, NEW c \in Clients, Client(c)
    PROVE  TurnInv'
<1> USE PoolAssumption
<1> USE DEF TurnInv, TicketsPast, KilledInTurn, OldWhileCancelling, OldTurnsMarked,
            NewTurnsUndisturbed, OldTurn, Slipped, Holders, HoldersOf, HoldingPc, AccountInv, TypeOK, epochVars
<1>1. ASSUME NEW l \in Lanes, Request(c, l)  PROVE TurnInv'
    BY <1>1 DEF Request
<1>2. ASSUME Leave(c)  PROVE TurnInv'
    BY <1>2, TurnForget DEF Leave
<1>3. ASSUME GrantShared(c)  PROVE TurnInv'
    BY <1>3 DEF GrantShared
<1>4. ASSUME GrantDedicated(c)  PROVE TurnInv'
    BY <1>4 DEF GrantDedicated
<1>5. ASSUME Confirm(c)  PROVE TurnInv'
    <2>1. TicketsPast' /\ KilledInTurn' /\ NewTurnsUndisturbed'
        BY <1>5 DEF Confirm
    <2>2. OldWhileCancelling'
        BY <1>5 DEF Confirm, Validated
    <2>3. OldTurnsMarked'
        BY <1>5 DEF Confirm
    <2> QED  BY <2>1, <2>2, <2>3
<1>6. ASSUME BeginTurn(c)  PROVE TurnInv'
    <2>1. TicketsPast' /\ KilledInTurn'
        BY <1>6 DEF BeginTurn
    <2>2. NewTurnsUndisturbed'
        BY <1>6 DEF BeginTurn
    <2>3. OldWhileCancelling'
        BY <1>6 DEF BeginTurn
    <2>4. OldTurnsMarked'
        BY <1>6 DEF BeginTurn
    <2> QED  BY <2>1, <2>2, <2>3, <2>4
<1>7. ASSUME Abandon(c)  PROVE TurnInv'
    BY <1>7, TurnForget DEF Abandon
<1>8. ASSUME EndTurn(c)  PROVE TurnInv'
    BY <1>8, TurnForget DEF EndTurn
<1>9. ASSUME Reported(c)  PROVE TurnInv'
    BY <1>9, TurnForget DEF Reported
<1> QED
    BY <1>1, <1>2, <1>3, <1>4, <1>5, <1>6, <1>7, <1>8, <1>9
    DEF Client, Grant, Expire, GiveUp, note_rate_limited, note_success, NoReport

\* Closing moves the generation and touches no turn.
LEMMA TurnClose == AccountInv /\ TurnInv /\ close_extras => TurnInv'
BY PoolAssumption
   DEF close_extras, clientVars, AccountInv, TypeOK, TurnInv, TicketsPast, KilledInTurn,
       OldWhileCancelling, OldTurnsMarked, NewTurnsUndisturbed, OldTurn, Slipped, Holders,
       HoldersOf

\* A resize, or nothing at all, keeps TurnInv.
LEMMA TurnQuiet ==
    ASSUME TurnInv, (\E n \in 1..MaxWorkers : configure(n)) \/ UNCHANGED vars
    PROVE  TurnInv'
BY DEF configure, vars, epochVars, clientVars, TurnInv, TicketsPast, KilledInTurn,
       OldWhileCancelling, OldTurnsMarked, NewTurnsUndisturbed, OldTurn, Slipped, Holders,
       HoldersOf

\* Every step keeps TurnInv.
LEMMA TurnNext == AccountInv /\ TurnInv /\ [Next]_vars => TurnInv'
BY TurnInvalidate, TurnCancel, TurnClient, TurnClose, TurnQuiet DEF Next, Owner

\* In every state the generations of turns and tickets and the marks a switch
\* leaves on the analyzers fit together (TurnInv).
THEOREM TurnInvariant == Spec => []TurnInv
BY TurnInit, TurnNext, AccountInvariant, PTL DEF Spec

\* invalidate cancels on a snapshot of the analyzers, outside the lock: once it has
\* returned a turn of an older model source goes on undisturbed only if it began
\* after the switch, on a lease confirmed before ...
THEOREM OldTurnsStopped == Spec => []InvalidateStopsTurns
<1>1. TurnInv => InvalidateStopsTurns
    BY DEF TurnInv, OldTurnsMarked, InvalidateStopsTurns
<1> QED  BY <1>1, TurnInvariant, PTL

\* ... and no turn of the new one is hit on a recycled analyzer.
THEOREM NewTurnsSpared == Spec => []NewTurnsUndisturbed
<1>1. TurnInv => NewTurnsUndisturbed  BY DEF TurnInv
<1> QED  BY <1>1, TurnInvariant, PTL

\* invalidate stops every turn of an older model source that has begun, and no other.
THEOREM TurnsFollow == Spec => []TurnsFollowGeneration
BY OldTurnsStopped, NewTurnsSpared, PTL DEF TurnsFollowGeneration

-----------------------------------------------------------------------------
(* The shared lane implements BoundedLeases *)

\* The first states lease nothing.
LEMMA LeasesInit == Init => Leases!AInit
BY PoolAssumption DEF Init, Leases!AInit, Holders, HoldersOf, HoldingPc

\* A step of the pool is a grant, a return, a resize or none of them.
LEMMA LeasesNext ==
    ASSUME AccountInv, [Next]_vars
    PROVE  [Leases!ANext]_(Leases!aVars)
<1> USE PoolAssumption
<1>1. TypeOK  BY DEF AccountInv
<1> USE DEF Leases!ANext, Leases!aVars
<1>2. ASSUME Quiet  PROVE [Leases!ANext]_(Leases!aVars)
    <2>1. Holders' = Holders  BY <1>2 DEF Quiet, Holders, Lanes
    <2>2. limit' \in 1..MaxWorkers
        <3>1. limit' \in 1..maximum' /\ maximum' \in 1..MaxWorkers
            BY TypeNext DEF TypeOK
        <3> QED  BY <3>1
    <2> QED  BY <2>1, <2>2 DEF Leases!Resize
<1>3. ASSUME NEW c \in Clients, GrantShared(c)  PROVE [Leases!ANext]_(Leases!aVars)
    <2>1. c \notin Holders /\ Holders' = Holders \cup {c} /\ limit' = limit
        BY <1>1, <1>3 DEF GrantShared, Holders, HoldersOf, HoldingPc, TypeOK
    <2>2. Cardinality(Holders) < limit
        BY <1>3 DEF GrantShared, CanGrantShared, AccountInv, LeaseAccounting
    <2>3. Leases!Acquire(c)
        <3> HIDE DEF Leases!ANext, Leases!aVars
        <3>1. Leases!Cardinality(Holders) = Cardinality(Holders)
            BY DEF Leases!Cardinality, Cardinality
        <3> QED  BY <2>1, <2>2, <3>1 DEF Leases!Acquire
    <2> QED  BY <2>3
<1>4. ASSUME NEW c \in Clients, GrantDedicated(c)  PROVE [Leases!ANext]_(Leases!aVars)
    <2>1. Holders' = Holders /\ limit' = limit
        BY <1>1, <1>4 DEF GrantDedicated, Holders, HoldersOf, HoldingPc, TypeOK
    <2> QED  BY <2>1
<1>5. ASSUME NEW c \in Clients, Abandon(c) \/ EndTurn(c)  PROVE [Leases!ANext]_(Leases!aVars)
    <2>1. Holders' = Holders \ {c} /\ limit' = limit
        BY <1>1, <1>5 DEF Abandon, EndTurn, Release, Forget, Holders, HoldersOf, HoldingPc, TypeOK
    <2> QED  BY <2>1 DEF Leases!Return
<1>6. ASSUME close_extras  PROVE [Leases!ANext]_(Leases!aVars)
    BY <1>6 DEF close_extras, Holders, HoldersOf, clientVars
<1> QED
    BY <1>1, <1>2, <1>3, <1>4, <1>5, <1>6, QuietSteps
    DEF Next, Owner, Client, Grant, Expire, GiveUp

\* Whatever the queue, the slots, the streaks and the generation do, a caller
\* of lease() sees nothing but BoundedLeases.
THEOREM LeasesRefined == Spec => ImplementsBoundedLeases
<1>1. AccountInv /\ [Next]_vars => [Leases!ANext]_(Leases!aVars)
    BY LeasesNext
<1> QED
    BY <1>1, LeasesInit, AccountInvariant, PTL DEF Spec, ImplementsBoundedLeases, Leases!ASpec

-----------------------------------------------------------------------------
(* Order *)

\* What is numbered f has one with the highest number, and one with the lowest.
LEMMA Highest ==
    ASSUME NEW S, IsFiniteSet(S), S # {}, NEW f \in [S -> Nat]
    PROVE  \E x \in S : \A y \in S : f[y] <= f[x]
<1> DEFINE Above(x) == {y \in S : f[y] > f[x]}
           V == {Cardinality(Above(x)) : x \in S}
<1>1. \A x \in S : IsFiniteSet(Above(x)) /\ Cardinality(Above(x)) \in 0..Cardinality(S)
    <2> TAKE x \in S
    <2>1. IsFiniteSet(Above(x)) /\ Cardinality(Above(x)) <= Cardinality(S)
        BY FS_Subset
    <2> QED  BY <2>1, FS_CardinalityType
<1>2. V \subseteq 0..Cardinality(S) /\ V # {} /\ V \subseteq Nat
    BY <1>1, FS_CardinalityType
<1>3. IsFiniteSet(V)
    <2> HIDE DEF V
    <2>1. Cardinality(S) \in Int  BY FS_CardinalityType
    <2>2. IsFiniteSet(0..Cardinality(S))  BY <2>1, FS_Interval
    <2> QED  BY <1>2, <2>2, FS_Subset
<1>4. PICK n \in V : \A k \in V : n <= k
    <2> HIDE DEF V
    <2> QED  BY <1>2, <1>3, LeastElement
<1>5. PICK x \in S : n = Cardinality(Above(x))
    BY <1>4
<1>6. ASSUME NEW y \in S, f[y] > f[x]  PROVE FALSE
    <2>1. Above(y) \subseteq Above(x) \ {y}
        <3>1. \A z \in S : f[z] \in Nat  OBVIOUS
        <3> QED  BY <1>6, <3>1
    <2>2. IsFiniteSet(Above(x) \ {y}) /\ Cardinality(Above(x) \ {y}) = Cardinality(Above(x)) - 1
        <3>1. y \in Above(x)  BY <1>6
        <3> HIDE DEF Above
        <3> QED  BY <3>1, <1>1, FS_RemoveElement
    <2>3. Cardinality(Above(y)) <= Cardinality(Above(x)) - 1
        <3> HIDE DEF Above
        <3> QED  BY <2>1, <2>2, FS_Subset
    <2>4. n <= Cardinality(Above(y))
        BY <1>4
    <2> HIDE DEF Above, V
    <2> QED  BY <1>1, <1>5, <1>6, <2>3, <2>4
<1> QED
    <2>1. \A z \in S : f[z] \in Nat  OBVIOUS
    <2> QED  BY <1>6, <2>1

\* ... and one with the lowest.
LEMMA Lowest ==
    ASSUME NEW S, IsFiniteSet(S), S # {}, NEW f \in [S -> Nat]
    PROVE  \E x \in S : \A y \in S : f[x] <= f[y]
<1>1. PICK top \in S : \A y \in S : f[y] <= f[top]
    BY Highest
<1> DEFINE g == [x \in S |-> f[top] - f[x]]
<1>2. g \in [S -> Nat]
    <2>1. \A z \in S : f[z] \in Nat  OBVIOUS
    <2> QED  BY <1>1, <2>1
<1>3. PICK x \in S : \A y \in S : g[y] <= g[x]
    <2> HIDE DEF g
    <2> QED  BY <1>2, Highest
<1> QED
    <2>1. \A z \in S : f[z] \in Nat /\ g[z] = f[top] - f[z]  OBVIOUS
    <2> HIDE DEF g
    <2> QED  BY <1>3, <2>1

\* The place of x in the order of f.
Downto(S, f, x) == {y \in S : f[y] <= f[x]}

\* The places are numbers from 1 on, and ascend with f.
LEMMA Places ==
    ASSUME NEW S, IsFiniteSet(S), NEW f \in [S -> Nat], NEW x \in S
    PROVE  /\ IsFiniteSet(Downto(S, f, x))
           /\ Cardinality(Downto(S, f, x)) \in 1..Cardinality(S)
           /\ \A y \in S : f[x] < f[y] =>
                 Cardinality(Downto(S, f, x)) < Cardinality(Downto(S, f, y))
<1>1. \A y \in S : /\ Downto(S, f, y) \in SUBSET S /\ IsFiniteSet(Downto(S, f, y))
                   /\ Cardinality(Downto(S, f, y)) \in 0..Cardinality(S)
    <2> TAKE y \in S
    <2>1. Downto(S, f, y) \in SUBSET S  BY DEF Downto
    <2> QED  BY <2>1, FS_Subset, FS_CardinalityType
<1>2. Cardinality(Downto(S, f, x)) # 0
    <2>1. x \in Downto(S, f, x)
        <3>1. f[x] \in Nat  OBVIOUS
        <3> QED  BY <3>1 DEF Downto
    <2> QED  BY <1>1, <2>1, FS_EmptySet
<1>3. ASSUME NEW y \in S, f[x] < f[y]
      PROVE  Cardinality(Downto(S, f, x)) < Cardinality(Downto(S, f, y))
    <2>1. Downto(S, f, x) \in SUBSET (Downto(S, f, y) \ {y}) /\ y \in Downto(S, f, y)
        <3>1. \A z \in S : f[z] \in Nat  OBVIOUS
        <3> QED  BY <1>3, <3>1 DEF Downto
    <2>2. IsFiniteSet(Downto(S, f, y) \ {y})
          /\ Cardinality(Downto(S, f, y) \ {y}) = Cardinality(Downto(S, f, y)) - 1
        BY <1>1, <2>1, FS_RemoveElement
    <2>3. Cardinality(Downto(S, f, x)) <= Cardinality(Downto(S, f, y)) - 1
        BY <2>1, <2>2, FS_Subset
    <2> QED  BY <1>1, <2>3
<1> QED  BY <1>1, <1>2, <1>3

\* Every place is taken, by one alone.
LEMMA PlacesDiffer ==
    ASSUME NEW S, IsFiniteSet(S), NEW f \in [S -> Nat], \A x, y \in S : f[x] = f[y] => x = y
    PROVE  \A x, y \in S : Cardinality(Downto(S, f, x)) = Cardinality(Downto(S, f, y)) => x = y
<1> DEFINE R(x) == Cardinality(Downto(S, f, x))
<1>0. \A z \in S : f[z] \in Nat
    OBVIOUS
<1>1. \A x \in S : R(x) \in 1..Cardinality(S)
    BY Places
<1>2. \A x, y \in S : f[x] < f[y] => R(x) < R(y)
    BY Places
<1>3. ASSUME NEW x \in S, NEW y \in S, R(x) = R(y)  PROVE x = y
    <2> HIDE DEF R
    <2>1. ~(f[x] < f[y]) /\ ~(f[y] < f[x])
        BY <1>1, <1>2, <1>3
    <2> QED  BY <1>0, <2>1
<1> QED  BY <1>3

\* Every place up to the last is somebody's.
LEMMA PlaceTaken ==
    ASSUME NEW S, IsFiniteSet(S), NEW f \in [S -> Nat], \A x, y \in S : f[x] = f[y] => x = y,
           NEW i \in 1..Cardinality(S)
    PROVE  \E x \in S : Cardinality(Downto(S, f, x)) = i
<1> DEFINE R(x) == Cardinality(Downto(S, f, x))
<1>0. \A z \in S : f[z] \in Nat
    OBVIOUS
<1>1. \A x \in S : R(x) \in 1..Cardinality(S) /\ IsFiniteSet(Downto(S, f, x))
    BY Places
<1>2. \A x, y \in S : f[x] < f[y] => R(x) < R(y)
    BY Places
<1>4. \E x \in S : R(x) = i
    <2> DEFINE T == {x \in S : R(x) >= i}
    <2>0. Cardinality(S) \in Nat
        BY FS_CardinalityType
    <2>1. T # {} /\ IsFiniteSet(T) /\ [x \in T |-> f[x]] \in [T -> Nat]
        <3>1. S # {}
            BY <2>0, FS_EmptySet
        <3>2. PICK x \in S : \A y \in S : f[y] <= f[x]
            BY <3>1, Highest
        <3>3. R(x) = Cardinality(S)
            <4>1. Downto(S, f, x) = S  BY <3>2 DEF Downto
            <4> QED  BY <4>1
        <3> HIDE DEF R
        <3> QED  BY <2>0, <3>3, FS_Subset
    <2>2. PICK x \in T : \A y \in T : f[x] <= f[y]
        <3>1. \E x \in T : \A y \in T : [z \in T |-> f[z]][x] <= [z \in T |-> f[z]][y]
            <4> HIDE DEF T
            <4> QED  BY <2>1, Lowest
        <3> HIDE DEF T
        <3> QED  BY <3>1
    <2>3. CASE R(x) = i
        BY <2>3
    <2>4. CASE R(x) # i
        <3> DEFINE B == Downto(S, f, x) \ {x}
        <3>1. x \in S /\ R(x) > i /\ R(x) \in Nat
            <4> HIDE DEF R
            <4> QED  BY <1>1, <2>4
        <3>2. x \in Downto(S, f, x)
            BY <1>0, <3>1 DEF Downto
        <3>3. IsFiniteSet(B) /\ Cardinality(B) = R(x) - 1
            BY <1>1, <3>1, <3>2, FS_RemoveElement
        <3>4. B # {}
            <4>1. Cardinality(B) # 0  BY <3>1, <3>3
            <4> QED  BY <4>1, FS_EmptySet
        <3>5. B \subseteq S /\ [z \in B |-> f[z]] \in [B -> Nat]
            BY <1>0 DEF Downto
        <3>6. PICK y \in B : \A z \in B : f[z] <= f[y]
            <4>1. \E y \in B : \A z \in B : [z1 \in B |-> f[z1]][z] <= [z1 \in B |-> f[z1]][y]
                <5> HIDE DEF B
                <5> QED  BY <3>3, <3>4, <3>5, Highest
            <4> HIDE DEF B
            <4> QED  BY <4>1
        <3>7. y \in S /\ f[y] < f[x]
            <4>1. y \in S /\ y # x /\ f[y] <= f[x]  BY DEF Downto
            <4>2. f[y] # f[x]  BY <3>1, <4>1
            <4> QED  BY <1>0, <3>1, <4>1, <4>2
        <3>8. Downto(S, f, y) = B
            <4>1. ASSUME NEW z \in Downto(S, f, y)  PROVE z \in B
                <5>1. z \in S /\ f[z] <= f[y]  BY <4>1 DEF Downto
                <5>2. f[z] <= f[x] /\ f[z] # f[x]  BY <1>0, <3>1, <3>7, <5>1
                <5> QED  BY <5>1, <5>2 DEF Downto
            <4>2. ASSUME NEW z \in B  PROVE z \in Downto(S, f, y)
                BY <3>5, <3>6 DEF Downto
            <4> QED  BY <4>1, <4>2
        <3>9. R(y) = R(x) - 1
            BY <3>3, <3>8
        <3>10. y \in T
            <4> HIDE DEF R
            <4> QED  BY <3>1, <3>7, <3>9
        <3> QED
            <4>1. f[x] <= f[y]  BY <2>2, <3>10
            <4> QED  BY <1>0, <3>1, <3>7, <4>1
    <2> QED  BY <2>3, <2>4
<1> QED  BY <1>4

\* A function on an interval from 1 is a sequence.
LEMMA FunctionIsSeq ==
    ASSUME NEW S, NEW n \in Nat, NEW s \in [1..n -> S]
    PROVE  s \in Seq(S) /\ Len(s) = n
OBVIOUS

\* The enumeration of a set by places is in order and leaves nothing out.
LEMMA Enumerated ==
    ASSUME NEW S, IsFiniteSet(S), NEW f \in [S -> Nat], \A x, y \in S : f[x] = f[y] => x = y,
           NEW s \in [1..Cardinality(S) -> S],
           \A i \in 1..Cardinality(S) : Cardinality(Downto(S, f, s[i])) = i
    PROVE  /\ Cardinality(S) \in Nat /\ s \in Seq(S) /\ Len(s) = Cardinality(S)
           /\ \A i \in 1..Len(s) : s[i] \in S /\ Cardinality(Downto(S, f, s[i])) = i
           /\ \A x \in S : \E i \in 1..Len(s) : s[i] = x
           /\ \A i, j \in 1..Len(s) : i < j => f[s[i]] < f[s[j]]
           /\ \A x \in S : s[Cardinality(Downto(S, f, x))] = x
<1>1. Cardinality(S) \in Nat
    BY FS_CardinalityType
<1>2. \A i \in 1..Cardinality(S) : s[i] \in S /\ Cardinality(Downto(S, f, s[i])) = i
    OBVIOUS
<1>4. s \in Seq(S) /\ Len(s) = Cardinality(S)
    BY <1>1, FunctionIsSeq
<1>5. \A x \in S : Cardinality(Downto(S, f, x)) \in 1..Cardinality(S)
    BY Places
<1>6. \A x, y \in S : Cardinality(Downto(S, f, x)) = Cardinality(Downto(S, f, y)) => x = y
    BY PlacesDiffer
<1>7. \A x \in S : s[Cardinality(Downto(S, f, x))] = x
    BY <1>2, <1>5, <1>6
<1>8. ASSUME NEW i \in 1..Cardinality(S), NEW j \in 1..Cardinality(S), i < j
      PROVE  f[s[i]] < f[s[j]]
    <2>1. s[i] \in S /\ s[j] \in S /\ Cardinality(Downto(S, f, s[i])) = i
          /\ Cardinality(Downto(S, f, s[j])) = j
        BY <1>2
    <2>2. f[s[i]] \in Nat /\ f[s[j]] \in Nat
        BY <2>1
    <2>3. f[s[j]] # f[s[i]]
        BY <1>8, <2>1
    <2>4. ~(f[s[j]] < f[s[i]])
        <3> SUFFICES ASSUME f[s[j]] < f[s[i]] PROVE FALSE  OBVIOUS
        <3>1. Cardinality(Downto(S, f, s[j])) < Cardinality(Downto(S, f, s[i]))
            BY <2>1, Places
        <3> QED  BY <1>8, <2>1, <3>1
    <2> QED  BY <2>2, <2>3, <2>4
<1> QED  BY <1>1, <1>2, <1>4, <1>5, <1>7, <1>8

\* Max of the community modules, for numbers.
LEMMA Greatest ==
    ASSUME NEW S \in SUBSET Nat, IsFiniteSet(S), S # {}
    PROVE  Max(S) \in S /\ \A n \in S : n <= Max(S)
<1> DEFINE f == [n \in S |-> n]
<1>1. PICK m \in S : \A n \in S : f[n] <= f[m]
    <2>1. f \in [S -> Nat]  OBVIOUS
    <2> HIDE DEF f
    <2> QED  BY <2>1, Highest
<1>2. \A n \in S : m >= n
    BY <1>1
<1> QED  BY <1>2 DEF Max

\* InOrder lists a set of numbers in ascending order, each once.
LEMMA InOrderIs ==
    ASSUME NEW S \in SUBSET Nat, IsFiniteSet(S)
    PROVE  /\ Cardinality(S) \in Nat /\ InOrder(S) \in Seq(S) /\ Len(InOrder(S)) = Cardinality(S)
           /\ \A i \in 1..Len(InOrder(S)) :
                 InOrder(S)[i] \in S /\ Cardinality(Upto(S, InOrder(S)[i])) = i
           /\ \A m \in S : \E i \in 1..Len(InOrder(S)) : InOrder(S)[i] = m
           /\ \A i, j \in 1..Len(InOrder(S)) : i < j => InOrder(S)[i] < InOrder(S)[j]
           /\ \A m \in S : InOrder(S)[Cardinality(Upto(S, m))] = m
<1> DEFINE f == [n \in S |-> n]
<1>1. f \in [S -> Nat] /\ \A x, y \in S : f[x] = f[y] => x = y
    OBVIOUS
<1>2. \A m \in S : Upto(S, m) = Downto(S, f, m) /\ f[m] = m
    BY DEF Upto, Downto
<1>3. InOrder(S) \in [1..Cardinality(S) -> S]
      /\ \A i \in 1..Cardinality(S) : Cardinality(Downto(S, f, InOrder(S)[i])) = i
    <2>1. ASSUME NEW i \in 1..Cardinality(S)
          PROVE  /\ InOrder(S)[i] \in S /\ Cardinality(Downto(S, f, InOrder(S)[i])) = i
        <3> HIDE DEF f
        <3>1. InOrder(S)[i] = CHOOSE m \in S : Cardinality(Upto(S, m)) = i
            BY DEF InOrder
        <3>2. PICK m \in S : Cardinality(Downto(S, f, m)) = i
            BY <1>1, PlaceTaken
        <3>3. Cardinality(Upto(S, m)) = i
            BY <1>2, <3>2
        <3>4. InOrder(S)[i] \in S /\ Cardinality(Upto(S, InOrder(S)[i])) = i
            BY <3>1, <3>3
        <3> QED  BY <1>2, <3>4
    <2>2. InOrder(S) = [i \in 1..Cardinality(S) |-> InOrder(S)[i]]
        BY DEF InOrder
    <2> HIDE DEF f
    <2> QED  BY <2>1, <2>2
<1> HIDE DEF f
<1>4. /\ Cardinality(S) \in Nat /\ InOrder(S) \in Seq(S) /\ Len(InOrder(S)) = Cardinality(S)
      /\ \A i \in 1..Len(InOrder(S)) : InOrder(S)[i] \in S /\ Cardinality(Downto(S, f, InOrder(S)[i])) = i
      /\ \A x \in S : \E i \in 1..Len(InOrder(S)) : InOrder(S)[i] = x
      /\ \A i, j \in 1..Len(InOrder(S)) : i < j => f[InOrder(S)[i]] < f[InOrder(S)[j]]
      /\ \A x \in S : InOrder(S)[Cardinality(Downto(S, f, x))] = x
    BY <1>1, <1>3, Enumerated
<1> QED  BY <1>2, <1>4

\* The same, for a sequence that is named.
LEMMA InOrderOnly ==
    ASSUME NEW S \in SUBSET Nat, IsFiniteSet(S), NEW i \in 1..Cardinality(S), NEW m \in S,
           Cardinality(Upto(S, m)) = i
    PROVE  InOrder(S)[i] = m
BY InOrderIs

\* What is later than all the rest goes behind it.
LEMMA InOrderAppends ==
    ASSUME NEW D \in SUBSET Nat, IsFiniteSet(D), NEW C \in SUBSET Nat, IsFiniteSet(C),
           \A d \in D, c \in C : d < c
    PROVE  InOrder(D \cup C) = InOrder(D) \o InOrder(C)
<1> DEFINE E == D \cup C
<1>1. E \in SUBSET Nat /\ IsFiniteSet(E) /\ Cardinality(E) = Cardinality(D) + Cardinality(C)
    <2>1. D \cap C = {}
        <3>1. \A d \in D : d \in Nat /\ ~(d < d)  OBVIOUS
        <3> QED  BY <3>1
    <2>2. Cardinality(D \cap C) = 0
        BY <2>1, FS_EmptySet
    <2>3. IsFiniteSet(E) /\ Cardinality(E) = Cardinality(D) + Cardinality(C) - 0
        BY <2>2, FS_Union
    <2>4. Cardinality(D) \in Nat /\ Cardinality(C) \in Nat
        BY FS_CardinalityType
    <2> HIDE DEF E
    <2>5. E \in SUBSET Nat
        BY DEF E
    <2> QED  BY <2>3, <2>4, <2>5
<1>2. /\ Cardinality(D) \in Nat /\ Cardinality(C) \in Nat
      /\ InOrder(D) \in Seq(D) /\ InOrder(C) \in Seq(C) /\ InOrder(E) \in Seq(E)
      /\ Len(InOrder(D)) = Cardinality(D) /\ Len(InOrder(C)) = Cardinality(C)
      /\ Len(InOrder(E)) = Cardinality(E)
    <2> HIDE DEF E
    <2> QED  BY <1>1, InOrderIs
<1>3. ASSUME NEW i \in 1..Cardinality(E)
      PROVE  InOrder(E)[i] = (InOrder(D) \o InOrder(C))[i]
    <2>1. CASE i <= Cardinality(D)
        <3>0. i \in 1..Cardinality(D)
            BY <1>2, <2>1
        <3> DEFINE m == InOrder(D)[i]
        <3>1. m \in D /\ Cardinality(Upto(D, m)) = i
            BY <1>2, <3>0, InOrderIs
        <3>4. (InOrder(D) \o InOrder(C))[i] = m
            <4> HIDE DEF E
            <4>1. InOrder(D) \in Seq(Nat) /\ InOrder(C) \in Seq(Nat)
                BY <1>2, SeqMonotonic
            <4>2. i \in 1..Len(InOrder(D)) + Len(InOrder(C)) /\ i <= Len(InOrder(D))
                BY <1>1, <1>2, <2>1
            <4> QED  BY <4>1, <4>2, ConcatProperties
        <3>2. Upto(E, m) = Upto(D, m)
            <4>1. \A c \in C : ~(c <= m)
                <5>1. \A c \in C : m < c /\ c \in Nat  BY <3>1
                <5>2. m \in Nat  BY <3>1
                <5> QED  BY <5>1, <5>2
            <4> QED  BY <4>1 DEF Upto
        <3>3. InOrder(E)[i] = m
            <4> HIDE DEF m, E
            <4>1. m \in E  BY <3>1 DEF E
            <4> QED  BY <1>1, <3>1, <3>2, <4>1, InOrderOnly
        <3> QED  BY <3>3, <3>4
    <2>2. CASE i > Cardinality(D)
        <3> DEFINE j == i - Cardinality(D)
                   m == InOrder(C)[j]
        <3>0. j \in 1..Cardinality(C) /\ i = Cardinality(D) + j
            <4> HIDE DEF E
            <4> QED  BY <1>1, <1>2, <2>2
        <3>1. m \in C /\ Cardinality(Upto(C, m)) = j /\ m \in Nat
            <4> HIDE DEF j
            <4> QED  BY <1>2, <3>0, InOrderIs
        <3>2. Upto(E, m) = D \cup Upto(C, m) /\ D \cap Upto(C, m) = {}
            <4>1. \A d \in D : d < m /\ d \in Nat
                BY <3>1
            <4>2. \A d \in D : d <= m
                <5> HIDE DEF m
                <5> QED  BY <3>1, <4>1
            <4>3. \A d \in D : d \notin C
                <5>1. \A d \in D : ~(d < d)  BY <4>1
                <5> QED  BY <5>1
            <4> HIDE DEF m
            <4> QED  BY <3>1, <4>2, <4>3 DEF Upto
        <3>3. Cardinality(Upto(E, m)) = i
            <4> HIDE DEF m, j, E
            <4>1. IsFiniteSet(Upto(C, m))
                BY FS_Subset DEF Upto
            <4>2. Cardinality(D \cap Upto(C, m)) = 0
                BY <3>2, FS_EmptySet
            <4>3. Cardinality(Upto(E, m)) = Cardinality(D) + Cardinality(Upto(C, m))
                <5>1. Cardinality(Upto(E, m)) = Cardinality(D) + Cardinality(Upto(C, m)) - 0
                    BY <3>2, <4>1, <4>2, FS_Union
                <5> QED  BY <1>2, <3>0, <3>1, <5>1
            <4> QED  BY <1>2, <3>0, <3>1, <4>3
        <3>4. InOrder(E)[i] = m
            <4>1. m \in E  BY <3>1
            <4> HIDE DEF m, j, E
            <4> QED  BY <1>1, <3>3, <4>1, InOrderOnly
        <3>5. (InOrder(D) \o InOrder(C))[i] = InOrder(C)[i - Len(InOrder(D))]
            <4> HIDE DEF m, j, E
            <4>1. InOrder(D) \in Seq(Nat) /\ InOrder(C) \in Seq(Nat)
                BY <1>2, SeqMonotonic
            <4>2. i \in 1..Len(InOrder(D)) + Len(InOrder(C)) /\ ~(i <= Len(InOrder(D)))
                BY <1>1, <1>2, <2>2
            <4> QED  BY <4>1, <4>2, ConcatProperties
        <3> QED  BY <1>2, <3>4, <3>5
    <2> HIDE DEF E
    <2> QED  BY <1>1, <1>2, <2>1, <2>2
<1> HIDE DEF E
<1>4. InOrder(D) \in Seq(Nat) /\ InOrder(C) \in Seq(Nat) /\ InOrder(E) \in Seq(Nat)
    BY <1>1, <1>2, SeqMonotonic
<1>5. /\ InOrder(D) \o InOrder(C) \in Seq(Nat)
      /\ Len(InOrder(D) \o InOrder(C)) = Len(InOrder(E))
    BY <1>1, <1>2, <1>4, ConcatProperties
<1>6. InOrder(E) = InOrder(D) \o InOrder(C)
    BY <1>2, <1>3, <1>4, <1>5, SeqEqual
<1> QED  BY <1>6 DEF E

-----------------------------------------------------------------------------
(* The pieces of the messages that are due *)

Parts == Messages \X {0, 1}
Follows(p, q) == p[1] < q[1] \/ (p[1] = q[1] /\ p[2] < q[2])
Neat(s) ==
    /\ \A i, j \in 1..Len(s) : i < j => Follows(s[i], s[j])
    /\ \A i \in 1..Len(s) :
         /\ s[i][2] < PieceCount(s[i][1])
         /\ s[i][2] = 1 => i = 1 \/ s[i - 1] = <<s[i][1], 0>>
         /\ ~IsLast(s[i]) => i < Len(s) /\ s[i + 1] = <<s[i][1], 1>>

\* A piece is a message and the number of its part.
LEMMA PartIs ==
    ASSUME NEW p \in Parts
    PROVE  p = <<p[1], p[2]>> /\ p[1] \in Messages /\ p[2] \in {0, 1}
BY DEF Parts

\* Pieces lists the parts of a set of messages in order, from the first part that
\* is asked for to the last of all.
LEMMA PiecesIs ==
    ASSUME NEW S \in SUBSET Messages, NEW skip \in {0, 1},
           \A m \in S : (\A n \in S : m <= n) => skip < PieceCount(m)
    PROVE  /\ Pieces(S, skip) \in Seq(Parts) /\ Neat(Pieces(S, skip))
           /\ \A i \in 1..Len(Pieces(S, skip)) : Pieces(S, skip)[i][1] \in S
           /\ \A m \in S : \E i \in 1..Len(Pieces(S, skip)) :
                 Pieces(S, skip)[i] = <<m, PieceCount(m) - 1>>
           /\ \A m \in S : (\A n \in S : m <= n) =>
                 Len(Pieces(S, skip)) > 0 /\ Pieces(S, skip)[1] = <<m, skip>>
<1> DEFINE P == PiecesOf(S, skip)
           f == [p \in P |-> 2 * p[1] + p[2]]
           s == Pieces(S, skip)
<1>0. IsFiniteSet(Messages) /\ \A m \in Messages : m \in Nat \ {0}
    BY PortraitAssumption
<1>1. P \subseteq S \X {0, 1} /\ P \subseteq Parts /\ IsFiniteSet(P)
    <2>1. P \subseteq S \X {0, 1} /\ P \subseteq Messages \X {0, 1}
        BY DEF PiecesOf
    <2>2. IsFiniteSet(Messages \X {0, 1})
        <3>1. IsFiniteSet({0, 1})
            <4>1. 0..1 = {0, 1} /\ 0 \in Int /\ 1 \in Int  OBVIOUS
            <4>2. IsFiniteSet(0..1)  BY <4>1, FS_Interval
            <4> QED  BY <4>1, <4>2
        <3> QED  BY <1>0, <3>1, FS_Product
    <2> HIDE DEF P
    <2> QED  BY <2>1, <2>2, FS_Subset DEF Parts
<1>2. \A p \in P : p = <<p[1], p[2]>> /\ p[1] \in Nat /\ p[2] \in {0, 1} /\ f[p] = 2 * p[1] + p[2]
    <2> TAKE p \in P
    <2>1. p \in Messages \X {0, 1}  BY <1>1 DEF Parts
    <2>2. f[p] = 2 * p[1] + p[2]  OBVIOUS
    <2> HIDE DEF P, f
    <2>3. p = <<p[1], p[2]>> /\ p[1] \in Messages /\ p[2] \in {0, 1}
        BY <2>1, PartIs DEF Parts
    <2> QED  BY <1>0, <2>2, <2>3
<1>3. f \in [P -> Nat]
    <2>1. \A p \in P : 2 * p[1] + p[2] \in Nat
        <3> TAKE p \in P
        <3> HIDE DEF f, P
        <3>1. p[1] \in Nat /\ (p[2] = 0 \/ p[2] = 1)  BY <1>2
        <3> QED  BY <3>1
    <2> QED  BY <2>1
<1>4. \A p, q \in P : f[p] <= f[q] <=> (p[1] < q[1] \/ (p[1] = q[1] /\ p[2] <= q[2]))
    <2> TAKE p, q \in P
    <2> HIDE DEF f, P
    <2>1. p[1] \in Nat /\ q[1] \in Nat /\ (p[2] = 0 \/ p[2] = 1) /\ (q[2] = 0 \/ q[2] = 1)
          /\ f[p] = 2 * p[1] + p[2] /\ f[q] = 2 * q[1] + q[2]
        BY <1>2
    <2> QED  BY <2>1
<1>5. \A p, q \in P : f[p] < f[q] <=> Follows(p, q)
    <2> TAKE p, q \in P
    <2> HIDE DEF f, P
    <2>1. p[1] \in Nat /\ q[1] \in Nat /\ (p[2] = 0 \/ p[2] = 1) /\ (q[2] = 0 \/ q[2] = 1)
          /\ f[p] = 2 * p[1] + p[2] /\ f[q] = 2 * q[1] + q[2]
        BY <1>2
    <2> QED  BY <2>1 DEF Follows
<1>6. \A p, q \in P : f[p] = f[q] => p = q
    <2> TAKE p, q \in P
    <2> HIDE DEF f, P
    <2>1. p[1] \in Nat /\ q[1] \in Nat /\ (p[2] = 0 \/ p[2] = 1) /\ (q[2] = 0 \/ q[2] = 1)
          /\ f[p] = 2 * p[1] + p[2] /\ f[q] = 2 * q[1] + q[2]
        BY <1>2
    <2>2. f[p] = f[q] => p[1] = q[1] /\ p[2] = q[2]
        BY <2>1
    <2> QED  BY <1>2, <2>2
<1>7. \A p \in P : UptoPiece(P, p) = Downto(P, f, p)
    <2> HIDE DEF f, P
    <2> QED  BY <1>4 DEF UptoPiece, Downto
<1>8. s \in [1..Cardinality(P) -> P] /\ \A i \in 1..Cardinality(P) : Cardinality(Downto(P, f, s[i])) = i
    <2>1. s = [i \in 1..Cardinality(P) |-> CHOOSE p \in P : Cardinality(UptoPiece(P, p)) = i]
        BY DEF Pieces
    <2> HIDE DEF s, f, P
    <2>2. ASSUME NEW i \in 1..Cardinality(P)
          PROVE  s[i] \in P /\ Cardinality(Downto(P, f, s[i])) = i
        <3>1. s[i] = CHOOSE p \in P : Cardinality(UptoPiece(P, p)) = i
            BY <2>1
        <3>2. PICK p \in P : Cardinality(Downto(P, f, p)) = i
            BY <1>1, <1>3, <1>6, PlaceTaken
        <3>3. Cardinality(UptoPiece(P, p)) = i
            BY <1>7, <3>2
        <3>4. s[i] \in P /\ Cardinality(UptoPiece(P, s[i])) = i
            BY <3>1, <3>3
        <3> QED  BY <1>7, <3>4
    <2> QED  BY <2>1, <2>2
<1>9. PICK n \in Nat : n = Cardinality(P)
    <2> HIDE DEF P
    <2> QED  BY <1>1, FS_CardinalityType
<1>10. /\ s \in Seq(P) /\ Len(s) = n
       /\ \A i \in 1..n : s[i] \in P
       /\ \A p \in P : \E i \in 1..n : s[i] = p
       /\ \A i, j \in 1..n : i < j => f[s[i]] < f[s[j]]
    <2> HIDE DEF s, f, P
    <2>1. /\ Cardinality(P) \in Nat /\ s \in Seq(P) /\ Len(s) = Cardinality(P)
          /\ \A i \in 1..Len(s) : s[i] \in P /\ Cardinality(Downto(P, f, s[i])) = i
          /\ \A p \in P : \E i \in 1..Len(s) : s[i] = p
          /\ \A i, j \in 1..Len(s) : i < j => f[s[i]] < f[s[j]]
          /\ \A p \in P : s[Cardinality(Downto(P, f, p))] = p
        <3>1. IsFiniteSet(P)  BY <1>1
        <3>2. f \in [P -> Nat]  BY <1>3
        <3>3. \A x, y \in P : f[x] = f[y] => x = y  BY <1>6
        <3>4. s \in [1..Cardinality(P) -> P]  BY <1>8
        <3>5. \A i \in 1..Cardinality(P) : Cardinality(Downto(P, f, s[i])) = i  BY <1>8
        <3> QED  BY <3>1, <3>2, <3>3, <3>4, <3>5, Enumerated
    <2> QED  BY <1>9, <2>1
<1> HIDE DEF s
<1>11. \A i, j \in 1..n : i < j => Follows(s[i], s[j])
    <2> HIDE DEF f, P
    <2> QED  BY <1>5, <1>10
<1>12. \A p \in P : p[1] \in S /\ p[2] < PieceCount(p[1]) /\ p[1] \in Nat /\ p[2] \in {0, 1}
                    /\ ~(p[2] < skip /\ \A m \in S : p[1] <= m) /\ p = <<p[1], p[2]>>
    <2>1. \A p \in P : p[2] < PieceCount(p[1]) /\ ~(p[2] < skip /\ \A m \in S : p[1] <= m)
        BY DEF PiecesOf
    <2> HIDE DEF f, P
    <2> QED  BY <1>1, <1>2, <2>1
<1>13. \A m \in S, k \in {0, 1} : k < PieceCount(m) /\ ~(k < skip /\ \A n1 \in S : m <= n1) => <<m, k>> \in P
    BY DEF PiecesOf
<1> HIDE DEF f, P
<1>14. \A m \in S : PieceCount(m) \in {1, 2} /\ m \in Nat
    BY <1>0 DEF PieceCount
\* Neighbours in the order are neighbours in the sequence.
<1>15. ASSUME NEW i \in 1..n, s[i][2] = 1
       PROVE  i = 1 \/ s[i - 1] = <<s[i][1], 0>>
    <2> DEFINE m == s[i][1]
    <2>1. m \in S /\ s[i] \in P /\ 1 < PieceCount(m) /\ m \in Nat /\ s[i] = <<m, 1>>
        BY <1>10, <1>12, <1>15
    <2>2. CASE skip = 1 /\ \A n1 \in S : m <= n1
        <3> SUFFICES ASSUME i # 1 PROVE FALSE  OBVIOUS
        <3>1. s[1] \in P /\ Follows(s[1], s[i]) /\ 1 \in 1..n
            BY <1>9, <1>10, <1>11
        <3>2. s[1][1] \in S /\ s[1][1] \in Nat /\ s[1][2] \in {0, 1}
              /\ ~(s[1][2] < 1 /\ \A n1 \in S : s[1][1] <= n1)
            BY <1>12, <2>2, <3>1
        <3>3. m <= s[1][1]
            BY <2>2, <3>2
        <3>4. s[1][1] < m \/ (s[1][1] = m /\ s[1][2] < 1)
            BY <1>15, <3>1 DEF Follows
        <3>5. s[1][1] = m /\ s[1][2] < 1
            <4> HIDE DEF m
            <4> QED  BY <2>1, <3>2, <3>3, <3>4
        <3> QED  BY <2>2, <3>2, <3>5
    <2>3. CASE ~(skip = 1 /\ \A n1 \in S : m <= n1)
        <3>1. <<m, 0>> \in P
            <4>1. 0 < PieceCount(m)  BY <1>14, <2>1
            <4>2. ~(0 < skip /\ \A n1 \in S : m <= n1)  BY <2>3
            <4> QED  BY <1>13, <2>1, <4>1, <4>2
        <3>2. PICK k \in 1..n : s[k] = <<m, 0>>
            BY <1>10, <3>1
        <3>3. k < i
            <4>1. k # i  BY <1>15, <3>2
            <4>2. ~(i < k)
                <5> SUFFICES ASSUME i < k PROVE FALSE  OBVIOUS
                <5>1. Follows(<<m, 1>>, <<m, 0>>)
                    <6> HIDE DEF m
                    <6> QED  BY <1>11, <2>1, <3>2
                <5> HIDE DEF m
                <5> QED  BY <2>1, <5>1 DEF Follows
            <4> QED  BY <4>1, <4>2, <1>9
        <3>4. ~(k < i - 1)
            <4> SUFFICES ASSUME k < i - 1 PROVE FALSE  OBVIOUS
            <4>1. i - 1 \in 1..n /\ i - 1 < i  BY <1>9, <3>3
            <4>2. Follows(s[k], s[i - 1]) /\ Follows(s[i - 1], s[i]) /\ s[i - 1] \in P
                BY <1>10, <1>11, <4>1
            <4>3. s[i - 1][1] \in Nat /\ s[i - 1][2] \in {0, 1}
                BY <1>12, <4>2
            <4>4. /\ m < s[i - 1][1] \/ (m = s[i - 1][1] /\ 0 < s[i - 1][2])
                  /\ s[i - 1][1] < m \/ (s[i - 1][1] = m /\ s[i - 1][2] < 1)
                <5> HIDE DEF m
                <5> QED  BY <2>1, <3>2, <4>2 DEF Follows
            <4> HIDE DEF m
            <4> QED  BY <2>1, <4>3, <4>4
        <3> QED
            <4>1. k = i - 1  BY <1>9, <3>3, <3>4
            <4> QED  BY <3>2, <4>1
    <2> QED  BY <2>2, <2>3
<1>16. ASSUME NEW i \in 1..n, ~IsLast(s[i])
       PROVE  i < n /\ s[i + 1] = <<s[i][1], 1>>
    <2> DEFINE m == s[i][1]
    <2>1. m \in S /\ s[i] \in P /\ PieceCount(m) = 2 /\ m \in Nat /\ s[i] = <<m, 0>> /\ <<m, 1>> \in P
        <3>1. m \in S /\ s[i] \in P /\ m \in Nat /\ s[i] = <<m, s[i][2]>> /\ s[i][2] \in {0, 1}
              /\ s[i][2] < PieceCount(m) /\ PieceCount(m) \in {1, 2}
            BY <1>10, <1>12, <1>14
        <3>2. s[i][2] # PieceCount(m) - 1
            BY <1>16 DEF IsLast
        <3>3. PieceCount(m) = 2 /\ s[i][2] = 0
            <4> DEFINE c == PieceCount(m)
                       k == s[i][2]
            <4>1. c \in {1, 2} /\ k \in {0, 1} /\ k # c - 1 /\ k < c
                BY <3>1, <3>2
            <4> HIDE DEF c, k
            <4>2. c = 2 /\ k = 0  BY <4>1
            <4> QED  BY <4>2 DEF c, k
        <3>4. <<m, 1>> \in P
            <4>1. 1 < PieceCount(m) /\ ~(1 < skip)  BY <3>3
            <4> QED  BY <1>13, <3>1, <4>1
        <3> QED  BY <3>1, <3>3, <3>4
    <2> HIDE DEF m
    <2>2. PICK k \in 1..n : s[k] = <<m, 1>>
        BY <1>10, <2>1
    <2>3. i < k
        <3>1. k # i  BY <2>1, <2>2
        <3>2. ~(k < i)
            <4> SUFFICES ASSUME k < i PROVE FALSE  OBVIOUS
            <4>1. Follows(<<m, 1>>, <<m, 0>>)
                BY <1>11, <2>1, <2>2
            <4> QED  BY <2>1, <4>1 DEF Follows
        <3> QED  BY <3>1, <3>2, <1>9
    <2>4. ~(i + 1 < k)
        <3> SUFFICES ASSUME i + 1 < k PROVE FALSE  OBVIOUS
        <3>1. i + 1 \in 1..n /\ i < i + 1  BY <1>9
        <3>2. Follows(s[i], s[i + 1]) /\ Follows(s[i + 1], s[k]) /\ s[i + 1] \in P
            BY <1>10, <1>11, <3>1
        <3>3. s[i + 1][1] \in Nat /\ s[i + 1][2] \in {0, 1}
            BY <1>12, <3>2
        <3>4. /\ m < s[i + 1][1] \/ (m = s[i + 1][1] /\ 0 < s[i + 1][2])
              /\ s[i + 1][1] < m \/ (s[i + 1][1] = m /\ s[i + 1][2] < 1)
            BY <2>1, <2>2, <3>2 DEF Follows
        <3> QED  BY <2>1, <3>3, <3>4
    <2> QED
        <3>1. k = i + 1  BY <1>9, <2>3, <2>4
        <3>2. s[i + 1] = <<m, 1>> /\ i < n  BY <1>9, <2>2, <2>3, <3>1
        <3> QED  BY <3>2 DEF m
<1>17. Neat(s)
    <2>1. \A i \in 1..n : s[i][2] < PieceCount(s[i][1])
        BY <1>10, <1>12
    <2> QED  BY <1>10, <1>11, <1>15, <1>16, <2>1 DEF Neat
<1>18. s \in Seq(Parts)
    BY <1>1, <1>10, SeqMonotonic
<1>19. \A m \in S : \E i \in 1..n : s[i] = <<m, PieceCount(m) - 1>>
    <2> TAKE m \in S
    <2>1. <<m, PieceCount(m) - 1>> \in P
        <3> DEFINE c == PieceCount(m)
        <3>1. c \in {1, 2} /\ m \in Nat  BY <1>14
        <3>2. ~(c - 1 < skip /\ \A n1 \in S : m <= n1)
            <4> SUFFICES ASSUME \A n1 \in S : m <= n1 PROVE ~(c - 1 < skip)  OBVIOUS
            <4>1. skip < c  OBVIOUS
            <4> HIDE DEF c
            <4> QED  BY <3>1, <4>1
        <3> HIDE DEF c
        <3>3. c - 1 \in {0, 1} /\ c - 1 < c  BY <3>1
        <3>4. <<m, c - 1>> \in P  BY <1>13, <3>2, <3>3 DEF c
        <3> QED  BY <3>4 DEF c
    <2> QED  BY <1>10, <2>1
<1>20. ASSUME NEW m \in S, \A n1 \in S : m <= n1
       PROVE  n > 0 /\ s[1] = <<m, skip>>
    <2>1. <<m, skip>> \in P
        <3>1. skip < PieceCount(m) /\ ~(skip < skip)  BY <1>20
        <3> QED  BY <1>13, <3>1
    <2>2. PICK k \in 1..n : s[k] = <<m, skip>>
        BY <1>10, <2>1
    <2>3. n > 0 /\ 1 \in 1..n
        BY <1>9
    <2>4. k = 1
        <3> SUFFICES ASSUME k # 1 PROVE FALSE  OBVIOUS
        <3>0. 1 < k  BY <1>9
        <3>1. s[1] \in P /\ Follows(s[1], <<m, skip>>)
            <4>1. s[1] \in P  BY <1>10, <2>3
            <4>2. Follows(s[1], s[k])  BY <1>11, <2>3, <3>0
            <4> QED  BY <2>2, <4>1, <4>2
        <3>2. s[1][1] \in S /\ s[1][1] \in Nat /\ s[1][2] \in {0, 1} /\ m \in Nat /\ m <= s[1][1]
              /\ ~(s[1][2] < skip /\ \A n1 \in S : s[1][1] <= n1)
            BY <1>12, <1>14, <1>20, <3>1
        <3>3. s[1][1] < m \/ (s[1][1] = m /\ s[1][2] < skip)
            BY <3>1 DEF Follows
        <3>4. s[1][1] = m /\ s[1][2] < skip
            BY <3>2, <3>3
        <3> QED  BY <1>20, <3>2, <3>4
    <2> QED  BY <2>2, <2>3, <2>4
<1>21. \A i \in 1..n : s[i][1] \in S
    BY <1>10, <1>12
<1>22. /\ s \in Seq(Parts) /\ Neat(s)
       /\ \A i \in 1..Len(s) : s[i][1] \in S
       /\ \A m \in S : \E i \in 1..Len(s) : s[i] = <<m, PieceCount(m) - 1>>
       /\ \A m \in S : (\A n1 \in S : m <= n1) => Len(s) > 0 /\ s[1] = <<m, skip>>
    BY <1>10, <1>17, <1>18, <1>19, <1>20, <1>21
<1> QED  BY <1>22 DEF s

-----------------------------------------------------------------------------
(* The ends of the batches *)

\* Min of the community modules, for two numbers.
LEMMA MinOfTwo ==
    ASSUME NEW a \in Nat, NEW b \in Nat
    PROVE  Min({a, b}) = IF a <= b THEN a ELSE b
<1> DEFINE c == IF a <= b THEN a ELSE b
<1>1. c \in {a, b} /\ \A y \in {a, b} : c <= y
    OBVIOUS
<1>2. \A x \in {a, b} : (\A y \in {a, b} : x <= y) => x = c
    OBVIOUS
<1> HIDE DEF c
<1>3. Min({a, b}) = c
    BY <1>1, <1>2 DEF Min
<1> QED  BY <1>3 DEF c

\* The integer quotient.
LEMMA Quotient ==
    ASSUME NEW x \in Nat, NEW b \in Nat \ {0}
    PROVE  /\ x \div b \in Nat
           /\ b * (x \div b) <= x /\ x < b * (x \div b) + b
OBVIOUS

\* A plan ascends to the number of its pieces.
LEMMA PlanIs ==
    ASSUME budget \in Nat \ {0}, NEW n \in Nat, NEW base \in Nat
    PROVE  /\ Plan(n, base) \in Seq(Nat)
           /\ n = 0 => Plan(n, base) = <<>>
           /\ n > 0 => Len(Plan(n, base)) > 0 /\ Plan(n, base)[Len(Plan(n, base))] = base + n
           /\ \A i \in 1..Len(Plan(n, base)) : base < Plan(n, base)[i]
           /\ \A i, j \in 1..Len(Plan(n, base)) : i < j => Plan(n, base)[i] < Plan(n, base)[j]
<1> DEFINE L == (n + budget - 1) \div budget
           s == Plan(n, base)
<1>1. n + budget - 1 \in Nat
    OBVIOUS
<1>2. L \in Nat /\ budget * L <= n + budget - 1 /\ n + budget - 1 < budget * L + budget
    BY <1>1, Quotient
<1> HIDE DEF L
<1>3. \A i \in 1..L : i * budget \in Nat
    BY <1>2
<1>4. \A i \in 1..L : s[i] = base + (IF i * budget <= n THEN i * budget ELSE n)
    <2> TAKE i \in 1..L
    <2>1. s[i] = base + Min({i * budget, n})
        BY DEF Plan, L
    <2>2. Min({i * budget, n}) = IF i * budget <= n THEN i * budget ELSE n
        BY <1>3, MinOfTwo
    <2> QED  BY <2>1, <2>2
<1>5. s \in Seq(Nat) /\ Len(s) = L
    <2>1. \A i \in 1..L : s[i] \in Nat
        BY <1>3, <1>4
    <2>2. s \in [1..L -> Nat]
        <3>1. s = [i \in 1..L |-> base + Min({i * budget, n})]
            BY DEF Plan, L
        <3> HIDE DEF s
        <3> QED  BY <2>1, <3>1
    <2> HIDE DEF s
    <2> QED  BY <1>2, <2>2, FunctionIsSeq
<1> HIDE DEF s
<1>6. n = 0 => s = <<>>
    <2> SUFFICES ASSUME n = 0 PROVE s = <<>>  OBVIOUS
    <2>1. L = 0
        <3> SUFFICES ASSUME L # 0 PROVE FALSE  OBVIOUS
        <3>1. budget * L >= budget  BY <1>2
        <3> QED  BY <1>2, <3>1
    <2> QED  BY <1>5, <2>1
<1>7. \A i \in 1..L : i < L => i * budget < n
    <2> SUFFICES ASSUME NEW i \in 1..L, i < L PROVE i * budget < n  OBVIOUS
    <2>1. (i + 1) * budget <= L * budget
        BY <1>2
    <2>2. i * budget + budget <= budget * L
        BY <1>2, <2>1
    <2> QED  BY <1>2, <1>3, <2>2
<1>8. n > 0 => L > 0 /\ s[L] = base + n
    <2> SUFFICES ASSUME n > 0 PROVE L > 0 /\ s[L] = base + n  OBVIOUS
    <2>1. L > 0
        <3> SUFFICES ASSUME L = 0 PROVE FALSE  BY <1>2
        <3>1. budget * L = 0  OBVIOUS
        <3> QED  BY <1>2, <3>1
    <2>2. n <= L * budget
        BY <1>2
    <2> QED  BY <1>2, <1>4, <2>1, <2>2
<1>9. \A i \in 1..L : i * budget >= budget /\ n > 0
    <2> TAKE i \in 1..L
    <2>1. i * budget >= budget  BY <1>2
    <2>2. n > 0
        <3>1. L * budget >= budget  BY <1>2
        <3> QED  BY <1>2, <3>1
    <2> QED  BY <2>1, <2>2
<1>10. \A i \in 1..L : base < s[i]
    BY <1>3, <1>4, <1>9
<1>11. ASSUME NEW i \in 1..L, NEW j \in 1..L, i < j  PROVE s[i] < s[j]
    <2>1. i * budget < n
        BY <1>2, <1>7, <1>11
    <2>2. i * budget < j * budget
        BY <1>2, <1>11
    <2> QED  BY <1>3, <1>4, <2>1, <2>2
<1>12. /\ s \in Seq(Nat)
       /\ n = 0 => s = <<>>
       /\ n > 0 => Len(s) > 0 /\ s[Len(s)] = base + n
       /\ \A i \in 1..Len(s) : base < s[i]
       /\ \A i, j \in 1..Len(s) : i < j => s[i] < s[j]
    BY <1>5, <1>6, <1>8, <1>10, <1>11
<1> QED  BY <1>12 DEF s

-----------------------------------------------------------------------------
(* Positions and pages *)

Positions == {0} \cup Messages

\* Messages are positive numbers, finitely many.
LEMMA Numbers == IsFiniteSet(Messages) /\ (\A m \in Messages : m \in Nat \ {0})
                 /\ \A h \in Positions : h \in Nat
BY PortraitAssumption DEF Positions

\* The highest position of a set.
LEMMA MaxOfIs ==
    ASSUME NEW S, S \subseteq Positions
    PROVE  MaxOf(S) \in Positions /\ \A n \in S : n <= MaxOf(S)
<1>1. CASE S = {}
    BY <1>1 DEF MaxOf, Positions
<1>2. CASE S # {}
    <2>1. IsFiniteSet(Positions)
        <3>1. Positions = Messages \cup {0}  BY DEF Positions
        <3> QED  BY <3>1, Numbers, FS_AddElement
    <2>2. IsFiniteSet(S)  BY <2>1, FS_Subset
    <2>3. S \in SUBSET Nat  BY Numbers
    <2>4. MaxOf(S) = Max(S)  BY <1>2 DEF MaxOf
    <2> QED  BY <1>2, <2>2, <2>3, <2>4, Greatest
<1> QED  BY <1>1, <1>2

\* A page leaves nothing out below its end, and an empty one nothing at all.
LEMMA PageIs ==
    ASSUME history \subseteq Messages, NEW cursor \in Positions, NEW top \in Positions
    PROVE  /\ Page(cursor, top) \subseteq history
           /\ \A m \in Page(cursor, top) : m <= top
           /\ Page(cursor, top) = {} => \A m \in history : ~(cursor < m /\ m <= top)
           /\ Page(cursor, top) # {} =>
                 /\ Max(Page(cursor, top)) \in Page(cursor, top)
                 /\ \A m \in history : cursor < m /\ m <= Max(Page(cursor, top)) =>
                       m \in Page(cursor, top)
<1> DEFINE next == {m \in history : cursor < m /\ m <= top}
           page == Page(cursor, top)
<1>1. page = {m \in next : Cardinality(Upto(next, m)) <= PageSize}
    BY DEF Page
<1>2. next \in SUBSET Nat /\ next \subseteq history /\ IsFiniteSet(next)
    BY Numbers, FS_Subset
<1>3. PageSize \in Nat \ {0}
    BY PortraitAssumption
<1>4. \A m \in next : IsFiniteSet(Upto(next, m)) /\ Cardinality(Upto(next, m)) \in Nat
    <2> HIDE DEF next
    <2> QED  BY <1>2, FS_Subset, FS_CardinalityType DEF Upto
<1>5. \A m \in history : m \in next <=> cursor < m /\ m <= top
    OBVIOUS
<1> HIDE DEF page, next
<1>6. page \subseteq next /\ page \in SUBSET Nat /\ IsFiniteSet(page)
    BY <1>1, <1>2, FS_Subset
<1>7. ASSUME page = {}  PROVE next = {}
    <2> SUFFICES ASSUME next # {} PROVE FALSE  OBVIOUS
    <2> DEFINE f == [m \in next |-> m]
    <2>1. f \in [next -> Nat]  BY <1>2
    <2>2. PICK m \in next : \A n \in next : f[m] <= f[n]
        <3> HIDE DEF f
        <3> QED  BY <1>2, <2>1, Lowest
    <2>3. Upto(next, m) = {m}
        <3>1. \A n \in next : n <= m => n = m
            BY <1>2, <2>2
        <3>2. m <= m  BY <1>2
        <3> QED  BY <3>1, <3>2 DEF Upto
    <2>4. Cardinality(Upto(next, m)) = 1
        BY <2>3, FS_Singleton
    <2> QED  BY <1>1, <1>3, <1>7, <2>4
<1>8. ASSUME page # {}, NEW m \in history, cursor < m, m <= Max(page)  PROVE m \in page
    <2>1. Max(page) \in page /\ \A n \in page : n <= Max(page)
        BY <1>6, <1>8, Greatest
    <2>2. Max(page) \in next /\ Cardinality(Upto(next, Max(page))) <= PageSize
        BY <1>1, <2>1
    <2>3. m \in next
        <3>1. m \in Nat /\ top \in Nat /\ Max(page) \in Nat /\ Max(page) <= top
            BY <1>2, <1>5, <2>2, Numbers
        <3> QED  BY <1>5, <1>8, <3>1
    <2>4. Upto(next, m) \subseteq Upto(next, Max(page))
        <3>1. \A n \in next : n <= m => n <= Max(page)
            <4>1. m \in Nat /\ Max(page) \in Nat /\ (\A n \in next : n \in Nat) /\ m <= Max(page)
                BY <1>2, <1>8, <2>2, <2>3
            <4> HIDE <1>8
            <4> QED  BY <4>1
        <3> QED  BY <3>1 DEF Upto
    <2>5. Cardinality(Upto(next, m)) <= Cardinality(Upto(next, Max(page)))
        BY <1>4, <2>2, <2>4, FS_Subset
    <2>6. Cardinality(Upto(next, m)) <= PageSize
        BY <1>3, <1>4, <2>2, <2>3, <2>5
    <2> QED  BY <1>1, <2>3, <2>6
<1>9. page # {} => Max(page) \in page
    BY <1>6, Greatest
<1>10. /\ page \subseteq history /\ \A m \in page : m <= top
       /\ page = {} => \A m \in history : ~(cursor < m /\ m <= top)
       /\ page # {} => /\ Max(page) \in page
                       /\ \A m \in history : cursor < m /\ m <= Max(page) => m \in page
    BY <1>2, <1>5, <1>6, <1>7, <1>8, <1>9
<1> QED  BY <1>10 DEF page

-----------------------------------------------------------------------------
(* What holds in every state *)

AnchorRecord == [after : Positions, skip : {0, 1}, tail : SUBSET Messages]
RowRecord ==
    [hw : Positions, after : Positions, fp : SUBSET Messages, plan : Seq(Nat), batch : Nat,
     complete : BOOLEAN, reconcile : BOOLEAN, anchor : AnchorRecord, classifier : Nat,
     since : Nat, merged : Seq(Messages), pending : Parts \cup {None}]
LedgerRecord ==
    [init : BOOLEAN, done : SUBSET Messages, part : Parts \cup {None}, revision : Nat \cup {None},
     prefix : (SUBSET Messages) \cup {None}, hw : Positions,
     hash : {<<>>} \cup (Seq(Messages) \X (Parts \cup {None}))]
LookedRecord == [state : {"looked"}, born : Nat, rebuild : BOOLEAN, hw : Positions]
ScanRecord ==
    [state : {"scanning", "scanned"}, born : Nat, rebuild : BOOLEAN, hw : Positions, rev : Nat,
     top : Positions, reconcile : BOOLEAN, after : Positions, from : Positions,
     cursor : Positions, seen : SUBSET Messages, taken : BOOLEAN]
ReadyRecord ==
    [state : {"ready", "asking"}, born : Nat, hw : Positions, rev : Nat, from : Positions,
     seen : SUBSET Messages, offset : Nat, pieces : Seq(Parts), rewound : BOOLEAN]
OverRecord == [state : {"none", "done", "error"}] \cup [state : {"error"}, rewound : {TRUE}]
JobRecord ==
    OverRecord \cup [state : {"queued"}, born : Nat] \cup LookedRecord \cup ScanRecord \cup ReadyRecord
PiecesRecord == [hw : Positions \cup {None}, seen : SUBSET Messages]
ReaderRecord == [hw : Positions, cursor : Positions, seen : SUBSET Messages]
InventoryRecord ==
    [row : Positions \cup {None}, reader : ReaderRecord \cup {None}, pieces : PiecesRecord]

WorldTyped ==
    /\ history \subseteq Messages /\ rev \in Nat /\ overlooked \subseteq Messages
    /\ suspended \in BOOLEAN /\ budget \in Nat \ {0} /\ classifier \in Nat /\ erased \in Nat
    /\ inventory \in InventoryRecord
    /\ \A m \in inventory.pieces.seen : m <= inventory.pieces.hw
    /\ inventory.reader # None => \A m \in inventory.reader.seen : m <= inventory.reader.hw
Typed ==
    /\ WorldTyped
    /\ saved \in RowRecord \cup {NoRow} /\ ledger \in LedgerRecord
    /\ jobs \in [Jobs -> JobRecord] /\ current \in {0} \cup Jobs

\* Row and ledger go together, and all of it was begun after the last reset.
Running(job) == job.state \notin {"none", "done", "error"}
Kept ==
    /\ suspended => current = 0
    /\ IF ledger.init THEN Existing /\ saved.classifier = classifier ELSE ledger = NoLedger
    /\ Existing => saved.since = erased
Born(job) == Running(job) => job.born = erased

\* What the anchor leaves to the next job is what the pass has not done.
Rest == IF saved.reconcile THEN saved.anchor.tail \ ledger.done
        ELSE {m \in saved.anchor.tail : m > saved.after}
PartRight ==
    IF ledger.part = None THEN saved.anchor.skip = 0 /\ saved.anchor.after # 0
    ELSE /\ saved.anchor.skip = 1 /\ ledger.part[2] = 1
         /\ ledger.part[1] \in Long \cap Rest /\ \A n \in Rest : ledger.part[1] <= n
AnchorRight ==
    /\ saved.fp \subseteq ledger.done \cup Rest /\ Rest \cap ledger.done = {}
    /\ ~saved.reconcile => saved.anchor.after >= saved.after
    /\ PartRight
Begins == ledger.part = None /\ (~saved.reconcile => saved.fp \cap ledger.done = {})
RowRight ==
    /\ saved.batch <= Len(saved.plan)
    /\ saved.complete <=> saved.batch = Len(saved.plan)
    /\ saved.complete => saved.pending = None
Within(S) == \A m \in S : m <= saved.hw
LedgerRight ==
    /\ Within(ledger.done)
    /\ saved.merged = Replayed
    /\ saved.pending # None => saved.pending = ledger.part
    /\ ledger.hash \in {<<>>, <<saved.merged, saved.pending>>}
    /\ saved.complete => ledger.part = None /\ saved.fp \subseteq ledger.done
    /\ ~saved.complete => IF saved.batch = 0 THEN Begins ELSE AnchorRight
Rows == (Existing => RowRight) /\ (ledger.init => LedgerRight)

\* The prefix that is compared holds nothing unread, and stands for its revision.
Read == ledger.done \cup overlooked
Prefix ==
    /\ ledger.prefix # None => ledger.prefix \subseteq Read
    /\ ledger.revision # None => ledger.revision <= rev
    /\ ledger.revision = rev => Upto(history, ledger.hw) = ledger.prefix

\* As far as the job can know, S covers the history up to h.
Covers(job, h, S) == rev = job.rev => Upto(history, h) \subseteq S
Current(job) == job.rev <= rev /\ (ledger.revision # None => ledger.revision <= job.rev)

ScanRight(job) ==
    /\ job.rebuild = Rebuilds /\ Current(job)
    /\ job.after = After(job.rebuild)
    /\ IF Unfinished(job.rebuild) THEN job.top = saved.hw /\ job.reconcile = saved.reconcile
       ELSE job.top = job.hw
    /\ Unfinished(job.rebuild) /\ saved.batch > 0 => job.from = saved.anchor.after
    /\ Finished(job.rebuild) => job.hw >= saved.hw /\ (job.hw = saved.hw => job.reconcile)
    /\ ~HasRow(job.rebuild) => job.from = 0 /\ ~job.reconcile
    /\ ~job.reconcile => job.from >= job.after
    /\ \A m \in job.seen : m <= job.top
    /\ job.taken => job.from = 0 /\ job.after = 0
    /\ Covers(job, job.from, Read)
    /\ Covers(job, IF job.state = "scanned" THEN job.top ELSE job.cursor,
              Upto(history, job.from) \cup job.seen \cup overlooked)

\* The piece a batch ends with, and what lies ahead of the next one.
Mark(job, k) == (IF k = 0 THEN 0 ELSE saved.plan[k]) - job.offset
Ahead(job) == {i \in 1..Len(job.pieces) : i > Mark(job, saved.batch)}
Due(job) == {job.pieces[i][1] : i \in Ahead(job)}
PlanRight(job) ==
    /\ Mark(job, Len(saved.plan)) = Len(job.pieces)
    /\ Mark(job, saved.batch) \in Nat
    /\ \A k, l \in saved.batch..Len(saved.plan) : k < l => Mark(job, k) < Mark(job, l)
Rewound(job) ==
    /\ ~saved.complete /\ Mark(job, saved.batch) = 0 /\ job.pieces[1][2] = 0
    /\ ledger.part # None
Continues(job) ==
    LET next == job.pieces[Mark(job, saved.batch) + 1]
    IN  IF ledger.part = None THEN next[2] = 0 ELSE next = ledger.part
DueRight(job) ==
    /\ ~saved.reconcile => job.from >= saved.after
    /\ \A m \in job.seen : IF saved.reconcile THEN m \in ledger.done \/ \E i \in 1..Len(job.pieces) : job.pieces[i][1] = m
                           ELSE m <= saved.after \/ \E i \in 1..Len(job.pieces) : job.pieces[i][1] = m
    /\ ~saved.reconcile => \A i \in 1..Len(job.pieces) : job.pieces[i][1] > saved.after
    /\ saved.fp \subseteq ledger.done \cup Due(job) /\ Due(job) \cap ledger.done = {}
    /\ ~saved.complete => Continues(job)
    /\ Covers(job, job.from, Read) /\ Covers(job, saved.hw, Read \cup Due(job))
ReadyRight(job) ==
    /\ ledger.init /\ Current(job)
    /\ Neat(job.pieces) /\ (\A i \in 1..Len(job.pieces) : job.pieces[i][1] \in job.seen)
    /\ PlanRight(job) /\ Within(job.seen)
    /\ IF job.rewound THEN Rewound(job) ELSE DueRight(job)
    /\ job.state = "asking" => ~saved.complete

JobRight(job) ==
    /\ Born(job)
    /\ job.state = "looked" => job.rebuild = Rebuilds
    /\ job.state \in {"scanning", "scanned"} => ScanRight(job)
    /\ job.state \in {"ready", "asking"} => ReadyRight(job)
LiveRight == \A j \in Jobs : Live(j) => JobRight(jobs[j])

PortraitInv == Typed /\ Kept /\ Rows /\ Prefix /\ LiveRight

\* None is none of the values it stands beside.
LEMMA NoneIs ==
    /\ None \notin Nat /\ None \notin Parts /\ None \notin Positions
    /\ \A S \in SUBSET Messages : None # S
BY PortraitAssumption, Numbers DEF Parts

\* A row is not the missing row.
LEMMA RowExists ==
    ASSUME NEW r \in RowRecord
    PROVE  r # NoRow
<1>1. r.hw # None  BY NoneIs DEF RowRecord
<1>2. NoRow.hw = None  BY DEF NoRow
<1> QED  BY <1>1, <1>2

-----------------------------------------------------------------------------
(* Steps that only move on a job *)

\* A step of the registered job is right if what it leaves is.
LEMMA LiveStep ==
    ASSUME Typed, NEW j \in Jobs, Live(j), NEW J \in JobRecord, jobs' = [jobs EXCEPT ![j] = J],
           WorldTyped', saved' \in RowRecord \cup {NoRow}, ledger' \in LedgerRecord,
           UNCHANGED <<current, suspended>>,
           Kept', Rows', Prefix', JobRight(J)'
    PROVE  PortraitInv'
<1>1. jobs' \in [Jobs -> JobRecord] /\ jobs'[j] = J
    BY DEF Typed
<1>2. Typed'
    BY <1>1 DEF Typed
<1>3. ASSUME NEW i \in Jobs, Live(i)'  PROVE JobRight(jobs[i])'
    <2>1. i = j  BY <1>3 DEF Live
    <2> QED  BY <1>1, <2>1
<1> QED  BY <1>2, <1>3 DEF PortraitInv, LiveRight

\* Nothing but the job and what has been overlooked.
OnlyJobs ==
    /\ UNCHANGED <<history, rev, saved, ledger, current, inventory, suspended, budget, classifier, erased>>
    /\ overlooked \subseteq overlooked' /\ overlooked' \subseteq Messages

\* Such a step keeps everything but the registered job.
LEMMA OnlyJobsKeeps ==
    ASSUME Typed, Kept, Rows, Prefix, OnlyJobs
    PROVE  /\ WorldTyped' /\ saved' \in RowRecord \cup {NoRow} /\ ledger' \in LedgerRecord
           /\ Kept' /\ Rows' /\ Prefix'
<1> USE DEF OnlyJobs
<1>1. WorldTyped'  BY DEF Typed, WorldTyped
<1>2. saved' \in RowRecord \cup {NoRow} /\ ledger' \in LedgerRecord  BY DEF Typed
<1>3. Kept'  BY DEF Kept, Existing
<1>4. Rows'
    BY DEF Rows, Existing, RowRight, LedgerRight, Within, Replayed, Begins, AnchorRight, Rest, PartRight
<1>5. Prefix'  BY DEF Prefix, Read
<1> QED  BY <1>1, <1>2, <1>3, <1>4, <1>5

\* Such a step of the registered job is right if what it leaves is.
LEMMA JobStep ==
    ASSUME PortraitInv, NEW j \in Jobs, Live(j), NEW J \in JobRecord, jobs' = [jobs EXCEPT ![j] = J],
           OnlyJobs, JobRight(J)'
    PROVE  PortraitInv'
<1>1. Typed /\ Kept /\ Rows /\ Prefix  BY DEF PortraitInv
<1>2. UNCHANGED <<current, suspended>>  BY DEF OnlyJobs
<1> QED  BY <1>1, <1>2, OnlyJobsKeeps, LiveStep

\* Nothing is asked of a job that is over.
LEMMA OverIsRight ==
    ASSUME NEW J \in OverRecord
    PROVE  J \in JobRecord /\ JobRight(J) /\ JobRight(J)'
<1>1. J.state \in {"none", "done", "error"}
    BY DEF OverRecord
<1> QED  BY <1>1 DEF JobRecord, JobRight, Born, Running

\* A job may end.
LEMMA OverStep ==
    ASSUME PortraitInv, NEW j \in Jobs, Live(j), NEW J \in OverRecord, jobs' = [jobs EXCEPT ![j] = J],
           OnlyJobs
    PROVE  PortraitInv'
BY OverIsRight, JobStep

\* A job that ended is over.
LEMMA EndedIs ==
    ASSUME NEW how \in {"done", "error"}
    PROVE  [state |-> how] \in OverRecord
BY DEF OverRecord

\* Which record a job is.
LEMMA JobIs ==
    ASSUME Typed, NEW j \in Jobs
    PROVE  /\ jobs[j] \in JobRecord
           /\ At(j, "queued") => jobs[j] \in [state : {"queued"}, born : Nat]
           /\ At(j, "looked") => jobs[j] \in LookedRecord
           /\ At(j, "scanning") \/ At(j, "scanned") => jobs[j] \in ScanRecord
           /\ At(j, "ready") \/ At(j, "asking") => jobs[j] \in ReadyRecord
<1>1. jobs[j] \in JobRecord  BY DEF Typed
<1>2. jobs[j] \in OverRecord => jobs[j].state \in {"none", "done", "error"}
    BY DEF OverRecord
<1>3. jobs[j] \in [state : {"queued"}, born : Nat] => jobs[j].state = "queued"
    OBVIOUS
<1>4. jobs[j] \in LookedRecord => jobs[j].state = "looked"
    BY DEF LookedRecord
<1>5. jobs[j] \in ScanRecord => jobs[j].state \in {"scanning", "scanned"}
    BY DEF ScanRecord
<1>6. jobs[j] \in ReadyRecord => jobs[j].state \in {"ready", "asking"}
    BY DEF ReadyRecord
<1>7. \/ jobs[j] \in OverRecord \/ jobs[j] \in [state : {"queued"}, born : Nat]
      \/ jobs[j] \in LookedRecord \/ jobs[j] \in ScanRecord \/ jobs[j] \in ReadyRecord
    BY <1>1 DEF JobRecord
<1> DEFINE st == jobs[j].state
<1> HIDE DEF st
<1> QED
    <2>1. (At(j, "queued") <=> st = "queued") /\ (At(j, "looked") <=> st = "looked")
          /\ (At(j, "scanning") <=> st = "scanning") /\ (At(j, "scanned") <=> st = "scanned")
          /\ (At(j, "ready") <=> st = "ready") /\ (At(j, "asking") <=> st = "asking")
        BY DEF At, st
    <2> QED  BY <1>1, <1>2, <1>3, <1>4, <1>5, <1>6, <1>7, <2>1 DEF st

\* The registered job is right.
LEMMA LiveIsRight ==
    ASSUME PortraitInv, NEW j \in Jobs, Live(j)
    PROVE  Typed /\ JobRight(jobs[j])
BY DEF PortraitInv, LiveRight

\* A job refuses or fails.
LEMMA ShrunkStep ==
    ASSUME PortraitInv, NEW j \in Jobs, Shrunk(j) \/ Refuse(j) \/ CallFails(j)
    PROVE  PortraitInv'
<1>1. Live(j) /\ jobs' = [jobs EXCEPT ![j] = [state |-> "error"]] /\ OnlyJobs
    BY DEF Shrunk, Refuse, CallFails, Ended, OnlyJobs, source, settings, PortraitInv, Typed, WorldTyped
<1>2. [state |-> "error"] \in OverRecord  BY EndedIs
<1> QED  BY <1>1, <1>2, OverStep

\* A job looks at what is saved.
LEMMA LookStep ==
    ASSUME PortraitInv, NEW j \in Jobs, Look(j)
    PROVE  PortraitInv'
<1>1. Typed /\ JobRight(jobs[j]) /\ Live(j)
    BY LiveIsRight DEF Look
<1>2. jobs[j] \in [state : {"queued"}, born : Nat] /\ Running(jobs[j])
    BY <1>1, JobIs DEF Look, At, Running
<1>3. OnlyJobs
    BY <1>1 DEF Look, OnlyJobs, source, settings, Typed, WorldTyped
<1>4. Highwater \in Positions
    BY <1>1, MaxOfIs DEF Highwater, Typed, WorldTyped, Positions
<1>5. PICK J \in LookedRecord :
         J = [state |-> "looked", born |-> jobs[j].born, rebuild |-> Rebuilds, hw |-> Highwater]
    <2>1. Rebuilds \in BOOLEAN  BY DEF Rebuilds
    <2> QED  BY <1>2, <1>4, <2>1 DEF LookedRecord
<1>6. jobs' = [jobs EXCEPT ![j] = J]
    BY <1>5, <1>1 DEF Look, Typed
<1>7. JobRight(J)'
    <2>1. J.state = "looked" /\ J.born = erased /\ J.rebuild = Rebuilds
        BY <1>1, <1>2, <1>5 DEF JobRight, Born
    <2>2. erased' = erased /\ Rebuilds' = Rebuilds
        BY <1>3 DEF OnlyJobs, Rebuilds, Existing
    <2> QED  BY <2>1, <2>2 DEF JobRight, Born
<1>8. J \in JobRecord  BY DEF JobRecord
<1> QED  BY <1>1, <1>3, <1>6, <1>7, <1>8, JobStep

\* A job that is not the registered one any more stops.
LEMMA StopStep ==
    ASSUME PortraitInv, NEW j \in Jobs, Stop(j)
    PROVE  PortraitInv'
<1>1. Typed /\ Kept /\ Rows /\ Prefix  BY DEF PortraitInv
<1>2. OnlyJobs /\ jobs' = [jobs EXCEPT ![j] = [state |-> "error"]] /\ ~Live(j)
    BY <1>1 DEF Stop, Ended, OnlyJobs, source, settings, Typed, WorldTyped
<1>3. [state |-> "error"] \in JobRecord  BY EndedIs, OverIsRight
<1>4. /\ WorldTyped' /\ saved' \in RowRecord \cup {NoRow} /\ ledger' \in LedgerRecord
      /\ Kept' /\ Rows' /\ Prefix'
    BY <1>1, <1>2, OnlyJobsKeeps
<1>5. Typed'
    BY <1>1, <1>2, <1>3, <1>4 DEF Typed, OnlyJobs
<1>6. ASSUME NEW i \in Jobs, Live(i)'  PROVE JobRight(jobs[i])'
    <2>1. Live(i) /\ i # j /\ jobs'[i] = jobs[i]
        BY <1>1, <1>2, <1>6 DEF Live, OnlyJobs, Typed
    <2>2. JobRight(jobs[i])
        BY <2>1 DEF PortraitInv, LiveRight
    <2>3. UNCHANGED overlooked
        BY DEF Stop
    <2> QED
        BY <1>2, <2>1, <2>2, <2>3
        DEF OnlyJobs, JobRight, Born, Running, ScanRight, ReadyRight, Rebuilds, Existing, Current,
            After, Unfinished, Finished, HasRow, Covers, Read, PlanRight, Mark, Within, Rewound, DueRight,
            Due, Ahead, Continues
<1> QED  BY <1>4, <1>5, <1>6 DEF PortraitInv, LiveRight

\* A portrait is requested.
LEMMA RequestStep ==
    ASSUME PortraitInv, RequestPortrait
    PROVE  PortraitInv'
<1>1. Typed /\ Kept /\ Rows /\ Prefix  BY DEF PortraitInv
<1>2. PICK j \in Jobs : /\ jobs' = [jobs EXCEPT ![j] = [state |-> "queued", born |-> erased]]
                        /\ current' = j
    BY DEF RequestPortrait
<1>3. UNCHANGED <<history, rev, saved, ledger, inventory, suspended, budget, classifier, erased, overlooked>>
    BY DEF RequestPortrait, source, settings
<1>4. PICK J \in JobRecord : J = [state |-> "queued", born |-> erased]
    BY <1>1 DEF JobRecord, Typed, WorldTyped
<1>5. Typed'
    <2>1. jobs' \in [Jobs -> JobRecord]  BY <1>1, <1>2, <1>4 DEF Typed
    <2> QED  BY <1>1, <1>2, <1>3, <2>1 DEF Typed, WorldTyped
<1>6. Kept'
    BY <1>1, <1>3 DEF Kept, Existing, RequestPortrait
<1>7. Rows' /\ Prefix'
    BY <1>1, <1>3 DEF Rows, Existing, RowRight, LedgerRight, Within, Replayed, Begins, AnchorRight, Rest,
                      PartRight, Prefix, Read
<1>8. ASSUME NEW i \in Jobs, Live(i)'  PROVE JobRight(jobs[i])'
    <2>1. jobs'[i] = J
        BY <1>1, <1>2, <1>4, <1>8 DEF Live, Typed
    <2>2. J.state = "queued" /\ J.born = erased
        BY <1>4
    <2> QED  BY <1>3, <2>1, <2>2 DEF JobRight, Born
<1> QED  BY <1>5, <1>6, <1>7, <1>8 DEF PortraitInv, LiveRight

\* A job that is ready may ask, and back: nothing else of it changes.
LEMMA ReadyIs ==
    ASSUME Typed, NEW j \in Jobs, jobs[j] \in ReadyRecord, NEW stage \in {"ready", "asking"}
    PROVE  /\ [jobs[j] EXCEPT !.state = stage] \in ReadyRecord
           /\ [jobs[j] EXCEPT !.state = stage].state = stage
           /\ [jobs[j] EXCEPT !.state = stage] =
                [state |-> stage, born |-> jobs[j].born, hw |-> jobs[j].hw, rev |-> jobs[j].rev,
                 from |-> jobs[j].from, seen |-> jobs[j].seen, offset |-> jobs[j].offset,
                 pieces |-> jobs[j].pieces, rewound |-> jobs[j].rewound]
BY DEF ReadyRecord

\* A job asks for its next batch.
LEMMA AskStep ==
    ASSUME PortraitInv, NEW j \in Jobs, Ask(j)
    PROVE  PortraitInv'
<1>1. Typed /\ JobRight(jobs[j]) /\ Live(j)
    BY LiveIsRight DEF Ask
<1>2. jobs[j] \in ReadyRecord /\ Running(jobs[j]) /\ jobs[j].state = "ready"
    BY <1>1, JobIs DEF Ask, At, Running
<1>3. OnlyJobs
    BY <1>1 DEF Ask, OnlyJobs, source, settings, Typed, WorldTyped
<1>4. PICK J \in ReadyRecord :
        J = [state |-> "asking", born |-> jobs[j].born, hw |-> jobs[j].hw, rev |-> jobs[j].rev,
             from |-> jobs[j].from, seen |-> jobs[j].seen, offset |-> jobs[j].offset,
             pieces |-> jobs[j].pieces, rewound |-> jobs[j].rewound]
    BY <1>1, <1>2, ReadyIs
<1>5. jobs' = [jobs EXCEPT ![j] = J]
    <2>1. jobs' = [jobs EXCEPT ![j] = [jobs[j] EXCEPT !.state = "asking"]]
        BY <1>1 DEF Ask, Typed
    <2> QED  BY <1>1, <1>2, <1>4, <2>1, ReadyIs
<1>6. /\ J.state = "asking" /\ J.born = jobs[j].born /\ J.rev = jobs[j].rev /\ J.from = jobs[j].from
      /\ J.seen = jobs[j].seen /\ J.offset = jobs[j].offset /\ J.pieces = jobs[j].pieces
      /\ J.rewound = jobs[j].rewound /\ J.hw = jobs[j].hw
    BY <1>4
<1>7. ReadyRight(jobs[j]) /\ jobs[j].born = erased
    BY <1>1, <1>2 DEF JobRight, Born
<1>8. ~saved.complete
    <2>1. Existing /\ RowRight /\ saved.batch # Len(saved.plan)
        <3>1. Existing  BY <1>7 DEF ReadyRight, PortraitInv, Kept
        <3>2. saved.batch \in Nat /\ Len(saved.plan) \in Nat
            BY <1>1, <3>1 DEF Typed, Existing, RowRecord
        <3> QED  BY <3>1, <3>2 DEF PortraitInv, Rows, Ask
    <2> QED  BY <2>1 DEF RowRight
<1>9. ReadyRight(J)'
    BY <1>3, <1>6, <1>7, <1>8
    DEF OnlyJobs, ReadyRight, Current, PlanRight, Mark, Within, Rewound, DueRight, Due, Ahead, Continues,
        Covers, Read
<1>10. JobRight(J)'
    BY <1>3, <1>6, <1>7, <1>9 DEF JobRight, Born, OnlyJobs
<1>11. J \in JobRecord  BY DEF JobRecord
<1> QED  BY <1>1, <1>3, <1>5, <1>10, <1>11, JobStep

-----------------------------------------------------------------------------
(* The world *)

\* A message arrives or vanishes: the revision moves on.
LEMMA MoveStep ==
    ASSUME PortraitInv, NEW m \in Messages, Arrive(m) \/ Vanish(m)
    PROVE  PortraitInv'
<1>1. Typed /\ Kept /\ Rows /\ Prefix  BY DEF PortraitInv
<1>2. /\ UNCHANGED <<saved, ledger, jobs, current, inventory, suspended, budget, classifier, erased,
                     overlooked>>
      /\ rev' = rev + 1 /\ history' \subseteq Messages
    BY <1>1 DEF Arrive, Vanish, settings, Typed, WorldTyped
<1>3. rev \in Nat  BY <1>1 DEF Typed, WorldTyped
<1>4. Typed'
    BY <1>1, <1>2 DEF Typed, WorldTyped
<1>5. Kept' /\ Rows'
    BY <1>1, <1>2 DEF Kept, Rows, Existing, RowRight, LedgerRight, Within, Replayed, Begins, AnchorRight,
                      Rest, PartRight
<1>6. Prefix'
    <2>1. ledger.revision # None => ledger.revision <= rev'
        <3>1. ledger.revision \in Nat \cup {None}  BY <1>1 DEF Typed, LedgerRecord
        <3> QED  BY <1>1, <1>2, <1>3, <3>1 DEF Prefix
    <2>2. ledger.revision # rev'
        <3>1. ledger.revision \in Nat \cup {None}  BY <1>1 DEF Typed, LedgerRecord
        <3> QED  BY <1>1, <1>2, <1>3, <3>1, NoneIs DEF Prefix
    <2> QED  BY <1>1, <1>2, <2>1, <2>2 DEF Prefix, Read
<1>7. ASSUME NEW i \in Jobs, Live(i)'  PROVE JobRight(jobs[i])'
    <2>1. Live(i) /\ JobRight(jobs[i])
        BY <1>2, <1>7 DEF Live, PortraitInv, LiveRight
    <2>2. Born(jobs[i])' /\ (jobs[i].state = "looked" => jobs[i].rebuild = Rebuilds')
        BY <1>2, <2>1 DEF JobRight, Born, Running, Rebuilds, Existing
    <2>3. ASSUME jobs[i].state \in {"scanning", "scanned", "ready", "asking"}, Current(jobs[i])
          PROVE  Current(jobs[i])' /\ rev' # jobs[i].rev
        <3>1. jobs[i].rev \in Nat
            BY <1>1, <2>3, JobIs DEF At, ScanRecord, ReadyRecord
        <3> QED  BY <1>2, <1>3, <2>3, <3>1 DEF Current
    <2>4. jobs[i].state \in {"scanning", "scanned"} => ScanRight(jobs[i])'
        <3> SUFFICES ASSUME jobs[i].state \in {"scanning", "scanned"} PROVE ScanRight(jobs[i])'
            OBVIOUS
        <3>1. ScanRight(jobs[i])  BY <2>1 DEF JobRight
        <3>2. Current(jobs[i])' /\ rev' # jobs[i].rev  BY <2>3, <3>1 DEF ScanRight
        <3> QED  BY <1>2, <3>1, <3>2
                 DEF ScanRight, Rebuilds, Existing, After, Unfinished, Finished, HasRow, Covers
    <2>5. jobs[i].state \in {"ready", "asking"} => ReadyRight(jobs[i])'
        <3> SUFFICES ASSUME jobs[i].state \in {"ready", "asking"} PROVE ReadyRight(jobs[i])'
            OBVIOUS
        <3>1. ReadyRight(jobs[i])  BY <2>1 DEF JobRight
        <3>2. Current(jobs[i])' /\ rev' # jobs[i].rev  BY <2>3, <3>1 DEF ReadyRight
        <3> QED  BY <1>2, <3>1, <3>2
                 DEF ReadyRight, PlanRight, Mark, Within, Rewound, DueRight, Due, Ahead, Continues, Covers
    <2> QED  BY <1>2, <2>2, <2>4, <2>5 DEF JobRight
<1> QED  BY <1>4, <1>5, <1>6, <1>7 DEF PortraitInv, LiveRight

\* What concerns the inventory alone.
LEMMA InventoryStep ==
    ASSUME PortraitInv, OpenPortrait \/ CountPage \/ PiecesExpire
    PROVE  PortraitInv'
<1>1. Typed /\ Kept /\ Rows /\ Prefix  BY DEF PortraitInv
<1>2. UNCHANGED <<history, rev, saved, ledger, jobs, current, suspended, budget, classifier, erased,
                  overlooked>>
    BY DEF OpenPortrait, CountPage, PiecesExpire, source, settings
<1>3. history \subseteq Messages /\ inventory \in InventoryRecord
      /\ (\A m \in inventory.pieces.seen : m <= inventory.pieces.hw)
      /\ (inventory.reader # None => \A m \in inventory.reader.seen : m <= inventory.reader.hw)
    BY <1>1 DEF Typed, WorldTyped
<1>4. /\ inventory' \in InventoryRecord
      /\ \A m \in inventory'.pieces.seen : m <= inventory'.pieces.hw
      /\ inventory'.reader # None => \A m \in inventory'.reader.seen : m <= inventory'.reader.hw
    <2>0. /\ inventory.row \in Positions \cup {None} /\ inventory.reader \in ReaderRecord \cup {None}
          /\ inventory.pieces \in PiecesRecord
          /\ inventory = [row |-> inventory.row, reader |-> inventory.reader, pieces |-> inventory.pieces]
        BY <1>3 DEF InventoryRecord
    <2>1. CASE OpenPortrait
        <3>1. PICK r \in ReaderRecord : r = [hw |-> Highwater, cursor |-> 0, seen |-> {}]
            <4>1. Highwater \in Positions  BY <1>3, MaxOfIs DEF Highwater, Positions
            <4> QED  BY <4>1 DEF ReaderRecord, Positions
        <3>2. inventory' = [row |-> inventory.row, reader |-> r, pieces |-> inventory.pieces]
            BY <2>0, <2>1, <3>1 DEF OpenPortrait
        <3>3. r.seen = {}  BY <3>1
        <3> QED  BY <1>3, <2>0, <3>2, <3>3 DEF InventoryRecord
    <2>2. CASE CountPage
        <3> DEFINE rd == inventory.reader
        <3>1. rd \in ReaderRecord /\ rd # None
            BY <2>0, <2>2 DEF CountPage
        <3>2. PICK page : page = Page(rd.cursor, rd.hw)
            OBVIOUS
        <3>3. page \subseteq Messages /\ (\A m \in page : m <= rd.hw) /\ (page # {} => Max(page) \in page)
            BY <1>3, <3>1, <3>2, PageIs DEF ReaderRecord
        <3>4. CASE page # {}
            <4>1. inventory' = [inventory EXCEPT !.reader.cursor = Max(page), !.reader.seen = @ \cup page]
                BY <2>2, <3>1, <3>2, <3>4 DEF CountPage
            <4>2. PICK r \in ReaderRecord : r = [hw |-> rd.hw, cursor |-> Max(page), seen |-> rd.seen \cup page]
                BY <3>1, <3>3, <3>4 DEF ReaderRecord, Positions
            <4>3. inventory' = [row |-> inventory.row, reader |-> r, pieces |-> inventory.pieces]
                BY <2>0, <3>1, <4>1, <4>2 DEF ReaderRecord
            <4>4. \A m \in r.seen : m <= r.hw
                BY <1>3, <3>1, <3>3, <4>2
            <4> QED  BY <1>3, <2>0, <4>3, <4>4 DEF InventoryRecord
        <3>5. CASE page = {}
            <4>1. PICK p \in {inventory.pieces, [hw |-> rd.hw, seen |-> rd.seen]} :
                    inventory' = [row |-> rd.hw, reader |-> None, pieces |-> p]
                BY <2>2, <3>1, <3>2, <3>5 DEF CountPage
            <4>2. p \in PiecesRecord /\ \A m \in p.seen : m <= p.hw
                <5>1. CASE p = inventory.pieces  BY <1>3, <2>0, <5>1
                <5>2. CASE p = [hw |-> rd.hw, seen |-> rd.seen]
                    BY <1>3, <3>1, <5>2 DEF PiecesRecord, ReaderRecord
                <5> QED  BY <4>1, <5>1, <5>2
            <4> QED  BY <3>1, <4>1, <4>2 DEF InventoryRecord, ReaderRecord
        <3> QED  BY <3>4, <3>5
    <2>3. CASE PiecesExpire
        <3>1. inventory' = [row |-> inventory.row, reader |-> inventory.reader, pieces |-> NoPieces]
            BY <2>0, <2>3 DEF PiecesExpire
        <3>2. NoPieces \in PiecesRecord /\ NoPieces.seen = {}
            BY DEF NoPieces, PiecesRecord
        <3> QED  BY <1>3, <2>0, <3>1, <3>2 DEF InventoryRecord
    <2> QED  BY <2>1, <2>2, <2>3
<1>5. Typed'
    BY <1>1, <1>2, <1>4 DEF Typed, WorldTyped
<1>6. Kept' /\ Rows' /\ Prefix'
    BY <1>1, <1>2 DEF Kept, Rows, Existing, RowRight, LedgerRight, Within, Replayed, Begins, AnchorRight,
                      Rest, PartRight, Prefix, Read
<1>7. ASSUME NEW i \in Jobs, Live(i)'  PROVE JobRight(jobs[i])'
    <2>1. Live(i) /\ JobRight(jobs[i])
        BY <1>2, <1>7 DEF Live, PortraitInv, LiveRight
    <2> QED
        BY <1>2, <2>1
        DEF JobRight, Born, Running, ScanRight, ReadyRight, Rebuilds, Existing, Current,
            After, Unfinished, Finished, HasRow, Covers, Read, PlanRight, Mark, Within, Rewound, DueRight,
            Due, Ahead, Continues
<1> QED  BY <1>5, <1>6, <1>7 DEF PortraitInv, LiveRight

\* The empty ledger.
LEMMA NoLedgerIs == NoLedger \in LedgerRecord /\ ~NoLedger.init /\ NoLedger.part = None
                    /\ NoLedger.prefix = None /\ NoLedger.revision = None /\ NoLedger.done = {}
                    /\ NoLedger.hash = <<>>
BY DEF NoLedger, LedgerRecord, Positions

\* The pieces of an inventory may be dropped.
LEMMA NoPiecesKept ==
    ASSUME Typed, inventory' = [inventory EXCEPT !.pieces = NoPieces]
                  \/ inventory' = [inventory EXCEPT !.reader = None, !.pieces = NoPieces]
    PROVE  /\ inventory' \in InventoryRecord
           /\ \A m \in inventory'.pieces.seen : m <= inventory'.pieces.hw
           /\ inventory'.reader # None => \A m \in inventory'.reader.seen : m <= inventory'.reader.hw
<1>1. NoPieces \in PiecesRecord /\ NoPieces.seen = {}
    BY DEF NoPieces, PiecesRecord
<1>2. /\ inventory.row \in Positions \cup {None} /\ inventory.reader \in ReaderRecord \cup {None}
      /\ inventory.pieces \in PiecesRecord
      /\ inventory = [row |-> inventory.row, reader |-> inventory.reader, pieces |-> inventory.pieces]
      /\ inventory.reader # None => \A m \in inventory.reader.seen : m <= inventory.reader.hw
    BY DEF Typed, WorldTyped, InventoryRecord
<1>3. PICK r \in {inventory.reader, None} :
        inventory' = [row |-> inventory.row, reader |-> r, pieces |-> NoPieces]
    BY <1>2
<1> QED  BY <1>1, <1>2, <1>3 DEF InventoryRecord

\* Nobody is registered, so there is no job to be right.
LEMMA NobodyStep ==
    ASSUME current' = 0 \/ suspended', Typed', Kept', Rows', Prefix'
    PROVE  PortraitInv'
<1>1. \A j \in Jobs : ~Live(j)'
    BY PortraitAssumption DEF Live, Jobs
<1> QED  BY <1>1 DEF PortraitInv, LiveRight

\* What was saved is erased and nobody is registered.
LEMMA ErasedStep ==
    ASSUME PortraitInv, Reset \/ Clear
    PROVE  PortraitInv'
<1>1. Typed /\ Kept  BY DEF PortraitInv
<1>2. /\ current' = 0 /\ saved' = NoRow /\ ledger' = NoLedger /\ overlooked' = {} /\ erased' = erased + 1
      /\ UNCHANGED <<history, rev, jobs, inventory, budget, classifier>> /\ suspended' \in {suspended, FALSE}
    BY <1>1 DEF Reset, Clear, ClearLedger, source, Kept
<1>3. Typed'
    <2>1. suspended' \in BOOLEAN /\ erased' \in Nat
        <3>1. suspended \in BOOLEAN /\ erased \in Nat  BY <1>1 DEF Typed, WorldTyped
        <3>2. suspended' \in {suspended, FALSE} /\ erased' = erased + 1  BY <1>2
        <3>3. suspended' \in BOOLEAN
            <4> HIDE <1>2
            <4>1. suspended' = suspended \/ suspended' = FALSE  BY <3>2
            <4> QED  BY <3>1, <4>1
        <3>4. erased' \in Nat  BY <3>1, <3>2
        <3> QED  BY <3>3, <3>4
    <2>2. WorldTyped'
        BY <1>1, <1>2, <2>1 DEF Typed, WorldTyped
    <2>3. ledger' \in LedgerRecord  BY <1>2, NoLedgerIs
    <2> QED  BY <1>1, <1>2, <2>2, <2>3 DEF Typed
<1>4. ~Existing'
    BY <1>2 DEF Existing
<1>5. Kept' /\ Rows' /\ Prefix'
    <2>1. ~ledger'.init  BY <1>2, NoLedgerIs
    <2>2. Kept'  BY <1>2, <1>4, <2>1 DEF Kept
    <2>3. Rows'  BY <1>4, <2>1 DEF Rows
    <2>4. Prefix'
        <3>1. rev' # None  BY <1>1, <1>2, NoneIs DEF Typed, WorldTyped
        <3> QED  BY <1>2, <3>1, NoLedgerIs DEF Prefix
    <2> QED  BY <2>2, <2>3, <2>4
<1> QED  BY <1>2, <1>3, <1>5, NobodyStep

\* The source is left or suspended: nobody is registered.
LEMMA LeaveStep ==
    ASSUME PortraitInv, Switch \/ Suspend
    PROVE  PortraitInv'
<1>1. Typed /\ Kept /\ Rows /\ Prefix  BY DEF PortraitInv
<1>2. /\ current' = 0 /\ UNCHANGED <<history, rev, saved, ledger, jobs, classifier, erased, overlooked>>
      /\ budget' \in Nat \ {0} /\ suspended' \in BOOLEAN
    BY <1>1, PortraitAssumption DEF Switch, Suspend, source, Typed, WorldTyped
<1>3. /\ inventory' \in InventoryRecord
      /\ \A m \in inventory'.pieces.seen : m <= inventory'.pieces.hw
      /\ inventory'.reader # None => \A m \in inventory'.reader.seen : m <= inventory'.reader.hw
    <2>1. CASE Switch
        BY <1>1, <2>1 DEF Switch, Typed, WorldTyped
    <2>2. CASE Suspend
        BY <1>1, <2>2, NoPiecesKept DEF Suspend
    <2> QED  BY <2>1, <2>2
<1>4. Typed'
    BY <1>1, <1>2, <1>3 DEF Typed, WorldTyped
<1>5. Kept' /\ Rows' /\ Prefix'
    BY <1>1, <1>2 DEF Kept, Rows, Existing, RowRight, LedgerRight, Within, Replayed, Begins, AnchorRight,
                      Rest, PartRight, Prefix, Read
<1> QED  BY <1>2, <1>4, <1>5, NobodyStep

\* The bridge restarts, perhaps with another classifier.
LEMMA RestartStep ==
    ASSUME PortraitInv, Restart
    PROVE  PortraitInv'
<1>1. Typed /\ Kept /\ Rows /\ Prefix  BY DEF PortraitInv
<1>2. /\ current' = 0 /\ rev' = rev + 1
      /\ UNCHANGED <<history, saved, suspended, budget, erased, overlooked>>
      /\ jobs' = [j \in Jobs |-> IF At(j, "none") THEN NoJob ELSE [state |-> "done"]]
      /\ inventory' = [inventory EXCEPT !.reader = None, !.pieces = NoPieces]
    BY DEF Restart
<1>3. PICK v \in {classifier, classifier + 1} :
        classifier' = v /\ ledger' = IF v = classifier THEN ledger ELSE NoLedger
    BY DEF Restart
<1>4. rev \in Nat /\ classifier \in Nat
    BY <1>1 DEF Typed, WorldTyped
<1>5. Typed'
    <2>1. [state |-> "done"] \in JobRecord /\ NoJob \in JobRecord
        BY DEF JobRecord, OverRecord, NoJob
    <2>2. jobs' \in [Jobs -> JobRecord]
        BY <1>2, <2>1
    <2>3. ledger' \in LedgerRecord
        BY <1>1, <1>3, NoLedgerIs DEF Typed
    <2>4. WorldTyped'
        BY <1>1, <1>2, <1>3, <1>4, NoPiecesKept DEF Typed, WorldTyped
    <2> QED  BY <1>1, <1>2, <2>2, <2>3, <2>4 DEF Typed
<1>6. CASE v = classifier
    <2>1. UNCHANGED <<ledger, classifier>>  BY <1>3, <1>6
    <2>2. Kept' /\ Rows'
        BY <1>1, <1>2, <2>1 DEF Kept, Rows, Existing, RowRight, LedgerRight, Within, Replayed, Begins,
                                AnchorRight, Rest, PartRight
    <2>3. Prefix'
        <3>1. ledger.revision \in Nat \cup {None}  BY <1>1 DEF Typed, LedgerRecord
        <3>2. ledger.revision # None => ledger.revision <= rev'
            BY <1>1, <1>2, <1>4, <3>1 DEF Prefix
        <3>3. ledger.revision # rev'
            BY <1>1, <1>2, <1>4, <3>1, NoneIs DEF Prefix
        <3> QED  BY <1>1, <1>2, <2>1, <3>2, <3>3 DEF Prefix, Read
    <2> QED  BY <1>2, <1>5, <2>2, <2>3, NobodyStep
<1>7. CASE v # classifier
    <2>1. ledger' = NoLedger  BY <1>3, <1>7
    <2>2. Kept'
        BY <1>1, <1>2, <2>1, NoLedgerIs DEF Kept, Existing
    <2>3. Rows'
        BY <1>1, <1>2, <2>1, NoLedgerIs DEF Rows, Existing, RowRight
    <2>4. Prefix'
        <3>1. rev' # None  BY <1>2, <1>4, NoneIs
        <3> QED  BY <2>1, <3>1, NoLedgerIs DEF Prefix
    <2> QED  BY <1>2, <1>5, <2>2, <2>3, <2>4, NobodyStep
<1> QED  BY <1>6, <1>7

-----------------------------------------------------------------------------
(* Reading the history *)

\* The types of a saved row.
LEMMA RowIs ==
    ASSUME Typed, Existing
    PROVE  /\ saved \in RowRecord
           /\ saved.hw \in Positions /\ saved.after \in Positions /\ saved.fp \subseteq Messages
           /\ saved.plan \in Seq(Nat) /\ saved.batch \in Nat /\ saved.complete \in BOOLEAN
           /\ saved.reconcile \in BOOLEAN /\ saved.anchor \in AnchorRecord /\ saved.merged \in Seq(Messages)
           /\ saved.anchor.after \in Positions /\ saved.anchor.skip \in {0, 1}
           /\ saved.anchor.tail \subseteq Messages /\ saved.pending \in Parts \cup {None}
BY DEF Typed, Existing, RowRecord, AnchorRecord

\* The types of the ledger.
LEMMA LedgerIs ==
    ASSUME Typed
    PROVE  /\ ledger.init \in BOOLEAN /\ ledger.done \subseteq Messages /\ ledger.hw \in Positions
           /\ ledger.part \in Parts \cup {None} /\ ledger.revision \in Nat \cup {None}
           /\ ledger.prefix \in (SUBSET Messages) \cup {None}
BY DEF Typed, LedgerRecord

\* The prefix of a finished portrait has not changed: it has been read.
LEMMA PrefixRead ==
    ASSUME Typed, Prefix, NEW b, Finished(b), ~PrefixChanged(b)
    PROVE  Upto(history, ledger.hw) \subseteq Read
<1>1. Upto(history, ledger.hw) = ledger.prefix
    BY DEF PrefixChanged, Prefix
<1>2. ledger.prefix # None
    <2>1. Upto(history, ledger.hw) \in SUBSET Messages
        BY DEF Typed, WorldTyped, Upto
    <2> QED  BY <1>1, <2>1, NoneIs
<1> QED  BY <1>1, <1>2 DEF Prefix

\* Beyond that prefix there is only what is recorded or counted as overlooked.
LEMMA UncheckedIs ==
    ASSUME Typed, Prefix, NEW b, Finished(b), ~PrefixChanged(b), NEW h \in Positions,
           Unchecked(h) \subseteq overlooked'
    PROVE  Upto(history, h) \subseteq Read \cup overlooked'
<1>1. ASSUME NEW m \in Upto(history, h), m \notin Read  PROVE m \in overlooked'
    <2>1. m \in history /\ m <= h /\ m \in Nat /\ ledger.hw \in Nat
        BY LedgerIs, Numbers DEF Typed, WorldTyped, Upto
    <2>2. ~(m <= ledger.hw)
        BY <1>1, <2>1, PrefixRead DEF Upto
    <2>3. m > ledger.hw  BY <2>1, <2>2
    <2> QED  BY <1>1, <2>1, <2>3 DEF Unchecked, Upto, Read
<1> QED  BY <1>1

\* A portrait goes on exactly if it has a ledger.
LEMMA RebuildsIs ==
    ASSUME Typed, Kept
    PROVE  /\ Rebuilds \in BOOLEAN
           /\ HasRow(Rebuilds) <=> Existing /\ ledger.init
BY DEF Kept, Rebuilds, HasRow, Existing

\* A job decides where its scan starts.
LEMMA WeighStep ==
    ASSUME PortraitInv, NEW j \in Jobs, Weigh(j)
    PROVE  PortraitInv'
<1>1. Typed /\ JobRight(jobs[j]) /\ Live(j) /\ Kept /\ Rows /\ Prefix
    BY LiveIsRight DEF Weigh, PortraitInv
<1>2. jobs[j] \in LookedRecord /\ Running(jobs[j]) /\ jobs[j].state = "looked"
    BY <1>1, JobIs DEF Weigh, At, Running
<1> DEFINE b == jobs[j].rebuild
           top == IF Unfinished(b) THEN saved.hw ELSE jobs[j].hw
<1>3. b = Rebuilds /\ jobs[j].born = erased /\ jobs[j].hw \in Positions /\ erased \in Nat
    BY <1>1, <1>2 DEF JobRight, Born, LookedRecord, Typed, WorldTyped
<1>4. /\ overlooked' = overlooked \cup (IF Unfinished(b) THEN Upto(history, From(b)) \ ledger.done
                                       ELSE IF Finished(b) THEN Unchecked(From(b)) ELSE {})
      /\ Finished(b) => (jobs[j].hw > saved.hw \/ (jobs[j].hw = saved.hw /\ PrefixChanged(b)))
      /\ UNCHANGED <<history, rev, saved, ledger, current, inventory, suspended, budget, classifier, erased>>
    BY DEF Weigh, source, settings
<1>5. OnlyJobs
    BY <1>1, <1>4 DEF OnlyJobs, Typed, WorldTyped, Upto, Unchecked
<1>6. HasRow(b) => Existing
    BY DEF HasRow
<1>7. /\ After(b) \in Positions /\ From(b) \in Positions /\ top \in Positions
      /\ Reconciles(b) \in BOOLEAN /\ b \in BOOLEAN /\ rev \in Nat
    <2>1. 0 \in Positions  BY DEF Positions
    <2>2. Unfinished(b) \/ HasRow(b) => Existing  BY DEF Unfinished, HasRow
    <2>3. Existing => saved.hw \in Positions /\ saved.after \in Positions /\ saved.anchor.after \in Positions
                      /\ saved.reconcile \in BOOLEAN
        BY <1>1, RowIs
    <2>4. After(b) \in Positions  BY <2>1, <2>2, <2>3 DEF After
    <2>5. From(b) \in Positions  BY <2>1, <2>2, <2>3, <2>4 DEF From
    <2>6. top \in Positions  BY <1>3, <2>2, <2>3
    <2>7. Reconciles(b) \in BOOLEAN
        BY <2>2, <2>3 DEF Reconciles, PrefixChanged, Finished
    <2>8. b \in BOOLEAN /\ rev \in Nat  BY <1>1, <1>2 DEF LookedRecord, Typed, WorldTyped
    <2> QED  BY <2>4, <2>5, <2>6, <2>7, <2>8
<1>8. PICK J \in ScanRecord :
        J = [state |-> "scanning", born |-> jobs[j].born, rebuild |-> b, hw |-> jobs[j].hw,
             rev |-> rev, top |-> top, reconcile |-> Reconciles(b),
             after |-> After(b), from |-> From(b), cursor |-> From(b), seen |-> {}, taken |-> FALSE]
    BY <1>3, <1>7 DEF ScanRecord
<1>9. jobs' = [jobs EXCEPT ![j] = J]
    BY <1>8, <1>1 DEF Weigh, Typed
<1>10. /\ J.state = "scanning" /\ J.born = erased /\ J.rebuild = Rebuilds /\ J.hw = jobs[j].hw
       /\ J.rev = rev /\ J.top = top /\ J.reconcile = Reconciles(b) /\ J.after = After(b) /\ J.from = From(b)
       /\ J.cursor = From(b) /\ J.seen = {} /\ J.taken = FALSE
    BY <1>3, <1>8
<1>11. ScanRight(J)'
    <2>1. J.rebuild = Rebuilds' /\ J.after = After(J.rebuild)'
        BY <1>3, <1>4, <1>10 DEF Rebuilds, Existing, After, Unfinished, HasRow
    <2>2. Current(J)'
        BY <1>1, <1>4, <1>7, <1>10 DEF Current, Prefix
    <2>3. (IF Unfinished(b) THEN J.top = saved.hw /\ J.reconcile = saved.reconcile ELSE J.top = J.hw)
        <3>1. Unfinished(b) => (Reconciles(b) <=> saved.reconcile)
            BY DEF Unfinished, Reconciles, PrefixChanged, Finished
        <3>2. Unfinished(b) => saved.reconcile \in BOOLEAN
            BY <1>1, <1>6, RowIs DEF Unfinished
        <3> QED  BY <1>7, <1>10, <3>1, <3>2
    <2>4. Unfinished(b) /\ saved.batch > 0 => J.from = saved.anchor.after
        <3>1. Unfinished(b) => ~PrefixChanged(b)
            BY DEF Unfinished, PrefixChanged, Finished
        <3> QED  BY <1>10, <3>1 DEF From
    <2>5. Finished(b) => J.hw >= saved.hw /\ (J.hw = saved.hw => J.reconcile)
        <3> SUFFICES ASSUME Finished(b) PROVE J.hw >= saved.hw /\ (J.hw = saved.hw => J.reconcile)
            OBVIOUS
        <3>1. saved.hw \in Nat /\ jobs[j].hw \in Nat
            BY <1>1, <1>3, <1>6, RowIs, Numbers DEF Finished
        <3>2. PrefixChanged(b) => Reconciles(b)  BY DEF Reconciles
        <3> QED  BY <1>4, <1>10, <3>1, <3>2
    <2>6. ~HasRow(b) => J.from = 0 /\ ~J.reconcile
        BY <1>10 DEF HasRow, From, After, PrefixChanged, Finished, Unfinished, Reconciles
    <2>7. ~J.reconcile => J.from >= J.after
        <3> SUFFICES ASSUME ~Reconciles(b) PROVE From(b) >= After(b)
            BY <1>10
        <3>1. ~PrefixChanged(b)  BY DEF Reconciles
        <3>2. From(b) \in Nat /\ After(b) \in Nat  BY <1>7, Numbers
        <3>3. CASE Unfinished(b) /\ saved.batch > 0
            <4>1. ~saved.complete /\ ledger.init /\ ~saved.reconcile /\ Existing
                BY <1>1, <1>3, <3>3, RebuildsIs DEF Unfinished, Reconciles
            <4>2. saved.batch # 0  BY <3>3
            <4>3. AnchorRight
                BY <1>1, <4>1, <4>2 DEF Rows, LedgerRight
            <4> QED  BY <3>1, <3>3, <4>1, <4>3 DEF From, After, AnchorRight
        <3>4. CASE ~(Unfinished(b) /\ saved.batch > 0)
            <4>1. From(b) = After(b)  BY <3>1, <3>4 DEF From
            <4> QED  BY <3>2, <4>1
        <3> QED  BY <3>3, <3>4
    <2>8. Upto(history, From(b)) \subseteq ledger.done \cup overlooked'
        <3>1. CASE PrefixChanged(b)
            <4>1. From(b) = 0  BY <3>1 DEF From
            <4>2. \A m \in history : ~(m <= 0)
                BY <1>1, Numbers DEF Typed, WorldTyped
            <4> QED  BY <4>1, <4>2 DEF Upto
        <3>2. CASE Unfinished(b)
            BY <1>4, <3>2
        <3>3. CASE Finished(b) /\ ~PrefixChanged(b)
            <4>1. ~Unfinished(b)  BY <3>3 DEF Finished, Unfinished
            <4>2. Upto(history, From(b)) \subseteq Read \cup overlooked'
                BY <1>1, <1>4, <1>7, <3>3, <4>1, UncheckedIs
            <4> QED  BY <1>5, <4>2 DEF Read, OnlyJobs
        <3>4. CASE ~HasRow(b)
            <4>1. From(b) = 0  BY <3>4 DEF HasRow, From, After, PrefixChanged, Finished, Unfinished
            <4>2. \A m \in history : ~(m <= 0)
                BY <1>1, Numbers DEF Typed, WorldTyped
            <4> QED  BY <4>1, <4>2 DEF Upto
        <3> QED  BY <3>1, <3>2, <3>3, <3>4 DEF Unfinished, Finished
    <2>9. UNCHANGED <<history, rev, ledger, saved>> /\ Unfinished(J.rebuild)' = Unfinished(b)
          /\ Finished(J.rebuild)' = Finished(b) /\ HasRow(J.rebuild)' = HasRow(b) /\ J.rebuild = b
        BY <1>3, <1>4, <1>10 DEF Unfinished, Finished, HasRow, Existing
    <2> QED
        BY <1>10, <2>1, <2>2, <2>3, <2>4, <2>5, <2>6, <2>7, <2>8, <2>9 DEF ScanRight, Covers, Read
<1>12. JobRight(J)'
    BY <1>4, <1>10, <1>11 DEF JobRight, Born
<1>13. J \in JobRecord  BY DEF JobRecord
<1> QED  BY <1>1, <1>5, <1>9, <1>12, <1>13, JobStep

\* A scan takes over the pieces of an inventory.
LEMMA TakePiecesStep ==
    ASSUME PortraitInv, NEW j \in Jobs, TakePieces(j)
    PROVE  PortraitInv'
<1>1. Typed /\ JobRight(jobs[j]) /\ Live(j)
    BY LiveIsRight DEF TakePieces
<1> DEFINE job == jobs[j]
<1>2. job \in ScanRecord /\ Running(job) /\ job.state = "scanning" /\ ScanRight(job) /\ job.born = erased
    BY <1>1, JobIs DEF TakePieces, At, Running, JobRight, Born
<1>3. /\ overlooked' = overlooked \cup (Upto(history, job.top) \ inventory.pieces.seen)
      /\ UNCHANGED <<history, rev, saved, ledger, current, inventory, suspended, budget, classifier, erased>>
    BY DEF TakePieces, source, settings
<1>4. OnlyJobs
    BY <1>1, <1>3 DEF OnlyJobs, Typed, WorldTyped, Upto
<1>5. /\ inventory.pieces.seen \subseteq Messages /\ inventory.pieces.hw = job.top
      /\ \A m \in inventory.pieces.seen : m <= job.top
      /\ job.from = 0 /\ job.after = 0
    BY <1>1 DEF TakePieces, Matches, Typed, WorldTyped, InventoryRecord, PiecesRecord
<1>6. PICK J : J = [job EXCEPT !.state = "scanned", !.taken = TRUE, !.seen = inventory.pieces.seen]
    OBVIOUS
<1>7. jobs' = [jobs EXCEPT ![j] = J]
    BY <1>1, <1>6 DEF TakePieces, Typed
<1>8. /\ J \in ScanRecord /\ J.state = "scanned" /\ J.born = job.born /\ J.rebuild = job.rebuild
      /\ J.hw = job.hw /\ J.rev = job.rev /\ J.top = job.top /\ J.reconcile = job.reconcile
      /\ J.after = job.after /\ J.from = job.from /\ J.seen = inventory.pieces.seen /\ J.taken
    <2>1. job \in ScanRecord /\ inventory.pieces.seen \in SUBSET Messages  BY <1>2, <1>5
    <2> HIDE DEF job
    <2> QED  BY ONLY <2>1, <1>6 DEF ScanRecord
<1>9. ScanRight(J)'
    <2>1. Upto(history, J.top) \subseteq J.seen \cup overlooked'
        BY <1>3, <1>8
    <2>2. UNCHANGED <<history, rev, saved, ledger, classifier>> /\ overlooked \subseteq overlooked'
        BY <1>3
    <2> QED
        BY <1>2, <1>5, <1>8, <2>1, <2>2
        DEF ScanRight, Rebuilds, Existing, Current, After, Unfinished, Finished, HasRow, Covers, Read
<1>10. JobRight(J)'
    BY <1>2, <1>3, <1>8, <1>9 DEF JobRight, Born
<1>11. J \in JobRecord  BY <1>8 DEF JobRecord
<1> QED  BY <1>1, <1>4, <1>7, <1>10, <1>11, JobStep

\* A scan reads the next page.
LEMMA ReadPageStep ==
    ASSUME PortraitInv, NEW j \in Jobs, ReadPage(j)
    PROVE  PortraitInv'
<1>1. Typed /\ JobRight(jobs[j]) /\ Live(j)
    BY LiveIsRight DEF ReadPage
<1> DEFINE job == jobs[j]
<1>2. job \in ScanRecord /\ Running(job) /\ job.state = "scanning" /\ ScanRight(job) /\ job.born = erased
    BY <1>1, JobIs DEF ReadPage, At, Running, JobRight, Born
<1>3. /\ UNCHANGED <<history, rev, saved, ledger, current, inventory, suspended, budget, classifier, erased,
                     overlooked>>
    BY DEF ReadPage, source, settings
<1>4. OnlyJobs
    BY <1>1, <1>3 DEF OnlyJobs, Typed, WorldTyped
<1>5. PICK page : page = Page(job.cursor, job.top)
    OBVIOUS
<1>6. /\ page \subseteq history /\ history \subseteq Messages /\ (\A m \in page : m <= job.top)
      /\ page = {} => \A m \in history : ~(job.cursor < m /\ m <= job.top)
      /\ page # {} => /\ Max(page) \in page
                      /\ \A m \in history : job.cursor < m /\ m <= Max(page) => m \in page
    BY <1>1, <1>2, <1>5, PageIs DEF ScanRecord, Typed, WorldTyped
<1>7. /\ job.cursor \in Nat /\ job.top \in Nat /\ \A m \in history : m \in Nat
    BY <1>2, <1>6, Numbers DEF ScanRecord
<1>8. job.rev = rev => Upto(history, job.cursor) \subseteq Upto(history, job.from) \cup job.seen \cup overlooked
    BY <1>2 DEF ScanRight, Covers
<1>9. CASE page = {}
    <2>1. PICK J : J = [job EXCEPT !.state = "scanned"]
        OBVIOUS
    <2>2. jobs' = [jobs EXCEPT ![j] = J]
        BY <1>1, <1>5, <1>9, <2>1 DEF ReadPage, Typed
    <2>3. /\ J \in ScanRecord /\ J.state = "scanned" /\ J.born = job.born /\ J.rebuild = job.rebuild
          /\ J.hw = job.hw /\ J.rev = job.rev /\ J.top = job.top /\ J.reconcile = job.reconcile
          /\ J.after = job.after /\ J.from = job.from /\ J.seen = job.seen /\ J.taken = job.taken
        <3>1. job \in ScanRecord  BY <1>2
        <3> HIDE DEF job
        <3> QED  BY ONLY <2>1, <3>1 DEF ScanRecord
    <2>4. \A m \in history : m <= job.top => m <= job.cursor
        BY <1>6, <1>7, <1>9
    <2>5. Upto(history, job.top) \subseteq Upto(history, job.cursor)
        BY <2>4 DEF Upto
    <2>6. ScanRight(J)'
        <3>1. UNCHANGED <<history, rev, saved, ledger, classifier, overlooked>>
            BY <1>3
        <3>2. Covers(J, J.top, Upto(history, J.from) \cup J.seen \cup overlooked)
            BY <1>8, <2>3, <2>5 DEF Covers
        <3> QED
            BY <1>2, <2>3, <3>1, <3>2
            DEF ScanRight, Rebuilds, Existing, Current, After, Unfinished, Finished, HasRow, Covers, Read
    <2>7. JobRight(J)'
        BY <1>2, <1>3, <2>3, <2>6 DEF JobRight, Born
    <2>8. J \in JobRecord  BY <2>3 DEF JobRecord
    <2> QED  BY <1>1, <1>4, <2>2, <2>7, <2>8, JobStep
<1>10. CASE page # {}
    <2>1. PICK J : J = [job EXCEPT !.cursor = Max(page), !.seen = job.seen \cup page]
        OBVIOUS
    <2>2. jobs' = [jobs EXCEPT ![j] = J]
        BY <1>1, <1>5, <1>10, <2>1 DEF ReadPage, Typed
    <2>3. /\ J \in ScanRecord /\ J.state = "scanning" /\ J.born = job.born /\ J.rebuild = job.rebuild
          /\ J.hw = job.hw /\ J.rev = job.rev /\ J.top = job.top /\ J.reconcile = job.reconcile
          /\ J.after = job.after /\ J.from = job.from /\ J.taken = job.taken
          /\ J.cursor = Max(page) /\ J.seen = job.seen \cup page
        <3>1. job \in ScanRecord /\ page \in SUBSET Messages /\ Max(page) \in Positions
            BY <1>2, <1>6, <1>10 DEF Positions
        <3>2. job.state = "scanning"  BY <1>2
        <3>3. PICK upto \in Positions : upto = Max(page)  BY <3>1
        <3>4. J = [job EXCEPT !.cursor = upto, !.seen = job.seen \cup page]  BY <2>1, <3>3
        <3> HIDE DEF job
        <3>5. /\ J \in ScanRecord /\ J.state = job.state /\ J.born = job.born /\ J.rebuild = job.rebuild
              /\ J.hw = job.hw /\ J.rev = job.rev /\ J.top = job.top /\ J.reconcile = job.reconcile
              /\ J.after = job.after /\ J.from = job.from /\ J.taken = job.taken
              /\ J.cursor = upto /\ J.seen = job.seen \cup page
            BY ONLY <3>1, <3>4 DEF ScanRecord
        <3> QED  BY <3>2, <3>3, <3>5
    <2>4. \A m \in history : m <= Max(page) => m <= job.cursor \/ m \in page
        <3> TAKE m \in history
        <3>1. m \in Nat /\ job.cursor \in Nat  BY <1>7
        <3>2. m <= job.cursor \/ job.cursor < m  BY <3>1
        <3> QED  BY <1>6, <1>10, <3>2
    <2>5. Upto(history, Max(page)) \subseteq Upto(history, job.cursor) \cup page
        BY <2>4 DEF Upto
    <2>6. ScanRight(J)'
        <3>1. UNCHANGED <<history, rev, saved, ledger, classifier, overlooked>>
            BY <1>3
        <3>2. Covers(J, J.cursor, Upto(history, J.from) \cup J.seen \cup overlooked)
            BY <1>8, <2>3, <2>5 DEF Covers
        <3>3. \A m \in J.seen : m <= J.top
            BY <1>2, <1>6, <2>3 DEF ScanRight
        <3> QED
            BY <1>2, <2>3, <3>1, <3>2, <3>3
            DEF ScanRight, Rebuilds, Existing, Current, After, Unfinished, Finished, HasRow, Covers, Read
    <2>7. JobRight(J)'
        BY <1>2, <1>3, <2>3, <2>6 DEF JobRight, Born
    <2>8. J \in JobRecord  BY <2>3 DEF JobRecord
    <2> QED  BY <1>1, <1>4, <2>2, <2>7, <2>8, JobStep
<1> QED  BY <1>9, <1>10

\* The fields of a stamped ledger.
LEMMA StampedIs ==
    ASSUME Typed, NEW l \in LedgerRecord, NEW job, job.hw \in Positions
    PROVE  /\ Stamped(l, job) \in LedgerRecord
           /\ Stamped(l, job).init = l.init /\ Stamped(l, job).done = l.done
           /\ Stamped(l, job).part = l.part /\ Stamped(l, job).hash = l.hash
           /\ Stamped(l, job).hw = job.hw
           /\ Stamped(l, job).revision = (IF rev = job.rev THEN rev ELSE l.revision)
           /\ Stamped(l, job).prefix = (IF rev = job.rev THEN Upto(history, job.hw) ELSE l.prefix)
<1>1. rev \in Nat /\ Upto(history, job.hw) \in SUBSET Messages
    BY DEF Typed, WorldTyped, Upto
<1> QED  BY <1>1 DEF Stamped, LedgerRecord

\* A stamp of what has been read.
StampRight(l, job) ==
    /\ rev = job.rev => Upto(history, job.hw) \subseteq l.done \cup overlooked'
    /\ rev # job.rev /\ l.revision # None => l.revision < rev

\* The last part of every pass: the ledger is stamped and the job is over.
LEMMA StampStep ==
    ASSUME PortraitInv, NEW j \in Jobs, Live(j), NEW how \in {"done", "error"}, Ended(j, how),
           NEW job, job.hw \in Positions, ledger' = Stamped(ledger, job), StampRight(ledger, job),
           UNCHANGED <<history, rev, saved, current, inventory, suspended, budget, classifier, erased>>,
           overlooked \subseteq overlooked', overlooked' \subseteq Messages,
           ledger.init
    PROVE  PortraitInv'
<1>1. Typed /\ Kept /\ Rows /\ Prefix  BY DEF PortraitInv
<1>2. PICK J \in OverRecord : jobs' = [jobs EXCEPT ![j] = J]
    BY EndedIs DEF Ended
<1>3. /\ ledger' \in LedgerRecord
      /\ ledger'.init = ledger.init /\ ledger'.done = ledger.done /\ ledger'.part = ledger.part
      /\ ledger'.hash = ledger.hash /\ ledger'.hw = job.hw
      /\ ledger'.revision = (IF rev = job.rev THEN rev ELSE ledger.revision)
      /\ ledger'.prefix = (IF rev = job.rev THEN Upto(history, job.hw) ELSE ledger.prefix)
    BY <1>1, StampedIs DEF Typed
<1>4. WorldTyped' /\ saved' \in RowRecord \cup {NoRow}
    BY <1>1 DEF Typed, WorldTyped
<1>5. Kept'
    BY <1>1, <1>3 DEF Kept, Existing
<1>6. Rows'
    BY <1>1, <1>3 DEF Rows, Existing, RowRight, LedgerRight, Within, Replayed, Begins, AnchorRight, Rest,
                      PartRight
<1>7. Prefix'
    <2>1. rev \in Nat /\ ledger.revision \in Nat \cup {None}
        BY <1>1, LedgerIs DEF Typed, WorldTyped
    <2>2. CASE rev = job.rev
        BY <1>3, <2>1, <2>2 DEF Prefix, StampRight, Read
    <2>3. CASE rev # job.rev
        <3>1. ledger.revision # rev
            BY <2>1, <2>3, NoneIs DEF StampRight
        <3> QED  BY <1>1, <1>3, <2>3, <3>1 DEF Prefix, Read
    <2> QED  BY <2>2, <2>3
<1> QED  BY <1>1, <1>2, <1>3, <1>4, <1>5, <1>6, <1>7, OverIsRight, LiveStep

\* A job finds nothing new.
LEMMA UpToDateStep ==
    ASSUME PortraitInv, NEW j \in Jobs, UpToDate(j)
    PROVE  PortraitInv'
<1>1. Typed /\ JobRight(jobs[j]) /\ Live(j) /\ Kept /\ Prefix
    BY LiveIsRight DEF UpToDate, PortraitInv
<1> DEFINE b == jobs[j].rebuild
           job == [rev |-> rev, hw |-> jobs[j].hw]
<1>2. jobs[j] \in LookedRecord /\ b = Rebuilds
    BY <1>1, JobIs DEF UpToDate, At, JobRight
<1>3. Finished(b) /\ saved.hw = jobs[j].hw /\ ~PrefixChanged(b)
    BY DEF UpToDate
<1>4. ledger.init /\ jobs[j].hw \in Positions
    BY <1>1, <1>2, <1>3, RebuildsIs DEF Finished, LookedRecord
<1>5. Ended(j, "done") /\ ledger' = Stamped(ledger, job) /\ overlooked' = overlooked \cup Unchecked(saved.hw)
      /\ UNCHANGED <<history, rev, saved, current, inventory, suspended, budget, classifier, erased>>
    BY DEF UpToDate, source, settings
<1>6. Upto(history, jobs[j].hw) \subseteq Read \cup overlooked'
    BY <1>1, <1>3, <1>4, <1>5, UncheckedIs
<1>7. StampRight(ledger, job) /\ job.hw \in Positions
    BY <1>4, <1>5, <1>6 DEF StampRight, Read
<1>8. overlooked' \subseteq Messages
    BY <1>1, <1>5 DEF Typed, WorldTyped, Unchecked, Upto
<1> QED  BY <1>1, <1>4, <1>5, <1>7, <1>8, StampStep

-----------------------------------------------------------------------------
(* The next batch *)

\* What the job that asks for a batch asks for.
LEMMA AskingIs ==
    ASSUME PortraitInv, NEW j \in Jobs, Live(j), At(j, "asking")
    PROVE  /\ Typed /\ Kept /\ Rows /\ Prefix
           /\ jobs[j] \in ReadyRecord /\ ReadyRight(jobs[j]) /\ jobs[j].born = erased
           /\ Existing /\ ledger.init /\ ~saved.complete /\ RowRight /\ LedgerRight
<1>1. Typed /\ JobRight(jobs[j]) /\ Kept /\ Rows /\ Prefix
    BY LiveIsRight DEF PortraitInv
<1>2. jobs[j] \in ReadyRecord /\ jobs[j].state = "asking" /\ Running(jobs[j])
    BY <1>1, JobIs DEF At, Running
<1>3. ReadyRight(jobs[j]) /\ jobs[j].born = erased
    BY <1>1, <1>2 DEF JobRight, Born
<1>4. ledger.init /\ ~saved.complete
    BY <1>2, <1>3 DEF ReadyRight
<1>5. Existing  BY <1>1, <1>4 DEF Kept
<1> QED  BY <1>1, <1>2, <1>3, <1>4, <1>5 DEF Rows

\* The batch that is asked for is the run of pieces between two marks of the
\* plan.
LEMMA BatchIs ==
    ASSUME PortraitInv, NEW j \in Jobs, Live(j), At(j, "asking"),
           NEW a, a = Mark(jobs[j], saved.batch), NEW z, z = Mark(jobs[j], saved.batch + 1)
    PROVE  /\ saved.batch \in Nat /\ saved.batch < Len(saved.plan)
           /\ a \in Nat /\ z \in Nat /\ a < z /\ z <= Len(jobs[j].pieces)
           /\ Batch(j)[1] = jobs[j].pieces[a + 1] /\ Last(Batch(j)) = jobs[j].pieces[z]
           /\ \A p : p \in ToSet(Batch(j)) <=> \E i \in (a + 1)..z : p = jobs[j].pieces[i]
           /\ saved.batch + 1 = Len(saved.plan) => z = Len(jobs[j].pieces)
           /\ saved.batch + 1 < Len(saved.plan) => z < Len(jobs[j].pieces)
<1> DEFINE job == jobs[j]
           k == saved.batch
           n == Len(saved.plan)
<1>1. Typed /\ job \in ReadyRecord /\ ReadyRight(job) /\ Existing /\ ~saved.complete /\ RowRight
    BY AskingIs
<1>2. /\ saved.plan \in Seq(Nat) /\ k \in Nat /\ n \in Nat /\ job.pieces \in Seq(Parts) /\ job.offset \in Nat
      /\ Len(job.pieces) \in Nat
    BY <1>1, RowIs DEF ReadyRecord
<1>3. k < n
    BY <1>1, <1>2 DEF RowRight
<1>4. /\ Mark(job, n) = Len(job.pieces) /\ a \in Nat
      /\ \A x, y \in k..n : x < y => Mark(job, x) < Mark(job, y)
    BY <1>1 DEF ReadyRight, PlanRight
<1>5. k + 1 # 0 /\ k + 1 \in 1..n /\ k \in k..n /\ k + 1 \in k..n /\ n \in k..n
    BY <1>2, <1>3
<1>6. z = saved.plan[k + 1] - job.offset /\ saved.plan[k + 1] \in Nat
    BY <1>2, <1>5 DEF Mark
<1>7. a < z
    BY <1>2, <1>4, <1>5
<1>8. k + 1 < n => z < Len(job.pieces)
    BY <1>4, <1>5
<1>9. k + 1 = n => z = Len(job.pieces)
    BY <1>4
<1>10. z \in Nat
    BY <1>2, <1>4, <1>6, <1>7
<1>11. Batch(j) = SubSeq(job.pieces, a + 1, z)
    <2>1. a = (IF k = 0 THEN 0 ELSE saved.plan[k]) - job.offset
        BY DEF Mark
    <2> QED  BY <1>6, <2>1 DEF Batch
<1>12. z <= Len(job.pieces)
    BY <1>2, <1>3, <1>8, <1>9, <1>10
<1>13. PICK s : s = job.pieces
    OBVIOUS
<1>14. PICK b : b = Batch(j)
    OBVIOUS
<1>15. b[1] = s[a + 1] /\ Last(b) = s[z] /\ \A p : p \in ToSet(b) <=> \E i \in (a + 1)..z : p = s[i]
    <2>1. s \in Seq(Parts) /\ b = SubSeq(s, a + 1, z) /\ z <= Len(s)
        BY <1>2, <1>11, <1>12, <1>13, <1>14
    <2>2. b \in Seq(Parts) /\ Len(b) = z - a
        BY <1>4, <1>7, <1>10, <2>1, SubSeqProperties
    <2>3. \A i \in 1..(z - a) : b[i] = s[a + i]
        BY <1>4, <1>7, <1>10, <2>1, SubSeqProperties
    <2>4. b[1] = s[a + 1]
        BY <1>4, <1>7, <1>10, <2>3
    <2>5. Last(b) = s[z]
        <3>1. z - a \in 1..(z - a) /\ a + (z - a) = z
            BY <1>4, <1>7, <1>10
        <3>2. b[z - a] = s[z]
            BY <2>3, <3>1
        <3> QED  BY <2>2, <3>2 DEF Last
    <2>6. ToSet(b) = {b[i] : i \in 1..(z - a)}
        <3>1. DOMAIN b = 1..(z - a)  BY <1>4, <1>7, <1>10, <2>2
        <3> QED  BY <3>1 DEF ToSet
    <2>7. ASSUME NEW i \in (a + 1)..z  PROVE s[i] \in ToSet(b)
        <3>1. i - a \in 1..(z - a) /\ b[i - a] = s[i]
            BY <1>4, <1>10, <2>3
        <3> QED  BY <2>6, <3>1
    <2>8. ASSUME NEW p \in ToSet(b)  PROVE \E i \in (a + 1)..z : p = s[i]
        <3>1. PICK i \in 1..(z - a) : p = b[i]  BY <2>6
        <3>2. a + i \in (a + 1)..z /\ b[i] = s[a + i]
            BY <1>4, <1>10, <2>3
        <3> QED  BY <3>1, <3>2
    <2> QED  BY <2>4, <2>5, <2>7, <2>8
<1> QED  BY <1>2, <1>3, <1>4, <1>7, <1>8, <1>9, <1>10, <1>12, <1>13, <1>14, <1>15

\* A batch of a job that continues where the ledger stands is fit, and no part of it is recorded.
LEMMA FitIs ==
    ASSUME PortraitInv, NEW j \in Jobs, Live(j), At(j, "asking"), ~jobs[j].rewound
    PROVE  ~Unfit(Batch(j)) /\ \A p \in ToSet(Batch(j)) : p[1] \notin ledger.done
<1> DEFINE job == jobs[j]
           b == Batch(j)
<1>1. PICK a : a = Mark(job, saved.batch)  OBVIOUS
<1>2. PICK z : z = Mark(job, saved.batch + 1)  OBVIOUS
<1>3. /\ Typed /\ Kept /\ job \in ReadyRecord /\ ReadyRight(job) /\ Existing /\ ledger.init
      /\ ~saved.complete /\ LedgerRight
    BY AskingIs
<1>4. a \in Nat /\ z \in Nat /\ a < z /\ z <= Len(job.pieces)
    BY <1>1, <1>2, BatchIs
<1>5. job.pieces \in Seq(Parts)  BY <1>3 DEF ReadyRecord
<1>6. b[1] = job.pieces[a + 1] /\ \A p \in ToSet(b) : \E i \in (a + 1)..z : p = job.pieces[i]
    BY <1>1, <1>2, BatchIs
<1>7. DueRight(job)  BY <1>3 DEF ReadyRight
<1>8. IF ledger.part = None THEN b[1][2] = 0 ELSE b[1] = ledger.part
    BY <1>1, <1>3, <1>6, <1>7 DEF DueRight, Continues
<1>9. \A p \in ToSet(b) : p[1] \notin ledger.done
    <2>1. ASSUME NEW i \in (a + 1)..z  PROVE job.pieces[i][1] \notin ledger.done
        <3>1. i \in 1..Len(job.pieces) /\ i > a
            BY <1>4, <1>5
        <3>2. job.pieces[i][1] \in Due(job)
            BY <1>1, <3>1 DEF Due, Ahead
        <3> QED  BY <1>7, <3>2 DEF DueRight
    <2> QED  BY <1>6, <2>1
<1>10. saved.classifier = classifier  BY <1>3 DEF Kept
<1>11. ~Unfit(b)
    BY <1>3, <1>8, <1>9, <1>10 DEF Unfit, ValidStatistics, LedgerRight
<1> QED  BY <1>9, <1>11

\* Only a job that was rewound is refused by the ledger.
LEMMA StateInvalidStep ==
    ASSUME PortraitInv, NEW j \in Jobs, StateInvalid(j)
    PROVE  PortraitInv'
<1>1. Live(j) /\ At(j, "asking") /\ Unfit(Batch(j))
    BY DEF StateInvalid
<1>2. Typed /\ jobs[j] \in ReadyRecord  BY <1>1, AskingIs
<1>3. jobs[j].rewound = TRUE
    <2>1. jobs[j].rewound \in BOOLEAN  BY <1>2 DEF ReadyRecord
    <2> QED  BY <1>1, <2>1, FitIs
<1>4. PICK J \in OverRecord : J = [state |-> "error", rewound |-> TRUE]
    BY DEF OverRecord
<1>5. jobs' = [jobs EXCEPT ![j] = J]
    BY <1>3, <1>4 DEF StateInvalid
<1>6. OnlyJobs
    BY <1>2 DEF StateInvalid, OnlyJobs, source, settings, Typed, WorldTyped
<1> QED  BY <1>1, <1>5, <1>6, OverStep

\* A pass is over: the ledger is stamped.
LEMMA FinishStep ==
    ASSUME PortraitInv, NEW j \in Jobs, Finish(j)
    PROVE  PortraitInv'
<1> DEFINE job == jobs[j]
<1>1. Typed /\ JobRight(job) /\ Live(j) /\ Kept /\ Rows /\ Prefix
    BY LiveIsRight DEF Finish, PortraitInv
<1>2. job \in ReadyRecord /\ Running(job) /\ job.state = "ready"
    BY <1>1, JobIs DEF Finish, At, Running
<1>3. ReadyRight(job) /\ ledger.init /\ Existing /\ RowRight
    BY <1>1, <1>2 DEF JobRight, ReadyRight, Kept, Rows
<1>4. saved.batch = Len(saved.plan) /\ saved.complete
    BY <1>3 DEF Finish, RowRight
<1>5. DueRight(job)
    BY <1>3, <1>4 DEF ReadyRight, Rewound
<1>6. Due(job) = {}
    <2>1. Mark(job, saved.batch) = Len(job.pieces)
        BY <1>3, <1>4 DEF ReadyRight, PlanRight
    <2>2. Len(job.pieces) \in Nat
        BY <1>2 DEF ReadyRecord
    <2>3. Ahead(job) = {}
        BY <2>1, <2>2 DEF Ahead
    <2> QED  BY <2>3 DEF Due
<1>7. /\ Ended(j, "done") /\ ledger' = Stamped(ledger, job) /\ overlooked' = overlooked \cup Beyond(job)
      /\ UNCHANGED <<history, rev, saved, current, inventory, suspended, budget, classifier, erased>>
    BY DEF Finish, source, settings
<1>8. overlooked' \subseteq Messages
    BY <1>1, <1>7 DEF Typed, WorldTyped, Beyond, Upto
<1>9. StampRight(ledger, job)
    <2>1. ASSUME rev = job.rev, NEW m \in Upto(history, job.hw)  PROVE m \in ledger.done \cup overlooked'
        <3>1. m \in history /\ m \in Nat /\ saved.hw \in Nat
            BY <1>1, <1>3, RowIs, Numbers DEF Upto, Typed, WorldTyped
        <3>2. CASE m <= saved.hw
            <4>1. m \in Upto(history, saved.hw)  BY <3>1, <3>2 DEF Upto
            <4> QED  BY <1>5, <1>6, <1>7, <2>1, <4>1 DEF DueRight, Covers, Read
        <3>3. CASE m > saved.hw
            BY <1>7, <2>1, <3>3 DEF Beyond
        <3> QED  BY <3>1, <3>2, <3>3
    <2>2. rev # job.rev /\ ledger.revision # None => ledger.revision < rev
        <3>1. rev \in Nat /\ job.rev \in Nat /\ ledger.revision \in Nat \cup {None}
            BY <1>1, <1>2, LedgerIs DEF ReadyRecord, Typed, WorldTyped
        <3>2. Current(job)  BY <1>3 DEF ReadyRight
        <3> QED  BY <3>1, <3>2 DEF Current
    <2> QED  BY <2>1, <2>2 DEF StampRight
<1>10. job.hw \in Positions  BY <1>2 DEF ReadyRecord
<1> QED  BY <1>1, <1>3, <1>7, <1>8, <1>9, <1>10, StampStep

\* The messages a slice of the pieces ends, and those of the pieces behind a place.
Whole(s, a, z) == {s[i][1] : i \in {n \in (a + 1)..z : IsLast(s[n])}}
Later(s, z) == {s[i][1] : i \in {n \in 1..Len(s) : n > z}}

\* Where the pieces are cut, every message is either ended before or still to come, and what is
\* to come begins with the other half of a message that is not ended.
LEMMA CutIs ==
    ASSUME NEW s \in Seq(Parts), Neat(s), NEW a \in Nat, NEW z \in Nat, a < z, z <= Len(s)
    PROVE  /\ Later(s, a) \subseteq Whole(s, a, z) \cup Later(s, z)
           /\ \A c \in Whole(s, a, z), d \in Later(s, z) : c < d
           /\ Whole(s, a, z) \subseteq Later(s, a) /\ Later(s, z) \subseteq Later(s, a)
           /\ z = Len(s) => Later(s, z) = {} /\ IsLast(s[z])
           /\ IsLast(s[z]) => z = Len(s) \/ s[z + 1][2] = 0
           /\ ~IsLast(s[z]) => /\ z < Len(s) /\ s[z + 1] = <<s[z][1], 1>> /\ s[z][2] = 0
                               /\ s[z][1] \in Long /\ s[z][1] \in Later(s, z)
           /\ \A i \in 1..z : s[i][1] <= s[z][1]
           /\ \A d \in Later(s, z) : s[z][1] <= d /\ (IsLast(s[z]) => s[z][1] < d)
<1> DEFINE n == Len(s)
<1>1. n \in Nat /\ z \in 1..n
    OBVIOUS
<1>2. \A i \in 1..n : s[i][1] \in Messages /\ s[i][1] \in Nat /\ s[i][2] \in {0, 1}
    <2>1. \A i \in 1..n : s[i] \in Parts  OBVIOUS
    <2> QED  BY <2>1, PartIs, Numbers
<1>3. \A m : PieceCount(m) \in {1, 2} /\ (PieceCount(m) = 2 <=> m \in Long)
    BY DEF PieceCount
<1>4. \A i \in 1..n : IsLast(s[i]) <=> s[i][2] = PieceCount(s[i][1]) - 1
    BY DEF IsLast
<1>5. \A i, l \in 1..n : i < l => s[i][1] < s[l][1] \/ (s[i][1] = s[l][1] /\ s[i][2] < s[l][2])
    BY DEF Neat, Follows
<1>6. \A i \in 1..n : /\ s[i][2] < PieceCount(s[i][1])
                      /\ s[i][2] = 1 => i = 1 \/ s[i - 1] = <<s[i][1], 0>>
                      /\ ~IsLast(s[i]) => i < n /\ s[i + 1] = <<s[i][1], 1>>
    BY DEF Neat
<1>7. \A d : d \in Later(s, z) <=> \E i \in 1..n : i > z /\ d = s[i][1]
    BY DEF Later
<1>8. \A d : d \in Later(s, a) <=> \E i \in 1..n : i > a /\ d = s[i][1]
    BY DEF Later
<1>9. \A c : c \in Whole(s, a, z) <=> \E i \in (a + 1)..z : IsLast(s[i]) /\ c = s[i][1]
    BY DEF Whole
<1>10. \A i \in (a + 1)..z : i \in 1..n /\ i > a
    OBVIOUS
<1> HIDE DEF n
<1>11. \A i \in 1..n : ~IsLast(s[i]) => /\ i < n /\ i + 1 \in 1..n /\ s[i + 1] = <<s[i][1], 1>> /\ s[i][2] = 0
                                       /\ s[i][1] \in Long /\ IsLast(s[i + 1])
    <2> SUFFICES ASSUME NEW i \in 1..n, ~IsLast(s[i])
                 PROVE  /\ i < n /\ i + 1 \in 1..n /\ s[i + 1] = <<s[i][1], 1>> /\ s[i][2] = 0
                        /\ s[i][1] \in Long /\ IsLast(s[i + 1])
        OBVIOUS
    <2>1. i < n /\ i + 1 \in 1..n /\ s[i + 1] = <<s[i][1], 1>>
        BY <1>1, <1>6
    <2>2. s[i + 1][1] = s[i][1] /\ s[i + 1][2] = 1
        BY <2>1
    <2>3. s[i + 1][2] < PieceCount(s[i + 1][1])
        BY <1>6, <2>1
    <2>4. PieceCount(s[i][1]) = 2
        BY <1>3, <2>2, <2>3
    <2>5. IsLast(s[i + 1])
        BY <1>4, <2>1, <2>2, <2>4
    <2>6. s[i][2] = 0
        BY <1>2, <1>4, <2>4
    <2> QED  BY <1>3, <2>1, <2>4, <2>5, <2>6
<1>12. Later(s, a) \subseteq Whole(s, a, z) \cup Later(s, z)
    <2> SUFFICES ASSUME NEW i \in 1..n, i > a  PROVE s[i][1] \in Whole(s, a, z) \/ s[i][1] \in Later(s, z)
        BY <1>8
    <2>1. CASE i > z  BY <1>7, <2>1
    <2>2. CASE i <= z /\ IsLast(s[i])
        <3>1. i \in (a + 1)..z  BY <2>2
        <3> QED  BY <1>9, <2>2, <3>1
    <2>3. CASE i <= z /\ ~IsLast(s[i])
        <3>1. i + 1 \in 1..n /\ IsLast(s[i + 1]) /\ s[i + 1] = <<s[i][1], 1>>
            BY <1>11, <2>3
        <3>2. s[i + 1][1] = s[i][1]  BY <3>1
        <3>3. i + 1 \in (a + 1)..z \/ i + 1 > z  BY <2>3, <3>1
        <3> QED  BY <1>7, <1>9, <3>1, <3>2, <3>3
    <2> QED  BY <1>1, <2>1, <2>2, <2>3
<1>13. ASSUME NEW c \in Whole(s, a, z), NEW d \in Later(s, z)  PROVE c < d
    <2>1. PICK i \in (a + 1)..z : IsLast(s[i]) /\ c = s[i][1]  BY <1>9, <1>13
    <2>2. PICK l \in 1..n : l > z /\ d = s[l][1]  BY <1>7, <1>13
    <2>3. i \in 1..n /\ i < l  BY <1>10, <2>2
    <2>4. s[i][1] < s[l][1] \/ (s[i][1] = s[l][1] /\ s[i][2] < s[l][2])  BY <1>5, <2>3
    <2>5. ~(s[i][1] = s[l][1] /\ s[i][2] < s[l][2])
        <3> SUFFICES ASSUME s[i][1] = s[l][1], s[i][2] < s[l][2] PROVE FALSE  OBVIOUS
        <3>1. s[i][2] = PieceCount(s[l][1]) - 1  BY <1>4, <2>1, <2>3
        <3>2. s[l][2] < PieceCount(s[l][1])  BY <1>6
        <3>3. PieceCount(s[l][1]) \in {1, 2} /\ s[l][2] \in {0, 1}  BY <1>2, <1>3
        <3> QED  BY <3>1, <3>2, <3>3
    <2> QED  BY <2>1, <2>2, <2>4, <2>5
<1>14. Whole(s, a, z) \subseteq Later(s, a)
    BY <1>8, <1>9, <1>10
<1>15. Later(s, z) \subseteq Later(s, a)
    <2>1. \A i \in 1..n : i > z => i > a  BY <1>1
    <2> QED  BY <1>7, <1>8, <2>1
<1>16. z = n => Later(s, z) = {} /\ IsLast(s[z])
    <2>1. z = n => IsLast(s[z])  BY <1>1, <1>6
    <2>2. z = n => \A i \in 1..n : ~(i > z)  BY <1>1
    <2> QED  BY <1>7, <2>1, <2>2
<1>17. ASSUME IsLast(s[z]), z # n  PROVE s[z + 1][2] = 0
    <2>1. z + 1 \in 1..n /\ z + 1 # 1 /\ (z + 1) - 1 = z  BY <1>1, <1>17
    <2> SUFFICES ASSUME s[z + 1][2] # 0 PROVE FALSE  OBVIOUS
    <2>2. s[z + 1][2] = 1  BY <1>2, <2>1
    <2>3. s[z] = <<s[z + 1][1], 0>>
        BY <1>6, <2>1, <2>2
    <2>4. s[z][1] = s[z + 1][1] /\ s[z][2] = 0  BY <2>3
    <2>5. PieceCount(s[z][1]) = 1
        <3>1. s[z][2] = PieceCount(s[z][1]) - 1  BY <1>1, <1>4, <1>17
        <3> QED  BY <1>3, <2>4, <3>1
    <2>6. s[z + 1][2] < PieceCount(s[z + 1][1])  BY <1>6, <2>1
    <2> QED  BY <2>2, <2>4, <2>5, <2>6
<1>18. ~IsLast(s[z]) => /\ z < n /\ s[z + 1] = <<s[z][1], 1>> /\ s[z][2] = 0
                        /\ s[z][1] \in Long /\ s[z][1] \in Later(s, z)
    <2> SUFFICES ASSUME ~IsLast(s[z]) PROVE s[z][1] \in Later(s, z)
        BY <1>1, <1>11
    <2>1. z + 1 \in 1..n /\ z + 1 > z /\ s[z + 1][1] = s[z][1]  BY <1>1, <1>11
    <2> QED  BY <1>7, <2>1
<1>19. ASSUME NEW i \in 1..z  PROVE s[i][1] <= s[z][1]
    <2>1. i \in 1..n /\ (i = z \/ i < z) /\ s[z][1] \in Nat  BY <1>1, <1>2
    <2> QED  BY <1>1, <1>2, <1>5, <2>1
<1>20. ASSUME NEW d \in Later(s, z)  PROVE s[z][1] <= d
    <2>1. PICK l \in 1..n : l > z /\ d = s[l][1]  BY <1>7, <1>20
    <2>2. s[l][1] \in Nat /\ s[z][1] \in Nat  BY <1>1, <1>2
    <2>3. s[z][1] < s[l][1] \/ s[z][1] = s[l][1]  BY <1>1, <1>5, <2>1
    <2> QED  BY <2>1, <2>2, <2>3
<1>21. ASSUME NEW d \in Later(s, z), IsLast(s[z])  PROVE s[z][1] < d
    <2>1. z \in (a + 1)..z  BY <1>1
    <2>2. s[z][1] \in Whole(s, a, z)  BY <1>9, <1>21, <2>1
    <2> QED  BY <1>13, <2>2
<1>22. /\ Later(s, a) \subseteq Whole(s, a, z) \cup Later(s, z)
       /\ \A c \in Whole(s, a, z), d \in Later(s, z) : c < d
       /\ Whole(s, a, z) \subseteq Later(s, a) /\ Later(s, z) \subseteq Later(s, a)
       /\ z = n => Later(s, z) = {} /\ IsLast(s[z])
       /\ IsLast(s[z]) => z = n \/ s[z + 1][2] = 0
    BY <1>12, <1>13, <1>14, <1>15, <1>16, <1>17
<1>23. /\ ~IsLast(s[z]) => /\ z < n /\ s[z + 1] = <<s[z][1], 1>> /\ s[z][2] = 0
                           /\ s[z][1] \in Long /\ s[z][1] \in Later(s, z)
       /\ \A i \in 1..z : s[i][1] <= s[z][1]
       /\ \A d \in Later(s, z) : s[z][1] <= d /\ (IsLast(s[z]) => s[z][1] < d)
    BY <1>18, <1>19, <1>20, <1>21
<1> QED  BY <1>22, <1>23 DEF n

\* Whether appended or replayed, the statistics are the classified messages in their order.
LEMMA GrownIs ==
    ASSUME Typed, LedgerRight, NEW b, Complete(b) \subseteq Messages
    PROVE  /\ Grown(b) = InOrder((ledger.done \cup Complete(b)) \cap Theirs)
           /\ Grown(b) \in Seq(Messages)
<1> DEFINE D == ledger.done \cap Theirs
           C == Complete(b) \cap Theirs
           E == (ledger.done \cup Complete(b)) \cap Theirs
<1>1. D \subseteq Messages /\ C \subseteq Messages /\ E \subseteq Messages /\ E = D \cup C
    BY LedgerIs
<1>2. \A S \in SUBSET Messages : S \in SUBSET Nat /\ IsFiniteSet(S)
    BY Numbers, FS_Subset
<1>3. saved.merged = InOrder(D)
    BY DEF LedgerRight, Replayed
<1>4. \A c \in C : \E p \in ToSet(b) : c = p[1] /\ c \in Theirs
    BY DEF Complete
<1>5. Grown(b) = InOrder(E)
    <2>1. CASE ~AppendOnly(b)
        BY <2>1 DEF Grown, ReplayedWith
    <2>2. CASE AppendOnly(b)
        <3>1. Grown(b) = InOrder(D) \o InOrder(C)
            BY <1>3, <2>2 DEF Grown, Appended
        <3>2. \A c \in C : c > Latest
            BY <1>4, <2>2 DEF AppendOnly
        <3> HIDE DEF C, D, E
        <3>3. \A d \in D : d <= Latest /\ Latest \in Nat
            <4> TAKE d \in D
            <4>0. PICK q : q = InOrder(D)  OBVIOUS
            <4>1. /\ q \in Seq(D) /\ Len(q) \in Nat
                  /\ \E i \in 1..Len(q) : q[i] = d
                  /\ \A i, l \in 1..Len(q) : i < l => q[i] < q[l]
                <5>1. D \in SUBSET Nat /\ IsFiniteSet(D)  BY <1>1, <1>2
                <5> HIDE <1>1
                <5>2. InOrder(D) \in Seq(D) /\ (\E i \in 1..Len(InOrder(D)) : InOrder(D)[i] = d)
                      /\ \A i, l \in 1..Len(InOrder(D)) : i < l => InOrder(D)[i] < InOrder(D)[l]
                    BY ONLY <5>1, InOrderIs, d \in D
                <5> QED  BY <4>0, <5>2
            <4>2. PICK i \in 1..Len(q) : q[i] = d  BY <4>1
            <4>3. Len(q) \in 1..Len(q) /\ q # <<>>  BY <4>1, <4>2
            <4>4. Latest = q[Len(q)]
                <5>1. saved.merged = q  BY <1>3, <4>0
                <5> QED  BY <4>3, <5>1 DEF Latest, Last
            <4>5. q[Len(q)] \in D
                <5>1. q \in Seq(D)  BY <4>1
                <5> QED  BY ONLY <4>3, <5>1
            <4>6. q[Len(q)] \in Nat /\ d \in Nat
                <5>1. d \in Messages /\ q[Len(q)] \in Messages  BY <1>1, <4>5
                <5> QED  BY <5>1, Numbers
            <4>7. d = q[Len(q)] \/ d < q[Len(q)]
                <5>1. i = Len(q) \/ i < Len(q)  BY <4>1
                <5> QED  BY <4>1, <4>2, <4>3, <5>1
            <4> QED  BY <4>4, <4>5, <4>6, <4>7
        <3>4. \A d \in D, c \in C : d < c
            <4> TAKE d \in D, c \in C
            <4>1. d \in Nat /\ c \in Nat  BY <1>1, <1>2
            <4> QED  BY <3>2, <3>3, <4>1
        <3>5. InOrder(D \cup C) = InOrder(D) \o InOrder(C)
            BY <1>1, <1>2, <3>4, InOrderAppends
        <3> QED  BY <1>1, <3>1, <3>5
    <2> QED  BY <2>1, <2>2
<1> HIDE DEF E
<1>6. InOrder(E) \in Seq(E)
    BY <1>1, <1>2, InOrderIs
<1>7. InOrder(E) \in Seq(Messages)
    BY <1>1, <1>6, SeqMonotonic
<1> QED  BY <1>5, <1>7 DEF E

\* The fields of the row after a batch.
LEMMA CheckpointIs ==
    ASSUME Typed, Existing, NEW j \in Jobs, jobs[j] \in ReadyRecord, NEW b,
           Grown(b) \in Seq(Messages), Pending(b) \in Parts \cup {None}, Anchor(j, b) \in AnchorRecord
    PROVE  /\ Checkpoint(j, b) \in RowRecord
           /\ Checkpoint(j, b).batch = saved.batch + 1
           /\ Checkpoint(j, b).complete = (saved.batch + 1 = Len(saved.plan))
           /\ Checkpoint(j, b).merged = Grown(b) /\ Checkpoint(j, b).pending = Pending(b)
           /\ Checkpoint(j, b).anchor = Anchor(j, b) /\ Checkpoint(j, b).since = jobs[j].born
           /\ Checkpoint(j, b).hw = saved.hw /\ Checkpoint(j, b).after = saved.after
           /\ Checkpoint(j, b).fp = saved.fp /\ Checkpoint(j, b).plan = saved.plan
           /\ Checkpoint(j, b).reconcile = saved.reconcile
           /\ Checkpoint(j, b).classifier = saved.classifier
<1>1. saved \in RowRecord  BY RowIs
<1>2. jobs[j].born \in Nat  BY DEF ReadyRecord
<1>3. PICK born \in Nat : born = jobs[j].born  BY <1>2
<1>4. PICK merged \in Seq(Messages) : merged = Grown(b)  OBVIOUS
<1>5. PICK pending \in Parts \cup {None} : pending = Pending(b)  OBVIOUS
<1>6. PICK anchor \in AnchorRecord : anchor = Anchor(j, b)  OBVIOUS
<1>7. PICK old \in RowRecord : old = saved  BY <1>1
<1>8. PICK whole \in BOOLEAN : whole = (old.batch + 1 = Len(old.plan))  OBVIOUS
<1>9. PICK count \in Nat : count = old.batch + 1
    BY DEF RowRecord
<1>10. PICK r : r = [old EXCEPT !.batch = count, !.complete = whole, !.merged = merged,
                               !.pending = pending, !.anchor = anchor, !.since = born]
    OBVIOUS
<1>11. /\ r \in RowRecord
       /\ r.batch = count /\ r.complete = whole /\ r.merged = merged /\ r.pending = pending
       /\ r.anchor = anchor /\ r.since = born /\ r.hw = old.hw /\ r.after = old.after /\ r.fp = old.fp
       /\ r.plan = old.plan /\ r.reconcile = old.reconcile /\ r.classifier = old.classifier
    <2>1. r \in RowRecord
        BY ONLY <1>10 DEF RowRecord
    <2>2. r.batch = count /\ r.merged = merged /\ r.pending = pending /\ r.anchor = anchor
          /\ r.since = born
        BY ONLY <1>10 DEF RowRecord
    <2>3. r.hw = old.hw /\ r.after = old.after /\ r.fp = old.fp
          /\ r.plan = old.plan /\ r.reconcile = old.reconcile /\ r.classifier = old.classifier
        BY ONLY <1>10 DEF RowRecord
    <2>4. r.complete = whole
        BY ONLY <1>10 DEF RowRecord
    <2> QED  BY <2>1, <2>2, <2>3, <2>4
<1>12. Checkpoint(j, b) = r
    BY ONLY <1>3, <1>4, <1>5, <1>6, <1>7, <1>8, <1>10, <1>9 DEF Checkpoint
<1> QED  BY <1>3, <1>4, <1>5, <1>6, <1>7, <1>8, <1>11, <1>12, <1>9

\* The fields of the ledger after a batch.
LEMMA RecordedIs ==
    ASSUME Typed, NEW b, Complete(b) \subseteq Messages, Left(b) \in Parts \cup {None},
           Grown(b) \in Seq(Messages), Pending(b) \in Parts \cup {None}
    PROVE  /\ Recorded(b) \in LedgerRecord
           /\ Recorded(b).done = ledger.done \cup Complete(b) /\ Recorded(b).part = Left(b)
           /\ Recorded(b).hash = <<Grown(b), Pending(b)>>
           /\ Recorded(b).init = ledger.init /\ Recorded(b).revision = ledger.revision
           /\ Recorded(b).prefix = ledger.prefix /\ Recorded(b).hw = ledger.hw
<1>1. PICK old \in LedgerRecord : old = ledger  BY DEF Typed
<1>2. PICK whole \in SUBSET Messages : whole = Complete(b)  OBVIOUS
<1>3. PICK left \in Parts \cup {None} : left = Left(b)  OBVIOUS
<1>4. PICK hash \in Seq(Messages) \X (Parts \cup {None}) : hash = <<Grown(b), Pending(b)>>  OBVIOUS
<1>5. PICK l : l = [old EXCEPT !.done = old.done \cup whole, !.part = left, !.hash = hash]
    OBVIOUS
<1>6. /\ l \in LedgerRecord
      /\ l.done = old.done \cup whole /\ l.part = left /\ l.hash = hash
      /\ l.init = old.init /\ l.revision = old.revision /\ l.prefix = old.prefix /\ l.hw = old.hw
    BY ONLY <1>5 DEF LedgerRecord
<1>7. Recorded(b) = l
    BY ONLY <1>1, <1>2, <1>3, <1>4, <1>5 DEF Recorded
<1> QED  BY <1>1, <1>2, <1>3, <1>4, <1>6, <1>7

\* A batch is committed: row and ledger move together.
LEMMA CommitStep ==
    ASSUME PortraitInv, NEW j \in Jobs, Commit(j)
    PROVE  PortraitInv'
<1> DEFINE job == jobs[j]
           k == saved.batch
           b == Batch(j)
           C == Complete(b)
<1>1. /\ Live(j) /\ At(j, "asking") /\ ~Unfit(b)
      /\ saved' = Checkpoint(j, b) /\ ledger' = Recorded(b)
      /\ jobs' = [jobs EXCEPT ![j].state = "ready"]
      /\ UNCHANGED <<history, rev, current, inventory, suspended, budget, classifier, erased, overlooked>>
    BY DEF Commit, source, settings
<1>2. /\ Typed /\ Kept /\ Rows /\ Prefix /\ job \in ReadyRecord /\ ReadyRight(job) /\ job.born = erased
      /\ Existing /\ ledger.init /\ ~saved.complete /\ RowRight /\ LedgerRight
    BY <1>1, AskingIs
<1>3. PICK a : a = Mark(job, k)  OBVIOUS
<1>4. PICK z : z = Mark(job, k + 1)  OBVIOUS
<1>5. PICK s : s = job.pieces  OBVIOUS
<1>6. /\ k \in Nat /\ k < Len(saved.plan) /\ a \in Nat /\ z \in Nat /\ a < z /\ z <= Len(s)
      /\ b[1] = s[a + 1] /\ Last(b) = s[z]
      /\ \A p : p \in ToSet(b) <=> \E i \in (a + 1)..z : p = s[i]
      /\ k + 1 = Len(saved.plan) => z = Len(s)
      /\ k + 1 < Len(saved.plan) => z < Len(s)
    BY <1>1, <1>3, <1>4, <1>5, BatchIs
<1>7. s \in Seq(Parts) /\ Neat(s) /\ \A i \in 1..Len(s) : s[i][1] \in job.seen
    BY <1>2, <1>5 DEF ReadyRecord, ReadyRight
<1>8. job.seen \subseteq Messages /\ job.from \in Positions /\ (\A m \in job.seen : m <= saved.hw)
    BY <1>2 DEF ReadyRecord, ReadyRight, Within
<1>9. ~job.rewound /\ DueRight(job)
    <2>1. ASSUME Rewound(job)  PROVE FALSE
        <3>1. a = 0 /\ b[1][2] = 0 /\ ledger.part # None
            BY <1>3, <1>5, <1>6, <2>1 DEF Rewound
        <3>2. k # 0 /\ AnchorRight
            BY <1>2, <3>1 DEF LedgerRight, Begins
        <3>3. ledger.part[2] = 1
            BY <3>1, <3>2 DEF AnchorRight, PartRight
        <3>4. ledger.part # b[1]
            BY <3>1, <3>3
        <3> QED  BY <1>1, <3>1, <3>4 DEF Unfit
    <2> QED  BY <1>2, <2>1 DEF ReadyRight
<1>10. PICK m : m = s[z][1]  OBVIOUS
<1>11. PICK D : D = Later(s, z)  OBVIOUS
<1>12. C = Whole(s, a, z)
    BY <1>6 DEF Complete, Whole
<1>13. Due(job) = Later(s, a)
    BY <1>3, <1>5 DEF Due, Ahead, Later
<1>14. /\ Due(job) \subseteq C \cup D
       /\ \A c \in C, d \in D : c < d
       /\ C \subseteq Due(job) /\ D \subseteq Due(job)
       /\ z = Len(s) => D = {} /\ IsLast(s[z])
       /\ IsLast(s[z]) => z = Len(s) \/ s[z + 1][2] = 0
       /\ ~IsLast(s[z]) => /\ z < Len(s) /\ s[z + 1] = <<m, 1>> /\ s[z][2] = 0
                           /\ m \in Long /\ m \in D
       /\ \A i \in 1..z : s[i][1] <= m
       /\ \A d \in D : m <= d /\ (IsLast(s[z]) => m < d)
    BY <1>6, <1>7, <1>10, <1>11, <1>12, <1>13, CutIs
<1>15. z \in 1..Len(s) /\ m \in job.seen /\ m \in Messages /\ m \in Nat \ {0}
    BY <1>6, <1>7, <1>8, <1>10, Numbers
<1>16. Due(job) \subseteq job.seen /\ Due(job) \subseteq Messages /\ Due(job) \cap ledger.done = {}
    BY <1>5, <1>7, <1>8, <1>9 DEF Due, Ahead, DueRight
<1>17. D \cap C = {} /\ D \cap ledger.done = {}
    <2>1. \A d \in D : d \in Nat  BY <1>14, <1>16, Numbers
    <2>2. \A d \in D : ~(d < d)  BY <2>1
    <2> QED  BY <1>14, <1>16, <2>2
<1>18. /\ IsLast(s[z]) => Left(b) = None
       /\ ~IsLast(s[z]) => Left(b) = <<m, 1>>
       /\ Left(b) \in Parts \cup {None} /\ Pending(b) \in Parts \cup {None}
    <2>1. Left(b) = IF IsLast(s[z]) THEN None ELSE <<m, s[z][2] + 1>>
        BY <1>6, <1>10 DEF Left
    <2>2. ~IsLast(s[z]) => Left(b) = <<m, 1>>
        BY <1>14, <2>1
    <2>3. Left(b) \in Parts \cup {None}
        BY <1>15, <2>1, <2>2 DEF Parts
    <2> QED  BY <2>1, <2>2, <2>3 DEF Pending
<1> HIDE DEF C
<1>19. /\ Grown(b) \in Seq(Messages) /\ Grown(b) = InOrder((ledger.done \cup C) \cap Theirs)
       /\ C \subseteq Messages
    BY <1>2, <1>14, <1>16, GrownIs DEF C
<1>20. /\ Anchor(j, b) \in AnchorRecord
       /\ IsLast(s[z]) => Anchor(j, b) = [after |-> m, skip |-> 0, tail |-> {n \in job.seen : n > m}]
       /\ ~IsLast(s[z]) =>
             Anchor(j, b) = [after |-> MaxOf({n \in job.seen : n < m} \cup {job.from}),
                             skip |-> 1, tail |-> {n \in job.seen : n >= m}]
    <2>1. IsLast(s[z]) => Anchor(j, b) = [after |-> m, skip |-> 0, tail |-> {n \in job.seen : n > m}]
        BY <1>6, <1>10 DEF Anchor
    <2>2. ~IsLast(s[z]) =>
             Anchor(j, b) = [after |-> MaxOf({n \in job.seen : n < m} \cup {job.from}),
                             skip |-> 1, tail |-> {n \in job.seen : n >= m}]
        <3>1. ~IsLast(s[z]) => s[z][2] + 1 = 1  BY <1>14
        <3> QED  BY <1>6, <1>10, <3>1 DEF Anchor
    <2>3. MaxOf({n \in job.seen : n < m} \cup {job.from}) \in Positions
        BY <1>8, MaxOfIs DEF Positions
    <2>4. Anchor(j, b) \in AnchorRecord
        BY <1>8, <1>15, <2>1, <2>2, <2>3 DEF AnchorRecord, Positions
    <2> QED  BY <2>1, <2>2, <2>4
<1>21. /\ saved' \in RowRecord
       /\ saved'.batch = k + 1 /\ saved'.complete = (k + 1 = Len(saved.plan))
       /\ saved'.merged = Grown(b) /\ saved'.pending = Pending(b)
       /\ saved'.anchor = Anchor(j, b) /\ saved'.since = job.born
       /\ saved'.hw = saved.hw /\ saved'.after = saved.after /\ saved'.fp = saved.fp
       /\ saved'.plan = saved.plan /\ saved'.reconcile = saved.reconcile
       /\ saved'.classifier = saved.classifier
    BY <1>1, <1>2, <1>18, <1>19, <1>20, CheckpointIs
<1>22. /\ ledger' \in LedgerRecord
       /\ ledger'.done = ledger.done \cup C /\ ledger'.part = Left(b)
       /\ ledger'.hash = <<Grown(b), Pending(b)>>
       /\ ledger'.init = ledger.init /\ ledger'.revision = ledger.revision
       /\ ledger'.prefix = ledger.prefix /\ ledger'.hw = ledger.hw
    <2>1. Complete(b) \subseteq Messages  BY <1>19 DEF C
    <2> QED  BY <1>1, <1>2, <1>18, <1>19, <2>1, RecordedIs DEF C
<1>23. PICK J : J = [job EXCEPT !.state = "ready"]
    OBVIOUS
<1>24. jobs' = [jobs EXCEPT ![j] = J]
    BY <1>1, <1>2, <1>23 DEF Typed
<1>25. /\ J \in ReadyRecord /\ J.state = "ready"
       /\ J.born = job.born /\ J.hw = job.hw /\ J.rev = job.rev /\ J.from = job.from
       /\ J.seen = job.seen /\ J.offset = job.offset /\ J.pieces = s /\ J.rewound = job.rewound
    <2>1. job \in ReadyRecord  BY <1>2
    <2> HIDE DEF job
    <2>2. /\ J \in ReadyRecord /\ J.state = "ready"
          /\ J.born = job.born /\ J.hw = job.hw /\ J.rev = job.rev /\ J.from = job.from
          /\ J.seen = job.seen /\ J.offset = job.offset /\ J.pieces = job.pieces /\ J.rewound = job.rewound
        BY ONLY <1>23, <2>1 DEF ReadyRecord
    <2> QED  BY <1>5, <2>2
<1>26. WorldTyped' /\ J \in JobRecord
    BY <1>1, <1>2, <1>25 DEF Typed, WorldTyped, JobRecord
<1>27. Kept'
    <2>1. saved' # NoRow  BY <1>21, RowExists
    <2>2. saved'.classifier = classifier' /\ saved'.since = erased'
        BY <1>1, <1>2, <1>21 DEF Kept
    <2> QED  BY <1>1, <1>2, <1>22, <2>1, <2>2 DEF Kept, Existing
<1>28. k + 1 = Len(saved.plan) => Left(b) = None /\ Pending(b) = None /\ D = {}
    BY <1>6, <1>14, <1>18 DEF Pending
<1>29. RowRight'
    <2>1. saved'.batch <= Len(saved'.plan)
        <3>1. Len(saved.plan) \in Nat  BY <1>2, RowIs
        <3> QED  BY <1>6, <1>21, <3>1
    <2> QED  BY <1>21, <1>28, <2>1 DEF RowRight
\* What the anchor leaves is what is still due.
<1>30. k + 1 # Len(saved.plan) => Rest' = D
    <2> SUFFICES ASSUME k + 1 # Len(saved.plan) PROVE Rest' = D
        OBVIOUS
    <2>1. saved'.anchor.tail = {n \in job.seen : IF IsLast(s[z]) THEN n > m ELSE n >= m}
        BY <1>20, <1>21
    <2>2. ASSUME NEW n \in D
          PROVE  n \in saved'.anchor.tail /\ n \notin ledger'.done /\ (~saved.reconcile => n > saved.after)
        <3>1. n \in job.seen /\ n \in Nat  BY <1>8, <1>14, <1>16, Numbers
        <3>2. m <= n /\ (IsLast(s[z]) => m < n)  BY <1>14
        <3>3. n >= m /\ (IsLast(s[z]) => n > m)  BY <1>15, <3>1, <3>2
        <3>4. n \notin ledger'.done  BY <1>17, <1>22
        <3>5. ~saved.reconcile => n > saved.after
            <4>1. PICK i \in 1..Len(s) : n = s[i][1]  BY <1>11 DEF Later
            <4> QED  BY <1>5, <1>9, <4>1 DEF DueRight
        <3> QED  BY <2>1, <3>1, <3>3, <3>4, <3>5
    <2>3. ASSUME NEW n \in saved'.anchor.tail,
                 IF saved.reconcile THEN n \notin ledger'.done ELSE n > saved.after
          PROVE  n \in D
        <3>1. n \in job.seen /\ n \in Nat /\ n >= m /\ (IsLast(s[z]) => n > m)
            <4>1. n \in job.seen /\ IF IsLast(s[z]) THEN n > m ELSE n >= m
                BY <2>1, <2>3
            <4>2. n \in Nat  BY <1>8, <4>1, Numbers
            <4> QED  BY <1>15, <4>1, <4>2
        <3>2. saved.after \in Nat  BY <1>2, RowIs, Numbers
        <3>3. \E i \in 1..Len(s) : s[i][1] = n
            <4>1. CASE saved.reconcile
                BY <1>5, <1>9, <1>22, <2>3, <3>1, <4>1 DEF DueRight
            <4>2. CASE ~saved.reconcile
                <5>1. ~(n <= saved.after)  BY <2>3, <3>1, <3>2, <4>2
                <5> QED  BY <1>5, <1>9, <3>1, <4>2, <5>1 DEF DueRight
            <4> QED  BY <4>1, <4>2
        <3>4. PICK i \in 1..Len(s) : s[i][1] = n  BY <3>3
        <3>5. CASE i > z  BY <1>11, <3>4, <3>5 DEF Later
        <3>6. CASE i <= z
            <4>1. i \in 1..z  BY <1>6, <3>6
            <4>2. n <= m  BY <1>14, <3>4, <4>1
            <4>3. n = m /\ ~IsLast(s[z])  BY <1>15, <3>1, <4>2
            <4> QED  BY <1>14, <4>3
        <3> QED  BY <1>6, <3>5, <3>6
    <2>4. Rest' = IF saved.reconcile THEN saved'.anchor.tail \ ledger'.done
                  ELSE {n \in saved'.anchor.tail : n > saved.after}
        BY <1>21 DEF Rest
    <2>5. CASE saved.reconcile  BY <2>2, <2>3, <2>4, <2>5
    <2>6. CASE ~saved.reconcile  BY <2>2, <2>3, <2>4, <2>6
    <2> QED  BY <2>5, <2>6
<1>31. saved.fp \subseteq ledger'.done \cup D /\ D \cap ledger'.done = {}
    BY <1>9, <1>14, <1>17, <1>22 DEF DueRight
<1>32. k + 1 # Len(saved.plan) => AnchorRight'
    <2> SUFFICES ASSUME k + 1 # Len(saved.plan) PROVE AnchorRight'
        OBVIOUS
    <2>1. Rest' = D  BY <1>30
    <2>2. ~saved.reconcile => saved'.anchor.after >= saved.after
        <3> SUFFICES ASSUME ~saved.reconcile PROVE saved'.anchor.after >= saved.after
            OBVIOUS
        <3>1. saved.after \in Nat /\ job.from \in Nat /\ job.from >= saved.after
            BY <1>2, <1>8, <1>9, RowIs, Numbers DEF DueRight
        <3>2. CASE IsLast(s[z])
            <4>1. saved'.anchor.after = m  BY <1>20, <1>21, <3>2
            <4>2. m > saved.after  BY <1>5, <1>9, <1>10, <1>15 DEF DueRight
            <4> QED  BY <1>15, <3>1, <4>1, <4>2
        <3>3. CASE ~IsLast(s[z])
            <4> DEFINE S == {n \in job.seen : n < m} \cup {job.from}
            <4>1. saved'.anchor.after = MaxOf(S)  BY <1>20, <1>21, <3>3
            <4>2. MaxOf(S) \in Positions /\ \A n \in S : n <= MaxOf(S)
                BY <1>8, MaxOfIs DEF Positions
            <4>3. job.from <= MaxOf(S) /\ MaxOf(S) \in Nat  BY <4>2, Numbers
            <4> HIDE DEF S
            <4> QED  BY <3>1, <4>1, <4>3
        <3> QED  BY <3>2, <3>3
    <2>3. PartRight'
        <3>1. CASE IsLast(s[z])
            <4>1. ledger'.part = None  BY <1>18, <1>22, <3>1
            <4>2. saved'.anchor.skip = 0 /\ saved'.anchor.after = m  BY <1>20, <1>21, <3>1
            <4> QED  BY <1>15, <4>1, <4>2 DEF PartRight
        <3>2. CASE ~IsLast(s[z])
            <4>1. ledger'.part = <<m, 1>> /\ <<m, 1>> \in Parts
                BY <1>15, <1>18, <1>22, <3>2 DEF Parts
            <4>2. ledger'.part # None /\ ledger'.part[1] = m /\ ledger'.part[2] = 1
                BY <4>1, NoneIs
            <4>3. saved'.anchor.skip = 1  BY <1>20, <1>21, <3>2
            <4>4. m \in Long \cap D /\ \A n \in D : m <= n  BY <1>14, <3>2
            <4> QED  BY <2>1, <4>2, <4>3, <4>4 DEF PartRight
        <3> QED  BY <3>1, <3>2
    <2> QED  BY <1>21, <1>31, <2>1, <2>2, <2>3 DEF AnchorRight
<1>33. LedgerRight'
    <2>1. \A n \in ledger.done \cup C : n <= saved.hw
        BY <1>2, <1>8, <1>14, <1>16 DEF LedgerRight, Within
    <2>2. saved'.merged = Replayed'
        BY <1>19, <1>21, <1>22 DEF Replayed
    <2>3. saved'.pending # None => saved'.pending = ledger'.part
        BY <1>21, <1>22 DEF Pending
    <2>4. ledger'.hash = <<saved'.merged, saved'.pending>>
        BY <1>21, <1>22
    <2>5. saved'.complete => ledger'.part = None /\ saved'.fp \subseteq ledger'.done
        BY <1>21, <1>22, <1>28, <1>31
    <2>6. ~saved'.complete => saved'.batch # 0 /\ AnchorRight'
        <3>1. saved'.batch # 0  BY <1>6, <1>21
        <3>2. ~saved'.complete => k + 1 # Len(saved.plan)  BY <1>21
        <3> QED  BY <1>32, <3>1, <3>2
    <2>7. Within(ledger.done)'
        BY <1>21, <1>22, <2>1 DEF Within
    <2> QED  BY <2>2, <2>3, <2>4, <2>5, <2>6, <2>7 DEF LedgerRight
<1>34. Prefix'
    BY <1>1, <1>2, <1>22 DEF Prefix, Read
<1>35. PICK next \in Nat : next = k + 1
    BY <1>6
<1>36. PICK n \in Nat : n = Len(saved.plan)
    BY <1>2, RowIs
<1>37. \A l \in Nat : l > 0 => Mark(J, l)' = Mark(job, l)
    BY <1>21, <1>25 DEF Mark
<1>38. next > 0 /\ n > 0 /\ next <= n /\ saved'.batch = next /\ Len(saved'.plan) = n
    BY <1>6, <1>21, <1>35, <1>36
<1>39. Mark(J, next)' = z /\ Mark(J, saved.batch)' = z
    <2>1. Mark(J, next)' = z  BY <1>4, <1>35, <1>37, <1>38
    <2> QED  BY <1>38, <2>1
<1>40. PlanRight(J)'
    <2>1. /\ Mark(job, n) = Len(s)
          /\ \A x, y \in k..n : x < y => Mark(job, x) < Mark(job, y)
        BY <1>2, <1>5, <1>36 DEF ReadyRight, PlanRight
    <2>2. Mark(J, n)' = Len(s)
        BY <1>37, <1>38, <2>1
    <2>3. Mark(J, Len(saved.plan))' = Len(J.pieces)
        BY <1>25, <1>38, <2>2
    <2>4. ASSUME NEW x \in next..n, NEW y \in next..n, x < y
          PROVE  Mark(J, x)' < Mark(J, y)'
        <3>1. x \in Nat /\ y \in Nat /\ x > 0 /\ y > 0 /\ x \in k..n /\ y \in k..n
            BY <1>6, <1>35, <1>38
        <3> QED  BY <1>37, <2>1, <2>4, <3>1
    <2>5. \A x, y \in saved'.batch..Len(saved'.plan) : x < y => Mark(J, x)' < Mark(J, y)'
        BY <1>38, <2>4
    <2>6. Mark(J, saved.batch)' \in Nat
        BY <1>6, <1>39
    <2> QED  BY <2>3, <2>5, <2>6 DEF PlanRight
<1>41. Due(J)' = D
    BY <1>11, <1>25, <1>39 DEF Due, Ahead, Later
<1>42. Continues(J)' \/ saved'.complete
    <2> SUFFICES ASSUME k + 1 # Len(saved.plan) PROVE Continues(J)'
        BY <1>21
    <2>1. z < Len(s)
        <3>1. Len(saved.plan) \in Nat  BY <1>2, RowIs
        <3> QED  BY <1>6, <3>1
    <2>2. J.pieces[Mark(J, saved.batch)' + 1] = s[z + 1]
        BY <1>25, <1>39
    <2>3. CASE IsLast(s[z])
        <3>1. s[z + 1][2] = 0 /\ ledger'.part = None
            BY <1>6, <1>14, <1>18, <1>22, <2>1, <2>3
        <3> QED  BY <2>2, <3>1 DEF Continues
    <2>4. CASE ~IsLast(s[z])
        <3>1. ledger'.part = <<m, 1>> /\ <<m, 1>> \in Parts /\ s[z + 1] = <<m, 1>>
            BY <1>14, <1>15, <1>18, <1>22, <2>4 DEF Parts
        <3>2. ledger'.part # None  BY <3>1, NoneIs
        <3> QED  BY <2>2, <3>1, <3>2 DEF Continues
    <2> QED  BY <2>3, <2>4
<1>43. DueRight(J)'
    <2>1. \A x \in J.seen : IF saved.reconcile THEN x \in ledger'.done \/ \E i \in 1..Len(s) : s[i][1] = x
                            ELSE x <= saved.after \/ \E i \in 1..Len(s) : s[i][1] = x
        BY <1>5, <1>9, <1>22, <1>25 DEF DueRight
    <2>2. ~saved.reconcile => J.from >= saved.after /\ \A i \in 1..Len(s) : s[i][1] > saved.after
        BY <1>5, <1>9, <1>25 DEF DueRight
    <2>3. Covers(J, J.from, Read)' /\ Covers(J, saved.hw, Read \cup Due(J))'
        <3>1. rev = job.rev => Upto(history, job.from) \subseteq ledger.done \cup overlooked
            BY <1>9 DEF DueRight, Covers, Read
        <3>2. rev = job.rev => Upto(history, saved.hw) \subseteq ledger.done \cup overlooked \cup Due(job)
            BY <1>9 DEF DueRight, Covers, Read
        <3>3. rev = job.rev => Upto(history, saved.hw) \subseteq ledger.done \cup C \cup overlooked \cup D
            BY <1>14, <3>2
        <3> QED  BY <1>1, <1>21, <1>22, <1>25, <1>41, <3>1, <3>3 DEF Covers, Read
    <2> QED  BY <1>21, <1>25, <1>31, <1>41, <1>42, <2>1, <2>2, <2>3 DEF DueRight
<1>44. ReadyRight(J)'
    <2>1. Current(J)'
        BY <1>1, <1>2, <1>22, <1>25 DEF ReadyRight, Current
    <2>2. Within(J.seen)'
        BY <1>8, <1>21, <1>25 DEF Within
    <2>3. J.state # "asking"  BY <1>25
    <2> QED  BY <1>2, <1>7, <1>9, <1>22, <1>25, <1>40, <1>43, <2>1, <2>2, <2>3 DEF ReadyRight
<1>45. JobRight(J)'
    BY <1>1, <1>2, <1>25, <1>44 DEF JobRight, Born
<1>46. Rows'
    BY <1>29, <1>33 DEF Rows
<1> QED  BY <1>1, <1>2, <1>21, <1>22, <1>24, <1>26, <1>27, <1>34, <1>45, <1>46, LiveStep

-----------------------------------------------------------------------------
(* A pass begins *)

\* A scan that is over, over the row and the ledger as they are.
LEMMA ScannedIs ==
    ASSUME PortraitInv, NEW j \in Jobs, Live(j), At(j, "scanned")
    PROVE  /\ Typed /\ Kept /\ Rows /\ Prefix
           /\ jobs[j] \in ScanRecord /\ ScanRight(jobs[j]) /\ jobs[j].born = erased
           /\ HasRow(jobs[j].rebuild) => Existing /\ ledger.init /\ RowRight /\ LedgerRight
           /\ ~HasRow(jobs[j].rebuild) => ledger = NoLedger
           /\ jobs[j].state = "scanned"
<1>1. Typed /\ JobRight(jobs[j]) /\ Kept /\ Rows /\ Prefix
    BY LiveIsRight DEF PortraitInv
<1>2. jobs[j] \in ScanRecord /\ jobs[j].state = "scanned" /\ Running(jobs[j])
    BY <1>1, JobIs DEF At, Running
<1>3. ScanRight(jobs[j]) /\ jobs[j].born = erased
    BY <1>1, <1>2 DEF JobRight, Born
<1>4. jobs[j].rebuild = Rebuilds
    BY <1>3 DEF ScanRight
<1>5. HasRow(jobs[j].rebuild) <=> Existing /\ ledger.init
    BY <1>1, <1>4, RebuildsIs
<1>6. ~HasRow(jobs[j].rebuild) => ledger = NoLedger
    BY <1>1, <1>5 DEF Kept
<1> QED  BY <1>1, <1>2, <1>3, <1>5, <1>6 DEF Rows

\* What is fresh has been seen, and what is left of an interrupted pass is just
\* that.
LEMMA FreshIs ==
    ASSUME PortraitInv, NEW j \in Jobs, Live(j), At(j, "scanned"), ~SourceChanged(j)
    PROVE  /\ Fresh(j) \subseteq jobs[j].seen /\ jobs[j].seen \subseteq Messages
           /\ Skip(j) \in {0, 1}
           /\ \A m \in Fresh(j) : (\A n \in Fresh(j) : m <= n) => Skip(j) < PieceCount(m)
           /\ IF Resumes(j) /\ saved.batch > 0 /\ ~jobs[j].taken
              THEN /\ Fresh(j) = Rest /\ AnchorRight
                   /\ Skip(j) = IF ledger.part = None THEN 0 ELSE 1
              ELSE Skip(j) = 0
<1> DEFINE job == jobs[j]
<1>1. /\ Typed /\ job \in ScanRecord /\ ScanRight(job)
      /\ HasRow(job.rebuild) => Existing /\ ledger.init /\ RowRight /\ LedgerRight
    BY ScannedIs
<1>2. Fresh(j) \subseteq job.seen /\ job.seen \subseteq Messages
    BY <1>1 DEF Fresh, ScanRecord
<1>3. \A m : 0 < PieceCount(m)
    BY DEF PieceCount
<1>4. CASE ~(Resumes(j) /\ saved.batch > 0 /\ ~job.taken)
    <2>1. Skip(j) = 0  BY <1>4 DEF Skip
    <2> QED  BY <1>2, <1>3, <1>4, <2>1
<1>5. CASE Resumes(j) /\ saved.batch > 0 /\ ~job.taken
    <2>1. Unfinished(job.rebuild) /\ ~saved.complete /\ Existing /\ LedgerRight
        BY <1>1, <1>5 DEF Resumes, Unfinished
    <2>2. saved.batch # 0  BY <1>5
    <2>3. AnchorRight  BY <2>1, <2>2 DEF LedgerRight
    <2>4. job.seen = saved.anchor.tail
        BY <1>5 DEF SourceChanged
    <2>5. job.reconcile = saved.reconcile /\ job.after = saved.after
        BY <1>1, <2>1 DEF ScanRight, After
    <2>6. Fresh(j) = Rest
        BY <2>4, <2>5 DEF Fresh, Rest, KnownIds
    <2>7. Skip(j) = saved.anchor.skip
        BY <1>5 DEF Skip
    <2>8. CASE ledger.part = None
        <3>1. Skip(j) = 0  BY <2>3, <2>7, <2>8 DEF AnchorRight, PartRight
        <3> QED  BY <1>2, <1>3, <1>5, <2>3, <2>6, <2>8, <3>1
    <2>9. CASE ledger.part # None
        <3>1. /\ Skip(j) = 1 /\ ledger.part[1] \in Long \cap Fresh(j)
              /\ \A n \in Fresh(j) : ledger.part[1] <= n
            BY <2>3, <2>6, <2>7, <2>9 DEF AnchorRight, PartRight
        <3>2. ASSUME NEW m \in Fresh(j), \A n \in Fresh(j) : m <= n  PROVE Skip(j) < PieceCount(m)
            <4>1. m \in Nat /\ ledger.part[1] \in Nat  BY <1>2, <3>1, Numbers
            <4>2. m <= ledger.part[1] /\ ledger.part[1] <= m  BY <3>1, <3>2
            <4>3. m = ledger.part[1]  BY <4>1, <4>2
            <4>4. m \in Long  BY <3>1, <4>3
            <4>5. PieceCount(m) = 2  BY <4>4 DEF PieceCount
            <4> QED  BY <3>1, <4>5
        <3> QED  BY <1>2, <1>5, <2>3, <2>6, <2>9, <3>1, <3>2
    <2> QED  BY <2>8, <2>9
<1> QED  BY <1>4, <1>5

\* Every message of a set has a piece.
LEMMA PieceOf ==
    ASSUME NEW S \in SUBSET Messages, NEW skip \in {0, 1},
           \A m \in S : (\A n \in S : m <= n) => skip < PieceCount(m), NEW m \in S
    PROVE  \E i \in 1..Len(Pieces(S, skip)) : Pieces(S, skip)[i][1] = m
<1>1. \A n \in S : \E i \in 1..Len(Pieces(S, skip)) : Pieces(S, skip)[i] = <<n, PieceCount(n) - 1>>
    BY PiecesIs
<1>2. PICK i \in 1..Len(Pieces(S, skip)) : Pieces(S, skip)[i] = <<m, PieceCount(m) - 1>>
    BY <1>1
<1> QED  BY <1>2

\* The pieces of what is fresh.
LEMMA FreshPieces ==
    ASSUME PortraitInv, NEW j \in Jobs, Live(j), At(j, "scanned"), ~SourceChanged(j),
           NEW s, s = Pieces(Fresh(j), Skip(j))
    PROVE  /\ s \in Seq(Parts) /\ Neat(s)
           /\ \A i \in 1..Len(s) : s[i][1] \in Fresh(j)
           /\ \A m \in Fresh(j) : \E i \in 1..Len(s) : s[i][1] = m
           /\ Fresh(j) = {} <=> Len(s) = 0
           /\ Fresh(j) # {} => \E m \in Fresh(j) : (\A n \in Fresh(j) : m <= n) /\ s[1] = <<m, Skip(j)>>
<1> DEFINE F == Fresh(j)
<1>1. F \in SUBSET Messages /\ Skip(j) \in {0, 1}
      /\ \A m \in F : (\A n \in F : m <= n) => Skip(j) < PieceCount(m)
    BY FreshIs
<1>2. F \in SUBSET Nat /\ IsFiniteSet(F)
    BY <1>1, Numbers, FS_Subset
<1>3. /\ s \in Seq(Parts) /\ Neat(s)
      /\ \A i \in 1..Len(s) : s[i][1] \in F
      /\ \A m \in F : (\A n \in F : m <= n) => Len(s) > 0 /\ s[1] = <<m, Skip(j)>>
    BY <1>1, PiecesIs
<1>4. ASSUME NEW m \in F  PROVE \E i \in 1..Len(s) : s[i][1] = m
    <2>1. \E i \in 1..Len(Pieces(F, Skip(j))) : Pieces(F, Skip(j))[i][1] = m
        <3> HIDE DEF F
        <3> QED  BY <1>1, PieceOf
    <2> QED  BY <2>1
<1> HIDE DEF F
<1>5. F # {} => \E m \in F : \A n \in F : m <= n
    BY <1>2, LeastElement
<1>6. F = {} => Len(s) = 0
    <2> SUFFICES ASSUME F = {} PROVE Len(s) = 0  OBVIOUS
    <2>1. Len(s) \in Nat  BY <1>3
    <2> QED  BY <1>3, <2>1
<1>7. /\ s \in Seq(Parts) /\ Neat(s)
      /\ \A i \in 1..Len(s) : s[i][1] \in F
      /\ \A m \in F : \E i \in 1..Len(s) : s[i][1] = m
      /\ F = {} <=> Len(s) = 0
      /\ F # {} => \E m \in F : (\A n \in F : m <= n) /\ s[1] = <<m, Skip(j)>>
    <2>1. F # {} => Len(s) # 0 /\ \E m \in F : (\A n \in F : m <= n) /\ s[1] = <<m, Skip(j)>>
        BY <1>3, <1>5
    <2> QED  BY <1>3, <1>4, <1>6, <2>1
<1> QED  BY <1>7 DEF F

\* What the scan has not seen is recorded or overlooked, as far as the job can know.
LEMMA FreshCovers ==
    ASSUME PortraitInv, NEW j \in Jobs, Live(j), At(j, "scanned")
    PROVE  /\ rev = jobs[j].rev => Upto(history, jobs[j].top) \subseteq Read \cup Fresh(j)
           /\ \A m \in jobs[j].seen : IF jobs[j].reconcile THEN m \in ledger.done \/ m \in Fresh(j)
                                      ELSE m <= jobs[j].after \/ m \in Fresh(j)
<1> DEFINE job == jobs[j]
<1>1. Typed /\ job \in ScanRecord /\ ScanRight(job) /\ job.state = "scanned"
    BY ScannedIs
<1>2. job.from \in Nat /\ job.after \in Nat /\ (\A m \in job.seen : m \in Nat)
    BY <1>1, Numbers DEF ScanRecord
<1>3. \A m \in job.seen : IF job.reconcile THEN m \in ledger.done \/ m \in Fresh(j)
                          ELSE m <= job.after \/ m \in Fresh(j)
    BY <1>2 DEF Fresh, KnownIds
<1>4. ASSUME rev = job.rev, NEW m \in Upto(history, job.top)  PROVE m \in Read \cup Fresh(j)
    <2>1. m \in Upto(history, job.from) \cup job.seen \cup overlooked
        BY <1>1, <1>4 DEF ScanRight, Covers
    <2>2. Upto(history, job.from) \subseteq Read
        BY <1>1, <1>4 DEF ScanRight, Covers
    <2>3. CASE m \in job.seen
        <3>1. job.reconcile \/ m <= job.after => m \in Read \cup Fresh(j)
            <4>1. CASE job.reconcile  BY <1>3, <2>3, <4>1 DEF Read
            <4>2. CASE ~job.reconcile /\ m <= job.after
                <5>1. job.from >= job.after  BY <1>1, <4>2 DEF ScanRight
                <5>2. m <= job.from  BY <1>2, <2>3, <4>2, <5>1
                <5>3. m \in history  BY <1>4 DEF Upto
                <5> QED  BY <2>2, <5>2, <5>3 DEF Upto
            <4> QED  BY <4>1, <4>2
        <3> QED  BY <1>3, <2>3, <3>1
    <2> QED  BY <2>1, <2>2, <2>3 DEF Read
<1> QED  BY <1>3, <1>4

\* The ledger a pass begins with says nothing new.
LEMMA BegunIs ==
    ASSUME PortraitInv, NEW j \in Jobs, Live(j), At(j, "scanned")
    PROVE  /\ Begun(j) \in LedgerRecord /\ Begun(j).init
           /\ Begun(j).done = ledger.done /\ Begun(j).part = ledger.part
           /\ Begun(j).hash = ledger.hash /\ Begun(j).revision = ledger.revision
           /\ Begun(j).prefix = ledger.prefix /\ Begun(j).hw = ledger.hw
<1>1. Typed /\ Kept /\ (~HasRow(jobs[j].rebuild) => ledger = NoLedger) /\ ScanRight(jobs[j])
    BY ScannedIs
<1>2. CASE jobs[j].rebuild \/ ~ledger.init
    <2>1. ledger = NoLedger  BY <1>1, <1>2 DEF HasRow, Kept
    <2>2. Begun(j) = [NoLedger EXCEPT !.init = TRUE]  BY <1>2 DEF Begun
    <2> QED  BY <2>1, <2>2 DEF NoLedger, LedgerRecord, Positions
<1>3. CASE ~(jobs[j].rebuild \/ ~ledger.init)
    <2>1. Begun(j) = ledger  BY <1>3 DEF Begun
    <2> QED  BY <1>1, <1>3, <2>1 DEF Typed
<1> QED  BY <1>2, <1>3

\* What a pass leaves of the inventory.
LEMMA InventoryBegins ==
    ASSUME Typed, NEW top \in Positions, NEW taken,
           inventory' = [inventory EXCEPT !.row = top, !.pieces = IF taken THEN NoPieces ELSE @]
    PROVE  /\ inventory' \in InventoryRecord
           /\ \A m \in inventory'.pieces.seen : m <= inventory'.pieces.hw
           /\ inventory'.reader # None => \A m \in inventory'.reader.seen : m <= inventory'.reader.hw
<1>1. NoPieces \in PiecesRecord /\ NoPieces.seen = {}
    BY DEF NoPieces, PiecesRecord
<1>2. /\ inventory.reader \in ReaderRecord \cup {None}
      /\ inventory.pieces \in PiecesRecord
      /\ inventory = [row |-> inventory.row, reader |-> inventory.reader, pieces |-> inventory.pieces]
      /\ inventory.reader # None => \A m \in inventory.reader.seen : m <= inventory.reader.hw
      /\ \A m \in inventory.pieces.seen : m <= inventory.pieces.hw
    BY DEF Typed, WorldTyped, InventoryRecord
<1>3. PICK p \in {inventory.pieces, NoPieces} : p = IF taken THEN NoPieces ELSE inventory.pieces
    OBVIOUS
<1>4. inventory' = [row |-> top, reader |-> inventory.reader, pieces |-> p]
    BY <1>2, <1>3
<1>5. p \in PiecesRecord /\ \A m \in p.seen : m <= p.hw
    BY <1>1, <1>2
<1>6. inventory' \in InventoryRecord
    <2>1. inventory.reader \in ReaderRecord \cup {None} /\ top \in Positions \cup {None} /\ p \in PiecesRecord
        BY <1>2, <1>5
    <2> QED  BY ONLY <1>4, <2>1 DEF InventoryRecord
<1>7. inventory'.pieces = p /\ inventory'.reader = inventory.reader
    <2>1. PICK r : r = inventory.reader  OBVIOUS
    <2>2. PICK v : v = inventory'  OBVIOUS
    <2>3. v = [row |-> top, reader |-> r, pieces |-> p]  BY <1>4, <2>1, <2>2
    <2>4. v.pieces = p /\ v.reader = r  BY ONLY <2>3
    <2> QED  BY <2>1, <2>2, <2>4
<1> QED  BY <1>2, <1>5, <1>6, <1>7

\* A plan q that goes on behind the k batches of p with n pieces more.
GoesOn(q, p, k, base, n) ==
    /\ p \in Seq(Nat) /\ k \in Nat /\ k <= Len(p) /\ n \in Nat /\ n > 0
    /\ base \in Nat /\ base = IF k > 0 THEN p[k] ELSE 0
    /\ q = SubSeq(p, 1, k) \o Plan(n, base)

Ascends(q, k, base, n) ==
    /\ k \in Nat /\ base \in Nat /\ n \in Nat
    /\ q \in Seq(Nat) /\ Len(q) > k /\ (k > 0 => q[k] = base) /\ q[Len(q)] = base + n
    /\ \A x \in (k + 1)..Len(q) : base < q[x]
    /\ \A x, y \in (k + 1)..Len(q) : x < y => q[x] < q[y]

\* The plan of a pass goes on where the batches done end.
LEMMA PlanGoesOn ==
    ASSUME budget \in Nat \ {0}, NEW p, NEW k, NEW n, NEW base, NEW q, GoesOn(q, p, k, base, n)
    PROVE  Ascends(q, k, base, n)
<1> DEFINE l == Plan(n, base)
           h == SubSeq(p, 1, k)
<1>0. /\ p \in Seq(Nat) /\ k \in Nat /\ k <= Len(p) /\ n \in Nat /\ n > 0
      /\ base \in Nat /\ base = (IF k > 0 THEN p[k] ELSE 0) /\ q = h \o l
    BY DEF GoesOn
<1>1. /\ l \in Seq(Nat) /\ Len(l) > 0 /\ l[Len(l)] = base + n
      /\ \A i \in 1..Len(l) : base < l[i]
      /\ \A i, m \in 1..Len(l) : i < m => l[i] < l[m]
    BY <1>0, PlanIs
<1>2. h \in Seq(Nat) /\ Len(h) = k /\ \A i \in 1..k : h[i] = p[i]
    BY <1>0, SubSeqProperties
<1> HIDE DEF l, h
<1>3. /\ q \in Seq(Nat) /\ Len(q) = k + Len(l) /\ \A i \in 1..Len(q) :
            q[i] = IF i <= k THEN h[i] ELSE l[i - k]
    <2>1. PICK u, v : u = h /\ v = l  OBVIOUS
    <2>2. u \in Seq(Nat) /\ v \in Seq(Nat) /\ Len(u) = k /\ k \in Nat /\ q = u \o v
        BY <1>0, <1>1, <1>2, <2>1
    <2>3. /\ q \in Seq(Nat) /\ Len(q) = k + Len(v)
          /\ \A i \in 1..Len(q) : q[i] = IF i <= k THEN u[i] ELSE v[i - k]
        <3>1. PICK m \in Nat : m = Len(v)  BY <2>2
        <3>2. /\ u \o v \in Seq(Nat) /\ Len(u \o v) = Len(u) + Len(v)
              /\ \A i \in 1..(Len(u) + Len(v)) :
                    (u \o v)[i] = IF i <= Len(u) THEN u[i] ELSE v[i - Len(u)]
            BY ONLY <2>2, ConcatProperties
        <3>3. Len(q) = k + m  BY ONLY <2>2, <3>1, <3>2
        <3>4. \A i \in 1..(k + m) : q[i] = IF i <= k THEN u[i] ELSE v[i - k]
            BY ONLY <2>2, <3>1, <3>2
        <3> QED  BY <2>2, <3>1, <3>2, <3>3, <3>4
    <2> QED  BY <2>1, <2>3
<1>4. k > 0 => q[k] = base
    <2> SUFFICES ASSUME k > 0 PROVE q[k] = base  OBVIOUS
    <2>1. k \in 1..Len(q) /\ k \in 1..k  BY <1>0, <1>1, <1>3
    <2> QED  BY <1>0, <1>2, <1>3, <2>1
<1>5. q[Len(q)] = base + n
    <2>1. Len(q) \in 1..Len(q) /\ ~(Len(q) <= k) /\ Len(q) - k = Len(l)  BY <1>0, <1>1, <1>3
    <2> QED  BY <1>0, <1>1, <1>3, <2>1
<1>6. \A x \in (k + 1)..Len(q) : x \in 1..Len(q) /\ x - k \in 1..Len(l) /\ q[x] = l[x - k]
    BY <1>0, <1>1, <1>3
<1>7. ASSUME NEW x \in (k + 1)..Len(q)  PROVE base < q[x]
    BY <1>0, <1>1, <1>6
<1>8. ASSUME NEW x \in (k + 1)..Len(q), NEW y \in (k + 1)..Len(q), x < y  PROVE q[x] < q[y]
    <2>1. x - k < y - k  BY <1>0, <1>8
    <2> QED  BY <1>0, <1>1, <1>6, <2>1
<1>9. q \in Seq(Nat) /\ Len(q) > k
    BY <1>0, <1>1, <1>3
<1>10. /\ \A x \in (k + 1)..Len(q) : base < q[x]
       /\ \A x, y \in (k + 1)..Len(q) : x < y => q[x] < q[y]
    BY ONLY <1>7, <1>8
<1> QED  BY ONLY <1>0, <1>4, <1>5, <1>9, <1>10 DEF Ascends

\* Right after a pass has begun nothing of its pieces is done.
LEMMA PlanBegins ==
    ASSUME NEW J, NEW k, NEW q, NEW base, NEW n, Ascends(q, k, base, n), k = 0 => base = 0,
           J.offset = base, Len(J.pieces) = n, saved'.batch = k, saved'.plan = q
    PROVE  PlanRight(J)' /\ Mark(J, saved.batch)' = 0 /\ Due(J)' = {J.pieces[i][1] : i \in 1..n}
<1>0. /\ k \in Nat /\ base \in Nat /\ n \in Nat
      /\ q \in Seq(Nat) /\ Len(q) > k /\ (k > 0 => q[k] = base) /\ q[Len(q)] = base + n
      /\ \A x \in (k + 1)..Len(q) : base < q[x]
      /\ \A x, y \in (k + 1)..Len(q) : x < y => q[x] < q[y]
    BY DEF Ascends
<1>1. Len(q) \in Nat /\ Len(q) > 0
    BY <1>0
<1>2. \A x \in 0..Len(q) : Mark(J, x)' = (IF x = 0 THEN 0 ELSE q[x]) - base
    BY <1>0 DEF Mark
<1>3. Mark(J, k)' = 0
    BY <1>0, <1>1, <1>2
<1>4. Mark(J, saved.batch)' = 0
    BY <1>0, <1>3
<1>5. Mark(J, Len(saved.plan))' = n
    <2>1. PICK z \in 0..Len(q) : z = Len(q)  BY <1>0, <1>1
    <2>2. Mark(J, z)' = q[z] - base /\ q[z] = base + n  BY <1>0, <1>1, <1>2, <2>1
    <2>3. Mark(J, z)' = n  BY <1>0, <2>2
    <2> QED  BY <1>0, <2>1, <2>3
<1>6. \A x \in (k + 1)..Len(q) : q[x] \in Nat /\ x \in 0..Len(q) /\ x # 0
    BY <1>0
<1>7. ASSUME NEW x \in k..Len(q), NEW y \in k..Len(q), x < y  PROVE Mark(J, x)' < Mark(J, y)'
    <2>1. y \in (k + 1)..Len(q) /\ y \in 0..Len(q) /\ y # 0 /\ x \in 0..Len(q)  BY <1>0, <1>7
    <2>2. Mark(J, y)' = q[y] - base /\ q[y] \in Nat /\ base < q[y]  BY <1>0, <1>2, <1>6, <2>1
    <2>3. CASE x = k
        <3>1. Mark(J, x)' = 0  BY <1>3, <2>3
        <3> QED  BY <1>0, <2>2, <3>1
    <2>4. CASE x # k
        <3>1. x \in (k + 1)..Len(q) /\ x # 0  BY <1>0, <2>4
        <3>2. Mark(J, x)' = q[x] - base /\ q[x] \in Nat  BY <1>0, <1>2, <1>6, <2>1, <3>1
        <3>3. q[x] < q[y]  BY <1>0, <1>7, <2>1, <3>1
        <3> QED  BY <1>0, <2>2, <3>2, <3>3
    <2> QED  BY <2>3, <2>4
<1>8. PlanRight(J)'
    <2>1. \A x, y \in saved'.batch..Len(saved'.plan) : x < y => Mark(J, x)' < Mark(J, y)'
        BY <1>0, <1>7
    <2> QED  BY <1>0, <1>4, <1>5, <2>1 DEF PlanRight
<1>9. Ahead(J)' = 1..n
    BY <1>0, <1>4 DEF Ahead
<1> QED  BY <1>0, <1>4, <1>8, <1>9 DEF Due

\* The job a pass has begun, right if its pieces are due.
LEMMA BegunJob ==
    ASSUME PortraitInv, NEW j \in Jobs, Live(j), At(j, "scanned"), ~SourceChanged(j),
           Begin(j), ~Planned(j).complete,
           Offset(j) \in Nat
    PROVE  \E J \in ReadyRecord :
              /\ jobs' = [jobs EXCEPT ![j] = J] /\ J.state = "ready"
              /\ J.born = jobs[j].born /\ J.hw = jobs[j].hw /\ J.rev = jobs[j].rev
              /\ J.from = jobs[j].from /\ J.seen = jobs[j].seen /\ J.offset = Offset(j)
              /\ J.pieces = Pieces(Fresh(j), Skip(j))
              /\ J.rewound <=> jobs[j].taken /\ Resumes(j) /\ saved.batch > 0
<1> DEFINE job == jobs[j]
<1>1. Typed /\ job \in ScanRecord
    BY ScannedIs
<1>2. /\ job.born \in Nat /\ job.hw \in Positions /\ job.rev \in Nat /\ job.from \in Positions
      /\ job.seen \in SUBSET Messages
    BY <1>1 DEF ScanRecord
<1>3. Pieces(Fresh(j), Skip(j)) \in Seq(Parts)
    BY FreshPieces
<1>4. PICK back \in BOOLEAN : back = (job.taken /\ Resumes(j) /\ saved.batch > 0)
    OBVIOUS
<1>5. PICK J \in ReadyRecord :
        J = [state |-> "ready", born |-> job.born, hw |-> job.hw, rev |-> job.rev,
             from |-> job.from, seen |-> job.seen, offset |-> Offset(j),
             pieces |-> Pieces(Fresh(j), Skip(j)), rewound |-> back]
    BY <1>2, <1>3 DEF ReadyRecord
<1>6. jobs' = [jobs EXCEPT ![j] = J]
    BY <1>4, <1>5 DEF Begin
<1>7. J.rewound <=> back
    BY <1>5
<1> QED  BY <1>4, <1>5, <1>6, <1>7

\* A pass that is resumed.
LEMMA ResumeStep ==
    ASSUME PortraitInv, NEW j \in Jobs, Begin(j), Resumes(j)
    PROVE  PortraitInv'
<1> DEFINE job == jobs[j]
           F == Fresh(j)
           k == saved.batch
           base == Offset(j)
<1>1. /\ Live(j) /\ At(j, "scanned") /\ ~SourceChanged(j) /\ saved' = Planned(j)
      /\ ledger' = (IF Planned(j).complete THEN Stamped(Begun(j), job) ELSE Begun(j))
      /\ inventory' = [inventory EXCEPT !.row = job.top, !.pieces = IF job.taken THEN NoPieces ELSE @]
      /\ UNCHANGED <<history, rev, current, suspended, budget, classifier, erased, overlooked>>
    BY DEF Begin, source, settings
<1>2. /\ Typed /\ Kept /\ Rows /\ Prefix /\ job \in ScanRecord /\ ScanRight(job) /\ job.born = erased
      /\ Existing /\ ledger.init /\ RowRight /\ LedgerRight /\ ~saved.complete /\ Unfinished(job.rebuild)
    <2>1. HasRow(job.rebuild) /\ ~saved.complete /\ Unfinished(job.rebuild)
        BY DEF Resumes, Unfinished
    <2> QED  BY <1>1, <2>1, ScannedIs
<1>3. /\ job.top = saved.hw /\ job.reconcile = saved.reconcile /\ job.after = saved.after
      /\ (k > 0 => job.from = saved.anchor.after)
    BY <1>2 DEF ScanRight, After
<1>4. F # {} /\ F \subseteq job.seen /\ job.seen \subseteq Messages
    BY <1>1, FreshIs DEF SourceChanged
<1>5. PICK s : s = Pieces(F, Skip(j))
    OBVIOUS
<1>6. /\ s \in Seq(Parts) /\ Neat(s)
      /\ \A i \in 1..Len(s) : s[i][1] \in F
      /\ \A m \in F : \E i \in 1..Len(s) : s[i][1] = m
      /\ Len(s) # 0 /\ Len(s) \in Nat
    BY <1>1, <1>4, <1>5, FreshPieces
<1>7. PICK first \in F : (\A n \in F : first <= n) /\ s[1] = <<first, Skip(j)>>
    <2>1. \E m \in F : (\A n \in F : m <= n) /\ s[1] = <<m, Skip(j)>>
        BY <1>1, <1>4, <1>5, FreshPieces
    <2> QED  BY <2>1
<1>8. saved \in RowRecord /\ saved.plan \in Seq(Nat) /\ k \in Nat /\ k <= Len(saved.plan)
    BY <1>2, RowIs DEF RowRight
<1>9. base = (IF k > 0 THEN saved.plan[k] ELSE 0) /\ base \in Nat
    BY <1>8 DEF Offset
<1>10. PICK q : q = SubSeq(saved.plan, 1, k) \o Plan(Len(s), base)
    OBVIOUS
<1>11. PICK kk, b, n : kk = k /\ b = base /\ n = Len(s) /\ Ascends(q, kk, b, n)
    <2>1. budget \in Nat \ {0}  BY <1>2 DEF Typed, WorldTyped
    <2>2. PICK kk, b, n, p : kk = k /\ b = base /\ n = Len(s) /\ p = saved.plan  OBVIOUS
    <2>3. n \in Nat /\ n > 0  BY <1>6, <2>2
    <2>4. GoesOn(q, p, kk, b, n)  BY <1>8, <1>9, <1>10, <2>2, <2>3 DEF GoesOn
    <2>5. Ascends(q, kk, b, n)  BY <2>1, <2>4, PlanGoesOn
    <2> QED  BY <2>2, <2>5
<1>12. Planned(j) = [saved EXCEPT !.plan = q]
    BY <1>5, <1>10 DEF Planned
<1>13. /\ saved' \in RowRecord /\ saved'.plan = q
       /\ saved'.hw = saved.hw /\ saved'.after = saved.after /\ saved'.fp = saved.fp
       /\ saved'.batch = saved.batch /\ saved'.complete = saved.complete
       /\ saved'.reconcile = saved.reconcile /\ saved'.anchor = saved.anchor
       /\ saved'.classifier = saved.classifier /\ saved'.since = saved.since
       /\ saved'.merged = saved.merged /\ saved'.pending = saved.pending
    <2>1. saved' = [saved EXCEPT !.plan = q]  BY <1>1, <1>12
    <2>2. q \in Seq(Nat)  BY <1>11 DEF Ascends
    <2> QED  BY ONLY <1>8, <2>1, <2>2 DEF RowRecord
<1>14. ~Planned(j).complete
    BY <1>1, <1>2, <1>13
<1>15. /\ ledger' \in LedgerRecord /\ ledger'.init
       /\ ledger'.done = ledger.done /\ ledger'.part = ledger.part
       /\ ledger'.hash = ledger.hash /\ ledger'.revision = ledger.revision
       /\ ledger'.prefix = ledger.prefix /\ ledger'.hw = ledger.hw
    BY <1>1, <1>14, BegunIs
<1>16. PICK J \in ReadyRecord :
              /\ jobs' = [jobs EXCEPT ![j] = J] /\ J.state = "ready"
              /\ J.born = job.born /\ J.hw = job.hw /\ J.rev = job.rev
              /\ J.from = job.from /\ J.seen = job.seen /\ J.offset = base
              /\ J.pieces = s /\ (J.rewound <=> job.taken /\ k > 0)
    BY <1>1, <1>5, <1>9, <1>14, BegunJob
<1>17. PlanRight(J)' /\ Mark(J, saved.batch)' = 0 /\ Due(J)' = F
    <2>1. /\ J.offset = b /\ Len(J.pieces) = n /\ saved'.batch = kk /\ saved'.plan = q
          /\ kk = 0 => b = 0
        BY <1>9, <1>11, <1>13, <1>16
    <2>5. PlanRight(J)' /\ Mark(J, saved.batch)' = 0 /\ Due(J)' = {J.pieces[i][1] : i \in 1..n}
        BY <1>11, <2>1, PlanBegins
    <2>6. {J.pieces[i][1] : i \in 1..n} = F
        BY <1>6, <1>11, <1>16
    <2> QED  BY <2>5, <2>6
<1>18. WorldTyped' /\ J \in JobRecord
    <2>1. job.top \in Positions  BY <1>2 DEF ScanRecord
    <2>2. /\ inventory' \in InventoryRecord
          /\ \A m \in inventory'.pieces.seen : m <= inventory'.pieces.hw
          /\ inventory'.reader # None => \A m \in inventory'.reader.seen : m <= inventory'.reader.hw
        BY <1>1, <1>2, <2>1, InventoryBegins
    <2> QED  BY <1>1, <1>2, <2>2 DEF Typed, WorldTyped, JobRecord
<1>19. Kept'
    <2>1. saved' # NoRow  BY <1>13, RowExists
    <2> QED  BY <1>1, <1>2, <1>13, <1>15, <2>1 DEF Kept, Existing
<1>20. RowRight'
    <2>1. Len(q) \in Nat /\ Len(q) > k  BY <1>11 DEF Ascends
    <2> QED  BY <1>2, <1>8, <1>13, <2>1 DEF RowRight
<1>21. LedgerRight'
    BY <1>2, <1>13, <1>15 DEF LedgerRight, Within, Replayed, Begins, AnchorRight, Rest, PartRight
<1>22. Prefix'
    BY <1>1, <1>2, <1>15 DEF Prefix, Read
\* Either the pass goes on where the anchor stands, or at its beginning, or it is read again.
<1>23. /\ k = 0 => Begins /\ F = saved.fp /\ Skip(j) = 0
       /\ k > 0 /\ ~job.taken => /\ F = Rest /\ AnchorRight
                                 /\ Skip(j) = IF ledger.part = None THEN 0 ELSE 1
       /\ k > 0 /\ job.taken => AnchorRight /\ Skip(j) = 0 /\ ledger.part # None
    <2>1. k = 0 => Begins /\ F = saved.fp
        BY <1>1, <1>2 DEF LedgerRight, SourceChanged
    <2>2. k > 0 => AnchorRight
        <3>1. k > 0 => k # 0  OBVIOUS
        <3> QED  BY <1>2, <3>1 DEF LedgerRight
    <2>3. k = 0 => ~(k > 0)  OBVIOUS
    <2>4. /\ k > 0 /\ ~job.taken => F = Rest /\ Skip(j) = IF ledger.part = None THEN 0 ELSE 1
          /\ k = 0 \/ job.taken => Skip(j) = 0
        BY <1>1, <2>3, FreshIs
    <2>5. k > 0 /\ job.taken => ledger.part # None
        <3> SUFFICES ASSUME k > 0, job.taken PROVE ledger.part # None  OBVIOUS
        <3>1. job.from = 0 /\ saved.anchor.after = 0  BY <1>2, <1>3 DEF ScanRight
        <3> QED  BY <2>2, <3>1 DEF AnchorRight, PartRight
    <2> QED  BY <2>1, <2>2, <2>4, <2>5
<1>24. J.rewound => Rewound(J)'
    <2> SUFFICES ASSUME job.taken, k > 0 PROVE Rewound(J)'
        BY <1>16
    <2>1. s[1][2] = 0  BY <1>7, <1>23
    <2> QED  BY <1>2, <1>13, <1>15, <1>16, <1>17, <1>23, <2>1 DEF Rewound
<1>25. ~J.rewound => DueRight(J)'
    <2> SUFFICES ASSUME ~(job.taken /\ k > 0) PROVE DueRight(J)'
        BY <1>16
    <2>1. k = 0 \/ (k > 0 /\ ~job.taken)  BY <1>8
    <2>2. saved.fp \subseteq ledger.done \cup F
        BY <1>23, <2>1 DEF AnchorRight
    <2>3. F \cap ledger.done = {}
        <3>1. CASE k = 0
            <4>1. saved.reconcile => F \cap ledger.done = {}
                BY <1>3 DEF Fresh, KnownIds
            <4> QED  BY <1>23, <3>1, <4>1 DEF Begins
        <3>2. CASE k > 0 /\ ~job.taken
            BY <1>23, <3>2 DEF AnchorRight
        <3> QED  BY <2>1, <3>1, <3>2
    <2>4. IF ledger.part = None THEN s[1][2] = 0 ELSE s[1] = ledger.part
        <3>1. CASE k = 0
            BY <1>7, <1>23, <3>1 DEF Begins
        <3>2. CASE k > 0 /\ ~job.taken
            <4>1. CASE ledger.part = None
                BY <1>7, <1>23, <3>2, <4>1
            <4>2. CASE ledger.part # None
                <5>1. /\ ledger.part[1] \in F /\ ledger.part[2] = 1
                      /\ \A x \in F : ledger.part[1] <= x
                    BY <1>23, <3>2, <4>2 DEF AnchorRight, PartRight
                <5>2. ledger.part[1] = first
                    <6>1. first \in Nat /\ ledger.part[1] \in Nat  BY <1>4, <5>1, Numbers
                    <6>2. first <= ledger.part[1] /\ ledger.part[1] <= first  BY <1>7, <5>1
                    <6> QED  BY <6>1, <6>2
                <5>3. ledger.part = <<ledger.part[1], ledger.part[2]>>
                    <6>1. ledger.part \in Parts  BY <1>2, <4>2, LedgerIs
                    <6> QED  BY <6>1, PartIs
                <5>4. s[1] = <<first, 1>>  BY <1>7, <1>23, <3>2, <4>2
                <5> QED  BY <4>2, <5>1, <5>2, <5>3, <5>4
            <4> QED  BY <4>1, <4>2
        <3> QED  BY <2>1, <3>1, <3>2
    <2>5. Continues(J)'
        <3>1. J.pieces[Mark(J, saved.batch)' + 1] = s[1]  BY <1>16, <1>17
        <3> QED  BY <1>15, <2>4, <3>1 DEF Continues
    <2>6. /\ ~saved.reconcile => job.from >= saved.after
          /\ Covers(job, job.from, Read)
        BY <1>2, <1>3 DEF ScanRight
    <2>7. \A m \in job.seen : IF saved.reconcile THEN m \in ledger.done \/ m \in F
                              ELSE m <= saved.after \/ m \in F
        BY <1>1, <1>3, FreshCovers
    <2>8. \A m \in job.seen :
             IF saved.reconcile THEN m \in ledger.done \/ \E i \in 1..Len(s) : s[i][1] = m
             ELSE m <= saved.after \/ \E i \in 1..Len(s) : s[i][1] = m
        BY <1>6, <2>7
    <2>9. ~saved.reconcile => \A i \in 1..Len(s) : s[i][1] > saved.after
        BY <1>3, <1>6 DEF Fresh
    <2>10. rev = job.rev => Upto(history, saved.hw) \subseteq Read \cup F
        BY <1>1, <1>3, FreshCovers
    <2>11. Covers(J, J.from, Read)' /\ Covers(J, saved.hw, Read \cup Due(J))'
        BY <1>1, <1>13, <1>15, <1>16, <1>17, <2>6, <2>10 DEF Covers, Read
    <2> QED  BY <1>13, <1>15, <1>16, <1>17, <2>2, <2>3, <2>5, <2>6, <2>8, <2>9, <2>11 DEF DueRight
<1>26. ReadyRight(J)'
    <2>1. Current(J)'
        BY <1>1, <1>2, <1>15, <1>16 DEF ScanRight, Current
    <2>2. Within(J.seen)'
        BY <1>2, <1>3, <1>13, <1>16 DEF ScanRight, Within
    <2>3. \A i \in 1..Len(s) : s[i][1] \in job.seen
        BY <1>4, <1>6
    <2> QED  BY <1>6, <1>15, <1>16, <1>17, <1>24, <1>25, <2>1, <2>2, <2>3 DEF ReadyRight
<1>27. JobRight(J)'
    BY <1>1, <1>2, <1>16, <1>26 DEF JobRight, Born
<1>28. Rows'
    BY <1>20, <1>21 DEF Rows
<1> QED  BY <1>1, <1>2, <1>13, <1>15, <1>16, <1>18, <1>19, <1>22, <1>27, <1>28, LiveStep

\* A pass that finds nothing new stamps the ledger it begins with.
LEMMA BegunStamped ==
    ASSUME PortraitInv, NEW j \in Jobs, Live(j), At(j, "scanned"),
           jobs[j].top = jobs[j].hw, Fresh(j) = {},
           ledger' = Stamped(Begun(j), jobs[j]), UNCHANGED <<history, rev, overlooked>>
    PROVE  /\ ledger' \in LedgerRecord /\ ledger'.init
           /\ ledger'.done = ledger.done /\ ledger'.part = ledger.part /\ ledger'.hash = ledger.hash
           /\ Prefix'
<1> DEFINE job == jobs[j]
<1>1. Typed /\ Prefix /\ job \in ScanRecord /\ Current(job)
    BY ScannedIs DEF ScanRight
<1>2. job.hw \in Positions /\ job.rev \in Nat /\ rev \in Nat
    BY <1>1 DEF ScanRecord, Typed, WorldTyped
<1>3. PICK l : l = Begun(j)
    OBVIOUS
<1>4. /\ l \in LedgerRecord /\ l.init
      /\ l.done = ledger.done /\ l.part = ledger.part /\ l.hash = ledger.hash
      /\ l.revision = ledger.revision /\ l.prefix = ledger.prefix
    BY <1>3, BegunIs
<1>5. /\ ledger' \in LedgerRecord
      /\ ledger'.init = l.init /\ ledger'.done = l.done /\ ledger'.part = l.part
      /\ ledger'.hash = l.hash /\ ledger'.hw = job.hw
      /\ ledger'.revision = (IF rev = job.rev THEN rev ELSE l.revision)
      /\ ledger'.prefix = (IF rev = job.rev THEN Upto(history, job.hw) ELSE l.prefix)
    BY <1>1, <1>2, <1>3, <1>4, StampedIs
<1>6. rev = job.rev => Upto(history, job.hw) \subseteq Read
    BY FreshCovers
<1>7. Prefix'
    <2>1. ledger.revision \in Nat \cup {None}
        BY <1>1, LedgerIs
    <2>2. CASE rev = job.rev
        BY <1>2, <1>4, <1>5, <1>6, <2>2 DEF Prefix, Read
    <2>3. CASE rev # job.rev
        <3>1. ledger.revision # rev
            BY <1>1, <1>2, <2>1, <2>3, NoneIs DEF Current
        <3> QED  BY <1>1, <1>4, <1>5, <2>3, <3>1 DEF Prefix, Read
    <2> QED  BY <2>2, <2>3
<1> QED  BY <1>4, <1>5, <1>7

\* What a pass that is not resumed starts from.
LEMMA AnewIs ==
    ASSUME PortraitInv, NEW j \in Jobs, Live(j), At(j, "scanned"), ~Resumes(j)
    PROVE  /\ jobs[j].top = jobs[j].hw /\ Skip(j) = 0 /\ Offset(j) = 0
           /\ Finished(jobs[j].rebuild) \/ ~HasRow(jobs[j].rebuild)
           /\ Finished(jobs[j].rebuild) =>
                 /\ Existing /\ ledger.init /\ RowRight /\ LedgerRight /\ saved.complete
                 /\ jobs[j].hw >= saved.hw /\ jobs[j].after = saved.hw
                 /\ jobs[j].hw = saved.hw => jobs[j].reconcile
           /\ ~HasRow(jobs[j].rebuild) => ledger = NoLedger
           /\ ledger.part = None /\ Fresh(j) \cap ledger.done = {}
           /\ \A m \in ledger.done : m <= jobs[j].top
<1> DEFINE job == jobs[j]
<1>1. /\ Typed /\ job \in ScanRecord /\ ScanRight(job)
      /\ HasRow(job.rebuild) => Existing /\ ledger.init /\ RowRight /\ LedgerRight
      /\ ~HasRow(job.rebuild) => ledger = NoLedger
    BY ScannedIs
<1>2. ~Unfinished(job.rebuild) /\ (Finished(job.rebuild) \/ ~HasRow(job.rebuild))
    BY DEF Resumes, Unfinished, Finished
<1>3. job.top = job.hw /\ Skip(j) = 0 /\ Offset(j) = 0
    BY <1>1, <1>2 DEF ScanRight, Skip, Offset
<1>4. ASSUME Finished(job.rebuild)
      PROVE  /\ Existing /\ ledger.init /\ RowRight /\ LedgerRight /\ saved.complete
             /\ job.hw >= saved.hw /\ job.after = saved.hw
             /\ job.hw = saved.hw => job.reconcile
    BY <1>1, <1>2, <1>4 DEF Finished, ScanRight, After
<1>5. ASSUME Finished(job.rebuild)
      PROVE  /\ ledger.part = None /\ Fresh(j) \cap ledger.done = {}
             /\ \A m \in ledger.done : m <= job.top
    <2>1. /\ saved.hw \in Nat /\ job.hw \in Nat /\ ledger.done \subseteq Nat /\ job.seen \subseteq Nat
        BY <1>1, <1>4, <1>5, RowIs, LedgerIs, Numbers DEF ScanRecord
    <2>2. \A m \in ledger.done : m <= saved.hw
        BY <1>4, <1>5 DEF LedgerRight, Within
    <2>3. \A m \in ledger.done : m <= job.top
        BY <1>3, <1>4, <1>5, <2>1, <2>2
    <2>4. Fresh(j) \cap ledger.done = {}
        <3>1. ASSUME NEW m \in Fresh(j), m \in ledger.done  PROVE FALSE
            <4>1. m \in Nat /\ m <= saved.hw  BY <2>1, <2>2, <3>1
            <4>2. ~job.reconcile /\ m > job.after  BY <3>1 DEF Fresh, KnownIds
            <4> QED  BY <1>4, <1>5, <2>1, <4>1, <4>2
        <3> QED  BY <3>1
    <2> QED  BY <1>4, <1>5, <2>3, <2>4 DEF LedgerRight
<1>6. ASSUME ledger = NoLedger
      PROVE  /\ ledger.part = None /\ Fresh(j) \cap ledger.done = {}
             /\ \A m \in ledger.done : m <= job.top
    BY <1>6 DEF NoLedger
<1> QED  BY <1>1, <1>2, <1>3, <1>4, <1>5, <1>6

\* A pass over a finished portrait that finds nothing but what it has recorded.
LEMMA SameStep ==
    ASSUME PortraitInv, NEW j \in Jobs, Begin(j), ~Resumes(j),
           Finished(jobs[j].rebuild), saved.hw = jobs[j].top, saved.fp = Fresh(j)
    PROVE  PortraitInv'
<1> DEFINE job == jobs[j]
<1>1. /\ Live(j) /\ At(j, "scanned")
      /\ inventory' = [inventory EXCEPT !.row = job.top, !.pieces = IF job.taken THEN NoPieces ELSE @]
      /\ UNCHANGED <<history, rev, current, suspended, budget, classifier, erased, overlooked>>
    BY DEF Begin, source, settings
<1>2. Planned(j) = saved
    BY DEF Planned
<1>3. /\ Typed /\ Kept /\ Rows /\ Prefix /\ job \in ScanRecord
    BY <1>1, ScannedIs
<1>4. /\ Existing /\ ledger.init /\ RowRight /\ LedgerRight /\ saved.complete
      /\ job.top = job.hw /\ job.reconcile
    BY <1>1, AnewIs
<1>5. saved' = saved /\ ledger' = Stamped(Begun(j), job) /\ jobs' = [jobs EXCEPT ![j] = [state |-> "done"]]
    BY <1>2, <1>4 DEF Begin
<1>6. Fresh(j) = {}
    <2>1. Fresh(j) \subseteq ledger.done  BY <1>4 DEF LedgerRight
    <2>2. Fresh(j) = job.seen \ ledger.done  BY <1>4 DEF Fresh, KnownIds
    <2> QED  BY <2>1, <2>2
<1>7. /\ ledger' \in LedgerRecord /\ ledger'.init
      /\ ledger'.done = ledger.done /\ ledger'.part = ledger.part /\ ledger'.hash = ledger.hash
      /\ Prefix'
    BY <1>1, <1>4, <1>5, <1>6, BegunStamped
<1>8. PICK J \in OverRecord : J = [state |-> "done"]
    BY EndedIs
<1>9. WorldTyped'
    <2>1. job.top \in Positions  BY <1>3 DEF ScanRecord
    <2>2. /\ inventory' \in InventoryRecord
          /\ \A m \in inventory'.pieces.seen : m <= inventory'.pieces.hw
          /\ inventory'.reader # None => \A m \in inventory'.reader.seen : m <= inventory'.reader.hw
        BY <1>1, <1>3, <2>1, InventoryBegins
    <2> QED  BY <1>1, <1>3, <2>2 DEF Typed, WorldTyped
<1>10. Kept'
    BY <1>1, <1>3, <1>4, <1>5, <1>7 DEF Kept, Existing
<1>11. Rows'
    BY <1>4, <1>5, <1>7 DEF Rows, Existing, RowRight, LedgerRight, Within, Replayed, Begins, AnchorRight,
                            Rest, PartRight
<1>12. saved' \in RowRecord \cup {NoRow}
    BY <1>3, <1>5 DEF Typed
<1> QED  BY <1>1, <1>3, <1>5, <1>7, <1>8, <1>9, <1>10, <1>11, <1>12, OverIsRight, LiveStep

\* Nothing has no order.
LEMMA NothingInOrder == InOrder({}) = <<>>
<1>1. Cardinality({}) = 0
    BY FS_EmptySet
<1>2. InOrder({}) \in Seq({}) /\ Len(InOrder({})) = 0
    <2>1. {} \in SUBSET Nat /\ IsFiniteSet({})  BY FS_EmptySet
    <2> QED  BY <1>1, <2>1, InOrderIs
<1> QED  BY <1>2

\* The plan of a pass from its beginning.
LEMMA PlanAnew ==
    ASSUME budget \in Nat \ {0}, NEW n \in Nat, NEW q, q = Plan(n, 0)
    PROVE  /\ q \in Seq(Nat)
           /\ q = <<>> <=> n = 0
           /\ Len(q) = 0 <=> n = 0
           /\ n > 0 => Ascends(q, 0, 0, n)
<1>1. /\ q \in Seq(Nat)
      /\ n = 0 => q = <<>>
      /\ n > 0 => Len(q) > 0 /\ q[Len(q)] = 0 + n
      /\ \A i \in 1..Len(q) : 0 < q[i]
      /\ \A i, m \in 1..Len(q) : i < m => q[i] < q[m]
    BY PlanIs
<1>2. n > 0 => Ascends(q, 0, 0, n)
    BY <1>1 DEF Ascends
<1>3. q = <<>> => Len(q) = 0
    OBVIOUS
<1>4. n = 0 \/ n > 0
    OBVIOUS
<1>5. Len(q) \in Nat /\ (n = 0 => Len(q) = 0)
    BY <1>1
<1> QED  BY <1>1, <1>2, <1>3, <1>4, <1>5

\* The row of a new pass, the ledger saying what it said before.
LEMMA AnewRow ==
    ASSUME PortraitInv, NEW j \in Jobs, Live(j), At(j, "scanned"), ~Resumes(j),
           ~(/\ Finished(jobs[j].rebuild) /\ saved.hw = jobs[j].top /\ saved.fp = Fresh(j)),
           NEW s, s = Pieces(Fresh(j), 0), NEW q, q = Plan(Len(s), 0), saved' = Planned(j),
           UNCHANGED <<history, rev, current, suspended, budget, classifier, erased, overlooked>>,
           ledger' \in LedgerRecord, ledger'.init,
           ledger'.done = ledger.done, ledger'.part = ledger.part, ledger'.hash = ledger.hash
    PROVE  /\ Kept' /\ Rows' /\ saved' \in RowRecord
           /\ saved'.hw = jobs[j].top /\ saved'.after = jobs[j].after /\ saved'.fp = Fresh(j)
           /\ saved'.plan = q /\ saved'.batch = 0 /\ saved'.reconcile = jobs[j].reconcile
           /\ saved'.complete <=> Fresh(j) = {}
           /\ Fresh(j) # {} => Ascends(q, 0, 0, Len(s)) /\ s[1][2] = 0
           /\ s \in Seq(Parts) /\ Neat(s)
           /\ \A i \in 1..Len(s) : s[i][1] \in Fresh(j)
           /\ \A m \in Fresh(j) : \E i \in 1..Len(s) : s[i][1] = m
<1> DEFINE job == jobs[j]
           F == Fresh(j)
<1>1. /\ Typed /\ Kept /\ Rows /\ Prefix /\ job \in ScanRecord /\ ScanRight(job) /\ job.born = erased
    BY ScannedIs
<1>2. /\ job.top \in Positions /\ job.after \in Positions /\ job.reconcile \in BOOLEAN
      /\ job.born \in Nat /\ job.seen \subseteq Messages /\ classifier \in Nat
      /\ budget \in Nat \ {0} /\ ledger.done \subseteq Messages
    BY <1>1, LedgerIs DEF ScanRecord, Typed, WorldTyped
<1>3. /\ job.top = job.hw /\ Skip(j) = 0 /\ Offset(j) = 0
      /\ Finished(job.rebuild) \/ ~HasRow(job.rebuild)
      /\ Finished(job.rebuild) =>
            Existing /\ ledger.init /\ RowRight /\ LedgerRight /\ saved.complete
      /\ ~HasRow(job.rebuild) => ledger = NoLedger
      /\ ledger.part = None /\ F \cap ledger.done = {}
      /\ \A m \in ledger.done : m <= job.top
    BY AnewIs
<1>4. F \subseteq Messages
    BY <1>2 DEF Fresh
<1>5. /\ s \in Seq(Parts) /\ Neat(s)
      /\ \A i \in 1..Len(s) : s[i][1] \in F
      /\ \A m \in F : \E i \in 1..Len(s) : s[i][1] = m
      /\ F = {} <=> Len(s) = 0
      /\ F # {} => \E m \in F : (\A n \in F : m <= n) /\ s[1] = <<m, 0>>
    <2>1. s = Pieces(Fresh(j), Skip(j)) /\ ~SourceChanged(j)
        BY <1>3 DEF SourceChanged
    <2>2. /\ s \in Seq(Parts) /\ Neat(s)
          /\ \A i \in 1..Len(s) : s[i][1] \in Fresh(j)
          /\ \A m \in Fresh(j) : \E i \in 1..Len(s) : s[i][1] = m
          /\ Fresh(j) = {} <=> Len(s) = 0
          /\ Fresh(j) # {} => \E m \in Fresh(j) : (\A n \in Fresh(j) : m <= n) /\ s[1] = <<m, Skip(j)>>
        BY <2>1, FreshPieces
    <2> QED  BY <1>3, <2>2
<1>6. PICK n \in Nat : n = Len(s)
    BY <1>5
<1>7. /\ q \in Seq(Nat) /\ (q = <<>> <=> F = {}) /\ (Len(q) = 0 <=> F = {})
      /\ F # {} => Ascends(q, 0, 0, Len(s))
    <2>1. /\ q \in Seq(Nat) /\ (q = <<>> <=> n = 0) /\ (Len(q) = 0 <=> n = 0)
          /\ n > 0 => Ascends(q, 0, 0, n)
        BY <1>2, <1>6, PlanAnew
    <2>2. n > 0 <=> F # {}  BY <1>5, <1>6
    <2> QED  BY <1>5, <1>6, <2>1, <2>2
<1>8. F # {} => s[1][2] = 0
    BY <1>5
<1>9. PICK mg : mg = IF HasRow(job.rebuild) THEN saved.merged ELSE <<>>
    OBVIOUS
<1>10. mg \in Seq(Messages) /\ mg = Replayed
    <2>1. CASE Finished(job.rebuild)
        <3>1. HasRow(job.rebuild)  BY <2>1 DEF Finished
        <3> QED  BY <1>1, <1>3, <1>9, <2>1, <3>1, RowIs DEF LedgerRight
    <2>2. CASE ~HasRow(job.rebuild)
        <3>1. ledger.done \cap Theirs = {}  BY <1>3, <2>2 DEF NoLedger
        <3>2. mg = <<>>  BY <1>9, <2>2
        <3>3. mg = Replayed  BY <3>1, <3>2, NothingInOrder DEF Replayed
        <3>4. <<>> \in Seq(Messages)  OBVIOUS
        <3> QED  BY <3>2, <3>3, <3>4
    <2> QED  BY <1>3, <2>1, <2>2
<1>11. ledger.hash \in {<<>>, <<mg, None>>}
    <2>1. CASE Finished(job.rebuild)
        <3>1. HasRow(job.rebuild)  BY <2>1 DEF Finished
        <3> QED  BY <1>3, <1>9, <2>1, <3>1 DEF LedgerRight, RowRight
    <2>2. CASE ~HasRow(job.rebuild)
        BY <1>3, <2>2 DEF NoLedger
    <2> QED  BY <1>3, <2>1, <2>2
<1>12. PICK full \in BOOLEAN : full = (q = <<>>)
    OBVIOUS
<1>13. Planned(j) =
        [hw |-> job.top, after |-> job.after, fp |-> F, plan |-> q,
         batch |-> 0, complete |-> full, reconcile |-> job.reconcile,
         anchor |-> Start0, classifier |-> classifier, since |-> job.born,
         merged |-> mg, pending |-> None]
    <2>1. Pieces(Fresh(j), Skip(j)) = s /\ Plan(Len(s), Offset(j)) = q  BY <1>3
    <2> QED  BY <1>9, <1>12, <2>1 DEF Planned
<1>14. Start0 \in AnchorRecord
    BY DEF Start0, AnchorRecord, Positions
<1>15. PICK r \in RowRecord :
        r = [hw |-> job.top, after |-> job.after, fp |-> F, plan |-> q,
             batch |-> 0, complete |-> full, reconcile |-> job.reconcile,
             anchor |-> Start0, classifier |-> classifier, since |-> job.born,
             merged |-> mg, pending |-> None]
    <2>1. PICK top, after, fp, rec, start, cl, born :
            /\ top = job.top /\ after = job.after /\ fp = F /\ rec = job.reconcile
            /\ start = Start0 /\ cl = classifier /\ born = job.born
        OBVIOUS
    <2>2. /\ top \in Positions /\ after \in Positions /\ fp \in SUBSET Messages
          /\ start \in AnchorRecord /\ cl \in Nat /\ born \in Nat
          /\ mg \in Seq(Messages) /\ q \in Seq(Nat)
        BY ONLY <1>2, <1>4, <1>7, <1>10, <1>14, <2>1
    <2>4. rec \in BOOLEAN /\ full \in BOOLEAN  BY <1>2, <2>1
    <2>5. /\ top \in Positions /\ after \in Positions /\ fp \in SUBSET Messages /\ rec \in BOOLEAN
          /\ start \in AnchorRecord /\ cl \in Nat /\ born \in Nat /\ full \in BOOLEAN
          /\ mg \in Seq(Messages) /\ q \in Seq(Nat) /\ None \in Parts \cup {None} /\ 0 \in Nat
        BY ONLY <2>2, <2>4
    <2>3. [hw |-> top, after |-> after, fp |-> fp, plan |-> q, batch |-> 0, complete |-> full,
           reconcile |-> rec, anchor |-> start, classifier |-> cl, since |-> born,
           merged |-> mg, pending |-> None] \in RowRecord
        BY ONLY <2>5 DEF RowRecord
    <2> QED  BY <2>1, <2>3
<1>16. saved' = r
    BY <1>13, <1>15
<1>17. /\ r.hw = job.top /\ r.after = job.after /\ r.fp = F /\ r.plan = q /\ r.batch = 0
       /\ r.reconcile = job.reconcile /\ r.classifier = classifier /\ r.since = job.born
       /\ r.merged = mg /\ r.pending = None
    BY <1>15
<1>18. r.complete <=> F = {}
    <2>1. r.complete = full  BY <1>15
    <2> QED  BY <1>7, <1>12, <2>1
<1>19. Kept'
    BY <1>1, <1>15, <1>16, <1>17, RowExists DEF Kept, Existing
<1>20. RowRight'
    BY <1>7, <1>16, <1>17, <1>18 DEF RowRight
<1>21. LedgerRight'
    <2>1. saved'.merged = Replayed'  BY <1>10, <1>16, <1>17 DEF Replayed
    <2>2. Within(ledger.done)'  BY <1>3, <1>16, <1>17 DEF Within
    <2>3. Begins' /\ ledger'.part = None /\ (saved'.complete => saved'.fp \subseteq ledger'.done)
        BY <1>3, <1>16, <1>17, <1>18 DEF Begins
    <2>4. ledger'.hash \in {<<>>, <<saved'.merged, saved'.pending>>} /\ saved'.pending = None /\ saved'.batch = 0
        BY <1>11, <1>16, <1>17
    <2> QED  BY <2>1, <2>2, <2>3, <2>4 DEF LedgerRight
<1>22. Rows'
    BY <1>20, <1>21 DEF Rows
<1> QED  BY <1>5, <1>7, <1>8, <1>16, <1>17, <1>18, <1>19, <1>22

\* A pass over a range of its own.
LEMMA AnewStep ==
    ASSUME PortraitInv, NEW j \in Jobs, Begin(j), ~Resumes(j),
           ~(/\ Finished(jobs[j].rebuild) /\ saved.hw = jobs[j].top /\ saved.fp = Fresh(j))
    PROVE  PortraitInv'
<1> DEFINE job == jobs[j]
           F == Fresh(j)
<1>1. /\ Live(j) /\ At(j, "scanned") /\ ~SourceChanged(j) /\ saved' = Planned(j)
      /\ ledger' = (IF Planned(j).complete THEN Stamped(Begun(j), job) ELSE Begun(j))
      /\ inventory' = [inventory EXCEPT !.row = job.top, !.pieces = IF job.taken THEN NoPieces ELSE @]
      /\ UNCHANGED <<history, rev, current, suspended, budget, classifier, erased, overlooked>>
    BY DEF Begin, source, settings
<1>2. /\ Typed /\ Kept /\ Rows /\ Prefix /\ job \in ScanRecord /\ ScanRight(job) /\ job.born = erased
    BY <1>1, ScannedIs
<1>3. /\ job.top = job.hw /\ Skip(j) = 0 /\ Offset(j) = 0
      /\ ledger.part = None /\ F \cap ledger.done = {}
    BY <1>1, AnewIs
<1>4. WorldTyped'
    <2>1. job.top \in Positions  BY <1>2 DEF ScanRecord
    <2>2. /\ inventory' \in InventoryRecord
          /\ \A m \in inventory'.pieces.seen : m <= inventory'.pieces.hw
          /\ inventory'.reader # None => \A m \in inventory'.reader.seen : m <= inventory'.reader.hw
        BY <1>1, <1>2, <2>1, InventoryBegins
    <2> QED  BY <1>1, <1>2, <2>2 DEF Typed, WorldTyped
<1>5. PICK s, q : s = Pieces(F, 0) /\ q = Plan(Len(s), 0)
    OBVIOUS
<1>6. Planned(j).complete <=> F = {}
    <2>1. Planned(j).complete = (q = <<>>)
        BY <1>3, <1>5 DEF Planned
    <2>2. s \in Seq(Parts) /\ (F = {} <=> Len(s) = 0)
        <3>1. s = Pieces(Fresh(j), Skip(j))  BY <1>3, <1>5
        <3> QED  BY <1>1, <3>1, FreshPieces
    <2>3. PICK n \in Nat : n = Len(s)  BY <2>2
    <2>4. q = <<>> <=> n = 0
        <3>1. budget \in Nat \ {0}  BY <1>2 DEF Typed, WorldTyped
        <3> QED  BY <1>5, <2>3, <3>1, PlanAnew
    <2> QED  BY <2>1, <2>2, <2>3, <2>4
<1>7. /\ ledger' \in LedgerRecord /\ ledger'.init
      /\ ledger'.done = ledger.done /\ ledger'.part = ledger.part /\ ledger'.hash = ledger.hash
      /\ Prefix'
      /\ F # {} => ledger'.revision = ledger.revision
    <2>1. CASE F = {}
        <3>1. ledger' = Stamped(Begun(j), job)  BY <1>1, <1>6, <2>1
        <3> QED  BY <1>1, <1>3, <2>1, <3>1, BegunStamped
    <2>2. CASE F # {}
        <3>1. ledger' = Begun(j)  BY <1>1, <1>6, <2>2
        <3>2. /\ ledger' \in LedgerRecord /\ ledger'.init
              /\ ledger'.done = ledger.done /\ ledger'.part = ledger.part /\ ledger'.hash = ledger.hash
              /\ ledger'.revision = ledger.revision
              /\ ledger'.prefix = ledger.prefix /\ ledger'.hw = ledger.hw
            BY <1>1, <3>1, BegunIs
        <3> QED  BY <1>1, <1>2, <3>2 DEF Prefix, Read
    <2> QED  BY <2>1, <2>2
<1>8. /\ Kept' /\ Rows' /\ saved' \in RowRecord
      /\ saved'.hw = job.top /\ saved'.after = job.after /\ saved'.fp = F
      /\ saved'.plan = q /\ saved'.batch = 0 /\ saved'.reconcile = job.reconcile
      /\ saved'.complete <=> F = {}
      /\ F # {} => Ascends(q, 0, 0, Len(s)) /\ s[1][2] = 0
      /\ s \in Seq(Parts) /\ Neat(s)
      /\ \A i \in 1..Len(s) : s[i][1] \in F
      /\ \A m \in F : \E i \in 1..Len(s) : s[i][1] = m
    BY <1>1, <1>5, <1>7, AnewRow
<1>9. CASE F = {}
    <2>1. jobs' = [jobs EXCEPT ![j] = [state |-> "done"]]
        BY <1>6, <1>9 DEF Begin
    <2>2. PICK J \in OverRecord : J = [state |-> "done"]
        BY EndedIs
    <2> QED  BY <1>1, <1>2, <1>4, <1>7, <1>8, <2>1, <2>2, OverIsRight, LiveStep
<1>10. CASE F # {}
    <2>1. PICK J \in ReadyRecord :
              /\ jobs' = [jobs EXCEPT ![j] = J] /\ J.state = "ready"
              /\ J.born = job.born /\ J.hw = job.hw /\ J.rev = job.rev
              /\ J.from = job.from /\ J.seen = job.seen /\ J.offset = 0
              /\ J.pieces = s /\ ~J.rewound
        <3>1. ~Planned(j).complete /\ Offset(j) \in Nat  BY <1>3, <1>6, <1>10
        <3>2. \E J \in ReadyRecord :
                  /\ jobs' = [jobs EXCEPT ![j] = J] /\ J.state = "ready"
                  /\ J.born = jobs[j].born /\ J.hw = jobs[j].hw /\ J.rev = jobs[j].rev
                  /\ J.from = jobs[j].from /\ J.seen = jobs[j].seen /\ J.offset = Offset(j)
                  /\ J.pieces = Pieces(Fresh(j), Skip(j))
                  /\ J.rewound <=> jobs[j].taken /\ Resumes(j) /\ saved.batch > 0
            BY <1>1, <3>1, BegunJob
        <3> QED  BY <1>3, <1>5, <3>2
    <2>2. PlanRight(J)' /\ Mark(J, saved.batch)' = 0 /\ Due(J)' = F
        <3>1. PICK n : n = Len(s) /\ Ascends(q, 0, 0, n)  BY <1>8, <1>10
        <3>2. J.offset = 0 /\ Len(J.pieces) = n /\ saved'.batch = 0 /\ saved'.plan = q
            BY <1>8, <2>1, <3>1
        <3>3. PlanRight(J)' /\ Mark(J, saved.batch)' = 0 /\ Due(J)' = {J.pieces[i][1] : i \in 1..n}
            BY <3>1, <3>2, PlanBegins
        <3>4. {J.pieces[i][1] : i \in 1..n} = F
            BY <1>8, <2>1, <3>1
        <3> QED  BY <3>3, <3>4
    <2>3. Continues(J)'
        <3>1. J.pieces[Mark(J, saved.batch)' + 1] = s[1]  BY <2>1, <2>2
        <3> QED  BY <1>3, <1>7, <1>8, <1>10, <3>1 DEF Continues
    <2>4. \A m \in job.seen :
             IF job.reconcile THEN m \in ledger.done \/ \E i \in 1..Len(s) : s[i][1] = m
             ELSE m <= job.after \/ \E i \in 1..Len(s) : s[i][1] = m
        <3>1. \A m \in job.seen : IF job.reconcile THEN m \in ledger.done \/ m \in F
                                  ELSE m <= job.after \/ m \in F
            BY <1>1, FreshCovers
        <3> QED  BY <1>8, <3>1
    <2>5. ~job.reconcile => \A i \in 1..Len(s) : s[i][1] > job.after
        BY <1>8 DEF Fresh
    <2>6. Covers(J, J.from, Read)' /\ Covers(J, saved.hw, Read \cup Due(J))'
        <3>1. rev = job.rev => Upto(history, job.top) \subseteq Read \cup F
            BY <1>1, FreshCovers
        <3>2. Covers(job, job.from, Read)
            BY <1>2 DEF ScanRight
        <3> QED  BY <1>1, <1>7, <1>8, <2>1, <2>2, <3>1, <3>2 DEF Covers, Read
    <2>7. DueRight(J)'
        <3>1. ~job.reconcile => job.from >= job.after
            BY <1>2 DEF ScanRight
        <3> QED  BY <1>3, <1>7, <1>8, <2>1, <2>2, <2>3, <2>4, <2>5, <2>6, <3>1 DEF DueRight
    <2>8. ReadyRight(J)'
        <3>1. Current(J)'
            BY <1>1, <1>2, <1>7, <1>10, <2>1 DEF ScanRight, Current
        <3>2. Within(J.seen)'
            BY <1>2, <1>8, <2>1 DEF ScanRight, Within
        <3>3. \A i \in 1..Len(s) : s[i][1] \in job.seen
            BY <1>8 DEF Fresh
        <3> QED  BY <1>7, <1>8, <2>1, <2>2, <2>7, <3>1, <3>2, <3>3 DEF ReadyRight
    <2>9. JobRight(J)' /\ J \in JobRecord
        BY <1>1, <1>2, <2>1, <2>8 DEF JobRight, Born, JobRecord
    <2> QED  BY <1>1, <1>2, <1>4, <1>7, <1>8, <2>1, <2>9, LiveStep
<1> QED  BY <1>9, <1>10

\* A pass begins, resumed, the same as before, or anew.
LEMMA BeginStep ==
    ASSUME PortraitInv, NEW j \in Jobs, Begin(j)
    PROVE  PortraitInv'
BY ResumeStep, SameStep, AnewStep

-----------------------------------------------------------------------------
(* The portrait *)

\* Nothing is saved at the start.
LEMMA InitHolds ==
    ASSUME PortraitInit
    PROVE  PortraitInv
<1>1. Present \subseteq Messages /\ Budgets \subseteq Nat \ {0} /\ 0 \in Positions
    BY PortraitAssumption DEF Positions
<1>2. inventory \in InventoryRecord /\ inventory.pieces.seen = {} /\ inventory.reader = None
    BY DEF PortraitInit, InventoryRecord, NoPieces, PiecesRecord
<1>3. \A j \in Jobs : jobs[j] = NoJob
    BY DEF PortraitInit
<1>4. NoJob \in OverRecord
    BY DEF NoJob, OverRecord
<1>5. WorldTyped
    BY <1>1, <1>2 DEF WorldTyped, PortraitInit
<1>6. Typed
    <2>1. jobs \in [Jobs -> JobRecord]
        BY <1>4, OverIsRight DEF PortraitInit
    <2>2. saved \in RowRecord \cup {NoRow} /\ ledger \in LedgerRecord /\ current \in {0} \cup Jobs
        BY NoLedgerIs DEF PortraitInit
    <2> QED  BY <1>5, <2>1, <2>2 DEF Typed
<1>7. ~Existing /\ ~ledger.init /\ ledger = NoLedger
    BY NoLedgerIs DEF PortraitInit, Existing
<1>8. Kept /\ Rows
    BY <1>7 DEF Kept, Rows, PortraitInit
<1>9. Prefix
    <2>1. ledger.prefix = None /\ ledger.revision = None  BY <1>7 DEF NoLedger
    <2>2. rev # None  BY NoneIs DEF PortraitInit
    <2> QED  BY <2>1, <2>2 DEF Prefix
<1>10. LiveRight
    BY <1>3, <1>4, OverIsRight DEF LiveRight
<1> QED  BY <1>6, <1>8, <1>9, <1>10 DEF PortraitInv

\* Every step keeps PortraitInv.
LEMMA StepKeeps ==
    ASSUME PortraitInv, [PortraitNext]_portraitVars
    PROVE  PortraitInv'
<1>1. ASSUME NEW j \in Jobs,
             \/ Look(j) \/ UpToDate(j) \/ Shrunk(j) \/ Weigh(j)
             \/ TakePieces(j) \/ ReadPage(j) \/ Refuse(j) \/ Begin(j)
             \/ Ask(j) \/ CallFails(j) \/ StateInvalid(j) \/ Commit(j)
             \/ Finish(j) \/ Stop(j)
      PROVE  PortraitInv'
    BY <1>1, LookStep, UpToDateStep, ShrunkStep, WeighStep, TakePiecesStep, ReadPageStep, BeginStep,
       AskStep, StateInvalidStep, CommitStep, FinishStep, StopStep
<1>2. CASE UNCHANGED portraitVars
    BY <1>2 DEF portraitVars, PortraitInv, Typed, WorldTyped, Kept, Rows, Prefix, LiveRight, Existing,
                RowRight, LedgerRight, Within, Replayed, Begins, AnchorRight, Rest, PartRight, Read,
                Live, JobRight, Born, Rebuilds, ScanRight, Current, After, Unfinished, Finished, HasRow,
                Covers, ReadyRight, PlanRight, Mark, Due, Ahead, Rewound, DueRight, Continues, Reconciles,
                PrefixChanged
<1>3. CASE \E m \in Messages : Arrive(m) \/ Vanish(m)
    BY <1>3, MoveStep
<1>4. CASE RequestPortrait \/ OpenPortrait \/ CountPage \/ PiecesExpire
    BY <1>4, RequestStep, InventoryStep
<1>5. CASE Switch \/ Reset \/ Suspend \/ Clear \/ Restart
    BY <1>5, LeaveStep, ErasedStep, RestartStep
<1> QED  BY <1>1, <1>2, <1>3, <1>4, <1>5 DEF PortraitNext

\* In every state the row, its ledger and the registered job fit together:
\* what was merged is what the ledger replays, and what the job has still to
\* read is what neither has (PortraitInv).
THEOREM PortraitInductive == PortraitSpec => []PortraitInv
<1>1. PortraitInit => PortraitInv
    BY InitHolds
<1>2. PortraitInv /\ [PortraitNext]_portraitVars => PortraitInv'
    BY StepKeeps
<1> QED  BY <1>1, <1>2, PTL DEF PortraitSpec

\* The types of the variables.
LEMMA PortraitTypes ==
    ASSUME PortraitInv
    PROVE  PortraitTypeOK
<1>1. Typed /\ Rows
    BY DEF PortraitInv
<1>2. /\ history \subseteq Messages /\ rev \in Nat /\ overlooked \subseteq Messages
      /\ ledger.done \subseteq Messages
    BY <1>1, LedgerIs DEF Typed, WorldTyped
<1>3. current \in 0..MaxJobs
    <2>1. MaxJobs \in Nat  BY PortraitAssumption
    <2> QED  BY <1>1, <2>1 DEF Typed, Jobs
<1>4. Existing => saved.batch \in 0..Len(saved.plan) /\ saved.hw \in {0} \cup Messages
    <2> SUFFICES ASSUME Existing
                 PROVE  saved.batch \in 0..Len(saved.plan) /\ saved.hw \in {0} \cup Messages
        OBVIOUS
    <2>1. /\ saved.hw \in Positions /\ saved.plan \in Seq(Nat) /\ saved.batch \in Nat
          /\ saved.batch <= Len(saved.plan)
        BY <1>1, RowIs DEF Rows, RowRight
    <2> QED  BY <2>1 DEF Positions
<1>5. ASSUME NEW j \in Jobs
      PROVE  jobs[j].state \in {"none", "queued", "looked", "scanning", "scanned",
                                "ready", "asking", "done", "error"}
    <2>1. jobs[j] \in JobRecord  BY <1>1 DEF Typed
    <2> QED  BY <2>1 DEF JobRecord, OverRecord, LookedRecord, ScanRecord, ReadyRecord
<1> QED  BY <1>2, <1>3, <1>4, <1>5 DEF PortraitTypeOK

\* PortraitInv implies PaidOnce.
LEMMA PaidOnceHolds ==
    ASSUME PortraitInv
    PROVE  PaidOnce
<1>1. Typed /\ Rows
    BY DEF PortraitInv
<1>2. ASSUME Existing, ~Rebuilds
      PROVE  /\ saved.merged = Replayed
             /\ saved.pending # None => saved.pending = ledger.part
             /\ ledger.hash \in {<<>>, <<saved.merged, saved.pending>>}
    BY <1>1, <1>2 DEF Rebuilds, Rows, LedgerRight
<1>3. ASSUME NEW j \in Jobs, At(j, "error"), "rewound" \in DOMAIN jobs[j]
      PROVE  jobs[j].rewound
    <2>1. jobs[j] \in OverRecord
        <3>1. jobs[j] \in JobRecord  BY <1>1 DEF Typed
        <3> QED  BY <1>3, <3>1 DEF JobRecord, LookedRecord, ScanRecord, ReadyRecord, At
    <2>2. ASSUME jobs[j] \in [state : {"none", "done", "error"}]  PROVE FALSE
        <3>1. DOMAIN jobs[j] = {"state"}  BY <2>2
        <3> QED  BY <1>3, <3>1
    <2>3. jobs[j] \in [state : {"error"}, rewound : {TRUE}]
        BY <2>1, <2>2 DEF OverRecord
    <2>4. jobs[j].rewound \in {TRUE}
        BY <2>3
    <2> QED  BY <2>4
<1>4. ASSUME NEW j \in Jobs, At(j, "asking"), Live(j), ~jobs[j].rewound
      PROVE  ~Unfit(Batch(j)) /\ \A p \in ToSet(Batch(j)) : p[1] \notin ledger.done
    BY <1>4, FitIs
<1> QED  BY <1>2, <1>3, <1>4, PortraitTypes DEF PaidOnce

\* The statistics shown are the ledger's classifications in their true order,
\* and no batch is paid for that the ledger then refuses or already has.
THEOREM PaidOnceAlways == PortraitSpec => []PaidOnce
BY PortraitInductive, PaidOnceHolds, PTL

\* PortraitInv implies CompleteIsTrue.
LEMMA CompleteIsTrueHolds ==
    ASSUME PortraitInv
    PROVE  CompleteIsTrue
<1> SUFFICES ASSUME Shown.dataStatus = "analyzed"
             PROVE  /\ Shown.batches[1] = Shown.batches[2]
                    /\ ledger.hw >= saved.hw => Upto(history, saved.hw) \ ledger.done \subseteq overlooked
    BY DEF CompleteIsTrue
<1>1. Typed /\ Kept /\ Rows /\ Prefix
    BY DEF PortraitInv
<1>2. Existing /\ saved.complete /\ StillCurrent
    BY DEF Shown
<1>3. saved.batch = Len(saved.plan) /\ saved.hw \in Positions
    BY <1>1, <1>2, RowIs DEF Rows, RowRight
<1>4. Shown.batches[1] = Shown.batches[2]
    BY <1>2, <1>3 DEF Shown
<1>5. ASSUME ledger.hw >= saved.hw, NEW m \in Upto(history, saved.hw), m \notin ledger.done
      PROVE  m \in overlooked
    <2>1. /\ m \in history /\ m <= saved.hw /\ m \in Nat \ {0} /\ saved.hw \in Nat /\ ledger.hw \in Nat
        BY <1>1, <1>3, <1>5, LedgerIs, Numbers DEF Typed, WorldTyped, Upto, Positions
    <2>2. m \in Upto(history, ledger.hw)
        <3>1. m <= ledger.hw  BY <1>5, <2>1
        <3> QED  BY <2>1, <3>1 DEF Upto
    <2>3. ledger.init
        <3> SUFFICES ASSUME ~ledger.init PROVE FALSE  OBVIOUS
        <3>1. ledger.hw = 0  BY <1>1 DEF Kept, NoLedger
        <3> QED  BY <1>5, <2>1, <3>1
    <2>4. Upto(history, ledger.hw) = ledger.prefix
        BY <1>1, <1>2, <2>3 DEF StillCurrent, Prefix
    <2>5. ledger.prefix # None
        <3>1. Upto(history, ledger.hw) \in SUBSET Messages
            BY <1>1 DEF Typed, WorldTyped, Upto
        <3> QED  BY <2>4, <3>1, NoneIs
    <2>6. m \in Read
        BY <1>1, <2>2, <2>4, <2>5 DEF Prefix
    <2> QED  BY <1>5, <2>6 DEF Read
<1> QED  BY <1>4, <1>5

\* A portrait reported complete covers every message the history holds up to
\* its highwater, except what overlooked counts, and has no batches left.
THEOREM CompleteIsTrueAlways == PortraitSpec => []CompleteIsTrue
BY PortraitInductive, CompleteIsTrueHolds, PTL

\* A job that was running when its portrait was reset or cleared writes
\* nothing into the portrait begun afterwards.
THEOREM ErasedStaysErasedAlways == PortraitSpec => []ErasedStaysErased
<1>1. PortraitInv => ErasedStaysErased
    BY DEF PortraitInv, Kept, ErasedStaysErased
<1> QED  BY <1>1, PortraitInductive, PTL

==============================================================================
