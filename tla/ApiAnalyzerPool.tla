--------------------------- MODULE ApiAnalyzerPool ---------------------------
(***************************************************************************)
(* The pool that hands out API analyzers (src/bridge/api_pool.py): a FIFO  *)
(* of waiting tickets per lane, a shared lane whose size adapts to provider *)
(* rate limits, two dedicated one-slot lanes, a generation that makes the  *)
(* tickets of an old model source worthless, and a one-way closed flag.    *)
(*                                                                         *)
(* A client is a thread inside `lease` or `dedicated`.  Each critical      *)
(* section of the condition is one action; what happens between two of     *)
(* them (the caller's validation callbacks, the provider turn) is where    *)
(* the other clients, `invalidate`, `configure` and `close_extras` step in. *)
(***************************************************************************)
EXTENDS Integers, FiniteSets

CONSTANTS
    Clients,        \* threads that lease analyzers
    MaxWorkers,     \* MAX_API_WORKERS
    RateStreak,     \* API_RATE_LIMIT_STREAK
    Recover,        \* API_RATE_LIMIT_RECOVER
    Dedicated,      \* the keys of dedicated_active: "portrait" and "probe"
    MaxGeneration   \* bound: how many times the model source is switched

ASSUME PoolAssumption ==
    /\ IsFiniteSet(Clients)
    /\ MaxWorkers \in Nat \ {0}
    /\ RateStreak \in Nat \ {0}
    /\ Recover \in Nat \ {0}
    /\ "shared" \notin Dedicated
    /\ MaxGeneration \in Nat

VARIABLES
    maximum, limit,          \* the configured ceiling and the adapted limit
    slots,                   \* Len(entries); slot 0 is the primary analyzer
    busy,                    \* the slots whose busy flag is set
    active,                  \* the counter of shared leases
    dedicated_active,        \* 0 or 1 for each dedicated lane
    rate_limit_streak, clean_streak,
    generation, closed,
    cancelling,              \* slots that a running invalidate has yet to cancel
    pc,                      \* where each client stands
    lane,                    \* the lane it asked for
    ahead,                   \* the tickets queued before its own
    ticketGen,               \* the generation its ticket captured
    index,                   \* the slot it was given (shared lane)
    beganIn,                 \* history: the generation in which its turn began
    killed                   \* its turn was cancelled under it

poolVars == <<maximum, limit, slots, busy, active, dedicated_active>>
tuneVars == <<rate_limit_streak, clean_streak>>
epochVars == <<generation, closed, cancelling>>
clientVars == <<pc, lane, ahead, ticketGen, index, beganIn, killed>>
vars == <<poolVars, tuneVars, epochVars, clientVars>>

Lanes == {"shared"} \cup Dedicated

\* The clients that hold capacity of a lane: from the grant to the release.
HoldingPc == {"granted", "leased", "turn"}
HoldersOf(l) == {c \in Clients : pc[c] \in HoldingPc /\ lane[c] = l}
Holders == HoldersOf("shared")
Waiting(l) == {c \in Clients : pc[c] = "waiting" /\ lane[c] = l}

TypeOK ==
    /\ maximum \in 1..MaxWorkers
    /\ limit \in 1..maximum
    /\ slots \in 1..MaxWorkers
    /\ busy \in SUBSET (0..(MaxWorkers - 1))
    /\ active \in 0..MaxWorkers
    /\ dedicated_active \in [Dedicated -> 0..1]
    /\ rate_limit_streak \in 0..(RateStreak - 1)
    /\ clean_streak \in 0..(Recover - 1)
    /\ generation \in 0..(MaxGeneration + 1)
    /\ closed \in BOOLEAN
    /\ cancelling \in SUBSET (0..(MaxWorkers - 1))
    /\ pc \in [Clients -> {"idle", "waiting", "granted", "leased", "turn", "report"}]
    /\ lane \in [Clients -> Lanes]
    /\ ahead \in [Clients -> SUBSET Clients]
    /\ ticketGen \in [Clients -> 0..(MaxGeneration + 1)]
    /\ index \in [Clients -> 0..(MaxWorkers - 1)]
    /\ beganIn \in [Clients -> 0..(MaxGeneration + 1)]
    /\ killed \in [Clients -> BOOLEAN]

Init ==
    /\ maximum \in 1..MaxWorkers          \* api_worker_settings
    /\ limit = maximum
    /\ slots = 1 /\ busy = {} /\ active = 0
    /\ dedicated_active = [l \in Dedicated |-> 0]
    /\ rate_limit_streak = 0 /\ clean_streak = 0
    /\ generation = 0 /\ closed = FALSE /\ cancelling = {}
    /\ pc = [c \in Clients |-> "idle"]
    /\ lane = [c \in Clients |-> "shared"]
    /\ ahead = [c \in Clients |-> {}]
    /\ ticketGen = [c \in Clients |-> 0]
    /\ index = [c \in Clients |-> 0]
    /\ beganIn = [c \in Clients |-> 0]
    /\ killed = [c \in Clients |-> FALSE]

-----------------------------------------------------------------------------
(* Entering a lane, and leaving its queue *)

StaleIgnoringClose(c) == ticketGen[c] # generation              \* mutant

\* _check_epoch: the pool is closed, or the ticket is of an older generation.
Stale(c) == closed \/ ticketGen[c] # generation

AnyTicket(c) == TRUE                                            \* mutant

\* The ticket is at the head of its lane's queue.
First(c) == ahead[c] = {}

\* The queue without c's ticket.
Dequeued(c) == [d \in Clients |-> IF d = c THEN {} ELSE ahead[d] \ {c}]

\* lease and dedicated: take a ticket at the end of the lane's queue.
Request(c, l) ==
    /\ pc[c] = "idle"
    /\ pc' = [pc EXCEPT ![c] = "waiting"]
    /\ lane' = [lane EXCEPT ![c] = l]
    /\ ahead' = [ahead EXCEPT ![c] = Waiting(l)]
    /\ ticketGen' = [ticketGen EXCEPT ![c] = generation]
    /\ UNCHANGED <<poolVars, tuneVars, epochVars, index, beganIn, killed>>

\* The call is over, or all but its report: its local state goes with it.
Forget(c, next) ==
    /\ pc' = [pc EXCEPT ![c] = next]
    /\ lane' = [lane EXCEPT ![c] = "shared"]
    /\ ticketGen' = [ticketGen EXCEPT ![c] = 0]
    /\ index' = [index EXCEPT ![c] = 0]
    /\ beganIn' = [beganIn EXCEPT ![c] = 0]
    /\ killed' = [killed EXCEPT ![c] = next = "report" /\ killed[c]]

Leave(c) ==
    /\ pc[c] = "waiting"
    /\ Forget(c, "idle")
    /\ ahead' = Dequeued(c)
    /\ UNCHANGED <<poolVars, tuneVars, epochVars>>

ValidatedUnlocked(c) == TRUE                                    \* mutant

\* The callers of the shared lane validate their job before the grant and again
\* before the lease is theirs, and that takes the API lock, which the caller
\* of invalidate holds until the last analyzer is cancelled.
Validated(c) == lane[c] = "shared" => cancelling = {}

\* A waiter that finds its ticket stale raises model-source-changed.
Expire(c) == Stale(c) /\ Leave(c)

\* A waiter whose caller's callback refuses, or whose deadline passed, raises.
GiveUp(c) == Leave(c)

-----------------------------------------------------------------------------
(* The grant: first in the queue, and capacity *)

FreeSlotsAnyBusy == {i \in 0..(slots - 1) : i < limit}          \* mutant
FreeSlotsShort == {i \in 0..(slots - 1) : i < limit - 1 /\ i \notin busy}  \* mutant
FreeSlots == {i \in 0..(slots - 1) : i < limit /\ i \notin busy}

\* The lowest free slot below the limit, else a fresh one if the list may grow.
SlotFor ==
    IF FreeSlots # {} THEN CHOOSE i \in FreeSlots : \A j \in FreeSlots : i <= j
                      ELSE slots

CanGrantAnyActive == FreeSlots # {} \/ slots < limit            \* mutant
CanGrantShared == active < limit /\ (FreeSlots # {} \/ slots < limit)

GrantShared(c) ==
    /\ pc[c] = "waiting" /\ lane[c] = "shared"
    /\ Validated(c) /\ ~Stale(c)
    /\ First(c)
    /\ CanGrantShared
    /\ slots' = IF FreeSlots = {} THEN slots + 1 ELSE slots
    /\ index' = [index EXCEPT ![c] = SlotFor]
    /\ busy' = busy \cup {SlotFor}
    /\ active' = active + 1
    /\ pc' = [pc EXCEPT ![c] = "granted"]
    /\ ahead' = Dequeued(c)
    /\ UNCHANGED <<maximum, limit, dedicated_active, tuneVars, epochVars,
                   lane, ticketGen, beganIn, killed>>

LaneFreeAlways(l) == TRUE                                       \* mutant
LaneFree(l) == dedicated_active[l] = 0

GrantDedicated(c) ==
    /\ pc[c] = "waiting" /\ lane[c] \in Dedicated
    /\ ~Stale(c)
    /\ First(c)
    /\ LaneFree(lane[c])
    /\ dedicated_active' = [dedicated_active EXCEPT ![lane[c]] = 1]
    /\ pc' = [pc EXCEPT ![c] = "granted"]
    /\ ahead' = Dequeued(c)
    /\ UNCHANGED <<maximum, limit, slots, busy, active, tuneVars, epochVars,
                   lane, ticketGen, index, beganIn, killed>>

\* The second epoch check, after the callbacks ran again without the lock.
Confirm(c) ==
    /\ pc[c] = "granted"
    /\ Validated(c) /\ ~Stale(c)
    /\ pc' = [pc EXCEPT ![c] = "leased"]
    /\ UNCHANGED <<poolVars, tuneVars, epochVars, lane, ahead, ticketGen, index, beganIn, killed>>

\* The caller sends its request to the analyzer's process, with the configuration
\* of its ticket's source and without another check (backend_service.py 1733-1747).
BeginTurn(c) ==
    /\ pc[c] = "leased"
    /\ pc' = [pc EXCEPT ![c] = "turn"]
    /\ beganIn' = [beganIn EXCEPT ![c] = generation]
    /\ UNCHANGED <<poolVars, tuneVars, epochVars, lane, ahead, ticketGen, index, killed>>

-----------------------------------------------------------------------------
(* The release: the `finally` of lease and dedicated *)

SlotsKept(out, shut) == slots                                   \* mutant

\* A closed pool that has nothing out forgets its extra analyzers.
SlotsLeft(out, shut) == IF shut /\ out = 0 THEN 1 ELSE slots

Release(c) ==
    IF lane[c] = "shared"
    THEN /\ active' = active - 1
         /\ slots' = SlotsLeft(active - 1, closed)
         /\ busy' = busy \ {index[c]}
         /\ UNCHANGED <<maximum, limit, dedicated_active>>
    ELSE /\ dedicated_active' = [dedicated_active EXCEPT ![lane[c]] = 0]
         /\ UNCHANGED <<maximum, limit, slots, busy, active>>

\* The second validation or epoch check fails: the provider is never called.
Abandon(c) ==
    /\ pc[c] = "granted"
    /\ Release(c)
    /\ Forget(c, "idle")
    /\ UNCHANGED <<tuneVars, epochVars, ahead>>

\* The provider answered, failed, timed out or was cancelled.
EndTurn(c) ==
    /\ pc[c] = "turn"
    /\ Release(c)
    /\ Forget(c, IF lane[c] = "shared" THEN "report" ELSE "idle")
    /\ UNCHANGED <<tuneVars, epochVars, ahead>>

-----------------------------------------------------------------------------
(* Adapting the limit: what the caller reports after a shared turn *)

Reported(c) ==
    /\ pc[c] = "report"
    /\ Forget(c, "idle")
    /\ UNCHANGED <<maximum, slots, busy, active, dedicated_active, epochVars, ahead>>

\* One step up, never above the ceiling; one step down, never below one.
StepUp == IF limit < maximum THEN limit + 1 ELSE limit
StepDown == IF limit > 1 THEN limit - 1 ELSE limit

note_rate_limited(c) ==
    /\ ~killed[c]
    /\ Reported(c)
    /\ clean_streak' = 0
    /\ IF limit > 1 /\ rate_limit_streak + 1 < RateStreak
       THEN rate_limit_streak' = rate_limit_streak + 1 /\ UNCHANGED limit
       ELSE /\ rate_limit_streak' = 0
            /\ limit' = StepDown

CleanTurnsForgotten == 1                                        \* mutant

\* The clean turns in a row, this one included.
CleanTurns == clean_streak + 1

note_success(c) ==
    /\ ~killed[c]
    /\ Reported(c)
    /\ rate_limit_streak' = 0
    /\ IF limit < maximum /\ CleanTurns < Recover
       THEN clean_streak' = CleanTurns /\ UNCHANGED limit
       ELSE /\ clean_streak' = 0
            /\ limit' = StepUp

\* Any other failure of the turn tells the pool nothing.
NoReport(c) == Reported(c) /\ UNCHANGED <<limit, tuneVars>>

-----------------------------------------------------------------------------
(* The owner of the pool *)

\* An explicit choice also lifts an earlier downshift; the streaks stay.
configure(workers) ==
    /\ ~closed
    /\ maximum' = workers /\ limit' = workers
    /\ UNCHANGED <<slots, busy, active, dedicated_active, tuneVars, epochVars, clientVars>>

ExtraAnalyzers == 1..(slots - 1)                                \* mutant

\* Under the lock: a new generation, and the analyzers of that moment.  The
\* callers hold the API lock until every one is cancelled, so invalidates do
\* not overlap.
Analyzers == 0..(slots - 1)

invalidate ==
    /\ generation < MaxGeneration
    /\ cancelling = {}
    /\ generation' = generation + 1
    /\ cancelling' = Analyzers
    /\ UNCHANGED <<poolVars, tuneVars, closed, clientVars>>

\* Outside the lock: one analyzer's process is terminated, and with it the
\* turn it is serving, if any.
Cancel(i) ==
    /\ i \in cancelling
    /\ cancelling' = cancelling \ {i}
    /\ killed' = [c \in Clients |->
                    killed[c] \/ (pc[c] = "turn" /\ lane[c] = "shared" /\ index[c] = i)]
    /\ UNCHANGED <<poolVars, tuneVars, generation, closed,
                   pc, lane, ahead, ticketGen, index, beganIn>>

\* Leases still out keep their slots; the last of them resets the list.
close_extras ==
    /\ ~closed
    /\ closed' = TRUE
    /\ generation' = generation + 1
    /\ slots' = SlotsLeft(active, TRUE)
    /\ UNCHANGED <<maximum, limit, busy, active, dedicated_active, tuneVars, cancelling, clientVars>>

-----------------------------------------------------------------------------
Grant(c) == GrantShared(c) \/ GrantDedicated(c)

Client(c) ==
    \/ \E l \in Lanes : Request(c, l)
    \/ Expire(c) \/ GiveUp(c) \/ Grant(c)
    \/ Confirm(c) \/ Abandon(c) \/ BeginTurn(c) \/ EndTurn(c)
    \/ note_rate_limited(c) \/ note_success(c) \/ NoReport(c)

Owner ==
    \/ \E n \in 1..MaxWorkers : configure(n)
    \/ invalidate
    \/ \E i \in cancelling : Cancel(i)
    \/ close_extras

Next == Owner \/ \E c \in Clients : Client(c)

Spec == Init /\ [][Next]_vars

\* A waiter re-examines the queue at least every 50 ms, a provider turn is
\* bounded by the request timeout of the analyzer, and the code after it runs
\* on its own; nothing obliges a client to ask, to give up or to be refused.
Fairness ==
    /\ \A c \in Clients :
        /\ WF_vars(Grant(c)) /\ WF_vars(Expire(c))
        /\ WF_vars(Confirm(c) \/ Abandon(c))
        /\ WF_vars(BeginTurn(c)) /\ WF_vars(EndTurn(c))
        /\ WF_vars(note_success(c) \/ note_rate_limited(c) \/ NoReport(c))
    /\ WF_vars(\E i \in cancelling : Cancel(i))

FairSpec == Spec /\ Fairness

-----------------------------------------------------------------------------
(* Properties *)

\* At most one lease per analyzer, whatever shrinks, switches and closes in
\* between: the slots marked busy are exactly those of the clients that hold
\* one, no two clients share one, every one is still in the list (a release
\* writes to entries[index]), and the counter that gates grants counts them.
LeaseAccounting ==
    /\ \A c \in Holders : index[c] \in busy /\ index[c] < slots
    /\ \A i \in busy : \E c \in Holders : index[c] = i
    /\ \A c, d \in Holders : index[c] = index[d] => c = d
    /\ active = Cardinality(Holders)

\* The counter of a dedicated lane is its one holder.
LaneAccounting ==
    \A l \in Dedicated :
        /\ \A c, d \in HoldersOf(l) : c = d
        /\ dedicated_active[l] = 1 <=> HoldersOf(l) # {}

\* Below the limit there is always a slot to give: either a free one under the
\* limit or room for a new one.  So the first ticket is never blocked by
\* busy high-numbered slots left over from a larger limit.
CapacityIsUsable == active < limit => CanGrantShared

\* A closed pool that has got its last lease back holds the primary only.
ClosedPoolShrinks == closed /\ active = 0 => slots = 1 /\ busy = {}

\* A turn is its ticket's: it asks the model source that its ticket was taken for.
OldTurn(c) == pc[c] = "turn" /\ ticketGen[c] < generation

\* When the source was last switched c had its lease, past the last check of the
\* generation, but had not begun: there was no turn yet that a cancel could end.
Slipped(c) == beganIn[c] = generation

\* Once invalidate has returned, every turn of an older model source is cancelled;
\* but for a lease confirmed before the last switch whose turn began only after it.
\* Such a turn runs on with the old configuration (api_pool.py 163-166).
InvalidateStopsTurns ==
    \A c \in Holders :
        OldTurn(c) /\ cancelling = {} /\ ~closed => killed[c] \/ Slipped(c)

\* The cancellation meant for the turns of the old model source never hits a
\* turn that was leased for the new one on the same analyzer.
NewTurnsUndisturbed ==
    \A c \in Clients : pc[c] = "turn" /\ killed[c] => OldTurn(c)

\* The bookkeeping that gates every grant is exact: leases of the shared analyzers
\* and holders of the dedicated lanes, through shrinks, switches and closes
\* (api_pool.py 142-176 and 214-229); the limit stays within 1..maximum.
Accounting == TypeOK /\ LeaseAccounting /\ LaneAccounting

\* A switch of the model source stops the turns of the older ones that have begun, and
\* no other, although the cancellation works on a snapshot and outside the lock
\* (261-275).  Not stopped is a turn of an old ticket that begins after the switch.
TurnsFollowGeneration == InvalidateStopsTurns /\ NewTurnsUndisturbed

\* Every ticket is served or told why not, without its own deadline having to
\* pass: the queue starves nobody.
WaitersServed == \A c \in Clients : (pc[c] = "waiting") ~> (pc[c] # "waiting")

\* close_extras eventually leaves nobody in the pool for good and only the
\* primary analyzer in it.
CloseDrains == closed ~> [](Holders = {} /\ slots = 1)

\* If the provider stops rate limiting while turns keep succeeding, the limit
\* climbs back to the configured ceiling.
RecoversToCeiling ==
    (/\ <>[][~ \E c \in Clients : note_rate_limited(c)]_vars
     /\ []<><<\E c \in Clients : note_success(c)>>_vars)
        => []<>(limit = maximum)

\* Under fair threads the pool serves everyone who waits, empties when it is
\* closed, and grows back once the provider stops rate limiting (127-160, 246-259,
\* 277-293).
PoolSettles == WaitersServed /\ CloseDrains /\ RecoversToCeiling

\* The shared lane is a set of leases under a movable capacity.
Leases == INSTANCE BoundedLeases WITH holders <- Holders, cap <- limit
ImplementsBoundedLeases == Leases!ASpec

=============================================================================
