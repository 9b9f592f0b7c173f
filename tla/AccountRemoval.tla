--------------------------- MODULE AccountRemoval ---------------------------
(***************************************************************************)
(* One account's derived data and its removal (bridge/account_api.py,      *)
(* account_store.py, snapshot_cache.py, account_leases.py, and the pause,  *)
(* resume and shutdown of backend_service.py and advisor_service.py).      *)
(* Bridges of one installation share what they derive from an account's    *)
(* databases: decrypted snapshots with stamps that say which state of the  *)
(* source they hold, results, keys, Advisor rows and an entry in the       *)
(* account registry.  A lease keeps an account to one bridge.  A bridge    *)
(* refreshes the snapshot in the background while it reads the old one,    *)
(* and removes all of it on request, file by file, for an account it reads *)
(* or for one it does not; any step may fail, those that undo a failed     *)
(* removal too, and a bridge may crash.                                    *)
(***************************************************************************)
EXTENDS Naturals, FiniteSets

CONSTANTS
    Bridges,
    Contact,    \* the snapshot is that of contact.db, of which no stale read is allowed
    MaxVersion, \* bound: states of the source database
    MaxLogins,  \* bound: logins and logouts seen by the bridges
    MaxFaults,  \* bound: crashes, and damaged snapshots
    MaxRemovals, \* bound: removals asked for
    Absent

ASSUME RemovalAssumption ==
    /\ IsFiniteSet(Bridges) /\ Contact \in BOOLEAN
    /\ MaxVersion \in Nat \ {0} /\ {MaxLogins, MaxFaults, MaxRemovals} \subseteq Nat
    /\ Absent \notin Nat

VARIABLES
    version, \* the state of the source database
    disk,    \* what each file holds: a state of the source, or the one a stamp claims
    listed,  \* the account is in accounts.json
    bridge,  \* bridge processes; failed is history: steps after which it could not go back
    work,    \* the snapshot worker of each: its stage and the signature it took
    removal, \* the removal each is at work on
    outlived, \* history: a refresh was at work when its bridge gave up the lease
    logins, faults, asked

removalVars == <<version, disk, listed, bridge, work, removal, outlived, logins, faults, asked>>
bounds == <<logins, faults, asked>>

Snapshots == {"data", "stamp", "staged", "staged stamp", "ready", "ready stamp"}
\* "result" stands for the results, their backups and the key file.
Files == Snapshots \cup {"result", "rows"}

Down == [up |-> FALSE, live |-> FALSE, cur |-> FALSE, known |-> FALSE,
         open |-> TRUE, advisor |-> "open", marked |-> FALSE, failed |-> {}]
Idle == [stage |-> "idle", sig |-> 0]
NoRemoval == [stage |-> "idle", current |-> FALSE, again |-> FALSE, left |-> {}]

RemovalInit ==
    /\ version = 1
    /\ disk = [f \in Files |-> Absent]
    /\ listed = FALSE
    /\ \E shows \in Bridges :
         bridge = [b \in Bridges |-> [Down EXCEPT !.up = TRUE, !.live = b = shows]]
    /\ work = [b \in Bridges |-> Idle]
    /\ removal = [b \in Bridges |-> NoRemoval]
    /\ outlived = FALSE /\ logins = 0 /\ faults = 0 /\ asked = 0

Has(f) == disk[f] # Absent
Removing(b) == removal[b].stage # "idle"
Working(b) == work[b].stage # "idle"

\* The lease is counted within a process and exclusive between processes.
Holds(b) == bridge[b].cur \/ Removing(b)
Mayhold(b) == \A c \in Bridges \ {b} : ~Holds(c)
\* Removing an account that is not current keeps the source lock from the drain on.
SourceLocked(b) ==
    ~removal[b].current /\ removal[b].stage \in {"forget", "rows", "unlink"}
RegistryTaken == \E b \in Bridges : removal[b].stage \in {"forget", "rows", "unlink"}
Serving(b) == bridge[b].up /\ bridge[b].open /\ bridge[b].cur /\ ~SourceLocked(b)

----------------------------------------------------------------------------
(* Which account WeChat shows, and which one the bridge has opened. *)

Change ==
    /\ version < MaxVersion /\ version' = version + 1
    /\ UNCHANGED <<disk, listed, bridge, work, removal, bounds>>

Show(b) ==
    /\ logins < MaxLogins /\ logins' = logins + 1
    /\ bridge[b].up
    /\ bridge' = [bridge EXCEPT ![b].live = ~@]
    /\ UNCHANGED <<version, disk, listed, work, removal, faults, asked>>

OpenAccount(b) ==
    /\ bridge[b].up /\ bridge[b].open /\ ~SourceLocked(b)
    /\ bridge[b].live /\ ~bridge[b].cur /\ Mayhold(b)
    /\ bridge' = [bridge EXCEPT ![b].cur = TRUE]
    /\ UNCHANGED <<version, disk, listed, work, removal, bounds>>

\* The next request finds another account: the lease goes, a refresh at work stays.
Leave(b) ==
    /\ Serving(b) /\ ~bridge[b].live
    /\ work[b].stage \notin {"first data", "first stamp"}
    /\ bridge' = [bridge EXCEPT ![b].cur = FALSE]
    /\ UNCHANGED <<version, disk, listed, work, removal, bounds>>

Register == listed' = TRUE

\* The sessions of a login register the account once.
Observe(b) ==
    /\ Serving(b) /\ ~bridge[b].known /\ ~Removing(b) /\ ~RegistryTaken
    /\ bridge' = [bridge EXCEPT ![b].known = TRUE]
    /\ Register
    /\ UNCHANGED <<version, disk, work, removal, bounds>>

\* Results, keys and Advisor rows are written while the account is read.
Use(b, f) ==
    /\ Serving(b) /\ f \in {"result", "rows"} /\ ~Has(f)
    /\ f = "rows" => bridge[b].advisor = "open"
    /\ disk' = [disk EXCEPT ![f] = 0]
    /\ UNCHANGED <<version, listed, bridge, work, removal, bounds>>

----------------------------------------------------------------------------
(* Snapshots.  A stamp of 0 is that of a copy whose WAL was not merged: it claims *)
(* no state that counts for contact.db.                                           *)

To(b, stage) == work' = [work EXCEPT ![b] = [Idle EXCEPT !.stage = stage]]
workOnly == <<version, listed, bridge, removal, bounds>>
Stamps(sig) == IF Contact THEN {sig, 0} ELSE {sig}

\* Without a usable snapshot the reader builds one in place, before it answers; the
\* stamp of a damaged one goes first.
First(b) ==
    /\ Serving(b) /\ ~Working(b)
    /\ work' = [work EXCEPT ![b] = [stage |-> "first data", sig |-> version]]
    /\ \/ /\ ~Has("data") \/ ~Has("stamp")
          /\ UNCHANGED <<disk, faults>>
       \/ /\ Has("data") /\ Has("stamp") /\ faults < MaxFaults /\ faults' = faults + 1
          /\ Contact => disk["stamp"] = version
          /\ disk' = [disk EXCEPT !["stamp"] = Absent]
    /\ UNCHANGED <<version, listed, bridge, removal, logins, asked>>

Build(b) ==
    \/ /\ work[b].stage \in {"first data", "stage data"}
       /\ \/ /\ disk' = [disk EXCEPT ![IF work[b].stage = "first data" THEN "data" ELSE "staged"] = version]
             /\ work' = [work EXCEPT ![b].stage =
                           IF @ = "first data" THEN "first stamp" ELSE "stage stamp"]
          \/ To(b, "idle") /\ UNCHANGED disk
       /\ UNCHANGED workOnly
    \/ /\ work[b].stage = "first stamp"
       /\ \E stamp \in Stamps(work[b].sig) : disk' = [disk EXCEPT !["stamp"] = stamp]
       /\ To(b, "idle")
       /\ UNCHANGED workOnly

\* A read that finds the source changed has it refreshed.
Submit(b) ==
    /\ Serving(b) /\ ~Working(b)
    /\ Has("data") /\ Has("stamp") /\ disk["stamp"] # version
    /\ To(b, "stage")
    /\ UNCHANGED <<disk, workOnly>>

\* The staged copy is reused when its stamp is the source's.
Stage(b) ==
    \/ /\ work[b].stage = "stage"
       /\ LET unmerged == Contact /\ disk["staged stamp"] = 0
              reusable == Has("staged") /\ disk["staged stamp"] = version
          IN  /\ disk' = IF unmerged THEN [disk EXCEPT !["staged stamp"] = Absent] ELSE disk
              /\ IF reusable THEN To(b, "copy")
                 ELSE work' = [work EXCEPT ![b] = [stage |-> "stage data", sig |-> version]]
       /\ UNCHANGED workOnly
    \/ /\ work[b].stage = "stage stamp"
       /\ \E stamp \in Stamps(work[b].sig) :
            /\ disk' = [disk EXCEPT !["staged stamp"] = IF stamp = 0 THEN Absent ELSE stamp]
            /\ IF stamp = 0 THEN To(b, "idle") ELSE To(b, "copy")
       /\ UNCHANGED workOnly

\* The new copy and its stamp are put in place by renames, the data first.
Moves == <<"copy", "replace", "replace stamp">>
\* Bug: the stamp is put in place before the data.
StampFirst == <<"copy", "replace stamp", "replace">>
Order == Moves
After(stage) ==
    LET n == CHOOSE k \in 1 .. 3 : Order[k] = stage
    IN  IF n = 3 THEN "idle" ELSE Order[n + 1]
Publish(b) ==
    LET stage == work[b].stage
        moved == CASE stage = "copy" -> [disk EXCEPT !["ready"] = disk["staged"],
                                                     !["ready stamp"] = disk["staged stamp"]]
                   [] stage = "replace" -> [disk EXCEPT !["data"] = disk["ready"], !["ready"] = Absent]
                   [] OTHER -> [disk EXCEPT !["stamp"] = disk["ready stamp"], !["ready stamp"] = Absent]
    IN  /\ stage \in {Order[k] : k \in 1 .. 3}
        /\ \/ disk' = moved /\ To(b, After(stage))
           \/ To(b, "idle") /\ UNCHANGED disk    \* a file is held open
        /\ UNCHANGED workOnly

----------------------------------------------------------------------------
(* Removal. *)

RemoveTo(b, stage) == removal' = [removal EXCEPT ![b].stage = stage]
removeOnly == <<version, work, bounds>>

\* An account is found by its entry or by its results.
Entered == listed
Found == Entered \/ Has("result")

Remove(b) ==
    /\ asked < MaxRemovals /\ asked' = asked + 1
    /\ bridge[b].up /\ bridge[b].open /\ ~Removing(b)
    /\ Found /\ Mayhold(b)
    /\ removal' = [removal EXCEPT ![b] = [NoRemoval EXCEPT !.stage = "advisor",
                                            !.current = bridge[b].live,
                                            !.again = bridge[b].advisor = "cleared"]]
    /\ UNCHANGED <<version, disk, listed, bridge, work, logins, faults>>

RemovalEnds(b) == removal' = [removal EXCEPT ![b] = NoRemoval]
FailedAt(state, step) == [state EXCEPT !.failed = @ \cup {step}]

\* The Advisor comes back unless it was not drained, or its rows are gone already.  Then
\* the bridge of a current account is resumed and its mark is removed: each of the two
\* may raise, and what follows is left undone.
AdvisorBack(b) == IF bridge[b].advisor = "paused" THEN "open" ELSE bridge[b].advisor
\* Bug: the mark stays.
NeverMarked(b) == FALSE
HasMark(b) == removal[b].stage \in {"registry", "forget", "rows", "unlink"}
Unmarked(state) == [state EXCEPT !.marked = FALSE, !.failed = @ \ {"unmark"}]
Undone(b) ==
    LET back == [bridge[b] EXCEPT !.advisor = AdvisorBack(b)]
        open == [back EXCEPT !.open = TRUE]
    IN  IF ~removal[b].current THEN {back}
        ELSE {FailedAt(back, "resume")} \cup
             (IF HasMark(b) THEN {FailedAt(open, "unmark"), Unmarked(open)} ELSE {open})
GivesUp(b) ==
    /\ \E state \in Undone(b) : bridge' = [bridge EXCEPT ![b] = state]
    /\ RemovalEnds(b)

\* Advisor runs that do not end in time leave the Advisor closed to the account.
PauseAdvisor(b) ==
    /\ removal[b].stage = "advisor"
    /\ \E drained \in BOOLEAN :
         LET state == IF bridge[b].advisor = "cleared" THEN "cleared"
                      ELSE IF drained THEN "paused" ELSE "undrained"
         IN  /\ bridge' = [bridge EXCEPT ![b].advisor = state]
             /\ IF drained THEN RemoveTo(b, IF removal[b].current THEN "pause" ELSE "registry")
                ELSE RemovalEnds(b)
    /\ UNCHANGED <<disk, listed, removeOnly>>

\* The bridge closes, drains and gives up its own lease.  Requests and jobs that do not
\* end in time leave it closing for good; a reader that cannot be closed has it resumed.
Pause(b) ==
    LET closed == [bridge[b] EXCEPT !.open = FALSE, !.advisor = AdvisorBack(b)] IN
    /\ removal[b].stage = "pause"
    /\ \/ /\ work[b].stage \notin {"first data", "first stamp"}
          /\ bridge' = [bridge EXCEPT ![b].open = FALSE, ![b].cur = FALSE]
          /\ RemoveTo(b, "mark")
       \/ /\ \E step \in {"drain", "resume"} : bridge' = [bridge EXCEPT ![b] = FailedAt(closed, step)]
          /\ RemovalEnds(b)
       \/ /\ bridge' = [bridge EXCEPT ![b].advisor = AdvisorBack(b)]
          /\ RemovalEnds(b)
    /\ UNCHANGED <<disk, listed, removeOnly>>

Mark(b) ==
    /\ removal[b].stage = "mark"
    /\ \/ bridge' = [bridge EXCEPT ![b].marked = TRUE] /\ RemoveTo(b, "registry")
       \/ GivesUp(b)
    /\ UNCHANGED <<disk, listed, removeOnly>>

\* Only the first checks of the live account are fresh; later ones are half a second
\* old at worst.
Guarded(b) == removal[b].current \/ ~bridge[b].live

TakeRegistry(b) ==
    /\ removal[b].stage = "registry"
    /\ \/ /\ ~RegistryTaken /\ Found /\ Guarded(b) /\ RemoveTo(b, "forget")
          /\ removal[b].current \/ work[b].stage \notin {"first data", "first stamp"}
          /\ UNCHANGED bridge
       \/ GivesUp(b)
    /\ UNCHANGED <<disk, listed, removeOnly>>

\* Bug: a snapshot worker at work is not waited for.
ForgettableAnyway(b) == TRUE
Forgettable(b) == ~Working(b)
ForgetAccount(b) ==
    /\ removal[b].stage = "forget"
    /\ \/ /\ Forgettable(b)
          /\ removal' = [removal EXCEPT ![b].stage = "rows",
                                        ![b].left = {f \in Files \ {"rows"} : Has(f)}]
          /\ UNCHANGED bridge
       \/ GivesUp(b)
    /\ UNCHANGED <<disk, listed, removeOnly>>

\* A process clears the rows of an account once.
ClearRows(b) ==
    /\ removal[b].stage = "rows"
    /\ \/ /\ Guarded(b)
          /\ disk' = IF bridge[b].advisor = "cleared" THEN disk ELSE [disk EXCEPT !["rows"] = Absent]
          /\ bridge' = [bridge EXCEPT ![b].advisor = "cleared"]
          /\ RemoveTo(b, "unlink")
       \/ GivesUp(b) /\ UNCHANGED disk
    /\ UNCHANGED <<listed, removeOnly>>

\* The snapshot tree goes first, in any order.
Deletable(left) == IF left \cap Snapshots # {} THEN left \cap Snapshots ELSE left
Unlink(b) ==
    /\ removal[b].stage = "unlink"
    /\ \/ \E f \in Deletable(removal[b].left) :
            /\ disk' = [disk EXCEPT ![f] = Absent]
            /\ removal' = [removal EXCEPT ![b].left = @ \ {f}]
            /\ UNCHANGED bridge
       \/ GivesUp(b) /\ UNCHANGED disk    \* a file in use, or the account is live
    /\ UNCHANGED <<listed, removeOnly>>

\* The entry goes last.  The bridge of a current account then ends, unless its work does
\* not end in time or its reader cannot be closed; another one forgets the account and its
\* lease, unless that raises.
Strike(b) ==
    /\ removal[b].stage = "unlink" /\ removal[b].left = {}
    /\ listed' = FALSE /\ RemovalEnds(b)
    /\ \/ /\ removal[b].current
          /\ \/ bridge' = [bridge EXCEPT ![b] = Down] /\ To(b, "idle")
             \/ bridge' = [bridge EXCEPT ![b] = FailedAt(@, "shutdown")] /\ UNCHANGED work
       \/ /\ ~removal[b].current
          /\ \/ bridge' = [bridge EXCEPT ![b].known = FALSE, ![b].cur = FALSE]
             \/ UNCHANGED bridge
          /\ UNCHANGED work
    /\ UNCHANGED <<version, disk, bounds>>

Crash(b) ==
    /\ bridge[b].up /\ faults < MaxFaults /\ faults' = faults + 1
    /\ bridge' = [bridge EXCEPT ![b] = Down]
    /\ To(b, "idle") /\ RemovalEnds(b)
    /\ UNCHANGED <<version, disk, listed, logins, asked>>

Start(b) ==
    /\ ~bridge[b].up
    /\ bridge' = [bridge EXCEPT ![b].up = TRUE]
    /\ UNCHANGED <<version, disk, listed, work, removal, bounds>>

Steps ==
    \/ Change
    \/ \E b \in Bridges :
         \/ Show(b) \/ OpenAccount(b) \/ Leave(b) \/ Observe(b)
         \/ \E f \in Files : Use(b, f)
         \/ First(b) \/ Build(b) \/ Submit(b) \/ Stage(b) \/ Publish(b)
         \/ Remove(b) \/ PauseAdvisor(b) \/ Pause(b) \/ Mark(b) \/ TakeRegistry(b)
         \/ ForgetAccount(b) \/ ClearRows(b) \/ Unlink(b) \/ Strike(b)
         \/ Crash(b) \/ Start(b)

RemovalNext == Steps /\ outlived' = (outlived \/ \E b \in Bridges : Working(b)' /\ ~Holds(b)')

RemovalSpec == RemovalInit /\ [][RemovalNext]_removalVars

----------------------------------------------------------------------------
(* Properties. *)

RemovalTypeOK ==
    /\ version \in 1 .. MaxVersion
    /\ disk \in [Files -> 0 .. MaxVersion \cup {Absent}]
    /\ \A b \in Bridges : removal[b].left \subseteq Files
    /\ Cardinality({b \in Bridges : Holds(b)}) <= 1

\* A stamp never claims a newer state of the source than its data holds, whenever a
\* refresh or a first build ends, fails or crashes: a contact read trusts it.  Not
\* so once a refresh outlived its bridge's lease (snapshot_cache.py, _refresh, _open).
StampIsHonest ==
    RemovalTypeOK /\ (~outlived =>
        /\ Has("data") /\ Has("stamp") => disk["stamp"] <= disk["data"]
        /\ Has("staged") /\ Has("staged stamp") => disk["staged stamp"] <= disk["staged"])

\* The entry of an account goes last: when it is struck from the registry nothing of
\* the account is left that no list would show, and nobody is writing more; but for
\* the rows of an account the same process cleared before (account_store.py, delete).
EntryGoesLast ==
    [][listed /\ ~listed' /\ ~outlived =>
        /\ \A f \in Files \ {"rows"} : disk'[f] = Absent
        /\ disk'["rows"] = Absent \/ \E b \in Bridges : removal[b].again
        /\ \A b \in Bridges : work'[b].stage = "idle"]_removalVars

\* A bridge whose removal has ended serves, its Advisor does, and no mark forbids its
\* recovery, unless one of these steps failed: a drain, the resume or a shutdown, after
\* which the bridge stays closed, and with its mark but for the drain; the removal of the
\* mark, which then stays while the bridge serves.  An Advisor that could not be drained,
\* or whose rows are gone, stays closed (account_api.py, _delete_owned; backend_service.py,
\* resume_after_failed_account_clear, shutdown).
FailedTo(b, steps) == bridge[b].failed \cap steps # {}
FailureLeavesNoMark ==
    \A b \in Bridges : bridge[b].up /\ ~Removing(b) =>
        /\ bridge[b].open \/ FailedTo(b, {"drain", "resume", "shutdown"})
        /\ bridge[b].marked => FailedTo(b, {"resume", "unmark", "shutdown"})
        /\ bridge[b].advisor # "paused"

=============================================================================
