---------------------------- MODULE ClientStart ----------------------------
(***************************************************************************)
(* Starting, recovering, stopping and updating the desktop client          *)
(* (scripts/start-real-client.py, desktop-main.cjs, real-client-shell.cjs, *)
(* real-client-recovery.cjs, real-client-update-controller.cjs and         *)
(* bridge/installation_gate.py).  Launchers of one instance exclude each   *)
(* other with a mutex; a launcher leaves a record of the bridge it created *)
(* by which a later one finds, reuses or cleans it up; the shell's monitor *)
(* starts a bridge again unless a cleared account forbids it; and every    *)
(* process of the installation registers with the gate, which an updater   *)
(* claims for itself alone.  Any process may end, hang or be killed at any *)
(* step.  One port per instance; the updater's own work is UpdateHelper.   *)
(***************************************************************************)
EXTENDS Naturals, FiniteSets

CONSTANTS
    Instances,  \* profiles of one installation
    Default,    \* the instance without a profile, the only one that updates
    Launchers,  \* bound: launchers at work
    Bridges,    \* bound: bridge processes that have not been forgotten
    MaxFaults,  \* bound: processes that crash, hang or are killed, reused PIDs
    MaxStarts,  \* bound: launchers started
    None

ASSUME StartAssumption ==
    /\ Default \in Instances
    /\ IsFiniteSet(Bridges) /\ IsFiniteSet(Launchers)
    /\ MaxFaults \in Nat /\ MaxStarts \in Nat
    /\ None \notin Launchers \cup Bridges

VARIABLES
    bridge,  \* bridge processes and the analysis worker of each
    record,  \* bridges with a control record in the runtime directory
    marker,  \* instances whose no-auto-recovery marker exists
    mutex,   \* the launcher that holds the launch mutex of an instance
    run,     \* launchers
    shell,   \* the desktop process of each instance
    helper,  \* the updater: none, born, or holding the claim
    owned,   \* history: bridges whose record was written
    lost,    \* history: instances a launcher of which ended before it was done with a bridge
    faults,
    starts

vars == <<bridge, record, marker, mutex, run, shell, helper, owned, lost, faults, starts>>
history == <<owned, lost, faults, starts>>

NoBridge == [st |-> "none", worker |-> FALSE, of |-> Default, reused |-> FALSE]
Idle == [stage |-> "idle", cmd |-> "start", of |-> Default, child |-> FALSE,
         reg |-> FALSE, b |-> None, kids |-> {}]
NoShell == [st |-> "off", reg |-> FALSE, created |-> FALSE]

Init ==
    /\ bridge = [b \in Bridges |-> NoBridge]
    /\ record = {}
    /\ marker = {}
    /\ mutex = [i \in Instances |-> None]
    /\ run = [l \in Launchers |-> Idle]
    /\ shell = [i \in Instances |-> NoShell]
    /\ helper = "none"
    /\ owned = {} /\ lost = {} /\ faults = 0 /\ starts = 0

----------------------------------------------------------------------------
(* What a launcher can see. *)

Alive(b) == bridge[b].st \notin {"none", "dead"}
Of(i) == {b \in Bridges : bridge[b].of = i}
In(i, states) == {b \in Of(i) : bridge[b].st \in states}

\* A bridge that is clearing or shutting down answers every request with 503.
Health(i) ==
    LET ready == In(i, {"ready", "resumed"}) # {}
        odd == In(i, {"clearing", "cleared", "closing"}) # {}
        quiet == In(i, {"clearing", "cleared"}) = {} /\ ~ready
    IN  (IF ready THEN {"ready"} ELSE {}) \cup (IF odd THEN {"wrong"} ELSE {}) \cup
        (IF quiet THEN {"unavailable"} ELSE {})
PortTaken(i) == IF In(i, {"booting", "hung", "closing"}) = {} THEN {FALSE} ELSE BOOLEAN

\* A record of a PID that another process has taken by now is passed over.
Recorded(i) == {b \in record \cap Of(i) : ~bridge[b].reused}
LiveRecords(i) == {b \in Recorded(i) : Alive(b)}
DeadRecords(i) == {b \in Recorded(i) : ~Alive(b)}

\* A stop goes on only with the one live record, and only if its process runs this
\* installation's interpreter and script (verify_owned_process).
Verified(i) == {b \in LiveRecords(i) : LiveRecords(i) = {b}}

\* orphan_analysis_children: the workers of this installation that are not older
\* than the launch of a bridge in s; their own, and some of other bridges.
Workers == {c \in Bridges : bridge[c].worker}
Orphans(s) == {o \in SUBSET Workers : Workers \cap s \subseteq o}
WithoutWorkers(s) == [c \in Bridges |-> [bridge[c] EXCEPT !.worker = @ /\ c \notin s]]

----------------------------------------------------------------------------
(* The gate.  Registrations of processes that are gone do not count. *)

Registered(b) == bridge[b].st \notin {"none", "dead", "booting"}
Claimed == helper = "claimed"
Admitted == ~Claimed
\* Bug: a bridge is not asked whether an update is at work.
AdmittedAnyway == TRUE
BridgeAdmitted == Admitted

----------------------------------------------------------------------------
(* Launchers. *)

At(l, stage) == run[l].stage = stage
Goto(l, stage) == run' = [run EXCEPT ![l].stage = stage]
Recovering(l) == run[l].cmd = "recovery"

\* What the shell makes of a launcher's result.
Told(i, cmd, ok, created) ==
    CASE shell[i].st = "starting" ->
           IF ok THEN [shell[i] EXCEPT !.st = "opening", !.created = created] ELSE NoShell
      [] shell[i].st = "updating" ->
           IF ~ok \/ i \in marker THEN [shell[i] EXCEPT !.st = "open"]
           ELSE [shell[i] EXCEPT !.st = "stopped"]
      [] shell[i].st = "restoring" -> [shell[i] EXCEPT !.st = "open"]
      [] shell[i].st = "quitting" -> NoShell
      [] OTHER -> shell[i]

Ended(l, ok, created) ==
    LET i == run[l].of
    IN  /\ run' = [run EXCEPT ![l] = Idle]
        /\ mutex' = IF mutex[i] = l THEN [mutex EXCEPT ![i] = None] ELSE mutex
        /\ shell' = IF run[l].child THEN [shell EXCEPT ![i] = Told(i, run[l].cmd, ok, created)]
                    ELSE shell
AtWork(b) == \E l \in Launchers : run[l].b = b
Fails(l) == Ended(l, FALSE, FALSE)
Leaves(l) == IF run[l].b = None THEN lost ELSE lost \cup {run[l].of}

\* run_command: the launcher registers itself, then the shell that spawned it.
Admit(l) ==
    /\ At(l, "admit")
    /\ IF Claimed THEN Fails(l)
       ELSE /\ run' = [run EXCEPT ![l].stage = "mark", ![l].reg = TRUE]
            /\ shell' = IF run[l].child THEN [shell EXCEPT ![run[l].of].reg = TRUE] ELSE shell
            /\ UNCHANGED mutex
    /\ UNCHANGED <<bridge, record, marker, helper, history>>

\* The first look at the marker comes before the mutex, the second after it.
CheckMark(l) ==
    /\ run[l].stage \in {"mark", "mark again"}
    /\ IF Recovering(l) /\ run[l].of \in marker THEN Fails(l)
       ELSE /\ Goto(l, IF At(l, "mark") THEN "mutex" ELSE "health")
            /\ UNCHANGED <<mutex, shell>>
    /\ UNCHANGED <<bridge, record, marker, helper, history>>

Take(l) ==
    /\ At(l, "mutex")
    /\ \/ /\ mutex[run[l].of] = None
          /\ mutex' = [mutex EXCEPT ![run[l].of] = l]
          /\ Goto(l, IF run[l].cmd = "stop" THEN "look" ELSE "mark again")
          /\ UNCHANGED shell
       \/ mutex[run[l].of] # None /\ Fails(l)    \* after 30 seconds
    /\ UNCHANGED <<bridge, record, marker, helper, history>>

\* clear_no_auto_recovery: only an explicit start resets the latch.
Unlatched(l) == IF Recovering(l) THEN marker ELSE marker \ {run[l].of}

CheckHealth(l) ==
    /\ At(l, "health")
    /\ \E state \in Health(run[l].of), taken \in PortTaken(run[l].of) :
         IF state = "ready" THEN marker' = Unlatched(l) /\ Ended(l, TRUE, FALSE)
         ELSE /\ UNCHANGED marker
              /\ IF state = "wrong" \/ taken THEN Fails(l)
                 ELSE Goto(l, "records") /\ UNCHANGED <<mutex, shell>>
    /\ UNCHANGED <<bridge, record, helper, history>>

\* Dead bridges' workers and then their records are removed; any of it may fail.
Cleaned(i, s) ==
    /\ s \subseteq DeadRecords(i)
    /\ IF s = {} THEN UNCHANGED bridge
       ELSE \E o \in Orphans(s) : bridge' = WithoutWorkers(o)
    /\ record' = record \ s

CheckRecords(l) ==
    LET i == run[l].of
    IN  /\ At(l, "records")
        /\ IF LiveRecords(i) # {} THEN Fails(l) /\ UNCHANGED <<bridge, record>>
           ELSE \E s \in SUBSET DeadRecords(i) :
                  /\ Cleaned(i, s)
                  /\ IF s = DeadRecords(i) THEN Goto(l, "spawn") /\ UNCHANGED <<mutex, shell>>
                     ELSE Fails(l)
        /\ UNCHANGED <<marker, helper, history>>

Spawn(l) ==
    /\ At(l, "spawn")
    /\ \/ \E b \in Bridges :
            /\ ~Alive(b) /\ ~bridge[b].worker /\ b \notin record /\ ~AtWork(b)
            /\ bridge' = [bridge EXCEPT ![b] = [NoBridge EXCEPT !.st = "booting", !.of = run[l].of]]
            /\ run' = [run EXCEPT ![l].stage = "record", ![l].b = b]
            /\ owned' = owned \ {b}
            /\ UNCHANGED <<mutex, shell>>
       \/ Fails(l) /\ UNCHANGED <<bridge, owned>>
    /\ UNCHANGED <<record, marker, helper, lost, faults, starts>>

\* A record needs the creation time of its process, and is readable by the user alone.
CanRecord(b) == Alive(b)

\* Without a record the new bridge is stopped, by its handle alone.
WriteRecord(l) ==
    LET b == run[l].b
    IN  /\ At(l, "record")
        /\ \/ /\ CanRecord(b)
              /\ record' = record \cup {b} /\ owned' = owned \cup {b}
              /\ Goto(l, "wait")
              /\ UNCHANGED <<bridge, lost, mutex, shell>>
           \/ /\ bridge' = [bridge EXCEPT ![b].st = "dead"]
              /\ Fails(l)
              /\ UNCHANGED <<record, owned, lost>>
           \/ /\ lost' = Leaves(l) /\ Fails(l)
              /\ UNCHANGED <<bridge, record, owned>>
        /\ UNCHANGED <<marker, helper, faults, starts>>

Await(l) ==
    /\ At(l, "wait")
    /\ \/ "ready" \in Health(run[l].of) /\ Goto(l, "latch")
       \/ Goto(l, "abort")    \* another service, the bridge ended, or its time is up
    /\ UNCHANGED <<bridge, record, marker, mutex, shell, helper, history>>

\* Bug: a recovery does not look at the marker once its bridge is ready.
LatchIgnored(l) == FALSE
Latched(l) == Recovering(l) /\ run[l].of \in marker
Latch(l) ==
    /\ At(l, "latch")
    /\ \/ /\ ~Latched(l)
          /\ marker' = Unlatched(l)
          /\ Ended(l, TRUE, TRUE)
       \/ /\ Latched(l) \/ ~Recovering(l)    \* or the marker could not be removed
          /\ Goto(l, "abort")
          /\ UNCHANGED <<marker, mutex, shell>>
    /\ UNCHANGED <<bridge, record, helper, history>>

----------------------------------------------------------------------------
(* abort_owned_launch and stop_owned_bridge. *)

Fatal(l) == lost' = Leaves(l) /\ Fails(l)
Kill(b, kids) ==
    [WithoutWorkers(kids) EXCEPT ![b].st = IF Alive(b) THEN "dead" ELSE @]

\* A bridge that ends between the two looks leaves its workers unlisted.
ListChildren(l) ==
    LET b == run[l].b
    IN  /\ At(l, "abort")
        /\ \E kids \in IF Alive(b) THEN {Workers \cap {b}, {}} ELSE Orphans({b}) :
             run' = [run EXCEPT ![l].stage = "abort kill", ![l].kids = kids]
        /\ UNCHANGED <<bridge, record, marker, mutex, shell, helper, history>>

AbortKill(l) ==
    LET b == run[l].b
    IN  /\ At(l, "abort kill")
        /\ \/ /\ bridge' = Kill(b, run[l].kids)
              /\ Goto(l, "rescan")
              /\ UNCHANGED <<mutex, shell, lost>>
           \/ Fatal(l) /\ UNCHANGED bridge
        /\ UNCHANGED <<record, marker, helper, owned, faults, starts>>

\* Bug: the workers are not looked for again once the bridge is gone.
NoSecondLook(b) == {{}}
SecondLook(b) == IF Alive(b) THEN {{}} ELSE Orphans({b})
Rescan(l) ==
    /\ At(l, "rescan")
    /\ \/ /\ \E o \in SecondLook(run[l].b) : bridge' = WithoutWorkers(o)
          /\ Goto(l, "unlink")
          /\ UNCHANGED <<mutex, shell, lost>>
       \/ Fatal(l) /\ UNCHANGED bridge
    /\ UNCHANGED <<record, marker, helper, owned, faults, starts>>

Unlink(l) ==
    /\ At(l, "unlink")
    /\ \/ record' = record \ {run[l].b} /\ UNCHANGED lost
       \/ lost' = Leaves(l) /\ UNCHANGED record
    /\ Fails(l)
    /\ UNCHANGED <<bridge, marker, helper, owned, faults, starts>>

Look(l) ==
    LET i == run[l].of
    IN  /\ At(l, "look")
        /\ \E state \in Health(i), taken \in PortTaken(i) :
             \/ /\ state = "wrong" \/ (state = "unavailable" /\ LiveRecords(i) = {} /\ taken)
                /\ Fails(l)
                /\ UNCHANGED <<bridge, record>>
             \/ /\ state = "unavailable" /\ LiveRecords(i) = {} /\ ~taken
                /\ \E s \in SUBSET DeadRecords(i) :
                     Cleaned(i, s) /\ Ended(l, s = DeadRecords(i), FALSE)
             \/ /\ state = "ready" \/ (state = "unavailable" /\ LiveRecords(i) # {})
                /\ UNCHANGED record
                /\ \/ Fails(l) /\ UNCHANGED bridge    \* not exactly one, or not verified
                   \/ \E b \in Verified(i) :
                        /\ run' = [run EXCEPT ![l].stage = "exit", ![l].b = b,
                                              ![l].kids = Workers \cap {b}]
                        /\ bridge' = IF state = "ready" /\ bridge[b].st = "ready"
                                     THEN [bridge EXCEPT ![b].st = "closing"] ELSE bridge
                        /\ UNCHANGED <<mutex, shell>>
        /\ UNCHANGED <<marker, helper, history>>

\* The bridge ended in time, or its children are listed again before it is ended.
AwaitExit(l) ==
    LET b == run[l].b
    IN  /\ At(l, "exit")
        /\ IF ~Alive(b)
           THEN /\ bridge' = WithoutWorkers(run[l].kids)
                /\ Ended(l, TRUE, FALSE)
           ELSE /\ run' = [run EXCEPT ![l].stage = "stop kill",
                                      ![l].kids = @ \cup (Workers \cap {b})]
                /\ UNCHANGED <<bridge, mutex, shell>>
        /\ UNCHANGED <<record, marker, helper, history>>

StopKill(l) ==
    /\ At(l, "stop kill")
    /\ \/ bridge' = Kill(run[l].b, run[l].kids) /\ Ended(l, TRUE, FALSE)
       \/ Fails(l) /\ UNCHANGED bridge
    /\ UNCHANGED <<record, marker, helper, history>>

----------------------------------------------------------------------------
(* The user, the shell and its monitor. *)

Launch(i, cmd, child) ==
    \E l \in Launchers :
        /\ At(l, "idle") /\ starts < MaxStarts
        /\ starts' = starts + 1
        /\ run' = [run EXCEPT ![l] = [Idle EXCEPT !.stage = IF cmd = "stop" THEN "mutex" ELSE "admit",
                                                  !.cmd = cmd, !.of = i, !.child = child]]
Calm(i) == \A l \in Launchers : At(l, "idle") \/ ~run[l].child \/ run[l].of # i
ShellTo(i, st) == shell' = [shell EXCEPT ![i].st = st]
shellOnly == <<bridge, record, marker, mutex, helper, owned, lost, faults>>

Command(i, cmd) ==
    /\ cmd \in {"start", "stop"} /\ Launch(i, cmd, FALSE)
    /\ UNCHANGED <<shellOnly, shell>>

Desktop(i) ==
    /\ shell[i].st = "off" /\ ShellTo(i, "starting") /\ Launch(i, "start", TRUE)
    /\ UNCHANGED shellOnly

\* The window's own registration, and whatever else may fail before it is shown;
\* a bridge that was only reused is left alone then.
Open(i) ==
    /\ shell[i].st = "opening"
    /\ \/ ~Claimed /\ ShellTo(i, "open") /\ UNCHANGED <<run, starts>>
       \/ /\ IF shell[i].created THEN ShellTo(i, "quitting") /\ Launch(i, "stop", TRUE)
             ELSE shell' = [shell EXCEPT ![i] = NoShell] /\ UNCHANGED <<run, starts>>
    /\ UNCHANGED shellOnly

\* monitorBridge.
Recover(i) ==
    /\ shell[i].st = "open" /\ Calm(i)
    /\ i \notin marker /\ Health(i) # {"ready"}
    /\ Launch(i, "recovery", TRUE)
    /\ UNCHANGED <<shellOnly, shell>>

\* before-quit waits for a recovery at work.
Quit(i) ==
    /\ shell[i].st = "open" /\ Calm(i)
    /\ ShellTo(i, "quitting") /\ Launch(i, "stop", TRUE)
    /\ UNCHANGED shellOnly

\* The update controller asks the gate, waits for a recovery and stops the bridge.
BeginUpdate ==
    /\ shell[Default].st = "open" /\ Calm(Default)
    /\ ~Claimed
    /\ \A l \in Launchers : ~run[l].reg
    /\ \A b \in Bridges : Registered(b) => bridge[b].of = Default
    /\ \A i \in Instances : shell[i].reg => i = Default
    /\ ShellTo(Default, "updating") /\ Launch(Default, "stop", TRUE)
    /\ UNCHANGED shellOnly

SpawnHelper ==
    /\ shell[Default].st = "stopped"
    /\ \/ /\ helper = "none" /\ helper' = "born"
          /\ ShellTo(Default, "handoff") /\ UNCHANGED <<run, starts>>
       \/ /\ ShellTo(Default, "restoring") /\ Launch(Default, "start", TRUE)
          /\ UNCHANGED helper
    /\ UNCHANGED <<bridge, record, marker, mutex, owned, lost, faults>>

HandoffQuit ==
    /\ shell[Default].st = "handoff" /\ shell' = [shell EXCEPT ![Default] = NoShell]
    /\ UNCHANGED <<shellOnly, run, starts>>

\* Only the shell that launched the updater is exempt; it must still be that shell.
Peers ==
    {b \in Bridges : Registered(b)} \cup {l \in Launchers : run[l].reg} \cup
    {i \in Instances : shell[i].reg /\ ~(i = Default /\ shell[i].st = "handoff")}
ClaimGate ==
    /\ helper = "born"
    /\ helper' = IF Peers = {} THEN "claimed" ELSE "none"
    /\ UNCHANGED <<bridge, record, marker, mutex, run, shell, history>>
\* The updater releases its claim, or ends and with it the claim.
ReleaseGate ==
    /\ Claimed /\ helper' = "none"
    /\ UNCHANGED <<bridge, record, marker, mutex, run, shell, history>>

----------------------------------------------------------------------------
(* Bridges. *)

BridgeTo(b, st) == bridge' = [bridge EXCEPT ![b].st = st]
bridgeOnly == <<record, mutex, run, shell, helper, owned, lost, starts>>

\* A bridge registers before it serves.
Serve(b) ==
    /\ bridge[b].st = "booting"
    /\ BridgeTo(b, IF BridgeAdmitted THEN "ready" ELSE "dead")
    /\ UNCHANGED <<bridgeOnly, marker, faults>>

StartWorker(b) ==
    /\ bridge[b].st = "ready" /\ ~bridge[b].worker
    /\ bridge' = [bridge EXCEPT ![b].worker = TRUE]
    /\ UNCHANGED <<bridgeOnly, marker, faults>>

\* Clearing the current account: the bridge drains, marks, deletes and exits, or
\* serves again and removes its mark.
Clear(b) ==
    /\ \/ bridge[b].st = "ready" /\ BridgeTo(b, "clearing") /\ UNCHANGED marker
       \/ bridge[b].st = "clearing" /\ BridgeTo(b, "cleared") /\ marker' = marker \cup {bridge[b].of}
       \/ bridge[b].st \in {"clearing", "cleared"} /\ BridgeTo(b, "resumed") /\ UNCHANGED marker
       \/ bridge[b].st = "resumed" /\ BridgeTo(b, "ready") /\ marker' = marker \ {bridge[b].of}
    /\ UNCHANGED <<bridgeOnly, faults>>

Exit(b) ==
    /\ bridge[b].st \in {"cleared", "closing"}
    /\ bridge' = [bridge EXCEPT ![b].st = "dead", ![b].worker = FALSE]
    /\ UNCHANGED <<bridgeOnly, marker, faults>>

Fault == faults < MaxFaults /\ faults' = faults + 1
CrashBridge(b) ==
    /\ Alive(b) /\ BridgeTo(b, "dead") /\ Fault
    /\ UNCHANGED <<bridgeOnly, marker>>
Hang(b) ==
    /\ \/ bridge[b].st = "ready" /\ BridgeTo(b, "hung") /\ Fault
       \/ bridge[b].st = "hung" /\ BridgeTo(b, "ready") /\ UNCHANGED faults
    /\ UNCHANGED <<bridgeOnly, marker>>
ReusePid(b) ==
    /\ bridge[b].st = "dead" /\ b \in record /\ ~bridge[b].reused /\ Fault
    /\ bridge' = [bridge EXCEPT ![b].reused = TRUE]
    /\ UNCHANGED <<bridgeOnly, marker>>
\* execFile ends a launcher that takes too long; so may the user.
KillLauncher(l) ==
    /\ ~At(l, "idle") /\ Fault /\ Fails(l)
    /\ lost' = Leaves(l)
    /\ UNCHANGED <<bridge, record, marker, helper, owned, starts>>
CrashShell(i) ==
    /\ shell[i].st # "off" /\ Fault
    /\ shell' = [shell EXCEPT ![i] = NoShell]
    /\ run' = [l \in Launchers |-> IF run[l].of = i THEN [run[l] EXCEPT !.child = FALSE] ELSE run[l]]
    /\ UNCHANGED <<bridge, record, marker, mutex, helper, owned, lost, starts>>

Next ==
    \/ \E l \in Launchers :
         \/ Admit(l) \/ CheckMark(l) \/ Take(l) \/ CheckHealth(l) \/ CheckRecords(l)
         \/ Spawn(l) \/ WriteRecord(l) \/ Await(l) \/ Latch(l)
         \/ ListChildren(l) \/ AbortKill(l) \/ Rescan(l) \/ Unlink(l)
         \/ Look(l) \/ AwaitExit(l) \/ StopKill(l) \/ KillLauncher(l)
    \/ \E i \in Instances :
         \/ Desktop(i) \/ Open(i) \/ Recover(i) \/ Quit(i) \/ CrashShell(i)
         \/ \E cmd \in {"start", "stop"} : Command(i, cmd)
    \/ BeginUpdate \/ SpawnHelper \/ HandoffQuit \/ ClaimGate \/ ReleaseGate
    \/ \E b \in Bridges :
         \/ Serve(b) \/ StartWorker(b) \/ Clear(b) \/ Exit(b)
         \/ CrashBridge(b) \/ Hang(b) \/ ReusePid(b)

Spec == Init /\ [][Next]_vars

----------------------------------------------------------------------------
(* Properties. *)

TypeOK ==
    /\ record \subseteq Bridges /\ owned \subseteq Bridges /\ lost \subseteq Instances
    /\ marker \subseteq Instances
    /\ mutex \in [Instances -> Launchers \cup {None}]
    /\ helper \in {"none", "born", "claimed"}
    /\ \A i \in Instances, l \in Launchers :
         mutex[i] = l => run[l].of = i /\ run[l].stage \notin {"idle", "admit", "mark", "mutex"}

\* While an updater holds the claim, nothing else of the installation works: no
\* bridge has registered, no launcher that starts anything is admitted, and the
\* only window left is that of the shell that launched it, on its way out
\* (installation_gate.py: no window can enter between the check and the claim).
UpdateIsAlone ==
    Claimed =>
        /\ \A b \in Bridges : ~Registered(b)
        /\ \A l \in Launchers : ~run[l].reg
        /\ \A i \in Instances : shell[i].st \notin {"open", "updating", "stopped"}

\* A cleared account stays closed: as long as its marker stands, no bridge serves
\* but one whose launcher has yet to look at the marker, or one of an instance for
\* which a launcher was killed, or failed, before it was done with its bridge
\* (ensure_service, _mark_no_recovery, real-client-recovery.cjs).
ClearedStaysDown ==
    \A b \in Bridges : bridge[b].st = "ready" /\ bridge[b].of \in marker =>
        AtWork(b) \/ bridge[b].of \in lost

\* A record lasts as long as what it is the only trace of: while a bridge that
\* was recorded runs, or a worker of it does, its record is there to find them
\* by; at most one recorded bridge of an instance runs; and one that runs without
\* a record has its launcher at work, unless that was killed (owned_bridge_records,
\* abort_owned_launch, write_control_record).
RecordsOutliveProcesses ==
    /\ TypeOK
    /\ \A b \in owned : Alive(b) \/ bridge[b].worker => b \in record
    /\ \A i \in Instances : Cardinality(LiveRecords(i)) <= 1
    /\ \A b \in Bridges : Alive(b) /\ b \notin owned => AtWork(b) \/ bridge[b].of \in lost

=============================================================================
