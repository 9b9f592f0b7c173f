---------------------------- MODULE UpdateHelper ----------------------------
(***************************************************************************)
(* The desktop update helper (src/scripts/real-client-update-helper.cjs):  *)
(* a process of its own that swaps the installation directory for a        *)
(* candidate, proves that the new client comes up, commits, or puts the old *)
(* installation back, with a journal on disk and a RunOnce registration    *)
(* that starts a recovery at the next logon.                               *)
(*                                                                         *)
(* One action is one effect on the disk (a rename, a copy, a journal       *)
(* replacement) or on a process.  Any of them may fail, the helper may be  *)
(* killed and the machine restarted between any two.  The operations of one *)
(* work directory follow each other: the install, a rollback to the backup, *)
(* a rollback of the rollback.  What a step does is in Do, what it needs in *)
(* Possible, where it leads in Forward and Backward, and where its failure *)
(* leads in Handler.                                                       *)
(***************************************************************************)
EXTENDS Integers, Sequences

CONSTANTS
    Previous,       \* the client that is installed at first
    Update,         \* the client that was staged as win-unpacked
    NoTree, NoData,
    MaxOps,         \* bound: operations in this work directory
    MaxWork,        \* bound: times the user makes new data
    MaxCrash,       \* bound: kills and restarts while a helper runs
    MaxFail         \* bound: steps that fail for an outside reason

ASSUME UpdateAssumption ==
    /\ Previous # Update /\ NoTree \notin {Previous, Update}
    /\ MaxOps \in Nat \ {0} /\ MaxWork \in Nat /\ MaxCrash \in Nat /\ MaxFail \in Nat
    /\ NoData \notin 0..MaxWork

Trees == {Previous, Update}
Data == 0..MaxWork
Places == {"install", "unpacked", "backup", "current", "failed"}

VARIABLES
    op,           \* the operation of the last helper
    at,           \* the client tree in each directory
    local,        \* the user data (.local) inside each tree
    aside,        \* the rollback's data directories: staged, oldLocal, failedLocal
    journal,      \* journal.json
    prior,        \* prior-journal-<operation>.json
    mem,          \* the helper's journal object
    armed,        \* the operation in RunOnce
    pc,           \* the next step of the helper, "idle" when none runs
    mode,         \* "run", "recover", or "reopen": where a failure is handled
    bridge,       \* the bridge of the installed tree: its port counts once it is up
    gui,          \* the window of the installed tree
    latest,       \* history: the data the user made last
    candidateData,\* history: the data in the candidate when the operation began
    lapsed,       \* history: the last helper ended before it registered its recovery
    crashes, failures

disk == <<at, local, aside, journal, prior, armed>>
processes == <<bridge, gui>>
vars == <<op, disk, mem, pc, mode, processes, latest, candidateData, lapsed, crashes,
          failures>>

-----------------------------------------------------------------------------
(* Operations, places and journals *)

Operation(n, action, old, new) == [n |-> n, action |-> action, old |-> old, new |-> new]
Operations == [n : 0..MaxOps, action : {"none", "install", "rollback"}, old : Trees, new : Trees]
NoOp == Operation(0, "none", Previous, Update)

\* Mutant: a recovery trusts any journal it finds.
AnyJournal(o, p) == TRUE

\* What recoverOperation compares; the name of the operation file is not in it.
SameOperation(o, p) == o.action = p.action /\ o.old = p.old /\ o.new = p.new

Candidate(o) == IF o.action = "install" THEN "unpacked" ELSE "backup"
Backup(o) == IF o.action = "install" THEN "backup" ELSE "current"

Phases == {"none", "prepared", "old_moved", "new_moved", "starting", "validating", "validated",
           "finalizing", "succeeded", "failed", "rolled_back"}

\* guiStarted, backupCommitPending, restoreGuiStarted, candidateHadLocal
Blank(o) == [op |-> o, phase |-> "none", gui |-> FALSE, pending |-> FALSE,
             restored |-> FALSE, hadLocal |-> FALSE]
Journals == [op : Operations, phase : Phases, gui : BOOLEAN, pending : BOOLEAN,
             restored : BOOLEAN, hadLocal : BOOLEAN]

NoAside == [staged |-> NoData, oldLocal |-> NoData, failedLocal |-> NoData]

Committed(j) == j.phase = "succeeded" /\ j.gui
\* restorePriorJournal puts the journal of the operation before it back.
Terminal(j) == j.phase = "none" \/ Committed(j) \/ (j.phase = "rolled_back" /\ j.restored)

\* A tree whose bridge or window runs cannot be renamed.
InUse == bridge # "none" \/ gui # "none"
PortVacant == bridge # "up" /\ gui # "user"

-----------------------------------------------------------------------------
(* The programs: the order of the steps.  A step named like a phase saves   *)
(* the journal with that phase.                                            *)

Forward(o) ==
    IF o.action = "install"
    THEN <<"parent", "check", "copy", "prepared", "arm",
           "moveOld", "old_moved", "moveNew", "new_moved", "startBridge", "starting", "health",
           "validating", "openWindow", "closeWindow", "validated",
           "finalizing", "openFinal", "awaitFinal", "succeeded", "disarm">>
    ELSE <<"parent", "check", "copy", "keepPrior", "prepared", "arm", "stash", "unstage",
           "moveOld", "old_moved", "moveNew", "new_moved", "startBridge", "starting", "health",
           "validating", "openWindow", "closeWindow", "validated", "pending",
           "finalizing", "openFinal", "awaitFinal", "succeeded", "commit", "committed", "disarm">>

\* stopping, rollbackFiles and finishRestored
Backward(o) ==
    IF o.action = "install"
    THEN <<"quiet", "moveOut", "moveBack", "rolled_back", "reopen", "restored", "disarm">>
    ELSE <<"quiet", "moveOut", "moveBack", "dropLocal", "restoreLocal",
           "rolled_back", "reopen", "restored", "restorePrior", "disarm">>

Follows(s, p) == LET i == CHOOSE k \in DOMAIN s : s[k] = p IN s[i + 1]
InProgram(s, p) == \E k \in DOMAIN s : s[k] = p

After(p) ==
    CASE p = "disarm" -> "idle"
      [] p = "failed" -> "quiet"
      [] p \in {"failedAgain", "relabel"} -> "idle"
      [] p = "unarm" -> "abandon"
      [] p # "disarm" /\ InProgram(Forward(op), p) -> Follows(Forward(op), p)
      [] p # "disarm" /\ InProgram(Backward(op), p) -> Follows(Backward(op), p)

Preparing == {"check", "copy", "keepPrior", "prepared"}
Swapping == {"stash", "unstage", "moveOld", "old_moved", "moveNew", "new_moved", "startBridge",
             "starting", "health", "validating", "openWindow", "closeWindow", "validated", "pending"}
Finalizing == {"finalizing", "openFinal", "awaitFinal", "succeeded"}
Committing == {"commit", "committed"}
Undoing == {"quiet", "moveOut", "moveBack", "dropLocal", "restoreLocal", "rolled_back"}
Reopening == {"reopen", "restored", "restorePrior"}
Early == {"claim", "read", "rearm"}
Saving == {"prepared", "old_moved", "new_moved", "starting", "validating", "validated", "pending",
           "finalizing", "succeeded", "committed", "failed", "failedAgain", "rolled_back",
           "relabel", "restored"}
Steps == Preparing \cup Swapping \cup Finalizing \cup Committing \cup Undoing \cup Reopening
         \cup Early \cup Saving \cup {"parent", "arm", "unarm", "abandon", "disarm"}

\* The catch blocks.  A run that fails after the commit leaves it to RunOnce.
Handler(p) ==
    CASE p \in Preparing -> "abandon"
      [] p = "arm" -> "unarm"
      [] p = "unarm" -> "abandon"
      [] p \in Swapping \cup Finalizing /\ mode = "run" -> "failed"
      [] p \in Undoing \cup {"relabel"} /\ mode = "run" -> "failedAgain"
      [] p \in Reopening /\ mode # "reopen" -> "relabel"
      [] OTHER -> "idle"

-----------------------------------------------------------------------------
(* save: the journal object changes first, then it replaces the file        *)

Saved(p) ==
    CASE p = "prepared" ->
           [Blank(op) EXCEPT !.phase = "prepared",
               !.hadLocal = op.action = "rollback" /\ local[op.new] # NoData]
      [] p = "pending" -> [mem EXCEPT !.phase = "validated", !.pending = TRUE]
      [] p = "finalizing" -> [mem EXCEPT !.phase = "finalizing", !.gui = FALSE]
      [] p = "succeeded" ->
           [mem EXCEPT !.phase = "succeeded", !.gui = TRUE, !.pending = op.action = "rollback"]
      [] p = "committed" -> [mem EXCEPT !.phase = "succeeded", !.pending = FALSE]
      [] p = "failedAgain" -> [mem EXCEPT !.phase = "failed"]
      [] p \in {"rolled_back", "relabel"} ->
           [mem EXCEPT !.phase = "rolled_back", !.restored = FALSE]
      [] p = "restored" -> [mem EXCEPT !.phase = "rolled_back", !.restored = TRUE]
      [] OTHER -> [mem EXCEPT !.phase = p]

Save(p) ==
    /\ mem' = Saved(p) /\ journal' = mem'
    /\ UNCHANGED <<at, local, aside, prior, armed, processes>>

\* renameSync onto a directory that exists is an error, so every rename
\* names a free target.
MoveTree(p, q) ==
    /\ at' = [at EXCEPT ![q] = at[p], ![p] = NoTree]
    /\ UNCHANGED <<local, aside, journal, prior, armed, mem, processes>>

MoveData(new, fields) ==
    /\ local' = [local EXCEPT ![op.new] = new]
    /\ aside' = fields
    /\ UNCHANGED <<at, journal, prior, armed, mem, processes>>

\* Mutant: a recovery does not register itself again.
ArmsWhenRun(o) ==
    /\ armed' = IF mode = "run" THEN o ELSE armed
    /\ UNCHANGED <<at, local, aside, journal, prior, mem, processes>>

Arms(o) ==
    /\ armed' = o
    /\ UNCHANGED <<at, local, aside, journal, prior, mem, processes>>

Looks == UNCHANGED <<disk, mem, processes>>

-----------------------------------------------------------------------------
(* What a step needs, apart from luck *)

\* stopOwnedBridge is tried on an installed tree that the operation put there.
MayStopBridge ==
    /\ at["install"] # NoTree
    /\ IF mode = "run" THEN at[Candidate(op)] = NoTree
       ELSE mem.phase \in {"starting", "validating", "validated", "finalizing"}

HasBackup == at[Backup(op)] # NoTree
Installed == at["install"] # NoTree

\* Mutant: a rollback's candidate goes where an install's candidate goes.
AlwaysFailed == "failed"
OutOfTheWay == IF op.action = "install" THEN "failed" ELSE Candidate(op)

\* Mutant: the installed tree is taken for granted.
MovesOutInstalled == Installed /\ at[Candidate(op)] = NoTree

\* The branches of rollbackFiles: out of the way with the installed tree when
\* there is a backup, nothing to do when only one of them is there.
CanMoveOut ==
    IF HasBackup /\ Installed
    THEN at[Candidate(op)] = NoTree /\ at[OutOfTheWay] = NoTree /\ ~InUse
    ELSE HasBackup \/ Installed

LocalMustGo ==
    /\ aside.oldLocal # NoData \/ ~mem.hadLocal
    /\ local[op.new] # NoData

Possible(p) ==
    CASE p = "check" -> PortVacant /\ at[Backup(op)] = NoTree /\ at["failed"] = NoTree
      [] p = "moveOld" -> Installed /\ ~HasBackup /\ PortVacant /\ ~InUse
      [] p = "moveNew" -> ~Installed /\ at[Candidate(op)] # NoTree
      [] p = "health" -> bridge = "up"
      [] p = "commit" -> (at["current"] = NoTree) # (at["backup"] = NoTree)
      [] p = "quiet" -> PortVacant \/ MayStopBridge
      [] p = "moveOut" -> CanMoveOut
      [] p = "moveBack" -> HasBackup => ~Installed
      [] p = "dropLocal" -> LocalMustGo => aside.failedLocal = NoData
      [] p = "reopen" -> at["install"] = op.old
      [] p = "read" -> SameOperation(journal.op, op)
      [] OTHER -> TRUE

-----------------------------------------------------------------------------
(* What a step does *)

\* Mutant: a rollback goes back to the data of the backup.
CopyForward ==
    MoveData(IF op.action = "install" /\ local[op.old] # NoData
             THEN local[op.old] ELSE local[op.new], aside)

Copy ==
    IF op.action = "install"
    THEN MoveData(IF local[op.old] # NoData THEN local[op.old] ELSE local[op.new], aside)
    ELSE MoveData(local[op.new], [aside EXCEPT !.staged = local[op.old]])

\* The rollback puts the candidate's own data aside for the copy.
Stash == MoveData(NoData, [aside EXCEPT !.oldLocal = local[op.new]])
Unstage ==
    IF aside.staged # NoData
    THEN MoveData(aside.staged, [aside EXCEPT !.staged = NoData])
    ELSE Looks

\* restoreCandidateLocal, its two renames
DropLocal ==
    IF LocalMustGo
    THEN MoveData(NoData, [aside EXCEPT !.failedLocal = local[op.new]])
    ELSE Looks

\* Mutant: the data that was put aside is left there.
LeaveLocal == Looks
RestoreLocal ==
    IF aside.oldLocal # NoData
    THEN MoveData(aside.oldLocal, [aside EXCEPT !.oldLocal = NoData])
    ELSE Looks

MoveOut == IF HasBackup /\ Installed THEN MoveTree("install", OutOfTheWay) ELSE Looks
MoveBack == IF HasBackup THEN MoveTree(Backup(op), "install") ELSE Looks

\* commitBackup: the tree that was left becomes the backup of this work directory.
Commit == IF HasBackup THEN MoveTree("current", "backup") ELSE Looks

KeepPrior ==
    /\ prior' = [op |-> op, journal |-> journal]
    /\ UNCHANGED <<at, local, aside, journal, armed, mem, processes>>

RestorePrior ==
    /\ journal' = IF prior.op = op THEN prior.journal ELSE journal
    /\ UNCHANGED <<at, local, aside, prior, armed, mem, processes>>

Process(b, g) ==
    /\ bridge' = b /\ gui' = g
    /\ UNCHANGED <<disk, mem>>

\* RunOnce could not be set: the operation is taken back.
Unarm == IF op.action = "rollback" THEN RestorePrior ELSE Save("rolled_back")

\* The copied data is removed and the old client opened again, if it can be.
Abandon ==
    \E opened \in BOOLEAN :
        /\ opened => at["install"] = op.old /\ PortVacant
        /\ gui' = IF opened THEN "user" ELSE gui
        /\ local' = IF op.action = "install" THEN [local EXCEPT ![op.new] = NoData] ELSE local
        /\ aside' = [aside EXCEPT !.staged = NoData]
        /\ mem' = IF opened /\ mem.phase = "rolled_back" THEN Saved("restored") ELSE mem
        /\ journal' = IF mem' # mem THEN mem' ELSE journal
        /\ UNCHANGED <<at, prior, armed, bridge>>

ReadJournal ==
    /\ mem' = journal
    /\ UNCHANGED <<disk, processes>>

Do(p) ==
    \/ p \in Saving /\ Save(p)
    \/ p \in {"parent", "check", "health", "awaitFinal", "claim"} /\ Looks
    \/ p = "copy" /\ Copy
    \/ p = "keepPrior" /\ KeepPrior
    \/ p \in {"arm", "rearm"} /\ Arms(op)
    \/ p = "stash" /\ Stash
    \/ p = "unstage" /\ Unstage
    \/ p = "moveOld" /\ MoveTree("install", Backup(op))
    \/ p = "moveNew" /\ MoveTree(Candidate(op), "install")
    \/ p = "startBridge" /\ Process("up", gui)
    \/ p = "openWindow" /\ Process(bridge, "validation")
    \/ p = "closeWindow" /\ Process(bridge, "none")
    \/ p = "openFinal" /\ Process(bridge, "final")
    \/ p = "commit" /\ Commit
    \/ p = "disarm" /\ (Arms(NoOp) \/ Looks)
    \/ p = "quiet" /\ Process(IF bridge = "up" THEN "none" ELSE bridge, "none")
    \/ p = "moveOut" /\ MoveOut
    \/ p = "moveBack" /\ MoveBack
    \/ p = "dropLocal" /\ DropLocal
    \/ p = "restoreLocal" /\ RestoreLocal
    \/ p = "reopen" /\ Process(bridge, "user")
    \/ p = "restorePrior" /\ RestorePrior
    \/ p = "unarm" /\ Unarm
    \/ p = "abandon" /\ Abandon
    \/ p = "read" /\ ReadJournal

\* Mutant: a recovery always goes back.
ResumedBackward == IF mem.phase = "rolled_back" THEN "reopen" ELSE "quiet"

\* recoverOperationClaimed: what the journal says decides.
Resumed ==
    CASE Committed(mem) -> IF mem.pending THEN "commit" ELSE "disarm"
      [] mem.phase = "rolled_back" /\ ~mem.restored -> "reopen"
      [] mem.phase = "rolled_back" /\ mem.restored -> After("restored")
      [] OTHER -> "quiet"

Leads(p) ==
    CASE p = "claim" -> "read"
      [] p = "read" -> "rearm"
      [] p = "rearm" -> Resumed
      [] p = "abandon" -> "idle"
      [] OTHER -> After(p)

Advance ==
    /\ pc \in Steps /\ Possible(pc)
    /\ Do(pc)
    /\ pc' = Leads(pc)
    /\ mode' = IF pc = "rearm" /\ mem.phase = "rolled_back" THEN "reopen" ELSE mode
    /\ UNCHANGED <<op, latest, candidateData, lapsed, crashes, failures>>

-----------------------------------------------------------------------------
(* Failures.  A step that needs what is not there always fails.            *)

Left(p) ==
    \/ p \in Saving /\ mem' = Saved(p) /\ UNCHANGED <<disk, processes>>
    \/ p = "startBridge" /\ \E b \in {"none", "coming", "up"} : Process(b, gui)
    \/ p = "quiet" /\ \E b \in {bridge, "none"} : Process(b, gui)
    \/ p = "openWindow" /\ \E g \in {"none", "validation"} : Process(bridge, g)
    \/ p = "arm" /\ (Arms(op) \/ Looks)
    \/ /\ p = "unarm"
       /\ mem' = IF op.action = "install" THEN Saved("rolled_back") ELSE mem
       /\ UNCHANGED <<disk, processes>>
    \/ p \notin Saving \cup {"startBridge", "quiet", "openWindow", "arm", "unarm"} /\ Looks

Outside(p) == failures < MaxFail /\ failures' = failures + 1

Fail ==
    /\ pc \in Steps \ {"awaitFinal", "succeeded", "disarm", "abandon"}
    /\ IF Possible(pc) THEN Outside(pc) ELSE UNCHANGED failures
    /\ Left(pc)
    /\ pc' = Handler(pc)
    /\ lapsed' = (lapsed \/ pc \in Early)
    /\ UNCHANGED <<op, mode, latest, candidateData, crashes>>

\* The final window is stopped before the operation is taken back; if it
\* does not stop, the journal stays "finalizing" for the next logon.
FinalFails ==
    /\ pc \in {"awaitFinal", "succeeded"} /\ Outside(pc)
    /\ mem' = IF pc = "succeeded" THEN Saved(pc) ELSE mem
    /\ \/ gui' = "none" /\ pc' = "failed"
       \/ gui' = gui /\ pc' = "idle"
    /\ UNCHANGED <<op, disk, mode, bridge, latest, candidateData, lapsed, crashes>>

\* startBridge gave up waiting for a launcher that gets there after all.
BridgeComesUp ==
    /\ bridge = "coming"
    /\ bridge' = "up"
    /\ UNCHANGED <<op, disk, mem, pc, mode, gui, latest, candidateData, lapsed, crashes,
                   failures>>

AllStop == bridge' = "none" /\ gui' = "none"

\* The helper dies; if the machine goes down, everything else does too.
Crash ==
    /\ pc # "idle" /\ crashes < MaxCrash
    /\ lapsed' = (lapsed \/ pc \in Early)
    /\ crashes' = crashes + 1
    /\ pc' = "idle"
    /\ UNCHANGED processes \/ AllStop
    /\ UNCHANGED <<op, disk, mem, mode, latest, candidateData, failures>>

-----------------------------------------------------------------------------
(* What starts a helper *)

Fresh(o) ==
    /\ op' = o /\ mem' = Blank(o)
    /\ AllStop
    /\ lapsed' = FALSE
    /\ UNCHANGED <<at, local, journal, prior, latest, crashes, failures>>

\* Windows removes a RunOnce value before it runs the command.
Logon ==
    /\ pc = "idle" /\ armed # NoOp
    /\ Fresh(armed)
    /\ armed' = NoOp
    /\ pc' = "claim" /\ mode' = "recover"
    /\ UNCHANGED <<aside, candidateData>>

Begin(o) ==
    /\ pc = "idle" /\ Fresh(o)
    /\ aside' = NoAside
    /\ candidateData' = local[o.new]
    /\ pc' = "parent" /\ mode' = "run"
    /\ UNCHANGED armed

Install == journal.phase = "none" /\ op = NoOp /\ Begin(Operation(1, "install", Previous, Update))

\* readRollback, which the client shows, and runOperation's own reading of
\* the journal.
Offered ==
    /\ journal.phase = "succeeded" /\ journal.op.new = at["install"]
    /\ at["backup"] # NoTree

Rollback ==
    /\ Offered /\ op.n < MaxOps
    /\ Begin(Operation(op.n + 1, "rollback", at["install"], journal.op.old))

\* The user works with the installed client.  A client that the journal does
\* not call succeeded holds its chats back.
Work ==
    /\ pc = "idle" /\ latest # MaxWork
    /\ Committed(journal) \/ at["install"] = journal.op.old
    /\ latest' = IF latest = NoData THEN 0 ELSE latest + 1
    /\ local' = [local EXCEPT ![at["install"]] = latest']
    /\ UNCHANGED <<op, at, aside, journal, prior, armed, mem, pc, mode, processes,
                   candidateData, lapsed, crashes, failures>>

-----------------------------------------------------------------------------

Init ==
    /\ op = NoOp
    /\ at = [p \in Places |-> IF p = "install" THEN Previous
                              ELSE IF p = "unpacked" THEN Update ELSE NoTree]
    /\ latest \in {NoData, 0}
    /\ local = [t \in Trees |-> IF t = Previous THEN latest ELSE NoData]
    /\ aside = NoAside
    /\ journal = Blank(NoOp) /\ mem = Blank(NoOp)
    /\ prior = [op |-> NoOp, journal |-> Blank(NoOp)]
    /\ armed = NoOp
    /\ pc = "idle" /\ mode = "run"
    /\ bridge = "none" /\ gui = "none"
    /\ candidateData = NoData
    /\ lapsed = FALSE
    /\ crashes = 0 /\ failures = 0

Next ==
    \/ Advance \/ Fail \/ FinalFails \/ BridgeComesUp \/ Crash
    \/ Install \/ Rollback \/ Logon \/ Work

\* A helper that runs takes its steps, and the user logs on again.
Fairness ==
    /\ WF_vars(Advance \/ Fail)
    /\ WF_vars(Logon)

Spec == Init /\ [][Next]_vars /\ Fairness

-----------------------------------------------------------------------------
(* Properties *)

TypeOK ==
    /\ op \in Operations /\ armed \in Operations
    /\ at \in [Places -> Trees \cup {NoTree}]
    /\ latest \in Data \cup {NoData} /\ candidateData \in Data \cup {NoData}
    /\ local \in [Trees -> Data \cup {NoData}]
    /\ aside \in [{"staged", "oldLocal", "failedLocal"} -> Data \cup {NoData}]
    /\ journal \in Journals /\ mem \in Journals
    /\ prior \in [op : Operations, journal : Journals]
    /\ pc \in Steps \cup {"idle"}
    /\ mode \in {"run", "recover", "reopen"}
    /\ bridge \in {"none", "coming", "up"}
    /\ gui \in {"none", "validation", "final", "user"}
    /\ lapsed \in BOOLEAN
    /\ crashes \in 0..MaxCrash /\ failures \in 0..MaxFail

\* Whatever was interrupted, rollbackFiles finds directories it can put back:
\* the old client is in place or in the backup, and if the new one is in
\* place, the directory it is moved out to is free.
Restorable ==
    LET o == journal.op IN
    journal.phase # "none" /\ ~Committed(journal) =>
        /\ o.old \in {at["install"], at[Backup(o)]}
        /\ at["install"] = o.new =>
               /\ at[Candidate(o)] = NoTree
               /\ o.action = "install" => at["failed"] = NoTree

\* A journal that says "succeeded" is never about a client that is not, or no
\* longer, installed: no recovery takes a committed operation back, and a
\* rollback that fails puts the journal back that fits the directories.
CommittedStays == Committed(journal) => at["install"] = journal.op.new

\* "rolled_back" is saved when the old client is back with the user's data and,
\* after a failed rollback, the backup holds its own client and own data again.
RestoredIsWhole ==
    LET o == journal.op IN
    journal.phase = "rolled_back" =>
        /\ at["install"] = o.old /\ local[o.old] = latest
        /\ o.action = "rollback" /\ o = op =>
               at["backup"] = o.new /\ local[o.new] = candidateData

\* No operation that has ended, well or badly, leaves the user with older data
\* than he had: copies, swaps and undone swaps carry it along.
DataKept == Terminal(journal) => local[at["install"]] = latest

\* After every operation that ended well, and after a rollback that failed, the
\* backup holds the client that readRollback and the journal name: the way back
\* is never lost, and never leads elsewhere.
WayBack ==
    Committed(journal) =>
        journal.op.old \in {at["backup"]} \cup (IF journal.pending THEN {at["current"]} ELSE {})

\* The old installation has left its place and the operation is neither
\* committed nor undone.
MidSwap ==
    /\ journal.phase # "none" /\ ~Committed(journal)
    /\ at["install"] = NoTree \/ at[Backup(journal.op)] # NoTree

\* "Keep RunOnce for a reboot attempt": nobody works on a half-swapped
\* installation without a recovery of it being registered, unless the last one
\* ended before it had registered itself again.
RecoveryArmed == MidSwap /\ pc = "idle" => armed = journal.op \/ lapsed

\* Whatever is interrupted and wherever, there is a way back, and somebody is
\* registered to take it: the directories can be put back, the backup is the one
\* that the journal names, and the next logon recovers a half-done swap.
Recoverable == TypeOK /\ Restorable /\ WayBack /\ RecoveryArmed

\* What an operation ends with, well or badly, is a whole installation with the
\* newest chats of the user, and what a journal says of it stays true.
EndsWhole == CommittedStays /\ RestoredIsWhole /\ DataKept

\* A half-swapped installation is completed or undone: no sequence of crashes
\* and failures leaves directories that the recoveries refuse for ever, as long
\* as a recovery comes to register itself again.
SwapEnds == MidSwap ~> (pc = "idle" /\ (~MidSwap \/ lapsed))

=============================================================================
