-------------------------- MODULE UpdateHelperProofs --------------------------
(***************************************************************************)
(* Proofs about UpdateHelper, for any number of operations, of kills and   *)
(* restarts, of failures and of pieces of new data.                        *)
(***************************************************************************)
EXTENDS UpdateHelper, TLAPS

-----------------------------------------------------------------------------
(* Where the two clients are *)

Real(o) == o.action \in {"install", "rollback"} /\ o.old # o.new

\* The old client is in x, the new one in y, and nothing is anywhere else.
Lies(o, x, y) == at = [p \in Places |-> IF p = x THEN o.old ELSE IF p = y THEN o.new ELSE NoTree]

\* Where a client that is taken back goes.
AwayFrom(o) == IF o.action = "install" THEN "failed" ELSE Candidate(o)

Ready(o) == Lies(o, "install", Candidate(o))
Empty(o) == Lies(o, Backup(o), Candidate(o))
Swapped(o) == Lies(o, Backup(o), "install")
TakenOut(o) == Lies(o, Backup(o), AwayFrom(o))
PutBack(o) == Lies(o, "install", AwayFrom(o))
Done(o) == Lies(o, "backup", "install")

Whole(o) == Ready(o) \/ PutBack(o)
Underway(o) == Whole(o) \/ Empty(o) \/ Swapped(o) \/ TakenOut(o)

-----------------------------------------------------------------------------
(* The inductive invariant *)

\* The candidate's own data is in the candidate or aside, and the journal knows
\* whether there was any.
OwnData(o) ==
    /\ journal.hadLocal = (candidateData # NoData)
    /\ \/ aside.oldLocal = candidateData /\ candidateData # NoData
       \/ aside.oldLocal = NoData /\ (local[o.new] = candidateData \/ candidateData = NoData)
OwnDataBack(o) == local[o.new] = candidateData /\ aside.oldLocal = NoData

\* What the journal says is true of the directories and of the data.
NothingYet ==
    /\ journal.op = NoOp /\ Lies(NoOp, "install", "unpacked") /\ local[Previous] = latest
    /\ op = NoOp => local[Update] = NoData
InProgress(o) ==
    /\ Real(o) /\ Underway(o)
    /\ local[o.old] = latest
    /\ o.action = "rollback" => OwnData(o)
    /\ journal.phase = "rolled_back" => Whole(o) /\ (o.action = "rollback" => OwnDataBack(o))
Settled(j) ==
    /\ Real(j.op)
    /\ Done(j.op) \/ (j.pending /\ Swapped(j.op))
    /\ j.pending => j.op.action = "rollback"
    /\ local[j.op.new] = latest

JournalRight ==
    /\ journal.phase = "none" => NothingYet
    /\ journal.phase # "none" /\ ~Committed(journal) => InProgress(journal.op)
    /\ Committed(journal) => Settled(journal)
    /\ journal.phase = "succeeded" => journal.gui

\* What was kept of the operation before is what a rollback goes back to.
PriorRight ==
    prior.op.action = "rollback" =>
        /\ Committed(prior.journal) /\ Real(prior.journal.op)
        /\ prior.journal.op.old = prior.op.new /\ prior.journal.op.new = prior.op.old
        /\ prior.journal.pending => prior.journal.op.action = "rollback"

\* A half-swapped installation is registered for recovery, or is being recovered.
ArmedRight ==
    /\ armed # NoOp => Real(armed)
    /\ lapsed => pc = "idle" /\ armed = NoOp
    /\ pc \in Early => armed = NoOp
    /\ MidSwap /\ pc \in Early => op = journal.op
    /\ MidSwap /\ pc \notin Early => armed = journal.op \/ lapsed

\* The journal on disk is of the operation at work, and neither committed nor undone.
AtWork ==
    /\ SameOperation(journal.op, op) /\ mem.op = journal.op
    /\ mem.hadLocal = journal.hadLocal
    /\ journal.phase # "none" /\ ~Committed(journal)

\* Before the journal of the operation is saved.
Beginning ==
    pc \in Preparing \cup {"parent"} =>
        /\ mode = "run" /\ mem = Blank(op) /\ Ready(op) /\ local[op.old] = latest
        /\ op.action = "install" =>
             /\ journal.phase = "none" /\ pc # "keepPrior"
             /\ local[op.new] = IF pc = "prepared" THEN latest ELSE NoData
        /\ op.action = "rollback" =>
             /\ Committed(journal) /\ journal.op.new = op.old /\ journal.op.old = op.new
             /\ local[op.new] = candidateData /\ aside.oldLocal = NoData
             /\ pc \in {"keepPrior", "prepared"} => aside.staged = latest

Registering ==
    pc \in {"arm", "unarm"} =>
        /\ mode = "run" /\ AtWork /\ journal.op = op /\ Ready(op)
        /\ mem.phase = "prepared" /\ journal.phase = "prepared"
        /\ IF op.action = "install" THEN local[op.new] = latest
           ELSE local[op.new] = candidateData /\ aside.oldLocal = NoData /\ aside.staged = latest

GivingUp ==
    pc = "abandon" =>
        /\ mode = "run" /\ Ready(op) /\ mem.op = op /\ local[op.old] = latest
        /\ op.action = "install" => journal.phase = "none" \/ (~Committed(journal) /\ journal.op = op)
        /\ mem.phase = "rolled_back" => op.action = "install" /\ journal.phase # "none"

Forwards ==
    pc \in Swapping \cup Finalizing =>
        /\ mode = "run" /\ AtWork /\ journal.op = op /\ armed = op /\ journal.phase # "rolled_back"
        /\ CASE pc \in {"stash", "unstage", "moveOld"} -> Ready(op)
             [] pc \in {"old_moved", "moveNew"} -> Empty(op)
             [] OTHER -> Swapped(op)
        /\ CASE pc = "stash" -> local[op.new] = candidateData /\ aside.oldLocal = NoData
                                /\ aside.staged = latest
             [] pc = "unstage" -> local[op.new] = NoData /\ aside.staged = latest
             [] OTHER -> local[op.new] = latest
        /\ pc \in {"stash", "unstage", "pending"} => op.action = "rollback"

Backwards ==
    /\ pc \in {"failed", "failedAgain", "relabel"} \cup Undoing \cup Reopening => AtWork /\ armed = op
    /\ pc \in {"failed", "failedAgain"} => mode = "run"
    /\ pc \in {"dropLocal", "restoreLocal", "rolled_back"} => Whole(op)
    /\ pc \in {"dropLocal", "restoreLocal", "restorePrior"} => op.action = "rollback"
    /\ pc = "restoreLocal" => aside.oldLocal # NoData \/ local[op.new] = candidateData
    /\ pc = "rolled_back" /\ op.action = "rollback" => OwnDataBack(op)
    /\ pc \in Reopening \cup {"relabel"} => journal.phase = "rolled_back"

Ending ==
    /\ pc \in Committing =>
         /\ SameOperation(journal.op, op) /\ mem = journal /\ Committed(journal)
         /\ journal.pending /\ op.action = "rollback" /\ armed = op
         /\ pc = "committed" => Done(op)
    /\ pc = "disarm" => armed = op /\ (Committed(journal) \/ journal.phase = "rolled_back")

Recovering ==
    /\ pc \in Early => mode = "recover"
    /\ pc = "rearm" => SameOperation(journal.op, op) /\ mem = journal

Working == pc # "idle" => Real(op)

ProgramRight == Beginning /\ Registering /\ GivingUp /\ Forwards /\ Backwards /\ Ending /\ Recovering

IInv == TypeOK /\ JournalRight /\ PriorRight /\ ArmedRight /\ Working /\ ProgramRight

-----------------------------------------------------------------------------
(* The programs *)

\* What follows each step of an install.
LEMMA InstallProgram ==
    ASSUME op.action = "install"
    PROVE  /\ After("parent") = "check" /\ After("check") = "copy"
           /\ After("copy") = "prepared" /\ After("prepared") = "arm"
           /\ After("arm") = "moveOld" /\ After("moveOld") = "old_moved"
           /\ After("old_moved") = "moveNew" /\ After("moveNew") = "new_moved"
           /\ After("new_moved") = "startBridge" /\ After("startBridge") = "starting"
           /\ After("starting") = "health" /\ After("health") = "validating"
           /\ After("validating") = "openWindow" /\ After("openWindow") = "closeWindow"
           /\ After("closeWindow") = "validated" /\ After("validated") = "finalizing"
           /\ After("finalizing") = "openFinal" /\ After("openFinal") = "awaitFinal"
           /\ After("awaitFinal") = "succeeded" /\ After("succeeded") = "disarm"
           /\ After("quiet") = "moveOut" /\ After("moveOut") = "moveBack"
           /\ After("moveBack") = "rolled_back" /\ After("rolled_back") = "reopen"
           /\ After("reopen") = "restored" /\ After("restored") = "disarm"
           /\ After("failed") = "quiet" /\ After("failedAgain") = "idle"
           /\ After("relabel") = "idle" /\ After("disarm") = "idle"
           /\ After("unarm") = "abandon"
<1>1. /\ After("parent") = "check" /\ After("check") = "copy" /\ After("copy") = "prepared"
     /\ After("prepared") = "arm" /\ After("arm") = "moveOld"
     /\ After("moveOld") = "old_moved"
    BY DEF After, InProgram, Follows, Forward, Backward
<1>2. /\ After("old_moved") = "moveNew" /\ After("moveNew") = "new_moved"
     /\ After("new_moved") = "startBridge" /\ After("startBridge") = "starting"
     /\ After("starting") = "health" /\ After("health") = "validating"
    BY DEF After, InProgram, Follows, Forward, Backward
<1>3. /\ After("validating") = "openWindow" /\ After("openWindow") = "closeWindow"
     /\ After("closeWindow") = "validated" /\ After("validated") = "finalizing"
     /\ After("finalizing") = "openFinal" /\ After("openFinal") = "awaitFinal"
    BY DEF After, InProgram, Follows, Forward, Backward
<1>4. /\ After("awaitFinal") = "succeeded" /\ After("succeeded") = "disarm"
     /\ After("quiet") = "moveOut" /\ After("moveOut") = "moveBack"
     /\ After("moveBack") = "rolled_back" /\ After("rolled_back") = "reopen"
    BY DEF After, InProgram, Follows, Forward, Backward
<1>5. /\ After("reopen") = "restored" /\ After("restored") = "disarm"
     /\ After("failed") = "quiet" /\ After("failedAgain") = "idle"
     /\ After("relabel") = "idle" /\ After("disarm") = "idle"
    BY DEF After, InProgram, Follows, Forward, Backward
<1>6. /\ After("unarm") = "abandon"
    BY DEF After, InProgram, Follows, Forward, Backward
<1> QED  BY <1>1, <1>2, <1>3, <1>4, <1>5, <1>6

\* What follows each step of a rollback.
LEMMA RollbackProgram ==
    ASSUME op.action = "rollback"
    PROVE  /\ After("parent") = "check" /\ After("check") = "copy"
           /\ After("copy") = "keepPrior" /\ After("keepPrior") = "prepared"
           /\ After("prepared") = "arm" /\ After("arm") = "stash"
           /\ After("stash") = "unstage" /\ After("unstage") = "moveOld"
           /\ After("moveOld") = "old_moved" /\ After("old_moved") = "moveNew"
           /\ After("moveNew") = "new_moved" /\ After("new_moved") = "startBridge"
           /\ After("startBridge") = "starting" /\ After("starting") = "health"
           /\ After("health") = "validating" /\ After("validating") = "openWindow"
           /\ After("openWindow") = "closeWindow" /\ After("closeWindow") = "validated"
           /\ After("validated") = "pending" /\ After("pending") = "finalizing"
           /\ After("finalizing") = "openFinal" /\ After("openFinal") = "awaitFinal"
           /\ After("awaitFinal") = "succeeded" /\ After("succeeded") = "commit"
           /\ After("commit") = "committed" /\ After("committed") = "disarm"
           /\ After("quiet") = "moveOut" /\ After("moveOut") = "moveBack"
           /\ After("moveBack") = "dropLocal" /\ After("dropLocal") = "restoreLocal"
           /\ After("restoreLocal") = "rolled_back" /\ After("rolled_back") = "reopen"
           /\ After("reopen") = "restored" /\ After("restored") = "restorePrior"
           /\ After("restorePrior") = "disarm" /\ After("failed") = "quiet"
           /\ After("failedAgain") = "idle" /\ After("relabel") = "idle"
           /\ After("disarm") = "idle" /\ After("unarm") = "abandon"
<1>1. /\ After("parent") = "check" /\ After("check") = "copy" /\ After("copy") = "keepPrior"
     /\ After("keepPrior") = "prepared" /\ After("prepared") = "arm"
     /\ After("arm") = "stash"
    BY DEF After, InProgram, Follows, Forward, Backward
<1>2. /\ After("stash") = "unstage" /\ After("unstage") = "moveOld"
     /\ After("moveOld") = "old_moved" /\ After("old_moved") = "moveNew"
     /\ After("moveNew") = "new_moved" /\ After("new_moved") = "startBridge"
    BY DEF After, InProgram, Follows, Forward, Backward
<1>3. /\ After("startBridge") = "starting" /\ After("starting") = "health"
     /\ After("health") = "validating" /\ After("validating") = "openWindow"
     /\ After("openWindow") = "closeWindow" /\ After("closeWindow") = "validated"
    BY DEF After, InProgram, Follows, Forward, Backward
<1>4. /\ After("validated") = "pending" /\ After("pending") = "finalizing"
     /\ After("finalizing") = "openFinal" /\ After("openFinal") = "awaitFinal"
     /\ After("awaitFinal") = "succeeded" /\ After("succeeded") = "commit"
    BY DEF After, InProgram, Follows, Forward, Backward
<1>5. /\ After("commit") = "committed" /\ After("committed") = "disarm"
     /\ After("quiet") = "moveOut" /\ After("moveOut") = "moveBack"
     /\ After("moveBack") = "dropLocal" /\ After("dropLocal") = "restoreLocal"
    BY DEF After, InProgram, Follows, Forward, Backward
<1>6. /\ After("restoreLocal") = "rolled_back" /\ After("rolled_back") = "reopen"
     /\ After("reopen") = "restored" /\ After("restored") = "restorePrior"
     /\ After("restorePrior") = "disarm" /\ After("failed") = "quiet"
    BY DEF After, InProgram, Follows, Forward, Backward
<1>7. /\ After("failedAgain") = "idle" /\ After("relabel") = "idle"
     /\ After("disarm") = "idle" /\ After("unarm") = "abandon"
    BY DEF After, InProgram, Follows, Forward, Backward
<1> QED  BY <1>1, <1>2, <1>3, <1>4, <1>5, <1>6, <1>7

-----------------------------------------------------------------------------
(* Directories *)

LEMMA Where ==
    ASSUME NEW o \in Operations, Real(o), NEW x \in Places, NEW y \in Places, x # y, Lies(o, x, y)
    PROVE  /\ at[x] = o.old /\ at[y] = o.new /\ \A p \in Places \ {x, y} : at[p] = NoTree
           /\ o.old # NoTree /\ o.new # NoTree
<1>1. o.old \in Trees /\ o.new \in Trees
    BY DEF Operations
<1>2. o.old # NoTree /\ o.new # NoTree
    BY <1>1, UpdateAssumption DEF Trees
<1> QED  BY <1>2 DEF Lies

LEMMA OldMoves ==
    ASSUME NEW o, NEW x \in Places, NEW y \in Places, NEW q \in Places, x # y, q # x, q # y,
           Lies(o, x, y), MoveTree(x, q)
    PROVE  Lies(o, q, y)'
BY DEF Lies, MoveTree

LEMMA NewMoves ==
    ASSUME NEW o, NEW x \in Places, NEW y \in Places, NEW q \in Places, x # y, q # x, q # y,
           Lies(o, x, y), MoveTree(y, q)
    PROVE  Lies(o, x, q)'
BY DEF Lies, MoveTree

\* The places of an operation.
LEMMA ItsPlaces ==
    ASSUME NEW o, Real(o)
    PROVE  /\ Candidate(o) \in Places \ {"install"} /\ Backup(o) \in Places \ {"install"}
           /\ AwayFrom(o) \in Places \ {"install"}
           /\ Backup(o) # Candidate(o) /\ Backup(o) # AwayFrom(o)
           /\ "backup" \in Places /\ "install" \in Places
           /\ o.action = "install" => Backup(o) = "backup" /\ Candidate(o) = "unpacked"
                                      /\ AwayFrom(o) = "failed"
           /\ o.action = "rollback" => Backup(o) = "current" /\ Candidate(o) = "backup"
                                       /\ AwayFrom(o) = "backup"
BY DEF Real, Candidate, Backup, AwayFrom, Places

\* Two operations that SameOperation takes for one have one layout.
LEMMA SameLayout ==
    ASSUME NEW o, NEW p, SameOperation(o, p)
    PROVE  /\ Real(o) <=> Real(p)
           /\ \A x, y : Lies(o, x, y) <=> Lies(p, x, y)
           /\ Candidate(o) = Candidate(p) /\ Backup(o) = Backup(p) /\ AwayFrom(o) = AwayFrom(p)
           /\ Whole(o) <=> Whole(p)
           /\ Underway(o) <=> Underway(p)
           /\ Swapped(o) <=> Swapped(p)
           /\ Done(o) <=> Done(p)
<1>1. Candidate(o) = Candidate(p) /\ Backup(o) = Backup(p) /\ AwayFrom(o) = AwayFrom(p)
    BY DEF SameOperation, Candidate, Backup, AwayFrom
<1>2. \A x, y : Lies(o, x, y) <=> Lies(p, x, y)
    BY DEF SameOperation, Lies
<1>3. /\ Ready(o) <=> Ready(p)
      /\ PutBack(o) <=> PutBack(p)
      /\ Empty(o) <=> Empty(p)
      /\ Swapped(o) <=> Swapped(p)
      /\ TakenOut(o) <=> TakenOut(p)
      /\ Done(o) <=> Done(p)
    BY <1>1, <1>2 DEF Ready, PutBack, Empty, Swapped, TakenOut, Done
<1>4. Real(o) <=> Real(p)
    BY DEF SameOperation, Real
<1> QED  BY <1>1, <1>2, <1>3, <1>4 DEF Whole, Underway

\* Which directories are taken tells how far a swap has come.
LEMMA HowFar ==
    ASSUME NEW o \in Operations, Real(o), Underway(o)
    PROVE  /\ at[Backup(o)] # NoTree /\ at["install"] # NoTree => Swapped(o)
           /\ at["install"] = NoTree => Empty(o) \/ TakenOut(o)
           /\ at[Backup(o)] = NoTree => Whole(o)
           /\ Whole(o) => at["install"] = o.old /\ at[Backup(o)] = NoTree
           /\ Swapped(o) => at["install"] = o.new /\ at[Backup(o)] = o.old
           /\ Empty(o) \/ TakenOut(o) => at["install"] = NoTree /\ at[Backup(o)] = o.old
<1>1. /\ "install" \in Places /\ Candidate(o) \in Places /\ Backup(o) \in Places /\ AwayFrom(o) \in Places
      /\ Candidate(o) # "install" /\ Backup(o) # "install" /\ AwayFrom(o) # "install"
      /\ Backup(o) # Candidate(o) /\ Backup(o) # AwayFrom(o)
    BY ItsPlaces
<1>2. /\ Ready(o) => at["install"] = o.old /\ at[Backup(o)] = NoTree
      /\ PutBack(o) => at["install"] = o.old /\ at[Backup(o)] = NoTree
    BY <1>1, Where DEF Ready, PutBack
<1>3. /\ Empty(o) => at["install"] = NoTree /\ at[Backup(o)] = o.old
      /\ TakenOut(o) => at["install"] = NoTree /\ at[Backup(o)] = o.old
    BY <1>1, Where DEF Empty, TakenOut
<1>4. Swapped(o) => at["install"] = o.new /\ at[Backup(o)] = o.old
    BY <1>1, Where DEF Swapped
<1>5. o.old # NoTree /\ o.new # NoTree
    BY UpdateAssumption DEF Operations, Trees
<1> QED  BY <1>2, <1>3, <1>4, <1>5 DEF Underway, Whole

\* What is whole is not half-swapped.
LEMMA WholeIsNotMid ==
    ASSUME TypeOK, Real(journal.op), Whole(journal.op)
    PROVE  ~MidSwap
<1>1. journal.op \in Operations
    BY DEF TypeOK, Journals
<1>2. at["install"] = journal.op.old /\ at[Backup(journal.op)] = NoTree
    BY <1>1, HowFar DEF Underway
<1>3. journal.op.old # NoTree
    BY <1>1, UpdateAssumption DEF Operations, Trees
<1> QED  BY <1>2, <1>3 DEF MidSwap

-----------------------------------------------------------------------------
(* Journals *)

LEMMA BlankTyped ==
    ASSUME NEW o \in Operations
    PROVE  Blank(o) \in Journals /\ Blank(o).op = o /\ Blank(o).phase = "none"
BY DEF Blank, Journals, Phases

\* What a save writes.
LEMMA SavedIs ==
    ASSUME TypeOK, NEW p \in Saving
    PROVE  /\ Saved(p) \in Journals
           /\ Saved(p).op = IF p = "prepared" THEN op ELSE mem.op
           /\ Saved(p).hadLocal = IF p = "prepared" THEN op.action = "rollback" /\ local[op.new] # NoData
                                  ELSE mem.hadLocal
           /\ Saved(p).phase = IF p = "pending" THEN "validated" ELSE IF p = "committed" THEN "succeeded"
                               ELSE IF p = "failedAgain" THEN "failed"
                               ELSE IF p \in {"relabel", "restored"} THEN "rolled_back" ELSE p
           /\ p = "succeeded" => Saved(p).gui /\ Saved(p).pending = (op.action = "rollback")
           /\ p = "committed" => Saved(p).gui = mem.gui /\ ~Saved(p).pending
<1>1. mem \in Journals /\ op \in Operations
    BY DEF TypeOK
<1>2. CASE p = "prepared"
    <2>1. PICK had \in BOOLEAN : had = (op.action = "rollback" /\ local[op.new] # NoData)
        OBVIOUS
    <2>2. PICK b : b = Blank(op)
        OBVIOUS
    <2>3. b \in Journals /\ b.op = op
        BY <1>1, <2>2, BlankTyped
    <2>4. Saved(p) = [b EXCEPT !.phase = "prepared", !.hadLocal = had]
        BY <1>2, <2>1, <2>2 DEF Saved
    <2> QED  BY <1>2, <2>1, <2>3, <2>4 DEF Journals, Phases
<1>3. CASE p = "pending"
    <2>1. Saved(p) = [mem EXCEPT !.phase = "validated", !.pending = TRUE]
        BY <1>3 DEF Saved
    <2> QED  BY <1>1, <1>3, <2>1 DEF Journals, Phases
<1>4. CASE p = "finalizing"
    <2>1. Saved(p) = [mem EXCEPT !.phase = "finalizing", !.gui = FALSE]
        BY <1>4 DEF Saved
    <2> QED  BY <1>1, <1>4, <2>1 DEF Journals, Phases
<1>5. CASE p = "succeeded"
    <2>1. PICK pend \in BOOLEAN : pend = (op.action = "rollback")
        OBVIOUS
    <2>2. Saved(p) = [mem EXCEPT !.phase = "succeeded", !.gui = TRUE, !.pending = pend]
        BY <1>5, <2>1 DEF Saved
    <2> QED  BY <1>1, <1>5, <2>1, <2>2 DEF Journals, Phases
<1>6. CASE p = "committed"
    <2>1. Saved(p) = [mem EXCEPT !.phase = "succeeded", !.pending = FALSE]
        BY <1>6 DEF Saved
    <2> QED  BY <1>1, <1>6, <2>1 DEF Journals, Phases
<1>7. CASE p = "failedAgain"
    <2>1. Saved(p) = [mem EXCEPT !.phase = "failed"]
        BY <1>7 DEF Saved
    <2> QED  BY <1>1, <1>7, <2>1 DEF Journals, Phases
<1>8. CASE p \in {"rolled_back", "relabel"}
    <2>1. Saved(p) = [mem EXCEPT !.phase = "rolled_back", !.restored = FALSE]
        BY <1>8 DEF Saved
    <2> QED  BY <1>1, <1>8, <2>1 DEF Journals, Phases
<1>9. CASE p = "restored"
    <2>1. Saved(p) = [mem EXCEPT !.phase = "rolled_back", !.restored = TRUE]
        BY <1>9 DEF Saved
    <2> QED  BY <1>1, <1>9, <2>1 DEF Journals, Phases
<1>10. CASE p \in {"old_moved", "new_moved", "starting", "validating", "validated", "failed"}
    <2>1. Saved(p) = [mem EXCEPT !.phase = p]
        BY <1>10 DEF Saved
    <2> QED  BY <1>1, <1>10, <2>1 DEF Journals, Phases
<1> QED  BY <1>2, <1>3, <1>4, <1>5, <1>6, <1>7, <1>8, <1>9, <1>10 DEF Saving

-----------------------------------------------------------------------------
(* What a step must establish of the program, by where it leads *)

LEMMA LeadsForward ==
    ASSUME pc' \in Swapping \cup Finalizing, Forwards'
    PROVE  ProgramRight'
BY DEF ProgramRight, Beginning, Registering, GivingUp, Backwards, Ending, Recovering, Preparing,
       Swapping, Finalizing, Committing, Undoing, Reopening, Early

LEMMA LeadsBack ==
    ASSUME pc' \in {"failed", "failedAgain", "relabel"} \cup Undoing \cup Reopening, Backwards'
    PROVE  ProgramRight'
BY DEF ProgramRight, Beginning, Registering, GivingUp, Forwards, Ending, Recovering, Preparing,
       Swapping, Finalizing, Committing, Undoing, Reopening, Early

LEMMA LeadsNowhere ==
    ASSUME pc' = "idle"
    PROVE  ProgramRight'
BY DEF ProgramRight, Beginning, Registering, GivingUp, Forwards, Backwards, Ending, Recovering,
       Preparing, Swapping, Finalizing, Committing, Undoing, Reopening, Early

LEMMA LeadsToBegin ==
    ASSUME pc' \in Preparing \cup {"parent"}, Beginning'
    PROVE  ProgramRight'
BY DEF ProgramRight, Registering, GivingUp, Forwards, Backwards, Ending, Recovering,
       Preparing, Swapping, Finalizing, Committing, Undoing, Reopening, Early

LEMMA LeadsToRegister ==
    ASSUME pc' \in {"arm", "unarm"}, Registering'
    PROVE  ProgramRight'
BY DEF ProgramRight, Beginning, GivingUp, Forwards, Backwards, Ending, Recovering,
       Preparing, Swapping, Finalizing, Committing, Undoing, Reopening, Early

LEMMA LeadsToGiveUp ==
    ASSUME pc' = "abandon", GivingUp'
    PROVE  ProgramRight'
BY DEF ProgramRight, Beginning, Registering, Forwards, Backwards, Ending, Recovering,
       Preparing, Swapping, Finalizing, Committing, Undoing, Reopening, Early

LEMMA LeadsToEnd ==
    ASSUME pc' \in Committing \cup {"disarm"}, Ending'
    PROVE  ProgramRight'
BY DEF ProgramRight, Beginning, Registering, GivingUp, Forwards, Backwards, Recovering,
       Preparing, Swapping, Finalizing, Committing, Undoing, Reopening, Early

LEMMA LeadsToRecover ==
    ASSUME pc' \in Early, Recovering'
    PROVE  ProgramRight'
BY DEF ProgramRight, Beginning, Registering, GivingUp, Forwards, Backwards, Ending,
       Preparing, Swapping, Finalizing, Committing, Undoing, Reopening, Early

-----------------------------------------------------------------------------
(* What stays *)

\* The directories, the data and the journals as they are.
LEMMA RecordsStay ==
    ASSUME JournalRight, PriorRight, op' = op \/ op' # NoOp,
           UNCHANGED <<at, local, aside, journal, prior, latest, candidateData>>
    PROVE  JournalRight' /\ PriorRight'
<1>1. PriorRight'
    BY DEF PriorRight
<1>2. \A o, x, y : Lies(o, x, y)' <=> Lies(o, x, y)
    BY DEF Lies
<1>3. PICK j : j = journal
    OBVIOUS
<1>4. journal' = j
    BY <1>3
<1>5. journal.phase = "none" => NothingYet'
    BY <1>2 DEF JournalRight, NothingYet
<1>6. journal.phase # "none" /\ ~Committed(journal) => InProgress(journal.op)'
    <2>1. /\ Whole(j.op)' <=> Whole(j.op)
          /\ Underway(j.op)' <=> Underway(j.op)
        BY <1>2 DEF Whole, Underway, Ready, PutBack, Empty, Swapped, TakenOut
    <2>2. /\ OwnData(j.op)' <=> OwnData(j.op)
          /\ OwnDataBack(j.op)' <=> OwnDataBack(j.op)
        BY <1>3, <1>4 DEF OwnData, OwnDataBack
    <2> QED  BY <1>3, <1>4, <2>1, <2>2 DEF JournalRight, InProgress
<1>7. Committed(journal) => Settled(journal)'
    BY <1>2 DEF JournalRight, Settled, Done, Swapped
<1> QED  BY <1>1, <1>5, <1>6, <1>7 DEF JournalRight, Committed

\* A registration is right while nothing comes to be half-swapped.
LEMMA ArmedStays ==
    ASSUME ArmedRight, armed' = armed, lapsed' = lapsed, pc # "idle", pc \notin Early,
           pc' \notin Early, MidSwap' => MidSwap /\ journal'.op = journal.op
    PROVE  ArmedRight'
BY DEF ArmedRight

\* A step of a helper past its registration.
LEMMA ArmedAtWork ==
    ASSUME ArmedRight, armed' = armed, lapsed' = lapsed, pc # "idle",
           pc' \notin Early, MidSwap' => armed = journal'.op
    PROVE  ArmedRight'
BY DEF ArmedRight

LEMMA AtWorkStays ==
    ASSUME AtWork, UNCHANGED <<op, journal>>, mem'.op = mem.op, mem'.hadLocal = mem.hadLocal
    PROVE  AtWork'
BY DEF AtWork, SameOperation, Committed

\* What a saved step does to the journal of the operation at work.
LEMMA SavesOn ==
    ASSUME TypeOK, JournalRight, PriorRight, AtWork, Real(op),
           NEW p \in Saving \ {"prepared", "succeeded", "committed"}, Save(p),
           UNCHANGED <<op, latest, candidateData>>,
           p \in {"rolled_back", "relabel", "restored"} =>
             Whole(op) /\ (op.action = "rollback" => OwnDataBack(op))
    PROVE  /\ JournalRight' /\ PriorRight' /\ AtWork'
           /\ journal' \in Journals /\ mem' = journal' /\ journal'.op = journal.op
           /\ journal'.phase = Saved(p).phase
           /\ journal'.phase # "none" /\ ~Committed(journal') /\ (MidSwap' => MidSwap)
<1>1. PICK j : j = Saved(p)
    OBVIOUS
<1>2. /\ j \in Journals /\ j.op = journal.op /\ j.hadLocal = journal.hadLocal
      /\ j.phase \notin {"none", "succeeded"}
      /\ j.phase = "rolled_back" => p \in {"rolled_back", "relabel", "restored"}
    BY <1>1, SavedIs DEF AtWork, Saving
<1>3. journal' = j /\ mem' = j /\ UNCHANGED <<at, local, aside, prior, armed>>
    BY <1>1 DEF Save
<1>4. PICK o : o = journal.op
    OBVIOUS
<1>5. journal.phase # "none" /\ ~Committed(journal) /\ InProgress(o)
    BY <1>4 DEF AtWork, JournalRight
<1>6. SameOperation(o, op)
    BY <1>4 DEF AtWork
<1>7. j.phase = "rolled_back" => Whole(o) /\ (o.action = "rollback" => OwnDataBack(o))
    BY <1>2, <1>6, SameLayout DEF SameOperation, OwnDataBack
<1>8. InProgress(o)'
    <2>1. /\ Underway(o)' <=> Underway(o)
          /\ Whole(o)' <=> Whole(o)
          /\ OwnDataBack(o)' <=> OwnDataBack(o)
        BY <1>3 DEF Underway, Whole, Ready, PutBack, Empty, Swapped, TakenOut, Lies, OwnDataBack
    <2>2. OwnData(o) => OwnData(o)'
        BY <1>2, <1>3, <1>4 DEF OwnData
    <2> QED  BY <1>3, <1>5, <1>7, <2>1, <2>2 DEF InProgress
<1>9. ~Committed(j)
    BY <1>2 DEF Committed
<1>10. JournalRight'
    BY <1>2, <1>3, <1>4, <1>8, <1>9 DEF JournalRight
<1>11. PriorRight'
    BY <1>3 DEF PriorRight
<1>12. AtWork'
    BY <1>2, <1>3, <1>9 DEF AtWork, SameOperation
<1>13. MidSwap' => MidSwap
    BY <1>2, <1>3, <1>5 DEF MidSwap
<1> QED  BY <1>1, <1>2, <1>3, <1>9, <1>10, <1>11, <1>12, <1>13

-----------------------------------------------------------------------------
(* Types *)

Values == Data \cup {NoData}
AsideRecord == [{"staged", "oldLocal", "failedLocal"} -> Values]
PriorRecord == [op : Operations, journal : Journals]

LEMMA MoveTreeTyped ==
    ASSUME TypeOK, NEW p \in Places, NEW q \in Places, MoveTree(p, q)
    PROVE  at' \in [Places -> Trees \cup {NoTree}]
BY DEF TypeOK, MoveTree

LEMMA MoveDataTyped ==
    ASSUME TypeOK, NEW new \in Values, NEW fields \in AsideRecord, MoveData(new, fields)
    PROVE  local' \in [Trees -> Values] /\ aside' \in AsideRecord
BY DEF TypeOK, MoveData, Values, AsideRecord

\* The data records, field by field.
LEMMA ValuesTyped ==
    ASSUME TypeOK
    PROVE  /\ NoData \in Values /\ latest \in Values /\ candidateData \in Values
           /\ local[op.old] \in Values /\ local[op.new] \in Values
           /\ aside \in AsideRecord
           /\ aside.staged \in Values /\ aside.oldLocal \in Values /\ aside.failedLocal \in Values
           /\ \A v \in Values : /\ [aside EXCEPT !.staged = v] \in AsideRecord
                                /\ [aside EXCEPT !.oldLocal = v] \in AsideRecord
                                /\ [aside EXCEPT !.failedLocal = v] \in AsideRecord
           /\ op.old \in Trees /\ op.new \in Trees
BY DEF TypeOK, Values, AsideRecord, Operations

LEMMA DoTyped ==
    ASSUME TypeOK, Real(op), NEW p \in Steps, Do(p), UNCHANGED op
    PROVE  /\ armed' \in Operations /\ at' \in [Places -> Trees \cup {NoTree}]
           /\ local' \in [Trees -> Values] /\ aside' \in AsideRecord
           /\ journal' \in Journals /\ mem' \in Journals /\ prior' \in PriorRecord
           /\ bridge' \in {"none", "coming", "up"}
           /\ gui' \in {"none", "validation", "final", "user"}
<1> DEFINE Result == /\ armed' \in Operations /\ at' \in [Places -> Trees \cup {NoTree}]
                     /\ local' \in [Trees -> Values] /\ aside' \in AsideRecord
                     /\ journal' \in Journals /\ mem' \in Journals /\ prior' \in PriorRecord
                     /\ bridge' \in {"none", "coming", "up"}
                     /\ gui' \in {"none", "validation", "final", "user"}
<1>1. /\ armed \in Operations /\ at \in [Places -> Trees \cup {NoTree}]
      /\ local \in [Trees -> Values] /\ aside \in AsideRecord
      /\ journal \in Journals /\ mem \in Journals /\ prior \in PriorRecord
      /\ bridge \in {"none", "coming", "up"} /\ gui \in {"none", "validation", "final", "user"}
      /\ op \in Operations
    BY DEF TypeOK, Values, AsideRecord, PriorRecord
<1>2. CASE p \in Saving /\ Save(p)
    BY <1>1, <1>2, SavedIs DEF Save, processes
<1>3. CASE Looks
    BY <1>1, <1>3 DEF Looks, disk, processes
<1>4. ASSUME NEW new \in Values, NEW fields \in AsideRecord, MoveData(new, fields)  PROVE Result
    <2>1. local' \in [Trees -> Values] /\ aside' \in AsideRecord
        BY <1>4, MoveDataTyped
    <2>2. UNCHANGED <<at, journal, prior, armed, mem, bridge, gui>>
        BY <1>4 DEF MoveData, processes
    <2> QED  BY <1>1, <2>1, <2>2
<1>5. CASE Copy \/ Stash \/ Unstage \/ DropLocal \/ RestoreLocal
    BY <1>3, <1>4, <1>5, ValuesTyped DEF Copy, Stash, Unstage, DropLocal, RestoreLocal
<1>6. ASSUME NEW x \in Places, NEW y \in Places, MoveTree(x, y)  PROVE Result
    <2>1. at' \in [Places -> Trees \cup {NoTree}]
        BY <1>6, MoveTreeTyped
    <2>2. UNCHANGED <<local, aside, journal, prior, armed, mem, bridge, gui>>
        BY <1>6 DEF MoveTree, processes
    <2> QED  BY <1>1, <2>1, <2>2
<1>7. CASE \/ MoveTree("install", Backup(op)) \/ MoveTree(Candidate(op), "install")
           \/ Commit \/ MoveOut \/ MoveBack
    <2>1. /\ "install" \in Places /\ Backup(op) \in Places /\ Candidate(op) \in Places
          /\ "current" \in Places /\ "backup" \in Places /\ OutOfTheWay \in Places
        BY ItsPlaces DEF Places, OutOfTheWay
    <2> QED  BY <1>3, <1>6, <1>7, <2>1 DEF Commit, MoveOut, MoveBack
<1>8. CASE KeepPrior
    <2>1. prior' \in PriorRecord
        BY <1>1, <1>8 DEF KeepPrior, PriorRecord
    <2> QED  BY <1>1, <1>8, <2>1 DEF KeepPrior, processes
<1>9. CASE RestorePrior
    <2>1. journal' \in Journals
        BY <1>1, <1>9 DEF RestorePrior, PriorRecord
    <2> QED  BY <1>1, <1>9, <2>1 DEF RestorePrior, processes
<1>10. CASE Unarm
    <2>1. CASE Save("rolled_back")
        BY <1>1, <2>1, SavedIs DEF Save, processes, Saving
    <2> QED  BY <1>9, <1>10, <2>1 DEF Unarm
<1>11. CASE Arms(op) \/ Arms(NoOp)
    <2>1. NoOp \in Operations
        BY UpdateAssumption DEF NoOp, Operation, Operations, Trees
    <2> QED  BY <1>1, <1>11, <2>1 DEF Arms, processes
<1>12. ASSUME NEW b \in {"none", "coming", "up"}, NEW g \in {"none", "validation", "final", "user"},
              Process(b, g)
       PROVE  Result
    BY <1>1, <1>12 DEF Process, disk
<1>13. CASE Abandon
    <2>1. PICK v : v = IF op.action = "install" THEN [local EXCEPT ![op.new] = NoData] ELSE local
        OBVIOUS
    <2>2. v \in [Trees -> Values]
        BY <1>1, <2>1, ValuesTyped
    <2>3. Saved("restored") \in Journals
        BY SavedIs DEF Saving
    <2>4. local' = v /\ aside' = [aside EXCEPT !.staged = NoData]
        BY <1>13, <2>1 DEF Abandon
    <2>5. mem' \in {mem, Saved("restored")} /\ journal' \in {mem', journal} /\ gui' \in {"user", gui}
          /\ UNCHANGED <<at, prior, armed, bridge>>
        BY <1>13 DEF Abandon
    <2>6. aside' \in AsideRecord
        BY <2>4, ValuesTyped
    <2>7. mem' \in Journals /\ journal' \in Journals
        BY <1>1, <2>3, <2>5
    <2> QED  BY <1>1, <2>2, <2>4, <2>5, <2>6, <2>7
<1>14. CASE ReadJournal
    BY <1>1, <1>14 DEF ReadJournal, disk, processes
<1>15. ASSUME \/ Process("up", gui) \/ Process(bridge, "validation") \/ Process(bridge, "none")
              \/ Process(bridge, "final") \/ Process(bridge, "user")
              \/ Process(IF bridge = "up" THEN "none" ELSE bridge, "none")
       PROVE  Result
    <2>1. (IF bridge = "up" THEN "none" ELSE bridge) \in {"none", "coming", "up"}
        BY <1>1
    <2> HIDE DEF Result
    <2> QED  BY <1>1, <1>12, <1>15, <2>1
<1> QED  BY <1>2, <1>3, <1>5, <1>7, <1>8, <1>9, <1>10, <1>11, <1>13, <1>14, <1>15 DEF Do

-----------------------------------------------------------------------------
(* Steps of the helper, until it has registered its recovery *)

Kept == pc' \in Steps \cup {"idle"} /\ JournalRight' /\ PriorRight' /\ ArmedRight' /\ ProgramRight'

LEMMA AdvanceIs ==
    ASSUME IInv, Advance
    PROVE  /\ pc \in Steps /\ Possible(pc) /\ Do(pc) /\ pc' = Leads(pc)
           /\ pc # "idle" /\ Real(op) /\ op \in Operations /\ op # NoOp
           /\ UNCHANGED <<op, latest, candidateData, lapsed, crashes, failures>>
           /\ pc # "rearm" => mode' = mode
<1>1. pc \in Steps /\ Possible(pc) /\ Do(pc) /\ pc' = Leads(pc)
    BY DEF Advance
<1>2. pc # "idle"
    BY <1>1 DEF Steps, Preparing, Swapping, Finalizing, Committing, Undoing, Reopening, Early, Saving
<1>3. Real(op) /\ op \in Operations
    BY <1>2 DEF IInv, Working, TypeOK
<1>4. op # NoOp
    BY <1>3 DEF Real, NoOp, Operation
<1>5. UNCHANGED <<op, latest, candidateData, lapsed, crashes, failures>> /\ (pc # "rearm" => mode' = mode)
    BY DEF Advance
<1> QED  BY <1>1, <1>2, <1>3, <1>4, <1>5

\* Before the first save there is nothing to recover.
LEMMA NothingToRecover ==
    ASSUME journal.phase = "none" \/ Committed(journal)
    PROVE  ~MidSwap
BY DEF MidSwap

LEMMA ParentAndCheck ==
    ASSUME IInv, Advance, pc \in {"parent", "check"}
    PROVE  Kept
<1>1. /\ Do(pc) /\ pc' = Leads(pc) /\ Real(op) /\ op # NoOp /\ mode' = mode
      /\ UNCHANGED <<op, latest, candidateData, lapsed>>
    BY AdvanceIs
<1>2. Looks
    BY <1>1 DEF Do, Saving
<1>3. UNCHANGED <<at, local, aside, journal, prior, armed, mem>>
    BY <1>2 DEF Looks, disk
<1>4. pc' \in {"check", "copy"}
    BY <1>1, InstallProgram, RollbackProgram DEF Leads, Real
<1>5. JournalRight' /\ PriorRight'
    BY <1>1, <1>3, RecordsStay DEF IInv
<1>6. Beginning /\ pc \in Preparing \cup {"parent"}
    BY DEF IInv, ProgramRight, Preparing
<1>7. Beginning'
    BY <1>1, <1>3, <1>4, <1>6 DEF Beginning, Blank, Ready, Lies, Candidate, Committed
<1>8. ProgramRight'
    BY <1>4, <1>7, LeadsToBegin DEF Preparing
<1>9. ArmedRight'
    BY <1>1, <1>3, <1>4, ArmedStays DEF IInv, MidSwap, Committed, Backup, Early
<1> QED  BY <1>4, <1>5, <1>8, <1>9 DEF Kept, Steps, Preparing

LEMMA CopyStep ==
    ASSUME IInv, Advance, pc = "copy"
    PROVE  Kept
<1>1. /\ Do(pc) /\ pc' = Leads(pc) /\ Real(op) /\ op \in Operations /\ op # NoOp /\ mode' = mode
      /\ UNCHANGED <<op, latest, candidateData, lapsed>>
    BY AdvanceIs
<1>2. Copy
    BY <1>1 DEF Do, Saving
<1>3. UNCHANGED <<at, journal, prior, armed, mem>>
    BY <1>2 DEF Copy, MoveData
<1>4. /\ mode = "run" /\ mem = Blank(op) /\ Ready(op) /\ local[op.old] = latest
      /\ op.action = "install" => journal.phase = "none" /\ local[op.new] = NoData
      /\ op.action = "rollback" =>
           /\ Committed(journal) /\ journal.op.new = op.old /\ journal.op.old = op.new
           /\ local[op.new] = candidateData /\ aside.oldLocal = NoData
    BY DEF IInv, ProgramRight, Beginning, Preparing
<1>5. op.old \in Trees /\ op.new \in Trees /\ op.old # op.new /\ DOMAIN local = Trees
    BY <1>1 DEF Operations, Real, IInv, TypeOK
<1>6. Ready(op)' /\ mem' = Blank(op)
    BY <1>1, <1>3, <1>4 DEF Ready, Lies, Candidate
<1>7. ~MidSwap' /\ journal' = journal
    <2>1. journal.phase = "none" \/ Committed(journal)
        BY <1>1, <1>4 DEF Real
    <2> QED  BY <1>3, <2>1 DEF MidSwap, Committed
<1>8. CASE op.action = "install"
    <2>1. local' = [local EXCEPT ![op.new] = latest] /\ aside' = aside
        BY <1>2, <1>4, <1>8 DEF Copy, MoveData
    <2>2. local'[op.new] = latest /\ local'[op.old] = latest
        BY <1>4, <1>5, <2>1
    <2>3. pc' = "prepared"
        BY <1>1, <1>8, InstallProgram DEF Leads
    <2>4. JournalRight'
        <3>1. NothingYet
            BY <1>4, <1>8 DEF IInv, JournalRight
        <3>2. local'[Previous] = latest
            <4>1. Previous \in Trees
                BY DEF Trees
            <4> QED  BY <1>5, <2>1, <3>1, <4>1 DEF NothingYet
        <3>3. NothingYet'
            BY <1>1, <1>3, <3>1, <3>2 DEF NothingYet, Lies
        <3> QED  BY <1>3, <1>4, <1>8, <3>3 DEF JournalRight, Committed
    <2>5. Beginning'
        BY <1>1, <1>3, <1>4, <1>6, <1>8, <2>2, <2>3 DEF Beginning
    <2>6. ProgramRight'
        BY <2>3, <2>5, LeadsToBegin DEF Preparing
    <2>7. PriorRight' /\ ArmedRight'
        BY <1>1, <1>3, <1>7, <2>3, ArmedStays DEF IInv, PriorRight, Early
    <2> QED  BY <2>3, <2>4, <2>6, <2>7 DEF Kept, Steps, Preparing
<1>9. CASE op.action = "rollback"
    <2>1. /\ local' = [local EXCEPT ![op.new] = local[op.new]]
          /\ aside' = [aside EXCEPT !.staged = local[op.old]]
        BY <1>2, <1>9 DEF Copy, MoveData
    <2>2. local' = local
        BY <1>5, <2>1 DEF IInv, TypeOK
    <2>3. aside'.staged = latest /\ aside'.oldLocal = NoData
        BY <1>4, <1>9, <2>1 DEF IInv, TypeOK
    <2>4. pc' = "keepPrior"
        BY <1>1, <1>9, RollbackProgram DEF Leads
    <2>5. JournalRight'
        BY <1>1, <1>3, <1>4, <1>9, <2>2 DEF IInv, JournalRight, Committed, Settled, Done, Swapped, Lies
    <2>6. Beginning'
        BY <1>1, <1>3, <1>4, <1>6, <1>9, <2>2, <2>3, <2>4 DEF Beginning, Committed
    <2>7. ProgramRight'
        BY <2>4, <2>6, LeadsToBegin DEF Preparing
    <2>8. PriorRight' /\ ArmedRight'
        BY <1>1, <1>3, <1>7, <2>4, ArmedStays DEF IInv, PriorRight, Early
    <2> QED  BY <2>4, <2>5, <2>7, <2>8 DEF Kept, Steps, Preparing
<1> QED  BY <1>1, <1>8, <1>9 DEF Real

LEMMA KeepPriorStep ==
    ASSUME IInv, Advance, pc = "keepPrior"
    PROVE  Kept
<1>1. /\ Do(pc) /\ pc' = Leads(pc) /\ Real(op) /\ op # NoOp /\ mode' = mode
      /\ UNCHANGED <<op, latest, candidateData, lapsed>>
    BY AdvanceIs
<1>2. prior' = [op |-> op, journal |-> journal] /\ UNCHANGED <<at, local, aside, journal, armed, mem>>
    BY <1>1 DEF Do, Saving, KeepPrior
<1>3. Beginning /\ pc \in Preparing
    BY DEF IInv, ProgramRight, Preparing
<1>4. op.action = "rollback"
    BY <1>1, <1>3 DEF Beginning, Real
<1>5. pc' = "prepared"
    BY <1>1, <1>4, RollbackProgram DEF Leads
<1>6. Committed(journal) /\ journal.op.new = op.old /\ journal.op.old = op.new
    BY <1>3, <1>4 DEF Beginning
<1>7. Settled(journal)
    BY <1>6 DEF IInv, JournalRight
<1>8. PriorRight'
    BY <1>2, <1>6, <1>7 DEF PriorRight, Settled
<1>9. JournalRight'
    BY <1>2, <1>1, <1>6 DEF IInv, JournalRight, Committed, Settled, Done, Swapped, Lies
<1>10. Beginning'
    BY <1>1, <1>2, <1>3, <1>4, <1>5 DEF Beginning, Blank, Ready, Lies, Candidate, Committed
<1>11. ProgramRight'
    BY <1>5, <1>10, LeadsToBegin DEF Preparing
<1>12. ArmedRight'
    BY <1>1, <1>2, <1>5, ArmedStays DEF IInv, MidSwap, Committed, Backup, Early
<1> QED  BY <1>5, <1>8, <1>9, <1>11, <1>12 DEF Kept, Steps, Preparing

\* A journal of an operation whose old client is in place is not one to recover from.
LEMMA WholeStaysWhole ==
    ASSUME NEW o \in Operations, Real(o), Whole(o), at' = at, SameOperation(journal'.op, o)
    PROVE  ~MidSwap'
<1>1. at["install"] = o.old /\ at[Backup(o)] = NoTree
    BY HowFar DEF Underway
<1>2. o.old # NoTree
    BY UpdateAssumption DEF Operations, Trees
<1>3. Backup(journal'.op) = Backup(o)
    BY DEF SameOperation, Backup
<1>4. at'["install"] # NoTree /\ at'[Backup(journal'.op)] = NoTree
    BY <1>1, <1>2, <1>3
<1> QED  BY <1>4 DEF MidSwap, Backup

\* A journal of an operation that is under way.
LEMMA JournalOf ==
    ASSUME NEW o, journal'.op = o, journal'.phase \notin {"none", "succeeded"}, InProgress(o)'
    PROVE  JournalRight'
<1>1. PICK j : j = journal'
    OBVIOUS
<1>2. journal' = j /\ j.op = o /\ j.phase \notin {"none", "succeeded"} /\ ~Committed(j)
    BY <1>1 DEF Committed
<1> QED  BY <1>2 DEF JournalRight

LEMMA PreparedStep ==
    ASSUME IInv, Advance, pc = "prepared"
    PROVE  Kept
<1>1. /\ Do(pc) /\ pc' = Leads(pc) /\ Real(op) /\ op \in Operations /\ mode' = mode
      /\ UNCHANGED <<op, latest, candidateData, lapsed>>
    BY AdvanceIs
<1>2. PICK j : j = Saved("prepared")
    OBVIOUS
<1>3. journal' = j /\ mem' = j /\ UNCHANGED <<at, local, aside, prior, armed>>
    BY <1>1, <1>2 DEF Do, Save
<1>4. /\ j.op = op /\ j.phase = "prepared"
      /\ j.hadLocal = (op.action = "rollback" /\ local[op.new] # NoData)
    BY <1>2, SavedIs DEF IInv, Saving
<1>5. /\ mode = "run" /\ Ready(op) /\ local[op.old] = latest
      /\ op.action = "install" => local[op.new] = latest
      /\ op.action = "rollback" =>
           local[op.new] = candidateData /\ aside.oldLocal = NoData /\ aside.staged = latest
    BY DEF IInv, ProgramRight, Beginning, Preparing
<1>6. pc' = "arm"
    BY <1>1, InstallProgram, RollbackProgram DEF Leads, Real
<1>7. Ready(op)' /\ ~Committed(journal')
    BY <1>1, <1>3, <1>4, <1>5 DEF Ready, Lies, Candidate, Committed
<1>8. JournalRight'
    <2>1. PICK o : o = op
        OBVIOUS
    <2>2. Ready(o)'
        BY <1>1, <1>7, <2>1
    <2>3. /\ local' = local /\ aside' = aside /\ latest' = latest /\ candidateData' = candidateData
          /\ journal'.phase = "prepared"
          /\ journal'.hadLocal = (op.action = "rollback" /\ local[op.new] # NoData)
        BY <1>1, <1>3, <1>4
    <2>4. o.action = "rollback" => OwnData(o)'
        BY <1>5, <2>1, <2>3 DEF OwnData
    <2>5. InProgress(o)'
        BY <1>1, <1>5, <2>1, <2>2, <2>3, <2>4 DEF InProgress, Underway, Whole
    <2> QED  BY <1>3, <1>4, <1>7, <2>1, <2>5, JournalOf
<1>9. Registering'
    <2>1. AtWork'
        BY <1>1, <1>3, <1>4, <1>7 DEF AtWork, SameOperation
    <2> QED  BY <1>1, <1>3, <1>4, <1>5, <1>7, <2>1 DEF Registering, Real
<1>10. ProgramRight'
    BY <1>6, <1>9, LeadsToRegister
<1>11. PriorRight'
    BY <1>3 DEF IInv, PriorRight
<1>12. ArmedRight'
    <2>1. ~MidSwap'
        BY <1>1, <1>3, <1>4, <1>5, WholeStaysWhole DEF Whole, SameOperation
    <2> QED  BY <1>1, <1>3, <1>6, <2>1, ArmedStays DEF IInv, Early
<1> QED  BY <1>6, <1>8, <1>10, <1>11, <1>12 DEF Kept, Steps

LEMMA ArmStep ==
    ASSUME IInv, Advance, pc = "arm"
    PROVE  Kept
<1>1. /\ Do(pc) /\ pc' = Leads(pc) /\ Real(op) /\ op \in Operations /\ op # NoOp /\ mode' = mode
      /\ UNCHANGED <<op, latest, candidateData, lapsed>>
    BY AdvanceIs
<1>2. armed' = op /\ UNCHANGED <<at, local, aside, journal, prior, mem>>
    BY <1>1 DEF Do, Saving, Arms
<1>3. /\ mode = "run" /\ AtWork /\ journal.op = op /\ Ready(op)
      /\ IF op.action = "install" THEN local[op.new] = latest
         ELSE local[op.new] = candidateData /\ aside.oldLocal = NoData /\ aside.staged = latest
      /\ journal.phase = "prepared"
    BY DEF IInv, ProgramRight, Registering
<1>4. JournalRight' /\ PriorRight'
    BY <1>1, <1>2, RecordsStay DEF IInv
<1>5. pc' = IF op.action = "install" THEN "moveOld" ELSE "stash"
    BY <1>1, InstallProgram, RollbackProgram DEF Leads, Real
<1>6. Forwards'
    <2>1. AtWork'
        BY <1>1, <1>2, <1>3, AtWorkStays
    <2>2. Ready(op)'
        BY <1>1, <1>2, <1>3 DEF Ready, Lies, Candidate
    <2> QED  BY <1>1, <1>2, <1>3, <1>5, <2>1, <2>2 DEF Forwards, Real
<1>7. ProgramRight'
    BY <1>5, <1>6, LeadsForward DEF Swapping
<1>8. ArmedRight'
    BY <1>1, <1>2, <1>3, <1>5 DEF IInv, ArmedRight, Early
<1> QED  BY <1>4, <1>5, <1>7, <1>8 DEF Kept, Steps, Swapping

\* A rollback goes back to what was kept of the operation before.
LEMMA GoesBackToPrior ==
    ASSUME TypeOK, JournalRight, PriorRight, RestorePrior, Real(op), op.action = "rollback",
           Whole(op), local[op.old] = latest, UNCHANGED <<op, latest, candidateData>>
    PROVE  /\ JournalRight' /\ PriorRight'
           /\ journal' = journal \/ Committed(journal')
<1>1. UNCHANGED <<at, local, aside, prior, armed, mem>>
    BY DEF RestorePrior
<1>2. CASE prior.op = op
    <2>1. PICK j : j = prior.journal
        OBVIOUS
    <2>2. journal' = j
        BY <1>2, <2>1 DEF RestorePrior
    <2>3. /\ Committed(j) /\ Real(j.op) /\ j.op.old = op.new /\ j.op.new = op.old
          /\ j.pending => j.op.action = "rollback"
        BY <1>2, <2>1 DEF PriorRight
    <2>4. Lies(op, "install", "backup")
        BY ItsPlaces DEF Whole, Ready, PutBack
    <2>5. Done(j.op)
        BY <2>3, <2>4 DEF Done, Lies
    <2>6. Settled(j)'
        BY <1>1, <2>3, <2>5 DEF Settled, Done, Lies
    <2>7. JournalRight'
        BY <2>2, <2>3, <2>6 DEF JournalRight, Committed
    <2> QED  BY <1>1, <2>2, <2>3, <2>7 DEF PriorRight
<1>3. CASE prior.op # op
    <2>1. journal' = journal
        BY <1>3 DEF RestorePrior
    <2> QED  BY <1>1, <2>1, RecordsStay
<1> QED  BY <1>2, <1>3

LEMMA UnarmStep ==
    ASSUME IInv, Advance, pc = "unarm"
    PROVE  Kept
<1>1. /\ Do(pc) /\ pc' = Leads(pc) /\ Real(op) /\ op \in Operations /\ mode' = mode
      /\ UNCHANGED <<op, latest, candidateData, lapsed>>
    BY AdvanceIs
<1>2. Unarm
    BY <1>1 DEF Do, Saving
<1>3. mode = "run" /\ AtWork /\ journal.op = op /\ Ready(op) /\ mem.phase = "prepared" /\ mem.op = op
    BY DEF IInv, ProgramRight, Registering, AtWork
<1>4. pc' = "abandon"
    BY <1>1, InstallProgram, RollbackProgram DEF Leads, Real
<1>5. local[op.old] = latest /\ Whole(op)
    BY <1>3 DEF IInv, JournalRight, AtWork, InProgress, Whole
<1>6. UNCHANGED <<at, local, aside, prior, armed>>
    BY <1>2 DEF Unarm, Save, RestorePrior
<1>7. Ready(op)'
    BY <1>1, <1>3, <1>6 DEF Ready, Lies, Candidate
<1>8. CASE op.action = "rollback"
    <2>1. RestorePrior
        BY <1>2, <1>8 DEF Unarm
    <2>2. JournalRight' /\ PriorRight' /\ (journal' = journal \/ Committed(journal'))
        BY <1>1, <1>5, <1>8, <2>1, GoesBackToPrior DEF IInv
    <2>3. mem' = mem
        BY <2>1 DEF RestorePrior
    <2>4. GivingUp'
        BY <1>1, <1>3, <1>5, <1>6, <1>7, <1>8, <2>3 DEF GivingUp
    <2>5. ~MidSwap'
        <3>1. CASE journal' = journal
            BY <1>1, <1>3, <1>5, <1>6, <3>1, WholeStaysWhole DEF SameOperation
        <3>2. CASE Committed(journal')
            BY <3>2 DEF MidSwap, Committed
        <3> QED  BY <2>2, <3>1, <3>2
    <2>6. ArmedRight'
        BY <1>1, <1>4, <1>6, <2>5, ArmedStays DEF IInv, Early
    <2>7. ProgramRight'
        BY <1>4, <2>4, LeadsToGiveUp
    <2> QED  BY <1>4, <2>2, <2>6, <2>7 DEF Kept, Steps
<1>9. CASE op.action = "install"
    <2>1. Save("rolled_back")
        BY <1>2, <1>9 DEF Unarm
    <2>2. /\ JournalRight' /\ PriorRight' /\ AtWork' /\ mem' = journal' /\ journal'.op = journal.op
          /\ journal'.phase # "none" /\ ~Committed(journal')
        BY <1>1, <1>3, <1>5, <1>9, <2>1, SavesOn DEF IInv, Saving
    <2>3. GivingUp'
        BY <1>1, <1>3, <1>5, <1>6, <1>7, <1>9, <2>2 DEF GivingUp, Committed
    <2>4. ~MidSwap'
        BY <1>1, <1>3, <1>5, <1>6, <2>2, WholeStaysWhole DEF SameOperation
    <2>5. ArmedRight'
        BY <1>1, <1>4, <1>6, <2>4, ArmedStays DEF IInv, Early
    <2>6. ProgramRight'
        BY <1>4, <2>3, LeadsToGiveUp
    <2> QED  BY <1>4, <2>2, <2>5, <2>6 DEF Kept, Steps
<1> QED  BY <1>1, <1>8, <1>9 DEF Real

LEMMA AbandonStep ==
    ASSUME IInv, Advance, pc = "abandon"
    PROVE  Kept
<1>1. /\ Do(pc) /\ pc' = Leads(pc) /\ Real(op) /\ op \in Operations /\ op # NoOp /\ mode' = mode
      /\ UNCHANGED <<op, latest, candidateData, lapsed>>
    BY AdvanceIs
<1>2. PICK opened \in BOOLEAN :
        /\ local' = IF op.action = "install" THEN [local EXCEPT ![op.new] = NoData] ELSE local
        /\ aside' = [aside EXCEPT !.staged = NoData]
        /\ mem' = IF opened /\ mem.phase = "rolled_back" THEN Saved("restored") ELSE mem
        /\ journal' = IF mem' # mem THEN mem' ELSE journal
        /\ UNCHANGED <<at, prior, armed, bridge>>
    BY <1>1 DEF Do, Saving, Abandon
<1>3. pc' = "idle"
    BY <1>1 DEF Leads
<1>4. /\ Ready(op) /\ mem.op = op /\ local[op.old] = latest
      /\ op.action = "install" => journal.phase = "none" \/ (~Committed(journal) /\ journal.op = op)
      /\ mem.phase = "rolled_back" => op.action = "install" /\ journal.phase # "none"
    BY DEF IInv, ProgramRight, GivingUp
<1>5. op.old \in Trees /\ op.new \in Trees /\ op.old # op.new /\ DOMAIN local = Trees
    BY <1>1 DEF Operations, Real, IInv, TypeOK
<1>6. local'[op.old] = latest /\ \A t \in Trees \ {op.new} : local'[t] = local[t]
    BY <1>2, <1>4, <1>5
<1>7. aside'.oldLocal = aside.oldLocal
    BY <1>2 DEF IInv, TypeOK
<1>8. PriorRight'
    BY <1>2 DEF IInv, PriorRight
<1>9. ASSUME journal' = journal  PROVE JournalRight'
    <2>1. CASE op.action = "rollback"
        <3>1. local' = local
            BY <1>2, <2>1
        <3>2. PICK j : j = journal
            OBVIOUS
        <3>3. journal' = j /\ at' = at /\ latest' = latest /\ candidateData' = candidateData
            BY <1>1, <1>2, <1>9, <3>2
        <3>4. ASSUME j.phase # "none", ~Committed(j)  PROVE InProgress(j.op)'
            <4>1. InProgress(j.op)
                BY <3>2, <3>4 DEF IInv, JournalRight
            <4>2. /\ Whole(j.op)' <=> Whole(j.op)
                  /\ Underway(j.op)' <=> Underway(j.op)
                BY <3>3 DEF Whole, Underway, Ready, PutBack, Empty, Swapped, TakenOut, Lies
            <4>3. /\ OwnData(j.op) => OwnData(j.op)'
                  /\ OwnDataBack(j.op)' <=> OwnDataBack(j.op)
                BY <1>7, <3>1, <3>2, <3>3 DEF OwnData, OwnDataBack
            <4> QED  BY <3>1, <3>2, <3>3, <4>1, <4>2, <4>3 DEF InProgress
        <3>5. Committed(j) => Settled(j)'
            BY <1>1, <3>1, <3>2, <3>3 DEF IInv, JournalRight, Settled, Done, Swapped, Lies
        <3>6. j.phase = "none" => NothingYet'
            BY <1>1, <3>1, <3>2, <3>3 DEF IInv, JournalRight, NothingYet, Lies
        <3>7. j.phase = "succeeded" => j.gui
            BY <3>2 DEF IInv, JournalRight
        <3> QED  BY <3>3, <3>4, <3>5, <3>6, <3>7 DEF JournalRight, Committed
    <2>2. CASE op.action = "install" /\ journal.phase = "none"
        <3>1. NothingYet
            BY <2>2 DEF IInv, JournalRight
        <3>2. local'[Previous] = latest
            <4>1. at["install"] = Previous
                BY <3>1 DEF NothingYet, Lies, NoOp, Operation, Places
            <4>2. at["install"] = op.old
                BY <1>1, <1>4, ItsPlaces, Where DEF Ready
            <4> QED  BY <1>6, <4>1, <4>2
        <3>3. NothingYet'
            BY <1>1, <1>2, <1>9, <3>1, <3>2 DEF NothingYet, Lies
        <3> QED  BY <1>9, <2>2, <3>3 DEF JournalRight, Committed
    <2>3. CASE op.action = "install" /\ journal.phase # "none" /\ ~Committed(journal) /\ journal.op = op
        <3>1. InProgress(op)
            BY <2>3 DEF IInv, JournalRight
        <3>2. InProgress(op)'
            BY <1>1, <1>2, <1>6, <1>9, <2>3, <3>1 DEF InProgress, Underway, Whole, Ready, PutBack,
               Empty, Swapped, TakenOut, Lies, Candidate, Backup, AwayFrom
        <3> QED  BY <1>1, <1>9, <2>3, <3>2 DEF IInv, JournalRight, Committed
    <2> QED  BY <1>1, <1>4, <2>1, <2>2, <2>3 DEF Real
<1>10. ASSUME journal' # journal
       PROVE  JournalRight' /\ journal'.op = op
    <2>1. PICK j : j = Saved("restored")
        OBVIOUS
    <2>2. journal' = j /\ mem.phase = "rolled_back" /\ op.action = "install"
        BY <1>2, <1>4, <1>10, <2>1
    <2>3. j.op = op /\ j.phase = "rolled_back"
        BY <1>4, <2>1, SavedIs DEF IInv, Saving
    <2>4. ~Committed(j)
        BY <2>3 DEF Committed
    <2>5. InProgress(j.op)'
        BY <1>1, <1>2, <1>4, <1>6, <2>2, <2>3 DEF InProgress, Underway, Whole, Ready, Lies, Candidate
    <2> QED  BY <2>2, <2>3, <2>4, <2>5 DEF JournalRight
<1>11. MidSwap' => MidSwap /\ journal'.op = journal.op
    <2>1. CASE journal' = journal
        BY <1>2, <2>1 DEF MidSwap, Committed
    <2>2. CASE journal' # journal
        BY <1>1, <1>2, <1>4, <1>10, <2>2, WholeStaysWhole DEF Whole, SameOperation
    <2> QED  BY <2>1, <2>2
<1>12. ArmedRight'
    BY <1>1, <1>2, <1>3, <1>11, ArmedStays DEF IInv, Early
<1> QED  BY <1>3, <1>8, <1>9, <1>10, <1>12, LeadsNowhere DEF Kept

-----------------------------------------------------------------------------
(* Steps of the helper that swap the directories and try the new client *)

LEMMA ForwardIs ==
    ASSUME IInv, pc \in Swapping \cup Finalizing
    PROVE  /\ mode = "run" /\ AtWork /\ journal.op = op /\ armed = op
           /\ journal.phase \notin {"none", "rolled_back", "succeeded"} /\ InProgress(op)
           /\ pc \in {"stash", "unstage", "moveOld"} => Ready(op)
           /\ pc \in {"old_moved", "moveNew"} => Empty(op)
           /\ pc \notin {"stash", "unstage", "moveOld", "old_moved", "moveNew"} => Swapped(op)
           /\ pc = "stash" => local[op.new] = candidateData /\ aside.oldLocal = NoData
                              /\ aside.staged = latest
           /\ pc = "unstage" => local[op.new] = NoData /\ aside.staged = latest
           /\ pc \notin {"stash", "unstage"} => local[op.new] = latest
           /\ pc \in {"stash", "unstage", "pending"} => op.action = "rollback"
<1>1. /\ mode = "run" /\ AtWork /\ journal.op = op /\ armed = op /\ journal.phase # "rolled_back"
      /\ CASE pc \in {"stash", "unstage", "moveOld"} -> Ready(op)
           [] pc \in {"old_moved", "moveNew"} -> Empty(op)
           [] OTHER -> Swapped(op)
      /\ CASE pc = "stash" -> local[op.new] = candidateData /\ aside.oldLocal = NoData
                              /\ aside.staged = latest
           [] pc = "unstage" -> local[op.new] = NoData /\ aside.staged = latest
           [] OTHER -> local[op.new] = latest
      /\ pc \in {"stash", "unstage", "pending"} => op.action = "rollback"
    BY DEF IInv, ProgramRight, Forwards
<1>2. journal.phase \notin {"none", "succeeded"} /\ InProgress(op)
    BY <1>1 DEF IInv, JournalRight, AtWork, Committed
<1>3. /\ pc \in {"stash", "unstage", "moveOld"} => Ready(op)
      /\ pc \in {"old_moved", "moveNew"} => Empty(op)
      /\ pc \notin {"stash", "unstage", "moveOld", "old_moved", "moveNew"} => Swapped(op)
    BY <1>1
<1>4. /\ pc = "stash" => local[op.new] = candidateData /\ aside.oldLocal = NoData
                         /\ aside.staged = latest
      /\ pc = "unstage" => local[op.new] = NoData /\ aside.staged = latest
      /\ pc \notin {"stash", "unstage"} => local[op.new] = latest
    BY <1>1
<1> QED  BY <1>1, <1>2, <1>3, <1>4

LEMMA ForwardKept ==
    ASSUME IInv, pc \in Swapping \cup Finalizing, pc' \in Swapping \cup Finalizing,
           UNCHANGED <<op, armed, lapsed>>, Forwards', JournalRight', PriorRight'
    PROVE  Kept
<1>1. pc # "idle" /\ pc' \notin Early
    BY DEF Swapping, Finalizing, Early
<1>2. armed' = op /\ journal'.op = op
    BY DEF Forwards
<1>3. ArmedRight'
    BY <1>1, <1>2, ArmedAtWork DEF IInv
<1> QED  BY <1>3, LeadsForward DEF Kept, Steps

\* What a move of data does to the candidate's data.
LEMMA DataMoves ==
    ASSUME TypeOK, Real(op), NEW v, NEW f, MoveData(v, f)
    PROVE  /\ local'[op.new] = v /\ local'[op.old] = local[op.old] /\ aside' = f
           /\ UNCHANGED <<at, journal, prior, armed, mem>>
BY DEF TypeOK, Operations, Real, MoveData

LEMMA StashStep ==
    ASSUME IInv, Advance, pc = "stash"
    PROVE  Kept
<1>1. /\ Do(pc) /\ pc' = Leads(pc) /\ Real(op) /\ op \in Operations /\ mode' = mode
      /\ UNCHANGED <<op, latest, candidateData, lapsed>>
    BY AdvanceIs
<1>2. /\ mode = "run" /\ AtWork /\ journal.op = op /\ armed = op /\ InProgress(op) /\ Ready(op)
      /\ journal.phase \notin {"none", "rolled_back", "succeeded"} /\ op.action = "rollback"
      /\ local[op.new] = candidateData /\ aside.oldLocal = NoData /\ aside.staged = latest
    BY ForwardIs DEF Swapping
<1>3. Stash
    BY <1>1 DEF Do, Saving
<1>4. pc' = "unstage"
    BY <1>1, <1>2, RollbackProgram DEF Leads
<1>5. PICK o : o = op
    OBVIOUS
<1>6. /\ local'[o.new] = NoData /\ local'[o.old] = local[o.old]
      /\ aside' = [aside EXCEPT !.oldLocal = local[op.new]]
      /\ UNCHANGED <<at, journal, prior, armed, mem>>
    BY <1>1, <1>3, <1>5, DataMoves DEF Stash, IInv
<1>7. aside'.oldLocal = candidateData /\ aside'.staged = latest
    BY <1>2, <1>6 DEF IInv, TypeOK
<1>8. journal.hadLocal = (candidateData # NoData) /\ local[o.old] = latest
    BY <1>2, <1>5 DEF InProgress, OwnData
<1>9. OwnData(o)' /\ Ready(o)'
    BY <1>1, <1>2, <1>5, <1>6, <1>7, <1>8 DEF OwnData, Ready, Lies
<1>10. JournalRight' /\ PriorRight'
    <2>1. InProgress(o)'
        BY <1>1, <1>2, <1>5, <1>6, <1>8, <1>9 DEF InProgress, Underway, Whole
    <2> QED  BY <1>2, <1>5, <1>6, <2>1, JournalOf DEF IInv, PriorRight
<1>11. Forwards'
    <2>1. AtWork'
        BY <1>1, <1>2, <1>6, AtWorkStays
    <2> QED  BY <1>1, <1>2, <1>4, <1>5, <1>6, <1>7, <1>9, <2>1 DEF Forwards
<1> QED  BY <1>1, <1>4, <1>6, <1>10, <1>11, ForwardKept DEF Swapping

LEMMA UnstageStep ==
    ASSUME IInv, Advance, pc = "unstage"
    PROVE  Kept
<1>1. /\ Do(pc) /\ pc' = Leads(pc) /\ Real(op) /\ op \in Operations /\ mode' = mode
      /\ UNCHANGED <<op, latest, candidateData, lapsed>>
    BY AdvanceIs
<1>2. /\ mode = "run" /\ AtWork /\ journal.op = op /\ armed = op /\ InProgress(op) /\ Ready(op)
      /\ journal.phase \notin {"none", "rolled_back", "succeeded"} /\ op.action = "rollback"
      /\ local[op.new] = NoData /\ aside.staged = latest
    BY ForwardIs DEF Swapping
<1>3. Unstage
    BY <1>1 DEF Do, Saving
<1>4. pc' = "moveOld"
    BY <1>1, <1>2, RollbackProgram DEF Leads
<1>5. PICK o : o = op
    OBVIOUS
<1>6. /\ local'[o.new] = latest /\ local'[o.old] = local[o.old]
      /\ aside'.oldLocal = aside.oldLocal
      /\ UNCHANGED <<at, journal, prior, armed, mem>>
    <2>1. CASE aside.staged # NoData
        <3>1. MoveData(aside.staged, [aside EXCEPT !.staged = NoData])
            BY <1>3, <2>1 DEF Unstage
        <3>2. /\ local'[op.new] = aside.staged /\ local'[op.old] = local[op.old]
              /\ aside' = [aside EXCEPT !.staged = NoData]
              /\ UNCHANGED <<at, journal, prior, armed, mem>>
            BY <1>1, <3>1, DataMoves DEF IInv
        <3> QED  BY <1>2, <1>5, <3>2 DEF IInv, TypeOK
    <2>2. CASE aside.staged = NoData
        BY <1>2, <1>3, <1>5, <2>2 DEF Unstage, Looks, disk
    <2> QED  BY <2>1, <2>2
<1>7. OwnData(op) /\ local[o.old] = latest
    BY <1>2, <1>5 DEF InProgress
<1>8. OwnData(o)' /\ Ready(o)'
    BY <1>1, <1>2, <1>5, <1>6, <1>7 DEF OwnData, Ready, Lies
<1>9. JournalRight' /\ PriorRight'
    <2>1. InProgress(o)'
        BY <1>1, <1>2, <1>5, <1>6, <1>7, <1>8 DEF InProgress, Underway, Whole
    <2> QED  BY <1>2, <1>5, <1>6, <2>1, JournalOf DEF IInv, PriorRight
<1>10. Forwards'
    <2>1. AtWork'
        BY <1>1, <1>2, <1>6, AtWorkStays
    <2> QED  BY <1>1, <1>2, <1>4, <1>5, <1>6, <1>8, <2>1 DEF Forwards
<1> QED  BY <1>1, <1>4, <1>6, <1>9, <1>10, ForwardKept DEF Swapping

LEMMA MoveOldStep ==
    ASSUME IInv, Advance, pc = "moveOld"
    PROVE  Kept
<1>1. /\ Do(pc) /\ pc' = Leads(pc) /\ Real(op) /\ op \in Operations /\ mode' = mode
      /\ UNCHANGED <<op, latest, candidateData, lapsed>>
    BY AdvanceIs
<1>2. /\ mode = "run" /\ AtWork /\ journal.op = op /\ armed = op /\ InProgress(op) /\ Ready(op)
      /\ journal.phase \notin {"none", "rolled_back", "succeeded"} /\ local[op.new] = latest
    BY ForwardIs DEF Swapping
<1>3. MoveTree("install", Backup(op))
    BY <1>1 DEF Do, Saving
<1>4. pc' = "old_moved"
    BY <1>1, InstallProgram, RollbackProgram DEF Leads, Real
<1>5. PICK o : o = op
    OBVIOUS
<1>6. UNCHANGED <<local, aside, journal, prior, armed, mem>>
    BY <1>3 DEF MoveTree
<1>7. Empty(o)'
    <2>1. PICK x, y, q : x = "install" /\ y = Candidate(o) /\ q = Backup(o)
        OBVIOUS
    <2>2. x \in Places /\ y \in Places /\ q \in Places /\ x # y /\ q # x /\ q # y
        BY <1>1, <1>5, <2>1, ItsPlaces
    <2>3. Lies(o, x, y) /\ MoveTree(x, q)
        BY <1>2, <1>3, <1>5, <2>1 DEF Ready
    <2>4. Lies(o, q, y)'
        BY <2>2, <2>3, OldMoves
    <2> QED  BY <2>1, <2>4 DEF Empty
<1>8. JournalRight' /\ PriorRight'
    <2>1. OwnData(o)' <=> OwnData(o)
        BY <1>1, <1>6 DEF OwnData
    <2>2. InProgress(o)'
        BY <1>1, <1>2, <1>5, <1>6, <1>7, <2>1 DEF InProgress, Underway
    <2> QED  BY <1>2, <1>5, <1>6, <2>2, JournalOf DEF IInv, PriorRight
<1>9. Forwards'
    <2>1. AtWork'
        BY <1>1, <1>2, <1>6, AtWorkStays
    <2> QED  BY <1>1, <1>2, <1>4, <1>5, <1>6, <1>7, <2>1 DEF Forwards
<1> QED  BY <1>1, <1>4, <1>6, <1>8, <1>9, ForwardKept DEF Swapping

LEMMA MoveNewStep ==
    ASSUME IInv, Advance, pc = "moveNew"
    PROVE  Kept
<1>1. /\ Do(pc) /\ pc' = Leads(pc) /\ Real(op) /\ op \in Operations /\ mode' = mode
      /\ UNCHANGED <<op, latest, candidateData, lapsed>>
    BY AdvanceIs
<1>2. /\ mode = "run" /\ AtWork /\ journal.op = op /\ armed = op /\ InProgress(op) /\ Empty(op)
      /\ journal.phase \notin {"none", "rolled_back", "succeeded"} /\ local[op.new] = latest
    BY ForwardIs DEF Swapping
<1>3. MoveTree(Candidate(op), "install")
    BY <1>1 DEF Do, Saving
<1>4. pc' = "new_moved"
    BY <1>1, InstallProgram, RollbackProgram DEF Leads, Real
<1>5. PICK o : o = op
    OBVIOUS
<1>6. UNCHANGED <<local, aside, journal, prior, armed, mem>>
    BY <1>3 DEF MoveTree
<1>7. Swapped(o)'
    <2>1. PICK x, y, q : x = Backup(o) /\ y = Candidate(o) /\ q = "install"
        OBVIOUS
    <2>2. x \in Places /\ y \in Places /\ q \in Places /\ x # y /\ q # x /\ q # y
        BY <1>1, <1>5, <2>1, ItsPlaces
    <2>3. Lies(o, x, y) /\ MoveTree(y, q)
        BY <1>2, <1>3, <1>5, <2>1 DEF Empty
    <2>4. Lies(o, x, q)'
        BY <2>2, <2>3, NewMoves
    <2> QED  BY <2>1, <2>4 DEF Swapped
<1>8. JournalRight' /\ PriorRight'
    <2>1. OwnData(o)' <=> OwnData(o)
        BY <1>1, <1>6 DEF OwnData
    <2>2. InProgress(o)'
        BY <1>1, <1>2, <1>5, <1>6, <1>7, <2>1 DEF InProgress, Underway
    <2> QED  BY <1>2, <1>5, <1>6, <2>2, JournalOf DEF IInv, PriorRight
<1>9. Forwards'
    <2>1. AtWork'
        BY <1>1, <1>2, <1>6, AtWorkStays
    <2> QED  BY <1>1, <1>2, <1>4, <1>5, <1>6, <1>7, <2>1 DEF Forwards
<1> QED  BY <1>1, <1>4, <1>6, <1>8, <1>9, ForwardKept DEF Swapping

LEMMA QuietForwardStep ==
    ASSUME IInv, Advance,
           pc \in {"startBridge", "health", "openWindow", "closeWindow", "openFinal", "awaitFinal"}
    PROVE  Kept
<1>1. /\ Do(pc) /\ pc' = Leads(pc) /\ Real(op) /\ op \in Operations /\ op # NoOp /\ mode' = mode
      /\ UNCHANGED <<op, latest, candidateData, lapsed>>
    BY AdvanceIs
<1>2. /\ mode = "run" /\ AtWork /\ journal.op = op /\ armed = op /\ Swapped(op)
      /\ journal.phase # "rolled_back" /\ local[op.new] = latest
    BY ForwardIs DEF Swapping, Finalizing
<1>3. UNCHANGED disk /\ mem' = mem
    BY <1>1 DEF Do, Saving, Looks, Process
<1>4. UNCHANGED <<at, local, aside, journal, prior, armed, mem>>
    BY <1>3 DEF disk
<1>5. pc' \in {"starting", "validating", "closeWindow", "validated", "awaitFinal", "succeeded"}
    BY <1>1, InstallProgram, RollbackProgram DEF Leads, Real
<1>6. JournalRight' /\ PriorRight'
    BY <1>1, <1>4, RecordsStay DEF IInv
<1>7. Forwards'
    <2>1. AtWork'
        BY <1>1, <1>2, <1>4, AtWorkStays
    <2>2. Swapped(op)'
        BY <1>1, <1>2, <1>4 DEF Swapped, Lies, Backup
    <2> QED  BY <1>1, <1>2, <1>4, <1>5, <2>1, <2>2 DEF Forwards
<1> QED  BY <1>1, <1>4, <1>5, <1>6, <1>7, ForwardKept DEF Swapping, Finalizing

LEMMA SaveForwardStep ==
    ASSUME IInv, Advance,
           pc \in {"old_moved", "new_moved", "starting", "validating", "validated", "pending",
                   "finalizing"}
    PROVE  Kept
<1>1. /\ Do(pc) /\ pc' = Leads(pc) /\ Real(op) /\ op \in Operations /\ mode' = mode
      /\ UNCHANGED <<op, latest, candidateData, lapsed>>
    BY AdvanceIs
<1>2. pc \in Swapping \cup Finalizing /\ pc \in Saving \ {"prepared", "succeeded", "committed"}
    BY DEF Swapping, Finalizing, Saving
<1>3. /\ mode = "run" /\ AtWork /\ journal.op = op /\ armed = op /\ local[op.new] = latest
      /\ pc = "old_moved" => Empty(op)
      /\ pc # "old_moved" => Swapped(op)
    BY <1>2, ForwardIs
<1>4. Save(pc)
    BY <1>1 DEF Do
<1>5. UNCHANGED <<at, local, aside, prior, armed>>
    BY <1>4 DEF Save
<1>6. /\ JournalRight' /\ PriorRight' /\ AtWork' /\ journal'.op = journal.op
      /\ journal'.phase = Saved(pc).phase
    BY <1>1, <1>2, <1>3, <1>4, SavesOn DEF IInv
<1>7. journal'.phase # "rolled_back"
    BY <1>2, <1>6, SavedIs DEF IInv
<1>8. /\ pc = "old_moved" => pc' = "moveNew"
      /\ pc # "old_moved" => pc' \in {"startBridge", "health", "openWindow", "finalizing", "pending",
                                      "openFinal"}
      /\ pc' = "pending" => op.action = "rollback"
    <2>1. pc' = After(pc)
        BY <1>1 DEF Leads
    <2>2. CASE op.action = "install"
        <3>1. pc # "pending"
            BY <1>2, <2>2, ForwardIs
        <3> QED  BY <2>1, <2>2, <3>1, InstallProgram
    <2>3. CASE op.action = "rollback"
        BY <2>1, <2>3, RollbackProgram
    <2> QED  BY <1>1, <2>2, <2>3 DEF Real
<1>9. /\ pc = "old_moved" => Empty(op)'
      /\ pc # "old_moved" => Swapped(op)'
    BY <1>1, <1>3, <1>5 DEF Empty, Swapped, Lies, Backup, Candidate
<1>10. Forwards'
    <2>1. /\ mode' = "run" /\ journal'.op = op' /\ armed' = op' /\ local'[op'.new] = latest'
        BY <1>1, <1>3, <1>5, <1>6
    <2>2. CASE pc = "old_moved"
        BY <1>6, <1>7, <1>8, <1>9, <2>1, <2>2 DEF Forwards
    <2>3. CASE pc # "old_moved"
        BY <1>1, <1>6, <1>7, <1>8, <1>9, <2>1, <2>3 DEF Forwards
    <2> QED  BY <2>2, <2>3
<1>11. pc' \in Swapping \cup Finalizing
    BY <1>8 DEF Swapping, Finalizing
<1> QED  BY <1>1, <1>2, <1>5, <1>6, <1>10, <1>11, ForwardKept

-----------------------------------------------------------------------------
(* Steps of the helper that end the operation well *)

\* Nothing half-swapped needs no registration.
LEMMA ArmedOrNot ==
    ASSUME ArmedRight, pc # "idle", pc' \notin Early, armed' \in {armed, NoOp}, lapsed' = lapsed,
           ~MidSwap'
    PROVE  ArmedRight'
BY DEF ArmedRight

LEMMA SettledKept ==
    ASSUME NEW j, journal' = j, Committed(j), Settled(j)'
    PROVE  JournalRight' /\ ~MidSwap'
BY DEF JournalRight, MidSwap, Committed

LEMMA SucceededStep ==
    ASSUME IInv, Advance, pc = "succeeded"
    PROVE  Kept
<1>1. /\ Do(pc) /\ pc' = Leads(pc) /\ Real(op) /\ op \in Operations /\ mode' = mode
      /\ UNCHANGED <<op, latest, candidateData, lapsed>>
    BY AdvanceIs
<1>2. AtWork /\ journal.op = op /\ armed = op /\ Swapped(op) /\ local[op.new] = latest
    BY ForwardIs DEF Finalizing
<1>3. PICK j : j = Saved("succeeded")
    OBVIOUS
<1>4. journal' = j /\ mem' = j /\ UNCHANGED <<at, local, aside, prior, armed>>
    BY <1>1, <1>3 DEF Do, Save, Saving
<1>5. /\ j.op = op /\ j.phase = "succeeded" /\ j.gui
      /\ j.pending = (op.action = "rollback")
    BY <1>2, <1>3, SavedIs DEF IInv, Saving, AtWork
<1>6. Committed(j) /\ (j.pending <=> op.action = "rollback")
    BY <1>5 DEF Committed
<1>7. Settled(j)'
    <2>1. CASE op.action = "install"
        <3>1. Done(j.op)
            BY <1>2, <1>5, <2>1, ItsPlaces, <1>1 DEF Done, Swapped
        <3> QED  BY <1>1, <1>2, <1>4, <1>5, <1>6, <2>1, <3>1 DEF Settled, Done, Lies
    <2>2. CASE op.action = "rollback"
        BY <1>1, <1>2, <1>4, <1>5, <1>6, <2>2 DEF Settled, Swapped, Lies
    <2> QED  BY <1>1, <2>1, <2>2 DEF Real
<1>8. JournalRight' /\ ~MidSwap'
    BY <1>4, <1>6, <1>7, SettledKept
<1>9. PriorRight'
    BY <1>4 DEF IInv, PriorRight
<1>10. pc' = IF op.action = "install" THEN "disarm" ELSE "commit"
    BY <1>1, InstallProgram, RollbackProgram DEF Leads, Real
<1>11. ArmedRight'
    BY <1>1, <1>4, <1>8, <1>10, ArmedOrNot DEF IInv, Early
<1>12. Ending'
    <2>1. Committed(journal')
        BY <1>4, <1>6 DEF Committed
    <2>3. SameOperation(journal.op, op)'
        BY <1>1, <1>4, <1>5 DEF SameOperation
    <2> QED  BY <1>1, <1>2, <1>4, <1>6, <1>10, <2>1, <2>3 DEF Ending, Committing, Real, Committed
<1> QED  BY <1>8, <1>9, <1>10, <1>11, <1>12, LeadsToEnd DEF Kept, Steps, Committing

LEMMA CommitStep ==
    ASSUME IInv, Advance, pc = "commit"
    PROVE  Kept
<1>1. /\ Do(pc) /\ Possible(pc) /\ pc' = Leads(pc) /\ Real(op) /\ op \in Operations /\ mode' = mode
      /\ UNCHANGED <<op, latest, candidateData, lapsed>>
    BY AdvanceIs
<1>2. /\ SameOperation(journal.op, op) /\ mem = journal /\ Committed(journal)
      /\ journal.pending /\ op.action = "rollback" /\ armed = op
    BY DEF IInv, ProgramRight, Ending, Committing
<1>3. PICK j, o : j = journal /\ o = op
    OBVIOUS
<1>4. /\ Real(o) /\ Backup(o) = "current"
      /\ "current" \in Places /\ "backup" \in Places /\ "install" \in Places
    BY <1>1, <1>2, <1>3, ItsPlaces DEF Places
<1>5. Settled(journal)
    BY <1>2 DEF IInv, JournalRight
<1>6. Done(o) \/ Swapped(o)
    BY <1>2, <1>3, <1>5, SameLayout DEF Settled
<1>7. Commit /\ (at["current"] = NoTree) # (at["backup"] = NoTree)
    BY <1>1 DEF Do, Saving, Possible
<1>8. UNCHANGED <<local, aside, journal, prior, armed, mem>>
    BY <1>7 DEF Commit, MoveTree, Looks, disk
<1>9. Done(o)'
    <2>1. CASE at["current"] # NoTree
        <3>1. MoveTree("current", "backup")
            BY <1>3, <1>4, <1>7, <2>1 DEF Commit, HasBackup
        <3>2. ~Done(o)
            BY <1>1, <1>3, <1>4, <2>1, Where DEF Done
        <3>3. Lies(o, "current", "install")
            BY <1>4, <1>6, <3>2 DEF Swapped
        <3>4. Lies(o, "backup", "install")'
            BY <1>4, <3>1, <3>3, OldMoves
        <3> QED  BY <3>4 DEF Done
    <2>2. CASE at["current"] = NoTree
        <3>1. at' = at
            BY <1>3, <1>4, <1>7, <2>2 DEF Commit, HasBackup, Looks, disk
        <3>2. ~Swapped(o)
            BY <1>1, <1>3, <1>4, <2>2, Where DEF Swapped
        <3> QED  BY <1>6, <3>1, <3>2 DEF Done, Lies
    <2> QED  BY <2>1, <2>2
<1>10. Done(j.op)'
    BY <1>2, <1>3, <1>9 DEF Done, Lies, SameOperation
<1>11. Settled(j)'
    BY <1>1, <1>3, <1>5, <1>8, <1>10 DEF Settled
<1>12. JournalRight' /\ ~MidSwap'
    BY <1>2, <1>3, <1>8, <1>11, SettledKept
<1>13. PriorRight'
    BY <1>8 DEF IInv, PriorRight
<1>14. pc' = "committed"
    BY <1>1, <1>2, RollbackProgram DEF Leads
<1>15. ArmedRight'
    BY <1>1, <1>8, <1>12, <1>14, ArmedOrNot DEF IInv, Early
<1>16. Done(op)'
    BY <1>1, <1>3, <1>9
<1>17. Ending'
    BY <1>1, <1>2, <1>8, <1>14, <1>16 DEF Ending, SameOperation, Committed
<1> QED  BY <1>12, <1>13, <1>14, <1>15, <1>17, LeadsToEnd DEF Kept, Steps, Committing

LEMMA CommittedStep ==
    ASSUME IInv, Advance, pc = "committed"
    PROVE  Kept
<1>1. /\ Do(pc) /\ pc' = Leads(pc) /\ Real(op) /\ op \in Operations /\ mode' = mode
      /\ UNCHANGED <<op, latest, candidateData, lapsed>>
    BY AdvanceIs
<1>2. /\ SameOperation(journal.op, op) /\ mem = journal /\ Committed(journal)
      /\ op.action = "rollback" /\ armed = op /\ Done(op)
    BY DEF IInv, ProgramRight, Ending, Committing
<1>3. PICK j, o : j = Saved("committed") /\ o = journal.op
    OBVIOUS
<1>4. journal' = j /\ mem' = j /\ UNCHANGED <<at, local, aside, prior, armed>>
    BY <1>1, <1>3 DEF Do, Save, Saving
<1>5. j.op = o /\ j.phase = "succeeded" /\ j.gui /\ ~j.pending
    BY <1>2, <1>3, SavedIs DEF IInv, Saving, Committed
<1>6. Settled(journal)
    BY <1>2 DEF IInv, JournalRight
<1>7. Done(o)
    BY <1>2, <1>3, SameLayout
<1>8. Settled(j)'
    BY <1>1, <1>3, <1>4, <1>5, <1>6, <1>7 DEF Settled, Done, Lies
<1>9. Committed(j)
    BY <1>5 DEF Committed
<1>10. JournalRight' /\ ~MidSwap'
    BY <1>4, <1>8, <1>9, SettledKept
<1>11. PriorRight'
    BY <1>4 DEF IInv, PriorRight
<1>12. pc' = "disarm"
    BY <1>1, <1>2, RollbackProgram DEF Leads
<1>13. ArmedRight'
    BY <1>1, <1>4, <1>10, <1>12, ArmedOrNot DEF IInv, Early
<1>14. Ending'
    BY <1>1, <1>2, <1>4, <1>9, <1>12 DEF Ending, Committing, Committed
<1> QED  BY <1>10, <1>11, <1>12, <1>13, <1>14, LeadsToEnd DEF Kept, Steps

LEMMA DisarmStep ==
    ASSUME IInv, Advance, pc = "disarm"
    PROVE  Kept
<1>1. /\ Do(pc) /\ pc' = Leads(pc) /\ Real(op) /\ op # NoOp
      /\ UNCHANGED <<op, latest, candidateData, lapsed>>
    BY AdvanceIs
<1>2. armed' \in {armed, NoOp} /\ UNCHANGED <<at, local, aside, journal, prior, mem>>
    BY <1>1 DEF Do, Saving, Arms, Looks, disk
<1>3. JournalRight' /\ PriorRight'
    BY <1>1, <1>2, RecordsStay DEF IInv
<1>4. pc' = "idle"
    BY <1>1, InstallProgram, RollbackProgram DEF Leads, Real
<1>5. ~MidSwap
    <2>1. Committed(journal) \/ journal.phase = "rolled_back"
        BY DEF IInv, ProgramRight, Ending
    <2>2. CASE Committed(journal)
        BY <2>2, NothingToRecover
    <2>3. CASE journal.phase = "rolled_back" /\ ~Committed(journal)
        BY <2>3, WholeIsNotMid DEF IInv, JournalRight, InProgress
    <2> QED  BY <2>1, <2>2, <2>3
<1>6. ~MidSwap'
    BY <1>2, <1>5 DEF MidSwap, Committed
<1>7. ArmedRight'
    BY <1>1, <1>2, <1>4, <1>6, ArmedOrNot DEF IInv, Early
<1> QED  BY <1>3, <1>4, <1>7, LeadsNowhere DEF Kept

-----------------------------------------------------------------------------
(* Steps of the helper that take the operation back *)

Turning == {"failed", "failedAgain", "relabel"} \cup Undoing \cup Reopening

LEMMA BackwardIs ==
    ASSUME IInv, pc \in Turning
    PROVE  /\ AtWork /\ SameOperation(journal.op, op) /\ armed = op
           /\ journal.phase \notin {"none", "succeeded"} /\ InProgress(journal.op)
           /\ Underway(op) /\ local[op.old] = latest
           /\ mem.hadLocal = journal.hadLocal
           /\ op.action = "rollback" => OwnData(op)
           /\ journal.phase = "rolled_back" =>
                Whole(op) /\ (op.action = "rollback" => OwnDataBack(op))
<1>1. AtWork /\ armed = op /\ pc # "idle"
    BY DEF IInv, ProgramRight, Backwards, Turning, Undoing, Reopening
<1>2. /\ SameOperation(journal.op, op) /\ mem.hadLocal = journal.hadLocal
      /\ journal.phase # "none" /\ ~Committed(journal)
    BY <1>1 DEF AtWork
<1>3. journal.phase # "succeeded" /\ InProgress(journal.op)
    BY <1>2 DEF IInv, JournalRight, Committed
<1>4. PICK o : o = journal.op
    OBVIOUS
<1>5. o.old = op.old /\ o.new = op.new /\ o.action = op.action
    BY <1>2, <1>4 DEF SameOperation
<1>6. /\ Underway(o) /\ local[o.old] = latest
      /\ o.action = "rollback" => OwnData(o)
      /\ journal.phase = "rolled_back" => Whole(o) /\ (o.action = "rollback" => OwnDataBack(o))
    BY <1>3, <1>4 DEF InProgress
<1>7. Underway(op) /\ (Whole(o) => Whole(op))
    BY <1>2, <1>4, <1>6, SameLayout
<1>8. /\ OwnData(o) => OwnData(op)
      /\ OwnDataBack(o) => OwnDataBack(op)
    BY <1>5 DEF OwnData, OwnDataBack
<1> QED  BY <1>1, <1>2, <1>3, <1>5, <1>6, <1>7, <1>8

LEMMA BackwardKept ==
    ASSUME IInv, pc \in Turning, pc' \in Turning, UNCHANGED <<armed, lapsed>>,
           MidSwap' => MidSwap /\ journal'.op = journal.op, Backwards', JournalRight', PriorRight'
    PROVE  Kept
<1>1. pc # "idle" /\ pc \notin Early /\ pc' \notin Early /\ pc' \in Steps
    BY DEF Turning, Undoing, Reopening, Early, Steps, Saving
<1>2. ArmedRight'
    BY <1>1, ArmedStays DEF IInv
<1> QED  BY <1>1, <1>2, LeadsBack DEF Kept, Turning

\* The operation that the journal names and the one at work are alike.
LEMMA StillUnderWay ==
    ASSUME NEW j, NEW o, journal = j, journal' = j, op' = op, op = o, SameOperation(j.op, o),
           Real(o), j.phase \notin {"none", "succeeded"}, local'[o.old] = latest',
           Underway(o)', o.action = "rollback" => OwnData(o)',
           j.phase = "rolled_back" => Whole(o)' /\ (o.action = "rollback" => OwnDataBack(o)')
    PROVE  JournalRight'
<1>1. PICK p : p = j.op
    OBVIOUS
<1>2. p.old = o.old /\ p.new = o.new /\ p.action = o.action
    BY <1>1 DEF SameOperation
<1>3. /\ Underway(p)' <=> Underway(o)'
      /\ Whole(p)' <=> Whole(o)'
    BY <1>2 DEF Underway, Whole, Ready, PutBack, Empty, Swapped, TakenOut, Lies, Candidate, Backup,
       AwayFrom
<1>4. /\ OwnData(p)' <=> OwnData(o)'
      /\ OwnDataBack(p)' <=> OwnDataBack(o)'
    BY <1>2 DEF OwnData, OwnDataBack
<1>5. Real(p)
    BY <1>2 DEF Real
<1>6. InProgress(p)'
    BY <1>2, <1>3, <1>4, <1>5 DEF InProgress
<1> QED  BY <1>1, <1>6, JournalOf

LEMMA SaveBackStep ==
    ASSUME IInv, Advance, pc \in {"failed", "failedAgain", "relabel", "rolled_back", "restored"}
    PROVE  Kept
<1>1. /\ Do(pc) /\ pc' = Leads(pc) /\ Real(op) /\ op \in Operations /\ mode' = mode
      /\ UNCHANGED <<op, latest, candidateData, lapsed>>
    BY AdvanceIs
<1>2. pc \in Turning /\ pc \in Saving \ {"prepared", "succeeded", "committed"}
    BY DEF Turning, Undoing, Reopening, Saving
<1>3. /\ AtWork /\ armed = op
      /\ journal.phase = "rolled_back" =>
           Whole(op) /\ (op.action = "rollback" => OwnDataBack(op))
    BY <1>2, BackwardIs
<1>4. pc \in {"rolled_back", "relabel", "restored"} =>
        Whole(op) /\ (op.action = "rollback" => OwnDataBack(op))
    BY <1>3 DEF IInv, ProgramRight, Backwards, Reopening
<1>5. Save(pc)
    BY <1>1, <1>2 DEF Do
<1>6. UNCHANGED <<at, local, aside, prior, armed>>
    BY <1>5 DEF Save
<1>7. /\ JournalRight' /\ PriorRight' /\ AtWork' /\ journal'.op = journal.op
      /\ journal'.phase = Saved(pc).phase /\ (MidSwap' => MidSwap)
    BY <1>1, <1>2, <1>3, <1>4, <1>5, SavesOn DEF IInv
<1>8. pc \in {"rolled_back", "relabel", "restored"} => journal'.phase = "rolled_back"
    BY <1>2, <1>7, SavedIs DEF IInv
<1>9. /\ pc = "failed" => pc' = "quiet"
      /\ pc = "rolled_back" => pc' = "reopen"
      /\ pc \in {"failedAgain", "relabel"} => pc' = "idle"
      /\ pc = "restored" => pc' = IF op.action = "install" THEN "disarm" ELSE "restorePrior"
    <2>1. pc' = After(pc)
        BY <1>1 DEF Leads
    <2>2. CASE op.action = "install"
        BY <2>1, <2>2, InstallProgram
    <2>3. CASE op.action = "rollback"
        BY <2>1, <2>3, RollbackProgram
    <2> QED  BY <1>1, <2>2, <2>3 DEF Real
<1>10. CASE pc' \in {"quiet", "reopen", "restorePrior"}
    <2>1. Backwards'
        BY <1>1, <1>3, <1>6, <1>7, <1>8, <1>9, <1>10 DEF Backwards, Reopening, Real
    <2>2. pc' \in Turning
        BY <1>10 DEF Turning, Undoing, Reopening
    <2> QED  BY <1>1, <1>2, <1>6, <1>7, <2>1, <2>2, BackwardKept
<1>11. CASE pc' \in {"disarm", "idle"}
    <2>1. ArmedRight'
        BY <1>1, <1>6, <1>7, <1>11, ArmedStays DEF IInv, Early
    <2>2. ProgramRight'
        <3>1. CASE pc' = "disarm"
            <4>1. Ending'
                BY <1>1, <1>3, <1>6, <1>8, <1>9, <3>1 DEF Ending, Committing
            <4> QED  BY <3>1, <4>1, LeadsToEnd
        <3>2. CASE pc' = "idle"
            BY <3>2, LeadsNowhere
        <3> QED  BY <1>11, <3>1, <3>2
    <2> QED  BY <1>7, <1>11, <2>1, <2>2 DEF Kept, Steps
<1> QED  BY <1>9, <1>10, <1>11

LEMMA QuietStep ==
    ASSUME IInv, Advance, pc \in {"quiet", "reopen"}
    PROVE  Kept
<1>1. /\ Do(pc) /\ pc' = Leads(pc) /\ Real(op) /\ op \in Operations /\ op # NoOp /\ mode' = mode
      /\ UNCHANGED <<op, latest, candidateData, lapsed>>
    BY AdvanceIs
<1>2. pc \in Turning
    BY DEF Turning, Undoing, Reopening
<1>3. AtWork /\ armed = op
    BY <1>2, BackwardIs
<1>4. UNCHANGED <<disk, mem>>
    BY <1>1 DEF Do, Saving, Process
<1>5. UNCHANGED <<at, local, aside, journal, prior, armed, mem>>
    BY <1>4 DEF disk
<1>6. JournalRight' /\ PriorRight'
    BY <1>1, <1>5, RecordsStay DEF IInv
<1>7. /\ pc = "quiet" => pc' = "moveOut"
      /\ pc = "reopen" => pc' = "restored"
    BY <1>1, InstallProgram, RollbackProgram DEF Leads, Real
<1>8. Backwards'
    <2>1. AtWork'
        BY <1>1, <1>3, <1>5, AtWorkStays
    <2>2. pc = "reopen" => journal.phase = "rolled_back"
        BY DEF IInv, ProgramRight, Backwards, Reopening
    <2> QED  BY <1>1, <1>3, <1>5, <1>7, <2>1, <2>2 DEF Backwards, Reopening
<1>9. MidSwap' => MidSwap /\ journal'.op = journal.op
    BY <1>5 DEF MidSwap, Committed
<1>10. pc' \in Turning
    BY <1>7 DEF Turning, Undoing, Reopening
<1> QED  BY <1>1, <1>2, <1>5, <1>6, <1>8, <1>9, <1>10, BackwardKept

LEMMA MoveOutStep ==
    ASSUME IInv, Advance, pc = "moveOut"
    PROVE  Kept
<1>1. /\ Do(pc) /\ pc' = Leads(pc) /\ Real(op) /\ op \in Operations /\ op # NoOp /\ mode' = mode
      /\ UNCHANGED <<op, latest, candidateData, lapsed>>
    BY AdvanceIs
<1>2. pc \in Turning
    BY DEF Turning, Undoing
<1>3. /\ AtWork /\ SameOperation(journal.op, op) /\ armed = op
      /\ journal.phase \notin {"none", "succeeded"}
      /\ Underway(op) /\ local[op.old] = latest
      /\ op.action = "rollback" => OwnData(op)
      /\ journal.phase = "rolled_back" => Whole(op)
    BY <1>2, BackwardIs
<1>4. MoveOut
    BY <1>1 DEF Do, Saving
<1>5. UNCHANGED <<local, aside, journal, prior, armed, mem>>
    BY <1>4 DEF MoveOut, MoveTree, Looks, disk
<1>6. pc' = "moveBack"
    BY <1>1, InstallProgram, RollbackProgram DEF Leads, Real
<1>7. PICK o, j : o = op /\ j = journal
    OBVIOUS
<1>8. Backwards'
    <2>1. AtWork'
        BY <1>1, <1>3, <1>5, AtWorkStays
    <2> QED  BY <1>1, <1>3, <1>5, <1>6, <2>1 DEF Backwards, Reopening
<1>9. PriorRight' /\ pc' \in Turning
    BY <1>5, <1>6 DEF IInv, PriorRight, Turning, Undoing
<1>10. CASE HasBackup /\ Installed
    <2>1. Swapped(o) /\ journal.phase # "rolled_back"
        BY <1>1, <1>3, <1>7, <1>10, HowFar DEF HasBackup, Installed
    <2>2. PICK x, y, q : x = Backup(o) /\ y = "install" /\ q = AwayFrom(o)
        OBVIOUS
    <2>3. x \in Places /\ y \in Places /\ q \in Places /\ x # y /\ q # x /\ q # y
        BY <1>1, <1>7, <2>2, ItsPlaces
    <2>4. MoveTree(y, q)
        BY <1>4, <1>7, <1>10, <2>2 DEF MoveOut, OutOfTheWay, AwayFrom
    <2>5. Lies(o, x, y)
        BY <2>1, <2>2 DEF Swapped
    <2>6. Lies(o, x, q)'
        BY <2>3, <2>4, <2>5, NewMoves
    <2>7. Underway(o)'
        BY <2>2, <2>6 DEF TakenOut, Underway
    <2>8. o.action = "rollback" => OwnData(o)'
        BY <1>1, <1>3, <1>5, <1>7 DEF OwnData
    <2>9. JournalRight'
        BY <1>1, <1>3, <1>5, <1>7, <2>1, <2>7, <2>8, StillUnderWay
    <2>10. MidSwap
        BY <1>3, <1>10 DEF MidSwap, HasBackup, SameOperation, Backup, Committed
    <2> QED  BY <1>1, <1>2, <1>5, <1>8, <1>9, <2>9, <2>10, BackwardKept
<1>11. CASE ~(HasBackup /\ Installed)
    <2>1. at' = at
        BY <1>4, <1>11 DEF MoveOut, Looks, disk
    <2>2. JournalRight'
        BY <1>1, <1>5, <2>1, RecordsStay DEF IInv
    <2>3. MidSwap' => MidSwap
        BY <1>5, <2>1 DEF MidSwap, Committed
    <2> QED  BY <1>1, <1>2, <1>5, <1>8, <1>9, <2>2, <2>3, BackwardKept
<1> QED  BY <1>10, <1>11

LEMMA MoveBackStep ==
    ASSUME IInv, Advance, pc = "moveBack"
    PROVE  Kept
<1>1. /\ Do(pc) /\ Possible(pc) /\ pc' = Leads(pc) /\ Real(op) /\ op \in Operations /\ op # NoOp
      /\ mode' = mode /\ UNCHANGED <<op, latest, candidateData, lapsed>>
    BY AdvanceIs
<1>2. pc \in Turning
    BY DEF Turning, Undoing
<1>3. /\ AtWork /\ SameOperation(journal.op, op) /\ armed = op
      /\ journal.phase \notin {"none", "succeeded"}
      /\ Underway(op) /\ local[op.old] = latest
      /\ op.action = "rollback" => OwnData(op)
      /\ journal.phase = "rolled_back" => Whole(op)
    BY <1>2, BackwardIs
<1>4. MoveBack /\ (HasBackup => ~Installed)
    BY <1>1 DEF Do, Saving, Possible
<1>5. UNCHANGED <<local, aside, journal, prior, armed, mem>>
    BY <1>4 DEF MoveBack, MoveTree, Looks, disk
<1>6. pc' = IF op.action = "install" THEN "rolled_back" ELSE "dropLocal"
    BY <1>1, InstallProgram, RollbackProgram DEF Leads, Real
<1>7. PICK o, j : o = op /\ j = journal
    OBVIOUS
<1>8. PriorRight' /\ pc' \in Turning
    BY <1>5, <1>6 DEF IInv, PriorRight, Turning, Undoing
<1>9. CASE HasBackup
    <2>1. (Empty(o) \/ TakenOut(o)) /\ journal.phase # "rolled_back"
        BY <1>1, <1>3, <1>4, <1>7, <1>9, HowFar DEF HasBackup, Installed
    <2>2. MoveTree(Backup(o), "install")
        BY <1>4, <1>7, <1>9 DEF MoveBack
    <2>3. Whole(o)'
        <3>1. PICK x, y, q : x = Backup(o) /\ y = (IF Empty(o) THEN Candidate(o) ELSE AwayFrom(o))
                             /\ q = "install"
            OBVIOUS
        <3>2. x \in Places /\ y \in Places /\ q \in Places /\ x # y /\ q # x /\ q # y
            BY <1>1, <1>7, <3>1, ItsPlaces
        <3>3. Lies(o, x, y) /\ MoveTree(x, q)
            BY <2>1, <2>2, <3>1 DEF Empty, TakenOut
        <3>4. Lies(o, q, y)'
            BY <3>2, <3>3, OldMoves
        <3>5. y = Candidate(o) \/ y = AwayFrom(o)
            BY <3>1
        <3>6. CASE y = Candidate(o)
            BY <3>1, <3>4, <3>6 DEF Ready, Whole
        <3>7. CASE y = AwayFrom(o)
            BY <3>1, <3>4, <3>7 DEF PutBack, Whole
        <3> QED  BY <3>5, <3>6, <3>7
    <2>4. Underway(o)'
        BY <2>3 DEF Underway
    <2>5. o.action = "rollback" => OwnData(o)'
        BY <1>1, <1>3, <1>5, <1>7 DEF OwnData
    <2>6. JournalRight'
        BY <1>1, <1>3, <1>5, <1>7, <2>1, <2>4, <2>5, StillUnderWay
    <2>7. MidSwap
        BY <1>3, <1>9 DEF MidSwap, HasBackup, SameOperation, Backup, Committed
    <2>8. Backwards'
        <3>1. AtWork' /\ Whole(op)'
            BY <1>1, <1>3, <1>5, <1>7, <2>3, AtWorkStays
        <3> QED  BY <1>1, <1>3, <1>5, <1>6, <3>1 DEF Backwards, Reopening, Real
    <2> QED  BY <1>1, <1>2, <1>5, <1>8, <2>6, <2>7, <2>8, BackwardKept
<1>10. CASE ~HasBackup
    <2>1. at' = at
        BY <1>4, <1>10 DEF MoveBack, Looks, disk
    <2>2. Whole(op)
        BY <1>1, <1>3, <1>10, HowFar DEF HasBackup
    <2>3. Whole(op)'
        BY <1>1, <2>1, <2>2 DEF Whole, Ready, PutBack, Lies, Candidate, AwayFrom
    <2>4. JournalRight'
        BY <1>1, <1>5, <2>1, RecordsStay DEF IInv
    <2>5. MidSwap' => MidSwap
        BY <1>5, <2>1 DEF MidSwap, Committed
    <2>6. Backwards'
        <3>1. AtWork'
            BY <1>1, <1>3, <1>5, AtWorkStays
        <3> QED  BY <1>1, <1>3, <1>5, <1>6, <2>3, <3>1 DEF Backwards, Reopening, Real
    <2> QED  BY <1>1, <1>2, <1>5, <1>8, <2>4, <2>5, <2>6, BackwardKept
<1> QED  BY <1>9, <1>10

\* What putting the candidate's data back needs and leaves.
LEMMA DataIs ==
    ASSUME IInv, Advance, pc \in {"dropLocal", "restoreLocal"}
    PROVE  /\ AtWork /\ SameOperation(journal.op, op) /\ armed = op /\ op.action = "rollback"
           /\ journal.phase \notin {"none", "succeeded"}
           /\ Whole(op) /\ local[op.old] = latest /\ OwnData(op)
           /\ mem.hadLocal = (candidateData # NoData)
           /\ pc = "restoreLocal" => aside.oldLocal # NoData \/ local[op.new] = candidateData
           /\ journal.phase = "rolled_back" => OwnDataBack(op)
<1>1. pc \in Turning
    BY DEF Turning, Undoing
<1>2. /\ AtWork /\ SameOperation(journal.op, op) /\ armed = op
      /\ journal.phase \notin {"none", "succeeded"} /\ local[op.old] = latest
      /\ mem.hadLocal = journal.hadLocal
      /\ op.action = "rollback" => OwnData(op)
      /\ journal.phase = "rolled_back" => (op.action = "rollback" => OwnDataBack(op))
    BY <1>1, BackwardIs
<1>3. /\ op.action = "rollback" /\ Whole(op)
      /\ pc = "restoreLocal" => aside.oldLocal # NoData \/ local[op.new] = candidateData
    BY DEF IInv, ProgramRight, Backwards
<1> QED  BY <1>2, <1>3 DEF OwnData

\* A move of data with the directories as they were.
LEMMA DataStepKept ==
    ASSUME IInv, Advance, pc \in {"dropLocal", "restoreLocal"},
           UNCHANGED <<op, at, journal, prior, armed, mem, mode, latest, candidateData, lapsed>>,
           local'[op.old] = local[op.old],
           NEW o, o = op, OwnData(o)', journal.phase = "rolled_back" => OwnDataBack(o)',
           pc' = "restoreLocal" => aside'.oldLocal # NoData \/ local'[op.new] = candidateData,
           pc' = "rolled_back" => OwnDataBack(o)',
           pc' \in {"restoreLocal", "rolled_back"}
    PROVE  Kept
<1>1. /\ AtWork /\ SameOperation(journal.op, op) /\ armed = op /\ op.action = "rollback"
      /\ journal.phase \notin {"none", "succeeded"}
      /\ Whole(op) /\ local[op.old] = latest
    BY DataIs
<1>2. Real(op)
    BY AdvanceIs
<1>3. Whole(o)' /\ Underway(o)' /\ Whole(op)'
    BY <1>1 DEF Whole, Ready, PutBack, Lies, Underway
<1>4. PICK j : j = journal
    OBVIOUS
<1>5. JournalRight'
    BY <1>1, <1>2, <1>3, <1>4, StillUnderWay
<1>6. PriorRight' /\ pc \in Turning /\ pc' \in Turning
    BY DEF IInv, PriorRight, Turning, Undoing
<1>7. MidSwap' => MidSwap
    BY DEF MidSwap, Committed
<1>8. Backwards'
    <2>1. AtWork'
        BY <1>1, AtWorkStays
    <2>2. OwnDataBack(o)' => OwnDataBack(op)'
        OBVIOUS
    <2> QED  BY <1>1, <1>3, <2>1, <2>2 DEF Backwards, Reopening
<1> QED  BY <1>5, <1>6, <1>7, <1>8, BackwardKept

LEMMA DropLocalStep ==
    ASSUME IInv, Advance, pc = "dropLocal"
    PROVE  Kept
<1>1. /\ Do(pc) /\ pc' = Leads(pc) /\ Real(op) /\ op \in Operations /\ mode' = mode
      /\ UNCHANGED <<op, latest, candidateData, lapsed>>
    BY AdvanceIs
<1>2. /\ op.action = "rollback" /\ OwnData(op) /\ mem.hadLocal = (candidateData # NoData)
      /\ journal.phase = "rolled_back" => OwnDataBack(op)
    BY DataIs
<1>3. DropLocal
    BY <1>1 DEF Do, Saving
<1>4. pc' = "restoreLocal"
    BY <1>1, <1>2, RollbackProgram DEF Leads
<1>5. PICK o : o = op
    OBVIOUS
<1>6. CASE LocalMustGo
    <2>1. MoveData(NoData, [aside EXCEPT !.failedLocal = local[op.new]])
        BY <1>3, <1>6 DEF DropLocal
    <2>2. /\ local'[op.new] = NoData /\ local'[op.old] = local[op.old]
          /\ aside' = [aside EXCEPT !.failedLocal = local[op.new]]
          /\ UNCHANGED <<at, journal, prior, armed, mem>>
        BY <1>1, <2>1, DataMoves DEF IInv
    <2>3. aside'.oldLocal = aside.oldLocal
        BY <2>2 DEF IInv, TypeOK
    <2>4. /\ aside.oldLocal # NoData \/ candidateData = NoData
          /\ local[op.new] # NoData
        BY <1>2, <1>6 DEF LocalMustGo
    <2>5. OwnData(o)'
        BY <1>1, <1>2, <1>5, <2>2, <2>3, <2>4 DEF OwnData
    <2>6. journal.phase # "rolled_back"
        BY <1>2, <2>4 DEF OwnDataBack
    <2>7. aside'.oldLocal # NoData \/ local'[op.new] = candidateData
        BY <2>2, <2>3, <2>4
    <2> QED  BY <1>1, <1>4, <1>5, <2>2, <2>5, <2>6, <2>7, DataStepKept
<1>7. CASE ~LocalMustGo
    <2>1. UNCHANGED <<at, local, aside, journal, prior, armed, mem>>
        BY <1>3, <1>7 DEF DropLocal, Looks, disk
    <2>2. aside.oldLocal # NoData \/ local[op.new] = candidateData
        BY <1>2, <1>7 DEF LocalMustGo, OwnData
    <2>3. OwnData(o)' /\ (journal.phase = "rolled_back" => OwnDataBack(o)')
        BY <1>1, <1>2, <1>5, <2>1 DEF OwnData, OwnDataBack
    <2> QED  BY <1>1, <1>4, <1>5, <2>1, <2>2, <2>3, DataStepKept
<1> QED  BY <1>6, <1>7

LEMMA RestoreLocalStep ==
    ASSUME IInv, Advance, pc = "restoreLocal"
    PROVE  Kept
<1>1. /\ Do(pc) /\ pc' = Leads(pc) /\ Real(op) /\ op \in Operations /\ mode' = mode
      /\ UNCHANGED <<op, latest, candidateData, lapsed>>
    BY AdvanceIs
<1>2. /\ op.action = "rollback" /\ OwnData(op)
      /\ aside.oldLocal # NoData \/ local[op.new] = candidateData
    BY DataIs
<1>3. RestoreLocal
    BY <1>1 DEF Do, Saving
<1>4. pc' = "rolled_back"
    BY <1>1, <1>2, RollbackProgram DEF Leads
<1>5. PICK o : o = op
    OBVIOUS
<1>6. /\ local'[op.new] = candidateData /\ local'[op.old] = local[op.old]
      /\ aside'.oldLocal = NoData
      /\ UNCHANGED <<at, journal, prior, armed, mem>>
    <2>1. CASE aside.oldLocal # NoData
        <3>1. MoveData(aside.oldLocal, [aside EXCEPT !.oldLocal = NoData])
            BY <1>3, <2>1 DEF RestoreLocal
        <3>2. /\ local'[op.new] = aside.oldLocal /\ local'[op.old] = local[op.old]
              /\ aside' = [aside EXCEPT !.oldLocal = NoData]
              /\ UNCHANGED <<at, journal, prior, armed, mem>>
            BY <1>1, <3>1, DataMoves DEF IInv
        <3> QED  BY <1>2, <2>1, <3>2 DEF IInv, TypeOK, OwnData
    <2>2. CASE aside.oldLocal = NoData
        BY <1>2, <1>3, <2>2 DEF RestoreLocal, Looks, disk
    <2> QED  BY <2>1, <2>2
<1>7. OwnDataBack(o)'
    BY <1>1, <1>5, <1>6 DEF OwnDataBack
<1>8. OwnData(o)'
    BY <1>1, <1>2, <1>5, <1>6 DEF OwnData
<1> QED  BY <1>1, <1>4, <1>5, <1>6, <1>7, <1>8, DataStepKept

LEMMA RestorePriorStep ==
    ASSUME IInv, Advance, pc = "restorePrior"
    PROVE  Kept
<1>1. /\ Do(pc) /\ pc' = Leads(pc) /\ Real(op) /\ op \in Operations /\ op # NoOp /\ mode' = mode
      /\ UNCHANGED <<op, latest, candidateData, lapsed>>
    BY AdvanceIs
<1>2. pc \in Turning /\ journal.phase = "rolled_back" /\ op.action = "rollback"
    BY DEF IInv, ProgramRight, Backwards, Turning, Reopening
<1>3. Whole(op) /\ local[op.old] = latest /\ armed = op /\ SameOperation(journal.op, op)
    BY <1>2, BackwardIs
<1>4. RestorePrior
    BY <1>1 DEF Do, Saving
<1>5. UNCHANGED <<at, local, aside, prior, armed, mem>>
    BY <1>4 DEF RestorePrior
<1>6. pc' = "disarm"
    BY <1>1, <1>2, RollbackProgram DEF Leads
<1>7. JournalRight' /\ PriorRight' /\ (journal' = journal \/ Committed(journal'))
    BY <1>1, <1>2, <1>3, <1>4, GoesBackToPrior DEF IInv
<1>8. ~MidSwap'
    <2>1. CASE journal' = journal
        BY <1>1, <1>3, <1>5, <2>1, WholeStaysWhole
    <2>2. CASE Committed(journal')
        BY <2>2 DEF MidSwap, Committed
    <2> QED  BY <1>7, <2>1, <2>2
<1>9. ArmedRight'
    BY <1>1, <1>5, <1>6, <1>8, ArmedOrNot DEF IInv, Early
<1>10. Ending'
    <2>1. Committed(journal)' \/ journal'.phase = "rolled_back"
        BY <1>2, <1>7 DEF Committed
    <2> QED  BY <1>1, <1>3, <1>5, <1>6, <2>1 DEF Ending, Committing
<1> QED  BY <1>6, <1>7, <1>9, <1>10, LeadsToEnd DEF Kept, Steps

-----------------------------------------------------------------------------
(* Steps of a recovery, until it knows what to do *)

LEMMA ClaimAndRead ==
    ASSUME IInv, Advance, pc \in {"claim", "read"}
    PROVE  Kept
<1>1. /\ Do(pc) /\ Possible(pc) /\ pc' = Leads(pc) /\ op # NoOp
      /\ mode' = mode /\ UNCHANGED <<op, latest, candidateData, lapsed>>
    BY AdvanceIs
<1>2. UNCHANGED <<at, local, aside, journal, prior, armed>>
    BY <1>1 DEF Do, Saving, Looks, ReadJournal, disk
<1>3. JournalRight' /\ PriorRight'
    BY <1>1, <1>2, RecordsStay DEF IInv
<1>4. pc' = IF pc = "claim" THEN "read" ELSE "rearm"
    BY <1>1 DEF Leads
<1>5. Recovering'
    <2>1. mode = "recover"
        BY DEF IInv, ProgramRight, Recovering, Early
    <2>2. pc = "read" => mem' = journal /\ SameOperation(journal.op, op)
        BY <1>1 DEF Do, Saving, ReadJournal, Possible
    <2> QED  BY <1>1, <1>2, <1>4, <2>1, <2>2 DEF Recovering, SameOperation
<1>6. ArmedRight'
    BY <1>1, <1>2, <1>4 DEF IInv, ArmedRight, MidSwap, Committed, Backup, Early
<1>7. pc' \in Early /\ pc' \in Steps
    BY <1>4 DEF Early, Steps
<1> QED  BY <1>3, <1>5, <1>6, <1>7, LeadsToRecover DEF Kept

LEMMA RearmStep ==
    ASSUME IInv, Advance, pc = "rearm"
    PROVE  Kept
<1>1. /\ Do(pc) /\ pc' = Leads(pc) /\ Real(op) /\ op # NoOp
      /\ UNCHANGED <<op, latest, candidateData, lapsed>>
    BY AdvanceIs
<1>2. armed' = op /\ UNCHANGED <<at, local, aside, journal, prior, mem>>
    BY <1>1 DEF Do, Saving, Arms
<1>3. JournalRight' /\ PriorRight'
    BY <1>1, <1>2, RecordsStay DEF IInv
<1>4. SameOperation(journal.op, op) /\ mem = journal
    BY DEF IInv, ProgramRight, Recovering
<1>5. MidSwap' => journal'.op = op
    <2>1. MidSwap' => MidSwap
        BY <1>2 DEF MidSwap, Committed
    <2>2. MidSwap => op = journal.op
        BY DEF IInv, ArmedRight, Early
    <2> QED  BY <1>2, <2>1, <2>2
<1>6. journal.phase # "none"
    <2>1. journal.op.action = op.action /\ op.action # "none"
        BY <1>1, <1>4 DEF SameOperation, Real
    <2> QED  BY <2>1 DEF IInv, JournalRight, NothingYet, NoOp, Operation
<1>7. pc' = Resumed
    BY <1>1 DEF Leads
<1>8. ~Committed(journal) => AtWork'
    BY <1>1, <1>2, <1>4, <1>6 DEF AtWork, SameOperation, Committed
<1>9. Committed(journal)' <=> Committed(journal)
    BY <1>2 DEF Committed
<1>10. CASE Committed(journal) /\ journal.pending
    <2>1. pc' = "commit"
        BY <1>4, <1>7, <1>10 DEF Resumed, Committed
    <2>2. op.action = "rollback"
        BY <1>4, <1>10 DEF IInv, JournalRight, Settled, SameOperation
    <2>3. Ending'
        BY <1>1, <1>2, <1>4, <1>9, <1>10, <2>1, <2>2 DEF Ending, SameOperation
    <2>4. ProgramRight'
        BY <2>1, <2>3, LeadsToEnd DEF Committing
    <2>5. ArmedRight'
        BY <1>1, <1>2, <1>5, <2>1 DEF IInv, ArmedRight, Early
    <2> QED  BY <1>3, <2>1, <2>4, <2>5 DEF Kept, Steps, Committing
<1>11. CASE Committed(journal) /\ ~journal.pending
    <2>1. pc' = "disarm"
        BY <1>4, <1>7, <1>11 DEF Resumed, Committed
    <2>2. Ending'
        BY <1>1, <1>2, <1>9, <1>11, <2>1 DEF Ending, Committing
    <2>3. ProgramRight'
        BY <2>1, <2>2, LeadsToEnd
    <2>4. ArmedRight'
        BY <1>1, <1>2, <1>5, <2>1 DEF IInv, ArmedRight, Early
    <2> QED  BY <1>3, <2>1, <2>3, <2>4 DEF Kept, Steps
<1>12. CASE ~Committed(journal) /\ journal.phase = "rolled_back"
    <2>1. pc' \in {"reopen", "restorePrior", "disarm"}
        <3>1. After("restored") \in {"restorePrior", "disarm"}
            BY <1>1, InstallProgram, RollbackProgram DEF Real
        <3>2. CASE journal.restored
            BY <1>4, <1>7, <1>12, <3>1, <3>2 DEF Resumed
        <3>3. CASE ~journal.restored
            BY <1>4, <1>7, <1>12, <3>3 DEF Resumed
        <3> QED  BY <3>2, <3>3
    <2>2. pc' = "restorePrior" => op.action = "rollback"
        <3>1. CASE journal.restored
            <4>1. pc' = After("restored")
                BY <1>4, <1>7, <1>12, <3>1 DEF Resumed
            <4>2. op.action = "install" => After("restored") = "disarm"
                BY InstallProgram
            <4> QED  BY <1>1, <4>1, <4>2 DEF Real
        <3>2. CASE ~journal.restored
            BY <1>4, <1>7, <1>12, <3>2 DEF Resumed
        <3> QED  BY <3>1, <3>2
    <2>3. ProgramRight'
        <3>1. CASE pc' = "disarm"
            <4>1. Ending'
                BY <1>1, <1>2, <1>12, <3>1 DEF Ending, Committing
            <4> QED  BY <3>1, <4>1, LeadsToEnd
        <3>2. CASE pc' \in {"reopen", "restorePrior"}
            <4>1. Backwards'
                BY <1>1, <1>2, <1>8, <1>12, <2>2, <3>2 DEF Backwards
            <4> QED  BY <3>2, <4>1, LeadsBack DEF Reopening
        <3> QED  BY <2>1, <3>1, <3>2
    <2>4. ArmedRight'
        BY <1>1, <1>2, <1>5, <2>1 DEF IInv, ArmedRight, Early
    <2> QED  BY <1>3, <2>1, <2>3, <2>4 DEF Kept, Steps, Reopening
<1>13. CASE ~Committed(journal) /\ journal.phase # "rolled_back"
    <2>1. pc' = "quiet"
        BY <1>4, <1>7, <1>13 DEF Resumed
    <2>2. Backwards'
        BY <1>1, <1>2, <1>8, <1>13, <2>1 DEF Backwards, Reopening
    <2>3. ProgramRight'
        BY <2>1, <2>2, LeadsBack DEF Undoing
    <2>4. ArmedRight'
        BY <1>1, <1>2, <1>5, <2>1 DEF IInv, ArmedRight, Early
    <2> QED  BY <1>3, <2>1, <2>3, <2>4 DEF Kept, Steps, Undoing
<1> QED  BY <1>10, <1>11, <1>12, <1>13

-----------------------------------------------------------------------------
(* Every step of a helper *)

LEMMA AdvanceKept ==
    ASSUME IInv, Advance
    PROVE  Kept
<1>1. CASE pc \in Preparing \cup {"parent", "arm", "unarm", "abandon"}
    BY <1>1, ParentAndCheck, CopyStep, KeepPriorStep, PreparedStep, ArmStep, UnarmStep, AbandonStep
    DEF Preparing
<1>2. CASE pc \in Swapping \cup Finalizing
    BY <1>2, StashStep, UnstageStep, MoveOldStep, MoveNewStep, QuietForwardStep, SaveForwardStep,
       SucceededStep DEF Swapping, Finalizing
<1>3. CASE pc \in Committing \cup {"disarm"}
    BY <1>3, CommitStep, CommittedStep, DisarmStep DEF Committing
<1>4. CASE pc \in {"failed", "failedAgain", "relabel"} \cup Undoing \cup Reopening
    BY <1>4, SaveBackStep, QuietStep, MoveOutStep, MoveBackStep, DropLocalStep, RestoreLocalStep,
       RestorePriorStep DEF Undoing, Reopening
<1>5. CASE pc \in Early
    BY <1>5, ClaimAndRead, RearmStep DEF Early
<1>6. pc \in Steps
    BY AdvanceIs
<1>7. Saving \subseteq Preparing \cup Swapping \cup Finalizing \cup Committing \cup Undoing \cup Reopening
                       \cup {"failed", "failedAgain", "relabel"}
    BY DEF Saving, Preparing, Swapping, Finalizing, Committing, Undoing, Reopening
<1> QED  BY <1>1, <1>2, <1>3, <1>4, <1>5, <1>6, <1>7 DEF Steps

LEMMA AdvancePreserves ==
    ASSUME IInv, Advance
    PROVE  IInv'
<1>1. /\ pc \in Steps /\ Do(pc) /\ Real(op)
      /\ UNCHANGED <<op, latest, candidateData, lapsed, crashes, failures>>
    BY AdvanceIs
<1>2. Kept
    BY AdvanceKept
<1>3. mode' \in {"run", "recover", "reopen"}
    BY DEF Advance, IInv, TypeOK
<1>4. TypeOK'
    <2>1. /\ armed' \in Operations /\ at' \in [Places -> Trees \cup {NoTree}]
          /\ local' \in [Trees -> Values] /\ aside' \in AsideRecord
          /\ journal' \in Journals /\ mem' \in Journals /\ prior' \in PriorRecord
          /\ bridge' \in {"none", "coming", "up"}
          /\ gui' \in {"none", "validation", "final", "user"}
        BY <1>1, DoTyped DEF IInv
    <2>2. /\ op' \in Operations /\ latest' \in Values /\ candidateData' \in Values
          /\ lapsed' \in BOOLEAN /\ crashes' \in 0..MaxCrash /\ failures' \in 0..MaxFail
        BY <1>1 DEF IInv, TypeOK, Values
    <2> QED  BY <1>2, <1>3, <2>1, <2>2 DEF TypeOK, Kept, Values, AsideRecord, PriorRecord
<1>5. Working'
    BY <1>1 DEF Working, Real
<1> QED  BY <1>2, <1>4, <1>5 DEF IInv, Kept

-----------------------------------------------------------------------------
(* Failures *)

\* What a failed step leaves behind.
LEMMA LeftLeaves ==
    ASSUME IInv, pc \in Steps, Left(pc), UNCHANGED op
    PROVE  /\ UNCHANGED <<at, local, aside, journal, prior>>
           /\ armed' \in Operations /\ mem' \in Journals
           /\ pc # "arm" => armed' = armed
           /\ pc = "arm" => armed' \in {armed, op}
           /\ bridge' \in {"none", "coming", "up"}
           /\ gui' \in {"none", "validation", "final", "user"}
           /\ pc \notin Saving \cup {"unarm"} => mem' = mem
           /\ pc \in Saving => mem' = Saved(pc)
           /\ pc = "unarm" => mem' = IF op.action = "install" THEN Saved("rolled_back") ELSE mem
<1>1. /\ armed \in Operations /\ op \in Operations /\ mem \in Journals
      /\ bridge \in {"none", "coming", "up"} /\ gui \in {"none", "validation", "final", "user"}
    BY DEF IInv, TypeOK
<1>2. CASE pc \in Saving
    <2>1. mem' = Saved(pc) /\ UNCHANGED <<disk, processes>>
        BY <1>2 DEF Left, Saving
    <2>2. Saved(pc) \in Journals
        BY <1>2, SavedIs DEF IInv
    <2> QED  BY <1>1, <1>2, <2>1, <2>2 DEF disk, processes, Saving
<1>3. CASE pc = "unarm"
    <2>1. /\ mem' = IF op.action = "install" THEN Saved("rolled_back") ELSE mem
          /\ UNCHANGED <<disk, processes>>
        BY <1>3 DEF Left, Saving
    <2>2. Saved("rolled_back") \in Journals
        BY SavedIs DEF IInv, Saving
    <2> QED  BY <1>1, <1>3, <2>1, <2>2 DEF disk, processes, Saving
<1>4. CASE pc = "arm"
    <2>1. Arms(op) \/ Looks
        BY <1>4 DEF Left, Saving
    <2> QED  BY <1>1, <1>4, <2>1 DEF Arms, Looks, disk, processes, Saving
<1>5. CASE pc \notin Saving \cup {"unarm", "arm"}
    <2>1. \/ Looks
          \/ \E b \in {"none", "coming", "up"} : Process(b, gui)
          \/ \E b \in {bridge, "none"} : Process(b, gui)
          \/ \E g \in {"none", "validation"} : Process(bridge, g)
        BY <1>5 DEF Left
    <2> QED  BY <1>1, <1>5, <2>1 DEF Looks, Process, disk, processes
<1> QED  BY <1>2, <1>3, <1>4, <1>5

LEMMA FailedEarly ==
    ASSUME IInv, Fail, pc \in Preparing \cup {"arm", "unarm"}
    PROVE  ProgramRight' /\ pc' \in {"unarm", "abandon"}
<1>1. /\ Left(pc) /\ pc' = Handler(pc) /\ UNCHANGED <<op, mode, latest, candidateData>>
      /\ pc \in Steps /\ TypeOK
    BY DEF Fail, IInv
<1>2. /\ UNCHANGED <<at, local, aside, journal, prior>>
      /\ pc \notin Saving \cup {"unarm"} => mem' = mem
      /\ pc \in Saving => mem' = Saved(pc)
      /\ pc = "unarm" => mem' = IF op.action = "install" THEN Saved("rolled_back") ELSE mem
    BY <1>1, LeftLeaves
<1>3. Real(op)
    <2>1. pc # "idle"
        BY DEF Preparing
    <2> QED  BY <2>1 DEF IInv, Working
<1>4. CASE pc \in Preparing
    <2>1. pc' = "abandon"
        BY <1>1, <1>4 DEF Handler, Preparing, Swapping, Finalizing, Undoing, Reopening
    <2>2. /\ mode = "run" /\ mem = Blank(op) /\ Ready(op) /\ local[op.old] = latest
          /\ op.action = "install" => journal.phase = "none"
        BY <1>4 DEF IInv, ProgramRight, Beginning
    <2>3. mem'.op = op /\ mem'.phase # "rolled_back"
        <3>1. mem.op = op /\ mem.phase = "none"
            BY <2>2 DEF Blank
        <3>2. CASE pc = "prepared"
            BY <1>1, <1>2, <3>2, SavedIs DEF Saving
        <3>3. CASE pc # "prepared"
            BY <1>2, <1>4, <3>1, <3>3 DEF Preparing, Saving
        <3> QED  BY <3>2, <3>3
    <2>4. Ready(op)'
        BY <1>1, <1>2, <2>2 DEF Ready, Lies, Candidate
    <2>5. GivingUp'
        BY <1>1, <1>2, <2>2, <2>3, <2>4 DEF GivingUp
    <2> QED  BY <2>1, <2>5, LeadsToGiveUp
<1>5. CASE pc \in {"arm", "unarm"}
    <2>1. /\ mode = "run" /\ AtWork /\ journal.op = op /\ Ready(op)
          /\ mem.phase = "prepared" /\ journal.phase = "prepared"
          /\ IF op.action = "install" THEN local[op.new] = latest
             ELSE local[op.new] = candidateData /\ aside.oldLocal = NoData /\ aside.staged = latest
        BY <1>5 DEF IInv, ProgramRight, Registering
    <2>2. Ready(op)'
        BY <1>1, <1>2, <2>1 DEF Ready, Lies, Candidate
    <2>3. CASE pc = "arm"
        <3>1. pc' = "unarm" /\ mem' = mem
            BY <1>1, <1>2, <2>3 DEF Handler, Preparing, Swapping, Finalizing, Undoing, Reopening,
               Saving
        <3>2. AtWork'
            BY <1>1, <1>2, <2>1, <3>1, AtWorkStays
        <3>3. Registering'
            BY <1>1, <1>2, <2>1, <2>2, <3>1, <3>2 DEF Registering
        <3> QED  BY <3>1, <3>3, LeadsToRegister
    <2>4. CASE pc = "unarm"
        <3>1. pc' = "abandon"
            BY <1>1, <2>4 DEF Handler, Preparing, Swapping, Finalizing, Undoing, Reopening
        <3>2. mem.op = op /\ local[op.old] = latest /\ ~Committed(journal)
            BY <2>1 DEF AtWork, IInv, JournalRight, InProgress
        <3>3. mem'.op = op /\ (mem'.phase = "rolled_back" => op.action = "install")
            <4>1. Saved("rolled_back").op = mem.op
                BY <1>1, SavedIs DEF Saving
            <4> QED  BY <1>2, <1>3, <2>1, <2>4, <3>2, <4>1 DEF Real
        <3>4. GivingUp'
            BY <1>1, <1>2, <2>1, <2>2, <3>2, <3>3 DEF GivingUp, Committed
        <3> QED  BY <3>1, <3>4, LeadsToGiveUp
    <2> QED  BY <1>5, <2>3, <2>4
<1> QED  BY <1>4, <1>5, <1>1 DEF Handler, Preparing

\* The journal object changes, but stays the one of the operation at work.
LEMMA WorkGoesOn ==
    ASSUME TypeOK, AtWork, UNCHANGED <<op, journal>>,
           mem' = mem \/ (pc \in Saving \ {"prepared"} /\ mem' = Saved(pc))
    PROVE  AtWork'
<1>1. mem'.op = mem.op /\ mem'.hadLocal = mem.hadLocal
    BY SavedIs
<1> QED  BY <1>1, AtWorkStays

LEMMA FailedForward ==
    ASSUME IInv, pc \in Swapping \cup Finalizing, pc' = "failed",
           UNCHANGED <<op, journal, armed, mode>>,
           mem' = mem \/ (pc \in Saving \ {"prepared"} /\ mem' = Saved(pc))
    PROVE  ProgramRight'
<1>1. mode = "run" /\ AtWork /\ armed = op
    BY ForwardIs
<1>2. AtWork'
    BY <1>1, WorkGoesOn DEF IInv
<1>3. Backwards'
    BY <1>1, <1>2 DEF Backwards, Undoing, Reopening
<1> QED  BY <1>3, LeadsBack

LEMMA FailedBackward ==
    ASSUME IInv, pc \in Undoing \cup Reopening \cup {"relabel"}, pc' \in {"failedAgain", "relabel"},
           pc' = "failedAgain" => mode = "run", pc' = "relabel" => pc \in Reopening,
           UNCHANGED <<op, journal, armed, mode>>,
           mem' = mem \/ (pc \in Saving \ {"prepared"} /\ mem' = Saved(pc))
    PROVE  ProgramRight'
<1>1. pc \in Turning
    BY DEF Turning
<1>2. AtWork /\ armed = op
    BY <1>1, BackwardIs
<1>3. AtWork'
    BY <1>2, WorkGoesOn DEF IInv
<1>4. pc \in Reopening => journal.phase = "rolled_back"
    BY DEF IInv, ProgramRight, Backwards
<1>5. Backwards'
    BY <1>2, <1>3, <1>4 DEF Backwards, Undoing, Reopening
<1> QED  BY <1>5, LeadsBack

LEMMA FailedProgram ==
    ASSUME IInv, Fail
    PROVE  ProgramRight' /\ pc' \in {"idle", "unarm", "abandon", "failed", "failedAgain", "relabel"}
<1>1. /\ Left(pc) /\ pc' = Handler(pc) /\ UNCHANGED <<op, mode>> /\ pc \in Steps
    BY DEF Fail
<1>2. /\ UNCHANGED journal
      /\ pc # "arm" => armed' = armed
      /\ pc \notin Saving \cup {"unarm"} => mem' = mem
      /\ pc \in Saving => mem' = Saved(pc)
    BY <1>1, LeftLeaves
<1>3. CASE pc \in Preparing \cup {"arm", "unarm"}
    BY <1>3, FailedEarly
<1>4. CASE pc \in Swapping \cup Finalizing
    <2>1. pc \notin Preparing \cup {"arm", "unarm"}
        BY <1>4 DEF Preparing, Swapping, Finalizing
    <2>2. mode = "run"
        BY <1>4, ForwardIs
    <2>3. pc' = "failed"
        BY <1>1, <1>4, <2>1, <2>2 DEF Handler, Undoing, Reopening, Swapping, Finalizing
    <2> QED  BY <1>1, <1>2, <1>4, <2>1, <2>3, FailedForward DEF Preparing
<1>5. CASE pc \in Undoing \cup Reopening \cup {"relabel"}
    <2>1. pc \notin Preparing \cup Swapping \cup Finalizing \cup {"arm", "unarm"}
        BY <1>5 DEF Preparing, Swapping, Finalizing, Undoing, Reopening
    <2>2. CASE pc \in Reopening /\ mode # "reopen"
        <3>1. pc' = "relabel"
            BY <1>1, <2>1, <2>2 DEF Handler, Undoing, Reopening
        <3> QED  BY <1>1, <1>2, <1>5, <2>1, <2>2, <3>1, FailedBackward DEF Preparing
    <2>3. CASE pc \in Undoing \cup {"relabel"} /\ mode = "run"
        <3>1. pc' = "failedAgain"
            BY <1>1, <2>1, <2>3 DEF Handler, Undoing, Reopening
        <3> QED  BY <1>1, <1>2, <1>5, <2>1, <2>3, <3>1, FailedBackward DEF Preparing
    <2>4. CASE ~(pc \in Reopening /\ mode # "reopen") /\ ~(pc \in Undoing \cup {"relabel"} /\ mode = "run")
        <3>1. pc' = "idle"
            BY <1>1, <2>1, <2>4 DEF Handler
        <3> QED  BY <3>1, LeadsNowhere
    <2> QED  BY <2>2, <2>3, <2>4
<1>6. CASE pc \notin Preparing \cup {"arm", "unarm", "relabel"} \cup Swapping \cup Finalizing \cup Undoing
                     \cup Reopening
    <2>1. pc' = "idle"
        BY <1>1, <1>6 DEF Handler
    <2> QED  BY <2>1, LeadsNowhere
<1> QED  BY <1>3, <1>4, <1>5, <1>6

\* A registration is right after a step that touched neither directories nor journal.
LEMMA ArmedAfterFailure ==
    ASSUME ArmedRight, UNCHANGED <<op, at, journal>>, pc # "idle", pc' \notin Early,
           armed' \in {armed, op}, armed' # armed => Real(op) /\ ~MidSwap /\ pc \notin Early,
           lapsed' = (lapsed \/ pc \in Early), pc \in Early => pc' = "idle"
    PROVE  ArmedRight'
<1>1. MidSwap' <=> MidSwap
    BY DEF MidSwap, Committed, Backup
<1>2. ~lapsed
    BY DEF ArmedRight
<1>3. CASE pc \in Early
    BY <1>1, <1>3 DEF ArmedRight
<1>4. CASE pc \notin Early
    BY <1>1, <1>2, <1>4 DEF ArmedRight
<1> QED  BY <1>3, <1>4

LEMMA FailPreserves ==
    ASSUME IInv, Fail
    PROVE  IInv'
<1>1. /\ Left(pc) /\ pc' = Handler(pc) /\ UNCHANGED <<op, mode, latest, candidateData, crashes>>
      /\ pc \in Steps /\ lapsed' = (lapsed \/ pc \in Early)
    BY DEF Fail
<1>2. /\ UNCHANGED <<at, local, aside, journal, prior>>
      /\ armed' \in Operations /\ mem' \in Journals
      /\ pc # "arm" => armed' = armed
      /\ pc = "arm" => armed' \in {armed, op}
      /\ bridge' \in {"none", "coming", "up"}
      /\ gui' \in {"none", "validation", "final", "user"}
    BY <1>1, LeftLeaves
<1>3. pc # "idle" /\ Real(op) /\ op # NoOp
    <2>1. pc # "idle"
        BY <1>1 DEF Steps, Preparing, Swapping, Finalizing, Committing, Undoing, Reopening, Early, Saving
    <2>2. Real(op)
        BY <2>1 DEF IInv, Working
    <2> QED  BY <2>1, <2>2 DEF Real, NoOp, Operation
<1>4. ProgramRight' /\ pc' \in {"idle", "unarm", "abandon", "failed", "failedAgain", "relabel"}
    BY FailedProgram
<1>5. JournalRight' /\ PriorRight'
    BY <1>1, <1>2, RecordsStay DEF IInv
<1>6. ArmedRight'
    <2>1. pc = "arm" => ~MidSwap /\ pc \notin Early
        <3>1. pc = "arm" => journal.op = op /\ Whole(op)
            BY DEF IInv, ProgramRight, Registering, Whole
        <3> QED  BY <1>3, <3>1, WholeIsNotMid DEF IInv, Early
    <2>2. pc \in Early => pc' = "idle"
        BY <1>1 DEF Handler, Preparing, Swapping, Finalizing, Undoing, Reopening, Early
    <2>3. pc' \notin Early
        BY <1>4 DEF Early
    <2> QED  BY <1>1, <1>2, <1>3, <2>1, <2>2, <2>3, ArmedAfterFailure DEF IInv
<1>7. TypeOK'
    <2>1. failures' \in 0..MaxFail
        BY UpdateAssumption DEF Fail, Outside, IInv, TypeOK
    <2>2. lapsed' \in BOOLEAN /\ pc' \in Steps \cup {"idle"}
        BY <1>1, <1>4 DEF IInv, TypeOK, Steps, Saving
    <2> QED  BY <1>1, <1>2, <2>1, <2>2 DEF IInv, TypeOK
<1>8. Working'
    BY <1>1, <1>3 DEF Working
<1> QED  BY <1>4, <1>5, <1>6, <1>7, <1>8 DEF IInv

LEMMA FinalFailsPreserves ==
    ASSUME IInv, FinalFails
    PROVE  IInv'
<1>1. /\ pc \in {"awaitFinal", "succeeded"} /\ pc' \in {"failed", "idle"}
      /\ mem' = IF pc = "succeeded" THEN Saved(pc) ELSE mem
      /\ UNCHANGED <<op, disk, mode, bridge, latest, candidateData, lapsed, crashes>>
      /\ gui' \in {"none", gui} /\ Outside(pc)
    BY DEF FinalFails
<1>2. UNCHANGED <<at, local, aside, journal, prior, armed>>
    BY <1>1 DEF disk
<1>3. Real(op) /\ op # NoOp
    <2>1. Real(op)
        BY <1>1 DEF IInv, Working
    <2> QED  BY <2>1 DEF Real, NoOp, Operation
<1>4. pc \in Finalizing /\ pc \notin Early /\ pc # "idle"
    BY <1>1 DEF Finalizing, Early
<1>5. ProgramRight'
    <2>1. CASE pc' = "failed"
        BY <1>1, <1>2, <1>4, <2>1, FailedForward DEF Saving
    <2> QED  BY <1>1, <2>1, LeadsNowhere
<1>6. JournalRight' /\ PriorRight'
    BY <1>1, <1>2, RecordsStay DEF IInv
<1>7. ArmedRight'
    <2>1. lapsed \in BOOLEAN /\ pc' \notin Early
        BY <1>1 DEF IInv, TypeOK, Early
    <2> QED  BY <1>1, <1>2, <1>4, <2>1, ArmedAfterFailure DEF IInv
<1>8. TypeOK'
    <2>1. failures' \in 0..MaxFail
        BY <1>1, UpdateAssumption DEF Outside, IInv, TypeOK
    <2>2. mem' \in Journals
        BY <1>1, SavedIs DEF IInv, TypeOK, Saving
    <2>3. pc' \in Steps \cup {"idle"}
        BY <1>1 DEF Steps, Saving
    <2> QED  BY <1>1, <1>2, <2>1, <2>2, <2>3 DEF IInv, TypeOK
<1>9. Working'
    BY <1>1, <1>3 DEF Working
<1> QED  BY <1>5, <1>6, <1>7, <1>8, <1>9 DEF IInv

LEMMA CrashPreserves ==
    ASSUME IInv, Crash
    PROVE  IInv'
<1>1. /\ pc # "idle" /\ pc' = "idle" /\ crashes < MaxCrash /\ crashes' = crashes + 1
      /\ lapsed' = (lapsed \/ pc \in Early)
      /\ UNCHANGED <<op, disk, mem, mode, latest, candidateData, failures>>
      /\ bridge' \in {bridge, "none"} /\ gui' \in {gui, "none"}
    BY DEF Crash, AllStop, processes
<1>2. UNCHANGED <<at, local, aside, journal, prior, armed>>
    BY <1>1 DEF disk
<1>3. ProgramRight'
    BY <1>1, LeadsNowhere
<1>4. JournalRight' /\ PriorRight'
    BY <1>1, <1>2, RecordsStay DEF IInv
<1>5. ArmedRight'
    BY <1>1, <1>2, ArmedAfterFailure DEF IInv, Early
<1>6. TypeOK'
    <2>1. crashes' \in 0..MaxCrash /\ lapsed' \in BOOLEAN
        BY <1>1, UpdateAssumption DEF IInv, TypeOK
    <2> QED  BY <1>1, <1>2, <2>1 DEF IInv, TypeOK
<1>7. Working'
    BY <1>1 DEF Working
<1> QED  BY <1>3, <1>4, <1>5, <1>6, <1>7 DEF IInv

\* The invariant says nothing about which processes run.
LEMMA ProcessesPreserve ==
    ASSUME IInv, UNCHANGED <<op, disk, mem, pc, mode, latest, candidateData, lapsed, crashes, failures>>,
           bridge' \in {"none", "coming", "up"}, gui' \in {"none", "validation", "final", "user"}
    PROVE  IInv'
<1>1. UNCHANGED <<at, local, aside, journal, prior, armed>>
    BY DEF disk
<1>2. JournalRight' /\ PriorRight'
    BY <1>1, RecordsStay DEF IInv
<1>3. ArmedRight'
    BY <1>1 DEF IInv, ArmedRight, MidSwap, Committed, Backup
<1>4. TypeOK'
    BY <1>1 DEF IInv, TypeOK
<1>5. Working'
    BY DEF IInv, Working, Real
<1>6. /\ Ready(op)' <=> Ready(op)
      /\ Empty(op)' <=> Empty(op)
      /\ Swapped(op)' <=> Swapped(op)
      /\ Whole(op)' <=> Whole(op)
      /\ Done(op)' <=> Done(op)
    BY <1>1 DEF Ready, Empty, Swapped, Whole, PutBack, Done, Lies, Candidate, Backup, AwayFrom
<1>7. /\ AtWork' <=> AtWork
      /\ OwnDataBack(op)' <=> OwnDataBack(op)
      /\ Committed(journal)' <=> Committed(journal)
    BY <1>1 DEF AtWork, OwnDataBack, Committed, SameOperation
<1>8. Beginning'
    BY <1>1, <1>6, <1>7 DEF IInv, ProgramRight, Beginning, Blank
<1>9. Registering' /\ GivingUp'
    BY <1>1, <1>6, <1>7 DEF IInv, ProgramRight, Registering, GivingUp
<1>10. Forwards'
    BY <1>1, <1>6, <1>7 DEF IInv, ProgramRight, Forwards
<1>11. Backwards'
    BY <1>1, <1>6, <1>7 DEF IInv, ProgramRight, Backwards
<1>12. Ending' /\ Recovering'
    BY <1>1, <1>6, <1>7 DEF IInv, ProgramRight, Ending, Recovering, SameOperation
<1> QED  BY <1>2, <1>3, <1>4, <1>5, <1>8, <1>9, <1>10, <1>11, <1>12 DEF IInv, ProgramRight

-----------------------------------------------------------------------------
(* What starts a helper, and the user *)

LEMMA LogonPreserves ==
    ASSUME IInv, Logon
    PROVE  IInv'
<1>1. /\ pc = "idle" /\ armed # NoOp /\ op' = armed /\ mem' = Blank(armed) /\ armed' = NoOp
      /\ pc' = "claim" /\ mode' = "recover" /\ lapsed' = FALSE
      /\ bridge' = "none" /\ gui' = "none"
      /\ UNCHANGED <<at, local, aside, journal, prior, latest, candidateData, crashes, failures>>
    BY DEF Logon, Fresh, AllStop
<1>2. armed \in Operations /\ Real(armed)
    BY <1>1 DEF IInv, TypeOK, ArmedRight
<1>3. JournalRight' /\ PriorRight'
    BY <1>1, RecordsStay DEF IInv
<1>4. ArmedRight'
    <2>1. MidSwap' => MidSwap
        BY <1>1 DEF MidSwap, Committed
    <2>2. MidSwap => armed = journal.op
        BY <1>1 DEF IInv, ArmedRight, Early
    <2> QED  BY <1>1, <2>1, <2>2 DEF ArmedRight, Early
<1>5. ProgramRight'
    <2>1. Recovering'
        BY <1>1 DEF Recovering
    <2> QED  BY <1>1, <2>1, LeadsToRecover DEF Early
<1>6. TypeOK'
    <2>1. NoOp \in Operations
        BY UpdateAssumption DEF NoOp, Operation, Operations, Trees
    <2>2. mem' \in Journals
        BY <1>1, <1>2, BlankTyped
    <2>3. pc' \in Steps
        BY <1>1 DEF Steps, Early
    <2> QED  BY <1>1, <1>2, <2>1, <2>2, <2>3 DEF IInv, TypeOK
<1>7. Working'
    BY <1>1, <1>2 DEF Working
<1> QED  BY <1>3, <1>4, <1>5, <1>6, <1>7 DEF IInv

\* An operation begins with nothing to recover.
LEMMA BeginPreserves ==
    ASSUME IInv, NEW o \in Operations, Begin(o), Real(o), Ready(o), local[o.old] = latest,
           o.action = "install" => journal.phase = "none" /\ local[o.new] = NoData,
           o.action = "rollback" =>
             Committed(journal) /\ journal.op.new = o.old /\ journal.op.old = o.new
    PROVE  IInv'
<1>1. /\ pc = "idle" /\ op' = o /\ mem' = Blank(o) /\ armed' = armed
      /\ pc' = "parent" /\ mode' = "run" /\ lapsed' = FALSE
      /\ aside' = NoAside /\ candidateData' = local[o.new]
      /\ bridge' = "none" /\ gui' = "none"
      /\ UNCHANGED <<at, local, journal, prior, latest, crashes, failures>>
    BY DEF Begin, Fresh, AllStop
<1>2. o # NoOp /\ (journal.phase = "none" \/ Committed(journal))
    BY DEF Real, NoOp, Operation
<1>3. JournalRight'
    <2>1. CASE journal.phase = "none"
        <3>1. NothingYet
            BY <2>1 DEF IInv, JournalRight
        <3>2. NothingYet'
            BY <1>1, <1>2, <3>1 DEF NothingYet, Lies
        <3> QED  BY <1>1, <2>1, <3>2 DEF JournalRight, Committed
    <2>2. CASE Committed(journal)
        <3>1. PICK j : j = journal
            OBVIOUS
        <3>2. Settled(j)
            BY <2>2, <3>1 DEF IInv, JournalRight
        <3>3. Settled(j)'
            BY <1>1, <3>1, <3>2 DEF Settled, Done, Swapped, Lies
        <3> QED  BY <1>1, <2>2, <3>1, <3>3, SettledKept
    <2> QED  BY <1>2, <2>1, <2>2
<1>4. PriorRight'
    BY <1>1 DEF IInv, PriorRight
<1>5. ~MidSwap'
    BY <1>1, <1>2 DEF MidSwap, Committed
<1>6. ArmedRight'
    BY <1>1, <1>5 DEF IInv, ArmedRight, Early
<1>7. Ready(o)' /\ NoAside.oldLocal = NoData
    BY <1>1 DEF Ready, Lies, NoAside
<1>8. Beginning'
    BY <1>1, <1>7 DEF Beginning, Blank, Committed
<1>9. ProgramRight'
    BY <1>1, <1>8, LeadsToBegin
<1>10. TypeOK'
    <2>1. mem' \in Journals
        BY <1>1, BlankTyped
    <2>2. aside' \in AsideRecord
        BY <1>1 DEF NoAside, AsideRecord, Values
    <2>3. candidateData' \in Values
        BY <1>1 DEF IInv, TypeOK, Values, Operations
    <2>4. pc' \in Steps
        BY <1>1 DEF Steps
    <2> QED  BY <1>1, <2>1, <2>2, <2>3, <2>4 DEF IInv, TypeOK, Values, AsideRecord
<1>11. Working'
    BY <1>1 DEF Working
<1> QED  BY <1>3, <1>4, <1>6, <1>9, <1>10, <1>11 DEF IInv

LEMMA InstallPreserves ==
    ASSUME IInv, Install
    PROVE  IInv'
<1>1. PICK o : o = Operation(1, "install", Previous, Update)
    OBVIOUS
<1>2. journal.phase = "none" /\ op = NoOp /\ Begin(o)
    BY <1>1 DEF Install
<1>3. /\ o \in Operations /\ o.action = "install" /\ o.old = Previous /\ o.new = Update
    BY <1>1, UpdateAssumption DEF Operation, Operations, Trees
<1>4. Real(o)
    BY <1>3, UpdateAssumption DEF Real
<1>5. NothingYet
    BY <1>2 DEF IInv, JournalRight
<1>6. Ready(o)
    BY <1>3, <1>5 DEF NothingYet, Ready, Lies, Candidate, NoOp, Operation
<1>7. local[o.old] = latest /\ local[o.new] = NoData
    BY <1>2, <1>3, <1>5 DEF NothingYet
<1> QED  BY <1>2, <1>3, <1>4, <1>6, <1>7, BeginPreserves

LEMMA RollbackPreserves ==
    ASSUME IInv, Rollback
    PROVE  IInv'
<1>1. PICK o, j : o = Operation(op.n + 1, "rollback", at["install"], journal.op.old) /\ j = journal.op
    OBVIOUS
<1>2. /\ Begin(o) /\ op.n < MaxOps
      /\ journal.phase = "succeeded" /\ j.new = at["install"] /\ at["backup"] # NoTree
    BY <1>1 DEF Rollback, Offered
<1>3. Committed(journal)
    BY <1>2 DEF IInv, JournalRight, Committed
<1>4. /\ Real(j) /\ (Done(j) \/ (journal.pending /\ Swapped(j)))
      /\ journal.pending => j.action = "rollback"
      /\ local[j.new] = latest
    BY <1>1, <1>3 DEF IInv, JournalRight, Settled
<1>5. j \in Operations
    BY <1>1 DEF IInv, TypeOK, Journals
<1>6. Done(j)
    <2>1. ASSUME journal.pending, Swapped(j)  PROVE FALSE
        <3>1. Lies(j, "current", "install")
            BY <1>4, <2>1, ItsPlaces DEF Swapped
        <3>2. "current" \in Places /\ "install" \in Places /\ "backup" \in Places \ {"current", "install"}
            BY DEF Places
        <3>3. at["backup"] = NoTree
            BY <1>4, <1>5, <3>1, <3>2, Where
        <3> QED  BY <1>2, <3>3
    <2> QED  BY <1>4, <2>1
<1>7. o.action = "rollback" /\ o.old = j.new /\ o.new = j.old /\ o.n = op.n + 1
    BY <1>1, <1>2 DEF Operation
<1>8. o \in Operations
    <2>1. op.n + 1 \in 0..MaxOps
        BY <1>2, UpdateAssumption DEF IInv, TypeOK, Operations
    <2>2. j.new \in Trees /\ j.old \in Trees
        BY <1>5 DEF Operations
    <2> QED  BY <1>1, <1>2, <2>1, <2>2 DEF Operation, Operations
<1>9. Real(o)
    BY <1>4, <1>7 DEF Real
<1>10. Ready(o)
    <2>1. at = [p \in Places |-> IF p = "install" THEN o.old ELSE IF p = "backup" THEN o.new ELSE NoTree]
        BY <1>6, <1>7 DEF Done, Lies
    <2> QED  BY <1>7, <2>1 DEF Ready, Lies, Candidate
<1> QED  BY <1>1, <1>2, <1>3, <1>4, <1>7, <1>8, <1>9, <1>10, BeginPreserves

LEMMA WorkPreserves ==
    ASSUME IInv, Work
    PROVE  IInv'
<1>1. /\ pc = "idle" /\ latest # MaxWork
      /\ Committed(journal) \/ at["install"] = journal.op.old
      /\ latest' = IF latest = NoData THEN 0 ELSE latest + 1
      /\ local' = [local EXCEPT ![at["install"]] = latest']
      /\ UNCHANGED <<op, at, aside, journal, prior, armed, mem, pc, mode, processes,
                     candidateData, lapsed, crashes, failures>>
    BY DEF Work
<1>2. PICK j, t : j = journal /\ t = at["install"]
    OBVIOUS
<1>3. j \in Journals /\ j.op \in Operations /\ journal' = j /\ at' = at /\ aside' = aside
    BY <1>1, <1>2 DEF IInv, TypeOK, Journals
<1>4. Committed(j) => t = j.op.new
    <2>1. ASSUME Committed(j)  PROVE t = j.op.new
        <3>1. Real(j.op) /\ (Done(j.op) \/ Swapped(j.op))
            BY <1>2, <2>1 DEF IInv, JournalRight, Settled
        <3>2. CASE Done(j.op)
            BY <1>2, <1>3, <3>1, <3>2, Where DEF Done, Places
        <3>3. CASE Swapped(j.op)
            BY <1>2, <1>3, <3>1, <3>3, HowFar DEF Underway
        <3> QED  BY <3>1, <3>2, <3>3
    <2> QED  BY <2>1
<1>5. t \in Trees /\ (~Committed(j) => t = j.op.old)
    BY <1>1, <1>2, <1>3, <1>4 DEF Operations
<1>6. local'[t] = latest' /\ \A s \in Trees \ {t} : local'[s] = local[s]
    BY <1>1, <1>2, <1>5 DEF IInv, TypeOK
<1>7. PriorRight' /\ Working'
    BY <1>1 DEF IInv, PriorRight, Working
<1>8. ArmedRight'
    BY <1>1 DEF IInv, ArmedRight, MidSwap, Committed, Backup, Early
<1>9. ProgramRight'
    BY <1>1, LeadsNowhere
<1>10. JournalRight'
    <2>1. CASE j.phase = "none"
        <3>1. NothingYet
            BY <1>2, <2>1 DEF IInv, JournalRight
        <3>2. t = Previous
            BY <1>2, <3>1 DEF NothingYet, Lies, NoOp, Operation, Places
        <3>3. local'[Previous] = latest' /\ local'[Update] = local[Update]
            BY <1>6, <3>2, UpdateAssumption DEF Trees
        <3>4. NothingYet'
            BY <1>1, <3>1, <3>3 DEF NothingYet, Lies
        <3> QED  BY <1>3, <2>1, <3>4 DEF JournalRight, Committed
    <2>2. CASE Committed(j)
        <3>1. Settled(j)
            BY <1>2, <2>2 DEF IInv, JournalRight
        <3>2. Settled(j)'
            BY <1>3, <1>4, <1>6, <2>2, <3>1 DEF Settled, Done, Swapped, Lies
        <3> QED  BY <1>3, <2>2, <3>2, SettledKept
    <2>3. CASE j.phase # "none" /\ ~Committed(j)
        <3>1. PICK o : o = j.op
            OBVIOUS
        <3>2. InProgress(o) /\ j.phase # "succeeded"
            BY <1>2, <2>3, <3>1 DEF IInv, JournalRight, Committed
        <3>3. /\ local'[o.old] = latest' /\ local'[o.new] = local[o.new]
            BY <1>3, <1>5, <1>6, <2>3, <3>1, <3>2 DEF InProgress, Real, Operations
        <3>4. /\ Whole(o)' <=> Whole(o)
              /\ Underway(o)' <=> Underway(o)
            BY <1>3 DEF Whole, Underway, Ready, PutBack, Empty, Swapped, TakenOut, Lies
        <3>5. /\ OwnData(o)' <=> OwnData(o)
              /\ OwnDataBack(o)' <=> OwnDataBack(o)
            BY <1>1, <3>3 DEF OwnData, OwnDataBack
        <3>6. InProgress(o)'
            BY <1>1, <3>2, <3>3, <3>4, <3>5 DEF InProgress
        <3> QED  BY <1>3, <2>3, <3>1, <3>2, <3>6, JournalOf
    <2> QED  BY <2>1, <2>2, <2>3
<1>11. TypeOK'
    <2>1. latest' \in Data
        <3>1. CASE latest = NoData
            BY <1>1, <3>1, UpdateAssumption DEF Data
        <3>2. CASE latest # NoData
            BY <1>1, <3>2, UpdateAssumption DEF Data, IInv, TypeOK
        <3> QED  BY <3>1, <3>2
    <2>2. local' \in [Trees -> Data \cup {NoData}]
        BY <1>1, <2>1 DEF IInv, TypeOK
    <2> QED  BY <1>1, <2>1, <2>2 DEF IInv, TypeOK, processes
<1> QED  BY <1>7, <1>8, <1>9, <1>10, <1>11 DEF IInv

-----------------------------------------------------------------------------
(* The theorems *)

LEMMA InitIsRight ==
    ASSUME Init
    PROVE  IInv
<1>1. /\ op = NoOp /\ armed = NoOp /\ pc = "idle" /\ mode = "run" /\ lapsed = FALSE
      /\ journal = Blank(NoOp) /\ mem = Blank(NoOp)
      /\ prior = [op |-> NoOp, journal |-> Blank(NoOp)]
      /\ latest \in {NoData, 0}
      /\ local = [t \in Trees |-> IF t = Previous THEN latest ELSE NoData]
      /\ at = [p \in Places |-> IF p = "install" THEN Previous
                                ELSE IF p = "unpacked" THEN Update ELSE NoTree]
    BY DEF Init
<1>2. NoOp \in Operations /\ NoOp.action = "none" /\ NoOp.old = Previous /\ NoOp.new = Update
    BY UpdateAssumption DEF NoOp, Operation, Operations, Trees
<1>3. Blank(NoOp) \in Journals /\ Blank(NoOp).op = NoOp /\ Blank(NoOp).phase = "none"
    BY <1>2, BlankTyped
<1>4. TypeOK
    <2>1. prior \in [op : Operations, journal : Journals]
        BY <1>1, <1>2, <1>3
    <2>2. 0 \in Data /\ 0 \in 0..MaxCrash /\ 0 \in 0..MaxFail
        BY UpdateAssumption DEF Data
    <2>3. aside \in [{"staged", "oldLocal", "failedLocal"} -> Data \cup {NoData}]
        BY DEF Init, NoAside
    <2>4. at \in [Places -> Trees \cup {NoTree}] /\ local \in [Trees -> Data \cup {NoData}]
        BY <1>1, <2>2 DEF Trees
    <2> QED  BY <1>1, <1>2, <1>3, <2>1, <2>2, <2>3, <2>4 DEF Init, TypeOK
<1>5. JournalRight
    <2>1. local[Previous] = latest /\ local[Update] = NoData
        BY <1>1, UpdateAssumption DEF Trees
    <2>2. NothingYet
        BY <1>1, <1>2, <1>3, <2>1 DEF NothingYet, Lies
    <2> QED  BY <1>1, <1>3, <2>2 DEF JournalRight, Committed
<1>6. PriorRight /\ ArmedRight /\ Working
    BY <1>1, <1>2, <1>3 DEF PriorRight, ArmedRight, Working, MidSwap, Early
<1>7. ProgramRight
    BY <1>1 DEF ProgramRight, Beginning, Registering, GivingUp, Forwards, Backwards, Ending, Recovering,
       Preparing, Swapping, Finalizing, Committing, Undoing, Reopening, Early
<1> QED  BY <1>4, <1>5, <1>6, <1>7 DEF IInv

\* The inductive invariant holds, whatever fails and whenever the helper is killed:
\* the journal, the directories, the data and the registration always tell one story.
THEOREM Inductive == Spec => []IInv
<1>1. Init => IInv
    BY InitIsRight
<1>2. IInv /\ [Next]_vars => IInv'
    <2>1. ASSUME IInv, Next  PROVE IInv'
        <3>1. CASE BridgeComesUp
            <4>1. bridge' = "up" /\ gui' = gui
                  /\ UNCHANGED <<op, disk, mem, pc, mode, latest, candidateData, lapsed, crashes, failures>>
                BY <3>1 DEF BridgeComesUp
            <4> QED  BY <2>1, <4>1, ProcessesPreserve DEF IInv, TypeOK
        <3> QED  BY <2>1, <3>1, AdvancePreserves, FailPreserves, FinalFailsPreserves, CrashPreserves,
               InstallPreserves, RollbackPreserves, LogonPreserves, WorkPreserves DEF Next
    <2>2. ASSUME IInv, UNCHANGED vars  PROVE IInv'
        BY <2>2, ProcessesPreserve DEF IInv, TypeOK, vars, processes
    <2> QED  BY <2>1, <2>2
<1> QED  BY <1>1, <1>2, PTL DEF Spec

LEMMA InvRecoverable ==
    ASSUME IInv
    PROVE  Recoverable
<1>1. PICK j, o : j = journal /\ o = journal.op
    OBVIOUS
<1>2. TypeOK /\ o \in Operations
    BY <1>1 DEF IInv, TypeOK, Journals
<1>3. Restorable
    <2>1. ASSUME j.phase # "none", ~Committed(j)
          PROVE  /\ o.old \in {at["install"], at[Backup(o)]}
                 /\ at["install"] = o.new =>
                        at[Candidate(o)] = NoTree /\ (o.action = "install" => at["failed"] = NoTree)
        <3>1. Real(o) /\ Underway(o)
            BY <1>1, <2>1 DEF IInv, JournalRight, InProgress
        <3>2. o.old \in {at["install"], at[Backup(o)]}
            BY <1>2, <3>1, HowFar DEF Underway
        <3>3. at["install"] = o.new => Swapped(o)
            <4>1. o.old # o.new /\ o.new # NoTree
                BY <1>2, <3>1, UpdateAssumption DEF Real, Operations, Trees
            <4> QED  BY <1>2, <3>1, <4>1, HowFar DEF Underway
        <3>4. Swapped(o) => at[Candidate(o)] = NoTree /\ (o.action = "install" => at["failed"] = NoTree)
            <4>1. /\ Candidate(o) \in Places \ {Backup(o), "install"} /\ Backup(o) \in Places \ {"install"}
                  /\ "install" \in Places /\ "failed" \in Places
                  /\ o.action = "install" => "failed" \in Places \ {Backup(o), "install"}
                BY <3>1, ItsPlaces DEF Places
            <4> QED  BY <1>2, <3>1, <4>1, Where DEF Swapped
        <3> QED  BY <3>2, <3>3, <3>4
    <2> QED  BY <1>1, <2>1 DEF Restorable
<1>4. WayBack
    <2>1. ASSUME Committed(j)
          PROVE  o.old \in {at["backup"]} \cup (IF j.pending THEN {at["current"]} ELSE {})
        <3>1. /\ Real(o) /\ (Done(o) \/ (j.pending /\ Swapped(o)))
              /\ j.pending => o.action = "rollback"
            BY <1>1, <2>1 DEF IInv, JournalRight, Settled
        <3>2. Done(o) => at["backup"] = o.old
            BY <1>2, <3>1, Where DEF Done, Places
        <3>3. j.pending /\ Swapped(o) => at["current"] = o.old
            BY <1>2, <3>1, HowFar, ItsPlaces DEF Underway
        <3> QED  BY <3>1, <3>2, <3>3
    <2> QED  BY <1>1, <2>1 DEF WayBack
<1>5. RecoveryArmed
    BY DEF IInv, ArmedRight, RecoveryArmed, Early
<1> QED  BY <1>2, <1>3, <1>4, <1>5 DEF Recoverable

LEMMA InvEndsWhole ==
    ASSUME IInv
    PROVE  EndsWhole
<1>1. PICK j, o : j = journal /\ o = journal.op
    OBVIOUS
<1>2. o \in Operations
    BY <1>1 DEF IInv, TypeOK, Journals
<1>3. Committed(j) => at["install"] = o.new /\ local[at["install"]] = latest
    <2>1. ASSUME Committed(j)  PROVE at["install"] = o.new /\ local[o.new] = latest
        <3>1. Real(o) /\ (Done(o) \/ Swapped(o)) /\ local[o.new] = latest
            BY <1>1, <2>1 DEF IInv, JournalRight, Settled
        <3>2. Done(o) => at["install"] = o.new
            BY <1>2, <3>1, Where DEF Done, Places
        <3>3. Swapped(o) => at["install"] = o.new
            BY <1>2, <3>1, HowFar DEF Underway
        <3> QED  BY <3>1, <3>2, <3>3
    <2> QED  BY <2>1
<1>4. j.phase = "rolled_back" =>
        /\ at["install"] = o.old /\ local[o.old] = latest
        /\ o.action = "rollback" => at["backup"] = o.new /\ local[o.new] = candidateData
    <2>1. ASSUME j.phase = "rolled_back"
          PROVE  /\ at["install"] = o.old /\ local[o.old] = latest
                 /\ o.action = "rollback" => at["backup"] = o.new /\ local[o.new] = candidateData
        <3>1. /\ Real(o) /\ Whole(o) /\ local[o.old] = latest
              /\ o.action = "rollback" => OwnDataBack(o)
            BY <1>1, <2>1 DEF IInv, JournalRight, Committed, InProgress
        <3>2. at["install"] = o.old
            BY <1>2, <3>1, HowFar DEF Underway
        <3>3. o.action = "rollback" => at["backup"] = o.new
            <4>1. ASSUME o.action = "rollback"  PROVE Lies(o, "install", "backup")
                BY <3>1, <4>1, ItsPlaces DEF Whole, Ready, PutBack
            <4> QED  BY <1>2, <3>1, <4>1, Where DEF Places
        <3> QED  BY <3>1, <3>2, <3>3 DEF OwnDataBack
    <2> QED  BY <2>1
<1>5. CommittedStays
    BY <1>1, <1>3 DEF CommittedStays
<1>6. RestoredIsWhole
    BY <1>1, <1>4 DEF RestoredIsWhole
<1>7. DataKept
    <2>1. j.phase = "none" => local[at["install"]] = latest
        <3>1. ASSUME j.phase = "none"  PROVE at["install"] = Previous /\ local[Previous] = latest
            BY <1>1, <3>1 DEF IInv, JournalRight, NothingYet, Lies, NoOp, Operation, Places
        <3> QED  BY <3>1
    <2> QED  BY <1>1, <1>3, <1>4, <2>1 DEF DataKept, Terminal
<1> QED  BY <1>5, <1>6, <1>7 DEF EndsWhole

\* Wherever an update, a rollback or a recovery is interrupted, the directories can
\* be put back, the backup is the client that the journal names, and a half-done
\* swap has its recovery registered, unless the last recovery died before it could.
THEOREM StaysRecoverable == Spec => []Recoverable
BY Inductive, InvRecoverable, PTL

\* What a helper leaves behind when it calls an operation finished or taken back is
\* a whole installation with the newest chats of the user.
THEOREM LeavesItWhole == Spec => []EndsWhole
BY Inductive, InvEndsWhole, PTL
=============================================================================
