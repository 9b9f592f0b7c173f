----------------------------- MODULE ApiPortraits -----------------------------
(***************************************************************************)
(* The API portrait of one subject (bridge/backend_service.py), its row    *)
(* and cursor (bridge/result_store.py) and the ledger of classified        *)
(* messages with the statistics replayed from it                           *)
(* (bridge/api_portrait_ledger.py, bridge/api_portrait_statistics.py).     *)
(*                                                                         *)
(* A job looks at what is saved, reads a frozen range of the history page  *)
(* by page (or takes the pages an inventory has just read), plans batches  *)
(* and commits each classified batch together with the cursor and the      *)
(* ledger.  Meanwhile messages arrive late or vanish, the source is        *)
(* switched, the portrait is reset, the cache cleared, or the bridge       *)
(* restarts, perhaps with another classifier.                              *)
(*                                                                         *)
(* A message is its position; a long one has two pieces.  The statistics   *)
(* are the order in which the subject's messages were merged: that is all  *)
(* that distinguishes them when every message is judged once.  A prefix    *)
(* signature is the set of positions it aggregates.                        *)
(***************************************************************************)
EXTENDS Integers, FiniteSets, SequencesExt, FiniteSetsExt

CONSTANTS
    Messages,  \* positions, positive integers; 0 stands for None
    Long,      \* messages of two pieces
    Theirs,    \* messages of the subject
    Present,   \* what the history holds at the start
    PageSize,  \* messages of a history page
    Budgets,   \* pieces that fit into one model call, per configured context
    None,
    MaxMoves,  \* bound: messages that arrive or vanish
    MaxJobs,   \* bound: portrait requests that start a job
    MaxFaults  \* bound: failed calls, switches, erasures and restarts

ASSUME PortraitAssumption ==
    /\ Messages \subseteq Nat \ {0} /\ IsFiniteSet(Messages)
    /\ Long \cup Theirs \cup Present \subseteq Messages
    /\ PageSize \in Nat \ {0} /\ Budgets \subseteq Nat \ {0} /\ Budgets # {}
    /\ {MaxMoves, MaxJobs, MaxFaults} \subseteq Nat
    /\ None \notin Nat /\ None \notin Messages \X {0, 1}
    /\ \A S \in SUBSET Messages : None # S

VARIABLES
    history,     \* the messages the source holds now
    rev,         \* history_revision
    saved,       \* the row of api_portrait_v1
    ledger,      \* the ledger of this classifier version
    jobs,        \* the threads of _run_model_portrait
    current,     \* api_portrait_jobs[key]: the job registered last, 0 for none
    inventory,   \* api_history_inventory_v1, its thread and the pieces it leaves
    suspended,   \* analysis_cache_suspended_v1
    budget,      \* the context of the active source
    classifier,  \* portrait_version of the analyzer
    erased,      \* history: resets and clears so far
    overlooked,  \* history: messages a pass took for read without having read them
    moves, faults

portraitVars == <<history, rev, saved, ledger, jobs, current, inventory, suspended, budget,
          classifier, erased, overlooked, moves, faults>>
source == <<history, rev, moves>>
settings == <<suspended, budget, classifier, erased, faults>>

Jobs == 1..MaxJobs
MaxOf(S) == IF S = {} THEN 0 ELSE Max(S)
Upto(S, h) == {m \in S : m <= h}
Highwater == MaxOf(history)

\* The i-th of a set in its order has i of the set up to it.
InOrder(S) == [i \in 1..Cardinality(S) |-> CHOOSE m \in S : Cardinality(Upto(S, m)) = i]

(* Pieces of at most API_PORTRAIT_PIECE_CHARS; the first message may go on after skip. *)
PieceCount(m) == IF m \in Long THEN 2 ELSE 1
IsLast(p) == p[2] = PieceCount(p[1]) - 1
PiecesOf(S, skip) ==
    {p \in S \X {0, 1} : /\ p[2] < PieceCount(p[1])
                         /\ ~(p[2] < skip /\ \A m \in S : p[1] <= m)}
UptoPiece(P, p) == {q \in P : q[1] < p[1] \/ (q[1] = p[1] /\ q[2] <= p[2])}
Pieces(S, skip) ==
    LET P == PiecesOf(S, skip)
    IN  [i \in 1..Cardinality(P) |-> CHOOSE p \in P : Cardinality(UptoPiece(P, p)) = i]

(* The ends of the batches. *)
Plan(n, base) ==
    [i \in 1..((n + budget - 1) \div budget) |-> base + Min({i * budget, n})]

NoLedger == [init |-> FALSE, done |-> {}, part |-> None, revision |-> None,
             prefix |-> None, hw |-> 0, hash |-> <<>>]
NoRow == [hw |-> None]
NoJob == [state |-> "none"]
NoPieces == [hw |-> None, seen |-> {}]
Start0 == [after |-> 0, skip |-> 0, tail |-> {}]

PortraitInit ==
    /\ history = Present /\ rev = 0
    /\ saved = NoRow /\ ledger = NoLedger
    /\ jobs = [j \in Jobs |-> NoJob] /\ current = 0
    /\ inventory = [row |-> None, reader |-> None, pieces |-> NoPieces]
    /\ suspended = FALSE /\ budget \in Budgets /\ classifier = 1
    /\ erased = 0 /\ overlooked = {} /\ moves = 0 /\ faults = 0

-----------------------------------------------------------------------------
(* The source *)

Arrive(m) ==
    /\ moves < MaxMoves /\ m \in Messages \ history
    /\ history' = history \cup {m}
    /\ rev' = rev + 1 /\ moves' = moves + 1
    /\ UNCHANGED <<saved, ledger, jobs, current, inventory, overlooked, settings>>

Vanish(m) ==
    /\ moves < MaxMoves /\ m \in history
    /\ history' = history \ {m}
    /\ rev' = rev + 1 /\ moves' = moves + 1
    /\ UNCHANGED <<saved, ledger, jobs, current, inventory, overlooked, settings>>

-----------------------------------------------------------------------------
(* A job *)

\* Mutant: some job is registered, whichever.
LiveIfListed(j) == current # 0 /\ ~suspended

Live(j) == current = j /\ ~suspended
Ended(j, how) == jobs' = [jobs EXCEPT ![j] = [state |-> how]]
At(j, state) == jobs[j].state = state

RequestPortrait ==
    /\ ~suspended
    /\ current # 0 => jobs[current].state \in {"done", "error"}
    /\ \E j \in Jobs :
        /\ At(j, "none") /\ \A i \in Jobs : At(i, "none") => j <= i
        /\ jobs' = [jobs EXCEPT ![j] = [state |-> "queued", born |-> erased]]
        /\ current' = j
    /\ UNCHANGED <<source, saved, ledger, inventory, overlooked, settings>>

(* A portrait of another classifier, or without a ledger, is built anew. *)
Existing == saved # NoRow
Rebuilds == Existing /\ (saved.classifier # classifier \/ ~ledger.init)
HasRow(b) == Existing /\ ~b
Unfinished(b) == HasRow(b) /\ ~saved.complete
Finished(b) == HasRow(b) /\ saved.complete

Look(j) ==
    /\ At(j, "queued") /\ Live(j)
    /\ jobs' = [jobs EXCEPT ![j] = [state |-> "looked", born |-> @.born,
                                    rebuild |-> Rebuilds, hw |-> Highwater]]
    /\ UNCHANGED <<source, saved, ledger, current, inventory, overlooked, settings>>

PrefixChanged(b) ==
    Finished(b) /\ rev # ledger.revision /\ Upto(history, ledger.hw) # ledger.prefix
Reconciles(b) == PrefixChanged(b) \/ (Unfinished(b) /\ saved.reconcile)

\* Mutant: the revision at the end is taken for the one the job has read.
StampedAnyway(l, job) ==
    [l EXCEPT !.revision = rev, !.prefix = Upto(history, job.hw), !.hw = job.hw]

(* _api_ledger_finish: the revision the job has seen counts only if it still holds. *)
Stamped(l, job) ==
    [l EXCEPT !.revision = IF rev = job.rev THEN rev ELSE @,
              !.prefix = IF rev = job.rev THEN Upto(history, job.hw) ELSE @,
              !.hw = job.hw]

(* What a pass that was interrupted before its stamp leaves outside the checked prefix. *)
Unchecked(h) == {m \in Upto(history, h) : m > ledger.hw} \ ledger.done

(* Nothing is new: only the ledger's revision is brought up to date. *)
UpToDate(j) ==
    /\ At(j, "looked") /\ Live(j)
    /\ Finished(jobs[j].rebuild) /\ saved.hw = jobs[j].hw /\ ~PrefixChanged(jobs[j].rebuild)
    /\ Ended(j, "done")
    /\ ledger' = Stamped(ledger, [rev |-> rev, hw |-> jobs[j].hw])
    /\ overlooked' = overlooked \cup Unchecked(saved.hw)
    /\ UNCHANGED <<source, saved, current, inventory, settings>>

(* The newest message of a finished portrait is gone. *)
Shrunk(j) ==
    /\ At(j, "looked") /\ Live(j)
    /\ Finished(jobs[j].rebuild) /\ jobs[j].hw < saved.hw
    /\ Ended(j, "error")
    /\ UNCHANGED <<source, saved, ledger, current, inventory, overlooked, settings>>

(* Where the scan starts: after the cursor, after the last finished range, or at 0. *)
After(b) == IF Unfinished(b) THEN saved.after ELSE IF HasRow(b) THEN saved.hw ELSE 0
From(b) ==
    IF PrefixChanged(b) THEN 0
    ELSE IF Unfinished(b) /\ saved.batch > 0 THEN saved.anchor.after
    ELSE After(b)

Weigh(j) ==
    LET job == jobs[j] b == job.rebuild
        top == IF Unfinished(b) THEN saved.hw ELSE job.hw
    IN
    /\ At(j, "looked") /\ Live(j)
    /\ Finished(b) => (job.hw > saved.hw \/ (job.hw = saved.hw /\ PrefixChanged(b)))
    /\ jobs' = [jobs EXCEPT ![j] =
                  [state |-> "scanning", born |-> job.born, rebuild |-> b, hw |-> job.hw,
                   rev |-> rev, top |-> top, reconcile |-> Reconciles(b),
                   after |-> After(b), from |-> From(b), cursor |-> From(b),
                   seen |-> {}, taken |-> FALSE]]
    /\ overlooked' = overlooked \cup (IF Unfinished(b) THEN Upto(history, From(b)) \ ledger.done
                                     ELSE IF Finished(b) THEN Unchecked(From(b)) ELSE {})
    /\ UNCHANGED <<source, saved, ledger, current, inventory, settings>>

(* A scan from the beginning first waits for a running inventory of the same range, at   *)
(* most 30 seconds, and takes the pieces the last one left.                               *)
Matches(j) == jobs[j].from = 0 /\ jobs[j].after = 0 /\ inventory.pieces.hw = jobs[j].top

TakePieces(j) ==
    /\ At(j, "scanning") /\ Live(j) /\ Matches(j) /\ jobs[j].seen = {} /\ jobs[j].cursor = 0
    /\ jobs' = [jobs EXCEPT ![j].state = "scanned", ![j].taken = TRUE, ![j].seen = inventory.pieces.seen]
    /\ overlooked' = overlooked \cup (Upto(history, jobs[j].top) \ inventory.pieces.seen)
    /\ UNCHANGED <<source, saved, ledger, current, inventory, settings>>

Page(cursor, top) ==
    LET next == {m \in history : cursor < m /\ m <= top}
    IN {m \in next : Cardinality(Upto(next, m)) <= PageSize}

ReadPage(j) ==
    LET page == Page(jobs[j].cursor, jobs[j].top) IN
    /\ At(j, "scanning") /\ Live(j)
    /\ jobs[j].cursor = jobs[j].from => ~Matches(j)
    /\ jobs' = IF page = {} THEN [jobs EXCEPT ![j].state = "scanned"]
               ELSE [jobs EXCEPT ![j].cursor = Max(page), ![j].seen = @ \cup page]
    /\ UNCHANGED <<source, saved, ledger, current, inventory, overlooked, settings>>

Resumes(j) == Unfinished(jobs[j].rebuild)
Skip(j) == IF Resumes(j) /\ saved.batch > 0 /\ ~jobs[j].taken THEN saved.anchor.skip ELSE 0
KnownIds == ledger.done
Fresh(j) == IF jobs[j].reconcile THEN jobs[j].seen \ KnownIds
            ELSE {m \in jobs[j].seen : m > jobs[j].after}
Offset(j) == IF Resumes(j) /\ saved.batch > 0 THEN saved.plan[saved.batch] ELSE 0

(* "unfinished portrait source changed": an unfinished pass goes on only over the very   *)
(* rows it was planned for.                                                               *)
SourceChanged(j) ==
    /\ Resumes(j)
    /\ \/ saved.hw # jobs[j].top
       \/ Fresh(j) = {}
       \/ ~jobs[j].taken /\ saved.batch > 0 /\ jobs[j].seen # saved.anchor.tail
       \/ (jobs[j].taken \/ saved.batch = 0) /\ Fresh(j) # saved.fp

Refuse(j) ==
    /\ At(j, "scanned") /\ Live(j) /\ SourceChanged(j)
    /\ Ended(j, "error")
    /\ UNCHANGED <<source, saved, ledger, current, inventory, overlooked, settings>>

Planned(j) ==
    LET job == jobs[j]
        pieces == Pieces(Fresh(j), Skip(j))
        plan == Plan(Len(pieces), Offset(j))
    IN IF Resumes(j) THEN [saved EXCEPT !.plan = SubSeq(@, 1, saved.batch) \o plan]
       ELSE IF Finished(job.rebuild) /\ saved.hw = job.top /\ saved.fp = Fresh(j) THEN saved
       ELSE [hw |-> job.top, after |-> job.after, fp |-> Fresh(j), plan |-> plan,
             batch |-> 0, complete |-> (plan = <<>>), reconcile |-> job.reconcile,
             anchor |-> Start0, classifier |-> classifier, since |-> job.born,
             merged |-> IF HasRow(job.rebuild) THEN saved.merged ELSE <<>>,
             pending |-> None]

Begun(j) == IF jobs[j].rebuild \/ ~ledger.init THEN [NoLedger EXCEPT !.init = TRUE] ELSE ledger

(* api_portrait_begin with the ledger in one transaction. *)
Begin(j) ==
    LET job == jobs[j] IN
    /\ At(j, "scanned") /\ Live(j) /\ ~SourceChanged(j)
    /\ saved' = Planned(j)
    /\ ledger' = IF Planned(j).complete THEN Stamped(Begun(j), job) ELSE Begun(j)
    /\ inventory' = [inventory EXCEPT !.row = job.top, !.pieces = IF job.taken THEN NoPieces ELSE @]
    /\ jobs' = [jobs EXCEPT ![j] = IF Planned(j).complete THEN [state |-> "done"] ELSE
                  [state |-> "ready", born |-> job.born, hw |-> job.hw, rev |-> job.rev,
                   from |-> job.from, seen |-> job.seen, offset |-> Offset(j),
                   pieces |-> Pieces(Fresh(j), Skip(j)),
                   rewound |-> job.taken /\ Resumes(j) /\ saved.batch > 0]]
    /\ UNCHANGED <<source, current, overlooked, settings>>

-----------------------------------------------------------------------------
(* Batches *)

Batch(j) ==
    SubSeq(jobs[j].pieces,
           (IF saved.batch = 0 THEN 0 ELSE saved.plan[saved.batch]) - jobs[j].offset + 1,
           saved.plan[saved.batch + 1] - jobs[j].offset)

(* validate_batch_signal: only a batch with a text of the subject needs a result, and     *)
(* only such a batch is sent to the model, in the portrait lane.                          *)
NeedsResult(b) == \E p \in ToSet(b) : p[1] \in Theirs

Ask(j) ==
    /\ At(j, "ready") /\ Live(j) /\ saved.batch < Len(saved.plan)
    /\ jobs' = [jobs EXCEPT ![j].state = "asking"]
    /\ UNCHANGED <<source, saved, ledger, current, inventory, overlooked, settings>>

(* The call failed more often than it is retried, or its reply is refused as often.      *)
CallFails(j) ==
    /\ At(j, "asking") /\ Live(j) /\ faults < MaxFaults
    /\ NeedsResult(Batch(j))
    /\ Ended(j, "error") /\ faults' = faults + 1
    /\ UNCHANGED <<source, saved, ledger, current, inventory, overlooked,
                   suspended, budget, classifier, erased>>

Latest == IF saved.merged = <<>> THEN 0 ELSE Last(saved.merged)
Complete(b) == {p[1] : p \in {q \in ToSet(b) : IsLast(q)}}
Replayed == InOrder(ledger.done \cap Theirs)

(* valid_statistics: of one classifier, and a message half read lies behind every merged *)
(* one, unless a ledger allows it to be older.                                            *)
ValidStatistics(version, historical) ==
    /\ saved.classifier = version
    /\ historical \/ saved.pending = None \/ saved.pending[1] > Latest

(* The checks of ApiPortraitLedger.prepare: each says that state it relies on is broken. *)
Unfit(b) ==
    \/ ~ledger.init \/ ~ValidStatistics(classifier, TRUE)
    \/ ledger.hash # <<>> /\ ledger.hash # <<saved.merged, saved.pending>>
    \/ ledger.hash = <<>> /\ saved.merged # Replayed
    \/ saved.pending # None /\ saved.pending # ledger.part
    \/ ledger.part # None /\ ledger.part # b[1]
    \/ ledger.part = None /\ b[1][2] # 0
    \/ \E p \in ToSet(b) : p[1] \in ledger.done /\ PieceCount(p[1]) > 1

\* Mutant: a late message is appended like a new one.
AlwaysAppends(b) == TRUE

(* A message whole in the batch and recorded before is passed over, not added again.     *)
AppendOnly(b) ==
    /\ \A p \in ToSet(b) : p[1] \notin ledger.done /\ (p[1] \in Theirs => p[1] > Latest)
    /\ ValidStatistics(classifier, FALSE)

(* append_batch: the statistics grow by the messages the batch completes ... *)
Appended(b) == saved.merged \o InOrder(Complete(b) \cap Theirs)

(* ... or ApiPortraitLedger.statistics replays them from the rows, in the true order.    *)
ReplayedWith(b) == InOrder((ledger.done \cup Complete(b)) \cap Theirs)

Grown(b) == IF AppendOnly(b) THEN Appended(b) ELSE ReplayedWith(b)

Left(b) == IF IsLast(Last(b)) THEN None ELSE <<Last(b)[1], Last(b)[2] + 1>>
Pending(b) == IF Left(b) # None /\ Left(b)[1] \in Theirs THEN Left(b) ELSE None

(* api_portrait_resume_anchor *)
Anchor(j, b) ==
    LET m == Last(b)[1] IN
    IF IsLast(Last(b)) THEN [after |-> m, skip |-> 0, tail |-> {n \in jobs[j].seen : n > m}]
    ELSE [after |-> MaxOf({n \in jobs[j].seen : n < m} \cup {jobs[j].from}),
          skip |-> Last(b)[2] + 1, tail |-> {n \in jobs[j].seen : n >= m}]

(* persist: the rows, the fragment and the hash of the statistics. *)
Recorded(b) ==
    [ledger EXCEPT !.done = @ \cup Complete(b), !.part = Left(b),
                   !.hash = <<Grown(b), Pending(b)>>]

StateInvalid(j) ==
    /\ At(j, "asking") /\ Live(j) /\ Unfit(Batch(j))
    /\ jobs' = [jobs EXCEPT ![j] = [state |-> "error", rewound |-> jobs[j].rewound]]
    /\ UNCHANGED <<source, saved, ledger, current, inventory, overlooked, settings>>

(* api_portrait_checkpoint: the cursor and the resume data of the next batch. *)
Checkpoint(j, b) ==
    [saved EXCEPT !.batch = @ + 1, !.complete = (saved.batch + 1 = Len(saved.plan)),
                  !.merged = Grown(b), !.pending = Pending(b),
                  !.anchor = Anchor(j, b), !.since = jobs[j].born]

(* Cursor, statistics and ledger move in one transaction. *)
Commit(j) ==
    LET b == Batch(j) IN
    /\ At(j, "asking") /\ Live(j) /\ ~Unfit(b)
    /\ saved' = Checkpoint(j, b) /\ ledger' = Recorded(b)
    /\ jobs' = [jobs EXCEPT ![j].state = "ready"]
    /\ UNCHANGED <<source, current, inventory, overlooked, settings>>

(* What the stamp of a resumed pass covers beyond the range the pass has read. *)
Beyond(job) == IF rev = job.rev THEN {m \in Upto(history, job.hw) : m > saved.hw} ELSE {}

Finish(j) ==
    /\ At(j, "ready") /\ Live(j) /\ saved.batch = Len(saved.plan)
    /\ ledger' = Stamped(ledger, jobs[j])
    /\ overlooked' = overlooked \cup Beyond(jobs[j])
    /\ Ended(j, "done")
    /\ UNCHANGED <<source, saved, current, inventory, settings>>

(* The check that every step, and the wait between two attempts, begins with: the job is *)
(* not the registered one any more.                                                       *)
Stop(j) ==
    /\ jobs[j].state \notin {"none", "done", "error"} /\ ~Live(j)
    /\ Ended(j, "error")
    /\ UNCHANGED <<source, saved, ledger, current, inventory, overlooked, settings>>

-----------------------------------------------------------------------------
(* What the portrait page shows *)

(* profile_from_statistics: the messages of the subject the portrait rests on. *)
Analysed == IF Existing THEN Len(saved.merged) ELSE 0

(* The saved portrait still stands for the history, as far as its ledger can tell. *)
StillCurrent ==
    /\ saved.hw = Highwater
    /\ ledger.init /\ rev # ledger.revision => Upto(history, ledger.hw) = ledger.prefix

(* model_portrait; a ledger that another classifier has not begun yet tells nothing. *)
Shown ==
    [needsRebuild |-> Existing /\ ~ValidStatistics(classifier, TRUE),
     inventoryReady |-> Existing \/ inventory.row = Highwater,
     batches |-> IF Existing THEN <<saved.batch, Len(saved.plan)>> ELSE <<0, 0>>,
     dataStatus |-> IF Existing /\ saved.complete /\ StillCurrent THEN "analyzed"
                    ELSE IF Analysed > 0 THEN "partial" ELSE "unanalyzed"]

-----------------------------------------------------------------------------
(* The inventory of a conversation whose portrait was never begun *)

OpenPortrait ==
    /\ ~Shown.inventoryReady /\ inventory.reader = None
    /\ inventory' = [inventory EXCEPT !.reader = [hw |-> Highwater, cursor |-> 0, seen |-> {}]]
    /\ UNCHANGED <<source, saved, ledger, jobs, current, overlooked, settings>>

CountPage ==
    LET reader == inventory.reader
        page == IF reader = None THEN {} ELSE Page(reader.cursor, reader.hw)
    IN
    /\ reader # None
    /\ inventory' \in
         IF page # {}
         THEN {[inventory EXCEPT !.reader.cursor = Max(page), !.reader.seen = @ \cup page]}
         ELSE \* a history too large for the cache is only counted
              {[row |-> reader.hw, reader |-> None, pieces |-> p] :
                 p \in {inventory.pieces, [hw |-> reader.hw, seen |-> reader.seen]}}
    /\ UNCHANGED <<source, saved, ledger, jobs, current, overlooked, settings>>

PiecesExpire ==
    /\ inventory.pieces # NoPieces
    /\ inventory' = [inventory EXCEPT !.pieces = NoPieces]
    /\ UNCHANGED <<source, saved, ledger, jobs, current, overlooked, settings>>

-----------------------------------------------------------------------------
(* What happens to a job from outside *)

(* The source is switched, or its context changed; a switch away and back is one step. *)
Switch ==
    /\ faults < MaxFaults /\ faults' = faults + 1
    /\ current' = 0 /\ budget' \in Budgets
    /\ UNCHANGED <<source, saved, ledger, jobs, inventory, suspended, classifier, erased, overlooked>>

ClearLedger == ledger' = NoLedger

(* analysis_scope_clear: the job, the row and the ledger go under one lock. *)
Reset ==
    /\ faults < MaxFaults /\ faults' = faults + 1
    /\ current' = 0 /\ saved' = NoRow /\ ClearLedger
    /\ erased' = erased + 1 /\ overlooked' = {}
    /\ UNCHANGED <<source, jobs, inventory, suspended, budget, classifier>>

(* analysis_cache_clear suspends the source and drops its jobs ... *)
Suspend ==
    /\ faults < MaxFaults /\ faults' = faults + 1
    /\ ~suspended /\ suspended' = TRUE /\ current' = 0
    /\ inventory' = [inventory EXCEPT !.pieces = NoPieces]
    /\ UNCHANGED <<source, saved, ledger, jobs, budget, classifier, erased, overlooked>>

(* ... then deletes what it saved and resumes. *)
Clear ==
    /\ suspended /\ suspended' = FALSE
    /\ saved' = NoRow /\ ClearLedger
    /\ erased' = erased + 1 /\ overlooked' = {}
    /\ UNCHANGED <<source, jobs, current, inventory, budget, classifier, faults>>

(* The bridge restarts, with this classifier or the next one, whose ledger is empty.     *)
(* history_revision names the reader, so it changes too.                                 *)
Restart ==
    /\ faults < MaxFaults /\ faults' = faults + 1
    /\ jobs' = [j \in Jobs |-> IF At(j, "none") THEN NoJob ELSE [state |-> "done"]]
    /\ current' = 0 /\ rev' = rev + 1
    /\ inventory' = [inventory EXCEPT !.reader = None, !.pieces = NoPieces]
    /\ \E v \in {classifier, classifier + 1} :
        /\ classifier' = v
        /\ ledger' = IF v = classifier THEN ledger ELSE NoLedger
    /\ UNCHANGED <<history, moves, saved, suspended, budget, erased, overlooked>>

PortraitNext ==
    \/ \E m \in Messages : Arrive(m) \/ Vanish(m)
    \/ RequestPortrait
    \/ \E j \in Jobs : \/ Look(j) \/ UpToDate(j) \/ Shrunk(j) \/ Weigh(j)
                       \/ TakePieces(j) \/ ReadPage(j) \/ Refuse(j) \/ Begin(j)
                       \/ Ask(j) \/ CallFails(j) \/ StateInvalid(j) \/ Commit(j)
                       \/ Finish(j) \/ Stop(j)
    \/ OpenPortrait \/ CountPage \/ PiecesExpire
    \/ Switch \/ Reset \/ Suspend \/ Clear \/ Restart

PortraitSpec == PortraitInit /\ [][PortraitNext]_portraitVars

-----------------------------------------------------------------------------
PortraitTypeOK ==
    /\ history \subseteq Messages /\ rev \in Nat /\ current \in 0..MaxJobs
    /\ Existing => saved.batch \in 0..Len(saved.plan) /\ saved.hw \in {0} \cup Messages
    /\ ledger.done \subseteq Messages /\ overlooked \subseteq Messages
    /\ \A j \in Jobs : jobs[j].state \in {"none", "queued", "looked", "scanning", "scanned",
                                          "ready", "asking", "done", "error"}

(* The statistics a portrait shows are the ledger's classifications in their true order, *)
(* half-read message included, whatever was appended, replayed, resumed or rebuilt; no   *)
(* batch is ever paid for that the ledger then refuses, and no piece is asked for twice. *)
(* Only a resumed pass that takes the pieces of an inventory reads its first message     *)
(* again (rewound).                                                                       *)
PaidOnce ==
    /\ PortraitTypeOK
    /\ Existing /\ ~Rebuilds =>
         /\ saved.merged = Replayed
         /\ saved.pending # None => saved.pending = ledger.part
         /\ ledger.hash \in {<<>>, <<saved.merged, saved.pending>>}
    /\ \A j \in Jobs :
         /\ At(j, "error") /\ "rewound" \in DOMAIN jobs[j] => jobs[j].rewound
         /\ At(j, "asking") /\ Live(j) /\ ~jobs[j].rewound =>
              /\ ~Unfit(Batch(j))
              /\ \A p \in ToSet(Batch(j)) : p[1] \notin ledger.done

(* A portrait reported complete covers every message the history holds up to its         *)
(* highwater, although messages arrive behind the cursor while pages are read and batches *)
(* committed.  overlooked holds those of a resumed pass, of an inventory taken over, of a *)
(* pass interrupted before its last stamp and of the stamp of a resumed pass beyond its   *)
(* range: there the code does report messages it never read.  A portrait with batches     *)
(* left is never reported complete.                                                       *)
CompleteIsTrue ==
    Shown.dataStatus = "analyzed" /\ ~Shown.needsRebuild =>
        /\ Shown.batches[1] = Shown.batches[2]
        /\ ledger.hw >= saved.hw => Upto(history, saved.hw) \ ledger.done \subseteq overlooked

(* A job that was running when its portrait was reset or cleared writes nothing into the *)
(* portrait begun afterwards.                                                             *)
ErasedStaysErased == Existing => saved.since = erased

=============================================================================
