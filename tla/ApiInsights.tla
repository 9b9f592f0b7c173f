----------------------------- MODULE ApiInsights -----------------------------
(***************************************************************************)
(* The life of an API insight job in Backend (src/bridge/backend_service.py *)
(* and src/bridge/api_tasks.py), for one account and one conversation.     *)
(*                                                                         *)
(* A request reads the message window between two critical sections of the *)
(* API lock, registers a job and starts a worker thread; the worker passes *)
(* a series of checks, takes provider turns and saves in one last critical *)
(* section.  Meanwhile the model source is switched, the saved analysis of *)
(* a source is cleared, the conversation is reset, the same message is     *)
(* recomputed by a forced job, and the bridge is drained for an account    *)
(* clear.  None of these waits for the workers (only the drain does), so   *)
(* what keeps a late answer out is identity: the job object in the         *)
(* registry, the epoch captured by the request, the writer of each message. *)
(*                                                                         *)
(* Every action is one critical section, or one step between two.  Errors  *)
(* that any step may meet (the account was switched, the disk refuses, the *)
(* provider or the pool fails) are the actions Fail and ClearFails.        *)
(***************************************************************************)
EXTENDS Integers, FiniteSets

CONSTANTS
    Jobs,        \* the requests ever made (each makes at most one job)
    Msgs,        \* the messages of the conversation that can be analysed
    Sources,     \* the API model sources
    NoJob,
    Local,       \* LOCAL_SOURCE_ID
    RetryMax,    \* API_INSIGHT_RETRY_MAX
    MaxSwitch,   \* bound: activations of a model source
    MaxClear,    \* bound: cache clears of each source
    MaxReset,    \* bound: conversation resets of each source
    MaxDrain     \* bound: drains of the bridge (0 or 1)

ASSUME InsightsAssumption ==
    /\ IsFiniteSet(Jobs)
    /\ NoJob \notin Jobs
    /\ Sources # {} /\ Local \notin Sources
    /\ RetryMax \in Nat /\ MaxSwitch \in Nat
    /\ MaxClear \in Nat /\ MaxReset \in Nat /\ MaxDrain \in 0..1

VARIABLES
    active,        \* active_model_source_id: Local or an API source
    revision,      \* model_source_revision
    api_jobs,      \* the registry insight_jobs: the jobs that are in it
    writers,       \* api_insight_writers
    inflight,      \* ApiTaskCoordinator.inflight
    suspended,     \* the sources in analysis_cache_suspended_v1
    sourceEpoch,   \* analysis_source_epochs
    scopeEpoch,    \* analysis_epochs of the conversation
    cachePc,       \* where the cache clear of each source stands
    wasSuspended,  \* its local variable
    scopePc,       \* where the conversation reset of each source stands
    drain,         \* where the drain of the bridge stands
    rows,          \* api_insights_v1: the job whose result is saved
    pc,            \* where each request and then its worker stands
    job,           \* what the request captured and the job object holds
    status,        \* job["status"]
    attempt,       \* the retries its worker has used
    older,         \* history: the jobs registered before it
    floor          \* history: the epochs of a source when its rows were last deleted

sourceVars == <<active, revision>>
registryVars == <<api_jobs, writers, inflight>>
clearVars == <<suspended, sourceEpoch, scopeEpoch, cachePc, wasSuspended, scopePc>>
jobVars == <<pc, job, status, attempt>>
historyVars == <<older, floor>>
vars == <<sourceVars, registryVars, clearVars, drain, rows, jobVars, historyVars>>

RequestPc == {"reading"}
ActivePc == {"queued", "checked", "running", "turn", "retry", "answered"}
WorkerPc == ActivePc \cup {"finally", "finishing"}
JobPc == {"unused", "refused", "gone"} \cup RequestPc \cup WorkerPc

Epoch(s) == [scope |-> scopeEpoch[s], source |-> sourceEpoch[s]]
Epochs == [scope : 0..MaxReset, source : 0..MaxClear]
JobRecord == [source : Sources, force : BOOLEAN, selected : SUBSET Msgs,
              pending : SUBSET Msgs, revision : 0..MaxSwitch, epoch : Epochs]
NoRecord == [source |-> CHOOSE s \in Sources : TRUE, force |-> FALSE, selected |-> {},
             pending |-> {}, revision |-> 0, epoch |-> [scope |-> 0, source |-> 0]]

closing == drain \in {"closing", "waiting", "idle", "drained", "failed"}

TypeOK ==
    /\ active \in Sources \cup {Local}
    /\ revision \in 0..MaxSwitch
    /\ api_jobs \in SUBSET Jobs
    /\ writers \in [Sources -> [Msgs -> Jobs \cup {NoJob}]]
    /\ inflight \in Nat
    /\ suspended \in SUBSET Sources
    /\ sourceEpoch \in [Sources -> 0..MaxClear]
    /\ scopeEpoch \in [Sources -> 0..MaxReset]
    /\ cachePc \in [Sources -> {"idle", "bumped", "suspended", "dropped", "deleted"}]
    /\ wasSuspended \in [Sources -> BOOLEAN]
    /\ scopePc \in [Sources -> {"idle", "marked", "cleared"}]
    /\ drain \in {"open", "closing", "waiting", "idle", "drained", "failed", "reopened"}
    /\ rows \in [Sources -> [Msgs -> Jobs \cup {NoJob}]]
    /\ pc \in [Jobs -> JobPc]
    /\ job \in [Jobs -> JobRecord]
    /\ status \in [Jobs -> {"none", "queued", "running", "done", "error", "cancelled"}]
    /\ attempt \in [Jobs -> 0..RetryMax]
    /\ older \in [Jobs -> SUBSET Jobs]
    /\ floor \in [Sources -> Epochs]

Init ==
    /\ active \in Sources \cup {Local} /\ revision = 0
    /\ api_jobs = {} /\ inflight = 0
    /\ writers = [s \in Sources |-> [m \in Msgs |-> NoJob]]
    /\ suspended = {}
    /\ sourceEpoch = [s \in Sources |-> 0]
    /\ scopeEpoch = [s \in Sources |-> 0]
    /\ cachePc = [s \in Sources |-> "idle"]
    /\ wasSuspended = [s \in Sources |-> FALSE]
    /\ scopePc = [s \in Sources |-> "idle"]
    /\ drain = "open"
    /\ rows = [s \in Sources |-> [m \in Msgs |-> NoJob]]
    /\ pc = [j \in Jobs |-> "unused"]
    /\ job = [j \in Jobs |-> NoRecord]
    /\ status = [j \in Jobs |-> "none"]
    /\ attempt = [j \in Jobs |-> 0]
    /\ older = [j \in Jobs |-> {}]
    /\ floor = [s \in Sources |-> [scope |-> 0, source |-> 0]]

-----------------------------------------------------------------------------
(* start_model_insights *)

Resetting(s) == scopePc[s] # "idle"                 \* analysis_scope_resets
Clearing(s) == cachePc[s] # "idle"                  \* cache_clear_in_progress

\* The first critical section: request_lease, _api_source_snapshot,
\* _analysis_epoch.  The window is read after it, without the lock.
Request(j) ==
    /\ pc[j] = "unused"
    /\ ~closing
    /\ active \in Sources
    /\ ~Resetting(active)
    /\ \E force \in BOOLEAN, selected \in SUBSET Msgs \ {{}} :
          job' = [job EXCEPT ![j] =
                    [source |-> active, force |-> force, selected |-> selected,
                     pending |-> {}, revision |-> revision, epoch |-> Epoch(active)]]
    /\ pc' = [pc EXCEPT ![j] = "reading"]
    /\ UNCHANGED <<sourceVars, registryVars, clearVars, drain, rows, status, attempt, historyVars>>

\* _assert_analysis_epoch: no reset runs, and none began (nor a cache clear)
\* since the first critical section.
EpochIgnored(j) == TRUE                                                  \* mutant
EpochCurrent(j) ==
    /\ ~Resetting(job[j].source)
    /\ job[j].epoch = Epoch(job[j].source)

\* What the second critical section requires before it makes a job.
Admissible(j) ==
    /\ ~closing
    /\ active = job[j].source /\ revision = job[j].revision
    /\ EpochCurrent(j)
    /\ job[j].source \notin suspended

\* The running background job of the same account, conversation and source.
Background(s) == {k \in api_jobs : job[k].source = s /\ ~job[k].force}
Repeated(j) ==
    ~job[j].force /\ \E k \in Background(job[j].source) : status[k] \in {"queued", "running"}

\* Refused, suspended, answered with the running job, or stopped by an error
\* (the window could not be read, the account was switched).
Refuse(j) ==
    /\ pc[j] = "reading"
    /\ pc' = [pc EXCEPT ![j] = "refused"]
    /\ job' = [job EXCEPT ![j] = NoRecord]
    /\ UNCHANGED <<sourceVars, registryVars, clearVars, drain, rows,
                   status, attempt, historyVars>>

\* Messages with a saved result need no turn, unless the caller forces one.
Pending(j) ==
    IF job[j].force THEN job[j].selected
    ELSE {m \in job[j].selected : rows[job[j].source][m] = NoJob}

\* A forced job has a key of its own; a background job replaces the finished
\* one under its key.  Evicting finished jobs from the cache is left out.
Registered(j) ==
    IF job[j].force THEN api_jobs \cup {j}
    ELSE (api_jobs \ Background(job[j].source)) \cup {j}

Enroll(j) ==
    /\ pc[j] = "reading"
    /\ Admissible(j) /\ ~Repeated(j)
    /\ api_jobs' = Registered(j)
    /\ job' = [job EXCEPT ![j].pending = Pending(j)]
    /\ older' = [older EXCEPT ![j] = {k \in Jobs : status[k] # "none"}]
    /\ UNCHANGED <<sourceVars, clearVars, drain, rows, attempt, floor>>

\* writers[source][m] for the messages of a set.
Assign(s, ms, w) == [writers EXCEPT ![s] = [m \in Msgs |-> IF m \in ms THEN w ELSE @[m]]]

\* The last registered job becomes the writer of each of its messages.
FirstWriter(j) ==                                                        \* mutant
    Assign(job[j].source, {m \in Pending(j) : writers[job[j].source][m] = NoJob}, j)
TakeWriters(j) == Assign(job[j].source, Pending(j), j)

\* The second critical section: the job, its writers and its worker.
Start(j) ==
    /\ Enroll(j)
    /\ Pending(j) # {}
    /\ writers' = TakeWriters(j)
    /\ inflight' = inflight + 1
    /\ pc' = [pc EXCEPT ![j] = "queued"]
    /\ status' = [status EXCEPT ![j] = "queued"]

\* Nothing to do: the job is done at once.
StartDone(j) ==
    /\ Enroll(j)
    /\ Pending(j) = {}
    /\ pc' = [pc EXCEPT ![j] = "gone"]
    /\ status' = [status EXCEPT ![j] = "done"]
    /\ UNCHANGED <<writers, inflight>>

\* The thread cannot be started: writers and inflight are taken back.
StartFails(j) ==
    /\ Enroll(j)
    /\ Pending(j) # {}
    /\ writers' = Assign(job[j].source, Pending(j), NoJob)
    /\ pc' = [pc EXCEPT ![j] = "gone"]
    /\ status' = [status EXCEPT ![j] = "error"]
    /\ UNCHANGED inflight

-----------------------------------------------------------------------------
(* _run_model_insights: the worker *)

\* _assert_api_job: still this job object, this source, not suspended.
AliveByKey(j) ==                                                         \* mutant
    ~closing /\ active = job[j].source /\ job[j].source \notin suspended
Alive(j) ==
    /\ ~closing
    /\ active = job[j].source
    /\ j \in api_jobs
    /\ job[j].source \notin suspended

Move(j, from, to) ==
    /\ pc[j] = from
    /\ pc' = [pc EXCEPT ![j] = to]

WorkerFrame == UNCHANGED <<sourceVars, clearVars, drain, job, historyVars>>

CheckIn(j) ==
    /\ Move(j, "queued", "checked")
    /\ Alive(j)
    /\ UNCHANGED <<registryVars, rows, status, attempt>> /\ WorkerFrame

\* A critical section of its own: the registry is not consulted again.
MarkRunning(j) ==
    /\ Move(j, "checked", "running")
    /\ ~closing /\ active = job[j].source
    /\ status' = [status EXCEPT ![j] = "running"]
    /\ UNCHANGED <<registryVars, rows, attempt>> /\ WorkerFrame

\* The head of the attempt loop; the lease validates the same condition.
Turn(j) ==
    /\ Move(j, "running", "turn")
    /\ Alive(j)
    /\ UNCHANGED <<registryVars, rows, status, attempt>> /\ WorkerFrame

\* A complete, valid set of insights came back.
Answer(j) ==
    /\ Move(j, "turn", "answered")
    /\ UNCHANGED <<registryVars, rows, status, attempt>> /\ WorkerFrame

MayRetry(j) == attempt[j] < RetryMax

Uncounted(j) == attempt                                                  \* mutant
NextAttempt(j) == [attempt EXCEPT ![j] = @ + 1]

\* A timeout, network error or rate limit: wait_api_model_retry.
Retry(j) ==
    /\ Move(j, "turn", "retry")
    /\ MayRetry(j)
    /\ Alive(j)
    /\ attempt' = NextAttempt(j)
    /\ UNCHANGED <<registryVars, rows, status>> /\ WorkerFrame

Resume(j) ==
    /\ Move(j, "retry", "running")
    /\ Alive(j)
    /\ UNCHANGED <<registryVars, rows, status, attempt>> /\ WorkerFrame

\* The messages whose writer is still this job.
AllPending(j) == job[j].pending                                          \* mutant
Mine(j) == {m \in job[j].pending : writers[job[j].source][m] = j}

\* The last critical section: every check once more, then the save.
Save(j) ==
    /\ Move(j, "answered", "finally")
    /\ Alive(j)
    /\ rows' = [rows EXCEPT ![job[j].source] =
                  [m \in Msgs |-> IF m \in Mine(j) THEN j ELSE @[m]]]
    /\ status' = [status EXCEPT ![j] = "done"]
    /\ UNCHANGED <<registryVars, attempt>> /\ WorkerFrame

\* A check failed or an exception was raised: whatever the status was (a reset
\* may have made it "cancelled"), it becomes "error".
Unreported(j) == status                                                  \* mutant
Failed(j) == [status EXCEPT ![j] = "error"]

Fail(j) ==
    /\ pc[j] \in ActivePc
    /\ pc' = [pc EXCEPT ![j] = "finally"]
    /\ status' = Failed(j)
    /\ UNCHANGED <<registryVars, rows, attempt>> /\ WorkerFrame

\* The finally block gives back the writers that are still its own ...
KeepWriters(j) == writers                                                \* mutant
DropWriters(j) == Assign(job[j].source, Mine(j), NoJob)

Unwrite(j) ==
    /\ Move(j, "finally", "finishing")
    /\ writers' = DropWriters(j)
    /\ UNCHANGED <<api_jobs, inflight, rows, status, attempt>> /\ WorkerFrame

\* ... and then ApiTaskCoordinator.finish.
OnlyRegistered(j) == IF j \in api_jobs THEN inflight - 1 ELSE inflight    \* mutant
FinishedCount(j) == inflight - 1

Finish(j) ==
    /\ Move(j, "finishing", "gone")
    /\ inflight' = FinishedCount(j)
    /\ attempt' = [attempt EXCEPT ![j] = 0]
    /\ UNCHANGED <<api_jobs, writers, rows, status>> /\ WorkerFrame

-----------------------------------------------------------------------------
(* Switching the model source: one critical section, and no waiting *)

\* A request that was inside the bridge when it closed may still switch; a
\* drained bridge serves none.  _cancel_api_source_work_locked empties the
\* registry; the pool's part is in ApiAnalyzerPool.
Activate(s, cancel) ==
    /\ revision < MaxSwitch
    /\ drain # "drained"
    /\ active' = s
    /\ revision' = revision + 1
    /\ api_jobs' = IF cancel THEN {} ELSE api_jobs
    /\ UNCHANGED <<writers, inflight, clearVars, drain, rows, jobVars, historyVars>>

\* model_source_activate with mode local; deleting the active profile too.
ActivateLocal == Activate(Local, active # Local)

\* _commit_api_source_locked: a different source or configuration, or the
\* same one with other credentials, cancels; the same one does not, nor does
\* saving a profile that is not the active one, which only moves the revision.
ActivateApi(s) == \E changed \in BOOLEAN : (s # active => changed) /\ Activate(s, changed)

-----------------------------------------------------------------------------
(* analysis_cache_clear of an API source, and analysis_cache_resume *)

\* The jobs of one source leave the registry (invalidate_source, and the loop
\* of analysis_scope_clear).
WithoutSource(s) == {k \in api_jobs : job[k].source # s}

ClearFrame == UNCHANGED <<sourceVars, writers, inflight, drain, job, attempt, older>>

ClearBegin(s) ==
    /\ ~closing
    /\ cachePc[s] = "idle"
    /\ sourceEpoch[s] < MaxClear
    /\ cachePc' = [cachePc EXCEPT ![s] = "bumped"]
    /\ sourceEpoch' = [sourceEpoch EXCEPT ![s] = @ + 1]
    /\ UNCHANGED <<api_jobs, rows, floor, suspended, scopeEpoch, wasSuspended, scopePc, pc, status>>
    /\ ClearFrame

ClearSuspend(s) ==
    /\ cachePc[s] = "bumped"
    /\ cachePc' = [cachePc EXCEPT ![s] = "suspended"]
    /\ wasSuspended' = [wasSuspended EXCEPT ![s] = s \in suspended]
    /\ suspended' = suspended \cup {s}
    /\ UNCHANGED <<api_jobs, rows, floor, sourceEpoch, scopeEpoch, scopePc, pc, status>>
    /\ ClearFrame

ClearDrop(s) ==
    /\ cachePc[s] = "suspended"
    /\ cachePc' = [cachePc EXCEPT ![s] = "dropped"]
    /\ api_jobs' = WithoutSource(s)
    /\ UNCHANGED <<rows, floor, suspended, sourceEpoch, scopeEpoch, wasSuspended, scopePc, pc, status>>
    /\ ClearFrame

ClearDelete(s) ==
    /\ cachePc[s] = "dropped"
    /\ cachePc' = [cachePc EXCEPT ![s] = "deleted"]
    /\ rows' = [rows EXCEPT ![s] = [m \in Msgs |-> NoJob]]
    /\ floor' = [floor EXCEPT ![s].source = sourceEpoch[s]]
    /\ UNCHANGED <<api_jobs, suspended, sourceEpoch, scopeEpoch, wasSuspended, scopePc, pc, status>>
    /\ ClearFrame

ClearEnd(s) ==
    /\ cachePc[s] = "deleted"
    /\ cachePc' = [cachePc EXCEPT ![s] = "idle"]
    /\ suspended' = suspended \ {s}
    /\ wasSuspended' = [wasSuspended EXCEPT ![s] = FALSE]
    /\ UNCHANGED <<api_jobs, rows, floor, sourceEpoch, scopeEpoch, scopePc, pc, status>>
    /\ ClearFrame

\* Only the suspension this call added is undone.
SuspendedLeft(s) == suspended                                            \* mutant
SuspendedAfterFailure(s) ==
    IF cachePc[s] = "bumped" \/ wasSuspended[s] THEN suspended ELSE suspended \ {s}

ClearFails(s) ==
    /\ cachePc[s] \in {"bumped", "suspended", "dropped"}
    /\ cachePc' = [cachePc EXCEPT ![s] = "idle"]
    /\ suspended' = SuspendedAfterFailure(s)
    /\ wasSuspended' = [wasSuspended EXCEPT ![s] = FALSE]
    /\ UNCHANGED <<api_jobs, rows, floor, sourceEpoch, scopeEpoch, scopePc, pc, status>>
    /\ ClearFrame

\* analysis_cache_resume looks at nothing but the flag it removes.
CacheResume(s) ==
    /\ ~closing
    /\ s \in suspended
    /\ suspended' = suspended \ {s}
    /\ UNCHANGED <<api_jobs, rows, floor, sourceEpoch, scopeEpoch, cachePc, wasSuspended, scopePc, pc, status>>
    /\ ClearFrame

-----------------------------------------------------------------------------
(* analysis_scope_clear of the conversation, for an API source *)

ResetBegin(s) ==
    /\ ~closing
    /\ scopePc[s] = "idle"
    /\ scopeEpoch[s] < MaxReset
    /\ scopePc' = [scopePc EXCEPT ![s] = "marked"]
    /\ scopeEpoch' = [scopeEpoch EXCEPT ![s] = @ + 1]
    /\ UNCHANGED <<api_jobs, rows, floor, suspended, sourceEpoch, cachePc, wasSuspended, pc, status>>
    /\ ClearFrame

\* Under the API lock: the jobs are cancelled and dropped, the rows deleted.
ResetClear(s) ==
    /\ scopePc[s] = "marked"
    /\ scopePc' = [scopePc EXCEPT ![s] = "cleared"]
    /\ status' = [j \in Jobs |-> IF j \in api_jobs /\ job[j].source = s
                                 THEN "cancelled" ELSE status[j]]
    /\ api_jobs' = WithoutSource(s)
    /\ rows' = [rows EXCEPT ![s] = [m \in Msgs |-> NoJob]]
    /\ floor' = [floor EXCEPT ![s].scope = scopeEpoch[s]]
    /\ UNCHANGED <<suspended, sourceEpoch, scopeEpoch, cachePc, wasSuspended, pc>>
    /\ ClearFrame

\* The finally block, after the clear or after an error before it.
ResetEnd(s) ==
    /\ Resetting(s)
    /\ scopePc' = [scopePc EXCEPT ![s] = "idle"]
    /\ UNCHANGED <<api_jobs, rows, floor, suspended, sourceEpoch, scopeEpoch, cachePc, wasSuspended, pc, status>>
    /\ ClearFrame

-----------------------------------------------------------------------------
(* pause_for_account_clear, and the way back *)

DrainFrame == UNCHANGED <<sourceVars, writers, inflight, clearVars, rows, jobVars, historyVars>>

DrainBegin ==
    /\ drain = "open" /\ MaxDrain = 1
    /\ drain' = "closing"
    /\ UNCHANGED api_jobs /\ DrainFrame

DrainCancel ==
    /\ drain = "closing"
    /\ drain' = "waiting"
    /\ api_jobs' = {}
    /\ DrainFrame

\* wait_for_idle
NoWorkers == inflight = 0
NoRegistry == api_jobs = {}                                              \* mutant
Idle == NoWorkers

DrainIdle ==
    /\ drain = "waiting"
    /\ Idle
    /\ drain' = "idle"
    /\ UNCHANGED api_jobs /\ DrainFrame

\* Every HTTP request has returned, those inside start and clear included.
DrainDone ==
    /\ drain = "idle"
    /\ \A j \in Jobs : pc[j] \notin RequestPc
    /\ \A s \in Sources : ~Clearing(s) /\ ~Resetting(s)
    /\ drain' = "drained"
    /\ UNCHANGED api_jobs /\ DrainFrame

\* A wait of 200 s ran out: an error, and the bridge stays closing.
DrainFails ==
    /\ drain \in {"waiting", "idle"}
    /\ drain' = "failed"
    /\ UNCHANGED api_jobs /\ DrainFrame

\* resume_after_failed_account_clear
Reopen ==
    /\ drain = "drained"
    /\ drain' = "reopened"
    /\ api_jobs' = {}
    /\ DrainFrame

-----------------------------------------------------------------------------
Worker(j) ==
    \/ CheckIn(j) \/ MarkRunning(j) \/ Turn(j) \/ Answer(j) \/ Retry(j) \/ Resume(j)
    \/ Save(j) \/ Fail(j) \/ Unwrite(j) \/ Finish(j)

Decide(j) == Refuse(j) \/ Start(j) \/ StartDone(j) \/ StartFails(j)

ClearStep(s) ==
    \/ ClearSuspend(s) \/ ClearDrop(s) \/ ClearDelete(s) \/ ClearEnd(s) \/ ClearFails(s)

ResetStep(s) == ResetClear(s) \/ ResetEnd(s)

Next ==
    \/ \E j \in Jobs : Request(j) \/ Decide(j) \/ Worker(j)
    \/ ActivateLocal
    \/ \E s \in Sources :
          \/ ActivateApi(s)
          \/ ClearBegin(s) \/ ClearStep(s) \/ CacheResume(s)
          \/ ResetBegin(s) \/ ResetStep(s)
    \/ DrainBegin \/ DrainCancel \/ DrainIdle \/ DrainDone \/ DrainFails \/ Reopen

Spec == Init /\ [][Next]_vars

-----------------------------------------------------------------------------
(* Properties *)

Workers == {j \in Jobs : pc[j] \in WorkerPc}

\* The counter the drain waits on is the number of worker threads that have
\* not finished, dropped and cancelled ones included.
WorkersCounted == inflight = Cardinality(Workers)

\* A message's writer is a worker that is still going to look at it: no entry
\* outlives its worker, whichever way the worker ended, so no later job is
\* kept from saving by a dead one.
WritersAreLive ==
    \A s \in Sources, m \in Msgs :
        LET w == writers[s][m] IN
        w # NoJob => /\ pc[w] \in ActivePc \cup {"finally"}
                     /\ job[w].source = s /\ m \in job[w].pending

\* A saved result never comes from a request made before the last time the
\* results of its source and conversation were deleted: a late answer does
\* not bring cleared data back.
NoResultFromBeforeClear ==
    \A s \in Sources, m \in Msgs :
        LET w == rows[s][m] IN
        w # NoJob => /\ job[w].source = s
                     /\ job[w].epoch.source >= floor[s].source
                     /\ job[w].epoch.scope >= floor[s].scope

\* A result is replaced only by that of a job registered later: an old
\* background job that comes back late does not overwrite a recomputed message.
NewestResultWins ==
    [][\A s \in Sources, m \in Msgs :
         LET old == rows[s][m]  new == rows'[s][m] IN
         old # NoJob /\ new \notin {NoJob, old} => old \in older[new]]_vars

\* Once the drain has seen no workers there are none until the bridge is
\* reopened, although requests that read their window may still be around.
DrainedIsQuiet ==
    drain \in {"idle", "drained"} => Workers = {} /\ api_jobs = {}

\* A source is suspended only while one of its clears runs, whether that clear
\* succeeds or fails: analysis is never left switched off.
SuspendedOnlyWhileClearing == \A s \in suspended : Clearing(s)

\* A job that the registry shows as queued or running has a worker that will
\* still report its end.  Repeated() trusts that status: a job stuck at
\* "running" would answer every later background request of the conversation.
NoPhantomJob ==
    \A k \in api_jobs : status[k] \in {"queued", "running"} => pc[k] \in ActivePc

\* Whatever is switched, cleared, reset or drained under the workers, none of the
\* marks they leave outlives them: the counter, the writers, the registry entries
\* and the suspension; and a drain that has seen no worker closes the bridge for all
\* of them (backend_service.py 333-359, 1597-1650 and 2242-2325).
NothingLeftBehind ==
    /\ TypeOK /\ WorkersCounted /\ WritersAreLive /\ NoPhantomJob
    /\ SuspendedOnlyWhileClearing /\ DrainedIsQuiet

=============================================================================
