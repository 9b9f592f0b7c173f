----------------------------- MODULE ApiGuidance -----------------------------
(***************************************************************************)
(* Reply guidance (Backend.start_guidance and _run_guidance in             *)
(* src/bridge/backend_service.py), beside the insight jobs of ApiInsights, *)
(* for one account, one conversation and one subject.                      *)
(*                                                                         *)
(* A guidance job has a registry of its own with one job per key, and its  *)
(* counter is the insight jobs' counter: the code's inflight is the sum of *)
(* inflight and guidanceInflight here.  It meets the same switches, clears,*)
(* resets and drains, and one thing more: reply options are made with an   *)
(* assistant of the advisor's catalog, whose settings a user edits while a *)
(* job runs.  The stamp of the settings is part of the key of the job and  *)
(* of the saved row, and every check of the worker compares it again.      *)
(***************************************************************************)
EXTENDS ApiInsights

CONSTANTS
    Guidances,   \* the guidance requests ever made
    Plain,       \* the stamp of a request without an assistant
    ModelRetryMax, \* API_MODEL_RETRY_MAX
    MaxEdit      \* bound: edits of the assistant's settings

ASSUME GuidanceAssumption ==
    /\ IsFiniteSet(Guidances)
    /\ Plain \notin Nat
    /\ ModelRetryMax \in Nat /\ MaxEdit \in Nat

VARIABLES
    settings,           \* the stamp of the assistant's settings in the catalog
    guidance_jobs,      \* ApiTaskCoordinator.guidance_jobs: the jobs that are in it
    guidanceInflight,   \* the guidance workers' share of ApiTaskCoordinator.inflight
    guidancePc,         \* where each guidance request and then its worker stands
    guidance,           \* what the request captured
    guidanceStatus,     \* job["status"]
    guidanceAttempt,    \* the retries its worker has used
    saved,              \* api_guidance_v1: the jobs whose answers are saved
    before              \* history: the guidance jobs registered before it

guidanceVars == <<settings, guidance_jobs, guidanceInflight, guidancePc, guidance,
                  guidanceStatus, guidanceAttempt, saved, before>>
allVars == <<vars, guidanceVars>>

GuidanceActive == {"queued", "checked", "running", "turn", "retry"}
GuidanceWorker == GuidanceActive \cup {"finishing"}

Stamps == 0..MaxEdit
GuidanceRecord == [source : Sources, stamp : Stamps \cup {Plain},
                   revision : 0..MaxSwitch, epoch : Epochs]
NoGuidance == [source |-> CHOOSE s \in Sources : TRUE, stamp |-> Plain,
               revision |-> 0, epoch |-> [scope |-> 0, source |-> 0]]

GuidanceTypeOK ==
    /\ settings \in Stamps
    /\ guidance_jobs \in SUBSET Guidances
    /\ guidanceInflight \in Nat
    /\ guidancePc \in [Guidances -> {"unused", "reading", "refused", "gone"} \cup GuidanceWorker]
    /\ guidance \in [Guidances -> GuidanceRecord]
    /\ guidanceStatus \in [Guidances -> {"none", "queued", "running", "done", "error", "cancelled"}]
    /\ guidanceAttempt \in [Guidances -> 0..ModelRetryMax]
    /\ saved \in SUBSET Guidances
    /\ before \in [Guidances -> SUBSET Guidances]

GuidanceInit ==
    /\ settings = 0
    /\ guidance_jobs = {} /\ guidanceInflight = 0 /\ saved = {}
    /\ guidancePc = [g \in Guidances |-> "unused"]
    /\ guidance = [g \in Guidances |-> NoGuidance]
    /\ guidanceStatus = [g \in Guidances |-> "none"]
    /\ guidanceAttempt = [g \in Guidances |-> 0]
    /\ before = [g \in Guidances |-> {}]

-----------------------------------------------------------------------------
(* start_guidance *)

\* One job per account, conversation, source, subject and assistant settings;
\* guidance_scope, the key of the saved row, tells the same apart.
JobKey(g) == <<guidance[g].source, guidance[g].stamp>>

Unfinished(g) == guidanceStatus[g] \in {"queued", "running"}

\* The same key is being worked on: the caller gets that job, or an error when
\* it asked for something else.
Busy(source, stamp) ==
    \E h \in guidance_jobs : JobKey(h) = <<source, stamp>> /\ Unfinished(h)

\* The settings with which the job was asked for (assert_reply_settings).
SettingsIgnored(g) == TRUE                                               \* mutant
SettingsHold(g) == guidance[g].stamp \in {Plain, settings}

\* The first critical section; the window is read and the assistant compiled
\* (reply_settings) after it, without the lock.
Ask(g) ==
    /\ guidancePc[g] = "unused"
    /\ ~closing
    /\ active \in Sources \ suspended
    /\ ~Resetting(active)
    /\ \E stamp \in {Plain, settings} :
          /\ ~Busy(active, stamp)
          /\ guidance' = [guidance EXCEPT ![g] =
                            [source |-> active, stamp |-> stamp,
                             revision |-> revision, epoch |-> Epoch(active)]]
    /\ guidancePc' = [guidancePc EXCEPT ![g] = "reading"]
    /\ UNCHANGED <<settings, guidance_jobs, guidanceInflight, guidanceStatus,
                   guidanceAttempt, saved, before>>

\* Too few messages, a joined or busy key, changed settings, or an error.
Decline(g) ==
    /\ guidancePc[g] = "reading"
    /\ guidancePc' = [guidancePc EXCEPT ![g] = "refused"]
    /\ guidance' = [guidance EXCEPT ![g] = NoGuidance]
    /\ UNCHANGED <<settings, guidance_jobs, guidanceInflight, guidanceStatus,
                   guidanceAttempt, saved, before>>

\* What the second critical section requires.  It does not ask again whether
\* the source is suspended: the epoch and the worker's checks see a clear.
GuidanceEpochIgnored(g) == TRUE                                          \* mutant
GuidanceEpochCurrent(g) ==
    /\ ~Resetting(guidance[g].source)
    /\ guidance[g].epoch = Epoch(guidance[g].source)

\* The second critical section; the new job replaces the finished one of its key.
Launch(g) ==
    /\ guidancePc[g] = "reading"
    /\ ~closing
    /\ active = guidance[g].source /\ revision = guidance[g].revision
    /\ GuidanceEpochCurrent(g)
    /\ SettingsHold(g)
    /\ ~Busy(guidance[g].source, guidance[g].stamp)
    /\ guidance_jobs' = {h \in guidance_jobs : JobKey(h) # JobKey(g)} \cup {g}
    /\ before' = [before EXCEPT ![g] = {h \in Guidances : guidanceStatus[h] # "none"}]
    /\ guidanceInflight' = guidanceInflight + 1
    /\ guidancePc' = [guidancePc EXCEPT ![g] = "queued"]
    /\ guidanceStatus' = [guidanceStatus EXCEPT ![g] = "queued"]
    /\ UNCHANGED <<settings, guidance, guidanceAttempt, saved>>

\* Outside the lock the thread does not start: the count is taken back.
LaunchFails(g) ==
    /\ guidancePc[g] = "queued"
    /\ guidancePc' = [guidancePc EXCEPT ![g] = "gone"]
    /\ guidanceInflight' = guidanceInflight - 1
    /\ guidanceStatus' = [guidanceStatus EXCEPT ![g] = "error"]
    /\ UNCHANGED <<settings, guidance_jobs, guidance, guidanceAttempt, saved, before>>

-----------------------------------------------------------------------------
(* _run_guidance: the worker *)

\* _assert_api_job with the guidance registry ...
SameKey(g) ==                                                            \* mutant
    ~closing /\ active = guidance[g].source /\ guidance[g].source \notin suspended
StillRegistered(g) ==
    /\ ~closing
    /\ active = guidance[g].source
    /\ g \in guidance_jobs
    /\ guidance[g].source \notin suspended

\* ... and _assert_guidance_job, which compares the settings too.
Wanted(g) == StillRegistered(g) /\ SettingsHold(g)

GoOn(g, from, to) ==
    /\ guidancePc[g] = from
    /\ guidancePc' = [guidancePc EXCEPT ![g] = to]
    /\ UNCHANGED <<settings, guidance_jobs, guidance, before>>

Accept(g) ==
    /\ GoOn(g, "queued", "checked")
    /\ Wanted(g)
    /\ UNCHANGED <<guidanceInflight, guidanceStatus, guidanceAttempt, saved>>

\* A critical section of its own: neither the registry nor the settings again.
SetRunning(g) ==
    /\ GoOn(g, "checked", "running")
    /\ ~closing /\ active = guidance[g].source
    /\ guidanceStatus' = [guidanceStatus EXCEPT ![g] = "running"]
    /\ UNCHANGED <<guidanceInflight, guidanceAttempt, saved>>

\* The checks at the head of an attempt, and once more inside the lease.
Consult(g) ==
    /\ GoOn(g, "running", "turn")
    /\ Wanted(g)
    /\ UNCHANGED <<guidanceInflight, guidanceStatus, guidanceAttempt, saved>>

\* A retryable error: wait_api_model_retry looks at the registry, not at the
\* settings, which the next attempt compares.
Postpone(g) ==
    /\ GoOn(g, "turn", "retry")
    /\ guidanceAttempt[g] < ModelRetryMax
    /\ StillRegistered(g)
    /\ guidanceAttempt' = [guidanceAttempt EXCEPT ![g] = @ + 1]
    /\ UNCHANGED <<guidanceInflight, guidanceStatus, saved>>

TryAgain(g) ==
    /\ GoOn(g, "retry", "running")
    /\ StillRegistered(g)
    /\ UNCHANGED <<guidanceInflight, guidanceStatus, guidanceAttempt, saved>>

\* A valid answer came back: the last critical section takes the locks of the
\* source and of the catalog, checks everything again and replaces the row.
SaveGuidance(g) ==
    /\ GoOn(g, "turn", "finishing")
    /\ Wanted(g)
    /\ saved' = {h \in saved : JobKey(h) # JobKey(g)} \cup {g}
    /\ guidanceStatus' = [guidanceStatus EXCEPT ![g] = "done"]
    /\ UNCHANGED <<guidanceInflight, guidanceAttempt>>

Errs(g) ==
    /\ GoOn(g, guidancePc[g], "finishing")
    /\ guidanceStatus' = [guidanceStatus EXCEPT ![g] = "error"]
    /\ UNCHANGED <<guidanceInflight, guidanceAttempt, saved>>

CheckFails(g) == guidancePc[g] \in GuidanceActive \ {"turn"} /\ Errs(g)

\* The provider's error is final, or the answer is of another version, is not of the
\* form that was asked for or names messages that were not asked about.
AnswerRefused(g) == guidancePc[g] = "turn" /\ Errs(g)

GiveUp(g) == CheckFails(g) \/ AnswerRefused(g)

\* The finally block: ApiTaskCoordinator.finish.
Leave(g) ==
    /\ GoOn(g, "finishing", "gone")
    /\ guidanceInflight' = guidanceInflight - 1
    /\ guidanceAttempt' = [guidanceAttempt EXCEPT ![g] = 0]
    /\ UNCHANGED <<guidanceStatus, saved>>

GuidanceDecides(g) == Decline(g) \/ Launch(g)
GuidanceWorks(g) ==
    \/ LaunchFails(g) \/ Accept(g) \/ SetRunning(g) \/ Consult(g) \/ Postpone(g) \/ TryAgain(g)
    \/ SaveGuidance(g) \/ GiveUp(g) \/ Leave(g)

\* An edit of the assistant or of one of its skills, a disabling or a deletion:
\* nothing in the bridge is told.
EditSettings ==
    /\ settings < MaxEdit
    /\ settings' = settings + 1
    /\ UNCHANGED <<guidance_jobs, guidanceInflight, guidancePc, guidance,
                   guidanceStatus, guidanceAttempt, saved, before>>

-----------------------------------------------------------------------------
(* What a switch, a clear, a reset and the drain do to guidance jobs *)

OthersUnchanged == UNCHANGED <<settings, guidanceInflight, guidancePc, guidance,
                               guidanceAttempt, before>>

\* _cancel_api_source_work_locked: invalidate_models clears both registries.
ForgetAll == guidance_jobs' = {}
KeepAll == UNCHANGED guidance_jobs

SwitchWith(s, cancel) ==
    /\ Activate(s, cancel)
    /\ IF cancel THEN ForgetAll ELSE KeepAll
    /\ UNCHANGED <<guidanceStatus, saved>> /\ OthersUnchanged

Switch ==
    \/ SwitchWith(Local, active # Local)
    \/ \E s \in Sources, changed \in BOOLEAN : (s # active => changed) /\ SwitchWith(s, changed)

FromSource(s) == {g \in Guidances : guidance[g].source = s}

\* invalidate_source
DropWithSource(s) ==
    /\ ClearDrop(s)
    /\ guidance_jobs' = guidance_jobs \ FromSource(s)
    /\ UNCHANGED <<guidanceStatus, saved>> /\ OthersUnchanged

\* clear_analysis_cache
DeleteWithSource(s) ==
    /\ ClearDelete(s)
    /\ saved' = saved \ FromSource(s)
    /\ UNCHANGED <<guidance_jobs, guidanceStatus>> /\ OthersUnchanged

\* analysis_scope_clear and clear_scope
ResetWithSource(s) ==
    /\ ResetClear(s)
    /\ guidanceStatus' = [g \in Guidances |-> IF g \in guidance_jobs \cap FromSource(s)
                                              THEN "cancelled" ELSE guidanceStatus[g]]
    /\ guidance_jobs' = guidance_jobs \ FromSource(s)
    /\ saved' = saved \ FromSource(s)
    /\ OthersUnchanged

DrainForgets ==
    /\ DrainCancel
    /\ ForgetAll
    /\ UNCHANGED <<guidanceStatus, saved>> /\ OthersUnchanged

\* wait_for_idle waits for the workers of both kinds, the last wait for the
\* requests of both kinds.
AnyIdle == TRUE                                                          \* mutant
GuidanceIdle == guidanceInflight = 0
NoGuidanceRequest == \A g \in Guidances : guidancePc[g] # "reading"

Alone(action) == action /\ UNCHANGED guidanceVars

ClearAlone(s) == ClearSuspend(s) \/ ClearEnd(s) \/ ClearFails(s)

ClearsBoth(s) == Alone(ClearAlone(s)) \/ DropWithSource(s) \/ DeleteWithSource(s)
ResetsBoth(s) == ResetWithSource(s) \/ Alone(ResetEnd(s))
SeesIdle == Alone(DrainIdle) /\ GuidanceIdle
SeesRequestsReturned == Alone(DrainDone) /\ NoGuidanceRequest

GuidanceInitial == Init /\ GuidanceInit

GuidanceNext ==
    \/ \E g \in Guidances : (Ask(g) \/ GuidanceDecides(g) \/ GuidanceWorks(g)) /\ UNCHANGED vars
    \/ EditSettings /\ UNCHANGED vars
    \/ \E j \in Jobs : Alone(Request(j)) \/ Alone(Decide(j)) \/ Alone(Worker(j))
    \/ Switch
    \/ \E s \in Sources :
          \/ Alone(ClearBegin(s)) \/ ClearsBoth(s) \/ Alone(CacheResume(s))
          \/ Alone(ResetBegin(s)) \/ ResetsBoth(s)
    \/ Alone(DrainBegin) \/ DrainForgets \/ SeesIdle \/ SeesRequestsReturned
    \/ Alone(DrainFails) \/ Alone(Reopen)

GuidanceSpec == GuidanceInitial /\ [][GuidanceNext]_allVars

\* A thread that can move does: a provider turn ends within the request timeout of
\* the analyzer, a retry wait within its delay, a request and a clear run to their
\* end (a request and its worker are never enabled together: one condition serves
\* both).  Nothing makes a caller ask, switch, clear or edit, and no wait of the
\* drain has to time out.
GuidanceFairness ==
    /\ \A j \in Jobs : WF_allVars(Alone(Decide(j) \/ Worker(j)))
    /\ \A g \in Guidances : WF_allVars((GuidanceDecides(g) \/ GuidanceWorks(g)) /\ UNCHANGED vars)
    /\ \A s \in Sources : WF_allVars(ClearsBoth(s)) /\ WF_allVars(ResetsBoth(s))
    /\ WF_allVars(DrainForgets) /\ WF_allVars(SeesIdle) /\ WF_allVars(SeesRequestsReturned)

GuidanceFairSpec == GuidanceSpec /\ GuidanceFairness

-----------------------------------------------------------------------------
(* Properties *)

GuidanceWorkers == {g \in Guidances : guidancePc[g] \in GuidanceWorker}

\* No saved guidance comes from a request made before the rows of its source
\* and conversation were last deleted.
NoGuidanceFromBeforeClear ==
    \A g \in saved :
        /\ guidance[g].epoch.source >= floor[guidance[g].source].source
        /\ guidance[g].epoch.scope >= floor[guidance[g].source].scope

\* A saved answer is replaced only by that of a job registered later: the worker of
\* a job that a switch dropped does not come back over its successor.  And a reply is
\* never saved once the settings it was asked with have changed (start_guidance
\* 1360-1383, _run_guidance_bound 1466-1482).
GuidanceInOrder ==
    [][/\ \A g \in saved' \ saved : guidance[g].stamp \in {Plain, settings}
       /\ \A g \in saved' \ saved, h \in saved \ saved' :
             JobKey(h) = JobKey(g) => h \in before[g]]_allVars

\* The share of the counter is exact, a job shown as unfinished has a worker,
\* and when the drain has seen nobody there is nobody.
GuidanceLeavesNothing ==
    /\ GuidanceTypeOK
    /\ guidanceInflight = Cardinality(GuidanceWorkers)
    /\ \A g \in guidance_jobs : Unfinished(g) => guidancePc[g] \in GuidanceActive
    /\ drain \in {"idle", "drained"} => GuidanceWorkers = {} /\ guidance_jobs = {}

\* Late answers of neither kind bring back what a clear or a reset deleted
\* (start_model_insights 1548-1557, start_guidance 1360-1366, _assert_api_job).
NothingFromBeforeClear == NoResultFromBeforeClear /\ NoGuidanceFromBeforeClear

\* Workers of neither kind leave a counter, a writer, a registry entry or a
\* suspension behind, and a drain that has seen no worker is a drain of both
\* (pause_for_account_clear 342-347, _run_guidance 1404-1414, 1637-1650).
NothingLeftByEither == NothingLeftBehind /\ GuidanceLeavesNothing

\* Every worker ends, whatever is switched, cleared, edited or closed under it
\* (a request makes one job and there are finitely many, so a worker that never
\* ended would leave the bridge busy for ever), and the drain sees the end of
\* them all without its timeout (_run_guidance 1404-1416, _run_model_insights
\* 1637-1650, pause_for_account_clear 342-347).
WorkersOfBothSettle ==
    /\ []<>(Workers = {} /\ GuidanceWorkers = {})
    /\ (drain = "waiting") ~> (drain # "waiting")

=============================================================================
