-------------------------- MODULE ApiInsightsProofs --------------------------
(***************************************************************************)
(* Proofs about ApiInsights and about its composition with ApiGuidance,    *)
(* for any finite sets of requests of both kinds and any sets of messages  *)
(* and model sources, any number of retries, switches, clears, resets and  *)
(* edits.  First the insight jobs; at the end, the composition, which is   *)
(* an ApiInsights to them: what is proved of them holds beside guidance    *)
(* too, and late guidance is dropped.                                      *)
(***************************************************************************)
EXTENDS ApiGuidance, FiniteSetTheorems, TLAPS

Statuses == {"none", "queued", "running", "done", "error", "cancelled"}

-----------------------------------------------------------------------------
(* Types *)

\* The counter is left to the lemma that counts workers.
Typed ==
    /\ active \in Sources \cup {Local}
    /\ revision \in 0..MaxSwitch
    /\ api_jobs \in SUBSET Jobs
    /\ writers \in [Sources -> [Msgs -> Jobs \cup {NoJob}]]
    /\ suspended \in SUBSET Sources
    /\ sourceEpoch \in [Sources -> 0..MaxClear]
    /\ scopeEpoch \in [Sources -> 0..MaxReset]
    /\ cachePc \in [Sources -> {"idle", "bumped", "suspended", "dropped", "deleted"}]
    /\ wasSuspended \in [Sources -> BOOLEAN]
    /\ scopePc \in [Sources -> {"idle", "marked", "cleared"}]
    /\ drain \in {"open", "closing", "waiting", "idle", "drained", "failed", "reopened"}
    /\ rows \in [Sources -> [Msgs -> Jobs \cup {NoJob}]]
    /\ pc \in [Jobs -> JobPc]
    /\ job \in [Jobs -> JobRecord]
    /\ status \in [Jobs -> Statuses]
    /\ attempt \in [Jobs -> 0..RetryMax]
    /\ older \in [Jobs -> SUBSET Jobs]
    /\ floor \in [Sources -> Epochs]

LEMMA AssignTyped ==
    ASSUME Typed, NEW s \in Sources, NEW ms \in SUBSET Msgs, NEW w \in Jobs \cup {NoJob}
    PROVE  Assign(s, ms, w) \in [Sources -> [Msgs -> Jobs \cup {NoJob}]]
BY DEF Typed, Assign

LEMMA TypedInit == Init => Typed
<1> SUFFICES ASSUME Init  PROVE Typed
    OBVIOUS
<1> USE InsightsAssumption DEF Init
<1>1. NoRecord \in JobRecord
    <2>1. (CHOOSE s \in Sources : TRUE) \in Sources  OBVIOUS
    <2>2. 0 \in 0..MaxReset /\ 0 \in 0..MaxClear /\ 0 \in 0..MaxSwitch  OBVIOUS
    <2> QED  BY <2>1, <2>2 DEF NoRecord, JobRecord, Epochs
<1>2. 0 \in 0..MaxReset /\ 0 \in 0..MaxClear /\ 0 \in 0..MaxSwitch /\ 0 \in 0..RetryMax
    OBVIOUS
<1>3. /\ sourceEpoch \in [Sources -> 0..MaxClear] /\ scopeEpoch \in [Sources -> 0..MaxReset]
      /\ floor \in [Sources -> Epochs] /\ attempt \in [Jobs -> 0..RetryMax]
    BY <1>2 DEF Epochs
<1>4. /\ pc \in [Jobs -> JobPc] /\ status \in [Jobs -> Statuses] /\ job \in [Jobs -> JobRecord]
      /\ older \in [Jobs -> SUBSET Jobs]
    BY <1>1 DEF JobPc, Statuses
<1> QED  BY <1>2, <1>3, <1>4 DEF Typed

LEMMA TypedWorker ==
    ASSUME Typed, NEW j \in Jobs, Worker(j)
    PROVE  Typed'
<1> USE InsightsAssumption
<1>1. UNCHANGED <<sourceVars, clearVars, drain, job, historyVars>>
    BY DEF Worker, WorkerFrame, CheckIn, MarkRunning, Turn, Answer, Retry, Resume, Save, Fail,
           Unwrite, Finish
<1>2. api_jobs' = api_jobs
    BY DEF Worker, registryVars, CheckIn, MarkRunning, Turn, Answer, Retry, Resume, Save, Fail,
           Unwrite, Finish
<1>3. pc' \in [Jobs -> JobPc]
    BY DEF Typed, JobPc, WorkerPc, ActivePc, Worker, Move, CheckIn, MarkRunning, Turn, Answer,
           Retry, Resume, Save, Fail, Unwrite, Finish
<1>4. status' \in [Jobs -> Statuses]
    BY DEF Typed, Statuses, Worker, CheckIn, MarkRunning, Turn, Answer, Retry, Resume, Save, Fail,
           Failed, Unwrite, Finish
<1>5. attempt' \in [Jobs -> 0..RetryMax]
    <2>1. CASE Retry(j)
        BY <2>1 DEF Typed, Retry, MayRetry, NextAttempt
    <2>2. CASE Finish(j)
        <3>1. 0 \in 0..RetryMax  OBVIOUS
        <3> QED  BY <2>2, <3>1 DEF Typed, Finish
    <2>3. CASE ~Retry(j) /\ ~Finish(j)
        BY <2>3 DEF Typed, Worker, CheckIn, MarkRunning, Turn, Answer, Resume, Save, Fail, Unwrite
    <2> QED  BY <2>1, <2>2, <2>3
<1>6. rows' \in [Sources -> [Msgs -> Jobs \cup {NoJob}]]
    <2>1. CASE Save(j)
        BY <2>1 DEF Typed, Save
    <2>2. CASE ~Save(j)
        BY <2>2 DEF Typed, Worker, CheckIn, MarkRunning, Turn, Answer, Retry, Resume, Fail,
                    Unwrite, Finish
    <2> QED  BY <2>1, <2>2
<1>7. writers' \in [Sources -> [Msgs -> Jobs \cup {NoJob}]]
    <2>1. CASE Unwrite(j)
        <3>1. Mine(j) \in SUBSET Msgs /\ job[j].source \in Sources
            BY DEF Typed, Mine, JobRecord
        <3> QED  BY <2>1, <3>1, AssignTyped DEF Unwrite, DropWriters
    <2>2. CASE ~Unwrite(j)
        BY <2>2 DEF Typed, Worker, registryVars, CheckIn, MarkRunning, Turn, Answer, Retry,
                    Resume, Save, Fail, Finish
    <2> QED  BY <2>1, <2>2
<1> QED
    BY <1>1, <1>2, <1>3, <1>4, <1>5, <1>6, <1>7
    DEF Typed, sourceVars, clearVars, historyVars

LEMMA TypedRequest ==
    ASSUME Typed, NEW j \in Jobs, Request(j) \/ Decide(j)
    PROVE  Typed'
<1> USE InsightsAssumption
<1>1. CASE Request(j)
    <2>1. PICK f \in BOOLEAN, sel \in SUBSET Msgs :
            job' = [job EXCEPT ![j] = [source |-> active, force |-> f, selected |-> sel,
                                       pending |-> {}, revision |-> revision, epoch |-> Epoch(active)]]
        BY <1>1 DEF Request
    <2>2. active \in Sources  BY <1>1 DEF Request
    <2>3. Epoch(active) \in Epochs  BY <2>2 DEF Typed, Epoch, Epochs
    <2>4. job' \in [Jobs -> JobRecord]  BY <2>1, <2>2, <2>3 DEF Typed, JobRecord
    <2>5. pc' \in [Jobs -> JobPc]  BY <1>1 DEF Typed, Request, JobPc, RequestPc
    <2> QED
        BY <1>1, <2>4, <2>5 DEF Request, Typed, sourceVars, registryVars, clearVars, historyVars
<1>2. CASE Refuse(j)
    <2>1. NoRecord \in JobRecord
        <3>1. (CHOOSE s \in Sources : TRUE) \in Sources  OBVIOUS
        <3>2. 0 \in 0..MaxReset /\ 0 \in 0..MaxClear /\ 0 \in 0..MaxSwitch  OBVIOUS
        <3> QED  BY <3>1, <3>2 DEF NoRecord, JobRecord, Epochs
    <2>2. job' \in [Jobs -> JobRecord] /\ pc' \in [Jobs -> JobPc]
        BY <1>2, <2>1 DEF Refuse, Typed, JobPc
    <2> QED
        BY <1>2, <2>2 DEF Refuse, Typed, sourceVars, registryVars, clearVars, historyVars
<1>3. ASSUME Enroll(j)
      PROVE  /\ UNCHANGED <<sourceVars, clearVars, drain, rows, attempt, floor>>
             /\ api_jobs' \in SUBSET Jobs /\ Pending(j) \in SUBSET Msgs
             /\ job' \in [Jobs -> JobRecord] /\ older' \in [Jobs -> SUBSET Jobs]
    <2>1. Pending(j) \in SUBSET Msgs
        BY DEF Typed, Pending, JobRecord
    <2>2. job' \in [Jobs -> JobRecord]
        <3>1. job' = [job EXCEPT ![j] = [job[j] EXCEPT !.pending = Pending(j)]]
            BY <1>3 DEF Enroll
        <3>2. job[j] \in JobRecord  BY DEF Typed
        <3>3. [job[j] EXCEPT !.pending = Pending(j)] \in JobRecord
            BY <3>2, <2>1 DEF JobRecord
        <3> QED  BY <3>1, <3>3 DEF Typed
    <2> QED  BY <1>3, <2>1, <2>2 DEF Enroll, Typed, Registered, Background
<1>4. CASE Start(j)
    <2>1. pc' \in [Jobs -> JobPc] /\ status' \in [Jobs -> Statuses]
        BY <1>4 DEF Start, Typed, JobPc, WorkerPc, ActivePc, Statuses
    <2>2. writers' \in [Sources -> [Msgs -> Jobs \cup {NoJob}]]
        <3>1. job[j].source \in Sources  BY DEF Typed, JobRecord
        <3> QED  BY <1>3, <1>4, <3>1, AssignTyped DEF Start, TakeWriters
    <2> QED  BY <1>3, <1>4, <2>1, <2>2 DEF Start, Typed, sourceVars, clearVars
<1>5. CASE StartDone(j)
    <2>1. pc' \in [Jobs -> JobPc] /\ status' \in [Jobs -> Statuses]
        BY <1>5 DEF StartDone, Typed, JobPc, Statuses
    <2> QED  BY <1>3, <1>5, <2>1 DEF StartDone, Typed, sourceVars, clearVars
<1>6. CASE StartFails(j)
    <2>1. pc' \in [Jobs -> JobPc] /\ status' \in [Jobs -> Statuses]
        BY <1>6 DEF StartFails, Typed, JobPc, Statuses
    <2>2. writers' \in [Sources -> [Msgs -> Jobs \cup {NoJob}]]
        <3>1. job[j].source \in Sources  BY DEF Typed, JobRecord
        <3> QED  BY <1>3, <1>6, <3>1, AssignTyped DEF StartFails
    <2> QED  BY <1>3, <1>6, <2>1, <2>2 DEF StartFails, Typed, sourceVars, clearVars
<1> QED  BY <1>1, <1>2, <1>4, <1>5, <1>6 DEF Decide

\* The steps of an owner: a switch, a clear, a reset, the drain.
Clear(s) == ClearBegin(s) \/ ClearStep(s) \/ CacheResume(s)
Reset(s) == ResetBegin(s) \/ ResetStep(s)
Drain == DrainBegin \/ DrainCancel \/ DrainIdle \/ DrainDone \/ DrainFails \/ Reopen

LEMMA TypedSwitch ==
    ASSUME Typed, NEW s \in Sources \cup {Local}, NEW b \in BOOLEAN, Activate(s, b)
    PROVE  Typed'
BY InsightsAssumption DEF Activate, Typed, clearVars, jobVars, historyVars

LEMMA TypedClear ==
    ASSUME Typed, NEW s \in Sources, Clear(s)
    PROVE  Typed'
<1> USE InsightsAssumption
<1>1. UNCHANGED <<sourceVars, writers, drain, job, attempt, older, scopeEpoch, scopePc, pc, status>>
    BY DEF Clear, ClearStep, ClearFrame, ClearBegin, ClearSuspend, ClearDrop, ClearDelete, ClearEnd,
           ClearFails, CacheResume
<1>2. cachePc' \in [Sources -> {"idle", "bumped", "suspended", "dropped", "deleted"}]
    BY DEF Typed, Clear, ClearStep, ClearBegin, ClearSuspend, ClearDrop, ClearDelete, ClearEnd,
           ClearFails, CacheResume
<1>3. sourceEpoch' \in [Sources -> 0..MaxClear]
    BY DEF Typed, Clear, ClearStep, ClearBegin, ClearSuspend, ClearDrop, ClearDelete, ClearEnd,
           ClearFails, CacheResume
<1>4. suspended' \in SUBSET Sources /\ api_jobs' \in SUBSET Jobs
    BY DEF Typed, Clear, ClearStep, ClearBegin, ClearSuspend, ClearDrop, ClearDelete, ClearEnd,
           ClearFails, CacheResume, SuspendedAfterFailure, WithoutSource
<1>5. wasSuspended' \in [Sources -> BOOLEAN]
    <2>1. \/ wasSuspended' = wasSuspended
          \/ wasSuspended' = [wasSuspended EXCEPT ![s] = s \in suspended]
          \/ wasSuspended' = [wasSuspended EXCEPT ![s] = FALSE]
        BY DEF Clear, ClearStep, ClearBegin, ClearSuspend, ClearDrop, ClearDelete, ClearEnd,
               ClearFails, CacheResume
    <2>2. (s \in suspended) \in BOOLEAN /\ FALSE \in BOOLEAN  OBVIOUS
    <2>3. CASE wasSuspended' = wasSuspended
        BY <2>3 DEF Typed
    <2>4. CASE wasSuspended' = [wasSuspended EXCEPT ![s] = s \in suspended]
        BY <2>2, <2>4 DEF Typed
    <2>5. CASE wasSuspended' = [wasSuspended EXCEPT ![s] = FALSE]
        BY <2>2, <2>5 DEF Typed
    <2> QED  BY <2>1, <2>3, <2>4, <2>5
<1>6. rows' \in [Sources -> [Msgs -> Jobs \cup {NoJob}]]
    <2>1. \/ rows' = rows
          \/ rows' = [rows EXCEPT ![s] = [m \in Msgs |-> NoJob]]
        BY DEF Clear, ClearStep, ClearBegin, ClearSuspend, ClearDrop, ClearDelete, ClearEnd,
               ClearFails, CacheResume
    <2>2. [m \in Msgs |-> NoJob] \in [Msgs -> Jobs \cup {NoJob}]  OBVIOUS
    <2> QED  BY <2>1, <2>2 DEF Typed
<1>7. floor' \in [Sources -> Epochs]
    <2>1. \/ floor' = floor
          \/ floor' = [floor EXCEPT ![s] = [floor[s] EXCEPT !.source = sourceEpoch[s]]]
        BY DEF Clear, ClearStep, ClearBegin, ClearSuspend, ClearDrop, ClearDelete, ClearEnd,
               ClearFails, CacheResume
    <2>2. floor[s] \in Epochs /\ sourceEpoch[s] \in 0..MaxClear  BY DEF Typed
    <2>3. [floor[s] EXCEPT !.source = sourceEpoch[s]] \in Epochs  BY <2>2 DEF Epochs
    <2> QED  BY <2>1, <2>3 DEF Typed
<1> QED
    BY <1>1, <1>2, <1>3, <1>4, <1>5, <1>6, <1>7 DEF Typed, sourceVars

LEMMA TypedReset ==
    ASSUME Typed, NEW s \in Sources, Reset(s)
    PROVE  Typed'
<1> USE InsightsAssumption
<1>1. UNCHANGED <<sourceVars, writers, drain, job, attempt, older, suspended, sourceEpoch, cachePc,
                  wasSuspended, pc>>
    BY DEF Reset, ResetStep, ClearFrame, ResetBegin, ResetClear, ResetEnd
<1>2. scopePc' \in [Sources -> {"idle", "marked", "cleared"}]
    BY DEF Typed, Reset, ResetStep, ResetBegin, ResetClear, ResetEnd
<1>5. scopeEpoch' \in [Sources -> 0..MaxReset]
    BY DEF Typed, Reset, ResetStep, ResetBegin, ResetClear, ResetEnd
<1>3. api_jobs' \in SUBSET Jobs /\ status' \in [Jobs -> Statuses]
    BY DEF Typed, Statuses, Reset, ResetStep, ResetBegin, ResetClear, ResetEnd, WithoutSource
<1>4. rows' \in [Sources -> [Msgs -> Jobs \cup {NoJob}]]
    <2>1. \/ rows' = rows
          \/ rows' = [rows EXCEPT ![s] = [m \in Msgs |-> NoJob]]
        BY DEF Reset, ResetStep, ResetBegin, ResetClear, ResetEnd
    <2>2. [m \in Msgs |-> NoJob] \in [Msgs -> Jobs \cup {NoJob}]  OBVIOUS
    <2> QED  BY <2>1, <2>2 DEF Typed
<1>6. floor' \in [Sources -> Epochs]
    <2>1. \/ floor' = floor
          \/ floor' = [floor EXCEPT ![s] = [floor[s] EXCEPT !.scope = scopeEpoch[s]]]
        BY DEF Reset, ResetStep, ResetBegin, ResetClear, ResetEnd
    <2>2. floor[s] \in Epochs /\ scopeEpoch[s] \in 0..MaxReset  BY DEF Typed
    <2>3. [floor[s] EXCEPT !.scope = scopeEpoch[s]] \in Epochs  BY <2>2 DEF Epochs
    <2> QED  BY <2>1, <2>3 DEF Typed
<1> QED  BY <1>1, <1>2, <1>3, <1>4, <1>5, <1>6 DEF Typed, sourceVars

LEMMA TypedDrain ==
    ASSUME Typed, Drain
    PROVE  Typed'
BY DEF Typed, Drain, DrainBegin, DrainCancel, DrainIdle, DrainDone, DrainFails, Reopen, DrainFrame,
       sourceVars, clearVars, jobVars, historyVars

\* What Next is, for the proofs: a step of one of these actors.
LEMMA NextCases ==
    ASSUME [Next]_vars
    PROVE  \/ \E j \in Jobs : Request(j) \/ Decide(j)
           \/ \E j \in Jobs : Worker(j)
           \/ \E s \in Sources \cup {Local}, b \in BOOLEAN : Activate(s, b)
           \/ \E s \in Sources : Clear(s)
           \/ \E s \in Sources : Reset(s)
           \/ Drain
           \/ UNCHANGED vars
<1>1. ASSUME ActivateLocal
      PROVE  \E s \in Sources \cup {Local}, b \in BOOLEAN : Activate(s, b)
    BY <1>1 DEF ActivateLocal
<1>2. ASSUME NEW t \in Sources, ActivateApi(t)
      PROVE  \E s \in Sources \cup {Local}, b \in BOOLEAN : Activate(s, b)
    BY <1>2 DEF ActivateApi
<1> QED  BY <1>1, <1>2 DEF Next, Clear, Reset, Drain

LEMMA TypedNext == Typed /\ [Next]_vars => Typed'
<1> SUFFICES ASSUME Typed, [Next]_vars  PROVE Typed'
    OBVIOUS
<1>1. CASE UNCHANGED vars
    BY <1>1 DEF vars, Typed, sourceVars, registryVars, clearVars, jobVars, historyVars
<1> QED
    BY <1>1, NextCases, TypedRequest, TypedWorker, TypedSwitch, TypedClear, TypedReset, TypedDrain

THEOREM TypedInvariant == Spec => []Typed
BY TypedInit, TypedNext, PTL DEF Spec

-----------------------------------------------------------------------------
(* What a step of an owner leaves alone *)

LEMMA SwitchFrame ==
    ASSUME NEW s \in Sources \cup {Local}, NEW b \in BOOLEAN, Activate(s, b)
    PROVE  /\ UNCHANGED <<writers, inflight, clearVars, drain, rows, jobVars, historyVars>>
           /\ api_jobs' \subseteq api_jobs
BY DEF Activate

LEMMA ClearingFrame ==
    ASSUME NEW s \in Sources, Clear(s)
    PROVE  /\ UNCHANGED <<sourceVars, writers, inflight, drain, job, attempt, older, scopeEpoch,
                          scopePc, pc, status>>
           /\ api_jobs' \subseteq api_jobs
BY DEF Clear, ClearStep, ClearFrame, ClearBegin, ClearSuspend, ClearDrop, ClearDelete, ClearEnd,
       ClearFails, CacheResume, WithoutSource

LEMMA ResetFrame ==
    ASSUME NEW s \in Sources, Reset(s)
    PROVE  /\ UNCHANGED <<sourceVars, writers, inflight, drain, job, attempt, older, suspended,
                          sourceEpoch, cachePc, wasSuspended, pc>>
           /\ api_jobs' \subseteq api_jobs
BY DEF Reset, ResetStep, ClearFrame, ResetBegin, ResetClear, ResetEnd, WithoutSource

LEMMA DrainingFrame ==
    ASSUME Drain
    PROVE  /\ UNCHANGED <<sourceVars, writers, inflight, clearVars, rows, jobVars, historyVars>>
           /\ api_jobs' \subseteq api_jobs
BY DEF Drain, DrainBegin, DrainCancel, DrainIdle, DrainDone, DrainFails, Reopen, DrainFrame

\* Only a save adds results: a clear and a reset remove all of their source.
LEMMA RowsOnlyCleared ==
    ASSUME Typed, NEW s \in Sources, Clear(s) \/ Reset(s)
    PROVE  \/ rows' = rows
           \/ rows' = [rows EXCEPT ![s] = [m \in Msgs |-> NoJob]]
BY DEF Clear, ClearStep, ClearBegin, ClearSuspend, ClearDrop, ClearDelete, ClearEnd, ClearFails,
       CacheResume, Reset, ResetStep, ResetBegin, ResetClear, ResetEnd

LEMMA WorkerKeeps ==
    ASSUME NEW j \in Jobs, Worker(j)
    PROVE  UNCHANGED <<sourceVars, clearVars, drain, job, historyVars, api_jobs>>
BY DEF Worker, WorkerFrame, registryVars, CheckIn, MarkRunning, Turn, Answer, Retry, Resume, Save,
       Fail, Unwrite, Finish

-----------------------------------------------------------------------------
(* The counter the drain waits on *)

LEMMA WorkersFinite == IsFiniteSet(Workers)
BY InsightsAssumption, FS_Subset DEF Workers

\* Every step enters, leaves or keeps the set of workers, and the counter says so.
LEMMA WorkersMove ==
    ASSUME Typed, [Next]_vars
    PROVE  \/ Workers' = Workers /\ inflight' = inflight
           \/ \E j \in Jobs \ Workers : Workers' = Workers \cup {j} /\ inflight' = inflight + 1
           \/ \E j \in Workers : Workers' = Workers \ {j} /\ inflight' = inflight - 1
<1>1. CASE UNCHANGED vars
    BY <1>1 DEF vars, registryVars, jobVars, Workers
<1>2. ASSUME NEW j \in Jobs, Request(j) \/ Refuse(j) \/ StartDone(j) \/ StartFails(j)
      PROVE  Workers' = Workers /\ inflight' = inflight
    <2>1. \E v \in {"reading", "refused", "gone"} : pc' = [pc EXCEPT ![j] = v]
        BY <1>2 DEF Request, Refuse, StartDone, StartFails
    <2>2. pc[j] \in {"unused", "reading"}
        BY <1>2 DEF Request, Refuse, StartDone, StartFails, Enroll
    <2>3. inflight' = inflight
        BY <1>2 DEF Request, Refuse, StartDone, StartFails, registryVars
    <2> QED  BY <2>1, <2>2, <2>3 DEF Typed, Workers, WorkerPc, ActivePc
<1>3. ASSUME NEW j \in Jobs, Start(j)
      PROVE  j \notin Workers /\ Workers' = Workers \cup {j} /\ inflight' = inflight + 1
    BY <1>3 DEF Start, Enroll, Typed, Workers, WorkerPc, ActivePc
<1>4. ASSUME NEW j \in Jobs, Finish(j)
      PROVE  j \in Workers /\ Workers' = Workers \ {j} /\ inflight' = inflight - 1
    BY <1>4 DEF Finish, FinishedCount, Move, Typed, Workers, WorkerPc, ActivePc
<1>5. ASSUME NEW j \in Jobs, Worker(j), ~Finish(j)
      PROVE  Workers' = Workers /\ inflight' = inflight
    <2>1. inflight' = inflight
        BY <1>5 DEF Worker, registryVars, CheckIn, MarkRunning, Turn, Answer, Retry, Resume, Save,
                    Fail, Unwrite
    <2>2. pc[j] \in WorkerPc /\ \E v \in WorkerPc : pc' = [pc EXCEPT ![j] = v]
        BY <1>5 DEF Worker, Move, CheckIn, MarkRunning, Turn, Answer, Retry, Resume, Save,
                    Fail, Unwrite, WorkerPc, ActivePc
    <2> QED  BY <2>1, <2>2 DEF Typed, Workers
<1>6. CASE \/ \E s \in Sources \cup {Local}, b \in BOOLEAN : Activate(s, b)
           \/ \E s \in Sources : Clear(s)
           \/ \E s \in Sources : Reset(s)
           \/ Drain
    <2>1. UNCHANGED <<inflight, pc>>
        BY <1>6, SwitchFrame, ClearingFrame, ResetFrame, DrainingFrame DEF jobVars
    <2> QED  BY <2>1 DEF Workers
<1> QED  BY <1>1, <1>2, <1>3, <1>4, <1>5, <1>6, NextCases DEF Decide

LEMMA CountedInit == Init => WorkersCounted
<1> SUFFICES ASSUME Init  PROVE WorkersCounted
    OBVIOUS
<1>1. Workers = {}  BY DEF Init, Workers, WorkerPc, ActivePc
<1> QED  BY <1>1, FS_EmptySet DEF Init, WorkersCounted

LEMMA CountedNext == Typed /\ WorkersCounted /\ [Next]_vars => WorkersCounted'
<1> SUFFICES ASSUME Typed, WorkersCounted, [Next]_vars  PROVE inflight' = Cardinality(Workers')
    BY DEF WorkersCounted
<1>1. inflight = Cardinality(Workers) /\ Cardinality(Workers) \in Nat
    BY WorkersFinite, FS_CardinalityType DEF WorkersCounted
<1>2. ASSUME NEW j \in Jobs \ Workers, Workers' = Workers \cup {j}, inflight' = inflight + 1
      PROVE  inflight' = Cardinality(Workers')
    BY <1>1, <1>2, WorkersFinite, FS_AddElement
<1>3. ASSUME NEW j \in Workers, Workers' = Workers \ {j}, inflight' = inflight - 1
      PROVE  inflight' = Cardinality(Workers')
    BY <1>1, <1>3, WorkersFinite, FS_RemoveElement
<1> QED  BY <1>1, <1>2, <1>3, WorkersMove

\* The counter the drain waits on is the number of live workers, whatever was
\* dropped, cancelled or suspended (ApiTaskCoordinator.inflight).
THEOREM CounterIsExact == Spec => []WorkersCounted
BY TypedInit, TypedNext, CountedInit, CountedNext, PTL DEF Spec

\* The types of every variable, the counter's included: it never goes below 0.
THEOREM TypeCorrect == Spec => []TypeOK
<1>1. Typed /\ WorkersCounted => TypeOK
    BY WorkersFinite, FS_CardinalityType DEF Typed, TypeOK, WorkersCounted, Statuses
<1> QED  BY <1>1, TypedInvariant, CounterIsExact, PTL

-----------------------------------------------------------------------------
(* Writers, and the jobs the registry shows as going on *)

LEMMA LiveInit == Init => WritersAreLive /\ NoPhantomJob
BY DEF Init, WritersAreLive, NoPhantomJob

LEMMA LiveRequest ==
    ASSUME Typed, WritersAreLive, NoPhantomJob, NEW j \in Jobs, Request(j) \/ Decide(j)
    PROVE  WritersAreLive' /\ NoPhantomJob'
<1>1. pc[j] \in {"unused", "reading"}
    BY DEF Request, Decide, Refuse, Start, StartDone, StartFails, Enroll
<1>2. \A k \in Jobs \ {j} : pc'[k] = pc[k] /\ job'[k] = job[k] /\ status'[k] = status[k]
    BY DEF Typed, Request, Decide, Refuse, Start, StartDone, StartFails, Enroll
<1>3. \A s \in Sources, m \in Msgs : writers[s][m] # j
    BY <1>1, InsightsAssumption DEF WritersAreLive, ActivePc
<1>4. j \notin api_jobs \/ status[j] \notin {"queued", "running"}
    BY <1>1 DEF NoPhantomJob, ActivePc
<1>5. CASE Request(j) \/ Refuse(j)
    <2>1. UNCHANGED <<writers, api_jobs, status>>
        BY <1>5 DEF Request, Refuse, registryVars
    <2> QED  BY <2>1, <1>2, <1>3, <1>4 DEF Typed, WritersAreLive, NoPhantomJob
<1>6. ASSUME Enroll(j)
      PROVE  /\ api_jobs' \subseteq api_jobs \cup {j}
             /\ job'[j].source = job[j].source /\ job'[j].pending = Pending(j)
    BY <1>6 DEF Enroll, Registered, Typed, JobRecord
<1>7. job[j].source \in Sources /\ Pending(j) \subseteq Msgs
    BY DEF Typed, JobRecord, Pending
<1>8. CASE Start(j)
    <2>1. pc'[j] = "queued" /\ status'[j] = "queued" /\ writers' = TakeWriters(j)
        BY <1>8 DEF Start, Typed
    <2>2. NoPhantomJob'
        BY <1>2, <1>6, <1>8, <2>1 DEF Start, NoPhantomJob, ActivePc, Typed
    <2>3. \A s \in Sources, m \in Msgs :
             writers'[s][m] = IF s = job[j].source /\ m \in Pending(j) THEN j ELSE writers[s][m]
        BY <2>1, <1>7 DEF TakeWriters, Assign, Typed
    <2>4. ASSUME NEW s \in Sources, NEW m \in Msgs, writers'[s][m] # NoJob
          PROVE  /\ pc'[writers'[s][m]] \in ActivePc \cup {"finally"}
                 /\ job'[writers'[s][m]].source = s /\ m \in job'[writers'[s][m]].pending
        <3>1. CASE s = job[j].source /\ m \in Pending(j)
            BY <2>1, <2>3, <3>1, <1>6, <1>8 DEF Start, ActivePc
        <3>2. CASE ~(s = job[j].source /\ m \in Pending(j))
            BY <2>3, <2>4, <3>2, <1>2, <1>3 DEF WritersAreLive, Typed
        <3> QED  BY <3>1, <3>2
    <2> QED  BY <2>2, <2>4 DEF WritersAreLive
<1>9. CASE StartDone(j) \/ StartFails(j)
    <2>1. status'[j] \in {"done", "error"}
        BY <1>9 DEF StartDone, StartFails, Typed
    <2>2. NoPhantomJob'
        BY <1>2, <1>6, <1>9, <2>1 DEF StartDone, StartFails, NoPhantomJob, Typed
    <2>3. \A s \in Sources, m \in Msgs : writers'[s][m] \in {writers[s][m], NoJob}
        <3>1. CASE StartDone(j)
            BY <3>1 DEF StartDone
        <3>2. CASE StartFails(j)
            BY <3>2, <1>7 DEF StartFails, Assign, Typed
        <3> QED  BY <1>9, <3>1, <3>2
    <2> QED  BY <2>2, <2>3, <1>2, <1>3 DEF WritersAreLive, Typed
<1> QED  BY <1>5, <1>8, <1>9 DEF Decide

LEMMA LiveWorker ==
    ASSUME Typed, WritersAreLive, NoPhantomJob, NEW j \in Jobs, Worker(j)
    PROVE  WritersAreLive' /\ NoPhantomJob'
<1>1. job' = job /\ api_jobs' = api_jobs
    BY WorkerKeeps
<1>2. \A k \in Jobs \ {j} : pc'[k] = pc[k] /\ status'[k] = status[k]
    BY DEF Typed, Worker, Move, CheckIn, MarkRunning, Turn, Answer, Retry, Resume, Save, Fail,
           Failed, Unwrite, Finish
<1>3. status'[j] \in {"queued", "running"} =>
         pc'[j] \in ActivePc \/ (pc[j] \notin ActivePc /\ status'[j] = status[j])
    BY DEF Typed, Worker, Move, CheckIn, MarkRunning, Turn, Answer, Retry, Resume, Save, Fail,
           Failed, Unwrite, Finish, ActivePc
<1>4. NoPhantomJob'
    BY <1>1, <1>2, <1>3 DEF NoPhantomJob, Typed
<1>5. CASE Unwrite(j)
    <2>1. job[j].source \in Sources  BY DEF Typed, JobRecord
    <2>2. \A s \in Sources, m \in Msgs :
             writers'[s][m] = IF s = job[j].source /\ m \in Mine(j) THEN NoJob ELSE writers[s][m]
        BY <1>5, <2>1 DEF Unwrite, DropWriters, Assign, Typed
    <2>3. \A s \in Sources, m \in Msgs :
             writers[s][m] = j => s = job[j].source /\ m \in Mine(j)
        BY InsightsAssumption DEF WritersAreLive, Mine
    <2>4. \A s \in Sources, m \in Msgs :
             writers'[s][m] = NoJob \/ (writers'[s][m] = writers[s][m] /\ writers[s][m] # j)
        BY <2>2, <2>3
    <2> QED
        <3> SUFFICES ASSUME NEW s \in Sources, NEW m \in Msgs, writers'[s][m] # NoJob
                     PROVE  /\ pc'[writers'[s][m]] \in ActivePc \cup {"finally"}
                            /\ job'[writers'[s][m]].source = s
                            /\ m \in job'[writers'[s][m]].pending
            BY <1>4 DEF WritersAreLive
        <3>1. writers'[s][m] = writers[s][m] /\ writers[s][m] # j  BY <2>4
        <3>2. writers[s][m] \in Jobs \ {j}  BY <3>1 DEF Typed
        <3> QED  BY <1>1, <1>2, <3>1, <3>2 DEF WritersAreLive
<1>6. CASE Finish(j)
    <2>1. \A s \in Sources, m \in Msgs : writers[s][m] # j
        BY <1>6, InsightsAssumption DEF WritersAreLive, ActivePc, Finish, Move
    <2>2. writers' = writers  BY <1>6 DEF Finish
    <2>3. \A s \in Sources, m \in Msgs : writers[s][m] \in (Jobs \ {j}) \cup {NoJob}
        BY <2>1 DEF Typed
    <2>4. WritersAreLive'
        BY <1>1, <1>2, <2>2, <2>3 DEF WritersAreLive
    <2> QED  BY <1>4, <2>4
<1>7. CASE ~Unwrite(j) /\ ~Finish(j)
    <2>1. writers' = writers /\ pc'[j] \in ActivePc \cup {"finally"}
        BY <1>7 DEF Typed, Worker, registryVars, Move, CheckIn, MarkRunning, Turn, Answer, Retry,
                    Resume, Save, Fail, ActivePc
    <2>2. \A s \in Sources, m \in Msgs : writers[s][m] \in Jobs \cup {NoJob}
        BY DEF Typed
    <2>3. WritersAreLive'
        BY <1>1, <1>2, <2>1, <2>2 DEF WritersAreLive
    <2> QED  BY <1>4, <2>3
<1> QED  BY <1>5, <1>6, <1>7

LEMMA LiveNext ==
    Typed /\ WritersAreLive /\ NoPhantomJob /\ [Next]_vars => WritersAreLive' /\ NoPhantomJob'
<1> SUFFICES ASSUME Typed, WritersAreLive, NoPhantomJob, [Next]_vars
             PROVE  WritersAreLive' /\ NoPhantomJob'
    OBVIOUS
<1>1. ASSUME UNCHANGED <<writers, pc, job>>
      PROVE  WritersAreLive'
    BY <1>1 DEF WritersAreLive
<1>2. ASSUME UNCHANGED <<pc, status>>, api_jobs' \subseteq api_jobs
      PROVE  NoPhantomJob'
    BY <1>2 DEF NoPhantomJob
<1>3. CASE UNCHANGED vars
    BY <1>1, <1>2, <1>3 DEF vars, registryVars, jobVars
<1>4. CASE \E s \in Sources \cup {Local}, b \in BOOLEAN : Activate(s, b)
    BY <1>1, <1>2, <1>4, SwitchFrame DEF jobVars
<1>5. CASE \E s \in Sources : Clear(s)
    BY <1>1, <1>2, <1>5, ClearingFrame
<1>6. ASSUME NEW s \in Sources, Reset(s)
      PROVE  WritersAreLive' /\ NoPhantomJob'
    <2>1. \A k \in Jobs : status'[k] \in {status[k], "cancelled"}
        BY <1>6 DEF Reset, ResetStep, ResetBegin, ResetClear, ResetEnd, Typed
    <2>2. NoPhantomJob'
        BY <1>6, <2>1, ResetFrame DEF NoPhantomJob, Typed
    <2> QED  BY <1>1, <1>6, <2>2, ResetFrame
<1>7. CASE Drain
    BY <1>1, <1>2, <1>7, DrainingFrame DEF jobVars
<1> QED
    BY <1>3, <1>4, <1>5, <1>6, <1>7, NextCases, LiveRequest, LiveWorker

LEMMA LiveAlways == Spec => [](WritersAreLive /\ NoPhantomJob)
BY TypedInvariant, LiveInit, LiveNext, PTL DEF Spec

\* No writer entry outlives its worker (the finally block of
\* _run_model_insights, and the failed start that takes them back).
THEOREM WritersLive == Spec => []WritersAreLive
BY LiveAlways, PTL

\* A job the registry shows as queued or running is one whose worker will
\* still report, so an answer "already running" is never given for a dead one.
THEOREM NoPhantoms == Spec => []NoPhantomJob
BY LiveAlways, PTL

-----------------------------------------------------------------------------
(* No result from before a clear *)

Begun(j) == pc[j] \in WorkerPc \cup {"gone"}

\* What the registry and the saved rows name has been registered.
Enrolled ==
    /\ \A j \in Jobs : Begun(j) => status[j] # "none"
    /\ \A j \in api_jobs : Begun(j)
    /\ \A s \in Sources, m \in Msgs : rows[s][m] # NoJob => Begun(rows[s][m])

EpochsGrow ==
    \A s \in Sources : floor[s].source <= sourceEpoch[s] /\ floor[s].scope <= scopeEpoch[s]

\* A job that is still in the registry was requested after the last deletion:
\* both ways of deleting empty the registry of the source first.
RegistryFresh ==
    \A j \in api_jobs :
        /\ job[j].epoch.source >= floor[job[j].source].source
        /\ job[j].epoch.scope >= floor[job[j].source].scope

\* Between the emptying and the deletion of a cache clear only requests that
\* saw its epoch get in.
DropFresh ==
    \A s \in Sources : cachePc[s] = "dropped" =>
        \A j \in api_jobs : job[j].source = s => job[j].epoch.source >= sourceEpoch[s]

\* The four parts over what the epochs are compared with.
FreshInv == EpochsGrow /\ RegistryFresh /\ DropFresh /\ NoResultFromBeforeClear

LEMMA ClearInit == Init => Enrolled /\ FreshInv
BY DEF Init, FreshInv, Enrolled, Begun, WorkerPc, ActivePc, EpochsGrow, RegistryFresh, DropFresh,
       NoResultFromBeforeClear

LEMMA EnrolledKept ==
    ASSUME Typed, Enrolled,
           \A k \in Jobs : Begun(k) => pc'[k] \in WorkerPc \cup {"gone"},
           \A k \in Jobs : pc'[k] \in WorkerPc \cup {"gone"} => status'[k] # "none",
           \A k \in api_jobs' : k \in api_jobs \/ pc'[k] \in WorkerPc \cup {"gone"},
           \A s \in Sources, m \in Msgs :
              rows'[s][m] \in {rows[s][m], NoJob} \/ pc'[rows'[s][m]] \in WorkerPc \cup {"gone"}
    PROVE  Enrolled'
<1>1. \A s \in Sources, m \in Msgs : rows[s][m] \in Jobs \cup {NoJob}
    BY DEF Typed
<1>2. \A k \in api_jobs' : pc'[k] \in WorkerPc \cup {"gone"}
    BY DEF Enrolled, Typed
<1>3. ASSUME NEW s \in Sources, NEW m \in Msgs, rows'[s][m] # NoJob
      PROVE  pc'[rows'[s][m]] \in WorkerPc \cup {"gone"}
    <2>1. CASE rows'[s][m] = rows[s][m]
        BY <1>1, <1>3, <2>1 DEF Enrolled
    <2> QED  BY <1>3, <2>1
<1> QED  BY <1>2, <1>3 DEF Enrolled, Begun

LEMMA EnrolledNext == Typed /\ Enrolled /\ [Next]_vars => Enrolled'
<1> SUFFICES ASSUME Typed, Enrolled, [Next]_vars  PROVE Enrolled'
    OBVIOUS
<1>1. ASSUME NEW j \in Jobs, Request(j) \/ Decide(j)
      PROVE  Enrolled'
    <2>1. ~Begun(j)
        BY <1>1 DEF Request, Decide, Refuse, Start, StartDone, StartFails, Enroll, Begun, WorkerPc,
                    ActivePc
    <2>2. rows' = rows /\ \A k \in Jobs \ {j} : pc'[k] = pc[k] /\ status'[k] = status[k]
        BY <1>1 DEF Typed, Request, Decide, Refuse, Start, StartDone, StartFails, Enroll
    <2>3. pc'[j] \in WorkerPc \cup {"gone"} => status'[j] # "none"
        BY <1>1 DEF Typed, Request, Decide, Refuse, Start, StartDone, StartFails, WorkerPc, ActivePc
    <2>4. \A k \in api_jobs' : k \in api_jobs \/ pc'[k] \in WorkerPc \cup {"gone"}
        BY <1>1 DEF Typed, Request, Decide, Refuse, Start, StartDone, StartFails, Enroll, Registered,
                    registryVars, WorkerPc, ActivePc
    <2>5. \A k \in Jobs : pc'[k] \in WorkerPc \cup {"gone"} => status'[k] # "none"
        BY <2>2, <2>3 DEF Enrolled, Begun
    <2>6. \A k \in Jobs : Begun(k) => pc'[k] \in WorkerPc \cup {"gone"}
        BY <2>1, <2>2 DEF Begun
    <2>7. \A s \in Sources, m \in Msgs : rows'[s][m] \in {rows[s][m], NoJob}
        BY <2>2
    <2> QED  BY <2>4, <2>5, <2>6, <2>7, EnrolledKept
<1>2. ASSUME NEW j \in Jobs, Worker(j)
      PROVE  Enrolled'
    <2>1. api_jobs' = api_jobs  BY <1>2, WorkerKeeps
    <2>2. \A k \in Jobs \ {j} : pc'[k] = pc[k] /\ status'[k] = status[k]
        BY <1>2 DEF Typed, Worker, Move, CheckIn, MarkRunning, Turn, Answer, Retry, Resume, Save,
                    Fail, Failed, Unwrite, Finish
    <2>3. pc[j] \in WorkerPc /\ pc'[j] \in WorkerPc \cup {"gone"}
        BY <1>2 DEF Typed, Worker, Move, CheckIn, MarkRunning, Turn, Answer, Retry, Resume, Save,
                    Fail, Unwrite, Finish, WorkerPc, ActivePc
    <2>4. status'[j] = status[j] \/ status'[j] \in {"running", "done", "error"}
        BY <1>2 DEF Typed, Worker, CheckIn, MarkRunning, Turn, Answer, Retry, Resume, Save, Fail,
                    Failed, Unwrite, Finish
    <2>5. \A s \in Sources, m \in Msgs : rows'[s][m] \in {rows[s][m], j}
        <3>1. CASE Save(j)
            <4>1. job[j].source \in Sources  BY DEF Typed, JobRecord
            <4>2. rows' = [rows EXCEPT ![job[j].source] =
                             [m \in Msgs |-> IF m \in Mine(j) THEN j ELSE rows[job[j].source][m]]]
                BY <3>1 DEF Save
            <4> QED  BY <4>1, <4>2 DEF Typed
        <3>2. CASE ~Save(j)
            BY <1>2, <3>2 DEF Worker, CheckIn, MarkRunning, Turn, Answer, Retry, Resume, Fail,
                              Unwrite, Finish
        <3> QED  BY <3>1, <3>2
    <2>6. \A k \in Jobs : Begun(k) => pc'[k] \in WorkerPc \cup {"gone"}
        BY <2>2, <2>3 DEF Begun
    <2>7. \A k \in Jobs : pc'[k] \in WorkerPc \cup {"gone"} => status'[k] # "none"
        BY <2>2, <2>3, <2>4 DEF Enrolled, Begun
    <2> QED  BY <2>1, <2>3, <2>5, <2>6, <2>7, EnrolledKept
<1>3. ASSUME UNCHANGED pc, api_jobs' \subseteq api_jobs,
             \A k \in Jobs : status'[k] \in {status[k], "cancelled"},
             \A s \in Sources, m \in Msgs : rows'[s][m] \in {rows[s][m], NoJob}
      PROVE  Enrolled'
    <2>1. \A k \in Jobs : Begun(k) <=> pc'[k] \in WorkerPc \cup {"gone"}
        BY <1>3 DEF Begun
    <2>2. \A k \in Jobs : pc'[k] \in WorkerPc \cup {"gone"} => status'[k] # "none"
        BY <1>3, <2>1 DEF Enrolled
    <2> QED  BY <1>3, <2>1, <2>2, EnrolledKept
<1>4. CASE UNCHANGED vars
    BY <1>3, <1>4 DEF vars, registryVars, jobVars
<1>5. CASE \E s \in Sources \cup {Local}, b \in BOOLEAN : Activate(s, b)
    BY <1>3, <1>5, SwitchFrame DEF jobVars
<1>6. CASE Drain
    BY <1>3, <1>6, DrainingFrame DEF jobVars
<1>7. ASSUME NEW s \in Sources, Clear(s) \/ Reset(s)
      PROVE  Enrolled'
    <2>1. \A t \in Sources, m \in Msgs : rows'[t][m] \in {rows[t][m], NoJob}
        <3>1. CASE rows' = rows
            BY <3>1
        <3>2. CASE rows' = [rows EXCEPT ![s] = [m \in Msgs |-> NoJob]]
            BY <3>2 DEF Typed
        <3> QED  BY <1>7, <3>1, <3>2, RowsOnlyCleared
    <2>2. \A k \in Jobs : status'[k] \in {status[k], "cancelled"}
        BY <1>7, ClearingFrame DEF Reset, ResetStep, ResetBegin, ResetClear, ResetEnd, Typed
    <2> QED  BY <1>3, <1>7, <2>1, <2>2, ClearingFrame, ResetFrame
<1> QED  BY <1>1, <1>2, <1>4, <1>5, <1>6, <1>7, NextCases

LEMMA EpochsAreNumbers ==
    ASSUME Typed
    PROVE  /\ \A s \in Sources : /\ floor[s].source \in Int /\ floor[s].scope \in Int
                                 /\ sourceEpoch[s] \in Int /\ scopeEpoch[s] \in Int
           /\ \A j \in Jobs : /\ job[j].epoch.source \in Int /\ job[j].epoch.scope \in Int
                              /\ job[j].source \in Sources
BY InsightsAssumption DEF Typed, JobRecord, Epochs

\* A registry that only loses jobs, over the same jobs, rows and epochs.
LEMMA FreshSmaller ==
    ASSUME Typed, FreshInv, api_jobs' \subseteq api_jobs,
           UNCHANGED <<job, rows, floor, sourceEpoch, scopeEpoch, cachePc>>
    PROVE  FreshInv'
<1>1. EpochsGrow' /\ NoResultFromBeforeClear'
    BY DEF FreshInv, EpochsGrow, NoResultFromBeforeClear
<1>2. RegistryFresh'  BY DEF FreshInv, RegistryFresh
<1>3. DropFresh'  BY DEF FreshInv, DropFresh
<1> QED  BY <1>1, <1>2, <1>3 DEF FreshInv

\* A job that gets in captured the current epochs (_assert_analysis_epoch).
LEMMA FreshRequest ==
    ASSUME Typed, Enrolled, FreshInv, NEW j \in Jobs, Request(j) \/ Decide(j)
    PROVE  FreshInv'
<1>1. UNCHANGED <<rows, floor, sourceEpoch, scopeEpoch, cachePc>>
    BY DEF Request, Decide, Refuse, Start, StartDone, StartFails, Enroll, clearVars, historyVars
<1>2. ~Begun(j)
    BY DEF Request, Decide, Refuse, Start, StartDone, StartFails, Enroll, Begun, WorkerPc, ActivePc
<1>3. \A k \in Jobs \ {j} : job'[k] = job[k]
    BY DEF Typed, Request, Decide, Refuse, Start, StartDone, StartFails, Enroll
<1>4. j \notin api_jobs /\ \A s \in Sources, m \in Msgs : rows[s][m] # j
    BY <1>2, InsightsAssumption DEF Enrolled
<1>5. \A s \in Sources, m \in Msgs : rows[s][m] \in (Jobs \ {j}) \cup {NoJob}
    BY <1>4 DEF Typed
<1>6. EpochsGrow' /\ NoResultFromBeforeClear'
    BY <1>1, <1>3, <1>5 DEF FreshInv, EpochsGrow, NoResultFromBeforeClear
<1>7. CASE Request(j) \/ Refuse(j)
    <2>1. api_jobs' = api_jobs  BY <1>7 DEF Request, Refuse, registryVars
    <2>2. \A k \in api_jobs : job'[k] = job[k]  BY <1>3, <1>4 DEF Typed
    <2>3. RegistryFresh'  BY <1>1, <2>1, <2>2 DEF FreshInv, RegistryFresh
    <2>4. DropFresh'  BY <1>1, <2>1, <2>2 DEF FreshInv, DropFresh
    <2> QED  BY <1>6, <2>3, <2>4 DEF FreshInv
<1>8. CASE Start(j) \/ StartDone(j) \/ StartFails(j)
    <2>1. Enroll(j)  BY <1>8 DEF Start, StartDone, StartFails
    <2>2. api_jobs' \subseteq api_jobs \cup {j}  BY <2>1 DEF Enroll, Registered
    <2>3. job'[j].source = job[j].source /\ job'[j].epoch = job[j].epoch
        BY <2>1 DEF Enroll, Typed, JobRecord
    <2>4. job[j].epoch.source = sourceEpoch[job[j].source] /\ job[j].epoch.scope = scopeEpoch[job[j].source]
        BY <2>1 DEF Enroll, Admissible, EpochCurrent, Epoch
    <2>5. \A k \in api_jobs' : k = j \/ (k \in api_jobs /\ job'[k] = job[k])
        BY <1>3, <2>2 DEF Typed
    <2>6. RegistryFresh'
        BY <1>1, <2>3, <2>4, <2>5, EpochsAreNumbers DEF FreshInv, RegistryFresh, EpochsGrow
    <2>7. DropFresh'
        BY <1>1, <2>3, <2>4, <2>5, EpochsAreNumbers DEF FreshInv, DropFresh
    <2> QED  BY <1>6, <2>6, <2>7 DEF FreshInv
<1> QED  BY <1>7, <1>8 DEF Decide

\* A worker saves only as a member of the registry (_assert_api_job).
LEMMA FreshWorker ==
    ASSUME Typed, FreshInv, NEW j \in Jobs, Worker(j)
    PROVE  FreshInv'
<1>1. UNCHANGED <<job, floor, sourceEpoch, scopeEpoch, cachePc, api_jobs>>
    BY WorkerKeeps DEF clearVars, historyVars
<1>2. CASE ~Save(j)
    <2>1. rows' = rows
        BY <1>2 DEF Worker, CheckIn, MarkRunning, Turn, Answer, Retry, Resume, Fail, Unwrite, Finish
    <2> QED  BY <1>1, <2>1, FreshSmaller
<1>3. CASE Save(j)
    <2>1. j \in api_jobs /\ job[j].source \in Sources
        BY <1>3, EpochsAreNumbers DEF Save, Alive
    <2>2. rows' = [rows EXCEPT ![job[j].source] =
                     [m \in Msgs |-> IF m \in Mine(j) THEN j ELSE rows[job[j].source][m]]]
        BY <1>3 DEF Save
    <2>3. \A s \in Sources, m \in Msgs :
             rows'[s][m] = rows[s][m] \/ (s = job[j].source /\ rows'[s][m] = j)
        BY <2>1, <2>2 DEF Typed
    <2>4. NoResultFromBeforeClear'
        BY <1>1, <2>1, <2>3 DEF FreshInv, RegistryFresh, NoResultFromBeforeClear
    <2>5. EpochsGrow' /\ RegistryFresh' /\ DropFresh'
        BY <1>1 DEF FreshInv, EpochsGrow, RegistryFresh, DropFresh
    <2> QED  BY <2>4, <2>5 DEF FreshInv
<1> QED  BY <1>2, <1>3

LEMMA FreshClear ==
    ASSUME Typed, FreshInv, NEW s \in Sources, Clear(s)
    PROVE  FreshInv'
<1>1. UNCHANGED <<job, scopeEpoch>> /\ api_jobs' \subseteq api_jobs
    BY ClearingFrame
<1>2. CASE ClearBegin(s)
    <2>1. /\ UNCHANGED <<rows, floor>>
          /\ sourceEpoch' = [sourceEpoch EXCEPT ![s] = sourceEpoch[s] + 1]
          /\ cachePc' = [cachePc EXCEPT ![s] = "bumped"]
        BY <1>2 DEF ClearBegin
    <2>2. \A t \in Sources : sourceEpoch'[t] >= sourceEpoch[t]
        BY <2>1, EpochsAreNumbers DEF Typed
    <2>3. EpochsGrow'
        <3> SUFFICES ASSUME NEW t \in Sources
                     PROVE  floor[t].source <= sourceEpoch'[t] /\ floor[t].scope <= scopeEpoch[t]
            BY <1>1, <2>1 DEF EpochsGrow
        <3>1. floor[t].source <= sourceEpoch[t] /\ floor[t].scope <= scopeEpoch[t]
            BY DEF FreshInv, EpochsGrow
        <3>2. sourceEpoch'[t] = IF t = s THEN sourceEpoch[t] + 1 ELSE sourceEpoch[t]
            BY <2>1 DEF Typed
        <3> QED  BY <3>1, <3>2, EpochsAreNumbers
    <2>4. RegistryFresh' /\ NoResultFromBeforeClear'
        BY <1>1, <2>1 DEF FreshInv, RegistryFresh, NoResultFromBeforeClear
    <2>5. DropFresh'
        <3> SUFFICES ASSUME NEW t \in Sources, cachePc'[t] = "dropped", NEW k \in api_jobs',
                            job[k].source = t
                     PROVE  job[k].epoch.source >= sourceEpoch'[t]
            BY <1>1 DEF DropFresh
        <3>1. t # s  BY <2>1 DEF Typed
        <3>2. sourceEpoch'[t] = sourceEpoch[t] /\ cachePc[t] = "dropped"
            BY <2>1, <3>1 DEF Typed
        <3> QED  BY <1>1, <3>2 DEF FreshInv, DropFresh
    <2> QED  BY <2>3, <2>4, <2>5 DEF FreshInv
<1>3. CASE ClearDrop(s)
    <2>1. UNCHANGED <<rows, floor, sourceEpoch>> /\ api_jobs' = WithoutSource(s)
        BY <1>3 DEF ClearDrop
    <2>2. \A t \in Sources \ {s} : cachePc'[t] = cachePc[t]
        BY <1>3 DEF ClearDrop, Typed
    <2>3. EpochsGrow' /\ RegistryFresh' /\ NoResultFromBeforeClear'
        BY <1>1, <2>1 DEF FreshInv, EpochsGrow, RegistryFresh, NoResultFromBeforeClear
    <2>4. DropFresh'
        BY <1>1, <2>1, <2>2 DEF FreshInv, DropFresh, WithoutSource
    <2> QED  BY <2>3, <2>4 DEF FreshInv
<1>4. CASE ClearDelete(s)
    <2>1. UNCHANGED <<api_jobs, sourceEpoch>> /\ cachePc[s] = "dropped"
        BY <1>4 DEF ClearDelete
    <2>2. rows' = [rows EXCEPT ![s] = [m \in Msgs |-> NoJob]]
        BY <1>4 DEF ClearDelete
    <2>3. floor' = [floor EXCEPT ![s] = [floor[s] EXCEPT !.source = sourceEpoch[s]]]
        BY <1>4 DEF ClearDelete
    <2>4. \A t \in Sources : /\ floor'[t].scope = floor[t].scope
                             /\ floor'[t].source = IF t = s THEN sourceEpoch[s] ELSE floor[t].source
        BY <2>3 DEF Typed, Epochs
    <2>5. EpochsGrow'
        BY <1>1, <2>1, <2>4, EpochsAreNumbers DEF FreshInv, EpochsGrow
    <2>6. RegistryFresh'
        <3> SUFFICES ASSUME NEW k \in api_jobs
                     PROVE  /\ job[k].epoch.source >= floor'[job[k].source].source
                            /\ job[k].epoch.scope >= floor'[job[k].source].scope
            BY <1>1, <2>1 DEF RegistryFresh
        <3>1. k \in Jobs /\ job[k].source \in Sources
            BY EpochsAreNumbers DEF Typed
        <3> QED  BY <2>1, <2>4, <3>1 DEF FreshInv, RegistryFresh, DropFresh
    <2>7. \A t \in Sources, m \in Msgs :
             rows'[t][m] = NoJob \/ (t # s /\ rows'[t][m] = rows[t][m])
        BY <2>2 DEF Typed
    <2>8. NoResultFromBeforeClear'
        BY <1>1, <2>4, <2>7 DEF FreshInv, NoResultFromBeforeClear
    <2>9. DropFresh'
        <3>1. \A t \in Sources : cachePc'[t] = "dropped" => cachePc[t] = "dropped"
            BY <1>4 DEF ClearDelete, Typed
        <3> QED  BY <1>1, <2>1, <3>1 DEF FreshInv, DropFresh
    <2> QED  BY <2>5, <2>6, <2>8, <2>9 DEF FreshInv
<1>5. CASE ClearSuspend(s) \/ ClearEnd(s) \/ ClearFails(s) \/ CacheResume(s)
    <2>1. UNCHANGED <<rows, floor, sourceEpoch>>
        BY <1>5 DEF ClearSuspend, ClearEnd, ClearFails, CacheResume
    <2>2. \A t \in Sources : cachePc'[t] = "dropped" => cachePc[t] = "dropped"
        BY <1>5 DEF ClearSuspend, ClearEnd, ClearFails, CacheResume, Typed
    <2>3. EpochsGrow' /\ RegistryFresh' /\ NoResultFromBeforeClear'
        BY <1>1, <2>1 DEF FreshInv, EpochsGrow, RegistryFresh, NoResultFromBeforeClear
    <2>4. DropFresh'
        BY <1>1, <2>1, <2>2 DEF FreshInv, DropFresh
    <2> QED  BY <2>3, <2>4 DEF FreshInv
<1> QED  BY <1>2, <1>3, <1>4, <1>5 DEF Clear, ClearStep

LEMMA FreshReset ==
    ASSUME Typed, FreshInv, NEW s \in Sources, Reset(s)
    PROVE  FreshInv'
<1>1. UNCHANGED <<job, sourceEpoch, cachePc>> /\ api_jobs' \subseteq api_jobs
    BY ResetFrame
<1>2. CASE ResetBegin(s)
    <2>1. UNCHANGED <<rows, floor>> /\ scopeEpoch' = [scopeEpoch EXCEPT ![s] = scopeEpoch[s] + 1]
        BY <1>2 DEF ResetBegin
    <2>2. EpochsGrow'
        <3> SUFFICES ASSUME NEW t \in Sources
                     PROVE  floor[t].source <= sourceEpoch[t] /\ floor[t].scope <= scopeEpoch'[t]
            BY <1>1, <2>1 DEF EpochsGrow
        <3>1. floor[t].source <= sourceEpoch[t] /\ floor[t].scope <= scopeEpoch[t]
            BY DEF FreshInv, EpochsGrow
        <3>2. scopeEpoch'[t] = IF t = s THEN scopeEpoch[t] + 1 ELSE scopeEpoch[t]
            BY <2>1 DEF Typed
        <3> QED  BY <3>1, <3>2, EpochsAreNumbers
    <2>3. RegistryFresh' /\ NoResultFromBeforeClear' /\ DropFresh'
        BY <1>1, <2>1 DEF FreshInv, RegistryFresh, NoResultFromBeforeClear, DropFresh
    <2> QED  BY <2>2, <2>3 DEF FreshInv
<1>3. CASE ResetClear(s)
    <2>1. scopeEpoch' = scopeEpoch /\ api_jobs' = WithoutSource(s)
        BY <1>3 DEF ResetClear
    <2>2. rows' = [rows EXCEPT ![s] = [m \in Msgs |-> NoJob]]
        BY <1>3 DEF ResetClear
    <2>3. floor' = [floor EXCEPT ![s] = [floor[s] EXCEPT !.scope = scopeEpoch[s]]]
        BY <1>3 DEF ResetClear
    <2>4. \A t \in Sources : /\ floor'[t].source = floor[t].source
                             /\ floor'[t].scope = IF t = s THEN scopeEpoch[s] ELSE floor[t].scope
        BY <2>3 DEF Typed, Epochs
    <2>5. EpochsGrow'
        BY <1>1, <2>1, <2>4, EpochsAreNumbers DEF FreshInv, EpochsGrow
    <2>6. RegistryFresh'
        <3> SUFFICES ASSUME NEW k \in api_jobs, job[k].source # s
                     PROVE  /\ job[k].epoch.source >= floor'[job[k].source].source
                            /\ job[k].epoch.scope >= floor'[job[k].source].scope
            BY <1>1, <2>1 DEF RegistryFresh, WithoutSource
        <3>1. k \in Jobs /\ job[k].source \in Sources
            BY EpochsAreNumbers DEF Typed
        <3> QED  BY <2>4, <3>1 DEF FreshInv, RegistryFresh
    <2>7. \A t \in Sources, m \in Msgs :
             rows'[t][m] = NoJob \/ (t # s /\ rows'[t][m] = rows[t][m])
        BY <2>2 DEF Typed
    <2>8. NoResultFromBeforeClear'
        BY <1>1, <2>4, <2>7 DEF FreshInv, NoResultFromBeforeClear
    <2>9. DropFresh'  BY <1>1 DEF FreshInv, DropFresh
    <2> QED  BY <2>5, <2>6, <2>8, <2>9 DEF FreshInv
<1>4. CASE ResetEnd(s)
    BY <1>1, <1>4, FreshSmaller DEF ResetEnd
<1> QED  BY <1>2, <1>3, <1>4 DEF Reset, ResetStep

LEMMA FreshNext == Typed /\ Enrolled /\ FreshInv /\ [Next]_vars => FreshInv'
<1> SUFFICES ASSUME Typed, Enrolled, FreshInv, [Next]_vars  PROVE FreshInv'
    OBVIOUS
<1>1. CASE UNCHANGED vars
    BY <1>1, FreshSmaller DEF vars, registryVars, jobVars, clearVars, historyVars
<1>2. CASE \E s \in Sources \cup {Local}, b \in BOOLEAN : Activate(s, b)
    BY <1>2, FreshSmaller, SwitchFrame DEF jobVars, clearVars, historyVars
<1>3. CASE Drain
    BY <1>3, FreshSmaller, DrainingFrame DEF jobVars, clearVars, historyVars
<1> QED
    BY <1>1, <1>2, <1>3, NextCases, FreshRequest, FreshWorker, FreshClear, FreshReset

\* The inductive invariant of the clears, and what it is for.
LEMMA ClearAlways == Spec => [](Enrolled /\ FreshInv)
BY TypedInvariant, ClearInit, EnrolledNext, FreshNext, PTL DEF Spec

\* A late answer never brings cleared data back: the result of a request made
\* before the last analysis_cache_clear or analysis_scope_clear of its source
\* is nowhere in api_insights_v1.
THEOREM ClearedStaysCleared == Spec => []NoResultFromBeforeClear
<1>1. FreshInv => NoResultFromBeforeClear  BY DEF FreshInv
<1> QED  BY <1>1, ClearAlways, PTL

-----------------------------------------------------------------------------
(* The drain *)

DrainInv ==
    /\ drain \in {"waiting", "idle", "drained", "failed"} => api_jobs = {}
    /\ drain \in {"idle", "drained"} => Workers = {}

LEMMA DrainInit == Init => DrainInv
BY DEF Init, DrainInv

LEMMA DrainNext == Typed /\ WorkersCounted /\ DrainInv /\ [Next]_vars => DrainInv'
<1> SUFFICES ASSUME Typed, WorkersCounted, DrainInv, [Next]_vars  PROVE DrainInv'
    OBVIOUS
<1>1. ASSUME UNCHANGED drain, api_jobs' \subseteq api_jobs, Workers' \subseteq Workers
      PROVE  DrainInv'
    BY <1>1 DEF DrainInv
<1>2. ASSUME NEW j \in Jobs, Request(j) \/ Refuse(j)
      PROVE  DrainInv'
    <2>1. UNCHANGED <<drain, api_jobs>>
        BY <1>2 DEF Request, Refuse, registryVars
    <2>2. Workers' \subseteq Workers
        BY <1>2 DEF Request, Refuse, Workers, WorkerPc, ActivePc, Typed
    <2> QED  BY <1>1, <2>1, <2>2
<1>3. ASSUME NEW j \in Jobs, Start(j) \/ StartDone(j) \/ StartFails(j)
      PROVE  DrainInv'
    BY <1>3 DEF Start, StartDone, StartFails, Enroll, Admissible, closing, DrainInv
<1>4. ASSUME NEW j \in Jobs, Worker(j)
      PROVE  DrainInv'
    <2>1. UNCHANGED <<drain, api_jobs>>
        BY <1>4, WorkerKeeps
    <2>2. pc[j] \in WorkerPc /\ \A k \in Jobs \ {j} : pc'[k] = pc[k]
        BY <1>4 DEF Typed, Worker, Move, CheckIn, MarkRunning, Turn, Answer, Retry, Resume, Save,
                    Fail, Unwrite, Finish, WorkerPc, ActivePc
    <2>3. Workers' \subseteq Workers
        BY <2>2 DEF Workers
    <2> QED  BY <1>1, <2>1, <2>3
<1>5. ASSUME UNCHANGED pc
      PROVE  Workers' = Workers
    BY <1>5 DEF Workers
<1>6. CASE UNCHANGED vars
    BY <1>1, <1>5, <1>6 DEF vars, registryVars, jobVars
<1>7. CASE \E s \in Sources \cup {Local}, b \in BOOLEAN : Activate(s, b)
    BY <1>1, <1>5, <1>7, SwitchFrame DEF jobVars
<1>8. CASE \E s \in Sources : Clear(s) \/ Reset(s)
    BY <1>1, <1>5, <1>8, ClearingFrame, ResetFrame
<1>9. CASE Drain
    <2>1. Workers' = Workers  BY <1>5, <1>9, DrainingFrame DEF jobVars
    <2>2. CASE DrainIdle
        <3>1. Cardinality(Workers) = 0
            BY <2>2 DEF DrainIdle, Idle, NoWorkers, WorkersCounted
        <3>2. Workers = {}  BY <3>1, WorkersFinite, FS_EmptySet
        <3> QED  BY <2>1, <2>2, <3>2 DEF DrainIdle, DrainInv
    <2>3. CASE ~DrainIdle
        BY <1>9, <2>1, <2>3 DEF Drain, DrainBegin, DrainCancel, DrainDone, DrainFails, Reopen, DrainInv
    <2> QED  BY <2>2, <2>3
<1> QED
    BY <1>2, <1>3, <1>4, <1>6, <1>7, <1>8, <1>9, NextCases DEF Decide

\* Once wait_for_idle has returned, no worker of the account is left and none
\* can start, even from a request that is still reading its window.
THEOREM DrainedStaysQuiet == Spec => []DrainedIsQuiet
<1>1. DrainInv => DrainedIsQuiet  BY DEF DrainInv, DrainedIsQuiet
<1> QED  BY <1>1, TypedInvariant, CounterIsExact, DrainInit, DrainNext, PTL DEF Spec

-----------------------------------------------------------------------------
(* Suspensions *)

\* A clear finds its source unsuspended, because no one else suspends it.
SuspendInv ==
    \A s \in Sources :
        /\ wasSuspended[s] = FALSE
        /\ s \in suspended => cachePc[s] \in {"suspended", "dropped", "deleted"}

LEMMA SuspendInit == Init => SuspendInv
BY DEF Init, SuspendInv

LEMMA SuspendNext == Typed /\ SuspendInv /\ [Next]_vars => SuspendInv'
<1> SUFFICES ASSUME Typed, SuspendInv, [Next]_vars  PROVE SuspendInv'
    OBVIOUS
<1>1. ASSUME UNCHANGED <<wasSuspended, suspended, cachePc>>
      PROVE  SuspendInv'
    BY <1>1 DEF SuspendInv
<1>2. CASE \E j \in Jobs : Request(j) \/ Decide(j)
    BY <1>1, <1>2
    DEF Request, Decide, Refuse, Start, StartDone, StartFails, Enroll, clearVars
<1>3. CASE \E j \in Jobs : Worker(j)
    BY <1>1, <1>3, WorkerKeeps DEF clearVars
<1>4. CASE \E s \in Sources \cup {Local}, b \in BOOLEAN : Activate(s, b)
    BY <1>1, <1>4, SwitchFrame DEF clearVars
<1>5. CASE \E s \in Sources : Reset(s)
    BY <1>1, <1>5, ResetFrame
<1>6. CASE Drain
    BY <1>1, <1>6, DrainingFrame DEF clearVars
<1>7. CASE UNCHANGED vars
    BY <1>1, <1>7 DEF vars, clearVars
<1>8. ASSUME NEW s \in Sources, Clear(s)
      PROVE  SuspendInv'
    <2>1. \A t \in Sources \ {s} : /\ wasSuspended'[t] = wasSuspended[t] /\ cachePc'[t] = cachePc[t]
                                   /\ t \in suspended' <=> t \in suspended
        BY <1>8 DEF Typed, Clear, ClearStep, ClearBegin, ClearSuspend, ClearDrop, ClearDelete,
                    ClearEnd, ClearFails, CacheResume, SuspendedAfterFailure
    <2>2. wasSuspended[s] = FALSE /\ (s \in suspended => cachePc[s] \in {"suspended", "dropped", "deleted"})
        BY DEF SuspendInv
    <2>3. wasSuspended'[s] = FALSE
        <3>1. CASE ClearSuspend(s)
            BY <2>2, <3>1 DEF ClearSuspend, Typed
        <3>2. CASE ClearEnd(s) \/ ClearFails(s)
            BY <3>2 DEF ClearEnd, ClearFails, Typed
        <3>3. CASE ClearBegin(s) \/ ClearDrop(s) \/ ClearDelete(s) \/ CacheResume(s)
            BY <2>2, <3>3 DEF ClearBegin, ClearDrop, ClearDelete, CacheResume
        <3> QED  BY <1>8, <3>1, <3>2, <3>3 DEF Clear, ClearStep
    <2>4. s \in suspended' => cachePc'[s] \in {"suspended", "dropped", "deleted"}
        BY <1>8, <2>2 DEF Typed, Clear, ClearStep, ClearBegin, ClearSuspend, ClearDrop, ClearDelete,
                          ClearEnd, ClearFails, CacheResume, SuspendedAfterFailure
    <2> QED  BY <2>1, <2>3, <2>4 DEF SuspendInv
<1> QED  BY <1>2, <1>3, <1>4, <1>5, <1>6, <1>7, <1>8, NextCases

\* However a cache clear ends, its suspension does not outlive it
\* (the except branch of analysis_cache_clear, and analysis_cache_resume).
THEOREM SuspensionsEnd == Spec => []SuspendedOnlyWhileClearing
<1>1. Typed /\ SuspendInv => SuspendedOnlyWhileClearing
    BY DEF Typed, SuspendInv, SuspendedOnlyWhileClearing, Clearing
<1> QED  BY <1>1, TypedInvariant, SuspendInit, SuspendNext, PTL DEF Spec

\* No mark of a worker or of a clear outlives it: the counter that the drain
\* waits on, the writers, the registry and the suspension.
THEOREM NothingLeft == Spec => []NothingLeftBehind
BY TypeCorrect, CounterIsExact, WritersLive, NoPhantoms, SuspensionsEnd, DrainedStaysQuiet, PTL
   DEF NothingLeftBehind

-----------------------------------------------------------------------------
(* Which result wins *)

\* A message's writer was registered after the job whose result is saved.
WriterIsNewer ==
    \A s \in Sources, m \in Msgs :
        rows[s][m] # NoJob /\ writers[s][m] \notin {NoJob, rows[s][m]} =>
            rows[s][m] \in older[writers[s][m]]

LEMMA NewerInit == Init => WriterIsNewer
BY DEF Init, WriterIsNewer

\* Rows and writers that are kept or emptied, over the same history.
LEMMA NewerKept ==
    ASSUME WriterIsNewer, older' = older,
           \A s \in Sources, m \in Msgs : rows'[s][m] \in {rows[s][m], NoJob, writers'[s][m]},
           \A s \in Sources, m \in Msgs : writers'[s][m] \in {writers[s][m], NoJob}
    PROVE  WriterIsNewer'
BY DEF WriterIsNewer

\* Saving changes only the rows of which the job is still the writer.
LEMMA SaveMine ==
    ASSUME Typed, NEW j \in Jobs, Save(j)
    PROVE  /\ writers' = writers
           /\ \A s \in Sources, m \in Msgs : \/ rows'[s][m] = rows[s][m]
                                             \/ rows'[s][m] = j /\ writers[s][m] = j
<1>1. job[j].source \in Sources  BY DEF Typed, JobRecord
<1>2. rows' = [rows EXCEPT ![job[j].source] =
                 [m \in Msgs |-> IF m \in Mine(j) THEN j ELSE rows[job[j].source][m]]]
    BY DEF Save
<1> QED  BY <1>1, <1>2 DEF Typed, Save, registryVars, Mine

LEMMA NewerRequest ==
    ASSUME Typed, WritersAreLive, Enrolled, WriterIsNewer, NEW j \in Jobs, Request(j) \/ Decide(j)
    PROVE  WriterIsNewer'
<1>1. rows' = rows
    BY DEF Request, Decide, Refuse, Start, StartDone, StartFails, Enroll
<1>2. pc[j] \in {"unused", "reading"}
    BY DEF Request, Decide, Refuse, Start, StartDone, StartFails, Enroll
<1>3. \A s \in Sources, m \in Msgs : writers[s][m] \in (Jobs \ {j}) \cup {NoJob}
    <2>1. \A s \in Sources, m \in Msgs : writers[s][m] # j
        BY <1>2, InsightsAssumption DEF WritersAreLive, ActivePc
    <2> QED  BY <2>1 DEF Typed
<1>4. \A k \in Jobs \ {j} : older'[k] = older[k]
    BY DEF Request, Decide, Refuse, Start, StartDone, StartFails, Enroll, historyVars, Typed
<1>5. job[j].source \in Sources /\ Pending(j) \subseteq Msgs
    BY DEF Typed, JobRecord, Pending
<1>6. \A s \in Sources, m \in Msgs : rows[s][m] \in Jobs \cup {NoJob}
    BY DEF Typed
<1>7. CASE Start(j)
    <2>1. older'[j] = {k \in Jobs : status[k] # "none"}
        BY <1>7 DEF Start, Enroll, Typed
    <2>2. \A s \in Sources, m \in Msgs : writers'[s][m] \in {writers[s][m], j}
        BY <1>5, <1>7 DEF Start, TakeWriters, Assign, Typed
    <2>3. \A s \in Sources, m \in Msgs : rows[s][m] # NoJob => rows[s][m] \in older'[j]
        BY <1>6, <2>1 DEF Enrolled
    <2> SUFFICES ASSUME NEW s \in Sources, NEW m \in Msgs, rows[s][m] # NoJob,
                        writers'[s][m] \notin {NoJob, rows[s][m]}
                 PROVE  rows[s][m] \in older'[writers'[s][m]]
        BY <1>1 DEF WriterIsNewer
    <2>4. CASE writers'[s][m] = j
        BY <2>3, <2>4
    <2>5. CASE writers'[s][m] = writers[s][m]
        BY <1>3, <1>4, <2>5 DEF WriterIsNewer
    <2> QED  BY <2>2, <2>4, <2>5
<1>8. CASE Request(j) \/ Refuse(j) \/ StartDone(j) \/ StartFails(j)
    <2>1. \A s \in Sources, m \in Msgs : writers'[s][m] \in {writers[s][m], NoJob}
        <3>1. CASE StartFails(j)
            BY <1>5, <3>1 DEF StartFails, Assign, Typed
        <3>2. CASE ~StartFails(j)
            BY <1>8, <3>2 DEF Request, Refuse, StartDone, registryVars
        <3> QED  BY <3>1, <3>2
    <2> SUFFICES ASSUME NEW s \in Sources, NEW m \in Msgs, rows[s][m] # NoJob,
                        writers'[s][m] \notin {NoJob, rows[s][m]}
                 PROVE  rows[s][m] \in older'[writers'[s][m]]
        BY <1>1 DEF WriterIsNewer
    <2> QED  BY <1>3, <1>4, <2>1 DEF WriterIsNewer
<1> QED  BY <1>7, <1>8 DEF Decide

LEMMA NewerNext ==
    Typed /\ WritersAreLive /\ Enrolled /\ WriterIsNewer /\ [Next]_vars => WriterIsNewer'
<1> SUFFICES ASSUME Typed, WritersAreLive, Enrolled, WriterIsNewer, [Next]_vars
             PROVE  WriterIsNewer'
    OBVIOUS
<1>1. ASSUME UNCHANGED <<rows, writers, older>>
      PROVE  WriterIsNewer'
    BY <1>1 DEF WriterIsNewer
<1>2. ASSUME NEW j \in Jobs, Worker(j)
      PROVE  WriterIsNewer'
    <2>1. older' = older  BY <1>2, WorkerKeeps DEF historyVars
    <2>2. CASE Save(j)
        <3>1. \A s \in Sources, m \in Msgs : rows'[s][m] \in {rows[s][m], NoJob, writers'[s][m]}
            BY <2>2, SaveMine
        <3>2. \A s \in Sources, m \in Msgs : writers'[s][m] \in {writers[s][m], NoJob}
            BY <2>2, SaveMine
        <3> QED  BY <2>1, <3>1, <3>2, NewerKept
    <2>3. CASE Unwrite(j)
        <3>1. job[j].source \in Sources  BY DEF Typed, JobRecord
        <3>2. \A s \in Sources, m \in Msgs : writers'[s][m] \in {writers[s][m], NoJob}
            BY <2>3, <3>1 DEF Unwrite, DropWriters, Assign, Typed
        <3>3. rows' = rows  BY <2>3 DEF Unwrite
        <3> QED  BY <2>1, <3>2, <3>3, NewerKept
    <2>4. CASE ~Save(j) /\ ~Unwrite(j)
        <3>1. UNCHANGED <<rows, writers>>
            BY <1>2, <2>4 DEF Worker, registryVars, CheckIn, MarkRunning, Turn, Answer, Retry,
                              Resume, Fail, Finish
        <3> QED  BY <1>1, <2>1, <3>1
    <2> QED  BY <2>2, <2>3, <2>4
<1>3. ASSUME NEW s \in Sources, Clear(s) \/ Reset(s)
      PROVE  WriterIsNewer'
    <2>1. writers' = writers /\ older' = older
        BY <1>3, ClearingFrame, ResetFrame
    <2>2. \A t \in Sources, m \in Msgs : rows'[t][m] \in {rows[t][m], NoJob}
        <3>1. CASE rows' = rows
            BY <3>1
        <3>2. CASE rows' = [rows EXCEPT ![s] = [m \in Msgs |-> NoJob]]
            BY <3>2 DEF Typed
        <3> QED  BY <1>3, <3>1, <3>2, RowsOnlyCleared
    <2> QED  BY <2>1, <2>2, NewerKept
<1>4. CASE UNCHANGED vars
    BY <1>1, <1>4 DEF vars, registryVars, historyVars
<1>5. CASE \E s \in Sources \cup {Local}, b \in BOOLEAN : Activate(s, b)
    BY <1>1, <1>5, SwitchFrame DEF historyVars
<1>6. CASE Drain
    BY <1>1, <1>6, DrainingFrame DEF historyVars
<1> QED  BY <1>2, <1>3, <1>4, <1>5, <1>6, NextCases, NewerRequest

\* The rows that a step replaces by another result.
Replaced ==
    \A s \in Sources, m \in Msgs :
        LET old == rows[s][m]  new == rows'[s][m] IN
        old # NoJob /\ new \notin {NoJob, old} => old \in older[new]

LEMMA ReplacedByNewer == Typed /\ WriterIsNewer /\ [Next]_vars => Replaced
<1> SUFFICES ASSUME Typed, WriterIsNewer, [Next]_vars, NEW s \in Sources, NEW m \in Msgs,
                    rows[s][m] # NoJob, rows'[s][m] \notin {NoJob, rows[s][m]}
             PROVE  rows[s][m] \in older[rows'[s][m]]
    BY DEF Replaced
<1>1. ASSUME NEW j \in Jobs, Worker(j)
      PROVE  rows[s][m] \in older[rows'[s][m]]
    <2>1. CASE Save(j)
        BY <2>1, SaveMine DEF WriterIsNewer
    <2>2. CASE ~Save(j)
        BY <1>1, <2>2 DEF Worker, CheckIn, MarkRunning, Turn, Answer, Retry, Resume, Fail, Unwrite,
                          Finish
    <2> QED  BY <2>1, <2>2
<1>2. ASSUME NEW j \in Jobs, Request(j) \/ Decide(j)
      PROVE  FALSE
    BY <1>2 DEF Request, Decide, Refuse, Start, StartDone, StartFails, Enroll
<1>3. ASSUME NEW t \in Sources, Clear(t) \/ Reset(t)
      PROVE  FALSE
    <2>1. CASE rows' = rows
        BY <2>1
    <2>2. CASE rows' = [rows EXCEPT ![t] = [k \in Msgs |-> NoJob]]
        BY <2>2 DEF Typed
    <2> QED  BY <1>3, <2>1, <2>2, RowsOnlyCleared
<1>4. rows' # rows
    OBVIOUS
<1> QED
    BY <1>1, <1>2, <1>3, <1>4, NextCases, SwitchFrame, DrainingFrame DEF vars

\* A background job that comes back late does not overwrite a message that
\* was recomputed meanwhile (api_insight_writers): results only get newer.
THEOREM NewestWins == Spec => NewestResultWins
<1>1. Typed /\ WriterIsNewer /\ [Next]_vars => [Replaced]_vars
    BY ReplacedByNewer
<1>2. Spec => [][Replaced]_vars
    BY <1>1, TypedInvariant, LiveAlways, ClearAlways, NewerInit, NewerNext, PTL DEF Spec
<1> QED  BY <1>2, PTL DEF NewestResultWins, Replaced

-----------------------------------------------------------------------------
(* The composition implements ApiInsights *)

GuidanceStep(g) == Ask(g) \/ GuidanceDecides(g) \/ GuidanceWorks(g)

LEMMA StepImplements == [GuidanceNext]_allVars => [Next]_vars
<1> SUFFICES ASSUME [GuidanceNext]_allVars  PROVE [Next]_vars
    OBVIOUS
<1>1. CASE UNCHANGED allVars
    BY <1>1 DEF allVars
<1>2. CASE \E g \in Guidances : GuidanceStep(g) /\ UNCHANGED vars
    BY <1>2
<1>3. CASE EditSettings /\ UNCHANGED vars
    BY <1>3
<1>4. CASE \E j \in Jobs : Alone(Request(j)) \/ Alone(Decide(j)) \/ Alone(Worker(j))
    BY <1>4 DEF Alone, Next
<1>5. CASE Switch
    BY <1>5 DEF Switch, SwitchWith, Next, ActivateLocal, ActivateApi
<1>6. CASE \E s \in Sources :
              \/ Alone(ClearBegin(s)) \/ ClearsBoth(s) \/ Alone(CacheResume(s))
              \/ Alone(ResetBegin(s)) \/ ResetsBoth(s)
    BY <1>6 DEF Alone, ClearsBoth, ClearAlone, ResetsBoth, DropWithSource, DeleteWithSource,
                ResetWithSource, Next, ClearStep, ResetStep
<1>7. CASE \/ Alone(DrainBegin) \/ DrainForgets \/ SeesIdle \/ SeesRequestsReturned
           \/ Alone(DrainFails) \/ Alone(Reopen)
    BY <1>7 DEF Alone, DrainForgets, SeesIdle, SeesRequestsReturned, Next
<1> QED  BY <1>1, <1>2, <1>3, <1>4, <1>5, <1>6, <1>7 DEF GuidanceNext, GuidanceStep

\* Guidance beside them changes nothing for the insight jobs: whatever is proved
\* of ApiInsights holds of the bridge that runs both (the shared registry lock,
\* counter and clears of start_guidance and start_model_insights).
THEOREM GuidanceImplementsInsights == GuidanceSpec => Spec
<1>1. GuidanceInitial => Init  BY DEF GuidanceInitial
<1> QED  BY <1>1, StepImplements, PTL DEF GuidanceSpec, Spec

-----------------------------------------------------------------------------
(* What a step of the others may do to guidance *)

Outside ==
    /\ UNCHANGED <<settings, guidanceInflight, guidancePc, guidance, guidanceAttempt, before>>
    /\ guidance_jobs' \subseteq guidance_jobs
    /\ saved' \subseteq saved
    /\ \/ guidanceStatus' = guidanceStatus
       \/ \E s \in Sources :
             /\ guidanceStatus' = [g \in Guidances |-> IF g \in guidance_jobs \cap FromSource(s)
                                                       THEN "cancelled" ELSE guidanceStatus[g]]
             /\ guidance_jobs' = guidance_jobs \ FromSource(s)

OtherNext ==
    \/ \E j \in Jobs : Alone(Request(j)) \/ Alone(Decide(j)) \/ Alone(Worker(j))
    \/ Switch
    \/ \E s \in Sources :
          \/ Alone(ClearBegin(s)) \/ ClearsBoth(s) \/ Alone(CacheResume(s))
          \/ Alone(ResetBegin(s)) \/ ResetsBoth(s)
    \/ Alone(DrainBegin) \/ DrainForgets \/ SeesIdle \/ SeesRequestsReturned
    \/ Alone(DrainFails) \/ Alone(Reopen)
    \/ UNCHANGED allVars

LEMMA GuidanceCases ==
    ASSUME [GuidanceNext]_allVars
    PROVE  \/ \E g \in Guidances : GuidanceStep(g) /\ UNCHANGED vars
           \/ EditSettings /\ UNCHANGED vars
           \/ OtherNext
BY DEF GuidanceNext, GuidanceStep, OtherNext

LEMMA OthersStayOutside == OtherNext => Outside
<1> SUFFICES ASSUME OtherNext  PROVE Outside
    OBVIOUS
<1>1. ASSUME UNCHANGED guidanceVars  PROVE Outside
    BY <1>1 DEF guidanceVars, Outside
<1>2. CASE \E j \in Jobs : Alone(Request(j)) \/ Alone(Decide(j)) \/ Alone(Worker(j))
    BY <1>1, <1>2 DEF Alone
<1>3. CASE Switch
    BY <1>3 DEF Switch, SwitchWith, ForgetAll, KeepAll, OthersUnchanged, Outside
<1>4. ASSUME NEW s \in Sources,
             \/ Alone(ClearBegin(s)) \/ ClearsBoth(s) \/ Alone(CacheResume(s))
             \/ Alone(ResetBegin(s)) \/ ResetsBoth(s)
      PROVE  Outside
    <2>1. CASE DropWithSource(s) \/ DeleteWithSource(s)
        BY <2>1 DEF DropWithSource, DeleteWithSource, OthersUnchanged, Outside
    <2>2. CASE ResetWithSource(s)
        BY <2>2 DEF ResetWithSource, OthersUnchanged, Outside
    <2>3. CASE UNCHANGED guidanceVars
        BY <1>1, <2>3
    <2> QED  BY <1>4, <2>1, <2>2, <2>3 DEF Alone, ClearsBoth, ResetsBoth
<1>5. CASE \/ Alone(DrainBegin) \/ DrainForgets \/ SeesIdle \/ SeesRequestsReturned
           \/ Alone(DrainFails) \/ Alone(Reopen)
    <2>1. CASE DrainForgets
        BY <2>1 DEF DrainForgets, ForgetAll, OthersUnchanged, Outside
    <2> QED  BY <1>1, <1>5, <2>1 DEF Alone, SeesIdle, SeesRequestsReturned
<1>6. CASE UNCHANGED allVars
    BY <1>1, <1>6 DEF allVars
<1> QED  BY <1>2, <1>3, <1>4, <1>5, <1>6 DEF OtherNext

-----------------------------------------------------------------------------
(* Types *)

\* The counter is left to the lemma that counts workers.
GuidanceTyped ==
    /\ settings \in Stamps
    /\ guidance_jobs \in SUBSET Guidances
    /\ guidancePc \in [Guidances -> {"unused", "reading", "refused", "gone"} \cup GuidanceWorker]
    /\ guidance \in [Guidances -> GuidanceRecord]
    /\ guidanceStatus \in [Guidances -> Statuses]
    /\ guidanceAttempt \in [Guidances -> 0..ModelRetryMax]
    /\ saved \in SUBSET Guidances
    /\ before \in [Guidances -> SUBSET Guidances]

LEMMA NoGuidanceTyped == NoGuidance \in GuidanceRecord
<1> USE InsightsAssumption
<1>1. (CHOOSE s \in Sources : TRUE) \in Sources  OBVIOUS
<1>2. 0 \in 0..MaxReset /\ 0 \in 0..MaxClear /\ 0 \in 0..MaxSwitch  OBVIOUS
<1> QED  BY <1>1, <1>2 DEF NoGuidance, GuidanceRecord, Epochs

LEMMA GuidanceTypedInit == GuidanceInit => GuidanceTyped
<1>1. 0 \in 0..ModelRetryMax /\ 0 \in Stamps
    BY GuidanceAssumption DEF Stamps
<1> QED  BY <1>1, NoGuidanceTyped DEF GuidanceInit, GuidanceTyped, Statuses

LEMMA GuidanceTypedStep ==
    ASSUME Typed, GuidanceTyped, NEW g \in Guidances, GuidanceStep(g)
    PROVE  GuidanceTyped'
<1>1. guidancePc' \in [Guidances -> {"unused", "reading", "refused", "gone"} \cup GuidanceWorker]
    BY DEF GuidanceTyped, GuidanceStep, GuidanceDecides, GuidanceWorks, GuidanceWorker,
       GuidanceActive, Ask, Decline, Launch, LaunchFails, GoOn, Accept, SetRunning, Consult,
       Postpone, TryAgain, SaveGuidance, GiveUp, CheckFails, AnswerRefused, Errs, Leave
<1>2. guidance' \in [Guidances -> GuidanceRecord]
    <2>1. CASE Ask(g)
        <3>1. active \in Sources /\ settings \in Stamps  BY <2>1 DEF Ask, GuidanceTyped
        <3>2. Epoch(active) \in Epochs  BY <3>1 DEF Typed, Epoch, Epochs
        <3>3. revision \in 0..MaxSwitch  BY DEF Typed
        <3> QED  BY <2>1, <3>1, <3>2, <3>3 DEF Ask, GuidanceTyped, GuidanceRecord
    <2>2. CASE Decline(g)
        BY <2>2, NoGuidanceTyped DEF Decline, GuidanceTyped
    <2>3. CASE ~Ask(g) /\ ~Decline(g)
        BY <2>3 DEF GuidanceTyped, GuidanceStep, GuidanceDecides, GuidanceWorks, Launch,
           LaunchFails, GoOn, Accept, SetRunning, Consult, Postpone, TryAgain, SaveGuidance,
           GiveUp, CheckFails, AnswerRefused, Errs, Leave
    <2> QED  BY <2>1, <2>2, <2>3
<1>3. guidanceStatus' \in [Guidances -> Statuses]
    BY DEF GuidanceTyped, Statuses, GuidanceStep, GuidanceDecides, GuidanceWorks, Ask,
       Decline, Launch, LaunchFails, Accept, SetRunning, Consult, Postpone, TryAgain,
       SaveGuidance, GiveUp, CheckFails, AnswerRefused, Errs, Leave
<1>4. guidanceAttempt' \in [Guidances -> 0..ModelRetryMax]
    <2>1. CASE Postpone(g)
        BY <2>1, GuidanceAssumption DEF Postpone, GuidanceTyped
    <2>2. CASE Leave(g)
        <3>1. 0 \in 0..ModelRetryMax  BY GuidanceAssumption
        <3> QED  BY <2>2, <3>1 DEF Leave, GuidanceTyped
    <2>3. CASE ~Postpone(g) /\ ~Leave(g)
        BY <2>3 DEF GuidanceTyped, GuidanceStep, GuidanceDecides, GuidanceWorks, Ask,
           Decline, Launch, LaunchFails, Accept, SetRunning, Consult, TryAgain, SaveGuidance,
           GiveUp, CheckFails, AnswerRefused, Errs
    <2> QED  BY <2>1, <2>2, <2>3
<1>5. /\ settings' = settings
      /\ guidance_jobs' \in SUBSET Guidances /\ saved' \in SUBSET Guidances
      /\ before' \in [Guidances -> SUBSET Guidances]
    BY DEF GuidanceTyped, GuidanceStep, GuidanceDecides, GuidanceWorks, Ask, Decline, Launch,
       LaunchFails, GoOn, Accept, SetRunning, Consult, Postpone, TryAgain, SaveGuidance,
       GiveUp, CheckFails, AnswerRefused, Errs, Leave
<1> QED  BY <1>1, <1>2, <1>3, <1>4, <1>5 DEF GuidanceTyped

LEMMA GuidanceTypedNext == Typed /\ GuidanceTyped /\ [GuidanceNext]_allVars => GuidanceTyped'
<1> SUFFICES ASSUME Typed, GuidanceTyped, [GuidanceNext]_allVars  PROVE GuidanceTyped'
    OBVIOUS
<1>1. CASE EditSettings
    BY <1>1, GuidanceAssumption DEF EditSettings, GuidanceTyped, Stamps
<1>2. ASSUME Outside  PROVE GuidanceTyped'
    BY <1>2 DEF Outside, GuidanceTyped, Statuses
<1> QED  BY <1>1, <1>2, GuidanceCases, OthersStayOutside, GuidanceTypedStep

-----------------------------------------------------------------------------
(* The guidance workers' share of the counter *)

Counted == guidanceInflight = Cardinality(GuidanceWorkers)

LEMMA GuidanceWorkersFinite == IsFiniteSet(GuidanceWorkers)
BY GuidanceAssumption, FS_Subset DEF GuidanceWorkers

LEMMA GuidanceWorkersMove ==
    ASSUME GuidanceTyped, [GuidanceNext]_allVars
    PROVE  \/ GuidanceWorkers' = GuidanceWorkers /\ guidanceInflight' = guidanceInflight
           \/ \E g \in Guidances \ GuidanceWorkers :
                 GuidanceWorkers' = GuidanceWorkers \cup {g} /\ guidanceInflight' = guidanceInflight + 1
           \/ \E g \in GuidanceWorkers :
                 GuidanceWorkers' = GuidanceWorkers \ {g} /\ guidanceInflight' = guidanceInflight - 1
<1>1. ASSUME UNCHANGED <<guidancePc, guidanceInflight>>
      PROVE  GuidanceWorkers' = GuidanceWorkers /\ guidanceInflight' = guidanceInflight
    BY <1>1 DEF GuidanceWorkers
<1>2. ASSUME NEW g \in Guidances, Ask(g) \/ Decline(g)
      PROVE  GuidanceWorkers' = GuidanceWorkers /\ guidanceInflight' = guidanceInflight
    BY <1>2 DEF GuidanceTyped, Ask, Decline, GuidanceWorkers, GuidanceWorker, GuidanceActive
<1>3. ASSUME NEW g \in Guidances, Launch(g)
      PROVE  /\ g \in Guidances \ GuidanceWorkers
             /\ GuidanceWorkers' = GuidanceWorkers \cup {g} /\ guidanceInflight' = guidanceInflight + 1
    BY <1>3 DEF GuidanceTyped, Launch, GuidanceWorkers, GuidanceWorker, GuidanceActive
<1>4. ASSUME NEW g \in Guidances, LaunchFails(g) \/ Leave(g)
      PROVE  /\ g \in GuidanceWorkers
             /\ GuidanceWorkers' = GuidanceWorkers \ {g} /\ guidanceInflight' = guidanceInflight - 1
    BY <1>4 DEF GuidanceTyped, LaunchFails, Leave, GoOn, GuidanceWorkers, GuidanceWorker,
        GuidanceActive
<1>5. ASSUME NEW g \in Guidances,
             \/ Accept(g) \/ SetRunning(g) \/ Consult(g) \/ Postpone(g) \/ TryAgain(g)
             \/ SaveGuidance(g) \/ GiveUp(g)
      PROVE  GuidanceWorkers' = GuidanceWorkers /\ guidanceInflight' = guidanceInflight
    <2>1. guidancePc[g] \in GuidanceWorker /\ guidancePc'[g] \in GuidanceWorker
        BY <1>5 DEF GuidanceTyped, GuidanceWorker, GuidanceActive, GoOn, Accept, SetRunning,
           Consult, Postpone, TryAgain, SaveGuidance, GiveUp, CheckFails, AnswerRefused, Errs
    <2>2. \A h \in Guidances \ {g} : guidancePc'[h] = guidancePc[h]
        BY <1>5 DEF GuidanceTyped, GoOn, Accept, SetRunning, Consult, Postpone, TryAgain,
           SaveGuidance, GiveUp, CheckFails, AnswerRefused, Errs
    <2>3. guidanceInflight' = guidanceInflight
        BY <1>5 DEF Accept, SetRunning, Consult, Postpone, TryAgain, SaveGuidance, GiveUp,
           CheckFails, AnswerRefused, Errs
    <2> QED  BY <2>1, <2>2, <2>3 DEF GuidanceWorkers
<1>6. EditSettings \/ Outside => UNCHANGED <<guidancePc, guidanceInflight>>
    BY DEF EditSettings, Outside
<1> QED
    BY <1>1, <1>2, <1>3, <1>4, <1>5, <1>6, GuidanceCases, OthersStayOutside
    DEF GuidanceStep, GuidanceDecides, GuidanceWorks

LEMMA GuidanceCountedInit == GuidanceInit => Counted
<1> SUFFICES ASSUME GuidanceInit  PROVE Counted
    OBVIOUS
<1>1. GuidanceWorkers = {}
    BY DEF GuidanceInit, GuidanceWorkers, GuidanceWorker, GuidanceActive
<1> QED  BY <1>1, FS_EmptySet DEF GuidanceInit, Counted

LEMMA GuidanceCountedNext == GuidanceTyped /\ Counted /\ [GuidanceNext]_allVars => Counted'
<1> SUFFICES ASSUME GuidanceTyped, Counted, [GuidanceNext]_allVars
             PROVE  guidanceInflight' = Cardinality(GuidanceWorkers')
    BY DEF Counted
<1>1. guidanceInflight = Cardinality(GuidanceWorkers) /\ Cardinality(GuidanceWorkers) \in Nat
    BY GuidanceWorkersFinite, FS_CardinalityType DEF Counted
<1>2. ASSUME NEW g \in Guidances \ GuidanceWorkers,
             GuidanceWorkers' = GuidanceWorkers \cup {g},
             guidanceInflight' = guidanceInflight + 1
      PROVE  guidanceInflight' = Cardinality(GuidanceWorkers')
    BY <1>1, <1>2, GuidanceWorkersFinite, FS_AddElement
<1>3. ASSUME NEW g \in GuidanceWorkers,
             GuidanceWorkers' = GuidanceWorkers \ {g}, guidanceInflight' = guidanceInflight - 1
      PROVE  guidanceInflight' = Cardinality(GuidanceWorkers')
    BY <1>1, <1>3, GuidanceWorkersFinite, FS_RemoveElement
<1>4. ASSUME GuidanceWorkers' = GuidanceWorkers, guidanceInflight' = guidanceInflight
      PROVE  guidanceInflight' = Cardinality(GuidanceWorkers')
    BY <1>1, <1>4
<1> QED  BY <1>2, <1>3, <1>4, GuidanceWorkersMove

-----------------------------------------------------------------------------
(* The registry *)

Launched(g) == guidancePc[g] \notin {"unused", "reading", "refused"}

\* A job in the registry is the last one registered under its key.
Registry ==
    /\ \A g \in Guidances : Launched(g) <=> guidanceStatus[g] # "none"
    /\ \A g \in guidance_jobs \cup saved : Launched(g)
    /\ \A g \in guidance_jobs : Unfinished(g) => guidancePc[g] \in GuidanceActive
    /\ \A g \in guidance_jobs : \A h \in Guidances \ {g} :
          Launched(h) /\ JobKey(h) = JobKey(g) => h \in before[g]

LEMMA RegistryInit == GuidanceInit => Registry
BY DEF GuidanceInit, Registry, Launched

LEMMA RegistryOutside ==
    ASSUME GuidanceTyped, Registry, Outside
    PROVE  Registry'
<1>1. /\ \A g \in Guidances : guidanceStatus'[g] # "none" <=> guidanceStatus[g] # "none"
      /\ \A g \in guidance_jobs' : guidanceStatus'[g] = guidanceStatus[g]
    <2>1. CASE guidanceStatus' = guidanceStatus
        BY <2>1
    <2>2. ASSUME NEW s \in Sources,
                 guidanceStatus' = [g \in Guidances |-> IF g \in guidance_jobs \cap FromSource(s)
                                                        THEN "cancelled" ELSE guidanceStatus[g]],
                 guidance_jobs' = guidance_jobs \ FromSource(s)
          PROVE  /\ \A g \in Guidances : guidanceStatus'[g] # "none" <=> guidanceStatus[g] # "none"
                 /\ \A g \in guidance_jobs' : guidanceStatus'[g] = guidanceStatus[g]
        BY <2>2 DEF GuidanceTyped, Registry
    <2> QED  BY <2>1, <2>2 DEF Outside
<1> QED  BY <1>1 DEF GuidanceTyped, Registry, Outside, Launched, JobKey, Unfinished

\* A step of g before its job exists, or of its worker, that registers nothing.
LEMMA RegistryWorker ==
    ASSUME GuidanceTyped, Registry, NEW g \in Guidances,
           \/ LaunchFails(g) \/ Accept(g) \/ SetRunning(g) \/ Consult(g) \/ Postpone(g)
           \/ TryAgain(g) \/ SaveGuidance(g) \/ GiveUp(g) \/ Leave(g)
    PROVE  Registry'
<1>1. /\ UNCHANGED <<guidance_jobs, guidance, before>>
      /\ \A h \in Guidances \ {g} : /\ guidancePc'[h] = guidancePc[h]
                                   /\ guidanceStatus'[h] = guidanceStatus[h]
    BY DEF GuidanceTyped, GoOn, LaunchFails, Accept, SetRunning, Consult, Postpone, TryAgain,
       SaveGuidance, GiveUp, CheckFails, AnswerRefused, Errs, Leave
<1>2. Launched(g) /\ guidancePc'[g] \notin {"unused", "reading", "refused"}
    BY DEF GuidanceTyped, Launched, GuidanceActive, GoOn, LaunchFails, Accept, SetRunning,
       Consult, Postpone, TryAgain, SaveGuidance, GiveUp, CheckFails, AnswerRefused, Errs,
       Leave
<1>3. guidanceStatus'[g] # "none"
    BY <1>2 DEF GuidanceTyped, Registry, LaunchFails, Accept, SetRunning, Consult, Postpone,
       TryAgain, SaveGuidance, GiveUp, CheckFails, AnswerRefused, Errs, Leave
<1>4. g \in guidance_jobs /\ guidanceStatus'[g] \in {"queued", "running"}
        => guidancePc'[g] \in GuidanceActive
    BY DEF GuidanceTyped, Registry, Unfinished, GuidanceActive, GoOn, LaunchFails, Accept,
       SetRunning, Consult, Postpone, TryAgain, SaveGuidance, GiveUp, CheckFails,
       AnswerRefused, Errs, Leave
<1>5. saved' \subseteq saved \cup {g}
    BY DEF LaunchFails, Accept, SetRunning, Consult, Postpone, TryAgain, SaveGuidance,
       GiveUp, CheckFails, AnswerRefused, Errs, Leave
<1>6. \A h \in Guidances : (guidancePc'[h] \notin {"unused", "reading", "refused"}) <=> Launched(h)
    BY <1>1, <1>2 DEF Launched
<1>7. \A h \in Guidances : Launched(h) <=> guidanceStatus'[h] # "none"
    BY <1>1, <1>2, <1>3 DEF Registry
<1>8. \A h \in guidance_jobs \cup saved' : Launched(h)
    BY <1>2, <1>5 DEF Registry
<1>9. \A h \in guidance_jobs : guidanceStatus'[h] \in {"queued", "running"}
                                 => guidancePc'[h] \in GuidanceActive
    BY <1>1, <1>4 DEF GuidanceTyped, Registry, Unfinished
<1>10. \A h \in Guidances : (Launched(h)' <=> Launched(h)) /\ JobKey(h)' = JobKey(h)
    BY <1>1, <1>6 DEF Launched, JobKey
<1>11. \A h \in guidance_jobs : Unfinished(h)' => guidancePc'[h] \in GuidanceActive
    BY <1>9 DEF Unfinished
<1>12. \A k \in guidance_jobs' : \A h \in Guidances \ {k} :
           Launched(h)' /\ JobKey(h)' = JobKey(k)' => h \in before'[k]
    BY <1>1, <1>10 DEF GuidanceTyped, Registry
<1>13. \A h \in guidance_jobs' \cup saved' : Launched(h)'
    BY <1>1, <1>5, <1>8, <1>10 DEF GuidanceTyped
<1>14. \A h \in Guidances : Launched(h)' <=> guidanceStatus'[h] # "none"
    BY <1>7, <1>10
<1> QED
    BY <1>1, <1>11, <1>12, <1>13, <1>14 DEF Registry

LEMMA RegistryRequest ==
    ASSUME GuidanceTyped, Registry, NEW g \in Guidances, Ask(g) \/ Decline(g)
    PROVE  Registry'
<1>1. /\ UNCHANGED <<guidance_jobs, guidanceStatus, saved, before>>
      /\ \A h \in Guidances \ {g} : guidancePc'[h] = guidancePc[h] /\ guidance'[h] = guidance[h]
    BY DEF GuidanceTyped, Ask, Decline
<1>2. ~Launched(g) /\ guidancePc'[g] \in {"unused", "reading", "refused"}
    BY DEF GuidanceTyped, Launched, Ask, Decline
<1>3. g \notin guidance_jobs \cup saved
    BY <1>2 DEF Registry
<1>4. \A h \in Guidances : (guidancePc'[h] \notin {"unused", "reading", "refused"}) <=> Launched(h)
    BY <1>1, <1>2 DEF Launched
<1>5. \A h \in Guidances \ {g} : guidance'[h] = guidance[h]
    BY <1>1
<1> QED
    BY <1>1, <1>2, <1>3, <1>4, <1>5 DEF GuidanceTyped, Registry, Launched, JobKey, Unfinished

LEMMA RegistryLaunch ==
    ASSUME GuidanceTyped, Registry, NEW g \in Guidances, Launch(g)
    PROVE  Registry'
<1>1. /\ UNCHANGED <<guidance, saved>>
      /\ guidance_jobs' = {h \in guidance_jobs : JobKey(h) # JobKey(g)} \cup {g}
      /\ \A h \in Guidances \ {g} : /\ guidancePc'[h] = guidancePc[h]
                                   /\ guidanceStatus'[h] = guidanceStatus[h]
                                   /\ before'[h] = before[h]
      /\ guidancePc'[g] = "queued" /\ guidanceStatus'[g] = "queued"
      /\ before'[g] = {h \in Guidances : guidanceStatus[h] # "none"}
    BY DEF GuidanceTyped, Launch
<1>2. \A h \in Guidances : (guidancePc'[h] \notin {"unused", "reading", "refused"})
                              <=> (Launched(h) \/ h = g)
    BY <1>1 DEF Launched
<1>3. \A h \in Guidances : (Launched(h) \/ h = g) <=> guidanceStatus'[h] # "none"
    BY <1>1 DEF Registry
<1>4. \A h \in guidance_jobs' \cup saved' : Launched(h) \/ h = g
    BY <1>1 DEF Registry
<1>5. \A h \in guidance_jobs' : guidanceStatus'[h] \in {"queued", "running"}
                                  => guidancePc'[h] \in GuidanceActive
    BY <1>1 DEF GuidanceTyped, Registry, Unfinished, GuidanceActive
<1>6. ASSUME NEW k \in guidance_jobs', NEW h \in Guidances \ {k}, Launched(h) \/ h = g,
             JobKey(h) = JobKey(k)
      PROVE  h \in before'[k]
    <2>1. CASE k = g
        BY <1>1, <1>6, <2>1 DEF Registry
    <2>2. CASE k # g
        <3>1. k \in guidance_jobs /\ JobKey(k) # JobKey(g)  BY <1>1, <2>2
        <3>2. h # g  BY <1>6, <3>1
        <3> QED  BY <1>1, <1>6, <2>2, <3>1, <3>2 DEF GuidanceTyped, Registry
    <2> QED  BY <2>1, <2>2
<1>7. \A h \in Guidances : (Launched(h)' <=> (Launched(h) \/ h = g)) /\ JobKey(h)' = JobKey(h)
    BY <1>1, <1>2 DEF Launched, JobKey
<1>8. \A h \in guidance_jobs' : Unfinished(h)' => guidancePc'[h] \in GuidanceActive
    BY <1>5 DEF Unfinished
<1>9. guidance_jobs' \cup saved' \subseteq Guidances
    BY <1>1 DEF GuidanceTyped
<1> QED
    BY <1>3, <1>4, <1>6, <1>7, <1>8, <1>9 DEF Registry

LEMMA RegistryNext == GuidanceTyped /\ Registry /\ [GuidanceNext]_allVars => Registry'
<1>1. ASSUME Registry, EditSettings  PROVE Registry'
    BY <1>1 DEF EditSettings, Registry, Launched, JobKey, Unfinished
<1> QED
    BY <1>1, GuidanceCases, OthersStayOutside, RegistryOutside, RegistryWorker, RegistryRequest,
       RegistryLaunch
    DEF GuidanceStep, GuidanceDecides, GuidanceWorks

-----------------------------------------------------------------------------
(* No guidance from before a clear *)

\* Like the insight jobs: a registered job was requested after the last deletion,
\* and between the emptying and the deletion of a clear only requests that saw its
\* epoch get in.
GuidanceFresh ==
    /\ \A g \in guidance_jobs \cup saved :
          /\ guidance[g].epoch.source >= floor[guidance[g].source].source
          /\ guidance[g].epoch.scope >= floor[guidance[g].source].scope
    /\ \A g \in guidance_jobs :
          cachePc[guidance[g].source] = "dropped"
              => guidance[g].epoch.source >= sourceEpoch[guidance[g].source]

LEMMA GuidanceFreshInit == GuidanceInit => GuidanceFresh
BY DEF GuidanceInit, GuidanceFresh

\* Nothing moves under the jobs that stay.
LEMMA GuidanceFreshStays ==
    ASSUME GuidanceTyped, GuidanceFresh, guidance' = guidance,
           guidance_jobs' \subseteq guidance_jobs, saved' \subseteq saved \cup guidance_jobs,
           \A g \in guidance_jobs' \cup saved' :
              LET s == guidance[g].source IN floor'[s] = floor[s],
           \A g \in guidance_jobs' :
              LET s == guidance[g].source IN
              cachePc'[s] = "dropped" => cachePc[s] = "dropped" /\ sourceEpoch'[s] = sourceEpoch[s]
    PROVE  GuidanceFresh'
BY DEF GuidanceTyped, GuidanceFresh

LEMMA GuidanceFreshStep ==
    ASSUME Typed, EpochsGrow, GuidanceTyped, Registry, GuidanceFresh,
           NEW g \in Guidances, GuidanceStep(g), UNCHANGED vars
    PROVE  GuidanceFresh'
<1>1. UNCHANGED <<floor, cachePc, sourceEpoch, scopeEpoch>>
    BY DEF vars, clearVars, historyVars
<1>2. CASE Ask(g) \/ Decline(g)
    <2>1. /\ UNCHANGED <<guidance_jobs, saved>>
          /\ \A h \in Guidances \ {g} : guidance'[h] = guidance[h]
        BY <1>2 DEF GuidanceTyped, Ask, Decline
    <2>2. g \notin guidance_jobs \cup saved
        BY <1>2 DEF Registry, Launched, Ask, Decline
    <2> QED  BY <1>1, <2>1, <2>2 DEF GuidanceTyped, GuidanceFresh
<1>3. CASE Launch(g)
    <2>1. guidance' = guidance /\ saved' = saved /\ guidance_jobs' \subseteq guidance_jobs \cup {g}
        BY <1>3 DEF Launch
    <2>2. guidance[g].source \in Sources
        BY DEF GuidanceTyped, GuidanceRecord
    <2>3. /\ guidance[g].epoch.source = sourceEpoch[guidance[g].source]
          /\ guidance[g].epoch.scope = scopeEpoch[guidance[g].source]
        BY <1>3 DEF Launch, GuidanceEpochCurrent, Epoch
    <2>4. /\ sourceEpoch[guidance[g].source] >= floor[guidance[g].source].source
          /\ scopeEpoch[guidance[g].source] >= floor[guidance[g].source].scope
          /\ sourceEpoch[guidance[g].source] >= sourceEpoch[guidance[g].source]
        BY <2>2 DEF EpochsGrow, Typed, Epochs
    <2> QED  BY <1>1, <2>1, <2>3, <2>4 DEF GuidanceFresh
<1>4. CASE GuidanceWorks(g)
    <2>1. UNCHANGED <<guidance_jobs, guidance>>
        BY <1>4 DEF GuidanceWorks, GoOn, LaunchFails, Accept, SetRunning, Consult, Postpone,
           TryAgain, SaveGuidance, GiveUp, CheckFails, AnswerRefused, Errs, Leave
    <2>2. saved' \subseteq saved \cup guidance_jobs
        BY <1>4 DEF GuidanceWorks, LaunchFails, Accept, SetRunning, Consult, Postpone,
           TryAgain, SaveGuidance, GiveUp, CheckFails, AnswerRefused, Errs, Leave, Wanted,
           StillRegistered
    <2> QED  BY <1>1, <2>1, <2>2, GuidanceFreshStays
<1> QED  BY <1>2, <1>3, <1>4 DEF GuidanceStep, GuidanceDecides

LEMMA GuidanceFreshSource ==
    ASSUME Typed, GuidanceTyped, GuidanceFresh, Outside, NEW s \in Sources,
           \/ Alone(ClearBegin(s)) \/ ClearsBoth(s) \/ Alone(CacheResume(s))
           \/ Alone(ResetBegin(s)) \/ ResetsBoth(s)
    PROVE  GuidanceFresh'
<1>1. /\ guidance' = guidance
      /\ guidance_jobs' \subseteq guidance_jobs /\ saved' \subseteq saved
      /\ \A g \in guidance_jobs \cup saved : g \in Guidances /\ guidance[g].source \in Sources
    BY DEF Outside, GuidanceTyped, GuidanceRecord
<1>2. CASE DeleteWithSource(s)
    <2>1. /\ guidance_jobs' = guidance_jobs /\ saved' = saved \ FromSource(s)
          /\ cachePc[s] = "dropped" /\ sourceEpoch' = sourceEpoch
          /\ floor' = [floor EXCEPT ![s].source = sourceEpoch[s]]
          /\ cachePc' = [cachePc EXCEPT ![s] = "deleted"]
        BY <1>2 DEF DeleteWithSource, ClearDelete
    <2>2. \A r \in Sources \ {s} : floor'[r] = floor[r] /\ cachePc'[r] = cachePc[r]
        BY <2>1 DEF Typed
    <2>3. floor'[s].source = sourceEpoch[s] /\ floor'[s].scope = floor[s].scope /\ cachePc'[s] # "dropped"
        BY <2>1 DEF Typed, Epochs
    <2>4. \A g \in saved' : guidance[g].source # s
        BY <1>1, <2>1 DEF FromSource
    <2> QED  BY <1>1, <2>1, <2>2, <2>3, <2>4 DEF GuidanceFresh
<1>3. CASE ResetWithSource(s)
    <2>1. /\ guidance_jobs' = guidance_jobs \ FromSource(s) /\ saved' = saved \ FromSource(s)
          /\ UNCHANGED <<cachePc, sourceEpoch>>
          /\ floor' = [floor EXCEPT ![s].scope = scopeEpoch[s]]
        BY <1>3 DEF ResetWithSource, ResetClear
    <2>2. \A r \in Sources \ {s} : floor'[r] = floor[r]
        BY <2>1 DEF Typed
    <2>3. \A g \in guidance_jobs' \cup saved' : guidance[g].source # s
        BY <1>1, <2>1 DEF FromSource
    <2> QED  BY <1>1, <2>1, <2>2, <2>3, GuidanceFreshStays
<1>4. CASE DropWithSource(s)
    <2>1. /\ guidance_jobs' = guidance_jobs \ FromSource(s)
          /\ UNCHANGED <<floor, sourceEpoch>>
          /\ cachePc' = [cachePc EXCEPT ![s] = "dropped"]
        BY <1>4 DEF DropWithSource, ClearDrop
    <2>2. \A r \in Sources \ {s} : cachePc'[r] = cachePc[r]
        BY <2>1 DEF Typed
    <2>3. \A g \in guidance_jobs' : guidance[g].source # s
        BY <1>1, <2>1 DEF FromSource
    <2> QED  BY <1>1, <2>1, <2>2, <2>3, GuidanceFreshStays
<1>5. CASE \/ Alone(ClearBegin(s)) \/ Alone(ClearAlone(s)) \/ Alone(CacheResume(s))
           \/ Alone(ResetBegin(s)) \/ Alone(ResetEnd(s))
    <2>1. floor' = floor
        BY <1>5 DEF Alone, ClearAlone, ClearBegin, ClearSuspend, ClearEnd, ClearFails,
            CacheResume,
                    ResetBegin, ResetEnd
    <2>2. \A r \in Sources : cachePc'[r] = "dropped" =>
              cachePc[r] = "dropped" /\ sourceEpoch'[r] = sourceEpoch[r]
        BY <1>5 DEF Typed, Alone, ClearAlone, ClearBegin, ClearSuspend, ClearEnd, ClearFails,
            CacheResume,
                    ResetBegin, ResetEnd
    <2> QED  BY <1>1, <2>1, <2>2, GuidanceFreshStays
<1> QED  BY <1>2, <1>3, <1>4, <1>5 DEF ClearsBoth, ResetsBoth

LEMMA GuidanceFreshNext ==
    ASSUME Typed, EpochsGrow, GuidanceTyped, Registry, GuidanceFresh, [GuidanceNext]_allVars
    PROVE  GuidanceFresh'
<1>1. ASSUME guidance' = guidance, guidance_jobs' \subseteq guidance_jobs,
    saved' \subseteq saved,
             UNCHANGED <<floor, cachePc, sourceEpoch>>
      PROVE  GuidanceFresh'
    BY <1>1, GuidanceFreshStays
<1>2. CASE EditSettings /\ UNCHANGED vars
    BY <1>1, <1>2 DEF EditSettings, vars, clearVars, historyVars
<1>3. ASSUME NEW j \in Jobs, Alone(Request(j)) \/ Alone(Decide(j)) \/ Alone(Worker(j)), Outside
      PROVE  GuidanceFresh'
    <2>1. UNCHANGED <<floor, cachePc, sourceEpoch>>
        BY <1>3, WorkerKeeps DEF Alone, Request, Decide, Refuse, Start, StartDone, StartFails,
            Enroll,
                                 clearVars, historyVars
    <2> QED  BY <1>1, <1>3, <2>1 DEF Outside
<1>4. ASSUME Switch, Outside  PROVE GuidanceFresh'
    BY <1>1, <1>4 DEF Outside, Switch, SwitchWith, Activate, clearVars, historyVars
<1>5. ASSUME \/ Alone(DrainBegin) \/ DrainForgets \/ SeesIdle \/ SeesRequestsReturned
             \/ Alone(DrainFails) \/ Alone(Reopen), Outside
      PROVE  GuidanceFresh'
    BY <1>1, <1>5 DEF Outside, Alone, DrainForgets, SeesIdle, SeesRequestsReturned, DrainBegin,
                      DrainCancel, DrainIdle, DrainDone, DrainFails, Reopen, DrainFrame,
                      clearVars,
                      historyVars
<1>6. ASSUME UNCHANGED allVars, Outside  PROVE GuidanceFresh'
    BY <1>1, <1>6 DEF Outside, allVars, vars, clearVars, historyVars
<1> QED
    BY <1>2, <1>3, <1>4, <1>5, <1>6, GuidanceCases, OthersStayOutside, GuidanceFreshStep,
        GuidanceFreshSource
    DEF OtherNext

-----------------------------------------------------------------------------
(* The drain *)

GuidanceDrained ==
    /\ drain \in {"waiting", "idle", "drained"} => guidance_jobs = {}
    /\ drain \in {"idle", "drained"} => GuidanceWorkers = {}

LEMMA DrainedInit == Init => GuidanceDrained
BY DEF Init, GuidanceDrained

LEMMA DrainedNext ==
    GuidanceTyped /\ Counted /\ GuidanceDrained /\ [GuidanceNext]_allVars => GuidanceDrained'
<1> SUFFICES ASSUME GuidanceTyped, Counted, GuidanceDrained, [GuidanceNext]_allVars
             PROVE  GuidanceDrained'
    OBVIOUS
<1>1. ASSUME guidance_jobs' \subseteq guidance_jobs, GuidanceWorkers' \subseteq GuidanceWorkers,
             drain' = drain
      PROVE  GuidanceDrained'
    BY <1>1 DEF GuidanceDrained
<1>2. ASSUME NEW g \in Guidances, Launch(g), drain' = drain
      PROVE  GuidanceDrained'
    BY <1>2 DEF Launch, closing, GuidanceDrained
<1>3. ASSUME NEW g \in Guidances, GuidanceStep(g), ~Launch(g), UNCHANGED vars
      PROVE  GuidanceDrained'
    <2>1. guidance_jobs' = guidance_jobs
        BY <1>3 DEF GuidanceStep, GuidanceDecides, GuidanceWorks, Ask, Decline, GoOn,
           LaunchFails, Accept, SetRunning, Consult, Postpone, TryAgain, SaveGuidance,
           GiveUp, CheckFails, AnswerRefused, Errs, Leave
    <2>2. guidancePc'[g] \in GuidanceWorker => guidancePc[g] \in GuidanceWorker
        BY <1>3 DEF GuidanceTyped, GuidanceStep, GuidanceDecides, GuidanceWorks, Ask,
           Decline, GoOn, LaunchFails, Accept, SetRunning, Consult, Postpone, TryAgain,
           SaveGuidance, GiveUp, CheckFails, AnswerRefused, Errs, Leave, GuidanceWorker,
           GuidanceActive
    <2>3. \A h \in Guidances \ {g} : guidancePc'[h] = guidancePc[h]
        BY <1>3 DEF GuidanceTyped, GuidanceStep, GuidanceDecides, GuidanceWorks, Ask,
           Decline, GoOn, LaunchFails, Accept, SetRunning, Consult, Postpone, TryAgain,
           SaveGuidance, GiveUp, CheckFails, AnswerRefused, Errs, Leave
    <2>4. GuidanceWorkers' \subseteq GuidanceWorkers
        BY <2>2, <2>3 DEF GuidanceWorkers
    <2> QED  BY <1>1, <1>3, <2>1, <2>4 DEF vars
<1>4. CASE EditSettings /\ UNCHANGED vars
    BY <1>1, <1>4 DEF EditSettings, vars, GuidanceWorkers
<1>5. ASSUME Outside, OtherNext  PROVE GuidanceDrained'
    <2>1. GuidanceWorkers' = GuidanceWorkers /\ guidance_jobs' \subseteq guidance_jobs
        BY <1>5 DEF Outside, GuidanceWorkers
    <2>2. ASSUME drain' = drain  PROVE GuidanceDrained'
        BY <1>1, <2>1, <2>2
    <2>3. CASE DrainForgets
        BY <2>3 DEF DrainForgets, ForgetAll, DrainCancel, GuidanceDrained
    <2>4. CASE SeesIdle
        <3>1. GuidanceWorkers = {}
            BY <2>4, GuidanceWorkersFinite, FS_EmptySet DEF SeesIdle, GuidanceIdle, Counted
        <3> QED  BY <2>1, <2>4, <3>1 DEF SeesIdle, Alone, DrainIdle, GuidanceDrained
    <2>5. CASE SeesRequestsReturned
        BY <2>1, <2>5 DEF SeesRequestsReturned, Alone, DrainDone, GuidanceDrained
    <2>6. CASE Alone(DrainBegin) \/ Alone(DrainFails) \/ Alone(Reopen)
        BY <2>6 DEF Alone, DrainBegin, DrainFails, Reopen, GuidanceDrained
    <2>7. CASE \E j \in Jobs : Alone(Request(j)) \/ Alone(Decide(j)) \/ Alone(Worker(j))
        BY <2>2, <2>7, WorkerKeeps DEF Alone, Request, Decide, Refuse, Start, StartDone,
            StartFails, Enroll
    <2>8. CASE Switch
        BY <2>2, <2>8 DEF Switch, SwitchWith, Activate
    <2>9. CASE \E s \in Sources :
                  \/ Alone(ClearBegin(s)) \/ ClearsBoth(s) \/ Alone(CacheResume(s))
                  \/ Alone(ResetBegin(s)) \/ ResetsBoth(s)
        BY <2>2, <2>9, ClearingFrame, ResetFrame
        DEF Alone, ClearsBoth, ClearAlone, ResetsBoth, DropWithSource, DeleteWithSource,
        ResetWithSource,
            Clear, ClearStep, Reset, ResetStep
    <2>10. CASE UNCHANGED allVars
        BY <2>2, <2>10 DEF allVars, vars
    <2> QED  BY <1>5, <2>3, <2>4, <2>5, <2>6, <2>7, <2>8, <2>9, <2>10 DEF OtherNext
<1> QED
    BY <1>2, <1>3, <1>4, <1>5, GuidanceCases, OthersStayOutside DEF vars

-----------------------------------------------------------------------------
(* The theorems *)

GuidanceInv == GuidanceTyped /\ Counted /\ Registry /\ GuidanceFresh /\ GuidanceDrained

LEMMA GuidanceInvariant == GuidanceSpec => [](Typed /\ EpochsGrow /\ GuidanceInv)
<1>1. GuidanceSpec => [](Typed /\ EpochsGrow)
    <2>1. FreshInv => EpochsGrow  BY DEF FreshInv
    <2> QED  BY <2>1, GuidanceImplementsInsights, TypedInvariant, ClearAlways, PTL
<1>2. GuidanceInitial => GuidanceInv
    BY GuidanceTypedInit, GuidanceCountedInit, RegistryInit, GuidanceFreshInit, DrainedInit
    DEF GuidanceInitial, GuidanceInv
<1>3. Typed /\ EpochsGrow /\ GuidanceInv /\ [GuidanceNext]_allVars => GuidanceInv'
    <2> SUFFICES ASSUME Typed, EpochsGrow, GuidanceInv,
        [GuidanceNext]_allVars  PROVE GuidanceInv'
        BY Zenon
    <2>1. GuidanceTyped /\ Counted /\ Registry /\ GuidanceFresh /\ GuidanceDrained
        BY Zenon DEF GuidanceInv
    <2>2. GuidanceTyped' /\ Counted' /\ Registry' /\ GuidanceDrained'
        BY <2>1, GuidanceTypedNext, GuidanceCountedNext, RegistryNext, DrainedNext, Zenon
    <2>3. GuidanceFresh'
        BY <2>1, GuidanceFreshNext, Zenon
    <2> QED  BY <2>2, <2>3, Zenon DEF GuidanceInv
<1> QED  BY <1>1, <1>2, <1>3, PTL DEF GuidanceSpec

\* A step that saves guidance: with the settings it was asked with, in the place of
\* a job registered before it.
Supersedes ==
    /\ \A g \in saved' \ saved : guidance[g].stamp \in {Plain, settings}
    /\ \A g \in saved' \ saved, h \in saved \ saved' : JobKey(h) = JobKey(g) => h \in before[g]

LEMMA SavedInOrder == GuidanceInv /\ [GuidanceNext]_allVars => Supersedes
<1> SUFFICES ASSUME GuidanceInv, [GuidanceNext]_allVars  PROVE Supersedes
    OBVIOUS
<1>1. ASSUME NEW g \in Guidances, SaveGuidance(g)  PROVE Supersedes
    <2>1. saved' = {h \in saved : JobKey(h) # JobKey(g)} \cup {g} /\ g \in guidance_jobs /\ SettingsHold(g)
        BY <1>1 DEF SaveGuidance, Wanted, StillRegistered
    <2>2. \A h \in saved \ saved' : h \in Guidances \ {g} /\ Launched(h)
        BY <2>1 DEF GuidanceInv, GuidanceTyped, Registry
    <2> QED  BY <2>1, <2>2 DEF GuidanceInv, Registry, Supersedes, SettingsHold
<1>2. ASSUME saved' \subseteq saved  PROVE Supersedes
    BY <1>2 DEF Supersedes
<1>3. ASSUME NEW g \in Guidances, GuidanceStep(g), ~SaveGuidance(g)  PROVE saved' = saved
    BY <1>3 DEF GuidanceStep, GuidanceDecides, GuidanceWorks, Ask, Decline, Launch,
       LaunchFails, Accept, SetRunning, Consult, Postpone, TryAgain, GiveUp, CheckFails,
       AnswerRefused, Errs, Leave
<1>4. EditSettings \/ Outside => saved' \subseteq saved
    BY DEF EditSettings, Outside
<1> QED  BY <1>1, <1>2, <1>3, <1>4, GuidanceCases, OthersStayOutside

\* The share of the counter is exact, a job shown as unfinished has a worker, and the
\* drain leaves no worker and no job (start_guidance 1383-1392, _run_guidance 1413).
THEOREM GuidanceLeavesNothingBehind == GuidanceSpec => []GuidanceLeavesNothing
<1>1. GuidanceInv => GuidanceLeavesNothing
    BY GuidanceWorkersFinite, FS_CardinalityType
    DEF GuidanceInv, GuidanceTyped, GuidanceTypeOK, Counted, Registry, GuidanceDrained,
        GuidanceLeavesNothing, Statuses
<1> QED  BY <1>1, GuidanceInvariant, PTL

\* Whatever is switched, cleared, reset, edited or drained under them, workers of
\* neither kind leave a mark behind (_run_guidance 1413, _run_model_insights 1644-1650).
THEOREM EitherLeavesNothing == GuidanceSpec => []NothingLeftByEither
BY GuidanceImplementsInsights, NothingLeft, GuidanceLeavesNothingBehind,
    PTL DEF NothingLeftByEither

\* No saved row of either kind is from before the last deletion of its source and
\* conversation (start_guidance 1366, start_model_insights 1548-1557).
THEOREM EitherStaysCleared == GuidanceSpec => []NothingFromBeforeClear
<1>1. GuidanceInv => NoGuidanceFromBeforeClear
    BY DEF GuidanceInv, GuidanceFresh, NoGuidanceFromBeforeClear
<1> QED
    BY <1>1, GuidanceInvariant, GuidanceImplementsInsights, ClearedStaysCleared, PTL
    DEF NothingFromBeforeClear

\* A late answer neither replaces that of a later job nor is saved under settings
\* that changed meanwhile (start_guidance 1360-1383, _run_guidance_bound 1466-1482).
THEOREM SavedInTime == GuidanceSpec => GuidanceInOrder
<1>1. GuidanceSpec => [][Supersedes]_allVars
    BY SavedInOrder, GuidanceInvariant, PTL DEF GuidanceSpec
<1> QED  BY <1>1, PTL DEF GuidanceInOrder, Supersedes

=============================================================================
