------------------------------ MODULE LocalQueue ------------------------------
(***************************************************************************)
(* The queue of the local model (class Backend of bridge/backend_service   *)
(* with the member tasks of bridge/batch_engine.py).  Requests register a  *)
(* job of a conversation and queue a task; workers take tasks, drive one   *)
(* turn of the conversation under its key lock and queue the next turn.    *)
(* Four things break in: the cache of the account is cleared, one          *)
(* conversation is reset, the model source leaves the local model and      *)
(* comes back, and the account is paused for a removal that fails.         *)
(*                                                                         *)
(* The visible window of a conversation has a task of its own ("recent");  *)
(* the background scan ("history", "incremental") is another task of the   *)
(* same job.  A re-analysis of one message and the portrait of a group     *)
(* member are jobs outside the registry "current".                         *)
(***************************************************************************)
EXTENDS Integers, Sequences, FiniteSets, Bags

CONSTANTS
    Keys,         \* conversations (account, path, user, version)
    Workers,      \* worker threads, the indices 0 .. n-1
    Requests,     \* what the client asks for: a subset of Kinds
    MaxJobs,      \* bound: jobs registered
    MaxPages,     \* bound: turns of an iterator before its last
    MaxDisturb,   \* bound: disturbances
    Disturbances  \* which ones the run has

Kinds == {"recent", "history", "incremental", "message", "member"}

ASSUME QueueAssumption ==
    /\ IsFiniteSet(Workers) /\ Workers = 0 .. Cardinality(Workers) - 1
    /\ Requests \subseteq Kinds
    /\ MaxJobs \in Nat /\ MaxPages \in Nat /\ MaxDisturb \in Nat
    /\ Disturbances \subseteq {"clear", "reset", "source", "pause", "limit", "fail", "unbound"}

VARIABLES
    jobs,        \* the job dicts, by number
    current,     \* jobs: the registered job of each conversation
    member,      \* member_jobs: the member job of each conversation
    window,      \* recent_windows
    iter,        \* history_iterators with their modes; owner is the job it reports to
    recheck,     \* incremental_recheck
    queue,       \* the bag of queued tasks
    worker,      \* where each thread is, and the task in its hand
    limit,       \* worker_limit
    source,      \* active_model_source_mode
    suspended,   \* cache_suspended of the account
    clear,       \* where analysis_cache_clear is
    reset,       \* the conversation of an analysis_scope_clear, and where it is
    life,        \* "open", "closing", and "closed" for account_clear_paused
    call,        \* a request that a disturbance overtook inside start
    used,        \* disturbances so far
    asked,       \* conversations whose incremental request no scan has picked up
    stranded     \* jobs whose window or task was thrown away for another one

registry == <<jobs, current, member, window, iter, recheck, asked, stranded>>
threads == <<worker, limit>>
scope == <<source, suspended, clear, reset, life, used>>
vars == <<registry, queue, threads, scope, call>>

Jobs == 1 .. MaxJobs
NoCall == [key |-> "none", mode |-> "none"]
NoTask == [key |-> "none", kind |-> "none", job |-> 0]
NoWindow == [job |-> 0, pages |-> -1, rerun |-> FALSE, background |-> FALSE]
NoIter == [mode |-> "none", pages |-> -1, owner |-> 0]
NoReset == [key |-> "none", at |-> "idle"]
Idle == [at |-> "idle", task |-> NoTask]
Open == {"queued", "running"}

Init ==
    /\ jobs = <<>>
    /\ current = [k \in Keys |-> 0]
    /\ member = [k \in Keys |-> 0]
    /\ window = [k \in Keys |-> NoWindow]
    /\ iter = [k \in Keys |-> NoIter]
    /\ recheck = {}
    /\ queue = EmptyBag
    /\ worker = [w \in Workers |-> Idle]
    /\ limit = Cardinality(Workers)
    /\ source = "local"
    /\ suspended = FALSE
    /\ clear = "idle"
    /\ reset = NoReset
    /\ life = "open"
    /\ call = NoCall
    /\ used = 0
    /\ asked = {}
    /\ stranded = {}

Disturb(d) == /\ d \in Disturbances
              /\ used < MaxDisturb
              /\ used' = used + 1

-----------------------------------------------------------------------------
(* The queue.  Visible windows go before background scans.  Which of two    *)
(* conversations goes first follows the open chat, which may change at any  *)
(* time, and so is left open; so is the place of a message task, which is   *)
(* interactive when it is put and loses that at the next poll.              *)

Task(k, kind, j) == [key |-> k, kind |-> kind, job |-> j]

\* _enqueue drops the task while the bridge closes.
Enqueued(t) == IF life = "open" THEN queue (+) SetToBag({t}) ELSE queue

Background(t) == t.kind \in {"history", "incremental", "member"}
MayComeNext(t) ==
    /\ BagIn(t, queue)
    /\ Background(t) => \A other \in BagToSet(queue) : other.kind # "recent"

InTurn(w) == worker[w].at \in {"working", "ending"}

\* The key locks: of the workers, and of a reset.
LockedByWorker(k) == \E w \in Workers : InTurn(w) /\ worker[w].task.key = k
Locked(k) == LockedByWorker(k) \/ reset = [key |-> k, at |-> "held"]

\* Bug: task_done is called when a task is taken.
NoneQueued == queue = EmptyBag

\* unfinished_tasks of the queue is zero: task_done has been called for a task that
\* collided with a key lock, although it is still in the worker's hand.
NoneUnfinished == queue = EmptyBag /\ \A w \in Workers : ~InTurn(w)

-----------------------------------------------------------------------------
(* Requests: start, and request_member. *)

\* What start checks before it registers.
MayAsk(k, m) ==
    /\ life = "open"
    /\ reset.key # k
    /\ ~suspended
    /\ m \in {"message", "member"} => source = "local"

\* The requests that may be past their checks when a disturbance begins.
Overtaken == {NoCall} \cup IF call # NoCall THEN {}
                          ELSE {c \in [key : Keys, mode : Requests] : MayAsk(c.key, c.mode)}

\* analysis-reset-in-progress: the epoch moved before it was checked.
Refuse ==
    /\ call # NoCall
    /\ call' = NoCall
    /\ UNCHANGED <<registry, queue, threads, scope>>

NewJob(k, m, n) == [key |-> k, mode |-> m, status |-> "queued", flagged |-> FALSE, left |-> n]
Latest == Len(jobs) + 1

\* Bug: a window of its own does not remember that a scan may follow it.
ScheduleAlone(k, j, standalone) ==
    IF window[k] # NoWindow
    THEN /\ window' = [window EXCEPT ![k].rerun = @ \/ window[k].pages >= 0]
         /\ UNCHANGED queue
    ELSE /\ window' = [window EXCEPT ![k] = [NoWindow EXCEPT !.job = j]]
         /\ queue' = Enqueued(Task(k, "recent", j))

ScheduleRecent(k, j, standalone) ==
    IF window[k] # NoWindow
    THEN /\ window' = [window EXCEPT ![k].rerun = @ \/ window[k].pages >= 0]
         /\ UNCHANGED queue
    ELSE /\ window' = [window EXCEPT ![k] = [NoWindow EXCEPT !.job = j, !.background = standalone]]
         /\ queue' = Enqueued(Task(k, "recent", j))

\* A registered job is still open, or its window is: the request joins it.
Joins(k) == LET j == current[k] IN j # 0 /\ (jobs[j].status \in Open \/ window[k] # NoWindow)

\* An incremental request asks for a scan that reads the newest message after it.
\* A scan kept from a job that was paused is the one it would join instead.
Kept(k) == iter[k].owner \notin {0, current[k]}
Asks(k, accepted) == IF accepted /\ ~Kept(k) THEN asked \cup {k} ELSE asked

Join(k, m) ==
    LET j == current[k]
        over == jobs[j].status = "done"
        wins == \/ m = "incremental" /\ jobs[j].mode # "incremental"
                \/ m = "history" /\ jobs[j].mode = "recent"
    IN \/ /\ m = "recent"
          /\ ScheduleRecent(k, j, FALSE)
          /\ UNCHANGED <<jobs, recheck, asked>>
       \/ /\ m = "incremental"
          /\ over
          /\ jobs' = [jobs EXCEPT ![j].mode = m]
          /\ window' = [window EXCEPT ![k].background = TRUE]
          /\ asked' = Asks(k, TRUE)
          /\ UNCHANGED <<queue, recheck>>
       \/ /\ m = "incremental" => ~over
          /\ wins
          /\ jobs' = [jobs EXCEPT ![j].mode = m]
          /\ window' = [window EXCEPT ![k].background = @ \/ (over /\ window[k] # NoWindow)]
          /\ asked' = Asks(k, m = "incremental" /\ jobs[j].status \in Open)
          /\ UNCHANGED <<queue, recheck>>
       \/ /\ m = "incremental"
          /\ ~over
          /\ ~wins
          /\ recheck' = recheck \cup {k}
          /\ asked' = Asks(k, jobs[j].status \in Open)
          /\ UNCHANGED <<jobs, window, queue>>
       \/ /\ m = "history"
          /\ ~wins
          /\ UNCHANGED <<jobs, window, queue, recheck, asked>>

Register(k, m) ==
    /\ m \in {"recent", "history", "incremental"}
    /\ Joins(k) \/ Len(jobs) < MaxJobs
    /\ IF Joins(k) THEN Join(k, m) /\ UNCHANGED current
       ELSE /\ jobs' = Append(jobs, NewJob(k, m, 0))
            /\ current' = [current EXCEPT ![k] = Latest]
            /\ IF m = "recent" THEN ScheduleRecent(k, Latest, TRUE)
               ELSE /\ queue' = Enqueued(Task(k, m, Latest))
                    /\ UNCHANGED window
            /\ asked' = IF m = "incremental" /\ iter[k] = NoIter THEN asked \cup {k} ELSE asked
            /\ UNCHANGED recheck
    /\ UNCHANGED <<member, iter, stranded, threads, scope>>

\* The two jobs outside the registry.
RegisterMessage(k) ==
    /\ Len(jobs) < MaxJobs
    /\ source = "local"
    /\ jobs' = Append(jobs, NewJob(k, "message", 0))
    /\ queue' = Enqueued(Task(k, "message", Latest))
    /\ UNCHANGED <<current, member, window, iter, recheck, asked, stranded, threads, scope>>

RegisterMember(k) ==
    /\ Len(jobs) < MaxJobs
    /\ member[k] # 0 => jobs[member[k]].status \notin Open \cup {"error"}
    /\ \E n \in 0 .. MaxPages : jobs' = Append(jobs, NewJob(k, "member", n))
    /\ member' = [member EXCEPT ![k] = Latest]
    /\ queue' = Enqueued(Task(k, "member", Latest))
    /\ UNCHANGED <<current, window, iter, recheck, asked, stranded, threads, scope>>

Answer(k, m) == \/ Register(k, m)
                \/ m = "message" /\ RegisterMessage(k)
                \/ m = "member" /\ RegisterMember(k)

Request(k, m) ==
    /\ MayAsk(k, m)
    /\ Answer(k, m)
    /\ UNCHANGED call

\* jobs_lock is taken after the checks; only the reset is looked at again.
Late ==
    /\ call # NoCall
    /\ call.mode \in {"recent", "history", "incremental"} => reset.key # call.key
    /\ Answer(call.key, call.mode)
    /\ call' = NoCall

-----------------------------------------------------------------------------
(* The workers: _worker, _run_one, _run_one_bound. *)

\* A worker beyond the limit parks.  One that already waits for a task when the
\* limit falls hands the task back and parks, which leaves the queue as it was.
MayTake(w, t) ==
    /\ worker[w].at = "idle"
    /\ MayComeNext(t)
    /\ life = "open" => w < limit

Rest(t) == queue (-) SetToBag({t})

\* Another worker, or a reset, is inside this conversation.
Collide(w, t) ==
    /\ MayTake(w, t)
    /\ Locked(t.key)
    /\ queue' = Rest(t)
    /\ worker' = [worker EXCEPT ![w] = [at |-> "collided", task |-> t]]
    /\ UNCHANGED <<registry, limit, scope, call>>

Requeue(w) ==
    /\ worker[w].at = "collided"
    /\ queue' = Enqueued(worker[w].task)
    /\ worker' = [worker EXCEPT ![w] = Idle]
    /\ UNCHANGED <<registry, limit, scope, call>>

\* A turn that begins, and one that is over before it has begun.
Take(w, t) ==
    /\ MayTake(w, t)
    /\ ~Locked(t.key)
    /\ queue' = Rest(t)
    /\ UNCHANGED <<limit, call>>

TakeOnly(w, t) == Take(w, t) /\ UNCHANGED worker

Work(w, t, kind) ==
    /\ Take(w, t)
    /\ ~jobs[t.job].flagged
    /\ ~suspended
    /\ source = "local"
    /\ worker' = [worker EXCEPT ![w] = [at |-> "working", task |-> [t EXCEPT !.kind = kind]]]
    /\ UNCHANGED scope

\* The turn is over: task_done, and the key lock is free.
Leave(w) ==
    /\ worker' = [worker EXCEPT ![w] = Idle]
    /\ UNCHANGED limit

SetStatus(j, status) == [jobs EXCEPT ![j].status = status]
\* The client is told that a job failed or was put off: nothing is owed then.
Told(k, j) == IF j = current[k] THEN asked \ {k} ELSE asked

\* The scope cannot be entered: the job was cancelled, or the source moved.
\* The handler drops the window and the scan of the conversation, whoever's
\* they are.
CannotEnter(w, t) ==
    LET theirs == {window[t.key].job} \ {0, t.job} IN
    /\ TakeOnly(w, t)
    /\ \/ jobs[t.job].flagged /\ UNCHANGED used
       \/ Disturb("unbound")
    /\ jobs' = SetStatus(t.job, IF jobs[t.job].flagged THEN "cancelled" ELSE "error")
    /\ IF t.kind = "message" THEN UNCHANGED <<window, iter, stranded>>
       ELSE /\ window' = [window EXCEPT ![t.key] = NoWindow]
            /\ iter' = [iter EXCEPT ![t.key] = NoIter]
            /\ stranded' = stranded \cup theirs
    /\ asked' = IF theirs # {} /\ t.kind # "message" THEN asked \ {t.key} ELSE Told(t.key, t.job)
    /\ UNCHANGED <<current, member, recheck, source, suspended, clear, reset, life>>

\* The account is being cleared, or the model is not the local one: the turn
\* is not taken.
PutOff(w, t) ==
    /\ TakeOnly(w, t)
    /\ ~jobs[t.job].flagged
    /\ suspended \/ source # "local"
    /\ jobs' = SetStatus(t.job, IF suspended THEN "suspended"
                                ELSE IF t.kind = "message" THEN "cancelled" ELSE "paused")
    /\ asked' = Told(t.key, t.job)
    /\ UNCHANGED <<current, member, window, iter, recheck, stranded, scope>>

\* The mode the job asks for by now.
ModeOf(t) == IF jobs[t.job].mode = "incremental" THEN "incremental" ELSE t.kind

\* Bug: a scan of another mode starts again from the beginning.
LeftFromStart(k) == MaxPages

\* A scan of another mode goes on from the saved cursor.
Left(k) == IF iter[k] = NoIter THEN MaxPages ELSE iter[k].pages

StartScan(w, t) ==
    LET m == ModeOf(t) IN
    /\ t.kind \in {"history", "incremental"}
    /\ Work(w, t, m)
    /\ jobs' = SetStatus(t.job, "running")
    /\ IF iter[t.key].mode = m THEN UNCHANGED <<iter, asked>>
       ELSE /\ \E n \in 0 .. Left(t.key) :
                   iter' = [iter EXCEPT ![t.key] = [mode |-> m, pages |-> n, owner |-> t.job]]
            /\ asked' = IF m = "incremental" THEN asked \ {t.key} ELSE asked
    /\ UNCHANGED <<current, member, window, recheck, stranded>>

StartRecent(w, t) ==
    LET k == t.key IN
    /\ t.kind = "recent"
    /\ window[k].job = t.job
    /\ Work(w, t, "recent")
    /\ IF window[k].pages >= 0 THEN UNCHANGED window
       ELSE \E n \in 0 .. MaxPages : window' = [window EXCEPT ![k].pages = n]
    /\ jobs' = IF jobs[t.job].mode = "recent" THEN SetStatus(t.job, "running") ELSE jobs
    /\ UNCHANGED <<current, member, iter, recheck, asked, stranded>>

\* The window of this task is gone.
RecentGone(w, t) ==
    /\ t.kind = "recent"
    /\ window[t.key].job # t.job
    /\ ~jobs[t.job].flagged /\ ~suspended /\ source = "local"
    /\ TakeOnly(w, t)
    /\ UNCHANGED <<registry, scope>>

StartOther(w, t) ==
    /\ t.kind \in {"message", "member"}
    /\ Work(w, t, t.kind)
    /\ jobs' = SetStatus(t.job, "running")
    /\ UNCHANGED <<current, member, window, iter, recheck, asked, stranded>>

-----------------------------------------------------------------------------
(* The end of a turn: the iterator yields, is exhausted, or fails. *)

WorksOn(w, kinds) == worker[w].at = "working" /\ worker[w].task.kind \in kinds

YieldScan(w) ==
    LET t == worker[w].task IN
    /\ WorksOn(w, {"history", "incremental"})
    /\ iter[t.key].pages > 0
    /\ iter' = [iter EXCEPT ![t.key].pages = @ - 1]
    /\ queue' = Enqueued(t)
    /\ Leave(w)
    /\ UNCHANGED <<jobs, current, member, window, recheck, asked, stranded, scope, call>>

\* Bug: a request for the new messages that came during the scan is forgotten.
AgainForMode(t) == t.kind = "history" /\ jobs[t.job].mode = "incremental"

\* What was asked meanwhile needs another scan of the conversation.
Again(t) ==
    \/ t.kind = "incremental" /\ t.key \in recheck
    \/ t.kind = "history" /\ jobs[t.job].mode = "incremental"

EndScan(w) ==
    LET t == worker[w].task
        k == t.key IN
    /\ WorksOn(w, {"history", "incremental"})
    /\ iter[k].pages = 0
    /\ IF Again(t)
       THEN /\ recheck' = IF t.kind = "incremental" THEN recheck \ {k} ELSE recheck
            /\ iter' = [iter EXCEPT ![k] = NoIter]
            /\ jobs' = SetStatus(t.job, "queued")
            /\ queue' = Enqueued(Task(k, "incremental", t.job))
            /\ Leave(w)
       ELSE /\ jobs' = SetStatus(t.job, "done")
            /\ worker' = [worker EXCEPT ![w].at = "ending"]
            /\ UNCHANGED <<recheck, iter, queue, limit>>
    /\ UNCHANGED <<current, member, window, asked, stranded, scope, call>>

FailScan(w) ==
    LET t == worker[w].task IN
    /\ WorksOn(w, {"history", "incremental"})
    /\ Disturb("fail")
    /\ jobs' = SetStatus(t.job, "error")
    /\ asked' = Told(t.key, t.job)
    /\ worker' = [worker EXCEPT ![w].at = "ending"]
    /\ UNCHANGED <<current, member, window, iter, recheck, stranded, queue, limit,
                   source, suspended, clear, reset, life, call>>

\* The finally clause, after jobs_lock was given up.
DropScan(w) ==
    LET k == worker[w].task.key IN
    /\ worker[w].at = "ending"
    /\ iter' = [iter EXCEPT ![k] = NoIter]
    /\ recheck' = recheck \ {k}
    /\ Leave(w)
    /\ UNCHANGED <<jobs, current, member, window, asked, stranded, queue, scope, call>>

YieldRecent(w) ==
    LET t == worker[w].task IN
    /\ WorksOn(w, {"recent"})
    /\ window[t.key].pages > 0
    /\ window' = [window EXCEPT ![t.key].pages = @ - 1]
    /\ queue' = Enqueued(t)
    /\ Leave(w)
    /\ UNCHANGED <<jobs, current, member, iter, recheck, asked, stranded, scope, call>>

\* The background scan that waited for the window comes next.
Follows(k, j) == window[k].background /\ jobs[j].mode # "recent"

EndRecent(w) ==
    LET t == worker[w].task
        k == t.key
        j == t.job IN
    /\ WorksOn(w, {"recent"})
    /\ window[k].pages = 0
    /\ IF window[k].rerun
       THEN /\ window' = [window EXCEPT ![k].pages = -1, ![k].rerun = FALSE]
            /\ queue' = Enqueued(t)
            /\ UNCHANGED jobs
       ELSE /\ window' = [window EXCEPT ![k] = NoWindow]
            /\ jobs' = IF Follows(k, j) THEN SetStatus(j, "queued")
                       ELSE IF jobs[j].mode = "recent" THEN SetStatus(j, "done") ELSE jobs
            /\ queue' = IF Follows(k, j) THEN Enqueued(Task(k, jobs[j].mode, j)) ELSE queue
    /\ Leave(w)
    /\ UNCHANGED <<current, member, iter, recheck, asked, stranded, scope, call>>

FailRecent(w) ==
    LET t == worker[w].task
        k == t.key
        told == jobs[t.job].mode = "recent" \/ window[k].background IN
    /\ WorksOn(w, {"recent"})
    /\ Disturb("fail")
    /\ window' = [window EXCEPT ![k] = NoWindow]
    /\ jobs' = IF told THEN SetStatus(t.job, "error") ELSE jobs
    /\ asked' = IF told THEN Told(k, t.job) ELSE asked
    /\ Leave(w)
    /\ UNCHANGED <<current, member, iter, recheck, stranded, queue,
                   source, suspended, clear, reset, life, call>>

EndOther(w) ==
    LET t == worker[w].task
        j == t.job IN
    /\ WorksOn(w, {"message", "member"})
    /\ IF jobs[j].left > 0
       THEN /\ jobs' = [jobs EXCEPT ![j].status = "queued", ![j].left = @ - 1]
            /\ queue' = Enqueued(t)
       ELSE /\ jobs' = SetStatus(j, IF jobs[j].flagged THEN "cancelled" ELSE "done")
            /\ UNCHANGED queue
    /\ Leave(w)
    /\ UNCHANGED <<current, member, window, iter, recheck, asked, stranded, scope, call>>

FailOther(w) ==
    LET j == worker[w].task.job IN
    /\ WorksOn(w, {"message", "member"})
    /\ Disturb("fail")
    /\ jobs' = SetStatus(j, IF jobs[j].flagged THEN "cancelled" ELSE "error")
    /\ Leave(w)
    /\ UNCHANGED <<current, member, window, iter, recheck, asked, stranded, queue,
                   source, suspended, clear, reset, life, call>>

-----------------------------------------------------------------------------
(* The disturbances. *)

\* One step of the elastic limit, or a new fixed count.
Lower ==
    /\ limit > 0
    /\ Disturb("limit")
    /\ limit' = limit - 1
    /\ UNCHANGED <<registry, queue, worker, source, suspended, clear, reset, life, call>>

Raise ==
    /\ limit < Cardinality(Workers)
    /\ limit' = limit + 1
    /\ UNCHANGED <<registry, queue, worker, scope, call>>

\* An API source becomes the active one; re-runs of one message end with it.
ToApi ==
    /\ source = "local"
    /\ Disturb("source")
    /\ source' = "api"
    /\ jobs' = [j \in DOMAIN jobs |->
                   IF jobs[j].mode = "message" /\ jobs[j].status \in Open
                   THEN [jobs[j] EXCEPT !.status = "cancelled", !.flagged = TRUE]
                   ELSE jobs[j]]
    /\ UNCHANGED <<current, member, window, iter, recheck, asked, stranded, queue, threads,
                   suspended, clear, reset, life, call>>

ToLocal ==
    /\ source = "api"
    /\ source' = "local"
    /\ UNCHANGED <<registry, queue, threads, suspended, clear, reset, life, used, call>>

\* analysis_cache_clear of the local source.
ClearBegin ==
    /\ clear = "idle"
    /\ life = "open"
    /\ Disturb("clear")
    /\ clear' = "draining"
    /\ suspended' = TRUE
    /\ call' \in Overtaken
    /\ UNCHANGED <<registry, queue, threads, source, reset, life>>

ClearDrained ==
    /\ clear = "draining"
    /\ NoneUnfinished
    /\ clear' = "drained"
    /\ UNCHANGED <<registry, queue, threads, source, suspended, reset, life, used, call>>

Forget(ks) ==
    /\ current' = [k \in Keys |-> IF k \in ks THEN 0 ELSE current[k]]
    /\ member' = [k \in Keys |-> IF k \in ks THEN 0 ELSE member[k]]
    /\ window' = [k \in Keys |-> IF k \in ks THEN NoWindow ELSE window[k]]
    /\ iter' = [k \in Keys |-> IF k \in ks THEN NoIter ELSE iter[k]]
    /\ recheck' = recheck \ ks
    /\ asked' = asked \ ks

ClearDrop ==
    /\ clear = "drained"
    /\ Forget(Keys)
    /\ clear' = "erasing"
    /\ UNCHANGED <<jobs, stranded, queue, threads, source, suspended, reset, life, used, call>>

\* The saved results are gone, or the drain took longer than 200 seconds.
ClearEnd ==
    /\ clear \in {"draining", "erasing"}
    /\ clear' = "idle"
    /\ suspended' = FALSE
    /\ UNCHANGED <<registry, queue, threads, source, reset, life, used, call>>

\* analysis_scope_clear of one conversation; it waits for its key lock.
ResetBegin(k) ==
    /\ reset = NoReset
    /\ life = "open"
    /\ Disturb("reset")
    /\ reset' = [key |-> k, at |-> "waiting"]
    /\ call' \in Overtaken
    /\ UNCHANGED <<registry, queue, threads, source, suspended, clear, life>>

\* profile, which asks for a member, holds the profile lock that a reset needs.
ResetLock ==
    LET k == reset.key IN
    /\ reset.at = "waiting"
    /\ ~LockedByWorker(k)
    /\ call # [key |-> k, mode |-> "member"]
    /\ reset' = [reset EXCEPT !.at = "held"]
    /\ UNCHANGED <<registry, queue, worker, limit, source, suspended, clear, life, used, call>>

ResetBusy ==
    /\ reset.at = "waiting"
    /\ reset' = NoReset
    /\ UNCHANGED <<registry, queue, threads, source, suspended, clear, life, used, call>>

\* Queued tasks keep their job object, so that the jobs are flagged.
Flagged(k, j) == j \in {current[k], member[k]} \/ (jobs[j].key = k /\ jobs[j].mode = "message")

ResetErase ==
    LET k == reset.key IN
    /\ reset.at = "held"
    /\ jobs' = [j \in DOMAIN jobs |->
                   IF ~Flagged(k, j) THEN jobs[j]
                   ELSE [jobs[j] EXCEPT !.flagged = TRUE,
                                        !.status = IF jobs[j].mode = "message" THEN "cancelled" ELSE @]]
    /\ Forget({k})
    /\ reset' = NoReset
    /\ UNCHANGED <<stranded, queue, worker, limit, source, suspended, clear, life, used, call>>

\* pause_for_account_clear: every worker runs the queue dry and ends.
PauseBegin ==
    /\ life = "open"
    /\ Disturb("pause")
    /\ life' = "closing"
    /\ call' \in Overtaken
    /\ UNCHANGED <<registry, queue, threads, source, suspended, clear, reset>>

Gone(w) ==
    /\ worker[w].at = "idle"
    /\ life = "closing"
    /\ queue = EmptyBag
    /\ worker' = [worker EXCEPT ![w].at = "gone"]
    /\ UNCHANGED <<registry, queue, limit, scope, call>>

PauseEnd ==
    /\ life = "closing"
    /\ \A w \in Workers : worker[w].at = "gone"
    /\ call = NoCall
    /\ clear = "idle"
    /\ reset = NoReset
    /\ life' = "closed"
    /\ UNCHANGED <<registry, queue, threads, source, suspended, clear, reset, used, call>>

\* resume_after_failed_account_clear: nothing is kept but the message jobs,
\* whose tasks are gone.
Resume ==
    /\ life = "closed"
    /\ life' = "open"
    /\ Forget(Keys)
    /\ queue' = EmptyBag
    /\ worker' = [w \in Workers |-> Idle]
    /\ stranded' = stranded \cup {j \in DOMAIN jobs : jobs[j].mode = "message" /\ jobs[j].status \in Open}
    /\ UNCHANGED <<jobs, limit, source, suspended, clear, reset, used, call>>

-----------------------------------------------------------------------------
Begin(w, t) ==
    \/ Collide(w, t) \/ CannotEnter(w, t) \/ PutOff(w, t) \/ RecentGone(w, t)
    \/ StartScan(w, t) \/ StartRecent(w, t) \/ StartOther(w, t)

Turn(w) ==
    \/ Requeue(w) \/ Gone(w) \/ \E t \in BagToSet(queue) : Begin(w, t)
    \/ YieldScan(w) \/ EndScan(w) \/ FailScan(w) \/ DropScan(w)
    \/ YieldRecent(w) \/ EndRecent(w) \/ FailRecent(w)
    \/ EndOther(w) \/ FailOther(w)

Client == Refuse \/ Late \/ \E k \in Keys, m \in Requests : Request(k, m)

Clears == ClearBegin \/ ClearDrained \/ ClearDrop \/ ClearEnd
Resets == (\E k \in Keys : ResetBegin(k)) \/ ResetLock \/ ResetBusy \/ ResetErase
Pauses == PauseBegin \/ PauseEnd \/ Resume
Switches == ToApi \/ ToLocal \/ Lower \/ Raise

Next == Client \/ Clears \/ Resets \/ Pauses \/ Switches \/ \E w \in Workers : Turn(w)

Spec == Init /\ [][Next]_vars

\* Threads run; a clear and a reset give up in the end, a request is answered.
Fairness ==
    /\ \A w \in Workers : WF_vars(Turn(w))
    /\ WF_vars(Refuse \/ Late)
    /\ WF_vars(ClearDrained \/ ClearDrop \/ ClearEnd)
    /\ WF_vars(ResetLock \/ ResetBusy \/ ResetErase)
    /\ WF_vars(PauseEnd \/ Resume)

FairSpec == Spec /\ Fairness

-----------------------------------------------------------------------------
JobRecord == [key : Keys, mode : Kinds, flagged : BOOLEAN, left : 0 .. MaxPages,
              status : Open \cup {"done", "error", "paused", "suspended", "cancelled"}]
TaskRecord == [key : Keys, kind : Kinds, job : Jobs]

\* The state of the queue has the shape the code gives it: a window belongs to
\* the registered job.
TypeOK ==
    /\ jobs \in Seq(JobRecord) /\ Len(jobs) <= MaxJobs
    /\ BagToSet(queue) \subseteq TaskRecord
    /\ \A k \in Keys :
         /\ current[k] \in 0 .. Len(jobs) /\ member[k] \in 0 .. Len(jobs)
         /\ window[k] # NoWindow => window[k].job = current[k] \/ life # "open"
    /\ limit \in 0 .. Cardinality(Workers)
    /\ recheck \cup asked \subseteq Keys

\* One conversation is driven by one worker at a time, and by none while its
\* saved results are being erased (backend_service.py 307, 2265): a reset holds
\* its key lock, and a clear has seen the queue without an unfinished task.
ErasedAlone ==
    /\ TypeOK
    /\ \A v, w \in Workers :
          v # w /\ InTurn(v) /\ InTurn(w) => worker[v].task.key # worker[w].task.key
    /\ \A w \in Workers : InTurn(w) =>
          /\ clear \notin {"drained", "erasing"}
          /\ ~(reset.at = "held" /\ reset.key = worker[w].task.key)
          /\ jobs[worker[w].task.job].flagged => worker[w].task.kind = "message"

\* Who has the tasks: the queue, and the workers.
InHand(w) == worker[w].at \in {"collided", "working"}
Tasks == BagToSet(queue) \cup {worker[w].task : w \in {v \in Workers : InHand(v)}}

Drives(t, j) ==
    /\ t.job = j
    /\ t.kind = "recent" => /\ window[t.key].job = j
                            /\ jobs[j].mode # "recent" => window[t.key].background

Registered == {j \in DOMAIN jobs : \/ j \in {current[jobs[j].key], member[jobs[j].key]}
                                   \/ jobs[j].mode = "message"}

\* A job that says queued or running has a task that will end it: promotions
\* from one mode to another, reruns, collisions and put-off turns never lose
\* the last one (start 3223-3264, _run_recent_turn, _run_one_bound).
JobIsDriven ==
    life = "open" =>
        \A j \in Registered \ stranded :
            jobs[j].status \in Open => \E t \in Tasks : Drives(t, j)

\* A request for the new messages is not reported done by a scan that had read
\* the newest message before it (incremental_recheck, background_pending).
DoneCoversRequest ==
    \A k \in asked : jobs[current[k]].status = "done" => window[k].background

\* Every job comes to an end or is put off once the client stops asking,
\* unless the machine parks every worker: an iterator is finite, a collision
\* ends when the other turn does, and every wait of a clear or a reset ends.
Asked == Late \/ \E k \in Keys, m \in Requests : Request(k, m)
Unsettled(j) == /\ j \in DOMAIN jobs
                /\ j \in Registered \ stranded
                /\ jobs[j].status \in Open
JobsSettle ==
    []<><<Asked>>_vars \/ \A j \in Jobs : Unsettled(j) ~> (limit = 0 \/ ~Unsettled(j))
=============================================================================
