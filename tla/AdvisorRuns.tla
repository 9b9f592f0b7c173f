----------------------------- MODULE AdvisorRuns -----------------------------
(***************************************************************************)
(* The runs of the advisor for one account (bridge/advisor_service.py with *)
(* the runs and threads of bridge/advisor_store.py).  A run asks a model a *)
(* question about a chat; its worker goes through stages, each one a check *)
(* that the run is still valid, made without holding the lock, followed by *)
(* an action under the lock.  Meanwhile the user stops it, the settings,   *)
(* the WeChat account or the imported chat history change, and the account *)
(* is paused, drained and removed.                                         *)
(*                                                                         *)
(* A run is named by its request: start returns the run that a request     *)
(* already has.  "settings" is the stamp of model and template together.   *)
(***************************************************************************)
EXTENDS Naturals, Sequences, FiniteSets

CONSTANTS
    Runs,        \* requests for a run
    Threads,     \* conversations of the account
    Settings,    \* stamps of the saved model and template
    None,        \* no epoch, settings or session
    MaxSwitch,   \* bound: switches of the WeChat source
    MaxReset,    \* bound: resets of the imported history
    MaxMemory    \* MAX_RUNS_IN_MEMORY

ASSUME AdvisorAssumption ==
    /\ IsFiniteSet(Runs)
    /\ MaxSwitch \in Nat
    /\ MaxReset \in Nat
    /\ MaxMemory \in Nat
    /\ None \notin Settings \cup Nat

VARIABLES
    source,      \* generation of the source binding
    settings,    \* what is saved in the settings now
    epoch,       \* epoch of the imported history
    store,       \* the account's database: open, blocked, removed
    paused,      \* account in _paused
    drained,     \* account in _drained
    clearing,    \* a pause_for_account_clear is joining the workers
    row,         \* the table runs
    log,         \* the questions and answers of each thread, in order
    bound,       \* the runtime columns of the table threads
    mem          \* _runs, with the position of each worker

world == <<source, settings, epoch>>
account == <<store, paused, drained, clearing>>
tables == <<row, log, bound>>
vars == <<world, account, tables, mem>>

Terminal == {"done", "stopped", "error"}
Stages == {"epoch", "config", "bind", "model", "answer", "fail"}
Absent == [state |-> "absent", at |-> "none", ok |-> FALSE, cancel |-> FALSE, text |-> FALSE,
           gen |-> 0, settings |-> None, epoch |-> None, cfg |-> None]
NoRow == [state |-> "none", thread |-> None]
Unbound == [cfg |-> None, epoch |-> None, session |-> None]

Init ==
    /\ source = 0
    /\ settings \in Settings
    /\ epoch = 0
    /\ store = "open"
    /\ paused = FALSE
    /\ drained = FALSE
    /\ clearing = FALSE
    /\ row = [r \in Runs |-> NoRow]
    /\ log = [t \in Threads |-> <<>>]
    /\ bound = [t \in Threads |-> Unbound]
    /\ mem = [r \in Runs |-> Absent]

\* The two parts of _check_run: the run's own state, and the world it started in.
Light(r) == mem[r].state = "running" /\ ~mem[r].cancel /\ ~paused
\* Bug: the epoch of the history is not compared.
FreshButOldHistory(r) == mem[r].gen = source /\ mem[r].settings = settings
SameStamps(r) == mem[r].settings = settings
Fresh(r) == /\ mem[r].gen = source
            /\ SameStamps(r)
            /\ mem[r].epoch \in {None, epoch}

Invalidated(m) == [m EXCEPT !.state = "stopped", !.cancel = TRUE]
InMemory == {r \in Runs : mem[r].state # "absent"}
Alive(r) == mem[r].at \in Stages
\* Bug: start does not look for an active run of the thread.
NoneRunningIn(t) == {}
RunningIn(t) == {r \in Runs : row[r].state = "running" /\ row[r].thread = t}

\* Bug: finish_run does not look at the state of the row.
FinishAnyRow(rows, r, state) == [rows EXCEPT ![r].state = state]
\* finish_run: only a row that is still running takes a result.
FinishRow(rows, r, state) ==
    IF rows[r].state = "running" THEN [rows EXCEPT ![r].state = state] ELSE rows
Said(t, kind, r) == [log EXCEPT ![t] = Append(@, [kind |-> kind, run |-> r])]
Answered(r, kind) == IF row[r].state = "running" THEN Said(row[r].thread, kind, r) ELSE log
Partial(r) == IF mem[r].text THEN Answered(r, "partial") ELSE log

----------------------------------------------------------------------------
(* Starting and stopping. *)

\* Terminal runs with dead workers leave memory when there are too many.
Pruned(m, gone) ==
    LET all == {r \in Runs : m[r].state # "absent"}
        old == {r \in all : m[r].state \in Terminal /\ m[r].at \notin Stages}
        excess == IF Cardinality(all) > MaxMemory THEN Cardinality(all) - MaxMemory ELSE 0
    IN  /\ gone \subseteq old
        /\ Cardinality(gone) = IF Cardinality(old) < excess THEN Cardinality(old) ELSE excess

\* A request that was taken before is answered with the run it has.
Requested(r) == row[r] # NoRow
Created(t) == [state |-> "running", thread |-> t]
Begun(s, at) == [Absent EXCEPT !.state = "running", !.at = at, !.gen = source, !.settings = s]

\* start: binding and settings are read before the locks; the binding is
\* asserted under them, the settings may be older.  A thread whose active run
\* has ended in memory is given free.  The worker may fail to start.
Start(r, t, s) ==
    /\ ~Requested(r)
    /\ store = "open" /\ ~paused
    /\ \A a \in RunningIn(t) : mem[a].state \in Terminal
    /\ row' = [a \in Runs |->
                 IF a = r THEN Created(t)
                 ELSE IF a \in RunningIn(t) THEN [row[a] EXCEPT !.state = "stopped"]
                 ELSE row[a]]
    /\ log' = Said(t, "ask", r)
    /\ \E at \in {"epoch", "unborn"} :
         LET m == [mem EXCEPT ![r] = Begun(s, at)]
         IN  \E gone \in SUBSET Runs :
               /\ Pruned(m, gone)
               /\ mem' = [a \in Runs |-> IF a \in gone THEN Absent ELSE m[a]]
    /\ UNCHANGED <<world, account, bound>>

\* _stop_run_locked on every run in "outs".  Without the source lock, or with
\* a binding of another account, only memory is stopped; a store that fails
\* leaves the run cancelled and ends the caller's loop.
Outcomes(r) == {"dropped", "kept"} \cup (IF mem[r].gen = source THEN {"saved", "raised"} ELSE {})
Saved(outs) == {r \in DOMAIN outs : outs[r] = "saved"}
StoppedRows(outs) ==
    [r \in Runs |-> IF r \in Saved(outs) THEN FinishRow(row, r, "stopped")[r] ELSE row[r]]
StoppedLog(outs) ==
    [t \in Threads |->
       LET texts == {r \in Saved(outs) : mem[r].text /\ r \in RunningIn(t)}
       IN  IF texts = {} THEN log[t] ELSE Partial(CHOOSE r \in texts : TRUE)[t]]
StopAll(outs) ==
    /\ mem' = [r \in Runs |->
                 IF r \notin DOMAIN outs \/ outs[r] = "kept" THEN mem[r]
                 ELSE IF outs[r] = "raised" THEN [mem[r] EXCEPT !.cancel = TRUE]
                 ELSE Invalidated(mem[r])]
    /\ row' = StoppedRows(outs)
    /\ log' = StoppedLog(outs)
    /\ UNCHANGED bound
Stoppable == {r \in Runs : mem[r].state = "running"}
AllOutcomes ==
    {outs \in [Stoppable -> {"saved", "dropped", "raised", "kept"}] :
       /\ \A r \in Stoppable : outs[r] \in Outcomes(r)
       /\ Cardinality({r \in Stoppable : outs[r] = "raised"}) \leq 1
       /\ (\E r \in Stoppable : outs[r] = "kept") => \E r \in Stoppable : outs[r] = "raised"}

\* The user stops a run or opens a new thread; events or cancel_stale_runs
\* find that its source or settings changed (which then stop it this way too).
Stop(r) ==
    /\ r \in Stoppable
    /\ \E out \in Outcomes(r) \ {"kept"} : StopAll([x \in {r} |-> out])
    /\ UNCHANGED <<world, account>>

\* stop for a run that memory no longer knows.
StopForgotten(r) ==
    /\ mem[r].state = "absent" /\ row[r].state = "running"
    /\ store = "open" /\ ~paused
    /\ row' = FinishRow(row, r, "error")
    /\ UNCHANGED <<world, account, log, bound, mem>>

----------------------------------------------------------------------------
(* The worker of a run. *)

\* Of a run whose worker has ended only the state is read any more.
Over(state) == [Absent EXCEPT !.state = state, !.at = "ended"]
End(r, state) == mem' = [mem EXCEPT ![r] = Over(state)]
Goto(r, stage) == mem' = [mem EXCEPT ![r].at = stage, ![r].ok = FALSE]

\* _check_run before a stage; what it found may be old when the stage acts.
\* The last one is followed by the call of the model, which takes no lock.
Check(r) ==
    /\ mem[r].at \in {"epoch", "bind", "model"} /\ ~mem[r].ok
    /\ \/ /\ Light(r) /\ Fresh(r)
          /\ IF mem[r].at = "model" THEN Goto(r, "answer")
             ELSE mem' = [mem EXCEPT ![r].ok = TRUE]
       \/ /\ Light(r) /\ ~Fresh(r)
          /\ mem' = [mem EXCEPT ![r] = [Invalidated(@) EXCEPT !.at = "fail"]]
       \/ ~Light(r) /\ Goto(r, "fail")
    /\ UNCHANGED <<world, account, tables>>

CaptureEpoch(r) ==
    /\ mem[r].at = "epoch" /\ mem[r].ok
    /\ IF Light(r)
       THEN mem' = [mem EXCEPT ![r].at = "config", ![r].ok = FALSE, ![r].epoch = epoch]
       ELSE Goto(r, "fail")
    /\ UNCHANGED <<world, account, tables>>

\* The context is ready; _resolve_config reads the settings without a lock.
ReadConfig(r) ==
    /\ mem[r].at = "config"
    /\ IF Light(r)
       THEN mem' = [mem EXCEPT ![r].at = "bind", ![r].cfg = settings]
       ELSE Goto(r, "fail")
    /\ UNCHANGED <<world, account, tables>>

\* Bug: the epoch is not part of what a session is bound to.
SameModel(r) == bound[row[r].thread].cfg = mem[r].cfg
SameRuntime(r) == LET b == bound[row[r].thread]
                  IN  b.cfg = mem[r].cfg /\ b.epoch = mem[r].epoch

\* bind_runtime: another model or epoch drops the thread's session.
Bind(r) ==
    /\ mem[r].at = "bind" /\ mem[r].ok
    /\ IF Light(r)
       THEN LET t == row[r].thread
            IN  /\ bound' = IF SameRuntime(r) THEN bound
                            ELSE [bound EXCEPT ![t] = [cfg |-> mem[r].cfg, epoch |-> mem[r].epoch,
                                                       session |-> None]]
                /\ Goto(r, "model")
       ELSE UNCHANGED bound /\ Goto(r, "fail")
    /\ UNCHANGED <<world, account, row, log>>

\* _on_event: text arrives; a thorough check is made once a second.
Stream(r) ==
    /\ mem[r].at = "answer" /\ Light(r)
    /\ \/ mem' = [mem EXCEPT ![r].text = TRUE]
       \/ ~Fresh(r) /\ mem' = [mem EXCEPT ![r] = Invalidated(@)]
    /\ UNCHANGED <<world, account, tables>>

\* Anything in a stage may fail: the import, the runtime, the model.
Raise(r) ==
    /\ mem[r].at \in Stages \ {"fail"}
    /\ Goto(r, "fail")
    /\ UNCHANGED <<world, account, tables>>

\* _finish_locked under _cache_commit_guard: run, context and source locks are
\* held over the check and the save.
Commit(r) ==
    /\ mem[r].at = "answer"
    /\ \/ mem[r].state # "running" /\ End(r, mem[r].state) /\ UNCHANGED tables
       \/ /\ mem[r].state = "running" /\ ~Light(r)
          /\ Goto(r, "fail") /\ UNCHANGED tables
       \/ /\ Light(r) /\ ~Fresh(r)
          /\ mem' = [mem EXCEPT ![r] = [Invalidated(@) EXCEPT !.at = "fail"]]
          /\ UNCHANGED tables
       \/ /\ Light(r) /\ Fresh(r)
          /\ \/ /\ End(r, "done")
                /\ row' = FinishRow(row, r, "done")
                /\ log' = Answered(r, "whole")
                /\ bound' = IF row[r].state = "running"
                            THEN [bound EXCEPT ![row[r].thread].session = <<mem[r].cfg, mem[r].epoch>>]
                            ELSE bound
             \/ /\ End(r, "error")
                /\ row' = FinishRow(row, r, "error")
                /\ UNCHANGED <<log, bound>>
             \/ Goto(r, "fail") /\ UNCHANGED tables
    /\ UNCHANGED <<world, account>>

\* _fail_safely: what _fail_locked may not or cannot save ends in memory only.
Fail(r) ==
    /\ mem[r].at = "fail"
    /\ \/ mem[r].state # "running" /\ End(r, mem[r].state) /\ UNCHANGED <<row, log>>
       \/ /\ Light(r) /\ ~Fresh(r)
          /\ End(r, "stopped")
          /\ UNCHANGED <<row, log>>
       \/ /\ mem[r].state = "running" /\ (Light(r) => Fresh(r))
          /\ End(r, "error")
          /\ UNCHANGED <<row, log>>
       \/ /\ Light(r) /\ Fresh(r)
          /\ End(r, "error")
          /\ row' = FinishRow(row, r, "error")
          /\ log' = Partial(r)
    /\ UNCHANGED <<world, account, bound>>

Step(r) == \/ Check(r) \/ CaptureEpoch(r) \/ ReadConfig(r) \/ Bind(r)
           \/ Commit(r) \/ Fail(r)

----------------------------------------------------------------------------
(* The world around the runs. *)

ChangeSettings ==
    /\ settings' \in Settings \ {settings}
    /\ UNCHANGED <<source, epoch, account, tables, mem>>

SwitchSource ==
    /\ source < MaxSwitch
    /\ source' = source + 1
    /\ UNCHANGED <<settings, epoch, account, tables, mem>>

\* context_begin with reset, by the import of the history.
ResetContext ==
    /\ epoch < MaxReset /\ store = "open" /\ ~paused
    /\ epoch' = epoch + 1
    /\ UNCHANGED <<source, settings, account, tables, mem>>

\* pause_for_account_clear up to the stops: a failing store ends it there.
PauseBegin ==
    /\ ~clearing /\ store # "removed"
    /\ paused' = TRUE
    /\ \E outs \in AllOutcomes :
         /\ StopAll(outs)
         /\ clearing' = \A r \in DOMAIN outs : outs[r] \notin {"raised", "kept"}
    /\ UNCHANGED <<world, store, drained>>

\* Bug: runs that were stopped are not joined.
AllStopped == \A r \in InMemory : mem[r].state \in Terminal
Joined == \A r \in InMemory : mem[r].at = "ended"

\* Every worker has ended: the account is blocked and its database closed.
PauseEnd ==
    /\ clearing
    /\ Joined
    /\ store' = "blocked"
    /\ drained' = TRUE
    /\ clearing' = FALSE
    /\ UNCHANGED <<world, paused, tables, mem>>

\* A worker does not end in time, or cannot be joined as it never started.
PauseFails ==
    /\ clearing
    /\ ~Joined
    /\ clearing' = FALSE
    /\ UNCHANGED <<world, store, paused, drained, tables, mem>>

\* A database that is opened again ends the rows nobody works on.
Interrupted(rows) == [r \in Runs |-> FinishRow(rows, r, "error")[r]]

ResumeAfterFailure ==
    /\ ~clearing /\ paused /\ drained /\ store = "blocked"
    /\ store' = "open"
    /\ paused' = FALSE
    /\ drained' = FALSE
    /\ row' = Interrupted(row)
    /\ UNCHANGED <<world, clearing, log, bound, mem>>

\* clear_account once the account is paused and blocked.
Remove ==
    /\ ~clearing /\ paused /\ store = "blocked"
    /\ \A r \in InMemory : mem[r].state # "running"
    /\ store' = "removed"
    /\ row' = [r \in Runs |-> NoRow]
    /\ log' = [t \in Threads |-> <<>>]
    /\ bound' = [t \in Threads |-> Unbound]
    /\ mem' = [r \in Runs |-> Absent]
    /\ UNCHANGED <<world, paused, drained, clearing>>

\* The bridge goes down and is started again: nothing is left in memory, and
\* the next opening of the database ends the rows.
Down ==
    /\ mem' = [r \in Runs |-> Absent]
    /\ store' = IF store = "removed" THEN store ELSE "open"
    /\ paused' = FALSE
    /\ drained' = FALSE
    /\ clearing' = FALSE
    /\ UNCHANGED world

Crash ==
    /\ row' = Interrupted(row)
    /\ Down
    /\ UNCHANGED <<log, bound>>

\* shutdown: _closing refuses every later write, so the stops are its only
\* effect on the tables.
Shutdown ==
    /\ \E outs \in AllOutcomes :
         /\ row' = Interrupted(StoppedRows(outs))
         /\ log' = StoppedLog(outs)
    /\ Down
    /\ UNCHANGED bound

Next ==
    \/ \E r \in Runs :
         \/ \E t \in Threads, s \in Settings : Start(r, t, s)
         \/ Stop(r)
         \/ StopForgotten(r)
         \/ Step(r)
         \/ Stream(r)
         \/ Raise(r)
    \/ ChangeSettings
    \/ SwitchSource
    \/ ResetContext
    \/ PauseBegin
    \/ PauseEnd
    \/ PauseFails
    \/ ResumeAfterFailure
    \/ Remove
    \/ Crash
    \/ Shutdown

Spec == Init /\ [][Next]_vars

----------------------------------------------------------------------------
(* Properties. *)

\* Types of the variables (all of the module).
TypeOK ==
    /\ source \in 0..MaxSwitch
    /\ settings \in Settings
    /\ epoch \in 0..MaxReset
    /\ store \in {"open", "blocked", "removed"}
    /\ paused \in BOOLEAN /\ drained \in BOOLEAN /\ clearing \in BOOLEAN
    /\ row \in [Runs -> {NoRow} \cup [state : Terminal \cup {"running"}, thread : Threads]]
    /\ log \in [Threads -> Seq([kind : {"ask", "partial", "whole"}, run : Runs])]
    /\ bound \in [Threads -> [cfg : Settings \cup {None}, epoch : 0..MaxReset \cup {None},
                              session : {None} \cup (Settings \X (0..MaxReset))]]
    /\ mem \in [Runs -> [state : Terminal \cup {"absent", "running"},
                         at : Stages \cup {"none", "unborn", "ended"},
                         ok : BOOLEAN, cancel : BOOLEAN, text : BOOLEAN, gen : 0..MaxSwitch,
                         settings : Settings \cup {None}, epoch : 0..MaxReset \cup {None},
                         cfg : Settings \cup {None}]]

\* A late answer never lands behind a newer question: in the transcript an
\* answer, whole or partial, stands right after the question of its own run
\* (start, finish_run and the commit guard).
AnswersFollowQuestions ==
    \A t \in Threads : \A i \in DOMAIN log[t] :
        log[t][i].kind # "ask" =>
            i > 1 /\ log[t][i - 1] = [kind |-> "ask", run |-> log[t][i].run]

\* What the window is told about a run agrees with what is saved: a run that
\* goes on in memory goes on in the table, done means saved as done, and a
\* run reported stopped or failed is never found done later.  The session that a
\* thread goes on with was made by the model and over the history it is bound to
\* now, whatever runs were stopped, overtaken or reconfigured on the way; and
\* each answer stands behind its question.
ReportedIsSaved ==
    /\ TypeOK /\ AnswersFollowQuestions
    /\ \A r \in InMemory :
        /\ mem[r].state = "running" => row[r].state = "running"
        /\ mem[r].state = "done" <=> row[r].state = "done"
    /\ \A t \in Threads :
        bound[t].session # None => bound[t].session = <<bound[t].cfg, bound[t].epoch>>

\* A drained account has no worker that could still write, and stays closed;
\* a removed one has no data.
ClosedAccountIsQuiet ==
    /\ drained => store # "open" /\ \A r \in Runs : ~Alive(r)
    /\ store = "removed" => \A r \in Runs : row[r] = NoRow /\ ~Alive(r)

\* The answer of this step to conversation t is that of a run of t and of the account
\* that its binding is asserted for; and unless it is the partial text of a run that is
\* stopped, the history, the settings and the run's right to answer are all what they
\* were when it was asked.  A whole answer leaves the run done and a session of its own
\* model and history.
AnswersInTime(t) ==
    LET said == log'[t][Len(log'[t])]
        m    == mem[said.run]
    IN  /\ m.gen = source /\ row[said.run] = Created(t)
        /\ row'[said.run].state # "stopped" =>
             m.epoch = epoch /\ m.settings = settings /\ ~m.cancel /\ ~paused
        /\ said.kind = "whole" =>
             /\ row'[said.run].state = "done"
             /\ bound'[t] = [cfg |-> m.cfg, epoch |-> m.epoch, session |-> <<m.cfg, m.epoch>>]

\* The last word of t after this step is a new one of one of the kinds.
Adds(t, kinds) == Len(log'[t]) > Len(log[t]) /\ log'[t][Len(log'[t])].kind \in kinds

\* Nothing a model said is saved for another account, conversation or session than its
\* run was asked in, nor over a history or settings that have changed, and a session is
\* written only with a whole answer.  Not so the partial text of a run that is stopped:
\* _stop_run_locked looks at the binding only (657-690), and saves it also after the
\* imported history was reset or the settings changed.
AnswersAreCurrent ==
    [][\A t \in Threads :
         /\ Adds(t, {"partial", "whole"}) => AnswersInTime(t)
         /\ bound'[t].session \notin {None, bound[t].session} => Adds(t, {"whole"})]_vars

=============================================================================
