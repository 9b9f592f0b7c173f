# WechatVibe in TLA+

WechatVibe is a desktop client that reads the user's own WeChat history, keeps
an analysis of it (labels, portraits, guidance) and updates itself. Its logic
sits in a Python bridge (`src/bridge`), in Node helper scripts (`src/scripts`),
and in TypeScript analysis code that the bridge starts as child processes.
This directory models the parts of it where order, failure and concurrency
decide whether the result is right, checks them with TLC on small instances,
and proves their safety properties with TLAPS for every value of the constants,
all but two of one component.

Paths below are relative to `src/`. The lines each definition stands for are in
`PROJECT.json` ("map").

## Inventory

| Component | State | Operations | What is hard | Correct means | Module |
|---|---|---|---|---|---|
| API analyzer pool (`bridge/api_pool.py`) | analyzers, busy flags, adaptive limit, ticket queues, generation | lease, dedicated, configure, invalidate, close | validation outside the lock, cancel of a snapshot, resizing with leases out | exclusive leases, nobody starves, a cancel hits the old turns that have begun and no other | ApiAnalyzerPool |
| API insight jobs (`bridge/backend_service.py`, `api_tasks.py`) | registry, writer per message, in-flight counter, epochs | start, worker steps, retry, save, switch, clear, reset, drain | state read before a history read and used after it, takeovers, threads that do not start | no result from before a clear, the newest job wins, the drain sees every worker | ApiInsights |
| Reply guidance (`backend_service.py`, `advisor_service.py`, `guidance_contracts.py`) | registry of one job per key, saved answers, settings of an assistant | ask, launch, worker steps, retry, save; dropped by switch, clear, reset, drain | an assistant that is edited under a job, a dropped worker beside its successor, a suspension that the second look does not ask for | late guidance is dropped, a reply belongs to the settings it was asked with | ApiGuidance |
| API portraits (`backend_service.py`, `api_portrait_ledger.py`, `api_portrait_statistics.py`, `result_store.py`) | portrait row with cursor, ledger of classified messages, statistics, inventory pieces | request, plan, batch, checkpoint, finish, reconcile, reset | late messages behind a frozen range, resumed passes, pieces of long messages | nothing paid twice, "complete" is true, erased stays erased | ApiPortraits |
| Local batches (`batch_engine.py`, `batch_state.py`) | cursor, coverage, fragments, statistics, source check | pass, window, commit, recover, reconcile, member request | crash between batches, windows out of order, messages that change | statistics equal the judged messages, no text is overlooked | BatchScan |
| Local worker queue (`backend_service.py`) | registry, queue, workers, windows, iterators | start, promote, take, collide, turn, clear, reset, pause | two tasks of a job, promotions under a running turn | every job has a task that ends it | LocalQueue |
| Advisor runs (`advisor_service.py`, `advisor_store.py`) | runs, threads, messages, paused accounts | start, stages, stop, events, pause, resume, clear | late answers, stale bindings, lock order | no late answer is saved; a stopped run keeps what it had said | AdvisorRuns |
| Advisor history import (`advisor_context.py`) | projection of a chat with its cursor, waiting windows | prepare, page, window, repair | pages read without the lock, windows between them | ready is whole and of one source | AdvisorContext |
| WeChat source (`wechat_source.py`, `live_source.py`, `cache_source.py`, `account_pin_source.py`) | bound reader, key scans, lease, pin | bind, scan, deliver, forget, switch | scans that take minutes, ownership that changes meanwhile | an answer comes from the account it was asked for | WeChatReader |
| Account store and removal (`account_store.py`, `account_api.py`, `account_leases.py`, `snapshot_cache.py`) | registry, snapshots and stamps, results, advisor rows, leases | register, refresh, remove, undo | unlinking in steps, two bridges, crashes | the entry goes last, a stamp never lies | AccountRemoval |
| Launcher, shell, installation gate (`scripts/start-real-client.py`, `desktop-main.cjs`, `real-client-shell.cjs`, `real-client-recovery.cjs`, `bridge/installation_gate.py`) | processes, records, marker, mutexes, claim | start, recover, stop, abort, register, claim, stop for an update | processes that die or come up late | an updater is alone, records are the trace of what runs | ClientStart |
| Update helper (`scripts/real-client-update-helper.cjs`) | directories, user data, journal, RunOnce | install, rollback, recovery | crash between any two renames, failing undo | old or new client whole, newest data kept, a way back | UpdateHelper |
| Node channel (`bridge/node_analysis.py`, `analysis_server.ts`) | child, pending replies, expired ids, model state | request, reader, configure, close, cancel | waits that release the lock, relaunch | a reply reaches its own request or nobody | NodeAnalysis |
| Result store (`bridge/result_store.py`) | rows, suspended sources | save, delete, suspend | clears that fail half way | as its users above need it | inside the modules of its users |
| Model sources, reply forecast, HTTP front, browser client, connectors, native reader, encryption, contracts, build scripts | | | I/O, formatting, data | | not modelled, see below |

How they interact: HTTP threads call the backend, which takes a request lease
(so that a drain can wait for it), reads the history through the WeChat source
and starts worker threads or queues local tasks. An API worker leases an
analyzer from the pool for one provider turn, and the analyzer passes it to a
Node child. Switching the model source moves a revision and calls `invalidate`;
clearing or resetting moves an epoch; removing an account pauses advisor and
backend, drains them and deletes files under the account's lease. The launcher
starts the bridge, the shell's monitor starts it again, and the updater, a
process of its own, claims the installation through the gate and is started
again by Windows at the next logon after a crash.

Each module stands for one component and takes its neighbours as free choices
at its border: a model call succeeds or fails, a source changes at any moment,
a pause comes at any step. The pool's `turn` is one call of a channel, its
cancel the channel's `Cancel`; the drain of ApiInsights, the pause of LocalQueue
and of AdvisorRuns are the first steps of AccountRemoval; UpdateHelper takes the
claim that ClientStart models as a step that may be refused.

## Modules

* **BoundedLeases** is the promise of the shared lane: a set of holders and a
  capacity that moves. **ApiAnalyzerPool** is `api_pool.py`, with one action per
  critical section. `pc[c]` says where a thread stands inside `lease` or
  `dedicated`: `waiting`, `granted` (counter taken, second validation pending),
  `leased`, `turn` (the provider works), `report` (outcome not noted yet).
  `cancelling` is the list `invalidate` has copied and cancels without the lock.
  The refinement maps `holders` to the clients past the grant and `cap` to
  `limit`.
* **ApiInsights** is the life of an insight job. A request has two critical
  sections (`Request`, then `Start` and its variants) with the history read
  between them; a worker goes `CheckIn`, `MarkRunning`, `Turn`, `Answer`,
  `Retry`, `Save`, `Unwrite`, `Finish`, and `Fail` from any of them. The clear,
  the reset and the drain are sequences of their own critical sections. `rows`
  records which job's result is saved for a message.
* **ApiGuidance** extends it: the same bridge with guidance jobs beside the insight
  jobs. `Ask` and `Launch` are the two critical sections of `start_guidance`, `Accept`
  to `Leave` its worker. `JobKey` is source and stamp of the assistant's settings, the
  key of the registry and of the saved row; `EditSettings` moves the stamp under a
  job. A switch, a clear, a reset and the drain are the actions of ApiInsights with
  their effect on the guidance registry and rows added (`Switch`, `DropWithSource`,
  `DeleteWithSource`, `ResetWithSource`, `DrainForgets`), and the drain waits for both
  kinds of worker (`SeesIdle`), since the code's `inflight` is one counter. Every step
  of the composition is one of ApiInsights or leaves its variables alone.
* **ApiPortraits** is the other kind of API job. `Look`, `Weigh`, `TakePieces`,
  `ReadPage` and `Begin` are `_prepare_model_portrait` with its two looks at the
  saved row, `Ask` and `Commit` a batch, `Finish` the stamp of revision and
  prefix. The row passes from step to step as a value (`Checkpoint`, `Analysed`,
  and `Shown` for what the view answers with). `ledger` holds the positions that were classified, the pieces of a
  long message that wait for the others, and the order in which the statistics
  merged them: `AppendOnly` decides between appending (`Appended`) and a replay
  (`ReplayedWith`); a message that the history returns a second time is passed over. `OpenPortrait` and `CountPage` are the inventory that the
  portrait view reads and a job may take over.
* **BatchScan** is the local counterpart. A pass reads pages, chooses a window
  that may stop inside a long text, and commits it with statistics, coverage and
  cursor in one transaction; `Rebuilt` is `_recover_state`, the reference that
  the statistics must equal. `check` is the saved source check, `beyond` the
  texts that came after a pass had begun. A chat that an older version read is seeded
  only when the words of all its judged texts could be read again (`RecoveryRefs`,
  `WordsRestored`), from where that version stopped (`OldCursor`); quoted replies have a
  backfill of their own (`QuotedHistory`), whose windows commit may refuse (`NonContiguous`,
  `QuotedRefused`). One subject, in a personal chat, in a group or as a member of it.
* **LocalQueue** is the queue above it: `jobs` and the registry `current`, the
  bag of tasks, `window` and `iter` for what a turn goes on with, and the
  workers, whose turns begin (`Take`, `Start...`) and end (`Yield...`, `End...`,
  `Fail...`) as two steps with everything else between them. A clear waits for
  `NoneUnfinished`, in which a task that collided no longer counts. A request is one
  step, except when a disturbance overtakes it (`Overtaken`, `Late`, `Refuse`).
* **AdvisorRuns** keeps for each run the worker's stage and flags (`mem`), its
  row in the store (`row`), the transcript and session of each thread. A worker
  checks without the lock and acts under it, as two steps; the commit guard
  (`Fresh`) looks at binding, history epoch, cancel flag and pause.
* **AdvisorContext** keeps the table row of one chat (`proj`), the import worker,
  the window in flight and the one that waits (`pending`), and two sources with
  their messages as versions per position. A page or a window is the set of its
  messages, which `InOrder` lists by position when the table stores them. `Readable`
  and `ModelContext` are what a run gets to read of it. Its names are its own where
  AdvisorRuns has them too, so that one module of proofs can extend both.
* **WeChatReader** keeps the one reader of a bridge (`src`), its scans, the key
  cache, the reading under way (`op`) and what each task has captured. The world
  (who runs, who is logged in, versions of the databases) moves by itself.
* **AccountRemoval** has two bridges, what they share on disk, and a removal as
  its sequence of pauses, marks, checks and unlinks. A step that fails is undone
  (`GivesUp`) as far as the undo gets: `Undone` is the set of what may be left, since
  resuming the bridge and removing its mark may each raise too, and so may the shutdown
  after the last step (`Strike`). `failed` remembers which of them did. The refresh of a snapshot decrypts, then replaces the file, then
  the stamp.
* **ClientStart** has launchers with their stages, bridges with their workers,
  one shell for each instance, the marker, the records and the updater. What a
  launcher sees of a port is a set (`Health`, `PortTaken`).
* **UpdateHelper** is the helper process. Its programs are sequences of steps
  (`Forward`, `Backward`), one step per rename, copy, journal replacement,
  registry write or process start; `Possible` says what a step needs, `Do` what
  it does, `Handler` which catch block a failure reaches. `Crash` ends the helper
  anywhere, with or without the machine; `Logon` starts the recovery that RunOnce
  holds, and empties it, as Windows does. `Work` is the user making new data.
* **NodeAnalysis** is one channel to a Node child, of the local model or of an API
  worker (`ApiOnly`, the provider "api"). `call[c]` says in which wait of
  `_request`, `configure_runtime` or `configure_local_model` a caller stands; an
  action is what it does from one wait to the next, since `Condition.wait` lets
  the lock go. `child[p]` is a launched process, `inbox` and `outbox` are its
  pipes, `Read` and `PassOn` its reader thread. Ids are numbers that are counted up;
  `MaxSerial` bounds them in the run and nowhere else.

Every module has its instance in the MC module of its name. Operators commented
"mutant" or "Bug" are wrong variants of the operator below them; nothing uses
them, and PROJECT.json names the property that each one would violate.

## Runs

| Run | Instance | Shows |
|---|---|---|
| `pool` | 2 clients, up to 3 analyzers and the probe lane, streaks of 2, one source switch | exclusive leases and lanes, cancels hit exactly the old turns that have begun, refinement of BoundedLeases, tickets are answered, a closed pool drains, the limit recovers: `Accounting`, `TurnsFollowGeneration`, `ImplementsBoundedLeases`, `PoolSettles` |
| `insights` | ApiGuidance: 2 requests, insight jobs for 1 message or guidance of either kind; one of switch, clear, reset, edit or drain | no old result after a clear or reset, the newest job wins, counter, writers, registry and suspension are given back, late guidance is dropped, workers of both kinds and drains end: `NothingLeftByEither`, `NothingFromBeforeClear`, `NewestResultWins`, `GuidanceInOrder`, `WorkersOfBothSettle` |
| `portraits` | 4 positions, one long message, one not the subject's, pages of 1, contexts of 1 or 2 pieces, 3 requests, 2 arrivals or losses, 1 fault | statistics are the ledger in its true order, nothing is paid twice, "complete" misses only what the four known gaps overlook, an erased job writes nothing: `PaidOnce`, `CompleteIsTrue`, `ErasedStaysErased` |
| `batch` | 4 rows, 2 chats (new; read by the older analysis), personal, group or member, pages of 3, 2 changes | statistics match the evidence, nothing is skipped, checks and answers are true, an interrupted pass and its backfill can go on: `StatisticsMatchEvidence`, `NothingSkipped`, `ClaimsAreTrue`, `ResumesUnlessLost` |
| `queue` | 1 conversation, 2 workers, 2 jobs, all 5 requests, one disturbance | a turn has its conversation to itself and no erased one, every job has the task that ends it, "done" covers the request, jobs settle: `ErasedAlone`, `JobIsDriven`, `DoneCoversRequest`, `JobsSettle` |
| `advisor_runs` | 2 runs, 2 threads, 2 settings, one source switch, one reset | what was reported is saved, answers follow their questions, answers and sessions are of the account, conversation, history and settings asked about, but for the partial text of a stopped run, a drained account is quiet: `ReportedIsSaved`, `ClosedAccountIsQuiet`, `AnswersAreCurrent` |
| `advisor_context` | up to 3 messages of 2 sources behind 3 bindings, pages of 1, windows of 2, one edit | what is ready is whole, readers see no foreign or late rows, imports end: `ReadyIsWhole`, `ReadersAreSafe`, `ImportsEnd` |
| `reader` | 2 accounts, 2 processes, 2 tasks, 2 scans, 3 moves of the world | keys stay with their account, one instance per account, answers come from the bound account: `AccountsStayApart` (`KeysStayScoped` and `OneInstancePerAccount`), `DeliveredIsBound` |
| `removal` | 2 bridges, 1 account, 2 states of its database, 2 removals, 2 logins, 1 fault, at most 3 of the three together | stamps are honest, a bridge serves unmarked after a removal unless a step of its undo failed, the registry entry goes last: `StampIsHonest`, `FailureLeavesNoMark`, `EntryGoesLast` |
| `start` | 2 instances, 2 launchers, 2 bridges, 3 starts, 1 fault | the updater is alone, a cleared account stays down, records outlive processes: `UpdateIsAlone`, `ClearedStaysDown`, `RecordsOutliveProcesses` |
| `helper_recovery` | install, rollback, rollback of it; 2 crashes, 2 failures, 2 pieces of new data | interrupted swaps end whole, with the newest data, a way back and a registered recovery: `Recoverable`, `EndsWhole`, `SwapEnds` |
| `node` | 2 callers of either kind of channel, 2 children, 2 lines and their preparations, an update underneath | replies reach their own request, callbacks end first, a cancel is final, the reported model settles: `RepliesFit`, `StatusIsTrue`, `CancelIsFinal` |

Every run also checks the types of its module: `TypeOK` is the first conjunct of
one of its invariants.

Why the bounds are enough. The pool's conflicts involve two holders, or a holder
and one resize or one switch, and its safety half is proved without bounds; so
are the jobs', where a takeover needs two jobs on one message and each
disturbance matters once per epoch; insight and guidance jobs share only the counter
of the drain, so a request of each kind together meets the drain alone. A portrait needs a first pass, a pass that
is resumed or finds something new, and one that reports; four positions put one
before the cursor, one inside a half-read message, one behind it and one at the
end. A batch pass has a window that ends inside a text, a text before and after
it, and a history that changes before and after the pass; that nothing is skipped and
passes go on is proved without bounds. The queue's promotions
and collisions are between two tasks of one conversation, since conversations
share nothing but the workers. Runs of the advisor disturb each other in pairs, and its
safety is proved without bounds too, as is the import's. In the reader, whose two invariants are proved
without bounds, the second process and the second account are what a binding may be
confused with, and `Serving` keeps two scans to the case of one task. The removal
needs the bridge that removes and one that reads, and a second removal after one
that failed, which meets the mark or the closed door that the first has left; the start needs a launcher, the
one that finds its record, and the instance beside them. The helper, whose safety is proved without bounds, has three
operations because the third is the first whose backup was made by a rollback;
two crashes interrupt a recovery, two failures the undo of a failed step. A
channel's hazards need a caller that waits and one that acts, and a child and the
one that replaces it; two expired ids pass the limit of one, as 257 pass the
code's 256. The constraints (`OneDisturbance`, `Bounded`, `OvertakenScan`,
`ResetFirst`, `Serving`, `LeaseCovers`) are further bounds, each named and explained in
the MC module. Where values that no property tells apart are permuted
(symmetry), the run checks no liveness. `CHECK_DEADLOCK FALSE` stands where
the bounded number of requests, switches or operations runs out and the system
has nothing left to do.

Fairness. The pool: a thread whose critical section can run runs it, a turn
ends (the connectors have timeouts) and its outcome is noted; nobody has to
ask, to give up, to switch or to close. The jobs: a worker or a request goes on,
a clear, reset or drain that has begun goes on (`WorkersOfBothSettle` speaks of
finitely many requests, each with one job). The queue: a worker takes its
turns (a turn is finite) and a request, clear, reset or pause that has begun goes
on; `JobsSettle` is for a client that stops asking and a machine that parks not
every worker. The import: its thread reads, commits and exits. The helper: a
helper that runs takes its next step (every wait in it has a timeout), and the
user logs on again while a recovery is registered. Nothing is assumed of
retries, switches, failures or the world. The other runs check safety only.

## Divergences found

What the code does against its comments, documents or evident intent. The
properties name each of these as an exception, so that they hold for everything
else; TLC refutes each property without its exception.

* Advisor, `AnswersAreCurrent`. A run that is stopped saves the text it has if the
  binding of its account still holds; the history and the settings are not compared
  (`_stop_run_locked`, `advisor_service.py` 657-690). So the partial answer stays in the
  conversation although the history it was made from was reset, or its settings
  changed (then `cancel_stale_runs`, 648, stops it this way). A failing run and a whole
  answer are compared with both.
* Portraits, `CompleteIsTrue`. (1) Pieces of an inventory that was scanned before
  a late message arrived are taken over by a job within 60 seconds; its finish
  stamps the newer revision and prefix, so the message is never analysed though
  the portrait says complete (`backend_service.py` 2673, 2532). (2) A message that
  arrives behind the cursor of an unfinished pass before that is resumed is never
  read: the prefix is compared only for a finished row (2568). (3) After a failure
  between the last checkpoint and the finish, what arrived in the new range is not
  noticed (2578). (4) A resumed pass reads up to the highwater it was planned for but
  stamps the prefix up to the one it has met (2535). If a newer message is there then,
  vanishes before the next pass and returns after it, the stamp vouches for a message
  that no pass has read. The proof found this one: it takes more moves than the run
  allows.
* Portraits, progress. A reconciliation that is interrupted before its first batch
  cannot be resumed: the scan starts after the old highwater, its fingerprint
  differs, and every request fails with "unfinished portrait source changed" until
  the portrait is reset (2647, 2687). A resumed pass that takes inventory pieces
  inside its first message starts the message again; the ledger refuses the paid
  batch until the pieces expire (`rewound`).
* Batches, `NothingSkipped` (`CameLate`) and `ClaimsAreTrue`. When the history
  changes while a pass walks past its old cursor, or the process ends between
  `mark_complete` and `save_source_check`, the check of the pass before stays with
  its smaller ceiling. `reconcile_pending` (`batch_engine.py` 94) compares only up to
  it, and a text inserted between that ceiling and the cursor is not read, against
  `test_incremental_reconciliation.py:120-135`. A member request answers "done" with
  a new text unread when a counted one was recalled (379, `Masked`). A half-read
  text that is withdrawn makes every later commit of the pass refuse until a reset
  (`ResumesUnlessLost`).
* Batches, `ResumesUnlessLost` (`HalfReadOwn`). The backfill of a group saves the user's
  own quoted text from its first character to its last (`backend_service.py` 3611-3623)
  and does not ask where the saved pieces of it end. When a recent window had stopped
  inside that text, `commit` raises "non-contiguous message segments"
  (`batch_state.py` 710-716), and so does every retry (`QuotedRefused`): the pass, which
  begins with the backfill, does not go on until the portrait is reset, or a recent window
  reads the text to its end.
* Queue, `JobIsDriven`. A visible window that is taken while an API source is active
  is put off and stays registered; after the switch back every request only widens
  it, nothing drives it (`backend_service.py` 4132, 3169), and the account cannot be
  removed (`account_api.py` 155), although the comment says that "a later local
  switch resumes from it". A task that a reset has flagged pops window and iterator of
  the job that came after it (4110; `stranded`). A retained iterator of a paused job
  is driven by the next job (`asked`).
* Import, `ReadyIsWhole` (`borrowed`). A repair whose window shows no message, while
  there are older ones, takes over the highwater of the projection it replaces
  (`advisor_context.py` 230), also when that is of another source. The import reads to
  the end of the new source and is ready with a highwater the source has not reached.
  Messages that arrive up to it are not in the projection, and still it says ready:
  a run that waits gets it so, and `prepare` leaves it so when the newest position is
  that highwater (315; below it, it starts over). The run's windows of two messages show at least one
  of them; the proof found this, and TLC confirms it for windows of one.
* Import, `ImportsEnd`. A window that disagrees with what the source reads resets
  the projection and starts the import again for as long as it waits
  (`advisor_context.py` 225).
* Removal. A background refresh may go on writing after the lease of its account has
  moved (`outlived`; `account_leases.py:1` says "Exclusive ownership of the shared
  derived resources"). A second removal by a process that has removed the account
  before returns at once (`advisor_service.py` 1064, `again`), although another bridge
  may have written rows meanwhile. A drain that fails leaves `closing` set
  (`backend_service.py` 338) or the advisor paused but not drained
  (`advisor_service.py` 1047). After a removal this process keeps the account blocked,
  and another bridge remembers it as registered (`account_api.py` 62).
* Removal, `FailureLeavesNoMark` (`FailedTo`). The undo of a removal may fail itself
  (`account_api.py` 176-179): when `resume` raises, the bridge stays closing and keeps its
  mark, although the comment at 123 says that a failed removal can resume it; when the
  mark cannot be unlinked, the bridge serves with it and recovery stays forbidden until a
  start of the user, or the undo of a later removal, takes it away. A shutdown that raises after the
  entry is gone (139-140; requests, jobs or a source that do not end,
  `backend_service.py` 399-447) leaves a closing, marked bridge up, and the request
  reports a failure although the account is removed; `paused` is cleared by then, so
  nothing is undone. A bridge resumed after its pause has also given up its lease
  (354-356): a refresh that goes on then is one of the `outlived`.
* Start, `RecordsOutliveProcesses` and `ClearedStaysDown` (`lost`). A launcher killed
  between the start of a bridge and its record, or a recovery killed by its timeout,
  leaves a bridge that nobody owns. The clean-up after a dead bridge also ends the
  analysis worker of another instance's bridge that runs
  (`start-real-client.py` 642, "analysis workers for this launch").
* Helper, `Recoverable` and `SwapEnds` (`lapsed`). A recovery asks for the installation
  claim (`real-client-update-helper.cjs` 57) before it registers itself again (861, 865,
  868), and Windows has removed the RunOnce value by then: what ends it in between
  leaves a half-swapped installation that no logon repairs, although README.md:152
  promises that a failed installation restores the old version.
* Channel, `StatusIsTrue` (`overlapped`). The comment at `node_analysis.py` 129 says
  that a switch cannot come while a request waits; the wait is on a condition, which
  releases the lock. Turns are not harmed, but of two overlapping switches the older
  answer may be reported. A switch whose child another caller replaced waits for its
  whole deadline (147).
* Pool. CHANGELOG.md:63 says that eight successes in a row restore the configured
  ceiling; `note_success` gives one step back for each eight (`api_pool.py` 257).
* Pool, `TurnsFollowGeneration` (`Slipped`). A turn asks with the configuration its
  ticket was taken for. A ticket that has passed the second check of the generation
  (`api_pool.py` 163-166) when the source is switched may begin its turn after the
  cancel, which found nothing to end; `backend_service.py` 1733-1747 checks nothing
  further, and the turn of the old source runs to its end. Its answer is then dropped
  by the checks of its job (ApiInsights).

## Proofs

Assumptions: `PoolAssumption` (a finite set of clients, positive sizes and
streaks, the shared lane is not a dedicated one), `InsightsAssumption`
(finitely many jobs, `NoJob` and `Local` distinct from jobs and sources, at
least one source, at most one drain), `GuidanceAssumption` (finitely many guidance
requests, a stamp for "no assistant" that is no other stamp), `AdvisorAssumption`,
`ChannelAssumption` (finitely many callers, and what providers and switches there
are), `StartAssumption` (finitely many launchers and bridges, none of them `None`),
`QueueAssumption` (finitely many workers, numbered from 0 as in the code),
`ReaderAssumption` (finitely many accounts, each with some version of its databases;
saved keys are keys; `None` is none of the things it stands for the lack of),
`BatchAssumption` (positive pages; chats are finite sets of messages; and
`LegacyRight`, what the older analysis has left: it saved the judgment or skip of a text
before its cursor passed the text, as `backend_service.py` 3737 says, unless the text is a
quoted reply, which it did not take for one; nothing came late to it, and the row it
stopped at is still there or a later one is),
`PortraitAssumption` (finitely many messages, numbered from 1 as positions are, positive
pages and budgets; `None` is no number, no piece and no set of messages),
`RemovalAssumption` (finitely many bridges; `Absent` is no version) and `UpdateAssumption` (two clients, at least one operation, "no client" and "no data" are
neither client nor data). TLC evaluates each on the run of its module.

**ApiAnalysisProofs.** The first half is about ApiAnalyzerPool. The inductive invariant is `AccountInv`: `TypeOK`,
`LeaseAccounting`, `LaneAccounting`, `ClosedPoolShrinks`, and two
strengthenings, `GenerationBound` (only a close takes the generation past its
bound) and `BusyCounted` (the busy flags are as many as the counter says).
Capacity is usable because fewer than `limit` slots are busy, so one below
`limit` is free or the list may grow; this needs the cardinality lemmas and
the least element of a set of numbers (`LeastElement`), which `SlotFor`
chooses. `TurnInv` on top of it relates tickets, turns and the list that is
being cancelled: an old turn that is not marked yet is still on the list or began only
after the switch, and no slot on the list carries a turn of the new source. `LeasesRefined`
maps each step to a grant, a return, a resize or a stutter.

The second half is about ApiPortraits. Order comes first: `InOrder` and `Pieces` list a
set by the number of elements up to each (`Downto`, `Enumerated`), so what they list,
that they ascend and that a later set is appended (`InOrderAppends`) follows without an
induction over sequences; `PlanIs` says where batches end. `PortraitInv` then has five
parts. `Typed`; `Kept` (row and ledger were begun together, after the last erasure);
`Rows` (`RowRight`: complete means no batch is left; `LedgerRight`: what was merged is
what the ledger replays, and an unfinished pass either begins or has an anchor whose
tail is exactly what it has not recorded, half-read message first); `Prefix` (the
stamped prefix holds nothing that was not read or counted as overlooked, and stands for
its revision); and `LiveRight`, about the registered job alone, since no other writes:
a scan covers the history up to its cursor as far as the revision it saw lets it know
(`ScanRight`), and a job with a plan has ahead of it just the pieces that row and ledger
lack (`DueRight`), or is the one that starts a half-read message again (`Rewound`). A
batch is a run of pieces between two marks of the plan (`BatchIs`); its commit moves the
mark in row, ledger and job together (`CommitStep`). A pass begins resumed, the same or
anew (`ResumeStep`, `SameStep`, `AnewStep`), and each establishes `DueRight`.
`PaidOnceAlways`, `CompleteIsTrueAlways` and `ErasedStaysErasedAlways` follow.

**ApiInsightsProofs.** `Typed` types everything but the counter. The counter is
exact by counting the workers each action adds or removes (`WorkersMove`), and
that gives `TypeOK`. Then, each over the ones before: `WritersAreLive` with
`NoPhantomJob`; `Enrolled` with `FreshInv` (epochs only grow, a registered job
was admitted in the epoch it recorded, a clear in progress has dropped the
older ones), from which no saved row is older than the last deletion;
`DrainInv` (once the drain has counted to zero nothing can start);
`SuspendInv` (who suspended a source is still clearing it); and
`WriterIsNewer`, from which a saved row is only ever replaced by a later job's
(`NewestWins`, an action property).

The second half of the module is about ApiGuidance. `GuidanceImplementsInsights`: the
composition implements ApiInsights, step by step, so every theorem above holds beside
guidance. `GuidanceInv` then adds to what is proved of the insight jobs: types and counter as there; `Registry`, in which a registered job
is the last one of its key, from which a saved answer is only replaced by a later
job's although a switch may leave the old worker running; `GuidanceFresh`, the
counterpart of `FreshInv`; and `GuidanceDrained`. What others do to guidance is one
shape (`Outside`): they take jobs and rows away, never add any. With the theorems
about insight jobs they give what the run checks of both kinds: `EitherLeavesNothing`
(`NothingLeftByEither`), `EitherStaysCleared` (`NothingFromBeforeClear`) and
`SavedInTime` (`GuidanceInOrder`).

**AdvisorProofs.** About AdvisorRuns, the inductive invariant `Inv` adds five parts to what the
runs check. `Shape`: a worker that binds, calls or answers has captured an epoch
and a configuration. `Agree`: memory and table say the same of "running" and
"done". `Asked`: the question of a running row is the last word of its
conversation, from which a conversation has one running row (`OneRunning`) and an
answer may be appended behind it (`AnswerAfterQuestion`). `Runtime`: from
bind_runtime to the answer the conversation stays bound to the run's model and
epoch, which no other run can change because it would need a running row there.
`Closed`: a drained account has only ended workers. Each step of a worker is one of
three shapes (`MemoryStep`, `BindStep`, `FinishStep`), and every stop, pause and
restart ends rows and winds memory down in one way (`EndsStep`, with
`StopsEndTables` and `InterruptedTables`). `Reported`, `Quiet` and `Current` follow;
the last one is an action property, read off the one place where each step may
append. About AdvisorContext, `ContextInv` says of the three places where messages lie
which stretch of a source they are (`Covers`): a page begins behind the cursor, and
between the last row and the cursor is nothing that is shown (`Prefix`), a window
reaches to its newest position (`Decoded`), the rows are what is shown up to the last
of them. `Frozen` is the highwater: a position of the source, and for a ready
projection one behind which nothing is missing. `InOrder` enumerates a finite set, so
that what is appended is in order without an induction (`Enumerated`). Each transaction
has one lemma (`BegunIs`, `AppendedIs`, `FinishedIs`); a window is three of them
(`WritesAre`) and a step any number, which is why a crash between two of them is sound.
`Careful` is what a step may do to the projection; both theorems,
`ReadyIsWholeAlways` and the action property `ReadersAreSafeAlways`, follow from it, for
any length of the history, of pages and of windows, and any switches, edits, pauses and
crashes. Assumed of the constants is that there is at least one message.

**NodeAnalysisProofs.** The inductive invariant has four groups. `WireInv`: an id is
in one place at a time, counted up, and on the wires of a child each line is answered
once, behind its parts. `CallInv`: what carries a caller's id is that caller's own
(`Owned`), and an answer on the current child's wires whose caller has gone is still
expected as expired (`Expected`), from which nobody's reply stays in the table.
`ChildInv`: what a child says first, when its version is known, and that a child that
was given up is not written to. `StatusInv`: the last line that reports a model is true
of the engine of its child (`LastWord`), which is inductive only together with what a
switch that is waiting will read (`Settling`). Lines come and go as `Grew` and `Lost`,
since a child answers out of order. `RepliesAlwaysFit`, `StatusStaysTrue` and the action
property `CancelStaysFinal` follow.

**ClientStartProofs.** `Held` gives the launch mutex to the one launcher past taking
it; `Known` says what a launcher knows of its bridge at each stage, so that it starts
none while a recorded one runs and removes a record only after bridge and worker have
ended; `Traced` is what records are the trace of. `Marked` covers bridges that may
come to serve under a marker, not only those that do. `Children` says which shell waits
for which launcher, which `Alone` needs: the updater met nobody when it claimed the
installation, and a launcher is admitted only for a registered shell. From these
`UpdateStaysAlone`, `ClearedAccountStaysDown` and `RecordsOutlive`.

**LocalQueueProofs.** The queue is used as the set of its tasks (`Put`, `Taken`).
`TasksRight` and `Registry` tie tasks, windows and registers to their jobs; `Owned`
says whose scan a kept iterator is. `Apart` is what a turn excludes, `AtHand` what it
works on. `JobIsDriven` is not inductive: a first window must be followed by the scan
its job is promoted to (`Promised`), and `DoneCoversRequest` needs that no scan that
began before a request ends its job (`Pending`). A step is one of a few kinds (beside
the queue, a task carried, work begun or ended, a registry forgotten or resumed, a job
new or joined), and each conjunct has a lemma that says under which changes it stays.
The theorems are `ConversationsStayApart`, `JobsStayDriven` and `RequestsStayCovered`.

The second half of the module is about BatchScan, the passes that these turns drive;
its names are its own, so that one module can extend both. `BatchInv` has three parts.
`ScanTyped`, in which a cursor is never behind the end of the history (`Within`): from
that, a text that shows up before a cursor has come late (`NewIsLate`). `Saved` is about
the tables. `Behind` is `NothingSkipped` with only the quoted replies up to the ceiling
excused; a finished backfill has judged those (`BackfillKept`), and since a progress row
may be lost and seeded anew beside an old backfill, the seed must not begin behind its
ceiling (`SeedRight`). `HalfSaved`: where the cursor is inside a text, its first half is
saved, so the second half begins where commit expects it. `OnTheWay` is about what a
pass holds between two transactions: all that is not judged between its cursor and the
end of its page (`QuotedPass`, `MainPass`), although windows aside and the backfill may
judge some of it. A change of the history, or of the evidence, keeps all of it in one way
(`Grows`, `NewTexts`, `PassStays`), a moved cursor in another (`RowMoves`, `MainStays`).
Pages are bounded by a count, so that a page leaves out nothing up to its end (`PageIs`)
needs the first and last of a finite set (`TheFirst`, `TheLast`). `SaveIs` says what a
commit may do, `ItemsAre` and `NothingBefore` that a window is chosen with nothing
unread before it, `SkippedIs` and `CaughtIs` where `move_cursor` may put the cursor.
`NothingSkippedAlways` follows. `Resumes` evaluates the checks of commit on any window the
child may answer with; `BackfillResumes` shows that the windows of the backfill begin where
the saved pieces end, but for an own text of a group, since nothing else that is not a
target is in its hands (`QuotedPass`). Both give `ResumesAlways`.

**AccountProofs.** The inductive invariant is `IInv`. `Searched` ties the slot to
the one scan that is announced for it and every scan to its own token, so that what a
scan publishes late are keys of the slot's token or nothing. `ReadersRight` says that
a reader is of one account and can open what its token names; `Forgotten` what a
removed account must not get back. `OpRight` follows the one reading that holds the
source lock: between the question and the reader it is for the account that was asked
for, held and not forgotten; while it reads, its reader is the one its task's binding
names. `BoundRight` says that a binding is void or of the origin the source has now,
and that moved tasks have void ones, which makes the delivery right. A reading ends in
one of few ways (`Settles`, `Alters`, `EndsKeeps`), one lemma says what the factory may
return and leave behind (`MadeKeeps`), and a step of the user between two readings
either voids every binding or moves no task (`Between`). `StaysApart` and
`DeliveryIsBound` follow.

The second half of the module is about AccountRemoval, whose names are all its own
so that one module of proofs can extend both. `RemovalInv` has three groups. `Control`:
one bridge holds the lease (`OneHolder`), and what a bridge is fits where its removal
stands (`Fits`: without a failed undo a mark is set only from the registry step on and a
door closed only from the pause on, an advisor is paused only under way; `UndoneFits`
goes through everything an undo may leave). `Dated`: nothing on disk or in a worker is
newer than the source. Until a refresh outlives its lease also `WorkIsHeld`, `Honest`
and `InHand`: a stamp is no newer than its file, which needs what each stage of a
refresh is about to rename to be as honest beforehand (`WorkFits`); and from its rows
on a removal has in hand all that is left. `StampsAreHonest`, `FailuresLeaveNoMark` and
the action property `EntriesGoLast` follow, for any number of bridges, versions,
logins, removals and faults.

**UpdateHelperProofs.** The inductive invariant is a picture of the directories for
every step. `Lies` says which directory holds the old and which the new client, and
`Ready`, `Empty`, `Swapped`, `TakenOut`, `PutBack` and `Done` are the pictures that
occur. `JournalRight` says what each phase in the journal is true of: an operation
under way has one of five pictures and the user's data in the old client, a committed
one is done or, after a rollback, has its backup still to be renamed; one that is
called rolled back has both clients and their data where they were. `PriorRight` is
what a rollback goes back to, `ArmedRight` the registration. The rest says what the
helper may rely on at each step (`Beginning`, `Registering`, `GivingUp`, `Forwards`,
`Backwards`, `Ending`, `Recovering`); since these speak of one stretch of the program
each, a step has to establish the part of the stretch it leads to (`LeadsForward` and
its like). The programs are unrolled once (`InstallProgram`, `RollbackProgram`), and
there is one lemma per step, for its success and by stretch for its failure. A half-swapped
installation comes about in one step (`moveOld`), which is behind the registration;
a recovery finds the same operation in its journal as it was started for, hence the same
directories (`SameLayout`). `StaysRecoverable` and `LeavesItWhole` follow, for any
number of operations, crashes, failures and pieces of new data.

About the pool and the insight jobs, three theorems join these into larger properties:
`Accounted` (`Accounting`) and `TurnsFollow` (`TurnsFollowGeneration`), which the
`pool` run checks, and `NothingLeft` (`NothingLeftBehind`), which is a part of
`NothingLeftByEither` of the `insights` run.

Model-checked only: the liveness properties (`PoolSettles`,
`WorkersOfBothSettle`, `JobsSettle`, `SwapEnds`, `ImportsEnd`), since the prover has no
support for fairness, and two properties of BatchScan. `StatisticsMatchEvidence` rests on
what sums and folds over the evidence compute, which needs an induction over data that no
installed prover can do. `ClaimsAreTrue` trusts the prefix signature, and count, largest
and sum are the same for some different prefixes (such as 1, 4, 5 and 2, 3, 5, when two
rows were lost and two came late), so that it holds of the instance but not of every
history; the code takes the same chance (`history_prefix_signature`).

## What the models leave out

In general: prompts, parsing, wording and timing values (a deadline is a choice,
not a clock); files whose contents do not decide control; accounts and
conversations beyond those of the instance (the registries are keyed by them);
WeChat's own databases.

* ApiInsights: inventory and portrait workers share the counter of the drain and have
  a module of their own (ApiPortraits). The bridge does not crash here: what the two
  properties say of a clear or a reset holds within one process, although the rows and
  the suspensions it leaves are on disk.
* ApiGuidance: one subject; a caller who meets a running job of its key, with the same
  wishes (it gets that job) or with others ("guidance-busy"), changes nothing and has
  no step; the eviction of finished jobs; rows of an unreadable shape; a reset of one
  member only. A stamp is a number that an edit moves and that never returns.
* ApiPortraits: texts edited in place; the revision is a counter, and highwater,
  prefix and revision are read in one step; a prefix signature, in the code an
  aggregate of count, largest and sum, is the set itself; prepare and checkpoint of
  the ledger are one step, since only the registered job writes; rows of older
  versions; retries of a call; a resume of the cache during its clear (ApiInsights has
  it).
* BatchScan: words, mood, style and MBTI are a count and a score, which depends on the
  window's last text; the prefix signature likewise; a pass has its subject to itself.
* LocalQueue: which of two tasks comes first is free where the code has priorities;
  the unlimited and limited scans of "history" are one; the load sampler only lowers
  the limit.
* AdvisorRuns: packages and templates; a run that has ended keeps only its state.
* AdvisorContext: fitting and summarising, eviction of waiting windows, deletions in
  the source, more than one window in flight.
* WeChatReader: the ranking of clients, diagnostics, the check of a pin against
  another instance, a change of the data root; times of caches and retries are
  free. `Thread.start` is taken to succeed.
* AccountRemoval: "result" stands for results, backups and key; opening the source
  database is taken to fix its signature before it is decrypted; the guard against busy
  jobs; a removal of the advisor directory that stops half way.
* ClientStart: the fallback to another port; windows and menus; a removal that fails
  after its mark, which leaves the mark beside a serving bridge for a moment, or for
  good when it cannot be unlinked (AccountRemoval has both).
* UpdateHelper: cleanup of older work directories, marker files, the journal write
  that fails after its rename, a client started by hand between a crash and the next
  logon.
* NodeAnalysis: the probe for the version, the checks of what is inside an answer, and
  what a child that was given up still says (the reader would drop it).

## Not modelled

Model sources (settings and credentials in files; the others model that the active
source changes), the reply forecast (a single flight with the hazards of the insight
jobs), payload encryption, the HTTP front, the browser client, prompts and
connectors, the native reader, the contracts and the build scripts: I/O, formatting
and data, or generated once by a developer. `PROJECT.json` gives the reason for each.

## What could come next

In order of importance.

1. *ModelSource*: activation with a probe, removal of a credential, revision;
   composed with the pool's `invalidate`.
2. An abstract portrait (the set of messages that arrived before the finish, judged
   once each) that ApiPortraits and BatchScan both implement, once the gaps above
   are closed.
3. *ReplyForecast*: single flight and the waiters of a cancelled one.
