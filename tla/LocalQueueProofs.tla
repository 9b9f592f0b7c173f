-------------------------- MODULE LocalQueueProofs --------------------------
(***************************************************************************)
(* Proofs about LocalQueue, for any conversations and workers, any number  *)
(* of jobs, turns and disturbances, and any request that one overtakes;    *)
(* and, below them, about BatchScan, the passes that the turns of a scan   *)
(* make, for any history, pages, windows and interruptions.                *)
(***************************************************************************)
EXTENDS LocalQueue, BatchScan, FiniteSetTheorems, WellFoundedInduction, TLAPS

-----------------------------------------------------------------------------
(* The inductive invariant *)

Scans == {"history", "incremental"}
Registers == Scans \cup {"recent"}
Lone == {"message", "member"}
WindowRecord == [job : 0 .. MaxJobs, pages : Int, rerun : BOOLEAN, background : BOOLEAN]
IterRecord == [mode : Scans, pages : Int, owner : Jobs]
WorkerRecord == [at : {"idle", "collided", "working", "ending", "gone"},
                 task : TaskRecord \cup {NoTask}]

Typed ==
    /\ jobs \in Seq(JobRecord) /\ Len(jobs) <= MaxJobs
    /\ current \in [Keys -> 0 .. MaxJobs] /\ member \in [Keys -> 0 .. MaxJobs]
    /\ window \in [Keys -> WindowRecord]
    /\ iter \in [Keys -> IterRecord \cup {NoIter}]
    /\ recheck \subseteq Keys /\ asked \subseteq Keys /\ stranded \subseteq Jobs
    /\ IsABag(queue)
    /\ worker \in [Workers -> WorkerRecord]
    /\ limit \in 0 .. Cardinality(Workers)
    /\ source \in {"local", "api"} /\ suspended \in BOOLEAN
    /\ clear \in {"idle", "draining", "drained", "erasing"}
    /\ reset \in {NoReset} \cup [key : Keys, at : {"waiting", "held"}]
    /\ life \in {"open", "closing", "closed"}
    /\ call \in {NoCall} \cup [key : Keys, mode : Requests]

\* A task is one of its job's: of its conversation, and of its kind by now.
Fits(kind, asks) ==
    /\ kind \in Lone \/ asks \in Lone => kind = asks
    /\ kind = "incremental" => asks = "incremental"
    /\ kind = "history" => asks \in Scans
Right(t) ==
    /\ t \in TaskRecord /\ t.job <= Len(jobs)
    /\ t.key = jobs[t.job].key
    /\ Fits(t.kind, jobs[t.job].mode)
Holds(w) == worker[w].at \in {"collided", "working", "ending"}
TasksRight ==
    /\ \A t \in BagToSet(queue) : Right(t)
    /\ \A w \in Workers : Holds(w) => Right(worker[w].task)

\* What is registered for a conversation is of that conversation, and a window is
\* that of its registered job.
Registry ==
    \A k \in Keys :
        /\ current[k] <= Len(jobs) /\ member[k] <= Len(jobs)
        /\ current[k] # 0 => jobs[current[k]].key = k /\ jobs[current[k]].mode \in Registers
        /\ member[k] # 0 => jobs[member[k]].key = k /\ jobs[member[k]].mode = "member"
        /\ window[k].job = 0 => window[k] = NoWindow
        /\ window[k].job # 0 => window[k].job = current[k]

Dropping(k) == \E w \in Workers : worker[w].at = "ending" /\ worker[w].task.key = k

\* A scan that is kept belongs to a job that asked for one, which is not done before
\* a worker drops the scan.
Owned ==
    \A k \in Keys : iter[k] # NoIter =>
        LET j == iter[k].owner IN
        /\ j <= Len(jobs) /\ jobs[j].key = k /\ jobs[j].mode \in Scans
        /\ iter[k].mode = "incremental" => jobs[j].mode = "incremental"
        /\ jobs[j].status = "done" => Dropping(k)

\* A worker in its turn has its conversation to itself, with the window or the scan
\* that it works on.
Apart ==
    /\ \A v, w \in Workers :
          v # w /\ InTurn(v) /\ InTurn(w) => worker[v].task.key # worker[w].task.key
    /\ \A w \in Workers : InTurn(w) =>
          /\ clear \notin {"drained", "erasing"}
          /\ ~(reset.at = "held" /\ reset.key = worker[w].task.key)
          /\ jobs[worker[w].task.job].flagged => worker[w].task.kind = "message"
    /\ clear # "idle" => suspended
    /\ \A w \in Workers : worker[w].at = "gone" => life # "open"
AtHand ==
    \A w \in Workers : InTurn(w) =>
        LET t == worker[w].task IN
        /\ worker[w].at = "working" /\ t.kind = "recent" => window[t.key].job = t.job
        /\ t.kind \in Scans => iter[t.key] # NoIter /\ iter[t.key].mode = t.kind
        /\ worker[w].at = "ending" => t.kind \in Scans /\ jobs[t.job].status \notin Open

\* The first window of a job that has no other task yet is followed by the scan
\* that the job is promoted to.
Promised ==
    life = "open" =>
        \A k \in Keys :
            /\ window[k].job # 0 /\ window[k].job \notin stranded
            /\ jobs[window[k].job].mode = "recent"
            => window[k].background

\* An incremental request is on record with the job that was promoted for it, and no
\* scan that began before the request ends the job.
Scanning(k) == iter[k].mode = "incremental" /\ ~Dropping(k)
Pending ==
    \A k \in asked :
        /\ current[k] # 0
        /\ jobs[current[k]].mode = "incremental"
        /\ jobs[current[k]].status \in Open \cup {"done"}
        /\ jobs[current[k]].status = "done" => window[k].background
        /\ Scanning(k) => k \in recheck

IInv == /\ Typed /\ TasksRight /\ Registry /\ Owned /\ Apart /\ AtHand
        /\ Promised /\ JobIsDriven /\ Pending

-----------------------------------------------------------------------------
(* The queue as a set of tasks *)

LEMMA Added ==
    ASSUME NEW B, IsABag(B), NEW t
    PROVE  /\ IsABag(B (+) SetToBag({t}))
           /\ DOMAIN (B (+) SetToBag({t})) = DOMAIN B \cup {t}
  <1> DEFINE S == [e \in DOMAIN B \cup {t} |-> (IF e \in DOMAIN B THEN B[e] ELSE 0)
                                             + (IF e \in {t} THEN 1 ELSE 0)]
  <1>1. B (+) SetToBag({t}) = S  BY DEF (+), SetToBag
  <1>2. \A e \in DOMAIN B \cup {t} : S[e] \in {n \in Nat : n > 0}  BY DEF IsABag
  <1> QED  BY <1>1, <1>2 DEF IsABag

LEMMA Removed ==
    ASSUME NEW B, IsABag(B), NEW t
    PROVE  /\ IsABag(B (-) SetToBag({t}))
           /\ DOMAIN (B (-) SetToBag({t})) \subseteq DOMAIN B
           /\ DOMAIN B \subseteq DOMAIN (B (-) SetToBag({t})) \cup {t}
  <1> DEFINE D == [e \in DOMAIN B |-> IF e \in {t} THEN B[e] - 1 ELSE B[e]]
             S == [e \in {d \in DOMAIN B : D[d] > 0} |-> D[e]]
  <1>1. B (-) SetToBag({t}) = S  BY DEF (-), SetToBag
  <1>2. \A e \in DOMAIN S : S[e] \in {n \in Nat : n > 0}  BY DEF IsABag
  <1>3. DOMAIN S = {d \in DOMAIN B : D[d] > 0}  OBVIOUS
  <1>4. \A e \in DOMAIN B \ {t} : D[e] > 0  BY DEF IsABag
  <1> HIDE DEF D
  <1> QED  BY <1>1, <1>2, <1>3, <1>4 DEF IsABag

LEMMA NothingQueued == IsABag(EmptyBag) /\ DOMAIN EmptyBag = {}
  BY DEF IsABag, EmptyBag, SetToBag

LEMMA Put ==
    ASSUME IsABag(queue), NEW t
    PROVE  /\ IsABag(Enqueued(t))
           /\ DOMAIN queue \subseteq DOMAIN Enqueued(t)
           /\ DOMAIN Enqueued(t) \subseteq DOMAIN queue \cup {t}
           /\ life = "open" => t \in DOMAIN Enqueued(t)
  BY Added DEF Enqueued

LEMMA Taken ==
    ASSUME IsABag(queue), NEW t
    PROVE  /\ IsABag(Rest(t))
           /\ DOMAIN Rest(t) \subseteq DOMAIN queue
           /\ DOMAIN queue \subseteq DOMAIN Rest(t) \cup {t}
  BY Removed DEF Rest

-----------------------------------------------------------------------------
(* The jobs *)

Numbers == 1 .. Len(jobs)

LEMMA JobFacts ==
    ASSUME Typed
    PROVE  /\ DOMAIN jobs = Numbers /\ Len(jobs) \in Nat /\ MaxJobs \in Nat
           /\ \A j \in Numbers : jobs[j] \in JobRecord /\ j \in Jobs
  BY QueueAssumption DEF Typed, Numbers, Jobs

\* A job keeps its conversation; its mode is only ever raised to that of a scan.
Raised(m, n) == n = m \/ (m = "recent" /\ n \in Scans) \/ (m = "history" /\ n = "incremental")
Grown ==
    /\ jobs' \in Seq(JobRecord) /\ Len(jobs') <= MaxJobs /\ Len(jobs) <= Len(jobs')
    /\ \A j \in Numbers : jobs'[j].key = jobs[j].key /\ Raised(jobs[j].mode, jobs'[j].mode)

\* Only the status of one job changes.
Marks(j, s) ==
    /\ jobs' \in Seq(JobRecord) /\ Len(jobs') = Len(jobs)
    /\ \A i \in Numbers :
          /\ jobs'[i].key = jobs[i].key /\ jobs'[i].mode = jobs[i].mode
          /\ jobs'[i].flagged = jobs[i].flagged
          /\ jobs'[i].status = IF i = j THEN s ELSE jobs[i].status

LEMMA Altered ==
    ASSUME NEW js \in Seq(JobRecord), NEW j \in 1 .. Len(js), NEW r \in JobRecord
    PROVE  /\ [js EXCEPT ![j] = r] \in Seq(JobRecord)
           /\ Len([js EXCEPT ![j] = r]) = Len(js)
           /\ \A i \in 1 .. Len(js) : [js EXCEPT ![j] = r][i] = IF i = j THEN r ELSE js[i]
  OBVIOUS

LEMMA StatusMarks ==
    ASSUME Typed, NEW j \in Numbers, NEW s \in Open \cup {"done", "error", "paused", "suspended", "cancelled"},
           jobs' = SetStatus(j, s)
    PROVE  Marks(j, s)
  <1>1. jobs[j] \in JobRecord  BY JobFacts
  <1>2. PICK r : r = [jobs[j] EXCEPT !.status = s]  OBVIOUS
  <1>3. /\ r \in JobRecord /\ r.status = s /\ r.key = jobs[j].key /\ r.mode = jobs[j].mode
        /\ r.flagged = jobs[j].flagged
    BY <1>1, <1>2 DEF JobRecord
  <1>4. jobs' = [jobs EXCEPT ![j] = r]  BY <1>2 DEF SetStatus
  <1> QED  BY <1>1, <1>3, <1>4, Altered DEF Marks, Numbers, Typed

LEMMA MarksGrow ==
    ASSUME Typed, NEW j, NEW s, Marks(j, s)
    PROVE  Grown
  BY DEF Marks, Grown, Raised, Typed

LEMMA SameGrow ==
    ASSUME Typed, UNCHANGED jobs
    PROVE  Grown
  BY JobFacts DEF Grown, Raised, Typed

LEMMA RaisedFits ==
    ASSUME NEW kind, NEW m, NEW n, Fits(kind, m), Raised(m, n)
    PROVE  Fits(kind, n)
  BY DEF Fits, Raised, Scans, Lone

LEMMA RightGrows ==
    ASSUME Typed, Grown, NEW t, Right(t)
    PROVE  Right(t)'
  <1>1. t.job \in Numbers  BY JobFacts DEF Right, TaskRecord, Jobs, Numbers
  <1>2. t.job <= Len(jobs')  BY <1>1, JobFacts DEF Grown, Numbers, Typed
  <1>3. Fits(t.kind, jobs'[t.job].mode)  BY <1>1, RaisedFits DEF Right, Grown
  <1> QED  BY <1>1, <1>2, <1>3 DEF Right, Grown

-----------------------------------------------------------------------------
(* What a step has to show for each part of the invariant *)

LEMMA RightStays ==
    ASSUME Typed, TasksRight, Grown,
           \A t \in DOMAIN queue' : t \in DOMAIN queue \/ Right(t)',
           \A v \in Workers : Holds(v)' => \/ Right(worker[v].task)'
                                           \/ Holds(v) /\ worker'[v].task = worker[v].task
    PROVE  TasksRight'
  <1>1. ASSUME NEW t \in DOMAIN queue' PROVE Right(t)'
    BY <1>1, RightGrows DEF TasksRight, BagToSet
  <1>2. ASSUME NEW v \in Workers, Holds(v)' PROVE Right(worker[v].task)'
    BY <1>2, RightGrows DEF TasksRight
  <1> QED  BY <1>1, <1>2 DEF TasksRight, BagToSet, Right

\* A window is kept, with what it promises, or it is dropped.
WindowKept(k) ==
    \/ window'[k] = NoWindow
    \/ window'[k] = window[k]
    \/ /\ window[k].job # 0 /\ window'[k].job = window[k].job
       /\ window[k].background => window'[k].background

LEMMA Kinship ==
    ASSUME Typed, Registry, NEW k \in Keys
    PROVE  /\ current[k] # 0 => current[k] \in Numbers
           /\ member[k] # 0 => member[k] \in Numbers
           /\ window[k].job # 0 => window[k].job \in Numbers
           /\ NoWindow.job = 0
  BY JobFacts DEF Typed, Registry, Numbers, NoWindow, WindowRecord

LEMMA RegistryStays ==
    ASSUME Typed, Registry, Grown, UNCHANGED <<current, member>>,
           \A k \in Keys : WindowKept(k)
    PROVE  Registry'
  <1> SUFFICES ASSUME NEW k \in Keys
               PROVE  /\ current'[k] <= Len(jobs') /\ member'[k] <= Len(jobs')
                      /\ current'[k] # 0 => jobs'[current'[k]].key = k /\ jobs'[current'[k]].mode \in Registers
                      /\ member'[k] # 0 => jobs'[member'[k]].key = k /\ jobs'[member'[k]].mode = "member"
                      /\ window'[k].job = 0 => window'[k] = NoWindow
                      /\ window'[k].job # 0 => window'[k].job = current'[k]
    BY DEF Registry
  <1>1. current[k] # 0 => jobs'[current[k]].key = k /\ jobs'[current[k]].mode \in Registers
    BY Kinship DEF Registry, Grown, Raised, Registers, Scans
  <1>2. member[k] # 0 => jobs'[member[k]].key = k /\ jobs'[member[k]].mode = "member"
    BY Kinship DEF Registry, Grown, Raised, Scans
  <1>3. current'[k] <= Len(jobs') /\ member'[k] <= Len(jobs')
    <2>1. current[k] <= Len(jobs) /\ member[k] <= Len(jobs)  BY DEF Registry
    <2>2. Len(jobs) <= Len(jobs') /\ Len(jobs) \in Nat /\ Len(jobs') \in Nat
          /\ current[k] \in Int /\ member[k] \in Int
      BY JobFacts DEF Grown, Typed
    <2> QED  BY <2>1, <2>2
  <1>4. /\ window'[k].job = 0 => window'[k] = NoWindow
        /\ window'[k].job # 0 => window'[k].job = current'[k]
    BY Kinship DEF Registry, WindowKept
  <1> QED  BY <1>1, <1>2, <1>3, <1>4

IterKept(k) ==
    \/ iter'[k] = NoIter
    \/ iter[k] # NoIter /\ iter'[k].mode = iter[k].mode /\ iter'[k].owner = iter[k].owner

LEMMA OwnedStays ==
    ASSUME Typed, Owned, Grown,
           \A k \in Keys : IterKept(k) /\ (Dropping(k) => Dropping(k)' \/ iter'[k] = NoIter),
           \A i \in Numbers : jobs[i].mode \in Scans /\ jobs'[i].status = "done"
                              => jobs[i].status = "done"
    PROVE  Owned'
  <1> SUFFICES ASSUME NEW k \in Keys, iter'[k] # NoIter
               PROVE  /\ iter'[k].owner <= Len(jobs')
                      /\ jobs'[iter'[k].owner].key = k /\ jobs'[iter'[k].owner].mode \in Scans
                      /\ iter'[k].mode = "incremental" => jobs'[iter'[k].owner].mode = "incremental"
                      /\ jobs'[iter'[k].owner].status = "done" => Dropping(k)'
    BY DEF Owned
  <1>1. /\ iter[k] # NoIter /\ iter'[k].mode = iter[k].mode /\ iter'[k].owner = iter[k].owner
        /\ Dropping(k) => Dropping(k)'
    BY DEF IterKept
  <1>2. PICK j : j = iter[k].owner  OBVIOUS
  <1>3. /\ j <= Len(jobs) /\ jobs[j].key = k /\ jobs[j].mode \in Scans
        /\ iter[k].mode = "incremental" => jobs[j].mode = "incremental"
        /\ jobs[j].status = "done" => Dropping(k)
    BY <1>1, <1>2 DEF Owned
  <1>4. j \in Numbers
    BY <1>1, <1>2, <1>3, JobFacts DEF Typed, IterRecord, Numbers, Jobs
  <1>5. /\ j <= Len(jobs') /\ jobs'[j].key = k /\ jobs'[j].mode \in Scans
        /\ jobs[j].mode = "incremental" => jobs'[j].mode = "incremental"
    BY <1>3, <1>4, JobFacts DEF Grown, Raised, Scans, Numbers
  <1> QED  BY <1>1, <1>2, <1>3, <1>4, <1>5

LEMMA PromisedStays ==
    ASSUME Typed, Registry, Promised, Grown, life' = "open" => life = "open",
           stranded \subseteq stranded', \A k \in Keys : WindowKept(k)
    PROVE  Promised'
  <1> SUFFICES ASSUME life' = "open", NEW k \in Keys, window'[k].job # 0,
                      window'[k].job \notin stranded', jobs'[window'[k].job].mode = "recent"
               PROVE  window'[k].background
    BY DEF Promised
  <1>1. window'[k].job = window[k].job /\ (window[k].background => window'[k].background)
    BY Kinship DEF WindowKept
  <1>2. jobs[window[k].job].mode = "recent"
    BY <1>1, Kinship DEF Grown, Raised, Scans
  <1> QED  BY <1>1, <1>2 DEF Promised

LEMMA ApartStays ==
    ASSUME Typed, TasksRight, Apart, UNCHANGED <<clear, reset, life, suspended>>,
           \A i \in Numbers : jobs'[i].flagged = jobs[i].flagged,
           \A v \in Workers : InTurn(v)' => InTurn(v) /\ worker'[v].task = worker[v].task,
           \A v \in Workers : worker'[v].at = "gone" => worker[v].at = "gone"
    PROVE  Apart'
  <1>1. ASSUME NEW v \in Workers, InTurn(v)' PROVE worker[v].task.job \in Numbers
    BY <1>1, JobFacts DEF TasksRight, Right, Holds, InTurn, TaskRecord, Numbers, Jobs
  <1> QED  BY <1>1 DEF Apart

LEMMA AtHandStays ==
    ASSUME Typed, AtHand,
           \A v \in Workers : InTurn(v)' =>
              LET t == worker[v].task IN
              /\ worker'[v] = worker[v]
              /\ window'[t.key].job = window[t.key].job
              /\ iter[t.key] # NoIter => iter'[t.key] # NoIter /\ iter'[t.key].mode = iter[t.key].mode
              /\ worker[v].at = "ending" => jobs'[t.job].status \notin Open
    PROVE  AtHand'
  <1> SUFFICES ASSUME NEW v \in Workers, InTurn(v)', NEW t, t = worker'[v].task
               PROVE  /\ worker'[v].at = "working" /\ t.kind = "recent" => window'[t.key].job = t.job
                      /\ t.kind \in Scans => iter'[t.key] # NoIter /\ iter'[t.key].mode = t.kind
                      /\ worker'[v].at = "ending" => t.kind \in Scans /\ jobs'[t.job].status \notin Open
    BY DEF AtHand
  <1>1. /\ worker'[v] = worker[v] /\ t = worker[v].task
        /\ window'[t.key].job = window[t.key].job
        /\ iter[t.key] # NoIter => iter'[t.key] # NoIter /\ iter'[t.key].mode = iter[t.key].mode
        /\ worker[v].at = "ending" => jobs'[t.job].status \notin Open
    OBVIOUS
  <1>2. InTurn(v)  BY <1>1 DEF InTurn
  <1> QED  BY <1>1, <1>2 DEF AtHand

\* What is owed for a request is owed still.
OwedStill(k) ==
    /\ k \in asked /\ current'[k] = current[k]
    /\ \/ jobs'[current[k]].status \in Open
       \/ /\ jobs'[current[k]].status = jobs[current[k]].status
          /\ jobs[current[k]].status = "done" /\ window[k].background => window'[k].background
    /\ Scanning(k)' => k \in recheck' \/ (Scanning(k) /\ (k \in recheck => k \in recheck'))

LEMMA PendingStays ==
    ASSUME Typed, Registry, Pending, Grown, asked' \subseteq Keys, \A k \in asked' : OwedStill(k)
    PROVE  Pending'
  <1> SUFFICES ASSUME NEW k \in asked'
               PROVE  /\ current'[k] # 0
                      /\ jobs'[current'[k]].mode = "incremental"
                      /\ jobs'[current'[k]].status \in Open \cup {"done"}
                      /\ jobs'[current'[k]].status = "done" => window'[k].background
                      /\ Scanning(k)' => k \in recheck'
    BY DEF Pending
  <1>1. OwedStill(k)  OBVIOUS
  <1>2. k \in asked /\ current'[k] = current[k]  BY <1>1 DEF OwedStill
  <1>3. PICK c : c = current[k]  OBVIOUS
  <1>4. c # 0 /\ jobs[c].mode = "incremental" /\ jobs[c].status \in Open \cup {"done"}
    BY <1>2, <1>3 DEF Pending
  <1>5. c \in Numbers  BY <1>3, <1>4, Kinship
  <1>6. jobs'[c].mode = "incremental"  BY <1>4, <1>5 DEF Grown, Raised
  <1>7. jobs'[c].status \in Open \cup {"done"}  BY <1>1, <1>3, <1>4 DEF OwedStill
  <1>8. jobs'[c].status = "done" => window'[k].background
    BY <1>1, <1>2, <1>3 DEF OwedStill, Pending, Open
  <1>9. Scanning(k)' => k \in recheck'  BY <1>1, <1>2 DEF OwedStill, Pending
  <1> QED  BY <1>2, <1>3, <1>4, <1>6, <1>7, <1>8, <1>9

LEMMA DrivenStays ==
    ASSUME JobIsDriven, life' = "open" => life = "open",
           \A j \in (Registered \ stranded)' : life' = "open" /\ jobs'[j].status \in Open =>
              \/ \E t \in Tasks' : Drives(t, j)'
              \/ /\ j \in Registered \ stranded /\ jobs[j].status \in Open
                 /\ \A t \in Tasks : Drives(t, j) => t \in Tasks' /\ Drives(t, j)'
    PROVE  JobIsDriven'
  BY DEF JobIsDriven

\* A step of one worker: the tasks that stay in its hand or in the queue.
LEMMA HandsKept ==
    ASSUME NEW w, \A v \in Workers \ {w} : worker'[v] = worker[v],
           NEW t \in Tasks,
           t \in DOMAIN queue => t \in DOMAIN queue' \/ t \in Tasks',
           w \in Workers /\ InHand(w) /\ t = worker[w].task => t \in DOMAIN queue' \/ t \in Tasks'
    PROVE  t \in Tasks'
  <1>1. CASE t \in DOMAIN queue  BY <1>1 DEF Tasks, BagToSet
  <1>2. CASE \E v \in Workers : InHand(v) /\ t = worker[v].task
    <2>1. PICK v \in Workers : InHand(v) /\ t = worker[v].task  BY <1>2
    <2>2. CASE v = w  BY <2>1, <2>2 DEF Tasks, BagToSet
    <2>3. CASE v # w  BY <2>1, <2>3 DEF Tasks, InHand
    <2> QED  BY <2>2, <2>3
  <1> QED  BY <1>1, <1>2 DEF Tasks, BagToSet

LEMMA DrivesStays ==
    ASSUME NEW t, NEW j, Drives(t, j), jobs'[j].mode = jobs[j].mode,
           window'[t.key].job = window[t.key].job,
           window[t.key].background => window'[t.key].background
    PROVE  Drives(t, j)'
  BY DEF Drives

LEMMA RegisteredStays ==
    ASSUME Typed, Grown, Len(jobs') = Len(jobs), UNCHANGED <<current, member>>
    PROVE  Registered' \subseteq Registered
  <1>1. DOMAIN jobs' = Numbers /\ DOMAIN jobs = Numbers  BY JobFacts DEF Grown, Numbers
  <1>2. \A j \in Numbers : jobs'[j].key = jobs[j].key /\ (jobs'[j].mode = "message" => jobs[j].mode = "message")
    BY DEF Grown, Raised, Scans
  <1> QED  BY <1>1, <1>2 DEF Registered

-----------------------------------------------------------------------------
(* Steps that leave the jobs, the tasks and what is registered alone *)

Beside ==
    \/ Refuse \/ Lower \/ Raise \/ ToLocal
    \/ ClearBegin \/ ClearDrained \/ ClearEnd
    \/ (\E k \in Keys : ResetBegin(k)) \/ ResetLock \/ ResetBusy
    \/ PauseBegin \/ PauseEnd

LEMMA OvertakenTyped == Overtaken \subseteq {NoCall} \cup [key : Keys, mode : Requests]
  BY DEF Overtaken

LEMMA BesideFrame ==
    ASSUME IInv, Beside
    PROVE  /\ UNCHANGED registry /\ UNCHANGED <<queue, worker>>
           /\ life' = "open" => life = "open"
  BY DEF Beside, Refuse, Lower, Raise, ToLocal, ClearBegin, ClearDrained, ClearEnd, ResetBegin,
         ResetLock, ResetBusy, PauseBegin, PauseEnd, threads, scope

LEMMA BesideTyped ==
    ASSUME IInv, Beside
    PROVE  Typed'
  <1>1. UNCHANGED registry /\ UNCHANGED <<queue, worker>>  BY BesideFrame
  <1>2. call' \in {NoCall} \cup [key : Keys, mode : Requests]
    <2>1. call \in {NoCall} \cup [key : Keys, mode : Requests]  BY DEF IInv, Typed
    <2> QED  BY <2>1, OvertakenTyped DEF Beside, Refuse, Lower, Raise, ToLocal, ClearBegin,
                ClearDrained, ClearEnd, ResetBegin, ResetLock, ResetBusy, PauseBegin, PauseEnd
  <1>3. limit' \in 0 .. Cardinality(Workers)
    <2>1. limit \in 0 .. Cardinality(Workers)  BY DEF IInv, Typed
    <2>2. Cardinality(Workers) \in Nat  BY FS_CardinalityType, QueueAssumption
    <2>3. CASE Lower  BY <2>1, <2>2, <2>3 DEF Lower
    <2>4. CASE Raise  BY <2>1, <2>2, <2>4 DEF Raise
    <2>5. CASE ~Lower /\ ~Raise
      BY <2>1, <2>5 DEF Beside, Refuse, ToLocal, ClearBegin, ClearDrained, ClearEnd, ResetBegin,
         ResetLock, ResetBusy, PauseBegin, PauseEnd, threads
    <2> QED  BY <2>3, <2>4, <2>5
  <1>4. /\ source' \in {"local", "api"} /\ suspended' \in BOOLEAN
        /\ clear' \in {"idle", "draining", "drained", "erasing"}
        /\ life' \in {"open", "closing", "closed"}
    <2>1. /\ source \in {"local", "api"} /\ suspended \in BOOLEAN
          /\ clear \in {"idle", "draining", "drained", "erasing"}
          /\ life \in {"open", "closing", "closed"}
      BY DEF IInv, Typed
    <2> QED  BY <2>1 DEF Beside, Refuse, Lower, Raise, ToLocal, ClearBegin,
                ClearDrained, ClearEnd, ResetBegin, ResetLock, ResetBusy, PauseBegin, PauseEnd, scope
  <1>5. reset' \in {NoReset} \cup [key : Keys, at : {"waiting", "held"}]
    <2>1. reset \in {NoReset} \cup [key : Keys, at : {"waiting", "held"}]  BY DEF IInv, Typed
    <2>2. ASSUME NEW k \in Keys, ResetBegin(k) PROVE reset' \in [key : Keys, at : {"waiting", "held"}]
      BY <2>2 DEF ResetBegin
    <2>3. CASE ResetLock  BY <2>1, <2>3 DEF ResetLock, NoReset
    <2>4. CASE ResetBusy  BY <2>4 DEF ResetBusy
    <2>5. CASE UNCHANGED reset  BY <2>1, <2>5
    <2> QED  BY <2>2, <2>3, <2>4, <2>5 DEF Beside, Refuse, Lower, Raise, ToLocal, ClearBegin,
                ClearDrained, ClearEnd, PauseBegin, PauseEnd, scope
  <1> QED  BY <1>1, <1>2, <1>3, <1>4, <1>5 DEF IInv, Typed, registry

LEMMA BesideApart ==
    ASSUME IInv, Beside
    PROVE  Apart'
  <1>1. UNCHANGED registry /\ UNCHANGED <<queue, worker>>  BY BesideFrame
  <1>2. Apart  BY DEF IInv
  <1>3. \A v \in Workers : (InTurn(v)' <=> InTurn(v)) /\ worker'[v] = worker[v]  BY <1>1 DEF InTurn
  <1>4. clear' # "idle" => suspended'
    BY <1>2 DEF Apart, Beside, Refuse, Lower, Raise, ToLocal, ClearBegin, ClearDrained, ClearEnd,
       ResetBegin, ResetLock, ResetBusy, PauseBegin, PauseEnd, scope
  <1>5. \A v \in Workers : worker'[v].at = "gone" => life' # "open"
    BY <1>2, <1>3, BesideFrame DEF Apart
  <1>6. \A v \in Workers : InTurn(v) => clear' \notin {"drained", "erasing"}
    <2>1. CASE ClearDrained  BY <2>1 DEF ClearDrained, NoneUnfinished
    <2>2. CASE clear' = clear  BY <1>2, <2>2 DEF Apart
    <2> QED  BY <2>1, <2>2 DEF Beside, Refuse, Lower, Raise, ToLocal, ClearBegin, ClearEnd,
                ResetBegin, ResetLock, ResetBusy, PauseBegin, PauseEnd, scope
  <1>7. \A v \in Workers : InTurn(v) => ~(reset'.at = "held" /\ reset'.key = worker[v].task.key)
    <2>1. CASE ResetLock
      <3>1. reset'.key = reset.key
        BY <2>1 DEF ResetLock, IInv, Typed, NoReset
      <3> QED  BY <2>1, <3>1 DEF ResetLock, LockedByWorker
    <2>2. CASE UNCHANGED reset  BY <1>2, <2>2 DEF Apart
    <2>3. ASSUME NEW k \in Keys, ResetBegin(k) PROVE reset'.at # "held"  BY <2>3 DEF ResetBegin
    <2>4. CASE ResetBusy  BY <2>4 DEF ResetBusy, NoReset
    <2> QED  BY <2>1, <2>2, <2>3, <2>4 DEF Beside, Refuse, Lower, Raise, ToLocal, ClearBegin,
                ClearDrained, ClearEnd, PauseBegin, PauseEnd, scope
  <1> QED  BY <1>1, <1>2, <1>3, <1>4, <1>5, <1>6, <1>7 DEF Apart, registry

LEMMA BesideKeeps ==
    ASSUME IInv, Beside
    PROVE  IInv'
  <1>1. UNCHANGED registry /\ UNCHANGED <<queue, worker>> /\ (life' = "open" => life = "open")
    BY BesideFrame
  <1>2. TasksRight'  BY <1>1 DEF IInv, TasksRight, Right, Holds, registry
  <1>3. Registry'  BY <1>1 DEF IInv, Registry, registry
  <1>4. Owned' /\ Pending'
    BY <1>1 DEF IInv, Owned, Pending, Scanning, Dropping, registry
  <1>5. AtHand'  BY <1>1 DEF IInv, AtHand, InTurn, registry
  <1>6. Promised'  BY <1>1 DEF IInv, Promised, registry
  <1>7. JobIsDriven'
    BY <1>1 DEF IInv, JobIsDriven, Registered, Tasks, InHand, Drives, registry
  <1> QED  BY <1>2, <1>3, <1>4, <1>5, <1>6, <1>7, BesideTyped, BesideApart DEF IInv


-----------------------------------------------------------------------------
(* Steps that only move a task between the queue and a hand *)

LEMMA WorkerTyped ==
    ASSUME Typed, NEW w \in Workers, NEW r \in WorkerRecord, worker' = [worker EXCEPT ![w] = r]
    PROVE  /\ worker' \in [Workers -> WorkerRecord]
           /\ worker'[w] = r
           /\ \A v \in Workers \ {w} : worker'[v] = worker[v]
  BY DEF Typed

LEMMA IdleTyped == Idle \in WorkerRecord /\ Idle.at = "idle"
  BY DEF Idle, WorkerRecord

\* Nothing that is registered changes, and no task is lost.
LEMMA CarriedKeeps ==
    ASSUME IInv, NEW w \in Workers, NEW r \in WorkerRecord,
           worker' \in [Workers -> WorkerRecord], worker'[w] = r,
           \A v \in Workers \ {w} : worker'[v] = worker[v],
           worker[w].at \in {"idle", "collided"}, r.at \in {"idle", "collided", "gone"},
           r.at = "gone" => life # "open",
           r.at = "collided" => Right(r.task),
           IsABag(queue'), \A t \in DOMAIN queue' : Right(t),
           life = "open" => \A t \in Tasks : \/ t \in Tasks'
                                             \/ t.kind = "recent" /\ window[t.key].job # t.job,
           UNCHANGED <<registry, limit, scope, call>>
    PROVE  IInv'
  <1>1. Typed'  BY DEF IInv, Typed, registry, scope
  <1>2. \A v \in Workers : (InTurn(v)' <=> InTurn(v)) /\ (InTurn(v) => worker'[v] = worker[v])
    BY DEF InTurn
  <1>3. \A k \in Keys : Dropping(k)' <=> Dropping(k)  BY DEF Dropping
  <1>4. TasksRight'
    <2>1. \A t : Right(t)' <=> Right(t)  BY DEF Right, registry
    <2>2. \A v \in Workers : Holds(v)' => Right(worker[v].task)'  BY <2>1 DEF Holds, IInv, TasksRight
    <2> QED  BY <2>1, <2>2 DEF TasksRight, BagToSet
  <1>5. Registry'  BY DEF IInv, Registry, registry
  <1>6. Owned' /\ Pending'
    <2>1. Owned'  BY <1>3 DEF IInv, Owned, registry
    <2>2. \A k \in Keys : Scanning(k)' <=> Scanning(k)  BY <1>3 DEF Scanning, registry
    <2>3. asked \subseteq Keys  BY DEF IInv, Typed
    <2> QED  BY <2>1, <2>2, <2>3 DEF IInv, Pending, registry
  <1>7. Apart'  BY <1>2 DEF IInv, Apart, registry, scope
  <1>8. AtHand'  BY <1>2 DEF IInv, AtHand, registry, InTurn
  <1>9. Promised'  BY DEF IInv, Promised, registry, scope
  <1>10. JobIsDriven'
    <2>1. \A j, t : Drives(t, j)' <=> Drives(t, j)  BY DEF Drives, registry
    <2>2. Registered' = Registered  BY DEF Registered, registry
    <2>3. SUFFICES ASSUME life = "open", NEW j \in Registered \ stranded, jobs[j].status \in Open
                   PROVE  \E t \in Tasks' : Drives(t, j)
      BY <2>1, <2>2 DEF JobIsDriven, registry, scope
    <2>4. PICK t \in Tasks : Drives(t, j)  BY <2>3 DEF IInv, JobIsDriven
    <2> QED  BY <2>3, <2>4 DEF Drives
  <1> QED  BY <1>1, <1>4, <1>5, <1>6, <1>7, <1>8, <1>9, <1>10 DEF IInv

LEMMA RequeueKeeps ==
    ASSUME IInv, NEW w \in Workers, Requeue(w)
    PROVE  IInv'
  <1>1. PICK t : t = worker[w].task  OBVIOUS
  <1>2. worker[w].at = "collided" /\ worker' = [worker EXCEPT ![w] = Idle] /\ queue' = Enqueued(t)
    BY <1>1 DEF Requeue
  <1>3. Right(t)  BY <1>1, <1>2 DEF IInv, TasksRight, Holds
  <1>4. /\ worker' \in [Workers -> WorkerRecord] /\ worker'[w] = Idle
        /\ \A v \in Workers \ {w} : worker'[v] = worker[v]
    BY <1>2, WorkerTyped, IdleTyped DEF IInv
  <1>5. IsABag(queue)  BY DEF IInv, Typed
  <1>6. IsABag(queue') /\ \A u \in DOMAIN queue' : Right(u)
    BY <1>2, <1>3, <1>5, Put DEF IInv, TasksRight, BagToSet
  <1>7. ASSUME life = "open", NEW u \in Tasks PROVE u \in Tasks'
    <2>1. t \in DOMAIN queue' /\ DOMAIN queue \subseteq DOMAIN queue'  BY <1>2, <1>5, <1>7, Put
    <2> QED  BY <1>1, <1>4, <2>1, HandsKept
  <1> QED  BY <1>2, <1>4, <1>6, <1>7, IdleTyped, CarriedKeeps DEF Requeue

LEMMA GoneKeeps ==
    ASSUME IInv, NEW w \in Workers, Gone(w)
    PROVE  IInv'
  <1>1. PICK r : r = [worker[w] EXCEPT !.at = "gone"]  OBVIOUS
  <1>2. r \in WorkerRecord /\ r.at = "gone"  BY <1>1 DEF IInv, Typed, WorkerRecord
  <1>3. worker[w].at = "idle" /\ worker' = [worker EXCEPT ![w] = r] /\ life = "closing"
        /\ UNCHANGED <<registry, queue, limit, scope, call>>
    BY <1>1 DEF Gone
  <1>4. /\ worker' \in [Workers -> WorkerRecord] /\ worker'[w] = r
        /\ \A v \in Workers \ {w} : worker'[v] = worker[v]
    BY <1>2, <1>3, WorkerTyped DEF IInv
  <1>5. IsABag(queue') /\ \A u \in DOMAIN queue' : Right(u)
    BY <1>3 DEF IInv, Typed, TasksRight, BagToSet
  <1> QED  BY <1>2, <1>3, <1>4, <1>5, CarriedKeeps

LEMMA TakenFacts ==
    ASSUME IInv, NEW t \in BagToSet(queue)
    PROVE  /\ Right(t) /\ t.job \in Numbers /\ t.key \in Keys /\ t.kind \in Kinds
           /\ IsABag(Rest(t)) /\ \A u \in DOMAIN Rest(t) : u \in DOMAIN queue /\ Right(u)
           /\ DOMAIN queue \subseteq DOMAIN Rest(t) \cup {t}
  BY Taken, JobFacts DEF IInv, Typed, TasksRight, Right, TaskRecord, Jobs, Numbers, BagToSet

LEMMA CollideKeeps ==
    ASSUME IInv, NEW w \in Workers, NEW t \in BagToSet(queue), Collide(w, t)
    PROVE  IInv'
  <1>1. PICK r : r = [at |-> "collided", task |-> t]  OBVIOUS
  <1>2. r \in WorkerRecord /\ r.at = "collided" /\ r.task = t
    BY <1>1, TakenFacts DEF WorkerRecord, Right
  <1>3. worker[w].at = "idle" /\ worker' = [worker EXCEPT ![w] = r] /\ queue' = Rest(t)
        /\ UNCHANGED <<registry, limit, scope, call>>
    BY <1>1 DEF Collide, MayTake
  <1>4. /\ worker' \in [Workers -> WorkerRecord] /\ worker'[w] = r
        /\ \A v \in Workers \ {w} : worker'[v] = worker[v]
    BY <1>2, <1>3, WorkerTyped DEF IInv
  <1>5. t \in Tasks'  BY <1>2, <1>4 DEF Tasks, InHand
  <1>6. ASSUME NEW u \in Tasks PROVE u \in Tasks'
    <2>1. u \in DOMAIN queue => u \in DOMAIN queue' \/ u \in Tasks'  BY <1>3, <1>5, TakenFacts
    <2>2. ~InHand(w)  BY <1>3 DEF InHand
    <2> QED  BY <1>4, <2>1, <2>2, HandsKept
  <1> QED  BY <1>2, <1>3, <1>4, <1>6, TakenFacts, CarriedKeeps

LEMMA RecentGoneKeeps ==
    ASSUME IInv, NEW w \in Workers, NEW t \in BagToSet(queue), RecentGone(w, t)
    PROVE  IInv'
  <1>1. PICK r : r = worker[w]  OBVIOUS
  <1>2. r \in WorkerRecord  BY <1>1 DEF IInv, Typed
  <1>3. r.at = "idle" /\ worker' = worker /\ queue' = Rest(t)
        /\ t.kind = "recent" /\ window[t.key].job # t.job
        /\ UNCHANGED <<registry, limit, scope, call>>
    BY <1>1 DEF RecentGone, TakeOnly, Take, MayTake
  <1>4. /\ worker' \in [Workers -> WorkerRecord] /\ worker'[w] = r
        /\ \A v \in Workers \ {w} : worker'[v] = worker[v]
    BY <1>1, <1>3 DEF IInv, Typed
  <1>5. ASSUME NEW u \in Tasks, u # t PROVE u \in Tasks'
    <2>1. u \in DOMAIN queue => u \in DOMAIN queue'  BY <1>3, <1>5, TakenFacts
    <2>2. ~InHand(w)  BY <1>1, <1>3 DEF InHand
    <2> QED  BY <1>4, <2>1, <2>2, HandsKept
  <1> QED  BY <1>1, <1>2, <1>3, <1>4, <1>5, TakenFacts, CarriedKeeps


-----------------------------------------------------------------------------
(* A task is taken *)

LEMMA TakeFacts ==
    ASSUME IInv, NEW w \in Workers, NEW t \in BagToSet(queue), Take(w, t)
    PROVE  /\ worker[w].at = "idle" /\ queue' = Rest(t) /\ UNCHANGED <<limit, call>>
           /\ \A v \in Workers : InTurn(v) => worker[v].task.key # t.key
           /\ ~(reset.at = "held" /\ reset.key = t.key)
           /\ ~Dropping(t.key)
  <1>1. worker[w].at = "idle" /\ queue' = Rest(t) /\ UNCHANGED <<limit, call>> /\ ~Locked(t.key)
    BY DEF Take, MayTake
  <1>2. \A v \in Workers : InTurn(v) => worker[v].task.key # t.key
    BY <1>1 DEF Locked, LockedByWorker
  <1>3. ~(reset.at = "held" /\ reset.key = t.key)
    <2>1. reset \in {NoReset} \cup [key : Keys, at : {"waiting", "held"}]  BY DEF IInv, Typed
    <2>2. reset # [key |-> t.key, at |-> "held"]  BY <1>1 DEF Locked
    <2>3. CASE reset = NoReset  BY <2>3 DEF NoReset
    <2>4. CASE reset \in [key : Keys, at : {"waiting", "held"}]  BY <2>2, <2>4
    <2> QED  BY <2>1, <2>3, <2>4
  <1>4. ~Dropping(t.key)  BY <1>2 DEF Dropping, InTurn
  <1> QED  BY <1>1, <1>2, <1>3, <1>4

\* The task is taken, its job ends or is put off, and the conversation may lose its
\* window and its scan.
Dropped(t) ==
    \/ UNCHANGED <<window, iter, stranded>>
    \/ /\ window' = [window EXCEPT ![t.key] = NoWindow]
       /\ iter' = [iter EXCEPT ![t.key] = NoIter]
       /\ stranded' = stranded \cup ({window[t.key].job} \ {0, t.job})

LEMMA DroppedFacts ==
    ASSUME Typed, NEW t, t.key \in Keys, Dropped(t)
    PROVE  /\ window' \in [Keys -> WindowRecord] /\ iter' \in [Keys -> IterRecord \cup {NoIter}]
           /\ stranded' \subseteq Jobs /\ stranded \subseteq stranded'
           /\ \A k \in Keys : WindowKept(k) /\ IterKept(k)
           /\ \A k \in Keys \ {t.key} : window'[k] = window[k] /\ iter'[k] = iter[k]
           /\ iter'[t.key] = iter[t.key] \/ iter'[t.key] = NoIter
           /\ window' = window \/ window'[t.key] = NoWindow
           /\ window[t.key].job \notin {0, t.job} => window' = window \/ window[t.key].job \in stranded'
  <1>1. CASE UNCHANGED <<window, iter, stranded>>
    BY <1>1 DEF Typed, WindowKept, IterKept
  <1>2. CASE ~ UNCHANGED <<window, iter, stranded>>
    <2>1. /\ window' = [window EXCEPT ![t.key] = NoWindow]
          /\ iter' = [iter EXCEPT ![t.key] = NoIter]
          /\ stranded' = stranded \cup ({window[t.key].job} \ {0, t.job})
      BY <1>2 DEF Dropped
    <2>2. window[t.key].job \in {0} \cup Jobs /\ NoWindow \in WindowRecord
      BY QueueAssumption DEF Typed, WindowRecord, Jobs, NoWindow
    <2> QED  BY <2>1, <2>2 DEF Typed, WindowKept, IterKept
  <1> QED  BY <1>1, <1>2

LEMMA DismissKeeps ==
    ASSUME IInv, NEW w \in Workers, NEW t \in BagToSet(queue), TakeOnly(w, t),
           NEW s \in {"error", "paused", "suspended", "cancelled"},
           jobs' = SetStatus(t.job, s), Dropped(t),
           asked' \subseteq asked,
           t.key \in asked' => /\ t.job # current[t.key]
                               /\ window' = window \/ window[t.key].job \in {0, t.job},
           UNCHANGED <<current, member, recheck, source, suspended, clear, reset, life>>
    PROVE  IInv'
  <1>t. Typed /\ Registry /\ t.job \in Numbers /\ t.key \in Keys /\ Right(t)
    BY TakenFacts DEF IInv
  <1>1. Take(w, t) /\ UNCHANGED worker  BY DEF TakeOnly
  <1>2. worker[w].at = "idle" /\ queue' = Rest(t) /\ UNCHANGED <<limit, call>>
    BY <1>1, TakeFacts
  <1>3. Marks(t.job, s)  BY <1>t, StatusMarks
  <1>4. Grown  BY <1>t, <1>3, MarksGrow
  <1>5. /\ window' \in [Keys -> WindowRecord] /\ iter' \in [Keys -> IterRecord \cup {NoIter}]
        /\ stranded' \subseteq Jobs /\ stranded \subseteq stranded'
        /\ \A k \in Keys : WindowKept(k) /\ IterKept(k)
        /\ \A k \in Keys \ {t.key} : window'[k] = window[k] /\ iter'[k] = iter[k]
        /\ iter'[t.key] = iter[t.key] \/ iter'[t.key] = NoIter
        /\ window' = window \/ window'[t.key] = NoWindow
        /\ window[t.key].job \notin {0, t.job} => window' = window \/ window[t.key].job \in stranded'
    BY <1>t, DroppedFacts
  <1>6. \A v \in Workers : InTurn(v)' <=> InTurn(v)  BY <1>1 DEF InTurn
  <1>7. \A k \in Keys : Dropping(k)' <=> Dropping(k)  BY <1>1 DEF Dropping
  <1>8. Typed'
    <2>1. IsABag(queue')  BY <1>2, TakenFacts
    <2>2. asked' \subseteq Keys  BY DEF IInv, Typed
    <2> QED  BY <1>1, <1>2, <1>3, <1>5, <2>1, <2>2 DEF IInv, Typed, Marks
  <1>9. TasksRight'
    <2>1. \A u \in DOMAIN queue' : u \in DOMAIN queue  BY <1>2, TakenFacts
    <2>2. \A v \in Workers : Holds(v)' => Holds(v) /\ worker'[v].task = worker[v].task
      BY <1>1 DEF Holds
    <2> QED  BY <1>4, <2>1, <2>2, RightStays DEF IInv
  <1>10. Registry'  BY <1>t, <1>4, <1>5, RegistryStays
  <1>11. Owned'
    <2>1. \A i \in Numbers : jobs[i].mode \in Scans /\ jobs'[i].status = "done" => jobs[i].status = "done"
      BY <1>3 DEF Marks
    <2> QED  BY <1>4, <1>5, <1>7, <2>1, OwnedStays DEF IInv
  <1>12. Apart'
    <2>1. \A i \in Numbers : jobs'[i].flagged = jobs[i].flagged  BY <1>3 DEF Marks
    <2> QED  BY <1>1, <1>6, <2>1, ApartStays DEF IInv
  <1>13. AtHand'
    <2> SUFFICES ASSUME NEW v \in Workers, InTurn(v)', NEW u, u = worker[v].task
                 PROVE  /\ worker'[v] = worker[v]
                        /\ window'[u.key].job = window[u.key].job
                        /\ iter[u.key] # NoIter => iter'[u.key] # NoIter /\ iter'[u.key].mode = iter[u.key].mode
                        /\ worker[v].at = "ending" => jobs'[u.job].status \notin Open
      BY AtHandStays DEF IInv
    <2>1. InTurn(v) /\ Right(u)  BY <1>6 DEF IInv, TasksRight, Holds, InTurn
    <2>2. u.key # t.key /\ u.key \in Keys  BY <1>1, <2>1, TakeFacts DEF Right, TaskRecord
    <2>3. u.job \in Numbers  BY <1>t, <2>1, JobFacts DEF Right, TaskRecord, Numbers, Jobs
    <2>4. worker[v].at = "ending" => jobs[u.job].status \notin Open  BY <2>1 DEF IInv, AtHand
    <2>5. jobs'[u.job].status = IF u.job = t.job THEN s ELSE jobs[u.job].status
      BY <1>3, <2>3 DEF Marks
    <2>6. s \notin Open  BY DEF Open
    <2> QED  BY <1>1, <1>5, <2>2, <2>4, <2>5, <2>6
  <1>14. Promised'  BY <1>4, <1>5, PromisedStays DEF IInv
  <1>15. JobIsDriven'
    <2> SUFFICES ASSUME life' = "open", NEW j \in (Registered \ stranded)', jobs'[j].status \in Open
                 PROVE  /\ j \in Registered \ stranded /\ jobs[j].status \in Open
                        /\ \A u \in Tasks : Drives(u, j) => u \in Tasks' /\ Drives(u, j)'
      BY DrivenStays DEF IInv
    <2>1. j \in Registered \ stranded /\ j \in Numbers
      BY <1>t, <1>3, <1>4, <1>5, RegisteredStays, JobFacts DEF Marks, Registered
    <2>2. j # t.job /\ jobs[j].status \in Open  BY <1>3, <2>1 DEF Marks, Open
    <2>3. jobs'[j].mode = jobs[j].mode  BY <1>3, <2>1 DEF Marks
    <2>4. ASSUME NEW u \in Tasks, Drives(u, j) PROVE u \in Tasks' /\ Drives(u, j)'
      <3>1. u.job = j /\ u # t  BY <2>2, <2>4 DEF Drives
      <3>2. u \in Tasks'
        <4>1. u \in DOMAIN queue => u \in DOMAIN queue'  BY <1>2, <3>1, TakenFacts
        <4>2. ~InHand(w)  BY <1>2 DEF InHand
        <4> QED  BY <1>1, <4>1, <4>2, HandsKept
      <3>3. CASE u.kind # "recent"  BY <3>1, <3>2, <3>3 DEF Drives
      <3>4. CASE u.kind = "recent"
        <4>1. window[u.key].job = j  BY <2>4, <3>4 DEF Drives
        <4>2. Right(u)  BY DEF IInv, TasksRight, Tasks, InHand, Holds
        <4>3. u.key \in Keys /\ j # 0  BY <3>1, <4>2, <2>1, JobFacts DEF Right, TaskRecord, Jobs
        <4>4. window'[u.key] = window[u.key]  BY <1>5, <2>1, <2>2, <4>1, <4>3
        <4> QED  BY <2>3, <2>4, <3>2, <4>4, DrivesStays
      <3> QED  BY <3>2, <3>3, <3>4
    <2> QED  BY <2>1, <2>2, <2>4
  <1>16. Pending'
    <2>1. asked' \subseteq Keys  BY DEF IInv, Typed
    <2> SUFFICES ASSUME NEW k \in asked' PROVE OwedStill(k)
      BY <1>4, <2>1, PendingStays DEF IInv
    <2>2. k \in asked /\ k \in Keys  BY <2>1
    <2>3. current[k] # 0  BY <2>2 DEF IInv, Pending
    <2>4. PICK c : c = current[k]  OBVIOUS
    <2>5. c \in Numbers /\ c # 0 /\ jobs[c].key = k  BY <1>t, <2>2, <2>3, <2>4, Kinship DEF Registry
    <2>6. c # t.job  BY <1>t, <2>4, <2>5 DEF Right
    <2>7. jobs'[c].status = jobs[c].status  BY <1>3, <2>5, <2>6 DEF Marks
    <2>8. Scanning(k)' => Scanning(k)
      <3>1. CASE k = t.key  BY <1>5, <1>7, <2>2, <3>1 DEF Scanning, NoIter
      <3>2. CASE k # t.key  BY <1>5, <1>7, <2>2, <3>2 DEF Scanning
      <3> QED  BY <3>1, <3>2
    <2>9. window[k].background => window'[k].background
      <3>1. CASE k # t.key \/ window' = window  BY <1>5, <2>2, <3>1
      <3>2. CASE k = t.key /\ window' # window
        <4>1. window[k].job \in {0, t.job}  BY <3>2
        <4>2. window[k] = NoWindow  BY <1>t, <2>2, <2>4, <2>6, <4>1 DEF Registry
        <4> QED  BY <4>2 DEF NoWindow
      <3> QED  BY <3>1, <3>2
    <2> QED  BY <2>2, <2>4, <2>7, <2>8, <2>9 DEF OwedStill
  <1> QED  BY <1>8, <1>9, <1>10, <1>11, <1>12, <1>13, <1>14, <1>15, <1>16 DEF IInv

LEMMA PutOffKeeps ==
    ASSUME IInv, NEW w \in Workers, NEW t \in BagToSet(queue), PutOff(w, t)
    PROVE  IInv'
  <1>1. PICK s : s = IF suspended THEN "suspended" ELSE IF t.kind = "message" THEN "cancelled" ELSE "paused"
    OBVIOUS
  <1>2. s \in {"error", "paused", "suspended", "cancelled"}  BY <1>1
  <1>3. TakeOnly(w, t) /\ jobs' = SetStatus(t.job, s) /\ Dropped(t)
    BY <1>1 DEF PutOff, Dropped
  <1>4. asked' = Told(t.key, t.job)  BY DEF PutOff
  <1>5. asked' \subseteq asked /\ (t.key \in asked' => t.job # current[t.key] /\ window' = window)
    BY <1>4 DEF Told, PutOff
  <1> QED  BY <1>2, <1>3, <1>5, DismissKeeps DEF PutOff, scope

LEMMA CannotEnterKeeps ==
    ASSUME IInv, NEW w \in Workers, NEW t \in BagToSet(queue), CannotEnter(w, t)
    PROVE  IInv'
  <1>1. PICK s : s = IF jobs[t.job].flagged THEN "cancelled" ELSE "error"  OBVIOUS
  <1>2. s \in {"error", "paused", "suspended", "cancelled"}  BY <1>1
  <1>3. TakeOnly(w, t) /\ jobs' = SetStatus(t.job, s) /\ Dropped(t)
    BY <1>1 DEF CannotEnter, Dropped
  <1>4. PICK theirs : theirs = {window[t.key].job} \ {0, t.job}  OBVIOUS
  <1>5. asked' = IF theirs # {} /\ t.kind # "message" THEN asked \ {t.key} ELSE Told(t.key, t.job)
    BY <1>4 DEF CannotEnter
  <1>6. t.kind = "message" => window' = window  BY DEF CannotEnter
  <1>7. /\ asked' \subseteq asked
        /\ t.key \in asked' => t.job # current[t.key] /\ (window' = window \/ window[t.key].job \in {0, t.job})
    <2>1. asked' \subseteq asked  BY <1>5 DEF Told
    <2>2. ASSUME t.key \in asked'
          PROVE  t.job # current[t.key] /\ (window' = window \/ window[t.key].job \in {0, t.job})
      <3>1. ~(theirs # {} /\ t.kind # "message") /\ asked' = Told(t.key, t.job)  BY <1>5, <2>2
      <3>2. t.job # current[t.key]  BY <2>2, <3>1 DEF Told
      <3> QED  BY <1>4, <1>6, <3>1, <3>2
    <2> QED  BY <2>1, <2>2
  <1> QED  BY <1>2, <1>3, <1>7, DismissKeeps DEF CannotEnter


-----------------------------------------------------------------------------
(* A turn begins *)

\* The scan that the turn works on is the saved one, or one of its own.
OwnScan(t, kind) ==
    \/ UNCHANGED <<iter, asked>> /\ (kind \in Scans => iter[t.key].mode = kind)
    \/ /\ kind \in Scans
       /\ jobs'[t.job].status = "running"
       /\ iter' \in [Keys -> IterRecord \cup {NoIter}]
       /\ iter'[t.key].mode = kind /\ iter'[t.key].owner = t.job
       /\ \A k \in Keys \ {t.key} : iter'[k] = iter[k]
       /\ asked' = IF kind = "incremental" THEN asked \ {t.key} ELSE asked

LEMMA WorkKeeps ==
    ASSUME IInv, NEW w \in Workers, NEW t \in BagToSet(queue), NEW kind, Work(w, t, kind),
           \/ kind = t.kind
           \/ kind = "incremental" /\ t.kind \in Scans /\ jobs[t.job].mode = "incremental",
           kind = "recent" => window[t.key].job = t.job,
           \/ UNCHANGED jobs
           \/ Marks(t.job, "running") /\ (kind = "recent" => jobs[t.job].mode = "recent"),
           window' \in [Keys -> WindowRecord],
           \A k \in Keys : window'[k].job = window[k].job /\ WindowKept(k)
                           /\ (window[k].background => window'[k].background),
           OwnScan(t, kind),
           UNCHANGED <<current, member, recheck, stranded>>
    PROVE  IInv'
  <1>t. Typed /\ Registry /\ t.job \in Numbers /\ t.key \in Keys /\ Right(t)
    BY TakenFacts DEF IInv
  <1>1. Take(w, t) /\ ~jobs[t.job].flagged /\ ~suspended /\ UNCHANGED scope  BY DEF Work
  <1>2. worker[w].at = "idle" /\ queue' = Rest(t) /\ UNCHANGED <<limit, call>>
    BY <1>1, TakeFacts
  <1>3. PICK u : u = [t EXCEPT !.kind = kind]  OBVIOUS
  <1>4. u.key = t.key /\ u.job = t.job /\ u.kind = kind /\ u \in TaskRecord
    BY <1>t, <1>3 DEF Right, TaskRecord, Kinds
  <1>5. Right(u)  BY <1>t, <1>4 DEF Right, Fits, Lone, Scans
  <1>6. PICK r : r = [at |-> "working", task |-> u]  OBVIOUS
  <1>7. r \in WorkerRecord /\ r.at = "working" /\ r.task = u  BY <1>4, <1>6 DEF WorkerRecord
  <1>8. worker' = [worker EXCEPT ![w] = r]  BY <1>3, <1>6 DEF Work
  <1>9. /\ worker' \in [Workers -> WorkerRecord] /\ worker'[w] = r
        /\ \A v \in Workers \ {w} : worker'[v] = worker[v]
    BY <1>t, <1>7, <1>8, WorkerTyped
  <1>10. Grown /\ Len(jobs') = Len(jobs)
    <2>1. CASE UNCHANGED jobs  BY <1>t, <2>1, SameGrow
    <2>2. CASE Marks(t.job, "running")
      <3>1. Grown  BY <1>t, <2>2, MarksGrow
      <3> QED  BY <2>2, <3>1 DEF Marks
    <2> QED  BY <2>1, <2>2
  <1>11. \A i \in Numbers : /\ jobs'[i].key = jobs[i].key /\ jobs'[i].mode = jobs[i].mode
                            /\ jobs'[i].flagged = jobs[i].flagged
                            /\ \/ jobs'[i].status = jobs[i].status
                               \/ i = t.job /\ jobs'[i].status = "running"
    BY DEF Marks
  <1>12. /\ ~InTurn(w) /\ InTurn(w)'
         /\ \A v \in Workers \ {w} : InTurn(v)' <=> InTurn(v)
    BY <1>2, <1>7, <1>9 DEF InTurn
  <1>13. \A k \in Keys : Dropping(k)' <=> Dropping(k)
    BY <1>2, <1>7, <1>9 DEF Dropping
  <1>14. /\ iter' \in [Keys -> IterRecord \cup {NoIter}] /\ asked' \subseteq asked
         /\ \A k \in Keys \ {t.key} : iter'[k] = iter[k]
    BY <1>t DEF OwnScan, Typed
  <1>15. Typed'
    <2>1. IsABag(queue') /\ asked' \subseteq Keys  BY <1>2, <1>14, TakenFacts DEF IInv, Typed
    <2> QED  BY <1>1, <1>2, <1>9, <1>10, <1>14, <2>1 DEF IInv, Typed, Grown, scope
  <1>16. TasksRight'
    <2>1. \A q \in DOMAIN queue' : q \in DOMAIN queue  BY <1>2, TakenFacts
    <2>2. Right(u)'  BY <1>t, <1>5, <1>10, RightGrows
    <2>3. worker'[w].task = u  BY <1>7, <1>9
    <2>4. ASSUME NEW v \in Workers, Holds(v)'
          PROVE  Right(worker[v].task)' \/ (Holds(v) /\ worker'[v].task = worker[v].task)
      <3>1. CASE v = w  BY <2>2, <2>3, <3>1 DEF Right
      <3>2. CASE v # w  BY <1>9, <2>4, <3>2 DEF Holds
      <3> QED  BY <3>1, <3>2
    <2> QED  BY <1>10, <2>1, <2>4, RightStays DEF IInv
  <1>17. Registry'  BY <1>t, <1>10, RegistryStays
  <1>18. Owned'
    <2>1. CASE UNCHANGED iter
      <3>1. \A i \in Numbers : jobs[i].mode \in Scans /\ jobs'[i].status = "done" => jobs[i].status = "done"
        BY <1>11
      <3>2. \A k \in Keys : IterKept(k)  BY <2>1 DEF IterKept
      <3> QED  BY <1>10, <1>13, <3>1, <3>2, OwnedStays DEF IInv
    <2>2. CASE ~UNCHANGED iter
      <3>1. /\ kind \in Scans /\ jobs'[t.job].status = "running"
            /\ iter'[t.key].mode = kind /\ iter'[t.key].owner = t.job
        BY <2>2 DEF OwnScan
      <3>2. jobs[t.job].mode \in Scans /\ (kind = "incremental" => jobs[t.job].mode = "incremental")
        BY <1>4, <1>5, <3>1 DEF Right, Fits, Scans
      <3> SUFFICES ASSUME NEW k \in Keys, iter'[k] # NoIter, NEW j, j = iter'[k].owner
                   PROVE  /\ j <= Len(jobs') /\ jobs'[j].key = k /\ jobs'[j].mode \in Scans
                          /\ iter'[k].mode = "incremental" => jobs'[j].mode = "incremental"
                          /\ jobs'[j].status = "done" => Dropping(k)'
        BY DEF Owned
      <3>3. CASE k = t.key
        BY <1>t, <1>10, <1>11, <3>1, <3>2, <3>3, JobFacts DEF Numbers, Right
      <3>4. CASE k # t.key
        <4>1. iter[k] # NoIter /\ iter[k] = iter'[k]  BY <1>14, <3>4
        <4>2. /\ j <= Len(jobs) /\ jobs[j].key = k /\ jobs[j].mode \in Scans
              /\ iter[k].mode = "incremental" => jobs[j].mode = "incremental"
              /\ jobs[j].status = "done" => Dropping(k)
          BY <4>1 DEF IInv, Owned
        <4>3. j \in Numbers  BY <1>t, <4>1, <4>2, JobFacts DEF Typed, IterRecord, Numbers, Jobs
        <4> QED  BY <1>10, <1>11, <1>13, <4>1, <4>2, <4>3
      <3> QED  BY <3>3, <3>4
    <2> QED  BY <2>1, <2>2
  <1>19. Apart'
    <2>1. Apart  BY DEF IInv
    <2>2. \A v \in Workers : InTurn(v) => worker[v].task.key # t.key  BY <1>1, TakeFacts
    <2>3. worker'[w].task.key = t.key /\ worker'[w].task.job = t.job  BY <1>4, <1>7, <1>9
    <2>4. \A v \in Workers : InTurn(v) => worker[v].task.job \in Numbers
      BY JobFacts DEF IInv, TasksRight, Right, Holds, InTurn, TaskRecord, Numbers, Jobs
    <2>5. ASSUME NEW v \in Workers, NEW x \in Workers, v # x, InTurn(v)', InTurn(x)'
          PROVE  worker'[v].task.key # worker'[x].task.key
      BY <1>9, <1>12, <2>1, <2>2, <2>3, <2>5 DEF Apart
    <2>6. clear' = "idle"  BY <1>1, <2>1 DEF Apart, scope
    <2>7. ASSUME NEW v \in Workers, InTurn(v)'
          PROVE  /\ ~(reset'.at = "held" /\ reset'.key = worker'[v].task.key)
                 /\ jobs'[worker'[v].task.job].flagged => worker'[v].task.kind = "message"
      <3>1. CASE v = w
        BY <1>t, <1>1, <1>11, <2>3, <3>1, TakeFacts DEF scope
      <3>2. CASE v # w
        BY <1>1, <1>9, <1>11, <1>12, <2>1, <2>4, <2>7, <3>2 DEF Apart, scope
      <3> QED  BY <3>1, <3>2
    <2>8. \A v \in Workers : worker'[v].at = "gone" => life' # "open"
      BY <1>1, <1>7, <1>9, <2>1 DEF Apart, scope
    <2> QED  BY <2>5, <2>6, <2>7, <2>8 DEF Apart
  <1>20. AtHand'
    <2> SUFFICES ASSUME NEW v \in Workers, InTurn(v)', NEW q, q = worker'[v].task
                 PROVE  /\ worker'[v].at = "working" /\ q.kind = "recent" => window'[q.key].job = q.job
                        /\ q.kind \in Scans => iter'[q.key] # NoIter /\ iter'[q.key].mode = q.kind
                        /\ worker'[v].at = "ending" => q.kind \in Scans /\ jobs'[q.job].status \notin Open
      BY DEF AtHand
    <2>1. CASE v = w
      <3>1. q = u /\ worker'[v].at = "working"  BY <1>7, <1>9, <2>1
      <3>2. kind \in Scans => iter'[t.key].mode = kind  BY DEF OwnScan
      <3>3. iter'[t.key].mode \in Scans => iter'[t.key] # NoIter  BY DEF NoIter, Scans
      <3> QED  BY <1>t, <1>4, <3>1, <3>2, <3>3
    <2>2. CASE v # w
      <3>1. InTurn(v) /\ q = worker[v].task /\ worker'[v] = worker[v] /\ Right(q)
        BY <1>9, <1>12, <2>2 DEF IInv, TasksRight, Holds, InTurn
      <3>2. q.key # t.key /\ q.key \in Keys  BY <1>1, <3>1, TakeFacts DEF Right, TaskRecord
      <3>3. q.job \in Numbers /\ jobs[q.job].key = q.key
        BY <3>1, JobFacts DEF Right, TaskRecord, Numbers, Jobs
      <3>4. q.job # t.job  BY <1>t, <3>2, <3>3 DEF Right
      <3>5. jobs'[q.job].status = jobs[q.job].status  BY <1>11, <3>3, <3>4
      <3>6. iter'[q.key] = iter[q.key] /\ window'[q.key].job = window[q.key].job  BY <1>14, <3>2
      <3>7. /\ worker[v].at = "working" /\ q.kind = "recent" => window[q.key].job = q.job
            /\ q.kind \in Scans => iter[q.key] # NoIter /\ iter[q.key].mode = q.kind
            /\ worker[v].at = "ending" => q.kind \in Scans /\ jobs[q.job].status \notin Open
        BY <3>1 DEF IInv, AtHand
      <3> QED  BY <3>1, <3>5, <3>6, <3>7
    <2> QED  BY <2>1, <2>2
  <1>21. Promised'  BY <1>1, <1>10, PromisedStays DEF IInv, scope
  <1>22. JobIsDriven'
    <2> SUFFICES ASSUME life = "open", NEW j \in (Registered \ stranded)', jobs'[j].status \in Open
                 PROVE  \/ \E q \in Tasks' : Drives(q, j)'
                        \/ /\ j \in Registered \ stranded /\ jobs[j].status \in Open
                           /\ \A q \in Tasks : Drives(q, j) => q \in Tasks' /\ Drives(q, j)'
      BY <1>1, DrivenStays DEF IInv, scope
    <2>1. j \in Registered \ stranded /\ j \in Numbers
      BY <1>t, <1>10, RegisteredStays, JobFacts DEF Registered
    <2>2. u \in Tasks'  BY <1>7, <1>9 DEF Tasks, InHand
    <2>3. jobs'[j].mode = jobs[j].mode  BY <1>11, <2>1
    <2>4. ASSUME Drives(t, j) PROVE Drives(u, j)'
      <3>1. u.job = j /\ (kind = "recent" => t.kind = "recent")  BY <1>4, <2>4 DEF Drives, Scans
      <3>2. CASE kind # "recent"  BY <1>4, <3>1, <3>2 DEF Drives
      <3>3. CASE kind = "recent"
        <4>1. u.kind = t.kind /\ u.key = t.key /\ t.kind = "recent"  BY <1>4, <3>1, <3>3
        <4>2. Drives(u, j)  BY <2>4, <3>1, <4>1 DEF Drives
        <4> QED  BY <1>t, <2>3, <4>1, <4>2, DrivesStays
      <3> QED  BY <3>2, <3>3
    <2>5. CASE jobs[j].status \notin Open
      <3>1. j = t.job /\ jobs' # jobs  BY <1>11, <2>1, <2>5
      <3>2. CASE kind # "recent"  BY <1>4, <2>2, <3>1, <3>2 DEF Drives
      <3>3. CASE kind = "recent"
        <4>1. jobs'[j].mode = "recent" /\ window'[t.key].job = j  BY <1>t, <2>3, <3>1, <3>3
        <4> QED  BY <1>4, <2>2, <3>1, <4>1 DEF Drives
      <3> QED  BY <3>2, <3>3
    <2>6. CASE jobs[j].status \in Open
      <3>1. ASSUME NEW q \in Tasks, Drives(q, j), q # t PROVE q \in Tasks' /\ Drives(q, j)'
        <4>1. q.key \in Keys  BY DEF IInv, TasksRight, Tasks, InHand, Holds, Right, TaskRecord
        <4>2. q \in Tasks'
          <5>1. q \in DOMAIN queue => q \in DOMAIN queue'  BY <1>2, <3>1, TakenFacts
          <5>2. ~InHand(w)  BY <1>2 DEF InHand
          <5> QED  BY <1>9, <5>1, <5>2, HandsKept
        <4>3. Drives(q, j)'  BY <2>3, <3>1, <4>1, DrivesStays
        <4> QED  BY <4>2, <4>3
      <3>2. PICK q \in Tasks : Drives(q, j)  BY <2>1, <2>6 DEF IInv, JobIsDriven
      <3> QED  BY <2>2, <2>4, <3>1, <3>2
    <2> QED  BY <2>5, <2>6
  <1>23. Pending'
    <2>1. asked' \subseteq Keys  BY <1>14 DEF IInv, Typed
    <2> SUFFICES ASSUME NEW k \in asked' PROVE OwedStill(k)
      BY <1>10, <2>1, PendingStays DEF IInv
    <2>2. k \in asked /\ k \in Keys  BY <1>14, <2>1
    <2>3. current[k] # 0  BY <2>2 DEF IInv, Pending
    <2>4. current[k] \in Numbers  BY <1>t, <2>2, <2>3, Kinship
    <2>5. Scanning(k)' => Scanning(k)
      <3>1. CASE iter'[k] = iter[k]  BY <1>13, <2>2, <3>1 DEF Scanning
      <3>2. CASE iter'[k] # iter[k]
        <4>1. k = t.key  BY <1>14, <2>2, <3>2
        <4>2. kind # "incremental" /\ iter'[k].mode = kind  BY <3>2, <4>1 DEF OwnScan
        <4> QED  BY <4>2 DEF Scanning
      <3> QED  BY <3>1, <3>2
    <2>6. jobs'[current[k]].status = jobs[current[k]].status \/ jobs'[current[k]].status \in Open
      BY <1>11, <2>4 DEF Open
    <2> QED  BY <2>2, <2>5, <2>6 DEF OwedStill
  <1> QED  BY <1>15, <1>16, <1>17, <1>18, <1>19, <1>20, <1>21, <1>22, <1>23 DEF IInv

LEMMA StartScanKeeps ==
    ASSUME IInv, NEW w \in Workers, NEW t \in BagToSet(queue), StartScan(w, t)
    PROVE  IInv'
  <1>t. Typed /\ t.job \in Numbers /\ t.key \in Keys /\ Right(t)  BY TakenFacts DEF IInv
  <1>1. PICK m : m = ModeOf(t)  OBVIOUS
  <1>2. t.kind \in Scans /\ Work(w, t, m) /\ jobs' = SetStatus(t.job, "running")
        /\ UNCHANGED <<current, member, window, recheck, stranded>>
    BY <1>1 DEF StartScan, Scans
  <1>3. m \in Scans /\ (m = t.kind \/ (m = "incremental" /\ jobs[t.job].mode = "incremental"))
    BY <1>1, <1>2 DEF ModeOf, Scans
  <1>4. Marks(t.job, "running")  BY <1>t, <1>2, StatusMarks DEF Open
  <1>5. OwnScan(t, m)
    <2>1. CASE iter[t.key].mode = m  BY <1>1, <2>1 DEF OwnScan, StartScan
    <2>2. CASE iter[t.key].mode # m
      <3>1. asked' = IF m = "incremental" THEN asked \ {t.key} ELSE asked
        BY <1>1, <2>2 DEF StartScan
      <3>2. PICK n \in 0 .. Left(t.key) :
                iter' = [iter EXCEPT ![t.key] = [mode |-> m, pages |-> n, owner |-> t.job]]
        BY <1>1, <2>2 DEF StartScan
      <3>3. [mode |-> m, pages |-> n, owner |-> t.job] \in IterRecord
        BY <1>t, <1>3, JobFacts DEF IterRecord
      <3>4. jobs'[t.job].status = "running"  BY <1>t, <1>4 DEF Marks
      <3> QED  BY <1>t, <1>3, <3>1, <3>2, <3>3, <3>4 DEF OwnScan, Typed
    <2> QED  BY <2>1, <2>2
  <1>6. /\ window' \in [Keys -> WindowRecord]
        /\ \A k \in Keys : window'[k].job = window[k].job /\ WindowKept(k)
                           /\ (window[k].background => window'[k].background)
    BY <1>t, <1>2 DEF Typed, WindowKept
  <1> QED  BY <1>2, <1>3, <1>4, <1>5, <1>6, WorkKeeps DEF Scans

LEMMA PagesKept ==
    ASSUME Typed, NEW k \in Keys, window[k].job # 0, NEW n \in Int,
           window' = [window EXCEPT ![k].pages = n]
    PROVE  /\ window' \in [Keys -> WindowRecord]
           /\ \A x \in Keys : window'[x].job = window[x].job /\ WindowKept(x)
                              /\ (window[x].background => window'[x].background)
  <1>1. PICK r : r = [window[k] EXCEPT !.pages = n]  OBVIOUS
  <1>2. window[k] \in WindowRecord  BY DEF Typed
  <1>3. r \in WindowRecord /\ r.job = window[k].job /\ r.background = window[k].background
    BY <1>1, <1>2 DEF WindowRecord
  <1>4. window' = [window EXCEPT ![k] = r]  BY <1>1
  <1> QED  BY <1>3, <1>4 DEF Typed, WindowKept

LEMMA StartRecentKeeps ==
    ASSUME IInv, NEW w \in Workers, NEW t \in BagToSet(queue), StartRecent(w, t)
    PROVE  IInv'
  <1>t. Typed /\ t.job \in Numbers /\ t.key \in Keys /\ Right(t)  BY TakenFacts DEF IInv
  <1>1. /\ t.kind = "recent" /\ window[t.key].job = t.job /\ Work(w, t, "recent")
        /\ UNCHANGED <<current, member, iter, recheck, asked, stranded>>
    BY DEF StartRecent
  <1>2. UNCHANGED jobs \/ (Marks(t.job, "running") /\ jobs[t.job].mode = "recent")
    <2>1. CASE jobs[t.job].mode = "recent"
      <3>1. jobs' = SetStatus(t.job, "running")  BY <2>1 DEF StartRecent
      <3> QED  BY <1>t, <2>1, <3>1, StatusMarks DEF Open
    <2> QED  BY <2>1 DEF StartRecent
  <1>3. /\ window' \in [Keys -> WindowRecord]
        /\ \A k \in Keys : window'[k].job = window[k].job /\ WindowKept(k)
                           /\ (window[k].background => window'[k].background)
    <2>1. CASE UNCHANGED window  BY <1>t, <2>1 DEF Typed, WindowKept
    <2>2. CASE ~UNCHANGED window
      <3>1. PICK n \in 0 .. MaxPages : window' = [window EXCEPT ![t.key].pages = n]
        BY <2>2 DEF StartRecent
      <3>2. n \in Int /\ window[t.key].job # 0
        BY <1>t, <1>1, <3>1, JobFacts, QueueAssumption DEF Jobs
      <3> QED  BY <1>t, <3>1, <3>2, PagesKept
    <2> QED  BY <2>1, <2>2
  <1>4. OwnScan(t, "recent")  BY <1>1 DEF OwnScan, Scans
  <1> QED  BY <1>1, <1>2, <1>3, <1>4, WorkKeeps

LEMMA StartOtherKeeps ==
    ASSUME IInv, NEW w \in Workers, NEW t \in BagToSet(queue), StartOther(w, t)
    PROVE  IInv'
  <1>t. Typed /\ t.job \in Numbers /\ t.key \in Keys /\ Right(t)  BY TakenFacts DEF IInv
  <1>1. /\ t.kind \in Lone /\ Work(w, t, t.kind) /\ jobs' = SetStatus(t.job, "running")
        /\ UNCHANGED <<current, member, window, iter, recheck, asked, stranded>>
    BY DEF StartOther, Lone
  <1>2. Marks(t.job, "running")  BY <1>t, <1>1, StatusMarks DEF Open
  <1>3. OwnScan(t, t.kind) /\ t.kind # "recent"  BY <1>1 DEF OwnScan, Scans, Lone
  <1>4. /\ window' \in [Keys -> WindowRecord]
        /\ \A k \in Keys : window'[k].job = window[k].job /\ WindowKept(k)
                           /\ (window[k].background => window'[k].background)
    BY <1>t, <1>1 DEF Typed, WindowKept
  <1> QED  BY <1>1, <1>2, <1>3, <1>4, WorkKeeps


-----------------------------------------------------------------------------
(* The end of a turn *)

\* What the end of a turn may touch: the job of its task, the window and the scan of
\* its conversation, and the queue, where it may put one task.
EndsTurn(w, t, u) ==
    /\ InTurn(w) /\ t = worker[w].task
    /\ jobs' \in Seq(JobRecord) /\ Len(jobs') = Len(jobs)
    /\ \A i \in Numbers : /\ jobs'[i].key = jobs[i].key /\ jobs'[i].mode = jobs[i].mode
                          /\ jobs'[i].flagged = jobs[i].flagged
                          /\ i # t.job => jobs'[i].status = jobs[i].status
    /\ window' \in [Keys -> WindowRecord] /\ iter' \in [Keys -> IterRecord \cup {NoIter}]
    /\ \A k \in Keys : /\ WindowKept(k) /\ IterKept(k)
                       /\ k # t.key => window'[k] = window[k] /\ iter'[k] = iter[k]
                       /\ k # t.key /\ k \in recheck => k \in recheck'
    /\ window' = window \/ window[t.key].job = t.job
    /\ recheck' \subseteq Keys /\ asked' \subseteq asked
    /\ \/ queue' = queue
       \/ queue' = Enqueued(u) /\ Right(u)
    /\ UNCHANGED <<current, member, stranded, limit, source, suspended, clear, reset, life, call>>

Rests(w) == worker' = [worker EXCEPT ![w] = Idle]
Ending(w, t) == /\ worker' = [worker EXCEPT ![w].at = "ending"]
                /\ worker[w].at = "working" /\ t.kind \in Scans
                /\ iter' = iter /\ jobs'[t.job].status \notin Open

LEMMA TurnFacts ==
    ASSUME IInv, NEW w \in Workers, InTurn(w), NEW t, t = worker[w].task
    PROVE  /\ Right(t) /\ t.job \in Numbers /\ t.key \in Keys /\ t.kind \in Kinds
           /\ jobs[t.job].key = t.key
           /\ \A v \in Workers \ {w} : InTurn(v) => worker[v].task.key # t.key
  <1>1. Right(t)  BY DEF IInv, TasksRight, Holds, InTurn
  <1>2. \A v \in Workers \ {w} : InTurn(v) => worker[v].task.key # t.key  BY DEF IInv, Apart
  <1> QED  BY <1>1, <1>2, JobFacts DEF IInv, Right, TaskRecord, Numbers, Jobs

LEMMA EndsMove ==
    ASSUME IInv, NEW w \in Workers, NEW t, NEW u, EndsTurn(w, t, u), Rests(w) \/ Ending(w, t)
    PROVE  /\ worker' \in [Workers -> WorkerRecord]
           /\ \A v \in Workers \ {w} : worker'[v] = worker[v]
           /\ worker'[w] = Idle \/ (Ending(w, t) /\ worker'[w].at = "ending" /\ worker'[w].task = t)
           /\ Ending(w, t) => worker'[w].at = "ending"
           /\ DOMAIN queue \subseteq DOMAIN queue' /\ IsABag(queue')
           /\ \A q \in DOMAIN queue' : q \in DOMAIN queue \/ Right(q)
           /\ \A q \in Tasks : q # t => q \in Tasks'
           /\ DOMAIN queue' \subseteq Tasks'
  <1>1. worker \in [Workers -> WorkerRecord]  BY DEF IInv, Typed
  <1>2. PICK r : r = [worker[w] EXCEPT !.at = "ending"]  OBVIOUS
  <1>3. worker[w] \in WorkerRecord /\ r \in WorkerRecord /\ r.at = "ending" /\ r.task = worker[w].task
    BY <1>1, <1>2 DEF WorkerRecord
  <1>4. /\ worker' \in [Workers -> WorkerRecord]
        /\ \A v \in Workers \ {w} : worker'[v] = worker[v]
        /\ worker'[w] = Idle \/ (Ending(w, t) /\ worker'[w].at = "ending" /\ worker'[w].task = t)
        /\ Ending(w, t) => worker'[w].at = "ending"
    BY <1>1, <1>2, <1>3, IdleTyped DEF Rests, Ending, EndsTurn
  <1>5. IsABag(queue)  BY DEF IInv, Typed
  <1>6. /\ DOMAIN queue \subseteq DOMAIN queue' /\ IsABag(queue')
        /\ \A q \in DOMAIN queue' : q \in DOMAIN queue \/ Right(q)
    BY <1>5, Put DEF EndsTurn
  <1>7. DOMAIN queue' \subseteq Tasks'  BY DEF Tasks, BagToSet
  <1>8. ASSUME NEW q \in Tasks, q # t PROVE q \in Tasks'
    BY <1>4, <1>6, <1>8, HandsKept DEF EndsTurn
  <1> QED  BY <1>4, <1>6, <1>7, <1>8

LEMMA EndsKeeps ==
    ASSUME IInv, NEW w \in Workers, NEW t, NEW u, EndsTurn(w, t, u), Rests(w) \/ Ending(w, t),
           \/ Ending(w, t) \/ iter'[t.key] = NoIter
           \/ /\ jobs[t.job].mode \in Scans /\ jobs'[t.job].status = "done" => jobs[t.job].status = "done"
              /\ worker[w].at = "working",
           life = "open" /\ t.job \in Registered \ stranded /\ jobs'[t.job].status \in Open
              => \E q \in Tasks' : Drives(q, t.job)',
           t.key \in asked' => OwedStill(t.key)
    PROVE  IInv'
  <1>t. Typed /\ Registry  BY DEF IInv
  <1>f. /\ Right(t) /\ t.job \in Numbers /\ t.key \in Keys /\ jobs[t.job].key = t.key
        /\ \A v \in Workers \ {w} : InTurn(v) => worker[v].task.key # t.key
    BY TurnFacts DEF EndsTurn
  <1>1. /\ worker' \in [Workers -> WorkerRecord]
        /\ \A v \in Workers \ {w} : worker'[v] = worker[v]
        /\ worker'[w] = Idle \/ (Ending(w, t) /\ worker'[w].at = "ending" /\ worker'[w].task = t)
        /\ Ending(w, t) => worker'[w].at = "ending"
        /\ IsABag(queue') /\ \A q \in DOMAIN queue' : q \in DOMAIN queue \/ Right(q)
        /\ \A q \in Tasks : q # t => q \in Tasks'
    BY EndsMove
  <1>2. Grown /\ Len(jobs') = Len(jobs)  BY <1>t DEF EndsTurn, Grown, Raised, Typed
  <1>3. /\ \A i \in Numbers : /\ jobs'[i].key = jobs[i].key /\ jobs'[i].mode = jobs[i].mode
                              /\ jobs'[i].flagged = jobs[i].flagged
                              /\ i # t.job => jobs'[i].status = jobs[i].status
        /\ InTurn(w) /\ t = worker[w].task
        /\ UNCHANGED <<current, member, stranded, limit, source, suspended, clear, reset, life, call>>
        /\ \A k \in Keys : /\ WindowKept(k) /\ IterKept(k)
                           /\ k # t.key => window'[k] = window[k] /\ iter'[k] = iter[k]
                           /\ k # t.key /\ k \in recheck => k \in recheck'
        /\ window' = window \/ window[t.key].job = t.job
        /\ asked' \subseteq asked
    BY DEF EndsTurn
  <1>4. \A v \in Workers : InTurn(v)' => InTurn(v) /\ worker'[v].task = worker[v].task
    BY <1>1, <1>3 DEF InTurn, Idle
  <1>5. \A k \in Keys \ {t.key} : Dropping(k)' <=> Dropping(k)
    BY <1>1, <1>3 DEF Dropping, Idle
  <1>6. Typed'
    <2>1. asked' \subseteq Keys  BY <1>3 DEF IInv, Typed
    <2> QED  BY <1>1, <1>3, <2>1 DEF IInv, Typed, EndsTurn
  <1>7. TasksRight'
    <2>1. \A q : Right(q) => Right(q)'  BY <1>t, <1>2, RightGrows
    <2>2. \A v \in Workers : Holds(v)' => Holds(v) /\ worker'[v].task = worker[v].task
      BY <1>1, <1>3 DEF Holds, InTurn, Idle
    <2> QED  BY <1>1, <1>2, <2>1, <2>2, RightStays DEF IInv
  <1>8. Registry'  BY <1>t, <1>2, <1>3, RegistryStays
  <1>9. Owned'
    <2> SUFFICES ASSUME NEW k \in Keys, iter'[k] # NoIter, NEW j, j = iter'[k].owner
                 PROVE  /\ j <= Len(jobs') /\ jobs'[j].key = k /\ jobs'[j].mode \in Scans
                        /\ iter'[k].mode = "incremental" => jobs'[j].mode = "incremental"
                        /\ jobs'[j].status = "done" => Dropping(k)'
      BY DEF Owned
    <2>1. iter[k] # NoIter /\ iter'[k].mode = iter[k].mode /\ iter[k].owner = j
      BY <1>3 DEF IterKept
    <2>2. /\ j <= Len(jobs) /\ jobs[j].key = k /\ jobs[j].mode \in Scans
          /\ iter[k].mode = "incremental" => jobs[j].mode = "incremental"
          /\ jobs[j].status = "done" => Dropping(k)
      BY <2>1 DEF IInv, Owned
    <2>3. j \in Numbers  BY <1>t, <2>1, <2>2, JobFacts DEF Typed, IterRecord, Numbers, Jobs
    <2>4. jobs'[j].status = "done" => Dropping(k)'
      <3>1. CASE k # t.key
        BY <1>3, <1>5, <1>f, <2>2, <2>3, <3>1
      <3>2. CASE k = t.key /\ worker'[w].at = "ending"
        BY <1>1, <3>2 DEF Dropping, Idle
      <3>3. CASE k = t.key /\ worker'[w].at # "ending"
        <4>1. /\ jobs[t.job].mode \in Scans /\ jobs'[t.job].status = "done" => jobs[t.job].status = "done"
              /\ worker[w].at = "working"
          BY <1>1, <2>1, <3>3
        <4>2. ~Dropping(k)  BY <1>f, <3>3, <4>1 DEF Dropping, InTurn, EndsTurn
        <4> QED  BY <1>3, <2>2, <2>3, <4>1, <4>2
      <3> QED  BY <3>1, <3>2, <3>3
    <2> QED  BY <1>2, <1>3, <2>1, <2>2, <2>3, <2>4
  <1>10. Apart'
    <2>1. \A v \in Workers : worker'[v].at = "gone" => worker[v].at = "gone"
      BY <1>1 DEF Idle
    <2> QED  BY <1>3, <1>4, <2>1, ApartStays DEF IInv
  <1>11. AtHand'
    <2> SUFFICES ASSUME NEW v \in Workers, InTurn(v)', NEW q, q = worker'[v].task
                 PROVE  /\ worker'[v].at = "working" /\ q.kind = "recent" => window'[q.key].job = q.job
                        /\ q.kind \in Scans => iter'[q.key] # NoIter /\ iter'[q.key].mode = q.kind
                        /\ worker'[v].at = "ending" => q.kind \in Scans /\ jobs'[q.job].status \notin Open
      BY DEF AtHand
    <2>1. CASE v = w
      <3>1. Ending(w, t) /\ worker'[w].at = "ending" /\ q = t  BY <1>1, <2>1 DEF InTurn, Idle
      <3>2. iter[t.key] # NoIter /\ iter[t.key].mode = t.kind
        BY <1>3, <3>1 DEF IInv, AtHand, Ending
      <3> QED  BY <2>1, <3>1, <3>2 DEF Ending
    <2>2. CASE v # w
      <3>1. InTurn(v) /\ q = worker[v].task /\ worker'[v] = worker[v] /\ Right(q)
        BY <1>1, <1>4, <2>2 DEF IInv, TasksRight, Holds, InTurn
      <3>2. q.key # t.key /\ q.key \in Keys  BY <1>f, <2>2, <3>1 DEF Right, TaskRecord
      <3>3. q.job \in Numbers /\ jobs[q.job].key = q.key
        BY <1>t, <3>1, JobFacts DEF Right, TaskRecord, Numbers, Jobs
      <3>4. jobs'[q.job].status = jobs[q.job].status  BY <1>3, <1>f, <3>2, <3>3
      <3>5. iter'[q.key] = iter[q.key] /\ window'[q.key] = window[q.key]  BY <1>3, <3>2
      <3>6. /\ worker[v].at = "working" /\ q.kind = "recent" => window[q.key].job = q.job
            /\ q.kind \in Scans => iter[q.key] # NoIter /\ iter[q.key].mode = q.kind
            /\ worker[v].at = "ending" => q.kind \in Scans /\ jobs[q.job].status \notin Open
        BY <3>1 DEF IInv, AtHand
      <3> QED  BY <3>1, <3>4, <3>5, <3>6
    <2> QED  BY <2>1, <2>2
  <1>12. Promised'  BY <1>2, <1>3, PromisedStays DEF IInv
  <1>13. JobIsDriven'
    <2> SUFFICES ASSUME life = "open", NEW j \in (Registered \ stranded)', jobs'[j].status \in Open
                 PROVE  \/ \E q \in Tasks' : Drives(q, j)'
                        \/ /\ j \in Registered \ stranded /\ jobs[j].status \in Open
                           /\ \A q \in Tasks : Drives(q, j) => q \in Tasks' /\ Drives(q, j)'
      BY <1>3, DrivenStays DEF IInv
    <2>1. j \in Registered \ stranded /\ j \in Numbers
      BY <1>t, <1>2, <1>3, RegisteredStays, JobFacts DEF Registered
    <2>2. CASE j = t.job  BY <2>1, <2>2
    <2>3. CASE j # t.job
      <3>1. jobs[j].status \in Open /\ jobs'[j].mode = jobs[j].mode  BY <1>3, <2>1, <2>3
      <3>2. ASSUME NEW q \in Tasks, Drives(q, j) PROVE q \in Tasks' /\ Drives(q, j)'
        <4>1. q.job = j /\ q \in Tasks'  BY <1>1, <2>3, <3>2 DEF Drives
        <4>2. CASE q.kind # "recent"  BY <4>1, <4>2 DEF Drives
        <4>3. CASE q.kind = "recent"
          <5>1. window[q.key].job = j  BY <3>2, <4>3 DEF Drives
          <5>2. q.key \in Keys
            BY DEF IInv, TasksRight, Tasks, InHand, Holds, Right, TaskRecord
          <5>3. window'[q.key] = window[q.key]  BY <1>3, <2>3, <5>1, <5>2
          <5> QED  BY <3>1, <3>2, <4>1, <5>3, DrivesStays
        <4> QED  BY <4>1, <4>2, <4>3
      <3> QED  BY <2>1, <3>1, <3>2
    <2> QED  BY <2>2, <2>3
  <1>14. Pending'
    <2>1. asked' \subseteq Keys  BY <1>3 DEF IInv, Typed
    <2> SUFFICES ASSUME NEW k \in asked', k # t.key PROVE OwedStill(k)
      BY <1>t, <1>2, <2>1, PendingStays DEF IInv
    <2>2. k \in asked /\ k \in Keys  BY <1>3, <2>1
    <2>3. current[k] # 0  BY <2>2 DEF IInv, Pending
    <2>4. current[k] \in Numbers /\ jobs[current[k]].key = k
      BY <1>t, <2>2, <2>3, Kinship DEF Registry
    <2>5. jobs'[current[k]].status = jobs[current[k]].status  BY <1>3, <1>f, <2>4
    <2>6. Scanning(k)' <=> Scanning(k)  BY <1>3, <1>5, <2>2 DEF Scanning
    <2> QED  BY <1>3, <2>2, <2>5, <2>6 DEF OwedStill
  <1> QED  BY <1>6, <1>7, <1>8, <1>9, <1>10, <1>11, <1>12, <1>13, <1>14 DEF IInv


LEMMA StillKept ==
    ASSUME Typed
    PROVE  /\ UNCHANGED window => \A k \in Keys : WindowKept(k)
           /\ UNCHANGED iter => \A k \in Keys : IterKept(k)
           /\ \A k \in Keys : window'[k] = NoWindow => WindowKept(k)
           /\ \A k \in Keys : iter'[k] = NoIter => IterKept(k)
  BY DEF WindowKept, IterKept

LEMMA WorkFacts ==
    ASSUME IInv, NEW w \in Workers, NEW kinds, WorksOn(w, kinds), NEW t, t = worker[w].task
    PROVE  /\ InTurn(w) /\ worker[w].at = "working" /\ t.kind \in kinds
           /\ t.kind = "recent" => window[t.key].job = t.job
           /\ t.kind \in Scans => /\ iter[t.key] # NoIter /\ iter[t.key].mode = t.kind
                                  /\ ~Dropping(t.key)
           /\ t \in Tasks
  <1>1. InTurn(w) /\ worker[w].at = "working" /\ t.kind \in kinds  BY DEF WorksOn, InTurn
  <1>2. ~Dropping(t.key)
    BY <1>1, TurnFacts DEF Dropping, InTurn
  <1>3. t \in Tasks  BY <1>1 DEF Tasks, InHand
  <1> QED  BY <1>1, <1>2, <1>3 DEF IInv, AtHand

LEMMA YieldScanKeeps ==
    ASSUME IInv, NEW w \in Workers, YieldScan(w)
    PROVE  IInv'
  <1>0. PICK t : t = worker[w].task  OBVIOUS
  <1>t. Typed  BY DEF IInv
  <1>1. WorksOn(w, Scans)  BY DEF YieldScan, Scans
  <1>2. InTurn(w) /\ worker[w].at = "working" /\ t.kind \in Scans /\ iter[t.key] # NoIter /\ t \in Tasks
    BY <1>0, <1>1, WorkFacts
  <1>3. Right(t) /\ t.job \in Numbers /\ t.key \in Keys  BY <1>0, <1>2, TurnFacts
  <1>4. PICK r : r = [iter[t.key] EXCEPT !.pages = @ - 1]  OBVIOUS
  <1>5. iter[t.key] \in IterRecord  BY <1>2, <1>3 DEF IInv, Typed
  <1>6. r \in IterRecord /\ r.mode = iter[t.key].mode /\ r.owner = iter[t.key].owner
    BY <1>4, <1>5 DEF IterRecord
  <1>7. /\ iter' = [iter EXCEPT ![t.key] = r] /\ queue' = Enqueued(t) /\ Rests(w)
        /\ UNCHANGED <<jobs, limit, current, member, window, recheck, asked, stranded, scope, call>>
    BY <1>0, <1>4 DEF YieldScan, Leave, Rests
  <1>8. /\ iter' \in [Keys -> IterRecord \cup {NoIter}]
        /\ \A k \in Keys : IterKept(k) /\ (k # t.key => iter'[k] = iter[k])
    BY <1>2, <1>3, <1>6, <1>7 DEF Typed, IInv, IterKept
  <1>9. EndsTurn(w, t, t)
    BY <1>0, <1>t, <1>2, <1>3, <1>7, <1>8, StillKept DEF EndsTurn, Typed, scope
  <1>10. life = "open" => \E q \in Tasks' : Drives(q, t.job)'
    <2>1. life = "open" => t \in Tasks'  BY <1>t, <1>7, <1>9, EndsMove, Put DEF Typed
    <2> QED  BY <1>2, <2>1 DEF Drives, Scans
  <1>11. t.key \in asked' => OwedStill(t.key)
    <2>1. Scanning(t.key)' => Scanning(t.key)
      BY <1>0, <1>1, <1>6, <1>7, <1>3, <1>8, WorkFacts DEF Scanning, Typed, IInv
    <2> QED  BY <1>7, <2>1 DEF OwedStill, IInv, Pending
  <1> QED  BY <1>2, <1>7, <1>9, <1>10, <1>11, EndsKeeps

LEMMA EndScanKeeps ==
    ASSUME IInv, NEW w \in Workers, EndScan(w)
    PROVE  IInv'
  <1>0. PICK t : t = worker[w].task  OBVIOUS
  <1>t. Typed /\ Pending  BY DEF IInv
  <1>1. WorksOn(w, Scans)  BY DEF EndScan, Scans
  <1>2. /\ InTurn(w) /\ worker[w].at = "working" /\ t.kind \in Scans
        /\ iter[t.key] # NoIter /\ iter[t.key].mode = t.kind /\ ~Dropping(t.key)
    BY <1>0, <1>1, WorkFacts
  <1>3. Right(t) /\ t.job \in Numbers /\ t.key \in Keys  BY <1>0, <1>2, TurnFacts
  <1>4. UNCHANGED <<current, member, window, asked, stranded, limit, scope, call>>
    BY DEF EndScan, Leave
  <1>5. CASE Again(t)
    <2>1. PICK u : u = Task(t.key, "incremental", t.job)  OBVIOUS
    <2>2. jobs[t.job].mode = "incremental"
      BY <1>3, <1>5 DEF Again, Right, Fits
    <2>3. Right(u) /\ u.kind = "incremental" /\ u.job = t.job
      BY <1>3, <2>1, <2>2 DEF Right, Task, TaskRecord, Kinds, Fits, Lone
    <2>4. /\ recheck' \subseteq recheck /\ \A k \in Keys \ {t.key} : k \in recheck => k \in recheck'
          /\ iter' = [iter EXCEPT ![t.key] = NoIter] /\ jobs' = SetStatus(t.job, "queued")
          /\ queue' = Enqueued(u) /\ Rests(w)
      BY <1>0, <1>5, <2>1 DEF EndScan, Leave, Rests
    <2>5. Marks(t.job, "queued")  BY <1>t, <1>3, <2>4, StatusMarks DEF Open
    <2>6. /\ iter' \in [Keys -> IterRecord \cup {NoIter}] /\ iter'[t.key] = NoIter
          /\ \A k \in Keys : IterKept(k) /\ (k # t.key => iter'[k] = iter[k])
      BY <1>t, <1>3, <2>4 DEF Typed, IterKept
    <2>7. EndsTurn(w, t, u)
      BY <1>0, <1>t, <1>2, <1>4, <2>3, <2>4, <2>5, <2>6, StillKept DEF EndsTurn, Marks, Typed, scope
    <2>8. life = "open" => \E q \in Tasks' : Drives(q, t.job)'
      <3>1. life = "open" => u \in Tasks'  BY <1>t, <2>4, <2>7, EndsMove, Put DEF Typed
      <3> QED  BY <2>3, <3>1 DEF Drives
    <2>9. t.key \in asked' => OwedStill(t.key)
      <3>1. ~Scanning(t.key)'  BY <2>6 DEF Scanning, NoIter
      <3>2. ASSUME t.key \in asked'
            PROVE  \/ jobs'[current[t.key]].status \in Open
                   \/ /\ jobs'[current[t.key]].status = jobs[current[t.key]].status
                      /\ window' = window
        <4>1. current[t.key] # 0  BY <1>4, <1>t, <3>2 DEF Pending
        <4>2. current[t.key] \in Numbers  BY <1>3, <4>1, Kinship DEF IInv
        <4> QED  BY <1>4, <2>5, <4>2 DEF Marks, Open
      <3> QED  BY <1>4, <3>1, <3>2 DEF OwedStill
    <2> QED  BY <2>4, <2>6, <2>7, <2>8, <2>9, EndsKeeps
  <1>6. CASE ~Again(t)
    <2>1. /\ jobs' = SetStatus(t.job, "done") /\ worker' = [worker EXCEPT ![w].at = "ending"]
          /\ UNCHANGED <<recheck, iter, queue>>
      BY <1>0, <1>6 DEF EndScan
    <2>2. Marks(t.job, "done")  BY <1>t, <1>3, <2>1, StatusMarks
    <2>3. EndsTurn(w, t, t)
      BY <1>0, <1>t, <1>2, <1>4, <2>1, <2>2, StillKept DEF EndsTurn, Marks, Typed, scope
    <2>4. jobs'[t.job].status \notin Open  BY <1>3, <2>2 DEF Marks, Open
    <2>5. Ending(w, t)  BY <1>2, <2>1, <2>4 DEF Ending
    <2>6. t.key \in asked' => OwedStill(t.key)
      <3> SUFFICES ASSUME t.key \in asked PROVE OwedStill(t.key)  BY <1>4
      <3>1. /\ current[t.key] # 0 /\ jobs[current[t.key]].mode = "incremental"
            /\ Scanning(t.key) => t.key \in recheck
        BY <1>t DEF Pending
      <3>2. current[t.key] # t.job
        <4>1. SUFFICES ASSUME jobs[t.job].mode = "incremental" PROVE t.kind = "incremental" => t.key \in recheck
          BY <1>2, <1>6, <3>1 DEF Again, Scans
        <4> QED  BY <1>2, <3>1 DEF Scanning
      <3>3. current[t.key] \in Numbers  BY <1>3, <3>1, Kinship DEF IInv
      <3>4. jobs'[current[t.key]].status = jobs[current[t.key]].status  BY <2>2, <3>2, <3>3 DEF Marks
      <3>5. ~Scanning(t.key)'
        <4>1. worker'[w].at = "ending" /\ worker'[w].task.key = t.key
          BY <2>3, <2>5, EndsMove DEF Idle
        <4> QED  BY <4>1 DEF Scanning, Dropping
      <3> QED  BY <1>4, <3>4, <3>5 DEF OwedStill
    <2> QED  BY <2>3, <2>4, <2>5, <2>6, EndsKeeps
  <1> QED  BY <1>5, <1>6

LEMMA FailScanKeeps ==
    ASSUME IInv, NEW w \in Workers, FailScan(w)
    PROVE  IInv'
  <1>0. PICK t : t = worker[w].task  OBVIOUS
  <1>t. Typed /\ Pending  BY DEF IInv
  <1>1. WorksOn(w, Scans)  BY DEF FailScan, Scans
  <1>2. InTurn(w) /\ worker[w].at = "working" /\ t.kind \in Scans  BY <1>0, <1>1, WorkFacts
  <1>3. Right(t) /\ t.job \in Numbers /\ t.key \in Keys  BY <1>0, <1>2, TurnFacts
  <1>4. /\ jobs' = SetStatus(t.job, "error") /\ worker' = [worker EXCEPT ![w].at = "ending"]
        /\ asked' = Told(t.key, t.job)
        /\ UNCHANGED <<current, member, window, iter, recheck, stranded, queue, limit,
                       source, suspended, clear, reset, life, call>>
    BY <1>0 DEF FailScan
  <1>5. Marks(t.job, "error")  BY <1>t, <1>3, <1>4, StatusMarks
  <1>6. EndsTurn(w, t, t)
    BY <1>0, <1>t, <1>2, <1>4, <1>5, StillKept DEF EndsTurn, Marks, Typed, Told
  <1>7. jobs'[t.job].status \notin Open  BY <1>3, <1>5 DEF Marks, Open
  <1>8. Ending(w, t)  BY <1>2, <1>4, <1>7 DEF Ending
  <1>9. t.key \in asked' => OwedStill(t.key)
    <2> SUFFICES ASSUME t.key \in asked' PROVE OwedStill(t.key)  OBVIOUS
    <2>1. t.key \in asked /\ current[t.key] # t.job  BY <1>4 DEF Told
    <2>2. current[t.key] \in Numbers  BY <1>3, <1>t, <2>1, Kinship DEF IInv, Pending
    <2>3. jobs'[current[t.key]].status = jobs[current[t.key]].status  BY <1>5, <2>1, <2>2 DEF Marks
    <2>4. ~Scanning(t.key)'
      <3>1. worker'[w].at = "ending" /\ worker'[w].task.key = t.key
        BY <1>6, <1>8, EndsMove DEF Idle
      <3> QED  BY <3>1 DEF Scanning, Dropping
    <2> QED  BY <1>4, <2>1, <2>3, <2>4 DEF OwedStill
  <1> QED  BY <1>6, <1>7, <1>8, <1>9, EndsKeeps

LEMMA DropScanKeeps ==
    ASSUME IInv, NEW w \in Workers, DropScan(w)
    PROVE  IInv'
  <1>0. PICK t : t = worker[w].task  OBVIOUS
  <1>t. Typed /\ Pending  BY DEF IInv
  <1>1. worker[w].at = "ending" /\ InTurn(w)  BY DEF DropScan, InTurn
  <1>2. Right(t) /\ t.job \in Numbers /\ t.key \in Keys  BY <1>0, <1>1, TurnFacts
  <1>3. /\ iter' = [iter EXCEPT ![t.key] = NoIter] /\ recheck' = recheck \ {t.key} /\ Rests(w)
        /\ UNCHANGED <<jobs, limit, current, member, window, asked, stranded, queue, scope, call>>
    BY <1>0 DEF DropScan, Leave, Rests
  <1>4. /\ iter' \in [Keys -> IterRecord \cup {NoIter}] /\ iter'[t.key] = NoIter
        /\ \A k \in Keys : IterKept(k) /\ (k # t.key => iter'[k] = iter[k])
    BY <1>t, <1>2, <1>3 DEF Typed, IterKept
  <1>5. EndsTurn(w, t, t)
    BY <1>0, <1>t, <1>1, <1>3, <1>4, StillKept DEF EndsTurn, Typed, scope
  <1>6. jobs'[t.job].status \notin Open  BY <1>0, <1>1, <1>3 DEF IInv, AtHand
  <1>7. t.key \in asked' => OwedStill(t.key)
    <2>1. ~Scanning(t.key)'  BY <1>4 DEF Scanning, NoIter
    <2> QED  BY <1>3, <2>1 DEF OwedStill
  <1> QED  BY <1>3, <1>4, <1>5, <1>6, <1>7, EndsKeeps


LEMMA RecentFacts ==
    ASSUME IInv, NEW w \in Workers, WorksOn(w, {"recent"}), NEW t, t = worker[w].task
    PROVE  /\ InTurn(w) /\ worker[w].at = "working" /\ t.kind = "recent" /\ t \in Tasks
           /\ Right(t) /\ t.job \in Numbers /\ t.job # 0 /\ t.key \in Keys
           /\ window[t.key].job = t.job /\ current[t.key] = t.job
           /\ jobs[t.job].mode \in Registers
           /\ \A q \in Tasks : q.key \in Keys /\ (q.job = t.job => q.key = t.key)
  <1>1. /\ InTurn(w) /\ worker[w].at = "working" /\ t.kind = "recent" /\ t \in Tasks
        /\ window[t.key].job = t.job
    BY WorkFacts
  <1>2. Right(t) /\ t.job \in Numbers /\ t.job # 0 /\ t.key \in Keys
    BY <1>1, TurnFacts, JobFacts DEF Jobs, IInv
  <1>3. current[t.key] = t.job  BY <1>1, <1>2 DEF IInv, Registry
  <1>4. jobs[t.job].mode \in Registers  BY <1>2, <1>3 DEF IInv, Registry
  <1>5. \A q \in Tasks : Right(q)  BY DEF IInv, TasksRight, Tasks, InHand, Holds
  <1> QED  BY <1>1, <1>2, <1>3, <1>4, <1>5 DEF Right, TaskRecord

LEMMA YieldRecentKeeps ==
    ASSUME IInv, NEW w \in Workers, YieldRecent(w)
    PROVE  IInv'
  <1>0. PICK t : t = worker[w].task  OBVIOUS
  <1>t. Typed /\ Pending  BY DEF IInv
  <1>1. WorksOn(w, {"recent"})  BY DEF YieldRecent
  <1>2. /\ InTurn(w) /\ worker[w].at = "working" /\ t \in Tasks
        /\ Right(t) /\ t.job \in Numbers /\ t.job # 0 /\ t.key \in Keys
        /\ window[t.key].job = t.job /\ \A q \in Tasks : q.key \in Keys
    BY <1>0, <1>1, RecentFacts
  <1>3. PICK n : n = window[t.key].pages - 1  OBVIOUS
  <1>4. n \in Int  BY <1>2, <1>3 DEF IInv, Typed, WindowRecord
  <1>5. /\ window' = [window EXCEPT ![t.key].pages = n] /\ queue' = Enqueued(t) /\ Rests(w)
        /\ UNCHANGED <<jobs, limit, current, member, iter, recheck, asked, stranded, scope, call>>
    BY <1>0, <1>3 DEF YieldRecent, Leave, Rests
  <1>6. /\ window' \in [Keys -> WindowRecord]
        /\ \A x \in Keys : /\ window'[x].job = window[x].job /\ WindowKept(x)
                           /\ window[x].background => window'[x].background
    BY <1>t, <1>2, <1>4, <1>5, PagesKept
  <1>7. EndsTurn(w, t, t)
    <2>1. \A x \in Keys : x # t.key => window'[x] = window[x]  BY <1>t, <1>5 DEF Typed
    <2> QED  BY <1>0, <1>t, <1>2, <1>5, <1>6, <2>1, StillKept DEF EndsTurn, Typed, scope
  <1>8. ASSUME life = "open", t.job \in Registered \ stranded, jobs'[t.job].status \in Open
        PROVE  \E q \in Tasks' : Drives(q, t.job)'
    <2>1. PICK q \in Tasks : Drives(q, t.job)  BY <1>5, <1>8 DEF IInv, JobIsDriven
    <2>2. q \in Tasks'
      <3>1. t \in Tasks'  BY <1>t, <1>5, <1>7, <1>8, EndsMove, Put DEF Typed
      <3> QED  BY <1>5, <1>7, <3>1, EndsMove
    <2>3. Drives(q, t.job)'  BY <1>2, <1>5, <1>6, <2>1, DrivesStays
    <2> QED  BY <2>2, <2>3
  <1>9. t.key \in asked' => OwedStill(t.key)
    <2>1. Scanning(t.key)' => Scanning(t.key)
      BY <1>0, <1>1, <1>2, <1>5, TurnFacts DEF Scanning, Dropping, Rests, Idle, Typed, IInv
    <2> QED  BY <1>2, <1>5, <1>6, <2>1 DEF OwedStill
  <1> QED  BY <1>2, <1>5, <1>7, <1>8, <1>9, EndsKeeps

\* The window is given up: what the job of the task is then owed.
LEMMA WindowEndKeeps ==
    ASSUME IInv, NEW w \in Workers, WorksOn(w, {"recent"}), NEW t, t = worker[w].task, NEW u,
           window' = [window EXCEPT ![t.key] = NoWindow], Rests(w),
           \/ Marks(t.job, "queued") /\ queue' = Enqueued(u) /\ Right(u)
              /\ u.job = t.job /\ u.kind # "recent" /\ UNCHANGED asked
           \/ Marks(t.job, "done") /\ jobs[t.job].mode = "recent" /\ UNCHANGED <<queue, asked>>
           \/ Marks(t.job, "error") /\ UNCHANGED queue /\ asked' = asked \ {t.key}
           \/ /\ jobs[t.job].mode # "recent" /\ ~window[t.key].background
              /\ UNCHANGED <<jobs, queue, asked>>,
           UNCHANGED <<current, member, iter, recheck, stranded, limit,
                       source, suspended, clear, reset, life, call>>
    PROVE  IInv'
  <1>t. Typed /\ Pending  BY DEF IInv
  <1>1. /\ InTurn(w) /\ worker[w].at = "working" /\ t.kind = "recent" /\ t \in Tasks
        /\ Right(t) /\ t.job \in Numbers /\ t.job # 0 /\ t.key \in Keys
        /\ window[t.key].job = t.job /\ current[t.key] = t.job
        /\ \A q \in Tasks : q.job = t.job => q.key = t.key
    BY RecentFacts
  <1>2. /\ window' \in [Keys -> WindowRecord]
        /\ \A x \in Keys : WindowKept(x) /\ (x # t.key => window'[x] = window[x])
    <2>1. NoWindow \in WindowRecord  BY QueueAssumption DEF NoWindow, WindowRecord
    <2> QED  BY <1>t, <1>1, <2>1 DEF Typed, WindowKept
  <1>3. jobs' \in Seq(JobRecord) /\ Len(jobs') = Len(jobs)
        /\ \A i \in Numbers : /\ jobs'[i].key = jobs[i].key /\ jobs'[i].mode = jobs[i].mode
                              /\ jobs'[i].flagged = jobs[i].flagged
                              /\ i # t.job => jobs'[i].status = jobs[i].status
    BY <1>t DEF Marks, Typed
  <1>4. EndsTurn(w, t, u)
    <2>1. recheck' \subseteq Keys /\ asked' \subseteq asked /\ iter' \in [Keys -> IterRecord \cup {NoIter}]
      BY <1>t DEF Typed
    <2>2. queue' = queue \/ (queue' = Enqueued(u) /\ Right(u))  OBVIOUS
    <2>3. \A k \in Keys : IterKept(k)  BY <1>t, StillKept
    <2> QED  BY <1>1, <1>2, <1>3, <2>1, <2>2, <2>3 DEF EndsTurn
  <1>5. jobs[t.job].mode \in Scans /\ jobs'[t.job].status = "done" => jobs[t.job].status = "done"
    BY <1>1 DEF Marks, Scans
  <1>6. ASSUME life = "open", t.job \in Registered \ stranded, jobs'[t.job].status \in Open
        PROVE  \E q \in Tasks' : Drives(q, t.job)'
    <2>1. CASE queue' = Enqueued(u) /\ u.job = t.job /\ u.kind # "recent"
      <3>1. u \in Tasks'  BY <1>t, <1>4, <1>6, <2>1, EndsMove, Put DEF Typed
      <3> QED  BY <2>1, <3>1 DEF Drives
    <2>2. CASE jobs[t.job].mode # "recent" /\ ~window[t.key].background /\ UNCHANGED jobs
      <3>1. PICK q \in Tasks : Drives(q, t.job)  BY <1>6, <2>2 DEF IInv, JobIsDriven
      <3>2. q.kind # "recent" /\ q.job = t.job  BY <1>1, <2>2, <3>1 DEF Drives
      <3>3. q \in Tasks'  BY <1>1, <1>4, <3>2, EndsMove
      <3> QED  BY <3>2, <3>3 DEF Drives
    <2> QED  BY <1>1, <1>6, <2>1, <2>2 DEF Marks, Open
  <1>7. t.key \in asked' => OwedStill(t.key)
    <2> SUFFICES ASSUME t.key \in asked' PROVE OwedStill(t.key)  OBVIOUS
    <2>1. t.key \in asked  OBVIOUS
    <2>2. /\ jobs[t.job].mode = "incremental"
          /\ jobs[t.job].status = "done" => window[t.key].background
      BY <1>t, <1>1, <2>1 DEF Pending
    <2>3. \/ jobs'[t.job].status \in Open
          \/ /\ jobs'[t.job].status = jobs[t.job].status
             /\ ~(jobs[t.job].status = "done" /\ window[t.key].background)
      BY <1>1, <2>2 DEF Marks, Open
    <2>4. Scanning(t.key)' => Scanning(t.key)
      <3>1. ~Dropping(t.key)  BY <1>1, TurnFacts DEF Dropping, InTurn
      <3> QED  BY <3>1 DEF Scanning
    <2> QED  BY <1>1, <2>1, <2>3, <2>4 DEF OwedStill
  <1> QED  BY <1>1, <1>4, <1>5, <1>6, <1>7, EndsKeeps

LEMMA EndRecentKeeps ==
    ASSUME IInv, NEW w \in Workers, EndRecent(w)
    PROVE  IInv'
  <1>0. PICK t : t = worker[w].task  OBVIOUS
  <1>t. Typed /\ Pending  BY DEF IInv
  <1>1. WorksOn(w, {"recent"})  BY DEF EndRecent
  <1>2. /\ InTurn(w) /\ worker[w].at = "working" /\ t.kind = "recent" /\ t \in Tasks
        /\ Right(t) /\ t.job \in Numbers /\ t.job # 0 /\ t.key \in Keys
        /\ window[t.key].job = t.job /\ jobs[t.job].mode \in Registers
        /\ \A q \in Tasks : q.key \in Keys
    BY <1>0, <1>1, RecentFacts
  <1>3. /\ Rests(w)
        /\ UNCHANGED <<limit, current, member, iter, recheck, asked, stranded, scope, call>>
    BY DEF EndRecent, Leave, Rests
  <1>4. CASE window[t.key].rerun
    <2>1. /\ window' = [window EXCEPT ![t.key].pages = -1, ![t.key].rerun = FALSE]
          /\ queue' = Enqueued(t) /\ UNCHANGED jobs
      BY <1>0, <1>4 DEF EndRecent
    <2>2. PICK r : r = [window[t.key] EXCEPT !.pages = -1, !.rerun = FALSE]  OBVIOUS
    <2>3. window[t.key] \in WindowRecord  BY <1>t, <1>2 DEF Typed
    <2>4. r \in WindowRecord /\ r.job = t.job /\ r.background = window[t.key].background
      <3>1. PICK n : n = -1  OBVIOUS
      <3>2. PICK o : o = [window[t.key] EXCEPT !.pages = n]  OBVIOUS
      <3>3. n \in Int  BY <3>1
      <3>4. o \in WindowRecord /\ o.job = t.job /\ o.background = window[t.key].background
        BY <1>2, <2>3, <3>2, <3>3 DEF WindowRecord
      <3>5. r = [o EXCEPT !.rerun = FALSE]  BY <2>2, <3>1, <3>2
      <3> QED  BY <3>4, <3>5 DEF WindowRecord
    <2>5. window' = [window EXCEPT ![t.key] = r]  BY <2>1, <2>2
    <2>6. /\ window' \in [Keys -> WindowRecord]
          /\ \A x \in Keys : /\ window'[x].job = window[x].job /\ WindowKept(x)
                             /\ window[x].background => window'[x].background
                             /\ x # t.key => window'[x] = window[x]
      BY <1>t, <1>2, <2>4, <2>5 DEF Typed, WindowKept
    <2>7. EndsTurn(w, t, t)
      BY <1>0, <1>t, <1>2, <1>3, <2>1, <2>6, StillKept DEF EndsTurn, Typed, scope
    <2>8. ASSUME life = "open", t.job \in Registered \ stranded, jobs'[t.job].status \in Open
          PROVE  \E q \in Tasks' : Drives(q, t.job)'
      <3>1. PICK q \in Tasks : Drives(q, t.job)  BY <2>1, <2>8 DEF IInv, JobIsDriven
      <3>2. q \in Tasks'
        <4>1. t \in Tasks'  BY <1>t, <1>3, <2>1, <2>7, <2>8, EndsMove, Put DEF Typed
        <4> QED  BY <1>3, <2>7, <4>1, EndsMove
      <3>3. Drives(q, t.job)'  BY <1>2, <2>1, <2>6, <3>1, DrivesStays
      <3> QED  BY <3>2, <3>3
    <2>9. t.key \in asked' => OwedStill(t.key)
      <3>1. ~Dropping(t.key)  BY <1>0, <1>2, TurnFacts DEF Dropping, InTurn
      <3>2. Scanning(t.key)' => Scanning(t.key)  BY <1>3, <3>1 DEF Scanning
      <3> QED  BY <1>2, <1>3, <2>1, <2>6, <3>2 DEF OwedStill
    <2> QED  BY <1>2, <1>3, <2>1, <2>7, <2>8, <2>9, EndsKeeps
  <1>5. CASE ~window[t.key].rerun
    <2>1. /\ window' = [window EXCEPT ![t.key] = NoWindow]
          /\ jobs' = IF Follows(t.key, t.job) THEN SetStatus(t.job, "queued")
                     ELSE IF jobs[t.job].mode = "recent" THEN SetStatus(t.job, "done") ELSE jobs
          /\ queue' = IF Follows(t.key, t.job) THEN Enqueued(Task(t.key, jobs[t.job].mode, t.job)) ELSE queue
      BY <1>0, <1>5 DEF EndRecent
    <2>2. PICK u : u = Task(t.key, jobs[t.job].mode, t.job)  OBVIOUS
    <2>3. CASE Follows(t.key, t.job)
      <3>1. u.kind \in Scans /\ u.job = t.job /\ u.kind = jobs[t.job].mode /\ u.key = t.key
        BY <1>2, <2>2, <2>3 DEF Follows, Registers, Task, Scans
      <3>2. u \in TaskRecord
        BY <1>2, <2>2, <3>1 DEF Right, TaskRecord, Task, Scans, Kinds
      <3>3. Right(u)  BY <1>2, <3>1, <3>2 DEF Right, Fits, Scans, Lone
      <3>4. Marks(t.job, "queued")  BY <1>t, <1>2, <2>1, <2>3, StatusMarks DEF Open
      <3>5. u.kind # "recent" /\ queue' = Enqueued(u)  BY <2>1, <2>2, <2>3, <3>1 DEF Scans
      <3> QED  BY <1>0, <1>1, <1>3, <2>1, <3>1, <3>3, <3>4, <3>5, WindowEndKeeps DEF scope
    <2>4. CASE ~Follows(t.key, t.job) /\ jobs[t.job].mode = "recent"
      <3>1. Marks(t.job, "done")  BY <1>t, <1>2, <2>1, <2>4, StatusMarks
      <3> QED  BY <1>0, <1>1, <1>3, <2>1, <2>4, <3>1, WindowEndKeeps DEF scope
    <2>5. CASE ~Follows(t.key, t.job) /\ jobs[t.job].mode # "recent"
      <3>1. ~window[t.key].background  BY <2>5 DEF Follows
      <3> QED  BY <1>0, <1>1, <1>3, <2>1, <2>5, <3>1, WindowEndKeeps DEF scope
    <2> QED  BY <2>3, <2>4, <2>5
  <1> QED  BY <1>4, <1>5

LEMMA FailRecentKeeps ==
    ASSUME IInv, NEW w \in Workers, FailRecent(w)
    PROVE  IInv'
  <1>0. PICK t : t = worker[w].task  OBVIOUS
  <1>t. Typed  BY DEF IInv
  <1>1. WorksOn(w, {"recent"})  BY DEF FailRecent
  <1>2. t.job \in Numbers /\ t.key \in Keys /\ current[t.key] = t.job
    BY <1>0, <1>1, RecentFacts
  <1>3. /\ window' = [window EXCEPT ![t.key] = NoWindow] /\ Rests(w)
        /\ UNCHANGED <<current, member, iter, recheck, stranded, queue, limit,
                       source, suspended, clear, reset, life, call>>
    BY <1>0 DEF FailRecent, Leave, Rests
  <1>4. CASE jobs[t.job].mode = "recent" \/ window[t.key].background
    <2>1. jobs' = SetStatus(t.job, "error") /\ asked' = Told(t.key, t.job)
      BY <1>0, <1>4 DEF FailRecent
    <2>2. Marks(t.job, "error")  BY <1>t, <1>2, <2>1, StatusMarks
    <2>3. asked' = asked \ {t.key}  BY <1>2, <2>1 DEF Told
    <2> QED  BY <1>0, <1>1, <1>3, <2>2, <2>3, WindowEndKeeps
  <1>5. CASE jobs[t.job].mode # "recent" /\ ~window[t.key].background
    <2>1. UNCHANGED <<jobs, asked>>  BY <1>0, <1>5 DEF FailRecent
    <2> QED  BY <1>0, <1>1, <1>3, <1>5, <2>1, WindowEndKeeps
  <1> QED  BY <1>4, <1>5

LEMMA OtherFacts ==
    ASSUME IInv, NEW w \in Workers, WorksOn(w, {"message", "member"}), NEW t, t = worker[w].task
    PROVE  /\ InTurn(w) /\ worker[w].at = "working" /\ t.kind \in Lone
           /\ Right(t) /\ t.job \in Numbers /\ t.key \in Keys
           /\ jobs[t.job].mode \in Lone
           /\ current[t.key] # 0 => current[t.key] \in Numbers /\ current[t.key] # t.job
  <1>1. InTurn(w) /\ worker[w].at = "working" /\ t.kind \in Lone
    BY WorkFacts DEF Lone
  <1>2. Right(t) /\ t.job \in Numbers /\ t.key \in Keys  BY <1>1, TurnFacts
  <1>3. jobs[t.job].mode \in Lone  BY <1>1, <1>2 DEF Right, Fits
  <1>4. current[t.key] # 0 => current[t.key] \in Numbers /\ jobs[current[t.key]].mode \notin Lone
    BY <1>2, Kinship DEF IInv, Registry, Registers, Scans, Lone
  <1> QED  BY <1>1, <1>2, <1>3, <1>4

\* A turn of a message or of a member ends, and the registry is as it was.
LEMMA OtherKeeps ==
    ASSUME IInv, NEW w \in Workers, WorksOn(w, {"message", "member"}), NEW t, t = worker[w].task,
           NEW s, Marks(t.job, s), Rests(w),
           queue' = Enqueued(t) \/ (queue' = queue /\ s \notin Open),
           UNCHANGED <<current, member, window, iter, recheck, asked, stranded, limit,
                       source, suspended, clear, reset, life, call>>
    PROVE  IInv'
  <1>t. Typed /\ Pending  BY DEF IInv
  <1>1. /\ InTurn(w) /\ worker[w].at = "working" /\ t.kind \in Lone
        /\ Right(t) /\ t.job \in Numbers /\ t.key \in Keys
        /\ jobs[t.job].mode \in Lone
        /\ current[t.key] # 0 => current[t.key] \in Numbers /\ current[t.key] # t.job
    BY OtherFacts
  <1>2. EndsTurn(w, t, t)
    BY <1>t, <1>1, StillKept DEF EndsTurn, Marks, Typed
  <1>3. jobs[t.job].mode \notin Scans  BY <1>1 DEF Lone, Scans
  <1>4. life = "open" /\ jobs'[t.job].status \in Open => \E q \in Tasks' : Drives(q, t.job)'
    <2>1. life = "open" /\ queue' = Enqueued(t) => t \in Tasks'
      BY <1>t, <1>2, EndsMove, Put DEF Typed
    <2> QED  BY <1>1, <2>1 DEF Drives, Lone, Marks
  <1>5. t.key \in asked' => OwedStill(t.key)
    <2>1. ~Dropping(t.key)  BY <1>1, TurnFacts DEF Dropping, InTurn
    <2>2. Scanning(t.key)' => Scanning(t.key)  BY <2>1 DEF Scanning
    <2>3. t.key \in asked => jobs'[current[t.key]].status = jobs[current[t.key]].status
      BY <1>t, <1>1 DEF Marks, Pending
    <2> QED  BY <2>2, <2>3 DEF OwedStill
  <1> QED  BY <1>1, <1>2, <1>3, <1>4, <1>5, EndsKeeps

LEMMA EndOtherKeeps ==
    ASSUME IInv, NEW w \in Workers, EndOther(w)
    PROVE  IInv'
  <1>0. PICK t : t = worker[w].task  OBVIOUS
  <1>t. Typed  BY DEF IInv
  <1>1. WorksOn(w, {"message", "member"})  BY DEF EndOther
  <1>2. t.job \in Numbers  BY <1>0, <1>1, OtherFacts
  <1>3. /\ Rests(w)
        /\ UNCHANGED <<current, member, window, iter, recheck, asked, stranded, limit,
                       source, suspended, clear, reset, life, call>>
    BY DEF EndOther, Leave, Rests, scope
  <1>4. CASE jobs[t.job].left > 0
    <2>1. jobs' = [jobs EXCEPT ![t.job].status = "queued", ![t.job].left = @ - 1] /\ queue' = Enqueued(t)
      BY <1>0, <1>4 DEF EndOther
    <2>2. PICK r : r = [jobs[t.job] EXCEPT !.status = "queued", !.left = @ - 1]  OBVIOUS
    <2>3. jobs[t.job] \in JobRecord /\ MaxPages \in Nat  BY <1>t, <1>2, JobFacts, QueueAssumption
    <2>4. /\ r \in JobRecord /\ r.status = "queued" /\ r.key = jobs[t.job].key
          /\ r.mode = jobs[t.job].mode /\ r.flagged = jobs[t.job].flagged
      <3>1. PICK n : n = jobs[t.job].left - 1  OBVIOUS
      <3>2. n \in 0 .. MaxPages  BY <1>4, <2>3, <3>1 DEF JobRecord
      <3>3. PICK o : o = [jobs[t.job] EXCEPT !.status = "queued"]  OBVIOUS
      <3>4. /\ o \in JobRecord /\ o.status = "queued" /\ o.key = jobs[t.job].key
            /\ o.mode = jobs[t.job].mode /\ o.flagged = jobs[t.job].flagged
            /\ o.left = jobs[t.job].left
        BY <2>3, <3>3 DEF JobRecord, Open
      <3>5. r = [o EXCEPT !.left = n]  BY <2>2, <3>1, <3>3, <3>4
      <3> QED  BY <3>2, <3>4, <3>5 DEF JobRecord
    <2>5. jobs' = [jobs EXCEPT ![t.job] = r]  BY <2>1, <2>2
    <2>6. Marks(t.job, "queued")  BY <1>t, <1>2, <2>4, <2>5, Altered DEF Marks, Numbers, Typed
    <2> QED  BY <1>0, <1>1, <1>3, <2>1, <2>6, OtherKeeps
  <1>5. CASE ~(jobs[t.job].left > 0)
    <2>1. PICK s : s = IF jobs[t.job].flagged THEN "cancelled" ELSE "done"  OBVIOUS
    <2>2. jobs' = SetStatus(t.job, s) /\ queue' = queue  BY <1>0, <1>5, <2>1 DEF EndOther
    <2>3. Marks(t.job, s) /\ s \notin Open  BY <1>t, <1>2, <2>1, <2>2, StatusMarks DEF Open
    <2> QED  BY <1>0, <1>1, <1>3, <2>2, <2>3, OtherKeeps
  <1> QED  BY <1>4, <1>5

LEMMA FailOtherKeeps ==
    ASSUME IInv, NEW w \in Workers, FailOther(w)
    PROVE  IInv'
  <1>0. PICK t : t = worker[w].task  OBVIOUS
  <1>t. Typed  BY DEF IInv
  <1>1. WorksOn(w, {"message", "member"})  BY DEF FailOther
  <1>2. t.job \in Numbers  BY <1>0, <1>1, OtherFacts
  <1>3. PICK s : s = IF jobs[t.job].flagged THEN "cancelled" ELSE "error"  OBVIOUS
  <1>4. /\ jobs' = SetStatus(t.job, s) /\ Rests(w)
        /\ UNCHANGED <<current, member, window, iter, recheck, asked, stranded, queue, limit,
                       source, suspended, clear, reset, life, call>>
    BY <1>0, <1>3 DEF FailOther, Leave, Rests
  <1>5. Marks(t.job, s) /\ s \notin Open  BY <1>t, <1>2, <1>3, <1>4, StatusMarks DEF Open
  <1> QED  BY <1>0, <1>1, <1>4, <1>5, OtherKeeps


-----------------------------------------------------------------------------
(* The disturbances that forget conversations *)

\* Jobs are flagged, and those of a message are cancelled.
Flags(js) ==
    /\ jobs' \in Seq(JobRecord) /\ Len(jobs') = Len(jobs)
    /\ \A i \in Numbers :
          /\ jobs'[i].key = jobs[i].key /\ jobs'[i].mode = jobs[i].mode
          /\ i \notin js => jobs'[i].flagged = jobs[i].flagged
          /\ \/ jobs'[i].status = jobs[i].status
             \/ jobs[i].mode = "message" /\ jobs'[i].status = "cancelled"

LEMMA ForgetKeeps ==
    ASSUME IInv, NEW ks, Forget(ks), NEW js, Flags(js),
           \A v \in Workers : InTurn(v) => worker[v].task.key \notin ks,
           \A v \in Workers : InTurn(v) /\ worker[v].task.job \in js => worker[v].task.kind = "message",
           clear' \in {clear} \cup {"erasing"}, clear' # clear => clear = "drained",
           reset' \in {reset, NoReset}, source' \in {"local", "api"},
           UNCHANGED <<queue, worker, limit, stranded, suspended, life, call>>
    PROVE  IInv'
  <1>t. Typed /\ Registry  BY DEF IInv
  <1>1. Grown /\ Len(jobs') = Len(jobs)  BY <1>t DEF Flags, Grown, Raised, Typed
  <1>2. \A i \in Numbers :
          /\ jobs'[i].key = jobs[i].key /\ jobs'[i].mode = jobs[i].mode
          /\ i \notin js => jobs'[i].flagged = jobs[i].flagged
          /\ \/ jobs'[i].status = jobs[i].status
             \/ jobs[i].mode = "message" /\ jobs'[i].status = "cancelled"
    BY DEF Flags
  <1>3. /\ \A k \in Keys \ ks : /\ current'[k] = current[k] /\ member'[k] = member[k]
                                /\ window'[k] = window[k] /\ iter'[k] = iter[k]
        /\ \A k \in Keys \cap ks : /\ current'[k] = 0 /\ member'[k] = 0
                                   /\ window'[k] = NoWindow /\ iter'[k] = NoIter
        /\ recheck' = recheck \ ks /\ asked' = asked \ ks
    BY DEF Forget
  <1>4. \A k \in Keys : WindowKept(k) /\ IterKept(k)
    BY <1>3 DEF WindowKept, IterKept
  <1>5. \A v \in Workers : InTurn(v)' <=> InTurn(v)  BY DEF InTurn
  <1>6. \A k \in Keys : Dropping(k)' <=> Dropping(k)  BY DEF Dropping
  <1>7. Typed'
    <2>1. NoWindow \in WindowRecord  BY QueueAssumption DEF NoWindow, WindowRecord
    <2>2. window' \in [Keys -> WindowRecord] /\ iter' \in [Keys -> IterRecord \cup {NoIter}]
      BY <1>t, <2>1 DEF Forget, Typed
    <2>3. current' \in [Keys -> 0 .. MaxJobs] /\ member' \in [Keys -> 0 .. MaxJobs]
      BY <1>t, QueueAssumption DEF Forget, Typed
    <2> QED  BY <1>t, <1>1, <1>3, <2>2, <2>3 DEF Typed, Grown
  <1>8. TasksRight'
    <2>1. \A v \in Workers : Holds(v)' => Holds(v) /\ worker'[v].task = worker[v].task
      BY DEF Holds
    <2> QED  BY <1>t, <1>1, <2>1, RightStays DEF IInv
  <1>9. Registry'
    <2> SUFFICES ASSUME NEW k \in Keys
                 PROVE  /\ current'[k] <= Len(jobs') /\ member'[k] <= Len(jobs')
                        /\ current'[k] # 0 => jobs'[current'[k]].key = k /\ jobs'[current'[k]].mode \in Registers
                        /\ member'[k] # 0 => jobs'[member'[k]].key = k /\ jobs'[member'[k]].mode = "member"
                        /\ window'[k].job = 0 => window'[k] = NoWindow
                        /\ window'[k].job # 0 => window'[k].job = current'[k]
      BY DEF Registry
    <2>1. CASE k \in ks  BY <1>1, <1>3, <2>1, JobFacts DEF NoWindow, IInv
    <2>2. CASE k \notin ks
      <3>1. /\ current[k] # 0 => current[k] \in Numbers /\ jobs[current[k]].key = k /\ jobs[current[k]].mode \in Registers
            /\ member[k] # 0 => member[k] \in Numbers /\ jobs[member[k]].key = k /\ jobs[member[k]].mode = "member"
            /\ current[k] <= Len(jobs) /\ member[k] <= Len(jobs)
            /\ window[k].job = 0 => window[k] = NoWindow
            /\ window[k].job # 0 => window[k].job = current[k]
        BY <1>t, Kinship DEF Registry
      <3> QED  BY <1>1, <1>2, <1>3, <2>2, <3>1
    <2> QED  BY <2>1, <2>2
  <1>10. Owned'
    <2>1. \A i \in Numbers : jobs[i].mode \in Scans /\ jobs'[i].status = "done" => jobs[i].status = "done"
      BY <1>2 DEF Scans
    <2> QED  BY <1>1, <1>4, <1>6, <2>1, OwnedStays DEF IInv
  <1>11. Apart'
    <2>1. Apart  BY DEF IInv
    <2>2. \A v \in Workers : InTurn(v) => worker[v].task.job \in Numbers
      BY <1>t, JobFacts DEF IInv, TasksRight, Right, Holds, InTurn, TaskRecord, Numbers, Jobs
    <2>3. \A v \in Workers : InTurn(v) /\ jobs'[worker[v].task.job].flagged
                             => worker[v].task.kind = "message"
      BY <1>2, <2>1, <2>2 DEF Apart
    <2>4. \A v \in Workers : InTurn(v) =>
              ~(reset'.at = "held" /\ reset'.key = worker[v].task.key)
      BY <2>1 DEF Apart, NoReset
    <2>5. \A v \in Workers : InTurn(v) => clear' \notin {"drained", "erasing"}
      BY <2>1 DEF Apart
    <2>6. clear' # "idle" => suspended'
      BY <2>1 DEF Apart
    <2> QED  BY <1>5, <2>1, <2>3, <2>4, <2>5, <2>6 DEF Apart
  <1>12. AtHand'
    <2> SUFFICES ASSUME NEW v \in Workers, InTurn(v)', NEW u, u = worker[v].task
                 PROVE  /\ worker'[v] = worker[v]
                        /\ window'[u.key].job = window[u.key].job
                        /\ iter[u.key] # NoIter => iter'[u.key] # NoIter /\ iter'[u.key].mode = iter[u.key].mode
                        /\ worker[v].at = "ending" => jobs'[u.job].status \notin Open
      BY <1>t, AtHandStays DEF IInv
    <2>1. InTurn(v) /\ Right(u)  BY <1>5 DEF IInv, TasksRight, Holds, InTurn
    <2>2. u.key \in Keys \ ks  BY <2>1 DEF Right, TaskRecord
    <2>3. u.job \in Numbers  BY <1>t, <2>1, JobFacts DEF Right, TaskRecord, Numbers, Jobs
    <2>4. worker[v].at = "ending" => jobs[u.job].status \notin Open  BY <2>1 DEF IInv, AtHand
    <2> QED  BY <1>2, <1>3, <2>2, <2>3, <2>4 DEF Open
  <1>13. Promised'
    <2> SUFFICES ASSUME life = "open", NEW k \in Keys, window'[k].job # 0,
                        window'[k].job \notin stranded, jobs'[window'[k].job].mode = "recent"
                 PROVE  window'[k].background
      BY DEF Promised
    <2>1. window'[k] = window[k]  BY <1>3 DEF NoWindow
    <2>2. window[k].job \in Numbers  BY <1>t, <2>1, Kinship
    <2> QED  BY <1>2, <2>1, <2>2 DEF IInv, Promised
  <1>14. JobIsDriven'
    <2>0. DOMAIN jobs' = Numbers /\ DOMAIN jobs = Numbers  BY <1>t, <1>1, JobFacts DEF Grown, Numbers
    <2> SUFFICES ASSUME life = "open", NEW j \in (Registered \ stranded)', jobs'[j].status \in Open
                 PROVE  /\ j \in Registered \ stranded /\ jobs[j].status \in Open
                        /\ \A q \in Tasks : Drives(q, j) => q \in Tasks' /\ Drives(q, j)'
      BY DrivenStays DEF IInv
    <2>1. j \in Numbers  BY <2>0 DEF Registered
    <2>2. jobs[j].key \in Keys /\ j # 0  BY <1>t, <2>1, JobFacts DEF JobRecord, Jobs
    <2>3. jobs'[j].mode = jobs[j].mode /\ jobs'[j].key = jobs[j].key /\ jobs[j].status \in Open
      BY <1>2, <2>1 DEF Open
    <2>4. jobs[j].mode = "message" \/ jobs[j].key \notin ks
      BY <1>3, <2>2, <2>3 DEF Registered
    <2>5. j \in Registered \ stranded  BY <1>3, <2>0, <2>1, <2>2, <2>3, <2>4 DEF Registered
    <2>6. ASSUME NEW q \in Tasks, Drives(q, j) PROVE q \in Tasks' /\ Drives(q, j)'
      <3>1. q \in Tasks'  BY DEF Tasks, InHand
      <3>2. Right(q) /\ q.job = j  BY <2>6 DEF IInv, TasksRight, Tasks, InHand, Holds, Drives
      <3>3. CASE q.kind # "recent"  BY <3>1, <3>2, <3>3 DEF Drives
      <3>4. CASE q.kind = "recent"
        <4>1. jobs[j].mode # "message"  BY <3>2, <3>4 DEF Right, Fits, Lone
        <4>2. q.key \in Keys \ ks  BY <2>2, <2>4, <3>2, <4>1 DEF Right
        <4> QED  BY <1>3, <2>3, <2>6, <3>1, <4>2, DrivesStays
      <3> QED  BY <3>3, <3>4
    <2> QED  BY <2>3, <2>5, <2>6
  <1>15. Pending'
    <2>1. asked' \subseteq Keys  BY <1>3 DEF IInv, Typed
    <2> SUFFICES ASSUME NEW k \in asked' PROVE OwedStill(k)
      BY <1>t, <1>1, <2>1, PendingStays DEF IInv
    <2>2. k \in asked /\ k \in Keys \ ks  BY <1>3, <2>1
    <2>3. current[k] # 0  BY <2>2 DEF IInv, Pending
    <2>4. current[k] \in Numbers /\ jobs[current[k]].mode \in Registers
      BY <1>t, <2>2, <2>3, Kinship DEF Registry
    <2>5. jobs'[current[k]].status = jobs[current[k]].status
      BY <1>2, <2>4 DEF Registers, Scans
    <2>6. Scanning(k)' <=> Scanning(k)  BY <1>3, <1>6, <2>2 DEF Scanning
    <2> QED  BY <1>3, <2>2, <2>5, <2>6 DEF OwedStill
  <1> QED  BY <1>7, <1>8, <1>9, <1>10, <1>11, <1>12, <1>13, <1>14, <1>15 DEF IInv

LEMMA ClearDropKeeps ==
    ASSUME IInv, ClearDrop
    PROVE  IInv'
  <1>1. /\ clear = "drained" /\ clear' = "erasing" /\ Forget(Keys)
        /\ UNCHANGED <<jobs, stranded, queue, threads, source, suspended, reset, life, used, call>>
    BY DEF ClearDrop
  <1>2. Flags({})  BY <1>1 DEF Flags, IInv, Typed
  <1>3. \A v \in Workers : ~InTurn(v)  BY <1>1 DEF IInv, Apart
  <1>4. source \in {"local", "api"}  BY DEF IInv, Typed
  <1> QED  BY <1>1, <1>2, <1>3, <1>4, ForgetKeeps DEF threads

LEMMA FlagsTyped ==
    ASSUME Typed, NEW f, jobs' = [j \in DOMAIN jobs |-> f[j]], \A j \in Numbers : f[j] \in JobRecord
    PROVE  /\ jobs' \in Seq(JobRecord) /\ Len(jobs') = Len(jobs)
           /\ \A j \in Numbers : jobs'[j] = f[j]
  BY JobFacts DEF Numbers

LEMMA ToApiKeeps ==
    ASSUME IInv, ToApi
    PROVE  IInv'
  <1>t. Typed  BY DEF IInv
  <1>1. PICK f : f = [j \in DOMAIN jobs |->
                   IF jobs[j].mode = "message" /\ jobs[j].status \in Open
                   THEN [jobs[j] EXCEPT !.status = "cancelled", !.flagged = TRUE]
                   ELSE jobs[j]]
    OBVIOUS
  <1>2. \A j \in Numbers :
          /\ f[j] \in JobRecord /\ f[j].key = jobs[j].key /\ f[j].mode = jobs[j].mode
          /\ jobs[j].mode # "message" => f[j].flagged = jobs[j].flagged
          /\ \/ f[j].status = jobs[j].status
             \/ jobs[j].mode = "message" /\ f[j].status = "cancelled"
    <2> TAKE j \in Numbers
    <2>1. jobs[j] \in JobRecord /\ j \in DOMAIN jobs  BY <1>t, JobFacts
    <2>2. CASE jobs[j].mode = "message" /\ jobs[j].status \in Open
      <3>1. f[j] = [jobs[j] EXCEPT !.status = "cancelled", !.flagged = TRUE]  BY <1>1, <2>1, <2>2
      <3> QED  BY <2>1, <2>2, <3>1 DEF JobRecord
    <2>3. CASE ~(jobs[j].mode = "message" /\ jobs[j].status \in Open)  BY <1>1, <2>1, <2>3
    <2> QED  BY <2>2, <2>3
  <1>3. PICK js : js = {j \in Numbers : jobs[j].mode = "message"}  OBVIOUS
  <1>4. jobs' = f /\ f = [j \in DOMAIN jobs |-> f[j]]  BY <1>1 DEF ToApi
  <1>5. Flags(js)
    <2>1. /\ jobs' \in Seq(JobRecord) /\ Len(jobs') = Len(jobs)
          /\ \A j \in Numbers : jobs'[j] = f[j]
      BY <1>t, <1>2, <1>4, FlagsTyped
    <2> QED  BY <1>2, <1>3, <2>1 DEF Flags
  <1>6. /\ source' = "api"
        /\ UNCHANGED <<current, member, window, iter, recheck, asked, stranded, queue, threads,
                       suspended, clear, reset, life, call>>
    BY DEF ToApi
  <1>7. Forget({})  BY <1>t, <1>6 DEF Forget, Typed
  <1>8. \A v \in Workers : InTurn(v) /\ worker[v].task.job \in js => worker[v].task.kind = "message"
    BY <1>3 DEF IInv, TasksRight, Right, Fits, Lone, Holds, InTurn
  <1> QED  BY <1>5, <1>6, <1>7, <1>8, ForgetKeeps DEF threads

LEMMA ResetEraseKeeps ==
    ASSUME IInv, ResetErase
    PROVE  IInv'
  <1>t. Typed /\ Registry  BY DEF IInv
  <1>0. PICK k : k = reset.key  OBVIOUS
  <1>1. PICK f : f = [j \in DOMAIN jobs |->
                   IF ~Flagged(k, j) THEN jobs[j]
                   ELSE [jobs[j] EXCEPT !.flagged = TRUE,
                                        !.status = IF jobs[j].mode = "message" THEN "cancelled" ELSE @]]
    OBVIOUS
  <1>2. PICK js : js = {j \in Numbers : Flagged(k, j)}  OBVIOUS
  <1>3. \A j \in Numbers :
          /\ f[j] \in JobRecord /\ f[j].key = jobs[j].key /\ f[j].mode = jobs[j].mode
          /\ j \notin js => f[j].flagged = jobs[j].flagged
          /\ \/ f[j].status = jobs[j].status
             \/ jobs[j].mode = "message" /\ f[j].status = "cancelled"
    <2> TAKE j \in Numbers
    <2>1. jobs[j] \in JobRecord /\ j \in DOMAIN jobs  BY <1>t, JobFacts
    <2>2. CASE Flagged(k, j)
      <3>1. PICK s : s = IF jobs[j].mode = "message" THEN "cancelled" ELSE jobs[j].status  OBVIOUS
      <3>2. f[j] = [jobs[j] EXCEPT !.flagged = TRUE, !.status = s]  BY <1>1, <2>1, <2>2, <3>1
      <3>3. s \in Open \cup {"done", "error", "paused", "suspended", "cancelled"}
        BY <2>1, <3>1 DEF JobRecord
      <3> QED  BY <1>2, <2>1, <2>2, <3>1, <3>2, <3>3 DEF JobRecord
    <2>3. CASE ~Flagged(k, j)  BY <1>1, <2>1, <2>3
    <2> QED  BY <2>2, <2>3
  <1>4. jobs' = f /\ f = [j \in DOMAIN jobs |-> f[j]]  BY <1>0, <1>1 DEF ResetErase
  <1>5. Flags(js)
    <2>1. /\ jobs' \in Seq(JobRecord) /\ Len(jobs') = Len(jobs)
          /\ \A j \in Numbers : jobs'[j] = f[j]
      BY <1>t, <1>3, <1>4, FlagsTyped
    <2> QED  BY <1>3, <2>1 DEF Flags
  <1>6. /\ reset.at = "held" /\ reset' = NoReset /\ Forget({k})
        /\ UNCHANGED <<stranded, queue, worker, limit, source, suspended, clear, life, call>>
    BY <1>0 DEF ResetErase
  <1>7. k \in Keys  BY <1>t, <1>0, <1>6 DEF Typed, NoReset
  <1>8. \A v \in Workers : InTurn(v) => worker[v].task.key # k  BY <1>0, <1>6 DEF IInv, Apart
  <1>9. \A j \in js : jobs[j].key = k
    <2>1. current[k] \in js => jobs[current[k]].key = k
      BY <1>t, <1>2, <1>7, JobFacts DEF Registry, Numbers
    <2>2. member[k] \in js => jobs[member[k]].key = k
      BY <1>t, <1>2, <1>7, JobFacts DEF Registry, Numbers
    <2> QED  BY <1>2, <2>1, <2>2 DEF Flagged
  <1>10. \A v \in Workers : InTurn(v) => worker[v].task.job \notin js
    BY <1>8, <1>9, TurnFacts
  <1>11. source \in {"local", "api"}  BY <1>t DEF Typed
  <1> QED  BY <1>5, <1>6, <1>8, <1>10, <1>11, ForgetKeeps

LEMMA ResumeKeeps ==
    ASSUME IInv, Resume
    PROVE  IInv'
  <1>t. Typed /\ Apart  BY DEF IInv
  <1>1. /\ life' = "open" /\ Forget(Keys) /\ queue' = EmptyBag /\ worker' = [w \in Workers |-> Idle]
        /\ stranded' = stranded \cup {j \in DOMAIN jobs : jobs[j].mode = "message" /\ jobs[j].status \in Open}
        /\ UNCHANGED <<jobs, limit, source, suspended, clear, reset, call>>
    BY DEF Resume
  <1>2. \A v \in Workers : ~InTurn(v)' /\ ~Holds(v)' /\ worker'[v] = Idle
    BY <1>1 DEF InTurn, Holds, Idle
  <1>3. /\ \A k \in Keys : /\ current'[k] = 0 /\ member'[k] = 0
                           /\ window'[k] = NoWindow /\ iter'[k] = NoIter
        /\ asked' \cap Keys = {} /\ asked' \subseteq asked /\ recheck' \subseteq recheck
    BY <1>1 DEF Forget
  <1>4. asked' = {}  BY <1>t, <1>3 DEF Typed
  <1>5. Typed'
    <2>1. NoWindow \in WindowRecord  BY QueueAssumption DEF NoWindow, WindowRecord
    <2>2. window' \in [Keys -> WindowRecord] /\ iter' \in [Keys -> IterRecord \cup {NoIter}]
      BY <1>1, <2>1 DEF Forget
    <2>3. current' \in [Keys -> 0 .. MaxJobs] /\ member' \in [Keys -> 0 .. MaxJobs]
      BY <1>1, QueueAssumption DEF Forget
    <2>4. stranded' \subseteq Jobs  BY <1>t, <1>1, JobFacts DEF Typed
    <2> QED  BY <1>t, <1>1, <1>3, <1>4, <2>2, <2>3, <2>4, NothingQueued, IdleTyped DEF Typed
  <1>6. TasksRight'  BY <1>1, <1>2, NothingQueued DEF TasksRight, BagToSet
  <1>7. Registry'  BY <1>t, <1>1, <1>3, JobFacts DEF Registry, NoWindow
  <1>8. Owned' /\ Pending' /\ AtHand'  BY <1>2, <1>3, <1>4 DEF Owned, Pending, AtHand
  <1>9. Apart'  BY <1>t, <1>1, <1>2 DEF Apart, Idle
  <1>10. Promised'  BY <1>3 DEF Promised, NoWindow
  <1>11. JobIsDriven'
    <2> SUFFICES ASSUME NEW j \in (Registered \ stranded)', jobs'[j].status \in Open PROVE FALSE
      BY DEF JobIsDriven
    <2>1. j \in Numbers /\ j # 0 /\ jobs[j].key \in Keys
      BY <1>t, <1>1, JobFacts DEF Registered, JobRecord, Jobs
    <2>2. jobs[j].mode = "message"  BY <1>1, <1>3, <2>1 DEF Registered
    <2> QED  BY <1>1, <1>t, <2>1, <2>2, JobFacts
  <1> QED  BY <1>5, <1>6, <1>7, <1>8, <1>9, <1>10, <1>11 DEF IInv


-----------------------------------------------------------------------------
(* A request registers a new job *)

LEMMA NoneJoined ==
    ASSUME IInv, NEW k \in Keys, ~Joins(k)
    PROVE  window[k] = NoWindow /\ k \notin asked
  <1>1. Typed /\ Registry /\ Pending  BY DEF IInv
  <1>2. CASE current[k] = 0
    BY <1>1, <1>2 DEF Registry, Pending
  <1>3. CASE current[k] # 0
    <2>1. jobs[current[k]].status \notin Open /\ window[k] = NoWindow  BY <1>3 DEF Joins
    <2>2. ~window[k].background  BY <2>1 DEF NoWindow
    <2> QED  BY <1>1, <2>1, <2>2 DEF Pending
  <1> QED  BY <1>2, <1>3

\* The new job is the registered one of its conversation, or one of the other two.
NewSlot(k, m) ==
    \/ /\ m \in Registers /\ ~Joins(k)
       /\ current' = [current EXCEPT ![k] = Latest] /\ member' = member
       /\ IF m = "recent"
          THEN window' = [window EXCEPT ![k] = [NoWindow EXCEPT !.job = Latest, !.background = TRUE]]
          ELSE window' = window
       /\ asked' = IF m = "incremental" /\ iter[k] = NoIter THEN asked \cup {k} ELSE asked
    \/ /\ m = "member"
       /\ member' = [member EXCEPT ![k] = Latest]
       /\ UNCHANGED <<current, window, asked>>
    \/ m = "message" /\ UNCHANGED <<current, member, window, asked>>

LEMMA NewKeeps ==
    ASSUME IInv, NEW k \in Keys, NEW m \in Kinds, NEW n \in 0 .. MaxPages, Len(jobs) < MaxJobs,
           jobs' = Append(jobs, NewJob(k, m, n)), queue' = Enqueued(Task(k, m, Latest)),
           NewSlot(k, m),
           UNCHANGED <<iter, recheck, stranded, threads, scope>>, call' \in {call, NoCall}
    PROVE  IInv'
  <1>t. Typed /\ Registry /\ Len(jobs) \in Nat  BY JobFacts DEF IInv
  <1>1. PICK r : r = NewJob(k, m, n)  OBVIOUS
  <1>2. /\ r \in JobRecord /\ r.key = k /\ r.mode = m /\ r.status = "queued"
    BY <1>1 DEF NewJob, JobRecord, Open
  <1>3. PICK l : l = Len(jobs) + 1  OBVIOUS
  <1>4. l = Latest /\ l \notin Numbers /\ l \in Jobs /\ l # 0
    BY <1>t, <1>3, QueueAssumption DEF Latest, Numbers, Jobs
  <1>5. /\ jobs' \in Seq(JobRecord) /\ Len(jobs') = l /\ jobs'[l] = r
        /\ \A i \in Numbers : jobs'[i] = jobs[i]
    BY <1>t, <1>1, <1>2, <1>3 DEF Typed, Numbers
  <1>6. Grown
    <2>1. l <= MaxJobs /\ Len(jobs) <= l  BY <1>t, <1>3, QueueAssumption
    <2> QED  BY <1>5, <2>1 DEF Grown, Raised
  <1>7. PICK u : u = Task(k, m, l)  OBVIOUS
  <1>8. u \in TaskRecord /\ u.key = k /\ u.kind = m /\ u.job = l
    BY <1>4, <1>7 DEF Task, TaskRecord
  <1>9. Right(u)'  BY <1>2, <1>5, <1>8 DEF Right, Fits, Lone, Scans, Kinds, Jobs, TaskRecord
  <1>10. IsABag(queue') /\ DOMAIN queue \subseteq DOMAIN queue' /\ DOMAIN queue' \subseteq DOMAIN queue \cup {u}
         /\ (life = "open" => u \in DOMAIN queue')
    BY <1>t, <1>4, <1>7, Put DEF Typed
  <1>11. UNCHANGED <<worker, limit, source, suspended, clear, reset, life>>  BY DEF threads, scope
  <1>12. \A v \in Workers : InTurn(v)' <=> InTurn(v)  BY <1>11 DEF InTurn
  <1>13. \A x \in Keys : Dropping(x)' <=> Dropping(x)  BY <1>11 DEF Dropping
  <1>14. m \in Registers /\ current'[k] = l => window[k] = NoWindow /\ k \notin asked
    BY <1>t, <1>4, NoneJoined DEF NewSlot, Registers, Scans, Registry
  <1>15. /\ current' \in [Keys -> 0 .. MaxJobs] /\ member' \in [Keys -> 0 .. MaxJobs]
         /\ \A x \in Keys : current'[x] = current[x] \/ (x = k /\ current'[x] = l /\ m \in Registers)
         /\ \A x \in Keys : member'[x] = member[x] \/ (x = k /\ member'[x] = l /\ m = "member")
    BY <1>t, <1>4 DEF NewSlot, Typed, Jobs
  <1>16. /\ window' \in [Keys -> WindowRecord]
         /\ \A x \in Keys : \/ window'[x] = window[x]
                            \/ /\ x = k /\ window[k] = NoWindow /\ m = "recent" /\ current'[k] = l
                               /\ window'[k].job = l /\ window'[k].background
         /\ m = "recent" => window'[k].job = l
         /\ m \in Registers => window[k] = NoWindow /\ current'[k] = l
    <2>1. PICK q : q = [NoWindow EXCEPT !.job = Latest, !.background = TRUE]  OBVIOUS
    <2>2. q \in WindowRecord /\ q.job = l /\ q.background
      <3>1. NoWindow \in WindowRecord  BY QueueAssumption DEF NoWindow, WindowRecord
      <3>2. PICK o : o = [NoWindow EXCEPT !.job = Latest]  OBVIOUS
      <3>3. o \in WindowRecord /\ o.job = l  BY <1>4, <3>1, <3>2, QueueAssumption DEF WindowRecord, Jobs
      <3>4. q = [o EXCEPT !.background = TRUE]  BY <2>1, <3>2
      <3> QED  BY <3>3, <3>4 DEF WindowRecord
    <2>3. CASE m \in Registers
      <3>1. /\ ~Joins(k) /\ current' = [current EXCEPT ![k] = l]
            /\ IF m = "recent" THEN window' = [window EXCEPT ![k] = q] ELSE window' = window
        BY <1>4, <2>1, <2>3 DEF NewSlot, Registers, Scans
      <3>2. window[k] = NoWindow  BY <3>1, NoneJoined
      <3> QED  BY <1>t, <2>2, <3>1, <3>2 DEF Typed
    <2>4. CASE m \notin Registers
      BY <1>t, <2>4 DEF NewSlot, Typed, Registers
    <2> QED  BY <2>3, <2>4
  <1>17. asked' \subseteq asked \cup {k}
         /\ (k \in asked' => k \in asked \/ (m = "incremental" /\ iter[k] = NoIter /\ current'[k] = l))
    BY <1>t, <1>4 DEF NewSlot, Typed
  <1>18. Typed'
    <2>1. Len(jobs') <= MaxJobs  BY <1>t, <1>3, <1>5, QueueAssumption
    <2> QED  BY <1>t, <1>5, <1>10, <1>11, <1>15, <1>16, <1>17, <2>1 DEF Typed
  <1>19. TasksRight'
    <2>1. \A q \in DOMAIN queue' : q \in DOMAIN queue \/ Right(q)'
      BY <1>9, <1>10 DEF Right
    <2>2. \A v \in Workers : Holds(v)' => Holds(v) /\ worker'[v].task = worker[v].task
      BY <1>11 DEF Holds
    <2> QED  BY <1>t, <1>6, <2>1, <2>2, RightStays DEF IInv
  <1>20. Registry'
    <2> SUFFICES ASSUME NEW x \in Keys
                 PROVE  /\ current'[x] <= Len(jobs') /\ member'[x] <= Len(jobs')
                        /\ current'[x] # 0 => jobs'[current'[x]].key = x /\ jobs'[current'[x]].mode \in Registers
                        /\ member'[x] # 0 => jobs'[member'[x]].key = x /\ jobs'[member'[x]].mode = "member"
                        /\ window'[x].job = 0 => window'[x] = NoWindow
                        /\ window'[x].job # 0 => window'[x].job = current'[x]
      BY DEF Registry
    <2>1. /\ current[x] # 0 => current[x] \in Numbers /\ jobs[current[x]].key = x /\ jobs[current[x]].mode \in Registers
          /\ member[x] # 0 => member[x] \in Numbers /\ jobs[member[x]].key = x /\ jobs[member[x]].mode = "member"
          /\ current[x] <= Len(jobs) /\ member[x] <= Len(jobs)
          /\ current[x] \in Int /\ member[x] \in Int
          /\ window[x].job = 0 => window[x] = NoWindow
          /\ window[x].job # 0 => window[x].job = current[x]
      BY <1>t, Kinship DEF Registry, Typed
    <2>2. current'[x] <= Len(jobs') /\ member'[x] <= Len(jobs')
      BY <1>t, <1>3, <1>5, <1>15, <2>1
    <2>3. /\ current'[x] # 0 => jobs'[current'[x]].key = x /\ jobs'[current'[x]].mode \in Registers
          /\ member'[x] # 0 => jobs'[member'[x]].key = x /\ jobs'[member'[x]].mode = "member"
      BY <1>2, <1>5, <1>15, <2>1
    <2>4. /\ window'[x].job = 0 => window'[x] = NoWindow
          /\ window'[x].job # 0 => window'[x].job = current'[x]
      <3>1. CASE window'[x] = window[x]
        <4>1. window[x].job # 0 => current'[x] = current[x]
          BY <1>15, <1>16 DEF NoWindow
        <4> QED  BY <2>1, <3>1, <4>1
      <3>2. CASE window'[x] # window[x]  BY <1>4, <1>16, <3>2
      <3> QED  BY <3>1, <3>2
    <2> QED  BY <2>2, <2>3, <2>4
  <1>21. Owned'
    <2>1. \A x \in Keys : IterKept(x)  BY <1>t, StillKept
    <2> QED  BY <1>t, <1>5, <1>6, <1>13, <2>1, OwnedStays DEF IInv
  <1>22. Apart'
    <2>1. \A v \in Workers : InTurn(v)' => InTurn(v) /\ worker'[v].task = worker[v].task
      BY <1>11, <1>12
    <2> QED  BY <1>t, <1>5, <1>11, <2>1, ApartStays DEF IInv
  <1>23. AtHand'
    <2> SUFFICES ASSUME NEW v \in Workers, InTurn(v)', NEW q, q = worker'[v].task
                 PROVE  /\ worker'[v].at = "working" /\ q.kind = "recent" => window'[q.key].job = q.job
                        /\ q.kind \in Scans => iter'[q.key] # NoIter /\ iter'[q.key].mode = q.kind
                        /\ worker'[v].at = "ending" => q.kind \in Scans /\ jobs'[q.job].status \notin Open
      BY DEF AtHand
    <2>1. InTurn(v) /\ q = worker[v].task /\ worker'[v] = worker[v]  BY <1>11, <1>12
    <2>2. q.job \in Numbers /\ q.job # 0 /\ q.key \in Keys
      BY <1>t, <2>1, TurnFacts, JobFacts DEF Jobs
    <2>3. /\ worker[v].at = "working" /\ q.kind = "recent" => window[q.key].job = q.job
          /\ q.kind \in Scans => iter[q.key] # NoIter /\ iter[q.key].mode = q.kind
          /\ worker[v].at = "ending" => q.kind \in Scans /\ jobs[q.job].status \notin Open
      BY <2>1 DEF IInv, AtHand
    <2>4. window'[q.key] = window[q.key] \/ window[q.key].job = 0
      BY <1>16, <2>2 DEF NoWindow
    <2> QED  BY <1>5, <2>1, <2>2, <2>3, <2>4
  <1>24. Promised'
    <2> SUFFICES ASSUME life = "open", NEW x \in Keys, window'[x].job # 0,
                        window'[x].job \notin stranded, jobs'[window'[x].job].mode = "recent"
                 PROVE  window'[x].background
      BY <1>11 DEF Promised
    <2>1. CASE window'[x] = window[x]
      <3>1. window[x].job \in Numbers  BY <1>t, <2>1, Kinship
      <3> QED  BY <1>5, <2>1, <3>1 DEF IInv, Promised
    <2>2. CASE window'[x] # window[x]  BY <1>16, <2>2
    <2> QED  BY <2>1, <2>2
  <1>25. JobIsDriven'
    <2> SUFFICES ASSUME life = "open", NEW j \in (Registered \ stranded)', jobs'[j].status \in Open
                 PROVE  \/ \E q \in Tasks' : Drives(q, j)'
                        \/ /\ j \in Registered \ stranded /\ jobs[j].status \in Open
                           /\ \A q \in Tasks : Drives(q, j) => q \in Tasks' /\ Drives(q, j)'
      BY <1>11, DrivenStays DEF IInv
    <2>0. DOMAIN jobs' = Numbers \cup {l} /\ DOMAIN jobs = Numbers
      BY <1>t, <1>3, <1>5, JobFacts DEF Numbers
    <2>1. CASE j = l
      <3>1. u \in Tasks'  BY <1>10 DEF Tasks, BagToSet
      <3>2. Drives(u, j)'  BY <1>2, <1>5, <1>8, <1>16, <2>1 DEF Drives
      <3> QED  BY <3>1, <3>2
    <2>2. CASE j # l
      <3>1. j \in Numbers /\ jobs'[j] = jobs[j] /\ j # 0 /\ jobs[j].key \in Keys
        BY <1>t, <1>5, <2>0, <2>2, JobFacts DEF Registered, Jobs, JobRecord
      <3>2. j \in Registered \ stranded
        BY <1>15, <2>0, <2>2, <3>1 DEF Registered
      <3>3. ASSUME NEW q \in Tasks, Drives(q, j) PROVE q \in Tasks' /\ Drives(q, j)'
        <4>1. q \in Tasks'  BY <1>10, <1>11 DEF Tasks, InHand, BagToSet
        <4>2. CASE q.kind # "recent"  BY <3>3, <4>1, <4>2 DEF Drives
        <4>3. CASE q.kind = "recent"
          <5>1. window[q.key].job = j  BY <3>3, <4>3 DEF Drives
          <5>2. q.key \in Keys
            BY DEF IInv, TasksRight, Tasks, InHand, Holds, Right, TaskRecord
          <5>3. window'[q.key] = window[q.key]  BY <1>16, <3>1, <5>1, <5>2 DEF NoWindow
          <5> QED  BY <3>1, <3>3, <4>1, <5>3, DrivesStays
        <4> QED  BY <4>2, <4>3
      <3> QED  BY <3>1, <3>2, <3>3
    <2> QED  BY <2>1, <2>2
  <1>26. Pending'
    <2> SUFFICES ASSUME NEW x \in asked'
                 PROVE  /\ current'[x] # 0
                        /\ jobs'[current'[x]].mode = "incremental"
                        /\ jobs'[current'[x]].status \in Open \cup {"done"}
                        /\ jobs'[current'[x]].status = "done" => window'[x].background
                        /\ Scanning(x)' => x \in recheck'
      BY DEF Pending
    <2>0. x \in Keys  BY <1>t, <1>17 DEF Typed
    <2>1. CASE current'[x] # current[x]
      <3>1. x = k /\ current'[k] = l /\ m \in Registers /\ k \notin asked
        BY <1>14, <1>15, <2>0, <2>1
      <3>2. m = "incremental" /\ iter[k] = NoIter  BY <1>17, <3>1
      <3>3. ~Scanning(x)'  BY <3>1, <3>2 DEF Scanning, NoIter
      <3> QED  BY <1>2, <1>4, <1>5, <3>1, <3>2, <3>3 DEF Open
    <2>2. CASE current'[x] = current[x]
      <3>1. x \in asked
        <4>1. x = k /\ current'[k] = l => current[k] \in Numbers
          BY <1>t, <1>4, <2>2, Kinship
        <4> QED  BY <1>4, <1>17, <2>2, <4>1
      <3>2. /\ current[x] # 0 /\ jobs[current[x]].mode = "incremental"
            /\ jobs[current[x]].status \in Open \cup {"done"}
            /\ jobs[current[x]].status = "done" => window[x].background
            /\ Scanning(x) => x \in recheck
        BY <3>1 DEF IInv, Pending
      <3>3. jobs'[current[x]] = jobs[current[x]]  BY <1>t, <1>5, <2>0, <3>2, Kinship
      <3>4. window[x].background => window'[x].background  BY <1>16, <2>0
      <3>5. Scanning(x)' <=> Scanning(x)  BY <1>13, <2>0 DEF Scanning
      <3> QED  BY <2>2, <3>2, <3>3, <3>4, <3>5
    <2> QED  BY <2>1, <2>2
  <1> QED  BY <1>18, <1>19, <1>20, <1>21, <1>22, <1>23, <1>24, <1>25, <1>26 DEF IInv


-----------------------------------------------------------------------------
(* A request joins the registered job *)

\* What a request that joins may change: the mode of the job, the window and the queue.
Joined(k, j, u) ==
    /\ jobs' \in Seq(JobRecord) /\ Len(jobs') = Len(jobs)
    /\ \A i \in Numbers : /\ jobs'[i].key = jobs[i].key /\ Raised(jobs[i].mode, jobs'[i].mode)
                          /\ i # j => jobs'[i].mode = jobs[i].mode
                          /\ jobs'[i].flagged = jobs[i].flagged /\ jobs'[i].status = jobs[i].status
    /\ window' \in [Keys -> WindowRecord]
    /\ \A x \in Keys : /\ x # k => window'[x] = window[x]
                       /\ window[x].background => window'[x].background
    /\ \/ /\ window[k].job # 0 => window'[k].job = window[k].job
          /\ window[k].job = 0 => window'[k] = window[k]
          /\ UNCHANGED queue
       \/ /\ window[k].job = 0 /\ window'[k].job = j
          /\ queue' = Enqueued(u) /\ UNCHANGED jobs
    /\ recheck \subseteq recheck' /\ recheck' \subseteq Keys /\ asked' \subseteq asked \cup {k}
    /\ UNCHANGED <<current, member, iter, stranded, threads, scope>>

LEMMA JoinedKeeps ==
    ASSUME IInv, NEW k \in Keys, Joins(k), NEW j, j = current[k], NEW u, Joined(k, j, u),
           call' \in {call, NoCall},
           queue' # queue => u = Task(k, "recent", j),
           k \in asked' => /\ jobs'[j].mode = "incremental"
                           /\ jobs[j].status \in Open \/ (jobs[j].status = "done" /\ window'[k].background)
                           /\ Scanning(k)' => k \in recheck'
    PROVE  IInv'
  <1>t. Typed /\ Registry /\ j \in Numbers /\ j # 0 /\ jobs[j].key = k /\ jobs[j].mode \in Registers
        /\ (window[k].job # 0 => window[k].job = j) /\ (window[k].job = 0 => window[k] = NoWindow)
    BY Kinship DEF IInv, Joins, Registry
  <1>1. Grown /\ Len(jobs') = Len(jobs)  BY <1>t DEF Joined, Grown, Typed
  <1>2. /\ \A i \in Numbers : /\ jobs'[i].key = jobs[i].key /\ Raised(jobs[i].mode, jobs'[i].mode)
                              /\ i # j => jobs'[i].mode = jobs[i].mode
                              /\ jobs'[i].flagged = jobs[i].flagged /\ jobs'[i].status = jobs[i].status
        /\ \A x \in Keys : /\ x # k => window'[x] = window[x]
                           /\ window[x].background => window'[x].background
        /\ UNCHANGED <<current, member, iter, stranded>>
        /\ recheck \subseteq recheck' /\ asked' \subseteq asked \cup {k}
    BY DEF Joined
  <1>3. UNCHANGED <<worker, limit, source, suspended, clear, reset, life>>  BY DEF Joined, threads, scope
  <1>4. \A v \in Workers : InTurn(v)' <=> InTurn(v)  BY <1>3 DEF InTurn
  <1>5. \A x \in Keys : Dropping(x)' <=> Dropping(x)  BY <1>3 DEF Dropping
  <1>6. /\ IsABag(queue') /\ DOMAIN queue \subseteq DOMAIN queue'
        /\ \A q \in DOMAIN queue' : q \in DOMAIN queue \/ (queue' # queue /\ q = u)
        /\ queue' # queue /\ life = "open" => u \in DOMAIN queue'
    BY <1>t, Put DEF Joined, Typed
  <1>7. queue' # queue => /\ window[k].job = 0 /\ window'[k].job = j /\ UNCHANGED jobs
                          /\ u.key = k /\ u.kind = "recent" /\ u.job = j /\ u \in TaskRecord
    BY <1>t, JobFacts DEF Joined, Task, TaskRecord, Kinds
  <1>8. /\ \A x \in Keys : window[x].job # 0 => window'[x].job = window[x].job
        /\ window'[k].job = j \/ window'[k] = NoWindow
    BY <1>2, <1>t DEF Joined
  <1>9. Typed'
    BY <1>t, <1>1, <1>3, <1>6 DEF Typed, Joined
  <1>10. TasksRight'
    <2>1. queue' # queue => Right(u)
      BY <1>t, <1>7, JobFacts DEF Right, Fits, Lone, Scans, Registers, Numbers
    <2>2. \A q \in DOMAIN queue' : q \in DOMAIN queue \/ Right(q)'
      BY <1>t, <1>1, <1>6, <2>1, RightGrows
    <2>3. \A v \in Workers : Holds(v)' => Holds(v) /\ worker'[v].task = worker[v].task
      BY <1>3 DEF Holds
    <2> QED  BY <1>t, <1>1, <2>2, <2>3, RightStays DEF IInv
  <1>11. Registry'
    <2> SUFFICES ASSUME NEW x \in Keys
                 PROVE  /\ current'[x] <= Len(jobs') /\ member'[x] <= Len(jobs')
                        /\ current'[x] # 0 => jobs'[current'[x]].key = x /\ jobs'[current'[x]].mode \in Registers
                        /\ member'[x] # 0 => jobs'[member'[x]].key = x /\ jobs'[member'[x]].mode = "member"
                        /\ window'[x].job = 0 => window'[x] = NoWindow
                        /\ window'[x].job # 0 => window'[x].job = current'[x]
      BY DEF Registry
    <2>1. /\ current[x] # 0 => current[x] \in Numbers /\ jobs[current[x]].key = x /\ jobs[current[x]].mode \in Registers
          /\ member[x] # 0 => member[x] \in Numbers /\ jobs[member[x]].key = x /\ jobs[member[x]].mode = "member"
          /\ current[x] <= Len(jobs) /\ member[x] <= Len(jobs)
          /\ window[x].job = 0 => window[x] = NoWindow
          /\ window[x].job # 0 => window[x].job = current[x]
      BY <1>t, Kinship DEF Registry
    <2>2. current'[x] # 0 => jobs'[current'[x]].key = x /\ jobs'[current'[x]].mode \in Registers
      BY <1>2, <2>1 DEF Raised, Registers, Scans
    <2>3. member'[x] # 0 => jobs'[member'[x]].key = x /\ jobs'[member'[x]].mode = "member"
      BY <1>2, <2>1 DEF Raised, Scans
    <2>4. /\ window'[x].job = 0 => window'[x] = NoWindow
          /\ window'[x].job # 0 => window'[x].job = current'[x]
      BY <1>t, <1>2, <1>8, <2>1
    <2> QED  BY <1>1, <1>2, <2>1, <2>2, <2>3, <2>4
  <1>12. Owned'
    <2>1. \A x \in Keys : IterKept(x)  BY <1>t, <1>2, StillKept
    <2> QED  BY <1>t, <1>1, <1>2, <1>5, <2>1, OwnedStays DEF IInv
  <1>13. Apart'
    <2>1. \A v \in Workers : InTurn(v)' => InTurn(v) /\ worker'[v].task = worker[v].task
      BY <1>3, <1>4
    <2> QED  BY <1>t, <1>2, <1>3, <2>1, ApartStays DEF IInv
  <1>14. AtHand'
    <2> SUFFICES ASSUME NEW v \in Workers, InTurn(v)', NEW q, q = worker'[v].task
                 PROVE  /\ worker'[v].at = "working" /\ q.kind = "recent" => window'[q.key].job = q.job
                        /\ q.kind \in Scans => iter'[q.key] # NoIter /\ iter'[q.key].mode = q.kind
                        /\ worker'[v].at = "ending" => q.kind \in Scans /\ jobs'[q.job].status \notin Open
      BY DEF AtHand
    <2>1. InTurn(v) /\ q = worker[v].task /\ worker'[v] = worker[v]  BY <1>3, <1>4
    <2>2. q.job \in Numbers /\ q.job # 0 /\ q.key \in Keys
      BY <1>t, <2>1, TurnFacts, JobFacts DEF Jobs
    <2>3. /\ worker[v].at = "working" /\ q.kind = "recent" => window[q.key].job = q.job
          /\ q.kind \in Scans => iter[q.key] # NoIter /\ iter[q.key].mode = q.kind
          /\ worker[v].at = "ending" => q.kind \in Scans /\ jobs[q.job].status \notin Open
      BY <2>1 DEF IInv, AtHand
    <2> QED  BY <1>2, <1>8, <2>1, <2>2, <2>3
  <1>15. ASSUME life = "open", NEW i \in Registered \ stranded, i \in Numbers, jobs[i].status \in Open
         PROVE  \E q \in Tasks' : Drives(q, i)'
    <2>1. PICK q \in Tasks : Drives(q, i)  BY <1>15 DEF IInv, JobIsDriven
    <2>2. q \in Tasks'  BY <1>3, <1>6 DEF Tasks, InHand, BagToSet
    <2>3. Right(q) /\ q.job = i  BY <2>1 DEF IInv, TasksRight, Tasks, InHand, Holds, Drives
    <2>4. i # 0 /\ q.key \in Keys /\ q.key = jobs[i].key
      BY <1>t, <1>15, <2>3, JobFacts DEF Right, TaskRecord, Jobs
    <2>5. CASE q.kind # "recent"  BY <2>2, <2>3, <2>5 DEF Drives
    <2>6. CASE q.kind = "recent"
      <3>1. window[q.key].job = i /\ (jobs[i].mode # "recent" => window[q.key].background)
        BY <2>1, <2>6 DEF Drives
      <3>2. window'[q.key].job = i  BY <1>8, <2>4, <3>1
      <3>3. jobs'[i].mode # "recent" => window'[q.key].background
        <4>1. CASE jobs[i].mode # "recent"  BY <1>2, <2>4, <3>1, <4>1
        <4>2. CASE jobs[i].mode = "recent" /\ i # j  BY <1>2, <1>15, <4>2
        <4>3. CASE jobs[i].mode = "recent" /\ i = j
          <5>1. q.key = k  BY <1>t, <2>4, <4>3
          <5>2. window[k].background  BY <1>15, <3>1, <2>4, <4>3, <5>1 DEF IInv, Promised
          <5> QED  BY <1>2, <5>1, <5>2
        <4> QED  BY <4>1, <4>2, <4>3
      <3> QED  BY <2>2, <2>3, <3>2, <3>3 DEF Drives
    <2> QED  BY <2>5, <2>6
  <1>16. JobIsDriven'
    <2> SUFFICES ASSUME life = "open", NEW i \in (Registered \ stranded)', jobs'[i].status \in Open
                 PROVE  \E q \in Tasks' : Drives(q, i)'
      BY <1>3 DEF JobIsDriven
    <2>1. i \in Registered \ stranded /\ i \in Numbers
      BY <1>t, <1>1, <1>2, RegisteredStays, JobFacts DEF Registered
    <2> QED  BY <1>2, <1>15, <2>1
  <1>17. Promised'
    <2> SUFFICES ASSUME life = "open", NEW x \in Keys, window'[x].job # 0,
                        window'[x].job \notin stranded, jobs'[window'[x].job].mode = "recent"
                 PROVE  window'[x].background
      BY <1>2, <1>3 DEF Promised
    <2>1. CASE window[x].job # 0
      <3>1. window'[x].job = window[x].job /\ window[x].job \in Numbers  BY <1>t, <1>8, <2>1, Kinship
      <3>2. jobs[window[x].job].mode = "recent"  BY <1>2, <3>1 DEF Raised, Scans
      <3> QED  BY <1>2, <2>1, <3>1, <3>2 DEF IInv, Promised
    <2>2. CASE window[x].job = 0
      <3>1. x = k /\ window'[k].job = j /\ window[k] = NoWindow  BY <1>t, <1>2, <1>8, <2>2 DEF NoWindow
      <3>2. jobs[j].status \in Open  BY <1>t, <3>1 DEF Joins
      <3>3. j \in Registered \ stranded
        BY <1>2, <1>t, <3>1, JobFacts DEF Registered
      <3>4. PICK q \in Tasks : Drives(q, j)  BY <3>2, <3>3 DEF IInv, JobIsDriven
      <3>5. Right(q) /\ q.job = j  BY <3>4 DEF IInv, TasksRight, Tasks, InHand, Holds, Drives
      <3>6. jobs[j].mode = "recent"  BY <1>t, <1>2, <3>1 DEF Raised, Scans
      <3>7. q.kind = "recent" /\ q.key = k
        BY <1>t, <3>5, <3>6 DEF Right, Fits, Lone, Scans, TaskRecord, Kinds
      <3> QED  BY <1>t, <2>2, <3>1, <3>4, <3>7 DEF Drives
    <2> QED  BY <2>1, <2>2
  <1>18. Pending'
    <2> SUFFICES ASSUME NEW x \in asked'
                 PROVE  /\ current'[x] # 0
                        /\ jobs'[current'[x]].mode = "incremental"
                        /\ jobs'[current'[x]].status \in Open \cup {"done"}
                        /\ jobs'[current'[x]].status = "done" => window'[x].background
                        /\ Scanning(x)' => x \in recheck'
      BY DEF Pending
    <2>1. CASE x = k  BY <1>t, <1>2, <2>1 DEF Open
    <2>2. CASE x # k
      <3>1. x \in asked /\ x \in Keys  BY <1>t, <1>2, <2>2 DEF Typed
      <3>2. /\ current[x] # 0 /\ jobs[current[x]].mode = "incremental"
            /\ jobs[current[x]].status \in Open \cup {"done"}
            /\ jobs[current[x]].status = "done" => window[x].background
            /\ Scanning(x) => x \in recheck
        BY <3>1 DEF IInv, Pending
      <3>3. current[x] \in Numbers /\ jobs[current[x]].key = x
        BY <1>t, <3>1, <3>2, Kinship DEF Registry
      <3>4. current[x] # j  BY <1>t, <2>2, <3>3
      <3>5. Scanning(x)' <=> Scanning(x)  BY <1>2, <1>5, <3>1 DEF Scanning
      <3> QED  BY <1>2, <2>2, <3>1, <3>2, <3>3, <3>4, <3>5
    <2> QED  BY <2>1, <2>2
  <1> QED  BY <1>9, <1>10, <1>11, <1>12, <1>13, <1>14, <1>16, <1>17, <1>18 DEF IInv


LEMMA ModeRaised ==
    ASSUME Typed, NEW j \in Numbers, NEW m \in Kinds, Raised(jobs[j].mode, m),
           jobs' = [jobs EXCEPT ![j].mode = m]
    PROVE  /\ jobs' \in Seq(JobRecord) /\ Len(jobs') = Len(jobs) /\ jobs'[j].mode = m
           /\ \A i \in Numbers : /\ jobs'[i].key = jobs[i].key /\ Raised(jobs[i].mode, jobs'[i].mode)
                                 /\ i # j => jobs'[i].mode = jobs[i].mode
                                 /\ jobs'[i].flagged = jobs[i].flagged /\ jobs'[i].status = jobs[i].status
  <1>1. PICK r : r = [jobs[j] EXCEPT !.mode = m]  OBVIOUS
  <1>2. jobs[j] \in JobRecord /\ jobs \in Seq(JobRecord) /\ j \in 1 .. Len(jobs)
    BY JobFacts DEF Typed, Numbers
  <1>3. /\ r \in JobRecord /\ r.mode = m /\ r.key = jobs[j].key
        /\ r.flagged = jobs[j].flagged /\ r.status = jobs[j].status
    BY <1>1, <1>2 DEF JobRecord
  <1>4. jobs' = [jobs EXCEPT ![j] = r]  BY <1>1
  <1>5. /\ jobs' \in Seq(JobRecord) /\ Len(jobs') = Len(jobs)
        /\ \A i \in Numbers : jobs'[i] = IF i = j THEN r ELSE jobs[i]
    BY <1>2, <1>3, <1>4, Altered DEF Numbers
  <1> QED  BY <1>3, <1>5 DEF Raised

LEMMA SameJobs ==
    ASSUME Typed, UNCHANGED jobs, NEW j
    PROVE  /\ jobs' \in Seq(JobRecord) /\ Len(jobs') = Len(jobs)
           /\ \A i \in Numbers : /\ jobs'[i].key = jobs[i].key /\ Raised(jobs[i].mode, jobs'[i].mode)
                                 /\ i # j => jobs'[i].mode = jobs[i].mode
                                 /\ jobs'[i].flagged = jobs[i].flagged /\ jobs'[i].status = jobs[i].status
  BY DEF Typed, Raised

\* One window is told that a scan comes after it.
LEMMA WindowTold ==
    ASSUME Typed, NEW k \in Keys, NEW b \in BOOLEAN, window[k].background => b,
           window' = [window EXCEPT ![k].background = b]
    PROVE  /\ window' \in [Keys -> WindowRecord]
           /\ \A x \in Keys : /\ x # k => window'[x] = window[x]
                              /\ window[x].background => window'[x].background
                              /\ window'[x].job = window[x].job
           /\ window'[k].background = b
           /\ b = window[k].background => window'[k] = window[k]
  <1>1. PICK r : r = [window[k] EXCEPT !.background = b]  OBVIOUS
  <1>2. window[k] \in WindowRecord /\ window \in [Keys -> WindowRecord]  BY DEF Typed
  <1>3. r \in WindowRecord /\ r.job = window[k].job /\ r.background = b
    BY <1>1, <1>2 DEF WindowRecord
  <1>4. window' = [window EXCEPT ![k] = r]  BY <1>1
  <1>5. b = window[k].background => r = window[k]  BY <1>1, <1>2 DEF WindowRecord
  <1> QED  BY <1>2, <1>3, <1>4, <1>5

LEMMA Rerun ==
    ASSUME Typed, NEW k \in Keys, NEW b \in BOOLEAN, window' = [window EXCEPT ![k].rerun = b]
    PROVE  /\ window' \in [Keys -> WindowRecord]
           /\ \A x \in Keys : /\ x # k => window'[x] = window[x]
                              /\ window'[x].background = window[x].background
                              /\ window'[x].job = window[x].job
  <1>1. PICK r : r = [window[k] EXCEPT !.rerun = b]  OBVIOUS
  <1>2. window[k] \in WindowRecord /\ window \in [Keys -> WindowRecord]  BY DEF Typed
  <1>3. r \in WindowRecord /\ r.job = window[k].job /\ r.background = window[k].background
    BY <1>1, <1>2 DEF WindowRecord
  <1>4. window' = [window EXCEPT ![k] = r]  BY <1>1
  <1> QED  BY <1>2, <1>3, <1>4

LEMMA JoinKeeps ==
    ASSUME IInv, NEW k \in Keys, NEW m \in Registers, Joins(k), Join(k, m),
           UNCHANGED <<current, member, iter, stranded, threads, scope>>, call' \in {call, NoCall}
    PROVE  IInv'
  <1>0. PICK j : j = current[k]  OBVIOUS
  <1>1. PICK u : u = Task(k, "recent", j)  OBVIOUS
  <1>2. PICK over : over = (jobs[j].status = "done")  OBVIOUS
  <1>3. PICK wins : wins = ((m = "incremental" /\ jobs[j].mode # "incremental")
                            \/ (m = "history" /\ jobs[j].mode = "recent"))
    OBVIOUS
  <1>t. /\ Typed /\ Registry /\ j \in Numbers /\ j # 0 /\ jobs[j].mode \in Registers /\ m \in Kinds
        /\ (window[k].job # 0 => window[k].job = j) /\ (window[k].job = 0 => window[k] = NoWindow)
        /\ over \in BOOLEAN /\ wins \in BOOLEAN
    BY <1>0, <1>2, <1>3, Kinship DEF IInv, Joins, Registry, Registers, Scans, Kinds
  <1>w. /\ recheck \subseteq Keys /\ asked \subseteq Keys /\ window[k] \in WindowRecord
        /\ window \in [Keys -> WindowRecord]
        /\ (window[k] # NoWindow) \in BOOLEAN /\ NoWindow.job = 0
    BY <1>t DEF Typed, NoWindow
  <1>4. k \in asked => /\ jobs[j].mode = "incremental"
                       /\ jobs[j].status \in Open \/ (jobs[j].status = "done" /\ window[k].background)
                       /\ Scanning(k) => k \in recheck
    BY <1>0 DEF IInv, Pending
  <1>5. \A x \in Keys : Scanning(x)' <=> Scanning(x)
    <2>1. \A x \in Keys : Dropping(x)' <=> Dropping(x)  BY DEF Dropping, threads
    <2> QED  BY <2>1 DEF Scanning
  <1>6. ~Kept(k) /\ Scanning(k) => jobs[j].mode = "incremental" /\ jobs[j].status # "done"
    <2> SUFFICES ASSUME ~Kept(k), Scanning(k)
                 PROVE  jobs[j].mode = "incremental" /\ jobs[j].status # "done"
      OBVIOUS
    <2>1. iter[k].mode = "incremental" /\ ~Dropping(k)  BY DEF Scanning
    <2>2. iter[k] # NoIter  BY <2>1 DEF NoIter
    <2>3. iter[k].owner # 0  BY <1>t, <2>2, QueueAssumption DEF Typed, IterRecord, Jobs
    <2>4. iter[k].owner = j  BY <1>0, <2>3 DEF Kept
    <2> QED  BY <2>1, <2>2, <2>4 DEF IInv, Owned
  <1>7. CASE m = "recent"
    <2>1. ScheduleRecent(k, j, FALSE) /\ UNCHANGED <<jobs, recheck, asked>>
      BY <1>0, <1>7 DEF Join
    <2>2. CASE window[k] # NoWindow
      <3>1. PICK b : b = (window[k].rerun \/ window[k].pages >= 0)  OBVIOUS
      <3>2. b \in BOOLEAN  BY <3>1
      <3>3. window' = [window EXCEPT ![k].rerun = b] /\ UNCHANGED queue
        BY <2>1, <2>2, <3>1 DEF ScheduleRecent
      <3>4. /\ window' \in [Keys -> WindowRecord]
            /\ \A x \in Keys : /\ x # k => window'[x] = window[x]
                               /\ window'[x].background = window[x].background
                               /\ window'[x].job = window[x].job
        BY <1>t, <3>2, <3>3, Rerun
      <3>5. Joined(k, j, u)  BY <1>t, <1>w, <2>1, <2>2, <3>3, <3>4, SameJobs DEF Joined
      <3> QED  BY <1>0, <1>4, <1>5, <2>1, <3>3, <3>4, <3>5, JoinedKeeps
    <2>3. CASE window[k] = NoWindow
      <3>1. PICK r : r = [NoWindow EXCEPT !.job = j, !.background = FALSE]  OBVIOUS
      <3>2. r \in WindowRecord /\ r.job = j
        <4>1. NoWindow \in WindowRecord  BY QueueAssumption DEF NoWindow, WindowRecord
        <4>2. PICK o : o = [NoWindow EXCEPT !.job = j]  OBVIOUS
        <4>3. o \in WindowRecord /\ o.job = j
          BY <1>t, <4>1, <4>2, JobFacts, QueueAssumption DEF WindowRecord, Jobs
        <4>4. r = [o EXCEPT !.background = FALSE]  BY <3>1, <4>2
        <4> QED  BY <4>3, <4>4 DEF WindowRecord
      <3>3. window' = [window EXCEPT ![k] = r] /\ queue' = Enqueued(u)
        BY <1>1, <2>1, <2>3, <3>1 DEF ScheduleRecent
      <3>4. ~window[k].background /\ window[k].job = 0  BY <2>3 DEF NoWindow
      <3>5. Joined(k, j, u)
        BY <1>t, <1>w, <2>1, <3>2, <3>3, <3>4, SameJobs DEF Joined
      <3> QED  BY <1>0, <1>1, <1>4, <1>5, <2>1, <3>4, <3>5, JoinedKeeps
    <2> QED  BY <2>2, <2>3
  <1>8. CASE m # "recent"
    <2>1. \/ /\ m = "incremental" /\ over
             /\ jobs' = [jobs EXCEPT ![j].mode = m]
             /\ window' = [window EXCEPT ![k].background = TRUE]
             /\ asked' = Asks(k, TRUE) /\ UNCHANGED <<queue, recheck>>
          \/ /\ m = "incremental" => ~over
             /\ wins
             /\ jobs' = [jobs EXCEPT ![j].mode = m]
             /\ window' = [window EXCEPT ![k].background = @ \/ (over /\ window[k] # NoWindow)]
             /\ asked' = Asks(k, m = "incremental" /\ jobs[j].status \in Open)
             /\ UNCHANGED <<queue, recheck>>
          \/ /\ m = "incremental" /\ ~over /\ ~wins
             /\ recheck' = recheck \cup {k}
             /\ asked' = Asks(k, jobs[j].status \in Open)
             /\ UNCHANGED <<jobs, window, queue>>
          \/ UNCHANGED <<jobs, window, queue, recheck, asked>>
      BY <1>0, <1>2, <1>3, <1>8 DEF Join
    <2>2. CASE /\ m = "incremental" /\ over
               /\ jobs' = [jobs EXCEPT ![j].mode = m]
               /\ window' = [window EXCEPT ![k].background = TRUE]
               /\ asked' = Asks(k, TRUE) /\ UNCHANGED <<queue, recheck>>
      <3>1. Raised(jobs[j].mode, m)  BY <1>t, <2>2 DEF Raised, Registers, Scans
      <3>2. window[k].job # 0  BY <1>0, <1>2, <1>t, <2>2 DEF Joins, Open
      <3>3. /\ window' \in [Keys -> WindowRecord]
            /\ \A x \in Keys : /\ x # k => window'[x] = window[x]
                               /\ window[x].background => window'[x].background
                               /\ window'[x].job = window[x].job
            /\ window'[k].background
        BY <1>t, <2>2, WindowTold
      <3>4. asked' \subseteq asked \cup {k} /\ (k \in asked' => k \in asked \/ ~Kept(k))
        BY <2>2 DEF Asks
      <3>5. Joined(k, j, u) /\ jobs'[j].mode = m
        BY <1>t, <1>w, <2>2, <3>1, <3>2, <3>3, <3>4, ModeRaised DEF Joined
      <3>6. k \in asked' => (Scanning(k)' => k \in recheck')
        BY <1>2, <1>4, <1>5, <1>6, <2>2, <3>4
      <3> QED  BY <1>0, <1>2, <2>2, <3>3, <3>5, <3>6, JoinedKeeps
    <2>3. CASE /\ m = "incremental" => ~over
               /\ wins
               /\ jobs' = [jobs EXCEPT ![j].mode = m]
               /\ window' = [window EXCEPT ![k].background = @ \/ (over /\ window[k] # NoWindow)]
               /\ asked' = Asks(k, m = "incremental" /\ jobs[j].status \in Open)
               /\ UNCHANGED <<queue, recheck>>
      <3>1. Raised(jobs[j].mode, m)  BY <1>3, <1>8, <1>t, <2>3 DEF Raised, Registers, Scans
      <3>2. PICK b : b = (window[k].background \/ (over /\ window[k] # NoWindow))  OBVIOUS
      <3>3. b \in BOOLEAN /\ (window[k].background => b) /\ window' = [window EXCEPT ![k].background = b]
        BY <2>3, <3>2
      <3>4. /\ window' \in [Keys -> WindowRecord]
            /\ \A x \in Keys : /\ x # k => window'[x] = window[x]
                               /\ window[x].background => window'[x].background
                               /\ window'[x].job = window[x].job
            /\ b = window[k].background => window'[k] = window[k]
        BY <1>t, <3>3, WindowTold
      <3>5. window[k].job = 0 => window'[k] = window[k]
        <4>1. window[k].job = 0 => b = window[k].background
          BY <1>t, <1>w, <3>2 DEF WindowRecord
        <4> QED  BY <3>4, <4>1
      <3>6. k \notin asked  BY <1>3, <1>4, <2>3
      <3>7. /\ asked' \subseteq asked \cup {k}
            /\ k \in asked' => m = "incremental" /\ jobs[j].status \in Open /\ ~Kept(k)
        BY <2>3, <3>6 DEF Asks
      <3>8. Joined(k, j, u) /\ jobs'[j].mode = m
        BY <1>t, <1>w, <2>3, <3>1, <3>4, <3>5, <3>7, ModeRaised DEF Joined
      <3>9. k \in asked' => ~Scanning(k)'  BY <1>3, <1>5, <1>6, <2>3, <3>7
      <3> QED  BY <1>0, <2>3, <3>7, <3>8, <3>9, JoinedKeeps
    <2>4. CASE /\ m = "incremental" /\ ~over /\ ~wins
               /\ recheck' = recheck \cup {k}
               /\ asked' = Asks(k, jobs[j].status \in Open)
               /\ UNCHANGED <<jobs, window, queue>>
      <3>1. /\ asked' \subseteq asked \cup {k}
            /\ k \in asked' => k \in asked \/ jobs[j].status \in Open
        BY <2>4 DEF Asks
      <3>2. Joined(k, j, u)  BY <1>t, <1>w, <2>4, <3>1, SameJobs DEF Joined
      <3>3. jobs[j].mode = "incremental"  BY <1>3, <2>4
      <3> QED  BY <1>0, <1>2, <1>4, <2>4, <3>1, <3>2, <3>3, JoinedKeeps
    <2>5. CASE UNCHANGED <<jobs, window, queue, recheck, asked>>
      <3>1. Joined(k, j, u)  BY <1>t, <1>w, <2>5, SameJobs DEF Joined
      <3> QED  BY <1>0, <1>4, <1>5, <2>5, <3>1, JoinedKeeps
    <2> QED  BY <2>1, <2>2, <2>3, <2>4, <2>5
  <1> QED  BY <1>7, <1>8


LEMMA AnswerKeeps ==
    ASSUME IInv, NEW k \in Keys, NEW m \in Kinds, Answer(k, m), call' \in {call, NoCall}
    PROVE  IInv'
  <1>1. 0 \in 0 .. MaxPages  BY QueueAssumption
  <1>2. CASE Register(k, m)
    <2>1. m \in Registers /\ (Joins(k) \/ Len(jobs) < MaxJobs)
          /\ UNCHANGED <<member, iter, stranded, threads, scope>>
      BY <1>2 DEF Register, Registers, Scans
    <2>2. CASE Joins(k)
      <3>1. Join(k, m) /\ UNCHANGED current  BY <1>2, <2>2 DEF Register
      <3> QED  BY <2>1, <2>2, <3>1, JoinKeeps
    <2>3. CASE ~Joins(k)
      <3>1. /\ jobs' = Append(jobs, NewJob(k, m, 0)) /\ current' = [current EXCEPT ![k] = Latest]
            /\ IF m = "recent" THEN ScheduleRecent(k, Latest, TRUE)
               ELSE queue' = Enqueued(Task(k, m, Latest)) /\ UNCHANGED window
            /\ asked' = IF m = "incremental" /\ iter[k] = NoIter THEN asked \cup {k} ELSE asked
            /\ UNCHANGED recheck
        BY <1>2, <2>3 DEF Register
      <3>2. window[k] = NoWindow  BY <2>3, NoneJoined
      <3>3. queue' = Enqueued(Task(k, m, Latest))
        BY <3>1, <3>2 DEF ScheduleRecent
      <3>4. NewSlot(k, m)  BY <2>1, <2>3, <3>1, <3>2 DEF NewSlot, ScheduleRecent
      <3> QED  BY <1>1, <2>1, <2>3, <3>1, <3>3, <3>4, NewKeeps
    <2> QED  BY <2>2, <2>3
  <1>3. CASE m = "message" /\ RegisterMessage(k)
    <2>1. NewSlot(k, m)  BY <1>3 DEF NewSlot, RegisterMessage
    <2> QED  BY <1>1, <1>3, <2>1, NewKeeps DEF RegisterMessage
  <1>4. CASE m = "member" /\ RegisterMember(k)
    <2>1. PICK n \in 0 .. MaxPages : jobs' = Append(jobs, NewJob(k, "member", n))
      BY <1>4 DEF RegisterMember
    <2>2. NewSlot(k, m)  BY <1>4 DEF NewSlot, RegisterMember
    <2> QED  BY <1>4, <2>1, <2>2, NewKeeps DEF RegisterMember
  <1> QED  BY <1>2, <1>3, <1>4 DEF Answer

-----------------------------------------------------------------------------
(* The inductive invariant, and what follows from it *)

LEMMA QueueInit == Init => IInv
  <1> SUFFICES ASSUME Init PROVE IInv  OBVIOUS
  <1>1. /\ jobs = <<>> /\ Len(jobs) = 0 /\ DOMAIN jobs = {}  BY DEF Init
  <1>2. NoWindow \in WindowRecord /\ NoWindow.job = 0  BY QueueAssumption DEF NoWindow, WindowRecord
  <1>3. Cardinality(Workers) \in Nat  BY FS_CardinalityType, QueueAssumption
  <1>4. \A w \in Workers : worker[w] = Idle /\ ~InTurn(w) /\ ~Holds(w)
    BY DEF Init, InTurn, Holds, Idle
  <1>5. Typed
    <2>1. jobs \in Seq(JobRecord) /\ Len(jobs) <= MaxJobs  BY <1>1, QueueAssumption
    <2>2. /\ current \in [Keys -> 0 .. MaxJobs] /\ member \in [Keys -> 0 .. MaxJobs]
          /\ window \in [Keys -> WindowRecord] /\ iter \in [Keys -> IterRecord \cup {NoIter}]
      BY <1>2, QueueAssumption DEF Init
    <2>3. /\ recheck \subseteq Keys /\ asked \subseteq Keys /\ stranded \subseteq Jobs
          /\ IsABag(queue) /\ worker \in [Workers -> WorkerRecord]
          /\ limit \in 0 .. Cardinality(Workers)
      BY <1>3, IdleTyped, NothingQueued DEF Init
    <2>4. /\ source \in {"local", "api"} /\ suspended \in BOOLEAN
          /\ clear \in {"idle", "draining", "drained", "erasing"}
          /\ reset \in {NoReset} \cup [key : Keys, at : {"waiting", "held"}]
          /\ life \in {"open", "closing", "closed"}
          /\ call \in {NoCall} \cup [key : Keys, mode : Requests]
      BY DEF Init
    <2> QED  BY <2>1, <2>2, <2>3, <2>4 DEF Typed
  <1>6. TasksRight  BY <1>4, NothingQueued DEF Init, TasksRight, BagToSet
  <1>7. Registry  BY <1>1, <1>2 DEF Init, Registry
  <1>8. Owned /\ Pending /\ AtHand  BY <1>4 DEF Init, Owned, Pending, AtHand
  <1>9. Apart  BY <1>4 DEF Init, Apart, Idle
  <1>10. Promised  BY <1>2 DEF Init, Promised
  <1>11. JobIsDriven  BY <1>1 DEF JobIsDriven, Registered
  <1> QED  BY <1>5, <1>6, <1>7, <1>8, <1>9, <1>10, <1>11 DEF IInv

LEMMA TurnKeeps ==
    ASSUME IInv, NEW w \in Workers, Turn(w)
    PROVE  IInv'
  <1>1. ASSUME NEW t \in BagToSet(queue), Begin(w, t) PROVE IInv'
    BY <1>1, CollideKeeps, CannotEnterKeeps, PutOffKeeps, RecentGoneKeeps, StartScanKeeps,
       StartRecentKeeps, StartOtherKeeps DEF Begin
  <1> QED
    BY <1>1, RequeueKeeps, GoneKeeps, YieldScanKeeps, EndScanKeeps, FailScanKeeps, DropScanKeeps,
       YieldRecentKeeps, EndRecentKeeps, FailRecentKeeps, EndOtherKeeps, FailOtherKeeps DEF Turn

LEMMA ClientKeeps ==
    ASSUME IInv, Refuse \/ Late \/ \E k \in Keys, m \in Requests : Request(k, m)
    PROVE  IInv'
  <1>1. CASE Refuse  BY <1>1, BesideKeeps DEF Beside
  <1>2. CASE Late
    <2>1. call # NoCall /\ Answer(call.key, call.mode) /\ call' = NoCall  BY <1>2 DEF Late
    <2>2. call \in {NoCall} \cup [key : Keys, mode : Requests]  BY DEF IInv, Typed
    <2>3. call.key \in Keys /\ call.mode \in Kinds  BY <2>1, <2>2, QueueAssumption
    <2> QED  BY <2>1, <2>3, AnswerKeeps
  <1>3. ASSUME NEW k \in Keys, NEW m \in Requests, Request(k, m) PROVE IInv'
    <2>1. m \in Kinds /\ Answer(k, m) /\ call' = call  BY <1>3, QueueAssumption DEF Request
    <2> QED  BY <2>1, AnswerKeeps
  <1> QED  BY <1>1, <1>2, <1>3

LEMMA QueueStep == IInv /\ [Next]_vars => IInv'
  <1> SUFFICES ASSUME IInv, [Next]_vars PROVE IInv'  OBVIOUS
  <1>1. CASE Client  BY <1>1, ClientKeeps DEF Client
  <1>2. CASE Clears  BY <1>2, BesideKeeps, ClearDropKeeps DEF Clears, Beside
  <1>3. CASE Resets  BY <1>3, BesideKeeps, ResetEraseKeeps DEF Resets, Beside
  <1>4. CASE Pauses  BY <1>4, BesideKeeps, ResumeKeeps DEF Pauses, Beside
  <1>5. CASE Switches  BY <1>5, BesideKeeps, ToApiKeeps DEF Switches, Beside
  <1>6. ASSUME NEW w \in Workers, Turn(w) PROVE IInv'  BY <1>6, TurnKeeps
  <1>7. CASE UNCHANGED vars
    <2>1. UNCHANGED registry /\ UNCHANGED <<queue, worker, limit, source, suspended, clear, reset, life, call>>
      BY <1>7 DEF vars, threads, scope
    <2>2. Typed'  BY <2>1 DEF IInv, Typed, registry
    <2>3. TasksRight' /\ Registry'  BY <2>1 DEF IInv, TasksRight, Registry, Right, Holds, registry
    <2>4. Owned' /\ Pending'  BY <2>1 DEF IInv, Owned, Pending, Scanning, Dropping, registry
    <2>5. Apart' /\ AtHand' /\ Promised'  BY <2>1 DEF IInv, Apart, AtHand, Promised, InTurn, registry
    <2>6. JobIsDriven'
      BY <2>1 DEF IInv, JobIsDriven, Registered, Tasks, InHand, Drives, registry
    <2> QED  BY <2>2, <2>3, <2>4, <2>5, <2>6 DEF IInv
  <1> QED  BY <1>1, <1>2, <1>3, <1>4, <1>5, <1>6, <1>7 DEF Next

LEMMA QueueInvariant == Spec => []IInv
  BY QueueInit, QueueStep, PTL DEF Spec

\* One conversation is driven by one worker at a time, and by none while its saved
\* results are being erased: whatever is asked, retried, put off or broken into, the key
\* locks, the drain of a clear and the flags of a reset are enough (_worker, _run_one,
\* analysis_cache_clear, analysis_scope_clear).
THEOREM ConversationsStayApart == Spec => []ErasedAlone
  <1>1. IInv => ErasedAlone
    <2> SUFFICES ASSUME IInv PROVE ErasedAlone  OBVIOUS
    <2>1. Typed /\ Registry  BY DEF IInv
    <2>2. BagToSet(queue) \subseteq TaskRecord  BY DEF IInv, TasksRight, Right
    <2>3. \A k \in Keys : /\ current[k] \in 0 .. Len(jobs) /\ member[k] \in 0 .. Len(jobs)
                          /\ window[k] # NoWindow => window[k].job = current[k] \/ life # "open"
      BY <2>1, JobFacts DEF Registry, Typed
    <2>4. TypeOK  BY <2>1, <2>2, <2>3 DEF TypeOK, Typed
    <2> QED  BY <2>4 DEF IInv, Apart, ErasedAlone
  <1> QED  BY <1>1, QueueInvariant, PTL

\* A job that says queued or running has a task that will end it, through every promotion
\* of its mode, rerun of its window, collision with another turn and turn put off, unless
\* a handler of another job dropped its window or a removal that failed dropped its task
\* (start, _run_recent_turn, _run_one_bound).
THEOREM JobsStayDriven == Spec => []JobIsDriven
  BY QueueInvariant, PTL DEF IInv

\* A request for the new messages is not reported done by a scan that had read the newest
\* message before it: the scan that was under way is repeated, or the window that is left
\* is followed by another (incremental_recheck, background_pending).
THEOREM RequestsStayCovered == Spec => []DoneCoversRequest
  <1>1. IInv => DoneCoversRequest  BY DEF IInv, Pending, DoneCoversRequest
  <1> QED  BY <1>1, QueueInvariant, PTL

-----------------------------------------------------------------------------
(* The passes over a history: BatchScan *)

\* A place that is not behind the end of the history.
Within(c) == c = 0 \/ \E q \in shown : c <= q
IsRow(r) ==
    /\ r = [cur |-> r.cur, off |-> r.off, complete |-> r.complete, stat |-> r.stat]
    /\ r.cur \in Nat /\ r.off \in Nat

HistoryTyped ==
    /\ chat \in ChatRecord /\ LegacyRight(chat)
    /\ chat.first \subseteq shown /\ texts \subseteq rows /\ rows \subseteq shown /\ shown \subseteq Pos
    /\ texts \cap chat.images = {}
EvidenceTyped ==
    /\ covered \subseteq Pos
    /\ ends \in [Pos -> Nat] /\ \A p \in Pos : ends[p] <= Length(p)
    /\ backfill = None \/ backfill \in BackfillRecord
RowTyped == (pass # NoPass => HasRow) /\ (HasRow => IsRow(row) /\ Within(row.cur))

\* Behind the cursor of the row only texts that came late, are left to the backfill or are
\* being read were never judged.  Only those up to the ceiling are left to a backfill.
LeftOver(p) == p \in chat.quoted /\ ~BackfillDone /\ (backfill # None => p <= backfill.ceiling)
Behind ==
    HasRow => \A p \in Unread(texts) : p <= row.cur =>
        CameLate(p) \/ LeftOver(p) \/ (p = row.cur /\ row.off > 0)

\* The backfill has judged what it has passed.
Quoted == texts \cap chat.quoted
BackfillKept ==
    backfill # None =>
        /\ Within(backfill.ceiling) /\ Within(backfill.cur)
        /\ \A p \in Unread(Quoted) :
             p <= backfill.cur \/ (backfill.done /\ p <= backfill.ceiling) => CameLate(p)

\* Until something is judged, neither cursor nor ceiling is before the place where the older
\* analysis stopped, so that a row that is seeded anew does not begin behind the ceiling.
SeedRight ==
    ~Recovered =>
        /\ HasRow => OldCursor(chat.prior) <= row.cur
        /\ backfill # None => OldCursor(chat.prior) <= backfill.ceiling

\* The half-read text of the row has its first half saved.
HalfSaved ==
    HasRow /\ row.off > 0 /\ row.cur \notin covered => row.cur \in Pos /\ ends[row.cur] >= row.off

\* What a pass has at hand: every text that is not judged, from where it stands to the end
\* of its page.
QuotedPass ==
    pass.at = "quoted" =>
        /\ pass = [at |-> "quoted", began |-> pass.began, buf |-> pass.buf, next |-> pass.next]
        /\ pass.next \in Nat /\ Within(pass.next)
        /\ pass.buf \subseteq shown /\ \A p \in pass.buf : p <= pass.next
        /\ \A p \in pass.buf : mode = "group" \/ p \in chat.mine
        /\ backfill \in BackfillRecord /\ backfill # None /\ ~backfill.done
        /\ \A p \in Unread(Quoted) : p <= pass.next => p \in pass.buf \/ CameLate(p)

AtOrAfter(p, m) == m.cur < p \/ (p = m.cur /\ m.off > 0)
IsMain(m) ==
    /\ m = [at |-> "main", began |-> m.began, cur |-> m.cur, off |-> m.off, hw |-> m.hw,
            buf |-> m.buf, next |-> m.next, rev |-> m.rev]
    /\ m.cur = row.cur /\ m.off = row.off
    /\ m.hw \in Nat /\ m.next \in Nat /\ Within(m.next)
    /\ m.next > 0 =>
         /\ m.cur <= m.next
         /\ m.buf \subseteq shown
         /\ \A p \in m.buf : AtOrAfter(p, m) /\ p <= m.next
         /\ \A p \in Unread(texts) :
              AtOrAfter(p, m) /\ p <= m.next => p \in m.buf \/ CameLate(p)
MainPass ==
    /\ pass.at = "main" => IsMain(pass)
    /\ pass.at = "opened" =>
         pass.cur = row.cur /\ pass.off = row.off /\ pass.hw \in Nat
    /\ pass.at = "reconcile" =>
         /\ pass = [at |-> "reconcile", main |-> pass.main, buf |-> pass.buf, next |-> pass.next,
                    rev |-> pass.rev, ceiling |-> pass.ceiling, prefix |-> pass.prefix]
         /\ pass.buf \subseteq shown /\ IsMain(pass.main)
    /\ pass.at = "recent" =>
         /\ pass = [at |-> "recent", main |-> pass.main, buf |-> pass.buf]
         /\ pass.buf \subseteq shown /\ (pass.main = NoPass \/ IsMain(pass.main))

ScanTyped == HistoryTyped /\ EvidenceTyped /\ RowTyped
Saved == Behind /\ BackfillKept /\ SeedRight /\ HalfSaved
OnTheWay == QuotedPass /\ MainPass
BatchInv == ScanTyped /\ Saved /\ OnTheWay

-----------------------------------------------------------------------------
LEMMA PlacesTyped ==
    ASSUME HistoryTyped
    PROVE  /\ Pos \subseteq Nat \ {0} /\ IsFiniteSet(Pos)
           /\ \A p \in Pos : Length(p) \in {1, 2}
           /\ OldCursor(chat.prior) \in Nat
<1>1. chat.mine \subseteq Nat \ {0} /\ chat.rest \subseteq Nat \ {0}
  BY DEF HistoryTyped, ChatRecord, Places
<1>2. IsFiniteSet(Pos) BY DEF HistoryTyped, LegacyRight, Pos
<1>3. \A p \in Pos : Length(p) \in {1, 2} BY DEF Length
<1>4. OldCursor(chat.prior) \in Nat
  BY DEF HistoryTyped, ChatRecord, OldCursor
<1> QED BY <1>1, <1>2, <1>3, <1>4 DEF Pos

LEMMA UnreadIs ==
    ASSUME NEW S, NEW p
    PROVE  p \in Unread(S) <=>
             p \in S /\ p \notin LegacyKnown /\ p \notin covered /\ (mode = "group" \/ p \in chat.mine)
BY DEF Unread, Known, Outcomes

\* A text that shows up at or before a place within the history has come late.
LEMMA NewIsLate ==
    ASSUME HistoryTyped, NEW c \in Nat, Within(c), NEW p \in Pos \ shown, p <= c
    PROVE  p \notin chat.first /\ \E q \in shown : q > p
<1>1. p \in Nat \ {0} /\ shown \subseteq Nat BY PlacesTyped DEF HistoryTyped
<1>2. PICK q \in shown : c <= q BY <1>1 DEF Within
<1>3. q # p /\ q \in Nat BY <1>1, <1>2
<1>4. q > p BY <1>1, <1>2, <1>3
<1> QED BY <1>4 DEF HistoryTyped

\* While nothing but the history, the evidence and the tables grow, what is unread was unread
\* before, what came late did so before, and a place within the history stays within it.
Grows ==
    /\ chat' = chat /\ mode' = mode
    /\ shown \subseteq shown' /\ covered \subseteq covered'

LEMMA GrowsFacts ==
    ASSUME Grows
    PROVE  /\ \A S : \A p \in Unread(S)' : p \in S => p \in Unread(S)
           /\ \A p : CameLate(p) => CameLate(p)'
           /\ \A c : Within(c) => Within(c)'
           /\ Pos' = Pos /\ LegacyKnown' = LegacyKnown /\ \A p : Length(p)' = Length(p)
BY DEF Grows, Unread, Known, Outcomes, LegacyKnown, CameLate, Within, Pos, Length

\* New texts were not there before.
NewTexts ==
    /\ texts' \subseteq rows' /\ rows' \subseteq shown' /\ shown' \subseteq Pos
    /\ texts' \cap chat.images = {}
    /\ \A p \in texts' \ texts : p \notin shown

LEMMA UnreadBefore ==
    ASSUME HistoryTyped, Grows, NewTexts, NEW c \in Nat, Within(c), NEW p \in Unread(texts)', p <= c
    PROVE  p \in Unread(texts) \/ CameLate(p)'
<1>1. CASE p \in texts
  BY <1>1 DEF Unread, Known, Outcomes, LegacyKnown, Grows
<1>2. CASE p \notin texts
  <2>1. p \in texts' BY DEF Unread
  <2>2. p \in Pos \ shown BY <1>2, <2>1 DEF NewTexts
  <2>3. p \notin chat.first /\ \E q \in shown : q > p
    BY <2>2, NewIsLate
  <2> QED BY <2>3 DEF CameLate, Grows
<1> QED BY <1>1, <1>2

LEMMA HistoryTypedStays ==
    ASSUME HistoryTyped, Grows, NewTexts
    PROVE  HistoryTyped'
<1>1. Pos' = Pos BY GrowsFacts
<1> QED BY <1>1 DEF HistoryTyped, Grows, NewTexts

\* The history may change, and the pass may move on.
LEMMA SavedStays ==
    ASSUME ScanTyped, Saved, Grows, NewTexts, row' = row, backfill' = backfill, ends' = ends,
           covered' = covered, pass' # NoPass => HasRow
    PROVE  ScanTyped' /\ Saved'
<1> USE DEF ScanTyped
<1>1. HistoryTyped' BY HistoryTypedStays
<1>2. EvidenceTyped'
  BY GrowsFacts DEF EvidenceTyped
<1>3. RowTyped'
  <2>1. IsRow(row) => IsRow(row)' BY DEF IsRow
  <2>2. Within(row.cur) => Within(row.cur)' BY DEF Within, Grows
  <2>3. HasRow' <=> HasRow BY DEF HasRow, NoRow
  <2> QED BY <2>1, <2>2, <2>3 DEF RowTyped
<1>4. Behind'
  <2> SUFFICES ASSUME HasRow', NEW p \in Unread(texts)', p <= row'.cur
               PROVE  CameLate(p)' \/ LeftOver(p)' \/ (p = row'.cur /\ row'.off > 0)
    BY DEF Behind
  <2>1. HasRow /\ row.cur \in Nat /\ Within(row.cur) /\ p <= row.cur
    BY DEF HasRow, NoRow, RowTyped, IsRow
  <2>2. p \in Unread(texts) \/ CameLate(p)' BY <2>1, UnreadBefore
  <2>3. p \in Unread(texts) => CameLate(p) \/ LeftOver(p) \/ (p = row.cur /\ row.off > 0)
    BY <2>1 DEF Saved, Behind
  <2>4. LeftOver(p) => LeftOver(p)' BY DEF LeftOver, BackfillDone, Grows
  <2>5. CameLate(p) => CameLate(p)' BY GrowsFacts
  <2> QED BY <2>2, <2>3, <2>4, <2>5
<1>5. BackfillKept'
  <2> SUFFICES ASSUME backfill # None PROVE BackfillKept' BY DEF BackfillKept
  <2>1. /\ backfill \in BackfillRecord /\ Within(backfill.ceiling) /\ Within(backfill.cur)
        /\ \A p \in Unread(Quoted) :
             p <= backfill.cur \/ (backfill.done /\ p <= backfill.ceiling) => CameLate(p)
    BY DEF EvidenceTyped, Saved, BackfillKept
  <2>2. backfill.cur \in Nat /\ backfill.ceiling \in Nat BY <2>1 DEF BackfillRecord
  <2>3. ASSUME NEW p \in Unread(Quoted)',
               p <= backfill.cur \/ (backfill.done /\ p <= backfill.ceiling)
        PROVE  CameLate(p)'
    <3>1. p \in Unread(texts)' /\ p \in chat.quoted BY UnreadIs DEF Unread, Quoted, Grows
    <3>2. p \in Unread(texts) \/ CameLate(p)' BY <2>1, <2>2, <2>3, <3>1, UnreadBefore
    <3>3. p \in Unread(texts) => p \in Unread(Quoted) BY <3>1 DEF Unread, Quoted
    <3> QED BY <2>1, <2>3, <3>2, <3>3, GrowsFacts
  <2>4. Within(backfill.ceiling)' /\ Within(backfill.cur)' BY <2>1 DEF Within, Grows
  <2> QED BY <2>3, <2>4 DEF BackfillKept
<1>6. SeedRight' /\ HalfSaved'
  BY GrowsFacts DEF Saved, SeedRight, HalfSaved, Recovered, HasRow, NoRow, Grows
<1> QED BY <1>1, <1>2, <1>3, <1>4, <1>5, <1>6 DEF Saved

LEMMA MainStays ==
    ASSUME HistoryTyped, Grows, NewTexts, row'.cur = row.cur, row'.off = row.off,
           NEW m, IsMain(m)
    PROVE  IsMain(m)'
<1>1. ASSUME m.next > 0, NEW p \in Unread(texts)', AtOrAfter(p, m), p <= m.next
      PROVE  p \in m.buf \/ CameLate(p)'
  <2>1. m.next \in Nat /\ Within(m.next) BY DEF IsMain
  <2>2. p \in Unread(texts) \/ CameLate(p)' BY <1>1, <2>1, UnreadBefore
  <2>3. p \in Unread(texts) => p \in m.buf \/ CameLate(p) BY <1>1 DEF IsMain
  <2> QED BY <2>2, <2>3, GrowsFacts
<1>2. Within(m.next)' BY DEF IsMain, Within, Grows
<1>3. m.next > 0 => m.buf \subseteq shown' BY DEF IsMain, Grows
<1> QED BY <1>1, <1>2, <1>3 DEF IsMain, AtOrAfter

LEMMA PassStays ==
    ASSUME ScanTyped, OnTheWay, Grows, NewTexts, row' = row, backfill' = backfill, pass' = pass
    PROVE  OnTheWay'
<1> HistoryTyped BY DEF ScanTyped
<1>1. QuotedPass'
  <2> SUFFICES ASSUME pass.at = "quoted" PROVE QuotedPass' BY DEF QuotedPass
  <2>1. QuotedPass BY DEF OnTheWay
  <2>2. ASSUME NEW p \in Unread(Quoted)', p <= pass.next  PROVE  p \in pass.buf \/ CameLate(p)'
    <3>1. p \in Unread(texts)' /\ p \in chat.quoted BY DEF Unread, Quoted, Grows
    <3>2. pass.next \in Nat /\ Within(pass.next) BY <2>1 DEF QuotedPass
    <3>3. p \in Unread(texts) \/ CameLate(p)' BY <2>2, <3>1, <3>2, UnreadBefore
    <3>4. p \in Unread(texts) => p \in Unread(Quoted) BY <3>1 DEF Unread, Quoted
    <3> QED BY <2>1, <2>2, <3>3, <3>4, GrowsFacts DEF QuotedPass
  <2>3. Within(pass.next)' BY <2>1 DEF QuotedPass, Within, Grows
  <2> QED BY <2>1, <2>2, <2>3 DEF QuotedPass, Grows
<1>2. MainPass'
  <2>1. ASSUME NEW m, IsMain(m) PROVE IsMain(m)' BY <2>1, MainStays
  <2>2. MainPass BY DEF OnTheWay
  <2>3. pass.at = "main" => IsMain(pass)'
    <3> SUFFICES ASSUME pass.at = "main" PROVE IsMain(pass)' OBVIOUS
    <3>1. PICK m : m = pass OBVIOUS
    <3>2. IsMain(m) BY <2>2, <3>1 DEF MainPass
    <3>3. IsMain(m)' BY <3>2, <2>1
    <3> QED BY <3>1, <3>3
  <2>4. pass.at \in {"reconcile", "recent"} /\ IsMain(pass.main) => IsMain(pass.main)'
    <3> SUFFICES ASSUME IsMain(pass.main) PROVE IsMain(pass.main)' OBVIOUS
    <3>1. PICK m : m = pass.main OBVIOUS
    <3>2. IsMain(m) BY <3>1
    <3>3. IsMain(m)' BY <3>2, <2>1
    <3> QED BY <3>1, <3>3
  <2>5. pass.at \in {"reconcile", "recent"} => pass.buf \subseteq shown'
    BY <2>2 DEF MainPass, Grows
  <2>6. NoPass' = NoPass BY DEF NoPass
  <2> QED BY <2>2, <2>3, <2>4, <2>5, <2>6 DEF MainPass
<1> QED BY <1>1, <1>2 DEF OnTheWay

LEMMA RowIsThere == ASSUME NEW r, IsRow(r) PROVE r # NoRow
<1>1. DOMAIN NoRow = {"cur"} BY DEF NoRow
<1>2. DOMAIN r = {"cur", "off", "complete", "stat"} BY DEF IsRow
<1> QED BY <1>1, <1>2

\* A step of a pass that may move the cursor and save more evidence.
LEMMA RowMoves ==
    ASSUME ScanTyped, Saved, pass # NoPass, Grows, texts' = texts, rows' = rows, shown' = shown,
           \/ backfill' = backfill
           \/ /\ backfill' \in BackfillRecord /\ BackfillKept' /\ Recovered'
              /\ \A p : LeftOver(p) => LeftOver(p)',
           covered' \subseteq Pos, ends' \in [Pos -> Nat],
           \A p \in Pos : ends'[p] <= Length(p) /\ ends[p] <= ends'[p],
           IsRow(row'), Within(row'.cur),
           \A p \in Unread(texts)' : p <= row'.cur =>
               CameLate(p) \/ LeftOver(p) \/ (p = row'.cur /\ row'.off > 0),
           ~Recovered' => row.cur <= row'.cur,
           row'.off > 0 /\ row'.cur \notin covered' => row'.cur \in Pos /\ ends'[row'.cur] >= row'.off
    PROVE  ScanTyped' /\ Saved'
<1> USE DEF ScanTyped
<1>a. Pos' = Pos BY GrowsFacts
<1>1. HistoryTyped'
  BY <1>a DEF HistoryTyped, Grows
<1>2. EvidenceTyped' BY <1>a, GrowsFacts DEF EvidenceTyped, Grows
<1>3. RowTyped'
  <2>1. row' # NoRow BY RowIsThere
  <2>2. HasRow' BY <2>1 DEF HasRow, NoRow
  <2>3. IsRow(row)' BY DEF IsRow
  <2>4. Within(row.cur)' BY DEF Within
  <2> QED BY <2>2, <2>3, <2>4 DEF RowTyped
<1>4. Behind'
  <2>1. \A p : CameLate(p)' <=> CameLate(p) BY DEF CameLate, Grows
  <2>2. \A p : LeftOver(p) => LeftOver(p)' BY DEF LeftOver, BackfillDone, Grows
  <2> QED BY <2>1, <2>2 DEF Behind
<1>5. BackfillKept'
  <2> SUFFICES ASSUME backfill' = backfill PROVE BackfillKept' OBVIOUS
  <2>1. \A p \in Unread(Quoted)' : p \in Unread(Quoted)
    BY DEF Unread, Known, Outcomes, LegacyKnown, Quoted, Grows
  <2>2. \A p : CameLate(p)' <=> CameLate(p) BY DEF CameLate, Grows
  <2> QED BY <2>1, <2>2 DEF Saved, BackfillKept, Within
<1>6. SeedRight'
  <2> SUFFICES ASSUME ~Recovered' PROVE SeedRight' BY DEF SeedRight
  <2>1. ~Recovered
    <3> SUFFICES ASSUME NEW p \in Pos, p \in covered \/ ends[p] > 0 PROVE FALSE
      BY DEF Recovered
    <3>1. p \in covered' \/ ends'[p] > 0
      <4>1. ends[p] \in Nat /\ ends'[p] \in Nat /\ ends[p] <= ends'[p] BY DEF EvidenceTyped
      <4> QED BY <4>1 DEF Grows
    <3> QED BY <1>a, <3>1 DEF Recovered
  <2>2. HasRow /\ row.cur \in Nat /\ row'.cur \in Nat BY DEF RowTyped, IsRow
  <2>3. OldCursor(chat.prior) <= row.cur /\ OldCursor(chat.prior) \in Nat
    BY <2>1, <2>2, PlacesTyped DEF Saved, SeedRight
  <2>4. OldCursor(chat.prior) <= row'.cur BY <2>2, <2>3
  <2>5. OldCursor(chat.prior)' = OldCursor(chat.prior) BY DEF Grows, OldCursor
  <2>6. backfill' = backfill OBVIOUS
  <2> QED BY <2>1, <2>4, <2>5, <2>6 DEF Saved, SeedRight
<1>7. HalfSaved' BY <1>a DEF HalfSaved
<1> QED BY <1>1, <1>2, <1>3, <1>4, <1>5, <1>6, <1>7 DEF Saved

-----------------------------------------------------------------------------
(* Pages and windows *)

\* A finite set of positions has a first and a last: the one with the fewest beyond it.
LEMMA TheFirst ==
    ASSUME NEW S \in SUBSET Nat, S # {}, IsFiniteSet(S)
    PROVE  Min(S) \in S /\ \A n \in S : Min(S) <= n
<1> DEFINE Beyond(i) == {j \in S : j < i}
           T == {Beyond(i) : i \in S}
<1>1. T \subseteq FiniteSubsetsOf(S) /\ T # {}
  <2>1. T \subseteq FiniteSubsetsOf(S) BY FS_Subset DEF FiniteSubsetsOf
  <2>2. T # {} OBVIOUS
  <2> QED BY <2>1, <2>2
<1>2. IsWellFoundedOn(StrictSubsetOrdering(S), FiniteSubsetsOf(S))
  BY FS_StrictSubsetOrderingWellFounded
<1>3. PICK X \in T : \A Y \in T : <<Y, X>> \notin StrictSubsetOrdering(S)
  <2> HIDE DEF T
  <2> QED BY <1>1, <1>2, WFMin
<1>4. PICK i \in S : X = Beyond(i)
  BY <1>3
<1>5. ASSUME NEW j \in S, j < i  PROVE FALSE
  <2>1. Beyond(j) \in SUBSET S /\ Beyond(i) \in SUBSET S
    OBVIOUS
  <2>2. Beyond(j) \subseteq Beyond(i)
    <3>1. \A k \in S : k < j => k < i
      <4>1. \A k \in S : k \in Int OBVIOUS
      <4> QED BY <1>5, <4>1
    <3> QED BY <3>1
  <2>3. j \in Beyond(i) /\ j \notin Beyond(j)
    BY <1>5
  <2>4. <<Beyond(j), Beyond(i)>> \in StrictSubsetOrdering(S)
    <3> HIDE DEF Beyond
    <3> QED BY <2>1, <2>2, <2>3 DEF StrictSubsetOrdering
  <2> QED BY <1>3, <1>4, <2>4
<1>6. \A n \in S : i <= n
  <2>1. \A n \in S : n \in Int /\ i \in Int OBVIOUS
  <2> QED BY <1>5, <2>1
<1> QED BY <1>6 DEF Min

LEMMA TheLast ==
    ASSUME NEW S \in SUBSET Nat, S # {}, IsFiniteSet(S)
    PROVE  Max(S) \in S /\ \A n \in S : n <= Max(S)
<1> DEFINE Beyond(i) == {j \in S : j > i}
           T == {Beyond(i) : i \in S}
<1>1. T \subseteq FiniteSubsetsOf(S) /\ T # {}
  <2>1. T \subseteq FiniteSubsetsOf(S) BY FS_Subset DEF FiniteSubsetsOf
  <2>2. T # {} OBVIOUS
  <2> QED BY <2>1, <2>2
<1>2. IsWellFoundedOn(StrictSubsetOrdering(S), FiniteSubsetsOf(S))
  BY FS_StrictSubsetOrderingWellFounded
<1>3. PICK X \in T : \A Y \in T : <<Y, X>> \notin StrictSubsetOrdering(S)
  <2> HIDE DEF T
  <2> QED BY <1>1, <1>2, WFMin
<1>4. PICK i \in S : X = Beyond(i)
  BY <1>3
<1>5. ASSUME NEW j \in S, j > i  PROVE FALSE
  <2>1. Beyond(j) \in SUBSET S /\ Beyond(i) \in SUBSET S
    OBVIOUS
  <2>2. Beyond(j) \subseteq Beyond(i)
    <3>1. \A k \in S : k > j => k > i
      <4>1. \A k \in S : k \in Int OBVIOUS
      <4> QED BY <1>5, <4>1
    <3> QED BY <3>1
  <2>3. j \in Beyond(i) /\ j \notin Beyond(j)
    BY <1>5
  <2>4. <<Beyond(j), Beyond(i)>> \in StrictSubsetOrdering(S)
    <3> HIDE DEF Beyond
    <3> QED BY <2>1, <2>2, <2>3 DEF StrictSubsetOrdering
  <2> QED BY <1>3, <1>4, <2>4
<1>6. \A n \in S : i >= n
  <2>1. \A n \in S : n \in Int /\ i \in Int OBVIOUS
  <2> QED BY <1>5, <2>1
<1> QED BY <1>6 DEF Max


LEMMA MaxOfTyped ==
    ASSUME HistoryTyped, NEW S, S \subseteq Pos
    PROVE  MaxOf(S) \in Nat /\ (S # {} => MaxOf(S) = Max(S) /\ Max(S) \in S) /\ \A n \in S : n <= MaxOf(S)
<1>1. S \in SUBSET Nat /\ IsFiniteSet(S) BY PlacesTyped, FS_Subset
<1>2. CASE S = {} BY <1>2 DEF MaxOf
<1>3. CASE S # {} BY <1>1, <1>3, TheLast DEF MaxOf
<1> QED BY <1>2, <1>3

\* A page leaves nothing out up to its end, and an empty one nothing at all.
LEMMA PageIs ==
    ASSUME HistoryTyped, NEW S, S \subseteq Pos, NEW after \in Int, NEW ceiling \in Nat
    PROVE  /\ Page(S, after, ceiling) \subseteq S
           /\ \A p \in Page(S, after, ceiling) : after < p /\ p <= ceiling
           /\ Page(S, after, ceiling) = {} => \A p \in S : ~(after < p /\ p <= ceiling)
           /\ Page(S, after, ceiling) # {} =>
                 /\ Max(Page(S, after, ceiling)) \in Page(S, after, ceiling)
                 /\ \A p \in Page(S, after, ceiling) : p <= Max(Page(S, after, ceiling))
                 /\ \A p \in S : after < p /\ p <= Max(Page(S, after, ceiling)) =>
                       p \in Page(S, after, ceiling)
<1> DEFINE next == After(Upto(S, ceiling), after)
           upto(p) == After(Upto(S, p), after)
           page == Page(S, after, ceiling)
<1>1. page = {p \in next : Cardinality(upto(p)) <= PageSize}
  BY DEF Page
<1>2. S \subseteq Nat /\ IsFiniteSet(S) BY PlacesTyped, FS_Subset
<1>3. next \subseteq S /\ next \in SUBSET Nat /\ IsFiniteSet(next)
  BY <1>2, FS_Subset DEF After, Upto
<1>4. PageSize \in Nat \ {0} BY BatchAssumption
<1>5. \A p : IsFiniteSet(upto(p)) /\ Cardinality(upto(p)) \in Nat
  <2> TAKE p
  <2>1. upto(p) \subseteq S BY DEF After, Upto
  <2> HIDE DEF upto
  <2> QED BY <1>2, <2>1, FS_Subset, FS_CardinalityType
<1>6. \A p \in S : p \in next <=> after < p /\ p <= ceiling
  BY <1>2 DEF After, Upto
<1>7. \A p : \A q \in S : q \in upto(p) <=> after < q /\ q <= p
  BY DEF After, Upto
<1> HIDE DEF next, upto, page
<1>8. page \subseteq next /\ page \in SUBSET Nat /\ IsFiniteSet(page)
  BY <1>1, <1>3, FS_Subset
<1>9. ASSUME page = {}  PROVE next = {}
  <2> SUFFICES ASSUME next # {} PROVE FALSE OBVIOUS
  <2>1. Min(next) \in next /\ \A n \in next : Min(next) <= n
    BY <1>3, TheFirst
  <2>2. PICK m \in next : \A n \in next : m <= n BY <2>1
  <2>3. upto(m) = {m}
    <3>1. m \in Nat /\ m \in S /\ after < m /\ m <= ceiling BY <1>3, <1>6
    <3>2. m \in upto(m) BY <1>7, <3>1
    <3>3. upto(m) \subseteq S BY DEF upto, After, Upto
    <3>4. ASSUME NEW q \in upto(m) PROVE q = m
      <4>1. q \in Nat /\ after < q /\ q <= m BY <1>2, <1>7, <3>3
      <4>2. q \in next BY <1>6, <3>1, <3>3, <4>1
      <4> QED BY <2>2, <3>1, <4>1, <4>2
    <3> QED BY <3>2, <3>4
  <2>4. Cardinality(upto(m)) = 1 BY <2>3, FS_Singleton
  <2> QED BY <1>1, <1>4, <1>9, <2>4
<1>10. ASSUME page # {}  PROVE Max(page) \in page /\ \A n \in page : n <= Max(page)
  BY <1>8, <1>10, TheLast
<1>11. ASSUME page # {}, NEW p \in S, after < p, p <= Max(page)  PROVE p \in page
  <2>1. PICK m \in page : m = Max(page) BY <1>10, <1>11
  <2>2. m \in next /\ Cardinality(upto(m)) <= PageSize /\ m \in Nat /\ p \in Nat
    BY <1>1, <1>2, <1>8
  <2>3. m <= ceiling /\ p <= m BY <1>3, <1>6, <1>11, <2>1, <2>2
  <2>4. p \in next BY <1>6, <1>11, <2>2, <2>3
  <2>5. upto(p) \subseteq upto(m)
    <3> SUFFICES ASSUME NEW q \in upto(p) PROVE q \in upto(m) OBVIOUS
    <3>1. q \in S BY DEF upto, After, Upto
    <3>2. after < q /\ q <= p /\ q \in Nat BY <1>2, <1>7, <3>1
    <3>3. q <= m BY <2>2, <2>3, <3>2
    <3> QED BY <1>7, <3>1, <3>2, <3>3
  <2>6. Cardinality(upto(p)) <= Cardinality(upto(m)) BY <1>5, <2>5, FS_Subset
  <2>7. Cardinality(upto(p)) <= PageSize BY <1>4, <1>5, <2>2, <2>6
  <2> QED BY <1>1, <2>4, <2>7
<1>12. page \subseteq S /\ \A p \in page : after < p /\ p <= ceiling
  BY <1>3, <1>6, <1>8
<1>13. page = {} => \A p \in S : ~(after < p /\ p <= ceiling)
  BY <1>6, <1>9
<1> QED BY <1>10, <1>11, <1>12, <1>13 DEF page

\* A window is the texts up to its last one, which may be left half read.
LEMMA WindowIs ==
    ASSUME NEW items, items \subseteq Nat, NEW w \in Windows(items)
    PROVE  /\ w.last \in items /\ w.half \in BOOLEAN /\ w.items \subseteq items /\ w.last \in w.items
           /\ \A p \in items : p \in w.items <=> p <= w.last
           /\ Complete(w) \subseteq w.items
           /\ \A p \in w.items : p \in Complete(w) \/ (w.half /\ p = w.last)
           /\ w.half => w.last \notin Complete(w)
<1>1. PICK p \in items, h \in BOOLEAN : w = [items |-> Upto(items, p), last |-> p, half |-> h]
  BY DEF Windows
<1>2. w.items = Upto(items, p) /\ w.last = p /\ w.half = h BY <1>1
<1>3. p \in Upto(items, p) /\ Upto(items, p) \subseteq items BY DEF Upto
<1>4. \A q \in items : q \in Upto(items, p) <=> q <= p BY DEF Upto
<1>5. /\ Complete(w) \subseteq w.items
      /\ \A q \in w.items : q \in Complete(w) \/ (w.half /\ q = w.last)
      /\ w.half => w.last \notin Complete(w)
  BY <1>2 DEF Complete
<1> QED BY <1>2, <1>3, <1>4, <1>5

\* A commit adds to the evidence, and moves the row it is given or leaves it where it is.
LEMMA SaveIs ==
    ASSUME HistoryTyped, EvidenceTyped, NEW items, items \subseteq Pos, NEW w \in Windows(items),
           CanStop(w), NEW r, IsRow(r), NEW advance \in BOOLEAN, Save(r, w, advance)
    PROVE  /\ IsRow(row')
           /\ row'.cur = (IF advance THEN w.last ELSE r.cur)
           /\ row'.off = (IF advance THEN EndOf(w) ELSE r.off)
           /\ covered' = covered \cup Complete(w) /\ covered' \subseteq Pos
           /\ ends' \in [Pos -> Nat]
           /\ \A p \in Pos : ends'[p] <= Length(p) /\ ends[p] <= ends'[p]
           /\ w.half => w.last \in covered \/ ends'[w.last] = 1
           /\ \E p \in Pos : p \in covered' \/ ends'[p] > 0
<1>a. Pos \subseteq Nat \ {0} /\ \A p \in Pos : Length(p) \in {1, 2}
  BY PlacesTyped
<1>b. /\ w.last \in items /\ w.half \in BOOLEAN /\ w.items \subseteq items /\ w.last \in w.items
      /\ Complete(w) \subseteq w.items
      /\ \A p \in w.items : p \in Complete(w) \/ (w.half /\ p = w.last)
      /\ w.half => w.last \notin Complete(w)
  BY <1>a, WindowIs
<1>1. row' = Progress(r, w, advance, Counts(r.stat, w)) /\ covered' = covered \cup Complete(w)
  BY DEF Save
<1>2. PICK stat : stat = Counts(r.stat, w) OBVIOUS
<1>3. row' = IF advance THEN [r EXCEPT !.cur = w.last, !.off = EndOf(w), !.stat = stat]
             ELSE [r EXCEPT !.stat = stat]
  BY <1>1, <1>2 DEF Progress
<1>4. EndOf(w) \in {0, 1} /\ w.last \in Nat
  BY <1>a, <1>b DEF EndOf
<1>5. /\ IsRow(row')
      /\ row'.cur = (IF advance THEN w.last ELSE r.cur)
      /\ row'.off = (IF advance THEN EndOf(w) ELSE r.off)
  <2>1. PICK c, o, d, x : r = [cur |-> c, off |-> o, complete |-> d, stat |-> x] /\ c \in Nat /\ o \in Nat
    BY DEF IsRow
  <2>2. CASE advance
    <3>1. row' = [cur |-> w.last, off |-> EndOf(w), complete |-> d, stat |-> stat]
      BY <1>3, <2>1, <2>2
    <3> QED BY <1>4, <2>2, <3>1 DEF IsRow
  <2>3. CASE ~advance
    <3>1. row' = [cur |-> c, off |-> o, complete |-> d, stat |-> stat]
      BY <1>3, <2>1, <2>3
    <3> QED BY <2>1, <2>3, <3>1 DEF IsRow
  <2> QED BY <2>2, <2>3
<1>6. covered' \subseteq Pos
  BY <1>1, <1>b DEF EvidenceTyped
<1>7. ends' = [p \in Pos |-> IF p \in w.items \ covered THEN Offset(p) + Piece(w, p) ELSE ends[p]]
  BY DEF Save
<1>8. ASSUME NEW p \in Pos
      PROVE  /\ ends'[p] \in Nat /\ ends'[p] <= Length(p) /\ ends[p] <= ends'[p]
             /\ p \in w.items \ covered /\ w.half /\ p = w.last => ends'[p] = 1
  <2>1. ends[p] \in Nat /\ ends[p] <= Length(p) /\ Length(p) \in {1, 2}
    BY <1>a DEF EvidenceTyped
  <2>2. CASE p \notin w.items \ covered
    BY <1>7, <2>1, <2>2
  <2>3. CASE p \in w.items \ covered
    <3>1. Offset(p) = ends[p] BY <2>3 DEF Offset
    <3>2. CASE w.half /\ p = w.last
      <4>1. ends[p] = 0 BY <3>1, <3>2 DEF CanStop
      <4>2. ends'[p] = 1 BY <1>7, <2>3, <3>1, <3>2, <4>1 DEF Piece
      <4> QED BY <2>1, <4>1, <4>2
    <3>3. CASE ~(w.half /\ p = w.last)
      <4>1. ends'[p] = Length(p) BY <1>7, <2>1, <2>3, <3>1, <3>3 DEF Piece
      <4> QED BY <2>1, <3>3, <4>1
    <3> QED BY <3>2, <3>3
  <2> QED BY <2>2, <2>3
<1>9. ends' \in [Pos -> Nat] BY <1>7, <1>8
<1>10. w.last \in Pos /\ (w.half => w.last \in covered \/ ends'[w.last] = 1)
  BY <1>8, <1>b
<1>11. \E p \in Pos : p \in covered' \/ ends'[p] > 0
  BY <1>1, <1>10, <1>b
<1> QED BY <1>1, <1>5, <1>6, <1>8, <1>9, <1>10, <1>11

-----------------------------------------------------------------------------
(* The steps of a pass between two transactions *)

LEMMA Elsewhere ==
    ASSUME pass'.at \notin {"quoted", "opened", "main", "reconcile", "recent"}
    PROVE  OnTheWay'
BY DEF OnTheWay, QuotedPass, MainPass

LEMMA NothingMoves ==
    ASSUME ScanTyped, UNCHANGED <<chatSource, evidence>>
    PROVE  Grows /\ NewTexts
BY DEF ScanTyped, HistoryTyped, Grows, NewTexts, chatSource, chatHistory, evidence

LEMMA PassOnly ==
    ASSUME ScanTyped, Saved, UNCHANGED <<chatSource, evidence, row, backfill>>,
           pass' # NoPass => HasRow
    PROVE  ScanTyped' /\ Saved'
<1>1. Grows /\ NewTexts BY NothingMoves
<1>2. row' = row /\ backfill' = backfill /\ ends' = ends /\ covered' = covered BY DEF evidence
<1> QED BY <1>1, <1>2, SavedStays

LEMMA ScanStarts == ScanInit => BatchInv
<1> SUFFICES ASSUME ScanInit PROVE BatchInv OBVIOUS
<1>1. HistoryTyped
  <2>1. chat \in ChatRecord /\ LegacyRight(chat) BY BatchAssumption DEF ScanInit
  <2>2. rows \subseteq Pos BY <2>1 DEF ScanInit, LegacyRight, Pos
  <2> QED BY <2>1, <2>2 DEF ScanInit, HistoryTyped
<1>2. EvidenceTyped
  BY <1>1, PlacesTyped DEF ScanInit, EvidenceTyped
<1>3. ~HasRow /\ pass = NoPass /\ backfill = None /\ pass.at = "idle"
  BY DEF ScanInit, HasRow, NoPass
<1>4. Saved BY <1>3 DEF Saved, Behind, BackfillKept, SeedRight, HalfSaved
<1>5. OnTheWay BY <1>3 DEF OnTheWay, QuotedPass, MainPass
<1> QED BY <1>1, <1>2, <1>3, <1>4, <1>5 DEF BatchInv, ScanTyped, RowTyped

LEMMA RequestPassKeeps == ASSUME BatchInv, RequestPass PROVE BatchInv'
<1>1. HasRow /\ UNCHANGED <<chatSource, evidence, row, backfill>> BY DEF RequestPass
<1>2. pass'.at \in {"idle", "begin"} BY DEF RequestPass, NoPass
<1> QED BY <1>1, <1>2, PassOnly, Elsewhere DEF BatchInv

LEMMA RequestRecentKeeps == ASSUME BatchInv, RequestRecent PROVE BatchInv'
<1>1. HasRow /\ UNCHANGED <<chatSource, evidence, row, backfill>> BY DEF RequestRecent
<1>2. PICK b : pass' = [at |-> "recent", main |-> NoPass, buf |-> b] /\ b \subseteq texts
  <2> DEFINE b == {p \in texts : Cardinality(After(rows, p)) < RecentLimit}
  <2>1. b \subseteq texts OBVIOUS
  <2>2. pass' = [at |-> "recent", main |-> NoPass, buf |-> b] BY DEF RequestRecent
  <2> HIDE DEF b
  <2> QED BY <2>1, <2>2
<1>3. texts \subseteq shown' BY DEF BatchInv, ScanTyped, HistoryTyped, RequestRecent, chatSource, chatHistory
<1>4. pass'.at = "recent" /\ pass'.main = NoPass /\ pass'.buf = b
      /\ pass' = [at |-> "recent", main |-> pass'.main, buf |-> pass'.buf]
  BY <1>2
<1>5. OnTheWay' BY <1>2, <1>3, <1>4 DEF OnTheWay, QuotedPass, MainPass, NoPass
<1> QED BY <1>1, <1>5, PassOnly DEF BatchInv

LEMMA DropKeeps == ASSUME BatchInv, Drop PROVE BatchInv'
<1>1. pass' = NoPass /\ UNCHANGED <<chatSource, evidence, row, backfill>> BY DEF Drop
<1>2. pass'.at = "idle" BY <1>1 DEF NoPass
<1> QED BY <1>1, <1>2, PassOnly, Elsewhere DEF BatchInv

LEMMA UnderWay ==
    ASSUME ScanTyped, pass.at # "idle"
    PROVE  pass # NoPass /\ HasRow /\ row.cur \in Nat /\ row.off \in Nat /\ Within(row.cur)
BY DEF ScanTyped, RowTyped, NoPass, IsRow

LEMMA OpenHistoryKeeps == ASSUME BatchInv, OpenHistory PROVE BatchInv'
<1>1. pass.at = "open" /\ UNCHANGED <<chatSource, evidence, row, backfill>> BY DEF OpenHistory
<1>2. HasRow BY <1>1, UnderWay DEF BatchInv
<1>3. /\ pass'.at = "opened" /\ pass'.cur = row.cur /\ pass'.off = row.off
      /\ pass'.hw = MaxOf(rows)
  BY DEF OpenHistory
<1>4. MaxOf(rows) \in Nat
  <2>1. HistoryTyped /\ rows \subseteq Pos BY DEF BatchInv, ScanTyped, HistoryTyped
  <2> QED BY <2>1, MaxOfTyped
<1>5. OnTheWay' BY <1>1, <1>3, <1>4 DEF OnTheWay, QuotedPass, MainPass
<1> QED BY <1>1, <1>2, <1>5, PassOnly DEF BatchInv

LEMMA LookKeeps == ASSUME BatchInv, Look PROVE BatchInv'
<1>1. pass.at = "opened" /\ UNCHANGED <<chatSource, evidence, row, backfill>> BY DEF Look
<1>2. HasRow BY <1>1, UnderWay DEF BatchInv
<1>3. pass.cur = row.cur /\ pass.off = row.off /\ pass.hw \in Nat
  BY <1>1 DEF BatchInv, OnTheWay, MainPass
<1>4. PICK m : m = [at |-> "main", began |-> pass.began, cur |-> pass.cur, off |-> pass.off,
                    hw |-> pass.hw, buf |-> {}, next |-> 0, rev |-> rev]
  OBVIOUS
<1>5. \/ pass' = m
      \/ \E c, s : pass' = [at |-> "reconcile", main |-> m, buf |-> {}, next |-> 0, rev |-> rev,
                           ceiling |-> c, prefix |-> s]
  BY <1>4 DEF Look
<1>6. IsMain(m)'
  BY <1>1, <1>3, <1>4 DEF IsMain, Within
<1>7. OnTheWay'
  <2>1. CASE pass' = m
    <3>2. IsMain(pass)' BY <1>6, <2>1 DEF IsMain
    <3>3. pass'.at = "main" BY <1>4, <2>1
    <3> QED BY <3>2, <3>3 DEF OnTheWay, QuotedPass, MainPass
  <2>2. CASE pass' # m
    <3>1. PICK c, s : pass' = [at |-> "reconcile", main |-> m, buf |-> {}, next |-> 0, rev |-> rev,
                               ceiling |-> c, prefix |-> s]
      BY <1>5, <2>2
    <3>2. pass'.at = "reconcile" /\ pass'.main = m /\ pass'.buf = {} BY <3>1
    <3>3. pass' = [at |-> "reconcile", main |-> pass'.main, buf |-> pass'.buf, next |-> pass'.next,
                   rev |-> pass'.rev, ceiling |-> pass'.ceiling, prefix |-> pass'.prefix]
      BY <3>1
    <3>4. IsMain(pass.main)' BY <1>6, <3>2 DEF IsMain
    <3> QED BY <3>2, <3>3, <3>4 DEF OnTheWay, QuotedPass, MainPass
  <2> QED BY <2>1, <2>2
<1> QED BY <1>1, <1>2, <1>7, PassOnly DEF BatchInv

LEMMA MainHolds ==
    ASSUME ScanTyped, UNCHANGED <<chatSource, evidence, row>>, NEW m, IsMain(m)
    PROVE  IsMain(m)'
BY NothingMoves, MainStays DEF ScanTyped

LEMMA ReconcilePageKeeps == ASSUME BatchInv, ReconcilePage PROVE BatchInv'
<1>1. pass.at = "reconcile" /\ UNCHANGED <<chatSource, evidence, row, backfill>> BY DEF ReconcilePage
<1>2. HasRow BY <1>1, UnderWay DEF BatchInv
<1>3. PICK m : m = pass.main OBVIOUS
<1>4. /\ IsMain(m)
      /\ pass = [at |-> "reconcile", main |-> m, buf |-> pass.buf, next |-> pass.next,
                 rev |-> pass.rev, ceiling |-> pass.ceiling, prefix |-> pass.prefix]
  BY <1>1, <1>3 DEF BatchInv, OnTheWay, MainPass
<1>5. IsMain(m)' BY <1>1, <1>4, MainHolds DEF BatchInv
<1>6. CASE pass' = pass.main
  <2>1. pass' = m /\ pass'.at = "main" BY <1>3, <1>4, <1>6 DEF IsMain
  <2>2. IsMain(pass)' BY <1>5, <2>1 DEF IsMain
  <2>3. OnTheWay' BY <2>1, <2>2 DEF OnTheWay, QuotedPass, MainPass
  <2> QED BY <1>1, <1>2, <2>3, PassOnly DEF BatchInv
<1>7. CASE pass' # pass.main
  <2> DEFINE read == Page(rows, pass.next, pass.ceiling)
  <2>1. pass' = [pass EXCEPT !.buf = read \cap texts, !.next = Max(read)] BY <1>7 DEF ReconcilePage
  <2>2. texts \subseteq shown' BY <1>1 DEF BatchInv, ScanTyped, HistoryTyped, chatSource, chatHistory
  <2> HIDE DEF read
  <2>3. /\ pass'.at = "reconcile" /\ pass'.main = m /\ pass'.buf = read \cap texts
        /\ pass' = [at |-> "reconcile", main |-> pass'.main, buf |-> pass'.buf, next |-> pass'.next,
                    rev |-> pass'.rev, ceiling |-> pass'.ceiling, prefix |-> pass'.prefix]
    <3>1. PICK b, x, v, c, s : pass = [at |-> "reconcile", main |-> m, buf |-> b, next |-> x,
                                       rev |-> v, ceiling |-> c, prefix |-> s]
      BY <1>4
    <3>2. pass' = [at |-> "reconcile", main |-> m, buf |-> read \cap texts, next |-> Max(read),
                   rev |-> v, ceiling |-> c, prefix |-> s]
      BY <2>1, <3>1
    <3> QED BY <3>2
  <2>4. IsMain(pass.main)' BY <1>5, <2>3 DEF IsMain
  <2>5. OnTheWay' BY <2>2, <2>3, <2>4 DEF OnTheWay, QuotedPass, MainPass
  <2> QED BY <1>1, <1>2, <2>5, PassOnly DEF BatchInv
<1> QED BY <1>6, <1>7

LEMMA TakeRecentKeeps == ASSUME BatchInv, TakeRecent PROVE BatchInv'
<1>1. pass.at = "main" /\ UNCHANGED <<chatSource, evidence, row, backfill>> BY DEF TakeRecent
<1>2. HasRow BY <1>1, UnderWay DEF BatchInv
<1>3. PICK m : m = pass OBVIOUS
<1>4. IsMain(m) BY <1>1, <1>3 DEF BatchInv, OnTheWay, MainPass
<1>5. IsMain(m)' BY <1>1, <1>4, MainHolds DEF BatchInv
<1>6. PICK b : pass' = [at |-> "recent", main |-> m, buf |-> b] /\ b \subseteq texts
  <2> DEFINE b == {p \in texts : Cardinality(After(rows, p)) < RecentLimit}
  <2>1. b \subseteq texts OBVIOUS
  <2>2. pass' = [at |-> "recent", main |-> m, buf |-> b] BY <1>3 DEF TakeRecent
  <2> HIDE DEF b
  <2> QED BY <2>1, <2>2
<1>7. /\ pass'.at = "recent" /\ pass'.main = m /\ pass'.buf = b
      /\ pass' = [at |-> "recent", main |-> pass'.main, buf |-> pass'.buf]
  BY <1>6
<1>8. IsMain(pass.main)' BY <1>5, <1>7 DEF IsMain
<1>9. b \subseteq shown' BY <1>1, <1>6 DEF BatchInv, ScanTyped, HistoryTyped, chatSource, chatHistory
<1>10. OnTheWay' BY <1>7, <1>8, <1>9 DEF OnTheWay, QuotedPass, MainPass
<1> QED BY <1>1, <1>2, <1>10, PassOnly DEF BatchInv

LEMMA RecentEndsKeeps == ASSUME BatchInv, RecentEnds PROVE BatchInv'
<1>1. pass.at = "recent" /\ pass' = pass.main /\ UNCHANGED <<chatSource, evidence, row, backfill>>
  BY DEF RecentEnds
<1>2. HasRow BY <1>1, UnderWay DEF BatchInv
<1>3. PICK m : m = pass.main OBVIOUS
<1>4. m = NoPass \/ IsMain(m) BY <1>1, <1>3 DEF BatchInv, OnTheWay, MainPass
<1>5. CASE m = NoPass
  <2>1. pass'.at = "idle" BY <1>1, <1>3, <1>5 DEF NoPass
  <2> QED BY <1>1, <1>2, <2>1, PassOnly, Elsewhere DEF BatchInv
<1>6. CASE IsMain(m)
  <2>1. IsMain(m)' BY <1>1, <1>6, MainHolds DEF BatchInv
  <2>2. pass' = m /\ pass'.at = "main" BY <1>1, <1>3, <1>6 DEF IsMain
  <2>3. IsMain(pass)' BY <2>1, <2>2 DEF IsMain
  <2>4. OnTheWay' BY <2>2, <2>3 DEF OnTheWay, QuotedPass, MainPass
  <2> QED BY <1>1, <1>2, <2>4, PassOnly DEF BatchInv
<1> QED BY <1>4, <1>5, <1>6

\* A page is read: everything up to its end that is still unread is at hand.
LEMMA ReadPageKeeps == ASSUME BatchInv, ReadPage PROVE BatchInv'
<1>1. pass.at = "main" /\ UNCHANGED <<chatSource, evidence, row, backfill>> BY DEF ReadPage
<1>2. HasRow /\ row.cur \in Nat /\ row.off \in Nat BY <1>1, UnderWay DEF BatchInv
<1>3. /\ pass = [at |-> "main", began |-> pass.began, cur |-> row.cur, off |-> row.off,
                 hw |-> pass.hw, buf |-> pass.buf, next |-> pass.next, rev |-> pass.rev]
      /\ pass.hw \in Nat
  BY <1>1 DEF BatchInv, OnTheWay, MainPass, IsMain
<1>4. PICK after \in Int : after = IF row.off > 0 THEN row.cur - 1 ELSE row.cur
  BY <1>2
<1>5. PICK read : read = Page(rows, after, pass.hw) OBVIOUS
<1>6. NextPage = read
  <2>1. pass.off = row.off /\ pass.cur = row.cur BY <1>3
  <2> QED BY <1>4, <1>5, <2>1 DEF NextPage
<1>7. read # {} /\ pass' = [pass EXCEPT !.buf = read \cap texts, !.next = Max(read)]
  BY <1>6 DEF ReadPage
<1>8. HistoryTyped /\ rows \subseteq Pos /\ texts \subseteq rows /\ rows \subseteq shown /\ shown' = shown
      /\ texts' = texts /\ Pos \subseteq Nat \ {0}
  BY <1>1, PlacesTyped DEF BatchInv, ScanTyped, HistoryTyped, chatSource, chatHistory
<1>9. PICK n : n = Max(read) OBVIOUS
<1>10. /\ read \subseteq rows /\ \A p \in read : after < p
       /\ n \in read /\ (\A p \in read : p <= n)
       /\ \A p \in rows : after < p /\ p <= n => p \in read
  BY <1>3, <1>5, <1>7, <1>8, <1>9, PageIs
<1>11. n \in Nat \ {0} /\ n \in shown BY <1>8, <1>10
<1>12. PICK m : m = [at |-> "main", began |-> pass.began, cur |-> row.cur, off |-> row.off,
                     hw |-> pass.hw, buf |-> read \cap texts, next |-> n, rev |-> pass.rev]
  OBVIOUS
<1>13. pass' = m
  <2>1. PICK b, h, f, x, v : pass = [at |-> "main", began |-> b, cur |-> row.cur, off |-> row.off,
                                     hw |-> h, buf |-> f, next |-> x, rev |-> v]
    BY <1>3
  <2>2. pass' = [at |-> "main", began |-> b, cur |-> row.cur, off |-> row.off,
                 hw |-> h, buf |-> read \cap texts, next |-> n, rev |-> v]
    BY <1>7, <1>9, <2>1
  <2> QED BY <1>12, <2>1, <2>2
<1>14. \A p \in Nat : after < p <=> (row.cur < p \/ (p = row.cur /\ row.off > 0))
  BY <1>2, <1>4
<1>15. IsMain(pass)'
  <2>1. Within(n)' BY <1>8, <1>11 DEF Within
  <2>2. row.cur <= n BY <1>2, <1>10, <1>11, <1>14
  <2>3. \A p \in m.buf : AtOrAfter(p, m) /\ p <= n
    BY <1>8, <1>10, <1>12, <1>14 DEF AtOrAfter
  <2>4. \A p \in Unread(texts)' : AtOrAfter(p, m) /\ p <= n => p \in m.buf
    <3> SUFFICES ASSUME NEW p \in Unread(texts)', AtOrAfter(p, m), p <= n PROVE p \in m.buf
      OBVIOUS
    <3>1. p \in texts /\ p \in rows /\ p \in Nat BY <1>8 DEF Unread
    <3>2. after < p BY <1>12, <1>14, <3>1 DEF AtOrAfter
    <3> QED BY <1>10, <1>12, <3>1, <3>2
  <2>5. m.buf \subseteq shown' BY <1>8, <1>12
  <2>6. /\ m = [at |-> "main", began |-> m.began, cur |-> m.cur, off |-> m.off, hw |-> m.hw,
                buf |-> m.buf, next |-> m.next, rev |-> m.rev]
        /\ m.cur = row.cur /\ m.off = row.off /\ m.next = n /\ m.hw \in Nat
    BY <1>3, <1>12
  <2>7. row' = row BY <1>1
  <2>8. IsMain(m)' BY <1>11, <2>1, <2>2, <2>3, <2>4, <2>5, <2>6, <2>7 DEF IsMain, AtOrAfter
  <2> QED BY <1>13, <2>8 DEF IsMain
<1>16. pass'.at = "main" BY <1>12, <1>13
<1>17. OnTheWay' BY <1>15, <1>16 DEF OnTheWay, QuotedPass, MainPass
<1> QED BY <1>1, <1>2, <1>17, PassOnly DEF BatchInv

-----------------------------------------------------------------------------
(* The backfill *)

LEMMA BackfillMoves ==
    ASSUME ScanTyped, Saved, HasRow, UNCHANGED <<chatSource, evidence, row>>,
           backfill' \in BackfillRecord, Within(backfill'.ceiling), Within(backfill'.cur),
           \A p \in Unread(Quoted) :
               p <= backfill'.cur \/ (backfill'.done /\ p <= backfill'.ceiling) => CameLate(p),
           \A p \in Unread(texts) : p <= row.cur /\ LeftOver(p) =>
               CameLate(p) \/ (~backfill'.done /\ p <= backfill'.ceiling),
           ~Recovered => OldCursor(chat.prior) <= backfill'.ceiling
    PROVE  ScanTyped' /\ Saved'
<1>1. /\ chat' = chat /\ mode' = mode /\ rows' = rows /\ texts' = texts /\ shown' = shown
      /\ row' = row /\ ends' = ends /\ covered' = covered
  BY DEF chatSource, chatHistory, evidence
<1>2. HistoryTyped' /\ EvidenceTyped' /\ RowTyped'
  BY <1>1 DEF ScanTyped, HistoryTyped, EvidenceTyped, RowTyped, Pos, Length, IsRow, Within, HasRow, NoRow
<1>3. \A p : CameLate(p)' <=> CameLate(p) BY <1>1 DEF CameLate
<1>4. Unread(texts)' = Unread(texts) /\ Unread(Quoted)' = Unread(Quoted)
  BY <1>1 DEF Unread, Quoted, Known, Outcomes, LegacyKnown
<1>5. Behind'
  <2> SUFFICES ASSUME NEW p \in Unread(texts), p <= row.cur
               PROVE  CameLate(p) \/ LeftOver(p)' \/ (p = row.cur /\ row.off > 0)
    BY <1>1, <1>3, <1>4 DEF Behind
  <2>1. LeftOver(p) /\ ~backfill'.done /\ p <= backfill'.ceiling => LeftOver(p)'
    BY <1>1 DEF LeftOver, BackfillDone
  <2> QED BY <2>1 DEF Saved, Behind
<1>6. BackfillKept' BY <1>1, <1>3, <1>4 DEF BackfillKept, Within
<1>7. SeedRight' /\ HalfSaved'
  BY <1>1 DEF Saved, SeedRight, HalfSaved, Recovered, Pos, OldCursor, HasRow, NoRow
<1> QED BY <1>2, <1>5, <1>6, <1>7 DEF ScanTyped, Saved

LEMMA BackfillKeeps == ASSUME BatchInv, Backfill PROVE BatchInv'
<1>1. pass.at = "begin" /\ UNCHANGED <<chatSource, evidence, row>> BY DEF Backfill
<1>2. HasRow /\ row.cur \in Nat /\ Within(row.cur) BY <1>1, UnderWay DEF BatchInv
<1>3. CASE row.cur = 0 \/ BackfillDone
  <2>1. pass'.at = "open" /\ backfill' = backfill BY <1>3 DEF Backfill
  <2> QED BY <1>1, <1>2, <2>1, PassOnly, Elsewhere DEF BatchInv
<1>4. CASE ~(row.cur = 0 \/ BackfillDone)
  <2>1. PICK b : /\ b = IF backfill # None THEN backfill
                         ELSE [ceiling |-> row.cur, cur |-> 0, done |-> FALSE]
                 /\ backfill' = b
                 /\ pass' = [at |-> "quoted", began |-> pass.began, buf |-> {}, next |-> b.cur]
    BY <1>4 DEF Backfill
  <2>2. b \in BackfillRecord /\ ~b.done /\ b # None
    <3>1. CASE backfill # None
      BY <1>4, <2>1, <3>1 DEF BatchInv, ScanTyped, EvidenceTyped, BackfillDone
    <3>2. CASE backfill = None
      <4>1. b = [ceiling |-> row.cur, cur |-> 0, done |-> FALSE] BY <2>1, <3>2
      <4>2. b \in BackfillRecord /\ ~b.done BY <1>2, <4>1 DEF BackfillRecord
      <4> QED BY <4>2, BatchAssumption
    <3> QED BY <3>1, <3>2
  <2>3. Within(b.ceiling) /\ Within(b.cur)
    BY <1>2, <2>1 DEF BatchInv, Saved, BackfillKept, Within
  <2>4. \A p \in Unread(Quoted) : p <= b.cur => CameLate(p)
    <3>1. CASE backfill # None
      <4>1. b = backfill BY <2>1, <3>1
      <4> QED BY <3>1, <4>1 DEF BatchInv, Saved, BackfillKept
    <3>2. CASE backfill = None
      <4>1. b.cur = 0 BY <2>1, <3>2
      <4>2. Unread(Quoted) \subseteq Pos BY DEF BatchInv, ScanTyped, HistoryTyped, Unread, Quoted
      <4>3. Pos \subseteq Nat \ {0} BY PlacesTyped DEF BatchInv, ScanTyped
      <4>4. ASSUME NEW p \in Unread(Quoted), p <= b.cur  PROVE FALSE
        <5>1. p \in Nat \ {0} BY <4>2, <4>3
        <5>2. p <= 0 BY <4>1, <4>4
        <5> QED BY <5>1, <5>2
      <4> QED BY <4>4
    <3> QED BY <3>1, <3>2
  <2>5. \A p \in Unread(texts) : p <= row.cur /\ LeftOver(p) => p <= b.ceiling
    BY <2>1 DEF LeftOver
  <2>6. ~Recovered => OldCursor(chat.prior) <= b.ceiling
    BY <1>2, <2>1 DEF BatchInv, Saved, SeedRight
  <2>7. ScanTyped' /\ Saved'
    <3>1. ScanTyped /\ Saved BY DEF BatchInv
    <3> QED BY <1>1, <1>2, <2>1, <2>2, <2>3, <2>4, <2>5, <2>6, <3>1, BackfillMoves
  <2>8. QuotedPass'
    <3>1. \A p \in Unread(Quoted)' : p \in Unread(Quoted)
      BY <1>1 DEF Unread, Quoted, Known, Outcomes, LegacyKnown, chatSource, chatHistory, evidence
    <3>2. \A p : CameLate(p) => CameLate(p)' BY <1>1 DEF CameLate, chatSource, chatHistory
    <3>3. Within(b.cur)' BY <1>1, <2>3 DEF Within, chatSource, chatHistory
    <3>4. /\ pass' = [at |-> "quoted", began |-> pass'.began, buf |-> pass'.buf, next |-> pass'.next]
          /\ pass'.buf = {} /\ pass'.next = b.cur /\ b.cur \in Nat
      BY <2>1, <2>2 DEF BackfillRecord
    <3> QED BY <2>1, <2>2, <2>4, <3>1, <3>2, <3>3, <3>4 DEF QuotedPass
  <2>9. MainPass'
    <3>1. pass'.at = "quoted" BY <2>1
    <3> QED BY <3>1 DEF MainPass
  <2> QED BY <2>7, <2>8, <2>9 DEF BatchInv, OnTheWay
<1> QED BY <1>3, <1>4

LEMMA QuotedPageKeeps == ASSUME BatchInv, QuotedPage PROVE BatchInv'
<1>1. pass.at = "quoted" /\ pass.buf = {} /\ UNCHANGED <<chatSource, evidence, row>> BY DEF QuotedPage
<1>2. HasRow BY <1>1, UnderWay DEF BatchInv
<1>3. PICK n, g : /\ n = pass.next /\ g = pass.began
                  /\ pass = [at |-> "quoted", began |-> g, buf |-> {}, next |-> n]
                  /\ n \in Nat /\ Within(n)
                  /\ backfill \in BackfillRecord /\ backfill # None /\ ~backfill.done
                  /\ \A p \in Unread(Quoted) : p <= n => CameLate(p)
  BY <1>1 DEF BatchInv, OnTheWay, QuotedPass
<1>4. PICK c \in Nat, u \in Nat : backfill = [ceiling |-> c, cur |-> u, done |-> FALSE]
  BY <1>3 DEF BackfillRecord
<1>5. Within(c) /\ (~Recovered => OldCursor(chat.prior) <= c)
  BY <1>2, <1>3, <1>4 DEF BatchInv, Saved, BackfillKept, SeedRight
<1>6. PICK S : S = {p \in chat.quoted \cap texts : Wanted(p)} OBVIOUS
<1>7. Unread(Quoted) \subseteq S /\ S \subseteq shown /\ S \subseteq Pos /\ Pos \subseteq Nat \ {0}
      /\ Unread(Quoted) \subseteq Nat
  <2>1. HistoryTyped /\ Pos \subseteq Nat \ {0} BY PlacesTyped DEF BatchInv, ScanTyped
  <2>2. Unread(Quoted) \subseteq S BY <1>6 DEF Unread, Quoted, Wanted
  <2>3. S \subseteq texts BY <1>6
  <2> QED BY <2>1, <2>2, <2>3 DEF HistoryTyped
<1>8. PICK read : read = Page(S, n, c) OBVIOUS
<1>9. QuotedHistory(pass.next, backfill.ceiling) = read
  BY <1>3, <1>4, <1>6, <1>8 DEF QuotedHistory
<1>10. /\ read \subseteq S
       /\ \A p \in read : n < p /\ p <= c
       /\ read = {} => \A p \in S : ~(n < p /\ p <= c)
       /\ read # {} => /\ Max(read) \in read /\ \A p \in read : p <= Max(read)
                       /\ \A p \in S : n < p /\ p <= Max(read) => p \in read
  <2>1. HistoryTyped BY DEF BatchInv, ScanTyped
  <2> QED BY <1>3, <1>4, <1>7, <1>8, <2>1, PageIs
<1>11. PICK d \in BOOLEAN : d = (read = {}) OBVIOUS
<1>12. backfill' = BackfillAt(n, d)
  BY <1>3, <1>9, <1>11 DEF QuotedPage
<1>13. backfill' = [ceiling |-> c, cur |-> n, done |-> d]
  BY <1>4, <1>12 DEF BackfillAt
<1>14. backfill' \in BackfillRecord /\ backfill'.ceiling = c /\ backfill'.cur = n /\ backfill'.done = d
  BY <1>3, <1>13 DEF BackfillRecord
<1>15. ASSUME d, NEW p \in Unread(Quoted), p <= c  PROVE CameLate(p)
  <2>1. p \in S /\ p \in Nat BY <1>7
  <2>2. ~(n < p /\ p <= c) BY <1>10, <1>11, <1>15, <2>1
  <2>3. p <= n BY <1>3, <1>15, <2>1, <2>2
  <2> QED BY <1>3, <2>3
<1>16. \A p \in Unread(texts) : p <= row.cur /\ LeftOver(p) => CameLate(p) \/ (~d /\ p <= c)
  <2> SUFFICES ASSUME NEW p \in Unread(texts), LeftOver(p) PROVE CameLate(p) \/ (~d /\ p <= c)
    OBVIOUS
  <2>1. p <= c /\ p \in chat.quoted BY <1>3, <1>4 DEF LeftOver
  <2>2. p \in Unread(Quoted) BY <2>1 DEF Unread, Quoted
  <2> QED BY <1>15, <2>1, <2>2
<1>17. ScanTyped' /\ Saved'
  <2>1. ScanTyped /\ Saved BY DEF BatchInv
  <2> QED BY <1>1, <1>2, <1>3, <1>5, <1>14, <1>15, <1>16, <2>1, BackfillMoves
<1>18. CASE read = {}
  <2>1. pass'.at = "open" BY <1>9, <1>18 DEF QuotedPage
  <2> QED BY <1>17, <2>1, Elsewhere DEF BatchInv
<1>19. CASE read # {}
  <2>1. PICK use : use = {p \in read \ Known : mode = "group" \/ p \in chat.mine} OBVIOUS
  <2>2. pass' = [pass EXCEPT !.buf = use, !.next = Max(read)] BY <1>9, <1>19, <2>1 DEF QuotedPage
  <2>3. PICK x : x = Max(read) OBVIOUS
  <2>4. pass' = [at |-> "quoted", began |-> g, buf |-> use, next |-> x]
    <3>1. pass' = [pass EXCEPT !.buf = use, !.next = x] BY <2>2, <2>3
    <3>2. pass = [at |-> "quoted", began |-> g, buf |-> {}, next |-> n] BY <1>3
    <3> QED BY <3>1, <3>2
  <2>5. use \subseteq read /\ x \in read /\ (\A p \in read : p <= x)
        /\ \A p \in S : n < p /\ p <= x => p \in read
    BY <1>10, <1>19, <2>1, <2>3
  <2>6. x \in Nat /\ x \in shown BY <1>7, <1>10, <2>5
  <2>7. shown' = shown /\ Unread(Quoted)' = Unread(Quoted) /\ \A p : CameLate(p)' <=> CameLate(p)
    BY <1>1 DEF Unread, Quoted, Known, Outcomes, LegacyKnown, CameLate, chatSource, chatHistory, evidence
  <2>8. ASSUME NEW p \in Unread(Quoted), p <= x  PROVE p \in use \/ CameLate(p)
    <3>1. p \in S /\ p \in Nat BY <1>7
    <3>2. CASE p <= n BY <1>3, <3>2
    <3>3. CASE ~(p <= n)
      <4>1. p \in read BY <1>3, <2>5, <2>8, <3>1, <3>3
      <4> QED BY <2>1, <4>1 DEF Unread
    <3> QED BY <3>2, <3>3
  <2>9. Within(x)' BY <2>6, <2>7 DEF Within
  <2>10. /\ pass'.at = "quoted" /\ pass'.buf = use /\ pass'.next = x
         /\ pass' = [at |-> "quoted", began |-> pass'.began, buf |-> pass'.buf, next |-> pass'.next]
    BY <2>4
  <2>11. backfill' # None BY <1>14, BatchAssumption
  <2>12. \A p \in use : mode' = "group" \/ p \in chat'.mine BY <1>1, <2>1 DEF chatSource
  <2>13. QuotedPass'
    BY <1>7, <1>10, <1>11, <1>14, <1>19, <2>5, <2>6, <2>7, <2>8, <2>9, <2>10, <2>11, <2>12 DEF QuotedPass
  <2>14. MainPass' BY <2>10 DEF MainPass
  <2> QED BY <1>17, <2>13, <2>14 DEF BatchInv, OnTheWay
<1> QED BY <1>18, <1>19

-----------------------------------------------------------------------------
(* Windows that do not move the cursor *)

LEMMA AsideKeeps ==
    ASSUME ScanTyped, Saved, pass # NoPass, UNCHANGED chatSource,
           NEW items, items \subseteq Pos, NEW w \in Windows(items), Aside(w),
           \/ backfill' = backfill
           \/ /\ backfill' \in BackfillRecord /\ BackfillKept'
              /\ \A p : LeftOver(p) => LeftOver(p)'
    PROVE  /\ ScanTyped' /\ Saved' /\ Grows /\ NewTexts
           /\ row'.cur = row.cur /\ row'.off = row.off
           /\ covered' = covered \cup Complete(w)
<1>1. /\ chat' = chat /\ mode' = mode /\ rows' = rows /\ texts' = texts /\ shown' = shown
  BY DEF chatSource, chatHistory
<1>2. HasRow /\ IsRow(row) /\ Within(row.cur) /\ HistoryTyped /\ EvidenceTyped
  BY DEF ScanTyped, RowTyped
<1>3. CanStop(w) /\ Save(row, w, FALSE) BY DEF Aside
<1>4. /\ IsRow(row') /\ row'.cur = row.cur /\ row'.off = row.off
      /\ covered' = covered \cup Complete(w) /\ covered' \subseteq Pos
      /\ ends' \in [Pos -> Nat]
      /\ \A p \in Pos : ends'[p] <= Length(p) /\ ends[p] <= ends'[p]
      /\ \E p \in Pos : p \in covered' \/ ends'[p] > 0
  BY <1>2, <1>3, SaveIs
<1>5. Grows /\ NewTexts
  BY <1>1, <1>2, <1>4 DEF Grows, NewTexts, HistoryTyped
<1>6. Recovered' BY <1>1, <1>4 DEF Recovered, Pos
<1>7. \A p \in Unread(texts)' : p <= row'.cur =>
          CameLate(p) \/ LeftOver(p) \/ (p = row'.cur /\ row'.off > 0)
  <2>1. \A p \in Unread(texts)' : p \in Unread(texts)
    BY <1>1, <1>4 DEF Unread, Known, Outcomes, LegacyKnown
  <2> QED BY <1>2, <1>4, <2>1 DEF Saved, Behind
<1>8. row'.off > 0 /\ row'.cur \notin covered' => row'.cur \in Pos /\ ends'[row'.cur] >= row'.off
  <2> SUFFICES ASSUME row.off > 0, row.cur \notin covered
               PROVE  row.cur \in Pos /\ ends'[row.cur] >= row.off
    BY <1>4
  <2>1. row.cur \in Pos /\ ends[row.cur] >= row.off BY <1>2 DEF Saved, HalfSaved
  <2>2. ends[row.cur] \in Nat /\ ends'[row.cur] \in Nat /\ row.off \in Nat
    BY <1>2, <1>4, <2>1 DEF EvidenceTyped, IsRow
  <2>3. ends[row.cur] <= ends'[row.cur] BY <1>4, <2>1
  <2> QED BY <2>1, <2>2, <2>3
<1>9. Within(row'.cur) BY <1>2, <1>4
<1>10. ScanTyped' /\ Saved'
  BY <1>1, <1>4, <1>5, <1>6, <1>7, <1>8, <1>9, RowMoves
<1> QED BY <1>4, <1>5, <1>10

LEMMA AsideWindowKeeps == ASSUME BatchInv, AsideWindow PROVE BatchInv'
<1>1. pass.at \in {"reconcile", "recent"} /\ UNCHANGED <<chatSource, backfill>> BY DEF AsideWindow
<1>2. PICK w \in Windows(FromMissing(pass.buf)) :
         Aside(w) /\ pass' = [pass EXCEPT !.buf = RestOf(FromMissing(pass.buf), w)]
  BY DEF AsideWindow
<1>3. ScanTyped /\ Saved /\ HistoryTyped /\ pass # NoPass BY <1>1, UnderWay DEF BatchInv, ScanTyped
<1>4. pass.buf \subseteq shown /\ shown \subseteq Pos
  BY <1>1 DEF BatchInv, OnTheWay, MainPass, ScanTyped, HistoryTyped
<1>5. PICK items : items = FromMissing(pass.buf) OBVIOUS
<1>6. items \subseteq Pos /\ w \in Windows(items) /\ items \subseteq shown BY <1>2, <1>4, <1>5 DEF FromMissing
<1>7. /\ ScanTyped' /\ Saved' /\ Grows /\ NewTexts /\ row'.cur = row.cur /\ row'.off = row.off
  BY <1>1, <1>2, <1>3, <1>6, AsideKeeps
<1>8. PICK rest : rest = RestOf(items, w) OBVIOUS
<1>9. rest \subseteq shown'
  <2>1. w.last \in items BY <1>6, <1>3, PlacesTyped, WindowIs
  <2>2. rest \subseteq items BY <1>8, <2>1 DEF RestOf, After
  <2> QED BY <1>6, <1>7, <2>2 DEF Grows
<1>10. pass' = [pass EXCEPT !.buf = rest] BY <1>2, <1>5, <1>8
<1>11. PICK m : m = pass.main OBVIOUS
<1>12. IsMain(m) => IsMain(m)' BY <1>3, <1>7, MainStays
<1>13. CASE pass.at = "reconcile"
  <2>1. IsMain(m) BY <1>11, <1>13 DEF BatchInv, OnTheWay, MainPass
  <2>2. PICK b, x, v, c, s : pass = [at |-> "reconcile", main |-> m, buf |-> b, next |-> x,
                                     rev |-> v, ceiling |-> c, prefix |-> s]
    BY <1>11, <1>13 DEF BatchInv, OnTheWay, MainPass
  <2>3. pass' = [at |-> "reconcile", main |-> m, buf |-> rest, next |-> x,
                 rev |-> v, ceiling |-> c, prefix |-> s]
    BY <1>10, <2>2
  <2>4. /\ pass'.at = "reconcile" /\ pass'.main = m /\ pass'.buf = rest
        /\ pass' = [at |-> "reconcile", main |-> pass'.main, buf |-> pass'.buf, next |-> pass'.next,
                    rev |-> pass'.rev, ceiling |-> pass'.ceiling, prefix |-> pass'.prefix]
    BY <2>3
  <2>5. IsMain(pass.main)' BY <1>12, <2>1, <2>4 DEF IsMain
  <2>6. OnTheWay' BY <1>9, <2>4, <2>5 DEF OnTheWay, QuotedPass, MainPass
  <2> QED BY <1>7, <2>6 DEF BatchInv
<1>14. CASE pass.at = "recent"
  <2>1. m = NoPass \/ IsMain(m) BY <1>11, <1>14 DEF BatchInv, OnTheWay, MainPass
  <2>2. PICK b : pass = [at |-> "recent", main |-> m, buf |-> b]
    BY <1>11, <1>14 DEF BatchInv, OnTheWay, MainPass
  <2>3. pass' = [at |-> "recent", main |-> m, buf |-> rest] BY <1>10, <2>2
  <2>4. /\ pass'.at = "recent" /\ pass'.main = m /\ pass'.buf = rest
        /\ pass' = [at |-> "recent", main |-> pass'.main, buf |-> pass'.buf]
    BY <2>3
  <2>5. pass'.main = NoPass \/ IsMain(pass.main)' BY <1>12, <2>1, <2>4 DEF IsMain
  <2>6. OnTheWay' BY <1>9, <2>4, <2>5 DEF OnTheWay, QuotedPass, MainPass, NoPass
  <2> QED BY <1>7, <2>6 DEF BatchInv
<1> QED BY <1>1, <1>13, <1>14

LEMMA RunIs ==
    ASSUME HistoryTyped, NEW buf, buf \subseteq Pos, buf # {}
    PROVE  /\ QuotedRun(buf) \subseteq buf
           /\ \A p \in QuotedRun(buf) : \A q \in buf : q <= p => q \in QuotedRun(buf)
<1>1. buf \in SUBSET Nat /\ IsFiniteSet(buf) BY PlacesTyped, FS_Subset
<1>2. PICK m \in buf : m = Min(buf) /\ \A q \in buf : m <= q BY <1>1, TheFirst
<1>3. CASE m \notin chat.mine
  <2>1. QuotedRun(buf) = {m} BY <1>2, <1>3 DEF QuotedRun
  <2>2. \A q \in buf : q <= m => q = m BY <1>1, <1>2
  <2> QED BY <2>1, <2>2
<1>4. CASE m \in chat.mine
  <2>1. QuotedRun(buf) = {p \in buf : Upto(buf, p) \subseteq chat.mine} BY <1>2, <1>4 DEF QuotedRun
  <2>2. \A p, q \in buf : q <= p => Upto(buf, q) \subseteq Upto(buf, p)
    <3> SUFFICES ASSUME NEW p \in buf, NEW q \in buf, q <= p, NEW x \in Upto(buf, q)
                 PROVE  x \in Upto(buf, p)
      OBVIOUS
    <3>1. x \in buf /\ x <= q BY DEF Upto
    <3>2. x \in Nat /\ q \in Nat /\ p \in Nat BY <1>1, <3>1
    <3>3. x <= p BY <3>1, <3>2
    <3> QED BY <3>1, <3>3 DEF Upto
  <2> QED BY <2>1, <2>2
<1> QED BY <1>3, <1>4

LEMMA QuotedRefusedKeeps == ASSUME BatchInv, QuotedRefused PROVE BatchInv'
<1>1. pass' = NoPass /\ UNCHANGED <<chatSource, evidence, row, backfill>> BY DEF QuotedRefused
<1>2. pass'.at = "idle" BY <1>1 DEF NoPass
<1> QED BY <1>1, <1>2, PassOnly, Elsewhere DEF BatchInv

LEMMA QuotedWindowKeeps ==
    ASSUME BatchInv, NEW dies \in BOOLEAN, QuotedWindow(dies)
    PROVE  BatchInv'
<1>1. pass.at = "quoted" /\ pass.buf # {} /\ UNCHANGED chatSource BY DEF QuotedWindow
<1>2. PICK w \in Windows(QuotedRun(pass.buf)) :
        /\ Aside(w)
        /\ backfill' = IF dies \/ Complete(w) = {} THEN backfill
                        ELSE BackfillAt(Max(Complete(w)), FALSE)
        /\ pass' = IF dies THEN NoPass ELSE [pass EXCEPT !.buf = RestOf(pass.buf, w)]
  BY DEF QuotedWindow, QuotedWindows
<1>3. ScanTyped /\ Saved /\ HistoryTyped /\ pass # NoPass BY <1>1, UnderWay DEF BatchInv, ScanTyped
<1>4. PICK b, n, g :
        /\ pass = [at |-> "quoted", began |-> g, buf |-> b, next |-> n]
        /\ b = pass.buf /\ n \in Nat /\ Within(n) /\ b \subseteq shown /\ (\A p \in b : p <= n)
        /\ \A p \in b : mode = "group" \/ p \in chat.mine
        /\ backfill \in BackfillRecord /\ backfill # None /\ ~backfill.done
        /\ \A p \in Unread(Quoted) : p <= n => p \in b \/ CameLate(p)
  BY <1>1 DEF BatchInv, OnTheWay, QuotedPass
<1>5. PICK c \in Nat, u \in Nat : backfill = [ceiling |-> c, cur |-> u, done |-> FALSE]
  BY <1>4 DEF BackfillRecord
<1>6. shown \subseteq Pos /\ Pos \subseteq Nat \ {0} /\ IsFiniteSet(Pos) /\ b \subseteq Nat
  BY <1>3, <1>4, PlacesTyped DEF HistoryTyped
<1>7. PICK run : run = QuotedRun(b) OBVIOUS
<1>8. /\ run \subseteq b /\ run \subseteq Pos /\ run \subseteq Nat
      /\ \A p \in run : \A q \in b : q <= p => q \in run
  BY <1>1, <1>3, <1>4, <1>6, <1>7, RunIs
<1>9. w \in Windows(run) BY <1>2, <1>4, <1>7
<1>10. /\ w.last \in run /\ w.half \in BOOLEAN /\ w.items \subseteq run /\ w.last \in w.items
       /\ \A p \in run : p \in w.items <=> p <= w.last
       /\ Complete(w) \subseteq w.items
       /\ \A p \in w.items : p \in Complete(w) \/ (w.half /\ p = w.last)
       /\ w.half => w.last \notin Complete(w)
  BY <1>8, <1>9, WindowIs
<1>11. PICK done : done = Complete(w) OBVIOUS
<1>12. /\ chat' = chat /\ mode' = mode /\ rows' = rows /\ texts' = texts /\ shown' = shown
  BY <1>1 DEF chatSource, chatHistory
<1>13. covered' = covered \cup done BY <1>2, <1>11 DEF Aside, Save
<1>14. \A p \in Unread(Quoted)' : p \in Unread(Quoted) /\ p \notin done
  BY <1>12, <1>13 DEF Unread, Quoted, Known, Outcomes, LegacyKnown
<1>15. \A p : CameLate(p)' <=> CameLate(p) BY <1>12 DEF CameLate
<1>16. backfill' = backfill \/
        (/\ backfill' \in BackfillRecord /\ BackfillKept' /\ backfill' # None /\ ~backfill'.done
         /\ \A p : LeftOver(p) => LeftOver(p)')
  <2> SUFFICES ASSUME ~(dies \/ done = {})
               PROVE  /\ backfill' \in BackfillRecord /\ BackfillKept' /\ backfill' # None /\ ~backfill'.done
                      /\ \A p : LeftOver(p) => LeftOver(p)'
    BY <1>2, <1>11
  <2>1. done \in SUBSET Nat /\ IsFiniteSet(done) /\ done # {}
    BY <1>6, <1>8, <1>10, <1>11, FS_Subset
  <2>2. PICK x \in done : x = Max(done) /\ \A p \in done : p <= x BY <2>1, TheLast
  <2>3. backfill' = BackfillAt(x, FALSE) BY <1>2, <1>11, <2>2
  <2>4. backfill' = [ceiling |-> c, cur |-> x, done |-> FALSE] BY <1>5, <2>3 DEF BackfillAt
  <2>5. x \in Nat /\ x \in shown /\ x \in run BY <1>4, <1>8, <1>10, <1>11, <2>1
  <2>6. /\ backfill' \in BackfillRecord /\ backfill'.ceiling = c /\ backfill'.cur = x /\ backfill'.done = FALSE
    BY <2>4, <2>5 DEF BackfillRecord
  <2>7. backfill' # None BY <2>6, BatchAssumption
  <2>8. \A p : LeftOver(p) => LeftOver(p)' BY <1>4, <1>5, <1>12, <2>6 DEF LeftOver, BackfillDone
  <2>9. Within(c)' BY <1>3, <1>4, <1>5, <1>12 DEF Saved, BackfillKept, Within
  <2>10. Within(x)' BY <1>6, <1>12, <2>5 DEF Within
  <2>11. ASSUME NEW p \in Unread(Quoted)', p <= x  PROVE CameLate(p)'
    <3>1. p \in Unread(Quoted) /\ p \notin done BY <1>14
    <3>2. p \in Nat
      <4>1. Unread(Quoted) \subseteq shown BY <1>3 DEF Unread, Quoted, HistoryTyped
      <4> QED BY <1>6, <3>1, <4>1
    <3>3. x <= n BY <1>4, <1>8, <2>5
    <3>4. p <= n BY <1>4, <2>5, <2>11, <3>2, <3>3
    <3>5. p \notin b
      <4> SUFFICES ASSUME p \in b PROVE FALSE OBVIOUS
      <4>1. p \in run BY <1>8, <2>5, <2>11
      <4>2. x \in w.items /\ x <= w.last /\ w.last \in Nat BY <1>8, <1>10, <1>11, <2>5
      <4>3. p <= w.last BY <2>5, <2>11, <3>2, <4>2
      <4>4. p \in w.items BY <1>10, <4>1, <4>3
      <4>5. w.half /\ p = w.last BY <1>10, <1>11, <3>1, <4>4
      <4>6. x = p BY <2>5, <2>11, <3>2, <4>2, <4>5
      <4> QED BY <3>1, <4>6
    <3> QED BY <1>4, <1>15, <3>1, <3>4, <3>5
  <2>12. BackfillKept' BY <2>6, <2>9, <2>10, <2>11 DEF BackfillKept
  <2> QED BY <2>6, <2>7, <2>8, <2>12
<1>17. ScanTyped' /\ Saved'
  BY <1>1, <1>2, <1>3, <1>8, <1>9, <1>16, AsideKeeps
<1>18. CASE dies
  <2>1. pass'.at = "idle" BY <1>2, <1>18 DEF NoPass
  <2> QED BY <1>17, <2>1, Elsewhere DEF BatchInv
<1>19. CASE ~dies
  <2>1. PICK rest : rest = RestOf(b, w) OBVIOUS
  <2>2. pass' = [pass EXCEPT !.buf = rest] BY <1>2, <1>4, <1>19, <2>1
  <2>3. pass' = [at |-> "quoted", began |-> g, buf |-> rest, next |-> n] BY <1>4, <2>2
  <2>4. /\ pass'.at = "quoted" /\ pass'.buf = rest /\ pass'.next = n
        /\ pass' = [at |-> "quoted", began |-> pass'.began, buf |-> pass'.buf, next |-> pass'.next]
    BY <2>3
  <2>5. rest \subseteq b BY <1>8, <1>10, <2>1 DEF RestOf, After
  <2>6. ASSUME NEW p \in Unread(Quoted)', p <= n  PROVE p \in rest \/ CameLate(p)'
    <3>1. p \in Unread(Quoted) /\ p \notin done BY <1>14
    <3>2. CASE p \in b
      <4>1. p \in Nat /\ w.last \in Nat BY <1>6, <1>8, <1>10, <3>2
      <4>2. CASE p > w.last BY <2>1, <3>2, <4>2 DEF RestOf, After
      <4>3. CASE ~(p > w.last)
        <5>1. p <= w.last BY <4>1, <4>3
        <5>2. p \in run BY <1>8, <1>10, <3>2, <5>1
        <5>3. p \in w.items BY <1>10, <5>1, <5>2
        <5>4. w.half /\ p = w.last BY <1>10, <1>11, <3>1, <5>3
        <5> QED BY <2>1, <5>4 DEF RestOf
      <4> QED BY <4>2, <4>3
    <3>3. CASE p \notin b BY <1>4, <1>15, <2>6, <3>1, <3>3
    <3> QED BY <3>2, <3>3
  <2>7. Within(n)' BY <1>4, <1>12 DEF Within
  <2>8. backfill' \in BackfillRecord /\ backfill' # None /\ ~backfill'.done BY <1>4, <1>16
  <2>9. QuotedPass'
    BY <1>4, <1>12, <2>4, <2>5, <2>6, <2>7, <2>8 DEF QuotedPass
  <2>10. MainPass' BY <2>4 DEF MainPass
  <2> QED BY <1>17, <2>9, <2>10 DEF BatchInv, OnTheWay
<1> QED BY <1>18, <1>19

-----------------------------------------------------------------------------
(* The rest of the world, and the tables *)

LEMMA WorldKeeps == ASSUME BatchInv, Show \/ Lose \/ Recall PROVE BatchInv'
<1>1. /\ UNCHANGED <<chat, mode, row, evidence, backfill, pass>>
  BY DEF Show, Lose, Recall, Changed
<1>2. HistoryTyped BY DEF BatchInv, ScanTyped
<1>3. shown \subseteq shown' /\ NewTexts
  <2>1. CASE Show
    <3>1. PICK p \in Pos \ shown :
             /\ rows' = rows \cup {p} /\ shown' = shown \cup {p}
             /\ texts' = IF p \in chat.images THEN texts ELSE texts \cup {p}
      BY <2>1 DEF Show
    <3> QED BY <1>2, <3>1 DEF NewTexts, HistoryTyped
  <2>2. CASE Lose
    <3>1. PICK p \in texts : rows' = rows \ {p} /\ texts' = texts \ {p} /\ shown' = shown
      BY <2>2 DEF Lose
    <3> QED BY <1>2, <3>1 DEF NewTexts, HistoryTyped
  <2>3. CASE Recall
    <3>1. PICK p \in texts : texts' = texts \ {p} /\ rows' = rows /\ shown' = shown
      BY <2>3 DEF Recall
    <3> QED BY <1>2, <3>1 DEF NewTexts, HistoryTyped
  <2> QED BY <2>1, <2>2, <2>3
<1>4. /\ chat' = chat /\ mode' = mode /\ row' = row /\ backfill' = backfill /\ pass' = pass
      /\ ends' = ends /\ covered' = covered
  BY <1>1 DEF evidence
<1>5. Grows BY <1>3, <1>4 DEF Grows
<1>6. pass' # NoPass => HasRow BY <1>4 DEF BatchInv, ScanTyped, RowTyped
<1>7. ScanTyped' /\ Saved' BY <1>3, <1>4, <1>5, <1>6, SavedStays DEF BatchInv
<1>8. OnTheWay' BY <1>3, <1>4, <1>5, PassStays DEF BatchInv
<1> QED BY <1>7, <1>8 DEF BatchInv

LEMMA LoseProgressKeeps == ASSUME BatchInv, LoseProgress PROVE BatchInv'
<1>1. /\ row' = NoRow /\ pass' = NoPass /\ backfill' = backfill
      /\ chat' = chat /\ mode' = mode /\ rows' = rows /\ texts' = texts /\ shown' = shown
      /\ ends' = ends /\ covered' = covered
  BY DEF LoseProgress, chatSource, chatHistory, evidence
<1>2. ~HasRow' BY <1>1 DEF HasRow, NoRow
<1>3. ScanTyped'
  BY <1>1, <1>2 DEF BatchInv, ScanTyped, HistoryTyped, EvidenceTyped, RowTyped, Pos, Length, NoPass
<1>4. BackfillKept'
  BY <1>1 DEF BatchInv, Saved, BackfillKept, Within, Unread, Quoted, Known, Outcomes, LegacyKnown, CameLate
<1>5. SeedRight' BY <1>1, <1>2 DEF BatchInv, Saved, SeedRight, Recovered, Pos, OldCursor
<1>6. Behind' /\ HalfSaved' BY <1>2 DEF Behind, HalfSaved
<1>7. pass'.at = "idle" BY <1>1 DEF NoPass
<1> QED BY <1>3, <1>4, <1>5, <1>6, <1>7, Elsewhere DEF BatchInv, Saved

LEMMA ChatIs ==
    ASSUME HistoryTyped
    PROVE  \E m, r, l, q, i, f, k, b, c, d, n :
             chat = [mine |-> m, rest |-> r, long |-> l, quoted |-> q, images |-> i, first |-> f,
                     prior |-> [known |-> k, bare |-> b, cur |-> c, complete |-> d, skip |-> n]]
<1>1. PICK m, r, l, q, i, f, x :
        /\ chat = [mine |-> m, rest |-> r, long |-> l, quoted |-> q, images |-> i, first |-> f, prior |-> x]
        /\ x \in [known : SUBSET Places, bare : SUBSET Places, cur : Nat, complete : BOOLEAN, skip : Nat]
  BY DEF HistoryTyped, ChatRecord
<1>2. PICK k, b, c, d, n : x = [known |-> k, bare |-> b, cur |-> c, complete |-> d, skip |-> n]
  BY <1>1
<1> QED BY <1>1, <1>2

LEMMA ResetKeeps == ASSUME BatchInv, Reset PROVE BatchInv'
<1>1. HistoryTyped BY DEF BatchInv, ScanTyped
<1>2. PICK m, r, l, q, i, f, k, b, c, d, n :
        chat = [mine |-> m, rest |-> r, long |-> l, quoted |-> q, images |-> i, first |-> f,
                prior |-> [known |-> k, bare |-> b, cur |-> c, complete |-> d, skip |-> n]]
  BY <1>1, ChatIs
<1>3. /\ row' = NoRow /\ backfill' = None /\ pass' = NoPass /\ covered' = {}
      /\ ends' = [p \in Pos |-> 0]
      /\ chat' = [chat EXCEPT !.prior = [known |-> {}, bare |-> {}, cur |-> 0, complete |-> FALSE, skip |-> 0]]
      /\ mode' = mode /\ rows' = rows /\ texts' = texts /\ shown' = shown
  BY DEF Reset
<1>4. chat' = [mine |-> m, rest |-> r, long |-> l, quoted |-> q, images |-> i, first |-> f,
               prior |-> [known |-> {}, bare |-> {}, cur |-> 0, complete |-> FALSE, skip |-> 0]]
  BY <1>2, <1>3
<1>5. /\ m \in SUBSET Places /\ r \in SUBSET Places /\ l \in SUBSET Places /\ q \in SUBSET Places
      /\ i \in SUBSET Places /\ f \in SUBSET Places
  BY <1>1, <1>2 DEF HistoryTyped, ChatRecord
<1>6. chat' \in ChatRecord /\ OldCursor(chat'.prior) = 0
  BY <1>4, <1>5 DEF ChatRecord, OldCursor
<1>7. /\ chat'.mine = chat.mine /\ chat'.rest = chat.rest /\ chat'.first = chat.first
      /\ chat'.images = chat.images /\ chat'.long = chat.long
  BY <1>2, <1>4
<1>8. LegacyRight(chat')
  <2>1. \A p \in f : ~(p <= 0) BY <1>5 DEF Places
  <2> QED BY <1>1, <1>2, <1>6, <1>7, <2>1 DEF LegacyRight, HistoryTyped
<1>9. HistoryTyped' BY <1>1, <1>3, <1>6, <1>7, <1>8 DEF HistoryTyped, Pos
<1>10. Pos' = Pos /\ \A p : Length(p)' = Length(p) BY <1>7 DEF Pos, Length
<1>11. EvidenceTyped'
  <2>1. \A p \in Pos : Length(p) \in {1, 2} BY <1>1, PlacesTyped
  <2> QED BY <1>3, <1>10, <2>1 DEF EvidenceTyped
<1>12. ~HasRow' BY <1>3 DEF HasRow, NoRow
<1>13. RowTyped' BY <1>3, <1>12 DEF RowTyped, NoPass
<1>14. Saved' BY <1>3, <1>12 DEF Saved, Behind, BackfillKept, SeedRight, HalfSaved
<1>15. pass'.at = "idle" BY <1>3 DEF NoPass
<1> QED BY <1>9, <1>11, <1>13, <1>14, <1>15, Elsewhere DEF BatchInv, ScanTyped

LEMMA SeedKeeps == ASSUME BatchInv, Seed PROVE BatchInv'
<1>1. HistoryTyped /\ EvidenceTyped /\ Saved BY DEF BatchInv, ScanTyped
<1>2. PICK m, r, l, q, i, f, k, b, c, d, n :
        chat = [mine |-> m, rest |-> r, long |-> l, quoted |-> q, images |-> i, first |-> f,
                prior |-> [known |-> k, bare |-> b, cur |-> c, complete |-> d, skip |-> n]]
  BY <1>1, ChatIs
<1>3. PICK b2 : b2 = chat.prior.bare \ RecoveryRefs OBVIOUS
<1>4. chat' = [mine |-> m, rest |-> r, long |-> l, quoted |-> q, images |-> i, first |-> f,
               prior |-> [known |-> k, bare |-> b2, cur |-> c, complete |-> d, skip |-> n]]
  <2>1. chat' = [chat EXCEPT !.prior.bare = b2] BY <1>3 DEF Seed, WordsRestored
  <2> QED BY <1>2, <2>1
<1>5. /\ m \in SUBSET Places /\ r \in SUBSET Places /\ l \in SUBSET Places /\ q \in SUBSET Places
      /\ i \in SUBSET Places /\ f \in SUBSET Places /\ k \in SUBSET Places /\ b \in SUBSET Places
      /\ c \in Nat /\ d \in BOOLEAN /\ n \in Nat
  BY <1>1, <1>2 DEF HistoryTyped, ChatRecord
<1>6. b2 \in SUBSET Places BY <1>2, <1>3, <1>5
<1>7. chat' \in ChatRecord BY <1>4, <1>5, <1>6 DEF ChatRecord
<1>8. /\ chat'.mine = chat.mine /\ chat'.rest = chat.rest /\ chat'.first = chat.first
      /\ chat'.images = chat.images /\ chat'.long = chat.long /\ chat'.quoted = chat.quoted
      /\ chat'.prior.known = chat.prior.known /\ OldCursor(chat'.prior) = OldCursor(chat.prior)
  BY <1>2, <1>4 DEF OldCursor
<1>9. LegacyRight(chat') BY <1>1, <1>8 DEF LegacyRight, HistoryTyped
<1>10. /\ ~HasRow /\ mode' = mode /\ rows' = rows /\ texts' = texts /\ shown' = shown
       /\ ends' = ends /\ covered' = covered /\ backfill' = backfill /\ pass' = pass
  BY DEF Seed, chatHistory, evidence
<1>11. HistoryTyped' BY <1>1, <1>7, <1>8, <1>9, <1>10 DEF HistoryTyped, Pos
<1>12. Pos' = Pos /\ \A p : Length(p)' = Length(p) BY <1>8 DEF Pos, Length
<1>13. EvidenceTyped' BY <1>1, <1>10, <1>12 DEF EvidenceTyped
<1>14. PICK L \in Nat : L = OldCursor(chat.prior) BY <1>1, PlacesTyped
<1>15. PICK x, y : row' = [cur |-> IF Recovered THEN 0 ELSE L, off |-> 0, complete |-> x, stat |-> y]
  <2>1. PICK s : s = Seeded(L) OBVIOUS
  <2>2. PICK x : row' = [s EXCEPT !.complete = x] BY <1>14, <2>1 DEF Seed
  <2>3. PICK y : s = [cur |-> IF Recovered THEN 0 ELSE L, off |-> 0, complete |-> FALSE, stat |-> y]
    BY <2>1 DEF Seeded
  <2>4. row' = [cur |-> IF Recovered THEN 0 ELSE L, off |-> 0, complete |-> x, stat |-> y] BY <2>2, <2>3
  <2> QED BY <2>4
<1>16. IsRow(row') /\ row'.cur = (IF Recovered THEN 0 ELSE L) /\ row'.off = 0
  BY <1>14, <1>15 DEF IsRow
<1>17. L = 0 \/ \E p \in chat.first : L <= p BY <1>1, <1>14 DEF HistoryTyped, LegacyRight
<1>18. RowTyped'
  <2>1. Within(row.cur)' BY <1>1, <1>10, <1>16, <1>17 DEF Within, HistoryTyped
  <2>2. pass' = NoPass BY <1>10 DEF BatchInv, ScanTyped, RowTyped
  <2>3. IsRow(row)' BY <1>16 DEF IsRow
  <2> QED BY <2>1, <2>2, <2>3 DEF RowTyped, NoPass
<1>19. Unread(texts)' = Unread(texts) /\ Unread(Quoted)' = Unread(Quoted)
       /\ \A p : CameLate(p)' <=> CameLate(p)
  BY <1>8, <1>10 DEF Unread, Quoted, Known, Outcomes, LegacyKnown, CameLate
<1>20. BackfillKept' BY <1>1, <1>10, <1>19 DEF Saved, BackfillKept, Within
<1>21. ~Recovered /\ backfill # None => L <= backfill.ceiling /\ backfill.ceiling \in Nat
  BY <1>1, <1>14 DEF Saved, SeedRight, EvidenceTyped, BackfillRecord
<1>22. Recovered' <=> Recovered BY <1>10, <1>12 DEF Recovered
<1>23. SeedRight'
  <2>1. ~Recovered' => L <= row'.cur BY <1>14, <1>16, <1>22
  <2> QED BY <1>8, <1>10, <1>14, <1>21, <1>22, <2>1 DEF SeedRight
<1>24. ASSUME NEW p \in Unread(texts), p <= row'.cur  PROVE CameLate(p) \/ LeftOver(p)'
  <2>1. p \in texts /\ p \in shown /\ p \notin chat.images /\ p \in Nat \ {0}
    BY <1>1, PlacesTyped DEF Unread, HistoryTyped
  <2>2. ~Recovered /\ p <= L
    <3>1. CASE Recovered
      <4>1. p <= 0 BY <1>16, <1>24, <3>1
      <4> QED BY <2>1, <4>1
    <3>2. CASE ~Recovered BY <1>16, <1>24, <3>2
    <3> QED BY <3>1, <3>2
  <2>3. CASE p \notin chat.first
    <3>1. PICK z \in chat.first : L <= z BY <1>14, <1>17, <2>1, <2>2
    <3>2. z \in shown /\ z \in Nat /\ z # p BY <1>1, <2>3, PlacesTyped DEF HistoryTyped
    <3>3. z > p BY <1>14, <2>1, <2>2, <3>1, <3>2
    <3> QED BY <2>3, <3>2, <3>3 DEF CameLate
  <2>4. CASE p \in chat.first
    <3>1. p \in chat.prior.known \cup chat.quoted
      BY <1>1, <1>14, <2>1, <2>2, <2>4 DEF HistoryTyped, LegacyRight
    <3>2. p \notin chat.prior.known
      <4>1. p \notin LegacyKnown /\ (mode = "group" \/ p \in chat.mine) BY UnreadIs
      <4>2. p >= p BY <2>1
      <4> QED BY <4>1, <4>2 DEF LegacyKnown
    <3>3. p \in chat.quoted /\ p \in Unread(Quoted) BY <3>1, <3>2 DEF Unread, Quoted
    <3>4. CASE BackfillDone
      <4>1. backfill # None /\ backfill.done BY <3>4 DEF BackfillDone
      <4>2. p <= backfill.ceiling BY <1>14, <1>21, <2>1, <2>2, <4>1
      <4> QED BY <1>1, <3>3, <4>1, <4>2 DEF Saved, BackfillKept
    <3>5. CASE ~BackfillDone
      <4>1. backfill # None => p <= backfill.ceiling BY <1>14, <1>21, <2>1, <2>2
      <4> QED BY <1>8, <1>10, <3>3, <3>5, <4>1 DEF LeftOver, BackfillDone
    <3> QED BY <3>4, <3>5
  <2> QED BY <2>3, <2>4
<1>25. Behind' BY <1>19, <1>24 DEF Behind
<1>26. HalfSaved' BY <1>16 DEF HalfSaved
<1>27. pass'.at = "idle" BY <1>10 DEF BatchInv, ScanTyped, RowTyped, NoPass
<1> QED BY <1>11, <1>13, <1>18, <1>20, <1>23, <1>25, <1>26, <1>27, Elsewhere DEF BatchInv, ScanTyped, Saved

-----------------------------------------------------------------------------
(* The cursor moves *)

LEMMA FinishKeeps ==
    ASSUME BatchInv, NEW dies \in BOOLEAN, Finish(dies)
    PROVE  BatchInv'
<1>1. /\ pass.at = "main" /\ pass' = NoPass /\ row' = [row EXCEPT !.complete = TRUE]
      /\ UNCHANGED <<chatSource, evidence, backfill>>
  BY DEF Finish
<1>2. ScanTyped /\ Saved /\ HasRow /\ IsRow(row) /\ Within(row.cur) /\ pass # NoPass
  BY <1>1, UnderWay DEF BatchInv, ScanTyped, RowTyped
<1>3. IsRow(row') /\ row'.cur = row.cur /\ row'.off = row.off
  <2>1. PICK c, o, d, x : row = [cur |-> c, off |-> o, complete |-> d, stat |-> x] /\ c \in Nat /\ o \in Nat
    BY <1>2 DEF IsRow
  <2>2. row' = [cur |-> c, off |-> o, complete |-> TRUE, stat |-> x] BY <1>1, <2>1
  <2> QED BY <2>1, <2>2 DEF IsRow
<1>4. /\ chat' = chat /\ mode' = mode /\ rows' = rows /\ texts' = texts /\ shown' = shown
      /\ ends' = ends /\ covered' = covered /\ backfill' = backfill
  BY <1>1 DEF chatSource, chatHistory, evidence
<1>5. Grows BY <1>4 DEF Grows
<1>6. covered' \subseteq Pos /\ ends' \in [Pos -> Nat]
      /\ \A p \in Pos : ends'[p] <= Length(p) /\ ends[p] <= ends'[p]
  BY <1>2, <1>4 DEF ScanTyped, EvidenceTyped
<1>7. \A p \in Unread(texts)' : p <= row'.cur =>
          CameLate(p) \/ LeftOver(p) \/ (p = row'.cur /\ row'.off > 0)
  <2>1. Unread(texts)' = Unread(texts) BY <1>4 DEF Unread, Known, Outcomes, LegacyKnown
  <2> QED BY <1>2, <1>3, <2>1 DEF Saved, Behind
<1>8. row'.off > 0 /\ row'.cur \notin covered' => row'.cur \in Pos /\ ends'[row'.cur] >= row'.off
  BY <1>2, <1>3, <1>4 DEF Saved, HalfSaved
<1>9. row.cur <= row'.cur BY <1>2, <1>3 DEF IsRow
<1>10. Within(row'.cur) BY <1>2, <1>3
<1>11. ScanTyped' /\ Saved'
  BY <1>2, <1>3, <1>4, <1>5, <1>6, <1>7, <1>8, <1>9, <1>10, RowMoves
<1>12. pass'.at = "idle" BY <1>1 DEF NoPass
<1> QED BY <1>11, <1>12, Elsewhere DEF BatchInv

LEMMA MovedIs ==
    ASSUME IsRow(row), NEW p \in Nat, NEW off \in Nat
    PROVE  IsRow(MovedTo(p, off)) /\ MovedTo(p, off).cur = p /\ MovedTo(p, off).off = off
<1>1. PICK c, o, d, x : row = [cur |-> c, off |-> o, complete |-> d, stat |-> x] BY DEF IsRow
<1>2. MovedTo(p, off) = [cur |-> p, off |-> off, complete |-> FALSE, stat |-> x]
  <2>1. PICK r : r = row OBVIOUS
  <2>2. r = [cur |-> c, off |-> o, complete |-> d, stat |-> x] BY <1>1, <2>1
  <2>3. MovedTo(p, off) = [r EXCEPT !.cur = p, !.off = off, !.complete = FALSE] BY <2>1 DEF MovedTo
  <2> QED BY <2>2, <2>3
<1> QED BY <1>2 DEF IsRow

\* What holds while the texts of a page are at hand.
LEMMA AtMain ==
    ASSUME BatchInv, pass.at = "main", pass.next > 0
    PROVE  /\ ScanTyped /\ Saved /\ HistoryTyped /\ EvidenceTyped /\ pass # NoPass /\ HasRow
           /\ IsRow(row) /\ row.cur \in Nat /\ row.off \in Nat /\ Within(row.cur)
           /\ pass.cur = row.cur /\ pass.off = row.off
           /\ pass.hw \in Nat /\ pass.next \in Nat /\ Within(pass.next) /\ row.cur <= pass.next
           /\ pass.buf \subseteq shown /\ pass.buf \subseteq Pos /\ Pos \subseteq Nat \ {0}
           /\ \A p \in pass.buf : AtOrAfter(p, pass) /\ p <= pass.next
           /\ \A p \in Unread(texts) :
                AtOrAfter(p, pass) /\ p <= pass.next => p \in pass.buf \/ CameLate(p)
           /\ \A p \in Unread(texts) : p \in Pos
           /\ \E b, h, f, x, v : pass = [at |-> "main", began |-> b, cur |-> row.cur, off |-> row.off,
                                       hw |-> h, buf |-> f, next |-> x, rev |-> v]
<1>1. IsMain(pass) BY DEF BatchInv, OnTheWay, MainPass
<1>2. /\ ScanTyped /\ Saved /\ HistoryTyped /\ EvidenceTyped /\ pass # NoPass /\ HasRow
      /\ IsRow(row) /\ Within(row.cur)
  BY UnderWay DEF BatchInv, ScanTyped, RowTyped
<1>3. Pos \subseteq Nat \ {0} /\ shown \subseteq Pos /\ texts \subseteq Pos
  BY <1>2, PlacesTyped DEF HistoryTyped
<1>4. \A p \in Unread(texts) : p \in Pos BY <1>3 DEF Unread
<1>5. row.cur \in Nat /\ row.off \in Nat BY <1>2 DEF IsRow
<1>6. /\ pass.cur = row.cur /\ pass.off = row.off
      /\ pass.hw \in Nat /\ pass.next \in Nat /\ Within(pass.next) /\ row.cur <= pass.next
      /\ pass.buf \subseteq shown
      /\ \A p \in pass.buf : AtOrAfter(p, pass) /\ p <= pass.next
      /\ \A p \in Unread(texts) :
           AtOrAfter(p, pass) /\ p <= pass.next => p \in pass.buf \/ CameLate(p)
  BY <1>1 DEF IsMain
<1>7. \E b, h, f, x, v : pass = [at |-> "main", began |-> b, cur |-> row.cur, off |-> row.off,
                               hw |-> h, buf |-> f, next |-> x, rev |-> v]
  BY <1>1 DEF IsMain
<1> QED BY <1>2, <1>3, <1>4, <1>5, <1>6, <1>7

LEMMA PassedByKeeps == ASSUME BatchInv, PassedBy PROVE BatchInv'
<1>1. /\ pass.at = "main" /\ pass.next > 0 /\ Missing(pass.buf) = {}
      /\ row' = MovedTo(pass.next, 0)
      /\ pass' = [pass EXCEPT !.cur = pass.next, !.off = 0, !.buf = {}, !.next = 0]
      /\ UNCHANGED <<chatSource, evidence, backfill>>
  BY DEF PassedBy
<1>2. PICK n : n = pass.next OBVIOUS
<1>3. /\ ScanTyped /\ Saved /\ HistoryTyped /\ EvidenceTyped /\ pass # NoPass /\ HasRow
      /\ IsRow(row) /\ row.cur \in Nat /\ row.off \in Nat
      /\ pass.cur = row.cur /\ pass.off = row.off /\ pass.hw \in Nat
      /\ n \in Nat /\ Within(n) /\ row.cur <= n /\ Pos \subseteq Nat \ {0}
      /\ \A p \in Unread(texts) : AtOrAfter(p, pass) /\ p <= n => p \in pass.buf \/ CameLate(p)
      /\ \A p \in Unread(texts) : p \in Pos
      /\ \E b, h, f, x, v : pass = [at |-> "main", began |-> b, cur |-> row.cur, off |-> row.off,
                                  hw |-> h, buf |-> f, next |-> x, rev |-> v]
  BY <1>1, <1>2, AtMain
<1>4. row' = MovedTo(n, 0) /\ IsRow(row') /\ row'.cur = n /\ row'.off = 0
  BY <1>1, <1>2, <1>3, MovedIs
<1>5. /\ chat' = chat /\ mode' = mode /\ rows' = rows /\ texts' = texts /\ shown' = shown
      /\ ends' = ends /\ covered' = covered /\ backfill' = backfill
  BY <1>1 DEF chatSource, chatHistory, evidence
<1>6. Grows BY <1>5 DEF Grows
<1>7. covered' \subseteq Pos /\ ends' \in [Pos -> Nat]
      /\ \A p \in Pos : ends'[p] <= Length(p) /\ ends[p] <= ends'[p]
  BY <1>3, <1>5 DEF EvidenceTyped
<1>8. ASSUME NEW p \in Unread(texts), p <= n  PROVE CameLate(p) \/ LeftOver(p)
  <2>1. p \notin pass.buf
    <3>1. p \in pass.buf => p \in Missing(pass.buf) BY DEF Unread, Missing, Wanted
    <3> QED BY <1>1, <3>1
  <2>2. CASE AtOrAfter(p, pass) BY <1>3, <1>8, <2>1, <2>2
  <2>3. CASE ~AtOrAfter(p, pass)
    <3>1. p \in Nat BY <1>3
    <3>2. p <= row.cur /\ ~(p = row.cur /\ row.off > 0) BY <1>3, <2>3, <3>1 DEF AtOrAfter
    <3> QED BY <1>3, <3>2 DEF Saved, Behind
  <2> QED BY <2>2, <2>3
<1>9. \A p \in Unread(texts)' : p <= row'.cur =>
          CameLate(p) \/ LeftOver(p) \/ (p = row'.cur /\ row'.off > 0)
  <2>1. Unread(texts)' = Unread(texts) BY <1>5 DEF Unread, Known, Outcomes, LegacyKnown
  <2> QED BY <1>4, <1>8, <2>1
<1>10. ScanTyped' /\ Saved'
  BY <1>3, <1>4, <1>5, <1>6, <1>7, <1>9, RowMoves
<1>11. PICK b, h, f, x, v : pass = [at |-> "main", began |-> b, cur |-> row.cur, off |-> row.off,
                                   hw |-> h, buf |-> f, next |-> x, rev |-> v]
  BY <1>3
<1>12. pass' = [at |-> "main", began |-> b, cur |-> n, off |-> 0, hw |-> h, buf |-> {}, next |-> 0, rev |-> v]
  <2>1. pass' = [pass EXCEPT !.cur = n, !.off = 0, !.buf = {}, !.next = 0] BY <1>1, <1>2
  <2> QED BY <1>11, <2>1
<1>13. IsMain(pass)' /\ pass'.at = "main"
  BY <1>3, <1>4, <1>11, <1>12 DEF IsMain, Within
<1>14. OnTheWay' BY <1>13 DEF OnTheWay, QuotedPass, MainPass
<1> QED BY <1>10, <1>14 DEF BatchInv

\* The texts offered to the model: all that are missing, and nothing unread before the first.
LEMMA ItemsAre ==
    ASSUME BatchInv, pass.at = "main", pass.next > 0, Missing(pass.buf) # {}
    PROVE  \E k \in Missing(pass.buf), f \in Items :
             /\ k = Min(Missing(pass.buf)) /\ f = Min(Items)
             /\ Items \subseteq pass.buf /\ k \in Items /\ \A p \in Items : f <= p
             /\ \A p \in Missing(pass.buf) : p \in Items /\ k <= p
             /\ Start \in Nat /\ Start <= f
             /\ \/ Start = k /\ f = k
                \/ mode = "member" /\ HalfRead /\ Start = row.cur /\ (row.cur \in pass.buf => row.cur \notin Known)
             /\ mode # "member" => Start = k
<1>1. /\ HistoryTyped /\ row.cur \in Nat /\ pass.cur = row.cur
      /\ pass.buf \subseteq Pos /\ Pos \subseteq Nat \ {0}
  BY AtMain
<1>2. PICK gap : gap = Missing(pass.buf) OBVIOUS
<1>3. gap \subseteq pass.buf /\ gap \in SUBSET Nat /\ IsFiniteSet(gap) /\ gap # {}
  BY <1>1, <1>2, PlacesTyped, FS_Subset DEF Missing
<1>4. PICK k \in gap : k = Min(gap) /\ \A p \in gap : k <= p BY <1>3, TheFirst
<1>5. PICK z \in gap : z = Max(gap) /\ \A p \in gap : p <= z BY <1>3, TheLast
<1>6. \/ Start = k
      \/ mode = "member" /\ HalfRead /\ Start = row.cur /\ (row.cur \in pass.buf => row.cur \notin Known)
  BY <1>1, <1>2, <1>4 DEF Start
<1>7. HalfRead => row.cur <= k BY <1>1, <1>2, <1>4 DEF HalfRead
<1>8. Start \in Nat /\ Start <= k BY <1>1, <1>3, <1>6, <1>7
<1>9. PICK items : items = Items OBVIOUS
<1>10. items = {p \in pass.buf : p >= Start /\ (mode = "member" => p <= z)}
  BY <1>2, <1>5, <1>9 DEF Items
<1>11. gap \subseteq items
  <2> SUFFICES ASSUME NEW p \in gap PROVE p \in items OBVIOUS
  <2>1. p \in Nat /\ k \in Nat /\ k <= p /\ p <= z BY <1>3, <1>4, <1>5
  <2>2. p >= Start BY <1>8, <2>1
  <2> QED BY <1>3, <1>10, <2>1, <2>2
<1>12. items \subseteq pass.buf /\ items \in SUBSET Nat /\ IsFiniteSet(items) /\ items # {}
  BY <1>1, <1>3, <1>10, <1>11, PlacesTyped, FS_Subset
<1>13. PICK f \in items : f = Min(items) /\ \A p \in items : f <= p BY <1>12, TheFirst
<1>14. Start <= f
  <2>1. f \in Nat /\ f >= Start BY <1>10, <1>12
  <2> QED BY <1>8, <2>1
<1>15. Start = k => f = k
  <2>1. f \in Nat /\ k \in Nat /\ f <= k BY <1>3, <1>11, <1>12, <1>13
  <2> QED BY <1>14, <2>1
<1>16. mode # "member" => Start = k BY <1>2, <1>4 DEF Start
<1> QED BY <1>2, <1>4, <1>6, <1>8, <1>9, <1>11, <1>12, <1>13, <1>14, <1>15, <1>16

\* Before the first text that is offered, nothing was skipped.
LEMMA NothingBefore ==
    ASSUME BatchInv, pass.at = "main", pass.next > 0, Missing(pass.buf) # {},
           NEW p \in Unread(texts), p < Min(Items)
    PROVE  CameLate(p) \/ LeftOver(p)
<1>1. PICK k \in Missing(pass.buf), f \in Items :
        /\ f = Min(Items) /\ Items \subseteq pass.buf
        /\ \A q \in Missing(pass.buf) : q \in Items
        /\ \A q \in Items : f <= q
  BY ItemsAre
<1>2. /\ Saved /\ HasRow /\ row.cur \in Nat /\ row.off \in Nat /\ pass.cur = row.cur /\ pass.off = row.off
      /\ pass.buf \subseteq Pos /\ Pos \subseteq Nat \ {0} /\ p \in Pos /\ pass.next \in Nat
      /\ \A q \in pass.buf : AtOrAfter(q, pass) /\ q <= pass.next
      /\ AtOrAfter(p, pass) /\ p <= pass.next => p \in pass.buf \/ CameLate(p)
  BY AtMain
<1>3. f \in Nat /\ p \in Nat /\ p < f /\ f <= pass.next BY <1>1, <1>2
<1>4. p \notin pass.buf
  <2> SUFFICES ASSUME p \in pass.buf PROVE FALSE OBVIOUS
  <2>1. p \in Missing(pass.buf) BY DEF Unread, Missing, Wanted
  <2>2. f <= p BY <1>1, <2>1
  <2> QED BY <1>3, <2>2
<1>5. p <= pass.next BY <1>2, <1>3
<1>6. CASE AtOrAfter(p, pass) BY <1>2, <1>4, <1>5, <1>6
<1>7. CASE ~AtOrAfter(p, pass)
  <2>1. p <= row.cur /\ ~(p = row.cur /\ row.off > 0) BY <1>2, <1>3, <1>7 DEF AtOrAfter
  <2> QED BY <1>2, <2>1 DEF Saved, Behind
<1> QED BY <1>6, <1>7

\* A cursor that a step of the pass may save.
Safe(r) ==
    /\ IsRow(r) /\ Within(r.cur) /\ row.cur <= r.cur
    /\ r.off > 0 /\ r.cur \notin covered => r.cur \in Pos /\ ends[r.cur] >= r.off
    /\ \A p \in Unread(texts) : p <= r.cur =>
         CameLate(p) \/ LeftOver(p) \/ (p = r.cur /\ r.off > 0)

LEMMA SkippedIs ==
    ASSUME BatchInv, pass.at = "main", pass.next > 0, Missing(pass.buf) # {}
    PROVE  /\ Safe(Skipped) /\ Skipped.cur <= Min(Items)
           /\ \/ Skipped.cur < Min(Items) /\ Skipped.off = 0
              \/ Skipped = row /\ Between = {} /\ ~Stale
<1>1. PICK k \in Missing(pass.buf), f \in Items :
        /\ k = Min(Missing(pass.buf)) /\ f = Min(Items) /\ Items \subseteq pass.buf
        /\ Start \in Nat /\ Start <= f
        /\ \/ Start = k /\ f = k
           \/ mode = "member" /\ HalfRead /\ Start = row.cur /\ (row.cur \in pass.buf => row.cur \notin Known)
  BY ItemsAre
<1>2. /\ HistoryTyped /\ Saved /\ HasRow /\ IsRow(row) /\ row.cur \in Nat /\ row.off \in Nat /\ Within(row.cur)
      /\ pass.cur = row.cur /\ pass.off = row.off /\ pass.buf \subseteq shown
      /\ pass.buf \subseteq Pos /\ Pos \subseteq Nat \ {0}
      /\ \A q \in pass.buf : AtOrAfter(q, pass)
      /\ \A p \in Unread(texts) : p \in Pos
  BY AtMain
<1>3. f \in Nat \ {0} /\ AtOrAfter(f, pass) /\ k \in Nat BY <1>1, <1>2 DEF Missing
<1>4. row.cur <= f BY <1>2, <1>3 DEF AtOrAfter
<1>5. ASSUME NEW r, IsRow(r), Within(r.cur), row.cur <= r.cur, r.cur < f, r.off = 0
      PROVE  Safe(r)
  <2>1. ASSUME NEW p \in Unread(texts), p <= r.cur  PROVE CameLate(p) \/ LeftOver(p)
    <3>1. p \in Nat /\ r.cur \in Nat BY <1>2, <1>5 DEF IsRow
    <3>2. p < f BY <1>3, <1>5, <2>1, <3>1
    <3> QED BY <1>1, <3>2, NothingBefore
  <2> QED BY <1>5, <2>1 DEF Safe
<1>6. CASE Between # {}
  <2>1. PICK b : b = Between OBVIOUS
  <2>2. \A q \in b : q \in pass.buf /\ q < Start BY <2>1 DEF Between
  <2>3. b \in SUBSET Nat /\ IsFiniteSet(b) /\ b # {}
    <3>1. b \subseteq Pos BY <1>2, <2>2
    <3> QED BY <1>2, <1>6, <2>1, <3>1, PlacesTyped, FS_Subset
  <2>4. PICK q \in b : q = Max(b) BY <2>3, TheLast
  <2>5. Skipped = MovedTo(q, 0) BY <1>6, <2>1, <2>4 DEF Skipped
  <2>6. IsRow(Skipped) /\ Skipped.cur = q /\ Skipped.off = 0 BY <1>2, <2>3, <2>5, MovedIs
  <2>7. q \in Nat /\ q < f BY <1>1, <1>3, <2>2, <2>3
  <2>8. row.cur <= q
    <3>1. AtOrAfter(q, pass) BY <1>2, <2>2
    <3> QED BY <1>2, <2>7, <3>1 DEF AtOrAfter
  <2>9. Within(q)
    <3>1. q \in shown BY <1>2, <2>2
    <3> QED BY <2>7, <3>1 DEF Within
  <2>10. PICK r : r = Skipped OBVIOUS
  <2>11. Safe(r) BY <1>5, <2>6, <2>7, <2>8, <2>9, <2>10
  <2>12. q <= f BY <1>3, <2>7
  <2> QED BY <1>1, <2>6, <2>7, <2>10, <2>11, <2>12
<1>7. CASE Between = {} /\ Stale
  <2>1. Skipped = MovedTo(row.cur, 0) BY <1>2, <1>7 DEF Skipped
  <2>2. IsRow(Skipped) /\ Skipped.cur = row.cur /\ Skipped.off = 0 BY <1>2, <2>1, MovedIs
  <2>3. HalfRead /\ row.cur \in pass.buf \cap Known BY <1>2, <1>7 DEF Stale
  <2>4. f = k BY <1>1, <2>3
  <2>5. row.cur <= k /\ k \notin Known BY <1>1, <1>2, <2>3 DEF HalfRead, Missing
  <2>6. row.cur < f BY <1>2, <1>3, <2>3, <2>4, <2>5
  <2>7. PICK r : r = Skipped OBVIOUS
  <2>8. Safe(r) BY <1>2, <1>5, <2>2, <2>6, <2>7
  <2>9. row.cur <= f BY <1>4
  <2> QED BY <1>1, <2>2, <2>6, <2>7, <2>8, <2>9
<1>8. CASE Between = {} /\ ~Stale
  <2>1. Skipped = row BY <1>8 DEF Skipped
  <2>2. Safe(row)
    <3>1. row.cur <= row.cur BY <1>2
    <3> QED BY <1>2, <3>1 DEF Safe, Saved, Behind, HalfSaved
  <2> QED BY <1>1, <1>4, <1>8, <2>1, <2>2
<1> QED BY <1>6, <1>7, <1>8

LEMMA CaughtIs ==
    ASSUME BatchInv, pass.at = "main", pass.next > 0, Missing(pass.buf) # {}
    PROVE  /\ Safe(Caught(Skipped))
           /\ \/ /\ Caught(Skipped) = Skipped
                 /\ Offset(Min(Items)) > 0 =>
                      Min(Items) = Skipped.cur /\ ~(Offset(Min(Items)) > Skipped.off)
              \/ /\ Caught(Skipped).cur = Min(Items) /\ Caught(Skipped).off = Offset(Min(Items))
                 /\ Offset(Min(Items)) > 0
<1>1. PICK f \in Items : f = Min(Items) /\ Items \subseteq pass.buf BY ItemsAre
<1>2. PICK r : r = Skipped OBVIOUS
<1>3. Safe(r) /\ r.cur <= f BY <1>1, <1>2, SkippedIs
<1>4. PICK c : c = Caught(r) OBVIOUS
<1>5. c = IF Offset(f) > 0 /\ (f # r.cur \/ Offset(f) > r.off)
          THEN [r EXCEPT !.cur = f, !.off = Offset(f), !.complete = FALSE] ELSE r
  BY <1>1, <1>4 DEF Caught
<1>6. /\ EvidenceTyped /\ HistoryTyped /\ row.cur \in Nat /\ pass.buf \subseteq shown
      /\ pass.buf \subseteq Pos /\ Pos \subseteq Nat \ {0} /\ \A p \in Unread(texts) : p \in Pos
  BY AtMain
<1>7. f \in Pos /\ f \in Nat /\ f \in shown /\ Offset(f) \in Nat
      /\ (Offset(f) > 0 => f \notin covered /\ Offset(f) = ends[f])
  <2>1. f \in Pos /\ f \in Nat /\ f \in shown BY <1>1, <1>6
  <2>2. ends[f] \in Nat BY <1>6, <2>1 DEF EvidenceTyped
  <2>3. CASE f \in covered
    <3>1. Offset(f) = 0 BY <2>3 DEF Offset
    <3> QED BY <2>1, <3>1
  <2>4. CASE f \notin covered
    <3>1. Offset(f) = ends[f] BY <2>4 DEF Offset
    <3> QED BY <2>1, <2>2, <2>4, <3>1
  <2> QED BY <2>3, <2>4
<1>8. CASE Offset(f) > 0 /\ (f # r.cur \/ Offset(f) > r.off)
  <2>1. PICK x, o, d, y : r = [cur |-> x, off |-> o, complete |-> d, stat |-> y]
    BY <1>3 DEF Safe, IsRow
  <2>2. PICK n : n = Offset(f) OBVIOUS
  <2>3. c = [r EXCEPT !.cur = f, !.off = n, !.complete = FALSE] BY <1>5, <1>8, <2>2
  <2>4. c = [cur |-> f, off |-> n, complete |-> FALSE, stat |-> y] BY <2>1, <2>3
  <2>5. IsRow(c) /\ c.cur = f /\ c.off = n BY <1>7, <2>2, <2>4 DEF IsRow
  <2>6. Within(f) BY <1>7 DEF Within
  <2>7. row.cur <= f BY <1>3, <1>6, <1>7 DEF Safe, IsRow
  <2>8. ends[f] >= n /\ f \in Pos BY <1>7, <1>8, <2>2
  <2>9. ASSUME NEW p \in Unread(texts), p <= f  PROVE CameLate(p) \/ LeftOver(p) \/ (p = f /\ n > 0)
    <3>1. p \in Nat BY <1>6
    <3>2. CASE p = f BY <1>8, <2>2, <3>2
    <3>3. CASE p # f
      <4>1. p < f BY <1>7, <2>9, <3>1, <3>3
      <4> QED BY <1>1, <4>1, NothingBefore
    <3> QED BY <3>2, <3>3
  <2>10. Safe(c) BY <2>5, <2>6, <2>7, <2>8, <2>9 DEF Safe
  <2> QED BY <1>1, <1>2, <1>4, <1>8, <2>2, <2>5, <2>10
<1>9. CASE ~(Offset(f) > 0 /\ (f # r.cur \/ Offset(f) > r.off))
  <2>1. c = r BY <1>5, <1>9
  <2> QED BY <1>1, <1>2, <1>3, <1>4, <1>9, <2>1
<1> QED BY <1>8, <1>9

\* The cursor is saved, and the window is refused or the model dies.
LEMMA SafeKeeps ==
    ASSUME BatchInv, pass.at = "main", pass.next > 0, Safe(row'), pass' = NoPass,
           UNCHANGED <<chatSource, evidence, backfill>>
    PROVE  BatchInv'
<1>1. /\ chat' = chat /\ mode' = mode /\ rows' = rows /\ texts' = texts /\ shown' = shown
      /\ ends' = ends /\ covered' = covered /\ backfill' = backfill
  BY DEF chatSource, chatHistory, evidence
<1>2. ScanTyped /\ Saved /\ EvidenceTyped /\ pass # NoPass BY AtMain
<1>3. Grows BY <1>1 DEF Grows
<1>4. covered' \subseteq Pos /\ ends' \in [Pos -> Nat]
      /\ \A p \in Pos : ends'[p] <= Length(p) /\ ends[p] <= ends'[p]
  BY <1>1, <1>2 DEF EvidenceTyped
<1>5. Unread(texts)' = Unread(texts) BY <1>1 DEF Unread, Known, Outcomes, LegacyKnown
<1>6. ScanTyped' /\ Saved'
  BY <1>1, <1>2, <1>3, <1>4, <1>5, RowMoves DEF Safe
<1>7. pass'.at = "idle" BY DEF NoPass
<1> QED BY <1>6, <1>7, Elsewhere DEF BatchInv

LEMMA InferDiesKeeps == ASSUME BatchInv, InferDies PROVE BatchInv'
<1>1. /\ pass.at = "main" /\ pass.next > 0 /\ Missing(pass.buf) # {} /\ pass' = NoPass
      /\ row' \in {Skipped, Caught(Skipped)} /\ UNCHANGED <<chatSource, evidence, backfill>>
  BY DEF InferDies
<1>2. Safe(Skipped) /\ Safe(Caught(Skipped)) BY <1>1, SkippedIs, CaughtIs
<1>3. PICK r : r = row' /\ Safe(r) BY <1>1, <1>2
<1> QED BY <1>1, <1>3, SafeKeeps

LEMMA CommitKeeps ==
    ASSUME BatchInv, pass.at = "main", pass.next > 0, Missing(pass.buf) # {},
           NEW w \in Windows(Items), CanStop(w), Save(Caught(Skipped), w, TRUE),
           UNCHANGED <<chatSource, backfill>>,
           pass' = IF w.half \/ pass.next > w.last
                   THEN [pass EXCEPT !.cur = w.last, !.off = EndOf(w), !.buf = RestOf(pass.buf, w)]
                   ELSE [pass EXCEPT !.cur = w.last, !.off = EndOf(w), !.buf = {}, !.next = 0]
    PROVE  BatchInv'
<1>1. /\ chat' = chat /\ mode' = mode /\ rows' = rows /\ texts' = texts /\ shown' = shown
      /\ backfill' = backfill
  BY DEF chatSource, chatHistory
<1>2. PICK k \in Missing(pass.buf), f \in Items :
        /\ f = Min(Items) /\ Items \subseteq pass.buf
        /\ \A p \in Missing(pass.buf) : p \in Items
        /\ \A p \in Items : f <= p
  BY ItemsAre
<1>3. PICK items, n, buf : items = Items /\ n = pass.next /\ buf = pass.buf OBVIOUS
<1>4. /\ ScanTyped /\ Saved /\ HistoryTyped /\ EvidenceTyped /\ pass # NoPass
      /\ row.cur \in Nat /\ row.off \in Nat
      /\ pass.cur = row.cur /\ pass.off = row.off
      /\ pass.hw \in Nat /\ n \in Nat /\ Within(n)
      /\ buf \subseteq shown /\ buf \subseteq Pos /\ Pos \subseteq Nat \ {0}
      /\ \A p \in buf : AtOrAfter(p, pass) /\ p <= n
      /\ \A p \in Unread(texts) : AtOrAfter(p, pass) /\ p <= n => p \in buf \/ CameLate(p)
      /\ \A p \in Unread(texts) : p \in Pos
      /\ \E b, h, g, x, v : pass = [at |-> "main", began |-> b, cur |-> row.cur, off |-> row.off,
                                  hw |-> h, buf |-> g, next |-> x, rev |-> v]
  BY <1>3, AtMain
<1>5. PICK r : r = Caught(Skipped) OBVIOUS
<1>6. Safe(r) /\ IsRow(r) BY <1>5, CaughtIs DEF Safe
<1>7. items \subseteq Pos /\ items \subseteq Nat /\ w \in Windows(items) BY <1>2, <1>3, <1>4
<1>8. PICK last, half : last = w.last /\ half = w.half OBVIOUS
<1>9. /\ last \in items /\ half \in BOOLEAN /\ last \in w.items
      /\ \A p \in items : p \in w.items <=> p <= last
      /\ \A p \in w.items : p \in Complete(w) \/ (half /\ p = last)
  BY <1>7, <1>8, WindowIs
<1>10. Save(r, w, TRUE) BY <1>5
<1>11. /\ IsRow(row') /\ row'.cur = last /\ row'.off = EndOf(w)
       /\ covered' = covered \cup Complete(w) /\ covered' \subseteq Pos
       /\ ends' \in [Pos -> Nat]
       /\ \A p \in Pos : ends'[p] <= Length(p) /\ ends[p] <= ends'[p]
       /\ half => last \in covered \/ ends'[last] = 1
       /\ \E p \in Pos : p \in covered' \/ ends'[p] > 0
  BY <1>4, <1>6, <1>7, <1>8, <1>10, SaveIs
<1>12. EndOf(w) = IF half THEN 1 ELSE 0 BY <1>8 DEF EndOf
<1>13. Grows BY <1>1, <1>11 DEF Grows
<1>14. \A p \in Unread(texts)' : p \in Unread(texts) /\ p \notin Complete(w)
  BY <1>1, <1>11 DEF Unread, Known, Outcomes, LegacyKnown
<1>15. \A p \in Unread(texts) : p \in buf => p \in items
  <2>1. \A p \in Unread(texts) : p \in pass.buf => p \in Missing(pass.buf) BY DEF Unread, Missing, Wanted
  <2> QED BY <1>2, <1>3, <2>1
<1>16. last \in Nat /\ f \in Nat /\ f <= last /\ last <= n /\ last \in shown /\ last \in Pos
       /\ AtOrAfter(f, pass)
  BY <1>2, <1>3, <1>4, <1>9
<1>17. ASSUME NEW p \in Nat, f <= p  PROVE AtOrAfter(p, pass)
  BY <1>4, <1>16, <1>17 DEF AtOrAfter
<1>18. ASSUME NEW p \in Unread(texts)', p <= last
       PROVE  CameLate(p) \/ LeftOver(p) \/ (p = last /\ half)
  <2>1. p \in Unread(texts) /\ p \notin Complete(w) /\ p \in Nat BY <1>4, <1>14
  <2>2. CASE p < f BY <1>2, <2>1, <2>2, NothingBefore
  <2>3. CASE ~(p < f)
    <3>1. f <= p /\ p <= n BY <1>4, <1>16, <1>18, <2>1, <2>3
    <3>2. p \in buf \/ CameLate(p) BY <1>4, <1>17, <2>1, <3>1
    <3>3. p \in buf => p \in w.items BY <1>9, <1>15, <1>18, <2>1
    <3> QED BY <1>9, <2>1, <3>2, <3>3
  <2> QED BY <2>2, <2>3
<1>19. \A p \in Unread(texts)' : p <= row'.cur =>
           CameLate(p) \/ LeftOver(p) \/ (p = row'.cur /\ row'.off > 0)
  BY <1>11, <1>12, <1>18
<1>20. row'.off > 0 /\ row'.cur \notin covered' => row'.cur \in Pos /\ ends'[row'.cur] >= row'.off
  BY <1>11, <1>12, <1>16
<1>21. Recovered' BY <1>1, <1>11 DEF Recovered, Pos
<1>22. Within(row'.cur) BY <1>11, <1>16 DEF Within
<1>23. ScanTyped' /\ Saved'
  BY <1>1, <1>4, <1>11, <1>13, <1>19, <1>20, <1>21, <1>22, RowMoves
<1>24. PICK b, h, g, x, v : /\ pass = [at |-> "main", began |-> b, cur |-> row.cur, off |-> row.off,
                                       hw |-> h, buf |-> g, next |-> x, rev |-> v]
  BY <1>4
<1>25. h \in Nat /\ x = n BY <1>3, <1>4, <1>24
<1>26. PICK e, rest : e = EndOf(w) /\ rest = RestOf(buf, w) OBVIOUS
<1>27. CASE half \/ n > last
  <2>1. pass' = [pass EXCEPT !.cur = last, !.off = e, !.buf = rest] BY <1>3, <1>8, <1>26, <1>27
  <2>2. PICK m : m = [at |-> "main", began |-> b, cur |-> last, off |-> e, hw |-> h, buf |-> rest,
                      next |-> n, rev |-> v]
    OBVIOUS
  <2>3. pass' = m BY <1>24, <1>25, <2>1, <2>2
  <2>4. rest = IF half THEN After(buf, last) \cup {last} ELSE After(buf, last)
    BY <1>8, <1>26 DEF RestOf
  <2>5. \A p : p \in rest <=> (p \in buf /\ p > last) \/ (half /\ p = last)
    BY <2>4 DEF After
  <2>6. \A p \in Nat : AtOrAfter(p, m) <=> (last < p \/ (p = last /\ half))
    BY <1>12, <1>26, <2>2 DEF AtOrAfter
  <2>7. rest \subseteq buf
    <3>1. last \in buf BY <1>2, <1>3, <1>9
    <3> QED BY <2>5, <3>1
  <2>8. \A p \in rest : AtOrAfter(p, m) /\ p <= n
    <3> SUFFICES ASSUME NEW p \in rest PROVE AtOrAfter(p, m) /\ p <= n OBVIOUS
    <3>1. p \in buf /\ p \in Nat /\ p <= n BY <1>4, <2>7
    <3> QED BY <1>16, <2>5, <2>6, <3>1
  <2>9. ASSUME NEW p \in Unread(texts)', AtOrAfter(p, m), p <= n  PROVE p \in rest \/ CameLate(p)'
    <3>1. p \in Unread(texts) /\ p \in Nat BY <1>4, <1>14
    <3>2. last < p \/ (p = last /\ half) BY <2>6, <2>9, <3>1
    <3>3. AtOrAfter(p, pass) BY <1>16, <1>17, <3>1, <3>2
    <3>4. p \in buf \/ CameLate(p) BY <1>4, <2>9, <3>1, <3>3
    <3>5. CameLate(p)' <=> CameLate(p) BY <1>1 DEF CameLate
    <3>6. p \in buf => p \in rest BY <1>16, <2>5, <3>1, <3>2
    <3> QED BY <3>4, <3>5, <3>6
  <2>10. Within(n)' BY <1>1, <1>4 DEF Within
  <2>11. IsMain(m)'
    <3>1. /\ m = [at |-> "main", began |-> m.began, cur |-> m.cur, off |-> m.off, hw |-> m.hw,
                  buf |-> m.buf, next |-> m.next, rev |-> m.rev]
          /\ m.cur = last /\ m.off = e /\ m.next = n /\ m.hw = h /\ m.buf = rest
      BY <2>2
    <3>2. m.cur = row'.cur /\ m.off = row'.off BY <1>11, <1>26, <3>1
    <3>3. rest \subseteq shown' BY <1>1, <1>4, <2>7
    <3>4. \A p : AtOrAfter(p, m)' <=> AtOrAfter(p, m) BY DEF AtOrAfter
    <3> QED BY <1>4, <1>16, <1>25, <2>8, <2>9, <2>10, <3>1, <3>2, <3>3, <3>4 DEF IsMain
  <2>12. IsMain(pass)' /\ pass'.at = "main" BY <2>2, <2>3, <2>11 DEF IsMain
  <2>13. OnTheWay' BY <2>12 DEF OnTheWay, QuotedPass, MainPass
  <2> QED BY <1>23, <2>13 DEF BatchInv
<1>28. CASE ~(half \/ n > last)
  <2>1. pass' = [pass EXCEPT !.cur = last, !.off = e, !.buf = {}, !.next = 0] BY <1>3, <1>8, <1>26, <1>28
  <2>2. pass' = [at |-> "main", began |-> b, cur |-> last, off |-> e, hw |-> h, buf |-> {}, next |-> 0, rev |-> v]
    BY <1>24, <2>1
  <2>3. IsMain(pass)' /\ pass'.at = "main"
    <3>1. PICK m : m = [at |-> "main", began |-> b, cur |-> last, off |-> e, hw |-> h, buf |-> {},
                        next |-> 0, rev |-> v]
      OBVIOUS
    <3>2. /\ m = [at |-> "main", began |-> m.began, cur |-> m.cur, off |-> m.off, hw |-> m.hw,
                  buf |-> m.buf, next |-> m.next, rev |-> m.rev]
          /\ m.cur = row'.cur /\ m.off = row'.off /\ m.next = 0 /\ m.hw = h
      BY <1>11, <1>26, <3>1
    <3>3. IsMain(m)' BY <1>25, <3>2 DEF IsMain, Within
    <3> QED BY <2>2, <3>1, <3>3 DEF IsMain
  <2>4. OnTheWay' BY <2>3 DEF OnTheWay, QuotedPass, MainPass
  <2> QED BY <1>23, <2>4 DEF BatchInv
<1> QED BY <1>27, <1>28

LEMMA InferKeeps == ASSUME BatchInv, Infer PROVE BatchInv'
<1>1. /\ pass.at = "main" /\ pass.next > 0 /\ Missing(pass.buf) # {}
      /\ UNCHANGED <<chatSource, check, backfill, doneAt>>
  BY DEF Infer
<1>2. PICK w \in Windows(Items) : Window(w) BY DEF Infer
<1>3. CASE Refused(Caught(Skipped), w)
  <2>1. row' = Caught(Skipped) /\ pass' = NoPass /\ UNCHANGED evidence BY <1>2, <1>3 DEF Window
  <2>2. Safe(Caught(Skipped)) BY <1>1, CaughtIs
  <2>3. PICK r : r = row' /\ Safe(r) BY <2>1, <2>2
  <2> QED BY <1>1, <2>1, <2>3, SafeKeeps
<1>4. CASE ~Refused(Caught(Skipped), w)
  <2>1. /\ CanStop(w) /\ Save(Caught(Skipped), w, TRUE)
        /\ pass' = IF w.half \/ pass.next > w.last
                   THEN [pass EXCEPT !.cur = w.last, !.off = EndOf(w), !.buf = RestOf(pass.buf, w)]
                   ELSE [pass EXCEPT !.cur = w.last, !.off = EndOf(w), !.buf = {}, !.next = 0]
    BY <1>2, <1>4 DEF Window
  <2> QED BY <1>1, <2>1, CommitKeeps
<1> QED BY <1>3, <1>4

-----------------------------------------------------------------------------
(* An interrupted pass goes on *)

\* The backfill offers commit no window that begins elsewhere than the saved pieces end, but
\* for the own text of a group.
LEMMA BackfillResumes ==
    ASSUME BatchInv, pass.at = "quoted", pass.buf # {},
           NEW w \in QuotedWindows, NonContiguous(w)
    PROVE  HalfReadOwn(w.last)
<1>1. PICK b \in SUBSET Pos :
        b = pass.buf /\ b # {} /\ \A p \in b : mode = "group" \/ p \in chat.mine
  BY DEF BatchInv, ScanTyped, HistoryTyped, OnTheWay, QuotedPass
<1>2. HistoryTyped BY DEF BatchInv, ScanTyped
<1>3. b \in SUBSET Nat /\ IsFiniteSet(b) BY <1>1, <1>2, PlacesTyped, FS_Subset
<1>4. PICK m \in b : m = Min(b) /\ \A q \in b : m <= q BY <1>1, <1>3, TheFirst
<1>5. PICK run : run = QuotedRun(b) OBVIOUS
<1>6. run \subseteq b /\ run \subseteq Nat BY <1>1, <1>2, <1>3, <1>5, RunIs
<1>7. w \in Windows(run) BY <1>1, <1>5 DEF QuotedWindows
<1>8. w.last \in run /\ w.items \subseteq run BY <1>6, <1>7, WindowIs
<1>9. PICK p \in w.items : QuotedStart(p) # Offset(p) BY DEF NonContiguous
<1>10. p \notin chat.mine /\ Offset(p) # 0 BY <1>9 DEF QuotedStart
<1>11. m \notin chat.mine
  <2> SUFFICES ASSUME m \in chat.mine PROVE FALSE OBVIOUS
  <2>1. run = {q \in b : Upto(b, q) \subseteq chat.mine} BY <1>4, <1>5 DEF QuotedRun
  <2>2. p \in b /\ p \in Nat /\ Upto(b, p) \subseteq chat.mine BY <1>6, <1>8, <1>9, <2>1
  <2>3. p \in Upto(b, p) BY <2>2 DEF Upto
  <2> QED BY <1>10, <2>2, <2>3
<1>12. run = {m} BY <1>4, <1>5, <1>11 DEF QuotedRun
<1>13. p = w.last /\ p \in b BY <1>6, <1>8, <1>9, <1>12
<1>14. p \in Pos /\ p \notin covered /\ ends[p] # 0 BY <1>1, <1>10, <1>13 DEF Offset
<1>15. ends[p] \in Nat BY <1>14 DEF BatchInv, ScanTyped, EvidenceTyped
<1>16. mode = "group" BY <1>1, <1>10, <1>13
<1> QED BY <1>10, <1>13, <1>14, <1>15, <1>16 DEF HalfReadOwn

LEMMA Resumes ==
    ASSUME BatchInv, pass.at = "main", pass.next > 0, Missing(pass.buf) # {},
           NEW w \in Windows(Items), CanStop(w), ~(row.off > 0 /\ row.cur \notin pass.buf)
    PROVE  ~Refused(Caught(Skipped), w)
<1>1. PICK k \in Missing(pass.buf), f \in Items :
        /\ k = Min(Missing(pass.buf)) /\ f = Min(Items)
        /\ Items \subseteq pass.buf /\ \A p \in Items : f <= p
        /\ Start \in Nat /\ Start <= f
        /\ \/ Start = k /\ f = k
           \/ mode = "member" /\ HalfRead /\ Start = row.cur /\ (row.cur \in pass.buf => row.cur \notin Known)
        /\ mode # "member" => Start = k
  BY ItemsAre
<1>2. /\ HistoryTyped /\ EvidenceTyped /\ Saved /\ HasRow /\ row.cur \in Nat /\ row.off \in Nat
      /\ pass.cur = row.cur /\ pass.off = row.off
      /\ pass.buf \subseteq Pos /\ Pos \subseteq Nat \ {0}
      /\ \A p \in pass.buf : AtOrAfter(p, pass)
  BY AtMain
<1>3. Items \subseteq Pos /\ Items \in SUBSET Nat BY <1>1, <1>2
<1>4. PICK last, half : last = w.last /\ half = w.half OBVIOUS
<1>5. /\ last \in Items /\ half \in BOOLEAN /\ w.items \subseteq Items /\ last \in w.items
      /\ \A p \in Items : p \in w.items <=> p <= last
  BY <1>3, <1>4, WindowIs
<1>6. f \in Nat /\ f # 0 /\ f \in Pos /\ last \in Nat /\ f <= last /\ k \in Nat /\ AtOrAfter(f, pass)
  BY <1>1, <1>2, <1>3, <1>5 DEF Missing
<1>7. Min(w.items) = f
  <2>1. w.items \in SUBSET Nat /\ IsFiniteSet(w.items) /\ w.items # {}
    BY <1>2, <1>3, <1>5, PlacesTyped, FS_Subset
  <2>2. PICK m \in w.items : m = Min(w.items) /\ \A p \in w.items : m <= p BY <2>1, TheFirst
  <2>3. m <= f /\ f <= m /\ m \in Nat BY <1>1, <1>5, <1>6, <2>1, <2>2
  <2> QED BY <1>6, <2>2, <2>3
<1>8. PICK r, start, end : r = Caught(Skipped) /\ start = Offset(f) /\ end = EndOf(w) OBVIOUS
<1>9. Refused(r, w) <=>
        IF r.cur = 0 THEN start # 0
        ELSE \/ last < r.cur
             \/ last = r.cur /\ (r.off = 0 \/ (half /\ end <= r.off))
             \/ r.off > 0 /\ (f # r.cur \/ start # r.off)
             \/ r.off = 0 /\ f <= r.cur
  BY <1>4, <1>7, <1>8 DEF Refused
<1>10. half => Offset(last) = 0 BY <1>4 DEF CanStop
<1>11. start \in Nat /\ (f \notin covered => start = ends[f])
  <2>1. ends[f] \in Nat BY <1>2, <1>6 DEF EvidenceTyped
  <2>2. start = IF f \in covered THEN 0 ELSE ends[f] BY <1>8 DEF Offset
  <2> QED BY <2>1, <2>2
<1>12. half /\ last = f => start = 0 BY <1>8, <1>10
<1>21. ASSUME r.cur = f, r.off = start, start > 0 PROVE ~Refused(Caught(Skipped), w)
  <2>1. PICK c, o : c = r.cur /\ o = r.off OBVIOUS
  <2>2. c = f /\ o = start /\ c # 0 /\ o # 0 BY <1>6, <1>11, <1>21, <2>1
  <2>3. ~(half /\ last = f) BY <1>11, <1>12, <1>21
  <2>4. ~(last < c) BY <1>6, <2>2
  <2>5. ~Refused(r, w) BY <1>9, <2>1, <2>2, <2>3, <2>4
  <2> QED BY <1>8, <2>5
<1>13. PICK s : s = Skipped OBVIOUS
<1>14. /\ s.cur \in Nat /\ s.off \in Nat /\ s.cur <= f
       /\ \/ s.cur < f /\ s.off = 0
          \/ s = row /\ Between = {} /\ ~Stale
       /\ \/ r = s /\ (start > 0 => f = s.cur /\ ~(start > s.off))
          \/ r.cur = f /\ r.off = start /\ start > 0
  BY <1>1, <1>8, <1>13, SkippedIs, CaughtIs DEF Safe, IsRow
<1>15. CASE r.cur = f /\ r.off = start /\ start > 0 BY <1>15, <1>21
<1>16. CASE r = s /\ (start > 0 => f = s.cur /\ ~(start > s.off))
  <2>1. CASE s.cur < f /\ s.off = 0
    <3>1. PICK c, o : c = r.cur /\ o = r.off OBVIOUS
    <3>2. c = s.cur /\ o = s.off BY <1>16, <3>1
    <3>3. c \in Nat /\ c < f /\ o = 0 BY <1>14, <2>1, <3>2
    <3>4. start = 0 BY <1>6, <1>11, <1>16, <2>1, <3>2, <3>3
    <3>5. c < last BY <1>6, <3>3
    <3>6. ~(last < c) /\ last # c /\ ~(f <= c) BY <1>6, <3>3, <3>5
    <3>7. ~(o > 0) BY <3>3
    <3>8. ~Refused(r, w) BY <1>9, <3>1, <3>3, <3>4, <3>6, <3>7
    <3> QED BY <1>8, <3>8
  <2>2. CASE ~(s.cur < f /\ s.off = 0)
    <3>1. s = row /\ Between = {} /\ ~Stale BY <1>14, <2>2
    <3>2. row.off > 0 /\ row.cur \in pass.buf
      <4>1. row.off = 0 => row.cur < f BY <1>2, <1>6 DEF AtOrAfter
      <4>2. row.off # 0 BY <2>2, <3>1, <4>1
      <4> QED BY <1>2, <4>2
    <3>3. row.cur <= f BY <1>14, <3>1
    <3>4. row.cur <= k
      <4>1. AtOrAfter(k, pass) BY <1>1, <1>2 DEF Missing
      <4> QED BY <1>2, <1>6, <4>1 DEF AtOrAfter
    <3>5. f = row.cur /\ f \notin covered
      <4>1. CASE mode # "member"
        <5>1. Start = k /\ f = k BY <1>1, <4>1
        <5>2. ~(row.cur < k)
          <6>1. row.cur < Start => row.cur \in Between BY <3>2, <4>1 DEF Between
          <6> QED BY <3>1, <5>1, <6>1
        <5>3. k \notin covered BY <1>1 DEF Missing, Known, Outcomes
        <5> QED BY <1>2, <1>6, <3>3, <5>1, <5>2, <5>3
      <4>2. CASE mode = "member"
        <5>1. HalfRead BY <1>1, <1>2, <3>2, <3>4 DEF HalfRead
        <5>2. row.cur \notin Known BY <1>2, <3>1, <3>2, <4>2, <5>1 DEF Stale
        <5>3. Start = row.cur BY <1>2, <4>2, <5>1, <5>2 DEF Start
        <5>4. row.cur <= Max(Missing(pass.buf))
          <6>1. Missing(pass.buf) \in SUBSET Nat /\ IsFiniteSet(Missing(pass.buf))
            <7>1. Missing(pass.buf) \subseteq Pos BY <1>2 DEF Missing
            <7> QED BY <1>2, <7>1, PlacesTyped, FS_Subset
          <6>2. PICK z \in Missing(pass.buf) : z = Max(Missing(pass.buf)) /\ k <= z
            BY <6>1, TheLast
          <6>3. z \in Nat BY <6>1
          <6> QED BY <1>2, <1>6, <3>4, <6>2, <6>3
        <5>5. row.cur \in Items BY <1>2, <3>2, <5>3, <5>4 DEF Items
        <5>6. f <= row.cur BY <1>1, <5>5
        <5>7. row.cur \notin covered BY <5>2 DEF Known, Outcomes
        <5> QED BY <1>2, <1>6, <3>3, <5>6, <5>7
      <4> QED BY <4>1, <4>2
    <3>6. ends[f] >= row.off BY <1>2, <3>2, <3>5 DEF Saved, HalfSaved
    <3>7. start = row.off
      <4>1. start >= row.off /\ start > 0 BY <1>2, <1>11, <3>2, <3>5, <3>6
      <4>2. ~(start > row.off) BY <1>16, <3>1, <4>1
      <4> QED BY <1>2, <1>11, <4>1, <4>2
    <3>8. r.cur = f /\ r.off = start /\ start > 0 BY <1>2, <1>16, <3>1, <3>2, <3>5, <3>7
    <3> QED BY <1>21, <3>8
  <2> QED BY <2>1, <2>2
<1> QED BY <1>8, <1>14, <1>15, <1>16

-----------------------------------------------------------------------------
(* The theorems *)

LEMMA BatchStays == ASSUME BatchInv, [ScanNext]_scanVars PROVE BatchInv'
<1>1. CASE Seed BY <1>1, SeedKeeps
<1>2. CASE RequestPass BY <1>2, RequestPassKeeps
<1>3. CASE RequestRecent BY <1>3, RequestRecentKeeps
<1>4. CASE PassWork
  <2>1. CASE Backfill BY <2>1, BackfillKeeps
  <2>2. CASE QuotedPage BY <2>2, QuotedPageKeeps
  <2>3. CASE QuotedWindow(FALSE) BY <2>3, QuotedWindowKeeps
  <2>4. CASE OpenHistory BY <2>4, OpenHistoryKeeps
  <2>5. CASE Look BY <2>5, LookKeeps
  <2>6. CASE ReconcilePage BY <2>6, ReconcilePageKeeps
  <2>7. CASE AsideWindow BY <2>7, AsideWindowKeeps
  <2>8. CASE TakeRecent BY <2>8, TakeRecentKeeps
  <2>9. CASE RecentEnds BY <2>9, RecentEndsKeeps
  <2>10. CASE ReadPage BY <2>10, ReadPageKeeps
  <2>11. CASE PassedBy BY <2>11, PassedByKeeps
  <2>12. CASE Infer BY <2>12, InferKeeps
  <2>13. CASE Finish(FALSE) BY <2>13, FinishKeeps
  <2> QED BY <1>4, <2>1, <2>2, <2>3, <2>4, <2>5, <2>6, <2>7, <2>8, <2>9, <2>10, <2>11, <2>12, <2>13
          DEF PassWork
<1>5. CASE Die
  <2>1. CASE QuotedRefused BY <2>1, QuotedRefusedKeeps
  <2>2. CASE QuotedWindow(TRUE) BY <2>2, QuotedWindowKeeps
  <2>3. CASE InferDies BY <2>3, InferDiesKeeps
  <2>4. CASE Finish(TRUE) BY <2>4, FinishKeeps
  <2>5. CASE Drop BY <2>5, DropKeeps
  <2> QED BY <1>5, <2>1, <2>2, <2>3, <2>4, <2>5 DEF Die
<1>6. CASE Show \/ Lose \/ Recall BY <1>6, WorldKeeps
<1>7. CASE Reset BY <1>7, ResetKeeps
<1>8. CASE LoseProgress BY <1>8, LoseProgressKeeps
<1>9. CASE UNCHANGED scanVars
  <2>1. /\ UNCHANGED <<chatSource, evidence, row, backfill>> /\ pass' = pass /\ row' = row /\ backfill' = backfill
    BY <1>9 DEF scanVars, chatSource, chatHistory, evidence
  <2>2. pass' # NoPass => HasRow BY <2>1 DEF BatchInv, ScanTyped, RowTyped
  <2>3. ScanTyped' /\ Saved' BY <2>1, <2>2, PassOnly DEF BatchInv
  <2>4. Grows /\ NewTexts BY <2>1, NothingMoves DEF BatchInv
  <2>5. OnTheWay' BY <2>1, <2>4, PassStays DEF BatchInv
  <2> QED BY <2>3, <2>5 DEF BatchInv
<1> QED BY <1>1, <1>2, <1>3, <1>4, <1>5, <1>6, <1>7, <1>8, <1>9 DEF ScanNext

LEMMA BatchHolds == ScanSpec => []BatchInv
<1>1. ScanInit => BatchInv BY ScanStarts
<1>2. BatchInv /\ [ScanNext]_scanVars => BatchInv' BY BatchStays
<1> QED BY <1>1, <1>2, PTL DEF ScanSpec

\* Whatever pages, windows, interruptions, resets and changes of the history: behind the
\* saved cursor every readable text was judged, unless it came after later ones, is the one
\* being read, or is left to the backfill (incremental, infer, move_cursor, commit, seed).
THEOREM NothingSkippedAlways == ScanSpec => []NothingSkipped
<1>1. ASSUME BatchInv PROVE NothingSkipped
  <2> SUFFICES ASSUME HasRow, NEW p \in Unread(Upto(texts, row.cur))
               PROVE  CameLate(p) \/ LeftToBackfill(p) \/ (p = row.cur /\ row.off > 0)
    BY DEF NothingSkipped
  <2>1. p \in Unread(texts) /\ p <= row.cur BY DEF Unread, Upto
  <2> QED BY <1>1, <2>1 DEF BatchInv, Saved, Behind, LeftOver, LeftToBackfill
<1> QED BY <1>1, BatchHolds, PTL

\* A pass and its backfill go on from whatever an interrupted pass and the windows aside
\* left: commit accepts the next window, wherever it stops, unless the half-read text of the
\* cursor is gone, or the backfill has come to a quoted own text of a group that is half
\* read (incremental's leftmost and move, _run_quoted_backfill, commit's checks of the
\* cursor and of the pieces).
THEOREM ResumesAlways == ScanSpec => []ResumesUnlessLost
<1>1. ASSUME BatchInv PROVE ResumesUnlessLost
  BY <1>1, Resumes, BackfillResumes DEF ResumesUnlessLost
<1> QED BY <1>1, BatchHolds, PTL
=============================================================================
