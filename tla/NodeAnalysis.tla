---------------------------- MODULE NodeAnalysis ----------------------------
(***************************************************************************)
(* The channel to a Node child (src/bridge/node_analysis.py): requests go  *)
(* down as lines with an id, replies come back by id through one reader    *)
(* thread for each child, and callers wait for theirs on a condition.       *)
(*                                                                         *)
(* Waiting lets the lock go.  While a caller waits, others send requests,  *)
(* switch the local model, replace a dead child, close the channel or      *)
(* cancel it, and every wait ends at a deadline of its own.  An action is  *)
(* what a thread does from one wait to the next.  Deadlines are actions    *)
(* that may happen at any time.                                            *)
(*                                                                         *)
(* The child (src/bridge/analysis_server.ts) runs the requests of a local  *)
(* model in order; an API worker overlaps them and streams some answers.   *)
(***************************************************************************)
EXTENDS Integers, Sequences, FiniteSets

CONSTANTS
    Callers,        \* threads that use one channel
    Providers,      \* what a channel may start with: "gpu", or "api" for a worker
    Offered,        \* bound: the switches that users make
    MaxSerial,      \* bound: ids, but for those of the calls under way
    MaxProcs,       \* bound: children that are launched
    ExpiredLimit    \* how many expired ids are remembered: 256 in the code

ASSUME ChannelAssumption ==
    /\ IsFiniteSet(Callers)
    /\ Providers \subseteq {"api", "gpu"}
    /\ Offered \subseteq {"cpu", "gpu", "dir"}
    /\ MaxSerial \in Nat
    /\ MaxProcs \in Nat \ {0}
    /\ ExpiredLimit \in Nat

VARIABLES
    process,                \* the current child (0: none)
    child,                  \* what each child is doing, see Children
    cancelled,              \* children that `cancel` terminates
    inbox, outbox,          \* lines on the way to and from each child
    delivering,             \* the id whose delta each reader is passing on (0: none)
    model, requested,       \* the reported state, and the provider: an API worker's
                            \* is fixed, the local model's is what the user chose
    running,                \* running_version against the version of the bridge
    serial, pending, expired, callbacks,
    call,                   \* where each caller stands, see Calls
    forgotten,              \* history: expired ids that were forgotten
    overlapped              \* history: two switches were under way at once

wireVars == <<inbox, outbox, delivering>>
tableVars == <<serial, pending, expired, callbacks>>
statusVars == <<model, requested, running>>
historyVars == <<forgotten, overlapped>>
vars == <<process, child, cancelled, wireVars, tableVars, statusVars, call,
          historyVars>>

Procs == 1..MaxProcs
Ids == Nat \ {0}
Loaded == {"api", "cpu", "webgpu"}            \* "ready", with its provider
\* What callers ask of the model: labels, batches and forecasts of the local one, and
\* insights that an API streams.  How each checks its answer is left out: a check that
\* fails raises in the caller, who has left the channel by then.
Turns == {"turn", "stream"}
Requests == Turns \cup {"clear"}
Switches == {"cpu", "gpu", "dir"}             \* configure_runtime, configure_local_model
Commands == Requests \cup Switches \cup {"prepare"}

\* A child is launched, says "ready", ends, and its reader ends ("gone").
Children == [state : {"none", "starting", "up", "dead", "gone"}, stdin : BOOLEAN,
             fits : BOOLEAN, engine : Loaded \cup {"missing"}, wants : {"api", "cpu", "gpu"}]
NoChild == [state |-> "none", stdin |-> FALSE, fits |-> TRUE, engine |-> "missing",
            wants |-> "gpu"]

Calls == [at : {"out", "starting", "preparing", "waiting", "booting", "switching"},
          cmd : Commands, mine : Procs \cup {0}, id : Ids \cup {0}]
NoCall == [at |-> "out", cmd |-> "turn", mine |-> 0, id |-> 0]

Lines == [id : Ids, owner : Callers, cmd : Commands]
Replies == [type : {"ready", "delta", "reply"}, id : Ids \cup {0}, by : Procs,
            owner : Callers \cup {0}, cmd : Commands, ok : BOOLEAN,
            status : Loaded \cup {"missing", "none"}]

TypeOK ==
    /\ process \in Procs \cup {0}
    /\ child \in [Procs -> Children]
    /\ cancelled \subseteq Procs
    /\ inbox \in [Procs -> Seq(Lines)] /\ outbox \in [Procs -> Seq(Replies)]
    /\ delivering \in [Procs -> Ids \cup {0}]
    /\ model \in Loaded \cup {"idle", "loading", "missing", "error"}
    /\ requested \in {"api", "cpu", "gpu"}
    /\ running \in {"none", "same", "other"}
    /\ serial \in Ids \cup {0}
    /\ pending \subseteq Replies
    /\ expired \subseteq Ids /\ callbacks \subseteq Ids
    /\ call \in [Callers -> Calls]
    /\ forgotten \subseteq Ids
    /\ overlapped \in BOOLEAN

Init ==
    /\ process = 0
    /\ child = [p \in Procs |-> NoChild]
    /\ cancelled = {}
    /\ inbox = [p \in Procs |-> <<>>] /\ outbox = [p \in Procs |-> <<>>]
    /\ delivering = [p \in Procs |-> 0]
    /\ model = "idle" /\ requested \in Providers /\ running = "none"
    /\ serial = 0 /\ pending = {} /\ expired = {} /\ callbacks = {}
    /\ call = [c \in Callers |-> NoCall]
    /\ forgotten = {} /\ overlapped = FALSE

-----------------------------------------------------------------------------
(* Parts of the operations *)

\* api_only: an API worker.
ApiOnly == requested = "api"

Alive == {p \in Procs : child[p].state \in {"starting", "up"}}

\* self.process is not None and self.process.poll() is None
Usable == process \in Alive

\* A line can be written: the child reads, and nobody closed its stdin.
Writable(p) == p \in Alive /\ child[p].stdin

\* Labels and forecasts need a loaded model; API calls and cache clears do not.
NeedsModel(k) == ~ApiOnly /\ k = "turn"

\* Bound: a call sends one line, and one more when it prepares the model.
MayCall == serial + Cardinality({c \in Callers : call[c].at \in {"starting", "preparing"}})
               < MaxSerial

ResetTable ==                                                   \* mutant
    /\ serial' = 0 /\ pending' = {} /\ expired' = {} /\ callbacks' = {}

FreshTable ==
    /\ pending' = {} /\ expired' = {} /\ callbacks' = {}
    /\ UNCHANGED serial

\* _launch_locked, when there is no child or it has ended: p is the new child.
Launch(p) ==
    /\ child[p].state = "none" /\ \A q \in Procs : q < p => child[q].state # "none"
    /\ process' = p
    /\ child' = [child EXCEPT ![p] = [NoChild EXCEPT !.state = "starting", !.stdin = TRUE,
                                                     !.wants = requested]]
    /\ model' = "loading"
    /\ FreshTable
    /\ forgotten' = {} /\ overlapped' = FALSE
    /\ UNCHANGED <<cancelled, wireVars, requested, running>>

\* _launch_locked: the child cannot be started, and the call raises.  The dead child
\* stays the current one, and its reader may still have lines for the emptied table.
LaunchRaises ==
    /\ model' = "loading"
    /\ FreshTable
    /\ forgotten' = forgotten \cup expired
    /\ UNCHANGED <<process, child, cancelled, wireVars, requested, running, call, overlapped>>

\* The next line of caller c goes to child p.
Write(c, k, p) ==
    /\ serial' = serial + 1
    /\ inbox' = [inbox EXCEPT ![p] = Append(@, [id |-> serial + 1, owner |-> c, cmd |-> k])]

Starts(c, k, l, p, id) == call' = [call EXCEPT ![c] = [at |-> l, cmd |-> k, mine |-> p, id |-> id]]

Ends(c) == call' = [call EXCEPT ![c] = NoCall]

\* A write that raises has used up its id.
WriteFails(c) ==
    /\ serial' = serial + 1 /\ Ends(c)
    /\ UNCHANGED <<inbox, callbacks, overlapped>>

\* analysis_version: asked of the program on disk once, and what the child says is
\* compared with it.
SameVersion == running = "same"

\* A command that changes what the child runs is under way.
Switching == \E c \in Callers : call[c].at \in {"preparing", "switching"}

AnyVersion(k, m) == NeedsModel(k) => m \in Loaded               \* mutant

\* _request: the model and the version allow the turn.
Admitted(k, m) == (NeedsModel(k) => m \in Loaded) /\ SameVersion

\* _request: the turn itself, or an error, with the model in state m.
Submit(c, k, p, m) ==
    \/ /\ ~Admitted(k, m)
       /\ Ends(c)
       /\ UNCHANGED <<serial, inbox, callbacks, overlapped>>
    \/ /\ Admitted(k, m) /\ Writable(p)
       /\ Write(c, k, p)
       /\ callbacks' = callbacks \cup (IF k = "stream" THEN {serial'} ELSE {})
       /\ Starts(c, k, "waiting", p, serial')
       /\ UNCHANGED overlapped
    \/ Admitted(k, m) /\ ~Writable(p) /\ WriteFails(c)

\* _request: a model that failed to load is prepared once more first.
Prepares(k, p) == NeedsModel(k) /\ model \in {"missing", "error"} /\ p \in Alive

Prepare(c, k, p) ==
    \/ /\ Writable(p)
       /\ Write(c, "prepare", p)
       /\ Starts(c, k, "preparing", p, serial')
       /\ overlapped' = (overlapped \/ Switching)
       /\ UNCHANGED callbacks
    \/ ~Writable(p) /\ WriteFails(c)

\* _request, once the model is not loading any more.
Onward(c, k, p) ==
    /\ \/ Prepares(k, p) /\ Prepare(c, k, p)
       \/ ~Prepares(k, p) /\ Submit(c, k, p, model)
    /\ UNCHANGED <<process, child, cancelled, outbox, delivering, pending, expired,
                   statusVars, forgotten>>

-----------------------------------------------------------------------------
(* _request *)

\* A request begins; clear_caches asks only a child that runs.
Call(c, k) ==
    /\ call[c].at = "out" /\ MayCall
    /\ k \in IF ApiOnly THEN Turns ELSE {"turn", "clear"}
    /\ \/ /\ ~Usable /\ k # "clear"
          /\ \/ \E p \in Procs : Launch(p) /\ Starts(c, k, "starting", p, 0)
             \/ LaunchRaises
       \/ /\ Usable /\ model = "loading"
          /\ Starts(c, k, "starting", process, 0)
          /\ UNCHANGED <<process, child, cancelled, wireVars, tableVars, statusVars,
                         historyVars>>
       \/ Usable /\ model # "loading" /\ Onward(c, k, process)

\* The startup wait of an API call ended on a child that is not the current one.
Replaced(c) == ApiOnly /\ process # call[c].mine

\* Caller c returns, and only what is not named here may change besides.
Leaves(c) ==
    /\ Ends(c)
    /\ UNCHANGED <<process, child, cancelled, wireVars, serial, requested, running,
                   overlapped>>

\* The startup wait ends: the child answered, ended, or is not the current one.
Proceed(c) ==
    /\ call[c].at = "starting"
    /\ \/ /\ model # "loading" /\ ~Replaced(c)
          /\ Onward(c, call[c].cmd, call[c].mine)
       \/ /\ IF model = "loading" THEN call[c].mine \notin Alive \/ process # call[c].mine
                                  ELSE Replaced(c)
          /\ Leaves(c)
          /\ UNCHANGED <<model, pending, expired, callbacks, forgotten>>

StartupTimeout(c) ==
    /\ call[c].at = "starting" /\ model = "loading"
    /\ Leaves(c)
    /\ UNCHANGED <<model, pending, expired, callbacks, forgotten>>

\* The reply that caller c waits for, if it is there.
ReplyFor(c) == {r \in pending : r.id = call[c].id}

\* The model was prepared: the turn goes on with what the child answered.
Prepared(c) ==
    /\ call[c].at = "preparing"
    /\ \E r \in ReplyFor(c) :
        /\ pending' = pending \ {r}
        /\ model' = r.status
        /\ Submit(c, call[c].cmd, call[c].mine, r.status)
    /\ UNCHANGED <<process, child, cancelled, outbox, delivering, expired,
                   requested, running, forgotten>>

\* No answer to the preparation: the turn fails.
PrepareFails(c) ==
    /\ call[c].at = "preparing" /\ ReplyFor(c) = {}
    /\ model' = "error"
    /\ Leaves(c)
    /\ UNCHANGED <<pending, expired, callbacks, forgotten>>

PrepareLost(c) == call[c].mine \notin Alive /\ PrepareFails(c)
PrepareTimeout(c) == call[c].mine \in Alive /\ PrepareFails(c)

\* The turn is answered, with a result or an error.
Answered(c) ==
    /\ call[c].at = "waiting"
    /\ \E r \in ReplyFor(c) : pending' = pending \ {r}
    /\ callbacks' = callbacks \ {call[c].id}
    /\ Leaves(c)
    /\ UNCHANGED <<model, expired, forgotten>>

ForgetsExpiry(id) ==                                            \* mutant
    UNCHANGED <<expired, forgotten>>

\* The id is remembered, so that its late reply is dropped; at the limit all are forgotten.
Expire(id) ==
    LET ids == expired \cup {id}
        full == Cardinality(ids) > ExpiredLimit
    IN  /\ expired' = IF full THEN {} ELSE ids
        /\ forgotten' = IF full THEN forgotten \cup ids ELSE forgotten

\* The turn stays without an answer.
TurnFails(c) ==
    /\ call[c].at = "waiting" /\ ReplyFor(c) = {}
    /\ callbacks' = callbacks \ {call[c].id}
    /\ Expire(call[c].id)
    /\ Leaves(c)
    /\ UNCHANGED <<model, pending>>

TurnLost(c) == call[c].mine \notin Alive /\ TurnFails(c)
TurnTimeout(c) == call[c].mine \in Alive /\ TurnFails(c)

-----------------------------------------------------------------------------
(* configure_runtime and configure_local_model *)

\* The child already runs on the chosen provider.
UpToDate(k) ==
    /\ requested = k
    /\ model = IF k = "cpu" THEN "cpu" ELSE "webgpu"

\* Without a child, a new provider is saved for the next one, and a new
\* directory starts one; otherwise the child is told.
Switch(c, k) ==
    /\ ~ApiOnly /\ call[c].at = "out" /\ MayCall
    /\ k \in Offered /\ ~UpToDate(k)
    /\ \/ /\ ~Usable /\ k = "dir"
          /\ \/ \E p \in Procs : Launch(p) /\ Starts(c, k, "booting", 0, 0)
             \/ LaunchRaises
       \/ /\ ~Usable /\ k # "dir"
          /\ requested' = k /\ model' = "idle"
          /\ UNCHANGED <<process, child, cancelled, wireVars, tableVars, running, call,
                         historyVars>>
       \/ /\ Usable
          /\ requested' = IF k = "dir" THEN requested ELSE k
          /\ model' = "loading"
          /\ Write(c, k, process)
          /\ Starts(c, k, "switching", 0, serial')
          /\ overlapped' = (overlapped \/ Switching)
          /\ UNCHANGED <<process, child, cancelled, outbox, delivering, pending, expired,
                         callbacks, running, forgotten>>

\* configure_local_model: the child it launched has loaded, failed or ended.
Booted(c) ==
    /\ call[c].at = "booting" /\ model # "loading"
    /\ Leaves(c)
    /\ UNCHANGED <<model, pending, expired, callbacks, forgotten>>

BootTimeout(c) ==
    /\ call[c].at = "booting" /\ model = "loading"
    /\ Leaves(c)
    /\ UNCHANGED <<model, pending, expired, callbacks, forgotten>>

\* The child has switched: its answer becomes the state.
Switched(c) ==
    /\ call[c].at = "switching"
    /\ \E r \in ReplyFor(c) :
        /\ pending' = pending \ {r}
        /\ model' = IF r.ok THEN r.status ELSE "error"
    /\ Leaves(c)
    /\ UNCHANGED <<expired, callbacks, forgotten>>

\* No answer: the current child has ended (SwitchLost), the channel was closed and
\* None has no poll, which raises (SwitchRaises), or the deadline has passed.
SwitchFails(c, state) ==
    /\ call[c].at = "switching" /\ ReplyFor(c) = {}
    /\ model' = state
    /\ Leaves(c)
    /\ UNCHANGED <<pending, expired, callbacks, forgotten>>

SwitchLost(c) == process # 0 /\ ~Usable /\ SwitchFails(c, "error")
SwitchRaises(c) == process = 0 /\ SwitchFails(c, model)
SwitchTimeout(c) == Usable /\ SwitchFails(c, "error")

-----------------------------------------------------------------------------
(* _read, the reader thread of each child *)

\* A local child reports its model with most replies.
Reports(r) == ~ApiOnly /\ r.cmd # "prepare" /\ r.status # "none"

DeltaEnds(r) == r.type \in {"reply", "delta"}                   \* mutant

\* Only the final reply of a request may end it.
IsFinal(r) == r.type = "reply"

\* A line of the current child.
Take(p, r) ==
    \/ /\ r.type = "ready"
       /\ model' = IF r.ok THEN r.status ELSE "error"
       /\ running' = IF r.ok THEN "same" ELSE "other"
       /\ UNCHANGED <<delivering, pending, expired>>
    \/ /\ r.type = "delta" /\ ~IsFinal(r)
       /\ delivering' = [delivering EXCEPT ![p] = IF r.id \in callbacks THEN r.id ELSE 0]
       /\ UNCHANGED <<model, running, pending, expired>>
    \/ /\ IsFinal(r)
       /\ model' = IF Reports(r) THEN r.status ELSE model
       /\ expired' = expired \ {r.id}
       /\ pending' = IF r.id \in expired THEN pending ELSE pending \cup {r}
       /\ UNCHANGED <<running, delivering>>

AnyReader(p) == TRUE                                            \* mutant

\* self.process is process: lines of a child that was replaced are dropped.
IsCurrent(p) == process = p

ReadsOn(p) == TRUE                                              \* mutant

\* The reader is not inside a callback.
Free(p) == delivering[p] = 0

Read(p) ==
    /\ outbox[p] # <<>> /\ Free(p)
    /\ outbox' = [outbox EXCEPT ![p] = Tail(@)]
    /\ \/ IsCurrent(p) /\ Take(p, Head(outbox[p]))
       \/ ~IsCurrent(p) /\ UNCHANGED <<model, running, delivering, pending, expired>>
    /\ UNCHANGED <<process, child, cancelled, inbox, requested, serial, callbacks,
                   call, historyVars>>

\* The callback has run, outside the lock.
PassOn(p) ==
    /\ delivering[p] # 0
    /\ delivering' = [delivering EXCEPT ![p] = 0]
    /\ UNCHANGED <<process, child, cancelled, inbox, outbox, tableVars, statusVars,
                   call, historyVars>>

\* Everything was read, and the child has ended.
EndOfFile(p) ==
    /\ child[p].state = "dead" /\ outbox[p] = <<>> /\ delivering[p] = 0
    /\ child' = [child EXCEPT ![p].state = "gone"]
    /\ model' = IF IsCurrent(p) THEN "error" ELSE model
    /\ UNCHANGED <<process, cancelled, wireVars, tableVars, requested, running,
                   call, historyVars>>

-----------------------------------------------------------------------------
(* close and cancel *)

\* close: stdin is closed and the child given up.  A parked local worker may be
\* closed at any time; an API channel only when its callers have returned.
Close ==
    /\ ApiOnly => \A c \in Callers : call[c].at = "out"
    /\ process' = 0 /\ model' = "idle"
    /\ child' = [p \in Procs |-> [child[p] EXCEPT !.stdin = @ /\ p # process]]
    /\ UNCHANGED <<cancelled, wireVars, tableVars, requested, running, call,
                   historyVars>>

KeptPending == UNCHANGED pending                                \* mutant

DropPending == pending' = {}

\* cancel: the model source has changed, the child is terminated.
Cancel ==
    /\ ApiOnly
    /\ process' = 0 /\ model' = "idle"
    /\ cancelled' = cancelled \cup ({process} \ {0})
    /\ DropPending
    /\ UNCHANGED <<child, wireVars, serial, expired, callbacks, requested, running,
                   call, historyVars>>

-----------------------------------------------------------------------------
(* The child *)

\* What loading the model may come to; the GPU may fall back to the CPU.
Outcomes(provider) ==
    IF provider = "api" THEN {"api"}
    ELSE {"cpu", "missing"} \cup (IF provider = "gpu" THEN {"webgpu"} ELSE {})

\* The child has loaded its model and says so, with its version, which is another
\* one than the bridge's after the program was updated under it.
Boot(p) ==
    /\ child[p].state = "starting" /\ p = process
    /\ \E engine \in Outcomes(child[p].wants), same \in BOOLEAN :
        /\ child' = [child EXCEPT ![p].state = "up", ![p].engine = engine, ![p].fits = same]
        /\ outbox' = [outbox EXCEPT ![p] = Append(@,
                [type |-> "ready", id |-> 0, by |-> p, owner |-> 0, cmd |-> "prepare",
                 ok |-> same, status |-> engine])]
    /\ UNCHANGED <<process, cancelled, inbox, delivering, tableVars, statusVars,
                   call, historyVars>>

\* What a command may do to a child that runs engine: [engine, ok, status].  An
\* answer in another version is an error too.
Effects(cmd, engine, wants) ==
    CASE cmd = "prepare" ->
            {[engine |-> e, ok |-> TRUE, status |-> e] :
                e \in IF engine \in Loaded THEN {engine} ELSE Outcomes(wants)}
      [] cmd \in Switches ->
            {[engine |-> e, ok |-> TRUE, status |-> e] : e \in Outcomes(wants)}
                \cup {[engine |-> "missing", ok |-> FALSE, status |-> "missing"]}
      [] OTHER ->
            {[engine |-> engine, ok |-> engine \in Loaded,
              status |-> IF cmd = "turn" /\ engine \in Loaded \ {"api"} THEN engine
                                                                    ELSE "none"]}

\* A line is answered; only an API worker answers out of order.  What a child
\* says after it was given up is never used, so it does not say it.
Serve(p) ==
    /\ child[p].state = "up" /\ p = process
    /\ \E i \in 1..Len(inbox[p]) :
        LET line == inbox[p][i]
            wants == IF line.cmd \in {"cpu", "gpu"} THEN line.cmd ELSE child[p].wants
        IN  /\ i = 1 \/ ApiOnly
            /\ inbox' = [inbox EXCEPT ![p] = SubSeq(@, 1, i - 1) \o SubSeq(@, i + 1, Len(@))]
            /\ \E e \in Effects(line.cmd, child[p].engine, wants) :
                /\ child' = [child EXCEPT ![p].engine = e.engine, ![p].wants = wants]
                /\ outbox' = [outbox EXCEPT ![p] = Append(@,
                        [type |-> "reply", id |-> line.id, by |-> p, owner |-> line.owner,
                         cmd |-> line.cmd, ok |-> e.ok /\ child[p].fits, status |-> e.status])]
    /\ UNCHANGED <<process, cancelled, delivering, tableVars, statusVars, call,
                   historyVars>>

\* Part of an answer is streamed; one part is on the way at a time.
Stream(p) ==
    /\ child[p].state = "up" /\ p = process
    /\ \E i \in 1..Len(inbox[p]) :
        LET line == inbox[p][i]
        IN  /\ line.cmd = "stream"
            /\ \A j \in 1..Len(outbox[p]) : outbox[p][j].id # line.id
            /\ outbox' = [outbox EXCEPT ![p] = Append(@,
                    [type |-> "delta", id |-> line.id, by |-> p, owner |-> line.owner,
                     cmd |-> line.cmd, ok |-> TRUE, status |-> "none"])]
    /\ UNCHANGED <<process, child, cancelled, inbox, delivering, tableVars,
                   statusVars, call, historyVars>>

\* Child p ends; what it had not read is lost.
Stops(p) ==
    /\ child' = [child EXCEPT ![p] = [NoChild EXCEPT !.state = "dead"]]
    /\ inbox' = [inbox EXCEPT ![p] = <<>>]
    /\ UNCHANGED <<process, cancelled, outbox, delivering, tableVars, statusVars,
                   call, historyVars>>

\* close: its stdin is closed, and it ends by itself or is terminated after 10 seconds.
Dismissed(p) == ~child[p].stdin

\* cancel: it is terminated at once, and killed after 2 seconds.
Terminated(p) == p \in cancelled

Exit(p) == p \in Alive /\ (Dismissed(p) \/ Terminated(p)) /\ Stops(p)

\* It breaks down.
Die(p) == p \in Alive /\ ~Dismissed(p) /\ ~Terminated(p) /\ Stops(p)

-----------------------------------------------------------------------------
\* A caller that can go on without its deadline.  A switch cannot when another
\* caller has replaced its child: only its deadline ends it then.
Wakes(c) ==
    Proceed(c) \/ Prepared(c) \/ PrepareLost(c) \/ Answered(c) \/ TurnLost(c)
        \/ Booted(c) \/ Switched(c) \/ SwitchLost(c) \/ SwitchRaises(c)

TimesOut(c) ==
    StartupTimeout(c) \/ PrepareTimeout(c) \/ TurnTimeout(c) \/ BootTimeout(c)
        \/ SwitchTimeout(c)

Begins(c) == (\E k \in Requests : Call(c, k)) \/ (\E k \in Switches : Switch(c, k))

Reader(p) == Read(p) \/ PassOn(p) \/ EndOfFile(p)

Next ==
    \/ \E c \in Callers : Begins(c) \/ Wakes(c) \/ TimesOut(c)
    \/ \E p \in Procs : Reader(p) \/ Boot(p) \/ Serve(p) \/ Stream(p) \/ Exit(p) \/ Die(p)
    \/ Close \/ Cancel

Spec == Init /\ [][Next]_vars

-----------------------------------------------------------------------------
(* Properties *)

\* A reply that a caller finds under its id is the final one, to the command it
\* sent, from the child it sent it to: ids are never used again, not even when
\* a child is replaced, and a streamed part never stands for the answer (32-34).
AnswersMatch ==
    \A c \in Callers : \A r \in ReplyFor(c) :
        /\ r.type = "reply" /\ r.owner = c
        /\ r.cmd = IF call[c].at = "preparing" THEN "prepare" ELSE call[c].cmd
        /\ call[c].at \in {"preparing", "waiting"} => r.by = call[c].mine

\* Nobody sends a turn to a child whose version differs from the bridge's
\* (running_version, 193-195 and 255), whatever was running before it.
RightVersion ==
    \A p \in Procs : \A i \in 1..Len(inbox[p]) :
        inbox[p][i].cmd \in Turns => child[p].fits

\* A reply that came after its turn gave up does not stay in the table, unless
\* the set of expired ids was emptied in between, at its limit or by a launch that
\* failed (213-216, 279-284 and 72-74).
NoOrphans ==
    \A r \in pending :
        r.cmd \in Requests => r.id \in forgotten \/ \E c \in Callers : call[c].id = r.id

\* A callback never runs for a turn that already has its answer, although it
\* runs without the lock (202, 219-221).
DeltasComeFirst ==
    /\ \A c \in Callers : ReplyFor(c) # {} => \A p \in Procs : delivering[p] # call[c].id
    /\ \A id \in callbacks : \E c \in Callers : call[c].id = id

\* Whatever the child answers, and however late, reaches the request it was made
\* for, from a child of the bridge's own version, or nobody; and a turn that is over
\* leaves no reply in the table and no callback on its way to a caller who has gone
\* on (185-226 and 232-290).
RepliesFit == TypeOK /\ AnswersMatch /\ RightVersion /\ NoOrphans /\ DeltasComeFirst

\* The channel is at rest: everything sent was answered and taken.
AtRest ==
    /\ Usable /\ child[process].state = "up"
    /\ inbox[process] = <<>> /\ outbox[process] = <<>>
    /\ \A c \in Callers : call[c].at \notin {"preparing", "switching"}

\* At rest, a model that is reported as loaded is the one the child runs, with
\* its provider, as long as no two switches were under way at once: late
\* replies, timeouts and replaced children leave no stale state behind
\* (runtime_status, 62-67).
StatusIsTrue ==
    AtRest /\ ~overlapped /\ model \in Loaded => model = child[process].engine

\* Once a worker was cancelled, nobody sends it a turn, and nobody takes an
\* answer that it gave: the model source has changed (247-250, 552-563).
CancelIsFinal ==
    [][/\ \A p \in cancelled : Len(inbox'[p]) <= Len(inbox[p])
       /\ \A c \in Callers :
            call[c].at = "waiting" /\ ReplyFor(c) # {} /\ call'[c].at = "out"
                => call[c].mine \notin cancelled
      ]_vars

=============================================================================
