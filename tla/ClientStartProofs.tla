------------------------- MODULE ClientStartProofs -------------------------
(***************************************************************************)
(* Proofs about ClientStart, for any instances, launchers and bridges and  *)
(* any number of starts, crashes, hangs and kills.                         *)
(***************************************************************************)
EXTENDS ClientStart, FiniteSetTheorems, TLAPS

-----------------------------------------------------------------------------
(* The inductive invariant *)

Outside == {"idle", "admit", "mark", "mutex"}
Starting == {"record", "wait", "latch", "abort", "abort kill"}
WithBridge == Starting \cup {"rescan", "unlink", "exit", "stop kill"}
Stages == Outside \cup WithBridge \cup {"mark again", "health", "records", "spawn", "look"}
Waiting == {"starting", "open", "updating", "quitting", "restoring"}
Serving == {"booting", "ready", "hung"}

BridgeRecord ==
    [st : {"none", "booting", "ready", "hung", "closing", "clearing", "cleared", "resumed", "dead"},
     worker : BOOLEAN, of : Instances, reused : BOOLEAN]
RunRecord ==
    [stage : Stages, cmd : {"start", "stop", "recovery"}, of : Instances, child : BOOLEAN,
     reg : BOOLEAN, b : Bridges \cup {None}, kids : SUBSET Bridges]
ShellRecord ==
    [st : Waiting \cup {"off", "opening", "stopped", "handoff"}, reg : BOOLEAN, created : BOOLEAN]

Typed ==
    /\ bridge \in [Bridges -> BridgeRecord]
    /\ record \subseteq Bridges /\ owned \subseteq Bridges
    /\ lost \subseteq Instances /\ marker \subseteq Instances
    /\ mutex \in [Instances -> Launchers \cup {None}]
    /\ run \in [Launchers -> RunRecord]
    /\ shell \in [Instances -> ShellRecord]
    /\ helper \in {"none", "born", "claimed"}

\* The mutex of an instance is held by the one launcher that is past taking it.
Inside(l) == run[l].stage \notin Outside
Held ==
    /\ \A l \in Launchers : Inside(l) => mutex[run[l].of] = l
    /\ \A i \in Instances, l \in Launchers : mutex[i] = l => run[l].of = i /\ Inside(l)

\* What a launcher knows of its bridge: it starts none as long as a recorded one
\* runs, and has ended it, worker and all, before it removes its record.
Knows(l) ==
    LET b == run[l].b
        i == run[l].of
    IN  /\ b # None <=> run[l].stage \in WithBridge
        /\ b # None => bridge[b].of = i /\ bridge[b].st # "none"
        /\ run[l].stage = "spawn" => LiveRecords(i) = {}
        /\ run[l].stage = "record" => b \notin owned /\ LiveRecords(i) = {}
        /\ b # None /\ run[l].stage # "record" => b \in owned
        /\ run[l].stage \in {"rescan", "unlink"} => ~Alive(b)
        /\ run[l].stage = "unlink" => ~bridge[b].worker
Known == \A l \in Launchers : Knows(l)

\* Records outlive what they are the only trace of, one running bridge each.
Traced ==
    /\ record \subseteq owned
    /\ \A b \in Bridges : Alive(b) => ~bridge[b].reused
    /\ \A b \in owned : Alive(b) \/ bridge[b].worker => b \in record
    /\ \A b, c \in record : Alive(b) /\ Alive(c) /\ bridge[b].of = bridge[c].of => b = c
    /\ \A b \in Bridges : Alive(b) /\ b \notin owned => AtWork(b) \/ bridge[b].of \in lost

\* Where the marker stands, what serves or may yet serve has its launcher to end it.
Launching(b) == \E l \in Launchers : run[l].b = b /\ run[l].stage \in Starting
Marked ==
    \A b \in Bridges : bridge[b].st \in Serving /\ bridge[b].of \in marker =>
        Launching(b) \/ bridge[b].of \in lost

\* A shell waits for one launcher at most, and is registered once that is admitted.
Children ==
    /\ \A l \in Launchers : run[l].child =>
         /\ run[l].stage # "idle" /\ shell[run[l].of].st \in Waiting
         /\ shell[run[l].of].st = "starting" => run[l].cmd = "start"
         /\ run[l].cmd = "start" /\ run[l].stage # "admit" => shell[run[l].of].reg
    /\ \A l, k \in Launchers : run[l].child /\ run[k].child /\ run[l].of = run[k].of => l = k
    /\ \A i \in Instances : shell[i].st \notin {"off", "starting"} => shell[i].reg

\* The updater that holds the claim met nobody, and nobody has come since.
Alone ==
    Claimed => /\ \A b \in Bridges : ~Registered(b)
               /\ \A l \in Launchers : ~run[l].reg
               /\ \A i \in Instances : shell[i].reg => shell[i].st = "handoff"

IInv == Typed /\ Held /\ Known /\ Traced /\ Marked /\ Children /\ Alone

-----------------------------------------------------------------------------
(* What the actions are made of *)

\* A step of launcher l leaves the others alone.
OnlyRun(l) ==
    /\ run' \in [Launchers -> RunRecord]
    /\ \A k \in Launchers : k # l => run'[k] = run[k]

\* It goes on to a stage; or it is over, and gives up its mutex.
Moves(l) ==
    /\ OnlyRun(l)
    /\ run'[l].of = run[l].of /\ run'[l].child = run[l].child
    /\ run'[l].cmd = run[l].cmd /\ run'[l].reg = run[l].reg
GivesUp(l) ==
    /\ OnlyRun(l) /\ run'[l] = Idle
    /\ mutex' \in [Instances -> Launchers \cup {None}]
    /\ \A i \in Instances : mutex'[i] = IF mutex[i] = l THEN None ELSE mutex[i]

LEMMA IdleTyped == Idle \in RunRecord /\ NoShell \in ShellRecord /\ NoBridge \in BridgeRecord
BY StartAssumption DEF Idle, NoShell, NoBridge, RunRecord, ShellRecord, BridgeRecord, Stages,
        Outside, Waiting

LEMMA GotoEffect ==
    ASSUME Typed, NEW l \in Launchers, NEW stage \in Stages, Goto(l, stage)
    PROVE  Moves(l) /\ run'[l].stage = stage /\ run'[l].b = run[l].b /\ run'[l].kids = run[l].kids
<1>1. run[l] \in RunRecord /\ run' = [run EXCEPT ![l] = [run[l] EXCEPT !.stage = stage]]
    BY DEF Typed, Goto
<1>2. [run[l] EXCEPT !.stage = stage] \in RunRecord
    BY <1>1 DEF RunRecord
<1>3. OnlyRun(l) /\ run'[l] = [run[l] EXCEPT !.stage = stage]
    BY <1>1, <1>2 DEF Typed, OnlyRun
<1> QED  BY <1>1, <1>3 DEF Moves, RunRecord

LEMMA ToldTyped ==
    ASSUME Typed, NEW i \in Instances, NEW cmd, NEW ok, NEW created \in BOOLEAN
    PROVE  Told(i, cmd, ok, created) \in ShellRecord
<1>1. shell[i] \in ShellRecord /\ NoShell \in ShellRecord
    BY IdleTyped DEF Typed
<1>2. [shell[i] EXCEPT !.st = "opening", !.created = created] \in ShellRecord
    BY <1>1 DEF ShellRecord
<1>3. [shell[i] EXCEPT !.st = "open"] \in ShellRecord /\ [shell[i] EXCEPT !.st = "stopped"] \in ShellRecord
    BY <1>1 DEF ShellRecord, Waiting
<1> QED  BY <1>1, <1>2, <1>3 DEF Told

LEMMA EndedEffect ==
    ASSUME Typed, NEW l \in Launchers, NEW ok \in BOOLEAN, NEW created \in BOOLEAN,
           Ended(l, ok, created)
    PROVE  /\ OnlyRun(l) /\ run'[l] = Idle
           /\ mutex' \in [Instances -> Launchers \cup {None}]
           /\ \A i \in Instances : i # run[l].of => mutex'[i] = mutex[i]
           /\ mutex'[run[l].of] = IF mutex[run[l].of] = l THEN None ELSE mutex[run[l].of]
           /\ shell' \in [Instances -> ShellRecord]
           /\ \A i \in Instances : shell'[i] =
                IF run[l].child /\ i = run[l].of THEN Told(i, run[l].cmd, ok, created) ELSE shell[i]
<1>1. run[l].of \in Instances
    BY DEF Typed, RunRecord
<1>2. OnlyRun(l) /\ run'[l] = Idle
    BY IdleTyped DEF Typed, Ended, OnlyRun
<1>3. /\ mutex' \in [Instances -> Launchers \cup {None}]
      /\ \A i \in Instances : i # run[l].of => mutex'[i] = mutex[i]
      /\ mutex'[run[l].of] = IF mutex[run[l].of] = l THEN None ELSE mutex[run[l].of]
    BY <1>1 DEF Typed, Ended
<1>4. Told(run[l].of, run[l].cmd, ok, created) \in ShellRecord
    BY <1>1, ToldTyped
<1>5. /\ shell' \in [Instances -> ShellRecord]
      /\ \A i \in Instances : shell'[i] =
           IF run[l].child /\ i = run[l].of THEN Told(i, run[l].cmd, ok, created) ELSE shell[i]
    BY <1>1, <1>4 DEF Typed, Ended
<1> QED  BY <1>2, <1>3, <1>5

LEMMA EndedGivesUp ==
    ASSUME Typed, Held, NEW l \in Launchers, NEW ok \in BOOLEAN, NEW created \in BOOLEAN,
           Ended(l, ok, created)
    PROVE  GivesUp(l)
<1>1. \A i \in Instances : mutex[i] = l => run[l].of = i
    BY DEF Held
<1> QED  BY <1>1, EndedEffect DEF GivesUp

-----------------------------------------------------------------------------
(* The shell and the gate *)

\* Only a bridge that is admitted registers.
NoneRegisters == \A b \in Bridges : Registered(b)' => Registered(b)

LEMMA MovesGate ==
    ASSUME IInv, NEW l \in Launchers, Moves(l), NoneRegisters, UNCHANGED <<shell, helper>>,
           run'[l].stage \notin {"idle", "admit"}, run[l].stage # "admit"
    PROVE  Children' /\ Alone'
<1> USE DEF IInv
<1>1. /\ \A k \in Launchers : run'[k].child = run[k].child /\ run'[k].of = run[k].of
                             /\ run'[k].cmd = run[k].cmd /\ run'[k].reg = run[k].reg
      /\ \A k \in Launchers : run'[k].stage = run[k].stage \/ k = l
    BY DEF Moves, OnlyRun
<1>2. Children'
    BY <1>1 DEF Children
<1>3. Alone'
    BY <1>1 DEF Alone, Claimed, NoneRegisters
<1> QED  BY <1>2, <1>3

\* The shell hears of a launcher that has failed, or that was admitted and did its work.
LEMMA EndedGate ==
    ASSUME IInv, NEW l \in Launchers, NEW ok \in BOOLEAN, NEW created \in BOOLEAN,
           Ended(l, ok, created), ok => run[l].stage # "admit", NoneRegisters, UNCHANGED helper
    PROVE  Children' /\ Alone'
<1> USE DEF IInv
<1>0. /\ \A k \in Launchers : run'[k] = IF k = l THEN Idle ELSE run[k]
      /\ \A i \in Instances : shell'[i] =
                IF run[l].child /\ i = run[l].of THEN Told(i, run[l].cmd, ok, created) ELSE shell[i]
      /\ \A k \in Launchers : run[k].of \in Instances
      /\ \A i \in Instances : shell[i] \in ShellRecord
    BY EndedEffect DEF OnlyRun, Typed, RunRecord
<1>1. ~Idle.child /\ ~Idle.reg
    BY DEF Idle
<1>2. ASSUME run[l].child, NEW i, i = run[l].of
      PROVE  /\ shell'[i].st \notin {"off", "starting"} => shell'[i].reg
             /\ shell'[i].reg => shell[i].reg
             /\ shell[i].reg => shell[i].st # "handoff"
    <2>1. shell[i].st \in Waiting /\ (shell[i].st = "starting" => run[l].cmd = "start")
          /\ (run[l].cmd = "start" /\ run[l].stage # "admit" => shell[i].reg)
        BY <1>2 DEF Children
    <2>2. i \in Instances /\ shell'[i] = Told(i, run[l].cmd, ok, created) /\ shell[i] \in ShellRecord
        BY <1>0, <1>2
    <2>3. shell[i].st # "starting" => shell[i].reg
        BY <2>1, <2>2 DEF Children, Waiting
    <2>4. CASE shell[i].st = "starting" /\ ok
        <3>1. shell'[i] = [shell[i] EXCEPT !.st = "opening", !.created = created] /\ shell[i].reg
            BY <2>1, <2>2, <2>4 DEF Told
        <3> QED  BY <2>2, <2>4, <3>1 DEF ShellRecord
    <2>5. CASE shell[i].st = "quitting" \/ (shell[i].st = "starting" /\ ~ok)
        <3>1. shell'[i] = NoShell
            BY <2>2, <2>5 DEF Told
        <3> QED  BY <2>5, <3>1 DEF NoShell
    <2>6. CASE shell[i].st \in {"updating", "restoring", "open"}
        <3>1. \/ shell'[i] = [shell[i] EXCEPT !.st = "open"]
              \/ shell'[i] = [shell[i] EXCEPT !.st = "stopped"] \/ shell'[i] = shell[i]
            BY <2>2, <2>6 DEF Told
        <3> QED  BY <2>2, <2>3, <2>6, <3>1 DEF ShellRecord
    <2> QED  BY <2>1, <2>4, <2>5, <2>6 DEF Waiting
<1>3. \A k \in Launchers : run'[k].child => k # l /\ run[k].child /\ run'[k] = run[k]
                                          /\ shell'[run[k].of] = shell[run[k].of]
    BY <1>0, <1>1 DEF Children
<1>4. Children'
    <2>1. \A i \in Instances : shell'[i].st \notin {"off", "starting"} => shell'[i].reg
        BY <1>0, <1>2 DEF Children
    <2> QED  BY <1>3, <2>1 DEF Children
<1>5. Alone'
    <2> SUFFICES ASSUME Claimed  PROVE Alone'
        BY DEF Alone, Claimed
    <2>1. \A b \in Bridges : ~Registered(b)'
        BY DEF Alone, NoneRegisters
    <2>2. \A k \in Launchers : ~run'[k].reg
        BY <1>0, <1>1 DEF Alone
    <2>3. \A i \in Instances : shell'[i].reg => shell'[i].st = "handoff"
        BY <1>0, <1>2 DEF Alone
    <2> QED  BY <2>1, <2>2, <2>3 DEF Alone
<1> QED  BY <1>4, <1>5

-----------------------------------------------------------------------------
(* Bridges, records and the marker: a launcher that holds the mutex *)

\* Bridges end, are told to close and lose their workers; none comes to life.
Fades ==
    /\ bridge' \in [Bridges -> BridgeRecord]
    /\ \A b \in Bridges :
         /\ bridge'[b].of = bridge[b].of /\ bridge'[b].reused = bridge[b].reused
         /\ bridge'[b].worker => bridge[b].worker
         /\ \/ bridge'[b].st = bridge[b].st
            \/ Alive(b) /\ bridge'[b].st = "dead"
            \/ bridge[b].st = "ready" /\ bridge'[b].st = "closing"

\* The launcher of bridge b may write b's record, and removes what has no trace left.
Acts(l, b) ==
    /\ Fades /\ OnlyRun(l)
    /\ record' \subseteq record \cup {b} /\ record' \subseteq owned'
    /\ owned \subseteq owned' /\ owned' \subseteq Bridges /\ owned' \subseteq owned \cup {b}
    /\ lost \subseteq lost' /\ lost' \subseteq Instances /\ marker' \subseteq marker
    /\ \A c \in owned' \ record' : ~Alive(c)' /\ ~bridge'[c].worker
    /\ b \in record' \ record => LiveRecords(run[l].of) = {}

\* It stays with its bridge, or finds one; or it leaves a bridge that is recorded,
\* dead or given up for lost.
Stays(l, b) ==
    /\ Moves(l) /\ UNCHANGED mutex /\ Inside(l)' /\ Knows(l)'
    /\ run'[l].b = b \/ b = None
    /\ run[l].stage \in Starting /\ bridge'[b].st \in Serving => run'[l].stage \in Starting
LeavesWell(l, b) ==
    /\ b # None => b \in owned' \/ ~Alive(b)' \/ run[l].of \in lost'
    /\ run[l].stage \in Starting /\ bridge'[b].st \in Serving =>
         run[l].of \notin marker' \/ run[l].of \in lost'
Leaving(l, b) == GivesUp(l) /\ LeavesWell(l, b)

LEMMA OneHolder ==
    ASSUME Held, NEW l \in Launchers, NEW k \in Launchers, Inside(l), Inside(k),
           run[l].of = run[k].of
    PROVE  l = k
BY DEF Held

LEMMA HeldStays ==
    ASSUME IInv, NEW l \in Launchers, NEW b, Inside(l), Stays(l, b) \/ Leaving(l, b)
    PROVE  Held'
<1> USE DEF IInv
<1>1. CASE Stays(l, b)
    BY <1>1 DEF Stays, Moves, OnlyRun, Held, Inside
<1>2. CASE Leaving(l, b)
    <2>1. \A k \in Launchers : run'[k] = IF k = l THEN Idle ELSE run[k]
        BY <1>2 DEF Leaving, GivesUp, OnlyRun
    <2>2. ~Inside(l)'
        BY <2>1 DEF Inside, Idle, Outside
    <2>3. \A i \in Instances : mutex'[i] # l
        BY <1>2, StartAssumption DEF Leaving, GivesUp
    <2>4. \A i \in Instances, k \in Launchers : mutex'[i] = k => run'[k].of = i /\ Inside(k)'
        BY <1>2, <2>1, <2>3, StartAssumption DEF Leaving, GivesUp, Held, Inside
    <2>5. \A k \in Launchers : Inside(k)' => mutex'[run'[k].of] = k
        BY <1>2, <2>1, <2>2 DEF Leaving, GivesUp, Held, Inside, Typed, RunRecord
    <2> QED  BY <2>4, <2>5 DEF Held
<1> QED  BY <1>1, <1>2

LEMMA KnownStays ==
    ASSUME IInv, NEW l \in Launchers, NEW b, b = run[l].b, Inside(l), Acts(l, b),
           Stays(l, b) \/ Leaving(l, b)
    PROVE  Known'
<1> USE DEF IInv
<1>1. ASSUME NEW k \in Launchers, k # l  PROVE Knows(k)'
    <2>1. run'[k] = run[k] /\ Knows(k)
        BY <1>1 DEF Acts, OnlyRun, Known
    <2>2. PICK c, i : c = run[k].b /\ i = run[k].of
        OBVIOUS
    <2>3. c \in Bridges \cup {None} /\ i \in Instances
        BY <2>2 DEF Typed, RunRecord
    <2>4. CASE c = None /\ run[k].stage # "spawn"
        BY <2>1, <2>2, <2>4 DEF Knows, WithBridge, Starting
    <2>5. CASE c # None \/ run[k].stage = "spawn"
        <3>1. Inside(k) /\ i # run[l].of
            BY <1>1, <2>1, <2>2, <2>5, OneHolder DEF Knows, Inside, Outside, WithBridge, Starting
        <3>2. b # None => bridge[b].of = run[l].of
            BY DEF Known, Knows
        <3>3. LiveRecords(i) = {} => LiveRecords(i)' = {}
            <4> SUFFICES ASSUME NEW d \in LiveRecords(i)'  PROVE d \in LiveRecords(i)
                OBVIOUS
            <4>1. /\ d \in record' /\ d \in Bridges /\ bridge'[d].of = i
                  /\ ~bridge'[d].reused /\ Alive(d)'
                BY DEF LiveRecords, Recorded, Of
            <4>2. bridge[d].of = i /\ ~bridge[d].reused /\ Alive(d)
                BY <4>1 DEF Acts, Fades, Alive
            <4>3. d # b
                BY <3>1, <3>2, <4>1, <4>2, StartAssumption
            <4>4. d \in record
                BY <4>1, <4>3 DEF Acts
            <4> QED  BY <4>1, <4>2, <4>4 DEF LiveRecords, Recorded, Of
        <3>4. c # None => c # b
            BY <2>1, <2>2, <3>1, <3>2 DEF Knows
        <3>5. c # None => (c \in owned' <=> c \in owned)
            BY <3>4 DEF Acts
        <3>6. c # None => /\ bridge'[c].of = bridge[c].of
                          /\ ~Alive(c) => ~Alive(c)'
                          /\ bridge[c].st # "none" => bridge'[c].st # "none"
                          /\ ~bridge[c].worker => ~bridge'[c].worker
            BY <2>3 DEF Acts, Fades, Alive
        <3>7. c = run'[k].b /\ i = run'[k].of
            BY <2>1, <2>2
        <3> QED  BY <2>1, <2>2, <3>3, <3>5, <3>6, <3>7 DEF Knows, WithBridge, Starting
    <2> QED  BY <2>4, <2>5
<1>2. Knows(l)'
    <2>1. CASE Stays(l, b)
        BY <2>1 DEF Stays
    <2>2. CASE Leaving(l, b)
        <3>1. run'[l].b = None /\ run'[l].stage = "idle"
            BY <2>2 DEF Leaving, GivesUp, Idle
        <3> QED  BY <3>1 DEF Knows, WithBridge, Starting
    <2> QED  BY <2>1, <2>2
<1> QED  BY <1>1, <1>2 DEF Known

LEMMA TracedStays ==
    ASSUME IInv, NEW l \in Launchers, NEW b, b = run[l].b, Inside(l), Acts(l, b),
           Stays(l, b) \/ Leaving(l, b)
    PROVE  Traced'
<1> USE DEF IInv
<1>1. \A c \in Bridges : (Alive(c)' => Alive(c)) /\ bridge'[c].of = bridge[c].of
                         /\ bridge'[c].reused = bridge[c].reused
    BY DEF Acts, Fades, Alive
<1>2. record' \subseteq owned' /\ owned' \subseteq Bridges
    BY DEF Acts
<1>3. \A c \in Bridges : Alive(c)' => ~bridge'[c].reused
    BY <1>1 DEF Traced
<1>4. \A c \in owned' : Alive(c)' \/ bridge'[c].worker => c \in record'
    BY DEF Acts
<1>5. ASSUME NEW c \in record', NEW d \in record', Alive(c)', Alive(d)',
             bridge'[c].of = bridge'[d].of, c # d
      PROVE  FALSE
    <2>1. Alive(c) /\ Alive(d) /\ bridge[c].of = bridge[d].of /\ ~bridge[c].reused /\ ~bridge[d].reused
        BY <1>1, <1>2, <1>5 DEF Traced
    <2>2. b \in record' \ record /\ (c = b \/ d = b) /\ (c \in record \/ d \in record)
        BY <1>5, <2>1 DEF Acts, Traced
    <2>3. LiveRecords(run[l].of) = {} /\ bridge[b].of = run[l].of
        BY <1>2, <2>2, StartAssumption DEF Acts, Known, Knows
    <2> QED  BY <1>2, <2>1, <2>2, <2>3 DEF LiveRecords, Recorded, Of
<1>6. ASSUME NEW c \in Bridges, Alive(c)', c \notin owned'
      PROVE  AtWork(c)' \/ bridge'[c].of \in lost'
    <2>1. AtWork(c) \/ bridge[c].of \in lost
        BY <1>1, <1>6 DEF Acts, Traced
    <2>2. ASSUME NEW k \in Launchers, run[k].b = c  PROVE AtWork(c)' \/ bridge'[c].of \in lost'
        <3>1. CASE k # l
            BY <2>2, <3>1 DEF Acts, OnlyRun, AtWork
        <3>2. CASE k = l
            <4>1. c = b /\ b # None /\ bridge[c].of = run[l].of
                BY <2>2, <3>2, StartAssumption DEF Known, Knows
            <4> QED  BY <1>1, <1>6, <4>1 DEF Stays, Leaving, LeavesWell, AtWork
        <3> QED  BY <3>1, <3>2
    <2> QED  BY <1>1, <2>1, <2>2 DEF AtWork, Acts
<1> QED  BY <1>2, <1>3, <1>4, <1>5, <1>6 DEF Traced

LEMMA MarkedStays ==
    ASSUME IInv, NEW l \in Launchers, NEW b, b = run[l].b, Inside(l), Acts(l, b),
           Stays(l, b) \/ Leaving(l, b)
    PROVE  Marked'
<1> USE DEF IInv
<1> SUFFICES ASSUME NEW c \in Bridges, bridge'[c].st \in Serving, bridge'[c].of \in marker'
             PROVE  Launching(c)' \/ bridge'[c].of \in lost'
    BY DEF Marked
<1>1. bridge[c].st \in Serving /\ bridge[c].of \in marker /\ bridge'[c].of = bridge[c].of
    BY DEF Acts, Fades, Serving
<1>2. Launching(c) \/ bridge[c].of \in lost
    BY <1>1 DEF Marked
<1>3. ASSUME NEW k \in Launchers, run[k].b = c, run[k].stage \in Starting
      PROVE  Launching(c)' \/ bridge'[c].of \in lost'
    <2>1. CASE k # l
        BY <1>3, <2>1 DEF Acts, OnlyRun, Launching
    <2>2. CASE k = l
        <3>1. c = b /\ b # None /\ bridge[c].of = run[l].of
            BY <1>3, <2>2, StartAssumption DEF Known, Knows
        <3> QED  BY <1>1, <1>3, <2>2, <3>1 DEF Stays, Leaving, LeavesWell, Launching
    <2> QED  BY <2>1, <2>2
<1> QED  BY <1>1, <1>2, <1>3 DEF Launching, Acts

\* What a launcher inside the mutex may do to bridges, records and marks is safe.
Tracks == Held /\ Known /\ Traced /\ Marked
LEMMA TracksStay ==
    ASSUME IInv, NEW l \in Launchers, NEW b, b = run[l].b, Inside(l), Acts(l, b),
           Stays(l, b) \/ Leaving(l, b)
    PROVE  Tracks'
BY HeldStays, KnownStays, TracedStays, MarkedStays DEF Tracks

LEMMA LauncherStep ==
    ASSUME IInv, NEW l \in Launchers, NEW b, b = run[l].b, Inside(l), Acts(l, b),
           UNCHANGED helper,
           \/ Stays(l, b) /\ UNCHANGED shell
           \/ LeavesWell(l, b) /\ \E ok, created \in BOOLEAN : Ended(l, ok, created)
    PROVE  IInv'
<1>1. NoneRegisters
    BY DEF NoneRegisters, Registered, Acts, Fades, Alive
<1>2. bridge' \in [Bridges -> BridgeRecord] /\ run' \in [Launchers -> RunRecord]
      /\ record' \subseteq Bridges /\ owned' \subseteq Bridges /\ lost' \subseteq Instances
      /\ marker' \subseteq Instances
    BY DEF Acts, Fades, OnlyRun, IInv, Typed
<1>3. run[l].stage \notin {"idle", "admit"}
    BY DEF Inside, Outside
<1>4. CASE Stays(l, b) /\ UNCHANGED shell
    <2>1. Typed'
        BY <1>2, <1>4 DEF Stays, IInv, Typed
    <2>2. run'[l].stage \notin {"idle", "admit"}
        BY <1>4 DEF Stays, Inside, Outside
    <2>3. Children' /\ Alone'
        BY <1>1, <1>3, <1>4, <2>2, MovesGate DEF Stays
    <2>4. Tracks'
        BY <1>4, TracksStay
    <2> QED  BY <2>1, <2>3, <2>4 DEF IInv, Tracks
<1>5. ASSUME LeavesWell(l, b), NEW ok \in BOOLEAN, NEW created \in BOOLEAN, Ended(l, ok, created)
      PROVE  IInv'
    <2>1. GivesUp(l) /\ shell' \in [Instances -> ShellRecord]
        BY <1>5, EndedGivesUp, EndedEffect DEF IInv
    <2>2. Typed'
        BY <1>2, <2>1 DEF GivesUp, IInv, Typed
    <2>3. Children' /\ Alone'
        BY <1>1, <1>3, <1>5, EndedGate
    <2>4. Tracks'
        BY <1>5, <2>1, TracksStay DEF Leaving
    <2> QED  BY <2>2, <2>3, <2>4 DEF IInv, Tracks
<1> QED  BY <1>4, <1>5

-----------------------------------------------------------------------------
(* Steps of a launcher that holds the mutex *)

LEMMA ActsOnNothing ==
    ASSUME IInv, NEW l \in Launchers, NEW b, OnlyRun(l), UNCHANGED <<bridge, record, owned>>,
           lost \subseteq lost', lost' \subseteq Instances, marker' \subseteq marker
    PROVE  Acts(l, b)
BY DEF IInv, Typed, Traced, Acts, Fades, Alive

LEMMA FailsEffect ==
    ASSUME IInv, NEW l \in Launchers, Fails(l)
    PROVE  OnlyRun(l) /\ \E ok, created \in BOOLEAN : Ended(l, ok, created)
BY EndedEffect DEF Fails, IInv

LEMMA Bare ==
    ASSUME IInv, NEW l \in Launchers, run[l].stage \notin WithBridge
    PROVE  run[l].b = None /\ LeavesWell(l, None)
BY DEF IInv, Known, Knows, LeavesWell, WithBridge, Starting

LEMMA WithoutWorkersFades ==
    ASSUME IInv, NEW o, bridge' = WithoutWorkers(o)
    PROVE  Fades /\ \A c \in Bridges : bridge'[c].st = bridge[c].st
                                      /\ (bridge'[c].worker <=> bridge[c].worker /\ c \notin o)
<1>1. ASSUME NEW c \in Bridges
      PROVE  /\ bridge'[c] \in BridgeRecord
             /\ bridge'[c].st = bridge[c].st /\ bridge'[c].of = bridge[c].of
             /\ bridge'[c].reused = bridge[c].reused
             /\ bridge'[c].worker <=> bridge[c].worker /\ c \notin o
    BY DEF IInv, Typed, BridgeRecord, WithoutWorkers
<1> QED  BY <1>1 DEF Fades, WithoutWorkers

LEMMA CheckMarkStep ==
    ASSUME IInv, NEW l \in Launchers, At(l, "mark again"), CheckMark(l)
    PROVE  IInv'
<1>1. Inside(l) /\ run[l].b = None /\ LeavesWell(l, None)
    BY Bare DEF At, Inside, Outside, WithBridge, Starting
<1>2. CASE Fails(l)
    BY <1>1, <1>2, FailsEffect, ActsOnNothing, LauncherStep DEF CheckMark, history, IInv, Typed
<1>3. CASE Goto(l, "health") /\ UNCHANGED <<mutex, shell>>
    <2>1. Moves(l) /\ run'[l].stage = "health" /\ run'[l].b = None
        BY <1>1, <1>3, GotoEffect DEF IInv, Stages
    <2>2. Stays(l, None)
        BY <1>3, <2>1 DEF Stays, Inside, Outside, Knows, WithBridge, Starting, At
    <2> QED  BY <1>1, <1>3, <2>1, <2>2, ActsOnNothing, LauncherStep
             DEF CheckMark, history, IInv, Typed, Moves
<1> QED  BY <1>2, <1>3 DEF CheckMark, At

\* A launcher without a bridge goes on, or ends.
LEMMA BareStep ==
    ASSUME IInv, NEW l \in Launchers, Inside(l), run[l].stage \notin WithBridge,
           Acts(l, None), UNCHANGED helper,
           \/ \E ok, created \in BOOLEAN : Ended(l, ok, created)
           \/ /\ UNCHANGED <<mutex, shell>> /\ Moves(l) /\ Knows(l)'
              /\ run'[l].stage \notin Outside
    PROVE  IInv'
<1>1. run[l].b = None /\ LeavesWell(l, None)
    BY Bare
<1>2. run[l].stage \notin Starting
    BY DEF WithBridge
<1> QED  BY <1>1, <1>2, LauncherStep DEF Stays, Inside

LEMMA CheckHealthStep ==
    ASSUME IInv, NEW l \in Launchers, CheckHealth(l)
    PROVE  IInv'
<1>1. Inside(l) /\ run[l].stage = "health" /\ run[l].stage \notin WithBridge /\ run[l].b = None
    BY Bare DEF CheckHealth, At, Inside, Outside, WithBridge, Starting
<1>2. marker' \subseteq marker /\ lost' = lost /\ lost \subseteq Instances
    BY DEF CheckHealth, Unlatched, history, IInv, Typed
<1>3. CASE \E ok, created \in BOOLEAN : Ended(l, ok, created)
    <2>1. OnlyRun(l)
        BY <1>3, EndedEffect DEF IInv
    <2> QED  BY <1>1, <1>2, <1>3, <2>1, ActsOnNothing, BareStep DEF CheckHealth, history
<1>4. CASE Goto(l, "records") /\ UNCHANGED <<mutex, shell>>
    <2>1. Moves(l) /\ run'[l].stage = "records" /\ run'[l].b = None
        BY <1>1, <1>4, GotoEffect DEF IInv, Stages
    <2>2. Knows(l)' /\ run'[l].stage \notin Outside
        BY <2>1 DEF Knows, WithBridge, Starting, Outside
    <2> QED  BY <1>1, <1>2, <1>4, <2>1, <2>2, ActsOnNothing, BareStep DEF CheckHealth, history, Moves
<1> QED  BY <1>3, <1>4 DEF CheckHealth, Fails

LEMMA CleanedActs ==
    ASSUME IInv, NEW l \in Launchers, NEW b, NEW i, NEW s, Cleaned(i, s), OnlyRun(l),
           UNCHANGED <<owned, lost, marker>>
    PROVE  Acts(l, b)
<1> USE DEF IInv
<1>1. s \subseteq record /\ record \subseteq owned /\ owned \subseteq Bridges /\ \A c \in s : ~Alive(c)
    BY DEF Cleaned, DeadRecords, Recorded, Traced, Typed
<1>2. Fades /\ \A c \in Bridges : bridge'[c].st = bridge[c].st
                                 /\ (bridge'[c].worker => bridge[c].worker /\ c \notin s)
    <2>1. CASE s = {}
        BY <2>1 DEF Cleaned, Fades, Typed
    <2>2. CASE s # {}
        <3>1. PICK o \in Orphans(s) : bridge' = WithoutWorkers(o)
            BY <2>2 DEF Cleaned
        <3>2. \A c \in Bridges : bridge[c].worker /\ c \in s => c \in o
            BY DEF Orphans, Workers
        <3> QED  BY <3>1, <3>2, WithoutWorkersFades
    <2> QED  BY <2>1, <2>2
<1>3. record' = record \ s
    BY DEF Cleaned
<1>4. \A c \in owned' \ record' : ~Alive(c)' /\ ~bridge'[c].worker
    BY <1>1, <1>2, <1>3 DEF Traced, Alive
<1> QED  BY <1>1, <1>2, <1>3, <1>4 DEF Acts, Typed

LEMMA CheckRecordsStep ==
    ASSUME IInv, NEW l \in Launchers, CheckRecords(l)
    PROVE  IInv'
<1>1. Inside(l) /\ run[l].stage = "records" /\ run[l].stage \notin WithBridge /\ run[l].b = None
    BY Bare DEF CheckRecords, At, Inside, Outside, WithBridge, Starting
<1>2. UNCHANGED <<marker, helper, owned, lost>> /\ lost \subseteq Instances
    BY DEF CheckRecords, history, IInv, Typed
<1>3. CASE Fails(l) /\ UNCHANGED <<bridge, record>>
    BY <1>1, <1>2, <1>3, FailsEffect, ActsOnNothing, BareStep
<1>4. ASSUME LiveRecords(run[l].of) = {}, NEW s \in SUBSET DeadRecords(run[l].of),
             Cleaned(run[l].of, s), Fails(l) \/ (Goto(l, "spawn") /\ UNCHANGED <<mutex, shell>>)
      PROVE  IInv'
    <2>1. CASE Fails(l)
        BY <1>1, <1>2, <1>4, <2>1, FailsEffect, CleanedActs, BareStep
    <2>2. CASE Goto(l, "spawn") /\ UNCHANGED <<mutex, shell>>
        <3>1. Moves(l) /\ run'[l].stage = "spawn" /\ run'[l].b = None
            BY <1>1, <2>2, GotoEffect DEF IInv, Stages
        <3>2. Acts(l, None)
            BY <1>2, <1>4, <3>1, CleanedActs DEF Moves
        <3>3. LiveRecords(run[l].of)' = {}
            <4>1. PICK i : i = run[l].of
                OBVIOUS
            <4>2. run'[l].of = i
                BY <3>1, <4>1 DEF Moves
            <4>3. LiveRecords(i)' \subseteq LiveRecords(i)
                BY <1>4, <3>2 DEF Acts, Fades, Alive, Cleaned, LiveRecords, Recorded, Of
            <4> QED  BY <1>4, <4>1, <4>2, <4>3
        <3>4. Knows(l)' /\ run'[l].stage \notin Outside
            BY <3>1, <3>3 DEF Knows, WithBridge, Starting, Outside
        <3> QED  BY <1>1, <1>2, <2>2, <3>1, <3>2, <3>4, BareStep
    <2> QED  BY <1>4, <2>1, <2>2
<1> QED  BY <1>3, <1>4 DEF CheckRecords

\* A launcher with a bridge at hand.
LEMMA Owner ==
    ASSUME IInv, NEW l \in Launchers, NEW b, b = run[l].b, run[l].stage \in WithBridge
    PROVE  /\ Inside(l) /\ b \in Bridges /\ b # None /\ run[l].of \in Instances
           /\ bridge[b].of = run[l].of /\ bridge[b].st # "none"
           /\ bridge[b] \in BridgeRecord
           /\ run[l].stage # "record" => b \in owned
<1>1. b # None /\ bridge[b].of = run[l].of /\ bridge[b].st # "none" /\ Inside(l)
      /\ (run[l].stage # "record" => b \in owned)
    BY DEF IInv, Known, Knows, Inside, Outside, WithBridge, Starting
<1>2. b \in Bridges /\ run[l].of \in Instances
    BY <1>1 DEF IInv, Typed, RunRecord
<1> QED  BY <1>1, <1>2 DEF IInv, Typed

\* It goes on to its next stage with the same bridge.
LEMMA GoesOn ==
    ASSUME IInv, NEW l \in Launchers, NEW b, b = run[l].b, run[l].stage \in WithBridge,
           Acts(l, b), UNCHANGED <<mutex, shell, helper>>, Moves(l), run'[l].b = b,
           run'[l].stage \in WithBridge \ {"record"}, b \in owned',
           run'[l].stage \in {"rescan", "unlink"} => ~Alive(b)',
           run'[l].stage = "unlink" => ~bridge'[b].worker,
           run[l].stage \in Starting /\ bridge'[b].st \in Serving => run'[l].stage \in Starting
    PROVE  IInv'
<1>1. b \in Bridges /\ b # None /\ Inside(l) /\ bridge'[b].of = run'[l].of /\ bridge'[b].st # "none"
    BY Owner DEF Acts, Fades, Moves
<1>2. Inside(l)'
    BY DEF Inside, Outside, WithBridge, Starting
<1>3. Knows(l)'
    BY <1>1 DEF Knows, WithBridge, Starting, Alive
<1> QED  BY <1>1, <1>2, <1>3, LauncherStep DEF Stays

\* It gives its bridge up for lost.
LEMMA FatalStep ==
    ASSUME IInv, NEW l \in Launchers, run[l].stage \in WithBridge, Fails(l), lost' = Leaves(l),
           UNCHANGED <<bridge, record, owned, marker, helper>>
    PROVE  IInv'
<1>1. PICK b : b = run[l].b
    OBVIOUS
<1>2. Inside(l) /\ b \in Bridges /\ b # None /\ run[l].of \in Instances
    BY <1>1, Owner
<1>3. OnlyRun(l) /\ \E ok, created \in BOOLEAN : Ended(l, ok, created)
    BY FailsEffect
<1>4. lost' = lost \cup {run[l].of}
    BY <1>1, <1>2 DEF Leaves
<1>5. lost' \subseteq Instances
    BY <1>2, <1>4 DEF IInv, Typed
<1>6. Acts(l, b)
    BY <1>3, <1>4, <1>5, ActsOnNothing
<1>7. LeavesWell(l, b)
    BY <1>4 DEF LeavesWell
<1> QED  BY <1>1, <1>2, <1>3, <1>6, <1>7, LauncherStep

LEMMA WriteRecordStep ==
    ASSUME IInv, NEW l \in Launchers, WriteRecord(l)
    PROVE  IInv'
<1>1. PICK b : b = run[l].b
    OBVIOUS
<1>2. run[l].stage = "record" /\ run[l].stage \in WithBridge /\ UNCHANGED <<marker, helper>>
    BY DEF WriteRecord, At, WithBridge, Starting
<1>3. /\ Inside(l) /\ b \in Bridges /\ b # None /\ bridge[b].st # "none"
      /\ bridge[b] \in BridgeRecord
    BY <1>1, <1>2, Owner
<1>4. LiveRecords(run[l].of) = {} /\ b \notin owned
    BY <1>1, <1>2 DEF IInv, Known, Knows
<1>5. CASE /\ record' = record \cup {b} /\ owned' = owned \cup {b} /\ Goto(l, "wait")
           /\ UNCHANGED <<bridge, lost, mutex, shell>>
    <2>1. Moves(l) /\ run'[l].stage = "wait" /\ run'[l].b = b
        BY <1>1, <1>5, GotoEffect DEF IInv, Stages, WithBridge, Starting
    <2>2. Acts(l, b)
        BY <1>2, <1>3, <1>4, <1>5, <2>1 DEF IInv, Typed, Traced, Acts, Fades, Alive, Moves
    <2> QED  BY <1>1, <1>2, <1>5, <2>1, <2>2, GoesOn DEF WithBridge, Starting
<1>6. CASE /\ bridge' = [bridge EXCEPT ![b].st = "dead"] /\ Fails(l)
           /\ UNCHANGED <<record, owned, lost>>
    <2>1. \A c \in Bridges : bridge'[c] = IF c = b THEN [bridge[b] EXCEPT !.st = "dead"] ELSE bridge[c]
        BY <1>3, <1>6 DEF IInv, Typed
    <2>2. [bridge[b] EXCEPT !.st = "dead"] \in BridgeRecord
        BY <1>3 DEF BridgeRecord
    <2>3. Fades
        <3>1. bridge' \in [Bridges -> BridgeRecord]
            BY <1>6, <2>2 DEF IInv, Typed
        <3>2. bridge'[b].of = bridge[b].of /\ bridge'[b].reused = bridge[b].reused
              /\ bridge'[b].worker = bridge[b].worker /\ bridge'[b].st = "dead"
            BY <1>3, <2>1 DEF BridgeRecord
        <3> QED  BY <1>3, <2>1, <3>1, <3>2 DEF Fades, Alive
    <2>4. OnlyRun(l) /\ \E ok, created \in BOOLEAN : Ended(l, ok, created)
        BY <1>6, FailsEffect
    <2>5. \A c \in owned' \ record' : ~Alive(c)' /\ ~bridge'[c].worker
        BY <1>4, <1>6, <2>1 DEF IInv, Typed, Traced, Alive
    <2>6. Acts(l, b)
        BY <1>2, <1>6, <2>3, <2>4, <2>5 DEF Acts, IInv, Typed, Traced
    <2>7. LeavesWell(l, b)
        BY <1>3, <2>1, <2>2 DEF LeavesWell, Alive, Serving, BridgeRecord
    <2> QED  BY <1>1, <1>2, <1>3, <2>4, <2>6, <2>7, LauncherStep
<1>7. CASE lost' = Leaves(l) /\ Fails(l) /\ UNCHANGED <<bridge, record, owned>>
    BY <1>2, <1>7, FatalStep
<1> QED  BY <1>1, <1>5, <1>6, <1>7 DEF WriteRecord

LEMMA AwaitStep ==
    ASSUME IInv, NEW l \in Launchers, Await(l)
    PROVE  IInv'
<1>1. PICK b : b = run[l].b
    OBVIOUS
<1>2. run[l].stage = "wait" /\ run[l].stage \in WithBridge
      /\ UNCHANGED <<bridge, record, marker, mutex, shell, helper, owned, lost>>
    BY DEF Await, At, WithBridge, Starting, history
<1>3. PICK s \in {"latch", "abort"} : Goto(l, s)
    BY DEF Await
<1>4. Moves(l) /\ run'[l].stage = s /\ run'[l].b = b
    BY <1>1, <1>3, GotoEffect DEF IInv, Stages, WithBridge, Starting
<1>5. Acts(l, b)
    BY <1>2, <1>4, ActsOnNothing DEF Moves, IInv, Typed
<1>6. b \in owned'
    BY <1>1, <1>2, Owner
<1> QED  BY <1>1, <1>2, <1>4, <1>5, <1>6, GoesOn DEF WithBridge, Starting

LEMMA LatchStep ==
    ASSUME IInv, NEW l \in Launchers, Latch(l)
    PROVE  IInv'
<1>1. PICK b : b = run[l].b
    OBVIOUS
<1>2. run[l].stage = "latch" /\ run[l].stage \in WithBridge
      /\ UNCHANGED <<bridge, record, helper, owned, lost>>
    BY DEF Latch, At, WithBridge, Starting, history
<1>3. Inside(l) /\ b \in owned /\ lost \subseteq Instances
    BY <1>1, <1>2, Owner DEF IInv, Typed
<1>4. CASE ~Latched(l) /\ marker' = Unlatched(l) /\ Ended(l, TRUE, TRUE)
    <2>1. run[l].of \notin marker' /\ marker' \subseteq marker
        BY <1>4 DEF Latched, Unlatched
    <2>2. OnlyRun(l)
        BY <1>4, EndedEffect DEF IInv
    <2>3. Acts(l, b)
        BY <1>2, <1>3, <2>1, <2>2, ActsOnNothing
    <2>4. LeavesWell(l, b)
        BY <1>2, <1>3, <2>1 DEF LeavesWell
    <2> QED  BY <1>1, <1>2, <1>3, <1>4, <2>3, <2>4, LauncherStep
<1>5. CASE Goto(l, "abort") /\ UNCHANGED <<marker, mutex, shell>>
    <2>1. Moves(l) /\ run'[l].stage = "abort" /\ run'[l].b = b
        BY <1>1, <1>5, GotoEffect DEF IInv, Stages, WithBridge, Starting
    <2>2. Acts(l, b)
        BY <1>2, <1>3, <1>5, <2>1, ActsOnNothing DEF Moves
    <2> QED  BY <1>1, <1>2, <1>3, <1>5, <2>1, <2>2, GoesOn DEF WithBridge, Starting
<1> QED  BY <1>4, <1>5 DEF Latch

LEMMA KillEffect ==
    ASSUME IInv, NEW b \in Bridges, NEW kids, bridge' = Kill(b, kids)
    PROVE  /\ Fades /\ ~Alive(b)'
           /\ \A c \in owned \ record : ~Alive(c)' /\ ~bridge'[c].worker
<1> DEFINE w == WithoutWorkers(kids)
<1>1. /\ w \in [Bridges -> BridgeRecord]
      /\ \A c \in Bridges : /\ w[c].st = bridge[c].st /\ w[c].of = bridge[c].of
                            /\ w[c].reused = bridge[c].reused /\ (w[c].worker => bridge[c].worker)
    BY DEF IInv, Typed, BridgeRecord, WithoutWorkers
<1> HIDE DEF w
<1>2. bridge' = [w EXCEPT ![b].st = IF Alive(b) THEN "dead" ELSE @]
    BY DEF Kill, w
<1>3. \A c \in Bridges : bridge'[c] = IF c = b /\ Alive(b) THEN [w[b] EXCEPT !.st = "dead"] ELSE w[c]
    BY <1>1, <1>2 DEF BridgeRecord
<1>4. [w[b] EXCEPT !.st = "dead"] \in BridgeRecord
    BY <1>1 DEF BridgeRecord
<1>5. bridge' \in [Bridges -> BridgeRecord]
    <2>1. bridge' = [c \in Bridges |-> bridge'[c]]
        BY <1>1, <1>2
    <2> QED  BY <1>1, <1>3, <1>4, <2>1
<1>6. \A c \in Bridges :
        /\ bridge'[c].of = bridge[c].of /\ bridge'[c].reused = bridge[c].reused
        /\ bridge'[c].worker => bridge[c].worker
        /\ bridge'[c].st = IF c = b /\ Alive(b) THEN "dead" ELSE bridge[c].st
    BY <1>1, <1>3 DEF BridgeRecord
<1>7. Fades
    BY <1>5, <1>6 DEF Fades
<1>8. \A c \in owned \ record : ~Alive(c)' /\ ~bridge'[c].worker
    BY <1>6 DEF IInv, Typed, Traced, Alive
<1> QED  BY <1>6, <1>7, <1>8 DEF Alive

LEMMA ListChildrenStep ==
    ASSUME IInv, NEW l \in Launchers, ListChildren(l)
    PROVE  IInv'
<1>1. PICK b : b = run[l].b
    OBVIOUS
<1>2. run[l].stage = "abort" /\ run[l].stage \in WithBridge
      /\ UNCHANGED <<bridge, record, marker, mutex, shell, helper, owned, lost>>
    BY DEF ListChildren, At, WithBridge, Starting, history
<1>3. PICK kids \in SUBSET Bridges :
        run' = [run EXCEPT ![l].stage = "abort kill", ![l].kids = kids]
    BY DEF ListChildren, Workers, Orphans
<1>4. run[l] \in RunRecord /\ b \in owned /\ run \in [Launchers -> RunRecord]
    BY <1>1, <1>2, Owner DEF IInv, Typed
<1>5. PICK r : r = [run[l] EXCEPT !.stage = "abort kill", !.kids = kids]
    OBVIOUS
<1>6. r \in RunRecord /\ r.stage = "abort kill" /\ r.b = b /\ r.of = run[l].of /\ r.child = run[l].child
      /\ r.cmd = run[l].cmd /\ r.reg = run[l].reg
    BY <1>1, <1>4, <1>5 DEF RunRecord, Stages, WithBridge, Starting
<1>7. run' = [run EXCEPT ![l] = r]
    BY <1>3, <1>4, <1>5
<1>8. Moves(l) /\ run'[l].stage = "abort kill" /\ run'[l].b = b
    BY <1>4, <1>6, <1>7 DEF Moves, OnlyRun
<1>9. Acts(l, b)
    BY <1>2, <1>8, ActsOnNothing DEF Moves, IInv, Typed
<1> QED  BY <1>1, <1>2, <1>4, <1>8, <1>9, GoesOn DEF WithBridge, Starting

LEMMA AbortKillStep ==
    ASSUME IInv, NEW l \in Launchers, AbortKill(l)
    PROVE  IInv'
<1>1. PICK b, kids : b = run[l].b /\ kids = run[l].kids
    OBVIOUS
<1>2. run[l].stage = "abort kill" /\ run[l].stage \in WithBridge
      /\ UNCHANGED <<record, marker, helper, owned>>
    BY DEF AbortKill, At, WithBridge, Starting
<1>3. b \in owned /\ b \in Bridges
    BY <1>1, <1>2, Owner
<1>4. CASE bridge' = Kill(b, kids) /\ Goto(l, "rescan") /\ UNCHANGED <<mutex, shell, lost>>
    <2>1. Moves(l) /\ run'[l].stage = "rescan" /\ run'[l].b = b
        BY <1>1, <1>4, GotoEffect DEF IInv, Stages, WithBridge, Starting
    <2>2. Fades /\ ~Alive(b)' /\ \A c \in owned \ record : ~Alive(c)' /\ ~bridge'[c].worker
        BY <1>3, <1>4, KillEffect
    <2>3. Acts(l, b)
        BY <1>2, <1>4, <2>1, <2>2 DEF Acts, Moves, IInv, Typed, Traced
    <2>4. bridge'[b].st \notin Serving
        BY <2>2 DEF Alive, Serving
    <2> QED  BY <1>1, <1>2, <1>3, <1>4, <2>1, <2>2, <2>3, <2>4, GoesOn DEF WithBridge, Starting
<1>5. CASE Fatal(l) /\ UNCHANGED bridge
    BY <1>2, <1>5, FatalStep DEF Fatal
<1> QED  BY <1>1, <1>4, <1>5 DEF AbortKill

LEMMA RescanStep ==
    ASSUME IInv, NEW l \in Launchers, Rescan(l)
    PROVE  IInv'
<1>1. PICK b : b = run[l].b
    OBVIOUS
<1>2. run[l].stage = "rescan" /\ run[l].stage \in WithBridge
      /\ UNCHANGED <<record, marker, helper, owned>>
    BY DEF Rescan, At, WithBridge, Starting
<1>3. b \in owned /\ b \in Bridges /\ ~Alive(b)
    BY <1>1, <1>2, Owner DEF IInv, Known, Knows
<1>4. CASE (\E o \in SecondLook(b) : bridge' = WithoutWorkers(o))
           /\ Goto(l, "unlink") /\ UNCHANGED <<mutex, shell, lost>>
    <2>1. Moves(l) /\ run'[l].stage = "unlink" /\ run'[l].b = b
        BY <1>1, <1>4, GotoEffect DEF IInv, Stages, WithBridge, Starting
    <2>2. PICK o \in Orphans({b}) : bridge' = WithoutWorkers(o)
        BY <1>3, <1>4 DEF SecondLook
    <2>3. Fades /\ \A c \in Bridges : bridge'[c].st = bridge[c].st
                                     /\ (bridge'[c].worker <=> bridge[c].worker /\ c \notin o)
        BY <2>2, WithoutWorkersFades
    <2>4. ~Alive(b)' /\ ~bridge'[b].worker
        BY <1>3, <2>3 DEF Orphans, Workers, Alive
    <2>5. Acts(l, b)
        BY <1>2, <1>4, <2>1, <2>3 DEF Acts, Moves, IInv, Typed, Traced, Alive
    <2> QED  BY <1>1, <1>2, <1>3, <1>4, <2>1, <2>4, <2>5, GoesOn DEF WithBridge, Starting
<1>5. CASE Fatal(l) /\ UNCHANGED bridge
    BY <1>2, <1>5, FatalStep DEF Fatal
<1> QED  BY <1>1, <1>4, <1>5 DEF Rescan

LEMMA UnlinkStep ==
    ASSUME IInv, NEW l \in Launchers, Unlink(l)
    PROVE  IInv'
<1>1. PICK b : b = run[l].b
    OBVIOUS
<1>2. run[l].stage = "unlink" /\ run[l].stage \in WithBridge /\ Fails(l)
      /\ UNCHANGED <<bridge, marker, helper, owned>>
    BY DEF Unlink, At, WithBridge, Starting
<1>3. Inside(l) /\ b \in owned /\ b \in Bridges /\ ~Alive(b) /\ ~bridge[b].worker
    BY <1>1, <1>2, Owner DEF IInv, Known, Knows
<1>4. CASE record' = record \ {b} /\ UNCHANGED lost
    <2>1. OnlyRun(l) /\ \E ok, created \in BOOLEAN : Ended(l, ok, created)
        BY <1>2, FailsEffect
    <2>2. Acts(l, b)
        BY <1>2, <1>3, <1>4, <2>1 DEF Acts, Fades, IInv, Typed, Traced, Alive
    <2>3. LeavesWell(l, b)
        BY <1>2, <1>3 DEF LeavesWell, Starting
    <2> QED  BY <1>1, <1>2, <1>3, <2>1, <2>2, <2>3, LauncherStep
<1>5. CASE lost' = Leaves(l) /\ UNCHANGED record
    BY <1>2, <1>5, FatalStep
<1> QED  BY <1>1, <1>4, <1>5 DEF Unlink

LEMMA LookStep ==
    ASSUME IInv, NEW l \in Launchers, Look(l)
    PROVE  IInv'
<1>0. PICK i : i = run[l].of
    OBVIOUS
<1>1. Inside(l) /\ run[l].stage = "look" /\ run[l].stage \notin WithBridge /\ run[l].b = None
    BY Bare DEF Look, At, Inside, Outside, WithBridge, Starting
<1>2. UNCHANGED <<marker, helper, owned, lost>> /\ lost \subseteq Instances
    BY DEF Look, history, IInv, Typed
<1>3. CASE Fails(l) /\ UNCHANGED <<bridge, record>>
    BY <1>1, <1>2, <1>3, FailsEffect, ActsOnNothing, BareStep
<1>4. ASSUME NEW s \in SUBSET DeadRecords(i), Cleaned(i, s), Ended(l, s = DeadRecords(i), FALSE)
      PROVE  IInv'
    <2>1. OnlyRun(l)
        BY <1>4, EndedEffect DEF IInv
    <2>2. Acts(l, None)
        BY <1>2, <1>4, <2>1, CleanedActs
    <2>3. \E ok, created \in BOOLEAN : Ended(l, ok, created)
        BY <1>4
    <2> QED  BY <1>1, <1>2, <2>2, <2>3, BareStep
<1>5. ASSUME UNCHANGED <<record, mutex, shell>>, NEW b \in Verified(i),
             run' = [run EXCEPT ![l].stage = "exit", ![l].b = b, ![l].kids = Workers \cap {b}],
             \/ bridge[b].st = "ready" /\ bridge' = [bridge EXCEPT ![b].st = "closing"]
             \/ UNCHANGED bridge
      PROVE  IInv'
    <2>1. b \in record /\ b \in owned /\ b \in Bridges /\ bridge[b].of = i /\ Alive(b)
        BY <1>5 DEF Verified, LiveRecords, Recorded, Of, IInv, Traced
    <2>2. PICK r : r = [run[l] EXCEPT !.stage = "exit", !.b = b, !.kids = Workers \cap {b}]
        OBVIOUS
    <2>3. run[l] \in RunRecord /\ run \in [Launchers -> RunRecord] /\ Workers \cap {b} \subseteq Bridges
        BY <2>1 DEF IInv, Typed
    <2>4. r \in RunRecord /\ r.stage = "exit" /\ r.b = b /\ r.of = i /\ r.child = run[l].child
          /\ r.cmd = run[l].cmd /\ r.reg = run[l].reg
        BY <1>0, <2>1, <2>2, <2>3 DEF RunRecord, Stages, WithBridge
    <2>5. run' = [run EXCEPT ![l] = r]
        BY <1>5, <2>2, <2>3
    <2>6. Moves(l) /\ run'[l].stage = "exit" /\ run'[l].b = b /\ run'[l].of = i
        BY <1>0, <2>3, <2>4, <2>5 DEF Moves, OnlyRun
    <2>7. Fades
        <3>1. CASE UNCHANGED bridge
            BY <3>1 DEF Fades, IInv, Typed
        <3>2. CASE bridge[b].st = "ready" /\ bridge' = [bridge EXCEPT ![b].st = "closing"]
            <4>1. bridge[b] \in BridgeRecord /\ bridge \in [Bridges -> BridgeRecord]
                BY <2>1 DEF IInv, Typed
            <4>2. PICK c : c = [bridge[b] EXCEPT !.st = "closing"]
                OBVIOUS
            <4>3. c \in BridgeRecord /\ c.st = "closing" /\ c.of = bridge[b].of
                  /\ c.reused = bridge[b].reused /\ c.worker = bridge[b].worker
                BY <4>1, <4>2 DEF BridgeRecord
            <4>4. bridge' = [bridge EXCEPT ![b] = c]
                BY <3>2, <4>1, <4>2
            <4> QED  BY <2>1, <3>2, <4>1, <4>3, <4>4 DEF Fades
        <3> QED  BY <1>5, <3>1, <3>2
    <2>8. \A c \in owned' \ record' : ~Alive(c)' /\ ~bridge'[c].worker
        BY <1>2, <1>5, <2>7 DEF Fades, IInv, Typed, Traced, Alive
    <2>9. Acts(l, None)
        BY <1>2, <1>5, <2>6, <2>7, <2>8 DEF Acts, Moves, IInv, Typed, Traced
    <2>10. bridge'[b].of = i /\ bridge'[b].st # "none" /\ b # None
        BY <2>1, <2>7, StartAssumption DEF Fades, Alive
    <2>11. Knows(l)' /\ run'[l].stage \notin Outside
        BY <1>2, <2>1, <2>6, <2>10 DEF Knows, WithBridge, Starting, Outside
    <2> QED  BY <1>1, <1>2, <1>5, <2>6, <2>9, <2>11, BareStep
<1> QED  BY <1>0, <1>3, <1>4, <1>5 DEF Look

LEMMA AwaitExitStep ==
    ASSUME IInv, NEW l \in Launchers, AwaitExit(l)
    PROVE  IInv'
<1>1. PICK b : b = run[l].b
    OBVIOUS
<1>2. run[l].stage = "exit" /\ run[l].stage \in WithBridge
      /\ UNCHANGED <<record, marker, helper, owned, lost>>
    BY DEF AwaitExit, At, WithBridge, history
<1>3. Inside(l) /\ b \in owned /\ b \in Bridges
    BY <1>1, <1>2, Owner
<1>4. CASE bridge' = WithoutWorkers(run[l].kids) /\ Ended(l, TRUE, FALSE)
    <2>1. OnlyRun(l)
        BY <1>4, EndedEffect DEF IInv
    <2>2. Fades /\ \A c \in Bridges : bridge'[c].st = bridge[c].st
                                     /\ (bridge'[c].worker => bridge[c].worker)
        BY <1>4, WithoutWorkersFades
    <2>3. Acts(l, b)
        BY <1>2, <2>1, <2>2 DEF Acts, IInv, Typed, Traced, Alive
    <2>4. LeavesWell(l, b)
        BY <1>2, <1>3 DEF LeavesWell, Starting
    <2> QED  BY <1>1, <1>2, <1>3, <1>4, <2>3, <2>4, LauncherStep
<1>5. CASE /\ run' = [run EXCEPT ![l].stage = "stop kill", ![l].kids = @ \cup (Workers \cap {b})]
           /\ UNCHANGED <<bridge, mutex, shell>>
    <2>1. run[l] \in RunRecord /\ run \in [Launchers -> RunRecord] /\ Workers \subseteq Bridges
        BY DEF IInv, Typed, Workers
    <2>2. PICK r : r = [run[l] EXCEPT !.stage = "stop kill", !.kids = run[l].kids \cup (Workers \cap {b})]
        OBVIOUS
    <2>3. r \in RunRecord /\ r.stage = "stop kill" /\ r.b = b /\ r.of = run[l].of
          /\ r.child = run[l].child /\ r.cmd = run[l].cmd /\ r.reg = run[l].reg
        BY <1>1, <2>1, <2>2 DEF RunRecord, Stages, WithBridge
    <2>4. run' = [run EXCEPT ![l] = r]
        BY <1>5, <2>1, <2>2
    <2>5. Moves(l) /\ run'[l].stage = "stop kill" /\ run'[l].b = b
        BY <2>1, <2>3, <2>4 DEF Moves, OnlyRun
    <2>6. Acts(l, b)
        BY <1>2, <1>5, <2>5, ActsOnNothing DEF Moves, IInv, Typed
    <2> QED  BY <1>1, <1>2, <1>3, <1>5, <2>5, <2>6, GoesOn DEF WithBridge, Starting
<1> QED  BY <1>1, <1>4, <1>5 DEF AwaitExit

LEMMA StopKillStep ==
    ASSUME IInv, NEW l \in Launchers, StopKill(l)
    PROVE  IInv'
<1>1. PICK b : b = run[l].b
    OBVIOUS
<1>2. run[l].stage = "stop kill" /\ run[l].stage \in WithBridge
      /\ UNCHANGED <<record, marker, helper, owned, lost>>
    BY DEF StopKill, At, WithBridge, history
<1>3. Inside(l) /\ b \in owned /\ b \in Bridges
    BY <1>1, <1>2, Owner
<1>4. OnlyRun(l) /\ \E ok, created \in BOOLEAN : Ended(l, ok, created)
    BY EndedEffect, FailsEffect DEF StopKill, IInv
<1>5. Acts(l, b)
    <2>1. CASE UNCHANGED bridge
        BY <1>2, <1>4, <2>1, ActsOnNothing DEF IInv, Typed
    <2>2. CASE bridge' = Kill(b, run[l].kids)
        <3>1. Fades /\ \A c \in owned \ record : ~Alive(c)' /\ ~bridge'[c].worker
            BY <1>3, <2>2, KillEffect
        <3> QED  BY <1>2, <1>4, <3>1 DEF Acts, IInv, Typed, Traced
    <2> QED  BY <1>1, <2>1, <2>2 DEF StopKill
<1>6. LeavesWell(l, b)
    BY <1>2, <1>3 DEF LeavesWell, Starting
<1> QED  BY <1>1, <1>2, <1>3, <1>4, <1>5, <1>6, LauncherStep

-----------------------------------------------------------------------------
(* Steps outside the mutex, taking it, and starting a bridge *)

\* Nothing changes for those inside.
InsideSame ==
    /\ run' \in [Launchers -> RunRecord]
    /\ \A k \in Launchers :
         /\ Inside(k)' <=> Inside(k)
         /\ run'[k].b = run[k].b
         /\ Inside(k) => run'[k].stage = run[k].stage /\ run'[k].of = run[k].of

LEMMA TracksHold ==
    ASSUME IInv, InsideSame, UNCHANGED <<bridge, record, owned, marker, mutex>>,
           lost \subseteq lost'
    PROVE  Tracks'
<1> USE DEF IInv, InsideSame
<1>1. Held'
    BY DEF Held
<1>2. Known'
    <2> SUFFICES ASSUME NEW k \in Launchers  PROVE Knows(k)'
        BY DEF Known
    <2>1. CASE Inside(k)
        BY <2>1 DEF Known, Knows, LiveRecords, Recorded, Of, Alive
    <2>2. CASE ~Inside(k)
        <3>1. run[k].stage \in Outside /\ run'[k].stage \in Outside
            BY <2>2 DEF Inside
        <3>2. run'[k].b = None
            BY <3>1 DEF Known, Knows, WithBridge, Starting, Outside
        <3> QED  BY <3>1, <3>2 DEF Knows, WithBridge, Starting, Outside
    <2> QED  BY <2>1, <2>2
<1>3. \A b : AtWork(b)' <=> AtWork(b)
    BY DEF AtWork
<1>4. \A b : Launching(b) => Launching(b)'
    BY DEF Launching, Inside, Starting, Outside
<1>5. Traced'
    BY <1>3 DEF Traced, Alive
<1>6. Marked'
    BY <1>4 DEF Marked
<1> QED  BY <1>1, <1>2, <1>5, <1>6 DEF Tracks

LEMMA OutsideEnds ==
    ASSUME IInv, NEW l \in Launchers, run[l].stage \in {"admit", "mark", "mutex"}, Fails(l),
           UNCHANGED <<bridge, record, owned, marker, helper, lost>>
    PROVE  IInv'
<1>1. ~Inside(l) /\ run[l].stage # "idle"
    BY DEF Inside, Outside
<1>2. run[l].b = None /\ mutex[run[l].of] # l
    BY <1>1 DEF IInv, Known, Knows, Held, WithBridge, Starting, Typed, RunRecord
<1>3. mutex' = mutex /\ OnlyRun(l) /\ run'[l] = Idle /\ shell' \in [Instances -> ShellRecord]
    BY <1>2, EndedEffect DEF Fails, Ended, IInv
<1>4. InsideSame
    <2>1. Idle.b = None /\ Idle.stage = "idle"
        BY DEF Idle
    <2>2. run' \in [Launchers -> RunRecord] /\ \A k \in Launchers : k # l => run'[k] = run[k]
        BY <1>3 DEF OnlyRun
    <2> QED  BY <1>1, <1>2, <1>3, <2>1, <2>2 DEF InsideSame, Inside, Outside
<1>5. Tracks'
    BY <1>3, <1>4, TracksHold
<1>6. Children' /\ Alone'
    BY <1>1, EndedGate DEF Fails, NoneRegisters, Registered
<1>7. Typed'
    BY <1>3 DEF IInv, Typed, OnlyRun
<1> QED  BY <1>5, <1>6, <1>7 DEF IInv, Tracks

LEMMA AdmitStep ==
    ASSUME IInv, NEW l \in Launchers, Admit(l)
    PROVE  IInv'
<1>1. run[l].stage = "admit" /\ UNCHANGED <<bridge, record, owned, marker, helper, lost>>
    BY DEF Admit, At, history
<1>2. CASE Fails(l)
    BY <1>1, <1>2, OutsideEnds
<1>3. CASE /\ ~Claimed /\ UNCHANGED mutex
           /\ run' = [run EXCEPT ![l].stage = "mark", ![l].reg = TRUE]
           /\ shell' = IF run[l].child THEN [shell EXCEPT ![run[l].of].reg = TRUE] ELSE shell
    <2>1. run[l] \in RunRecord /\ run \in [Launchers -> RunRecord] /\ run[l].of \in Instances
          /\ shell \in [Instances -> ShellRecord]
        BY DEF IInv, Typed, RunRecord
    <2>2. PICK r : r = [run[l] EXCEPT !.stage = "mark", !.reg = TRUE]
        OBVIOUS
    <2>3. r \in RunRecord /\ r.stage = "mark" /\ r.b = run[l].b /\ r.of = run[l].of
          /\ r.child = run[l].child /\ r.cmd = run[l].cmd
        BY <2>1, <2>2 DEF RunRecord, Stages, Outside
    <2>4. run' = [run EXCEPT ![l] = r]
        BY <1>3, <2>1, <2>2
    <2>5. run' \in [Launchers -> RunRecord] /\ \A k \in Launchers : run'[k] = IF k = l THEN r ELSE run[k]
        BY <2>1, <2>3, <2>4
    <2>6. PICK s : s = [shell[run[l].of] EXCEPT !.reg = TRUE]
        OBVIOUS
    <2>7. s \in ShellRecord /\ s.reg = TRUE /\ s.st = shell[run[l].of].st
        BY <2>1, <2>6 DEF ShellRecord
    <2>8. shell' = IF run[l].child THEN [shell EXCEPT ![run[l].of] = s] ELSE shell
        BY <1>3, <2>1, <2>6
    <2>9. /\ shell' \in [Instances -> ShellRecord]
          /\ \A i \in Instances : shell'[i].st = shell[i].st /\ (shell[i].reg => shell'[i].reg)
          /\ run[l].child => shell'[run[l].of].reg
        BY <2>1, <2>7, <2>8
    <2>10. Typed'
        BY <1>1, <1>3, <2>5, <2>9 DEF IInv, Typed
    <2>11. InsideSame
        BY <1>1, <2>3, <2>5 DEF InsideSame, Inside, Outside
    <2>12. Tracks'
        BY <1>1, <1>3, <2>11, TracksHold
    <2>13. Children'
        <3>1. \A k \in Launchers : /\ run'[k].child = run[k].child /\ run'[k].of = run[k].of
                                   /\ run'[k].cmd = run[k].cmd /\ run[k].of \in Instances
            BY <2>3, <2>5 DEF IInv, Typed, RunRecord
        <3>2. \A k \in Launchers : run'[k].child =>
                /\ run'[k].stage # "idle" /\ shell'[run'[k].of].st \in Waiting
                /\ shell'[run'[k].of].st = "starting" => run'[k].cmd = "start"
            BY <2>3, <2>5, <2>9, <3>1 DEF IInv, Children
        <3>3. \A k \in Launchers : run'[k].child =>
                (run'[k].cmd = "start" /\ run'[k].stage # "admit" => shell'[run'[k].of].reg)
            BY <2>3, <2>5, <2>9, <3>1 DEF IInv, Children
        <3>4. \A i \in Instances : shell'[i].st \notin {"off", "starting"} => shell'[i].reg
            BY <2>9 DEF IInv, Children
        <3>5. \A k, m \in Launchers : run'[k].child /\ run'[m].child /\ run'[k].of = run'[m].of => k = m
            BY <3>1 DEF IInv, Children
        <3> QED  BY <3>2, <3>3, <3>4, <3>5 DEF Children
    <2>14. Alone'
        BY <1>1, <1>3 DEF Alone, Claimed
    <2> QED  BY <2>10, <2>12, <2>13, <2>14 DEF IInv, Tracks
<1> QED  BY <1>2, <1>3 DEF Admit

LEMMA MarkStep ==
    ASSUME IInv, NEW l \in Launchers, At(l, "mark"), CheckMark(l)
    PROVE  IInv'
<1>1. run[l].stage = "mark" /\ UNCHANGED <<bridge, record, owned, marker, helper, lost>>
    BY DEF CheckMark, At, history
<1>2. CASE Fails(l)
    BY <1>1, <1>2, OutsideEnds
<1>3. CASE Goto(l, "mutex") /\ UNCHANGED <<mutex, shell>>
    <2>1. Moves(l) /\ run'[l].stage = "mutex" /\ run'[l].b = run[l].b
        BY <1>3, GotoEffect DEF IInv, Stages, Outside
    <2>2. InsideSame
        BY <1>1, <2>1 DEF InsideSame, Inside, Outside, Moves, OnlyRun
    <2>3. Tracks'
        BY <1>1, <1>3, <2>2, TracksHold
    <2>4. Children' /\ Alone'
        BY <1>1, <1>3, <2>1, MovesGate DEF NoneRegisters, Registered
    <2>5. Typed'
        BY <1>1, <1>3, <2>2 DEF InsideSame, IInv, Typed
    <2> QED  BY <2>3, <2>4, <2>5 DEF IInv, Tracks
<1> QED  BY <1>1, <1>2, <1>3 DEF CheckMark, At

LEMMA TakeStep ==
    ASSUME IInv, NEW l \in Launchers, Take(l)
    PROVE  IInv'
<1>1. run[l].stage = "mutex" /\ UNCHANGED <<bridge, record, owned, marker, helper, lost>>
    BY DEF Take, At, history
<1>2. CASE Fails(l)
    BY <1>1, <1>2, OutsideEnds
<1>3. ASSUME mutex[run[l].of] = None, mutex' = [mutex EXCEPT ![run[l].of] = l],
             NEW s \in {"look", "mark again"}, Goto(l, s), UNCHANGED shell
      PROVE  IInv'
    <2>1. Moves(l) /\ run'[l].stage = s /\ run'[l].b = run[l].b
        BY <1>3, GotoEffect DEF IInv, Stages
    <2>2. ~Inside(l) /\ Inside(l)' /\ run[l].b = None /\ run[l].of \in Instances
        BY <1>1, <1>3, <2>1
           DEF Inside, Outside, IInv, Known, Knows, WithBridge, Starting, Typed, RunRecord
    <2>3. \A k \in Launchers : run'[k].of = run[k].of /\ run'[k].b = run[k].b
                              /\ (k # l => run'[k].stage = run[k].stage)
        BY <2>1 DEF Moves, OnlyRun
    <2>4. mutex' \in [Instances -> Launchers \cup {None}]
          /\ \A i \in Instances : mutex'[i] = IF i = run[l].of THEN l ELSE mutex[i]
        BY <1>3, <2>2 DEF IInv, Typed
    <2>5. Held'
        <3>1. \A k \in Launchers : Inside(k)' => mutex'[run'[k].of] = k
            <4>1. ASSUME NEW k \in Launchers, k # l, Inside(k)'  PROVE mutex'[run'[k].of] = k
                <5>1. Inside(k) /\ mutex[run[k].of] = k
                    BY <2>3, <4>1 DEF Inside, IInv, Held
                <5>2. run[k].of # run[l].of
                    BY <1>3, <5>1, StartAssumption
                <5>3. run[k].of \in Instances
                    BY DEF IInv, Typed, RunRecord
                <5> QED  BY <2>3, <2>4, <5>1, <5>2, <5>3
            <4> QED  BY <2>2, <2>3, <2>4, <4>1
        <3>2. \A i \in Instances, k \in Launchers : mutex'[i] = k => run'[k].of = i /\ Inside(k)'
            <4> SUFFICES ASSUME NEW i \in Instances, NEW k \in Launchers, mutex'[i] = k
                         PROVE  run'[k].of = i /\ Inside(k)'
                OBVIOUS
            <4>1. CASE i = run[l].of
                BY <2>2, <2>3, <2>4, <4>1
            <4>2. CASE i # run[l].of
                <5>1. run[k].of = i /\ Inside(k)
                    BY <2>4, <4>2 DEF IInv, Held
                <5> QED  BY <2>2, <2>3, <5>1 DEF Inside
            <4> QED  BY <4>1, <4>2
        <3> QED  BY <3>1, <3>2 DEF Held
    <2>6. Known'
        <3>1. ASSUME NEW k \in Launchers, k # l  PROVE Knows(k)'
            <4>1. run'[k] = run[k] /\ Knows(k)
                BY <2>1, <3>1 DEF Moves, OnlyRun, IInv, Known
            <4> QED  BY <1>1, <4>1 DEF Knows, LiveRecords, Recorded, Of, Alive
        <3>2. Knows(l)'
            BY <1>3, <2>1, <2>2 DEF Knows, WithBridge, Starting
        <3> QED  BY <3>1, <3>2 DEF Known
    <2>7. \A b : AtWork(b)' <=> AtWork(b)
        BY <2>3 DEF AtWork
    <2>8. Traced'
        BY <1>1, <2>7 DEF IInv, Traced, Alive
    <2>9. \A b : Launching(b) => Launching(b)'
        BY <1>1, <2>3 DEF Launching, Starting
    <2>10. Marked'
        BY <1>1, <2>9 DEF IInv, Marked
    <2>11. Children' /\ Alone'
        BY <1>1, <1>3, <2>1, MovesGate DEF NoneRegisters, Registered
    <2>12. Typed'
        BY <1>1, <1>3, <2>1, <2>4 DEF Moves, OnlyRun, IInv, Typed
    <2> QED  BY <2>5, <2>6, <2>8, <2>10, <2>11, <2>12 DEF IInv
<1> QED  BY <1>2, <1>3 DEF Take

LEMMA KillLauncherStep ==
    ASSUME IInv, NEW l \in Launchers, KillLauncher(l)
    PROVE  IInv'
<1>1. Fails(l) /\ lost' = Leaves(l) /\ UNCHANGED <<bridge, record, marker, helper, owned>>
      /\ run[l].stage # "idle"
    BY DEF KillLauncher, At
<1>2. CASE run[l].stage \in WithBridge
    BY <1>1, <1>2, FatalStep
<1>3. CASE run[l].stage \notin WithBridge
    <2>1. run[l].b = None /\ lost' = lost /\ lost \subseteq Instances
        BY <1>1, <1>3, Bare DEF Leaves, IInv, Typed
    <2>2. CASE Inside(l)
        BY <1>1, <1>3, <2>1, <2>2, FailsEffect, ActsOnNothing, BareStep
    <2>3. CASE ~Inside(l)
        BY <1>1, <2>1, <2>3, OutsideEnds DEF Inside, Outside
    <2> QED  BY <2>2, <2>3
<1> QED  BY <1>2, <1>3

LEMMA SpawnStep ==
    ASSUME IInv, NEW l \in Launchers, Spawn(l)
    PROVE  IInv'
<1> USE DEF IInv
<1>0. PICK i : i = run[l].of
    OBVIOUS
<1>1. Inside(l) /\ run[l].stage = "spawn" /\ run[l].stage \notin WithBridge /\ run[l].b = None
      /\ i \in Instances
    BY <1>0, Bare DEF Spawn, At, Inside, Outside, WithBridge, Starting, Typed, RunRecord
<1>2. UNCHANGED <<record, marker, helper, lost>> /\ lost \subseteq Instances
    BY DEF Spawn, Typed
<1>3. CASE Fails(l) /\ UNCHANGED <<bridge, owned>>
    BY <1>1, <1>2, <1>3, FailsEffect, ActsOnNothing, BareStep
<1>4. ASSUME NEW b \in Bridges, ~Alive(b), ~bridge[b].worker, b \notin record, ~AtWork(b),
             bridge' = [bridge EXCEPT ![b] = [NoBridge EXCEPT !.st = "booting", !.of = run[l].of]],
             run' = [run EXCEPT ![l].stage = "record", ![l].b = b],
             owned' = owned \ {b}, UNCHANGED <<mutex, shell>>
      PROVE  IInv'
    <2>1. PICK r, n : /\ r = [run[l] EXCEPT !.stage = "record", !.b = b]
                      /\ n = [NoBridge EXCEPT !.st = "booting", !.of = i]
        OBVIOUS
    <2>2. run[l] \in RunRecord /\ run \in [Launchers -> RunRecord]
          /\ bridge \in [Bridges -> BridgeRecord] /\ b # None
        BY StartAssumption DEF Typed
    <2>3. r \in RunRecord /\ r.stage = "record" /\ r.b = b /\ r.of = i
          /\ r.child = run[l].child /\ r.cmd = run[l].cmd /\ r.reg = run[l].reg
        BY <1>0, <2>1, <2>2 DEF RunRecord, Stages, WithBridge, Starting
    <2>4. n \in BridgeRecord /\ n.st = "booting" /\ n.of = i /\ ~n.worker /\ ~n.reused
        BY <1>1, <2>1 DEF NoBridge, BridgeRecord
    <2>5. run' = [run EXCEPT ![l] = r] /\ bridge' = [bridge EXCEPT ![b] = n]
        BY <1>0, <1>4, <2>1, <2>2
    <2>6. Moves(l) /\ run'[l] = r
        BY <1>0, <2>2, <2>3, <2>5 DEF Moves, OnlyRun
    <2>7. bridge' \in [Bridges -> BridgeRecord] /\ bridge'[b] = n
          /\ \A c \in Bridges : c # b => bridge'[c] = bridge[c]
        BY <2>2, <2>4, <2>5
    <2>8. \A j : LiveRecords(j)' \subseteq LiveRecords(j)
        BY <1>2, <1>4, <2>7 DEF LiveRecords, Recorded, Of, Alive
    <2>9. \A k \in Launchers : k # l => run'[k] = run[k] /\ run[k].b # b
        BY <1>4, <2>6 DEF Moves, OnlyRun, AtWork
    <2>10. Held'
        <3>1. \A k \in Launchers : run'[k].of = run[k].of /\ (Inside(k)' <=> Inside(k))
            BY <1>0, <1>1, <2>3, <2>6, <2>9 DEF Inside, Outside
        <3> QED  BY <1>4, <3>1 DEF Held
    <2>11. Known'
        <3>1. ASSUME NEW k \in Launchers, k # l  PROVE Knows(k)'
            <4>1. run'[k] = run[k] /\ Knows(k) /\ run[k].b # b
                BY <2>9, <3>1 DEF Known
            <4>2. PICK c : c = run[k].b
                OBVIOUS
            <4>3. c # None => c \in Bridges
                BY <4>2 DEF Typed, RunRecord
            <4>4. c # None => bridge'[c] = bridge[c]
                BY <2>7, <4>1, <4>2, <4>3
            <4>5. c # None => (c \in owned' <=> c \in owned)
                BY <1>4, <4>1, <4>2
            <4>6. LiveRecords(run[k].of) = {} => LiveRecords(run[k].of)' = {}
                <5>1. PICK j : j = run[k].of
                    OBVIOUS
                <5> QED  BY <2>8, <4>1, <5>1 DEF LiveRecords, Recorded, Of
            <4> QED  BY <4>1, <4>2, <4>4, <4>5, <4>6 DEF Knows, WithBridge, Starting, Alive
        <3>2. Knows(l)'
            <4>1. LiveRecords(i) = {}
                BY <1>0, <1>1 DEF Known, Knows
            <4>2. LiveRecords(i)' = {} /\ b \notin owned' /\ bridge'[b].of = i /\ bridge'[b].st # "none"
                BY <1>4, <2>4, <2>7, <2>8, <4>1
            <4>3. run'[l].b = b /\ run'[l].of = i /\ run'[l].stage = "record"
                BY <2>3, <2>6
            <4> QED  BY <2>2, <4>2, <4>3 DEF Knows, WithBridge, Starting
        <3> QED  BY <3>1, <3>2 DEF Known
    <2>12. AtWork(b)' /\ Launching(b)'
        BY <2>3, <2>6 DEF AtWork, Launching, Starting
    <2>13. \A c \in Bridges : (AtWork(c) => AtWork(c)') /\ (Launching(c) => Launching(c)')
        BY <1>1, <2>2, <2>9, StartAssumption DEF AtWork, Launching
    <2>14. Traced'
        BY <1>2, <1>4, <2>4, <2>7, <2>12, <2>13 DEF Traced, Typed, Alive
    <2>15. Marked'
        BY <1>2, <2>7, <2>12, <2>13 DEF Marked
    <2>16. Children' /\ Alone'
        <3>1. NoneRegisters
            BY <2>4, <2>7 DEF NoneRegisters, Registered
        <3> QED  BY <1>1, <1>2, <1>4, <2>3, <2>6, <3>1, MovesGate
    <2>17. Typed'
        BY <1>2, <1>4, <2>6, <2>7 DEF Typed, Moves, OnlyRun
    <2> QED  BY <2>10, <2>11, <2>14, <2>15, <2>16, <2>17
<1> QED  BY <1>0, <1>3, <1>4 DEF Spawn

-----------------------------------------------------------------------------
(* The user, the shell, its monitor and the updater *)

Childless(i) == \A l \in Launchers : ~(run[l].child /\ run[l].of = i)

LEMMA LaunchEffect ==
    ASSUME IInv, NEW i \in Instances, NEW cmd \in {"start", "stop", "recovery"},
           NEW child \in BOOLEAN, Launch(i, cmd, child)
    PROVE  /\ InsideSame
           /\ \E l \in Launchers :
                /\ \A k \in Launchers : k # l => run'[k] = run[k]
                /\ run[l].stage = "idle" /\ run'[l].stage \in {"mutex", "admit"}
                /\ cmd = "start" => run'[l].stage = "admit"
                /\ run'[l].of = i /\ run'[l].cmd = cmd /\ run'[l].child = child /\ ~run'[l].reg
<1>1. PICK l \in Launchers :
        /\ At(l, "idle")
        /\ run' = [run EXCEPT ![l] = [Idle EXCEPT !.stage = IF cmd = "stop" THEN "mutex" ELSE "admit",
                                                  !.cmd = cmd, !.of = i, !.child = child]]
    BY DEF Launch
<1>2. PICK r : r = [Idle EXCEPT !.stage = IF cmd = "stop" THEN "mutex" ELSE "admit",
                                !.cmd = cmd, !.of = i, !.child = child]
    OBVIOUS
<1>3. r \in RunRecord /\ r.b = None /\ r.of = i /\ r.cmd = cmd /\ r.child = child /\ ~r.reg
      /\ r.stage \in {"mutex", "admit"} /\ (cmd = "start" => r.stage = "admit")
    BY <1>2 DEF Idle, RunRecord, Stages, Outside
<1>4. run \in [Launchers -> RunRecord] /\ run[l].stage = "idle" /\ run[l].b = None
    BY <1>1 DEF IInv, Typed, At, Known, Knows, WithBridge, Starting
<1>5. run' \in [Launchers -> RunRecord] /\ \A k \in Launchers : run'[k] = IF k = l THEN r ELSE run[k]
    BY <1>1, <1>2, <1>3, <1>4
<1>6. InsideSame
    BY <1>3, <1>4, <1>5 DEF InsideSame, Inside, Outside
<1> QED  BY <1>3, <1>4, <1>5, <1>6

\* One shell changes, with or without a launcher of its own.
LEMMA ShellStep ==
    ASSUME IInv, NEW i \in Instances, NEW s \in ShellRecord, shell' = [shell EXCEPT ![i] = s],
           UNCHANGED <<bridge, record, marker, mutex, owned, lost>>,
           helper' = helper \/ (helper = "none" /\ helper' = "born"),
           s.st \notin {"off", "starting"} => s.reg,
           Claimed => (s.reg => s.st = "handoff"),
           \/ UNCHANGED run /\ Childless(i)
           \/ \E cmd \in {"start", "stop"} : Launch(i, cmd, FALSE) /\ s = shell[i]
           \/ \E cmd \in {"start", "stop", "recovery"} :
                /\ Launch(i, cmd, TRUE) /\ Childless(i) /\ s.st \in Waiting
                /\ s.st = "starting" => cmd = "start"
    PROVE  IInv'
<1>1. InsideSame
    <2>1. CASE UNCHANGED run
        BY <2>1 DEF InsideSame, Inside, IInv, Typed
    <2> QED  BY <2>1, LaunchEffect
<1>2. Tracks'
    BY <1>1, TracksHold
<1>3. /\ shell' \in [Instances -> ShellRecord]
      /\ \A j \in Instances : shell'[j] = IF j = i THEN s ELSE shell[j]
    BY DEF IInv, Typed
<1>4. Typed'
    BY <1>1, <1>3 DEF InsideSame, IInv, Typed
<1>5. \A j \in Instances : shell'[j].st \notin {"off", "starting"} => shell'[j].reg
    BY <1>3 DEF IInv, Children
<1>6. \A k \in Launchers : run[k].of \in Instances
    BY DEF IInv, Typed, RunRecord
<1>7. CASE UNCHANGED run /\ Childless(i)
    <2>1. Children'
        BY <1>3, <1>5, <1>6, <1>7 DEF IInv, Children, Childless
    <2>2. Alone'
        BY <1>3, <1>7 DEF IInv, Alone, Claimed, Registered
    <2> QED  BY <1>2, <1>4, <2>1, <2>2 DEF IInv, Tracks
<1>8. ASSUME NEW cmd \in {"start", "stop", "recovery"}, NEW child \in BOOLEAN, Launch(i, cmd, child),
             child => Childless(i) /\ s.st \in Waiting /\ (s.st = "starting" => cmd = "start"),
             ~child => s = shell[i]
      PROVE  IInv'
    <2>1. PICK l \in Launchers :
                /\ \A k \in Launchers : k # l => run'[k] = run[k]
                /\ run[l].stage = "idle" /\ run'[l].stage \in {"mutex", "admit"}
                /\ cmd = "start" => run'[l].stage = "admit"
                /\ run'[l].of = i /\ run'[l].cmd = cmd /\ run'[l].child = child /\ ~run'[l].reg
        BY <1>8, LaunchEffect
    <2>2. ~run[l].child
        BY <2>1 DEF IInv, Children
    <2>3. Alone'
        <3> SUFFICES ASSUME Claimed  PROVE Alone'
            BY DEF Alone, Claimed
        <3>1. \A b \in Bridges : ~Registered(b)'
            BY DEF IInv, Alone, Registered
        <3>2. \A k \in Launchers : ~run'[k].reg
            BY <2>1 DEF IInv, Alone
        <3>3. \A j \in Instances : shell'[j].reg => shell'[j].st = "handoff"
            BY <1>3 DEF IInv, Alone
        <3> QED  BY <3>1, <3>2, <3>3 DEF Alone
    <2>4. \A k \in Launchers : k # l /\ run'[k].child =>
             run'[k] = run[k] /\ run[k].child /\ shell'[run[k].of] = shell[run[k].of]
        <3> SUFFICES ASSUME NEW k \in Launchers, k # l, run'[k].child
                     PROVE  run'[k] = run[k] /\ run[k].child /\ shell'[run[k].of] = shell[run[k].of]
            OBVIOUS
        <3>1. run'[k] = run[k] /\ run[k].child
            BY <2>1
        <3> QED  BY <1>3, <1>6, <1>8, <3>1 DEF Childless
    <2>5. run'[l].child => shell'[run'[l].of].st = s.st
        BY <1>3, <2>1
    <2>6. Children'
        <3>1. \A k \in Launchers : run'[k].child =>
                /\ run'[k].stage # "idle" /\ shell'[run'[k].of].st \in Waiting
                /\ shell'[run'[k].of].st = "starting" => run'[k].cmd = "start"
                /\ run'[k].cmd = "start" /\ run'[k].stage # "admit" => shell'[run'[k].of].reg
            <4>1. ASSUME NEW k \in Launchers, k # l, run'[k].child
                  PROVE  /\ run'[k].stage # "idle" /\ shell'[run'[k].of].st \in Waiting
                         /\ shell'[run'[k].of].st = "starting" => run'[k].cmd = "start"
                         /\ run'[k].cmd = "start" /\ run'[k].stage # "admit" => shell'[run'[k].of].reg
                BY <2>4, <4>1 DEF IInv, Children
            <4> QED  BY <1>8, <2>1, <2>5, <4>1
        <3>2. \A k, m \in Launchers : run'[k].child /\ run'[m].child /\ run'[k].of = run'[m].of => k = m
            BY <1>8, <2>1, <2>4 DEF IInv, Children, Childless
        <3> QED  BY <1>5, <3>1, <3>2 DEF Children
    <2> QED  BY <1>2, <1>4, <2>3, <2>6 DEF IInv, Tracks
<1> QED  BY <1>7, <1>8

LEMMA Unattended ==
    ASSUME IInv, NEW i \in Instances
    PROVE  /\ shell[i] \in ShellRecord
           /\ Calm(i) \/ shell[i].st \notin Waiting => Childless(i)
           /\ shell[i].st \notin {"off", "starting"} => shell[i].reg
           /\ Claimed => (shell[i].reg => shell[i].st = "handoff")
BY DEF IInv, Typed, Children, Alone, Childless, Calm, At

LEMMA ShellTyped ==
    ASSUME IInv, NEW i \in Instances, NEW st \in Waiting \cup {"off", "opening", "stopped", "handoff"},
           ShellTo(i, st)
    PROVE  \E s \in ShellRecord : /\ shell' = [shell EXCEPT ![i] = s]
                                  /\ s.st = st /\ s.reg = shell[i].reg
<1>1. PICK s : s = [shell[i] EXCEPT !.st = st]
    OBVIOUS
<1>2. shell[i] \in ShellRecord /\ shell \in [Instances -> ShellRecord]
    BY DEF IInv, Typed
<1>3. s \in ShellRecord /\ s.st = st /\ s.reg = shell[i].reg
    BY <1>1, <1>2 DEF ShellRecord
<1> QED  BY <1>1, <1>2, <1>3 DEF ShellTo

LEMMA CommandStep ==
    ASSUME IInv, NEW i \in Instances, NEW cmd \in {"start", "stop"}, Command(i, cmd)
    PROVE  IInv'
<1>1. shell' = [shell EXCEPT ![i] = shell[i]]
    BY DEF Command, IInv, Typed
<1> QED  BY <1>1, Unattended, ShellStep DEF Command, shellOnly

LEMMA DesktopStep ==
    ASSUME IInv, NEW i \in Instances, Desktop(i)
    PROVE  IInv'
<1>1. PICK s \in ShellRecord : /\ shell' = [shell EXCEPT ![i] = s]
                               /\ s.st = "starting" /\ s.reg = shell[i].reg
    BY ShellTyped DEF Desktop, Waiting
<1>2. Childless(i) /\ (Claimed => ~s.reg)
    BY <1>1, Unattended DEF Desktop, Waiting
<1> QED  BY <1>1, <1>2, ShellStep DEF Desktop, shellOnly, Waiting

LEMMA OpenStep ==
    ASSUME IInv, NEW i \in Instances, Open(i)
    PROVE  IInv'
<1>1. shell[i].st = "opening" /\ shell[i].reg /\ Childless(i)
    BY Unattended DEF Open, Waiting
<1>2. UNCHANGED <<bridge, record, marker, mutex, helper, owned, lost>>
    BY DEF Open, shellOnly
<1>3. CASE ~Claimed /\ ShellTo(i, "open") /\ UNCHANGED run
    <2>1. PICK s \in ShellRecord : /\ shell' = [shell EXCEPT ![i] = s]
                                   /\ s.st = "open" /\ s.reg = shell[i].reg
        BY <1>3, ShellTyped DEF Waiting
    <2> QED  BY <1>1, <1>2, <1>3, <2>1, ShellStep
<1>4. CASE ShellTo(i, "quitting") /\ Launch(i, "stop", TRUE)
    <2>1. PICK s \in ShellRecord : /\ shell' = [shell EXCEPT ![i] = s]
                                   /\ s.st = "quitting" /\ s.reg = shell[i].reg
        BY <1>4, ShellTyped DEF Waiting
    <2>2. ~Claimed
        BY <1>1, Unattended
    <2> QED  BY <1>1, <1>2, <1>4, <2>1, <2>2, ShellStep DEF Waiting
<1>5. CASE shell' = [shell EXCEPT ![i] = NoShell] /\ UNCHANGED run
    <2>1. NoShell \in ShellRecord /\ NoShell.st = "off" /\ ~NoShell.reg
        BY IdleTyped DEF NoShell
    <2> QED  BY <1>1, <1>2, <1>5, <2>1, ShellStep
<1> QED  BY <1>3, <1>4, <1>5 DEF Open

LEMMA RecoverStep ==
    ASSUME IInv, NEW i \in Instances, Recover(i)
    PROVE  IInv'
<1>1. shell' = [shell EXCEPT ![i] = shell[i]]
    BY DEF Recover, IInv, Typed
<1> QED  BY <1>1, Unattended, ShellStep DEF Recover, shellOnly, Waiting

\* The shell stops its bridge, to quit or to update.
LEMMA StopsStep ==
    ASSUME IInv, NEW i \in Instances, Quit(i) \/ (i = Default /\ BeginUpdate)
    PROVE  IInv'
<1>1. PICK st \in {"quitting", "updating"} : ShellTo(i, st)
    BY DEF Quit, BeginUpdate
<1>2. shell[i].st = "open" /\ Calm(i) /\ Launch(i, "stop", TRUE)
      /\ UNCHANGED <<bridge, record, marker, mutex, helper, owned, lost>>
    BY DEF Quit, BeginUpdate, shellOnly
<1>3. PICK s \in ShellRecord : /\ shell' = [shell EXCEPT ![i] = s]
                               /\ s.st = st /\ s.reg = shell[i].reg
    BY <1>1, ShellTyped DEF Waiting
<1>4. ~Claimed /\ Childless(i) /\ s.reg
    BY <1>2, <1>3, Unattended
<1> QED  BY <1>2, <1>3, <1>4, ShellStep DEF Waiting

LEMMA SpawnHelperStep ==
    ASSUME IInv, SpawnHelper
    PROVE  IInv'
<1>1. Default \in Instances
    BY StartAssumption
<1>2. shell[Default].st = "stopped" /\ shell[Default].reg /\ Childless(Default) /\ ~Claimed
      /\ UNCHANGED <<bridge, record, marker, mutex, owned, lost>>
    BY <1>1, Unattended DEF SpawnHelper, Waiting
<1>3. CASE helper = "none" /\ helper' = "born" /\ ShellTo(Default, "handoff") /\ UNCHANGED run
    <2>1. PICK s \in ShellRecord : /\ shell' = [shell EXCEPT ![Default] = s]
                                   /\ s.st = "handoff" /\ s.reg = shell[Default].reg
        BY <1>1, <1>3, ShellTyped
    <2> QED  BY <1>1, <1>2, <1>3, <2>1, ShellStep
<1>4. CASE ShellTo(Default, "restoring") /\ Launch(Default, "start", TRUE) /\ UNCHANGED helper
    <2>1. PICK s \in ShellRecord : /\ shell' = [shell EXCEPT ![Default] = s]
                                   /\ s.st = "restoring" /\ s.reg = shell[Default].reg
        BY <1>1, <1>4, ShellTyped DEF Waiting
    <2> QED  BY <1>1, <1>2, <1>4, <2>1, ShellStep DEF Waiting
<1> QED  BY <1>3, <1>4 DEF SpawnHelper

LEMMA HandoffQuitStep ==
    ASSUME IInv, HandoffQuit
    PROVE  IInv'
<1>1. Default \in Instances
    BY StartAssumption
<1>2. Childless(Default) /\ shell' = [shell EXCEPT ![Default] = NoShell] /\ UNCHANGED run
      /\ UNCHANGED <<bridge, record, marker, mutex, helper, owned, lost>>
    BY <1>1, Unattended DEF HandoffQuit, shellOnly, Waiting
<1>3. NoShell \in ShellRecord /\ NoShell.st = "off" /\ ~NoShell.reg
    BY IdleTyped DEF NoShell
<1> QED  BY <1>1, <1>2, <1>3, ShellStep

LEMMA CrashShellStep ==
    ASSUME IInv, NEW i \in Instances, CrashShell(i)
    PROVE  IInv'
<1>1. UNCHANGED <<bridge, record, marker, mutex, helper, owned, lost>>
      /\ shell' = [shell EXCEPT ![i] = NoShell]
    BY DEF CrashShell
<1>2. NoShell \in ShellRecord /\ NoShell.st = "off" /\ ~NoShell.reg
    BY IdleTyped DEF NoShell
<1>3. \A l \in Launchers :
        /\ run'[l] \in RunRecord
        /\ run'[l].stage = run[l].stage /\ run'[l].of = run[l].of /\ run'[l].b = run[l].b
        /\ run'[l].cmd = run[l].cmd /\ run'[l].reg = run[l].reg
        /\ run'[l].child => run[l].child /\ run[l].of # i
    <2> SUFFICES ASSUME NEW l \in Launchers
                 PROVE  /\ run'[l] \in RunRecord
                        /\ run'[l].stage = run[l].stage /\ run'[l].of = run[l].of /\ run'[l].b = run[l].b
                        /\ run'[l].cmd = run[l].cmd /\ run'[l].reg = run[l].reg
                        /\ run'[l].child => run[l].child /\ run[l].of # i
        OBVIOUS
    <2>1. run[l] \in RunRecord
        BY DEF IInv, Typed
    <2>2. run'[l] = IF run[l].of = i THEN [run[l] EXCEPT !.child = FALSE] ELSE run[l]
        BY DEF CrashShell
    <2>3. CASE run[l].of = i
        <3>1. run'[l] = [run[l] EXCEPT !.child = FALSE]
            BY <2>2, <2>3
        <3> QED  BY <2>1, <3>1 DEF RunRecord
    <2>4. CASE run[l].of # i
        BY <2>1, <2>2, <2>4
    <2> QED  BY <2>3, <2>4
<1>4. run' = [l \in Launchers |-> run'[l]]
    BY DEF CrashShell
<1>5. InsideSame
    BY <1>3, <1>4 DEF InsideSame, Inside
<1>6. Tracks'
    BY <1>1, <1>5, TracksHold
<1>7. shell' \in [Instances -> ShellRecord]
      /\ \A j \in Instances : shell'[j] = IF j = i THEN NoShell ELSE shell[j]
    BY <1>1, <1>2 DEF IInv, Typed
<1>8. Typed'
    BY <1>1, <1>5, <1>7 DEF InsideSame, IInv, Typed
<1>9. Children'
    <2>1. \A l \in Launchers : run[l].of \in Instances
        BY DEF IInv, Typed, RunRecord
    <2>2. \A l \in Launchers : run'[l].child => shell'[run'[l].of] = shell[run[l].of]
        BY <1>3, <1>7, <2>1
    <2> QED  BY <1>2, <1>3, <1>7, <2>2 DEF IInv, Children
<1>10. Alone'
    BY <1>1, <1>2, <1>3, <1>7 DEF IInv, Alone, Claimed, Registered
<1> QED  BY <1>6, <1>8, <1>9, <1>10 DEF IInv, Tracks

LEMMA GateStep ==
    ASSUME IInv, ClaimGate \/ ReleaseGate
    PROVE  IInv'
<1>1. UNCHANGED <<bridge, record, marker, mutex, run, shell, owned, lost>>
    BY DEF ClaimGate, ReleaseGate, history
<1>2. helper' \in {"none", "claimed"} /\ (helper' = "claimed" => Peers = {})
    BY DEF ClaimGate, ReleaseGate
<1>3. Typed'
    BY <1>1, <1>2 DEF IInv, Typed
<1>4. InsideSame
    BY <1>1 DEF InsideSame, Inside, IInv, Typed
<1>5. Tracks'
    BY <1>1, <1>4, TracksHold
<1>6. Children'
    BY <1>1 DEF IInv, Children
<1>7. Alone'
    BY <1>1, <1>2 DEF Alone, Claimed, Peers, Registered
<1> QED  BY <1>3, <1>5, <1>6, <1>7 DEF IInv, Tracks

-----------------------------------------------------------------------------
(* Bridges *)

\* Two bridges of an instance run at once only if one was lost.
LEMMA AliveUnique ==
    ASSUME IInv, NEW b \in Bridges, NEW c \in Bridges, Alive(b), Alive(c),
           bridge[b].of = bridge[c].of, bridge[b].of \notin lost
    PROVE  b = c
<1> USE DEF IInv
<1>1. \A d \in Bridges, l \in Launchers : d # None /\ (run[l].b = d =>
         bridge[d].of = run[l].of /\ Inside(l) /\ (d \notin owned => LiveRecords(run[l].of) = {}))
    <2> SUFFICES ASSUME NEW d \in Bridges, NEW l \in Launchers, run[l].b = d
                 PROVE  /\ bridge[d].of = run[l].of /\ Inside(l)
                        /\ d \notin owned => LiveRecords(run[l].of) = {}
        BY StartAssumption
    <2>1. d # None /\ run[l].stage \in WithBridge
        BY StartAssumption DEF Known, Knows
    <2> QED  BY <2>1 DEF Known, Knows, Inside, Outside, WithBridge, Starting
<1>2. \A d \in Bridges : Alive(d) /\ d \in owned => d \in record /\ d \in LiveRecords(bridge[d].of)
    BY DEF Traced, LiveRecords, Recorded, Of
<1>3. CASE b \in owned /\ c \in owned
    BY <1>2, <1>3 DEF Traced
<1>4. ASSUME NEW d \in {b, c}, d \notin owned  PROVE b = c
    <2>1. PICK l \in Launchers : run[l].b = d
        BY <1>4 DEF Traced, AtWork
    <2>2. LiveRecords(bridge[b].of) = {} /\ run[l].of = bridge[b].of /\ Inside(l)
        BY <1>1, <1>4, <2>1
    <2>3. b \notin owned /\ c \notin owned
        BY <1>2, <2>2
    <2>4. PICK k, m \in Launchers : run[k].b = b /\ run[m].b = c
        BY <2>3 DEF Traced, AtWork
    <2>5. k = m
        BY <1>1, <2>4, OneHolder
    <2> QED  BY <2>4, <2>5
<1> QED  BY <1>3, <1>4

LEMMA BridgeStep ==
    ASSUME IInv, NEW b \in Bridges, NEW n \in BridgeRecord, bridge' = [bridge EXCEPT ![b] = n],
           UNCHANGED bridgeOnly, marker' \subseteq Instances,
           n.of = bridge[b].of, bridge[b].st # "none" /\ n.st # "none",
           n.st # "dead" => Alive(b) /\ ~n.reused,
           n.worker => bridge[b].worker \/ Alive(b),
           n.st \notin {"dead", "booting"} => Registered(b) \/ ~Claimed,
           \A c \in Bridges : bridge'[c].st \in Serving /\ bridge'[c].of \in marker' =>
               (bridge[c].st \in Serving /\ bridge[c].of \in marker) \/ bridge[c].of \in lost
    PROVE  IInv'
<1> USE DEF IInv, bridgeOnly
<1>1. bridge' \in [Bridges -> BridgeRecord] /\ bridge'[b] = n
      /\ \A c \in Bridges : c # b => bridge'[c] = bridge[c]
    BY DEF Typed
<1>2. Typed'
    BY <1>1 DEF Typed
<1>3. Held'
    BY DEF Held, Inside
<1>4. \A c \in Bridges : /\ bridge'[c].of = bridge[c].of /\ (Alive(c)' => Alive(c))
                         /\ (Alive(c)' => bridge[c].reused = FALSE /\ ~bridge'[c].reused)
                         /\ (bridge[c].st # "none" => bridge'[c].st # "none")
                         /\ (bridge'[c].worker => bridge[c].worker \/ Alive(c))
    BY <1>1 DEF Alive, Traced, Typed, BridgeRecord
<1>5. Known'
    <2> SUFFICES ASSUME NEW k \in Launchers  PROVE Knows(k)'
        BY DEF Known
    <2>1. PICK c, i : c = run[k].b /\ i = run[k].of
        OBVIOUS
    <2>2. c # None => c \in Bridges
        BY <2>1 DEF Typed, RunRecord
    <2>3. LiveRecords(i)' \subseteq LiveRecords(i)
        BY <1>4 DEF LiveRecords, Recorded, Of
    <2>4. LiveRecords(run[k].of) = {} => LiveRecords(run[k].of)' = {}
        BY <2>1, <2>3
    <2>5. Knows(k)
        BY DEF Known
    <2> QED  BY <1>4, <2>1, <2>2, <2>4, <2>5 DEF Knows, WithBridge, Starting
<1>6. \A c : AtWork(c)' <=> AtWork(c)
    BY DEF AtWork
<1>7. Traced'
    BY <1>4, <1>6 DEF Traced, Typed
<1>8. Marked'
    <2>1. \A c : Launching(c)' <=> Launching(c)
        BY DEF Launching
    <2> QED  BY <1>4, <2>1 DEF Marked
<1>9. Children'
    BY DEF Children
<1>10. Alone'
    BY <1>1 DEF Alone, Claimed, Registered, Alive
<1> QED  BY <1>2, <1>3, <1>5, <1>7, <1>8, <1>9, <1>10

\* A bridge changes its state, and perhaps loses its worker.
LEMMA StateStep ==
    ASSUME IInv, NEW b \in Bridges, NEW st, NEW w \in BOOLEAN, NEW u \in BOOLEAN,
           bridge' = [bridge EXCEPT ![b] = [bridge[b] EXCEPT !.st = st, !.worker = w, !.reused = u]],
           UNCHANGED bridgeOnly, marker' \subseteq Instances,
           st \in {"ready", "hung", "closing", "clearing", "cleared", "resumed", "dead"},
           bridge[b].st # "none",
           st # "dead" => Alive(b) /\ ~u,
           w => bridge[b].worker \/ Alive(b),
           st # "dead" => Registered(b) \/ ~Claimed,
           \/ marker' = marker /\ (st \in Serving => bridge[b].st \in Serving)
           \/ marker' = marker \ {bridge[b].of}
           \/ Alive(b) /\ st \notin Serving /\ marker' = marker \cup {bridge[b].of}
    PROVE  IInv'
<1>1. PICK n : n = [bridge[b] EXCEPT !.st = st, !.worker = w, !.reused = u]
    OBVIOUS
<1>2. bridge[b] \in BridgeRecord /\ bridge \in [Bridges -> BridgeRecord]
    BY DEF IInv, Typed
<1>3. n \in BridgeRecord /\ n.st = st /\ n.worker = w /\ n.reused = u /\ n.of = bridge[b].of
    BY <1>1, <1>2 DEF BridgeRecord
<1>4. bridge' = [bridge EXCEPT ![b] = n]
    BY <1>1
<1>5. bridge'[b] = n /\ \A c \in Bridges : c # b => bridge'[c] = bridge[c]
    BY <1>2, <1>4
<1>6. ASSUME NEW c \in Bridges, bridge'[c].st \in Serving, bridge'[c].of \in marker'
      PROVE  (bridge[c].st \in Serving /\ bridge[c].of \in marker) \/ bridge[c].of \in lost
    <2>1. CASE marker' = marker /\ (st \in Serving => bridge[b].st \in Serving)
        BY <1>3, <1>5, <1>6, <2>1
    <2>2. CASE marker' = marker \ {bridge[b].of}
        BY <1>3, <1>5, <1>6, <2>2
    <2>3. CASE Alive(b) /\ st \notin Serving /\ marker' = marker \cup {bridge[b].of}
        <3>1. c # b /\ bridge'[c] = bridge[c] /\ Alive(c)
            BY <1>3, <1>5, <1>6, <2>3 DEF Serving, Alive
        <3> QED  BY <1>6, <2>3, <3>1, AliveUnique
    <2> QED  BY <2>1, <2>2, <2>3
<1> QED  BY <1>3, <1>4, <1>6, BridgeStep

\* The same when nothing but the state changes.
LEMMA StateOnly ==
    ASSUME IInv, NEW b \in Bridges, NEW st, BridgeTo(b, st),
           UNCHANGED bridgeOnly, marker' \subseteq Instances,
           st \in {"ready", "hung", "closing", "clearing", "cleared", "resumed", "dead"},
           Alive(b), st # "dead" => Registered(b) \/ ~Claimed,
           \/ marker' = marker /\ (st \in Serving => bridge[b].st \in Serving)
           \/ marker' = marker \ {bridge[b].of}
           \/ st \notin Serving /\ marker' = marker \cup {bridge[b].of}
    PROVE  IInv'
<1>1. bridge[b] \in BridgeRecord
    BY DEF IInv, Typed
<1>2. PICK w, u : w = bridge[b].worker /\ u = bridge[b].reused
    OBVIOUS
<1>3. w \in BOOLEAN /\ u \in BOOLEAN
    BY <1>1, <1>2 DEF BridgeRecord
<1>4. ~u
    BY <1>2 DEF IInv, Traced
<1>5. bridge[b].st # "none"
    BY DEF Alive
<1>6. [bridge[b] EXCEPT !.st = st, !.worker = w, !.reused = u] = [bridge[b] EXCEPT !.st = st]
    BY <1>1, <1>2 DEF BridgeRecord
<1>7. bridge' = [bridge EXCEPT ![b] = [bridge[b] EXCEPT !.st = st, !.worker = w, !.reused = u]]
    BY <1>6 DEF BridgeTo
<1> QED  BY <1>2, <1>3, <1>4, <1>5, <1>7, StateStep

LEMMA BridgeSteps ==
    ASSUME IInv, NEW b \in Bridges,
           \/ Serve(b) \/ StartWorker(b) \/ Clear(b) \/ Exit(b)
           \/ CrashBridge(b) \/ Hang(b) \/ ReusePid(b)
    PROVE  IInv'
<1>1. bridge[b] \in BridgeRecord /\ bridge \in [Bridges -> BridgeRecord]
      /\ marker \subseteq Instances /\ bridge[b].of \in Instances
    BY DEF IInv, Typed, BridgeRecord
<1>2. PICK w, u : w = bridge[b].worker /\ u = bridge[b].reused
    OBVIOUS
<1>3. w \in BOOLEAN /\ u \in BOOLEAN /\ (Alive(b) => ~u)
    BY <1>1, <1>2 DEF BridgeRecord, IInv, Traced
<1>5. CASE Serve(b)
    <2>1. PICK st \in {"ready", "dead"} : BridgeTo(b, st) /\ (st = "ready" => ~Claimed)
        BY <1>5 DEF Serve, BridgeAdmitted, Admitted
    <2>2. bridge[b].st = "booting" /\ UNCHANGED bridgeOnly /\ marker' = marker
        BY <1>5 DEF Serve
    <2>3. Alive(b) /\ bridge[b].st \in Serving
        BY <2>2 DEF Alive, Serving
    <2> QED  BY <1>1, <2>1, <2>2, <2>3, StateOnly
<1>6. CASE StartWorker(b)
    <2>1. bridge' = [bridge EXCEPT ![b] = [bridge[b] EXCEPT !.st = "ready", !.worker = TRUE, !.reused = u]]
        <3>1. [bridge[b] EXCEPT !.st = "ready", !.worker = TRUE, !.reused = u]
                = [bridge[b] EXCEPT !.worker = TRUE]
            BY <1>1, <1>2, <1>6 DEF BridgeRecord, StartWorker
        <3> QED  BY <1>6, <3>1 DEF StartWorker
    <2>2. bridge[b].st = "ready" /\ UNCHANGED bridgeOnly /\ marker' = marker
        BY <1>6 DEF StartWorker
    <2>3. Alive(b) /\ Registered(b) /\ bridge[b].st \in Serving
        BY <2>2 DEF Alive, Registered, Serving
    <2> QED  BY <1>1, <1>3, <2>1, <2>2, <2>3, StateStep
<1>7. CASE Clear(b)
    <2>1. UNCHANGED bridgeOnly
        BY <1>7 DEF Clear
    <2>2. ASSUME bridge[b].st \in {"ready", "clearing", "cleared", "resumed"}
          PROVE  Alive(b) /\ Registered(b) /\ {"clearing", "cleared", "resumed"} \cap Serving = {}
        BY <2>2 DEF Alive, Registered, Serving
    <2>3. CASE bridge[b].st = "ready" /\ BridgeTo(b, "clearing") /\ UNCHANGED marker
        BY <1>1, <2>1, <2>2, <2>3, StateOnly
    <2>4. CASE /\ bridge[b].st = "clearing" /\ BridgeTo(b, "cleared")
               /\ marker' = marker \cup {bridge[b].of}
        BY <1>1, <2>1, <2>2, <2>4, StateOnly
    <2>5. CASE bridge[b].st \in {"clearing", "cleared"} /\ BridgeTo(b, "resumed") /\ UNCHANGED marker
        BY <1>1, <2>1, <2>2, <2>5, StateOnly
    <2>6. CASE /\ bridge[b].st = "resumed" /\ BridgeTo(b, "ready")
               /\ marker' = marker \ {bridge[b].of}
        BY <1>1, <2>1, <2>2, <2>6, StateOnly
    <2> QED  BY <1>7, <2>3, <2>4, <2>5, <2>6 DEF Clear
<1>8. CASE Exit(b)
    <2>1. bridge' = [bridge EXCEPT ![b] = [bridge[b] EXCEPT !.st = "dead", !.worker = FALSE, !.reused = u]]
        <3>1. [bridge[b] EXCEPT !.st = "dead", !.worker = FALSE, !.reused = u]
                = [bridge[b] EXCEPT !.st = "dead", !.worker = FALSE]
            BY <1>1, <1>2 DEF BridgeRecord
        <3> QED  BY <1>1, <1>8, <3>1 DEF Exit
    <2>2. bridge[b].st \in {"cleared", "closing"} /\ UNCHANGED bridgeOnly /\ marker' = marker
        BY <1>8 DEF Exit
    <2>3. "dead" \notin Serving
        BY DEF Serving
    <2> QED  BY <1>1, <1>3, <2>1, <2>2, <2>3, StateStep
<1>9. CASE CrashBridge(b)
    <2>1. Alive(b) /\ BridgeTo(b, "dead") /\ UNCHANGED bridgeOnly /\ marker' = marker
        BY <1>9 DEF CrashBridge
    <2>2. "dead" \notin Serving
        BY DEF Serving
    <2> QED  BY <1>1, <2>1, <2>2, StateOnly
<1>10. CASE Hang(b)
    <2>1. UNCHANGED bridgeOnly /\ marker' = marker
        BY <1>10 DEF Hang
    <2>2. PICK st \in {"ready", "hung"} : BridgeTo(b, st)
        BY <1>10 DEF Hang
    <2>3. bridge[b].st \in {"ready", "hung"}
        BY <1>10 DEF Hang
    <2>4. Alive(b) /\ Registered(b) /\ bridge[b].st \in Serving
        BY <2>3 DEF Alive, Registered, Serving
    <2> QED  BY <1>1, <2>1, <2>2, <2>4, StateOnly
<1>11. CASE ReusePid(b)
    <2>1. bridge' = [bridge EXCEPT ![b] = [bridge[b] EXCEPT !.st = "dead", !.worker = w, !.reused = TRUE]]
        <3>1. [bridge[b] EXCEPT !.st = "dead", !.worker = w, !.reused = TRUE]
                = [bridge[b] EXCEPT !.reused = TRUE]
            BY <1>1, <1>2, <1>11 DEF BridgeRecord, ReusePid
        <3> QED  BY <1>11, <3>1 DEF ReusePid
    <2>2. bridge[b].st = "dead" /\ UNCHANGED bridgeOnly /\ marker' = marker
        BY <1>11 DEF ReusePid
    <2>3. "dead" \notin Serving
        BY DEF Serving
    <2> QED  BY <1>1, <1>2, <1>3, <2>1, <2>2, <2>3, StateStep
<1> QED  BY <1>5, <1>6, <1>7, <1>8, <1>9, <1>10, <1>11

-----------------------------------------------------------------------------
(* The invariant, and what follows from it *)

LEMMA Start == Init => IInv
<1> SUFFICES ASSUME Init  PROVE IInv
    OBVIOUS
<1> USE StartAssumption, IdleTyped DEF Init
<1>1. Typed
    BY DEF Typed
<1>2. \A l \in Launchers : run[l].stage = "idle" /\ run[l].b = None /\ ~run[l].child /\ ~run[l].reg
    BY DEF Idle
<1>3. \A b \in Bridges : bridge[b].st = "none"
    BY DEF NoBridge
<1>4. \A i \in Instances : shell[i].st = "off" /\ ~shell[i].reg
    BY DEF NoShell
<1>5. Held
    BY <1>2 DEF Held, Inside, Outside
<1>6. Known
    BY <1>2 DEF Known, Knows, WithBridge, Starting
<1>7. Traced
    BY <1>3 DEF Traced, Alive
<1>8. Marked
    BY DEF Marked
<1>9. Children /\ Alone
    BY <1>2, <1>4 DEF Children, Alone, Claimed
<1> QED  BY <1>1, <1>5, <1>6, <1>7, <1>8, <1>9 DEF IInv

LEMMA Step == IInv /\ [Next]_vars => IInv'
<1> SUFFICES ASSUME IInv, [Next]_vars  PROVE IInv'
    OBVIOUS
<1>1. CASE UNCHANGED vars
    BY <1>1 DEF vars, IInv, Typed, Held, Inside, Known, Knows, LiveRecords, Recorded, Of, Alive,
                Traced, AtWork, Marked, Launching, Children, Alone, Claimed, Registered
<1>2. ASSUME NEW l \in Launchers,
             \/ Admit(l) \/ CheckMark(l) \/ Take(l) \/ CheckHealth(l) \/ CheckRecords(l)
             \/ Spawn(l) \/ WriteRecord(l) \/ Await(l) \/ Latch(l)
             \/ ListChildren(l) \/ AbortKill(l) \/ Rescan(l) \/ Unlink(l)
             \/ Look(l) \/ AwaitExit(l) \/ StopKill(l) \/ KillLauncher(l)
      PROVE  IInv'
    <2>1. CheckMark(l) => At(l, "mark") \/ At(l, "mark again")
        BY DEF CheckMark, At
    <2> QED  BY <1>2, <2>1, AdmitStep, MarkStep, CheckMarkStep, TakeStep, CheckHealthStep,
                CheckRecordsStep, SpawnStep, WriteRecordStep, AwaitStep, LatchStep,
                ListChildrenStep, AbortKillStep, RescanStep, UnlinkStep, LookStep,
                AwaitExitStep, StopKillStep, KillLauncherStep
<1>3. ASSUME NEW i \in Instances,
             \/ Desktop(i) \/ Open(i) \/ Recover(i) \/ Quit(i) \/ CrashShell(i)
             \/ \E cmd \in {"start", "stop"} : Command(i, cmd)
      PROVE  IInv'
    BY <1>3, DesktopStep, OpenStep, RecoverStep, StopsStep, CrashShellStep, CommandStep
<1>4. CASE BeginUpdate \/ SpawnHelper \/ HandoffQuit \/ ClaimGate \/ ReleaseGate
    <2>1. Default \in Instances
        BY StartAssumption
    <2> QED  BY <1>4, <2>1, StopsStep, SpawnHelperStep, HandoffQuitStep, GateStep
<1>5. ASSUME NEW b \in Bridges,
             \/ Serve(b) \/ StartWorker(b) \/ Clear(b) \/ Exit(b)
             \/ CrashBridge(b) \/ Hang(b) \/ ReusePid(b)
      PROVE  IInv'
    BY <1>5, BridgeSteps
<1> QED  BY <1>1, <1>2, <1>3, <1>4, <1>5 DEF Next

LEMMA Invariant == Spec => []IInv
BY Start, Step, PTL DEF Spec

\* While an updater holds the claim, no bridge has registered, no launcher that starts
\* anything is admitted, and no window is open (installation_gate.py).
THEOREM UpdateStaysAlone == Spec => []UpdateIsAlone
<1>1. IInv => UpdateIsAlone
    BY DEF IInv, Alone, Children, UpdateIsAlone
<1> QED  BY <1>1, Invariant, PTL

\* As long as the marker of a cleared account stands, no bridge serves but one whose
\* launcher has yet to look, or of an instance a launcher of which was cut short
\* (ensure_service, real-client-recovery.cjs).
THEOREM ClearedAccountStaysDown == Spec => []ClearedStaysDown
<1>1. IInv => ClearedStaysDown
    BY DEF IInv, Marked, Serving, Launching, AtWork, ClearedStaysDown
<1> QED  BY <1>1, Invariant, PTL

\* A record lasts as long as the process or the worker that it is the only trace of, at
\* most one recorded bridge of an instance runs, and one without a record has its
\* launcher at work, unless that was cut short (owned_bridge_records, write_control_record).
THEOREM RecordsOutlive == Spec => []RecordsOutliveProcesses
<1>1. ASSUME IInv  PROVE RecordsOutliveProcesses
    <2> USE <1>1 DEF IInv
    <2>1. TypeOK
        BY DEF TypeOK, Typed, Held, Inside, Outside
    <2>2. \A b \in owned : Alive(b) \/ bridge[b].worker => b \in record
        BY DEF Traced
    <2>3. ASSUME NEW i \in Instances  PROVE Cardinality(LiveRecords(i)) <= 1
        <3>1. \A b, c \in LiveRecords(i) : b = c
            BY DEF LiveRecords, Recorded, Of, Traced
        <3>2. CASE LiveRecords(i) = {}
            BY <3>2, FS_EmptySet
        <3>3. ASSUME NEW b \in LiveRecords(i)  PROVE Cardinality(LiveRecords(i)) <= 1
            <4>1. LiveRecords(i) = {b}
                BY <3>1, <3>3
            <4> QED  BY <4>1, FS_Singleton
        <3> QED  BY <3>2, <3>3
    <2>4. \A b \in Bridges : Alive(b) /\ b \notin owned => AtWork(b) \/ bridge[b].of \in lost
        BY DEF Traced
    <2> QED  BY <2>1, <2>2, <2>3, <2>4 DEF RecordsOutliveProcesses
<1> QED  BY <1>1, Invariant, PTL

=============================================================================
