---------------------------- MODULE AdvisorProofs ----------------------------
(***************************************************************************)
(* Proofs about AdvisorRuns, for any finite set of requests and any sets   *)
(* of conversations and settings, any number of switches and resets; and   *)
(* about AdvisorContext, for any histories, pages and windows.             *)
(***************************************************************************)
EXTENDS AdvisorRuns, AdvisorContext, FiniteSetTheorems, SequenceTheorems, WellFoundedInduction, TLAPS

-----------------------------------------------------------------------------
(* The inductive invariant *)

Epochs == 0..MaxReset
MemRecord == [state : Terminal \cup {"absent", "running"},
              at : Stages \cup {"none", "unborn", "ended"},
              ok : BOOLEAN, cancel : BOOLEAN, text : BOOLEAN, gen : 0..MaxSwitch,
              settings : Settings \cup {None}, epoch : Epochs \cup {None},
              cfg : Settings \cup {None}]
RowRecord == {NoRow} \cup [state : Terminal \cup {"running"}, thread : Threads]
Entry == [kind : {"ask", "partial", "whole"}, run : Runs]
BoundRecord == [cfg : Settings \cup {None}, epoch : Epochs \cup {None},
                session : {None} \cup (Settings \X Epochs)]

\* TypeOK, with names for its records.
Typed ==
    /\ source \in 0..MaxSwitch /\ settings \in Settings /\ epoch \in Epochs
    /\ store \in {"open", "blocked", "removed"}
    /\ paused \in BOOLEAN /\ drained \in BOOLEAN /\ clearing \in BOOLEAN
    /\ row \in [Runs -> RowRecord]
    /\ log \in [Threads -> Seq(Entry)]
    /\ bound \in [Threads -> BoundRecord]
    /\ mem \in [Runs -> MemRecord]

\* What a worker's stage says about its run.
Fits(m) ==
    /\ m.state = "absent" => m = Absent
    /\ m.at = "ended" => m.state \in Terminal
    /\ m.at = "config" => m.epoch # None
    /\ m.at \in {"bind", "model", "answer"} => m.epoch # None /\ m.cfg # None
    /\ m.text => m.epoch # None
Shape == \A r \in Runs : Fits(mem[r])

\* Memory and table agree on what runs and on what is done.
Agree ==
    \A r \in Runs :
        /\ mem[r].state = "running" => row[r].state = "running"
        /\ mem[r].state # "absent" => (mem[r].state = "done" <=> row[r].state = "done")

\* The question of a running row is the last word of its conversation, so
\* that a conversation has one such row.
Asks(r, t) == Len(log[t]) > 0 /\ log[t][Len(log[t])] = [kind |-> "ask", run |-> r]
Asked == \A r \in Runs : row[r].state = "running" => Asks(r, row[r].thread)

\* Between bind_runtime and the answer the conversation stays bound to the
\* model and the history of the run.
Runtime ==
    \A r \in Runs : mem[r].state = "running" /\ mem[r].at \in {"model", "answer"} => SameRuntime(r)
Sessions ==
    \A t \in Threads : bound[t].session # None => bound[t].session = <<bound[t].cfg, bound[t].epoch>>

Closed ==
    /\ drained => store # "open" /\ \A r \in InMemory : mem[r].at = "ended"
    /\ store = "removed" => \A r \in Runs : row[r] = NoRow /\ mem[r] = Absent
    /\ clearing => store # "removed"

Inv == /\ Typed /\ Shape /\ Agree /\ Asked /\ AnswersFollowQuestions
       /\ Runtime /\ Sessions /\ Closed

LEMMA RecordsTyped ==
    /\ Absent \in MemRecord /\ Fits(Absent)
    /\ NoRow \in RowRecord /\ NoRow.state = "none"
    /\ Unbound \in BoundRecord /\ Unbound.session = None
    /\ \A s \in Terminal : Over(s) \in MemRecord /\ Fits(Over(s)) /\ Over(s).state = s
                           /\ Over(s).at = "ended"
<1> USE AdvisorAssumption
<1>1. 0 \in 0..MaxSwitch
    OBVIOUS
<1>2. Absent \in MemRecord /\ Fits(Absent)
    BY <1>1 DEF Absent, MemRecord, Fits, Terminal, Stages
<1>3. NoRow \in RowRecord /\ NoRow.state = "none"
    BY DEF NoRow, RowRecord
<1>4. Unbound \in BoundRecord /\ Unbound.session = None
    BY DEF Unbound, BoundRecord
<1>5. ASSUME NEW s \in Terminal
      PROVE  Over(s) \in MemRecord /\ Fits(Over(s)) /\ Over(s).state = s /\ Over(s).at = "ended"
    BY <1>1 DEF Over, Absent, MemRecord, Fits, Terminal, Stages
<1> QED  BY <1>2, <1>3, <1>4, <1>5

LEMMA InvInit == Init => Inv
<1> SUFFICES ASSUME Init  PROVE Inv
    OBVIOUS
<1> USE AdvisorAssumption DEF Init
<1>1. Typed
    <2>1. 0 \in 0..MaxSwitch /\ 0 \in Epochs  BY DEF Epochs
    <2>2. log \in [Threads -> Seq(Entry)]  OBVIOUS
    <2> QED  BY <2>1, <2>2, RecordsTyped DEF Typed
<1>2. \A r \in Runs : mem[r].state = "absent" /\ row[r].state = "none"
    BY DEF Absent, NoRow
<1>3. Shape /\ Agree /\ Asked /\ Runtime
    BY <1>2, RecordsTyped DEF Shape, Agree, Asked, Runtime
<1>4. Sessions
    BY RecordsTyped DEF Sessions
<1>5. AnswersFollowQuestions
    BY DEF AnswersFollowQuestions
<1>6. Closed
    BY DEF Closed
<1> QED  BY <1>1, <1>3, <1>4, <1>5, <1>6 DEF Inv

-----------------------------------------------------------------------------
(* Steps *)

\* A step of a worker that touches nothing but what memory holds of its run.
Goes(m, old) ==
    /\ Fits(m) /\ m.state # "absent"
    /\ m.state = "running" => old.state = "running"
    /\ m.state = "done" <=> old.state = "done"
    /\ m.state = "running" /\ m.at \in {"model", "answer"} =>
         old.at \in {"model", "answer"} /\ m.cfg = old.cfg /\ m.epoch = old.epoch

LEMMA MemoryStep ==
    ASSUME Inv, NEW r \in Runs, NEW m \in MemRecord, Goes(m, mem[r]),
           mem[r].at \in Stages, mem' = [mem EXCEPT ![r] = m],
           UNCHANGED <<world, account, tables>>
    PROVE  Inv'
<1> USE DEF Inv, world, account, tables
<1>1. mem[r].state # "absent" /\ mem[r].at # "ended"
    BY DEF Shape, Fits, Absent, Stages
<1>2. mem' \in [Runs -> MemRecord] /\ \A x \in Runs : mem'[x] = IF x = r THEN m ELSE mem[x]
    BY DEF Typed
<1>3. Typed'
    BY <1>2 DEF Typed
<1>4. Shape'
    BY <1>2 DEF Shape, Goes, Fits
<1>5. Agree'
    BY <1>1, <1>2 DEF Agree, Goes
<1>6. Asked' /\ AnswersFollowQuestions' /\ Sessions'
    BY DEF Asked, Asks, AnswersFollowQuestions, Sessions
<1>7. Runtime'
    BY <1>2 DEF Runtime, SameRuntime, Goes
<1>8. Closed'
    <2>1. r \in InMemory  BY <1>1 DEF InMemory
    <2>2. ~drained /\ store # "removed"
        BY <1>1, <2>1 DEF Closed, Absent
    <2> QED  BY <2>2 DEF Closed
<1> QED  BY <1>3, <1>4, <1>5, <1>6, <1>7, <1>8

LEMMA MemoryFacts ==
    ASSUME Typed, Shape, NEW r \in Runs
    PROVE  /\ mem[r] \in MemRecord /\ Fits(mem[r])
           /\ Light(r) => mem[r].state = "running" /\ ~mem[r].cancel /\ ~paused
           /\ mem[r].at \in Stages => mem[r].state # "absent"
BY DEF Typed, Shape, Light, Fits, Absent, Stages

\* The steps of a worker before it answers, but for bind_runtime.
LEMMA WorkerStep ==
    ASSUME Inv, NEW r \in Runs,
           Check(r) \/ CaptureEpoch(r) \/ ReadConfig(r) \/ Stream(r) \/ Raise(r)
    PROVE  Inv'
<1> USE DEF Inv
<1>0. mem[r] \in MemRecord /\ Fits(mem[r])
    BY MemoryFacts
<1>1. UNCHANGED <<world, account, tables>>
    BY DEF Check, CaptureEpoch, ReadConfig, Stream, Raise
<1>2. mem[r].at \in Stages /\ mem[r].state # "absent"
    <2>1. mem[r].at \in Stages
        BY DEF Check, CaptureEpoch, ReadConfig, Stream, Raise, Stages
    <2> QED  BY <2>1, MemoryFacts
<1> DEFINE To(m) == m \in MemRecord /\ Goes(m, mem[r]) /\ mem' = [mem EXCEPT ![r] = m]
<1>3. \E m : To(m)
    <2>1. ASSUME NEW at \in {"fail", "answer"}, Goto(r, at), at = "answer" => mem[r].at = "model"
          PROVE  \E m : To(m)
        <3> DEFINE m == [mem[r] EXCEPT !.at = at, !.ok = FALSE]
        <3>1. mem' = [mem EXCEPT ![r] = m]  BY <2>1 DEF Goto
        <3>2. m \in MemRecord  BY <1>0 DEF MemRecord, Stages
        <3>3. Goes(m, mem[r])  BY <1>0, <1>2, <2>1 DEF Goes, Fits, MemRecord, Absent
        <3> QED  BY <3>1, <3>2, <3>3
    <2>2. CASE Raise(r)
        BY <2>1, <2>2 DEF Raise
    <2>3. CASE Stream(r)
        <3>1. CASE mem' = [mem EXCEPT ![r].text = TRUE]
            <4> DEFINE m == [mem[r] EXCEPT !.text = TRUE]
            <4>1. m \in MemRecord  BY <1>0 DEF MemRecord
            <4>2. Goes(m, mem[r])
                <5>1. mem[r].at = "answer"  BY <2>3 DEF Stream
                <5>2. mem[r].epoch # None /\ mem[r].cfg # None  BY <1>0, <5>1 DEF Fits
                <5>3. Fits(m)  BY <1>0, <1>2, <5>1, <5>2 DEF Fits, MemRecord
                <5> QED  BY <1>0, <1>2, <5>3 DEF Goes, MemRecord
            <4>3. mem' = [mem EXCEPT ![r] = m]  BY <3>1
            <4> QED  BY <4>1, <4>2, <4>3
        <3>2. CASE mem' = [mem EXCEPT ![r] = Invalidated(@)]
            <4> DEFINE m == Invalidated(mem[r])
            <4>1. m \in MemRecord  BY <1>0 DEF MemRecord, Invalidated, Terminal
            <4>2. mem[r].state = "running"  BY <2>3, MemoryFacts DEF Stream
            <4>3. Goes(m, mem[r])
                BY <1>0, <1>2, <4>2 DEF Goes, Fits, MemRecord, Absent, Invalidated, Stages, Terminal
            <4>4. mem' = [mem EXCEPT ![r] = m]  BY <3>2
            <4> QED  BY <4>1, <4>3, <4>4
        <3> QED  BY <2>3, <3>1, <3>2 DEF Stream
    <2>4. CASE ReadConfig(r)
        <3>1. CASE Light(r)
            <4> DEFINE m == [mem[r] EXCEPT !.at = "bind", !.cfg = settings]
            <4>1. settings \in Settings /\ settings # None
                BY AdvisorAssumption DEF Typed
            <4>2. m \in MemRecord  BY <1>0, <4>1 DEF MemRecord, Stages
            <4>3. mem[r].epoch # None  BY <1>0, <2>4 DEF ReadConfig, Fits
            <4>4. Goes(m, mem[r])  BY <1>0, <1>2, <4>1, <4>3 DEF Goes, Fits, MemRecord, Absent
            <4>5. mem' = [mem EXCEPT ![r] = m]  BY <2>4, <3>1 DEF ReadConfig
            <4> QED  BY <4>2, <4>4, <4>5
        <3> QED  BY <2>1, <2>4, <3>1 DEF ReadConfig
    <2>5. CASE CaptureEpoch(r)
        <3>1. CASE Light(r)
            <4> DEFINE m == [mem[r] EXCEPT !.at = "config", !.ok = FALSE, !.epoch = epoch]
            <4>1. epoch \in Epochs /\ epoch # None
                BY AdvisorAssumption DEF Typed, Epochs
            <4>2. m \in MemRecord  BY <1>0, <4>1 DEF MemRecord, Stages
            <4>3. Goes(m, mem[r])  BY <1>0, <1>2, <4>1 DEF Goes, Fits, MemRecord, Absent
            <4>4. mem' = [mem EXCEPT ![r] = m]  BY <2>5, <3>1 DEF CaptureEpoch
            <4> QED  BY <4>2, <4>3, <4>4
        <3> QED  BY <2>1, <2>5, <3>1 DEF CaptureEpoch
    <2>6. CASE Check(r)
        <3>1. CASE Light(r) /\ ~Fresh(r)
            <4> DEFINE m == [Invalidated(mem[r]) EXCEPT !.at = "fail"]
            <4>1. m \in MemRecord  BY <1>0 DEF MemRecord, Invalidated, Terminal, Stages
            <4>2. mem[r].state = "running"  BY <3>1, MemoryFacts
            <4>3. Goes(m, mem[r])
                BY <1>0, <1>2, <4>2 DEF Goes, Fits, MemRecord, Absent, Invalidated, Terminal
            <4>4. mem' = [mem EXCEPT ![r] = m]  BY <2>6, <3>1 DEF Check
            <4> QED  BY <4>1, <4>3, <4>4
        <3>2. CASE Light(r) /\ Fresh(r) /\ mem[r].at # "model"
            <4> DEFINE m == [mem[r] EXCEPT !.ok = TRUE]
            <4>1. m \in MemRecord  BY <1>0 DEF MemRecord
            <4>2. Goes(m, mem[r])  BY <1>0, <1>2 DEF Goes, Fits, MemRecord, Absent
            <4>3. mem' = [mem EXCEPT ![r] = m]  BY <2>6, <3>2 DEF Check
            <4> QED  BY <4>1, <4>2, <4>3
        <3> QED  BY <2>1, <2>6, <3>1, <3>2 DEF Check
    <2> QED  BY <2>2, <2>3, <2>4, <2>5, <2>6
<1> QED  BY <1>1, <1>2, <1>3, MemoryStep

\* What AnswersFollowQuestions says of one conversation.
Follows(s) ==
    \A i \in DOMAIN s : s[i].kind # "ask" =>
        i > 1 /\ s[i - 1] = [kind |-> "ask", run |-> s[i].run]

LEMMA ConversationsFollow == AnswersFollowQuestions <=> \A t \in Threads : Follows(log[t])
BY DEF AnswersFollowQuestions, Follows

\* Only the run whose question is the last word may answer.
LEMMA AnswerAfterQuestion ==
    ASSUME NEW s \in Seq(Entry), Follows(s), NEW r \in Runs, NEW k \in {"partial", "whole"},
           Len(s) > 0, s[Len(s)] = [kind |-> "ask", run |-> r]
    PROVE  LET t == Append(s, [kind |-> k, run |-> r]) IN t \in Seq(Entry) /\ Follows(t)
<1> DEFINE e == [kind |-> k, run |-> r]
           t == Append(s, e)
<1>1. e \in Entry
    BY DEF Entry
<1>2. t \in Seq(Entry) /\ Len(t) = Len(s) + 1 /\ \A i \in 1..Len(s) : t[i] = s[i]
    BY <1>1
<1>3. t[Len(s) + 1] = e
    BY <1>1
<1>4. ASSUME NEW i \in DOMAIN t, t[i].kind # "ask"
      PROVE  i > 1 /\ t[i - 1] = [kind |-> "ask", run |-> t[i].run]
    <2>1. CASE i = Len(s) + 1
        BY <1>2, <1>3, <2>1
    <2>2. CASE i \in 1..Len(s)
        <3>1. t[i] = s[i] /\ i \in DOMAIN s
            BY <1>2, <2>2
        <3>2. i > 1 /\ s[i - 1] = [kind |-> "ask", run |-> s[i].run]
            BY <1>4, <3>1 DEF Follows
        <3>3. i - 1 \in 1..Len(s)
            BY <2>2, <3>2
        <3> QED  BY <1>2, <3>1, <3>2, <3>3
    <2> QED  BY <1>2, <2>1, <2>2
<1> QED  BY <1>2, <1>4 DEF Follows

LEMMA QuestionFollows ==
    ASSUME NEW s \in Seq(Entry), Follows(s), NEW r \in Runs
    PROVE  LET t == Append(s, [kind |-> "ask", run |-> r])
           IN  t \in Seq(Entry) /\ Follows(t) /\ Len(t) > 0
               /\ t[Len(t)] = [kind |-> "ask", run |-> r]
<1> DEFINE e == [kind |-> "ask", run |-> r]
           t == Append(s, e)
<1>1. e \in Entry
    BY DEF Entry
<1>2. t \in Seq(Entry) /\ Len(t) = Len(s) + 1 /\ \A i \in 1..Len(s) : t[i] = s[i]
    BY <1>1
<1>3. t[Len(s) + 1] = e
    BY <1>1
<1>4. ASSUME NEW i \in DOMAIN t, t[i].kind # "ask"
      PROVE  i > 1 /\ t[i - 1] = [kind |-> "ask", run |-> t[i].run]
    <2>1. i \in 1..Len(s)
        BY <1>2, <1>3, <1>4
    <2>2. t[i] = s[i] /\ i \in DOMAIN s
        BY <1>2, <2>1
    <2>3. i > 1 /\ s[i - 1] = [kind |-> "ask", run |-> s[i].run]
        BY <1>4, <2>2 DEF Follows
    <2>4. i - 1 \in 1..Len(s)
        BY <2>1, <2>3
    <2> QED  BY <1>2, <2>2, <2>3, <2>4
<1> QED  BY <1>2, <1>3, <1>4 DEF Follows

LEMMA OneRunning ==
    ASSUME Asked, NEW r \in Runs, NEW a \in Runs,
           row[r].state = "running", row[a].state = "running", row[r].thread = row[a].thread
    PROVE  r = a
<1>1. [kind |-> "ask", run |-> r] = [kind |-> "ask", run |-> a]
    BY DEF Asked, Asks
<1>2. [kind |-> "ask", run |-> r].run = [kind |-> "ask", run |-> a].run
    BY <1>1
<1> QED  BY <1>2

LEMMA RowFacts ==
    ASSUME Typed, NEW r \in Runs
    PROVE  /\ row[r] \in RowRecord
           /\ row[r].state = "running" => row[r].thread \in Threads
           /\ row[r].state # "none" => row[r] \in [state : Terminal \cup {"running"}, thread : Threads]
BY DEF Typed, RowRecord, NoRow

\* finish_run for a running row, with or without an answer.
LEMMA FinishStep ==
    ASSUME Inv, NEW r \in Runs, mem[r].state = "running", mem[r].at \in Stages,
           NEW st \in Terminal, End(r, st), row' = FinishRow(row, r, st),
           log' = log \/ \E k \in {"partial", "whole"} : log' = Answered(r, k),
           \/ bound' = bound
           \/ /\ mem[r].at = "answer"
              /\ bound' = [bound EXCEPT ![row[r].thread].session = <<mem[r].cfg, mem[r].epoch>>],
           UNCHANGED <<world, account>>
    PROVE  Inv'
<1> USE DEF Inv, world, account
<1> DEFINE t == row[r].thread
<1>1. row[r].state = "running" /\ t \in Threads /\ row[r] \in RowRecord
    BY RowFacts DEF Agree
<1>2. row' = [row EXCEPT ![r].state = st] /\ row' \in [Runs -> RowRecord]
    <2>1. row' = [row EXCEPT ![r].state = st]
        BY <1>1 DEF FinishRow
    <2>2. [row[r] EXCEPT !.state = st] \in RowRecord
        BY <1>1, RowFacts DEF RowRecord
    <2> QED  BY <2>1, <2>2 DEF Typed
<1>3. \A a \in Runs : a # r => row'[a] = row[a]
    BY <1>2 DEF Typed
<1>4. row'[r].state = st /\ st \notin {"running", "none", "absent"}
    BY <1>1, <1>2, RowFacts DEF Typed, Terminal
<1>5. mem' = [mem EXCEPT ![r] = Over(st)] /\ mem' \in [Runs -> MemRecord]
    BY RecordsTyped DEF End, Typed
<1>6. mem'[r] = Over(st) /\ \A a \in Runs : a # r => mem'[a] = mem[a]
    BY <1>5 DEF Typed
<1>7. /\ log' \in [Threads -> Seq(Entry)]
      /\ \A u \in Threads : Follows(log'[u]) /\ (u # t => log'[u] = log[u])
    <2>1. CASE log' = log
        BY <2>1, ConversationsFollow DEF Typed
    <2>2. ASSUME NEW k \in {"partial", "whole"}, log' = Answered(r, k)
          PROVE  <1>7!1 /\ <1>7!2
        <3>1. log' = [log EXCEPT ![t] = Append(@, [kind |-> k, run |-> r])]
            BY <1>1, <2>2 DEF Answered, Said
        <3>2. log[t] \in Seq(Entry) /\ Follows(log[t]) /\ Asks(r, t)
            BY <1>1, ConversationsFollow DEF Typed, Asked
        <3>3. Append(log[t], [kind |-> k, run |-> r]) \in Seq(Entry)
              /\ Follows(Append(log[t], [kind |-> k, run |-> r]))
            BY <3>2, AnswerAfterQuestion DEF Asks
        <3> QED  BY <1>1, <3>1, <3>3, ConversationsFollow DEF Typed
    <2> QED  BY <2>1, <2>2
<1>8. /\ bound' \in [Threads -> BoundRecord]
      /\ \A u \in Threads : bound'[u].cfg = bound[u].cfg /\ bound'[u].epoch = bound[u].epoch
      /\ Sessions'
    <2>1. CASE bound' = bound
        BY <2>1 DEF Typed, Sessions
    <2>2. CASE mem[r].at = "answer"
               /\ bound' = [bound EXCEPT ![t].session = <<mem[r].cfg, mem[r].epoch>>]
        <3>1. mem[r].cfg \in Settings /\ mem[r].epoch \in Epochs
            BY <2>2, MemoryFacts DEF Fits, MemRecord
        <3>2. bound[t].cfg = mem[r].cfg /\ bound[t].epoch = mem[r].epoch
            BY <2>2 DEF Runtime, SameRuntime
        <3>3. bound[t] \in BoundRecord
            BY <1>1 DEF Typed
        <3>4. [bound[t] EXCEPT !.session = <<mem[r].cfg, mem[r].epoch>>] \in BoundRecord
            <4>1. <<mem[r].cfg, mem[r].epoch>> \in Settings \X Epochs
                BY <3>1
            <4> QED  BY <3>3, <4>1 DEF BoundRecord
        <3>5. bound'[t].session = <<bound'[t].cfg, bound'[t].epoch>>
            BY <1>1, <2>2, <3>2, <3>3 DEF Typed, BoundRecord
        <3>6. \A u \in Threads : u # t => bound'[u] = bound[u]
            BY <2>2 DEF Typed
        <3>7. bound' \in [Threads -> BoundRecord]
            BY <2>2, <3>4 DEF Typed
        <3>8. bound'[t].cfg = bound[t].cfg /\ bound'[t].epoch = bound[t].epoch
            BY <1>1, <2>2, <3>3 DEF Typed, BoundRecord
        <3> QED  BY <3>5, <3>6, <3>7, <3>8 DEF Sessions
    <2> QED  BY <2>1, <2>2
<1>9. Typed'
    BY <1>2, <1>5, <1>7, <1>8 DEF Typed
<1>10. Shape' /\ Agree'
    BY <1>3, <1>4, <1>6, RecordsTyped DEF Shape, Agree
<1>11. Asked'
    <2> SUFFICES ASSUME NEW a \in Runs, row'[a].state = "running"
                 PROVE  Asks(a, row[a].thread)' /\ row'[a] = row[a]
        BY DEF Asked
    <2>1. a # r /\ row'[a] = row[a]
        BY <1>3, <1>4
    <2>2. row[a].thread \in Threads \ {t}
        BY <1>1, <2>1, OneRunning, RowFacts
    <2> QED  BY <1>7, <2>1, <2>2 DEF Asked, Asks
<1>12. AnswersFollowQuestions'
    BY <1>7 DEF AnswersFollowQuestions, Follows
<1>13. Runtime'
    <2> SUFFICES ASSUME NEW a \in Runs, mem'[a].state = "running", mem'[a].at \in {"model", "answer"}
                 PROVE  SameRuntime(a)'
        BY DEF Runtime
    <2>1. a # r
        BY <1>6, RecordsTyped DEF Terminal
    <2>2. row[a].thread \in Threads
        BY <1>6, <2>1, RowFacts DEF Agree
    <2> QED  BY <1>3, <1>6, <1>8, <2>1, <2>2 DEF Runtime, SameRuntime
<1>14. Closed'
    <2>1. r \in InMemory /\ mem[r].at # "ended"
        BY DEF InMemory, Stages
    <2>2. ~drained /\ store # "removed"
        BY <1>1, <2>1 DEF Closed, Absent, InMemory
    <2> QED  BY <2>2 DEF Closed
<1> QED  BY <1>8, <1>9, <1>10, <1>11, <1>12, <1>13, <1>14

\* bind_runtime: the conversation of a running row is bound for that run alone.
LEMMA BindStep ==
    ASSUME Inv, NEW r \in Runs, Bind(r)
    PROVE  Inv'
<1> USE DEF Inv, world, account
<1> DEFINE t == row[r].thread
           to(at) == [mem[r] EXCEPT !.at = at, !.ok = FALSE]
<1>1. mem[r] \in MemRecord /\ Fits(mem[r]) /\ mem[r].state # "absent" /\ mem[r].at \in Stages
    <2>1. mem[r].at \in Stages  BY DEF Bind, Stages
    <2> QED  BY <2>1, MemoryFacts
<1>2. CASE ~Light(r)
    <2>1. mem' = [mem EXCEPT ![r] = to("fail")] /\ UNCHANGED <<world, account, tables>>
        BY <1>2 DEF Bind, Goto, tables
    <2>2. to("fail") \in MemRecord
        BY <1>1 DEF MemRecord, Stages
    <2>3. Goes(to("fail"), mem[r])
        BY <1>1 DEF Goes, Fits, MemRecord, Absent
    <2> QED  BY <1>1, <2>1, <2>2, <2>3, MemoryStep
<1>3. CASE Light(r)
    <2>1. mem' = [mem EXCEPT ![r] = to("model")]
        BY <1>3 DEF Bind, Goto
    <2>2. to("model") \in MemRecord /\ Fits(to("model")) /\ to("model").state = "running"
        <3>1. mem[r].epoch # None /\ mem[r].cfg # None  BY <1>1 DEF Bind, Fits
        <3> QED  BY <1>1, <1>3, <3>1, MemoryFacts DEF MemRecord, Stages, Fits
    <2>3. mem' \in [Runs -> MemRecord] /\ \A a \in Runs : mem'[a] = IF a = r THEN to("model") ELSE mem[a]
        BY <2>1, <2>2 DEF Typed
    <2>4. row[r].state = "running" /\ t \in Threads
        BY <1>3, MemoryFacts, RowFacts DEF Agree
    <2>5. /\ bound' \in [Threads -> BoundRecord]
          /\ bound'[t].cfg = mem[r].cfg /\ bound'[t].epoch = mem[r].epoch
          /\ \A u \in Threads : u # t => bound'[u] = bound[u]
          /\ Sessions'
        <3>1. CASE SameRuntime(r)
            BY <1>3, <2>4, <3>1 DEF Bind, SameRuntime, Typed, Sessions
        <3>2. CASE ~SameRuntime(r)
            <4> DEFINE b == [cfg |-> mem[r].cfg, epoch |-> mem[r].epoch, session |-> None]
            <4>1. bound' = [bound EXCEPT ![t] = b]
                BY <1>3, <3>2 DEF Bind
            <4>2. b \in BoundRecord
                BY <1>1 DEF MemRecord, BoundRecord
            <4>3. bound' \in [Threads -> BoundRecord] /\ bound'[t] = b
                  /\ \A u \in Threads : u # t => bound'[u] = bound[u]
                BY <2>4, <4>1, <4>2 DEF Typed
            <4> QED  BY <4>3 DEF Sessions
        <3> QED  BY <3>1, <3>2
    <2>6. UNCHANGED <<world, account, row, log>>
        BY DEF Bind
    <2>7. Typed'
        BY <2>3, <2>5, <2>6 DEF Typed
    <2>8. Shape' /\ Agree'
        BY <1>3, <2>2, <2>3, <2>6, MemoryFacts DEF Shape, Agree
    <2>9. Asked' /\ AnswersFollowQuestions'
        BY <2>6 DEF Asked, Asks, AnswersFollowQuestions
    <2>10. Runtime'
        <3> SUFFICES ASSUME NEW a \in Runs, mem'[a].state = "running", mem'[a].at \in {"model", "answer"}
                     PROVE  SameRuntime(a)'
            BY DEF Runtime
        <3>1. CASE a = r
            <4>1. to("model").cfg = mem[r].cfg /\ to("model").epoch = mem[r].epoch
                BY <1>1 DEF MemRecord
            <4>2. mem'[r] = to("model") /\ row'[r].thread = t
                BY <2>3, <2>6
            <4> QED  BY <2>5, <3>1, <4>1, <4>2 DEF SameRuntime
        <3>2. CASE a # r
            <4>1. mem'[a] = mem[a]
                BY <2>3, <3>2
            <4>2. row[a].state = "running" /\ row[a].thread \in Threads
                BY <4>1, RowFacts DEF Agree
            <4>3. row[a].thread # t
                BY <2>4, <3>2, <4>2, OneRunning
            <4>4. row'[a] = row[a] /\ bound'[row[a].thread] = bound[row[a].thread]
                BY <2>5, <2>6, <4>2, <4>3
            <4>5. SameRuntime(a)
                BY <4>1 DEF Runtime
            <4> QED  BY <4>1, <4>4, <4>5 DEF SameRuntime
        <3> QED  BY <3>1, <3>2
    <2>11. Closed'
        <3>1. r \in InMemory /\ mem[r].at # "ended"
            BY <1>1 DEF InMemory, Stages
        <3>2. ~drained /\ store # "removed"
            BY <1>1, <3>1 DEF Closed, Absent
        <3> QED  BY <2>6, <3>2 DEF Closed
    <2> QED  BY <2>5, <2>7, <2>8, <2>9, <2>10, <2>11
<1> QED  BY <1>2, <1>3

\* The ends of a worker: what may be saved goes through finish_run, the rest
\* ends in memory.
LEMMA EndStep ==
    ASSUME Inv, NEW r \in Runs, Commit(r) \/ Fail(r)
    PROVE  Inv'
<1> USE DEF Inv
<1>0. mem[r] \in MemRecord /\ Fits(mem[r]) /\ mem[r].state # "absent" /\ mem[r].at \in Stages
    <2>1. mem[r].at \in Stages  BY DEF Commit, Fail, Stages
    <2> QED  BY <2>1, MemoryFacts
<1>1. ASSUME NEW s \in Terminal, End(r, s), UNCHANGED <<world, account, tables>>,
             s = "done" <=> mem[r].state = "done"
      PROVE  Inv'
    <2>1. Over(s) \in MemRecord /\ Goes(Over(s), mem[r])
        BY <1>1, RecordsTyped DEF Goes, Terminal
    <2> QED  BY <1>0, <1>1, <2>1, MemoryStep DEF End
<1>2. ASSUME Goto(r, "fail"), UNCHANGED <<world, account, tables>>
      PROVE  Inv'
    <2> DEFINE m == [mem[r] EXCEPT !.at = "fail", !.ok = FALSE]
    <2>1. m \in MemRecord
        BY <1>0 DEF MemRecord, Stages
    <2>2. Goes(m, mem[r])
        BY <1>0 DEF Goes, Fits, MemRecord, Absent
    <2>3. mem' = [mem EXCEPT ![r] = m]
        BY <1>2 DEF Goto
    <2> QED  BY <1>0, <1>2, <2>1, <2>2, <2>3, MemoryStep
<1>3. ASSUME Light(r), mem' = [mem EXCEPT ![r] = [Invalidated(@) EXCEPT !.at = "fail"]],
             UNCHANGED <<world, account, tables>>
      PROVE  Inv'
    <2> DEFINE m == [Invalidated(mem[r]) EXCEPT !.at = "fail"]
    <2>1. m \in MemRecord
        BY <1>0 DEF MemRecord, Invalidated, Terminal, Stages
    <2>2. mem[r].state = "running"
        BY <1>3, MemoryFacts
    <2>3. Goes(m, mem[r])
        BY <1>0, <2>2 DEF Goes, Fits, MemRecord, Absent, Invalidated, Terminal
    <2>4. mem' = [mem EXCEPT ![r] = m]
        BY <1>3
    <2> QED  BY <1>0, <1>3, <2>1, <2>3, <2>4, MemoryStep
<1>4. CASE mem[r].state # "running"
    <2>1. mem[r].state \in Terminal
        BY <1>0, <1>4 DEF MemRecord
    <2>2. ~Light(r)
        BY <1>4 DEF Light
    <2>3. End(r, mem[r].state) /\ UNCHANGED <<world, account, tables>>
        BY <1>4, <2>2 DEF Commit, Fail, tables
    <2> QED  BY <1>1, <2>1, <2>3
<1>5. CASE mem[r].state = "running" /\ ~(Light(r) /\ Fresh(r))
    <2>1. CASE Commit(r)
        BY <1>2, <1>3, <1>5, <2>1 DEF Commit
    <2>2. CASE Fail(r)
        <3>1. (End(r, "stopped") \/ End(r, "error")) /\ UNCHANGED <<world, account, tables>>
            BY <1>5, <2>2 DEF Fail, tables
        <3> QED  BY <1>1, <1>5, <3>1 DEF Terminal
    <2> QED  BY <2>1, <2>2
<1>6. CASE mem[r].state = "running" /\ Light(r) /\ Fresh(r)
    <2>1. row[r].state = "running"
        BY <1>6 DEF Agree
    <2>2. CASE Commit(r)
        <3>1. \/ /\ End(r, "done") /\ row' = FinishRow(row, r, "done")
                 /\ log' = Answered(r, "whole")
                 /\ bound' = [bound EXCEPT ![row[r].thread].session = <<mem[r].cfg, mem[r].epoch>>]
              \/ End(r, "error") /\ row' = FinishRow(row, r, "error") /\ UNCHANGED <<log, bound>>
              \/ Goto(r, "fail") /\ UNCHANGED tables
            BY <1>6, <2>1, <2>2 DEF Commit
        <3>2. mem[r].at = "answer" /\ UNCHANGED <<world, account>>
            BY <2>2 DEF Commit
        <3>3. "done" \in Terminal /\ "error" \in Terminal
            BY DEF Terminal
        <3>4. CASE End(r, "done") /\ row' = FinishRow(row, r, "done")
                   /\ log' = Answered(r, "whole")
                   /\ bound' = [bound EXCEPT ![row[r].thread].session = <<mem[r].cfg, mem[r].epoch>>]
            BY <1>0, <1>6, <3>2, <3>3, <3>4, FinishStep
        <3>5. CASE End(r, "error") /\ row' = FinishRow(row, r, "error") /\ UNCHANGED <<log, bound>>
            BY <1>0, <1>6, <3>2, <3>3, <3>5, FinishStep
        <3>6. CASE Goto(r, "fail") /\ UNCHANGED tables
            BY <1>2, <3>2, <3>6
        <3> QED  BY <3>1, <3>4, <3>5, <3>6
    <2>3. CASE Fail(r)
        <3>1. "error" \in Terminal /\ UNCHANGED <<world, account, bound>>
            BY <2>3 DEF Fail, Terminal
        <3>2. End(r, "error") /\ (UNCHANGED <<row, log>>
                                  \/ (row' = FinishRow(row, r, "error") /\ log' = Partial(r)))
            BY <1>6, <2>3 DEF Fail
        <3>3. CASE UNCHANGED <<row, log>>
            <4>1. UNCHANGED <<world, account, tables>>
                BY <3>1, <3>3 DEF tables
            <4> QED  BY <1>1, <1>6, <3>1, <3>2, <4>1
        <3>4. CASE row' = FinishRow(row, r, "error") /\ log' = Partial(r)
            <4>1. log' = log \/ log' = Answered(r, "partial")
                BY <3>4 DEF Partial
            <4> QED  BY <1>0, <1>6, <3>1, <3>2, <3>4, <4>1, FinishStep
        <3> QED  BY <3>2, <3>3, <3>4
    <2> QED  BY <2>2, <2>3
<1> QED  BY <1>4, <1>5, <1>6

-----------------------------------------------------------------------------
(* Steps that end rows: stops, pauses, restarts *)

\* The tables after some running rows were ended, a partial answer saved or not.
TablesEnd(rows, L) ==
    /\ rows \in [Runs -> RowRecord]
    /\ \A r \in Runs :
         /\ rows[r].state = "running" =>
              rows[r] = row[r] /\ L[row[r].thread] = log[row[r].thread]
         /\ rows[r].state = "done" <=> row[r].state = "done"
         /\ row[r] = NoRow => rows[r] = NoRow
    /\ L \in [Threads -> Seq(Entry)]
    /\ \A t \in Threads : Follows(L[t])

\* Memory after some of its runs were stopped or forgotten.
Winds(m, old, rowState) ==
    /\ m \in MemRecord /\ Fits(m)
    /\ m.state = "running" =>
         /\ old.state = "running" /\ rowState = "running"
         /\ m.at = old.at /\ m.cfg = old.cfg /\ m.epoch = old.epoch
    /\ m.state # "absent" => old.state # "absent" /\ (m.state = "done" <=> old.state = "done")

LEMMA TablesStay == Inv => TablesEnd(row, log)
BY ConversationsFollow DEF Inv, Typed, TablesEnd

LEMMA EndsStep ==
    ASSUME Inv, TablesEnd(row', log'), bound' = bound,
           mem' \in [Runs -> MemRecord],
           \A r \in Runs : Winds(mem'[r], mem[r], row'[r].state),
           source' \in 0..MaxSwitch, settings' \in Settings, epoch' \in Epochs,
           store' \in {"open", "blocked", "removed"},
           paused' \in BOOLEAN, drained' \in BOOLEAN, clearing' \in BOOLEAN,
           Closed'
    PROVE  Inv'
<1> USE DEF Inv, TablesEnd
<1>1. Typed'
    BY DEF Typed
<1>2. Shape'
    BY DEF Shape, Winds
<1>3. Agree'
    BY DEF Agree, Winds
<1>4. Asked'
    <2> SUFFICES ASSUME NEW r \in Runs, row'[r].state = "running"
                 PROVE  Asks(r, row[r].thread)' /\ row'[r] = row[r]
        BY DEF Asked
    <2> QED  BY DEF Asked, Asks
<1>5. AnswersFollowQuestions'
    BY DEF AnswersFollowQuestions, Follows
<1>6. Runtime'
    <2> SUFFICES ASSUME NEW r \in Runs, mem'[r].state = "running", mem'[r].at \in {"model", "answer"}
                 PROVE  SameRuntime(r)'
        BY DEF Runtime
    <2>1. /\ mem[r].state = "running" /\ mem[r].at \in {"model", "answer"}
          /\ mem'[r].cfg = mem[r].cfg /\ mem'[r].epoch = mem[r].epoch /\ row'[r] = row[r]
        BY DEF Winds
    <2> QED  BY <2>1 DEF Runtime, SameRuntime
<1>7. Sessions'
    BY DEF Sessions
<1> QED  BY <1>1, <1>2, <1>3, <1>4, <1>5, <1>6, <1>7

\* finish_run, seen from its one row.
LEMMA FinishedRow ==
    ASSUME NEW rows \in [Runs -> RowRecord], NEW r \in Runs, NEW s \in {"stopped", "error"}
    PROVE  LET new == FinishRow(rows, r, s)
           IN  /\ new \in [Runs -> RowRecord]
               /\ \A a \in Runs : a # r => new[a] = rows[a]
               /\ new[r].state # "running"
               /\ new[r].state = "done" <=> rows[r].state = "done"
               /\ rows[r] = NoRow => new[r] = NoRow
<1>1. CASE rows[r].state = "running"
    <2> DEFINE new == [rows EXCEPT ![r].state = s]
    <2>1. FinishRow(rows, r, s) = new
        BY <1>1 DEF FinishRow
    <2>2. rows[r] \in [state : Terminal \cup {"running"}, thread : Threads] /\ rows[r] # NoRow
        BY <1>1 DEF RowRecord, NoRow
    <2>3. [rows[r] EXCEPT !.state = s] \in RowRecord /\ [rows[r] EXCEPT !.state = s].state = s
        BY <2>2 DEF RowRecord, Terminal
    <2>4. new \in [Runs -> RowRecord] /\ new[r].state = s /\ \A a \in Runs : a # r => new[a] = rows[a]
        BY <2>3
    <2> QED  BY <1>1, <2>1, <2>2, <2>4
<1>2. CASE rows[r].state # "running"
    BY <1>2 DEF FinishRow
<1> QED  BY <1>1, <1>2

\* The stops of StopAll end no row but those saved, and answer for those alone.
LEMMA StopsEndTables ==
    ASSUME Inv, NEW outs, DOMAIN outs \subseteq Stoppable
    PROVE  /\ TablesEnd(StoppedRows(outs), StoppedLog(outs))
           /\ \A r \in Runs : r \notin Saved(outs) => StoppedRows(outs)[r] = row[r]
<1> USE DEF Inv
<1> DEFINE rows == StoppedRows(outs)
           L == StoppedLog(outs)
<1>1. \A r \in Runs : rows[r] = IF r \in Saved(outs) THEN FinishRow(row, r, "stopped")[r] ELSE row[r]
    BY DEF StoppedRows
<1>2. row \in [Runs -> RowRecord]
    BY DEF Typed
<1>3. ASSUME NEW r \in Runs
      PROVE  /\ rows[r] \in RowRecord
             /\ r \notin Saved(outs) => rows[r] = row[r]
             /\ r \in Saved(outs) => rows[r].state # "running"
             /\ rows[r].state = "done" <=> row[r].state = "done"
             /\ row[r] = NoRow => rows[r] = NoRow
    BY <1>1, <1>2, FinishedRow
<1>4. rows \in [Runs -> RowRecord]
    BY <1>3 DEF StoppedRows
<1>5. ASSUME NEW t \in Threads
      PROVE  /\ L[t] \in Seq(Entry) /\ Follows(L[t])
             /\ \A a \in RunningIn(t) : a \notin Saved(outs) => L[t] = log[t]
    <2> DEFINE texts == {r \in Saved(outs) : mem[r].text /\ r \in RunningIn(t)}
               c == CHOOSE r \in texts : TRUE
    <2>1. L[t] = IF texts = {} THEN log[t] ELSE Partial(c)[t]
        BY DEF StoppedLog
    <2>2. log[t] \in Seq(Entry) /\ Follows(log[t])
        BY ConversationsFollow DEF Typed
    <2>3. CASE texts = {}
        BY <2>1, <2>2, <2>3
    <2>4. CASE texts # {}
        <3>1. c \in texts
            BY <2>4
        <3>2. c \in Runs /\ row[c].state = "running" /\ row[c].thread = t /\ mem[c].text
            BY <3>1 DEF RunningIn
        <3>3. Partial(c) = Said(t, "partial", c)
            BY <3>2 DEF Partial, Answered
        <3>4. L[t] = Append(log[t], [kind |-> "partial", run |-> c])
            BY <2>1, <2>4, <3>3 DEF Said, Typed
        <3>5. Asks(c, t)
            BY <3>2 DEF Asked
        <3>6. L[t] \in Seq(Entry) /\ Follows(L[t])
            BY <2>2, <3>2, <3>4, <3>5, AnswerAfterQuestion DEF Asks
        <3>7. ASSUME NEW a \in RunningIn(t)  PROVE a \in Saved(outs)
            BY <3>1, <3>2, OneRunning DEF RunningIn
        <3> QED  BY <3>6, <3>7
    <2> QED  BY <2>3, <2>4
<1>6. L \in [Threads -> Seq(Entry)]
    BY <1>5 DEF StoppedLog
<1>7. ASSUME NEW r \in Runs, rows[r].state = "running"
      PROVE  rows[r] = row[r] /\ L[row[r].thread] = log[row[r].thread]
    <2>1. r \notin Saved(outs) /\ rows[r] = row[r]
        BY <1>3, <1>7
    <2>2. row[r].thread \in Threads /\ r \in RunningIn(row[r].thread)
        BY <1>7, <2>1, RowFacts DEF RunningIn
    <2> QED  BY <1>5, <2>1, <2>2
<1> QED  BY <1>3, <1>4, <1>5, <1>6, <1>7 DEF TablesEnd

\* A database that is opened again has no running row.
LEMMA InterruptedTables ==
    ASSUME NEW rows, NEW L, TablesEnd(rows, L)
    PROVE  /\ TablesEnd(Interrupted(rows), L)
           /\ \A r \in Runs : Interrupted(rows)[r].state # "running"
<1> USE DEF TablesEnd
<1>1. \A r \in Runs : Interrupted(rows)[r] = FinishRow(rows, r, "error")[r]
    BY DEF Interrupted
<1>2. ASSUME NEW r \in Runs
      PROVE  /\ Interrupted(rows)[r] \in RowRecord
             /\ Interrupted(rows)[r].state # "running"
             /\ Interrupted(rows)[r].state = "done" <=> row[r].state = "done"
             /\ row[r] = NoRow => Interrupted(rows)[r] = NoRow
    BY <1>1, FinishedRow
<1>3. Interrupted(rows) \in [Runs -> RowRecord]
    BY <1>2 DEF Interrupted
<1> QED  BY <1>2, <1>3

LEMMA StopsWindMemory ==
    ASSUME Inv, NEW outs, DOMAIN outs \subseteq Stoppable, StopAll(outs)
    PROVE  /\ mem' \in [Runs -> MemRecord]
           /\ \A r \in Runs : Winds(mem'[r], mem[r], StoppedRows(outs)[r].state)
           /\ \A r \in Runs : mem'[r].at = mem[r].at
                              /\ (mem'[r].state = "absent" <=> mem[r].state = "absent")
<1> USE DEF Inv
<1>1. \A r \in Runs : mem'[r] = IF r \notin DOMAIN outs \/ outs[r] = "kept" THEN mem[r]
                                 ELSE IF outs[r] = "raised" THEN [mem[r] EXCEPT !.cancel = TRUE]
                                 ELSE Invalidated(mem[r])
    BY DEF StopAll
<1>2. ASSUME NEW r \in Runs
      PROVE  /\ mem'[r] \in MemRecord
             /\ Winds(mem'[r], mem[r], StoppedRows(outs)[r].state)
             /\ mem'[r].at = mem[r].at
             /\ mem'[r].state = "absent" <=> mem[r].state = "absent"
    <2>0. mem[r] \in MemRecord /\ Fits(mem[r])
        BY MemoryFacts
    <2>1. r \notin Saved(outs) /\ mem[r].state = "running" => StoppedRows(outs)[r].state = "running"
        BY StopsEndTables DEF Agree
    <2>2. CASE r \notin DOMAIN outs \/ outs[r] = "kept"
        <3>1. mem'[r] = mem[r] /\ r \notin Saved(outs)
            BY <1>1, <2>2 DEF Saved
        <3> QED  BY <2>0, <2>1, <3>1 DEF Winds
    <2>3. CASE r \in DOMAIN outs /\ outs[r] = "raised"
        <3>1. mem'[r] = [mem[r] EXCEPT !.cancel = TRUE] /\ r \notin Saved(outs)
            BY <1>1, <2>3 DEF Saved
        <3>2. mem[r].state = "running"
            BY <2>3 DEF Stoppable
        <3> QED  BY <2>0, <2>1, <3>1, <3>2 DEF Winds, MemRecord, Fits, Absent
    <2>4. CASE r \in DOMAIN outs /\ outs[r] \notin {"kept", "raised"}
        <3>1. mem'[r] = Invalidated(mem[r])
            BY <1>1, <2>4
        <3>2. mem[r].state = "running"
            BY <2>4 DEF Stoppable
        <3> QED  BY <2>0, <3>1, <3>2 DEF Winds, MemRecord, Fits, Absent, Invalidated, Terminal
    <2> QED  BY <2>2, <2>3, <2>4
<1>3. mem' \in [Runs -> MemRecord]
    BY <1>2 DEF StopAll
<1> QED  BY <1>2, <1>3

\* A run that stays in memory as it is.
LEMMA MemoryStays ==
    ASSUME Inv, NEW r \in Runs, NEW s, mem[r].state = "running" => s = "running"
    PROVE  Winds(mem[r], mem[r], s)
BY MemoryFacts DEF Inv, Winds

LEMMA StopStep ==
    ASSUME Inv, NEW r \in Runs, Stop(r)
    PROVE  Inv'
<1> USE DEF Inv, world, account
<1>1. PICK out : StopAll([x \in {r} |-> out])
    BY DEF Stop
<1> DEFINE outs == [x \in {r} |-> out]
<1>2. DOMAIN outs \subseteq Stoppable
    BY DEF Stop
<1>3. row' = StoppedRows(outs) /\ log' = StoppedLog(outs) /\ bound' = bound
    BY <1>1 DEF StopAll
<1>4. TablesEnd(row', log')
    BY <1>2, <1>3, StopsEndTables
<1>5. mem' \in [Runs -> MemRecord] /\ \A a \in Runs : Winds(mem'[a], mem[a], row'[a].state)
    BY <1>1, <1>2, <1>3, StopsWindMemory
<1>6. Closed'
    <2>1. mem[r].state = "running" /\ r \in InMemory /\ mem[r].at # "ended"
        BY MemoryFacts DEF Stop, Stoppable, InMemory, Fits, Terminal
    <2>2. ~drained /\ store # "removed"
        BY <2>1 DEF Closed, InMemory, Absent
    <2> QED  BY <2>2 DEF Stop, Closed
<1>7. UNCHANGED <<world, account>>
    BY DEF Stop
<1> QED  BY <1>3, <1>4, <1>5, <1>6, <1>7, EndsStep DEF Typed

LEMMA PauseStep ==
    ASSUME Inv, PauseBegin
    PROVE  Inv'
<1> USE DEF Inv, world
<1>1. PICK outs \in AllOutcomes : StopAll(outs) /\ clearing' \in BOOLEAN
    BY DEF PauseBegin
<1>2. DOMAIN outs \subseteq Stoppable
    BY DEF AllOutcomes
<1>3. row' = StoppedRows(outs) /\ log' = StoppedLog(outs) /\ bound' = bound
    BY <1>1 DEF StopAll
<1>4. TablesEnd(row', log')
    BY <1>2, <1>3, StopsEndTables
<1>5. /\ mem' \in [Runs -> MemRecord]
      /\ \A r \in Runs : Winds(mem'[r], mem[r], row'[r].state)
      /\ \A r \in Runs : mem'[r].at = mem[r].at
                         /\ (mem'[r].state = "absent" <=> mem[r].state = "absent")
    BY <1>1, <1>2, <1>3, StopsWindMemory
<1>6. Closed'
    BY <1>5 DEF PauseBegin, Closed, InMemory
<1> QED  BY <1>1, <1>3, <1>4, <1>5, <1>6, EndsStep DEF PauseBegin, Typed

\* Steps of the world and of the pause, that leave tables and memory alone.
LEMMA WorldStep ==
    ASSUME Inv, UNCHANGED vars \/ ChangeSettings \/ SwitchSource \/ ResetContext
                \/ PauseEnd \/ PauseFails
    PROVE  Inv'
<1> USE AdvisorAssumption DEF Inv, vars, world, account, tables
<1>1. UNCHANGED <<tables, mem>>
    BY DEF ChangeSettings, SwitchSource, ResetContext, PauseEnd, PauseFails
<1>2. TablesEnd(row', log')
    BY <1>1, TablesStay
<1>3. \A r \in Runs : Winds(mem'[r], mem[r], row'[r].state)
    BY <1>1, MemoryStays DEF Agree
<1>4. source' \in 0..MaxSwitch /\ settings' \in Settings /\ epoch' \in Epochs
    <2>1. CASE UNCHANGED vars \/ PauseEnd \/ PauseFails
        BY <2>1 DEF PauseEnd, PauseFails, Typed
    <2>2. CASE ChangeSettings
        BY <2>2 DEF ChangeSettings, Typed
    <2>3. CASE SwitchSource
        BY <2>3 DEF SwitchSource, Typed
    <2>4. CASE ResetContext
        BY <2>4 DEF ResetContext, Typed, Epochs
    <2> QED  BY <2>1, <2>2, <2>3, <2>4
<1>5. /\ store' \in {"open", "blocked", "removed"}
      /\ paused' \in BOOLEAN /\ drained' \in BOOLEAN /\ clearing' \in BOOLEAN
      /\ Closed'
    <2>1. CASE PauseEnd
        BY <1>1, <2>1 DEF PauseEnd, Typed, Closed, Joined, InMemory
    <2>2. CASE PauseFails
        BY <1>1, <2>2 DEF PauseFails, Typed, Closed, InMemory
    <2>3. CASE UNCHANGED vars \/ ChangeSettings \/ SwitchSource \/ ResetContext
        <3>1. UNCHANGED account
            BY <2>3 DEF ChangeSettings, SwitchSource, ResetContext
        <3> QED  BY <1>1, <3>1 DEF Typed, Closed, InMemory
    <2> QED  BY <2>1, <2>2, <2>3
<1> QED  BY <1>1, <1>2, <1>3, <1>4, <1>5, EndsStep DEF Typed

\* Steps that end the rows nobody works on.
LEMMA RestartStep ==
    ASSUME Inv, (\E r \in Runs : StopForgotten(r)) \/ ResumeAfterFailure \/ Crash \/ Shutdown
    PROVE  Inv'
<1> USE DEF Inv, world, account
<1>1. CASE \E r \in Runs : StopForgotten(r)
    <2>1. PICK r \in Runs : StopForgotten(r)
        BY <1>1
    <2>2. row' = FinishRow(row, r, "error") /\ UNCHANGED <<world, account, log, bound, mem>>
        BY <2>1 DEF StopForgotten
    <2>3. TablesEnd(row', log')
        BY <2>2, FinishedRow, TablesStay DEF TablesEnd
    <2>4. \A a \in Runs : mem[a].state = "running" => row'[a].state = "running"
        <3>1. row \in [Runs -> RowRecord] /\ mem[r].state # "running"
            BY <2>1 DEF StopForgotten, Typed
        <3>2. \A a \in Runs : a # r => row'[a] = row[a]
            BY <2>2, <3>1, FinishedRow
        <3> QED  BY <3>1, <3>2 DEF Agree
    <2>5. \A a \in Runs : Winds(mem'[a], mem[a], row'[a].state)
        BY <2>2, <2>4, MemoryStays
    <2>6. Closed'
        BY <2>1, <2>2 DEF StopForgotten, Closed, InMemory
    <2> QED  BY <2>2, <2>3, <2>5, <2>6, EndsStep DEF Typed
<1>2. CASE ResumeAfterFailure
    <2>1. row' = Interrupted(row) /\ UNCHANGED <<world, clearing, log, bound, mem>>
        BY <1>2 DEF ResumeAfterFailure
    <2>2. TablesEnd(row', log')
        BY <2>1, TablesStay, InterruptedTables
    <2>3. \A r \in Runs : mem[r].state # "running"
        BY <1>2, MemoryFacts DEF ResumeAfterFailure, Closed, InMemory, Fits, Terminal
    <2>4. \A r \in Runs : Winds(mem'[r], mem[r], row'[r].state)
        BY <2>1, <2>3, MemoryStays
    <2>5. /\ Closed' /\ store' \in {"open", "blocked", "removed"}
          /\ paused' \in BOOLEAN /\ drained' \in BOOLEAN
        BY <1>2 DEF ResumeAfterFailure, Closed
    <2> QED  BY <2>1, <2>2, <2>4, <2>5, EndsStep DEF Typed
<1>3. CASE Crash \/ Shutdown
    <2>1. Down /\ bound' = bound
        BY <1>3 DEF Crash, Shutdown
    <2>2. TablesEnd(row', log')
        <3>1. CASE Crash
            BY <3>1, TablesStay, InterruptedTables DEF Crash
        <3>2. CASE Shutdown
            <4>1. PICK outs \in AllOutcomes :
                      row' = Interrupted(StoppedRows(outs)) /\ log' = StoppedLog(outs)
                BY <3>2 DEF Shutdown
            <4>2. DOMAIN outs \subseteq Stoppable
                BY DEF AllOutcomes
            <4>3. TablesEnd(StoppedRows(outs), StoppedLog(outs))
                BY <4>2, StopsEndTables
            <4> QED  BY <4>1, <4>3, InterruptedTables
        <3> QED  BY <1>3, <3>1, <3>2
    <2>3. mem' \in [Runs -> MemRecord] /\ \A r \in Runs : mem'[r] = Absent
        BY <2>1, RecordsTyped DEF Down
    <2>4. \A r \in Runs : Winds(mem'[r], mem[r], row'[r].state)
        <3>1. Absent.state = "absent"
            BY DEF Absent
        <3> QED  BY <2>3, <3>1, RecordsTyped DEF Winds
    <2>5. /\ store' \in {"open", "blocked", "removed"}
          /\ paused' \in BOOLEAN /\ drained' \in BOOLEAN /\ clearing' \in BOOLEAN
          /\ UNCHANGED world
        BY <2>1 DEF Down, Typed
    <2>6. Closed'
        <3>1. ~drained' /\ ~clearing' /\ (store' = "removed" => store = "removed")
            BY <2>1 DEF Down
        <3> QED  BY <2>2, <2>3, <3>1 DEF Closed, TablesEnd
    <2> QED  BY <2>1, <2>2, <2>3, <2>4, <2>5, <2>6, EndsStep DEF Typed
<1> QED  BY <1>1, <1>2, <1>3

LEMMA StartStep ==
    ASSUME Inv, NEW r \in Runs, NEW t \in Threads, NEW s \in Settings, Start(r, t, s)
    PROVE  Inv'
<1> USE DEF Inv, world, account
<1>1. row[r] = NoRow /\ row[r].state = "none" /\ store = "open"
      /\ \A a \in RunningIn(t) : mem[a].state \in Terminal
    BY RecordsTyped DEF Start, Requested
<1>2. /\ row' \in [Runs -> RowRecord] /\ row'[r] = Created(t)
      /\ \A a \in Runs : a # r /\ a \in RunningIn(t) =>
           row'[a].state = "stopped" /\ row[a].state = "running"
      /\ \A a \in Runs : a # r /\ a \notin RunningIn(t) => row'[a] = row[a]
    <2>1. row' = [a \in Runs |-> IF a = r THEN Created(t)
                                 ELSE IF a \in RunningIn(t) THEN [row[a] EXCEPT !.state = "stopped"]
                                 ELSE row[a]]
        BY DEF Start
    <2>2. Created(t) \in RowRecord
        BY DEF Created, RowRecord
    <2>3. ASSUME NEW a \in RunningIn(t)
          PROVE  /\ [row[a] EXCEPT !.state = "stopped"] \in RowRecord
                 /\ [row[a] EXCEPT !.state = "stopped"].state = "stopped"
                 /\ row[a].state = "running"
        BY RowFacts DEF RunningIn, RowRecord, Terminal
    <2>4. \A a \in Runs : row[a] \in RowRecord
        BY RowFacts
    <2>5. \A a \in Runs : row'[a] = IF a = r THEN Created(t)
                                    ELSE IF a \in RunningIn(t) THEN [row[a] EXCEPT !.state = "stopped"]
                                    ELSE row[a]
        BY <2>1
    <2>6. row' \in [Runs -> RowRecord]
        BY <2>1, <2>2, <2>3, <2>4
    <2> QED  BY <2>3, <2>5, <2>6
<1>3. /\ log' \in [Threads -> Seq(Entry)] /\ \A u \in Threads : Follows(log'[u])
      /\ \A u \in Threads : u # t => log'[u] = log[u]
      /\ Asks(r, t)'
    <2> DEFINE e == [kind |-> "ask", run |-> r]
    <2>1. log' = [log EXCEPT ![t] = Append(log[t], e)]
        BY DEF Start, Said
    <2>2. log[t] \in Seq(Entry) /\ Follows(log[t])
        BY ConversationsFollow DEF Typed
    <2>3. /\ Append(log[t], e) \in Seq(Entry) /\ Follows(Append(log[t], e))
          /\ Len(Append(log[t], e)) > 0 /\ Append(log[t], e)[Len(Append(log[t], e))] = e
        BY <2>2, QuestionFollows
    <2>4. log'[t] = Append(log[t], e) /\ \A u \in Threads : u # t => log'[u] = log[u]
        BY <2>1 DEF Typed
    <2>5. log' \in [Threads -> Seq(Entry)]
        BY <2>1, <2>3 DEF Typed
    <2>6. Asks(r, t)'
        BY <2>3, <2>4 DEF Asks
    <2> QED  BY <2>3, <2>4, <2>5, <2>6, ConversationsFollow
<1>4. PICK at \in {"epoch", "unborn"} :
         /\ mem' \in [Runs -> MemRecord]
         /\ \A a \in Runs : mem'[a] \in {Absent, IF a = r THEN Begun(s, at) ELSE mem[a]}
    <2>1. PICK at \in {"epoch", "unborn"} : \E gone \in SUBSET Runs :
              mem' = [a \in Runs |-> IF a \in gone THEN Absent ELSE [mem EXCEPT ![r] = Begun(s, at)][a]]
        BY DEF Start
    <2>2. Begun(s, at) \in MemRecord
        BY DEF Begun, Absent, MemRecord, Typed, Stages
    <2>3. [mem EXCEPT ![r] = Begun(s, at)] \in [Runs -> MemRecord]
        BY <2>2 DEF Typed
    <2>4. mem' \in [Runs -> MemRecord]
        BY <2>1, <2>3, RecordsTyped
    <2>5. \A a \in Runs : mem'[a] \in {Absent, IF a = r THEN Begun(s, at) ELSE mem[a]}
        BY <2>1 DEF Typed
    <2> QED  BY <2>4, <2>5
<1>5. /\ Begun(s, at).state = "running" /\ Begun(s, at).at = at /\ Fits(Begun(s, at))
      /\ Absent.state = "absent" /\ Fits(Absent)
    BY RecordsTyped DEF Begun, Absent, Fits
<1>6. UNCHANGED <<world, account, bound>>
    BY DEF Start
<1>7. Typed'
    BY <1>2, <1>3, <1>4, <1>6 DEF Typed
<1>8. Shape'
    BY <1>4, <1>5 DEF Shape
<1>9. \A a \in Runs : a # r /\ mem'[a].state # "absent" => mem'[a] = mem[a]
    BY <1>4, <1>5
<1>10. Agree'
    <2> SUFFICES ASSUME NEW a \in Runs, mem'[a].state # "absent"
                 PROVE  /\ mem'[a].state = "running" => row'[a].state = "running"
                        /\ mem'[a].state = "done" <=> row'[a].state = "done"
        BY DEF Agree
    <2>1. CASE a = r
        BY <1>2, <1>4, <1>5, <2>1 DEF Created
    <2>2. CASE a # r /\ a \in RunningIn(t)
        BY <1>1, <1>2, <1>9, <2>2 DEF Agree, Terminal
    <2>3. CASE a # r /\ a \notin RunningIn(t)
        BY <1>2, <1>9, <2>3 DEF Agree
    <2> QED  BY <2>1, <2>2, <2>3
<1>11. Asked'
    <2> SUFFICES ASSUME NEW a \in Runs, row'[a].state = "running"
                 PROVE  Asks(a, row[a].thread)'
        BY DEF Asked
    <2>1. CASE a = r
        BY <1>2, <1>3, <2>1 DEF Created
    <2>2. CASE a # r
        <3>1. a \notin RunningIn(t) /\ row'[a] = row[a]
            BY <1>2, <2>2
        <3>2. row[a].thread \in Threads \ {t} /\ Asks(a, row[a].thread)
            BY <3>1, RowFacts DEF RunningIn, Asked
        <3> QED  BY <1>3, <3>1, <3>2 DEF Asks
    <2> QED  BY <2>1, <2>2
<1>12. AnswersFollowQuestions'
    BY <1>3 DEF AnswersFollowQuestions, Follows
<1>13. Runtime'
    <2> SUFFICES ASSUME NEW a \in Runs, mem'[a].state = "running", mem'[a].at \in {"model", "answer"}
                 PROVE  SameRuntime(a)'
        BY DEF Runtime
    <2>1. a # r
        BY <1>4, <1>5
    <2>2. mem'[a] = mem[a] /\ SameRuntime(a)
        BY <1>9, <2>1 DEF Runtime
    <2>3. row'[a] = row[a]
        BY <1>1, <1>2, <2>1, <2>2 DEF Terminal
    <2> QED  BY <1>6, <2>2, <2>3 DEF SameRuntime
<1>14. Sessions'
    BY <1>6 DEF Sessions
<1>15. Closed'
    BY <1>1, <1>6 DEF Closed
<1> QED  BY <1>7, <1>8, <1>10, <1>11, <1>12, <1>13, <1>14, <1>15

LEMMA RemoveStep == Inv /\ Remove => Inv'
<1> SUFFICES ASSUME Inv, Remove  PROVE Inv'
    OBVIOUS
<1> USE DEF Inv, world
<1>1. /\ \A r \in Runs : row'[r] = NoRow /\ mem'[r] = Absent
      /\ \A t \in Threads : log'[t] = <<>> /\ bound'[t] = Unbound
    BY DEF Remove
<1>2. Absent.state = "absent" /\ NoRow.state = "none" /\ Unbound.session = None
    BY DEF Absent, NoRow, Unbound
<1>3. Typed'
    <2>1. log' \in [Threads -> Seq(Entry)]  BY DEF Remove
    <2> QED  BY <2>1, RecordsTyped DEF Remove, Typed
<1>4. Shape' /\ Agree' /\ Asked' /\ Runtime' /\ Sessions'
    BY <1>1, <1>2, RecordsTyped DEF Shape, Agree, Asked, Runtime, Sessions
<1>5. AnswersFollowQuestions'
    BY <1>1 DEF AnswersFollowQuestions
<1>6. Closed'
    BY <1>1, <1>2 DEF Remove, Closed, InMemory
<1> QED  BY <1>3, <1>4, <1>5, <1>6

LEMMA InvNext == Inv /\ [Next]_vars => Inv'
<1> SUFFICES ASSUME Inv, [Next]_vars  PROVE Inv'
    OBVIOUS
<1>1. ASSUME NEW r \in Runs, NEW t \in Threads, NEW s \in Settings, Start(r, t, s)
      PROVE  Inv'
    BY <1>1, StartStep
<1>2. ASSUME NEW r \in Runs, Step(r) \/ Stream(r) \/ Raise(r)
      PROVE  Inv'
    BY <1>2, WorkerStep, BindStep, EndStep DEF Step
<1>3. ASSUME NEW r \in Runs, Stop(r)
      PROVE  Inv'
    BY <1>3, StopStep
<1>4. CASE PauseBegin
    BY <1>4, PauseStep
<1>5. CASE (\E r \in Runs : StopForgotten(r)) \/ ResumeAfterFailure \/ Crash \/ Shutdown
    BY <1>5, RestartStep
<1>6. CASE UNCHANGED vars \/ ChangeSettings \/ SwitchSource \/ ResetContext
           \/ PauseEnd \/ PauseFails
    BY <1>6, WorldStep
<1>7. CASE Remove
    BY <1>7, RemoveStep
<1> QED  BY <1>1, <1>2, <1>3, <1>4, <1>5, <1>6, <1>7 DEF Next

LEMMA SpecInv == Spec => []Inv
BY InvInit, InvNext, PTL DEF Spec

-----------------------------------------------------------------------------
(* The properties *)

LEMMA TypedIsTypeOK == Typed => TypeOK
BY DEF Typed, TypeOK, Epochs, MemRecord, RowRecord, Entry, BoundRecord

\* What the window is told of a run agrees with what is saved, sessions belong
\* to the runtime their conversation is bound to, and answers stand behind
\* their questions (start, finish_run, bind_runtime, restarts and removals).
THEOREM Reported == Spec => []ReportedIsSaved
<1>1. Inv => ReportedIsSaved
    BY TypedIsTypeOK DEF Inv, ReportedIsSaved, Agree, Sessions, InMemory
<1> QED  BY <1>1, SpecInv, PTL

\* A drained account has no worker and stays closed, a removed one has no data
\* (pause_for_account_clear and clear_account).
THEOREM Quiet == Spec => []ClosedAccountIsQuiet
<1>1. Inv => ClosedAccountIsQuiet
    <2> SUFFICES ASSUME Inv  PROVE ClosedAccountIsQuiet
        OBVIOUS
    <2>1. \A r \in Runs : Alive(r) => r \in InMemory /\ mem[r].at # "ended"
        BY MemoryFacts DEF Inv, Alive, InMemory, Stages
    <2>2. Absent.at \notin Stages
        BY DEF Absent, Stages
    <2> QED  BY <2>1, <2>2 DEF Inv, Closed, ClosedAccountIsQuiet, Alive
<1> QED  BY <1>1, SpecInv, PTL

\* AnswersAreCurrent for one step.
Current1 ==
    \A t \in Threads :
        /\ Adds(t, {"partial", "whole"}) => AnswersInTime(t)
        /\ bound'[t].session \notin {None, bound[t].session} => Adds(t, {"whole"})

\* A step that adds no answer and writes no session.
LEMMA NothingSaid ==
    ASSUME Typed, log' = log, \A t \in Threads : bound'[t].session \in {None, bound[t].session}
    PROVE  Current1
BY DEF Typed, Current1, Adds

\* A run that is still going on in the table gets its answer.
LEMMA AnswerIsCurrent ==
    ASSUME Typed, NEW r \in Runs, NEW k \in {"partial", "whole"},
           row[r].state = "running", log' = Said(row[r].thread, k, r), mem[r].gen = source,
           row'[r].state # "stopped" =>
               mem[r].epoch = epoch /\ mem[r].settings = settings /\ ~mem[r].cancel /\ ~paused,
           k = "whole" =>
               /\ row'[r].state = "done"
               /\ bound'[row[r].thread] = [cfg |-> mem[r].cfg, epoch |-> mem[r].epoch,
                                           session |-> <<mem[r].cfg, mem[r].epoch>>],
           \A t \in Threads : bound'[t] = bound[t] \/ (k = "whole" /\ t = row[r].thread)
    PROVE  Current1
<1> DEFINE t == row[r].thread
           e == [kind |-> k, run |-> r]
<1>1. t \in Threads /\ log[t] \in Seq(Entry) /\ e \in Entry
    BY RowFacts DEF Typed, Entry
<1>2. log'[t] = Append(log[t], e) /\ \A u \in Threads : u # t => log'[u] = log[u]
    BY <1>1 DEF Said, Typed
<1>3. log'[t][Len(log'[t])] = e /\ Len(log'[t]) > Len(log[t])
    BY <1>1, <1>2
<1>4. row[r] = Created(t)
    <2>1. row[r] \in [state : Terminal \cup {"running"}, thread : Threads]
        BY RowFacts
    <2> QED  BY <2>1 DEF Created
<1>5. AnswersInTime(t)
    BY <1>3, <1>4 DEF AnswersInTime
<1>6. k = "whole" => Adds(t, {"whole"})
    BY <1>3 DEF Adds
<1>7. \A u \in Threads : u # t => ~Adds(u, {"partial", "whole"})
    BY <1>2 DEF Adds, Typed
<1> QED  BY <1>5, <1>6, <1>7 DEF Current1

\* A row whose stop is saved is stopped.
LEMMA SavedAreStopped ==
    ASSUME Typed, NEW outs, DOMAIN outs \subseteq Stoppable, NEW r \in Saved(outs),
           row[r].state = "running"
    PROVE  StoppedRows(outs)[r].state = "stopped"
<1>1. r \in Runs
    BY DEF Saved, Stoppable
<1>2. row[r] \in RowRecord /\ row[r] # NoRow
    BY <1>1, RowFacts DEF NoRow
<1>3. FinishRow(row, r, "stopped")[r].state = "stopped"
    BY <1>1, <1>2 DEF FinishRow, Typed, RowRecord
<1> QED  BY <1>1, <1>3 DEF StoppedRows

\* Runs are stopped: what is saved of them is marked as stopped.
LEMMA StopsAreCurrent ==
    ASSUME Typed, NEW outs, DOMAIN outs \subseteq Stoppable,
           \A r \in DOMAIN outs : outs[r] \in Outcomes(r), log' = StoppedLog(outs),
           bound' = bound,
           \A r \in Saved(outs) : row[r].state = "running" => row'[r].state = "stopped"
    PROVE  Current1
<1> SUFFICES ASSUME NEW t \in Threads, Adds(t, {"partial", "whole"})
             PROVE  AnswersInTime(t)
    BY DEF Current1
<1> DEFINE texts == {r \in Saved(outs) : mem[r].text /\ r \in RunningIn(t)}
           c == CHOOSE r \in texts : TRUE
           e == [kind |-> "partial", run |-> c]
<1>1. log'[t] = IF texts = {} THEN log[t] ELSE Partial(c)[t]
    BY DEF StoppedLog
<1>2. log[t] \in Seq(Entry)
    BY DEF Typed
<1>3. texts # {}
    BY <1>1, <1>2 DEF Adds
<1>4. c \in Saved(outs) /\ mem[c].text /\ c \in RunningIn(t)
    BY <1>3
<1>5. c \in Runs /\ Partial(c) = Said(t, "partial", c)
    BY <1>4 DEF Partial, Answered, RunningIn
<1>6. log'[t] = Append(log[t], e) /\ e \in Entry
    BY <1>1, <1>3, <1>5 DEF Said, Typed, Entry
<1>7. log'[t][Len(log'[t])] = e
    BY <1>2, <1>6
<1>8. mem[c].gen = source
    BY <1>4 DEF Saved, Outcomes
<1>9. row[c] = Created(t)
    <2>1. row[c].state = "running" /\ row[c].thread = t
        BY <1>4 DEF RunningIn
    <2>2. row[c] \in [state : Terminal \cup {"running"}, thread : Threads]
        BY <1>5, <2>1, RowFacts
    <2> QED  BY <2>1, <2>2 DEF Created
<1>10. row'[c].state = "stopped"
    BY <1>4, <1>9 DEF Created
<1> QED  BY <1>7, <1>8, <1>9, <1>10 DEF AnswersInTime

\* What a model said is saved for the account, conversation and session its run was
\* asked in and over the history and settings it was asked with, and only what a stop
\* saves may be over older ones (_finish_locked under the commit guard, _fail_locked,
\* _stop_run_locked).
THEOREM Current == Spec => AnswersAreCurrent
<1>1. Inv /\ [Next]_vars => Current1
    <2> SUFFICES ASSUME Inv, [Next]_vars  PROVE Current1
        OBVIOUS
    <2> USE DEF Inv
    <2>1. ASSUME NEW r \in Runs, NEW t \in Threads, NEW s \in Settings, Start(r, t, s)
          PROVE  Current1
        <3> DEFINE e == [kind |-> "ask", run |-> r]
        <3>1. log[t] \in Seq(Entry) /\ e \in Entry
            BY DEF Typed, Entry
        <3>2. log'[t] = Append(log[t], e) /\ \A u \in Threads : u # t => log'[u] = log[u]
            BY <2>1, <3>1 DEF Start, Said, Typed
        <3>3. log'[t][Len(log'[t])] = e
            BY <3>1, <3>2
        <3>4. bound' = bound
            BY <2>1 DEF Start
        <3>5. ASSUME NEW u \in Threads, Adds(u, {"partial", "whole"})
              PROVE  FALSE
            <4>1. CASE u = t
                BY <3>3, <3>5, <4>1 DEF Adds
            <4>2. CASE u # t
                <5>1. log'[u] = log[u] /\ Len(log[u]) \in Nat
                    BY <3>2, <4>2 DEF Typed
                <5> QED  BY <3>5, <5>1 DEF Adds
            <4> QED  BY <4>1, <4>2
        <3> QED  BY <3>4, <3>5 DEF Current1
    <2>2. ASSUME NEW r \in Runs, Commit(r)
          PROVE  Current1
        <3>1. CASE log' = log /\ bound' = bound
            BY <3>1, NothingSaid
        <3>2. CASE /\ Light(r) /\ Fresh(r) /\ row' = FinishRow(row, r, "done")
                   /\ log' = Answered(r, "whole")
                   /\ bound' = IF row[r].state = "running"
                               THEN [bound EXCEPT ![row[r].thread].session = <<mem[r].cfg, mem[r].epoch>>]
                               ELSE bound
            <4> DEFINE t == row[r].thread
            <4>1. mem[r].state = "running" /\ mem[r].at = "answer" /\ mem[r].epoch # None
                BY <2>2, <3>2, MemoryFacts DEF Commit, Fits
            <4>2. row[r].state = "running" /\ t \in Threads
                BY <4>1, RowFacts DEF Agree
            <4>3. row'[r].state = "done"
                BY <3>2, <4>2, RowFacts DEF FinishRow, Typed, RowRecord
            <4>4. bound[t].cfg = mem[r].cfg /\ bound[t].epoch = mem[r].epoch
                BY <4>1 DEF Runtime, SameRuntime
            <4>5. bound[t] \in BoundRecord
                BY <4>2 DEF Typed
            <4>6. /\ bound'[t] = [bound[t] EXCEPT !.session = <<mem[r].cfg, mem[r].epoch>>]
                  /\ \A u \in Threads : u # t => bound'[u] = bound[u]
                BY <3>2, <4>2 DEF Typed
            <4>7. bound'[t] = [cfg |-> mem[r].cfg, epoch |-> mem[r].epoch,
                              session |-> <<mem[r].cfg, mem[r].epoch>>]
                BY <4>4, <4>5, <4>6 DEF BoundRecord
            <4>8. /\ mem[r].gen = source /\ mem[r].epoch = epoch /\ mem[r].settings = settings
                  /\ ~mem[r].cancel /\ ~paused
                BY <3>2, <4>1 DEF Light, Fresh, SameStamps
            <4>9. log' = Said(t, "whole", r)
                BY <3>2, <4>2 DEF Answered
            <4> QED  BY <4>2, <4>3, <4>6, <4>7, <4>8, <4>9, AnswerIsCurrent
        <3> QED  BY <2>2, <3>1, <3>2 DEF Commit, tables
    <2>3. ASSUME NEW r \in Runs, Fail(r)
          PROVE  Current1
        <3>1. bound' = bound
            BY <2>3 DEF Fail
        <3>2. CASE log' = log
            BY <3>1, <3>2, NothingSaid
        <3>3. CASE Light(r) /\ Fresh(r) /\ log' # log /\ log' = Partial(r)
            <4>1. mem[r].text /\ row[r].state = "running" /\ log' = Said(row[r].thread, "partial", r)
                BY <3>3 DEF Partial, Answered
            <4>2. mem[r].epoch # None
                BY <4>1, MemoryFacts DEF Fits
            <4>3. /\ mem[r].gen = source /\ mem[r].epoch = epoch /\ mem[r].settings = settings
                  /\ ~mem[r].cancel /\ ~paused
                BY <3>3, <4>2 DEF Light, Fresh, SameStamps
            <4> QED  BY <3>1, <4>1, <4>3, AnswerIsCurrent
        <3> QED  BY <2>3, <3>2, <3>3 DEF Fail
    <2>4. ASSUME NEW r \in Runs, Stop(r)
          PROVE  Current1
        <3>1. PICK out \in Outcomes(r) : StopAll([x \in {r} |-> out])
            BY <2>4 DEF Stop
        <3> DEFINE outs == [x \in {r} |-> out]
        <3>2. DOMAIN outs \subseteq Stoppable /\ \A x \in DOMAIN outs : outs[x] \in Outcomes(x)
            BY <2>4, <3>1 DEF Stop
        <3>3. row' = StoppedRows(outs) /\ log' = StoppedLog(outs) /\ bound' = bound
            BY <3>1 DEF StopAll
        <3>4. \A x \in Saved(outs) : row[x].state = "running" => row'[x].state = "stopped"
            BY <3>2, <3>3, SavedAreStopped
        <3> QED  BY <3>2, <3>3, <3>4, StopsAreCurrent
    <2>5. CASE PauseBegin \/ Shutdown
        <3>1. PICK outs \in AllOutcomes :
                 /\ log' = StoppedLog(outs) /\ bound' = bound
                 /\ row' = StoppedRows(outs) \/ row' = Interrupted(StoppedRows(outs))
            BY <2>5 DEF PauseBegin, Shutdown, StopAll
        <3>2. DOMAIN outs = Stoppable /\ \A x \in DOMAIN outs : outs[x] \in Outcomes(x)
            BY DEF AllOutcomes
        <3>3. \A x \in Saved(outs) : row[x].state = "running" => StoppedRows(outs)[x].state = "stopped"
            BY <3>2, SavedAreStopped
        <3>4. \A x \in Saved(outs) : row[x].state = "running" => row'[x].state = "stopped"
            <4> SUFFICES ASSUME NEW x \in Saved(outs), row[x].state = "running"
                         PROVE  row'[x].state = "stopped"
                OBVIOUS
            <4>1. x \in Runs /\ StoppedRows(outs)[x].state = "stopped"
                BY <3>2, <3>3 DEF Saved, Stoppable
            <4>2. Interrupted(StoppedRows(outs))[x] = StoppedRows(outs)[x]
                BY <4>1 DEF Interrupted, FinishRow
            <4> QED  BY <3>1, <4>1, <4>2
        <3> QED  BY <3>1, <3>2, <3>4, StopsAreCurrent
    <2>6. CASE Remove
        <3>1. \A t \in Threads : log'[t] = <<>> /\ log[t] \in Seq(Entry) /\ bound'[t].session = None
            BY <2>6 DEF Remove, Typed, Unbound
        <3>2. \A t \in Threads : Len(log'[t]) = 0 /\ Len(log[t]) \in Nat
            BY <3>1
        <3> QED  BY <3>1, <3>2 DEF Current1, Adds
    <2>7. ASSUME NEW r \in Runs, Bind(r)
          PROVE  Current1
        <3>1. log' = log /\ \A t \in Threads : bound'[t].session \in {None, bound[t].session}
            BY <2>7 DEF Bind, Typed
        <3> QED  BY <3>1, NothingSaid
    <2>8. ASSUME NEW r \in Runs,
                 \/ Check(r) \/ CaptureEpoch(r) \/ ReadConfig(r)
                 \/ Stream(r) \/ Raise(r) \/ StopForgotten(r)
          PROVE  Current1
        <3>1. log' = log /\ bound' = bound
            BY <2>8 DEF Check, CaptureEpoch, ReadConfig, Stream, Raise, StopForgotten, tables
        <3> QED  BY <3>1, NothingSaid
    <2>9. CASE \/ ChangeSettings \/ SwitchSource \/ ResetContext \/ PauseEnd \/ PauseFails
               \/ ResumeAfterFailure \/ Crash \/ UNCHANGED vars
        <3>1. log' = log /\ bound' = bound
            BY <2>9 DEF ChangeSettings, SwitchSource, ResetContext, PauseEnd, PauseFails,
                ResumeAfterFailure, Crash, tables, vars
        <3> QED  BY <3>1, NothingSaid
    <2> QED  BY <2>1, <2>2, <2>3, <2>4, <2>5, <2>6, <2>7, <2>8, <2>9 DEF Next, Step
<1> QED  BY <1>1, SpecInv, PTL DEF Spec, AnswersAreCurrent, Current1

-----------------------------------------------------------------------------
(* The import of a history: the invariant *)

\* The records of ContextTypeOK.
Projections ==
    [state : {"reading", "ready", "error"}, from : {0, 1}, epoch : {0, 1},
     hw : 0..MaxLen, borrowed : BOOLEAN, cursor : 0..MaxLen, last : 0..MaxLen, rows : Seq(Messages)]
Importers ==
    [at : {"read", "commit", "exit"}, gen : 0..MaxRebind, cancel : BOOLEAN,
     page : SUBSET Messages, next : 0..MaxLen]

\* The messages in S are those of source s behind a and up to b.
Covers(S, s, a, b) ==
    /\ \A m \in S : m.from = s
    /\ \A m, n \in S : m.pos = n.pos => m = n
    /\ {m.pos : m \in S} = ((a + 1)..b) \ Silent

\* The projection of the first messages of a source; behind them, up to the cursor, is
\* nothing that is shown.
Prefix(r) ==
    /\ \A i \in DOMAIN r.rows : r.rows[i].from = r.from
    /\ \A i, j \in DOMAIN r.rows : i < j => r.rows[i].pos < r.rows[j].pos
    /\ {r.rows[i].pos : i \in DOMAIN r.rows} = (1..r.last) \ Silent
    /\ (r.last + 1)..r.cursor \subseteq Silent
    /\ r.cursor # 0 => r.last \leq r.cursor
\* Its highwater is a position of the source, and when it is ready nothing is missing up
\* to there, unless the highwater is another source's.
Frozen(r, c) ==
    ~r.borrowed =>
        /\ r.hw \leq Len(c[r.from])
        /\ r.state = "ready" => (r.last + 1)..r.hw \subseteq Silent
ProjInv == HasRow => Prefix(proj) /\ Frozen(proj, src)

\* A window shows the newest messages of its source, as far as it reaches.
Decoded(w, c) ==
    /\ w.latest \leq Len(c[Scope(w.gen)])
    /\ \E f \in 0..MaxLen : Covers(w.rows, Scope(w.gen), f, w.latest) /\ (~w.more => f = 0)
WindowInv ==
    /\ win # Nothing => Decoded(win, src)
    /\ pending # Nothing => Decoded(pending, src)
    /\ prep # Nothing => prep.hw \leq Len(src[Scope(prep.gen)])

\* A page to be saved joins on to the cursor; the empty one has met the highwater.
PageInv ==
    imp.at = "commit" =>
        /\ HasRow /\ proj.state = "reading"
        /\ imp.next # 0 => After < imp.next
        /\ imp.next = 0 /\ ~proj.borrowed => proj.hw \leq After
        /\ proj.from = Scope(imp.gen)
        /\ Covers(imp.page, Scope(imp.gen), After, imp.next)

LenInv == \A s \in {0, 1} : Len(src[s]) \leq MaxLen
ContextInv == ContextTypeOK /\ LenInv /\ ProjInv /\ WindowInv /\ PageInv

-----------------------------------------------------------------------------
(* Sets in order *)

\* A finite nonempty set of numbers has a least one: the one with the fewest below it.
LEMMA LeastElement ==
    ASSUME NEW S \in SUBSET Nat, S # {}, IsFiniteSet(S)
    PROVE  \E i \in S : \A j \in S : i <= j
<1> DEFINE Below(i) == {j \in S : j < i}
           T == {Below(i) : i \in S}
<1>1. T \subseteq FiniteSubsetsOf(S)
    BY FS_Subset DEF FiniteSubsetsOf
<1>2. T # {}
    OBVIOUS
<1>3. IsWellFoundedOn(StrictSubsetOrdering(S), FiniteSubsetsOf(S))
    BY FS_StrictSubsetOrderingWellFounded
<1>4. PICK X \in T : \A Y \in T : <<Y, X>> \notin StrictSubsetOrdering(S)
    <2> HIDE DEF T
    <2> QED  BY <1>1, <1>2, <1>3, WFMin
<1>5. PICK i \in S : X = Below(i)
    BY <1>4
<1>6. ASSUME NEW j \in S, j < i  PROVE FALSE
    <2>1. Below(j) \in SUBSET S /\ Below(i) \in SUBSET S
        OBVIOUS
    <2>2. Below(j) \subseteq Below(i)
        <3>1. \A k \in S : k < j => k < i
            <4>1. \A k \in S : k \in Int  OBVIOUS
            <4> QED  BY <1>6, <4>1
        <3> QED  BY <3>1
    <2>3. j \in Below(i) /\ j \notin Below(j)
        <3>1. j \in Int  OBVIOUS
        <3> QED  BY <1>6, <3>1
    <2>4. <<Below(j), Below(i)>> \in StrictSubsetOrdering(S)
        BY <2>1, <2>2, <2>3 DEF StrictSubsetOrdering
    <2> QED  BY <1>4, <1>5, <2>4
<1> QED  BY <1>6

\* What is numbered f has one with the highest number, and one with the lowest.
LEMMA Highest ==
    ASSUME NEW S, IsFiniteSet(S), S # {}, NEW f \in [S -> Nat]
    PROVE  \E x \in S : \A y \in S : f[y] <= f[x]
<1> DEFINE Above(x) == {y \in S : f[y] > f[x]}
           V == {Cardinality(Above(x)) : x \in S}
<1>1. \A x \in S : IsFiniteSet(Above(x)) /\ Cardinality(Above(x)) \in 0..Cardinality(S)
    <2> TAKE x \in S
    <2>1. IsFiniteSet(Above(x)) /\ Cardinality(Above(x)) <= Cardinality(S)
        BY FS_Subset
    <2> QED  BY <2>1, FS_CardinalityType
<1>2. V \subseteq 0..Cardinality(S) /\ V # {} /\ V \subseteq Nat
    BY <1>1, FS_CardinalityType
<1>3. IsFiniteSet(V)
    <2> HIDE DEF V
    <2>1. Cardinality(S) \in Int  BY FS_CardinalityType
    <2>2. IsFiniteSet(0..Cardinality(S))  BY <2>1, FS_Interval
    <2> QED  BY <1>2, <2>2, FS_Subset
<1>4. PICK n \in V : \A k \in V : n <= k
    <2> HIDE DEF V
    <2> QED  BY <1>2, <1>3, LeastElement
<1>5. PICK x \in S : n = Cardinality(Above(x))
    BY <1>4
<1>6. ASSUME NEW y \in S, f[y] > f[x]  PROVE FALSE
    <2>1. Above(y) \subseteq Above(x) \ {y}
        <3>1. \A z \in S : f[z] \in Nat  OBVIOUS
        <3> QED  BY <1>6, <3>1
    <2>2. IsFiniteSet(Above(x) \ {y}) /\ Cardinality(Above(x) \ {y}) = Cardinality(Above(x)) - 1
        <3>1. y \in Above(x)  BY <1>6
        <3> HIDE DEF Above
        <3> QED  BY <3>1, <1>1, FS_RemoveElement
    <2>3. Cardinality(Above(y)) <= Cardinality(Above(x)) - 1
        <3> HIDE DEF Above
        <3> QED  BY <2>1, <2>2, FS_Subset
    <2>4. n <= Cardinality(Above(y))
        BY <1>4
    <2> HIDE DEF Above, V
    <2> QED  BY <1>1, <1>5, <1>6, <2>3, <2>4
<1> QED
    <2>1. \A z \in S : f[z] \in Nat  OBVIOUS
    <2> QED  BY <1>6, <2>1

\* ... and one with the lowest.
LEMMA Lowest ==
    ASSUME NEW S, IsFiniteSet(S), S # {}, NEW f \in [S -> Nat]
    PROVE  \E x \in S : \A y \in S : f[x] <= f[y]
<1>1. PICK top \in S : \A y \in S : f[y] <= f[top]
    BY Highest
<1> DEFINE g == [x \in S |-> f[top] - f[x]]
<1>2. g \in [S -> Nat]
    <2>1. \A z \in S : f[z] \in Nat  OBVIOUS
    <2> QED  BY <1>1, <2>1
<1>3. PICK x \in S : \A y \in S : g[y] <= g[x]
    <2> HIDE DEF g
    <2> QED  BY <1>2, Highest
<1> QED
    <2>1. \A z \in S : f[z] \in Nat /\ g[z] = f[top] - f[z]  OBVIOUS
    <2> HIDE DEF g
    <2> QED  BY <1>3, <2>1

\* The place of x in the order of f.
Downto(S, f, x) == {y \in S : f[y] <= f[x]}

\* The places are numbers from 1 on, and ascend with f.
LEMMA Placed ==
    ASSUME NEW S, IsFiniteSet(S), NEW f \in [S -> Nat], NEW x \in S
    PROVE  /\ IsFiniteSet(Downto(S, f, x))
           /\ Cardinality(Downto(S, f, x)) \in 1..Cardinality(S)
           /\ \A y \in S : f[x] < f[y] =>
                 Cardinality(Downto(S, f, x)) < Cardinality(Downto(S, f, y))
<1>1. \A y \in S : /\ Downto(S, f, y) \in SUBSET S /\ IsFiniteSet(Downto(S, f, y))
                   /\ Cardinality(Downto(S, f, y)) \in 0..Cardinality(S)
    <2> TAKE y \in S
    <2>1. Downto(S, f, y) \in SUBSET S  BY DEF Downto
    <2> QED  BY <2>1, FS_Subset, FS_CardinalityType
<1>2. Cardinality(Downto(S, f, x)) # 0
    <2>1. x \in Downto(S, f, x)
        <3>1. f[x] \in Nat  OBVIOUS
        <3> QED  BY <3>1 DEF Downto
    <2> QED  BY <1>1, <2>1, FS_EmptySet
<1>3. ASSUME NEW y \in S, f[x] < f[y]
      PROVE  Cardinality(Downto(S, f, x)) < Cardinality(Downto(S, f, y))
    <2>1. Downto(S, f, x) \in SUBSET (Downto(S, f, y) \ {y}) /\ y \in Downto(S, f, y)
        <3>1. \A z \in S : f[z] \in Nat  OBVIOUS
        <3> QED  BY <1>3, <3>1 DEF Downto
    <2>2. IsFiniteSet(Downto(S, f, y) \ {y})
          /\ Cardinality(Downto(S, f, y) \ {y}) = Cardinality(Downto(S, f, y)) - 1
        BY <1>1, <2>1, FS_RemoveElement
    <2>3. Cardinality(Downto(S, f, x)) <= Cardinality(Downto(S, f, y)) - 1
        BY <2>1, <2>2, FS_Subset
    <2> QED  BY <1>1, <2>3
<1> QED  BY <1>1, <1>2, <1>3

\* Every place is taken, by one alone.
LEMMA PlacesDiffer ==
    ASSUME NEW S, IsFiniteSet(S), NEW f \in [S -> Nat], \A x, y \in S : f[x] = f[y] => x = y
    PROVE  \A x, y \in S : Cardinality(Downto(S, f, x)) = Cardinality(Downto(S, f, y)) => x = y
<1> DEFINE R(x) == Cardinality(Downto(S, f, x))
<1>0. \A z \in S : f[z] \in Nat
    OBVIOUS
<1>1. \A x \in S : R(x) \in 1..Cardinality(S)
    BY Placed
<1>2. \A x, y \in S : f[x] < f[y] => R(x) < R(y)
    BY Placed
<1>3. ASSUME NEW x \in S, NEW y \in S, R(x) = R(y)  PROVE x = y
    <2> HIDE DEF R
    <2>1. ~(f[x] < f[y]) /\ ~(f[y] < f[x])
        BY <1>1, <1>2, <1>3
    <2> QED  BY <1>0, <2>1
<1> QED  BY <1>3

\* Every place up to the last is somebody's.
LEMMA PlaceTaken ==
    ASSUME NEW S, IsFiniteSet(S), NEW f \in [S -> Nat], \A x, y \in S : f[x] = f[y] => x = y,
           NEW i \in 1..Cardinality(S)
    PROVE  \E x \in S : Cardinality(Downto(S, f, x)) = i
<1> DEFINE R(x) == Cardinality(Downto(S, f, x))
<1>0. \A z \in S : f[z] \in Nat
    OBVIOUS
<1>1. \A x \in S : R(x) \in 1..Cardinality(S) /\ IsFiniteSet(Downto(S, f, x))
    BY Placed
<1>2. \A x, y \in S : f[x] < f[y] => R(x) < R(y)
    BY Placed
<1>4. \E x \in S : R(x) = i
    <2> DEFINE T == {x \in S : R(x) >= i}
    <2>0. Cardinality(S) \in Nat
        BY FS_CardinalityType
    <2>1. T # {} /\ IsFiniteSet(T) /\ [x \in T |-> f[x]] \in [T -> Nat]
        <3>1. S # {}
            BY <2>0, FS_EmptySet
        <3>2. PICK x \in S : \A y \in S : f[y] <= f[x]
            BY <3>1, Highest
        <3>3. R(x) = Cardinality(S)
            <4>1. Downto(S, f, x) = S  BY <3>2 DEF Downto
            <4> QED  BY <4>1
        <3> HIDE DEF R
        <3> QED  BY <2>0, <3>3, FS_Subset
    <2>2. PICK x \in T : \A y \in T : f[x] <= f[y]
        <3>1. \E x \in T : \A y \in T : [z \in T |-> f[z]][x] <= [z \in T |-> f[z]][y]
            <4> HIDE DEF T
            <4> QED  BY <2>1, Lowest
        <3> HIDE DEF T
        <3> QED  BY <3>1
    <2>3. CASE R(x) = i
        BY <2>3
    <2>4. CASE R(x) # i
        <3> DEFINE B == Downto(S, f, x) \ {x}
        <3>1. x \in S /\ R(x) > i /\ R(x) \in Nat
            <4> HIDE DEF R
            <4> QED  BY <1>1, <2>4
        <3>2. x \in Downto(S, f, x)
            BY <1>0, <3>1 DEF Downto
        <3>3. IsFiniteSet(B) /\ Cardinality(B) = R(x) - 1
            BY <1>1, <3>1, <3>2, FS_RemoveElement
        <3>4. B # {}
            <4>1. Cardinality(B) # 0  BY <3>1, <3>3
            <4> QED  BY <4>1, FS_EmptySet
        <3>5. B \subseteq S /\ [z \in B |-> f[z]] \in [B -> Nat]
            BY <1>0 DEF Downto
        <3>6. PICK y \in B : \A z \in B : f[z] <= f[y]
            <4>1. \E y \in B : \A z \in B : [z1 \in B |-> f[z1]][z] <= [z1 \in B |-> f[z1]][y]
                <5> HIDE DEF B
                <5> QED  BY <3>3, <3>4, <3>5, Highest
            <4> HIDE DEF B
            <4> QED  BY <4>1
        <3>7. y \in S /\ f[y] < f[x]
            <4>1. y \in S /\ y # x /\ f[y] <= f[x]  BY DEF Downto
            <4>2. f[y] # f[x]  BY <3>1, <4>1
            <4> QED  BY <1>0, <3>1, <4>1, <4>2
        <3>8. Downto(S, f, y) = B
            <4>1. ASSUME NEW z \in Downto(S, f, y)  PROVE z \in B
                <5>1. z \in S /\ f[z] <= f[y]  BY <4>1 DEF Downto
                <5>2. f[z] <= f[x] /\ f[z] # f[x]  BY <1>0, <3>1, <3>7, <5>1
                <5> QED  BY <5>1, <5>2 DEF Downto
            <4>2. ASSUME NEW z \in B  PROVE z \in Downto(S, f, y)
                BY <3>5, <3>6 DEF Downto
            <4> QED  BY <4>1, <4>2
        <3>9. R(y) = R(x) - 1
            BY <3>3, <3>8
        <3>10. y \in T
            <4> HIDE DEF R
            <4> QED  BY <3>1, <3>7, <3>9
        <3> QED
            <4>1. f[x] <= f[y]  BY <2>2, <3>10
            <4> QED  BY <1>0, <3>1, <3>7, <4>1
    <2> QED  BY <2>3, <2>4
<1> QED  BY <1>4

\* A function on an interval from 1 is a sequence.
LEMMA FunctionSeq ==
    ASSUME NEW S, NEW n \in Nat, NEW s \in [1..n -> S]
    PROVE  s \in Seq(S) /\ Len(s) = n
OBVIOUS

\* The enumeration of a set by places is in order and leaves nothing out.
LEMMA Enumerated ==
    ASSUME NEW S, IsFiniteSet(S), NEW f \in [S -> Nat], \A x, y \in S : f[x] = f[y] => x = y,
           NEW s \in [1..Cardinality(S) -> S],
           \A i \in 1..Cardinality(S) : Cardinality(Downto(S, f, s[i])) = i
    PROVE  /\ Cardinality(S) \in Nat /\ s \in Seq(S) /\ Len(s) = Cardinality(S)
           /\ \A i \in 1..Len(s) : s[i] \in S /\ Cardinality(Downto(S, f, s[i])) = i
           /\ \A x \in S : \E i \in 1..Len(s) : s[i] = x
           /\ \A i, j \in 1..Len(s) : i < j => f[s[i]] < f[s[j]]
           /\ \A x \in S : s[Cardinality(Downto(S, f, x))] = x
<1>1. Cardinality(S) \in Nat
    BY FS_CardinalityType
<1>2. \A i \in 1..Cardinality(S) : s[i] \in S /\ Cardinality(Downto(S, f, s[i])) = i
    OBVIOUS
<1>4. s \in Seq(S) /\ Len(s) = Cardinality(S)
    BY <1>1, FunctionSeq
<1>5. \A x \in S : Cardinality(Downto(S, f, x)) \in 1..Cardinality(S)
    BY Placed
<1>6. \A x, y \in S : Cardinality(Downto(S, f, x)) = Cardinality(Downto(S, f, y)) => x = y
    BY PlacesDiffer
<1>7. \A x \in S : s[Cardinality(Downto(S, f, x))] = x
    BY <1>2, <1>5, <1>6
<1>8. ASSUME NEW i \in 1..Cardinality(S), NEW j \in 1..Cardinality(S), i < j
      PROVE  f[s[i]] < f[s[j]]
    <2>1. s[i] \in S /\ s[j] \in S /\ Cardinality(Downto(S, f, s[i])) = i
          /\ Cardinality(Downto(S, f, s[j])) = j
        BY <1>2
    <2>2. f[s[i]] \in Nat /\ f[s[j]] \in Nat
        BY <2>1
    <2>3. f[s[j]] # f[s[i]]
        BY <1>8, <2>1
    <2>4. ~(f[s[j]] < f[s[i]])
        <3> SUFFICES ASSUME f[s[j]] < f[s[i]] PROVE FALSE  OBVIOUS
        <3>1. Cardinality(Downto(S, f, s[j])) < Cardinality(Downto(S, f, s[i]))
            BY <2>1, Placed
        <3> QED  BY <1>8, <2>1, <3>1
    <2> QED  BY <2>2, <2>3, <2>4
<1> QED  BY <1>1, <1>2, <1>4, <1>5, <1>7, <1>8

-----------------------------------------------------------------------------
(* Messages in order *)

\* InOrder lists a set of messages by position, each once.
LEMMA InOrderIs ==
    ASSUME NEW S \in SUBSET Messages, IsFiniteSet(S), \A m, n \in S : m.pos = n.pos => m = n
    PROVE  /\ InOrder(S) \in Seq(S)
           /\ \A i \in DOMAIN InOrder(S) : InOrder(S)[i] \in S
           /\ \A m \in S : \E i \in DOMAIN InOrder(S) : InOrder(S)[i] = m
           /\ \A i, j \in DOMAIN InOrder(S) : i < j => InOrder(S)[i].pos < InOrder(S)[j].pos
<1> DEFINE f == [m \in S |-> m.pos]
<1>0. \A m \in S : m.pos \in Nat
    BY DEF Messages
<1>1. f \in [S -> Nat] /\ \A x, y \in S : f[x] = f[y] => x = y
    BY <1>0
<1>2. \A m \in S : Upto(S, m) = Downto(S, f, m) /\ f[m] = m.pos
    BY <1>0 DEF Upto, Downto
<1>3. InOrder(S) \in [1..Cardinality(S) -> S]
      /\ \A i \in 1..Cardinality(S) : Cardinality(Downto(S, f, InOrder(S)[i])) = i
    <2>1. ASSUME NEW i \in 1..Cardinality(S)
          PROVE  /\ InOrder(S)[i] \in S /\ Cardinality(Downto(S, f, InOrder(S)[i])) = i
        <3> HIDE DEF f
        <3>1. InOrder(S)[i] = CHOOSE m \in S : Cardinality(Upto(S, m)) = i
            BY DEF InOrder
        <3>2. PICK m \in S : Cardinality(Downto(S, f, m)) = i
            BY <1>1, PlaceTaken
        <3>3. Cardinality(Upto(S, m)) = i
            BY <1>2, <3>2
        <3>4. InOrder(S)[i] \in S /\ Cardinality(Upto(S, InOrder(S)[i])) = i
            BY <3>1, <3>3
        <3> QED  BY <1>2, <3>4
    <2>2. InOrder(S) = [i \in 1..Cardinality(S) |-> InOrder(S)[i]]
        BY DEF InOrder
    <2> HIDE DEF f
    <2> QED  BY <2>1, <2>2
<1> HIDE DEF f
<1>4. /\ Cardinality(S) \in Nat /\ InOrder(S) \in Seq(S) /\ Len(InOrder(S)) = Cardinality(S)
      /\ \A i \in 1..Len(InOrder(S)) : InOrder(S)[i] \in S /\ Cardinality(Downto(S, f, InOrder(S)[i])) = i
      /\ \A x \in S : \E i \in 1..Len(InOrder(S)) : InOrder(S)[i] = x
      /\ \A i, j \in 1..Len(InOrder(S)) : i < j => f[InOrder(S)[i]] < f[InOrder(S)[j]]
      /\ \A x \in S : InOrder(S)[Cardinality(Downto(S, f, x))] = x
    BY <1>1, <1>3, Enumerated
<1>5. DOMAIN InOrder(S) = 1..Len(InOrder(S))
    BY <1>4
<1>6. ASSUME NEW i \in DOMAIN InOrder(S), NEW j \in DOMAIN InOrder(S), i < j
      PROVE  InOrder(S)[i].pos < InOrder(S)[j].pos
    BY <1>2, <1>4, <1>5, <1>6
<1> QED  BY <1>4, <1>5, <1>6

\* What covers a stretch is finite.
LEMMA CoversFinite ==
    ASSUME NEW S, NEW s, NEW a \in Nat, NEW b \in Nat, Covers(S, s, a, b)
    PROVE  IsFiniteSet(S)
<1> DEFINE P == ((a + 1)..b) \ Silent
           f == [p \in P |-> CHOOSE m \in S : m.pos = p]
<1>1. \A m, n \in S : m.pos = n.pos => m = n
    BY DEF Covers
<1>2. {m.pos : m \in S} = P
    BY DEF Covers
<1>3. \A p \in P : \E m \in S : m.pos = p
    BY <1>2
<1>4. f \in Surjection(P, S)
    <2>1. \A p \in P : f[p] \in S /\ f[p].pos = p
        BY <1>3
    <2>2. \A m \in S : m.pos \in P /\ f[m.pos] = m
        <3> TAKE m \in S
        <3>1. m.pos \in P  BY <1>2
        <3> HIDE DEF P, f
        <3> QED  BY <1>1, <2>1, <3>1
    <2>3. f \in [P -> S]
        BY <2>1
    <2> HIDE DEF P, f
    <2> QED  BY <2>2, <2>3 DEF Surjection
<1>5. IsFiniteSet(P)
    <2>1. IsFiniteSet((a + 1)..b)  BY FS_Interval
    <2> QED  BY <2>1, FS_Subset
<1> HIDE DEF P, f
<1> QED  BY <1>4, <1>5, FS_Surjection

-----------------------------------------------------------------------------
(* The writes of the table *)

\* What a run reads of r it reads of t, unless t is another epoch.
Continues(r, t) ==
    r # NoContext /\ t.epoch = r.epoch => \E q \in Seq(Messages) : t.rows = r.rows \o q

\* context_begin leaves a prefix, the same one or an empty one in a new epoch.
LEMMA BegunIs ==
    ASSUME NEW r \in Projections \cup {NoContext}, NEW g \in Nat, NEW h \in 0..MaxLen,
           NEW reset \in BOOLEAN, NEW c, r # NoContext => Prefix(r),
           ~reset /\ r # NoContext => r.from = Scope(g)
    PROVE  LET t == ContextBegun(r, g, h, reset)
           IN  /\ t \in Projections /\ Prefix(t) /\ Continues(r, t)
               /\ h \leq Len(c[Scope(g)]) => Frozen(t, c)
               /\ t.from = Scope(g) /\ t.state = "reading" /\ t.hw = h /\ ~t.borrowed
               /\ reset \/ r = NoContext => t.rows = <<>> /\ t.last = 0 /\ t.cursor = 0
               /\ ~reset /\ r # NoContext =>
                    t.rows = r.rows /\ t.last = r.last /\ t.cursor = r.cursor
<1> DEFINE t == ContextBegun(r, g, h, reset)
<1>0. Scope(g) \in {0, 1}
    BY DEF Scope
<1>1. CASE reset \/ r = NoContext
    <2> DEFINE e == IF r = NoContext THEN 0 ELSE 1 - r.epoch
    <2>1. t = [state |-> "reading", from |-> Scope(g), epoch |-> e, hw |-> h, borrowed |-> FALSE,
               cursor |-> 0, last |-> 0, rows |-> <<>>]
        BY <1>1 DEF ContextBegun
    <2>2. e \in {0, 1} /\ (r # NoContext => e # r.epoch)
        BY DEF Projections
    <2> HIDE DEF e, t
    <2>3. t \in Projections
        BY <1>0, <2>1, <2>2, ContextAssumption DEF Projections
    <2>4. Prefix(t)
        BY <2>1 DEF Prefix
    <2>5. h \leq Len(c[Scope(g)]) => Frozen(t, c)
        BY <2>1 DEF Frozen
    <2>6. Continues(r, t)
        BY <2>1, <2>2 DEF Continues
    <2> QED  BY <1>1, <2>1, <2>3, <2>4, <2>5, <2>6 DEF t
<1>2. CASE ~(reset \/ r = NoContext)
    <2>0. r \in Projections
        BY <1>2
    <2>1. t = [r EXCEPT !.state = "reading", !.hw = h, !.borrowed = FALSE, !.from = Scope(g)]
        BY <1>2 DEF ContextBegun
    <2> HIDE DEF t
    <2>2. t \in Projections /\ t.state = "reading" /\ t.hw = h /\ ~t.borrowed /\ t.from = r.from
          /\ t.from = Scope(g) /\ t.rows = r.rows /\ t.last = r.last /\ t.cursor = r.cursor
        BY <1>0, <1>2, <2>0, <2>1 DEF Projections
    <2>3. Prefix(t)
        BY <1>2, <2>2 DEF Prefix
    <2>4. h \leq Len(c[Scope(g)]) => Frozen(t, c)
        BY <2>2 DEF Frozen
    <2>5. Continues(r, t)
        <3>1. r.rows \in Seq(Messages)  BY <2>0 DEF Projections
        <3>2. r.rows \o <<>> = r.rows /\ <<>> \in Seq(Messages)  BY <3>1
        <3> QED  BY <2>2, <3>2 DEF Continues
    <2> QED  BY <1>2, <2>2, <2>3, <2>4, <2>5 DEF t
<1> QED  BY <1>1, <1>2

\* context_append_page goes on where the rows end.
LEMMA AppendedIs ==
    ASSUME NEW r \in Projections, Prefix(r), NEW q \in SUBSET Messages,
           NEW k \in 0..MaxLen, NEW l \in 0..MaxLen, Covers(q, r.from, r.last, l), r.last \leq l,
           (l + 1)..k \subseteq Silent, k # 0 => l \leq k
    PROVE  LET t == Appended(r, q, k, l)
           IN  /\ t \in Projections /\ Prefix(t)
               /\ t.from = r.from /\ t.state = r.state /\ t.hw = r.hw /\ t.borrowed = r.borrowed
               /\ t.epoch = r.epoch /\ t.last = l
               /\ \E x \in Seq(Messages) : t.rows = r.rows \o x
<1> DEFINE t == Appended(r, q, k, l)
           x == InOrder(q)
<1>0. /\ MaxLen \in Nat /\ r.rows \in Seq(Messages) /\ r.last \in 0..MaxLen /\ r.cursor \in 0..MaxLen
      /\ k \in Nat /\ l \in Nat /\ r.last \in Nat
    BY ContextAssumption DEF Projections
<1>1. NewOf(r, q) = q
    <2> SUFFICES ASSUME NEW m \in q, NEW j \in DOMAIN r.rows, m.pos = r.rows[j].pos  PROVE FALSE
        BY DEF NewOf, SameId
    <2>1. m.pos \in (r.last + 1)..l
        BY DEF Covers
    <2>2. r.rows[j].pos \in 1..r.last
        BY DEF Prefix
    <2> QED  BY <1>0, <2>1, <2>2
<1>2. IsFiniteSet(q)
    BY <1>0, CoversFinite
<1>3. /\ x \in Seq(q)
      /\ \A i \in DOMAIN x : x[i] \in q
      /\ \A m \in q : \E i \in DOMAIN x : x[i] = m
      /\ \A i, j \in DOMAIN x : i < j => x[i].pos < x[j].pos
    <2>1. \A m, n \in q : m.pos = n.pos => m = n
        BY DEF Covers
    <2> QED  BY <1>2, <2>1, InOrderIs
<1>4. x \in Seq(Messages) /\ DOMAIN x = 1..Len(x) /\ Len(x) \in Nat
    <2>1. x \in Seq(q)  BY <1>3
    <2> HIDE DEF x
    <2> QED  BY <2>1
<1>5. /\ DOMAIN r.rows = 1..Len(r.rows) /\ Len(r.rows) \in Nat
      /\ r.rows \o x \in Seq(Messages) /\ Len(r.rows \o x) = Len(r.rows) + Len(x)
      /\ DOMAIN (r.rows \o x) = 1..(Len(r.rows) + Len(x))
      /\ \A i \in 1..(Len(r.rows) + Len(x)) :
            (r.rows \o x)[i] = IF i \leq Len(r.rows) THEN r.rows[i] ELSE x[i - Len(r.rows)]
    <2> HIDE DEF x
    <2> QED  BY <1>0, <1>4
<1>6. \A i \in 1..Len(r.rows) : (r.rows \o x)[i] = r.rows[i]
    <2> HIDE DEF x
    <2> QED  BY <1>4, <1>5
<1>7. \A j \in 1..Len(x) : (r.rows \o x)[Len(r.rows) + j] = x[j]
    <2> HIDE DEF x
    <2> QED  BY <1>4, <1>5
<1>8. t = [r EXCEPT !.rows = r.rows \o x,
                    !.cursor = IF q # {} \/ k # 0 \/ l # 0 THEN k ELSE r.cursor,
                    !.last = IF q # {} \/ k # 0 \/ l # 0 THEN l ELSE r.last]
    BY <1>1 DEF Appended
<1> HIDE DEF x, t
<1>9. /\ t \in Projections /\ t.from = r.from /\ t.state = r.state /\ t.hw = r.hw
      /\ t.borrowed = r.borrowed /\ t.epoch = r.epoch /\ t.rows = r.rows \o x
      /\ t.cursor \in {k, r.cursor} /\ (t.cursor # k => q = {} /\ k = 0 /\ l = 0)
      /\ t.last = l
    <2> DEFINE k1 == IF q # {} \/ k # 0 \/ l # 0 THEN k ELSE r.cursor
               l1 == IF q # {} \/ k # 0 \/ l # 0 THEN l ELSE r.last
               y == r.rows \o x
    <2>1. k1 \in 0..MaxLen /\ k1 \in {k, r.cursor} /\ (k1 # k => q = {} /\ k = 0 /\ l = 0)
        BY <1>0
    <2>2. l1 = l
        BY <1>0
    <2>3. y \in Seq(Messages)
        BY <1>5
    <2>4. t = [r EXCEPT !.rows = y, !.cursor = k1, !.last = l1]
        BY <1>8
    <2> HIDE DEF k1, l1, y
    <2>5. /\ t \in Projections /\ t.from = r.from /\ t.state = r.state /\ t.hw = r.hw
          /\ t.borrowed = r.borrowed /\ t.epoch = r.epoch /\ t.rows = y /\ t.cursor = k1 /\ t.last = l1
        BY <2>1, <2>2, <2>3, <2>4 DEF Projections
    <2> QED  BY <2>1, <2>2, <2>5 DEF y
<1>10. \A i \in 1..Len(r.rows) : r.rows[i].from = r.from /\ r.rows[i].pos \in (1..r.last) \ Silent
    BY <1>5 DEF Prefix
<1>11. \A j \in 1..Len(x) : x[j].from = r.from /\ x[j].pos \in ((r.last + 1)..l) \ Silent
    <2>1. \A m \in q : m.from = r.from /\ m.pos \in ((r.last + 1)..l) \ Silent
        BY DEF Covers
    <2> QED  BY <1>3, <1>4, <2>1
<1>12. Prefix(t)
    <2>1. ASSUME NEW i \in DOMAIN t.rows  PROVE
             \/ i \in 1..Len(r.rows) /\ t.rows[i] = r.rows[i]
             \/ i > Len(r.rows) /\ i - Len(r.rows) \in 1..Len(x) /\ t.rows[i] = x[i - Len(r.rows)]
        BY <1>4, <1>5, <1>9, <2>1
    <2>2. \A i \in DOMAIN t.rows : t.rows[i].from = t.from
        BY <1>9, <1>10, <1>11, <2>1
    <2>3. ASSUME NEW i \in DOMAIN t.rows, NEW j \in DOMAIN t.rows, i < j
          PROVE  t.rows[i].pos < t.rows[j].pos
        <3>0. i \in Nat /\ j \in Nat
            BY <1>4, <1>5, <1>9
        <3>1. CASE j \in 1..Len(r.rows)
            <4>1. i \in 1..Len(r.rows) /\ t.rows[i] = r.rows[i] /\ t.rows[j] = r.rows[j]
                BY <1>6, <1>9, <2>3, <3>0, <3>1, <1>5, <1>4
            <4> QED  BY <1>5, <2>3, <3>1, <4>1 DEF Prefix
        <3>2. CASE j \notin 1..Len(r.rows) /\ i \in 1..Len(r.rows)
            <4>1. t.rows[i].pos \in 1..r.last /\ t.rows[j].pos \in (r.last + 1)..l
                BY <1>6, <1>9, <1>10, <1>11, <2>1, <3>2
            <4> QED  BY <1>0, <4>1
        <3>3. CASE j \notin 1..Len(r.rows) /\ i \notin 1..Len(r.rows)
            <4>1. /\ i - Len(r.rows) \in 1..Len(x) /\ t.rows[i] = x[i - Len(r.rows)]
                  /\ j - Len(r.rows) \in 1..Len(x) /\ t.rows[j] = x[j - Len(r.rows)]
                BY <2>1, <3>3
            <4>2. i - Len(r.rows) < j - Len(r.rows)
                BY <1>5, <2>3, <3>0
            <4> QED  BY <1>3, <1>4, <4>1, <4>2
        <3> QED  BY <3>1, <3>2, <3>3
    <2>4. {t.rows[i].pos : i \in DOMAIN t.rows} = (1..t.last) \ Silent
        <3>1. ASSUME NEW i \in DOMAIN t.rows  PROVE t.rows[i].pos \in (1..l) \ Silent
            <4>1. t.rows[i].pos \in (1..r.last) \ Silent \/ t.rows[i].pos \in ((r.last + 1)..l) \ Silent
                BY <1>10, <1>11, <2>1
            <4> QED  BY <1>0, <4>1
        <3>2. ASSUME NEW p \in (1..l) \ Silent  PROVE \E i \in DOMAIN t.rows : t.rows[i].pos = p
            <4>1. CASE p \leq r.last
                <5>1. p \in (1..r.last) \ Silent  BY <1>0, <4>1
                <5>2. PICK i \in DOMAIN r.rows : r.rows[i].pos = p
                    BY <5>1 DEF Prefix
                <5>3. i \in DOMAIN t.rows /\ t.rows[i] = r.rows[i]
                    BY <1>4, <1>5, <1>6, <1>9, <5>2
                <5> QED  BY <5>2, <5>3
            <4>2. CASE ~(p \leq r.last)
                <5>1. p \in ((r.last + 1)..l) \ Silent  BY <1>0, <4>2
                <5>2. PICK m \in q : m.pos = p
                    BY <5>1 DEF Covers
                <5>3. PICK j \in 1..Len(x) : x[j] = m
                    BY <1>3, <1>4, <5>2
                <5>4. Len(r.rows) + j \in DOMAIN t.rows /\ t.rows[Len(r.rows) + j] = m
                    BY <1>4, <1>5, <1>7, <1>9, <5>3
                <5> QED  BY <5>2, <5>4
            <4> QED  BY <4>1, <4>2
        <3> QED  BY <1>9, <3>1, <3>2
    <2>5. (t.last + 1)..t.cursor \subseteq Silent /\ (t.cursor # 0 => t.last \leq t.cursor)
        <3>1. CASE t.cursor = k
            BY <1>9, <3>1
        <3>2. CASE t.cursor # k
            <4>1. t.cursor = r.cursor /\ l = 0 /\ r.last = 0
                BY <1>0, <1>9, <3>2
            <4> QED  BY <1>0, <1>9, <4>1 DEF Prefix
        <3> QED  BY <3>1, <3>2
    <2> QED  BY <2>2, <2>3, <2>4, <2>5 DEF Prefix
<1>13. \E y \in Seq(Messages) : t.rows = r.rows \o y
    BY <1>4, <1>9
<1> QED  BY <1>9, <1>12, <1>13 DEF t

\* context_finish, when nothing is missing up to the highwater.
LEMMA FinishedIs ==
    ASSUME NEW r \in Projections, Prefix(r), NEW c,
           ~r.borrowed => r.hw \leq Len(c[r.from]) /\ (r.last + 1)..r.hw \subseteq Silent
    PROVE  LET t == Finished(r)
           IN  /\ t \in Projections /\ Prefix(t) /\ Frozen(t, c) /\ t.from = r.from
               /\ t.rows = r.rows /\ t.epoch = r.epoch
<1> DEFINE t == Finished(r)
<1>1. t \in Projections /\ t.state = "ready" /\ t.from = r.from /\ t.rows = r.rows /\ t.epoch = r.epoch
      /\ t.last = r.last /\ t.cursor = r.cursor /\ t.hw = r.hw /\ t.borrowed = r.borrowed
    BY DEF Finished, Projections
<1> HIDE DEF t
<1>2. Prefix(t)
    BY <1>1 DEF Prefix
<1>3. Frozen(t, c)
    BY <1>1 DEF Frozen
<1> QED  BY <1>1, <1>2, <1>3 DEF t

-----------------------------------------------------------------------------
(* Windows *)

\* A sound successor of r, of source s.
Sound(r, t, s, c) ==
    t \in Projections /\ Prefix(t) /\ Frozen(t, c) /\ Continues(r, t) /\ t.from = s

\* What continues a continuation by more rows continues the first.
LEMMA ContinuesOn ==
    ASSUME NEW r \in Projections \cup {NoContext}, NEW t \in Projections, NEW u \in Projections,
           Continues(r, t), u.epoch = t.epoch, NEW x \in Seq(Messages), u.rows = t.rows \o x
    PROVE  Continues(r, u)
<1> SUFFICES ASSUME r # NoContext, u.epoch = r.epoch
             PROVE  \E q \in Seq(Messages) : u.rows = r.rows \o q
    BY DEF Continues
<1>1. PICK q \in Seq(Messages) : t.rows = r.rows \o q
    BY DEF Continues
<1>2. r.rows \in Seq(Messages)
    BY DEF Projections
<1>3. (r.rows \o q) \o x = r.rows \o (q \o x)
    <2>1. ASSUME NEW a \in Seq(Messages), NEW b \in Seq(Messages), NEW d \in Seq(Messages)
          PROVE  (a \o b) \o d = a \o (b \o d)
        OBVIOUS
    <2>2. q \in Seq(Messages)
        BY <1>1
    <2> QED  BY <1>2, <2>1, <2>2
<1>4. q \o x \in Seq(Messages)
    BY <1>1
<1> QED  BY <1>1, <1>3, <1>4

\* The three transactions of a window.
LEMMA WritesAre ==
    ASSUME NEW r \in Projections \cup {NoContext}, NEW g \in Nat, NEW h \in 0..MaxLen,
           NEW reset \in BOOLEAN, NEW c, h \leq Len(c[Scope(g)]), r # NoContext => Prefix(r),
           ~reset /\ r # NoContext => r.from = Scope(g),
           NEW q \in SUBSET Messages, NEW a \in 0..h, Covers(q, Scope(g), a, h),
           reset \/ r = NoContext => a = 0, ~reset /\ r # NoContext => a = r.last,
           NEW i \in 1..3
    PROVE  Sound(r, Writes(ContextBegun(r, g, h, reset), q, h)[i], Scope(g), c)
<1> DEFINE b == ContextBegun(r, g, h, reset)
           u == Appended(b, q, h, h)
           v == Finished(u)
<1>0. h \in Nat /\ a \in Nat /\ a \leq h
    BY ContextAssumption
<1>1. /\ b \in Projections /\ Prefix(b) /\ Continues(r, b) /\ Frozen(b, c) /\ b.from = Scope(g)
      /\ b.state = "reading" /\ b.hw = h /\ ~b.borrowed /\ b.last = a
    BY BegunIs
<1> HIDE DEF b
<1>2. /\ u \in Projections /\ Prefix(u)
      /\ u.from = b.from /\ u.state = b.state /\ u.hw = b.hw /\ u.borrowed = b.borrowed
      /\ u.epoch = b.epoch /\ u.last = h
      /\ \E x \in Seq(Messages) : u.rows = b.rows \o x
    <2>1. (h + 1)..h \subseteq Silent
        BY <1>0
    <2>2. Covers(q, b.from, b.last, h) /\ b.last \leq h /\ (h # 0 => h \leq h)
        BY <1>0, <1>1
    <2> QED  BY <1>1, <2>1, <2>2, AppendedIs
<1> HIDE DEF u
<1>3. Frozen(u, c)
    BY <1>1, <1>2 DEF Frozen
<1>4. Continues(r, u)
    BY <1>1, <1>2, ContinuesOn
<1>5. /\ v \in Projections /\ Prefix(v) /\ Frozen(v, c) /\ v.from = u.from
      /\ v.rows = u.rows /\ v.epoch = u.epoch
    <2>1. ~u.borrowed => u.hw \leq Len(c[u.from]) /\ (u.last + 1)..u.hw \subseteq Silent
        BY <1>0, <1>1, <1>2
    <2> QED  BY <1>2, <2>1, FinishedIs
<1>6. Continues(r, v)
    BY <1>4, <1>5 DEF Continues
<1>7. Writes(b, q, h) = <<b, u, v>>
    BY DEF Writes, u
<1> HIDE DEF v
<1>8. Sound(r, b, Scope(g), c) /\ Sound(r, u, Scope(g), c) /\ Sound(r, v, Scope(g), c)
    BY <1>1, <1>2, <1>3, <1>4, <1>5, <1>6 DEF Sound
<1>9. Writes(b, q, h)[i] \in {b, u, v}
    BY <1>7
<1> QED  BY <1>8, <1>9 DEF b

\* What a window adds to the rows it joins on.
LEMMA DeltaCovers ==
    ASSUME ContextInv, NEW w \in Windows, Decoded(w, src), HasRow, ~Damaged(w),
           Anchored(w) \/ ~w.more
    PROVE  /\ Covers(Delta(w), Scope(w.gen), proj.last, w.latest)
           /\ proj.last \leq w.latest /\ proj.from = Scope(w.gen)
<1>0. /\ proj \in Projections /\ Prefix(proj) /\ proj.last \in Nat /\ proj.rows \in Seq(Messages)
      /\ w.latest \in Nat /\ w.rows \in SUBSET Messages
    BY ContextAssumption DEF ContextInv, ContextTypeOK, ProjInv, HasRow, Projections, Windows
<1>1. PICK f \in 0..MaxLen : Covers(w.rows, Scope(w.gen), f, w.latest) /\ (~w.more => f = 0)
    BY DEF Decoded
<1>2. proj.from = Scope(w.gen) /\ ~Rollback(w) /\ ~PrefixUnknown(w) /\ ~ScopeChanged(w)
    BY DEF Damaged, ScopeChanged
<1>3. proj.last \leq w.latest
    BY <1>0, <1>2 DEF Rollback
<1>4. \A m \in Known(w) : m \in w.rows /\ m.pos \in 1..proj.last
    <2> TAKE m \in Known(w)
    <2>1. m \in w.rows \cap Range(proj.rows)
        BY DEF Known
    <2>2. PICK i \in DOMAIN proj.rows : m = proj.rows[i]
        BY <2>1 DEF Range
    <2> QED  BY <1>0, <2>1, <2>2 DEF Prefix
<1>5. f \leq proj.last
    <2>1. CASE ~w.more
        BY <1>0, <1>1, <2>1
    <2>2. CASE Anchored(w)
        <3>1. PICK m \in Known(w) : m.pos = proj.last
            BY <2>2 DEF Anchored
        <3>2. m.pos \in (f + 1)..w.latest
            BY <1>1, <1>4, <3>1 DEF Covers
        <3>3. f \in Nat
            BY ContextAssumption
        <3> QED  BY <1>0, <3>1, <3>2, <3>3
    <2> QED  BY <2>1, <2>2
<1>6. ASSUME NEW m \in Delta(w)
      PROVE  m \in w.rows /\ m.from = Scope(w.gen) /\ m.pos \in ((proj.last + 1)..w.latest) \ Silent
    <2>1. m \in w.rows /\ m \notin Known(w)
        BY <1>6 DEF Delta
    <2>2. m.from = Scope(w.gen) /\ m.pos \in ((f + 1)..w.latest) \ Silent
        BY <1>1, <2>1 DEF Covers
    <2>3. m.pos \in Nat /\ m.pos \geq 1
        BY <1>0, <2>1, ContextAssumption DEF Messages
    <2>4. proj.last # 0 => ~(m.pos \leq proj.last)
        BY <1>2, <2>1 DEF PrefixUnknown
    <2>5. m.pos \leq w.latest /\ m.pos \notin Silent
        BY <2>2
    <2>6. m.pos \geq proj.last + 1
        BY <1>0, <2>3, <2>4
    <2> QED  BY <1>0, <2>1, <2>2, <2>3, <2>5, <2>6
<1>7. ASSUME NEW p \in ((proj.last + 1)..w.latest) \ Silent
      PROVE  \E m \in Delta(w) : m.pos = p
    <2>0. f \in Nat
        BY ContextAssumption
    <2>1. p \in ((f + 1)..w.latest) \ Silent /\ p \notin 1..proj.last
        BY <1>0, <1>5, <2>0
    <2>2. PICK m \in w.rows : m.pos = p
        BY <1>1, <2>1 DEF Covers
    <2>3. m \notin Known(w)
        BY <1>4, <2>1, <2>2
    <2> QED  BY <2>2, <2>3 DEF Delta
<1>8. \A m, n \in Delta(w) : m.pos = n.pos => m = n
    BY <1>1, <1>6 DEF Covers
<1>9. {m.pos : m \in Delta(w)} = ((proj.last + 1)..w.latest) \ Silent
    BY <1>6, <1>7
<1> QED  BY <1>2, <1>3, <1>6, <1>8, <1>9 DEF Covers

\* Whatever a window writes is sound.
LEMMA WindowWritesSound ==
    ASSUME ContextInv, NEW w \in Windows, Decoded(w, src), NEW i \in 1..3
    PROVE  \/ WindowWrites(w)[i] = proj
           \/ Sound(proj, WindowWrites(w)[i], Scope(w.gen), src)
<1>0. /\ proj \in Projections \cup {NoContext} /\ (proj # NoContext => Prefix(proj))
      /\ (HasRow <=> proj # NoContext)
      /\ w.latest \in 0..MaxLen /\ w.latest \in Nat /\ w.rows \in SUBSET Messages /\ w.gen \in Nat
      /\ w.latest \leq Len(src[Scope(w.gen)]) /\ HasRow \in BOOLEAN
    BY ContextAssumption
    DEF ContextInv, ContextTypeOK, ProjInv, HasRow, Projections, Windows, Decoded
<1>1. CASE Replaces(w)
    <2>1. ~w.more
        BY <1>1 DEF Replaces
    <2>2. Covers(w.rows, Scope(w.gen), 0, w.latest) /\ 0 \in 0..w.latest
        BY <1>0, <2>1 DEF Decoded
    <2>3. Sound(proj, Writes(ContextBegun(proj, w.gen, w.latest, HasRow), w.rows, w.latest)[i],
                Scope(w.gen), src)
        BY <1>0, <2>2, WritesAre
    <2> QED  BY <1>1, <2>3 DEF WindowWrites
<1>2. CASE ~Replaces(w) /\ Extends(w) /\ Delta(w) # {}
    <2>0. HasRow /\ ~Damaged(w) /\ (Anchored(w) \/ ~w.more)
        BY <1>2 DEF Extends
    <2>1. /\ Covers(Delta(w), Scope(w.gen), proj.last, w.latest)
          /\ proj.last \leq w.latest /\ proj.from = Scope(w.gen)
        BY <2>0, DeltaCovers
    <2>2. proj.last \in Nat /\ proj.last \in 0..w.latest
        BY <1>0, <2>0, <2>1, ContextAssumption DEF Projections, HasRow
    <2>3. w.latest # 0
        <3>1. PICK m \in Delta(w) : TRUE
            BY <1>2
        <3>2. m.pos \in (proj.last + 1)..w.latest
            BY <2>1 DEF Covers
        <3> QED  BY <2>2, <3>2
    <2>4. Latest(w) = w.latest /\ Delta(w) \in SUBSET Messages
        BY <1>0, <2>3 DEF Latest, Delta
    <2>5. Sound(proj, Writes(ContextBegun(proj, w.gen, w.latest, FALSE), Delta(w), w.latest)[i],
                Scope(w.gen), src)
        BY <1>0, <2>0, <2>1, <2>2, <2>4, WritesAre
    <2> QED  BY <1>2, <2>4, <2>5 DEF WindowWrites
<1>3. CASE ~Replaces(w) /\ ~(Extends(w) /\ Delta(w) # {})
    <2>1. WindowWrites(w) = <<proj, proj, proj>>
        BY <1>3 DEF WindowWrites
    <2> QED  BY <2>1
<1> QED  BY <1>1, <1>2, <1>3

\* So is what a repair begins with.
LEMMA RepairSound ==
    ASSUME ContextInv, NEW w \in Windows, Decoded(w, src), HasRow
    PROVE  Sound(proj, RepairBegun(w), Scope(w.gen), src)
<1> DEFINE b == ContextBegun(proj, w.gen, Latest(w), Damaged(w))
           t == RepairBegun(w)
<1>0. /\ proj \in Projections /\ Prefix(proj) /\ Frozen(proj, src)
      /\ w.latest \in 0..MaxLen /\ proj.hw \in 0..MaxLen /\ w.gen \in Nat
      /\ w.latest \leq Len(src[Scope(w.gen)])
    BY ContextAssumption
    DEF ContextInv, ContextTypeOK, ProjInv, HasRow, Projections, Windows, Decoded
<1>1. Latest(w) \in 0..MaxLen /\ Damaged(w) \in BOOLEAN
    BY <1>0 DEF Latest, Damaged, ScopeChanged, ChangedFacts, Rollback, PrefixUnknown, HasRow
<1>2. ~Damaged(w) => proj.from = Scope(w.gen)
    BY DEF Damaged, ScopeChanged
<1>3. /\ b \in Projections /\ Prefix(b) /\ Continues(proj, b) /\ b.from = Scope(w.gen)
      /\ b.state = "reading" /\ b.hw = Latest(w)
    BY <1>0, <1>1, <1>2, BegunIs
<1>4. t = [b EXCEPT !.borrowed = w.latest = 0 /\ (proj.borrowed \/ ScopeChanged(w))]
    BY DEF RepairBegun
<1> HIDE DEF b, t
<1>5. (w.latest = 0 /\ (proj.borrowed \/ ScopeChanged(w))) \in BOOLEAN
    BY <1>0 DEF Projections, ScopeChanged
<1>6. /\ t \in Projections /\ t.from = b.from /\ t.state = b.state /\ t.hw = b.hw /\ t.last = b.last
      /\ t.cursor = b.cursor /\ t.rows = b.rows /\ t.epoch = b.epoch
      /\ t.borrowed = (w.latest = 0 /\ (proj.borrowed \/ ScopeChanged(w)))
    BY <1>3, <1>4, <1>5 DEF Projections
<1>7. Prefix(t) /\ Continues(proj, t)
    BY <1>3, <1>6 DEF Prefix, Continues
<1>8. Frozen(t, src)
    <2> SUFFICES ASSUME ~t.borrowed  PROVE t.hw \leq Len(src[t.from])
        BY <1>3, <1>6 DEF Frozen
    <2>1. CASE w.latest # 0
        BY <1>0, <1>3, <1>6, <2>1 DEF Latest
    <2>2. CASE w.latest = 0
        <3>1. ~proj.borrowed /\ ~ScopeChanged(w)
            BY <1>6, <2>2
        <3>2. proj.from = Scope(w.gen) /\ proj.hw \leq Len(src[proj.from])
            BY <1>0, <3>1 DEF ScopeChanged, Frozen
        <3> QED  BY <1>3, <1>6, <2>2, <3>2 DEF Latest
    <2> QED  BY <2>1, <2>2
<1> QED  BY <1>3, <1>6, <1>7, <1>8 DEF Sound, t

-----------------------------------------------------------------------------
(* What is read of the source *)

\* Shown reads a stretch of the source.
LEMMA ShownCovers ==
    ASSUME ContextInv, NEW s \in {0, 1}, NEW a \in Nat, NEW b \in 0..Len(src[s])
    PROVE  Shown(s, a, b) \in SUBSET Messages /\ Covers(Shown(s, a, b), s, a, b)
<1>0. src[s] \in Seq({0, 1}) /\ Len(src[s]) \in Nat /\ Len(src[s]) \leq MaxLen /\ MaxLen \in Nat /\ b \in Nat
    BY ContextAssumption DEF ContextInv, ContextTypeOK, LenInv
<1>1. ASSUME NEW p \in ((a + 1)..b) \ Silent
      PROVE  Message(s, p) \in Messages /\ Message(s, p).from = s /\ Message(s, p).pos = p
    <2>1. p \in 1..MaxLen /\ p \in 1..Len(src[s])
        BY <1>0
    <2>2. src[s][p] \in {0, 1}
        BY <1>0, <2>1
    <2> QED  BY <2>1, <2>2 DEF Message, Messages
<1>2. \A m \in Shown(s, a, b) : \E p \in ((a + 1)..b) \ Silent : m = Message(s, p)
    BY DEF Shown
<1>3. \A p \in ((a + 1)..b) \ Silent : Message(s, p) \in Shown(s, a, b)
    BY DEF Shown
<1>4. Shown(s, a, b) \in SUBSET Messages /\ \A m \in Shown(s, a, b) : m.from = s
    BY <1>1, <1>2
<1>5. \A m, n \in Shown(s, a, b) : m.pos = n.pos => m = n
    BY <1>1, <1>2
<1>6. {m.pos : m \in Shown(s, a, b)} = ((a + 1)..b) \ Silent
    BY <1>1, <1>2, <1>3
<1> QED  BY <1>4, <1>5, <1>6 DEF Covers

\* The newest position, and what is silent around it.
LEMMA NewestIs ==
    ASSUME NEW S \in SUBSET Messages, NEW s, NEW a \in Nat, NEW b \in Nat, NEW d \in Nat,
           Covers(S, s, a, b), d \leq a, (d + 1)..a \subseteq Silent
    PROVE  /\ S = {} => Newest(S, d) = d
           /\ S # {} => Newest(S, d) \in (a + 1)..b /\ Newest(S, d) = Newest(S, 0)
           /\ Newest(S, d) \in Nat /\ d \leq Newest(S, d)
           /\ Covers(S, s, d, Newest(S, d))
           /\ (Newest(S, d) + 1)..b \subseteq Silent
<1> DEFINE l == Newest(S, d)
<1>1. /\ \A m \in S : m.from = s /\ m.pos \in ((a + 1)..b) \ Silent
      /\ \A m, n \in S : m.pos = n.pos => m = n
      /\ \A p \in ((a + 1)..b) \ Silent : \E m \in S : m.pos = p
    BY DEF Covers
<1>2. CASE S = {}
    <2>1. l = d
        BY <1>2 DEF Newest
    <2>2. (a + 1)..b \subseteq Silent
        BY <1>1, <1>2
    <2>3. \A p \in (d + 1)..b : p \in (d + 1)..a \/ p \in (a + 1)..b
        OBVIOUS
    <2>4. (d + 1)..b \subseteq Silent
        BY <2>2, <2>3
    <2>5. Covers(S, s, d, d)
        <3>1. (d + 1)..d = {}  OBVIOUS
        <3> QED  BY <1>2, <3>1 DEF Covers
    <2> QED  BY <1>2, <2>1, <2>4, <2>5
<1>3. CASE S # {}
    <2>1. IsFiniteSet(S)
        BY CoversFinite
    <2>2. \E m \in S : \A n \in S : n.pos \leq m.pos
        <3> DEFINE f == [m \in S |-> m.pos]
        <3>1. f \in [S -> Nat]
            BY DEF Messages
        <3>2. \E m \in S : \A n \in S : f[n] <= f[m]
            <4> HIDE DEF f
            <4> QED  BY <1>3, <2>1, <3>1, Highest
        <3> QED  BY <3>2
    <2>3. PICK m \in S : l = m.pos /\ \A n \in S : n.pos \leq m.pos
        <3> DEFINE m == CHOOSE m \in S : \A n \in S : n.pos \leq m.pos
        <3>1. m \in S /\ \A n \in S : n.pos \leq m.pos
            BY <2>2
        <3>2. l = m.pos
            BY <1>3 DEF Newest
        <3> QED  BY <3>1, <3>2
    <2>4. l \in (a + 1)..b /\ l \notin Silent
        BY <1>1, <2>3
    <2>5. l = Newest(S, 0)
        BY <1>3 DEF Newest
    <2> HIDE DEF l
    <2>6. ASSUME NEW p \in (l + 1)..b, p \notin Silent  PROVE FALSE
        <3>1. p \in ((a + 1)..b) \ Silent
            BY <2>4, <2>6
        <3>2. PICK n \in S : n.pos = p
            BY <1>1, <3>1
        <3> QED  BY <2>3, <2>4, <3>2
    <2>7. Covers(S, s, d, l)
        <3>1. \A n \in S : n.pos \in ((d + 1)..l) \ Silent
            BY <1>1, <2>3, <2>4
        <3>2. ASSUME NEW p \in ((d + 1)..l) \ Silent  PROVE \E n \in S : n.pos = p
            <4>1. p \notin (d + 1)..a
                OBVIOUS
            <4>2. p \in ((a + 1)..b) \ Silent
                BY <2>4, <4>1
            <4> QED  BY <1>1, <4>2
        <3>3. {n.pos : n \in S} = ((d + 1)..l) \ Silent
            BY <3>1, <3>2
        <3> QED  BY <1>1, <3>3 DEF Covers
    <2> QED  BY <1>3, <2>4, <2>5, <2>6, <2>7 DEF l
<1> QED  BY <1>2, <1>3

-----------------------------------------------------------------------------
(* Steps *)

\* What a step leaves of the hints.
Hints ==
    /\ gen' = gen /\ src' = src
    /\ win' \in {Nothing, win} /\ pending' \in {Nothing, win, pending} /\ prep' \in {Nothing, prep}
    /\ observed' \in {Nothing, observed} \cup 0..MaxRebind
    /\ importsPaused' \in BOOLEAN

\* What it makes of the worker.
ImporterOK == imp' \in {NoWorker} \cup Importers /\ PageInv'

\* What it makes of the projection.
Careful ==
    \/ proj' = proj
    \/ /\ Sound(proj, proj', proj'.from, src)
       /\ proj = NoContext \/ proj'.rows # proj.rows =>
             proj'.from = Scope(gen) /\ ~importsPaused

\* Put together, the parts of a step keep the invariant.
LEMMA Assembled ==
    ASSUME ContextInv, Hints, ImporterOK, Careful
    PROVE  ContextInv'
<1>1. proj' \in {NoContext} \cup Projections
    BY DEF Careful, Sound, ContextInv, ContextTypeOK, Projections
<1>2. ContextTypeOK'
    BY <1>1 DEF Hints, ImporterOK, ContextInv, ContextTypeOK, Projections, Importers
<1>3. ProjInv'
    BY DEF Careful, Sound, Hints, ContextInv, ProjInv, HasRow
<1>4. WindowInv'
    BY DEF Hints, ContextInv, WindowInv
<1>5. LenInv'
    BY DEF Hints, ContextInv, LenInv
<1> QED  BY <1>2, <1>3, <1>4, <1>5 DEF ContextInv, ImporterOK

\* A worker that goes or begins.
LEMMA WorkerChanges ==
    ASSUME ContextInv, imp' \in {NoWorker, Worker(gen)}
    PROVE  ImporterOK
<1>1. imp' \in {NoWorker} \cup Importers
    <2>1. gen \in 0..MaxRebind /\ 0 \in 0..MaxLen
        BY ContextAssumption DEF ContextInv, ContextTypeOK
    <2>2. Worker(gen) \in Importers
        BY <2>1 DEF Worker, Importers
    <2> QED  BY <2>2
<1>2. imp'.at # "commit"
    BY DEF NoWorker, Worker
<1> QED  BY <1>1, <1>2 DEF ImporterOK, PageInv

\* A worker that is left alone, or cancelled.
LEMMA WorkerStays ==
    ASSUME ContextInv, proj' = proj,
           imp' = imp \/ (Busy /\ imp' = [imp EXCEPT !.cancel = TRUE])
    PROVE  ImporterOK
<1>1. CASE imp' = imp
    BY <1>1 DEF ContextInv, ContextTypeOK, ImporterOK, PageInv, Importers, After, HasRow
<1>2. CASE Busy /\ imp' = [imp EXCEPT !.cancel = TRUE]
    <2>1. imp \in Importers
        BY <1>2 DEF ContextInv, ContextTypeOK, Busy, Importers
    <2>2. /\ imp' \in Importers /\ imp'.at = imp.at /\ imp'.gen = imp.gen /\ imp'.page = imp.page
          /\ imp'.next = imp.next
        BY <1>2, <2>1 DEF Importers
    <2>3. PageInv'
        BY <2>2 DEF ContextInv, PageInv, After, HasRow
    <2> QED  BY <2>2, <2>3 DEF ImporterOK
<1> QED  BY <1>1, <1>2

\* A worker that ends, or goes back to reading.
LEMMA WorkerMoves ==
    ASSUME ContextInv, imp \in Importers, NEW at \in {"read", "exit"},
           imp' = [imp EXCEPT !.at = at, !.page = {}, !.next = 0] \/ imp' = [imp EXCEPT !.at = at]
    PROVE  ImporterOK
<1>1. imp' \in Importers /\ imp'.at # "commit"
    <2>1. 0 \in 0..MaxLen
        BY ContextAssumption
    <2> QED  BY <2>1 DEF Importers
<1> QED  BY <1>1 DEF ImporterOK, PageInv

\* Every window of the state is decoded from its source.
LEMMA WindowIs ==
    ASSUME ContextInv, NEW w \in {win, pending}, w # Nothing
    PROVE  w \in Windows /\ Decoded(w, src)
BY DEF ContextInv, ContextTypeOK, WindowInv

\* _apply_window_locked.
LEMMA ApplySound ==
    ASSUME ContextInv, NEW w \in Windows, Decoded(w, src), w.gen = gen, ~importsPaused,
           NEW late \in BOOLEAN, Apply(w, late)
    PROVE  Careful /\ ImporterOK /\ pending' \in {Nothing, w} /\ observed' \in {Nothing} \cup 0..MaxRebind
<1>0. w.gen \in 0..MaxRebind
    BY DEF Windows
<1>1. CASE Trust(w) /\ proj' = proj
    <2>1. ImporterOK
        BY <1>1, WorkerChanges DEF Trust
    <2> QED  BY <1>0, <1>1, <2>1 DEF Trust, Careful
<1>2. CASE Trust(w) /\ proj' = WindowWrites(w)[3]
    <2>1. ImporterOK
        BY <1>2, WorkerChanges DEF Trust
    <2>2. proj' = proj \/ Sound(proj, proj', Scope(gen), src)
        BY <1>2, WindowWritesSound
    <2>3. Careful
        BY <2>2 DEF Careful, Sound
    <2> QED  BY <1>0, <1>2, <2>1, <2>3 DEF Trust
<1>3. CASE /\ observed' = Nothing /\ pending' = w
           /\ proj' = IF HasRow THEN RepairBegun(w) ELSE proj
           /\ imp' = IF HasRow THEN Worker(w.gen) ELSE NoWorker
    <2>1. ImporterOK
        BY <1>3, WorkerChanges
    <2>2. proj' = proj \/ Sound(proj, proj', Scope(gen), src)
        BY <1>3, RepairSound
    <2>3. Careful
        BY <2>2 DEF Careful, Sound
    <2> QED  BY <1>3, <2>1, <2>3
<1> QED  BY <1>1, <1>2, <1>3 DEF Apply

\* observe_window.
LEMMA ObserveStep ==
    ASSUME ContextInv, Observe
    PROVE  ContextInv' /\ Careful
<1>0. win \in Windows /\ Decoded(win, src)
    BY WindowIs DEF Observe
<1>1. CASE win.gen # gen \/ importsPaused
    <2>1. proj' = proj /\ imp' = imp /\ Hints
        BY <1>1 DEF Observe, Hints, ContextInv, ContextTypeOK
    <2>2. ImporterOK
        BY <2>1, WorkerStays
    <2> QED  BY <2>1, <2>2, Assembled DEF Careful
<1>2. CASE win.gen = gen /\ ~importsPaused /\ Busy
    <2>1. proj' = proj /\ Hints
        BY <1>2 DEF Observe, Hints, ContextInv, ContextTypeOK
    <2>2. ImporterOK
        BY <1>2, <2>1, WorkerStays DEF Observe
    <2> QED  BY <2>1, <2>2, Assembled DEF Careful
<1>3. CASE win.gen = gen /\ ~importsPaused /\ ~Busy
    <2>1. Apply(win, FALSE)
        BY <1>3 DEF Observe
    <2>2. /\ Careful /\ ImporterOK /\ pending' \in {Nothing, win}
          /\ observed' \in {Nothing} \cup 0..MaxRebind
        BY <1>0, <1>3, <2>1, ApplySound
    <2>3. Hints
        BY <2>2 DEF Observe, Hints, ContextInv, ContextTypeOK
    <2> QED  BY <2>2, <2>3, Assembled
<1> QED  BY <1>1, <1>2, <1>3

\* The worker ends, perhaps with a window that waited.
LEMMA ExitStep ==
    ASSUME ContextInv, Exit
    PROVE  ContextInv' /\ Careful
<1>1. CASE /\ pending # Nothing /\ ~importsPaused /\ pending.gen = gen /\ Apply(pending, TRUE)
    <2>1. pending \in Windows /\ Decoded(pending, src)
        BY <1>1, WindowIs
    <2>2. /\ Careful /\ ImporterOK /\ pending' \in {Nothing, pending}
          /\ observed' \in {Nothing} \cup 0..MaxRebind
        BY <1>1, <2>1, ApplySound
    <2>3. Hints
        BY <2>2 DEF Exit, Hints, ContextInv, ContextTypeOK
    <2> QED  BY <2>2, <2>3, Assembled
<1>2. CASE imp' = NoWorker /\ pending' \in {Nothing, pending} /\ UNCHANGED <<proj, observed>>
    <2>1. Hints
        BY <1>2 DEF Exit, Hints, ContextInv, ContextTypeOK
    <2>2. ImporterOK
        BY <1>2, WorkerChanges
    <2> QED  BY <1>2, <2>1, <2>2, Assembled DEF Careful
<1> QED  BY <1>1, <1>2 DEF Exit

\* prepare under its locks.
LEMMA PrepareEndStep ==
    ASSUME ContextInv, PrepareEnd
    PROVE  ContextInv' /\ Careful
<1> DEFINE reset == HasRow /\ Backwards
           b == ContextBegun(proj, prep.gen, prep.hw, reset)
<1>0. /\ proj \in Projections \cup {NoContext} /\ (proj # NoContext => Prefix(proj) /\ Frozen(proj, src))
      /\ (HasRow <=> proj # NoContext) /\ MaxLen \in Nat
      /\ prep.gen \in 0..MaxRebind /\ prep.gen \in Nat /\ prep.hw \in 0..MaxLen /\ prep.hw \in Nat
      /\ prep.hw \leq Len(src[Scope(prep.gen)]) /\ reset \in BOOLEAN
    BY ContextAssumption
    DEF PrepareEnd, ContextInv, ContextTypeOK, ProjInv, WindowInv, HasRow, Projections, Backwards
<1>1. Hints
    BY DEF PrepareEnd, Hints, ContextInv, ContextTypeOK
<1>2. CASE prep.gen # gen \/ importsPaused
    <2>1. proj' = proj /\ imp' = imp
        BY <1>2 DEF PrepareEnd
    <2>2. ImporterOK
        BY <2>1, WorkerStays
    <2> QED  BY <1>1, <2>1, <2>2, Assembled DEF Careful
<1>3. CASE prep.gen = gen /\ ~importsPaused /\ Busy
    <2>1. proj' = proj /\ (imp' = imp \/ imp' = [imp EXCEPT !.cancel = TRUE])
        BY <1>3 DEF PrepareEnd
    <2>2. ImporterOK
        BY <1>3, <2>1, WorkerStays
    <2> QED  BY <1>1, <2>1, <2>2, Assembled DEF Careful
<1>4. CASE prep.gen = gen /\ ~importsPaused /\ ~Busy
    <2>1. ~reset /\ proj # NoContext => proj.from = Scope(prep.gen)
        BY <1>0 DEF Backwards
    <2>2. /\ b \in Projections /\ Prefix(b) /\ Continues(proj, b) /\ Frozen(b, src)
          /\ b.from = Scope(gen) /\ b.hw = prep.hw
          /\ reset \/ proj = NoContext => b.rows = <<>> /\ b.last = 0 /\ b.cursor = 0
        BY <1>0, <1>4, <2>1, BegunIs
    <2>3. CASE ~HasRow /\ prep.hw = 0
        <3>1. proj' = Finished(b) /\ imp' = imp
            BY <1>4, <2>3 DEF PrepareEnd
        <3>2. ~b.borrowed => b.hw \leq Len(src[b.from]) /\ (b.last + 1)..b.hw \subseteq Silent
            <4>1. b.hw = 0 /\ b.last = 0
                BY <1>0, <2>2, <2>3
            <4> HIDE DEF b
            <4>2. (b.last + 1)..b.hw = {}
                BY <4>1
            <4> QED  BY <1>0, <1>4, <2>2, <4>2
        <3> HIDE DEF b
        <3>3. /\ proj' \in Projections /\ Prefix(proj') /\ Frozen(proj', src) /\ proj'.from = b.from
              /\ proj'.rows = b.rows /\ proj'.epoch = b.epoch
            BY <2>2, <3>1, <3>2, FinishedIs
        <3>4. Careful
            BY <1>4, <2>2, <3>3 DEF Careful, Sound, Continues
        <3>5. imp = NoWorker
            BY <1>4 DEF Busy
        <3>6. ImporterOK
            BY <3>1, <3>5, WorkerChanges
        <3> QED  BY <1>1, <3>4, <3>6, Assembled
    <2>4. CASE proj' = b /\ imp' = Worker(gen)
        <3> HIDE DEF b
        <3>1. Careful
            BY <1>4, <2>2, <2>4 DEF Careful, Sound
        <3>2. ImporterOK
            BY <2>4, WorkerChanges
        <3> QED  BY <1>1, <3>1, <3>2, Assembled
    <2>5. CASE proj' = proj /\ imp' \in {imp, Worker(gen)}
        <3>1. imp = NoWorker
            BY <1>4 DEF Busy
        <3>2. ImporterOK
            BY <2>5, <3>1, WorkerChanges
        <3> QED  BY <1>1, <2>5, <3>2, Assembled DEF Careful
    <2> QED
        <3> HIDE DEF b, reset
        <3>1. \/ ~HasRow /\ prep.hw = 0
              \/ proj' = b /\ imp' = Worker(gen)
              \/ proj' = proj /\ imp' \in {imp, Worker(gen)}
            BY <1>4 DEF PrepareEnd, b, reset
        <3> QED  BY <2>3, <2>4, <2>5, <3>1
<1> QED  BY <1>2, <1>3, <1>4

\* The worker gives up, and the row tells so.
LEMMA GiveUpSound ==
    ASSUME ContextInv, imp \in Importers, GiveUp
    PROVE  Careful /\ ImporterOK
<1>1. ImporterOK
    BY WorkerMoves DEF GiveUp
<1>2. CASE proj' = proj
    BY <1>1, <1>2 DEF Careful
<1>3. CASE HasRow /\ proj' = [proj EXCEPT !.state = "error"]
    <2>1. proj \in Projections /\ Prefix(proj) /\ Frozen(proj, src)
        BY <1>3 DEF ContextInv, ContextTypeOK, ProjInv, HasRow, Projections
    <2>2. /\ proj' \in Projections /\ proj'.state = "error" /\ proj'.from = proj.from
          /\ proj'.rows = proj.rows /\ proj'.last = proj.last /\ proj'.cursor = proj.cursor
          /\ proj'.hw = proj.hw /\ proj'.borrowed = proj.borrowed /\ proj'.epoch = proj.epoch
        BY <1>3, <2>1 DEF Projections
    <2>3. Prefix(proj')
        BY <2>1, <2>2 DEF Prefix
    <2>4. Frozen(proj', src)
        BY <2>1, <2>2 DEF Frozen
    <2>5. Continues(proj, proj')
        <3>1. proj.rows \in Seq(Messages)
            BY <2>1 DEF Projections
        <3>2. proj.rows \o <<>> = proj.rows /\ <<>> \in Seq(Messages)
            BY <3>1
        <3> QED  BY <2>2, <3>2 DEF Continues
    <2> QED  BY <1>1, <1>3, <2>2, <2>3, <2>4, <2>5 DEF Careful, Sound, HasRow
<1> QED  BY <1>2, <1>3 DEF GiveUp

\* A finished projection says no more than it did, once nothing is missing.
LEMMA FinishSound ==
    ASSUME ContextInv, HasRow, proj' = Finished(proj),
           ~proj.borrowed => (proj.last + 1)..proj.hw \subseteq Silent
    PROVE  Careful
<1>1. proj \in Projections /\ Prefix(proj) /\ Frozen(proj, src) /\ proj.rows \in Seq(Messages)
    BY DEF ContextInv, ContextTypeOK, ProjInv, HasRow, Projections
<1>2. /\ proj' \in Projections /\ Prefix(proj') /\ Frozen(proj', src) /\ proj'.from = proj.from
      /\ proj'.rows = proj.rows /\ proj'.epoch = proj.epoch
    <2>1. ~proj.borrowed => proj.hw \leq Len(src[proj.from]) /\ (proj.last + 1)..proj.hw \subseteq Silent
        BY <1>1 DEF Frozen
    <2> QED  BY <1>1, <2>1, FinishedIs
<1>3. Continues(proj, proj')
    <2>1. proj.rows \o <<>> = proj.rows /\ <<>> \in Seq(Messages)
        BY <1>1
    <2> QED  BY <1>2, <2>1 DEF Continues
<1> QED  BY <1>2, <1>3 DEF Careful, Sound, HasRow

\* A step of the worker leaves the hints.
LEMMA WorkerHints ==
    ASSUME ContextInv, UNCHANGED <<gen, src, prep, win, pending, observed, importsPaused>>
    PROVE  Hints
BY DEF Hints, ContextInv, ContextTypeOK

\* Reading fails.
LEMMA ImportFailsStep ==
    ASSUME ContextInv, ImportFails
    PROVE  ContextInv' /\ Careful
<1>1. imp \in Importers
    BY DEF ImportFails, ContextInv, ContextTypeOK, Importers, NoWorker
<1>2. Careful /\ ImporterOK
    BY <1>1, GiveUpSound DEF ImportFails
<1>3. Hints
    BY WorkerHints DEF ImportFails
<1> QED  BY <1>2, <1>3, Assembled

\* Nothing is shown between the last row and the point the next page starts from.
LEMMA AfterIs ==
    ASSUME ContextInv, HasRow
    PROVE  /\ After \in Nat /\ proj.last \in Nat /\ proj.last \leq After
           /\ (proj.last + 1)..After \subseteq Silent
<1>1. /\ proj \in Projections /\ Prefix(proj) /\ proj.last \in 0..MaxLen /\ proj.cursor \in 0..MaxLen
      /\ MaxLen \in Nat
    BY ContextAssumption DEF ContextInv, ContextTypeOK, ProjInv, HasRow, Projections
<1>2. CASE proj.cursor # 0
    BY <1>1, <1>2 DEF After, Prefix
<1>3. CASE proj.cursor = 0
    BY <1>1, <1>3 DEF After
<1> QED  BY <1>2, <1>3

\* A page is read.
LEMMA ReadPageStep ==
    ASSUME ContextInv, ReadPage
    PROVE  ContextInv' /\ Careful
<1>0. imp \in Importers /\ imp.at = "read" /\ imp.gen \in Nat /\ Scope(imp.gen) \in {0, 1}
    BY ContextAssumption DEF ReadPage, ContextInv, ContextTypeOK, Importers, NoWorker, Scope
<1>1. Hints
    BY WorkerHints DEF ReadPage
<1>2. CASE imp' = [imp EXCEPT !.at = "exit"] /\ proj' = proj
    <2>1. ImporterOK
        BY <1>0, <1>2, WorkerMoves
    <2> QED  BY <1>1, <1>2, <2>1, Assembled DEF Careful
<1>3. CASE GiveUp
    BY <1>0, <1>1, <1>3, GiveUpSound, Assembled
<1>4. CASE /\ proj.state = "reading" /\ proj.hw = 0
           /\ proj' = Finished(proj) /\ imp' = [imp EXCEPT !.at = "exit"]
    <2>1. ImporterOK
        BY <1>0, <1>4, WorkerMoves
    <2>2. HasRow
        BY <1>4 DEF HasRow, NoContext
    <2>3. (proj.last + 1)..proj.hw \subseteq Silent
        <3>1. proj.last \in Nat
            BY <2>2, AfterIs
        <3>2. (proj.last + 1)..proj.hw = {}
            BY <1>4, <3>1
        <3> QED  BY <3>2
    <2>4. Careful
        BY <1>4, <2>2, <2>3, FinishSound
    <2> QED  BY <1>1, <2>1, <2>4, Assembled
<1>5. CASE /\ proj.state = "reading" /\ OpenFor(imp.gen) /\ proj' = proj
           /\ LET s == Scope(imp.gen)
              IN  imp' = [imp EXCEPT !.at = "commit",
                                     !.page = Shown(s, After, LastOfPage(s)),
                                     !.next = IF LastOfPage(s) > After THEN LastOfPage(s) ELSE 0]
    <2> DEFINE s == Scope(imp.gen)
               l == LastOfPage(s)
               n == IF l > After THEN l ELSE 0
    <2>0. HasRow
        BY <1>5 DEF HasRow, NoContext
    <2>1. After \in Nat
        BY <2>0, AfterIs
    <2>2. /\ proj \in Projections /\ Frozen(proj, src) /\ proj.hw \in Nat /\ MaxLen \in Nat
          /\ src[s] \in Seq({0, 1}) /\ Len(src[s]) \in Nat /\ Len(src[s]) \leq MaxLen
          /\ PageSize \in Nat /\ PageSize # 0
        BY <1>0, <2>0, ContextAssumption
        DEF ContextInv, ContextTypeOK, ProjInv, HasRow, Projections, LenInv
    <2>3. l \in 0..Len(src[s]) /\ l \in Nat /\ l \leq proj.hw /\ l \leq After + PageSize
          /\ l \in {After + PageSize, proj.hw, Len(src[s])}
        BY <2>1, <2>2 DEF LastOfPage, Least
    <2>4. Shown(s, After, l) \in SUBSET Messages /\ Covers(Shown(s, After, l), s, After, l)
        <3> HIDE DEF l
        <3> QED  BY <1>0, <2>1, <2>3, ShownCovers
    <2>5. proj.from = s
        BY <1>5 DEF OpenFor
    <2>6. imp' = [imp EXCEPT !.at = "commit", !.page = Shown(s, After, l), !.next = n]
        BY <1>5
    <2> HIDE DEF l, s
    <2>7. n \in 0..MaxLen /\ (n # 0 => After < n) /\ (n = 0 => l \leq After)
        BY <2>1, <2>2, <2>3
    <2>8. Covers(Shown(s, After, l), s, After, n)
        <3>1. CASE n = l
            BY <2>4, <3>1
        <3>2. CASE n # l
            <4>1. n = 0 /\ l \leq After
                BY <3>2, <2>1, <2>3
            <4>2. (After + 1)..l = {} /\ (After + 1)..n = {}
                BY <2>1, <2>3, <4>1
            <4> QED  BY <2>4, <4>2 DEF Covers
        <3> QED  BY <3>1, <3>2
    <2>9. n = 0 /\ ~proj.borrowed => proj.hw \leq After
        <3> SUFFICES ASSUME n = 0, ~proj.borrowed  PROVE proj.hw \leq After
            OBVIOUS
        <3>1. proj.hw \leq Len(src[s])
            BY <2>2, <2>5 DEF Frozen
        <3> QED  BY <2>1, <2>2, <2>3, <2>7, <3>1
    <2> HIDE DEF n
    <2>10. /\ imp' \in Importers /\ imp'.at = "commit" /\ imp'.gen = imp.gen
           /\ imp'.page = Shown(s, After, l) /\ imp'.next = n
        BY <1>0, <2>4, <2>6, <2>7 DEF Importers
    <2>11. After' = After /\ HasRow'
        BY <1>5, <2>0 DEF After, HasRow
    <2>12. PageInv'
        BY <1>5, <2>5, <2>7, <2>8, <2>9, <2>10, <2>11 DEF PageInv, s
    <2>13. ImporterOK
        BY <2>10, <2>12 DEF ImporterOK
    <2> QED  BY <1>1, <1>5, <2>13, Assembled DEF Careful
<1> QED  BY <1>2, <1>3, <1>4, <1>5 DEF ReadPage

\* A page that is appended.
LEMMA PageAppended ==
    ASSUME ContextInv, imp \in Importers, imp.at = "commit",
           NEW u, u = Appended(proj, imp.page, imp.next, Newest(imp.page, proj.last))
    PROVE  /\ u \in Projections /\ Prefix(u) /\ Frozen(u, src) /\ Continues(proj, u)
           /\ u.from = proj.from
           /\ imp.next = 0 /\ ~u.borrowed =>
                u.hw \leq Len(src[u.from]) /\ (u.last + 1)..u.hw \subseteq Silent
<1> DEFINE l == Newest(imp.page, proj.last)
<1>0. /\ HasRow /\ proj.state = "reading" /\ (imp.next # 0 => After < imp.next)
      /\ (imp.next = 0 /\ ~proj.borrowed => proj.hw \leq After)
      /\ Covers(imp.page, proj.from, After, imp.next)
      /\ imp.page \in SUBSET Messages /\ imp.next \in 0..MaxLen /\ imp.next \in Nat /\ MaxLen \in Nat
    BY ContextAssumption DEF ContextInv, PageInv, Importers
<1>1. /\ proj \in Projections /\ Prefix(proj) /\ Frozen(proj, src) /\ proj.last \in 0..MaxLen
      /\ proj.hw \in Nat
    BY <1>0 DEF ContextInv, ContextTypeOK, ProjInv, HasRow, Projections
<1>2. /\ After \in Nat /\ proj.last \in Nat /\ proj.last \leq After
      /\ (proj.last + 1)..After \subseteq Silent
    BY <1>0, AfterIs
<1>3. /\ imp.page = {} => l = proj.last
      /\ imp.page # {} => l \in (After + 1)..imp.next
      /\ l \in Nat /\ proj.last \leq l
      /\ Covers(imp.page, proj.from, proj.last, l)
      /\ (l + 1)..imp.next \subseteq Silent
    <2> DEFINE S == imp.page
               s == proj.from
               a == After
               b == imp.next
               d == proj.last
    <2>1. /\ S \in SUBSET Messages /\ a \in Nat /\ b \in Nat /\ d \in Nat
          /\ Covers(S, s, a, b) /\ d \leq a /\ (d + 1)..a \subseteq Silent
        BY <1>0, <1>2
    <2> HIDE DEF S, s, a, b, d
    <2>2. /\ Newest(S, d) \in Nat /\ d \leq Newest(S, d)
          /\ Covers(S, s, d, Newest(S, d))
          /\ (Newest(S, d) + 1)..b \subseteq Silent
        BY <2>1, NewestIs
    <2>3. S = {} => Newest(S, d) = d
        BY DEF Newest
    <2>4. S # {} => Newest(S, d) \in (a + 1)..b
        BY <2>1, NewestIs
    <2> QED  BY <2>2, <2>3, <2>4 DEF S, s, a, b, d
<1> HIDE DEF l
<1>4. l \in 0..MaxLen /\ (imp.next # 0 => l \leq imp.next)
    BY <1>0, <1>1, <1>2, <1>3
<1>5. /\ u \in Projections /\ Prefix(u)
      /\ u.from = proj.from /\ u.state = proj.state /\ u.hw = proj.hw /\ u.borrowed = proj.borrowed
      /\ u.epoch = proj.epoch /\ u.last = l
      /\ \E x \in Seq(Messages) : u.rows = proj.rows \o x
    <2>1. PICK r \in Projections, q \in SUBSET Messages, k \in 0..MaxLen, h \in 0..MaxLen :
            r = proj /\ q = imp.page /\ k = imp.next /\ h = l
        BY <1>0, <1>1, <1>4
    <2>2. Prefix(r)
        BY <1>1, <2>1
    <2>3. Covers(q, r.from, r.last, h)
        BY <1>3, <2>1
    <2>4. r.last \leq h
        BY <1>3, <2>1
    <2>5. (h + 1)..k \subseteq Silent
        BY <1>3, <2>1
    <2>6. k # 0 => h \leq k
        BY <1>4, <2>1
    <2>7. u = Appended(r, q, k, h)
        BY <2>1 DEF l
    <2>8. LET t == Appended(r, q, k, h)
          IN  /\ t \in Projections /\ Prefix(t)
              /\ t.from = r.from /\ t.state = r.state /\ t.hw = r.hw /\ t.borrowed = r.borrowed
              /\ t.epoch = r.epoch /\ t.last = h
              /\ \E x \in Seq(Messages) : t.rows = r.rows \o x
        BY <2>2, <2>3, <2>4, <2>5, <2>6, AppendedIs
    <2> QED  BY <2>1, <2>7, <2>8
<1>6. Frozen(u, src)
    BY <1>0, <1>1, <1>5 DEF Frozen
<1>7. Continues(proj, u)
    BY <1>5 DEF Continues
<1>8. ASSUME imp.next = 0, ~u.borrowed
      PROVE  u.hw \leq Len(src[u.from]) /\ (u.last + 1)..u.hw \subseteq Silent
    <2>1. imp.page = {}
        BY <1>0, <1>2, <1>3, <1>8
    <2>2. l = proj.last /\ proj.hw \leq After
        BY <1>0, <1>3, <1>5, <1>8, <2>1
    <2>3. \A p \in (l + 1)..proj.hw : p \in (proj.last + 1)..After
        BY <1>1, <1>2, <2>2
    <2> QED  BY <1>1, <1>2, <1>5, <1>8, <2>3 DEF Frozen
<1> QED  BY <1>5, <1>6, <1>7, <1>8

\* A page is saved.
LEMMA CommitPageStep ==
    ASSUME ContextInv, CommitPage
    PROVE  ContextInv' /\ Careful
<1>0. imp \in Importers /\ imp.at = "commit"
    BY DEF CommitPage, ContextInv, ContextTypeOK, Importers, NoWorker
<1>1. Hints
    BY WorkerHints DEF CommitPage
<1>2. CASE ~OpenFor(imp.gen) \/ Conflict(proj, imp.page)
    <2>1. GiveUp
        BY <1>2 DEF CommitPage
    <2> QED  BY <1>0, <1>1, <2>1, GiveUpSound, Assembled
<1>3. CASE ~(~OpenFor(imp.gen) \/ Conflict(proj, imp.page))
    <2> DEFINE u == Appended(proj, imp.page, imp.next, Newest(imp.page, proj.last))
    <2>1. /\ proj' = IF imp.next = 0 THEN Finished(u) ELSE u
          /\ imp' = [imp EXCEPT !.at = IF imp.next = 0 THEN "exit" ELSE "read", !.page = {}, !.next = 0]
        BY <1>3 DEF CommitPage
    <2>2. /\ u \in Projections /\ Prefix(u) /\ Frozen(u, src) /\ Continues(proj, u)
          /\ u.from = proj.from
          /\ imp.next = 0 /\ ~u.borrowed =>
               u.hw \leq Len(src[u.from]) /\ (u.last + 1)..u.hw \subseteq Silent
        BY <1>0, PageAppended
    <2> HIDE DEF u
    <2>3. ImporterOK
        BY <1>0, <2>1, WorkerMoves
    <2>4. proj.from = Scope(gen) /\ ~importsPaused
        BY <1>3 DEF OpenFor, Open
    <2>5. CASE imp.next # 0
        <3>1. Careful
            BY <2>1, <2>2, <2>4, <2>5 DEF Careful, Sound
        <3> QED  BY <1>1, <2>3, <3>1, Assembled
    <2>6. CASE imp.next = 0
        <3>1. /\ proj' \in Projections /\ Prefix(proj') /\ Frozen(proj', src) /\ proj'.from = u.from
              /\ proj'.rows = u.rows /\ proj'.epoch = u.epoch
            BY <2>1, <2>2, <2>6, FinishedIs
        <3>2. Careful
            BY <2>2, <2>4, <3>1 DEF Careful, Sound, Continues
        <3> QED  BY <1>1, <2>3, <3>2, Assembled
    <2> QED  BY <2>5, <2>6
<1> QED  BY <1>2, <1>3

\* The bridge goes down with what it had written so far.
LEMMA BridgeDiesStep ==
    ASSUME ContextInv, BridgeDies
    PROVE  ContextInv' /\ Careful
<1>1. Hints
    BY DEF BridgeDies, Hints, ContextInv, ContextTypeOK
<1>2. ImporterOK
    BY WorkerChanges DEF BridgeDies
<1>3. CASE proj' = proj
    BY <1>1, <1>2, <1>3, Assembled DEF Careful
<1>4. CASE win # Nothing /\ win.gen = gen /\ ~importsPaused /\ proj' \in Range(WindowWrites(win))
    <2>1. win \in Windows /\ Decoded(win, src)
        BY <1>4, WindowIs
    <2>2. DOMAIN WindowWrites(win) = 1..3
        BY DEF WindowWrites, Writes
    <2>3. PICK i \in 1..3 : proj' = WindowWrites(win)[i]
        BY <1>4, <2>2 DEF Range
    <2>4. proj' = proj \/ Sound(proj, proj', Scope(gen), src)
        BY <1>4, <2>1, <2>3, WindowWritesSound
    <2>5. Careful
        BY <1>4, <2>4 DEF Careful, Sound
    <2> QED  BY <1>1, <1>2, <2>5, Assembled
<1>5. CASE /\ imp.at = "commit" /\ OpenFor(imp.gen) /\ imp.next = 0
           /\ proj' = Appended(proj, imp.page, 0, proj.last)
    <2>0. imp \in Importers
        BY <1>5 DEF ContextInv, ContextTypeOK, Importers, NoWorker
    <2>1. imp.page = {}
        <3>1. Covers(imp.page, proj.from, After, 0) /\ HasRow
            BY <1>5 DEF ContextInv, PageInv
        <3>2. After \in Nat
            BY <3>1, AfterIs
        <3>3. (After + 1)..0 = {}
            BY <3>2
        <3> QED  BY <3>1, <3>3 DEF Covers
    <2>2. proj' = Appended(proj, imp.page, imp.next, Newest(imp.page, proj.last))
        BY <1>5, <2>1 DEF Newest
    <2>3. /\ proj' \in Projections /\ Prefix(proj') /\ Frozen(proj', src) /\ Continues(proj, proj')
          /\ proj'.from = proj.from
        BY <1>5, <2>0, <2>2, PageAppended
    <2>4. proj.from = Scope(gen) /\ ~importsPaused
        BY <1>5 DEF OpenFor, Open
    <2>5. Careful
        BY <2>3, <2>4 DEF Careful, Sound
    <2> QED  BY <1>1, <1>2, <2>5, Assembled
<1> QED
    <2>1. \/ proj' = proj
          \/ win # Nothing /\ win.gen = gen /\ ~importsPaused /\ proj' \in Range(WindowWrites(win))
          \/ /\ imp.at = "commit" /\ OpenFor(imp.gen) /\ imp.next = 0
             /\ proj' = Appended(proj, imp.page, 0, proj.last)
        BY DEF BridgeDies
    <2> QED  BY <1>3, <1>4, <1>5, <2>1

\* The projection stays, while the sources only grow.
LEMMA Stays ==
    ASSUME ContextInv, proj' = proj, ImporterOK, ContextTypeOK', LenInv', WindowInv',
           \A s \in {0, 1} : Len(src[s]) \leq Len(src'[s])
    PROVE  ContextInv' /\ Careful
<1>1. ASSUME HasRow  PROVE Frozen(proj, src')
    <2>1. /\ proj \in Projections /\ Frozen(proj, src) /\ proj.hw \in Nat /\ proj.from \in {0, 1}
          /\ MaxLen \in Nat
        BY <1>1, ContextAssumption DEF ContextInv, ContextTypeOK, ProjInv, HasRow, Projections
    <2>2. Len(src[proj.from]) \in Nat /\ Len(src'[proj.from]) \in Nat
        BY <2>1 DEF ContextInv, ContextTypeOK
    <2> QED  BY <2>1, <2>2 DEF Frozen
<1>2. ProjInv'
    BY <1>1 DEF ContextInv, ProjInv, HasRow
<1> QED  BY <1>2 DEF ContextInv, ImporterOK, Careful

\* A window is decoded.
LEMMA DecodeStep ==
    ASSUME ContextInv, Decode
    PROVE  ContextInv' /\ Careful
<1> DEFINE s == Scope(gen)
           n == Len(src[s])
           from == IF n > Window THEN n - Window ELSE 0
           ms == Shown(s, from, n)
           l == Newest(ms, 0)
<1>0. /\ gen \in 0..MaxRebind /\ s \in {0, 1} /\ n \in Nat /\ n \leq MaxLen /\ MaxLen \in Nat
      /\ Window \in Nat /\ Window # 0
    BY ContextAssumption DEF ContextInv, ContextTypeOK, LenInv, Scope
<1>1. from \in Nat /\ from \leq n /\ (~(n > Window) => from = 0)
    BY <1>0
<1>2. win' = [gen |-> gen, rows |-> ms, more |-> n > Window, latest |-> l]
    BY DEF Decode
<1> HIDE DEF from
<1>3. ms \in SUBSET Messages /\ Covers(ms, s, from, n)
    <2>1. n \in 0..Len(src[s])
        BY <1>0
    <2> HIDE DEF n, s
    <2> QED  BY <1>0, <1>1, <2>1, ShownCovers
<1> HIDE DEF ms, n
<1>4. l \in 0..n /\ Covers(ms, s, from, l)
    <2>1. CASE ms = {}
        <3>1. l = 0
            BY <2>1 DEF Newest
        <3>2. (from + 1)..0 = {}
            BY <1>1
        <3> QED  BY <1>0, <2>1, <3>1, <3>2 DEF Covers
    <2>2. CASE ms # {}
        <3>1. (from + 1)..from \subseteq Silent
            BY <1>1
        <3>2. from \leq from
            BY <1>1
        <3>3. Newest(ms, from) \in (from + 1)..n
            BY <1>0, <1>1, <1>3, <2>2, <3>1, <3>2, NewestIs
        <3>4. Covers(ms, s, from, Newest(ms, from))
            BY <1>0, <1>1, <1>3, <3>1, <3>2, NewestIs
        <3>5. Newest(ms, from) = Newest(ms, 0)
            BY <2>2 DEF Newest
        <3> QED  BY <1>0, <1>1, <3>3, <3>4, <3>5
    <2> QED  BY <2>1, <2>2
<1> HIDE DEF l
<1>5. /\ win' \in Windows /\ win'.gen = gen /\ win'.rows = ms /\ win'.latest = l
      /\ win'.more = (n > Window)
    <2>1. (n > Window) \in BOOLEAN /\ l \in 0..MaxLen
        BY <1>0, <1>4
    <2> QED  BY <1>0, <1>2, <1>3, <2>1 DEF Windows
<1>6. Decoded(win', src)
    <2>1. l \leq Len(src[Scope(gen)])
        BY <1>4, <1>0 DEF n, s
    <2>2. from \in 0..MaxLen
        BY <1>0, <1>1
    <2> QED  BY <1>1, <1>4, <1>5, <2>1, <2>2 DEF Decoded, s
<1>7. ImporterOK
    BY WorkerStays DEF Decode
<1>8. ContextTypeOK' /\ LenInv' /\ WindowInv'
    BY <1>5, <1>6 DEF Decode, ContextInv, ContextTypeOK, LenInv, WindowInv
<1>9. \A t \in {0, 1} : Len(src[t]) \leq Len(src'[t])
    BY DEF Decode, ContextInv, ContextTypeOK
<1>10. proj' = proj
    BY DEF Decode
<1> QED  BY <1>7, <1>8, <1>9, <1>10, Stays

\* prepare looks at the source.
LEMMA PrepareBeginStep ==
    ASSUME ContextInv, PrepareBegin
    PROVE  ContextInv' /\ Careful
<1> DEFINE n == Len(src[Scope(gen)])
           h == IF pending # Nothing /\ pending.gen = gen /\ pending.latest # 0
                THEN pending.latest ELSE n
<1>0. gen \in 0..MaxRebind /\ Scope(gen) \in {0, 1} /\ n \in 0..MaxLen /\ n \in Nat
    BY ContextAssumption DEF ContextInv, ContextTypeOK, LenInv, Scope
<1>1. h \in 0..MaxLen /\ h \leq n
    <2>1. CASE pending # Nothing /\ pending.gen = gen /\ pending.latest # 0
        <3>1. pending \in Windows /\ pending.latest \leq Len(src[Scope(pending.gen)])
            BY <2>1 DEF ContextInv, ContextTypeOK, WindowInv, Decoded
        <3> QED  BY <2>1, <3>1 DEF Windows
    <2>2. CASE ~(pending # Nothing /\ pending.gen = gen /\ pending.latest # 0)
        BY <1>0, <2>2
    <2> QED  BY <2>1, <2>2
<1>2. prep' = [gen |-> gen, hw |-> h]
    BY DEF PrepareBegin
<1> HIDE DEF h
<1>3. prep' \in [gen : 0..MaxRebind, hw : 0..MaxLen] /\ prep'.hw \leq Len(src[Scope(prep'.gen)])
    BY <1>0, <1>1, <1>2
<1>4. ImporterOK
    BY WorkerStays DEF PrepareBegin
<1>5. ContextTypeOK' /\ LenInv' /\ WindowInv'
    BY <1>3 DEF PrepareBegin, ContextInv, ContextTypeOK, LenInv, WindowInv
<1>6. \A t \in {0, 1} : Len(src[t]) \leq Len(src'[t])
    BY DEF PrepareBegin, ContextInv, ContextTypeOK
<1>7. proj' = proj
    BY DEF PrepareBegin
<1> QED  BY <1>4, <1>5, <1>6, <1>7, Stays

\* The projection and the hints stay: a worker is cancelled, the account is paused.
LEMMA CancelStep ==
    ASSUME ContextInv, PrepareCancels \/ Pause \/ Resume
    PROVE  ContextInv' /\ Careful
<1>1. Hints
    BY DEF PrepareCancels, Pause, Resume, Hints, ContextInv, ContextTypeOK
<1>2. proj' = proj /\ (imp' = imp \/ (Busy /\ imp' = [imp EXCEPT !.cancel = TRUE]))
    BY DEF PrepareCancels, Pause, Resume
<1>3. ImporterOK
    BY <1>2, WorkerStays
<1> QED  BY <1>1, <1>2, <1>3, Assembled DEF Careful

\* The source is bound again, or nothing happens.
LEMMA SwitchStep ==
    ASSUME ContextInv, Switch \/ UNCHANGED contextVars
    PROVE  ContextInv' /\ Careful
<1>1. gen' \in 0..MaxRebind
    BY ContextAssumption DEF Switch, contextVars, ContextInv, ContextTypeOK
<1>2. UNCHANGED <<src, proj, imp, prep, win, pending, observed, importsPaused>>
    BY DEF Switch, memory, contextVars
<1>3. ImporterOK
    BY <1>2, WorkerStays
<1>4. ContextTypeOK' /\ LenInv' /\ WindowInv'
    BY <1>1, <1>2 DEF ContextInv, ContextTypeOK, LenInv, WindowInv
<1>5. \A t \in {0, 1} : Len(src[t]) \leq Len(src'[t])
    BY <1>2 DEF ContextInv, ContextTypeOK
<1> QED  BY <1>2, <1>3, <1>4, <1>5, Stays

\* A message arrives, or changes.
LEMMA SourceStep ==
    ASSUME ContextInv, Arrive \/ Edit
    PROVE  ContextInv' /\ Careful
<1> DEFINE s == Scope(gen)
<1>0. /\ s \in {0, 1} /\ src \in [{0, 1} -> Seq({0, 1})] /\ MaxLen \in Nat
      /\ \A t \in {0, 1} : Len(src[t]) \in Nat /\ Len(src[t]) \leq MaxLen
    BY ContextAssumption DEF ContextInv, ContextTypeOK, LenInv, Scope
<1>1. UNCHANGED <<gen, proj, imp, prep, win, pending, observed, importsPaused>>
    BY DEF Arrive, Edit, memory
<1>2. PICK x \in Seq({0, 1}) : /\ src' = [src EXCEPT ![s] = x]
                               /\ Len(src[s]) \leq Len(x) /\ Len(x) \leq MaxLen
    <2>1. CASE Arrive
        <3>1. src[s] \in Seq({0, 1}) /\ Len(src[s]) < MaxLen
              /\ src' = [src EXCEPT ![s] = Append(src[s], 0)]
            BY <1>0, <2>1 DEF Arrive
        <3>2. Append(src[s], 0) \in Seq({0, 1}) /\ Len(Append(src[s], 0)) = Len(src[s]) + 1
            BY <3>1
        <3>3. Len(src[s]) \leq Len(Append(src[s], 0)) /\ Len(Append(src[s], 0)) \leq MaxLen
            BY <1>0, <3>1, <3>2
        <3> QED  BY <3>1, <3>2, <3>3
    <2>2. CASE Edit
        <3>1. PICK p \in DOMAIN src[s] : src' = [src EXCEPT ![s][p] = 1]
            BY <2>2 DEF Edit
        <3>2. src' = [src EXCEPT ![s] = [src[s] EXCEPT ![p] = 1]]
            BY <3>1
        <3>3. [src[s] EXCEPT ![p] = 1] \in Seq({0, 1}) /\ Len([src[s] EXCEPT ![p] = 1]) = Len(src[s])
            <4>1. src[s] \in Seq({0, 1})
                BY <1>0
            <4> QED  BY <3>1, <4>1
        <3>4. /\ Len(src[s]) \leq Len([src[s] EXCEPT ![p] = 1])
              /\ Len([src[s] EXCEPT ![p] = 1]) \leq MaxLen
            BY <1>0, <3>3
        <3> QED  BY <3>2, <3>3, <3>4
    <2> QED  BY <2>1, <2>2
<1>3. src' \in [{0, 1} -> Seq({0, 1})]
      /\ \A t \in {0, 1} : /\ Len(src[t]) \leq Len(src'[t]) /\ Len(src'[t]) \leq MaxLen
                           /\ Len(src'[t]) \in Nat
    BY <1>0, <1>2
<1>4. ImporterOK
    BY <1>1, WorkerStays
<1>5. ContextTypeOK' /\ LenInv'
    BY <1>1, <1>3 DEF ContextInv, ContextTypeOK, LenInv
<1>6. ASSUME NEW w \in Windows, Decoded(w, src)  PROVE Decoded(w, src')
    <2>1. w.latest \in Nat /\ Scope(w.gen) \in {0, 1}
        BY ContextAssumption DEF Windows, Scope
    <2>2. w.latest \leq Len(src'[Scope(w.gen)])
        BY <1>0, <1>3, <1>6, <2>1 DEF Decoded
    <2> QED  BY <1>6, <2>2 DEF Decoded
<1>7. ASSUME prep # Nothing  PROVE prep.hw \leq Len(src'[Scope(prep.gen)])
    <2>1. prep.hw \in Nat /\ Scope(prep.gen) \in {0, 1} /\ prep.hw \leq Len(src[Scope(prep.gen)])
        BY <1>7, ContextAssumption DEF ContextInv, ContextTypeOK, WindowInv, Scope
    <2> QED  BY <1>0, <1>3, <2>1
<1>8. WindowInv'
    BY <1>1, <1>6, <1>7 DEF ContextInv, ContextTypeOK, WindowInv
<1> QED  BY <1>1, <1>3, <1>4, <1>5, <1>8, Stays

-----------------------------------------------------------------------------
(* The theorems *)

\* Every step keeps the invariant, and does to the projection only what it may.
LEMMA ContextStep ==
    ASSUME ContextInv, [ContextNext]_contextVars
    PROVE  ContextInv' /\ Careful
BY DecodeStep, ObserveStep, PrepareBeginStep, CancelStep, PrepareEndStep, ReadPageStep,
   CommitPageStep, ImportFailsStep, ExitStep, SwitchStep, SourceStep, BridgeDiesStep
DEF ContextNext

\* The invariant holds at the start.
LEMMA ContextInitInv == ContextInit => ContextInv
<1> SUFFICES ASSUME ContextInit  PROVE ContextInv
    OBVIOUS
<1>1. <<0>> \in Seq({0, 1}) /\ Len(<<0>>) = 1
    OBVIOUS
<1>2. ContextTypeOK
    <2>1. src \in [{0, 1} -> Seq({0, 1})]
        BY <1>1 DEF ContextInit
    <2>2. 0 \in 0..MaxRebind
        BY ContextAssumption
    <2>3. importsPaused \in BOOLEAN /\ gen \in 0..MaxRebind
        BY <2>2 DEF ContextInit
    <2> QED  BY <2>1, <2>3 DEF ContextInit, ContextTypeOK
<1>3. LenInv
    BY <1>1, ContextAssumption DEF ContextInit, LenInv
<1>4. ProjInv /\ WindowInv /\ PageInv
    BY DEF ContextInit, ProjInv, HasRow, WindowInv, PageInv, NoWorker
<1> QED  BY <1>2, <1>3, <1>4 DEF ContextInv

\* The invariant holds of every state.
THEOREM ContextInductive == ContextSpec => []ContextInv
<1>1. ContextInv /\ [ContextNext]_contextVars => ContextInv'
    BY ContextStep
<1> QED  BY ContextInitInv, <1>1, PTL DEF ContextSpec

\* A ready projection holds the whole chat up to its highwater.
THEOREM ReadyIsWholeAlways == ContextSpec => []ReadyIsWhole
<1>1. ContextInv => ReadyIsWhole
    <2> SUFFICES ASSUME ContextInv, HasRow
                 PROVE  /\ \A i \in DOMAIN proj.rows : proj.rows[i].from = proj.from
                        /\ \A i, j \in DOMAIN proj.rows : i < j => proj.rows[i].pos < proj.rows[j].pos
                        /\ Places = 1..proj.last \ Silent
                        /\ proj.state = "ready" => proj.borrowed \/ 1..proj.hw \ Silent \subseteq Places
        BY DEF ContextInv, ReadyIsWhole, Readable
    <2>1. /\ proj \in Projections /\ Prefix(proj) /\ Frozen(proj, src)
          /\ proj.last \in Nat /\ proj.hw \in Nat
        BY ContextAssumption DEF ContextInv, ContextTypeOK, ProjInv, HasRow, Projections
    <2>2. Places = 1..proj.last \ Silent
        BY <2>1 DEF Prefix, Places
    <2>3. ASSUME proj.state = "ready", ~proj.borrowed  PROVE 1..proj.hw \ Silent \subseteq Places
        <3>1. (proj.last + 1)..proj.hw \subseteq Silent
            BY <2>1, <2>3 DEF Frozen
        <3>2. \A p \in 1..proj.hw : p \in 1..proj.last \/ p \in (proj.last + 1)..proj.hw
            BY <2>1
        <3> QED  BY <2>2, <3>1, <3>2
    <2> QED  BY <2>1, <2>2, <2>3 DEF Prefix
<1> QED  BY ContextInductive, <1>1, PTL

\* What is added at the end leaves what is read before it.
LEMMA ReadsOn ==
    ASSUME NEW r \in Projections, NEW t \in Projections, NEW q \in Seq(Messages),
           t.rows = r.rows \o q, NEW n \in 0..Len(r.rows)
    PROVE  ModelContext(t, n) = ModelContext(r, n)
<1>1. r.rows \in Seq(Messages) /\ t.rows \in Seq(Messages) /\ Len(t.rows) = Len(r.rows) + Len(q)
      /\ Len(r.rows) \in Nat /\ Len(q) \in Nat /\ n \in Nat /\ n \leq Len(r.rows)
    BY DEF Projections
<1>2. Least(n, Len(r.rows)) = n /\ Least(n, Len(t.rows)) = n
    BY <1>1 DEF Least
<1>3. SubSeq(t.rows, 1, n) = SubSeq(r.rows, 1, n)
    <2>1. \A i \in 1..n : t.rows[i] = r.rows[i]
        BY <1>1
    <2> QED  BY <1>1, <2>1
<1> QED  BY <1>2, <1>3 DEF ModelContext

\* Who reads an epoch reads on what it read, and nothing late is added.
THEOREM ReadersAreSafeAlways == ContextSpec => ReadersAreSafe
<1> DEFINE Safe ==
        proj' # NoContext =>
            /\ HasRow /\ proj'.epoch = proj.epoch =>
                  \A n \in 0..Len(proj.rows) : ModelContext(proj', n) = ModelContext(proj, n)
            /\ ~HasRow \/ proj'.rows # proj.rows =>
                  \A i \in DOMAIN proj'.rows : proj'.rows[i].from = Scope(gen) /\ ~importsPaused
<1>1. ASSUME ContextInv, [ContextNext]_contextVars  PROVE [Safe]_proj
    <2> SUFFICES ASSUME proj' # proj, proj' # NoContext  PROVE Safe
        OBVIOUS
    <2>1. /\ Sound(proj, proj', proj'.from, src)
          /\ proj = NoContext \/ proj'.rows # proj.rows => proj'.from = Scope(gen) /\ ~importsPaused
        BY <1>1, ContextStep DEF Careful
    <2>2. ASSUME HasRow, proj'.epoch = proj.epoch, NEW n \in 0..Len(proj.rows)
          PROVE  ModelContext(proj', n) = ModelContext(proj, n)
        <3>1. proj \in Projections /\ proj' \in Projections
            BY <1>1, <2>1, <2>2 DEF ContextInv, ContextTypeOK, HasRow, Projections, Sound
        <3>2. PICK q \in Seq(Messages) : proj'.rows = proj.rows \o q
            BY <2>1, <2>2 DEF Sound, Continues, HasRow
        <3> QED  BY <3>1, <3>2, ReadsOn
    <2>3. ASSUME ~HasRow \/ proj'.rows # proj.rows, NEW i \in DOMAIN proj'.rows
          PROVE  proj'.rows[i].from = Scope(gen) /\ ~importsPaused
        BY <2>1, <2>3 DEF Sound, Prefix, HasRow
    <2> QED  BY <2>2, <2>3
<1> QED  BY ContextInductive, <1>1, PTL DEF ContextSpec, ReadersAreSafe
=============================================================================
