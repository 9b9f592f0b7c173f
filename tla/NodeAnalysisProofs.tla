------------------------- MODULE NodeAnalysisProofs -------------------------
(***************************************************************************)
(* What TLAPS proves of the channel to a Node child, for any number of     *)
(* callers, children, requests and switches.                               *)
(***************************************************************************)
EXTENDS NodeAnalysis, SequenceTheorems, TLAPS

-----------------------------------------------------------------------------
(* The inductive invariant *)

Final(r) == r.type = "reply"

\* The id is on its way to child p, back from it, or in the callback of its reader.
Has(p, id) ==
    \/ \E i \in 1..Len(inbox[p]) : inbox[p][i].id = id
    \/ \E i \in 1..Len(outbox[p]) : outbox[p][i].id = id
    \/ delivering[p] = id

Idle == {"out", "starting", "booting"}

\* Commands that may change the engine of a child; their answers tell it.
Engaging == Switches \cup {"prepare"}

\* What the caller has sent under its id.
Sent(c) == IF call[c].at = "preparing" THEN "prepare" ELSE call[c].cmd

\* Ids are counted up and never used again: at any time an id is in one place.
OneHome ==
    \A p, q \in Procs : \A id \in Ids : Has(p, id) /\ Has(q, id) => p = q
Counted ==
    \A p \in Procs : \A id \in Ids : Has(p, id) => id <= serial
Collected ==
    \A r \in pending : r.id \in 1..serial /\ Final(r) /\ \A p \in Procs : ~Has(p, r.id)
OneReply == \A r, s \in pending : r.id = s.id => r = s

\* On the wires of one child, a line is answered once, and parts come before it.
LinesDiffer ==
    \A p \in Procs : \A i, j \in 1..Len(inbox[p]) : inbox[p][i].id = inbox[p][j].id => i = j
AnsweredOnce ==
    \A p \in Procs : \A j \in 1..Len(outbox[p]) : Final(outbox[p][j]) =>
        /\ \A i \in 1..Len(inbox[p]) : inbox[p][i].id # outbox[p][j].id
        /\ \A i \in 1..Len(outbox[p]) : outbox[p][i].id = outbox[p][j].id =>
              i <= j /\ (Final(outbox[p][i]) => i = j)

\* A reply says who made it and what runs; only the greeting has no id.
Proper(r, p) ==
    /\ r.by = p
    /\ r.type = "ready" <=> r.id = 0
    /\ r.type = "ready" \/ (Final(r) /\ r.cmd \in Engaging) => r.status # "none"
RepliesProper ==
    /\ \A p \in Procs : \A i \in 1..Len(outbox[p]) : Proper(outbox[p][i], p)
    /\ \A r \in pending : Proper(r, r.by)

\* An API worker is never told to load a model.
NeverTold ==
    ApiOnly => \A p \in Procs : \A i \in 1..Len(inbox[p]) : inbox[p][i].cmd \notin Engaging

WireInv == OneHome /\ Counted /\ Collected /\ OneReply /\ LinesDiffer /\ AnsweredOnce
             /\ RepliesProper /\ NeverTold

\* Every caller has an id of its own while it waits for an answer.
CallsDiffer ==
    /\ \A c \in Callers :
         /\ call[c].id <= serial
         /\ call[c].id = 0 <=> call[c].at \in Idle
         /\ call[c].at \in {"preparing", "switching", "booting"} => ~ApiOnly
         /\ call[c].at = "switching" => call[c].cmd \in Switches
         /\ call[c].at \in {"starting", "preparing", "waiting"} =>
              /\ call[c].cmd \in Requests /\ (~ApiOnly => call[c].cmd # "stream")
              /\ call[c].mine \in Procs
    /\ \A c, d \in Callers : call[c].id = call[d].id /\ call[c].id # 0 => c = d

\* What carries the id of a caller is its own.
Belongs(m, c, p) ==
    m.id = call[c].id => /\ m.owner = c /\ m.cmd = Sent(c)
                         /\ call[c].at \in {"preparing", "waiting"} => p = call[c].mine
Owned ==
    \A c \in Callers : call[c].id # 0 =>
        /\ \A p \in Procs :
             /\ \A i \in 1..Len(inbox[p]) : Belongs(inbox[p][i], c, p)
             /\ \A i \in 1..Len(outbox[p]) : Belongs(outbox[p][i], c, p)
        /\ \A r \in pending : Belongs(r, c, r.by)

\* The answer to a request whose caller has gone is still expected as expired.
Wanted(id) == id \in forgotten \cup expired \/ \E c \in Callers : call[c].id = id
Expected ==
    process # 0 =>
        /\ \A i \in 1..Len(inbox[process]) :
              inbox[process][i].cmd \in Requests => Wanted(inbox[process][i].id)
        /\ \A i \in 1..Len(outbox[process]) :
              Final(outbox[process][i]) /\ outbox[process][i].cmd \in Requests
                  => Wanted(outbox[process][i].id)

CallbacksWait ==
    \A id \in callbacks : \E c \in Callers : call[c].id = id /\ call[c].at = "waiting"

CallInv == CallsDiffer /\ Owned /\ NoOrphans /\ Expected /\ CallbacksWait

\* Children: a new one is fresh, one that was given up is not written to any more, and
\* what is in the table comes from the current one.
Greeting(p) == \E i \in 1..Len(outbox[p]) : outbox[p][i].type = "ready"
Greeted(p) == child[p].state = "up" /\ ~Greeting(p)

Fresh ==
    /\ \A p \in Procs : child[p].state = "none" =>
         /\ inbox[p] = <<>> /\ outbox[p] = <<>> /\ delivering[p] = 0
         /\ p # process /\ p \notin cancelled
    /\ process \notin cancelled
    /\ \A r \in pending : r.by \notin cancelled /\ (process # 0 => r.by = process)
Deserted == ~ApiOnly => \A p \in Procs : Writable(p) => p = process

\* The greeting is the first that a child says; until the bridge has read it the model
\* is not taken for loaded, and what runs is known by its version from then on.
Greets ==
    \A p \in Procs :
        /\ child[p].state = "starting" => outbox[p] = <<>>
        /\ \A i \in 1..Len(outbox[p]) : outbox[p][i].type = "ready" =>
              i = 1 /\ (child[p].state = "up" => outbox[p][i].ok = child[p].fits)
Known ==
    process # 0 /\ process \in Alive =>
        /\ ~Greeted(process) =>
             /\ pending = {} /\ model \notin Loaded
             /\ ApiOnly => model = "loading"
        /\ Greeted(process) => running = IF child[process].fits THEN "same" ELSE "other"
Early ==
    \A p \in Procs : child[p].state = "starting" =>
        \A i \in 1..Len(inbox[p]) : inbox[p][i].cmd \notin Turns

ChildInv == Fresh /\ Deserted /\ Greets /\ Known /\ Early /\ RightVersion

\* The last word about the model, in the wire or read, is true of an engine that runs.
Bears(r) == r.type = "ready" \/ (Final(r) /\ Reports(r))
LastWord ==
    ~overlapped /\ process # 0 /\ child[process].state = "up" =>
        /\ \A i \in 1..Len(outbox[process]) :
             Bears(outbox[process][i])
                 /\ (\A j \in 1..Len(outbox[process]) : j > i => ~Bears(outbox[process][j]))
                 /\ outbox[process][i].status \in Loaded
             => outbox[process][i].status = child[process].engine
        /\ (\A i \in 1..Len(outbox[process]) : ~Bears(outbox[process][i])) /\ model \in Loaded
             => model = child[process].engine

Truthful(r) ==
    /\ \A i \in 1..Len(inbox[process]) : inbox[process][i].cmd \notin Engaging
    /\ r.ok /\ r.status \in Loaded => r.status = child[process].engine
    /\ r.cmd = "prepare" /\ r.status \in Loaded => r.status = child[process].engine
Settling ==
    ~overlapped /\ Usable =>
        \A c \in Callers : call[c].at \in {"preparing", "switching"} =>
            /\ \A i, j \in 1..Len(inbox[process]) :
                 inbox[process][i].id = call[c].id /\ j > i
                     => inbox[process][j].cmd \notin Engaging
            /\ \A i \in 1..Len(outbox[process]) :
                 Final(outbox[process][i]) /\ outbox[process][i].id = call[c].id
                     => Truthful(outbox[process][i])
            /\ \A r \in pending : r.id = call[c].id => Truthful(r)

StatusInv == LastWord /\ Settling

IInv == TypeOK /\ WireInv /\ CallInv /\ ChildInv /\ StatusInv

-----------------------------------------------------------------------------
(* Lines that come, go and are taken out of order *)

\* t is s with x at its end, and s without its element i.
Grew(t, s, x) ==
    /\ Len(t) = Len(s) + 1 /\ t[Len(s) + 1] = x
    /\ \A j \in 1..Len(t) : \/ j \in 1..Len(s) /\ t[j] = s[j]
                            \/ j = Len(s) + 1 /\ t[j] = x
Lost(t, s, i) ==
    /\ Len(t) = Len(s) - 1
    /\ \A j \in 1..Len(t) : \/ j < i /\ j \in 1..Len(s) /\ t[j] = s[j]
                            \/ j >= i /\ j + 1 \in 1..Len(s) /\ t[j] = s[j + 1]

LEMMA AppendGrows ==
    ASSUME NEW S, NEW s \in Seq(S), NEW x \in S
    PROVE  Append(s, x) \in Seq(S) /\ Grew(Append(s, x), s, x)
BY AppendProperties DEF Grew

LEMMA TailLoses ==
    ASSUME NEW S, NEW s \in Seq(S), s # <<>>
    PROVE  /\ Tail(s) \in Seq(S) /\ Lost(Tail(s), s, 1)
           /\ 1 \in 1..Len(s) /\ Head(s) = s[1]
<1>1. Tail(s) \in Seq(S) /\ Len(Tail(s)) = Len(s) - 1
      /\ \A i \in 1..Len(Tail(s)) : Tail(s)[i] = s[i + 1]
    BY HeadTailProperties
<1>2. Len(s) \in Nat /\ Len(s) > 0 /\ Head(s) = s[1]
    BY EmptySeq, LenProperties
<1> QED  BY <1>1, <1>2 DEF Lost

LEMMA CutLoses ==
    ASSUME NEW S, NEW s \in Seq(S), NEW i \in 1..Len(s)
    PROVE  LET t == SubSeq(s, 1, i - 1) \o SubSeq(s, i + 1, Len(s))
           IN  t \in Seq(S) /\ Lost(t, s, i)
<1> DEFINE a == SubSeq(s, 1, i - 1)
           b == SubSeq(s, i + 1, Len(s))
           t == a \o b
<1>1. Len(s) \in Nat /\ \A j \in 1..Len(s) : s[j] \in S
    BY LenProperties, ElementOfSeq
<1>2. a \in Seq(S) /\ Len(a) = i - 1 /\ \A j \in 1..(i - 1) : a[j] = s[j]
    BY <1>1, SubSeqProperties
<1>3. /\ b \in Seq(S) /\ Len(b) = Len(s) - i
      /\ \A j \in 1..(Len(s) - i) : b[j] = s[i + j]
    <2>1. \A j \in (i + 1)..Len(s) : s[j] \in S  BY <1>1
    <2>2. /\ b \in Seq(S)
          /\ Len(b) = IF i + 1 <= Len(s) THEN Len(s) - (i + 1) + 1 ELSE 0
          /\ \A j \in 1..(Len(s) - (i + 1) + 1) : b[j] = s[(i + 1) + j - 1]
        BY <1>1, <2>1, SubSeqProperties
    <2> QED  BY <1>1, <2>2
<1> HIDE DEF a, b
<1>4. /\ t \in Seq(S) /\ Len(t) = Len(a) + Len(b)
      /\ \A j \in 1..(Len(a) + Len(b)) : t[j] = IF j <= Len(a) THEN a[j] ELSE b[j - Len(a)]
    BY <1>2, <1>3, ConcatProperties
<1>5. ASSUME NEW j \in 1..Len(t), j < i  PROVE  j \in 1..Len(s) /\ t[j] = s[j]
    BY <1>1, <1>2, <1>3, <1>4, <1>5
<1>6. ASSUME NEW j \in 1..Len(t), ~(j < i)  PROVE  j >= i /\ j + 1 \in 1..Len(s) /\ t[j] = s[j + 1]
    BY <1>1, <1>2, <1>3, <1>4, <1>6
<1>7. Len(t) = Len(s) - 1  BY <1>1, <1>2, <1>3, <1>4
<1>8. t \in Seq(S) /\ Lost(t, s, i)
    BY <1>4, <1>5, <1>6, <1>7 DEF Lost
<1> QED  BY <1>8 DEF a, b

-----------------------------------------------------------------------------
(* What the steps do on the wires *)

\* A line goes to child p, one is taken from its inbox, one comes back, one is read.
Sends(p, x) ==
    /\ inbox' \in [Procs -> Seq(Lines)] /\ Grew(inbox'[p], inbox[p], x)
    /\ \A q \in Procs \ {p} : inbox'[q] = inbox[q]
Takes(p, i) ==
    /\ inbox' \in [Procs -> Seq(Lines)] /\ Lost(inbox'[p], inbox[p], i)
    /\ \A q \in Procs \ {p} : inbox'[q] = inbox[q]
Says(p, x) ==
    /\ outbox' \in [Procs -> Seq(Replies)] /\ Grew(outbox'[p], outbox[p], x)
    /\ \A q \in Procs \ {p} : outbox'[q] = outbox[q]
Hears(p) ==
    /\ outbox' \in [Procs -> Seq(Replies)] /\ Lost(outbox'[p], outbox[p], 1)
    /\ \A q \in Procs \ {p} : outbox'[q] = outbox[q]

\* The only lines are the old ones.
Quiet == UNCHANGED wireVars /\ serial' \in {serial, serial + 1} /\ pending' \subseteq pending

LEMMA WireTypes ==
    ASSUME TypeOK, NEW p \in Procs
    PROVE  /\ inbox[p] \in Seq(Lines) /\ \A i \in 1..Len(inbox[p]) : inbox[p][i] \in Lines
           /\ outbox[p] \in Seq(Replies) /\ \A i \in 1..Len(outbox[p]) : outbox[p][i] \in Replies
           /\ delivering[p] \in Nat /\ Len(inbox[p]) \in Nat /\ Len(outbox[p]) \in Nat
           /\ child[p] \in Children /\ serial \in Nat /\ p \in Nat /\ p # 0
<1>1. inbox[p] \in Seq(Lines) /\ outbox[p] \in Seq(Replies) /\ delivering[p] \in Ids \cup {0}
      /\ child[p] \in Children /\ serial \in Ids \cup {0}
    BY DEF TypeOK
<1> QED  BY <1>1, ElementOfSeq, LenProperties DEF Ids, Procs

LEMMA WriteEffect ==
    ASSUME TypeOK, NEW c \in Callers, NEW k \in Commands, NEW p \in Procs, Write(c, k, p)
    PROVE  LET x == [id |-> serial + 1, owner |-> c, cmd |-> k]
           IN  x \in Lines /\ Sends(p, x) /\ serial' = serial + 1
<1> DEFINE x == [id |-> serial + 1, owner |-> c, cmd |-> k]
<1>1. serial' = serial + 1 /\ inbox' = [inbox EXCEPT ![p] = Append(@, x)]
    BY DEF Write
<1>2. x \in Lines
    BY WireTypes DEF Lines, Ids
<1> HIDE DEF x
<1>3. inbox \in [Procs -> Seq(Lines)] /\ inbox[p] \in Seq(Lines)
    BY DEF TypeOK
<1>4. Append(inbox[p], x) \in Seq(Lines) /\ Grew(Append(inbox[p], x), inbox[p], x)
    BY <1>2, <1>3, AppendGrows
<1>5. inbox'[p] = Append(inbox[p], x) /\ \A q \in Procs \ {p} : inbox'[q] = inbox[q]
    BY <1>1, <1>3
<1>6. inbox' \in [Procs -> Seq(Lines)]
    BY <1>1, <1>3, <1>4
<1>7. Sends(p, x)
    BY <1>4, <1>5, <1>6 DEF Sends
<1> QED  BY <1>1, <1>2, <1>7 DEF x

LEMMA SayEffect ==
    ASSUME TypeOK, NEW p \in Procs, NEW x \in Replies,
           outbox' = [outbox EXCEPT ![p] = Append(@, x)]
    PROVE  Says(p, x)
<1>1. outbox \in [Procs -> Seq(Replies)] /\ outbox[p] \in Seq(Replies)
    BY DEF TypeOK
<1>2. Append(outbox[p], x) \in Seq(Replies) /\ Grew(Append(outbox[p], x), outbox[p], x)
    BY <1>1, AppendGrows
<1>3. outbox'[p] = Append(outbox[p], x) /\ \A q \in Procs \ {p} : outbox'[q] = outbox[q]
    BY <1>1
<1>4. outbox' \in [Procs -> Seq(Replies)]
    BY <1>1, <1>2
<1> QED  BY <1>2, <1>3, <1>4 DEF Says

LEMMA ReadEffect ==
    ASSUME TypeOK, NEW p \in Procs, Read(p)
    PROVE  /\ 1 \in 1..Len(outbox[p]) /\ Head(outbox[p]) = outbox[p][1]
           /\ outbox[p][1] \in Replies /\ Hears(p) /\ delivering[p] = 0
           /\ UNCHANGED <<process, child, cancelled, inbox, requested, serial, callbacks,
                          call, forgotten, overlapped>>
<1>1. outbox[p] # <<>> /\ delivering[p] = 0 /\ outbox' = [outbox EXCEPT ![p] = Tail(@)]
    BY DEF Read, Free
<1>2. outbox \in [Procs -> Seq(Replies)] /\ outbox[p] \in Seq(Replies)
    BY DEF TypeOK
<1>3. /\ Tail(outbox[p]) \in Seq(Replies) /\ Lost(Tail(outbox[p]), outbox[p], 1)
      /\ 1 \in 1..Len(outbox[p]) /\ Head(outbox[p]) = outbox[p][1]
    BY <1>1, <1>2, TailLoses
<1>4. outbox'[p] = Tail(outbox[p]) /\ \A q \in Procs \ {p} : outbox'[q] = outbox[q]
    BY <1>1, <1>2
<1>5. outbox' \in [Procs -> Seq(Replies)]
    BY <1>1, <1>2, <1>3
<1>6. Hears(p)
    BY <1>3, <1>4, <1>5 DEF Hears
<1> QED  BY <1>1, <1>3, <1>6, WireTypes DEF Read, historyVars

\* The reply of child p to its line i, which leaves the engine and the state wanted.
Reply(p, i, ok, status) ==
    [type |-> "reply", id |-> inbox[p][i].id, by |-> p, owner |-> inbox[p][i].owner,
     cmd |-> inbox[p][i].cmd, ok |-> ok, status |-> status]
Wants(p, i) == IF inbox[p][i].cmd \in {"cpu", "gpu"} THEN inbox[p][i].cmd ELSE child[p].wants
Served(p, i, e) ==
    /\ i = 1 \/ ApiOnly
    /\ e \in Effects(inbox[p][i].cmd, child[p].engine, Wants(p, i))
    /\ e.engine \in Loaded \cup {"missing"} /\ e.ok \in BOOLEAN
    /\ e.status \in Loaded \cup {"missing", "none"}
    /\ inbox[p][i].cmd \in Engaging => e.status # "none"
    /\ Takes(p, i) /\ Says(p, Reply(p, i, e.ok /\ child[p].fits, e.status))
    /\ Reply(p, i, e.ok /\ child[p].fits, e.status) \in Replies
    /\ child' = [child EXCEPT ![p].engine = e.engine, ![p].wants = Wants(p, i)]
    /\ Wants(p, i) \in {"api", "cpu", "gpu"}

LEMMA OutcomesTyped ==
    ASSUME NEW w  PROVE Outcomes(w) \subseteq Loaded \cup {"missing"} /\ "none" \notin Outcomes(w)
BY DEF Outcomes, Loaded

LEMMA EffectsTyped ==
    ASSUME NEW cmd \in Commands, NEW engine \in Loaded \cup {"missing"}, NEW w,
           NEW e \in Effects(cmd, engine, w)
    PROVE  /\ e.engine \in Loaded \cup {"missing"} /\ e.ok \in BOOLEAN
           /\ e.status \in Loaded \cup {"missing", "none"}
           /\ cmd \in Engaging => e.status # "none" /\ e.status = e.engine
           /\ cmd = "prepare" /\ engine \in Loaded => e.engine = engine
           /\ cmd \notin Engaging =>
                /\ e.engine = engine
                /\ e.status # "none" => e.status = engine
<1>1. CASE cmd = "prepare"
    <2>1. cmd \notin Switches  BY <1>1 DEF Switches
    <2> DEFINE S == IF engine \in Loaded THEN {engine} ELSE Outcomes(w)
    <2>a. e \in {[engine |-> g, ok |-> TRUE, status |-> g] : g \in S}
        BY <1>1, <2>1 DEF Effects
    <2>b. S \subseteq Loaded \cup {"missing"} /\ "none" \notin S
          /\ (engine \in Loaded => S = {engine})
        BY OutcomesTyped DEF Loaded
    <2> HIDE DEF S
    <2>2. PICK g \in S : e = [engine |-> g, ok |-> TRUE, status |-> g]
        BY <2>a
    <2>3. g \in Loaded \cup {"missing"} /\ g # "none" /\ (engine \in Loaded => g = engine)
        BY <2>2, <2>b
    <2> QED  BY <1>1, <2>1, <2>2, <2>3 DEF Engaging
<1>2. CASE cmd \in Switches
    <2>1. cmd # "prepare"  BY <1>2 DEF Switches
    <2>2. e \in {[engine |-> g, ok |-> TRUE, status |-> g] : g \in Outcomes(w)}
                    \cup {[engine |-> "missing", ok |-> FALSE, status |-> "missing"]}
        BY <1>2, <2>1 DEF Effects
    <2>3. CASE e = [engine |-> "missing", ok |-> FALSE, status |-> "missing"]
        BY <1>2, <2>1, <2>3 DEF Engaging
    <2>4. CASE \E g \in Outcomes(w) : e = [engine |-> g, ok |-> TRUE, status |-> g]
        <3>1. PICK g \in Outcomes(w) : e = [engine |-> g, ok |-> TRUE, status |-> g]
            BY <2>4
        <3>2. g \in Loaded \cup {"missing"} /\ g # "none"
            BY OutcomesTyped DEF Loaded
        <3> QED  BY <1>2, <2>1, <3>1, <3>2 DEF Engaging
    <2> QED  BY <2>2, <2>3, <2>4
<1>3. CASE cmd \notin Engaging
    <2>1. cmd # "prepare" /\ cmd \notin Switches  BY <1>3 DEF Engaging
    <2>2. e = [engine |-> engine, ok |-> engine \in Loaded,
               status |-> IF cmd = "turn" /\ engine \in Loaded \ {"api"} THEN engine ELSE "none"]
        BY <2>1 DEF Effects
    <2> QED  BY <1>3, <2>1, <2>2 DEF Loaded
<1> QED  BY <1>1, <1>2, <1>3 DEF Engaging

LEMMA ServeEffect ==
    ASSUME TypeOK, NEW p \in Procs, Serve(p)
    PROVE  /\ p = process /\ child[p].state = "up"
           /\ \E i \in 1..Len(inbox[p]) : \E e : Served(p, i, e)
           /\ UNCHANGED <<process, cancelled, delivering, tableVars, statusVars, call,
                          historyVars>>
<1>1. PICK i \in 1..Len(inbox[p]) :
        /\ i = 1 \/ ApiOnly
        /\ inbox' = [inbox EXCEPT ![p] = SubSeq(@, 1, i - 1) \o SubSeq(@, i + 1, Len(@))]
        /\ \E e \in Effects(inbox[p][i].cmd, child[p].engine, Wants(p, i)) :
             /\ child' = [child EXCEPT ![p].engine = e.engine, ![p].wants = Wants(p, i)]
             /\ outbox' = [outbox EXCEPT ![p] =
                             Append(@, Reply(p, i, e.ok /\ child[p].fits, e.status))]
    BY DEF Serve, Wants, Reply
<1>2. PICK e \in Effects(inbox[p][i].cmd, child[p].engine, Wants(p, i)) :
        /\ child' = [child EXCEPT ![p].engine = e.engine, ![p].wants = Wants(p, i)]
        /\ outbox' = [outbox EXCEPT ![p] =
                        Append(@, Reply(p, i, e.ok /\ child[p].fits, e.status))]
    BY <1>1
<1>3. inbox \in [Procs -> Seq(Lines)] /\ inbox[p] \in Seq(Lines)
    BY DEF TypeOK
<1> DEFINE cut == SubSeq(inbox[p], 1, i - 1) \o SubSeq(inbox[p], i + 1, Len(inbox[p]))
<1>4. cut \in Seq(Lines) /\ Lost(cut, inbox[p], i)
    BY <1>3, CutLoses
<1>5. inbox' = [inbox EXCEPT ![p] = cut]
    BY <1>1
<1> HIDE DEF cut
<1>6. inbox' \in [Procs -> Seq(Lines)] /\ inbox'[p] = cut
      /\ \A q \in Procs \ {p} : inbox'[q] = inbox[q]
    BY <1>3, <1>4, <1>5
<1>7. Takes(p, i)
    BY <1>4, <1>6 DEF Takes
<1>8. inbox[p][i] \in Lines /\ child[p] \in Children
    BY WireTypes
<1>9. /\ inbox[p][i].id \in Ids /\ inbox[p][i].owner \in Callers /\ inbox[p][i].cmd \in Commands
      /\ child[p].engine \in Loaded \cup {"missing"} /\ child[p].fits \in BOOLEAN
      /\ child[p].wants \in {"api", "cpu", "gpu"}
    BY <1>8 DEF Lines, Children
<1>10. /\ e.engine \in Loaded \cup {"missing"} /\ e.ok \in BOOLEAN
       /\ e.status \in Loaded \cup {"missing", "none"}
       /\ inbox[p][i].cmd \in Engaging => e.status # "none"
    BY <1>2, <1>9, EffectsTyped
<1>11. Reply(p, i, e.ok /\ child[p].fits, e.status) \in Replies
    <2>1. (e.ok /\ child[p].fits) \in BOOLEAN  BY <1>9, <1>10
    <2> QED  BY <1>9, <1>10, <2>1 DEF Reply, Replies
<1>12. Says(p, Reply(p, i, e.ok /\ child[p].fits, e.status))
    BY <1>2, <1>11, SayEffect
<1>13. Wants(p, i) \in {"api", "cpu", "gpu"}
    BY <1>9 DEF Wants
<1>14. Served(p, i, e)
    BY <1>1, <1>2, <1>7, <1>10, <1>11, <1>12, <1>13 DEF Served
<1> QED  BY <1>14 DEF Serve

\* What a child says first, and a part of its answer to line i.
Greet(p, engine, same) ==
    [type |-> "ready", id |-> 0, by |-> p, owner |-> 0, cmd |-> "prepare", ok |-> same,
     status |-> engine]
Part(p, i) ==
    [type |-> "delta", id |-> inbox[p][i].id, by |-> p, owner |-> inbox[p][i].owner,
     cmd |-> inbox[p][i].cmd, ok |-> TRUE, status |-> "none"]

LEMMA BootEffect ==
    ASSUME TypeOK, NEW p \in Procs, Boot(p)
    PROVE  /\ p = process /\ child[p].state = "starting"
           /\ \E engine \in Loaded \cup {"missing"}, same \in BOOLEAN :
                /\ child' = [child EXCEPT ![p].state = "up", ![p].engine = engine, ![p].fits = same]
                /\ Says(p, Greet(p, engine, same)) /\ Greet(p, engine, same) \in Replies
           /\ UNCHANGED <<process, cancelled, inbox, delivering, tableVars, statusVars, call,
                          historyVars>>
<1>1. PICK engine \in Outcomes(child[p].wants), same \in BOOLEAN :
        /\ child' = [child EXCEPT ![p].state = "up", ![p].engine = engine, ![p].fits = same]
        /\ outbox' = [outbox EXCEPT ![p] = Append(@, Greet(p, engine, same))]
    BY DEF Boot, Greet
<1>2. engine \in Loaded \cup {"missing"}
    BY OutcomesTyped
<1>3. Greet(p, engine, same) \in Replies
    BY <1>2 DEF Greet, Replies, Commands
<1>4. Says(p, Greet(p, engine, same))
    BY <1>1, <1>3, SayEffect
<1> QED  BY <1>1, <1>2, <1>3, <1>4 DEF Boot

LEMMA StreamEffect ==
    ASSUME TypeOK, NEW p \in Procs, Stream(p)
    PROVE  /\ p = process /\ child[p].state = "up"
           /\ \E i \in 1..Len(inbox[p]) :
                inbox[p][i].cmd = "stream" /\ Says(p, Part(p, i)) /\ Part(p, i) \in Replies
           /\ UNCHANGED <<process, child, cancelled, inbox, delivering, tableVars,
                          statusVars, call, historyVars>>
<1>1. PICK i \in 1..Len(inbox[p]) :
        inbox[p][i].cmd = "stream" /\ outbox' = [outbox EXCEPT ![p] = Append(@, Part(p, i))]
    BY DEF Stream, Part
<1>2. inbox[p][i] \in Lines
    BY WireTypes
<1>3. Part(p, i) \in Replies
    BY <1>2 DEF Part, Replies, Lines
<1>4. Says(p, Part(p, i))
    BY <1>1, <1>3, SayEffect
<1> QED  BY <1>1, <1>3, <1>4 DEF Stream

LEMMA StopEffect ==
    ASSUME TypeOK, NEW p \in Procs, Stops(p)
    PROVE  /\ inbox' \in [Procs -> Seq(Lines)] /\ Len(inbox'[p]) = 0
           /\ \A q \in Procs \ {p} : inbox'[q] = inbox[q] /\ child'[q] = child[q]
           /\ child' \in [Procs -> Children] /\ child'[p].state = "dead" /\ ~child'[p].stdin
           /\ UNCHANGED <<process, cancelled, outbox, delivering, tableVars, statusVars, call,
                          historyVars>>
<1>1. child \in [Procs -> Children] /\ inbox \in [Procs -> Seq(Lines)]
    BY DEF TypeOK
<1>2. [NoChild EXCEPT !.state = "dead"] \in Children
      /\ [NoChild EXCEPT !.state = "dead"].state = "dead"
      /\ ~[NoChild EXCEPT !.state = "dead"].stdin
    BY DEF NoChild, Children
<1>3. <<>> \in Seq(Lines) /\ Len(<<>>) = 0
    OBVIOUS
<1>4. inbox' \in [Procs -> Seq(Lines)] /\ inbox'[p] = <<>>
      /\ \A q \in Procs \ {p} : inbox'[q] = inbox[q]
    BY <1>1, <1>3 DEF Stops
<1>5. child' \in [Procs -> Children] /\ child'[p] = [NoChild EXCEPT !.state = "dead"]
      /\ \A q \in Procs \ {p} : child'[q] = child[q]
    <2> DEFINE d == [NoChild EXCEPT !.state = "dead"]
    <2>1. d \in Children /\ child' = [child EXCEPT ![p] = d]  BY <1>2 DEF Stops
    <2> HIDE DEF d
    <2>2. child' \in [Procs -> Children] /\ child'[p] = d
          /\ \A q \in Procs \ {p} : child'[q] = child[q]
        BY <1>1, <2>1
    <2> QED  BY <2>2 DEF d
<1> QED  BY <1>2, <1>3, <1>4, <1>5 DEF Stops

-----------------------------------------------------------------------------
(* Ids are in one place, and are answered once *)

LEMMA HomesKept ==
    ASSUME TypeOK, OneHome, Counted, serial' \in {serial, serial + 1},
           \A q \in Procs : \A id \in Ids :
               Has(q, id)' => Has(q, id) \/ (serial' = serial + 1 /\ id = serial' /\ q = process)
    PROVE  OneHome' /\ Counted'
<1>1. serial \in Nat
    BY DEF TypeOK, Ids
<1>2. \A q \in Procs : ~Has(q, serial + 1)
    BY <1>1 DEF Counted, Ids
<1>3. OneHome'
    BY <1>2 DEF OneHome
<1>4. Counted'
    BY <1>1 DEF Counted, Ids
<1> QED  BY <1>3, <1>4

\* Whoever has an id has it already.
NoNews == \A q \in Procs : \A id \in Ids : Has(q, id)' => Has(q, id)

LEMMA CollectedKept ==
    ASSUME TypeOK, Collected, OneReply, NoNews, serial' \in {serial, serial + 1},
           pending' \subseteq pending
    PROVE  Collected' /\ OneReply'
<1>1. serial \in Nat
    BY DEF TypeOK, Ids
<1>2. ASSUME NEW r \in pending'  PROVE r.id \in 1..serial' /\ Final(r) /\ \A p \in Procs : ~Has(p, r.id)'
    <2>1. r \in pending /\ r.id \in 1..serial /\ Final(r) /\ \A p \in Procs : ~Has(p, r.id)
        BY DEF Collected
    <2> QED  BY <1>1, <2>1 DEF NoNews, Ids
<1>3. Collected'
    BY <1>2 DEF Collected, Final
<1>4. OneReply'
    BY DEF OneReply
<1> QED  BY <1>3, <1>4

LEMMA WireQuiet ==
    ASSUME TypeOK, WireInv, Quiet, ApiOnly' <=> ApiOnly
    PROVE  WireInv'
<1> USE DEF WireInv
<1>1. UNCHANGED <<inbox, outbox, delivering>> /\ serial' \in {serial, serial + 1}
      /\ pending' \subseteq pending
    BY DEF Quiet, wireVars
<1>2. NoNews
    BY <1>1 DEF NoNews, Has
<1>3. OneHome' /\ Counted'
    BY <1>1, <1>2, HomesKept DEF NoNews
<1>4. Collected' /\ OneReply'
    BY <1>1, <1>2, CollectedKept
<1>5. LinesDiffer' /\ AnsweredOnce' /\ NeverTold'
    BY <1>1 DEF LinesDiffer, AnsweredOnce, NeverTold, Final
<1>6. RepliesProper'
    BY <1>1 DEF RepliesProper, Proper, Final
<1> QED  BY <1>3, <1>4, <1>5, <1>6

LEMMA WireSend ==
    ASSUME TypeOK, WireInv, NEW c \in Callers, NEW k \in Commands, process \in Procs,
           Write(c, k, process), UNCHANGED <<outbox, delivering>>, pending' \subseteq pending,
           ApiOnly' <=> ApiOnly, ApiOnly => k \notin Engaging
    PROVE  WireInv'
<1> USE DEF WireInv
<1> DEFINE x == [id |-> serial + 1, owner |-> c, cmd |-> k]
<1>1. x \in Lines /\ Sends(process, x) /\ serial' = serial + 1 /\ x.id = serial + 1 /\ x.cmd = k
    BY WriteEffect
<1> HIDE DEF x
<1>2. serial \in Nat
    BY DEF TypeOK, Ids
<1>3. ASSUME NEW q \in Procs, NEW i \in 1..Len(inbox'[q])
      PROVE  \/ i \in 1..Len(inbox[q]) /\ inbox'[q][i] = inbox[q][i]
             \/ q = process /\ i = Len(inbox[q]) + 1 /\ inbox'[q][i] = x
    BY <1>1 DEF Sends, Grew
<1>4. ASSUME NEW q \in Procs, NEW id \in Ids, Has(q, id)'
      PROVE  Has(q, id) \/ (serial' = serial + 1 /\ id = serial' /\ q = process)
    <2>1. CASE \E i \in 1..Len(inbox'[q]) : inbox'[q][i].id = id
        BY <1>1, <1>3, <2>1 DEF Has
    <2>2. CASE ~\E i \in 1..Len(inbox'[q]) : inbox'[q][i].id = id
        BY <1>4, <2>2 DEF Has
    <2> QED  BY <2>1, <2>2
<1>5. OneHome' /\ Counted'
    BY <1>1, <1>4, HomesKept
<1>6. Collected' /\ OneReply'
    <2>1. ASSUME NEW r \in pending
          PROVE r.id \in 1..serial' /\ Final(r) /\ \A p \in Procs : ~Has(p, r.id)'
        <3>1. r.id \in 1..serial /\ Final(r) /\ \A p \in Procs : ~Has(p, r.id)
            BY DEF Collected
        <3> QED  BY <1>1, <1>2, <1>4, <3>1 DEF Ids
    <2> QED  BY <2>1 DEF Collected, OneReply, Final
<1>7. \A q \in Procs : \A i \in 1..Len(inbox[q]) : inbox[q][i].id \in Ids /\ inbox[q][i].id <= serial
    <2> SUFFICES ASSUME NEW q \in Procs, NEW i \in 1..Len(inbox[q])
                 PROVE  inbox[q][i].id \in Ids /\ inbox[q][i].id <= serial
        OBVIOUS
    <2>1. inbox[q][i].id \in Ids  BY WireTypes DEF Lines
    <2> QED  BY <2>1 DEF Counted, Has
<1>8. LinesDiffer'
    <2> SUFFICES ASSUME NEW p \in Procs, NEW i \in 1..Len(inbox'[p]), NEW j \in 1..Len(inbox'[p]),
                        inbox'[p][i].id = inbox'[p][j].id
                 PROVE  i = j
        BY DEF LinesDiffer
    <2>1. \/ i \in 1..Len(inbox[p]) /\ inbox'[p][i].id = inbox[p][i].id
          \/ i = Len(inbox[p]) + 1 /\ inbox'[p][i].id = serial + 1
        BY <1>1, <1>3
    <2>2. \/ j \in 1..Len(inbox[p]) /\ inbox'[p][j].id = inbox[p][j].id
          \/ j = Len(inbox[p]) + 1 /\ inbox'[p][j].id = serial + 1
        BY <1>1, <1>3
    <2>3. \A m \in 1..Len(inbox[p]) : inbox[p][m].id # serial + 1
        BY <1>2, <1>7 DEF Ids
    <2>4. CASE i \in 1..Len(inbox[p]) /\ j \in 1..Len(inbox[p])
        BY <2>1, <2>2, <2>4, WireTypes DEF LinesDiffer
    <2> QED  BY <2>1, <2>2, <2>3, <2>4
<1>9. AnsweredOnce'
    <2> SUFFICES ASSUME NEW p \in Procs, NEW j \in 1..Len(outbox[p]), Final(outbox[p][j]),
                        NEW i \in 1..Len(inbox'[p])
                 PROVE  inbox'[p][i].id # outbox[p][j].id
        BY DEF AnsweredOnce, Final
    <2>1. outbox[p][j].id # serial + 1
        BY <1>2 DEF Counted, Has, Ids
    <2>2. \/ i \in 1..Len(inbox[p]) /\ inbox'[p][i].id = inbox[p][i].id
          \/ inbox'[p][i].id = serial + 1
        BY <1>1, <1>3
    <2>3. \A m \in 1..Len(inbox[p]) : inbox[p][m].id # outbox[p][j].id
        BY DEF AnsweredOnce
    <2> QED  BY <2>1, <2>2, <2>3
<1>10. RepliesProper'
    BY DEF RepliesProper, Proper, Final
<1>11. NeverTold'
    BY <1>1, <1>3 DEF NeverTold
<1> QED  BY <1>5, <1>6, <1>8, <1>9, <1>10, <1>11

\* Child p says something that is no final reply: its greeting, or a part.
LEMMA WireSay ==
    ASSUME TypeOK, WireInv, NEW p \in Procs, NEW x \in Replies, Says(p, x), Proper(x, p),
           ~Final(x), x.id = 0 \/ \E i \in 1..Len(inbox[p]) : inbox[p][i].id = x.id,
           UNCHANGED <<inbox, delivering, serial, pending>>, ApiOnly' <=> ApiOnly
    PROVE  WireInv'
<1> USE DEF WireInv
<1>1. ASSUME NEW q \in Procs, NEW j \in 1..Len(outbox'[q])
      PROVE  \/ j \in 1..Len(outbox[q]) /\ outbox'[q][j] = outbox[q][j]
             \/ q = p /\ j = Len(outbox[q]) + 1 /\ outbox'[q][j] = x
    BY DEF Says, Grew
<1>2. NoNews
    <2> SUFFICES ASSUME NEW q \in Procs, NEW id \in Ids, Has(q, id)'  PROVE Has(q, id)
        BY DEF NoNews
    <2>1. CASE \E j \in 1..Len(outbox'[q]) : outbox'[q][j].id = id
        BY <1>1, <2>1 DEF Has, Ids
    <2>2. CASE ~\E j \in 1..Len(outbox'[q]) : outbox'[q][j].id = id
        BY <2>2 DEF Has
    <2> QED  BY <2>1, <2>2
<1>3. OneHome' /\ Counted' /\ Collected' /\ OneReply'
    BY <1>2, HomesKept, CollectedKept DEF NoNews
<1>4. LinesDiffer' /\ NeverTold'
    BY DEF LinesDiffer, NeverTold
<1>5. RepliesProper'
    <2>1. \A q \in Procs : \A j \in 1..Len(outbox'[q]) : Proper(outbox'[q][j], q)
        BY <1>1 DEF RepliesProper
    <2> QED  BY <2>1 DEF RepliesProper, Proper, Final
<1>6. AnsweredOnce'
    <2> SUFFICES ASSUME NEW q \in Procs, NEW j \in 1..Len(outbox'[q]), Final(outbox'[q][j])
                 PROVE  /\ \A i \in 1..Len(inbox[q]) : inbox[q][i].id # outbox'[q][j].id
                        /\ \A i \in 1..Len(outbox'[q]) : outbox'[q][i].id = outbox'[q][j].id =>
                              i <= j /\ (Final(outbox'[q][i]) => i = j)
        BY DEF AnsweredOnce, Final
    <2>1. j \in 1..Len(outbox[q]) /\ outbox'[q][j] = outbox[q][j]
        BY <1>1 DEF Final
    <2>2. /\ \A i \in 1..Len(inbox[q]) : inbox[q][i].id # outbox[q][j].id
          /\ \A i \in 1..Len(outbox[q]) : outbox[q][i].id = outbox[q][j].id =>
                i <= j /\ (Final(outbox[q][i]) => i = j)
        BY <2>1 DEF AnsweredOnce
    <2>3. outbox[q][j].id # 0
        BY <2>1 DEF RepliesProper, Proper, Final
    <2>4. ASSUME NEW i \in 1..Len(outbox'[q]), outbox'[q][i].id = outbox[q][j].id
          PROVE  i <= j /\ (Final(outbox'[q][i]) => i = j)
        <3>1. i \in 1..Len(outbox[q]) /\ outbox'[q][i] = outbox[q][i]
            BY <1>1, <2>2, <2>3, <2>4
        <3> QED  BY <2>2, <2>4, <3>1
    <2> QED  BY <2>1, <2>2, <2>4
<1> QED  BY <1>3, <1>4, <1>5, <1>6

LEMMA WireServe ==
    ASSUME TypeOK, WireInv, NEW p \in Procs, NEW i \in 1..Len(inbox[p]), NEW e, Served(p, i, e),
           UNCHANGED <<delivering, serial, pending>>, ApiOnly' <=> ApiOnly
    PROVE  WireInv'
<1> USE DEF WireInv
<1> DEFINE x == Reply(p, i, e.ok /\ child[p].fits, e.status)
<1>0. /\ x \in Replies /\ Final(x) /\ x.id = inbox[p][i].id /\ Takes(p, i) /\ Says(p, x)
      /\ x.id \in Ids /\ Proper(x, p)
    <2>1. inbox[p][i] \in Lines  BY WireTypes
    <2> QED  BY <2>1 DEF Served, Reply, Final, Lines, Proper, Ids
<1> HIDE DEF x
<1>1. ASSUME NEW q \in Procs, NEW j \in 1..Len(outbox'[q])
      PROVE  \/ j \in 1..Len(outbox[q]) /\ outbox'[q][j] = outbox[q][j]
             \/ q = p /\ j = Len(outbox[q]) + 1 /\ outbox'[q][j] = x
    BY <1>0 DEF Says, Grew
<1>2. ASSUME NEW q \in Procs, NEW j \in 1..Len(inbox'[q])
      PROVE  \/ q # p /\ j \in 1..Len(inbox[q]) /\ inbox'[q][j] = inbox[q][j]
             \/ q = p /\ j < i /\ j \in 1..Len(inbox[q]) /\ inbox'[q][j] = inbox[q][j]
             \/ q = p /\ j >= i /\ j + 1 \in 1..Len(inbox[q]) /\ inbox'[q][j] = inbox[q][j + 1]
    BY <1>0 DEF Takes, Lost
<1>3. \A q \in Procs : \A j \in 1..Len(inbox'[q]) : \E k \in 1..Len(inbox[q]) :
          inbox'[q][j] = inbox[q][k] /\ (q = p => k # i)
    BY <1>2
<1>4. NoNews
    <2> SUFFICES ASSUME NEW q \in Procs, NEW id \in Ids, Has(q, id)'  PROVE Has(q, id)
        BY DEF NoNews
    <2>1. CASE \E j \in 1..Len(outbox'[q]) : outbox'[q][j].id = id
        BY <1>0, <1>1, <2>1 DEF Has
    <2>2. CASE \E j \in 1..Len(inbox'[q]) : inbox'[q][j].id = id
        BY <1>3, <2>2 DEF Has
    <2>3. CASE delivering'[q] = id
        BY <2>3 DEF Has
    <2> QED  BY <2>1, <2>2, <2>3 DEF Has
<1>5. OneHome' /\ Counted' /\ Collected' /\ OneReply'
    BY <1>4, HomesKept, CollectedKept DEF NoNews
<1>6. NeverTold'
    BY <1>3 DEF NeverTold
<1>7. LinesDiffer'
    <2> SUFFICES ASSUME NEW q \in Procs, NEW j \in 1..Len(inbox'[q]), NEW k \in 1..Len(inbox'[q]),
                        inbox'[q][j].id = inbox'[q][k].id
                 PROVE  j = k
        BY DEF LinesDiffer
    <2>1. \A m, n \in 1..Len(inbox[q]) : inbox[q][m].id = inbox[q][n].id => m = n
        BY DEF LinesDiffer
    <2>2. j \in Nat /\ k \in Nat /\ i \in Nat
        OBVIOUS
    <2>3. PICK m \in 1..Len(inbox[q]) : /\ inbox'[q][j] = inbox[q][m]
                                       /\ m = IF q # p \/ j < i THEN j ELSE j + 1
        BY <1>2, <2>2
    <2>4. PICK n \in 1..Len(inbox[q]) : /\ inbox'[q][k] = inbox[q][n]
                                       /\ n = IF q # p \/ k < i THEN k ELSE k + 1
        BY <1>2, <2>2
    <2>5. m = n
        BY <2>1, <2>3, <2>4
    <2> QED  BY <2>2, <2>3, <2>4, <2>5
<1>8. RepliesProper'
    <2>1. \A q \in Procs : \A j \in 1..Len(outbox'[q]) : Proper(outbox'[q][j], q)
        BY <1>0, <1>1 DEF RepliesProper
    <2> QED  BY <2>1 DEF RepliesProper, Proper, Final
<1>9. AnsweredOnce'
    <2> SUFFICES ASSUME NEW q \in Procs, NEW j \in 1..Len(outbox'[q]), Final(outbox'[q][j])
                 PROVE  /\ \A k \in 1..Len(inbox'[q]) : inbox'[q][k].id # outbox'[q][j].id
                        /\ \A k \in 1..Len(outbox'[q]) : outbox'[q][k].id = outbox'[q][j].id =>
                              k <= j /\ (Final(outbox'[q][k]) => k = j)
        BY DEF AnsweredOnce, Final
    <2>1. CASE j \in 1..Len(outbox[q]) /\ outbox'[q][j] = outbox[q][j]
        <3>1. /\ \A k \in 1..Len(inbox[q]) : inbox[q][k].id # outbox[q][j].id
              /\ \A k \in 1..Len(outbox[q]) : outbox[q][k].id = outbox[q][j].id =>
                    k <= j /\ (Final(outbox[q][k]) => k = j)
            BY <2>1 DEF AnsweredOnce
        <3>2. \A k \in 1..Len(inbox'[q]) : inbox'[q][k].id # outbox'[q][j].id
            BY <1>3, <2>1, <3>1
        <3>3. ASSUME NEW k \in 1..Len(outbox'[q]), outbox'[q][k].id = outbox[q][j].id
              PROVE  k <= j /\ (Final(outbox'[q][k]) => k = j)
            <4>1. k \in 1..Len(outbox[q]) /\ outbox'[q][k] = outbox[q][k]
                BY <1>0, <1>1, <3>1, <3>3
            <4> QED  BY <3>1, <3>3, <4>1
        <3> QED  BY <2>1, <3>2, <3>3
    <2>2. CASE q = p /\ j = Len(outbox[q]) + 1 /\ outbox'[q][j] = x
        <3>1. \A k \in 1..Len(inbox'[q]) : inbox'[q][k].id # x.id
            <4> SUFFICES ASSUME NEW k \in 1..Len(inbox'[q])  PROVE inbox'[q][k].id # x.id
                OBVIOUS
            <4>1. PICK m \in 1..Len(inbox[q]) : inbox'[q][k] = inbox[q][m] /\ (q = p => m # i)
                BY <1>3
            <4> QED  BY <1>0, <2>2, <4>1 DEF LinesDiffer
        <3>2. ASSUME NEW k \in 1..Len(outbox'[q]), outbox'[q][k].id = x.id
              PROVE  k <= j /\ (Final(outbox'[q][k]) => k = j)
            <4>1. CASE k \in 1..Len(outbox[q]) /\ outbox'[q][k] = outbox[q][k]
                <5>1. ~Final(outbox[q][k])
                    BY <1>0, <2>2, <3>2, <4>1 DEF AnsweredOnce
                <5> QED  BY <2>2, <4>1, <5>1, WireTypes
            <4>2. CASE k = Len(outbox[q]) + 1
                BY <2>2, <4>2, WireTypes
            <4> QED  BY <1>1, <4>1, <4>2
        <3> QED  BY <2>2, <3>1, <3>2
    <2> QED  BY <1>1, <2>1, <2>2
<1> QED  BY <1>5, <1>6, <1>7, <1>8, <1>9

\* What the reader does with the line r of child p.
LEMMA TakeEffect ==
    ASSUME TypeOK, NEW p \in Procs, NEW r \in Replies,
           (IsCurrent(p) /\ Take(p, r))
               \/ (~IsCurrent(p) /\ UNCHANGED <<model, running, delivering, pending, expired>>)
    PROVE  /\ delivering' \in [Procs -> Ids \cup {0}]
           /\ \A q \in Procs : delivering'[q] = delivering[q]
                                 \/ (q = p /\ delivering'[q] \in {0, r.id} /\ r.type = "delta")
           /\ \/ pending' = pending
              \/ pending' = pending \cup {r} /\ Final(r) /\ p = process /\ r.id \notin expired
           /\ expired' = expired \/ (expired' = expired \ {r.id} /\ Final(r) /\ p = process)
<1>0. delivering \in [Procs -> Ids \cup {0}]
    BY DEF TypeOK
<1>1. CASE ~IsCurrent(p)
    BY <1>0, <1>1
<1>2. CASE IsCurrent(p) /\ r.type = "delta"
    <2>1. delivering' = [delivering EXCEPT ![p] = IF r.id \in callbacks THEN r.id ELSE 0]
          /\ UNCHANGED <<pending, expired>>
        BY <1>2 DEF Take, IsFinal
    <2>2. (IF r.id \in callbacks THEN r.id ELSE 0) \in Ids \cup {0}
        BY DEF TypeOK
    <2>3. delivering' \in [Procs -> Ids \cup {0}]
        BY <1>0, <2>1, <2>2
    <2> QED  BY <1>0, <1>2, <2>1, <2>3
<1>3. CASE IsCurrent(p) /\ r.type = "ready"
    BY <1>0, <1>3 DEF Take, IsFinal
<1>4. CASE IsCurrent(p) /\ IsFinal(r)
    <2>1. UNCHANGED delivering /\ expired' = expired \ {r.id}
          /\ pending' = IF r.id \in expired THEN pending ELSE pending \cup {r}
        BY <1>4 DEF Take, IsFinal
    <2> QED  BY <1>0, <1>4, <2>1 DEF IsFinal, Final, IsCurrent
<1> QED  BY <1>1, <1>2, <1>3, <1>4 DEF Take, IsFinal

\* A final reply that was read is nowhere on the wires of its child any more.
LEMMA ReadOnce ==
    ASSUME TypeOK, WireInv, NEW p \in Procs, Read(p), NEW r \in Replies, r = outbox[p][1], Final(r)
    PROVE  ~Has(p, r.id)'
<1> USE DEF WireInv
<1>1. /\ 1 \in 1..Len(outbox[p]) /\ Hears(p) /\ delivering[p] = 0 /\ UNCHANGED inbox
      /\ Head(outbox[p]) = r
    BY ReadEffect
<1>2. r.id \in Ids /\ r.type # "delta"
    BY <1>1 DEF RepliesProper, Proper, Final, Replies
<1>3. ASSUME NEW j \in 1..Len(outbox'[p])  PROVE outbox'[p][j].id # r.id
    <2>1. PICK k \in 1..Len(outbox[p]) : outbox'[p][j] = outbox[p][k] /\ k # 1
        BY <1>1 DEF Hears, Lost
    <2>2. outbox[p][k].id = r.id => k <= 1
        BY <1>1 DEF AnsweredOnce
    <2> QED  BY <2>1, <2>2
<1>4. \A j \in 1..Len(inbox'[p]) : inbox'[p][j].id # r.id
    BY <1>1 DEF AnsweredOnce
<1>5. delivering'[p] # r.id
    <2>1. (IsCurrent(p) /\ Take(p, r))
             \/ (~IsCurrent(p) /\ UNCHANGED <<model, running, delivering, pending, expired>>)
        BY <1>1 DEF Read
    <2> QED  BY <1>1, <1>2, <2>1, TakeEffect DEF Ids
<1> QED  BY <1>3, <1>4, <1>5 DEF Has

LEMMA WireRead ==
    ASSUME TypeOK, WireInv, NEW p \in Procs, Read(p)
    PROVE  WireInv'
<1> USE DEF WireInv
<1>r. PICK r \in Replies : r = outbox[p][1]
    BY ReadEffect
<1>0. /\ 1 \in 1..Len(outbox[p]) /\ r \in Replies /\ Hears(p) /\ delivering[p] = 0
      /\ UNCHANGED <<process, inbox, requested, serial>> /\ Proper(r, p) /\ r.id \in Ids \cup {0}
    <2>1. 1 \in 1..Len(outbox[p]) /\ r \in Replies /\ Hears(p) /\ delivering[p] = 0
          /\ UNCHANGED <<process, inbox, requested, serial>>
        BY <1>r, ReadEffect
    <2>2. Proper(r, p)
        BY <1>r, <2>1 DEF RepliesProper
    <2> QED  BY <2>1, <2>2 DEF Replies
<1>1. /\ \A q \in Procs : delivering'[q] = delivering[q]
                            \/ (q = p /\ delivering'[q] \in {0, r.id} /\ r.type = "delta")
      /\ \/ pending' = pending
         \/ pending' = pending \cup {r} /\ Final(r)
    <2>1. (IsCurrent(p) /\ Take(p, r))
             \/ (~IsCurrent(p) /\ UNCHANGED <<model, running, delivering, pending, expired>>)
        BY <1>r, ReadEffect DEF Read
    <2> QED  BY <1>0, <2>1, TakeEffect
<1>2. \A q \in Procs : \A j \in 1..Len(outbox'[q]) :
          \/ q # p /\ j \in 1..Len(outbox[q]) /\ outbox'[q][j] = outbox[q][j]
          \/ q = p /\ j + 1 \in 1..Len(outbox[q]) /\ outbox'[q][j] = outbox[q][j + 1]
    BY <1>0 DEF Hears, Lost
<1>3. \A q \in Procs : \A j \in 1..Len(outbox'[q]) : \E k \in 1..Len(outbox[q]) :
          outbox'[q][j] = outbox[q][k] /\ (q = p => k # 1)
    BY <1>2
<1>4. NoNews
    <2> SUFFICES ASSUME NEW q \in Procs, NEW id \in Ids, Has(q, id)'  PROVE Has(q, id)
        BY DEF NoNews
    <2>1. CASE \E j \in 1..Len(outbox'[q]) : outbox'[q][j].id = id
        BY <1>3, <2>1 DEF Has
    <2>2. CASE \E j \in 1..Len(inbox'[q]) : inbox'[q][j].id = id
        BY <1>0, <2>2 DEF Has
    <2>3. CASE delivering'[q] = id
        BY <1>r, <1>0, <1>1, <2>3 DEF Has, Ids
    <2> QED  BY <2>1, <2>2, <2>3 DEF Has
<1>5. OneHome' /\ Counted'
    BY <1>0, <1>4, HomesKept DEF NoNews
<1>6. Collected' /\ OneReply'
    <2>1. CASE pending' = pending
        BY <1>0, <1>4, <2>1, CollectedKept
    <2>2. CASE pending' = pending \cup {r} /\ Final(r)
        <3>1. r.id \in Ids /\ Has(p, r.id) /\ r.type # "delta"
            BY <1>r, <1>0, <2>2 DEF Has, Proper, Final, Ids
        <3>2. r.id \in 1..serial
            BY <3>1 DEF Counted, Ids, TypeOK
        <3>3. \A s \in pending : s.id # r.id
            BY <3>1 DEF Collected
        <3>4. ~Has(p, r.id)'
            BY <1>r, <2>2, ReadOnce
        <3>5. \A q \in Procs : ~Has(q, r.id)'
            BY <1>4, <3>1, <3>4 DEF NoNews, OneHome
        <3>6. \A s \in pending : s.id \in 1..serial /\ Final(s) /\ \A q \in Procs : ~Has(q, s.id)'
            BY <1>4 DEF NoNews, Collected, Ids
        <3>7. Collected'
            BY <1>0, <2>2, <3>2, <3>5, <3>6 DEF Collected, Final
        <3>8. OneReply'
            BY <2>2, <3>3 DEF OneReply
        <3> QED  BY <3>7, <3>8
    <2> QED  BY <1>1, <2>1, <2>2
<1>7. LinesDiffer' /\ NeverTold'
    BY <1>0 DEF LinesDiffer, NeverTold, ApiOnly
<1>8. RepliesProper'
    <2>1. \A q \in Procs : \A j \in 1..Len(outbox'[q]) : Proper(outbox'[q][j], q)
        BY <1>3 DEF RepliesProper
    <2>2. \A s \in pending' : Proper(s, s.by)
        BY <1>0, <1>1 DEF RepliesProper, Proper
    <2> QED  BY <2>1, <2>2 DEF RepliesProper, Proper, Final
<1>9. AnsweredOnce'
    <2> SUFFICES ASSUME NEW q \in Procs, NEW j \in 1..Len(outbox'[q]), Final(outbox'[q][j])
                 PROVE  /\ \A i \in 1..Len(inbox'[q]) : inbox'[q][i].id # outbox'[q][j].id
                        /\ \A i \in 1..Len(outbox'[q]) : outbox'[q][i].id = outbox'[q][j].id =>
                              i <= j /\ (Final(outbox'[q][i]) => i = j)
        BY DEF AnsweredOnce, Final
    <2>1. PICK m \in 1..Len(outbox[q]) : /\ outbox'[q][j] = outbox[q][m]
                                         /\ m = IF q = p THEN j + 1 ELSE j
        BY <1>2
    <2>2. \A i \in 1..Len(inbox'[q]) : inbox'[q][i].id # outbox'[q][j].id
        BY <1>0, <2>1 DEF AnsweredOnce
    <2>3. ASSUME NEW i \in 1..Len(outbox'[q]), outbox'[q][i].id = outbox'[q][j].id
          PROVE  i <= j /\ (Final(outbox'[q][i]) => i = j)
        <3>1. PICK n \in 1..Len(outbox[q]) : /\ outbox'[q][i] = outbox[q][n]
                                             /\ n = IF q = p THEN i + 1 ELSE i
            BY <1>2
        <3>2. n <= m /\ (Final(outbox[q][n]) => n = m)
            BY <2>1, <2>3, <3>1 DEF AnsweredOnce
        <3> QED  BY <2>1, <3>1, <3>2
    <2> QED  BY <2>2, <2>3
<1> QED  BY <1>5, <1>6, <1>7, <1>8, <1>9

LEMMA WireLess ==
    ASSUME TypeOK, WireInv, NEW p \in Procs,
           \/ PassOn(p)
           \/ Stops(p)
    PROVE  WireInv'
<1> USE DEF WireInv
<1>0. delivering \in [Procs -> Ids \cup {0}]
    BY DEF TypeOK
<1>1. \A q \in Procs : \A j \in 1..Len(inbox'[q]) : j \in 1..Len(inbox[q]) /\ inbox'[q][j] = inbox[q][j]
    BY StopEffect DEF PassOn
<1>2. \A q \in Procs : delivering'[q] = delivering[q] \/ delivering'[q] = 0
    BY <1>0, StopEffect DEF PassOn
<1>3. UNCHANGED <<outbox, serial, pending, requested>>
    BY StopEffect DEF PassOn, tableVars, statusVars
<1>4. NoNews
    BY <1>1, <1>2, <1>3 DEF NoNews, Has, Ids
<1>5. OneHome' /\ Counted' /\ Collected' /\ OneReply'
    BY <1>3, <1>4, HomesKept, CollectedKept DEF NoNews
<1>6. LinesDiffer'
    BY <1>1 DEF LinesDiffer
<1>7. NeverTold'
    BY <1>1, <1>3 DEF NeverTold, ApiOnly
<1>8. AnsweredOnce'
    BY <1>1, <1>3 DEF AnsweredOnce, Final
<1>9. RepliesProper'
    BY <1>3 DEF RepliesProper, Proper, Final
<1> QED  BY <1>5, <1>6, <1>7, <1>8, <1>9

-----------------------------------------------------------------------------
(* What a caller may do *)

\* Nothing stays in the table under the id of caller c, and no expired id is lost.
Detached(c) ==
    /\ pending' \subseteq pending /\ \A r \in pending' : r.id # call[c].id
    /\ expired' \subseteq Ids /\ forgotten' \subseteq Ids /\ forgotten \subseteq forgotten'
    /\ expired \cup forgotten \subseteq expired' \cup forgotten'

\* The model is as before, unknown, or what the answer to caller c says.
Learns(c) ==
    \/ model' = model
    \/ ~ApiOnly /\ model' = "error"
    \/ ~ApiOnly /\ \E r \in ReplyFor(c) :
         /\ model' = r.status /\ call[c].at \in {"preparing", "switching"}
         /\ call[c].at = "switching" => r.ok

Leaving(c) ==
    /\ Ends(c)
    /\ UNCHANGED <<process, child, cancelled, wireVars, requested, running, overlapped>>
    /\ serial' \in {serial, serial + 1}
    /\ Detached(c) /\ Learns(c)
    /\ callbacks' \subseteq callbacks \ {call[c].id}
    /\ call[c].at = "waiting" =>
         call[c].id \in expired' \cup forgotten' \/ \A p \in Procs : ~Has(p, call[c].id)

\* A request of the channel's kind.
Asks(k) == k \in Requests /\ (~ApiOnly => k # "stream")

SendsAs(c, k, l, n, m) ==
    \/ /\ l = "waiting" /\ n = k /\ m = process /\ Asks(k)
       /\ k \in Turns => Greeted(process) /\ child[process].fits
    \/ l = "preparing" /\ k = "prepare" /\ Asks(n) /\ m = process /\ ~ApiOnly
    \/ l = "switching" /\ k \in Switches /\ n = k /\ m = 0 /\ ~ApiOnly

Sending(c, k, l, n, m) ==
    /\ process \in Alive /\ Write(c, k, process)
    /\ call[c].at \in {"out", "starting", "preparing"} /\ Starts(c, n, l, m, serial')
    /\ SendsAs(c, k, l, n, m)
    /\ overlapped' = (overlapped \/ (k \in Engaging /\ Switching))
    /\ UNCHANGED <<process, child, cancelled, outbox, delivering, running>>
    /\ Detached(c) /\ (Learns(c) \/ model' = "loading")
    /\ callbacks' \subseteq callbacks \cup (IF l = "waiting" THEN {serial'} ELSE {})
    /\ requested' \in {"api", "cpu", "gpu"} /\ (ApiOnly' <=> ApiOnly)

Attending(c) ==
    /\ call[c].at = "out" /\ process \in Procs
    /\ \E k \in Requests : Asks(k) /\ Starts(c, k, "starting", process, 0)
    /\ UNCHANGED <<process, child, cancelled, wireVars, tableVars, statusVars, historyVars>>

Launching(c, p) ==
    /\ call[c].at = "out" /\ ~Usable /\ Launch(p)
    /\ \/ \E k \in Requests : Asks(k) /\ Starts(c, k, "starting", p, 0)
       \/ \E k \in Switches : ~ApiOnly /\ Starts(c, k, "booting", 0, 0)

Choosing ==
    /\ ~ApiOnly /\ ~Usable /\ requested' \in {"cpu", "gpu"} /\ model' = "idle"
    /\ UNCHANGED <<process, child, cancelled, wireVars, tableVars, running, call, historyVars>>

LEMMA CallTypes ==
    ASSUME TypeOK, NEW c \in Callers
    PROVE  /\ call[c] \in Calls /\ call[c].cmd \in Commands /\ call[c].mine \in Procs \cup {0}
           /\ call[c].id \in Nat
BY DEF TypeOK, Calls, Ids

\* Only the current child of a local model can be written to.
LEMMA SubmitStep ==
    ASSUME IInv, NEW c \in Callers, NEW k, NEW p \in Procs, NEW m, Submit(c, k, p, m), Asks(k),
           ApiOnly => p = process /\ model # "loading", m = model \/ pending # {},
           call[c].at \in {"out", "starting", "preparing"}, Detached(c), Learns(c),
           UNCHANGED <<process, child, cancelled, outbox, delivering, requested, running>>
    PROVE  Leaving(c) \/ \E l, n, q : Sending(c, k, l, n, q)
<1> USE DEF IInv
<1>0. call[c].id \notin callbacks
    <2>1. ASSUME NEW d \in Callers, call[d].id = call[c].id, call[d].at = "waiting"  PROVE FALSE
        <3>1. call[d].id # 0
            BY <2>1 DEF CallInv, CallsDiffer, Idle
        <3>2. c = d
            BY <2>1, <3>1 DEF CallInv, CallsDiffer
        <3> QED  BY <2>1, <3>2
    <2> QED  BY <2>1 DEF CallInv, CallbacksWait
<1>1. CASE /\ ~Admitted(k, m)
           /\ Ends(c)
           /\ UNCHANGED <<serial, inbox, callbacks, overlapped>>
    BY <1>0, <1>1 DEF Leaving, wireVars
<1>2. CASE Admitted(k, m) /\ ~Writable(p) /\ WriteFails(c)
    BY <1>0, <1>2 DEF Leaving, wireVars, WriteFails
<1>3. CASE /\ Admitted(k, m) /\ Writable(p)
           /\ Write(c, k, p)
           /\ callbacks' = callbacks \cup (IF k = "stream" THEN {serial'} ELSE {})
           /\ Starts(c, k, "waiting", p, serial')
           /\ UNCHANGED overlapped
    <2>1. p = process /\ process \in Alive /\ process # 0
        BY <1>3, WireTypes DEF ChildInv, Deserted, Writable
    <2>2. ASSUME k \in Turns  PROVE Greeted(process) /\ child[process].fits
        <3>1. Greeted(process)
            <4>1. CASE ApiOnly
                BY <2>1, <4>1 DEF ChildInv, Known
            <4>2. CASE ~ApiOnly
                <5>1. k = "turn" /\ m \in Loaded
                    BY <1>3, <2>2, <4>2 DEF Asks, Turns, Admitted, NeedsModel
                <5> QED  BY <2>1, <5>1 DEF ChildInv, Known
            <4> QED  BY <4>1, <4>2
        <3>2. running = "same"
            BY <1>3 DEF Admitted, SameVersion
        <3> QED  BY <2>1, <3>1, <3>2 DEF ChildInv, Known
    <2>3. k \notin Engaging
        BY DEF Asks, Requests, Turns, Engaging, Switches
    <2>4. SendsAs(c, k, "waiting", k, process)
        BY <2>2 DEF SendsAs
    <2>5. overlapped' = (overlapped \/ (k \in Engaging /\ Switching))
        BY <1>3, <2>3 DEF TypeOK
    <2>6. requested' \in {"api", "cpu", "gpu"} /\ (ApiOnly' <=> ApiOnly)
        BY DEF TypeOK, ApiOnly
    <2>7. Sending(c, k, "waiting", k, process)
        BY <1>3, <2>1, <2>4, <2>5, <2>6 DEF Sending
    <2> QED  BY <2>7
<1> QED  BY <1>1, <1>2, <1>3 DEF Submit

LEMMA OnwardStep ==
    ASSUME IInv, NEW c \in Callers, NEW k, NEW p \in Procs, Onward(c, k, p), Asks(k),
           ApiOnly => p = process, model # "loading", call[c].at \in {"out", "starting"}
    PROVE  Leaving(c) \/ \E j, l, n, q : Sending(c, j, l, n, q)
<1> USE DEF IInv
<1>1. UNCHANGED <<process, child, cancelled, outbox, delivering, pending, expired, model,
                  requested, running, forgotten>>
    BY DEF Onward, statusVars
<1>2. call[c].id = 0
    BY DEF CallInv, CallsDiffer, Idle
<1>3. Detached(c)
    <2>1. \A r \in pending : r.id # 0
        BY DEF WireInv, Collected
    <2> QED  BY <1>1, <1>2, <2>1 DEF Detached, TypeOK
<1>4. Learns(c)
    BY <1>1 DEF Learns
<1>5. CASE ~Prepares(k, p) /\ Submit(c, k, p, model)
    BY <1>1, <1>3, <1>4, <1>5, SubmitStep
<1>6. CASE Prepares(k, p) /\ ~Writable(p) /\ WriteFails(c)
    <2>1. call[c].id \notin callbacks
        BY <1>2 DEF TypeOK, Ids
    <2> QED  BY <1>1, <1>3, <1>4, <1>6, <2>1 DEF Leaving, wireVars, WriteFails
<1>7. CASE /\ Prepares(k, p) /\ Writable(p)
           /\ Write(c, "prepare", p)
           /\ Starts(c, k, "preparing", p, serial')
           /\ overlapped' = (overlapped \/ Switching)
           /\ UNCHANGED callbacks
    <2>1. ~ApiOnly
        BY <1>7 DEF Prepares, NeedsModel
    <2>2. p = process /\ process \in Alive
        BY <1>7, <2>1 DEF ChildInv, Deserted, Writable
    <2>3. SendsAs(c, "prepare", "preparing", k, process)
        BY <2>1 DEF SendsAs
    <2>4. overlapped' = (overlapped \/ ("prepare" \in Engaging /\ Switching))
        BY <1>7 DEF Engaging
    <2>5. requested' \in {"api", "cpu", "gpu"} /\ (ApiOnly' <=> ApiOnly)
        BY <1>1 DEF TypeOK, ApiOnly
    <2>6. Sending(c, "prepare", "preparing", k, process)
        BY <1>1, <1>3, <1>4, <1>7, <2>2, <2>3, <2>4, <2>5 DEF Sending
    <2> QED  BY <2>6
<1> QED  BY <1>5, <1>6, <1>7 DEF Onward, Prepare

\* The reply that a caller takes is the only one under its id.
LEMMA TakenReply ==
    ASSUME IInv, NEW c \in Callers, NEW r \in ReplyFor(c)
    PROVE  /\ r \in pending /\ r \in Replies /\ Final(r) /\ r.id = call[c].id /\ r.id # 0
           /\ r.owner = c /\ r.cmd = Sent(c)
           /\ call[c].at \in {"preparing", "waiting"} => r.by = call[c].mine
           /\ \A s \in pending \ {r} : s.id # call[c].id
           /\ \A p \in Procs : ~Has(p, call[c].id)
<1>1. r \in pending /\ r.id = call[c].id /\ r \in Replies
    BY DEF ReplyFor, IInv, TypeOK
<1>2. Final(r) /\ r.id # 0 /\ \A p \in Procs : ~Has(p, r.id)
    BY <1>1 DEF IInv, WireInv, Collected
<1>3. Belongs(r, c, r.by)
    BY <1>1, <1>2 DEF IInv, CallInv, Owned
<1>4. \A s \in pending \ {r} : s.id # r.id
    BY <1>1 DEF IInv, WireInv, OneReply
<1> QED  BY <1>1, <1>2, <1>3, <1>4 DEF Belongs

LEMMA CallStep ==
    ASSUME IInv, NEW c \in Callers, NEW k \in Requests, Call(c, k)
    PROVE  \/ Leaving(c) \/ \E j, l, n, q : Sending(c, j, l, n, q)
           \/ Attending(c) \/ \E p \in Procs : Launching(c, p)
           \/ ~Usable /\ LaunchRaises
<1>1. Asks(k) /\ call[c].at = "out"
    BY DEF Call, Asks, Turns, Requests
<1>2. CASE ~Usable
    BY <1>1, <1>2 DEF Call, Launching
<1>3. CASE Usable /\ model = "loading"
    BY <1>1, <1>3 DEF Call, Attending, Usable, Alive
<1>4. CASE Usable /\ model # "loading"
    BY <1>1, <1>4, OnwardStep DEF Call, Usable, Alive
<1> QED  BY <1>2, <1>3, <1>4

\* Caller c returns from a wait that asks for nothing.
LEMMA PlainLeave ==
    ASSUME IInv, NEW c \in Callers, Leaves(c),
           UNCHANGED <<model, pending, expired, callbacks, forgotten>>, call[c].at \in Idle
    PROVE  Leaving(c)
<1>1. call[c].id = 0
    BY DEF IInv, CallInv, CallsDiffer
<1>2. (\A r \in pending : r.id # 0) /\ 0 \notin callbacks
    BY DEF IInv, WireInv, Collected, TypeOK, Ids
<1> QED  BY <1>1, <1>2 DEF Leaves, Leaving, Detached, Learns, IInv, TypeOK, Idle

LEMMA ProceedStep ==
    ASSUME IInv, NEW c \in Callers, Proceed(c) \/ StartupTimeout(c)
    PROVE  Leaving(c) \/ \E j, l, n, q : Sending(c, j, l, n, q)
<1>1. call[c].at = "starting" /\ Asks(call[c].cmd)
    BY DEF Proceed, StartupTimeout, IInv, CallInv, CallsDiffer, Asks
<1>2. CASE Leaves(c) /\ UNCHANGED <<model, pending, expired, callbacks, forgotten>>
    BY <1>1, <1>2, PlainLeave DEF Idle
<1>3. CASE model # "loading" /\ ~Replaced(c) /\ Onward(c, call[c].cmd, call[c].mine)
    <2>1. call[c].mine \in Procs
        BY <1>1 DEF IInv, CallInv, CallsDiffer
    <2> QED  BY <1>1, <1>3, <2>1, OnwardStep DEF Replaced
<1> QED  BY <1>2, <1>3 DEF Proceed, StartupTimeout

LEMMA PreparedStep ==
    ASSUME IInv, NEW c \in Callers, Prepared(c)
    PROVE  Leaving(c) \/ \E j, l, n, q : Sending(c, j, l, n, q)
<1>1. PICK r \in ReplyFor(c) : pending' = pending \ {r} /\ model' = r.status
                               /\ Submit(c, call[c].cmd, call[c].mine, r.status)
    BY DEF Prepared
<1>2. /\ call[c].at = "preparing"
      /\ UNCHANGED <<process, child, cancelled, outbox, delivering, expired, requested, running,
                     forgotten>>
    BY DEF Prepared
<1>3. Asks(call[c].cmd) /\ ~ApiOnly
    BY <1>2 DEF IInv, CallInv, CallsDiffer, Asks
<1>4. r \in pending /\ \A s \in pending \ {r} : s.id # call[c].id
    BY TakenReply
<1>5. Detached(c)
    BY <1>1, <1>2, <1>4 DEF Detached, IInv, TypeOK
<1>6. Learns(c)
    BY <1>1, <1>2, <1>3 DEF Learns
<1>7. call[c].mine \in Procs
    BY <1>2 DEF IInv, CallInv, CallsDiffer
<1> QED  BY <1>1, <1>2, <1>3, <1>4, <1>5, <1>6, <1>7, SubmitStep

LEMMA NoCallback ==
    ASSUME IInv, NEW c \in Callers, call[c].at # "waiting"  PROVE call[c].id \notin callbacks
<1>1. ASSUME NEW d \in Callers, call[d].id = call[c].id, call[d].at = "waiting"  PROVE FALSE
    <2>1. call[d].id # 0
        BY <1>1 DEF IInv, CallInv, CallsDiffer, Idle
    <2>2. c = d
        BY <1>1, <2>1 DEF IInv, CallInv, CallsDiffer
    <2> QED  BY <1>1, <2>2
<1> QED  BY <1>1 DEF IInv, CallInv, CallbacksWait

LEMMA ReturnStep ==
    ASSUME IInv, NEW c \in Callers,
           \/ PrepareLost(c) \/ PrepareTimeout(c) \/ Answered(c) \/ TurnLost(c) \/ TurnTimeout(c)
           \/ Booted(c) \/ BootTimeout(c) \/ Switched(c)
           \/ SwitchLost(c) \/ SwitchRaises(c) \/ SwitchTimeout(c)
    PROVE  Leaving(c)
<1>0. expired \subseteq Ids /\ forgotten \subseteq Ids /\ call[c].id \in Nat
    BY CallTypes DEF IInv, TypeOK
<1>1. CASE PrepareFails(c)
    <2>1. ~ApiOnly /\ call[c].at = "preparing"
        BY <1>1 DEF PrepareFails, IInv, CallInv, CallsDiffer
    <2> QED  BY <1>0, <1>1, <2>1, NoCallback
            DEF PrepareFails, Leaves, Leaving, Detached, Learns, ReplyFor
<1>2. CASE Answered(c)
    <2>1. PICK r \in ReplyFor(c) : pending' = pending \ {r}
        BY <1>2 DEF Answered
    <2>2. Detached(c)
        BY <1>0, <1>2, <2>1, TakenReply DEF Answered, Detached
    <2>3. \A p \in Procs : ~Has(p, call[c].id)
        BY <2>1, TakenReply
    <2> QED  BY <1>2, <2>2, <2>3 DEF Answered, Leaves, Leaving, Learns
<1>3. CASE TurnFails(c)
    <2>1. call[c].id \in Ids
        BY <1>0, <1>3 DEF TurnFails, IInv, CallInv, CallsDiffer, Idle, Ids
    <2>2. /\ expired' \subseteq Ids /\ forgotten' \subseteq Ids /\ forgotten \subseteq forgotten'
          /\ expired \cup forgotten \cup {call[c].id} \subseteq expired' \cup forgotten'
        BY <1>0, <1>3, <2>1 DEF TurnFails, Expire
    <2>3. Detached(c)
        BY <1>3, <2>2 DEF TurnFails, Detached, ReplyFor
    <2> QED  BY <1>3, <2>2, <2>3 DEF TurnFails, Leaves, Leaving, Learns
<1>4. CASE Booted(c) \/ BootTimeout(c)
    BY <1>4, PlainLeave DEF Booted, BootTimeout, Idle
<1>5. CASE Switched(c)
    <2>1. PICK r \in ReplyFor(c) : pending' = pending \ {r}
                                   /\ model' = IF r.ok THEN r.status ELSE "error"
        BY <1>5 DEF Switched
    <2>2. Detached(c)
        BY <1>0, <1>5, <2>1, TakenReply DEF Switched, Detached
    <2>3. ~ApiOnly /\ call[c].at = "switching"
        BY <1>5 DEF Switched, IInv, CallInv, CallsDiffer
    <2>4. Learns(c)
        BY <2>1, <2>3 DEF Learns
    <2> QED  BY <1>5, <2>2, <2>3, <2>4, NoCallback DEF Switched, Leaves, Leaving
<1>6. CASE \E state \in {"error", model} : SwitchFails(c, state)
    <2>1. ~ApiOnly /\ call[c].at = "switching"
        BY <1>6 DEF SwitchFails, IInv, CallInv, CallsDiffer
    <2> QED  BY <1>0, <1>6, <2>1, NoCallback
            DEF SwitchFails, Leaves, Leaving, Detached, Learns, ReplyFor
<1> QED  BY <1>1, <1>2, <1>3, <1>4, <1>5, <1>6
        DEF PrepareLost, PrepareTimeout, TurnLost, TurnTimeout, SwitchLost, SwitchRaises,
            SwitchTimeout

LEMMA SwitchStep ==
    ASSUME IInv, NEW c \in Callers, NEW k \in Switches, Switch(c, k)
    PROVE  \/ \E j, l, n, q : Sending(c, j, l, n, q)
           \/ \E p \in Procs : Launching(c, p)
           \/ ~Usable /\ (LaunchRaises \/ Choosing)
<1> USE DEF IInv
<1>1. ~ApiOnly /\ call[c].at = "out" /\ k \in {"cpu", "gpu", "dir"}
    BY DEF Switch, Switches
<1>2. CASE ~Usable /\ k = "dir"
    BY <1>1, <1>2 DEF Switch, Launching
<1>3. CASE ~Usable /\ k # "dir"
    BY <1>1, <1>3 DEF Switch, Choosing
<1>4. CASE Usable
    <2>1. /\ requested' = IF k = "dir" THEN requested ELSE k
          /\ model' = "loading" /\ Write(c, k, process) /\ Starts(c, k, "switching", 0, serial')
          /\ overlapped' = (overlapped \/ Switching)
          /\ UNCHANGED <<process, child, cancelled, outbox, delivering, pending, expired,
                         callbacks, running, forgotten>>
        BY <1>4 DEF Switch
    <2>2. call[c].id = 0
        BY <1>1 DEF CallInv, CallsDiffer, Idle
    <2>3. Detached(c)
        <3>1. \A r \in pending : r.id # 0
            BY DEF WireInv, Collected
        <3> QED  BY <2>1, <2>2, <3>1 DEF Detached, TypeOK
    <2>4. requested' \in {"api", "cpu", "gpu"} /\ (ApiOnly' <=> ApiOnly)
        BY <1>1, <2>1 DEF ApiOnly, TypeOK
    <2>5. SendsAs(c, k, "switching", k, 0)
        BY <1>1 DEF SendsAs
    <2>6. overlapped' = (overlapped \/ (k \in Engaging /\ Switching))
        BY <2>1 DEF Engaging
    <2>7. Sending(c, k, "switching", k, 0)
        BY <1>1, <1>4, <2>1, <2>3, <2>4, <2>5, <2>6 DEF Sending, Usable
    <2> QED  BY <2>7
<1> QED  BY <1>2, <1>3, <1>4

\* What a step of a caller comes to.
CallerKinds(c) ==
    \/ Leaving(c)
    \/ \E k, l, n, m : Sending(c, k, l, n, m)
    \/ Attending(c)
    \/ \E p \in Procs : Launching(c, p)
    \/ ~Usable /\ LaunchRaises
    \/ Choosing

LEMMA CallerSteps ==
    ASSUME IInv, NEW c \in Callers, Begins(c) \/ Wakes(c) \/ TimesOut(c)
    PROVE  CallerKinds(c)
BY CallStep, SwitchStep, ProceedStep, PreparedStep, ReturnStep
   DEF Begins, Wakes, TimesOut, CallerKinds

LEMMA SendingTypes ==
    ASSUME IInv, NEW c \in Callers, NEW k, NEW l, NEW n, NEW m, Sending(c, k, l, n, m)
    PROVE  /\ k \in Commands /\ n \in Commands /\ m \in Procs \cup {0}
           /\ l \in {"waiting", "preparing", "switching"} /\ process \in Procs
           /\ serial' = serial + 1 /\ serial \in Nat /\ serial' \in Ids
           /\ ApiOnly => k \notin Engaging
           /\ [at |-> l, cmd |-> n, mine |-> m, id |-> serial'] \in Calls
<1>1. process \in Procs /\ serial' = serial + 1 /\ serial \in Nat /\ serial' \in Ids
    BY DEF Sending, Alive, Write, IInv, TypeOK, Ids
<1>2. /\ k \in Commands /\ n \in Commands /\ m \in Procs \cup {0}
      /\ l \in {"waiting", "preparing", "switching"} /\ (ApiOnly => k \notin Engaging)
    BY <1>1 DEF Sending, SendsAs, Asks, Commands, Requests, Turns, Switches, Engaging
<1> QED  BY <1>1, <1>2 DEF Calls

-----------------------------------------------------------------------------
(* Types, and ids, in every step *)

LEMMA LaunchEffect ==
    ASSUME TypeOK, NEW p \in Procs, Launch(p)
    PROVE  /\ child[p].state = "none" /\ process' = p /\ child' \in [Procs -> Children]
           /\ child'[p].state = "starting" /\ child'[p].fits
           /\ \A q \in Procs \ {p} : child'[q] = child[q]
           /\ pending' = {} /\ expired' = {} /\ callbacks' = {} /\ forgotten' = {}
           /\ model' = "loading" /\ overlapped' = FALSE
           /\ UNCHANGED <<cancelled, wireVars, serial, requested, running>>
<1> DEFINE d == [NoChild EXCEPT !.state = "starting", !.stdin = TRUE, !.wants = requested]
<1>1. d \in Children /\ d.state = "starting" /\ d.fits
    BY DEF NoChild, Children, TypeOK
<1>2. child' = [child EXCEPT ![p] = d] /\ child \in [Procs -> Children]
    BY DEF Launch, TypeOK
<1> HIDE DEF d
<1>3. child' \in [Procs -> Children] /\ child'[p] = d /\ \A q \in Procs \ {p} : child'[q] = child[q]
    BY <1>1, <1>2
<1> QED  BY <1>1, <1>3 DEF Launch, FreshTable

LEMMA NoCallTyped == NoCall \in Calls /\ NoCall.at = "out" /\ NoCall.id = 0
BY DEF NoCall, Calls, Commands, Requests, Turns

LEMMA LearnedTyped ==
    ASSUME IInv, NEW c \in Callers, Learns(c)
    PROVE  model' \in Loaded \cup {"idle", "loading", "missing", "error"}
<1>1. ASSUME NEW r \in ReplyFor(c), call[c].at \in {"preparing", "switching"}
      PROVE  r.status \in Loaded \cup {"missing"}
    <2>1. r \in pending /\ r \in Replies /\ Final(r) /\ r.cmd = Sent(c)
        BY TakenReply
    <2>2. r.cmd \in Engaging
        BY <1>1, <2>1 DEF Sent, IInv, CallInv, CallsDiffer, Engaging
    <2>3. r.status # "none"
        BY <2>1, <2>2 DEF IInv, WireInv, RepliesProper, Proper
    <2> QED  BY <2>1, <2>3 DEF Replies
<1> QED  BY <1>1 DEF Learns, IInv, TypeOK

LEMMA TypeByCaller ==
    ASSUME IInv, NEW c \in Callers, CallerKinds(c)
    PROVE  TypeOK'
<1> USE DEF IInv
<1>0. call \in [Callers -> Calls] /\ serial \in Nat
    BY DEF TypeOK, Ids
<1>1. CASE Leaving(c)
    <2>1. call' \in [Callers -> Calls]
        BY <1>0, <1>1, NoCallTyped DEF Leaving, Ends
    <2>2. model' \in Loaded \cup {"idle", "loading", "missing", "error"}
        BY <1>1, LearnedTyped DEF Leaving
    <2>3. serial' \in Ids \cup {0}
        BY <1>0, <1>1 DEF Leaving, Ids
    <2>4. pending' \subseteq Replies /\ expired' \subseteq Ids /\ forgotten' \subseteq Ids
          /\ callbacks' \subseteq Ids
        BY <1>1 DEF Leaving, Detached, TypeOK
    <2> QED  BY <1>1, <2>1, <2>2, <2>3, <2>4 DEF Leaving, TypeOK, wireVars
<1>2. ASSUME NEW k, NEW l, NEW n, NEW m, Sending(c, k, l, n, m)
      PROVE  TypeOK'
    <2>1. /\ k \in Commands /\ process \in Procs /\ serial' \in Ids
          /\ [at |-> l, cmd |-> n, mine |-> m, id |-> serial'] \in Calls
        BY <1>2, SendingTypes
    <2>2. call' \in [Callers -> Calls]
        BY <1>0, <1>2, <2>1 DEF Sending, Starts
    <2>3. inbox' \in [Procs -> Seq(Lines)]
        BY <1>2, <2>1, WriteEffect DEF Sending, Sends
    <2>4. model' \in Loaded \cup {"idle", "loading", "missing", "error"}
        BY <1>2, LearnedTyped DEF Sending
    <2>5. pending' \subseteq Replies /\ expired' \subseteq Ids /\ forgotten' \subseteq Ids
          /\ callbacks' \subseteq Ids
        BY <1>2, <2>1 DEF Sending, Detached, TypeOK
    <2>6. overlapped' \in BOOLEAN
        BY <1>2 DEF Sending, TypeOK
    <2> QED  BY <1>2, <2>1, <2>2, <2>3, <2>4, <2>5, <2>6 DEF Sending, TypeOK
<1>3. CASE Attending(c)
    <2>1. PICK k \in Requests : Starts(c, k, "starting", process, 0)
        BY <1>3 DEF Attending
    <2>2. [at |-> "starting", cmd |-> k, mine |-> process, id |-> 0] \in Calls
        BY <1>3 DEF Attending, Calls, Commands
    <2>3. call' \in [Callers -> Calls]
        BY <1>0, <2>1, <2>2 DEF Starts
    <2> QED  BY <1>3, <2>3
            DEF Attending, TypeOK, wireVars, tableVars, statusVars, historyVars
<1>4. ASSUME NEW p \in Procs, Launching(c, p)  PROVE TypeOK'
    <2>1. PICK k \in Commands, l \in {"starting", "booting"}, m \in {0, p} : Starts(c, k, l, m, 0)
        BY <1>4 DEF Launching, Commands
    <2>2. [at |-> l, cmd |-> k, mine |-> m, id |-> 0] \in Calls
        BY <2>1 DEF Calls
    <2>3. call' \in [Callers -> Calls]
        BY <1>0, <2>1, <2>2 DEF Starts
    <2>4. Launch(p)
        BY <1>4 DEF Launching
    <2> QED  BY <2>3, <2>4, LaunchEffect DEF TypeOK, wireVars
<1>5. CASE LaunchRaises
    BY <1>5 DEF LaunchRaises, FreshTable, TypeOK, wireVars
<1>6. CASE Choosing
    BY <1>6 DEF Choosing, TypeOK, wireVars, tableVars, historyVars
<1> QED  BY <1>1, <1>2, <1>3, <1>4, <1>5, <1>6 DEF CallerKinds

LEMMA TypeByChannel ==
    ASSUME IInv,
           \/ \E p \in Procs : Reader(p) \/ Boot(p) \/ Serve(p) \/ Stream(p) \/ Exit(p) \/ Die(p)
           \/ Close \/ Cancel
    PROVE  TypeOK'
<1> USE DEF IInv
<1>0. /\ child \in [Procs -> Children] /\ delivering \in [Procs -> Ids \cup {0}]
      /\ process \in Procs \cup {0} /\ cancelled \subseteq Procs
    BY DEF TypeOK
<1>1. ASSUME NEW p \in Procs, Read(p)  PROVE TypeOK'
    <2>1. PICK r \in Replies : r = outbox[p][1] /\ r = Head(outbox[p])
        BY <1>1, ReadEffect
    <2>2. (IsCurrent(p) /\ Take(p, r))
             \/ (~IsCurrent(p) /\ UNCHANGED <<model, running, delivering, pending, expired>>)
        BY <1>1, <2>1 DEF Read
    <2>3. delivering' \in [Procs -> Ids \cup {0}] /\ pending' \subseteq Replies
          /\ expired' \subseteq Ids
        BY <2>2, TakeEffect DEF TypeOK
    <2>4. Proper(r, p)
        BY <1>1, <2>1, ReadEffect DEF WireInv, RepliesProper
    <2>5. model' \in Loaded \cup {"idle", "loading", "missing", "error"}
          /\ running' \in {"none", "same", "other"}
        BY <2>2, <2>4 DEF Take, IsFinal, Reports, TypeOK, Proper, Replies
    <2>6. outbox' \in [Procs -> Seq(Replies)]
        BY <1>1, ReadEffect DEF Hears
    <2> QED  BY <1>1, <2>3, <2>5, <2>6, ReadEffect DEF TypeOK
<1>2. ASSUME NEW p \in Procs, PassOn(p)  PROVE TypeOK'
    <2>1. delivering' \in [Procs -> Ids \cup {0}]
        BY <1>0, <1>2 DEF PassOn
    <2> QED  BY <1>2, <2>1 DEF PassOn, TypeOK, tableVars, statusVars, historyVars
<1>3. ASSUME NEW p \in Procs, EndOfFile(p)  PROVE TypeOK'
    <2>1. [child[p] EXCEPT !.state = "gone"] \in Children
        BY <1>0 DEF Children
    <2>2. child' \in [Procs -> Children]
        BY <1>0, <1>3, <2>1 DEF EndOfFile
    <2> QED  BY <1>3, <2>2 DEF EndOfFile, TypeOK, wireVars, tableVars, historyVars
<1>4. ASSUME NEW p \in Procs, Boot(p)  PROVE TypeOK'
    <2>1. PICK engine \in Loaded \cup {"missing"}, same \in BOOLEAN :
            /\ child' = [child EXCEPT ![p].state = "up", ![p].engine = engine, ![p].fits = same]
            /\ Says(p, Greet(p, engine, same))
        BY <1>4, BootEffect
    <2>2. [child[p] EXCEPT !.state = "up", !.engine = engine, !.fits = same] \in Children
        BY <1>0 DEF Children
    <2>3. child' \in [Procs -> Children]
        BY <1>0, <2>1, <2>2
    <2> QED  BY <1>4, <2>1, <2>3, BootEffect DEF Says, TypeOK, tableVars, statusVars, historyVars
<1>5. ASSUME NEW p \in Procs, Serve(p)  PROVE TypeOK'
    <2>1a. PICK i \in 1..Len(inbox[p]) : \E e : Served(p, i, e)
        BY <1>5, ServeEffect
    <2>1. PICK e : Served(p, i, e)
        BY <2>1a
    <2>2. [child[p] EXCEPT !.engine = e.engine, !.wants = Wants(p, i)] \in Children
        BY <1>0, <2>1 DEF Children, Served
    <2>3. child' \in [Procs -> Children]
        BY <1>0, <2>1, <2>2 DEF Served
    <2>4. inbox' \in [Procs -> Seq(Lines)] /\ outbox' \in [Procs -> Seq(Replies)]
        BY <2>1 DEF Served, Takes, Says
    <2>5. UNCHANGED <<process, cancelled, delivering, tableVars, statusVars, call, historyVars>>
        BY <1>5, ServeEffect
    <2> QED  BY <2>3, <2>4, <2>5 DEF TypeOK, tableVars, statusVars, historyVars
<1>6. ASSUME NEW p \in Procs, Stream(p)  PROVE TypeOK'
    BY <1>6, StreamEffect DEF Says, TypeOK, tableVars, statusVars, historyVars
<1>7. ASSUME NEW p \in Procs, Stops(p)  PROVE TypeOK'
    BY <1>7, StopEffect DEF TypeOK, tableVars, statusVars, historyVars
<1>8. CASE Close
    <2>1. \A p \in Procs : [child[p] EXCEPT !.stdin = @ /\ p # process] \in Children
        BY <1>0 DEF Children
    <2>2. child' \in [Procs -> Children]
        BY <1>8, <2>1 DEF Close
    <2> QED  BY <1>8, <2>2 DEF Close, TypeOK, wireVars, tableVars, historyVars
<1>9. CASE Cancel
    BY <1>0, <1>9 DEF Cancel, DropPending, TypeOK, wireVars, historyVars
<1> QED  BY <1>1, <1>2, <1>3, <1>4, <1>5, <1>6, <1>7, <1>8, <1>9 DEF Reader, Exit, Die

\* No step makes another kind of channel.
LEMMA KindStays ==
    ASSUME IInv, NEW c \in Callers, CallerKinds(c)  PROVE ApiOnly' <=> ApiOnly
<1> USE DEF ApiOnly
<1>1. CASE Leaving(c) \/ Attending(c) \/ LaunchRaises
    BY <1>1 DEF Leaving, Attending, LaunchRaises, statusVars
<1>2. ASSUME NEW p \in Procs, Launching(c, p)  PROVE ApiOnly' <=> ApiOnly
    BY <1>2, LaunchEffect DEF Launching, IInv
<1>3. ASSUME NEW k, NEW l, NEW n, NEW m, Sending(c, k, l, n, m)  PROVE ApiOnly' <=> ApiOnly
    BY <1>3 DEF Sending
<1>4. CASE Choosing
    BY <1>4 DEF Choosing
<1> QED  BY <1>1, <1>2, <1>3, <1>4 DEF CallerKinds

LEMMA WireByCaller ==
    ASSUME IInv, NEW c \in Callers, CallerKinds(c)
    PROVE  WireInv'
<1> USE DEF IInv
<1>0. (ApiOnly' <=> ApiOnly) /\ serial \in Nat
    BY KindStays DEF TypeOK, Ids
<1>1. CASE Leaving(c)
    <2>1. Quiet
        BY <1>1 DEF Leaving, Quiet, Detached
    <2> QED  BY <1>0, <2>1, WireQuiet
<1>2. ASSUME NEW k, NEW l, NEW n, NEW m, Sending(c, k, l, n, m)
      PROVE  WireInv'
    <2>1. k \in Commands /\ process \in Procs /\ (ApiOnly => k \notin Engaging)
        BY <1>2, SendingTypes
    <2> QED  BY <1>0, <1>2, <2>1, WireSend DEF Sending, Detached
<1>3. CASE \/ Attending(c) \/ Choosing \/ LaunchRaises
           \/ \E p \in Procs : Launching(c, p)
    <2>1. Quiet
        BY <1>3, LaunchEffect DEF Attending, Choosing, LaunchRaises, Launching, FreshTable, Quiet,
                                  tableVars
    <2> QED  BY <1>0, <2>1, WireQuiet
<1> QED  BY <1>1, <1>2, <1>3 DEF CallerKinds

LEMMA WireByChannel ==
    ASSUME IInv,
           \/ \E p \in Procs : Reader(p) \/ Boot(p) \/ Serve(p) \/ Stream(p) \/ Exit(p) \/ Die(p)
           \/ Close \/ Cancel
    PROVE  WireInv'
<1> USE DEF IInv
<1>1. ASSUME NEW p \in Procs, Read(p)  PROVE WireInv'
    BY <1>1, WireRead
<1>2. ASSUME NEW p \in Procs, PassOn(p) \/ Stops(p)  PROVE WireInv'
    BY <1>2, WireLess
<1>3. CASE Close \/ Cancel \/ \E p \in Procs : EndOfFile(p)
    <2>1. Quiet /\ (ApiOnly' <=> ApiOnly)
        BY <1>3 DEF Close, Cancel, EndOfFile, DropPending, Quiet, tableVars, ApiOnly
    <2> QED  BY <2>1, WireQuiet
<1>4. ASSUME NEW p \in Procs, Boot(p)  PROVE WireInv'
    <2>1. PICK engine \in Loaded \cup {"missing"}, same \in BOOLEAN :
            Says(p, Greet(p, engine, same)) /\ Greet(p, engine, same) \in Replies
        BY <1>4, BootEffect
    <2>2. Proper(Greet(p, engine, same), p) /\ ~Final(Greet(p, engine, same))
          /\ Greet(p, engine, same).id = 0
        BY <2>1 DEF Proper, Greet, Final, Loaded
    <2>3. UNCHANGED <<inbox, delivering, serial, pending, requested>>
        BY <1>4, BootEffect DEF tableVars, statusVars
    <2> QED  BY <2>1, <2>2, <2>3, WireSay DEF ApiOnly
<1>5. ASSUME NEW p \in Procs, Serve(p)  PROVE WireInv'
    <2>1a. PICK i \in 1..Len(inbox[p]) : \E e : Served(p, i, e)
        BY <1>5, ServeEffect
    <2>1. PICK e : Served(p, i, e)
        BY <2>1a
    <2>2. UNCHANGED <<delivering, serial, pending, requested>>
        BY <1>5, ServeEffect DEF tableVars, statusVars
    <2> QED  BY <2>1, <2>2, WireServe DEF ApiOnly
<1>6. ASSUME NEW p \in Procs, Stream(p)  PROVE WireInv'
    <2>1. PICK i \in 1..Len(inbox[p]) :
            inbox[p][i].cmd = "stream" /\ Says(p, Part(p, i)) /\ Part(p, i) \in Replies
        BY <1>6, StreamEffect
    <2>2. Proper(Part(p, i), p) /\ ~Final(Part(p, i)) /\ Part(p, i).id = inbox[p][i].id
        <3>1. inbox[p][i].id # 0  BY WireTypes DEF Lines, Ids
        <3> QED  BY <3>1 DEF Proper, Part, Final
    <2>3. UNCHANGED <<inbox, delivering, serial, pending, requested>>
        BY <1>6, StreamEffect DEF tableVars, statusVars
    <2> QED  BY <2>1, <2>2, <2>3, WireSay DEF ApiOnly
<1> QED  BY <1>1, <1>2, <1>3, <1>4, <1>5, <1>6 DEF Reader, Exit, Die

-----------------------------------------------------------------------------
(* What a caller finds is its own *)

\* The callers other than c, and c itself, after a step of c.
LEMMA CallsAfter ==
    ASSUME IInv, NEW c \in Callers, NEW x \in Calls, call' = [call EXCEPT ![c] = x]
    PROVE  call'[c] = x /\ \A d \in Callers \ {c} : call'[d] = call[d]
BY DEF IInv, TypeOK

LEMMA DifferByCaller ==
    ASSUME IInv, NEW c \in Callers, CallerKinds(c)
    PROVE  CallsDiffer'
<1> USE DEF IInv, CallInv
<1>0. (ApiOnly' <=> ApiOnly) /\ serial \in Nat
    BY KindStays DEF TypeOK, Ids
<1> DEFINE Ok(x, n) ==
        /\ x.id <= n
        /\ x.id = 0 <=> x.at \in Idle
        /\ x.at \in {"preparing", "switching", "booting"} => ~ApiOnly
        /\ x.at = "switching" => x.cmd \in Switches
        /\ x.at \in {"starting", "preparing", "waiting"} =>
              /\ x.cmd \in Requests /\ (~ApiOnly => x.cmd # "stream")
              /\ x.mine \in Procs
<1>1. ASSUME NEW x \in Calls, call' = [call EXCEPT ![c] = x], Ok(x, serial'),
             serial' \in {serial, serial + 1},
             x.id # 0 => x.id = serial + 1
      PROVE  CallsDiffer'
    <2>1. call'[c] = x /\ \A d \in Callers \ {c} : call'[d] = call[d]
        BY <1>1, CallsAfter
    <2>2. \A d \in Callers : call[d].id \in Nat /\ call[d].id <= serial
        BY CallTypes DEF CallsDiffer
    <2>3. ASSUME NEW d \in Callers
          PROVE  Ok(call'[d], serial')
        <3>1. CASE d = c  BY <1>1, <2>1, <3>1
        <3>2. CASE d # c
            <4>1. Ok(call[d], serial)  BY DEF CallsDiffer
            <4> QED  BY <1>0, <1>1, <2>1, <2>2, <3>2, <4>1
        <3> QED  BY <3>1, <3>2
    <2>4. ASSUME NEW d \in Callers, NEW f \in Callers, call'[d].id = call'[f].id, call'[d].id # 0
          PROVE  d = f
        <3>1. CASE d # c /\ f # c  BY <2>1, <2>4, <3>1 DEF CallsDiffer
        <3>2. CASE d = c /\ f # c  BY <1>0, <1>1, <2>1, <2>2, <2>4, <3>2
        <3>3. CASE d # c /\ f = c  BY <1>0, <1>1, <2>1, <2>2, <2>4, <3>3
        <3> QED  BY <3>1, <3>2, <3>3
    <2> QED  BY <1>0, <2>3, <2>4 DEF CallsDiffer
<1>2. CASE Leaving(c)
    <2>1. serial' \in {serial, serial + 1} /\ call' = [call EXCEPT ![c] = NoCall]
        BY <1>2 DEF Leaving, Ends
    <2>2. NoCall \in Calls /\ Ok(NoCall, serial') /\ NoCall.id = 0
        BY <1>0, <2>1, NoCallTyped DEF Idle
    <2> QED  BY <1>1, <2>1, <2>2
<1>3. ASSUME NEW k, NEW l, NEW n, NEW m, Sending(c, k, l, n, m)
      PROVE  CallsDiffer'
    <2> DEFINE x == [at |-> l, cmd |-> n, mine |-> m, id |-> serial']
    <2>1. x \in Calls /\ serial' = serial + 1 /\ l \in {"waiting", "preparing", "switching"}
          /\ process \in Procs
        BY <1>3, SendingTypes
    <2>2. Ok(x, serial')
        BY <1>0, <1>3, <2>1 DEF Sending, SendsAs, Asks, Idle
    <2>3. call' = [call EXCEPT ![c] = x] /\ x.id = serial + 1
        BY <1>3, <2>1 DEF Sending, Starts
    <2> HIDE DEF x
    <2> QED  BY <1>1, <2>1, <2>2, <2>3
<1>4. CASE Attending(c)
    <2>1. PICK k \in Requests : Asks(k) /\ Starts(c, k, "starting", process, 0)
        BY <1>4 DEF Attending
    <2> DEFINE x == [at |-> "starting", cmd |-> k, mine |-> process, id |-> 0]
    <2>2. x \in Calls /\ Ok(x, serial') /\ serial' = serial /\ x.id = 0
        BY <1>0, <1>4, <2>1 DEF Attending, Calls, Commands, Asks, Idle, tableVars
    <2>3. call' = [call EXCEPT ![c] = x]
        BY <2>1 DEF Starts
    <2> HIDE DEF x
    <2> QED  BY <1>1, <2>2, <2>3
<1>5. ASSUME NEW p \in Procs, Launching(c, p)  PROVE CallsDiffer'
    <2>1. PICK k \in Commands, l \in {"starting", "booting"}, m \in {0, p} :
            /\ Starts(c, k, l, m, 0)
            /\ l = "starting" => Asks(k) /\ m = p
            /\ l = "booting" => ~ApiOnly
        BY <1>5 DEF Launching, Commands
    <2> DEFINE x == [at |-> l, cmd |-> k, mine |-> m, id |-> 0]
    <2>2. serial' = serial
        BY <1>5, LaunchEffect DEF Launching
    <2>3. x \in Calls /\ Ok(x, serial') /\ x.id = 0
        BY <1>0, <2>1, <2>2 DEF Calls, Asks, Idle
    <2>4. call' = [call EXCEPT ![c] = x]
        BY <2>1 DEF Starts
    <2> HIDE DEF x
    <2> QED  BY <1>1, <2>2, <2>3, <2>4
<1>6. CASE LaunchRaises \/ Choosing
    <2>1. UNCHANGED <<call, serial>>
        BY <1>6 DEF LaunchRaises, Choosing, FreshTable, tableVars
    <2>2. \A d \in Callers : Ok(call'[d], serial')
        BY <2>1 DEF CallsDiffer
    <2> QED  BY <1>0, <2>1, <2>2 DEF CallsDiffer
<1> QED  BY <1>2, <1>3, <1>4, <1>5, <1>6 DEF CallerKinds

\* What is on the wires of child p, or in the table, carries the id of a caller only if
\* it is the caller's own.
LEMMA Ownership ==
    ASSUME IInv, NEW p \in Procs, NEW m,
           \/ \E i \in 1..Len(inbox[p]) : m = inbox[p][i]
           \/ \E i \in 1..Len(outbox[p]) : m = outbox[p][i]
    PROVE  /\ \A c \in Callers : call[c].id # 0 => Belongs(m, c, p)
           /\ m.id \in Nat /\ m.id <= serial
           /\ m.id # 0 => Has(p, m.id)
<1>1. m.id \in Nat
    BY WireTypes DEF IInv, Lines, Replies, Ids
<1>2. m.id # 0 => Has(p, m.id)
    BY DEF Has
<1>3. m.id <= serial
    BY <1>1, <1>2, WireTypes DEF IInv, WireInv, Counted, Ids
<1> QED  BY <1>1, <1>2, <1>3 DEF IInv, CallInv, Owned

\* The ids that are wanted stay wanted, when caller c takes another id or none.
LEMMA StillWanted ==
    ASSUME IInv, NEW c \in Callers, process \in Procs, NEW m, m.cmd \in Requests,
           \/ \E i \in 1..Len(inbox[process]) : m = inbox[process][i]
           \/ \E i \in 1..Len(outbox[process]) : m = outbox[process][i],
           m.id # 0, Wanted(m.id), forgotten \subseteq forgotten',
           expired \cup forgotten \subseteq expired' \cup forgotten',
           \A d \in Callers \ {c} : call'[d] = call[d],
           call[c].at = "waiting" =>
               call[c].id \in expired' \cup forgotten' \/ \A p \in Procs : ~Has(p, call[c].id)
    PROVE  Wanted(m.id)'
<1> USE DEF IInv
<1>1. Has(process, m.id) /\ (call[c].id # 0 => Belongs(m, c, process))
    BY Ownership
<1>2. CASE m.id = call[c].id
    <2>1. m.cmd = Sent(c) /\ call[c].at \notin Idle
        BY <1>1, <1>2 DEF Belongs, CallInv, CallsDiffer
    <2>2. call[c].at = "waiting"
        BY <2>1, CallTypes DEF Sent, Idle, Requests, Turns, Switches, CallInv, CallsDiffer, Calls
    <2> QED  BY <1>1, <1>2, <2>2 DEF Wanted
<1>3. CASE m.id # call[c].id
    BY <1>3 DEF Wanted
<1> QED  BY <1>2, <1>3

LEMMA CallLeave ==
    ASSUME IInv, NEW c \in Callers, Leaving(c)
    PROVE  Owned' /\ NoOrphans' /\ Expected' /\ CallbacksWait'
<1> USE DEF IInv, CallInv
<1>1. /\ call'[c] = NoCall /\ \A d \in Callers \ {c} : call'[d] = call[d]
      /\ NoCall.id = 0
    BY CallsAfter, NoCallTyped DEF Leaving, Ends
<1>2. /\ UNCHANGED <<process, inbox, outbox>> /\ Detached(c)
      /\ callbacks' \subseteq callbacks \ {call[c].id}
      /\ call[c].at = "waiting" =>
           call[c].id \in expired' \cup forgotten' \/ \A p \in Procs : ~Has(p, call[c].id)
    BY DEF Leaving, wireVars
<1>3. Owned'
    BY <1>1, <1>2 DEF Owned, Belongs, Sent, Detached
<1>4. NoOrphans'
    BY <1>1, <1>2 DEF NoOrphans, Detached
<1>5. Expected'
    <2> SUFFICES ASSUME process # 0  PROVE Expected'
        BY <1>2 DEF Expected
    <2>0. process \in Procs
        BY DEF TypeOK
    <2>1. ASSUME NEW i \in 1..Len(inbox[process]), inbox[process][i].cmd \in Requests
          PROVE  Wanted(inbox[process][i].id)'
        <3>1. PICK m : m = inbox[process][i]  OBVIOUS
        <3>2. m.id # 0  BY <2>0, <3>1, WireTypes DEF Lines, Ids
        <3>3. Wanted(m.id)'
            BY <1>1, <1>2, <2>0, <2>1, <3>1, <3>2, StillWanted DEF Expected, Detached
        <3> QED  BY <1>2, <3>1, <3>3
    <2>2. ASSUME NEW i \in 1..Len(outbox[process]), outbox[process][i].cmd \in Requests,
                 Final(outbox[process][i])
          PROVE  Wanted(outbox[process][i].id)'
        <3>1. PICK m : m = outbox[process][i]  OBVIOUS
        <3>2. m.id # 0  BY <2>0, <2>2, <3>1 DEF WireInv, RepliesProper, Proper, Final
        <3>3. Wanted(m.id)'
            BY <1>1, <1>2, <2>0, <2>2, <3>1, <3>2, StillWanted DEF Expected, Detached
        <3> QED  BY <1>2, <3>1, <3>3
    <2> QED  BY <1>2, <2>1, <2>2 DEF Expected, Final
<1>6. CallbacksWait'
    BY <1>1, <1>2 DEF CallbacksWait
<1> QED  BY <1>3, <1>4, <1>5, <1>6

LEMMA CallSend ==
    ASSUME IInv, NEW c \in Callers, NEW k, NEW l, NEW n, NEW m, Sending(c, k, l, n, m)
    PROVE  Owned' /\ NoOrphans' /\ Expected' /\ CallbacksWait'
<1> USE DEF IInv, CallInv
<1> DEFINE x == [id |-> serial + 1, owner |-> c, cmd |-> k]
           y == [at |-> l, cmd |-> n, mine |-> m, id |-> serial']
<1>1. /\ k \in Commands /\ process \in Procs /\ serial' = serial + 1 /\ serial \in Nat
      /\ l \in {"waiting", "preparing", "switching"} /\ y \in Calls
    BY SendingTypes
<1>2. /\ call'[c] = y /\ \A d \in Callers \ {c} : call'[d] = call[d]
    BY <1>1, CallsAfter DEF Sending, Starts
<1>3. Sends(process, x)
    BY <1>1, WriteEffect DEF Sending
<1>4. /\ call'[c].at = l /\ call'[c].id = serial + 1 /\ call'[c].mine = m /\ Sent(c)' = k
      /\ x.id = serial + 1 /\ x.owner = c /\ x.cmd = k
      /\ l \in {"preparing", "waiting"} => m = process
    BY <1>1, <1>2 DEF Sending, SendsAs, Sent
<1> HIDE DEF x, y
<1>5. /\ UNCHANGED <<process, outbox>> /\ Detached(c)
      /\ callbacks' \subseteq callbacks \cup (IF l = "waiting" THEN {serial'} ELSE {})
      /\ call[c].at \in {"out", "starting", "preparing"}
    BY DEF Sending
<1>6. \A q \in Procs : \A i \in 1..Len(inbox'[q]) :
          \/ i \in 1..Len(inbox[q]) /\ inbox'[q][i] = inbox[q][i]
          \/ q = process /\ inbox'[q][i] = x
    BY <1>3 DEF Sends, Grew
<1>7. \A d \in Callers : call[d].id \in Nat /\ call[d].id <= serial
    BY CallTypes DEF CallsDiffer
<1>8. Owned'
    <2>1. ASSUME NEW d \in Callers, call'[d].id # 0, NEW q \in Procs, NEW i \in 1..Len(inbox'[q])
          PROVE  Belongs(inbox[q][i], d, q)'
        <3>1. PICK z : z = inbox'[q][i]  OBVIOUS
        <3>2. CASE i \in 1..Len(inbox[q]) /\ inbox'[q][i] = inbox[q][i]
            <4>1. /\ \A f \in Callers : call[f].id # 0 => Belongs(z, f, q)
                  /\ z.id <= serial
                BY <3>1, <3>2, Ownership
            <4> QED  BY <1>1, <1>2, <1>4, <2>1, <3>1, <4>1 DEF Belongs, Sent
        <3>3. CASE q = process /\ inbox'[q][i] = x
            BY <1>1, <1>2, <1>4, <1>7, <2>1, <3>3 DEF Belongs
        <3> QED  BY <1>6, <3>2, <3>3
    <2>2. ASSUME NEW d \in Callers, call'[d].id # 0, NEW q \in Procs, NEW i \in 1..Len(outbox[q])
          PROVE  Belongs(outbox[q][i], d, q)'
        <3>1. PICK z : z = outbox[q][i]  OBVIOUS
        <3>2. /\ \A f \in Callers : call[f].id # 0 => Belongs(z, f, q)
              /\ z.id <= serial /\ z.id \in Nat
            BY <3>1, Ownership
        <3> QED  BY <1>1, <1>2, <1>4, <1>5, <2>2, <3>1, <3>2 DEF Belongs, Sent
    <2>3. ASSUME NEW d \in Callers, call'[d].id # 0, NEW r \in pending
          PROVE  Belongs(r, d, r.by)'
        <3>1. r.id \in 1..serial
            BY DEF WireInv, Collected
        <3>2. call[d].id # 0 => Belongs(r, d, r.by)
            BY DEF Owned
        <3> QED  BY <1>1, <1>2, <1>4, <2>3, <3>1, <3>2 DEF Belongs, Sent
    <2> QED  BY <1>5, <2>1, <2>2, <2>3 DEF Owned, Detached
<1>9. NoOrphans'
    BY <1>2, <1>5 DEF NoOrphans, Detached
<1>10. Expected'
    <2>1. ASSUME NEW i \in 1..Len(inbox'[process]), inbox'[process][i].cmd \in Requests
          PROVE  Wanted(inbox[process][i].id)'
        <3>1. PICK z : z = inbox'[process][i]  OBVIOUS
        <3>2. CASE i \in 1..Len(inbox[process]) /\ inbox'[process][i] = inbox[process][i]
            <4>1. z.id # 0  BY <1>1, <3>1, <3>2, WireTypes DEF Lines, Ids
            <4>2. Wanted(z.id)
                BY <1>1, <2>1, <3>1, <3>2 DEF Expected, Procs
            <4>3. Wanted(z.id)'
                BY <1>1, <1>2, <1>5, <2>1, <3>1, <3>2, <4>1, <4>2, StillWanted DEF Detached
            <4> QED  BY <1>5, <3>1, <4>3
        <3>3. CASE inbox'[process][i] = x
            BY <1>2, <1>4, <1>5, <3>3 DEF Wanted
        <3> QED  BY <1>1, <1>6, <3>2, <3>3
    <2>2. ASSUME NEW i \in 1..Len(outbox[process]), outbox[process][i].cmd \in Requests,
                 Final(outbox[process][i])
          PROVE  Wanted(outbox[process][i].id)'
        <3>1. PICK z : z = outbox[process][i]  OBVIOUS
        <3>2. z.id # 0  BY <1>1, <2>2, <3>1 DEF WireInv, RepliesProper, Proper, Final
        <3>3. Wanted(z.id)
            BY <1>1, <2>2, <3>1 DEF Expected, Procs
        <3>4. Wanted(z.id)'
            BY <1>1, <1>2, <1>5, <2>2, <3>1, <3>2, <3>3, StillWanted DEF Detached
        <3> QED  BY <1>5, <3>1, <3>4
    <2> QED  BY <1>5, <2>1, <2>2 DEF Expected, Final
<1>11. CallbacksWait'
    <2> SUFFICES ASSUME NEW id \in callbacks'
                 PROVE  \E d \in Callers : call'[d].id = id /\ call'[d].at = "waiting"
        BY DEF CallbacksWait
    <2>1. CASE id \in callbacks
        BY <1>2, <1>5, <2>1 DEF CallbacksWait
    <2>2. CASE l = "waiting" /\ id = serial'
        BY <1>1, <1>2, <1>4, <2>2
    <2> QED  BY <1>5, <2>1, <2>2
<1> QED  BY <1>8, <1>9, <1>10, <1>11

LEMMA CallByCaller ==
    ASSUME IInv, NEW c \in Callers, CallerKinds(c)
    PROVE  CallInv'
<1> USE DEF IInv, CallInv
<1>0. CallsDiffer'
    BY DifferByCaller
<1>1. ASSUME NEW x \in Calls, x.id = 0, call[c].id = 0, call' = [call EXCEPT ![c] = x],
             UNCHANGED <<inbox, outbox>>, pending' \subseteq pending, callbacks' \subseteq callbacks,
             forgotten' = forgotten \/ pending' = {}
      PROVE  Owned' /\ NoOrphans' /\ CallbacksWait'
    <2>1. call'[c] = x /\ \A d \in Callers \ {c} : call'[d] = call[d]
        BY <1>1, CallsAfter
    <2>2. Owned'
        BY <1>1, <2>1 DEF Owned, Belongs, Sent
    <2>3. NoOrphans'
        <3>1. \A r \in pending : r.id # 0
            BY DEF WireInv, Collected
        <3> QED  BY <1>1, <2>1, <3>1 DEF NoOrphans
    <2>4. CallbacksWait'
        <3>1. call[c].at # "waiting"
            BY <1>1 DEF CallsDiffer, Idle
        <3> QED  BY <1>1, <2>1, <3>1 DEF CallbacksWait
    <2> QED  BY <2>2, <2>3, <2>4
<1>2. CASE Leaving(c)
    BY <1>0, <1>2, CallLeave
<1>3. ASSUME NEW k, NEW l, NEW n, NEW m, Sending(c, k, l, n, m)  PROVE CallInv'
    BY <1>0, <1>3, CallSend
<1>4. CASE Attending(c)
    <2>1. PICK k \in Requests : Starts(c, k, "starting", process, 0)
        BY <1>4 DEF Attending
    <2> DEFINE x == [at |-> "starting", cmd |-> k, mine |-> process, id |-> 0]
    <2>2. x \in Calls /\ x.id = 0 /\ call' = [call EXCEPT ![c] = x]
        BY <1>4, <2>1 DEF Attending, Calls, Commands, Starts
    <2> HIDE DEF x
    <2>3. call[c].id = 0
        BY <1>4 DEF Attending, CallsDiffer, Idle
    <2>4. UNCHANGED <<process, inbox, outbox, pending, callbacks, forgotten, expired>>
        BY <1>4 DEF Attending, wireVars, tableVars, historyVars
    <2>5. Owned' /\ NoOrphans' /\ CallbacksWait'
        BY <1>1, <2>2, <2>3, <2>4
    <2>6. Expected'
        <3>0. \A d \in Callers \ {c} : call'[d] = call[d]
            BY <2>2, CallsAfter
        <3>1. ASSUME NEW id, id # 0, Wanted(id)  PROVE Wanted(id)'
            BY <2>3, <2>4, <3>0, <3>1 DEF Wanted
        <3>2. process \in Procs
            BY <1>4 DEF Attending
        <3>3. \A i \in 1..Len(inbox[process]) : inbox[process][i].id # 0
            BY <3>2, WireTypes DEF Lines, Ids
        <3>4. \A i \in 1..Len(outbox[process]) : Final(outbox[process][i]) => outbox[process][i].id # 0
            BY <3>2 DEF WireInv, RepliesProper, Proper, Final
        <3>5. ASSUME NEW i \in 1..Len(inbox[process]), inbox[process][i].cmd \in Requests, process # 0
              PROVE  Wanted(inbox[process][i].id)'
            <4>1. PICK z : z = inbox[process][i].id  OBVIOUS
            <4>2. Wanted(z)'  BY <3>1, <3>3, <3>5, <4>1 DEF Expected
            <4> QED  BY <2>4, <4>1, <4>2
        <3>6. ASSUME NEW i \in 1..Len(outbox[process]), outbox[process][i].cmd \in Requests,
                     Final(outbox[process][i]), process # 0
              PROVE  Wanted(outbox[process][i].id)'
            <4>1. PICK z : z = outbox[process][i].id  OBVIOUS
            <4>2. Wanted(z)'  BY <3>1, <3>4, <3>6, <4>1 DEF Expected
            <4> QED  BY <2>4, <4>1, <4>2
        <3> QED  BY <2>4, <3>5, <3>6 DEF Expected, Final
    <2> QED  BY <1>0, <2>5, <2>6
<1>5. ASSUME NEW p \in Procs, Launching(c, p)  PROVE CallInv'
    <2>1. PICK k \in Commands, l \in {"starting", "booting"}, m \in {0, p} : Starts(c, k, l, m, 0)
        BY <1>5 DEF Launching, Commands
    <2> DEFINE x == [at |-> l, cmd |-> k, mine |-> m, id |-> 0]
    <2>2. x \in Calls /\ x.id = 0 /\ call' = [call EXCEPT ![c] = x]
        BY <2>1 DEF Calls, Starts
    <2> HIDE DEF x
    <2>3. call[c].id = 0
        BY <1>5 DEF Launching, CallsDiffer, Idle
    <2>4. /\ UNCHANGED <<inbox, outbox>> /\ process' = p /\ child[p].state = "none"
          /\ pending' = {} /\ callbacks' = {}
        BY <1>5, LaunchEffect DEF Launching, wireVars
    <2>5. Owned' /\ NoOrphans' /\ CallbacksWait'
        BY <1>1, <2>2, <2>3, <2>4
    <2>6. Expected'
        <3>1. Len(inbox[p]) = 0 /\ Len(outbox[p]) = 0
            BY <2>4 DEF ChildInv, Fresh
        <3> QED  BY <2>4, <3>1 DEF Expected
    <2> QED  BY <1>0, <2>5, <2>6
<1>6. CASE LaunchRaises
    <2>1. /\ UNCHANGED <<process, inbox, outbox, call>> /\ pending' = {} /\ callbacks' = {}
          /\ forgotten' = forgotten \cup expired
        BY <1>6 DEF LaunchRaises, FreshTable, wireVars
    <2>2. Owned'
        BY <2>1 DEF Owned, Belongs, Sent
    <2>3. NoOrphans' /\ CallbacksWait'
        BY <2>1 DEF NoOrphans, CallbacksWait
    <2>4. Expected'
        BY <2>1 DEF Expected, Wanted, Final
    <2> QED  BY <1>0, <2>2, <2>3, <2>4
<1>7. CASE Choosing
    <2>1. UNCHANGED <<process, inbox, outbox, call, pending, callbacks, forgotten, expired>>
        BY <1>7 DEF Choosing, tableVars, wireVars, historyVars
    <2>2. Owned'
        BY <2>1 DEF Owned, Belongs, Sent
    <2>3. NoOrphans' /\ CallbacksWait'
        BY <2>1 DEF NoOrphans, CallbacksWait
    <2>4. Expected'
        BY <2>1 DEF Expected, Wanted, Final
    <2> QED  BY <1>0, <2>2, <2>3, <2>4
<1> QED  BY <1>2, <1>3, <1>4, <1>5, <1>6, <1>7 DEF CallerKinds

LEMMA CallRead ==
    ASSUME IInv, NEW p \in Procs, Read(p)
    PROVE  CallInv'
<1> USE DEF IInv, CallInv
<1>r. PICK r \in Replies : r = outbox[p][1] /\ r = Head(outbox[p])
    BY ReadEffect
<1>0. /\ 1 \in 1..Len(outbox[p]) /\ Hears(p)
      /\ UNCHANGED <<process, inbox, requested, serial, callbacks, call, forgotten>>
    BY ReadEffect
<1>1. /\ \/ pending' = pending
         \/ pending' = pending \cup {r} /\ Final(r) /\ p = process /\ r.id \notin expired
      /\ expired' = expired \/ (expired' = expired \ {r.id} /\ Final(r) /\ p = process)
    <2>1. (IsCurrent(p) /\ Take(p, r))
             \/ (~IsCurrent(p) /\ UNCHANGED <<model, running, delivering, pending, expired>>)
        BY <1>r DEF Read
    <2> QED  BY <2>1, TakeEffect
<1>2. \A q \in Procs : \A j \in 1..Len(outbox'[q]) : \E k \in 1..Len(outbox[q]) :
          outbox'[q][j] = outbox[q][k]
    BY <1>0 DEF Hears, Lost
<1>3. CallsDiffer'
    BY <1>0 DEF CallsDiffer, ApiOnly
<1>4. Owned'
    <2>1. r.by = p /\ \A c \in Callers : call[c].id # 0 => Belongs(r, c, p)
        BY <1>0, <1>r DEF WireInv, RepliesProper, Proper, Owned
    <2>2. ASSUME NEW c \in Callers, call[c].id # 0, NEW q \in Procs, NEW j \in 1..Len(outbox'[q])
          PROVE  Belongs(outbox[q][j], c, q)'
        <3>1. PICK k \in 1..Len(outbox[q]) : outbox'[q][j] = outbox[q][k]
            BY <1>2
        <3>2. Belongs(outbox[q][k], c, q)
            BY <2>2 DEF Owned
        <3> QED  BY <1>0, <3>1, <3>2 DEF Belongs, Sent
    <2>3. ASSUME NEW c \in Callers, call[c].id # 0, NEW s \in pending'
          PROVE  Belongs(s, c, s.by)'
        <3>1. Belongs(s, c, s.by)
            BY <1>1, <2>1, <2>3 DEF Owned
        <3> QED  BY <1>0, <3>1 DEF Belongs, Sent
    <2>4. ASSUME NEW c \in Callers, call[c].id # 0, NEW q \in Procs, NEW j \in 1..Len(inbox[q])
          PROVE  Belongs(inbox[q][j], c, q)'
        BY <1>0, <2>4 DEF Owned, Belongs, Sent
    <2> QED  BY <1>0, <2>2, <2>3, <2>4 DEF Owned
<1>5. NoOrphans'
    <2>1. ASSUME pending' = pending \cup {r}, Final(r), p = process, r.id \notin expired,
                 r.cmd \in Requests
          PROVE  r.id \in forgotten \/ \E c \in Callers : call[c].id = r.id
        BY <1>0, <1>r, <2>1, WireTypes DEF Expected, Wanted
    <2> QED  BY <1>0, <1>1, <2>1 DEF NoOrphans
<1>6. CallbacksWait'
    BY <1>0 DEF CallbacksWait
<1>7. Expected'
    <2> SUFFICES ASSUME process # 0  PROVE Expected'
        BY <1>0 DEF Expected
    <2>0. process \in Procs
        BY DEF TypeOK
    <2>1. ASSUME NEW id, Wanted(id), id # r.id \/ expired' = expired
          PROVE  Wanted(id)'
        BY <1>0, <1>1, <2>1 DEF Wanted
    <2>2. ASSUME NEW i \in 1..Len(inbox[process]), inbox[process][i].cmd \in Requests
          PROVE  Wanted(inbox[process][i].id)'
        <3>1. PICK id : id = inbox[process][i].id  OBVIOUS
        <3>2. Wanted(id)  BY <2>2, <3>1 DEF Expected
        <3>3. id # r.id \/ expired' = expired
            BY <1>0, <1>1, <1>r, <3>1 DEF WireInv, AnsweredOnce
        <3>4. Wanted(id)'  BY <2>1, <3>2, <3>3
        <3> QED  BY <1>0, <3>1, <3>4
    <2>3. ASSUME NEW j \in 1..Len(outbox'[process]), Final(outbox'[process][j]),
                 outbox'[process][j].cmd \in Requests
          PROVE  Wanted(outbox[process][j].id)'
        <3>1. PICK id : id = outbox'[process][j].id  OBVIOUS
        <3>2. PICK k \in 1..Len(outbox[process]) : outbox'[process][j] = outbox[process][k]
            BY <1>2, <2>0
        <3>3. Wanted(id)  BY <2>3, <3>1, <3>2 DEF Expected
        <3>4. ASSUME expired' # expired  PROVE id # r.id
            <4>1. ~Has(p, r.id)' /\ p = process
                BY <1>1, <1>r, <3>4, ReadOnce
            <4> QED  BY <3>1, <4>1 DEF Has
        <3>5. Wanted(id)'  BY <2>1, <3>3, <3>4
        <3> QED  BY <1>0, <3>1, <3>5
    <2> QED  BY <1>0, <2>2, <2>3 DEF Expected, Final
<1> QED  BY <1>3, <1>4, <1>5, <1>6, <1>7

\* The steps of a child, and what else leaves the callers and the table alone.
LEMMA CallSay ==
    ASSUME IInv, UNCHANGED <<process, serial, pending, expired, callbacks, call, forgotten,
                             requested>>,
           \A q \in Procs : \A j \in 1..Len(inbox'[q]) : \E k \in 1..Len(inbox[q]) :
               inbox'[q][j] = inbox[q][k],
           \A q \in Procs : \A j \in 1..Len(outbox'[q]) :
               \/ \E k \in 1..Len(outbox[q]) : outbox'[q][j] = outbox[q][k]
               \/ /\ outbox'[q][j].id = 0 /\ ~Final(outbox'[q][j])
               \/ \E k \in 1..Len(inbox[q]) :
                    /\ outbox'[q][j].id = inbox[q][k].id /\ outbox'[q][j].cmd = inbox[q][k].cmd
                    /\ outbox'[q][j].owner = inbox[q][k].owner
    PROVE  CallInv'
<1> USE DEF IInv, CallInv
<1>1. CallsDiffer' /\ NoOrphans' /\ CallbacksWait'
    BY DEF CallsDiffer, NoOrphans, CallbacksWait, ApiOnly
<1>2. Owned'
    <2>1. ASSUME NEW c \in Callers, call[c].id # 0, NEW q \in Procs, NEW j \in 1..Len(outbox'[q])
          PROVE  Belongs(outbox[q][j], c, q)'
        <3>1. CASE \E k \in 1..Len(outbox[q]) : outbox'[q][j] = outbox[q][k]
            <4>1. PICK k \in 1..Len(outbox[q]) : outbox'[q][j] = outbox[q][k]
                BY <3>1
            <4>2. Belongs(outbox[q][k], c, q)
                BY <2>1 DEF Owned
            <4> QED  BY <4>1, <4>2 DEF Belongs, Sent
        <3>2. CASE outbox'[q][j].id = 0
            BY <2>1, <3>2 DEF Belongs
        <3>3. CASE \E k \in 1..Len(inbox[q]) :
                    /\ outbox'[q][j].id = inbox[q][k].id /\ outbox'[q][j].cmd = inbox[q][k].cmd
                    /\ outbox'[q][j].owner = inbox[q][k].owner
            <4>1. PICK k \in 1..Len(inbox[q]) :
                    /\ outbox'[q][j].id = inbox[q][k].id /\ outbox'[q][j].cmd = inbox[q][k].cmd
                    /\ outbox'[q][j].owner = inbox[q][k].owner
                BY <3>3
            <4>2. Belongs(inbox[q][k], c, q)
                BY <2>1 DEF Owned
            <4> QED  BY <4>1, <4>2 DEF Belongs, Sent
        <3> QED  BY <3>1, <3>2, <3>3
    <2>2. ASSUME NEW c \in Callers, call[c].id # 0, NEW q \in Procs, NEW j \in 1..Len(inbox'[q])
          PROVE  Belongs(inbox[q][j], c, q)'
        <3>1. PICK k \in 1..Len(inbox[q]) : inbox'[q][j] = inbox[q][k]
            OBVIOUS
        <3>2. Belongs(inbox[q][k], c, q)
            BY <2>2 DEF Owned
        <3> QED  BY <3>1, <3>2 DEF Belongs, Sent
    <2>3. ASSUME NEW c \in Callers, call[c].id # 0, NEW s \in pending
          PROVE  Belongs(s, c, s.by)'
        BY <2>3 DEF Owned, Belongs, Sent
    <2> QED  BY <2>1, <2>2, <2>3 DEF Owned
<1>3. Expected'
    <2> SUFFICES ASSUME process # 0  PROVE Expected'
        BY DEF Expected
    <2>0. process \in Procs
        BY DEF TypeOK
    <2>1. ASSUME NEW id, Wanted(id)  PROVE Wanted(id)'
        BY <2>1 DEF Wanted
    <2>2. ASSUME NEW j \in 1..Len(inbox'[process]), inbox'[process][j].cmd \in Requests
          PROVE  Wanted(inbox[process][j].id)'
        <3>1. PICK id : id = inbox'[process][j].id  OBVIOUS
        <3>2. Wanted(id)  BY <2>0, <2>2, <3>1 DEF Expected
        <3>3. Wanted(id)'  BY <2>1, <3>2
        <3> QED  BY <3>1, <3>3
    <2>3. ASSUME NEW j \in 1..Len(outbox'[process]), Final(outbox'[process][j]),
                 outbox'[process][j].cmd \in Requests
          PROVE  Wanted(outbox[process][j].id)'
        <3>1. PICK id : id = outbox'[process][j].id  OBVIOUS
        <3>2. Wanted(id)  BY <2>0, <2>3, <3>1 DEF Expected
        <3>3. Wanted(id)'  BY <2>1, <3>2
        <3> QED  BY <3>1, <3>3
    <2> QED  BY <2>2, <2>3 DEF Expected, Final
<1> QED  BY <1>1, <1>2, <1>3

LEMMA CallByChannel ==
    ASSUME IInv,
           \/ \E p \in Procs : Reader(p) \/ Boot(p) \/ Serve(p) \/ Stream(p) \/ Exit(p) \/ Die(p)
           \/ Close \/ Cancel
    PROVE  CallInv'
<1> USE DEF IInv
<1>1. ASSUME NEW p \in Procs, Read(p)  PROVE CallInv'
    BY <1>1, CallRead
<1>2. ASSUME NEW p \in Procs, PassOn(p) \/ EndOfFile(p)  PROVE CallInv'
    <2>1. UNCHANGED <<process, serial, pending, expired, callbacks, call, forgotten, requested,
                      inbox, outbox>>
        BY <1>2 DEF PassOn, EndOfFile, wireVars, tableVars, statusVars, historyVars
    <2> QED  BY <2>1, CallSay
<1>3. ASSUME NEW p \in Procs, Stops(p)  PROVE CallInv'
    <2>1. /\ UNCHANGED <<process, serial, pending, expired, callbacks, call, forgotten, requested,
                         outbox>>
          /\ Len(inbox'[p]) = 0 /\ \A q \in Procs \ {p} : inbox'[q] = inbox[q]
        BY <1>3, StopEffect DEF tableVars, statusVars, historyVars
    <2> QED  BY <2>1, CallSay
<1>4. ASSUME NEW p \in Procs, Boot(p)  PROVE CallInv'
    <2>1. PICK engine \in Loaded \cup {"missing"}, same \in BOOLEAN : Says(p, Greet(p, engine, same))
        BY <1>4, BootEffect
    <2>2. UNCHANGED <<process, serial, pending, expired, callbacks, call, forgotten, requested, inbox>>
        BY <1>4, BootEffect DEF tableVars, statusVars, historyVars
    <2>3. Greet(p, engine, same).id = 0 /\ ~Final(Greet(p, engine, same))
        BY DEF Greet, Final
    <2>4. \A q \in Procs : \A j \in 1..Len(outbox'[q]) :
             \/ \E k \in 1..Len(outbox[q]) : outbox'[q][j] = outbox[q][k]
             \/ outbox'[q][j].id = 0 /\ ~Final(outbox'[q][j])
        BY <2>1, <2>3 DEF Says, Grew
    <2> QED  BY <2>2, <2>4, CallSay
<1>5. ASSUME NEW p \in Procs, Serve(p)  PROVE CallInv'
    <2>1a. PICK i \in 1..Len(inbox[p]) : \E e : Served(p, i, e)
        BY <1>5, ServeEffect
    <2>1. PICK e : Served(p, i, e)
        BY <2>1a
    <2>2. UNCHANGED <<process, serial, pending, expired, callbacks, call, forgotten, requested>>
        BY <1>5, ServeEffect DEF tableVars, statusVars, historyVars
    <2>3. \A q \in Procs : \A j \in 1..Len(inbox'[q]) : \E k \in 1..Len(inbox[q]) :
             inbox'[q][j] = inbox[q][k]
        BY <2>1 DEF Served, Takes, Lost
    <2> DEFINE x == Reply(p, i, e.ok /\ child[p].fits, e.status)
    <2>4. x.id = inbox[p][i].id /\ x.cmd = inbox[p][i].cmd /\ x.owner = inbox[p][i].owner
          /\ Says(p, x)
        BY <2>1 DEF Served, Reply
    <2> HIDE DEF x
    <2>5. \A q \in Procs : \A j \in 1..Len(outbox'[q]) :
             \/ \E k \in 1..Len(outbox[q]) : outbox'[q][j] = outbox[q][k]
             \/ \E k \in 1..Len(inbox[q]) :
                  /\ outbox'[q][j].id = inbox[q][k].id /\ outbox'[q][j].cmd = inbox[q][k].cmd
                  /\ outbox'[q][j].owner = inbox[q][k].owner
        BY <2>4 DEF Says, Grew
    <2> QED  BY <2>2, <2>3, <2>5, CallSay
<1>6. ASSUME NEW p \in Procs, Stream(p)  PROVE CallInv'
    <2>1. PICK i \in 1..Len(inbox[p]) : Says(p, Part(p, i))
        BY <1>6, StreamEffect
    <2>2. UNCHANGED <<process, serial, pending, expired, callbacks, call, forgotten, requested, inbox>>
        BY <1>6, StreamEffect DEF tableVars, statusVars, historyVars
    <2> DEFINE x == Part(p, i)
    <2>3. x.id = inbox[p][i].id /\ x.cmd = inbox[p][i].cmd /\ x.owner = inbox[p][i].owner
          /\ Says(p, x)
        BY <2>1 DEF Part
    <2> HIDE DEF x
    <2>4. \A q \in Procs : \A j \in 1..Len(outbox'[q]) :
             \/ \E k \in 1..Len(outbox[q]) : outbox'[q][j] = outbox[q][k]
             \/ \E k \in 1..Len(inbox[q]) :
                  /\ outbox'[q][j].id = inbox[q][k].id /\ outbox'[q][j].cmd = inbox[q][k].cmd
                  /\ outbox'[q][j].owner = inbox[q][k].owner
        BY <2>3 DEF Says, Grew
    <2> QED  BY <2>2, <2>4, CallSay
<1>7. CASE Close \/ Cancel
    <2>1. /\ UNCHANGED <<serial, expired, callbacks, call, forgotten, requested, inbox, outbox>>
          /\ process' = 0 /\ pending' \subseteq pending
        BY <1>7 DEF Close, Cancel, DropPending, wireVars, tableVars, historyVars
    <2>2. CallsDiffer'
        BY <2>1 DEF CallInv, CallsDiffer, ApiOnly
    <2>3. Owned'
        BY <2>1 DEF CallInv, Owned, Belongs, Sent
    <2>4. NoOrphans' /\ CallbacksWait' /\ Expected'
        BY <2>1 DEF CallInv, NoOrphans, CallbacksWait, Expected
    <2> QED  BY <2>2, <2>3, <2>4 DEF CallInv
<1> QED  BY <1>1, <1>2, <1>3, <1>4, <1>5, <1>6, <1>7 DEF Reader, Exit, Die

-----------------------------------------------------------------------------
(* A turn reaches only a child of the bridge's own version *)

LEMMA ChildLeave ==
    ASSUME IInv, NEW c \in Callers, Leaving(c)
    PROVE  ChildInv'
<1> USE DEF IInv, ChildInv
<1>1. /\ UNCHANGED <<process, child, cancelled, inbox, outbox, delivering, requested, running>>
      /\ pending' \subseteq pending
    BY DEF Leaving, wireVars, Detached
<1>2. Fresh' /\ Deserted' /\ Greets' /\ Early' /\ RightVersion'
    BY <1>1 DEF Fresh, Deserted, Greets, Early, RightVersion, Writable, Alive, ApiOnly
<1>3. Known'
    <2> SUFFICES ASSUME process # 0, process \in Alive, ~Greeted(process)
                 PROVE  model' \notin Loaded /\ (ApiOnly => model' = "loading")
        BY <1>1 DEF Known, Greeted, Greeting, Alive, ApiOnly
    <2>1. pending = {} /\ model \notin Loaded /\ (ApiOnly => model = "loading")
        BY DEF Known
    <2> QED  BY <2>1 DEF Leaving, Learns, ReplyFor, Loaded
<1> QED  BY <1>2, <1>3

LEMMA ChildSend ==
    ASSUME IInv, NEW c \in Callers, NEW k, NEW l, NEW n, NEW m, Sending(c, k, l, n, m)
    PROVE  ChildInv'
<1> USE DEF IInv, ChildInv
<1> DEFINE x == [id |-> serial + 1, owner |-> c, cmd |-> k]
<1>1. /\ UNCHANGED <<process, child, cancelled, outbox, delivering, running>>
      /\ pending' \subseteq pending /\ process \in Alive
      /\ requested' \in {"api", "cpu", "gpu"} /\ (ApiOnly' <=> ApiOnly)
      /\ SendsAs(c, k, l, n, m) /\ (Learns(c) \/ model' = "loading" )
    BY DEF Sending, Detached
<1>2. process \in Procs /\ Sends(process, x) /\ x.cmd = k
    BY SendingTypes, WriteEffect DEF Sending
<1> HIDE DEF x
<1>3. \A q \in Procs : \A i \in 1..Len(inbox'[q]) :
          \/ i \in 1..Len(inbox[q]) /\ inbox'[q][i] = inbox[q][i]
          \/ q = process /\ inbox'[q][i] = x
    BY <1>2 DEF Sends, Grew
<1>4. k \in Turns => Greeted(process) /\ child[process].fits
    BY <1>1 DEF SendsAs, Turns, Switches
<1>5. Fresh'
    <2>1. child[process].state # "none"
        BY <1>1 DEF Alive
    <2> QED  BY <1>1, <1>2, <2>1 DEF Fresh, Sends
<1>6. Deserted' /\ Greets'
    BY <1>1 DEF Deserted, Greets, Writable, Alive
<1>7. Early' /\ RightVersion'
    BY <1>1, <1>2, <1>3, <1>4 DEF Early, RightVersion, Greeted
<1>8. Known'
    <2> SUFFICES ASSUME ~Greeted(process)
                 PROVE  model' \notin Loaded /\ (ApiOnly => model' = "loading")
        BY <1>1 DEF Known, Greeted, Greeting, Alive
    <2>1. pending = {} /\ model \notin Loaded /\ (ApiOnly => model = "loading")
        BY <1>1, <1>2, WireTypes DEF Known
    <2> QED  BY <1>1, <2>1 DEF Learns, ReplyFor, Loaded
<1> QED  BY <1>5, <1>6, <1>7, <1>8

LEMMA ChildByCaller ==
    ASSUME IInv, NEW c \in Callers, CallerKinds(c)
    PROVE  ChildInv'
<1> USE DEF IInv, ChildInv
<1>1. CASE Leaving(c)
    BY <1>1, ChildLeave
<1>2. ASSUME NEW k, NEW l, NEW n, NEW m, Sending(c, k, l, n, m)  PROVE ChildInv'
    BY <1>2, ChildSend
<1>3. CASE Attending(c)
    <2>1. UNCHANGED <<process, child, cancelled, inbox, outbox, delivering, requested, running,
                      pending, model>>
        BY <1>3 DEF Attending, wireVars, tableVars, statusVars
    <2>2. Fresh' /\ Deserted' /\ Greets' /\ Early' /\ RightVersion'
        BY <2>1 DEF Fresh, Deserted, Greets, Early, RightVersion, Writable, Alive, ApiOnly
    <2>3. Known'
        BY <2>1 DEF Known, Greeted, Greeting, Alive, ApiOnly
    <2> QED  BY <2>2, <2>3
<1>4. CASE ~Usable /\ (LaunchRaises \/ Choosing)
    <2>1. UNCHANGED <<process, child, cancelled, inbox, outbox, delivering, running>>
          /\ pending' \subseteq pending /\ process \notin Alive
        BY <1>4 DEF LaunchRaises, Choosing, FreshTable, wireVars, tableVars, Usable
    <2>2. Fresh' /\ Greets' /\ Early' /\ RightVersion'
        BY <2>1 DEF Fresh, Greets, Early, RightVersion
    <2>3. Deserted'
        <3>1. ApiOnly' <=> ApiOnly
            BY <1>4 DEF LaunchRaises, Choosing, ApiOnly
        <3> QED  BY <2>1, <3>1 DEF Deserted, Writable, Alive
    <2>4. Known'
        BY <2>1 DEF Known, Alive
    <2> QED  BY <2>2, <2>3, <2>4
<1>5. ASSUME NEW p \in Procs, Launching(c, p)  PROVE ChildInv'
    <2>1. Launch(p) /\ ~Usable
        BY <1>5 DEF Launching
    <2>2. /\ child[p].state = "none" /\ process' = p /\ child'[p].state = "starting" /\ child'[p].fits
          /\ \A q \in Procs \ {p} : child'[q] = child[q]
          /\ pending' = {} /\ model' = "loading"
          /\ UNCHANGED <<cancelled, inbox, outbox, delivering, requested, running>>
        BY <2>1, LaunchEffect DEF wireVars
    <2>3. inbox[p] = <<>> /\ outbox[p] = <<>> /\ p \notin cancelled /\ p # 0
        BY <2>2, WireTypes DEF Fresh
    <2>4. Fresh'
        BY <2>2, <2>3 DEF Fresh
    <2>5. Deserted'
        BY <2>1, <2>2 DEF Deserted, Writable, Alive, Usable, ApiOnly
    <2>6. Greets' /\ Early' /\ RightVersion'
        BY <2>2, <2>3 DEF Greets, Early, RightVersion
    <2>7. Known'
        BY <2>2, <2>3 DEF Known, Greeted, Greeting, Loaded
    <2> QED  BY <2>4, <2>5, <2>6, <2>7
<1>6. Choosing => ~Usable
    BY DEF Choosing
<1> QED  BY <1>1, <1>2, <1>3, <1>4, <1>5, <1>6 DEF CallerKinds

LEMMA ChildRead ==
    ASSUME IInv, NEW p \in Procs, Read(p)
    PROVE  ChildInv'
<1> USE DEF IInv, ChildInv
<1>r. PICK r \in Replies : r = outbox[p][1] /\ r = Head(outbox[p])
    BY ReadEffect
<1>0. /\ 1 \in 1..Len(outbox[p]) /\ Hears(p) /\ Proper(r, p)
      /\ UNCHANGED <<process, child, cancelled, inbox, requested>>
    BY <1>r, ReadEffect DEF WireInv, RepliesProper
<1>1. (IsCurrent(p) /\ Take(p, r))
         \/ (~IsCurrent(p) /\ UNCHANGED <<model, running, delivering, pending, expired>>)
    BY <1>r DEF Read
<1>2. /\ \A q \in Procs : delivering'[q] = delivering[q] \/ q = p
      /\ pending' = pending \/ (pending' = pending \cup {r} /\ p = process)
    BY <1>1, TakeEffect
<1>3. \A q \in Procs : \A j \in 1..Len(outbox'[q]) :
          \/ q # p /\ j \in 1..Len(outbox[q]) /\ outbox'[q][j] = outbox[q][j]
          \/ q = p /\ j + 1 \in 1..Len(outbox[q]) /\ outbox'[q][j] = outbox[q][j + 1]
    BY <1>0 DEF Hears, Lost
<1>4. child[p].state # "none" /\ child[p].state # "starting"
    BY <1>0 DEF Fresh, Greets
<1>5. Fresh'
    BY <1>0, <1>2, <1>4 DEF Fresh, Hears, Proper
<1>6. Deserted' /\ Early' /\ RightVersion'
    BY <1>0 DEF Deserted, Early, RightVersion, Writable, Alive, ApiOnly
<1>7. \A j \in 1..Len(outbox'[p]) : outbox'[p][j].type # "ready"
    <2> SUFFICES ASSUME NEW j \in 1..Len(outbox'[p])  PROVE outbox'[p][j].type # "ready"
        OBVIOUS
    <2>1. j + 1 \in 1..Len(outbox[p]) /\ outbox'[p][j] = outbox[p][j + 1] /\ j + 1 # 1
        BY <1>3
    <2> QED  BY <2>1 DEF Greets
<1>8. Greets'
    <2> SUFFICES ASSUME NEW q \in Procs
                 PROVE  /\ child[q].state = "starting" => outbox'[q] = <<>>
                        /\ \A i \in 1..Len(outbox'[q]) : outbox'[q][i].type = "ready" =>
                              i = 1 /\ (child[q].state = "up" => outbox'[q][i].ok = child[q].fits)
        BY <1>0 DEF Greets
    <2>1. CASE q = p
        BY <1>4, <1>7, <2>1
    <2>2. CASE q # p
        BY <1>0, <2>2 DEF Greets, Hears
    <2> QED  BY <2>1, <2>2
<1>9. Known'
    <2> SUFFICES ASSUME process # 0, process \in Alive
                 PROVE  /\ ~Greeted(process)' =>
                             pending' = {} /\ model' \notin Loaded /\ (ApiOnly => model' = "loading")
                        /\ Greeted(process)' =>
                             running' = IF child[process].fits THEN "same" ELSE "other"
        BY <1>0 DEF Known, Alive, ApiOnly
    <2>0. process \in Procs
        BY DEF TypeOK
    <2>1. CASE p # process
        <3>1. outbox'[process] = outbox[process] /\ UNCHANGED <<model, running, pending>>
            BY <1>0, <1>1, <2>0, <2>1 DEF Hears, IsCurrent
        <3>2. Greeted(process)' <=> Greeted(process)
            BY <1>0, <3>1 DEF Greeted, Greeting
        <3> QED  BY <3>1, <3>2 DEF Known
    <2>2. CASE p = process
        <3>1. child[p].state = "up"
            BY <1>4, <2>2 DEF Alive
        <3>2. Greeted(process)'
            BY <1>0, <1>7, <2>2, <3>1 DEF Greeted, Greeting
        <3>3. CASE r.type = "ready"
            <4>1. running' = IF r.ok THEN "same" ELSE "other"
                BY <1>1, <2>2, <3>3 DEF IsCurrent, Take, IsFinal
            <4>2. r.ok = child[p].fits
                BY <1>0, <1>r, <3>1, <3>3 DEF Greets
            <4> QED  BY <2>2, <3>2, <4>1, <4>2
        <3>4. CASE r.type # "ready"
            <4>1. Greeted(process)
                BY <1>0, <1>r, <2>2, <3>1, <3>4 DEF Greeted, Greeting, Greets
            <4>2. running' = running
                BY <1>1, <3>4 DEF Take, IsFinal
            <4> QED  BY <3>2, <4>1, <4>2 DEF Known
        <3> QED  BY <3>3, <3>4
    <2> QED  BY <2>1, <2>2
<1> QED  BY <1>5, <1>6, <1>8, <1>9

\* A child that runs says something more.
LEMMA ChildSay ==
    ASSUME IInv, NEW p \in Procs, p = process, NEW x \in Replies, x.type # "ready", Says(p, x),
           child[p].state = "up", child' \in [Procs -> Children],
           child'[p].state = "up", child'[p].fits = child[p].fits,
           child'[p].stdin = child[p].stdin,
           \A q \in Procs \ {p} : child'[q] = child[q] /\ inbox'[q] = inbox[q],
           \A j \in 1..Len(inbox'[p]) : \E k \in 1..Len(inbox[p]) : inbox'[p][j] = inbox[p][k],
           UNCHANGED <<process, cancelled, delivering, pending, model, running, requested>>
    PROVE  ChildInv'
<1> USE DEF IInv, ChildInv
<1>1. \A q \in Procs : \A j \in 1..Len(outbox'[q]) :
          \/ j \in 1..Len(outbox[q]) /\ outbox'[q][j] = outbox[q][j]
          \/ q = p /\ outbox'[q][j] = x
    BY DEF Says, Grew
<1>2. Fresh'
    BY DEF Fresh, Says
<1>3. Deserted'
    BY DEF Deserted, Writable, Alive, ApiOnly
<1>4. Greets'
    <2> SUFFICES ASSUME NEW q \in Procs
                 PROVE  /\ child'[q].state = "starting" => outbox'[q] = <<>>
                        /\ \A i \in 1..Len(outbox'[q]) : outbox'[q][i].type = "ready" =>
                              i = 1 /\ (child'[q].state = "up" => outbox'[q][i].ok = child'[q].fits)
        BY DEF Greets
    <2>1. CASE q = p
        BY <1>1, <2>1 DEF Greets
    <2>2. CASE q # p
        BY <2>2 DEF Greets, Says
    <2> QED  BY <2>1, <2>2
<1>5. Early' /\ RightVersion'
    <2> SUFFICES ASSUME NEW q \in Procs, NEW j \in 1..Len(inbox'[q])
                 PROVE  inbox'[q][j].cmd \in Turns => child'[q].fits /\ child'[q].state # "starting"
        BY DEF Early, RightVersion
    <2>1. CASE q = p
        <3>1. PICK k \in 1..Len(inbox[p]) : inbox'[q][j] = inbox[p][k]
            BY <2>1
        <3> QED  BY <2>1, <3>1 DEF RightVersion
    <2>2. CASE q # p
        BY <2>2 DEF Early, RightVersion
    <2> QED  BY <2>1, <2>2
<1>6. Known'
    <2>1. Greeting(process)' <=> Greeting(process)
        <3>1. \A j \in 1..Len(outbox[p]) : j \in 1..Len(outbox'[p]) /\ outbox'[p][j] = outbox[p][j]
            <4> SUFFICES ASSUME NEW j \in 1..Len(outbox[p])
                         PROVE  j \in 1..Len(outbox'[p]) /\ outbox'[p][j] = outbox[p][j]
                OBVIOUS
            <4>1. Len(outbox'[p]) = Len(outbox[p]) + 1 /\ Len(outbox[p]) \in Nat
                BY WireTypes DEF Says, Grew
            <4>2. j \in 1..Len(outbox'[p]) /\ j # Len(outbox[p]) + 1
                BY <4>1
            <4> QED  BY <4>2 DEF Says, Grew
        <3>2. Greeting(process)' => Greeting(process)
            BY <1>1 DEF Greeting
        <3>3. Greeting(process) => Greeting(process)'
            BY <3>1 DEF Greeting
        <3> QED  BY <3>2, <3>3
    <2>2. Greeted(process)' <=> Greeted(process)
        BY <2>1 DEF Greeted
    <2>3. process \in Alive
        BY DEF Alive
    <2> QED  BY <2>2, <2>3 DEF Known, ApiOnly
<1> QED  BY <1>2, <1>3, <1>4, <1>5, <1>6

LEMMA ChildBoot ==
    ASSUME IInv, NEW p \in Procs, Boot(p)
    PROVE  ChildInv'
<1> USE DEF IInv, ChildInv
<1>1. PICK engine \in Loaded \cup {"missing"}, same \in BOOLEAN :
        /\ child' = [child EXCEPT ![p].state = "up", ![p].engine = engine, ![p].fits = same]
        /\ Says(p, Greet(p, engine, same))
    BY BootEffect
<1>2. /\ UNCHANGED <<process, cancelled, inbox, delivering, pending, model, running, requested>>
      /\ p = process /\ child[p].state = "starting"
    BY BootEffect DEF tableVars, statusVars
<1> DEFINE x == Greet(p, engine, same)
<1>3. x.type = "ready" /\ x.ok = same /\ Says(p, x)
    BY <1>1 DEF Greet
<1> HIDE DEF x
<1>4. /\ child'[p].state = "up" /\ child'[p].fits = same /\ child'[p].stdin = child[p].stdin
      /\ \A q \in Procs \ {p} : child'[q] = child[q]
    BY <1>1, WireTypes DEF TypeOK, Children
<1>5. Len(outbox[p]) = 0
    BY <1>2 DEF Greets
<1>6. 1 \in 1..Len(outbox'[p]) /\ \A j \in 1..Len(outbox'[p]) : j = 1 /\ outbox'[p][j] = x
    BY <1>3, <1>5 DEF Says, Grew
<1>7. Fresh'
    BY <1>2, <1>3, <1>4 DEF Fresh, Says
<1>8. Deserted'
    BY <1>2, <1>4 DEF Deserted, Writable, Alive, ApiOnly
<1>9. Greets'
    <2> SUFFICES ASSUME NEW q \in Procs
                 PROVE  /\ child'[q].state = "starting" => outbox'[q] = <<>>
                        /\ \A i \in 1..Len(outbox'[q]) : outbox'[q][i].type = "ready" =>
                              i = 1 /\ (child'[q].state = "up" => outbox'[q][i].ok = child'[q].fits)
        BY DEF Greets
    <2>1. CASE q = p
        BY <1>3, <1>4, <1>6, <2>1
    <2>2. CASE q # p
        BY <1>3, <1>4, <2>2 DEF Greets, Says
    <2> QED  BY <2>1, <2>2
<1>10. Early' /\ RightVersion'
    BY <1>2, <1>4 DEF Early, RightVersion
<1>11. Known'
    <2>1. ~Greeted(process)'
        BY <1>2, <1>3, <1>6 DEF Greeted, Greeting
    <2>2. ~Greeted(process) /\ process \in Alive /\ process # 0
        BY <1>2, WireTypes DEF Greeted, Alive
    <2> QED  BY <1>2, <2>1, <2>2 DEF Known, ApiOnly
<1> QED  BY <1>7, <1>8, <1>9, <1>10, <1>11

LEMMA ChildByChannel ==
    ASSUME IInv,
           \/ \E p \in Procs : Reader(p) \/ Boot(p) \/ Serve(p) \/ Stream(p) \/ Exit(p) \/ Die(p)
           \/ Close \/ Cancel
    PROVE  ChildInv'
<1> USE DEF IInv, ChildInv
<1>0. child \in [Procs -> Children] /\ process \in Procs \cup {0}
    BY DEF TypeOK
<1>1. ASSUME NEW p \in Procs, Read(p)  PROVE ChildInv'
    BY <1>1, ChildRead
<1>2. ASSUME NEW p \in Procs, PassOn(p)  PROVE ChildInv'
    <2>1. UNCHANGED <<process, child, cancelled, inbox, outbox, requested, running, pending, model>>
          /\ \A q \in Procs : delivering'[q] = delivering[q] \/ delivering'[q] = 0
        BY <1>2 DEF PassOn, tableVars, statusVars, TypeOK
    <2>2. Fresh' /\ Deserted' /\ Greets' /\ Early' /\ RightVersion'
        BY <2>1 DEF Fresh, Deserted, Greets, Early, RightVersion, Writable, Alive, ApiOnly
    <2>3. Known'
        BY <2>1 DEF Known, Greeted, Greeting, Alive, ApiOnly
    <2> QED  BY <2>2, <2>3
<1>3. ASSUME NEW p \in Procs, EndOfFile(p)  PROVE ChildInv'
    <2>1. /\ child[p].state = "dead" /\ child'[p].state = "gone"
          /\ child'[p].fits = child[p].fits
          /\ \A q \in Procs \ {p} : child'[q] = child[q]
          /\ UNCHANGED <<process, cancelled, inbox, outbox, delivering, requested, running, pending>>
          /\ process # p => model' = model
        BY <1>0, <1>3 DEF EndOfFile, wireVars, tableVars, Children, IsCurrent
    <2>2. Fresh' /\ Greets' /\ Early' /\ RightVersion'
        BY <2>1 DEF Fresh, Greets, Early, RightVersion
    <2>3. Deserted'
        BY <2>1 DEF Deserted, Writable, Alive, ApiOnly
    <2>4. Known'
        BY <2>1 DEF Known, Greeted, Greeting, Alive, ApiOnly
    <2> QED  BY <2>2, <2>3, <2>4
<1>4. ASSUME NEW p \in Procs, Boot(p)  PROVE ChildInv'
    BY <1>4, ChildBoot
<1>5. ASSUME NEW p \in Procs, Serve(p)  PROVE ChildInv'
    <2>1a. PICK i \in 1..Len(inbox[p]) : \E e : Served(p, i, e)
        BY <1>5, ServeEffect
    <2>1. PICK e : Served(p, i, e)
        BY <2>1a
    <2>2. /\ UNCHANGED <<process, cancelled, delivering, pending, model, running, requested>>
          /\ p = process /\ child[p].state = "up"
        BY <1>5, ServeEffect DEF tableVars, statusVars
    <2> DEFINE x == Reply(p, i, e.ok /\ child[p].fits, e.status)
    <2>3. x \in Replies /\ x.type # "ready" /\ Says(p, x) /\ Takes(p, i)
        BY <2>1 DEF Served, Reply
    <2> HIDE DEF x
    <2>4. child' \in [Procs -> Children]
        BY <1>5, TypeByChannel DEF TypeOK
    <2>5. /\ child'[p].state = "up" /\ child'[p].fits = child[p].fits
          /\ child'[p].stdin = child[p].stdin /\ \A q \in Procs \ {p} : child'[q] = child[q]
        BY <1>0, <2>1, <2>2 DEF Served, Children
    <2>6. \A j \in 1..Len(inbox'[p]) : \E k \in 1..Len(inbox[p]) : inbox'[p][j] = inbox[p][k]
        BY <2>3 DEF Takes, Lost
    <2>7. \A q \in Procs \ {p} : inbox'[q] = inbox[q]
        BY <2>3 DEF Takes
    <2> QED  BY <2>2, <2>3, <2>4, <2>5, <2>6, <2>7, ChildSay
<1>6. ASSUME NEW p \in Procs, Stream(p)  PROVE ChildInv'
    <2>1. PICK i \in 1..Len(inbox[p]) : Says(p, Part(p, i)) /\ Part(p, i) \in Replies
        BY <1>6, StreamEffect
    <2>2. /\ UNCHANGED <<process, child, cancelled, inbox, delivering, pending, model, running,
                         requested>>
          /\ p = process /\ child[p].state = "up"
        BY <1>6, StreamEffect DEF tableVars, statusVars
    <2>3. Part(p, i).type # "ready"
        BY DEF Part
    <2> QED  BY <1>0, <2>1, <2>2, <2>3, ChildSay
<1>7. ASSUME NEW p \in Procs, p \in Alive, Stops(p)  PROVE ChildInv'
    <2>1. /\ UNCHANGED <<process, cancelled, outbox, delivering, requested, running, pending, model>>
          /\ Len(inbox'[p]) = 0 /\ child'[p].state = "dead" /\ ~child'[p].stdin
          /\ \A q \in Procs \ {p} : inbox'[q] = inbox[q] /\ child'[q] = child[q]
        BY <1>7, StopEffect DEF tableVars, statusVars
    <2>2. Fresh' /\ Greets' /\ Early' /\ RightVersion'
        BY <2>1 DEF Fresh, Greets, Early, RightVersion
    <2>3. Deserted'
        BY <2>1 DEF Deserted, Writable, Alive, ApiOnly
    <2>4. Known'
        BY <2>1 DEF Known, Greeted, Greeting, Alive, ApiOnly
    <2> QED  BY <2>2, <2>3, <2>4
<1>8. CASE Close
    <2>1. /\ UNCHANGED <<cancelled, inbox, outbox, delivering, requested, running, pending>>
          /\ process' = 0
          /\ \A q \in Procs : /\ child'[q].state = child[q].state /\ child'[q].fits = child[q].fits
                              /\ child'[q].stdin => child[q].stdin /\ q # process
        BY <1>0, <1>8 DEF Close, wireVars, tableVars, Children
    <2>2. Fresh'
        <3>1. 0 \notin cancelled /\ 0 \notin Procs
            BY DEF TypeOK, Procs
        <3> QED  BY <2>1, <3>1 DEF Fresh
    <2>3. Greets' /\ Early' /\ RightVersion'
        BY <2>1 DEF Greets, Early, RightVersion
    <2>4. Deserted' /\ Known'
        BY <2>1 DEF Deserted, Writable, Alive, ApiOnly, Known
    <2> QED  BY <2>2, <2>3, <2>4
<1>9. CASE Cancel
    <2>1. /\ UNCHANGED <<child, inbox, outbox, delivering, requested, running>>
          /\ process' = 0 /\ pending' = {} /\ cancelled' = cancelled \cup ({process} \ {0})
          /\ ApiOnly
        BY <1>9 DEF Cancel, DropPending, wireVars
    <2>2. Fresh'
        <3>1. 0 \notin cancelled /\ 0 \notin Procs
            BY DEF TypeOK, Procs
        <3> QED  BY <2>1, <3>1 DEF Fresh
    <2>3. Greets' /\ Early' /\ RightVersion' /\ Known' /\ Deserted'
        BY <2>1 DEF Greets, Early, RightVersion, Known, Deserted, ApiOnly
    <2> QED  BY <2>2, <2>3
<1> QED  BY <1>1, <1>2, <1>3, <1>4, <1>5, <1>6, <1>7, <1>8, <1>9 DEF Reader, Exit, Die

-----------------------------------------------------------------------------
(* At rest the reported model is the one that runs *)

\* An engine is known from the answers that change it.
LEMMA StatusByCaller ==
    ASSUME IInv, NEW c \in Callers, CallerKinds(c)
    PROVE  StatusInv'
<1> USE DEF IInv
<1>0. (ApiOnly' <=> ApiOnly) /\ CallsDiffer'
    BY KindStays, DifferByCaller
<1>1. ASSUME Learns(c), process # 0, ~overlapped, process \in Alive, model' \in Loaded,
             model' # model
      PROVE  model' = child[process].engine
    <2>1. PICK r \in ReplyFor(c) : /\ model' = r.status /\ call[c].at \in {"preparing", "switching"}
                                   /\ call[c].at = "switching" => r.ok
        BY <1>1 DEF Learns, Loaded
    <2>2. r \in pending /\ r.id = call[c].id /\ r.cmd = Sent(c)
        BY TakenReply
    <2>3. Truthful(r)
        BY <1>1, <2>1, <2>2 DEF StatusInv, Settling, Usable
    <2> QED  BY <1>1, <2>1, <2>2, <2>3 DEF Truthful, Sent
\* A step in which callers only come to rest, and lines do not change.
<1>2. ASSUME UNCHANGED <<process, child, inbox, outbox>>, pending' \subseteq pending,
             overlapped' = overlapped,
             \A d \in Callers : call'[d].at \in {"preparing", "switching"} => call'[d] = call[d],
             Learns(c) \/ model' \notin Loaded
      PROVE  StatusInv'
    <2>1. LastWord'
        <3> SUFFICES ASSUME ~overlapped, process # 0, child[process].state = "up"  PROVE LastWord'
            BY <1>2 DEF LastWord
        <3>1. process \in Alive
            BY DEF TypeOK, Alive
        <3>2. \A i \in 1..Len(outbox[process]) : Bears(outbox[process][i])' <=> Bears(outbox[process][i])
            BY <1>0, <1>2 DEF Bears, Final, Reports
        <3>3. LastWord
            BY DEF StatusInv
        <3>4. model' \in Loaded => model' = model \/ model' = child[process].engine
            BY <1>1, <1>2, <3>1
        <3> QED  BY <1>2, <3>2, <3>3, <3>4 DEF LastWord
    <2>2. Settling'
        <3> SUFFICES ASSUME ~overlapped, Usable, NEW d \in Callers,
                            call'[d].at \in {"preparing", "switching"}
                     PROVE  /\ \A i, j \in 1..Len(inbox[process]) :
                                 inbox[process][i].id = call[d].id /\ j > i
                                     => inbox[process][j].cmd \notin Engaging
                            /\ \A i \in 1..Len(outbox[process]) :
                                 Final(outbox[process][i]) /\ outbox[process][i].id = call[d].id
                                     => Truthful(outbox[process][i])'
                            /\ \A r \in pending' : r.id = call[d].id => Truthful(r)'
            BY <1>2 DEF Settling, Usable, Alive, Final
        <3>1. call[d].at \in {"preparing", "switching"}
            BY <1>2
        <3>2. ASSUME NEW r, Truthful(r)  PROVE Truthful(r)'
            BY <1>2, <3>2 DEF Truthful
        <3>3. \A i \in 1..Len(outbox[process]) : Truthful(outbox[process][i])
                  => Truthful(outbox[process][i])'
            BY <1>2 DEF Truthful
        <3> QED  BY <1>2, <3>1, <3>2, <3>3 DEF StatusInv, Settling
    <2> QED  BY <2>1, <2>2 DEF StatusInv
<1>3. CASE Leaving(c)
    <2>1. \A d \in Callers : call'[d].at \in {"preparing", "switching"} => call'[d] = call[d]
        BY <1>3, CallsAfter, NoCallTyped DEF Leaving, Ends
    <2> QED  BY <1>2, <1>3, <2>1 DEF Leaving, Detached, wireVars
<1>4. CASE Attending(c)
    <2>1. PICK k \in Requests : Starts(c, k, "starting", process, 0)
        BY <1>4 DEF Attending
    <2>2. \A d \in Callers : call'[d].at \in {"preparing", "switching"} => call'[d] = call[d]
        BY <2>1 DEF Starts, TypeOK
    <2>3. Learns(c)
        BY <1>4 DEF Attending, Learns, statusVars
    <2> QED  BY <1>2, <1>4, <2>2, <2>3 DEF Attending, wireVars, tableVars, historyVars
<1>5. CASE ~Usable /\ (LaunchRaises \/ Choosing)
    <2>1. UNCHANGED <<process, child>>
        BY <1>5 DEF LaunchRaises, Choosing
    <2>2. process \notin Alive
        BY <1>5 DEF Usable
    <2>3. process # 0 => child[process].state # "up"
        BY <2>2 DEF Alive, TypeOK
    <2> QED  BY <2>1, <2>2, <2>3 DEF StatusInv, LastWord, Settling, Usable, Alive
<1>6. ASSUME NEW p \in Procs, Launching(c, p)  PROVE StatusInv'
    <2>1. /\ child[p].state = "none" /\ process' = p /\ child'[p].state = "starting"
          /\ pending' = {} /\ UNCHANGED <<inbox, outbox>>
        BY <1>6, LaunchEffect DEF Launching, wireVars
    <2>2. Len(inbox[p]) = 0 /\ Len(outbox[p]) = 0
        BY <2>1 DEF ChildInv, Fresh
    <2>3. LastWord'
        BY <2>1 DEF LastWord
    <2>4. Settling'
        BY <2>1, <2>2 DEF Settling
    <2> QED  BY <2>3, <2>4 DEF StatusInv
<1>7. ASSUME NEW k, NEW l, NEW n, NEW m, Sending(c, k, l, n, m)  PROVE StatusInv'
    <2> DEFINE x == [id |-> serial + 1, owner |-> c, cmd |-> k]
               y == [at |-> l, cmd |-> n, mine |-> m, id |-> serial']
    <2>1. /\ UNCHANGED <<process, child, outbox>> /\ pending' \subseteq pending
          /\ process \in Alive /\ process \in Procs /\ SendsAs(c, k, l, n, m)
          /\ overlapped' = (overlapped \/ (k \in Engaging /\ Switching))
          /\ Learns(c) \/ model' = "loading"
          /\ serial' = serial + 1 /\ serial \in Nat
        BY <1>7, SendingTypes DEF Sending, Detached
    <2>2. Sends(process, x) /\ x.id = serial + 1 /\ x.cmd = k
        BY <1>7, SendingTypes, WriteEffect DEF Sending
    <2>3. call'[c] = y /\ y.at = l /\ y.id = serial + 1 /\ \A d \in Callers \ {c} : call'[d] = call[d]
        BY <1>7, SendingTypes, CallsAfter DEF Sending, Starts
    <2> HIDE DEF x, y
    <2>4. LastWord'
        <3> SUFFICES ASSUME ~overlapped, process # 0, child[process].state = "up"  PROVE LastWord'
            BY <2>1 DEF LastWord
        <3>1. \A i \in 1..Len(outbox[process]) : Bears(outbox[process][i])' <=> Bears(outbox[process][i])
            BY <1>0, <2>1 DEF Bears, Final, Reports
        <3>2. LastWord
            BY DEF StatusInv
        <3>3. model' \in Loaded => model' = model \/ model' = child[process].engine
            BY <1>1, <2>1 DEF Loaded
        <3> QED  BY <2>1, <3>1, <3>2, <3>3 DEF LastWord
    <2>5. Settling'
        <3> SUFFICES ASSUME ~overlapped', NEW d \in Callers,
                            call'[d].at \in {"preparing", "switching"}
                     PROVE  /\ \A i, j \in 1..Len(inbox'[process]) :
                                 inbox'[process][i].id = call'[d].id /\ j > i
                                     => inbox'[process][j].cmd \notin Engaging
                            /\ \A i \in 1..Len(outbox[process]) :
                                 Final(outbox[process][i]) /\ outbox[process][i].id = call'[d].id
                                     => Truthful(outbox[process][i])'
                            /\ \A r \in pending' : r.id = call'[d].id => Truthful(r)'
            BY <2>1 DEF Settling, Final
        <3>1. ~overlapped /\ (k \in Engaging => ~Switching) /\ Usable
            BY <2>1 DEF TypeOK, Usable
        <3>2. \A j \in 1..Len(inbox'[process]) :
                 \/ j \in 1..Len(inbox[process]) /\ inbox'[process][j] = inbox[process][j]
                 \/ j = Len(inbox[process]) + 1 /\ inbox'[process][j] = x
            BY <2>2 DEF Sends, Grew
        <3>3. \A j \in 1..Len(inbox[process]) : inbox[process][j].id # serial + 1
            BY <2>1, Ownership
        <3>4. CASE d = c
            <4>1. ASSUME NEW i \in 1..Len(outbox[process])  PROVE outbox[process][i].id # serial + 1
                BY <2>1, Ownership
            <4>2. ASSUME NEW r \in pending  PROVE r.id # serial + 1
                BY <2>1 DEF WireInv, Collected
            <4>3. \A i \in 1..Len(inbox'[process]) : inbox'[process][i].id = serial + 1
                     => i = Len(inbox[process]) + 1
                BY <3>2, <3>3
            <4>4. \A j \in 1..Len(inbox'[process]) : j <= Len(inbox[process]) + 1
                BY <2>2 DEF Sends, Grew
            <4>5. call'[d].id = serial + 1
                BY <2>3, <3>4
            <4>6. ASSUME NEW i \in 1..Len(inbox'[process]), NEW j \in 1..Len(inbox'[process]),
                         inbox'[process][i].id = call'[d].id, j > i
                  PROVE  FALSE
                <5>1. i = Len(inbox[process]) + 1 /\ j <= Len(inbox[process]) + 1
                    BY <4>3, <4>4, <4>5, <4>6
                <5>2. Len(inbox[process]) \in Nat
                    BY <2>1, WireTypes
                <5> QED  BY <4>6, <5>1, <5>2
            <4> QED  BY <2>1, <4>1, <4>2, <4>5, <4>6
        <3>5. CASE d # c
            <4>1. call'[d] = call[d] /\ call[d].at \in {"preparing", "switching"}
                BY <2>3, <3>5
            <4>2. k \notin Engaging
                BY <3>1, <4>1 DEF Switching
            <4>3. ASSUME NEW r, Truthful(r)  PROVE Truthful(r)'
                <5>1. \A j \in 1..Len(inbox'[process]) : inbox'[process][j].cmd \notin Engaging
                    BY <2>2, <3>2, <4>2, <4>3 DEF Truthful
                <5> QED  BY <2>1, <4>3, <5>1 DEF Truthful
            <4>4. ASSUME NEW i \in 1..Len(outbox[process]), Truthful(outbox[process][i])
                  PROVE  Truthful(outbox[process][i])'
                <5>1. \A j \in 1..Len(inbox'[process]) : inbox'[process][j].cmd \notin Engaging
                    BY <2>2, <3>2, <4>2, <4>4 DEF Truthful
                <5> QED  BY <2>1, <4>4, <5>1 DEF Truthful
            <4>5. /\ \A i, j \in 1..Len(inbox[process]) :
                       inbox[process][i].id = call[d].id /\ j > i
                           => inbox[process][j].cmd \notin Engaging
                  /\ \A i \in 1..Len(outbox[process]) :
                       Final(outbox[process][i]) /\ outbox[process][i].id = call[d].id
                           => Truthful(outbox[process][i])
                  /\ \A r \in pending : r.id = call[d].id => Truthful(r)
                BY <3>1, <4>1 DEF StatusInv, Settling
            <4>6. ASSUME NEW i \in 1..Len(inbox'[process]), NEW j \in 1..Len(inbox'[process]),
                         inbox'[process][i].id = call[d].id, j > i
                  PROVE  inbox'[process][j].cmd \notin Engaging
                <5>1. CASE j = Len(inbox[process]) + 1 /\ inbox'[process][j] = x
                    BY <2>2, <4>2, <5>1
                <5>2. CASE j \in 1..Len(inbox[process]) /\ inbox'[process][j] = inbox[process][j]
                    <6>1. i \in 1..Len(inbox[process]) /\ inbox'[process][i] = inbox[process][i]
                        BY <2>1, <3>2, <4>6, <5>2, WireTypes
                    <6> QED  BY <4>5, <4>6, <5>2, <6>1
                <5> QED  BY <3>2, <5>1, <5>2
            <4> QED  BY <2>1, <4>1, <4>3, <4>4, <4>5, <4>6
        <3> QED  BY <3>4, <3>5
    <2> QED  BY <2>4, <2>5 DEF StatusInv
<1>8. Choosing => ~Usable
    BY DEF Choosing
<1> QED  BY <1>3, <1>4, <1>5, <1>6, <1>7, <1>8 DEF CallerKinds

\* Nothing about the current child changes.
LEMMA StatusSame ==
    ASSUME IInv, UNCHANGED <<process, overlapped, call, requested>>, pending' = pending,
           process # 0 => /\ UNCHANGED model
                          /\ child'[process] = child[process]
                          /\ inbox'[process] = inbox[process] /\ outbox'[process] = outbox[process]
    PROVE  StatusInv'
<1> USE DEF IInv, StatusInv
<1>1. CASE process = 0
    <2>1. process' \notin Alive'
        BY <1>1 DEF Alive, Procs
    <2> QED  BY <1>1, <2>1 DEF LastWord, Settling, Usable
<1>2. CASE process # 0
    <2>1. process \in Procs /\ (process \in Alive' <=> process \in Alive)
        BY <1>2 DEF TypeOK, Alive
    <2>2. \A i \in 1..Len(outbox[process]) : Bears(outbox[process][i])' <=> Bears(outbox[process][i])
        BY <1>2 DEF Bears, Final, Reports, ApiOnly
    <2>3. LastWord'
        BY <1>2, <2>2 DEF LastWord
    <2>4. ASSUME NEW r, Truthful(r)  PROVE Truthful(r)'
        BY <1>2, <2>4 DEF Truthful
    <2>5. \A i \in 1..Len(outbox[process]) : Truthful(outbox[process][i])
              => Truthful(outbox[process][i])'
        BY <1>2 DEF Truthful
    <2>6. Settling'
        BY <1>2, <2>1, <2>4, <2>5 DEF Settling, Usable, Final
    <2> QED  BY <2>3, <2>6
<1> QED  BY <1>1, <1>2

LEMMA StatusRead ==
    ASSUME IInv, NEW p \in Procs, Read(p)
    PROVE  StatusInv'
<1> USE DEF IInv, StatusInv
<1>r. PICK r \in Replies : r = outbox[p][1] /\ r = Head(outbox[p])
    BY ReadEffect
<1>0. /\ 1 \in 1..Len(outbox[p]) /\ Hears(p) /\ Proper(r, p)
      /\ UNCHANGED <<process, child, cancelled, inbox, requested, call, overlapped>>
    BY <1>r, ReadEffect DEF WireInv, RepliesProper
<1>1. (IsCurrent(p) /\ Take(p, r))
         \/ (~IsCurrent(p) /\ UNCHANGED <<model, running, delivering, pending, expired>>)
    BY <1>r DEF Read
<1>2. pending' = pending \/ (pending' = pending \cup {r} /\ Final(r) /\ p = process)
    BY <1>1, TakeEffect
<1>3. CASE ~IsCurrent(p)
    <2>1. process # 0 => outbox'[process] = outbox[process]
        BY <1>0, <1>3 DEF Hears, IsCurrent, TypeOK
    <2> QED  BY <1>0, <1>1, <1>3, <2>1, StatusSame
<1>4. CASE IsCurrent(p)
    <2>0. p = process /\ Take(p, r) /\ p # 0
        BY <1>1, <1>4, WireTypes DEF IsCurrent
    <2>1. \A j \in 1..Len(outbox'[p]) : j + 1 \in 1..Len(outbox[p]) /\ outbox'[p][j] = outbox[p][j + 1]
        BY <1>0 DEF Hears, Lost
    <2>2. \A k \in 2..Len(outbox[p]) : k - 1 \in 1..Len(outbox'[p]) /\ outbox'[p][k - 1] = outbox[p][k]
        <3> SUFFICES ASSUME NEW k \in 2..Len(outbox[p])
                     PROVE  k - 1 \in 1..Len(outbox'[p]) /\ outbox'[p][k - 1] = outbox[p][k]
            OBVIOUS
        <3>1. Len(outbox'[p]) = Len(outbox[p]) - 1 /\ Len(outbox[p]) \in Nat
            BY <1>0, WireTypes DEF Hears, Lost
        <3>2. k - 1 \in 1..Len(outbox'[p]) /\ (k - 1) + 1 = k
            BY <3>1
        <3> QED  BY <2>1, <3>2
    <2>3. \A s : Bears(s)' <=> Bears(s)
        BY <1>0 DEF Bears, Final, Reports, ApiOnly
    <2>4. ~Bears(r) => model' = model
        BY <2>0 DEF Take, IsFinal, Bears, Final
    <2>5. Bears(r) => model' = r.status \/ model' = "error"
        BY <2>0 DEF Take, IsFinal, Bears, Final, Proper
    <2>6. LastWord'
        <3> SUFFICES ASSUME ~overlapped, child[p].state = "up"
                     PROVE  /\ \A i \in 1..Len(outbox'[p]) :
                                 Bears(outbox'[p][i])
                                     /\ (\A j \in 1..Len(outbox'[p]) : j > i => ~Bears(outbox'[p][j]))
                                     /\ outbox'[p][i].status \in Loaded
                                 => outbox'[p][i].status = child[p].engine
                            /\ (\A i \in 1..Len(outbox'[p]) : ~Bears(outbox'[p][i])) /\ model' \in Loaded
                                 => model' = child[p].engine
            BY <1>0, <2>0 DEF LastWord, Bears, Final, Reports, ApiOnly
        <3>1. /\ \A i \in 1..Len(outbox[p]) :
                   Bears(outbox[p][i])
                       /\ (\A j \in 1..Len(outbox[p]) : j > i => ~Bears(outbox[p][j]))
                       /\ outbox[p][i].status \in Loaded
                   => outbox[p][i].status = child[p].engine
              /\ (\A i \in 1..Len(outbox[p]) : ~Bears(outbox[p][i])) /\ model \in Loaded
                   => model = child[p].engine
            BY <2>0 DEF LastWord
        <3>2. ASSUME NEW i \in 1..Len(outbox'[p]), Bears(outbox'[p][i]),
                     \A j \in 1..Len(outbox'[p]) : j > i => ~Bears(outbox'[p][j]),
                     outbox'[p][i].status \in Loaded
              PROVE  outbox'[p][i].status = child[p].engine
            <4>1. i + 1 \in 1..Len(outbox[p]) /\ outbox'[p][i] = outbox[p][i + 1]
                BY <2>1
            <4>2. ASSUME NEW j \in 1..Len(outbox[p]), j > i + 1  PROVE ~Bears(outbox[p][j])
                <5>1. j - 1 \in 1..Len(outbox'[p]) /\ outbox'[p][j - 1] = outbox[p][j] /\ j - 1 > i
                    BY <2>2, <4>2
                <5> QED  BY <3>2, <5>1
            <4> QED  BY <3>1, <3>2, <4>1, <4>2
        <3>3. ASSUME \A i \in 1..Len(outbox'[p]) : ~Bears(outbox'[p][i]), model' \in Loaded
              PROVE  model' = child[p].engine
            <4>1. ASSUME NEW j \in 1..Len(outbox[p]), j > 1  PROVE ~Bears(outbox[p][j])
                BY <2>2, <3>3, <4>1
            <4>2. CASE Bears(r)
                <5>1. model' = r.status
                    BY <2>5, <3>3, <4>2 DEF Loaded
                <5> QED  BY <1>0, <1>r, <3>1, <3>3, <4>1, <4>2, <5>1
            <4>3. CASE ~Bears(r)
                <5>1. \A i \in 1..Len(outbox[p]) : ~Bears(outbox[p][i])
                    BY <1>r, <4>1, <4>3
                <5> QED  BY <2>4, <3>1, <3>3, <4>3, <5>1
            <4> QED  BY <4>2, <4>3
        <3> QED  BY <3>2, <3>3
    <2>7. Settling'
        <3> SUFFICES ASSUME ~overlapped, Usable, NEW d \in Callers,
                            call[d].at \in {"preparing", "switching"}
                     PROVE  /\ \A i, j \in 1..Len(inbox[p]) :
                                 inbox[p][i].id = call[d].id /\ j > i
                                     => inbox[p][j].cmd \notin Engaging
                            /\ \A i \in 1..Len(outbox'[p]) :
                                 Final(outbox'[p][i]) /\ outbox'[p][i].id = call[d].id
                                     => Truthful(outbox[p][i])'
                            /\ \A s \in pending' : s.id = call[d].id => Truthful(s)'
            BY <1>0, <2>0 DEF Settling, Usable, Alive, Final
        <3>1. /\ \A i, j \in 1..Len(inbox[p]) :
                   inbox[p][i].id = call[d].id /\ j > i => inbox[p][j].cmd \notin Engaging
              /\ \A i \in 1..Len(outbox[p]) :
                   Final(outbox[p][i]) /\ outbox[p][i].id = call[d].id => Truthful(outbox[p][i])
              /\ \A s \in pending : s.id = call[d].id => Truthful(s)
            BY <2>0 DEF Settling
        <3>2. ASSUME NEW s, Truthful(s)  PROVE Truthful(s)'
            BY <1>0, <3>2 DEF Truthful
        <3>3. ASSUME NEW s \in pending', s.id = call[d].id  PROVE Truthful(s)'
            <4>1. Truthful(s)
                BY <1>0, <1>2, <1>r, <3>1, <3>3
            <4> QED  BY <3>2, <4>1
        <3>4. ASSUME NEW i \in 1..Len(outbox'[p]), Final(outbox'[p][i]),
                     outbox'[p][i].id = call[d].id
              PROVE  Truthful(outbox[p][i])'
            <4>1. PICK s : s = outbox'[p][i]  OBVIOUS
            <4>2. Truthful(s)
                BY <2>1, <3>1, <3>4, <4>1
            <4>3. Truthful(s)'  BY <3>2, <4>2
            <4> QED  BY <4>1, <4>3
        <3> QED  BY <3>1, <3>3, <3>4
    <2> QED  BY <2>6, <2>7
<1> QED  BY <1>3, <1>4

LEMMA StatusServe ==
    ASSUME IInv, NEW p \in Procs, Serve(p)
    PROVE  StatusInv'
<1> USE DEF IInv, StatusInv
<1>1a. PICK i \in 1..Len(inbox[p]) : \E e : Served(p, i, e)
    BY ServeEffect
<1>1. PICK e : Served(p, i, e)
    BY <1>1a
<1>2. /\ p = process /\ child[p].state = "up" /\ p # 0 /\ process \in Alive
      /\ UNCHANGED <<process, pending, model, requested, call, overlapped>>
    BY ServeEffect, WireTypes DEF tableVars, statusVars, historyVars, Alive
<1>x. PICK x : x = Reply(p, i, e.ok /\ child[p].fits, e.status)
    OBVIOUS
<1>3. PICK cmd : cmd = inbox[p][i].cmd
    OBVIOUS
<1>4. /\ i = 1 \/ ApiOnly
      /\ Takes(p, i) /\ Says(p, x)
      /\ Final(x) /\ x.cmd = cmd /\ x.id = inbox[p][i].id /\ x.status = e.status /\ x.type # "ready"
    BY <1>1, <1>3, <1>x DEF Served, Reply, Final
<1>5. cmd \in Commands /\ child[p].engine \in Loaded \cup {"missing"}
      /\ child[p] \in Children
    BY <1>3, WireTypes DEF Lines, Children
<1>6. /\ cmd \in Engaging => e.status # "none" /\ e.status = e.engine
      /\ cmd = "prepare" /\ child[p].engine \in Loaded => e.engine = child[p].engine
      /\ cmd \notin Engaging =>
           /\ e.engine = child[p].engine
           /\ e.status # "none" => e.status = child[p].engine
    <2>1. e \in Effects(cmd, child[p].engine, Wants(p, i))
        BY <1>1, <1>3 DEF Served
    <2> QED  BY <1>5, <2>1, EffectsTyped
<1>7. child'[p].engine = e.engine /\ child'[p].state = "up"
    BY <1>1, <1>2, <1>5 DEF Served, Children, TypeOK
<1>8. \A j \in 1..Len(outbox'[p]) :
          \/ j \in 1..Len(outbox[p]) /\ outbox'[p][j] = outbox[p][j]
          \/ j = Len(outbox[p]) + 1 /\ outbox'[p][j] = x
    BY <1>4 DEF Says, Grew
<1>9. /\ Len(outbox'[p]) = Len(outbox[p]) + 1 /\ outbox'[p][Len(outbox[p]) + 1] = x
      /\ Len(outbox[p]) \in Nat
    BY <1>4, WireTypes DEF Says, Grew
<1>10. \A s : Bears(s)' <=> Bears(s)
    BY <1>2 DEF Bears, Final, Reports, ApiOnly
<1>11. LastWord'
    <2> SUFFICES ASSUME ~overlapped
                 PROVE  /\ \A m \in 1..Len(outbox'[p]) :
                             Bears(outbox'[p][m])
                                 /\ (\A j \in 1..Len(outbox'[p]) : j > m => ~Bears(outbox'[p][j]))
                                 /\ outbox'[p][m].status \in Loaded
                             => outbox'[p][m].status = e.engine
                        /\ (\A m \in 1..Len(outbox'[p]) : ~Bears(outbox'[p][m])) /\ model \in Loaded
                             => model = e.engine
        BY <1>2, <1>7 DEF LastWord, Bears, Final, Reports, ApiOnly
    <2>1. Len(outbox[p]) + 1 \in 1..Len(outbox'[p])
        BY <1>9
    <2>2. CASE Bears(x)
        <3>1. e.status # "none" /\ e.status = e.engine
            BY <1>4, <1>6, <2>2 DEF Bears, Reports
        <3>2. ASSUME NEW m \in 1..Len(outbox'[p]),
                     \A j \in 1..Len(outbox'[p]) : j > m => ~Bears(outbox'[p][j])
              PROVE  outbox'[p][m] = x
            <4>1. ~(Len(outbox[p]) + 1 > m)
                BY <1>9, <2>1, <2>2, <3>2
            <4> QED  BY <1>8, <1>9, <4>1
        <3> QED  BY <1>4, <1>9, <2>1, <2>2, <3>1, <3>2
    <2>3. CASE ~Bears(x)
        <3>1. ASSUME NEW v \in Loaded, v = child[p].engine  PROVE v = e.engine
            <4>1. CASE cmd \notin Engaging
                BY <1>6, <3>1, <4>1
            <4>2. CASE cmd \in Engaging
                <5>1. ~ApiOnly
                    BY <1>3, <4>2 DEF WireInv, NeverTold
                <5>2. cmd = "prepare"
                    BY <1>4, <1>6, <2>3, <4>2, <5>1 DEF Bears, Reports
                <5> QED  BY <1>6, <3>1, <5>2
            <4> QED  BY <4>1, <4>2
        <3>2. /\ \A m \in 1..Len(outbox[p]) :
                   Bears(outbox[p][m])
                       /\ (\A j \in 1..Len(outbox[p]) : j > m => ~Bears(outbox[p][j]))
                       /\ outbox[p][m].status \in Loaded
                   => outbox[p][m].status = child[p].engine
              /\ (\A m \in 1..Len(outbox[p]) : ~Bears(outbox[p][m])) /\ model \in Loaded
                   => model = child[p].engine
            BY <1>2 DEF LastWord
        <3>3. \A j \in 1..Len(outbox[p]) : j \in 1..Len(outbox'[p]) /\ outbox'[p][j] = outbox[p][j]
            <4> SUFFICES ASSUME NEW j \in 1..Len(outbox[p])
                         PROVE  j \in 1..Len(outbox'[p]) /\ outbox'[p][j] = outbox[p][j]
                OBVIOUS
            <4>1. j \in 1..Len(outbox'[p]) /\ j # Len(outbox[p]) + 1
                BY <1>9
            <4> QED  BY <1>8, <4>1
        <3>4. ASSUME NEW m \in 1..Len(outbox'[p]), Bears(outbox'[p][m]),
                     \A j \in 1..Len(outbox'[p]) : j > m => ~Bears(outbox'[p][j]),
                     outbox'[p][m].status \in Loaded
              PROVE  outbox'[p][m].status = e.engine
            <4>1. m \in 1..Len(outbox[p]) /\ outbox'[p][m] = outbox[p][m]
                BY <1>8, <2>3, <3>4
            <4>2. \A j \in 1..Len(outbox[p]) : j > m => ~Bears(outbox[p][j])
                BY <3>3, <3>4
            <4> QED  BY <3>1, <3>2, <3>4, <4>1, <4>2
        <3>5. ASSUME \A m \in 1..Len(outbox'[p]) : ~Bears(outbox'[p][m]), model \in Loaded
              PROVE  model = e.engine
            <4>1. \A m \in 1..Len(outbox[p]) : ~Bears(outbox[p][m])
                BY <3>3, <3>5
            <4> QED  BY <3>1, <3>2, <3>5, <4>1
        <3> QED  BY <3>4, <3>5
    <2> QED  BY <2>2, <2>3
<1>12. Settling'
    <2> SUFFICES ASSUME ~overlapped, NEW d \in Callers, call[d].at \in {"preparing", "switching"}
                 PROVE  /\ \A a, b \in 1..Len(inbox'[p]) :
                             inbox'[p][a].id = call[d].id /\ b > a
                                 => inbox'[p][b].cmd \notin Engaging
                        /\ \A m \in 1..Len(outbox'[p]) :
                             Final(outbox'[p][m]) /\ outbox'[p][m].id = call[d].id
                                 => Truthful(outbox[p][m])'
                        /\ \A s \in pending : s.id = call[d].id => Truthful(s)'
        BY <1>2 DEF Settling, Final
    <2>1. i = 1
        BY <1>4 DEF CallInv, CallsDiffer
    <2>2. \A j \in 1..Len(inbox'[p]) : j + 1 \in 1..Len(inbox[p]) /\ inbox'[p][j] = inbox[p][j + 1]
        BY <1>4, <2>1 DEF Takes, Lost
    <2>3. /\ \A a, b \in 1..Len(inbox[p]) :
               inbox[p][a].id = call[d].id /\ b > a => inbox[p][b].cmd \notin Engaging
          /\ \A m \in 1..Len(outbox[p]) :
               Final(outbox[p][m]) /\ outbox[p][m].id = call[d].id => Truthful(outbox[p][m])
          /\ \A s \in pending : s.id = call[d].id => Truthful(s)
        BY <1>2 DEF Settling, Usable
    <2>4. ASSUME NEW a \in 1..Len(inbox'[p]), NEW b \in 1..Len(inbox'[p]),
                 inbox'[p][a].id = call[d].id, b > a
          PROVE  inbox'[p][b].cmd \notin Engaging
        <3>1. b + 1 > a + 1
            BY <2>4
        <3> QED  BY <2>2, <2>3, <2>4, <3>1
    <2>5. ASSUME NEW s, Truthful(s)  PROVE Truthful(s)'
        <3>1. cmd \notin Engaging
            BY <1>2, <1>3, <2>5 DEF Truthful
        <3>2. \A j \in 1..Len(inbox'[p]) : inbox'[p][j].cmd \notin Engaging
            BY <1>2, <2>2, <2>5 DEF Truthful
        <3> QED  BY <1>2, <1>6, <1>7, <2>5, <3>1, <3>2 DEF Truthful
    <2>6. ASSUME x.id = call[d].id  PROVE Truthful(x)'
        <3>1. \A j \in 1..Len(inbox'[p]) : inbox'[p][j].cmd \notin Engaging
            <4> SUFFICES ASSUME NEW j \in 1..Len(inbox'[p])  PROVE inbox'[p][j].cmd \notin Engaging
                OBVIOUS
            <4>1. j + 1 \in 1..Len(inbox[p]) /\ inbox'[p][j] = inbox[p][j + 1] /\ j + 1 > 1
                BY <2>2
            <4> QED  BY <1>4, <2>1, <2>3, <2>6, <4>1
        <3>2. e.status \in Loaded => e.status = e.engine
            BY <1>6 DEF Loaded
        <3> QED  BY <1>2, <1>4, <1>7, <3>1, <3>2 DEF Truthful
    <2>7. ASSUME NEW m \in 1..Len(outbox'[p]), Final(outbox'[p][m]), outbox'[p][m].id = call[d].id
          PROVE  Truthful(outbox[p][m])'
        <3>1. PICK z : z = outbox'[p][m]  OBVIOUS
        <3>2. Truthful(z)'
            BY <1>8, <2>3, <2>5, <2>6, <2>7, <3>1
        <3> QED  BY <3>1, <3>2
    <2>8. \A s \in pending : s.id = call[d].id => Truthful(s)'
        BY <2>3, <2>5
    <2> QED  BY <2>4, <2>7, <2>8
<1> QED  BY <1>11, <1>12

LEMMA StatusBoot ==
    ASSUME IInv, NEW p \in Procs, Boot(p)
    PROVE  StatusInv'
<1> USE DEF IInv, StatusInv
<1>1. PICK engine \in Loaded \cup {"missing"}, same \in BOOLEAN :
        /\ child' = [child EXCEPT ![p].state = "up", ![p].engine = engine, ![p].fits = same]
        /\ Says(p, Greet(p, engine, same))
    BY BootEffect
<1>2. /\ p = process /\ child[p].state = "starting" /\ p # 0 /\ process \in Alive
      /\ UNCHANGED <<process, inbox, pending, model, requested, call, overlapped>>
    BY BootEffect, WireTypes DEF tableVars, statusVars, historyVars, Alive
<1>3. child'[p].engine = engine
    BY <1>1, <1>2, WireTypes DEF TypeOK, Children
<1>4. Greet(p, engine, same).type = "ready" /\ Greet(p, engine, same).status = engine
    BY DEF Greet
<1>5. Len(outbox[p]) = 0
    BY <1>2 DEF ChildInv, Greets
<1>6. /\ 1 \in 1..Len(outbox'[p])
      /\ \A j \in 1..Len(outbox'[p]) : j = 1 /\ outbox'[p][j].type = "ready"
                                       /\ outbox'[p][j].status = engine
    BY <1>1, <1>4, <1>5 DEF Says, Grew
<1>7. LastWord'
    BY <1>2, <1>3, <1>6 DEF LastWord, Bears, Final
<1>8. Settling'
    <2>1. pending = {}
        BY <1>2 DEF ChildInv, Known, Greeted
    <2>2. Usable
        BY <1>2 DEF Usable
    <2> QED  BY <1>2, <1>6, <2>1, <2>2 DEF Settling, Final
<1> QED  BY <1>7, <1>8

LEMMA StatusStream ==
    ASSUME IInv, NEW p \in Procs, Stream(p)
    PROVE  StatusInv'
<1> USE DEF IInv, StatusInv
<1>1. PICK i \in 1..Len(inbox[p]) : Says(p, Part(p, i))
    BY StreamEffect
<1>2. /\ p = process /\ child[p].state = "up" /\ p # 0
      /\ UNCHANGED <<process, child, inbox, pending, model, requested, call, overlapped>>
    BY StreamEffect, WireTypes DEF tableVars, statusVars, historyVars
<1>x. PICK x : x = Part(p, i)
    OBVIOUS
<1>3. x.type = "delta" /\ Says(p, x)
    BY <1>1, <1>x DEF Part
<1>4. \A j \in 1..Len(outbox'[p]) :
          \/ j \in 1..Len(outbox[p]) /\ outbox'[p][j] = outbox[p][j]
          \/ j = Len(outbox[p]) + 1 /\ outbox'[p][j] = x
    BY <1>3 DEF Says, Grew
<1>5. \A j \in 1..Len(outbox[p]) : j \in 1..Len(outbox'[p]) /\ outbox'[p][j] = outbox[p][j]
    <2> SUFFICES ASSUME NEW j \in 1..Len(outbox[p])
                 PROVE  j \in 1..Len(outbox'[p]) /\ outbox'[p][j] = outbox[p][j]
        OBVIOUS
    <2>1. Len(outbox'[p]) = Len(outbox[p]) + 1 /\ Len(outbox[p]) \in Nat
        BY <1>3, WireTypes DEF Says, Grew
    <2>2. j \in 1..Len(outbox'[p]) /\ j # Len(outbox[p]) + 1
        BY <2>1
    <2> QED  BY <1>4, <2>2
<1>6. ~Bears(x) /\ ~Final(x)
    BY <1>3 DEF Bears, Final
<1>7. \A s : Bears(s)' <=> Bears(s)
    BY <1>2 DEF Bears, Final, Reports, ApiOnly
<1>8. LastWord'
    <2> SUFFICES ASSUME ~overlapped
                 PROVE  /\ \A m \in 1..Len(outbox'[p]) :
                             Bears(outbox'[p][m])
                                 /\ (\A j \in 1..Len(outbox'[p]) : j > m => ~Bears(outbox'[p][j]))
                                 /\ outbox'[p][m].status \in Loaded
                             => outbox'[p][m].status = child[p].engine
                        /\ (\A m \in 1..Len(outbox'[p]) : ~Bears(outbox'[p][m])) /\ model \in Loaded
                             => model = child[p].engine
        BY <1>2 DEF LastWord, Bears, Final, Reports, ApiOnly
    <2>1. /\ \A m \in 1..Len(outbox[p]) :
               Bears(outbox[p][m])
                   /\ (\A j \in 1..Len(outbox[p]) : j > m => ~Bears(outbox[p][j]))
                   /\ outbox[p][m].status \in Loaded
               => outbox[p][m].status = child[p].engine
          /\ (\A m \in 1..Len(outbox[p]) : ~Bears(outbox[p][m])) /\ model \in Loaded
               => model = child[p].engine
        BY <1>2 DEF LastWord
    <2>2. ASSUME NEW m \in 1..Len(outbox'[p]), Bears(outbox'[p][m]),
                 \A j \in 1..Len(outbox'[p]) : j > m => ~Bears(outbox'[p][j]),
                 outbox'[p][m].status \in Loaded
          PROVE  outbox'[p][m].status = child[p].engine
        <3>1. m \in 1..Len(outbox[p]) /\ outbox'[p][m] = outbox[p][m]
            BY <1>4, <1>6, <2>2
        <3>2. \A j \in 1..Len(outbox[p]) : j > m => ~Bears(outbox[p][j])
            BY <1>5, <2>2
        <3> QED  BY <2>1, <2>2, <3>1, <3>2
    <2>3. ASSUME \A m \in 1..Len(outbox'[p]) : ~Bears(outbox'[p][m]), model \in Loaded
          PROVE  model = child[p].engine
        <3>1. \A m \in 1..Len(outbox[p]) : ~Bears(outbox[p][m])
            BY <1>5, <2>3
        <3> QED  BY <2>1, <2>3, <3>1
    <2> QED  BY <2>2, <2>3
<1>9. Settling'
    <2> SUFFICES ASSUME ~overlapped, Usable, NEW d \in Callers,
                        call[d].at \in {"preparing", "switching"}
                 PROVE  /\ \A a, b \in 1..Len(inbox[p]) :
                             inbox[p][a].id = call[d].id /\ b > a
                                 => inbox[p][b].cmd \notin Engaging
                        /\ \A m \in 1..Len(outbox'[p]) :
                             Final(outbox'[p][m]) /\ outbox'[p][m].id = call[d].id
                                 => Truthful(outbox[p][m])'
                        /\ \A s \in pending : s.id = call[d].id => Truthful(s)'
        BY <1>2 DEF Settling, Final, Usable, Alive
    <2>1. /\ \A a, b \in 1..Len(inbox[p]) :
               inbox[p][a].id = call[d].id /\ b > a => inbox[p][b].cmd \notin Engaging
          /\ \A m \in 1..Len(outbox[p]) :
               Final(outbox[p][m]) /\ outbox[p][m].id = call[d].id => Truthful(outbox[p][m])
          /\ \A s \in pending : s.id = call[d].id => Truthful(s)
        BY <1>2 DEF Settling
    <2>2. ASSUME NEW s, Truthful(s)  PROVE Truthful(s)'
        BY <1>2, <2>2 DEF Truthful
    <2>3. ASSUME NEW m \in 1..Len(outbox'[p]), Final(outbox'[p][m]), outbox'[p][m].id = call[d].id
          PROVE  Truthful(outbox[p][m])'
        <3>1. PICK z : z = outbox'[p][m]  OBVIOUS
        <3>2. Truthful(z)'
            BY <1>4, <1>6, <2>1, <2>2, <2>3, <3>1
        <3> QED  BY <3>1, <3>2
    <2> QED  BY <2>1, <2>2, <2>3
<1> QED  BY <1>8, <1>9

LEMMA StatusByChannel ==
    ASSUME IInv,
           \/ \E p \in Procs : Reader(p) \/ Boot(p) \/ Serve(p) \/ Stream(p) \/ Exit(p) \/ Die(p)
           \/ Close \/ Cancel
    PROVE  StatusInv'
<1> USE DEF IInv
<1>1. ASSUME NEW p \in Procs, Read(p)  PROVE StatusInv'
    BY <1>1, StatusRead
<1>2. ASSUME NEW p \in Procs, PassOn(p)  PROVE StatusInv'
    <2>1. UNCHANGED <<process, overlapped, call, requested, pending, model, child, inbox, outbox>>
        BY <1>2 DEF PassOn, tableVars, statusVars, historyVars
    <2> QED  BY <2>1, StatusSame
<1>3. ASSUME NEW p \in Procs, EndOfFile(p) \/ (p \in Alive /\ Stops(p))  PROVE StatusInv'
    <2>1. /\ UNCHANGED <<process, overlapped, call, requested, pending, outbox>>
          /\ \A q \in Procs \ {p} : child'[q] = child[q] /\ inbox'[q] = inbox[q]
          /\ child'[p].state \in {"dead", "gone"} /\ (p # process => model' = model)
        <3>1. CASE EndOfFile(p)
            BY <3>1 DEF EndOfFile, IsCurrent, wireVars, tableVars, historyVars, TypeOK, Children
        <3>2. CASE Stops(p)
            BY <3>2, StopEffect DEF tableVars, statusVars, historyVars
        <3> QED  BY <1>3, <3>1, <3>2
    <2>2. CASE p # process
        BY <2>1, <2>2, StatusSame DEF TypeOK
    <2>3. CASE p = process
        BY <2>1, <2>3 DEF StatusInv, LastWord, Settling, Usable, Alive
    <2> QED  BY <2>2, <2>3
<1>4. ASSUME NEW p \in Procs, Boot(p)  PROVE StatusInv'
    BY <1>4, StatusBoot
<1>5. ASSUME NEW p \in Procs, Serve(p)  PROVE StatusInv'
    BY <1>5, StatusServe
<1>6. ASSUME NEW p \in Procs, Stream(p)  PROVE StatusInv'
    BY <1>6, StatusStream
<1>7. CASE Close \/ Cancel
    <2>1. process' = 0 /\ 0 \notin Procs
        BY <1>7 DEF Close, Cancel, Procs
    <2> QED  BY <2>1 DEF StatusInv, LastWord, Settling, Usable, Alive
<1> QED  BY <1>1, <1>2, <1>3, <1>4, <1>5, <1>6, <1>7 DEF Reader, Exit, Die

-----------------------------------------------------------------------------
(* The theorems *)

LEMMA InvInit == Init => IInv
<1> SUFFICES ASSUME Init  PROVE IInv
    OBVIOUS
<1> USE ChannelAssumption DEF Init
<1>1. TypeOK
    <2>1. NoChild \in Children
        BY DEF NoChild, Children
    <2>2. <<>> \in Seq(Lines) /\ <<>> \in Seq(Replies)
        OBVIOUS
    <2>3. call \in [Callers -> Calls] /\ child \in [Procs -> Children]
        BY <2>1, NoCallTyped
    <2> QED  BY <2>2, <2>3 DEF TypeOK
<1>2. /\ \A p \in Procs : /\ inbox[p] = <<>> /\ outbox[p] = <<>> /\ delivering[p] = 0
                          /\ child[p].state = "none"
      /\ \A c \in Callers : call[c] = NoCall
      /\ 0 \notin Procs /\ 0 \notin Ids
    BY DEF NoChild, Procs, Ids
<1>3. \A p \in Procs : \A id \in Ids : ~Has(p, id)
    BY <1>2 DEF Has
<1>4. OneHome /\ Counted /\ Collected /\ OneReply
    BY <1>3 DEF OneHome, Counted, Collected, OneReply
<1>5. LinesDiffer /\ AnsweredOnce /\ RepliesProper /\ NeverTold
    BY <1>2 DEF LinesDiffer, AnsweredOnce, RepliesProper, NeverTold
<1>6. CallsDiffer
    BY <1>2, NoCallTyped DEF CallsDiffer, Idle
<1>7. Owned /\ NoOrphans /\ Expected /\ CallbacksWait
    BY <1>2, NoCallTyped DEF Owned, NoOrphans, Expected, CallbacksWait
<1>8. Fresh /\ Deserted /\ Greets /\ Known /\ Early /\ RightVersion
    BY <1>2 DEF Fresh, Deserted, Writable, Alive, Greets, Known, Early, RightVersion
<1>9. LastWord /\ Settling
    BY <1>2 DEF LastWord, Settling, Usable, Alive
<1> QED  BY <1>1, <1>4, <1>5, <1>6, <1>7, <1>8, <1>9
        DEF IInv, WireInv, CallInv, ChildInv, StatusInv

LEMMA InvStep == IInv /\ [Next]_vars => IInv'
<1> SUFFICES ASSUME IInv, [Next]_vars  PROVE IInv'
    OBVIOUS
<1>1. ASSUME NEW c \in Callers, Begins(c) \/ Wakes(c) \/ TimesOut(c)
      PROVE  IInv'
    <2>1. CallerKinds(c)
        BY <1>1, CallerSteps
    <2> QED  BY <2>1, TypeByCaller, WireByCaller, CallByCaller, ChildByCaller, StatusByCaller
            DEF IInv
<1>2. CASE \/ \E p \in Procs : Reader(p) \/ Boot(p) \/ Serve(p) \/ Stream(p) \/ Exit(p) \/ Die(p)
           \/ Close \/ Cancel
    BY <1>2, TypeByChannel, WireByChannel, CallByChannel, ChildByChannel, StatusByChannel
       DEF IInv
<1>3. CASE UNCHANGED vars
    <2>1. UNCHANGED <<process, child, cancelled, inbox, outbox, delivering, model, requested,
                      running, serial, pending, expired, callbacks, call, forgotten, overlapped>>
        BY <1>3 DEF vars, wireVars, tableVars, statusVars, historyVars
    <2>2. TypeOK'
        BY <2>1 DEF IInv, TypeOK
    <2>3. WireInv'
        <3>1. Quiet /\ (ApiOnly' <=> ApiOnly)
            BY <2>1 DEF Quiet, ApiOnly, wireVars
        <3> QED  BY <3>1, WireQuiet DEF IInv
    <2>4. CallInv'
        BY <2>1, CallSay
    <2>5. ChildInv'
        <3>1. Fresh' /\ Deserted' /\ Greets' /\ Early' /\ RightVersion'
            BY <2>1 DEF IInv, ChildInv, Fresh, Deserted, Greets, Early, RightVersion, Writable,
                        Alive, ApiOnly
        <3>2. Known'
            BY <2>1 DEF IInv, ChildInv, Known, Greeted, Greeting, Alive, ApiOnly
        <3> QED  BY <3>1, <3>2 DEF ChildInv
    <2>6. StatusInv'
        BY <2>1, StatusSame
    <2> QED  BY <2>2, <2>3, <2>4, <2>5, <2>6 DEF IInv
<1> QED  BY <1>1, <1>2, <1>3 DEF Next

\* The channel keeps all of the inductive invariant.
LEMMA Invariant == Spec => []IInv
<1>1. Init => IInv  BY InvInit
<1>2. IInv /\ [Next]_vars => IInv'  BY InvStep
<1> QED  BY <1>1, <1>2, PTL DEF Spec

\* What follows of the table: every reply that waits under a caller's id is the final one,
\* to what that caller sent, and nothing else on the way has the id.
LEMMA RepliesFitHolds == IInv => RepliesFit
<1> SUFFICES ASSUME IInv  PROVE RepliesFit
    OBVIOUS
<1>1. TypeOK /\ RightVersion /\ NoOrphans
    BY DEF IInv, ChildInv, CallInv
<1>2. AnswersMatch
    BY TakenReply DEF AnswersMatch, Final, Sent
<1>3. DeltasComeFirst
    <2>1. ASSUME NEW c \in Callers, ReplyFor(c) # {}, NEW p \in Procs
          PROVE  delivering[p] # call[c].id
        BY <2>1, TakenReply DEF Has
    <2>2. \A id \in callbacks : \E c \in Callers : call[c].id = id
        BY DEF IInv, CallInv, CallbacksWait
    <2> QED  BY <2>1, <2>2 DEF DeltasComeFirst
<1> QED  BY <1>1, <1>2, <1>3 DEF RepliesFit

\* Whatever the child answers, and however late, reaches the request it was made for, or
\* nobody, whichever calls, deadlines and children come between (185-226 and 232-290).
THEOREM RepliesAlwaysFit == Spec => []RepliesFit
BY Invariant, RepliesFitHolds, PTL

\* At rest, a model reported as loaded is the one the child runs (runtime_status).
THEOREM StatusStaysTrue == Spec => []StatusIsTrue
<1>1. IInv => StatusIsTrue
    <2> SUFFICES ASSUME IInv, AtRest, ~overlapped, model \in Loaded
                 PROVE  model = child[process].engine
        BY DEF StatusIsTrue
    <2>1. process # 0
        BY DEF AtRest, Usable, Alive, Procs
    <2>2. Len(outbox[process]) = 0
        BY DEF AtRest
    <2> QED  BY <2>1, <2>2 DEF AtRest, IInv, StatusInv, LastWord
<1> QED  BY <1>1, Invariant, PTL

\* Nobody sends a cancelled worker a turn, and nobody takes its answer (247-250, 552-563).
THEOREM CancelStaysFinal == Spec => CancelIsFinal
<1> DEFINE Kept == /\ \A p \in cancelled : Len(inbox'[p]) <= Len(inbox[p])
                   /\ \A c \in Callers :
                        call[c].at = "waiting" /\ ReplyFor(c) # {} /\ call'[c].at = "out"
                            => call[c].mine \notin cancelled
<1>1. IInv /\ [Next]_vars => [Kept]_vars
    <2> SUFFICES ASSUME IInv, Next  PROVE Kept
        OBVIOUS
    <2>1. ASSUME NEW c \in Callers, call[c].at = "waiting", ReplyFor(c) # {}
          PROVE  call[c].mine \notin cancelled
        <3>1. PICK r \in ReplyFor(c) : r \in pending /\ r.by = call[c].mine
            BY <2>1, TakenReply
        <3> QED  BY <3>1 DEF IInv, ChildInv, Fresh
    <2>2. ASSUME NEW p \in cancelled  PROVE Len(inbox'[p]) <= Len(inbox[p])
        <3>0. TypeOK /\ p \in Procs /\ p # process
            BY DEF IInv, TypeOK, ChildInv, Fresh
        <3>1. Len(inbox[p]) \in Nat
            BY <3>0, WireTypes
        <3>2. ASSUME NEW c \in Callers, CallerKinds(c)  PROVE inbox'[p] = inbox[p]
            <4>1. ASSUME NEW k, NEW l, NEW n, NEW m, Sending(c, k, l, n, m)
                  PROVE  inbox'[p] = inbox[p]
                BY <3>0, <4>1, SendingTypes, WriteEffect DEF Sending, Sends
            <4>2. CASE Leaving(c) \/ Attending(c) \/ LaunchRaises \/ Choosing
                BY <4>2 DEF Leaving, Attending, LaunchRaises, Choosing, wireVars
            <4>3. ASSUME NEW q \in Procs, Launching(c, q)  PROVE inbox'[p] = inbox[p]
                BY <3>0, <4>3, LaunchEffect DEF Launching, wireVars
            <4> QED  BY <3>2, <4>1, <4>2, <4>3 DEF CallerKinds
        <3>3. ASSUME NEW q \in Procs, Serve(q)  PROVE inbox'[p] = inbox[p]
            <4>1. q = process /\ \E i \in 1..Len(inbox[q]) : \E e : Served(q, i, e)
                BY <3>0, <3>3, ServeEffect
            <4> QED  BY <3>0, <4>1 DEF Served, Takes
        <3>4. ASSUME NEW q \in Procs, Stops(q)  PROVE Len(inbox'[p]) <= Len(inbox[p])
            BY <3>0, <3>1, <3>4, StopEffect
        <3>5. ASSUME NEW q \in Procs, Reader(q) \/ Boot(q) \/ Stream(q)
              PROVE  inbox'[p] = inbox[p]
            BY <3>5 DEF Reader, Read, PassOn, EndOfFile, Boot, Stream, wireVars
        <3>6. CASE Close \/ Cancel
            BY <3>1, <3>6 DEF Close, Cancel, wireVars
        <3> QED  BY <3>1, <3>2, <3>3, <3>4, <3>5, <3>6, CallerSteps DEF Next, Exit, Die
    <2> QED  BY <2>1, <2>2
<1>2. Spec => [][Kept]_vars
    BY <1>1, Invariant, PTL DEF Spec
<1> QED  BY <1>2 DEF CancelIsFinal

=============================================================================
