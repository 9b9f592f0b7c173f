---------------------------- MODULE WeChatReader ----------------------------
(***************************************************************************)
(* How the bridge comes to read one WeChat account and stays on it         *)
(* (bridge/wechat_source.py, live_source.py, cache_source.py,              *)
(* account_leases.py and account_pin_source.py).  A WeChat process owns    *)
(* the files of the account it has logged in; the bridge asks Windows for  *)
(* that ownership, takes the account's lease, gets the keys of its         *)
(* databases from the saved ones or from a background scan of the process, *)
(* and keeps one reader.  A request or a task captures a binding, reads    *)
(* and delivers under it, while accounts log in and out, processes end,    *)
(* databases are replaced, another instance takes a lease and the user     *)
(* pins or removes an account.                                             *)
(*                                                                         *)
(* One reading holds the source lock from its first ownership question to  *)
(* its last, which is "op"; the scans and the world do not wait for it.    *)
(***************************************************************************)
EXTENDS Naturals, FiniteSets

CONSTANTS
    Accounts,    \* the account directories that discovery reports
    Procs,       \* WeChat processes, a PID with its creation time each
    Tasks,       \* requests and queued work
    Saved,       \* keys that the key caches on disk hold
    Pins,        \* what the user may pin: accounts, or None for no pin
    Shared,      \* accounts that another instance may take
    Shards,      \* bound: versions of each account's message shards, from 0
    MaxAnchors,  \* bound: versions of the anchor databases
    MaxScans,    \* bound: scans at work
    MaxMoves,    \* bound: logins, logouts, ended processes and changes by the user
    None         \* no account, process, reader, origin or slot

\* A key opens one version of one group of databases.  A selection is the account that
\* is read and the processes that have it open; a token adds the first pages to it.
Keys == [acct : Accounts, part : {"anchors", "shards"}, ver : Nat]
Selections == [acct : Accounts, procs : SUBSET Procs]
Tokens == [sel : Selections, anchors : Nat, shards : Nat]
Readers == [acct : Accounts, sel : Selections, keys : SUBSET Keys, ready : BOOLEAN,
            token : Tokens]
Slots == [token : Tokens, state : {"running", "failed", "sessions", "ready"},
          keys : SUBSET Keys, scanning : BOOLEAN]

ASSUME ReaderAssumption ==
    /\ IsFiniteSet(Accounts)
    /\ Saved \subseteq Keys
    /\ Pins \subseteq Accounts \cup {None}
    /\ Shared \subseteq Accounts
    /\ Shards \in [Accounts -> (SUBSET Nat) \ {{}}]
    /\ MaxAnchors \in Nat \ {0}
    /\ MaxScans \in Nat \ {0}
    /\ MaxMoves \in Nat
    /\ None \notin Accounts \cup Procs /\ None \notin Readers /\ None \notin Slots

VARIABLES
    owner,   \* the process that has the account's files open
    alive,   \* running WeChat processes
    spent,   \* processes that have ever run
    moves,   \* what has happened outside of the bridge's own work
    pages,   \* version of each account's first pages: anchors, message shards (0: none)
    other,   \* the account another instance holds
    pin,     \* the account this instance is pinned to
    cache,   \* ownership answers that may be reused
    src,     \* reader, observed origin, lease of the account, advisor's identity, closed
    bound,   \* tasks whose binding has the current generation
    op,      \* the reading that holds the source lock
    slot,    \* the factory's slot
    gone,    \* history: accounts forgotten, and not asked for since
    scans,   \* running scans, attached to the slot or not
    task

world == <<owner, alive, spent, pages, other>>
outside == <<world, moves>>
factory == <<slot, scans, gone>>
vars == <<outside, pin, cache, src, bound, op, factory, task>>

Late == {None}
NoTask == [stage |-> "idle", mode |-> "request", bind |-> None, reader |-> None,
           data |-> None, moved |-> FALSE]

Init ==
    /\ owner = [a \in Accounts |-> None]
    /\ alive = {}
    /\ spent = {}
    /\ moves = 0
    /\ pages = [a \in Accounts |->
                  [anchors |-> 1, shards |-> CHOOSE v \in Shards[a] : \A w \in Shards[a] : v <= w]]
    /\ other = None
    /\ pin \in Pins
    /\ cache = [a \in Accounts |-> None]
    /\ src = [db |-> None, origin |-> None, held |-> None, lease |-> None, closed |-> FALSE]
    /\ bound = {}
    /\ op = None
    /\ slot = None
    /\ scans = {}
    /\ gone = {}
    /\ task = [t \in Tasks |-> NoTask]

----------------------------------------------------------------------------
(* Databases and keys. *)

Key(a, part) == [acct |-> a, part |-> part, ver |-> pages[a][part]]
SessionsReady(a, keys) == Key(a, "anchors") \in keys
MessagesReady(a, keys) ==
    SessionsReady(a, keys) /\ pages[a].shards > 0 /\ Key(a, "shards") \in keys
\* _token: the selection with the first pages of all databases, or of the anchors.
Token(s, whole) == [sel |-> s, anchors |-> pages[s.acct].anchors,
                    shards |-> IF whole THEN pages[s.acct].shards ELSE 0]
TokenKeys(tk) ==
    {[acct |-> tk.sel.acct, part |-> "anchors", ver |-> tk.anchors]} \cup
    (IF tk.shards > 0 THEN {[acct |-> tk.sel.acct, part |-> "shards", ver |-> tk.shards]} ELSE {})
\* _live_reader_valid.
Valid(r, s) ==
    /\ r.sel = s
    /\ r.token = Token(s, r.ready)
    /\ IF r.ready THEN MessagesReady(s.acct, r.keys) ELSE SessionsReady(s.acct, r.keys)

----------------------------------------------------------------------------
(* Ownership.  Each account is a question of its own to Windows.  It fails  *)
(* when Windows does, or when another thread resets the answers meanwhile.  *)

Asked == IF pin = None THEN Accounts ELSE {pin}
Owners(a) == {owner[a]} \ {None}
\* Only a process that still runs under its creation time counts as an owner,
\* and only a single owned account is a selection.
Selection(answer) ==
    LET owned == {a \in DOMAIN answer : answer[a] \cap alive # {}}
    IN  IF Cardinality(owned) = 1
        THEN LET a == CHOOSE x \in owned : TRUE
             IN  [acct |-> a, procs |-> answer[a] \cap alive]
        ELSE None
SelectedNow == Selection([a \in Asked |-> Owners(a)])
NoAnswers == [a \in Accounts |-> None]

\* Ordinary reads may reuse an answer; the checks ask again.
Reuses(kind) == kind = "open"

\* A reading begins, or asks again before it ends: of the saved answers those
\* within their time are taken, some accounts are looked at now, the others by
\* the time the question is answered.
Question(t, kind, kept, early, r) ==
    [task |-> t, kind |-> kind, stage |-> "asked", sel |-> None, reader |-> r,
     seen |-> [a \in Asked |-> IF a \in kept THEN cache[a]
                               ELSE IF a \in early THEN Owners(a) ELSE Late]]

Answer(o) == [a \in DOMAIN o.seen |-> IF o.seen[a] = Late THEN Owners(a) ELSE o.seen[a]]
\* An answer whose process is gone, or no process at all, resets the answers.
Remembered(o) ==
    IF alive = {} \/ \E a \in DOMAIN o.seen : Answer(o)[a] \ alive # {} THEN NoAnswers
    ELSE [a \in Accounts |-> IF a \in DOMAIN o.seen THEN Answer(o)[a] ELSE cache[a]]

----------------------------------------------------------------------------
(* The factory: one slot for one selection and version of the databases. *)

Reader(s, keys, ready) == [acct |-> s.acct, sel |-> s, keys |-> keys, ready |-> ready,
                           token |-> Token(s, ready)]
\* A slot that is dropped leaves its scan running, with nothing to publish to.
Detached == {[c EXCEPT !.attached = FALSE] : c \in scans}
NewScan(s, keys) == [sel |-> s, token |-> Token(s, TRUE), keys |-> keys,
                     stage |-> "searching", attached |-> TRUE]
SavedKeys(a) == {k \in Saved : k.acct = a /\ k.ver = pages[a][k.part]}

\* What one call of the factory may return, and leave behind; "due" says that
\* the time of the slot's next attempt has come.
Made(s, due) ==
    LET a == s.acct
        same == slot # None /\ slot.token = Token(s, TRUE)
        mine == IF same THEN slot ELSE None
        left == IF same THEN scans ELSE Detached
        again == same /\ slot.state = "sessions" /\ ~slot.scanning /\ due
        held == [slot EXCEPT !.scanning = @ \/ again]
        broken == [held EXCEPT !.state = "failed", !.keys = {}]
        more == IF again THEN left \cup {NewScan(s, SavedKeys(a) \cup slot.keys)} ELSE left
        fresh == [token |-> Token(s, TRUE), state |-> "running", keys |-> {},
                  scanning |-> TRUE]
    IN  IF MessagesReady(a, Saved)
        THEN {[reader |-> Reader(s, SavedKeys(a), TRUE), slot |-> slot, scans |-> scans]}
        ELSE IF mine # None /\ slot.state \in {"ready", "sessions"}
        THEN {[reader |-> Reader(s, slot.keys, slot.state = "ready"), slot |-> held, scans |-> more],
              [reader |-> None, slot |-> broken, scans |-> more]}
        ELSE IF mine # None /\ (slot.state = "running" \/ ~due)
        THEN {[reader |-> None, slot |-> slot, scans |-> left]}
        ELSE {[reader |-> None, slot |-> fresh,
               scans |-> Detached \cup {NewScan(s, SavedKeys(a))}]}

\* What reading the process's memory may find: any of the keys of the databases
\* as they were, as its limits of bytes, regions and time allow.
Findable(c, looks) == IF looks = "same" THEN TokenKeys(c.token) ELSE {}
\* The identity is asked afresh before the memory is read; the query may fail.
ScanMemory(c, looks, found) ==
    /\ c \in scans /\ c.stage = "searching"
    /\ looks \in {"same", "changed"}
    /\ looks = "same" => SelectedNow = c.sel
    /\ found \subseteq Findable(c, looks)
    /\ scans' = (scans \ {c}) \cup
                {[c EXCEPT !.keys = (@ \cap TokenKeys(c.token)) \cup found, !.stage = "found"]}
    /\ UNCHANGED <<outside, pin, cache, src, bound, op, slot, gone, task>>

\* Identity and first pages once more; otherwise nothing of it is kept.
ScanVerify(c, looks) ==
    /\ c \in scans /\ c.stage = "found"
    /\ looks \in {"same", "changed"}
    /\ looks = "same" => SelectedNow = c.sel
    /\ scans' = (scans \ {c}) \cup
                {[c EXCEPT !.stage = "verified",
                           !.keys = IF looks = "same" /\ Token(c.sel, TRUE) = c.token THEN @ ELSE {}]}
    /\ UNCHANGED <<outside, pin, cache, src, bound, op, slot, gone, task>>

\* Bug: the keys are published without asking whether the slot still stands.
PublishedAnyway(c) == TRUE
Published(c) == c.attached /\ slot.scanning
Outcome(tk, keys) ==
    LET sessions == \E k \in keys : k.part = "anchors"
        messages == sessions /\ \E k \in keys : k.part = "shards"
        state == IF messages THEN "ready" ELSE IF sessions THEN "sessions" ELSE "failed"
    IN  [token |-> tk, state |-> state, scanning |-> FALSE,
         keys |-> IF state = "failed" THEN {} ELSE keys]
ScanPublish(c) ==
    /\ c \in scans /\ c.stage = "verified"
    /\ scans' = scans \ {c}
    /\ slot' = IF Published(c) THEN Outcome(c.token, c.keys) ELSE slot
    /\ UNCHANGED <<outside, pin, cache, src, bound, op, gone, task>>

----------------------------------------------------------------------------
(* The reading that holds the source lock. *)

Free == op = None
Released == [src EXCEPT !.db = None, !.lease = None]
\* The generation rises with another origin: bindings before it are void.
Observed(origin) == IF origin = src.origin THEN bound ELSE {}

KeepsReader(t) == task[t].mode \in {"request", "task"}
Expects(t) == task[t].mode # "request" /\ task[t].stage # "idle"
Refused(t, origin) ==
    Expects(t) /\ (t \notin Observed(origin) \/ task[t].bind.origin # origin)
Ends(t) == op' = None /\ task' = [task EXCEPT ![t] = NoTask]

\* Bug: the lease another instance holds is not looked at.
LeaseIgnored(s) == FALSE
LeaseTaken(s) == other = s.acct /\ src.held # s.acct

\* invalidate_advisor_identity, by a release or by a check that failed.
Invalidated ==
    \/ src'.db # src.db /\ src.db # None
    \/ op' = None /\ src'.db = None
    \/ op' = None /\ op.kind \in {"capture", "deliver"} /\ task'[op.task] = NoTask
Checks == op.kind \in {"capture", "deliver"}
Failed(source) == src' = IF Checks THEN [source EXCEPT !.lease = None] ELSE source

\* What a reading does with the reader it was given.
Returned(r, source, still, again) ==
    LET t == op.task
        leased == [source EXCEPT !.lease = IF source.db = r THEN r.acct ELSE @]
        binding == [acct |-> r.acct, origin |-> source.origin]
    IN  /\ bound' = IF op.kind = "capture" /\ r.ready THEN still \cup {t} ELSE still
        /\ \/ ~r.ready /\ Failed(source) /\ Ends(t)
           \/ /\ r.ready /\ op.kind = "capture"
              /\ src' = leased /\ op' = None
              /\ task' = [task EXCEPT ![t].stage = "captured", ![t].bind = binding,
                                      ![t].reader = IF task[t].mode = "request" THEN r ELSE None]
           \/ /\ r.ready /\ op.kind = "open"
              /\ src' = source
              /\ op' = [op EXCEPT !.stage = "reading", !.reader = r]
              /\ task' = [task EXCEPT ![t].reader = IF KeepsReader(t) THEN r ELSE None]
           \/ /\ r.ready /\ op.kind = "recheck"
              /\ src' = source
              /\ IF again THEN /\ op' = None
                               /\ task' = [task EXCEPT ![t].stage = "read", ![t].data = op.reader.sel]
                 ELSE Ends(t)
           \/ /\ r.ready /\ op.kind = "deliver"
              /\ IF t \in still /\ task[t].bind = binding
                 THEN src' = leased /\ op' = None /\ task' = [task EXCEPT ![t].stage = "delivered", ![t].reader = None]
                 ELSE Failed(leased) /\ Ends(t)

\* No account, or more than one, or no answer.
NobodySelected ==
    /\ src' = [Released EXCEPT !.origin = None]
    /\ bound' = Observed(None)
    /\ Ends(op.task)
    /\ UNCHANGED factory

\* _db with a selection: the binding, the lease, the pinned reader, the reader
\* at hand, the factory.
Selected(s) ==
    LET t == op.task
        still == Observed(s)
        seen == [src EXCEPT !.origin = s]
        mine == [seen EXCEPT !.held = s.acct]
        keeps == src.db # None /\ Valid(src.db, s)
        next == IF keeps THEN mine ELSE [mine EXCEPT !.db = None, !.lease = None]
    IN  IF Refused(t, s) \/ LeaseTaken(s)
        THEN Failed(seen) /\ bound' = still /\ Ends(t) /\ UNCHANGED factory
        ELSE IF task[t].reader # None
        THEN /\ UNCHANGED factory
             /\ IF Valid(task[t].reader, s) THEN Returned(task[t].reader, mine, still, TRUE)
                ELSE Failed(mine) /\ bound' = still /\ Ends(t)
        ELSE IF keeps /\ src.db.ready
        THEN UNCHANGED factory /\ Returned(src.db, mine, still, TRUE)
        ELSE \E m \in Made(s, TRUE) \cup Made(s, FALSE) :
               /\ Cardinality(m.scans) <= MaxScans
               /\ slot' = m.slot /\ scans' = m.scans /\ gone' = gone \ {s.acct}
               /\ IF m.reader # None /\ (keeps => m.reader.ready)
                  THEN /\ src' = next /\ bound' = still
                       /\ op' = [op EXCEPT !.stage = "built", !.sel = s, !.reader = m.reader]
                       /\ UNCHANGED task
                  ELSE IF keeps THEN Returned(src.db, mine, still, TRUE)
                  ELSE Failed(next) /\ bound' = still /\ Ends(t)

Resolve(answers) ==
    /\ op # None /\ op.stage = "asked"
    /\ answers \in BOOLEAN
    /\ LET s == Selection(Answer(op))
       IN  IF answers /\ s # None THEN Selected(s) ELSE NobodySelected
    /\ cache' = IF Invalidated THEN NoAnswers
                ELSE IF answers THEN Remembered(op)
                ELSE [a \in Accounts |-> IF a \in Asked THEN None ELSE cache[a]]
    /\ UNCHANGED <<outside, pin>>

\* A new reader is kept only if the databases still fit its keys.
Stands(r) == IF r.ready THEN MessagesReady(r.acct, r.keys) ELSE SessionsReady(r.acct, r.keys)
Install(looks) ==
    /\ op # None /\ op.stage = "built"
    /\ looks \in {"same", "changed"}
    /\ looks = "same" => SelectedNow = op.sel
    /\ LET r == [op.reader EXCEPT !.token = Token(op.sel, op.reader.ready)]
       IN  IF looks = "changed" THEN Failed(src) /\ bound' = bound /\ Ends(op.task)
           ELSE IF Stands(r) THEN Returned(r, [Released EXCEPT !.db = r], bound, FALSE)
           ELSE src' = Released /\ bound' = bound /\ Ends(op.task)
    /\ cache' = IF Invalidated THEN NoAnswers ELSE cache
    /\ UNCHANGED <<outside, pin, factory>>

----------------------------------------------------------------------------
(* Requests and tasks. *)

Begin(t, kind, early, r) ==
    \E kept \in SUBSET {a \in Asked : Reuses(kind) /\ cache[a] # None} :
        /\ early \subseteq Asked \ kept
        /\ early # {} \/ kept = Asked
        /\ op' = Question(t, kind, kept, early, r)

Capture(t, mode, early) ==
    /\ Free /\ ~src.closed /\ task[t].stage = "idle"
    /\ task' = [task EXCEPT ![t].mode = mode]
    /\ Begin(t, "capture", early, None)
    /\ UNCHANGED <<outside, pin, cache, src, bound, factory>>

\* Work that comes back to the source with a void binding is turned away at once.
TurnedAway(t) == src.closed \/ (Expects(t) /\ t \notin bound)

Open(t, early) ==
    /\ Free /\ task[t].stage = "captured" /\ ~TurnedAway(t)
    /\ Begin(t, "open", early, None)
    /\ UNCHANGED <<outside, pin, cache, src, bound, factory, task>>

\* The rows are read, and the source is asked afresh before they are answered.
Read(early) ==
    /\ op # None /\ op.stage = "reading"
    /\ IF TurnedAway(op.task) THEN Ends(op.task)
       ELSE Begin(op.task, "recheck", early, op.reader) /\ UNCHANGED task
    /\ UNCHANGED <<outside, pin, cache, src, bound, factory>>

\* assert_binding, under the lock with what it allows to happen.
Deliver(t, early) ==
    /\ Free /\ task[t].stage = "read" /\ ~TurnedAway(t)
    /\ Begin(t, "deliver", early, None)
    /\ UNCHANGED <<outside, pin, cache, src, bound, factory, task>>

Stop(t) ==
    /\ Free /\ task[t].stage \in {"captured", "read"} /\ TurnedAway(t)
    /\ task' = [task EXCEPT ![t] = NoTask]
    /\ UNCHANGED <<outside, pin, cache, src, bound, op, factory>>

Rest(t) ==
    /\ task[t].stage = "delivered"
    /\ task' = [task EXCEPT ![t] = NoTask]
    /\ UNCHANGED <<outside, pin, cache, src, bound, op, factory>>

\* _leased_advisor_identity: the recent answer, without a question to Windows.
Vouched(t) ==
    /\ ~src.closed /\ src.lease # None
    /\ t \in bound /\ task[t].bind = [acct |-> src.lease, origin |-> src.origin]

----------------------------------------------------------------------------
(* The user and the other instance. *)

Move == moves < MaxMoves /\ moves' = moves + 1
Moved(P(_)) == [t \in Tasks |-> IF task[t].stage \in {"captured", "read"} /\ P(t)
                                THEN [task[t] EXCEPT !.moved = TRUE] ELSE task[t]]

\* Bug: an explicit selection changes and the generation stays.
KeepsBindings == bound
\* invalidate_binding.
InvalidatedBindings == {}

\* configure_account_pin and clear_account_pin: under the source lock the pin
\* and the generation, after it the leased identity.
SetPin(p) ==
    /\ Free /\ ~src.closed /\ p \in Pins \ {pin}
    /\ pin' = p
    /\ bound' = InvalidatedBindings
    /\ src' = [src EXCEPT !.lease = None]
    /\ cache' = NoAnswers
    /\ task' = Moved(LAMBDA t : TRUE)
    /\ Move
    /\ UNCHANGED <<world, op, factory>>

\* forget_account, when an account is removed.  Only an open reader of the
\* account raises the generation.
Forget(a) ==
    LET open == src.db # None /\ src.db.acct = a
        wiped == Moved(LAMBDA t : open /\ task[t].bind.acct = a)
    IN  /\ Free /\ ~src.closed
        /\ bound' = IF open THEN InvalidatedBindings ELSE bound
        /\ src' = [(IF open THEN Released ELSE src) EXCEPT
                     !.lease = IF @ = a THEN None ELSE @,
                     !.held = IF @ = a THEN None ELSE @]
        /\ task' = [t \in Tasks |-> IF open /\ task[t].reader = src.db
                                    THEN [wiped[t] EXCEPT !.reader.keys = {}] ELSE wiped[t]]
        /\ slot' = IF slot # None /\ slot.token.sel.acct = a THEN None ELSE slot
        /\ scans' = IF slot # None /\ slot.token.sel.acct = a THEN Detached ELSE scans
        /\ gone' = gone \cup {a}
        /\ cache' = NoAnswers
        /\ Move
        /\ UNCHANGED <<world, pin, op>>

\* close marks the source without the lock and clears it once it has the lock.
CloseMark ==
    /\ ~src.closed
    /\ src' = [src EXCEPT !.closed = TRUE, !.lease = None]
    /\ UNCHANGED <<outside, pin, cache, bound, op, factory, task>>
CloseEnd ==
    LET last == src.db # None
    IN  /\ Free /\ src.closed /\ (src.db # None \/ src.held # None)
        /\ src' = [Released EXCEPT !.held = None]
        /\ bound' = {}
        /\ slot' = IF last /\ slot # None /\ slot.token.sel.acct = src.db.acct THEN None ELSE slot
        /\ scans' = IF slot' # slot THEN Detached ELSE scans
        /\ cache' = NoAnswers
        /\ task' = Moved(LAMBDA t : TRUE)
        /\ UNCHANGED <<outside, pin, op, gone>>

OtherInstance ==
    /\ other' \in (Shared \ {src.held}) \cup {None}
    /\ other' # other
    /\ UNCHANGED <<owner, alive, spent, pages, pin, cache, src, bound, op, factory, task>>
    /\ Move

----------------------------------------------------------------------------
(* WeChat. *)

inside == <<pin, cache, src, bound, factory, task>>
Login(a, p) ==
    /\ owner[a] = None
    /\ p \in alive \/ p \notin spent
    /\ \A b \in Accounts : owner[b] # p
    /\ owner' = [owner EXCEPT ![a] = p]
    /\ alive' = alive \cup {p}
    /\ spent' = spent \cup {p}
    /\ UNCHANGED <<pages, other, inside, op>>
    /\ Move
Logout(a) ==
    /\ owner[a] # None
    /\ owner' = [owner EXCEPT ![a] = None]
    /\ UNCHANGED <<alive, spent, pages, other, inside, op>>
    /\ Move
Exit(p) ==
    /\ p \in alive
    /\ owner' = [a \in Accounts |-> IF owner[a] = p THEN None ELSE owner[a]]
    /\ alive' = alive \ {p}
    /\ UNCHANGED <<spent, pages, other, inside, op>>
    /\ Move
NewPages(a, part) ==
    /\ owner[a] # None
    /\ pages' = [pages EXCEPT ![a][part] = @ + 1]
    /\ pages'[a].anchors <= MaxAnchors
    /\ pages'[a].shards \in Shards[a]
    /\ UNCHANGED <<owner, alive, spent, other, inside, op>>
    /\ Move
Next ==
    \/ \E a \in Accounts :
         \/ Forget(a) \/ Logout(a)
         \/ \E p \in Procs : Login(a, p)
         \/ \E part \in {"anchors", "shards"} : NewPages(a, part)
    \/ \E p \in Procs : Exit(p)
    \/ \E p \in Accounts \cup {None} : SetPin(p)
    \/ \E t \in Tasks :
         \/ \E early \in SUBSET Accounts :
              \/ \E mode \in {"request", "task", "advisor"} : Capture(t, mode, early)
              \/ Open(t, early) \/ Deliver(t, early)
         \/ Stop(t) \/ Rest(t)
    \/ \E early \in SUBSET Accounts : Read(early)
    \/ \E answers \in BOOLEAN : Resolve(answers)
    \/ \E looks \in {"same", "changed"} :
         \/ Install(looks)
         \/ \E c \in scans :
              \/ \E found \in SUBSET TokenKeys(c.token) : ScanMemory(c, looks, found)
              \/ ScanVerify(c, looks)
    \/ \E c \in scans : ScanPublish(c)
    \/ CloseMark \/ CloseEnd \/ OtherInstance

Spec == Init /\ [][Next]_vars

----------------------------------------------------------------------------
(* Properties. *)

TypeOK ==
    /\ owner \in [Accounts -> Procs \cup {None}]
    /\ alive \subseteq spent /\ spent \subseteq Procs
    /\ \A a \in Accounts : owner[a] # None => owner[a] \in alive
    /\ pages \in [Accounts -> [anchors : 1..MaxAnchors, shards : Nat]]
    /\ \A a \in Accounts : pages[a].shards \in Shards[a]
    /\ pin \in Accounts \cup {None}
    /\ src.held \in Accounts \cup {None}
    /\ src.lease \in Accounts \cup {None}
    /\ bound \subseteq Tasks

\* Keys in memory stay with the account they were found for: the slot and the
\* reader hold keys of their own token only, a slot whose scan is announced has
\* that one scan at work and no other can publish into it, the advisor's
\* leased identity is that of the reader at hand, and an account that was
\* forgotten has neither until it is asked for again (live_source.py _scan,
\* forget_account, __call__; wechat_source.py _remember_advisor_binding).
KeysStayScoped ==
    /\ TypeOK
    /\ slot # None =>
         /\ slot.keys \subseteq TokenKeys(slot.token)
         /\ slot.state \in {"running", "failed"} => slot.keys = {}
         /\ slot.state = "ready" => slot.keys = TokenKeys(slot.token) /\ slot.token.shards > 0
         /\ slot.state = "running" => slot.scanning
         /\ slot.scanning <=> \E c \in scans : c.attached
    /\ \A c \in scans : c.attached => slot # None /\ slot.token = c.token
    /\ Cardinality({c \in scans : c.attached}) <= 1
    /\ src.db # None =>
         /\ \A k \in src.db.keys : k.acct = src.db.acct
         /\ TokenKeys(src.db.token) \subseteq src.db.keys
    /\ src.lease # None => src.db # None /\ src.db.acct = src.lease
    /\ \A a \in gone : (slot = None \/ slot.token.sel.acct # a) /\ (src.db = None \/ src.db.acct # a)

\* No two instances hold one account, and what the bridge is building or reading
\* belongs to the account it holds: an account in use elsewhere is never read
\* here (account_leases.py, _hold_account).  A reader left behind by a request
\* that found the account changed may stay open for a while, unread.
OneInstancePerAccount ==
    /\ src.held # None => other # src.held
    /\ (op # None /\ op.stage \in {"built", "reading"}) => src.held = op.reader.acct

\* The two together: what the bridge has of an account, keys, reader and lease,
\* is that account's alone.
AccountsStayApart == KeysStayScoped /\ OneInstancePerAccount

\* What a request or a task delivers was read from the account, and under the
\* WeChat process, that its binding names; between the capture and the delivery
\* the account was not pinned away, removed or closed (SourceBinding,
\* assert_binding, _scope_commit).  A removal counts only while a reader of the
\* account is open: without one, forget_account leaves the bindings alone.
DeliveredIsBound ==
    /\ \A t \in Tasks : task[t].stage = "delivered" =>
        /\ ~task[t].moved
        /\ task[t].data = task[t].bind.origin
        /\ task[t].data.acct = task[t].bind.acct
    /\ \A t \in Tasks : Vouched(t) => ~task[t].moved

=============================================================================
