--------------------------- MODULE AdvisorContext ---------------------------
(***************************************************************************)
(* The imported history of one chat (bridge/advisor_context.py, the table  *)
(* context of bridge/advisor_store.py and the pages of wechat_source.py).  *)
(* An import worker freezes the newest position of the source and walks    *)
(* forward to it page by page; windows the chat display has decoded are    *)
(* applied directly when they fit, wait while a worker runs, or start a    *)
(* repair.  The WeChat source may switch under all of them, messages       *)
(* arrive and change, and the account may be paused.                       *)
(*                                                                         *)
(* A position stands for the triple (sort_seq, shard, local_id), 0 for     *)
(* none.  Binding g reads the source Scope(g): switching twice comes back  *)
(* to the same files under a new binding.                                  *)
(***************************************************************************)
EXTENDS Naturals, FiniteSets, Sequences, Functions

CONSTANTS
    Nothing,
    Silent,      \* positions whose message is not rendered
    PageSize,    \* IMPORT_PAGE_SIZE
    Window,      \* messages in a decoded window
    MaxRebind,   \* bound: switches of the source
    MaxLen,      \* bound: messages of a source
    MaxEdit      \* bound: messages that change after they were written

ASSUME ContextAssumption ==
    /\ Silent \subseteq Nat
    /\ {PageSize, Window} \subseteq Nat \ {0}
    /\ {MaxRebind, MaxEdit} \subseteq Nat
    /\ MaxLen \in Nat \ {0}
    /\ Nothing \notin Nat

VARIABLES
    gen,        \* the current binding of the source
    src,        \* per scope, the version of each message
    proj,       \* the row of the table context with its context_messages
    imp,        \* the import worker in _imports
    prep,       \* a prepare that has left the lock to look at the source
    win,        \* a decoded window on its way to observe_window
    pending,    \* _pending_windows
    observed,   \* _observed: the binding whose window is applied
    importsPaused  \* account in _paused

contextVars == <<gen, src, proj, imp, prep, win, pending, observed, importsPaused>>
memory == <<imp, prep, win, pending, observed, importsPaused>>

Scope(g) == g % 2
NoContext == [state |-> "none"]
NoWorker == [at |-> "none"]
HasRow == proj # NoContext
Busy == imp # NoWorker
Upto(S, m) == {n \in S : n.pos \leq m.pos}
InOrder(S) == [i \in 1..Cardinality(S) |-> CHOOSE m \in S : Cardinality(Upto(S, m)) = i]
Message(s, p) == [from |-> s, pos |-> p, ver |-> src[s][p]]
Shown(s, from, to) == {Message(s, p) : p \in ((from + 1)..to) \ Silent}
Newest(S, otherwise) ==
    IF S = {} THEN otherwise ELSE (CHOOSE m \in S : \A n \in S : n.pos \leq m.pos).pos

ContextInit ==
    /\ gen = 0
    /\ src = [s \in {0, 1} |-> <<0>>]
    /\ proj = NoContext
    /\ imp = NoWorker
    /\ prep = Nothing
    /\ win = Nothing
    /\ pending = Nothing
    /\ observed = Nothing
    /\ importsPaused = FALSE

----------------------------------------------------------------------------
(* The table. *)

SameId(a, b) == a.pos = b.pos
Conflict(r, page) ==
    \E m \in page, j \in DOMAIN r.rows : SameId(m, r.rows[j]) /\ m # r.rows[j]
NewOf(r, page) == {m \in page : ~\E j \in DOMAIN r.rows : SameId(m, r.rows[j])}
\* Bug: a reset keeps the epoch.
BegunInEpoch(r, g, hw, reset) ==
    LET old == IF r = NoContext THEN 0 ELSE r.epoch
        new == [state |-> "reading", from |-> Scope(g), epoch |-> old,
                hw |-> hw, borrowed |-> FALSE, cursor |-> 0, last |-> 0, rows |-> <<>>]
    IN  IF reset \/ r = NoContext THEN new
        ELSE [r EXCEPT !.state = "reading", !.hw = hw, !.borrowed = FALSE, !.from = Scope(g)]
\* context_begin: only a reset gives a new epoch.
ContextBegun(r, g, hw, reset) ==
    IF reset \/ r = NoContext
    THEN [state |-> "reading", from |-> Scope(g),
          epoch |-> IF r = NoContext THEN 0 ELSE 1 - r.epoch,
          hw |-> hw, borrowed |-> FALSE, cursor |-> 0, last |-> 0, rows |-> <<>>]
    ELSE [r EXCEPT !.state = "reading", !.hw = hw, !.borrowed = FALSE, !.from = Scope(g)]

\* context_append_page, for a page without a conflict.
Appended(r, page, cursor, last) ==
    [r EXCEPT !.rows = @ \o InOrder(NewOf(r, page)),
              !.cursor = IF NewOf(r, page) # {} \/ cursor # 0 \/ last # 0 THEN cursor ELSE @,
              !.last = IF NewOf(r, page) # {} \/ cursor # 0 \/ last # 0 THEN last ELSE @]
Finished(r) == [r EXCEPT !.state = "ready"]

Worker(g) == [at |-> "read", gen |-> g, cancel |-> FALSE, page |-> {}, next |-> 0]

----------------------------------------------------------------------------
(* Windows. *)

\* messages or message_windows decodes the newest window of the binding.
Decode ==
    /\ win = Nothing
    /\ LET n == Len(src[Scope(gen)])
           from == IF n > Window THEN n - Window ELSE 0
           ms == Shown(Scope(gen), from, n)
       IN  win' = [gen |-> gen, rows |-> ms, more |-> n > Window,
                   latest |-> Newest(ms, 0)]
    /\ UNCHANGED <<gen, src, proj, imp, prep, pending, observed, importsPaused>>

\* What _apply_window_locked finds out about a window.
ScopeChanged(w) == HasRow /\ proj.from # Scope(w.gen)
ChangedFacts(w) == HasRow /\ ~ScopeChanged(w) /\ Conflict(proj, w.rows)
Known(w) == IF ~HasRow \/ ScopeChanged(w) \/ ChangedFacts(w) THEN {}
            ELSE w.rows \cap Range(proj.rows)
MissingFacts(w) == ~w.more /\ HasRow /\ ~ScopeChanged(w) /\ Cardinality(Known(w)) # Len(proj.rows)
Anchored(w) == \E m \in Known(w) : m.pos = proj.last
PrefixUnknown(w) == HasRow /\ proj.last # 0
                    /\ \E m \in w.rows \ Known(w) : m.pos \leq proj.last
OlderPending(w) == /\ w.more /\ HasRow /\ proj.state = "ready" /\ ~ScopeChanged(w)
                   /\ Known(w) = w.rows
                   /\ w.latest = 0 \/ (proj.hw # 0 /\ w.latest \leq proj.hw)
Rollback(w) == HasRow /\ proj.last # 0 /\ w.latest < proj.last
\* Bug: a window of another source is taken to continue the projection.
DamagedInScope(w) == ChangedFacts(w) \/ Rollback(w) \/ PrefixUnknown(w)
Damaged(w) == ScopeChanged(w) \/ ChangedFacts(w) \/ Rollback(w) \/ PrefixUnknown(w)

Trust(w) == observed' = w.gen /\ pending' = Nothing /\ imp' = NoWorker

\* A window with the whole chat replaces the projection, one that joins on
\* adds what is new; each in three transactions.
Latest(w) == IF w.latest # 0 THEN w.latest ELSE proj.hw
Delta(w) == w.rows \ Known(w)
Writes(begun, page, pos) ==
    <<begun, Appended(begun, page, pos, pos), Finished(Appended(begun, page, pos, pos))>>
Replaces(w) == ~w.more /\ (~HasRow \/ Damaged(w) \/ MissingFacts(w))
Extends(w) == HasRow /\ proj.state = "ready" /\ ~Damaged(w) /\ (Anchored(w) \/ ~w.more)
WindowWrites(w) ==
    IF Replaces(w) THEN Writes(ContextBegun(proj, w.gen, w.latest, HasRow), w.rows, w.latest)
    ELSE IF Extends(w) /\ Delta(w) # {}
    THEN Writes(ContextBegun(proj, w.gen, Latest(w), FALSE), Delta(w), Latest(w))
    ELSE <<proj, proj, proj>>

\* A repair without a newest position keeps the old one, of another source perhaps.
RepairBegun(w) ==
    [ContextBegun(proj, w.gen, Latest(w), Damaged(w)) EXCEPT
        !.borrowed = w.latest = 0 /\ (proj.borrowed \/ ScopeChanged(w))]

\* _apply_window_locked.  A window that does not fit waits, and repairs a
\* projection that exists.
Apply(w, after) ==
    \/ /\ after /\ OlderPending(w)
       /\ Trust(w) /\ UNCHANGED proj
    \/ /\ ~(after /\ OlderPending(w)) /\ (Replaces(w) \/ Extends(w))
       /\ Trust(w) /\ proj' = WindowWrites(w)[3]
    \/ /\ ~(after /\ OlderPending(w)) /\ ~Replaces(w) /\ ~Extends(w)
       /\ observed' = Nothing
       /\ pending' = w
       /\ proj' = IF HasRow THEN RepairBegun(w) ELSE proj
       /\ imp' = IF HasRow THEN Worker(w.gen) ELSE NoWorker

\* observe_window: refused for another binding, kept while a worker runs.
Observe ==
    /\ win # Nothing
    /\ win' = Nothing
    /\ \/ /\ win.gen # gen
          /\ observed' = Nothing /\ pending' = Nothing
          /\ UNCHANGED <<proj, imp>>
       \/ /\ win.gen = gen /\ importsPaused
          /\ UNCHANGED <<proj, imp, pending, observed>>
       \/ /\ win.gen = gen /\ ~importsPaused /\ Busy
          /\ pending' = win
          /\ observed' = Nothing
          /\ imp' = IF imp.gen # win.gen THEN [imp EXCEPT !.cancel = TRUE] ELSE imp
          /\ UNCHANGED proj
       \/ /\ win.gen = gen /\ ~importsPaused /\ ~Busy
          /\ Apply(win, FALSE)
    /\ UNCHANGED <<gen, src, prep, importsPaused>>

----------------------------------------------------------------------------
(* prepare: called by a run or the window with its binding. *)

Trusted == HasRow /\ proj.state = "ready" /\ observed = gen /\ Scope(gen) = proj.from

\* The first half: a current import or projection will do; otherwise the
\* newest position is read without the lock.
PrepareBegin ==
    /\ prep = Nothing /\ ~importsPaused /\ ~Busy /\ ~Trusted
    /\ prep' = [gen |-> gen,
                hw |-> IF pending # Nothing /\ pending.gen = gen /\ pending.latest # 0
                       THEN pending.latest ELSE Len(src[Scope(gen)])]
    /\ UNCHANGED <<gen, src, proj, imp, win, pending, observed, importsPaused>>

\* The first half meets an import of another binding.
PrepareCancels ==
    /\ Busy /\ ~importsPaused /\ imp.gen # gen
    /\ imp' = [imp EXCEPT !.cancel = TRUE]
    /\ UNCHANGED <<gen, src, proj, prep, win, pending, observed, importsPaused>>

Backwards == proj.from # Scope(prep.gen) \/ (proj.hw # 0 /\ prep.hw < proj.hw)
\* The second half under both locks.
PrepareEnd ==
    /\ prep # Nothing
    /\ prep' = Nothing
    /\ LET reset == HasRow /\ Backwards
           begun == ContextBegun(proj, prep.gen, prep.hw, reset)
       IN  \/ /\ prep.gen # gen \/ importsPaused
              /\ UNCHANGED <<proj, imp>>
           \/ /\ prep.gen = gen /\ ~importsPaused /\ Busy
              /\ imp' = IF imp.gen # prep.gen THEN [imp EXCEPT !.cancel = TRUE] ELSE imp
              /\ UNCHANGED proj
           \/ /\ prep.gen = gen /\ ~importsPaused /\ ~Busy
              /\ IF ~HasRow /\ prep.hw = 0
                 THEN proj' = Finished(begun) /\ UNCHANGED imp
                 ELSE IF ~HasRow \/ reset \/ proj.state = "error"
                         \/ (proj.state = "ready" /\ prep.hw # proj.hw)
                 THEN proj' = begun /\ imp' = Worker(prep.gen)
                 ELSE /\ imp' = IF proj.state = "reading" THEN Worker(prep.gen) ELSE imp
                      /\ UNCHANGED proj
    /\ UNCHANGED <<gen, src, win, pending, observed, importsPaused>>

----------------------------------------------------------------------------
(* The import worker. *)

\* It gives up: not cancelled, the row tells so.
GiveUp ==
    /\ imp' = [imp EXCEPT !.at = "exit", !.page = {}, !.next = 0]
    /\ proj' = IF imp.cancel \/ ~HasRow THEN proj ELSE [proj EXCEPT !.state = "error"]

Open == ~importsPaused /\ ~imp.cancel /\ imp.gen = gen
\* Bug: a switch of the source is left to whoever cancels the worker.
OpenUnlessCancelled(g) == ~imp.cancel
\* _check_open against the source the row was begun for.
OpenFor(g) == Open /\ proj.from = Scope(g)

\* history_page: the shown messages of the next positions up to the highwater.
\* Bug: the next page starts behind the last message that was shown.
AfterShown == proj.last
After == IF proj.cursor # 0 THEN proj.cursor ELSE proj.last
Least(a, b) == IF a < b THEN a ELSE b
LastOfPage(s) == Least(Least(After + PageSize, proj.hw), Len(src[s]))
ReadPage ==
    /\ imp.at = "read"
    /\ \/ /\ imp.cancel \/ proj.state # "reading"
          /\ imp' = [imp EXCEPT !.at = "exit"]
          /\ UNCHANGED proj
       \/ /\ ~imp.cancel /\ proj.state = "reading" /\ ~OpenFor(imp.gen)
          /\ GiveUp
       \/ /\ proj.state = "reading" /\ OpenFor(imp.gen) /\ proj.hw = 0
          /\ proj' = Finished(proj)
          /\ imp' = [imp EXCEPT !.at = "exit"]
       \/ /\ proj.state = "reading" /\ OpenFor(imp.gen) /\ proj.hw # 0
          /\ LET s == Scope(imp.gen)
             IN  imp' = [imp EXCEPT !.at = "commit",
                                    !.page = Shown(s, After, LastOfPage(s)),
                                    !.next = IF LastOfPage(s) > After THEN LastOfPage(s) ELSE 0]
          /\ UNCHANGED proj
    /\ UNCHANGED <<gen, src, prep, win, pending, observed, importsPaused>>

\* The page is saved with its cursor; an empty one ends the import.
CommitPage ==
    /\ imp.at = "commit"
    /\ IF ~OpenFor(imp.gen) \/ Conflict(proj, imp.page)
       THEN GiveUp
       ELSE LET last == Newest(imp.page, proj.last)
                saved == Appended(proj, imp.page, imp.next, last)
            IN  /\ proj' = IF imp.next = 0 THEN Finished(saved) ELSE saved
                /\ imp' = [imp EXCEPT !.at = IF imp.next = 0 THEN "exit" ELSE "read",
                                      !.page = {}, !.next = 0]
    /\ UNCHANGED <<gen, src, prep, win, pending, observed, importsPaused>>

\* Reading fails on either side of a page.
ImportFails ==
    /\ imp.at \in {"read", "commit"}
    /\ GiveUp
    /\ UNCHANGED <<gen, src, prep, win, pending, observed, importsPaused>>

\* finally: the entry goes, and a window that waited is applied.
Exit ==
    /\ imp.at = "exit"
    /\ LET waits == pending # Nothing /\ ~imp.cancel /\ ~importsPaused /\ HasRow
                    /\ proj.state = "ready" /\ proj.from = Scope(pending.gen)
       IN  \/ /\ waits /\ pending.gen = gen
              /\ Apply(pending, TRUE)
           \/ /\ ~(waits /\ pending.gen = gen)
              /\ imp' = NoWorker
              /\ pending' = IF waits THEN Nothing ELSE pending
              /\ UNCHANGED <<proj, observed>>
    /\ UNCHANGED <<gen, src, prep, win, importsPaused>>

----------------------------------------------------------------------------
(* What a run reads. *)

\* wait_ready: the projection a run is given.  Once it is of another source or in another
\* epoch than the run's, the run is stopped.
Readable(scope, epoch) ==
    HasRow /\ proj.from = scope /\ proj.epoch = epoch /\ proj.state = "ready"

\* build_model_context: the messages up to the number the run was given, unless its source
\* is not bound any more.  Those that do not fit are summarised, which is left out: a
\* summary is kept under a digest of the text it stands for.
ModelContext(r, upto) == SubSeq(r.rows, 1, Least(upto, Len(r.rows)))

----------------------------------------------------------------------------
(* The world around the projection. *)

Switch ==
    /\ gen < MaxRebind
    /\ gen' = gen + 1
    /\ UNCHANGED <<src, proj, memory>>

Arrive ==
    /\ Len(src[Scope(gen)]) < MaxLen
    /\ src' = [src EXCEPT ![Scope(gen)] = Append(@, 0)]
    /\ UNCHANGED <<gen, proj, memory>>

\* A message is recalled or changed in the source.
Edited == {p \in {0, 1} \X (1..MaxLen) : p[2] \in DOMAIN src[p[1]] /\ src[p[1]][p[2]] = 1}
Edit ==
    /\ Cardinality(Edited) < MaxEdit
    /\ \E p \in DOMAIN src[Scope(gen)] \ Silent :
         src' = [src EXCEPT ![Scope(gen)][p] = 1]
    /\ UNCHANGED <<gen, proj, memory>>

\* cancel_account, and resume_account once the worker has ended.
Pause ==
    /\ ~importsPaused
    /\ importsPaused' = TRUE
    /\ observed' = Nothing
    /\ pending' = Nothing
    /\ imp' = IF Busy THEN [imp EXCEPT !.cancel = TRUE] ELSE imp
    /\ UNCHANGED <<gen, src, proj, prep, win>>
Resume ==
    /\ importsPaused /\ ~Busy
    /\ importsPaused' = FALSE
    /\ UNCHANGED <<gen, src, proj, imp, prep, win, pending, observed>>

\* The bridge goes down, perhaps between two transactions of a handler.
BridgeDies ==
    /\ proj' \in {proj}
         \cup (IF win # Nothing /\ win.gen = gen /\ ~importsPaused /\ ~Busy THEN Range(WindowWrites(win)) ELSE {})
         \cup (IF imp.at = "commit" /\ OpenFor(imp.gen) /\ imp.next = 0
               THEN {Appended(proj, imp.page, 0, proj.last)} ELSE {})
    /\ imp' = NoWorker
    /\ prep' = Nothing
    /\ win' = Nothing
    /\ pending' = Nothing
    /\ observed' = Nothing
    /\ importsPaused' = FALSE
    /\ UNCHANGED <<gen, src>>

ContextNext ==
    \/ Decode \/ Observe
    \/ PrepareBegin \/ PrepareCancels \/ PrepareEnd
    \/ ReadPage \/ CommitPage \/ ImportFails \/ Exit
    \/ Switch \/ Arrive \/ Edit \/ Pause \/ Resume \/ BridgeDies

ContextSpec == ContextInit /\ [][ContextNext]_contextVars
ContextFairness == WF_contextVars(ReadPage) /\ WF_contextVars(CommitPage) /\ WF_contextVars(Exit)
FairContextSpec == ContextSpec /\ ContextFairness

----------------------------------------------------------------------------
(* Properties. *)

Messages == [from : {0, 1}, pos : 1..MaxLen, ver : {0, 1}]
Windows == [gen : 0..MaxRebind, rows : SUBSET Messages, more : BOOLEAN, latest : 0..MaxLen]

\* Types of the variables (all of the module).
ContextTypeOK ==
    /\ gen \in 0..MaxRebind
    /\ src \in [{0, 1} -> Seq({0, 1})]
    /\ proj \in {NoContext} \cup
         [state : {"reading", "ready", "error"}, from : {0, 1}, epoch : {0, 1},
          hw : 0..MaxLen, borrowed : BOOLEAN, cursor : 0..MaxLen, last : 0..MaxLen, rows : Seq(Messages)]
    /\ imp \in {NoWorker} \cup
         [at : {"read", "commit", "exit"}, gen : 0..MaxRebind, cancel : BOOLEAN,
          page : SUBSET Messages, next : 0..MaxLen]
    /\ prep \in {Nothing} \cup [gen : 0..MaxRebind, hw : 0..MaxLen]
    /\ {win, pending} \subseteq {Nothing} \cup Windows
    /\ observed \in {Nothing} \cup 0..MaxRebind
    /\ importsPaused \in BOOLEAN

\* What the advisor reads is the whole chat: the projection holds the messages
\* of one source, each once and in order, and when it is ready none is missing
\* up to the position it was frozen at, whatever pages, windows, repairs,
\* switches and crashes it came from (docs/advisor.md 38-39).  The exception is a
\* position that a repair took over from the projection of another source.
Places == {proj.rows[i].pos : i \in DOMAIN proj.rows}
ReadyIsWhole ==
    ContextTypeOK /\ (HasRow =>
        /\ \A i \in DOMAIN proj.rows : proj.rows[i].from = proj.from
        /\ \A i, j \in DOMAIN proj.rows : i < j => proj.rows[i].pos < proj.rows[j].pos
        /\ Places = 1..proj.last \ Silent
        /\ \A s, e \in {0, 1} :
              Readable(s, e) => proj.borrowed \/ 1..proj.hw \ Silent \subseteq Places)

\* A run that has fixed its epoch and its number of messages keeps reading the
\* same ones: within an epoch messages are only added at the end.  Nothing is added
\* from a source that is no longer bound, or to an account that is importsPaused,
\* however late its page or window comes (advisor_context.py 3-7).
ReadersAreSafe ==
    [][proj' # NoContext =>
         /\ HasRow /\ proj'.epoch = proj.epoch =>
                \A n \in 0..Len(proj.rows) : ModelContext(proj', n) = ModelContext(proj, n)
         /\ ~HasRow \/ proj'.rows # proj.rows =>
                \A i \in DOMAIN proj'.rows : proj'.rows[i].from = Scope(gen) /\ ~importsPaused]_proj

\* An import ends, unless the window that waits for it disagrees with the source.
Disagrees == pending # Nothing /\ \E m \in pending.rows : src[m.from][m.pos] # m.ver
ImportsEnd == []<>(~Busy \/ Disagrees)
=============================================================================
