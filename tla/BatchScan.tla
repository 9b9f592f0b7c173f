------------------------------ MODULE BatchScan ------------------------------
(***************************************************************************)
(* The local portrait of one subject (bridge/batch_engine.py, the tables   *)
(* of bridge/batch_state.py, the quoted backfill of backend_service.py and *)
(* the history pages of wechat_source.py).  A pass walks the history in    *)
(* model windows, a window may stop inside a long text, and each window is *)
(* committed with its statistics in one transaction.  Between any two      *)
(* transactions the process may die or the iterator be thrown away, and    *)
(* the history may grow at its end, grow behind the cursor, lose a row or  *)
(* have a text recalled.                                                   *)
(*                                                                         *)
(* A position stands for (sort_seq, shard, local_id), 0 for None.  A text  *)
(* has one unit, a long one two; a score is counted in halves so that the  *)
(* mean over the two units of a long text stays an integer.                *)
(***************************************************************************)
EXTENDS Integers, FiniteSets, FiniteSetsExt, SequencesExt

CONSTANTS
    None,
    Chats,       \* what may be in the history and in the tables of the older analysis
    PageSize,    \* rows of a history page
    RecentLimit, \* rows of the newest window
    Judge,       \* the relationship score of a window, given its last text
    MaxChanges   \* bound: changes of the source

Places == Nat \ {0}
ChatRecord ==
    [mine : SUBSET Places, rest : SUBSET Places, long : SUBSET Places, quoted : SUBSET Places,
     images : SUBSET Places, first : SUBSET Places,
     prior : [known : SUBSET Places, bare : SUBSET Places, cur : Nat, complete : BOOLEAN,
              skip : Nat]]

BackfillRecord == [ceiling : Nat, cur : Nat, done : BOOLEAN]

(* Where the older analysis stopped, or just before the first message it left out.  It     *)
(* saved a judgment before its cursor passed the text, but for quoted replies, which it    *)
(* took for no texts; nothing came late to it, and the row it stopped at is still there or *)
(* a later one is.                                                                          *)
OldCursor(prior) ==
    IF prior.skip > 0 /\ (prior.cur = 0 \/ prior.skip <= prior.cur)
    THEN prior.skip - 1 ELSE prior.cur
LegacyRight(c) ==
    /\ IsFiniteSet(c.mine \cup c.rest) /\ c.first \subseteq c.mine \cup c.rest
    /\ OldCursor(c.prior) = 0 \/ \E q \in c.first : OldCursor(c.prior) <= q
    /\ \A p \in c.first \ c.images :
         p <= OldCursor(c.prior) => p \in c.prior.known \cup c.quoted

ASSUME BatchAssumption ==
    /\ {PageSize, RecentLimit} \subseteq Nat \ {0}
    /\ MaxChanges \in Nat
    /\ \A c \in Chats : \A p \in c.mine \cup c.rest : Judge[p] \in Nat
    /\ \A c \in Chats : c.prior.skip # 1 /\ c.prior.bare \subseteq c.prior.known
    /\ Chats \subseteq ChatRecord /\ None \notin BackfillRecord
    /\ \A c \in Chats : LegacyRight(c)

VARIABLES
    chat,       \* member of Chats: mine (the subject's), long, quoted; prior, forgotten by a
                \* reset: known (bare: without their words), cur, complete, skip
    mode,       \* a personal chat, a whole group, or one member of a group
    rows,       \* the rows of the history
    texts,      \* those that are readable text
    shown,      \* every row there ever was
    rev,        \* history_revision
    row,        \* batch_progress_v1
    ends,       \* batch_fragments_v1: the last end_offset per message
    sums,       \* ... and the scores of its fragments, weighted by their length
    covered,    \* batch_coverage_v1
    counted,    \* the rows of it with counted = 1
    check,      \* batch_source_checks_v1
    backfill,   \* quoted_backfill_v1
    pass,       \* the iterator and its local variables
    doneAt,     \* history_revision when the pass that ended last began
    beyond      \* history: texts that came late, behind the checked prefix

scanVars == <<chat, mode, rows, texts, shown, rev, row, ends, sums, covered, counted,
          check, backfill, pass, doneAt, beyond>>
chatHistory == <<rows, texts, shown, rev, beyond>>
chatSource == <<chat, mode, chatHistory>>
evidence == <<ends, sums, covered, counted>>

Pos == chat.mine \cup chat.rest
NoRow == [cur |-> None]
HasRow == row # NoRow
NoPass == [at |-> "idle"]
MaxOf(S) == IF S = {} THEN 0 ELSE Max(S)
Upto(S, p) == {q \in S : q <= p}
After(S, p) == {q \in S : q > p}
Page(S, after, ceiling) ==
    {p \in After(Upto(S, ceiling), after) : Cardinality(After(Upto(S, p), after)) <= PageSize}

-----------------------------------------------------------------------------
(* What the saved evidence says. *)

LegacyKnown ==
    {p \in chat.prior.known : mode = "group" \/ \E q \in chat.prior.known \cap chat.mine : q >= p}
Outcomes == covered
Known == LegacyKnown \cup Outcomes
Wanted(p) == mode # "member" \/ p \in chat.mine
Missing(S) == {p \in S \ Known : Wanted(p)}

Length(p) == IF p \in chat.long THEN 2 ELSE 1
Offset(p) == IF p \in covered THEN 0 ELSE ends[p]
OldScore == 2
Score(p) == IF p \in chat.prior.known THEN OldScore ELSE (2 * sums[p]) \div Length(p)

LegacyCounted == IF mode = "group" THEN chat.prior.known ELSE chat.prior.known \cap chat.mine
Scored == (counted \cup LegacyCounted) \cap chat.mine

SumOf(f(_), S) == FoldSet(LAMBDA p, n : f(p) + n, 0, S)
Ranked(S) == SumOf(LAMBDA p : Cardinality({q \in S : q < p}) * Score(p), S)
Rebuilt == [count |-> Cardinality(counted \cup LegacyCounted),
            scored |-> Cardinality(Scored), weighted |-> Ranked(Scored)]

Signature(ceiling) ==
    LET prefix == Upto(rows, ceiling)
    IN  <<Cardinality(prefix), MaxOf(prefix), SumOf(LAMBDA p : p, prefix)>>

ScanInit ==
    /\ chat \in Chats /\ mode \in {"personal", "group", "member"}
    /\ rows = chat.first /\ texts = chat.first \ chat.images /\ shown = rows
    /\ rev = 0
    /\ row = NoRow
    /\ ends = [p \in Pos |-> 0] /\ sums = [p \in Pos |-> 0]
    /\ covered = {} /\ counted = {}
    /\ check = None /\ backfill = None
    /\ pass = NoPass
    /\ doneAt = None
    /\ beyond = {}

-----------------------------------------------------------------------------
(* Transactions of BatchStateStore. *)

MovedTo(p, off) == [row EXCEPT !.cur = p, !.off = off, !.complete = FALSE]

(* Tails are the scores saved behind a position; a block of n texts takes
   n consecutive ranks in front of them. *)
Tails(p) == After(Scored, p)
Merge(stat, block, score, tails) ==
    LET n == Cardinality(block)
        rank == stat.scored - Cardinality(tails)
    IN  [count |-> stat.count + n,
         scored |-> stat.scored + n,
         weighted |-> stat.weighted + n * rank * score + ((n * (n - 1)) \div 2) * score
                      + n * SumOf(Score, tails)]

(* A window is the texts consumed, the last of them to its end or half: any other answer  *)
(* of the child is refused.                                                                *)
Windows(items) ==
    {[items |-> Upto(items, p), last |-> p, half |-> h] :
        p \in items, h \in BOOLEAN}
CanStop(w) == w.half => w.last \in chat.long /\ Offset(w.last) = 0
Complete(w) == IF w.half THEN w.items \ {w.last} ELSE w.items
Piece(w, p) == (IF w.half /\ p = w.last THEN 1 ELSE Length(p)) - Offset(p)
EndOf(w) == IF w.half THEN 1 ELSE 0
Targets(w) == (w.items \cap chat.mine) \ Known

SumsAfter(w) ==
    [p \in Pos |-> IF p \in Targets(w) THEN sums[p] + Piece(w, p) * Judge[w.last] ELSE sums[p]]
NeverInterrupted(block) == FALSE
Interrupted(block) == \E t \in Tails(Min(block)) : t < Max(block)
OneJudgment(w) ==
    /\ Targets(w) \subseteq Complete(w)
    /\ \A p \in Targets(w) : Offset(p) = 0
    /\ ~Interrupted(Targets(w))
Counts(stat, w) ==
    LET fresh == Targets(w) \cap Complete(w)
        own == IF mode = "group" THEN (Complete(w) \ chat.mine) \ Known ELSE {}
        One(st, p) == Merge(st, {p}, (2 * SumsAfter(w)[p]) \div Length(p), Tails(p))
        merged == CASE fresh = {} -> stat
                    [] fresh # {} /\ OneJudgment(w) ->
                         Merge(stat, fresh, 2 * Judge[w.last], Tails(Max(fresh)))
                    [] OTHER -> FoldLeft(One, stat, SetToSortSeq(fresh, <))
    IN  [merged EXCEPT !.count = @ + Cardinality(own)]

Refused(r, w) ==
    LET first == Min(w.items)
        start == Offset(first)
    IN  IF r.cur = 0 THEN start # 0
        ELSE \/ w.last < r.cur
             \/ w.last = r.cur /\ (r.off = 0 \/ (w.half /\ EndOf(w) <= r.off))
             \/ r.off > 0 /\ (first # r.cur \/ start # r.off)
             \/ r.off = 0 /\ first <= r.cur

Progress(r, w, advance, stat) ==
    IF advance THEN [r EXCEPT !.cur = w.last, !.off = EndOf(w), !.stat = stat]
    ELSE [r EXCEPT !.stat = stat]
Save(r, w, advance) ==
    /\ row' = Progress(r, w, advance, Counts(r.stat, w))
    /\ ends' = [p \in Pos |-> IF p \in w.items \ covered THEN Offset(p) + Piece(w, p) ELSE ends[p]]
    /\ sums' = SumsAfter(w)
    /\ covered' = covered \cup Complete(w)
    /\ counted' = counted \cup ((Complete(w) \cap
                      (IF mode = "group" THEN Pos ELSE chat.mine)) \ Known)

(* A window that does not move the cursor: reconcile, recent, quoted texts. *)
Aside(w) == CanStop(w) /\ Save(row, w, FALSE)

RestOf(items, w) == IF w.half THEN After(items, w.last) \cup {w.last} ELSE After(items, w.last)

-----------------------------------------------------------------------------
(* A request, and the saved row it starts from. *)

Recovered == \E p \in Pos : p \in covered \/ ends[p] > 0
Seeded(cur) ==
    [cur |-> IF Recovered THEN 0 ELSE cur, off |-> 0, complete |-> FALSE, stat |-> Rebuilt]

(* recovery_refs: judged texts of the subject whose words were never saved.  Without     *)
(* texts_for_refs reading every one of them no progress row is seeded.                   *)
RecoveryRefs == chat.prior.bare \cap chat.mine
TextsForRefs(refs) == refs \cap texts
WordsRestored == [chat EXCEPT !.prior.bare = @ \ RecoveryRefs]

Seed ==
    LET before == chat.prior
        seeded == Seeded(OldCursor(before))
        whole == /\ before.complete /\ before.skip = 0
                 /\ rows = {} \/ (seeded.cur > 0 /\ seeded.cur >= Max(rows))
    IN  /\ ~HasRow /\ TextsForRefs(RecoveryRefs) = RecoveryRefs
        /\ chat' = WordsRestored
        /\ \E complete \in {FALSE, whole} : row' = [seeded EXCEPT !.complete = complete]
        /\ UNCHANGED <<mode, chatHistory, evidence, check, backfill, pass, doneAt>>

PendingOnceChecked ==
    row.cur > 0 /\ check # None /\ ~(check.rev = rev \/ Signature(check.ceiling) = check.prefix)
ReconcilePending ==
    /\ row.cur > 0
    /\ ~(check # None /\ (check.rev = rev \/ Signature(check.ceiling) = check.prefix))
CheckAfterLook ==
    IF row.cur > 0 /\ check # None /\ ~ReconcilePending THEN [check EXCEPT !.rev = rev] ELSE check
BackfillDone == backfill # None /\ backfill.done
BackfillPending == row.cur > 0 /\ ~BackfillDone

NeedsWork ==
    IF mode = "member"
    THEN \/ BackfillPending \/ ReconcilePending \/ ~row.complete
         \/ row.stat.count < Cardinality(texts \cap chat.mine)
    ELSE \/ BackfillPending \/ ReconcilePending \/ ~row.complete \/ row.off > 0
         \/ (rows # {} /\ Max(rows) > row.cur)

(* A member's pass starts when there is work, a whole one also on demand. *)
RequestPass ==
    /\ pass = NoPass /\ HasRow
    /\ check' = CheckAfterLook
    /\ \/ /\ ~NeedsWork
          /\ doneAt' = rev
          /\ pass' = NoPass
       \/ /\ NeedsWork \/ mode # "member"
          /\ doneAt' = None
          /\ pass' = [at |-> "begin", began |-> rev]
    /\ UNCHANGED <<chatSource, evidence, row, backfill>>

RequestRecent ==
    /\ pass = NoPass /\ HasRow /\ mode # "member"
    /\ pass' = [at |-> "recent", main |-> NoPass,
                buf |-> {p \in texts : Cardinality(After(rows, p)) < RecentLimit}]
    /\ doneAt' = None
    /\ UNCHANGED <<chatSource, evidence, row, check, backfill>>

-----------------------------------------------------------------------------
(* Quoted replies behind the cursor, which the older analysis did not read. *)

Backfill ==
    /\ pass.at = "begin"
    /\ IF row.cur = 0 \/ BackfillDone
       THEN /\ pass' = [at |-> "open", began |-> pass.began]
            /\ UNCHANGED backfill
       ELSE LET saved == IF backfill # None THEN backfill
                         ELSE [ceiling |-> row.cur, cur |-> 0, done |-> FALSE]
            IN  /\ backfill' = saved
                /\ pass' = [at |-> "quoted", began |-> pass.began, buf |-> {}, next |-> saved.cur]
    /\ UNCHANGED <<chatSource, evidence, row, check, doneAt>>

BackfillAt(p, done) == [backfill EXCEPT !.cur = p, !.done = done]

(* quoted_history_page: only quoted replies, and for a member only its own. *)
QuotedHistory(after, ceiling) == Page({p \in chat.quoted \cap texts : Wanted(p)}, after, ceiling)

(* The page that was read is finished before the next one is fetched. *)
QuotedPage ==
    LET read == QuotedHistory(pass.next, backfill.ceiling)
        use == {p \in read \ Known : mode = "group" \/ p \in chat.mine}
    IN  /\ pass.at = "quoted" /\ pass.buf = {}
        /\ IF read = {}
           THEN /\ backfill' = BackfillAt(pass.next, TRUE)
                /\ pass' = [at |-> "open", began |-> pass.began]
           ELSE /\ backfill' = BackfillAt(pass.next, FALSE)
                /\ pass' = [pass EXCEPT !.buf = use, !.next = Max(read)]
        /\ UNCHANGED <<chatSource, evidence, row, check, doneAt>>

(* Own texts of a group are counted one by one, the others in windows. *)
QuotedRun(buf) ==
    IF Min(buf) \notin chat.mine THEN {Min(buf)}
    ELSE {p \in buf : Upto(buf, p) \subseteq chat.mine}

QuotedWindows ==
    {w \in Windows(QuotedRun(pass.buf)) : CanStop(w) /\ (w.half => w.last \in chat.mine)}

(* An own text is saved from its first character on, a target from where the last window *)
(* stopped; commit refuses a piece that does not start where the last one of it ended.    *)
QuotedStart(p) == IF p \in chat.mine THEN Offset(p) ELSE 0
NonContiguous(w) == \E p \in w.items : QuotedStart(p) # Offset(p)

QuotedRefused ==
    /\ pass.at = "quoted" /\ pass.buf # {}
    /\ \E w \in QuotedWindows : NonContiguous(w)
    /\ pass' = NoPass
    /\ UNCHANGED <<chatSource, evidence, row, check, backfill, doneAt>>

QuotedWindow(dies) ==
    /\ pass.at = "quoted" /\ pass.buf # {}
    /\ \E w \in QuotedWindows :
         /\ ~NonContiguous(w)
         /\ Aside(w)
         /\ backfill' = IF dies \/ Complete(w) = {} THEN backfill
                        ELSE BackfillAt(Max(Complete(w)), FALSE)
         /\ pass' = IF dies THEN NoPass ELSE [pass EXCEPT !.buf = RestOf(pass.buf, w)]
    /\ UNCHANGED <<chatSource, check, doneAt>>

-----------------------------------------------------------------------------
(* incremental(): the saved cursor, the end of the history, then its revision. *)

OpenHistory ==
    /\ pass.at = "open"
    /\ pass' = [at |-> "opened", began |-> pass.began, cur |-> row.cur, off |-> row.off,
                hw |-> MaxOf(rows), buf |-> {}, next |-> 0]
    /\ UNCHANGED <<chatSource, evidence, row, check, backfill, doneAt>>

Look ==
    LET main == [at |-> "main", began |-> pass.began, cur |-> pass.cur, off |-> pass.off,
                 hw |-> pass.hw, buf |-> {}, next |-> 0, rev |-> rev]
    IN  /\ pass.at = "opened"
        /\ check' = CheckAfterLook
        /\ pass' = IF ReconcilePending
                   THEN [at |-> "reconcile", main |-> main, buf |-> {}, next |-> 0, rev |-> rev,
                         ceiling |-> row.cur, prefix |-> Signature(row.cur)]
                   ELSE main
        /\ UNCHANGED <<chatSource, evidence, row, backfill, doneAt>>

(* The prefix behind the cursor is read again for texts that came late. *)
ReconcilePage ==
    LET read == Page(rows, pass.next, pass.ceiling) IN
    /\ pass.at = "reconcile" /\ Missing(pass.buf) = {}
    /\ IF read # {}
       THEN /\ pass' = [pass EXCEPT !.buf = read \cap texts, !.next = Max(read)]
            /\ UNCHANGED check
       ELSE /\ check' = IF rev = pass.rev
                        THEN [rev |-> rev, prefix |-> pass.prefix, ceiling |-> pass.ceiling]
                        ELSE check
            /\ pass' = pass.main
    /\ UNCHANGED <<chatSource, evidence, row, backfill, doneAt>>

FromMissing(buf) == {p \in buf : p >= Min(Missing(buf))}

AsideWindow ==
    /\ pass.at \in {"reconcile", "recent"} /\ Missing(pass.buf) # {}
    /\ \E w \in Windows(FromMissing(pass.buf)) :
         /\ Aside(w)
         /\ pass' = [pass EXCEPT !.buf = RestOf(FromMissing(pass.buf), w)]
    /\ UNCHANGED <<chatSource, check, backfill, doneAt>>

TakeRecent ==
    /\ pass.at = "main" /\ mode # "member"
    /\ pass' = [at |-> "recent", main |-> pass,
                buf |-> {p \in texts : Cardinality(After(rows, p)) < RecentLimit}]
    /\ Missing(pass'.buf) # {}
    /\ UNCHANGED <<chatSource, evidence, row, check, backfill, doneAt>>

RecentEnds ==
    /\ pass.at = "recent" /\ Missing(pass.buf) = {}
    /\ pass' = pass.main
    /\ UNCHANGED <<chatSource, evidence, row, check, backfill, doneAt>>

-----------------------------------------------------------------------------
(* The loop of incremental(). *)

Unfinished == pass.hw > 0 /\ (pass.cur < pass.hw \/ pass.off > 0)
NextPage == Page(rows, IF pass.off > 0 THEN pass.cur - 1 ELSE pass.cur, pass.hw)

ReadPage ==
    /\ pass.at = "main" /\ pass.next = 0
    /\ Unfinished /\ NextPage # {}
    /\ pass' = [pass EXCEPT !.buf = NextPage \cap texts, !.next = Max(NextPage)]
    /\ UNCHANGED <<chatSource, evidence, row, check, backfill, doneAt>>

PassedBy ==
    /\ pass.at = "main" /\ pass.next > 0 /\ Missing(pass.buf) = {}
    /\ row' = MovedTo(pass.next, 0)
    /\ pass' = [pass EXCEPT !.cur = pass.next, !.off = 0, !.buf = {}, !.next = 0]
    /\ UNCHANGED <<chatSource, evidence, check, backfill, doneAt>>

(* Where the next window starts, and the cursor that is saved before it. *)
HalfRead == pass.off > 0 /\ pass.cur <= Min(Missing(pass.buf))
Start ==
    IF mode = "member" /\ HalfRead /\ (pass.cur \in pass.buf => pass.cur \notin Known)
    THEN pass.cur ELSE Min(Missing(pass.buf))
BetweenAndFirst == {p \in pass.buf : p <= Start /\ (mode = "member" => p > pass.cur)}
Between ==
    {p \in pass.buf : p < Start /\ (mode = "member" => p > pass.cur)}
NeverStale == FALSE
Stale == mode = "member" /\ HalfRead /\ pass.cur \in pass.buf \cap Known
Skipped ==
    IF Between # {} THEN MovedTo(Max(Between), 0)
    ELSE IF Stale THEN MovedTo(pass.cur, 0) ELSE row
Items == {p \in pass.buf : p >= Start /\ (mode = "member" => p <= Max(Missing(pass.buf)))}

(* A recent window may have read on in the text the cursor stands at. *)
Caught(r) ==
    LET first == Min(Items) IN
    IF Offset(first) > 0 /\ (first # r.cur \/ Offset(first) > r.off)
    THEN [r EXCEPT !.cur = first, !.off = Offset(first), !.complete = FALSE] ELSE r

Window(w) ==
    LET r == Caught(Skipped)
        rest == RestOf(pass.buf, w)
    IN  /\ CanStop(w)
        /\ IF Refused(r, w)
           THEN /\ row' = r
                /\ pass' = NoPass
                /\ UNCHANGED evidence
           ELSE /\ Save(r, w, TRUE)
                /\ pass' = IF w.half \/ pass.next > w.last
                           THEN [pass EXCEPT !.cur = w.last, !.off = EndOf(w), !.buf = rest]
                           ELSE [pass EXCEPT !.cur = w.last, !.off = EndOf(w), !.buf = {}, !.next = 0]

Infer ==
    /\ pass.at = "main" /\ pass.next > 0 /\ Missing(pass.buf) # {}
    /\ \E w \in Windows(Items) : Window(w)
    /\ UNCHANGED <<chatSource, check, backfill, doneAt>>

InferDies ==
    /\ pass.at = "main" /\ pass.next > 0 /\ Missing(pass.buf) # {}
    /\ row' \in {Skipped, Caught(Skipped)}
    /\ pass' = NoPass
    /\ UNCHANGED <<chatSource, evidence, check, backfill, doneAt>>

Finish(dies) ==
    /\ pass.at = "main" /\ pass.next = 0
    /\ ~Unfinished \/ NextPage = {}
    /\ row' = [row EXCEPT !.complete = TRUE]
    /\ pass' = NoPass
    /\ check' = IF ~dies /\ pass.cur > 0 /\ rev = pass.rev
                THEN [rev |-> rev, prefix |-> Signature(pass.cur), ceiling |-> pass.cur]
                ELSE check
    /\ doneAt' = IF dies THEN None ELSE pass.began
    /\ UNCHANGED <<chatSource, evidence, backfill>>

-----------------------------------------------------------------------------
(* The rest of the world. *)

Revised == rev' = rev + 1
Changed == rev < MaxChanges /\ Revised
           /\ UNCHANGED <<chat, mode, row, evidence, check, backfill, pass, doneAt>>

Show ==
    /\ Changed
    /\ \E p \in Pos \ shown :
         /\ beyond' = IF check # None /\ check.ceiling < p /\ p < Max(shown)
                      THEN beyond \cup {p} ELSE beyond
         /\ rows' = rows \cup {p} /\ shown' = shown \cup {p}
         /\ texts' = IF p \in chat.images THEN texts ELSE texts \cup {p}

Lose == Changed /\ \E p \in texts :
    rows' = rows \ {p} /\ texts' = texts \ {p} /\ UNCHANGED <<shown, beyond>>
Recall == Changed /\ \E p \in texts : texts' = texts \ {p} /\ UNCHANGED <<rows, shown, beyond>>

(* The process dies or the iterator is thrown away. *)
Drop ==
    /\ pass # NoPass
    /\ pass' = NoPass
    /\ UNCHANGED <<chatSource, evidence, row, check, backfill, doneAt>>

(* clear_scope of this portrait: the older results no longer count, and their words are  *)
(* not wanted.                                                                            *)
Reset ==
    /\ HasRow \/ RecoveryRefs # {}
    /\ row' = NoRow /\ check' = None /\ backfill' = None /\ pass' = NoPass
    /\ covered' = {} /\ counted' = {}
    /\ ends' = [p \in Pos |-> 0] /\ sums' = [p \in Pos |-> 0]
    /\ chat' = [chat EXCEPT !.prior = [known |-> {}, bare |-> {}, cur |-> 0, complete |-> FALSE, skip |-> 0]]
    /\ doneAt' = None
    /\ beyond' = {}
    /\ UNCHANGED <<mode, rows, texts, shown, rev>>

(* The progress row is missing while the judgments are there. *)
LoseProgress ==
    /\ HasRow /\ pass = NoPass
    /\ row' = NoRow
    /\ doneAt' = None
    /\ UNCHANGED <<chatSource, evidence, check, backfill, pass>>

PassWork ==
    \/ Backfill \/ QuotedPage \/ QuotedWindow(FALSE)
    \/ OpenHistory \/ Look \/ ReconcilePage \/ AsideWindow
    \/ TakeRecent \/ RecentEnds
    \/ ReadPage \/ PassedBy \/ Infer \/ Finish(FALSE)
Die == QuotedRefused \/ QuotedWindow(TRUE) \/ InferDies \/ Finish(TRUE) \/ Drop
ScanNext ==
    \/ Seed \/ RequestPass \/ RequestRecent \/ PassWork
    \/ Die \/ Show \/ Lose \/ Recall \/ Reset \/ LoseProgress

ScanSpec == ScanInit /\ [][ScanNext]_scanVars
-----------------------------------------------------------------------------
(* Properties. *)

Buffers == {"quoted", "reconcile", "recent"}
ScanTypeOK ==
    /\ chat.prior.known \subseteq Pos
    /\ texts \subseteq rows /\ rows \subseteq shown /\ shown \subseteq Pos
    /\ rev \in 0..MaxChanges /\ beyond \subseteq shown
    /\ counted \subseteq covered /\ covered \subseteq Pos
    /\ \A p \in Pos : ends[p] \in 0..Length(p) /\ sums[p] \in Nat
    /\ HasRow => row.cur \in 0..Max(Pos) /\ row.off \in {0, 1} /\ row.complete \in BOOLEAN
    /\ pass # NoPass => HasRow
    /\ pass.at \in {"idle", "begin", "open", "opened", "main"} \cup Buffers
    /\ pass.at \in Buffers => pass.buf \subseteq Pos

(* What the windows added up, in whatever order they came, is what         *)
(* _recover_state would rebuild from the saved judgments: no text counts   *)
(* twice or not at all, each score has the weight of its place, and a text *)
(* counts only when the last of its units was saved.                       *)
StatisticsMatchEvidence ==
    /\ ScanTypeOK
    /\ HasRow => row.stat = Rebuilt
    /\ \A p \in covered \ LegacyKnown : ends[p] = Length(p)

(* Every readable text behind the saved cursor was judged, unless it came  *)
(* after later ones, is the one being read, or is left to the backfill.    *)
Unread(S) == {p \in S \ Known : mode = "group" \/ p \in chat.mine}
CameLate(p) == p \notin chat.first /\ \E q \in shown : q > p
LeftToBackfill(p) == p \in chat.quoted /\ ~BackfillDone
NothingSkipped ==
    HasRow => \A p \in Unread(Upto(texts, row.cur)) :
        CameLate(p) \/ LeftToBackfill(p) \/ (p = row.cur /\ row.off > 0)

(* What the tables claim is true.  While the history has the revision that *)
(* was checked, every text of the checked prefix was judged, so a pass may *)
(* leave it out; and if nothing has changed since a pass began that ended  *)
(* "done", or since a request was answered "done", every text was judged.  *)
(* Two exceptions: the count of a member includes texts that were recalled *)
(* and may hide as many new ones.                                          *)
Masked == mode = "member" /\ ~(counted \cup LegacyCounted \subseteq texts)
ClaimsAreTrue ==
    /\ check # None /\ check.rev = rev =>
        \A p \in Unread(Upto(texts, check.ceiling)) \ beyond :
            LeftToBackfill(p) \/ (p = row.cur /\ row.off > 0)
    /\ pass = NoPass /\ doneAt = rev /\ ~Masked => Unread(texts) \subseteq beyond

(* A pass and its backfill go on from whatever an interrupted pass and the *)
(* windows aside left: commit accepts the next window, wherever it stops.  *)
(* Two exceptions: the half-read text the cursor stands at is gone; and a  *)
(* quoted own text of a group that a recent window read by half, which the *)
(* backfill saves from its first character on, so that every retry fails.  *)
HalfReadOwn(p) == mode = "group" /\ p \notin chat.mine /\ p \notin covered /\ ends[p] > 0
ResumesUnlessLost ==
    /\ pass.at = "main" /\ pass.next > 0 /\ Missing(pass.buf) # {} =>
         \A w \in Windows(Items) :
             CanStop(w) /\ Refused(Caught(Skipped), w) => row.off > 0 /\ row.cur \notin pass.buf
    /\ pass.at = "quoted" /\ pass.buf # {} =>
         \A w \in QuotedWindows : NonContiguous(w) => HalfReadOwn(w.last)
=============================================================================
