---------------------------- MODULE AccountProofs ----------------------------
(***************************************************************************)
(* Proofs about how an account is read and how it is removed.  The first   *)
(* part is about WeChatReader, for any accounts, processes, tasks, saved   *)
(* keys and scans, and any number of logins, changes and removals; the     *)
(* second about AccountRemoval, for any bridges, states of the source,     *)
(* logins and faults.                                                      *)
(***************************************************************************)
EXTENDS WeChatReader, AccountRemoval, FiniteSetTheorems, WellFoundedInduction, TLAPS

-----------------------------------------------------------------------------
(* The inductive invariant *)

Answers == {None} \cup SUBSET (Procs \cup {None})
Questions == UNION {[A -> Answers] : A \in SUBSET Accounts}
Bindings == [acct : Accounts, origin : Selections]
SrcRecord == [db : Readers \cup {None}, origin : Selections \cup {None},
              held : Accounts \cup {None}, lease : Accounts \cup {None}, closed : BOOLEAN]
OpRecord == [task : Tasks, kind : {"capture", "open", "recheck", "deliver"},
             stage : {"asked", "built", "reading"}, sel : Selections \cup {None},
             reader : Readers \cup {None}, seen : Questions]
ScanRecord == [sel : Selections, token : Tokens, keys : SUBSET Keys,
               stage : {"searching", "found", "verified"}, attached : BOOLEAN]
TaskRecord == [stage : {"idle", "captured", "read", "delivered"},
               mode : {"request", "task", "advisor"}, bind : Bindings \cup {None},
               reader : Readers \cup {None}, data : Selections \cup {None}, moved : BOOLEAN]

Typed ==
    /\ TypeOK
    /\ cache \in [Accounts -> Answers]
    /\ src \in SrcRecord
    /\ op \in OpRecord \cup {None}
    /\ slot \in Slots \cup {None}
    /\ scans \subseteq ScanRecord
    /\ gone \subseteq Accounts
    /\ task \in [Tasks -> TaskRecord]

\* The slot holds what its scan found and no more; it is announced to one scan, which
\* is of its token, and what a scan has found it has found by its token.
Searched ==
    /\ slot # None =>
         /\ slot.keys \subseteq TokenKeys(slot.token)
         /\ slot.state \in {"running", "failed"} => slot.keys = {}
         /\ slot.state = "sessions" => \E k \in slot.keys : k.part = "anchors"
         /\ slot.state = "ready" => slot.keys = TokenKeys(slot.token) /\ slot.token.shards > 0
         /\ slot.state = "running" => slot.scanning
         /\ slot.scanning => \E c \in scans : c.attached
    /\ \A c \in scans :
         /\ c.token.sel = c.sel
         /\ c.stage # "searching" => c.keys \subseteq TokenKeys(c.token)
         /\ c.attached => slot # None /\ slot.scanning /\ slot.token = c.token
    /\ \A c, d \in scans : c.attached /\ d.attached => c = d

\* A reader is of one account, and can open what its token names.
OfOne(r) == r.acct = r.sel.acct
Opens(r) == TokenKeys(r.token) \subseteq r.keys
Scoped(r) == OfOne(r) /\ \A k \in r.keys : k.acct = r.acct

ReadersRight ==
    /\ src.db # None => Scoped(src.db) /\ Opens(src.db)
    /\ src.lease # None => src.db # None /\ src.db.acct = src.lease
    /\ \A t \in Tasks : task[t].reader # None => OfOne(task[t].reader)

Forgotten ==
    \A a \in gone : /\ slot # None => slot.token.sel.acct # a
                    /\ src.db # None => src.db.acct # a

\* What is being built is for the account that was asked for and is held.
OpRight ==
    op # None =>
        /\ op.stage = "built" =>
             /\ op.sel \in Selections /\ op.reader \in Readers
             /\ Scoped(op.reader) /\ op.reader.sel = op.sel
             /\ src.origin = op.sel /\ src.held = op.sel.acct /\ op.sel.acct \notin gone
        /\ op.stage = "reading" =>
             op.kind = "open" /\ op.reader \in Readers /\ src.held = op.reader.acct
        /\ op.kind = "recheck" => op.reader # None
        /\ op.kind = "capture" <=> task[op.task].stage = "idle"
        /\ op.kind \in {"open", "recheck"} => task[op.task].stage = "captured"
        /\ op.kind = "deliver" => task[op.task].stage = "read"
        /\ (op.stage = "reading" \/ (op.kind = "recheck" /\ op.stage = "asked")) /\ op.task \in bound
             => op.reader.sel = task[op.task].bind.origin

\* A binding that is not void is the source's of now, and what was read under it
\* was read from the account that it names.
BoundRight ==
    /\ \A t \in Tasks : task[t].moved => t \notin bound /\ task[t].stage \in {"captured", "read"}
    /\ \A t \in bound :
         /\ task[t].stage \in {"captured", "read"} =>
              task[t].bind \in Bindings /\ task[t].bind.origin = src.origin
              /\ task[t].bind.acct = src.origin.acct
    /\ \A t \in bound : task[t].stage = "read" => task[t].data = task[t].bind.origin
    /\ \A t \in Tasks : task[t].stage = "delivered" =>
         task[t].data = task[t].bind.origin /\ task[t].data.acct = task[t].bind.acct

\* An account that another instance holds is not held here.
Apart == src.held # None => other # src.held

IInv == Typed /\ Searched /\ ReadersRight /\ Forgotten /\ OpRight /\ BoundRight /\ Apart

-----------------------------------------------------------------------------
(* Selections, tokens and readers *)

LEMMA SelectionTyped ==
    ASSUME Typed, NEW answer, DOMAIN answer \subseteq Accounts, Selection(answer) # None
    PROVE  Selection(answer) \in Selections
<1> DEFINE owned == {a \in DOMAIN answer : answer[a] \cap alive # {}}
           a == CHOOSE x \in owned : TRUE
<1>1. Selection(answer) = IF Cardinality(owned) = 1
                          THEN [acct |-> a, procs |-> answer[a] \cap alive] ELSE None
    BY DEF Selection
<1>2. Cardinality(owned) = 1 /\ Selection(answer) = [acct |-> a, procs |-> answer[a] \cap alive]
    BY <1>1
<1>3. owned # {}
    BY <1>2, FS_EmptySet
<1>4. a \in owned
    BY <1>3
<1>5. a \in Accounts
    BY <1>4
<1>6. alive \subseteq Procs
    BY DEF Typed, TypeOK
<1> HIDE DEF a, owned
<1> QED  BY <1>2, <1>5, <1>6 DEF Selections

LEMMA AnswerTyped ==
    ASSUME Typed, op # None
    PROVE  DOMAIN Answer(op) \subseteq Accounts /\ op \in OpRecord
BY DEF Typed, OpRecord, Questions, Answer

LEMMA PagesTyped ==
    ASSUME Typed, NEW a \in Accounts
    PROVE  pages[a].anchors \in Nat /\ pages[a].shards \in Nat
BY ReaderAssumption DEF Typed, TypeOK

LEMMA TokenTyped ==
    ASSUME Typed, NEW s \in Selections, NEW whole \in BOOLEAN
    PROVE  /\ Token(s, whole) \in Tokens
           /\ Token(s, whole).sel = s /\ Token(s, whole).anchors = pages[s.acct].anchors
           /\ Token(s, whole).shards = IF whole THEN pages[s.acct].shards ELSE 0
<1>1. s.acct \in Accounts
    BY DEF Selections
<1> QED  BY <1>1, PagesTyped DEF Token, Tokens

\* What a token's keys are, one for each group of databases that there is.
LEMMA TokenKeysAre ==
    ASSUME NEW tk \in Tokens
    PROVE  /\ TokenKeys(tk) \subseteq Keys
           /\ \A k \in TokenKeys(tk) : k.acct = tk.sel.acct
           /\ [acct |-> tk.sel.acct, part |-> "anchors", ver |-> tk.anchors] \in TokenKeys(tk)
           /\ \A k \in TokenKeys(tk) : k.part = "anchors" =>
                k = [acct |-> tk.sel.acct, part |-> "anchors", ver |-> tk.anchors]
           /\ \A k \in TokenKeys(tk) : k.part = "shards" =>
                tk.shards > 0 /\ k = [acct |-> tk.sel.acct, part |-> "shards", ver |-> tk.shards]
<1>1. tk.sel.acct \in Accounts /\ tk.anchors \in Nat /\ tk.shards \in Nat
    BY DEF Tokens, Selections
<1> QED  BY <1>1 DEF TokenKeys, Keys

\* A key of each of its groups is all of a token's keys.
LEMMA AllFound ==
    ASSUME NEW tk \in Tokens, NEW keys, keys \subseteq TokenKeys(tk),
           \E k \in keys : k.part = "anchors", \E k \in keys : k.part = "shards"
    PROVE  keys = TokenKeys(tk) /\ tk.shards > 0
<1>1. PICK k \in keys : k.part = "anchors"
    OBVIOUS
<1>2. PICK d \in keys : d.part = "shards"
    OBVIOUS
<1>3. /\ k = [acct |-> tk.sel.acct, part |-> "anchors", ver |-> tk.anchors]
      /\ d = [acct |-> tk.sel.acct, part |-> "shards", ver |-> tk.shards] /\ tk.shards > 0
    BY <1>1, <1>2, TokenKeysAre
<1>4. TokenKeys(tk) \subseteq {k, d}
    BY <1>3 DEF TokenKeys
<1> QED  BY <1>3, <1>4

LEMMA SavedKeysAre ==
    ASSUME NEW a \in Accounts
    PROVE  SavedKeys(a) \subseteq Keys /\ \A k \in SavedKeys(a) : k.acct = a
BY ReaderAssumption DEF SavedKeys

LEMMA ReaderTyped ==
    ASSUME Typed, NEW s \in Selections, NEW keys \in SUBSET Keys, NEW ready \in BOOLEAN,
           \A k \in keys : k.acct = s.acct
    PROVE  /\ Reader(s, keys, ready) \in Readers
           /\ Scoped(Reader(s, keys, ready)) /\ Reader(s, keys, ready).sel = s
           /\ Reader(s, keys, ready).ready = ready
<1>1. s.acct \in Accounts /\ Token(s, ready) \in Tokens
    BY TokenTyped DEF Selections
<1> QED  BY <1>1 DEF Reader, Readers, Scoped, OfOne

-----------------------------------------------------------------------------
(* The slot and its scans *)

LEMMA NoneApart == None \notin Readers /\ None \notin Slots /\ None \notin Accounts
BY ReaderAssumption

LEMMA SlotTyped ==
    ASSUME NEW tk \in Tokens, NEW state \in {"running", "failed", "sessions", "ready"},
           NEW keys \in SUBSET Keys, NEW scanning \in BOOLEAN,
           slot' = [token |-> tk, state |-> state, keys |-> keys, scanning |-> scanning]
    PROVE  /\ slot' \in Slots /\ slot' # None
           /\ slot'.token = tk /\ slot'.state = state /\ slot'.keys = keys
           /\ slot'.scanning = scanning
<1>1. slot' \in Slots
    BY DEF Slots
<1> QED  BY <1>1, NoneApart

\* A new scan is attached to a slot that announces none, with what is saved already.
LEMMA NewScanTyped ==
    ASSUME Typed, NEW s \in Selections, NEW keys \in SUBSET Keys
    PROVE  /\ NewScan(s, keys) \in ScanRecord
           /\ NewScan(s, keys).token = Token(s, TRUE) /\ NewScan(s, keys).sel = s
           /\ NewScan(s, keys).stage = "searching" /\ NewScan(s, keys).attached
BY TokenTyped DEF NewScan, ScanRecord

LEMMA DetachedTyped ==
    ASSUME Typed
    PROVE  /\ Detached \subseteq ScanRecord
           /\ \A d \in Detached : ~d.attached /\ \E c \in scans :
                d.token = c.token /\ d.sel = c.sel /\ d.keys = c.keys /\ d.stage = c.stage
<1>1. ASSUME NEW c \in scans, NEW d, d = [c EXCEPT !.attached = FALSE]
      PROVE  /\ d \in ScanRecord /\ ~d.attached
             /\ d.token = c.token /\ d.sel = c.sel /\ d.keys = c.keys /\ d.stage = c.stage
    <2>1. c \in ScanRecord
        BY DEF Typed
    <2> QED  BY <1>1, <2>1 DEF ScanRecord
<1> QED  BY <1>1 DEF Detached

\* What a scan must be when it is not attached.
LEMMA Dropped ==
    ASSUME Typed, Searched, slot' = None, scans' = Detached
    PROVE  Searched'
<1>1. \A c \in scans' : ~c.attached /\ c.token.sel = c.sel
                         /\ (c.stage # "searching" => c.keys \subseteq TokenKeys(c.token))
    BY DetachedTyped DEF Searched
<1> QED  BY <1>1 DEF Searched

LEMMA Replaced ==
    ASSUME Typed, Searched, NEW s \in Selections, NEW keys \in SUBSET Keys,
           slot' = [token |-> Token(s, TRUE), state |-> "running", keys |-> {}, scanning |-> TRUE],
           scans' = Detached \cup {NewScan(s, keys)}
    PROVE  slot' \in Slots /\ scans' \subseteq ScanRecord /\ Searched'
<1>1. /\ slot' \in Slots /\ slot' # None /\ slot'.token = Token(s, TRUE)
      /\ slot'.keys = {} /\ slot'.state = "running" /\ slot'.scanning
    BY TokenTyped, SlotTyped
<1>2. scans' \subseteq ScanRecord
    BY NewScanTyped, DetachedTyped
<1>3. ASSUME NEW c \in scans'
      PROVE  /\ c.token.sel = c.sel
             /\ c.stage # "searching" => c.keys \subseteq TokenKeys(c.token)
             /\ c.attached => c = NewScan(s, keys) /\ c.token = slot'.token
    <2>1. CASE c = NewScan(s, keys)
        BY <1>1, <2>1, NewScanTyped, TokenTyped
    <2>2. CASE c \in Detached
        <3>1. PICK d \in scans : c.token = d.token /\ c.sel = d.sel /\ c.keys = d.keys /\ c.stage = d.stage
            BY <2>2, DetachedTyped
        <3> QED  BY <2>2, <3>1, DetachedTyped DEF Searched
    <2> QED  BY <2>1, <2>2
<1>4. NewScan(s, keys) \in scans' /\ NewScan(s, keys).attached
    BY NewScanTyped
<1> QED  BY <1>1, <1>2, <1>3, <1>4 DEF Searched

\* The slot is tried again, with what it has; or its keys turn out not to open it.
LEMMA TriedAgain ==
    ASSUME Typed, Searched, slot # None, NEW s \in Selections, slot.token = Token(s, TRUE),
           NEW keys \in SUBSET Keys, NEW again \in BOOLEAN, NEW fails \in BOOLEAN,
           again => ~slot.scanning, slot.state \in {"ready", "sessions"},
           slot' = [token |-> slot.token, state |-> IF fails THEN "failed" ELSE slot.state,
                    keys |-> IF fails THEN {} ELSE slot.keys, scanning |-> slot.scanning \/ again],
           scans' = IF again THEN scans \cup {NewScan(s, keys)} ELSE scans
    PROVE  slot' \in Slots /\ scans' \subseteq ScanRecord /\ Searched'
<1>1. slot \in Slots
    BY DEF Typed
<1>2. PICK state, kept, scanning :
        /\ state = IF fails THEN "failed" ELSE slot.state
        /\ kept = IF fails THEN {} ELSE slot.keys
        /\ scanning = (slot.scanning \/ again)
    OBVIOUS
<1>3. /\ state \in {"failed", "sessions", "ready"} /\ kept \in SUBSET Keys /\ scanning \in BOOLEAN
      /\ slot.token \in Tokens
    BY <1>1, <1>2 DEF Slots
<1>4. /\ slot' \in Slots /\ slot' # None /\ slot'.token = slot.token /\ slot'.state = state
      /\ slot'.keys = kept /\ slot'.scanning = scanning
    BY <1>2, <1>3, SlotTyped
<1>5. scans' \subseteq ScanRecord
    BY NewScanTyped DEF Typed
<1>6. ASSUME NEW c \in scans'
      PROVE  /\ c.token.sel = c.sel
             /\ c.stage # "searching" => c.keys \subseteq TokenKeys(c.token)
             /\ c.attached => slot'.scanning /\ c.token = slot'.token
    <2>1. CASE c \in scans
        BY <1>2, <1>4, <2>1 DEF Searched
    <2>2. CASE again /\ c = NewScan(s, keys)
        BY <1>2, <1>4, <2>2, NewScanTyped, TokenTyped
    <2> QED  BY <2>1, <2>2
<1>7. \A c, d \in scans' : c.attached /\ d.attached => c = d
    BY DEF Searched
<1>8. slot'.scanning => \E c \in scans' : c.attached
    BY <1>2, <1>4, NewScanTyped DEF Searched
<1>9. /\ kept \subseteq TokenKeys(slot.token)
      /\ state = "failed" => kept = {}
      /\ state = "sessions" => \E k \in kept : k.part = "anchors"
      /\ state = "ready" => kept = TokenKeys(slot.token) /\ slot.token.shards > 0
    BY <1>2 DEF Searched
<1> QED  BY <1>3, <1>4, <1>5, <1>6, <1>7, <1>8, <1>9 DEF Searched

\* What one call of the factory leaves behind, and the reader that it may return.
LEMMA MadeKeeps ==
    ASSUME Typed, Searched, NEW s \in Selections, NEW due \in BOOLEAN, NEW m \in Made(s, due),
           slot' = m.slot, scans' = m.scans
    PROVE  /\ slot' \in Slots \cup {None} /\ scans' \subseteq ScanRecord /\ Searched'
           /\ slot' # None => (slot # None /\ slot'.token = slot.token) \/ slot'.token.sel = s
           /\ m.reader # None => m.reader \in Readers /\ Scoped(m.reader) /\ m.reader.sel = s
<1> DEFINE a == s.acct
           same == slot # None /\ slot.token = Token(s, TRUE)
           mine == IF same THEN slot ELSE None
           left == IF same THEN scans ELSE Detached
           again == same /\ slot.state = "sessions" /\ ~slot.scanning /\ due
           held == [slot EXCEPT !.scanning = @ \/ again]
           broken == [held EXCEPT !.state = "failed", !.keys = {}]
           more == IF again THEN left \cup {NewScan(s, SavedKeys(a) \cup slot.keys)} ELSE left
           fresh == [token |-> Token(s, TRUE), state |-> "running", keys |-> {},
                     scanning |-> TRUE]
<1>1. a \in Accounts
    BY DEF Selections
<1>2. m \in (IF MessagesReady(a, Saved)
             THEN {[reader |-> Reader(s, SavedKeys(a), TRUE), slot |-> slot, scans |-> scans]}
             ELSE IF mine # None /\ slot.state \in {"ready", "sessions"}
             THEN {[reader |-> Reader(s, slot.keys, slot.state = "ready"), slot |-> held, scans |-> more],
                   [reader |-> None, slot |-> broken, scans |-> more]}
             ELSE IF mine # None /\ (slot.state = "running" \/ ~due)
             THEN {[reader |-> None, slot |-> slot, scans |-> left]}
             ELSE {[reader |-> None, slot |-> fresh,
                    scans |-> Detached \cup {NewScan(s, SavedKeys(a))}]})
    BY DEF Made
<1>3. mine # None <=> same
    OBVIOUS
<1>4. slot' = slot /\ scans' = scans =>
        /\ slot' \in Slots \cup {None} /\ scans' \subseteq ScanRecord /\ Searched'
    BY DEF Typed, Searched
<1>5. CASE m = [reader |-> Reader(s, SavedKeys(a), TRUE), slot |-> slot, scans |-> scans]
    <2>1. slot' = slot /\ scans' = scans /\ m.reader = Reader(s, SavedKeys(a), TRUE)
        BY <1>5
    <2>2. SavedKeys(a) \in SUBSET Keys /\ \A k \in SavedKeys(a) : k.acct = s.acct
        BY <1>1, SavedKeysAre
    <2>3. m.reader \in Readers /\ Scoped(m.reader) /\ m.reader.sel = s
        <3> HIDE DEF a
        <3> QED  BY <2>1, <2>2, ReaderTyped
    <2> QED  BY <1>4, <2>1, <2>3
<1>6. CASE same /\ slot.state \in {"ready", "sessions"} /\ m.scans = more
             /\ \/ m.slot = held /\ m.reader = Reader(s, slot.keys, slot.state = "ready")
                \/ m.slot = broken /\ m.reader = None
    <2>1. slot \in Slots
        BY <1>6 DEF Typed
    <2>2. slot.keys \in SUBSET Keys /\ slot.scanning \in BOOLEAN /\ again \in BOOLEAN
        BY <2>1 DEF Slots
    <2>3. SavedKeys(a) \cup slot.keys \in SUBSET Keys
        BY <1>1, <2>2, SavedKeysAre
    <2>4. PICK scanning : scanning = (slot.scanning \/ again)
        OBVIOUS
    <2>5. /\ held = [token |-> slot.token, state |-> slot.state, keys |-> slot.keys,
                     scanning |-> scanning]
          /\ broken = [token |-> slot.token, state |-> "failed", keys |-> {},
                       scanning |-> scanning]
        <3>1. [slot EXCEPT !.scanning = scanning]
                = [token |-> slot.token, state |-> slot.state, keys |-> slot.keys, scanning |-> scanning]
            BY <2>1 DEF Slots
        <3>2. held = [slot EXCEPT !.scanning = scanning]
            <4> HIDE DEF again
            <4> QED  BY <2>4
        <3>3. broken = [held EXCEPT !.state = "failed", !.keys = {}]
            OBVIOUS
        <3> HIDE DEF held, broken
        <3> QED  BY <3>1, <3>2, <3>3
    <2>6. again => ~slot.scanning
        OBVIOUS
    <2>7. scans' = IF again THEN scans \cup {NewScan(s, SavedKeys(a) \cup slot.keys)} ELSE scans
        BY <1>6
    <2>8. slot.token = Token(s, TRUE) /\ slot # None
        BY <1>6
    <2>9. PICK fails \in BOOLEAN : fails <=> m.slot = broken
        OBVIOUS
    <2>10. slot' = [token |-> slot.token, state |-> IF fails THEN "failed" ELSE slot.state,
                    keys |-> IF fails THEN {} ELSE slot.keys, scanning |-> slot.scanning \/ again]
        <3> HIDE DEF held, broken, again
        <3> QED  BY <1>6, <2>4, <2>5, <2>9
    <2>11. \A k \in slot.keys : k.acct = s.acct
        <3>1. slot.token \in Tokens /\ slot.token.sel = s /\ slot.keys \subseteq TokenKeys(slot.token)
            BY <2>1, <2>8, TokenTyped DEF Searched, Slots
        <3> QED  BY <3>1, TokenKeysAre
    <2>12. m.reader # None => m.reader \in Readers /\ Scoped(m.reader) /\ m.reader.sel = s
        <3>1. CASE m.reader = None
            BY <3>1
        <3>2. CASE m.reader = Reader(s, slot.keys, slot.state = "ready")
            <4>1. (slot.state = "ready") \in BOOLEAN
                OBVIOUS
            <4>2. PICK ready \in BOOLEAN : ready = (slot.state = "ready")
                BY <4>1
            <4>3. m.reader = Reader(s, slot.keys, ready)
                BY <3>2, <4>2
            <4> QED  BY <2>2, <2>11, <4>3, ReaderTyped
        <3> QED  BY <1>6, <3>1, <3>2
    <2> HIDE DEF again, a
    <2>13. slot' \in Slots /\ scans' \subseteq ScanRecord /\ Searched'
        BY <1>6, <2>2, <2>3, <2>6, <2>7, <2>8, <2>10, TriedAgain
    <2>14. slot'.token = slot.token
        BY <2>10
    <2> QED  BY <2>8, <2>12, <2>13, <2>14
<1>7. CASE same /\ m = [reader |-> None, slot |-> slot, scans |-> left]
    BY <1>4, <1>7
<1>8. CASE m = [reader |-> None, slot |-> fresh, scans |-> Detached \cup {NewScan(s, SavedKeys(a))}]
    <2>1. slot' = fresh /\ scans' = Detached \cup {NewScan(s, SavedKeys(a))} /\ m.reader = None
        BY <1>8
    <2>2. slot'.token.sel = s
        <3>1. slot'.token = Token(s, TRUE)
            BY <2>1
        <3> QED  BY <3>1, TokenTyped
    <2>3. slot' \in Slots /\ scans' \subseteq ScanRecord /\ Searched'
        BY <1>1, <2>1, Replaced, SavedKeysAre
    <2> QED  BY <2>1, <2>2, <2>3
<1>9. \/ m = [reader |-> Reader(s, SavedKeys(a), TRUE), slot |-> slot, scans |-> scans]
      \/ /\ same /\ slot.state \in {"ready", "sessions"} /\ m.scans = more
         /\ \/ m.slot = held /\ m.reader = Reader(s, slot.keys, slot.state = "ready")
            \/ m.slot = broken /\ m.reader = None
      \/ same /\ m = [reader |-> None, slot |-> slot, scans |-> left]
      \/ m = [reader |-> None, slot |-> fresh, scans |-> Detached \cup {NewScan(s, SavedKeys(a))}]
    <2>1. CASE MessagesReady(a, Saved)
        BY <1>2, <2>1
    <2>2. CASE ~MessagesReady(a, Saved) /\ same /\ slot.state \in {"ready", "sessions"}
        <3>1. \/ m = [reader |-> Reader(s, slot.keys, slot.state = "ready"), slot |-> held, scans |-> more]
              \/ m = [reader |-> None, slot |-> broken, scans |-> more]
            <4> HIDE DEF held, broken, more
            <4> QED  BY <1>2, <1>3, <2>2
        <3> HIDE DEF held, broken, more
        <3>2. m.scans = more
            BY <3>1
        <3>3. \/ m.slot = held /\ m.reader = Reader(s, slot.keys, slot.state = "ready")
              \/ m.slot = broken /\ m.reader = None
            BY <3>1
        <3> QED  BY <2>2, <3>2, <3>3
    <2>3. CASE ~MessagesReady(a, Saved) /\ ~(same /\ slot.state \in {"ready", "sessions"})
        <3>1. m \in (IF same /\ (slot.state = "running" \/ ~due)
                     THEN {[reader |-> None, slot |-> slot, scans |-> left]}
                     ELSE {[reader |-> None, slot |-> fresh,
                            scans |-> Detached \cup {NewScan(s, SavedKeys(a))}]})
            <4> HIDE DEF left, fresh, held, broken, more
            <4> QED  BY <1>2, <1>3, <2>3
        <3> HIDE DEF left, fresh, held, broken, more
        <3>2. CASE same /\ (slot.state = "running" \/ ~due)
            BY <3>1, <3>2
        <3>3. CASE ~(same /\ (slot.state = "running" \/ ~due))
            BY <3>1, <3>3
        <3> QED  BY <3>2, <3>3
    <2> QED  BY <2>1, <2>2, <2>3
<1> QED  BY <1>5, <1>6, <1>7, <1>8, <1>9

\* Nothing is found that is not a key of the token; what is attached stays attached.
LEMMA ScanMoves ==
    ASSUME Typed, Searched, NEW c \in scans, NEW d \in ScanRecord,
           d.token = c.token, d.sel = c.sel, d.attached = c.attached,
           d.keys \subseteq TokenKeys(c.token),
           scans' = (scans \ {c}) \cup {d}, UNCHANGED slot
    PROVE  scans' \subseteq ScanRecord /\ Searched'
<1>1. scans' \subseteq ScanRecord
    BY DEF Typed
<1>2. \A e \in scans' : /\ e.token.sel = e.sel
                        /\ e.stage # "searching" => e.keys \subseteq TokenKeys(e.token)
                        /\ e.attached => slot' # None /\ slot'.scanning /\ e.token = slot'.token
    BY DEF Searched
<1>3. \A e, f \in scans' : e.attached /\ f.attached => e = f
    BY DEF Searched
<1>4. slot' # None /\ slot'.scanning => \E e \in scans' : e.attached
    BY DEF Searched
<1> QED  BY <1>1, <1>2, <1>3, <1>4 DEF Searched

LEMMA ScanSteps ==
    ASSUME Typed, Searched, NEW c \in scans, NEW looks \in {"same", "changed"},
           \/ \E found \in SUBSET TokenKeys(c.token) : ScanMemory(c, looks, found)
           \/ ScanVerify(c, looks)
           \/ ScanPublish(c)
    PROVE  /\ slot' \in Slots \cup {None} /\ scans' \subseteq ScanRecord /\ Searched'
           /\ slot' # None => slot # None /\ slot'.token = slot.token
<1>1. c \in ScanRecord /\ c.token \in Tokens
    BY DEF Typed, ScanRecord
<1>2. TokenKeys(c.token) \subseteq Keys
    BY <1>1, TokenKeysAre
<1>3. ASSUME NEW found \in SUBSET TokenKeys(c.token), ScanMemory(c, looks, found)
      PROVE  scans' \subseteq ScanRecord /\ Searched' /\ slot' = slot
    <2>1. PICK keys : keys = (c.keys \cap TokenKeys(c.token)) \cup found
        OBVIOUS
    <2>2. PICK d : d = [c EXCEPT !.keys = keys, !.stage = "found"]
        OBVIOUS
    <2>3. keys \subseteq TokenKeys(c.token) /\ keys \in SUBSET Keys
        BY <1>2, <2>1
    <2>4. /\ d \in ScanRecord /\ d.token = c.token /\ d.sel = c.sel /\ d.attached = c.attached
          /\ d.keys = keys
        BY <1>1, <2>2, <2>3 DEF ScanRecord
    <2>5. scans' = (scans \ {c}) \cup {d} /\ UNCHANGED slot
        BY <1>3, <2>1, <2>2 DEF ScanMemory
    <2> QED  BY <2>3, <2>4, <2>5, ScanMoves
<1>4. ASSUME ScanVerify(c, looks)
      PROVE  scans' \subseteq ScanRecord /\ Searched' /\ slot' = slot
    <2>1. PICK keys : keys = IF looks = "same" /\ Token(c.sel, TRUE) = c.token THEN c.keys ELSE {}
        OBVIOUS
    <2>2. PICK d : d = [c EXCEPT !.stage = "verified", !.keys = keys]
        OBVIOUS
    <2>3. keys \subseteq TokenKeys(c.token) /\ keys \in SUBSET Keys
        BY <1>2, <1>4, <2>1 DEF ScanVerify, Searched
    <2>4. /\ d \in ScanRecord /\ d.token = c.token /\ d.sel = c.sel /\ d.attached = c.attached
          /\ d.keys = keys
        BY <1>1, <2>2, <2>3 DEF ScanRecord
    <2>5. scans' = (scans \ {c}) \cup {d} /\ UNCHANGED slot
        BY <1>4, <2>1, <2>2 DEF ScanVerify
    <2> QED  BY <2>3, <2>4, <2>5, ScanMoves
<1>5. ASSUME ScanPublish(c)
      PROVE  /\ slot' \in Slots \cup {None} /\ scans' \subseteq ScanRecord /\ Searched'
             /\ slot' # None => slot # None /\ slot'.token = slot.token
    <2>1. scans' = scans \ {c} /\ c.stage = "verified" /\ c.keys \subseteq TokenKeys(c.token)
        BY <1>5 DEF ScanPublish, Searched
    <2>2. CASE ~c.attached
        <3>1. slot' = slot
            BY <1>5, <2>2 DEF ScanPublish, Published
        <3>2. \A e \in scans : e.attached => e \in scans'
            BY <2>1, <2>2
        <3> QED  BY <2>1, <3>1, <3>2 DEF Typed, Searched
    <2>3. CASE c.attached
        <3>1. slot # None /\ slot.scanning /\ slot.token = c.token
            BY <2>3 DEF Searched
        <3> DEFINE sessions == \E k \in c.keys : k.part = "anchors"
                   messages == sessions /\ \E k \in c.keys : k.part = "shards"
        <3>2. PICK state : state = IF messages THEN "ready" ELSE IF sessions THEN "sessions" ELSE "failed"
            OBVIOUS
        <3>3. PICK keys : keys = IF state = "failed" THEN {} ELSE c.keys
            OBVIOUS
        <3>4. slot' = [token |-> c.token, state |-> state, keys |-> keys, scanning |-> FALSE]
            BY <1>5, <2>3, <3>1, <3>2, <3>3 DEF ScanPublish, Published, Outcome
        <3>5. state \in {"failed", "sessions", "ready"} /\ keys \in SUBSET Keys
              /\ keys \subseteq TokenKeys(c.token)
            BY <1>2, <2>1, <3>2, <3>3
        <3>6. /\ slot' \in Slots /\ slot' # None /\ slot'.token = c.token /\ slot'.state = state
              /\ slot'.keys = keys /\ slot'.scanning = FALSE
            BY <1>1, <3>4, <3>5, SlotTyped
        <3>7. state = "ready" => keys = TokenKeys(c.token) /\ c.token.shards > 0
            BY <1>1, <2>1, <3>2, <3>3, AllFound
        <3>8. state = "sessions" => \E k \in keys : k.part = "anchors"
            BY <3>2, <3>3
        <3>9. state = "failed" => keys = {}
            BY <3>3
        <3>10. \A e \in scans' : /\ ~e.attached /\ e.token.sel = e.sel
                                 /\ e.stage # "searching" => e.keys \subseteq TokenKeys(e.token)
            BY <2>1, <2>3 DEF Searched
        <3>11. Searched'
            BY <3>5, <3>6, <3>7, <3>8, <3>9, <3>10 DEF Searched
        <3> QED  BY <2>1, <3>1, <3>6, <3>11 DEF Typed
    <2> QED  BY <2>2, <2>3
<1>6. slot \in Slots \cup {None}
    BY DEF Typed
<1> QED  BY <1>3, <1>4, <1>5, <1>6

-----------------------------------------------------------------------------
(* How a reading ends *)

\* Only task t moves, and to the record n.
Alters(t, n) ==
    /\ n \in TaskRecord /\ task' \in [Tasks -> TaskRecord]
    /\ task'[t] = n /\ \A u \in Tasks : u # t => task'[u] = task[u]

LEMMA Altered ==
    ASSUME Typed, NEW t \in Tasks, NEW n \in TaskRecord, task' = [task EXCEPT ![t] = n]
    PROVE  Alters(t, n)
BY DEF Typed, Alters

LEMMA NoTaskTyped == NoTask \in TaskRecord
BY DEF NoTask, TaskRecord

\* What becomes of the source: its reader, origin and account are those of S, and its
\* lease is given up, kept, or taken for the reader that it has.
Settles(S, r) ==
    /\ src' \in SrcRecord
    /\ src'.db = S.db /\ src'.origin = S.origin /\ src'.held = S.held
    /\ src'.lease \in {None, S.lease} \/ (S.db = r /\ src'.lease = r.acct)
Leased(S) == S.lease # None => S.db # None /\ S.db.acct = S.lease
Opened(S) == S.db # None => Scoped(S.db) /\ Opens(S.db)

LEMMA FailedSettles ==
    ASSUME NEW S \in SrcRecord, NEW r, Failed(S)
    PROVE  Settles(S, r)
<1>1. PICK T : T = [S EXCEPT !.lease = None]
    OBVIOUS
<1>2. T \in SrcRecord /\ T.db = S.db /\ T.origin = S.origin /\ T.held = S.held /\ T.lease = None
    BY <1>1 DEF SrcRecord
<1>3. src' = T \/ src' = S
    BY <1>1 DEF Failed
<1> QED  BY <1>2, <1>3 DEF Settles

LEMMA LeasedSettles ==
    ASSUME NEW S \in SrcRecord, NEW r \in Readers, NEW T,
           T = [S EXCEPT !.lease = IF S.db = r THEN r.acct ELSE @]
    PROVE  /\ T \in SrcRecord /\ src' = T => Settles(S, r)
           /\ Failed(T) => Settles(S, r)
<1>1. PICK lease : lease = IF S.db = r THEN r.acct ELSE S.lease
    OBVIOUS
<1>2. lease \in Accounts \cup {None}
    BY <1>1 DEF SrcRecord, Readers
<1>3. T = [S EXCEPT !.lease = lease]
    BY <1>1
<1>4. /\ T \in SrcRecord /\ T.db = S.db /\ T.origin = S.origin /\ T.held = S.held
      /\ T.lease = lease
    BY <1>2, <1>3 DEF SrcRecord
<1>5. ASSUME Failed(T)  PROVE Settles(S, r)
    <2>1. Settles(T, r)
        BY <1>4, <1>5, FailedSettles
    <2> QED  BY <1>1, <1>4, <2>1 DEF Settles
<1> QED  BY <1>1, <1>4, <1>5 DEF Settles

LEMMA SourceSettles ==
    ASSUME NEW S, NEW r, Settles(S, r), Leased(S), Opened(S), r # None
    PROVE  /\ src'.db # None => Scoped(src'.db) /\ Opens(src'.db)
           /\ src'.lease # None => src'.db # None /\ src'.db.acct = src'.lease
BY DEF Settles, Leased, Opened

\* Bindings are void once the origin is another.
Voids(still) == still \subseteq bound /\ (src'.origin # src.origin => still = {})

LEMMA EndsKeeps ==
    ASSUME IInv, op # None, Ends(op.task), Voids(bound')
    PROVE  /\ op' = None /\ task' \in [Tasks -> TaskRecord] /\ OpRight' /\ BoundRight'
           /\ \A t \in Tasks : task'[t].reader # None => OfOne(task'[t].reader)
<1> DEFINE t == op.task
<1>1. t \in Tasks
    BY DEF IInv, Typed, OpRecord
<1> HIDE DEF t
<1>2. Alters(t, NoTask) /\ op' = None
    BY <1>1, NoTaskTyped, Altered DEF Ends, IInv, t
<1>3. NoTask.stage = "idle" /\ NoTask.reader = None /\ NoTask.moved = FALSE
    BY DEF NoTask
<1>4. BoundRight'
    <2>1. bound \subseteq Tasks
        BY DEF IInv, Typed, TypeOK
    <2>2. \A u \in Tasks : task'[u].moved => u \notin bound' /\ task'[u].stage \in {"captured", "read"}
        BY <1>2, <1>3 DEF Alters, IInv, BoundRight, Voids
    <2>3. \A u \in bound' : task'[u].stage \in {"captured", "read"} =>
              task'[u].bind \in Bindings /\ task'[u].bind.origin = src'.origin
              /\ task'[u].bind.acct = src'.origin.acct
        BY <1>2, <1>3, <2>1 DEF Alters, IInv, BoundRight, Voids
    <2>4. \A u \in bound' : task'[u].stage = "read" => task'[u].data = task'[u].bind.origin
        BY <1>2, <1>3, <2>1 DEF Alters, IInv, BoundRight, Voids
    <2>5. \A u \in Tasks : task'[u].stage = "delivered" =>
              task'[u].data = task'[u].bind.origin /\ task'[u].data.acct = task'[u].bind.acct
        BY <1>2, <1>3 DEF Alters, IInv, BoundRight
    <2> QED  BY <2>2, <2>3, <2>4, <2>5 DEF BoundRight
<1>5. OpRight'
    BY <1>2 DEF OpRight
<1>6. \A u \in Tasks : task'[u].reader # None => OfOne(task'[u].reader)
    BY <1>2, <1>3 DEF Alters, IInv, ReadersRight
<1> QED  BY <1>2, <1>4, <1>5, <1>6 DEF Alters

\* A task goes on, under a binding that holds, or without one.
LEMMA BoundMoves ==
    ASSUME IInv, NEW t \in Tasks, NEW n, Alters(t, n),
           Voids(bound' \ {t}),
           n.moved => t \notin bound' /\ n.stage \in {"captured", "read"},
           t \in bound' /\ n.stage \in {"captured", "read"} =>
              n.bind \in Bindings /\ n.bind.origin = src'.origin /\ n.bind.acct = src'.origin.acct,
           t \in bound' /\ n.stage = "read" => n.data = n.bind.origin,
           n.stage = "delivered" => n.data = n.bind.origin /\ n.data.acct = n.bind.acct
    PROVE  BoundRight'
<1>1. bound \subseteq Tasks
    BY DEF IInv, Typed, TypeOK
<1>2. \A u \in Tasks : u # t => (u \in bound' => u \in bound /\ src'.origin = src.origin)
    BY DEF Voids
<1>3. \A u \in Tasks : task'[u].moved => u \notin bound' /\ task'[u].stage \in {"captured", "read"}
    BY <1>2 DEF Alters, IInv, BoundRight
<1>4. bound' \subseteq Tasks
    BY <1>1 DEF Voids
<1>5. \A u \in bound' : task'[u].stage \in {"captured", "read"} =>
          task'[u].bind \in Bindings /\ task'[u].bind.origin = src'.origin
          /\ task'[u].bind.acct = src'.origin.acct
    BY <1>2, <1>4 DEF Alters, IInv, BoundRight
<1>6. \A u \in bound' : task'[u].stage = "read" => task'[u].data = task'[u].bind.origin
    BY <1>2, <1>4 DEF Alters, IInv, BoundRight
<1>7. \A u \in Tasks : task'[u].stage = "delivered" =>
          task'[u].data = task'[u].bind.origin /\ task'[u].data.acct = task'[u].bind.acct
    BY DEF Alters, IInv, BoundRight
<1> QED  BY <1>3, <1>5, <1>6, <1>7 DEF BoundRight

\* What a reading does with a reader of the account that was asked for.
LEMMA ReturnedKeeps ==
    ASSUME IInv, op # None, NEW r \in Readers, OfOne(r), NEW S \in SrcRecord,
           NEW still \in SUBSET bound, NEW again \in BOOLEAN,
           Returned(r, S, still, again), again => op.stage = "asked",
           S.origin = r.sel, S.held = r.acct, S.origin # src.origin => still = {},
           Leased(S), Opened(S)
    PROVE  /\ Settles(S, r) /\ bound' \subseteq Tasks
           /\ op' \in OpRecord \cup {None} /\ task' \in [Tasks -> TaskRecord]
           /\ ReadersRight' /\ OpRight' /\ BoundRight'
<1> DEFINE t == op.task
           leased == [S EXCEPT !.lease = IF S.db = r THEN r.acct ELSE @]
           binding == [acct |-> r.acct, origin |-> S.origin]
<1>1. op \in OpRecord
    BY DEF IInv, Typed
<1>2. t \in Tasks /\ task[t] \in TaskRecord
    BY <1>1 DEF OpRecord, IInv, Typed
<1>3. bound \subseteq Tasks /\ r # None
    BY NoneApart DEF IInv, Typed, TypeOK
<1>4. r.sel \in Selections /\ r.acct \in Accounts
    BY DEF Readers
<1>5. binding \in Bindings /\ binding.origin = S.origin /\ binding.acct = S.origin.acct
    BY <1>4 DEF Bindings, OfOne
<1>6. ASSUME Settles(S, r)
      PROVE  /\ src'.origin = S.origin /\ src'.held = S.held
             /\ \A b : b \subseteq still => b \subseteq bound /\ (src'.origin # src.origin => b = {})
             /\ src'.db # None => Scoped(src'.db) /\ Opens(src'.db)
             /\ src'.lease # None => src'.db # None /\ src'.db.acct = src'.lease
    BY <1>3, <1>6, SourceSettles DEF Settles
<1>7. ASSUME Settles(S, r), bound' = still, Ends(t)
      PROVE  /\ Settles(S, r) /\ bound' \subseteq Tasks
             /\ op' \in OpRecord \cup {None} /\ task' \in [Tasks -> TaskRecord]
             /\ ReadersRight' /\ OpRight' /\ BoundRight'
    <2>1. Voids(bound')
        BY <1>6, <1>7 DEF Voids
    <2>2. /\ op' = None /\ task' \in [Tasks -> TaskRecord] /\ OpRight' /\ BoundRight'
          /\ \A u \in Tasks : task'[u].reader # None => OfOne(task'[u].reader)
        BY <1>7, <2>1, EndsKeeps
    <2>3. ReadersRight'
        BY <1>6, <1>7, <2>2 DEF ReadersRight
    <2> QED  BY <1>3, <1>7, <2>2, <2>3
<1>8. ASSUME NEW n, Alters(t, n), Settles(S, r), n.reader # None => OfOne(n.reader)
      PROVE  ReadersRight'
    <2>1. \A u \in Tasks : task'[u].reader # None => OfOne(task'[u].reader)
        BY <1>8 DEF Alters, IInv, ReadersRight
    <2> QED  BY <1>6, <1>8, <2>1 DEF ReadersRight
<1>9. leased \in SrcRecord
    BY <1>4 DEF SrcRecord
<1>10. CASE ~r.ready /\ Failed(S) /\ Ends(t) /\ bound' = still
    BY <1>7, <1>10, FailedSettles
<1>11. CASE /\ r.ready /\ op.kind = "capture" /\ src' = leased /\ op' = None
            /\ task' = [task EXCEPT ![t].stage = "captured", ![t].bind = binding,
                                    ![t].reader = IF task[t].mode = "request" THEN r ELSE None]
            /\ bound' = still \cup {t}
    <2>1. PICK reader : reader = IF task[t].mode = "request" THEN r ELSE None
        OBVIOUS
    <2>2. PICK n : n = [task[t] EXCEPT !.stage = "captured", !.bind = binding, !.reader = reader]
        OBVIOUS
    <2> HIDE DEF t, binding
    <2>3. /\ n \in TaskRecord /\ n.stage = "captured" /\ n.bind = binding /\ n.reader = reader
          /\ n.moved = task[t].moved
        BY <1>2, <1>3, <1>5, <2>1, <2>2 DEF TaskRecord
    <2>4. task' = [task EXCEPT ![t] = n]
        BY <1>2, <1>11, <2>1, <2>2
    <2>5. Alters(t, n)
        BY <1>2, <2>3, <2>4, Altered DEF IInv
    <2>6. Settles(S, r)
        <3> HIDE DEF leased
        <3> QED  BY <1>9, <1>11, LeasedSettles DEF leased
    <2>7. ~n.moved
        <3>1. task[t].stage = "idle"
            BY <1>11 DEF IInv, OpRight, t
        <3> QED  BY <1>2, <2>3, <3>1 DEF IInv, BoundRight
    <2>8. BoundRight'
        <3>1. Voids(bound' \ {t})
            BY <1>6, <1>11, <2>6 DEF Voids
        <3> QED  BY <1>2, <1>5, <1>6, <2>3, <2>5, <2>6, <2>7, <3>1, BoundMoves
    <2>9. ReadersRight'
        BY <1>8, <2>1, <2>3, <2>5, <2>6
    <2>10. OpRight'
        BY <1>11 DEF OpRight
    <2>11. bound' \subseteq Tasks
        BY <1>2, <1>3, <1>11
    <2> QED  BY <1>11, <2>5, <2>6, <2>8, <2>9, <2>10, <2>11 DEF Alters
<1>12. CASE /\ r.ready /\ op.kind = "open" /\ src' = S /\ bound' = still
            /\ op' = [op EXCEPT !.stage = "reading", !.reader = r]
            /\ task' = [task EXCEPT ![t].reader = IF KeepsReader(t) THEN r ELSE None]
    <2>1. PICK reader : reader = IF KeepsReader(t) THEN r ELSE None
        OBVIOUS
    <2>2. PICK n : n = [task[t] EXCEPT !.reader = reader]
        OBVIOUS
    <2>3. /\ op' \in OpRecord /\ op'.stage = "reading" /\ op'.reader = r /\ op'.kind = "open"
          /\ op'.task = t
        BY <1>1, <1>12 DEF OpRecord
    <2>4. task[t].stage = "captured"
        BY <1>12 DEF IInv, OpRight
    <2> HIDE DEF t
    <2>5. /\ n \in TaskRecord /\ n.stage = "captured" /\ n.bind = task[t].bind /\ n.reader = reader
          /\ n.moved = task[t].moved
        BY <1>2, <1>3, <2>1, <2>2, <2>4 DEF TaskRecord
    <2>6. task' = [task EXCEPT ![t] = n]
        BY <1>2, <1>12, <2>1, <2>2
    <2>7. Alters(t, n)
        BY <1>2, <2>5, <2>6, Altered DEF IInv
    <2>8. Settles(S, r)
        BY <1>12 DEF Settles
    <2>9. t \in bound' => n.bind \in Bindings /\ n.bind.origin = src'.origin /\ n.bind.acct = src'.origin.acct
        <3>1. t \in bound' => t \in bound /\ src'.origin = src.origin
            BY <1>6, <1>12, <2>8
        <3> QED  BY <2>4, <2>5, <3>1 DEF IInv, BoundRight
    <2>10. BoundRight'
        <3>1. Voids(bound' \ {t})
            BY <1>6, <1>12, <2>8 DEF Voids
        <3>2. n.moved => t \notin bound'
            BY <1>2, <1>12, <2>5 DEF IInv, BoundRight
        <3> QED  BY <1>2, <2>5, <2>7, <2>9, <3>1, <3>2, BoundMoves
    <2>11. ReadersRight'
        BY <1>8, <2>1, <2>5, <2>7, <2>8
    <2>12. OpRight'
        <3>1. src'.held = r.acct
            BY <1>12
        <3>2. task'[t].stage = "captured" /\ task'[t].bind = n.bind
            BY <2>5, <2>7 DEF Alters
        <3>3. t \in bound' => r.sel = n.bind.origin
            BY <1>12, <2>9
        <3> QED  BY <2>3, <3>1, <3>2, <3>3 DEF OpRight
    <2> QED  BY <1>3, <1>12, <2>3, <2>7, <2>8, <2>10, <2>11, <2>12 DEF Alters
<1>13. CASE r.ready /\ op.kind = "recheck" /\ src' = S /\ ~again /\ Ends(t) /\ bound' = still
    <2>1. Settles(S, r)
        BY <1>13 DEF Settles
    <2> QED  BY <1>7, <1>13, <2>1
<1>14. CASE /\ r.ready /\ op.kind = "recheck" /\ src' = S /\ again /\ op' = None /\ bound' = still
            /\ task' = [task EXCEPT ![t].stage = "read", ![t].data = op.reader.sel]
    <2>1. op.reader \in Readers /\ task[t].stage = "captured" /\ (t \in bound => op.reader.sel = task[t].bind.origin)
        BY <1>1, <1>14 DEF OpRecord, IInv, OpRight
    <2>2. op.reader.sel \in Selections
        BY <2>1 DEF Readers
    <2>3. PICK n : n = [task[t] EXCEPT !.stage = "read", !.data = op.reader.sel]
        OBVIOUS
    <2> HIDE DEF t
    <2>4. /\ n \in TaskRecord /\ n.stage = "read" /\ n.bind = task[t].bind /\ n.reader = task[t].reader
          /\ n.moved = task[t].moved /\ n.data = op.reader.sel
        BY <1>2, <2>2, <2>3 DEF TaskRecord
    <2>5. task' = [task EXCEPT ![t] = n]
        BY <1>2, <1>14, <2>3
    <2>6. Alters(t, n)
        BY <1>2, <2>4, <2>5, Altered DEF IInv
    <2>7. Settles(S, r)
        BY <1>14 DEF Settles
    <2>8. t \in bound' => n.bind \in Bindings /\ n.bind.origin = src'.origin /\ n.bind.acct = src'.origin.acct
        <3>1. t \in bound' => t \in bound /\ src'.origin = src.origin
            BY <1>6, <1>14, <2>7
        <3> QED  BY <2>1, <2>4, <3>1 DEF IInv, BoundRight
    <2>9. BoundRight'
        <3>1. Voids(bound' \ {t})
            BY <1>6, <1>14, <2>7 DEF Voids
        <3>2. n.moved => t \notin bound'
            BY <1>2, <1>14, <2>4 DEF IInv, BoundRight
        <3>3. t \in bound' => n.data = n.bind.origin
            BY <1>14, <2>1, <2>4
        <3> QED  BY <1>2, <2>4, <2>6, <2>8, <3>1, <3>2, <3>3, BoundMoves
    <2>10. ReadersRight'
        <3>1. n.reader # None => OfOne(n.reader)
            BY <1>2, <2>4 DEF IInv, ReadersRight
        <3> QED  BY <1>8, <2>6, <2>7, <3>1
    <2>11. OpRight'
        BY <1>14 DEF OpRight
    <2> QED  BY <1>3, <1>14, <2>6, <2>7, <2>9, <2>10, <2>11 DEF Alters
<1>15. CASE /\ r.ready /\ op.kind = "deliver" /\ bound' = still
            /\ t \in still /\ task[t].bind = binding /\ src' = leased /\ op' = None
            /\ task' = [task EXCEPT ![t].stage = "delivered", ![t].reader = None]
    <2>1. /\ task[t].stage = "read" /\ t \in bound
          /\ task[t].data = task[t].bind.origin /\ task[t].bind.acct = task[t].bind.origin.acct
          /\ ~task[t].moved
        BY <1>2, <1>15 DEF IInv, OpRight, BoundRight
    <2>2. PICK n : n = [task[t] EXCEPT !.stage = "delivered", !.reader = None]
        OBVIOUS
    <2> HIDE DEF t
    <2>3. /\ n \in TaskRecord /\ n.stage = "delivered" /\ n.bind = task[t].bind /\ n.reader = None
          /\ n.moved = task[t].moved /\ n.data = task[t].data
        BY <1>2, <2>2 DEF TaskRecord
    <2>4. task' = [task EXCEPT ![t] = n]
        BY <1>2, <1>15, <2>2
    <2>5. Alters(t, n)
        BY <1>2, <2>3, <2>4, Altered DEF IInv
    <2>6. Settles(S, r)
        <3> HIDE DEF leased
        <3> QED  BY <1>9, <1>15, LeasedSettles DEF leased
    <2>7. BoundRight'
        <3>1. Voids(bound' \ {t})
            BY <1>6, <1>15, <2>6 DEF Voids
        <3> QED  BY <1>2, <2>1, <2>3, <2>5, <3>1, BoundMoves
    <2>8. ReadersRight'
        BY <1>8, <2>3, <2>5, <2>6
    <2>9. OpRight'
        BY <1>15 DEF OpRight
    <2> QED  BY <1>3, <1>15, <2>5, <2>6, <2>7, <2>8, <2>9 DEF Alters
<1>16. CASE r.ready /\ op.kind = "deliver" /\ Failed(leased) /\ Ends(t) /\ bound' = still
    <2>1. Settles(S, r)
        <3> HIDE DEF leased
        <3> QED  BY <1>9, <1>16, LeasedSettles DEF leased
    <2> QED  BY <1>7, <1>16, <2>1
<1> QED  BY <1>10, <1>11, <1>12, <1>13, <1>14, <1>15, <1>16 DEF Returned

-----------------------------------------------------------------------------
(* A question is answered *)

\* A reading that ends leaves nothing behind but what the source already had.
LEMMA FailsKeeps ==
    ASSUME IInv, op # None, NEW S \in SrcRecord, Failed(S) \/ src' = S, Ends(op.task),
           bound' \subseteq bound, S.origin # src.origin => bound' = {}, Leased(S), Opened(S)
    PROVE  /\ src' \in SrcRecord /\ src'.db = S.db /\ src'.held = S.held
           /\ bound' \subseteq Tasks /\ op' = None /\ task' \in [Tasks -> TaskRecord]
           /\ ReadersRight' /\ OpRight' /\ BoundRight'
<1>1. PICK T : T = [S EXCEPT !.lease = None]
    OBVIOUS
<1>2. T \in SrcRecord /\ T.db = S.db /\ T.origin = S.origin /\ T.held = S.held /\ T.lease = None
    BY <1>1 DEF SrcRecord
<1>3. src' = T \/ src' = S
    BY <1>1 DEF Failed
<1>4. /\ src' \in SrcRecord /\ src'.db = S.db /\ src'.origin = S.origin /\ src'.held = S.held
      /\ src'.lease \in {None, S.lease}
    BY <1>2, <1>3
<1>5. /\ op' = None /\ task' \in [Tasks -> TaskRecord] /\ OpRight' /\ BoundRight'
      /\ \A t \in Tasks : task'[t].reader # None => OfOne(task'[t].reader)
    BY <1>4, EndsKeeps DEF Voids
<1>6. ReadersRight'
    BY <1>4, <1>5 DEF ReadersRight, Leased, Opened
<1>7. bound' \subseteq Tasks
    BY DEF IInv, Typed, TypeOK
<1> QED  BY <1>4, <1>5, <1>6, <1>7

\* Bindings outlive a step that leaves their tasks and the origin alone.
LEMMA BoundStays ==
    ASSUME IInv, UNCHANGED task, Voids(bound')
    PROVE  BoundRight'
BY DEF IInv, BoundRight, Voids, Typed, TypeOK

\* What a forgotten account has is not brought back but for the account asked for.
LEMMA ForgottenStays ==
    ASSUME IInv, src'.db \in {src.db, None}, NEW a, gone' = gone \ {a},
           slot' # None => (slot # None /\ slot'.token = slot.token) \/ slot'.token.sel.acct = a
    PROVE  Forgotten'
BY DEF IInv, Forgotten

\* What a step of a reading must keep of the source, the tasks and itself; and of the
\* factory.
ReadingKept ==
    /\ src' \in SrcRecord /\ bound' \subseteq Tasks /\ op' \in OpRecord \cup {None}
    /\ task' \in [Tasks -> TaskRecord]
    /\ ReadersRight' /\ OpRight' /\ BoundRight' /\ Apart'
FactoryKept ==
    /\ slot' \in Slots \cup {None} /\ scans' \subseteq ScanRecord /\ gone' \subseteq Accounts
    /\ Searched'

LEMMA FactoryStays ==
    ASSUME IInv, UNCHANGED factory
    PROVE  FactoryKept /\ (src'.db \in {src.db, None} => Forgotten')
<1>1. UNCHANGED slot /\ UNCHANGED scans /\ UNCHANGED gone
    BY DEF factory
<1>2. FactoryKept
    BY <1>1 DEF FactoryKept, IInv, Typed, Searched
<1>3. src'.db \in {src.db, None} => Forgotten'
    BY <1>1 DEF IInv, Forgotten
<1> QED  BY <1>2, <1>3

LEMMA SelectedKeeps ==
    ASSUME IInv, op # None, op.stage = "asked", NEW s \in Selections, Selected(s), other' = other
    PROVE  ReadingKept /\ FactoryKept /\ Forgotten'
<1> DEFINE t == op.task
           still == Observed(s)
           seen == [src EXCEPT !.origin = s]
           mine == [seen EXCEPT !.held = s.acct]
           keeps == src.db # None /\ Valid(src.db, s)
           next == IF keeps THEN mine ELSE [mine EXCEPT !.db = None, !.lease = None]
<1>1. op \in OpRecord /\ src \in SrcRecord /\ s.acct \in Accounts /\ gone \subseteq Accounts
    BY DEF IInv, Typed, Selections
<1>2. t \in Tasks /\ task[t] \in TaskRecord
    BY <1>1 DEF OpRecord, IInv, Typed
<1>3. still \subseteq bound /\ (s # src.origin => still = {})
    BY DEF Observed
<1>4. /\ seen \in SrcRecord /\ seen.db = src.db /\ seen.lease = src.lease
      /\ seen.origin = s /\ seen.held = src.held
    BY <1>1 DEF SrcRecord
<1>5. /\ mine \in SrcRecord /\ mine.db = src.db /\ mine.lease = src.lease
      /\ mine.origin = s /\ mine.held = s.acct
    <2> HIDE DEF seen
    <2> QED  BY <1>1, <1>4 DEF SrcRecord
<1>6. Leased(src) /\ Opened(src)
    BY DEF IInv, ReadersRight, Leased, Opened
<1>7. Leased(seen) /\ Opened(seen) /\ Leased(mine) /\ Opened(mine)
    <2> HIDE DEF seen, mine
    <2> QED  BY <1>4, <1>5, <1>6 DEF Leased, Opened
<1>8. /\ next \in SrcRecord /\ next.origin = s /\ next.held = s.acct /\ next.db \in {src.db, None}
      /\ Leased(next) /\ Opened(next)
    <2>1. CASE keeps
        <3> HIDE DEF mine, keeps
        <3> QED  BY <1>5, <1>7, <2>1
    <2>2. CASE ~keeps
        <3>1. PICK n : n = [mine EXCEPT !.db = None, !.lease = None]
            OBVIOUS
        <3> HIDE DEF mine, keeps
        <3>2. /\ n \in SrcRecord /\ n.origin = s /\ n.held = s.acct /\ n.db = None /\ n.lease = None
            BY <1>5, <3>1 DEF SrcRecord
        <3> QED  BY <2>2, <3>1, <3>2 DEF Leased, Opened
    <2> QED  BY <2>1, <2>2
<1> HIDE DEF t, still, seen, mine, next
<1>9. ~LeaseTaken(s) => other' # s.acct
    BY <1>1, NoneApart DEF LeaseTaken, IInv, Apart
\* A reading that gives up, and one that has its reader.
<1>10. ASSUME NEW S \in {seen, mine, next}, Failed(S), bound' = still, Ends(t),
              S # seen => ~LeaseTaken(s)
       PROVE  ReadingKept /\ src'.db \in {src.db, None}
    <2>1. /\ S \in SrcRecord /\ S.db \in {src.db, None} /\ S.origin = s
          /\ Leased(S) /\ Opened(S)
        BY <1>4, <1>5, <1>7, <1>8, <1>10
    <2>2. /\ src' \in SrcRecord /\ src'.db = S.db /\ src'.held = S.held
          /\ bound' \subseteq Tasks /\ op' = None /\ task' \in [Tasks -> TaskRecord]
          /\ ReadersRight' /\ OpRight' /\ BoundRight'
        BY <1>3, <1>10, <2>1, FailsKeeps DEF t
    <2>3. Apart'
        <3>1. CASE S = seen
            BY <1>4, <2>2, <3>1 DEF IInv, Apart
        <3>2. CASE S # seen
            BY <1>5, <1>8, <1>9, <1>10, <2>2, <3>2 DEF Apart
        <3> QED  BY <3>1, <3>2
    <2> QED  BY <2>1, <2>2, <2>3 DEF ReadingKept
<1>11. ASSUME NEW r \in Readers, OfOne(r), r.sel = s, ~LeaseTaken(s),
              Returned(r, mine, still, TRUE)
       PROVE  ReadingKept /\ src'.db \in {src.db, None}
    <2>1. mine.origin = r.sel /\ mine.held = r.acct
        BY <1>5, <1>11 DEF OfOne
    <2>2. /\ Settles(mine, r) /\ bound' \subseteq Tasks
          /\ op' \in OpRecord \cup {None} /\ task' \in [Tasks -> TaskRecord]
          /\ ReadersRight' /\ OpRight' /\ BoundRight'
        BY <1>3, <1>5, <1>7, <1>11, <2>1, ReturnedKeeps
    <2>3. src' \in SrcRecord /\ src'.db = src.db /\ src'.held = s.acct
        BY <1>5, <2>2 DEF Settles
    <2>4. Apart'
        BY <1>9, <1>11, <2>3 DEF Apart
    <2> QED  BY <2>2, <2>3, <2>4 DEF ReadingKept
<1>12. keeps => src.db \in Readers /\ OfOne(src.db) /\ src.db.sel = s
    BY <1>1 DEF SrcRecord, Valid, IInv, ReadersRight, Scoped
<1>13. CASE Refused(t, s) \/ LeaseTaken(s)
    <2>1. Failed(seen) /\ bound' = still /\ Ends(t) /\ UNCHANGED factory
        BY <1>13 DEF Selected, t, seen, still
    <2> QED  BY <1>10, <2>1, FactoryStays
<1>14. CASE ~(Refused(t, s) \/ LeaseTaken(s)) /\ task[t].reader # None
    <2>1. /\ UNCHANGED factory
          /\ IF Valid(task[t].reader, s) THEN Returned(task[t].reader, mine, still, TRUE)
             ELSE Failed(mine) /\ bound' = still /\ Ends(t)
        BY <1>14 DEF Selected, t, seen, mine, still
    <2>2. CASE Valid(task[t].reader, s)
        <3>1. task[t].reader \in Readers /\ OfOne(task[t].reader) /\ task[t].reader.sel = s
            BY <1>2, <1>14, <2>2 DEF TaskRecord, Valid, IInv, ReadersRight
        <3> QED  BY <1>11, <1>14, <2>1, <2>2, <3>1, FactoryStays
    <2>3. CASE ~Valid(task[t].reader, s)
        BY <1>10, <1>14, <2>1, <2>3, FactoryStays
    <2> QED  BY <2>2, <2>3
<1>15. CASE /\ ~(Refused(t, s) \/ LeaseTaken(s)) /\ task[t].reader = None
            /\ keeps /\ src.db.ready
    <2>1. UNCHANGED factory /\ Returned(src.db, mine, still, TRUE)
        BY <1>15 DEF Selected, t, seen, mine, still
    <2> QED  BY <1>11, <1>12, <1>15, <2>1, FactoryStays
<1>16. CASE /\ ~(Refused(t, s) \/ LeaseTaken(s)) /\ task[t].reader = None
            /\ ~(keeps /\ src.db.ready)
    <2>1. PICK m \in Made(s, TRUE) \cup Made(s, FALSE) :
            /\ slot' = m.slot /\ scans' = m.scans /\ gone' = gone \ {s.acct}
            /\ IF m.reader # None /\ (keeps => m.reader.ready)
               THEN /\ src' = next /\ bound' = still
                    /\ op' = [op EXCEPT !.stage = "built", !.sel = s, !.reader = m.reader]
                    /\ UNCHANGED task
               ELSE IF keeps THEN Returned(src.db, mine, still, TRUE)
               ELSE Failed(next) /\ bound' = still /\ Ends(t)
        BY <1>16 DEF Selected, t, seen, mine, still, next
    <2>2. PICK due \in BOOLEAN : m \in Made(s, due)
        BY <2>1
    <2>3. /\ slot' \in Slots \cup {None} /\ scans' \subseteq ScanRecord /\ Searched'
          /\ slot' # None => (slot # None /\ slot'.token = slot.token) \/ slot'.token.sel = s
          /\ m.reader # None => m.reader \in Readers /\ Scoped(m.reader) /\ m.reader.sel = s
        BY <2>1, <2>2, MadeKeeps DEF IInv
    <2>4. FactoryKept
        BY <1>1, <2>1, <2>3 DEF FactoryKept
    <2>5. src'.db \in {src.db, None} => Forgotten'
        BY <2>1, <2>3, ForgottenStays
    <2>6. CASE m.reader # None /\ (keeps => m.reader.ready)
        <3>1. /\ src' = next /\ bound' = still /\ UNCHANGED task
              /\ op' = [op EXCEPT !.stage = "built", !.sel = s, !.reader = m.reader]
            BY <2>1, <2>6
        <3>2. /\ op' \in OpRecord /\ op'.stage = "built" /\ op'.sel = s /\ op'.reader = m.reader
              /\ op'.kind = op.kind /\ op'.task = t
            BY <1>1, <2>3, <2>6, <3>1 DEF OpRecord, t
        <3>3. Voids(bound')
            BY <1>3, <1>8, <3>1 DEF Voids
        <3>4. BoundRight'
            BY <3>1, <3>3, BoundStays
        <3>5. OpRight'
            <4>1. src'.origin = s /\ src'.held = s.acct /\ s.acct \notin gone'
                BY <1>8, <2>1, <3>1
            <4>2. UNCHANGED task
                BY <3>1
            <4> QED  BY <2>3, <2>6, <3>2, <4>1, <4>2 DEF IInv, OpRight, t
        <3>6. ReadersRight'
            BY <1>8, <3>1 DEF IInv, ReadersRight, Leased, Opened
        <3>7. Apart'
            BY <1>8, <1>9, <1>16, <3>1 DEF Apart
        <3>8. bound' \subseteq Tasks /\ task' \in [Tasks -> TaskRecord]
            BY <3>1, <3>3 DEF IInv, Typed, TypeOK, Voids
        <3> QED  BY <1>8, <2>4, <2>5, <3>1, <3>2, <3>4, <3>5, <3>6, <3>7, <3>8 DEF ReadingKept
    <2>7. CASE ~(m.reader # None /\ (keeps => m.reader.ready)) /\ keeps
        <3>1. Returned(src.db, mine, still, TRUE)
            BY <2>1, <2>7
        <3> QED  BY <1>11, <1>12, <1>16, <2>4, <2>5, <2>7, <3>1
    <2>8. CASE ~(m.reader # None /\ (keeps => m.reader.ready)) /\ ~keeps
        <3>1. Failed(next) /\ bound' = still /\ Ends(t)
            BY <2>1, <2>8
        <3> QED  BY <1>10, <1>16, <2>4, <2>5, <3>1
    <2> QED  BY <2>6, <2>7, <2>8
<1> QED  BY <1>13, <1>14, <1>15, <1>16

\* Nobody is selected: the source gives up its reader and its origin.
LEMMA NobodyKeeps ==
    ASSUME IInv, op # None, NobodySelected, other' = other
    PROVE  ReadingKept /\ FactoryKept /\ Forgotten'
<1>1. src \in SrcRecord
    BY DEF IInv, Typed
<1>2. PICK S : S = [Released EXCEPT !.origin = None]
    OBVIOUS
<1>3. /\ S \in SrcRecord /\ S.db = None /\ S.lease = None /\ S.origin = None /\ S.held = src.held
    BY <1>1, <1>2 DEF SrcRecord, Released
<1>4. src' = S /\ bound' = Observed(None) /\ Ends(op.task) /\ UNCHANGED factory
    BY <1>2 DEF NobodySelected
<1>5. bound' \subseteq bound /\ (S.origin # src.origin => bound' = {})
    BY <1>3, <1>4 DEF Observed
<1>6. Leased(S) /\ Opened(S)
    BY <1>3 DEF Leased, Opened
<1>7. /\ src' \in SrcRecord /\ src'.db = S.db /\ src'.held = S.held
      /\ bound' \subseteq Tasks /\ op' = None /\ task' \in [Tasks -> TaskRecord]
      /\ ReadersRight' /\ OpRight' /\ BoundRight'
    BY <1>3, <1>4, <1>5, <1>6, FailsKeeps
<1>8. Apart'
    BY <1>3, <1>7 DEF IInv, Apart
<1> QED  BY <1>3, <1>4, <1>7, <1>8, FactoryStays DEF ReadingKept

LEMMA InstallKeeps ==
    ASSUME IInv, NEW looks \in {"same", "changed"}, Install(looks)
    PROVE  ReadingKept /\ FactoryKept /\ Forgotten'
<1>1. op # None /\ op \in OpRecord /\ op.stage = "built" /\ src \in SrcRecord
    BY DEF Install, IInv, Typed
<1>2. UNCHANGED factory /\ other' = other
    BY DEF Install, outside, world
<1>3. /\ op.sel \in Selections /\ op.reader \in Readers
      /\ Scoped(op.reader) /\ op.reader.sel = op.sel
      /\ src.origin = op.sel /\ src.held = op.sel.acct /\ op.sel.acct \notin gone
    BY <1>1 DEF IInv, OpRight
<1>4. PICK tk : tk = Token(op.sel, op.reader.ready)
    OBVIOUS
<1>5. PICK r : r = [op.reader EXCEPT !.token = tk]
    OBVIOUS
<1>6. /\ tk \in Tokens /\ tk.sel = op.sel /\ tk.anchors = pages[op.sel.acct].anchors
      /\ tk.shards = IF op.reader.ready THEN pages[op.sel.acct].shards ELSE 0
    <2>1. op.reader.ready \in BOOLEAN
        BY <1>3 DEF Readers
    <2> QED  BY <1>3, <1>4, <2>1, TokenTyped DEF IInv
<1>7. /\ r \in Readers /\ r # None /\ r.sel = op.sel /\ r.acct = op.sel.acct /\ r.token = tk
      /\ r.keys = op.reader.keys /\ r.ready = op.reader.ready /\ Scoped(r)
    BY <1>3, <1>5, <1>6, NoneApart DEF Readers, Scoped, OfOne
\* A reader that stands can open what its new token names.
<1>8. Stands(r) => Opens(r)
    <2>1. r.acct \in Accounts /\ pages[r.acct].shards \in Nat
        BY <1>7, PagesTyped DEF IInv, Readers
    <2> QED  BY <1>6, <1>7, <2>1 DEF Stands, Opens, MessagesReady, SessionsReady, Key, TokenKeys
<1>9. PICK S : S = [Released EXCEPT !.db = r]
    OBVIOUS
<1>10. /\ Released \in SrcRecord /\ Released.db = None /\ Released.lease = None
       /\ Released.origin = src.origin /\ Released.held = src.held
    BY <1>1 DEF SrcRecord, Released
<1>11. /\ S \in SrcRecord /\ S.db = r /\ S.lease = None
       /\ S.origin = src.origin /\ S.held = src.held
    BY <1>7, <1>9, <1>10 DEF SrcRecord
<1>12. Leased(src) /\ Opened(src) /\ Leased(Released) /\ Opened(Released)
    BY <1>10 DEF IInv, ReadersRight, Leased, Opened
<1>13. bound \subseteq bound /\ bound \subseteq Tasks
    BY DEF IInv, Typed, TypeOK
<1>14. ASSUME NEW T \in {src, Released}, Failed(T) \/ src' = T, bound' = bound, Ends(op.task)
       PROVE  ReadingKept /\ FactoryKept /\ Forgotten'
    <2>1. /\ T \in SrcRecord /\ T.origin = src.origin /\ T.held = src.held
          /\ T.db \in {src.db, None} /\ Leased(T) /\ Opened(T)
        BY <1>1, <1>10, <1>12, <1>14
    <2>2. /\ src' \in SrcRecord /\ src'.db = T.db /\ src'.held = T.held
          /\ bound' \subseteq Tasks /\ op' = None /\ task' \in [Tasks -> TaskRecord]
          /\ ReadersRight' /\ OpRight' /\ BoundRight'
        BY <1>1, <1>14, <2>1, FailsKeeps
    <2>3. Apart'
        BY <1>2, <2>1, <2>2 DEF IInv, Apart
    <2> QED  BY <1>2, <2>1, <2>2, <2>3, FactoryStays DEF ReadingKept
<1>15. CASE Failed(src) /\ bound' = bound /\ Ends(op.task)
    BY <1>14, <1>15
<1>16. CASE src' = Released /\ bound' = bound /\ Ends(op.task)
    BY <1>14, <1>16
<1>17. CASE Stands(r) /\ Returned(r, S, bound, FALSE)
    <2>1. Leased(S) /\ Opened(S)
        BY <1>7, <1>8, <1>11, <1>17 DEF Leased, Opened
    <2>2. OfOne(r) /\ S.origin = r.sel /\ S.held = r.acct
        BY <1>3, <1>7, <1>11 DEF Scoped
    <2>3. /\ Settles(S, r) /\ bound' \subseteq Tasks
          /\ op' \in OpRecord \cup {None} /\ task' \in [Tasks -> TaskRecord]
          /\ ReadersRight' /\ OpRight' /\ BoundRight'
        BY <1>1, <1>7, <1>11, <1>13, <1>17, <2>1, <2>2, ReturnedKeeps
    <2>4. src' \in SrcRecord /\ src'.db = r /\ src'.held = src.held
        BY <1>11, <2>3 DEF Settles
    <2>5. Apart'
        BY <1>2, <2>4 DEF IInv, Apart
    <2>6. FactoryKept
        BY <1>2, FactoryStays
    <2>7. Forgotten'
        BY <1>2, <1>3, <1>7, <2>4 DEF factory, IInv, Forgotten
    <2> QED  BY <2>3, <2>4, <2>5, <2>6, <2>7 DEF ReadingKept
<1> QED  BY <1>4, <1>5, <1>9, <1>15, <1>16, <1>17 DEF Install

LEMMA NoneIsAnAnswer == None \in Answers
<1>1. None \in {None}
    OBVIOUS
<1> QED  BY <1>1 DEF Answers

\* The answers that are remembered are about processes.
LEMMA RememberedTyped ==
    ASSUME Typed, op # None
    PROVE  Remembered(op) \in [Accounts -> Answers] /\ NoAnswers \in [Accounts -> Answers]
<1>1. NoAnswers \in [Accounts -> Answers]
    BY NoneIsAnAnswer DEF NoAnswers
<1>2. op.seen \in Questions
    BY DEF Typed, OpRecord
<1>3. PICK A \in SUBSET Accounts : op.seen \in [A -> Answers]
    BY <1>2 DEF Questions
<1>4. \A a \in A : Answer(op)[a] \in Answers
    <2>1. \A a \in Accounts : Owners(a) \in Answers
        BY DEF Owners, Typed, TypeOK, Answers
    <2> QED  BY <1>3, <2>1 DEF Answer
<1>5. \A a \in Accounts : cache[a] \in Answers
    BY DEF Typed
<1> QED  BY <1>1, <1>3, <1>4, <1>5 DEF Remembered

LEMMA ResolveKeeps ==
    ASSUME IInv, NEW answers \in BOOLEAN, Resolve(answers)
    PROVE  ReadingKept /\ FactoryKept /\ Forgotten' /\ cache' \in [Accounts -> Answers]
<1>1. op # None /\ op.stage = "asked" /\ other' = other
    BY DEF Resolve, outside, world
<1>2. cache' \in [Accounts -> Answers]
    <2>1. \A a \in Accounts : None \in Answers /\ cache[a] \in Answers
        BY NoneIsAnAnswer DEF IInv, Typed
    <2>2. [a \in Accounts |-> IF a \in Asked THEN None ELSE cache[a]] \in [Accounts -> Answers]
        BY <2>1
    <2> QED  BY <1>1, <2>2, RememberedTyped DEF Resolve, IInv
<1>3. PICK s : s = Selection(Answer(op))
    OBVIOUS
<1>4. CASE answers /\ s # None
    <2>1. s \in Selections
        BY <1>1, <1>3, <1>4, AnswerTyped, SelectionTyped DEF IInv
    <2>2. Selected(s)
        BY <1>3, <1>4 DEF Resolve
    <2> QED  BY <1>1, <1>2, <2>1, <2>2, SelectedKeeps
<1>5. CASE ~(answers /\ s # None)
    <2>1. NobodySelected
        BY <1>3, <1>5 DEF Resolve
    <2> QED  BY <1>1, <1>2, <2>1, NobodyKeeps
<1> QED  BY <1>4, <1>5

-----------------------------------------------------------------------------
(* Requests and tasks *)

\* The accounts and the world as they were, the rest of its types.
LEMMA TypedStays ==
    ASSUME Typed, UNCHANGED <<owner, alive, spent, pages>>, pin' \in Accounts \cup {None},
           cache' \in [Accounts -> Answers], src' \in SrcRecord, bound' \subseteq Tasks,
           op' \in OpRecord \cup {None}, task' \in [Tasks -> TaskRecord],
           slot' \in Slots \cup {None}, scans' \subseteq ScanRecord, gone' \subseteq Accounts
    PROVE  Typed'
<1>1. src'.held \in Accounts \cup {None} /\ src'.lease \in Accounts \cup {None}
    BY DEF SrcRecord
<1>2. TypeOK'
    BY <1>1 DEF Typed, TypeOK
<1> QED  BY <1>2 DEF Typed

LEMMA BeginTyped ==
    ASSUME Typed, NEW t \in Tasks, NEW kind \in {"capture", "open", "recheck", "deliver"},
           NEW early, NEW r \in Readers \cup {None}, Begin(t, kind, early, r)
    PROVE  /\ op' \in OpRecord /\ op'.task = t /\ op'.kind = kind /\ op'.stage = "asked"
           /\ op'.reader = r
<1>1. PICK kept : op' = Question(t, kind, kept, early, r)
    BY DEF Begin
<1>2. PICK seen : seen = [a \in Asked |-> IF a \in kept THEN cache[a]
                                         ELSE IF a \in early THEN Owners(a) ELSE Late]
    OBVIOUS
<1>3. op' = [task |-> t, kind |-> kind, stage |-> "asked", sel |-> None, reader |-> r, seen |-> seen]
    BY <1>1, <1>2 DEF Question
<1>4. Asked \subseteq Accounts
    BY DEF Asked, Typed, TypeOK
<1>5. \A a \in Accounts : cache[a] \in Answers /\ Owners(a) \in Answers /\ Late \in Answers
    BY DEF Typed, TypeOK, Owners, Late, Answers
<1>6. seen \in [Asked -> Answers]
    BY <1>2, <1>4, <1>5
<1>7. seen \in Questions
    BY <1>4, <1>6 DEF Questions
<1> QED  BY <1>3, <1>7 DEF OpRecord

\* A step that begins or ends a reading touches neither the source nor the factory.
LEMMA Beside ==
    ASSUME IInv, UNCHANGED <<outside, pin, cache, src, bound, factory>>,
           op' \in OpRecord \cup {None}, task' \in [Tasks -> TaskRecord],
           OpRight', BoundRight',
           \A t \in Tasks : task'[t].reader # None => OfOne(task'[t].reader)
    PROVE  IInv'
<1>1. /\ UNCHANGED <<owner, alive, spent, pages, other, moves>>
      /\ UNCHANGED <<slot, scans, gone>> /\ UNCHANGED <<pin, cache, src, bound>>
    BY DEF outside, world, factory
<1>2. Typed'
    BY <1>1, TypedStays DEF IInv, Typed, TypeOK
<1>3. Searched'
    BY <1>1 DEF IInv, Searched
<1>4. ReadersRight'
    BY <1>1 DEF IInv, ReadersRight
<1>5. Forgotten' /\ Apart'
    BY <1>1 DEF IInv, Forgotten, Apart
<1> QED  BY <1>2, <1>3, <1>4, <1>5 DEF IInv

LEMMA CaptureStep ==
    ASSUME IInv, NEW t \in Tasks, NEW mode \in {"request", "task", "advisor"}, NEW early,
           Capture(t, mode, early)
    PROVE  IInv'
<1>1. PICK n : n = [task[t] EXCEPT !.mode = mode]
    OBVIOUS
<1>2. task[t] \in TaskRecord /\ task[t].stage = "idle"
    BY DEF IInv, Typed, Capture
<1>3. /\ n \in TaskRecord /\ n.stage = "idle" /\ n.moved = task[t].moved /\ n.reader = task[t].reader
      /\ n.bind = task[t].bind /\ n.data = task[t].data
    BY <1>1, <1>2 DEF TaskRecord
<1>4. task' = [task EXCEPT ![t] = n]
    BY <1>1 DEF Capture
<1>5. Alters(t, n)
    BY <1>3, <1>4, Altered DEF IInv
<1>6. /\ op' \in OpRecord /\ op'.task = t /\ op'.kind = "capture" /\ op'.stage = "asked"
      /\ op'.reader = None
    BY BeginTyped DEF IInv, Capture
<1>7. OpRight'
    BY <1>3, <1>5, <1>6 DEF OpRight, Alters
<1>8. BoundRight'
    <2>1. Voids(bound' \ {t})
        BY DEF Capture, Voids
    <2>2. ~n.moved
        BY <1>2, <1>3 DEF IInv, BoundRight
    <2> QED  BY <1>3, <1>5, <2>1, <2>2, BoundMoves
<1>9. \A u \in Tasks : task'[u].reader # None => OfOne(task'[u].reader)
    BY <1>3, <1>5 DEF Alters, IInv, ReadersRight
<1>10. UNCHANGED <<outside, pin, cache, src, bound, factory>>
    BY DEF Capture
<1> QED  BY <1>5, <1>6, <1>7, <1>8, <1>9, <1>10, Beside DEF Alters

\* A reading begins for a task that has something to do.
LEMMA AskStep ==
    ASSUME IInv, NEW t \in Tasks, NEW kind \in {"open", "recheck", "deliver"},
           NEW early, NEW r \in Readers \cup {None}, Begin(t, kind, early, r),
           UNCHANGED <<outside, pin, cache, src, bound, factory, task>>,
           kind \in {"open", "recheck"} => task[t].stage = "captured",
           kind = "deliver" => task[t].stage = "read",
           kind = "recheck" => r # None /\ (t \in bound => r.sel = task[t].bind.origin)
    PROVE  IInv'
<1>1. /\ op' \in OpRecord /\ op'.task = t /\ op'.kind = kind /\ op'.stage = "asked"
      /\ op'.reader = r
    BY BeginTyped DEF IInv
<1>2. UNCHANGED task /\ UNCHANGED bound /\ UNCHANGED src
    OBVIOUS
<1>3. OpRight'
    BY <1>1, <1>2 DEF OpRight
<1>4. BoundRight'
    BY <1>2, BoundStays DEF Voids
<1>5. task' \in [Tasks -> TaskRecord] /\ \A u \in Tasks : task'[u].reader # None => OfOne(task'[u].reader)
    BY <1>2 DEF IInv, Typed, ReadersRight
<1> QED  BY <1>1, <1>3, <1>4, <1>5, Beside

LEMMA OverStep ==
    ASSUME IInv, NEW t \in Tasks, task' = [task EXCEPT ![t] = NoTask],
           UNCHANGED <<outside, pin, cache, src, bound, op, factory>>,
           op = None \/ task[t].stage = "delivered"
    PROVE  IInv'
<1>1. Alters(t, NoTask) /\ NoTask.stage = "idle" /\ NoTask.reader = None /\ NoTask.moved = FALSE
    BY NoTaskTyped, Altered DEF IInv, NoTask
<1>2. BoundRight'
    <2>1. Voids(bound' \ {t})
        BY DEF Voids
    <2> QED  BY <1>1, <2>1, BoundMoves
<1>3. op' \in OpRecord \cup {None} /\ UNCHANGED <<src, bound, op, gone>>
    BY DEF IInv, Typed, factory
<1>4. OpRight'
    <2>1. CASE op = None
        BY <1>3, <2>1 DEF OpRight
    <2>2. CASE op # None /\ task[t].stage = "delivered"
        <3>1. op \in OpRecord
            BY <2>2 DEF IInv, Typed
        <3>2. op.task # t
            BY <2>2, <3>1 DEF OpRecord, IInv, OpRight
        <3>3. task'[op.task] = task[op.task]
            BY <1>1, <3>1, <3>2 DEF Alters, OpRecord
        <3> QED  BY <1>3, <3>3 DEF IInv, OpRight
    <2> QED  BY <2>1, <2>2
<1>5. \A u \in Tasks : task'[u].reader # None => OfOne(task'[u].reader)
    BY <1>1 DEF Alters, IInv, ReadersRight
<1> QED  BY <1>1, <1>2, <1>3, <1>4, <1>5, Beside DEF Alters

LEMMA TaskSteps ==
    ASSUME IInv, NEW t \in Tasks, NEW early,
           \/ Open(t, early) \/ Deliver(t, early) \/ Stop(t) \/ Rest(t)
    PROVE  IInv'
<1>1. None \in Readers \cup {None}
    OBVIOUS
<1>2. CASE Open(t, early)
    BY <1>1, <1>2, AskStep DEF Open
<1>3. CASE Deliver(t, early)
    BY <1>1, <1>3, AskStep DEF Deliver
<1>4. CASE Stop(t)
    BY <1>4, OverStep DEF Stop, Free
<1>5. CASE Rest(t)
    BY <1>5, OverStep DEF Rest
<1> QED  BY <1>2, <1>3, <1>4, <1>5

LEMMA ReadStep ==
    ASSUME IInv, NEW early, Read(early)
    PROVE  IInv'
<1>1. op # None /\ op \in OpRecord /\ op.stage = "reading" /\ op.task \in Tasks
    BY DEF Read, IInv, Typed, OpRecord
<1>2. UNCHANGED <<outside, pin, cache, src, bound, factory>>
    BY DEF Read
<1>3. CASE Ends(op.task)
    <2>1. Voids(bound')
        BY <1>2 DEF Voids
    <2>2. /\ op' = None /\ task' \in [Tasks -> TaskRecord] /\ OpRight' /\ BoundRight'
          /\ \A t \in Tasks : task'[t].reader # None => OfOne(task'[t].reader)
        BY <1>1, <1>3, <2>1, EndsKeeps
    <2> QED  BY <1>2, <2>2, Beside
<1>4. CASE Begin(op.task, "recheck", early, op.reader) /\ UNCHANGED task
    <2>1. /\ op.kind = "open" /\ op.reader \in Readers
          /\ task[op.task].stage = "captured"
          /\ op.task \in bound => op.reader.sel = task[op.task].bind.origin
        BY <1>1 DEF IInv, OpRight
    <2>2. op.reader # None
        BY <2>1, NoneApart
    <2> QED  BY <1>1, <1>2, <1>4, <2>1, <2>2, AskStep
<1> QED  BY <1>3, <1>4 DEF Read

-----------------------------------------------------------------------------
(* The user, the other instance and WeChat *)

\* Tasks are marked as moved when their bindings are void, and at most lose the keys
\* of a reader that was wiped.
MovesOn ==
    /\ task' \in [Tasks -> TaskRecord]
    /\ \A t \in Tasks :
         /\ task'[t].stage = task[t].stage /\ task'[t].bind = task[t].bind
         /\ task'[t].data = task[t].data
         /\ task'[t].reader # None => OfOne(task'[t].reader)
         /\ task'[t].moved => task[t].moved \/ task[t].stage \in {"captured", "read"}

LEMMA MovedTyped ==
    ASSUME IInv, NEW t \in Tasks, NEW n, n \in {task[t], [task[t] EXCEPT !.moved = TRUE]},
           n = task[t] \/ task[t].stage \in {"captured", "read"}
    PROVE  /\ n \in TaskRecord /\ n.stage = task[t].stage /\ n.bind = task[t].bind
           /\ n.data = task[t].data /\ n.reader = task[t].reader
           /\ n.reader # None => OfOne(n.reader)
           /\ n.moved => task[t].moved \/ task[t].stage \in {"captured", "read"}
<1>1. task[t] \in TaskRecord /\ (task[t].reader # None => OfOne(task[t].reader))
    BY DEF IInv, Typed, ReadersRight
<1> QED  BY <1>1 DEF TaskRecord

\* A step between two readings that voids every binding, or moves no task.
LEMMA Between ==
    ASSUME IInv, op = None, UNCHANGED <<owner, alive, spent, pages, other, op>>,
           pin' \in Accounts \cup {None}, cache' = NoAnswers \/ cache' = cache,
           src' \in SrcRecord, src'.origin = src.origin, src'.db \in {src.db, None},
           src'.held \in {src.held, None}, src'.lease \in {src.lease, None},
           src'.lease # None => src'.db = src.db,
           slot' \in Slots \cup {None}, scans' \subseteq ScanRecord, gone' \subseteq Accounts,
           Searched', Forgotten', MovesOn,
           bound' = {} \/ (bound' = bound /\ \A t \in Tasks : task'[t].moved = task[t].moved)
    PROVE  IInv'
<1>1. cache' \in [Accounts -> Answers] /\ bound' \subseteq Tasks
    BY NoneIsAnAnswer DEF NoAnswers, IInv, Typed, TypeOK
<1>2. Typed'
    BY <1>1, TypedStays DEF IInv, MovesOn
<1>3. ReadersRight'
    <2>1. src'.db # None => Scoped(src'.db) /\ Opens(src'.db)
        BY DEF IInv, ReadersRight
    <2>2. src'.lease # None => src'.db # None /\ src'.db.acct = src'.lease
        BY DEF IInv, ReadersRight
    <2> QED  BY <2>1, <2>2 DEF ReadersRight, MovesOn
<1>4. OpRight'
    BY DEF OpRight
<1>5. BoundRight'
    <2>1. \A t \in Tasks : task'[t].moved => t \notin bound' /\ task'[t].stage \in {"captured", "read"}
        BY DEF MovesOn, IInv, BoundRight
    <2>2. \A t \in bound' : t \in bound /\ t \in Tasks
        BY <1>1
    <2> QED  BY <2>1, <2>2 DEF MovesOn, IInv, BoundRight
<1>6. Apart'
    BY DEF IInv, Apart
<1> QED  BY <1>2, <1>3, <1>4, <1>5, <1>6 DEF IInv

LEMMA SetPinStep ==
    ASSUME IInv, NEW p, SetPin(p)
    PROVE  IInv'
<1>1. src \in SrcRecord
    BY DEF IInv, Typed
<1>2. PICK S : S = [src EXCEPT !.lease = None]
    OBVIOUS
<1>3. S \in SrcRecord /\ S.db = src.db /\ S.origin = src.origin /\ S.held = src.held /\ S.lease = None
    BY <1>1, <1>2 DEF SrcRecord
<1>4. src' = S /\ bound' = {} /\ UNCHANGED <<slot, scans, gone>> /\ cache' = NoAnswers
    BY <1>2 DEF SetPin, InvalidatedBindings, factory
<1>5. op = None /\ UNCHANGED <<owner, alive, spent, pages, other, op>> /\ pin' \in Accounts \cup {None}
    BY ReaderAssumption DEF SetPin, Free, world
<1>6. MovesOn
    <2>1. task' = [t \in Tasks |-> IF task[t].stage \in {"captured", "read"}
                                   THEN [task[t] EXCEPT !.moved = TRUE] ELSE task[t]]
        BY DEF SetPin, Moved
    <2>2. \A t \in Tasks : /\ task'[t] \in {task[t], [task[t] EXCEPT !.moved = TRUE]}
                           /\ task'[t] = task[t] \/ task[t].stage \in {"captured", "read"}
        BY <2>1
    <2>3. \A t \in Tasks :
            /\ task'[t] \in TaskRecord /\ task'[t].stage = task[t].stage /\ task'[t].bind = task[t].bind
            /\ task'[t].data = task[t].data
            /\ task'[t].reader # None => OfOne(task'[t].reader)
            /\ task'[t].moved => task[t].moved \/ task[t].stage \in {"captured", "read"}
        BY <2>2, MovedTyped
    <2> QED  BY <2>1, <2>3 DEF MovesOn
<1>7. Searched' /\ Forgotten'
    BY <1>3, <1>4 DEF IInv, Searched, Forgotten
<1>8. slot' \in Slots \cup {None} /\ scans' \subseteq ScanRecord /\ gone' \subseteq Accounts
    BY <1>4 DEF IInv, Typed
<1> QED  BY <1>3, <1>4, <1>5, <1>6, <1>7, <1>8, Between

\* The slot of an account, if it is that of one, is dropped with its scan.
LEMMA SlotDropped ==
    ASSUME IInv, slot' = slot \/ (slot # None /\ slot' = None),
           scans' = IF slot' = slot THEN scans ELSE Detached
    PROVE  slot' \in Slots \cup {None} /\ scans' \subseteq ScanRecord /\ Searched'
<1>1. CASE slot' = slot
    BY <1>1 DEF IInv, Typed, Searched
<1>2. CASE slot' # slot
    BY <1>2, Dropped, DetachedTyped DEF IInv
<1> QED  BY <1>1, <1>2

LEMMA ReleasedTyped ==
    ASSUME Typed
    PROVE  /\ Released \in SrcRecord /\ Released.db = None /\ Released.lease = None
           /\ Released.origin = src.origin /\ Released.held = src.held
BY DEF Typed, SrcRecord, Released

LEMMA ForgetStep ==
    ASSUME IInv, NEW a \in Accounts, Forget(a)
    PROVE  IInv'
<1> DEFINE open == src.db # None /\ src.db.acct = a
           wiped == Moved(LAMBDA t : open /\ task[t].bind.acct = a)
<1>1. src \in SrcRecord /\ a # None
    BY NoneApart DEF IInv, Typed
<1>2. PICK R : R = IF open THEN Released ELSE src
    OBVIOUS
<1>3. /\ R \in SrcRecord /\ R.origin = src.origin /\ R.held = src.held
      /\ R.db = (IF open THEN None ELSE src.db) /\ R.lease = (IF open THEN None ELSE src.lease)
    BY <1>1, <1>2, ReleasedTyped DEF IInv
<1>4. PICK S : S = [R EXCEPT !.lease = IF @ = a THEN None ELSE @, !.held = IF @ = a THEN None ELSE @]
    OBVIOUS
<1>5. /\ S \in SrcRecord /\ S.origin = R.origin /\ S.db = R.db
      /\ S.held \in {R.held, None} /\ S.lease \in {R.lease, None}
    BY <1>3, <1>4 DEF SrcRecord
<1>6. /\ src' = S /\ bound' = (IF open THEN {} ELSE bound) /\ cache' = NoAnswers
      /\ gone' = gone \cup {a}
    BY <1>2, <1>4 DEF Forget, InvalidatedBindings
<1>7. op = None /\ UNCHANGED <<owner, alive, spent, pages, other, op, pin>>
    BY DEF Forget, Free, world
<1>8. /\ slot' = (IF slot # None /\ slot.token.sel.acct = a THEN None ELSE slot)
      /\ scans' = (IF slot # None /\ slot.token.sel.acct = a THEN Detached ELSE scans)
    BY DEF Forget
<1>9. slot' \in Slots \cup {None} /\ scans' \subseteq ScanRecord /\ Searched'
    BY <1>8, SlotDropped
<1>10. gone' \subseteq Accounts
    BY <1>6 DEF IInv, Typed
<1>11. Forgotten'
    BY <1>3, <1>5, <1>6, <1>8 DEF IInv, Forgotten
<1>12. src'.lease # None => src'.db = src.db
    BY <1>3, <1>5, <1>6
<1>13. /\ wiped = [t \in Tasks |-> IF task[t].stage \in {"captured", "read"}
                                     /\ (open /\ task[t].bind.acct = a)
                                   THEN [task[t] EXCEPT !.moved = TRUE] ELSE task[t]]
       /\ task' = [t \in Tasks |-> IF open /\ task[t].reader = src.db
                                   THEN [wiped[t] EXCEPT !.reader.keys = {}] ELSE wiped[t]]
    BY DEF Forget, Moved
<1>14. \A t \in Tasks :
         /\ wiped[t] \in TaskRecord /\ wiped[t].stage = task[t].stage /\ wiped[t].bind = task[t].bind
         /\ wiped[t].data = task[t].data /\ wiped[t].reader = task[t].reader
         /\ wiped[t].reader # None => OfOne(wiped[t].reader)
         /\ wiped[t].moved => task[t].moved \/ task[t].stage \in {"captured", "read"}
         /\ ~open => wiped[t] = task[t]
    <2>1. \A t \in Tasks : /\ wiped[t] \in {task[t], [task[t] EXCEPT !.moved = TRUE]}
                           /\ wiped[t] = task[t] \/ (open /\ task[t].stage \in {"captured", "read"})
        BY <1>13
    <2> HIDE DEF wiped, open
    <2> QED  BY <2>1, MovedTyped
<1> HIDE DEF wiped
<1>15. ASSUME NEW t \in Tasks
       PROVE  /\ task'[t] \in TaskRecord /\ task'[t].stage = task[t].stage
              /\ task'[t].bind = task[t].bind /\ task'[t].data = task[t].data
              /\ task'[t].reader # None => OfOne(task'[t].reader)
              /\ task'[t].moved => task[t].moved \/ task[t].stage \in {"captured", "read"}
              /\ ~open => task'[t] = task[t]
    <2>1. CASE ~(open /\ task[t].reader = src.db)
        BY <1>13, <1>14, <2>1
    <2>2. CASE open /\ task[t].reader = src.db
        <3>1. PICK q : q = [wiped[t].reader EXCEPT !.keys = {}]
            OBVIOUS
        <3>2. wiped[t].reader = src.db /\ src.db \in Readers /\ src.db # None
            BY <1>1, <1>14, <2>2 DEF SrcRecord
        <3>3. q \in Readers /\ q.acct = wiped[t].reader.acct /\ q.sel = wiped[t].reader.sel
            BY <3>1, <3>2 DEF Readers
        <3>4. OfOne(q)
            BY <1>14, <3>2, <3>3 DEF OfOne
        <3>5. PICK n : n = [wiped[t] EXCEPT !.reader = q]
            OBVIOUS
        <3>6. /\ n \in TaskRecord /\ n.stage = wiped[t].stage /\ n.bind = wiped[t].bind
              /\ n.data = wiped[t].data /\ n.reader = q /\ n.moved = wiped[t].moved
            BY <1>14, <3>3, <3>5 DEF TaskRecord
        <3>7. task'[t] = n
            BY <1>13, <2>2, <3>1, <3>5
        <3> QED  BY <1>14, <2>2, <3>4, <3>6, <3>7
    <2> QED  BY <2>1, <2>2
<1>16. MovesOn
    <2>1. task' \in [Tasks -> TaskRecord]
        BY <1>13, <1>15
    <2> QED  BY <1>15, <2>1 DEF MovesOn
<1>17. bound' = {} \/ (bound' = bound /\ \A t \in Tasks : task'[t].moved = task[t].moved)
    BY <1>6, <1>15
<1>18. src' \in SrcRecord /\ src'.origin = src.origin /\ src'.db \in {src.db, None}
       /\ src'.held \in {src.held, None} /\ src'.lease \in {src.lease, None}
    BY <1>3, <1>5, <1>6
<1>19. pin' \in Accounts \cup {None}
    BY <1>7 DEF IInv, Typed, TypeOK
<1> QED  BY <1>6, <1>7, <1>9, <1>10, <1>11, <1>12, <1>16, <1>17, <1>18, <1>19, Between

LEMMA CloseEndStep ==
    ASSUME IInv, CloseEnd
    PROVE  IInv'
<1>1. PICK S : S = [Released EXCEPT !.held = None]
    OBVIOUS
<1>2. /\ S \in SrcRecord /\ S.db = None /\ S.lease = None /\ S.origin = src.origin /\ S.held = None
    BY <1>1, ReleasedTyped DEF IInv, SrcRecord
<1>3. src' = S /\ bound' = {} /\ gone' = gone /\ cache' = NoAnswers
    BY <1>1 DEF CloseEnd
<1>4. op = None /\ UNCHANGED <<owner, alive, spent, pages, other, op, pin>>
    BY DEF CloseEnd, Free, outside, world
<1>5. /\ slot' = slot \/ (slot # None /\ slot' = None)
      /\ scans' = IF slot' = slot THEN scans ELSE Detached
    BY DEF CloseEnd
<1>6. slot' \in Slots \cup {None} /\ scans' \subseteq ScanRecord /\ Searched'
    BY <1>5, SlotDropped
<1>7. Forgotten'
    BY <1>2, <1>3, <1>5 DEF IInv, Forgotten
<1>8. MovesOn
    <2>1. task' = [t \in Tasks |-> IF task[t].stage \in {"captured", "read"}
                                   THEN [task[t] EXCEPT !.moved = TRUE] ELSE task[t]]
        BY DEF CloseEnd, Moved
    <2>2. \A t \in Tasks : /\ task'[t] \in {task[t], [task[t] EXCEPT !.moved = TRUE]}
                           /\ task'[t] = task[t] \/ task[t].stage \in {"captured", "read"}
        BY <2>1
    <2>3. \A t \in Tasks :
            /\ task'[t] \in TaskRecord /\ task'[t].stage = task[t].stage /\ task'[t].bind = task[t].bind
            /\ task'[t].data = task[t].data
            /\ task'[t].reader # None => OfOne(task'[t].reader)
            /\ task'[t].moved => task[t].moved \/ task[t].stage \in {"captured", "read"}
        BY <2>2, MovedTyped
    <2> QED  BY <2>1, <2>3 DEF MovesOn
<1>9. gone' \subseteq Accounts /\ pin' \in Accounts \cup {None}
    BY <1>3, <1>4 DEF IInv, Typed, TypeOK
<1> QED  BY <1>2, <1>3, <1>4, <1>6, <1>7, <1>8, <1>9, Between

LEMMA CloseMarkStep ==
    ASSUME IInv, CloseMark
    PROVE  IInv'
<1>1. PICK S : S = [src EXCEPT !.closed = TRUE, !.lease = None]
    OBVIOUS
<1>2. src \in SrcRecord
    BY DEF IInv, Typed
<1>3. /\ S \in SrcRecord /\ S.db = src.db /\ S.lease = None /\ S.origin = src.origin /\ S.held = src.held
    BY <1>1, <1>2 DEF SrcRecord
<1>4. /\ src' = S /\ UNCHANGED <<slot, scans, gone, bound, op, task, pin, cache, other>>
      /\ UNCHANGED <<owner, alive, spent, pages>>
    BY <1>1 DEF CloseMark, outside, world, factory
<1>5. Typed'
    <2>1. /\ pin' \in Accounts \cup {None} /\ cache' \in [Accounts -> Answers] /\ bound' \subseteq Tasks
          /\ op' \in OpRecord \cup {None} /\ task' \in [Tasks -> TaskRecord]
          /\ slot' \in Slots \cup {None} /\ scans' \subseteq ScanRecord /\ gone' \subseteq Accounts
        BY <1>4 DEF IInv, Typed, TypeOK
    <2> QED  BY <1>3, <1>4, <2>1, TypedStays DEF IInv
<1>6. Searched'
    BY <1>4 DEF IInv, Searched
<1>7. ReadersRight'
    BY <1>3, <1>4 DEF IInv, ReadersRight
<1>8. Forgotten' /\ Apart'
    BY <1>3, <1>4 DEF IInv, Forgotten, Apart
<1>9. OpRight'
    BY <1>3, <1>4 DEF IInv, OpRight
<1>10. BoundRight'
    BY <1>3, <1>4 DEF IInv, BoundRight
<1> QED  BY <1>5, <1>6, <1>7, <1>8, <1>9, <1>10 DEF IInv


\* What the factory, the tasks and the source have does not depend on the world.
LEMMA WorldStays ==
    ASSUME IInv, UNCHANGED <<other, pin, cache, src, bound, op, slot, scans, gone, task>>, TypeOK'
    PROVE  IInv'
<1>1. Typed'
    BY DEF IInv, Typed
<1>2. Searched' /\ ReadersRight' /\ Forgotten'
    BY DEF IInv, Searched, ReadersRight, Forgotten
<1>3. OpRight'
    BY DEF IInv, OpRight
<1>4. BoundRight' /\ Apart'
    BY DEF IInv, BoundRight, Apart
<1> QED  BY <1>1, <1>2, <1>3, <1>4 DEF IInv

LEMMA WorldSteps ==
    ASSUME IInv, NEW a \in Accounts, NEW p \in Procs, NEW part \in {"anchors", "shards"},
           Login(a, p) \/ Logout(a) \/ Exit(p) \/ NewPages(a, part)
    PROVE  IInv'
<1>1. /\ UNCHANGED <<other, op>> /\ UNCHANGED inside
    BY DEF Login, Logout, Exit, NewPages
<1>2. UNCHANGED <<other, pin, cache, src, bound, op, slot, scans, gone, task>>
    BY <1>1 DEF inside, factory
<1>3. TypeOK /\ None \notin Procs
    BY ReaderAssumption DEF IInv, Typed
<1>4. CASE Login(a, p)
    <2>1. owner' = [owner EXCEPT ![a] = p] /\ alive' = alive \cup {p} /\ spent' = spent \cup {p}
          /\ pages' = pages
        BY <1>4 DEF Login
    <2>2. /\ owner' \in [Accounts -> Procs \cup {None}] /\ alive' \subseteq spent' /\ spent' \subseteq Procs
          /\ \A b \in Accounts : owner'[b] # None => owner'[b] \in alive'
        BY <1>3, <2>1 DEF TypeOK
    <2>3. TypeOK'
        BY <1>2, <1>3, <2>1, <2>2 DEF TypeOK
    <2> QED  BY <1>2, <2>3, WorldStays
<1>5. CASE Logout(a)
    <2>1. owner' = [owner EXCEPT ![a] = None] /\ alive' = alive /\ spent' = spent /\ pages' = pages
        BY <1>5 DEF Logout
    <2>2. /\ owner' \in [Accounts -> Procs \cup {None}] /\ alive' \subseteq spent' /\ spent' \subseteq Procs
          /\ \A b \in Accounts : owner'[b] # None => owner'[b] \in alive'
        BY <1>3, <2>1 DEF TypeOK
    <2>3. TypeOK'
        BY <1>2, <1>3, <2>1, <2>2 DEF TypeOK
    <2> QED  BY <1>2, <2>3, WorldStays
<1>6. CASE Exit(p)
    <2>1. owner' = [b \in Accounts |-> IF owner[b] = p THEN None ELSE owner[b]]
          /\ alive' = alive \ {p} /\ spent' = spent /\ pages' = pages
        BY <1>6 DEF Exit
    <2>2. /\ owner' \in [Accounts -> Procs \cup {None}] /\ alive' \subseteq spent' /\ spent' \subseteq Procs
          /\ \A b \in Accounts : owner'[b] # None => owner'[b] \in alive'
        BY <1>3, <2>1 DEF TypeOK
    <2>3. TypeOK'
        BY <1>2, <1>3, <2>1, <2>2 DEF TypeOK
    <2> QED  BY <1>2, <2>3, WorldStays
<1>7. CASE NewPages(a, part)
    <2>1. owner' = owner /\ alive' = alive /\ spent' = spent
        BY <1>7 DEF NewPages
    <2>2. pages[a].anchors \in Nat /\ pages[a].anchors >= 1 /\ pages[a].shards \in Nat
          /\ pages[a] \in [anchors : 1..MaxAnchors, shards : Nat]
        BY <1>3, ReaderAssumption DEF TypeOK
    <2>3. PICK v : v = [pages[a] EXCEPT ![part] = @ + 1]
        OBVIOUS
    <2>4. pages' = [pages EXCEPT ![a] = v]
        BY <1>7, <2>3 DEF NewPages
    <2>5. pages'[a] = v /\ \A b \in Accounts : b # a => pages'[b] = pages[b]
        BY <1>3, <2>4 DEF TypeOK
    <2>6. v.anchors <= MaxAnchors /\ v.shards \in Shards[a]
        BY <1>7, <2>5 DEF NewPages
    <2>7. v \in [anchors : 1..MaxAnchors, shards : Nat]
        <3>1. CASE part = "anchors"
            <4>1. PICK m : m = pages[a].anchors + 1
                OBVIOUS
            <4>2. v = [pages[a] EXCEPT !.anchors = m]
                BY <2>3, <3>1, <4>1
            <4>3. v.anchors = m
                BY <2>2, <4>2
            <4>4. m \in 1..MaxAnchors
                BY <2>2, <2>6, <4>1, <4>3, ReaderAssumption
            <4> QED  BY <2>2, <4>2, <4>4
        <3>2. CASE part = "shards"
            <4>1. PICK m : m = pages[a].shards + 1
                OBVIOUS
            <4>2. v = [pages[a] EXCEPT !.shards = m]
                BY <2>3, <3>2, <4>1
            <4>3. m \in Nat
                BY <2>2, <4>1
            <4> QED  BY <2>2, <4>2, <4>3
        <3> QED  BY <3>1, <3>2
    <2>8. pages' \in [Accounts -> [anchors : 1..MaxAnchors, shards : Nat]]
        BY <1>3, <2>4, <2>7 DEF TypeOK
    <2>9. \A b \in Accounts : pages'[b].shards \in Shards[b]
        BY <1>3, <2>5, <2>6 DEF TypeOK
    <2>10. TypeOK'
        BY <1>2, <1>3, <2>1, <2>8, <2>9 DEF TypeOK
    <2> QED  BY <1>2, <2>10, WorldStays
<1> QED  BY <1>4, <1>5, <1>6, <1>7

LEMMA OtherStep ==
    ASSUME IInv, OtherInstance
    PROVE  IInv'
<1>1. UNCHANGED <<owner, alive, spent, pages, pin, cache, src, bound, op, slot, scans, gone, task>>
    BY DEF OtherInstance, factory
<1>2. Typed'
    BY <1>1 DEF IInv, Typed, TypeOK
<1>3. Searched' /\ ReadersRight' /\ Forgotten'
    BY <1>1 DEF IInv, Searched, ReadersRight, Forgotten
<1>4. OpRight'
    BY <1>1 DEF IInv, OpRight
<1>5. BoundRight'
    BY <1>1 DEF IInv, BoundRight
<1>6. Apart'
    BY <1>1 DEF OtherInstance, Apart
<1> QED  BY <1>2, <1>3, <1>4, <1>5, <1>6 DEF IInv

-----------------------------------------------------------------------------
(* The scans and the reading *)

LEMMA ScanStep ==
    ASSUME IInv, NEW c \in scans, NEW looks \in {"same", "changed"},
           \/ \E found \in SUBSET TokenKeys(c.token) : ScanMemory(c, looks, found)
           \/ ScanVerify(c, looks)
           \/ ScanPublish(c)
    PROVE  IInv'
<1>1. /\ slot' \in Slots \cup {None} /\ scans' \subseteq ScanRecord /\ Searched'
      /\ slot' # None => slot # None /\ slot'.token = slot.token
    BY ScanSteps DEF IInv
<1>2. UNCHANGED <<outside, pin, cache, src, bound, op, gone, task>>
    BY DEF ScanMemory, ScanVerify, ScanPublish
<1>3. /\ UNCHANGED <<owner, alive, spent, pages, other>>
      /\ UNCHANGED <<pin, cache, src, bound, op, gone, task>>
    BY <1>2 DEF outside, world
<1>4. Typed'
    <2>1. /\ pin' \in Accounts \cup {None} /\ cache' \in [Accounts -> Answers] /\ src' \in SrcRecord
          /\ bound' \subseteq Tasks /\ op' \in OpRecord \cup {None} /\ task' \in [Tasks -> TaskRecord]
          /\ gone' \subseteq Accounts
        BY <1>3 DEF IInv, Typed, TypeOK
    <2> QED  BY <1>1, <1>3, <2>1, TypedStays DEF IInv
<1>5. ReadersRight'
    BY <1>3 DEF IInv, ReadersRight
<1>6. Forgotten' /\ Apart'
    BY <1>1, <1>3 DEF IInv, Forgotten, Apart
<1>7. OpRight'
    BY <1>3 DEF IInv, OpRight
<1>8. BoundRight'
    BY <1>3 DEF IInv, BoundRight
<1> QED  BY <1>1, <1>4, <1>5, <1>6, <1>7, <1>8 DEF IInv

LEMMA ReadingSteps ==
    ASSUME IInv, NEW answers \in BOOLEAN, NEW looks \in {"same", "changed"},
           Resolve(answers) \/ Install(looks)
    PROVE  IInv'
<1>1. ReadingKept /\ FactoryKept /\ Forgotten'
    BY ResolveKeeps, InstallKeeps
<1>2. UNCHANGED <<outside, pin>>
    BY DEF Resolve, Install
<1>3. cache' \in [Accounts -> Answers]
    <2>1. CASE Resolve(answers)
        BY <2>1, ResolveKeeps
    <2>2. CASE Install(looks)
        BY <2>2, NoneIsAnAnswer DEF Install, NoAnswers, IInv, Typed
    <2> QED  BY <2>1, <2>2
<1>4. UNCHANGED <<owner, alive, spent, pages>> /\ pin' \in Accounts \cup {None}
    BY <1>2 DEF outside, world, IInv, Typed, TypeOK
<1>5. Typed'
    BY <1>1, <1>3, <1>4, TypedStays DEF IInv, ReadingKept, FactoryKept
<1> QED  BY <1>1, <1>5 DEF IInv, ReadingKept, FactoryKept

-----------------------------------------------------------------------------
(* The invariant *)

\* A nonempty set of natural numbers has a least element: of those up to one of its
\* members, the one with the fewest below it.
LEMMA LeastElement ==
    ASSUME NEW V \in SUBSET Nat, V # {}
    PROVE  \E v \in V : \A w \in V : v <= w
<1>1. PICK m \in V : TRUE
    OBVIOUS
<1>2. m \in Nat
    OBVIOUS
<1> DEFINE S == V \cap 0..m
           Below(i) == {j \in S : j < i}
           T == {Below(i) : i \in S}
<1>3. IsFiniteSet(S)
    <2>1. IsFiniteSet(0..m) /\ S \subseteq 0..m
        BY <1>2, FS_Interval
    <2> HIDE DEF S
    <2> QED  BY <2>1, FS_Subset
<1>4. m \in S
    BY <1>1, <1>2
<1>5. S \subseteq Nat
    OBVIOUS
<1>6. \A w \in V : w \notin S => w > m
    BY <1>2
<1> HIDE DEF S
<1>7. T \subseteq FiniteSubsetsOf(S)
    BY <1>3, FS_Subset DEF FiniteSubsetsOf
<1>8. T # {}
    BY <1>4
<1>9. IsWellFoundedOn(StrictSubsetOrdering(S), FiniteSubsetsOf(S))
    BY FS_StrictSubsetOrderingWellFounded
<1>10. PICK X \in T : \A Y \in T : <<Y, X>> \notin StrictSubsetOrdering(S)
    <2> HIDE DEF T
    <2> QED  BY <1>7, <1>8, <1>9, WFMin
<1>11. PICK i \in S : X = Below(i)
    BY <1>10
<1>12. ASSUME NEW j \in S, j < i  PROVE FALSE
    <2>1. \A k \in S : k \in Nat
        BY <1>5
    <2>2. Below(j) \subseteq Below(i)
        BY <1>12, <2>1
    <2>3. j \in Below(i) /\ j \notin Below(j)
        BY <1>12, <2>1
    <2>4. <<Below(j), Below(i)>> \in StrictSubsetOrdering(S)
        BY <2>2, <2>3 DEF StrictSubsetOrdering
    <2> QED  BY <1>10, <1>11, <2>4
<1>13. \A w \in V : i <= w
    <2>1. i \in Nat /\ i <= m
        BY <1>2, <1>4, <1>5, <1>12
    <2>2. \A w \in S : i <= w
        BY <1>5, <1>12
    <2> QED  BY <1>2, <1>6, <2>1, <2>2
<1>14. i \in V
    BY DEF S
<1> QED  BY <1>13, <1>14

LEMMA InitHolds == Init => IInv
<1> SUFFICES ASSUME Init PROVE IInv
    OBVIOUS
<1>1. TypeOK
    <2>1. pages \in [Accounts -> [anchors : 1..MaxAnchors, shards : Nat]]
          /\ \A a \in Accounts : pages[a].shards \in Shards[a]
        <3> DEFINE least(a) == CHOOSE v \in Shards[a] : \A w \in Shards[a] : v <= w
        <3>1. \A a \in Accounts : least(a) \in Shards[a] /\ Shards[a] \subseteq Nat
            <4> TAKE a \in Accounts
            <4>1. Shards[a] \in SUBSET Nat /\ Shards[a] # {}
                <5>1. Shards \in [Accounts -> (SUBSET Nat) \ {{}}]
                    BY ReaderAssumption
                <5>2. Shards[a] \in (SUBSET Nat) \ {{}}
                    BY <5>1
                <5> QED  BY <5>2
            <4>2. \E v \in Shards[a] : \A w \in Shards[a] : v <= w
                BY <4>1, LeastElement
            <4> QED  BY <4>1, <4>2
        <3>2. pages = [a \in Accounts |-> [anchors |-> 1, shards |-> least(a)]]
            BY DEF Init
        <3> HIDE DEF least
        <3>3. 1 \in 1..MaxAnchors
            BY ReaderAssumption
        <3> QED  BY <3>1, <3>2, <3>3
    <2>2. pin \in Accounts \cup {None}
        BY ReaderAssumption DEF Init
    <2>3. /\ owner \in [Accounts -> Procs \cup {None}]
          /\ alive \subseteq spent /\ spent \subseteq Procs
          /\ \A a \in Accounts : owner[a] # None => owner[a] \in alive
          /\ bound \subseteq Tasks
          /\ src.held \in Accounts \cup {None} /\ src.lease \in Accounts \cup {None}
        BY DEF Init
    <2> QED  BY <2>1, <2>2, <2>3 DEF TypeOK
<1>2. src \in SrcRecord /\ src.db = None /\ src.lease = None /\ src.held = None
    BY DEF Init, SrcRecord
<1>3. cache \in [Accounts -> Answers]
    BY NoneIsAnAnswer DEF Init
<1>4. /\ task = [t \in Tasks |-> NoTask] /\ NoTask \in TaskRecord
      /\ NoTask.reader = None /\ NoTask.stage = "idle" /\ ~NoTask.moved
    BY NoTaskTyped DEF Init, NoTask
<1>5. op = None /\ slot = None /\ scans = {} /\ gone = {} /\ bound = {}
    BY DEF Init
<1>6. Typed
    BY <1>1, <1>2, <1>3, <1>4, <1>5 DEF Typed
<1>7. Searched /\ Forgotten /\ OpRight /\ Apart
    BY <1>2, <1>5 DEF Searched, Forgotten, OpRight, Apart
<1>8. ReadersRight
    BY <1>2, <1>4 DEF ReadersRight
<1>9. BoundRight
    BY <1>4, <1>5 DEF BoundRight
<1> QED  BY <1>6, <1>7, <1>8, <1>9 DEF IInv

LEMMA StepKeeps == IInv /\ [Next]_vars => IInv'
<1> SUFFICES ASSUME IInv, [Next]_vars PROVE IInv'
    OBVIOUS
<1>1. ASSUME NEW a \in Accounts, Forget(a)  PROVE IInv'
    BY <1>1, ForgetStep
<1>2. ASSUME NEW a \in Accounts, NEW p \in Procs, Login(a, p)  PROVE IInv'
    <2>1. "anchors" \in {"anchors", "shards"}
        OBVIOUS
    <2> QED  BY <1>2, <2>1, WorldSteps
<1>3. ASSUME NEW a \in Accounts, Logout(a)  PROVE IInv'
    <2>1. owner[a] \in Procs
        BY <1>3 DEF Logout, IInv, Typed, TypeOK
    <2> QED  BY <1>3, <2>1, WorldSteps
<1>4. ASSUME NEW a \in Accounts, NEW part \in {"anchors", "shards"}, NewPages(a, part)  PROVE IInv'
    <2>1. owner[a] \in Procs
        BY <1>4 DEF NewPages, IInv, Typed, TypeOK
    <2> QED  BY <1>4, <2>1, WorldSteps
<1>5. ASSUME NEW p \in Procs, Exit(p)  PROVE IInv'
    <2>1. CASE Accounts = {}
        <3>1. UNCHANGED <<other, op, spent, pages>> /\ UNCHANGED inside /\ alive' = alive \ {p}
              /\ owner' \in [Accounts -> Procs \cup {None}]
            BY <1>5, <2>1 DEF Exit
        <3>2. UNCHANGED <<other, pin, cache, src, bound, op, slot, scans, gone, task>>
            BY <3>1 DEF inside, factory
        <3>3. TypeOK'
            BY <2>1, <3>1, <3>2 DEF IInv, Typed, TypeOK
        <3> QED  BY <3>2, <3>3, WorldStays
    <2>2. CASE Accounts # {}
        <3>1. PICK a \in Accounts : TRUE
            BY <2>2
        <3> QED  BY <1>5, <3>1, WorldSteps
    <2> QED  BY <2>1, <2>2
<1>6. ASSUME NEW p, SetPin(p)  PROVE IInv'
    BY <1>6, SetPinStep
<1>7. ASSUME NEW t \in Tasks, NEW early, NEW mode \in {"request", "task", "advisor"},
             Capture(t, mode, early)
      PROVE  IInv'
    BY <1>7, CaptureStep
<1>8. ASSUME NEW t \in Tasks, NEW early, Open(t, early) \/ Deliver(t, early)  PROVE IInv'
    BY <1>8, TaskSteps
<1>9. ASSUME NEW t \in Tasks, Stop(t) \/ Rest(t)  PROVE IInv'
    BY <1>9, TaskSteps
<1>10. ASSUME NEW early, Read(early)  PROVE IInv'
    BY <1>10, ReadStep
<1>11. ASSUME NEW answers \in BOOLEAN, Resolve(answers)  PROVE IInv'
    BY <1>11, ReadingSteps
<1>12. ASSUME NEW looks \in {"same", "changed"}, Install(looks)  PROVE IInv'
    BY <1>12, ReadingSteps
<1>13. ASSUME NEW looks \in {"same", "changed"}, NEW c \in scans,
              NEW found \in SUBSET TokenKeys(c.token), ScanMemory(c, looks, found)
       PROVE  IInv'
    BY <1>13, ScanStep
<1>14. ASSUME NEW looks \in {"same", "changed"}, NEW c \in scans, ScanVerify(c, looks)  PROVE IInv'
    BY <1>14, ScanStep
<1>15. ASSUME NEW c \in scans, ScanPublish(c)  PROVE IInv'
    BY <1>15, ScanStep
<1>16. ASSUME CloseMark \/ CloseEnd \/ OtherInstance  PROVE IInv'
    BY <1>16, CloseMarkStep, CloseEndStep, OtherStep
<1>17. ASSUME UNCHANGED vars  PROVE IInv'
    <2>1. /\ UNCHANGED <<owner, alive, spent, pages, other>>
          /\ UNCHANGED <<pin, cache, src, bound, op, slot, scans, gone, task>>
        BY <1>17 DEF vars, outside, world, factory
    <2>2. TypeOK'
        BY <2>1 DEF IInv, Typed, TypeOK
    <2> QED  BY <2>1, <2>2, WorldStays
<1> QED  BY <1>1, <1>2, <1>3, <1>4, <1>5, <1>6, <1>7, <1>8, <1>9, <1>10, <1>11, <1>12, <1>13,
            <1>14, <1>15, <1>16, <1>17 DEF Next

\* The invariant holds in every behaviour.
THEOREM Inductive == Spec => []IInv
BY InitHolds, StepKeeps, PTL DEF Spec

-----------------------------------------------------------------------------
(* What follows from it *)

\* Keys stay with the account they were found for and are published to the slot of
\* their own scan only, a forgotten account has no keys, reader or lease left, and no
\* account is read here that another instance holds (live_source.py _scan and
\* forget_account, wechat_source.py _hold_account and _remember_advisor_binding): for
\* any accounts, processes, tasks and scans, and however often accounts log in and out.
THEOREM StaysApart == Spec => []AccountsStayApart
<1>1. IInv => AccountsStayApart
    <2> SUFFICES ASSUME IInv PROVE AccountsStayApart
        OBVIOUS
    <2> DEFINE attached == {c \in scans : c.attached}
    <2>1. Cardinality(attached) <= 1
        <3>1. \A c, d \in attached : c = d
            BY DEF IInv, Searched
        <3>2. CASE attached = {}
            BY <3>2, FS_EmptySet
        <3>3. CASE attached # {}
            <4>1. PICK c \in attached : attached = {c}
                BY <3>1, <3>3
            <4>2. Cardinality(attached) = 1
                BY <4>1, FS_Singleton
            <4> QED  BY <4>2
        <3>4. 0 <= 1 /\ 1 <= 1
            OBVIOUS
        <3> QED  BY <3>2, <3>3, <3>4
    <2>2. slot # None =>
            /\ slot.keys \subseteq TokenKeys(slot.token)
            /\ slot.state \in {"running", "failed"} => slot.keys = {}
            /\ slot.state = "ready" => slot.keys = TokenKeys(slot.token) /\ slot.token.shards > 0
            /\ slot.state = "running" => slot.scanning
            /\ slot.scanning <=> \E c \in scans : c.attached
        <3>1. slot # None => slot.scanning \in BOOLEAN
            BY DEF IInv, Typed, Slots
        <3> QED  BY <3>1 DEF IInv, Searched
    <2>3. \A c \in scans : c.attached => slot # None /\ slot.token = c.token
        BY DEF IInv, Searched
    <2>4. src.db # None => /\ \A k \in src.db.keys : k.acct = src.db.acct
                           /\ TokenKeys(src.db.token) \subseteq src.db.keys
        BY DEF IInv, ReadersRight, Scoped, Opens
    <2>5. src.lease # None => src.db # None /\ src.db.acct = src.lease
        BY DEF IInv, ReadersRight
    <2>6. \A a \in gone : (slot = None \/ slot.token.sel.acct # a) /\ (src.db = None \/ src.db.acct # a)
        BY DEF IInv, Forgotten
    <2>7. KeysStayScoped
        BY <2>1, <2>2, <2>3, <2>4, <2>5, <2>6 DEF KeysStayScoped, IInv, Typed
    <2>8. (op # None /\ op.stage \in {"built", "reading"}) => src.held = op.reader.acct
        BY DEF IInv, OpRight, Scoped, OfOne
    <2> QED  BY <2>7, <2>8 DEF AccountsStayApart, OneInstancePerAccount, IInv, Apart
<1> QED  BY <1>1, Inductive, PTL

\* What is delivered was read from the account and under the process that its binding
\* names, and neither a pin nor a removal nor a close came in between; and no advisor is
\* vouched for on an identity that one of them has made void (assert_binding,
\* _scope_commit, _leased_advisor_identity).
THEOREM DeliveryIsBound == Spec => []DeliveredIsBound
<1>1. IInv => DeliveredIsBound
    BY DEF IInv, BoundRight, DeliveredIsBound, Vouched
<1> QED  BY <1>1, Inductive, PTL

-----------------------------------------------------------------------------
(* The inductive invariant *)

WorkStages == {"idle", "first data", "first stamp", "stage", "stage data", "stage stamp",
               "copy", "replace", "replace stamp"}
RemovalStages == {"idle", "advisor", "pause", "mark", "registry", "forget", "rows", "unlink"}
Locked == {"mark", "registry", "forget", "rows", "unlink"}

Failures == {"drain", "resume", "unmark", "shutdown"}
BridgeRecord == [up : BOOLEAN, live : BOOLEAN, cur : BOOLEAN, known : BOOLEAN, open : BOOLEAN,
                 advisor : {"open", "paused", "undrained", "cleared"}, marked : BOOLEAN,
                 failed : SUBSET Failures]
WorkRecord == [stage : WorkStages, sig : Nat]
RemovalRecord == [stage : RemovalStages, current : BOOLEAN, again : BOOLEAN, left : SUBSET Files]

RemovalTyped ==
    /\ bridge \in [Bridges -> BridgeRecord]
    /\ work \in [Bridges -> WorkRecord]
    /\ removal \in [Bridges -> RemovalRecord]

\* The lease: read or removed by one bridge at a time.
OneHolder == \A b, c \in Bridges : Holds(b) /\ Holds(c) => b = c

\* What a bridge is and where its removal stands fit each other.
Blank(br, wk, rm) == ~br.up => br = Down /\ wk.stage = "idle" /\ rm.stage = "idle"
Fits(br, rm) ==
    /\ br.marked => \/ rm.current /\ rm.stage \in {"registry", "forget", "rows", "unlink"}
                    \/ br.failed \cap {"resume", "unmark", "shutdown"} # {}
    /\ ~br.open => \/ rm.current /\ rm.stage \in Locked
                   \/ br.failed \cap {"drain", "resume", "shutdown"} # {}
    /\ br.advisor = "paused" => rm.stage \in {"pause", "mark", "registry", "forget", "rows"}
    /\ rm.stage \in {"pause", "mark"} => rm.current
    /\ rm.stage = "unlink" => br.advisor = "cleared"
    /\ rm.stage \in Locked /\ rm.current => ~br.open
    /\ rm.stage \notin {"idle", "unlink"} /\ br.advisor = "cleared" => rm.again

Control ==
    /\ RemovalTyped /\ OneHolder
    /\ \A b \in Bridges : Blank(bridge[b], work[b], removal[b]) /\ Fits(bridge[b], removal[b])

\* Nothing in the files or in a worker is newer than the source.
Dated ==
    /\ version \in 1 .. MaxVersion
    /\ disk \in [Files -> 0 .. version \cup {Absent}]
    /\ \A b \in Bridges : work[b].sig <= version

\* A stamp is no newer than its file, nor than what is about to replace the file.
AtMost(f, g) == Has(f) /\ Has(g) => disk[f] <= disk[g]
HonestPairs == AtMost("stamp", "data") /\ AtMost("staged stamp", "staged")
WorkFits(wk) ==
    /\ wk.stage = "first stamp" => ~Has("data") \/ wk.sig <= disk["data"]
    /\ wk.stage \in {"stage data", "stage stamp"} => ~Has("stamp") \/ disk["stamp"] <= wk.sig
    /\ wk.stage = "stage stamp" => ~Has("staged") \/ wk.sig <= disk["staged"]
    /\ wk.stage = "copy" => AtMost("stamp", "staged")
    /\ wk.stage = "replace" => AtMost("stamp", "ready") /\ AtMost("ready stamp", "ready")
    /\ wk.stage = "replace stamp" => AtMost("ready stamp", "data")
Honest == HonestPairs /\ \A b \in Bridges : WorkFits(work[b])

\* From its rows on, a removal has all that is left in hand, and nobody adds to it.
InHand(b) ==
    removal[b].stage \in {"rows", "unlink"} =>
        /\ ~Working(b)
        /\ removal[b].stage = "unlink" => ~Has("rows") \/ removal[b].again
        /\ \A f \in Files \ {"rows"} : Has(f) => f \in removal[b].left

WorkIsHeld == \A b \in Bridges : Working(b) => Holds(b)

RemovalInv ==
    /\ Control /\ Dated /\ listed \in BOOLEAN /\ outlived \in BOOLEAN
    /\ ~outlived => WorkIsHeld /\ Honest /\ \A b \in Bridges : InHand(b)

-----------------------------------------------------------------------------
(* The bridges and their removals *)

\* Only what belongs to bridge b changes.
Only(b) ==
    /\ RemovalTyped'
    /\ \A c \in Bridges : c # b =>
          bridge'[c] = bridge[c] /\ work'[c] = work[c] /\ removal'[c] = removal[c]

LEMMA ControlStep ==
    ASSUME Control, NEW b \in Bridges, Only(b), Holds(b)' => Holds(b) \/ Mayhold(b),
           Blank(bridge'[b], work'[b], removal'[b]), Fits(bridge'[b], removal'[b])
    PROVE  Control'
<1>1. OneHolder'
    BY DEF Control, OneHolder, Only, Holds, Mayhold, Removing
<1>2. \A c \in Bridges : Blank(bridge'[c], work'[c], removal'[c]) /\ Fits(bridge'[c], removal'[c])
    BY DEF Control, Only
<1>3. Control' <=>
        /\ RemovalTyped' /\ OneHolder'
        /\ \A c \in Bridges : Blank(bridge'[c], work'[c], removal'[c]) /\ Fits(bridge'[c], removal'[c])
    BY DEF Control, Blank, Fits
<1> QED  BY <1>1, <1>2, <1>3 DEF Only

LEMMA Own ==
    ASSUME Control, NEW b \in Bridges
    PROVE  /\ bridge[b] \in BridgeRecord /\ work[b] \in WorkRecord /\ removal[b] \in RemovalRecord
           /\ Blank(bridge[b], work[b], removal[b]) /\ Fits(bridge[b], removal[b])
BY DEF Control, RemovalTyped

LEMMA Records == Down \in BridgeRecord /\ Idle \in WorkRecord /\ NoRemoval \in RemovalRecord
BY DEF Down, Idle, NoRemoval, BridgeRecord, WorkRecord, RemovalRecord, WorkStages, RemovalStages

\* The three ways a step changes one bridge.
LEMMA BridgeOnly ==
    ASSUME Control, NEW b \in Bridges, NEW B \in BridgeRecord,
           bridge' = [bridge EXCEPT ![b] = B], UNCHANGED <<work, removal>>,
           B.cur => bridge[b].cur \/ Mayhold(b),
           Blank(B, work[b], removal[b]), Fits(B, removal[b])
    PROVE  Control' /\ Only(b) /\ bridge'[b] = B
<1>1. Only(b) /\ bridge'[b] = B /\ work'[b] = work[b] /\ removal'[b] = removal[b]
    BY DEF Control, RemovalTyped, Only
<1>2. Holds(b)' => Holds(b) \/ Mayhold(b)
    BY <1>1 DEF Holds, Removing
<1> QED  BY <1>1, <1>2, ControlStep

LEMMA WorkOnly ==
    ASSUME Control, NEW b \in Bridges, NEW W \in WorkRecord,
           work' = [work EXCEPT ![b] = W], UNCHANGED <<bridge, removal>>, bridge[b].up
    PROVE  Control' /\ Only(b) /\ work'[b] = W
<1>1. Only(b) /\ bridge'[b] = bridge[b] /\ work'[b] = W /\ removal'[b] = removal[b]
    BY DEF Control, RemovalTyped, Only
<1>2. Holds(b)' => Holds(b) \/ Mayhold(b)
    BY <1>1 DEF Holds, Removing
<1>3. Blank(bridge'[b], work'[b], removal'[b]) /\ Fits(bridge'[b], removal'[b])
    BY <1>1, Own DEF Blank
<1> QED  BY <1>1, <1>2, <1>3, ControlStep

LEMMA RemovalGoes ==
    ASSUME Control, NEW b \in Bridges, NEW B \in BridgeRecord, NEW R \in RemovalRecord,
           bridge' = [bridge EXCEPT ![b] = B], removal' = [removal EXCEPT ![b] = R],
           UNCHANGED work, bridge[b].up, B.up, B.cur => bridge[b].cur,
           Removing(b) \/ Mayhold(b), Fits(B, R)
    PROVE  Control' /\ Only(b) /\ bridge'[b] = B /\ removal'[b] = R
<1>1. Only(b) /\ bridge'[b] = B /\ work'[b] = work[b] /\ removal'[b] = R
    BY DEF Control, RemovalTyped, Only
<1>2. Holds(b)' => Holds(b) \/ Mayhold(b)
    BY <1>1 DEF Holds, Removing
<1>3. Blank(bridge'[b], work'[b], removal'[b])
    BY <1>1 DEF Blank
<1> QED  BY <1>1, <1>2, <1>3, ControlStep

\* Logins, leases, the registry and the Advisor's mark: one field of the bridge changes.
LEMMA ShowControl ==
    ASSUME Control, NEW b \in Bridges, Show(b)
    PROVE  Control' /\ Only(b)
<1>1. PICK r \in BridgeRecord : r = bridge[b]
    BY Own
<1> DEFINE B == [r EXCEPT !.live = ~r.live]
<1>2. B \in BridgeRecord /\ B.cur = r.cur /\ B.up = r.up
    BY DEF BridgeRecord
<1>3. bridge' = [bridge EXCEPT ![b] = B] /\ UNCHANGED <<work, removal>> /\ r.up
    BY <1>1 DEF Show
<1>4. Blank(B, work[b], removal[b]) /\ Fits(B, removal[b])
    BY <1>1, <1>2, <1>3, Own DEF Blank, Fits, BridgeRecord
<1> QED  BY <1>1, <1>2, <1>3, <1>4, BridgeOnly


LEMMA OpenAccountControl ==
    ASSUME Control, NEW b \in Bridges, OpenAccount(b)
    PROVE  Control' /\ Only(b)
<1>1. PICK r \in BridgeRecord : r = bridge[b]
    BY Own
<1> DEFINE B == [r EXCEPT !.cur = TRUE]
<1>2. B \in BridgeRecord /\ B.up = r.up /\ B.cur
    BY DEF BridgeRecord
<1>3. bridge' = [bridge EXCEPT ![b] = B] /\ UNCHANGED <<work, removal>> /\ r.up
    BY <1>1 DEF OpenAccount
<1>4. Blank(B, work[b], removal[b]) /\ Fits(B, removal[b])
    BY <1>1, <1>2, <1>3, Own DEF Blank, Fits, BridgeRecord
<1>5. B.cur => bridge[b].cur \/ Mayhold(b)
    BY <1>1, <1>2 DEF OpenAccount
<1> QED  BY <1>1, <1>2, <1>3, <1>4, <1>5, BridgeOnly


LEMMA LeaveControl ==
    ASSUME Control, NEW b \in Bridges, Leave(b)
    PROVE  Control' /\ Only(b)
<1>1. PICK r \in BridgeRecord : r = bridge[b]
    BY Own
<1> DEFINE B == [r EXCEPT !.cur = FALSE]
<1>2. B \in BridgeRecord /\ B.up = r.up /\ ~B.cur
    BY DEF BridgeRecord
<1>3. bridge' = [bridge EXCEPT ![b] = B] /\ UNCHANGED <<work, removal>> /\ r.up
    BY <1>1 DEF Leave, Serving
<1>4. Blank(B, work[b], removal[b]) /\ Fits(B, removal[b])
    BY <1>1, <1>2, <1>3, Own DEF Blank, Fits, BridgeRecord
<1>5. B.cur => bridge[b].cur \/ Mayhold(b)
    BY <1>1, <1>2 DEF Leave
<1> QED  BY <1>1, <1>2, <1>3, <1>4, <1>5, BridgeOnly


LEMMA ObserveControl ==
    ASSUME Control, NEW b \in Bridges, Observe(b)
    PROVE  Control' /\ Only(b)
<1>1. PICK r \in BridgeRecord : r = bridge[b]
    BY Own
<1> DEFINE B == [r EXCEPT !.known = TRUE]
<1>2. B \in BridgeRecord /\ B.up = r.up /\ B.cur = r.cur
    BY DEF BridgeRecord
<1>3. bridge' = [bridge EXCEPT ![b] = B] /\ UNCHANGED <<work, removal>> /\ r.up
    BY <1>1 DEF Observe, Serving
<1>4. Blank(B, work[b], removal[b]) /\ Fits(B, removal[b])
    BY <1>1, <1>2, <1>3, Own DEF Blank, Fits, BridgeRecord
<1>5. B.cur => bridge[b].cur \/ Mayhold(b)
    BY <1>1, <1>2 DEF Observe
<1> QED  BY <1>1, <1>2, <1>3, <1>4, <1>5, BridgeOnly


LEMMA StartControl ==
    ASSUME Control, NEW b \in Bridges, Start(b)
    PROVE  Control' /\ Only(b)
<1>1. Down \in BridgeRecord /\ bridge[b] = Down /\ ~Working(b) /\ ~Removing(b)
    BY Records, Own DEF Start, Blank, Working, Removing
<1> DEFINE B == [Down EXCEPT !.up = TRUE]
<1>2. B \in BridgeRecord /\ B.up /\ ~B.cur /\ ~B.marked /\ B.open /\ B.advisor = "open"
    BY DEF BridgeRecord, Down
<1>3. bridge' = [bridge EXCEPT ![b] = B] /\ UNCHANGED <<work, removal>>
    BY <1>1 DEF Start
<1>4. removal[b].stage = "idle"
    BY <1>1 DEF Removing
<1>5. Blank(B, work[b], removal[b]) /\ Fits(B, removal[b])
    BY <1>2, <1>4 DEF Blank, Fits, Locked
<1> QED  BY <1>2, <1>3, <1>5, BridgeOnly

LEMMA CrashControl ==
    ASSUME Control, NEW b \in Bridges, Crash(b)
    PROVE  Control' /\ Only(b) /\ work'[b] = Idle
<1>1. /\ bridge' = [bridge EXCEPT ![b] = Down] /\ removal' = [removal EXCEPT ![b] = NoRemoval]
      /\ work' = [work EXCEPT ![b] = [Idle EXCEPT !.stage = "idle"]]
    BY DEF Crash, RemovalEnds, To
<1>2. [Idle EXCEPT !.stage = "idle"] = Idle
    BY DEF Idle
<1>3. Only(b) /\ bridge'[b] = Down /\ work'[b] = Idle /\ removal'[b] = NoRemoval
    BY <1>1, <1>2, Records DEF Control, RemovalTyped, Only
<1>4. ~Holds(b)'
    BY <1>3 DEF Holds, Removing, Down, NoRemoval
<1>5. Blank(bridge'[b], work'[b], removal'[b]) /\ Fits(bridge'[b], removal'[b])
    BY <1>3 DEF Blank, Fits, Down, Idle, NoRemoval, Locked
<1> QED  BY <1>3, <1>4, <1>5, ControlStep

\* Only a bridge that is up works or removes.
LEMMA AtWorkIsUp ==
    ASSUME Control, NEW b \in Bridges, Working(b) \/ Removing(b)
    PROVE  bridge[b].up
BY Own DEF Blank, Working, Removing

LEMMA ToWork ==
    ASSUME Control, NEW b \in Bridges, NEW stage \in WorkStages, To(b, stage),
           UNCHANGED <<bridge, removal>>, bridge[b].up
    PROVE  Control' /\ Only(b) /\ work'[b].stage = stage /\ work'[b].sig = 0
<1> DEFINE W == [Idle EXCEPT !.stage = stage]
<1>1. W \in WorkRecord /\ W.stage = stage /\ W.sig = 0
    BY DEF Idle, WorkRecord, WorkStages
<1>2. work' = [work EXCEPT ![b] = W]
    BY DEF To
<1> QED  BY <1>1, <1>2, WorkOnly

LEMMA SigWork ==
    ASSUME Control, NEW b \in Bridges, NEW stage \in WorkStages, NEW sig \in Nat,
           work' = [work EXCEPT ![b] = [stage |-> stage, sig |-> sig]],
           UNCHANGED <<bridge, removal>>, bridge[b].up
    PROVE  Control' /\ Only(b) /\ work'[b].stage = stage /\ work'[b].sig = sig
<1> DEFINE W == [stage |-> stage, sig |-> sig]
<1>1. W \in WorkRecord /\ W.stage = stage /\ W.sig = sig
    BY DEF WorkRecord
<1>2. work' = [work EXCEPT ![b] = W]
    OBVIOUS
<1> HIDE DEF W
<1> QED  BY <1>1, <1>2, WorkOnly

\* What becomes of a bridge: the fields of the records a removal leaves.
LEMMA FailedRecord ==
    ASSUME NEW r \in BridgeRecord, NEW step \in Failures
    PROVE  /\ FailedAt(r, step) \in BridgeRecord /\ FailedAt(r, step).up = r.up
           /\ FailedAt(r, step).cur = r.cur /\ FailedAt(r, step).open = r.open
           /\ FailedAt(r, step).advisor = r.advisor /\ FailedAt(r, step).marked = r.marked
           /\ step \in FailedAt(r, step).failed
BY DEF FailedAt, BridgeRecord

LEMMA UnmarkedRecord ==
    ASSUME NEW r \in BridgeRecord
    PROVE  /\ Unmarked(r) \in BridgeRecord /\ Unmarked(r).up = r.up
           /\ Unmarked(r).cur = r.cur /\ Unmarked(r).open = r.open
           /\ Unmarked(r).advisor = r.advisor /\ ~Unmarked(r).marked
BY DEF Unmarked, BridgeRecord

\* The bridge with its Advisor back, and the same with the door as given.
LEMMA BackRecord ==
    ASSUME NEW b, bridge[b] \in BridgeRecord
    PROVE  \E back \in BridgeRecord :
              /\ back = [bridge[b] EXCEPT !.advisor = AdvisorBack(b)]
              /\ back.up = bridge[b].up /\ back.cur = bridge[b].cur /\ back.open = bridge[b].open
              /\ back.marked = bridge[b].marked /\ back.failed = bridge[b].failed
              /\ back.advisor # "paused"
<1>1. PICK r \in BridgeRecord : r = bridge[b]
    OBVIOUS
<1>2. PICK a \in {"open", "undrained", "cleared"} : a = AdvisorBack(b)
    BY DEF AdvisorBack, BridgeRecord
<1>3. PICK s : s = [r EXCEPT !.advisor = a]
    OBVIOUS
<1>4. /\ s \in BridgeRecord /\ s.up = r.up /\ s.cur = r.cur /\ s.open = r.open
      /\ s.marked = r.marked /\ s.failed = r.failed /\ s.advisor = a
    BY <1>3 DEF BridgeRecord
<1>5. s = [bridge[b] EXCEPT !.advisor = AdvisorBack(b)]
    BY <1>1, <1>2, <1>3
<1> QED  BY <1>1, <1>4, <1>5

LEMMA DoorRecord ==
    ASSUME NEW r \in BridgeRecord, NEW open \in BOOLEAN
    PROVE  \E s \in BridgeRecord :
              /\ s = [r EXCEPT !.open = open]
              /\ s.up = r.up /\ s.cur = r.cur /\ s.open = open
              /\ s.marked = r.marked /\ s.failed = r.failed /\ s.advisor = r.advisor
<1>1. PICK s : s = [r EXCEPT !.open = open]
    OBVIOUS
<1>2. /\ s \in BridgeRecord /\ s.up = r.up /\ s.cur = r.cur /\ s.open = open
      /\ s.marked = r.marked /\ s.failed = r.failed /\ s.advisor = r.advisor
    BY <1>1 DEF BridgeRecord
<1> QED  BY <1>1, <1>2

\* However far the undo of a removal gets, what it leaves fits no removal.
LEMMA UndoneFits ==
    ASSUME Control, NEW b \in Bridges, Removing(b), NEW s \in Undone(b)
    PROVE  s \in BridgeRecord /\ s.up = bridge[b].up /\ s.cur = bridge[b].cur /\ Fits(s, NoRemoval)
<1>1. bridge[b] \in BridgeRecord /\ Fits(bridge[b], removal[b])
    BY Own
<1>2. PICK back \in BridgeRecord :
        /\ back = [bridge[b] EXCEPT !.advisor = AdvisorBack(b)]
        /\ back.up = bridge[b].up /\ back.cur = bridge[b].cur /\ back.open = bridge[b].open
        /\ back.marked = bridge[b].marked /\ back.failed = bridge[b].failed
        /\ back.advisor # "paused"
    BY <1>1, BackRecord
<1>3. PICK open \in BridgeRecord :
        /\ open = [back EXCEPT !.open = TRUE]
        /\ open.up = back.up /\ open.cur = back.cur /\ open.open = TRUE
        /\ open.marked = back.marked /\ open.failed = back.failed /\ open.advisor = back.advisor
    BY DoorRecord
<1>4. s \in IF ~removal[b].current THEN {back}
            ELSE {FailedAt(back, "resume")} \cup
                 (IF HasMark(b) THEN {FailedAt(open, "unmark"), Unmarked(open)} ELSE {open})
    BY <1>2, <1>3 DEF Undone
<1>5. NoRemoval.stage = "idle"
    BY DEF NoRemoval
<1>6. CASE s = back /\ ~removal[b].current
    BY <1>1, <1>2, <1>5, <1>6 DEF Fits, Locked
<1>7. CASE s = FailedAt(back, "resume")
    BY <1>2, <1>5, <1>7, FailedRecord DEF Fits, Locked, Failures
<1>8. CASE s = FailedAt(open, "unmark")
    <2>1. "unmark" \in Failures
        BY DEF Failures
    <2>2. /\ s \in BridgeRecord /\ s.up = open.up /\ s.cur = open.cur /\ s.open = open.open
          /\ s.advisor = open.advisor /\ "unmark" \in s.failed
        BY <1>3, <1>8, <2>1, FailedRecord
    <2>3. s.up = bridge[b].up /\ s.cur = bridge[b].cur /\ s.open = TRUE /\ s.advisor # "paused"
        BY <1>2, <1>3, <2>2
    <2>4. s.failed \cap {"resume", "unmark", "shutdown"} # {}
        BY <2>2
    <2> QED  BY <1>5, <2>2, <2>3, <2>4 DEF Fits, Locked
<1>9. CASE s = Unmarked(open)
    BY <1>2, <1>3, <1>5, <1>9, UnmarkedRecord DEF Fits, Locked
<1>10. CASE s = open /\ ~HasMark(b)
    BY <1>1, <1>2, <1>3, <1>5, <1>10 DEF Fits, Locked, HasMark
<1> QED  BY <1>4, <1>6, <1>7, <1>8, <1>9, <1>10

LEMMA GivesUpControl ==
    ASSUME Control, NEW b \in Bridges, Removing(b), GivesUp(b), UNCHANGED work
    PROVE  Control' /\ Only(b) /\ removal'[b] = NoRemoval
<1>1. bridge[b].up
    BY AtWorkIsUp
<1>2. removal' = [removal EXCEPT ![b] = NoRemoval]
    BY DEF GivesUp, RemovalEnds
<1>3. PICK s \in Undone(b) : bridge' = [bridge EXCEPT ![b] = s]
    BY DEF GivesUp
<1>4. s \in BridgeRecord /\ s.up = bridge[b].up /\ s.cur = bridge[b].cur /\ Fits(s, NoRemoval)
    BY UndoneFits
<1>5. NoRemoval \in RemovalRecord
    BY Records
<1> QED  BY <1>1, <1>2, <1>3, <1>4, <1>5, RemovalGoes


LEMMA RemoveControl ==
    ASSUME Control, NEW b \in Bridges, Remove(b)
    PROVE  Control' /\ Only(b) /\ removal'[b].stage = "advisor"
<1>1. PICK current \in BOOLEAN, again \in BOOLEAN :
        current = bridge[b].live /\ again = (bridge[b].advisor = "cleared")
    BY Own DEF BridgeRecord
<1> DEFINE R == [NoRemoval EXCEPT !.stage = "advisor", !.current = current, !.again = again]
<1>2. R \in RemovalRecord /\ R.stage = "advisor" /\ R.again = again
    BY DEF NoRemoval, RemovalRecord, RemovalStages
<1>3. removal' = [removal EXCEPT ![b] = R] /\ bridge' = [bridge EXCEPT ![b] = bridge[b]]
    BY <1>1 DEF Remove, Control, RemovalTyped
<1>4. removal[b].stage = "idle" /\ Fits(bridge[b], removal[b]) /\ bridge[b].open
    BY Own DEF Remove, Removing
<1>5. Fits(bridge[b], R)
    BY <1>1, <1>2, <1>4 DEF Fits, Locked
<1> HIDE DEF R
<1> QED  BY <1>2, <1>3, <1>5, Own, RemovalGoes DEF Remove

\* A removal goes on to its next stage; what the bridge is becomes B.
LEMMA StageGoes ==
    ASSUME Control, NEW b \in Bridges, Removing(b), NEW stage \in RemovalStages,
           NEW B \in BridgeRecord, bridge' = [bridge EXCEPT ![b] = B], B.up = bridge[b].up,
           B.cur => bridge[b].cur, RemoveTo(b, stage), UNCHANGED work,
           \A R \in RemovalRecord :
              R.stage = stage /\ R.current = removal[b].current /\ R.again = removal[b].again
                => Fits(B, R)
    PROVE  /\ Control' /\ Only(b) /\ bridge'[b] = B
           /\ removal'[b].stage = stage /\ removal'[b].current = removal[b].current
           /\ removal'[b].again = removal[b].again /\ removal'[b].left = removal[b].left
<1>1. PICK r \in RemovalRecord : r = removal[b]
    BY Own
<1> DEFINE R == [r EXCEPT !.stage = stage]
<1>2. /\ R \in RemovalRecord /\ R.stage = stage /\ R.current = r.current
      /\ R.again = r.again /\ R.left = r.left
    BY DEF RemovalRecord
<1>3. removal' = [removal EXCEPT ![b] = R]
    BY <1>1 DEF RemoveTo
<1>4. Fits(B, R)
    BY <1>1, <1>2
<1>5. bridge[b].up
    BY AtWorkIsUp
<1> HIDE DEF R
<1> QED  BY <1>1, <1>2, <1>3, <1>4, <1>5, RemovalGoes

LEMMA PauseAdvisorControl ==
    ASSUME Control, NEW b \in Bridges, PauseAdvisor(b)
    PROVE  Control' /\ Only(b) /\ removal'[b].stage \in {"idle", "pause", "registry"}
<1>1. PICK drained \in BOOLEAN :
        LET state == IF bridge[b].advisor = "cleared" THEN "cleared"
                     ELSE IF drained THEN "paused" ELSE "undrained"
        IN  /\ bridge' = [bridge EXCEPT ![b].advisor = state]
            /\ IF drained THEN RemoveTo(b, IF removal[b].current THEN "pause" ELSE "registry")
               ELSE removal' = [removal EXCEPT ![b] = NoRemoval]
    BY DEF PauseAdvisor, RemovalEnds
<1>2. PICK state \in {"cleared", "paused", "undrained"} :
        state = IF bridge[b].advisor = "cleared" THEN "cleared"
                ELSE IF drained THEN "paused" ELSE "undrained"
    OBVIOUS
<1>3. PICK r \in BridgeRecord : r = bridge[b]
    BY Own
<1> DEFINE B == [r EXCEPT !.advisor = state]
<1>4. /\ B \in BridgeRecord /\ B.up = r.up /\ B.cur = r.cur /\ B.open = r.open
      /\ B.marked = r.marked /\ B.failed = r.failed /\ B.advisor = state
    BY DEF BridgeRecord
<1>5. bridge' = [bridge EXCEPT ![b] = B] /\ UNCHANGED work
    BY <1>1, <1>2, <1>3 DEF PauseAdvisor, removeOnly
<1>6. Removing(b) /\ removal[b].stage = "advisor" /\ Fits(bridge[b], removal[b])
    BY Own DEF PauseAdvisor, Removing
<1>7. bridge[b].advisor = "cleared" => removal[b].again
    BY Own DEF PauseAdvisor, Fits
<1>8. CASE drained
    <2>1. PICK stage \in {"pause", "registry"} :
            stage = (IF removal[b].current THEN "pause" ELSE "registry")
        OBVIOUS
    <2>2. RemoveTo(b, stage)
        BY <1>1, <1>8, <2>1
    <2>3. ASSUME NEW R \in RemovalRecord, R.stage = stage, R.current = removal[b].current,
                 R.again = removal[b].again
          PROVE  Fits(B, R)
        BY <1>2, <1>3, <1>4, <1>6, <1>7, <1>8, <2>1, <2>3 DEF Fits, Locked
    <2>4. stage \in RemovalStages
        BY DEF RemovalStages
    <2>5. \A R \in RemovalRecord :
            R.stage = stage /\ R.current = removal[b].current /\ R.again = removal[b].again
              => Fits(B, R)
        BY <2>3
    <2>6. B \in BridgeRecord /\ B.up = bridge[b].up /\ (B.cur => bridge[b].cur)
        BY <1>3, <1>4
    <2> HIDE DEF B
    <2>7. Control' /\ Only(b) /\ removal'[b].stage = stage
        BY <1>5, <1>6, <2>2, <2>4, <2>5, <2>6, StageGoes
    <2> QED  BY <2>1, <2>7
<1>9. CASE ~drained
    <2>1. removal' = [removal EXCEPT ![b] = NoRemoval] /\ NoRemoval.stage = "idle"
        BY <1>1, <1>9 DEF NoRemoval
    <2>2. Fits(B, NoRemoval)
        BY <1>2, <1>3, <1>4, <1>6, <1>9, <2>1 DEF Fits, Locked
    <2>3. bridge[b].up
        BY <1>6, AtWorkIsUp
    <2> HIDE DEF B
    <2> QED  BY <1>3, <1>4, <1>5, <1>6, <2>1, <2>2, <2>3, Records, RemovalGoes
<1> QED  BY <1>8, <1>9

LEMMA PauseControl ==
    ASSUME Control, NEW b \in Bridges, Pause(b)
    PROVE  Control' /\ Only(b) /\ removal'[b].stage \in {"idle", "mark"}
<1>1. Removing(b) /\ UNCHANGED work /\ removal[b].stage = "pause" /\ Fits(bridge[b], removal[b])
    BY Own DEF Pause, Removing, removeOnly
<1>2. bridge[b].up
    BY <1>1, AtWorkIsUp
<1>3. CASE bridge' = [bridge EXCEPT ![b].open = FALSE, ![b].cur = FALSE] /\ RemoveTo(b, "mark")
    <2>1. PICK r \in BridgeRecord : r = bridge[b]
        BY Own
    <2>2. PICK B : B = [r EXCEPT !.open = FALSE, !.cur = FALSE]
        OBVIOUS
    <2>3. /\ B \in BridgeRecord /\ B.up = r.up /\ ~B.cur /\ ~B.open
          /\ B.marked = r.marked /\ B.failed = r.failed /\ B.advisor = r.advisor
        BY <2>2 DEF BridgeRecord
    <2>4. bridge' = [bridge EXCEPT ![b] = B]
        BY <1>3, <2>1, <2>2 DEF Control, RemovalTyped, BridgeRecord
    <2>5. removal[b].current
        BY <1>1 DEF Fits
    <2>6. ASSUME NEW R \in RemovalRecord, R.stage = "mark", R.current = removal[b].current,
                 R.again = removal[b].again
          PROVE  Fits(B, R)
        BY <1>1, <2>1, <2>3, <2>5, <2>6 DEF Fits, Locked
    <2>7. "mark" \in RemovalStages
        BY DEF RemovalStages
    <2>8. \A R \in RemovalRecord :
            R.stage = "mark" /\ R.current = removal[b].current /\ R.again = removal[b].again
              => Fits(B, R)
        BY <2>6
    <2>9. B.up = bridge[b].up /\ (B.cur => bridge[b].cur)
        BY <2>1, <2>3
    <2>10. RemoveTo(b, "mark")
        BY <1>3
    <2>11. Control' /\ Only(b) /\ removal'[b].stage = "mark"
        BY <1>1, <2>3, <2>4, <2>7, <2>8, <2>9, <2>10, StageGoes
    <2> QED  BY <2>11
<1>4. ASSUME NEW B \in BridgeRecord, bridge' = [bridge EXCEPT ![b] = B],
             B.up = bridge[b].up, B.cur = bridge[b].cur, Fits(B, NoRemoval), RemovalEnds(b)
      PROVE  Control' /\ Only(b) /\ removal'[b].stage \in {"idle", "mark"}
    <2>1. removal' = [removal EXCEPT ![b] = NoRemoval] /\ NoRemoval.stage = "idle"
        BY <1>4 DEF RemovalEnds, NoRemoval
    <2>2. NoRemoval \in RemovalRecord
        BY Records
    <2> QED  BY <1>1, <1>2, <1>4, <2>1, <2>2, RemovalGoes
<1>5. PICK back \in BridgeRecord :
        /\ back = [bridge[b] EXCEPT !.advisor = AdvisorBack(b)]
        /\ back.up = bridge[b].up /\ back.cur = bridge[b].cur /\ back.open = bridge[b].open
        /\ back.marked = bridge[b].marked /\ back.failed = bridge[b].failed
        /\ back.advisor # "paused"
    BY Own, BackRecord
<1>6. PICK closed \in BridgeRecord :
        /\ closed = [back EXCEPT !.open = FALSE]
        /\ closed.up = back.up /\ closed.cur = back.cur /\ ~closed.open
        /\ closed.marked = back.marked /\ closed.failed = back.failed
        /\ closed.advisor = back.advisor
    BY DoorRecord
<1>7. NoRemoval.stage = "idle"
    BY DEF NoRemoval
<1>8. back.marked => back.failed \cap {"resume", "unmark", "shutdown"} # {}
    BY <1>1, <1>5 DEF Fits
<1>9. ASSUME NEW step \in {"drain", "resume"}, RemovalEnds(b),
             bridge' = [bridge EXCEPT ![b] = FailedAt([bridge[b] EXCEPT !.open = FALSE,
                                                      !.advisor = AdvisorBack(b)], step)]
      PROVE  Control' /\ Only(b) /\ removal'[b].stage \in {"idle", "mark"}
    <2>1. closed = [bridge[b] EXCEPT !.open = FALSE, !.advisor = AdvisorBack(b)]
        BY <1>5, <1>6, Own DEF BridgeRecord
    <2>2. PICK B : B = FailedAt(closed, step)
        OBVIOUS
    <2>3. step \in Failures
        BY DEF Failures
    <2>4. /\ B \in BridgeRecord /\ B.up = closed.up /\ B.cur = closed.cur /\ ~B.open
          /\ B.marked = closed.marked /\ B.advisor = closed.advisor
        BY <1>6, <2>2, <2>3, FailedRecord
    <2>5. B.failed = closed.failed \cup {step}
        BY <1>6, <2>2 DEF FailedAt, BridgeRecord
    <2>6. B.marked => B.failed \cap {"resume", "unmark", "shutdown"} # {}
        BY <1>6, <1>8, <2>4, <2>5
    <2>7. Fits(B, NoRemoval)
        BY <1>5, <1>6, <1>7, <2>4, <2>5, <2>6 DEF Fits, Locked
    <2>8. bridge' = [bridge EXCEPT ![b] = B]
        BY <1>9, <2>1, <2>2
    <2> QED  BY <1>4, <1>5, <1>6, <1>9, <2>4, <2>7, <2>8
<1>10. CASE bridge' = [bridge EXCEPT ![b].advisor = AdvisorBack(b)] /\ RemovalEnds(b)
    <2>1. Fits(back, NoRemoval)
        BY <1>1, <1>5, <1>7, <1>8 DEF Fits, Locked
    <2>2. bridge' = [bridge EXCEPT ![b] = back]
        BY <1>5, <1>10
    <2> QED  BY <1>4, <1>5, <1>10, <2>1, <2>2
<1> QED  BY <1>3, <1>9, <1>10 DEF Pause

LEMMA MarkControl ==
    ASSUME Control, NEW b \in Bridges, Mark(b)
    PROVE  Control' /\ Only(b) /\ removal'[b].stage \in {"idle", "registry"}
<1>1. Removing(b) /\ UNCHANGED work
    BY DEF Mark, Removing, removeOnly
<1>2. CASE bridge' = [bridge EXCEPT ![b].marked = TRUE] /\ RemoveTo(b, "registry")
    <2>1. PICK r \in BridgeRecord : r = bridge[b]
        BY Own
    <2> DEFINE B == [r EXCEPT !.marked = TRUE]
    <2>2. /\ B \in BridgeRecord /\ B.up = r.up /\ B.cur = r.cur /\ B.open = r.open
          /\ B.advisor = r.advisor /\ B.failed = r.failed
        BY DEF BridgeRecord
    <2>3. bridge' = [bridge EXCEPT ![b] = B]
        BY <1>2, <2>1
    <2>4. ASSUME NEW R \in RemovalRecord, R.stage = "registry", R.current = removal[b].current,
                 R.again = removal[b].again
          PROVE  Fits(B, R)
        <3>1. Fits(r, removal[b]) /\ removal[b].stage = "mark" /\ removal[b].current
            BY <2>1, Own DEF Mark, Fits
        <3> QED  BY <2>2, <2>4, <3>1 DEF Fits, Locked
    <2>5. "registry" \in RemovalStages
        BY DEF RemovalStages
    <2>6. \A R \in RemovalRecord :
            R.stage = "registry" /\ R.current = removal[b].current /\ R.again = removal[b].again
              => Fits(B, R)
        BY <2>4
    <2>7. B \in BridgeRecord /\ B.up = bridge[b].up /\ (B.cur => bridge[b].cur)
        BY <2>1, <2>2
    <2> HIDE DEF B
    <2>8. RemoveTo(b, "registry")
        BY <1>2
    <2>9. Control' /\ Only(b) /\ removal'[b].stage = "registry"
        BY <1>1, <2>3, <2>5, <2>6, <2>7, <2>8, StageGoes
    <2> QED  BY <2>9
<1>3. CASE GivesUp(b)
    BY <1>1, <1>3, GivesUpControl DEF NoRemoval
<1> QED  BY <1>2, <1>3 DEF Mark


LEMMA TakeRegistryControl ==
    ASSUME Control, NEW b \in Bridges, TakeRegistry(b)
    PROVE  Control' /\ Only(b) /\ removal'[b].stage \in {"idle", "forget"}
<1>1. Removing(b) /\ UNCHANGED work
    BY DEF TakeRegistry, Removing, removeOnly
<1>2. CASE RemoveTo(b, "forget") /\ UNCHANGED bridge
    <2>1. bridge' = [bridge EXCEPT ![b] = bridge[b]] /\ bridge[b] \in BridgeRecord
        BY <1>2, Own DEF Control, RemovalTyped
    <2>2. \A R \in RemovalRecord :
            R.stage = "forget" /\ R.current = removal[b].current /\ R.again = removal[b].again
              => Fits(bridge[b], R)
        BY Own DEF TakeRegistry, Fits, Locked
    <2>3. "forget" \in RemovalStages
        BY DEF RemovalStages
    <2> QED  BY <1>1, <1>2, <2>1, <2>2, <2>3, StageGoes
<1>3. CASE GivesUp(b)
    BY <1>1, <1>3, GivesUpControl DEF NoRemoval
<1> QED  BY <1>2, <1>3 DEF TakeRegistry

LEMMA ForgetAccountControl ==
    ASSUME Control, NEW b \in Bridges, ForgetAccount(b)
    PROVE  /\ Control' /\ Only(b)
           /\ \/ removal'[b].stage = "idle"
              \/ /\ removal'[b].stage = "rows" /\ ~Working(b) /\ UNCHANGED bridge
                 /\ removal'[b].left = {f \in Files \ {"rows"} : Has(f)}
<1>1. Removing(b) /\ UNCHANGED work /\ bridge[b].up
    BY AtWorkIsUp DEF ForgetAccount, Removing, removeOnly
<1>2. CASE /\ Forgettable(b) /\ UNCHANGED bridge
           /\ removal' = [removal EXCEPT ![b].stage = "rows",
                                         ![b].left = {f \in Files \ {"rows"} : Has(f)}]
    <2>1. PICK r \in RemovalRecord : r = removal[b]
        BY Own
    <2>2. PICK left \in SUBSET Files : left = {f \in Files \ {"rows"} : Has(f)}
        OBVIOUS
    <2> DEFINE R == [r EXCEPT !.stage = "rows", !.left = left]
    <2>3. /\ R \in RemovalRecord /\ R.stage = "rows" /\ R.current = r.current
          /\ R.again = r.again /\ R.left = left
        BY DEF RemovalRecord, RemovalStages
    <2>4. removal' = [removal EXCEPT ![b] = R]
        <3>1. removal' = [removal EXCEPT ![b].stage = "rows", ![b].left = left]
            BY <1>2, <2>2
        <3> QED  BY <2>1, <3>1, Own DEF Control, RemovalTyped, RemovalRecord
    <2>5. bridge' = [bridge EXCEPT ![b] = bridge[b]] /\ bridge[b] \in BridgeRecord
        BY <1>2, Own DEF Control, RemovalTyped
    <2>6. Fits(bridge[b], R)
        BY <2>1, <2>3, Own DEF ForgetAccount, Fits, Locked
    <2>7. ~Working(b)
        BY <1>2 DEF Forgettable
    <2> HIDE DEF R
    <2> QED  BY <1>1, <1>2, <2>2, <2>3, <2>4, <2>5, <2>6, <2>7, RemovalGoes
<1>3. CASE GivesUp(b)
    BY <1>1, <1>3, GivesUpControl DEF NoRemoval
<1> QED  BY <1>2, <1>3 DEF ForgetAccount

LEMMA ClearRowsControl ==
    ASSUME Control, NEW b \in Bridges, ClearRows(b)
    PROVE  /\ Control' /\ Only(b) /\ UNCHANGED work
           /\ \/ removal'[b].stage = "idle" /\ UNCHANGED disk
              \/ /\ removal'[b].stage = "unlink" /\ removal'[b].left = removal[b].left
                 /\ removal'[b].again = removal[b].again
                 /\ \/ disk' = [disk EXCEPT !["rows"] = Absent]
                    \/ UNCHANGED disk /\ removal[b].again
<1>1. Removing(b) /\ UNCHANGED work
    BY DEF ClearRows, Removing, removeOnly
<1>2. CASE /\ disk' = IF bridge[b].advisor = "cleared" THEN disk ELSE [disk EXCEPT !["rows"] = Absent]
           /\ bridge' = [bridge EXCEPT ![b].advisor = "cleared"]
           /\ RemoveTo(b, "unlink")
    <2>1. PICK r \in BridgeRecord : r = bridge[b]
        BY Own
    <2>2. PICK B \in BridgeRecord :
            /\ B = [r EXCEPT !.advisor = "cleared"] /\ B.up = r.up /\ B.cur = r.cur
            /\ B.open = r.open /\ B.marked = r.marked /\ B.failed = r.failed
            /\ B.advisor = "cleared"
        <3>1. PICK B : B = [r EXCEPT !.advisor = "cleared"]
            OBVIOUS
        <3> QED  BY <3>1 DEF BridgeRecord
    <2>3. bridge' = [bridge EXCEPT ![b] = B]
        BY <1>2, <2>1, <2>2
    <2>4. \A R \in RemovalRecord :
            R.stage = "unlink" /\ R.current = removal[b].current /\ R.again = removal[b].again
              => Fits(B, R)
        BY <2>1, <2>2, Own DEF ClearRows, Fits, Locked
    <2>5. "unlink" \in RemovalStages
        BY DEF RemovalStages
    <2>6. RemoveTo(b, "unlink")
        BY <1>2
    <2>7. B.up = bridge[b].up
        BY <2>1, <2>2
    <2>8. B.cur => bridge[b].cur
        BY <2>1, <2>2
    <2>9. /\ Control' /\ Only(b) /\ bridge'[b] = B
          /\ removal'[b].stage = "unlink" /\ removal'[b].current = removal[b].current
          /\ removal'[b].again = removal[b].again /\ removal'[b].left = removal[b].left
        BY <1>1, <2>3, <2>4, <2>5, <2>6, <2>7, <2>8, StageGoes
    <2>10. bridge[b].advisor = "cleared" => removal[b].again
        BY Own DEF ClearRows, Fits
    <2> QED  BY <1>1, <1>2, <2>9, <2>10
<1>3. CASE GivesUp(b) /\ UNCHANGED disk
    BY <1>1, <1>3, GivesUpControl DEF NoRemoval
<1> QED  BY <1>2, <1>3 DEF ClearRows

LEMMA UnlinkControl ==
    ASSUME Control, NEW b \in Bridges, Unlink(b)
    PROVE  /\ Control' /\ Only(b) /\ UNCHANGED work
           /\ \/ removal'[b].stage = "idle" /\ UNCHANGED disk
              \/ \E f \in Files :
                   /\ disk' = [disk EXCEPT ![f] = Absent] /\ removal'[b].stage = "unlink"
                   /\ removal'[b].left = removal[b].left \ {f}
                   /\ removal'[b].again = removal[b].again
<1>1. Removing(b) /\ UNCHANGED work /\ bridge[b].up
    BY AtWorkIsUp DEF Unlink, Removing, removeOnly
<1>2. ASSUME NEW f \in Deletable(removal[b].left), disk' = [disk EXCEPT ![f] = Absent],
             removal' = [removal EXCEPT ![b].left = @ \ {f}], UNCHANGED bridge
      PROVE  /\ Control' /\ Only(b) /\ removal'[b].stage = "unlink"
             /\ removal'[b].left = removal[b].left \ {f}
             /\ removal'[b].again = removal[b].again /\ f \in Files
    <2>1. PICK r \in RemovalRecord : r = removal[b]
        BY Own
    <2> DEFINE R == [r EXCEPT !.left = r.left \ {f}]
    <2>2. /\ R \in RemovalRecord /\ R.stage = r.stage /\ R.current = r.current
          /\ R.again = r.again /\ R.left = r.left \ {f}
        BY DEF RemovalRecord
    <2>3. removal' = [removal EXCEPT ![b] = R]
        BY <1>2, <2>1
    <2>4. bridge' = [bridge EXCEPT ![b] = bridge[b]] /\ bridge[b] \in BridgeRecord
        BY <1>2, Own DEF Control, RemovalTyped
    <2>5. Fits(bridge[b], R)
        BY <2>1, <2>2, Own DEF Fits
    <2>6. removal[b].stage = "unlink" /\ f \in Files
        BY <2>1 DEF Unlink, Deletable, RemovalRecord
    <2> HIDE DEF R
    <2> QED  BY <1>1, <2>1, <2>2, <2>3, <2>4, <2>5, <2>6, RemovalGoes
<1>3. CASE GivesUp(b) /\ UNCHANGED disk
    BY <1>1, <1>3, GivesUpControl DEF NoRemoval
<1> QED  BY <1>1, <1>2, <1>3 DEF Unlink

LEMMA StrikeControl ==
    ASSUME Control, NEW b \in Bridges, Strike(b)
    PROVE  /\ Control' /\ Only(b) /\ removal'[b].stage = "idle"
           /\ \A c \in Bridges : work'[c] = work[c] \/ (c = b /\ work'[c].stage = "idle")
<1>1. /\ Removing(b) /\ bridge[b].up /\ removal' = [removal EXCEPT ![b] = NoRemoval]
      /\ NoRemoval.stage = "idle"
    BY AtWorkIsUp DEF Strike, RemovalEnds, Removing, NoRemoval
<1>2. CASE /\ bridge' = [bridge EXCEPT ![b] = Down] /\ To(b, "idle")
    <2>1. work' = [work EXCEPT ![b] = [Idle EXCEPT !.stage = "idle"]]
        BY <1>2 DEF To
    <2>2. [Idle EXCEPT !.stage = "idle"] = Idle /\ Idle.stage = "idle"
        BY DEF Idle
    <2>3. Only(b) /\ bridge'[b] = Down /\ work'[b] = Idle /\ removal'[b] = NoRemoval
        BY <1>1, <1>2, <2>1, <2>2, Records DEF Control, RemovalTyped, Only
    <2>4. ~Holds(b)'
        BY <2>3 DEF Holds, Removing, Down, NoRemoval
    <2>5. Blank(bridge'[b], work'[b], removal'[b]) /\ Fits(bridge'[b], removal'[b])
        BY <2>3 DEF Blank, Fits, Down, Idle, NoRemoval, Locked
    <2>6. Control'
        BY <2>3, <2>4, <2>5, ControlStep
    <2> QED  BY <1>1, <2>2, <2>3, <2>6 DEF Only
<1>3. PICK r \in BridgeRecord : r = bridge[b]
    BY Own
<1>4. Fits(r, removal[b]) /\ removal[b].stage = "unlink"
    BY <1>3, Own DEF Strike
<1>5. ASSUME NEW B \in BridgeRecord, bridge' = [bridge EXCEPT ![b] = B], UNCHANGED work,
             B.up = r.up, B.cur => r.cur, Fits(B, NoRemoval)
      PROVE  /\ Control' /\ Only(b) /\ removal'[b].stage = "idle"
             /\ \A c \in Bridges : work'[c] = work[c]
    <2>1. NoRemoval \in RemovalRecord
        BY Records
    <2>2. Control' /\ Only(b) /\ removal'[b] = NoRemoval
        BY <1>1, <1>3, <1>5, <2>1, RemovalGoes
    <2> QED  BY <1>1, <1>5, <2>2
<1>6. CASE bridge' = [bridge EXCEPT ![b] = FailedAt(@, "shutdown")] /\ UNCHANGED work
    <2>1. PICK B : B = FailedAt(r, "shutdown")
        OBVIOUS
    <2>2. /\ B \in BridgeRecord /\ B.up = r.up /\ B.cur = r.cur /\ B.advisor = r.advisor
          /\ "shutdown" \in B.failed
        BY <2>1, FailedRecord DEF Failures
    <2>3. Fits(B, NoRemoval)
        BY <1>1, <1>4, <2>2 DEF Fits, Locked
    <2>4. bridge' = [bridge EXCEPT ![b] = B]
        BY <1>3, <1>6, <2>1
    <2> QED  BY <1>5, <1>6, <2>2, <2>3, <2>4
<1>7. CASE /\ bridge' = [bridge EXCEPT ![b].known = FALSE, ![b].cur = FALSE]
           /\ UNCHANGED work /\ ~removal[b].current
    <2>1. PICK B : B = [r EXCEPT !.known = FALSE, !.cur = FALSE]
        OBVIOUS
    <2>2. /\ B \in BridgeRecord /\ B.up = r.up /\ ~B.cur /\ B.open = r.open
          /\ B.marked = r.marked /\ B.failed = r.failed /\ B.advisor = r.advisor
        BY <2>1 DEF BridgeRecord
    <2>3. bridge' = [bridge EXCEPT ![b] = B]
        BY <1>3, <1>7, <2>1 DEF Control, RemovalTyped, BridgeRecord
    <2>4. Fits(B, NoRemoval)
        BY <1>1, <1>4, <1>7, <2>2 DEF Fits, Locked
    <2> QED  BY <1>5, <1>7, <2>2, <2>3, <2>4
<1>8. CASE UNCHANGED <<bridge, work>> /\ ~removal[b].current
    <2>1. Fits(r, NoRemoval)
        BY <1>1, <1>4, <1>8 DEF Fits, Locked
    <2>2. bridge' = [bridge EXCEPT ![b] = r]
        BY <1>3, <1>8 DEF Control, RemovalTyped
    <2> QED  BY <1>5, <1>8, <2>1, <2>2
<1> QED  BY <1>2, <1>6, <1>7, <1>8 DEF Strike

-----------------------------------------------------------------------------
(* The files: what every step keeps *)

Outlives == outlived' = (outlived \/ \E b \in Bridges : Working(b)' /\ ~Holds(b)')

LEMMA RemovalInvStep ==
    ASSUME RemovalInv, Outlives, Control', Dated', listed' \in BOOLEAN,
           ~outlived => Honest' /\ \A b \in Bridges : InHand(b)'
    PROVE  RemovalInv'
<1>1. outlived' \in BOOLEAN /\ (~outlived' => ~outlived /\ WorkIsHeld')
    BY DEF RemovalInv, Outlives, WorkIsHeld
<1> QED  BY <1>1 DEF RemovalInv

\* Files that go leave every claim about the others as it was.
LEMMA HonestStays ==
    ASSUME Honest, \A f \in Snapshots : disk'[f] = disk[f] \/ disk'[f] = Absent,
           \A c \in Bridges : \/ work'[c] = work[c]
                              \/ work'[c].stage \in {"idle", "first data", "stage"}
    PROVE  Honest'
<1>1. \A f, g \in Snapshots : AtMost(f, g) => AtMost(f, g)'
    BY DEF AtMost, Has
<1>2. {"data", "stamp", "staged", "staged stamp", "ready", "ready stamp"} = Snapshots
    BY DEF Snapshots
<1>3. HonestPairs'
    BY <1>1, <1>2 DEF Honest, HonestPairs
<1>4. ASSUME NEW c \in Bridges, work'[c] = work[c]
      PROVE  WorkFits(work[c])'
    <2>1. WorkFits(work[c])
        BY DEF Honest
    <2>2. \A f \in Snapshots : Has(f)' => Has(f) /\ disk'[f] = disk[f]
        BY DEF Has
    <2> QED  BY <1>1, <1>2, <1>4, <2>1, <2>2 DEF WorkFits
<1>5. ASSUME NEW c \in Bridges, work'[c].stage \in {"idle", "first data", "stage"}
      PROVE  WorkFits(work[c])'
    BY <1>5 DEF WorkFits
<1> QED  BY <1>3, <1>4, <1>5 DEF Honest

\* The one worker at work has the files to itself.
LEMMA HonestOwn ==
    ASSUME Control, WorkIsHeld, NEW b \in Bridges, Working(b), Only(b),
           HonestPairs', WorkFits(work[b])'
    PROVE  Honest'
<1>1. ASSUME NEW c \in Bridges, c # b  PROVE WorkFits(work[c])'
    <2>1. ~Working(c)
        BY <1>1 DEF Control, OneHolder, WorkIsHeld
    <2>2. work'[c].stage = "idle"
        BY <1>1, <2>1 DEF Only, Working
    <2> QED  BY <2>2 DEF WorkFits
<1> QED  BY <1>1 DEF Honest

\* While a removal has the files in hand no other bridge holds the lease.
LEMMA InHandStays ==
    ASSUME Control, \A c \in Bridges : InHand(c), NEW b \in Bridges, Only(b),
           UNCHANGED disk \/ Holds(b), InHand(b)'
    PROVE  \A c \in Bridges : InHand(c)'
<1> SUFFICES ASSUME NEW c \in Bridges, c # b, removal[c].stage \in {"rows", "unlink"}
             PROVE  InHand(c)'
    BY DEF InHand, Only
<1>1. Holds(c)
    BY DEF Holds, Removing
<1>2. UNCHANGED disk
    BY <1>1 DEF Control, OneHolder
<1> QED  BY <1>2 DEF InHand, Only, Working, Has

LEMMA ServingIsNotRemoving ==
    ASSUME Control, NEW b \in Bridges, Serving(b)
    PROVE  removal[b].stage \notin {"rows", "unlink"} /\ Holds(b) /\ bridge[b].up
BY Own DEF Serving, SourceLocked, Fits, Locked, Holds

LEMMA WorkingIsNotRemoving ==
    ASSUME \A c \in Bridges : InHand(c), NEW b \in Bridges, Working(b), UNCHANGED removal
    PROVE  InHand(b)'
BY DEF InHand

\* A step that writes no file.
LEMMA CalmStep ==
    ASSUME RemovalInv, Outlives, NEW b \in Bridges, Control', Only(b), UNCHANGED <<version, disk>>,
           listed' \in BOOLEAN, ~outlived => InHand(b)',
           work'[b] = work[b] \/ (work'[b].stage \in {"idle", "stage"} /\ work'[b].sig = 0)
    PROVE  RemovalInv'
<1>1. Dated'
    BY DEF RemovalInv, Dated, Only
<1>2. ~outlived => Honest'
    BY HonestStays DEF RemovalInv, Only
<1>3. ~outlived => \A c \in Bridges : InHand(c)'
    BY InHandStays DEF RemovalInv
<1> QED  BY <1>1, <1>2, <1>3, RemovalInvStep

LEMMA CalmRemoval ==
    ASSUME RemovalInv, Outlives, NEW b \in Bridges, Control', Only(b),
           UNCHANGED <<version, disk, listed, work>>, removal'[b].stage \notin {"rows", "unlink"}
    PROVE  RemovalInv'
<1>1. InHand(b)'
    BY DEF InHand
<1> QED  BY <1>1, CalmStep DEF RemovalInv

LEMMA CalmBridge ==
    ASSUME RemovalInv, Outlives, NEW b \in Bridges, Control', Only(b),
           UNCHANGED <<version, disk, work, removal>>, listed' \in BOOLEAN
    PROVE  RemovalInv'
<1>1. ~outlived => InHand(b)'
    BY DEF RemovalInv, InHand, Working, Has
<1> QED  BY <1>1, CalmStep

-----------------------------------------------------------------------------
(* The files: the snapshot worker *)

LEMMA Now ==
    ASSUME RemovalInv
    PROVE  version \in Nat /\ version \in 0 .. version /\ Absent \notin Nat /\ MaxVersion \in Nat
BY RemovalAssumption DEF RemovalInv, Dated

LEMMA ChangeKeeps ==
    ASSUME RemovalInv, Outlives, Change
    PROVE  RemovalInv'
<1>1. UNCHANGED <<disk, listed, bridge, work, removal>> /\ version' = version + 1 /\ version < MaxVersion
    BY DEF Change
<1>2. Control'
    BY <1>1 DEF RemovalInv, Control, RemovalTyped, OneHolder, Holds, Removing, Blank, Fits
<1>3. Dated'
    <2>1. version \in Nat /\ version' \in 1 .. MaxVersion /\ 0 .. version \subseteq 0 .. version'
        BY <1>1, RemovalAssumption DEF RemovalInv, Dated
    <2>2. disk' \in [Files -> 0 .. version' \cup {Absent}]
        BY <1>1, <2>1 DEF RemovalInv, Dated
    <2>3. \A b \in Bridges : work'[b].sig <= version'
        BY <1>1, <2>1, Own DEF RemovalInv, Dated, WorkRecord
    <2> QED  BY <2>1, <2>2, <2>3 DEF Dated
<1>4. ~outlived => Honest'
    BY <1>1, HonestStays DEF RemovalInv
<1>5. ~outlived => \A b \in Bridges : InHand(b)'
    BY <1>1 DEF RemovalInv, InHand, Working, Has
<1> QED  BY <1>1, <1>2, <1>3, <1>4, <1>5, RemovalInvStep DEF RemovalInv

LEMMA UseKeeps ==
    ASSUME RemovalInv, Outlives, NEW b \in Bridges, NEW f \in Files, Use(b, f)
    PROVE  RemovalInv'
<1>1. /\ Serving(b) /\ f \in {"result", "rows"} /\ disk' = [disk EXCEPT ![f] = 0]
      /\ UNCHANGED <<version, listed, bridge, work, removal>>
    BY DEF Use
<1>2. Control'
    BY <1>1 DEF RemovalInv, Control, RemovalTyped, OneHolder, Holds, Removing, Blank, Fits
<1>3. Dated'
    BY <1>1, RemovalAssumption DEF RemovalInv, Dated
<1>4. \A g \in Snapshots : disk'[g] = disk[g]
    BY <1>1 DEF RemovalInv, Dated, Files, Snapshots
<1>5. ~outlived => Honest'
    BY <1>1, <1>4, HonestStays DEF RemovalInv
<1>6. Only(b) /\ Holds(b) /\ InHand(b)'
    BY <1>1, <1>2, ServingIsNotRemoving DEF RemovalInv, Only, Control, InHand
<1>7. ~outlived => \A c \in Bridges : InHand(c)'
    BY <1>6, InHandStays DEF RemovalInv
<1> QED  BY <1>1, <1>2, <1>3, <1>5, <1>7, RemovalInvStep DEF RemovalInv

LEMMA FirstKeeps ==
    ASSUME RemovalInv, Outlives, NEW b \in Bridges, First(b)
    PROVE  RemovalInv'
<1>0. version \in Nat
    BY Now
<1>1. /\ Serving(b) /\ work' = [work EXCEPT ![b] = [stage |-> "first data", sig |-> version]]
      /\ UNCHANGED <<version, listed, bridge, removal>>
      /\ UNCHANGED disk \/ disk' = [disk EXCEPT !["stamp"] = Absent]
    BY DEF First
<1>2. "first data" \in WorkStages
    BY DEF WorkStages
<1>3. bridge[b].up /\ Holds(b) /\ removal[b].stage \notin {"rows", "unlink"}
    BY <1>1, ServingIsNotRemoving DEF RemovalInv
<1>4. Control' /\ Only(b) /\ work'[b].stage = "first data" /\ work'[b].sig = version
    BY <1>0, <1>1, <1>2, <1>3, SigWork DEF RemovalInv
<1>5. Dated'
    <2>1. disk' \in [Files -> 0 .. version' \cup {Absent}]
        BY <1>1 DEF RemovalInv, Dated
    <2>2. \A c \in Bridges : c # b => work'[c].sig <= version
        BY <1>4 DEF RemovalInv, Dated, Only
    <2>3. work'[b].sig <= version
        <3>1. work'[b].sig = version
            BY <1>4
        <3> QED  BY <1>0, <3>1
    <2> QED  BY <1>1, <2>1, <2>2, <2>3 DEF RemovalInv, Dated
<1>6. \A f \in Snapshots : disk'[f] = disk[f] \/ disk'[f] = Absent
    BY <1>1 DEF RemovalInv, Dated, Files
<1>7. ~outlived => Honest'
    BY <1>4, <1>6, HonestStays DEF RemovalInv, Only
<1>8. InHand(b)'
    BY <1>1, <1>3 DEF InHand
<1>9. ~outlived => \A c \in Bridges : InHand(c)'
    BY <1>3, <1>4, <1>8, InHandStays DEF RemovalInv
<1> QED  BY <1>1, <1>4, <1>5, <1>7, <1>9, RemovalInvStep DEF RemovalInv

LEMMA SubmitKeeps ==
    ASSUME RemovalInv, Outlives, NEW b \in Bridges, Submit(b)
    PROVE  RemovalInv'
<1>1. Serving(b) /\ To(b, "stage") /\ UNCHANGED <<version, disk, listed, bridge, removal>>
    BY DEF Submit, workOnly
<1>2. bridge[b].up /\ removal[b].stage \notin {"rows", "unlink"}
    BY <1>1, ServingIsNotRemoving DEF RemovalInv
<1>3. Control' /\ Only(b) /\ work'[b].stage = "stage" /\ work'[b].sig = 0
    <2>1. "stage" \in WorkStages
        BY DEF WorkStages
    <2> QED  BY <1>1, <1>2, <2>1, ToWork DEF RemovalInv
<1>4. InHand(b)'
    BY <1>1, <1>2 DEF InHand
<1> QED  BY <1>1, <1>3, <1>4, CalmStep DEF RemovalInv

\* A step of the worker: the lease keeps everyone else away.
LEMMA WorkerStep ==
    ASSUME RemovalInv, Outlives, NEW b \in Bridges, Working(b), Control', Only(b),
           UNCHANGED <<version, listed, removal>>, disk' \in [Files -> 0 .. version \cup {Absent}],
           work'[b].sig <= version, ~outlived => HonestPairs' /\ WorkFits(work[b])'
    PROVE  RemovalInv'
<1>1. Dated'
    BY DEF RemovalInv, Dated, Only
<1>2. ~outlived => Honest'
    BY HonestOwn DEF RemovalInv
<1>3. ~outlived => InHand(b)' /\ Holds(b)
    BY WorkingIsNotRemoving DEF RemovalInv, WorkIsHeld
<1>4. ~outlived => \A c \in Bridges : InHand(c)'
    BY <1>3, InHandStays DEF RemovalInv
<1> QED  BY <1>1, <1>2, <1>4, RemovalInvStep DEF RemovalInv

\* It gives up, or ends.
LEMMA WorkerStops ==
    ASSUME RemovalInv, Outlives, NEW b \in Bridges, Working(b), To(b, "idle"), UNCHANGED disk,
           UNCHANGED workOnly
    PROVE  RemovalInv'
<1>1. "idle" \in WorkStages /\ bridge[b].up
    BY AtWorkIsUp DEF RemovalInv, WorkStages
<1>2. Control' /\ Only(b) /\ work'[b].stage = "idle" /\ work'[b].sig = 0
    BY <1>1, ToWork DEF RemovalInv, workOnly
<1>3. ~outlived => InHand(b)'
    BY WorkingIsNotRemoving DEF RemovalInv, workOnly
<1> QED  BY <1>2, <1>3, CalmStep DEF RemovalInv, workOnly

LEMMA BuildKeeps ==
    ASSUME RemovalInv, Outlives, NEW b \in Bridges, Build(b)
    PROVE  RemovalInv'
<1>0. version \in Nat
    BY Now
<1>1. Absent \notin Nat
    BY Now
<1>2. Working(b) /\ bridge[b].up /\ UNCHANGED <<version, listed, bridge, removal>>
    BY AtWorkIsUp DEF RemovalInv, Build, Working, workOnly
<1>3. PICK w \in WorkRecord : w = work[b]
    BY Own DEF RemovalInv
<1>4. w.sig \in Nat /\ w.sig <= version
    BY <1>3 DEF RemovalInv, Dated, WorkRecord
<1>5. disk \in [Files -> 0 .. version \cup {Absent}]
    BY DEF RemovalInv, Dated
<1>6. {"data", "stamp", "staged", "staged stamp"} \subseteq Files
    BY DEF Files, Snapshots
<1>7. ASSUME NEW from, NEW f, NEW to \in WorkStages, w.stage = from,
             \/ from = "first data" /\ f = "data" /\ to = "first stamp"
             \/ from = "stage data" /\ f = "staged" /\ to = "stage stamp",
             disk' = [disk EXCEPT ![f] = version], work' = [work EXCEPT ![b].stage = to]
      PROVE  RemovalInv'
    <2> DEFINE W == [w EXCEPT !.stage = to]
    <2>1. W \in WorkRecord /\ W.stage = to /\ W.sig = w.sig
        BY DEF WorkRecord
    <2>2. work' = [work EXCEPT ![b] = W]
        BY <1>3, <1>7
    <2> HIDE DEF W
    <2>3. Control' /\ Only(b) /\ work'[b] = W
        BY <1>2, <2>1, <2>2, WorkOnly DEF RemovalInv
    <2>4. f \in Files
        BY <1>6, <1>7
    <2>5. disk' = [disk EXCEPT ![f] = version]
        BY <1>7
    <2>6. disk' \in [Files -> 0 .. version \cup {Absent}]
        <3>1. version \in 0 .. version \cup {Absent}
            BY <1>0
        <3> QED  BY <1>5, <2>5, <3>1
    <2>7. disk'[f] = version /\ \A g \in Files : g # f => disk'[g] = disk[g]
        BY <1>5, <2>4, <2>5
    <2>8. \A g \in Files : Has(g) => disk[g] <= version
        BY <1>0, <1>5 DEF Has
    <2>9. CASE from = "first data" /\ f = "data" /\ to = "first stamp"
        <3>1. ~outlived => HonestPairs'
            BY <1>6, <2>7, <2>8, <2>9 DEF RemovalInv, Honest, HonestPairs, AtMost, Has
        <3>2. WorkFits(work[b])'
            BY <1>4, <2>1, <2>3, <2>7, <2>9 DEF WorkFits
        <3> QED  BY <1>2, <1>4, <2>1, <2>3, <2>6, <3>1, <3>2, WorkerStep
    <2>10. CASE from = "stage data" /\ f = "staged" /\ to = "stage stamp"
        <3>1. ~outlived => HonestPairs'
            BY <1>6, <2>7, <2>8, <2>10 DEF RemovalInv, Honest, HonestPairs, AtMost, Has
        <3>2. ~outlived => ~Has("stamp") \/ disk["stamp"] <= w.sig
            BY <1>3, <1>7, <2>10 DEF RemovalInv, Honest, WorkFits
        <3>3. ~outlived => WorkFits(work[b])'
            BY <1>4, <1>6, <2>1, <2>3, <2>7, <2>10, <3>2 DEF WorkFits, Has
        <3> QED  BY <1>2, <1>4, <2>1, <2>3, <2>6, <3>1, <3>3, WorkerStep
    <2> QED  BY <1>7, <2>9, <2>10
<1>8. CASE To(b, "idle") /\ UNCHANGED disk /\ UNCHANGED workOnly
    BY <1>2, <1>8, WorkerStops
<1>9. ASSUME w.stage = "first stamp", NEW stamp \in Stamps(w.sig),
             disk' = [disk EXCEPT !["stamp"] = stamp], To(b, "idle")
      PROVE  RemovalInv'
    <2>1. "idle" \in WorkStages /\ To(b, "idle")
        BY <1>9 DEF WorkStages
    <2>2. Control' /\ Only(b) /\ work'[b].stage = "idle" /\ work'[b].sig = 0
        BY <1>2, <2>1, ToWork DEF RemovalInv
    <2>3. stamp = w.sig \/ stamp = 0
        BY <1>9 DEF Stamps
    <2>4. stamp \in 0 .. version /\ stamp <= w.sig
        BY <1>0, <1>4, <2>3
    <2>5. disk' = [disk EXCEPT !["stamp"] = stamp]
        BY <1>9
    <2>6. disk' \in [Files -> 0 .. version \cup {Absent}]
        BY <1>5, <2>4, <2>5
    <2>7. disk'["stamp"] = stamp /\ \A g \in Files : g # "stamp" => disk'[g] = disk[g]
        BY <1>5, <1>6, <2>5
    <2>8. ~outlived => ~Has("data") \/ w.sig <= disk["data"]
        BY <1>3, <1>9 DEF RemovalInv, Honest, WorkFits
    <2>9. ~outlived => ~Has("data") \/ stamp <= disk["data"]
        <3>1. ~Has("data") \/ disk["data"] \in Nat
            <4>1. disk["data"] \in 0 .. version \cup {Absent}
                BY <1>5, <1>6
            <4> QED  BY <1>0, <4>1 DEF Has
        <3> QED  BY <1>0, <1>4, <2>4, <2>8, <3>1
    <2>10. ~outlived => HonestPairs'
        BY <1>6, <2>7, <2>9 DEF RemovalInv, Honest, HonestPairs, AtMost, Has
    <2>11. WorkFits(work[b])'
        BY <2>2 DEF WorkFits
    <2>12. work'[b].sig <= version
        <3>1. work'[b].sig = 0
            BY <2>2
        <3> QED  BY <1>0, <3>1
    <2> QED  BY <1>2, <2>2, <2>6, <2>10, <2>11, <2>12, WorkerStep
<1>10. {"first stamp", "stage stamp"} \subseteq WorkStages
    BY DEF WorkStages
<1> QED  BY <1>3, <1>7, <1>8, <1>9, <1>10 DEF Build

LEMMA StageKeeps ==
    ASSUME RemovalInv, Outlives, NEW b \in Bridges, Stage(b)
    PROVE  RemovalInv'
<1>0. version \in Nat
    BY Now
<1>1. Absent \notin Nat
    BY Now
<1>2. Working(b) /\ bridge[b].up /\ UNCHANGED <<version, listed, bridge, removal>>
    BY AtWorkIsUp DEF RemovalInv, Stage, Working, workOnly
<1>3. PICK w \in WorkRecord : w = work[b]
    BY Own DEF RemovalInv
<1>4. w.sig \in Nat /\ w.sig <= version
    BY <1>3 DEF RemovalInv, Dated, WorkRecord
<1>5. disk \in [Files -> 0 .. version \cup {Absent}]
    BY DEF RemovalInv, Dated
<1>6. {"data", "stamp", "staged", "staged stamp", "ready", "ready stamp"} \subseteq Files
    BY DEF Files, Snapshots
<1>7. \A g \in Files : Has(g) => disk[g] \in 0 .. version
    BY <1>5 DEF Has
<1>8. ASSUME w.stage = "stage", NEW d, disk' = d, d = disk \/ d = [disk EXCEPT !["staged stamp"] = Absent],
             \/ Has("staged") /\ disk["staged stamp"] = version /\ To(b, "copy")
             \/ work' = [work EXCEPT ![b] = [stage |-> "stage data", sig |-> version]]
      PROVE  RemovalInv'
    <2>1. disk' \in [Files -> 0 .. version \cup {Absent}]
        BY <1>5, <1>8
    <2>2. \A g \in Files : g # "staged stamp" => disk'[g] = disk[g]
        BY <1>5, <1>8
    <2>3. disk'["staged stamp"] = disk["staged stamp"] \/ disk'["staged stamp"] = Absent
        BY <1>5, <1>6, <1>8
    <2>4. ~outlived => HonestPairs'
        BY <1>6, <2>2, <2>3 DEF RemovalInv, Honest, HonestPairs, AtMost, Has
    <2>5. CASE Has("staged") /\ disk["staged stamp"] = version /\ To(b, "copy")
        <3>1. "copy" \in WorkStages /\ To(b, "copy")
            BY <2>5 DEF WorkStages
        <3>2. Control' /\ Only(b) /\ work'[b].stage = "copy" /\ work'[b].sig = 0
            BY <1>2, <3>1, ToWork DEF RemovalInv
        <3>3. ~outlived /\ Has("stamp") => disk["stamp"] <= disk["staged"]
            <4>1. Has("staged stamp")
                BY <1>0, <1>1, <2>5 DEF Has
            <4>2. ~outlived => disk["staged stamp"] <= disk["staged"]
                BY <2>5, <4>1 DEF RemovalInv, Honest, HonestPairs, AtMost
            <4>3. Has("stamp") => disk["stamp"] \in 0 .. version
                BY <1>6, <1>7
            <4>4. disk["staged"] \in 0 .. version
                BY <1>6, <1>7, <2>5
            <4>5. disk["staged stamp"] = version
                BY <2>5
            <4>6. ~outlived => version <= disk["staged"]
                BY <4>2, <4>5
            <4>7. Has("stamp") => disk["stamp"] <= version /\ disk["stamp"] \in Nat
                BY <1>0, <4>3
            <4>8. disk["staged"] \in Nat
                BY <1>0, <4>4
            <4> QED  BY <1>0, <4>6, <4>7, <4>8
        <3>4. ~outlived => WorkFits(work[b])'
            BY <1>6, <2>2, <3>2, <3>3 DEF WorkFits, AtMost, Has
        <3>5. work'[b].sig <= version
            <4>1. work'[b].sig = 0
                BY <3>2
            <4> QED  BY <1>0, <4>1
        <3> QED  BY <1>2, <2>1, <2>4, <3>2, <3>4, <3>5, WorkerStep
    <2>6. CASE work' = [work EXCEPT ![b] = [stage |-> "stage data", sig |-> version]]
        <3>1. "stage data" \in WorkStages
            BY DEF WorkStages
        <3>2. Control' /\ Only(b) /\ work'[b].stage = "stage data" /\ work'[b].sig = version
            BY <1>0, <1>2, <2>6, <3>1, SigWork DEF RemovalInv
        <3>3. work'[b].sig = version
            BY <3>2
        <3>4. work'[b].stage = "stage data"
            BY <3>2
        <3>5. Has("stamp") => disk["stamp"] <= version
            <4>1. Has("stamp") => disk["stamp"] \in 0 .. version
                BY <1>6, <1>7
            <4> QED  BY <1>0, <4>1
        <3>6. ~Has("stamp")' \/ disk'["stamp"] <= version
            BY <1>6, <2>2, <3>5 DEF Has
        <3>7. WorkFits(work[b])'
            BY <3>3, <3>4, <3>6 DEF WorkFits
        <3>8. work'[b].sig <= version
            BY <1>0, <3>3
        <3> QED  BY <1>2, <2>1, <2>4, <3>2, <3>7, <3>8, WorkerStep
    <2> QED  BY <1>8, <2>5, <2>6
<1>9. ASSUME w.stage = "stage stamp", NEW stamp \in Stamps(w.sig),
             disk' = [disk EXCEPT !["staged stamp"] = IF stamp = 0 THEN Absent ELSE stamp],
             IF stamp = 0 THEN To(b, "idle") ELSE To(b, "copy")
      PROVE  RemovalInv'
    <2>1. PICK stage \in {"idle", "copy"} : To(b, stage) /\ (stage = "copy" => stamp = w.sig)
        BY <1>9 DEF Stamps
    <2>2. PICK value : value \in {Absent, w.sig} /\ disk' = [disk EXCEPT !["staged stamp"] = value]
        BY <1>9 DEF Stamps
    <2>3. stage \in WorkStages
        BY DEF WorkStages
    <2>4. Control' /\ Only(b) /\ work'[b].stage = stage /\ work'[b].sig = 0
        BY <1>2, <2>1, <2>3, ToWork DEF RemovalInv
    <2>5. value \in 0 .. version \cup {Absent}
        <3>1. w.sig \in 0 .. version
            BY <1>0, <1>4
        <3> QED  BY <2>2, <3>1
    <2>6. disk' \in [Files -> 0 .. version \cup {Absent}]
        BY <1>5, <2>2, <2>5
    <2>7. disk'["staged stamp"] = value /\ \A g \in Files : g # "staged stamp" => disk'[g] = disk[g]
        BY <1>5, <1>6, <2>2
    <2>8. ~outlived => /\ ~Has("staged") \/ w.sig <= disk["staged"]
                       /\ ~Has("stamp") \/ disk["stamp"] <= w.sig
        BY <1>3, <1>9 DEF RemovalInv, Honest, WorkFits
    <2>9. ~outlived => HonestPairs'
        BY <1>6, <2>2, <2>7, <2>8 DEF RemovalInv, Honest, HonestPairs, AtMost, Has
    <2>10. ~outlived => AtMost("stamp", "staged")'
        <3>1. /\ Has("staged") => disk["staged"] \in Nat
              /\ Has("stamp") => disk["stamp"] \in Nat
            <4>1. /\ Has("staged") => disk["staged"] \in 0 .. version
                  /\ Has("stamp") => disk["stamp"] \in 0 .. version
                BY <1>6, <1>7
            <4>2. 0 .. version \subseteq Nat
                BY <1>0
            <4> QED  BY <4>1, <4>2
        <3>2. ~outlived => AtMost("stamp", "staged")
            BY <1>4, <2>8, <3>1 DEF AtMost
        <3> QED  BY <1>6, <2>7, <3>2 DEF AtMost, Has
    <2>11. ~outlived => WorkFits(work[b])'
        BY <2>4, <2>10 DEF WorkFits
    <2>12. work'[b].sig <= version
        <3>1. work'[b].sig = 0
            BY <2>4
        <3> QED  BY <1>0, <3>1
    <2> QED  BY <1>2, <2>4, <2>6, <2>9, <2>11, <2>12, WorkerStep
<1>10. CASE w.stage = "stage"
    <2>1. PICK d : /\ d = (IF Contact /\ disk["staged stamp"] = 0
                           THEN [disk EXCEPT !["staged stamp"] = Absent] ELSE disk)
                   /\ disk' = d
        BY <1>3, <1>10 DEF Stage
    <2>2. \/ Has("staged") /\ disk["staged stamp"] = version /\ To(b, "copy")
          \/ work' = [work EXCEPT ![b] = [stage |-> "stage data", sig |-> version]]
        BY <1>3, <1>10 DEF Stage
    <2> QED  BY <1>8, <1>10, <2>1, <2>2
<1>11. CASE w.stage = "stage stamp"
    BY <1>3, <1>9, <1>11 DEF Stage
<1> QED  BY <1>3, <1>10, <1>11 DEF Stage

LEMMA OrderOfMoves ==
    /\ {Order[k] : k \in 1 .. 3} = {"copy", "replace", "replace stamp"}
    /\ After("copy") = "replace" /\ After("replace") = "replace stamp"
    /\ After("replace stamp") = "idle"
<1>1. Order[1] = "copy" /\ Order[2] = "replace" /\ Order[3] = "replace stamp"
    BY DEF Order, Moves
<1>2. \A k \in 1 .. 3 : k = 1 \/ k = 2 \/ k = 3
    OBVIOUS
<1>3. \A k \in 1 .. 3 : (Order[k] = "copy" <=> k = 1) /\ (Order[k] = "replace" <=> k = 2)
                         /\ (Order[k] = "replace stamp" <=> k = 3)
    BY <1>1, <1>2
<1>4. 1 \in 1 .. 3 /\ 2 \in 1 .. 3 /\ 3 \in 1 .. 3
    OBVIOUS
<1>5. {Order[k] : k \in 1 .. 3} = {"copy", "replace", "replace stamp"}
    BY <1>1, <1>2, <1>4
<1>6. (CHOOSE k \in 1 .. 3 : Order[k] = "copy") = 1
    BY <1>3, <1>4
<1>7. (CHOOSE k \in 1 .. 3 : Order[k] = "replace") = 2
    BY <1>3, <1>4
<1>8. (CHOOSE k \in 1 .. 3 : Order[k] = "replace stamp") = 3
    BY <1>3, <1>4
<1>9. After("copy") = "replace"
    <2>1. 1 # 3 /\ 1 + 1 = 2
        OBVIOUS
    <2>2. After("copy") = Order[2]
        BY <1>6, <2>1, Zenon DEF After
    <2> QED  BY <1>1, <2>2
<1>10. After("replace") = "replace stamp"
    <2>1. 2 # 3 /\ 2 + 1 = 3
        OBVIOUS
    <2>2. After("replace") = Order[3]
        BY <1>7, <2>1, Zenon DEF After
    <2> QED  BY <1>1, <2>2
<1>11. After("replace stamp") = "idle"
    BY <1>8 DEF After
<1> QED  BY <1>5, <1>9, <1>10, <1>11

LEMMA PublishKeeps ==
    ASSUME RemovalInv, Outlives, NEW b \in Bridges, Publish(b)
    PROVE  RemovalInv'
<1>0. version \in Nat
    BY Now
<1>1. work[b].stage \in {"copy", "replace", "replace stamp"}
    BY OrderOfMoves DEF Publish
<1>2. Working(b) /\ bridge[b].up /\ UNCHANGED <<version, listed, bridge, removal>>
    BY <1>1, AtWorkIsUp DEF RemovalInv, Publish, Working, workOnly
<1>3. disk \in [Files -> 0 .. version \cup {Absent}]
    BY DEF RemovalInv, Dated
<1>4. {"data", "stamp", "staged", "staged stamp", "ready", "ready stamp"} \subseteq Files
    BY DEF Files, Snapshots
<1>5. \A g \in Files : disk[g] \in 0 .. version \cup {Absent}
    BY <1>3
<1>6. /\ After("copy") = "replace" /\ After("replace") = "replace stamp"
      /\ After("replace stamp") = "idle"
    BY OrderOfMoves
<1>7. ~outlived => HonestPairs /\ WorkFits(work[b])
    BY DEF RemovalInv, Honest
<1>8. ASSUME NEW stage \in WorkStages, To(b, stage), disk' \in [Files -> 0 .. version \cup {Absent}],
             ~outlived => HonestPairs',
             ~outlived /\ stage = "replace" => AtMost("stamp", "ready")' /\ AtMost("ready stamp", "ready")',
             ~outlived /\ stage = "replace stamp" => AtMost("ready stamp", "data")',
             stage \in {"replace", "replace stamp", "idle"}
      PROVE  RemovalInv'
    <2>1. Control' /\ Only(b) /\ work'[b].stage = stage /\ work'[b].sig = 0
        BY <1>2, <1>8, ToWork DEF RemovalInv
    <2>2. ~outlived => WorkFits(work[b])'
        BY <1>8, <2>1 DEF WorkFits
    <2>3. work'[b].sig <= version
        <3>1. work'[b].sig = 0
            BY <2>1
        <3> QED  BY <1>0, <3>1
    <2> QED  BY <1>2, <1>8, <2>1, <2>2, <2>3, WorkerStep
<1>9. {"idle", "replace", "replace stamp"} \subseteq WorkStages
    BY DEF WorkStages
<1>10. CASE To(b, "idle") /\ UNCHANGED disk
    BY <1>2, <1>10, WorkerStops DEF Publish
<1>11. CASE /\ work[b].stage = "copy" /\ To(b, After("copy"))
            /\ disk' = [disk EXCEPT !["ready"] = disk["staged"], !["ready stamp"] = disk["staged stamp"]]
    <2>1. To(b, "replace")
        BY <1>6, <1>11
    <2>2. /\ disk' \in [Files -> 0 .. version \cup {Absent}]
          /\ disk'["ready"] = disk["staged"] /\ disk'["ready stamp"] = disk["staged stamp"]
          /\ \A g \in Files \ {"ready", "ready stamp"} : disk'[g] = disk[g]
        BY <1>3, <1>4, <1>5, <1>11
    <2>3. ~outlived => HonestPairs /\ AtMost("stamp", "staged")
        BY <1>7, <1>11 DEF WorkFits
    <2>4. ~outlived => HonestPairs' /\ AtMost("stamp", "ready")' /\ AtMost("ready stamp", "ready")'
        BY <1>4, <2>2, <2>3 DEF HonestPairs, AtMost, Has
    <2> QED  BY <1>8, <1>9, <2>1, <2>2, <2>4
<1>12. CASE /\ work[b].stage = "replace" /\ To(b, After("replace"))
            /\ disk' = [disk EXCEPT !["data"] = disk["ready"], !["ready"] = Absent]
    <2>1. To(b, "replace stamp")
        BY <1>6, <1>12
    <2>2. /\ disk' \in [Files -> 0 .. version \cup {Absent}]
          /\ disk'["data"] = disk["ready"] /\ disk'["ready"] = Absent
          /\ \A g \in Files \ {"data", "ready"} : disk'[g] = disk[g]
        BY <1>3, <1>4, <1>5, <1>12
    <2>3. ~outlived => HonestPairs /\ AtMost("stamp", "ready") /\ AtMost("ready stamp", "ready")
        BY <1>7, <1>12 DEF WorkFits
    <2>4. ~outlived => HonestPairs' /\ AtMost("ready stamp", "data")'
        BY <1>4, <2>2, <2>3 DEF HonestPairs, AtMost, Has
    <2> QED  BY <1>8, <1>9, <2>1, <2>2, <2>4
<1>13. CASE /\ work[b].stage = "replace stamp" /\ To(b, After("replace stamp"))
            /\ disk' = [disk EXCEPT !["stamp"] = disk["ready stamp"], !["ready stamp"] = Absent]
    <2>1. To(b, "idle")
        BY <1>6, <1>13
    <2>2. /\ disk' \in [Files -> 0 .. version \cup {Absent}]
          /\ disk'["stamp"] = disk["ready stamp"] /\ disk'["ready stamp"] = Absent
          /\ \A g \in Files \ {"stamp", "ready stamp"} : disk'[g] = disk[g]
        BY <1>3, <1>4, <1>5, <1>13
    <2>3. ~outlived => HonestPairs /\ AtMost("ready stamp", "data")
        BY <1>7, <1>13 DEF WorkFits
    <2>4. ~outlived => HonestPairs'
        BY <1>4, <2>2, <2>3 DEF HonestPairs, AtMost, Has
    <2> QED  BY <1>8, <1>9, <2>1, <2>2, <2>4
<1> QED  BY <1>1, <1>10, <1>11, <1>12, <1>13 DEF Publish

-----------------------------------------------------------------------------
(* The files: the removal *)

LEMMA ForgetAccountKeeps ==
    ASSUME RemovalInv, Outlives, NEW b \in Bridges, ForgetAccount(b)
    PROVE  RemovalInv'
<1>1. UNCHANGED <<version, disk, listed, work>>
    BY DEF ForgetAccount, removeOnly
<1>2. /\ Control' /\ Only(b)
      /\ \/ removal'[b].stage = "idle"
         \/ /\ removal'[b].stage = "rows" /\ ~Working(b)
            /\ removal'[b].left = {f \in Files \ {"rows"} : Has(f)}
    BY ForgetAccountControl DEF RemovalInv
<1>3. InHand(b)'
    BY <1>1, <1>2 DEF InHand, Working, Has
<1> QED  BY <1>1, <1>2, <1>3, CalmStep DEF RemovalInv

\* A step of a removal that takes a file away.
LEMMA TakenAway ==
    ASSUME RemovalInv, Outlives, NEW b \in Bridges, Removing(b), Control', Only(b),
           UNCHANGED <<version, listed, work>>, ~outlived => InHand(b)',
           NEW f \in Files, disk' = [disk EXCEPT ![f] = Absent]
    PROVE  RemovalInv'
<1>1. Dated'
    BY DEF RemovalInv, Dated
<1>2. \A g \in Snapshots : disk'[g] = disk[g] \/ disk'[g] = Absent
    BY DEF RemovalInv, Dated, Files
<1>3. ~outlived => Honest'
    BY <1>2, HonestStays DEF RemovalInv
<1>4. ~outlived => \A c \in Bridges : InHand(c)'
    BY InHandStays DEF RemovalInv, Holds
<1> QED  BY <1>1, <1>3, <1>4, RemovalInvStep DEF RemovalInv

LEMMA ClearRowsKeeps ==
    ASSUME RemovalInv, Outlives, NEW b \in Bridges, ClearRows(b)
    PROVE  RemovalInv'
<1>1. UNCHANGED <<version, listed, work>> /\ Removing(b) /\ removal[b].stage = "rows"
    BY DEF ClearRows, Removing, removeOnly
<1>2. Control' /\ Only(b)
    BY ClearRowsControl DEF RemovalInv
<1>3. ~outlived => InHand(b)
    BY DEF RemovalInv
<1>4. CASE removal'[b].stage = "idle" /\ UNCHANGED disk
    BY <1>1, <1>2, <1>4, CalmRemoval
<1>5. ASSUME removal'[b].stage = "unlink", removal'[b].left = removal[b].left,
             removal'[b].again = removal[b].again,
             \/ disk' = [disk EXCEPT !["rows"] = Absent]
             \/ UNCHANGED disk /\ removal[b].again
      PROVE  RemovalInv'
    <2>1. "rows" \in Files /\ disk \in [Files -> 0 .. version \cup {Absent}]
        BY DEF RemovalInv, Dated, Files
    <2>2. ~outlived => InHand(b)'
        BY <1>1, <1>3, <1>5, <2>1 DEF InHand, Working, Has
    <2>3. CASE UNCHANGED disk
        BY <1>1, <1>2, <2>2, <2>3, CalmStep DEF RemovalInv
    <2>4. CASE disk' = [disk EXCEPT !["rows"] = Absent]
        BY <1>1, <1>2, <2>1, <2>2, <2>4, TakenAway
    <2> QED  BY <1>5, <2>3, <2>4
<1> QED  BY <1>4, <1>5, ClearRowsControl DEF RemovalInv

LEMMA UnlinkKeeps ==
    ASSUME RemovalInv, Outlives, NEW b \in Bridges, Unlink(b)
    PROVE  RemovalInv'
<1>1. UNCHANGED <<version, listed, work>> /\ Removing(b) /\ removal[b].stage = "unlink"
    BY DEF Unlink, Removing, removeOnly
<1>2. Control' /\ Only(b)
    BY UnlinkControl DEF RemovalInv
<1>3. ~outlived => InHand(b)
    BY DEF RemovalInv
<1>4. CASE removal'[b].stage = "idle" /\ UNCHANGED disk
    BY <1>1, <1>2, <1>4, CalmRemoval
<1>5. ASSUME NEW f \in Files, disk' = [disk EXCEPT ![f] = Absent], removal'[b].stage = "unlink",
             removal'[b].left = removal[b].left \ {f}, removal'[b].again = removal[b].again
      PROVE  RemovalInv'
    <2>1. disk \in [Files -> 0 .. version \cup {Absent}]
        BY DEF RemovalInv, Dated
    <2>2. \A g \in Files : Has(g)' => Has(g) /\ g # f
        BY <1>5, <2>1 DEF Has
    <2>3. "rows" \in Files
        BY DEF Files
    <2>4. ~outlived => InHand(b)'
        BY <1>1, <1>3, <1>5, <2>2, <2>3 DEF InHand, Working
    <2> QED  BY <1>1, <1>2, <1>5, <2>4, TakenAway
<1> QED  BY <1>4, <1>5, UnlinkControl DEF RemovalInv

LEMMA StrikeKeeps ==
    ASSUME RemovalInv, Outlives, NEW b \in Bridges, Strike(b)
    PROVE  RemovalInv'
<1>1. UNCHANGED <<version, disk>> /\ listed' = FALSE
    BY DEF Strike
<1>2. Control' /\ Only(b) /\ removal'[b].stage = "idle"
    BY StrikeControl DEF RemovalInv
<1>3. work'[b] = work[b] \/ (work'[b].stage = "idle" /\ work'[b].sig = 0)
    BY DEF Strike, To, Idle, RemovalInv, Control, RemovalTyped
<1>4. InHand(b)'
    BY <1>2 DEF InHand
<1> QED  BY <1>1, <1>2, <1>3, <1>4, CalmStep

LEMMA CrashKeeps ==
    ASSUME RemovalInv, Outlives, NEW b \in Bridges, Crash(b)
    PROVE  RemovalInv'
<1>1. UNCHANGED <<version, disk, listed>> /\ removal' = [removal EXCEPT ![b] = NoRemoval]
    BY DEF Crash, RemovalEnds
<1>2. Control' /\ Only(b) /\ work'[b] = Idle
    BY CrashControl DEF RemovalInv
<1>3. InHand(b)'
    BY <1>1 DEF InHand, RemovalInv, Control, RemovalTyped, NoRemoval
<1>4. Idle.stage = "idle" /\ Idle.sig = 0
    BY DEF Idle
<1> QED  BY <1>1, <1>2, <1>3, <1>4, CalmStep DEF RemovalInv

-----------------------------------------------------------------------------
(* The invariant *)

LEMMA InitRemovalInv ==
    ASSUME RemovalInit
    PROVE  RemovalInv
<1>1. PICK shows \in Bridges :
        bridge = [b \in Bridges |-> [Down EXCEPT !.up = TRUE, !.live = b = shows]]
    BY DEF RemovalInit
<1>2. \A b \in Bridges : /\ work[b] = Idle /\ removal[b] = NoRemoval
                         /\ Idle.stage = "idle" /\ Idle.sig = 0 /\ NoRemoval.stage = "idle"
    BY DEF RemovalInit, Idle, NoRemoval
<1>3. \A b \in Bridges : /\ bridge[b] \in BridgeRecord /\ bridge[b].up /\ ~bridge[b].cur
                         /\ ~bridge[b].marked /\ bridge[b].open /\ bridge[b].advisor = "open"
    BY <1>1 DEF Down, BridgeRecord
<1>4. RemovalTyped
    <2>1. bridge \in [Bridges -> BridgeRecord]
        <3>1. \A b \in Bridges : bridge[b] \in BridgeRecord
            BY <1>3
        <3> QED  BY <1>1, <3>1
    <2>2. work \in [Bridges -> WorkRecord] /\ removal \in [Bridges -> RemovalRecord]
        BY Records DEF RemovalInit
    <2> QED  BY <2>1, <2>2 DEF RemovalTyped
<1>5. Control
    BY <1>2, <1>3, <1>4 DEF Control, OneHolder, Holds, Removing, Blank, Fits, Locked
<1>6. version = 1 /\ disk = [f \in Files |-> Absent] /\ listed = FALSE /\ outlived = FALSE
    BY DEF RemovalInit
<1>7. Dated
    <2>1. version \in 1 .. MaxVersion
        BY <1>6, RemovalAssumption
    <2>2. disk \in [Files -> 0 .. version \cup {Absent}]
        BY <1>6
    <2>3. \A b \in Bridges : work[b].sig <= version
        <3>1. \A b \in Bridges : work[b].sig = 0
            BY <1>2
        <3> QED  BY <1>6, <3>1
    <2> QED  BY <2>1, <2>2, <2>3 DEF Dated
<1>8. \A f \in Files : ~Has(f)
    BY <1>6 DEF Has
<1>9. Honest
    BY <1>2, <1>8 DEF Honest, HonestPairs, AtMost, WorkFits, Files, Snapshots
<1>10. WorkIsHeld /\ \A b \in Bridges : InHand(b)
    BY <1>2 DEF WorkIsHeld, Working, InHand
<1> QED  BY <1>5, <1>6, <1>7, <1>9, <1>10 DEF RemovalInv

LEMMA NextRemovalInv ==
    ASSUME RemovalInv, [RemovalNext]_removalVars
    PROVE  RemovalInv'
<1>1. CASE UNCHANGED removalVars
    BY <1>1 DEF removalVars, RemovalInv, Control, RemovalTyped, OneHolder, Holds, Removing, Blank, Fits, Dated,
                WorkIsHeld, Working, Honest, HonestPairs, AtMost, WorkFits, Has, InHand
<1>2. CASE RemovalNext
    <2>1. Outlives
        BY <1>2 DEF RemovalNext, Outlives
    <2>2. CASE Change
        BY <2>1, <2>2, ChangeKeeps
    <2>3. ASSUME NEW b \in Bridges, Show(b)  PROVE RemovalInv'
        BY <2>1, <2>3, ShowControl, CalmBridge DEF Show, RemovalInv
    <2>4. ASSUME NEW b \in Bridges, OpenAccount(b)  PROVE RemovalInv'
        BY <2>1, <2>4, OpenAccountControl, CalmBridge DEF OpenAccount, RemovalInv
    <2>5. ASSUME NEW b \in Bridges, Leave(b)  PROVE RemovalInv'
        BY <2>1, <2>5, LeaveControl, CalmBridge DEF Leave, RemovalInv
    <2>6. ASSUME NEW b \in Bridges, Observe(b)  PROVE RemovalInv'
        BY <2>1, <2>6, ObserveControl, CalmBridge DEF Observe, Register, RemovalInv
    <2>7. ASSUME NEW b \in Bridges, NEW f \in Files, Use(b, f)  PROVE RemovalInv'
        BY <2>1, <2>7, UseKeeps
    <2>8. ASSUME NEW b \in Bridges, First(b)  PROVE RemovalInv'
        BY <2>1, <2>8, FirstKeeps
    <2>9. ASSUME NEW b \in Bridges, Build(b)  PROVE RemovalInv'
        BY <2>1, <2>9, BuildKeeps
    <2>10. ASSUME NEW b \in Bridges, Submit(b)  PROVE RemovalInv'
        BY <2>1, <2>10, SubmitKeeps
    <2>11. ASSUME NEW b \in Bridges, Stage(b)  PROVE RemovalInv'
        BY <2>1, <2>11, StageKeeps
    <2>12. ASSUME NEW b \in Bridges, Publish(b)  PROVE RemovalInv'
        BY <2>1, <2>12, PublishKeeps
    <2>13. ASSUME NEW b \in Bridges, Remove(b)  PROVE RemovalInv'
        BY <2>1, <2>13, RemoveControl, CalmRemoval DEF Remove, RemovalInv
    <2>14. ASSUME NEW b \in Bridges, PauseAdvisor(b)  PROVE RemovalInv'
        BY <2>1, <2>14, PauseAdvisorControl, CalmRemoval DEF PauseAdvisor, removeOnly, RemovalInv
    <2>15. ASSUME NEW b \in Bridges, Pause(b)  PROVE RemovalInv'
        BY <2>1, <2>15, PauseControl, CalmRemoval DEF Pause, removeOnly, RemovalInv
    <2>16. ASSUME NEW b \in Bridges, Mark(b)  PROVE RemovalInv'
        BY <2>1, <2>16, MarkControl, CalmRemoval DEF Mark, removeOnly, RemovalInv
    <2>17. ASSUME NEW b \in Bridges, TakeRegistry(b)  PROVE RemovalInv'
        BY <2>1, <2>17, TakeRegistryControl, CalmRemoval DEF TakeRegistry, removeOnly, RemovalInv
    <2>18. ASSUME NEW b \in Bridges, ForgetAccount(b)  PROVE RemovalInv'
        BY <2>1, <2>18, ForgetAccountKeeps
    <2>19. ASSUME NEW b \in Bridges, ClearRows(b)  PROVE RemovalInv'
        BY <2>1, <2>19, ClearRowsKeeps
    <2>20. ASSUME NEW b \in Bridges, Unlink(b)  PROVE RemovalInv'
        BY <2>1, <2>20, UnlinkKeeps
    <2>21. ASSUME NEW b \in Bridges, Strike(b)  PROVE RemovalInv'
        BY <2>1, <2>21, StrikeKeeps
    <2>22. ASSUME NEW b \in Bridges, Crash(b)  PROVE RemovalInv'
        BY <2>1, <2>22, CrashKeeps
    <2>23. ASSUME NEW b \in Bridges, Start(b)  PROVE RemovalInv'
        BY <2>1, <2>23, StartControl, CalmBridge DEF Start, RemovalInv
    <2> QED
        BY <1>2, <2>2, <2>3, <2>4, <2>5, <2>6, <2>7, <2>8, <2>9, <2>10, <2>11, <2>12, <2>13,
           <2>14, <2>15, <2>16, <2>17, <2>18, <2>19, <2>20, <2>21, <2>22, <2>23 DEF RemovalNext, Steps
<1> QED  BY <1>1, <1>2

\* In every reachable state one bridge at most holds the account, every stamp and every
\* worker keeps to what the files hold, and a removal has what is left in hand
\* (snapshot_cache.py, account_store.py, account_leases.py).
THEOREM RemovalInductive == RemovalSpec => []RemovalInv
<1>1. RemovalInit => RemovalInv
    BY InitRemovalInv
<1>2. RemovalInv /\ [RemovalNext]_removalVars => RemovalInv'
    BY NextRemovalInv
<1> QED  BY <1>1, <1>2, PTL DEF RemovalSpec

-----------------------------------------------------------------------------
(* The properties *)

LEMMA RemovalIsTyped ==
    ASSUME RemovalInv
    PROVE  RemovalTypeOK
<1>1. version \in 1 .. MaxVersion /\ disk \in [Files -> 0 .. MaxVersion \cup {Absent}]
    <2>1. version \in 1 .. MaxVersion /\ disk \in [Files -> 0 .. version \cup {Absent}]
        BY DEF RemovalInv, Dated
    <2>2. 0 .. version \subseteq 0 .. MaxVersion
        BY <2>1, RemovalAssumption
    <2> QED  BY <2>1, <2>2
<1>2. \A b \in Bridges : removal[b].left \subseteq Files
    BY DEF RemovalInv, Control, RemovalTyped, RemovalRecord
<1>3. Cardinality({b \in Bridges : Holds(b)}) <= 1
    <2> DEFINE H == {b \in Bridges : Holds(b)}
    <2>1. CASE H = {}
        <3>1. Cardinality(H) = 0
            BY <2>1, FS_EmptySet
        <3> QED  BY <3>1
    <2>2. ASSUME NEW b \in H  PROVE Cardinality(H) <= 1
        <3>1. H = {b}
            BY DEF RemovalInv, Control, OneHolder
        <3>2. Cardinality({b}) = 1
            BY FS_Singleton
        <3>3. Cardinality(H) = 1
            BY <3>1, <3>2
        <3> QED  BY <3>3
    <2> QED  BY <2>1, <2>2
<1> QED  BY <1>1, <1>2, <1>3 DEF RemovalTypeOK

LEMMA StampsMatch ==
    ASSUME RemovalInv
    PROVE  StampIsHonest
BY RemovalIsTyped DEF RemovalInv, StampIsHonest, Honest, HonestPairs, AtMost

\* A stamp never claims a newer state of the source than its data holds, whenever a
\* refresh or a first build ends, fails or crashes, and one bridge at most holds the
\* account (snapshot_cache.py, _refresh, _open).
THEOREM StampsAreHonest == RemovalSpec => []StampIsHonest
BY RemovalInductive, StampsMatch, PTL

\* A bridge whose removal has ended serves, its Advisor too, and no mark forbids its
\* recovery, unless a drain, the resume, the removal of the mark or a shutdown failed
\* (account_api.py, _delete_owned; backend_service.py, resume_after_failed_account_clear).
THEOREM FailuresLeaveNoMark == RemovalSpec => []FailureLeavesNoMark
<1>1. ASSUME RemovalInv  PROVE FailureLeavesNoMark
    <2> SUFFICES ASSUME NEW b \in Bridges, ~Removing(b)
                 PROVE  /\ bridge[b].open \/ FailedTo(b, {"drain", "resume", "shutdown"})
                        /\ bridge[b].marked => FailedTo(b, {"resume", "unmark", "shutdown"})
                        /\ bridge[b].advisor # "paused"
        BY DEF FailureLeavesNoMark
    <2>1. Fits(bridge[b], removal[b]) /\ removal[b].stage = "idle"
        BY <1>1 DEF RemovalInv, Control, Removing
    <2> QED  BY <2>1 DEF Fits, Locked, FailedTo
<1> QED  BY <1>1, RemovalInductive, PTL

\* Only the last step of a removal takes the entry away.
LEMMA OnlyStrikeUnlists ==
    ASSUME listed, ~listed', RemovalNext
    PROVE  \E b \in Bridges : Strike(b)
BY DEF RemovalNext, Steps, Change, Show, OpenAccount, Leave, Observe, Register, Use, First, Build, Submit,
       Stage, Publish, workOnly, Remove, PauseAdvisor, Pause, Mark, TakeRegistry, ForgetAccount,
       ClearRows, Unlink, removeOnly, Crash, Start

\* The entry of an account goes last: when it is struck nothing of the account is left,
\* and nobody is writing more (account_store.py, delete).
THEOREM EntriesGoLast == RemovalSpec => EntryGoesLast
<1>1. ASSUME RemovalInv, [RemovalNext]_removalVars, listed, ~listed', ~outlived
      PROVE  /\ \A f \in Files \ {"rows"} : disk'[f] = Absent
             /\ disk'["rows"] = Absent \/ \E b \in Bridges : removal[b].again
             /\ \A b \in Bridges : work'[b].stage = "idle"
    <2>1. PICK b \in Bridges : Strike(b)
        BY <1>1, OnlyStrikeUnlists DEF removalVars
    <2>2. removal[b].stage = "unlink" /\ removal[b].left = {} /\ UNCHANGED disk
        BY <2>1 DEF Strike
    <2>3. InHand(b) /\ WorkIsHeld
        BY <1>1 DEF RemovalInv
    <2>4. \A f \in Files \ {"rows"} : disk'[f] = Absent
        BY <2>2, <2>3 DEF InHand, Has
    <2>5. disk'["rows"] = Absent \/ removal[b].again
        BY <2>2, <2>3 DEF InHand, Has
    <2>6. ASSUME NEW c \in Bridges  PROVE work'[c].stage = "idle"
        <3>1. ~Working(c)
            BY <1>1, <2>2, <2>3 DEF InHand, WorkIsHeld, RemovalInv, Control, OneHolder, Holds, Removing
        <3> QED  BY <1>1, <2>1, <3>1, StrikeControl DEF Working, RemovalInv
    <2> QED  BY <2>4, <2>5, <2>6
<1>2. RemovalInv /\ [RemovalNext]_removalVars =>
        [listed /\ ~listed' /\ ~outlived =>
            /\ \A f \in Files \ {"rows"} : disk'[f] = Absent
            /\ disk'["rows"] = Absent \/ \E b \in Bridges : removal[b].again
            /\ \A b \in Bridges : work'[b].stage = "idle"]_removalVars
    BY <1>1
<1> QED  BY <1>2, RemovalInductive, PTL DEF RemovalSpec, EntryGoesLast

=============================================================================
