--------------------------- MODULE MCWeChatReader ---------------------------
(* Two accounts and two WeChat processes; one account has the keys of its   *)
(* first databases saved, the other must be scanned.                        *)
EXTENDS WeChatReader, TLC

CONSTANTS a1, a2

MCSaved == {[acct |-> a1, part |-> "anchors", ver |-> 1], [acct |-> a1, part |-> "shards", ver |-> 1]}

MCShards == (a1 :> {1}) @@ (a2 :> {0, 1})
MCShared == {a2}
MCPins == {None, a2}

ReaderSymmetry == Permutations(Procs) \cup Permutations(Tasks)

\* Nothing begins any more once the source is closed.
\* Two scans run beside one task, and one scan beside two.
Serving ==
    /\ src.closed => src.db # None \/ src.held # None \/ op # None
    /\ Cardinality(scans) > 1 => \E t \in Tasks : task[t] = NoTask /\ (op = None \/ op.task # t)

=============================================================================
