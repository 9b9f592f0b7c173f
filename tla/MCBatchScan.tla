----------------------------- MODULE MCBatchScan -----------------------------
(* Four rows.  A chat that was never analysed, where a long text of the      *)
(* subject and a long text of somebody else lie next to short ones; and one  *)
(* the older analysis has read to the end, but for two quoted replies.       *)
EXTENDS BatchScan

Nothing == [known |-> {}, bare |-> {}, cur |-> 0, complete |-> FALSE, skip |-> 0]
NewChat == [mine |-> {1, 2, 4}, rest |-> {3}, long |-> {2, 3}, quoted |-> {}, images |-> {},
            first |-> {1, 2, 4}, prior |-> Nothing]
OldChat == [mine |-> {1, 2, 4}, rest |-> {3}, long |-> {2, 3}, quoted |-> {2, 3}, images |-> {},
            first |-> {1, 2, 3}, prior |-> [known |-> {1}, bare |-> {1}, cur |-> 3, complete |-> TRUE, skip |-> 0]]
MCJudge == [p \in 1..4 |-> p % 2]
MCChats == {NewChat, OldChat}

(* A reset of the old chat is followed while its history has not changed. *)
ResetFirst == chat.quoted # {} /\ chat.prior = Nothing => rev = 0
=============================================================================
