---------------------------- MODULE MCApiInsights ----------------------------
(* Instances of ApiInsights and ApiGuidance for TLC. *)
EXTENDS ApiGuidance, FiniteSetsExt, TLC

\* Switches, cache clears, conversation resets, drains and edits so far.
Disturbances ==
    revision + settings + MapThenSumSet(LAMBDA s : sourceEpoch[s] + scopeEpoch[s], Sources)
        + (IF drain = "open" THEN 0 ELSE 1)

InsightRequests == {j \in Jobs : pc[j] # "unused"}
GuidanceRequests == {g \in Guidances : guidancePc[g] # "unused"}

\* Bound: two requests and one disturbance.  Requests of both kinds together meet
\* the drain only, the one place where the kinds meet, and an edit meets guidance
\* only.  Only the actions that begin a request or a disturbance can leave the
\* bound, and no fairness asks for those, so what the bound cuts off is never owed.
OneDisturbance ==
    /\ Disturbances <= 1
    /\ Cardinality(InsightRequests) + Cardinality(GuidanceRequests) <= 2
    /\ InsightRequests # {} /\ GuidanceRequests # {} => (drain = "open" => Disturbances = 0)
    /\ settings > 0 => InsightRequests = {}

=============================================================================
