--------------------------- MODULE MCCleanupApply ---------------------------
(* Small plans and requests for the model checker. *)
EXTENDS ApplyRefinement, TLC

CONSTANTS j1, j2

MCRow(kind, a, risk, g) ==
    [kind |-> kind, acct |-> a, risk |-> risk, group |-> g, status |-> "pending",
     parent |-> 0, mail |-> 0, by |-> NoJob]

MCPlan(list) == [s \in Seqs |-> IF s \in DOMAIN list THEN list[s] ELSE NoRow]

\* One account, a row of every risk and a predicate whose children come in two
\* pages.  As the builder orders them, rows come before predicates.
PlanOne == MCPlan(<<MCRow("row", 1, "low", NoGroup),
                    MCRow("row", 1, "high", NoGroup),
                    MCRow("pred", 1, "medium", "news")>>)

\* Two accounts: rows of two risks, and a predicate.
PlanTwo == MCPlan(<<MCRow("row", 1, "low", NoGroup),
                    MCRow("row", 1, "high", NoGroup),
                    MCRow("pred", 2, "medium", "news")>>)

MailOne == <<2>>
MailTwo == <<0, 1>>

Request(max, high, medium) == [riskMax |-> max, ackHigh |-> high, ackMedium |-> medium]

RequestsAck == {Request("high", {2}, {"news"}), Request("high", {}, {})}
RequestsTwo == {Request("medium", {}, {}), Request("high", {2}, {"news"})}
RequestsLow == {Request("low", {}, {})}

JobSymmetry == Permutations(Jobs)
=============================================================================
