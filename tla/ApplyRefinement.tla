-------------------------- MODULE ApplyRefinement ---------------------------
(***************************************************************************)
(* The apply phase, refresh apart, implements ApplyContract: the user sees *)
(* the job row, and the history of the provider calls is what was          *)
(* performed.                                                              *)
(***************************************************************************)
EXTENDS CleanupApply

\* NoRow is no item either.
ASSUME NoItemAssumption == NoRow \notin [risk : Risks, group : Groups \cup {NoGroup}]

ItemOf(r) == IF r = NoRow THEN NoRow ELSE [risk |-> r.risk, group |-> r.group]

\* What the user sees: the plan, the job rows, and the provider calls made.
PlanSeen      == [s \in Seqs |-> ItemOf(rows[s])]
StatusSeen    == [j \in Jobs |-> jobRow[j].state]
RequestSeen   == [j \in Jobs |-> IF jobRow[j].state = "none" THEN NoRow ELSE opts[j]]
PerformedSeen == [j \in Jobs |-> {s \in Seqs : \E a \in Accounts : sent[<<j, a>>][s] > 0}]
TallySeen     == [j \in Jobs |-> jobRow[j].counts["applied"]]

Contract == INSTANCE ApplyContract WITH
    Requests  <- OptionSets,
    NoItem    <- NoRow,
    plan      <- PlanSeen,
    status    <- StatusSeen,
    request   <- RequestSeen,
    performed <- PerformedSeen,
    asked     <- cancelled,
    tally     <- TallySeen

\* Whatever its tasks do in between, and across a crash, a job does for the user
\* no more than the request permits, does it once, and claims no more than it did.
ImplementsContract == Contract!ContractSpec
=============================================================================
