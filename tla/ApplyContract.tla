--------------------------- MODULE ApplyContract ----------------------------
(***************************************************************************)
(* What the apply phase promises the user who confirms a cleanup plan: the *)
(* abstract specification CleanupApply implements.  A job is begun with a  *)
(* request, performs items of the plan the request permits, each at most   *)
(* once, and ends with a tally that claims no more than it performed.      *)
(* Workers, pages, audit rows and channels are not seen here.              *)
(***************************************************************************)
EXTENDS Integers, FiniteSets

CONSTANTS
    Jobs,
    Seqs,           \* numbers an item of the plan may have
    Requests,       \* [riskMax, ackHigh, ackMedium]
    NoGroup,
    NoItem

VARIABLES
    plan,           \* the items: risk and acknowledgement group, by seq
    status,         \* what the user is told of each job
    request,        \* the request each job was begun with
    performed,      \* the items each job performed
    asked,          \* jobs the user asked to cancel
    tally           \* what each ended job claims to have applied

contractVars == <<plan, status, request, performed, asked, tally>>

Covers(max, risk) ==
    \/ risk = "low"
    \/ risk = "medium" /\ max \in {"medium", "high"}
    \/ risk = "high" /\ max = "high"

\* The request covers the risk of the item and acknowledges it.
Permits(r, s) ==
    /\ Covers(r.riskMax, plan[s].risk)
    /\ plan[s].risk = "high" => s \in r.ackHigh
    /\ plan[s].risk = "medium" => plan[s].group \in r.ackMedium \cup {NoGroup}

Items == {s \in Seqs : plan[s] # NoItem}

ContractInit ==
    /\ status = [j \in Jobs |-> "none"]
    /\ request = [j \in Jobs |-> NoItem]
    /\ performed = [j \in Jobs |-> {}]
    /\ asked = {}
    /\ tally = [j \in Jobs |-> 0]

Begin(j) ==
    /\ status[j] = "none"
    /\ status' = [status EXCEPT ![j] = "running"]
    /\ \E r \in Requests : request' = [request EXCEPT ![j] = r]
    /\ UNCHANGED <<plan, performed, asked, tally>>

\* A predicate gives way to messages: items are added under the risk and the
\* group of an item the user saw, and none is taken away.
Materialise ==
    /\ \E s \in Items : \A t \in Seqs :
          IF t \in Items THEN plan'[t] = plan[t] ELSE plan'[t] \in {NoItem, plan[s]}
    /\ plan' # plan
    /\ UNCHANGED <<status, request, performed, asked, tally>>

Perform(j, s) ==
    /\ status[j] = "running" /\ s \in Items \ performed[j] /\ Permits(request[j], s)
    /\ performed' = [performed EXCEPT ![j] = @ \cup {s}]
    /\ UNCHANGED <<plan, status, request, asked, tally>>

Ask(j) ==
    /\ status[j] # "none"
    /\ asked' = asked \cup {j}
    /\ UNCHANGED <<plan, status, request, performed, tally>>

\* A restart forgets what was asked; a job that ran then ends no more.
Forget ==
    /\ asked' = {}
    /\ UNCHANGED <<plan, status, request, performed, tally>>

\* A job says cancelled only when the user asked for it.
End(j) ==
    /\ status[j] = "running"
    /\ \E end \in {"finished", "failed", "cancelled"} :
          /\ end = "cancelled" => j \in asked
          /\ status' = [status EXCEPT ![j] = end]
    /\ tally' \in {[tally EXCEPT ![j] = n] : n \in 0..Cardinality(performed[j])}
    /\ UNCHANGED <<plan, request, performed, asked>>

ContractNext ==
    \/ Materialise \/ Forget
    \/ \E j \in Jobs : Begin(j) \/ Ask(j) \/ End(j) \/ \E s \in Seqs : Perform(j, s)

ContractSpec == ContractInit /\ [][ContractNext]_contractVars
=============================================================================
