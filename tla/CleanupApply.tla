---------------------------- MODULE CleanupApply ----------------------------
(***************************************************************************)
(* The apply phase of a cleanup plan: ApplyOrchestrator (one driver task   *)
(* per job), one AccountWorker task per job and account, the plan and job  *)
(* tables they share, and the two plan handlers that race with them        *)
(* (cancel the plan, refresh one account).                                 *)
(*                                                                         *)
(* Every await of the code that another task can be scheduled at is the    *)
(* boundary of an action.  Rows are numbered by their seq; an absent seq   *)
(* holds NoRow.  The accounts are numbered in the order of the BTreeMap    *)
(* the driver spawns and joins its workers from.                           *)
(***************************************************************************)
EXTENDS Integers, FiniteSets

CONSTANTS
    NumAccounts,    \* accounts of the plan
    Jobs,           \* job ids that may be minted
    MaxSeq,         \* bound: highest seq the operations table can hold
    InitialRows,    \* the plan as saved by create_plan
    MailCount,      \* messages list_by_account returns, per account
    PageSize,       \* expansion page (1000 in the code)
    ListLimit,      \* clamp of list_operations (1000 in the code)
    OptionSets,     \* the apply requests that may be posted
    Faults,         \* storage and provider faults of this instance
    MaxCrashes,     \* bound: process crashes
    MayRefresh,     \* whether refresh_account is called at all
    Groups,         \* medium acknowledgement groups
    NoGroup, NoRow, NoJob

Accounts == 1..NumAccounts
Seqs     == 1..MaxSeq
Workers  == Jobs \X Accounts
Risks    == {"low", "medium", "high"}

RowStatus == {"pending", "applied", "failed", "skipped", "expanding", "expanded"}

\* kind: a materialized row or a predicate.  parent, mail and by are set on the
\* children of an expansion: the predicate's seq, the message and the job.
Row == [kind : {"row", "pred"}, acct : Accounts, risk : Risks,
        group : Groups \cup {NoGroup}, status : RowStatus,
        parent : 0..MaxSeq, mail : Nat, by : Jobs \cup {NoJob}]

Table == [Seqs -> Row \cup {NoRow}]

Options == [riskMax : Risks, ackHigh : SUBSET Seqs, ackMedium : SUBSET Groups]

CountFields == {"applied", "failed", "skipped", "pending"}
Counts      == [CountFields -> Nat]
ZeroCounts  == [f \in CountFields |-> 0]

FaultKinds == {"create", "update", "list", "append", "expand", "persist", "paused", "reject"}

ASSUME ConstantsAssumption ==
    /\ NumAccounts \in Nat /\ MaxSeq \in Nat /\ MaxCrashes \in Nat
    /\ PageSize \in Nat \ {0} /\ ListLimit \in Nat \ {0}
    /\ NoRow \notin Row /\ NoGroup \notin Groups /\ NoJob \notin Jobs
    /\ InitialRows \in Table
    /\ MailCount \in [Accounts -> Nat]
    /\ OptionSets \subseteq Options
    /\ Faults \subseteq FaultKinds
    /\ MayRefresh \in BOOLEAN

\* build_plan numbers the rows from 1 without a gap and saves every one of them
\* pending; children of an expansion come later.
ASSUME SavedPlanAssumption ==
    \A s \in Seqs : InitialRows[s] # NoRow =>
        /\ InitialRows[s].status = "pending" /\ InitialRows[s].by = NoJob
        /\ \A t \in 1..s : InitialRows[t] # NoRow

VARIABLES
    planStatus,   \* cleanup_plans.status
    rows,         \* cleanup_plan_operations, by seq
    jobRow,       \* cleanup_apply_jobs: state and counts
    audit,        \* cleanup_audit rows
    channels,     \* keys of ApplyOrchestrator::job_channels
    cancelled,    \* jobs whose CancellationToken is cancelled
    opts,         \* the options each job was begun with
    accts,        \* accounts that got a worker, per job
    driver,       \* where the handler, then the driver task, of a job is
    joined,       \* workers the driver has awaited so far
    combined,     \* the driver's merged counts
    anyFailed,    \* some worker ended in an error
    outcome,      \* the terminal state the driver decided
    pc,           \* where a worker is
    todo,         \* rows a worker loaded and has not finished with
    page, base,   \* expansion page and first seq of the block to append
    counts,       \* per-worker counts
    refreshing,   \* the account refresh_account was cleared to delete, or 0
    crashes,
    sent,         \* history: provider calls a worker made that succeeded
    paused        \* history: workers that stopped on AccountPaused

planVars    == <<planStatus, rows>>
driverVars  == <<jobRow, channels, opts, accts, driver, joined, combined,
                 anyFailed, outcome>>
workerVars  == <<pc, todo, page, base, counts>>
historyVars == <<sent, paused>>
vars == <<planVars, driverVars, workerVars, historyVars, audit, cancelled,
          refreshing, crashes>>

-----------------------------------------------------------------------------
(* Helpers *)

Present(t) == {s \in Seqs : t[s] # NoRow}

\* The first n members of a set of seqs.
FirstN(S, n) == {s \in S : Cardinality({t \in S : t < s}) < n}

\* Mutant: the cursor starts at the first row instead of before it.
ListOperationsPastFirst(a) ==
    LET S == FirstN({s \in Present(rows) : rows[s].acct = a /\ s > 1}, ListLimit)
    IN  [s \in Seqs |-> IF s \in S THEN rows[s] ELSE NoRow]

\* list_operations: the rows of the account in seq order, at most ListLimit.
ListOperations(a) ==
    LET S == FirstN({s \in Present(rows) : rows[s].acct = a}, ListLimit)
    IN  [s \in Seqs |-> IF s \in S THEN rows[s] ELSE NoRow]

\* RiskMax::includes
Includes(max, risk) ==
    CASE max = "low"    -> risk = "low"
      [] max = "medium" -> risk \in {"low", "medium"}
      [] max = "high"   -> TRUE

\* load: the whole plan through the same clamped query.
LoadedPlan == FirstN(Present(rows), ListLimit)

\* The accounts with a loaded row of a risk the request includes.
AccountsInReach(o) ==
    {rows[s].acct : s \in {t \in LoadedPlan : Includes(o.riskMax, rows[t].risk)}}

EmptyTable == [s \in Seqs |-> NoRow]

Lowest(S) == CHOOSE s \in S : \A t \in S : s <= t

\* max_seq: MAX(seq), 0 for an empty table.
MaxUsed == IF Present(rows) = {} THEN 0
           ELSE CHOOSE s \in Present(rows) : \A t \in Present(rows) : t <= s

\* The acknowledgement gates of AccountWorker::run.
Acknowledged(o, s, r) ==
    /\ r.risk = "high" => s \in o.ackHigh
    /\ r.risk = "medium" => r.group = NoGroup \/ r.group \in o.ackMedium

Allows(o, s, r) == Includes(o.riskMax, r.risk) /\ Acknowledged(o, s, r)

\* update_operation_status writes by (plan, seq), whatever row holds the seq.
WithStatus(s, st) ==
    IF rows[s] = NoRow THEN rows ELSE [rows EXCEPT ![s].status = st]

\* update_predicate_status also requires op_kind = 'predicate'.
WithPredicateStatus(s, st) ==
    IF rows[s] = NoRow THEN rows
    ELSE IF rows[s].kind # "pred" THEN rows
    ELSE [rows EXCEPT ![s].status = st]

MergeCounts(x, y) == [f \in CountFields |-> x[f] + y[f]]

\* is_running_for_plan: some channel, and some persisted row still running.
IsRunningForPlan ==
    channels # {} /\ \E j \in Jobs : jobRow[j].state = "running"

-----------------------------------------------------------------------------
Init ==
    /\ planStatus = "ready"
    /\ rows = InitialRows
    /\ jobRow = [j \in Jobs |-> [state |-> "none", counts |-> ZeroCounts]]
    /\ audit = {}
    /\ channels = {}
    /\ cancelled = {}
    /\ opts = [j \in Jobs |-> [riskMax |-> "low", ackHigh |-> {}, ackMedium |-> {}]]
    /\ accts = [j \in Jobs |-> {}]
    /\ driver = [j \in Jobs |-> "none"]
    /\ joined = [j \in Jobs |-> {}]
    /\ combined = [j \in Jobs |-> ZeroCounts]
    /\ anyFailed = [j \in Jobs |-> FALSE]
    /\ outcome = [j \in Jobs |-> "none"]
    /\ pc = [w \in Workers |-> "idle"]
    /\ todo = [w \in Workers |-> EmptyTable]
    /\ page = [w \in Workers |-> 0]
    /\ base = [w \in Workers |-> 0]
    /\ counts = [w \in Workers |-> ZeroCounts]
    /\ refreshing = 0
    /\ crashes = 0
    /\ sent = [w \in Workers |-> [s \in Seqs |-> 0]]
    /\ paused = {}

-----------------------------------------------------------------------------
(* The plan handlers and ApplyOrchestrator::begin_apply, cancel *)

\* api::begin_apply loads the plan; the status gate looks at that copy.  The
\* accounts with a row the job may touch are the ones that get a worker.
LoadPlan(j) ==
    /\ driver[j] = "none"
    /\ \E o \in OptionSets :
          /\ opts' = [opts EXCEPT ![j] = o]
          /\ \/ accts' = [accts EXCEPT ![j] = AccountsInReach(o)]
             \/ "list" \in Faults /\ UNCHANGED accts
    /\ driver' = [driver EXCEPT ![j] =
          IF planStatus = "ready" THEN "loaded" ELSE "refused"]
    /\ UNCHANGED <<planVars, jobRow, channels, joined, combined, anyFailed, outcome,
                   workerVars, historyVars, audit, cancelled, refreshing, crashes>>

\* The TTL gate or the drift gate (hard drift on some account) says no.
RefuseApply(j) ==
    /\ driver[j] = "loaded"
    /\ driver' = [driver EXCEPT ![j] = "refused"]
    /\ UNCHANGED <<planVars, jobRow, channels, opts, accts, joined, combined, anyFailed,
                   outcome, workerVars, historyVars, audit, cancelled, refreshing, crashes>>

\* The channel is registered before the job row is written.
RegisterChannel(j) ==
    /\ driver[j] = "loaded"
    /\ channels' = channels \cup {j}
    /\ driver' = [driver EXCEPT ![j] = "registered"]
    /\ UNCHANGED <<planVars, jobRow, opts, accts, joined, combined, anyFailed, outcome,
                   workerVars, historyVars, audit, cancelled, refreshing, crashes>>

\* job_repo.create, then the driver and its workers are spawned.
CreateJob(j) ==
    /\ driver[j] = "registered"
    /\ jobRow' = [jobRow EXCEPT ![j].state = "running"]
    /\ driver' = [driver EXCEPT ![j] = "running"]
    /\ pc' = [w \in Workers |-> IF w[1] = j /\ w[2] \in accts[j] THEN "load" ELSE pc[w]]
    /\ UNCHANGED <<planVars, channels, opts, accts, joined, combined, anyFailed, outcome,
                   todo, page, base, counts, historyVars, audit, cancelled, refreshing,
                   crashes>>

\* job_repo.create fails: the `?` leaves the handler with the channel in place.
CreateJobFails(j) ==
    /\ "create" \in Faults
    /\ driver[j] = "registered"
    /\ driver' = [driver EXCEPT ![j] = "createFailed"]
    /\ UNCHANGED <<planVars, jobRow, channels, opts, accts, joined, combined, anyFailed,
                   outcome, workerVars, historyVars, audit, cancelled, refreshing, crashes>>

\* Mutant: cancel also writes the job row, ahead of the driver.
CancelApplyWritesRow(j) ==
    /\ j \in channels \ cancelled
    /\ driver[j] \in {"running", "decided", "persisted"}
    /\ cancelled' = cancelled \cup {j}
    /\ jobRow' = [jobRow EXCEPT ![j].state = "cancelled"]
    /\ UNCHANGED <<planVars, channels, opts, accts, driver, joined, combined, anyFailed,
                   outcome, workerVars, historyVars, audit, refreshing, crashes>>

\* POST /apply/:jobId/cancel; a client knows the id once begin_apply returned it.
CancelApply(j) ==
    /\ j \in channels \ cancelled
    /\ driver[j] \in {"running", "decided", "persisted"}
    /\ cancelled' = cancelled \cup {j}
    /\ UNCHANGED <<planVars, driverVars, workerVars, historyVars, audit, refreshing, crashes>>

\* DELETE /plan/:id; unconditional, and a running job does not look again.
CancelPlan ==
    /\ planStatus # "cancelled"
    /\ planStatus' = "cancelled"
    /\ UNCHANGED <<rows, driverVars, workerVars, historyVars, audit, cancelled, refreshing,
                   crashes>>

\* POST /plan/:id/refresh: the check, and later the delete.
RefreshCheck(a) ==
    /\ MayRefresh
    /\ refreshing = 0
    /\ ~IsRunningForPlan
    /\ refreshing' = a
    /\ UNCHANGED <<planVars, driverVars, workerVars, historyVars, audit, cancelled, crashes>>

\* replace_account_rows(plan, account, []).
RefreshDelete ==
    /\ refreshing # 0
    /\ rows' = [s \in Seqs |-> IF rows[s] # NoRow /\ rows[s].acct = refreshing
                               THEN NoRow ELSE rows[s]]
    /\ refreshing' = 0
    /\ UNCHANGED <<planStatus, driverVars, workerVars, historyVars, audit, cancelled, crashes>>

-----------------------------------------------------------------------------
(* The driver task *)

\* Mutant: a worker that ended in an error is never awaited.
JoinWorkerOnlyOk(j) ==
    /\ driver[j] = "running"
    /\ accts[j] \ joined[j] # {}
    /\ LET a == Lowest(accts[j] \ joined[j])
       IN  /\ pc[<<j, a>>] = "ok"
           /\ joined' = [joined EXCEPT ![j] = @ \cup {a}]
           /\ combined' = [combined EXCEPT ![j] = MergeCounts(@, counts[<<j, a>>])]
    /\ UNCHANGED <<planVars, jobRow, channels, opts, accts, driver, anyFailed, outcome,
                   workerVars, historyVars, audit, cancelled, refreshing, crashes>>

\* `for h in handles { match h.await }`: workers are awaited in account order.
JoinWorker(j) ==
    /\ driver[j] = "running"
    /\ accts[j] \ joined[j] # {}
    /\ LET a == Lowest(accts[j] \ joined[j])
           w == <<j, a>>
       IN  /\ pc[w] \in {"ok", "err"}
           /\ joined' = [joined EXCEPT ![j] = @ \cup {a}]
           /\ combined' = IF pc[w] = "ok"
                          THEN [combined EXCEPT ![j] = MergeCounts(@, counts[w])]
                          ELSE combined
           /\ anyFailed' = [anyFailed EXCEPT ![j] = @ \/ pc[w] = "err"]
    /\ UNCHANGED <<planVars, jobRow, channels, opts, accts, driver, outcome, workerVars,
                   historyVars, audit, cancelled, refreshing, crashes>>

\* Mutant: the driver does not wait for its workers.
DecideOutcomeAtOnce(j) ==
    /\ driver[j] = "running"
    /\ outcome' = [outcome EXCEPT ![j] = "finished"]
    /\ driver' = [driver EXCEPT ![j] = "decided"]
    /\ UNCHANGED <<planVars, jobRow, channels, opts, accts, joined, combined, anyFailed,
                   workerVars, historyVars, audit, cancelled, refreshing, crashes>>

\* The terminal state, from the cancel token as it is now.
DecideOutcome(j) ==
    /\ driver[j] = "running"
    /\ accts[j] \subseteq joined[j]
    /\ outcome' = [outcome EXCEPT ![j] =
          IF j \in cancelled THEN "cancelled"
          ELSE IF anyFailed[j] /\ combined[j]["applied"] = 0 THEN "failed"
          ELSE "finished"]
    /\ driver' = [driver EXCEPT ![j] = "decided"]
    /\ UNCHANGED <<planVars, jobRow, channels, opts, accts, joined, combined, anyFailed,
                   workerVars, historyVars, audit, cancelled, refreshing, crashes>>

\* job_repo.update_state; its error is discarded (`let _ =`).
PersistOutcome(j) ==
    /\ driver[j] = "decided"
    /\ \/ jobRow' = [jobRow EXCEPT ![j] = [state |-> outcome[j], counts |-> combined[j]]]
       \/ "persist" \in Faults /\ UNCHANGED jobRow
    /\ driver' = [driver EXCEPT ![j] = "persisted"]
    /\ UNCHANGED <<planVars, channels, opts, accts, joined, combined, anyFailed, outcome,
                   workerVars, historyVars, audit, cancelled, refreshing, crashes>>

\* Finished is emitted and the channel removed from the map.
DropChannel(j) ==
    /\ driver[j] = "persisted"
    /\ channels' = channels \ {j}
    /\ driver' = [driver EXCEPT ![j] = "done"]
    /\ UNCHANGED <<planVars, jobRow, opts, accts, joined, combined, anyFailed, outcome,
                   workerVars, historyVars, audit, cancelled, refreshing, crashes>>

-----------------------------------------------------------------------------
(* AccountWorker::run *)

Head(w) == Lowest(Present(todo[w]))      \* the row the loop is at
Item(w) == todo[w][Head(w)]              \* ... as it was when the worker loaded it

\* Mutant: the index is not moved on.
AdvanceForgotten(w) == UNCHANGED todo

\* The rest of the row's iteration left nothing to do: on to the next one.
Advance(w) == todo' = [todo EXCEPT ![w][Head(w)] = NoRow]

\* Mutant: every outcome also takes one off a pending count that starts at zero.
BumpTakesPending(w, field) ==
    counts' = [counts EXCEPT ![w][field] = @ + 1, ![w]["pending"] = @ - 1]

Bump(w, field) == counts' = [counts EXCEPT ![w][field] = @ + 1]

Goto(w, label) == pc' = [pc EXCEPT ![w] = label]

\* list_operations, once; a query error reads as an empty list.
LoadRows(w) ==
    /\ pc[w] = "load"
    /\ \/ todo' = [todo EXCEPT ![w] = ListOperations(w[2])]
       \/ "list" \in Faults /\ UNCHANGED todo
    /\ Goto(w, "loop")
    /\ UNCHANGED <<planVars, driverVars, page, base, counts, historyVars, audit, cancelled,
                   refreshing, crashes>>

AtRow(w) == pc[w] = "loop" /\ Present(todo[w]) # {} /\ w[1] \notin cancelled

\* No row is left.
FinishWorker(w) ==
    /\ pc[w] = "loop" /\ Present(todo[w]) = {}
    /\ Goto(w, "ok")
    /\ UNCHANGED <<planVars, driverVars, todo, page, base, counts, historyVars, audit,
                   cancelled, refreshing, crashes>>

\* The token is looked at before every row.
StopCancelled(w) ==
    /\ pc[w] = "loop" /\ Present(todo[w]) # {} /\ w[1] \in cancelled
    /\ Goto(w, "err")
    /\ UNCHANGED <<planVars, driverVars, todo, page, base, counts, historyVars, audit,
                   cancelled, refreshing, crashes>>

\* Above risk_max: counted as pending, left alone.
LeavePending(w) ==
    /\ AtRow(w)
    /\ ~Includes(opts[w[1]].riskMax, Item(w).risk)
    /\ Advance(w)
    /\ Bump(w, "pending")
    /\ UNCHANGED <<planVars, driverVars, pc, page, base, historyVars, audit, cancelled,
                   refreshing, crashes>>

\* Not acknowledged: the row is written as skipped, whatever its status was.
SkipRow(w) ==
    /\ AtRow(w)
    /\ Includes(opts[w[1]].riskMax, Item(w).risk)
    /\ ~Acknowledged(opts[w[1]], Head(w), Item(w))
    /\ \/ /\ rows' = WithStatus(Head(w), "skipped")
          /\ Goto(w, "auditSkipped")
          /\ Bump(w, "skipped")
       \/ /\ "update" \in Faults
          /\ Goto(w, "err")
          /\ UNCHANGED <<rows, counts>>
    /\ UNCHANGED <<planStatus, driverVars, todo, page, base, historyVars, audit, cancelled,
                   refreshing, crashes>>

\* Mutant: only risk_max is checked, not the acknowledgements.
SelectedByRiskOnly(w) == AtRow(w) /\ Includes(opts[w[1]].riskMax, Item(w).risk)

Selected(w) == AtRow(w) /\ Allows(opts[w[1]], Head(w), Item(w))

\* A predicate that is expanded (or failed, skipped), a row that is terminal.
PassOver(w) ==
    /\ Selected(w)
    /\ IF Item(w).kind = "pred"
       THEN Item(w).status \in {"expanded", "applied", "failed", "skipped"}
       ELSE Item(w).status # "pending"
    /\ Advance(w)
    /\ UNCHANGED <<planVars, driverVars, pc, page, base, counts, historyVars, audit,
                   cancelled, refreshing, crashes>>

\* A predicate still pending, or left expanding by a crash.
BeginExpansion(w) ==
    /\ Selected(w)
    /\ Item(w).kind = "pred" /\ Item(w).status \in {"pending", "expanding"}
    /\ \/ rows' = WithPredicateStatus(Head(w), "expanding")
       \/ "update" \in Faults /\ UNCHANGED rows
    /\ page' = [page EXCEPT ![w] = 0]
    /\ Goto(w, "expand")
    /\ UNCHANGED <<planStatus, driverVars, todo, base, counts, historyVars, audit, cancelled,
                   refreshing, crashes>>

\* The messages of a page of list_by_account.
PageOf(a, p) == (p * PageSize + 1)..(IF (p + 1) * PageSize < MailCount[a]
                                     THEN (p + 1) * PageSize ELSE MailCount[a])

\* expand_page, then max_seq for the block (its error falls back on the
\* predicate's own seq).
ReadPage(w) ==
    /\ pc[w] = "expand"
    /\ PageOf(w[2], page[w]) # {}
    /\ \/ base' = [base EXCEPT ![w] = MaxUsed + 1]
       \/ "expand" \in Faults /\ base' = [base EXCEPT ![w] = Head(w) + 1]
    /\ Goto(w, "append")
    /\ UNCHANGED <<planVars, driverVars, todo, page, counts, historyVars, audit, cancelled,
                   refreshing, crashes>>

Block(w) == base[w]..(base[w] + Cardinality(PageOf(w[2], page[w])) - 1)

Child(w, s) == [kind |-> "row", acct |-> w[2], risk |-> Item(w).risk,
                group |-> Item(w).group, status |-> "pending", parent |-> Head(w),
                mail |-> page[w] * PageSize + 1 + (s - base[w]), by |-> w[1]]

\* Mutant: the children join the slice the worker is walking.
AppendAndQueueChildren(w) ==
    /\ pc[w] = "append"
    /\ Block(w) \subseteq Seqs
    /\ \A s \in Block(w) : rows[s] = NoRow
    /\ rows' = [s \in Seqs |-> IF s \in Block(w) THEN Child(w, s) ELSE rows[s]]
    /\ todo' = [todo EXCEPT ![w] =
                   [s \in Seqs |-> IF s \in Block(w) THEN Child(w, s) ELSE @[s]]]
    /\ page' = [page EXCEPT ![w] = @ + 1]
    /\ Goto(w, "expand")
    /\ UNCHANGED <<planStatus, driverVars, base, counts, historyVars, audit, cancelled,
                   refreshing, crashes>>

\* append_operations: one transaction; the primary key is (plan_id, seq).
AppendChildren(w) ==
    /\ pc[w] = "append"
    /\ Block(w) \subseteq Seqs
    /\ \A s \in Block(w) : rows[s] = NoRow
    /\ rows' = [s \in Seqs |-> IF s \in Block(w) THEN Child(w, s) ELSE rows[s]]
    /\ page' = [page EXCEPT ![w] = @ + 1]
    /\ Goto(w, "expand")
    /\ UNCHANGED <<planStatus, driverVars, todo, base, counts, historyVars, audit, cancelled,
                   refreshing, crashes>>

\* Mutant: a page that could not be appended is passed over.
ExpansionErrorIgnored(w) ==
    /\ \/ pc[w] = "expand" /\ "expand" \in Faults
       \/ /\ pc[w] = "append"
          /\ \/ "append" \in Faults
             \/ \E s \in Block(w) \cap Seqs : rows[s] # NoRow
    /\ page' = [page EXCEPT ![w] = @ + 1]
    /\ Goto(w, "expand")
    /\ UNCHANGED <<planVars, driverVars, todo, base, counts, historyVars, audit, cancelled,
                   refreshing, crashes>>

\* An error of expand_page, or of append_operations (a seq of the block taken
\* meanwhile, or a storage fault): the predicate is marked failed.
ExpansionFails(w) ==
    /\ \/ pc[w] = "expand" /\ "expand" \in Faults
       \/ /\ pc[w] = "append"
          /\ \/ "append" \in Faults
             \/ \E s \in Block(w) \cap Seqs : rows[s] # NoRow
    /\ \/ rows' = WithPredicateStatus(Head(w), "failed")
       \/ "update" \in Faults /\ UNCHANGED rows
    /\ Advance(w)
    /\ Bump(w, "failed")
    /\ Goto(w, "loop")
    /\ UNCHANGED <<planStatus, driverVars, page, base, historyVars, audit, cancelled,
                   refreshing, crashes>>

\* An empty page: the expansion is complete.
EndExpansion(w) ==
    /\ pc[w] = "expand"
    /\ PageOf(w[2], page[w]) = {}
    /\ \/ rows' = WithPredicateStatus(Head(w), "expanded")
       \/ "update" \in Faults /\ UNCHANGED rows
    /\ Advance(w)
    /\ Goto(w, "loop")
    /\ UNCHANGED <<planStatus, driverVars, page, base, counts, historyVars, audit, cancelled,
                   refreshing, crashes>>

\* A pending row: the permit is free (the worker handles one row at a time).
BeginDispatch(w) ==
    /\ Selected(w)
    /\ Item(w).kind = "row" /\ Item(w).status = "pending"
    /\ Goto(w, "dispatch")
    /\ UNCHANGED <<planVars, driverVars, todo, page, base, counts, historyVars, audit,
                   cancelled, refreshing, crashes>>

\* The provider performed the action.
DispatchOk(w) ==
    /\ pc[w] = "dispatch"
    /\ sent' = [sent EXCEPT ![w][Head(w)] = @ + 1]
    /\ Goto(w, "markApplied")
    /\ UNCHANGED <<planVars, driverVars, todo, page, base, counts, paused, audit, cancelled,
                   refreshing, crashes>>

\* Mutant: the provider's refusal is taken for success.
DispatchRejectedAsOk(w) ==
    /\ "reject" \in Faults
    /\ pc[w] = "dispatch"
    /\ Goto(w, "markApplied")
    /\ UNCHANGED <<planVars, driverVars, todo, page, base, counts, historyVars, audit,
                   cancelled, refreshing, crashes>>

\* The provider refused it.
DispatchRejected(w) ==
    /\ "reject" \in Faults
    /\ pc[w] = "dispatch"
    /\ Goto(w, "markFailed")
    /\ UNCHANGED <<planVars, driverVars, todo, page, base, counts, historyVars, audit,
                   cancelled, refreshing, crashes>>

\* 429, or the token cannot be renewed: the row stays pending, the worker ends.
PauseAccount(w) ==
    /\ "paused" \in Faults
    /\ pc[w] = "dispatch"
    /\ Bump(w, "failed")
    /\ paused' = paused \cup {w}
    /\ Goto(w, "ok")
    /\ UNCHANGED <<planVars, driverVars, todo, page, base, sent, audit, cancelled,
                   refreshing, crashes>>

\* update_operation_status after the dispatch; its error ends the worker.
MarkRow(w) ==
    \E st \in {"applied", "failed"} :
      /\ pc[w] = (IF st = "applied" THEN "markApplied" ELSE "markFailed")
      /\ \/ /\ rows' = WithStatus(Head(w), st)
            /\ Bump(w, st)
            /\ Goto(w, IF st = "applied" THEN "auditApplied" ELSE "auditFailed")
         \/ /\ "update" \in Faults
            /\ Goto(w, "err")
            /\ UNCHANGED <<rows, counts>>
      /\ UNCHANGED <<planStatus, driverVars, todo, page, base, historyVars, audit, cancelled,
                     refreshing, crashes>>

\* write_audit, non-fatal.
WriteAudit(w) ==
    \E o \in {"applied", "failed", "skipped"} :
      /\ pc[w] = (CASE o = "applied" -> "auditApplied"
                    [] o = "failed"  -> "auditFailed"
                    [] o = "skipped" -> "auditSkipped")
      /\ \/ audit' = audit \cup {[job |-> w[1], seq |-> Head(w), outcome |-> o]}
         \/ "update" \in Faults /\ UNCHANGED audit
      /\ Advance(w)
      /\ Goto(w, "loop")
      /\ UNCHANGED <<planVars, driverVars, page, base, counts, historyVars, cancelled,
                     refreshing, crashes>>

-----------------------------------------------------------------------------
(* The process dies: tasks, channels and tokens go, the tables stay. *)
Crash ==
    /\ crashes < MaxCrashes
    /\ crashes' = crashes + 1
    /\ channels' = {}
    /\ cancelled' = {}
    /\ refreshing' = 0
    /\ driver' = [j \in Jobs |-> IF driver[j] \in {"none", "refused", "done"}
                                 THEN driver[j] ELSE "dead"]
    /\ pc' = [w \in Workers |-> IF pc[w] \in {"idle", "ok", "err"} THEN pc[w] ELSE "dead"]
    /\ todo' = [w \in Workers |-> EmptyTable]
    /\ UNCHANGED <<planVars, jobRow, opts, accts, joined, combined, anyFailed, outcome,
                   page, base, counts, historyVars, audit>>

HandlerStep == \/ \E j \in Jobs : \/ LoadPlan(j) \/ RefuseApply(j) \/ RegisterChannel(j)
                                  \/ CreateJob(j) \/ CreateJobFails(j) \/ CancelApply(j)
               \/ CancelPlan
               \/ \E a \in Accounts : RefreshCheck(a)
               \/ RefreshDelete

DriverStep(j) == JoinWorker(j) \/ DecideOutcome(j) \/ PersistOutcome(j) \/ DropChannel(j)

WorkerStep(w) ==
    \/ LoadRows(w) \/ FinishWorker(w) \/ StopCancelled(w)
    \/ LeavePending(w) \/ SkipRow(w) \/ PassOver(w)
    \/ BeginExpansion(w) \/ ReadPage(w) \/ AppendChildren(w)
    \/ ExpansionFails(w) \/ EndExpansion(w)
    \/ BeginDispatch(w) \/ DispatchOk(w) \/ DispatchRejected(w) \/ PauseAccount(w)
    \/ MarkRow(w) \/ WriteAudit(w)

Next == \/ HandlerStep
        \/ \E j \in Jobs : DriverStep(j)
        \/ \E w \in Workers : WorkerStep(w)
        \/ Crash

Spec == Init /\ [][Next]_vars

\* Spawned tasks are polled until they end; requests may or may not come.
Fairness == /\ \A j \in Jobs : WF_vars(DriverStep(j))
            /\ \A w \in Workers : WF_vars(WorkerStep(w))

FairSpec == Spec /\ Fairness

-----------------------------------------------------------------------------
(* Type *)

DriverPcs == {"none", "loaded", "refused", "registered", "createFailed", "running",
              "decided", "persisted", "done", "dead"}

WorkerPcs == {"idle", "load", "loop", "expand", "append", "dispatch", "markApplied",
              "markFailed", "auditApplied", "auditFailed", "auditSkipped", "ok", "err",
              "dead"}

JobStates == {"none", "running", "finished", "failed", "cancelled"}

\* Every table and every task field has the shape the source gives it.
TypeOK ==
    /\ planStatus \in {"ready", "cancelled"}
    /\ rows \in Table
    /\ jobRow \in [Jobs -> [state : JobStates, counts : Counts]]
    /\ audit \subseteq [job : Jobs, seq : Seqs, outcome : {"applied", "failed", "skipped"}]
    /\ channels \subseteq Jobs
    /\ cancelled \subseteq Jobs
    /\ opts \in [Jobs -> Options]
    /\ accts \in [Jobs -> SUBSET Accounts]
    /\ driver \in [Jobs -> DriverPcs]
    /\ joined \in [Jobs -> SUBSET Accounts]
    /\ combined \in [Jobs -> Counts]
    /\ anyFailed \in [Jobs -> BOOLEAN]
    /\ outcome \in [Jobs -> JobStates]
    /\ pc \in [Workers -> WorkerPcs]
    /\ todo \in [Workers -> Table]
    /\ page \in [Workers -> Nat]
    /\ base \in [Workers -> Nat]
    /\ counts \in [Workers -> Counts]
    /\ refreshing \in 0..NumAccounts
    /\ crashes \in 0..MaxCrashes
    /\ sent \in [Workers -> [Seqs -> Nat]]
    /\ paused \subseteq Workers

-----------------------------------------------------------------------------
(* Safety *)

\* The tables record a row as applied only when some worker really performed
\* it, for a job whose request includes its risk and acknowledges it: the
\* promise of the risk-scoped, acknowledged apply.
AppliedWasSentAndAllowed ==
    \A s \in Present(rows) : rows[s].status = "applied" =>
        \E w \in Workers :
            /\ sent[w][s] > 0
            /\ rows[s].risk # "low" => opts[w[1]].riskMax # "low"
            /\ rows[s].risk = "high" => opts[w[1]].riskMax = "high" /\ s \in opts[w[1]].ackHigh
            /\ rows[s].risk = "medium" =>
                   rows[s].group \in opts[w[1]].ackMedium \cup {NoGroup}

\* Within one job a row is handed to the provider at most once, however many
\* pages, skips or failed writes happen in between.
AtMostOncePerJob == \A w \in Workers : \A s \in Seqs : sent[w][s] <= 1

\* The children a job materialises are not touched by that job: they wait for
\* the next apply (the worker walks the slice it loaded at the start).
ChildrenWaitForNextApply ==
    \A s \in Present(rows) : \A w \in Workers : rows[s].by = w[1] => sent[w][s] = 0

\* An expanded predicate has a child for every message of its account, also
\* when two jobs expand it at once and one loses the race for a seq block.
ExpandedIsComplete ==
    \A p \in Present(rows) : rows[p].kind = "pred" /\ rows[p].status = "expanded" =>
        \A m \in 1..MailCount[rows[p].acct] :
            \E s \in Present(rows) : rows[s].parent = p /\ rows[s].mail = m

\* A worker that reached its end without a pause left no row it could see and
\* was allowed to touch in the pending state.
WalkedRowsAreSettled ==
    \A w \in Workers : pc[w] = "ok" /\ w \notin paused =>
        \A s \in FirstN({t \in Present(InitialRows) : InitialRows[t].acct = w[2]}, ListLimit) :
            (rows[s].kind = "row" /\ Includes(opts[w[1]].riskMax, rows[s].risk))
                => rows[s].status # "pending"

\* Successful provider calls of a job.
Sent(j) == {x \in Accounts \X Seqs : sent[<<j, x[1]>>][x[2]] > 0}

\* The counts persisted with a job never claim more than it did, and are exact
\* unless a worker ended in an error (its counts are then lost).
CountsAreHonest ==
    \A j \in Jobs : jobRow[j].state \in {"finished", "failed", "cancelled"} =>
        /\ jobRow[j].counts["applied"] <= Cardinality(Sent(j))
        /\ ~anyFailed[j] => jobRow[j].counts["applied"] = Cardinality(Sent(j))

Active(w) == pc[w] \notin {"idle", "ok", "err", "dead"}

\* A worker at work belongs to a job that has both a channel and a job row in
\* state running: what is_running_for_plan relies on to protect the rows.
ActiveWorkersAreVisible ==
    \A w \in Workers : Active(w) =>
        /\ w[1] \in channels
        /\ jobRow[w[1]].state = "running"

\* What the audit trail says was applied was performed by that job.
AuditIsTruthful ==
    \A e \in audit : e.outcome = "applied" =>
        \E a \in Accounts : sent[<<e.job, a>>][e.seq] > 0

-----------------------------------------------------------------------------
(* Step properties *)

\* A job that reached a terminal state in the table keeps it.
TerminalJobsStay ==
    [][\A j \in Jobs : jobRow[j].state \in {"finished", "failed", "cancelled"}
                            => jobRow'[j] = jobRow[j]]_vars

-----------------------------------------------------------------------------
(* Liveness *)

\* Every job that was started ends, and its channel is dropped, unless the process
\* stops before: whichever workers fail, pause or are cancelled.
JobsEnd ==
    \A j \in Jobs : driver[j] = "running" ~> driver[j] \in {"done", "dead"} /\ j \notin channels

-----------------------------------------------------------------------------
(* What a comment says and the code does not do, exhibited by a run.         *)

\* plan.rs: refresh rejects "if a job is currently running for this plan":
\* no row disappears while a worker of the plan is at work.
RefreshSparesRunningJobs ==
    [][(\E w \in Workers : Active(w))
          => Present(rows) \subseteq Present(rows')]_vars

=============================================================================
