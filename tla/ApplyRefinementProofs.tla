----------------------- MODULE ApplyRefinementProofs ------------------------
(***************************************************************************)
(* The apply phase implements ApplyContract, for every plan, every set of  *)
(* jobs and requests, every mix of faults and any number of crashes, as    *)
(* long as no account of the plan is refreshed.                            *)
(***************************************************************************)
EXTENDS ApplyRefinement, CleanupPlanProofs

-----------------------------------------------------------------------------
(* What the mapping needs of a job *)

Terminal == {"finished", "failed", "cancelled"}

\* A job that was loaded has one of the requests; one that is under way has a row;
\* and an outcome of cancelled was asked for.
JobInv ==
    \A j \in Jobs :
        /\ driver[j] # "none" => opts[j] \in OptionSets
        /\ driver[j] \in {"running", "decided", "persisted"} => jobRow[j].state # "none"
        /\ driver[j] = "decided" => /\ outcome[j] \in Terminal
                                    /\ outcome[j] = "cancelled" => j \in cancelled

LEMMA JobStep == TypeInv /\ PhaseInv /\ JobInv /\ [Next]_vars => JobInv'
<1> SUFFICES ASSUME TypeInv, PhaseInv, JobInv, [Next]_vars PROVE JobInv'
  OBVIOUS
<1> USE DEF driverVars
<1>a. /\ driver \in [Jobs -> DriverPcs] /\ opts \in [Jobs -> Options]
      /\ jobRow \in [Jobs -> [state : JobStates, counts : Counts]]
      /\ outcome \in [Jobs -> JobStates]
  BY DEF TypeInv, TypeOK
<1>1. ASSUME NEW w \in Workers, WorkerStep(w) PROVE JobInv'
  BY <1>1, WorkerFrame DEF JobInv
<1>2. CASE Crash \/ UNCHANGED vars
  BY <1>2 DEF Crash, vars, JobInv
<1>3. CASE HandlerStep
  <2>1. ASSUME NEW j \in Jobs, LoadPlan(j) PROVE JobInv'
    BY <1>a, <2>1 DEF LoadPlan, JobInv
  <2>2. ASSUME NEW j \in Jobs, CreateJob(j) PROVE JobInv'
    BY <1>a, <2>2 DEF CreateJob, JobInv
  <2>3. ASSUME NEW j \in Jobs,
               RefuseApply(j) \/ RegisterChannel(j) \/ CreateJobFails(j) \/ CancelApply(j)
        PROVE  JobInv'
    BY <1>a, <2>3 DEF RefuseApply, RegisterChannel, CreateJobFails, CancelApply, JobInv
  <2>4. CASE CancelPlan \/ RefreshDelete \/ \E a \in Accounts : RefreshCheck(a)
    BY <2>4 DEF CancelPlan, RefreshDelete, RefreshCheck, JobInv
  <2> QED BY <1>3, <2>1, <2>2, <2>3, <2>4 DEF HandlerStep
<1>4. ASSUME NEW j \in Jobs, DriverStep(j) PROVE JobInv'
  <2>1. CASE JoinWorker(j)
    BY <2>1 DEF JoinWorker, JobInv
  <2>2. CASE DecideOutcome(j)
    BY <1>a, <2>2 DEF DecideOutcome, JobInv, Terminal
  <2>3. CASE PersistOutcome(j)
    BY <1>a, <2>3 DEF PersistOutcome, JobInv, Terminal
  <2>4. CASE DropChannel(j)
    BY <1>a, <2>4 DEF DropChannel, JobInv
  <2> QED BY <1>4, <2>1, <2>2, <2>3, <2>4 DEF DriverStep
<1> QED BY <1>1, <1>2, <1>3, <1>4 DEF Next

THEOREM JobsHold == Spec => []JobInv
<1>1. Init => JobInv
  BY DEF Init, JobInv
<1> QED BY <1>1, JobStep, TypeCorrect, PhasesHold, PTL DEF Spec

\* As every row belongs to one account, a job's calls are to as many rows.
LEMMA TallyIsCovered ==
    ASSUME TypeInv, TableInv, CountInv, NEW j \in Jobs
    PROVE  combined[j]["applied"] \in 0..Cardinality(PerformedSeen[j])
<1> DEFINE T == PerformedSeen[j]
           f == [x \in OkSent(j) |-> x[2]]
<1>1. T \in SUBSET Seqs
  BY DEF PerformedSeen
<1>2. IsFiniteSet(T)
  BY <1>1, FiniteRows, FS_Subset
<1>3. \A x \in OkSent(j) : /\ x[1] \in Accounts /\ x[2] \in T /\ x = <<x[1], x[2]>>
                           /\ rows[x[2]].acct = x[1]
  <2> SUFFICES ASSUME NEW x \in OkSent(j)
               PROVE  /\ x[1] \in Accounts /\ x[2] \in T /\ x = <<x[1], x[2]>>
                      /\ rows[x[2]].acct = x[1]
    OBVIOUS
  <2>1. x \in Accounts \X Seqs /\ sent[<<j, x[1]>>][x[2]] > 0
    BY OkSentFinite DEF Sent
  <2>2. <<j, x[1]>> \in Workers /\ <<j, x[1]>>[2] = x[1]
    BY <2>1 DEF Workers
  <2>3. rows[x[2]].acct = <<j, x[1]>>[2]
    BY <2>1, <2>2 DEF TableInv, SentFromTable
  <2> QED BY <2>1, <2>2, <2>3 DEF PerformedSeen
<1>4. f \in [OkSent(j) -> T] /\ \A x, y \in OkSent(j) : f[x] = f[y] => x = y
  BY <1>3
<1>5. f \in Injection(OkSent(j), T)
  BY <1>4 DEF Injection, IsInjective
<1>6. Cardinality(OkSent(j)) <= Cardinality(T) /\ IsFiniteSet(OkSent(j))
  <2> HIDE DEF f, T
  <2> QED BY <1>2, <1>5, FS_Injection
<1>7. Cardinality(OkSent(j)) \in Nat /\ Cardinality(T) \in Nat
  BY <1>2, <1>6, FS_CardinalityType
<1>8. combined[j]["applied"] = Cardinality(OkSent(j))
  BY DEF CountInv, DriverCounts
<1> QED BY <1>6, <1>7, <1>8
-----------------------------------------------------------------------------
(* The steps of the workers *)

\* What a worker does to a job is not seen but for the provider calls.
LEMMA WorkerUnseen ==
    ASSUME TypeInv, NEW w \in Workers, WorkerStep(w)
    PROVE  UNCHANGED <<StatusSeen, RequestSeen, TallySeen, cancelled>>
<1>1. UNCHANGED <<jobRow, opts, cancelled>>
  BY WorkerFrame DEF driverVars
<1> QED BY <1>1 DEF StatusSeen, RequestSeen, TallySeen

\* A status is not seen.
LEMMA StatusUnseen ==
    ASSUME TypeInv, NEW w \in Workers, WorkerStep(w), ~AppendChildren(w)
    PROVE  PlanSeen' = PlanSeen
<1> SUFFICES ASSUME NEW s \in Seqs PROVE ItemOf(rows'[s]) = ItemOf(rows[s])
  BY DEF PlanSeen, ItemOf
<1>1. rows'[s] = rows[s] \/ (rows[s] # NoRow /\ Kept(s))
  BY WorkerRows, WorkerKeeps DEF WroteStatus
<1> QED BY <1>1 DEF Kept, SameItem, ItemOf

\* Only a provider call changes what was performed.
LEMMA CallsUnseen ==
    ASSUME TypeInv, NEW w \in Workers, WorkerStep(w), ~DispatchOk(w)
    PROVE  PerformedSeen' = PerformedSeen
<1>1. sent' = sent
  BY DEF historyVars, WorkerStep, LoadRows, FinishWorker, StopCancelled, LeavePending, SkipRow,
     PassOver, BeginExpansion, ReadPage, AppendChildren, ExpansionFails, EndExpansion,
     BeginDispatch, DispatchRejected, PauseAccount, MarkRow, WriteAudit
<1> QED BY <1>1 DEF PerformedSeen

\* The items of the plan are the rows in the table.
LEMMA ItemsAreRows ==
    ASSUME TypeInv
    PROVE  \A s \in Seqs : PlanSeen[s] # NoRow <=> rows[s] # NoRow
<1> SUFFICES ASSUME NEW s \in Seqs, rows[s] # NoRow
             PROVE  [risk |-> rows[s].risk, group |-> rows[s].group] # NoRow
  BY DEF PlanSeen, ItemOf
<1>1. rows[s] \in Row
  BY DEF TypeInv, TypeOK, Table
<1>2. [risk |-> rows[s].risk, group |-> rows[s].group] \in [risk : Risks, group : Groups \cup {NoGroup}]
  BY <1>1 DEF Row
<1> QED BY <1>2, NoItemAssumption

\* The gates of the code are those of the contract.
LEMMA GatesAgree ==
    ASSUME TypeInv, NEW j \in Jobs, NEW s \in Seqs, rows[s] # NoRow,
           Allows(opts[j], s, rows[s])
    PROVE  Contract!Permits(opts[j], s)
<1>1. opts[j].riskMax \in Risks /\ rows[s] \in Row
  BY DEF TypeInv, TypeOK, Options, Table
<1>2. PlanSeen[s] = [risk |-> rows[s].risk, group |-> rows[s].group]
  BY DEF PlanSeen, ItemOf
<1>3. PlanSeen[s].risk = rows[s].risk /\ PlanSeen[s].group = rows[s].group
  BY <1>2
<1>4. rows[s].risk \in Risks
  BY <1>1 DEF Row
<1> QED BY <1>1, <1>3, <1>4 DEF Contract!Permits, Contract!Covers, Allows, Includes, Acknowledged, Risks

\* The provider call performs an item for the job.
LEMMA CallPerforms ==
    ASSUME TypeInv, PhaseInv, SentInv, TableInv, NEW w \in Workers, DispatchOk(w)
    PROVE  Contract!Perform(w[1], Head(w))
<1> DEFINE j == w[1]
           s == Head(w)
<1>1. WorkerStep(w) /\ j \in Jobs /\ w[2] \in Accounts /\ w = <<w[1], w[2]>>
  BY DEF WorkerStep, Workers
<1>2. pc[w] = "dispatch" /\ s \in Present(todo[w]) /\ s \in Seqs /\ Active(w)
  BY HeadType DEF DispatchOk, TypeInv, HasRow, RowPcs, Active
<1>3. StatusSeen[j] = "running" /\ RequestSeen[j] = opts[j]
  BY <1>1, <1>2 DEF PhaseInv, ActiveIsAwaited, PhaseRows, StatusSeen, RequestSeen
<1>4. rows[s] # NoRow /\ rows[s].acct = w[2] /\ SameItem(Item(w), rows[s])
  BY <1>2 DEF TableInv, HeldFromTable, Item
<1>5. s \in Contract!Items
  BY <1>2, <1>4, ItemsAreRows DEF Contract!Items
<1>6. Contract!Permits(RequestSeen[j], s)
  <2>1. Allows(opts[j], s, Item(w))
    BY <1>2 DEF TableInv, DispatchAllowed
  <2>2. Allows(opts[j], s, rows[s])
    BY <1>4, <2>1, AllowsSame
  <2> HIDE DEF j, s
  <2> QED BY <1>1, <1>2, <1>3, <1>4, <2>2, GatesAgree
<1>7. s \notin PerformedSeen[j]
  <2>1. SUFFICES ASSUME NEW a \in Accounts, sent[<<j, a>>][s] > 0 PROVE FALSE
    BY <1>1 DEF PerformedSeen
  <2>2. <<j, a>> \in Workers /\ <<j, a>>[2] = a
    BY <1>1 DEF Workers
  <2>3. rows[s].acct = <<j, a>>[2]
    BY <1>2, <2>1, <2>2 DEF TableInv, SentFromTable
  <2>4. sent[w][s] > 0
    BY <1>1, <1>4, <2>1, <2>2, <2>3
  <2> QED BY <1>2, <2>4 DEF SentInv, HeldRowsUnsent
<1>8. PerformedSeen' = [PerformedSeen EXCEPT ![j] = @ \cup {s}]
  <2>1. sent \in [Workers -> [Seqs -> Nat]]
    BY DEF TypeInv, TypeOK
  <2>2. \A v \in Workers : \A t \in Seqs :
            sent'[v][t] > 0 <=> sent[v][t] > 0 \/ (v = w /\ t = s)
    BY <1>2, <2>1 DEF DispatchOk
  <2>3. ASSUME NEW k \in Jobs
        PROVE  PerformedSeen'[k] = IF k = j THEN PerformedSeen[k] \cup {s} ELSE PerformedSeen[k]
    <3>1. \A a \in Accounts : \A t \in Seqs :
            sent'[<<k, a>>][t] > 0 <=> sent[<<k, a>>][t] > 0 \/ (k = j /\ a = w[2] /\ t = s)
      <4> SUFFICES ASSUME NEW a \in Accounts, NEW t \in Seqs
                   PROVE  sent'[<<k, a>>][t] > 0
                            <=> sent[<<k, a>>][t] > 0 \/ (k = j /\ a = w[2] /\ t = s)
        OBVIOUS
      <4>1. <<k, a>> \in Workers /\ (<<k, a>> = w <=> k = j /\ a = w[2])
        BY <1>1 DEF Workers
      <4> QED BY <2>2, <4>1
    <3>2. PerformedSeen'[k] = {t \in Seqs : \E a \in Accounts : sent'[<<k, a>>][t] > 0}
          /\ PerformedSeen[k] = {t \in Seqs : \E a \in Accounts : sent[<<k, a>>][t] > 0}
      BY DEF PerformedSeen
    <3>3. CASE k = j
      <4>1. \A t \in Seqs : (\E a \in Accounts : sent'[<<k, a>>][t] > 0)
                                <=> (\E a \in Accounts : sent[<<k, a>>][t] > 0) \/ t = s
        <5> HIDE DEF j, s
        <5> QED BY <1>1, <3>1, <3>3
      <4> HIDE DEF j
      <4> QED BY <1>2, <3>2, <3>3, <4>1
    <3>4. CASE k # j
      <4>1. \A t \in Seqs : (\E a \in Accounts : sent'[<<k, a>>][t] > 0)
                                <=> (\E a \in Accounts : sent[<<k, a>>][t] > 0)
        <5> HIDE DEF j, s
        <5> QED BY <3>1, <3>4
      <4> HIDE DEF j, s
      <4> QED BY <3>2, <3>4, <4>1
    <3> QED BY <3>3, <3>4
  <2> HIDE DEF j, s
  <2> QED BY <2>3 DEF PerformedSeen
<1>9. PlanSeen' = PlanSeen
  BY DEF DispatchOk, planVars, PlanSeen, ItemOf
<1> HIDE DEF j, s
<1> QED BY <1>1, <1>3, <1>5, <1>6, <1>7, <1>8, <1>9, WorkerUnseen DEF Contract!Perform, j, s

\* The append materialises a predicate, or is not seen when it appends nothing.
LEMMA AppendMaterialises ==
    ASSUME TypeInv, TableInv, NEW w \in Workers, AppendChildren(w)
    PROVE  Contract!Materialise \/ PlanSeen' = PlanSeen
<1>1. /\ Head(w) \in Present(todo[w]) /\ Head(w) \in Seqs
      /\ \A t \in Block(w) : rows[t] = NoRow /\ rows'[t] = Child(w, t) /\ rows'[t] # NoRow
      /\ \A t \in Seqs \ Block(w) : rows'[t] = rows[t]
  BY Appended, HeadType DEF TypeInv
<1>2. rows[Head(w)] # NoRow /\ SameItem(Item(w), rows[Head(w)])
  BY <1>1 DEF TableInv, HeldFromTable, Item
<1>3. Head(w) \in Contract!Items
  BY <1>1, <1>2, ItemsAreRows DEF Contract!Items
<1>4. \A t \in Seqs : IF t \in Contract!Items THEN PlanSeen'[t] = PlanSeen[t]
                      ELSE PlanSeen'[t] \in {NoRow, PlanSeen[Head(w)]}
  <2> SUFFICES ASSUME NEW t \in Seqs
               PROVE  IF t \in Contract!Items THEN PlanSeen'[t] = PlanSeen[t]
                      ELSE PlanSeen'[t] \in {NoRow, PlanSeen[Head(w)]}
    OBVIOUS
  <2>1. t \in Contract!Items <=> rows[t] # NoRow
    BY ItemsAreRows DEF Contract!Items
  <2>2. PlanSeen[t] = ItemOf(rows[t]) /\ PlanSeen'[t] = ItemOf(rows'[t])
        /\ PlanSeen[Head(w)] = ItemOf(rows[Head(w)])
    BY <1>1 DEF PlanSeen, ItemOf
  <2>3. CASE t \in Block(w)
    <3>a. rows'[t] = Child(w, t)
      BY <1>1, <2>3
    <3>1. rows'[t].risk = Item(w).risk /\ rows'[t].group = Item(w).group
      BY <3>a DEF Child
    <3>2. ItemOf(rows'[t]) = ItemOf(rows[Head(w)])
      BY <1>1, <1>2, <2>3, <3>1 DEF ItemOf, SameItem
    <3> QED BY <1>1, <2>1, <2>2, <2>3, <3>2
  <2>4. CASE t \notin Block(w)
    BY <1>1, <2>1, <2>2, <2>4 DEF ItemOf
  <2> QED BY <2>3, <2>4
<1>5. WorkerStep(w) /\ ~DispatchOk(w)
  BY DEF WorkerStep, AppendChildren, DispatchOk
<1> QED BY <1>1, <1>3, <1>4, <1>5, WorkerUnseen, CallsUnseen DEF Contract!Materialise

-----------------------------------------------------------------------------
(* The steps of the handlers, the driver and a crash *)

\* A step that writes no job row changes no status, tally or request: the options
\* of a job are chosen before it has a row.
LEMMA RowUnseen ==
    ASSUME TypeInv, PhaseInv, TableInv, ~MayRefresh, jobRow' = jobRow,
           HandlerStep \/ (\E j \in Jobs : DriverStep(j)) \/ Crash \/ UNCHANGED vars
    PROVE  UNCHANGED <<StatusSeen, RequestSeen, TallySeen>>
<1>1. \A w \in Workers : opts'[w[1]] = opts[w[1]] \/ driver[w[1]] = "none"
  BY OtherFrame DEF TableInv
<1>2. UNCHANGED <<StatusSeen, TallySeen>>
  BY DEF StatusSeen, TallySeen
<1>3. \A j \in Jobs : opts'[j] = opts[j] \/ driver[j] = "none"
  <2>1. opts \in [Jobs -> Options]
    BY DEF TypeInv, TypeOK
  <2> QED BY <2>1 DEF driverVars, vars, HandlerStep, LoadPlan, RefuseApply, RegisterChannel, CreateJob,
     CreateJobFails, CancelApply, CancelPlan, RefreshCheck, RefreshDelete, DriverStep,
     JoinWorker, DecideOutcome, PersistOutcome, DropChannel, Crash
<1>4. \A j \in Jobs : driver[j] = "none" => jobRow[j].state = "none"
  BY DEF PhaseInv, PhaseRows, Waiting
<1>5. RequestSeen' = RequestSeen
  BY <1>3, <1>4 DEF RequestSeen
<1> QED BY <1>2, <1>5

\* The plan and the provider calls are the workers' business.
LEMMA TableUnseen ==
    ASSUME TypeInv, PhaseInv, TableInv, ~MayRefresh,
           HandlerStep \/ (\E j \in Jobs : DriverStep(j)) \/ Crash \/ UNCHANGED vars
    PROVE  UNCHANGED <<PlanSeen, PerformedSeen>>
<1>1. UNCHANGED <<rows, sent>>
  BY OtherFrame DEF TableInv
<1> QED BY <1>1 DEF PlanSeen, ItemOf, PerformedSeen

\* A job begins when its row is written.
LEMMA CreateBegins ==
    ASSUME TypeInv, PhaseInv, JobInv, TableInv, ~MayRefresh, NEW j \in Jobs, CreateJob(j)
    PROVE  Contract!Begin(j)
<1>1. jobRow \in [Jobs -> [state : JobStates, counts : Counts]]
  BY DEF TypeInv, TypeOK
<1>2. /\ driver[j] = "registered" /\ jobRow' = [jobRow EXCEPT ![j].state = "running"]
      /\ UNCHANGED <<opts, cancelled>>
  BY DEF CreateJob
<1>3. jobRow[j].state = "none" /\ opts[j] \in OptionSets
  BY <1>2 DEF PhaseInv, PhaseRows, Waiting, JobInv
<1>4. \A k \in Jobs : /\ jobRow'[k].state = IF k = j THEN "running" ELSE jobRow[k].state
                      /\ jobRow'[k].counts = jobRow[k].counts
  BY <1>1, <1>2
<1>5. StatusSeen[j] = "none" /\ StatusSeen' = [StatusSeen EXCEPT ![j] = "running"]
  BY <1>3, <1>4 DEF StatusSeen
<1>6. RequestSeen' = [RequestSeen EXCEPT ![j] = opts[j]]
  <2>1. RequestSeen' = [k \in Jobs |-> IF jobRow'[k].state = "none" THEN NoRow ELSE opts[k]]
    BY <1>2 DEF RequestSeen
  <2>2. \A k \in Jobs : (IF jobRow'[k].state = "none" THEN NoRow ELSE opts[k])
                           = IF k = j THEN opts[j] ELSE RequestSeen[k]
    BY <1>4 DEF RequestSeen
  <2>3. RequestSeen = [k \in Jobs |-> RequestSeen[k]]
    BY DEF RequestSeen
  <2> HIDE DEF RequestSeen
  <2> QED BY <2>1, <2>2, <2>3
<1>7. TallySeen' = TallySeen
  BY <1>4 DEF TallySeen
<1>8. UNCHANGED <<PlanSeen, PerformedSeen>>
  BY TableUnseen DEF HandlerStep
<1> QED BY <1>2, <1>3, <1>5, <1>6, <1>7, <1>8 DEF Contract!Begin

\* A job ends when its row gets the outcome.
LEMMA PersistEnds ==
    ASSUME TypeInv, PhaseInv, JobInv, TableInv, CountInv, ~MayRefresh, NEW j \in Jobs,
           PersistOutcome(j), jobRow' # jobRow
    PROVE  Contract!End(j)
<1>1. jobRow \in [Jobs -> [state : JobStates, counts : Counts]]
  BY DEF TypeInv, TypeOK
<1>2. /\ driver[j] = "decided" /\ UNCHANGED <<opts, cancelled>>
      /\ jobRow' = [jobRow EXCEPT ![j] = [state |-> outcome[j], counts |-> combined[j]]]
  BY DEF PersistOutcome
<1>3. jobRow[j].state = "running" /\ outcome[j] \in Terminal
      /\ (outcome[j] = "cancelled" => j \in cancelled)
  BY <1>2 DEF PhaseInv, PhaseRows, JobInv
<1>4. \A k \in Jobs : /\ jobRow'[k].state = IF k = j THEN outcome[j] ELSE jobRow[k].state
                      /\ jobRow'[k].counts = IF k = j THEN combined[j] ELSE jobRow[k].counts
  BY <1>1, <1>2
<1>5. StatusSeen[j] = "running" /\ StatusSeen' = [StatusSeen EXCEPT ![j] = outcome[j]]
  BY <1>3, <1>4 DEF StatusSeen
<1>6. RequestSeen' = RequestSeen
  BY <1>2, <1>3, <1>4 DEF RequestSeen, Terminal
<1>7. TallySeen' = [TallySeen EXCEPT ![j] = combined[j]["applied"]]
  BY <1>4 DEF TallySeen
<1>8. UNCHANGED <<PlanSeen, PerformedSeen>>
  BY TableUnseen DEF DriverStep
<1>9. combined[j]["applied"] \in 0..Cardinality(PerformedSeen[j])
  BY TallyIsCovered
<1>10. Contract!Cardinality(PerformedSeen[j]) = Cardinality(PerformedSeen[j])
  BY DEF Contract!Cardinality, Cardinality
<1>11. \E end \in {"finished", "failed", "cancelled"} :
          /\ end = "cancelled" => j \in cancelled
          /\ StatusSeen' = [StatusSeen EXCEPT ![j] = end]
  BY <1>3, <1>5 DEF Terminal
<1>12. TallySeen' \in {[TallySeen EXCEPT ![j] = n] :
                         n \in 0..Contract!Cardinality(PerformedSeen[j])}
  BY <1>7, <1>9, <1>10
<1> QED BY <1>2, <1>5, <1>6, <1>8, <1>11, <1>12 DEF Contract!End

-----------------------------------------------------------------------------
(* The theorem *)

LEMMA StepImplements ==
    ASSUME TypeInv, PhaseInv, SentInv, CountInv, JobInv, TableInv, ~MayRefresh, [Next]_vars
    PROVE  [Contract!ContractNext]_(Contract!contractVars)
<1> USE DEF Contract!contractVars, Contract!ContractNext
<1>1. ASSUME NEW w \in Workers, WorkerStep(w)
      PROVE  [Contract!ContractNext]_(Contract!contractVars)
  <2>1. CASE DispatchOk(w)
    <3>1. w[1] \in Jobs /\ Head(w) \in Seqs
      BY <2>1, HeadType DEF Workers, DispatchOk, TypeInv, HasRow, RowPcs
    <3> QED BY <2>1, <3>1, CallPerforms
  <2>2. CASE AppendChildren(w)
    <3>1. ~DispatchOk(w)
      BY <2>2 DEF AppendChildren, DispatchOk
    <3> QED BY <1>1, <2>2, <3>1, AppendMaterialises, WorkerUnseen, CallsUnseen
  <2>3. CASE ~DispatchOk(w) /\ ~AppendChildren(w)
    BY <1>1, <2>3, WorkerUnseen, CallsUnseen, StatusUnseen
  <2> QED BY <2>1, <2>2, <2>3
<1>2. ASSUME NEW j \in Jobs, CreateJob(j) PROVE Contract!ContractNext
  BY <1>2, CreateBegins
<1>3. ASSUME NEW j \in Jobs, CancelApply(j) PROVE Contract!ContractNext
  <2>1. /\ jobRow' = jobRow /\ cancelled' = cancelled \cup {j}
        /\ driver[j] \in {"running", "decided", "persisted"} /\ HandlerStep
    BY <1>3 DEF CancelApply, driverVars, HandlerStep
  <2>2. StatusSeen[j] # "none"
    BY <2>1 DEF JobInv, StatusSeen
  <2> QED BY <2>1, <2>2, RowUnseen, TableUnseen DEF Contract!Ask
<1>4. ASSUME NEW j \in Jobs, PersistOutcome(j), jobRow' # jobRow PROVE Contract!ContractNext
  BY <1>4, PersistEnds
<1>5. CASE Crash
  <2>1. jobRow' = jobRow /\ cancelled' = {}
    BY <1>5 DEF Crash
  <2> QED BY <1>5, <2>1, RowUnseen, TableUnseen DEF Contract!Forget
<1>6. CASE /\ HandlerStep \/ (\E j \in Jobs : DriverStep(j)) \/ UNCHANGED vars
           /\ jobRow' = jobRow /\ cancelled' = cancelled
  BY <1>6, RowUnseen, TableUnseen
<1>7. CASE HandlerStep
  <2>1. \/ \E j \in Jobs : CreateJob(j) \/ CancelApply(j)
        \/ jobRow' = jobRow /\ cancelled' = cancelled
    BY <1>7 DEF driverVars, HandlerStep, LoadPlan, RefuseApply, RegisterChannel, CreateJobFails,
       CancelPlan, RefreshCheck, RefreshDelete
  <2> QED BY <1>2, <1>3, <1>6, <1>7, <2>1
<1>8. ASSUME NEW j \in Jobs, DriverStep(j)
      PROVE  [Contract!ContractNext]_(Contract!contractVars)
  <2>1. PersistOutcome(j) \/ jobRow' = jobRow
    BY <1>8 DEF DriverStep, JoinWorker, DecideOutcome, DropChannel
  <2>2. cancelled' = cancelled
    BY <1>8 DEF DriverStep, JoinWorker, DecideOutcome, PersistOutcome, DropChannel
  <2> QED BY <1>4, <1>6, <1>8, <2>1, <2>2
<1>9. UNCHANGED vars => jobRow' = jobRow /\ cancelled' = cancelled
  BY DEF vars, driverVars
<1> QED BY <1>1, <1>5, <1>6, <1>7, <1>8, <1>9 DEF Next

LEMMA InitImplements == Init => Contract!ContractInit
<1> SUFFICES ASSUME Init PROVE Contract!ContractInit
  OBVIOUS
<1>1. \A w \in Workers : \A s \in Seqs : sent[w][s] = 0
  BY DEF Init
<1>2. \A j \in Jobs : \A a \in Accounts : <<j, a>> \in Workers
  BY DEF Workers
<1>3. PerformedSeen = [j \in Jobs |-> {}]
  <2>1. ASSUME NEW j \in Jobs
        PROVE  {s \in Seqs : \E a \in Accounts : sent[<<j, a>>][s] > 0} = {}
    <3>1. SUFFICES ASSUME NEW s \in Seqs, NEW a \in Accounts, sent[<<j, a>>][s] > 0 PROVE FALSE
      OBVIOUS
    <3>2. sent[<<j, a>>][s] = 0
      BY <1>1, <1>2
    <3> QED BY <3>1, <3>2
  <2> QED BY <2>1 DEF PerformedSeen
<1>4. \A j \in Jobs : jobRow[j].state = "none" /\ jobRow[j].counts["applied"] = 0
  BY DEF Init, ZeroCounts, CountFields
<1>5. /\ StatusSeen = [j \in Jobs |-> "none"] /\ RequestSeen = [j \in Jobs |-> NoRow]
      /\ TallySeen = [j \in Jobs |-> 0] /\ cancelled = {}
  BY <1>4 DEF StatusSeen, RequestSeen, TallySeen, Init
<1> QED BY <1>3, <1>5 DEF Contract!ContractInit

\* For the user a job does no more than its request permits, does nothing twice,
\* claims no more than it did, and says cancelled only when asked: whatever its
\* workers, the other jobs, the faults and the crashes do in between.
THEOREM ApplyImplementsContract == ASSUME ~MayRefresh PROVE Spec => ImplementsContract
<1>1. TypeInv /\ PhaseInv /\ SentInv /\ CountInv /\ JobInv /\ TableInv /\ [Next]_vars =>
          [Contract!ContractNext]_(Contract!contractVars)
  BY StepImplements
<1> QED BY <1>1, InitImplements, TypeCorrect, PhasesHold, HeldRowsHold, CountInvHolds, JobsHold,
           TableHolds, PTL DEF Spec, ImplementsContract, Contract!ContractSpec
=============================================================================
