------------------------- MODULE CleanupApplyProofs -------------------------
(***************************************************************************)
(* Theorems about the apply phase, for every plan, every set of jobs and   *)
(* requests, every page size and clamp, and every mix of faults.           *)
(***************************************************************************)
EXTENDS CleanupApply, FiniteSetTheorems, WellFoundedInduction, TLAPS

\* A non-empty set of naturals has a lowest member, which Lowest picks: among
\* the intervals 0..s, one is minimal for inclusion.
LEMMA LowestIsMember ==
    ASSUME NEW S \in SUBSET Nat, S # {}
    PROVE  Lowest(S) \in S /\ \A t \in S : Lowest(S) <= t
<1> DEFINE R == StrictSubsetOrdering(Nat)
           T == {0..s : s \in S}
<1>1. T \subseteq FiniteSubsetsOf(Nat)
  <2>1. \A s \in S : IsFiniteSet(0..s)
    BY FS_Interval
  <2>2. \A s \in S : 0..s \in SUBSET Nat
    OBVIOUS
  <2> QED BY <2>1, <2>2 DEF FiniteSubsetsOf
<1>2. IsWellFoundedOn(R, FiniteSubsetsOf(Nat)) /\ T # {}
  BY FS_StrictSubsetOrderingWellFounded
<1>3. PICK I \in T : \A J \in T : <<J, I>> \notin R
  <2> HIDE DEF R, T
  <2> QED BY <1>1, <1>2, WFMin
<1>4. PICK x \in S : I = 0..x
  BY <1>3
<1>5. \A y \in S : x <= y
  <2>1. SUFFICES ASSUME NEW y \in S, y < x PROVE FALSE
    OBVIOUS
  <2>2. 0..y \subseteq 0..x /\ 0..y # 0..x /\ 0..y \in T
    BY <2>1
  <2> QED BY <1>1, <1>3, <1>4, <2>2 DEF StrictSubsetOrdering, FiniteSubsetsOf
<1> QED BY <1>5 DEF Lowest

\* MAX(seq) is a natural number.
LEMMA MaxUsedType ==
    ASSUME TypeOK PROVE MaxUsed \in Nat
<1> DEFINE P == Present(rows)
           D == {MaxSeq - s : s \in P}
<1>1. CASE P = {}
  BY <1>1 DEF MaxUsed
<1>2. CASE P # {}
  <2>1. P \in SUBSET Seqs /\ MaxSeq \in Nat
    BY ConstantsAssumption DEF Present
  <2>2. D \in SUBSET Nat /\ D # {}
    BY <1>2, <2>1 DEF Seqs
  <2>3. PICK s \in P : Lowest(D) = MaxSeq - s
    BY <2>2, LowestIsMember
  <2>4. \A t \in P : t <= s
    <3>1. TAKE t \in P
    <3>2. MaxSeq - s <= MaxSeq - t
      BY <2>2, <2>3, LowestIsMember
    <3> QED BY <2>1, <3>2 DEF Seqs
  <2> QED BY <1>2, <2>1, <2>4 DEF MaxUsed, Seqs
<1> QED BY <1>1, <1>2
-----------------------------------------------------------------------------
(* Type correctness *)

\* The points of a worker's loop at which it has a row in hand.
RowPcs == {"expand", "append", "dispatch", "markApplied", "markFailed",
           "auditApplied", "auditFailed", "auditSkipped"}

\* TypeOK is inductive only together with this: a worker inside an iteration
\* has a row, so that Head and Item denote a seq and a row.
HasRow == \A w \in Workers : pc[w] \in RowPcs => Present(todo[w]) # {}

TypeInv == TypeOK /\ HasRow

\* A worker with a row in hand: its seq, and the row as it was loaded.
LEMMA HeadType ==
    ASSUME TypeOK, NEW w \in Workers, Present(todo[w]) # {}
    PROVE  Head(w) \in Present(todo[w]) /\ Head(w) \in Seqs /\ Item(w) \in Row
<1>1. Present(todo[w]) \in SUBSET Seqs /\ Seqs \in SUBSET Nat
  BY ConstantsAssumption DEF Present, Seqs
<1>2. Head(w) \in Present(todo[w])
  BY <1>1, LowestIsMember DEF Head
<1>3. todo[w] \in Table
  BY DEF TypeOK
<1> QED BY <1>1, <1>2, <1>3 DEF Present, Item, Table

\* Writing a status keeps the table a table.
LEMMA WithStatusType ==
    ASSUME rows \in Table, NEW s \in Seqs, NEW st \in RowStatus
    PROVE  WithStatus(s, st) \in Table /\ WithPredicateStatus(s, st) \in Table
<1>1. rows[s] # NoRow => [rows[s] EXCEPT !.status = st] \in Row
  BY DEF Table, Row
<1>2. rows[s] # NoRow => [rows EXCEPT ![s].status = st] \in Table
  BY <1>1 DEF Table
<1> QED BY <1>2 DEF WithStatus, WithPredicateStatus

\* One more row of an outcome keeps the counts natural numbers.
LEMMA BumpType ==
    ASSUME counts \in [Workers -> Counts], NEW w \in Workers, NEW f \in CountFields
    PROVE  Bump(w, f) => counts' \in [Workers -> Counts]
BY DEF Bump, Counts

\* Moving on, and moving the program counter, keep their types.
LEMMA AdvanceGotoType ==
    ASSUME TypeOK, NEW w \in Workers, NEW l \in WorkerPcs
    PROVE  /\ Advance(w) => todo' \in [Workers -> Table]
           /\ Goto(w, l) => pc' \in [Workers -> WorkerPcs]
<1>1. [todo[w] EXCEPT ![Head(w)] = NoRow] \in Table
  BY DEF TypeOK, Table
<1> QED BY <1>1 DEF TypeOK, Advance, Goto

\* The initial state has the right types.
LEMMA InitType == Init => TypeInv
<1>1. EmptyTable \in Table /\ ZeroCounts \in Counts
  BY DEF EmptyTable, Table, ZeroCounts, Counts
<1>2. [riskMax |-> "low", ackHigh |-> {}, ackMedium |-> {}] \in Options
  BY DEF Options, Risks
<1> QED
  BY <1>1, <1>2, ConstantsAssumption
     DEF Init, TypeInv, TypeOK, HasRow, RowPcs, JobStates, DriverPcs, WorkerPcs
\* The plan and job handlers keep the types.
LEMMA HandlerType == TypeInv /\ HandlerStep => TypeInv'
<1> USE DEF planVars, driverVars, workerVars, historyVars
<1> SUFFICES ASSUME TypeInv, HandlerStep PROVE TypeInv'
  OBVIOUS
<1>1. ASSUME NEW j \in Jobs, LoadPlan(j) PROVE TypeInv'
  <2>1. PICK o \in OptionSets :
            /\ opts' = [opts EXCEPT ![j] = o]
            /\ \/ accts' = [accts EXCEPT ![j] = AccountsInReach(o)]
               \/ UNCHANGED accts
    BY <1>1 DEF LoadPlan
  <2>2. AccountsInReach(o) \subseteq Accounts
    BY DEF AccountsInReach, LoadedPlan, FirstN, Present, TypeInv, TypeOK, Table, Row
  <2>3. opts' \in [Jobs -> Options] /\ accts' \in [Jobs -> SUBSET Accounts]
    BY <2>1, <2>2, ConstantsAssumption DEF TypeInv, TypeOK
  <2>4. driver' \in [Jobs -> DriverPcs]
    BY <1>1 DEF LoadPlan, TypeInv, TypeOK, DriverPcs
  <2> QED BY <1>1, <2>3, <2>4 DEF LoadPlan, TypeInv, TypeOK, HasRow, Present
<1>2. ASSUME NEW j \in Jobs, RefuseApply(j) \/ RegisterChannel(j) \/ CreateJobFails(j)
      PROVE  TypeInv'
  <2>1. driver' \in [Jobs -> DriverPcs]
    BY <1>2 DEF RefuseApply, RegisterChannel, CreateJobFails, TypeInv, TypeOK, DriverPcs
  <2>2. channels' \subseteq Jobs
    BY <1>2 DEF RefuseApply, RegisterChannel, CreateJobFails, TypeInv, TypeOK
  <2>3. UNCHANGED <<planVars, jobRow, opts, accts, joined, combined, anyFailed, outcome,
                    workerVars, historyVars, audit, cancelled, refreshing, crashes>>
    BY <1>2 DEF RefuseApply, RegisterChannel, CreateJobFails
  <2> QED BY <2>1, <2>2, <2>3 DEF TypeInv, TypeOK, HasRow, Present
<1>3. ASSUME NEW j \in Jobs, CreateJob(j) PROVE TypeInv'
  <2>1. pc' \in [Workers -> WorkerPcs]
    BY <1>3 DEF CreateJob, TypeInv, TypeOK, WorkerPcs
  <2>2. jobRow' \in [Jobs -> [state : JobStates, counts : Counts]]
    BY <1>3 DEF CreateJob, TypeInv, TypeOK, JobStates
  <2>3. driver' \in [Jobs -> DriverPcs]
    BY <1>3 DEF CreateJob, TypeInv, TypeOK, DriverPcs
  <2>4. HasRow'
    BY <1>3 DEF CreateJob, TypeInv, HasRow, RowPcs, Present
  <2> QED BY <1>3, <2>1, <2>2, <2>3, <2>4 DEF CreateJob, TypeInv, TypeOK
<1>4. ASSUME NEW j \in Jobs, CancelApply(j) PROVE TypeInv'
  BY <1>4 DEF CancelApply, TypeInv, TypeOK, HasRow, Present
<1>5. CASE CancelPlan
  BY <1>5 DEF CancelPlan, TypeInv, TypeOK, HasRow, Present
<1>6. ASSUME NEW a \in Accounts, RefreshCheck(a) PROVE TypeInv'
  BY <1>6, ConstantsAssumption DEF RefreshCheck, TypeInv, TypeOK, HasRow, Present, Accounts
<1>7. CASE RefreshDelete
  <2>1. rows' \in Table /\ refreshing' \in 0..NumAccounts
    BY <1>7, ConstantsAssumption DEF RefreshDelete, TypeInv, TypeOK, Table
  <2> QED BY <1>7, <2>1 DEF RefreshDelete, TypeInv, TypeOK, HasRow, Present
<1> QED BY <1>1, <1>2, <1>3, <1>4, <1>5, <1>6, <1>7 DEF HandlerStep

\* The driver of a job keeps the types.
LEMMA DriverType == ASSUME NEW j \in Jobs PROVE TypeInv /\ DriverStep(j) => TypeInv'
<1> USE DEF planVars, driverVars, workerVars, historyVars
<1> SUFFICES ASSUME TypeInv, DriverStep(j) PROVE TypeInv'
  OBVIOUS
<1>1. CASE JoinWorker(j)
  <2> DEFINE S == accts[j] \ joined[j]
             a == Lowest(S)
             w == <<j, a>>
  <2>1. S \in SUBSET Nat /\ S \in SUBSET Accounts /\ S # {}
    BY <1>1, ConstantsAssumption DEF JoinWorker, TypeInv, TypeOK, Accounts
  <2>2. a \in Accounts /\ w \in Workers
    BY <2>1, LowestIsMember DEF Workers
  <2>3. joined' = [joined EXCEPT ![j] = @ \cup {a}]
    BY <1>1 DEF JoinWorker
  <2>4. joined' \in [Jobs -> SUBSET Accounts]
    BY <2>2, <2>3 DEF TypeInv, TypeOK
  <2>5. MergeCounts(combined[j], counts[w]) \in Counts
    BY <2>2 DEF TypeInv, TypeOK, MergeCounts, Counts
  <2>6. combined' \in [Jobs -> Counts]
    BY <1>1, <2>5 DEF JoinWorker, TypeInv, TypeOK
  <2>7. anyFailed' \in [Jobs -> BOOLEAN]
    BY <1>1 DEF JoinWorker, TypeInv, TypeOK
  <2>8. UNCHANGED <<planVars, jobRow, channels, opts, accts, driver, outcome, workerVars,
                    historyVars, audit, cancelled, refreshing, crashes>>
    BY <1>1 DEF JoinWorker
  <2> QED BY <2>4, <2>6, <2>7, <2>8 DEF TypeInv, TypeOK, HasRow, Present
<1>2. CASE DecideOutcome(j)
  BY <1>2 DEF DecideOutcome, TypeInv, TypeOK, HasRow, Present, DriverPcs, JobStates
<1>3. CASE PersistOutcome(j)
  <2>1. jobRow' \in [Jobs -> [state : JobStates, counts : Counts]]
    BY <1>3 DEF PersistOutcome, TypeInv, TypeOK
  <2>2. driver' \in [Jobs -> DriverPcs]
    BY <1>3 DEF PersistOutcome, TypeInv, TypeOK, DriverPcs
  <2> QED BY <1>3, <2>1, <2>2 DEF PersistOutcome, TypeInv, TypeOK, HasRow, Present
<1>4. CASE DropChannel(j)
  BY <1>4 DEF DropChannel, TypeInv, TypeOK, HasRow, Present, DriverPcs
<1> QED BY <1>1, <1>2, <1>3, <1>4 DEF DriverStep

\* What an iteration's step does to the todo table, the row in hand or not.
LEMMA HasRowStep ==
    ASSUME TypeInv, NEW w \in Workers, NEW l \in WorkerPcs, Goto(w, l),
           \/ l \notin RowPcs
           \/ Present(todo[w]) # {} /\ todo' = todo,
           \A v \in Workers : v # w => todo'[v] = todo[v]
    PROVE  HasRow'
BY DEF HasRow, TypeInv, TypeOK, Goto, Present

\* The children a worker appends are rows.
LEMMA ChildType ==
    ASSUME TypeOK, NEW w \in Workers, Head(w) \in Seqs, Item(w) \in Row, NEW s \in Block(w)
    PROVE  Child(w, s) \in Row
<1>1. base[w] \in Nat /\ page[w] \in Nat /\ PageSize \in Nat /\ MaxSeq \in Nat
  BY ConstantsAssumption DEF TypeOK
<1>2. s - base[w] \in Nat
  BY <1>1 DEF Block
<1>3. page[w] * PageSize \in Nat
  BY <1>1
<1>4. page[w] * PageSize + 1 + (s - base[w]) \in Nat
  BY <1>2, <1>3
<1>5. Head(w) \in 0..MaxSeq
  BY <1>1 DEF Seqs
<1>6. "row" \in {"row", "pred"} /\ "pending" \in RowStatus
  BY DEF RowStatus
<1>7. Item(w).risk \in Risks /\ Item(w).group \in Groups \cup {NoGroup}
  BY DEF Row
<1>8. w[1] \in Jobs /\ w[2] \in Accounts
  BY DEF Workers
<1> QED BY <1>4, <1>5, <1>6, <1>7, <1>8 DEF Child, Row

\* A worker's step keeps the types.
LEMMA WorkerType == ASSUME NEW w \in Workers PROVE TypeInv /\ WorkerStep(w) => TypeInv'
<1> USE DEF planVars, driverVars, workerVars, historyVars
<1> SUFFICES ASSUME TypeInv, WorkerStep(w) PROVE TypeInv'
  OBVIOUS
<1>a. w[1] \in Jobs /\ w[2] \in Accounts /\ TypeOK
  BY DEF Workers, TypeInv
<1>b. \A v \in Workers : v # w /\ Advance(w) => todo'[v] = todo[v]
  BY <1>a DEF Advance, TypeOK
<1>c. pc[w] \in RowPcs \/ AtRow(w) =>
        /\ Present(todo[w]) # {}
        /\ Head(w) \in Seqs /\ Item(w) \in Row
  BY <1>a, HeadType DEF TypeInv, HasRow, AtRow
<1>d. "applied" \in CountFields /\ "failed" \in CountFields /\ "skipped" \in CountFields
      /\ "pending" \in CountFields
  BY DEF CountFields
<1>e. {"loop", "ok", "err"} \subseteq WorkerPcs \ RowPcs /\ RowPcs \subseteq WorkerPcs
  BY DEF WorkerPcs, RowPcs
<1>1. CASE LoadRows(w)
  <2>1. ListOperations(w[2]) \in Table
    BY <1>a DEF TypeOK, Table, ListOperations
  <2>2. todo' \in [Workers -> Table] /\ pc' \in [Workers -> WorkerPcs]
    BY <1>1, <1>a, <1>e, <2>1 DEF LoadRows, Goto, TypeOK
  <2>3. \A v \in Workers : v # w => todo'[v] = todo[v]
    BY <1>1, <1>a DEF LoadRows, TypeOK
  <2>4. HasRow'
    BY <1>1, <1>e, <2>3, HasRowStep DEF LoadRows
  <2> QED BY <1>1, <1>a, <2>2, <2>4 DEF LoadRows, TypeInv, TypeOK
<1>2. CASE FinishWorker(w) \/ StopCancelled(w)
  <2>1. PICK l \in {"ok", "err"} : Goto(w, l)
    BY <1>2 DEF FinishWorker, StopCancelled
  <2>2. HasRow' /\ pc' \in [Workers -> WorkerPcs]
    BY <1>2, <1>a, <1>e, <2>1, HasRowStep, AdvanceGotoType DEF FinishWorker, StopCancelled
  <2> QED BY <1>2, <1>a, <2>2 DEF FinishWorker, StopCancelled, TypeInv, TypeOK
<1>3. CASE LeavePending(w)
  <2>1. todo' \in [Workers -> Table] /\ counts' \in [Workers -> Counts]
    BY <1>3, <1>a, <1>d, <1>e, AdvanceGotoType, BumpType DEF LeavePending, TypeOK
  <2>2. HasRow'
    BY <1>3, <1>a, <1>b DEF LeavePending, AtRow, RowPcs, HasRow, TypeInv, Present
  <2> QED BY <1>3, <1>a, <2>1, <2>2 DEF LeavePending, TypeInv, TypeOK
<1>4. CASE SkipRow(w)
  <2>1. WithStatus(Head(w), "skipped") \in Table
    BY <1>4, <1>a, <1>c, WithStatusType DEF SkipRow, TypeOK, RowStatus
  <2>2. rows' \in Table /\ counts' \in [Workers -> Counts]
    BY <1>4, <1>a, <1>d, <2>1, BumpType DEF SkipRow, TypeOK
  <2>3. PICK l \in {"auditSkipped", "err"} : Goto(w, l)
    BY <1>4 DEF SkipRow
  <2>4. HasRow' /\ pc' \in [Workers -> WorkerPcs]
    BY <1>4, <1>a, <1>c, <1>e, <2>3, HasRowStep, AdvanceGotoType DEF SkipRow, RowPcs
  <2> QED BY <1>4, <1>a, <2>2, <2>4 DEF SkipRow, TypeInv, TypeOK
<1>5. CASE PassOver(w)
  <2>1. todo' \in [Workers -> Table]
    BY <1>5, <1>a, <1>e, AdvanceGotoType DEF PassOver
  <2>2. HasRow'
    BY <1>5, <1>a, <1>b DEF PassOver, Selected, AtRow, RowPcs, HasRow, TypeInv, Present
  <2> QED BY <1>5, <1>a, <2>1, <2>2 DEF PassOver, TypeInv, TypeOK
<1>6. CASE BeginExpansion(w)
  <2>1. WithPredicateStatus(Head(w), "expanding") \in Table
    BY <1>6, <1>a, <1>c, WithStatusType DEF BeginExpansion, Selected, TypeOK, RowStatus
  <2>2. rows' \in Table /\ page' \in [Workers -> Nat]
    BY <1>6, <1>a, <2>1 DEF BeginExpansion, TypeOK
  <2>3. HasRow' /\ pc' \in [Workers -> WorkerPcs]
    BY <1>6, <1>a, <1>c, <1>e, HasRowStep, AdvanceGotoType DEF BeginExpansion, Selected, RowPcs
  <2> QED BY <1>6, <1>a, <2>2, <2>3 DEF BeginExpansion, TypeInv, TypeOK
<1>7. CASE ReadPage(w)
  <2>1. Head(w) + 1 \in Nat /\ MaxUsed + 1 \in Nat
    BY <1>7, <1>a, <1>c, ConstantsAssumption, MaxUsedType DEF ReadPage, RowPcs, Seqs
  <2>2. base' \in [Workers -> Nat]
    BY <1>7, <1>a, <2>1 DEF ReadPage, TypeOK
  <2>3. HasRow' /\ pc' \in [Workers -> WorkerPcs]
    BY <1>7, <1>a, <1>c, <1>e, HasRowStep, AdvanceGotoType DEF ReadPage, RowPcs
  <2> QED BY <1>7, <1>a, <2>2, <2>3 DEF ReadPage, TypeInv, TypeOK
<1>8. CASE AppendChildren(w)
  <2>1. Present(todo[w]) # {} /\ Head(w) \in Seqs /\ Item(w) \in Row
    BY <1>8, <1>c DEF AppendChildren, RowPcs
  <2>2. \A s \in Block(w) : Child(w, s) \in Row
    BY <1>a, <2>1, ChildType
  <2>3. rows' \in Table
    BY <1>8, <1>a, <2>2 DEF AppendChildren, Table, TypeOK
  <2>4. page' \in [Workers -> Nat]
    BY <1>8, <1>a DEF AppendChildren, TypeOK
  <2>5. HasRow' /\ pc' \in [Workers -> WorkerPcs]
    BY <1>8, <1>a, <1>e, <2>1, HasRowStep, AdvanceGotoType DEF AppendChildren, RowPcs
  <2> QED BY <1>8, <1>a, <2>3, <2>4, <2>5 DEF AppendChildren, TypeInv, TypeOK
<1>9. CASE ExpansionFails(w)
  <2>1. pc[w] \in RowPcs
    BY <1>9 DEF ExpansionFails, RowPcs
  <2>2. WithPredicateStatus(Head(w), "failed") \in Table
    BY <1>a, <1>c, <2>1, WithStatusType DEF TypeOK, RowStatus
  <2>3. rows' \in Table /\ counts' \in [Workers -> Counts]
    BY <1>9, <1>a, <1>d, <2>2, BumpType DEF ExpansionFails, TypeOK
  <2>4. todo' \in [Workers -> Table] /\ pc' \in [Workers -> WorkerPcs]
    BY <1>9, <1>a, <1>e, AdvanceGotoType DEF ExpansionFails
  <2>5. HasRow'
    BY <1>9, <1>b, <1>e, HasRowStep DEF ExpansionFails
  <2> QED BY <1>9, <1>a, <2>3, <2>4, <2>5 DEF ExpansionFails, TypeInv, TypeOK
<1>10. CASE EndExpansion(w)
  <2>1. WithPredicateStatus(Head(w), "expanded") \in Table
    BY <1>10, <1>a, <1>c, WithStatusType DEF EndExpansion, TypeOK, RowStatus, RowPcs
  <2>2. rows' \in Table
    BY <1>10, <1>a, <2>1 DEF EndExpansion, TypeOK
  <2>3. todo' \in [Workers -> Table] /\ pc' \in [Workers -> WorkerPcs]
    BY <1>10, <1>a, <1>e, AdvanceGotoType DEF EndExpansion
  <2>4. HasRow'
    BY <1>10, <1>b, <1>e, HasRowStep DEF EndExpansion
  <2> QED BY <1>10, <1>a, <2>2, <2>3, <2>4 DEF EndExpansion, TypeInv, TypeOK
<1>11. CASE BeginDispatch(w) \/ DispatchRejected(w)
  <2>1. Present(todo[w]) # {}
    BY <1>11, <1>c DEF BeginDispatch, Selected, DispatchRejected, RowPcs
  <2>2. PICK l \in {"dispatch", "markFailed"} : Goto(w, l)
    BY <1>11 DEF BeginDispatch, DispatchRejected
  <2>3. HasRow' /\ pc' \in [Workers -> WorkerPcs]
    BY <1>11, <1>a, <1>e, <2>1, <2>2, HasRowStep, AdvanceGotoType
       DEF BeginDispatch, DispatchRejected, RowPcs
  <2> QED BY <1>11, <1>a, <2>3 DEF BeginDispatch, DispatchRejected, TypeInv, TypeOK
<1>12. CASE DispatchOk(w)
  <2>1. Present(todo[w]) # {} /\ Head(w) \in Seqs
    BY <1>12, <1>c DEF DispatchOk, RowPcs
  <2>2. sent' \in [Workers -> [Seqs -> Nat]]
    BY <1>12, <1>a, <2>1 DEF DispatchOk, TypeOK
  <2>3. HasRow' /\ pc' \in [Workers -> WorkerPcs]
    BY <1>12, <1>a, <1>e, <2>1, HasRowStep, AdvanceGotoType DEF DispatchOk, RowPcs
  <2> QED BY <1>12, <1>a, <2>2, <2>3 DEF DispatchOk, TypeInv, TypeOK
<1>13. CASE PauseAccount(w)
  <2>1. HasRow' /\ pc' \in [Workers -> WorkerPcs] /\ counts' \in [Workers -> Counts]
    BY <1>13, <1>a, <1>d, <1>e, HasRowStep, AdvanceGotoType, BumpType DEF PauseAccount, TypeOK
  <2> QED BY <1>13, <1>a, <2>1 DEF PauseAccount, TypeInv, TypeOK
<1>14. CASE MarkRow(w)
  <2>1. PICK st \in {"applied", "failed"} :
          /\ pc[w] = (IF st = "applied" THEN "markApplied" ELSE "markFailed")
          /\ \/ /\ rows' = WithStatus(Head(w), st)
                /\ Bump(w, st)
                /\ Goto(w, IF st = "applied" THEN "auditApplied" ELSE "auditFailed")
             \/ /\ Goto(w, "err")
                /\ UNCHANGED <<rows, counts>>
    BY <1>14 DEF MarkRow
  <2>2. pc[w] \in RowPcs
    BY <2>1 DEF RowPcs
  <2>3. WithStatus(Head(w), st) \in Table
    BY <1>a, <1>c, <2>2, WithStatusType DEF TypeOK, RowStatus
  <2>4. rows' \in Table /\ counts' \in [Workers -> Counts]
    BY <1>a, <1>d, <2>1, <2>3, BumpType DEF TypeOK
  <2>5. PICK l \in {"auditApplied", "auditFailed", "err"} : Goto(w, l)
    BY <2>1
  <2>6. HasRow' /\ pc' \in [Workers -> WorkerPcs]
    BY <1>14, <1>a, <1>c, <1>e, <2>2, <2>5, HasRowStep, AdvanceGotoType DEF MarkRow, RowPcs
  <2> QED BY <1>14, <1>a, <2>4, <2>6 DEF MarkRow, TypeInv, TypeOK
<1>15. CASE WriteAudit(w)
  <2>1. pc[w] \in RowPcs
    BY <1>15 DEF WriteAudit, RowPcs
  <2>2. audit' \subseteq [job : Jobs, seq : Seqs, outcome : {"applied", "failed", "skipped"}]
    BY <1>15, <1>a, <1>c, <2>1 DEF WriteAudit, TypeOK
  <2>3. todo' \in [Workers -> Table] /\ pc' \in [Workers -> WorkerPcs]
    BY <1>15, <1>a, <1>e, AdvanceGotoType DEF WriteAudit
  <2>4. HasRow'
    BY <1>15, <1>b, <1>e, HasRowStep DEF WriteAudit
  <2> QED BY <1>15, <1>a, <2>2, <2>3, <2>4 DEF WriteAudit, TypeInv, TypeOK
<1> QED
  BY <1>1, <1>2, <1>3, <1>4, <1>5, <1>6, <1>7, <1>8, <1>9, <1>10, <1>11, <1>12, <1>13, <1>14,
     <1>15 DEF WorkerStep

\* A crash keeps the types.
LEMMA CrashType == TypeInv /\ Crash => TypeInv'
<1> SUFFICES ASSUME TypeInv, Crash PROVE TypeInv'
  OBVIOUS
<1>1. driver' \in [Jobs -> DriverPcs] /\ pc' \in [Workers -> WorkerPcs]
  BY DEF Crash, TypeInv, TypeOK, DriverPcs, WorkerPcs
<1>2. todo' \in [Workers -> Table]
  BY DEF Crash, EmptyTable, Table
<1>3. refreshing' \in 0..NumAccounts /\ crashes' \in 0..MaxCrashes
  BY ConstantsAssumption DEF Crash, TypeInv, TypeOK
<1>4. HasRow'
  <2>1. SUFFICES ASSUME NEW w \in Workers, pc'[w] \in RowPcs PROVE FALSE
    BY DEF HasRow
  <2> QED BY <2>1 DEF Crash, RowPcs
<1>5. channels' \subseteq Jobs /\ cancelled' \subseteq Jobs
  BY DEF Crash
<1> QED
  BY <1>1, <1>2, <1>3, <1>4, <1>5
     DEF Crash, TypeInv, TypeOK, planVars, historyVars

LEMMA TypeStep == TypeInv /\ [Next]_vars => TypeInv'
<1>1. CASE UNCHANGED vars
  BY <1>1 DEF vars, planVars, driverVars, workerVars, historyVars, TypeInv, TypeOK, HasRow,
             Present
<1> QED BY <1>1, HandlerType, DriverType, WorkerType, CrashType DEF Next

\* Every reachable state of every plan and every request has the types of the
\* source, and a worker inside an iteration has a row in hand.
THEOREM TypeCorrect == Spec => []TypeInv
BY InitType, TypeStep, PTL DEF Spec

\* The type invariant the runs check.
THEOREM TypesHold == Spec => []TypeOK
BY TypeCorrect, PTL DEF TypeInv
-----------------------------------------------------------------------------
(* Phases: where a job and its workers are with respect to each other *)

Waiting == {"none", "loaded", "registered"}

\* A worker at work has not been awaited, and its driver still runs.
ActiveIsAwaited ==
    \A w \in Workers : Active(w) =>
        driver[w[1]] = "running" /\ w[2] \in accts[w[1]] \ joined[w[1]]

\* From registration until it is dropped, a job's channel is there.
PhaseChannels ==
    \A j \in Jobs : driver[j] \in {"registered", "running", "decided", "persisted"}
                        => j \in channels

\* The job row is written when the driver starts and again when it has decided.
PhaseRows ==
    \A j \in Jobs :
        /\ driver[j] \in Waiting => jobRow[j].state = "none"
        /\ driver[j] \in {"running", "decided"} => jobRow[j].state = "running"

\* Nothing of a job has run before its driver.
PhaseWaiting ==
    \A j \in Jobs : driver[j] \in Waiting =>
        /\ joined[j] = {}
        /\ \A w \in Workers : w[1] = j => pc[w] = "idle"

PhaseInv == ActiveIsAwaited /\ PhaseChannels /\ PhaseRows /\ PhaseWaiting

\* A worker's step leaves the driver's state and the other workers alone, and
\* is taken at work.
LEMMA WorkerFrame ==
    ASSUME TypeInv, NEW w \in Workers, WorkerStep(w)
    PROVE  /\ UNCHANGED <<driverVars, cancelled>>
           /\ Active(w)
           /\ pc' \in [Workers -> WorkerPcs] /\ pc'[w] \notin {"idle", "load"}
           /\ \A v \in Workers : v # w =>
                pc'[v] = pc[v] /\ todo'[v] = todo[v] /\ sent'[v] = sent[v]
<1> USE DEF driverVars, workerVars, historyVars
<1>1. TypeInv'
  BY WorkerType
<1>2. pc \in [Workers -> WorkerPcs] /\ pc' \in [Workers -> WorkerPcs]
  BY <1>1 DEF TypeInv, TypeOK
<1>3. todo \in [Workers -> Table] /\ sent \in [Workers -> [Seqs -> Nat]]
  BY DEF TypeInv, TypeOK
<1>4. UNCHANGED <<driverVars, cancelled>>
  BY DEF WorkerStep, LoadRows, FinishWorker, StopCancelled, LeavePending, SkipRow, PassOver,
         BeginExpansion, ReadPage, AppendChildren, ExpansionFails, EndExpansion, BeginDispatch,
         DispatchOk, DispatchRejected, PauseAccount, MarkRow, WriteAudit
<1>5. Active(w)
  BY DEF WorkerStep, LoadRows, FinishWorker, StopCancelled, LeavePending, SkipRow, PassOver,
         BeginExpansion, ReadPage, AppendChildren, ExpansionFails, EndExpansion, BeginDispatch,
         DispatchOk, DispatchRejected, PauseAccount, MarkRow, WriteAudit, AtRow, Selected,
         Active
<1>6. (pc' = pc /\ pc[w] = "loop") \/ \E l \in WorkerPcs \ {"idle", "load"} : Goto(w, l)
  BY DEF WorkerStep, LoadRows, FinishWorker, StopCancelled, LeavePending, SkipRow, PassOver,
         BeginExpansion, ReadPage, AppendChildren, ExpansionFails, EndExpansion, BeginDispatch,
         DispatchOk, DispatchRejected, PauseAccount, MarkRow, WriteAudit, AtRow, Selected,
         WorkerPcs
<1>7. pc'[w] \notin {"idle", "load"} /\ \A v \in Workers : v # w => pc'[v] = pc[v]
  BY <1>2, <1>6 DEF Goto
<1>8. todo' = todo \/ Advance(w) \/ todo' = [todo EXCEPT ![w] = ListOperations(w[2])]
  BY DEF WorkerStep, LoadRows, FinishWorker, StopCancelled, LeavePending, SkipRow, PassOver,
         BeginExpansion, ReadPage, AppendChildren, ExpansionFails, EndExpansion, BeginDispatch,
         DispatchOk, DispatchRejected, PauseAccount, MarkRow, WriteAudit
<1>9. sent' = sent \/ sent' = [sent EXCEPT ![w][Head(w)] = @ + 1]
  BY DEF WorkerStep, LoadRows, FinishWorker, StopCancelled, LeavePending, SkipRow, PassOver,
         BeginExpansion, ReadPage, AppendChildren, ExpansionFails, EndExpansion, BeginDispatch,
         DispatchOk, DispatchRejected, PauseAccount, MarkRow, WriteAudit
<1> QED BY <1>2, <1>3, <1>4, <1>5, <1>7, <1>8, <1>9 DEF Advance

LEMMA PhaseInit == Init => PhaseInv
BY DEF Init, PhaseInv, ActiveIsAwaited, Active, PhaseChannels, PhaseRows, PhaseWaiting, Waiting,
       Workers

\* The handlers: a request that is loaded, refused or registered has no worker,
\* and the driver starts together with them.
LEMMA PhaseHandler == TypeInv /\ PhaseInv /\ HandlerStep => PhaseInv'
<1> USE DEF planVars, driverVars, workerVars, historyVars, PhaseInv, ActiveIsAwaited, Active,
            PhaseChannels, PhaseRows, PhaseWaiting
<1> SUFFICES ASSUME TypeInv, PhaseInv, HandlerStep PROVE PhaseInv'
  OBVIOUS
<1>a. /\ driver \in [Jobs -> DriverPcs] /\ accts \in [Jobs -> SUBSET Accounts]
      /\ jobRow \in [Jobs -> [state : JobStates, counts : Counts]]
      /\ \A w \in Workers : w[1] \in Jobs /\ w[2] \in Accounts
  BY DEF TypeInv, TypeOK, Workers
<1>1. ASSUME NEW j \in Jobs, LoadPlan(j) PROVE PhaseInv'
  <2>1. \A w \in Workers : Active(w) => w[1] # j
    BY <1>1, <1>a DEF LoadPlan
  <2>2. driver'[j] \in {"loaded", "refused"} /\ \A k \in Jobs \ {j} :
            driver'[k] = driver[k] /\ accts'[k] = accts[k]
    BY <1>1, <1>a DEF LoadPlan
  <2>3. UNCHANGED <<jobRow, channels, joined, pc>>
    BY <1>1 DEF LoadPlan
  <2>4. ActiveIsAwaited'
    BY <1>a, <2>1, <2>2, <2>3
  <2>5. PhaseChannels' /\ PhaseRows' /\ PhaseWaiting'
    BY <1>1, <1>a, <2>2, <2>3 DEF LoadPlan, Waiting
  <2> QED BY <2>4, <2>5
<1>2. ASSUME NEW j \in Jobs, RefuseApply(j) \/ RegisterChannel(j) \/ CreateJobFails(j)
      PROVE  PhaseInv'
  <2>1. driver[j] \in Waiting /\ driver'[j] \in {"refused", "registered", "createFailed"}
    BY <1>2, <1>a DEF RefuseApply, RegisterChannel, CreateJobFails, Waiting
  <2>2. \A k \in Jobs \ {j} : driver'[k] = driver[k]
    BY <1>2, <1>a DEF RefuseApply, RegisterChannel, CreateJobFails
  <2>3. channels \subseteq channels' /\ (driver'[j] = "registered" => j \in channels')
    BY <1>2, <1>a DEF RefuseApply, RegisterChannel, CreateJobFails
  <2>4. UNCHANGED <<jobRow, accts, joined, pc>>
    BY <1>2 DEF RefuseApply, RegisterChannel, CreateJobFails
  <2>5. \A w \in Workers : Active(w) => w[1] # j
    BY <2>1 DEF Waiting
  <2>6. ActiveIsAwaited'
    BY <1>a, <2>2, <2>4, <2>5
  <2>7. PhaseChannels' /\ PhaseRows' /\ PhaseWaiting'
    BY <2>1, <2>2, <2>3, <2>4 DEF Waiting
  <2> QED BY <2>6, <2>7
<1>3. ASSUME NEW j \in Jobs, CreateJob(j) PROVE PhaseInv'
  <2>1. driver[j] = "registered" /\ driver'[j] = "running" /\ jobRow'[j].state = "running"
    BY <1>3, <1>a DEF CreateJob
  <2>2. \A k \in Jobs \ {j} : driver'[k] = driver[k] /\ jobRow'[k] = jobRow[k]
    BY <1>3, <1>a DEF CreateJob
  <2>3. UNCHANGED <<channels, accts, joined>>
    BY <1>3 DEF CreateJob
  <2>4. \A w \in Workers : pc'[w] = IF w[1] = j /\ w[2] \in accts[j] THEN "load" ELSE pc[w]
    BY <1>3 DEF CreateJob
  <2>5. joined[j] = {} /\ \A w \in Workers : w[1] = j => pc[w] = "idle"
    BY <2>1 DEF Waiting
  <2>6. ActiveIsAwaited'
    BY <1>a, <2>1, <2>2, <2>3, <2>4, <2>5
  <2>7. PhaseChannels' /\ PhaseRows' /\ PhaseWaiting'
    BY <1>a, <2>1, <2>2, <2>3, <2>4 DEF Waiting
  <2> QED BY <2>6, <2>7
<1>4. ASSUME NEW j \in Jobs, CancelApply(j) PROVE PhaseInv'
  BY <1>4 DEF CancelApply
<1>5. CASE CancelPlan \/ RefreshDelete \/ \E a \in Accounts : RefreshCheck(a)
  BY <1>5 DEF CancelPlan, RefreshDelete, RefreshCheck
<1> QED BY <1>1, <1>2, <1>3, <1>4, <1>5 DEF HandlerStep

\* The driver: it moves on only when every worker has been awaited.
LEMMA PhaseDriver ==
    ASSUME TypeInv, PhaseInv, NEW j \in Jobs, DriverStep(j) PROVE PhaseInv'
<1> USE DEF planVars, driverVars, workerVars, historyVars, PhaseInv, ActiveIsAwaited, Active,
            PhaseChannels, PhaseRows, PhaseWaiting
<1>a. /\ driver \in [Jobs -> DriverPcs] /\ accts \in [Jobs -> SUBSET Accounts]
      /\ joined \in [Jobs -> SUBSET Accounts]
      /\ jobRow \in [Jobs -> [state : JobStates, counts : Counts]]
      /\ \A w \in Workers : w = <<w[1], w[2]>> /\ w[1] \in Jobs /\ w[2] \in Accounts
  BY DEF TypeInv, TypeOK, Workers
<1>1. CASE JoinWorker(j)
  <2> DEFINE a == Lowest(accts[j] \ joined[j])
  <2>1. driver[j] = "running" /\ pc[<<j, a>>] \in {"ok", "err"}
        /\ joined' = [joined EXCEPT ![j] = @ \cup {a}]
    BY <1>1 DEF JoinWorker
  <2>2. UNCHANGED <<jobRow, channels, accts, driver, pc>>
    BY <1>1 DEF JoinWorker
  <2> HIDE DEF a
  <2>3. joined'[j] = joined[j] \cup {a} /\ \A k \in Jobs \ {j} : joined'[k] = joined[k]
    BY <1>a, <2>1
  <2>4. \A w \in Workers : Active(w) /\ w[1] = j => w[2] # a
    BY <1>a, <2>1
  <2>5. ActiveIsAwaited'
    BY <1>a, <2>2, <2>3, <2>4
  <2>6. PhaseChannels' /\ PhaseRows' /\ PhaseWaiting'
    BY <2>1, <2>2, <2>3 DEF Waiting
  <2> QED BY <2>5, <2>6
<1>2. CASE DecideOutcome(j) \/ PersistOutcome(j) \/ DropChannel(j)
  <2>1. \A w \in Workers : Active(w) => w[1] # j
    BY <1>2, <1>a DEF DecideOutcome, PersistOutcome, DropChannel
  <2>2. UNCHANGED <<accts, joined, pc>> /\ \A k \in Jobs \ {j} :
            driver'[k] = driver[k] /\ jobRow'[k] = jobRow[k]
    BY <1>2, <1>a DEF DecideOutcome, PersistOutcome, DropChannel
  <2>3. /\ driver'[j] \in {"decided", "persisted", "done"}
        /\ driver'[j] = "decided" => driver[j] = "running" /\ jobRow' = jobRow
        /\ driver'[j] # "done" => channels' = channels
                                  /\ driver[j] \in {"running", "decided"}
        /\ channels \ {j} \subseteq channels'
    BY <1>2, <1>a DEF DecideOutcome, PersistOutcome, DropChannel
  <2>4. ActiveIsAwaited'
    BY <1>a, <2>1, <2>2
  <2>5. PhaseChannels' /\ PhaseRows' /\ PhaseWaiting'
    BY <2>2, <2>3 DEF Waiting
  <2> QED BY <2>4, <2>5
<1> QED BY <1>1, <1>2 DEF DriverStep

\* Workers move within their job's running phase; a crash leaves none of them.
LEMMA PhaseStep == TypeInv /\ PhaseInv /\ [Next]_vars => PhaseInv'
<1> SUFFICES ASSUME TypeInv, PhaseInv, [Next]_vars PROVE PhaseInv'
  OBVIOUS
<1>1. ASSUME NEW w \in Workers, WorkerStep(w) PROVE PhaseInv'
  <2>1. /\ UNCHANGED <<jobRow, channels, accts, driver, joined>>
        /\ Active(w)
        /\ \A v \in Workers : v # w => pc'[v] = pc[v]
    BY <1>1, WorkerFrame DEF driverVars
  <2>2. w[1] \in Jobs
    BY DEF Workers
  <2> QED BY <2>1, <2>2 DEF PhaseInv, ActiveIsAwaited, Active, PhaseChannels, PhaseRows,
                            PhaseWaiting, Waiting
<1>2. CASE Crash
  <2>1. UNCHANGED <<jobRow, accts, joined>>
    BY <1>2 DEF Crash
  <2>2. \A w \in Workers : ~Active(w)'
    BY <1>2 DEF Crash, Active
  <2>3. \A j \in Jobs : \/ driver'[j] \in {"refused", "done", "dead"}
                        \/ driver'[j] = "none" /\ driver[j] = "none"
    BY <1>2 DEF Crash
  <2>4. \A w \in Workers : pc[w] = "idle" => pc'[w] = "idle"
    BY <1>2 DEF Crash
  <2> QED BY <2>1, <2>2, <2>3, <2>4 DEF PhaseInv, ActiveIsAwaited, PhaseChannels, PhaseRows,
                                        PhaseWaiting, Waiting
<1>3. CASE UNCHANGED vars
  BY <1>3 DEF vars, driverVars, workerVars, PhaseInv, ActiveIsAwaited, Active, PhaseChannels,
              PhaseRows, PhaseWaiting
<1> QED BY <1>1, <1>2, <1>3, PhaseHandler, PhaseDriver DEF Next

\* The phases hold throughout.
THEOREM PhasesHold == Spec => []PhaseInv
<1>1. Init => TypeInv /\ PhaseInv
  BY InitType, PhaseInit
<1> QED BY <1>1, TypeCorrect, PhaseStep, PTL DEF Spec

\* A worker at work is visible to is_running_for_plan: its job has a channel
\* and a row in state running.  Whatever the number of jobs, accounts, faults
\* and crashes.
THEOREM WorkersVisible == Spec => []ActiveWorkersAreVisible
<1>1. PhaseInv => ActiveWorkersAreVisible
  BY DEF PhaseInv, ActiveIsAwaited, PhaseChannels, PhaseRows, ActiveWorkersAreVisible, Workers
<1> QED BY <1>1, PhasesHold, PTL

\* A job row that reached a terminal state keeps it: the row is written once
\* when the driver starts and once when it has decided, and by nobody else.
THEOREM TerminalStays == Spec => TerminalJobsStay
<1>1. TypeInv /\ PhaseInv /\ [Next]_vars =>
        [\A j \in Jobs : jobRow[j].state \in {"finished", "failed", "cancelled"}
                            => jobRow'[j] = jobRow[j]]_vars
  <2> SUFFICES ASSUME TypeInv, PhaseInv, Next, NEW k \in Jobs,
                      jobRow[k].state \in {"finished", "failed", "cancelled"}
               PROVE  jobRow'[k] = jobRow[k]
    OBVIOUS
  <2>1. jobRow \in [Jobs -> [state : JobStates, counts : Counts]]
    BY DEF TypeInv, TypeOK
  <2>2. driver[k] \notin Waiting \cup {"running", "decided"}
    BY DEF PhaseInv, PhaseRows
  <2>3. CASE HandlerStep
    BY <2>1, <2>2, <2>3 DEF HandlerStep, LoadPlan, RefuseApply, RegisterChannel, CreateJob,
       CreateJobFails, CancelApply, CancelPlan, RefreshCheck, RefreshDelete, driverVars, Waiting
  <2>4. ASSUME NEW j \in Jobs, DriverStep(j) PROVE jobRow'[k] = jobRow[k]
    BY <2>1, <2>2, <2>4 DEF DriverStep, JoinWorker, DecideOutcome, PersistOutcome, DropChannel
  <2>5. ASSUME NEW w \in Workers, WorkerStep(w) PROVE jobRow'[k] = jobRow[k]
    BY <2>5, WorkerFrame DEF driverVars
  <2>6. CASE Crash
    BY <2>6 DEF Crash
  <2> QED BY <2>3, <2>4, <2>5, <2>6 DEF Next
<1> QED BY <1>1, TypeCorrect, PhasesHold, PTL DEF Spec, TerminalJobsStay
-----------------------------------------------------------------------------
(* One provider call per row and job *)

\* Nothing is sent before a worker has loaded its rows.
NothingSentYet ==
    \A w \in Workers : pc[w] \in {"idle", "load"} => \A s \in Seqs : sent[w][s] = 0

\* Of the rows a worker still holds, only the one in hand may have been sent,
\* and only between the provider call and the end of the iteration.
HeldRowsUnsent ==
    \A w \in Workers : Active(w) => \A s \in Present(todo[w]) :
        sent[w][s] > 0 => s = Head(w) /\ pc[w] \in {"markApplied", "auditApplied"}

SentInv == AtMostOncePerJob /\ NothingSentYet /\ HeldRowsUnsent

\* A step that keeps the rows and what was sent, and does not come from or go
\* to the two points after a provider call (or goes from one to the other).
LEMMA KeepsSent ==
    ASSUME TypeInv, SentInv, NEW w \in Workers, WorkerStep(w),
           todo'[w] = todo[w], sent'[w] = sent[w],
           \/ pc[w] \notin {"markApplied", "auditApplied"}
           \/ pc'[w] \in {"markApplied", "auditApplied"}
           \/ ~Active(w)'
    PROVE  SentInv'
<1>1. \A v \in Workers : v # w => pc'[v] = pc[v] /\ todo'[v] = todo[v] /\ sent'[v] = sent[v]
  BY WorkerFrame
<1>2. Active(w) /\ pc'[w] \notin {"idle", "load"}
  BY WorkerFrame
<1>3. \A v \in Workers : todo'[v] = todo[v] /\ sent'[v] = sent[v]
  BY <1>1
<1>4. AtMostOncePerJob' /\ NothingSentYet'
  BY <1>1, <1>2, <1>3 DEF SentInv, AtMostOncePerJob, NothingSentYet
<1>5. HeldRowsUnsent'
  <2>1. SUFFICES ASSUME NEW v \in Workers, Active(v)', NEW s \in Present(todo'[v]),
                        sent'[v][s] > 0
                 PROVE  s = Head(v)' /\ pc'[v] \in {"markApplied", "auditApplied"}
    BY DEF HeldRowsUnsent
  <2>2. Head(v)' = Head(v) /\ s \in Present(todo[v]) /\ sent[v][s] > 0
    BY <1>3, <2>1 DEF Head
  <2>3. Active(v)
    BY <1>1, <1>2, <2>1 DEF Active
  <2>4. s = Head(v) /\ pc[v] \in {"markApplied", "auditApplied"}
    BY <2>2, <2>3 DEF SentInv, HeldRowsUnsent
  <2> QED BY <1>1, <2>1, <2>2, <2>4
<1> QED BY <1>4, <1>5 DEF SentInv

\* A step that finishes the row in hand leaves only rows that were not sent.
LEMMA AdvanceSent ==
    ASSUME TypeInv, SentInv, NEW w \in Workers, WorkerStep(w), Advance(w), sent' = sent
    PROVE  SentInv'
<1>1. \A v \in Workers : v # w => pc'[v] = pc[v] /\ todo'[v] = todo[v]
  BY WorkerFrame
<1>2. Active(w) /\ pc'[w] \notin {"idle", "load"}
  BY WorkerFrame
<1>3. AtMostOncePerJob' /\ NothingSentYet'
  BY <1>1, <1>2 DEF SentInv, AtMostOncePerJob, NothingSentYet
<1>4. todo \in [Workers -> [Seqs -> Row \cup {NoRow}]]
  BY DEF TypeInv, TypeOK, Table
<1>5. \A s \in Present(todo'[w]) : s \in Present(todo[w]) /\ s # Head(w)
  BY <1>4 DEF Advance, Present
<1>6. HeldRowsUnsent'
  <2>1. SUFFICES ASSUME NEW v \in Workers, Active(v)', NEW s \in Present(todo'[v]),
                        sent[v][s] > 0
                 PROVE  s = Head(v)' /\ pc'[v] \in {"markApplied", "auditApplied"}
    BY DEF HeldRowsUnsent
  <2>2. CASE v = w
    BY <1>2, <1>5, <2>1, <2>2 DEF SentInv, HeldRowsUnsent
  <2>3. CASE v # w
    <3>1. Head(v)' = Head(v) /\ s \in Present(todo[v]) /\ Active(v)
      BY <1>1, <2>1, <2>3 DEF Head, Active
    <3> QED BY <1>1, <2>1, <2>3, <3>1 DEF SentInv, HeldRowsUnsent
  <2> QED BY <2>2, <2>3
<1> QED BY <1>3, <1>6 DEF SentInv

\* The provider call: the row in hand has not been sent before.
LEMMA DispatchSent ==
    ASSUME TypeInv, SentInv, NEW w \in Workers, DispatchOk(w)
    PROVE  SentInv'
<1>1. WorkerStep(w)
  BY DEF WorkerStep
<1>2. \A v \in Workers : v # w => pc'[v] = pc[v] /\ todo'[v] = todo[v] /\ sent'[v] = sent[v]
  BY <1>1, WorkerFrame
<1>3. Active(w) /\ pc'[w] = "markApplied" /\ pc[w] = "dispatch" /\ todo' = todo
  BY <1>1, WorkerFrame DEF DispatchOk, Goto, TypeInv, TypeOK
<1>4. Head(w) \in Present(todo[w]) /\ Head(w) \in Seqs
  BY <1>3, HeadType DEF TypeInv, HasRow, RowPcs
<1>5. sent[w][Head(w)] = 0
  <2>1. ~(sent[w][Head(w)] > 0)
    BY <1>3, <1>4 DEF SentInv, HeldRowsUnsent
  <2>2. sent[w][Head(w)] \in Nat
    BY <1>4 DEF TypeInv, TypeOK
  <2> QED BY <2>1, <2>2
<1>6. /\ sent'[w][Head(w)] = 1
      /\ \A s \in Seqs : s # Head(w) => sent'[w][s] = sent[w][s]
  BY <1>4, <1>5 DEF DispatchOk, TypeInv, TypeOK
<1>7. AtMostOncePerJob' /\ NothingSentYet'
  BY <1>2, <1>3, <1>6 DEF SentInv, AtMostOncePerJob, NothingSentYet
<1>8. HeldRowsUnsent'
  <2>1. SUFFICES ASSUME NEW v \in Workers, Active(v)', NEW s \in Present(todo[v]),
                        sent'[v][s] > 0
                 PROVE  s = Head(v) /\ pc'[v] \in {"markApplied", "auditApplied"}
    BY <1>3 DEF HeldRowsUnsent, Head
  <2>2. CASE v = w
    <3>1. s \in Seqs
      BY DEF Present
    <3> QED BY <1>3, <1>6, <2>1, <2>2, <3>1 DEF SentInv, HeldRowsUnsent
  <2>3. CASE v # w
    BY <1>2, <2>1, <2>3 DEF SentInv, HeldRowsUnsent, Active
  <2> QED BY <2>2, <2>3
<1> QED BY <1>7, <1>8 DEF SentInv

LEMMA SentStep == TypeInv /\ PhaseInv /\ SentInv /\ [Next]_vars => SentInv'
<1> SUFFICES ASSUME TypeInv, PhaseInv, SentInv, [Next]_vars PROVE SentInv'
  OBVIOUS
<1>1. ASSUME NEW w \in Workers, WorkerStep(w) PROVE SentInv'
  <2> USE DEF workerVars, historyVars
  <2>a. pc \in [Workers -> WorkerPcs]
    BY DEF TypeInv, TypeOK
  <2>1. CASE LoadRows(w)
    <3>1. pc[w] = "load" /\ pc'[w] = "loop" /\ sent' = sent
      BY <2>a, <2>1 DEF LoadRows, Goto
    <3>2. \A v \in Workers : v # w => pc'[v] = pc[v] /\ todo'[v] = todo[v]
      BY <1>1, WorkerFrame
    <3>3. \A s \in Seqs : sent[w][s] = 0
      BY <3>1 DEF SentInv, NothingSentYet
    <3>4. AtMostOncePerJob' /\ NothingSentYet'
      BY <3>1, <3>2 DEF SentInv, AtMostOncePerJob, NothingSentYet
    <3>5. HeldRowsUnsent'
      <4>1. SUFFICES ASSUME NEW v \in Workers, Active(v)', NEW s \in Present(todo'[v]),
                            sent[v][s] > 0
                     PROVE  s = Head(v)' /\ pc'[v] \in {"markApplied", "auditApplied"}
        BY <3>1 DEF HeldRowsUnsent
      <4>2. v # w
        BY <3>3, <4>1 DEF Present
      <4>3. Head(v)' = Head(v) /\ s \in Present(todo[v]) /\ Active(v)
        BY <3>2, <4>1, <4>2 DEF Head, Active
      <4> QED BY <3>2, <4>1, <4>2, <4>3 DEF SentInv, HeldRowsUnsent
    <3> QED BY <3>4, <3>5 DEF SentInv
  <2>2. CASE FinishWorker(w) \/ StopCancelled(w) \/ SkipRow(w) \/ BeginExpansion(w)
             \/ ReadPage(w) \/ AppendChildren(w) \/ BeginDispatch(w) \/ DispatchRejected(w)
             \/ PauseAccount(w)
    <3>1. todo' = todo /\ sent' = sent
      BY <2>2 DEF FinishWorker, StopCancelled, SkipRow, BeginExpansion, ReadPage,
                  AppendChildren, BeginDispatch, DispatchRejected, PauseAccount
    <3>2. pc[w] \in {"loop", "expand", "append", "dispatch"}
      BY <2>2 DEF FinishWorker, StopCancelled, SkipRow, BeginExpansion, ReadPage,
                  AppendChildren, BeginDispatch, DispatchRejected, PauseAccount, AtRow, Selected
    <3> QED BY <1>1, <3>1, <3>2, KeepsSent
  <2>3. CASE MarkRow(w)
    <3>1. todo' = todo /\ sent' = sent
      BY <2>3 DEF MarkRow
    <3>2. \/ pc[w] = "markFailed" \/ pc'[w] \in {"auditApplied", "err"}
      BY <2>a, <2>3 DEF MarkRow, Goto
    <3> QED BY <1>1, <3>1, <3>2, KeepsSent DEF Active
  <2>4. CASE LeavePending(w) \/ PassOver(w) \/ ExpansionFails(w) \/ EndExpansion(w)
             \/ WriteAudit(w)
    <3>1. Advance(w) /\ sent' = sent
      BY <2>4 DEF LeavePending, PassOver, ExpansionFails, EndExpansion, WriteAudit
    <3> QED BY <1>1, <3>1, AdvanceSent
  <2>5. CASE DispatchOk(w)
    BY <2>5, DispatchSent
  <2> QED BY <1>1, <2>1, <2>2, <2>3, <2>4, <2>5 DEF WorkerStep
<1>2. CASE HandlerStep
  <2> USE DEF workerVars, historyVars
  <2>1. sent' = sent /\ todo' = todo
    BY <1>2 DEF HandlerStep, LoadPlan, RefuseApply, RegisterChannel, CreateJob, CreateJobFails,
                CancelApply, CancelPlan, RefreshCheck, RefreshDelete
  <2>2. \A w \in Workers : \/ pc'[w] = pc[w]
                           \/ pc[w] = "idle" /\ pc'[w] = "load"
    <3>1. ASSUME NEW j \in Jobs, CreateJob(j), NEW w \in Workers
          PROVE  pc'[w] = pc[w] \/ (pc[w] = "idle" /\ pc'[w] = "load")
      <4>1. pc'[w] = IF w[1] = j /\ w[2] \in accts[j] THEN "load" ELSE pc[w]
        BY <3>1 DEF CreateJob
      <4>2. w[1] = j => pc[w] = "idle"
        BY <3>1 DEF CreateJob, PhaseInv, PhaseWaiting, Waiting
      <4> QED BY <4>1, <4>2
    <3> QED BY <1>2, <3>1 DEF HandlerStep, LoadPlan, RefuseApply, RegisterChannel,
                CreateJobFails, CancelApply, CancelPlan, RefreshCheck, RefreshDelete
  <2>3. AtMostOncePerJob' /\ NothingSentYet'
    BY <2>1, <2>2 DEF SentInv, AtMostOncePerJob, NothingSentYet
  <2>4. HeldRowsUnsent'
    <3>1. SUFFICES ASSUME NEW v \in Workers, Active(v)', NEW s \in Present(todo[v]),
                          sent[v][s] > 0
                   PROVE  s = Head(v) /\ pc'[v] \in {"markApplied", "auditApplied"}
      BY <2>1 DEF HeldRowsUnsent, Head
    <3>2. s \in Seqs /\ pc'[v] = pc[v]
      BY <2>2, <3>1 DEF Present, SentInv, NothingSentYet
    <3> QED BY <3>1, <3>2 DEF SentInv, HeldRowsUnsent, Active
  <2> QED BY <2>3, <2>4 DEF SentInv
<1>3. CASE (\E j \in Jobs : DriverStep(j)) \/ UNCHANGED vars
  <2>1. UNCHANGED <<pc, todo, sent>>
    BY <1>3 DEF DriverStep, JoinWorker, DecideOutcome, PersistOutcome, DropChannel, vars,
                workerVars, historyVars
  <2> QED BY <2>1 DEF SentInv, AtMostOncePerJob, NothingSentYet, HeldRowsUnsent, Active, Head
<1>4. CASE Crash
  <2>1. sent' = sent /\ \A w \in Workers : ~Active(w)' /\ pc'[w] # "load"
                                          /\ (pc'[w] = "idle" => pc[w] = "idle")
    BY <1>4 DEF Crash, Active, historyVars
  <2> QED BY <2>1 DEF SentInv, AtMostOncePerJob, NothingSentYet, HeldRowsUnsent
<1> QED BY <1>1, <1>2, <1>3, <1>4 DEF Next

\* The rows a worker still holds have not been sent, but for the one in hand.
THEOREM HeldRowsHold == Spec => []SentInv
<1>1. Init => SentInv
  BY DEF Init, SentInv, AtMostOncePerJob, NothingSentYet, HeldRowsUnsent, Active
<1> QED BY <1>1, TypeCorrect, PhasesHold, SentStep, PTL DEF Spec

\* Within one job no row is handed to the provider twice, whatever the plan,
\* the faults, and the other jobs, handlers and crashes in between.
THEOREM SentAtMostOnce == Spec => []AtMostOncePerJob
BY HeldRowsHold, PTL DEF SentInv

-----------------------------------------------------------------------------
(* The audit trail *)

\* What was sent stays sent, and only a worker's provider call adds to it.
LEMMA SentGrows ==
    ASSUME TypeInv, [Next]_vars
    PROVE  \A w \in Workers : \A s \in Seqs : sent'[w][s] >= sent[w][s]
<1> USE DEF historyVars
<1>1. sent \in [Workers -> [Seqs -> Nat]]
  BY DEF TypeInv, TypeOK
<1>2. sent' = sent \/ \E w \in Workers : sent' = [sent EXCEPT ![w][Head(w)] = @ + 1]
  <2>1. ASSUME NEW w \in Workers, WorkerStep(w)
        PROVE  sent' = sent \/ sent' = [sent EXCEPT ![w][Head(w)] = @ + 1]
    BY <2>1 DEF WorkerStep, LoadRows, FinishWorker, StopCancelled, LeavePending, SkipRow,
       PassOver, BeginExpansion, ReadPage, AppendChildren, ExpansionFails, EndExpansion,
       BeginDispatch, DispatchOk, DispatchRejected, PauseAccount, MarkRow, WriteAudit
  <2>2. CASE HandlerStep
    BY <2>2 DEF HandlerStep, LoadPlan, RefuseApply, RegisterChannel, CreateJob,
       CreateJobFails, CancelApply, CancelPlan, RefreshCheck, RefreshDelete
  <2>3. CASE (\E j \in Jobs : DriverStep(j)) \/ Crash \/ UNCHANGED vars
    BY <2>3 DEF DriverStep, JoinWorker, DecideOutcome, PersistOutcome, DropChannel, Crash, vars
  <2> QED BY <2>1, <2>2, <2>3 DEF Next
<1> QED BY <1>1, <1>2

\* Between the provider call and the end of the iteration the row in hand is sent.
Performed ==
    \A w \in Workers : pc[w] \in {"markApplied", "auditApplied"} => sent[w][Head(w)] > 0

AuditInv == AuditIsTruthful /\ Performed

LEMMA AuditStep == TypeInv /\ AuditInv /\ [Next]_vars => AuditInv'
<1> SUFFICES ASSUME TypeInv, AuditInv, [Next]_vars PROVE AuditInv'
  OBVIOUS
<1> USE DEF planVars, driverVars, workerVars, historyVars
<1>a. /\ pc \in [Workers -> WorkerPcs] /\ sent \in [Workers -> [Seqs -> Nat]]
      /\ sent' \in [Workers -> [Seqs -> Nat]]
      /\ audit \subseteq [job : Jobs, seq : Seqs, outcome : {"applied", "failed", "skipped"}]
  BY TypeStep DEF TypeInv, TypeOK
<1>b. \A w \in Workers : pc[w] \in {"markApplied", "auditApplied"} => Head(w) \in Seqs
  BY HeadType DEF TypeInv, HasRow, RowPcs
<1>1. \A e \in audit : e.outcome = "applied" =>
          \E a \in Accounts : sent'[<<e.job, a>>][e.seq] > 0
  <2> SUFFICES ASSUME NEW e \in audit, e.outcome = "applied"
               PROVE  \E a \in Accounts : sent'[<<e.job, a>>][e.seq] > 0
    OBVIOUS
  <2>1. PICK a \in Accounts : sent[<<e.job, a>>][e.seq] > 0
    BY DEF AuditInv, AuditIsTruthful
  <2>2. <<e.job, a>> \in Workers /\ e.seq \in Seqs
    BY <1>a DEF Workers
  <2>3. \A w \in Workers : \A s \in Seqs : sent'[w][s] >= sent[w][s]
    BY SentGrows
  <2>4. ASSUME NEW w \in Workers, NEW s \in Seqs, sent[w][s] > 0 PROVE sent'[w][s] > 0
    BY <1>a, <2>3, <2>4
  <2> QED BY <2>1, <2>2, <2>4
<1>2. ASSUME NEW w \in Workers, WorkerStep(w) PROVE AuditInv'
  <2>1. /\ \A v \in Workers : v # w => pc'[v] = pc[v] /\ todo'[v] = todo[v]
        /\ pc' \in [Workers -> WorkerPcs]
    BY <1>2, WorkerFrame
  <2>2. \A v \in Workers \ {w} : pc[v] \in {"markApplied", "auditApplied"}
            => sent'[v][Head(v)'] > 0
    <3> SUFFICES ASSUME NEW v \in Workers \ {w}, pc[v] \in {"markApplied", "auditApplied"}
                 PROVE  sent'[v][Head(v)'] > 0
      OBVIOUS
    <3>1. Head(v)' = Head(v) /\ Head(v) \in Seqs
      BY <1>b, <2>1 DEF Head
    <3>2. sent[v][Head(v)] > 0 /\ sent'[v][Head(v)] >= sent[v][Head(v)]
      BY <3>1, SentGrows DEF AuditInv, Performed
    <3> QED BY <1>a, <3>1, <3>2
  <2>3. CASE DispatchOk(w)
    <3>1. todo' = todo /\ audit' = audit /\ pc[w] = "dispatch"
      BY <2>3 DEF DispatchOk
    <3>2. Head(w)' = Head(w) /\ Head(w) \in Seqs
      BY <3>1, HeadType DEF Head, TypeInv, HasRow, RowPcs
    <3>3. sent'[w][Head(w)] > 0
      BY <1>a, <2>3, <3>2 DEF DispatchOk
    <3> QED BY <1>1, <2>1, <2>2, <3>1, <3>2, <3>3 DEF AuditInv, AuditIsTruthful, Performed
  <2>4. CASE MarkRow(w)
    <3>1. todo' = todo /\ audit' = audit /\ sent' = sent
      BY <2>4 DEF MarkRow
    <3>2. pc'[w] \in {"markApplied", "auditApplied"} => pc[w] = "markApplied"
      BY <1>a, <2>4 DEF MarkRow, Goto
    <3>3. Head(w)' = Head(w)
      BY <3>1 DEF Head
    <3> QED BY <1>1, <2>1, <2>2, <3>1, <3>2, <3>3 DEF AuditInv, AuditIsTruthful, Performed
  <2>5. CASE WriteAudit(w)
    <3>1. pc'[w] = "loop" /\ sent' = sent
      BY <1>a, <2>5 DEF WriteAudit, Goto
    <3>2. \A e \in audit' \ audit : e.outcome = "applied" =>
              \E a \in Accounts : sent'[<<e.job, a>>][e.seq] > 0
      <4> SUFFICES ASSUME NEW e \in audit' \ audit, e.outcome = "applied"
                   PROVE  \E a \in Accounts : sent'[<<e.job, a>>][e.seq] > 0
        OBVIOUS
      <4>1. e = [job |-> w[1], seq |-> Head(w), outcome |-> "applied"] /\ pc[w] = "auditApplied"
        BY <2>5 DEF WriteAudit
      <4>2. w = <<w[1], w[2]>> /\ w[2] \in Accounts
        BY DEF Workers
      <4>3. sent[w][Head(w)] > 0
        BY <4>1 DEF AuditInv, Performed
      <4> QED BY <3>1, <4>1, <4>2, <4>3
    <3> QED BY <1>1, <2>1, <2>2, <3>1, <3>2 DEF AuditInv, AuditIsTruthful, Performed
  <2>6. CASE ~DispatchOk(w) /\ ~MarkRow(w) /\ ~WriteAudit(w)
    <3>1. audit' = audit /\ pc'[w] \notin {"markApplied", "auditApplied"}
      BY <1>2, <1>a, <2>6 DEF WorkerStep, LoadRows, FinishWorker, StopCancelled, LeavePending,
         SkipRow, PassOver, BeginExpansion, ReadPage, AppendChildren, ExpansionFails,
         EndExpansion, BeginDispatch, DispatchRejected, PauseAccount, Goto, AtRow, Selected
    <3> QED BY <1>1, <2>1, <2>2, <3>1 DEF AuditInv, AuditIsTruthful, Performed
  <2> QED BY <2>3, <2>4, <2>5, <2>6
<1>3. CASE HandlerStep \/ (\E j \in Jobs : DriverStep(j)) \/ Crash \/ UNCHANGED vars
  <2>1. audit' = audit /\ sent' = sent
    BY <1>3 DEF HandlerStep, LoadPlan, RefuseApply, RegisterChannel, CreateJob, CreateJobFails,
       CancelApply, CancelPlan, RefreshCheck, RefreshDelete, DriverStep, JoinWorker,
       DecideOutcome, PersistOutcome, DropChannel, Crash, vars
  <2>2. \A w \in Workers : pc'[w] \in {"markApplied", "auditApplied"} =>
            pc'[w] = pc[w] /\ todo'[w] = todo[w]
    BY <1>3 DEF HandlerStep, LoadPlan, RefuseApply, RegisterChannel, CreateJob, CreateJobFails,
       CancelApply, CancelPlan, RefreshCheck, RefreshDelete, DriverStep, JoinWorker,
       DecideOutcome, PersistOutcome, DropChannel, Crash, vars
  <2> QED BY <1>1, <2>1, <2>2 DEF AuditInv, AuditIsTruthful, Performed, Head
<1> QED BY <1>2, <1>3 DEF Next

\* What is recorded between the provider call and the audit row is true.
THEOREM AuditInvHolds == Spec => []AuditInv
<1>1. Init => AuditInv
  BY DEF Init, AuditInv, AuditIsTruthful, Performed
<1> QED BY <1>1, TypeCorrect, AuditStep, PTL DEF Spec

\* What the audit trail calls applied was performed by that job, whatever fails
\* in between and however often the process dies.
THEOREM AuditHolds == Spec => []AuditIsTruthful
BY AuditInvHolds, PTL DEF AuditInv
-----------------------------------------------------------------------------
(* The counts of a job *)

\* The rows a worker sent.
SentBy(w) == {s \in Seqs : sent[w][s] > 0}

\* The rows sent by the workers of a job that were awaited and ended well.
OkSent(j) ==
    {x \in joined[j] \X Seqs : pc[<<j, x[1]>>] = "ok" /\ sent[<<j, x[1]>>][x[2]] > 0}

\* A worker counts what it sent, one step behind while the row is being marked, and
\* for good when that failed.
WorkerCounts ==
    \A w \in Workers :
        LET n == counts[w]["applied"] IN
        /\ n <= Cardinality(SentBy(w))
        /\ pc[w] = "markApplied" => n + 1 = Cardinality(SentBy(w))
        /\ pc[w] \notin {"markApplied", "err", "dead"} => n = Cardinality(SentBy(w))

\* The driver has awaited workers that ended, well unless anyFailed says otherwise.
JoinedEnded ==
    \A j \in Jobs : \A a \in joined[j] :
        /\ pc[<<j, a>>] \in {"ok", "err"}
        /\ ~anyFailed[j] => pc[<<j, a>>] = "ok"

\* Its merged counts are those of the workers that ended well.
DriverCounts == \A j \in Jobs : combined[j]["applied"] = Cardinality(OkSent(j))

\* Only the workers of a job that has begun have sent anything.
SendersAreWorkers ==
    \A w \in Workers : SentBy(w) # {} => driver[w[1]] \notin Waiting /\ w[2] \in accts[w[1]]

\* Once the outcome is decided everybody was awaited; a row in a terminal state has
\* the merged counts.
RowTells ==
    \A j \in Jobs :
        /\ driver[j] = "decided" => accts[j] \subseteq joined[j]
        /\ jobRow[j].state \in {"finished", "failed", "cancelled"} =>
               accts[j] \subseteq joined[j] /\ jobRow[j].counts = combined[j]

CountInv == WorkerCounts /\ JoinedEnded /\ DriverCounts /\ SendersAreWorkers /\ RowTells

\* Sets of seqs, and of pairs of an account and a seq, are finite.
LEMMA FiniteRows ==
    /\ IsFiniteSet(Seqs) /\ IsFiniteSet(Accounts \X Seqs)
    /\ \A w \in Workers : IsFiniteSet(SentBy(w)) /\ Cardinality(SentBy(w)) \in Nat
<1>1. IsFiniteSet(Seqs) /\ IsFiniteSet(Accounts)
  BY ConstantsAssumption, FS_Interval DEF Seqs, Accounts
<1>2. \A w \in Workers : SentBy(w) \in SUBSET Seqs
  BY DEF SentBy
<1>3. \A w \in Workers : IsFiniteSet(SentBy(w))
  BY <1>1, <1>2, FS_Subset
<1> QED BY <1>1, <1>3, FS_Product, FS_CardinalityType

LEMMA OkSentFinite ==
    ASSUME TypeInv, NEW j \in Jobs
    PROVE  IsFiniteSet(OkSent(j)) /\ OkSent(j) \in SUBSET Sent(j) /\ IsFiniteSet(Sent(j))
<1>1. joined[j] \subseteq Accounts
  BY DEF TypeInv, TypeOK
<1>2. OkSent(j) \in SUBSET Sent(j) /\ Sent(j) \in SUBSET (Accounts \X Seqs)
  BY <1>1 DEF OkSent, Sent
<1> QED BY <1>2, FiniteRows, FS_Subset

\* The counts of a job that ended are those of what its workers sent.
LEMMA CountsFollow == TypeInv /\ CountInv => CountsAreHonest
<1> SUFFICES ASSUME TypeInv, CountInv, NEW j \in Jobs,
                    jobRow[j].state \in {"finished", "failed", "cancelled"}
             PROVE  /\ jobRow[j].counts["applied"] <= Cardinality(Sent(j))
                    /\ ~anyFailed[j] => jobRow[j].counts["applied"] = Cardinality(Sent(j))
  BY DEF CountsAreHonest
<1>1. jobRow[j].counts["applied"] = Cardinality(OkSent(j)) /\ accts[j] \subseteq joined[j]
  BY DEF CountInv, RowTells, DriverCounts
<1>2. Cardinality(OkSent(j)) <= Cardinality(Sent(j))
  BY OkSentFinite, FS_Subset
<1>3. ~anyFailed[j] => OkSent(j) = Sent(j)
  <2>1. SUFFICES ASSUME ~anyFailed[j], NEW x \in Sent(j) PROVE x \in OkSent(j)
    BY OkSentFinite
  <2>2. x \in Accounts \X Seqs /\ sent[<<j, x[1]>>][x[2]] > 0
    BY DEF Sent
  <2>3. <<j, x[1]>> \in Workers /\ x[2] \in SentBy(<<j, x[1]>>)
    BY <2>2 DEF Workers, SentBy
  <2>4. <<j, x[1]>>[2] \in accts[<<j, x[1]>>[1]]
    BY <2>3 DEF CountInv, SendersAreWorkers
  <2>5. x[1] \in joined[j]
    BY <1>1, <2>4
  <2>6. pc[<<j, x[1]>>] = "ok"
    BY <2>1, <2>5 DEF CountInv, JoinedEnded
  <2> QED BY <2>2, <2>5, <2>6 DEF OkSent
<1> QED BY <1>1, <1>2, <1>3

LEMMA CountsInit == Init => CountInv
<1> SUFFICES ASSUME Init PROVE CountInv
  OBVIOUS
<1>1. \A w \in Workers : SentBy(w) = {}
  BY DEF Init, SentBy
<1>2. \A j \in Jobs : OkSent(j) = {} /\ joined[j] = {}
  BY DEF Init, OkSent
<1>3. /\ \A w \in Workers : counts[w]["applied"] = 0
      /\ \A j \in Jobs : combined[j]["applied"] = 0 /\ jobRow[j].state = "none"
                         /\ driver[j] = "none"
  BY DEF Init, ZeroCounts, CountFields
<1>4. \A w \in Workers : counts[w]["applied"] = Cardinality(SentBy(w))
                         /\ pc[w] = "idle"
  BY <1>1, <1>3, FS_EmptySet DEF Init
<1>5. WorkerCounts
  BY <1>4, FiniteRows DEF WorkerCounts
<1>6. DriverCounts
  BY <1>2, <1>3, FS_EmptySet DEF DriverCounts
<1> QED BY <1>1, <1>2, <1>3, <1>5, <1>6
        DEF CountInv, JoinedEnded, SendersAreWorkers, RowTells

\* A worker's step: the driver's view of the workers that ended does not change.
LEMMA WorkerCountStep ==
    ASSUME TypeInv, PhaseInv, SentInv, CountInv, NEW w \in Workers, WorkerStep(w)
    PROVE  CountInv'
<1> USE DEF planVars, driverVars, workerVars, historyVars
<1>a. /\ pc \in [Workers -> WorkerPcs] /\ pc' \in [Workers -> WorkerPcs]
      /\ sent \in [Workers -> [Seqs -> Nat]] /\ counts \in [Workers -> Counts]
      /\ joined \in [Jobs -> SUBSET Accounts]
      /\ "applied" \in CountFields
  BY WorkerFrame DEF TypeInv, TypeOK, CountFields
<1>1. /\ UNCHANGED <<driverVars, cancelled>> /\ Active(w)
      /\ \A v \in Workers : v # w => pc'[v] = pc[v] /\ sent'[v] = sent[v]
  BY WorkerFrame
<1>2. w[1] \in Jobs /\ w[2] \in Accounts /\ w = <<w[1], w[2]>>
  BY DEF Workers
<1>3. driver[w[1]] = "running" /\ w[2] \in accts[w[1]] \ joined[w[1]]
  BY <1>1 DEF PhaseInv, ActiveIsAwaited
<1>4. \A v \in Workers : v # w => counts'[v] = counts[v] /\ SentBy(v)' = SentBy(v)
  <2>1. counts' = counts \/ \E f \in CountFields : Bump(w, f)
    BY DEF WorkerStep, LoadRows, FinishWorker, StopCancelled, LeavePending, SkipRow, PassOver,
       BeginExpansion, ReadPage, AppendChildren, ExpansionFails, EndExpansion, BeginDispatch,
       DispatchOk, DispatchRejected, PauseAccount, MarkRow, WriteAudit, CountFields
  <2> QED BY <1>a, <1>1, <2>1 DEF Bump, SentBy
<1>5. \A j \in Jobs : \A a \in joined[j] : <<j, a>> \in Workers /\ <<j, a>> # w
  BY <1>a, <1>2, <1>3 DEF Workers
<1>6. \A j \in Jobs : OkSent(j)' = OkSent(j)
  BY <1>1, <1>5 DEF OkSent
<1>7. JoinedEnded' /\ DriverCounts' /\ RowTells' /\ SendersAreWorkers'
  <2>1. JoinedEnded'
    <3>1. \A j \in Jobs : \A a \in joined[j] : pc'[<<j, a>>] = pc[<<j, a>>]
      <4> SUFFICES ASSUME NEW j \in Jobs, NEW a \in joined[j]
                   PROVE  pc'[<<j, a>>] = pc[<<j, a>>]
        OBVIOUS
      <4>1. <<j, a>> \in Workers /\ <<j, a>> # w
        BY <1>5
      <4> QED BY <1>1, <4>1
    <3>2. joined' = joined /\ anyFailed' = anyFailed
      BY <1>1
    <3> QED BY <3>1, <3>2 DEF CountInv, JoinedEnded
  <2>2. DriverCounts' /\ RowTells'
    BY <1>1, <1>6 DEF CountInv, DriverCounts, RowTells
  <2>3. SendersAreWorkers'
    BY <1>1, <1>3, <1>4 DEF CountInv, SendersAreWorkers, Waiting
  <2> QED BY <2>1, <2>2, <2>3
<1>8. WorkerCounts'
  <2>a. IsFiniteSet(SentBy(w)) /\ Cardinality(SentBy(w)) \in Nat /\ counts[w]["applied"] \in Nat
    BY <1>a, FiniteRows DEF Counts
  <2>b. /\ counts[w]["applied"] <= Cardinality(SentBy(w))
        /\ pc[w] = "markApplied" => counts[w]["applied"] + 1 = Cardinality(SentBy(w))
        /\ pc[w] \notin {"markApplied", "err", "dead"} =>
               counts[w]["applied"] = Cardinality(SentBy(w))
    BY DEF CountInv, WorkerCounts
  <2> SUFFICES /\ counts'[w]["applied"] <= Cardinality(SentBy(w)')
               /\ pc'[w] = "markApplied" =>
                      counts'[w]["applied"] + 1 = Cardinality(SentBy(w)')
               /\ pc'[w] \notin {"markApplied", "err", "dead"} =>
                      counts'[w]["applied"] = Cardinality(SentBy(w)')
    BY <1>1, <1>4 DEF CountInv, WorkerCounts
  <2>1. CASE DispatchOk(w)
    <3>1. pc[w] = "dispatch" /\ pc'[w] = "markApplied" /\ counts' = counts
      BY <1>a, <2>1 DEF DispatchOk, Goto
    <3>2. Head(w) \in Present(todo[w]) /\ Head(w) \in Seqs
      BY <3>1, HeadType DEF TypeInv, HasRow, RowPcs
    <3>3. Head(w) \notin SentBy(w)
      BY <3>1, <3>2, <1>1 DEF SentInv, HeldRowsUnsent, SentBy
    <3>4. SentBy(w)' = SentBy(w) \cup {Head(w)}
      BY <1>a, <2>1, <3>2 DEF SentBy, DispatchOk
    <3>5. Cardinality(SentBy(w)') = Cardinality(SentBy(w)) + 1
      BY <2>a, <3>3, <3>4, FS_AddElement
    <3> QED BY <2>a, <2>b, <3>1, <3>5
  <2>2. CASE MarkRow(w)
    <3>1. SentBy(w)' = SentBy(w)
      BY <2>2 DEF MarkRow, SentBy
    <3>2. pc[w] = "markApplied" =>
              \/ counts'[w]["applied"] = counts[w]["applied"] + 1 /\ pc'[w] = "auditApplied"
              \/ counts' = counts /\ pc'[w] = "err"
      BY <1>a, <2>2 DEF MarkRow, Goto, Bump, Counts
    <3>3. pc[w] # "markApplied" =>
              /\ pc[w] = "markFailed" /\ pc'[w] \in {"auditFailed", "err"}
              /\ counts'[w]["applied"] = counts[w]["applied"]
      BY <1>a, <2>2 DEF MarkRow, Goto, Bump, Counts
    <3>4. Cardinality(SentBy(w)') = Cardinality(SentBy(w))
      BY <3>1
    <3> QED BY <2>a, <2>b, <3>2, <3>3, <3>4
  <2>3. CASE ~DispatchOk(w) /\ ~MarkRow(w)
    <3>1. sent' = sent /\ counts'[w]["applied"] = counts[w]["applied"]
      BY <1>a, <2>3 DEF WorkerStep, LoadRows, FinishWorker, StopCancelled, LeavePending, SkipRow,
         PassOver, BeginExpansion, ReadPage, AppendChildren, ExpansionFails, EndExpansion,
         BeginDispatch, DispatchRejected, PauseAccount, WriteAudit, Bump, Counts
    <3>2. pc[w] \notin {"markApplied", "err", "dead"} /\ pc'[w] # "markApplied"
      BY <1>a, <2>3 DEF WorkerStep, LoadRows, FinishWorker, StopCancelled, LeavePending, SkipRow,
         PassOver, BeginExpansion, ReadPage, AppendChildren, ExpansionFails, EndExpansion,
         BeginDispatch, DispatchRejected, PauseAccount, WriteAudit, Goto, AtRow, Selected
    <3>3. SentBy(w)' = SentBy(w)
      BY <3>1 DEF SentBy
    <3>4. Cardinality(SentBy(w)') = Cardinality(SentBy(w))
      BY <3>3
    <3> QED BY <2>a, <2>b, <3>1, <3>2, <3>4
  <2> QED BY <2>1, <2>2, <2>3
<1> QED BY <1>7, <1>8 DEF CountInv

\* The handlers send and count nothing.
LEMMA HandlerCountStep ==
    ASSUME TypeInv, PhaseInv, CountInv, HandlerStep
    PROVE  CountInv'
<1> USE DEF planVars, driverVars, workerVars, historyVars
<1>a. /\ pc \in [Workers -> WorkerPcs] /\ joined \in [Jobs -> SUBSET Accounts]
      /\ driver \in [Jobs -> DriverPcs] /\ accts \in [Jobs -> SUBSET Accounts]
      /\ jobRow \in [Jobs -> [state : JobStates, counts : Counts]]
      /\ \A w \in Workers : w[1] \in Jobs
  BY DEF TypeInv, TypeOK, Workers
<1>1. UNCHANGED <<sent, counts, joined, combined, anyFailed>>
  BY DEF HandlerStep, LoadPlan, RefuseApply, RegisterChannel, CreateJob, CreateJobFails,
         CancelApply, CancelPlan, RefreshCheck, RefreshDelete
<1>2. \A w \in Workers : SentBy(w)' = SentBy(w)
  BY <1>1 DEF SentBy
<1>3. \A w \in Workers : \/ pc'[w] = pc[w]
                         \/ pc[w] = "idle" /\ pc'[w] = "load" /\ joined[w[1]] = {}
  <2>1. ASSUME NEW j \in Jobs, CreateJob(j), NEW w \in Workers
        PROVE  \/ pc'[w] = pc[w]
               \/ pc[w] = "idle" /\ pc'[w] = "load" /\ joined[w[1]] = {}
    <3>1. pc'[w] = IF w[1] = j /\ w[2] \in accts[j] THEN "load" ELSE pc[w]
      BY <2>1 DEF CreateJob
    <3>2. w[1] = j => pc[w] = "idle" /\ joined[j] = {}
      BY <2>1 DEF CreateJob, PhaseInv, PhaseWaiting, Waiting
    <3> QED BY <3>1, <3>2
  <2> QED BY <2>1 DEF HandlerStep, LoadPlan, RefuseApply, RegisterChannel, CreateJobFails,
                      CancelApply, CancelPlan, RefreshCheck, RefreshDelete
<1>4. WorkerCounts'
  BY <1>1, <1>2, <1>3 DEF CountInv, WorkerCounts
<1>5. \A j \in Jobs : \A a \in joined[j] : pc'[<<j, a>>] = pc[<<j, a>>]
  <2> SUFFICES ASSUME NEW j \in Jobs, NEW a \in joined[j] PROVE pc'[<<j, a>>] = pc[<<j, a>>]
    OBVIOUS
  <2>1. <<j, a>> \in Workers /\ <<j, a>>[1] = j
    BY <1>a DEF Workers
  <2> QED BY <1>3, <2>1
<1>6. JoinedEnded' /\ DriverCounts'
  <2>1. \A j \in Jobs : OkSent(j)' = OkSent(j)
    BY <1>1, <1>5 DEF OkSent
  <2> QED BY <1>1, <1>5, <2>1 DEF CountInv, JoinedEnded, DriverCounts
<1>7. \A j \in Jobs :
        /\ accts'[j] = accts[j] \/ (driver[j] = "none" /\ jobRow'[j] = jobRow[j])
        /\ driver'[j] \in Waiting => driver[j] \in Waiting
        /\ driver'[j] # "decided" \/ driver[j] = "decided"
        /\ jobRow'[j] = jobRow[j] \/ jobRow'[j].state = "running"
  BY <1>a DEF HandlerStep, LoadPlan, RefuseApply, RegisterChannel, CreateJob, CreateJobFails,
         CancelApply, CancelPlan, RefreshCheck, RefreshDelete, Waiting
<1>8. SendersAreWorkers'
  <2> SUFFICES ASSUME NEW w \in Workers, SentBy(w) # {}
               PROVE  driver'[w[1]] \notin Waiting /\ w[2] \in accts'[w[1]]
    BY <1>2 DEF SendersAreWorkers
  <2>1. driver[w[1]] \notin Waiting /\ w[2] \in accts[w[1]]
    BY DEF CountInv, SendersAreWorkers
  <2> QED BY <1>a, <1>7, <2>1 DEF Waiting
<1>9. RowTells'
  BY <1>1, <1>7 DEF CountInv, RowTells, PhaseInv, PhaseRows, Waiting
<1> QED BY <1>4, <1>6, <1>8, <1>9 DEF CountInv

\* Awaiting a worker that ended well adds what it sent, which the driver had not
\* counted before.
LEMMA JoinCountStep ==
    ASSUME TypeInv, PhaseInv, CountInv, NEW j \in Jobs, JoinWorker(j)
    PROVE  CountInv'
<1> USE DEF planVars, workerVars, historyVars
<1> DEFINE a == Lowest(accts[j] \ joined[j])
           w == <<j, a>>
<1>a. /\ joined \in [Jobs -> SUBSET Accounts] /\ accts \in [Jobs -> SUBSET Accounts]
      /\ combined \in [Jobs -> Counts] /\ counts \in [Workers -> Counts]
      /\ anyFailed \in [Jobs -> BOOLEAN] /\ "applied" \in CountFields
  BY DEF TypeInv, TypeOK, CountFields
<1>1. a \in accts[j] \ joined[j] /\ a \in Accounts
  <2>1. accts[j] \ joined[j] \in SUBSET Nat /\ accts[j] \ joined[j] # {}
    BY <1>a, ConstantsAssumption DEF JoinWorker, Accounts
  <2> QED BY <1>a, <2>1, LowestIsMember
<1>2. w \in Workers
  BY <1>1 DEF Workers
<1>3. /\ pc[w] \in {"ok", "err"} /\ driver[j] = "running"
      /\ joined' = [joined EXCEPT ![j] = @ \cup {a}]
      /\ combined' = IF pc[w] = "ok"
                     THEN [combined EXCEPT ![j] = MergeCounts(@, counts[w])] ELSE combined
      /\ anyFailed' = [anyFailed EXCEPT ![j] = @ \/ pc[w] = "err"]
      /\ UNCHANGED <<jobRow, accts, driver, pc, sent, counts>>
  BY DEF JoinWorker
<1> HIDE DEF a, w
<1>4. \A v \in Workers : SentBy(v)' = SentBy(v)
  BY <1>3 DEF SentBy
<1>5. WorkerCounts' /\ SendersAreWorkers'
  BY <1>3, <1>4 DEF CountInv, WorkerCounts, SendersAreWorkers
<1>6. ASSUME NEW k \in Jobs, k # j
      PROVE  joined'[k] = joined[k] /\ combined'[k] = combined[k] /\ anyFailed'[k] = anyFailed[k]
             /\ OkSent(k)' = OkSent(k)
  <2>1. joined'[k] = joined[k] /\ combined'[k] = combined[k] /\ anyFailed'[k] = anyFailed[k]
    BY <1>a, <1>3, <1>6
  <2> QED BY <1>3, <2>1 DEF OkSent
<1>7. joined'[j] = joined[j] \cup {a} /\ anyFailed'[j] = (anyFailed[j] \/ pc[w] = "err")
  BY <1>a, <1>3
<1>8. combined'[j]["applied"] = Cardinality(OkSent(j)')
  <2>1. combined[j]["applied"] = Cardinality(OkSent(j))
    BY DEF CountInv, DriverCounts
  <2>2. CASE pc[w] = "err"
    <3>1. combined' = combined
      BY <1>3, <2>2
    <3>2. OkSent(j)' = OkSent(j)
      BY <1>3, <1>7, <2>2 DEF OkSent, w
    <3> QED BY <2>1, <3>1, <3>2
  <2>3. CASE pc[w] = "ok"
    <3> DEFINE New == {a} \X SentBy(w)
    <3>1. combined'[j]["applied"] = combined[j]["applied"] + counts[w]["applied"]
      BY <1>a, <1>3, <2>3 DEF MergeCounts
    <3>2. counts[w]["applied"] = Cardinality(SentBy(w))
      BY <1>2, <2>3 DEF CountInv, WorkerCounts
    <3>3. OkSent(j)' = OkSent(j) \cup New
      <4>1. ASSUME NEW x PROVE x \in OkSent(j)' <=> x \in OkSent(j) \/ x \in New
        <5>1. x \in New <=> x \in {a} \X Seqs /\ sent[<<j, x[1]>>][x[2]] > 0
          BY DEF SentBy, w
        <5>2. x \in {a} \X Seqs => pc[<<j, x[1]>>] = "ok"
          BY <2>3 DEF w
        <5>3. x \in joined'[j] \X Seqs <=> x \in joined[j] \X Seqs \/ x \in {a} \X Seqs
          BY <1>7
        <5> QED BY <1>3, <5>1, <5>2, <5>3 DEF OkSent
      <4> QED BY <4>1
    <3>4. OkSent(j) \cap New = {}
      BY <1>1 DEF OkSent
    <3>5. IsFiniteSet(New) /\ Cardinality(New) = Cardinality(SentBy(w))
      <4>1. IsFiniteSet({a}) /\ Cardinality({a}) = 1
        BY FS_Singleton
      <4>2. IsFiniteSet(SentBy(w)) /\ Cardinality(SentBy(w)) \in Nat
        BY <1>2, FiniteRows
      <4>3. IsFiniteSet(New) /\ Cardinality(New) = Cardinality({a}) * Cardinality(SentBy(w))
        BY <4>1, <4>2, FS_Product
      <4> QED BY <4>1, <4>2, <4>3
    <3>6. IsFiniteSet(OkSent(j)) /\ Cardinality(OkSent(j)) \in Nat
      BY OkSentFinite, FS_CardinalityType
    <3>7. Cardinality(OkSent(j) \cup New) = Cardinality(OkSent(j)) + Cardinality(New)
                                            - Cardinality({})
      BY <3>4, <3>5, <3>6, FS_Union
    <3>8. Cardinality({}) = 0 /\ Cardinality(SentBy(w)) \in Nat
      BY <1>2, FS_EmptySet, FiniteRows
    <3> HIDE DEF New
    <3> QED BY <2>1, <3>1, <3>2, <3>3, <3>5, <3>6, <3>7, <3>8
  <2> QED BY <1>3, <2>2, <2>3
<1>9. DriverCounts'
  BY <1>6, <1>8 DEF CountInv, DriverCounts
<1>10. JoinedEnded'
  <2>1. ASSUME NEW b \in joined'[j]
        PROVE  /\ pc[<<j, b>>] \in {"ok", "err"}
               /\ ~anyFailed'[j] => pc[<<j, b>>] = "ok"
    BY <1>3, <1>7 DEF CountInv, JoinedEnded, w
  <2> QED BY <1>3, <1>6, <2>1 DEF CountInv, JoinedEnded
<1>11. RowTells'
  <2>1. jobRow[j].state = "running"
    BY <1>3 DEF PhaseInv, PhaseRows
  <2> QED BY <1>3, <1>6, <1>7, <2>1 DEF CountInv, RowTells
<1> QED BY <1>5, <1>9, <1>10, <1>11 DEF CountInv

\* The driver decides when everybody was awaited, and writes the merged counts.
LEMMA DriverCountStep ==
    ASSUME TypeInv, PhaseInv, CountInv, NEW j \in Jobs, DriverStep(j)
    PROVE  CountInv'
<1> USE DEF planVars, workerVars, historyVars
<1>a. /\ jobRow \in [Jobs -> [state : JobStates, counts : Counts]]
      /\ driver \in [Jobs -> DriverPcs]
  BY DEF TypeInv, TypeOK
<1>1. CASE JoinWorker(j)
  BY <1>1, JoinCountStep
<1>2. CASE DecideOutcome(j) \/ PersistOutcome(j) \/ DropChannel(j)
  <2>1. UNCHANGED <<accts, joined, combined, anyFailed, pc, sent, counts>>
    BY <1>2 DEF DecideOutcome, PersistOutcome, DropChannel
  <2>2. (\A w \in Workers : SentBy(w)' = SentBy(w)) /\ (\A k \in Jobs : OkSent(k)' = OkSent(k))
    BY <2>1 DEF SentBy, OkSent
  <2>3. WorkerCounts' /\ JoinedEnded' /\ DriverCounts'
    BY <2>1, <2>2 DEF CountInv, WorkerCounts, JoinedEnded, DriverCounts
  <2>4. \A k \in Jobs :
            /\ driver'[k] \in Waiting => driver[k] \in Waiting
            /\ driver'[k] = "decided" => driver[k] = "decided" \/ accts[k] \subseteq joined[k]
            /\ jobRow'[k] = jobRow[k] \/ (driver[k] = "decided" /\ jobRow'[k].counts = combined[k])
    BY <1>a, <1>2 DEF DecideOutcome, PersistOutcome, DropChannel, Waiting
  <2>5. SendersAreWorkers'
    <3> SUFFICES ASSUME NEW w \in Workers, SentBy(w) # {}
                 PROVE  driver'[w[1]] \notin Waiting /\ w[2] \in accts[w[1]]
      BY <2>1, <2>2 DEF SendersAreWorkers
    <3>1. w[1] \in Jobs
      BY DEF Workers
    <3> QED BY <2>4, <3>1 DEF CountInv, SendersAreWorkers
  <2>6. RowTells'
    BY <2>1, <2>4 DEF CountInv, RowTells
  <2> QED BY <2>3, <2>5, <2>6 DEF CountInv
<1> QED BY <1>1, <1>2 DEF DriverStep

LEMMA CountStep == TypeInv /\ PhaseInv /\ SentInv /\ CountInv /\ [Next]_vars => CountInv'
<1> SUFFICES ASSUME TypeInv, PhaseInv, SentInv, CountInv, [Next]_vars PROVE CountInv'
  OBVIOUS
<1> USE DEF planVars, driverVars, workerVars, historyVars
<1>1. CASE Crash \/ UNCHANGED vars
  <2>1. UNCHANGED <<jobRow, accts, joined, combined, anyFailed, sent, counts>>
    BY <1>1 DEF Crash, vars
  <2>2. \A w \in Workers : pc'[w] = pc[w] \/ (pc'[w] = "dead" /\ Active(w))
    BY <1>1 DEF Crash, vars, Active
  <2>3. \A j \in Jobs : driver'[j] = driver[j] \/ driver'[j] = "dead"
    BY <1>1 DEF Crash, vars
  <2>4. \A w \in Workers : SentBy(w)' = SentBy(w)
    BY <2>1 DEF SentBy
  <2>5. \A j \in Jobs : \A a \in joined[j] : pc'[<<j, a>>] = pc[<<j, a>>]
    <3> SUFFICES ASSUME NEW j \in Jobs, NEW a \in joined[j] PROVE pc'[<<j, a>>] = pc[<<j, a>>]
      OBVIOUS
    <3>1. <<j, a>> \in Workers
      BY DEF TypeInv, TypeOK, Workers
    <3>2. pc[<<j, a>>] \in {"ok", "err"}
      BY DEF CountInv, JoinedEnded
    <3> QED BY <2>2, <3>1, <3>2 DEF Active
  <2>6. WorkerCounts'
    BY <2>1, <2>2, <2>4 DEF CountInv, WorkerCounts
  <2>7. \A j \in Jobs : OkSent(j)' = OkSent(j)
    BY <2>1, <2>5 DEF OkSent
  <2>8. JoinedEnded' /\ DriverCounts'
    BY <2>1, <2>5, <2>7 DEF CountInv, JoinedEnded, DriverCounts
  <2>9. SendersAreWorkers' /\ RowTells'
    <3>1. RowTells'
      BY <2>1, <2>3 DEF CountInv, RowTells
    <3>2. SendersAreWorkers'
      BY <2>1, <2>3, <2>4 DEF CountInv, SendersAreWorkers, Waiting, Workers
    <3> QED BY <3>1, <3>2
  <2> QED BY <2>6, <2>8, <2>9 DEF CountInv
<1> QED BY <1>1, WorkerCountStep, HandlerCountStep, DriverCountStep DEF Next

\* The counts follow what was sent, from the workers to the job row.
THEOREM CountInvHolds == Spec => []CountInv
BY CountsInit, TypeCorrect, PhasesHold, HeldRowsHold, CountStep, PTL DEF Spec

\* The counts persisted with a job that ended claim no more than it sent, and are
\* exact unless one of its workers ended in an error.
THEOREM CountsHold == Spec => []CountsAreHonest
BY CountInvHolds, TypeCorrect, CountsFollow, PTL
=============================================================================
