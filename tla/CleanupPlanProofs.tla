-------------------------- MODULE CleanupPlanProofs --------------------------
(***************************************************************************)
(* Theorems about the plan table while jobs apply it: what is applied was  *)
(* sent and allowed, children wait and expansions are complete if what     *)
(* cleanup/api/plan.rs says of a refresh is true, that it deletes nothing  *)
(* while a job is at work; where no account is refreshed a worker settles  *)
(* what it is shown.  A refresh that was cleared before a job began does   *)
(* delete rows under its workers: the run CleanupApply_v_refresh shows it. *)
(***************************************************************************)
EXTENDS CleanupApplyProofs

-----------------------------------------------------------------------------
(* How a step changes the table *)

\* What no step changes about a row: everything but its status.
SameItem(r, q) ==
    /\ r.kind = q.kind /\ r.acct = q.acct /\ r.risk = q.risk /\ r.group = q.group
    /\ r.parent = q.parent /\ r.mail = q.mail /\ r.by = q.by

\* The table after one row at most was given the status st.
WroteStatus(s, st) ==
    /\ \A t \in Seqs \ {s} : rows'[t] = rows[t]
    /\ rows[s] = NoRow => rows'[s] = NoRow
    /\ rows[s] # NoRow => /\ rows'[s] # NoRow /\ SameItem(rows'[s], rows[s])
                          /\ rows'[s].status \in {rows[s].status, st}

LEMMA WriteStatus ==
    ASSUME rows \in Table, NEW s \in Seqs, NEW st \in RowStatus,
           rows' \in {rows, WithStatus(s, st), WithPredicateStatus(s, st)}
    PROVE  WroteStatus(s, st)
<1>1. rows[s] # NoRow => rows[s] \in Row /\ [rows[s] EXCEPT !.status = st] \in Row
  BY DEF Table, Row
<1>2. NoRow \notin Row
  BY ConstantsAssumption
<1>3. rows[s] # NoRow =>
        /\ [rows[s] EXCEPT !.status = st].status = st
        /\ SameItem([rows[s] EXCEPT !.status = st], rows[s])
  BY <1>1 DEF Row, SameItem
<1>4. CASE rows' = rows
  BY <1>4 DEF WroteStatus, SameItem
<1>5. CASE rows[s] # NoRow /\ rows' = [rows EXCEPT ![s].status = st]
  <2>1. rows'[s] = [rows[s] EXCEPT !.status = st]
    BY <1>5 DEF Table
  <2>2. \A t \in Seqs \ {s} : rows'[t] = rows[t]
    BY <1>5 DEF Table
  <2> QED BY <1>1, <1>2, <1>3, <1>5, <2>1, <2>2 DEF WroteStatus
<1> QED BY <1>4, <1>5 DEF WithStatus, WithPredicateStatus

\* The status a worker may write, and where it is when it does.
Writes(w, st) ==
    \/ st = "skipped" /\ pc[w] = "loop"
    \/ st = "expanding" /\ pc[w] = "loop"
    \/ st = "failed" /\ pc[w] \in {"expand", "append", "markFailed"}
    \/ st = "expanded" /\ EndExpansion(w)
    \/ st = "applied" /\ pc[w] = "markApplied"

\* A worker's step appends a block of children, or writes the status of the row
\* in hand at most.
LEMMA WorkerRows ==
    ASSUME TypeInv, NEW w \in Workers, WorkerStep(w), ~AppendChildren(w)
    PROVE  \/ rows' = rows
           \/ /\ Head(w) \in Seqs
              /\ \E st \in RowStatus \ {"pending"} : Writes(w, st) /\ WroteStatus(Head(w), st)
<1> USE DEF planVars
<1>1. rows' = rows \/ (Present(todo[w]) # {} /\ \E st \in RowStatus \ {"pending"} :
          Writes(w, st) /\ rows' \in {rows, WithStatus(Head(w), st), WithPredicateStatus(Head(w), st)})
  <2>0. pc[w] \in RowPcs => Present(todo[w]) # {}
    BY DEF TypeInv, HasRow
  <2>1. CASE SkipRow(w) \/ BeginExpansion(w)
    BY <2>1 DEF SkipRow, BeginExpansion, Selected, AtRow, Writes, RowStatus
  <2>2. CASE ExpansionFails(w) \/ EndExpansion(w)
    BY <2>0, <2>2 DEF ExpansionFails, EndExpansion, Writes, RowStatus, RowPcs
  <2>3. CASE MarkRow(w)
    BY <2>0, <2>3 DEF MarkRow, Writes, RowStatus, RowPcs
  <2> QED BY <2>1, <2>2, <2>3 DEF WorkerStep, LoadRows, FinishWorker, StopCancelled, LeavePending,
         PassOver, ReadPage, BeginDispatch, DispatchOk, DispatchRejected, PauseAccount, WriteAudit
<1>2. Present(todo[w]) # {} => Head(w) \in Seqs
  BY HeadType DEF TypeInv
<1>3. rows \in Table
  BY DEF TypeInv, TypeOK
<1> QED BY <1>1, <1>2, <1>3, WriteStatus

\* A row that is in the table stays, is the same item, and never becomes pending
\* again.
Kept(s) ==
    /\ rows'[s] # NoRow /\ SameItem(rows'[s], rows[s])
    /\ rows[s].status # "pending" => rows'[s].status # "pending"

\* The append adds the children of the row in hand in free places.
LEMMA Appended ==
    ASSUME TypeInv, NEW w \in Workers, AppendChildren(w)
    PROVE  /\ pc[w] = "append" /\ Present(todo[w]) # {} /\ Item(w) \in Row /\ Head(w) \in Seqs
           /\ Block(w) \subseteq Seqs
           /\ \A t \in Block(w) : rows[t] = NoRow /\ rows'[t] = Child(w, t) /\ rows'[t] # NoRow
           /\ \A t \in Seqs \ Block(w) : rows'[t] = rows[t]
<1>1. pc[w] = "append" /\ Present(todo[w]) # {}
  BY DEF AppendChildren, TypeInv, HasRow, RowPcs
<1>2. Item(w) \in Row /\ Head(w) \in Seqs
  BY <1>1, HeadType DEF TypeInv
<1>3. Block(w) \subseteq Seqs /\ \A t \in Block(w) : rows[t] = NoRow /\ rows'[t] = Child(w, t)
  BY DEF AppendChildren
<1>4. \A t \in Seqs \ Block(w) : rows'[t] = rows[t]
  BY DEF AppendChildren
<1>5. \A t \in Block(w) : rows'[t] \in Row
  BY <1>2, <1>3, ChildType DEF TypeInv
<1> QED BY <1>1, <1>2, <1>3, <1>4, <1>5, ConstantsAssumption

\* Every step of a worker keeps what is in the table.
LEMMA WorkerKeeps ==
    ASSUME TypeInv, NEW w \in Workers, WorkerStep(w)
    PROVE  \A s \in Seqs : rows[s] # NoRow => Kept(s)
<1> SUFFICES ASSUME NEW s \in Seqs, rows[s] # NoRow PROVE Kept(s)
  OBVIOUS
<1>1. rows'[s] = rows[s] => Kept(s)
  BY DEF Kept, SameItem
<1>2. CASE AppendChildren(w)
  BY <1>1, <1>2, Appended
<1>3. CASE ~AppendChildren(w) /\ rows' # rows
  <2>1. PICK st \in RowStatus \ {"pending"} : WroteStatus(Head(w), st)
    BY <1>3, WorkerRows
  <2> QED BY <1>1, <2>1 DEF WroteStatus, Kept
<1> QED BY <1>1, <1>2, <1>3

\* A worker loads once; after that its list only shrinks, from the front.
LEMMA TodoShrinks ==
    ASSUME TypeInv, NEW w \in Workers, WorkerStep(w), ~LoadRows(w)
    PROVE  todo' = todo \/ (Advance(w) /\ todo'[w] = [todo[w] EXCEPT ![Head(w)] = NoRow])
<1> USE DEF workerVars
<1>1. todo \in [Workers -> Table]
  BY DEF TypeInv, TypeOK
<1>2. todo' = todo \/ Advance(w)
  BY DEF WorkerStep, FinishWorker, StopCancelled, LeavePending, SkipRow, PassOver,
     BeginExpansion, ReadPage, AppendChildren, ExpansionFails, EndExpansion, BeginDispatch,
     DispatchOk, DispatchRejected, PauseAccount, MarkRow, WriteAudit
<1> QED BY <1>1, <1>2 DEF Advance

\* The request's gates look at what does not change about a row.
LEMMA AllowsSame ==
    ASSUME NEW o, NEW s, NEW r, NEW q, SameItem(r, q)
    PROVE  Allows(o, s, r) <=> Allows(o, s, q)
BY DEF SameItem, Allows, Acknowledged

-----------------------------------------------------------------------------
(* Refreshes that spare running jobs *)

\* A worker holds nothing before it has loaded.
NothingHeldYet == \A w \in Workers : pc[w] \in {"idle", "load"} => Present(todo[w]) = {}

\* What a worker at work holds is in the table, under the same description, and
\* not its job's own children.
HeldAtWork ==
    \A w \in Workers : Active(w) => \A s \in Present(todo[w]) :
        /\ rows[s] # NoRow /\ SameItem(todo[w][s], rows[s])
        /\ rows[s].acct = w[2] /\ rows[s].by # w[1]

\* A row on its way to the provider, or back from it, passed the gates.
HandedAllowed ==
    \A w \in Workers : pc[w] \in {"dispatch", "markApplied"} => Allows(opts[w[1]], Head(w), Item(w))

AppliedSound ==
    \A s \in Seqs : rows[s] # NoRow /\ rows[s].status = "applied" =>
        \E w \in Workers : sent[w][s] > 0 /\ Allows(opts[w[1]], s, rows[s])

\* While a job is at work, the seqs of what it sent are not free.
SentStays ==
    \A v, w \in Workers : Active(v) /\ v[1] = w[1] =>
        \A s \in Seqs : sent[w][s] > 0 => rows[s] # NoRow

\* A worker appends children after it has loaded its rows.
ChildrenAfterLoad ==
    \A w \in Workers : pc[w] \in {"idle", "load"} =>
        \A s \in Seqs : rows[s] # NoRow => ~(rows[s].by = w[1] /\ rows[s].acct = w[2])

SpareInv ==
    /\ NothingHeldYet /\ HeldAtWork /\ HandedAllowed /\ AppliedSound /\ SentStays
    /\ ChildrenWaitForNextApply /\ ChildrenAfterLoad

\* Rows go only where nobody is at work.
Spares == (\E w \in Workers : Active(w)) => Present(rows) \subseteq Present(rows')

\* What a refresh does to the table if it spares running jobs.
LEMMA DeletedAtRest ==
    ASSUME TypeInv, rows' = rows \/ RefreshDelete, Spares
    PROVE  /\ \A s \in Seqs : rows'[s] # NoRow => rows'[s] = rows[s]
           /\ (\E w \in Workers : Active(w)) => rows' = rows
<1>1. rows \in Table
  BY DEF TypeInv, TypeOK
<1>2. CASE rows' = rows
  BY <1>2
<1>3. CASE RefreshDelete
  <2>1. rows' = [s \in Seqs |-> IF rows[s] # NoRow /\ rows[s].acct = refreshing
                                THEN NoRow ELSE rows[s]]
    BY <1>3 DEF RefreshDelete
  <2>2. ASSUME \E w \in Workers : Active(w) PROVE rows' = rows
    <3>1. \A s \in Seqs : rows[s] # NoRow => rows'[s] # NoRow
      BY <2>2 DEF Spares, Present
    <3>2. \A s \in Seqs : rows'[s] = rows[s]
      BY <2>1, <3>1
    <3>3. rows = [s \in Seqs |-> rows[s]]
      BY <1>1 DEF Table
    <3> QED BY <2>1, <3>2, <3>3
  <2> QED BY <2>1, <2>2
<1> QED BY <1>2, <1>3

\* The handlers, the driver and a crash: only a refresh writes to the table, a job
\* that begins has its workers load, and only a request not yet loaded gets options.
LEMMA HandlerFrame ==
    ASSUME TypeInv, PhaseInv,
           HandlerStep \/ (\E j \in Jobs : DriverStep(j)) \/ Crash \/ UNCHANGED vars
    PROVE  /\ UNCHANGED <<sent, page>>
           /\ rows' = rows \/ RefreshDelete
           /\ \A w \in Workers :
                /\ todo'[w] = todo[w] \/ todo'[w] = EmptyTable
                /\ \/ pc'[w] = pc[w] /\ (todo'[w] = todo[w] \/ ~Active(w))
                   \/ pc[w] = "idle" /\ pc'[w] = "load" /\ driver[w[1]] = "registered"
                   \/ pc'[w] = "dead"
                /\ opts'[w[1]] = opts[w[1]] \/ driver[w[1]] = "none"
<1> USE DEF planVars, driverVars, workerVars, historyVars
<1>a. \A w \in Workers : w[1] \in Jobs
  BY DEF Workers
<1>b. opts \in [Jobs -> Options]
  BY DEF TypeInv, TypeOK
<1>1. ASSUME NEW j \in Jobs, LoadPlan(j)
      PROVE  /\ UNCHANGED <<rows, sent, page, todo, pc>>
             /\ \A k \in Jobs : opts'[k] = opts[k] \/ driver[k] = "none"
  BY <1>1, <1>b DEF LoadPlan
<1>2. ASSUME NEW j \in Jobs, CreateJob(j)
      PROVE  /\ UNCHANGED <<rows, sent, page, todo, opts>>
             /\ \A w \in Workers :
                   \/ pc'[w] = pc[w]
                   \/ pc[w] = "idle" /\ pc'[w] = "load" /\ driver[w[1]] = "registered"
  <2>1. ASSUME NEW w \in Workers
        PROVE  pc'[w] = pc[w] \/ (pc[w] = "idle" /\ pc'[w] = "load" /\ driver[w[1]] = "registered")
    <3>1. pc'[w] = IF w[1] = j /\ w[2] \in accts[j] THEN "load" ELSE pc[w]
      BY <1>2 DEF CreateJob
    <3>2. w[1] = j => pc[w] = "idle" /\ driver[w[1]] = "registered"
      BY <1>2 DEF CreateJob, PhaseInv, PhaseWaiting, Waiting
    <3> QED BY <3>1, <3>2
  <2> QED BY <1>2, <2>1 DEF CreateJob
<1>3. CASE Crash
  <2>1. UNCHANGED <<rows, sent, page, opts>>
    BY <1>3 DEF Crash
  <2>2. \A w \in Workers : /\ todo'[w] = EmptyTable
                           /\ pc'[w] = IF pc[w] \in {"idle", "ok", "err"} THEN pc[w] ELSE "dead"
    BY <1>3 DEF Crash
  <2> QED BY <2>1, <2>2 DEF Active
<1>4. CASE \/ UNCHANGED vars \/ (\E j \in Jobs : DriverStep(j)) \/ CancelPlan
           \/ \E j \in Jobs : RefuseApply(j) \/ RegisterChannel(j) \/ CreateJobFails(j)
                              \/ CancelApply(j)
           \/ \E a \in Accounts : RefreshCheck(a)
  <2>1. UNCHANGED <<rows, sent, page, todo, pc, opts>>
    BY <1>4 DEF DriverStep, JoinWorker, DecideOutcome, PersistOutcome, DropChannel, vars,
       RefuseApply, RegisterChannel, CreateJobFails, CancelApply, CancelPlan, RefreshCheck
  <2> QED BY <2>1
<1>5. CASE RefreshDelete
  <2>1. UNCHANGED <<sent, page, todo, pc, opts>>
    BY <1>5 DEF RefreshDelete
  <2> QED BY <1>5, <2>1
<1>6. CASE \E j \in Jobs : LoadPlan(j)
  BY <1>a, <1>1, <1>6
<1>7. CASE \E j \in Jobs : CreateJob(j)
  BY <1>2, <1>7
<1> QED BY <1>3, <1>4, <1>5, <1>6, <1>7 DEF HandlerStep

LEMMA SpareOther ==
    ASSUME TypeInv, PhaseInv, SentInv, SpareInv, Spares,
           HandlerStep \/ (\E j \in Jobs : DriverStep(j)) \/ Crash \/ UNCHANGED vars
    PROVE  SpareInv'
<1>1. /\ sent' = sent
      /\ \A w \in Workers :
           /\ todo'[w] = todo[w] \/ todo'[w] = EmptyTable
           /\ \/ pc'[w] = pc[w] /\ (todo'[w] = todo[w] \/ ~Active(w))
              \/ pc[w] = "idle" /\ pc'[w] = "load" /\ driver[w[1]] = "registered"
              \/ pc'[w] = "dead"
           /\ opts'[w[1]] = opts[w[1]] \/ driver[w[1]] = "none"
  BY HandlerFrame
<1>2. /\ \A s \in Seqs : rows'[s] # NoRow => rows'[s] = rows[s]
      /\ (\E w \in Workers : Active(w)) => rows' = rows
  BY HandlerFrame, DeletedAtRest
<1>3. \A w \in Workers : Present(todo'[w]) \subseteq Present(todo[w])
  BY <1>1 DEF Present, EmptyTable
\* Of a job that has not begun no worker has sent anything.
<1>4. ASSUME NEW v \in Workers, driver[v[1]] \in {"none", "registered"},
             NEW w \in Workers, w[1] = v[1]
      PROVE  pc[w] = "idle" /\ \A s \in Seqs : sent[w][s] = 0
  <2>1. pc[w] = "idle"
    BY <1>4 DEF PhaseInv, PhaseWaiting, Waiting, Workers
  <2> QED BY <2>1 DEF SentInv, NothingSentYet
<1>5. NothingHeldYet'
  <2> SUFFICES ASSUME NEW w \in Workers, pc'[w] \in {"idle", "load"} PROVE Present(todo'[w]) = {}
    BY DEF NothingHeldYet, Present
  <2>1. pc[w] \in {"idle", "load"}
    BY <1>1
  <2> QED BY <1>3, <2>1 DEF SpareInv, NothingHeldYet
<1>6. ASSUME NEW w \in Workers, Active(w)'
      PROVE  \/ pc'[w] = pc[w] /\ todo'[w] = todo[w] /\ Active(w) /\ rows' = rows
             \/ pc[w] = "idle" /\ pc'[w] = "load" /\ driver[w[1]] = "registered"
  <2>1. pc'[w] = pc[w] => Active(w)
    BY <1>6 DEF Active
  <2> QED BY <1>1, <1>2, <1>6, <2>1 DEF Active
<1>7. HeldAtWork'
  <2> SUFFICES ASSUME NEW w \in Workers, Active(w)', NEW s \in Present(todo'[w])
               PROVE  /\ rows'[s] # NoRow /\ SameItem(todo'[w][s], rows'[s])
                      /\ rows'[s].acct = w[2] /\ rows'[s].by # w[1]
    BY DEF HeldAtWork, Present
  <2>1. ~(pc[w] = "idle")
    BY <1>3 DEF SpareInv, NothingHeldYet
  <2>2. todo'[w] = todo[w] /\ Active(w) /\ rows' = rows
    BY <1>6, <2>1
  <2> QED BY <2>2 DEF SpareInv, HeldAtWork, Present
<1>8. HandedAllowed'
  <2> SUFFICES ASSUME NEW w \in Workers, pc'[w] \in {"dispatch", "markApplied"}
               PROVE  Allows(opts'[w[1]], Head(w)', Item(w)')
    BY DEF HandedAllowed, Allows, Acknowledged
  <2>1. pc'[w] = pc[w] /\ todo'[w] = todo[w]
    BY <1>6 DEF Active
  <2>2. opts'[w[1]] = opts[w[1]]
    BY <1>1, <1>4, <2>1
  <2>3. Head(w)' = Head(w) /\ Item(w)' = Item(w)
    BY <2>1 DEF Head, Item
  <2>4. Allows(opts[w[1]], Head(w), Item(w))
    BY <2>1 DEF SpareInv, HandedAllowed
  <2> QED BY <2>2, <2>3, <2>4
<1>9. AppliedSound'
  <2> SUFFICES ASSUME NEW s \in Seqs, rows'[s] # NoRow, rows'[s].status = "applied"
               PROVE  \E w \in Workers : sent'[w][s] > 0 /\ Allows(opts'[w[1]], s, rows'[s])
    BY DEF AppliedSound, Allows, Acknowledged
  <2>1. rows'[s] = rows[s]
    BY <1>2
  <2>2. PICK w \in Workers : sent[w][s] > 0 /\ Allows(opts[w[1]], s, rows[s])
    BY <2>1 DEF SpareInv, AppliedSound
  <2>3. opts'[w[1]] = opts[w[1]]
    <3>1. driver[w[1]] = "none" => sent[w][s] = 0
      BY <1>4
    <3> QED BY <1>1, <2>2, <3>1
  <2> QED BY <1>1, <2>1, <2>2, <2>3
<1>10. SentStays'
  <2> SUFFICES ASSUME NEW v \in Workers, NEW w \in Workers, Active(v)', v[1] = w[1], NEW s \in Seqs,
                      sent[w][s] > 0
               PROVE  rows'[s] # NoRow
    BY <1>1 DEF SentStays, Active
  <2>1. driver[v[1]] # "registered"
    <3>1. driver[v[1]] = "registered" => sent[w][s] = 0
      BY <1>4
    <3> QED BY <3>1
  <2>2. Active(v) /\ rows' = rows
    BY <1>6, <2>1
  <2> QED BY <2>2 DEF SpareInv, SentStays
<1>11. ChildrenWaitForNextApply' /\ ChildrenAfterLoad'
  <2>1. ChildrenWaitForNextApply'
    BY <1>1, <1>2 DEF SpareInv, ChildrenWaitForNextApply, Present
  <2>2. ChildrenAfterLoad'
    BY <1>1, <1>2 DEF SpareInv, ChildrenAfterLoad
  <2> QED BY <2>1, <2>2
<1> QED BY <1>5, <1>7, <1>8, <1>9, <1>10, <1>11 DEF SpareInv

LEMMA HeldAtWorkStep ==
    ASSUME TypeInv, SpareInv, NEW w \in Workers, WorkerStep(w)
    PROVE  HeldAtWork'
<1> SUFFICES ASSUME NEW v \in Workers, Active(v)', NEW s \in Present(todo'[v])
             PROVE  /\ rows'[s] # NoRow /\ SameItem(todo'[v][s], rows'[s])
                    /\ rows'[s].acct = v[2] /\ rows'[s].by # v[1]
  BY DEF HeldAtWork, Present
<1>a. s \in Seqs /\ todo'[v][s] # NoRow
  BY DEF Present
<1>b. todo \in [Workers -> Table]
  BY DEF TypeInv, TypeOK
<1>c. rows[s] # NoRow => Kept(s)
  BY <1>a, WorkerKeeps
<1>d. Active(v)
  <2>1. v # w => pc'[v] = pc[v]
    BY WorkerFrame
  <2> QED BY <2>1, WorkerFrame DEF Active
<1>1. CASE LoadRows(w) /\ v = w /\ todo' # todo
  <2>1. todo'[w] = ListOperations(w[2]) /\ pc[w] = "load" /\ rows' = rows
    BY <1>1, <1>b DEF LoadRows, planVars
  <2>2. rows[s] # NoRow /\ rows[s].acct = w[2] /\ todo'[w][s] = rows[s]
    BY <1>1, <1>a, <2>1 DEF ListOperations, FirstN, Present
  <2>3. rows[s].by # w[1]
    BY <1>a, <2>1, <2>2 DEF SpareInv, ChildrenAfterLoad
  <2> QED BY <1>1, <2>1, <2>2, <2>3 DEF SameItem
<1>2. CASE ~(LoadRows(w) /\ v = w /\ todo' # todo)
  <2>1. s \in Present(todo[v]) /\ todo'[v][s] = todo[v][s]
    <3>1. CASE v # w
      BY <3>1, <1>a, WorkerFrame DEF Present
    <3>2. CASE todo' = todo
      BY <3>2, <1>a DEF Present
    <3>3. CASE v = w /\ ~LoadRows(w) /\ todo' # todo
      <4>1. todo'[w] = [todo[w] EXCEPT ![Head(w)] = NoRow] /\ todo[w] \in [Seqs -> Row \cup {NoRow}]
        BY <3>3, <1>b, TodoShrinks DEF Table
      <4> QED BY <3>3, <1>a, <4>1 DEF Present
    <3> QED BY <1>2, <3>1, <3>2, <3>3
  <2>2. /\ rows[s] # NoRow /\ SameItem(todo[v][s], rows[s])
        /\ rows[s].acct = v[2] /\ rows[s].by # v[1]
    BY <1>d, <2>1 DEF SpareInv, HeldAtWork
  <2> QED BY <1>c, <2>1, <2>2 DEF Kept, SameItem
<1> QED BY <1>1, <1>2

\* The row a worker has in hand is the row of that seq in the table.
LEMMA InHand ==
    ASSUME TypeInv, SpareInv, NEW w \in Workers, pc[w] \in RowPcs
    PROVE  /\ Head(w) \in Seqs /\ Item(w) \in Row /\ rows[Head(w)] # NoRow
           /\ SameItem(Item(w), rows[Head(w)])
           /\ rows[Head(w)].acct = w[2] /\ rows[Head(w)].by # w[1]
<1>1. Head(w) \in Present(todo[w]) /\ Head(w) \in Seqs /\ Item(w) \in Row
  BY HeadType DEF TypeInv, HasRow
<1>2. Active(w)
  BY DEF Active, RowPcs
<1> QED BY <1>1, <1>2 DEF SpareInv, HeldAtWork, Item

\* What a step adds to what was sent is the row in hand.
LEMMA SentGains ==
    ASSUME TypeInv, NEW w \in Workers, WorkerStep(w)
    PROVE  \A v \in Workers : \A s \in Seqs :
               /\ sent[v][s] > 0 => sent'[v][s] > 0
               /\ sent'[v][s] > 0 => sent[v][s] > 0 \/ (DispatchOk(w) /\ v = w /\ s = Head(w))
<1>1. sent \in [Workers -> [Seqs -> Nat]] /\ sent' \in [Workers -> [Seqs -> Nat]]
  BY TypeStep DEF TypeInv, TypeOK, Next
<1>2. \A v \in Workers : \A s \in Seqs : sent'[v][s] >= sent[v][s]
  BY SentGrows DEF Next
<1>3. \A v \in Workers : \A s \in Seqs :
          sent'[v][s] > 0 => sent[v][s] > 0 \/ (DispatchOk(w) /\ v = w /\ s = Head(w))
  BY <1>1 DEF historyVars, WorkerStep, LoadRows, FinishWorker, StopCancelled, LeavePending, SkipRow,
     PassOver, BeginExpansion, ReadPage, AppendChildren, ExpansionFails, EndExpansion,
     BeginDispatch, DispatchOk, DispatchRejected, PauseAccount, MarkRow, WriteAudit
<1> QED
  <2> SUFFICES ASSUME NEW v \in Workers, NEW s \in Seqs, sent[v][s] > 0 PROVE sent'[v][s] > 0
    BY <1>3
  <2>1. sent[v][s] \in Nat /\ sent'[v][s] \in Nat /\ sent'[v][s] >= sent[v][s]
    BY <1>1, <1>2
  <2> QED BY <2>1

LEMMA SpareWorker ==
    ASSUME TypeInv, SpareInv, Performed, NEW w \in Workers, WorkerStep(w)
    PROVE  SpareInv'
<1> USE DEF driverVars
<1>a. /\ opts' = opts /\ pc \in [Workers -> WorkerPcs] /\ pc' \in [Workers -> WorkerPcs]
      /\ \A v \in Workers : v # w => pc'[v] = pc[v] /\ todo'[v] = todo[v]
      /\ pc'[w] \notin {"idle", "load"} /\ Active(w)
  BY WorkerFrame DEF TypeInv, TypeOK
<1>b. \A s \in Seqs : rows[s] # NoRow => Kept(s)
  BY WorkerKeeps
<1>c. DispatchOk(w) => pc[w] = "dispatch" /\ pc[w] \in RowPcs /\ todo' = todo /\ rows' = rows
  BY DEF DispatchOk, RowPcs, planVars
<1>1. NothingHeldYet'
  <2> SUFFICES ASSUME NEW v \in Workers, pc'[v] \in {"idle", "load"} PROVE Present(todo'[v]) = {}
    BY DEF NothingHeldYet, Present
  <2> QED BY <1>a DEF SpareInv, NothingHeldYet
<1>2. HandedAllowed'
  <2>1. pc'[w] = "dispatch" => Selected(w) /\ todo' = todo
    <3>1. pc'[w] = "dispatch" => BeginDispatch(w)
      BY <1>a DEF WorkerStep, LoadRows, FinishWorker, StopCancelled, LeavePending, SkipRow,
         PassOver, BeginExpansion, ReadPage, AppendChildren, ExpansionFails, EndExpansion,
         DispatchOk, DispatchRejected, PauseAccount, MarkRow, WriteAudit, Goto, AtRow, Selected
    <3> QED BY <3>1 DEF BeginDispatch
  <2>2. pc'[w] = "markApplied" => DispatchOk(w)
    BY <1>a DEF WorkerStep, LoadRows, FinishWorker, StopCancelled, LeavePending, SkipRow,
       PassOver, BeginExpansion, ReadPage, AppendChildren, ExpansionFails, EndExpansion,
       BeginDispatch, DispatchRejected, PauseAccount, MarkRow, WriteAudit, Goto, AtRow, Selected
  <2>3. pc'[w] \in {"dispatch", "markApplied"} =>
            Allows(opts[w[1]], Head(w), Item(w)) /\ todo' = todo
    BY <1>c, <2>1, <2>2 DEF Selected, SpareInv, HandedAllowed
  <2>4. ASSUME NEW v \in Workers, pc'[v] \in {"dispatch", "markApplied"}
        PROVE  Allows(opts'[v[1]], Head(v)', Item(v)')
    <3>1. Head(v)' = Head(v) /\ Item(v)' = Item(v)
      BY <1>a, <2>3, <2>4 DEF Head, Item
    <3>2. Allows(opts[v[1]], Head(v), Item(v))
      BY <1>a, <2>3, <2>4 DEF SpareInv, HandedAllowed
    <3> QED BY <1>a, <3>1, <3>2
  <2> QED BY <2>4 DEF HandedAllowed, Allows, Acknowledged
<1>3. AppliedSound'
  <2> SUFFICES ASSUME NEW s \in Seqs, rows'[s] # NoRow, rows'[s].status = "applied"
               PROVE  \E v \in Workers : sent'[v][s] > 0 /\ Allows(opts[v[1]], s, rows'[s])
    BY <1>a DEF AppliedSound, Allows, Acknowledged
  <2>1. CASE rows[s] # NoRow /\ rows[s].status = "applied"
    <3>1. PICK v \in Workers : sent[v][s] > 0 /\ Allows(opts[v[1]], s, rows[s])
      BY <2>1 DEF SpareInv, AppliedSound
    <3>2. Allows(opts[v[1]], s, rows'[s])
      BY <1>b, <2>1, <3>1, AllowsSame DEF Kept
    <3> QED BY <3>1, <3>2, SentGains
  <2>2. CASE ~(rows[s] # NoRow /\ rows[s].status = "applied")
    <3>1. ~AppendChildren(w)
      <4>1. AppendChildren(w) => rows'[s] = rows[s] \/ rows'[s] = Child(w, s)
        BY Appended
      <4> QED BY <2>2, <4>1 DEF Child
    <3>2. PICK st \in RowStatus \ {"pending"} : Writes(w, st) /\ WroteStatus(Head(w), st)
      BY <2>2, <3>1, WorkerRows
    <3>3. s = Head(w) /\ rows[s] # NoRow /\ rows'[s].status \in {rows[s].status, st}
      BY <2>2, <3>2 DEF WroteStatus
    <3>4. pc[w] = "markApplied" /\ pc[w] \in RowPcs
      BY <2>2, <3>2, <3>3 DEF Writes, RowPcs
    <3>5. sent[w][s] > 0 /\ Allows(opts[w[1]], s, Item(w)) /\ SameItem(Item(w), rows[s])
      BY <3>3, <3>4, InHand DEF Performed, SpareInv, HandedAllowed
    <3>6. SameItem(Item(w), rows'[s])
      BY <1>b, <3>3, <3>5 DEF Kept, SameItem
    <3>7. Allows(opts[w[1]], s, rows'[s])
      BY <3>5, <3>6, AllowsSame
    <3> QED BY <3>5, <3>7, SentGains
  <2> QED BY <2>1, <2>2
<1>4. SentStays'
  <2> SUFFICES ASSUME NEW u \in Workers, NEW v \in Workers, Active(u)', u[1] = v[1], NEW s \in Seqs,
                      sent'[v][s] > 0
               PROVE  rows'[s] # NoRow
    BY DEF SentStays, Active
  <2>1. Active(u)
    <3>1. u # w => pc'[u] = pc[u]
      BY <1>a
    <3> QED BY <1>a, <3>1 DEF Active
  <2>2. CASE sent[v][s] > 0
    BY <1>b, <2>1, <2>2 DEF SpareInv, SentStays, Kept
  <2>3. CASE DispatchOk(w) /\ v = w /\ s = Head(w)
    BY <1>c, <2>3, InHand
  <2> QED BY <2>2, <2>3, SentGains
<1>5. ChildrenWaitForNextApply'
  <2>a. sent' \in [Workers -> [Seqs -> Nat]]
    BY TypeStep DEF TypeInv, TypeOK, Next
  <2> SUFFICES ASSUME NEW v \in Workers, NEW s \in Seqs, rows'[s] # NoRow, rows'[s].by = v[1],
                      sent'[v][s] > 0
               PROVE  FALSE
    BY <2>a DEF ChildrenWaitForNextApply, Present
  <2>1. CASE rows[s] # NoRow
    <3>1. rows[s].by = v[1]
      BY <1>b, <2>1 DEF Kept, SameItem
    <3>2. ~(sent[v][s] > 0)
      BY <2>1, <3>1 DEF SpareInv, ChildrenWaitForNextApply, Present
    <3>3. DispatchOk(w) /\ v = w /\ s = Head(w)
      BY <3>2, SentGains
    <3> QED BY <1>c, <3>1, <3>3, InHand
  <2>2. CASE rows[s] = NoRow
    <3>1. AppendChildren(w) /\ rows'[s] = Child(w, s)
      BY <2>2, WorkerRows, Appended DEF WroteStatus
    <3>2. v[1] = w[1] /\ ~DispatchOk(w)
      BY <3>1 DEF Child, AppendChildren, DispatchOk
    <3>3. sent[v][s] > 0
      BY <3>2, SentGains
    <3> QED BY <1>a, <2>2, <3>2, <3>3 DEF SpareInv, SentStays
  <2> QED BY <2>1, <2>2
<1>6. ChildrenAfterLoad'
  <2> SUFFICES ASSUME NEW v \in Workers, pc'[v] \in {"idle", "load"}, NEW s \in Seqs,
                      rows'[s] # NoRow, rows'[s].by = v[1], rows'[s].acct = v[2]
               PROVE  FALSE
    BY DEF ChildrenAfterLoad
  <2>1. v # w /\ pc'[v] = pc[v]
    BY <1>a
  <2>2. CASE rows[s] # NoRow
    <3>1. Kept(s)
      BY <2>2, WorkerKeeps
    <3> QED BY <2>1, <2>2, <3>1 DEF Kept, SameItem, SpareInv, ChildrenAfterLoad
  <2>3. CASE rows[s] = NoRow
    <3>1. AppendChildren(w) /\ rows'[s] = Child(w, s)
      BY <2>3, WorkerRows, Appended DEF WroteStatus
    <3>2. v[1] = w[1] /\ v[2] = w[2]
      BY <3>1 DEF Child
    <3> QED BY <2>1, <3>2 DEF Workers
  <2> QED BY <2>2, <2>3
<1> QED BY <1>1, <1>2, <1>3, <1>4, <1>5, <1>6, HeldAtWorkStep DEF SpareInv

LEMMA SpareInit == Init => SpareInv
<1> SUFFICES ASSUME Init PROVE SpareInv
  OBVIOUS
<1>1. \A w \in Workers : todo[w] = EmptyTable /\ pc[w] = "idle"
                         /\ \A s \in Seqs : sent[w][s] = 0
  BY DEF Init
<1>2. \A w \in Workers : Present(todo[w]) = {}
  BY <1>1 DEF Present, EmptyTable
<1>3. \A s \in Seqs : rows[s] # NoRow => rows[s].status = "pending" /\ rows[s].by = NoJob
  BY SavedPlanAssumption DEF Init
<1>4. \A w \in Workers : w[1] # NoJob
  BY ConstantsAssumption DEF Workers
<1> QED BY <1>1, <1>2, <1>3, <1>4 DEF SpareInv, NothingHeldYet, HeldAtWork, HandedAllowed,
           AppliedSound, SentStays, ChildrenWaitForNextApply, ChildrenAfterLoad, Present

\* If refreshes do what a comment in cleanup/api/plan.rs says of them, and delete
\* nothing while a job is at work, the table, what the workers hold and what they
\* sent agree.
THEOREM SpareHolds == Spec /\ RefreshSparesRunningJobs => []SpareInv
<1>1. TypeInv /\ PhaseInv /\ SentInv /\ AuditInv /\ SpareInv /\ [Next]_vars /\ [Spares]_vars =>
          SpareInv'
  <2> SUFFICES ASSUME TypeInv, PhaseInv, SentInv, AuditInv, SpareInv, [Next]_vars, [Spares]_vars
               PROVE  SpareInv'
    OBVIOUS
  <2>1. Spares
    BY DEF Spares, vars, planVars, Present
  <2> QED BY <2>1, SpareWorker, SpareOther DEF Next, AuditInv
<1>2. RefreshSparesRunningJobs <=> [][Spares]_vars
  BY PTL DEF RefreshSparesRunningJobs, Spares
<1> QED BY <1>1, <1>2, SpareInit, TypeCorrect, PhasesHold, HeldRowsHold, AuditInvHolds, PTL DEF Spec

\* A row recorded as applied was sent by a worker for a job whose request covers
\* its risk and acknowledges it, if refreshes spare running jobs.
THEOREM AppliedIsSound == Spec /\ RefreshSparesRunningJobs => []AppliedWasSentAndAllowed
<1>1. TypeInv /\ SpareInv => AppliedWasSentAndAllowed
  <2> SUFFICES ASSUME TypeInv, SpareInv, NEW s \in Present(rows), rows[s].status = "applied"
               PROVE  \E w \in Workers :
                        /\ sent[w][s] > 0
                        /\ rows[s].risk # "low" => opts[w[1]].riskMax # "low"
                        /\ rows[s].risk = "high" =>
                               opts[w[1]].riskMax = "high" /\ s \in opts[w[1]].ackHigh
                        /\ rows[s].risk = "medium" =>
                               rows[s].group \in opts[w[1]].ackMedium \cup {NoGroup}
    BY DEF AppliedWasSentAndAllowed
  <2>1. s \in Seqs /\ rows[s] # NoRow
    BY DEF Present
  <2>2. PICK w \in Workers : sent[w][s] > 0 /\ Allows(opts[w[1]], s, rows[s])
    BY <2>1 DEF SpareInv, AppliedSound
  <2>3. opts[w[1]].riskMax \in Risks
    BY DEF TypeInv, TypeOK, Options, Workers
  <2> QED BY <2>2, <2>3 DEF Allows, Includes, Acknowledged, Risks
<1> QED BY <1>1, TypeCorrect, SpareHolds, PTL

\* No job touches the children it materialised, however many workers and jobs
\* expand and load at once, if refreshes spare running jobs: otherwise the seq of
\* a row the job had sent is given to a child.
THEOREM ChildrenWait == Spec /\ RefreshSparesRunningJobs => []ChildrenWaitForNextApply
BY SpareHolds, PTL DEF SpareInv

-----------------------------------------------------------------------------
(* Complete expansions *)

HasChild(p, a, m) ==
    \E s \in Seqs : rows[s] # NoRow /\ rows[s].parent = p /\ rows[s].acct = a /\ rows[s].mail = m

\* The pages an expansion has appended so far are all there, and a predicate that
\* is expanded has every message, as rows of its own account.
ExpansionInv ==
    /\ \A w \in Workers : pc[w] \in {"expand", "append"} =>
          \A m \in 1..MailCount[w[2]] : m <= page[w] * PageSize => HasChild(Head(w), w[2], m)
    /\ \A p \in Seqs : rows[p] # NoRow /\ rows[p].kind = "pred" /\ rows[p].status = "expanded" =>
          \A m \in 1..MailCount[rows[p].acct] : HasChild(p, rows[p].acct, m)

LEMMA ChildStays ==
    ASSUME \A s \in Seqs : rows[s] # NoRow => Kept(s), NEW p, NEW a, NEW m, HasChild(p, a, m)
    PROVE  HasChild(p, a, m)'
<1>1. PICK s \in Seqs : rows[s] # NoRow /\ rows[s].parent = p /\ rows[s].acct = a
                        /\ rows[s].mail = m
  BY DEF HasChild
<1>2. rows'[s] # NoRow /\ rows'[s].parent = p /\ rows'[s].acct = a /\ rows'[s].mail = m
  BY <1>1 DEF Kept, SameItem
<1> QED BY <1>2 DEF HasChild

\* A page of messages, and the block of seqs that takes it.
LEMMA PageBounds ==
    ASSUME TypeInv, NEW w \in Workers
    PROVE  /\ page[w] * PageSize \in Nat /\ (page[w] + 1) * PageSize \in Nat
           /\ PageOf(w[2], page[w]) = {} =>
                 \A m \in 1..MailCount[w[2]] : m <= page[w] * PageSize
           /\ \A m \in 1..MailCount[w[2]] :
                 page[w] * PageSize < m /\ m <= (page[w] + 1) * PageSize =>
                     /\ base[w] + (m - (page[w] * PageSize + 1)) \in Block(w)
                     /\ page[w] * PageSize + 1
                          + ((base[w] + (m - (page[w] * PageSize + 1))) - base[w]) = m
<1> DEFINE x == page[w] * PageSize
           y == (page[w] + 1) * PageSize
           hi == IF y < MailCount[w[2]] THEN y ELSE MailCount[w[2]]
<1>1. page[w] \in Nat /\ base[w] \in Nat /\ PageSize \in Nat \ {0} /\ MailCount[w[2]] \in Nat
  BY ConstantsAssumption DEF TypeInv, TypeOK, Workers
<1>2. x \in Nat /\ y \in Nat
  BY <1>1
<1>3. y = x + PageSize
  BY <1>1
<1>4. PageOf(w[2], page[w]) = (x + 1)..hi
  BY DEF PageOf
<1> HIDE DEF x, y
<1>5. hi \in Nat
  BY <1>1, <1>2
<1>6. ASSUME NEW m \in 1..MailCount[w[2]], x < m, m <= y
      PROVE  base[w] + (m - (x + 1)) \in Block(w)
  <2>1. m <= hi /\ x + 1 <= hi
    BY <1>1, <1>2, <1>6
  <2>2. Cardinality((x + 1)..hi) = hi - (x + 1) + 1
    <3>1. x + 1 \in Int /\ hi \in Int
      BY <1>2, <1>5
    <3> HIDE DEF hi
    <3> QED BY <2>1, <3>1, FS_Interval
  <2>3. Block(w) = base[w]..(base[w] + (hi - (x + 1) + 1) - 1)
    BY <1>4, <2>2 DEF Block
  <2> HIDE DEF hi
  <2> QED BY <1>1, <1>2, <1>5, <1>6, <2>1, <2>3
<1>7. \A m \in 1..MailCount[w[2]] : x + 1 + ((base[w] + (m - (x + 1))) - base[w]) = m
  BY <1>1, <1>2
<1>8. (x + 1)..hi = {} => \A m \in 1..MailCount[w[2]] : m <= x
  <2>1. SUFFICES ASSUME (x + 1)..hi = {}, NEW m \in 1..MailCount[w[2]] PROVE m <= x
    OBVIOUS
  <2>2. ~(x + 1 <= hi)
    BY <1>2, <1>5, <2>1
  <2> QED BY <1>1, <1>2, <1>3, <2>2
<1> QED BY <1>2, <1>4, <1>6, <1>7, <1>8 DEF x, y

\* A step that is not a worker's takes a predicate from the table together with
\* its children, and no row while a worker expands.
LEMMA OtherExpansion ==
    ASSUME TypeInv, PhaseInv, ExpansionInv, Spares,
           HandlerStep \/ (\E j \in Jobs : DriverStep(j)) \/ Crash \/ UNCHANGED vars
    PROVE  ExpansionInv'
<1>1. /\ page' = page
      /\ \A s \in Seqs : rows'[s] # NoRow => rows'[s] = rows[s]
      /\ (\E w \in Workers : Active(w)) => rows' = rows
  BY HandlerFrame, DeletedAtRest
<1>2. ASSUME NEW p \in Seqs, rows'[p] # NoRow, NEW s \in Seqs, rows[s] # NoRow,
             rows[s].acct = rows[p].acct
      PROVE  rows'[s] = rows[s]
  <2>1. rows' = rows \/ RefreshDelete
    BY HandlerFrame
  <2>2. RefreshDelete => \A t \in Seqs : rows'[t] = IF rows[t] # NoRow /\ rows[t].acct = refreshing
                                                    THEN NoRow ELSE rows[t]
    BY DEF RefreshDelete
  <2> QED BY <1>2, <2>1, <2>2
<1>3. ASSUME NEW w \in Workers, pc'[w] \in {"expand", "append"},
             NEW m \in 1..MailCount[w[2]], m <= page'[w] * PageSize
      PROVE  HasChild(Head(w), w[2], m)' /\ Head(w)' = Head(w)
  <2>1. pc'[w] = pc[w] /\ (todo'[w] = todo[w] \/ ~Active(w))
    BY <1>3, HandlerFrame
  <2>2. Active(w) /\ todo'[w] = todo[w]
    BY <1>3, <2>1 DEF Active
  <2>3. Head(w)' = Head(w) /\ rows' = rows
    BY <1>1, <2>2 DEF Head
  <2>4. HasChild(Head(w), w[2], m)
    BY <1>1, <1>3, <2>1 DEF ExpansionInv
  <2> QED BY <2>3, <2>4 DEF HasChild
<1>4. ASSUME NEW p \in Seqs, rows'[p] # NoRow, rows'[p].kind = "pred",
             rows'[p].status = "expanded", NEW m \in 1..MailCount[rows'[p].acct]
      PROVE  HasChild(p, rows[p].acct, m)' /\ rows'[p] = rows[p]
  <2>1. rows'[p] = rows[p]
    BY <1>1, <1>4
  <2>2. PICK s \in Seqs : rows[s] # NoRow /\ rows[s].parent = p /\ rows[s].acct = rows[p].acct
                          /\ rows[s].mail = m
    BY <1>4, <2>1 DEF ExpansionInv, HasChild
  <2>3. rows'[s] = rows[s]
    BY <1>2, <1>4, <2>2
  <2> QED BY <2>1, <2>2, <2>3 DEF HasChild
<1> QED BY <1>3, <1>4 DEF ExpansionInv, HasChild

LEMMA WorkerExpansion ==
    ASSUME TypeInv, SpareInv, ExpansionInv, NEW w \in Workers, WorkerStep(w)
    PROVE  ExpansionInv'
<1>a. /\ pc \in [Workers -> WorkerPcs] /\ page \in [Workers -> Nat]
      /\ \A v \in Workers : v # w => pc'[v] = pc[v] /\ todo'[v] = todo[v]
      /\ \A s \in Seqs : rows[s] # NoRow => Kept(s)
  BY WorkerFrame, WorkerKeeps DEF TypeInv, TypeOK
<1>b. \A p, a, m : HasChild(p, a, m) => HasChild(p, a, m)'
  BY <1>a, ChildStays
<1>1. ASSUME NEW v \in Workers, pc'[v] \in {"expand", "append"},
             NEW m \in 1..MailCount[v[2]], m <= page'[v] * PageSize
      PROVE  HasChild(Head(v), v[2], m)' /\ Head(v)' = Head(v)
  <2>1. CASE pc[v] \in {"expand", "append"} /\ page'[v] = page[v] /\ todo'[v] = todo[v]
    <3>1. Head(v)' = Head(v)
      BY <2>1 DEF Head
    <3>2. HasChild(Head(v), v[2], m)
      BY <1>1, <2>1 DEF ExpansionInv
    <3> QED BY <1>b, <3>1, <3>2 DEF HasChild
  <2>2. CASE v = w /\ AppendChildren(w)
    <3>1. page'[w] = page[w] + 1 /\ todo' = todo
      BY <1>a, <2>2 DEF AppendChildren
    <3>2. Head(w)' = Head(w)
      BY <3>1 DEF Head
    <3>3. CASE m <= page[w] * PageSize
      <4>1. HasChild(Head(w), w[2], m)
        BY <1>1, <2>2, <3>3, Appended DEF ExpansionInv
      <4> QED BY <1>b, <2>2, <3>2, <4>1 DEF HasChild
    <3>4. CASE ~(m <= page[w] * PageSize)
      <4> DEFINE s == base[w] + (m - (page[w] * PageSize + 1))
      <4>1. page[w] * PageSize < m
        BY <2>2, <3>4, <1>1, PageBounds, ConstantsAssumption DEF Workers
      <4>2. s \in Block(w) /\ page[w] * PageSize + 1 + (s - base[w]) = m
        BY <1>1, <2>2, <3>1, <4>1, PageBounds
      <4>3. rows'[s] = Child(w, s) /\ rows'[s] # NoRow /\ s \in Seqs
        BY <2>2, <4>2, Appended
      <4>4. rows'[s].parent = Head(w) /\ rows'[s].acct = w[2] /\ rows'[s].mail = m
        BY <4>2, <4>3 DEF Child
      <4> HIDE DEF s
      <4> QED BY <2>2, <3>2, <4>3, <4>4 DEF HasChild
    <3> QED BY <3>3, <3>4
  <2>3. CASE v = w /\ BeginExpansion(w)
    <3>1. page'[w] = 0
      BY <1>a, <2>3 DEF BeginExpansion
    <3>2. page'[w] * PageSize = 0
      BY <3>1, ConstantsAssumption
    <3> QED BY <1>1, <2>3, <3>2
  <2>4. CASE v = w /\ ~AppendChildren(w) /\ ~BeginExpansion(w)
    <3>1. ReadPage(w)
      BY <1>a, <1>1, <2>4 DEF WorkerStep, LoadRows, FinishWorker, StopCancelled, LeavePending,
         SkipRow, PassOver, ExpansionFails, EndExpansion, BeginDispatch, DispatchOk,
         DispatchRejected, PauseAccount, MarkRow, WriteAudit, Goto, AtRow, Selected
    <3> QED BY <2>1, <2>4, <3>1 DEF ReadPage
  <2>5. CASE v # w
    <3>1. page'[v] = page[v]
      BY <1>a, <2>5 DEF workerVars, WorkerStep, LoadRows, FinishWorker, StopCancelled,
         LeavePending, SkipRow, PassOver, BeginExpansion, ReadPage, AppendChildren,
         ExpansionFails, EndExpansion, BeginDispatch, DispatchOk, DispatchRejected,
         PauseAccount, MarkRow, WriteAudit
    <3> QED BY <1>a, <1>1, <2>1, <2>5, <3>1
  <2> QED BY <2>2, <2>3, <2>4, <2>5
<1>2. ASSUME NEW p \in Seqs, rows'[p] # NoRow, rows'[p].kind = "pred",
             rows'[p].status = "expanded", NEW m \in 1..MailCount[rows'[p].acct]
      PROVE  HasChild(p, rows[p].acct, m)'
  <2>1. CASE rows[p] # NoRow /\ rows[p].status = "expanded"
    <3>1. rows[p].kind = "pred" /\ rows[p].acct = rows'[p].acct
      BY <1>a, <1>2, <2>1 DEF Kept, SameItem
    <3>2. PICK a : a = rows[p].acct
      OBVIOUS
    <3>3. HasChild(p, a, m)
      BY <1>2, <2>1, <3>1, <3>2 DEF ExpansionInv
    <3> QED BY <1>b, <3>1, <3>2, <3>3 DEF HasChild
  <2>2. CASE ~(rows[p] # NoRow /\ rows[p].status = "expanded")
    <3>1. ~AppendChildren(w)
      <4>1. AppendChildren(w) => rows'[p] = rows[p] \/ rows'[p] = Child(w, p)
        BY Appended
      <4> QED BY <1>2, <2>2, <4>1 DEF Child
    <3>2. PICK st \in RowStatus \ {"pending"} : Writes(w, st) /\ WroteStatus(Head(w), st)
      BY <1>2, <2>2, <3>1, WorkerRows
    <3>3. p = Head(w) /\ EndExpansion(w) /\ rows[p] # NoRow
      BY <1>2, <2>2, <3>2 DEF WroteStatus, Writes
    <3>4. pc[w] = "expand" /\ pc[w] \in RowPcs /\ PageOf(w[2], page[w]) = {}
      BY <3>3 DEF EndExpansion, RowPcs
    <3>5. rows'[p].acct = w[2]
      BY <1>a, <3>3, <3>4, InHand DEF Kept, SameItem
    <3>6. m <= page[w] * PageSize
      BY <1>2, <3>4, <3>5, PageBounds
    <3>7. HasChild(p, w[2], m)
      BY <1>2, <3>3, <3>4, <3>5, <3>6 DEF ExpansionInv
    <3> QED BY <1>b, <3>5, <3>7 DEF HasChild
  <2> QED BY <2>1, <2>2
<1> QED BY <1>1, <1>2 DEF ExpansionInv, HasChild

\* An expanded predicate has a child for every message of its account, also when
\* two jobs expand it at once and one loses the race for a block of seqs, and
\* when accounts are refreshed between jobs.
THEOREM ExpansionComplete == Spec /\ RefreshSparesRunningJobs => []ExpandedIsComplete
<1>1. Init => ExpansionInv
  <2> SUFFICES ASSUME Init PROVE ExpansionInv
    OBVIOUS
  <2>1. \A w \in Workers : pc[w] = "idle"
    BY DEF Init
  <2>2. \A s \in Seqs : rows[s] # NoRow => rows[s].status = "pending"
    BY SavedPlanAssumption DEF Init
  <2> QED BY <2>1, <2>2 DEF ExpansionInv
<1>2. TypeInv /\ PhaseInv /\ SpareInv /\ ExpansionInv /\ [Next]_vars /\ [Spares]_vars =>
          ExpansionInv'
  <2> SUFFICES ASSUME TypeInv, PhaseInv, SpareInv, ExpansionInv, [Next]_vars, [Spares]_vars
               PROVE  ExpansionInv'
    OBVIOUS
  <2>1. Spares
    BY DEF Spares, vars, planVars, Present
  <2> QED BY <2>1, WorkerExpansion, OtherExpansion DEF Next
<1>3. ExpansionInv => ExpandedIsComplete
  BY DEF ExpansionInv, ExpandedIsComplete, HasChild, Present
<1>4. RefreshSparesRunningJobs <=> [][Spares]_vars
  BY PTL DEF RefreshSparesRunningJobs, Spares
<1> QED BY <1>1, <1>2, <1>3, <1>4, TypeCorrect, PhasesHold, SpareHolds, PTL DEF Spec

-----------------------------------------------------------------------------
(* No refresh at all *)

\* The handlers (without refresh), the driver and a crash leave the table and the
\* workers' progress alone; a crash empties what the workers hold, a job that
\* begins has its workers load, and only a job that has not begun gets options.
LEMMA OtherFrame ==
    ASSUME TypeInv, PhaseInv, refreshing = 0, ~MayRefresh,
           HandlerStep \/ (\E j \in Jobs : DriverStep(j)) \/ Crash \/ UNCHANGED vars
    PROVE  /\ UNCHANGED <<rows, sent, page, base, paused, refreshing>>
           /\ \A w \in Workers :
                /\ todo'[w] = todo[w] \/ todo'[w] = EmptyTable
                /\ \/ pc'[w] = pc[w] /\ (todo'[w] = todo[w] \/ ~Active(w))
                   \/ pc[w] = "idle" /\ pc'[w] = "load"
                   \/ pc'[w] = "dead"
                /\ opts'[w[1]] = opts[w[1]] \/ driver[w[1]] = "none"
<1> USE DEF planVars, driverVars, workerVars, historyVars
<1>0. refreshing = 0 /\ ~MayRefresh
  OBVIOUS
<1>a. \A w \in Workers : w[1] \in Jobs
  BY DEF Workers
<1>b. opts \in [Jobs -> Options]
  BY DEF TypeInv, TypeOK
<1>1. ASSUME NEW j \in Jobs, LoadPlan(j)
      PROVE  /\ UNCHANGED <<rows, sent, page, base, paused, refreshing, todo, pc>>
             /\ \A k \in Jobs : opts'[k] = opts[k] \/ driver[k] = "none"
  BY <1>1, <1>b DEF LoadPlan
<1>2. ASSUME NEW j \in Jobs, CreateJob(j)
      PROVE  /\ UNCHANGED <<rows, sent, page, base, paused, refreshing, todo, opts>>
             /\ \A w \in Workers : pc'[w] = pc[w] \/ (pc[w] = "idle" /\ pc'[w] = "load")
  <2>1. ASSUME NEW w \in Workers PROVE pc'[w] = pc[w] \/ (pc[w] = "idle" /\ pc'[w] = "load")
    <3>1. pc'[w] = IF w[1] = j /\ w[2] \in accts[j] THEN "load" ELSE pc[w]
      BY <1>2 DEF CreateJob
    <3>2. w[1] = j => pc[w] = "idle"
      BY <1>2 DEF CreateJob, PhaseInv, PhaseWaiting, Waiting
    <3> QED BY <3>1, <3>2
  <2> QED BY <1>2, <2>1 DEF CreateJob
<1>3. CASE Crash
  <2>1. UNCHANGED <<rows, sent, page, base, paused, opts>> /\ refreshing' = 0
    BY <1>3 DEF Crash
  <2>2. \A w \in Workers : /\ todo'[w] = EmptyTable
                           /\ pc'[w] = IF pc[w] \in {"idle", "ok", "err"} THEN pc[w] ELSE "dead"
    BY <1>3 DEF Crash
  <2> QED BY <1>0, <2>1, <2>2 DEF Active
<1>4. CASE \/ UNCHANGED vars \/ (\E j \in Jobs : DriverStep(j)) \/ CancelPlan
           \/ \E j \in Jobs : RefuseApply(j) \/ RegisterChannel(j) \/ CreateJobFails(j)
                              \/ CancelApply(j)
  <2>1. UNCHANGED <<rows, sent, page, base, paused, refreshing, todo, pc, opts>>
    BY <1>4 DEF DriverStep, JoinWorker, DecideOutcome, PersistOutcome, DropChannel, vars,
       RefuseApply, RegisterChannel, CreateJobFails, CancelApply, CancelPlan
  <2> QED BY <2>1
<1>5. ~RefreshDelete /\ \A a \in Accounts : ~RefreshCheck(a)
  BY <1>0 DEF RefreshDelete, RefreshCheck
<1>6. CASE \E j \in Jobs : LoadPlan(j)
  BY <1>a, <1>1, <1>6
<1>7. CASE \E j \in Jobs : CreateJob(j)
  BY <1>2, <1>7
<1> QED BY <1>3, <1>4, <1>5, <1>6, <1>7 DEF HandlerStep

-----------------------------------------------------------------------------
(* The table, what the workers hold of it, and what they sent *)

\* What the workers hold was loaded from rows of their account that are still in
\* the table, under the same description, and are not their job's own children.
HeldFromTable ==
    \A w \in Workers : \A s \in Present(todo[w]) :
        /\ rows[s] # NoRow /\ SameItem(todo[w][s], rows[s])
        /\ rows[s].acct = w[2] /\ rows[s].by # w[1]
        /\ todo[w][s].status # "pending" => rows[s].status # "pending"

\* A row on its way to the provider passed the gates of the job's request.
DispatchAllowed ==
    \A w \in Workers : pc[w] = "dispatch" => Allows(opts[w[1]], Head(w), Item(w))

\* What was sent is a row of the worker's account that the request allows, and
\* not a child of the job.
SentFromTable ==
    \A w \in Workers : \A s \in Seqs : sent[w][s] > 0 =>
        /\ rows[s] # NoRow /\ rows[s].acct = w[2] /\ rows[s].by # w[1]
        /\ Allows(opts[w[1]], s, rows[s])

TableInv == /\ refreshing = 0
            /\ HeldFromTable /\ DispatchAllowed /\ SentFromTable /\ ChildrenAfterLoad

LEMMA HeldStep ==
    ASSUME TypeInv, TableInv, NEW w \in Workers, WorkerStep(w)
    PROVE  HeldFromTable'
<1> SUFFICES ASSUME NEW v \in Workers, NEW s \in Present(todo'[v])
             PROVE  /\ rows'[s] # NoRow /\ SameItem(todo'[v][s], rows'[s])
                    /\ rows'[s].acct = v[2] /\ rows'[s].by # v[1]
                    /\ todo'[v][s].status # "pending" => rows'[s].status # "pending"
  BY DEF HeldFromTable
<1>a. s \in Seqs /\ todo'[v][s] # NoRow
  BY DEF Present
<1>b. todo \in [Workers -> Table]
  BY DEF TypeInv, TypeOK
<1>c. rows[s] # NoRow => Kept(s)
  BY <1>a, WorkerKeeps
<1>1. CASE LoadRows(w) /\ v = w /\ todo' # todo
  <2>1. todo'[w] = ListOperations(w[2]) /\ pc[w] = "load" /\ rows' = rows
    BY <1>1, <1>b DEF LoadRows, planVars
  <2>2. rows[s] # NoRow /\ rows[s].acct = w[2] /\ todo'[w][s] = rows[s]
    BY <1>1, <1>a, <2>1 DEF ListOperations, FirstN, Present
  <2>3. rows[s].by # w[1]
    BY <1>a, <2>1, <2>2 DEF TableInv, ChildrenAfterLoad
  <2> QED BY <1>1, <2>1, <2>2, <2>3 DEF SameItem
<1>2. CASE ~(LoadRows(w) /\ v = w /\ todo' # todo)
  <2>1. s \in Present(todo[v]) /\ todo'[v][s] = todo[v][s]
    <3>1. CASE v # w
      BY <3>1, <1>a, WorkerFrame DEF Present
    <3>2. CASE todo' = todo
      BY <3>2, <1>a DEF Present
    <3>3. CASE v = w /\ ~LoadRows(w) /\ todo' # todo
      <4>1. todo'[w] = [todo[w] EXCEPT ![Head(w)] = NoRow] /\ todo[w] \in [Seqs -> Row \cup {NoRow}]
        BY <3>3, <1>b, TodoShrinks DEF Table
      <4> QED BY <3>3, <1>a, <4>1 DEF Present
    <3> QED BY <1>2, <3>1, <3>2, <3>3
  <2>2. /\ rows[s] # NoRow /\ SameItem(todo[v][s], rows[s])
        /\ rows[s].acct = v[2] /\ rows[s].by # v[1]
        /\ todo[v][s].status # "pending" => rows[s].status # "pending"
    BY <2>1 DEF TableInv, HeldFromTable
  <2> QED BY <1>c, <2>1, <2>2 DEF Kept, SameItem
<1> QED BY <1>1, <1>2

LEMMA SentStaysStep ==
    ASSUME TypeInv, TableInv, NEW w \in Workers, WorkerStep(w)
    PROVE  SentFromTable'
<1> USE DEF driverVars
<1>a. opts' = opts /\ sent \in [Workers -> [Seqs -> Nat]] /\ w[1] \in Jobs
  BY WorkerFrame DEF TypeInv, TypeOK, Workers
<1>1. ASSUME NEW v \in Workers, NEW s \in Seqs,
             rows[s] # NoRow, rows[s].acct = v[2], rows[s].by # v[1],
             Allows(opts[v[1]], s, rows[s])
      PROVE  /\ rows'[s] # NoRow /\ rows'[s].acct = v[2] /\ rows'[s].by # v[1]
             /\ Allows(opts'[v[1]], s, rows'[s])
  <2>1. Kept(s)
    BY <1>1, WorkerKeeps
  <2>2. Allows(opts[v[1]], s, rows'[s])
    BY <1>1, <2>1, AllowsSame DEF Kept
  <2> QED BY <1>1, <1>a, <2>1, <2>2 DEF Kept, SameItem
<1>2. \A v \in Workers : \A s \in Seqs :
          sent'[v][s] > 0 => sent[v][s] > 0 \/ (DispatchOk(w) /\ v = w /\ s = Head(w))
  BY <1>a DEF historyVars, WorkerStep, LoadRows, FinishWorker, StopCancelled, LeavePending, SkipRow,
     PassOver, BeginExpansion, ReadPage, AppendChildren, ExpansionFails, EndExpansion,
     BeginDispatch, DispatchOk, DispatchRejected, PauseAccount, MarkRow, WriteAudit
<1>3. DispatchOk(w) => /\ rows[Head(w)] # NoRow /\ rows[Head(w)].acct = w[2]
                       /\ rows[Head(w)].by # w[1] /\ Head(w) \in Seqs
                       /\ Allows(opts[w[1]], Head(w), rows[Head(w)])
  <2> SUFFICES ASSUME DispatchOk(w)
               PROVE  /\ rows[Head(w)] # NoRow /\ rows[Head(w)].acct = w[2]
                      /\ rows[Head(w)].by # w[1] /\ Head(w) \in Seqs
                      /\ Allows(opts[w[1]], Head(w), rows[Head(w)])
    OBVIOUS
  <2>1. pc[w] = "dispatch" /\ Head(w) \in Present(todo[w]) /\ Head(w) \in Seqs
    BY HeadType DEF DispatchOk, TypeInv, HasRow, RowPcs
  <2>2. Allows(opts[w[1]], Head(w), Item(w))
    BY <2>1 DEF TableInv, DispatchAllowed
  <2>3. /\ rows[Head(w)] # NoRow /\ SameItem(Item(w), rows[Head(w)])
        /\ rows[Head(w)].acct = w[2] /\ rows[Head(w)].by # w[1]
    BY <2>1 DEF TableInv, HeldFromTable, Item
  <2> QED BY <2>1, <2>2, <2>3, AllowsSame
<1> SUFFICES ASSUME NEW v \in Workers, NEW s \in Seqs, sent'[v][s] > 0
             PROVE  /\ rows'[s] # NoRow /\ rows'[s].acct = v[2] /\ rows'[s].by # v[1]
                    /\ Allows(opts'[v[1]], s, rows'[s])
  BY DEF SentFromTable
<1>4. CASE sent[v][s] > 0
  BY <1>1, <1>4 DEF TableInv, SentFromTable
<1>5. CASE DispatchOk(w) /\ v = w /\ s = Head(w)
  BY <1>1, <1>3, <1>5
<1> QED BY <1>2, <1>4, <1>5

LEMMA WorkerTable ==
    ASSUME TypeInv, TableInv, Performed, NEW w \in Workers, WorkerStep(w)
    PROVE  TableInv'
<1> USE DEF driverVars
<1>a. /\ opts' = opts /\ pc \in [Workers -> WorkerPcs] /\ pc' \in [Workers -> WorkerPcs]
      /\ \A v \in Workers : v # w => pc'[v] = pc[v] /\ todo'[v] = todo[v]
      /\ pc'[w] \notin {"idle", "load"}
  BY WorkerFrame DEF TypeInv, TypeOK
<1>1. refreshing' = 0
  BY DEF TableInv, WorkerStep, LoadRows, FinishWorker, StopCancelled, LeavePending, SkipRow,
     PassOver, BeginExpansion, ReadPage, AppendChildren, ExpansionFails, EndExpansion,
     BeginDispatch, DispatchOk, DispatchRejected, PauseAccount, MarkRow, WriteAudit
<1>2. DispatchAllowed'
  <2>1. pc'[w] = "dispatch" => Selected(w) /\ todo' = todo
    <3>1. pc'[w] = "dispatch" => BeginDispatch(w)
      BY <1>a DEF WorkerStep, LoadRows, FinishWorker, StopCancelled, LeavePending, SkipRow,
         PassOver, BeginExpansion, ReadPage, AppendChildren, ExpansionFails, EndExpansion,
         DispatchOk, DispatchRejected, PauseAccount, MarkRow, WriteAudit, Goto, AtRow, Selected
    <3> QED BY <3>1 DEF BeginDispatch
  <2>2. pc'[w] = "dispatch" => Allows(opts[w[1]], Head(w), Item(w)) /\ todo' = todo
    BY <2>1 DEF Selected
  <2>3. ASSUME NEW v \in Workers, pc'[v] = "dispatch"
        PROVE  Allows(opts'[v[1]], Head(v)', Item(v)')
    <3>1. Head(v)' = Head(v) /\ Item(v)' = Item(v)
      BY <1>a, <2>2, <2>3 DEF Head, Item
    <3>2. Allows(opts[v[1]], Head(v), Item(v))
      BY <1>a, <2>2, <2>3 DEF TableInv, DispatchAllowed
    <3> QED BY <1>a, <3>1, <3>2
  <2> QED BY <2>3 DEF DispatchAllowed, Allows, Acknowledged
<1>4. ChildrenAfterLoad'
  <2> SUFFICES ASSUME NEW v \in Workers, pc'[v] \in {"idle", "load"}, NEW s \in Seqs,
                      rows'[s] # NoRow, rows'[s].by = v[1], rows'[s].acct = v[2]
               PROVE  FALSE
    BY DEF ChildrenAfterLoad
  <2>1. v # w /\ pc'[v] = pc[v]
    BY <1>a
  <2>2. CASE rows[s] # NoRow
    <3>1. Kept(s)
      BY <2>2, WorkerKeeps
    <3> QED BY <2>1, <2>2, <3>1 DEF Kept, SameItem, TableInv, ChildrenAfterLoad
  <2>3. CASE rows[s] = NoRow
    <3>1. AppendChildren(w) /\ rows'[s] = Child(w, s)
      BY <2>3, WorkerRows, Appended DEF WroteStatus
    <3>2. v[1] = w[1] /\ v[2] = w[2]
      BY <3>1 DEF Child
    <3> QED BY <2>1, <3>2 DEF Workers
  <2> QED BY <2>2, <2>3
<1> QED BY <1>1, <1>2, <1>4, HeldStep, SentStaysStep DEF TableInv

\* The other steps leave the table, and what the workers at work hold, alone.
LEMMA OtherTable ==
    ASSUME TypeInv, PhaseInv, SentInv, TableInv, ~MayRefresh,
           HandlerStep \/ (\E j \in Jobs : DriverStep(j)) \/ Crash \/ UNCHANGED vars
    PROVE  TableInv'
<1>1. /\ UNCHANGED <<rows, sent, refreshing>>
      /\ \A w \in Workers :
           /\ todo'[w] = todo[w] \/ todo'[w] = EmptyTable
           /\ \/ pc'[w] = pc[w] /\ (todo'[w] = todo[w] \/ ~Active(w))
              \/ pc[w] = "idle" /\ pc'[w] = "load"
              \/ pc'[w] = "dead"
           /\ opts'[w[1]] = opts[w[1]] \/ driver[w[1]] = "none"
  BY OtherFrame DEF TableInv
<1>2. \A w \in Workers : Present(todo'[w]) \subseteq Present(todo[w])
                         /\ \A s \in Present(todo'[w]) : todo'[w][s] = todo[w][s]
  BY <1>1 DEF Present, EmptyTable
<1>3. HeldFromTable'
  BY <1>1, <1>2 DEF TableInv, HeldFromTable
<1>4. ChildrenAfterLoad' /\ refreshing' = 0
  BY <1>1 DEF TableInv, ChildrenAfterLoad
<1>5. \A w \in Workers : driver[w[1]] = "none" => pc[w] = "idle"
  BY DEF PhaseInv, PhaseWaiting, Waiting, Workers
<1>6. SentFromTable'
  <2>1. ASSUME NEW w \in Workers, NEW s \in Seqs, sent[w][s] > 0
        PROVE  opts'[w[1]] = opts[w[1]]
    BY <1>1, <1>5, <2>1 DEF SentInv, NothingSentYet
  <2>2. ASSUME NEW w \in Workers, NEW s \in Seqs, sent[w][s] > 0
        PROVE  /\ rows[s] # NoRow /\ rows[s].acct = w[2] /\ rows[s].by # w[1]
               /\ Allows(opts'[w[1]], s, rows[s])
    BY <2>1, <2>2 DEF TableInv, SentFromTable
  <2> QED BY <1>1, <2>2 DEF SentFromTable
<1>7. DispatchAllowed'
  <2>1. ASSUME NEW w \in Workers, pc'[w] = "dispatch"
        PROVE  Allows(opts'[w[1]], Head(w)', Item(w)')
    <3>1. pc[w] = "dispatch" /\ todo'[w] = todo[w] /\ opts'[w[1]] = opts[w[1]]
      BY <1>1, <1>5, <2>1 DEF Active
    <3>2. Head(w)' = Head(w) /\ Item(w)' = Item(w)
      BY <3>1 DEF Head, Item
    <3>3. Allows(opts[w[1]], Head(w), Item(w))
      BY <3>1 DEF TableInv, DispatchAllowed
    <3> QED BY <3>1, <3>2, <3>3
  <2> QED BY <2>1 DEF DispatchAllowed, Allows, Acknowledged
<1> QED BY <1>3, <1>4, <1>6, <1>7 DEF TableInv

LEMMA TableInit == Init => TableInv
<1> SUFFICES ASSUME Init PROVE TableInv
  OBVIOUS
<1>1. \A w \in Workers : todo[w] = EmptyTable /\ pc[w] = "idle"
                         /\ \A s \in Seqs : sent[w][s] = 0
  BY DEF Init
<1>2. \A w \in Workers : Present(todo[w]) = {}
  BY <1>1 DEF Present, EmptyTable
<1>3. \A s \in Seqs : rows[s] # NoRow => rows[s].status = "pending" /\ rows[s].by = NoJob
  BY SavedPlanAssumption DEF Init
<1>4. \A w \in Workers : w[1] # NoJob
  BY ConstantsAssumption DEF Workers
<1>5. refreshing = 0
  BY DEF Init
<1> QED BY <1>1, <1>2, <1>3, <1>4, <1>5 DEF TableInv, HeldFromTable, DispatchAllowed,
           SentFromTable, ChildrenAfterLoad

\* Without a refresh, the table, what the workers hold and what they sent agree.
THEOREM TableHolds == ASSUME ~MayRefresh PROVE Spec => []TableInv
<1>1. TypeInv /\ PhaseInv /\ SentInv /\ AuditInv /\ TableInv /\ [Next]_vars => TableInv'
  BY WorkerTable, OtherTable DEF Next, AuditInv
<1> QED BY <1>1, TableInit, TypeCorrect, PhasesHold, HeldRowsHold, AuditInvHolds, PTL DEF Spec

\* Where no account is refreshed at all, refreshes spare running jobs: the
\* theorems above hold of the program as it is.
THEOREM NoRefreshSpares == ASSUME ~MayRefresh PROVE Spec => RefreshSparesRunningJobs
<1>1. TypeInv /\ PhaseInv /\ TableInv /\ [Next]_vars => [Spares]_vars
  <2> SUFFICES ASSUME TypeInv, PhaseInv, TableInv, [Next]_vars PROVE Spares
    OBVIOUS
  <2>1. CASE HandlerStep \/ (\E j \in Jobs : DriverStep(j)) \/ Crash \/ UNCHANGED vars
    <3>1. rows' = rows
      BY <2>1, OtherFrame DEF TableInv
    <3> QED BY <3>1 DEF Spares, Present
  <2>2. CASE \E w \in Workers : WorkerStep(w)
    BY <2>2, WorkerKeeps DEF Spares, Present, Kept
  <2> QED BY <2>1, <2>2 DEF Next
<1>2. RefreshSparesRunningJobs <=> [][Spares]_vars
  BY PTL DEF RefreshSparesRunningJobs, Spares
<1> QED BY <1>1, <1>2, TypeCorrect, PhasesHold, TableHolds, PTL DEF Spec

-----------------------------------------------------------------------------
(* A worker settles every row it is shown *)

\* The rows of the saved plan a worker's query returns.
Shown(w) == FirstN({t \in Present(InitialRows) : InitialRows[t].acct = w[2]}, ListLimit)

\* The rows a worker is to settle: operations of a risk its request covers.
InReach(w, s) == rows[s].kind = "row" /\ Includes(opts[w[1]].riskMax, rows[s].risk)

PlanStays ==
    \A s \in Seqs : InitialRows[s] # NoRow =>
        rows[s] # NoRow /\ SameItem(rows[s], InitialRows[s])

\* A worker at work has settled or still holds every row it was shown; one that
\* ended well has settled them.
WalkInv ==
    /\ PlanStays
    /\ \A w \in Workers :
         /\ Active(w) /\ pc[w] # "load" =>
              \A s \in Shown(w) : InReach(w, s) =>
                  rows[s].status # "pending" \/ s \in Present(todo[w])
         /\ pc[w] = "ok" /\ w \notin paused =>
              \A s \in Shown(w) : InReach(w, s) => rows[s].status # "pending"
         /\ pc[w] \in {"expand", "append"} => Item(w).kind = "pred"
         /\ pc[w] \in {"auditApplied", "auditFailed", "auditSkipped"} =>
              rows[Head(w)].status # "pending"

\* As the saved plan is numbered from 1 without a gap, what is appended later comes
\* after it and pushes none of its rows beyond the clamp of the query.
LEMMA ShownIsListed ==
    ASSUME TypeInv, PlanStays, NEW w \in Workers, NEW s \in Shown(w)
    PROVE  s \in Seqs /\ InitialRows[s] # NoRow /\ rows[s] # NoRow
           /\ s \in Present(ListOperations(w[2]))
<1> DEFINE S0 == {t \in Present(InitialRows) : InitialRows[t].acct = w[2]}
           S1 == {t \in Present(rows) : rows[t].acct = w[2]}
<1>1. s \in S0 /\ Cardinality({t \in S0 : t < s}) < ListLimit
  BY DEF Shown, FirstN
<1>2. s \in Seqs /\ InitialRows[s] # NoRow /\ InitialRows[s].acct = w[2]
  BY <1>1 DEF Present
<1>3. rows[s] # NoRow /\ rows[s].acct = w[2]
  BY <1>2 DEF PlanStays, SameItem
<1>4. {t \in S0 : t < s} = {t \in S1 : t < s}
  <2>1. ASSUME NEW t \in Seqs, t < s
        PROVE  InitialRows[t] # NoRow /\ rows[t] # NoRow /\ rows[t].acct = InitialRows[t].acct
    <3>1. t \in 1..s
      BY <1>2, <2>1, ConstantsAssumption DEF Seqs
    <3>2. InitialRows[t] # NoRow
      BY <1>2, <3>1, SavedPlanAssumption
    <3> QED BY <2>1, <3>2 DEF PlanStays, SameItem
  <2> QED BY <2>1 DEF Present
<1>5. s \in FirstN(S1, ListLimit)
  BY <1>1, <1>2, <1>3, <1>4 DEF FirstN, Present
<1> QED BY <1>2, <1>3, <1>5 DEF ListOperations, Present

\* The status of the row in hand after it was written.
LEMMA StatusWritten ==
    ASSUME TypeInv, NEW s \in Seqs, rows[s] # NoRow, NEW st, rows' = WithStatus(s, st)
    PROVE  rows'[s].status = st
<1>1. rows[s] \in Row /\ rows' = [rows EXCEPT ![s].status = st]
  BY DEF TypeInv, TypeOK, Table, WithStatus
<1>2. rows'[s] = [rows[s] EXCEPT !.status = st]
  BY <1>1 DEF TypeInv, TypeOK, Table
<1> QED BY <1>1, <1>2 DEF Row

LEMMA PlanStaysStep ==
    ASSUME PlanStays, \A s \in Seqs : rows[s] # NoRow => Kept(s)
    PROVE  PlanStays'
BY DEF PlanStays, Kept, SameItem

\* The steps that take the row in hand off the list.
Removes(w) ==
    LeavePending(w) \/ PassOver(w) \/ ExpansionFails(w) \/ EndExpansion(w) \/ WriteAudit(w)

\* A row taken off the list is one the worker need not or did settle.
LEMMA RemovedIsSettled ==
    ASSUME TypeInv, TableInv, WalkInv, NEW w \in Workers, Removes(w)
    PROVE  Head(w) \in Seqs /\ (InReach(w, Head(w)) => rows[Head(w)].status # "pending")
<1>1. Present(todo[w]) # {}
  BY DEF Removes, LeavePending, PassOver, ExpansionFails, EndExpansion, WriteAudit, Selected,
     AtRow, TypeInv, HasRow, RowPcs
<1>2. Head(w) \in Present(todo[w]) /\ Head(w) \in Seqs
  BY <1>1, HeadType DEF TypeInv
<1>3. SameItem(Item(w), rows[Head(w)])
      /\ (Item(w).status # "pending" => rows[Head(w)].status # "pending")
  BY <1>2 DEF TableInv, HeldFromTable, Item
<1>4. CASE LeavePending(w) \/ PassOver(w)
  BY <1>2, <1>3, <1>4 DEF LeavePending, PassOver, InReach, SameItem
<1>5. CASE ExpansionFails(w) \/ EndExpansion(w)
  <2>1. pc[w] \in {"expand", "append"}
    BY <1>5 DEF ExpansionFails, EndExpansion
  <2> QED BY <1>2, <1>3, <2>1 DEF WalkInv, InReach, SameItem
<1>6. CASE WriteAudit(w)
  BY <1>2, <1>6 DEF WriteAudit, WalkInv
<1> QED BY <1>4, <1>5, <1>6 DEF Removes

LEMMA WorkerWalk ==
    ASSUME TypeInv, TableInv, WalkInv, "list" \notin Faults, NEW w \in Workers, WorkerStep(w)
    PROVE  WalkInv'
<1> USE DEF workerVars, historyVars, driverVars, planVars
<1>a. /\ pc \in [Workers -> WorkerPcs] /\ todo \in [Workers -> Table]
      /\ \A v \in Workers : v # w => pc'[v] = pc[v] /\ todo'[v] = todo[v]
      /\ \A s \in Seqs : rows[s] # NoRow => Kept(s)
      /\ opts' = opts /\ Active(w)
  BY WorkerFrame, WorkerKeeps DEF TypeInv, TypeOK
<1>b. PlanStays'
  BY <1>a, PlanStaysStep DEF WalkInv
<1>c. paused' = paused \/ (PauseAccount(w) /\ paused' = paused \cup {w})
  BY DEF WorkerStep, LoadRows, FinishWorker, StopCancelled, LeavePending, SkipRow, PassOver,
     BeginExpansion, ReadPage, AppendChildren, ExpansionFails, EndExpansion, BeginDispatch,
     DispatchOk, DispatchRejected, PauseAccount, MarkRow, WriteAudit
<1>d. \A v \in Workers : \A s \in Shown(v) :
          /\ s \in Seqs /\ rows[s] # NoRow
          /\ InReach(v, s)' => InReach(v, s)
          /\ rows[s].status # "pending" => rows'[s].status # "pending"
  <2> SUFFICES ASSUME NEW v \in Workers, NEW s \in Shown(v)
               PROVE  /\ s \in Seqs /\ rows[s] # NoRow
                      /\ InReach(v, s)' => InReach(v, s)
                      /\ rows[s].status # "pending" => rows'[s].status # "pending"
    OBVIOUS
  <2>1. s \in Seqs /\ rows[s] # NoRow
    BY ShownIsListed DEF WalkInv
  <2>2. Kept(s)
    BY <1>a, <2>1
  <2> QED BY <1>a, <2>1, <2>2 DEF Kept, SameItem, InReach
<1>1. ASSUME NEW v \in Workers, Active(v)', pc'[v] # "load", NEW s \in Shown(v), InReach(v, s)'
      PROVE  rows'[s].status # "pending" \/ s \in Present(todo'[v])
  <2>1. s \in Seqs /\ rows[s] # NoRow /\ InReach(v, s)
        /\ (rows[s].status # "pending" => rows'[s].status # "pending")
    BY <1>1, <1>d
  <2>2. CASE v = w /\ LoadRows(w)
    <3>1. todo'[w] = ListOperations(w[2])
      BY <1>a, <2>2 DEF LoadRows
    <3> QED BY <2>2, <3>1, ShownIsListed DEF WalkInv
  <2>3. CASE v # w \/ ~LoadRows(w)
    <3>1. Active(v) /\ pc[v] # "load"
      <4>1. ~LoadRows(w) => pc[w] # "load"
        BY DEF WorkerStep, FinishWorker, StopCancelled, LeavePending, SkipRow, PassOver,
           BeginExpansion, ReadPage, AppendChildren, ExpansionFails, EndExpansion,
           BeginDispatch, DispatchOk, DispatchRejected, PauseAccount, MarkRow, WriteAudit,
           AtRow, Selected
      <4> QED BY <1>a, <1>1, <2>3, <4>1 DEF Active
    <3>2. rows[s].status # "pending" \/ s \in Present(todo[v])
      BY <2>1, <3>1 DEF WalkInv
    <3>3. CASE todo'[v] = todo[v]
      BY <2>1, <3>2, <3>3
    <3>4. CASE v = w /\ Removes(w)
      <4>1. Advance(w)
        BY <3>4 DEF Removes, LeavePending, PassOver, ExpansionFails, EndExpansion, WriteAudit
      <4>2. s # Head(w) => todo'[w][s] = todo[w][s]
        BY <1>a, <2>1, <4>1 DEF Advance, Table
      <4>3. s = Head(w) => rows[s].status # "pending"
        BY <2>1, <3>4, RemovedIsSettled
      <4> QED BY <2>1, <3>2, <3>4, <4>2, <4>3 DEF Present
    <3>5. v # w \/ todo' = todo \/ Removes(w)
      BY <2>3 DEF Removes, WorkerStep, FinishWorker, StopCancelled, SkipRow,
         BeginExpansion, ReadPage, AppendChildren, BeginDispatch, DispatchOk,
         DispatchRejected, PauseAccount, MarkRow
    <3> QED BY <1>a, <3>3, <3>4, <3>5
  <2> QED BY <2>2, <2>3
<1>2. ASSUME NEW v \in Workers, pc'[v] = "ok", v \notin paused', NEW s \in Shown(v), InReach(v, s)'
      PROVE  rows'[s].status # "pending"
  <2>1. s \in Seqs /\ rows[s] # NoRow /\ InReach(v, s)
        /\ (rows[s].status # "pending" => rows'[s].status # "pending")
    BY <1>2, <1>d
  <2>2. CASE v # w
    BY <1>a, <1>c, <1>2, <2>1, <2>2 DEF WalkInv
  <2>3. CASE v = w
    <3>1. FinishWorker(w)
      BY <1>a, <1>2, <2>3 DEF WorkerStep, LoadRows, StopCancelled, LeavePending, SkipRow,
         PassOver, BeginExpansion, ReadPage, AppendChildren, ExpansionFails, EndExpansion,
         BeginDispatch, DispatchOk, DispatchRejected, PauseAccount, MarkRow, WriteAudit, Goto,
         AtRow, Selected
    <3> QED BY <1>a, <2>1, <2>3, <3>1 DEF FinishWorker, WalkInv
  <2> QED BY <2>2, <2>3
<1>3. ASSUME NEW v \in Workers, pc'[v] \in {"expand", "append"}
      PROVE  Item(v)'.kind = "pred"
  <2>1. CASE v # w
    BY <1>a, <1>3, <2>1 DEF WalkInv, Item, Head
  <2>2. CASE v = w
    <3>1. BeginExpansion(w) \/ ReadPage(w) \/ AppendChildren(w)
      BY <1>a, <1>3, <2>2 DEF WorkerStep, LoadRows, FinishWorker, StopCancelled, LeavePending,
         SkipRow, PassOver, ExpansionFails, EndExpansion, BeginDispatch, DispatchOk,
         DispatchRejected, PauseAccount, MarkRow, WriteAudit, Goto, AtRow, Selected
    <3>2. todo' = todo
      BY <3>1 DEF BeginExpansion, ReadPage, AppendChildren
    <3>3. Item(w).kind = "pred"
      BY <3>1 DEF BeginExpansion, ReadPage, AppendChildren, WalkInv
    <3> QED BY <2>2, <3>2, <3>3 DEF Item, Head
  <2> QED BY <2>1, <2>2
<1>4. ASSUME NEW v \in Workers, pc'[v] \in {"auditApplied", "auditFailed", "auditSkipped"}
      PROVE  rows'[Head(v)'].status # "pending"
  <2>1. CASE v # w
    <3>1. Head(v)' = Head(v) /\ pc'[v] = pc[v]
      BY <1>a, <2>1 DEF Head
    <3>2. Head(v) \in Present(todo[v]) /\ Head(v) \in Seqs
      BY <1>4, <3>1, HeadType DEF TypeInv, HasRow, RowPcs
    <3>3. rows[Head(v)] # NoRow /\ rows[Head(v)].status # "pending"
      BY <1>4, <3>1, <3>2 DEF WalkInv, TableInv, HeldFromTable
    <3> QED BY <1>a, <3>1, <3>2, <3>3 DEF Kept
  <2>2. CASE v = w
    <3>1. SkipRow(w) \/ MarkRow(w)
      BY <1>a, <1>4, <2>2 DEF WorkerStep, LoadRows, FinishWorker, StopCancelled, LeavePending,
         PassOver, BeginExpansion, ReadPage, AppendChildren, ExpansionFails, EndExpansion,
         BeginDispatch, DispatchOk, DispatchRejected, PauseAccount, WriteAudit, Goto, AtRow,
         Selected
    <3>2. todo' = todo /\ \E st \in RowStatus \ {"pending"} : rows' = WithStatus(Head(w), st)
      BY <1>a, <1>4, <2>2, <3>1 DEF SkipRow, MarkRow, Goto, RowStatus
    <3>3. Head(w) \in Present(todo[w]) /\ Head(w) \in Seqs
      BY <3>1, HeadType DEF SkipRow, MarkRow, AtRow, TypeInv, HasRow, RowPcs
    <3>4. rows[Head(w)] # NoRow
      BY <3>3 DEF TableInv, HeldFromTable
    <3>5. rows'[Head(w)].status # "pending"
      BY <3>2, <3>3, <3>4, StatusWritten
    <3> QED BY <2>2, <3>2, <3>5 DEF Head
  <2> QED BY <2>1, <2>2
<1>5. Shown(w)' = Shown(w)
  BY DEF Shown, FirstN
<1> QED BY <1>b, <1>1, <1>2, <1>3, <1>4 DEF WalkInv, Shown, FirstN

\* The other steps settle nothing and take nothing off a list.
LEMMA OtherWalk ==
    ASSUME TypeInv, PhaseInv, TableInv, WalkInv, ~MayRefresh,
           HandlerStep \/ (\E j \in Jobs : DriverStep(j)) \/ Crash \/ UNCHANGED vars
    PROVE  WalkInv'
<1>1. UNCHANGED <<rows, paused>>
  BY OtherFrame DEF TableInv
<1>2. ASSUME NEW w \in Workers, pc'[w] \notin {"load", "dead", "idle", "err"}
      PROVE  /\ pc'[w] = pc[w] /\ (todo'[w] = todo[w] \/ ~Active(w))
             /\ opts'[w[1]] = opts[w[1]]
  <2>1. pc'[w] = pc[w] /\ (todo'[w] = todo[w] \/ ~Active(w))
    BY <1>2, OtherFrame DEF TableInv
  <2>2. driver[w[1]] # "none"
    BY <1>2, <2>1 DEF PhaseInv, PhaseWaiting, Waiting, Workers
  <2> QED BY <2>1, <2>2, OtherFrame DEF TableInv
<1>3. PlanStays'
  BY <1>1 DEF WalkInv, PlanStays
<1>4. ASSUME NEW w \in Workers
      PROVE  /\ Active(w)' /\ pc'[w] # "load" =>
                  \A s \in Shown(w) : InReach(w, s)' =>
                      rows[s].status # "pending" \/ s \in Present(todo'[w])
             /\ pc'[w] = "ok" /\ w \notin paused =>
                  \A s \in Shown(w) : InReach(w, s)' => rows[s].status # "pending"
             /\ pc'[w] \in {"expand", "append"} => Item(w)'.kind = "pred"
             /\ pc'[w] \in {"auditApplied", "auditFailed", "auditSkipped"} =>
                  rows[Head(w)'].status # "pending"
  <2>1. CASE pc'[w] \in {"load", "dead", "idle", "err"}
    BY <2>1 DEF Active
  <2>2. CASE pc'[w] \notin {"load", "dead", "idle", "err"}
    <3>1. /\ pc'[w] = pc[w] /\ (todo'[w] = todo[w] \/ ~Active(w))
          /\ opts'[w[1]] = opts[w[1]]
      BY <1>2, <2>2
    <3>2. \A s : InReach(w, s)' => InReach(w, s)
      BY <1>1, <3>1 DEF InReach
    <3>3. todo'[w] = todo[w] => Head(w)' = Head(w) /\ Item(w)' = Item(w)
      BY DEF Head, Item
    <3> QED BY <1>1, <2>2, <3>1, <3>2, <3>3 DEF WalkInv, Active
  <2> QED BY <2>1, <2>2
<1> QED BY <1>1, <1>3, <1>4 DEF WalkInv, Shown, FirstN

\* A worker that ended without a pause left no row it was shown, and its request
\* covers, pending: nothing pushes a row of the plan out of the slice it walks.
THEOREM WalkSettles ==
    ASSUME ~MayRefresh, "list" \notin Faults
    PROVE  Spec => []WalkedRowsAreSettled
<1>1. Init => WalkInv
  <2> SUFFICES ASSUME Init PROVE WalkInv
    OBVIOUS
  <2>1. \A w \in Workers : pc[w] = "idle"
    BY DEF Init
  <2>2. PlanStays
    BY DEF Init, PlanStays, SameItem
  <2> QED BY <2>1, <2>2 DEF WalkInv, Active
<1>2. TypeInv /\ PhaseInv /\ TableInv /\ WalkInv /\ [Next]_vars => WalkInv'
  BY WorkerWalk, OtherWalk DEF Next
<1>3. WalkInv => WalkedRowsAreSettled
  BY DEF WalkInv, WalkedRowsAreSettled, Shown, InReach
<1> QED BY <1>1, <1>2, <1>3, TypeCorrect, PhasesHold, TableHolds, PTL DEF Spec
=============================================================================
