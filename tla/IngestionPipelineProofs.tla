---------------------- MODULE IngestionPipelineProofs ----------------------
(***************************************************************************)
(* Theorems about the embedding pipeline, for any number of emails,        *)
(* accounts, runs and failures and any size of batch and channel.          *)
(***************************************************************************)
EXTENDS IngestionPipeline, FiniteSetTheorems, SequenceTheorems, WellFoundedInduction, TLAPS

-----------------------------------------------------------------------------
(* The helpers *)

\* A non-empty set of naturals has a least member: among the intervals 0..s,
\* one is minimal for inclusion.
LEMMA LeastIsMember ==
    ASSUME NEW S \in SUBSET Nat, S # {}
    PROVE  Least(S) \in S /\ \A t \in S : Least(S) <= t
<1> DEFINE R == StrictSubsetOrdering(Nat)
           T == {0..s : s \in S}
<1>1. T \subseteq FiniteSubsetsOf(Nat)
  <2>1. \A s \in S : IsFiniteSet(0..s) /\ 0..s \in SUBSET Nat
    BY FS_Interval
  <2> QED BY <2>1 DEF FiniteSubsetsOf
<1>2. IsWellFoundedOn(R, FiniteSubsetsOf(Nat)) /\ T # {}
  BY FS_StrictSubsetOrderingWellFounded
<1>3. PICK I \in T : \A J \in T : <<J, I>> \notin R
  <2> HIDE DEF R, T
  <2> QED BY <1>1, <1>2, WFMin
<1>4. PICK x \in S : I = 0..x
  BY <1>3
<1>5. \A y \in S : x <= y
  <2>1. SUFFICES ASSUME NEW y \in S, y < x PROVE FALSE
    OBVIOUS
  <2>2. 0..y \subseteq 0..x /\ 0..y # 0..x /\ 0..y \in T
    BY <2>1
  <2> QED BY <1>1, <1>3, <1>4, <2>2 DEF StrictSubsetOrdering, FiniteSubsetsOf
<1> QED BY <1>5 DEF Least

\* A non-empty set of emails has a greatest member: the least one counted
\* from the end.
LEMMA GreatestIsMember ==
    ASSUME NEW S \in SUBSET Emails, S # {} PROVE Greatest(S) \in S
<1> DEFINE D == {NumEmails - e : e \in S}
<1>1. S \subseteq 1..NumEmails /\ NumEmails \in Nat
  BY PipelineAssumption DEF Emails
<1>2. D \in SUBSET Nat /\ D # {}
  BY <1>1
<1>3. PICK e \in S : Least(D) = NumEmails - e
  BY <1>2, LeastIsMember
<1>4. \A d \in S : d <= e
  <2>1. TAKE d \in S
  <2>2. NumEmails - e <= NumEmails - d
    BY <1>2, <1>3, LeastIsMember
  <2> QED BY <1>1, <2>2
<1> QED BY <1>4 DEF Greatest

\* A set of emails is finite and its size a number.
LEMMA EmailsFinite ==
    ASSUME NEW S \in SUBSET Emails PROVE IsFiniteSet(S) /\ Cardinality(S) \in Nat
<1>1. IsFiniteSet(Emails)
  BY FS_Interval, PipelineAssumption DEF Emails
<1> QED BY <1>1, FS_Subset, FS_CardinalityType

\* A batch is a part of its list, and takes something from a list that has
\* something: its first email at least.
LEMMA BatchTakes ==
    ASSUME NEW S \in SUBSET Emails PROVE Batch(S) \subseteq S /\ (S # {} => Batch(S) # {})
<1>1. Batch(S) \subseteq S
  BY DEF Batch
<1>2. ASSUME S # {} PROVE Least(S) \in Batch(S)
  <2>1. S \in SUBSET Nat
    BY DEF Emails
  <2>2. Least(S) \in S /\ \A t \in S : Least(S) <= t
    BY <1>2, <2>1, LeastIsMember
  <2> DEFINE A == {d \in S : d <= Least(S)}
  <2>3. A = {Least(S)}
    <3>1. ASSUME NEW n \in S, \A t \in S : n <= t PROVE {d \in S : d <= n} = {n}
      <4>1. n <= n /\ \A d \in S : d <= n => d = n
        <5>1. \A x, y \in Nat : x <= y /\ y <= x => x = y
          OBVIOUS
        <5> QED BY <2>1, <3>1, <5>1
      <4> QED BY <4>1, Zenon
    <3> QED BY <2>2, <3>1
  <2>4. Cardinality(A) = 1
    <3> HIDE DEF A
    <3>1. Cardinality({Least(S)}) = 1
      BY FS_Singleton, Zenon
    <3> QED BY <2>3, <3>1
  <2>5. Cardinality(A) <= BatchSize
    <3> HIDE DEF A
    <3> QED BY <2>4, PipelineAssumption
  <2> QED BY <2>2, <2>5, Zenon DEF Batch
<1> QED BY <1>1, <1>2

-----------------------------------------------------------------------------
(* Type correctness *)

Phases == {"idle", "fetch", "saveFailed", "saveSync", "begin", "embed", "hung", "saveBatch",
           "saveCategorizing", "complete", "saveComplete", "over", "dead"}

Task0 == [phase : Phases, acct : Accounts \cup {None}, job : Runs \cup {None},
          resumed : BOOLEAN, after : Emails \cup {None}, list : SUBSET Emails,
          last : Emails \cup {None}]

Maker == [pc : {"none", "check", "parking", "waiting", "embed", "mark", "sendError", "end"},
          left : SUBSET Emails, hand : SUBSET Emails, unmarked : SUBSET Emails]

Item == [ok : BOOLEAN, batch : SUBSET Emails]

LEMMA Typed ==
    TypeOK <=>
      /\ embedded \subseteq Emails /\ stored \subseteq Emails /\ lost \subseteq Emails
      /\ checkpoints \in Seq(Checkpoint)
      /\ job \in Job
      /\ paused \in BOOLEAN /\ notifying \in BOOLEAN
      /\ reviving \in Checkpoint \cup {NoCheckpoint}
      /\ run \in [Runs -> Task0]
      /\ prod \in [Runs -> Maker]
      /\ chan \in [Runs -> Seq(Item)]
      /\ \A r \in Runs : Len(chan[r]) <= Buffer
      /\ failures \in 0..MaxFailures
BY DEF TypeOK, Phases, Task0, Maker, Item

Gone == {"idle", "over", "dead"}

Holding == {"parking", "waiting", "embed", "mark", "sendError"}

\* A task at work knows its job and account, and no batch is empty: with
\* TypeOK, inductive.
Owned == \A r \in Runs : run[r].phase \notin Gone => run[r].job \in Runs /\ run[r].acct \in Accounts

Filled == \A r \in Runs : /\ prod[r].pc \in Holding => prod[r].hand # {}
                          /\ \A i \in DOMAIN chan[r] : chan[r][i].batch # {}

TypeInv == TypeOK /\ Owned /\ Filled

LEMMA Blank ==
    /\ Idle \in Task0 /\ Over \in Task0 /\ NoProducer \in Maker /\ NoJob \in Job
    /\ [Idle EXCEPT !.phase = "dead"] \in Task0
<1>1. Idle \in Task0
  BY DEF Idle, Task0, Phases
<1>2. Over \in Task0 /\ [Idle EXCEPT !.phase = "dead"] \in Task0
  BY <1>1 DEF Over, Task0, Phases
<1>3. NoProducer \in Maker /\ NoJob \in Job
  BY DEF NoProducer, Maker, NoJob, Job
<1> QED BY <1>1, <1>2, <1>3

LEMMA TypeInit == Init => TypeInv
<1> SUFFICES ASSUME Init PROVE TypeInv
  OBVIOUS
<1>1. run \in [Runs -> Task0] /\ prod \in [Runs -> Maker]
  BY Blank DEF Init
<1>2. chan \in [Runs -> Seq(Item)] /\ \A r \in Runs : Len(chan[r]) = 0
  BY EmptySeq DEF Init
<1>3. checkpoints \in Seq(Checkpoint)
  BY EmptySeq DEF Init
<1>4. failures \in 0..MaxFailures /\ Buffer \in Nat
  BY PipelineAssumption DEF Init
<1>5. TypeOK
  <2>1. embedded \subseteq Emails /\ stored \subseteq Emails /\ lost \subseteq Emails
    BY DEF Init
  <2>2. job \in Job /\ paused \in BOOLEAN /\ notifying \in BOOLEAN
        /\ reviving \in Checkpoint \cup {NoCheckpoint}
    BY Blank DEF Init
  <2>3. \A r \in Runs : Len(chan[r]) <= Buffer
    BY <1>2, <1>4
  <2> QED BY <1>1, <1>2, <1>3, <1>4, <2>1, <2>2, <2>3, Typed
<1>6. Owned
  BY DEF Init, Owned, Gone, Idle
<1>7. Filled
  BY DEF Init, Filled, NoProducer, Holding
<1> QED BY <1>5, <1>6, <1>7 DEF TypeInv

LEMMA Frame ==
    ASSUME TypeOK,
           embedded' \subseteq Emails, stored' \subseteq Emails, lost' \subseteq Emails,
           checkpoints' \in Seq(Checkpoint), job' \in Job,
           paused' \in BOOLEAN, notifying' \in BOOLEAN,
           reviving' \in Checkpoint \cup {NoCheckpoint},
           run' \in [Runs -> Task0], prod' \in [Runs -> Maker], chan' \in [Runs -> Seq(Item)],
           \A r \in Runs : Len(chan'[r]) <= Buffer,
           failures' \in 0..MaxFailures
    PROVE  TypeOK'
BY DEF TypeOK, Phases, Task0, Maker, Item

\* Members of the typed functions.
LEMMA Members ==
    ASSUME TypeOK, NEW r \in Runs
    PROVE  /\ run[r] \in Task0 /\ prod[r] \in Maker /\ chan[r] \in Seq(Item)
           /\ \A i \in DOMAIN chan[r] : chan[r][i] \in Item
<1>1. run[r] \in Task0 /\ prod[r] \in Maker /\ chan[r] \in Seq(Item)
  BY Typed
<1>2. DOMAIN chan[r] = 1..Len(chan[r])
  BY <1>1, LenProperties
<1> QED BY <1>1, <1>2, ElementOfSeq

LEMMA FreeRun == FreeRuns # {} => Least(FreeRuns) \in FreeRuns /\ Least(FreeRuns) \in Runs
<1>1. FreeRuns \in SUBSET Nat /\ FreeRuns \subseteq Runs
  BY DEF FreeRuns, Runs
<1> QED BY <1>1, LeastIsMember

\* A fresh row, or one in the place of an older one.
LEMMA UpsertType ==
    ASSUME TypeOK, NEW cp \in Checkpoint PROVE Upsert(cp) \in Seq(Checkpoint)
<1> DEFINE f == [i \in DOMAIN checkpoints |->
                    IF checkpoints[i].job = cp.job /\ checkpoints[i].stage = cp.stage
                    THEN cp ELSE checkpoints[i]]
<1>1. checkpoints \in Seq(Checkpoint)
  BY Typed
<1>2. DOMAIN checkpoints = 1..Len(checkpoints) /\ Len(checkpoints) \in Nat
  BY <1>1, LenProperties
<1>3. f \in [1..Len(checkpoints) -> Checkpoint]
  BY <1>1, <1>2
<1>4. f \in Seq(Checkpoint)
  <2> HIDE DEF f
  <2> QED BY <1>2, <1>3
<1>5. Append(checkpoints, cp) \in Seq(Checkpoint)
  BY <1>1
<1> QED BY <1>4, <1>5 DEF Upsert

LEMMA SaveType ==
    ASSUME TypeInv, NEW r \in Runs, run[r].phase \notin Gone,
           NEW stage \in Stages, NEW status \in {"running", "failed", "completed"},
           NEW last \in Emails \cup {None}, SaveCheckpoint(r, stage, status, last)
    PROVE  checkpoints' \in Seq(Checkpoint) /\ failures' \in 0..MaxFailures
<1> DEFINE cp == [job |-> run[r].job, acct |-> run[r].acct, stage |-> stage,
                  status |-> status, total |-> job.total,
                  processed |-> job.processed, failed |-> job.failed, last |-> last]
<1>1. job \in Job /\ checkpoints \in Seq(Checkpoint) /\ failures \in 0..MaxFailures
  BY Typed DEF TypeInv
<1>2. cp \in Checkpoint
  BY <1>1 DEF TypeInv, Owned, Checkpoint, Job
<1>3. Upsert(cp) \in Seq(Checkpoint)
  BY <1>2, UpsertType DEF TypeInv
<1>4. failures < MaxFailures => failures + 1 \in 0..MaxFailures
  BY <1>1, PipelineAssumption
<1> QED BY <1>1, <1>3, <1>4 DEF SaveCheckpoint

-----------------------------------------------------------------------------
\* The calls of the API.
LEMMA CallType == TypeInv /\ Call => TypeOK'
<1> SUFFICES ASSUME TypeInv, Call PROVE TypeOK'
  OBVIOUS
<1>0. TypeOK
  BY DEF TypeInv
<1>1. ASSUME NEW a \in Accounts, Start(a) PROVE TypeOK'
  <2>1. Least(FreeRuns) \in Runs
    BY <1>1, FreeRun DEF Start
  <2>2. job' \in Job
    BY <1>1, <2>1, Blank DEF Start, Job
  <2>3. run' \in [Runs -> Task0]
    BY <1>0, <1>1, <2>1, Blank, Typed DEF Start, Task0, Phases
  <2> QED BY <1>0, <1>1, <2>2, <2>3, Typed, Frame DEF Start, dbVars
<1>2. CASE Pause
  BY <1>0, <1>2, Typed, Frame DEF Pause, dbVars, taskVars, Job
<1>3. CASE Resume
  BY <1>0, <1>3, Typed, Frame DEF Resume, dbVars, taskVars, Job
<1>4. CASE NotifyWaiters
  <2>1. prod' \in [Runs -> Maker]
    BY <1>0, <1>4, Typed DEF NotifyWaiters, Maker
  <2> QED BY <1>0, <1>4, <2>1, Typed, Frame DEF NotifyWaiters, dbVars
<1>5. ASSUME NEW a \in Accounts, PickCheckpoint(a) PROVE TypeOK'
  <2>1. PICK i \in Latest(a) : reviving' = checkpoints[i]
                              /\ checkpoints' = [checkpoints EXCEPT ![i].status = "running"]
    BY <1>5 DEF PickCheckpoint
  <2>2. i \in 1..Len(checkpoints) /\ checkpoints \in Seq(Checkpoint)
    BY <1>0, Typed, LenProperties DEF Latest, Incomplete
  <2>3. checkpoints[i] \in Checkpoint
    BY <2>2, ElementOfSeq
  <2>4. [checkpoints[i] EXCEPT !.status = "running"] \in Checkpoint
    BY <2>3 DEF Checkpoint
  <2>5. checkpoints' \in Seq(Checkpoint)
    BY <2>1, <2>2, <2>4, ExceptSeq
  <2> QED BY <1>0, <1>5, <2>1, <2>3, <2>5, Typed, Frame DEF PickCheckpoint, dbVars, taskVars
<1>6. CASE ReviveRejected
  BY <1>0, <1>6, Typed, Frame DEF ReviveRejected, dbVars, taskVars
<1>7. CASE Revive
  <2>1. Least(FreeRuns) \in Runs /\ reviving \in Checkpoint
    BY <1>0, <1>7, FreeRun, Typed DEF Revive
  <2>2. job' \in Job
    BY <1>7, <2>1 DEF Revive, Job, Checkpoint
  <2>3. run' \in [Runs -> Task0]
    BY <1>0, <1>7, <2>1, Blank, Typed DEF Revive, Task0, Phases, Checkpoint
  <2> QED BY <1>0, <1>7, <2>2, <2>3, Typed, Frame DEF Revive, dbVars
<1> QED BY <1>1, <1>2, <1>3, <1>4, <1>5, <1>6, <1>7 DEF Call

LEMMA CrashType == TypeInv /\ Crash => TypeOK'
<1> SUFFICES ASSUME TypeInv, Crash PROVE TypeOK'
  OBVIOUS
<1>0. TypeOK
  BY DEF TypeInv
<1>1. \A r \in Runs : InFlight(r) \subseteq Emails
  <2> TAKE r \in Runs
  <2>1. prod[r].hand \subseteq Emails
    BY <1>0, Members DEF Maker
  <2>2. \A i \in DOMAIN chan[r] : chan[r][i].batch \subseteq Emails
    BY <1>0, Members DEF Item
  <2> QED BY <2>1, <2>2 DEF InFlight, Sent
<1>2. lost' \subseteq Emails
  BY <1>0, <1>1, Typed DEF Crash
<1>3. run' \in [Runs -> Task0] /\ prod' \in [Runs -> Maker]
  BY <1>0, Blank, Typed DEF Crash
<1>4. chan' \in [Runs -> Seq(Item)] /\ \A r \in Runs : Len(chan'[r]) <= Buffer
  BY EmptySeq, PipelineAssumption DEF Crash
<1>5. failures' \in 0..MaxFailures /\ job' \in Job
  BY <1>0, Typed, Blank, PipelineAssumption DEF Crash
<1> QED BY <1>0, <1>2, <1>3, <1>4, <1>5, Typed, Frame DEF Crash, dbVars

\* The batch at the head of a channel.
LEMMA HeadType ==
    ASSUME TypeInv, NEW r \in Runs, chan[r] # <<>>
    PROVE  /\ Head(chan[r]) \in Item /\ Head(chan[r]).batch # {}
           /\ Greatest(Head(chan[r]).batch) \in Emails
           /\ Cardinality(Head(chan[r]).batch) \in Nat
           /\ Tail(chan[r]) \in Seq(Item) /\ Len(Tail(chan[r])) <= Buffer
           /\ \A i \in DOMAIN Tail(chan[r]) : Tail(chan[r])[i].batch # {}
<1>1. chan[r] \in Seq(Item) /\ Len(chan[r]) \in Nat /\ Len(chan[r]) <= Buffer
      /\ DOMAIN chan[r] = 1..Len(chan[r]) /\ Buffer \in Nat
  BY Typed, LenProperties, PipelineAssumption DEF TypeInv
<1>2. Head(chan[r]) \in Item /\ Tail(chan[r]) \in Seq(Item)
      /\ Len(Tail(chan[r])) = Len(chan[r]) - 1
      /\ \A i \in 1..Len(Tail(chan[r])) : Tail(chan[r])[i] = chan[r][i + 1]
  BY <1>1, HeadTailProperties
<1>3. Len(chan[r]) # 0 /\ Head(chan[r]) = chan[r][1]
  BY <1>1, EmptySeq
<1>4. Head(chan[r]).batch # {}
  BY <1>1, <1>3 DEF TypeInv, Filled
<1>5. \A i \in DOMAIN Tail(chan[r]) : Tail(chan[r])[i].batch # {}
  <2>1. DOMAIN Tail(chan[r]) = 1..Len(Tail(chan[r])) /\ Len(Tail(chan[r])) \in Nat
    BY <1>2, LenProperties
  <2>2. TAKE i \in DOMAIN Tail(chan[r])
  <2>3. i + 1 \in DOMAIN chan[r]
    BY <1>1, <1>2, <2>1
  <2>4. chan[r][i + 1].batch # {}
    BY <2>3 DEF TypeInv, Filled
  <2> QED BY <1>2, <2>1, <2>4
<1>6. Head(chan[r]).batch \in SUBSET Emails
  BY <1>2 DEF Item
<1>7. Greatest(Head(chan[r]).batch) \in Emails
  BY <1>4, <1>6, GreatestIsMember
<1>8. Cardinality(Head(chan[r]).batch) \in Nat
  BY <1>6, EmailsFinite
<1> QED BY <1>1, <1>2, <1>4, <1>5, <1>7, <1>8

\* Adding a batch to the counters.
LEMMA CountsType ==
    ASSUME TypeInv, NEW n \in Nat
    PROVE  /\ [job EXCEPT !.stored = @ + n, !.processed = @ + n] \in Job
           /\ [job EXCEPT !.failed = @ + n, !.processed = @ + n] \in Job
<1>1. job \in Job
  BY Typed DEF TypeInv
<1>2. job.stored + n \in Nat /\ job.failed + n \in Nat /\ job.processed + n \in Nat
  BY <1>1 DEF Job
<1> QED BY <1>1, <1>2 DEF Job

\* The background task of a run.
LEMMA TaskType ==
    ASSUME TypeInv, NEW r \in Runs, Task(r) PROVE TypeOK'
<1>0. TypeOK /\ run[r] \in Task0 /\ prod[r] \in Maker
  BY Members DEF TypeInv
<1>g. ASSUME NEW p \in Phases, Goto(r, p) PROVE run' \in [Runs -> Task0]
  BY <1>0, <1>g, Typed DEF Goto, Task0
<1>1. CASE Fetch(r)
  <2>1. Rest(Pending(run[r].acct), run[r].after) \subseteq Emails
    BY DEF Rest, Pending
  <2>2. run' \in [Runs -> Task0]
    BY <1>0, <1>1, <2>1, Typed DEF Fetch, Task0, Phases
  <2> QED BY <1>0, <1>1, <2>2, Typed, Frame DEF Fetch, dbVars, apiVars
<1>2. CASE FetchFails(r)
  <2>1. run' \in [Runs -> Task0]
    BY <1>2, <1>g DEF FetchFails, Phases
  <2>2. job' \in Job
    BY <1>0, <1>2, Typed DEF FetchFails, Job
  <2> QED BY <1>0, <1>2, <2>1, <2>2, Typed, Frame DEF FetchFails, dbVars, apiVars
<1>3. CASE SaveFailed(r)
  <2>1. checkpoints' \in Seq(Checkpoint) /\ failures' \in 0..MaxFailures
    BY <1>3, SaveType DEF SaveFailed, Stages, Gone
  <2>2. run' \in [Runs -> Task0]
    BY <1>0, <1>3, Blank, Typed DEF SaveFailed
  <2> QED BY <1>0, <1>3, <2>1, <2>2, Typed, Frame DEF SaveFailed, dbVars, apiVars
<1>4. CASE SaveSync(r)
  <2>1. checkpoints' \in Seq(Checkpoint) /\ failures' \in 0..MaxFailures
    BY <1>4, SaveType DEF SaveSync, Stages, Gone
  <2>2. run' \in [Runs -> Task0]
    BY <1>4, <1>g DEF SaveSync, Phases
  <2> QED BY <1>0, <1>4, <2>1, <2>2, Typed, Frame DEF SaveSync, dbVars, apiVars
<1>5. CASE Begin(r)
  <2>1. Cardinality(run[r].list) \in Nat
    BY <1>0, EmailsFinite DEF Task0
  <2>2. job' \in Job
    BY <1>0, <1>5, <2>1, Typed DEF Begin, Job
  <2>3. run' \in [Runs -> Task0]
    BY <1>5, <1>g DEF Begin, Phases
  <2>4. [NoProducer EXCEPT !.pc = "check", !.left = run[r].list] \in Maker
    BY <1>0, Blank DEF Maker, Task0
  <2>5. prod' \in [Runs -> Maker]
    BY <1>0, <1>5, <2>4, Typed DEF Begin
  <2> QED BY <1>0, <1>5, <2>2, <2>3, <2>5, Typed, Frame DEF Begin, dbVars, apiVars
<1>6. CASE InsertBatch(r)
  <2> DEFINE batch == Head(chan[r]).batch
             n == Cardinality(batch)
  <2>1. n \in Nat /\ Greatest(batch) \in Emails /\ batch \subseteq Emails
    BY <1>6, HeadType DEF InsertBatch, Item
  <2>2. chan' \in [Runs -> Seq(Item)] /\ \A s \in Runs : Len(chan'[s]) <= Buffer
    BY <1>0, <1>6, HeadType, Typed DEF InsertBatch
  <2>3. run' \in [Runs -> Task0]
    <3>1. run' = [run EXCEPT ![r].phase = "saveBatch", ![r].last = Greatest(batch)]
      BY <1>6 DEF InsertBatch
    <3> HIDE DEF batch
    <3> QED BY <1>0, <2>1, <3>1, Typed DEF Task0, Phases
  <2>4. \/ /\ stored' = stored \cup batch /\ UNCHANGED lost
           /\ job' = [job EXCEPT !.stored = @ + n, !.processed = @ + n]
        \/ /\ lost' = lost \cup batch /\ UNCHANGED stored
           /\ job' = [job EXCEPT !.failed = @ + n, !.processed = @ + n]
    BY <1>6 DEF InsertBatch
  <2>5. job' \in Job
    BY <2>1, <2>4, CountsType
  <2>6. stored' \subseteq Emails /\ lost' \subseteq Emails
    BY <1>0, <2>1, <2>4, Typed
  <2>7. UNCHANGED <<embedded, checkpoints, apiVars, prod, failures>>
    BY <1>6 DEF InsertBatch
  <2> QED BY <1>0, <2>2, <2>3, <2>5, <2>6, <2>7, Typed, Frame DEF apiVars
<1>7. CASE CountError(r)
  <2> DEFINE n == Cardinality(Head(chan[r]).batch)
  <2>1. n \in Nat
    BY <1>7, HeadType DEF CountError
  <2>2. chan' \in [Runs -> Seq(Item)] /\ \A s \in Runs : Len(chan'[s]) <= Buffer
    BY <1>0, <1>7, HeadType, Typed DEF CountError
  <2>3. run' \in [Runs -> Task0]
    BY <1>7, <1>g DEF CountError, Phases
  <2>4. job' = [job EXCEPT !.failed = @ + n, !.processed = @ + n]
    BY <1>7 DEF CountError
  <2>5. job' \in Job
    BY <2>1, <2>4, CountsType
  <2> QED BY <1>0, <1>7, <2>2, <2>3, <2>5, Typed, Frame DEF CountError, dbVars, apiVars
<1>9. CASE SaveBatch(r)
  <2>1. checkpoints' \in Seq(Checkpoint) /\ failures' \in 0..MaxFailures
    BY <1>0, <1>9, SaveType DEF SaveBatch, Stages, Gone, Task0
  <2>2. run' \in [Runs -> Task0]
    BY <1>9, <1>g DEF SaveBatch, Phases
  <2> QED BY <1>0, <1>9, <2>1, <2>2, Typed, Frame DEF SaveBatch, dbVars, apiVars
<1>10. CASE EmbeddingEnds(r)
  <2>1. run' \in [Runs -> Task0]
    BY <1>10, <1>g DEF EmbeddingEnds, Phases
  <2> QED BY <1>0, <1>10, <2>1, Typed, Frame DEF EmbeddingEnds, dbVars, apiVars
<1>11. CASE SaveCategorizing(r)
  <2>1. checkpoints' \in Seq(Checkpoint) /\ failures' \in 0..MaxFailures
    BY <1>0, <1>11, SaveType DEF SaveCategorizing, Stages, Gone, Task0
  <2>2. run' \in [Runs -> Task0]
    BY <1>11, <1>g DEF SaveCategorizing, Phases
  <2> QED BY <1>0, <1>11, <2>1, <2>2, Typed, Frame DEF SaveCategorizing, dbVars, apiVars
<1>12. CASE MarkCompleted(r)
  <2>1. run' \in [Runs -> Task0]
    BY <1>12, <1>g DEF MarkCompleted, Phases
  <2>2. job' \in Job
    BY <1>0, <1>12, Typed DEF MarkCompleted, Job
  <2> QED BY <1>0, <1>12, <2>1, <2>2, Typed, Frame DEF MarkCompleted, dbVars, apiVars
<1>13. CASE SaveComplete(r)
  <2>1. checkpoints' \in Seq(Checkpoint) /\ failures' \in 0..MaxFailures
    BY <1>0, <1>13, SaveType DEF SaveComplete, Stages, Gone, Task0
  <2>2. run' \in [Runs -> Task0] /\ prod' \in [Runs -> Maker]
    BY <1>0, <1>13, Blank, Typed DEF SaveComplete
  <2> QED BY <1>0, <1>13, <2>1, <2>2, Typed, Frame DEF SaveComplete, dbVars, apiVars
<1> QED BY <1>1, <1>2, <1>3, <1>4, <1>5, <1>6, <1>7, <1>9, <1>10, <1>11, <1>12, <1>13 DEF Task

\* The producer of a run.
LEMMA ProducerType ==
    ASSUME TypeInv, NEW r \in Runs, Producer(r) PROVE TypeOK'
<1>0. TypeOK /\ prod[r] \in Maker /\ chan[r] \in Seq(Item)
  BY Members DEF TypeInv
<1>1. CASE NextBatch(r)
  <2>1. Batch(prod[r].left) \subseteq Emails
    BY <1>0, BatchTakes DEF Maker
  <2>2. prod' \in [Runs -> Maker]
    BY <1>0, <1>1, <2>1, Typed DEF NextBatch, Maker
  <2> QED BY <1>0, <1>1, <2>2, Typed, Frame DEF NextBatch, dbVars, apiVars
<1>2. CASE Park(r)
  <2>1. prod' \in [Runs -> Maker]
    BY <1>0, <1>2, Typed DEF Park, Maker
  <2> QED BY <1>0, <1>2, <2>1, Typed, Frame DEF Park, dbVars, apiVars
<1>3. CASE EmbedBatch(r)
  <2>1. /\ [prod[r] EXCEPT !.pc = "mark", !.unmarked = prod[r].hand] \in Maker
        /\ [prod[r] EXCEPT !.pc = "sendError"] \in Maker
    BY <1>0 DEF Maker
  <2>2. \/ prod' = [prod EXCEPT ![r] = [prod[r] EXCEPT !.pc = "mark", !.unmarked = prod[r].hand]]
        \/ prod' = [prod EXCEPT ![r] = [prod[r] EXCEPT !.pc = "sendError"]]
    BY <1>0, <1>3, Typed DEF EmbedBatch, Maker
  <2>3. prod' \in [Runs -> Maker]
    BY <1>0, <2>1, <2>2, Typed
  <2> QED BY <1>0, <1>3, <2>3, Typed, Frame DEF EmbedBatch, dbVars, apiVars
<1>4. CASE MarkEmail(r)
  <2>1. Least(prod[r].unmarked) \in Emails
    <3>1. prod[r].unmarked \in SUBSET Nat /\ prod[r].unmarked \subseteq Emails
      BY <1>0 DEF Maker, Emails
    <3> QED BY <1>4, <3>1, LeastIsMember DEF MarkEmail
  <2>2. prod' \in [Runs -> Maker]
    BY <1>0, <1>4, Typed DEF MarkEmail, Maker
  <2>3. embedded' \subseteq Emails
    BY <1>0, <1>4, <2>1, Typed DEF MarkEmail
  <2>4. failures' \in 0..MaxFailures
    BY <1>0, <1>4, Typed, PipelineAssumption DEF MarkEmail
  <2> QED BY <1>0, <1>4, <2>2, <2>3, <2>4, Typed, Frame DEF MarkEmail, apiVars
<1>5. CASE SendBatch(r)
  <2> DEFINE item == [ok |-> prod[r].pc = "mark", batch |-> prod[r].hand]
  <2>1. item \in Item
    BY <1>0 DEF Maker, Item
  <2>2. chan' = [chan EXCEPT ![r] = Append(@, item)]
    BY <1>5 DEF SendBatch
  <2>3. Append(chan[r], item) \in Seq(Item) /\ Len(Append(chan[r], item)) <= Buffer
    <3>1. Len(chan[r]) < Buffer /\ Len(chan[r]) \in Nat /\ Buffer \in Nat
      BY <1>0, <1>5, LenProperties, PipelineAssumption DEF SendBatch
    <3> HIDE DEF item
    <3>2. Len(Append(chan[r], item)) = Len(chan[r]) + 1
      BY <1>0, <2>1
    <3> QED BY <1>0, <2>1, <3>1, <3>2
  <2>4. chan' \in [Runs -> Seq(Item)] /\ \A s \in Runs : Len(chan'[s]) <= Buffer
    <3> HIDE DEF item
    <3> QED BY <1>0, <2>2, <2>3, Typed
  <2>5. prod' \in [Runs -> Maker]
    BY <1>0, <1>5, Typed DEF SendBatch, Maker
  <2> QED BY <1>0, <1>5, <2>4, <2>5, Typed, Frame DEF SendBatch, dbVars, apiVars
<1>6. CASE EndProducer(r)
  <2>1. prod' \in [Runs -> Maker]
    BY <1>0, <1>6, Typed DEF EndProducer, Maker
  <2> QED BY <1>0, <1>6, <2>1, Typed, Frame DEF EndProducer, dbVars, apiVars
<1> QED BY <1>1, <1>2, <1>3, <1>4, <1>5, <1>6 DEF Producer

-----------------------------------------------------------------------------
(* Which steps move a run, its producer and its channel *)

\* A task moves its own run, keeps its job and account, and ends at "over".
LEMMA TaskFrame ==
    ASSUME TypeInv, NEW r \in Runs, Task(r)
    PROVE  /\ run[r].phase \notin Gone
           /\ \A s \in Runs \ {r} : /\ run'[s] = run[s] /\ prod'[s] = prod[s]
                                    /\ chan'[s] = chan[s]
           /\ \/ run'[r].phase = "over"
              \/ /\ run'[r].phase \notin Gone
                 /\ run'[r].job = run[r].job /\ run'[r].acct = run[r].acct
<1>0. /\ DOMAIN run = Runs /\ DOMAIN prod = Runs /\ DOMAIN chan = Runs
      /\ run[r] \in Task0
  BY Typed DEF TypeInv
<1>1. CASE Fetch(r) \/ FetchFails(r)
  BY <1>0, <1>1 DEF Fetch, FetchFails, Goto, Gone, Task0
<1>2. CASE SaveFailed(r) \/ SaveComplete(r)
  BY <1>0, <1>2 DEF SaveFailed, SaveComplete, Over, Idle, Gone
<1>3. CASE SaveSync(r) \/ SaveBatch(r) \/ SaveCategorizing(r)
  BY <1>0, <1>3 DEF SaveSync, SaveBatch, SaveCategorizing, Goto, Gone, Task0
<1>4. CASE Begin(r)
  BY <1>0, <1>4 DEF Begin, Goto, Gone, Task0
<1>5. CASE InsertBatch(r)
  BY <1>0, <1>5 DEF InsertBatch, Gone, Task0
<1>6. CASE CountError(r) \/ EmbeddingEnds(r) \/ MarkCompleted(r)
  BY <1>0, <1>6 DEF CountError, EmbeddingEnds, MarkCompleted, Goto, Gone, Task0
<1> QED BY <1>1, <1>2, <1>3, <1>4, <1>5, <1>6 DEF Task

\* A producer moves only itself and its channel.
LEMMA ProducerFrame ==
    ASSUME TypeInv, NEW r \in Runs, Producer(r)
    PROVE  /\ UNCHANGED <<run, job, stored, lost>>
           /\ \A s \in Runs \ {r} : prod'[s] = prod[s] /\ chan'[s] = chan[s]
<1>0. DOMAIN prod = Runs /\ DOMAIN chan = Runs
  BY Typed DEF TypeInv
<1>1. UNCHANGED <<run, job, stored, lost>>
  BY DEF Producer, NextBatch, Park, EmbedBatch, MarkEmail, SendBatch, EndProducer, dbVars
<1>2. \A s \in Runs \ {r} : prod'[s] = prod[s]
  BY <1>0 DEF Producer, NextBatch, Park, EmbedBatch, MarkEmail, SendBatch, EndProducer
<1>3. \A s \in Runs \ {r} : chan'[s] = chan[s]
  BY <1>0 DEF Producer, NextBatch, Park, EmbedBatch, MarkEmail, SendBatch, EndProducer
<1> QED BY <1>1, <1>2, <1>3

\* A call starts one free run at most, and wakes producers at most.
LEMMA CallFrame ==
    ASSUME TypeInv, Call
    PROVE  /\ UNCHANGED <<embedded, stored, lost, chan>>
           /\ \A s \in Runs : \/ prod'[s] = prod[s]
                              \/ /\ prod[s].pc = "waiting" /\ prod'[s].pc = "embed"
                                 /\ prod'[s].hand = prod[s].hand
           /\ \/ run' = run /\ job'.id = job.id /\ (InProgress => InProgress')
              \/ \E r \in FreeRuns :
                    /\ \A s \in Runs \ {r} : run'[s] = run[s]
                    /\ run'[r].phase = "fetch"
                    /\ run'[r].job \in Runs /\ run'[r].acct \in Accounts
                    /\ ~InProgress /\ job'.id = run'[r].job /\ job'.status = "running"
<1>0. TypeOK /\ DOMAIN run = Runs /\ prod \in [Runs -> Maker]
  BY Typed DEF TypeInv
<1>1. ASSUME NEW a \in Accounts, Start(a)
      PROVE  \E r \in FreeRuns :
                    /\ \A s \in Runs \ {r} : run'[s] = run[s]
                    /\ run'[r].phase = "fetch"
                    /\ run'[r].job \in Runs /\ run'[r].acct \in Accounts
                    /\ ~InProgress /\ job'.id = run'[r].job /\ job'.status = "running"
  <2>1. Least(FreeRuns) \in FreeRuns /\ Least(FreeRuns) \in Runs
    BY <1>1, FreeRun DEF Start
  <2> QED BY <1>0, <1>1, <2>1 DEF Start, Idle, NoJob
<1>2. ASSUME Revive
      PROVE  \E r \in FreeRuns :
                    /\ \A s \in Runs \ {r} : run'[s] = run[s]
                    /\ run'[r].phase = "fetch"
                    /\ run'[r].job \in Runs /\ run'[r].acct \in Accounts
                    /\ ~InProgress /\ job'.id = run'[r].job /\ job'.status = "running"
  <2>1. Least(FreeRuns) \in FreeRuns /\ Least(FreeRuns) \in Runs /\ reviving \in Checkpoint
    BY <1>0, <1>2, FreeRun, Typed DEF Revive
  <2> QED BY <1>0, <1>2, <2>1 DEF Revive, Idle, Checkpoint
<1>3. UNCHANGED <<embedded, stored, lost, chan>>
  BY DEF Call, Start, PickCheckpoint, Pause, Resume, NotifyWaiters, ReviveRejected, Revive,
         dbVars, taskVars
<1>4. \A s \in Runs : \/ prod'[s] = prod[s]
                      \/ /\ prod[s].pc = "waiting" /\ prod'[s].pc = "embed"
                         /\ prod'[s].hand = prod[s].hand
  <2>1. CASE NotifyWaiters
    BY <1>0, <2>1 DEF NotifyWaiters, Maker
  <2>2. CASE ~NotifyWaiters
    BY <2>2 DEF Call, Start, PickCheckpoint, Pause, Resume, ReviveRejected, Revive, taskVars
  <2> QED BY <2>1, <2>2
<1>5. CASE \E a \in Accounts : Start(a)
  BY <1>1, <1>3, <1>4, <1>5
<1>6. CASE Revive
  BY <1>2, <1>3, <1>4, <1>6
<1>7. CASE ~Revive /\ ~(\E a \in Accounts : Start(a))
  <2>1. run' = run
    BY <1>7 DEF Call, PickCheckpoint, Pause, Resume, NotifyWaiters, ReviveRejected, taskVars
  <2>2. job'.id = job.id /\ (InProgress => InProgress')
    <3>1. job \in Job
      BY <1>0, Typed
    <3> QED BY <1>7, <3>1 DEF Call, PickCheckpoint, Pause, Resume, NotifyWaiters, ReviveRejected,
               InProgress, Job
  <2> QED BY <1>3, <1>4, <2>1, <2>2
<1> QED BY <1>5, <1>6, <1>7

-----------------------------------------------------------------------------
LEMMA OwnedStep == TypeInv /\ [Next]_vars => Owned'
<1> SUFFICES ASSUME TypeInv, [Next]_vars PROVE Owned'
  OBVIOUS
<1>1. CASE Call
  BY <1>1, CallFrame DEF Owned, TypeInv
<1>2. CASE Crash
  <2>1. \A r \in Runs : run'[r].phase \in Gone
    BY <1>2 DEF Crash, Gone, Idle
  <2> QED BY <2>1 DEF Owned
<1>3. ASSUME NEW r \in Runs, Task(r) PROVE Owned'
  BY <1>3, TaskFrame DEF Owned, TypeInv, Gone
<1>4. ASSUME NEW r \in Runs, Producer(r) PROVE Owned'
  BY <1>4, ProducerFrame DEF Owned, TypeInv
<1>5. CASE UNCHANGED vars
  BY <1>5 DEF Owned, TypeInv, vars, taskVars
<1> QED BY <1>1, <1>2, <1>3, <1>4, <1>5 DEF Next

\* What a task does to its producer and channel.
LEMMA TaskPipe ==
    ASSUME TypeInv, NEW r \in Runs, Task(r)
    PROVE  /\ prod'[r] = prod[r] \/ prod'[r].pc \in {"none", "check"}
           /\ \/ chan'[r] = chan[r]
              \/ chan[r] # <<>> /\ chan'[r] = Tail(chan[r])
<1>0. DOMAIN run = Runs /\ DOMAIN prod = Runs /\ DOMAIN chan = Runs
  BY Typed DEF TypeInv
<1>1. CASE \/ Fetch(r) \/ FetchFails(r) \/ SaveFailed(r) \/ SaveSync(r)
           \/ SaveBatch(r) \/ EmbeddingEnds(r) \/ SaveCategorizing(r) \/ MarkCompleted(r)
  BY <1>1 DEF Fetch, FetchFails, SaveFailed, SaveSync, SaveBatch, EmbeddingEnds,
       SaveCategorizing, MarkCompleted
<1>2. CASE Begin(r)
  BY <1>0, <1>2 DEF Begin, NoProducer
<1>3. CASE InsertBatch(r) \/ CountError(r)
  BY <1>0, <1>3 DEF InsertBatch, CountError
<1>4. CASE SaveComplete(r)
  BY <1>0, <1>4 DEF SaveComplete, NoProducer
<1> QED BY <1>1, <1>2, <1>3, <1>4 DEF Task

\* What sending a batch does to the channel.
LEMMA SendPipe ==
    ASSUME TypeInv, NEW r \in Runs, SendBatch(r)
    PROVE  /\ prod'[r].pc = "check"
           /\ DOMAIN chan'[r] = 1..(Len(chan[r]) + 1) /\ DOMAIN chan[r] = 1..Len(chan[r])
           /\ Len(chan[r]) \in Nat
           /\ \A i \in 1..Len(chan[r]) : chan'[r][i] = chan[r][i]
           /\ chan'[r][Len(chan[r]) + 1] = [ok |-> prod[r].pc = "mark", batch |-> prod[r].hand]
<1> DEFINE item == [ok |-> prod[r].pc = "mark", batch |-> prod[r].hand]
<1>0. chan \in [Runs -> Seq(Item)] /\ chan[r] \in Seq(Item) /\ prod \in [Runs -> Maker]
  BY Typed DEF TypeInv
<1>1. item \in Item
  BY <1>0 DEF Maker, Item
<1>2. chan'[r] = Append(chan[r], item)
  BY <1>0 DEF SendBatch
<1>3. prod'[r].pc = "check"
  BY <1>0 DEF SendBatch, Maker
<1>4. DOMAIN chan[r] = 1..Len(chan[r]) /\ Len(chan[r]) \in Nat
  BY <1>0, LenProperties
<1> HIDE DEF item
<1>5. /\ DOMAIN chan'[r] = 1..(Len(chan[r]) + 1)
      /\ \A i \in 1..Len(chan[r]) : chan'[r][i] = chan[r][i]
      /\ chan'[r][Len(chan[r]) + 1] = item
  BY <1>0, <1>1, <1>2, <1>4
<1> QED BY <1>3, <1>4, <1>5 DEF item

LEMMA FilledStep == TypeInv /\ [Next]_vars => Filled'
<1> SUFFICES ASSUME TypeInv, [Next]_vars PROVE Filled'
  OBVIOUS
<1>0. /\ prod \in [Runs -> Maker] /\ chan \in [Runs -> Seq(Item)] /\ Filled
  BY Typed DEF TypeInv
<1>1. CASE Call
  BY <1>0, <1>1, CallFrame DEF Filled, Holding
<1>2. CASE Crash
  BY <1>2 DEF Crash, Filled, NoProducer, Holding
<1>3. ASSUME NEW r \in Runs, Task(r) PROVE Filled'
  <2>1. \A i \in DOMAIN chan'[r] : chan'[r][i].batch # {}
    BY <1>0, <1>3, TaskPipe, HeadType DEF Filled
  <2>2. prod'[r].pc \in Holding => prod'[r].hand # {}
    BY <1>0, <1>3, TaskPipe DEF Filled, Holding
  <2>3. \A s \in Runs \ {r} : prod'[s] = prod[s] /\ chan'[s] = chan[s]
    BY <1>3, TaskFrame
  <2>4. \A s \in Runs \ {r} : /\ prod'[s].pc \in Holding => prod'[s].hand # {}
                              /\ \A i \in DOMAIN chan'[s] : chan'[s][i].batch # {}
    BY <1>0, <2>3 DEF Filled
  <2> QED BY <2>1, <2>2, <2>4 DEF Filled
<1>4. ASSUME NEW r \in Runs, Producer(r) PROVE Filled'
  <2>1. CASE NextBatch(r)
    <3>1. Batch(prod[r].left) # {}
      BY <1>0, <2>1, BatchTakes DEF NextBatch, Maker
    <3>2. prod'[r].hand # {} /\ chan' = chan
      BY <1>0, <2>1, <3>1 DEF NextBatch
    <3> QED BY <1>0, <1>4, <3>2, ProducerFrame DEF Filled
  <2>2. CASE Park(r) \/ EmbedBatch(r) \/ MarkEmail(r)
    <3>1. prod'[r].hand = prod[r].hand /\ prod[r].pc \in Holding /\ chan' = chan
      BY <1>0, <2>2 DEF Park, EmbedBatch, MarkEmail, Maker, Holding
    <3> QED BY <1>0, <1>4, <3>1, ProducerFrame DEF Filled
  <2>3. CASE SendBatch(r)
    <3>1. prod[r].hand # {}
      BY <1>0, <2>3 DEF SendBatch, Filled, Holding
    <3>2. \A i \in DOMAIN chan'[r] : chan'[r][i].batch # {}
      <4>1. /\ DOMAIN chan'[r] = 1..(Len(chan[r]) + 1) /\ DOMAIN chan[r] = 1..Len(chan[r])
            /\ Len(chan[r]) \in Nat
            /\ \A i \in 1..Len(chan[r]) : chan'[r][i] = chan[r][i]
            /\ chan'[r][Len(chan[r]) + 1] = [ok |-> prod[r].pc = "mark", batch |-> prod[r].hand]
        BY <2>3, SendPipe, Zenon
      <4>2. TAKE i \in DOMAIN chan'[r]
      <4>3. CASE i \in 1..Len(chan[r])
        BY <1>0, <4>1, <4>3 DEF Filled
      <4>4. CASE i = Len(chan[r]) + 1
        BY <3>1, <4>1, <4>4
      <4> QED BY <4>1, <4>2, <4>3, <4>4
    <3>3. prod'[r].pc \notin Holding
      BY <2>3, SendPipe DEF Holding
    <3> QED BY <1>0, <1>4, <3>2, <3>3, ProducerFrame DEF Filled
  <2>4. CASE EndProducer(r)
    <3>1. prod'[r].pc = "end" /\ chan' = chan
      BY <1>0, <2>4 DEF EndProducer, Maker
    <3> QED BY <1>0, <1>4, <3>1, ProducerFrame DEF Filled, Holding
  <2> QED BY <1>4, <2>1, <2>2, <2>3, <2>4 DEF Producer
<1>5. CASE UNCHANGED vars
  BY <1>0, <1>5 DEF Filled, vars, taskVars
<1> QED BY <1>1, <1>2, <1>3, <1>4, <1>5 DEF Next

LEMMA TypeStep == TypeInv /\ [Next]_vars => TypeInv'
<1> SUFFICES ASSUME TypeInv, [Next]_vars PROVE TypeOK'
  BY OwnedStep, FilledStep DEF TypeInv
<1>1. CASE UNCHANGED vars
  BY <1>1 DEF TypeInv, TypeOK, vars, dbVars, apiVars, taskVars
<1> QED BY <1>1, CallType, CrashType, TaskType, ProducerType DEF Next

THEOREM TypeInvHolds == Spec => []TypeInv
BY TypeInit, TypeStep, PTL DEF Spec

\* Type correctness, and with it the bound of every channel: a producer that
\* finds its channel full never adds to it.
THEOREM PipelineTypesHold == Spec => []TypeOK
<1>1. TypeInv => TypeOK
  BY DEF TypeInv
<1> QED BY <1>1, TypeInvHolds, PTL

-----------------------------------------------------------------------------
(* One run at a time *)

Ended == {"idle", "saveFailed", "saveComplete", "over", "dead"}

\* A task keeps the job's id and status and moves among the phases on one side
\* of its mark_completed or mark_failed, or is past it with this step.
LEMMA TaskJob ==
    ASSUME TypeInv, NEW r \in Runs, Task(r)
    PROVE  \/ /\ job'.id = job.id /\ job'.status = job.status
              /\ run[r].phase \in Ended => run'[r].phase \in Ended
           \/ run[r].phase \notin Ended /\ run'[r].phase \in Ended
<1>0. DOMAIN run = Runs /\ run[r] \in Task0 /\ job \in Job
  BY Typed DEF TypeInv
<1>1. CASE \/ Fetch(r) \/ SaveFailed(r) \/ SaveSync(r) \/ SaveBatch(r)
           \/ EmbeddingEnds(r) \/ SaveCategorizing(r) \/ SaveComplete(r)
  <2>1. job' = job
    BY <1>1 DEF Fetch, SaveFailed, SaveSync, SaveBatch, EmbeddingEnds,
         SaveCategorizing, SaveComplete
  <2>2. run[r].phase \in Ended => run'[r].phase \in Ended
    BY <1>0, <1>1 DEF Fetch, SaveFailed, SaveSync, SaveBatch, EmbeddingEnds,
         SaveCategorizing, SaveComplete, Ended, Over, Idle
  <2> QED BY <2>1, <2>2
<1>2. CASE Begin(r) \/ InsertBatch(r) \/ CountError(r)
  <2>1. job'.id = job.id /\ job'.status = job.status
    BY <1>0, <1>2 DEF Begin, InsertBatch, CountError, Job
  <2>2. run[r].phase \notin Ended
    BY <1>2 DEF Begin, InsertBatch, CountError, Ended
  <2> QED BY <2>1, <2>2
<1>3. CASE FetchFails(r) \/ MarkCompleted(r)
  BY <1>0, <1>3 DEF FetchFails, MarkCompleted, Goto, Ended, Task0
<1> QED BY <1>1, <1>2, <1>3 DEF Task

LEMMA OneRunStep == TypeInv /\ OneRun /\ [Next]_vars => OneRun'
<1> SUFFICES ASSUME TypeInv, OneRun, [Next]_vars PROVE OneRun'
  OBVIOUS
<1>0. Active = {r \in Runs : run[r].phase \notin Ended}
      /\ Active' = {r \in Runs : run'[r].phase \notin Ended}
  BY DEF Active, Ended
<1>1. CASE Call
  <2>1. CASE run' = run /\ job'.id = job.id /\ (InProgress => InProgress')
    BY <1>0, <2>1 DEF OneRun
  <2>2. CASE \E r \in FreeRuns :
                /\ \A s \in Runs \ {r} : run'[s] = run[s]
                /\ run'[r].phase = "fetch"
                /\ run'[r].job \in Runs /\ run'[r].acct \in Accounts
                /\ ~InProgress /\ job'.id = run'[r].job /\ job'.status = "running"
    <3>1. PICK r \in FreeRuns :
                /\ \A s \in Runs \ {r} : run'[s] = run[s]
                /\ run'[r].phase = "fetch"
                /\ ~InProgress /\ job'.id = run'[r].job /\ job'.status = "running"
      BY <2>2
    <3>2. Active = {}
      BY <3>1 DEF OneRun
    <3>3. Active' = {r}
      BY <1>0, <3>1, <3>2 DEF FreeRuns, Ended
    <3>4. InProgress'
      BY <3>1 DEF InProgress
    <3> QED BY <3>1, <3>3, <3>4 DEF OneRun
  <2> QED BY <1>1, <2>1, <2>2, CallFrame
<1>2. CASE Crash
  <2>1. Active' = {}
    BY <1>0, <1>2 DEF Crash, Ended, Idle
  <2> QED BY <2>1 DEF OneRun
<1>3. ASSUME NEW r \in Runs, Task(r) PROVE OneRun'
  <2>1. \A s \in Runs \ {r} : run'[s] = run[s]
    BY <1>3, TaskFrame
  <2>2. CASE run[r].phase \notin Ended /\ run'[r].phase \in Ended
    <3>1. Active = {r}
      BY <1>0, <2>2 DEF OneRun
    <3>2. Active' = {}
      BY <1>0, <2>1, <2>2, <3>1
    <3> QED BY <3>2 DEF OneRun
  <2>3. CASE /\ job'.id = job.id /\ job'.status = job.status
             /\ run[r].phase \in Ended => run'[r].phase \in Ended
    <3>1. InProgress' <=> InProgress
      BY <2>3 DEF InProgress
    <3>2. Active' \subseteq Active
      BY <1>0, <2>1, <2>3
    <3>3. ASSUME NEW s \in Active' PROVE job'.id = run'[s].job /\ InProgress' /\ Active' = {s}
      <4>1. job.id = run[s].job /\ InProgress /\ Active = {s}
        BY <3>2, <3>3 DEF OneRun
      <4>2. run'[s].job = run[s].job
        <5>1. CASE s = r
          BY <1>0, <1>3, <3>3, <5>1, TaskFrame DEF Ended
        <5>2. CASE s # r
          BY <1>0, <2>1, <3>3, <5>2
        <5> QED BY <5>1, <5>2
      <4>3. Active' = {s}
        BY <3>2, <3>3, <4>1
      <4> QED BY <2>3, <3>1, <4>1, <4>2, <4>3
    <3> QED BY <3>3 DEF OneRun
  <2> QED BY <1>3, <2>2, <2>3, TaskJob
<1>4. ASSUME NEW r \in Runs, Producer(r) PROVE OneRun'
  BY <1>0, <1>4, ProducerFrame DEF OneRun, InProgress
<1>5. CASE UNCHANGED vars
  BY <1>0, <1>5 DEF OneRun, InProgress, vars, taskVars
<1> QED BY <1>1, <1>2, <1>3, <1>4, <1>5 DEF Next

\* Never two runs between their start and their mark_completed or
\* mark_failed, and the current job is always that of the one that is: every
\* counter and status a run writes goes to its own job, although the code
\* never compares ids.
THEOREM OneRunAtATime == Spec => []OneRun
<1>1. Init => OneRun
  BY DEF Init, OneRun, Active, Idle
<1> QED BY <1>1, TypeInit, TypeStep, OneRunStep, PTL DEF Spec

-----------------------------------------------------------------------------
(* A vector is stored, on its way or lost *)

\* What a producer has still to mark is part of the batch in its hand.
Marking == \A r \in Runs : prod[r].pc = "mark" => prod[r].unmarked \subseteq prod[r].hand

\* A producer at work has its consumer in the embedding loop: neither Begin
\* nor SaveComplete overwrites one with a batch in its hand.
Consumed ==
    \A r \in Runs : prod[r].pc \notin {"none", "end"} =>
                        run[r].phase \in {"embed", "hung", "saveBatch"}

StoredInv == EmbeddedIsStored /\ Marking /\ Consumed

LEMMA Aboard ==
    ASSUME NEW r \in Runs, NEW e
    PROVE  /\ e \in InFlight(r) <=>
                \/ \E i \in DOMAIN chan[r] : chan[r][i].ok /\ e \in chan[r][i].batch
                \/ prod[r].pc = "mark" /\ e \in prod[r].hand
           /\ e \in InFlight(r)' <=>
                \/ \E i \in DOMAIN chan'[r] : chan'[r][i].ok /\ e \in chan'[r][i].batch
                \/ prod'[r].pc = "mark" /\ e \in prod'[r].hand
BY DEF InFlight, Sent

\* Receiving from the channel takes the batch at its head out of flight.
LEMMA ReceiveFlight ==
    ASSUME TypeInv, NEW r \in Runs, chan[r] # <<>>, chan'[r] = Tail(chan[r]),
           prod'[r] = prod[r]
    PROVE  \A e \in InFlight(r) :
                e \in InFlight(r)' \/ (Head(chan[r]).ok /\ e \in Head(chan[r]).batch)
<1>1. /\ chan[r] \in Seq(Item) /\ Len(chan[r]) \in Nat /\ DOMAIN chan[r] = 1..Len(chan[r])
  BY Typed, LenProperties DEF TypeInv
<1>2. /\ Tail(chan[r]) \in Seq(Item) /\ Len(Tail(chan[r])) = Len(chan[r]) - 1
      /\ \A i \in 1..Len(Tail(chan[r])) : Tail(chan[r])[i] = chan[r][i + 1]
      /\ Head(chan[r]) = chan[r][1]
  BY <1>1, HeadTailProperties
<1>3. DOMAIN Tail(chan[r]) = 1..Len(Tail(chan[r]))
  BY <1>2, LenProperties
<1>4. TAKE e \in InFlight(r)
<1>5. CASE prod[r].pc = "mark" /\ e \in prod[r].hand
  BY <1>5, Aboard
<1>6. ASSUME NEW i \in DOMAIN chan[r], chan[r][i].ok, e \in chan[r][i].batch
      PROVE  e \in InFlight(r)' \/ (Head(chan[r]).ok /\ e \in Head(chan[r]).batch)
  <2>1. CASE i = 1
    BY <1>2, <1>6, <2>1
  <2>2. CASE i # 1
    <3>1. i - 1 \in DOMAIN Tail(chan[r]) /\ Tail(chan[r])[i - 1] = chan[r][i]
      <4>1. i - 1 \in 1..Len(Tail(chan[r])) /\ (i - 1) + 1 = i
        BY <1>1, <1>2, <2>2
      <4> QED BY <1>2, <1>3, <4>1
    <3>2. \E k \in DOMAIN chan'[r] : chan'[r][k].ok /\ e \in chan'[r][k].batch
      BY <1>6, <3>1
    <3> QED BY <3>2, Aboard
  <2> QED BY <2>1, <2>2
<1> QED BY <1>4, <1>5, <1>6, Aboard

\* A task marks nothing, and what it takes out of flight it stores or loses.
LEMMA TaskFlight ==
    ASSUME TypeInv, Consumed, NEW r \in Runs, Task(r)
    PROVE  /\ embedded' = embedded /\ stored \subseteq stored' /\ lost \subseteq lost'
           /\ InFlight(r) \subseteq InFlight(r)' \cup stored' \cup lost'
<1>0. /\ prod \in [Runs -> Maker] /\ DOMAIN chan = Runs
  BY Typed DEF TypeInv
<1>1. CASE \/ Fetch(r) \/ FetchFails(r) \/ SaveFailed(r) \/ SaveSync(r)
           \/ SaveBatch(r) \/ EmbeddingEnds(r) \/ SaveCategorizing(r) \/ MarkCompleted(r)
  <2>1. UNCHANGED <<embedded, stored, lost, prod, chan>>
    BY <1>1 DEF Fetch, FetchFails, SaveFailed, SaveSync, SaveBatch, EmbeddingEnds,
         SaveCategorizing, MarkCompleted, dbVars
  <2> QED BY <2>1 DEF InFlight, Sent
<1>2. CASE Begin(r) \/ SaveComplete(r)
  <2>1. UNCHANGED <<embedded, stored, lost, chan>>
    BY <1>2 DEF Begin, SaveComplete, dbVars
  <2>2. prod[r].pc # "mark"
    BY <1>2 DEF Begin, SaveComplete, Consumed
  <2>3. \A e \in InFlight(r) : e \in InFlight(r)'
    BY <2>1, <2>2, Aboard
  <2> QED BY <2>1, <2>3
<1>3. CASE InsertBatch(r)
  <2> DEFINE batch == Head(chan[r]).batch
  <2>1. /\ embedded' = embedded /\ prod' = prod
        /\ chan[r] # <<>> /\ chan'[r] = Tail(chan[r])
    BY <1>0, <1>3 DEF InsertBatch
  <2>2. \/ stored' = stored \cup batch /\ lost' = lost
        \/ lost' = lost \cup batch /\ stored' = stored
    BY <1>3 DEF InsertBatch
  <2>3. \A e \in InFlight(r) : e \in InFlight(r)' \/ e \in batch
    BY <2>1, ReceiveFlight
  <2> HIDE DEF batch
  <2> QED BY <2>1, <2>2, <2>3
<1>4. CASE CountError(r)
  <2>1. /\ UNCHANGED <<embedded, stored, lost>> /\ prod' = prod
        /\ chan[r] # <<>> /\ chan'[r] = Tail(chan[r]) /\ ~Head(chan[r]).ok
    BY <1>0, <1>4 DEF CountError, dbVars
  <2>2. \A e \in InFlight(r) : e \in InFlight(r)'
    BY <2>1, ReceiveFlight
  <2> QED BY <2>1, <2>2
<1> QED BY <1>1, <1>2, <1>3, <1>4 DEF Task

\* A producer marks only emails of the batch it then has in flight, and takes
\* nothing out of flight.
LEMMA ProducerFlight ==
    ASSUME TypeInv, Marking, NEW r \in Runs, Producer(r)
    PROVE  /\ InFlight(r) \subseteq InFlight(r)'
           /\ embedded' \subseteq embedded \cup InFlight(r)'
<1>0. /\ prod \in [Runs -> Maker] /\ prod[r] \in Maker /\ DOMAIN chan = Runs
  BY Typed DEF TypeInv
<1>1. CASE NextBatch(r) \/ Park(r) \/ EndProducer(r) \/ EmbedBatch(r)
  <2>1. UNCHANGED <<embedded, chan>> /\ prod[r].pc # "mark"
    BY <1>1 DEF NextBatch, Park, EndProducer, EmbedBatch, dbVars
  <2>2. \A e \in InFlight(r) : e \in InFlight(r)'
    BY <2>1, Aboard
  <2> QED BY <2>1, <2>2
<1>2. CASE MarkEmail(r)
  <2> DEFINE e == Least(prod[r].unmarked)
  <2>1. prod[r].pc = "mark" /\ chan' = chan /\ embedded' \subseteq embedded \cup {e}
    BY <1>2 DEF MarkEmail
  <2>2. prod'[r].pc = "mark" /\ prod'[r].hand = prod[r].hand
    BY <1>0, <1>2 DEF MarkEmail, Maker
  <2>3. e \in prod[r].hand
    <3>1. prod[r].unmarked \in SUBSET Nat /\ prod[r].unmarked # {}
      BY <1>0, <1>2 DEF MarkEmail, Maker, Emails
    <3>2. e \in prod[r].unmarked
      BY <3>1, LeastIsMember
    <3> QED BY <2>1, <3>2 DEF Marking
  <2> HIDE DEF e
  <2>4. \A d \in InFlight(r) : d \in InFlight(r)'
    BY <2>1, <2>2, Aboard
  <2>5. e \in InFlight(r)'
    BY <2>2, <2>3, Aboard
  <2> QED BY <2>1, <2>4, <2>5
<1>3. CASE SendBatch(r)
  <2>1. embedded' = embedded
    BY <1>3 DEF SendBatch, dbVars
  <2>2. /\ DOMAIN chan'[r] = 1..(Len(chan[r]) + 1) /\ DOMAIN chan[r] = 1..Len(chan[r])
        /\ Len(chan[r]) \in Nat
        /\ \A i \in 1..Len(chan[r]) : chan'[r][i] = chan[r][i]
        /\ chan'[r][Len(chan[r]) + 1] = [ok |-> prod[r].pc = "mark", batch |-> prod[r].hand]
    BY <1>3, SendPipe, Zenon
  <2>3. ASSUME NEW d \in InFlight(r) PROVE d \in InFlight(r)'
    <3>1. ASSUME NEW i \in DOMAIN chan[r], chan[r][i].ok, d \in chan[r][i].batch
          PROVE  \E k \in DOMAIN chan'[r] : chan'[r][k].ok /\ d \in chan'[r][k].batch
      <4>1. i \in DOMAIN chan'[r] /\ chan'[r][i] = chan[r][i]
        BY <2>2
      <4> QED BY <3>1, <4>1
    <3>2. ASSUME prod[r].pc = "mark", d \in prod[r].hand
          PROVE  \E k \in DOMAIN chan'[r] : chan'[r][k].ok /\ d \in chan'[r][k].batch
      <4>1. Len(chan[r]) + 1 \in DOMAIN chan'[r]
        BY <2>2
      <4> DEFINE item == [ok |-> prod[r].pc = "mark", batch |-> prod[r].hand]
      <4>2. item.ok /\ item.batch = prod[r].hand
        BY <3>2
      <4>3. chan'[r][Len(chan[r]) + 1] = item
        BY <2>2
      <4> HIDE DEF item
      <4> QED BY <3>2, <4>1, <4>2, <4>3
    <3> QED BY <2>3, <3>1, <3>2, Aboard
  <2> QED BY <2>1, <2>3
<1> QED BY <1>1, <1>2, <1>3 DEF Producer

LEMMA EmbeddedStep == TypeInv /\ StoredInv /\ [Next]_vars => EmbeddedIsStored'
<1> SUFFICES ASSUME TypeInv, StoredInv, [Next]_vars
             PROVE  \A e \in embedded' :
                       e \in stored' \/ e \in lost' \/ \E r \in Runs : e \in InFlight(r)'
  BY DEF EmbeddedIsStored
<1>0. /\ Marking /\ Consumed
      /\ \A e \in embedded : e \in stored \/ e \in lost \/ \E r \in Runs : e \in InFlight(r)
  BY DEF StoredInv, EmbeddedIsStored
<1>1. CASE Call
  <2>1. UNCHANGED <<embedded, stored, lost, chan>>
    BY <1>1, CallFrame
  <2>2. \A r \in Runs : \A e \in InFlight(r) : e \in InFlight(r)'
    BY <1>1, <2>1, CallFrame, Aboard
  <2> QED BY <1>0, <2>1, <2>2
<1>2. CASE Crash
  <2>1. embedded' = embedded /\ stored' = stored
        /\ lost' = lost \cup UNION {InFlight(r) : r \in Runs}
    BY <1>2 DEF Crash, dbVars
  <2> QED BY <1>0, <2>1
<1>3. ASSUME NEW r \in Runs, Task(r)
      PROVE  \A e \in embedded' :
                e \in stored' \/ e \in lost' \/ \E s \in Runs : e \in InFlight(s)'
  <2>1. /\ embedded' = embedded /\ stored \subseteq stored' /\ lost \subseteq lost'
        /\ InFlight(r) \subseteq InFlight(r)' \cup stored' \cup lost'
    BY <1>0, <1>3, TaskFlight
  <2>2. \A s \in Runs \ {r} : prod'[s] = prod[s] /\ chan'[s] = chan[s]
    BY <1>3, TaskFrame
  <2>3. \A s \in Runs \ {r} : InFlight(s)' = InFlight(s)
    BY <2>2 DEF InFlight, Sent
  <2> QED BY <1>0, <2>1, <2>3
<1>4. ASSUME NEW r \in Runs, Producer(r)
      PROVE  \A e \in embedded' :
                e \in stored' \/ e \in lost' \/ \E s \in Runs : e \in InFlight(s)'
  <2>1. /\ InFlight(r) \subseteq InFlight(r)'
        /\ embedded' \subseteq embedded \cup InFlight(r)'
    BY <1>0, <1>4, ProducerFlight
  <2>2. /\ stored' = stored /\ lost' = lost
        /\ \A s \in Runs \ {r} : prod'[s] = prod[s] /\ chan'[s] = chan[s]
    BY <1>4, ProducerFrame
  <2>3. \A s \in Runs \ {r} : InFlight(s)' = InFlight(s)
    BY <2>2 DEF InFlight, Sent
  <2> QED BY <1>0, <2>1, <2>2, <2>3
<1>5. CASE UNCHANGED vars
  BY <1>0, <1>5 DEF vars, dbVars, taskVars, InFlight, Sent
<1> QED BY <1>1, <1>2, <1>3, <1>4, <1>5 DEF Next

LEMMA MarkingStep == TypeInv /\ Marking /\ [Next]_vars => Marking'
<1> SUFFICES ASSUME TypeInv, Marking, [Next]_vars PROVE Marking'
  OBVIOUS
<1>0. prod \in [Runs -> Maker]
  BY Typed DEF TypeInv
<1>1. CASE Call
  <2>1. \A s \in Runs : prod'[s] = prod[s] \/ prod'[s].pc = "embed"
    BY <1>1, CallFrame
  <2> QED BY <2>1 DEF Marking
<1>2. CASE Crash
  BY <1>2 DEF Crash, Marking, NoProducer
<1>3. ASSUME NEW r \in Runs, Task(r) PROVE Marking'
  <2>1. \A s \in Runs \ {r} : prod'[s] = prod[s]
    BY <1>3, TaskFrame
  <2>2. prod'[r] = prod[r] \/ prod'[r].pc \in {"none", "check"}
    BY <1>3, TaskPipe
  <2> QED BY <2>1, <2>2 DEF Marking
<1>4. ASSUME NEW r \in Runs, Producer(r) PROVE Marking'
  <2>1. \A s \in Runs \ {r} : prod'[s] = prod[s]
    BY <1>4, ProducerFrame
  <2>2. prod'[r].pc = "mark" => prod'[r].unmarked \subseteq prod'[r].hand
    <3>1. CASE NextBatch(r) \/ Park(r) \/ SendBatch(r) \/ EndProducer(r)
      BY <1>0, <3>1 DEF NextBatch, Park, SendBatch, EndProducer, Maker
    <3>2. CASE EmbedBatch(r)
      BY <1>0, <3>2 DEF EmbedBatch, Maker
    <3>3. CASE MarkEmail(r)
      BY <1>0, <3>3 DEF MarkEmail, Maker, Marking
    <3> QED BY <1>4, <3>1, <3>2, <3>3 DEF Producer
  <2> QED BY <2>1, <2>2 DEF Marking
<1>5. CASE UNCHANGED vars
  BY <1>5 DEF Marking, vars, taskVars
<1> QED BY <1>1, <1>2, <1>3, <1>4, <1>5 DEF Next

LEMMA ConsumedStep == TypeInv /\ Consumed /\ [Next]_vars => Consumed'
<1> SUFFICES ASSUME TypeInv, Consumed, [Next]_vars PROVE Consumed'
  OBVIOUS
<1>0. prod \in [Runs -> Maker] /\ run \in [Runs -> Task0]
  BY Typed DEF TypeInv
<1>1. CASE Call
  <2>1. \A s \in Runs : prod'[s].pc \notin {"none", "end"} => prod[s].pc \notin {"none", "end"}
    BY <1>1, CallFrame
  <2>2. \A s \in Runs : run'[s] = run[s] \/ run[s].phase = "idle"
    BY <1>1, CallFrame DEF FreeRuns
  <2> QED BY <2>1, <2>2 DEF Consumed
<1>2. CASE Crash
  BY <1>2 DEF Crash, Consumed, NoProducer
<1>3. ASSUME NEW r \in Runs, Task(r) PROVE Consumed'
  <2>1. \A s \in Runs \ {r} : run'[s] = run[s] /\ prod'[s] = prod[s]
    BY <1>3, TaskFrame
  <2>2. prod'[r].pc \notin {"none", "end"} => run'[r].phase \in {"embed", "hung", "saveBatch"}
    <3>1. CASE \/ Fetch(r) \/ FetchFails(r) \/ SaveFailed(r) \/ SaveSync(r)
               \/ SaveCategorizing(r) \/ MarkCompleted(r)
      BY <3>1 DEF Fetch, FetchFails, SaveFailed, SaveSync, SaveCategorizing, MarkCompleted, Consumed
    <3>2. CASE SaveComplete(r)
      BY <1>0, <3>2 DEF SaveComplete, NoProducer
    <3>3. CASE EmbeddingEnds(r)
      BY <3>3 DEF EmbeddingEnds, Closed
    <3>4. CASE Begin(r)
      BY <1>0, <3>4 DEF Begin, Goto, Consumed, Task0
    <3>5. CASE InsertBatch(r)
      BY <1>0, <3>5 DEF InsertBatch, Task0
    <3>6. CASE CountError(r) \/ SaveBatch(r)
      BY <1>0, <3>6 DEF CountError, SaveBatch, Goto, Task0
    <3> QED BY <1>3, <3>1, <3>2, <3>3, <3>4, <3>5, <3>6 DEF Task
  <2> QED BY <2>1, <2>2 DEF Consumed
<1>4. ASSUME NEW r \in Runs, Producer(r) PROVE Consumed'
  <2>1. run' = run /\ \A s \in Runs \ {r} : prod'[s] = prod[s]
    BY <1>4, ProducerFrame
  <2>2. prod[r].pc \notin {"none", "end"}
    BY <1>4 DEF Producer, NextBatch, Park, EmbedBatch, MarkEmail, SendBatch, EndProducer
  <2> QED BY <2>1, <2>2 DEF Consumed
<1>5. CASE UNCHANGED vars
  BY <1>5 DEF Consumed, vars, taskVars
<1> QED BY <1>1, <1>2, <1>3, <1>4, <1>5 DEF Next

THEOREM StoredInvHolds == Spec => []StoredInv
<1>1. Init => StoredInv
  BY DEF Init, StoredInv, EmbeddedIsStored, Marking, Consumed, NoProducer
<1>2. TypeInv /\ StoredInv /\ [Next]_vars => StoredInv'
  BY EmbeddedStep, MarkingStep, ConsumedStep DEF StoredInv
<1> QED BY <1>1, <1>2, TypeInvHolds, PTL DEF Spec

\* An email is marked before its vector is inserted, and yet never without
\* one that is stored, in flight, or counted as lost by a failed insert or a
\* crash, however many runs, crashes and failures there were.
THEOREM MarkedIsStored == Spec => []EmbeddedIsStored
<1>1. StoredInv => EmbeddedIsStored
  BY DEF StoredInv
<1> QED BY <1>1, StoredInvHolds, PTL

-----------------------------------------------------------------------------
(* Every email of a fresh run is counted once *)

\* The emails of a run that are not counted yet: not taken, in the producer's
\* hand, or in the channel.
Waiting(r) == prod[r].left \cup prod[r].hand \cup UNION {chan[r][i].batch : i \in DOMAIN chan[r]}

Looping == {"embed", "hung", "saveBatch"}

\* No email waits twice.
ApartAt(r) ==
    /\ prod[r].left \cap prod[r].hand = {}
    /\ \A i \in DOMAIN chan[r] :
          /\ chan[r][i].batch \cap (prod[r].left \cup prod[r].hand) = {}
          /\ \A k \in DOMAIN chan[r] \ {i} : chan[r][i].batch \cap chan[r][k].batch = {}

\* The hand is empty between two batches, and what waits belongs to a run in its
\* embedding loop, which fetched it.
DrainedAt(r) ==
    /\ prod[r].pc \notin Holding => prod[r].hand = {}
    /\ prod[r].pc \in {"none", "end"} => prod[r].left = {}
    /\ IF run[r].phase \in Looping THEN Waiting(r) \subseteq run[r].list
       ELSE Waiting(r) = {} /\ chan[r] = <<>>

\* The counters of the job are those of the emails that no longer wait.
TalliedAt(r) ==
    ~run[r].resumed =>
        IF run[r].phase \in {"fetch", "saveSync", "begin"}
        THEN job.processed = 0 /\ job.stored = 0 /\ job.failed = 0
        ELSE /\ job.total = Cardinality(run[r].list)
             /\ job.processed = Cardinality(run[r].list \ Waiting(r))
             /\ job.stored + job.failed = job.processed
             /\ job.stored <= Cardinality((run[r].list \ Waiting(r)) \cap stored)

TallyInv ==
    /\ \A r \in Runs : ApartAt(r) /\ DrainedAt(r)
    /\ \A r \in Active : TalliedAt(r)

LEMMA WaitingHas ==
    ASSUME NEW r \in Runs, NEW e
    PROVE  /\ e \in Waiting(r) <=> \/ e \in prod[r].left \/ e \in prod[r].hand
                                   \/ \E i \in DOMAIN chan[r] : e \in chan[r][i].batch
           /\ e \in Waiting(r)' <=> \/ e \in prod'[r].left \/ e \in prod'[r].hand
                                    \/ \E i \in DOMAIN chan'[r] : e \in chan'[r][i].batch
BY DEF Waiting

LEMMA WaitingType == ASSUME TypeInv, NEW r \in Runs PROVE Waiting(r) \subseteq Emails
<1>1. /\ prod[r].left \subseteq Emails /\ prod[r].hand \subseteq Emails
      /\ \A i \in DOMAIN chan[r] : chan[r][i].batch \subseteq Emails
  BY Members DEF TypeInv, Maker, Item
<1> QED BY <1>1 DEF Waiting

\* A batch that no longer waits is counted: all of it, once.
LEMMA CountMore ==
    ASSUME NEW L \in SUBSET Emails, NEW W \in SUBSET Emails, NEW B \in SUBSET Emails,
           NEW S \in SUBSET Emails, B \subseteq W, W \subseteq L
    PROVE  /\ Cardinality(L \ (W \ B)) = Cardinality(L \ W) + Cardinality(B)
           /\ Cardinality((L \ (W \ B)) \cap (S \cup B))
                >= Cardinality((L \ W) \cap S) + Cardinality(B)
           /\ Cardinality((L \ (W \ B)) \cap S) >= Cardinality((L \ W) \cap S)
           /\ Cardinality(B) \in Nat /\ Cardinality(L \ W) \in Nat
           /\ Cardinality((L \ W) \cap S) \in Nat
           /\ Cardinality((L \ (W \ B)) \cap (S \cup B)) \in Nat
           /\ Cardinality((L \ (W \ B)) \cap S) \in Nat
<1>1. \A X \in SUBSET Emails : IsFiniteSet(X) /\ Cardinality(X) \in Nat
  BY EmailsFinite
<1>2. ASSUME NEW X \in SUBSET Emails, X \cap B = {}
      PROVE  Cardinality(X \cup B) = Cardinality(X) + Cardinality(B)
  <2>1. Cardinality(X \cup B) = Cardinality(X) + Cardinality(B) - Cardinality(X \cap B)
    BY <1>1, FS_Union
  <2>2. Cardinality(X \cap B) = 0
    BY <1>2, FS_EmptySet
  <2> QED BY <1>1, <2>1, <2>2
<1>3. L \ (W \ B) = (L \ W) \cup B
  OBVIOUS
<1>4. Cardinality(L \ (W \ B)) = Cardinality(L \ W) + Cardinality(B)
  BY <1>2, <1>3
<1>5. Cardinality((L \ (W \ B)) \cap (S \cup B)) >= Cardinality((L \ W) \cap S) + Cardinality(B)
  <2>1. ((L \ W) \cap S) \cup B \subseteq (L \ (W \ B)) \cap (S \cup B)
    OBVIOUS
  <2>2. Cardinality(((L \ W) \cap S) \cup B) = Cardinality((L \ W) \cap S) + Cardinality(B)
    BY <1>2
  <2>3. Cardinality(((L \ W) \cap S) \cup B) <= Cardinality((L \ (W \ B)) \cap (S \cup B))
    <3>1. IsFiniteSet((L \ (W \ B)) \cap (S \cup B))
      BY <1>1
    <3> QED BY <2>1, <3>1, FS_Subset
  <2>4. (L \ W) \cap S \in SUBSET Emails /\ (L \ (W \ B)) \cap (S \cup B) \in SUBSET Emails
    OBVIOUS
  <2>5. /\ Cardinality((L \ W) \cap S) \in Nat /\ Cardinality(B) \in Nat
        /\ Cardinality((L \ (W \ B)) \cap (S \cup B)) \in Nat
    BY <1>1, <2>4
  <2> QED BY <2>2, <2>3, <2>5
<1>6. Cardinality((L \ (W \ B)) \cap S) >= Cardinality((L \ W) \cap S)
  <2>1. (L \ W) \cap S \subseteq (L \ (W \ B)) \cap S
    OBVIOUS
  <2>2. IsFiniteSet((L \ (W \ B)) \cap S)
    BY <1>1
  <2>3. Cardinality((L \ W) \cap S) <= Cardinality((L \ (W \ B)) \cap S)
    BY <2>1, <2>2, FS_Subset
  <2>4. (L \ W) \cap S \in SUBSET Emails /\ (L \ (W \ B)) \cap S \in SUBSET Emails
    OBVIOUS
  <2>5. Cardinality((L \ W) \cap S) \in Nat /\ Cardinality((L \ (W \ B)) \cap S) \in Nat
    BY <1>1, <2>4
  <2> QED BY <2>3, <2>5
<1>7. /\ L \ W \in SUBSET Emails /\ (L \ W) \cap S \in SUBSET Emails
      /\ (L \ (W \ B)) \cap (S \cup B) \in SUBSET Emails /\ (L \ (W \ B)) \cap S \in SUBSET Emails
  OBVIOUS
<1> QED BY <1>1, <1>4, <1>5, <1>6, <1>7

-----------------------------------------------------------------------------
\* A call touches neither what waits nor the counters of a run at work; a fresh
\* run starts from zero.
LEMMA CallTally ==
    ASSUME TypeInv, Call
    PROVE  /\ chan' = chan /\ stored' = stored
           /\ \A s \in Runs : /\ prod'[s].left = prod[s].left /\ prod'[s].hand = prod[s].hand
                              /\ \/ prod'[s].pc = prod[s].pc
                                 \/ prod[s].pc = "waiting" /\ prod'[s].pc = "embed"
           /\ \/ /\ run' = run
                 /\ job'.total = job.total /\ job'.processed = job.processed
                 /\ job'.stored = job.stored /\ job'.failed = job.failed
              \/ \E r \in FreeRuns :
                    /\ ~InProgress /\ run'[r].phase = "fetch"
                    /\ \A s \in Runs \ {r} : run'[s] = run[s]
                    /\ ~run'[r].resumed =>
                          job'.processed = 0 /\ job'.stored = 0 /\ job'.failed = 0
<1>0. DOMAIN run = Runs /\ prod \in [Runs -> Maker] /\ job \in Job
  BY Typed DEF TypeInv
<1>1. chan' = chan /\ stored' = stored
  BY DEF Call, Start, PickCheckpoint, Pause, Resume, NotifyWaiters, ReviveRejected, Revive,
         dbVars, taskVars
<1>2. \A s \in Runs : /\ prod'[s].left = prod[s].left /\ prod'[s].hand = prod[s].hand
                      /\ \/ prod'[s].pc = prod[s].pc
                         \/ prod[s].pc = "waiting" /\ prod'[s].pc = "embed"
  <2>1. CASE NotifyWaiters
    BY <1>0, <2>1 DEF NotifyWaiters, Maker
  <2>2. CASE ~NotifyWaiters
    BY <2>2 DEF Call, Start, PickCheckpoint, Pause, Resume, ReviveRejected, Revive, taskVars
  <2> QED BY <2>1, <2>2
<1>3. ASSUME NEW a \in Accounts, Start(a)
      PROVE  \E r \in FreeRuns :
                    /\ ~InProgress /\ run'[r].phase = "fetch"
                    /\ \A s \in Runs \ {r} : run'[s] = run[s]
                    /\ ~run'[r].resumed =>
                          job'.processed = 0 /\ job'.stored = 0 /\ job'.failed = 0
  <2>1. Least(FreeRuns) \in FreeRuns /\ Least(FreeRuns) \in Runs
    BY <1>3, FreeRun DEF Start
  <2> QED BY <1>0, <1>3, <2>1 DEF Start, Idle, NoJob
<1>4. ASSUME Revive
      PROVE  \E r \in FreeRuns :
                    /\ ~InProgress /\ run'[r].phase = "fetch"
                    /\ \A s \in Runs \ {r} : run'[s] = run[s]
                    /\ ~run'[r].resumed =>
                          job'.processed = 0 /\ job'.stored = 0 /\ job'.failed = 0
  <2>1. Least(FreeRuns) \in FreeRuns /\ Least(FreeRuns) \in Runs
    BY <1>4, FreeRun DEF Revive
  <2> QED BY <1>0, <1>4, <2>1 DEF Revive, Idle
<1>5. CASE ~Revive /\ ~(\E a \in Accounts : Start(a))
  <2>1. /\ run' = run
        /\ job'.total = job.total /\ job'.processed = job.processed
        /\ job'.stored = job.stored /\ job'.failed = job.failed
    BY <1>0, <1>5 DEF Call, PickCheckpoint, Pause, Resume, NotifyWaiters, ReviveRejected,
         taskVars, Job
  <2> QED BY <1>1, <1>2, <2>1
<1> QED BY <1>1, <1>2, <1>3, <1>4, <1>5

\* What a step that leaves the batches of a run alone leaves of its order.
LEMMA SamePipe ==
    ASSUME NEW r \in Runs, chan'[r] = chan[r],
           prod'[r].left = prod[r].left, prod'[r].hand = prod[r].hand
    PROVE  Waiting(r)' = Waiting(r)
BY DEF Waiting

\* The batch at the head of the channel no longer waits; the others still do.
LEMMA ReceivePipe ==
    ASSUME TypeInv, NEW r \in Runs, ApartAt(r), chan[r] # <<>>, chan'[r] = Tail(chan[r]),
           prod'[r] = prod[r]
    PROVE  /\ Waiting(r)' = Waiting(r) \ Head(chan[r]).batch
           /\ Head(chan[r]).batch \subseteq Waiting(r)
           /\ ApartAt(r)'
<1>1. /\ chan[r] \in Seq(Item) /\ Len(chan[r]) \in Nat /\ DOMAIN chan[r] = 1..Len(chan[r])
  BY Typed, LenProperties DEF TypeInv
<1>2. /\ Tail(chan[r]) \in Seq(Item) /\ Len(Tail(chan[r])) = Len(chan[r]) - 1
      /\ \A i \in 1..Len(Tail(chan[r])) : Tail(chan[r])[i] = chan[r][i + 1]
      /\ Head(chan[r]) = chan[r][1]
  BY <1>1, HeadTailProperties
<1>3. DOMAIN chan'[r] = 1..(Len(chan[r]) - 1) /\ Len(chan[r]) # 0
  BY <1>1, <1>2, LenProperties, EmptySeq
<1>4. \A i \in DOMAIN chan'[r] : i + 1 \in DOMAIN chan[r] /\ i + 1 # 1
                                 /\ chan'[r][i] = chan[r][i + 1]
  BY <1>1, <1>2, <1>3
<1>5. 1 \in DOMAIN chan[r] /\ \A i \in DOMAIN chan[r] \ {1} :
          i - 1 \in DOMAIN chan'[r] /\ (i - 1) + 1 = i
  BY <1>1, <1>3
<1>6. Head(chan[r]).batch \subseteq Waiting(r)
  BY <1>2, <1>5 DEF Waiting
<1>7. /\ prod'[r].left \cap prod'[r].hand = {}
      /\ \A i \in DOMAIN chan'[r] :
            /\ chan'[r][i].batch \cap (prod'[r].left \cup prod'[r].hand) = {}
            /\ \A k \in DOMAIN chan'[r] \ {i} : chan'[r][i].batch \cap chan'[r][k].batch = {}
  <2>1. prod'[r].left \cap prod'[r].hand = {}
    BY DEF ApartAt
  <2>2. SUFFICES ASSUME NEW i \in DOMAIN chan'[r]
                 PROVE  /\ chan'[r][i].batch \cap (prod'[r].left \cup prod'[r].hand) = {}
                        /\ \A k \in DOMAIN chan'[r] \ {i} :
                              chan'[r][i].batch \cap chan'[r][k].batch = {}
    BY <2>1
  <2>3. chan[r][i + 1].batch \cap (prod[r].left \cup prod[r].hand) = {}
    BY <1>4 DEF ApartAt
  <2>4. ASSUME NEW k \in DOMAIN chan'[r] \ {i}
        PROVE  chan'[r][i].batch \cap chan'[r][k].batch = {}
    <3>1. k + 1 \in DOMAIN chan[r] \ {i + 1}
      BY <1>1, <1>3, <1>4
    <3>2. chan[r][i + 1].batch \cap chan[r][k + 1].batch = {}
      BY <1>4, <3>1 DEF ApartAt
    <3> QED BY <1>4, <3>2
  <2> QED BY <1>4, <2>3, <2>4
<1>8. ASSUME NEW e
      PROVE  e \in Waiting(r)' <=> e \in Waiting(r) /\ e \notin Head(chan[r]).batch
  <2>1. ASSUME e \in Waiting(r)' PROVE e \in Waiting(r) /\ e \notin Head(chan[r]).batch
    <3>1. CASE e \in prod[r].left \/ e \in prod[r].hand
      <4>1. chan[r][1].batch \cap (prod[r].left \cup prod[r].hand) = {}
        BY <1>5 DEF ApartAt
      <4> QED BY <1>2, <3>1, <4>1, WaitingHas
    <3>2. ASSUME NEW i \in DOMAIN chan'[r], e \in chan'[r][i].batch
          PROVE  e \in Waiting(r) /\ e \notin Head(chan[r]).batch
      <4>1. e \in chan[r][i + 1].batch /\ i + 1 \in DOMAIN chan[r] \ {1}
        BY <1>4, <3>2
      <4>2. chan[r][1].batch \cap chan[r][i + 1].batch = {}
        BY <1>5, <4>1 DEF ApartAt
      <4> QED BY <1>2, <4>1, <4>2, WaitingHas
    <3> QED BY <2>1, <3>1, <3>2, WaitingHas
  <2>2. ASSUME e \in Waiting(r), e \notin Head(chan[r]).batch PROVE e \in Waiting(r)'
    <3>1. CASE e \in prod[r].left \/ e \in prod[r].hand
      BY <3>1, WaitingHas
    <3>2. ASSUME NEW i \in DOMAIN chan[r], e \in chan[r][i].batch PROVE e \in Waiting(r)'
      <4>1. i # 1
        BY <1>2, <2>2, <3>2
      <4>2. i - 1 \in DOMAIN chan'[r] /\ chan'[r][i - 1] = chan[r][i]
        BY <1>4, <1>5, <4>1
      <4>3. e \in chan'[r][i - 1].batch
        BY <3>2, <4>2
      <4> QED BY <4>2, <4>3, WaitingHas
    <3> QED BY <2>2, <3>1, <3>2, WaitingHas
  <2> QED BY <2>1, <2>2
<1>9. ApartAt(r)'
  BY <1>7 DEF ApartAt
<1> QED BY <1>6, <1>8, <1>9

\* A producer moves emails from its list to its hand and from there to the
\* channel; they wait all the same.
LEMMA ProducerPipe ==
    ASSUME TypeInv, NEW r \in Runs, ApartAt(r), DrainedAt(r), run[r].phase \in Looping, Producer(r)
    PROVE  Waiting(r)' = Waiting(r) /\ ApartAt(r)' /\ DrainedAt(r)'
<1>0. /\ prod \in [Runs -> Maker] /\ prod[r] \in Maker /\ chan \in [Runs -> Seq(Item)]
      /\ run' = run
  BY ProducerFrame, Typed DEF TypeInv
<1>a. ASSUME chan' = chan, prod'[r].left = prod[r].left, prod'[r].hand = prod[r].hand
      PROVE  Waiting(r)' = Waiting(r) /\ ApartAt(r)'
  BY <1>a, SamePipe DEF ApartAt
<1>1. CASE NextBatch(r)
  <2> DEFINE batch == Batch(prod[r].left)
  <2>1. /\ prod'[r].left = prod[r].left \ batch /\ prod'[r].hand = batch /\ chan' = chan
        /\ prod'[r].pc \in Holding /\ prod[r].hand = {} /\ batch \subseteq prod[r].left
    <3>1. batch \subseteq prod[r].left
      BY <1>0, BatchTakes DEF Maker
    <3> HIDE DEF batch
    <3>2. prod'[r] = [pc |-> IF paused THEN "parking" ELSE "embed",
                      left |-> prod[r].left \ batch, hand |-> batch, unmarked |-> {}]
      BY <1>0, <1>1 DEF NextBatch, batch
    <3> QED BY <1>1, <3>1, <3>2 DEF NextBatch, DrainedAt, Holding
  <2> HIDE DEF batch
  <2>2. \A e : e \in Waiting(r)' <=> e \in Waiting(r)
    BY <2>1, WaitingHas
  <2>3. ApartAt(r)'
    BY <2>1 DEF ApartAt
  <2>4. prod'[r].pc \notin {"none", "end"}
    BY <2>1 DEF Holding
  <2> QED BY <1>0, <2>1, <2>2, <2>3, <2>4 DEF DrainedAt
<1>2. CASE Park(r) \/ EmbedBatch(r) \/ MarkEmail(r)
  <2>1. /\ chan' = chan /\ prod'[r].left = prod[r].left /\ prod'[r].hand = prod[r].hand
        /\ prod'[r].pc \in Holding
    BY <1>0, <1>2 DEF Park, EmbedBatch, MarkEmail, Maker, Holding
  <2>2. prod'[r].pc \notin {"none", "end"}
    BY <2>1 DEF Holding
  <2> QED BY <1>0, <1>a, <2>1, <2>2 DEF DrainedAt
<1>3. CASE EndProducer(r)
  <2>1. /\ chan' = chan /\ prod'[r].left = prod[r].left /\ prod'[r].hand = prod[r].hand
        /\ prod[r].left = {} /\ prod[r].hand = {}
    BY <1>0, <1>3 DEF EndProducer, Maker, DrainedAt, Holding
  <2> QED BY <1>0, <1>a, <2>1 DEF DrainedAt
<1>4. CASE SendBatch(r)
  <2> DEFINE n == Len(chan[r])
  <2>1. /\ prod'[r].pc = "check"
        /\ DOMAIN chan'[r] = 1..(n + 1) /\ DOMAIN chan[r] = 1..n /\ n \in Nat
        /\ \A i \in 1..n : chan'[r][i] = chan[r][i]
        /\ chan'[r][n + 1].batch = prod[r].hand
    <3>1. /\ prod'[r].pc = "check"
          /\ DOMAIN chan'[r] = 1..(n + 1) /\ DOMAIN chan[r] = 1..n /\ n \in Nat
          /\ \A i \in 1..n : chan'[r][i] = chan[r][i]
          /\ chan'[r][n + 1] = [ok |-> prod[r].pc = "mark", batch |-> prod[r].hand]
      BY <1>4, SendPipe, Zenon
    <3> QED BY <3>1
  <2>2. prod'[r].left = prod[r].left /\ prod'[r].hand = {}
    BY <1>0, <1>4 DEF SendBatch, Maker
  <2> HIDE DEF n
  <2>3. /\ \A i \in 1..n : i \in DOMAIN chan'[r] /\ i # n + 1
        /\ n + 1 \in DOMAIN chan'[r] /\ \A i \in DOMAIN chan'[r] : i \in 1..n \/ i = n + 1
    BY <2>1
  <2>4. \A e : e \in Waiting(r)' <=> e \in Waiting(r)
    <3>1. ASSUME NEW e
          PROVE  (\E i \in DOMAIN chan'[r] : e \in chan'[r][i].batch)
                 <=> (\E i \in DOMAIN chan[r] : e \in chan[r][i].batch) \/ e \in prod[r].hand
      BY <2>1, <2>3
    <3> QED BY <2>2, <3>1, WaitingHas
  <2>5. ApartAt(r)'
    <3>1. SUFFICES ASSUME NEW i \in DOMAIN chan'[r]
                   PROVE  /\ chan'[r][i].batch \cap prod[r].left = {}
                          /\ \A k \in DOMAIN chan'[r] \ {i} :
                                chan'[r][i].batch \cap chan'[r][k].batch = {}
      BY <2>2 DEF ApartAt
    <3>2. CASE i \in 1..n
      <4>1. chan'[r][i] = chan[r][i] /\ i \in DOMAIN chan[r]
        BY <2>1, <3>2
      <4>2. chan[r][i].batch \cap (prod[r].left \cup prod[r].hand) = {}
        BY <4>1 DEF ApartAt
      <4>3. ASSUME NEW k \in DOMAIN chan'[r] \ {i}
            PROVE  chan[r][i].batch \cap chan'[r][k].batch = {}
        <5>1. CASE k \in 1..n
          BY <2>1, <4>1, <5>1 DEF ApartAt
        <5>2. CASE k = n + 1
          BY <2>1, <4>2, <5>2
        <5> QED BY <2>3, <5>1, <5>2
      <4> QED BY <4>1, <4>2, <4>3
    <3>3. CASE i = n + 1
      <4>1. chan'[r][i].batch = prod[r].hand /\ prod[r].left \cap prod[r].hand = {}
        BY <2>1, <3>3 DEF ApartAt
      <4>2. ASSUME NEW k \in DOMAIN chan'[r] \ {i}
            PROVE  prod[r].hand \cap chan'[r][k].batch = {}
        <5>1. k \in DOMAIN chan[r] /\ chan'[r][k] = chan[r][k]
          BY <2>1, <2>3, <3>3
        <5> QED BY <5>1 DEF ApartAt
      <4> QED BY <4>1, <4>2
    <3> QED BY <2>3, <3>2, <3>3
  <2> QED BY <1>0, <2>1, <2>2, <2>4, <2>5 DEF DrainedAt
<1> QED BY <1>1, <1>2, <1>3, <1>4 DEF Producer

\* A task that takes nothing from the channel moves nothing that waits.
LEMMA TaskTally ==
    ASSUME TypeInv, Consumed, NEW r \in Runs, ApartAt(r), DrainedAt(r), TalliedAt(r) \/ r \notin Active,
           Task(r)
    PROVE  /\ ApartAt(r)' /\ DrainedAt(r)' /\ (r \in Active' => TalliedAt(r)' /\ r \in Active)
           /\ stored \subseteq stored'
           /\ r \notin Active => job' = job /\ stored' = stored
<1>0. /\ run \in [Runs -> Task0] /\ run[r] \in Task0 /\ prod \in [Runs -> Maker] /\ prod[r] \in Maker
      /\ chan \in [Runs -> Seq(Item)] /\ job \in Job /\ stored \in SUBSET Emails
  BY Typed DEF TypeInv
<1>a. r \in Active' <=> run'[r].phase \notin Ended
  BY DEF Active, Ended
<1>b. r \in Active <=> run[r].phase \notin Ended
  BY DEF Active, Ended
<1>c. ASSUME chan' = chan, prod' = prod
      PROVE  ApartAt(r)' /\ Waiting(r)' = Waiting(r)
  BY <1>c, SamePipe DEF ApartAt
<1>1. CASE Fetch(r) \/ FetchFails(r) \/ SaveSync(r)
  <2>1. /\ UNCHANGED <<chan, prod, stored>>
        /\ run'[r].phase \in {"begin", "saveSync", "saveFailed"}
        /\ run[r].phase \in {"fetch", "saveSync"} /\ run'[r].resumed = run[r].resumed
        /\ (run'[r].phase # "saveFailed" => job' = job)
    BY <1>0, <1>1 DEF Fetch, FetchFails, SaveSync, Goto, Task0, dbVars
  <2>2. DrainedAt(r)'
    BY <1>c, <2>1 DEF DrainedAt, Looping
  <2>3. r \in Active' => TalliedAt(r)' /\ r \in Active
    <3>1. r \in Active
      BY <1>b, <2>1 DEF Ended
    <3> QED BY <1>a, <2>1, <3>1 DEF TalliedAt, Ended
  <2> QED BY <1>b, <1>c, <2>1, <2>2, <2>3 DEF Ended
<1>2. CASE SaveFailed(r) \/ MarkCompleted(r)
  <2>1. /\ UNCHANGED <<chan, prod, stored>>
        /\ run'[r].phase \in {"over", "saveComplete"} /\ run[r].phase \in {"saveFailed", "complete"}
        /\ (run[r].phase = "saveFailed" => job' = job)
    BY <1>0, <1>2 DEF SaveFailed, MarkCompleted, Goto, Task0, dbVars, Over, Idle
  <2>2. DrainedAt(r)'
    BY <1>c, <2>1 DEF DrainedAt, Looping
  <2> QED BY <1>a, <1>b, <1>c, <2>1, <2>2 DEF Ended
<1>3. CASE SaveComplete(r)
  <2>1. /\ UNCHANGED <<chan, stored, job>> /\ prod'[r] = NoProducer
        /\ run'[r].phase = "over" /\ run[r].phase = "saveComplete"
    BY <1>0, <1>3 DEF SaveComplete, dbVars, Over, Idle
  <2>2. /\ chan[r] = <<>> /\ prod'[r].left = {} /\ prod'[r].hand = {}
    BY <2>1 DEF DrainedAt, Looping, NoProducer
  <2>3. ApartAt(r)'
    BY <2>1, <2>2 DEF ApartAt
  <2>4. Waiting(r)' = {}
    BY <2>1, <2>2 DEF Waiting
  <2>5. DrainedAt(r)'
    BY <2>1, <2>2, <2>4 DEF DrainedAt, Looping
  <2> QED BY <1>a, <2>1, <2>3, <2>5 DEF Ended
<1>4. CASE Begin(r)
  <2> DEFINE list == run[r].list
  <2>1. /\ UNCHANGED <<chan, stored>> /\ run[r].phase = "begin"
        /\ run'[r].list = list /\ run'[r].resumed = run[r].resumed
        /\ job'.total = Cardinality(list) /\ job'.processed = job.processed
        /\ job'.stored = job.stored /\ job'.failed = job.failed
        /\ IF list = {} THEN run'[r].phase = "complete" /\ prod' = prod
           ELSE /\ run'[r].phase = "embed"
                /\ prod'[r].left = list /\ prod'[r].hand = {} /\ prod'[r].pc = "check"
    <3>1. /\ UNCHANGED <<chan, stored>> /\ run[r].phase = "begin"
          /\ run'[r].list = list /\ run'[r].resumed = run[r].resumed
      BY <1>0, <1>4 DEF Begin, Goto, Task0, dbVars
    <3>2. /\ job'.total = Cardinality(list) /\ job'.processed = job.processed
          /\ job'.stored = job.stored /\ job'.failed = job.failed
      BY <1>0, <1>4 DEF Begin, Job
    <3>3. CASE list = {}
      BY <1>0, <1>4, <3>1, <3>2, <3>3 DEF Begin, Goto, Task0
    <3>4. CASE list # {}
      <4>1. prod'[r] = [NoProducer EXCEPT !.pc = "check", !.left = list]
        BY <1>0, <1>4, <3>4 DEF Begin
      <4>2. prod'[r].pc = "check" /\ prod'[r].left = list /\ prod'[r].hand = {}
        BY <4>1 DEF NoProducer
      <4>3. run'[r].phase = "embed"
        BY <1>0, <1>4, <3>4 DEF Begin, Goto, Task0
      <4> HIDE DEF list
      <4> QED BY <3>1, <3>2, <3>4, <4>2, <4>3
    <3> QED BY <3>3, <3>4
  <2>2. chan[r] = <<>> /\ Waiting(r) = {}
    BY <2>1 DEF DrainedAt, Looping
  <2>3. Waiting(r)' = list
    <3>1. CASE list = {}
      BY <1>c, <2>1, <2>2, <3>1
    <3>2. CASE list # {}
      BY <2>1, <2>2, <3>2 DEF Waiting
    <3> QED BY <3>1, <3>2
  <2>4. ApartAt(r)'
    <3>1. CASE list = {}
      BY <1>c, <2>1, <3>1
    <3>2. CASE list # {}
      BY <2>1, <2>2, <3>2 DEF ApartAt
    <3> QED BY <3>1, <3>2
  <2>5. DrainedAt(r)'
    BY <2>1, <2>2, <2>3 DEF DrainedAt, Looping, Holding
  <2>6. TalliedAt(r)'
    <3>1. list \ Waiting(r)' = {} /\ (list \ Waiting(r)') \cap stored' = {}
      BY <2>3
    <3>2. Cardinality({}) = 0
      BY FS_EmptySet
    <3>3. run'[r].phase \in {"complete", "embed"}
      BY <2>1
    <3>4. ~run[r].resumed => job.processed = 0 /\ job.stored = 0 /\ job.failed = 0
      <4>1. r \in Active
        BY <1>b, <2>1 DEF Ended
      <4> QED BY <2>1, <4>1 DEF TalliedAt
    <3> HIDE DEF list
    <3> QED BY <2>1, <3>1, <3>2, <3>3, <3>4 DEF TalliedAt
  <2>7. r \in Active
    BY <1>b, <2>1 DEF Ended
  <2> QED BY <2>1, <2>4, <2>5, <2>6, <2>7
<1>5. CASE \/ SaveBatch(r) \/ EmbeddingEnds(r) \/ SaveCategorizing(r)
  <2>1. /\ UNCHANGED <<chan, prod, stored, job>>
        /\ run'[r].list = run[r].list /\ run'[r].resumed = run[r].resumed
        /\ \/ run[r].phase \in Looping /\ run'[r].phase \in Looping
           \/ /\ run[r].phase \in Looping /\ run'[r].phase = "saveCategorizing"
              /\ prod[r].pc = "end" /\ chan[r] = <<>>
           \/ run[r].phase = "saveCategorizing" /\ run'[r].phase = "complete"
    BY <1>0, <1>5 DEF SaveBatch, EmbeddingEnds, SaveCategorizing, Closed, Goto, Task0,
         Looping, dbVars
  <2>2. prod[r].pc = "end" /\ chan[r] = <<>> => Waiting(r) = {}
    BY DEF Waiting, DrainedAt, Holding
  <2>3. DrainedAt(r)'
    BY <1>c, <2>1, <2>2 DEF DrainedAt, Looping
  <2>4. TalliedAt(r)' /\ r \in Active
    <3>1. r \in Active /\ run[r].phase \notin {"fetch", "saveSync", "begin"}
          /\ run'[r].phase \notin {"fetch", "saveSync", "begin"}
      BY <1>b, <2>1 DEF Ended, Looping
    <3> QED BY <1>c, <2>1, <3>1 DEF TalliedAt
  <2> QED BY <1>c, <2>1, <2>3, <2>4
<1>6. CASE InsertBatch(r) \/ CountError(r)
  <2> DEFINE batch == Head(chan[r]).batch
             n == Cardinality(batch)
             L == run[r].list
             W == Waiting(r)
  <2>1. /\ run[r].phase = "embed" /\ chan[r] # <<>> /\ chan'[r] = Tail(chan[r]) /\ prod' = prod
        /\ run'[r].list = L /\ run'[r].resumed = run[r].resumed
        /\ run'[r].phase \in {"saveBatch", "hung"}
    BY <1>0, <1>6 DEF InsertBatch, CountError, Goto, Task0
  <2>2. /\ job'.total = job.total /\ job'.processed = job.processed + n
        /\ \/ stored' = stored \cup batch /\ job'.stored = job.stored + n /\ job'.failed = job.failed
           \/ stored' = stored /\ job'.stored = job.stored /\ job'.failed = job.failed + n
    BY <1>0, <1>6 DEF InsertBatch, CountError, Job, dbVars
  <2>3. Waiting(r)' = W \ batch /\ batch \subseteq W /\ ApartAt(r)'
    BY <2>1, ReceivePipe
  <2>4. W \subseteq L /\ L \in SUBSET Emails
    BY <1>0, <2>1 DEF DrainedAt, Looping, Task0
  <2>5. DrainedAt(r)'
    <3> HIDE DEF batch, n, L, W
    <3>1. Waiting(r)' \subseteq run'[r].list /\ run'[r].phase \in Looping
      BY <2>1, <2>3, <2>4 DEF Looping
    <3> QED BY <2>1, <3>1 DEF DrainedAt
  <2>6. r \in Active
    BY <1>b, <2>1 DEF Ended
  <2>7. TalliedAt(r)'
    <3>1. SUFFICES ASSUME ~run[r].resumed
                   PROVE  /\ job'.total = Cardinality(L)
                          /\ job'.processed = Cardinality(L \ (W \ batch))
                          /\ job'.stored + job'.failed = job'.processed
                          /\ job'.stored <= Cardinality((L \ (W \ batch)) \cap stored')
      BY <2>1, <2>3 DEF TalliedAt
    <3>2. /\ job.total = Cardinality(L) /\ job.processed = Cardinality(L \ W)
          /\ job.stored + job.failed = job.processed
          /\ job.stored <= Cardinality((L \ W) \cap stored)
      BY <2>1, <2>6, <3>1 DEF TalliedAt
    <3>3. batch \in SUBSET Emails /\ W \in SUBSET Emails
      <4> HIDE DEF batch, L, W
      <4> QED BY <2>3, <2>4
    <3>4. job.stored \in Nat /\ job.failed \in Nat /\ job.processed \in Nat
      BY <1>0 DEF Job
    <3> HIDE DEF batch, L, W
    <3>5. /\ Cardinality(L \ (W \ batch)) = Cardinality(L \ W) + Cardinality(batch)
          /\ Cardinality((L \ (W \ batch)) \cap (stored \cup batch))
               >= Cardinality((L \ W) \cap stored) + Cardinality(batch)
          /\ Cardinality((L \ (W \ batch)) \cap stored) >= Cardinality((L \ W) \cap stored)
          /\ Cardinality(batch) \in Nat /\ Cardinality(L \ W) \in Nat
          /\ Cardinality((L \ W) \cap stored) \in Nat
          /\ Cardinality((L \ (W \ batch)) \cap (stored \cup batch)) \in Nat
          /\ Cardinality((L \ (W \ batch)) \cap stored) \in Nat
      BY <1>0, <2>3, <2>4, <3>3, CountMore
    <3>6. CASE stored' = stored \cup batch /\ job'.stored = job.stored + n /\ job'.failed = job.failed
      BY <2>2, <3>2, <3>4, <3>5, <3>6
    <3>7. CASE stored' = stored /\ job'.stored = job.stored /\ job'.failed = job.failed + n
      BY <2>2, <3>2, <3>4, <3>5, <3>7
    <3> QED BY <2>2, <3>6, <3>7
  <2>8. stored \subseteq stored'
    <3> HIDE DEF batch
    <3> QED BY <2>2
  <2> HIDE DEF batch, n, L, W
  <2> QED BY <2>3, <2>5, <2>6, <2>7, <2>8
<1> QED BY <1>1, <1>2, <1>3, <1>4, <1>5, <1>6 DEF Task

LEMMA TallyStep ==
    TypeInv /\ OneRun /\ Consumed /\ TallyInv /\ [Next]_vars => TallyInv'
<1> SUFFICES ASSUME TypeInv, OneRun, Consumed, TallyInv, [Next]_vars PROVE TallyInv'
  OBVIOUS
<1>0. /\ Active = {r \in Runs : run[r].phase \notin Ended}
      /\ Active' = {r \in Runs : run'[r].phase \notin Ended}
  BY DEF Active, Ended
<1>a. /\ \A r \in Runs : ApartAt(r) /\ DrainedAt(r)
      /\ \A r \in Active : TalliedAt(r)
  BY DEF TallyInv
\* A run the step leaves alone.
<1>b. ASSUME NEW s \in Runs, run'[s] = run[s], prod'[s] = prod[s], chan'[s] = chan[s]
      PROVE  /\ ApartAt(s)' /\ DrainedAt(s)' /\ Waiting(s)' = Waiting(s)
             /\ s \in Active' => s \in Active
             /\ s \in Active /\ job' = job /\ stored' = stored => TalliedAt(s)'
  <2>1. Waiting(s)' = Waiting(s)
    BY <1>b, SamePipe
  <2>2. ApartAt(s)' /\ DrainedAt(s)'
    BY <1>a, <1>b, <2>1 DEF ApartAt, DrainedAt
  <2>3. s \in Active /\ job' = job /\ stored' = stored => TalliedAt(s)'
    BY <1>a, <1>b, <2>1 DEF TalliedAt
  <2> QED BY <1>0, <1>b, <2>1, <2>2, <2>3
<1>1. CASE Call
  <2>1. /\ chan' = chan /\ stored' = stored
        /\ \A s \in Runs : /\ prod'[s].left = prod[s].left /\ prod'[s].hand = prod[s].hand
                           /\ \/ prod'[s].pc = prod[s].pc
                              \/ prod[s].pc = "waiting" /\ prod'[s].pc = "embed"
    BY <1>1, CallTally
  <2>2. ASSUME NEW s \in Runs
        PROVE  /\ Waiting(s)' = Waiting(s) /\ ApartAt(s)'
               /\ prod'[s].pc \notin Holding => prod'[s].hand = {}
               /\ prod'[s].pc \in {"none", "end"} => prod'[s].left = {}
    <3>1. Waiting(s)' = Waiting(s)
      BY <2>1, SamePipe
    <3>2. /\ prod[s].pc \notin Holding => prod[s].hand = {}
          /\ prod[s].pc \in {"none", "end"} => prod[s].left = {}
          /\ ApartAt(s)
      BY <1>a DEF DrainedAt
    <3> QED BY <2>1, <3>1, <3>2 DEF ApartAt, Holding
  <2>3. ASSUME NEW s \in Runs, run'[s] = run[s]
        PROVE  DrainedAt(s)'
    BY <1>a, <2>1, <2>2, <2>3 DEF DrainedAt
  <2>4. CASE /\ run' = run
             /\ job'.total = job.total /\ job'.processed = job.processed
             /\ job'.stored = job.stored /\ job'.failed = job.failed
    <3>1. \A s \in Active' : s \in Active /\ s \in Runs
      BY <1>0, <2>4
    <3>2. \A s \in Active' : TalliedAt(s)'
      BY <1>a, <2>1, <2>2, <2>4, <3>1 DEF TalliedAt
    <3> QED BY <2>2, <2>3, <2>4, <3>2 DEF TallyInv
  <2>5. ASSUME NEW r \in FreeRuns, ~InProgress, run'[r].phase = "fetch",
               \A s \in Runs \ {r} : run'[s] = run[s],
               ~run'[r].resumed => job'.processed = 0 /\ job'.stored = 0 /\ job'.failed = 0
        PROVE  TallyInv'
    <3>1. r \in Runs /\ run[r].phase = "idle" /\ Active = {}
      BY <2>5 DEF FreeRuns, OneRun
    <3>2. \A s \in Active' : s = r
      BY <1>0, <2>5, <3>1
    <3>3. TalliedAt(r)'
      BY <2>5 DEF TalliedAt
    <3>4. DrainedAt(r)'
      <4>1. Waiting(r) = {} /\ chan[r] = <<>>
        BY <1>a, <3>1 DEF DrainedAt, Looping
      <4> QED BY <2>1, <2>2, <2>5, <3>1, <4>1 DEF DrainedAt, Looping
    <3>5. \A s \in Runs : DrainedAt(s)'
      BY <2>3, <2>5, <3>4
    <3> QED BY <2>2, <3>2, <3>3, <3>5 DEF TallyInv
  <2> QED BY <1>1, <2>4, <2>5, CallTally
<1>2. CASE Crash
  <2>1. Active' = {}
    BY <1>0, <1>2 DEF Crash, Ended, Idle
  <2>2. ASSUME NEW s \in Runs PROVE ApartAt(s)' /\ DrainedAt(s)'
    <3>1. /\ prod'[s] = NoProducer /\ chan'[s] = <<>> /\ run'[s].phase \in {"idle", "over", "dead"}
      BY <1>2 DEF Crash, Idle
    <3>2. prod'[s].left = {} /\ prod'[s].hand = {}
      BY <3>1 DEF NoProducer
    <3>3. Waiting(s)' = {}
      BY <3>1, <3>2 DEF Waiting
    <3> QED BY <3>1, <3>2, <3>3 DEF ApartAt, DrainedAt, Looping
  <2> QED BY <2>1, <2>2 DEF TallyInv
<1>3. ASSUME NEW r \in Runs, Task(r) PROVE TallyInv'
  <2>1. /\ ApartAt(r)' /\ DrainedAt(r)' /\ (r \in Active' => TalliedAt(r)' /\ r \in Active)
        /\ r \notin Active => job' = job /\ stored' = stored
    BY <1>3, <1>a, TaskTally
  <2>2. \A s \in Runs \ {r} : run'[s] = run[s] /\ prod'[s] = prod[s] /\ chan'[s] = chan[s]
    BY <1>3, TaskFrame
  <2>3. ASSUME NEW s \in Active', s # r PROVE TalliedAt(s)'
    <3>1. s \in Runs /\ s \in Active
      BY <1>0, <1>b, <2>2, <2>3
    <3>2. r \notin Active
      BY <2>3, <3>1 DEF OneRun
    <3> QED BY <1>b, <2>1, <2>2, <2>3, <3>1, <3>2
  <2>4. \A s \in Runs : ApartAt(s)' /\ DrainedAt(s)'
    BY <1>b, <2>1, <2>2
  <2> QED BY <2>1, <2>3, <2>4 DEF TallyInv
<1>4. ASSUME NEW r \in Runs, Producer(r) PROVE TallyInv'
  <2>1. /\ run' = run /\ job' = job /\ stored' = stored
        /\ \A s \in Runs \ {r} : prod'[s] = prod[s] /\ chan'[s] = chan[s]
    BY <1>4, ProducerFrame
  <2>2. run[r].phase \in Looping
    BY <1>4 DEF Producer, NextBatch, Park, EmbedBatch, MarkEmail, SendBatch, EndProducer, Consumed,
         Looping
  <2>3. Waiting(r)' = Waiting(r) /\ ApartAt(r)' /\ DrainedAt(r)'
    BY <1>4, <1>a, <2>2, ProducerPipe
  <2>4. \A s \in Runs : ApartAt(s)' /\ DrainedAt(s)' /\ Waiting(s)' = Waiting(s)
    BY <1>b, <2>1, <2>3
  <2>5. \A s \in Active' : s \in Active /\ s \in Runs
    BY <1>0, <2>1
  <2>6. \A s \in Active' : TalliedAt(s)'
    BY <1>a, <2>1, <2>4, <2>5 DEF TalliedAt
  <2> QED BY <2>4, <2>6 DEF TallyInv
<1>5. CASE UNCHANGED vars
  <2>1. UNCHANGED <<run, prod, chan, job, stored>>
    BY <1>5 DEF vars, dbVars, taskVars
  <2> QED BY <1>b, <2>1, <1>0 DEF TallyInv
<1> QED BY <1>1, <1>2, <1>3, <1>4, <1>5 DEF Next

\* When the consumer of a fresh run has drained its channel, every email the run
\* fetched is counted once, as stored or as failed, and as many as are counted
\* as stored are in the store: with any batch size and any channel, whatever
\* failed to be marked, inserted or saved, and however often it was paused.  (A
\* run whose batch failed to embed hangs and never drains its channel.)
THEOREM CompletedIsCounted == Spec => []CompletedIsAccounted
<1>1. Init => TallyInv
  <2> SUFFICES ASSUME Init PROVE TallyInv
    OBVIOUS
  <2>1. Active = {}
    BY DEF Init, Active, Idle
  <2>2. ASSUME NEW s \in Runs PROVE ApartAt(s) /\ DrainedAt(s)
    <3>1. /\ prod[s] = NoProducer /\ chan[s] = <<>> /\ run[s].phase = "idle"
      BY DEF Init, Idle
    <3>2. prod[s].left = {} /\ prod[s].hand = {}
      BY <3>1 DEF NoProducer
    <3>3. Waiting(s) = {}
      BY <3>1, <3>2 DEF Waiting
    <3> QED BY <3>1, <3>2, <3>3 DEF ApartAt, DrainedAt, Looping
  <2> QED BY <2>1, <2>2 DEF TallyInv
<1>2. StoredInv => Consumed
  BY DEF StoredInv
<1>3. TypeInv /\ TallyInv => CompletedIsAccounted
  <2> SUFFICES ASSUME TypeInv, TallyInv, NEW r \in Active,
                      run[r].phase \in {"saveCategorizing", "complete"}, ~run[r].resumed
               PROVE  /\ job.processed = Cardinality(run[r].list) /\ job.total = job.processed
                      /\ job.stored + job.failed = job.processed
                      /\ job.stored <= Cardinality(run[r].list \cap stored)
    BY DEF CompletedIsAccounted
  <2>1. r \in Runs
    BY DEF Active
  <2>2. Waiting(r) = {}
    BY <2>1 DEF TallyInv, DrainedAt, Looping
  <2>3. run[r].list \ Waiting(r) = run[r].list
    BY <2>2
  <2>4. TalliedAt(r)
    BY DEF TallyInv
  <2> QED BY <2>3, <2>4 DEF TalliedAt
<1> QED BY <1>1, <1>2, <1>3, TallyStep, StoredInvHolds, OneRunAtATime, TypeInvHolds, PTL DEF Spec
=============================================================================
