-------------------------- MODULE IngestionPipeline --------------------------
(***************************************************************************)
(* The embedding pipeline of vectors/ingestion.rs: one global current job, *)
(* the calls that start, pause, resume and revive it, and per run the      *)
(* background task with its embedding producer, the bounded channel and    *)
(* the consumer that inserts into the vector store and saves checkpoints.  *)
(*                                                                         *)
(* An email is a number: the order of received_at DESC in which a run      *)
(* fetches its account's pending emails.  Categorizing, clustering and the *)
(* job's phase change nothing that these steps read and are left out.      *)
(***************************************************************************)
EXTENDS Integers, Sequences, FiniteSets

CONSTANTS
    NumEmails,
    Owner,          \* the account of each email
    BatchSize,      \* embedding_batch_size
    Buffer,         \* pipeline_channel_buffer
    MaxRuns,        \* bound: runs started, fresh or resumed
    MaxFailures,    \* bound: crashes, failed saves and failed updates
    Faults          \* which calls may fail: "fetch", "embed", "mark", "insert", "save"

Emails   == 1..NumEmails
Runs     == 1..MaxRuns
Accounts == {Owner[e] : e \in Emails}

ASSUME PipelineAssumption ==
    /\ NumEmails \in Nat /\ MaxRuns \in Nat /\ MaxFailures \in Nat
    /\ BatchSize \in Nat \ {0} /\ Buffer \in Nat \ {0}
    /\ DOMAIN Owner = Emails
    /\ Faults \subseteq {"fetch", "embed", "mark", "insert", "save"}

VARIABLES
    embedded,       \* emails whose embedding_status is 'embedded'
    stored,         \* emails with a vector in the store
    checkpoints,    \* rows of ingestion_checkpoints, in creation order
    job,            \* IngestionState.current_job
    paused,         \* IngestionState.paused
    notifying,      \* a resume call has yet to notify_waiters
    reviving,       \* the checkpoint a resume_from_checkpoint call has read
    run,            \* the background tasks
    prod,           \* their producers
    chan,           \* their channels
    lost,           \* history: vectors that a failed insert or a crash dropped
    failures        \* crashes and failed writes so far

dbVars   == <<embedded, stored>>
apiVars  == <<paused, notifying, reviving>>
taskVars == <<run, prod, chan>>
vars == <<dbVars, checkpoints, job, apiVars, taskVars, lost, failures>>

-----------------------------------------------------------------------------
None == 0

Stages == {"syncing", "embedding", "categorizing", "complete"}

Checkpoint == [job : Runs, acct : Accounts, stage : Stages,
               status : {"running", "failed", "completed"},
               total : Nat, processed : Nat, failed : Nat, last : Emails \cup {None}]

Job == [id : Runs \cup {None}, acct : Accounts \cup {None},
        status : {"none", "running", "paused", "completed", "failed"},
        total : Nat, processed : Nat, stored : Nat, failed : Nat]

NoJob == [id |-> None, acct |-> None, status |-> "none",
          total |-> 0, processed |-> 0, stored |-> 0, failed |-> 0]

NoCheckpoint == [job |-> None]

Idle == [phase |-> "idle", acct |-> None, job |-> None, resumed |-> FALSE, after |-> None,
         list |-> {}, last |-> None]

NoProducer == [pc |-> "none", left |-> {}, hand |-> {}, unmarked |-> {}]

\* Mutant: a paused job does not count.
RunningOnly == job.status = "running"

\* The test of start_ingestion and resume_from_checkpoint, under the write lock.
InProgress == job.status \in {"running", "paused"}

\* fetch_pending_emails
Pending(acct) == {e \in Emails \ embedded : Owner[e] = acct}

\* Skips up to and including the last processed id, if it is in the list at all.
Rest(list, after) ==
    CASE after = None     -> list
      [] after \in list   -> {e \in list : e > after}
      [] OTHER            -> {}

\* The next chunk of a list.
Batch(list) == {e \in list : Cardinality({d \in list : d <= e}) <= BatchSize}

Greatest(S) == CHOOSE e \in S : \A d \in S : d <= e
Least(S)    == CHOOSE e \in S : \A d \in S : e <= d

\* INSERT ... ON CONFLICT(id) DO UPDATE, the id being batch and stage.
Upsert(cp) ==
    IF \E i \in DOMAIN checkpoints :
            checkpoints[i].job = cp.job /\ checkpoints[i].stage = cp.stage
    THEN [i \in DOMAIN checkpoints |->
            IF checkpoints[i].job = cp.job /\ checkpoints[i].stage = cp.stage
            THEN cp ELSE checkpoints[i]]
    ELSE Append(checkpoints, cp)

\* save_checkpoint: the counters are those of the current job, whichever it
\* is; an error is logged and ignored.
SaveCheckpoint(r, stage, status, last) ==
    \/ /\ checkpoints' = Upsert([job |-> run[r].job, acct |-> run[r].acct, stage |-> stage,
                                 status |-> status, total |-> job.total,
                                 processed |-> job.processed, failed |-> job.failed,
                                 last |-> last])
       /\ UNCHANGED failures
    \/ /\ "save" \in Faults /\ failures < MaxFailures
       /\ failures' = failures + 1
       /\ UNCHANGED checkpoints

Incomplete(acct) ==
    {i \in DOMAIN checkpoints :
        checkpoints[i].acct = acct /\ checkpoints[i].status \in {"running", "failed"}}

\* ORDER BY created_at DESC LIMIT 1.  created_at counts seconds: the rows of
\* one job may tie.
Latest(acct) ==
    {i \in Incomplete(acct) :
        \A k \in Incomplete(acct) : k > i => checkpoints[k].job = checkpoints[i].job}

\* A task that returns leaves only its trace in the database.
Over == [Idle EXCEPT !.phase = "over"]

FreeRuns == {r \in Runs : run[r].phase = "idle"}

\* The consumer of a batch that failed to embed takes the write lock of the
\* state and keeps it to the end of the match arm, across the read lock that
\* save_checkpoint waits for: nobody gets the lock any more.
Locked == \E r \in Runs : run[r].phase = "hung"

-----------------------------------------------------------------------------
Init ==
    /\ embedded = {} /\ stored = {}
    /\ checkpoints = <<>>
    /\ job = NoJob
    /\ paused = FALSE /\ notifying = FALSE /\ reviving = NoCheckpoint
    /\ run = [r \in Runs |-> Idle]
    /\ prod = [r \in Runs |-> NoProducer]
    /\ chan = [r \in Runs |-> <<>>]
    /\ lost = {} /\ failures = 0

-----------------------------------------------------------------------------
(* The calls of the API *)
(* (Those that only read the progress change nothing and are left out.) *)

\* start_ingestion
Start(a) ==
    /\ ~Locked /\ ~InProgress
    /\ FreeRuns # {}
    /\ LET r == Least(FreeRuns)
       IN  /\ job' = [NoJob EXCEPT !.id = r, !.acct = a, !.status = "running"]
           /\ run' = [run EXCEPT ![r] = [Idle EXCEPT !.phase = "fetch", !.acct = a, !.job = r]]
    /\ paused' = FALSE
    /\ UNCHANGED <<dbVars, checkpoints, notifying, reviving, prod, chan, lost, failures>>

\* pause
Pause ==
    /\ ~Locked /\ job.status = "running"
    /\ job' = [job EXCEPT !.status = "paused"]
    /\ paused' = TRUE
    /\ UNCHANGED <<dbVars, checkpoints, notifying, reviving, taskVars, lost, failures>>

\* resume releases the lock before it notifies.  (One call at a time.)
Resume ==
    /\ ~Locked /\ job.status = "paused" /\ ~notifying
    /\ job' = [job EXCEPT !.status = "running"]
    /\ paused' = FALSE
    /\ notifying' = TRUE
    /\ UNCHANGED <<dbVars, checkpoints, reviving, taskVars, lost, failures>>

\* notify_waiters wakes the producers that wait already and leaves no permit.
NotifyWaiters ==
    /\ notifying
    /\ notifying' = FALSE
    /\ prod' = [r \in Runs |-> IF prod[r].pc = "waiting" THEN [prod[r] EXCEPT !.pc = "embed"]
                               ELSE prod[r]]
    /\ UNCHANGED <<dbVars, checkpoints, job, paused, reviving, run, chan, lost, failures>>

\* resume_from_checkpoint: the row is picked and set to running before the
\* test that no job is in progress.
PickCheckpoint(a) ==
    /\ reviving = NoCheckpoint /\ FreeRuns # {}
    /\ \E i \in Latest(a) :
        /\ reviving' = checkpoints[i]
        /\ checkpoints' = [checkpoints EXCEPT ![i].status = "running"]
    /\ UNCHANGED <<dbVars, job, paused, notifying, taskVars, lost, failures>>

ReviveRejected ==
    /\ reviving # NoCheckpoint /\ ~Locked /\ InProgress
    /\ reviving' = NoCheckpoint
    /\ UNCHANGED <<dbVars, checkpoints, job, paused, notifying, taskVars, lost, failures>>

\* The new job takes the counters and the batch id of the row as it was read.
Revive ==
    /\ reviving # NoCheckpoint /\ ~Locked /\ ~InProgress
    /\ FreeRuns # {}
    /\ LET cp == reviving
           r  == Least(FreeRuns)
       IN  /\ job' = [id |-> cp.job, acct |-> cp.acct, status |-> "running", total |-> cp.total,
                      processed |-> cp.processed, stored |-> cp.processed,
                      failed |-> cp.failed]
           /\ run' = [run EXCEPT ![r] = [Idle EXCEPT !.phase = "fetch", !.acct = cp.acct,
                                         !.job = cp.job, !.resumed = TRUE, !.after = cp.last]]
    /\ paused' = FALSE
    /\ reviving' = NoCheckpoint
    /\ UNCHANGED <<dbVars, checkpoints, notifying, prod, chan, lost, failures>>

-----------------------------------------------------------------------------
(* The background task of a run *)

Goto(r, phase) == run' = [run EXCEPT ![r].phase = phase]

\* fetch_pending_emails, and the filter of a resumed run.
Fetch(r) ==
    /\ run[r].phase = "fetch"
    /\ run' = [run EXCEPT ![r].list = Rest(Pending(run[r].acct), run[r].after),
                          ![r].phase = IF run[r].resumed THEN "begin" ELSE "saveSync"]
    /\ UNCHANGED <<dbVars, checkpoints, job, apiVars, prod, chan, lost, failures>>

\* mark_failed: whatever job is current.
FetchFails(r) ==
    /\ run[r].phase = "fetch" /\ "fetch" \in Faults
    /\ job' = [job EXCEPT !.status = "failed"]
    /\ Goto(r, "saveFailed")
    /\ UNCHANGED <<dbVars, checkpoints, apiVars, prod, chan, lost, failures>>

SaveFailed(r) ==
    /\ run[r].phase = "saveFailed"
    /\ SaveCheckpoint(r, "syncing", "failed", None)
    /\ run' = [run EXCEPT ![r] = Over]
    /\ UNCHANGED <<dbVars, job, apiVars, prod, chan, lost>>

SaveSync(r) ==
    /\ run[r].phase = "saveSync"
    /\ SaveCheckpoint(r, "syncing", "running", None)
    /\ Goto(r, "begin")
    /\ UNCHANGED <<dbVars, job, apiVars, prod, chan, lost>>

\* The total is set; with nothing to do the run completes, else its producer
\* is spawned.
Begin(r) ==
    /\ run[r].phase = "begin"
    /\ job' = [job EXCEPT !.total = Cardinality(run[r].list)]
    /\ IF run[r].list = {}
       THEN Goto(r, "complete") /\ UNCHANGED prod
       ELSE /\ Goto(r, "embed")
            /\ prod' = [prod EXCEPT ![r] = [NoProducer EXCEPT !.pc = "check",
                                                              !.left = run[r].list]]
    /\ UNCHANGED <<dbVars, checkpoints, apiVars, chan, lost, failures>>

\* Mutant: a failed insert is counted as failed but not as processed.
InsertUncounted(r) ==
    /\ run[r].phase = "embed" /\ chan[r] # <<>> /\ Head(chan[r]).ok
    /\ LET batch == Head(chan[r]).batch
           n     == Cardinality(batch)
       IN  /\ run' = [run EXCEPT ![r].phase = "saveBatch", ![r].last = Greatest(batch)]
           /\ \/ /\ stored' = stored \cup batch
                 /\ job' = [job EXCEPT !.stored = @ + n, !.processed = @ + n]
                 /\ UNCHANGED lost
              \/ /\ "insert" \in Faults
                 /\ lost' = lost \cup batch
                 /\ job' = [job EXCEPT !.failed = @ + n]
                 /\ UNCHANGED stored
    /\ chan' = [chan EXCEPT ![r] = Tail(@)]
    /\ UNCHANGED <<embedded, checkpoints, apiVars, prod, failures>>

\* The consumer receives a batch: it is inserted and counted.
InsertBatch(r) ==
    /\ run[r].phase = "embed" /\ chan[r] # <<>> /\ Head(chan[r]).ok
    /\ LET batch == Head(chan[r]).batch
           n     == Cardinality(batch)
       IN  /\ run' = [run EXCEPT ![r].phase = "saveBatch", ![r].last = Greatest(batch)]
           /\ \/ /\ stored' = stored \cup batch
                 /\ job' = [job EXCEPT !.stored = @ + n, !.processed = @ + n]
                 /\ UNCHANGED lost
              \/ /\ "insert" \in Faults
                 /\ lost' = lost \cup batch
                 /\ job' = [job EXCEPT !.failed = @ + n, !.processed = @ + n]
                 /\ UNCHANGED stored
    /\ chan' = [chan EXCEPT ![r] = Tail(@)]
    /\ UNCHANGED <<embedded, checkpoints, apiVars, prod, failures>>

\* The consumer receives an error: counts it, and waits for ever for the lock
\* it holds.
CountError(r) ==
    /\ run[r].phase = "embed" /\ chan[r] # <<>> /\ ~Head(chan[r]).ok
    /\ LET n == Cardinality(Head(chan[r]).batch)
       IN  job' = [job EXCEPT !.failed = @ + n, !.processed = @ + n]
    /\ Goto(r, "hung")
    /\ chan' = [chan EXCEPT ![r] = Tail(@)]
    /\ UNCHANGED <<dbVars, checkpoints, apiVars, prod, lost, failures>>

\* The periodic checkpoint.
SaveBatch(r) ==
    /\ run[r].phase = "saveBatch"
    /\ SaveCheckpoint(r, "embedding", "running", run[r].last)
    /\ Goto(r, "embed")
    /\ UNCHANGED <<dbVars, job, apiVars, prod, chan, lost>>

\* Mutant: a sender outlives the producer.
NeverClosed(r) == FALSE

\* The producer is gone and the channel drained.
Closed(r) == prod[r].pc = "end" /\ chan[r] = <<>>

EmbeddingEnds(r) ==
    /\ run[r].phase = "embed" /\ Closed(r)
    /\ Goto(r, "saveCategorizing")
    /\ UNCHANGED <<dbVars, checkpoints, job, apiVars, prod, chan, lost, failures>>

SaveCategorizing(r) ==
    /\ run[r].phase = "saveCategorizing"
    /\ SaveCheckpoint(r, "categorizing", "running", run[r].last)
    /\ Goto(r, "complete")
    /\ UNCHANGED <<dbVars, job, apiVars, prod, chan, lost>>

\* mark_completed: whatever job is current, and paused or not.
MarkCompleted(r) ==
    /\ run[r].phase = "complete"
    /\ job' = [job EXCEPT !.status = "completed"]
    /\ Goto(r, "saveComplete")
    /\ UNCHANGED <<dbVars, checkpoints, apiVars, prod, chan, lost, failures>>

SaveComplete(r) ==
    /\ run[r].phase = "saveComplete"
    /\ SaveCheckpoint(r, "complete", "completed", run[r].last)
    /\ run' = [run EXCEPT ![r] = Over]
    /\ prod' = [prod EXCEPT ![r] = NoProducer]
    /\ UNCHANGED <<dbVars, job, apiVars, chan, lost>>

-----------------------------------------------------------------------------
(* The producer of a run *)

\* Takes the next batch; the pause flag is read once per batch, under the lock.
NextBatch(r) ==
    /\ ~Locked
    /\ prod[r].pc = "check" /\ prod[r].left # {}
    /\ LET batch == Batch(prod[r].left)
       IN  prod' = [prod EXCEPT ![r] = [pc |-> IF paused THEN "parking" ELSE "embed",
                                        left |-> @.left \ batch, hand |-> batch,
                                        unmarked |-> {}]]
    /\ UNCHANGED <<dbVars, checkpoints, job, apiVars, run, chan, lost, failures>>

\* notified() registers the waiter, after the flag was read.
Park(r) ==
    /\ prod[r].pc = "parking"
    /\ prod' = [prod EXCEPT ![r].pc = "waiting"]
    /\ UNCHANGED <<dbVars, checkpoints, job, apiVars, run, chan, lost, failures>>

\* embed_batch, retries included.
EmbedBatch(r) ==
    /\ prod[r].pc = "embed"
    /\ \/ prod' = [prod EXCEPT ![r].pc = "mark", ![r].unmarked = prod[r].hand]
       \/ "embed" \in Faults /\ prod' = [prod EXCEPT ![r].pc = "sendError"]
    /\ UNCHANGED <<dbVars, checkpoints, job, apiVars, run, chan, lost, failures>>

\* update_embedding_status_standalone, before the vector is inserted; an
\* error is logged and ignored.
MarkEmail(r) ==
    /\ prod[r].pc = "mark" /\ prod[r].unmarked # {}
    /\ LET e == Least(prod[r].unmarked)
       IN  /\ prod' = [prod EXCEPT ![r].unmarked = @ \ {e}]
           /\ \/ embedded' = embedded \cup {e} /\ UNCHANGED failures
              \/ /\ "mark" \in Faults /\ failures < MaxFailures
                 /\ failures' = failures + 1
                 /\ UNCHANGED embedded
    /\ UNCHANGED <<stored, checkpoints, job, apiVars, run, chan, lost>>

\* Mutant: a full channel drops the batch.
SendOrDrop(r) ==
    /\ prod[r].pc \in {"mark", "sendError"} /\ prod[r].unmarked = {}
    /\ chan' = IF Len(chan[r]) = Buffer THEN chan
               ELSE [chan EXCEPT ![r] = Append(@, [ok |-> prod[r].pc = "mark",
                                                   batch |-> prod[r].hand])]
    /\ prod' = [prod EXCEPT ![r].pc = "check", ![r].hand = {}]
    /\ UNCHANGED <<dbVars, checkpoints, job, apiVars, run, lost, failures>>

\* Mutant: the channel is unbounded.
SendAnyway(r) ==
    /\ prod[r].pc \in {"mark", "sendError"} /\ prod[r].unmarked = {}
    /\ chan' = [chan EXCEPT ![r] = Append(@, [ok |-> prod[r].pc = "mark",
                                              batch |-> prod[r].hand])]
    /\ prod' = [prod EXCEPT ![r].pc = "check", ![r].hand = {}]
    /\ UNCHANGED <<dbVars, checkpoints, job, apiVars, run, lost, failures>>

\* tx.send: waits for room.
SendBatch(r) ==
    /\ prod[r].pc \in {"mark", "sendError"} /\ prod[r].unmarked = {}
    /\ Len(chan[r]) < Buffer
    /\ chan' = [chan EXCEPT ![r] = Append(@, [ok |-> prod[r].pc = "mark",
                                              batch |-> prod[r].hand])]
    /\ prod' = [prod EXCEPT ![r].pc = "check", ![r].hand = {}]
    /\ UNCHANGED <<dbVars, checkpoints, job, apiVars, run, lost, failures>>

EndProducer(r) ==
    /\ prod[r].pc = "check" /\ prod[r].left = {}
    /\ prod' = [prod EXCEPT ![r].pc = "end"]
    /\ UNCHANGED <<dbVars, checkpoints, job, apiVars, run, chan, lost, failures>>

-----------------------------------------------------------------------------
\* Emails whose vector a run holds and has not inserted yet.
Sent(r)     == UNION {chan[r][i].batch : i \in {k \in DOMAIN chan[r] : chan[r][k].ok}}
InFlight(r) == Sent(r) \cup (IF prod[r].pc = "mark" THEN prod[r].hand ELSE {})

\* The process dies and starts again: the database and the store remain.
Crash ==
    /\ failures < MaxFailures
    /\ failures' = failures + 1
    /\ job' = NoJob /\ paused' = FALSE /\ notifying' = FALSE /\ reviving' = NoCheckpoint
    /\ lost' = lost \cup UNION {InFlight(r) : r \in Runs}
    /\ run' = [r \in Runs |-> IF run[r].phase \in {"idle", "over"} THEN run[r]
                              ELSE [Idle EXCEPT !.phase = "dead"]]
    /\ prod' = [r \in Runs |-> NoProducer]
    /\ chan' = [r \in Runs |-> <<>>]
    /\ UNCHANGED <<dbVars, checkpoints>>

-----------------------------------------------------------------------------
\* Every step of a task takes the lock of the state, to write the job or to
\* read its counters.
Task(r) ==
    /\ ~Locked
    /\ \/ Fetch(r) \/ FetchFails(r) \/ SaveFailed(r) \/ SaveSync(r) \/ Begin(r)
       \/ InsertBatch(r) \/ CountError(r) \/ SaveBatch(r)
       \/ EmbeddingEnds(r) \/ SaveCategorizing(r) \/ MarkCompleted(r) \/ SaveComplete(r)

Producer(r) ==
    \/ NextBatch(r) \/ Park(r) \/ EmbedBatch(r) \/ MarkEmail(r) \/ SendBatch(r)
    \/ EndProducer(r)

Call ==
    \/ \E a \in Accounts : Start(a) \/ PickCheckpoint(a)
    \/ Pause \/ Resume \/ NotifyWaiters \/ ReviveRejected \/ Revive

Next == Call \/ Crash \/ \E r \in Runs : Task(r) \/ Producer(r)

Spec == Init /\ [][Next]_vars

\* Tokio runs every task that can run; nobody has to pause, resume or start.
Fairness ==
    /\ \A r \in Runs : WF_vars(Task(r)) /\ WF_vars(Producer(r))
    /\ WF_vars(NotifyWaiters)

FairSpec == Spec /\ Fairness

-----------------------------------------------------------------------------
\* Runs whose mark_completed or mark_failed is still to come.
Active == {r \in Runs : run[r].phase \notin {"idle", "saveFailed", "saveComplete", "over", "dead"}}

TypeOK ==
    /\ embedded \subseteq Emails /\ stored \subseteq Emails /\ lost \subseteq Emails
    /\ checkpoints \in Seq(Checkpoint)
    /\ job \in Job
    /\ paused \in BOOLEAN /\ notifying \in BOOLEAN
    /\ reviving \in Checkpoint \cup {NoCheckpoint}
    /\ run \in [Runs -> [phase : {"idle", "fetch", "saveFailed", "saveSync", "begin", "embed",
                                  "hung", "saveBatch", "saveCategorizing", "complete",
                                  "saveComplete", "over", "dead"},
                         acct : Accounts \cup {None}, job : Runs \cup {None},
                         resumed : BOOLEAN, after : Emails \cup {None},
                         list : SUBSET Emails, last : Emails \cup {None}]]
    /\ prod \in [Runs -> [pc : {"none", "check", "parking", "waiting", "embed", "mark",
                                "sendError", "end"},
                          left : SUBSET Emails, hand : SUBSET Emails,
                          unmarked : SUBSET Emails]]
    /\ chan \in [Runs -> Seq([ok : BOOLEAN, batch : SUBSET Emails])]
    /\ \A r \in Runs : Len(chan[r]) <= Buffer
    /\ failures \in 0..MaxFailures

\* At most one run is between its start and its mark_completed or
\* mark_failed, and the current job is that run's: what lets the code write
\* the counters of current_job without looking at its id.
OneRun ==
    \A r \in Active : job.id = run[r].job /\ InProgress /\ Active = {r}

\* An email marked embedded has its vector in the store, or still on its way
\* there; the exceptions are the batches whose insert failed and those in
\* flight at a crash.
EmbeddedIsStored ==
    embedded \subseteq stored \cup lost \cup UNION {InFlight(r) : r \in Runs}

\* When the consumer has drained the channel of a fresh run, every email it
\* fetched is counted once, as stored or, when its insert failed, as failed,
\* and what it stored is in the store.  (No run gets there after a batch that
\* failed to embed.)
CompletedIsAccounted ==
    \A r \in Active :
        run[r].phase \in {"saveCategorizing", "complete"} /\ ~run[r].resumed =>
            /\ job.processed = Cardinality(run[r].list) /\ job.total = job.processed
            /\ job.stored + job.failed = job.processed
            /\ job.stored <= Cardinality(run[r].list \cap stored)

\* A run ends, unless its producer waits for a resume or a batch that failed
\* to embed has left the state locked.
RunsEnd ==
    \A r \in Runs :
        <>[](\/ run[r].phase \in {"idle", "over", "dead"}
             \/ prod[r].pc = "waiting"
             \/ Locked)

\* "Save checkpoint on batch failure so we can resume": a batch that failed to
\* embed is in a checkpoint in the end, when nothing crashes and every save
\* succeeds.
FailedBatchIsSaved ==
    \A r \in Runs :
        (run[r].phase = "embed" /\ chan[r] # <<>> /\ ~Head(chan[r]).ok)
            ~> (\E i \in DOMAIN checkpoints : checkpoints[i].failed > 0)

\* resume_from_checkpoint "resumes processing from the last successfully
\* processed email": what comes after it and is still pending is processed.
ResumeProcessesRest ==
    \A r \in Active :
        run[r].phase = "begin" /\ run[r].resumed =>
            {e \in Pending(run[r].acct) : e > run[r].after} \subseteq run[r].list
=============================================================================
