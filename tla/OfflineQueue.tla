---------------------------- MODULE OfflineQueue ----------------------------
(***************************************************************************)
(* The offline queue of email/offline_queue.rs and its users: the          *)
(* background scheduler of sync_scheduler.rs with the job checkpoints of   *)
(* checkpoint.rs, and a dispatcher that follows the pattern the scheduler  *)
(* lays down for callers: dequeue, call the provider, then complete, fail  *)
(* or, through conflict_resolution.rs, mark a conflict.                    *)
(*                                                                         *)
(* An operation is a number, the order of its created_at.                  *)
(***************************************************************************)
EXTENDS Integers, FiniteSets

CONSTANTS
    NumOps,
    Schedulers,     \* running instances of SyncScheduler
    Dispatchers,    \* callers that integrate the queue with a provider
    Limit,          \* the batch size each of them asks for
    MaxRetries,     \* QueuedOperation.max_retries
    MaxBackoff,     \* milliseconds
    Strategy,       \* ConflictStrategy
    MaxFaults       \* bound: crashes and failed database calls other than the select

Ops     == 1..NumOps
Workers == Schedulers \cup Dispatchers

ASSUME QueueAssumption ==
    /\ NumOps \in Nat /\ Limit \in [Workers -> Nat \ {0}] /\ MaxRetries \in Nat \ {0}
    /\ MaxBackoff \in Nat /\ MaxFaults \in Nat
    /\ Strategy \in {"last_writer_wins", "local_wins", "remote_wins", "manual"}
    /\ Schedulers \cap Dispatchers = {}

VARIABLES
    rows,       \* sync_queue: status and retry count of each operation
    conflicts,  \* sync_conflicts: the modified_at of the remote state logged for each
                \* operation, and its resolution
    work,       \* what each worker has in hand
    checkpoint, \* processing_checkpoints: the row of a scheduler's latest job
    backoff,    \* current_backoff_ms of each scheduler
    stranded,   \* history: operations a fault or a crash left in processing
    attempts,   \* history: how often an operation was handed to the provider
    shared,     \* history: a worker selected while another had yet to mark
    faults

queueVars == <<rows, stranded, attempts, shared>>
offlineVars == <<queueVars, conflicts, work, checkpoint, backoff, faults>>

-----------------------------------------------------------------------------
Settled == {"completed", "failed", "conflict"}

Row == [status : {"none", "pending", "processing"} \cup Settled, retries : Nat]

\* deleted, and modified_at against the created_at of the operation.
Remote == [deleted : BOOLEAN, modified : {"never", "before", "after"}]

Conflict == [modified : {"never", "before", "after"}, resolution : {"local_wins", "remote_wins", "manual_pending"}]

NoConflict == [resolution |-> "none"]

Idle == [pc |-> "idle", unmarked |-> {}, todo |-> {}, batch |-> {}, read |-> 0]

Job == [state : {"none", "running", "completed", "failed"}, total : Nat, processed : Nat,
        of : SUBSET Ops]

NoJob == [state |-> "none", total |-> 0, processed |-> 0, of |-> {}]

Pending == {o \in Ops : rows[o].status = "pending"}

Least(S) == CHOOSE o \in S : \A p \in S : o <= p

\* ORDER BY created_at ASC LIMIT n.
First(S, n) == {o \in S : Cardinality({p \in S : p <= o}) <= n}

\* advance_backoff: the first step is a second, whatever the maximum.
Advanced(b) ==
    CASE b = 0                       -> 1000
      [] b # 0 /\ b * 2 <= MaxBackoff -> b * 2
      [] OTHER                         -> MaxBackoff

\* A batch ends in an error: the loop backs off.
Backoff(w) ==
    backoff' = IF w \in Schedulers THEN [backoff EXCEPT ![w] = Advanced(@)] ELSE backoff

Fault == faults < MaxFaults /\ faults' = faults + 1

SetStatus(o, s) == rows' = [rows EXCEPT ![o].status = s]

\* detect_conflict
Conflicting(r) == r.deleted \/ r.modified = "after"

\* resolve: under LastWriterWins the local side wins only over a modified_at
\* that is there and older than the operation.
Resolve(r) ==
    CASE Strategy = "local_wins"  -> "local_wins"
      [] Strategy = "remote_wins" -> "remote_wins"
      [] Strategy = "manual"      -> "manual_pending"
      [] OTHER -> IF r.modified = "before" THEN "local_wins" ELSE "remote_wins"

-----------------------------------------------------------------------------
QueueInit ==
    /\ rows = [o \in Ops |-> [status |-> "none", retries |-> 0]]
    /\ conflicts = [o \in Ops |-> NoConflict]
    /\ work = [w \in Workers |-> Idle]
    /\ checkpoint = [w \in Schedulers |-> NoJob]
    /\ backoff = [w \in Schedulers |-> 0]
    /\ stranded = {} /\ attempts = [o \in Ops |-> 0] /\ shared = FALSE
    /\ faults = 0

\* enqueue
Enqueue ==
    /\ \E o \in Ops : rows[o].status = "none"
    /\ SetStatus(Least({o \in Ops : rows[o].status = "none"}), "pending")
    /\ UNCHANGED <<conflicts, work, checkpoint, backoff, stranded, attempts, shared, faults>>

-----------------------------------------------------------------------------
(* dequeue_batch: a select and one update per row, nothing in between them *)
(* is atomic.                                                              *)

Select(w) ==
    /\ work[w].pc = "idle" /\ Pending # {}
    /\ LET batch == First(Pending, Limit[w])
       IN  work' = [work EXCEPT ![w] = [Idle EXCEPT !.pc = "mark", !.unmarked = batch,
                                                    !.todo = batch, !.batch = batch]]
    /\ shared' = (shared \/ \E v \in Workers \ {w} : work[v].unmarked # {})
    /\ UNCHANGED <<rows, stranded, attempts, conflicts, checkpoint, backoff, faults>>

SelectFails(w) ==
    /\ work[w].pc = "idle"
    /\ Backoff(w)
    /\ UNCHANGED <<queueVars, conflicts, work, checkpoint, faults>>

\* Mutant: the rows are taken and not marked.
TakeUnmarked(w) ==
    /\ work[w].unmarked # {}
    /\ work' = [work EXCEPT ![w].unmarked = {}, ![w].pc = IF w \in Schedulers THEN "save" ELSE "op"]
    /\ UNCHANGED <<queueVars, conflicts, checkpoint, backoff, faults>>

\* UPDATE ... WHERE id = ?, whatever the status by now is.
MarkProcessing(w) ==
    /\ work[w].unmarked # {}
    /\ LET o == Least(work[w].unmarked)
       IN  /\ SetStatus(o, "processing")
           /\ work' = [work EXCEPT ![w].unmarked = @ \ {o},
                                   ![w].pc = IF work[w].unmarked # {o} THEN "mark"
                                             ELSE IF w \in Schedulers THEN "save" ELSE "op"]
    /\ UNCHANGED <<stranded, attempts, shared, conflicts, checkpoint, backoff, faults>>

\* Leaves a worker's batch: what it marked stays in processing.
Drop(w) ==
    /\ stranded' = stranded \cup (work[w].todo \ work[w].unmarked)
    /\ work' = [work EXCEPT ![w] = Idle]

MarkFails(w) ==
    /\ work[w].unmarked # {} /\ Fault
    /\ Drop(w) /\ Backoff(w)
    /\ UNCHANGED <<rows, attempts, shared, conflicts, checkpoint>>

-----------------------------------------------------------------------------
(* process_batch *)

\* An error of save_checkpoint, complete or fail of the checkpoint service is
\* logged and ignored.
Saving(w, job) ==
    \/ checkpoint' = [checkpoint EXCEPT ![w] = job] /\ UNCHANGED faults
    \/ Fault /\ UNCHANGED checkpoint

\* The row of the job: an update finds none when the insert failed.
Marked(w, s) == IF checkpoint[w].of # work[w].batch THEN checkpoint[w]
                ELSE [checkpoint[w] EXCEPT !.state = s]

SaveInitial(w) ==
    /\ work[w].pc = "save"
    /\ \/ checkpoint' = [checkpoint EXCEPT ![w] = [state |-> "running", processed |-> 0,
                             total |-> Cardinality(work[w].batch), of |-> work[w].batch]]
          /\ UNCHANGED faults
       \/ Fault /\ checkpoint' = [checkpoint EXCEPT ![w] = NoJob]
    /\ work' = [work EXCEPT ![w].pc = "op"]
    /\ UNCHANGED <<queueVars, conflicts, backoff>>

\* The scheduler completes an operation without a provider call.
CompleteOp(w) ==
    /\ w \in Schedulers /\ work[w].pc = "op" /\ work[w].todo # {}
    /\ LET o == Least(work[w].todo)
       IN  /\ SetStatus(o, "completed")
           /\ work' = [work EXCEPT ![w].todo = @ \ {o}, ![w].pc = "progress"]
    /\ UNCHANGED <<stranded, attempts, shared, conflicts, checkpoint, backoff, faults>>

Progress(w) == Cardinality(work[w].batch \ work[w].todo)

SaveProgress(w) ==
    /\ work[w].pc = "progress"
    /\ Saving(w, [state |-> "running", processed |-> Progress(w),
                  total |-> Cardinality(work[w].batch), of |-> work[w].batch])
    /\ work' = [work EXCEPT ![w].pc = "op"]
    /\ UNCHANGED <<queueVars, conflicts, backoff>>

\* The update of the row fails: so does the job, and the batch is left.
CompleteFails(w) ==
    /\ w \in Schedulers /\ work[w].pc = "op" /\ work[w].todo # {} /\ Fault
    /\ \/ checkpoint' = [checkpoint EXCEPT ![w] = Marked(w, "failed")]
       \/ UNCHANGED checkpoint
    /\ Drop(w) /\ Backoff(w)
    /\ UNCHANGED <<rows, attempts, shared, conflicts>>

CompleteJob(w) ==
    /\ w \in Schedulers /\ work[w].pc = "op" /\ work[w].todo = {}
    /\ Saving(w, Marked(w, "completed"))
    /\ backoff' = [backoff EXCEPT ![w] = 0]
    /\ work' = [work EXCEPT ![w] = Idle]
    /\ UNCHANGED <<queueVars, conflicts>>

-----------------------------------------------------------------------------
(* A dispatcher *)

\* The first operation of its batch is handed to the provider.
Attempt(w) ==
    /\ w \in Dispatchers /\ work[w].pc = "op" /\ work[w].todo # {}
    /\ work' = [work EXCEPT ![w].pc = "answer"]
    /\ attempts' = [attempts EXCEPT ![Least(work[w].todo)] = @ + 1]
    /\ UNCHANGED <<rows, stranded, shared, conflicts, checkpoint, backoff, faults>>

Done(w, o) == [work EXCEPT ![w].todo = @ \ {o},
                           ![w].pc = IF work[w].todo = {o} THEN "idle" ELSE "op",
                           ![w].batch = IF work[w].todo = {o} THEN {} ELSE @,
                           ![w].read = 0]

\* complete
Succeed(w) ==
    /\ work[w].pc = "answer"
    /\ LET o == Least(work[w].todo) IN SetStatus(o, "completed") /\ work' = Done(w, o)
    /\ UNCHANGED <<stranded, attempts, shared, conflicts, checkpoint, backoff, faults>>

\* fail reads the retry count,
FailRead(w) ==
    /\ work[w].pc = "answer"
    /\ work' = [work EXCEPT ![w].pc = "fail", ![w].read = rows[Least(work[w].todo)].retries]
    /\ UNCHANGED <<queueVars, conflicts, checkpoint, backoff, faults>>

\* Mutant: the last failure leaves the row in processing.
AfterFailureHeld(n) == IF n >= MaxRetries THEN "processing" ELSE "pending"

AfterFailure(n) == IF n >= MaxRetries THEN "failed" ELSE "pending"

\* and writes it.
FailWrite(w) ==
    /\ work[w].pc = "fail"
    /\ LET o == Least(work[w].todo)
           n == work[w].read + 1
       IN  rows' = [rows EXCEPT ![o] = [status |-> AfterFailure(n), retries |-> n]]
           /\ work' = Done(w, o)
    /\ UNCHANGED <<stranded, attempts, shared, conflicts, checkpoint, backoff, faults>>

\* The target turns out to be changed at the provider: log_conflict, resolve
\* and mark_conflict.
MarkConflict(w) ==
    /\ work[w].pc = "answer"
    /\ \E r \in {q \in Remote : Conflicting(q)} :
        LET o == Least(work[w].todo)
        IN  /\ conflicts' = [conflicts EXCEPT ![o] = [modified |-> r.modified, resolution |-> Resolve(r)]]
            /\ SetStatus(o, "conflict")
            /\ work' = Done(w, o)
    /\ UNCHANGED <<stranded, attempts, shared, checkpoint, backoff, faults>>

\* The process dies: the tables stay.
Crash ==
    /\ Fault
    /\ stranded' = stranded \cup UNION {work[w].todo \ work[w].unmarked : w \in Workers}
    /\ work' = [w \in Workers |-> Idle]
    /\ backoff' = [w \in Schedulers |-> 0]
    /\ UNCHANGED <<rows, attempts, shared, conflicts, checkpoint>>

-----------------------------------------------------------------------------
Step(w) ==
    \/ Select(w) \/ MarkProcessing(w) \/ SaveInitial(w) \/ CompleteOp(w) \/ SaveProgress(w)
    \/ CompleteJob(w) \/ Attempt(w) \/ Succeed(w) \/ FailRead(w) \/ FailWrite(w)
    \/ MarkConflict(w)

Failure(w) == SelectFails(w) \/ MarkFails(w) \/ CompleteFails(w)

QueueNext ==
    \/ Enqueue \/ Crash
    \/ \E w \in Workers : Step(w) \/ Failure(w)

QueueSpec == QueueInit /\ [][QueueNext]_offlineVars

\* A worker whose timer fires goes on; nobody has to enqueue.
QueueFairness == \A w \in Workers : WF_offlineVars(Step(w))

QueueFairSpec == QueueSpec /\ QueueFairness

-----------------------------------------------------------------------------
Larger(m, n) == IF m < n THEN n ELSE m

QueueTypeOK ==
    /\ rows \in [Ops -> Row]
    /\ conflicts \in [Ops -> Conflict \cup {NoConflict}]
    /\ work \in [Workers -> [pc : {"idle", "mark", "save", "op", "progress", "answer", "fail"},
                             unmarked : SUBSET Ops, todo : SUBSET Ops, batch : SUBSET Ops,
                             read : Nat]]
    /\ checkpoint \in [Schedulers -> Job]
    /\ backoff \in [Schedulers -> 0..Larger(1000, MaxBackoff)]
    /\ stranded \subseteq Ops /\ attempts \in [Ops -> Nat] /\ shared \in BOOLEAN
    /\ faults \in 0..MaxFaults

\* Operations a worker has marked and not settled.
Held(w) == work[w].todo \ work[w].unmarked

\* "to prevent double-dispatch by concurrent workers": as long as no worker
\* selected between another's select and its last mark, no operation is in two
\* hands, and one in processing is in a hand unless a fault left it there.
HeldOnce ==
    ~shared =>
        /\ \A v, w \in Workers : v # w => work[v].todo \cap work[w].todo = {}
        /\ {o \in Ops : rows[o].status = "processing"}
              \subseteq stranded \cup UNION {Held(w) : w \in Workers}

\* An operation is given up after max_retries attempts, not before and not
\* after, and what waits for a retry has one left.
RetriesExact ==
    ~shared => \A o \in Ops :
        /\ attempts[o] <= MaxRetries
        /\ rows[o].status = "failed" => attempts[o] = MaxRetries
        /\ rows[o].status = "pending" => attempts[o] = rows[o].retries /\ rows[o].retries < MaxRetries

\* A checkpoint never claims an operation that is not completed.
CheckpointIsHonest ==
    ~shared => \A w \in Schedulers :
        LET job  == checkpoint[w]
            done == {o \in job.of : rows[o].status = "completed"}
        IN  /\ job.processed <= Cardinality(done)
            /\ job.state = "completed" => done = job.of

\* Operations are taken in the order of their creation: one that was never
\* tried is not passed over by a later one.
FirstInFirstOut ==
    \A o, p \in Ops :
        o < p /\ rows[o].status = "pending" /\ rows[p].status \in Settled =>
            rows[o].retries > 0 \/ shared

\* The last writer wins: the local side prevails in a conflict only where the
\* provider names a modification older than the operation.
LastWriterWins ==
    \A o \in Ops :
        Strategy = "last_writer_wins" /\ conflicts[o].resolution = "local_wins" =>
            conflicts[o].modified = "before"

OpOpen(o) == rows[o].status = "pending"
OpOver(o) == rows[o].status \in Settled \/ o \in stranded

\* A queued operation is settled in the end, unless a fault or a crash left it
\* in processing, from where nothing takes it back.
OpsSettle == \A o \in Ops : OpOpen(o) ~> OpOver(o)

\* What the queue keeps whoever takes from it, and whatever fails or dies.
QueueInv ==
    /\ QueueTypeOK /\ HeldOnce /\ RetriesExact /\ CheckpointIsHonest
    /\ FirstInFirstOut /\ LastWriterWins
=============================================================================
