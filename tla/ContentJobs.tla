---------------------------- MODULE ContentJobs -----------------------------
(***************************************************************************)
(* The background job queue of content/jobs.rs: the rows of                *)
(* background_jobs, the JobWorker loops of one job type that take them     *)
(* with a select and a separate update, cancellation, and the reset of     *)
(* abandoned jobs at startup.                                              *)
(*                                                                         *)
(* A job is a number, the order of its created_at.                         *)
(***************************************************************************)
EXTENDS Integers, FiniteSets

CONSTANTS
    NumJobs,
    PriorityOf,     \* background_jobs.priority of each job; lower is more urgent
    JobWorkers,
    JobRetries,     \* background_jobs.max_retries
    MaxJobFaults,   \* bound: crashes and updates that fail
    MaxCancels      \* bound: how often a user cancels

Jobs == 1..NumJobs

ASSUME JobAssumption ==
    /\ NumJobs \in Nat /\ PriorityOf \in [Jobs -> Nat] /\ JobRetries \in Nat \ {0}
    /\ MaxJobFaults \in Nat /\ MaxCancels \in Nat

VARIABLES
    jobs,       \* background_jobs: status and attempts of each job
    hands,      \* what each worker has in hand
    stuck,      \* history: jobs left running by an update that failed
    raced,      \* history: jobs two workers had selected at once
    jobFaults,
    cancels

contentVars == <<jobs, hands, stuck, raced, jobFaults, cancels>>

-----------------------------------------------------------------------------
JobSettled == {"completed", "failed", "cancelled"}

JobRow == [status : {"none", "pending", "running"} \cup JobSettled, attempts : Nat]

Empty == [pc |-> "idle", job |-> 0, verdict |-> "none"]

Holders(j) == {w \in JobWorkers : hands[w].job = j}

JobFault == jobFaults < MaxJobFaults /\ jobFaults' = jobFaults + 1

SetJob(j, s) == jobs' = [jobs EXCEPT ![j].status = s]

\* ORDER BY priority ASC, created_at ASC.
Before(i, j) == PriorityOf[i] < PriorityOf[j] \/ (PriorityOf[i] = PriorityOf[j] /\ i < j)

PendingJobs == {j \in Jobs : jobs[j].status = "pending"}

JobsInit ==
    /\ jobs = [j \in Jobs |-> [status |-> "none", attempts |-> 0]]
    /\ hands = [w \in JobWorkers |-> Empty]
    /\ stuck = {} /\ raced = {} /\ jobFaults = 0 /\ cancels = 0

\* enqueue
EnqueueJob ==
    \E j \in Jobs :
        /\ jobs[j].status = "none" /\ \A i \in 1..(j - 1) : jobs[i].status # "none"
        /\ SetJob(j, "pending")
        /\ UNCHANGED <<hands, stuck, raced, jobFaults, cancels>>

\* dequeue, its select
SelectJob(w) ==
    /\ hands[w] = Empty
    /\ \E j \in PendingJobs :
        /\ \A i \in PendingJobs \ {j} : Before(j, i)
        /\ hands' = [hands EXCEPT ![w] = [Empty EXCEPT !.pc = "mark", !.job = j]]
        /\ raced' = IF Holders(j) # {} THEN raced \cup {j} ELSE raced
    /\ UNCHANGED <<jobs, stuck, jobFaults, cancels>>

\* dequeue, its update: it finds no row when the job is no longer pending, and
\* the worker handles the job it has selected all the same.
MarkRunning(w) ==
    /\ hands[w].pc = "mark"
    /\ LET j == hands[w].job
       IN  jobs' = IF jobs[j].status # "pending" THEN jobs
                   ELSE [jobs EXCEPT ![j].status = "running", ![j].attempts = @ + 1]
    /\ hands' = [hands EXCEPT ![w].pc = "handle"]
    /\ UNCHANGED <<stuck, raced, jobFaults, cancels>>

MarkRunningFails(w) ==
    /\ hands[w].pc = "mark" /\ JobFault
    /\ hands' = [hands EXCEPT ![w] = Empty]
    /\ UNCHANGED <<jobs, stuck, raced, cancels>>

\* The handler returns Ok: mark_completed, whatever the status by now is.
HandlerSucceeds(w) ==
    /\ hands[w].pc = "handle"
    /\ SetJob(hands[w].job, "completed")
    /\ hands' = [hands EXCEPT ![w] = Empty]
    /\ UNCHANGED <<stuck, raced, jobFaults, cancels>>

\* Mutant: one attempt too many.
VerdictLate(n) == IF n <= JobRetries THEN "pending" ELSE "failed"

VerdictAfter(n) == IF n < JobRetries THEN "pending" ELSE "failed"

\* The handler returns Err: mark_failed reads the attempts
HandlerFails(w) ==
    /\ hands[w].pc = "handle"
    /\ hands' = [hands EXCEPT ![w].pc = "fail",
                              ![w].verdict = VerdictAfter(jobs[hands[w].job].attempts)]
    /\ UNCHANGED <<jobs, stuck, raced, jobFaults, cancels>>

\* and writes the status it chose.
WriteVerdict(w) ==
    /\ hands[w].pc = "fail"
    /\ SetJob(hands[w].job, hands[w].verdict)
    /\ hands' = [hands EXCEPT ![w] = Empty]
    /\ UNCHANGED <<stuck, raced, jobFaults, cancels>>

\* An update after the handler fails: logged, and the worker polls on.
OutcomeLost(w) ==
    /\ hands[w].pc \in {"handle", "fail"} /\ JobFault
    /\ hands' = [hands EXCEPT ![w] = Empty]
    /\ stuck' = stuck \cup {hands[w].job}
    /\ UNCHANGED <<jobs, raced, cancels>>

\* cancel
CancelJob(j) ==
    /\ jobs[j].status \in {"pending", "running"}
    /\ SetJob(j, "cancelled")
    /\ cancels < MaxCancels /\ cancels' = cancels + 1
    /\ UNCHANGED <<hands, stuck, raced, jobFaults>>

\* Mutant: every job that is not completed is taken up again.
ResumeAll == [j \in Jobs |-> IF jobs[j].status \in {"none", "completed"} THEN jobs[j]
                             ELSE [jobs[j] EXCEPT !.status = "pending"]]

\* resume_abandoned
ResumeAbandoned == [j \in Jobs |-> IF jobs[j].status # "running" THEN jobs[j]
                                   ELSE [jobs[j] EXCEPT !.status = "pending"]]

\* The process dies and comes back.
Restart ==
    /\ JobFault
    /\ jobs' = ResumeAbandoned
    /\ hands' = [w \in JobWorkers |-> Empty]
    /\ stuck' = {} /\ UNCHANGED <<raced, cancels>>

Work(w) == SelectJob(w) \/ MarkRunning(w) \/ HandlerSucceeds(w) \/ HandlerFails(w) \/ WriteVerdict(w)

JobsNext ==
    \/ EnqueueJob \/ Restart
    \/ \E j \in Jobs : CancelJob(j)
    \/ \E w \in JobWorkers : Work(w) \/ MarkRunningFails(w) \/ OutcomeLost(w)

JobsSpec == JobsInit /\ [][JobsNext]_contentVars

\* Each worker's loop goes on.
JobsFairness == \A w \in JobWorkers : WF_contentVars(Work(w))

JobsFairSpec == JobsSpec /\ JobsFairness

-----------------------------------------------------------------------------
JobsTypeOK ==
    /\ jobs \in [Jobs -> JobRow]
    /\ hands \in [JobWorkers -> [pc : {"idle", "mark", "handle", "fail"}, job : {0} \cup Jobs,
                                 verdict : {"none", "pending", "failed"}]]
    /\ stuck \subseteq Jobs /\ raced \subseteq Jobs
    /\ jobFaults \in 0..MaxJobFaults /\ cancels \in 0..MaxCancels

\* Handling a job is bounded: unless two workers had selected it at once, a row
\* counts no more attempts than max_retries and the restarts allow, however
\* cancellations and retries interleave; and a job is given up only after
\* max_retries attempts.
AttemptsBounded ==
    \A j \in Jobs :
        /\ j \notin raced => jobs[j].attempts <= JobRetries + jobFaults
        /\ jobs[j].status = "failed" => jobs[j].attempts >= JobRetries

\* A running row is in some worker's hand, and in one only, unless an update
\* failed or two workers had selected it at once.
RunningIsHeld ==
    \A j \in Jobs :
        jobs[j].status = "running" =>
            j \in stuck \cup raced \/ Cardinality({w \in Holders(j) : hands[w].pc # "mark"}) = 1

\* A job cancelled before any worker has it is never handled or queued again.
CancelledStays ==
    [][\A j \in Jobs : jobs[j].status = "cancelled" /\ Holders(j) = {} =>
           jobs'[j].status = "cancelled" /\ Holders(j)' = {}]_contentVars

JobOpen(j) == jobs[j].status \in {"pending", "running"}
JobOver(j) == jobs[j].status \in JobSettled \/ j \in stuck

\* Each queued job is settled in the end, however often its handler fails,
\* unless an update after the handler failed and nothing was restarted since.
JobsSettle == \A j \in Jobs : JobOpen(j) ~> JobOver(j)

\* What the job table keeps under two workers, cancellations and restarts.
JobsInv == JobsTypeOK /\ AttemptsBounded /\ RunningIsHeld
=============================================================================
