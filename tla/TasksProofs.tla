---------------------------- MODULE TasksProofs ----------------------------
(***************************************************************************)
(* The parts of the system whose work has to come to an end: theorems      *)
(* about what each of them never does, for every number of accounts,       *)
(* operations, jobs, models and callers.                                   *)
(***************************************************************************)
EXTENDS PollScheduler, OfflineQueue, ContentJobs, ChatTurns, ModelRouter, FiniteSetTheorems,
        SequenceTheorems, WellFoundedInduction, TLAPS

-----------------------------------------------------------------------------
(* The poll scheduler *)

\* The poll scheduler never syncs an account twice at once, for any number
\* of accounts, any interval and backoff, and any order of ticks and ends.

\* The backoff is a number up to its cap, however the product wraps.
LEMMA BackoffInRange ==
    ASSUME NEW n \in Nat \ {0}
    PROVE  BackoffAfter(n) \in 0..BackoffCap
<1>1. Modulus \in Nat \ {0}
  BY PollAssumption DEF Modulus
<1>2. SaturatingPow(n - 1) \in Nat
  BY <1>1, PollAssumption DEF SaturatingPow
<1>3. (Base * SaturatingPow(n - 1)) % Modulus \in Nat
  <2>1. Base * SaturatingPow(n - 1) \in Nat
    BY <1>2, PollAssumption
  <2> HIDE DEF Modulus, SaturatingPow
  <2> QED BY <1>1, <2>1
<1> HIDE DEF Modulus, SaturatingPow
<1> QED BY <1>3, PollAssumption DEF BackoffAfter, Smaller

\* The entry of an account, tracked or not, is the state of a poll.
LEMMA EntryIsState ==
    ASSUME PollTypeOK, NEW a \in PolledAccounts
    PROVE  /\ Entry(a) \in PollState
           /\ ~Tracked(a) => Entry(a).inProgress = FALSE
           /\ Tracked(a) => Entry(a) = polls[a] /\ polls[a] \in PollState
<1>1. polls[a] \in PollState \cup {Untracked} /\ Fresh \in PollState
  BY PollAssumption DEF PollTypeOK, PollState, Fresh
<1> QED BY <1>1 DEF Entry, Tracked, Fresh

\* What is written for an account is the state of a poll, and is the entry from then on.
LEMMA Written ==
    ASSUME PollTypeOK, NEW a \in PolledAccounts, NEW s \in PollState,
           polls' = [polls EXCEPT ![a] = s]
    PROVE  /\ polls' \in [PolledAccounts -> PollState \cup {Untracked}]
           /\ Entry(a)' = s /\ \A b \in PolledAccounts \ {a} : Entry(b)' = Entry(b)
<1>1. polls' \in [PolledAccounts -> PollState \cup {Untracked}] /\ polls'[a] = s
  BY DEF PollTypeOK
<1>2. s # Untracked
  BY DEF PollState, Untracked
<1>3. \A b \in PolledAccounts \ {a} : polls'[b] = polls[b]
  BY DEF PollTypeOK
<1> QED BY <1>1, <1>2, <1>3 DEF Entry, Tracked

LEMMA PollInitially == PollInit => PollInv
BY DEF PollInit, PollInv, PollTypeOK, OneSyncPerAccount, Entry, Tracked, Fresh

\* The loop looks at an account and starts its task when it is due.
LEMMA VisitKeeps ==
    ASSUME PollInv, NEW a \in PolledAccounts, Visit(a)
    PROVE  PollInv'
<1>1. CASE ~Due(a)
  BY <1>1 DEF PollInv, PollTypeOK, OneSyncPerAccount, Entry, Tracked, Visit
<1>2. CASE Due(a)
  <2> DEFINE s == [Entry(a) EXCEPT !.inProgress = TRUE]
  <2>1. Entry(a) \in PollState /\ Entry(a).inProgress = FALSE
    BY <1>2, EntryIsState DEF PollInv, Due, PollState
  <2>2. s \in PollState /\ s.inProgress = TRUE
    BY <2>1 DEF PollState
  <2>3. /\ polls' = [polls EXCEPT ![a] = s] /\ syncing' = [syncing EXCEPT ![a] = @ + 1]
        /\ visiting' \subseteq PolledAccounts /\ UNCHANGED <<enabled, connected, panicked>>
    BY <1>2 DEF PollInv, PollTypeOK, Visit
  <2>4. /\ polls' \in [PolledAccounts -> PollState \cup {Untracked}]
        /\ Entry(a)' = s /\ \A b \in PolledAccounts \ {a} : Entry(b)' = Entry(b)
    BY <2>2, <2>3, Written DEF PollInv
  <2> HIDE DEF s
  <2>5. /\ syncing' \in [PolledAccounts -> Nat]
        /\ a \notin panicked => syncing'[a] = 1
        /\ \A b \in PolledAccounts \ {a} : syncing'[b] = syncing[b]
    BY <2>1, <2>3 DEF PollInv, PollTypeOK, OneSyncPerAccount
  <2>6. PollTypeOK'
    BY <2>3, <2>4, <2>5 DEF PollInv, PollTypeOK
  <2>7. OneSyncPerAccount'
    BY <2>2, <2>3, <2>4, <2>5 DEF PollInv, OneSyncPerAccount
  <2> QED BY <2>6, <2>7 DEF PollInv
<1> QED BY <1>1, <1>2

\* A task ends, well or badly.
LEMMA EndKeeps ==
    ASSUME PollInv, NEW a \in PolledAccounts, SyncEnds(a)
    PROVE  PollInv'
<1>1. PICK s \in PollState :
          /\ s.inProgress = FALSE
          /\ polls' = [polls EXCEPT ![a] = s]
  <2>1. CASE SyncSucceeds(a)
    <3>1. Fresh \in PollState /\ Fresh.inProgress = FALSE
      BY PollAssumption DEF Fresh, PollState
    <3> QED BY <2>1, <3>1 DEF SyncSucceeds
  <2>2. CASE SyncFails(a)
    <3> DEFINE n == Entry(a).failures + 1
    <3>1. n \in Nat \ {0}
      <4>1. Entry(a) \in PollState
        BY EntryIsState DEF PollInv
      <4>2. Entry(a).failures \in Nat
        BY <4>1 DEF PollState
      <4> QED BY <4>2
    <3>2. Failed(n) \in PollState /\ Failed(n).inProgress = FALSE
      BY <3>1, BackoffInRange DEF Failed, PollState
    <3> QED BY <2>2, <3>2 DEF SyncFails
  <2> QED BY <2>1, <2>2 DEF SyncEnds
<1>2. /\ syncing[a] > 0 /\ syncing' = [syncing EXCEPT ![a] = @ - 1]
      /\ UNCHANGED <<enabled, connected, visiting, panicked>>
  BY DEF SyncEnds, SyncSucceeds, SyncFails
<1>3. /\ polls' \in [PolledAccounts -> PollState \cup {Untracked}]
      /\ Entry(a)' = s /\ \A b \in PolledAccounts \ {a} : Entry(b)' = Entry(b)
  BY <1>1, Written DEF PollInv
<1>4. /\ syncing' \in [PolledAccounts -> Nat]
      /\ a \notin panicked => syncing'[a] = 0
      /\ \A b \in PolledAccounts \ {a} : syncing'[b] = syncing[b]
  BY <1>2 DEF PollInv, PollTypeOK, OneSyncPerAccount
<1>5. PollTypeOK'
  BY <1>2, <1>3, <1>4 DEF PollInv, PollTypeOK
<1>6. OneSyncPerAccount'
  BY <1>1, <1>2, <1>3, <1>4 DEF PollInv, OneSyncPerAccount
<1> QED BY <1>5, <1>6 DEF PollInv

\* A task dies: its account is out of what the invariant says.
LEMMA PanicKeeps ==
    ASSUME PollInv, NEW a \in PolledAccounts, SyncPanics(a)
    PROVE  PollInv'
<1>1. /\ syncing' \in [PolledAccounts -> Nat] /\ panicked' = {a} /\ panicked = {}
      /\ \A b \in PolledAccounts \ {a} : syncing'[b] = syncing[b]
      /\ UNCHANGED <<enabled, polls, connected, visiting>>
  BY DEF PollInv, PollTypeOK, SyncPanics
<1> QED BY <1>1 DEF PollInv, PollTypeOK, OneSyncPerAccount, Entry, Tracked

\* Time passes: only the ages of the entries change.
LEMMA ElapseKeeps ==
    ASSUME PollInv, Elapse
    PROVE  PollInv'
<1>1. PICK d \in Lapses :
        polls' = [a \in PolledAccounts |->
                    IF Tracked(a) THEN [polls[a] EXCEPT !.since = Smaller(@ + d, Interval + BackoffCap)]
                    ELSE Untracked]
  BY DEF Elapse
<1>2. ASSUME NEW a \in PolledAccounts
      PROVE  /\ polls'[a] \in PollState \cup {Untracked}
             /\ Entry(a)'.inProgress = Entry(a).inProgress
  <2>1. CASE Tracked(a)
    <3> DEFINE later == Smaller(polls[a].since + d, Interval + BackoffCap)
    <3>1. polls[a] \in PollState /\ Entry(a) = polls[a]
      BY <2>1, EntryIsState DEF PollInv
    <3>2. later \in Nat
      BY <3>1, PollAssumption DEF Smaller, PollState
    <3>3. polls'[a] = [polls[a] EXCEPT !.since = later]
      BY <1>1, <2>1
    <3> HIDE DEF later
    <3>4. polls'[a] \in PollState /\ polls'[a].inProgress = polls[a].inProgress
      BY <3>1, <3>2, <3>3 DEF PollState
    <3>5. polls'[a] # Untracked
      BY <3>4 DEF PollState, Untracked
    <3> QED BY <3>1, <3>4, <3>5 DEF Entry, Tracked
  <2>2. CASE ~Tracked(a)
    <3>1. polls'[a] = Untracked /\ polls[a] = Untracked
      BY <1>1, <2>2 DEF Tracked
    <3> QED BY <3>1 DEF Entry, Tracked
  <2> QED BY <2>1, <2>2
<1>3. polls' \in [PolledAccounts -> PollState \cup {Untracked}]
  BY <1>1, <1>2
<1>4. UNCHANGED <<enabled, connected, visiting, syncing, panicked>>
  BY DEF Elapse
<1>5. PollTypeOK'
  BY <1>3, <1>4 DEF PollInv, PollTypeOK
<1>6. OneSyncPerAccount'
  BY <1>2, <1>4 DEF PollInv, OneSyncPerAccount
<1> QED BY <1>5, <1>6 DEF PollInv

LEMMA PollKept == PollInv /\ [PollNext]_pollVars => PollInv'
<1> SUFFICES ASSUME PollInv, [PollNext]_pollVars PROVE PollInv'
  OBVIOUS
<1>1. CASE Tick \/ SetEnabled \/ Reconnect
  BY <1>1
     DEF PollInv, PollTypeOK, OneSyncPerAccount, Entry, Tracked, Tick, SetEnabled, Reconnect
<1>2. CASE Elapse
  BY <1>2, ElapseKeeps
<1>3. CASE \E a \in PolledAccounts : Visit(a) \/ SyncEnds(a) \/ SyncPanics(a)
  BY <1>3, VisitKeeps, EndKeeps, PanicKeeps
<1>4. CASE UNCHANGED pollVars
  BY <1>4 DEF pollVars, PollInv, PollTypeOK, OneSyncPerAccount, Entry, Tracked
<1> QED BY <1>1, <1>2, <1>3, <1>4 DEF PollNext

\* An account is never synced by two polls at once, and is marked as being polled
\* exactly while its task runs, unless that task died.
THEOREM OnePollAtOnce == PollSpec => []PollInv
BY PollInitially, PollKept, PTL DEF PollSpec

-----------------------------------------------------------------------------
(* The content jobs *)

\* Two workers hold a job only when it was selected twice.
HeldByOne ==
    \A j \in Jobs, v, w \in JobWorkers :
        j \notin raced /\ hands[v].job = j /\ hands[w].job = j => v = w

\* A hand is empty or holds a job that was queued.
HandsOfQueued ==
    \A w \in JobWorkers :
        /\ hands[w].pc = "idle" <=> hands[w] = Empty
        /\ hands[w].pc # "idle" => hands[w].job \in Jobs
        /\ hands[w].pc \in {"mark", "handle"} => hands[w].verdict = "none"

\* What a worker chose for the job in its hand is what the attempts say, and a
\* queued job has an attempt left.
AttemptsLeft ==
    /\ \A w \in JobWorkers :
          LET j == hands[w].job
          IN  hands[w].pc = "fail" =>
                /\ hands[w].verdict \in {"pending", "failed"}
                /\ hands[w].verdict = "failed" => jobs[j].attempts >= JobRetries
                /\ hands[w].verdict = "pending" /\ j \notin raced => jobs[j].attempts < JobRetries
    /\ \A j \in Jobs :
          /\ jobs[j].status = "none" => jobs[j].attempts = 0
          /\ jobs[j].status = "pending" /\ j \notin raced => jobs[j].attempts < JobRetries + jobFaults

\* A running job is in the hand of a worker that marked it.
RunningInHand ==
    \A j \in Jobs :
        jobs[j].status = "running" /\ j \notin stuck \cup raced =>
            \E w \in JobWorkers : hands[w].job = j /\ hands[w].pc # "mark"

JobsInductive ==
    /\ JobsTypeOK /\ AttemptsBounded
    /\ HeldByOne /\ HandsOfQueued /\ AttemptsLeft /\ RunningInHand

\* What a write of one row's status changes.
LEMMA RowWritten ==
    ASSUME JobsTypeOK, NEW j \in Jobs, NEW s \in {"pending", "running", "completed", "failed", "cancelled"},
           SetJob(j, s)
    PROVE  /\ jobs' \in [Jobs -> JobRow]
           /\ jobs'[j].status = s
           /\ \A i \in Jobs : jobs'[i].attempts = jobs[i].attempts
           /\ \A i \in Jobs \ {j} : jobs'[i].status = jobs[i].status
<1>1. jobs' = [jobs EXCEPT ![j] = [jobs[j] EXCEPT !.status = s]] /\ jobs[j] \in JobRow
  BY DEF SetJob, JobsTypeOK
<1>2. jobs' \in [Jobs -> JobRow]
  BY <1>1 DEF JobsTypeOK, JobRow, JobSettled
<1>3. jobs'[j].status = s /\ jobs'[j].attempts = jobs[j].attempts /\ \A i \in Jobs \ {j} : jobs'[i] = jobs[i]
  BY <1>1 DEF JobsTypeOK, JobRow
<1> QED BY <1>2, <1>3

\* What emptying one hand changes.
LEMMA HandEmptied ==
    ASSUME JobsTypeOK, NEW w \in JobWorkers, hands' = [hands EXCEPT ![w] = Empty]
    PROVE  /\ hands' \in [JobWorkers -> [pc : {"idle", "mark", "handle", "fail"}, job : {0} \cup Jobs,
                                         verdict : {"none", "pending", "failed"}]]
           /\ hands'[w] = Empty /\ \A v \in JobWorkers \ {w} : hands'[v] = hands[v]
<1>1. Empty \in [pc : {"idle", "mark", "handle", "fail"}, job : {0} \cup Jobs, verdict : {"none", "pending", "failed"}]
  BY DEF Empty
<1> QED BY <1>1 DEF JobsTypeOK

\* What the update of dequeue leaves in a row.
LEMMA RowMarked ==
    ASSUME NEW row \in JobRow, NEW n \in Nat
    PROVE  LET r == [row EXCEPT !.status = "running", !.attempts = n]
           IN  r \in JobRow /\ r.status = "running" /\ r.attempts = n
BY DEF JobRow

LEMMA ZeroIsNoJob == 0 \notin Jobs
BY DEF Jobs

\* An empty hand stays apart from every job.
LEMMA EmptiedKeeps ==
    ASSUME JobsInductive, NEW w \in JobWorkers, hands' = [hands EXCEPT ![w] = Empty], raced' = raced
    PROVE  HeldByOne' /\ HandsOfQueued'
<1>1. hands'[w] = Empty /\ \A v \in JobWorkers \ {w} : hands'[v] = hands[v]
  BY HandEmptied DEF JobsInductive
<1>2. Empty.job = 0 /\ Empty.pc = "idle"
  BY DEF Empty
<1>3. HeldByOne'
  BY <1>1, <1>2, ZeroIsNoJob DEF JobsInductive, HeldByOne
<1>4. HandsOfQueued'
  BY <1>1, <1>2 DEF JobsInductive, HandsOfQueued
<1> QED BY <1>3, <1>4

LEMMA JobsInitially == JobsInit => JobsInductive
BY JobAssumption DEF JobAssumption, JobsInit, JobsInductive, JobsTypeOK, AttemptsBounded, HeldByOne, HandsOfQueued,
       AttemptsLeft, RunningInHand, JobRow, JobSettled, Empty, Jobs

LEMMA EnqueueKeeps == JobsInductive /\ EnqueueJob => JobsInductive'
<1> SUFFICES ASSUME JobsInductive, NEW j \in Jobs, jobs[j].status = "none", SetJob(j, "pending"),
                    UNCHANGED <<hands, stuck, raced, jobFaults, cancels>>
             PROVE  JobsInductive'
  BY DEF EnqueueJob
<1> USE DEF JobsInductive
<1>1. /\ jobs' \in [Jobs -> JobRow] /\ jobs'[j].status = "pending"
      /\ \A i \in Jobs : jobs'[i].attempts = jobs[i].attempts
      /\ \A i \in Jobs \ {j} : jobs'[i].status = jobs[i].status
  BY RowWritten
<1>2. JobsTypeOK'
  BY <1>1 DEF JobsTypeOK
<1>3. AttemptsBounded'
  BY <1>1 DEF AttemptsBounded
<1>4. HeldByOne' /\ HandsOfQueued'
  BY DEF HeldByOne, HandsOfQueued
<1>5. AttemptsLeft'
  <2>1. jobs[j].attempts = 0 /\ 0 < JobRetries + jobFaults
    BY JobAssumption DEF AttemptsLeft, JobAssumption, JobsTypeOK
  <2>2. jobFaults' = jobFaults /\ hands' = hands /\ raced' = raced
    OBVIOUS
  <2>3. \A w \in JobWorkers : hands[w].pc = "fail" => hands[w].job \in Jobs
    BY DEF HandsOfQueued
  <2> QED BY <1>1, <2>1, <2>2, <2>3 DEF AttemptsLeft
<1>6. RunningInHand'
  BY <1>1 DEF RunningInHand
<1> QED BY <1>2, <1>3, <1>4, <1>5, <1>6

LEMMA SelectJobKeeps ==
    ASSUME JobsInductive, NEW w \in JobWorkers, SelectJob(w)
    PROVE  JobsInductive'
<1> PICK j \in PendingJobs :
       /\ hands' = [hands EXCEPT ![w] = [Empty EXCEPT !.pc = "mark", !.job = j]]
       /\ raced' = IF Holders(j) # {} THEN raced \cup {j} ELSE raced
  BY DEF SelectJob
<1> USE DEF JobsInductive
<1> DEFINE h == [Empty EXCEPT !.pc = "mark", !.job = j]
<1>1. /\ hands[w] = Empty /\ hands[w].pc = "idle" /\ UNCHANGED <<jobs, stuck, jobFaults, cancels>>
      /\ j \in Jobs /\ jobs[j].status = "pending"
  BY DEF SelectJob, PendingJobs, HandsOfQueued
<1>2. /\ hands' = [hands EXCEPT ![w] = h] /\ h.pc = "mark" /\ h.job = j /\ h.verdict = "none"
      /\ h \in [pc : {"idle", "mark", "handle", "fail"}, job : {0} \cup Jobs, verdict : {"none", "pending", "failed"}]
  BY <1>1 DEF Empty
<1> HIDE DEF h
<1>3. hands'[w] = h /\ \A v \in JobWorkers \ {w} : hands'[v] = hands[v]
  BY <1>2 DEF JobsTypeOK
<1>4. raced \subseteq raced' /\ raced' \subseteq raced \cup {j}
  OBVIOUS
<1>5. JobsTypeOK'
  BY <1>1, <1>2, <1>4 DEF JobsTypeOK
<1>6. AttemptsBounded' /\ RunningInHand'
  <2>1. AttemptsBounded'
    BY <1>1, <1>4 DEF AttemptsBounded
  <2>2. RunningInHand'
    <3> SUFFICES ASSUME NEW i \in Jobs, jobs[i].status = "running", i \notin stuck \cup raced'
                 PROVE  \E v \in JobWorkers : hands'[v].job = i /\ hands'[v].pc # "mark"
      BY <1>1 DEF RunningInHand
    <3>1. PICK v \in JobWorkers : hands[v].job = i /\ hands[v].pc # "mark"
      BY <1>4 DEF RunningInHand
    <3>2. v # w
      BY <3>1, <1>1, ZeroIsNoJob DEF Empty
    <3> QED BY <3>1, <3>2, <1>3
  <2> QED BY <2>1, <2>2
<1>7. HeldByOne'
  <2> SUFFICES ASSUME NEW i \in Jobs, NEW u \in JobWorkers, NEW v \in JobWorkers,
                      i \notin raced', hands'[u].job = i, hands'[v].job = i, u # v
               PROVE  FALSE
    BY DEF HeldByOne
  <2>1. CASE u # w /\ v # w
    BY <2>1, <1>3, <1>4 DEF HeldByOne
  <2>2. CASE u = w \/ v = w
    <3>1. i = j /\ \E x \in JobWorkers : hands[x].job = j
      BY <2>2, <1>2, <1>3
    <3>2. j \in raced'
      BY <3>1 DEF Holders
    <3> QED BY <3>1, <3>2
  <2> QED BY <2>1, <2>2
<1>8. HandsOfQueued'
  BY <1>1, <1>2, <1>3 DEF HandsOfQueued, Empty
<1>9. AttemptsLeft'
  BY <1>1, <1>2, <1>3, <1>4 DEF AttemptsLeft
<1> QED BY <1>5, <1>6, <1>7, <1>8, <1>9

LEMMA MarkRunningKeeps ==
    ASSUME JobsInductive, NEW w \in JobWorkers, MarkRunning(w)
    PROVE  JobsInductive'
<1> USE DEF JobsInductive
<1> DEFINE j == hands[w].job
<1>1. /\ hands[w].pc = "mark" /\ UNCHANGED <<stuck, raced, jobFaults, cancels>>
      /\ hands' = [hands EXCEPT ![w] = [hands[w] EXCEPT !.pc = "handle"]]
      /\ j \in Jobs /\ hands[w].verdict = "none"
  BY DEF MarkRunning, HandsOfQueued
<1>2. /\ hands'[w].pc = "handle" /\ hands'[w].job = j /\ hands'[w].verdict = "none"
      /\ \A v \in JobWorkers \ {w} : hands'[v] = hands[v]
      /\ hands' \in [JobWorkers -> [pc : {"idle", "mark", "handle", "fail"}, job : {0} \cup Jobs,
                                    verdict : {"none", "pending", "failed"}]]
  BY <1>1 DEF JobsTypeOK
<1>3. HeldByOne' /\ HandsOfQueued'
  <2>1. HeldByOne'
    <3>1. \A v \in JobWorkers : hands'[v].job = hands[v].job
      BY <1>2
    <3> QED BY <1>1, <3>1 DEF HeldByOne
  <2>2. HandsOfQueued'
    BY <1>1, <1>2 DEF HandsOfQueued, Empty
  <2> QED BY <2>1, <2>2
<1>4. CASE jobs[j].status # "pending"
  <2>1. jobs' = jobs
    BY <1>4 DEF MarkRunning
  <2>2. JobsTypeOK' /\ AttemptsBounded'
    BY <2>1, <1>1, <1>2 DEF JobsTypeOK, AttemptsBounded
  <2>3. AttemptsLeft'
    BY <2>1, <1>1, <1>2 DEF AttemptsLeft
  <2>4. RunningInHand'
    BY <2>1, <1>1, <1>2 DEF RunningInHand
  <2> QED BY <1>3, <2>2, <2>3, <2>4
<1>5. CASE jobs[j].status = "pending"
  <2> DEFINE n == jobs[j].attempts + 1
  <2> DEFINE r == [jobs[j] EXCEPT !.status = "running", !.attempts = n]
  <2>1. jobs' = [jobs EXCEPT ![j] = r] /\ n \in Nat /\ r \in JobRow /\ r.status = "running" /\ r.attempts = n
    <3>1. jobs' = [jobs EXCEPT ![j] = [jobs[j] EXCEPT !.status = "running", !.attempts = @ + 1]]
      BY <1>5 DEF MarkRunning
    <3>2. jobs[j] \in JobRow /\ jobs[j].attempts \in Nat
      BY <1>1 DEF JobsTypeOK, JobRow
    <3>3. r \in JobRow /\ r.status = "running" /\ r.attempts = n
      <4>1. n \in Nat
        BY <3>2
      <4> HIDE DEF n, r
      <4> QED BY <3>2, <4>1, RowMarked DEF r
    <3> QED BY <3>1, <3>2, <3>3
  <2> HIDE DEF r, n
  <2>2. /\ jobs'[j].status = "running" /\ jobs'[j].attempts = n
        /\ \A i \in Jobs \ {j} : jobs'[i] = jobs[i]
        /\ jobs' \in [Jobs -> JobRow]
    BY <2>1, <1>1 DEF JobsTypeOK
  <2>3. JobsTypeOK'
    BY <2>2, <1>1, <1>2 DEF JobsTypeOK
  <2>4. AttemptsBounded'
    <3>1. j \notin raced => jobs[j].attempts < JobRetries + jobFaults
      BY <1>1, <1>5 DEF AttemptsLeft
    <3>2. j \notin raced => n <= JobRetries + jobFaults
      BY <3>1, <1>1, JobAssumption DEF JobAssumption, JobsTypeOK, JobRow, n
    <3> QED BY <2>2, <3>2, <1>1 DEF AttemptsBounded
  <2>5. AttemptsLeft'
    <3>1. \A v \in JobWorkers \ {w} : hands[v].pc = "fail" /\ hands[v].job = j => j \in raced
      BY <1>1 DEF HeldByOne
    <3>2. \A i \in Jobs : jobs'[i].status \in {"none", "pending"} => jobs'[i] = jobs[i]
      BY <2>2
    <3>3. \A i \in Jobs : jobs'[i].attempts >= jobs[i].attempts
      <4> SUFFICES ASSUME NEW i \in Jobs PROVE jobs'[i].attempts >= jobs[i].attempts
        OBVIOUS
      <4>1. jobs[i].attempts \in Nat /\ jobs[j].attempts \in Nat
        BY <1>1 DEF JobsTypeOK, JobRow
      <4> QED BY <2>2, <4>1 DEF n
    <3>4. ASSUME NEW v \in JobWorkers, hands'[v].pc = "fail"
          PROVE  /\ hands'[v].verdict \in {"pending", "failed"}
                 /\ hands'[v].verdict = "failed" => jobs'[hands'[v].job].attempts >= JobRetries
                 /\ hands'[v].verdict = "pending" /\ hands'[v].job \notin raced'
                       => jobs'[hands'[v].job].attempts < JobRetries
      <4>1. v # w /\ hands'[v] = hands[v]
        BY <3>4, <1>2
      <4>2. hands[v].job \in Jobs
        BY <3>4, <4>1 DEF HandsOfQueued
      <4>3. jobs[hands[v].job].attempts \in Nat /\ jobs'[hands[v].job].attempts \in Nat /\ JobRetries \in Nat
        BY <4>2, <2>2, JobAssumption DEF JobAssumption, JobsTypeOK, JobRow
      <4>4. hands'[v].job \notin raced' => jobs'[hands[v].job] = jobs[hands[v].job]
        BY <4>1, <4>2, <3>1, <3>4, <2>2, <1>1
      <4>5. hands[v].verdict = "failed" => jobs'[hands[v].job].attempts >= JobRetries
        <5>1. hands[v].verdict = "failed" => jobs[hands[v].job].attempts >= JobRetries
          BY <4>1, <3>4 DEF AttemptsLeft
        <5> QED BY <5>1, <3>3, <4>2, <4>3
      <4> QED BY <4>1, <4>4, <4>5, <3>4, <1>1 DEF AttemptsLeft
    <3> QED BY <3>2, <3>4, <1>1 DEF AttemptsLeft
  <2>6. RunningInHand'
    <3> SUFFICES ASSUME NEW i \in Jobs, jobs'[i].status = "running", i \notin stuck' \cup raced'
                 PROVE  \E v \in JobWorkers : hands'[v].job = i /\ hands'[v].pc # "mark"
      BY DEF RunningInHand
    <3>1. CASE i = j
      BY <3>1, <1>2
    <3>2. CASE i # j
      BY <3>2, <2>2, <1>1, <1>2 DEF RunningInHand
    <3> QED BY <3>1, <3>2
  <2> QED BY <1>3, <2>3, <2>4, <2>5, <2>6
<1> QED BY <1>4, <1>5

\* A worker whose hand is emptied leaves the other jobs to the others.
LEMMA EmptiedElsewhere ==
    ASSUME JobsInductive, NEW w \in JobWorkers, hands' = [hands EXCEPT ![w] = Empty],
           NEW i \in Jobs, i # hands[w].job, jobs[i].status = "running", i \notin stuck \cup raced
    PROVE  \E v \in JobWorkers : hands'[v].job = i /\ hands'[v].pc # "mark"
<1>1. PICK v \in JobWorkers : hands[v].job = i /\ hands[v].pc # "mark"
  BY DEF JobsInductive, RunningInHand
<1>2. v # w
  BY <1>1
<1>3. hands'[v] = hands[v]
  BY <1>2, HandEmptied DEF JobsInductive
<1> QED BY <1>1, <1>3

\* The worker settles the job in its hand: completed, or what it has chosen.
LEMMA OutcomeKeeps ==
    ASSUME JobsInductive, NEW w \in JobWorkers, HandlerSucceeds(w) \/ WriteVerdict(w)
    PROVE  JobsInductive'
<1> USE DEF JobsInductive
<1> DEFINE j == hands[w].job
           s == IF hands[w].pc = "handle" THEN "completed" ELSE hands[w].verdict
<1>1. /\ hands' = [hands EXCEPT ![w] = Empty] /\ UNCHANGED <<stuck, raced, jobFaults, cancels>>
      /\ hands[w].pc \in {"handle", "fail"} /\ SetJob(j, s)
  BY DEF HandlerSucceeds, WriteVerdict
<1>2. j \in Jobs /\ s \in {"completed", "pending", "failed"}
  BY <1>1 DEF HandsOfQueued, AttemptsLeft
<1> HIDE DEF s
<1>3. /\ jobs' \in [Jobs -> JobRow] /\ jobs'[j].status = s
      /\ \A i \in Jobs : jobs'[i].attempts = jobs[i].attempts
      /\ \A i \in Jobs \ {j} : jobs'[i].status = jobs[i].status
  BY <1>1, <1>2, RowWritten
<1>4. hands'[w] = Empty /\ \A v \in JobWorkers \ {w} : hands'[v] = hands[v]
  BY <1>1, HandEmptied
<1>5. JobsTypeOK'
  BY <1>1, <1>3, HandEmptied DEF JobsTypeOK
<1>6. HeldByOne' /\ HandsOfQueued'
  BY <1>1, EmptiedKeeps
<1>7. /\ s = "failed" => jobs[j].attempts >= JobRetries
      /\ s = "pending" /\ j \notin raced => jobs[j].attempts < JobRetries
  BY <1>1 DEF s, AttemptsLeft
<1>8. AttemptsBounded'
  BY <1>1, <1>3, <1>7 DEF AttemptsBounded
<1>9. AttemptsLeft'
  <2>1. s = "pending" /\ j \notin raced => jobs[j].attempts < JobRetries + jobFaults
    BY <1>7, <1>2, JobAssumption DEF JobAssumption, JobsTypeOK, JobRow
  <2>2. \A i \in Jobs : /\ jobs'[i].status = "none" => jobs'[i].attempts = 0
                        /\ jobs'[i].status = "pending" /\ i \notin raced' => jobs'[i].attempts < JobRetries + jobFaults'
    <3> SUFFICES ASSUME NEW i \in Jobs
                 PROVE  /\ jobs'[i].status = "none" => jobs'[i].attempts = 0
                        /\ jobs'[i].status = "pending" /\ i \notin raced' => jobs'[i].attempts < JobRetries + jobFaults'
      OBVIOUS
    <3>1. CASE i = j
      BY <3>1, <2>1, <1>1, <1>2, <1>3
    <3>2. CASE i # j
      BY <3>2, <1>1, <1>3 DEF AttemptsLeft
    <3> QED BY <3>1, <3>2
  <2>3. ASSUME NEW v \in JobWorkers, hands'[v].pc = "fail"
        PROVE  /\ hands'[v].verdict \in {"pending", "failed"}
               /\ hands'[v].verdict = "failed" => jobs'[hands'[v].job].attempts >= JobRetries
               /\ hands'[v].verdict = "pending" /\ hands'[v].job \notin raced'
                     => jobs'[hands'[v].job].attempts < JobRetries
    <3>1. v # w /\ hands'[v] = hands[v]
      BY <2>3, <1>4 DEF Empty
    <3>2. hands[v].job \in Jobs
      BY <2>3, <3>1 DEF HandsOfQueued
    <3> QED BY <3>1, <3>2, <2>3, <1>1, <1>3 DEF AttemptsLeft
  <2> QED BY <2>2, <2>3 DEF AttemptsLeft
<1>10. RunningInHand'
  <2> SUFFICES ASSUME NEW i \in Jobs, jobs'[i].status = "running", i \notin stuck' \cup raced'
               PROVE  \E v \in JobWorkers : hands'[v].job = i /\ hands'[v].pc # "mark"
    BY DEF RunningInHand
  <2>1. i # j /\ jobs[i].status = "running" /\ i \notin stuck \cup raced
    BY <1>1, <1>2, <1>3
  <2> QED BY <2>1, <1>1, EmptiedElsewhere
<1> QED BY <1>5, <1>6, <1>8, <1>9, <1>10

LEMMA HandlerFailsKeeps ==
    ASSUME JobsInductive, NEW w \in JobWorkers, HandlerFails(w)
    PROVE  JobsInductive'
<1> USE DEF JobsInductive
<1> DEFINE j == hands[w].job
           n == jobs[j].attempts
<1>1. /\ hands[w].pc = "handle" /\ j \in Jobs /\ UNCHANGED <<jobs, stuck, raced, jobFaults, cancels>>
      /\ hands' = [hands EXCEPT ![w] = [hands[w] EXCEPT !.pc = "fail", !.verdict = VerdictAfter(n)]]
  BY DEF HandlerFails, HandsOfQueued
<1>2. /\ VerdictAfter(n) \in {"pending", "failed"} /\ n \in Nat /\ JobRetries \in Nat
      /\ VerdictAfter(n) = "failed" => n >= JobRetries
      /\ VerdictAfter(n) = "pending" => n < JobRetries
  BY <1>1, JobAssumption DEF VerdictAfter, JobAssumption, JobsTypeOK, JobRow
<1> HIDE DEF n
<1>3. /\ hands'[w].pc = "fail" /\ hands'[w].job = j /\ hands'[w].verdict = VerdictAfter(n)
      /\ \A v \in JobWorkers \ {w} : hands'[v] = hands[v]
      /\ hands' \in [JobWorkers -> [pc : {"idle", "mark", "handle", "fail"}, job : {0} \cup Jobs,
                                    verdict : {"none", "pending", "failed"}]]
  BY <1>1, <1>2 DEF JobsTypeOK
<1>4. \A v \in JobWorkers : hands'[v].job = hands[v].job /\ (hands[v].pc # "mark" <=> hands'[v].pc # "mark")
  BY <1>1, <1>3
<1>5. JobsTypeOK' /\ AttemptsBounded'
  BY <1>1, <1>3 DEF JobsTypeOK, AttemptsBounded
<1>6. HeldByOne'
  BY <1>1, <1>4 DEF HeldByOne
<1>7. HandsOfQueued'
  <2>1. hands'[w] # Empty
    BY <1>3 DEF Empty
  <2> QED BY <2>1, <1>1, <1>3 DEF HandsOfQueued
<1>8. RunningInHand'
  BY <1>1, <1>4 DEF RunningInHand
<1>9. AttemptsLeft'
  <2>1. ASSUME NEW v \in JobWorkers, hands'[v].pc = "fail"
        PROVE  /\ hands'[v].verdict \in {"pending", "failed"}
               /\ hands'[v].verdict = "failed" => jobs'[hands'[v].job].attempts >= JobRetries
               /\ hands'[v].verdict = "pending" /\ hands'[v].job \notin raced'
                     => jobs'[hands'[v].job].attempts < JobRetries
    <3>1. CASE v = w
      BY <3>1, <1>1, <1>2, <1>3 DEF n
    <3>2. CASE v # w
      BY <3>2, <2>1, <1>1, <1>3 DEF AttemptsLeft
    <3> QED BY <3>1, <3>2
  <2> QED BY <2>1, <1>1 DEF AttemptsLeft
<1> QED BY <1>5, <1>6, <1>7, <1>8, <1>9

\* An update fails: the job was not marked yet, or it is stuck from now on.
LEMMA LostKeeps ==
    ASSUME JobsInductive, NEW w \in JobWorkers, MarkRunningFails(w) \/ OutcomeLost(w)
    PROVE  JobsInductive'
<1> USE DEF JobsInductive
<1>1. /\ hands' = [hands EXCEPT ![w] = Empty] /\ UNCHANGED <<jobs, raced, cancels>>
      /\ hands[w].pc # "idle" /\ stuck \subseteq stuck' /\ stuck' \subseteq stuck \cup {hands[w].job}
      /\ jobFaults < MaxJobFaults /\ jobFaults' = jobFaults + 1
      /\ hands[w].pc # "mark" => stuck' = stuck \cup {hands[w].job}
  BY DEF MarkRunningFails, OutcomeLost, JobFault
<1>2. hands[w].job \in Jobs
  BY <1>1 DEF HandsOfQueued
<1>3. jobFaults \in Nat /\ MaxJobFaults \in Nat /\ JobRetries \in Nat /\ \A j \in Jobs : jobs[j].attempts \in Nat
  BY JobAssumption DEF JobAssumption, JobsTypeOK, JobRow
<1>4. JobsTypeOK'
  <2>1. jobFaults' \in 0..MaxJobFaults
    BY <1>1, <1>3 DEF JobsTypeOK
  <2>2. stuck' \subseteq Jobs
    BY <1>1, <1>2 DEF JobsTypeOK
  <2> QED BY <2>1, <2>2, <1>1, HandEmptied DEF JobsTypeOK
<1>5. AttemptsBounded'
  <2> SUFFICES ASSUME NEW j \in Jobs PROVE j \notin raced => jobs[j].attempts <= JobRetries + jobFaults'
    BY <1>1 DEF AttemptsBounded
  <2>1. j \notin raced => jobs[j].attempts <= JobRetries + jobFaults
    BY DEF AttemptsBounded
  <2> QED BY <2>1, <1>1, <1>3
<1>6. HeldByOne' /\ HandsOfQueued'
  BY <1>1, EmptiedKeeps
<1>7. AttemptsLeft'
  <2>1. hands'[w] = Empty /\ \A v \in JobWorkers \ {w} : hands'[v] = hands[v]
    BY <1>1, HandEmptied
  <2>2. ASSUME NEW v \in JobWorkers, hands'[v].pc = "fail"
        PROVE  /\ hands'[v].verdict \in {"pending", "failed"}
               /\ hands'[v].verdict = "failed" => jobs'[hands'[v].job].attempts >= JobRetries
               /\ hands'[v].verdict = "pending" /\ hands'[v].job \notin raced'
                     => jobs'[hands'[v].job].attempts < JobRetries
    <3>1. hands'[v] = hands[v]
      BY <2>2, <2>1 DEF Empty
    <3> QED BY <3>1, <2>2, <1>1 DEF AttemptsLeft
  <2>3. ASSUME NEW j \in Jobs
        PROVE  /\ jobs[j].status = "none" => jobs[j].attempts = 0
               /\ jobs[j].status = "pending" /\ j \notin raced => jobs[j].attempts < JobRetries + jobFaults'
    <3>1. /\ jobs[j].status = "none" => jobs[j].attempts = 0
          /\ jobs[j].status = "pending" /\ j \notin raced => jobs[j].attempts < JobRetries + jobFaults
      BY DEF AttemptsLeft
    <3> QED BY <3>1, <1>1, <1>3
  <2> QED BY <2>2, <2>3, <1>1 DEF AttemptsLeft
<1>8. RunningInHand'
  <2> SUFFICES ASSUME NEW i \in Jobs, jobs[i].status = "running", i \notin stuck' \cup raced
               PROVE  \E v \in JobWorkers : hands'[v].job = i /\ hands'[v].pc # "mark"
    BY <1>1 DEF RunningInHand
  <2>1. i \notin stuck \cup raced
    BY <1>1
  <2>2. CASE i # hands[w].job
    BY <2>1, <2>2, <1>1, EmptiedElsewhere
  <2>3. CASE i = hands[w].job
    <3>1. hands[w].pc = "mark"
      BY <2>3, <1>1
    <3>2. PICK v \in JobWorkers : hands[v].job = i /\ hands[v].pc # "mark"
      BY <2>1 DEF RunningInHand
    <3>3. v # w /\ v = w
      BY <3>1, <3>2, <2>3, <2>1 DEF HeldByOne
    <3> QED BY <3>3
  <2> QED BY <2>2, <2>3
<1> QED BY <1>4, <1>5, <1>6, <1>7, <1>8

LEMMA CancelKeeps ==
    ASSUME JobsInductive, NEW j \in Jobs, CancelJob(j)
    PROVE  JobsInductive'
<1> USE DEF JobsInductive
<1>1. SetJob(j, "cancelled") /\ UNCHANGED <<hands, stuck, raced, jobFaults>> /\ cancels < MaxCancels /\ cancels' = cancels + 1
  BY DEF CancelJob
<1>2. /\ jobs' \in [Jobs -> JobRow] /\ jobs'[j].status = "cancelled"
      /\ \A i \in Jobs : jobs'[i].attempts = jobs[i].attempts
      /\ \A i \in Jobs \ {j} : jobs'[i].status = jobs[i].status
  BY <1>1, RowWritten
<1>3. JobsTypeOK'
  BY <1>1, <1>2, JobAssumption DEF JobAssumption, JobsTypeOK
<1>4. AttemptsBounded'
  BY <1>1, <1>2 DEF AttemptsBounded
<1>5. HeldByOne' /\ HandsOfQueued'
  BY <1>1 DEF HeldByOne, HandsOfQueued
<1>6. AttemptsLeft'
  <2>1. \A w \in JobWorkers : hands[w].pc = "fail" => hands[w].job \in Jobs
    BY DEF HandsOfQueued
  <2> QED BY <2>1, <1>1, <1>2 DEF AttemptsLeft
<1>7. RunningInHand'
  BY <1>1, <1>2 DEF RunningInHand
<1> QED BY <1>3, <1>4, <1>5, <1>6, <1>7

LEMMA RestartKeeps == JobsInductive /\ Restart => JobsInductive'
<1> SUFFICES ASSUME JobsInductive, Restart PROVE JobsInductive'
  OBVIOUS
<1> USE DEF JobsInductive
<1>1. /\ hands' = [w \in JobWorkers |-> Empty] /\ stuck' = {} /\ UNCHANGED <<raced, cancels>>
      /\ jobFaults < MaxJobFaults /\ jobFaults' = jobFaults + 1 /\ jobs' = ResumeAbandoned
  BY DEF Restart, JobFault
<1>2. jobFaults \in Nat /\ MaxJobFaults \in Nat /\ JobRetries \in Nat /\ \A j \in Jobs : jobs[j].attempts \in Nat
  BY JobAssumption DEF JobAssumption, JobsTypeOK, JobRow
<1>3. jobs' \in [Jobs -> JobRow]
  <2> SUFFICES ASSUME NEW j \in Jobs
               PROVE  (IF jobs[j].status # "running" THEN jobs[j] ELSE [jobs[j] EXCEPT !.status = "pending"]) \in JobRow
    BY <1>1 DEF ResumeAbandoned
  <2>1. jobs[j] \in JobRow
    BY DEF JobsTypeOK
  <2> QED BY <2>1 DEF JobRow
<1>4. ASSUME NEW j \in Jobs
      PROVE  /\ jobs'[j].attempts = jobs[j].attempts /\ jobs'[j].status # "running"
             /\ jobs[j].status # "running" => jobs'[j].status = jobs[j].status
             /\ jobs[j].status = "running" => jobs'[j].status = "pending"
  <2>1. jobs[j] \in JobRow
    BY DEF JobsTypeOK
  <2>2. jobs'[j] = IF jobs[j].status # "running" THEN jobs[j] ELSE [jobs[j] EXCEPT !.status = "pending"]
    BY <1>1 DEF ResumeAbandoned
  <2> QED BY <2>1, <2>2 DEF JobRow
<1>5. JobsTypeOK'
  BY <1>1, <1>2, <1>3 DEF JobsTypeOK, Empty
<1>6. \A w \in JobWorkers : hands'[w] = Empty /\ hands'[w].pc = "idle" /\ hands'[w].job = 0
  BY <1>1 DEF Empty
<1>7. HeldByOne' /\ HandsOfQueued' /\ RunningInHand'
  BY <1>4, <1>6, ZeroIsNoJob DEF HeldByOne, HandsOfQueued, RunningInHand
<1>8. ASSUME NEW j \in Jobs
      PROVE  /\ j \notin raced => jobs[j].attempts <= JobRetries + jobFaults
             /\ jobs[j].status = "failed" => jobs[j].attempts >= JobRetries
  BY DEF AttemptsBounded
<1>9. AttemptsBounded'
  <2> SUFFICES ASSUME NEW j \in Jobs
               PROVE  /\ j \notin raced => jobs'[j].attempts <= JobRetries + jobFaults'
                      /\ jobs'[j].status = "failed" => jobs'[j].attempts >= JobRetries
    BY <1>1 DEF AttemptsBounded
  <2> QED BY <1>1, <1>2, <1>4, <1>8
<1>10. AttemptsLeft'
  <2>1. ASSUME NEW j \in Jobs
        PROVE  /\ jobs'[j].status = "none" => jobs'[j].attempts = 0
               /\ jobs'[j].status = "pending" /\ j \notin raced' => jobs'[j].attempts < JobRetries + jobFaults'
    <3>1. jobs[j].status = "none" => jobs[j].attempts = 0
      BY DEF AttemptsLeft
    <3> QED BY <3>1, <1>1, <1>2, <1>4, <1>8
  <2> QED BY <2>1, <1>6 DEF AttemptsLeft
<1> QED BY <1>5, <1>7, <1>9, <1>10

LEMMA JobsStutter == JobsInductive /\ UNCHANGED contentVars => JobsInductive'
BY DEF contentVars, JobsInductive, JobsTypeOK, AttemptsBounded, HeldByOne, HandsOfQueued, AttemptsLeft, RunningInHand

LEMMA JobsStep == JobsInductive /\ [JobsNext]_contentVars => JobsInductive'
<1> SUFFICES ASSUME JobsInductive, [JobsNext]_contentVars PROVE JobsInductive'
  OBVIOUS
<1>1. CASE EnqueueJob
  BY <1>1, EnqueueKeeps
<1>2. CASE Restart
  BY <1>2, RestartKeeps
<1>3. ASSUME NEW j \in Jobs, CancelJob(j) PROVE JobsInductive'
  BY <1>3, CancelKeeps
<1>4. ASSUME NEW w \in JobWorkers, Work(w) \/ MarkRunningFails(w) \/ OutcomeLost(w) PROVE JobsInductive'
  BY <1>4, SelectJobKeeps, MarkRunningKeeps, OutcomeKeeps, HandlerFailsKeeps, LostKeeps DEF Work
<1>5. CASE UNCHANGED contentVars
  BY <1>5, JobsStutter
<1> QED BY <1>1, <1>2, <1>3, <1>4, <1>5 DEF JobsNext

\* A row in the running state is in exactly one hand.
LEMMA RunningIsHeldOnce == JobsInductive => RunningIsHeld
<1> SUFFICES ASSUME JobsInductive, NEW j \in Jobs, jobs[j].status = "running", j \notin stuck \cup raced
             PROVE  Cardinality({w \in Holders(j) : hands[w].pc # "mark"}) = 1
  BY DEF RunningIsHeld
<1>1. PICK w \in JobWorkers : hands[w].job = j /\ hands[w].pc # "mark"
  BY DEF JobsInductive, RunningInHand
<1>2. {v \in Holders(j) : hands[v].pc # "mark"} = {w}
  BY <1>1 DEF JobsInductive, HeldByOne, Holders
<1> QED BY <1>2, FS_Singleton

\* The job table under workers, cancellations and restarts, for any number of
\* jobs and workers: a job that no two workers had selected at once is in one
\* hand while it runs, and is handled no more often than its retries and the
\* restarts allow (content/jobs.rs:245-360).
THEOREM JobTableHolds == JobsSpec => []JobsInv
<1>1. JobsInit => JobsInductive
  BY JobsInitially
<1>2. JobsInductive /\ [JobsNext]_contentVars => JobsInductive'
  BY JobsStep
<1>3. JobsInductive => JobsInv
  BY RunningIsHeldOnce DEF JobsInductive, JobsInv
<1> QED BY <1>1, <1>2, <1>3, PTL DEF JobsSpec

\* A step of the table leaves a cancelled job alone that no worker has.
LEMMA CancelledStep ==
    ASSUME JobsInductive, [JobsNext]_contentVars, NEW j \in Jobs,
           jobs[j].status = "cancelled", Holders(j) = {}
    PROVE  jobs'[j].status = "cancelled" /\ Holders(j)' = {}
<1> USE DEF JobsInductive
<1>1. \A w \in JobWorkers : hands[w].job # j
  BY DEF Holders
<1> SUFFICES jobs'[j].status = "cancelled" /\ \A w \in JobWorkers : hands'[w].job # j
  BY DEF Holders
<1>2. CASE EnqueueJob
  <2>1. PICK i \in Jobs : jobs[i].status = "none" /\ SetJob(i, "pending") /\ hands' = hands
    BY <1>2 DEF EnqueueJob
  <2> QED BY <2>1, <1>1, RowWritten
<1>3. CASE Restart
  <2>1. jobs'[j] = jobs[j]
    BY <1>3 DEF Restart, ResumeAbandoned
  <2> QED BY <2>1, <1>3, ZeroIsNoJob DEF Restart, Empty
<1>4. ASSUME NEW i \in Jobs, CancelJob(i)
      PROVE  jobs'[j].status = "cancelled" /\ \A w \in JobWorkers : hands'[w].job # j
  BY <1>1, <1>4, RowWritten DEF CancelJob
<1>5. ASSUME NEW w \in JobWorkers, SelectJob(w)
      PROVE  jobs'[j].status = "cancelled" /\ \A v \in JobWorkers : hands'[v].job # j
  <2>1. PICK i \in PendingJobs : hands' = [hands EXCEPT ![w] = [Empty EXCEPT !.pc = "mark", !.job = i]]
    BY <1>5 DEF SelectJob
  <2>2. i # j /\ jobs' = jobs
    BY <1>5 DEF PendingJobs, SelectJob
  <2>3. \A v \in JobWorkers : hands'[v].job = IF v = w THEN i ELSE hands[v].job
    BY <2>1 DEF JobsTypeOK, Empty
  <2> QED BY <2>2, <2>3, <1>1
<1>6. ASSUME NEW w \in JobWorkers, MarkRunning(w) \/ HandlerFails(w)
      PROVE  jobs'[j].status = "cancelled" /\ \A v \in JobWorkers : hands'[v].job # j
  <2>1. \A v \in JobWorkers : hands'[v].job = hands[v].job
    BY <1>6 DEF MarkRunning, HandlerFails, JobsTypeOK
  <2>2. jobs'[j] = jobs[j]
    BY <1>1, <1>6 DEF MarkRunning, HandlerFails, JobsTypeOK
  <2> QED BY <2>1, <2>2, <1>1
<1>7. ASSUME NEW w \in JobWorkers, HandlerSucceeds(w) \/ WriteVerdict(w)
      PROVE  jobs'[j].status = "cancelled" /\ \A v \in JobWorkers : hands'[v].job # j
  <2>1. hands' = [hands EXCEPT ![w] = Empty] /\ jobs'[j].status = jobs[j].status
    <3>1. CASE HandlerSucceeds(w)
      <4>1. hands[w].job \in Jobs /\ hands[w].job # j
        BY <3>1, <1>1 DEF HandsOfQueued, HandlerSucceeds
      <4> QED BY <4>1, <3>1, RowWritten DEF HandlerSucceeds
    <3>2. CASE WriteVerdict(w)
      <4>1. hands[w].job \in Jobs /\ hands[w].job # j /\ hands[w].verdict \in {"pending", "failed"}
        BY <3>2, <1>1 DEF HandsOfQueued, WriteVerdict, AttemptsLeft
      <4> QED BY <4>1, <3>2, RowWritten DEF WriteVerdict
    <3> QED BY <1>7, <3>1, <3>2
  <2> QED BY <2>1, <1>1, HandEmptied, ZeroIsNoJob DEF Empty
<1>8. ASSUME NEW w \in JobWorkers, MarkRunningFails(w) \/ OutcomeLost(w)
      PROVE  jobs'[j].status = "cancelled" /\ \A v \in JobWorkers : hands'[v].job # j
  <2>1. hands' = [hands EXCEPT ![w] = Empty] /\ jobs' = jobs
    BY <1>8 DEF MarkRunningFails, OutcomeLost
  <2> QED BY <2>1, <1>1, HandEmptied, ZeroIsNoJob DEF Empty
<1>9. CASE UNCHANGED contentVars
  BY <1>1, <1>9 DEF contentVars
<1> QED BY <1>2, <1>3, <1>4, <1>5, <1>6, <1>7, <1>8, <1>9 DEF JobsNext, Work

\* A job cancelled before any worker has it is never handled or queued again,
\* whatever retries and restarts do (content/jobs.rs:343-360).
THEOREM CancelledIsFinal == JobsSpec => CancelledStays
<1>1. JobsInit => JobsInductive
  BY JobsInitially
<1>2. JobsInductive /\ [JobsNext]_contentVars => JobsInductive'
  BY JobsStep
<1>3. JobsInductive /\ [JobsNext]_contentVars =>
          [\A j \in Jobs : jobs[j].status = "cancelled" /\ Holders(j) = {} =>
              jobs'[j].status = "cancelled" /\ Holders(j)' = {}]_contentVars
  BY CancelledStep
<1> QED BY <1>1, <1>2, <1>3, PTL DEF JobsSpec, CancelledStays

-----------------------------------------------------------------------------
(* The offline queue *)

\* What a worker has in hand fits the place it is at.
InHand ==
    \A w \in Workers :
        /\ work[w].unmarked \subseteq work[w].todo /\ work[w].todo \subseteq work[w].batch
        /\ work[w].pc # "mark" => work[w].unmarked = {}
        /\ work[w].pc = "idle" => work[w].batch = {}
        /\ work[w].pc \in {"answer", "fail"} => work[w].todo # {} /\ w \in Dispatchers
        /\ work[w].pc \in {"save", "progress"} => w \in Schedulers

\* Operations are enqueued one after the other.
EnqueuedInOrder ==
    /\ \A o, p \in Ops : o < p /\ rows[o].status = "none" => rows[p].status = "none"
    /\ \A w \in Workers : \A o \in work[w].todo : rows[o].status # "none"

\* No operation is in two hands, and its row says where it is.
HandsApart ==
    /\ \A v, w \in Workers : v # w => work[v].todo \cap work[w].todo = {}
    /\ \A w \in Workers :
          /\ \A o \in work[w].unmarked : rows[o].status = "pending"
          /\ \A o \in Held(w) : rows[o].status = "processing"
    /\ \A o \in Ops : rows[o].status = "processing" =>
          o \in stranded \/ \E w \in Workers : o \in Held(w)

\* The provider has the first operation of the worker.
AtProvider(w, o) == work[w].pc \in {"answer", "fail"} /\ o = Least(work[w].todo)

\* The retries of a row are its attempts, but for the attempt under way.
AttemptsCounted ==
    /\ \A o \in Ops :
          /\ attempts[o] <= MaxRetries
          /\ rows[o].status = "failed" => attempts[o] = MaxRetries
          /\ rows[o].status = "none" => attempts[o] = 0 /\ rows[o].retries = 0
          /\ rows[o].status = "pending" => attempts[o] = rows[o].retries /\ rows[o].retries < MaxRetries
    /\ \A w \in Workers : \A o \in Held(w) :
          /\ rows[o].retries < MaxRetries
          /\ attempts[o] = IF AtProvider(w, o) THEN rows[o].retries + 1 ELSE rows[o].retries
          /\ AtProvider(w, o) /\ work[w].pc = "fail" => work[w].read = rows[o].retries

\* A checkpoint counts completed operations only.
Honest(job) ==
    LET done == {o \in job.of : rows[o].status = "completed"}
    IN  job.processed <= Cardinality(done) /\ (job.state = "completed" => done = job.of)

\* What a scheduler has behind it in its batch is completed.
BatchBehind ==
    \A w \in Schedulers :
        /\ \A o \in work[w].batch \ work[w].todo : rows[o].status = "completed"
        /\ Honest(checkpoint[w])

Untried(o) == rows[o].status = "pending" /\ rows[o].retries = 0

\* An operation that was never tried is not passed over, in the table or in a batch.
NotPassedOver ==
    \A o, p \in Ops : o < p /\ Untried(o) =>
        /\ rows[p].status \in {"none", "pending"}
        /\ \A w \in Workers : p \in work[w].unmarked => o \in work[w].unmarked

Alone == HandsApart /\ AttemptsCounted /\ BatchBehind /\ NotPassedOver

QueueInductive ==
    /\ QueueTypeOK /\ LastWriterWins /\ InHand /\ EnqueuedInOrder
    /\ ~shared => Alone

Hand == [pc : {"idle", "mark", "save", "op", "progress", "answer", "fail"},
         unmarked : SUBSET Ops, todo : SUBSET Ops, batch : SUBSET Ops, read : Nat]

LEMMA OpsFinite == IsFiniteSet(Ops) /\ \A S \in SUBSET Ops : IsFiniteSet(S) /\ Cardinality(S) \in Nat
<1>1. IsFiniteSet(Ops)
  BY QueueAssumption, FS_Interval DEF Ops, QueueAssumption
<1> QED BY <1>1, FS_Subset, FS_CardinalityType

\* A set of operations that is not empty has a first one.
LEMMA LeastIsFirst ==
    ASSUME NEW S \in SUBSET Ops, S # {}
    PROVE  Least(S) \in S /\ \A p \in S : Least(S) <= p
<1>1. \A o \in S : o \in Nat
  BY DEF Ops
<1>2. PICK o \in S : \A p \in S : <<p, o>> \notin OpToRel(<, Nat)
  BY <1>1, NatLessThanWellFounded, WFMin
<1>3. \A p \in S : o <= p
  <2> SUFFICES ASSUME NEW p \in S PROVE o <= p
    OBVIOUS
  <2>1. ~(p < o)
    BY <1>1, <1>2 DEF OpToRel
  <2> QED BY <2>1, <1>1
<1> QED BY <1>3 DEF Least

LEMMA FirstTakesInOrder ==
    ASSUME NEW S \in SUBSET Ops, NEW n \in Nat
    PROVE  /\ First(S, n) \subseteq S
           /\ \A p \in First(S, n), o \in S : o < p => o \in First(S, n)
<1>1. First(S, n) \subseteq S
  BY DEF First
<1>2. ASSUME NEW p \in First(S, n), NEW o \in S, o < p
      PROVE  o \in First(S, n)
  <2> DEFINE upto(x) == {q \in S : q <= x}
  <2>1. upto(o) \subseteq upto(p) /\ upto(p) \in SUBSET Ops
    <3>1. o \in Int /\ p \in Int /\ \A q \in S : q \in Int
      <4>1. \A q \in Ops : q \in Int
        BY DEF Ops
      <4>2. p \in S
        BY <1>1
      <4> QED BY <4>1, <4>2
    <3>2. \A q \in S : q <= o => q <= p
      BY <3>1, <1>2
    <3> QED BY <3>2
  <2>2. IsFiniteSet(upto(p)) /\ Cardinality(upto(p)) <= n
    BY <2>1, OpsFinite DEF First
  <2>3. Cardinality(upto(o)) <= Cardinality(upto(p)) /\ Cardinality(upto(o)) \in Nat /\ Cardinality(upto(p)) \in Nat
    BY <2>1, <2>2, OpsFinite, FS_Subset
  <2> QED BY <2>2, <2>3 DEF First
<1> QED BY <1>1, <1>2

\* One row and one hand change, the others stay.
RowSet(o, r) == rows' = [rows EXCEPT ![o] = r]

LEMMA StatusSet ==
    ASSUME QueueTypeOK, NEW o \in Ops, NEW s \in {"pending", "processing", "completed", "failed", "conflict"},
           SetStatus(o, s)
    PROVE  \E r \in Row : RowSet(o, r) /\ r.status = s /\ r.retries = rows[o].retries
<1> DEFINE r == [rows[o] EXCEPT !.status = s]
<1>1. rows[o] \in Row
  BY DEF QueueTypeOK
<1>2. r \in Row /\ r.status = s /\ r.retries = rows[o].retries
  BY <1>1 DEF Row, Settled
<1>3. RowSet(o, r)
  BY DEF RowSet, SetStatus
<1> QED BY <1>2, <1>3

LEMMA RowSets ==
    ASSUME QueueTypeOK, NEW o \in Ops, NEW r \in Row, RowSet(o, r)
    PROVE  rows' \in [Ops -> Row] /\ rows'[o] = r /\ \A p \in Ops \ {o} : rows'[p] = rows[p]
BY DEF QueueTypeOK, RowSet

HandSet(w, h) == work' = [work EXCEPT ![w] = h]

LEMMA HandSets ==
    ASSUME QueueTypeOK, NEW w \in Workers, NEW h \in Hand, HandSet(w, h)
    PROVE  /\ work' \in [Workers -> Hand]
           /\ work'[w] = h /\ \A v \in Workers \ {w} : work'[v] = work[v]
BY DEF QueueTypeOK, HandSet, Hand

LEMMA IdleIsHand == Idle \in Hand /\ Idle.pc = "idle" /\ Idle.unmarked = {} /\ Idle.todo = {} /\ Idle.batch = {}
BY DEF Idle, Hand

LEMMA HandTyped ==
    ASSUME QueueTypeOK, NEW w \in Workers
    PROVE  /\ work[w] \in Hand
           /\ work[w].unmarked \subseteq Ops /\ work[w].todo \subseteq Ops /\ work[w].batch \subseteq Ops
           /\ work[w].read \in Nat
BY DEF QueueTypeOK, Hand

LEMMA QueueInitially == QueueInit => QueueInductive
<1> SUFFICES ASSUME QueueInit PROVE QueueInductive
  OBVIOUS
<1> USE DEF QueueInit
<1>1. \A w \in Workers : work[w] = Idle
  OBVIOUS
<1>2. QueueTypeOK
  <2>1. rows \in [Ops -> Row] /\ conflicts \in [Ops -> Conflict \cup {NoConflict}]
    BY DEF Row
  <2>2. work \in [Workers -> Hand] /\ checkpoint \in [Schedulers -> Job]
    BY IdleIsHand DEF Job, NoJob
  <2>3. backoff \in [Schedulers -> 0..Larger(1000, MaxBackoff)] /\ faults \in 0..MaxFaults
    BY QueueAssumption DEF Larger, QueueAssumption
  <2>4. attempts \in [Ops -> Nat] /\ stranded \subseteq Ops /\ shared \in BOOLEAN
    OBVIOUS
  <2> QED BY <2>1, <2>2, <2>3, <2>4 DEF QueueTypeOK, Hand
<1>3. LastWriterWins
  BY DEF LastWriterWins, NoConflict
<1>4. InHand /\ EnqueuedInOrder
  BY <1>1, IdleIsHand DEF InHand, EnqueuedInOrder
<1>5. HandsApart /\ NotPassedOver
  BY <1>1, IdleIsHand DEF HandsApart, NotPassedOver, Held, Untried
<1>6. AttemptsCounted
  BY <1>1, IdleIsHand, QueueAssumption DEF AttemptsCounted, Held, QueueAssumption
<1>7. BatchBehind
  <2> SUFFICES ASSUME NEW w \in Schedulers PROVE Honest(checkpoint[w])
    BY <1>1, IdleIsHand DEF BatchBehind, Workers
  <2>1. checkpoint[w].of = {} /\ checkpoint[w].processed = 0 /\ checkpoint[w].state = "none"
    BY DEF NoJob
  <2>2. {o \in checkpoint[w].of : rows[o].status = "completed"} = {}
    BY <2>1
  <2>3. Cardinality({o \in checkpoint[w].of : rows[o].status = "completed"}) = 0
    BY <2>2, FS_EmptySet
  <2> QED BY <2>1, <2>2, <2>3 DEF Honest
<1> QED BY <1>2, <1>3, <1>4, <1>5, <1>6, <1>7 DEF QueueInductive, Alone

\* As long as what is completed stays so, a checkpoint stays honest.
LEMMA HonestStays ==
    ASSUME NEW job \in Job, Honest(job),
           \A o \in Ops : rows[o].status = "completed" => rows'[o].status = "completed"
    PROVE  Honest(job)'
<1> DEFINE done == {o \in job.of : rows[o].status = "completed"}
           doneNow == {o \in job.of : rows'[o].status = "completed"}
<1>1. job.of \in SUBSET Ops /\ job.processed \in Nat
  BY DEF Job
<1>2. done \subseteq doneNow /\ doneNow \subseteq job.of
  BY <1>1
<1>3. done \in SUBSET Ops /\ doneNow \in SUBSET Ops
  BY <1>1
<1>4. Cardinality(done) <= Cardinality(doneNow) /\ Cardinality(done) \in Nat /\ Cardinality(doneNow) \in Nat
  BY <1>2, <1>3, OpsFinite, FS_Subset
<1>5. job.processed <= Cardinality(done) /\ (job.state = "completed" => done = job.of)
  BY DEF Honest
<1> HIDE DEF done, doneNow
<1>6. job.processed <= Cardinality(doneNow)
  BY <1>1, <1>4, <1>5
<1>7. job.state = "completed" => doneNow = job.of
  BY <1>2, <1>5
<1> QED BY <1>6, <1>7 DEF Honest, doneNow

LEMMA EnqueueOp == QueueInductive /\ Enqueue => QueueInductive'
<1> SUFFICES ASSUME QueueInductive, Enqueue PROVE QueueInductive'
  OBVIOUS
<1> USE DEF QueueInductive
<1> DEFINE S == {x \in Ops : rows[x].status = "none"}
           o == Least(S)
<1>1. o \in Ops /\ rows[o].status = "none" /\ \A p \in Ops : rows[p].status = "none" => o <= p
  <2>1. S \in SUBSET Ops /\ S # {}
    BY DEF Enqueue
  <2> HIDE DEF S
  <2>2. o \in S /\ \A p \in S : o <= p
    BY <2>1, LeastIsFirst
  <2> QED BY <2>2 DEF S
<1>2. /\ SetStatus(o, "pending")
      /\ UNCHANGED <<conflicts, work, checkpoint, backoff, stranded, attempts, shared, faults>>
  BY DEF Enqueue
<1> HIDE DEF o
<1>3. PICK r \in Row : RowSet(o, r) /\ r.status = "pending" /\ r.retries = rows[o].retries
  BY <1>1, <1>2, StatusSet
<1>4. rows' \in [Ops -> Row] /\ rows'[o] = r /\ \A p \in Ops \ {o} : rows'[p] = rows[p]
  BY <1>1, <1>3, RowSets
<1>5. QueueTypeOK'
  BY <1>2, <1>4 DEF QueueTypeOK
<1>6. LastWriterWins' /\ InHand'
  BY <1>2 DEF LastWriterWins, InHand
<1>7. \A w \in Workers : o \notin work[w].todo /\ o \notin work[w].unmarked
  BY <1>1 DEF EnqueuedInOrder, InHand
<1>8. EnqueuedInOrder'
  <2>1. \A p \in Ops : p \in Int
    BY DEF Ops
  <2>2. ASSUME NEW x \in Ops, NEW y \in Ops, x < y, rows'[x].status = "none"
        PROVE  rows'[y].status = "none"
    <3>1. x # o /\ rows[x].status = "none"
      BY <2>2, <1>3, <1>4
    <3>2. rows[y].status = "none" /\ y # o
      BY <3>1, <2>1, <2>2, <1>1 DEF EnqueuedInOrder
    <3> QED BY <3>2, <1>4
  <2>3. ASSUME NEW w \in Workers, NEW x \in work'[w].todo
        PROVE  rows'[x].status # "none"
    <3>1. x \in Ops /\ x # o /\ rows[x].status # "none"
      BY <2>3, <1>2, <1>7, HandTyped DEF EnqueuedInOrder
    <3> QED BY <3>1, <1>4
  <2> QED BY <2>2, <2>3 DEF EnqueuedInOrder
<1>9. ASSUME Alone, ~shared PROVE Alone'
  <2> USE DEF Alone
  <2>1. HandsApart'
    BY <1>2, <1>3, <1>4, <1>7, <1>9, HandTyped DEF HandsApart, Held
  <2>2. AttemptsCounted'
    <3>1. attempts[o] = 0 /\ r.retries = 0 /\ 0 < MaxRetries
      BY <1>1, <1>3, <1>9, QueueAssumption DEF AttemptsCounted, QueueAssumption
    <3>2. ASSUME NEW p \in Ops
          PROVE  /\ attempts'[p] <= MaxRetries
                 /\ rows'[p].status = "failed" => attempts'[p] = MaxRetries
                 /\ rows'[p].status = "none" => attempts'[p] = 0 /\ rows'[p].retries = 0
                 /\ rows'[p].status = "pending" => attempts'[p] = rows'[p].retries /\ rows'[p].retries < MaxRetries
      <4>1. CASE p = o
        BY <4>1, <3>1, <1>2, <1>3, <1>4, <1>9 DEF AttemptsCounted
      <4>2. CASE p # o
        BY <4>2, <1>2, <1>4, <1>9 DEF AttemptsCounted
      <4> QED BY <4>1, <4>2
    <3>3. ASSUME NEW w \in Workers, NEW p \in work'[w].todo \ work'[w].unmarked
          PROVE  /\ rows'[p].retries < MaxRetries
                 /\ attempts'[p] = IF AtProvider(w, p)' THEN rows'[p].retries + 1 ELSE rows'[p].retries
                 /\ AtProvider(w, p)' /\ work'[w].pc = "fail" => work'[w].read = rows'[p].retries
      <4>1. p \in Held(w) /\ p # o /\ p \in Ops
        BY <3>3, <1>2, <1>7, HandTyped DEF Held
      <4>2. AtProvider(w, p)' <=> AtProvider(w, p)
        BY <1>2 DEF AtProvider
      <4> QED BY <4>1, <4>2, <1>2, <1>4, <1>9 DEF AttemptsCounted
    <3> QED BY <3>2, <3>3 DEF AttemptsCounted, Held
  <2>3. BatchBehind'
    <3> SUFFICES ASSUME NEW w \in Schedulers
                 PROVE  /\ \A p \in work[w].batch \ work[w].todo : rows'[p].status = "completed"
                        /\ Honest(checkpoint[w])'
      BY <1>2 DEF BatchBehind
    <3>1. \A p \in Ops : rows[p].status = "completed" => rows'[p].status = "completed"
      BY <1>1, <1>4
    <3>2. checkpoint[w] \in Job /\ Honest(checkpoint[w])
      BY <1>9 DEF BatchBehind, QueueTypeOK
    <3>3. Honest(checkpoint[w])'
      BY <3>1, <3>2, <1>2, HonestStays
    <3>4. w \in Workers
      BY DEF Workers
    <3> QED BY <3>1, <3>3, <3>4, <1>9, HandTyped DEF BatchBehind
  <2>4. NotPassedOver'
    <3> SUFFICES ASSUME NEW x \in Ops, NEW y \in Ops, x < y, Untried(x)'
                 PROVE  /\ rows'[y].status \in {"none", "pending"}
                        /\ \A w \in Workers : y \in work[w].unmarked => x \in work[w].unmarked
      BY <1>2 DEF NotPassedOver
    <3>1. CASE x = o
      <4>1. rows[y].status = "none" /\ y # o
        BY <3>1, <1>1 DEF EnqueuedInOrder, Ops
      <4> QED BY <4>1, <1>4 DEF EnqueuedInOrder, InHand
    <3>2. CASE x # o
      <4>1. Untried(x)
        BY <3>2, <1>4 DEF Untried
      <4> QED BY <4>1, <1>1, <1>3, <1>4, <1>9 DEF NotPassedOver
    <3> QED BY <3>1, <3>2
  <2> QED BY <2>1, <2>2, <2>3, <2>4
<1> QED BY <1>2, <1>5, <1>6, <1>8, <1>9

LEMMA SelectOps ==
    ASSUME QueueInductive, NEW w \in Workers, Select(w)
    PROVE  QueueInductive'
<1> USE DEF QueueInductive
<1> DEFINE B == First(Pending, Limit[w])
           h == [Idle EXCEPT !.pc = "mark", !.unmarked = B, !.todo = B, !.batch = B]
<1>1. /\ work[w].pc = "idle" /\ work' = [work EXCEPT ![w] = h]
      /\ UNCHANGED <<rows, stranded, attempts, conflicts, checkpoint, backoff, faults>>
      /\ shared' = (shared \/ \E v \in Workers \ {w} : work[v].unmarked # {})
  BY DEF Select
<1>2. /\ B \subseteq Pending /\ Pending \subseteq Ops
      /\ \A p \in B, x \in Pending : x < p => x \in B
  <2>1. Pending \in SUBSET Ops /\ Limit[w] \in Nat
    BY QueueAssumption DEF Pending, QueueAssumption
  <2> QED BY <2>1, FirstTakesInOrder
<1> HIDE DEF B
<1>3. h \in Hand /\ h.pc = "mark" /\ h.unmarked = B /\ h.todo = B /\ h.batch = B
  BY <1>2 DEF Hand, Idle
<1> HIDE DEF h
<1>4. work' \in [Workers -> Hand] /\ work'[w] = h /\ \A v \in Workers \ {w} : work'[v] = work[v]
  BY <1>1, <1>3, HandSets DEF HandSet
<1>5. QueueTypeOK'
  BY <1>1, <1>4 DEF QueueTypeOK, Hand
<1>6. LastWriterWins' /\ InHand'
  BY <1>1, <1>3, <1>4 DEF LastWriterWins, InHand
<1>7. EnqueuedInOrder'
  BY <1>1, <1>2, <1>3, <1>4 DEF EnqueuedInOrder, Pending
<1>8. ASSUME Alone, \A v \in Workers \ {w} : work[v].unmarked = {} PROVE Alone'
  <2> USE DEF Alone
  <2>1. \A v \in Workers \ {w} : work[v].todo = Held(v) /\ Held(v)' = Held(v)
    BY <1>4, <1>8 DEF Held
  <2>2. Held(w)' = {} /\ Held(w) = {}
    BY <1>1, <1>3, <1>4 DEF Held, InHand
  <2>3. HandsApart'
    <3>1. \A v \in Workers \ {w} : \A x \in work[v].todo : rows[x].status = "processing"
      BY <2>1, <1>8 DEF HandsApart
    <3>2. \A x \in B : rows[x].status = "pending"
      BY <1>2 DEF Pending
    <3>3. \A u, v \in Workers : u # v => work'[u].todo \cap work'[v].todo = {}
      BY <3>1, <3>2, <1>3, <1>4, <1>8 DEF HandsApart
    <3>4. \A v \in Workers : /\ \A x \in work'[v].unmarked : rows'[x].status = "pending"
                             /\ \A x \in Held(v)' : rows'[x].status = "processing"
      BY <3>2, <2>1, <2>2, <1>1, <1>3, <1>4, <1>8 DEF HandsApart
    <3>5. \A x \in Ops : rows'[x].status = "processing" =>
             x \in stranded' \/ \E v \in Workers : x \in Held(v)'
      BY <2>1, <2>2, <1>1, <1>8 DEF HandsApart
    <3> QED BY <3>3, <3>4, <3>5 DEF HandsApart
  <2>4. AttemptsCounted'
    <3>1. \A v \in Workers \ {w} : \A x : AtProvider(v, x)' <=> AtProvider(v, x)
      BY <1>4 DEF AtProvider
    <3>2. ASSUME NEW v \in Workers, NEW p \in Held(v)'
          PROVE  /\ rows[p].retries < MaxRetries
                 /\ attempts[p] = IF AtProvider(v, p)' THEN rows[p].retries + 1 ELSE rows[p].retries
                 /\ AtProvider(v, p)' /\ work'[v].pc = "fail" => work'[v].read = rows[p].retries
      <4>1. v # w
        BY <3>2, <2>2
      <4> QED BY <4>1, <3>1, <3>2, <2>1, <1>4, <1>8 DEF AttemptsCounted
    <3> QED BY <3>2, <1>1, <1>8 DEF AttemptsCounted
  <2>5. BatchBehind'
    <3> SUFFICES ASSUME NEW v \in Schedulers
                 PROVE  /\ \A p \in work'[v].batch \ work'[v].todo : rows[p].status = "completed"
                        /\ Honest(checkpoint[v])'
      BY <1>1 DEF BatchBehind
    <3>1. Honest(checkpoint[v])'
      BY <1>1, <1>8 DEF BatchBehind, Honest
    <3>2. v \in Workers
      BY DEF Workers
    <3> QED BY <3>1, <3>2, <1>3, <1>4, <1>8 DEF BatchBehind
  <2>6. NotPassedOver'
    <3> SUFFICES ASSUME NEW x \in Ops, NEW y \in Ops, x < y, Untried(x)
                 PROVE  /\ rows[y].status \in {"none", "pending"}
                        /\ \A v \in Workers : y \in work'[v].unmarked => x \in work'[v].unmarked
      BY <1>1 DEF NotPassedOver, Untried
    <3>1. x \in Pending
      BY DEF Untried, Pending
    <3> QED BY <3>1, <1>2, <1>3, <1>4, <1>8 DEF NotPassedOver
  <2> QED BY <2>3, <2>4, <2>5, <2>6
<1>9. ~shared' => Alone'
  BY <1>1, <1>8
<1> QED BY <1>5, <1>6, <1>7, <1>9

LEMMA MarkOps ==
    ASSUME QueueInductive, NEW w \in Workers, MarkProcessing(w)
    PROVE  QueueInductive'
<1> USE DEF QueueInductive
<1> DEFINE o == Least(work[w].unmarked)
           pc == IF work[w].unmarked # {o} THEN "mark" ELSE IF w \in Schedulers THEN "save" ELSE "op"
           h == [work[w] EXCEPT !.unmarked = @ \ {o}, !.pc = pc]
<1>1. /\ work[w].unmarked # {} /\ SetStatus(o, "processing") /\ work' = [work EXCEPT ![w] = h]
      /\ UNCHANGED <<stranded, attempts, shared, conflicts, checkpoint, backoff, faults>>
  BY DEF MarkProcessing
<1>2. o \in work[w].unmarked /\ o \in Ops /\ \A p \in work[w].unmarked : o <= p
  BY <1>1, HandTyped, LeastIsFirst
<1>3. work[w].pc = "mark" /\ o \in work[w].todo
  BY <1>1, <1>2 DEF InHand
<1> HIDE DEF o
<1>4. /\ h \in Hand /\ h.unmarked = work[w].unmarked \ {o} /\ h.todo = work[w].todo
      /\ h.batch = work[w].batch /\ h.pc = pc /\ pc \in {"mark", "save", "op"}
      /\ (pc # "mark" => h.unmarked = {}) /\ (pc = "save" => w \in Schedulers)
  <2>1. work[w] \in Hand /\ pc \in {"mark", "save", "op"}
    BY HandTyped
  <2>2. h \in Hand /\ h.unmarked = work[w].unmarked \ {o} /\ h.todo = work[w].todo /\ h.batch = work[w].batch /\ h.pc = pc
    <3> HIDE DEF pc
    <3> QED BY <2>1, <1>2 DEF Hand
  <2> QED BY <2>1, <2>2
<1> HIDE DEF h, pc
<1>5. work' \in [Workers -> Hand] /\ work'[w] = h /\ \A v \in Workers \ {w} : work'[v] = work[v]
  BY <1>1, <1>4, HandSets DEF HandSet
<1>6. PICK r \in Row : RowSet(o, r) /\ r.status = "processing" /\ r.retries = rows[o].retries
  BY <1>1, <1>2, StatusSet
<1>7. rows' \in [Ops -> Row] /\ rows'[o] = r /\ \A p \in Ops \ {o} : rows'[p] = rows[p]
  BY <1>2, <1>6, RowSets
<1>8. QueueTypeOK'
  BY <1>1, <1>5, <1>7 DEF QueueTypeOK, Hand
<1>9. LastWriterWins' /\ InHand'
  BY <1>1, <1>4, <1>5 DEF LastWriterWins, InHand
<1>10. EnqueuedInOrder'
  <2>1. rows[o].status # "none"
    BY <1>3 DEF EnqueuedInOrder
  <2>2. \A p \in Ops : rows'[p].status = "none" <=> rows[p].status = "none"
    BY <2>1, <1>6, <1>7
  <2> QED BY <2>2, <1>4, <1>5, HandTyped DEF EnqueuedInOrder
<1>11. ASSUME Alone, ~shared PROVE Alone'
  <2> USE DEF Alone
  <2>1. rows[o].status = "pending" /\ \A v \in Workers \ {w} : o \notin work[v].todo /\ o \notin work[v].unmarked
    BY <1>2, <1>3, <1>11 DEF HandsApart, InHand
  <2>2. Held(w)' = Held(w) \cup {o} /\ \A v \in Workers \ {w} : Held(v)' = Held(v)
    BY <1>2, <1>3, <1>4, <1>5 DEF Held
  <2>3. \A v \in Workers : work'[v].todo = work[v].todo /\ work'[v].unmarked \subseteq work[v].unmarked
    BY <1>4, <1>5
  <2>4. o \notin work'[w].unmarked /\ \A v \in Workers \ {w} : o \notin Held(v)'
    BY <2>1, <2>2, <1>4, <1>5 DEF Held
  <2>5. HandsApart'
    <3>1. \A v \in Workers : /\ \A x \in work'[v].unmarked : rows'[x].status = "pending"
                             /\ \A x \in Held(v)' : rows'[x].status = "processing"
      BY <2>1, <2>2, <2>3, <2>4, <1>6, <1>7, <1>11, HandTyped DEF HandsApart, Held
    <3>2. \A x \in Ops : rows'[x].status = "processing" =>
             x \in stranded' \/ \E v \in Workers : x \in Held(v)'
      BY <2>2, <1>1, <1>7, <1>11 DEF HandsApart
    <3> QED BY <3>1, <3>2, <2>3, <1>11 DEF HandsApart
  <2>6. AttemptsCounted'
    <3>1. ASSUME NEW p \in Ops
          PROVE  /\ attempts[p] <= MaxRetries
                 /\ rows'[p].status = "failed" => attempts[p] = MaxRetries
                 /\ rows'[p].status = "none" => attempts[p] = 0 /\ rows'[p].retries = 0
                 /\ rows'[p].status = "pending" => attempts[p] = rows'[p].retries /\ rows'[p].retries < MaxRetries
      BY <1>6, <1>7, <1>11 DEF AttemptsCounted
    <3>2. ~AtProvider(w, o)' /\ \A x : ~AtProvider(w, x) /\ ~AtProvider(w, x)'
      BY <1>3, <1>4, <1>5 DEF AtProvider
    <3>3. \A v \in Workers \ {w} : \A x : AtProvider(v, x)' <=> AtProvider(v, x)
      BY <1>5 DEF AtProvider
    <3>4. ASSUME NEW v \in Workers, NEW p \in Held(v)'
          PROVE  /\ rows'[p].retries < MaxRetries
                 /\ attempts[p] = IF AtProvider(v, p)' THEN rows'[p].retries + 1 ELSE rows'[p].retries
                 /\ AtProvider(v, p)' /\ work'[v].pc = "fail" => work'[v].read = rows'[p].retries
      <4>1. CASE p = o
        <5>1. v = w
          BY <4>1, <3>4, <2>4
        <5> QED BY <5>1, <4>1, <3>2, <2>1, <1>2, <1>6, <1>7, <1>11 DEF AttemptsCounted
      <4>2. CASE p # o
        <5>1. p \in Held(v) /\ p \in Ops /\ rows'[p] = rows[p]
          BY <4>2, <3>4, <2>2, <1>7, HandTyped DEF Held
        <5>2. CASE v = w
          BY <5>1, <5>2, <3>2, <1>11 DEF AttemptsCounted
        <5>3. CASE v # w
          BY <5>1, <5>3, <3>3, <1>5, <1>11 DEF AttemptsCounted
        <5> QED BY <5>2, <5>3
      <4> QED BY <4>1, <4>2
    <3> QED BY <3>1, <3>4, <1>1 DEF AttemptsCounted
  <2>7. BatchBehind'
    <3> SUFFICES ASSUME NEW v \in Schedulers
                 PROVE  /\ \A p \in work[v].batch \ work[v].todo : rows'[p].status = "completed"
                        /\ Honest(checkpoint[v])'
      <4>1. \A u \in Workers : work'[u].batch = work[u].batch /\ work'[u].todo = work[u].todo
        BY <1>4, <1>5
      <4> QED BY <4>1, <1>1 DEF BatchBehind, Workers
    <3>1. \A p \in Ops : rows[p].status = "completed" => rows'[p].status = "completed"
      BY <2>1, <1>7
    <3>2. checkpoint[v] \in Job /\ Honest(checkpoint[v])
      BY <1>11 DEF BatchBehind, QueueTypeOK
    <3>3. Honest(checkpoint[v])'
      BY <3>1, <3>2, <1>1, HonestStays
    <3>4. v \in Workers
      BY DEF Workers
    <3> QED BY <3>1, <3>3, <3>4, <1>11, HandTyped DEF BatchBehind
  <2>8. NotPassedOver'
    <3> SUFFICES ASSUME NEW x \in Ops, NEW y \in Ops, x < y, Untried(x)'
                 PROVE  /\ rows'[y].status \in {"none", "pending"}
                        /\ \A v \in Workers : y \in work'[v].unmarked => x \in work'[v].unmarked
      BY DEF NotPassedOver
    <3>1. x # o /\ Untried(x)
      BY <1>6, <1>7 DEF Untried
    <3>2. y # o
      <4>1. y = o => x \in work[w].unmarked
        BY <3>1, <1>2, <1>11 DEF NotPassedOver
      <4>2. y = o => ~(y <= x)
        BY DEF Ops
      <4> QED BY <4>1, <4>2, <1>2
    <3>3. rows'[y].status \in {"none", "pending"}
      BY <3>1, <3>2, <1>7, <1>11 DEF NotPassedOver
    <3>4. \A v \in Workers : y \in work'[v].unmarked => x \in work'[v].unmarked
      BY <3>1, <1>4, <1>5, <1>11 DEF NotPassedOver
    <3> QED BY <3>3, <3>4
  <2> QED BY <2>5, <2>6, <2>7, <2>8
<1> QED BY <1>1, <1>8, <1>9, <1>10, <1>11

\* The checkpoints after a step: of the type, and honest as long as nothing was shared.
CheckpointsFit ==
    /\ checkpoint' \in [Schedulers -> Job]
    /\ Alone /\ ~shared => \A v \in Schedulers : Honest(checkpoint'[v])

BackoffFits == backoff' \in [Schedulers -> 0..Larger(1000, MaxBackoff)]

FaultsFit == faults' \in 0..MaxFaults

LEMMA BackoffAdvances == ASSUME QueueTypeOK, NEW w \in Workers, Backoff(w) PROVE BackoffFits
<1>1. \A b \in 0..Larger(1000, MaxBackoff) : Advanced(b) \in 0..Larger(1000, MaxBackoff)
  BY QueueAssumption DEF Advanced, Larger, QueueAssumption
<1> HIDE DEF Larger, Advanced
<1> QED BY <1>1 DEF Backoff, BackoffFits, QueueTypeOK

LEMMA ZeroBackoff == 0 \in 0..Larger(1000, MaxBackoff)
BY QueueAssumption DEF Larger, QueueAssumption

LEMMA FaultCounts == ASSUME QueueTypeOK, Fault \/ UNCHANGED faults PROVE FaultsFit
BY QueueAssumption DEF QueueAssumption, QueueTypeOK, Fault, FaultsFit

\* Whatever else it does, a step that leaves the rows alone keeps the rest.
LEMMA CheckpointsUnchanged ==
    ASSUME QueueTypeOK, UNCHANGED checkpoint PROVE CheckpointsFit
BY DEF CheckpointsFit, QueueTypeOK, Alone, BatchBehind

\* A worker moves on with the same operations in hand.
LEMMA MovesOn ==
    ASSUME QueueInductive, NEW w \in Workers, NEW h \in Hand, HandSet(w, h),
           h.unmarked = work[w].unmarked, h.todo = work[w].todo, h.batch = work[w].batch,
           h.pc \in {"answer", "fail"} <=> work[w].pc \in {"answer", "fail"},
           h.pc # "idle", work[w].pc # "mark",
           h.pc = "fail" => h.read = rows[Least(h.todo)].retries, h.pc \notin {"save", "progress"},
           UNCHANGED <<queueVars, conflicts>>, CheckpointsFit, UNCHANGED backoff, FaultsFit
    PROVE  QueueInductive'
<1> USE DEF QueueInductive
<1>0. UNCHANGED <<rows, stranded, attempts, shared, conflicts>>
  BY DEF queueVars
<1>1. work' \in [Workers -> Hand] /\ work'[w] = h /\ \A v \in Workers \ {w} : work'[v] = work[v]
  BY HandSets
<1>2. \A v \in Workers : /\ work'[v].unmarked = work[v].unmarked /\ work'[v].todo = work[v].todo
                         /\ work'[v].batch = work[v].batch /\ Held(v)' = Held(v)
  BY <1>1 DEF Held
<1>6. ASSUME NEW v \in Workers
      PROVE  work'[v].pc \in {"answer", "fail"} <=> work[v].pc \in {"answer", "fail"}
  BY <1>1
<1>3. QueueTypeOK'
  BY <1>0, <1>1 DEF QueueTypeOK, Hand, CheckpointsFit, FaultsFit
<1>4. LastWriterWins' /\ InHand' /\ EnqueuedInOrder'
  <2>1. LastWriterWins' /\ EnqueuedInOrder'
    BY <1>0, <1>2 DEF LastWriterWins, EnqueuedInOrder
  <2>2. InHand'
    BY <1>1, <1>2 DEF InHand
  <2> QED BY <2>1, <2>2
<1>5. ASSUME Alone, ~shared PROVE Alone'
  <2> USE DEF Alone
  <2>1. HandsApart'
    BY <1>0, <1>2, <1>5 DEF HandsApart
  <2>2. AttemptsCounted'
    <3>1. \A v \in Workers : \A x : AtProvider(v, x)' <=> AtProvider(v, x)
      <4> SUFFICES ASSUME NEW v \in Workers, NEW x PROVE AtProvider(v, x)' <=> AtProvider(v, x)
        OBVIOUS
      <4> QED BY <1>2, <1>6 DEF AtProvider
    <3>2. ASSUME NEW v \in Workers, NEW p \in Held(v)
          PROVE  AtProvider(v, p)' /\ work'[v].pc = "fail" => work'[v].read = rows[p].retries
      <4>1. CASE v = w
        BY <4>1, <1>1 DEF AtProvider
      <4>2. CASE v # w
        BY <4>2, <3>1, <1>1, <1>5 DEF AttemptsCounted
      <4> QED BY <4>1, <4>2
    <3>3. ASSUME NEW v \in Workers, NEW p \in Held(v)'
          PROVE  /\ rows'[p].retries < MaxRetries
                 /\ attempts'[p] = IF AtProvider(v, p)' THEN rows'[p].retries + 1 ELSE rows'[p].retries
                 /\ AtProvider(v, p)' /\ work'[v].pc = "fail" => work'[v].read = rows'[p].retries
      BY <3>1, <3>2, <3>3, <1>0, <1>2, <1>5 DEF AttemptsCounted
    <3> QED BY <3>3, <1>0, <1>5 DEF AttemptsCounted
  <2>3. BatchBehind'
    <3>1. \A v \in Schedulers : Honest(checkpoint[v])'
      BY <1>0, <1>5 DEF CheckpointsFit, Honest
    <3>2. ASSUME NEW v \in Schedulers, NEW p \in work'[v].batch \ work'[v].todo
          PROVE  rows'[p].status = "completed"
      <4>1. v \in Workers
        BY DEF Workers
      <4>2. p \in work[v].batch \ work[v].todo
        BY <4>1, <3>2, <1>2
      <4> QED BY <4>2, <1>0, <1>5 DEF BatchBehind
    <3> QED BY <3>1, <3>2 DEF BatchBehind
  <2>4. NotPassedOver'
    BY <1>0, <1>2, <1>5 DEF NotPassedOver, Untried
  <2> QED BY <2>1, <2>2, <2>3, <2>4
<1> QED BY <1>0, <1>3, <1>4, <1>5

\* Some workers put down what they have in hand: what they marked is stranded.
LEMMA PutDown ==
    ASSUME QueueInductive, NEW D \in SUBSET Workers,
           work' = [v \in Workers |-> IF v \in D THEN Idle ELSE work[v]],
           stranded' = stranded \cup UNION {Held(v) : v \in D},
           UNCHANGED <<rows, attempts, shared, conflicts>>, CheckpointsFit, BackoffFits, FaultsFit
    PROVE  QueueInductive'
<1> USE DEF QueueInductive
<1>1. /\ work' \in [Workers -> Hand] /\ \A v \in D : work'[v] = Idle
      /\ \A v \in Workers \ D : work'[v] = work[v]
  BY IdleIsHand, HandTyped
<1>2. \A v \in Workers : /\ work'[v].unmarked \subseteq work[v].unmarked /\ work'[v].todo \subseteq work[v].todo
                         /\ Held(v)' \subseteq Held(v) /\ (v \notin D => Held(v)' = Held(v))
                         /\ (v \in D => work'[v].unmarked = {} /\ work'[v].todo = {} /\ work'[v].batch = {} /\ work'[v].pc = "idle" /\ Held(v)' = {})
  BY <1>1, IdleIsHand DEF Held
<1>3. QueueTypeOK'
  <2>1. stranded' \subseteq Ops
    BY HandTyped DEF Held, QueueTypeOK
  <2> QED BY <2>1, <1>1 DEF QueueTypeOK, Hand, CheckpointsFit, BackoffFits, FaultsFit
<1>4. LastWriterWins' /\ EnqueuedInOrder' /\ InHand'
  <2>1. LastWriterWins' /\ EnqueuedInOrder'
    BY <1>2 DEF LastWriterWins, EnqueuedInOrder
  <2>2. InHand'
    BY <1>1, <1>2 DEF InHand
  <2> QED BY <2>1, <2>2
<1>5. ASSUME Alone, ~shared PROVE Alone'
  <2> USE DEF Alone
  <2>1. HandsApart'
    <3>1. \A x \in Ops : rows'[x].status = "processing" =>
             x \in stranded' \/ \E v \in Workers : x \in Held(v)'
      BY <1>2, <1>5 DEF HandsApart
    <3>2. \A u, v \in Workers : u # v => work'[u].todo \cap work'[v].todo = {}
      BY <1>2, <1>5 DEF HandsApart
    <3>3. \A v \in Workers : /\ \A x \in work'[v].unmarked : rows'[x].status = "pending"
                             /\ \A x \in Held(v)' : rows'[x].status = "processing"
      BY <1>2, <1>5 DEF HandsApart
    <3> QED BY <3>1, <3>2, <3>3 DEF HandsApart
  <2>2. AttemptsCounted'
    <3>1. ASSUME NEW v \in Workers, NEW p \in Held(v)'
          PROVE  /\ rows'[p].retries < MaxRetries
                 /\ attempts'[p] = IF AtProvider(v, p)' THEN rows'[p].retries + 1 ELSE rows'[p].retries
                 /\ AtProvider(v, p)' /\ work'[v].pc = "fail" => work'[v].read = rows'[p].retries
      <4>1. v \notin D /\ p \in Held(v) /\ work'[v] = work[v]
        BY <3>1, <1>1, <1>2
      <4>2. AtProvider(v, p)' <=> AtProvider(v, p)
        BY <4>1 DEF AtProvider
      <4> QED BY <4>1, <4>2, <1>5 DEF AttemptsCounted
    <3> QED BY <3>1, <1>5 DEF AttemptsCounted
  <2>3. BatchBehind'
    <3>1. \A v \in Schedulers : Honest(checkpoint[v])'
      BY <1>5 DEF CheckpointsFit, Honest
    <3>2. ASSUME NEW v \in Schedulers, NEW p \in work'[v].batch \ work'[v].todo
          PROVE  rows'[p].status = "completed"
      <4>1. v \in Workers
        BY DEF Workers
      <4>2. p \in work[v].batch \ work[v].todo
        BY <4>1, <3>2, <1>1, <1>2
      <4> QED BY <4>2, <1>5 DEF BatchBehind
    <3> QED BY <3>1, <3>2 DEF BatchBehind
  <2>4. NotPassedOver'
    <3> SUFFICES ASSUME NEW x \in Ops, NEW y \in Ops, x < y, Untried(x), NEW v \in Workers, y \in work'[v].unmarked
                 PROVE  x \in work'[v].unmarked
      BY <1>5 DEF NotPassedOver, Untried
    <3>1. v \notin D /\ work'[v] = work[v]
      BY <1>1, <1>2
    <3> QED BY <3>1, <1>5 DEF NotPassedOver
  <2> QED BY <2>1, <2>2, <2>3, <2>4
<1> QED BY <1>3, <1>4, <1>5

\* A worker settles the first operation of its batch, or puts it back for a retry.
LEMMA Settling ==
    ASSUME QueueInductive, NEW w \in Workers, NEW o \in Ops, o = Least(work[w].todo), o \in work[w].todo,
           work[w].pc \in {"op", "answer", "fail"},
           NEW h \in Hand, HandSet(w, h), h.unmarked = {}, h.todo = work[w].todo \ {o},
           h.pc \in {"progress", "op", "idle"}, h.pc = "progress" => w \in Schedulers,
           \/ h.batch = work[w].batch /\ h.pc # "idle"
           \/ h.batch = {} /\ h.todo = {} /\ h.pc = "idle",
           NEW r \in Row, RowSet(o, r), r.status \in Settled \cup {"pending"},
           w \in Schedulers => r.status = "completed",
           Alone /\ ~shared /\ r.status = "failed" => attempts[o] = MaxRetries,
           Alone /\ ~shared /\ r.status = "pending" =>
               attempts[o] = r.retries /\ r.retries < MaxRetries /\ r.retries # 0,
           conflicts' \in [Ops -> Conflict \cup {NoConflict}], LastWriterWins',
           UNCHANGED <<stranded, attempts, shared, checkpoint, backoff, faults>>
    PROVE  QueueInductive'
<1> USE DEF QueueInductive
<1>1. work' \in [Workers -> Hand] /\ work'[w] = h /\ \A v \in Workers \ {w} : work'[v] = work[v]
  BY HandSets
<1>2. rows' \in [Ops -> Row] /\ rows'[o] = r /\ \A p \in Ops \ {o} : rows'[p] = rows[p]
  BY RowSets
<1>3. work[w].unmarked = {} /\ Held(w) = work[w].todo /\ Held(w)' = Held(w) \ {o}
  BY <1>1 DEF InHand, Held
<1>4. QueueTypeOK'
  BY <1>1, <1>2 DEF QueueTypeOK, Hand
<1>5. InHand'
  <2>1. work[w].todo \subseteq work[w].batch
    BY DEF InHand
  <2>2. \A v \in Workers \ {w} :
        /\ work'[v].unmarked \subseteq work'[v].todo /\ work'[v].todo \subseteq work'[v].batch
        /\ work'[v].pc # "mark" => work'[v].unmarked = {}
        /\ work'[v].pc = "idle" => work'[v].batch = {}
        /\ work'[v].pc \in {"answer", "fail"} => work'[v].todo # {} /\ v \in Dispatchers
        /\ work'[v].pc \in {"save", "progress"} => v \in Schedulers
    BY <1>1 DEF InHand
  <2>3. /\ h.unmarked \subseteq h.todo /\ h.todo \subseteq h.batch
        /\ h.pc = "idle" => h.batch = {}
        /\ h.pc \notin {"answer", "fail"} /\ (h.pc \in {"save", "progress"} => w \in Schedulers)
    BY <2>1
  <2> QED BY <2>2, <2>3, <1>1 DEF InHand
<1>6. EnqueuedInOrder'
  <2>1. rows[o].status # "none" /\ r.status # "none"
    BY DEF EnqueuedInOrder, Settled
  <2>2. \A p \in Ops : rows'[p].status = "none" <=> rows[p].status = "none"
    BY <2>1, <1>2
  <2>3. \A v \in Workers : work'[v].todo \subseteq work[v].todo /\ work[v].todo \subseteq Ops
    BY <1>1, HandTyped
  <2> QED BY <2>2, <2>3 DEF EnqueuedInOrder
<1>7. ASSUME Alone, ~shared PROVE Alone'
  <2> USE DEF Alone
  <2>1. rows[o].status = "processing" /\ o \in Held(w)
    BY <1>3, <1>7 DEF HandsApart
  <2>2. \A v \in Workers \ {w} : o \notin work[v].todo /\ o \notin work[v].unmarked /\ Held(v)' = Held(v)
    BY <1>1, <1>7 DEF HandsApart, InHand, Held
  <2>3. \A v \in Workers : o \notin work'[v].unmarked /\ o \notin Held(v)'
    BY <2>2, <1>1, <1>3 DEF Held
  <2>4. \A v \in Workers : /\ work'[v].unmarked = work[v].unmarked /\ work'[v].todo \subseteq work[v].todo
                           /\ Held(v)' = Held(v) \ {o}
    <3> SUFFICES ASSUME NEW v \in Workers
                 PROVE  /\ work'[v].unmarked = work[v].unmarked /\ work'[v].todo \subseteq work[v].todo
                        /\ Held(v)' = Held(v) \ {o}
      OBVIOUS
    <3>1. CASE v = w
      BY <3>1, <1>1, <1>3
    <3>2. CASE v # w
      BY <3>2, <2>2, <1>1 DEF Held
    <3> QED BY <3>1, <3>2
  <2>5. HandsApart'
    <3>1. \A u, v \in Workers : u # v => work'[u].todo \cap work'[v].todo = {}
      BY <2>4, <1>7 DEF HandsApart
    <3>2. ASSUME NEW v \in Workers
          PROVE  /\ \A x \in work'[v].unmarked : rows'[x].status = "pending"
                 /\ \A x \in Held(v)' : rows'[x].status = "processing"
      <4>1. work'[v].unmarked \subseteq Ops \ {o} /\ Held(v)' \subseteq Ops \ {o}
        BY <2>3, <2>4, HandTyped DEF Held
      <4> QED BY <4>1, <2>4, <1>2, <1>7 DEF HandsApart
    <3>3. ASSUME NEW x \in Ops, rows'[x].status = "processing"
          PROVE  x \in stranded' \/ \E v \in Workers : x \in Held(v)'
      <4>1. x # o /\ rows[x].status = "processing"
        BY <3>3, <1>2 DEF Settled
      <4> QED BY <4>1, <2>4, <1>7 DEF HandsApart
    <3> QED BY <3>1, <3>2, <3>3 DEF HandsApart
  <2>6. AttemptsCounted'
    <3>1. ASSUME NEW p \in Ops
          PROVE  /\ attempts'[p] <= MaxRetries
                 /\ rows'[p].status = "failed" => attempts'[p] = MaxRetries
                 /\ rows'[p].status = "none" => attempts'[p] = 0 /\ rows'[p].retries = 0
                 /\ rows'[p].status = "pending" => attempts'[p] = rows'[p].retries /\ rows'[p].retries < MaxRetries
      <4>1. CASE p = o
        BY <4>1, <1>2, <1>7 DEF AttemptsCounted, Settled
      <4>2. CASE p # o
        BY <4>2, <1>2, <1>7 DEF AttemptsCounted
      <4> QED BY <4>1, <4>2
    <3>2. ASSUME NEW v \in Workers, NEW p \in Held(v)'
          PROVE  /\ rows'[p].retries < MaxRetries
                 /\ attempts'[p] = IF AtProvider(v, p)' THEN rows'[p].retries + 1 ELSE rows'[p].retries
                 /\ AtProvider(v, p)' /\ work'[v].pc = "fail" => work'[v].read = rows'[p].retries
      <4>1. p \in Held(v) /\ p # o /\ p \in Ops /\ rows'[p] = rows[p]
        BY <3>2, <2>4, <1>2, HandTyped DEF Held
      <4>2. CASE v = w
        <5>1. ~AtProvider(w, p)' /\ ~AtProvider(w, p)
          BY <4>1, <1>1 DEF AtProvider
        <5> QED BY <5>1, <4>1, <4>2, <1>7 DEF AttemptsCounted
      <4>3. CASE v # w
        <5>1. work'[v] = work[v]
          BY <4>3, <1>1
        <5>2. AtProvider(v, p)' <=> AtProvider(v, p)
          BY <5>1 DEF AtProvider
        <5> QED BY <5>1, <5>2, <4>1, <1>7 DEF AttemptsCounted
      <4> QED BY <4>2, <4>3
    <3> QED BY <3>1, <3>2 DEF AttemptsCounted
  <2>7. BatchBehind'
    <3> SUFFICES ASSUME NEW v \in Schedulers
                 PROVE  /\ \A p \in work'[v].batch \ work'[v].todo : rows'[p].status = "completed"
                        /\ Honest(checkpoint[v])'
      BY DEF BatchBehind
    <3>1. \A p \in Ops : rows[p].status = "completed" => rows'[p].status = "completed"
      BY <2>1, <1>2
    <3>2. checkpoint[v] \in Job /\ Honest(checkpoint[v]) /\ v \in Workers
      BY <1>7 DEF BatchBehind, QueueTypeOK, Workers
    <3>3. Honest(checkpoint[v])'
      BY <3>1, <3>2, HonestStays
    <3>4. ASSUME NEW p \in work'[v].batch \ work'[v].todo PROVE rows'[p].status = "completed"
      <4>1. \A x \in work[v].batch \ work[v].todo : rows[x].status = "completed" /\ x \in Ops
        BY <3>2, <1>7, HandTyped DEF BatchBehind
      <4>2. CASE v = w
        <5>1. p \in (work[v].batch \ work[v].todo) \cup {o}
          BY <4>2, <3>4, <1>1
        <5> QED BY <5>1, <4>1, <4>2, <3>1, <1>2
      <4>3. CASE v # w
        BY <4>1, <4>3, <3>1, <3>2, <3>4, <1>1
      <4> QED BY <4>2, <4>3
    <3> QED BY <3>3, <3>4
  <2>8. NotPassedOver'
    <3> SUFFICES ASSUME NEW x \in Ops, NEW y \in Ops, x < y, Untried(x)'
                 PROVE  /\ rows'[y].status \in {"none", "pending"}
                        /\ \A v \in Workers : y \in work'[v].unmarked => x \in work'[v].unmarked
      BY DEF NotPassedOver
    <3>1. x # o /\ Untried(x)
      BY <1>2, <1>7 DEF Untried, Settled
    <3>2. rows[y].status \in {"none", "pending"} /\ \A v \in Workers : y \in work[v].unmarked => x \in work[v].unmarked
      BY <3>1, <1>7 DEF NotPassedOver
    <3>3. y # o
      BY <3>2, <2>1
    <3> QED BY <3>2, <3>3, <2>4, <1>2
  <2> QED BY <2>5, <2>6, <2>7, <2>8
<1> QED BY <1>4, <1>5, <1>6, <1>7

LEMMA FirstOfTodo ==
    ASSUME QueueTypeOK, NEW w \in Workers, work[w].todo # {}
    PROVE  Least(work[w].todo) \in work[w].todo /\ Least(work[w].todo) \in Ops
BY HandTyped, LeastIsFirst

LEMMA CompleteOps ==
    ASSUME QueueInductive, NEW w \in Workers, CompleteOp(w)
    PROVE  QueueInductive'
<1> USE DEF QueueInductive
<1> DEFINE o == Least(work[w].todo)
           h == [work[w] EXCEPT !.todo = @ \ {o}, !.pc = "progress"]
<1>1. /\ w \in Schedulers /\ work[w].pc = "op" /\ work[w].todo # {} /\ SetStatus(o, "completed")
      /\ HandSet(w, h)
      /\ UNCHANGED <<stranded, attempts, shared, conflicts, checkpoint, backoff, faults>>
  BY DEF CompleteOp, HandSet
<1>2. o \in Ops /\ o \in work[w].todo /\ o = Least(work[w].todo)
  BY <1>1, FirstOfTodo
<1> HIDE DEF o
<1>3. work[w] \in Hand /\ work[w].unmarked = {}
  BY <1>1, HandTyped DEF InHand
<1>4. /\ h \in Hand /\ h.unmarked = {} /\ h.todo = work[w].todo \ {o} /\ h.pc = "progress"
      /\ h.batch = work[w].batch
  BY <1>3 DEF Hand
<1> HIDE DEF h
<1>5. PICK r \in Row : RowSet(o, r) /\ r.status = "completed"
  BY <1>1, <1>2, StatusSet
<1>6. conflicts' \in [Ops -> Conflict \cup {NoConflict}] /\ LastWriterWins'
  BY <1>1 DEF QueueTypeOK, LastWriterWins
<1> QED BY <1>1, <1>2, <1>4, <1>5, <1>6, Settling DEF Settled

\* The hand of a dispatcher whose first operation is settled.
DoneHand(w, o) == [work[w] EXCEPT !.todo = @ \ {o},
                                  !.pc = IF work[w].todo = {o} THEN "idle" ELSE "op",
                                  !.batch = IF work[w].todo = {o} THEN {} ELSE @,
                                  !.read = 0]

LEMMA DoneIsHand ==
    ASSUME QueueInductive, NEW w \in Workers, work[w].pc \in {"answer", "fail"}, NEW o, o = Least(work[w].todo),
           work' = Done(w, o)
    PROVE  /\ o \in Ops /\ o \in work[w].todo /\ w \notin Schedulers /\ o \in Held(w) /\ AtProvider(w, o)
           /\ \E h \in Hand :
                 /\ HandSet(w, h) /\ h.unmarked = {} /\ h.todo = work[w].todo \ {o} /\ h.pc \in {"op", "idle"}
                 /\ \/ h.batch = work[w].batch /\ h.pc # "idle"
                    \/ h.batch = {} /\ h.todo = {} /\ h.pc = "idle"
<1> USE DEF QueueInductive
<1>1. work[w].todo # {} /\ w \in Dispatchers /\ work[w].unmarked = {}
  BY DEF InHand
<1>2. o \in Ops /\ o \in work[w].todo
  BY <1>1, FirstOfTodo
<1>3. work[w] \in Hand
  BY HandTyped
<1>4. w \notin Schedulers
  BY <1>1, QueueAssumption DEF QueueAssumption
<1> DEFINE h == DoneHand(w, o)
<1>5. HandSet(w, h)
  BY DEF HandSet, Done, DoneHand
<1>6. /\ h \in Hand /\ h.unmarked = {} /\ h.todo = work[w].todo \ {o}
      /\ h.pc = (IF work[w].todo = {o} THEN "idle" ELSE "op")
      /\ h.batch = (IF work[w].todo = {o} THEN {} ELSE work[w].batch)
  BY <1>1, <1>3 DEF Hand, DoneHand
<1> HIDE DEF h
<1>7. o \in Held(w) /\ AtProvider(w, o)
  BY <1>1, <1>2 DEF Held, AtProvider
<1> QED BY <1>2, <1>4, <1>5, <1>6, <1>7

LEMMA Answers ==
    ASSUME QueueInductive, NEW w \in Workers, Succeed(w) \/ MarkConflict(w)
    PROVE  QueueInductive'
<1> USE DEF QueueInductive
<1> DEFINE o == Least(work[w].todo)
<1>1. /\ work[w].pc = "answer" /\ work' = Done(w, o)
      /\ SetStatus(o, "completed") \/ SetStatus(o, "conflict")
      /\ UNCHANGED <<stranded, attempts, shared, checkpoint, backoff, faults>>
  BY DEF Succeed, MarkConflict
<1>2. o \in Ops /\ o \in work[w].todo /\ w \notin Schedulers
  BY <1>1, DoneIsHand
<1>3. PICK h \in Hand :
         /\ HandSet(w, h) /\ h.unmarked = {} /\ h.todo = work[w].todo \ {o} /\ h.pc \in {"op", "idle"}
         /\ \/ h.batch = work[w].batch /\ h.pc # "idle"
            \/ h.batch = {} /\ h.todo = {} /\ h.pc = "idle"
  BY <1>1, DoneIsHand
<1>4. conflicts' \in [Ops -> Conflict \cup {NoConflict}] /\ LastWriterWins'
  <2>1. CASE Succeed(w)
    BY <2>1 DEF Succeed, QueueTypeOK, LastWriterWins
  <2>2. CASE MarkConflict(w)
    <3>1. PICK q \in Remote : conflicts' = [conflicts EXCEPT ![o] = [modified |-> q.modified, resolution |-> Resolve(q)]]
      BY <2>2 DEF MarkConflict
    <3> DEFINE c == [modified |-> q.modified, resolution |-> Resolve(q)]
    <3>2. c \in Conflict /\ c.modified = q.modified /\ c.resolution = Resolve(q)
      BY DEF Remote, Conflict, Resolve
    <3>3. Strategy = "last_writer_wins" /\ c.resolution = "local_wins" => c.modified = "before"
      BY <3>2 DEF Resolve
    <3> HIDE DEF c
    <3>4. conflicts' \in [Ops -> Conflict \cup {NoConflict}] /\ conflicts'[o] = c
          /\ \A p \in Ops \ {o} : conflicts'[p] = conflicts[p]
      BY <3>1, <3>2, <1>2 DEF QueueTypeOK, c
    <3> QED BY <3>3, <3>4 DEF LastWriterWins
  <2> QED BY <2>1, <2>2
<1>5. PICK r \in Row : RowSet(o, r) /\ r.status \in {"completed", "conflict"}
  BY <1>1, <1>2, StatusSet
<1> HIDE DEF o
<1>6. o = Least(work[w].todo)
  BY DEF o
<1> QED BY <1>1, <1>2, <1>3, <1>4, <1>5, <1>6, Settling DEF Settled

LEMMA Failures ==
    ASSUME QueueInductive, NEW w \in Workers, FailWrite(w)
    PROVE  QueueInductive'
<1> USE DEF QueueInductive
<1> DEFINE o == Least(work[w].todo)
           n == work[w].read + 1
           r == [status |-> AfterFailure(n), retries |-> n]
<1>1. /\ work[w].pc = "fail" /\ work' = Done(w, o) /\ RowSet(o, r)
      /\ UNCHANGED <<stranded, attempts, shared, conflicts, checkpoint, backoff, faults>>
  BY DEF FailWrite, RowSet
<1>2. o \in Ops /\ o \in work[w].todo /\ w \notin Schedulers /\ o \in Held(w) /\ AtProvider(w, o)
  BY <1>1, DoneIsHand
<1>3. PICK h \in Hand :
         /\ HandSet(w, h) /\ h.unmarked = {} /\ h.todo = work[w].todo \ {o} /\ h.pc \in {"op", "idle"}
         /\ \/ h.batch = work[w].batch /\ h.pc # "idle"
            \/ h.batch = {} /\ h.todo = {} /\ h.pc = "idle"
  BY <1>1, DoneIsHand
<1>4. conflicts' \in [Ops -> Conflict \cup {NoConflict}] /\ LastWriterWins'
  BY <1>1 DEF QueueTypeOK, LastWriterWins
<1>5. n \in Nat /\ n # 0 /\ MaxRetries \in Nat
  BY HandTyped, QueueAssumption DEF QueueAssumption
<1>6. r \in Row /\ r.status = AfterFailure(n) /\ r.retries = n
  BY <1>5 DEF Row, Settled, AfterFailure
<1>7. ASSUME Alone, ~shared
      PROVE  attempts[o] = n /\ n <= MaxRetries
  <2>1. rows[o].retries < MaxRetries /\ attempts[o] = rows[o].retries + 1 /\ work[w].read = rows[o].retries
    BY <1>1, <1>2, <1>7 DEF Alone, AttemptsCounted
  <2>2. work[w].read \in Nat
    BY HandTyped
  <2> QED BY <2>1, <2>2, <1>5
<1> HIDE DEF o, r, n
<1>8. /\ Alone /\ ~shared /\ r.status = "failed" => attempts[o] = MaxRetries
      /\ Alone /\ ~shared /\ r.status = "pending" => attempts[o] = r.retries /\ r.retries < MaxRetries /\ r.retries # 0
  BY <1>5, <1>6, <1>7 DEF AfterFailure
<1>9. o = Least(work[w].todo) /\ r.status \in Settled \cup {"pending"}
  BY <1>6 DEF o, AfterFailure, Settled
<1> QED BY <1>1, <1>2, <1>3, <1>4, <1>6, <1>8, <1>9, Settling

LEMMA AttemptOps ==
    ASSUME QueueInductive, NEW w \in Workers, Attempt(w)
    PROVE  QueueInductive'
<1> USE DEF QueueInductive
<1> DEFINE o == Least(work[w].todo)
           h == [work[w] EXCEPT !.pc = "answer"]
<1>1. /\ w \in Dispatchers /\ work[w].pc = "op" /\ work[w].todo # {} /\ HandSet(w, h)
      /\ attempts' = [attempts EXCEPT ![o] = @ + 1]
      /\ UNCHANGED <<rows, stranded, shared, conflicts, checkpoint, backoff, faults>>
  BY DEF Attempt, HandSet
<1>2. o \in Ops /\ o \in work[w].todo /\ work[w].unmarked = {} /\ o \in Held(w)
  BY <1>1, FirstOfTodo DEF InHand, Held
<1>3. /\ h \in Hand /\ h.unmarked = work[w].unmarked /\ h.todo = work[w].todo /\ h.batch = work[w].batch
      /\ h.pc = "answer"
  BY HandTyped DEF Hand
<1> HIDE DEF h
<1>4. work' \in [Workers -> Hand] /\ work'[w] = h /\ \A v \in Workers \ {w} : work'[v] = work[v]
  BY <1>1, <1>3, HandSets
<1>5. o = Least(work[w].todo)
  OBVIOUS
<1> HIDE DEF o
<1>6. \A v \in Workers : /\ work'[v].unmarked = work[v].unmarked /\ work'[v].todo = work[v].todo
                         /\ work'[v].batch = work[v].batch /\ Held(v)' = Held(v)
  BY <1>3, <1>4 DEF Held
<1>7. /\ attempts' \in [Ops -> Nat] /\ attempts'[o] = attempts[o] + 1
      /\ \A p \in Ops \ {o} : attempts'[p] = attempts[p]
  BY <1>1, <1>2 DEF QueueTypeOK
<1>8. QueueTypeOK'
  BY <1>1, <1>4, <1>7 DEF QueueTypeOK, Hand
<1>9. LastWriterWins' /\ EnqueuedInOrder'
  BY <1>1, <1>6 DEF LastWriterWins, EnqueuedInOrder
<1>10. InHand'
  BY <1>1, <1>3, <1>4 DEF InHand
<1>11. ASSUME Alone, ~shared PROVE Alone'
  <2> USE DEF Alone
  <2>1. HandsApart' /\ NotPassedOver'
    <3>1. HandsApart'
      BY <1>1, <1>6, <1>11 DEF HandsApart
    <3>2. NotPassedOver'
      BY <1>1, <1>6, <1>11 DEF NotPassedOver, Untried
    <3> QED BY <3>1, <3>2
  <2>2. BatchBehind'
    <3>1. \A v \in Schedulers : Honest(checkpoint[v])'
      BY <1>1, <1>11 DEF BatchBehind, Honest
    <3> QED BY <3>1, <1>1, <1>6, <1>11 DEF BatchBehind, Workers
  <2>3. rows[o].status = "processing" /\ rows[o].retries < MaxRetries /\ attempts[o] = rows[o].retries
    <3>1. ~AtProvider(w, o)
      BY <1>1 DEF AtProvider
    <3> QED BY <3>1, <1>2, <1>11 DEF HandsApart, AttemptsCounted
  <2>4. attempts[o] \in Nat /\ rows[o].retries \in Nat /\ MaxRetries \in Nat
    BY <1>2, QueueAssumption DEF QueueTypeOK, Row, QueueAssumption
  <2>5. AttemptsCounted'
    <3>1. ASSUME NEW p \in Ops
          PROVE  /\ attempts'[p] <= MaxRetries
                 /\ rows[p].status = "failed" => attempts'[p] = MaxRetries
                 /\ rows[p].status = "none" => attempts'[p] = 0 /\ rows[p].retries = 0
                 /\ rows[p].status = "pending" => attempts'[p] = rows[p].retries /\ rows[p].retries < MaxRetries
      <4>1. CASE p = o
        BY <4>1, <2>3, <2>4, <1>7
      <4>2. CASE p # o
        BY <4>2, <1>7, <1>11 DEF AttemptsCounted
      <4> QED BY <4>1, <4>2
    <3>2. ASSUME NEW v \in Workers, NEW p \in Held(v)
          PROVE  /\ rows[p].retries < MaxRetries
                 /\ attempts'[p] = IF AtProvider(v, p)' THEN rows[p].retries + 1 ELSE rows[p].retries
                 /\ AtProvider(v, p)' /\ work'[v].pc = "fail" => work'[v].read = rows[p].retries
      <4>1. p \in Ops
        BY <3>2, HandTyped DEF Held
      <4>2. CASE v = w
        <5>1. AtProvider(v, p)' <=> p = o
          BY <4>2, <1>3, <1>4, <1>5 DEF AtProvider
        <5>2. ~AtProvider(v, p)
          BY <4>2, <1>1 DEF AtProvider
        <5>3. CASE p = o
          BY <5>1, <5>3, <4>2, <2>3, <2>4, <1>3, <1>4, <1>7
        <5>4. CASE p # o
          BY <5>1, <5>2, <5>4, <4>1, <3>2, <1>7, <1>11 DEF AttemptsCounted
        <5> QED BY <5>3, <5>4
      <4>3. CASE v # w
        <5>1. work'[v] = work[v] /\ (AtProvider(v, p)' <=> AtProvider(v, p))
          BY <4>3, <1>4 DEF AtProvider
        <5>2. p # o
          BY <4>3, <3>2, <1>2, <1>11 DEF HandsApart, Held
        <5> QED BY <5>1, <5>2, <4>1, <3>2, <1>7, <1>11 DEF AttemptsCounted
      <4> QED BY <4>2, <4>3
    <3> QED BY <3>1, <3>2, <1>1, <1>6 DEF AttemptsCounted
  <2> QED BY <2>1, <2>2, <2>5
<1> QED BY <1>1, <1>8, <1>9, <1>10, <1>11

LEMMA FailReads ==
    ASSUME QueueInductive, NEW w \in Workers, FailRead(w)
    PROVE  QueueInductive'
<1> USE DEF QueueInductive
<1> DEFINE n == rows[Least(work[w].todo)].retries
           h == [work[w] EXCEPT !.pc = "fail", !.read = n]
<1>1. /\ work[w].pc = "answer" /\ HandSet(w, h)
      /\ UNCHANGED <<queueVars, conflicts>> /\ UNCHANGED <<checkpoint, backoff, faults>>
  BY DEF FailRead, HandSet, queueVars
<1>2. n \in Nat
  <2>1. Least(work[w].todo) \in Ops
    BY <1>1, FirstOfTodo DEF InHand
  <2> QED BY <2>1 DEF QueueTypeOK, Row
<1> HIDE DEF n
<1>3. /\ h \in Hand /\ h.unmarked = work[w].unmarked /\ h.todo = work[w].todo /\ h.batch = work[w].batch
      /\ h.pc = "fail" /\ h.read = n
  BY <1>2, HandTyped DEF Hand
<1> HIDE DEF h
<1>4. h.read = rows[Least(h.todo)].retries
  BY <1>3 DEF n
<1>5. CheckpointsFit /\ FaultsFit
  BY <1>1, CheckpointsUnchanged, FaultCounts
<1> QED BY <1>1, <1>3, <1>4, <1>5, MovesOn

\* The initial checkpoint counts nothing.
LEMMA NothingCounted ==
    ASSUME NEW job \in Job, job.processed = 0, job.state # "completed"
    PROVE  Honest(job)
<1>1. {o \in job.of : rows[o].status = "completed"} \in SUBSET Ops
  BY DEF Job
<1>2. Cardinality({o \in job.of : rows[o].status = "completed"}) \in Nat
  BY <1>1, OpsFinite
<1> QED BY <1>2 DEF Honest

\* One checkpoint is written, or none.
LEMMA CheckpointWritten ==
    ASSUME QueueTypeOK, NEW w \in Schedulers, NEW job \in Job, Alone /\ ~shared => Honest(job),
           checkpoint' = [checkpoint EXCEPT ![w] = job] \/ UNCHANGED checkpoint
    PROVE  CheckpointsFit
<1>1. checkpoint' \in [Schedulers -> Job] /\ \A v \in Schedulers : checkpoint'[v] \in {checkpoint[v], job}
  BY DEF QueueTypeOK
<1>2. \A v \in Schedulers : checkpoint'[v] = checkpoint[v] \/ checkpoint'[v] = job
  BY <1>1
<1> QED BY <1>1, <1>2 DEF CheckpointsFit, Alone, BatchBehind

LEMMA SaveInitials ==
    ASSUME QueueInductive, NEW w \in Workers, SaveInitial(w), w \in Schedulers
    PROVE  QueueInductive'
<1> USE DEF QueueInductive
<1> DEFINE h == [work[w] EXCEPT !.pc = "op"]
           first == [state |-> "running", processed |-> 0, total |-> Cardinality(work[w].batch),
                     of |-> work[w].batch]
<1>1. /\ work[w].pc = "save" /\ HandSet(w, h)
      /\ UNCHANGED <<queueVars, conflicts>> /\ UNCHANGED backoff
      /\ Fault \/ UNCHANGED faults
      /\ checkpoint' = [checkpoint EXCEPT ![w] = first] \/ checkpoint' = [checkpoint EXCEPT ![w] = NoJob]
  BY DEF SaveInitial, HandSet, queueVars
<1>2. /\ h \in Hand /\ h.unmarked = work[w].unmarked /\ h.todo = work[w].todo /\ h.batch = work[w].batch
      /\ h.pc = "op"
  BY HandTyped DEF Hand
<1> HIDE DEF h
<1>3. first \in Job /\ first.processed = 0 /\ first.state # "completed"
  <2>1. work[w].batch \in SUBSET Ops /\ Cardinality(work[w].batch) \in Nat
    BY HandTyped, OpsFinite
  <2> QED BY <2>1 DEF Job
<1>4. NoJob \in Job /\ NoJob.processed = 0 /\ NoJob.state # "completed"
  BY DEF Job, NoJob
<1> HIDE DEF first
<1>5. CheckpointsFit
  BY <1>1, <1>3, <1>4, NothingCounted, CheckpointWritten
<1>6. FaultsFit
  BY <1>1, FaultCounts
<1> QED BY <1>1, <1>2, <1>5, <1>6, MovesOn

LEMMA SaveProgresses ==
    ASSUME QueueInductive, NEW w \in Schedulers, SaveProgress(w)
    PROVE  QueueInductive'
<1> USE DEF QueueInductive
<1> DEFINE h == [work[w] EXCEPT !.pc = "op"]
           job == [state |-> "running", processed |-> Progress(w), total |-> Cardinality(work[w].batch),
                   of |-> work[w].batch]
<1>0. w \in Workers
  BY DEF Workers
<1>1. /\ work[w].pc = "progress" /\ HandSet(w, h)
      /\ UNCHANGED <<queueVars, conflicts>> /\ UNCHANGED backoff
      /\ Fault \/ UNCHANGED faults
      /\ checkpoint' = [checkpoint EXCEPT ![w] = job] \/ UNCHANGED checkpoint
  BY DEF SaveProgress, Saving, HandSet, queueVars
<1>2. /\ h \in Hand /\ h.unmarked = work[w].unmarked /\ h.todo = work[w].todo /\ h.batch = work[w].batch
      /\ h.pc = "op"
  BY <1>0, HandTyped DEF Hand
<1> HIDE DEF h
<1>3. /\ work[w].batch \in SUBSET Ops /\ Cardinality(work[w].batch) \in Nat /\ Progress(w) \in Nat
      /\ work[w].batch \ work[w].todo \in SUBSET Ops
  BY <1>0, HandTyped, OpsFinite DEF Progress
<1>4. job \in Job /\ job.processed = Progress(w) /\ job.state = "running" /\ job.of = work[w].batch
  BY <1>3 DEF Job
<1> HIDE DEF job
<1>5. ASSUME Alone, ~shared PROVE Honest(job)
  <2> DEFINE done == {o \in work[w].batch : rows[o].status = "completed"}
  <2>1. work[w].batch \ work[w].todo \subseteq done /\ done \in SUBSET Ops
    BY <1>3, <1>5 DEF Alone, BatchBehind
  <2>2. Progress(w) <= Cardinality(done)
    <3> HIDE DEF done
    <3> QED BY <2>1, <1>3, OpsFinite, FS_Subset DEF Progress
  <2> QED BY <2>2, <1>4 DEF Honest
<1>6. CheckpointsFit
  BY <1>1, <1>4, <1>5, CheckpointWritten
<1>7. FaultsFit
  BY <1>1, FaultCounts
<1> QED BY <1>0, <1>1, <1>2, <1>6, <1>7, MovesOn

\* A job is marked: completed when all of its batch is.
LEMMA MarkedFits ==
    ASSUME QueueInductive, NEW w \in Schedulers, NEW s \in {"completed", "failed"},
           s = "completed" => work[w].todo = {}
    PROVE  Marked(w, s) \in Job /\ (Alone /\ ~shared => Honest(Marked(w, s)))
<1> USE DEF QueueInductive
<1>1. checkpoint[w] \in Job /\ w \in Workers
  BY DEF QueueTypeOK, Workers
<1>2. CASE checkpoint[w].of # work[w].batch
  BY <1>1, <1>2 DEF Marked, Alone, BatchBehind
<1>3. CASE checkpoint[w].of = work[w].batch
  <2> DEFINE job == [checkpoint[w] EXCEPT !.state = s]
  <2>1. Marked(w, s) = job
    BY <1>3 DEF Marked
  <2>2. job \in Job /\ job.state = s /\ job.processed = checkpoint[w].processed /\ job.of = work[w].batch
    BY <1>1, <1>3 DEF Job
  <2> HIDE DEF job
  <2>3. ASSUME Alone, ~shared PROVE Honest(job)
    <3>1. Honest(checkpoint[w]) /\ \A o \in work[w].batch \ work[w].todo : rows[o].status = "completed"
      BY <2>3 DEF Alone, BatchBehind
    <3>2. s = "completed" => {o \in work[w].batch : rows[o].status = "completed"} = work[w].batch
      BY <3>1
    <3> QED BY <3>1, <3>2, <2>2, <1>3 DEF Honest
  <2> QED BY <2>1, <2>2, <2>3
<1> QED BY <1>2, <1>3

LEMMA CompleteJobs ==
    ASSUME QueueInductive, NEW w \in Workers, CompleteJob(w)
    PROVE  QueueInductive'
<1> USE DEF QueueInductive
<1>1. /\ w \in Schedulers /\ work[w].pc = "op" /\ work[w].todo = {}
      /\ checkpoint' = [checkpoint EXCEPT ![w] = Marked(w, "completed")] \/ UNCHANGED checkpoint
      /\ Fault \/ UNCHANGED faults
      /\ backoff' = [backoff EXCEPT ![w] = 0] /\ work' = [work EXCEPT ![w] = Idle]
      /\ UNCHANGED <<rows, stranded, attempts, shared, conflicts>>
  BY DEF CompleteJob, Saving, queueVars
<1>2. CheckpointsFit /\ FaultsFit
  BY <1>1, MarkedFits, CheckpointWritten, FaultCounts
<1>3. BackoffFits
  BY <1>1, ZeroBackoff DEF QueueTypeOK, BackoffFits
<1>4. work' = [v \in Workers |-> IF v \in {w} THEN Idle ELSE work[v]]
  BY <1>1 DEF QueueTypeOK
<1>5. stranded' = stranded \cup UNION {Held(v) : v \in {w}}
  BY <1>1 DEF Held
<1> QED BY <1>1, <1>2, <1>3, <1>4, <1>5, PutDown

\* A batch is left with an error.
LEMMA Drops ==
    ASSUME QueueInductive, NEW w \in Workers, MarkFails(w) \/ CompleteFails(w)
    PROVE  QueueInductive'
<1> USE DEF QueueInductive
<1>1. /\ Drop(w) /\ Backoff(w) /\ Fault
      /\ UNCHANGED <<rows, attempts, shared, conflicts>>
  BY DEF MarkFails, CompleteFails
<1>2. CheckpointsFit
  <2>1. CASE MarkFails(w)
    BY <2>1, CheckpointsUnchanged DEF MarkFails
  <2>2. CASE CompleteFails(w)
    BY <2>2, MarkedFits, CheckpointWritten DEF CompleteFails
  <2> QED BY <2>1, <2>2
<1>3. BackoffFits /\ FaultsFit
  BY <1>1, BackoffAdvances, FaultCounts
<1>4. work' = [v \in Workers |-> IF v \in {w} THEN Idle ELSE work[v]]
  BY <1>1 DEF Drop, QueueTypeOK
<1>5. stranded' = stranded \cup UNION {Held(v) : v \in {w}}
  BY <1>1 DEF Drop, Held
<1> QED BY <1>1, <1>2, <1>3, <1>4, <1>5, PutDown

LEMMA Crashes == QueueInductive /\ Crash => QueueInductive'
<1> SUFFICES ASSUME QueueInductive, Crash PROVE QueueInductive'
  OBVIOUS
<1> USE DEF QueueInductive
<1>1. CheckpointsFit /\ FaultsFit
  BY CheckpointsUnchanged, FaultCounts DEF Crash
<1>2. BackoffFits
  BY ZeroBackoff DEF Crash, BackoffFits
<1>3. work' = [v \in Workers |-> IF v \in Workers THEN Idle ELSE work[v]]
  BY DEF Crash
<1>4. stranded' = stranded \cup UNION {Held(v) : v \in Workers}
  BY DEF Crash, Held
<1> QED BY <1>1, <1>2, <1>3, <1>4, PutDown DEF Crash

LEMMA SelectFailures ==
    ASSUME QueueInductive, NEW w \in Workers, SelectFails(w)
    PROVE  QueueInductive'
<1> USE DEF QueueInductive
<1>1. Backoff(w) /\ UNCHANGED <<rows, stranded, attempts, shared, conflicts, work, checkpoint, faults>>
  BY DEF SelectFails, queueVars
<1>2. CheckpointsFit /\ FaultsFit /\ BackoffFits
  BY <1>1, CheckpointsUnchanged, FaultCounts, BackoffAdvances
<1>3. work' = [v \in Workers |-> IF v \in {} THEN Idle ELSE work[v]]
  BY <1>1 DEF QueueTypeOK
<1>4. stranded' = stranded \cup UNION {Held(v) : v \in {}}
  BY <1>1
<1> DEFINE D == {}
<1>5. D \in SUBSET Workers
  OBVIOUS
<1>6. /\ work' = [v \in Workers |-> IF v \in D THEN Idle ELSE work[v]]
      /\ stranded' = stranded \cup UNION {Held(v) : v \in D}
  BY <1>3, <1>4
<1> HIDE DEF D
<1> QED BY <1>1, <1>2, <1>5, <1>6, PutDown

LEMMA QueueStutter == QueueInductive /\ UNCHANGED offlineVars => QueueInductive'
<1> SUFFICES ASSUME QueueInductive, UNCHANGED offlineVars PROVE QueueInductive'
  OBVIOUS
<1> USE DEF QueueInductive
<1>1. UNCHANGED <<rows, stranded, attempts, shared, conflicts, work, checkpoint, backoff, faults>>
  BY DEF offlineVars, queueVars
<1>2. CheckpointsFit /\ FaultsFit /\ BackoffFits
  BY <1>1, CheckpointsUnchanged, FaultCounts DEF QueueTypeOK, BackoffFits
<1>3. work' = [v \in Workers |-> IF v \in {} THEN Idle ELSE work[v]]
  BY <1>1 DEF QueueTypeOK
<1>4. stranded' = stranded \cup UNION {Held(v) : v \in {}}
  BY <1>1
<1> DEFINE D == {}
<1>5. D \in SUBSET Workers
  OBVIOUS
<1>6. /\ work' = [v \in Workers |-> IF v \in D THEN Idle ELSE work[v]]
      /\ stranded' = stranded \cup UNION {Held(v) : v \in D}
  BY <1>3, <1>4
<1> HIDE DEF D
<1> QED BY <1>1, <1>2, <1>5, <1>6, PutDown

LEMMA QueueStep == QueueInductive /\ [QueueNext]_offlineVars => QueueInductive'
<1> SUFFICES ASSUME QueueInductive, [QueueNext]_offlineVars PROVE QueueInductive'
  OBVIOUS
<1>1. CASE Enqueue \/ Crash \/ UNCHANGED offlineVars
  BY <1>1, EnqueueOp, Crashes, QueueStutter
<1>2. ASSUME NEW w \in Workers, Step(w) \/ Failure(w) PROVE QueueInductive'
  <2>1. SaveInitial(w) \/ SaveProgress(w) => w \in Schedulers
    BY DEF SaveInitial, SaveProgress, QueueInductive, InHand
  <2> QED BY <2>1, <1>2, SelectOps, MarkOps, SaveInitials, CompleteOps, SaveProgresses, CompleteJobs, AttemptOps,
             Answers, FailReads, Failures, SelectFailures, Drops DEF Step, Failure
<1> QED BY <1>1, <1>2 DEF QueueNext

\* The inductive invariant says what the runs check.
LEMMA QueueImplied == QueueInductive => QueueInv
<1> SUFFICES ASSUME QueueInductive PROVE QueueInv
  OBVIOUS
<1> USE DEF QueueInductive, Alone
<1>1. HeldOnce
  BY DEF HeldOnce, HandsApart
<1>2. RetriesExact
  BY DEF RetriesExact, AttemptsCounted
<1>3. CheckpointIsHonest
  BY DEF CheckpointIsHonest, BatchBehind, Honest
<1>4. FirstInFirstOut
  <2> SUFFICES ASSUME NEW o \in Ops, NEW p \in Ops, o < p, rows[o].status = "pending",
                      rows[p].status \in Settled, ~shared
               PROVE  rows[o].retries > 0
    BY DEF FirstInFirstOut, QueueTypeOK
  <2>1. rows[o].retries \in Nat
    BY DEF QueueTypeOK, Row
  <2>2. rows[o].retries # 0
    BY DEF NotPassedOver, Untried, Settled
  <2> QED BY <2>1, <2>2
<1> QED BY <1>1, <1>2, <1>3, <1>4 DEF QueueInv

\* The offline queue, for any number of operations, schedulers and dispatchers,
\* any limits and strategy, and whatever fails or dies: as long as no worker
\* selects between another's select and its last mark, no operation is in two
\* hands, it is given up after max_retries attempts exactly, an untried one is
\* not passed over, and checkpoints claim completed operations only
\* (email/offline_queue.rs, sync_scheduler.rs, checkpoint.rs, conflict_resolution.rs).
THEOREM QueueHolds == QueueSpec => []QueueInv
<1>1. QueueInit => QueueInductive
  BY QueueInitially
<1>2. QueueInductive /\ [QueueNext]_offlineVars => QueueInductive'
  BY QueueStep
<1>3. QueueInductive => QueueInv
  BY QueueImplied
<1> QED BY <1>1, <1>2, <1>3, PTL DEF QueueSpec

-----------------------------------------------------------------------------
(* The assistant *)

\* The calls in hand fit the place a request is at: what runs at once is not
\* gated, what is parked is.
BatchFits ==
    \A t \in Turns :
        /\ turns[t].pc \in {"idle", "model", "push", "prompt", "generate", "reply"} => turns[t].batch = {}
        /\ turns[t].pc = "tools" => Gated(turns[t].batch) = {} /\ turns[t].round < MaxRounds
        /\ turns[t].pc = "park" => turns[t].batch # {} /\ turns[t].batch \subseteq GatedTools
        /\ turns[t].pc # "idle" => turns[t].session \in ChatSessions

\* With ids of the provider's own, a parked call is found under the id of its turn.
OwnIds ==
    provider # "ollama" => \A i \in ConfirmationIds : pending[i] # NoCall => pending[i].turn = i

\* A question is asked once, in the session of its request, and when it was
\* asked and not dropped it is there.
AskedOnce ==
    \A t \in Turns, s \in ChatSessions :
        /\ \A i, k \in DOMAIN Messages(s) :
              Messages(s)[i] = [role |-> "user", turn |-> t] /\ Messages(s)[k] = [role |-> "user", turn |-> t] => i = k
        /\ t \in Questions(Messages(s)) =>
              turns[t].session = s /\ turns[t].pc \in {"prompt", "generate", "reply", "done", "panicked"}

StillThere ==
    \A t \in Turns : turns[t].pc \in {"prompt", "generate", "reply"} /\ t \notin dropped =>
        t \in Questions(Messages(turns[t].session))

ChatInductive ==
    /\ ChatTypeOK /\ AnswerFollowsQuestion /\ NoUnconfirmedTool /\ NoConfirmationLost
    /\ BatchFits /\ OwnIds /\ AskedOnce /\ StillThere

TurnState == [pc : ChatPcs, session : ChatSessions \cup {Gone}, round : 0..MaxRounds, batch : SUBSET Tools]

TurnSet(t, r) == turns' = [turns EXCEPT ![t] = r]

LEMMA TurnSets ==
    ASSUME ChatTypeOK, NEW t \in Turns, NEW r \in TurnState, TurnSet(t, r)
    PROVE  turns' \in [Turns -> TurnState] /\ turns'[t] = r /\ \A u \in Turns \ {t} : turns'[u] = turns[u]
BY DEF ChatTypeOK, TurnSet, TurnState

LEMMA TurnMoved ==
    ASSUME ChatTypeOK, NEW t \in Turns, NEW label \in ChatPcs, TurnTo(t, label)
    PROVE  \E r \in TurnState : /\ TurnSet(t, r) /\ r.pc = label /\ r.session = turns[t].session
                                /\ r.round = turns[t].round /\ r.batch = turns[t].batch
<1> DEFINE r == [turns[t] EXCEPT !.pc = label]
<1>1. turns[t] \in TurnState
  BY DEF ChatTypeOK, TurnState
<1>2. r \in TurnState /\ r.pc = label /\ r.session = turns[t].session /\ r.round = turns[t].round /\ r.batch = turns[t].batch
  BY <1>1 DEF TurnState
<1>3. TurnSet(t, r)
  BY DEF TurnTo, TurnSet
<1> QED BY <1>2, <1>3

\* What a session holds.
LEMMA MessagesTyped ==
    ASSUME ChatTypeOK, NEW s \in ChatSessions
    PROVE  Messages(s) \in Seq(Message) /\ Len(Messages(s)) \in Nat /\ Len(Messages(s)) <= MaxHistory
<1>1. CASE Exists(s)
  BY <1>1, LenProperties DEF ChatTypeOK, Messages, Exists
<1>2. CASE ~Exists(s)
  BY <1>2, EmptySeq, ChatAssumption DEF Messages, ChatAssumption
<1> QED BY <1>1, <1>2

\* A message is appended and the oldest one goes when the window is full.
LEMMA WindowMoves ==
    ASSUME NEW q \in Seq(Message), Len(q) <= MaxHistory, NEW m \in Message
    PROVE  LET a == Append(q, m)
               win == Window(a)
           IN  /\ win \in Seq(Message) /\ Len(win) <= MaxHistory
               /\ SubSeq(a, Len(a) - Len(win) + 1, Len(a)) = win
               /\ \E d \in {0, 1} :
                     /\ Len(win) = Len(q) + 1 - d
                     /\ \A i \in 1..Len(win) : win[i] = IF i + d = Len(q) + 1 THEN m ELSE q[i + d]
<1> DEFINE a == Append(q, m)
           n == Len(q) + 1
           d == IF n > MaxHistory THEN 1 ELSE 0
<1>1. Len(q) \in Nat /\ n \in Nat /\ MaxHistory \in Nat \ {0} /\ n <= MaxHistory + 1
  BY ChatAssumption, LenProperties DEF ChatAssumption
<1>2. a \in Seq(Message) /\ Len(a) = n /\ \A i \in 1..n : a[i] \in Message /\ a[i] = IF i = n THEN m ELSE q[i]
  <2>1. a \in Seq(Message) /\ Len(a) = n /\ (\A i \in 1..Len(q) : a[i] = q[i]) /\ a[n] = m
    BY AppendProperties
  <2>2. \A i \in 1..n : a[i] \in Message
    BY <2>1, ElementOfSeq
  <2>3. \A i \in 1..n : i # n => i \in 1..Len(q)
    BY <1>1
  <2> QED BY <2>1, <2>2, <2>3
<1> HIDE DEF a
<1>3. Window(a) = SubSeq(a, d + 1, n)
  <2>1. (IF Len(a) > MaxHistory THEN Len(a) - MaxHistory + 1 ELSE 1) = d + 1
    BY <1>1, <1>2
  <2> QED BY <2>1, <1>2 DEF Window
<1>4. d \in {0, 1} /\ n - d \in Nat /\ n - d <= MaxHistory /\ d + 1 <= n
  BY <1>1
<1> HIDE DEF d, n
<1>5. n \in Int /\ d + 1 \in Int /\ \A i \in (d + 1)..n : a[i] \in Message
  BY <1>1, <1>2, <1>4
<1> DEFINE win == SubSeq(a, d + 1, n)
<1>6. /\ win \in Seq(Message) /\ Len(win) = IF d + 1 <= n THEN n - (d + 1) + 1 ELSE 0
      /\ \A i \in 1..(n - (d + 1) + 1) : win[i] = a[(d + 1) + i - 1]
  BY <1>5, SubSeqProperties
<1> HIDE DEF win
<1>7. Len(win) = n - d /\ n - Len(win) + 1 = d + 1
  BY <1>1, <1>4, <1>6
<1>8. \A i \in 1..Len(win) : win[i] = IF i + d = n THEN m ELSE q[i + d]
  <2> SUFFICES ASSUME NEW i \in 1..Len(win) PROVE win[i] = IF i + d = n THEN m ELSE q[i + d]
    OBVIOUS
  <2>1. i \in Int /\ i \in 1..(n - (d + 1) + 1) /\ (d + 1) + i - 1 = i + d /\ i + d \in 1..n
    BY <1>1, <1>4, <1>7
  <2> QED BY <2>1, <1>2, <1>6
<1>9. SubSeq(a, Len(a) - Len(win) + 1, Len(a)) = win
  BY <1>2, <1>7 DEF win
<1>10. Len(win) <= MaxHistory /\ Len(win) = Len(q) + 1 - d
  BY <1>1, <1>4, <1>7 DEF n
<1>11. Window(a) = win
  BY <1>3 DEF win
<1> QED BY <1>4, <1>6, <1>8, <1>9, <1>10, <1>11 DEF n, a

\* The question of a request.
Asking(t) == [role |-> "user", turn |-> t]

LEMMA QuestionsAre ==
    ASSUME NEW q \in Seq(Message), NEW t \in Turns
    PROVE  t \in Questions(q) <=> \E i \in DOMAIN q : q[i] = Asking(t)
<1>1. \A i \in DOMAIN q : q[i] \in Message
  BY ElementOfSeq, LenProperties
<1>2. \A m \in Message : m.role = "user" /\ m.turn = t <=> m = Asking(t)
  <2> SUFFICES ASSUME NEW m \in Message PROVE m.role = "user" /\ m.turn = t <=> m = Asking(t)
    OBVIOUS
  <2>1. m = [role |-> m.role, turn |-> m.turn]
    BY DEF Message
  <2> QED BY <2>1 DEF Asking
<1> QED BY <1>1, <1>2 DEF Questions

\* What a request records, and what becomes of the other messages.
LEMMA Recorded ==
    ASSUME ChatInductive, NEW t \in Turns, NEW s \in ChatSessions, s = turns[t].session,
           NEW role \in {"user", "assistant"}, PushMessage(s, role, t),
           NEW r \in TurnState, TurnSet(t, r), r.session = s,
           \/ role = "user" /\ turns[t].pc = "push" /\ r.pc = "prompt"
           \/ role = "assistant" /\ turns[t].pc = "reply" /\ r.pc = "done" /\ Exists(s)
    PROVE  /\ sessions' \in [ChatSessions -> Seq(Message) \cup {Gone}]
           /\ \A x \in ChatSessions : Exists(x)' => Len(sessions'[x]) <= MaxHistory
           /\ dropped' \subseteq Turns
           /\ AnswerFollowsQuestion' /\ AskedOnce' /\ StillThere'
<1> USE DEF ChatInductive
<1> DEFINE q == Messages(s)
           m == [role |-> role, turn |-> t]
           a == Append(q, m)
           win == Window(a)
<1>1. q \in Seq(Message) /\ Len(q) \in Nat /\ Len(q) <= MaxHistory /\ m \in Message
  BY MessagesTyped DEF Message
<1>2. /\ win \in Seq(Message) /\ Len(win) <= MaxHistory /\ Len(win) \in Nat
      /\ SubSeq(a, Len(a) - Len(win) + 1, Len(a)) = win
  BY <1>1, WindowMoves, LenProperties
<1>3. PICK d \in {0, 1} :
         /\ Len(win) = Len(q) + 1 - d
         /\ \A i \in 1..Len(win) : win[i] = IF i + d = Len(q) + 1 THEN m ELSE q[i + d]
  BY <1>1, WindowMoves
<1>4. a \in Seq(Message) /\ Len(a) = Len(q) + 1 /\ (\A i \in 1..Len(q) : a[i] = q[i]) /\ a[Len(q) + 1] = m
  BY <1>1, AppendProperties
<1>5. sessions' = [sessions EXCEPT ![s] = win] /\ dropped' = dropped \cup (Questions(a) \ Questions(win))
  BY <1>2 DEF PushMessage
<1> HIDE DEF win, a, q, m
<1>6. win # Gone
  BY <1>2, GoneAssumption
<1>7. /\ sessions' \in [ChatSessions -> Seq(Message) \cup {Gone}] /\ sessions'[s] = win
      /\ \A x \in ChatSessions \ {s} : sessions'[x] = sessions[x]
  BY <1>2, <1>5 DEF ChatTypeOK
<1>8. Messages(s)' = win /\ \A x \in ChatSessions \ {s} : Messages(x)' = Messages(x)
  BY <1>6, <1>7 DEF Messages, Exists
<1>9. turns' \in [Turns -> TurnState] /\ turns'[t] = r /\ \A u \in Turns \ {t} : turns'[u] = turns[u]
  BY TurnSets
<1>10. dropped' \subseteq Turns
  <2>1. Questions(a) \subseteq Turns
    <3>1. \A i \in DOMAIN a : a[i] \in Message
      BY <1>4, ElementOfSeq, LenProperties
    <3>2. \A i \in DOMAIN a : a[i].turn \in Turns
      BY <3>1 DEF Message
    <3> QED BY <3>2 DEF Questions
  <2> QED BY <2>1, <1>5 DEF ChatTypeOK
<1>11. \A x \in ChatSessions : Exists(x)' => Len(sessions'[x]) <= MaxHistory
  BY <1>2, <1>7 DEF ChatTypeOK, Exists
<1>12. DOMAIN win = 1..Len(win) /\ DOMAIN q = 1..Len(q) /\ DOMAIN a = 1..Len(a)
  BY <1>1, <1>2, <1>4, LenProperties
<1>13. d \in Int /\ Len(win) \in Int /\ Len(q) \in Int
  BY <1>1, <1>2
\* A message of the window is the new one or one of before.
<1>14. ASSUME NEW i \in 1..Len(win)
       PROVE  /\ i + d = Len(q) + 1 => win[i] = m
              /\ i + d # Len(q) + 1 => i + d \in 1..Len(q) /\ win[i] = q[i + d]
  BY <1>3, <1>13
\* A question of before is in the window, or dropped.
<1>15. ASSUME NEW k \in 1..Len(q), NEW u \in Turns, q[k] = Asking(u), u \notin dropped'
       PROVE  k - d \in 1..Len(win) /\ win[k - d] = q[k]
  <2>1. k \in Int /\ (k - d) + d = k
    BY <1>13
  <2>2. CASE k > d
    <3>1. k - d \in 1..Len(win) /\ (k - d) + d # Len(q) + 1
      BY <2>1, <2>2, <1>3, <1>13
    <3> QED BY <3>1, <2>1, <1>14
  <2>3. CASE ~(k > d)
    <3>1. u \in Questions(a)
      <4>1. k \in DOMAIN a /\ a[k] = Asking(u)
        BY <1>4, <1>12, <1>15, <1>13
      <4> QED BY <4>1, <1>4, QuestionsAre
    <3>2. u \in Questions(win)
      BY <3>1, <1>5, <1>15
    <3>3. PICK i \in 1..Len(win) : win[i] = Asking(u)
      BY <3>2, <1>2, <1>12, QuestionsAre
    <3>4. CASE i + d = Len(q) + 1
      <4>1. role = "user" /\ u = t
        BY <3>3, <3>4, <1>14 DEF m, Asking
      <4>2. u \in Questions(q)
        BY <1>1, <1>12, <1>15, QuestionsAre
      <4> QED BY <4>1, <4>2 DEF AskedOnce, q
    <3>5. CASE i + d # Len(q) + 1
      <4>1. i + d \in 1..Len(q) /\ q[i + d] = Asking(u)
        BY <3>3, <3>5, <1>14
      <4>2. i + d = k
        BY <4>1, <1>12, <1>15 DEF AskedOnce, q, Asking
      <4> QED BY <4>2, <2>1, <2>3, <1>13
    <3> QED BY <3>4, <3>5
  <2> QED BY <2>2, <2>3
<1>16. AskedOnce'
  <2> SUFFICES ASSUME NEW u \in Turns
               PROVE  /\ \A i, k \in 1..Len(win) : win[i] = Asking(u) /\ win[k] = Asking(u) => i = k
                      /\ u \in Questions(win) => turns'[u].session = s /\ turns'[u].pc \in {"prompt", "generate", "reply", "done", "panicked"}
                      /\ \A x \in ChatSessions \ {s} :
                            u \in Questions(Messages(x)) => turns'[u].session = x /\ turns'[u].pc \in {"prompt", "generate", "reply", "done", "panicked"}
    BY <1>8, <1>12 DEF AskedOnce, Asking
  <2>1. u \in Questions(q) => u # t \/ role = "assistant"
    BY DEF AskedOnce, q
  <2>2. ASSUME NEW i \in 1..Len(win), win[i] = Asking(u)
        PROVE  \/ i + d = Len(q) + 1 /\ role = "user" /\ u = t
               \/ i + d \in 1..Len(q) /\ q[i + d] = Asking(u) /\ u \in Questions(q)
    <3>1. CASE i + d = Len(q) + 1
      BY <3>1, <2>2, <1>14 DEF m, Asking
    <3>2. CASE i + d # Len(q) + 1
      <4>1. i + d \in DOMAIN q /\ q[i + d] = Asking(u)
        BY <3>2, <2>2, <1>12, <1>14
      <4> QED BY <4>1, <1>1, <1>12, QuestionsAre
    <3> QED BY <3>1, <3>2
  <2>3. ASSUME NEW i \in 1..Len(win), NEW k \in 1..Len(win), win[i] = Asking(u), win[k] = Asking(u)
        PROVE  i = k
    <3>1. i \in Int /\ k \in Int
      OBVIOUS
    <3>2. i + d = k + d
      <4>1. \A x, y \in DOMAIN q : q[x] = Asking(u) /\ q[y] = Asking(u) => x = y
        BY DEF AskedOnce, q, Asking
      <4> QED BY <4>1, <2>1, <2>2, <2>3, <1>12
    <3> QED BY <3>1, <3>2, <1>13
  <2>4. ASSUME u \in Questions(win)
        PROVE  turns'[u].session = s /\ turns'[u].pc \in {"prompt", "generate", "reply", "done", "panicked"}
    <3>1. PICK i \in 1..Len(win) : win[i] = Asking(u)
      BY <2>4, <1>2, <1>12, QuestionsAre
    <3>2. CASE u = t
      BY <3>2, <1>9
    <3>3. CASE u # t
      <4>1. u \in Questions(q)
        BY <3>1, <3>3, <2>2
      <4> QED BY <4>1, <3>3, <1>9 DEF AskedOnce, q
    <3> QED BY <3>2, <3>3
  <2>5. ASSUME NEW x \in ChatSessions \ {s}, u \in Questions(Messages(x))
        PROVE  turns'[u].session = x /\ turns'[u].pc \in {"prompt", "generate", "reply", "done", "panicked"}
    <3>1. u # t
      BY <2>5 DEF AskedOnce
    <3> QED BY <3>1, <2>5, <1>9 DEF AskedOnce
  <2> QED BY <2>3, <2>4, <2>5
<1>17. StillThere'
  <2> SUFFICES ASSUME NEW u \in Turns, turns'[u].pc \in {"prompt", "generate", "reply"}, u \notin dropped'
               PROVE  u \in Questions(Messages(turns[u].session))'
    BY DEF StillThere
  <2>1. CASE u = t
    <3>1. role = "user" /\ m = Asking(t)
      BY <2>1, <1>9 DEF m, Asking
    <3>2. t \in Questions(a)
      <4>1. Len(q) + 1 \in DOMAIN a /\ a[Len(q) + 1] = Asking(t)
        BY <3>1, <1>1, <1>4, <1>12
      <4> QED BY <4>1, <1>4, QuestionsAre
    <3> QED BY <2>1, <3>2, <1>5, <1>8, <1>9
  <2>2. CASE u # t
    <3>1. turns'[u] = turns[u] /\ u \notin dropped
      BY <2>2, <1>5, <1>9
    <3>2. u \in Questions(Messages(turns[u].session)) /\ turns[u].session \in ChatSessions
      BY <3>1 DEF StillThere, BatchFits
    <3>3. CASE turns[u].session # s
      BY <3>1, <3>2, <3>3, <1>8
    <3>4. CASE turns[u].session = s
      <4>1. PICK k \in 1..Len(q) : q[k] = Asking(u)
        BY <3>2, <3>4, <1>1, <1>12, QuestionsAre DEF q
      <4>2. k - d \in DOMAIN win /\ win[k - d] = Asking(u)
        BY <4>1, <1>12, <1>15
      <4>3. u \in Questions(win)
        BY <4>2, <1>2, QuestionsAre
      <4> QED BY <4>3, <3>1, <3>4, <1>8
    <3> QED BY <3>3, <3>4
  <2> QED BY <2>1, <2>2
<1>18. AnswerFollowsQuestion'
  <2> SUFFICES ASSUME NEW x \in ChatSessions, NEW i \in DOMAIN Messages(x)',
                      Messages(x)'[i].role = "assistant", Messages(x)'[i].turn \notin dropped'
               PROVE  \E k \in 1..(i - 1) : Messages(x)'[k] = Asking(Messages(x)'[i].turn)
    BY DEF AnswerFollowsQuestion, Asking
  <2>1. CASE x # s
    BY <2>1, <1>5, <1>8 DEF AnswerFollowsQuestion, Asking
  <2>2. CASE x = s
    <3> DEFINE u == win[i].turn
    <3>1. i \in 1..Len(win) /\ i \in Int /\ win[i].role = "assistant" /\ u \notin dropped' /\ u \in Turns
      <4>1. i \in 1..Len(win) /\ win[i].role = "assistant" /\ u \notin dropped'
        BY <2>2, <1>8, <1>12
      <4>2. win[i] \in Message
        BY <4>1, <1>2, ElementOfSeq
      <4> QED BY <4>1, <4>2 DEF Message
    <3>2. PICK k \in 1..Len(q) : q[k] = Asking(u) /\ k < i + d
      <4>1. CASE i + d = Len(q) + 1
        <5>1. win[i] = m
          BY <4>1, <3>1, <1>14
        <5>2. u = t /\ role = "assistant"
          BY <5>1, <3>1 DEF m
        <5>3. t \in Questions(q)
          BY <5>2, <3>1, <1>5 DEF StillThere, q
        <5>4. PICK k \in 1..Len(q) : q[k] = Asking(t)
          BY <5>3, <1>1, <1>12, QuestionsAre
        <5> QED BY <5>2, <5>4, <4>1, <1>13
      <4>2. CASE i + d # Len(q) + 1
        <5>1. i + d \in DOMAIN q /\ win[i] = q[i + d]
          BY <4>2, <3>1, <1>12, <1>14
        <5>2. PICK k \in 1..((i + d) - 1) : q[k] = Asking(u)
          BY <5>1, <3>1, <1>5 DEF AnswerFollowsQuestion, q, Asking
        <5>3. k \in 1..Len(q) /\ k < i + d
          BY <5>1, <5>2, <3>1, <1>12, <1>13
        <5> QED BY <5>2, <5>3
      <4> QED BY <4>1, <4>2
    <3>3. k - d \in 1..Len(win) /\ win[k - d] = Asking(u)
      BY <3>1, <3>2, <1>15
    <3>4. k - d \in 1..(i - 1)
      BY <3>1, <3>2, <3>3, <1>13
    <3> QED BY <2>2, <3>3, <3>4, <1>8
  <2> QED BY <2>1, <2>2
<1> QED BY <1>7, <1>10, <1>11, <1>16, <1>17, <1>18

\* The place and the calls of a request agree.
Fits(r) ==
    /\ r.pc \in {"idle", "model", "push", "prompt", "generate", "reply"} => r.batch = {}
    /\ r.pc = "tools" => Gated(r.batch) = {} /\ r.round < MaxRounds
    /\ r.pc = "park" => r.batch # {} /\ r.batch \subseteq GatedTools
    /\ r.pc # "idle" => r.session \in ChatSessions

LEMMA FitsAgain ==
    ASSUME BatchFits, NEW t \in Turns, NEW r, Fits(r), turns'[t] = r, \A u \in Turns \ {t} : turns'[u] = turns[u]
    PROVE  BatchFits'
<1> SUFFICES ASSUME NEW u \in Turns PROVE Fits(turns'[u])
  BY DEF BatchFits, Fits
<1>1. CASE u = t
  BY <1>1
<1>2. CASE u # t
  BY <1>2 DEF BatchFits, Fits
<1> QED BY <1>1, <1>2

HasAsked == {"prompt", "generate", "reply", "done", "panicked"}
InChat == {"prompt", "generate", "reply"}

\* A request moves on; the messages, the parked calls and the answers stay.
LEMMA TurnGoesOn ==
    ASSUME ChatInductive, NEW t \in Turns, NEW r \in TurnState, TurnSet(t, r), Fits(r),
           r.session = turns[t].session \/ turns[t].pc = "idle",
           turns[t].pc \in HasAsked => r.pc \in HasAsked, r.pc \in InChat => turns[t].pc \in InChat,
           r.pc = "done" => r.batch = {},
           sessions' \in [ChatSessions -> Seq(Message) \cup {Gone}],
           \A s \in ChatSessions : Messages(s)' = Messages(s) /\ (Exists(s)' => Len(sessions'[s]) <= MaxHistory),
           executed' \in [Turns -> SUBSET Tools], NoUnconfirmedTool',
           UNCHANGED <<pending, provider, answered, dropped, deletes>>
    PROVE  ChatInductive'
<1> USE DEF ChatInductive
<1>1. turns' \in [Turns -> TurnState] /\ turns'[t] = r /\ \A u \in Turns \ {t} : turns'[u] = turns[u]
  BY TurnSets
<1>2. ChatTypeOK'
  BY <1>1 DEF ChatTypeOK, TurnState
<1>3. AnswerFollowsQuestion'
  BY DEF AnswerFollowsQuestion
<1>4. NoConfirmationLost'
  <2>1. r.pc = "done" => Gated(r.batch) = {}
    BY DEF Gated
  <2> QED BY <2>1, <1>1 DEF NoConfirmationLost
<1>5. BatchFits'
  BY <1>1, FitsAgain
<1>6. OwnIds'
  BY DEF OwnIds
<1>7. AskedOnce'
  <2> SUFFICES ASSUME NEW u \in Turns, NEW s \in ChatSessions
               PROVE  /\ \A i, k \in DOMAIN Messages(s) :
                            Messages(s)[i] = [role |-> "user", turn |-> u] /\ Messages(s)[k] = [role |-> "user", turn |-> u] => i = k
                      /\ u \in Questions(Messages(s)) => turns'[u].session = s /\ turns'[u].pc \in HasAsked
    BY DEF AskedOnce, HasAsked
  <2>1. /\ \A i, k \in DOMAIN Messages(s) :
             Messages(s)[i] = [role |-> "user", turn |-> u] /\ Messages(s)[k] = [role |-> "user", turn |-> u] => i = k
        /\ u \in Questions(Messages(s)) => turns[u].session = s /\ turns[u].pc \in HasAsked
    BY DEF AskedOnce, HasAsked
  <2>2. CASE u = t
    BY <2>1, <2>2, <1>1 DEF HasAsked
  <2>3. CASE u # t
    BY <2>1, <2>3, <1>1
  <2> QED BY <2>2, <2>3
<1>8. StillThere'
  <2> SUFFICES ASSUME NEW u \in Turns, turns'[u].pc \in InChat, u \notin dropped
               PROVE  u \in Questions(Messages(turns[u].session))'
    BY DEF StillThere, InChat
  <2>1. turns[u].pc \in InChat /\ turns'[u].session = turns[u].session
    BY <1>1 DEF InChat
  <2>2. u \in Questions(Messages(turns[u].session)) /\ turns[u].session \in ChatSessions
    BY <2>1 DEF StillThere, BatchFits, InChat
  <2> QED BY <2>1, <2>2
<1> QED BY <1>2, <1>3, <1>4, <1>5, <1>6, <1>7, <1>8

LEMMA SameSessions ==
    ASSUME ChatTypeOK, UNCHANGED sessions
    PROVE  /\ sessions' \in [ChatSessions -> Seq(Message) \cup {Gone}]
           /\ \A s \in ChatSessions : Messages(s)' = Messages(s) /\ (Exists(s)' => Len(sessions'[s]) <= MaxHistory)
BY DEF ChatTypeOK, Messages, Exists

LEMMA SameExecuted ==
    ASSUME ChatTypeOK, NoUnconfirmedTool, UNCHANGED executed
    PROVE  executed' \in [Turns -> SUBSET Tools] /\ NoUnconfirmedTool'
BY DEF ChatTypeOK, NoUnconfirmedTool

\* A request begins.
LEMMA AskKeeps ==
    ASSUME ChatInductive, NEW t \in Turns, AskPlain(t) \/ AskOrchestrated(t)
    PROVE  ChatInductive'
<1> USE DEF ChatInductive
<1>1. PICK s \in ChatSessions, label \in {"push", "model"} :
         /\ TurnSet(t, [Quiet EXCEPT !.pc = label, !.session = s])
         /\ sessions' = sessions \/ sessions' = [sessions EXCEPT ![s] = Messages(s)]
  BY DEF AskPlain, AskOrchestrated, TurnSet
<1>2. turns[t].pc = "idle" /\ UNCHANGED <<pending, provider, executed, answered, dropped, deletes>>
  BY DEF AskPlain, AskOrchestrated
<1> DEFINE r == [Quiet EXCEPT !.pc = label, !.session = s]
<1>3. r \in TurnState /\ r.pc = label /\ r.session = s /\ r.batch = {}
  <2>1. Quiet \in TurnState /\ Quiet.batch = {}
    BY ChatAssumption DEF Quiet, TurnState, ChatPcs, ChatAssumption
  <2>2. label \in ChatPcs /\ s \in ChatSessions
    BY DEF ChatPcs
  <2> QED BY <2>1, <2>2 DEF TurnState
<1> HIDE DEF r
<1>4. /\ sessions' \in [ChatSessions -> Seq(Message) \cup {Gone}]
      /\ \A x \in ChatSessions : Messages(x)' = Messages(x) /\ (Exists(x)' => Len(sessions'[x]) <= MaxHistory)
  <2>1. CASE sessions' = sessions
    BY <2>1, SameSessions
  <2>2. CASE sessions' = [sessions EXCEPT ![s] = Messages(s)]
    <3>1. Messages(s) \in Seq(Message) /\ Len(Messages(s)) <= MaxHistory /\ Messages(s) # Gone
      BY MessagesTyped, GoneAssumption
    <3>2. /\ sessions' \in [ChatSessions -> Seq(Message) \cup {Gone}] /\ sessions'[s] = Messages(s)
          /\ \A x \in ChatSessions \ {s} : sessions'[x] = sessions[x]
      BY <2>2, <3>1 DEF ChatTypeOK
    <3>3. ASSUME NEW x \in ChatSessions
          PROVE  Messages(x)' = Messages(x) /\ (Exists(x)' => Len(sessions'[x]) <= MaxHistory)
      <4>1. CASE x = s
        BY <4>1, <3>1, <3>2 DEF Messages, Exists
      <4>2. CASE x # s
        BY <4>2, <3>2 DEF Messages, Exists, ChatTypeOK
      <4> QED BY <4>1, <4>2
    <3> QED BY <3>2, <3>3
  <2> QED BY <1>1, <2>1, <2>2
<1>5. Fits(r)
  BY <1>3 DEF Fits
<1>6. TurnSet(t, r)
  BY <1>1 DEF r
<1> QED BY <1>2, <1>3, <1>4, <1>5, <1>6, SameExecuted, TurnGoesOn DEF HasAsked, InChat

LEMMA CallModelKeeps ==
    ASSUME ChatInductive, NEW t \in Turns, CallModel(t)
    PROVE  ChatInductive'
<1> USE DEF ChatInductive
<1>1. /\ turns[t].pc = "model" /\ turns[t].round < MaxRounds /\ turns[t].batch = {}
      /\ turns[t].session \in ChatSessions /\ turns[t] \in TurnState
      /\ UNCHANGED <<sessions, pending, provider, executed, answered, dropped, deletes>>
  BY DEF CallModel, BatchFits, ChatTypeOK, TurnState
<1>2. ASSUME NEW label \in {"push", "done"}, TurnTo(t, label) PROVE ChatInductive'
  <2>1. PICK r \in TurnState : /\ TurnSet(t, r) /\ r.pc = label /\ r.session = turns[t].session
                               /\ r.round = turns[t].round /\ r.batch = turns[t].batch
    BY <1>2, TurnMoved DEF ChatPcs
  <2>2. Fits(r)
    BY <2>1, <1>1 DEF Fits
  <2> QED BY <2>1, <2>2, <1>1, SameSessions, SameExecuted, TurnGoesOn DEF HasAsked, InChat
<1>3. ASSUME NEW B \in SUBSET Tools, B # {},
             turns' = [turns EXCEPT ![t].pc = IF Gated(B) = {} THEN "tools" ELSE "park",
                                    ![t].batch = IF Gated(B) = {} THEN B ELSE Gated(B)]
      PROVE  ChatInductive'
  <2> DEFINE label == IF Gated(B) = {} THEN "tools" ELSE "park"
             C == IF Gated(B) = {} THEN B ELSE Gated(B)
             r == [turns[t] EXCEPT !.pc = label, !.batch = C]
  <2>1. TurnSet(t, r)
    BY <1>3 DEF TurnSet
  <2>2. /\ label \in {"tools", "park"} /\ C \in SUBSET Tools
        /\ label = "tools" => Gated(C) = {}
        /\ label = "park" => C # {} /\ C \subseteq GatedTools
    BY <1>3 DEF Gated
  <2> HIDE DEF label, C
  <2>3. r \in TurnState /\ r.pc = label /\ r.batch = C /\ r.session = turns[t].session /\ r.round = turns[t].round
    BY <1>1, <2>2 DEF TurnState, ChatPcs
  <2> HIDE DEF r
  <2>4. Fits(r)
    BY <1>1, <2>2, <2>3 DEF Fits
  <2>5. r.pc \notin HasAsked /\ r.pc \notin InChat /\ r.pc # "done" /\ turns[t].pc \notin HasAsked
    BY <1>1, <2>2, <2>3 DEF HasAsked, InChat
  <2> QED BY <2>1, <2>3, <2>4, <2>5, <1>1, SameSessions, SameExecuted, TurnGoesOn
<1>4. TurnTo(t, "push") \/ TurnTo(t, "done") => ChatInductive'
  BY <1>2
<1> QED BY <1>3, <1>4 DEF CallModel

\* A step that only moves the request on.
LEMMA MoveKeeps ==
    ASSUME ChatInductive, NEW t \in Turns, NEW label \in {"done", "generate", "reply", "panicked"}, TurnTo(t, label),
           \/ turns[t].pc = "model" /\ label = "done"
           \/ turns[t].pc \in InChat,
           UNCHANGED <<sessions, pending, provider, executed, answered, dropped, deletes>>
    PROVE  ChatInductive'
<1> USE DEF ChatInductive
<1>1. turns[t].batch = {} /\ turns[t].session \in ChatSessions
  BY DEF BatchFits, InChat
<1>2. PICK r \in TurnState : /\ TurnSet(t, r) /\ r.pc = label /\ r.session = turns[t].session
                             /\ r.round = turns[t].round /\ r.batch = turns[t].batch
  BY TurnMoved DEF ChatPcs
<1>3. Fits(r)
  BY <1>1, <1>2 DEF Fits
<1>4. (turns[t].pc \in HasAsked => r.pc \in HasAsked) /\ (r.pc \in InChat => turns[t].pc \in InChat)
  BY <1>2 DEF HasAsked, InChat
<1> QED BY <1>1, <1>2, <1>3, <1>4, SameSessions, SameExecuted, TurnGoesOn

LEMMA RoundLeft == \A k \in 0..MaxRounds : k < MaxRounds => k + 1 \in 0..MaxRounds
BY ChatAssumption DEF ChatAssumption

LEMMA RunToolKeeps ==
    ASSUME ChatInductive, NEW t \in Turns, RunTool(t)
    PROVE  ChatInductive'
<1> USE DEF ChatInductive
<1> PICK tool \in turns[t].batch :
       LET left == turns[t].batch \ {tool}
       IN  /\ executed' = [executed EXCEPT ![t] = @ \cup {tool}]
           /\ turns' = [turns EXCEPT ![t].batch = left,
                                     ![t].pc = IF left = {} THEN "model" ELSE "tools",
                                     ![t].round = IF left = {} THEN NextRound(t) ELSE @]
  BY DEF RunTool
<1>1. /\ turns[t].pc = "tools" /\ turns[t].round < MaxRounds /\ Gated(turns[t].batch) = {}
      /\ turns[t].session \in ChatSessions /\ turns[t] \in TurnState
      /\ UNCHANGED <<sessions, pending, provider, answered, dropped, deletes>>
  BY DEF RunTool, BatchFits, ChatTypeOK, TurnState
<1> DEFINE left == turns[t].batch \ {tool}
           label == IF left = {} THEN "model" ELSE "tools"
           n == IF left = {} THEN NextRound(t) ELSE turns[t].round
           r == [turns[t] EXCEPT !.batch = left, !.pc = label, !.round = n]
<1>2. TurnSet(t, r)
  BY DEF TurnSet
<1>3. n \in 0..MaxRounds /\ left \in SUBSET Tools
  <2>1. turns[t].round \in 0..MaxRounds /\ turns[t].batch \in SUBSET Tools
    BY <1>1 DEF TurnState
  <2>2. turns[t].round + 1 \in 0..MaxRounds
    BY <2>1, <1>1, RoundLeft
  <2> QED BY <2>1, <2>2 DEF NextRound
<1>4. /\ label \in {"model", "tools"} /\ Gated(left) = {} /\ (label = "model" => left = {})
      /\ (label = "tools" => n = turns[t].round)
  BY <1>1 DEF Gated
<1> HIDE DEF left, label, n
<1>5. r \in TurnState /\ r.pc = label /\ r.batch = left /\ r.session = turns[t].session /\ r.round = n
  BY <1>1, <1>3, <1>4 DEF TurnState, ChatPcs
<1> HIDE DEF r
<1>6. Fits(r)
  BY <1>1, <1>4, <1>5 DEF Fits
<1>7. r.pc \notin HasAsked /\ r.pc \notin InChat /\ r.pc # "done" /\ turns[t].pc \notin HasAsked
  BY <1>1, <1>4, <1>5 DEF HasAsked, InChat
<1>8. tool \in Tools /\ tool \notin GatedTools
  BY <1>1 DEF TurnState, Gated
<1>9. executed' \in [Turns -> SUBSET Tools] /\ NoUnconfirmedTool'
  <2>1. executed' = [executed EXCEPT ![t] = executed[t] \cup {tool}]
    OBVIOUS
  <2>2. executed' \in [Turns -> SUBSET Tools]
    BY <2>1, <1>8 DEF ChatTypeOK
  <2>3. \A u \in Turns : executed'[u] \subseteq executed[u] \cup {tool}
    BY <2>1 DEF ChatTypeOK
  <2> QED BY <2>2, <2>3, <1>8 DEF NoUnconfirmedTool
<1> QED BY <1>1, <1>2, <1>5, <1>6, <1>7, <1>9, SameSessions, TurnGoesOn

\* A message is recorded.
LEMMA RecordKeeps ==
    ASSUME ChatInductive, NEW t \in Turns, NEW role \in {"user", "assistant"},
           NEW label \in {"prompt", "done"}, TurnTo(t, label),
           PushMessage(turns[t].session, role, t),
           \/ role = "user" /\ turns[t].pc = "push" /\ label = "prompt"
           \/ role = "assistant" /\ turns[t].pc = "reply" /\ label = "done" /\ Exists(turns[t].session),
           UNCHANGED <<pending, provider, executed, answered, deletes>>
    PROVE  ChatInductive'
<1> USE DEF ChatInductive
<1>1. turns[t].batch = {} /\ turns[t].session \in ChatSessions
  BY DEF BatchFits
<1>2. PICK r \in TurnState : /\ TurnSet(t, r) /\ r.pc = label /\ r.session = turns[t].session
                             /\ r.round = turns[t].round /\ r.batch = turns[t].batch
  BY TurnMoved DEF ChatPcs
<1>3. /\ sessions' \in [ChatSessions -> Seq(Message) \cup {Gone}]
      /\ \A x \in ChatSessions : Exists(x)' => Len(sessions'[x]) <= MaxHistory
      /\ dropped' \subseteq Turns
      /\ AnswerFollowsQuestion' /\ AskedOnce' /\ StillThere'
  <2> DEFINE s == turns[t].session
  <2>1. s \in ChatSessions /\ s = turns[t].session /\ r.session = s /\ PushMessage(s, role, t)
    BY <1>1, <1>2
  <2>2. \/ role = "user" /\ turns[t].pc = "push" /\ r.pc = "prompt"
        \/ role = "assistant" /\ turns[t].pc = "reply" /\ r.pc = "done" /\ Exists(s)
    BY <1>2
  <2> HIDE DEF s, ChatInductive
  <2> QED BY <2>1, <2>2, <1>2, Recorded
<1>4. turns' \in [Turns -> TurnState] /\ turns'[t] = r /\ \A u \in Turns \ {t} : turns'[u] = turns[u]
  BY <1>2, TurnSets
<1>5. ChatTypeOK'
  BY <1>3, <1>4 DEF ChatTypeOK, TurnState
<1>6. NoConfirmationLost'
  <2>1. Gated(r.batch) = {}
    BY <1>1, <1>2 DEF Gated
  <2> QED BY <2>1, <1>4 DEF NoConfirmationLost
<1>7. BatchFits'
  <2>1. Fits(r)
    BY <1>1, <1>2 DEF Fits
  <2> QED BY <2>1, <1>4, FitsAgain
<1>8. OwnIds' /\ NoUnconfirmedTool'
  BY DEF OwnIds, NoUnconfirmedTool
<1> QED BY <1>3, <1>5, <1>6, <1>7, <1>8

LEMMA ChatKeeps ==
    ASSUME ChatInductive, NEW t \in Turns,
           GiveUp(t) \/ PushQuestion(t) \/ BuildPrompt(t) \/ Generate(t) \/ PushReply(t)
    PROVE  ChatInductive'
<1>1. CASE GiveUp(t)
  BY <1>1, MoveKeeps DEF GiveUp
<1>2. CASE PushQuestion(t)
  BY <1>2, RecordKeeps DEF PushQuestion
<1>3. CASE BuildPrompt(t)
  BY <1>3, MoveKeeps DEF BuildPrompt, InChat
<1>4. CASE Generate(t)
  BY <1>4, MoveKeeps DEF Generate, InChat
<1>5. CASE PushReply(t)
  <2>1. CASE Exists(turns[t].session)
    BY <1>5, <2>1, RecordKeeps DEF PushReply
  <2>2. CASE ~Exists(turns[t].session)
    BY <1>5, <2>2, MoveKeeps DEF PushReply, InChat
  <2> QED BY <2>1, <2>2
<1> QED BY <1>1, <1>2, <1>3, <1>4, <1>5

\* A parked call is not the absence of one.
LEMMA ParkedIsCall == \A c \in Parked : c # NoCall
<1> SUFFICES ASSUME NEW c \in Parked PROVE c # NoCall
  OBVIOUS
<1>1. DOMAIN c = {"session", "tool", "turn"} /\ DOMAIN NoCall = {"session"}
  BY DEF Parked, NoCall
<1>2. "tool" \in DOMAIN c /\ "tool" \notin DOMAIN NoCall
  BY <1>1
<1> QED BY <1>2

LEMMA ParkKeeps ==
    ASSUME ChatInductive, NEW t \in Turns, ParkCall(t)
    PROVE  ChatInductive'
<1> USE DEF ChatInductive
<1>1. /\ turns[t].pc = "park" /\ TurnTo(t, "done") /\ turns[t].batch \subseteq GatedTools
      /\ turns[t].session \in ChatSessions
      /\ UNCHANGED <<sessions, provider, executed, answered, dropped, deletes>>
  BY DEF ParkCall, BatchFits
<1>2. PICK tool \in turns[t].batch :
         pending' = [pending EXCEPT ![ConfirmationId(t)] = [session |-> turns[t].session, tool |-> tool, turn |-> t]]
  BY DEF ParkCall
<1> DEFINE call == [session |-> turns[t].session, tool |-> tool, turn |-> t]
           id == ConfirmationId(t)
<1>3. call \in Parked /\ call.turn = t /\ id \in ConfirmationIds /\ (provider # "ollama" => id = t)
  BY <1>1 DEF Parked, ConfirmationId, ConfirmationIds
<1> HIDE DEF call, id
<1>4. /\ pending' \in [ConfirmationIds -> Parked \cup {NoCall}] /\ pending'[id] = call
      /\ \A i \in ConfirmationIds \ {id} : pending'[i] = pending[i]
  BY <1>2, <1>3 DEF ChatTypeOK, call, id
<1>5. PICK r \in TurnState : /\ TurnSet(t, r) /\ r.pc = "done" /\ r.session = turns[t].session
                             /\ r.round = turns[t].round /\ r.batch = turns[t].batch
  BY <1>1, TurnMoved DEF ChatPcs
<1>6. turns' \in [Turns -> TurnState] /\ turns'[t] = r /\ \A u \in Turns \ {t} : turns'[u] = turns[u]
  BY <1>5, TurnSets
<1>7. ChatTypeOK'
  BY <1>1, <1>4, <1>6 DEF ChatTypeOK, TurnState, Exists
<1>8. \A s \in ChatSessions : Messages(s)' = Messages(s)
  BY <1>1, SameSessions
<1>9. AnswerFollowsQuestion' /\ NoUnconfirmedTool'
  BY <1>1, <1>8 DEF AnswerFollowsQuestion, NoUnconfirmedTool
<1>10. NoConfirmationLost'
  <2> SUFFICES ASSUME NEW u \in Turns, turns'[u].pc = "done", Gated(turns'[u].batch) # {}, provider # "ollama"
               PROVE  u \in answered \/ \E i \in ConfirmationIds : pending'[i] # NoCall /\ pending'[i].turn = u
    BY <1>1 DEF NoConfirmationLost, Gated
  <2>1. CASE u = t
    BY <2>1, <1>3, <1>4, ParkedIsCall
  <2>2. CASE u # t
    <3>1. u \in answered \/ \E i \in ConfirmationIds : pending[i] # NoCall /\ pending[i].turn = u
      BY <2>2, <1>6 DEF NoConfirmationLost
    <3>2. ASSUME NEW i \in ConfirmationIds, pending[i] # NoCall, pending[i].turn = u
          PROVE  pending'[i] = pending[i]
      BY <3>2, <2>2, <1>3, <1>4 DEF OwnIds
    <3> QED BY <3>1, <3>2
  <2> QED BY <2>1, <2>2
<1>11. BatchFits'
  <2>1. Fits(r)
    BY <1>1, <1>5 DEF Fits
  <2> QED BY <2>1, <1>6, FitsAgain
<1>12. OwnIds'
  BY <1>1, <1>3, <1>4 DEF OwnIds
<1>13. AskedOnce'
  <2>1. \A u \in Turns : turns'[u].session = turns[u].session
    BY <1>5, <1>6
  <2>2. \A u \in Turns : turns[u].pc \in {"prompt", "generate", "reply", "done", "panicked"} => turns'[u].pc = turns[u].pc
    BY <1>1, <1>6
  <2> QED BY <2>1, <2>2, <1>8 DEF AskedOnce
<1>14. StillThere'
  <2> SUFFICES ASSUME NEW u \in Turns, turns'[u].pc \in {"prompt", "generate", "reply"}, u \notin dropped
               PROVE  u \in Questions(Messages(turns[u].session))'
    BY <1>1 DEF StillThere
  <2>1. u # t /\ turns'[u] = turns[u]
    BY <1>5, <1>6
  <2>2. u \in Questions(Messages(turns[u].session)) /\ turns[u].session \in ChatSessions
    BY <2>1 DEF StillThere, BatchFits
  <2> QED BY <2>1, <2>2, <1>8
<1> QED BY <1>7, <1>9, <1>10, <1>11, <1>12, <1>13, <1>14

LEMMA ConfirmKeeps ==
    ASSUME ChatInductive, NEW i \in ConfirmationIds, Confirm(i)
    PROVE  ChatInductive'
<1> USE DEF ChatInductive
<1>1. /\ pending[i] # NoCall /\ answered' = answered \cup {pending[i].turn}
      /\ pending' = [pending EXCEPT ![i] = NoCall]
      /\ UNCHANGED <<sessions, turns, provider, executed, dropped, deletes>>
  BY DEF Confirm
<1>2. pending[i].turn \in Turns
  BY <1>1 DEF ChatTypeOK, Parked
<1>3. /\ pending' \in [ConfirmationIds -> Parked \cup {NoCall}] /\ pending'[i] = NoCall
      /\ \A k \in ConfirmationIds \ {i} : pending'[k] = pending[k]
  BY <1>1 DEF ChatTypeOK
<1>4. ChatTypeOK'
  BY <1>1, <1>2, <1>3 DEF ChatTypeOK, Exists
<1>5. AnswerFollowsQuestion' /\ NoUnconfirmedTool' /\ BatchFits' /\ AskedOnce' /\ StillThere'
  <2>1. \A s : Messages(s)' = Messages(s)
    BY <1>1 DEF Messages, Exists
  <2>2. AnswerFollowsQuestion' /\ NoUnconfirmedTool'
    BY <1>1, <2>1 DEF AnswerFollowsQuestion, NoUnconfirmedTool
  <2>3. BatchFits' /\ AskedOnce'
    BY <1>1, <2>1 DEF BatchFits, AskedOnce
  <2>4. StillThere'
    BY <1>1, <2>1 DEF StillThere
  <2> QED BY <2>2, <2>3, <2>4
<1>6. OwnIds'
  BY <1>1, <1>3 DEF OwnIds
<1>7. NoConfirmationLost'
  <2> SUFFICES ASSUME NEW u \in Turns, turns[u].pc = "done", Gated(turns[u].batch) # {}, provider # "ollama",
                      u \notin answered'
               PROVE  \E k \in ConfirmationIds : pending'[k] # NoCall /\ pending'[k].turn = u
    BY <1>1 DEF NoConfirmationLost, Gated
  <2>1. PICK k \in ConfirmationIds : pending[k] # NoCall /\ pending[k].turn = u
    BY <1>1 DEF NoConfirmationLost
  <2>2. k # i
    BY <2>1, <1>1
  <2> QED BY <2>1, <2>2, <1>3
<1> QED BY <1>4, <1>5, <1>6, <1>7

LEMMA DeleteKeeps ==
    ASSUME ChatInductive, NEW s \in ChatSessions, DeleteSession(s)
    PROVE  ChatInductive'
<1> USE DEF ChatInductive
<1>1. /\ Exists(s) /\ deletes < MaxDeletes /\ deletes' = deletes + 1
      /\ dropped' = dropped \cup Questions(sessions[s]) /\ sessions' = [sessions EXCEPT ![s] = Gone]
      /\ UNCHANGED <<turns, pending, provider, executed, answered>>
  BY DEF DeleteSession
<1>2. Messages(s) = sessions[s] /\ Messages(s) \in Seq(Message)
  BY <1>1, MessagesTyped DEF Messages
<1>3. /\ sessions' \in [ChatSessions -> Seq(Message) \cup {Gone}] /\ sessions'[s] = Gone
      /\ \A x \in ChatSessions \ {s} : sessions'[x] = sessions[x]
  BY <1>1 DEF ChatTypeOK
<1>4. Messages(s)' = << >> /\ \A x \in ChatSessions \ {s} : Messages(x)' = Messages(x)
  BY <1>3 DEF Messages, Exists
<1>5. Questions(sessions[s]) \subseteq Turns
  <2>1. \A i \in DOMAIN Messages(s) : Messages(s)[i] \in Message
    BY <1>2, ElementOfSeq, LenProperties
  <2>2. \A i \in DOMAIN Messages(s) : Messages(s)[i].turn \in Turns
    BY <2>1 DEF Message
  <2> QED BY <2>2, <1>2 DEF Questions
<1>6. ChatTypeOK'
  <2>1. deletes' \in 0..MaxDeletes
    BY <1>1, ChatAssumption DEF ChatTypeOK, ChatAssumption
  <2>2. \A x \in ChatSessions : Exists(x)' => Len(sessions'[x]) <= MaxHistory
    BY <1>3 DEF ChatTypeOK, Exists
  <2> QED BY <2>1, <2>2, <1>1, <1>3, <1>5 DEF ChatTypeOK
<1>7. DOMAIN Messages(s)' = {} /\ Questions(Messages(s))' = {}
  <2>1. DOMAIN << >> = {}
    OBVIOUS
  <2>2. Questions(<< >>) = {}
    BY <2>1 DEF Questions
  <2> QED BY <2>1, <2>2, <1>4
<1>8. AnswerFollowsQuestion'
  <2> SUFFICES ASSUME NEW x \in ChatSessions, NEW i \in DOMAIN Messages(x)',
                      Messages(x)'[i].role = "assistant", Messages(x)'[i].turn \notin dropped'
               PROVE  \E k \in 1..(i - 1) : Messages(x)'[k] = Asking(Messages(x)'[i].turn)
    BY DEF AnswerFollowsQuestion, Asking
  <2>1. x # s /\ Messages(x)' = Messages(x)
    BY <1>4, <1>7
  <2> QED BY <2>1, <1>1 DEF AnswerFollowsQuestion, Asking
<1>9. AskedOnce'
  <2> SUFFICES ASSUME NEW u \in Turns, NEW x \in ChatSessions
               PROVE  /\ \A i, k \in DOMAIN Messages(x)' :
                            Messages(x)'[i] = [role |-> "user", turn |-> u] /\ Messages(x)'[k] = [role |-> "user", turn |-> u] => i = k
                      /\ u \in Questions(Messages(x))' =>
                            turns[u].session = x /\ turns[u].pc \in {"prompt", "generate", "reply", "done", "panicked"}
    BY <1>1 DEF AskedOnce
  <2>1. CASE x = s
    BY <2>1, <1>7
  <2>2. CASE x # s
    <3>1. Messages(x)' = Messages(x)
      BY <2>2, <1>4
    <3> QED BY <3>1 DEF AskedOnce
  <2> QED BY <2>1, <2>2
<1>10. StillThere'
  <2> SUFFICES ASSUME NEW u \in Turns, turns[u].pc \in {"prompt", "generate", "reply"}, u \notin dropped'
               PROVE  u \in Questions(Messages(turns[u].session))'
    BY <1>1 DEF StillThere
  <2>1. u \in Questions(Messages(turns[u].session)) /\ turns[u].session \in ChatSessions
    BY <1>1 DEF StillThere, BatchFits
  <2>2. turns[u].session # s
    BY <2>1, <1>1, <1>2
  <2>3. Messages(turns[u].session)' = Messages(turns[u].session)
    BY <2>1, <2>2, <1>1, <1>4
  <2> QED BY <2>1, <2>3
<1>11. NoUnconfirmedTool' /\ NoConfirmationLost' /\ BatchFits' /\ OwnIds'
  BY <1>1 DEF NoUnconfirmedTool, NoConfirmationLost, BatchFits, OwnIds
<1> QED BY <1>6, <1>8, <1>9, <1>10, <1>11

LEMMA ChatStutter == ChatInductive /\ UNCHANGED chatVars => ChatInductive'
<1> SUFFICES ASSUME ChatInductive, UNCHANGED chatVars PROVE ChatInductive'
  OBVIOUS
<1>1. /\ sessions' = sessions /\ turns' = turns /\ pending' = pending /\ provider' = provider
      /\ executed' = executed /\ answered' = answered /\ dropped' = dropped /\ deletes' = deletes
  BY DEF chatVars
<1>2. ChatTypeOK'
  BY <1>1 DEF ChatInductive, ChatTypeOK, Exists
<1>3. \A s \in ChatSessions : Messages(s)' = Messages(s)
  BY <1>1 DEF Messages, Exists
<1>4. AnswerFollowsQuestion' /\ AskedOnce'
  <2>1. AnswerFollowsQuestion'
    BY <1>1, <1>3 DEF ChatInductive, AnswerFollowsQuestion
  <2>2. AskedOnce'
    BY <1>1, <1>3 DEF ChatInductive, AskedOnce
  <2> QED BY <2>1, <2>2
<1>5. StillThere'
  <2> SUFFICES ASSUME NEW u \in Turns, turns[u].pc \in {"prompt", "generate", "reply"}, u \notin dropped
               PROVE  u \in Questions(Messages(turns[u].session)')
    BY <1>1 DEF StillThere
  <2>1. turns[u].session \in ChatSessions
    BY DEF ChatInductive, BatchFits
  <2>2. u \in Questions(Messages(turns[u].session))
    BY DEF ChatInductive, StillThere
  <2>3. Messages(turns[u].session)' = Messages(turns[u].session)
    BY <2>1, <1>3, <1>1
  <2> QED BY <2>2, <2>3, <1>1
<1>6. NoUnconfirmedTool' /\ NoConfirmationLost' /\ BatchFits' /\ OwnIds'
  BY <1>1 DEF ChatInductive, NoUnconfirmedTool, NoConfirmationLost, BatchFits, OwnIds
<1> QED BY <1>2, <1>4, <1>5, <1>6 DEF ChatInductive

LEMMA ChatInitially == ChatInit => ChatInductive
<1> SUFFICES ASSUME ChatInit PROVE ChatInductive
  OBVIOUS
<1> USE DEF ChatInit
<1>1. Quiet \in TurnState /\ Quiet.pc = "idle" /\ Quiet.batch = {}
  BY ChatAssumption DEF Quiet, TurnState, ChatPcs, ChatAssumption
<1>2. ChatTypeOK
  BY <1>1, ChatAssumption DEF ChatTypeOK, TurnState, Exists, ChatAssumption
<1>3. \A s \in ChatSessions : Messages(s) = << >> /\ DOMAIN Messages(s) = {} /\ Questions(Messages(s)) = {}
  BY DEF Messages, Exists, Questions
<1>4. AnswerFollowsQuestion /\ AskedOnce
  BY <1>3 DEF AnswerFollowsQuestion, AskedOnce
<1>5. NoUnconfirmedTool /\ NoConfirmationLost /\ BatchFits /\ OwnIds /\ StillThere
  BY <1>1 DEF NoUnconfirmedTool, NoConfirmationLost, BatchFits, OwnIds, StillThere
<1> QED BY <1>2, <1>4, <1>5 DEF ChatInductive

LEMMA ChatStep == ChatInductive /\ [ChatNext]_chatVars => ChatInductive'
<1> SUFFICES ASSUME ChatInductive, [ChatNext]_chatVars PROVE ChatInductive'
  OBVIOUS
<1>1. ASSUME NEW t \in Turns, AskPlain(t) \/ AskOrchestrated(t) \/ TurnStep(t) PROVE ChatInductive'
  BY <1>1, AskKeeps, CallModelKeeps, RunToolKeeps, ParkKeeps, ChatKeeps DEF TurnStep
<1>2. ASSUME NEW i \in ConfirmationIds, Confirm(i) PROVE ChatInductive'
  BY <1>2, ConfirmKeeps
<1>3. ASSUME NEW s \in ChatSessions, DeleteSession(s) PROVE ChatInductive'
  BY <1>3, DeleteKeeps
<1>4. CASE UNCHANGED chatVars
  BY <1>4, ChatStutter
<1> QED BY <1>1, <1>2, <1>3, <1>4 DEF ChatNext

\* The assistant, for any number of requests, sessions, rounds and tools, however
\* requests of one session, confirmations and deletions interleave: a recorded
\* answer has its question before it unless the question was dropped, no gated
\* tool runs without the user, and a parked call waits for its answer
\* (vectors/chat.rs, vectors/chat_orchestrator.rs, api/ai.rs).
THEOREM ChatHolds == ChatSpec => []ChatInv
<1>1. ChatInductive => ChatInv
  BY DEF ChatInductive, ChatInv
<1> QED BY ChatInitially, ChatStep, <1>1, PTL DEF ChatSpec

-----------------------------------------------------------------------------
(* The generative router *)

OneOfEachType(list) == \A i, k \in DOMAIN list : list[i].type = list[k].type => i = k

Calls == [pc : {"idle", "asking", "answered", "failed"}, todo : Seq(Provider),
          copy : SUBSET Provider, asked : SUBSET Provider]

RouterTypes == RouterTypeOK /\ calls \in [ModelCallers -> Calls]

\* Of the providers a call copied, each was asked or is still to be asked.
NobodyIsSkipped ==
    \A c \in ModelCallers :
        /\ calls[c].pc \in {"asking", "failed"} => calls[c].asked \cup ToSet(calls[c].todo) = calls[c].copy
        /\ calls[c].pc = "failed" => calls[c].todo = << >>

\* An entry of DOWNLOADING has its task.
DownloadsRun == \A m \in downloading : Busy(m)

\* What the user chose last is in effect, or one task is on its way to put it so.
ChoiceOnItsWay ==
    chosen # NoModel =>
        \/ /\ \A k \in Tasks : ~Busy(k)
           /\ setting = chosen
           /\ restarts = 0 \/ configured = "builtin" => BuiltInModels = {chosen}
        \/ \E k \in Tasks :
              /\ Busy(k) /\ \A j \in Tasks \ {k} : ~Busy(j)
              /\ tasks[k].model = chosen
              /\ tasks[k].pc \in {"persist", "release"} => BuiltInModels = {chosen}
              /\ tasks[k].pc = "release" => setting = chosen

RouterInd == RouterTypes /\ NobodyIsSkipped /\ DownloadsRun /\ ChoiceOnItsWay

\* There are two types, so no list has more than two providers.
LEMMA AtMostTwo ==
    ASSUME NEW list \in Seq(Provider), OneOfEachType(list)
    PROVE  Len(list) \in 0..2
<1>1. Len(list) \in Nat /\ DOMAIN list = 1..Len(list)
  OBVIOUS
<1>2. ASSUME Len(list) > 2 PROVE FALSE
  <2>1. 1 \in DOMAIN list /\ 2 \in DOMAIN list /\ 3 \in DOMAIN list
    BY <1>1, <1>2
  <2>2. list[1] \in Provider /\ list[2] \in Provider /\ list[3] \in Provider
    BY <2>1
  <2>3. list[1].type \in Types /\ list[2].type \in Types /\ list[3].type \in Types
    BY <2>2 DEF Provider
  <2> QED BY <2>1, <2>3 DEF OneOfEachType, Types
<1> QED BY <1>1, <1>2

\* Places of such a list can be put in order.
LEMMA Enumerated ==
    ASSUME NEW places \in SUBSET (1..2)
    PROVE  /\ Cardinality(places) \in Nat
           /\ InOrder(places) \in [1..Cardinality(places) -> places]
           /\ \A i, k \in 1..Cardinality(places) : i < k => InOrder(places)[i] < InOrder(places)[k]
<1> DEFINE Ordered(f) == \A i, k \in DOMAIN f : i < k => f[i] < f[k]
<1>1. \/ places = {} \/ places = {1} \/ places = {2} \/ places = {1, 2}
  <2>1. 1..2 = {1, 2}
    OBVIOUS
  <2> QED BY <2>1
<1>2. Cardinality({}) = 0 /\ Cardinality({1}) = 1 /\ Cardinality({2}) = 1
  BY FS_EmptySet, FS_Singleton
<1>3. Cardinality({1, 2}) = 2
  <2>1. IsFiniteSet({1}) /\ {1, 2} = {1} \cup {2}
    BY FS_Singleton
  <2>2. Cardinality({1} \cup {2}) = IF 2 \in {1} THEN Cardinality({1}) ELSE Cardinality({1}) + 1
    BY <2>1, FS_AddElement
  <2> QED BY <1>2, <2>1, <2>2
<1>4. Cardinality(places) \in Nat
  <2>1. places = {} => Cardinality(places) \in Nat
    BY <1>2
  <2>2. places = {1} => Cardinality(places) \in Nat
    BY <1>2
  <2>3. places = {2} => Cardinality(places) \in Nat
    BY <1>2
  <2>4. places = {1, 2} => Cardinality(places) \in Nat
    BY <1>3
  <2> QED BY <1>1, <2>1, <2>2, <2>3, <2>4
<1>5. \E f \in [1..Cardinality(places) -> places] : Ordered(f)
  <2>1. CASE places = {}
    <3>1. [n \in 1..0 |-> n] \in [1..0 -> {}] /\ Ordered([n \in 1..0 |-> n])
      OBVIOUS
    <3> QED BY <1>2, <2>1, <3>1
  <2>2. CASE places = {1}
    <3>1. [n \in 1..1 |-> 1] \in [1..1 -> {1}] /\ Ordered([n \in 1..1 |-> 1])
      OBVIOUS
    <3> QED BY <1>2, <2>2, <3>1
  <2>3. CASE places = {2}
    <3>1. [n \in 1..1 |-> 2] \in [1..1 -> {2}] /\ Ordered([n \in 1..1 |-> 2])
      OBVIOUS
    <3> QED BY <1>2, <2>3, <3>1
  <2>4. CASE places = {1, 2}
    <3>1. [n \in 1..2 |-> n] \in [1..2 -> {1, 2}] /\ Ordered([n \in 1..2 |-> n])
      OBVIOUS
    <3> QED BY <1>3, <2>4, <3>1
  <2> QED BY <1>1, <2>1, <2>2, <2>3, <2>4
<1>6. InOrder(places) \in [1..Cardinality(places) -> places] /\ Ordered(InOrder(places))
  BY <1>5 DEF InOrder
<1> QED BY <1>4, <1>6

\* What is left of a list are providers of the list, one of each type.
LEMMA LeftOver ==
    ASSUME NEW list \in Seq(Provider), OneOfEachType(list), NEW places \in SUBSET DOMAIN list
    PROVE  /\ EntriesAt(list, places) \in Seq(Provider) /\ OneOfEachType(EntriesAt(list, places))
           /\ \A i \in DOMAIN EntriesAt(list, places) :
                 \E k \in places : EntriesAt(list, places)[i] = list[k]
<1> DEFINE left == EntriesAt(list, places)   n == Cardinality(places)   f == InOrder(places)
<1>1. DOMAIN list = 1..Len(list) /\ Len(list) \in 0..2
  BY AtMostTwo
<1>2. places \subseteq 1..2
  BY <1>1
<1>3. n \in Nat /\ f \in [1..n -> places] /\ \A i, k \in 1..n : i < k => f[i] < f[k]
  BY <1>2, Enumerated
<1>4. left = [i \in 1..n |-> list[f[i]]]
  BY DEF EntriesAt
<1> HIDE DEF left, n, f
<1>5. DOMAIN left = 1..n /\ \A i \in 1..n : f[i] \in places /\ left[i] = list[f[i]]
  BY <1>3, <1>4
<1>6. \A i \in 1..n : left[i] \in Provider
  BY <1>5
<1>7. left \in Seq(Provider)
  BY <1>3, <1>4, <1>6
<1>8. OneOfEachType(left)
  <2> SUFFICES ASSUME NEW i \in 1..n, NEW k \in 1..n, left[i].type = left[k].type PROVE i = k
    BY <1>5 DEF OneOfEachType
  <2>1. f[i] = f[k]
    BY <1>5 DEF OneOfEachType
  <2>2. f[i] \in Int /\ f[k] \in Int
    BY <1>2, <1>5
  <2> QED BY <1>3, <2>1, <2>2
<1> QED BY <1>5, <1>7, <1>8 DEF left

\* What a list has, its head and its tail have.
LEMMA HeadAndTail ==
    ASSUME NEW S, NEW list \in Seq(S), list # << >>
    PROVE  /\ Head(list) \in S /\ Tail(list) \in Seq(S)
           /\ ToSet(list) = {Head(list)} \cup ToSet(Tail(list))
<1>1. /\ Len(list) \in Nat \ {0} /\ Head(list) = list[1] /\ list[1] \in S
      /\ Tail(list) \in Seq(S) /\ Len(Tail(list)) = Len(list) - 1
      /\ \A i \in 1..Len(list) - 1 : Tail(list)[i] = list[i + 1]
  OBVIOUS
<1>2. ASSUME NEW i \in 1..Len(list) PROVE i = 1 \/ (list[i] = Tail(list)[i - 1] /\ i - 1 \in 1..Len(list) - 1)
  <2>1. CASE i = 1
    BY <2>1
  <2>2. CASE i # 1
    <3>1. i - 1 \in 1..Len(list) - 1 /\ (i - 1) + 1 = i
      BY <1>1, <2>2
    <3> QED BY <1>1, <3>1
  <2> QED BY <2>1, <2>2
<1>3. \A i \in 1..Len(list) - 1 : i + 1 \in 1..Len(list)
  BY <1>1
<1>4. DOMAIN list = 1..Len(list) /\ DOMAIN Tail(list) = 1..Len(list) - 1
  BY <1>1
<1>5. \A e \in ToSet(list) : e = Head(list) \/ e \in ToSet(Tail(list))
  <2> SUFFICES ASSUME NEW i \in 1..Len(list) PROVE list[i] = Head(list) \/ list[i] \in ToSet(Tail(list))
    BY <1>4 DEF ToSet
  <2> QED BY <1>1, <1>2, <1>4 DEF ToSet
<1>6. Head(list) \in ToSet(list) /\ \A e \in ToSet(Tail(list)) : e \in ToSet(list)
  BY <1>1, <1>3, <1>4 DEF ToSet
<1> QED BY <1>1, <1>5, <1>6

LEMMA RouterInitially == RouterInit => RouterInd
<1> SUFFICES ASSUME RouterInit PROVE RouterInd
  OBVIOUS
<1>1. Started(configured, Default) \in Seq(Provider) /\ Len(providers) = 1
  <2>1. [type |-> configured, model |-> IF configured = "builtin" THEN Default ELSE NoModel,
         enabled |-> TRUE] \in Provider
    BY RouterAssumption DEF RouterInit, Provider
  <2> QED BY <2>1 DEF RouterInit, Started
<1>2. IdleCall \in Calls
  BY DEF IdleCall, Calls
<1>3. calls \in [ModelCallers -> Calls] /\ \A c \in ModelCallers : calls[c].pc = "idle"
  BY <1>2 DEF RouterInit, IdleCall
<1>4. /\ providers \in Seq(Provider)
      /\ \A i, k \in DOMAIN providers : providers[i].type = providers[k].type => i = k
  BY <1>1 DEF RouterInit
<1>5. tasks \in [Tasks -> [pc : {"idle", "reserve", "load", "register", "persist", "release"},
                          model : Models]]
  BY RouterAssumption DEF RouterInit, IdleTask
<1>6. RouterTypes
  <2>1. setting = NoModel /\ chosen = NoModel /\ cached \subseteq Models /\ downloading \subseteq Models
        /\ configured \in Types /\ restarts \in 0..MaxRestarts
    <3>1. 0 \in 0..MaxRestarts
      BY RouterAssumption
    <3> QED BY RouterAssumption, <3>1 DEF RouterInit
  <2>2. RouterTypeOK
    BY <1>3, <1>4, <1>5, <2>1 DEF RouterTypeOK
  <2> QED BY <1>3, <2>2 DEF RouterTypes
<1>7. NobodyIsSkipped /\ DownloadsRun /\ ChoiceOnItsWay
  BY <1>3 DEF RouterInit, NobodyIsSkipped, DownloadsRun, ChoiceOnItsWay
<1> QED BY <1>6, <1>7 DEF RouterInd

\* The list after a registration.
LEMMA RegisteredTyped ==
    ASSUME RouterTypes, NEW m \in Models, NEW type \in Types
    PROVE  /\ Registered(type, m) \in Seq(Provider) /\ OneOfEachType(Registered(type, m))
           /\ \A i \in DOMAIN Registered(type, m) :
                 Registered(type, m)[i].type = type => Registered(type, m)[i].model = m
           /\ \E i \in DOMAIN Registered(type, m) : Registered(type, m)[i].type = type
<1> DEFINE places == {i \in DOMAIN providers : providers[i].type # type}
           left == EntriesAt(providers, places)
           new == [type |-> type, model |-> m, enabled |-> TRUE]
<1>1. providers \in Seq(Provider) /\ OneOfEachType(providers)
  BY DEF RouterTypes, RouterTypeOK, OneOfEachType
<1>2. /\ left \in Seq(Provider) /\ OneOfEachType(left)
      /\ \A i \in DOMAIN left : \E k \in places : left[i] = providers[k]
  <2>1. places \in SUBSET DOMAIN providers
    OBVIOUS
  <2> HIDE DEF places
  <2> QED BY <1>1, <2>1, LeftOver
<1>3. \A i \in DOMAIN left : left[i].type # type
  BY <1>2
<1>4. new \in Provider /\ new.type = type /\ new.model = m
  BY DEF Provider
<1>5. Registered(type, m) = Append(left, new)
  BY DEF Registered
<1> HIDE DEF left, new
<1>6. /\ Append(left, new) \in Seq(Provider) /\ DOMAIN Append(left, new) = 1..Len(left) + 1
      /\ Append(left, new)[Len(left) + 1] = new /\ DOMAIN left = 1..Len(left) /\ Len(left) \in Nat
      /\ \A i \in 1..Len(left) : Append(left, new)[i] = left[i]
  BY <1>2, <1>4
<1>7. OneOfEachType(Append(left, new))
  <2> SUFFICES ASSUME NEW i \in 1..Len(left) + 1, NEW k \in 1..Len(left) + 1,
                      Append(left, new)[i].type = Append(left, new)[k].type
               PROVE  i = k
    BY <1>6 DEF OneOfEachType
  <2>1. (i \in 1..Len(left) \/ i = Len(left) + 1) /\ (k \in 1..Len(left) \/ k = Len(left) + 1)
    BY <1>6
  <2> QED BY <1>2, <1>3, <1>4, <1>6, <2>1 DEF OneOfEachType
<1>8. ASSUME NEW i \in 1..Len(left) + 1, Append(left, new)[i].type = type
      PROVE  Append(left, new)[i].model = m
  <2>1. i \in 1..Len(left) \/ i = Len(left) + 1
    BY <1>6
  <2> QED BY <1>3, <1>4, <1>6, <1>8, <2>1
<1>9. Len(left) + 1 \in 1..Len(left) + 1
  BY <1>6
<1> QED BY <1>4, <1>5, <1>6, <1>7, <1>8, <1>9

LEMMA RouterRests == RouterInd /\ UNCHANGED routerVars => RouterInd'
<1> SUFFICES ASSUME RouterInd, UNCHANGED routerVars PROVE RouterInd'
  OBVIOUS
<1>1. RouterTypes' /\ NobodyIsSkipped'
  BY DEF RouterInd, routerVars, RouterTypes, RouterTypeOK, NobodyIsSkipped
<1>2. DownloadsRun' /\ ChoiceOnItsWay'
  BY DEF RouterInd, routerVars, DownloadsRun, ChoiceOnItsWay, Busy, BuiltInModels
<1> QED BY <1>1, <1>2 DEF RouterInd

LEMMA SwitchKeeps ==
    ASSUME RouterInd, NEW x \in Switchers, NEW m \in Models, SwitchModel(x, m)
    PROVE  RouterInd'
<1> USE DEF RouterInd
<1>1. x \in Tasks /\ m # NoModel
  BY RouterAssumption DEF Tasks
<1>2. CASE /\ tasks' = [tasks EXCEPT ![x] = [pc |-> IF m \in cached THEN "register" ELSE "reserve",
                                            model |-> m]]
           /\ Choose(m)
  <2>1. RouterTypes'
    BY <1>1, <1>2 DEF SwitchModel, Choose, RouterTypes, RouterTypeOK
  <2>2. tasks'[x].pc \in {"register", "reserve"} /\ tasks'[x].model = m
        /\ \A k \in Tasks \ {x} : tasks'[k] = tasks[k]
    BY <1>1, <1>2 DEF RouterTypes, RouterTypeOK
  <2>3. DownloadsRun'
    BY <1>1, <2>2 DEF SwitchModel, DownloadsRun, Busy, RouterTypes, RouterTypeOK, Tasks
  <2>4. ChoiceOnItsWay'
    BY <1>1, <1>2, <2>2 DEF ChoiceOnItsWay, Choose, Busy
  <2> QED BY <2>1, <2>3, <2>4 DEF SwitchModel, NobodyIsSkipped
<1>3. CASE m \in cached /\ UNCHANGED <<tasks, chosen>>
  <2>1. UNCHANGED routerVars
    BY <1>3 DEF SwitchModel, routerVars
  <2> QED BY <2>1, RouterRests
<1> QED BY <1>2, <1>3 DEF SwitchModel

LEMMA ReserveKeeps ==
    ASSUME RouterInd, NEW x \in Switchers, Reserve(x)
    PROVE  RouterInd'
<1> USE DEF RouterInd
<1>0. PICK m \in Models : m = tasks[x].model
  BY DEF RouterTypes, RouterTypeOK, Tasks
<1>1. x \in Tasks /\ m \in Tasks /\ x # m /\ x \notin downloading /\ x \notin Models
  BY RouterAssumption DEF Tasks, RouterTypes, RouterTypeOK
<1>2. Busy(x) /\ tasks[x].pc = "reserve"
  BY DEF Busy, Reserve
<1>3. CASE m \in downloading
  <2>1. tasks' = [tasks EXCEPT ![x].pc = "idle"] /\ downloading' = downloading
    BY <1>0, <1>3 DEF Reserve, TaskAt
  <2>2. tasks'[x].pc = "idle" /\ \A k \in Tasks \ {x} : tasks'[k] = tasks[k]
    BY <1>1, <2>1 DEF RouterTypes, RouterTypeOK
  <2>3. RouterTypes'
    BY <1>1, <2>1 DEF Reserve, RouterTypes, RouterTypeOK
  <2>4. DownloadsRun'
    BY <1>1, <2>1, <2>2 DEF DownloadsRun, Busy, RouterTypes, RouterTypeOK, Tasks
  <2>5. Busy(m)
    BY <1>3 DEF DownloadsRun
  <2>6. chosen = NoModel
    BY <1>0, <1>1, <1>2, <2>5 DEF ChoiceOnItsWay
  <2> QED BY <2>3, <2>4, <2>6 DEF Reserve, NobodyIsSkipped, ChoiceOnItsWay
<1>4. CASE m \notin downloading
  <2>1. /\ downloading' = downloading \cup {m}
        /\ tasks' = [tasks EXCEPT ![x].pc = "idle", ![m] = [pc |-> "load", model |-> m]]
    BY <1>0, <1>4 DEF Reserve
  <2>2. /\ tasks'[x].pc = "idle" /\ tasks'[m] = [pc |-> "load", model |-> m]
        /\ \A k \in Tasks \ {x, m} : tasks'[k] = tasks[k]
    BY <1>1, <2>1 DEF RouterTypes, RouterTypeOK
  <2>3. RouterTypes'
    BY <1>1, <2>1 DEF Reserve, RouterTypes, RouterTypeOK
  <2>4. DownloadsRun'
    BY <1>1, <2>1, <2>2 DEF DownloadsRun, Busy, RouterTypes, RouterTypeOK, Tasks
  <2>5. ChoiceOnItsWay'
    <3> SUFFICES ASSUME chosen # NoModel PROVE ChoiceOnItsWay'
      BY DEF Reserve, ChoiceOnItsWay
    <3>1. m = chosen /\ \A j \in Tasks \ {x} : ~Busy(j)
      BY <1>0, <1>1, <1>2 DEF ChoiceOnItsWay
    <3>2. Busy(m)' /\ \A j \in Tasks \ {m} : ~Busy(j)'
      BY <1>1, <2>2, <3>1 DEF Busy
    <3>3. tasks'[m].model = chosen' /\ tasks'[m].pc = "load"
      BY <2>2, <3>1 DEF Reserve
    <3> QED BY <1>1, <3>2, <3>3 DEF ChoiceOnItsWay
  <2> QED BY <2>3, <2>4, <2>5 DEF Reserve, NobodyIsSkipped
<1> QED BY <1>3, <1>4

\* One task goes on; nobody else's place changes.
LEMMA TaskGoes ==
    ASSUME RouterTypes, NEW k \in Tasks, NEW label, TaskAt(k, label)
    PROVE  /\ tasks'[k].pc = label /\ tasks'[k].model = tasks[k].model
           /\ \A j \in Tasks \ {k} : tasks'[j] = tasks[j]
           /\ label \in {"idle", "reserve", "load", "register", "persist", "release"} =>
                 tasks' \in [Tasks -> [pc : {"idle", "reserve", "load", "register", "persist", "release"},
                                       model : Models]]
BY DEF TaskAt, RouterTypes, RouterTypeOK

\* The task at work is the one that puts the choice into effect.
LEMMA OnItsWay ==
    ASSUME ChoiceOnItsWay, NEW k \in Tasks, Busy(k), chosen # NoModel
    PROVE  /\ tasks[k].model = chosen /\ \A j \in Tasks \ {k} : ~Busy(j)
           /\ tasks[k].pc \in {"persist", "release"} => BuiltInModels = {chosen}
           /\ tasks[k].pc = "release" => setting = chosen
BY DEF ChoiceOnItsWay

LEMMA LoadKeeps ==
    ASSUME RouterInd, NEW m \in Models, Load(m)
    PROVE  RouterInd'
<1> USE DEF RouterInd
<1>1. m \in Tasks /\ Busy(m)
  BY DEF Tasks, Busy, Load
<1>2. CASE cached' = cached \cup {m} /\ TaskAt(m, "register") /\ UNCHANGED chosen
  <2>1. RouterTypes'
    BY <1>1, <1>2, TaskGoes DEF Load, RouterTypes, RouterTypeOK
  <2>2. tasks'[m].pc = "register" /\ tasks'[m].model = tasks[m].model
        /\ \A j \in Tasks \ {m} : tasks'[j] = tasks[j]
    BY <1>1, <1>2, TaskGoes
  <2>3. DownloadsRun'
    BY <1>1, <2>2 DEF Load, DownloadsRun, Busy, RouterTypes, RouterTypeOK, Tasks
  <2>4. ChoiceOnItsWay'
    BY <1>1, <1>2, <2>2, OnItsWay DEF ChoiceOnItsWay, Busy
  <2> QED BY <2>1, <2>3, <2>4 DEF Load, NobodyIsSkipped
<1>3. CASE TaskAt(m, FailedLoad) /\ chosen' = NoModel /\ UNCHANGED cached
  <2>1. RouterTypes'
    BY <1>1, <1>3, TaskGoes DEF Load, RouterTypes, RouterTypeOK, FailedLoad
  <2>2. tasks'[m].pc = "release" /\ \A j \in Tasks \ {m} : tasks'[j] = tasks[j]
    BY <1>1, <1>3, TaskGoes DEF FailedLoad
  <2>3. DownloadsRun'
    BY <1>1, <2>2 DEF Load, DownloadsRun, Busy, RouterTypes, RouterTypeOK, Tasks
  <2> QED BY <1>3, <2>1, <2>3 DEF Load, NobodyIsSkipped, ChoiceOnItsWay
<1> QED BY <1>2, <1>3 DEF Load

LEMMA RegisterKeeps ==
    ASSUME RouterInd, NEW k \in Tasks, RegisterModel(k)
    PROVE  RouterInd'
<1> USE DEF RouterInd
<1>0. PICK m \in Models : m = tasks[k].model
  BY DEF RouterTypes, RouterTypeOK
<1>1. Busy(k) /\ TaskAt(k, "persist") /\ tasks[k].pc = "register"
  BY DEF Busy, RegisterModel
<1>2. tasks'[k].pc = "persist" /\ tasks'[k].model = m /\ \A j \in Tasks \ {k} : tasks'[j] = tasks[j]
  BY <1>0, <1>1, TaskGoes
<1>3. providers' = Registered("builtin", m)
  BY <1>0 DEF RegisterModel
<1>4. "builtin" \in Types
  BY DEF Types
<1>5. providers' \in Seq(Provider) /\ OneOfEachType(providers')
  BY <1>3, <1>4, RegisteredTyped
<1>6. RouterTypes'
  BY <1>1, <1>5, TaskGoes DEF RegisterModel, RouterTypes, RouterTypeOK, OneOfEachType
<1>7. BuiltInModels' = {m}
  <2>1. /\ \A i \in DOMAIN providers' : providers'[i].type = "builtin" => providers'[i].model = m
        /\ \E i \in DOMAIN providers' : providers'[i].type = "builtin"
    BY <1>3, <1>4, RegisteredTyped
  <2> QED BY <2>1 DEF BuiltInModels
<1>8. DownloadsRun'
  BY <1>2 DEF RegisterModel, DownloadsRun, Busy, RouterTypes, RouterTypeOK, Tasks
<1>9. ChoiceOnItsWay'
  <2> SUFFICES ASSUME chosen # NoModel PROVE ChoiceOnItsWay'
    BY DEF RegisterModel, ChoiceOnItsWay
  <2>1. m = chosen /\ \A j \in Tasks \ {k} : ~Busy(j)
    BY <1>0, <1>1, OnItsWay
  <2>2. chosen' = chosen
    BY DEF RegisterModel
  <2> QED BY <1>2, <1>7, <2>1, <2>2 DEF ChoiceOnItsWay, Busy
<1> QED BY <1>6, <1>8, <1>9 DEF RegisterModel, NobodyIsSkipped

LEMMA PersistKeeps ==
    ASSUME RouterInd, NEW k \in Tasks, PersistSetting(k)
    PROVE  RouterInd'
<1> USE DEF RouterInd
<1> DEFINE label == IF k \in Models THEN "release" ELSE "idle"
<1>1. Busy(k) /\ tasks[k].pc = "persist" /\ TaskAt(k, label)
  BY DEF Busy, PersistSetting
<1>2. tasks'[k].pc = label /\ tasks'[k].model = tasks[k].model
      /\ \A j \in Tasks \ {k} : tasks'[j] = tasks[j]
  BY <1>1, TaskGoes
<1>3. /\ (setting' = tasks[k].model /\ chosen' = chosen) \/ (chosen' = NoModel /\ setting' = setting)
      /\ providers' = providers
  BY DEF PersistSetting, SettingOf
<1>4. RouterTypes'
  <2>1. tasks' \in [Tasks -> [pc : {"idle", "reserve", "load", "register", "persist", "release"},
                              model : Models]]
    BY <1>1, TaskGoes
  <2> QED BY <1>3, <2>1 DEF PersistSetting, RouterTypes, RouterTypeOK
<1>5. DownloadsRun'
  <2> SUFFICES ASSUME NEW m \in downloading PROVE Busy(m)'
    BY DEF PersistSetting, DownloadsRun
  <2>1. m \in Models /\ m \in Tasks /\ Busy(m)
    BY DEF DownloadsRun, RouterTypes, RouterTypeOK, Tasks
  <2> QED BY <1>2, <2>1 DEF Busy
<1>6. ChoiceOnItsWay'
  <2> SUFFICES ASSUME chosen' # NoModel PROVE ChoiceOnItsWay'
    BY DEF ChoiceOnItsWay
  <2>1. chosen # NoModel /\ chosen' = chosen /\ setting' = tasks[k].model
    BY <1>3
  <2>2. tasks[k].model = chosen /\ (\A j \in Tasks \ {k} : ~Busy(j)) /\ BuiltInModels = {chosen}
    BY <1>1, <2>1, OnItsWay
  <2>3. BuiltInModels' = {chosen} /\ setting' = chosen
    BY <1>3, <2>1, <2>2 DEF BuiltInModels
  <2>4. \A j \in Tasks \ {k} : ~Busy(j)'
    BY <1>2, <2>2 DEF Busy
  <2>5. CASE k \in Models
    BY <1>2, <2>1, <2>2, <2>3, <2>4, <2>5 DEF ChoiceOnItsWay, Busy
  <2>6. CASE k \notin Models
    <3>1. \A j \in Tasks : ~Busy(j)'
      BY <1>2, <2>4, <2>6 DEF Busy
    <3> QED BY <2>1, <2>3, <3>1 DEF ChoiceOnItsWay
  <2> QED BY <2>5, <2>6
<1> QED BY <1>4, <1>5, <1>6 DEF PersistSetting, NobodyIsSkipped

LEMMA ReleaseDownloadKeeps ==
    ASSUME RouterInd, NEW m \in Models, ReleaseDownload(m)
    PROVE  RouterInd'
<1> USE DEF RouterInd
<1>1. m \in Tasks /\ Busy(m) /\ tasks[m].pc = "release" /\ TaskAt(m, "idle")
  BY DEF Busy, ReleaseDownload, Tasks
<1>2. tasks'[m].pc = "idle" /\ \A j \in Tasks \ {m} : tasks'[j] = tasks[j]
  BY <1>1, TaskGoes
<1>3. RouterTypes'
  BY <1>1, TaskGoes DEF ReleaseDownload, RouterTypes, RouterTypeOK
<1>4. DownloadsRun'
  BY <1>2 DEF ReleaseDownload, DownloadsRun, Busy, RouterTypes, RouterTypeOK, Tasks
<1>5. ChoiceOnItsWay'
  <2> SUFFICES ASSUME chosen # NoModel PROVE ChoiceOnItsWay'
    BY DEF ReleaseDownload, ChoiceOnItsWay
  <2>1. (\A j \in Tasks \ {m} : ~Busy(j)) /\ BuiltInModels = {chosen} /\ setting = chosen
    BY <1>1, OnItsWay
  <2>2. \A j \in Tasks : ~Busy(j)'
    BY <1>2, <2>1 DEF Busy
  <2>3. BuiltInModels' = {chosen'} /\ setting' = chosen'
    BY <2>1 DEF ReleaseDownload, BuiltInModels
  <2> QED BY <2>2, <2>3 DEF ChoiceOnItsWay
<1> QED BY <1>3, <1>4, <1>5 DEF ReleaseDownload, NobodyIsSkipped

LEMMA SetKeeps ==
    ASSUME RouterInd, NEW type \in Types, SetProvider(type)
    PROVE  RouterInd'
<1> USE DEF RouterInd
<1>1. PICK b \in BOOLEAN :
          providers' = [i \in DOMAIN providers |->
                           IF providers[i].type = type THEN [providers[i] EXCEPT !.enabled = b]
                           ELSE providers[i]]
  BY DEF SetProvider
<1>2. providers \in Seq(Provider)
  BY DEF RouterTypes, RouterTypeOK
<1>3. /\ DOMAIN providers' = DOMAIN providers
      /\ \A i \in DOMAIN providers : /\ providers'[i] \in Provider
                                     /\ providers'[i].type = providers[i].type
                                     /\ providers'[i].model = providers[i].model
  <2> SUFFICES ASSUME NEW i \in DOMAIN providers
               PROVE  /\ providers'[i] \in Provider /\ providers'[i].type = providers[i].type
                      /\ providers'[i].model = providers[i].model
    BY <1>1
  <2>1. providers[i] \in Provider
    BY <1>2
  <2>2. providers'[i] = IF providers[i].type = type THEN [providers[i] EXCEPT !.enabled = b]
                        ELSE providers[i]
    BY <1>1
  <2>3. [providers[i] EXCEPT !.enabled = b] \in Provider
        /\ [providers[i] EXCEPT !.enabled = b].type = providers[i].type
        /\ [providers[i] EXCEPT !.enabled = b].model = providers[i].model
    BY <2>1 DEF Provider
  <2> QED BY <2>1, <2>2, <2>3
<1>4. providers' \in Seq(Provider)
  <2>1. DOMAIN providers = 1..Len(providers) /\ Len(providers) \in Nat
    BY <1>2
  <2> DEFINE n == Len(providers)
             f == [i \in DOMAIN providers |->
                      IF providers[i].type = type THEN [providers[i] EXCEPT !.enabled = b]
                      ELSE providers[i]]
  <2>2. f = providers'
    BY <1>1
  <2>3. f \in [1..n -> Provider]
    BY <1>3, <2>1, <2>2
  <2> HIDE DEF f, n
  <2>4. n \in Nat
    BY <2>1 DEF n
  <2> QED BY <2>2, <2>3, <2>4
<1>5. RouterTypes'
  BY <1>3, <1>4 DEF SetProvider, RouterTypes, RouterTypeOK
<1>6. BuiltInModels' = BuiltInModels
  BY <1>3 DEF BuiltInModels
<1> QED BY <1>5, <1>6 DEF SetProvider, NobodyIsSkipped, DownloadsRun, ChoiceOnItsWay, Busy

LEMMA BeginCallKeeps ==
    ASSUME RouterInd, NEW c \in ModelCallers, BeginCall(c)
    PROVE  RouterInd'
<1> USE DEF RouterInd
<1> DEFINE list == EnabledOnes(providers)
           call == [pc |-> "asking", todo |-> list, copy |-> ToSet(list), asked |-> {}]
<1>1. list \in Seq(Provider)
  <2> DEFINE places == {i \in DOMAIN providers : providers[i].enabled}
  <2>1. providers \in Seq(Provider) /\ OneOfEachType(providers) /\ places \in SUBSET DOMAIN providers
    BY DEF RouterTypes, RouterTypeOK, OneOfEachType
  <2>2. list = EntriesAt(providers, places)
    BY DEF EnabledOnes
  <2> HIDE DEF places, list
  <2> QED BY <2>1, <2>2, LeftOver
<1>2. calls' = [calls EXCEPT ![c] = call]
  BY DEF BeginCall
<1> HIDE DEF list
<1>3. ToSet(list) \in SUBSET Provider
  BY <1>1 DEF ToSet
<1>4. call \in Calls
  BY <1>1, <1>3 DEF Calls
<1>5. RouterTypes'
  BY <1>2, <1>4 DEF BeginCall, RouterTypes, RouterTypeOK, Calls
<1>6. NobodyIsSkipped'
  BY <1>2 DEF NobodyIsSkipped, RouterTypes
<1> QED BY <1>5, <1>6 DEF BeginCall, DownloadsRun, ChoiceOnItsWay, Busy, BuiltInModels

LEMMA CallKeeps ==
    ASSUME RouterInd, NEW c \in ModelCallers, CallStep(c)
    PROVE  RouterInd'
<1> USE DEF RouterInd
<1>0. UNCHANGED <<configured, providers, setting, cached, downloading, tasks, chosen, restarts>>
  BY DEF CallStep, Answer, TryNext, FailCall
<1>1. calls[c] \in Calls /\ calls[c].todo \in Seq(Provider)
  BY DEF RouterTypes, Calls
<1>2. calls' \in [ModelCallers -> Calls] /\ NobodyIsSkipped'
  <2>1. CASE Answer(c)
    <3>1. Asked(c) \in SUBSET Provider
      BY <1>1, <2>1 DEF Answer, Asks, Asked, Calls
    <3> HIDE DEF RouterInd
    <3> QED BY <2>1, <3>1 DEF Answer, RouterInd, RouterTypes, Calls, NobodyIsSkipped
  <2>2. CASE TryNext(c)
    <3>1. /\ Head(calls[c].todo) \in Provider /\ Tail(calls[c].todo) \in Seq(Provider)
          /\ ToSet(calls[c].todo) = {Head(calls[c].todo)} \cup ToSet(Tail(calls[c].todo))
      BY <1>1, <2>2, HeadAndTail DEF TryNext, Asks
    <3>2. /\ calls' = [calls EXCEPT ![c].todo = Tail(calls[c].todo),
                                    ![c].asked = calls[c].asked \cup {Head(calls[c].todo)}]
          /\ calls[c].pc = "asking"
      BY <2>2 DEF TryNext, TriedNext, Asked, Asks
    <3> QED BY <3>1, <3>2 DEF RouterTypes, Calls, NobodyIsSkipped
  <2>3. CASE FailCall(c)
    BY <2>3 DEF FailCall, RouterTypes, Calls, NobodyIsSkipped
  <2> QED BY <2>1, <2>2, <2>3 DEF CallStep
<1>3. RouterTypes'
  <2>1. \A d \in ModelCallers : calls'[d].pc \in {"idle", "asking", "answered", "failed"}
    BY <1>2 DEF Calls
  <2> QED BY <1>0, <1>2, <2>1 DEF RouterTypes, RouterTypeOK
<1>4. DownloadsRun' /\ ChoiceOnItsWay'
  BY <1>0 DEF DownloadsRun, ChoiceOnItsWay, Busy, BuiltInModels
<1> QED BY <1>2, <1>3, <1>4

LEMMA RouterRestartKeeps == ASSUME RouterInd, RouterRestart PROVE RouterInd'
<1> USE DEF RouterInd
<1> DEFINE m == IF setting = NoModel THEN Default ELSE setting
<1>1. m \in Models /\ m # NoModel
  BY RouterAssumption DEF RouterTypes, RouterTypeOK
<1>2. /\ providers' = <<[type |-> configured, model |-> IF configured = "builtin" THEN m ELSE NoModel,
                         enabled |-> TRUE]>>
      /\ \A k \in Tasks : ~Busy(k)'
  BY DEF RouterRestart, Started, Busy, IdleTask
<1>3. providers' \in Seq(Provider) /\ Len(providers') = 1
  <2>1. [type |-> configured, model |-> IF configured = "builtin" THEN m ELSE NoModel,
         enabled |-> TRUE] \in Provider
    BY <1>1 DEF RouterTypes, RouterTypeOK, Provider
  <2> QED BY <1>2, <2>1
<1>4. IdleCall \in Calls
  BY DEF IdleCall, Calls
<1>5. RouterTypes'
  <2>1. \A i, k \in DOMAIN providers' : providers'[i].type = providers'[k].type => i = k
    BY <1>3
  <2>2. /\ calls' \in [ModelCallers -> Calls]
        /\ \A c \in ModelCallers : calls'[c].pc \in {"idle", "asking", "answered", "failed"}
    BY <1>4 DEF RouterRestart, IdleCall
  <2>3. tasks' \in [Tasks -> [pc : {"idle", "reserve", "load", "register", "persist", "release"},
                              model : Models]]
    BY RouterAssumption DEF RouterRestart, IdleTask
  <2>4. restarts' \in 0..MaxRestarts
    <3>1. restarts \in 0..MaxRestarts /\ restarts < MaxRestarts /\ restarts' = restarts + 1
      BY DEF RouterRestart, RouterTypes, RouterTypeOK
    <3> QED BY RouterAssumption, <3>1
  <2> QED BY <1>3, <2>1, <2>2, <2>3, <2>4 DEF RouterRestart, RouterTypes, RouterTypeOK
<1>6. NobodyIsSkipped' /\ DownloadsRun'
  BY DEF RouterRestart, NobodyIsSkipped, IdleCall, DownloadsRun
<1>7. ChoiceOnItsWay'
  <2> SUFFICES ASSUME chosen' # NoModel PROVE ChoiceOnItsWay'
    BY DEF ChoiceOnItsWay
  <2>1. chosen' = chosen /\ \A k \in Tasks : ~Busy(k)
    BY DEF RouterRestart
  <2>2. setting = chosen /\ setting' = chosen
    BY <2>1 DEF RouterRestart, ChoiceOnItsWay
  <2>3. configured = "builtin" => BuiltInModels' = {chosen}
    <3> SUFFICES ASSUME configured = "builtin" PROVE BuiltInModels' = {chosen}
      OBVIOUS
    <3>1. providers'[1].type = "builtin" /\ providers'[1].model = chosen /\ DOMAIN providers' = {1}
      BY <1>2, <1>3, <2>1, <2>2
    <3> QED BY <3>1 DEF BuiltInModels
  <2>4. restarts' # 0 /\ configured' = configured
    <3>1. restarts \in 0..MaxRestarts /\ restarts' = restarts + 1 /\ configured' = configured
      BY DEF RouterRestart, RouterTypes, RouterTypeOK
    <3> QED BY RouterAssumption, <3>1
  <2> QED BY <1>2, <2>1, <2>2, <2>3, <2>4 DEF ChoiceOnItsWay
<1> QED BY <1>5, <1>6, <1>7

LEMMA RouterKept == RouterInd /\ [RouterNext]_routerVars => RouterInd'
<1> SUFFICES ASSUME RouterInd, [RouterNext]_routerVars PROVE RouterInd'
  OBVIOUS
<1>1. ASSUME NEW x \in Switchers, NEW m \in Models, SwitchModel(x, m) PROVE RouterInd'
  BY <1>1, SwitchKeeps
<1>2. ASSUME NEW k \in Tasks, TaskStep(k) PROVE RouterInd'
  BY <1>2, ReserveKeeps, LoadKeeps, ReleaseDownloadKeeps, RegisterKeeps, PersistKeeps DEF TaskStep
<1>3. ASSUME NEW t \in Types, SetProvider(t) PROVE RouterInd'
  BY <1>3, SetKeeps
<1>4. ASSUME NEW c \in ModelCallers, BeginCall(c) \/ CallStep(c) PROVE RouterInd'
  BY <1>4, BeginCallKeeps, CallKeeps
<1> QED BY <1>1, <1>2, <1>3, <1>4, RouterRestartKeeps, RouterRests DEF RouterNext

\* A generation fails only after every provider that was enabled at its start was
\* asked, and the model chosen last, once its task is over, is the only built-in one
\* and the persisted one, through downloads, disabling and restarts, for any number
\* of models and requests (generative_router.rs, api/ai.rs).
THEOREM RouterHolds == RouterSpec => []RouterInv
<1>1. RouterInd => RouterInv
  <2> SUFFICES ASSUME RouterInd PROVE RouterInv
    OBVIOUS
  <2>1. EveryoneIsAsked
    <3> SUFFICES ASSUME NEW c \in ModelCallers, calls[c].pc = "failed"
                 PROVE  calls[c].asked = calls[c].copy
      BY DEF EveryoneIsAsked
    <3>1. calls[c].asked \cup ToSet(<< >>) = calls[c].copy
      BY DEF RouterInd, NobodyIsSkipped
    <3>2. ToSet(<< >>) = {}
      BY DEF ToSet
    <3> QED BY <3>1, <3>2
  <2>2. Len(providers) <= 2
    BY AtMostTwo DEF RouterInd, RouterTypes, RouterTypeOK, OneOfEachType
  <2>3. ChoiceTakesEffect
    BY <2>2 DEF RouterInd, ChoiceOnItsWay, ChoiceTakesEffect
  <2> QED BY <2>1, <2>3 DEF RouterInd, RouterTypes, RouterInv
<1> QED BY <1>1, RouterInitially, RouterKept, PTL DEF RouterSpec
=============================================================================
