------------------------------- MODULE MCTasks -------------------------------
(***************************************************************************)
(* For TLC, the parts of the system whose work has to come to an end: the  *)
(* offline queue, the content jobs, the poll scheduler, the requests of    *)
(* the assistant and the model downloads.  They share no state in the      *)
(* code, so nothing one does can help or hurt another: a behaviour lets    *)
(* one of them, the focus, move and keeps the others in their initial      *)
(* state, and the state spaces add up instead of multiplying.              *)
(***************************************************************************)
EXTENDS OfflineQueue, ContentJobs, PollScheduler, ChatTurns, ModelRouter

CONSTANTS scheduler, dispatcher

VARIABLE focus

\* The scheduler takes both operations at once, the dispatcher one.
LimitOf == [w \in Workers |-> IF w = scheduler THEN 2 ELSE 1]

\* The later job is the more urgent one.
PrioritiesOf == [j \in Jobs |-> NumJobs - j]

\* What the parts choose at the start is pinned where they do not move.
Init ==
    /\ focus \in {"queue", "jobs", "poll", "chat", "router"}
    /\ QueueInit /\ JobsInit /\ PollInit /\ ChatInit /\ RouterInit
    /\ focus # "poll" => connected = {}
    /\ focus # "chat" => provider = "none"
    /\ focus # "router" => configured = "builtin"

Next ==
    /\ UNCHANGED focus
    /\ \/ /\ focus = "queue" /\ QueueNext
          /\ UNCHANGED <<contentVars, pollVars, chatVars, routerVars>>
       \/ /\ focus = "jobs" /\ JobsNext
          /\ UNCHANGED <<offlineVars, pollVars, chatVars, routerVars>>
       \/ /\ focus = "poll" /\ PollNext
          /\ UNCHANGED <<offlineVars, contentVars, chatVars, routerVars>>
       \/ /\ focus = "chat" /\ ChatNext
          /\ UNCHANGED <<offlineVars, contentVars, pollVars, routerVars>>
       \/ /\ focus = "router" /\ RouterNext
          /\ UNCHANGED <<offlineVars, contentVars, pollVars, chatVars>>

Fairness ==
    /\ \A w \in Workers : WF_offlineVars(focus = "queue" /\ Step(w))
    /\ \A w \in JobWorkers : WF_contentVars(focus = "jobs" /\ Work(w))
    /\ SF_pollVars(focus = "poll" /\ Tick) /\ SF_pollVars(focus = "poll" /\ Elapse)
    /\ \A a \in PolledAccounts :
          WF_pollVars(focus = "poll" /\ Visit(a)) /\ WF_pollVars(focus = "poll" /\ SyncEnds(a))
    /\ \A t \in Turns : WF_chatVars(focus = "chat" /\ TurnStep(t))
    /\ \A k \in Tasks : WF_routerVars(focus = "router" /\ TaskStep(k))

Spec ==
    /\ Init /\ Fairness
    /\ [][Next]_<<focus, offlineVars, contentVars, pollVars, chatVars, routerVars>>

\* A job cancelled before a worker has it stays cancelled, and one more failed
\* poll of an account never shortens its backoff.
NeverTakenBack == CancelledStays /\ BackoffGrows

Nth(i, S) == SetToSeq(S)[i]

\* The i-th operation, job, account, request or model of the part that moves.
Open(i) ==
    \/ focus = "queue" /\ OpOpen(i)
    \/ focus = "jobs" /\ JobOpen(i)
    \/ focus = "poll" /\ ToPoll(Nth(i, PolledAccounts))
    \/ focus = "chat" /\ turns[i].pc # "idle"
    \/ focus = "router" /\ Nth(i, Models) \in downloading

Over(i) ==
    \/ focus = "queue" /\ OpOver(i)
    \/ focus = "jobs" /\ JobOver(i)
    \/ focus = "poll" /\ Polled(Nth(i, PolledAccounts))
    \/ focus = "chat" /\ TurnOver(i)
    \/ focus = "router" /\ Nth(i, Models) \notin downloading

\* Queued operations and jobs are settled and connected accounts are polled
\* again, but for what a fault, a crash or a panic left behind; every request of
\* the assistant ends, and every download gives its place back: OpsSettle,
\* JobsSettle, PolledAgain, TurnsEnd and DownloadsEnd in one formula.
WorkEnds == \A i \in 1..2 : Open(i) ~> Over(i)
=============================================================================
