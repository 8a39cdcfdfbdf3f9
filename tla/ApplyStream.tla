----------------------------- MODULE ApplyStream -----------------------------
(***************************************************************************)
(* One apply job as a browser sees it: the workers and the driver that     *)
(* emit events on a broadcast channel, the SSE handler that answers a      *)
(* subscription (snapshot, then either the live channel or a synthesized   *)
(* Finished), and the useCleanupApply hook that reduces the events,        *)
(* reconnects with a backoff and cancels.                                  *)
(*                                                                         *)
(* Of the counts only "applied" is kept.  Started is emitted before the    *)
(* client can know the job id, so no subscription ever carries it.         *)
(***************************************************************************)
EXTENDS Integers, Sequences, FiniteSets

CONSTANTS
    Accounts,       \* accounts of the job, one worker each
    MaxOps,         \* bound: operations a worker applies
    Capacity,       \* of the broadcast channel (1024 in the code)
    MaxFaults,      \* bound: lost connections, failed loads, manual reconnects
    PersistFails,   \* whether update_state may fail
    CanCrash        \* whether the process may die

ASSUME StreamAssumption ==
    /\ IsFiniteSet(Accounts)
    /\ MaxOps \in Nat /\ MaxFaults \in Nat /\ Capacity \in Nat \ {0}
    /\ PersistFails \in BOOLEAN /\ CanCrash \in BOOLEAN

VARIABLES
    row,        \* the job row: state and applied count
    driver,     \* where the driver task is
    work,       \* where each worker is
    done,       \* operations each worker has applied
    cancelled,  \* the CancellationToken
    outcome,    \* what the driver decided: state and merged count
    handler,    \* where the SSE request of the client is
    frames,     \* frames the handler queued ahead of the live ones
    sub,        \* the handler holds a receiver
    inbox,      \* events the receiver has not delivered
    ui,         \* jobState of the hook
    shown,      \* counts.applied of the hook
    cancelReq,  \* the hook's POST /cancel
    settled,    \* history: a finished event was reduced
    faults

jobVars    == <<row, driver, work, done, cancelled, outcome>>
handlerVars == <<handler, frames, sub, inbox>>
clientVars == <<ui, shown, cancelReq, settled>>
vars == <<jobVars, handlerVars, clientVars, faults>>

-----------------------------------------------------------------------------
Frame == [type : {"snapshot", "opApplied", "progress", "finished"}, n : Nat,
          status : {"running", "finished", "failed", "cancelled"}]

OpApplied     == [type |-> "opApplied", n |-> 0, status |-> "running"]
Snapshot(n)   == [type |-> "snapshot", n |-> n, status |-> "running"]
Progress(n)   == [type |-> "progress", n |-> n, status |-> "running"]
Finished(o)   == [type |-> "finished", n |-> o.n, status |-> o.state]

\* job_channels holds the job: from begin_apply until the driver removes it.
HasChannel == driver \in {"running", "decided", "persisted", "announced"}

\* What some workers have applied together: the k-th operation of account a
\* counts as <<a, k>>.
AppliedBy(S) == Cardinality({op \in S \X (1..MaxOps) : op[2] <= done[op[1]]})

Applied == AppliedBy(Accounts)

\* Mutant: the channel is not bounded.
SentUnbounded(events) == IF sub THEN inbox \o events ELSE inbox

\* broadcast::Sender::send: a receiver that lags loses the oldest events.
AfterSend(events) ==
    LET all == inbox \o events
        n   == Len(all)
    IN  IF ~sub THEN inbox
        ELSE IF n <= Capacity THEN all ELSE SubSeq(all, n - Capacity + 1, n)

Terminal == {"done", "error", "cancelled"}

\* reduceEvent, finished: the state shown for a job's final state.
Shows(status) == CASE status = "cancelled" -> "cancelled"
                   [] status = "failed"    -> "error"
                   [] OTHER                -> "done"

-----------------------------------------------------------------------------
\* begin_apply has returned: the row says running, the tasks are spawned.
Init ==
    /\ row = [state |-> "running", n |-> 0]
    /\ driver = "running"
    /\ work = [a \in Accounts |-> "loop"]
    /\ done = [a \in Accounts |-> 0]
    /\ cancelled = FALSE
    /\ outcome = [state |-> "running", n |-> 0]
    /\ handler = "none" /\ frames = <<>> /\ sub = FALSE /\ inbox = <<>>
    /\ ui = "starting" /\ shown = 0 /\ cancelReq = "no" /\ settled = FALSE
    /\ faults = 0

-----------------------------------------------------------------------------
(* The job *)

\* A row was applied: OpApplied is emitted.
ApplyRow(a) ==
    /\ driver = "running" /\ work[a] = "loop"
    /\ ~cancelled /\ done[a] < MaxOps
    /\ done' = [done EXCEPT ![a] = @ + 1]
    /\ inbox' = AfterSend(<<OpApplied>>)
    /\ work' = [work EXCEPT ![a] = "progress"]
    /\ UNCHANGED <<row, driver, cancelled, outcome, handler, frames, sub, clientVars, faults>>

\* emit_progress at the end of the iteration, throttled or not, with the
\* counts of this worker.
EmitProgress(a) ==
    /\ driver = "running" /\ work[a] = "progress"
    /\ \/ inbox' = AfterSend(<<Progress(done[a])>>)
       \/ UNCHANGED inbox
    /\ work' = [work EXCEPT ![a] = "loop"]
    /\ UNCHANGED <<row, driver, done, cancelled, outcome, handler, frames, sub, clientVars,
                   faults>>

\* The worker has no row left, is paused or cancelled, or stops on an error.
EndWorker(a) ==
    /\ driver = "running" /\ work[a] = "loop"
    /\ \E r \in {"ok", "err"} : work' = [work EXCEPT ![a] = r]
    /\ UNCHANGED <<row, driver, done, cancelled, outcome, handlerVars, clientVars, faults>>

\* All workers joined: the final state, and the counts of those that ended ok.
Decide ==
    LET merged == AppliedBy({a \in Accounts : work[a] = "ok"})
    IN  /\ driver = "running"
        /\ \A a \in Accounts : work[a] \in {"ok", "err"}
        /\ outcome' = [state |-> IF cancelled THEN "cancelled"
                                 ELSE IF merged = 0 /\ \E a \in Accounts : work[a] = "err"
                                 THEN "failed" ELSE "finished",
                       n |-> merged]
        /\ driver' = "decided"
        /\ UNCHANGED <<row, work, done, cancelled, handlerVars, clientVars, faults>>

\* update_state; an error is discarded.
Persist ==
    /\ driver = "decided"
    /\ \/ row' = outcome
       \/ PersistFails /\ UNCHANGED row
    /\ driver' = "persisted"
    /\ UNCHANGED <<work, done, cancelled, outcome, handlerVars, clientVars, faults>>

\* The forced progress and Finished, with no await between them.
Announce ==
    /\ driver = "persisted"
    /\ inbox' = AfterSend(<<Progress(outcome.n), Finished(outcome)>>)
    /\ driver' = "announced"
    /\ UNCHANGED <<row, work, done, cancelled, outcome, handler, frames, sub, clientVars, faults>>

\* The channel is removed and the last sender dropped.
RemoveChannel ==
    /\ driver = "announced"
    /\ driver' = "gone"
    /\ UNCHANGED <<row, work, done, cancelled, outcome, handlerVars, clientVars, faults>>

-----------------------------------------------------------------------------
(* GET /apply/:jobId/stream *)

\* build_snapshot: the counts of the job row.  A failing load sends none.
ReadSnapshot ==
    /\ handler = "snapshot"
    /\ \/ frames' = <<Snapshot(row.n)>> /\ UNCHANGED faults
       \/ frames' = <<>> /\ faults < MaxFaults /\ faults' = faults + 1
    /\ handler' = "subscribe"
    /\ UNCHANGED <<jobVars, sub, inbox, clientVars>>

\* The receiver, if the job still has a channel.
Subscribe ==
    /\ handler = "subscribe"
    /\ sub' = HasChannel
    /\ handler' = IF HasChannel THEN "open" ELSE "terminal"
    /\ UNCHANGED <<jobVars, frames, inbox, clientVars, faults>>

\* Mutant: nothing is synthesized.
SynthesizeNever ==
    /\ handler = "terminal"
    /\ handler' = "open"
    /\ UNCHANGED <<jobVars, frames, sub, inbox, clientVars, faults>>

\* No channel: Finished is synthesized from a row that is not running.
Synthesize ==
    /\ handler = "terminal"
    /\ \/ /\ frames' = IF row.state = "running" THEN frames
                       ELSE Append(frames, Finished(row))
          /\ UNCHANGED faults
       \/ UNCHANGED frames /\ faults < MaxFaults /\ faults' = faults + 1
    /\ handler' = "open"
    /\ UNCHANGED <<jobVars, sub, inbox, clientVars>>

-----------------------------------------------------------------------------
(* useCleanupApply *)

\* openStream closes the old source and asks for a new one.
OpenStream == handler' = "snapshot" /\ frames' = <<>> /\ sub' = FALSE /\ inbox' = <<>>

CloseStream == handler' = "none" /\ frames' = <<>> /\ sub' = FALSE /\ inbox' = <<>>

\* onerror: stop if the hook is terminal, else wait and try again.
OnError == /\ handler' = IF ui \in Terminal THEN "none" ELSE "backoff"
           /\ frames' = <<>> /\ sub' = FALSE /\ inbox' = <<>>

\* The answer to POST /apply, or its loss.
StartReply ==
    /\ ui = "starting"
    /\ \/ ui' = "running" /\ OpenStream /\ UNCHANGED faults
       \/ /\ faults < MaxFaults /\ faults' = faults + 1
          /\ ui' = "error" /\ UNCHANGED handlerVars
    /\ UNCHANGED <<jobVars, shown, cancelReq, settled>>

\* reduceEvent: an operation is counted, every other event replaces the counts.
Reduced(ev) == IF ev.type = "opApplied" THEN shown + 1 ELSE ev.n

\* The next frame of the stream.
Receive ==
    LET queue == frames \o inbox
        ev    == Head(queue)
    IN  /\ handler = "open" /\ queue # <<>>
        /\ shown' = Reduced(ev)
        /\ IF ev.type = "finished"
           THEN ui' = Shows(ev.status) /\ settled' = TRUE /\ CloseStream
           ELSE /\ IF frames # <<>> THEN frames' = Tail(frames) /\ UNCHANGED inbox
                                    ELSE inbox' = Tail(inbox) /\ UNCHANGED frames
                /\ UNCHANGED <<ui, settled, handler, sub>>
        /\ UNCHANGED <<jobVars, cancelReq, faults>>

\* The server closes a stream that has nothing more to say.
StreamEnds ==
    /\ handler = "open" /\ frames = <<>> /\ inbox = <<>>
    /\ ~(sub /\ HasChannel)
    /\ OnError
    /\ UNCHANGED <<jobVars, clientVars, faults>>

\* The connection breaks.
Disconnect ==
    /\ handler \in {"snapshot", "subscribe", "terminal", "open"}
    /\ faults < MaxFaults /\ faults' = faults + 1
    /\ OnError
    /\ UNCHANGED <<jobVars, clientVars>>

\* The backoff timer.
TimerFires ==
    /\ handler = "backoff"
    /\ IF ui \in Terminal THEN CloseStream ELSE OpenStream
    /\ UNCHANGED <<jobVars, clientVars, faults>>

\* reconnect()
Reconnect ==
    /\ ui = "running"
    /\ faults < MaxFaults /\ faults' = faults + 1
    /\ OpenStream
    /\ UNCHANGED <<jobVars, clientVars>>

\* The cancel button, shown while the hook says running.
CancelClick ==
    /\ ui = "running" /\ cancelReq = "no"
    /\ cancelReq' = "sent"
    /\ UNCHANGED <<jobVars, handlerVars, ui, shown, settled, faults>>

\* ApplyOrchestrator::cancel: 204 or 404.
CancelHandled ==
    /\ cancelReq = "sent"
    /\ cancelled' = (cancelled \/ HasChannel)
    /\ cancelReq' = IF HasChannel THEN "ok" ELSE "notFound"
    /\ UNCHANGED <<row, driver, work, done, outcome, handlerVars, ui, shown, settled, faults>>

\* Mutant: the optimistic state is written over a terminal one.
CancelReplyAlways ==
    /\ cancelReq \in {"ok", "notFound"}
    /\ ui' = IF cancelReq = "ok" THEN "cancelled" ELSE ui
    /\ cancelReq' = "over"
    /\ UNCHANGED <<jobVars, handlerVars, shown, settled, faults>>

\* 204: cancelled is shown at once unless a terminal state already is.
CancelReply ==
    /\ cancelReq \in {"ok", "notFound"}
    /\ ui' = IF cancelReq = "ok" /\ ui \notin Terminal THEN "cancelled" ELSE ui
    /\ cancelReq' = "over"
    /\ UNCHANGED <<jobVars, handlerVars, shown, settled, faults>>

-----------------------------------------------------------------------------
\* The process dies: the row stays, every connection breaks.
Crash ==
    /\ CanCrash /\ driver \notin {"gone", "dead"}
    /\ driver' = "dead"
    /\ work' = [a \in Accounts |-> "err"]
    /\ IF handler \in {"none", "backoff"} THEN UNCHANGED handlerVars ELSE OnError
    /\ UNCHANGED <<row, done, cancelled, outcome, clientVars, faults>>

DriverStep == Decide \/ Persist \/ Announce \/ RemoveChannel

WorkerStep(a) == ApplyRow(a) \/ EmitProgress(a) \/ EndWorker(a)

HandlerStep == ReadSnapshot \/ Subscribe \/ Synthesize \/ StreamEnds

ClientStep == StartReply \/ Receive \/ TimerFires \/ CancelReply

Next ==
    \/ \E a \in Accounts : WorkerStep(a)
    \/ DriverStep \/ HandlerStep \/ ClientStep
    \/ CancelClick \/ CancelHandled \/ Disconnect \/ Reconnect \/ Crash

\* Tasks are polled, frames are delivered in the end, timers fire.
Fairness ==
    /\ \A a \in Accounts : WF_vars(WorkerStep(a))
    /\ WF_vars(DriverStep) /\ WF_vars(HandlerStep) /\ WF_vars(ClientStep)
    /\ WF_vars(CancelHandled)

Spec == Init /\ [][Next]_vars /\ Fairness

-----------------------------------------------------------------------------
TypeOK ==
    /\ row \in [state : {"running", "finished", "failed", "cancelled"}, n : Nat]
    /\ driver \in {"running", "decided", "persisted", "announced", "gone", "dead"}
    /\ work \in [Accounts -> {"loop", "progress", "ok", "err"}]
    /\ done \in [Accounts -> 0..MaxOps]
    /\ cancelled \in BOOLEAN
    /\ outcome \in [state : {"running", "finished", "failed", "cancelled"}, n : Nat]
    /\ handler \in {"none", "snapshot", "subscribe", "terminal", "open", "backoff"}
    /\ frames \in Seq(Frame) /\ Len(frames) <= 2
    /\ sub \in BOOLEAN
    /\ inbox \in Seq(Frame) /\ Len(inbox) <= Capacity
    /\ ui \in {"starting", "running"} \cup Terminal
    /\ shown \in Nat
    /\ cancelReq \in {"no", "sent", "ok", "notFound", "over"}
    /\ settled \in BOOLEAN
    /\ faults \in 0..MaxFaults

\* Once a finished event was reduced, live or synthesized, the hook shows the
\* outcome the driver decided, with its counts, and keeps showing it: whatever
\* was lagged over, lost in a reconnect, or answered late.
SettledShowsOutcome ==
    settled => ui = Shows(outcome.state) /\ shown = outcome.n /\ outcome.state # "running"

\* What is shown never exceeds what was applied: no event is counted on top of
\* a snapshot that already contains it.
NeverOverclaims == shown <= Applied

\* What the client shows, before the end and after it, is what happened.
ShowsWhatHappened == SettledShowsOutcome /\ NeverOverclaims

\* A client that follows the job gets its end, through however many lost
\* connections, failed loads and lagged events: unless it stopped at its own
\* optimistic "cancelled", or the row was left running for ever (by a crash, or
\* by an update_state that failed).
ClientSettles ==
    ui = "running" ~> \/ settled \/ ui = "cancelled"
                      \/ driver \in {"gone", "dead"} /\ row.state = "running"
=============================================================================
